----------------------------- MODULE PiiLambda ------------------------------
(***************************************************************************)
(* The tagging function (services/pii-lambda): lambda_handler reads the    *)
(* objects a storage notification names, tags them and writes them again,  *)
(* each storage call retried, what fails sent to a dead-letter bucket.     *)
(*                                                                         *)
(* Invocations run beside each other and the platform may deliver a        *)
(* notification any number of times.  An object's text is abstracted to    *)
(* the set of the kinds of value it contains; a storage call may fail      *)
(* before or after it took effect.                                         *)
(***************************************************************************)
EXTENDS Integers, Sequences, FiniteSets

CONSTANTS Objects,
          Malformed,    \* objects whose text is no JSON
          Contents,     \* the sets of kinds of value an event may contain
          Invocations,
          MaxBatch,     \* bound: records in a notification
          RetrySettings,\* the values of MAX_RETRIES to look at
          DlqConfigured \* DLQ_BUCKET is set

Kinds == {"EMAIL", "PHONE", "CREDIT_CARD", "TOKEN"}
Tags == {"SAFE", "RED_FLAG", "CRITICAL"}

ASSUME LambdaAssumption ==
    /\ Malformed \subseteq Objects
    /\ Contents \subseteq SUBSET Kinds
    /\ MaxBatch \in Nat \ {0}
    /\ RetrySettings \subseteq Nat
    /\ DlqConfigured \in BOOLEAN
    /\ IsFiniteSet(Invocations)

VARIABLES
    maxRetries, \* MAX_RETRIES
    values, \* the kinds of value in the fields of each object's event
    inv,    \* the invocations
    tagged, \* the tag each object was written with, "none" before
    dlq     \* the objects with an entry in the dead-letter bucket

\* History variables, for the properties alone.
VARIABLES
    puts,   \* how often each tagged object was stored
    excused \* how often it may be stored again, see Stores and HeadFails

config == <<maxRetries, values>>
history == <<puts, excused>>
storage == <<tagged, dlq, history>>
vars == <<config, inv, storage>>

Idle == [batch |-> <<>>, pos |-> 0, phase |-> "idle", attempt |-> 0,
         processed |-> 0, skipped |-> 0, errors |-> 0]

Init ==
    /\ maxRetries \in RetrySettings
    /\ values \in [Objects -> Contents]
    /\ \A o \in Malformed : values[o] = {}
    /\ inv = [i \in Invocations |-> Idle]
    /\ tagged = [o \in Objects |-> "none"]
    /\ dlq = {}
    /\ puts = [o \in Objects |-> 0]
    /\ excused = [o \in Objects |-> 0]

-----------------------------------------------------------------------------
\* What the expressions find in the text of an event: its values, and a phone
\* number in its timestamp ("2026-11-19" is digits and dashes as PHONE_RE asks
\* for), which the proxy writes into every event.
Matched(o) == values[o] \cup {"PHONE"}

Weight(kind) ==
    CASE kind \in {"EMAIL", "PHONE"} -> 20
      [] kind = "CREDIT_CARD" -> 40
      [] kind = "TOKEN" -> 50

\* Each kind that is found adds its weight, once.
Scored(kind, kinds) == IF kind \in kinds THEN Weight(kind) ELSE 0
RiskScore(kinds) ==
    Scored("EMAIL", kinds) + Scored("PHONE", kinds)
        + Scored("CREDIT_CARD", kinds) + Scored("TOKEN", kinds)

\* The tag is raised by the thresholds in turn.
Severity(score) ==
    IF score >= 50 THEN "CRITICAL" ELSE IF score >= 20 THEN "RED_FLAG" ELSE "SAFE"

TagOf(o) == Severity(RiskScore(Matched(o)))

-----------------------------------------------------------------------------
Record(i) == inv[i].batch[inv[i].pos]
Doing(i, phase) == inv[i].phase = phase
Calls(i) == inv[i].attempt < maxRetries

\* inv[i] in another phase of the same record.
In(i, phase) == [inv[i] EXCEPT !.phase = phase, !.attempt = 0]

\* v after its record: the next record, or the answer 200.
Advanced(v) ==
    [v EXCEPT !.pos = @ + 1, !.attempt = 0,
              !.phase = IF v.pos = Len(v.batch) THEN "returned" ELSE "get"]

\* v when an exception reaches the handler's except clause: the error is
\* counted and the record goes to the dead-letter bucket, if there is one.
Caught(v) ==
    LET w == [v EXCEPT !.errors = @ + 1]
    IN  IF DlqConfigured THEN [w EXCEPT !.phase = "dlq", !.attempt = 0] ELSE Advanced(w)

Raised(v) == IF v.phase = "dlq" THEN [v EXCEPT !.phase = "failed"] ELSE Caught(v)

Become(i, v) == inv' = [inv EXCEPT ![i] = v]

\* _with_retry: a failed call is repeated until maxRetries calls have failed.
LastAttemptLate(v) == v.attempt = maxRetries
LastAttempt(v) == v.attempt + 1 = maxRetries

CallFails(i) ==
    /\ \E p \in {"get", "put", "dlq"} : Doing(i, p)
    /\ Calls(i)
    /\ Become(i, IF LastAttempt(inv[i]) THEN Raised(inv[i])
                 ELSE [inv[i] EXCEPT !.attempt = @ + 1])

FailsUnchanged(i) == CallFails(i) /\ UNCHANGED <<config, storage>>

\* With maxRetries = 0 the loop makes no call and "raise last_exc" raises.
NoCall(i) ==
    /\ \E p \in {"get", "put", "dlq"} : Doing(i, p)
    /\ ~ Calls(i)
    /\ Become(i, Raised(inv[i]))
    /\ UNCHANGED <<config, storage>>

\* A notification is delivered, for the first time or again.
Invoke(i) ==
    /\ Doing(i, "idle")
    /\ \E n \in 1..MaxBatch : \E batch \in [1..n -> Objects] :
          Become(i, [Idle EXCEPT !.batch = batch, !.pos = 1, !.phase = "get"])
    /\ UNCHANGED <<config, storage>>

\* The object is there; reading its body may fail, which is not retried.
Get(i) ==
    /\ Doing(i, "get") /\ Calls(i)
    /\ \/ Record(i) \notin Malformed /\ Become(i, In(i, "head"))
       \/ Become(i, Caught(inv[i]))
    /\ UNCHANGED <<config, storage>>

HeadAnswersPresent(i) == TRUE
HeadAnswersAbsent(i) == FALSE
HeadAnswers(i) == tagged[Record(i)] # "none"

\* _already_processed: the tagged object is there and the record is skipped...
HeadFinds(i) ==
    /\ Doing(i, "head")
    /\ HeadAnswers(i)
    /\ Become(i, Advanced([inv[i] EXCEPT !.skipped = @ + 1]))
    /\ UNCHANGED <<config, storage>>

\* ... or it is not there...
HeadMisses(i) ==
    /\ Doing(i, "head")
    /\ ~ HeadAnswers(i)
    /\ Become(i, In(i, "put"))
    /\ UNCHANGED <<config, storage>>

\* ... or the service answered with an error, which is taken for an absent
\* object: one that is there will be stored again.
HeadFails(i) ==
    /\ Doing(i, "head")
    /\ Become(i, In(i, "put"))
    /\ excused' = IF tagged[Record(i)] = "none" THEN excused
                  ELSE [excused EXCEPT ![Record(i)] = @ + 1]
    /\ UNCHANGED <<config, tagged, dlq, puts>>

\* Any other exception of the call is caught by the handler.
HeadRaises(i) ==
    /\ Doing(i, "head")
    /\ Become(i, Caught(inv[i]))
    /\ UNCHANGED <<config, storage>>

\* The invocations that have looked for o and are about to store it.
Storing(o) == {i \in Invocations : Doing(i, "put") /\ Record(i) = o}

\* put_object takes effect.  The first time, the others that have looked already
\* are excused; and so is the retry of a call that slips, which is to say that
\* it fails after this.
Stores(i, slips) ==
    LET o == Record(i)
        late == IF tagged[o] = "none" THEN Cardinality(Storing(o) \ {i}) ELSE 0
    IN  /\ tagged' = [tagged EXCEPT ![o] = TagOf(o)]
        /\ puts' = [puts EXCEPT ![o] = @ + 1]
        /\ excused' = [excused EXCEPT ![o] = @ + late + slips]
        /\ UNCHANGED <<config, dlq>>

Put(i) ==
    /\ Doing(i, "put") /\ Calls(i)
    /\ Stores(i, 0)
    /\ Become(i, Advanced([inv[i] EXCEPT !.processed = @ + 1]))

PutStoresAndFails(i) ==
    /\ Doing(i, "put")
    /\ CallFails(i)
    /\ Stores(i, 1)

\* _send_to_dlq
SendToDlq(i) ==
    /\ Doing(i, "dlq") /\ Calls(i)
    /\ dlq' = dlq \cup {Record(i)}
    /\ Become(i, Advanced(inv[i]))
    /\ UNCHANGED <<config, tagged, history>>

\* The platform ends an invocation that takes too long.
TimeOut(i) ==
    /\ inv[i].phase \in {"get", "head", "put", "dlq"}
    /\ Become(i, [inv[i] EXCEPT !.phase = "failed"])
    /\ UNCHANGED <<config, storage>>

Work(i) ==
    \/ FailsUnchanged(i) \/ NoCall(i) \/ Get(i)
    \/ HeadFinds(i) \/ HeadMisses(i) \/ HeadFails(i) \/ HeadRaises(i)
    \/ Put(i) \/ PutStoresAndFails(i) \/ SendToDlq(i)

Next == \E i \in Invocations : Invoke(i) \/ Work(i) \/ TimeOut(i)

Spec == Init /\ [][Next]_vars

-----------------------------------------------------------------------------
Phases == {"idle", "get", "head", "put", "dlq", "returned", "failed"}
Invocation == [batch : Seq(Objects), pos : Nat, phase : Phases, attempt : Nat,
               processed : Nat, skipped : Nat, errors : Nat]

\* The types.  What is tagged is well formed, and tagged by what its event has: a
\* phone number is found in every event, so none is SAFE, and with a card or a
\* token the weights reach 50.
TypeOK ==
    /\ maxRetries \in RetrySettings
    /\ values \in [Objects -> Contents]
    /\ tagged \in [Objects -> Tags \cup {"none"}]
    /\ \A o \in Objects : tagged[o] # "none" =>
          /\ o \notin Malformed
          /\ tagged[o] = IF values[o] \cap {"CREDIT_CARD", "TOKEN"} # {}
                         THEN "CRITICAL" ELSE "RED_FLAG"
    /\ dlq \subseteq Objects
    /\ puts \in [Objects -> Nat] /\ excused \in [Objects -> Nat]
    /\ inv \in [Invocations -> Invocation]
    /\ \A i \in Invocations :
          /\ inv[i].pos <= Len(inv[i].batch) + 1
          /\ inv[i].attempt = 0 \/ inv[i].attempt < maxRetries

\* An invocation that answers 200 has left no record behind: each is counted
\* once, those it calls processed or skipped are tagged, and the errors are in
\* the dead-letter bucket; whatever failed, was stored although it failed, or
\* was written by another invocation in between.
ReturnedAccounted ==
    \A i \in Invocations : Doing(i, "returned") =>
        LET v == inv[i]
            Among(S) == {n \in DOMAIN v.batch : v.batch[n] \in S}
            done == {o \in Objects : tagged[o] # "none"}
        IN  /\ v.processed + v.skipped + v.errors = Len(v.batch)
            /\ v.processed + v.skipped <= Cardinality(Among(done))
            /\ DlqConfigured => /\ v.errors <= Cardinality(Among(dlq))
                                /\ Among(done \cup dlq) = DOMAIN v.batch

\* The look-up keeps a notification that is delivered again, and a record that a
\* batch has twice, from being stored again: a tagged object is stored once, and
\* once more for each other invocation that had looked for it before it was there,
\* for each look-up of it that the service answered with an error, and for each
\* write that failed although it had stored it.
RewritesBounded == \A o \in Objects : puts[o] <= 1 + excused[o]
=============================================================================
