------------------------------ MODULE Gateway -------------------------------
(***************************************************************************)
(* The request path of the proxy and what is recorded of it:               *)
(* RequestGuard and Recovery (internal/middleware), Gateway.ServeHTTP      *)
(* (internal/proxy), the counters of internal/metrics, the live feed of    *)
(* internal/logging and the reader behind /metrics.                        *)
(*                                                                         *)
(* A handler runs beside the others; each counter it adds to, the queue it *)
(* hands its event to and the feed it publishes it in is a step of its     *)
(* own.  What is left to record of a request is the sequence todo[r].      *)
(* Latencies are left out: they are added but nothing depends on them.     *)
(***************************************************************************)
EXTENDS Integers, Sequences, FiniteSets

CONSTANTS Requests,
          UpstreamClasses, \* the status classes the upstream answers with
          LiveCap,         \* liveCap, 5000
          Snapshots        \* TRUE if somebody reads /metrics

Classes == {"2xx", "3xx", "4xx", "5xx"}

ASSUME GatewayAssumption ==
    /\ IsFiniteSet(Requests)
    /\ UpstreamClasses \subseteq Classes
    /\ LiveCap \in Nat \ {0}
    /\ Snapshots \in BOOLEAN

StreamActions == {"allow", "redact_stream", "terminate_stream"}
Actions == {"block_input"} \cup StreamActions
Atomics == {"requests", "blocked", "scannerFailures", "upstreamFailures",
            "leaks", "terminations"}
Counters == Atomics \cup Actions \cup Classes
\* What a request ends with: the action of its event, or a reason for no event.
Outcomes == Actions \cup {"none", "refused", "scannerError", "buildError",
                          "upstreamError", "streamError", "cancelled"}

VARIABLES
    scannerFailOpen, terminateOnLeak, \* the configuration
    stage,      \* where each request is
    outcome,    \* what each request ended with
    todo,       \* what is left to record of it
    count,      \* the counters
    queue,      \* the events handed to the logging queue, in order
    queueClosed,\* main has closed the queue under the handlers
    published,  \* history: every event given to PublishLiveEvent, in order
    liveEvents, \* the live feed
    panicked,   \* requests whose handler panicked
    scanFailed, \* history: requests the scanner failed on
    leaked,     \* history: requests in whose answer a leak was found
    snap,       \* the snapshot being read, of the counters loaded so far
    loaded      \* how many loads of it are done

handlers == <<stage, outcome, todo, panicked, scanFailed, leaked>>
recorded == <<count, queue, published, liveEvents>>
reader == <<snap, loaded>>
config == <<scannerFailOpen, terminateOnLeak>>
vars == <<config, handlers, recorded, queueClosed, reader>>

Init ==
    /\ scannerFailOpen \in BOOLEAN /\ terminateOnLeak \in BOOLEAN
    /\ stage = [r \in Requests |-> "new"]
    /\ outcome = [r \in Requests |-> "none"]
    /\ todo = [r \in Requests |-> <<>>]
    /\ count = [c \in Counters |-> 0]
    /\ queue = <<>> /\ queueClosed = FALSE
    /\ published = <<>> /\ liveEvents = <<>>
    /\ panicked = {} /\ scanFailed = {} /\ leaked = {}
    /\ snap = [c \in Counters |-> 0]
    /\ loaded = 0

-----------------------------------------------------------------------------
\* What ServeHTTP records on each of its ways out, in its order.
ScannerErrorEffects == <<"scannerFailures", "5xx", "requests">>
BlockEffectsPublishFirst == <<"blocked", "4xx", "publish", "enqueue", "block_input", "requests">>
BlockEffects == <<"blocked", "4xx", "enqueue", "publish", "block_input", "requests">>
UpstreamErrorUncounted == <<"upstreamFailures", "5xx">>
UpstreamErrorEffects == <<"upstreamFailures", "5xx", "requests">>
StreamErrorEffects == <<"5xx", "requests">>
LeakEffects(action) ==
    CASE action = "terminate_stream" -> <<"leaks", "terminations">>
      [] action = "redact_stream" -> <<"leaks">>
      [] OTHER -> <<>>
ForwardEffects(action, class) ==
    LeakEffects(action) \o <<"enqueue", "publish", action, class, "requests">>

End(r, o, effects) ==
    /\ stage' = [stage EXCEPT ![r] = "recording"]
    /\ outcome' = [outcome EXCEPT ![r] = o]
    /\ todo' = [todo EXCEPT ![r] = effects]

GoTo(r, s) ==
    /\ stage' = [stage EXCEPT ![r] = s]
    /\ UNCHANGED <<outcome, todo>>

\* The guard refuses the request, or its body cannot be read: an answer of
\* 413, 415 or 400 that nothing records.
Arrive(r) ==
    /\ stage[r] = "new"
    /\ GoTo(r, "scanning") \/ End(r, "refused", <<>>)
    /\ UNCHANGED <<panicked, scanFailed, leaked>>

\* The classifier fails, closed or open, or returns a score.
ScanFails(r) ==
    /\ stage[r] = "scanning"
    /\ scanFailed' = scanFailed \cup {r}
    /\ IF scannerFailOpen
       THEN GoTo(r, "forwarding")
       ELSE End(r, "scannerError", ScannerErrorEffects)
    /\ UNCHANGED <<panicked, leaked>>

Scan(r) ==
    /\ stage[r] = "scanning"
    /\ GoTo(r, "forwarding") \/ End(r, "block_input", BlockEffects)
    /\ UNCHANGED <<panicked, scanFailed, leaked>>

\* The upstream request is built and sent.
Forward(r) ==
    /\ stage[r] = "forwarding"
    /\ \/ GoTo(r, "streaming")
       \/ End(r, "buildError", <<>>)
       \/ End(r, "upstreamError", UpstreamErrorEffects)
    /\ UNCHANGED <<panicked, scanFailed, leaked>>

ActionOf(leak) ==
    IF ~ leak THEN "allow"
    ELSE IF terminateOnLeak THEN "terminate_stream" ELSE "redact_stream"

\* InterceptAndWrite returns (module StreamInterceptor): with or without a
\* leak, with an error or without.  A terminated stream has no error.
StreamEnds(r) ==
    /\ stage[r] = "streaming"
    /\ \E leak \in BOOLEAN, class \in UpstreamClasses :
          /\ leaked' = IF leak THEN leaked \cup {r} ELSE leaked
          /\ End(r, ActionOf(leak), ForwardEffects(ActionOf(leak), class))
    /\ UNCHANGED <<panicked, scanFailed>>

StreamBreaks(r) ==
    /\ stage[r] = "streaming"
    /\ \E leak \in BOOLEAN :
          /\ leak => ~ terminateOnLeak
          /\ leaked' = IF leak THEN leaked \cup {r} ELSE leaked
    /\ \/ End(r, "streamError", StreamErrorEffects)
       \/ End(r, "cancelled", <<>>)
    /\ UNCHANGED <<panicked, scanFailed>>

Handle(r) ==
    /\ Arrive(r) \/ ScanFails(r) \/ Scan(r) \/ Forward(r) \/ StreamEnds(r) \/ StreamBreaks(r)
    /\ UNCHANGED <<config, recorded, queueClosed, reader>>

-----------------------------------------------------------------------------
NextEffect(r) == Head(todo[r])
Done(r) ==
    /\ todo' = [todo EXCEPT ![r] = Tail(@)]
    /\ UNCHANGED <<stage, outcome, panicked, scanFailed, leaked>>

\* RecordRequest, RecordBlocked, ..., RecordAction, RecordStatus: one atomic
\* addition, or one increment under the maps' lock.
Record(r) ==
    /\ todo[r] # <<>> /\ NextEffect(r) \in Counters
    /\ count' = [count EXCEPT ![NextEffect(r)] = @ + 1]
    /\ Done(r)
    /\ UNCHANGED <<config, queue, published, liveEvents, queueClosed, reader>>

\* The queue takes the event, into its channel or its log (module LogQueue).
Enqueue(r) ==
    /\ todo[r] # <<>> /\ NextEffect(r) = "enqueue"
    /\ queue' = Append(queue, r)
    /\ Done(r)
    /\ UNCHANGED <<config, count, published, liveEvents, queueClosed, reader>>

\* Or the send panics, because the queue was closed meanwhile: Recovery ends
\* the handler, and what it had not recorded yet is not recorded.
EnqueuePanics(r) ==
    /\ todo[r] # <<>> /\ NextEffect(r) = "enqueue"
    /\ queueClosed
    /\ panicked' = panicked \cup {r}
    /\ todo' = [todo EXCEPT ![r] = <<>>]
    /\ UNCHANGED <<config, stage, outcome, scanFailed, leaked, recorded, queueClosed, reader>>

TrimmedNever(feed) == feed
Trimmed(feed) ==
    IF Len(feed) > LiveCap
    THEN SubSeq(feed, Len(feed) - LiveCap + 1, Len(feed)) ELSE feed

PublishLiveEvent(r) ==
    /\ todo[r] # <<>> /\ NextEffect(r) = "publish"
    /\ published' = Append(published, r)
    /\ liveEvents' = Trimmed(Append(liveEvents, r))
    /\ Done(r)
    /\ UNCHANGED <<config, count, queue, queueClosed, reader>>

CloseQueue ==
    /\ ~ queueClosed
    /\ queueClosed' = TRUE
    /\ UNCHANGED <<config, handlers, recorded, reader>>

-----------------------------------------------------------------------------
\* GetSnapshot loads the atomics one by one, then copies both maps at once.
LoadOrderRequestsLast ==
    <<"blocked", "scannerFailures", "upstreamFailures", "leaks", "terminations", "requests">>
LoadOrder ==
    <<"requests", "blocked", "scannerFailures", "upstreamFailures", "leaks", "terminations">>

LoadAtomic ==
    /\ Snapshots /\ loaded < Len(LoadOrder)
    /\ snap' = [snap EXCEPT ![LoadOrder[loaded + 1]] = count[LoadOrder[loaded + 1]]]
    /\ loaded' = loaded + 1
    /\ UNCHANGED <<config, handlers, recorded, queueClosed>>

CopyMaps ==
    /\ loaded = Len(LoadOrder)
    /\ snap' = [c \in Counters |-> IF c \in Atomics THEN snap[c] ELSE count[c]]
    /\ loaded' = loaded + 1
    /\ UNCHANGED <<config, handlers, recorded, queueClosed>>

Next ==
    \/ \E r \in Requests :
          Handle(r) \/ Record(r) \/ Enqueue(r) \/ EnqueuePanics(r) \/ PublishLiveEvent(r)
    \/ CloseQueue
    \/ LoadAtomic \/ CopyMaps

Spec == Init /\ [][Next]_vars

-----------------------------------------------------------------------------
\* The totals of the two maps of a snapshot.
OfClasses(f) == f["2xx"] + f["3xx"] + f["4xx"] + f["5xx"]
OfActions(f) == f["block_input"] + f["allow"] + f["redact_stream"] + f["terminate_stream"]
InSeq(r, s) == \E i \in DOMAIN s : s[i] = r
With(o) == {r \in Requests : outcome[r] = o}

\* The types; the feed holds no more than its capacity.
TypeOK ==
    /\ stage \in [Requests -> {"new", "scanning", "forwarding", "streaming", "recording"}]
    /\ outcome \in [Requests -> Outcomes]
    /\ todo \in [Requests -> Seq(Counters \cup {"enqueue", "publish"})]
    /\ count \in [Counters -> Nat]
    /\ queue \in Seq(Requests) /\ published \in Seq(Requests)
    /\ liveEvents \in Seq(Requests) /\ Len(liveEvents) <= LiveCap
    /\ panicked \subseteq Requests
    /\ scanFailed \subseteq Requests /\ leaked \subseteq Requests
    /\ snap \in [Counters -> Nat] /\ loaded \in 0..Len(LoadOrder) + 1

\* /metrics is read while handlers run and without a common lock, but a
\* snapshot never shows a request whose status, or whose action or failure, it
\* does not show: requests is recorded last and read first.  (An answer whose
\* stream broke has a status and no action.)
SnapshotCovered ==
    loaded = Len(LoadOrder) + 1 =>
        /\ snap["requests"] <= OfClasses(snap)
        /\ snap["requests"] <= OfActions(snap) + snap["scannerFailures"]
                                 + snap["upstreamFailures"]
                                 + Cardinality(With("streamError"))

AtRest == \A r \in Requests : todo[r] = <<>>

\* When nothing is being recorded and no handler has panicked, the counters
\* agree with each other, with the log and with what happened, over every way
\* out of ServeHTTP.  Two things are seen by no counter and no event: a leak in
\* an answer whose stream broke, and a scanner failure the proxy opened on.
BooksBalance ==
    AtRest /\ panicked = {} =>
        /\ OfClasses(count) = count["requests"]
        /\ OfActions(count) = Len(queue)
        /\ count["requests"] = Len(queue) + count["scannerFailures"]
              + count["upstreamFailures"] + Cardinality(With("streamError"))
        /\ count["blocked"] = count["block_input"]
        /\ count["leaks"] = count["redact_stream"] + count["terminate_stream"]
        /\ count["terminations"] = count["terminate_stream"]
        /\ count["leaks"] = Cardinality({r \in leaked : outcome[r] \in StreamActions})
        /\ count["scannerFailures"] =
              IF scannerFailOpen THEN 0 ELSE Cardinality(scanFailed)

\* The feed shows the newest events, each once, and nothing that the queue has
\* not taken: also when handlers publish in another order than they enqueue
\* and when one panics between the two.
FeedFaithful ==
    /\ \E n \in 0..Len(published) : liveEvents = SubSeq(published, n + 1, Len(published))
    /\ Len(liveEvents) < LiveCap => liveEvents = published
    /\ \A i, j \in DOMAIN liveEvents : liveEvents[i] = liveEvents[j] => i = j
    /\ \A i \in DOMAIN liveEvents : InSeq(liveEvents[i], queue)
=============================================================================
