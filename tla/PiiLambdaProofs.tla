--------------------------- MODULE PiiLambdaProofs ---------------------------
(***************************************************************************)
(* Theorems of PiiLambda, for any objects, any number of invocations over  *)
(* batches of any length, and any number of retries.                       *)
(***************************************************************************)
EXTENDS PiiLambda, FiniteSetTheorems, TLAPS

Busy == {"get", "head", "put", "dlq"}
Done == {o \in Objects : tagged[o] # "none"}

\* The first k records of v that are about an object of S.
Among(v, S, k) == {n \in 1..k : v.batch[n] \in S}

\* What the counts of v say of its first k records, when the objects of S are
\* tagged and those of D are in the dead-letter bucket and e errors have not
\* been sent there yet.
Counted(v, S, D, k, e) ==
    /\ v.processed + v.skipped + v.errors = k + e
    /\ v.processed + v.skipped <= Cardinality(Among(v, S, k))
    /\ DlqConfigured =>
          /\ v.errors <= Cardinality(Among(v, D, k)) + e
          /\ \A n \in 1..k : v.batch[n] \in S \cup D

\* What is so of an invocation.  One that failed is not looked at again.
Sound(v, S, D) ==
    /\ v.pos <= Len(v.batch) + 1
    /\ v.phase \in Busy => v.pos \in 1..Len(v.batch)
    /\ v.phase \in {"head", "put"} => v.batch[v.pos] \notin Malformed
    /\ v.phase = "returned" => v.pos = Len(v.batch) + 1
    /\ v.phase \in {"get", "head", "put", "returned"} => Counted(v, S, D, v.pos - 1, 0)
    /\ v.phase = "dlq" => Counted(v, S, D, v.pos - 1, 1)

Truthful == \A o \in Done : o \notin Malformed /\ tagged[o] = TagOf(o)

StoreSound ==
    /\ maxRetries \in RetrySettings
    /\ values \in [Objects -> Contents]
    /\ tagged \in [Objects -> Tags \cup {"none"}]
    /\ dlq \subseteq Objects
    /\ Truthful

LambdaInv ==
    /\ StoreSound
    /\ inv \in [Invocations -> Invocation]
    /\ \A i \in Invocations : inv[i].attempt = 0 \/ inv[i].attempt < maxRetries
    /\ \A i \in Invocations : Sound(inv[i], Done, dlq)

-----------------------------------------------------------------------------
(* Counting records.                                                         *)

\* What is counted among the first records does not shrink with more objects or
\* more records, and grows with a record that is counted.
LEMMA AmongGrows ==
    ASSUME NEW v, NEW S, NEW T, S \subseteq T, NEW k \in Nat
    PROVE  /\ Cardinality(Among(v, S, k)) \in Nat
           /\ Cardinality(Among(v, T, k)) \in Nat
           /\ Cardinality(Among(v, T, k + 1)) \in Nat
           /\ Cardinality(Among(v, S, k)) <= Cardinality(Among(v, T, k))
           /\ Cardinality(Among(v, S, k)) <= Cardinality(Among(v, T, k + 1))
           /\ v.batch[k + 1] \in T =>
                 Cardinality(Among(v, S, k)) + 1 <= Cardinality(Among(v, T, k + 1))
<1> DEFINE A == Among(v, S, k)
           B == Among(v, T, k + 1)
           C == Among(v, T, k)
<1>1. IsFiniteSet(1..k) /\ IsFiniteSet(1..(k + 1))
    BY FS_Interval
<1>2. A \subseteq 1..k /\ C \subseteq 1..k /\ B \subseteq 1..(k + 1) /\ A \subseteq B /\ A \subseteq C
    BY DEF Among
<1>3. IsFiniteSet(A) /\ IsFiniteSet(B) /\ IsFiniteSet(C)
    BY <1>1, <1>2, FS_Subset
<1>4. Cardinality(A) \in Nat /\ Cardinality(B) \in Nat /\ Cardinality(C) \in Nat
    BY <1>3, FS_CardinalityType
<1>5. Cardinality(A) <= Cardinality(B) /\ Cardinality(A) <= Cardinality(C)
    BY <1>2, <1>3, FS_Subset
<1>6. ASSUME v.batch[k + 1] \in T
      PROVE  Cardinality(A) + 1 <= Cardinality(B)
  <2>1. k + 1 \in B /\ k + 1 \notin A
      BY <1>6 DEF Among
  <2>2. A \cup {k + 1} \subseteq B
      BY <1>2, <2>1
  <2>3. Cardinality(A \cup {k + 1}) = Cardinality(A) + 1
      BY <1>3, <2>1, FS_AddElement
  <2>4. Cardinality(A \cup {k + 1}) <= Cardinality(B)
      BY <1>3, <2>2, FS_Subset
  <2> QED
      BY <2>3, <2>4
<1> QED
    BY <1>4, <1>5, <1>6

\* The counts stay good when more is tagged and more has been sent.
LEMMA CountedGrows ==
    ASSUME NEW v \in Invocation, NEW S, NEW T, NEW D, NEW E, S \subseteq T, D \subseteq E,
           NEW k \in Nat, NEW e \in Nat, Counted(v, S, D, k, e)
    PROVE  Counted(v, T, E, k, e)
<1>1. v.processed \in Nat /\ v.skipped \in Nat /\ v.errors \in Nat
    BY DEF Invocation
<1>2. Cardinality(Among(v, S, k)) \in Nat /\ Cardinality(Among(v, T, k)) \in Nat
      /\ Cardinality(Among(v, S, k)) <= Cardinality(Among(v, T, k))
    BY AmongGrows
<1>3. Cardinality(Among(v, D, k)) \in Nat /\ Cardinality(Among(v, E, k)) \in Nat
      /\ Cardinality(Among(v, D, k)) <= Cardinality(Among(v, E, k))
    BY AmongGrows
<1>4. v.processed + v.skipped + v.errors = k + e
    BY DEF Counted
<1>5. v.processed + v.skipped <= Cardinality(Among(v, T, k))
    BY <1>1, <1>2 DEF Counted
<1>6. DlqConfigured => v.errors <= Cardinality(Among(v, E, k)) + e
    BY <1>1, <1>3 DEF Counted
<1>7. DlqConfigured => \A n \in 1..k : v.batch[n] \in T \cup E
    BY DEF Counted
<1> QED
    BY <1>4, <1>5, <1>6, <1>7 DEF Counted

LEMMA SoundGrows ==
    ASSUME NEW v \in Invocation, NEW S, NEW T, NEW D, NEW E, S \subseteq T, D \subseteq E,
           Sound(v, S, D)
    PROVE  Sound(v, T, E)
<1>1. v.pos \in Nat /\ Len(v.batch) \in Nat
    BY DEF Invocation
<1>2. ASSUME v.phase \in {"get", "head", "put", "returned"}
      PROVE  Counted(v, T, E, v.pos - 1, 0)
  <2>1. v.pos - 1 \in Nat /\ Counted(v, S, D, v.pos - 1, 0)
      BY <1>1, <1>2 DEF Sound, Busy
  <2> QED
      BY <2>1, CountedGrows
<1>3. ASSUME v.phase = "dlq"
      PROVE  Counted(v, T, E, v.pos - 1, 1)
  <2>1. v.pos - 1 \in Nat /\ Counted(v, S, D, v.pos - 1, 1)
      BY <1>1, <1>3 DEF Sound, Busy
  <2> QED
      BY <2>1, CountedGrows
<1> QED
    BY <1>2, <1>3 DEF Sound

\* A sum of three with one more in it.
LEMMA OneMore ==
    ASSUME NEW p \in Nat, NEW q \in Nat, NEW e \in Nat
    PROVE  /\ (p + q + 1) + e = (p + q + e) + 1
           /\ p + q + (e + 1) = (p + q + e) + 1
OBVIOUS

\* A record that is done with: the counts are good for it too.
LEMMA AdvancedSound ==
    ASSUME NEW v \in Invocation, NEW S, NEW D, v.pos \in 1..Len(v.batch),
           Counted(v, S, D, v.pos, 0)
    PROVE  /\ Advanced(v) \in Invocation
           /\ Advanced(v).attempt = 0
           /\ Sound(Advanced(v), S, D)
<1> DEFINE w == Advanced(v)
<1>1. Len(v.batch) \in Nat /\ v.pos \in Nat
    BY DEF Invocation
<1>2. w \in Invocation
  <2>1. (IF v.pos = Len(v.batch) THEN "returned" ELSE "get") \in Phases
      BY DEF Phases
  <2>2. v.pos + 1 \in Nat
      BY <1>1
  <2> QED
      BY <2>1, <2>2 DEF Advanced, Invocation
<1>3. /\ w.batch = v.batch /\ w.pos = v.pos + 1 /\ w.attempt = 0
      /\ w.processed = v.processed /\ w.skipped = v.skipped /\ w.errors = v.errors
      /\ w.phase = IF v.pos = Len(v.batch) THEN "returned" ELSE "get"
    BY DEF Advanced, Invocation
<1>4. w.pos - 1 = v.pos
    BY <1>1, <1>3
<1>5. Counted(w, S, D, w.pos - 1, 0)
    BY <1>3, <1>4 DEF Counted, Among
<1>6. w.pos <= Len(w.batch) + 1 /\ (w.phase = "get" => w.pos \in 1..Len(w.batch))
      /\ (w.phase = "returned" => w.pos = Len(w.batch) + 1)
    BY <1>1, <1>3
<1> HIDE DEF w
<1>7. Sound(w, S, D)
    BY <1>3, <1>5, <1>6 DEF Sound, Busy
<1> QED
    BY <1>2, <1>3, <1>7 DEF w

\* An error that is caught counts for its record; it is sent next, or the record
\* is done with.
LEMMA CaughtSound ==
    ASSUME NEW v \in Invocation, NEW S, NEW D, v.pos \in 1..Len(v.batch),
           Counted(v, S, D, v.pos - 1, 0)
    PROVE  /\ Caught(v) \in Invocation
           /\ Caught(v).attempt = 0
           /\ Sound(Caught(v), S, D)
<1> DEFINE w == [v EXCEPT !.errors = @ + 1]
           k == v.pos - 1
<1>1. v.pos \in Nat /\ k \in Nat /\ v.processed \in Nat /\ v.skipped \in Nat /\ v.errors \in Nat
      /\ Len(v.batch) \in Nat
    BY DEF Invocation
<1>2. w \in Invocation
    BY DEF Invocation
<1>3. w.batch = v.batch /\ w.pos = v.pos /\ w.processed = v.processed /\ w.skipped = v.skipped
      /\ w.errors = v.errors + 1
    BY DEF Invocation
<1>4. Among(w, S, k) = Among(v, S, k) /\ Among(w, D, k) = Among(v, D, k)
    BY <1>3 DEF Among
<1>5. Cardinality(Among(v, S, k)) \in Nat /\ Cardinality(Among(v, D, k)) \in Nat
    BY <1>1, AmongGrows
<1>6. CASE DlqConfigured
  <2> DEFINE u == [w EXCEPT !.phase = "dlq", !.attempt = 0]
  <2>1. Caught(v) = u
      BY <1>6 DEF Caught
  <2>2. u \in Invocation
      BY <1>2 DEF Invocation, Phases
  <2>3. u.batch = v.batch /\ u.pos = v.pos /\ u.processed = v.processed
        /\ u.skipped = v.skipped /\ u.errors = v.errors + 1 /\ u.phase = "dlq" /\ u.attempt = 0
      BY <1>2, <1>3 DEF Invocation
  <2> HIDE DEF w, u
  <2>4. Among(u, S, k) = Among(v, S, k) /\ Among(u, D, k) = Among(v, D, k)
      BY <2>3 DEF Among
  <2>5. u.processed + u.skipped + u.errors = k + 1
    <3>1. v.processed + v.skipped + v.errors = k + 0
        BY DEF Counted
    <3> QED
        BY <1>1, <2>3, <3>1
  <2>6. u.errors <= Cardinality(Among(u, D, k)) + 1
      BY <1>1, <1>5, <1>6, <2>3, <2>4 DEF Counted
  <2>7. Counted(u, S, D, k, 1)
      BY <2>3, <2>4, <2>5, <2>6 DEF Counted
  <2>8. Sound(u, S, D)
      BY <1>1, <2>3, <2>7 DEF Sound
  <2> QED
      BY <2>1, <2>2, <2>3, <2>8
<1>7. CASE ~ DlqConfigured
  <2>1. Caught(v) = Advanced(w)
      BY <1>7 DEF Caught
  <2> HIDE DEF w
  <2>2. w.processed + w.skipped + w.errors = w.pos
    <3>1. v.processed + v.skipped + v.errors = k + 0
        BY DEF Counted
    <3>2. v.processed + v.skipped + (v.errors + 1) = (v.processed + v.skipped + v.errors) + 1
        BY <1>1, OneMore
    <3>3. (k + 0) + 1 = v.pos
        BY <1>1
    <3> QED
        BY <1>3, <3>1, <3>2, <3>3
  <2>3. k + 1 = w.pos
      BY <1>1, <1>3
  <2>4. Cardinality(Among(w, S, k)) <= Cardinality(Among(w, S, k + 1))
        /\ Cardinality(Among(w, S, k + 1)) \in Nat
      BY <1>1, AmongGrows
  <2>5. w.processed + w.skipped <= Cardinality(Among(w, S, k))
      BY <1>3, <1>4 DEF Counted
  <2>6. w.processed + w.skipped <= Cardinality(Among(w, S, w.pos))
      BY <1>1, <1>3, <1>4, <1>5, <2>3, <2>4, <2>5
  <2>7. w.pos + 0 = w.pos
      BY <1>1, <1>3
  <2>8. Counted(w, S, D, w.pos, 0)
      BY <1>7, <2>2, <2>6, <2>7 DEF Counted
  <2> QED
      BY <1>2, <1>3, <2>1, <2>8, AdvancedSound
<1> QED
    BY <1>6, <1>7

\* A record processed or skipped, when its object is tagged.
LEMMA DoneSound ==
    ASSUME NEW v \in Invocation, NEW w \in Invocation, NEW S, NEW T, NEW D, S \subseteq T,
           v.pos \in 1..Len(v.batch), Counted(v, S, D, v.pos - 1, 0),
           v.batch[v.pos] \in T,
           w.batch = v.batch, w.pos = v.pos, w.errors = v.errors,
           w.processed + w.skipped = v.processed + v.skipped + 1
    PROVE  /\ Advanced(w) \in Invocation
           /\ Advanced(w).attempt = 0
           /\ Sound(Advanced(w), T, D)
<1> DEFINE k == v.pos - 1
<1>1. v.pos \in Nat /\ k \in Nat /\ v.processed \in Nat /\ v.skipped \in Nat /\ v.errors \in Nat
      /\ w.processed \in Nat /\ w.skipped \in Nat /\ k + 1 = v.pos
  <2>1. v.pos \in Nat /\ v.processed \in Nat /\ v.skipped \in Nat /\ v.errors \in Nat
        /\ w.processed \in Nat /\ w.skipped \in Nat
      BY DEF Invocation
  <2>2. v.pos >= 1
      OBVIOUS
  <2> QED
      BY <2>1, <2>2
<1>2. Counted(v, S, D, k, 0)
    OBVIOUS
<1> HIDE DEF k
<1>3. w.processed + w.skipped + w.errors = v.pos + 0
  <2>1. v.processed + v.skipped + v.errors = k + 0
      BY <1>2 DEF Counted
  <2>2. w.processed + w.skipped + w.errors = (v.processed + v.skipped + 1) + v.errors
      OBVIOUS
  <2>3. (v.processed + v.skipped + 1) + v.errors = (v.processed + v.skipped + v.errors) + 1
    <3>1. v.processed \in Nat /\ v.skipped \in Nat /\ v.errors \in Nat
        BY <1>1
    <3> QED
        BY <3>1, OneMore
  <2>4. (k + 0) + 1 = v.pos + 0
      BY <1>1
  <2> QED
      BY <2>1, <2>2, <2>3, <2>4
<1>4. Among(w, T, v.pos) = Among(v, T, v.pos) /\ Among(w, D, v.pos) = Among(v, D, v.pos)
    BY DEF Among
<1>5. Cardinality(Among(v, S, k)) + 1 <= Cardinality(Among(v, T, v.pos))
      /\ Cardinality(Among(v, S, k)) \in Nat /\ Cardinality(Among(v, T, v.pos)) \in Nat
    BY <1>1, AmongGrows
<1>6. Cardinality(Among(v, D, k)) <= Cardinality(Among(v, D, v.pos))
      /\ Cardinality(Among(v, D, k)) \in Nat /\ Cardinality(Among(v, D, v.pos)) \in Nat
    BY <1>1, AmongGrows
<1>7. v.processed + v.skipped <= Cardinality(Among(v, S, k))
    BY <1>2 DEF Counted
<1>8. w.processed + w.skipped <= Cardinality(Among(w, T, v.pos))
    BY <1>1, <1>4, <1>5, <1>7
<1>9. DlqConfigured => v.errors <= Cardinality(Among(v, D, k)) + 0
    BY <1>2 DEF Counted
<1>10. DlqConfigured => w.errors <= Cardinality(Among(w, D, v.pos)) + 0
    BY <1>1, <1>4, <1>6, <1>9
<1>11. DlqConfigured => \A n \in 1..v.pos : w.batch[n] \in T \cup D
  <2> SUFFICES ASSUME DlqConfigured, NEW n \in 1..v.pos
               PROVE  v.batch[n] \in T \cup D
      OBVIOUS
  <2>1. CASE n = v.pos
      BY <2>1
  <2>2. CASE n # v.pos
    <3>1. n \in 1..k
        BY <1>1, <2>2
    <3> QED
        BY <1>2, <3>1 DEF Counted
  <2> QED
      BY <2>1, <2>2
<1>12. Counted(w, T, D, w.pos, 0)
    BY <1>3, <1>8, <1>10, <1>11 DEF Counted
<1> QED
    BY <1>12, AdvancedSound

\* A record sent to the dead-letter bucket.
LEMMA SentSound ==
    ASSUME NEW v \in Invocation, NEW S, NEW D, v.pos \in 1..Len(v.batch),
           Counted(v, S, D, v.pos - 1, 1)
    PROVE  LET E == D \cup {v.batch[v.pos]}
           IN  /\ Advanced(v) \in Invocation
               /\ Advanced(v).attempt = 0
               /\ Sound(Advanced(v), S, E)
<1> DEFINE k == v.pos - 1
           E == D \cup {v.batch[v.pos]}
<1>1. v.pos \in Nat /\ k \in Nat /\ v.processed \in Nat /\ v.skipped \in Nat /\ v.errors \in Nat
      /\ k + 1 = v.pos
    BY DEF Invocation
<1>2. Counted(v, S, D, k, 1)
    OBVIOUS
<1>3. v.batch[v.pos] \in E /\ D \subseteq E
    OBVIOUS
<1> HIDE DEF k, E
<1>4. v.processed + v.skipped + v.errors = v.pos + 0
    BY <1>1, <1>2 DEF Counted
<1>5. Cardinality(Among(v, S, k)) <= Cardinality(Among(v, S, v.pos))
      /\ Cardinality(Among(v, S, k)) \in Nat /\ Cardinality(Among(v, S, v.pos)) \in Nat
    BY <1>1, AmongGrows
<1>6. Cardinality(Among(v, D, k)) + 1 <= Cardinality(Among(v, E, v.pos))
      /\ Cardinality(Among(v, D, k)) \in Nat /\ Cardinality(Among(v, E, v.pos)) \in Nat
    BY <1>1, <1>3, AmongGrows
<1>7. v.processed + v.skipped <= Cardinality(Among(v, S, k))
    BY <1>2 DEF Counted
<1>8. v.processed + v.skipped <= Cardinality(Among(v, S, v.pos))
    BY <1>1, <1>5, <1>7
<1>9. DlqConfigured => v.errors <= Cardinality(Among(v, D, k)) + 1
    BY <1>2 DEF Counted
<1>10. DlqConfigured => v.errors <= Cardinality(Among(v, E, v.pos)) + 0
    BY <1>1, <1>6, <1>9
<1>11. DlqConfigured => \A n \in 1..v.pos : v.batch[n] \in S \cup E
  <2> SUFFICES ASSUME DlqConfigured, NEW n \in 1..v.pos
               PROVE  v.batch[n] \in S \cup E
      OBVIOUS
  <2>1. CASE n = v.pos
      BY <1>3, <2>1
  <2>2. CASE n # v.pos
    <3>1. n \in 1..k
        BY <1>1, <2>2
    <3> QED
        BY <1>2, <1>3, <3>1 DEF Counted
  <2> QED
      BY <2>1, <2>2
<1>12. Counted(v, S, E, v.pos, 0)
    BY <1>4, <1>8, <1>10, <1>11 DEF Counted
<1> QED
    BY <1>12, AdvancedSound DEF E

-----------------------------------------------------------------------------
(* The steps.                                                                *)

\* A step of one invocation keeps the invariant if the invocation stays sound
\* and nothing that was tagged or sent is lost.
LEMMA InvocationMoves ==
    ASSUME LambdaInv, NEW i \in Invocations, NEW v \in Invocation, Become(i, v),
           v.attempt = 0 \/ v.attempt < maxRetries,
           UNCHANGED config, StoreSound', Done \subseteq Done', dlq \subseteq dlq',
           Sound(v, Done', dlq')
    PROVE  LambdaInv'
<1>1. inv' \in [Invocations -> Invocation]
    BY DEF LambdaInv, Become
<1>2. \A j \in Invocations : inv'[j] = IF j = i THEN v ELSE inv[j]
    BY DEF LambdaInv, Become
<1>3. \A j \in Invocations : inv'[j].attempt = 0 \/ inv'[j].attempt < maxRetries'
    BY <1>2 DEF LambdaInv, config
<1>4. \A j \in Invocations : Sound(inv'[j], Done', dlq')
  <2> TAKE j \in Invocations
  <2>1. CASE j = i
      BY <1>2, <2>1
  <2>2. CASE j # i
    <3>1. inv[j] \in Invocation /\ Sound(inv[j], Done, dlq) /\ inv'[j] = inv[j]
        BY <1>2, <2>2 DEF LambdaInv
    <3> QED
        BY <3>1, SoundGrows
  <2> QED
      BY <2>1, <2>2
<1> QED
    BY <1>1, <1>3, <1>4 DEF LambdaInv

\* Above all when nothing is tagged or sent at all.
LEMMA InvocationKeeps ==
    ASSUME LambdaInv, NEW i \in Invocations, NEW v \in Invocation, Become(i, v),
           v.attempt = 0 \/ v.attempt < maxRetries,
           UNCHANGED <<config, tagged, dlq>>, Sound(v, Done, dlq)
    PROVE  LambdaInv'
<1>1. UNCHANGED <<maxRetries, values, tagged, dlq>>
    BY DEF config
<1>2. Done' = Done
    BY <1>1 DEF Done
<1>3. StoreSound'
    BY <1>1, <1>2 DEF LambdaInv, StoreSound, Truthful, TagOf, Matched
<1> QED
    BY <1>1, <1>2, <1>3, InvocationMoves

\* What is known of an invocation at work on a record.
LEMMA AtWork ==
    ASSUME LambdaInv, NEW i \in Invocations, inv[i].phase \in Busy
    PROVE  /\ inv[i] \in Invocation
           /\ inv[i].pos \in 1..Len(inv[i].batch)
           /\ inv[i].attempt \in Nat /\ (inv[i].attempt = 0 \/ inv[i].attempt < maxRetries)
           /\ maxRetries \in Nat
           /\ Sound(inv[i], Done, dlq)
           /\ Record(i) \in Objects
           /\ Record(i) = inv[i].batch[inv[i].pos]
<1>1. inv[i] \in Invocation /\ Sound(inv[i], Done, dlq)
    BY DEF LambdaInv
<1>2. inv[i].pos \in 1..Len(inv[i].batch) /\ inv[i].batch \in Seq(Objects)
    BY <1>1 DEF Sound, Invocation
<1>3. Record(i) \in Objects
    BY <1>2 DEF Record
<1> QED
    BY <1>1, <1>2, <1>3, LambdaAssumption DEF LambdaInv, StoreSound, Invocation, Record

\* The handler's except clause, and a failure to send.
LEMMA RaisedSound ==
    ASSUME NEW v \in Invocation, NEW S, NEW D, v.phase \in Busy, Sound(v, S, D),
           v.attempt = 0 \/ v.attempt < maxRetries
    PROVE  /\ Raised(v) \in Invocation
           /\ Raised(v).attempt = 0 \/ Raised(v).attempt < maxRetries
           /\ Sound(Raised(v), S, D)
<1>1. CASE v.phase = "dlq"
  <2> DEFINE w == [v EXCEPT !.phase = "failed"]
  <2>1. Raised(v) = w
      BY <1>1 DEF Raised
  <2>2. w \in Invocation /\ w.phase = "failed" /\ w.pos = v.pos /\ w.batch = v.batch
        /\ w.attempt = v.attempt
      BY DEF Invocation, Phases
  <2> HIDE DEF w
  <2>3. Sound(w, S, D)
      BY <2>2 DEF Sound, Busy
  <2> QED
      BY <2>1, <2>2, <2>3
<1>2. CASE v.phase # "dlq"
  <2>1. Raised(v) = Caught(v)
      BY <1>2 DEF Raised
  <2>2. v.pos \in 1..Len(v.batch) /\ Counted(v, S, D, v.pos - 1, 0)
      BY <1>2 DEF Sound, Busy
  <2>3. Caught(v) \in Invocation /\ Caught(v).attempt = 0 /\ Sound(Caught(v), S, D)
      BY <2>2, CaughtSound
  <2> QED
      BY <2>1, <2>3
<1> QED
    BY <1>1, <1>2

\* A call that failed leaves the invocation sound.
LEMMA FailedSound ==
    ASSUME LambdaInv, NEW i \in Invocations, CallFails(i)
    PROVE  \E v \in Invocation :
              /\ Become(i, v)
              /\ v.attempt = 0 \/ v.attempt < maxRetries
              /\ Sound(v, Done, dlq)
<1>1. inv[i].phase \in Busy /\ inv[i].attempt < maxRetries
    BY DEF CallFails, Doing, Busy, Calls
<1>2. inv[i] \in Invocation /\ Sound(inv[i], Done, dlq) /\ inv[i].attempt \in Nat
      /\ maxRetries \in Nat /\ inv[i].pos \in 1..Len(inv[i].batch)
    BY <1>1, AtWork
<1>3. CASE LastAttempt(inv[i])
  <2>1. Become(i, Raised(inv[i]))
      BY <1>3 DEF CallFails
  <2>2. /\ Raised(inv[i]) \in Invocation
        /\ Raised(inv[i]).attempt = 0 \/ Raised(inv[i]).attempt < maxRetries
        /\ Sound(Raised(inv[i]), Done, dlq)
      BY <1>1, <1>2, RaisedSound
  <2> QED
      BY <2>1, <2>2
<1>4. CASE ~ LastAttempt(inv[i])
  <2> DEFINE v == [inv[i] EXCEPT !.attempt = @ + 1]
  <2>1. Become(i, v)
      BY <1>4 DEF CallFails
  <2>2. v \in Invocation /\ v.attempt = inv[i].attempt + 1 /\ v.phase = inv[i].phase
        /\ v.batch = inv[i].batch /\ v.pos = inv[i].pos /\ v.processed = inv[i].processed
        /\ v.skipped = inv[i].skipped /\ v.errors = inv[i].errors
    <3>1. inv[i] \in Invocation /\ inv[i].attempt + 1 \in Nat
        BY <1>2
    <3> QED
        BY <3>1 DEF Invocation
  <2> HIDE DEF v
  <2>3. v.attempt < maxRetries
      BY <1>1, <1>2, <1>4, <2>2 DEF LastAttempt
  <2>4. \A S, D, k, e : Counted(inv[i], S, D, k, e) => Counted(v, S, D, k, e)
    <3>1. \A S, k : Among(v, S, k) = Among(inv[i], S, k)
        BY <2>2 DEF Among
    <3> QED
        BY <2>2, <3>1 DEF Counted
  <2>5. Sound(v, Done, dlq)
      BY <1>2, <2>2, <2>4 DEF Sound
  <2> QED
      BY <2>1, <2>2, <2>3, <2>5
<1> QED
    BY <1>3, <1>4

LEMMA InvokeKeeps ==
    ASSUME LambdaInv, NEW i \in Invocations, Invoke(i)
    PROVE  LambdaInv'
<1>1. PICK n \in 1..MaxBatch : \E batch \in [1..n -> Objects] :
          Become(i, [Idle EXCEPT !.batch = batch, !.pos = 1, !.phase = "get"])
    BY DEF Invoke
<1>2. PICK batch \in [1..n -> Objects] :
          Become(i, [Idle EXCEPT !.batch = batch, !.pos = 1, !.phase = "get"])
    BY <1>1
<1> DEFINE v == [Idle EXCEPT !.batch = batch, !.pos = 1, !.phase = "get"]
<1>3. n \in Nat /\ n >= 1
    BY LambdaAssumption
<1>4. batch \in Seq(Objects) /\ Len(batch) = n
    BY <1>3
<1>5. v \in Invocation
    BY <1>4 DEF Idle, Invocation, Phases
<1>6. v.batch = batch /\ v.pos = 1 /\ v.phase = "get" /\ v.attempt = 0
      /\ v.processed = 0 /\ v.skipped = 0 /\ v.errors = 0
    BY DEF Idle
<1> HIDE DEF v
<1>7. \A S : Among(v, S, 0) = {} /\ Cardinality(Among(v, S, 0)) = 0
    BY FS_EmptySet DEF Among
<1>8. Counted(v, Done, dlq, 0, 0)
    BY <1>6, <1>7 DEF Counted
<1>9. v.pos - 1 = 0
    BY <1>6
<1>10. Sound(v, Done, dlq)
    BY <1>3, <1>4, <1>6, <1>8, <1>9 DEF Sound
<1> QED
    BY <1>2, <1>5, <1>6, <1>10, InvocationKeeps DEF Invoke, v, storage

\* The next phase of the same record.
LEMMA InSound ==
    ASSUME NEW i, inv[i] \in Invocation, NEW S, NEW D, Sound(inv[i], S, D),
           NEW p \in {"head", "put"}, inv[i].phase \in {"get", "head"},
           Record(i) \notin Malformed
    PROVE  In(i, p) \in Invocation /\ In(i, p).attempt = 0 /\ Sound(In(i, p), S, D)
<1> DEFINE v == In(i, p)
<1>1. v \in Invocation
    BY DEF In, Invocation, Phases
<1>2. v.batch = inv[i].batch /\ v.pos = inv[i].pos /\ v.phase = p /\ v.attempt = 0
      /\ v.processed = inv[i].processed /\ v.skipped = inv[i].skipped
      /\ v.errors = inv[i].errors
    BY DEF In, Invocation
<1> HIDE DEF v
<1>3. \A k : Among(v, S, k) = Among(inv[i], S, k) /\ Among(v, D, k) = Among(inv[i], D, k)
    BY <1>2 DEF Among
<1>4. Counted(inv[i], S, D, v.pos - 1, 0)
    BY <1>2 DEF Sound
<1>5. Counted(v, S, D, v.pos - 1, 0)
    BY <1>2, <1>3, <1>4 DEF Counted
<1>6. Sound(v, S, D)
    BY <1>2, <1>5 DEF Sound, Busy, Record
<1> QED
    BY <1>1, <1>2, <1>6 DEF v

\* Reading and looking up: the record goes on, is skipped, or has failed.
LEMMA ReadKeeps ==
    ASSUME LambdaInv, NEW i \in Invocations,
           Get(i) \/ HeadFinds(i) \/ HeadMisses(i) \/ HeadFails(i) \/ HeadRaises(i)
    PROVE  LambdaInv'
<1>1. inv[i].phase \in {"get", "head"} /\ UNCHANGED <<config, tagged, dlq>>
    BY DEF Get, HeadFinds, HeadMisses, HeadFails, HeadRaises, Doing, storage
<1>2. inv[i] \in Invocation /\ Sound(inv[i], Done, dlq) /\ inv[i].pos \in 1..Len(inv[i].batch)
      /\ Record(i) \in Objects /\ Record(i) = inv[i].batch[inv[i].pos]
    BY <1>1, AtWork DEF Busy
<1>3. Counted(inv[i], Done, dlq, inv[i].pos - 1, 0)
    BY <1>1, <1>2 DEF Sound
<1>4. ASSUME Become(i, Caught(inv[i]))
      PROVE  LambdaInv'
  <2>1. Caught(inv[i]) \in Invocation /\ Caught(inv[i]).attempt = 0
        /\ Sound(Caught(inv[i]), Done, dlq)
      BY <1>2, <1>3, CaughtSound
  <2> QED
      BY <1>1, <1>4, <2>1, InvocationKeeps
<1>5. ASSUME NEW p \in {"head", "put"}, Become(i, In(i, p)), Record(i) \notin Malformed
      PROVE  LambdaInv'
  <2>1. In(i, p) \in Invocation /\ In(i, p).attempt = 0 /\ Sound(In(i, p), Done, dlq)
      BY <1>1, <1>2, <1>5, InSound
  <2> QED
      BY <1>1, <1>5, <2>1, InvocationKeeps
<1>6. CASE Get(i)
    BY <1>4, <1>5, <1>6 DEF Get
<1>7. CASE HeadMisses(i) \/ HeadFails(i)
  <2>1. Record(i) \notin Malformed /\ Become(i, In(i, "put"))
      BY <1>2, <1>7 DEF HeadMisses, HeadFails, Doing, Sound
  <2> QED
      BY <1>5, <2>1
<1>8. CASE HeadRaises(i)
    BY <1>4, <1>8 DEF HeadRaises
<1>9. CASE HeadFinds(i)
  <2> DEFINE w == [inv[i] EXCEPT !.skipped = @ + 1]
  <2>1. w \in Invocation /\ w.batch = inv[i].batch /\ w.pos = inv[i].pos
        /\ w.errors = inv[i].errors /\ w.processed = inv[i].processed
        /\ w.skipped = inv[i].skipped + 1
      BY <1>2 DEF Invocation
  <2>2. Become(i, Advanced(w))
      BY <1>9 DEF HeadFinds
  <2> HIDE DEF w
  <2>3. inv[i].batch[inv[i].pos] \in Done
      BY <1>2, <1>9 DEF HeadFinds, HeadAnswers, Done
  <2>4. w.processed + w.skipped = inv[i].processed + inv[i].skipped + 1
      BY <1>2, <2>1 DEF Invocation
  <2>5. Advanced(w) \in Invocation /\ Advanced(w).attempt = 0 /\ Sound(Advanced(w), Done, dlq)
      BY <1>2, <1>3, <2>1, <2>3, <2>4, DoneSound
  <2> QED
      BY <1>1, <2>2, <2>5, InvocationKeeps
<1> QED
    BY <1>6, <1>7, <1>8, <1>9

\* A tag is one of the three.
LEMMA TagIsTag ==
    ASSUME NEW o
    PROVE  TagOf(o) \in Tags
BY DEF TagOf, Severity, Tags

\* An object that is written carries its tag.
LEMMA Written ==
    ASSUME LambdaInv, NEW o \in Objects, o \notin Malformed,
           tagged' = [tagged EXCEPT ![o] = TagOf(o)], UNCHANGED <<config, dlq>>
    PROVE  StoreSound' /\ Done' = Done \cup {o} /\ dlq' = dlq /\ UNCHANGED config
<1>1. tagged \in [Objects -> Tags \cup {"none"}] /\ TagOf(o) \in Tags /\ "none" \notin Tags
    BY TagIsTag DEF LambdaInv, StoreSound, Tags
<1>2. UNCHANGED <<maxRetries, values, dlq>>
    BY DEF config
<1>3. \A p : TagOf(p)' = TagOf(p)
    BY <1>2 DEF TagOf, Matched
<1>4. \A p \in Objects : tagged'[p] = IF p = o THEN TagOf(o) ELSE tagged[p]
    BY <1>1
<1>5. tagged' \in [Objects -> Tags \cup {"none"}]
    BY <1>1
<1>6. Done' = Done \cup {o}
    BY <1>1, <1>4 DEF Done
<1>7. TagOf(o) # "none"
    BY <1>1
<1>8. Truthful'
  <2> SUFFICES ASSUME NEW p \in Done'
               PROVE  p \notin Malformed /\ tagged'[p] = TagOf(p)'
      BY DEF Truthful
  <2>1. p \in Objects
      BY DEF Done
  <2>2. CASE p = o
      BY <1>3, <1>4, <2>1, <2>2
  <2>3. CASE p # o
    <3>1. p \in Done
        BY <1>6, <2>3
    <3>2. p \notin Malformed /\ tagged[p] = TagOf(p)
        BY <3>1 DEF LambdaInv, StoreSound, Truthful
    <3> QED
        BY <1>3, <1>4, <2>1, <2>3, <3>2
  <2> QED
      BY <2>2, <2>3
<1> QED
    BY <1>2, <1>5, <1>6, <1>8 DEF LambdaInv, StoreSound

LEMMA PutKeeps ==
    ASSUME LambdaInv, NEW i \in Invocations, Put(i) \/ PutStoresAndFails(i)
    PROVE  LambdaInv'
<1>1. inv[i].phase = "put" /\ UNCHANGED <<config, dlq>>
      /\ tagged' = [tagged EXCEPT ![Record(i)] = TagOf(Record(i))]
    BY DEF Put, PutStoresAndFails, Stores, Doing
<1>2. inv[i] \in Invocation /\ Sound(inv[i], Done, dlq) /\ inv[i].pos \in 1..Len(inv[i].batch)
      /\ Record(i) \in Objects /\ Record(i) = inv[i].batch[inv[i].pos]
    BY <1>1, AtWork DEF Busy
<1>3. Counted(inv[i], Done, dlq, inv[i].pos - 1, 0) /\ Record(i) \notin Malformed
    BY <1>1, <1>2 DEF Sound
<1>4. StoreSound' /\ Done' = Done \cup {Record(i)} /\ dlq' = dlq /\ UNCHANGED config
    BY <1>1, <1>2, <1>3, Written
<1>5. CASE Put(i)
  <2> DEFINE w == [inv[i] EXCEPT !.processed = @ + 1]
             T == Done \cup {Record(i)}
  <2>1. w \in Invocation /\ w.batch = inv[i].batch /\ w.pos = inv[i].pos
        /\ w.errors = inv[i].errors /\ w.processed = inv[i].processed + 1
        /\ w.skipped = inv[i].skipped
    <3>1. inv[i] \in Invocation
        BY <1>2
    <3> QED
        BY <3>1 DEF Invocation
  <2>2. Become(i, Advanced(w))
      BY <1>5 DEF Put
  <2>3. w.processed + w.skipped = inv[i].processed + inv[i].skipped + 1
      BY <1>2, <2>1 DEF Invocation
  <2>4. Done \subseteq T /\ inv[i].batch[inv[i].pos] \in T
      BY <1>2
  <2> HIDE DEF w, T
  <2>5. Advanced(w) \in Invocation /\ Advanced(w).attempt = 0 /\ Sound(Advanced(w), T, dlq)
      BY <1>2, <1>3, <2>1, <2>3, <2>4, DoneSound
  <2>6. Sound(Advanced(w), Done', dlq') /\ Done \subseteq Done' /\ dlq \subseteq dlq'
      BY <1>4, <2>5 DEF T
  <2> QED
      BY <1>4, <2>2, <2>5, <2>6, InvocationMoves
<1>6. CASE PutStoresAndFails(i)
  <2>1. PICK v \in Invocation : /\ Become(i, v)
                                /\ v.attempt = 0 \/ v.attempt < maxRetries
                                /\ Sound(v, Done, dlq)
      BY <1>6, FailedSound DEF PutStoresAndFails
  <2>2. Done \subseteq Done' /\ dlq \subseteq dlq'
      BY <1>4
  <2>3. Sound(v, Done', dlq')
      BY <2>1, <2>2, SoundGrows
  <2> QED
      BY <1>4, <2>1, <2>2, <2>3, InvocationMoves
<1> QED
    BY <1>5, <1>6

LEMMA SendKeeps ==
    ASSUME LambdaInv, NEW i \in Invocations, SendToDlq(i)
    PROVE  LambdaInv'
<1>1. inv[i].phase = "dlq" /\ UNCHANGED <<config, tagged>> /\ dlq' = dlq \cup {Record(i)}
      /\ Become(i, Advanced(inv[i]))
    BY DEF SendToDlq, Doing
<1>2. inv[i] \in Invocation /\ Sound(inv[i], Done, dlq) /\ inv[i].pos \in 1..Len(inv[i].batch)
      /\ Record(i) \in Objects /\ Record(i) = inv[i].batch[inv[i].pos]
    BY <1>1, AtWork DEF Busy
<1>3. Counted(inv[i], Done, dlq, inv[i].pos - 1, 1)
    BY <1>1, <1>2 DEF Sound
<1>4. Done' = Done
    BY <1>1 DEF Done
<1>5. StoreSound'
    BY <1>1, <1>2, <1>4 DEF LambdaInv, StoreSound, Truthful, TagOf, Matched, config
<1>6. Advanced(inv[i]) \in Invocation /\ Advanced(inv[i]).attempt = 0
      /\ Sound(Advanced(inv[i]), Done, dlq \cup {inv[i].batch[inv[i].pos]})
    BY <1>2, <1>3, SentSound
<1>7. Sound(Advanced(inv[i]), Done', dlq') /\ Done \subseteq Done' /\ dlq \subseteq dlq'
    BY <1>1, <1>2, <1>4, <1>6
<1> QED
    BY <1>1, <1>5, <1>6, <1>7, InvocationMoves

LEMMA EndKeeps ==
    ASSUME LambdaInv, NEW i \in Invocations, FailsUnchanged(i) \/ NoCall(i) \/ TimeOut(i)
    PROVE  LambdaInv'
<1>1. UNCHANGED <<config, tagged, dlq>>
    BY DEF FailsUnchanged, NoCall, TimeOut, storage
<1>2. CASE FailsUnchanged(i)
    BY <1>1, <1>2, FailedSound, InvocationKeeps DEF FailsUnchanged
<1>3. CASE NoCall(i)
  <2>1. inv[i].phase \in Busy /\ Become(i, Raised(inv[i]))
      BY <1>3 DEF NoCall, Doing, Busy
  <2>2. /\ Raised(inv[i]) \in Invocation
        /\ Raised(inv[i]).attempt = 0 \/ Raised(inv[i]).attempt < maxRetries
        /\ Sound(Raised(inv[i]), Done, dlq)
      BY <2>1, RaisedSound DEF LambdaInv
  <2> QED
      BY <1>1, <2>1, <2>2, InvocationKeeps
<1>4. CASE TimeOut(i)
  <2> DEFINE v == [inv[i] EXCEPT !.phase = "failed"]
  <2>1. Become(i, v)
      BY <1>4 DEF TimeOut
  <2>2. inv[i] \in Invocation /\ Sound(inv[i], Done, dlq)
        /\ (inv[i].attempt = 0 \/ inv[i].attempt < maxRetries)
      BY DEF LambdaInv
  <2>3. v \in Invocation /\ v.phase = "failed" /\ v.pos = inv[i].pos
        /\ v.batch = inv[i].batch /\ v.attempt = inv[i].attempt
      BY <2>2 DEF Invocation, Phases
  <2> HIDE DEF v
  <2>4. Sound(v, Done, dlq)
      BY <2>2, <2>3 DEF Sound, Busy
  <2> QED
      BY <1>1, <2>1, <2>2, <2>3, <2>4, InvocationKeeps
<1> QED
    BY <1>2, <1>3, <1>4

LEMMA LambdaStep ==
    ASSUME LambdaInv, [Next]_vars
    PROVE  LambdaInv'
<1>1. CASE UNCHANGED vars
  <2>1. UNCHANGED <<maxRetries, values, inv, tagged, dlq>>
      BY <1>1 DEF vars, config, storage
  <2>2. Done' = Done
      BY <2>1 DEF Done
  <2> QED
      BY <2>1, <2>2 DEF LambdaInv, StoreSound, Truthful, TagOf, Matched
<1>2. ASSUME NEW i \in Invocations, Work(i)
      PROVE  LambdaInv'
    BY <1>2, ReadKeeps, PutKeeps, SendKeeps, EndKeeps DEF Work
<1> QED
    BY <1>1, <1>2, InvokeKeeps, EndKeeps DEF Next

LEMMA LambdaInit ==
    ASSUME Init
    PROVE  LambdaInv
<1>1. Done = {} /\ tagged \in [Objects -> Tags \cup {"none"}]
    BY DEF Init, Done
<1>2. StoreSound
    BY <1>1 DEF Init, StoreSound, Truthful
<1>3. Idle \in Invocation /\ Idle.phase = "idle" /\ Idle.pos = 0 /\ Idle.attempt = 0
      /\ Idle.batch = <<>> /\ Len(Idle.batch) = 0
    BY DEF Idle, Invocation, Phases
<1>4. Sound(Idle, Done, dlq)
    BY <1>3 DEF Sound, Busy
<1> QED
    BY <1>2, <1>3, <1>4 DEF Init, LambdaInv

-----------------------------------------------------------------------------
\* LambdaInv is an invariant.
LEMMA LambdaAlways == Spec => []LambdaInv
<1>1. Init => LambdaInv
    BY LambdaInit
<1>2. LambdaInv /\ [Next]_vars => LambdaInv'
    BY LambdaStep
<1> QED
    BY <1>1, <1>2, PTL DEF Spec

-----------------------------------------------------------------------------
(* Writing an object again.                                                  *)

\* A tagged object was stored at most as often as it may, with the invocations that
\* have looked for it and will store it counted as if they had.
RewriteInv ==
    /\ puts \in [Objects -> Nat] /\ excused \in [Objects -> Nat]
    /\ \A o \in Objects :
          IF tagged[o] = "none" THEN puts[o] = 0
          ELSE puts[o] + Cardinality(Storing(o)) <= 1 + excused[o]

\* An invocation is not about to store anything when its record is over.
LEMMA NotStoring ==
    ASSUME NEW v \in Invocation
    PROVE  Advanced(v).phase # "put" /\ Caught(v).phase # "put" /\ Raised(v).phase # "put"
<1>1. Advanced(v).phase # "put"
    BY DEF Advanced, Invocation
<1>2. Caught(v).phase # "put"
  <2> DEFINE w == [v EXCEPT !.errors = @ + 1]
  <2>1. w \in Invocation
      BY DEF Invocation
  <2>2. Caught(v) = IF DlqConfigured THEN [w EXCEPT !.phase = "dlq", !.attempt = 0]
                    ELSE Advanced(w)
      BY DEF Caught
  <2> HIDE DEF w
  <2>3. Advanced(w).phase # "put"
      BY <2>1 DEF Advanced, Invocation
  <2>4. [w EXCEPT !.phase = "dlq", !.attempt = 0].phase # "put"
      BY <2>1 DEF Invocation
  <2> QED
      BY <2>2, <2>3, <2>4
<1>3. [v EXCEPT !.phase = "failed"].phase # "put"
    BY DEF Invocation
<1> QED
    BY <1>1, <1>2, <1>3 DEF Raised

\* Who is about to store o, when the invocation i becomes v.
LEMMA Storings ==
    ASSUME LambdaInv, NEW i \in Invocations, NEW v, Become(i, v), NEW o
    PROVE  /\ Cardinality(Storing(o)) \in Nat
           /\ Cardinality(Storing(o) \ {i}) \in Nat
           /\ Cardinality(Storing(o)') \in Nat
           /\ Cardinality(Storing(o) \ {i}) <= Cardinality(Storing(o))
           /\ inv[i].phase = "put" /\ Record(i) = o =>
                 Cardinality(Storing(o)) = Cardinality(Storing(o) \ {i}) + 1
           /\ Cardinality(Storing(o)') <= Cardinality(Storing(o) \ {i}) + 1
           /\ ~ (v.phase = "put" /\ v.batch[v.pos] = o) =>
                 Cardinality(Storing(o)') = Cardinality(Storing(o) \ {i})
<1> DEFINE S == Storing(o)
           T == Storing(o)'
           R == S \ {i}
<1>1. inv \in [Invocations -> Invocation] /\ inv' = [inv EXCEPT ![i] = v]
    BY DEF LambdaInv, Become
<1>2. T \ {i} = R
    BY <1>1 DEF Storing, Doing, Record
<1>3. i \in S <=> inv[i].phase = "put" /\ Record(i) = o
    BY DEF Storing, Doing
<1>4. i \in T <=> v.phase = "put" /\ v.batch[v.pos] = o
    BY <1>1 DEF Storing, Doing, Record
<1>5. S \subseteq Invocations /\ T \subseteq Invocations /\ IsFiniteSet(Invocations)
    BY LambdaAssumption DEF Storing
<1> HIDE DEF S, T
<1>6. IsFiniteSet(S) /\ IsFiniteSet(T) /\ IsFiniteSet(R)
  <2>1. R \subseteq Invocations
      BY <1>5
  <2> QED
      BY <1>5, <2>1, FS_Subset
<1>7. Cardinality(S) \in Nat /\ Cardinality(T) \in Nat /\ Cardinality(R) \in Nat
    BY <1>6, FS_CardinalityType
<1>8. Cardinality(R) = IF i \in S THEN Cardinality(S) - 1 ELSE Cardinality(S)
    BY <1>6, FS_RemoveElement
<1>9. Cardinality(R) = IF i \in T THEN Cardinality(T) - 1 ELSE Cardinality(T)
    BY <1>2, <1>6, FS_RemoveElement
<1> HIDE DEF R
<1>10. /\ Cardinality(R) <= Cardinality(S)
       /\ i \in S => Cardinality(S) = Cardinality(R) + 1
       /\ Cardinality(T) <= Cardinality(R) + 1
       /\ i \notin T => Cardinality(T) = Cardinality(R)
    BY <1>7, <1>8, <1>9
<1> QED
    BY <1>3, <1>4, <1>7, <1>10 DEF S, T, R

\* A step that stores nothing and brings no invocation to the write.
LEMMA QuietKeeps ==
    ASSUME LambdaInv, RewriteInv, NEW i \in Invocations, NEW v, Become(i, v),
           UNCHANGED <<tagged, puts, excused>>,
           v.phase = "put" =>
              inv[i].phase = "put" /\ v.batch = inv[i].batch /\ v.pos = inv[i].pos
    PROVE  RewriteInv'
<1>1. ASSUME NEW o \in Objects PROVE Cardinality(Storing(o)') <= Cardinality(Storing(o))
  <2>1. CASE v.phase = "put" /\ v.batch[v.pos] = o
    <3>1. inv[i].phase = "put" /\ Record(i) = o
        BY <2>1 DEF Record
    <3> QED
        BY <3>1, Storings
  <2>2. CASE ~ (v.phase = "put" /\ v.batch[v.pos] = o)
      BY <2>2, Storings
  <2> QED
      BY <2>1, <2>2
<1>2. ASSUME NEW o \in Objects, tagged[o] # "none"
      PROVE  puts[o] + Cardinality(Storing(o)') <= 1 + excused[o]
  <2>1. puts[o] \in Nat /\ excused[o] \in Nat
        /\ Cardinality(Storing(o)) \in Nat /\ Cardinality(Storing(o)') \in Nat
      BY Storings DEF RewriteInv
  <2>2. puts[o] + Cardinality(Storing(o)) <= 1 + excused[o]
      BY <1>2 DEF RewriteInv
  <2> QED
      BY <1>1, <2>1, <2>2
<1> QED
    BY <1>2 DEF RewriteInv

\* What a failed call makes of an invocation.
LEMMA FailedStays ==
    ASSUME LambdaInv, NEW i \in Invocations, CallFails(i)
    PROVE  \E v :
              /\ Become(i, v)
              /\ v.phase = "put" =>
                    inv[i].phase = "put" /\ v.batch = inv[i].batch /\ v.pos = inv[i].pos
<1>1. inv[i].phase \in Busy /\ inv[i] \in Invocation
    BY DEF CallFails, Doing, Busy, LambdaInv
<1>3. CASE LastAttempt(inv[i])
  <2>1. Become(i, Raised(inv[i])) /\ Raised(inv[i]).phase # "put"
      BY <1>1, <1>3, NotStoring DEF CallFails
  <2> QED
      BY <2>1
<1>4. CASE ~ LastAttempt(inv[i])
  <2> DEFINE v == [inv[i] EXCEPT !.attempt = @ + 1]
  <2>1. Become(i, v)
      BY <1>4 DEF CallFails
  <2>2. v.phase = inv[i].phase /\ v.batch = inv[i].batch /\ v.pos = inv[i].pos
      BY <1>1 DEF Invocation
  <2> HIDE DEF v
  <2> QED
      BY <2>1, <2>2
<1> QED
    BY <1>3, <1>4

\* The steps around the write.
LEMMA QuietSteps ==
    ASSUME LambdaInv, RewriteInv, NEW i \in Invocations,
           \/ Invoke(i) \/ FailsUnchanged(i) \/ NoCall(i) \/ Get(i)
           \/ HeadFinds(i) \/ HeadRaises(i) \/ SendToDlq(i) \/ TimeOut(i)
    PROVE  RewriteInv'
<1>1. UNCHANGED <<tagged, puts, excused>>
    BY DEF Invoke, FailsUnchanged, NoCall, Get, HeadFinds, HeadRaises, SendToDlq, TimeOut,
           storage, history
<1>2. inv[i] \in Invocation
    BY DEF LambdaInv
<1>3. ASSUME NEW v, Become(i, v), v.phase # "put"
      PROVE  RewriteInv'
    BY <1>1, <1>3, QuietKeeps
<1>4. CASE Invoke(i)
  <2>1. PICK n \in 1..MaxBatch : \E batch \in [1..n -> Objects] :
            Become(i, [Idle EXCEPT !.batch = batch, !.pos = 1, !.phase = "get"])
      BY <1>4 DEF Invoke
  <2>2. PICK batch \in [1..n -> Objects] :
            Become(i, [Idle EXCEPT !.batch = batch, !.pos = 1, !.phase = "get"])
      BY <2>1
  <2>3. [Idle EXCEPT !.batch = batch, !.pos = 1, !.phase = "get"].phase # "put"
      BY DEF Idle
  <2> QED
      BY <1>3, <2>2, <2>3
<1>5. CASE FailsUnchanged(i)
    BY <1>1, <1>5, FailedStays, QuietKeeps DEF FailsUnchanged
<1>6. CASE NoCall(i)
    BY <1>2, <1>3, <1>6, NotStoring DEF NoCall
<1>7. CASE Get(i)
  <2>1. In(i, "head").phase # "put" /\ Caught(inv[i]).phase # "put"
      BY <1>2, NotStoring DEF In, Invocation
  <2> QED
      BY <1>3, <1>7, <2>1 DEF Get
<1>8. CASE HeadFinds(i)
  <2> DEFINE w == [inv[i] EXCEPT !.skipped = @ + 1]
  <2>1. w \in Invocation
      BY <1>2 DEF Invocation
  <2>2. Become(i, Advanced(w))
      BY <1>8 DEF HeadFinds
  <2> HIDE DEF w
  <2> QED
      BY <1>3, <2>1, <2>2, NotStoring
<1>9. CASE HeadRaises(i)
    BY <1>2, <1>3, <1>9, NotStoring DEF HeadRaises
<1>10. CASE SendToDlq(i)
    BY <1>2, <1>3, <1>10, NotStoring DEF SendToDlq
<1>11. CASE TimeOut(i)
  <2>1. [inv[i] EXCEPT !.phase = "failed"].phase # "put"
      BY <1>2 DEF Invocation
  <2> QED
      BY <1>3, <1>11, <2>1 DEF TimeOut
<1> QED
    BY <1>4, <1>5, <1>6, <1>7, <1>8, <1>9, <1>10, <1>11

\* A look-up that does not find the object: it is not there, or its answer was an
\* error and is counted.
LEMMA HeadSteps ==
    ASSUME LambdaInv, RewriteInv, NEW i \in Invocations, HeadMisses(i) \/ HeadFails(i)
    PROVE  RewriteInv'
<1> DEFINE v == In(i, "put")
<1>1. /\ inv[i].phase = "head" /\ Become(i, v)
      /\ tagged' = tagged /\ puts' = puts
    BY DEF HeadMisses, HeadFails, Doing, storage, history
<1>2. inv[i] \in Invocation /\ Record(i) \in Objects
    BY <1>1, AtWork DEF Busy
<1>3. v.batch[v.pos] = Record(i)
    BY <1>2 DEF In, Invocation, Record
<1> HIDE DEF v
<1>4. /\ excused' \in [Objects -> Nat]
      /\ \A o \in Objects : excused'[o] \in Nat /\ excused[o] <= excused'[o]
      /\ tagged[Record(i)] # "none" => excused'[Record(i)] = excused[Record(i)] + 1
  <2>1. excused \in [Objects -> Nat]
      BY DEF RewriteInv
  <2>2. CASE HeadMisses(i)
      BY <2>1, <2>2 DEF HeadMisses, HeadAnswers, storage, history
  <2>3. CASE HeadFails(i)
      BY <1>2, <2>1, <2>3 DEF HeadFails
  <2> QED
      BY <2>2, <2>3
<1>5. ASSUME NEW o \in Objects, tagged[o] # "none"
      PROVE  puts[o] + Cardinality(Storing(o)') <= 1 + excused'[o]
  <2>1. /\ puts[o] \in Nat /\ excused[o] \in Nat /\ excused'[o] \in Nat
        /\ excused[o] <= excused'[o]
      BY <1>4 DEF RewriteInv
  <2>2. puts[o] + Cardinality(Storing(o)) <= 1 + excused[o]
      BY <1>5 DEF RewriteInv
  <2>3. /\ Cardinality(Storing(o)) \in Nat /\ Cardinality(Storing(o)') \in Nat
        /\ Cardinality(Storing(o) \ {i}) \in Nat
        /\ Cardinality(Storing(o) \ {i}) <= Cardinality(Storing(o))
        /\ Cardinality(Storing(o)') <= Cardinality(Storing(o) \ {i}) + 1
        /\ o # Record(i) => Cardinality(Storing(o)') = Cardinality(Storing(o) \ {i})
      BY <1>1, <1>3, Storings
  <2>4. CASE o = Record(i)
    <3>1. excused'[o] = excused[o] + 1
        BY <1>4, <1>5, <2>4
    <3> QED
        BY <2>1, <2>2, <2>3, <3>1
  <2>5. CASE o # Record(i)
      BY <2>1, <2>2, <2>3, <2>5
  <2> QED
      BY <2>4, <2>5
<1> QED
    BY <1>1, <1>4, <1>5 DEF RewriteInv

\* A write: the first lets the others in, a later one was let in.
LEMMA StoreSteps ==
    ASSUME LambdaInv, RewriteInv, NEW i \in Invocations, Put(i) \/ PutStoresAndFails(i)
    PROVE  RewriteInv'
<1>1. inv[i].phase = "put"
    BY DEF Put, PutStoresAndFails, Doing
<1> PICK o \in Objects : o = Record(i)
    BY <1>1, AtWork DEF Busy
<1>2. inv[i] \in Invocation /\ inv[i].batch[inv[i].pos] = o
    BY <1>1, AtWork DEF Busy
<1> DEFINE R == Cardinality(Storing(o) \ {i})
           late == IF tagged[o] = "none" THEN R ELSE 0
<1>3. PICK slips, v :
         /\ slips \in {0, 1}
         /\ Stores(i, slips) /\ Become(i, v)
         /\ slips = 0 => v.phase # "put"
         /\ v.phase = "put" => v.batch[v.pos] = o
  <2>1. CASE Put(i)
    <3> DEFINE w == [inv[i] EXCEPT !.processed = @ + 1]
    <3>1. w \in Invocation
      <4>1. inv[i] \in Invocation
          BY <1>2
      <4>2. inv[i].processed + 1 \in Nat
          BY <4>1 DEF Invocation
      <4> QED
          BY <4>1, <4>2 DEF Invocation
    <3>2. Become(i, Advanced(w)) /\ Stores(i, 0)
        BY <2>1 DEF Put
    <3> HIDE DEF w
    <3>3. Advanced(w).phase # "put"
        BY <3>1, NotStoring
    <3> QED
        BY <3>2, <3>3
  <2>2. CASE PutStoresAndFails(i)
    <3>1. PICK v : /\ Become(i, v)
                   /\ v.phase = "put" => v.batch = inv[i].batch /\ v.pos = inv[i].pos
        BY <2>2, FailedStays DEF PutStoresAndFails
    <3>2. Stores(i, 1)
        BY <2>2 DEF PutStoresAndFails
    <3> QED
        BY <1>2, <3>1, <3>2
  <2> QED
      BY <2>1, <2>2
<1>4. /\ tagged' = [tagged EXCEPT ![o] = TagOf(o)]
      /\ puts' = [puts EXCEPT ![o] = @ + 1]
      /\ excused' = [excused EXCEPT ![o] = @ + late + slips]
    BY <1>3 DEF Stores
<1>5. slips \in {0, 1} /\ R \in Nat
    BY <1>3, Storings
<1> HIDE DEF R
<1>6. late \in Nat /\ late + slips \in Nat
    BY <1>5
<1> HIDE DEF late
<1>7. /\ puts \in [Objects -> Nat] /\ excused \in [Objects -> Nat]
      /\ tagged \in [Objects -> Tags \cup {"none"}]
    BY DEF RewriteInv, LambdaInv, StoreSound
<1>8. /\ puts' \in [Objects -> Nat] /\ excused' \in [Objects -> Nat]
      /\ puts'[o] = puts[o] + 1 /\ excused'[o] = excused[o] + late + slips
      /\ \A p \in Objects : p # o =>
            tagged'[p] = tagged[p] /\ puts'[p] = puts[p] /\ excused'[p] = excused[p]
  <2>1. puts[o] + 1 \in Nat /\ excused[o] + late + slips \in Nat
      BY <1>5, <1>6, <1>7
  <2> QED
      BY <1>4, <1>7, <2>1
<1>9. tagged'[o] # "none"
  <2>1. TagOf(o) \in Tags /\ "none" \notin Tags
      BY TagIsTag DEF Tags
  <2> QED
      BY <1>2, <1>4, <1>7, <2>1
<1>10. puts'[o] + Cardinality(Storing(o)') <= 1 + excused'[o]
  <2>1. /\ Cardinality(Storing(o)) \in Nat /\ Cardinality(Storing(o)') \in Nat
        /\ Cardinality(Storing(o)) = R + 1
        /\ Cardinality(Storing(o)') <= R + 1
        /\ slips = 0 => Cardinality(Storing(o)') = R
    <3>1. inv[i].phase = "put" /\ Record(i) = o
        BY <1>1
    <3>2. slips = 0 => ~ (v.phase = "put" /\ v.batch[v.pos] = o)
        BY <1>3
    <3>3. Become(i, v)
        BY <1>3
    <3> QED
        BY <3>1, <3>2, <3>3, Storings DEF R
  <2>2. Cardinality(Storing(o)') <= R + slips
      BY <1>5, <2>1
  <2>3. CASE tagged[o] = "none"
    <3>1. puts[o] = 0 /\ late = R
        BY <1>2, <2>3 DEF RewriteInv, late
    <3> QED
        BY <1>2, <1>5, <1>7, <1>8, <2>1, <2>2, <3>1
  <2>4. CASE tagged[o] # "none"
    <3>1. puts[o] + Cardinality(Storing(o)) <= 1 + excused[o] /\ late = 0
        BY <1>2, <2>4 DEF RewriteInv, late
    <3> QED
        BY <1>2, <1>5, <1>7, <1>8, <2>1, <2>2, <3>1
  <2> QED
      BY <2>3, <2>4
<1>11. ASSUME NEW p \in Objects, p # o, tagged[p] # "none"
       PROVE  puts'[p] + Cardinality(Storing(p)') <= 1 + excused'[p]
  <2>1. /\ Cardinality(Storing(p)) \in Nat /\ Cardinality(Storing(p)') \in Nat
        /\ Cardinality(Storing(p)') <= Cardinality(Storing(p))
    <3>1. Become(i, v) /\ ~ (v.phase = "put" /\ v.batch[v.pos] = p)
        BY <1>3, <1>11
    <3> QED
        BY <3>1, Storings
  <2>2. puts[p] + Cardinality(Storing(p)) <= 1 + excused[p]
      BY <1>11 DEF RewriteInv
  <2>3. puts[p] \in Nat /\ excused[p] \in Nat
      BY <1>7
  <2> QED
      BY <1>8, <1>11, <2>1, <2>2, <2>3
<1>12. \A p \in Objects : tagged'[p] = "none" => puts'[p] = 0
    BY <1>8, <1>9 DEF RewriteInv
<1>13. ASSUME NEW p \in Objects, tagged'[p] # "none"
       PROVE  puts'[p] + Cardinality(Storing(p)') <= 1 + excused'[p]
  <2>1. CASE p = o
      BY <1>10, <2>1
  <2>2. CASE p # o
      BY <1>8, <1>11, <1>13, <2>2
  <2> QED
      BY <2>1, <2>2
<1> QED
    BY <1>8, <1>12, <1>13 DEF RewriteInv

\* RewriteInv is an invariant.
LEMMA RewriteAlways == Spec => []RewriteInv
<1>1. Init => RewriteInv
  <2> SUFFICES ASSUME Init PROVE RewriteInv
      OBVIOUS
  <2>1. \A o \in Objects : tagged[o] = "none" /\ puts[o] = 0
      BY DEF Init
  <2> QED
      BY <2>1 DEF Init, RewriteInv
<1>2. LambdaInv /\ RewriteInv /\ [Next]_vars => RewriteInv'
  <2> SUFFICES ASSUME LambdaInv, RewriteInv, [Next]_vars PROVE RewriteInv'
      OBVIOUS
  <2>1. CASE UNCHANGED vars
    <3>1. UNCHANGED <<inv, tagged, puts, excused>>
        BY <2>1 DEF vars, storage, history
    <3>2. \A o : Storing(o)' = Storing(o)
        BY <3>1 DEF Storing, Doing, Record
    <3> QED
        BY <3>1, <3>2 DEF RewriteInv
  <2>2. ASSUME NEW i \in Invocations, Invoke(i) \/ Work(i) \/ TimeOut(i)
        PROVE  RewriteInv'
      BY <2>2, QuietSteps, HeadSteps, StoreSteps DEF Work
  <2> QED
      BY <2>1, <2>2 DEF Next
<1> QED
    BY <1>1, <1>2, LambdaAlways, PTL DEF Spec

-----------------------------------------------------------------------------
\* The weights of what is found, with the phone number of the timestamp, reach
\* the threshold of CRITICAL exactly with a card or a token.
LEMMA TagByContent ==
    ASSUME NEW o
    PROVE  TagOf(o) = IF values[o] \cap {"CREDIT_CARD", "TOKEN"} # {}
                      THEN "CRITICAL" ELSE "RED_FLAG"
<1> DEFINE kinds == Matched(o)
           score == RiskScore(kinds)
<1>1. /\ "PHONE" \in kinds
      /\ "CREDIT_CARD" \in kinds <=> "CREDIT_CARD" \in values[o]
      /\ "TOKEN" \in kinds <=> "TOKEN" \in values[o]
    BY DEF Matched
<1> HIDE DEF kinds
<1>2. /\ Scored("EMAIL", kinds) \in {0, 20}
      /\ Scored("PHONE", kinds) = 20
      /\ Scored("CREDIT_CARD", kinds) = IF "CREDIT_CARD" \in values[o] THEN 40 ELSE 0
      /\ Scored("TOKEN", kinds) = IF "TOKEN" \in values[o] THEN 50 ELSE 0
    BY <1>1 DEF Scored, Weight
<1>3. /\ score >= 20 /\ score \in Nat
      /\ score >= 50 <=> "CREDIT_CARD" \in values[o] \/ "TOKEN" \in values[o]
    BY <1>2 DEF RiskScore
<1>4. TagOf(o) = Severity(score)
    BY DEF TagOf, kinds
<1> HIDE DEF score
<1>5. Severity(score) = IF "CREDIT_CARD" \in values[o] \/ "TOKEN" \in values[o]
                        THEN "CRITICAL" ELSE "RED_FLAG"
    BY <1>3 DEF Severity
<1> QED
    BY <1>4, <1>5

\* TypeOK: the types, with every position inside its batch and every attempt
\* below MAX_RETRIES, and with what each tagged object was tagged.
THEOREM TypeCorrect == Spec => []TypeOK
<1>1. LambdaInv /\ RewriteInv => TypeOK
  <2> SUFFICES ASSUME LambdaInv, RewriteInv PROVE TypeOK
      OBVIOUS
  <2>1. \A o \in Objects : tagged[o] # "none" =>
           /\ o \notin Malformed
           /\ tagged[o] = IF values[o] \cap {"CREDIT_CARD", "TOKEN"} # {}
                          THEN "CRITICAL" ELSE "RED_FLAG"
      BY TagByContent DEF LambdaInv, StoreSound, Truthful, Done
  <2> QED
      BY <2>1 DEF LambdaInv, RewriteInv, StoreSound, Sound, TypeOK
<1> QED
    BY <1>1, LambdaAlways, RewriteAlways, PTL

\* ReturnedAccounted: an invocation that answers 200 has counted each record
\* once and left none behind.
THEOREM AnswersAreAccounted == Spec => []ReturnedAccounted
<1>1. LambdaInv => ReturnedAccounted
  <2> SUFFICES ASSUME LambdaInv, NEW i \in Invocations, Doing(i, "returned")
               PROVE  LET v == inv[i]
                          Within(S) == {n \in DOMAIN v.batch : v.batch[n] \in S}
                          done == {o \in Objects : tagged[o] # "none"}
                      IN  /\ v.processed + v.skipped + v.errors = Len(v.batch)
                          /\ v.processed + v.skipped <= Cardinality(Within(done))
                          /\ DlqConfigured => /\ v.errors <= Cardinality(Within(dlq))
                                              /\ Within(done \cup dlq) = DOMAIN v.batch
      BY DEF ReturnedAccounted
  <2> DEFINE v == inv[i]
             k == Len(v.batch)
  <2>1. v \in Invocation /\ Sound(v, Done, dlq) /\ v.phase = "returned"
      BY DEF LambdaInv, Doing
  <2>2. k \in Nat /\ DOMAIN v.batch = 1..k
      BY <2>1 DEF Invocation
  <2>3. Counted(v, Done, dlq, k, 0)
    <3>1. v.pos = k + 1 /\ v.pos - 1 = k
        BY <2>1, <2>2 DEF Sound
    <3> QED
        BY <2>1, <3>1 DEF Sound
  <2> HIDE DEF v, k
  <2>4. \A S : {n \in DOMAIN v.batch : v.batch[n] \in S} = Among(v, S, k)
      BY <2>2 DEF Among
  <2>5. v.processed + v.skipped + v.errors = k
      BY <2>2, <2>3 DEF Counted
  <2>6. v.processed + v.skipped <= Cardinality(Among(v, Done, k))
      BY <2>3 DEF Counted
  <2>7. DlqConfigured => v.errors <= Cardinality(Among(v, dlq, k))
    <3>1. Cardinality(Among(v, dlq, k)) \in Nat
        BY <2>2, AmongGrows
    <3> QED
        BY <2>3, <3>1 DEF Counted
  <2>8. DlqConfigured => Among(v, Done \cup dlq, k) = DOMAIN v.batch
      BY <2>2, <2>3 DEF Counted, Among
  <2> QED
      BY <2>4, <2>5, <2>6, <2>7, <2>8 DEF v, k, Done
<1> QED
    BY <1>1, LambdaAlways, PTL

\* RewritesBounded: a tagged object is stored again only by invocations that had
\* looked for it before it was there, and after answers that were errors.
THEOREM RewritesAreBounded == Spec => []RewritesBounded
<1>1. LambdaInv /\ RewriteInv => RewritesBounded
  <2> SUFFICES ASSUME LambdaInv, RewriteInv, NEW o \in Objects
               PROVE  puts[o] <= 1 + excused[o]
      BY DEF RewritesBounded
  <2>1. puts[o] \in Nat /\ excused[o] \in Nat
      BY DEF RewriteInv
  <2>2. Cardinality(Storing(o)) \in Nat
    <3>1. IsFiniteSet(Storing(o))
        BY LambdaAssumption, FS_Subset DEF Storing
    <3> QED
        BY <3>1, FS_CardinalityType
  <2> QED
      BY <2>1, <2>2 DEF RewriteInv
<1> QED
    BY <1>1, LambdaAlways, RewriteAlways, PTL
=============================================================================
