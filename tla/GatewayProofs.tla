---------------------------- MODULE GatewayProofs ---------------------------
(***************************************************************************)
(* Theorems of Gateway, for every set of requests, every capacity of the   *)
(* live feed and every set of classes the upstream may answer with.        *)
(***************************************************************************)
EXTENDS Gateway, FiniteSetTheorems, TLAPS

Effects == Counters \cup {"enqueue", "publish"}
Stages == {"new", "scanning", "forwarding", "streaming"}

\* An event is published once, and right after it was handed to the queue.
Ordered(s) ==
    /\ \A i \in 1..Len(s) : s[i] = "publish" => i > 1 /\ s[i - 1] = "enqueue"
    /\ \A i, j \in 1..Len(s) : s[i] = "publish" /\ s[j] = "publish" => i = j

\* What a sequence becomes when it loses its first element.
LEMMA Rest ==
    ASSUME NEW S, NEW s \in Seq(S), s # <<>>
    PROVE  /\ Head(s) = s[1] /\ Head(s) \in S /\ Tail(s) \in Seq(S)
           /\ Len(s) \in Nat \ {0} /\ Len(Tail(s)) = Len(s) - 1
           /\ \A i \in 1..Len(Tail(s)) : Tail(s)[i] = s[i + 1]
  OBVIOUS

\* What a sequence becomes when it gets a last element.
LEMMA Added ==
    ASSUME NEW S, NEW s \in Seq(S), NEW x \in S
    PROVE  /\ Append(s, x) \in Seq(S) /\ Len(Append(s, x)) = Len(s) + 1 /\ Len(s) \in Nat
           /\ \A i \in 1..Len(s) : Append(s, x)[i] = s[i]
           /\ Append(s, x)[Len(s) + 1] = x
  OBVIOUS

\* Sequences that agree everywhere are the same.
LEMMA SameSequence ==
    ASSUME NEW S, NEW s \in Seq(S), NEW t \in Seq(S), Len(s) = Len(t),
           \A i \in 1..Len(s) : s[i] = t[i]
    PROVE  s = t
  OBVIOUS

\* The newest part of a sequence.
LEMMA Newest ==
    ASSUME NEW S, NEW s \in Seq(S), NEW m \in 0..Len(s)
    PROVE  LET t == SubSeq(s, m + 1, Len(s))
           IN  /\ t \in Seq(S) /\ Len(t) = Len(s) - m
               /\ \A i \in 1..Len(t) : t[i] = s[m + i]
<1>1. m + 1 \in Nat /\ Len(s) \in Nat /\ \A i \in (m + 1)..Len(s) : i \in 1..Len(s)
  OBVIOUS
<1>2. SubSeq(s, m + 1, Len(s)) \in Seq(S)
  BY <1>1
<1> QED
  BY <1>1, <1>2

\* On every way out of ServeHTTP what is recorded is of the right kind and in
\* the right order.
LEMMA EffectsFit ==
    /\ <<>> \in Seq(Effects) /\ Ordered(<<>>)
    /\ ScannerErrorEffects \in Seq(Effects) /\ Ordered(ScannerErrorEffects)
    /\ BlockEffects \in Seq(Effects) /\ Ordered(BlockEffects)
    /\ UpstreamErrorEffects \in Seq(Effects) /\ Ordered(UpstreamErrorEffects)
    /\ StreamErrorEffects \in Seq(Effects) /\ Ordered(StreamErrorEffects)
  BY DEF Effects, Counters, Atomics, Actions, StreamActions, Classes, Ordered,
         ScannerErrorEffects, BlockEffects, UpstreamErrorEffects, StreamErrorEffects

LEMMA ForwardFits ==
    ASSUME NEW a \in StreamActions, NEW c \in Classes
    PROVE  ForwardEffects(a, c) \in Seq(Effects) /\ Ordered(ForwardEffects(a, c))
<1> DEFINE s == LeakEffects(a)
           t == <<"enqueue", "publish", a, c, "requests">>
<1>1. /\ t \in Seq(Effects) /\ Len(t) = 5
      /\ t[1] = "enqueue" /\ t[2] = "publish" /\ t[3] = a /\ t[4] = c /\ t[5] = "requests"
      /\ a # "publish" /\ c # "publish"
  BY DEF Effects, Counters, Atomics, Actions, StreamActions, Classes
<1>2. s \in Seq(Effects) /\ \A i \in 1..Len(s) : s[i] # "publish"
  <2>1. CASE s = <<"leaks", "terminations">>
    BY <2>1 DEF Effects, Counters, Atomics
  <2>2. CASE s = <<"leaks">>
    BY <2>2 DEF Effects, Counters, Atomics
  <2>3. CASE s = <<>>
    BY <2>3
  <2> QED
    BY <2>1, <2>2, <2>3 DEF LeakEffects, StreamActions
<1> HIDE DEF s
<1>3. /\ s \o t \in Seq(Effects) /\ Len(s \o t) = Len(s) + 5 /\ Len(s) \in Nat
      /\ \A i \in 1..Len(s) : (s \o t)[i] = s[i]
      /\ \A i \in 1..5 : (s \o t)[Len(s) + i] = t[i]
  BY <1>1, <1>2
<1>4. \A i \in 1..(Len(s) + 5) : i \in 1..Len(s) \/ \E k \in 1..5 : i = Len(s) + k
  <2>1. \A i \in 1..(Len(s) + 5) : i \in 1..Len(s) \/ (i - Len(s) \in 1..5 /\ i = Len(s) + (i - Len(s)))
    BY <1>3
  <2> QED
    BY <2>1
<1>5. \A i \in 1..(Len(s) + 5) : (s \o t)[i] = "publish" => i = Len(s) + 2
  BY <1>1, <1>2, <1>3, <1>4
<1>6. (s \o t)[Len(s) + 1] = "enqueue"
  BY <1>1, <1>3
<1>7. Ordered(s \o t)
  <2> DEFINE q == s \o t
  <2>1. Len(q) = Len(s) + 5 /\ q[Len(s) + 1] = "enqueue" /\ Len(s) \in Nat
    BY <1>3, <1>6
  <2>2. \A i \in 1..Len(q) : q[i] = "publish" => i = Len(s) + 2
    BY <1>5, <2>1
  <2> HIDE DEF q
  <2>3. \A i \in 1..Len(q) : q[i] = "publish" => i > 1 /\ i - 1 = Len(s) + 1
    BY <2>1, <2>2
  <2>4. Ordered(q)
    BY <2>1, <2>2, <2>3 DEF Ordered
  <2> QED
    BY <2>4 DEF q
<1> QED
  BY <1>3, <1>7 DEF ForwardEffects, s

\* A step of ServeHTTP, from a request that has nothing to record yet, leads on
\* or ends with what is to be recorded.
LEMMA Handled ==
    ASSUME TypeOK, NEW r \in Requests, Handle(r)
    PROVE  /\ stage[r] \in Stages
           /\ \/ \E s \in Stages : stage' = [stage EXCEPT ![r] = s] /\ UNCHANGED <<outcome, todo>>
              \/ \E o \in Outcomes, e \in Seq(Effects) : Ordered(e) /\ End(r, o, e)
           /\ UNCHANGED <<panicked, recorded, reader>>
           /\ scanFailed' \subseteq scanFailed \cup {r} /\ leaked' \subseteq leaked \cup {r}
<1>1. CASE Arrive(r)
  BY <1>1, EffectsFit DEF Arrive, GoTo, Handle, Stages, Outcomes
<1>2. CASE ScanFails(r)
  BY <1>2, EffectsFit DEF ScanFails, GoTo, Handle, Stages, Outcomes
<1>3. CASE Scan(r)
  BY <1>3, EffectsFit DEF Scan, GoTo, Handle, Stages, Outcomes, Actions
<1>4. CASE Forward(r)
  BY <1>4, EffectsFit DEF Forward, GoTo, Handle, Stages, Outcomes
<1>5. CASE StreamEnds(r)
  <2>1. PICK leak \in BOOLEAN, class \in UpstreamClasses :
           End(r, ActionOf(leak), ForwardEffects(ActionOf(leak), class))
    BY <1>5 DEF StreamEnds
  <2>2. ActionOf(leak) \in StreamActions /\ class \in Classes
    BY GatewayAssumption DEF ActionOf, StreamActions
  <2>3. ActionOf(leak) \in Outcomes
    BY <2>2 DEF Outcomes, Actions
  <2> QED
    BY <1>5, <2>1, <2>2, <2>3, ForwardFits DEF StreamEnds, Handle, Stages
<1>6. CASE StreamBreaks(r)
  BY <1>6, EffectsFit DEF StreamBreaks, Handle, Stages, Outcomes
<1> QED
  BY <1>1, <1>2, <1>3, <1>4, <1>5, <1>6 DEF Handle

-----------------------------------------------------------------------------
\* The types are kept by every way through the handler, by every record, and by
\* the reader of the counters.
THEOREM TypeCorrect == Spec => []TypeOK
<1>1. Init => TypeOK
  <2> SUFFICES ASSUME Init PROVE TypeOK
    OBVIOUS
  <2>1. <<>> \in Seq(Requests) /\ <<>> \in Seq(Effects) /\ Len(<<>>) = 0
    OBVIOUS
  <2> QED
    BY <2>1, GatewayAssumption DEF Init, TypeOK, Outcomes, LoadOrder, Effects
<1>2. TypeOK /\ [Next]_vars => TypeOK'
  <2> SUFFICES ASSUME TypeOK, [Next]_vars PROVE TypeOK'
    OBVIOUS
  <2>1. ASSUME NEW r \in Requests, Handle(r) PROVE TypeOK'
    <3>1. UNCHANGED <<panicked, recorded, reader>>
          /\ scanFailed' \subseteq scanFailed \cup {r} /\ leaked' \subseteq leaked \cup {r}
      BY <2>1, Handled
    <3>2. CASE \E s \in Stages : stage' = [stage EXCEPT ![r] = s] /\ UNCHANGED <<outcome, todo>>
      BY <3>1, <3>2 DEF TypeOK, recorded, reader, Stages
    <3>3. CASE \E o \in Outcomes, e \in Seq(Effects) : Ordered(e) /\ End(r, o, e)
      BY <3>1, <3>3 DEF TypeOK, recorded, reader, End, Effects
    <3> QED
      BY <2>1, <3>2, <3>3, Handled
  <2>2. ASSUME NEW r \in Requests, todo[r] # <<>>, Done(r)
        PROVE  /\ todo' \in [Requests -> Seq(Effects)]
               /\ UNCHANGED <<stage, outcome, panicked, scanFailed, leaked>>
    BY <2>2, Rest DEF Done, TypeOK, Effects
  <2>3. ASSUME NEW r \in Requests, Record(r) PROVE TypeOK'
    <3>1. count' \in [Counters -> Nat]
      BY <2>3 DEF Record, TypeOK
    <3> QED
      BY <2>2, <2>3, <3>1 DEF Record, TypeOK, reader, Effects
  <2>4. ASSUME NEW r \in Requests, Enqueue(r) PROVE TypeOK'
    BY <2>2, <2>4, Added DEF Enqueue, TypeOK, reader, Effects
  <2>5. ASSUME NEW r \in Requests, EnqueuePanics(r) PROVE TypeOK'
    BY <2>5 DEF EnqueuePanics, TypeOK, recorded, reader
  <2>6. ASSUME NEW r \in Requests, PublishLiveEvent(r) PROVE TypeOK'
    <3>1. published' \in Seq(Requests)
      BY <2>6, Added DEF PublishLiveEvent, TypeOK
    <3>2. liveEvents' \in Seq(Requests) /\ Len(liveEvents') <= LiveCap
      <4> DEFINE feed == Append(liveEvents, r)
      <4>1. feed \in Seq(Requests) /\ Len(feed) \in Nat
        BY Added DEF TypeOK
      <4>2. liveEvents' = Trimmed(feed)
        BY <2>6 DEF PublishLiveEvent
      <4> HIDE DEF feed
      <4>3. CASE Len(feed) > LiveCap
        <5>1. Len(feed) - LiveCap \in 0..Len(feed)
          BY <4>1, <4>3, GatewayAssumption
        <5>2. liveEvents' = SubSeq(feed, (Len(feed) - LiveCap) + 1, Len(feed))
          BY <4>2, <4>3 DEF Trimmed
        <5> QED
          BY <4>1, <5>1, <5>2, Newest, GatewayAssumption
      <4>4. CASE ~ (Len(feed) > LiveCap)
        BY <4>1, <4>2, <4>4, GatewayAssumption DEF Trimmed
      <4> QED
        BY <4>3, <4>4
    <3> QED
      BY <2>2, <2>6, <3>1, <3>2 DEF PublishLiveEvent, TypeOK, reader, Effects
  <2>7. CASE CloseQueue
    BY <2>7 DEF CloseQueue, TypeOK, handlers, recorded, reader
  <2>8. CASE LoadAtomic
    <3>1. Len(LoadOrder) = 6 /\ \A k \in 1..6 : LoadOrder[k] \in Counters
      BY DEF LoadOrder, Counters, Atomics
    <3>2. loaded + 1 \in 1..6 /\ loaded' = loaded + 1
      <4>1. loaded \in 0..7 /\ loaded < 6
        BY <2>8, <3>1 DEF LoadAtomic, TypeOK
      <4> QED
        BY <2>8, <4>1 DEF LoadAtomic
    <3>3. snap' \in [Counters -> Nat]
      BY <2>8, <3>1, <3>2 DEF LoadAtomic, TypeOK
    <3>4. loaded' \in 0..Len(LoadOrder) + 1
      BY <3>1, <3>2
    <3> QED
      BY <2>8, <3>3, <3>4 DEF LoadAtomic, TypeOK, handlers, recorded
  <2>9. CASE CopyMaps
    <3>1. Len(LoadOrder) = 6
      BY DEF LoadOrder
    <3> QED
      BY <2>9, <3>1 DEF CopyMaps, TypeOK, handlers, recorded
  <2>10. CASE UNCHANGED vars
    BY <2>10 DEF vars, TypeOK, handlers, recorded, reader
  <2> QED
    BY <2>1, <2>3, <2>4, <2>5, <2>6, <2>7, <2>8, <2>9, <2>10 DEF Next
<1> QED
  BY <1>1, <1>2, PTL DEF Spec

-----------------------------------------------------------------------------
\* FeedFaithful is not inductive: that an event is published once, and after it
\* was enqueued, depends on what its handler has left to do.
Unpublished == \A r \in Requests : stage[r] \in Stages => todo[r] = <<>> /\ ~ InSeq(r, published)

PublishIsDue ==
    \A r \in Requests : \A i \in 1..Len(todo[r]) : todo[r][i] = "publish" =>
        /\ ~ InSeq(r, published)
        /\ i = 1 => InSeq(r, queue)
        /\ i > 1 => todo[r][i - 1] = "enqueue"
        /\ \A j \in 1..Len(todo[r]) : todo[r][j] = "publish" => j = i

PublishedOnce ==
    /\ \A i, j \in 1..Len(published) : published[i] = published[j] => i = j
    /\ \A i \in 1..Len(published) : InSeq(published[i], queue)

\* The feed is the last part of what was published.
FeedIsNewest ==
    /\ Len(liveEvents) <= Len(published)
    /\ Len(liveEvents) < LiveCap => Len(liveEvents) = Len(published)
    /\ \A i \in 1..Len(liveEvents) :
          liveEvents[i] = published[(Len(published) - Len(liveEvents)) + i]

FeedInv == Unpublished /\ PublishIsDue /\ PublishedOnce /\ FeedIsNewest

\* A sequence holds what is appended to it, and what it held.
LEMMA AddedIn ==
    ASSUME NEW s \in Seq(Requests), NEW x \in Requests
    PROVE  \A r \in Requests : InSeq(r, Append(s, x)) <=> r = x \/ InSeq(r, s)
<1>1. /\ DOMAIN s = 1..Len(s) /\ DOMAIN Append(s, x) = 1..(Len(s) + 1) /\ Len(s) \in Nat
      /\ \A i \in 1..Len(s) : Append(s, x)[i] = s[i]
      /\ Append(s, x)[Len(s) + 1] = x
  BY Added
<1> QED
  BY <1>1 DEF InSeq

\* An effect that is done, other than publishing, leaves the next ones in order.
LEMMA DoneKeepsOrder ==
    ASSUME TypeOK, Unpublished, PublishIsDue, NEW r \in Requests, todo[r] # <<>>, Done(r),
           NextEffect(r) # "publish", published' = published,
           \A q \in Requests : InSeq(q, queue) => InSeq(q, queue'),
           NextEffect(r) = "enqueue" => InSeq(r, queue')
    PROVE  Unpublished' /\ PublishIsDue'
<1>1. /\ \A q \in Requests \ {r} : todo'[q] = todo[q]
      /\ todo'[r] = Tail(todo[r]) /\ todo[r] \in Seq(Effects) /\ stage' = stage
  BY DEF Done, TypeOK, Effects
<1>2. /\ NextEffect(r) = todo[r][1] /\ Len(todo[r]) \in Nat /\ Len(todo'[r]) = Len(todo[r]) - 1
      /\ \A i \in 1..Len(todo'[r]) : todo'[r][i] = todo[r][i + 1]
  BY <1>1, Rest DEF NextEffect
<1>3. Unpublished'
  BY <1>1 DEF Unpublished
<1>4. ASSUME NEW i \in 1..Len(todo'[r]), todo'[r][i] = "publish"
      PROVE  /\ ~ InSeq(r, published)
             /\ i = 1 => InSeq(r, queue')
             /\ i > 1 => todo'[r][i - 1] = "enqueue"
             /\ \A j \in 1..Len(todo'[r]) : todo'[r][j] = "publish" => j = i
  <2>1. i + 1 \in 1..Len(todo[r]) /\ todo[r][i + 1] = "publish" /\ i + 1 > 1 /\ (i + 1) - 1 = i
    BY <1>2, <1>4
  <2>2. /\ ~ InSeq(r, published) /\ todo[r][i] = "enqueue"
        /\ \A j \in 1..Len(todo[r]) : todo[r][j] = "publish" => j = i + 1
    BY <2>1 DEF PublishIsDue
  <2>3. i > 1 => i - 1 \in 1..Len(todo'[r]) /\ (i - 1) + 1 = i
    BY <1>2
  <2>6. i > 1 => todo'[r][i - 1] = "enqueue"
    BY <1>2, <2>2, <2>3
  <2>7. i = 1 => InSeq(r, queue')
    BY <1>2, <2>2
  <2>4. \A j \in 1..Len(todo'[r]) : j + 1 \in 1..Len(todo[r])
    BY <1>2
  <2>5. \A j \in 1..Len(todo'[r]) : todo'[r][j] = "publish" => j = i
    <3>1. \A j \in 1..Len(todo'[r]) : todo'[r][j] = "publish" => j + 1 = i + 1
      BY <1>2, <2>2, <2>4
    <3>2. \A j \in 1..Len(todo'[r]) : j + 1 = i + 1 => j = i
      BY <1>2
    <3> QED
      BY <3>1, <3>2
  <2> QED
    BY <2>2, <2>5, <2>6, <2>7
<1>5. ASSUME NEW q \in Requests \ {r}, NEW i \in 1..Len(todo'[q]), todo'[q][i] = "publish"
      PROVE  /\ ~ InSeq(q, published)
             /\ i = 1 => InSeq(q, queue')
             /\ i > 1 => todo'[q][i - 1] = "enqueue"
             /\ \A j \in 1..Len(todo'[q]) : todo'[q][j] = "publish" => j = i
  <2>1. todo'[q] = todo[q]
    BY <1>1
  <2> QED
    BY <1>5, <2>1 DEF PublishIsDue
<1>6. PublishIsDue'
  BY <1>4, <1>5 DEF PublishIsDue
<1> QED
  BY <1>3, <1>6

\* A published event is the newest of the feed, and if the feed was full the
\* oldest has gone.
LEMMA PublishKeepsNewest ==
    ASSUME TypeOK, FeedIsNewest, NEW r \in Requests, published' = Append(published, r),
           liveEvents' = Trimmed(Append(liveEvents, r))
    PROVE  FeedIsNewest'
<1> DEFINE feed == Append(liveEvents, r)
           m == Len(liveEvents)
           n == Len(published)
<1>1. /\ feed \in Seq(Requests) /\ m \in Nat /\ Len(feed) = m + 1 /\ feed[m + 1] = r
      /\ \A i \in 1..m : feed[i] = liveEvents[i]
  BY Added DEF TypeOK
<1>2. /\ n \in Nat /\ Len(published') = n + 1 /\ published'[n + 1] = r
      /\ \A i \in 1..n : published'[i] = published[i]
  BY Added DEF TypeOK
<1>3. /\ m <= n /\ m <= LiveCap /\ (m < LiveCap => m = n) /\ LiveCap \in Nat \ {0}
      /\ \A i \in 1..m : liveEvents[i] = published[(n - m) + i]
  BY GatewayAssumption DEF FeedIsNewest, TypeOK
<1> HIDE DEF feed, m, n
<1>4. \A i \in 1..m : (n - m) + i \in 1..n
  BY <1>1, <1>2, <1>3
<1>5. \A i \in 1..(m + 1) : feed[i] = published'[(n - m) + i]
  <2>1. \A i \in 1..m : feed[i] = published'[(n - m) + i]
    BY <1>1, <1>2, <1>3, <1>4
  <2>2. (n - m) + (m + 1) = n + 1
    BY <1>1, <1>2
  <2>3. \A i \in 1..(m + 1) : i \in 1..m \/ i = m + 1
    BY <1>1
  <2> QED
    BY <1>1, <1>2, <2>1, <2>2, <2>3
<1>6. CASE m = LiveCap
  <2>1. liveEvents' = SubSeq(feed, 1 + 1, Len(feed))
    <3>1. Len(feed) > LiveCap /\ (Len(feed) - LiveCap) + 1 = 1 + 1
      BY <1>1, <1>3, <1>6
    <3> QED
      BY <3>1 DEF Trimmed, feed
  <2>2. /\ Len(liveEvents') = m
        /\ \A i \in 1..m : liveEvents'[i] = feed[1 + i]
    <3>1. 1 \in 0..Len(feed) /\ Len(feed) - 1 = m
      BY <1>1
    <3> QED
      BY <1>1, <2>1, <3>1, Newest
  <2>3. \A i \in 1..m : 1 + i \in 1..(m + 1) /\ (n - m) + (1 + i) = ((n + 1) - m) + i
    BY <1>1, <1>2
  <2>4. \A i \in 1..m : liveEvents'[i] = published'[((n + 1) - m) + i]
    <3> TAKE i \in 1..m
    <3>1. liveEvents'[i] = feed[1 + i]
      BY <2>2
    <3>2. feed[1 + i] = published'[(n - m) + (1 + i)]
      BY <1>5, <2>3
    <3>3. (n - m) + (1 + i) = ((n + 1) - m) + i
      BY <2>3
    <3> QED
      BY <3>1, <3>2, <3>3
  <2>5. m <= n + 1 /\ ~ (m < LiveCap)
    BY <1>1, <1>2, <1>3, <1>6
  <2> QED
    BY <1>2, <2>2, <2>4, <2>5 DEF FeedIsNewest
<1>7. CASE m < LiveCap
  <2>1. liveEvents' = feed
    <3>1. ~ (Len(feed) > LiveCap)
      BY <1>1, <1>3, <1>7
    <3> QED
      BY <3>1 DEF Trimmed, feed
  <2>2. m = n /\ m + 1 <= n + 1 /\ m + 1 = n + 1 /\ (n + 1) - (m + 1) = n - m
    BY <1>1, <1>2, <1>3, <1>7
  <2>3. \A i \in 1..(m + 1) : liveEvents'[i] = published'[((n + 1) - (m + 1)) + i]
    BY <1>5, <2>1, <2>2
  <2>4. Len(liveEvents') = m + 1 /\ Len(published') = n + 1
    BY <1>1, <1>2, <2>1
  <2> QED
    BY <2>2, <2>3, <2>4 DEF FeedIsNewest
<1> QED
  BY <1>1, <1>3, <1>6, <1>7

\* The live feed shows the newest events, each once, and only such as the queue
\* has taken, however handlers interleave and wherever one panics.
THEOREM FeedShowsTheNewest == Spec => []FeedFaithful
<1>1. Init => FeedInv
  BY GatewayAssumption
     DEF Init, FeedInv, Unpublished, PublishIsDue, PublishedOnce, FeedIsNewest, InSeq
<1>2. TypeOK /\ FeedInv /\ [Next]_vars => FeedInv'
  <2> SUFFICES ASSUME TypeOK, FeedInv, [Next]_vars PROVE FeedInv'
    OBVIOUS
  <2>0. Unpublished /\ PublishIsDue /\ PublishedOnce /\ FeedIsNewest
    BY DEF FeedInv
  <2>1. ASSUME NEW r \in Requests, Handle(r) PROVE FeedInv'
    <3>1. stage[r] \in Stages /\ UNCHANGED <<queue, published, liveEvents>>
      BY <2>1, Handled DEF recorded
    <3>2. PublishedOnce' /\ FeedIsNewest'
      BY <2>0, <3>1 DEF PublishedOnce, FeedIsNewest
    <3>3. todo[r] = <<>> /\ ~ InSeq(r, published)
      BY <2>0, <3>1 DEF Unpublished
    <3>4. CASE \E s \in Stages : stage' = [stage EXCEPT ![r] = s] /\ UNCHANGED <<outcome, todo>>
      <4>1. Unpublished'
        BY <2>0, <3>1, <3>3, <3>4 DEF Unpublished, TypeOK
      <4>2. PublishIsDue'
        BY <2>0, <3>1, <3>4 DEF PublishIsDue
      <4> QED
        BY <3>2, <4>1, <4>2 DEF FeedInv
    <3>5. CASE \E o \in Outcomes, e \in Seq(Effects) : Ordered(e) /\ End(r, o, e)
      <4>1. PICK e \in Seq(Effects) :
               /\ Ordered(e) /\ todo' = [todo EXCEPT ![r] = e]
               /\ stage' = [stage EXCEPT ![r] = "recording"]
        BY <3>5 DEF End
      <4>2. todo'[r] = e /\ \A q \in Requests \ {r} : todo'[q] = todo[q] /\ stage'[q] = stage[q]
        BY <4>1 DEF TypeOK
      <4>3. Unpublished'
        BY <2>0, <3>1, <4>1, <4>2 DEF Unpublished, TypeOK, Stages
      <4>4. \A i \in 1..Len(e) : e[i] = "publish" =>
               /\ i > 1 /\ i # 1 /\ e[i - 1] = "enqueue"
               /\ \A j \in 1..Len(e) : e[j] = "publish" => j = i
        BY <4>1 DEF Ordered
      <4>5. PublishIsDue'
        BY <2>0, <3>1, <3>3, <4>2, <4>4 DEF PublishIsDue
      <4> QED
        BY <3>2, <4>3, <4>5 DEF FeedInv
    <3> QED
      BY <2>1, <3>4, <3>5, Handled
  <2>2. ASSUME NEW r \in Requests, Record(r) PROVE FeedInv'
    <3>1. NextEffect(r) \notin {"enqueue", "publish"}
      BY <2>2 DEF Record, Counters, Atomics, Actions, StreamActions, Classes
    <3>2. Unpublished' /\ PublishIsDue'
      BY <2>0, <2>2, <3>1, DoneKeepsOrder DEF Record
    <3>3. PublishedOnce' /\ FeedIsNewest'
      BY <2>0, <2>2 DEF Record, PublishedOnce, FeedIsNewest
    <3> QED
      BY <3>2, <3>3 DEF FeedInv
  <2>3. ASSUME NEW r \in Requests, Enqueue(r) PROVE FeedInv'
    <3>1. \A q \in Requests : InSeq(q, queue') <=> q = r \/ InSeq(q, queue)
      BY <2>3, AddedIn DEF Enqueue, TypeOK
    <3>2. Unpublished' /\ PublishIsDue'
      BY <2>0, <2>3, <3>1, DoneKeepsOrder DEF Enqueue
    <3>3. \A i \in 1..Len(published) : published[i] \in Requests
      BY DEF TypeOK
    <3>4. PublishedOnce' /\ FeedIsNewest'
      BY <2>0, <2>3, <3>1, <3>3 DEF Enqueue, PublishedOnce, FeedIsNewest
    <3> QED
      BY <3>2, <3>4 DEF FeedInv
  <2>4. ASSUME NEW r \in Requests, EnqueuePanics(r) PROVE FeedInv'
    <3>1. /\ todo'[r] = <<>> /\ \A q \in Requests \ {r} : todo'[q] = todo[q]
          /\ UNCHANGED <<stage, queue, published, liveEvents>>
      BY <2>4 DEF EnqueuePanics, TypeOK, recorded
    <3>2. Unpublished'
      BY <2>0, <3>1 DEF Unpublished
    <3>3. PublishIsDue'
      BY <2>0, <3>1 DEF PublishIsDue
    <3>4. PublishedOnce' /\ FeedIsNewest'
      BY <2>0, <3>1 DEF PublishedOnce, FeedIsNewest
    <3> QED
      BY <3>2, <3>3, <3>4 DEF FeedInv
  <2>5. ASSUME NEW r \in Requests, PublishLiveEvent(r) PROVE FeedInv'
    <3>1. /\ todo[r] # <<>> /\ todo[r] \in Seq(Effects) /\ todo'[r] = Tail(todo[r])
          /\ \A q \in Requests \ {r} : todo'[q] = todo[q]
          /\ published' = Append(published, r) /\ liveEvents' = Trimmed(Append(liveEvents, r))
          /\ UNCHANGED <<stage, queue>>
      BY <2>5 DEF PublishLiveEvent, Done, TypeOK, Effects
    <3>2. /\ todo[r][1] = "publish" /\ Len(todo[r]) \in Nat \ {0} /\ Len(todo'[r]) = Len(todo[r]) - 1
          /\ \A i \in 1..Len(todo'[r]) : todo'[r][i] = todo[r][i + 1]
      BY <2>5, <3>1, Rest DEF PublishLiveEvent, NextEffect
    <3>3. /\ 1 \in 1..Len(todo[r])
          /\ \A i \in 1..Len(todo'[r]) : i + 1 \in 1..Len(todo[r]) /\ i + 1 # 1
      BY <3>2
    <3>4. /\ ~ InSeq(r, published) /\ InSeq(r, queue)
          /\ \A j \in 1..Len(todo[r]) : todo[r][j] = "publish" => j = 1
      BY <2>0, <3>2, <3>3 DEF PublishIsDue
    <3>5. \A i \in 1..Len(todo'[r]) : todo'[r][i] # "publish"
      BY <3>2, <3>3, <3>4
    <3>6. \A q \in Requests : InSeq(q, published') <=> q = r \/ InSeq(q, published)
      BY <3>1, AddedIn DEF TypeOK
    <3>7. Unpublished'
      BY <2>0, <3>1, <3>6 DEF Unpublished
    <3>8. PublishIsDue'
      <4> SUFFICES ASSUME NEW q \in Requests, NEW i \in 1..Len(todo'[q]), todo'[q][i] = "publish"
                   PROVE  /\ ~ InSeq(q, published')
                          /\ i = 1 => InSeq(q, queue)
                          /\ i > 1 => todo'[q][i - 1] = "enqueue"
                          /\ \A j \in 1..Len(todo'[q]) : todo'[q][j] = "publish" => j = i
        BY <3>1 DEF PublishIsDue
      <4>1. q # r /\ todo'[q] = todo[q]
        BY <3>1, <3>5
      <4>2. ~ InSeq(q, published')
        BY <2>0, <3>6, <4>1 DEF PublishIsDue
      <4> QED
        BY <2>0, <4>1, <4>2 DEF PublishIsDue
    <3>9. PublishedOnce'
      <4>1. /\ Len(published') = Len(published) + 1 /\ Len(published) \in Nat
            /\ published'[Len(published) + 1] = r
            /\ \A i \in 1..Len(published) : published'[i] = published[i]
            /\ \A i \in 1..Len(published) : published[i] # r
        BY <3>1, <3>4, Added DEF TypeOK, InSeq
      <4>2. \A i \in 1..(Len(published) + 1) : i \in 1..Len(published) \/ i = Len(published) + 1
        BY <4>1
      <4> QED
        BY <2>0, <3>1, <3>4, <4>1, <4>2 DEF PublishedOnce
    <3>10. FeedIsNewest'
      BY <2>0, <3>1, PublishKeepsNewest
    <3> QED
      BY <3>7, <3>8, <3>9, <3>10 DEF FeedInv
  <2>6. CASE CloseQueue \/ LoadAtomic \/ CopyMaps \/ UNCHANGED vars
    <3>1. UNCHANGED <<stage, todo, queue, published, liveEvents>>
      BY <2>6 DEF CloseQueue, LoadAtomic, CopyMaps, vars, handlers, recorded
    <3> QED
      BY <2>0, <3>1 DEF FeedInv, Unpublished, PublishIsDue, PublishedOnce, FeedIsNewest
  <2> QED
    BY <2>1, <2>2, <2>3, <2>4, <2>5, <2>6 DEF Next
<1>3. TypeOK /\ FeedInv => FeedFaithful
  <2> SUFFICES ASSUME TypeOK, FeedInv PROVE FeedFaithful
    OBVIOUS
  <2> DEFINE m == Len(liveEvents)
             n == Len(published)
  <2>1. /\ m \in Nat /\ n \in Nat /\ m <= n /\ (m < LiveCap => m = n)
        /\ DOMAIN liveEvents = 1..m /\ DOMAIN published = 1..n
        /\ liveEvents \in Seq(Requests) /\ published \in Seq(Requests)
        /\ \A i \in 1..m : liveEvents[i] = published[(n - m) + i]
    BY DEF TypeOK, FeedInv, FeedIsNewest
  <2>0. /\ \A i, j \in 1..n : published[i] = published[j] => i = j
        /\ \A i \in 1..n : InSeq(published[i], queue)
    BY DEF FeedInv, PublishedOnce
  <2>9. n = Len(published) /\ m = Len(liveEvents)
    OBVIOUS
  <2> HIDE DEF m, n
  <2>2. n - m \in 0..n /\ n - (n - m) = m
    BY <2>1
  <2>3. liveEvents = SubSeq(published, (n - m) + 1, n)
    <3> DEFINE t == SubSeq(published, (n - m) + 1, n)
    <3>1. t \in Seq(Requests) /\ Len(t) = m /\ \A i \in 1..m : t[i] = published[(n - m) + i]
      <4>1. n - m \in 0..Len(published) /\ Len(published) = n /\ published \in Seq(Requests)
        BY <2>1, <2>2, <2>9
      <4>2. LET u == SubSeq(published, (n - m) + 1, Len(published))
            IN  /\ u \in Seq(Requests) /\ Len(u) = Len(published) - (n - m)
                /\ \A i \in 1..Len(u) : u[i] = published[(n - m) + i]
        BY <4>1, Newest
      <4>3. Len(published) - (n - m) = m
        BY <2>2, <4>1
      <4> QED
        BY <4>1, <4>2, <4>3
    <3> HIDE DEF t
    <3>2. liveEvents = t
      <4>1. /\ liveEvents \in Seq(Requests) /\ Len(liveEvents) = Len(t)
            /\ \A i \in 1..Len(liveEvents) : liveEvents[i] = t[i]
        BY <2>1, <2>9, <3>1
      <4> QED
        BY <3>1, <4>1, SameSequence
    <3> QED
      BY <3>2 DEF t
  <2>4. m < LiveCap => liveEvents = published
    <3> SUFFICES ASSUME m < LiveCap PROVE liveEvents = published
      OBVIOUS
    <3>1. n = m /\ \A i \in 1..m : (n - m) + i = i
      BY <2>1
    <3>2. \A i \in 1..m : liveEvents[i] = published[i]
      BY <2>1, <3>1
    <3>3. liveEvents \in Seq(Requests) /\ published \in Seq(Requests)
          /\ Len(liveEvents) = Len(published) /\ \A i \in 1..Len(liveEvents) : liveEvents[i] = published[i]
      BY <2>1, <2>9, <3>1, <3>2
    <3> QED
      BY <3>3, SameSequence
  <2>5. \A i \in 1..m : (n - m) + i \in 1..n
    BY <2>1
  <2>6. \A i, j \in 1..m : liveEvents[i] = liveEvents[j] => i = j
    <3>1. \A i, j \in 1..m : liveEvents[i] = liveEvents[j] => (n - m) + i = (n - m) + j
      BY <2>0, <2>1, <2>5
    <3>2. \A i, j \in 1..m : (n - m) + i = (n - m) + j => i = j
      BY <2>2
    <3> QED
      BY <3>1, <3>2
  <2>7. \A i \in 1..m : InSeq(liveEvents[i], queue)
    BY <2>0, <2>1, <2>5
  <2>8. \E k \in 0..Len(published) : liveEvents = SubSeq(published, k + 1, Len(published))
    BY <2>2, <2>3, <2>9
  <2> QED
    BY <2>1, <2>4, <2>6, <2>7, <2>8, <2>9 DEF FeedFaithful
<1> QED
  BY <1>1, <1>2, <1>3, TypeCorrect, PTL DEF Spec

-----------------------------------------------------------------------------
(* The books.  What a request that ended with o owes the counters and the    *)
(* queue; Classed ones owe a status class too.                               *)

Served == {"allow", "redact_stream", "terminate_stream"}
Classed == Actions \cup {"scannerError", "upstreamError", "streamError"}
Leaky == {"redact_stream", "terminate_stream"}

Owes(o, x) ==
    \/ x = "requests" /\ o \in Classed
    \/ x \in {"enqueue", "publish"} /\ o \in Actions
    \/ x \in Actions /\ o = x
    \/ x = "blocked" /\ o = "block_input"
    \/ x = "scannerFailures" /\ o = "scannerError"
    \/ x = "upstreamFailures" /\ o = "upstreamError"
    \/ x = "leaks" /\ o \in Leaky
    \/ x = "terminations" /\ o = "terminate_stream"

\* What is recorded before the event is handed to the queue.
Early == {"blocked", "scannerFailures", "upstreamFailures", "leaks", "terminations"}

\* What is so of a sequence of effects that is left to a request that ended
\* with o: nothing is in it twice, nothing that is not owed, requests is last,
\* and a handler that panics at the queue loses all that is not early.
Good(s, o) ==
    /\ \A i \in 1..Len(s) : Owes(o, s[i]) \/ (s[i] \in Classes /\ o \in Classed)
    /\ \A i, j \in 1..Len(s) : i < j =>
          s[i] # s[j] /\ ~ (s[i] \in Classes /\ s[j] \in Classes)
    /\ \A i \in 1..Len(s) : i = Len(s) <=> s[i] = "requests"
    /\ \A i \in 1..Len(s) : s[i] = "enqueue" =>
          /\ \A j \in 1..Len(s) : i < j =>
                s[j] \notin Early /\ ~ (s[j] \in Classes /\ o = "block_input")
          /\ \E j \in 1..Len(s) : i < j /\ s[j] = o
          /\ o \in Served => \E j \in 1..Len(s) : i < j /\ s[j] \in Classes

IsIn(x, s) == \E i \in 1..Len(s) : s[i] = x
Left(x, r) == IsIn(x, todo[r])
ClassLeft(r) == \E c \in Classes : Left(c, r)

\* The requests that have recorded x, or a status class.  One whose handler
\* panicked has recorded only what is early.
Got(x) == {r \in Requests :
              Owes(outcome[r], x) /\ ~ Left(x, r) /\ (r \in panicked => x \in Early)}
GotClass == {r \in Requests :
              /\ outcome[r] \in Classed /\ ~ ClassLeft(r)
              /\ ~ (r \in panicked /\ outcome[r] \in Served)}

\* Where a request is, and what is known of how it ended.
Ending(r) ==
    /\ stage[r] \in Stages =>
          outcome[r] = "none" /\ todo[r] = <<>> /\ r \notin panicked /\ r \notin leaked
    /\ r \in panicked => todo[r] = <<>> /\ outcome[r] \in Actions
    /\ Good(todo[r], outcome[r])
    /\ outcome[r] \in StreamActions => (r \in leaked <=> outcome[r] \in Leaky)
    /\ outcome[r] = "scannerError" => ~ scannerFailOpen /\ r \in scanFailed
    /\ r \in scanFailed /\ ~ scannerFailOpen => outcome[r] = "scannerError"

EndInv == \A r \in Requests : Ending(r)

CountInv ==
    /\ \A x \in Atomics \cup Actions : count[x] = Cardinality(Got(x))
    /\ OfClasses(count) = Cardinality(GotClass)
    /\ Len(queue) = Cardinality(Got("enqueue"))

\* What a snapshot is going to show of a counter, if it were completed now: what
\* was loaded, or what the counter has reached.
Shown(n) == IF loaded >= n THEN snap ELSE count

ShowInv ==
    loaded >= 1 =>
        /\ snap["requests"] <= OfClasses(Shown(7))
        /\ snap["requests"] <= OfActions(Shown(7)) + Shown(3)["scannerFailures"]
                                 + Shown(4)["upstreamFailures"]
                                 + Cardinality(With("streamError"))

\* All that o owes is still to be recorded.
Planned(s, o) ==
    /\ Good(s, o)
    /\ \A x \in Effects : Owes(o, x) => IsIn(x, s)
    /\ o \in Classed => \E c \in Classes : IsIn(c, s)

LEMMA NothingPlanned ==
    ASSUME NEW o, o \notin Classed
    PROVE  Planned(<<>>, o)
BY DEF Planned, Good, Owes, IsIn, Classed, Actions, StreamActions, Leaky

\* A plan that is written out.
LEMMA ScannerErrorPlanned == Planned(ScannerErrorEffects, "scannerError")
<1> DEFINE s == ScannerErrorEffects
<1>1. Len(s) = 3 /\ s[1] = "scannerFailures" /\ s[2] = "5xx" /\ s[3] = "requests"
    BY DEF ScannerErrorEffects
<1> HIDE DEF s
<1>2. Good(s, "scannerError")
    BY <1>1 DEF Good, Owes, Classed, Classes, Actions, StreamActions
<1>3. IsIn("scannerFailures", s) /\ IsIn("5xx", s) /\ IsIn("requests", s)
    BY <1>1 DEF IsIn
<1> QED
    BY <1>2, <1>3 DEF Planned, Owes, Classed, Classes, Actions, StreamActions, Leaky, s

LEMMA UpstreamErrorPlanned == Planned(UpstreamErrorEffects, "upstreamError")
<1> DEFINE s == UpstreamErrorEffects
<1>1. Len(s) = 3 /\ s[1] = "upstreamFailures" /\ s[2] = "5xx" /\ s[3] = "requests"
    BY DEF UpstreamErrorEffects
<1> HIDE DEF s
<1>2. Good(s, "upstreamError")
    BY <1>1 DEF Good, Owes, Classed, Classes, Actions, StreamActions
<1>3. IsIn("upstreamFailures", s) /\ IsIn("5xx", s) /\ IsIn("requests", s)
    BY <1>1 DEF IsIn
<1> QED
    BY <1>2, <1>3 DEF Planned, Owes, Classed, Classes, Actions, StreamActions, Leaky, s

LEMMA StreamErrorPlanned == Planned(StreamErrorEffects, "streamError")
<1> DEFINE s == StreamErrorEffects
<1>1. Len(s) = 2 /\ s[1] = "5xx" /\ s[2] = "requests"
    BY DEF StreamErrorEffects
<1> HIDE DEF s
<1>2. Good(s, "streamError")
    BY <1>1 DEF Good, Owes, Classed, Classes, Actions, StreamActions
<1>3. IsIn("5xx", s) /\ IsIn("requests", s)
    BY <1>1 DEF IsIn
<1> QED
    BY <1>2, <1>3 DEF Planned, Owes, Classed, Classes, Actions, StreamActions, Leaky, s

LEMMA BlockPlanned == Planned(BlockEffects, "block_input")
<1> DEFINE s == BlockEffects
<1>1. /\ Len(s) = 6 /\ s[1] = "blocked" /\ s[2] = "4xx" /\ s[3] = "enqueue"
      /\ s[4] = "publish" /\ s[5] = "block_input" /\ s[6] = "requests"
    BY DEF BlockEffects
<1> HIDE DEF s
<1>2. \A i \in 1..6 : Owes("block_input", s[i]) \/ (s[i] \in Classes /\ "block_input" \in Classed)
    BY <1>1 DEF Owes, Classed, Classes, Actions
<1>3. \A i, j \in 1..6 : i < j => s[i] # s[j] /\ ~ (s[i] \in Classes /\ s[j] \in Classes)
    BY <1>1 DEF Classes
<1>4. \A i \in 1..6 : i = 6 <=> s[i] = "requests"
    BY <1>1
<1>5. \A i \in 1..6 : s[i] = "enqueue" => i = 3
    BY <1>1
<1>6. \A j \in 1..6 : 3 < j => s[j] \notin Early /\ s[j] \notin Classes
    BY <1>1 DEF Early, Classes
<1>7. "block_input" \notin Served
    BY DEF Served
<1>8. Good(s, "block_input")
    BY <1>1, <1>2, <1>3, <1>4, <1>5, <1>6, <1>7 DEF Good
<1>9. /\ IsIn("blocked", s) /\ IsIn("4xx", s) /\ IsIn("enqueue", s)
      /\ IsIn("publish", s) /\ IsIn("block_input", s) /\ IsIn("requests", s)
    BY <1>1 DEF IsIn
<1> QED
    BY <1>8, <1>9 DEF Planned, Owes, Classed, Classes, Actions, StreamActions, Leaky, s

\* The effects of an answer that was passed on: those of a leak, then five more.
LEMMA ForwardPlanned ==
    ASSUME NEW a \in StreamActions, NEW c \in Classes
    PROVE  Planned(ForwardEffects(a, c), a)
<1> DEFINE l == LeakEffects(a)
           t == <<"enqueue", "publish", a, c, "requests">>
           s == l \o t
           n == Len(l)
<1>1. /\ l \in Seq(Effects)
      /\ \A i \in 1..n : l[i] \in {"leaks", "terminations"} /\ Owes(a, l[i])
      /\ \A i, j \in 1..n : i < j => l[i] # l[j]
      /\ a \in Leaky => IsIn("leaks", l)
      /\ a = "terminate_stream" => IsIn("terminations", l)
  <2>1. CASE a = "terminate_stream"
    <3>1. l = <<"leaks", "terminations">>
        BY <2>1 DEF LeakEffects
    <3>2. l \in Seq(Effects) /\ n = 2 /\ l[1] = "leaks" /\ l[2] = "terminations"
        BY <3>1 DEF Effects, Counters, Atomics
    <3> HIDE DEF l
    <3>3. Owes(a, "leaks") /\ Owes(a, "terminations")
        BY <2>1 DEF Owes, Leaky
    <3>4. IsIn("leaks", l) /\ IsIn("terminations", l)
        BY <3>2 DEF IsIn
    <3> QED
        BY <3>2, <3>3, <3>4
  <2>2. CASE a = "redact_stream"
    <3>1. l = <<"leaks">>
        BY <2>2 DEF LeakEffects
    <3>2. l \in Seq(Effects) /\ n = 1 /\ l[1] = "leaks"
        BY <3>1 DEF Effects, Counters, Atomics
    <3> HIDE DEF l
    <3>3. Owes(a, "leaks")
        BY <2>2 DEF Owes, Leaky
    <3>4. IsIn("leaks", l)
        BY <3>2 DEF IsIn
    <3> QED
        BY <2>2, <3>2, <3>3, <3>4
  <2>3. CASE a = "allow"
    <3>1. l = <<>>
        BY <2>3 DEF LeakEffects
    <3>2. l \in Seq(Effects) /\ n = 0
        BY <3>1
    <3>3. a \notin Leaky /\ a # "terminate_stream"
        BY <2>3 DEF Leaky
    <3> HIDE DEF l
    <3> QED
        BY <3>2, <3>3
  <2> QED
      BY <2>1, <2>2, <2>3 DEF StreamActions
<1>2. /\ Len(t) = 5 /\ t \in Seq(Effects)
      /\ t[1] = "enqueue" /\ t[2] = "publish" /\ t[3] = a /\ t[4] = c /\ t[5] = "requests"
    BY DEF Effects, Counters, Atomics, Actions, StreamActions, Classes
<1>3. /\ s \in Seq(Effects) /\ n \in Nat /\ Len(s) = n + 5
      /\ \A i \in 1..n : s[i] = l[i]
      /\ \A i \in 1..5 : s[n + i] = t[i]
  <2>1. l \in Seq(Effects)
      BY <1>1
  <2> HIDE DEF l
  <2> QED
      BY <1>2, <2>1
<1>4. /\ s[n + 1] = "enqueue" /\ s[n + 2] = "publish" /\ s[n + 3] = a /\ s[n + 4] = c
      /\ s[n + 5] = "requests"
  <2> HIDE DEF l, t, s, n
  <2> QED
      BY <1>2, <1>3
<1> HIDE DEF l, t, s, n
<1>5. \A i \in 1..(n + 5) : i \in 1..n \/ i = n + 1 \/ i = n + 2 \/ i = n + 3 \/ i = n + 4 \/ i = n + 5
    BY <1>3
<1>6. \A i \in 1..n : s[i] \in {"leaks", "terminations"} /\ Owes(a, s[i])
    BY <1>1, <1>3
<1>7. a \in {"allow", "redact_stream", "terminate_stream"} /\ c \in {"2xx", "3xx", "4xx", "5xx"}
    BY DEF StreamActions, Classes
<1>8. \A i \in 1..Len(s) : Owes(a, s[i]) \/ (s[i] \in Classes /\ a \in Classed)
    BY <1>3, <1>4, <1>5, <1>6, <1>7 DEF Owes, Classed, Actions, StreamActions
<1>9. \A i, j \in 1..Len(s) : i < j => s[i] # s[j] /\ ~ (s[i] \in Classes /\ s[j] \in Classes)
  <2>1. \A i, j \in 1..n : i < j => s[i] # s[j]
      BY <1>1, <1>3
  <2>2. \A i \in 1..n, j \in 1..(n + 5) : j \notin 1..n => s[i] # s[j] /\ s[i] \notin Classes
      BY <1>4, <1>5, <1>6, <1>7 DEF Classes
  <2>3. \A i, j \in 1..(n + 5) : i \notin 1..n /\ j \notin 1..n /\ i < j =>
            s[i] # s[j] /\ ~ (s[i] \in Classes /\ s[j] \in Classes)
    <3> SUFFICES ASSUME NEW i \in 1..(n + 5), NEW j \in 1..(n + 5),
                        i \notin 1..n, j \notin 1..n, i # j
                 PROVE  s[i] # s[j] /\ ~ (s[i] \in Classes /\ s[j] \in Classes)
        BY <1>3
    <3>1. /\ i = n + 1 \/ i = n + 2 \/ i = n + 3 \/ i = n + 4 \/ i = n + 5
          /\ j = n + 1 \/ j = n + 2 \/ j = n + 3 \/ j = n + 4 \/ j = n + 5
        BY <1>5
    <3> QED
        BY <1>4, <1>7, <3>1 DEF Classes
  <2>4. \A i, j \in 1..(n + 5) : j \in 1..n /\ i < j => i \in 1..n
      BY <1>3
  <2>5. \A i \in 1..n : s[i] \notin Classes
      BY <1>6 DEF Classes
  <2> QED
      BY <1>3, <2>1, <2>2, <2>3, <2>4, <2>5
<1>10. \A i \in 1..Len(s) : i = Len(s) <=> s[i] = "requests"
    BY <1>3, <1>4, <1>5, <1>6, <1>7
<1>11. \A i \in 1..Len(s) : s[i] = "enqueue" => i = n + 1
    BY <1>3, <1>4, <1>5, <1>6, <1>7
<1>12. \A j \in 1..Len(s) : n + 1 < j => s[j] \notin Early
  <2>1. \A j \in 1..Len(s) : n + 1 < j => j = n + 2 \/ j = n + 3 \/ j = n + 4 \/ j = n + 5
      BY <1>3
  <2> QED
      BY <1>4, <1>7, <2>1 DEF Early
<1>13. n + 1 \in 1..Len(s) /\ n + 3 \in 1..Len(s) /\ n + 4 \in 1..Len(s) /\ n + 1 < n + 3
       /\ n + 1 < n + 4 /\ n + 2 \in 1..Len(s) /\ n + 5 \in 1..Len(s)
    BY <1>3
<1>14. a # "block_input"
    BY <1>7
<1>15. Good(s, a)
    BY <1>4, <1>8, <1>9, <1>10, <1>11, <1>12, <1>13, <1>14 DEF Good
<1>16. IsIn("enqueue", s) /\ IsIn("publish", s) /\ IsIn(a, s) /\ IsIn(c, s) /\ IsIn("requests", s)
    BY <1>4, <1>13 DEF IsIn
<1>17. \A x : IsIn(x, l) => IsIn(x, s)
  <2>1. \A i \in 1..n : i \in 1..Len(s)
      BY <1>3
  <2> QED
      BY <1>3, <2>1 DEF IsIn, n
<1>18. \A x \in Effects : Owes(a, x) => IsIn(x, s)
    BY <1>1, <1>7, <1>16, <1>17 DEF Owes
<1> QED
    BY <1>15, <1>16, <1>18 DEF Planned, ForwardEffects, s, l, t

\* What is left after the next effect.
LEMMA RestGood ==
    ASSUME NEW o, NEW s \in Seq(Effects), s # <<>>, Good(s, o)
    PROVE  /\ Good(Tail(s), o) /\ Tail(s) \in Seq(Effects)
           /\ IsIn(Head(s), s) /\ IsIn("requests", s)
           /\ Owes(o, Head(s)) \/ (Head(s) \in Classes /\ o \in Classed)
           /\ \A x : IsIn(x, Tail(s)) <=> IsIn(x, s) /\ x # Head(s)
           /\ Head(s) \in Classes => \A c \in Classes : ~ IsIn(c, Tail(s))
           /\ Head(s) = "requests" => Tail(s) = <<>>
<1> DEFINE t == Tail(s)
           n == Len(s)
<1>1. /\ Head(s) = s[1] /\ t \in Seq(Effects) /\ n \in Nat \ {0} /\ Len(t) = n - 1
      /\ \A i \in 1..Len(t) : t[i] = s[i + 1]
    BY Rest
<1> HIDE DEF t, n
<1>2. n = 1 => t = <<>>
  <2>1. n = 1 => Len(t) = 0
      BY <1>1
  <2> QED
      BY <1>1, <2>1
<1>3. \A i \in 1..Len(t) : i + 1 \in 1..n /\ (i + 1 = n <=> i = Len(t))
    BY <1>1
<1>4. \A i \in 2..n : i - 1 \in 1..Len(t) /\ t[i - 1] = s[i]
    BY <1>1
<1>5. 1 \in 1..n /\ n \in 1..n
    BY <1>1
<1>6. /\ \A i \in 1..n : Owes(o, s[i]) \/ (s[i] \in Classes /\ o \in Classed)
      /\ \A i, j \in 1..n : i < j => s[i] # s[j] /\ ~ (s[i] \in Classes /\ s[j] \in Classes)
      /\ \A i \in 1..n : i = n <=> s[i] = "requests"
      /\ \A i \in 1..n : s[i] = "enqueue" =>
          /\ \A j \in 1..n : i < j =>
                s[j] \notin Early /\ ~ (s[j] \in Classes /\ o = "block_input")
          /\ \E j \in 1..n : i < j /\ s[j] = o
          /\ o \in Served => \E j \in 1..n : i < j /\ s[j] \in Classes
    BY DEF Good, n
<1>7. \A x : IsIn(x, t) <=> IsIn(x, s) /\ x # Head(s)
  <2>1. ASSUME NEW i \in 1..Len(t)
        PROVE  IsIn(t[i], s) /\ t[i] # Head(s)
    <3>1. i + 1 \in 1..n /\ 1 < i + 1 /\ t[i] = s[i + 1]
        BY <1>1, <1>3
    <3>2. s[1] # s[i + 1]
        BY <1>5, <1>6, <3>1
    <3> QED
        BY <1>1, <3>1, <3>2 DEF IsIn, n
  <2>2. ASSUME NEW i \in 1..n, s[i] # Head(s)
        PROVE  IsIn(s[i], t)
    <3>1. i # 1
        BY <1>1, <2>2
    <3>2. i \in 2..n
        BY <3>1
    <3> QED
        BY <1>4, <3>2 DEF IsIn
  <2>3. \A x : IsIn(x, t) => IsIn(x, s) /\ x # Head(s)
      BY <2>1 DEF IsIn
  <2>4. \A x : IsIn(x, s) /\ x # Head(s) => IsIn(x, t)
      BY <2>2 DEF IsIn, n
  <2> QED
      BY <2>3, <2>4
<1>8. IsIn(Head(s), s) /\ IsIn("requests", s)
    BY <1>1, <1>5, <1>6 DEF IsIn, n
<1>9. Owes(o, Head(s)) \/ (Head(s) \in Classes /\ o \in Classed)
    BY <1>1, <1>5, <1>6
<1>10. ASSUME Head(s) \in Classes, NEW c \in Classes, IsIn(c, t)
       PROVE  FALSE
  <2>1. PICK i \in 1..Len(t) : t[i] = c
      BY <1>10 DEF IsIn
  <2>2. i + 1 \in 1..n /\ 1 < i + 1 /\ s[i + 1] = c
      BY <1>1, <1>3, <2>1
  <2> QED
      BY <1>1, <1>5, <1>6, <1>10, <2>2
<1>11. Head(s) = "requests" => t = <<>>
    BY <1>1, <1>2, <1>5, <1>6
<1>12. Good(t, o)
  <2> DEFINE m == Len(t)
  <2>1. \A i \in 1..m : Owes(o, t[i]) \/ (t[i] \in Classes /\ o \in Classed)
      BY <1>1, <1>3, <1>6
  <2>2. \A i, j \in 1..m : i < j => t[i] # t[j] /\ ~ (t[i] \in Classes /\ t[j] \in Classes)
    <3> SUFFICES ASSUME NEW i \in 1..m, NEW j \in 1..m, i < j
                 PROVE  t[i] # t[j] /\ ~ (t[i] \in Classes /\ t[j] \in Classes)
        OBVIOUS
    <3>1. i + 1 \in 1..n /\ j + 1 \in 1..n /\ i + 1 < j + 1
        BY <1>3
    <3>2. t[i] = s[i + 1] /\ t[j] = s[j + 1]
        BY <1>1
    <3> QED
        BY <1>6, <3>1, <3>2
  <2>3. \A i \in 1..m : i = m <=> t[i] = "requests"
      BY <1>1, <1>3, <1>6
  <2>4. ASSUME NEW i \in 1..m, t[i] = "enqueue"
        PROVE  /\ \A j \in 1..m : i < j =>
                     t[j] \notin Early /\ ~ (t[j] \in Classes /\ o = "block_input")
               /\ \E j \in 1..m : i < j /\ t[j] = o
               /\ o \in Served => \E j \in 1..m : i < j /\ t[j] \in Classes
    <3>1. i + 1 \in 1..n /\ s[i + 1] = "enqueue"
        BY <1>1, <1>3, <2>4
    <3>2. \A j \in 1..m : i < j =>
             t[j] \notin Early /\ ~ (t[j] \in Classes /\ o = "block_input")
      <4> SUFFICES ASSUME NEW j \in 1..m, i < j
                   PROVE  t[j] \notin Early /\ ~ (t[j] \in Classes /\ o = "block_input")
          OBVIOUS
      <4>1. j + 1 \in 1..n /\ i + 1 < j + 1 /\ t[j] = s[j + 1]
          BY <1>1, <1>3
      <4> QED
          BY <1>6, <3>1, <4>1
    <3>3. \E j \in 1..m : i < j /\ t[j] = o
      <4>1. PICK j \in 1..n : i + 1 < j /\ s[j] = o
          BY <1>6, <3>1
      <4>2. j \in 2..n /\ i < j - 1
          BY <4>1
      <4> QED
          BY <1>4, <4>1, <4>2
    <3>4. ASSUME o \in Served
          PROVE  \E j \in 1..m : i < j /\ t[j] \in Classes
      <4>1. PICK j \in 1..n : i + 1 < j /\ s[j] \in Classes
          BY <1>6, <3>1, <3>4
      <4>2. j \in 2..n /\ i < j - 1
          BY <4>1
      <4> QED
          BY <1>4, <4>1, <4>2
    <3> QED
        BY <3>2, <3>3, <3>4
  <2> HIDE DEF m
  <2> QED
      BY <2>1, <2>2, <2>3, <2>4 DEF Good, m
<1> QED
    BY <1>1, <1>7, <1>8, <1>9, <1>10, <1>11, <1>12 DEF t

-----------------------------------------------------------------------------
\* A step of ServeHTTP goes on, or ends with a plan that fits the outcome and
\* with a leak or a failure of the scanner noted as the outcome says.
LEMMA HandledPlanned ==
    ASSUME TypeOK, EndInv, NEW r \in Requests, Handle(r)
    PROVE  /\ UNCHANGED <<config, panicked, recorded, queueClosed, reader>>
           /\ leaked \subseteq leaked' /\ leaked' \subseteq leaked \cup {r}
           /\ scanFailed \subseteq scanFailed' /\ scanFailed' \subseteq scanFailed \cup {r}
           /\ \/ /\ \E s \in Stages : GoTo(r, s)
                 /\ leaked' = leaked
                 /\ ~ scannerFailOpen => scanFailed' = scanFailed
              \/ \E o \in Outcomes, e \in Seq(Effects) :
                    /\ End(r, o, e) /\ Planned(e, o)
                    /\ o \in StreamActions => (r \in leaked' <=> o \in Leaky)
                    /\ o = "scannerError" <=> ~ scannerFailOpen /\ r \in scanFailed'
<1>1. /\ outcome[r] = "none" /\ r \notin leaked
      /\ (~ scannerFailOpen => r \notin scanFailed)
      /\ UNCHANGED <<config, recorded, queueClosed, reader>> /\ UNCHANGED panicked
  <2>1. stage[r] \in Stages /\ UNCHANGED panicked
      BY Handled
  <2> QED
      BY <2>1 DEF EndInv, Ending, Handle
<1>2. CASE Arrive(r)
  <2>1. leaked' = leaked /\ scanFailed' = scanFailed
      BY <1>2 DEF Arrive
  <2>2. "refused" \notin Classed /\ "refused" \in Outcomes /\ <<>> \in Seq(Effects)
        /\ "refused" \notin StreamActions /\ "scanning" \in Stages
      BY DEF Classed, Actions, StreamActions, Outcomes, Stages
  <2>3. Planned(<<>>, "refused")
      BY <2>2, NothingPlanned
  <2> QED
      BY <1>1, <1>2, <2>1, <2>2, <2>3 DEF Arrive
<1>3. CASE ScanFails(r)
  <2>1. leaked' = leaked /\ scanFailed' = scanFailed \cup {r}
      BY <1>3 DEF ScanFails
  <2>2. ScannerErrorEffects \in Seq(Effects) /\ "scannerError" \in Outcomes
        /\ "scannerError" \notin StreamActions /\ "forwarding" \in Stages
      BY EffectsFit DEF Actions, StreamActions, Outcomes, Stages
  <2> QED
      BY <1>1, <1>3, <2>1, <2>2, ScannerErrorPlanned DEF ScanFails
<1>4. CASE Scan(r)
  <2>1. leaked' = leaked /\ scanFailed' = scanFailed
      BY <1>4 DEF Scan
  <2>2. BlockEffects \in Seq(Effects) /\ "block_input" \in Outcomes
        /\ "block_input" \notin StreamActions /\ "forwarding" \in Stages
      BY EffectsFit DEF Actions, StreamActions, Outcomes, Stages
  <2> QED
      BY <1>1, <1>4, <2>1, <2>2, BlockPlanned DEF Scan
<1>5. CASE Forward(r)
  <2>1. leaked' = leaked /\ scanFailed' = scanFailed
      BY <1>5 DEF Forward
  <2>2. UpstreamErrorEffects \in Seq(Effects) /\ <<>> \in Seq(Effects)
        /\ "upstreamError" \in Outcomes /\ "buildError" \in Outcomes
        /\ "upstreamError" \notin StreamActions /\ "buildError" \notin StreamActions
        /\ "buildError" \notin Classed /\ "streaming" \in Stages
      BY EffectsFit DEF Classed, Actions, StreamActions, Outcomes, Stages
  <2>3. Planned(<<>>, "buildError")
      BY <2>2, NothingPlanned
  <2> QED
      BY <1>1, <1>5, <2>1, <2>2, <2>3, UpstreamErrorPlanned DEF Forward
<1>6. CASE StreamEnds(r)
  <2>1. PICK leak \in BOOLEAN, class \in UpstreamClasses :
           /\ leaked' = IF leak THEN leaked \cup {r} ELSE leaked
           /\ End(r, ActionOf(leak), ForwardEffects(ActionOf(leak), class))
      BY <1>6 DEF StreamEnds
  <2> DEFINE a == ActionOf(leak)
             e == ForwardEffects(a, class)
  <2>2. a \in StreamActions /\ class \in Classes /\ (a \in Leaky <=> leak)
      BY GatewayAssumption DEF ActionOf, StreamActions, Leaky
  <2>3. a \in Outcomes /\ a # "scannerError"
      BY <2>2 DEF Outcomes, Actions, StreamActions
  <2>4. e \in Seq(Effects) /\ Planned(e, a)
      BY <2>2, ForwardFits, ForwardPlanned
  <2>5. r \in leaked' <=> leak
      BY <1>1, <2>1
  <2>6. scanFailed' = scanFailed
      BY <1>6 DEF StreamEnds
  <2>7. End(r, a, e) /\ leaked \subseteq leaked' /\ leaked' \subseteq leaked \cup {r}
      BY <2>1
  <2> HIDE DEF a, e
  <2> QED
      BY <1>1, <2>2, <2>3, <2>4, <2>5, <2>6, <2>7
<1>7. CASE StreamBreaks(r)
  <2>1. scanFailed' = scanFailed /\ leaked \subseteq leaked' /\ leaked' \subseteq leaked \cup {r}
      BY <1>7 DEF StreamBreaks
  <2>2. StreamErrorEffects \in Seq(Effects) /\ <<>> \in Seq(Effects)
        /\ "streamError" \in Outcomes /\ "cancelled" \in Outcomes
        /\ "streamError" \notin StreamActions /\ "cancelled" \notin StreamActions
        /\ "cancelled" \notin Classed
      BY EffectsFit DEF Classed, Actions, StreamActions, Outcomes
  <2>3. Planned(<<>>, "cancelled")
      BY <2>2, NothingPlanned
  <2> QED
      BY <1>1, <1>7, <2>1, <2>2, <2>3, StreamErrorPlanned DEF StreamBreaks
<1> QED
    BY <1>2, <1>3, <1>4, <1>5, <1>6, <1>7 DEF Handle

\* Where requests were and what they had left, if they have it still.
LEMMA OthersEnd ==
    ASSUME EndInv, NEW q \in Requests,
           stage'[q] = stage[q], outcome'[q] = outcome[q], todo'[q] = todo[q],
           q \in panicked' <=> q \in panicked, q \in leaked' <=> q \in leaked,
           q \in scanFailed' <=> q \in scanFailed, scannerFailOpen' = scannerFailOpen
    PROVE  Ending(q)'
BY DEF EndInv, Ending

LEMMA EndStep ==
    ASSUME TypeOK, EndInv, [Next]_vars
    PROVE  EndInv'
<1>1. ASSUME NEW r \in Requests, Handle(r)
      PROVE  EndInv'
  <2>1. stage[r] \in Stages
      BY <1>1, Handled
  <2>2. /\ UNCHANGED <<config, panicked, recorded, queueClosed, reader>>
        /\ leaked \subseteq leaked' /\ leaked' \subseteq leaked \cup {r}
        /\ scanFailed \subseteq scanFailed' /\ scanFailed' \subseteq scanFailed \cup {r}
      BY <1>1, HandledPlanned
  <2>3. outcome[r] = "none" /\ todo[r] = <<>> /\ r \notin panicked /\ r \notin leaked
        /\ (~ scannerFailOpen => r \notin scanFailed) /\ Good(todo[r], outcome[r])
      BY <2>1 DEF EndInv, Ending
  <2>4. CASE /\ \E s \in Stages : GoTo(r, s)
             /\ leaked' = leaked
             /\ ~ scannerFailOpen => scanFailed' = scanFailed
    <3>1. \A q \in Requests \ {r} : stage'[q] = stage[q] /\ outcome'[q] = outcome[q]
              /\ todo'[q] = todo[q]
        BY <2>4 DEF GoTo, TypeOK
    <3>2. \A q \in Requests \ {r} : Ending(q)'
        BY <2>2, <3>1, OthersEnd DEF config
    <3>3. outcome'[r] = "none" /\ todo'[r] = <<>> /\ r \notin panicked' /\ r \notin leaked'
          /\ (~ scannerFailOpen' => r \notin scanFailed') /\ Good(todo'[r], outcome'[r])
        BY <2>2, <2>3, <2>4 DEF GoTo, config
    <3>4. "none" \notin StreamActions /\ "none" # "scannerError"
        BY DEF StreamActions
    <3>5. Ending(r)'
        BY <3>3, <3>4 DEF Ending
    <3> QED
        BY <3>2, <3>5 DEF EndInv
  <2>5. CASE \E o \in Outcomes, e \in Seq(Effects) :
                    /\ End(r, o, e) /\ Planned(e, o)
                    /\ o \in StreamActions => (r \in leaked' <=> o \in Leaky)
                    /\ o = "scannerError" <=> ~ scannerFailOpen /\ r \in scanFailed'
    <3>1. PICK o \in Outcomes, e \in Seq(Effects) :
                    /\ End(r, o, e) /\ Planned(e, o)
                    /\ o \in StreamActions => (r \in leaked' <=> o \in Leaky)
                    /\ o = "scannerError" <=> ~ scannerFailOpen /\ r \in scanFailed'
        BY <2>5
    <3>2. \A q \in Requests \ {r} : stage'[q] = stage[q] /\ outcome'[q] = outcome[q]
              /\ todo'[q] = todo[q]
        BY <3>1 DEF End, TypeOK
    <3>3. \A q \in Requests \ {r} : Ending(q)'
        BY <2>2, <3>2, OthersEnd DEF config
    <3>4. stage'[r] = "recording" /\ outcome'[r] = o /\ todo'[r] = e
        BY <3>1 DEF End, TypeOK
    <3>5. "recording" \notin Stages /\ r \notin panicked'
        BY <2>2, <2>3 DEF Stages
    <3>6. Good(e, o)
        BY <3>1 DEF Planned
    <3>7. scannerFailOpen' = scannerFailOpen
        BY <2>2 DEF config
    <3>8. Ending(r)'
        BY <3>1, <3>4, <3>5, <3>6, <3>7 DEF Ending
    <3> QED
        BY <3>3, <3>8 DEF EndInv
  <2> QED
      BY <1>1, <2>4, <2>5, HandledPlanned
<1>2. ASSUME NEW r \in Requests, todo[r] # <<>>, Done(r), UNCHANGED config
      PROVE  EndInv'
  <2>1. UNCHANGED <<stage, outcome, panicked, scanFailed, leaked, scannerFailOpen>>
        /\ todo'[r] = Tail(todo[r]) /\ \A q \in Requests \ {r} : todo'[q] = todo[q]
      BY <1>2 DEF Done, config, TypeOK
  <2>2. todo[r] \in Seq(Effects) /\ Ending(r) /\ r \notin panicked /\ stage[r] \notin Stages
      BY <1>2 DEF TypeOK, Effects, EndInv, Ending
  <2>3. Good(todo'[r], outcome[r])
      BY <1>2, <2>1, <2>2, RestGood DEF Ending
  <2>4. Ending(r)'
      BY <2>1, <2>2, <2>3 DEF Ending
  <2>5. \A q \in Requests \ {r} : Ending(q)'
      BY <2>1, OthersEnd
  <2> QED
      BY <2>4, <2>5 DEF EndInv
<1>3. ASSUME NEW r \in Requests, EnqueuePanics(r)
      PROVE  EndInv'
  <2>1. UNCHANGED <<stage, outcome, scanFailed, leaked, scannerFailOpen>>
        /\ panicked' = panicked \cup {r}
        /\ todo'[r] = <<>> /\ \A q \in Requests \ {r} : todo'[q] = todo[q]
      BY <1>3 DEF EnqueuePanics, config, TypeOK
  <2>2. todo[r] \in Seq(Effects) /\ todo[r] # <<>> /\ Head(todo[r]) = "enqueue"
        /\ Ending(r) /\ stage[r] \notin Stages
      BY <1>3 DEF EnqueuePanics, NextEffect, TypeOK, Effects, EndInv, Ending
  <2>3. outcome[r] \in Actions
    <3>1. Good(todo[r], outcome[r])
        BY <2>2 DEF Ending
    <3>2. Owes(outcome[r], Head(todo[r])) \/ Head(todo[r]) \in Classes
        BY <2>2, <3>1, RestGood
    <3> QED
        BY <2>2, <3>2 DEF Owes, Classes, Actions, StreamActions
  <2>4. Good(<<>>, outcome[r])
      BY DEF Good
  <2>5. Ending(r)'
      BY <2>1, <2>2, <2>3, <2>4 DEF Ending
  <2>6. \A q \in Requests \ {r} : Ending(q)'
      BY <2>1, OthersEnd
  <2> QED
      BY <2>5, <2>6 DEF EndInv
<1>4. CASE CloseQueue \/ LoadAtomic \/ CopyMaps \/ UNCHANGED vars
  <2>1. UNCHANGED <<stage, outcome, todo, panicked, scanFailed, leaked, scannerFailOpen>>
      BY <1>4 DEF CloseQueue, LoadAtomic, CopyMaps, vars, handlers, config
  <2> QED
      BY <2>1 DEF EndInv, Ending
<1> QED
    BY <1>1, <1>2, <1>3, <1>4 DEF Next, Record, Enqueue, PublishLiveEvent

LEMMA EndInit ==
    ASSUME Init
    PROVE  EndInv
<1>1. Good(<<>>, "none") /\ "none" \notin StreamActions /\ "none" \notin Actions
    BY DEF Good, StreamActions, Actions
<1> QED
    BY <1>1 DEF Init, EndInv, Ending

-----------------------------------------------------------------------------
\* Sets that differ in one element at most.
LEMMA SameBut ==
    ASSUME NEW A, NEW B, NEW r, A \ {r} = B \ {r}
    PROVE  /\ (r \in A <=> r \in B) => A = B
           /\ r \in A => A = B \cup {r}
<1>1. \A q : q # r => (q \in A <=> q \in B)
  <2>1. \A q : q \in A \ {r} <=> q \in B \ {r}
      OBVIOUS
  <2> QED
      BY <2>1
<1> QED
    BY <1>1

\* Who has recorded what changes only for the request that takes a step.
LEMMA OthersGot ==
    ASSUME NEW r \in Requests,
           \A q \in Requests \ {r} : outcome'[q] = outcome[q] /\ todo'[q] = todo[q]
                                     /\ (q \in panicked' <=> q \in panicked)
    PROVE  /\ \A x : Got(x)' \ {r} = Got(x) \ {r}
           /\ GotClass' \ {r} = GotClass \ {r}
<1>1. \A q \in Requests \ {r} : \A x : Left(x, q)' <=> Left(x, q)
    BY DEF Left, IsIn
<1>2. \A q \in Requests \ {r} : ClassLeft(q)' <=> ClassLeft(q)
    BY <1>1 DEF ClassLeft
<1> QED
    BY <1>1, <1>2 DEF Got, GotClass

\* When a request ends nothing of it is recorded yet.
LEMMA HandleGot ==
    ASSUME TypeOK, EndInv, NEW r \in Requests, Handle(r)
    PROVE  GotClass' = GotClass /\ \A x \in Effects : Got(x)' = Got(x)
<1>1. stage[r] \in Stages /\ panicked' = panicked
    BY Handled
<1>2. outcome[r] = "none" /\ \A x : ~ Owes("none", x)
    BY <1>1 DEF EndInv, Ending, Owes, Classed, Actions, StreamActions, Leaky
<1>3. r \notin GotClass /\ \A x : r \notin Got(x)
    BY <1>2 DEF Got, GotClass, Classed, Actions, StreamActions
<1>4. CASE \E s \in Stages : GoTo(r, s)
  <2>1. outcome' = outcome /\ todo' = todo
      BY <1>4 DEF GoTo
  <2> QED
      BY <1>1, <2>1 DEF Got, GotClass, Left, ClassLeft
<1>5. CASE \E o \in Outcomes, e \in Seq(Effects) : End(r, o, e) /\ Planned(e, o)
  <2>1. PICK o \in Outcomes, e \in Seq(Effects) : End(r, o, e) /\ Planned(e, o)
      BY <1>5
  <2>2. outcome'[r] = o /\ todo'[r] = e
        /\ \A q \in Requests \ {r} : outcome'[q] = outcome[q] /\ todo'[q] = todo[q]
      BY <2>1 DEF End, TypeOK
  <2>3. r \notin GotClass' /\ \A x \in Effects : r \notin Got(x)'
      BY <2>1, <2>2 DEF Planned, Got, GotClass, Left, ClassLeft
  <2>4. /\ \A x : Got(x)' \ {r} = Got(x) \ {r}
        /\ GotClass' \ {r} = GotClass \ {r}
      BY <1>1, <2>2, OthersGot
  <2>5. GotClass' = GotClass
      BY <1>3, <2>3, <2>4, SameBut
  <2>6. ASSUME NEW x \in Effects
        PROVE  Got(x)' = Got(x)
      BY <1>3, <2>3, <2>4, SameBut
  <2> QED
      BY <2>5, <2>6
<1> QED
    BY <1>4, <1>5, HandledPlanned

\* An effect that is done is recorded by the request that did it, and no other
\* is.
LEMMA DoneGot ==
    ASSUME TypeOK, EndInv, NEW r \in Requests, todo[r] # <<>>, Done(r),
           NEW x, x = NextEffect(r)
    PROVE  /\ \A y : y # x => Got(y)' = Got(y)
           /\ x \notin Classes => /\ Got(x)' = Got(x) \cup {r} /\ r \notin Got(x)
                                  /\ GotClass' = GotClass
           /\ x \in Classes => GotClass' = GotClass \cup {r} /\ r \notin GotClass
<1>1. UNCHANGED <<outcome, panicked>> /\ todo'[r] = Tail(todo[r])
      /\ \A q \in Requests \ {r} : todo'[q] = todo[q]
    BY DEF Done, TypeOK
<1>2. todo[r] \in Seq(Effects) /\ Good(todo[r], outcome[r]) /\ r \notin panicked
    BY DEF TypeOK, Effects, EndInv, Ending
<1>3. /\ Left(x, r)
      /\ Owes(outcome[r], x) \/ (x \in Classes /\ outcome[r] \in Classed)
      /\ \A y : Left(y, r)' <=> Left(y, r) /\ y # x
      /\ x \in Classes => ~ ClassLeft(r)'
  <2>1. /\ IsIn(x, todo[r])
        /\ Owes(outcome[r], x) \/ (x \in Classes /\ outcome[r] \in Classed)
        /\ \A y : IsIn(y, Tail(todo[r])) <=> IsIn(y, todo[r]) /\ y # x
        /\ x \in Classes => \A c \in Classes : ~ IsIn(c, Tail(todo[r]))
      BY <1>2, RestGood DEF NextEffect
  <2>2. \A y : Left(y, r)' <=> IsIn(y, Tail(todo[r]))
      BY <1>1 DEF Left, IsIn
  <2> QED
      BY <2>1, <2>2 DEF Left, ClassLeft
<1>4. \A c \in Classes : ~ Owes(outcome[r], c)
    BY DEF Owes, Classes, Actions, StreamActions
<1>5. \A y : Got(y)' \ {r} = Got(y) \ {r}
    BY <1>1, OthersGot
<1>6. GotClass' \ {r} = GotClass \ {r}
    BY <1>1, OthersGot
<1>7. \A y : y # x => (r \in Got(y)' <=> r \in Got(y))
    BY <1>1, <1>3 DEF Got
<1>8. \A y : y # x => Got(y)' = Got(y)
    BY <1>5, <1>7, SameBut
<1>9. ASSUME x \notin Classes
      PROVE  Got(x)' = Got(x) \cup {r} /\ r \notin Got(x) /\ GotClass' = GotClass
  <2>1. r \in Got(x)' /\ r \notin Got(x)
      BY <1>1, <1>2, <1>3, <1>9 DEF Got
  <2>2. Got(x)' = Got(x) \cup {r}
      BY <1>5, <2>1, SameBut
  <2>3. ClassLeft(r)' <=> ClassLeft(r)
      BY <1>3, <1>9 DEF ClassLeft
  <2>4. r \in GotClass' <=> r \in GotClass
      BY <1>1, <2>3 DEF GotClass
  <2>5. GotClass' = GotClass
      BY <1>6, <2>4, SameBut
  <2> QED
      BY <2>1, <2>2, <2>5
<1>10. ASSUME x \in Classes
       PROVE  GotClass' = GotClass \cup {r} /\ r \notin GotClass
  <2>1. r \in GotClass' /\ r \notin GotClass
    <3>1. outcome[r] \in Classed /\ ClassLeft(r) /\ ~ ClassLeft(r)'
        BY <1>3, <1>4, <1>10 DEF ClassLeft
    <3> QED
        BY <1>1, <1>2, <3>1 DEF GotClass
  <2> QED
      BY <1>6, <2>1, SameBut
<1> QED
    BY <1>8, <1>9, <1>10

\* A handler that panics takes with it what it would not have recorded anyway.
LEMMA PanicGot ==
    ASSUME TypeOK, EndInv, NEW r \in Requests, EnqueuePanics(r)
    PROVE  GotClass' = GotClass /\ \A x \in Effects \ {"publish"} : Got(x)' = Got(x)
<1>1. outcome' = outcome /\ panicked' = panicked \cup {r} /\ todo'[r] = <<>>
      /\ \A q \in Requests \ {r} : todo'[q] = todo[q]
    BY DEF EnqueuePanics, TypeOK
<1>2. todo[r] \in Seq(Effects) /\ todo[r] # <<>> /\ Head(todo[r]) = "enqueue"
      /\ Good(todo[r], outcome[r]) /\ r \notin panicked
    BY DEF EnqueuePanics, NextEffect, TypeOK, Effects, EndInv, Ending
<1>3. todo[r][1] = "enqueue" /\ 1 \in 1..Len(todo[r]) /\ Len(todo[r]) \in Nat
    BY <1>2, Rest
<1>4. /\ Left("enqueue", r) /\ Left("requests", r) /\ Left(outcome[r], r)
      /\ outcome[r] \in Served => ClassLeft(r)
    BY <1>2, <1>3, RestGood DEF Good, Left, ClassLeft, IsIn
<1>5. \A j \in 1..Len(todo[r]) : todo[r][j] # "enqueue" => 1 < j
    BY <1>3
<1>6. "enqueue" \notin Early /\ "enqueue" \notin Classes
    BY DEF Early, Classes
<1>7. \A x \in Early : ~ Left(x, r)
    BY <1>2, <1>3, <1>5, <1>6 DEF Good, Left, IsIn
<1>8. outcome[r] = "block_input" => ~ ClassLeft(r)
    BY <1>2, <1>3, <1>5, <1>6 DEF Good, Left, ClassLeft, IsIn
<1>9. outcome[r] \in Actions
  <2>1. Owes(outcome[r], Head(todo[r])) \/ Head(todo[r]) \in Classes
      BY <1>2, RestGood
  <2> QED
      BY <1>2, <2>1 DEF Owes, Classes, Actions, StreamActions
<1>10. \A x : ~ Left(x, r)'
    BY <1>1 DEF Left, IsIn
<1>11. \A x \in Effects \ {"publish"} : r \in Got(x)' <=> r \in Got(x)
  <2> TAKE x \in Effects \ {"publish"}
  <2>1. CASE x \in Early
      BY <1>1, <1>2, <1>7, <1>10, <2>1 DEF Got
  <2>2. CASE x \notin Early
    <3>1. Owes(outcome[r], x) => Left(x, r)
        BY <1>4, <2>2 DEF Owes, Early
    <3> QED
        BY <1>1, <1>2, <2>2, <3>1 DEF Got
  <2> QED
      BY <2>1, <2>2
<1>12. r \in GotClass' <=> r \in GotClass
  <2>1. outcome[r] \in Served \/ outcome[r] = "block_input"
      BY <1>9 DEF Actions, StreamActions, Served
  <2>2. ~ ClassLeft(r)'
      BY <1>10 DEF ClassLeft
  <2> QED
      BY <1>1, <1>2, <1>4, <1>8, <2>1, <2>2 DEF GotClass, Served
<1>13. \A q \in Requests \ {r} : q \in panicked' <=> q \in panicked
    BY <1>1
<1>14. /\ \A x : Got(x)' \ {r} = Got(x) \ {r}
       /\ GotClass' \ {r} = GotClass \ {r}
    BY <1>1, <1>13, OthersGot
<1> QED
    BY <1>11, <1>12, <1>14

-----------------------------------------------------------------------------
\* Counting the requests that have recorded something.
LEMMA SetsCounted ==
    ASSUME NEW S \in SUBSET Requests
    PROVE  /\ IsFiniteSet(S) /\ Cardinality(S) \in Nat
           /\ \A r \in Requests \ S :
                 S \cup {r} \in SUBSET Requests /\ Cardinality(S \cup {r}) = Cardinality(S) + 1
           /\ \A T \in SUBSET Requests : S \subseteq T => Cardinality(S) <= Cardinality(T)
<1>1. IsFiniteSet(S)
    BY FS_Subset, GatewayAssumption
<1>2. Cardinality(S) \in Nat
    BY <1>1, FS_CardinalityType
<1>3. ASSUME NEW r \in Requests \ S
      PROVE  Cardinality(S \cup {r}) = Cardinality(S) + 1
    BY <1>1, FS_AddElement
<1>4. ASSUME NEW T \in SUBSET Requests, S \subseteq T
      PROVE  Cardinality(S) <= Cardinality(T)
  <2>1. IsFiniteSet(T)
      BY FS_Subset, GatewayAssumption
  <2> QED
      BY <1>4, <2>1, FS_Subset
<1> QED
    BY <1>1, <1>2, <1>3, <1>4

LEMMA UnionCounted ==
    ASSUME NEW S \in SUBSET Requests, NEW T \in SUBSET Requests
    PROVE  /\ S \cup T \in SUBSET Requests
           /\ Cardinality(S \cup T) <= Cardinality(S) + Cardinality(T)
           /\ S \cap T = {} => Cardinality(S \cup T) = Cardinality(S) + Cardinality(T)
<1>1. IsFiniteSet(S) /\ IsFiniteSet(T) /\ Cardinality(S) \in Nat /\ Cardinality(T) \in Nat
    BY SetsCounted
<1>2. Cardinality(S \cup T) = Cardinality(S) + Cardinality(T) - Cardinality(S \cap T)
    BY <1>1, FS_Union
<1>3. Cardinality(S \cap T) \in Nat
    BY SetsCounted
<1>4. S \cap T = {} => Cardinality(S \cap T) = 0
    BY FS_EmptySet
<1> QED
    BY <1>1, <1>2, <1>3, <1>4

\* Who has recorded something is a request, before a step and after it.
LEMMA GotTypes ==
    /\ GotClass \in SUBSET Requests /\ GotClass' \in SUBSET Requests
    /\ \A x : Got(x) \in SUBSET Requests /\ Got(x)' \in SUBSET Requests
    /\ \A o : With(o) \in SUBSET Requests /\ With(o)' \in SUBSET Requests
BY DEF Got, GotClass, With

\* The total of the classes moves with each of them, and with nothing else.
LEMMA ClassesMove ==
    ASSUME NEW f \in [Counters -> Nat], NEW x \in Counters, NEW g,
           g = [f EXCEPT ![x] = @ + 1]
    PROVE  /\ OfClasses(f) \in Nat
           /\ g[x] = f[x] + 1 /\ \A y \in Counters : y # x => g[y] = f[y]
           /\ x \notin Classes => OfClasses(g) = OfClasses(f)
           /\ x \in Classes => OfClasses(g) = OfClasses(f) + 1
<1>1. "2xx" \in Counters /\ "3xx" \in Counters /\ "4xx" \in Counters /\ "5xx" \in Counters
    BY DEF Counters, Classes
<1>2. f["2xx"] \in Nat /\ f["3xx"] \in Nat /\ f["4xx"] \in Nat /\ f["5xx"] \in Nat
    BY <1>1
<1>3. g[x] = f[x] + 1 /\ \A y \in Counters : y # x => g[y] = f[y]
    OBVIOUS
<1>4. x \notin Classes => OfClasses(g) = OfClasses(f)
    BY <1>1, <1>3 DEF OfClasses, Classes
<1>5. CASE x \in Classes
  <2>1. x = "2xx" \/ x = "3xx" \/ x = "4xx" \/ x = "5xx"
      BY <1>5 DEF Classes
  <2>2. OfClasses(g) = OfClasses(f) + 1
      BY <1>1, <1>2, <1>3, <2>1 DEF OfClasses
  <2> QED
      BY <1>2, <1>3, <1>5, <2>2 DEF OfClasses
<1> QED
    BY <1>2, <1>3, <1>4, <1>5 DEF OfClasses

\* What is counted and what the steps record, by kind.
LEMMA Kinds ==
    /\ Counters = (Atomics \cup Actions) \cup Classes /\ Counters \subseteq Effects
    /\ (Atomics \cup Actions) \cap Classes = {}
    /\ "enqueue" \in Effects /\ "enqueue" \notin Counters
    /\ "publish" \notin Counters
BY DEF Counters, Atomics, Actions, StreamActions, Classes, Effects

LEMMA CountInit ==
    ASSUME Init
    PROVE  CountInv
<1>1. \A x : ~ Owes("none", x)
    BY DEF Owes, Classed, Actions, StreamActions, Leaky
<1>2. "none" \notin Classed
    BY DEF Classed, Actions, StreamActions
<1>3. GotClass = {} /\ \A x : Got(x) = {}
    BY <1>1, <1>2 DEF Init, GotClass, Got
<1>4. \A x \in Counters : count[x] = 0
    BY DEF Init
<1>5. OfClasses(count) = 0
    BY <1>4 DEF OfClasses, Counters, Classes
<1>6. Len(queue) = 0
    BY DEF Init
<1> QED
    BY <1>3, <1>4, <1>5, <1>6, Kinds, FS_EmptySet DEF CountInv

\* Each step counts exactly the request that records.
LEMMA CountStep ==
    ASSUME TypeOK, EndInv, CountInv, [Next]_vars
    PROVE  CountInv'
<1>1. ASSUME UNCHANGED <<count, queue>>, GotClass' = GotClass,
             \A x \in Effects \ {"publish"} : Got(x)' = Got(x)
      PROVE  CountInv'
  <2>1. \A x \in Atomics \cup Actions : Got(x)' = Got(x)
      BY <1>1, Kinds
  <2>2. Got("enqueue")' = Got("enqueue")
      BY <1>1, Kinds
  <2> QED
      BY <1>1, <2>1, <2>2 DEF CountInv
<1>2. ASSUME NEW r \in Requests, Handle(r)
      PROVE  CountInv'
  <2>1. UNCHANGED <<count, queue>>
      BY <1>2 DEF Handle, recorded
  <2>2. GotClass' = GotClass /\ \A x \in Effects : Got(x)' = Got(x)
      BY <1>2, HandleGot
  <2> QED
      BY <1>1, <2>1, <2>2
<1>3. ASSUME NEW r \in Requests, Record(r)
      PROVE  CountInv'
  <2>1. PICK x : x = NextEffect(r)
      OBVIOUS
  <2>2. /\ x \in Counters /\ count' = [count EXCEPT ![x] = @ + 1]
        /\ todo[r] # <<>> /\ Done(r) /\ queue' = queue
      BY <1>3, <2>1 DEF Record
  <2>3. /\ \A y : y # x => Got(y)' = Got(y)
        /\ x \notin Classes => /\ Got(x)' = Got(x) \cup {r} /\ r \notin Got(x)
                               /\ GotClass' = GotClass
        /\ x \in Classes => GotClass' = GotClass \cup {r} /\ r \notin GotClass
      BY <2>1, <2>2, DoneGot
  <2>4. /\ OfClasses(count) \in Nat
        /\ count'[x] = count[x] + 1 /\ \A y \in Counters : y # x => count'[y] = count[y]
        /\ x \notin Classes => OfClasses(count') = OfClasses(count)
        /\ x \in Classes => OfClasses(count') = OfClasses(count) + 1
      BY <2>2, ClassesMove DEF TypeOK
  <2>5. Got("enqueue")' = Got("enqueue")
      BY <2>2, <2>3, Kinds
  <2>6. ASSUME NEW y \in Atomics \cup Actions
        PROVE  count'[y] = Cardinality(Got(y)')
    <3>1. y \in Counters /\ y \notin Classes /\ count[y] = Cardinality(Got(y))
        BY Kinds DEF CountInv
    <3>2. CASE y = x
      <4>1. Cardinality(Got(x) \cup {r}) = Cardinality(Got(x)) + 1
          BY <2>3, <3>1, <3>2, GotTypes, SetsCounted
      <4> QED
          BY <2>3, <2>4, <3>1, <3>2, <4>1
    <3>3. CASE y # x
        BY <2>3, <2>4, <3>1, <3>3
    <3> QED
        BY <3>2, <3>3
  <2>7. OfClasses(count') = Cardinality(GotClass')
    <3>1. CASE x \in Classes
      <4>1. Cardinality(GotClass \cup {r}) = Cardinality(GotClass) + 1
          BY <2>3, <3>1, GotTypes, SetsCounted
      <4> QED
          BY <2>3, <2>4, <3>1, <4>1 DEF CountInv
    <3>2. CASE x \notin Classes
        BY <2>3, <2>4, <3>2 DEF CountInv
    <3> QED
        BY <3>1, <3>2
  <2>8. Len(queue') = Cardinality(Got("enqueue")')
      BY <2>2, <2>5 DEF CountInv
  <2> QED
      BY <2>6, <2>7, <2>8 DEF CountInv
<1>4. ASSUME NEW r \in Requests, Enqueue(r)
      PROVE  CountInv'
  <2>1. PICK x : x = NextEffect(r)
      OBVIOUS
  <2>2. x = "enqueue" /\ todo[r] # <<>> /\ Done(r) /\ queue' = Append(queue, r) /\ count' = count
      BY <1>4, <2>1 DEF Enqueue
  <2>3. x \notin Classes
      BY <2>2, Kinds
  <2>4. /\ \A y : y # x => Got(y)' = Got(y)
        /\ Got(x)' = Got(x) \cup {r} /\ r \notin Got(x) /\ GotClass' = GotClass
      BY <2>1, <2>2, <2>3, DoneGot
  <2>5. Cardinality(Got(x) \cup {r}) = Cardinality(Got(x)) + 1
      BY <2>4, GotTypes, SetsCounted
  <2>6. Len(queue') = Len(queue) + 1
      BY <2>2, Added DEF TypeOK
  <2>7. Len(queue') = Cardinality(Got("enqueue")')
      BY <2>2, <2>4, <2>5, <2>6 DEF CountInv
  <2>8. \A y \in Atomics \cup Actions : y # x
      BY <2>2, Kinds
  <2> QED
      BY <2>2, <2>4, <2>7, <2>8 DEF CountInv
<1>5. ASSUME NEW r \in Requests, PublishLiveEvent(r)
      PROVE  CountInv'
  <2>1. PICK x : x = NextEffect(r)
      OBVIOUS
  <2>2. x = "publish" /\ todo[r] # <<>> /\ Done(r) /\ UNCHANGED <<count, queue>>
      BY <1>5, <2>1 DEF PublishLiveEvent
  <2>3. x \notin Classes
      BY <2>2, Kinds
  <2>4. GotClass' = GotClass /\ \A y : y # x => Got(y)' = Got(y)
      BY <2>1, <2>2, <2>3, DoneGot
  <2> QED
      BY <1>1, <2>2, <2>4
<1>6. ASSUME NEW r \in Requests, EnqueuePanics(r)
      PROVE  CountInv'
  <2>1. UNCHANGED <<count, queue>>
      BY <1>6 DEF EnqueuePanics, recorded
  <2> QED
      BY <1>1, <1>6, <2>1, PanicGot
<1>7. CASE CloseQueue \/ LoadAtomic \/ CopyMaps \/ UNCHANGED vars
  <2>1. UNCHANGED <<outcome, todo, panicked, count, queue>>
      BY <1>7 DEF CloseQueue, LoadAtomic, CopyMaps, vars, handlers, recorded
  <2>2. GotClass' = GotClass /\ \A x : Got(x)' = Got(x)
      BY <2>1 DEF Got, GotClass, Left, ClassLeft
  <2> QED
      BY <1>1, <2>1, <2>2
<1> QED
    BY <1>2, <1>3, <1>4, <1>5, <1>6, <1>7 DEF Next

-----------------------------------------------------------------------------
\* When nothing is being recorded everything owed has been.
LEMMA GotAtRest ==
    ASSUME AtRest, panicked = {}
    PROVE  /\ GotClass = {r \in Requests : outcome[r] \in Classed}
           /\ \A x : Got(x) = {r \in Requests : Owes(outcome[r], x)}
<1>1. \A r \in Requests : todo[r] = <<>>
    BY DEF AtRest
<1>2. Len(<<>>) = 0 /\ \A i : i \notin 1..0
    OBVIOUS
<1>3. \A x : \A r \in Requests : ~ Left(x, r)
    BY <1>1, <1>2 DEF Left, IsIn
<1> QED
    BY <1>3 DEF GotClass, Got, ClassLeft

\* Then the sets that were counted stand to each other as the counters do.
LEMMA SetsBalance ==
    ASSUME TypeOK, EndInv, AtRest, panicked = {}
    PROVE  /\ Got("requests") = GotClass
           /\ Got("enqueue") = ((Got("block_input") \cup Got("allow"))
                 \cup Got("redact_stream")) \cup Got("terminate_stream")
           /\ Got("requests") = ((Got("enqueue") \cup Got("scannerFailures"))
                 \cup Got("upstreamFailures")) \cup With("streamError")
           /\ Got("blocked") = Got("block_input")
           /\ Got("leaks") = Got("redact_stream") \cup Got("terminate_stream")
           /\ Got("terminations") = Got("terminate_stream")
           /\ Got("leaks") = {r \in leaked : outcome[r] \in StreamActions}
           /\ Got("scannerFailures") = IF scannerFailOpen THEN {} ELSE scanFailed
<1>1. /\ GotClass = {r \in Requests : outcome[r] \in Classed}
      /\ \A x : Got(x) = {r \in Requests : Owes(outcome[r], x)}
    BY GotAtRest
<1>2. \A o : Owes(o, "requests") <=> o \in Classed
    BY DEF Owes, Actions, StreamActions
<1>3. \A o : Owes(o, "enqueue") <=> o \in Actions
    BY DEF Owes, Actions, StreamActions
<1>4. \A o : \A a \in Actions : Owes(o, a) <=> o = a
    BY DEF Owes, Actions, StreamActions
<1>5. \A o : /\ Owes(o, "blocked") <=> o = "block_input"
             /\ Owes(o, "scannerFailures") <=> o = "scannerError"
             /\ Owes(o, "upstreamFailures") <=> o = "upstreamError"
             /\ Owes(o, "leaks") <=> o \in Leaky
             /\ Owes(o, "terminations") <=> o = "terminate_stream"
    BY DEF Owes, Actions, StreamActions
<1>6. /\ Actions = {"block_input", "allow", "redact_stream", "terminate_stream"}
      /\ Classed = Actions \cup {"scannerError", "upstreamError", "streamError"}
      /\ Leaky = {"redact_stream", "terminate_stream"}
      /\ Leaky \subseteq StreamActions
    BY DEF Actions, StreamActions, Classed, Leaky
<1>7. Got("requests") = GotClass
    BY <1>1, <1>2
<1>8. Got("enqueue") = {r \in Requests : outcome[r] \in Actions}
    BY <1>1, <1>3
<1>9. /\ Got("block_input") = With("block_input") /\ Got("allow") = With("allow")
      /\ Got("redact_stream") = With("redact_stream")
      /\ Got("terminate_stream") = With("terminate_stream")
    BY <1>1, <1>4, <1>6 DEF With
<1>10. /\ Got("blocked") = With("block_input") /\ Got("scannerFailures") = With("scannerError")
       /\ Got("upstreamFailures") = With("upstreamError")
       /\ Got("terminations") = With("terminate_stream")
       /\ Got("leaks") = {r \in Requests : outcome[r] \in Leaky}
    BY <1>1, <1>5 DEF With
<1>11. Got("enqueue") = ((Got("block_input") \cup Got("allow"))
                 \cup Got("redact_stream")) \cup Got("terminate_stream")
    BY <1>6, <1>8, <1>9 DEF With
<1>12. Got("requests") = ((Got("enqueue") \cup Got("scannerFailures"))
                 \cup Got("upstreamFailures")) \cup With("streamError")
    BY <1>1, <1>6, <1>7, <1>8, <1>10 DEF With
<1>13. Got("leaks") = Got("redact_stream") \cup Got("terminate_stream")
    BY <1>6, <1>9, <1>10 DEF With
<1>14. Got("leaks") = {r \in leaked : outcome[r] \in StreamActions}
  <2>1. \A r \in Requests : outcome[r] \in StreamActions => (r \in leaked <=> outcome[r] \in Leaky)
      BY DEF EndInv, Ending
  <2>2. leaked \subseteq Requests
      BY DEF TypeOK
  <2> QED
      BY <1>6, <1>10, <2>1, <2>2
<1>15. Got("scannerFailures") = IF scannerFailOpen THEN {} ELSE scanFailed
  <2>1. \A r \in Requests :
            /\ outcome[r] = "scannerError" => ~ scannerFailOpen /\ r \in scanFailed
            /\ r \in scanFailed /\ ~ scannerFailOpen => outcome[r] = "scannerError"
      BY DEF EndInv, Ending
  <2>2. scanFailed \subseteq Requests
      BY DEF TypeOK
  <2>3. CASE scannerFailOpen
      BY <1>10, <2>1, <2>3 DEF With
  <2>4. CASE ~ scannerFailOpen
      BY <1>10, <2>1, <2>2, <2>4 DEF With
  <2> QED
      BY <2>3, <2>4
<1> QED
    BY <1>7, <1>9, <1>10, <1>11, <1>12, <1>13, <1>14, <1>15

LEMMA BalancedAtRest ==
    ASSUME TypeOK, EndInv, CountInv
    PROVE  BooksBalance
<1> SUFFICES ASSUME AtRest, panicked = {}
             PROVE  /\ OfClasses(count) = count["requests"]
                    /\ OfActions(count) = Len(queue)
                    /\ count["requests"] = Len(queue) + count["scannerFailures"]
                          + count["upstreamFailures"] + Cardinality(With("streamError"))
                    /\ count["blocked"] = count["block_input"]
                    /\ count["leaks"] = count["redact_stream"] + count["terminate_stream"]
                    /\ count["terminations"] = count["terminate_stream"]
                    /\ count["leaks"] = Cardinality({r \in leaked : outcome[r] \in StreamActions})
                    /\ count["scannerFailures"] =
                          IF scannerFailOpen THEN 0 ELSE Cardinality(scanFailed)
    BY DEF BooksBalance
<1>1. /\ Got("requests") = GotClass
      /\ Got("enqueue") = ((Got("block_input") \cup Got("allow"))
            \cup Got("redact_stream")) \cup Got("terminate_stream")
      /\ Got("requests") = ((Got("enqueue") \cup Got("scannerFailures"))
            \cup Got("upstreamFailures")) \cup With("streamError")
      /\ Got("blocked") = Got("block_input")
      /\ Got("leaks") = Got("redact_stream") \cup Got("terminate_stream")
      /\ Got("terminations") = Got("terminate_stream")
      /\ Got("leaks") = {r \in leaked : outcome[r] \in StreamActions}
      /\ Got("scannerFailures") = IF scannerFailOpen THEN {} ELSE scanFailed
    BY SetsBalance
<1>2. /\ count["requests"] = Cardinality(Got("requests"))
      /\ count["blocked"] = Cardinality(Got("blocked"))
      /\ count["scannerFailures"] = Cardinality(Got("scannerFailures"))
      /\ count["upstreamFailures"] = Cardinality(Got("upstreamFailures"))
      /\ count["leaks"] = Cardinality(Got("leaks"))
      /\ count["terminations"] = Cardinality(Got("terminations"))
      /\ count["block_input"] = Cardinality(Got("block_input"))
      /\ count["allow"] = Cardinality(Got("allow"))
      /\ count["redact_stream"] = Cardinality(Got("redact_stream"))
      /\ count["terminate_stream"] = Cardinality(Got("terminate_stream"))
      /\ OfClasses(count) = Cardinality(GotClass)
      /\ Len(queue) = Cardinality(Got("enqueue"))
    BY DEF CountInv, Atomics, Actions, StreamActions
<1> DEFINE B == Got("block_input")
           A == Got("allow")
           R == Got("redact_stream")
           T == Got("terminate_stream")
           Q == Got("enqueue")
           S == Got("scannerFailures")
           U == Got("upstreamFailures")
           E == With("streamError")
<1>3. /\ B \in SUBSET Requests /\ A \in SUBSET Requests /\ R \in SUBSET Requests
      /\ T \in SUBSET Requests /\ Q \in SUBSET Requests /\ S \in SUBSET Requests
      /\ U \in SUBSET Requests /\ E \in SUBSET Requests
    BY GotTypes
<1>4. /\ B \cap A = {} /\ (B \cup A) \cap R = {} /\ ((B \cup A) \cup R) \cap T = {} /\ R \cap T = {}
      /\ Q \cap S = {} /\ (Q \cup S) \cap U = {} /\ ((Q \cup S) \cup U) \cap E = {}
  <2>1. \A x : Got(x) = {r \in Requests : Owes(outcome[r], x)}
      BY GotAtRest
  <2>2. /\ \A r \in B : outcome[r] = "block_input"
        /\ \A r \in A : outcome[r] = "allow"
        /\ \A r \in R : outcome[r] = "redact_stream"
        /\ \A r \in T : outcome[r] = "terminate_stream"
        /\ \A r \in Q : outcome[r] \in {"block_input", "allow", "redact_stream", "terminate_stream"}
        /\ \A r \in S : outcome[r] = "scannerError"
        /\ \A r \in U : outcome[r] = "upstreamError"
        /\ \A r \in E : outcome[r] = "streamError"
      BY <2>1 DEF Owes, With, Actions, StreamActions
  <2> HIDE DEF B, A, R, T, Q, S, U, E
  <2> QED
      BY <2>2
<1> HIDE DEF B, A, R, T, Q, S, U, E
<1>5. /\ B \cup A \in SUBSET Requests /\ Cardinality(B \cup A) = Cardinality(B) + Cardinality(A)
      /\ Cardinality(R \cup T) = Cardinality(R) + Cardinality(T)
      /\ Q \cup S \in SUBSET Requests /\ Cardinality(Q \cup S) = Cardinality(Q) + Cardinality(S)
    BY <1>3, <1>4, UnionCounted
<1>6. /\ (B \cup A) \cup R \in SUBSET Requests
      /\ Cardinality((B \cup A) \cup R) = Cardinality(B \cup A) + Cardinality(R)
      /\ (Q \cup S) \cup U \in SUBSET Requests
      /\ Cardinality((Q \cup S) \cup U) = Cardinality(Q \cup S) + Cardinality(U)
    BY <1>3, <1>4, <1>5, UnionCounted
<1>7. /\ Cardinality(((B \cup A) \cup R) \cup T) = Cardinality((B \cup A) \cup R) + Cardinality(T)
      /\ Cardinality(((Q \cup S) \cup U) \cup E) = Cardinality((Q \cup S) \cup U) + Cardinality(E)
    BY <1>3, <1>4, <1>6, UnionCounted
<1>8. /\ Cardinality(B) \in Nat /\ Cardinality(A) \in Nat /\ Cardinality(R) \in Nat
      /\ Cardinality(T) \in Nat /\ Cardinality(Q) \in Nat /\ Cardinality(S) \in Nat
      /\ Cardinality(U) \in Nat /\ Cardinality(E) \in Nat
    BY <1>3, SetsCounted
<1>9. Cardinality(Q) = ((Cardinality(B) + Cardinality(A)) + Cardinality(R)) + Cardinality(T)
  <2>1. Q = ((B \cup A) \cup R) \cup T
      BY <1>1 DEF Q, B, A, R, T
  <2> QED
      BY <1>5, <1>6, <1>7, <2>1
<1>10. Cardinality(Got("requests")) = ((Cardinality(Q) + Cardinality(S)) + Cardinality(U)) + Cardinality(E)
  <2>1. Got("requests") = ((Q \cup S) \cup U) \cup E
      BY <1>1 DEF Q, S, U, E
  <2> QED
      BY <1>5, <1>6, <1>7, <2>1
<1>11. Cardinality(Got("leaks")) = Cardinality(R) + Cardinality(T)
  <2>1. Got("leaks") = R \cup T
      BY <1>1 DEF R, T
  <2> QED
      BY <1>5, <2>1
<1>12. OfActions(count) = Len(queue)
  <2>1. /\ count["block_input"] = Cardinality(B) /\ count["allow"] = Cardinality(A)
        /\ count["redact_stream"] = Cardinality(R) /\ count["terminate_stream"] = Cardinality(T)
        /\ Len(queue) = Cardinality(Q)
      BY <1>2 DEF B, A, R, T, Q
  <2> QED
      BY <1>8, <1>9, <2>1 DEF OfActions
<1>13. count["requests"] = Len(queue) + count["scannerFailures"]
          + count["upstreamFailures"] + Cardinality(With("streamError"))
  <2>1. /\ count["scannerFailures"] = Cardinality(S) /\ count["upstreamFailures"] = Cardinality(U)
        /\ Len(queue) = Cardinality(Q) /\ With("streamError") = E
      BY <1>2 DEF S, U, Q, E
  <2> QED
      BY <1>2, <1>8, <1>10, <2>1
<1>14. count["leaks"] = count["redact_stream"] + count["terminate_stream"]
    BY <1>2, <1>11 DEF R, T
<1>15. count["scannerFailures"] = IF scannerFailOpen THEN 0 ELSE Cardinality(scanFailed)
    BY <1>1, <1>2, FS_EmptySet
<1> QED
    BY <1>1, <1>2, <1>12, <1>13, <1>14, <1>15

\* When nothing is being recorded and no handler has panicked, the counters
\* agree with each other, with the log and with what happened, over every way
\* out of ServeHTTP.
THEOREM BooksAreBalanced == Spec => []BooksBalance
<1>1. Init => EndInv /\ CountInv
    BY EndInit, CountInit
<1>2. TypeOK /\ (EndInv /\ CountInv) /\ [Next]_vars => (EndInv /\ CountInv)'
    BY EndStep, CountStep
<1>3. TypeOK /\ (EndInv /\ CountInv) => BooksBalance
    BY BalancedAtRest
<1> QED
    BY <1>1, <1>2, <1>3, TypeCorrect, PTL DEF Spec

-----------------------------------------------------------------------------
\* A request that counted itself has counted its status, and its action or its
\* failure, before: requests is the last thing recorded.
LEMMA RequestsCovered ==
    ASSUME TypeOK, EndInv
    PROVE  /\ Got("requests") \subseteq GotClass
           /\ Got("requests") \subseteq
                 (((((Got("block_input") \cup Got("allow")) \cup Got("redact_stream"))
                      \cup Got("terminate_stream")) \cup Got("scannerFailures"))
                      \cup Got("upstreamFailures")) \cup With("streamError")
<1> SUFFICES ASSUME NEW r \in Got("requests")
             PROVE  /\ r \in GotClass
                    /\ \/ \E a \in Actions : r \in Got(a)
                       \/ r \in Got("scannerFailures") \/ r \in Got("upstreamFailures")
                       \/ r \in With("streamError")
    BY DEF Actions, StreamActions
<1>1. r \in Requests /\ outcome[r] \in Classed /\ ~ Left("requests", r) /\ r \notin panicked
    BY DEF Got, Owes, Actions, StreamActions, Early
<1>2. todo[r] \in Seq(Effects) /\ Good(todo[r], outcome[r])
    BY <1>1 DEF TypeOK, Effects, EndInv, Ending
<1>3. todo[r] = <<>>
    BY <1>1, <1>2, RestGood DEF Left
<1>4. Len(<<>>) = 0 /\ \A i : i \notin 1..0
    OBVIOUS
<1>5. \A x : ~ Left(x, r)
    BY <1>3, <1>4 DEF Left, IsIn
<1>6. \A x : Owes(outcome[r], x) => r \in Got(x)
    BY <1>1, <1>5 DEF Got
<1>7. r \in GotClass
    BY <1>1, <1>5 DEF GotClass, ClassLeft
<1>8. CASE outcome[r] \in Actions
  <2>1. Owes(outcome[r], outcome[r])
      BY <1>8 DEF Owes
  <2> QED
      BY <1>6, <1>7, <1>8, <2>1
<1>9. CASE outcome[r] = "scannerError"
  <2>1. Owes(outcome[r], "scannerFailures")
      BY <1>9 DEF Owes
  <2> QED
      BY <1>6, <1>7, <2>1
<1>10. CASE outcome[r] = "upstreamError"
  <2>1. Owes(outcome[r], "upstreamFailures")
      BY <1>10 DEF Owes
  <2> QED
      BY <1>6, <1>7, <2>1
<1>11. CASE outcome[r] = "streamError"
    BY <1>1, <1>7, <1>11 DEF With
<1> QED
    BY <1>1, <1>8, <1>9, <1>10, <1>11 DEF Classed

\* So the counters cover each other whenever requests is loaded.
LEMMA CountersCover ==
    ASSUME TypeOK, EndInv, CountInv
    PROVE  /\ count["requests"] <= OfClasses(count)
           /\ count["requests"] <= OfActions(count) + count["scannerFailures"]
                    + count["upstreamFailures"] + Cardinality(With("streamError"))
<1> DEFINE B == Got("block_input")
           A == Got("allow")
           R == Got("redact_stream")
           T == Got("terminate_stream")
           S == Got("scannerFailures")
           U == Got("upstreamFailures")
           E == With("streamError")
           N == Got("requests")
<1>1. /\ N \subseteq GotClass
      /\ N \subseteq (((((B \cup A) \cup R) \cup T) \cup S) \cup U) \cup E
    BY RequestsCovered
<1>2. /\ B \in SUBSET Requests /\ A \in SUBSET Requests /\ R \in SUBSET Requests
      /\ T \in SUBSET Requests /\ S \in SUBSET Requests /\ U \in SUBSET Requests
      /\ E \in SUBSET Requests /\ N \in SUBSET Requests /\ GotClass \in SUBSET Requests
    BY GotTypes
<1>3. /\ count["requests"] = Cardinality(N) /\ count["scannerFailures"] = Cardinality(S)
      /\ count["upstreamFailures"] = Cardinality(U) /\ count["block_input"] = Cardinality(B)
      /\ count["allow"] = Cardinality(A) /\ count["redact_stream"] = Cardinality(R)
      /\ count["terminate_stream"] = Cardinality(T)
      /\ OfClasses(count) = Cardinality(GotClass)
    BY DEF CountInv, Atomics, Actions, StreamActions
<1>4. Cardinality(With("streamError")) = Cardinality(E)
    OBVIOUS
<1> HIDE DEF B, A, R, T, S, U, E, N
<1>5. B \cup A \in SUBSET Requests /\ Cardinality(B \cup A) <= Cardinality(B) + Cardinality(A)
    BY <1>2, UnionCounted
<1> DEFINE s3 == (B \cup A) \cup R
           s4 == s3 \cup T
           s5 == s4 \cup S
           s6 == s5 \cup U
           s7 == s6 \cup E
<1>6. s3 \in SUBSET Requests /\ Cardinality(s3) <= Cardinality(B \cup A) + Cardinality(R)
    BY <1>2, <1>5, UnionCounted
<1>7. s4 \in SUBSET Requests /\ Cardinality(s4) <= Cardinality(s3) + Cardinality(T)
  <2> HIDE DEF s3
  <2> QED
      BY <1>2, <1>6, UnionCounted
<1>8. s5 \in SUBSET Requests /\ Cardinality(s5) <= Cardinality(s4) + Cardinality(S)
  <2> HIDE DEF s4
  <2> QED
      BY <1>2, <1>7, UnionCounted
<1>9. s6 \in SUBSET Requests /\ Cardinality(s6) <= Cardinality(s5) + Cardinality(U)
  <2> HIDE DEF s5
  <2> QED
      BY <1>2, <1>8, UnionCounted
<1>10. s7 \in SUBSET Requests /\ Cardinality(s7) <= Cardinality(s6) + Cardinality(E)
  <2> HIDE DEF s6
  <2> QED
      BY <1>2, <1>9, UnionCounted
<1>11. N \subseteq s7
    BY <1>1
<1> HIDE DEF s3, s4, s5, s6, s7
<1>12. Cardinality(N) <= Cardinality(s7) /\ Cardinality(N) <= Cardinality(GotClass)
    BY <1>1, <1>2, <1>10, <1>11, SetsCounted
<1>13. /\ Cardinality(B) \in Nat /\ Cardinality(A) \in Nat /\ Cardinality(R) \in Nat
       /\ Cardinality(T) \in Nat /\ Cardinality(S) \in Nat /\ Cardinality(U) \in Nat
       /\ Cardinality(E) \in Nat /\ Cardinality(N) \in Nat
       /\ Cardinality(B \cup A) \in Nat /\ Cardinality(s3) \in Nat /\ Cardinality(s4) \in Nat
       /\ Cardinality(s5) \in Nat /\ Cardinality(s6) \in Nat /\ Cardinality(s7) \in Nat
    BY <1>2, <1>5, <1>6, <1>7, <1>8, <1>9, <1>10, SetsCounted
<1>14. Cardinality(N) <= (((Cardinality(B) + Cardinality(A)) + Cardinality(R)) + Cardinality(T))
              + Cardinality(S) + Cardinality(U) + Cardinality(E)
    BY <1>5, <1>6, <1>7, <1>8, <1>9, <1>10, <1>12, <1>13
<1>15. OfActions(count) = ((Cardinality(B) + Cardinality(A)) + Cardinality(R)) + Cardinality(T)
    BY <1>3, <1>13 DEF OfActions
<1> QED
    BY <1>3, <1>4, <1>12, <1>13, <1>14, <1>15

\* Counters only grow, and a request whose stream broke stays one.
LEMMA CountersGrow ==
    ASSUME TypeOK, EndInv, [Next]_vars
    PROVE  /\ \A c \in Counters : count[c] <= count'[c]
           /\ Cardinality(With("streamError")) <= Cardinality(With("streamError")')
           /\ Cardinality(With("streamError")) \in Nat
           /\ Cardinality(With("streamError")') \in Nat
<1>1. \A c \in Counters : count[c] \in Nat
    BY DEF TypeOK
<1>2. /\ With("streamError") \subseteq With("streamError")'
      /\ \A c \in Counters : count[c] <= count'[c]
  <2>1. ASSUME NEW r \in Requests, Handle(r)
        PROVE  /\ With("streamError") \subseteq With("streamError")' /\ count' = count
    <3>1. outcome[r] = "none" /\ count' = count
      <4>1. stage[r] \in Stages /\ count' = count
          BY <2>1, Handled DEF recorded
      <4> QED
          BY <4>1 DEF EndInv, Ending
    <3>2. \A q \in Requests \ {r} : outcome'[q] = outcome[q]
        BY <2>1, Handled DEF End, TypeOK
    <3> QED
        BY <3>1, <3>2 DEF With
  <2>2. ASSUME NEW r \in Requests, Record(r)
        PROVE  /\ outcome' = outcome
               /\ \A c \in Counters : count[c] <= count'[c]
    <3>1. /\ NextEffect(r) \in Counters /\ outcome' = outcome
          /\ count' = [count EXCEPT ![NextEffect(r)] = @ + 1]
        BY <2>2 DEF Record, Done
    <3>2. count \in [Counters -> Nat]
        BY DEF TypeOK
    <3>3. count'[NextEffect(r)] = count[NextEffect(r)] + 1
          /\ \A c \in Counters : c # NextEffect(r) => count'[c] = count[c]
        BY <3>1, <3>2
    <3> QED
        BY <1>1, <3>1, <3>3
  <2>3. ASSUME NEW r \in Requests, Enqueue(r) \/ EnqueuePanics(r) \/ PublishLiveEvent(r)
        PROVE  outcome' = outcome /\ count' = count
      BY <2>3 DEF Enqueue, EnqueuePanics, PublishLiveEvent, Done, recorded
  <2>4. CASE CloseQueue \/ LoadAtomic \/ CopyMaps \/ UNCHANGED vars
    <3>1. outcome' = outcome /\ count' = count
        BY <2>4 DEF CloseQueue, LoadAtomic, CopyMaps, vars, handlers, recorded
    <3> QED
        BY <1>1, <3>1 DEF With
  <2> QED
      BY <1>1, <2>1, <2>2, <2>3, <2>4 DEF Next, With
<1>3. With("streamError") \in SUBSET Requests /\ With("streamError")' \in SUBSET Requests
    BY GotTypes
<1> QED
    BY <1>2, <1>3, SetsCounted

\* What has been loaded stays; what has not is not less later.
LEMMA ShownGrows ==
    ASSUME TypeOK, EndInv, [Next]_vars, loaded >= 1
    PROVE  /\ loaded' >= 1 /\ snap'["requests"] = snap["requests"]
           /\ \A c \in Actions \cup Classes : Shown(7)[c] <= Shown(7)'[c]
           /\ Shown(3)["scannerFailures"] <= Shown(3)'["scannerFailures"]
           /\ Shown(4)["upstreamFailures"] <= Shown(4)'["upstreamFailures"]
<1>1. loaded \in 1..7 /\ \A c \in Counters : count[c] \in Nat /\ snap[c] \in Nat
  <2>1. Len(LoadOrder) = 6
      BY DEF LoadOrder
  <2> QED
      BY <2>1 DEF TypeOK
<1>2. /\ Actions \cup Classes \subseteq Counters \ Atomics
      /\ "scannerFailures" \in Atomics /\ "upstreamFailures" \in Atomics
      /\ "requests" \in Atomics /\ Atomics \subseteq Counters
    BY DEF Actions, StreamActions, Classes, Atomics, Counters
<1>3. \A c \in Counters : count[c] <= count'[c]
    BY CountersGrow
<1>4. CASE UNCHANGED reader
  <2>1. snap' = snap /\ loaded' = loaded
      BY <1>4 DEF reader
  <2> QED
      BY <1>1, <1>2, <1>3, <2>1 DEF Shown
<1>5. CASE LoadAtomic
  <2>1. /\ LoadOrder[2] = "blocked" /\ LoadOrder[3] = "scannerFailures"
        /\ LoadOrder[4] = "upstreamFailures" /\ LoadOrder[5] = "leaks"
        /\ LoadOrder[6] = "terminations" /\ Len(LoadOrder) = 6
      BY DEF LoadOrder
  <2>2. /\ loaded \in 1..5 /\ loaded' = loaded + 1 /\ count' = count
        /\ snap' = [snap EXCEPT ![LoadOrder[loaded + 1]] = count[LoadOrder[loaded + 1]]]
      BY <1>1, <1>5, <2>1 DEF LoadAtomic, recorded
  <2>3. snap \in [Counters -> Nat]
      BY DEF TypeOK
  <2>4. \A c \in Counters : snap'[c] = IF c = LoadOrder[loaded + 1] THEN count[c] ELSE snap[c]
      BY <2>2, <2>3
  <2>5. LoadOrder[loaded + 1] # "requests"
        /\ (LoadOrder[loaded + 1] = "scannerFailures" <=> loaded = 2)
        /\ (LoadOrder[loaded + 1] = "upstreamFailures" <=> loaded = 3)
    <3>1. loaded = 1 \/ loaded = 2 \/ loaded = 3 \/ loaded = 4 \/ loaded = 5
        BY <2>2
    <3> QED
        BY <2>1, <3>1
  <2>6. snap'["requests"] = snap["requests"]
      BY <1>2, <2>4, <2>5
  <2>7. Shown(7) = count /\ Shown(7)' = count
      BY <2>2 DEF Shown
  <2>8. Shown(3)["scannerFailures"] = Shown(3)'["scannerFailures"]
      BY <1>2, <2>2, <2>4, <2>5 DEF Shown
  <2>9. Shown(4)["upstreamFailures"] = Shown(4)'["upstreamFailures"]
      BY <1>2, <2>2, <2>4, <2>5 DEF Shown
  <2>10. Shown(3)["scannerFailures"] \in Nat /\ Shown(4)["upstreamFailures"] \in Nat
      BY <1>1, <1>2 DEF Shown
  <2> QED
      BY <1>1, <1>2, <2>2, <2>6, <2>7, <2>8, <2>9, <2>10
<1>6. CASE CopyMaps
  <2>1. /\ loaded = 6 /\ loaded' = 7 /\ count' = count
        /\ snap' = [c \in Counters |-> IF c \in Atomics THEN snap[c] ELSE count[c]]
    <3>1. Len(LoadOrder) = 6
        BY DEF LoadOrder
    <3> QED
        BY <1>6, <3>1 DEF CopyMaps, recorded
  <2>2. \A c \in Actions \cup Classes : Shown(7)[c] = count[c] /\ Shown(7)'[c] = count[c]
      BY <1>2, <2>1 DEF Shown
  <2>3. /\ Shown(3)["scannerFailures"] = snap["scannerFailures"]
        /\ Shown(3)'["scannerFailures"] = snap["scannerFailures"]
        /\ Shown(4)["upstreamFailures"] = snap["upstreamFailures"]
        /\ Shown(4)'["upstreamFailures"] = snap["upstreamFailures"]
        /\ snap'["requests"] = snap["requests"]
      BY <1>2, <2>1 DEF Shown
  <2> QED
      BY <1>1, <1>2, <2>1, <2>2, <2>3
<1>7. UNCHANGED reader \/ LoadAtomic \/ CopyMaps
    BY DEF Next, Handle, Record, Enqueue, EnqueuePanics, PublishLiveEvent, CloseQueue, vars
<1> QED
    BY <1>4, <1>5, <1>6, <1>7

\* A snapshot that covers requests goes on covering it while the rest is read.
LEMMA ShowStep ==
    ASSUME TypeOK, TypeOK', EndInv, CountInv, ShowInv, [Next]_vars
    PROVE  ShowInv'
<1> USE DEF ShowInv
<1>1. /\ \A c \in Counters : count[c] \in Nat /\ count'[c] \in Nat
                             /\ snap[c] \in Nat /\ snap'[c] \in Nat
      /\ loaded \in Nat
    BY DEF TypeOK
<1>2. /\ \A a \in Actions : a \in Counters
      /\ \A c \in Classes : c \in Counters
      /\ "scannerFailures" \in Counters /\ "upstreamFailures" \in Counters
      /\ "requests" \in Counters
    BY DEF Counters, Atomics
<1>3. CASE loaded >= 1
  <2>1. /\ loaded' >= 1 /\ snap'["requests"] = snap["requests"]
        /\ \A c \in Actions \cup Classes : Shown(7)[c] <= Shown(7)'[c]
        /\ Shown(3)["scannerFailures"] <= Shown(3)'["scannerFailures"]
        /\ Shown(4)["upstreamFailures"] <= Shown(4)'["upstreamFailures"]
      BY <1>3, ShownGrows
  <2>2. /\ \A c \in Counters : /\ Shown(7)[c] \in Nat /\ Shown(7)'[c] \in Nat
                                /\ Shown(3)[c] \in Nat /\ Shown(3)'[c] \in Nat
                                /\ Shown(4)[c] \in Nat /\ Shown(4)'[c] \in Nat
      BY <1>1 DEF Shown
  <2>3. snap["requests"] <= OfClasses(Shown(7)) /\ OfClasses(Shown(7)) <= OfClasses(Shown(7)')
    <3>1. /\ Shown(7)["2xx"] <= Shown(7)'["2xx"] /\ Shown(7)["3xx"] <= Shown(7)'["3xx"]
          /\ Shown(7)["4xx"] <= Shown(7)'["4xx"] /\ Shown(7)["5xx"] <= Shown(7)'["5xx"]
        BY <2>1 DEF Classes
    <3>2. /\ Shown(7)["2xx"] \in Nat /\ Shown(7)["3xx"] \in Nat
          /\ Shown(7)["4xx"] \in Nat /\ Shown(7)["5xx"] \in Nat
          /\ Shown(7)'["2xx"] \in Nat /\ Shown(7)'["3xx"] \in Nat
          /\ Shown(7)'["4xx"] \in Nat /\ Shown(7)'["5xx"] \in Nat
        BY <1>2, <2>2 DEF Classes
    <3>3. OfClasses(Shown(7)) <= OfClasses(Shown(7)')
        BY <3>1, <3>2 DEF OfClasses
    <3> QED
        BY <1>3, <3>3
  <2>4. OfActions(Shown(7)) <= OfActions(Shown(7)')
    <3>1. /\ Shown(7)["block_input"] <= Shown(7)'["block_input"]
          /\ Shown(7)["allow"] <= Shown(7)'["allow"]
          /\ Shown(7)["redact_stream"] <= Shown(7)'["redact_stream"]
          /\ Shown(7)["terminate_stream"] <= Shown(7)'["terminate_stream"]
        BY <2>1 DEF Actions, StreamActions
    <3>2. /\ Shown(7)["block_input"] \in Nat /\ Shown(7)'["block_input"] \in Nat
          /\ Shown(7)["allow"] \in Nat /\ Shown(7)'["allow"] \in Nat
          /\ Shown(7)["redact_stream"] \in Nat /\ Shown(7)'["redact_stream"] \in Nat
          /\ Shown(7)["terminate_stream"] \in Nat /\ Shown(7)'["terminate_stream"] \in Nat
        BY <1>2, <2>2 DEF Actions, StreamActions
    <3> QED
        BY <3>1, <3>2 DEF OfActions
  <2>5. /\ OfClasses(Shown(7)) \in Nat /\ OfClasses(Shown(7)') \in Nat
        /\ OfActions(Shown(7)) \in Nat /\ OfActions(Shown(7)') \in Nat
        /\ snap["requests"] \in Nat
      BY <1>1, <1>2, <2>2 DEF OfClasses, OfActions, Classes, Actions, StreamActions
  <2>6. /\ Cardinality(With("streamError")) <= Cardinality(With("streamError")')
        /\ Cardinality(With("streamError")) \in Nat /\ Cardinality(With("streamError")') \in Nat
      BY CountersGrow
  <2>7. /\ Shown(3)["scannerFailures"] \in Nat /\ Shown(3)'["scannerFailures"] \in Nat
        /\ Shown(4)["upstreamFailures"] \in Nat /\ Shown(4)'["upstreamFailures"] \in Nat
      BY <1>2, <2>2
  <2>8. snap["requests"] <= OfActions(Shown(7)) + Shown(3)["scannerFailures"]
                                 + Shown(4)["upstreamFailures"]
                                 + Cardinality(With("streamError"))
      BY <1>3
  <2>9. snap'["requests"] <= OfClasses(Shown(7)')
      BY <2>1, <2>3, <2>5
  <2>10. snap'["requests"] <= OfActions(Shown(7)') + Shown(3)'["scannerFailures"]
                                 + Shown(4)'["upstreamFailures"]
                                 + Cardinality(With("streamError")')
      BY <2>1, <2>4, <2>5, <2>6, <2>7, <2>8
  <2> QED
      BY <2>9, <2>10
<1>4. CASE ~ (loaded >= 1) /\ LoadAtomic
  <2>1. loaded = 0 /\ LoadOrder[1] = "requests" /\ Len(LoadOrder) = 6
      BY <1>1, <1>4 DEF LoadOrder
  <2>2. /\ loaded' = 1 /\ count' = count /\ outcome' = outcome
        /\ snap' = [snap EXCEPT !["requests"] = count["requests"]]
    <3>1. loaded + 1 = 1 /\ LoadOrder[loaded + 1] = "requests"
        BY <2>1
    <3>2. /\ loaded' = loaded + 1 /\ UNCHANGED <<count, outcome>>
          /\ snap' = [snap EXCEPT ![LoadOrder[loaded + 1]] = count[LoadOrder[loaded + 1]]]
        BY <1>4 DEF LoadAtomic, recorded, handlers
    <3> QED
        BY <3>1, <3>2
  <2>3. snap'["requests"] = count["requests"]
      BY <1>2, <2>2 DEF TypeOK
  <2>4. Shown(7)' = count /\ Shown(3)' = count /\ Shown(4)' = count
      BY <2>2 DEF Shown
  <2>5. With("streamError")' = With("streamError")
      BY <2>2 DEF With
  <2> QED
      BY <2>3, <2>4, <2>5, CountersCover
<1>5. CASE ~ (loaded >= 1) /\ ~ LoadAtomic
  <2>1. loaded' = loaded
    <3>1. ~ CopyMaps
      <4>1. Len(LoadOrder) = 6
          BY DEF LoadOrder
      <4> QED
          BY <1>1, <1>5, <4>1 DEF CopyMaps
    <3> QED
        BY <1>5, <3>1 DEF Next, Handle, Record, Enqueue, EnqueuePanics, PublishLiveEvent,
              CloseQueue, vars, reader
  <2> QED
      BY <1>5, <2>1
<1> QED
    BY <1>3, <1>4, <1>5

\* /metrics is read while handlers run and without a common lock, but a
\* snapshot never shows a request whose status, or whose action or failure, it
\* does not show.
THEOREM SnapshotsAreCovered == Spec => []SnapshotCovered
<1>1. Init => EndInv /\ CountInv /\ ShowInv
  <2>1. Init => loaded = 0
      BY DEF Init
  <2>2. Init => ShowInv
      BY <2>1 DEF ShowInv
  <2> QED
      BY <2>2, EndInit, CountInit
<1>2. /\ TypeOK /\ TypeOK' /\ (EndInv /\ CountInv /\ ShowInv) /\ [Next]_vars
      => (EndInv /\ CountInv /\ ShowInv)'
    BY EndStep, CountStep, ShowStep
<1>3. ShowInv => SnapshotCovered
  <2>1. Len(LoadOrder) = 6
      BY DEF LoadOrder
  <2> QED
      BY <2>1 DEF ShowInv, SnapshotCovered, Shown
<1> QED
    BY <1>1, <1>2, <1>3, TypeCorrect, PTL DEF Spec
=============================================================================
