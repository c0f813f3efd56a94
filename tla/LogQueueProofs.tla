--------------------------- MODULE LogQueueProofs ---------------------------
(***************************************************************************)
(* Theorems of LogQueue, for every set of events and workers, every        *)
(* capacity of the channel and every choice of faults.  The theorems of    *)
(* the breaker and the lemmas of the log are used through their instances. *)
(***************************************************************************)
EXTENDS LogQueue, FiniteSetTheorems, TLAPS

CBP == INSTANCE CircuitBreakerProofs
WALP == INSTANCE WriteAheadLogProofs

\* Which statement of the worker loop the breaker's own position belongs to.
PlaceInLoop ==
    \A w \in Workers :
        /\ at[w] = "idle" => wpc[w] \in {"recv", "holding", "spill", "exited"}
        /\ at[w] = "allow" => wpc[w] = "holding"
        /\ at[w] = "granted" => wpc[w] \in {"writing", "stored", "failed"}
        /\ at[w] \in CB!Tripping => wpc[w] = "failing"

\* Each handler counts at most once as dropped.
PastSend == {e \in Events : hpc[e] \notin {"new", "arrived", "send"}}
DropsCounted == dropped \in Nat /\ dropped <= Cardinality(PastSend)

TypeInv == TypeOK /\ PlaceInLoop /\ DropsCounted

\* What Close has reached: the channel is closed before main waits for the
\* workers, a worker ends only on an empty closed channel, and without slow
\* handlers none is left when Close begins.
LifeInv ==
    /\ chClosed => phase = "draining"
    /\ ~ SlowStop /\ phase \in {"closing", "draining"} => HandlersDone
    /\ \A w \in Workers : wpc[w] = "exited" => chClosed /\ ch = <<>>

\* Where an event is.  Before Enqueue has placed it, it is nowhere else; in the
\* channel and in a worker's hands it is there once, not in the file, and in the
\* sink no more often than the worker's place in its loop says.
Early(e) == hpc[e] \in {"new"} \cup Handling
Nowhere(e) == ~ InChannel(e) /\ ~ InHand(e) /\ ~ WALP!Holds(file, e) /\ copies[e] = 0

EarlyIsNowhere == \A e \in Events : Early(e) => Nowhere(e)
ChannelOnce ==
    /\ \A i, j \in DOMAIN ch : ch[i] = ch[j] => i = j
    /\ \A i \in DOMAIN ch : ~ InHand(ch[i]) /\ ~ WALP!Holds(file, ch[i]) /\ copies[ch[i]] = 0
HandOnce ==
    /\ \A v, w \in Workers : job[v] = job[w] /\ job[v] # None => v = w
    /\ \A w \in Workers : job[w] # None =>
          /\ ~ WALP!Holds(file, job[w])
          /\ wpc[w] \in {"holding", "writing"} => copies[job[w]] = 0
          /\ wpc[w] = "stored" => copies[job[w]] > 0
          /\ wpc[w] \in {"failed", "failing", "spill"} => copies[job[w]] <= slips

PlaceInv == EarlyIsNowhere /\ ChannelOnce /\ HandOnce /\ WALP!DeliverInv

\* What Enqueue has done with an event it has returned for.
Traced ==
    /\ \A e \in Events : hpc[e] \in {"queued", "logged"} =>
          InChannel(e) \/ InHand(e) \/ copies[e] > 0 \/ answer[e] # "none"
TraceInv == Traced /\ WALP!KeepInv

-----------------------------------------------------------------------------
\* The constants of the queue satisfy what the breaker and the log assume.
LEMMA Instances == CBP!BreakerAssumption /\ WALP!WALAssumption
  BY QueueAssumption
     DEF CBP!BreakerAssumption, CBP!IsFiniteSet, WALP!WALAssumption, WALP!IsFiniteSet,
         WALP!FaultKinds, IsFiniteSet

\* Whatever a worker, main or the scheduler does is a step of the breaker, or
\* leaves it alone.
LEMMA BreakerStep == ASSUME [Next]_vars PROVE [CBP!Next]_cbVars
<1> USE DEF cbVars
<1>1. ASSUME NEW e \in Events, Arrive(e) \/ Enqueue(e) PROVE [CBP!Next]_cbVars
  BY <1>1 DEF Arrive, Enqueue, EnqueueCheck, EnqueueSend, EnqueueFull, EnqueuePanic, EnqueueSpill
<1>2. ASSUME NEW w \in Workers, Work(w) PROVE [CBP!Next]_cbVars
  <2>1. CASE Receive(w) \/ WorkerExit(w) \/ WriteStores(w) \/ WriteFails(w) \/ WorkerSpill(w)
    BY <2>1 DEF Receive, WorkerExit, WriteStores, WriteFails, WorkerSpill
  <2>2. ASSUME CB!Step(w) PROVE CBP!Next
    BY <2>2 DEF CB!Step, CBP!Step, CBP!Next,
         CB!Goto, CBP!Goto, CB!ReadClock, CBP!ReadClock, CB!Elapsed, CBP!Elapsed,
         CB!AllowReadClock, CBP!AllowReadClock, CB!AllowGrant, CBP!AllowGrant,
         CB!AllowDeny, CBP!AllowDeny, CB!RecordSuccess, CBP!RecordSuccess,
         CB!OnSuccess, CBP!OnSuccess, CB!RecordFailureAdd, CBP!RecordFailureAdd,
         CB!Saturated, CBP!Saturated, CB!Reached, CBP!Reached,
         CB!RecordFailureClock, CBP!RecordFailureClock, CB!Deadline, CBP!Deadline,
         CB!RecordFailureOpen, CBP!RecordFailureOpen,
         CB!ResetCount, CBP!ResetCount, CB!RecordFailureReset, CBP!RecordFailureReset
  <2>3. CASE AskBreaker(w) \/ Granted(w) \/ Denied(w) \/ WriteSucceeded(w) \/ WriteFailed(w)
               \/ Trip(w) \/ Tripped(w)
    BY <2>2, <2>3 DEF AskBreaker, Granted, Denied, WriteSucceeded, WriteFailed, Trip, Tripped,
                      CB!Step
  <2> QED
    BY <1>2, <2>1, <2>3 DEF Work
<1>3. CASE MainReturns \/ Crash
  BY <1>3 DEF MainReturns, Crash, ProcessEnds, CB!Restart, CBP!Restart, CBP!Next
<1>4. CASE StartReplay \/ Replay \/ CloseSwap \/ CloseChannel \/ Signal \/ Boot
  BY <1>4 DEF StartReplay, Replay, CloseSwap, CloseChannel, Signal, Boot
<1>5. CASE Tick
  BY <1>5 DEF Tick, CB!Tick, CBP!Tick, CBP!Next
<1>6. CASE UNCHANGED vars
  BY <1>6 DEF vars
<1> QED
  BY <1>1, <1>2, <1>3, <1>4, <1>5, <1>6 DEF Next, Main

\* The queue's use of the breaker is a behavior of the breaker, whatever its
\* workers, the shutdown and the restarts do, so all its theorems hold here.
THEOREM UsesTheBreaker == Spec => CBP!Spec
<1>1. Init => CBP!Init
  BY DEF Init, CB!Init, CBP!Init
<1>2. [Next]_vars => [CBP!Next]_cbVars
  BY BreakerStep
<1> QED
  BY <1>1, <1>2, PTL DEF Spec, CBP!Spec, CBP!vars, cbVars

\* Inside the running queue, with its restarts, the breaker is never open for
\* longer than one window from the present.
THEOREM NeverOpenLongerThanWindow == Spec => []CB!WindowBound
<1>1. CBP!Spec => []CBP!WindowBound
  BY Instances, CBP!NeverOpenLongerThanWindow
<1>2. CBP!WindowBound => CB!WindowBound
  BY DEF CBP!WindowBound, CB!WindowBound
<1> QED
  BY <1>1, <1>2, UsesTheBreaker, PTL

LEMMA BreakerTypes == Spec => []CB!TypeOK
<1>1. CBP!Spec => []CBP!TypeOK
  BY Instances, CBP!TypeCorrect
<1>2. CBP!TypeOK => CB!TypeOK
  BY DEF CBP!TypeOK, CB!TypeOK, CBP!Where, CB!Where, CBP!Tripping, CB!Tripping
<1> QED
  BY <1>1, <1>2, UsesTheBreaker, PTL

-----------------------------------------------------------------------------
\* What the steps of the queue are to the log: an append, a step of Replay, the
\* crash, or a write of a worker, which stores its event, or fails, or both.
Wrote(e) ==
    /\ UNCHANGED <<file, answer, torn, rpc, pos, acked, pending>>
    /\ \/ UNCHANGED <<copies, slips>>
       \/ WALP!Stored(e) /\ UNCHANGED slips
       \/ WALP!Stored(e) /\ WALP!Slip

Replays == WALP!ReplayBegin \/ WALP!ReplayStep \/ WALP!ReplayError \/ WALP!Crash

LEMMA SameLog ==
    /\ WAL!TypeOK <=> WALP!TypeOK
    /\ \A e \in Events :
          /\ WAL!AppendEvent(e) <=> WALP!AppendEvent(e)
          /\ WAL!InFile(e) <=> WALP!InFile(e)
          /\ WAL!Safe(e) <=> WALP!InFile(e) \/ copies[e] > 0
    /\ WAL!ReplayBegin \/ WAL!ReplayStep \/ WAL!ReplayError \/ WAL!Crash <=> Replays
  BY DEF Replays, WAL!TypeOK, WALP!TypeOK, WAL!Record, WALP!Record, WAL!Free, WALP!Free,
         WAL!AppendEvent, WALP!AppendEvent, WAL!AppendLine, WALP!AppendLine,
         WAL!AppendFails, WALP!AppendFails, WAL!AppendTears, WALP!AppendTears,
         WAL!Written, WALP!Written, WAL!Answered, WALP!Answered,
         WAL!replayVars, WALP!replayVars, WAL!InFile, WALP!InFile, WAL!Safe,
         WAL!Readable, WALP!Readable, WAL!StartsLine, WALP!StartsLine, WAL!EndsLine, WALP!EndsLine,
         WAL!ReplayBegin, WALP!ReplayBegin, WAL!ReplayStep, WALP!ReplayStep,
         WAL!ReplaySkip, WALP!ReplaySkip, WAL!ReplayAck, WALP!ReplayAck,
         WAL!ReplayRefused, WALP!ReplayRefused, WAL!ReplayWriteTmp, WALP!ReplayWriteTmp,
         WAL!ReplayFinish, WALP!ReplayFinish, WAL!ReplayError, WALP!ReplayError,
         WAL!Crash, WALP!Crash, WAL!More, WALP!More, WAL!NextRecord, WALP!NextRecord,
         WAL!Advance, WALP!Advance, WAL!Ack, WALP!Ack, WAL!Refuse, WALP!Refuse,
         WAL!Survivors, WALP!Survivors, WAL!Slip, WALP!Slip, WAL!Stored, WALP!Stored

LEMMA SameLogNext ==
    /\ WAL!TypeOK' <=> WALP!TypeOK'
    /\ \A e \in Events :
          /\ WAL!InFile(e)' <=> WALP!InFile(e)'
          /\ WAL!Safe(e)' <=> WALP!InFile(e)' \/ copies'[e] > 0
  BY DEF WAL!TypeOK, WALP!TypeOK, WAL!Record, WALP!Record, WAL!Free, WALP!Free,
         WAL!InFile, WALP!InFile, WAL!Safe,
         WAL!Readable, WALP!Readable, WAL!StartsLine, WALP!StartsLine, WAL!EndsLine, WALP!EndsLine

\* A worker that is not waiting holds an event.
LEMMA Holder ==
    ASSUME TypeOK, NEW w \in Workers, wpc[w] \notin {"recv", "exited"}
    PROVE  job[w] \in Events
  BY DEF TypeOK

LEMMA LogStep ==
    ASSUME TypeOK, [Next]_vars
    PROVE  \/ \E e \in Events : WALP!AppendEvent(e)
           \/ Replays
           \/ \E w \in Workers : wpc[w] = "writing" /\ Wrote(job[w])
           \/ UNCHANGED walVars
<1> USE DEF walVars
<1>1. ASSUME NEW e \in Events, Arrive(e) \/ Enqueue(e)
      PROVE  WALP!AppendEvent(e) \/ UNCHANGED walVars
  BY <1>1, SameLog
     DEF Arrive, Enqueue, EnqueueCheck, EnqueueSend, EnqueueFull, EnqueuePanic, EnqueueSpill
<1>2. ASSUME NEW w \in Workers, Work(w)
      PROVE  \/ wpc[w] = "spill" /\ WALP!AppendEvent(job[w])
             \/ wpc[w] = "writing" /\ Wrote(job[w])
             \/ UNCHANGED walVars
  <2>1. CASE WorkerSpill(w)
    BY <2>1, Holder, SameLog DEF WorkerSpill
  <2>2. CASE WriteStores(w)
    BY <2>2 DEF WriteStores, Wrote, WAL!Stored, WALP!Stored
  <2>3. CASE WriteFails(w)
    BY <2>3 DEF WriteFails, Wrote, WAL!Stored, WALP!Stored, WAL!Slip, WALP!Slip
  <2>4. CASE Receive(w) \/ WorkerExit(w) \/ AskBreaker(w) \/ Granted(w) \/ Denied(w)
               \/ WriteSucceeded(w) \/ WriteFailed(w) \/ Trip(w) \/ Tripped(w)
    BY <2>4 DEF Receive, WorkerExit, AskBreaker, Granted, Denied, WriteSucceeded, WriteFailed,
                Trip, Tripped
  <2> QED
    BY <1>2, <2>1, <2>2, <2>3, <2>4 DEF Work
<1>3. CASE StartReplay \/ Replay \/ Crash
  BY <1>3, SameLog DEF StartReplay, Replay, Crash
<1>4. CASE MainReturns \/ CloseSwap \/ CloseChannel \/ Signal \/ Boot \/ Tick
  BY <1>4 DEF MainReturns, CloseSwap, CloseChannel, Signal, Boot, Tick
<1>5. CASE UNCHANGED vars
  BY <1>5 DEF vars
<1> QED
  BY <1>1, <1>2, <1>3, <1>4, <1>5, Holder DEF Next, Main

\* The log's types are kept, and the count of slips only grows.
LEMMA LogTypes ==
    ASSUME TypeOK, [Next]_vars
    PROVE  WAL!TypeOK' /\ slips' >= slips
<1>0. WALP!TypeOK /\ slips \in Nat /\ MaxSlips \in Nat
  BY SameLog, QueueAssumption DEF TypeOK, WALP!TypeOK
<1>1. ASSUME NEW w \in Workers, wpc[w] = "writing", Wrote(job[w])
      PROVE  WALP!TypeOK' /\ slips' >= slips
  <2>1. job[w] \in Events
    BY <1>1, Holder
  <2> QED
    BY <1>0, <1>1, <2>1 DEF Wrote, WALP!TypeOK, WALP!Stored, WALP!Slip, WALP!Free
<1>2. ASSUME \/ \E e \in Events : WALP!AppendEvent(e)
             \/ Replays
             \/ UNCHANGED walVars
      PROVE  WALP!TypeOK' /\ slips' >= slips
  <2>1. [WALP!Next]_walVars
    BY <1>2 DEF Replays, WALP!Next
  <2>2. WALP!TypeOK'
    BY <1>0, <2>1, Instances, WALP!TypeStep DEF walVars, WALP!walVars
  <2>3. slips' >= slips
    BY <1>0, <1>2
       DEF Replays, walVars, WALP!AppendEvent, WALP!AppendLine, WALP!AppendFails, WALP!AppendTears,
           WALP!ReplayBegin, WALP!ReplayStep, WALP!ReplaySkip, WALP!ReplayAck,
           WALP!ReplayRefused, WALP!ReplayWriteTmp, WALP!ReplayFinish, WALP!ReplayError,
           WALP!Crash, WALP!Slip
  <2> QED
    BY <2>2, <2>3
<1> QED
  BY <1>1, <1>2, LogStep, SameLogNext

-----------------------------------------------------------------------------
\* The number of dropped events is bounded because each handler passes the full
\* channel at most once: a set of handlers that only grows bounds the counter.
LEMMA PastSendFinite ==
    /\ IsFiniteSet(PastSend) /\ Cardinality(PastSend) \in Nat
    /\ Cardinality(PastSend) <= Cardinality(Events) /\ Cardinality(Events) \in Nat
<1>1. PastSend \in SUBSET Events
  BY DEF PastSend
<1> QED
  BY <1>1, FS_Subset, FS_CardinalityType, QueueAssumption

LEMMA PastSendNextFinite == IsFiniteSet(PastSend') /\ Cardinality(PastSend') \in Nat
<1>1. PastSend' \in SUBSET Events
  BY DEF PastSend
<1> QED
  BY <1>1, FS_Subset, FS_CardinalityType, QueueAssumption

LEMMA DropsStep == ASSUME TypeOK, DropsCounted, [Next]_vars PROVE DropsCounted'
<1>1. CASE dropped' = 0
  BY <1>1, PastSendNextFinite DEF DropsCounted
<1>2. ASSUME PastSend \subseteq PastSend', dropped' = dropped PROVE DropsCounted'
  <2>1. Cardinality(PastSend) <= Cardinality(PastSend')
    BY <1>2, PastSendNextFinite, FS_Subset
  <2> QED
    BY <1>2, <2>1, PastSendFinite, PastSendNextFinite DEF DropsCounted
<1>3. ASSUME NEW e \in Events, EnqueueFull(e) PROVE DropsCounted'
  <2>1. PastSend' = PastSend \cup {e} /\ e \notin PastSend
    BY <1>3 DEF EnqueueFull, HandlerGoto, PastSend, TypeOK
  <2>2. Cardinality(PastSend') = Cardinality(PastSend) + 1
    BY <2>1, PastSendFinite, FS_AddElement
  <2> QED
    BY <1>3, <2>2, PastSendFinite DEF EnqueueFull, DropsCounted
<1>4. ASSUME NEW e \in Events,
             Arrive(e) \/ EnqueueCheck(e) \/ EnqueueSend(e) \/ EnqueuePanic(e) \/ EnqueueSpill(e)
      PROVE  DropsCounted'
  <2>1. PastSend \subseteq PastSend' /\ dropped' = dropped
    BY <1>4 DEF Arrive, EnqueueCheck, EnqueueSend, EnqueuePanic, EnqueueSpill, HandlerGoto,
                PastSend, TypeOK
  <2> QED
    BY <1>2, <2>1
<1>5. ASSUME UNCHANGED <<hpc, dropped>> PROVE DropsCounted'
  <2>1. PastSend' = PastSend
    BY <1>5 DEF PastSend
  <2> QED
    BY <1>2, <1>5, <2>1
<1>6. ASSUME NEW w \in Workers, Work(w) PROVE UNCHANGED <<hpc, dropped>>
  BY <1>6 DEF Work, Receive, WorkerExit, AskBreaker, Granted, Denied, WriteStores, WriteFails,
              WriteSucceeded, WriteFailed, Trip, Tripped, WorkerSpill
<1>7. CASE StartReplay \/ Replay \/ CloseSwap \/ CloseChannel \/ Signal \/ Boot \/ Tick
  BY <1>5, <1>7 DEF StartReplay, Replay, CloseSwap, CloseChannel, Signal, Boot, Tick
<1>8. CASE MainReturns \/ Crash
  BY <1>1, <1>8 DEF MainReturns, Crash, ProcessEnds
<1>9. CASE UNCHANGED vars
  BY <1>5, <1>9 DEF vars
<1> QED
  BY <1>3, <1>4, <1>5, <1>6, <1>7, <1>8, <1>9 DEF Next, Main, Enqueue

\* The variables of the queue itself, apart from the counter.
OwnTypes ==
    /\ phase \in Phases
    /\ closed \in BOOLEAN /\ chClosed \in BOOLEAN
    /\ ch \in Seq(Events) /\ Len(ch) <= QueueSize
    /\ hpc \in [Events -> HandlerStates]
    /\ wpc \in [Workers -> WorkerStates]
    /\ job \in [Workers -> Events \cup {None}]
    /\ \A w \in Workers : job[w] = None <=> wpc[w] \in {"recv", "exited"}

LEMMA EmptyChannel == <<>> \in Seq(Events) /\ Len(<<>>) <= QueueSize
<1>1. QueueSize \in Nat
  BY QueueAssumption
<1>2. <<>> \in Seq(Events) /\ Len(<<>>) = 0
  OBVIOUS
<1> QED
  BY <1>1, <1>2

\* The breaker denies or grants only a worker that holds an event it has not
\* tried to write, which no guard of these two actions says.
LEMMA OwnStep ==
    ASSUME TypeOK, PlaceInLoop, CB!TypeOK', [Next]_vars
    PROVE  OwnTypes' /\ PlaceInLoop'
<1> USE DEF HandlerGoto, WorkerGoto, Forget, HandlerStates, WorkerStates, mainVars
<1>0. OwnTypes
  BY DEF TypeOK, OwnTypes
<1>1. ASSUME NEW e \in Events, Arrive(e) \/ Enqueue(e) PROVE OwnTypes' /\ PlaceInLoop'
  <2>1. ch' \in Seq(Events) /\ Len(ch') <= QueueSize
    <3>1. CASE EnqueueSend(e)
      BY <1>0, <3>1, QueueAssumption DEF EnqueueSend, OwnTypes
    <3>2. CASE ch' = ch
      BY <1>0, <3>2 DEF OwnTypes
    <3> QED
      BY <1>1, <3>1, <3>2 DEF Arrive, Enqueue, EnqueueCheck, EnqueueFull, EnqueuePanic, EnqueueSpill
  <2>2. hpc' \in [Events -> HandlerStates]
    BY <1>0, <1>1 DEF Arrive, Enqueue, EnqueueCheck, EnqueueSend, EnqueueFull, EnqueuePanic,
                      EnqueueSpill, OwnTypes
  <2>3. UNCHANGED <<at, wpc, job, mainVars>>
    BY <1>1 DEF Arrive, Enqueue, EnqueueCheck, EnqueueSend, EnqueueFull, EnqueuePanic,
                EnqueueSpill, cbVars
  <2> QED
    BY <1>0, <2>1, <2>2, <2>3 DEF OwnTypes, PlaceInLoop, CB!Tripping
<1>2. ASSUME NEW w \in Workers, Work(w) PROVE OwnTypes' /\ PlaceInLoop'
  <2> USE DEF OwnTypes, PlaceInLoop, CB!Tripping, CB!Goto
  <2>0. at \in [Workers -> CB!Where]
    BY DEF TypeOK, CB!TypeOK
  <2>1. CASE Receive(w)
    <3>1. Head(ch) \in Events /\ Head(ch) # None /\ Tail(ch) \in Seq(Events) /\ Len(Tail(ch)) <= QueueSize
      BY <1>0, <2>1, QueueAssumption DEF Receive
    <3> QED
      BY <1>0, <2>1, <3>1 DEF Receive, cbVars
  <2>2. CASE WorkerExit(w)
    BY <1>0, <2>2 DEF WorkerExit, cbVars
  <2>3. CASE AskBreaker(w)
    BY <1>0, <2>0, <2>3 DEF AskBreaker, CB!AllowReadClock
  <2>4. CASE Granted(w)
    BY <1>0, <2>0, <2>4 DEF Granted, CB!AllowGrant
  <2>5. CASE Denied(w)
    BY <1>0, <2>0, <2>5 DEF Denied, CB!AllowDeny
  <2>6. CASE WriteStores(w) \/ WriteFails(w)
    BY <1>0, <2>0, <2>6 DEF WriteStores, WriteFails, cbVars
  <2>7. CASE WriteSucceeded(w)
    BY <1>0, <2>0, <2>7, QueueAssumption DEF WriteSucceeded, CB!RecordSuccess
  <2>8. CASE WriteFailed(w)
    BY <1>0, <2>0, <2>8 DEF WriteFailed, CB!RecordFailureAdd
  <2>9. CASE Trip(w)
    BY <1>0, <2>0, <2>9 DEF Trip, CB!RecordFailureClock, CB!RecordFailureOpen
  <2>10. CASE Tripped(w)
    BY <1>0, <2>0, <2>10 DEF Tripped, CB!RecordFailureReset
  <2>11. CASE WorkerSpill(w)
    BY <1>0, <2>0, <2>11, QueueAssumption DEF WorkerSpill, cbVars
  <2> QED
    BY <1>2, <2>1, <2>2, <2>3, <2>4, <2>5, <2>6, <2>7, <2>8, <2>9, <2>10, <2>11 DEF Work
<1>3. CASE MainReturns \/ Crash
  <2>1. hpc' \in [Events -> HandlerStates]
    BY <1>0, <1>3 DEF MainReturns, Crash, ProcessEnds, OwnTypes
  <2>2. /\ ch' = <<>> /\ ~ closed' /\ ~ chClosed' /\ phase' = "ended"
        /\ wpc' = [w \in Workers |-> "recv"] /\ job' = [w \in Workers |-> None]
        /\ at' = [w \in Workers |-> "idle"]
    BY <1>3 DEF MainReturns, Crash, ProcessEnds, CB!Restart
  <2>3. closed' \in BOOLEAN /\ chClosed' \in BOOLEAN
    BY <1>3 DEF MainReturns, Crash, ProcessEnds
  <2>4. OwnTypes'
    BY <2>1, <2>2, <2>3, EmptyChannel DEF OwnTypes, Phases
  <2>5. PlaceInLoop'
    BY <2>2 DEF PlaceInLoop, CB!Tripping
  <2> QED
    BY <2>4, <2>5
<1>4. CASE StartReplay \/ Replay \/ CloseSwap \/ CloseChannel \/ Signal \/ Boot
  BY <1>0, <1>4 DEF StartReplay, Replay, CloseSwap, CloseChannel, Signal, Boot, OwnTypes,
                    PlaceInLoop, CB!Tripping, cbVars, Phases
<1>5. CASE Tick
  BY <1>0, <1>5 DEF Tick, CB!Tick, OwnTypes, PlaceInLoop, CB!Tripping
<1>6. CASE UNCHANGED vars
  BY <1>0, <1>6 DEF vars, cbVars, OwnTypes, PlaceInLoop, CB!Tripping
<1> QED
  BY <1>1, <1>2, <1>3, <1>4, <1>5, <1>6 DEF Next, Main

\* The types of the queue, its channel's capacity, the count of drops and the
\* workers' hands, through shutdown, crashes and restarts.
LEMMA TypesHold == Spec => []TypeInv
<1>1. Init => TypeInv
  <2> SUFFICES ASSUME Init PROVE TypeInv
    OBVIOUS
  <2>1. WAL!TypeOK
    BY QueueAssumption DEF Init, WAL!Init, WAL!TypeOK, WAL!Free
  <2>2. CB!TypeOK
    BY QueueAssumption DEF Init, CB!Init, CB!TypeOK, CB!Where, CB!Tripping
  <2>3. closed \in BOOLEAN /\ chClosed \in BOOLEAN
    BY DEF Init
  <2>4. OwnTypes
    BY <2>3, EmptyChannel DEF Init, OwnTypes, Phases, HandlerStates, WorkerStates
  <2>5. PlaceInLoop
    BY DEF Init, CB!Init, PlaceInLoop, CB!Tripping
  <2>6. DropsCounted /\ dropped \in 0..Cardinality(Events)
    BY PastSendFinite DEF Init, DropsCounted
  <2> QED
    BY <2>1, <2>2, <2>4, <2>5, <2>6 DEF TypeInv, TypeOK, OwnTypes
<1>2. TypeInv /\ CB!TypeOK' /\ [Next]_vars => TypeInv'
  <2> SUFFICES ASSUME TypeInv, CB!TypeOK', [Next]_vars PROVE TypeInv'
    OBVIOUS
  <2>1. TypeOK /\ PlaceInLoop /\ DropsCounted
    BY DEF TypeInv
  <2>2. DropsCounted'
    BY <2>1, DropsStep
  <2>3. dropped' \in 0..Cardinality(Events)
    <3>1. PastSend' \in SUBSET Events
      BY DEF PastSend
    <3>2. Cardinality(PastSend') <= Cardinality(Events) /\ Cardinality(Events) \in Nat
      BY <3>1, QueueAssumption, FS_Subset, FS_CardinalityType
    <3> QED
      BY <2>2, <3>2, PastSendNextFinite DEF DropsCounted
  <2> QED
    BY <2>1, <2>2, <2>3, LogTypes, OwnStep DEF TypeInv, TypeOK, OwnTypes
<1> QED
  BY <1>1, <1>2, BreakerTypes, PTL DEF Spec

THEOREM TypeCorrect == Spec => []TypeOK
<1>1. TypeInv => TypeOK
  BY DEF TypeInv
<1> QED
  BY <1>1, TypesHold, PTL

-----------------------------------------------------------------------------
\* How far Close has come bounds what handlers and workers can still be doing.
LEMMA LifeStep == ASSUME TypeInv, LifeInv, [Next]_vars PROVE LifeInv'
<1> USE DEF HandlerGoto, WorkerGoto, HandlersDone, Handling, mainVars
<1>0. /\ hpc \in [Events -> HandlerStates] /\ wpc \in [Workers -> WorkerStates]
      /\ chClosed \in BOOLEAN
  BY DEF TypeInv, TypeOK
<1>1. ASSUME NEW e \in Events, Arrive(e) PROVE LifeInv'
  BY <1>0, <1>1 DEF Arrive, LifeInv
<1>2. ASSUME NEW e \in Events, Enqueue(e) PROVE LifeInv'
  <2>1. hpc[e] \in {"arrived", "send", "spill"} /\ UNCHANGED <<phase, closed, chClosed, wpc>>
    BY <1>2 DEF Enqueue, EnqueueCheck, EnqueueSend, EnqueueFull, EnqueuePanic, EnqueueSpill
  <2>2. ~ chClosed \/ ch' = ch
    BY <1>2 DEF Enqueue, EnqueueCheck, EnqueueSend, EnqueueFull, EnqueuePanic, EnqueueSpill
  <2> QED
    BY <2>1, <2>2 DEF LifeInv
<1>3. ASSUME NEW w \in Workers, Work(w) PROVE LifeInv'
  <2>1. CASE Receive(w)
    BY <1>0, <2>1 DEF Receive, LifeInv
  <2>2. CASE WorkerExit(w)
    BY <1>0, <2>2 DEF WorkerExit, Drained, LifeInv
  <2>3. ASSUME UNCHANGED <<mainVars, ch, hpc>>,
               wpc' = wpc \/ \E l \in {"recv", "writing", "stored", "failed", "failing", "spill"} :
                                 wpc' = [wpc EXCEPT ![w] = l]
        PROVE  LifeInv'
    BY <1>0, <2>3 DEF LifeInv
  <2>4. CASE AskBreaker(w) \/ Trip(w)
    BY <2>3, <2>4 DEF AskBreaker, Trip
  <2>5. CASE Granted(w) \/ Denied(w) \/ WriteStores(w) \/ WriteFails(w) \/ WriteSucceeded(w)
               \/ Tripped(w) \/ WorkerSpill(w)
    BY <2>3, <2>5 DEF Granted, Denied, WriteStores, WriteFails, WriteSucceeded, Tripped, WorkerSpill
  <2>6. CASE WriteFailed(w)
    BY <2>3, <2>6 DEF WriteFailed
  <2> QED
    BY <1>3, <2>1, <2>2, <2>4, <2>5, <2>6 DEF Work
<1>4. CASE MainReturns \/ Crash
  BY <1>4 DEF MainReturns, Crash, ProcessEnds, LifeInv
<1>5. CASE StartReplay \/ Replay \/ CloseSwap \/ CloseChannel \/ Signal \/ Boot
  BY <1>5 DEF StartReplay, Replay, CloseSwap, CloseChannel, Signal, Boot, LifeInv
<1>6. CASE Tick \/ UNCHANGED vars
  BY <1>6 DEF Tick, vars, LifeInv
<1> QED
  BY <1>1, <1>2, <1>3, <1>4, <1>5, <1>6 DEF Next, Main

\* When main returns every worker has exited, so nothing is in the channel or
\* in a worker's hands.
LEMMA NothingLeftBehind ==
    ASSUME TypeInv, LifeInv, MainReturns, NEW e \in Events, InMemory(e)
    PROVE  SlowStop /\ hpc[e] \in Handling
<1>1. \A w \in Workers : wpc[w] = "exited"
  BY DEF MainReturns, WorkersDone
<1>2. ch = <<>> /\ phase = "draining"
  BY <1>1, QueueAssumption DEF LifeInv, MainReturns
<1>3. DOMAIN ch = {}
  BY <1>2
<1>4. \A w \in Workers : job[w] = None
  BY <1>1 DEF TypeInv, TypeOK
<1>5. hpc[e] \in Handling
  BY <1>3, <1>4, QueueAssumption DEF InMemory, InChannel, InHand
<1> QED
  BY <1>2, <1>5, QueueAssumption DEF LifeInv, HandlersDone

\* LossNeedsFault: what loses an event is a crash, or a handler that outlasted the
\* server's stop.  A shutdown that waited for its handlers panics none of them and
\* leaves nothing in memory.
THEOREM LossTakesAFault == Spec => LossNeedsFault
<1> DEFINE Loses(e) == hpc[e] \notin Lost /\ hpc'[e] \in Lost
           Excused == \A e \in Events : Loses(e) => SlowStop \/ Crash
<1>1. Init => LifeInv
  BY DEF Init, LifeInv, HandlersDone, Handling
<1>2. TypeInv /\ LifeInv /\ [Next]_vars => LifeInv'
  BY LifeStep
<1>3. TypeInv /\ LifeInv /\ [Next]_vars => [Excused]_vars
  <2> SUFFICES ASSUME TypeInv, LifeInv, [Next]_vars PROVE Excused
    OBVIOUS
  <2>1. hpc \in [Events -> HandlerStates]
    BY DEF TypeInv, TypeOK
  <2>2. ASSUME NEW x \in Events, Arrive(x) \/ Enqueue(x), NEW e \in Events, Loses(e)
        PROVE  SlowStop
    <3>1. CASE EnqueuePanic(x)
      BY <3>1, QueueAssumption DEF EnqueuePanic, LifeInv, HandlersDone, Handling
    <3>2. CASE Arrive(x) \/ EnqueueCheck(x) \/ EnqueueSend(x) \/ EnqueueFull(x) \/ EnqueueSpill(x)
      BY <2>1, <2>2, <3>2 DEF Arrive, EnqueueCheck, EnqueueSend, EnqueueFull, EnqueueSpill,
                              HandlerGoto, Lost
    <3> QED
      BY <2>2, <3>1, <3>2 DEF Enqueue
  <2>3. ASSUME UNCHANGED hpc PROVE Excused
    BY <2>3
  <2>4. ASSUME NEW w \in Workers, Work(w) PROVE UNCHANGED hpc
    BY <2>4 DEF Work, Receive, WorkerExit, AskBreaker, Granted, Denied, WriteStores, WriteFails,
                WriteSucceeded, WriteFailed, Trip, Tripped, WorkerSpill
  <2>5. ASSUME MainReturns, NEW e \in Events, Loses(e)
        PROVE  SlowStop
    <3>1. InMemory(e)
      BY <2>5 DEF MainReturns, ProcessEnds
    <3> QED
      BY <2>5, <3>1, NothingLeftBehind
  <2>7. CASE StartReplay \/ Replay \/ CloseSwap \/ CloseChannel \/ Signal \/ Boot \/ Tick
    BY <2>3, <2>7 DEF StartReplay, Replay, CloseSwap, CloseChannel, Signal, Boot, Tick
  <2>8. CASE UNCHANGED vars
    BY <2>3, <2>8 DEF vars
  <2>9. CASE \E x \in Events : Arrive(x) \/ Enqueue(x)
    BY <2>2, <2>9
  <2>10. CASE MainReturns \/ Crash
    BY <2>5, <2>10
  <2> QED
    BY <2>3, <2>4, <2>7, <2>8, <2>9, <2>10 DEF Next, Main
<1>4. [][Excused]_vars => LossNeedsFault
  BY PTL DEF LossNeedsFault
<1> QED
  BY <1>1, <1>2, <1>3, <1>4, TypesHold, PTL DEF Spec

-----------------------------------------------------------------------------
\* A worker's write keeps what the log relies on: its event is not in the file,
\* so no replay can deliver it too.
LEMMA WroteDelivers ==
    ASSUME WALP!TypeOK, WALP!DeliverInv, NEW e \in Events, Wrote(e),
           copies[e] = 0, ~ WALP!Holds(file, e)
    PROVE  WALP!DeliverInv' /\ copies'[e] <= 1 + slips'
<1>0. /\ copies \in [Events -> Nat] /\ slips \in Nat /\ file \in Seq(WALP!Record)
      /\ rpc # "off" => pos \in Nat /\ pos <= Len(file)
      /\ \A i \in DOMAIN file : file[i].event \in Events \ {e}
  <2>1. /\ copies \in [Events -> Nat] /\ slips \in Nat /\ file \in Seq(WALP!Record)
        /\ rpc # "off" => pos \in Nat /\ pos <= Len(file)
    BY QueueAssumption DEF WALP!TypeOK, WALP!Free
  <2>2. \A i \in DOMAIN file : file[i] \in WALP!Record
    BY <2>1
  <2>3. \A i \in DOMAIN file : file[i].event \in Events
    BY <2>2, Instances, WALP!Records
  <2> QED
    BY <2>1, <2>3 DEF WALP!Holds
<1>1. /\ UNCHANGED <<file, rpc, pos, acked, pending>>
      /\ slips' \in Nat /\ slips' >= slips
      /\ copies'[e] \in Nat /\ copies'[e] <= 1 /\ \A x \in Events \ {e} : copies'[x] = copies[x]
  BY <1>0 DEF Wrote, WALP!Stored, WALP!Slip
<1>2. WALP!FileOnce' /\ WALP!Undelivered'
  BY <1>0, <1>1 DEF WALP!DeliverInv, WALP!FileOnce, WALP!Undelivered, WALP!Free
<1>3. WALP!PendingOnce'
  <2>1. ASSUME rpc # "off", NEW k \in DOMAIN pending
        PROVE  pending[k].event \in Events \ {e} /\ copies[pending[k].event] <= slips
    <3>1. PICK i \in 1..pos : file[i] = pending[k]
      BY <2>1 DEF WALP!DeliverInv, WALP!PendingOnce
    <3>2. i \in DOMAIN file
      BY <1>0, <2>1, <3>1
    <3> QED
      BY <1>0, <2>1, <3>1, <3>2 DEF WALP!DeliverInv, WALP!PendingOnce
  <2>2. rpc # "off" => \A k \in DOMAIN pending : copies'[pending[k].event] <= slips'
    BY <1>0, <1>1, <2>1
  <2> QED
    BY <1>1, <2>2 DEF WALP!DeliverInv, WALP!PendingOnce
<1>4. WALP!RedeliveryBounded'
  BY <1>0, <1>1 DEF WALP!DeliverInv, WALP!RedeliveryBounded
<1> QED
  BY <1>1, <1>2, <1>3, <1>4 DEF WALP!DeliverInv

\* Placing an event that Enqueue still has: it is nowhere, so wherever it goes
\* it is there once.
LEMMA EnqueueStep ==
    ASSUME TypeInv, PlaceInv, NEW e \in Events, Arrive(e) \/ Enqueue(e)
    PROVE  PlaceInv'
<1> USE DEF PlaceInv, EarlyIsNowhere, Nowhere, Early, Handling, HandlerGoto
<1>0. /\ hpc \in [Events -> HandlerStates] /\ WALP!TypeOK /\ ch \in Seq(Events)
      /\ job \in [Workers -> Events \cup {None}] /\ slips \in Nat
  BY SameLog, QueueAssumption DEF TypeInv, TypeOK, WALP!TypeOK
<1>1. Early(e) /\ Nowhere(e)
  BY DEF Arrive, Enqueue, EnqueueCheck, EnqueueSend, EnqueueFull, EnqueuePanic, EnqueueSpill
<1>2. CASE Arrive(e) \/ EnqueueCheck(e) \/ EnqueueFull(e) \/ EnqueuePanic(e)
  <2>1. UNCHANGED <<walVars, ch, wpc, job>> /\ \A x \in Events : Early(x)' => Early(x)
    BY <1>0, <1>1, <1>2 DEF Arrive, EnqueueCheck, EnqueueFull, EnqueuePanic
  <2> QED
    BY <2>1 DEF walVars, InChannel, InHand, ChannelOnce, HandOnce, WALP!Holds, WALP!DeliverInv,
                WALP!FileOnce, WALP!Undelivered, WALP!PendingOnce, WALP!RedeliveryBounded, WALP!Free
<1>3. CASE EnqueueSend(e)
  <2>1. /\ UNCHANGED <<walVars, wpc, job>> /\ ch' = Append(ch, e)
        /\ \A x \in Events : Early(x)' => Early(x) /\ x # e
    BY <1>0, <1>3 DEF EnqueueSend
  <2>2. /\ DOMAIN ch = 1..Len(ch) /\ DOMAIN ch' = 1..(Len(ch) + 1) /\ ch'[Len(ch) + 1] = e
        /\ \A i \in 1..Len(ch) : ch'[i] = ch[i] /\ ch[i] # e
        /\ Len(ch) \in Nat
    BY <1>0, <1>1, <2>1, WALP!Appended DEF InChannel
  <2>3. \A i \in 1..(Len(ch) + 1) : i \in 1..Len(ch) \/ i = Len(ch) + 1
    BY <2>2
  <2>4. ChannelOnce'
    BY <1>1, <2>1, <2>2, <2>3 DEF ChannelOnce, walVars, InHand, WALP!Holds
  <2>5. EarlyIsNowhere'
    BY <2>1, <2>2, <2>3 DEF InChannel, InHand, walVars, WALP!Holds
  <2>6. HandOnce' /\ WALP!DeliverInv'
    BY <2>1 DEF walVars, HandOnce, WALP!Holds, WALP!DeliverInv,
                WALP!FileOnce, WALP!Undelivered, WALP!PendingOnce, WALP!RedeliveryBounded, WALP!Free
  <2> QED
    BY <2>4, <2>5, <2>6
<1>4. CASE EnqueueSpill(e)
  <2>1. /\ WALP!AppendEvent(e) /\ UNCHANGED <<ch, wpc, job>>
        /\ \A x \in Events : Early(x)' => Early(x) /\ x # e
    BY <1>0, <1>4, SameLog DEF EnqueueSpill
  <2>2. WALP!DeliverInv'
    BY <1>0, <1>1, <2>1, Instances, WALP!AppendDelivers
  <2>3. /\ UNCHANGED <<copies, slips>>
        /\ \A x \in Events \ {e} : WALP!Holds(file', x) <=> WALP!Holds(file, x)
    BY <1>0, <2>1, Instances, WALP!AppendAdds
  <2>4. ChannelOnce'
    BY <1>0, <1>1, <2>1, <2>3 DEF ChannelOnce, InChannel, InHand
  <2>5. HandOnce'
    <3>1. \A w \in Workers : job[w] # None => job[w] \in Events \ {e}
      BY <1>0, <1>1 DEF InHand
    <3> QED
      BY <2>1, <2>3, <3>1 DEF HandOnce
  <2>6. EarlyIsNowhere'
    BY <2>1, <2>3 DEF InChannel, InHand
  <2> QED
    BY <2>2, <2>4, <2>5, <2>6
<1> QED
  BY <1>2, <1>3, <1>4 DEF Enqueue

\* What does not touch the log keeps what Replay relies on.
LEMMA DeliverStays ==
    ASSUME WALP!DeliverInv, UNCHANGED walVars
    PROVE  WALP!DeliverInv' /\ \A e : WALP!Holds(file', e) <=> WALP!Holds(file, e)
  BY DEF walVars, WALP!Holds, WALP!DeliverInv, WALP!FileOnce, WALP!Undelivered, WALP!PendingOnce,
         WALP!RedeliveryBounded, WALP!Free

\* Of an event only one worker has, no replay and no other worker disposes.
LEMMA WorkStep ==
    ASSUME TypeInv, PlaceInv, NEW w \in Workers, Work(w)
    PROVE  PlaceInv'
<1> USE DEF WorkerGoto, Forget
<1>0. /\ hpc \in [Events -> HandlerStates] /\ WALP!TypeOK /\ ch \in Seq(Events)
      /\ wpc \in [Workers -> WorkerStates]
      /\ job \in [Workers -> Events \cup {None}] /\ slips \in Nat /\ copies \in [Events -> Nat]
      /\ \A v \in Workers : job[v] = None <=> wpc[v] \in {"recv", "exited"}
      /\ None \notin Events
  BY SameLog, QueueAssumption DEF TypeInv, TypeOK, WALP!TypeOK
<1>i. EarlyIsNowhere /\ ChannelOnce /\ HandOnce /\ WALP!DeliverInv
  BY DEF PlaceInv
<1>h. hpc' = hpc
  BY DEF Work, Receive, WorkerExit, AskBreaker, Granted, Denied, WriteStores, WriteFails,
         WriteSucceeded, WriteFailed, Trip, Tripped, WorkerSpill
<1>e. \A x \in Events : Early(x)' <=> Early(x)
  BY <1>h DEF Early
<1>1. CASE Receive(w)
  <2>1. /\ ch # <<>> /\ wpc[w] = "recv" /\ job' = [job EXCEPT ![w] = Head(ch)] /\ ch' = Tail(ch)
        /\ wpc' = [wpc EXCEPT ![w] = "holding"] /\ UNCHANGED walVars
    BY <1>1 DEF Receive
  <2> DEFINE h == Head(ch)
  <2>2. /\ Len(ch) \in Nat /\ 1 \in DOMAIN ch /\ h = ch[1] /\ h \in Events
        /\ \A i \in DOMAIN ch' : i + 1 \in DOMAIN ch /\ ch'[i] = ch[i + 1] /\ i \in Nat /\ i # 0
    BY <1>0, <2>1
  <2>3. ~ InHand(h) /\ ~ WALP!Holds(file, h) /\ copies[h] = 0
    BY <1>i, <2>2 DEF ChannelOnce
  <2>4. /\ job'[w] = h /\ job[w] = None
        /\ \A v \in Workers \ {w} : job'[v] = job[v] /\ job[v] # h
    BY <1>0, <2>1, <2>3 DEF InHand
  <2>5. /\ WALP!DeliverInv' /\ \A x : WALP!Holds(file', x) <=> WALP!Holds(file, x)
        /\ copies' = copies /\ slips' = slips
    BY <1>i, <2>1, DeliverStays DEF walVars
  <2>6. ChannelOnce'
    <3>1. \A i \in DOMAIN ch' : ch'[i] # h
      BY <1>i, <2>2 DEF ChannelOnce
    <3>2. ASSUME NEW i \in DOMAIN ch', NEW v \in Workers PROVE job'[v] # ch'[i]
      <4>1. i + 1 \in DOMAIN ch /\ ch'[i] = ch[i + 1]
        BY <2>2
      <4>2. job[v] # ch'[i]
        BY <1>i, <4>1 DEF ChannelOnce, InHand
      <4> QED
        BY <2>4, <3>1, <4>2
    <3>3. \A i, j \in DOMAIN ch' : ch'[i] = ch'[j] => i + 1 = j + 1
      BY <1>i, <2>2 DEF ChannelOnce
    <3>4. \A i, j \in DOMAIN ch' : ch'[i] = ch'[j] => i = j
      BY <2>2, <3>3
    <3>5. ASSUME NEW i \in DOMAIN ch'
          PROVE  ~ WALP!Holds(file', ch'[i]) /\ copies'[ch'[i]] = 0
      <4>1. i + 1 \in DOMAIN ch /\ ch'[i] = ch[i + 1]
        BY <2>2
      <4> QED
        BY <1>i, <2>5, <4>1 DEF ChannelOnce
    <3> HIDE DEF h
    <3> QED
      BY <3>2, <3>4, <3>5 DEF ChannelOnce, InHand
  <2>7. HandOnce'
    <3>1. wpc'[w] = "holding" /\ \A v \in Workers \ {w} : wpc'[v] = wpc[v]
      BY <1>0, <2>1
    <3> QED
      BY <1>i, <2>3, <2>4, <2>5, <3>1 DEF HandOnce
  <2>8. EarlyIsNowhere'
    <3>1. \A x \in Events : InHand(x)' => InHand(x) \/ InChannel(x)
      BY <2>2, <2>4 DEF InHand, InChannel
    <3>2. \A x \in Events : InChannel(x)' => InChannel(x)
      BY <2>2 DEF InChannel
    <3> QED
      BY <1>e, <1>i, <2>5, <3>1, <3>2 DEF EarlyIsNowhere, Nowhere
  <2> QED
    BY <2>5, <2>6, <2>7, <2>8 DEF PlaceInv
<1>2. ASSUME UNCHANGED <<walVars, ch>>,
             job'= job \/ job' = [job EXCEPT ![w] = None],
             NEW l \in WorkerStates, wpc' = [wpc EXCEPT ![w] = l],
             job'[w] # None =>
               /\ l \in {"holding", "writing"} => copies[job[w]] = 0
               /\ l = "stored" => copies[job[w]] > 0
               /\ l \in {"failed", "failing", "spill"} => copies[job[w]] <= slips
      PROVE  PlaceInv'
  <2>1. /\ \A v \in Workers : job'[v] = job[v] \/ job'[v] = None
        /\ wpc'[w] = l /\ \A v \in Workers \ {w} : wpc'[v] = wpc[v]
    BY <1>0, <1>2
  <2>2. /\ WALP!DeliverInv' /\ \A x : WALP!Holds(file', x) <=> WALP!Holds(file, x)
        /\ copies' = copies /\ slips' = slips /\ ch' = ch
    BY <1>2, <1>i, DeliverStays DEF walVars
  <2>3. \A x \in Events : InHand(x)' => InHand(x)
    BY <1>0, <2>1 DEF InHand
  <2>4. HandOnce'
    BY <1>2, <1>i, <2>1, <2>2 DEF HandOnce
  <2>5. ChannelOnce'
    BY <1>0, <1>i, <2>2, <2>3 DEF ChannelOnce
  <2>6. EarlyIsNowhere'
    BY <1>e, <1>i, <2>2, <2>3 DEF EarlyIsNowhere, Nowhere, InChannel
  <2> QED
    BY <2>2, <2>4, <2>5, <2>6 DEF PlaceInv
<1>3. CASE WorkerExit(w)
  BY <1>0, <1>2, <1>3 DEF WorkerExit, WorkerStates
<1>4. CASE AskBreaker(w) \/ Trip(w)
  <2>1. UNCHANGED <<walVars, ch, wpc, job>>
    BY <1>4 DEF AskBreaker, Trip
  <2> QED
    BY <1>e, <1>i, <2>1, DeliverStays
       DEF walVars, PlaceInv, EarlyIsNowhere, Nowhere, ChannelOnce, HandOnce, InChannel, InHand
<1>5. CASE Granted(w) \/ Denied(w)
  <2>1. wpc[w] = "holding"
    BY <1>5 DEF Granted, Denied, CB!AllowGrant, CB!AllowDeny, TypeInv, PlaceInLoop
  <2>2. job[w] # None => copies[job[w]] = 0
    BY <1>i, <2>1 DEF HandOnce
  <2>3. \E l \in {"writing", "spill"} : wpc' = [wpc EXCEPT ![w] = l]
    BY <1>5 DEF Granted, Denied
  <2>4. UNCHANGED <<walVars, ch, job>>
    BY <1>5 DEF Granted, Denied
  <2>5. PICK l \in {"writing", "spill"} : wpc' = [wpc EXCEPT ![w] = l]
    BY <2>3
  <2>6. l \in WorkerStates /\ job' = job
    BY <2>4, <2>5 DEF WorkerStates
  <2>7. job[w] # None => copies[job[w]] <= slips
    BY <1>0, <2>2
  <2> QED
    BY <1>2, <2>2, <2>4, <2>5, <2>6, <2>7
<1>6. CASE WriteFailed(w) \/ Tripped(w)
  <2>1. wpc[w] \in {"failed", "failing"}
    BY <1>6 DEF WriteFailed, Tripped
  <2>2. job[w] # None => copies[job[w]] <= slips
    BY <1>i, <2>1 DEF HandOnce
  <2>3. \E l \in {"failing", "spill"} : wpc' = [wpc EXCEPT ![w] = l]
    BY <1>6 DEF WriteFailed, Tripped
  <2>4. UNCHANGED <<walVars, ch, job>>
    BY <1>6 DEF WriteFailed, Tripped
  <2> QED
    BY <1>0, <1>2, <2>2, <2>3, <2>4 DEF WorkerStates
<1>7. CASE WriteSucceeded(w)
  <2>1. /\ UNCHANGED <<walVars, ch>> /\ job' = [job EXCEPT ![w] = None]
        /\ wpc' = [wpc EXCEPT ![w] = "recv"]
    BY <1>7 DEF WriteSucceeded
  <2> QED
    BY <1>0, <1>2, <2>1 DEF WorkerStates
<1>8. CASE WriteStores(w) \/ WriteFails(w)
  <2>1. /\ wpc[w] = "writing" /\ Wrote(job[w]) /\ UNCHANGED <<ch, job>>
        /\ \E l \in {"stored", "failed"} : wpc' = [wpc EXCEPT ![w] = l]
        /\ wpc'[w] = "stored" => WALP!Stored(job[w])
        /\ wpc'[w] = "failed" =>
             UNCHANGED <<copies, slips>> \/ (WALP!Stored(job[w]) /\ slips' = slips + 1)
    <3>1. wpc \in [Workers -> WorkerStates]
      BY <1>0
    <3>2. CASE WriteStores(w)
      <4>1. wpc' = [wpc EXCEPT ![w] = "stored"] /\ wpc'[w] = "stored"
        BY <3>1, <3>2 DEF WriteStores
      <4> QED
        BY <3>2, <4>1 DEF WriteStores, Wrote, WAL!Stored, WALP!Stored
    <3>3. CASE WriteFails(w)
      <4>1. wpc' = [wpc EXCEPT ![w] = "failed"] /\ wpc'[w] = "failed"
        BY <3>1, <3>3 DEF WriteFails
      <4> QED
        BY <3>3, <4>1 DEF WriteFails, Wrote, WAL!Stored, WALP!Stored, WAL!Slip, WALP!Slip
    <3> QED
      BY <1>8, <3>2, <3>3
  <2> DEFINE e == job[w]
  <2>2. e \in Events /\ copies[e] = 0 /\ ~ WALP!Holds(file, e)
    BY <1>0, <1>i, <2>1 DEF HandOnce
  <2>3. /\ WALP!DeliverInv' /\ \A x : WALP!Holds(file', x) <=> WALP!Holds(file, x)
    BY <1>0, <1>i, <2>1, <2>2, WroteDelivers DEF Wrote, WALP!Holds
  <2>4. \A x \in Events \ {e} : copies'[x] = copies[x]
    BY <1>0, <2>1, <2>2 DEF Wrote, WALP!Stored
  <2>5. slips' >= slips /\ slips' \in Nat
    BY <1>0, <2>1 DEF Wrote, WALP!Slip
  <2>6. \A x \in Events : InHand(x)' <=> InHand(x)
    BY <2>1 DEF InHand
  <2>7. ChannelOnce'
    <3>1. \A i \in DOMAIN ch : ch[i] \in Events \ {e}
      BY <1>0, <1>i DEF ChannelOnce, InHand
    <3>2. ch' = ch
      BY <2>1
    <3> QED
      BY <1>i, <2>3, <2>4, <2>6, <3>1, <3>2 DEF ChannelOnce
  <2>8. EarlyIsNowhere'
    <3>1. \A x \in Events : Early(x) => x # e
      BY <1>i DEF EarlyIsNowhere, Nowhere, InHand
    <3> QED
      BY <1>e, <1>i, <2>1, <2>3, <2>4, <2>6, <3>1 DEF EarlyIsNowhere, Nowhere, InChannel
  <2>9. HandOnce'
    <3>1. \A v \in Workers \ {w} : job[v] # None => job[v] \in Events \ {e}
      BY <1>0, <1>i, <2>2 DEF HandOnce
    <3>2. \A v \in Workers \ {w} : wpc'[v] = wpc[v]
      BY <1>0, <2>1
    <3>3. \A v \in Workers \ {w} : job'[v] # None =>
              /\ ~ WALP!Holds(file', job'[v])
              /\ wpc'[v] \in {"holding", "writing"} => copies'[job'[v]] = 0
              /\ wpc'[v] = "stored" => copies'[job'[v]] > 0
      BY <1>i, <2>1, <2>3, <2>4, <3>1, <3>2 DEF HandOnce
    <3>4. \A v \in Workers \ {w} : job'[v] # None =>
              (wpc'[v] \in {"failed", "failing", "spill"} => copies'[job'[v]] <= slips')
      <4>1. \A v \in Workers \ {w} : job[v] # None =>
              (wpc[v] \in {"failed", "failing", "spill"} => copies[job[v]] <= slips)
        BY <1>i DEF HandOnce
      <4>2. \A x \in Events : copies[x] \in Nat
        BY <1>0
      <4> QED
        BY <1>0, <2>1, <2>4, <2>5, <3>1, <3>2, <4>1, <4>2
    <3>5. /\ wpc'[w] \in {"stored", "failed"} /\ job' = job
          /\ wpc'[w] = "stored" => copies'[e] > 0
          /\ wpc'[w] = "failed" => copies'[e] <= slips'
      <4>1. wpc'[w] \in {"stored", "failed"} /\ job' = job
        BY <1>0, <2>1
      <4>2. WALP!Stored(e) => copies'[e] = 1
        BY <1>0, <2>2 DEF WALP!Stored
      <4> QED
        BY <1>0, <2>1, <2>2, <4>1, <4>2
    <3>6. \A u, v \in Workers : job'[u] = job'[v] /\ job'[u] # None => u = v
      BY <1>i, <3>5 DEF HandOnce
    <3> QED
      BY <2>2, <2>3, <3>3, <3>4, <3>5, <3>6 DEF HandOnce
  <2> QED
    BY <2>3, <2>7, <2>8, <2>9 DEF PlaceInv
<1>9. CASE WorkerSpill(w)
  <2> DEFINE e == job[w]
  <2>1. /\ e \in Events /\ WALP!AppendEvent(e) /\ ch' = ch
        /\ job' = [job EXCEPT ![w] = None] /\ wpc' = [wpc EXCEPT ![w] = "recv"]
        /\ wpc[w] = "spill"
    <3>1. e \in Events
      BY <1>0, <1>9 DEF WorkerSpill
    <3> QED
      BY <1>9, <3>1, SameLog DEF WorkerSpill
  <2>2. copies[e] <= slips /\ ~ WALP!Holds(file, e)
    BY <1>0, <1>i, <2>1 DEF HandOnce
  <2>3. WALP!DeliverInv'
    BY <1>0, <1>i, <2>1, <2>2, Instances, WALP!AppendDelivers
  <2>4. /\ UNCHANGED <<copies, slips>>
        /\ \A x \in Events \ {e} : WALP!Holds(file', x) <=> WALP!Holds(file, x)
    BY <1>0, <2>1, Instances, WALP!AppendAdds
  <2>5. /\ job'[w] = None
        /\ \A v \in Workers \ {w} : /\ job'[v] = job[v] /\ wpc'[v] = wpc[v]
                                    /\ job[v] # None => job[v] \in Events \ {e}
    BY <1>0, <1>i, <2>1 DEF HandOnce
  <2>6. HandOnce'
    BY <1>i, <2>4, <2>5 DEF HandOnce
  <2>7. \A x \in Events : InHand(x)' => InHand(x)
    BY <1>0, <2>5 DEF InHand
  <2>8. ChannelOnce'
    <3>1. \A i \in DOMAIN ch : ch[i] \in Events \ {e}
      BY <1>0, <1>i DEF ChannelOnce, InHand
    <3> QED
      BY <1>i, <2>1, <2>4, <2>7, <3>1 DEF ChannelOnce
  <2>9. EarlyIsNowhere'
    <3>1. \A x \in Events : Early(x) => x # e
      BY <1>i DEF EarlyIsNowhere, Nowhere, InHand
    <3> QED
      BY <1>e, <1>i, <2>1, <2>4, <2>7, <3>1 DEF EarlyIsNowhere, Nowhere, InChannel
  <2> QED
    BY <2>3, <2>6, <2>8, <2>9 DEF PlaceInv
<1> QED
  BY <1>1, <1>3, <1>4, <1>5, <1>6, <1>7, <1>8, <1>9 DEF Work

\* A replay, and the end of the process, touch only events that are in the file.
LEMMA ReplaysStay ==
    ASSUME TypeInv, PlaceInv, Replays \/ UNCHANGED walVars
    PROVE  /\ WALP!DeliverInv' /\ slips' >= slips
           /\ \A e \in Events : ~ WALP!Holds(file, e) =>
                 ~ WALP!Holds(file', e) /\ copies'[e] = copies[e] /\ answer'[e] = answer[e]
<1>0. WALP!TypeOK /\ WALP!DeliverInv /\ slips \in Nat
  BY SameLog, QueueAssumption DEF TypeInv, TypeOK, PlaceInv, WALP!TypeOK
<1>1. CASE Replays
  <2>1. slips' >= slips
    BY <1>0, <1>1
       DEF Replays, WALP!ReplayBegin, WALP!ReplayStep, WALP!ReplaySkip, WALP!ReplayAck,
           WALP!ReplayRefused, WALP!ReplayWriteTmp, WALP!ReplayFinish, WALP!ReplayError,
           WALP!Crash, WALP!Slip
  <2>2. WALP!DeliverInv'
    BY <1>0, <1>1, Instances, WALP!ReplayDelivers DEF Replays
  <2>3. \A e \in Events : ~ WALP!Holds(file, e) =>
           answer' = answer /\ ~ WALP!Holds(file', e) /\ copies'[e] = copies[e]
    BY <1>0, <1>1, Instances, WALP!OnlyFromFile DEF Replays
  <2> QED
    BY <2>1, <2>2, <2>3
<1>2. CASE UNCHANGED walVars
  BY <1>0, <1>2, DeliverStays DEF walVars
<1> QED
  BY <1>1, <1>2

LEMMA MainStep ==
    ASSUME TypeInv, PlaceInv,
           \/ Main \/ Signal \/ Crash \/ Boot \/ Tick \/ UNCHANGED vars
    PROVE  PlaceInv'
<1>0. /\ copies \in [Events -> Nat] /\ slips \in Nat /\ ch \in Seq(Events)
      /\ job \in [Workers -> Events \cup {None}] /\ WALP!TypeOK
  BY SameLog, QueueAssumption DEF TypeInv, TypeOK, WALP!TypeOK
<1>i. EarlyIsNowhere /\ ChannelOnce /\ HandOnce
  BY DEF PlaceInv
<1>l. Replays \/ UNCHANGED walVars
  BY SameLog DEF Main, StartReplay, Replay, CloseSwap, CloseChannel, MainReturns, Signal, Crash,
                 Boot, Tick, vars, walVars
<1>s. /\ WALP!DeliverInv' /\ slips' >= slips /\ slips' \in Nat
      /\ \A e \in Events : ~ WALP!Holds(file, e) =>
            ~ WALP!Holds(file', e) /\ copies'[e] = copies[e]
  <2>1. slips' \in Nat
    BY <1>0, <1>l
       DEF walVars, Replays, WALP!ReplayBegin, WALP!ReplayStep, WALP!ReplaySkip, WALP!ReplayAck,
           WALP!ReplayRefused, WALP!ReplayWriteTmp, WALP!ReplayFinish, WALP!ReplayError,
           WALP!Crash, WALP!Slip
  <2> QED
    BY <1>l, <2>1, ReplaysStay
<1>1. ASSUME UNCHANGED <<ch, hpc, wpc, job>> PROVE PlaceInv'
  <2>1. \A x \in Events : (Early(x)' <=> Early(x)) /\ (InChannel(x)' <=> InChannel(x))
                          /\ (InHand(x)' <=> InHand(x))
    BY <1>1 DEF Early, InChannel, InHand
  <2>2. EarlyIsNowhere'
    BY <1>i, <1>s, <2>1 DEF EarlyIsNowhere, Nowhere
  <2>3. ChannelOnce'
    <3>1. \A i \in DOMAIN ch : ch[i] \in Events
      BY <1>0
    <3> QED
      BY <1>1, <1>i, <1>s, <2>1, <3>1 DEF ChannelOnce
  <2>4. HandOnce'
    <3>1. \A w \in Workers : job[w] # None =>
              ~ WALP!Holds(file', job[w]) /\ copies'[job[w]] = copies[job[w]] /\ copies[job[w]] \in Nat
      BY <1>0, <1>i, <1>s DEF HandOnce
    <3> QED
      BY <1>0, <1>1, <1>i, <1>s, <3>1 DEF HandOnce
  <2> QED
    BY <1>s, <2>2, <2>3, <2>4 DEF PlaceInv
<1>2. CASE MainReturns \/ Crash
  <2>1. /\ ch' = <<>> /\ job' = [w \in Workers |-> None]
        /\ hpc' = [e \in Events |-> IF InMemory(e) /\ ~ WAL!Safe(e) THEN "gone" ELSE hpc[e]]
    BY <1>2 DEF MainReturns, Crash, ProcessEnds
  <2>2. DOMAIN ch' = {} /\ \A w \in Workers : job'[w] = None
    BY <2>1
  <2>3. ASSUME NEW e \in Events, Early(e)' PROVE Nowhere(e)
    <3>1. hpc'[e] = hpc[e] /\ Early(e)
      BY <2>1, <2>3 DEF Early, Handling
    <3> QED
      BY <1>i, <3>1 DEF EarlyIsNowhere
  <2>4. EarlyIsNowhere'
    BY <1>s, <2>2, <2>3, QueueAssumption DEF EarlyIsNowhere, Nowhere, InChannel, InHand
  <2> QED
    BY <1>s, <2>2, <2>4 DEF PlaceInv, ChannelOnce, HandOnce
<1>3. CASE StartReplay \/ Replay \/ CloseSwap \/ CloseChannel \/ Signal \/ Boot \/ Tick
  BY <1>1, <1>3 DEF StartReplay, Replay, CloseSwap, CloseChannel, Signal, Boot, Tick
<1>4. CASE UNCHANGED vars
  BY <1>1, <1>4 DEF vars
<1> QED
  BY <1>2, <1>3, <1>4 DEF Main

\* Through the live path, the spill, the replay and restarts, an event that has
\* not been delivered is in one place.
LEMMA PlacesHold == Spec => []PlaceInv
<1>1. Init => PlaceInv
  <2> SUFFICES ASSUME Init PROVE PlaceInv
    OBVIOUS
  <2>1. /\ file = <<>> /\ DOMAIN file = {} /\ copies = [e \in Events |-> 0] /\ rpc = "off"
        /\ slips = 0
    BY DEF Init, WAL!Init
  <2>2. ch = <<>> /\ DOMAIN ch = {} /\ job = [w \in Workers |-> None]
    BY DEF Init
  <2>3. WALP!DeliverInv
    BY <2>1 DEF WALP!DeliverInv, WALP!FileOnce, WALP!Undelivered, WALP!PendingOnce,
                WALP!RedeliveryBounded
  <2>4. EarlyIsNowhere
    BY <2>1, <2>2, QueueAssumption DEF EarlyIsNowhere, Nowhere, InChannel, InHand, WALP!Holds
  <2> QED
    BY <2>2, <2>3, <2>4 DEF PlaceInv, ChannelOnce, HandOnce
<1>2. TypeInv /\ PlaceInv /\ [Next]_vars => PlaceInv'
  BY EnqueueStep, WorkStep, MainStep DEF Next
<1> QED
  BY <1>1, <1>2, TypesHold, PTL DEF Spec

\* No event is in two of the channel, the workers' hands and the log, or in one
\* of them twice: it is never both written and spilled by two goroutines.
THEOREM HeldInOnePlace == Spec => []HeldOnce
<1>1. TypeInv /\ PlaceInv => HeldOnce
  <2> SUFFICES ASSUME TypeInv, PlaceInv, NEW e \in Events PROVE Cardinality(Places(e)) <= 1
    BY DEF HeldOnce
  <2>1. \A p, q \in Places(e) : p = q
    <3>1. \A i, j \in DOMAIN ch : ch[i] = e /\ ch[j] = e => i = j
      BY DEF PlaceInv, ChannelOnce
    <3>2. \A v, w \in Workers : job[v] = e /\ job[w] = e => v = w
      BY QueueAssumption DEF PlaceInv, HandOnce
    <3>3. \A i, j \in DOMAIN file : file[i].event = e /\ file[j].event = e => i = j
      BY DEF PlaceInv, WALP!DeliverInv, WALP!FileOnce
    <3>4. \A i \in DOMAIN ch : ch[i] = e => ~ InHand(e) /\ ~ WALP!Holds(file, e)
      BY DEF PlaceInv, ChannelOnce
    <3>5. InHand(e) => ~ WALP!Holds(file, e)
      BY QueueAssumption DEF PlaceInv, HandOnce, InHand
    <3> QED
      BY <3>1, <3>2, <3>3, <3>4, <3>5 DEF Places, InHand, WALP!Holds
  <2>2. CASE Places(e) = {}
    BY <2>2, FS_EmptySet
  <2>3. CASE Places(e) # {}
    <3>1. PICK p : p \in Places(e)
      BY <2>3
    <3>2. Places(e) = {p}
      BY <2>1, <3>1
    <3>3. Cardinality({p}) = 1
      BY FS_Singleton
    <3> QED
      BY <3>2, <3>3
  <2> QED
    BY <2>2, <2>3
<1> QED
  BY <1>1, TypesHold, PlacesHold, PTL

\* Across the live path, the spill, the replay and restarts, the sink stores an
\* event again only after a replay was interrupted, the process crashed, or a
\* write failed after having stored it.
THEOREM RedeliveredOnlyAfterSlips == Spec => []RedeliveryBounded
<1>1. PlaceInv => RedeliveryBounded
  BY DEF PlaceInv, WALP!DeliverInv, WALP!RedeliveryBounded, RedeliveryBounded, WAL!RedeliveryBounded
<1> QED
  BY <1>1, PlacesHold, PTL

-----------------------------------------------------------------------------
\* The sink forgets nothing, and Append's answers stay.
LEMMA OnlyMore ==
    ASSUME TypeInv, [Next]_vars, NEW e \in Events
    PROVE  (copies[e] > 0 => copies'[e] > 0) /\ (answer[e] # "none" => answer'[e] # "none")
<1>0. /\ WALP!TypeOK /\ TypeOK /\ copies \in [Events -> Nat]
      /\ answer \in [Events -> {"none", "nil", "err"}]
  BY SameLog DEF TypeInv, TypeOK, WALP!TypeOK
<1>1. ASSUME NEW x \in Events, WALP!AppendEvent(x)
      PROVE  (copies[e] > 0 => copies'[e] > 0) /\ (answer[e] # "none" => answer'[e] # "none")
  BY <1>0, <1>1
     DEF WALP!AppendEvent, WALP!AppendLine, WALP!AppendFails, WALP!AppendTears, WALP!Answered
<1>2. ASSUME NEW x \in Events, copies' = copies \/ WALP!Stored(x), answer' = answer
      PROVE  (copies[e] > 0 => copies'[e] > 0) /\ (answer[e] # "none" => answer'[e] # "none")
  BY <1>0, <1>2 DEF WALP!Stored
<1>3. ASSUME NEW w \in Workers, wpc[w] = "writing", Wrote(job[w])
      PROVE  (copies[e] > 0 => copies'[e] > 0) /\ (answer[e] # "none" => answer'[e] # "none")
  <2>1. job[w] \in Events
    BY <1>0, <1>3, Holder
  <2> QED
    BY <1>2, <1>3, <2>1 DEF Wrote
<1>4. CASE WALP!ReplayAck \/ WALP!ReplayRefused
  <2>1. pos + 1 \in 1..Len(file) /\ file \in Seq(WALP!Record)
    BY <1>0, <1>4 DEF WALP!ReplayAck, WALP!ReplayRefused, WALP!More, WALP!TypeOK
  <2>2. file[pos + 1] \in WALP!Record
    BY <2>1
  <2>3. WALP!NextRecord.event \in Events
    BY <2>2, Instances, WALP!Records DEF WALP!NextRecord
  <2> QED
    BY <1>2, <1>4, <2>3 DEF WALP!ReplayAck, WALP!ReplayRefused
<1>5. CASE UNCHANGED <<copies, answer>>
  BY <1>5
<1> QED
  BY <1>0, <1>1, <1>3, <1>4, <1>5, LogStep
     DEF Replays, walVars, WALP!ReplayBegin, WALP!ReplayStep, WALP!ReplaySkip,
         WALP!ReplayWriteTmp, WALP!ReplayFinish, WALP!ReplayError, WALP!Crash

\* What Replay relies on is not disturbed by the workers' own writes.
LEMMA KeepsStep == ASSUME TypeInv, WALP!KeepInv, [Next]_vars PROVE WALP!KeepInv'
<1>0. WALP!TypeOK /\ TypeOK
  BY SameLog DEF TypeInv, TypeOK
<1>1. ASSUME \/ \E e \in Events : WALP!AppendEvent(e)
             \/ Replays
             \/ UNCHANGED walVars
      PROVE  WALP!KeepInv'
  <2>1. [WALP!Next]_walVars
    BY <1>1 DEF Replays, WALP!Next
  <2> QED
    BY <1>0, <2>1, Instances, WALP!KeepStep DEF walVars, WALP!walVars
<1>2. ASSUME NEW w \in Workers, wpc[w] = "writing", Wrote(job[w]) PROVE WALP!KeepInv'
  <2>1. /\ UNCHANGED <<file, answer, torn, rpc, pos, acked, pending>>
        /\ \A e \in Events : copies[e] > 0 => copies'[e] > 0
    BY <1>2, OnlyMore DEF Wrote
  <2>2. rpc # "off" => \A i \in 1..pos : file[i].event \in Events
    <3>1. file \in Seq(WALP!Record) /\ (rpc # "off" => pos \in Nat /\ pos <= Len(file))
      BY <1>0 DEF WALP!TypeOK, WALP!Free
    <3>2. \A i \in 1..Len(file) : file[i] \in WALP!Record
      BY <3>1
    <3>3. \A i \in 1..Len(file) : file[i].event \in Events
      BY <3>2, Instances, WALP!Records
    <3> QED
      BY <3>1, <3>3
  <2>3. WALP!AnsweredAreKept => WALP!AnsweredAreKept'
    BY <2>1 DEF WALP!AnsweredAreKept, WALP!Holds
  <2>4. WALP!ReplayKeeps => WALP!ReplayKeeps'
    BY <2>1, <2>2 DEF WALP!ReplayKeeps, WALP!ReadAreKept, WALP!Holds, WALP!AllWhole
  <2> QED
    BY <2>1, <2>3, <2>4 DEF WALP!KeepInv, WALP!AllWhole
<1> QED
  BY <1>0, <1>1, <1>2, LogStep

\* An event that Enqueue has returned for leaves the channel and the workers'
\* hands only for the sink or with an answer of Append.
LEMMA TracedStep == ASSUME TypeInv, PlaceInv, Traced, [Next]_vars PROVE Traced'
<1> USE DEF HandlerGoto, WorkerGoto, Forget
<1>0. /\ hpc \in [Events -> HandlerStates] /\ ch \in Seq(Events) /\ WALP!TypeOK
      /\ wpc \in [Workers -> WorkerStates] /\ copies \in [Events -> Nat]
      /\ job \in [Workers -> Events \cup {None}] /\ None \notin Events
      /\ answer \in [Events -> {"none", "nil", "err"}]
  BY SameLog, QueueAssumption DEF TypeInv, TypeOK, WALP!TypeOK
<1> DEFINE Done(e) == copies[e] > 0 \/ answer[e] # "none"
<1>m. \A e \in Events : Done(e) => Done(e)'
  BY OnlyMore
<1>1. ASSUME NEW e \in Events, hpc'[e] \in {"queued", "logged"} => hpc[e] = hpc'[e] \/ Done(e)',
             InChannel(e) \/ InHand(e) => InChannel(e)' \/ InHand(e)' \/ Done(e)'
      PROVE  hpc'[e] \in {"queued", "logged"} => InChannel(e)' \/ InHand(e)' \/ Done(e)'
  BY <1>1, <1>m DEF Traced
<1>2. ASSUME UNCHANGED <<ch, hpc, job>> PROVE Traced'
  <2>1. \A e \in Events : (InChannel(e)' <=> InChannel(e)) /\ (InHand(e)' <=> InHand(e))
    BY <1>2 DEF InChannel, InHand
  <2> QED
    BY <1>m, <1>2, <2>1 DEF Traced
<1>3. ASSUME NEW x \in Events, Arrive(x) \/ Enqueue(x) PROVE Traced'
  <2>1. CASE EnqueueSend(x)
    <3>1. /\ ch' = Append(ch, x) /\ job' = job /\ hpc' = [hpc EXCEPT ![x] = "queued"]
      BY <2>1 DEF EnqueueSend
    <3>2. /\ \A i \in DOMAIN ch : i \in DOMAIN ch' /\ ch'[i] = ch[i]
          /\ Len(ch) + 1 \in DOMAIN ch' /\ ch'[Len(ch) + 1] = x
      BY <1>0, <3>1, WALP!Appended
    <3>3. InChannel(x)' /\ \A e \in Events : (InChannel(e) => InChannel(e)') /\ (InHand(e) => InHand(e)')
      BY <3>1, <3>2 DEF InChannel, InHand
    <3>4. \A e \in Events \ {x} : hpc'[e] = hpc[e]
      BY <1>0, <3>1
    <3> QED
      BY <1>m, <3>3, <3>4 DEF Traced
  <2>2. CASE EnqueueSpill(x)
    <3>1. answer'[x] # "none"
      BY <1>0, <2>2, SameLog, Instances, WALP!AppendAdds DEF EnqueueSpill
    <3>2. UNCHANGED <<ch, job>> /\ \A e \in Events \ {x} : hpc'[e] = hpc[e]
      BY <1>0, <2>2 DEF EnqueueSpill
    <3>3. \A e \in Events : (InChannel(e)' <=> InChannel(e)) /\ (InHand(e)' <=> InHand(e))
      BY <3>2 DEF InChannel, InHand
    <3> QED
      BY <1>m, <3>1, <3>2, <3>3 DEF Traced
  <2>3. CASE Arrive(x) \/ EnqueueCheck(x) \/ EnqueueFull(x) \/ EnqueuePanic(x)
    <3>1. UNCHANGED <<ch, job>> /\ hpc'[x] \notin {"queued", "logged"}
          /\ \A e \in Events \ {x} : hpc'[e] = hpc[e]
      BY <1>0, <2>3 DEF Arrive, EnqueueCheck, EnqueueFull, EnqueuePanic
    <3>2. \A e \in Events : (InChannel(e)' <=> InChannel(e)) /\ (InHand(e)' <=> InHand(e))
      BY <3>1 DEF InChannel, InHand
    <3> QED
      BY <1>m, <3>1, <3>2 DEF Traced
  <2> QED
    BY <1>3, <2>1, <2>2, <2>3 DEF Enqueue
<1>4. ASSUME NEW w \in Workers, Work(w) PROVE Traced'
  <2>0. hpc' = hpc
    BY <1>4 DEF Work, Receive, WorkerExit, AskBreaker, Granted, Denied, WriteStores, WriteFails,
                WriteSucceeded, WriteFailed, Trip, Tripped, WorkerSpill
  <2>1. CASE Receive(w)
    <3>1. /\ ch # <<>> /\ job[w] = None /\ job' = [job EXCEPT ![w] = Head(ch)] /\ ch' = Tail(ch)
      BY <2>1 DEF Receive, TypeInv, TypeOK
    <3>2. /\ Head(ch) = ch[1] /\ Len(ch) \in Nat
          /\ \A i \in DOMAIN ch : i = 1 \/ (i - 1 \in DOMAIN ch' /\ ch'[i - 1] = ch[i])
      BY <1>0, <3>1
    <3>3. job'[w] = ch[1] /\ \A v \in Workers : job[v] # None => job'[v] = job[v]
      BY <1>0, <3>1, <3>2
    <3>4. \A e \in Events : InChannel(e) \/ InHand(e) => InChannel(e)' \/ InHand(e)'
      <4>1. ASSUME NEW e \in Events, NEW i \in DOMAIN ch, ch[i] = e
            PROVE  InChannel(e)' \/ InHand(e)'
        <5>1. CASE i = 1
          BY <3>3, <4>1, <5>1 DEF InHand
        <5>2. CASE i - 1 \in DOMAIN ch' /\ ch'[i - 1] = ch[i]
          BY <4>1, <5>2 DEF InChannel
        <5> QED
          BY <3>2, <5>1, <5>2
      <4>2. \A e \in Events : InHand(e) => InHand(e)'
        BY <1>0, <3>3 DEF InHand
      <4> QED
        BY <4>1, <4>2 DEF InChannel
    <3> QED
      BY <1>m, <2>0, <3>4 DEF Traced
  <2>2. ASSUME job' = [job EXCEPT ![w] = None], ch' = ch,
               \A e \in Events : job[w] = e => Done(e)'
        PROVE  Traced'
    <3>1. \A v \in Workers \ {w} : job'[v] = job[v]
      BY <1>0, <2>2
    <3>2. \A e \in Events : InHand(e) => InHand(e)' \/ Done(e)'
      BY <1>0, <2>2, <3>1 DEF InHand
    <3>3. \A e \in Events : InChannel(e) => InChannel(e)'
      BY <2>2 DEF InChannel
    <3> QED
      BY <1>m, <2>0, <3>2, <3>3 DEF Traced
  <2>3. CASE WriteSucceeded(w)
    <3>1. job[w] \in Events => copies[job[w]] > 0
      BY <1>0, <2>3 DEF WriteSucceeded, PlaceInv, HandOnce
    <3> QED
      BY <1>m, <2>2, <2>3, <3>1 DEF WriteSucceeded
  <2>4. CASE WorkerSpill(w)
    <3>1. job[w] \in Events => answer'[job[w]] # "none"
      BY <1>0, <2>4, SameLog, Instances, WALP!AppendAdds DEF WorkerSpill
    <3> QED
      BY <2>2, <2>4, <3>1 DEF WorkerSpill
  <2>5. CASE WorkerExit(w) \/ AskBreaker(w) \/ Granted(w) \/ Denied(w) \/ WriteStores(w)
               \/ WriteFails(w) \/ WriteFailed(w) \/ Trip(w) \/ Tripped(w)
    BY <1>2, <2>5 DEF WorkerExit, AskBreaker, Granted, Denied, WriteStores, WriteFails,
                      WriteFailed, Trip, Tripped
  <2> QED
    BY <1>4, <2>1, <2>3, <2>4, <2>5 DEF Work
<1>5. CASE MainReturns \/ Crash
  <2>1. hpc' = [e \in Events |-> IF InMemory(e) /\ ~ WAL!Safe(e) THEN "gone" ELSE hpc[e]]
    BY <1>5 DEF MainReturns, Crash, ProcessEnds
  <2>2. ASSUME NEW e \in Events, hpc'[e] \in {"queued", "logged"} PROVE Done(e)'
    <3>1. hpc'[e] = hpc[e] /\ (InMemory(e) => WAL!Safe(e))
      BY <2>1, <2>2
    <3>2. InChannel(e) \/ InHand(e) => copies[e] > 0
      <4>1. InChannel(e) \/ InHand(e) => ~ WALP!Holds(file, e)
        BY <1>0 DEF PlaceInv, ChannelOnce, HandOnce, InChannel, InHand
      <4>2. WALP!InFile(e) => WALP!Holds(file, e)
        BY DEF WALP!InFile, WALP!Holds
      <4> QED
        BY <3>1, <4>1, <4>2, SameLog DEF InMemory
    <3> QED
      BY <1>m, <2>2, <3>1, <3>2 DEF Traced
  <2> QED
    BY <2>2 DEF Traced
<1>6. CASE StartReplay \/ Replay \/ CloseSwap \/ CloseChannel \/ Signal \/ Boot \/ Tick
  BY <1>2, <1>6 DEF StartReplay, Replay, CloseSwap, CloseChannel, Signal, Boot, Tick
<1>7. CASE UNCHANGED vars
  BY <1>2, <1>7 DEF vars
<1> QED
  BY <1>3, <1>4, <1>5, <1>6, <1>7 DEF Next, Main

LEMMA TracesHold == Spec => []TraceInv
<1>1. Init => TraceInv
  BY DEF Init, WAL!Init, TraceInv, Traced, WALP!KeepInv, WALP!AllWhole, WALP!AnsweredAreKept,
         WALP!ReplayKeeps
<1>2. TypeInv /\ PlaceInv /\ TraceInv /\ [Next]_vars => TraceInv'
  BY TracedStep, KeepsStep DEF TraceInv
<1> QED
  BY <1>1, <1>2, TypesHold, PlacesHold, PTL DEF Spec

\* Without torn lines, to be readable in the file is to be in it.
LEMMA FileIsReadable ==
    ASSUME TypeInv, WALP!KeepInv, torn = {}, NEW e \in Events
    PROVE  WAL!InFile(e) <=> WALP!Holds(file, e)
<1>1. WALP!TypeOK /\ WALP!AllWhole(file)
  BY SameLog DEF TypeInv, TypeOK, WALP!KeepInv
<1> QED
  BY <1>1, SameLog, Instances, WALP!WholeIsReadable

\* Once Enqueue has returned, the event is in the channel, in a worker's hands,
\* in the log or in the sink, unless the append that should have kept it failed
\* or a line of the log was torn.
THEOREM EventsAreAccounted == Spec => []Accounted
<1>1. TypeInv /\ TraceInv => Accounted
  <2> SUFFICES ASSUME TypeInv, TraceInv, NEW e \in Events, hpc[e] \in {"queued", "logged"},
                      ~ InChannel(e), ~ InHand(e), answer[e] # "err", torn = {}
               PROVE  WAL!Safe(e)
    BY DEF Accounted
  <2>1. copies[e] > 0 \/ answer[e] = "nil"
    BY DEF TraceInv, Traced, TypeInv, TypeOK, WAL!TypeOK
  <2>2. answer[e] = "nil" => copies[e] > 0 \/ WALP!Holds(file, e)
    BY DEF TraceInv, WALP!KeepInv, WALP!AnsweredAreKept
  <2> QED
    BY <2>1, <2>2, FileIsReadable DEF TraceInv, WAL!Safe
<1> QED
  BY <1>1, TypesHold, TracesHold, PTL

-----------------------------------------------------------------------------
\* The step simulation of the ledger: what each step of the queue does to the
\* fates of the events.
Fates == [e \in Events |-> Fate(e)]

LEMMA FateKept ==
    ASSUME NEW e \in Events,
           copies'[e] > 0 <=> copies[e] > 0, WAL!InFile(e)' <=> WAL!InFile(e),
           InMemory(e)' <=> InMemory(e), hpc'[e] = "new" <=> hpc[e] = "new"
    PROVE  Fate(e)' = Fate(e)
  BY DEF Fate

LEMMA OneMoves ==
    ASSUME NEW e \in Events, \A x \in Events \ {e} : Fate(x)' = Fate(x),
           \/ Fate(e)' = Fate(e)
           \/ Fate(e) = "new" /\ Fate(e)' = "inMemory"
           \/ Fate(e) = "inMemory" /\ Fate(e)' \in {"logged", "lost"}
           \/ Fate(e) \in {"inMemory", "logged"} /\ Fate(e)' = "stored"
    PROVE  [Ledger!Next]_Fates
<1> DEFINE F == [x \in Events |-> Fate(x)]
<1>1. CASE Fate(e)' = Fate(e)
  BY <1>1 DEF Fates
<1>2. ASSUME NEW f, Fate(e)' = f PROVE F' = [F EXCEPT ![e] = f]
  BY <1>2
<1>3. F[e] = Fate(e)
  OBVIOUS
<1>4. CASE Fate(e) = "new" /\ Fate(e)' = "inMemory"
  <2>1. Ledger!Accept(e)
    BY <1>2, <1>3, <1>4 DEF Ledger!Accept
  <2> QED
    BY <2>1 DEF Ledger!Next
<1>5. CASE Fate(e) = "inMemory" /\ Fate(e)' = "logged"
  <2>1. Ledger!Log(e)
    BY <1>2, <1>3, <1>5 DEF Ledger!Log
  <2> QED
    BY <2>1 DEF Ledger!Next
<1>6. CASE Fate(e) \in {"inMemory", "logged"} /\ Fate(e)' = "stored"
  <2>1. Ledger!Store(e)
    BY <1>2, <1>3, <1>6 DEF Ledger!Store
  <2> QED
    BY <2>1 DEF Ledger!Next
<1>7. CASE Fate(e) = "inMemory" /\ Fate(e)' = "lost"
  <2>1. F' = [x \in Events |-> IF x \in {e} THEN "lost" ELSE F[x]]
    BY <1>7
  <2>2. Ledger!Lose({e})
    BY <1>3, <1>7, <2>1 DEF Ledger!Lose
  <2> QED
    BY <2>2 DEF Ledger!Next
<1> QED
  BY <1>1, <1>4, <1>5, <1>6, <1>7

LEMMA SomeAreLost ==
    ASSUME \A e \in Events : Fate(e)' = Fate(e) \/ (Fate(e) = "inMemory" /\ Fate(e)' = "lost")
    PROVE  [Ledger!Next]_Fates
<1> DEFINE F == [x \in Events |-> Fate(x)]
           S == {e \in Events : Fate(e)' # Fate(e)}
<1>1. CASE S = {}
  BY <1>1 DEF Fates
<1>2. CASE S # {}
  <2>1. F' = [x \in Events |-> IF x \in S THEN "lost" ELSE F[x]]
    OBVIOUS
  <2>2. \A e \in S : F[e] = "inMemory"
    OBVIOUS
  <2>3. Ledger!Lose(S)
    BY <1>2, <2>1, <2>2 DEF Ledger!Lose
  <2> QED
    BY <2>3 DEF Ledger!Next
<1> QED
  BY <1>1, <1>2

\* Without torn lines nothing becomes unreadable: the queue's invariants, before
\* and after a step.
Untorn == torn = {}
Sound == TypeInv /\ PlaceInv /\ TraceInv /\ torn = {}

LEMMA NotTorn == ASSUME "torn" \notin Faults PROVE Spec => []Untorn
<1>1. Init => Untorn
  BY DEF Init, WAL!Init, Untorn
<1>2. TypeInv /\ Untorn /\ [Next]_vars => Untorn'
  <2> SUFFICES ASSUME TypeInv, torn = {}, [Next]_vars PROVE torn' = {}
    BY DEF Untorn
  <2> QED
    BY LogStep
       DEF TypeInv, Wrote, walVars, Replays, WALP!AppendEvent, WALP!AppendLine, WALP!AppendFails,
           WALP!AppendTears, WALP!ReplayBegin, WALP!ReplayStep, WALP!ReplaySkip, WALP!ReplayAck,
           WALP!ReplayRefused, WALP!ReplayWriteTmp, WALP!ReplayFinish, WALP!ReplayError,
           WALP!Crash
<1> QED
  BY <1>1, <1>2, TypesHold, PTL DEF Spec

LEMMA ReadableNext ==
    ASSUME TypeInv', TraceInv', torn' = {}, NEW e \in Events
    PROVE  WAL!InFile(e)' <=> WALP!Holds(file', e)
<1>1. \A i \in DOMAIN file' : file'[i].part = "whole"
  BY DEF TraceInv, WALP!KeepInv, WALP!AllWhole
<1>2. file' \in Seq(WAL!Record)
  BY DEF TypeInv, TypeOK, WAL!TypeOK
<1>3. \A i \in DOMAIN file' : WAL!Readable(i)'
  BY <1>1, <1>2 DEF WAL!Readable, WAL!StartsLine, WAL!EndsLine
<1> QED
  BY <1>3 DEF WAL!InFile, WALP!Holds

\* Appending an event that is in nobody's memory afterwards logs or loses it.
LEMMA SpillMoves ==
    ASSUME Sound, Sound', NEW e \in Events, WALP!AppendEvent(e),
           InMemory(e), ~ InMemory(e)', hpc[e] # "new", hpc'[e] # "new",
           \A x \in Events \ {e} : (InMemory(x)' <=> InMemory(x)) /\ hpc'[x] = hpc[x]
    PROVE  [Ledger!Next]_Fates
<1>1. /\ copies' = copies /\ \A x \in Events \ {e} : WALP!Holds(file', x) <=> WALP!Holds(file, x)
  BY SameLog, Instances, WALP!AppendAdds DEF Sound, TypeInv, TypeOK
<1>2. \A x \in Events : /\ WAL!InFile(x) <=> WALP!Holds(file, x)
                        /\ WAL!InFile(x)' <=> WALP!Holds(file', x)
  BY FileIsReadable, ReadableNext DEF Sound, TraceInv
<1>3. \A x \in Events \ {e} : Fate(x)' = Fate(x)
  BY <1>1, <1>2, FateKept
<1>4. copies[e] > 0 => Fate(e) = "stored" /\ Fate(e)' = "stored"
  BY <1>1 DEF Fate
<1>5. WAL!InFile(e) => WAL!InFile(e)'
  <2>1. WALP!Holds(file, e) => WALP!Holds(file', e)
    <3>1. WALP!TypeOK
      BY SameLog DEF Sound, TypeInv, TypeOK
    <3>2. file' = file \/ \E r \in WALP!Record : file' = Append(file, r)
      BY <3>1, Instances, WALP!AppendAdds
    <3>3. CASE \E r \in WALP!Record : file' = Append(file, r)
      <4>1. PICK r \in WALP!Record : file' = Append(file, r)
        BY <3>3
      <4> QED
        BY <3>1, <4>1, Instances, WALP!AppendHolds DEF WALP!TypeOK
    <3> QED
      BY <3>2, <3>3
  <2> QED
    BY <1>2, <2>1
<1>6. ~ (copies[e] > 0) =>
         /\ Fate(e) \in {"inMemory", "logged"} /\ Fate(e)' \in {"logged", "lost"}
         /\ Fate(e) = "logged" => Fate(e)' = "logged"
  BY <1>1, <1>5 DEF Fate
<1> QED
  BY <1>3, <1>4, <1>6, OneMoves

\* What a handler does to the fates.
LEMMA EnqueueMoves ==
    ASSUME Sound, Sound', NEW e \in Events, Arrive(e) \/ Enqueue(e)
    PROVE  [Ledger!Next]_Fates
<1> USE DEF HandlerGoto, Handling
<1>0. hpc \in [Events -> HandlerStates] /\ ch \in Seq(Events) /\ Early(e)
  BY DEF Sound, TypeInv, TypeOK, Arrive, Enqueue, EnqueueCheck, EnqueueSend, EnqueueFull,
         EnqueuePanic, EnqueueSpill, Early
<1>1. Nowhere(e) /\ ~ WAL!InFile(e)
  BY <1>0, FileIsReadable DEF Sound, TraceInv, PlaceInv, EarlyIsNowhere, Nowhere
<1>2. job' = job /\ \A x \in Events : InHand(x)' <=> InHand(x)
  BY DEF Arrive, Enqueue, EnqueueCheck, EnqueueSend, EnqueueFull, EnqueuePanic, EnqueueSpill, InHand
<1>3. \A x \in Events \ {e} : hpc'[x] = hpc[x]
  BY <1>0 DEF Arrive, Enqueue, EnqueueCheck, EnqueueSend, EnqueueFull, EnqueuePanic, EnqueueSpill
<1>4. \A x \in Events \ {e} : InChannel(x)' <=> InChannel(x)
  <2>1. CASE EnqueueSend(e)
    <3>1. /\ ch' = Append(ch, e) /\ Len(ch) \in Nat
          /\ DOMAIN ch = 1..Len(ch) /\ DOMAIN ch' = 1..(Len(ch) + 1) /\ ch'[Len(ch) + 1] = e
          /\ \A i \in 1..Len(ch) : ch'[i] = ch[i]
      BY <1>0, <2>1, WALP!Appended DEF EnqueueSend
    <3> QED
      BY <3>1 DEF InChannel
  <2>2. CASE ch' = ch
    BY <2>2 DEF InChannel
  <2> QED
    BY <2>1, <2>2 DEF Arrive, Enqueue, EnqueueCheck, EnqueueFull, EnqueuePanic, EnqueueSpill
<1>5. \A x \in Events \ {e} : InMemory(x)' <=> InMemory(x)
  BY <1>2, <1>3, <1>4 DEF InMemory
<1>6. ASSUME UNCHANGED <<file, copies>>
      PROVE  /\ \A x \in Events : WAL!InFile(x)' <=> WAL!InFile(x)
             /\ \A x \in Events \ {e} : Fate(x)' = Fate(x)
  <2>1. \A x \in Events : WAL!InFile(x)' <=> WAL!InFile(x)
    BY <1>6 DEF WAL!InFile, WAL!Readable, WAL!StartsLine, WAL!EndsLine
  <2> QED
    BY <1>3, <1>5, <1>6, <2>1, FateKept
<1>7. CASE Arrive(e)
  <2>1. UNCHANGED <<file, copies, ch>> /\ hpc[e] = "new" /\ hpc'[e] = "arrived"
    BY <1>0, <1>7 DEF Arrive, walVars
  <2>2. Fate(e) = "new" /\ Fate(e)' = "inMemory"
    BY <1>1, <1>6, <2>1 DEF Fate, InMemory, Nowhere
  <2> QED
    BY <1>6, <2>1, <2>2, OneMoves
<1>8. CASE EnqueueCheck(e) \/ EnqueueFull(e) \/ EnqueueSend(e)
  <2>1. /\ UNCHANGED <<file, copies>> /\ hpc[e] \in {"arrived", "send"}
        /\ hpc'[e] \in {"send", "spill", "queued"}
    BY <1>0, <1>8 DEF EnqueueCheck, EnqueueFull, EnqueueSend, walVars
  <2>2. InMemory(e) /\ InMemory(e)'
    <3>1. CASE EnqueueSend(e)
      <4>1. Len(ch) + 1 \in DOMAIN ch' /\ ch'[Len(ch) + 1] = e
        BY <1>0, <3>1, WALP!Appended DEF EnqueueSend
      <4> QED
        BY <2>1, <4>1 DEF InMemory, InChannel
    <3>2. CASE EnqueueCheck(e) \/ EnqueueFull(e)
      BY <1>0, <2>1, <3>2 DEF EnqueueCheck, EnqueueFull, InMemory
    <3> QED
      BY <1>8, <3>1, <3>2
  <2>3. Fate(e)' = Fate(e)
    BY <1>6, <2>1, <2>2, FateKept
  <2> QED
    BY <1>6, <2>1, <2>3, OneMoves
<1>9. CASE EnqueuePanic(e)
  <2>1. UNCHANGED <<file, copies, ch>> /\ hpc[e] = "send" /\ hpc'[e] = "panicked"
    BY <1>0, <1>9 DEF EnqueuePanic, walVars
  <2>2. ~ InMemory(e)'
    BY <1>1, <1>2, <2>1 DEF InMemory, InChannel, Nowhere
  <2>3. Fate(e) = "inMemory" /\ Fate(e)' = "lost"
    BY <1>1, <1>6, <2>1, <2>2 DEF Fate, InMemory, Nowhere
  <2> QED
    BY <1>6, <2>1, <2>3, OneMoves
<1>10. CASE EnqueueSpill(e)
  <2>1. WALP!AppendEvent(e) /\ hpc[e] = "spill" /\ hpc'[e] = "logged" /\ ch' = ch
    BY <1>0, <1>10, SameLog DEF EnqueueSpill
  <2>2. InMemory(e) /\ ~ InMemory(e)'
    BY <1>1, <1>2, <2>1 DEF InMemory, InChannel, Nowhere
  <2> QED
    BY <1>3, <1>5, <2>1, <2>2, SpillMoves
<1> QED
  BY <1>7, <1>8, <1>9, <1>10 DEF Enqueue

\* What a worker does to the fates.
LEMMA WorkMoves ==
    ASSUME Sound, Sound', NEW w \in Workers, Work(w)
    PROVE  [Ledger!Next]_Fates
<1> USE DEF WorkerGoto, Forget
<1>0. /\ hpc \in [Events -> HandlerStates] /\ ch \in Seq(Events)
      /\ job \in [Workers -> Events \cup {None}] /\ None \notin Events
      /\ copies \in [Events -> Nat]
      /\ \A v \in Workers : job[v] = None <=> wpc[v] \in {"recv", "exited"}
  BY QueueAssumption DEF Sound, TypeInv, TypeOK, WAL!TypeOK
<1>h. hpc' = hpc
  BY DEF Work, Receive, WorkerExit, AskBreaker, Granted, Denied, WriteStores, WriteFails,
         WriteSucceeded, WriteFailed, Trip, Tripped, WorkerSpill
<1>2. ASSUME UNCHANGED <<file, copies>>, \A x \in Events : InMemory(x)' <=> InMemory(x)
      PROVE  [Ledger!Next]_Fates
  <2>1. \A x \in Events : WAL!InFile(x)' <=> WAL!InFile(x)
    BY <1>2 DEF WAL!InFile, WAL!Readable, WAL!StartsLine, WAL!EndsLine
  <2>2. \A x \in Events : Fate(x)' = Fate(x)
    BY <1>h, <1>2, <2>1, FateKept
  <2> QED
    BY <2>2, SomeAreLost
<1>3. CASE Receive(w)
  <2>1. /\ ch # <<>> /\ job[w] = None /\ job' = [job EXCEPT ![w] = Head(ch)] /\ ch' = Tail(ch)
        /\ UNCHANGED <<file, copies>>
    BY <1>0, <1>3 DEF Receive, walVars
  <2>2. /\ Head(ch) = ch[1] /\ 1 \in DOMAIN ch /\ Len(ch) \in Nat
        /\ \A i \in DOMAIN ch : i = 1 \/ (i - 1 \in DOMAIN ch' /\ ch'[i - 1] = ch[i])
        /\ \A i \in DOMAIN ch' : i + 1 \in DOMAIN ch /\ ch'[i] = ch[i + 1]
    BY <1>0, <2>1
  <2>3. /\ job'[w] = ch[1]
        /\ \A v \in Workers : job[v] # None => job'[v] = job[v]
        /\ \A v \in Workers \ {w} : job'[v] = job[v]
    BY <1>0, <2>1, <2>2
  <2>4. ASSUME NEW x \in Events PROVE InChannel(x) \/ InHand(x) => InChannel(x)' \/ InHand(x)'
    <3>1. ASSUME NEW i \in DOMAIN ch, ch[i] = x PROVE InChannel(x)' \/ InHand(x)'
      <4>1. CASE i = 1
        BY <2>3, <3>1, <4>1 DEF InHand
      <4>2. CASE i - 1 \in DOMAIN ch' /\ ch'[i - 1] = ch[i]
        BY <3>1, <4>2 DEF InChannel
      <4> QED
        BY <2>2, <4>1, <4>2
    <3>2. InHand(x) => InHand(x)'
      BY <1>0, <2>3 DEF InHand
    <3> QED
      BY <3>1, <3>2 DEF InChannel
  <2>5. ASSUME NEW x \in Events PROVE InChannel(x)' \/ InHand(x)' => InChannel(x) \/ InHand(x)
    <3>1. InChannel(x)' => InChannel(x)
      BY <2>2 DEF InChannel
    <3>2. InHand(x)' => InHand(x) \/ InChannel(x)
      BY <2>2, <2>3 DEF InHand, InChannel
    <3> QED
      BY <3>1, <3>2
  <2>6. \A x \in Events : InMemory(x)' <=> InMemory(x)
    BY <1>h, <2>4, <2>5 DEF InMemory
  <2> QED
    BY <1>2, <2>1, <2>6
<1>4. CASE UNCHANGED <<walVars, ch, job>>
  <2>1. \A x \in Events : InMemory(x)' <=> InMemory(x)
    BY <1>h, <1>4 DEF InMemory, InChannel, InHand
  <2> QED
    BY <1>2, <1>4, <2>1 DEF walVars
<1>5. CASE WriteStores(w) \/ WriteFails(w)
  <2>1. /\ wpc[w] = "writing" /\ UNCHANGED <<file, ch, job>>
        /\ copies' = copies \/ copies' = [copies EXCEPT ![job[w]] = @ + 1]
    BY <1>5 DEF WriteStores, WriteFails, WAL!Stored
  <2> DEFINE e == job[w]
  <2>2. e \in Events /\ copies[e] = 0 /\ ~ WALP!Holds(file, e)
    BY <1>0, <2>1 DEF Sound, PlaceInv, HandOnce
  <2>3. \A x \in Events : /\ InMemory(x)' <=> InMemory(x)
                          /\ WAL!InFile(x)' <=> WAL!InFile(x)
    BY <1>h, <2>1 DEF InMemory, InChannel, InHand, WAL!InFile, WAL!Readable, WAL!StartsLine,
                      WAL!EndsLine
  <2>4. \A x \in Events \ {e} : copies'[x] = copies[x]
    BY <1>0, <2>1, <2>2
  <2>5. \A x \in Events \ {e} : Fate(x)' = Fate(x)
    BY <1>h, <2>3, <2>4, FateKept
  <2>6. Fate(e) = "inMemory"
    BY <2>2, FileIsReadable DEF Fate, InMemory, InHand, Sound, TraceInv
  <2>7. copies' = copies => \A x \in Events : Fate(x)' = Fate(x)
    BY <1>h, <2>3, FateKept
  <2>8. ASSUME copies' = [copies EXCEPT ![e] = @ + 1], NEW y, y = e PROVE Fate(y)' = "stored"
    BY <1>0, <2>2, <2>8 DEF Fate
  <2>9. CASE copies' = copies
    BY <2>7, <2>9, SomeAreLost
  <2>10. CASE copies' = [copies EXCEPT ![e] = @ + 1]
    <3>1. PICK y \in Events : y = e
      BY <2>2
    <3>2. Fate(y)' = "stored" /\ Fate(y) = "inMemory" /\ \A x \in Events \ {y} : Fate(x)' = Fate(x)
      BY <2>5, <2>6, <2>8, <2>10, <3>1
    <3> QED
      BY <3>2, OneMoves
  <2> QED
    BY <2>1, <2>9, <2>10
<1>6. ASSUME NEW e \in Events, job[w] = e, job' = [job EXCEPT ![w] = None], ch' = ch
      PROVE  /\ InMemory(e) /\ ~ InMemory(e)' /\ hpc[e] # "new"
             /\ \A x \in Events \ {e} : InMemory(x)' <=> InMemory(x)
  <2>1. InHand(e) /\ ~ InChannel(e) /\ ~ Early(e)
    BY <1>6 DEF Sound, PlaceInv, ChannelOnce, EarlyIsNowhere, Nowhere, InHand, InChannel
  <2>2. \A v \in Workers \ {w} : job'[v] = job[v] /\ job[v] # e
    BY <1>0, <1>6 DEF Sound, PlaceInv, HandOnce
  <2>3. job'[w] = None
    BY <1>0, <1>6
  <2>4. ~ InHand(e)'
    BY <1>0, <2>2, <2>3 DEF InHand
  <2>5. \A x \in Events \ {e} : InHand(x)' <=> InHand(x)
    BY <1>0, <1>6, <2>2, <2>3 DEF InHand
  <2> QED
    BY <1>h, <1>6, <2>1, <2>4, <2>5 DEF InMemory, InChannel, Early
<1>7. CASE WriteSucceeded(w)
  <2>1. /\ wpc[w] = "stored" /\ UNCHANGED <<file, copies, ch>> /\ job' = [job EXCEPT ![w] = None]
    BY <1>7 DEF WriteSucceeded, walVars
  <2>2. PICK e \in Events : job[w] = e
    BY <1>0, <2>1
  <2>3. copies[e] > 0
    BY <1>0, <2>1, <2>2 DEF Sound, PlaceInv, HandOnce
  <2>4. \A x \in Events \ {e} : InMemory(x)' <=> InMemory(x)
    BY <1>6, <2>1, <2>2
  <2>5. \A x \in Events : WAL!InFile(x)' <=> WAL!InFile(x)
    BY <2>1 DEF WAL!InFile, WAL!Readable, WAL!StartsLine, WAL!EndsLine
  <2>6. \A x \in Events \ {e} : Fate(x)' = Fate(x)
    BY <1>h, <2>1, <2>4, <2>5, FateKept
  <2>7. Fate(e) = "stored" /\ Fate(e)' = "stored"
    BY <2>1, <2>3 DEF Fate
  <2> QED
    BY <2>6, <2>7, OneMoves
<1>8. CASE WorkerSpill(w)
  <2>1. wpc[w] = "spill" /\ ch' = ch /\ job' = [job EXCEPT ![w] = None]
    BY <1>8 DEF WorkerSpill
  <2>2. PICK e \in Events : job[w] = e
    BY <1>0, <2>1
  <2>3. WALP!AppendEvent(e)
    BY <1>8, <2>2, SameLog DEF WorkerSpill
  <2> QED
    BY <1>6, <1>h, <2>1, <2>2, <2>3, SpillMoves
<1>9. CASE WorkerExit(w) \/ AskBreaker(w) \/ Granted(w) \/ Denied(w) \/ WriteFailed(w)
             \/ Trip(w) \/ Tripped(w)
  BY <1>4, <1>9 DEF WorkerExit, AskBreaker, Granted, Denied, WriteFailed, Trip, Tripped
<1> QED
  BY <1>3, <1>5, <1>7, <1>8, <1>9 DEF Work

\* The rename takes nothing away that the sink has not got.
LEMMA FinishKeeps ==
    ASSUME Sound, WALP!ReplayFinish, NEW e \in Events, WALP!Holds(file, e)
    PROVE  copies[e] > 0 \/ WALP!Holds(file', e)
<1>1. CASE file' = file
  BY <1>1
<1>2. CASE file' = pending
  <2>1. /\ rpc = "renaming" /\ file \in Seq(WAL!Record)
        /\ pos = Len(file)
        /\ \A i \in 1..pos : copies[file[i].event] > 0 \/ WALP!Holds(pending, file[i].event)
    BY DEF Sound, TraceInv, WALP!KeepInv, WALP!ReplayKeeps, WALP!ReadAreKept, WALP!ReplayFinish,
           TypeInv, TypeOK, WAL!TypeOK
  <2>2. PICK i \in 1..Len(file) : file[i].event = e
    BY <2>1 DEF WALP!Holds
  <2> QED
    BY <1>2, <2>1, <2>2
<1> QED
  BY <1>1, <1>2 DEF WALP!ReplayFinish, WALP!Survivors

\* What a replay does to the fates: it stores a logged event, or none.
LEMMA ReplayMoves ==
    ASSUME Sound, Sound', WALP!ReplayBegin \/ WALP!ReplayStep \/ WALP!ReplayError,
           UNCHANGED <<ch, hpc, job>>
    PROVE  [Ledger!Next]_Fates
<1>0. /\ copies \in [Events -> Nat] /\ WALP!TypeOK
      /\ \A x \in Events : InMemory(x)' <=> InMemory(x)
  BY SameLog DEF Sound, TypeInv, TypeOK, WALP!TypeOK, InMemory, InChannel, InHand
<1>1. \A x \in Events : /\ WAL!InFile(x) <=> WALP!Holds(file, x)
                        /\ WAL!InFile(x)' <=> WALP!Holds(file', x)
  BY FileIsReadable, ReadableNext DEF Sound, TraceInv
<1>2. CASE WALP!ReplayFinish
  <2>1. copies' = copies
    BY <1>2 DEF WALP!ReplayFinish
  <2>2. \A x \in Events : WALP!Holds(file', x) => WALP!Holds(file, x)
    BY <1>0, <1>2, Instances, WALP!OnlyFromFile DEF Sound, PlaceInv, WALP!ReplayStep
  <2>3. ASSUME NEW x \in Events PROVE Fate(x)' = Fate(x)
    <3>1. CASE copies[x] > 0
      BY <2>1, <3>1 DEF Fate
    <3>2. CASE ~ (copies[x] > 0)
      <4>1. WALP!Holds(file', x) <=> WALP!Holds(file, x)
        BY <1>2, <2>2, <3>2, FinishKeeps
      <4> QED
        BY <1>0, <1>1, <2>1, <4>1, FateKept
    <3> QED
      BY <3>1, <3>2
  <2> QED
    BY <2>3, SomeAreLost
<1>3. CASE UNCHANGED <<file, copies>>
  <2>1. \A x \in Events : Fate(x)' = Fate(x)
    BY <1>0, <1>1, <1>3, FateKept
  <2> QED
    BY <2>1, SomeAreLost
<1>4. CASE WALP!ReplayAck \/ WALP!ReplayRefused
  <2>1. pos + 1 \in 1..Len(file) /\ file \in Seq(WALP!Record) /\ file' = file
    BY <1>0, <1>4 DEF WALP!ReplayAck, WALP!ReplayRefused, WALP!More, WALP!TypeOK
  <2>2. file[pos + 1] \in WALP!Record
    BY <2>1
  <2>3. PICK e \in Events : e = file[pos + 1].event
    BY <2>2, Instances, WALP!Records
  <2>4. copies' = copies \/ copies' = [copies EXCEPT ![e] = @ + 1]
    BY <1>4, <2>3 DEF WALP!ReplayAck, WALP!ReplayRefused, WALP!Stored, WALP!NextRecord
  <2>5. WAL!InFile(e)
    BY <1>1, <2>1, <2>3 DEF WALP!Holds
  <2>6. \A x \in Events \ {e} : Fate(x)' = Fate(x)
    BY <1>0, <1>1, <2>1, <2>4, FateKept
  <2>7. CASE copies' = copies
    BY <1>3, <2>1, <2>7
  <2>8. CASE copies' = [copies EXCEPT ![e] = @ + 1]
    <3>1. copies'[e] > 0
      BY <1>0, <2>8
    <3>2. Fate(e)' = "stored" /\ Fate(e) \in {"logged", "stored"}
      BY <2>5, <3>1 DEF Fate
    <3> QED
      BY <2>6, <3>2, OneMoves
  <2> QED
    BY <2>4, <2>7, <2>8
<1> QED
  BY <1>2, <1>3, <1>4 DEF WALP!ReplayBegin, WALP!ReplayStep, WALP!ReplaySkip,
                          WALP!ReplayWriteTmp, WALP!ReplayError

\* The end of the process loses what was in memory only.
LEMMA EndMoves ==
    ASSUME Sound, MainReturns \/ Crash
    PROVE  [Ledger!Next]_Fates
<1>1. /\ hpc' = [e \in Events |-> IF InMemory(e) /\ ~ WAL!Safe(e) THEN "gone" ELSE hpc[e]]
      /\ ch' = <<>> /\ job' = [w \in Workers |-> None] /\ UNCHANGED <<file, copies>>
  BY DEF MainReturns, Crash, ProcessEnds, walVars, WAL!Crash
<1>2. DOMAIN ch' = {} /\ \A w \in Workers : job'[w] = None
  BY <1>1
<1>3. \A e \in Events : (WAL!InFile(e)' <=> WAL!InFile(e)) /\ (WAL!Safe(e) <=> WAL!InFile(e) \/ copies[e] > 0)
  BY <1>1 DEF WAL!InFile, WAL!Safe, WAL!Readable, WAL!StartsLine, WAL!EndsLine
<1>4. ASSUME NEW e \in Events
      PROVE  Fate(e)' = Fate(e) \/ (Fate(e) = "inMemory" /\ Fate(e)' = "lost")
  <2>1. CASE WAL!Safe(e)
    BY <1>1, <1>3, <2>1 DEF Fate
  <2>2. CASE ~ WAL!Safe(e)
    <3>1. ~ InMemory(e)'
      <4>1. ~ InChannel(e)' /\ ~ InHand(e)'
        BY <1>2, QueueAssumption DEF InChannel, InHand
      <4>2. hpc'[e] \notin Handling
        BY <1>1, <2>2 DEF InMemory, Handling
      <4> QED
        BY <4>1, <4>2 DEF InMemory
    <3>2. CASE InMemory(e)
      BY <1>1, <1>3, <2>2, <3>1, <3>2 DEF Fate
    <3>3. CASE ~ InMemory(e)
      BY <1>1, <1>3, <2>2, <3>1, <3>3 DEF Fate
    <3> QED
      BY <3>2, <3>3
  <2> QED
    BY <2>1, <2>2
<1> QED
  BY <1>4, SomeAreLost

\* Every step of the queue is a step of the ledger or a stutter: an event is lost
\* only from memory, and what the log or the sink has got stays there.  A torn
\* line would break this, so torn appends are excluded.
THEOREM StepsImplementLedger ==
    ASSUME "torn" \notin Faults
    PROVE  Spec => Ledger!Init /\ [][Ledger!Next]_Fates
<1>1. Init => Ledger!Init
  <2> SUFFICES ASSUME Init, NEW e \in Events PROVE Fate(e) = "new"
    BY DEF Ledger!Init
  <2>1. DOMAIN file = {} /\ DOMAIN ch = {} /\ copies[e] = 0 /\ hpc[e] = "new"
        /\ \A w \in Workers : job[w] = None
    BY DEF Init, WAL!Init
  <2> QED
    BY <2>1, QueueAssumption DEF Fate, WAL!InFile, InMemory, InChannel, InHand, Handling
<1>2. Sound /\ Sound' /\ [Next]_vars => [Ledger!Next]_Fates
  <2> SUFFICES ASSUME Sound, Sound', [Next]_vars PROVE [Ledger!Next]_Fates
    OBVIOUS
  <2>1. CASE StartReplay \/ Replay
    <3>1. WALP!ReplayBegin \/ WALP!ReplayStep \/ WALP!ReplayError
      BY <2>1 DEF StartReplay, Replay,
         WAL!Free, WALP!Free, WAL!ReplayBegin, WALP!ReplayBegin, WAL!ReplayStep, WALP!ReplayStep,
         WAL!ReplaySkip, WALP!ReplaySkip, WAL!ReplayAck, WALP!ReplayAck,
         WAL!ReplayRefused, WALP!ReplayRefused, WAL!ReplayWriteTmp, WALP!ReplayWriteTmp,
         WAL!ReplayFinish, WALP!ReplayFinish, WAL!ReplayError, WALP!ReplayError,
         WAL!More, WALP!More, WAL!NextRecord, WALP!NextRecord,
         WAL!Advance, WALP!Advance, WAL!Ack, WALP!Ack, WAL!Refuse, WALP!Refuse,
         WAL!Survivors, WALP!Survivors, WAL!Slip, WALP!Slip, WAL!Stored, WALP!Stored,
         WAL!Readable, WALP!Readable, WAL!StartsLine, WALP!StartsLine, WAL!EndsLine, WALP!EndsLine
    <3> QED
      BY <2>1, <3>1, ReplayMoves DEF StartReplay, Replay
  <2>2. CASE UNCHANGED <<file, copies, ch, hpc, job>>
    <3>1. \A x \in Events : /\ InMemory(x)' <=> InMemory(x)
                            /\ WAL!InFile(x)' <=> WAL!InFile(x)
      BY <2>2 DEF InMemory, InChannel, InHand, WAL!InFile, WAL!Readable, WAL!StartsLine, WAL!EndsLine
    <3>2. \A x \in Events : Fate(x)' = Fate(x)
      BY <2>2, <3>1, FateKept
    <3> QED
      BY <3>2, SomeAreLost
  <2>3. CASE CloseSwap \/ CloseChannel \/ Signal \/ Boot \/ Tick \/ UNCHANGED vars
    BY <2>2, <2>3 DEF CloseSwap, CloseChannel, Signal, Boot, Tick, vars, walVars
  <2>4. CASE \E e \in Events : Arrive(e) \/ Enqueue(e)
    BY <2>4, EnqueueMoves
  <2>5. CASE \E w \in Workers : Work(w)
    BY <2>5, WorkMoves
  <2>6. CASE MainReturns \/ Crash
    BY <2>6, EndMoves
  <2> QED
    BY <2>1, <2>3, <2>4, <2>5, <2>6 DEF Next, Main
<1>3. TypeInv /\ PlaceInv /\ TraceInv /\ Untorn => Sound
  BY DEF Sound, Untorn
<1> QED
  BY <1>1, <1>2, <1>3, TypesHold, PlacesHold, TracesHold, NotTorn, PTL DEF Spec
=============================================================================
