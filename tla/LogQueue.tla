------------------------------ MODULE LogQueue ------------------------------
(***************************************************************************)
(* The asynchronous logging queue of the proxy                             *)
(* (apps/viper-proxy/internal/logging/queue.go) and the life of the        *)
(* process around it (cmd/viper-proxy/main.go): request handlers call      *)
(* Enqueue, worker goroutines drain the channel into the sink behind the   *)
(* circuit breaker, what cannot be delivered goes to the write-ahead log,  *)
(* and the log is replayed when the process starts.                        *)
(*                                                                         *)
(* CircuitBreaker and WriteAheadLog are composed: their actions are the    *)
(* breaker's and the log's part of the actions below.                      *)
(***************************************************************************)
EXTENDS Integers, Sequences, FiniteSets

CONSTANTS Events,      \* the events; each is enqueued by one handler
          Workers,     \* LogWorkers goroutines
          QueueSize,   \* LogQueueSize
          Threshold, OpenWindow, MaxNow,  \* the breaker, see CircuitBreaker
          Faults, MaxSlips,               \* the environment, see WriteAheadLog
          SlowStop     \* TRUE: a handler may outlast srv.Stop's 15 seconds

None == "none"

ASSUME QueueAssumption ==
    /\ IsFiniteSet(Events) /\ IsFiniteSet(Workers)
    /\ None \notin Events
    /\ Workers # {}
    /\ QueueSize \in Nat \ {0}
    /\ Threshold \in Nat \ {0} /\ OpenWindow \in Nat \ {0} /\ MaxNow \in Nat
    /\ Faults \subseteq {"sink", "ambiguous", "wal", "torn", "replay", "crash"}
    /\ MaxSlips \in Nat
    /\ SlowStop \in BOOLEAN

VARIABLES
    now, failures, openedUntilNs, at, clk, streak,  \* CircuitBreaker
    file, answer, torn, copies, rpc, pos, acked, pending, slips,  \* WriteAheadLog
    phase,    \* where main is
    closed,   \* atomic.Bool
    ch,       \* the buffered channel
    chClosed, \* close(q.ch) has run
    hpc,      \* hpc[e]: the handler of event e
    wpc,      \* wpc[w]: worker w
    job,      \* job[w]: the event worker w has received
    dropped   \* the uint64 counter

CB == INSTANCE CircuitBreaker
WAL == INSTANCE WriteAheadLog

cbVars == <<now, failures, openedUntilNs, at, clk, streak>>
walVars == <<file, answer, torn, copies, rpc, pos, acked, pending, slips>>
mainVars == <<phase, closed, chClosed>>
vars == <<cbVars, walVars, mainVars, ch, hpc, wpc, job, dropped>>

Phases == {"boot", "replay", "serving", "stopping", "closing", "draining", "ended"}

\* "arrived": the request is being served; "send" and "spill": inside Enqueue;
\* "queued" and "logged": Enqueue has returned; "panicked": the send found the
\* channel closed; "gone": the process ended with the event in memory only.
HandlerStates == {"new", "arrived", "send", "spill", "queued", "logged",
                  "panicked", "gone"}
Handling == {"arrived", "send", "spill"}

\* "holding": received, Allow not answered; "failing": in RecordFailure.
WorkerStates == {"recv", "holding", "writing", "stored", "failed", "failing",
                 "spill", "exited"}

Init ==
    /\ CB!Init
    /\ WAL!Init
    /\ phase = "boot"
    /\ closed = FALSE
    /\ chClosed = FALSE
    /\ ch = <<>>
    /\ hpc = [e \in Events |-> "new"]
    /\ wpc = [w \in Workers |-> "recv"]
    /\ job = [w \in Workers |-> None]
    /\ dropped = 0

HandlerGoto(e, l) == hpc' = [hpc EXCEPT ![e] = l]
WorkerGoto(w, l) == wpc' = [wpc EXCEPT ![w] = l]

-----------------------------------------------------------------------------
\* Request handlers: Gateway.ServeHTTP up to and through Enqueue.

Arrive(e) ==
    /\ phase = "serving"
    /\ hpc[e] = "new"
    /\ HandlerGoto(e, "arrived")
    /\ UNCHANGED <<cbVars, walVars, mainVars, ch, wpc, job, dropped>>

\* Enqueue reads closed before it touches the channel.
EnqueueCheck(e) ==
    /\ hpc[e] = "arrived"
    /\ HandlerGoto(e, IF closed THEN "spill" ELSE "send")
    /\ UNCHANGED <<cbVars, walVars, mainVars, ch, wpc, job, dropped>>

\* The three outcomes of the select: there is room, there is none, or the
\* channel was closed in the meantime, and the send panics.
EnqueueSend(e) ==
    /\ hpc[e] = "send"
    /\ ~ chClosed
    /\ Len(ch) < QueueSize
    /\ ch' = Append(ch, e)
    /\ HandlerGoto(e, "queued")
    /\ UNCHANGED <<cbVars, walVars, mainVars, wpc, job, dropped>>

EnqueueFull(e) ==
    /\ hpc[e] = "send"
    /\ ~ chClosed
    /\ Len(ch) = QueueSize
    /\ dropped' = dropped + 1
    /\ HandlerGoto(e, "spill")
    /\ UNCHANGED <<cbVars, walVars, mainVars, ch, wpc, job>>

EnqueuePanic(e) ==
    /\ hpc[e] = "send"
    /\ chClosed
    /\ HandlerGoto(e, "panicked")
    /\ UNCHANGED <<cbVars, walVars, mainVars, ch, wpc, job, dropped>>

\* wal.Append, whose error Enqueue ignores.
EnqueueSpill(e) ==
    /\ hpc[e] = "spill"
    /\ WAL!AppendEvent(e)
    /\ HandlerGoto(e, "logged")
    /\ UNCHANGED <<cbVars, mainVars, ch, wpc, job, dropped>>

Enqueue(e) ==
    \/ EnqueueCheck(e)
    \/ EnqueueSend(e)
    \/ EnqueueFull(e)
    \/ EnqueuePanic(e)
    \/ EnqueueSpill(e)

-----------------------------------------------------------------------------
\* The worker goroutine.

Receive(w) ==
    /\ wpc[w] = "recv"
    /\ ch # <<>>
    /\ job' = [job EXCEPT ![w] = Head(ch)]
    /\ ch' = Tail(ch)
    /\ WorkerGoto(w, "holding")
    /\ UNCHANGED <<cbVars, walVars, mainVars, hpc, dropped>>

\* range over a closed channel ends only when the channel is empty.
DrainedAlways == TRUE
Drained == ch = <<>>

WorkerExit(w) ==
    /\ wpc[w] = "recv"
    /\ chClosed
    /\ Drained
    /\ WorkerGoto(w, "exited")
    /\ UNCHANGED <<cbVars, walVars, mainVars, ch, hpc, job, dropped>>

AskBreaker(w) ==
    /\ wpc[w] = "holding"
    /\ CB!AllowReadClock(w)
    /\ UNCHANGED <<walVars, mainVars, ch, hpc, wpc, job, dropped>>

Granted(w) ==
    /\ CB!AllowGrant(w)
    /\ WorkerGoto(w, "writing")
    /\ UNCHANGED <<walVars, mainVars, ch, hpc, job, dropped>>

Forget(w) == job' = [job EXCEPT ![w] = None]

DeniedDrops(w) ==
    /\ CB!AllowDeny(w)
    /\ WorkerGoto(w, "recv")
    /\ Forget(w)
    /\ UNCHANGED <<walVars, mainVars, ch, hpc, dropped>>

Denied(w) ==
    /\ CB!AllowDeny(w)
    /\ WorkerGoto(w, "spill")
    /\ UNCHANGED <<walVars, mainVars, ch, hpc, job, dropped>>

\* sink.Write returns nil, or an error, which for S3 does not exclude that the
\* object was stored.
WriteStores(w) ==
    /\ wpc[w] = "writing"
    /\ WAL!Stored(job[w])
    /\ WorkerGoto(w, "stored")
    /\ UNCHANGED <<cbVars, file, answer, torn, rpc, pos, acked, pending, slips,
                   mainVars, ch, hpc, job, dropped>>

WriteFails(w) ==
    /\ wpc[w] = "writing"
    /\ \/ "sink" \in Faults /\ UNCHANGED <<copies, slips>>
       \/ "ambiguous" \in Faults /\ WAL!Slip /\ WAL!Stored(job[w])
    /\ WorkerGoto(w, "failed")
    /\ UNCHANGED <<cbVars, file, answer, torn, rpc, pos, acked, pending,
                   mainVars, ch, hpc, job, dropped>>

WriteSucceededKeeps(w) ==
    /\ wpc[w] = "stored"
    /\ CB!RecordSuccess(w)
    /\ WorkerGoto(w, "recv")
    /\ UNCHANGED <<walVars, mainVars, ch, hpc, job, dropped>>

WriteSucceeded(w) ==
    /\ wpc[w] = "stored"
    /\ CB!RecordSuccess(w)
    /\ WorkerGoto(w, "recv")
    /\ Forget(w)
    /\ UNCHANGED <<walVars, mainVars, ch, hpc, dropped>>

\* RecordFailure: the count, and when it reaches the threshold three more steps.
WriteFailed(w) ==
    /\ wpc[w] = "failed"
    /\ CB!RecordFailureAdd(w)
    /\ WorkerGoto(w, IF at'[w] = "idle" THEN "spill" ELSE "failing")
    /\ UNCHANGED <<walVars, mainVars, ch, hpc, job, dropped>>

Trip(w) ==
    /\ wpc[w] = "failing"
    /\ CB!RecordFailureClock(w) \/ CB!RecordFailureOpen(w)
    /\ UNCHANGED <<walVars, mainVars, ch, hpc, wpc, job, dropped>>

Tripped(w) ==
    /\ wpc[w] = "failing"
    /\ CB!RecordFailureReset(w)
    /\ WorkerGoto(w, "spill")
    /\ UNCHANGED <<walVars, mainVars, ch, hpc, job, dropped>>

\* Without the "continue" after the append the worker goes on to write.
WorkerSpillGoesOn(w) ==
    /\ wpc[w] = "spill"
    /\ WAL!AppendEvent(job[w])
    /\ WorkerGoto(w, "writing")
    /\ UNCHANGED <<cbVars, mainVars, ch, hpc, job, dropped>>

WorkerSpill(w) ==
    /\ wpc[w] = "spill"
    /\ WAL!AppendEvent(job[w])
    /\ WorkerGoto(w, "recv")
    /\ Forget(w)
    /\ UNCHANGED <<cbVars, mainVars, ch, hpc, dropped>>

Work(w) ==
    \/ Receive(w)
    \/ WorkerExit(w)
    \/ AskBreaker(w)
    \/ Granted(w)
    \/ Denied(w)
    \/ WriteStores(w)
    \/ WriteFails(w)
    \/ WriteSucceeded(w)
    \/ WriteFailed(w)
    \/ Trip(w)
    \/ Tripped(w)
    \/ WorkerSpill(w)

-----------------------------------------------------------------------------
\* main: replay, serve, stop the server, close the queue.

StartReplay ==
    /\ phase = "boot"
    /\ WAL!ReplayBegin
    /\ phase' = "replay"
    /\ UNCHANGED <<cbVars, closed, chClosed, ch, hpc, wpc, job, dropped>>

\* Whether Replay succeeds or not, main goes on to serve.
Replay ==
    /\ phase = "replay"
    /\ WAL!ReplayStep \/ WAL!ReplayError
    /\ phase' = IF rpc' = "off" THEN "serving" ELSE "replay"
    /\ UNCHANGED <<cbVars, closed, chClosed, ch, hpc, wpc, job, dropped>>

Signal ==
    /\ phase = "serving"
    /\ phase' = "stopping"
    /\ UNCHANGED <<cbVars, walVars, closed, chClosed, ch, hpc, wpc, job, dropped>>

HandlersIgnored == TRUE
HandlersDone == \A e \in Events : hpc[e] \notin Handling

\* srv.Stop has returned, with all handlers finished or, its error ignored,
\* after its timeout; Close begins with closed.Swap(true).
CloseSwap ==
    /\ phase = "stopping"
    /\ HandlersDone \/ SlowStop
    /\ closed' = TRUE
    /\ phase' = "closing"
    /\ UNCHANGED <<cbVars, walVars, chClosed, ch, hpc, wpc, job, dropped>>

CloseChannelForgotten ==
    /\ phase = "closing"
    /\ phase' = "draining"
    /\ UNCHANGED <<cbVars, walVars, closed, chClosed, ch, hpc, wpc, job, dropped>>

CloseChannel ==
    /\ phase = "closing"
    /\ chClosed' = TRUE
    /\ phase' = "draining"
    /\ UNCHANGED <<cbVars, walVars, closed, ch, hpc, wpc, job, dropped>>

\* The events that are only in the memory of the process.
InChannel(e) == \E i \in DOMAIN ch : ch[i] = e
InHand(e) == \E w \in Workers : job[w] = e
InMemory(e) == hpc[e] \in Handling \/ InChannel(e) \/ InHand(e)

\* The process ends: its memory goes, and the next process starts afresh.
ProcessEnds ==
    /\ hpc' = [e \in Events |-> IF InMemory(e) /\ ~ WAL!Safe(e)
                                THEN "gone" ELSE hpc[e]]
    /\ ch' = <<>>
    /\ closed' = FALSE
    /\ chClosed' = FALSE
    /\ wpc' = [w \in Workers |-> "recv"]
    /\ job' = [w \in Workers |-> None]
    /\ dropped' = 0
    /\ CB!Restart
    /\ phase' = "ended"

\* wg.Wait returns, Close returns, main returns.
WorkersDone == \A w \in Workers : wpc[w] = "exited"

MainReturns ==
    /\ phase = "draining"
    /\ WorkersDone
    /\ ProcessEnds
    /\ UNCHANGED walVars

Crash ==
    /\ phase # "ended"
    /\ WAL!Crash
    /\ ProcessEnds

Boot ==
    /\ phase = "ended"
    /\ phase' = "boot"
    /\ UNCHANGED <<cbVars, walVars, closed, chClosed, ch, hpc, wpc, job, dropped>>

Tick ==
    /\ CB!Tick
    /\ UNCHANGED <<walVars, mainVars, ch, hpc, wpc, job, dropped>>

Main == StartReplay \/ Replay \/ CloseSwap \/ CloseChannel \/ MainReturns

Next ==
    \/ \E e \in Events : Arrive(e) \/ Enqueue(e)
    \/ \E w \in Workers : Work(w)
    \/ Main
    \/ Signal
    \/ Crash
    \/ Boot
    \/ Tick

Spec == Init /\ [][Next]_vars

\* Goroutines are scheduled; requests, signals and crashes need not come.
Fairness ==
    /\ \A e \in Events : WF_vars(Enqueue(e))
    /\ \A w \in Workers : WF_vars(Work(w))
    /\ WF_vars(Main)

FairSpec == Spec /\ Fairness

-----------------------------------------------------------------------------
\* The types of the queue's own variables, with the capacity of the channel,
\* and that a worker holds an event exactly between receiving and forgetting it.
TypeOK ==
    /\ CB!TypeOK /\ WAL!TypeOK
    /\ phase \in Phases
    /\ closed \in BOOLEAN /\ chClosed \in BOOLEAN
    /\ ch \in Seq(Events) /\ Len(ch) <= QueueSize
    /\ hpc \in [Events -> HandlerStates]
    /\ wpc \in [Workers -> WorkerStates]
    /\ job \in [Workers -> Events \cup {None}]
    /\ \A w \in Workers : job[w] = None <=> wpc[w] \in {"recv", "exited"}
    /\ dropped \in 0..Cardinality(Events)

\* Once Enqueue has returned, the event is in the channel, in a worker's hands,
\* in the log or in the sink, unless the append that should have kept it
\* failed or a line of the log was torn.
Accounted ==
    \A e \in Events : hpc[e] \in {"queued", "logged"} =>
        InChannel(e) \/ InHand(e) \/ WAL!Safe(e) \/ answer[e] = "err" \/ torn # {}

\* No event is in two of the channel, the workers' hands and the log, or in one
\* of them twice: whatever path it takes it is never both written and spilled
\* by two goroutines.
Places(e) ==
    {<<"ch", i>> : i \in {j \in DOMAIN ch : ch[j] = e}}
      \cup {<<"job", w>> : w \in {v \in Workers : job[v] = e}}
      \cup {<<"file", i>> : i \in {j \in DOMAIN file : file[j].event = e}}

HeldOnce == \A e \in Events : Cardinality(Places(e)) <= 1

\* Across the live path, the spill, the replay and restarts, the sink stores an
\* event again only after a replay was interrupted, the process crashed, or a
\* write failed after having stored it.
RedeliveryBounded == WAL!RedeliveryBounded

\* What loses an event from memory is a crash: an orderly stop neither panics a
\* handler nor leaves an event behind, unless a handler outlasts the stop of the
\* server.
Lost == {"panicked", "gone"}

LossNeedsFault ==
    [][\A e \in Events : hpc[e] \notin Lost /\ hpc'[e] \in Lost => SlowStop \/ Crash]_vars

\* Close returns, although workers may be in the middle of failing writes and
\* handlers may still be spilling.
CloseReturns == phase = "stopping" ~> phase = "ended"

\* The queue implements the ledger of what it promises about each event: an
\* event is lost only from memory, the sink's events stay stored, and no event
\* stays in memory for ever.
Fate(e) ==
    IF copies[e] > 0 THEN "stored"
    ELSE IF WAL!InFile(e) THEN "logged"
    ELSE IF InMemory(e) THEN "inMemory"
    ELSE IF hpc[e] = "new" THEN "new"
    ELSE "lost"

Ledger == INSTANCE EventLedger WITH fate <- [e \in Events |-> Fate(e)]

ImplementsLedger == Ledger!Spec

-----------------------------------------------------------------------------
\* What the guide says: "Queue closed (shutdown): WAL append".  Violated: a
\* handler that read closed before Close's Swap sends on the closed channel;
\* the panic takes the event.
ClosedGoesToLog == \A e \in Events : hpc[e] # "panicked"
=============================================================================
