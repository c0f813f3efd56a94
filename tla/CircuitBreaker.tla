--------------------------- MODULE CircuitBreaker ---------------------------
(***************************************************************************)
(* The lock-free circuit breaker of the logging queue                      *)
(* (apps/viper-proxy/internal/logging/circuit_breaker.go).                 *)
(*                                                                         *)
(* Two atomic words are shared by every worker goroutine: the failure      *)
(* counter and the instant until which the breaker is open.  Each atomic   *)
(* operation and each reading of the clock is a step of its own, because   *)
(* another worker (or the scheduler) may come in between.  The code        *)
(* compares wall times (UnixNano), which the host may set back: the model  *)
(* assumes that it does not.                                               *)
(***************************************************************************)
EXTENDS Integers, FiniteSets

CONSTANTS Workers,      \* the worker goroutines that share the breaker
          Threshold,    \* NewCircuitBreaker's threshold
          OpenWindow,   \* NewCircuitBreaker's openWindow, in ticks
          MaxNow        \* bound: the clock stops here

ASSUME BreakerAssumption ==
    /\ IsFiniteSet(Workers)
    /\ Threshold \in Nat \ {0}
    /\ OpenWindow \in Nat \ {0}
    /\ MaxNow \in Nat

VARIABLES
    now,            \* the wall clock
    failures,       \* atomic.Int64
    openedUntilNs,  \* atomic.Int64
    at,             \* at[w]: the next statement of worker w
    clk,            \* clk[w]: what worker w's last time.Now() returned
    streak          \* history: failures in a row, whatever the counter holds

vars == <<now, failures, openedUntilNs, at, clk, streak>>

\* "idle": outside the breaker; "allow": in Allow, clock read; "granted":
\* Allow returned true and the outcome is not recorded yet; the other three
\* are the statements of RecordFailure after a count that reached the threshold.
Tripping == {"tripping", "opening", "resetting"}
Where == {"idle", "allow", "granted"} \cup Tripping

Trippers == {w \in Workers : at[w] \in Tripping}

Init ==
    /\ now = 0
    /\ failures = 0
    /\ openedUntilNs = 0
    /\ at = [w \in Workers |-> "idle"]
    /\ clk = [w \in Workers |-> 0]
    /\ streak = 0

-----------------------------------------------------------------------------
\* Helpers, named for the expression of the source they stand for.

ElapsedEarly(t) == t + 1 >= openedUntilNs
Elapsed(t) == t >= openedUntilNs
DeadlineExtended(t) == IF openedUntilNs > t THEN openedUntilNs + OpenWindow ELSE t + OpenWindow
Deadline(t) == t + OpenWindow
ReachedExactly(n) == n = Threshold
Reached(n) == n >= Threshold
OnSuccessKeep == UNCHANGED failures
OnSuccess == failures' = 0
ResetByThreshold == failures' = failures - Threshold
ResetCount == failures' = 0
Saturated(n) == IF n < Threshold THEN n + 1 ELSE n

Goto(w, l) == at' = [at EXCEPT ![w] = l]
ReadClock(w) == clk' = [clk EXCEPT ![w] = now]

-----------------------------------------------------------------------------
\* Allow: time.Now() is evaluated before openedUntilNs.Load().

AllowReadClock(w) ==
    /\ at[w] = "idle"
    /\ ReadClock(w)
    /\ Goto(w, "allow")
    /\ UNCHANGED <<now, failures, openedUntilNs, streak>>

AllowGrant(w) ==
    /\ at[w] = "allow"
    /\ Elapsed(clk[w])
    /\ Goto(w, "granted")
    /\ UNCHANGED <<now, failures, openedUntilNs, clk, streak>>

AllowDeny(w) ==
    /\ at[w] = "allow"
    /\ ~ Elapsed(clk[w])
    /\ Goto(w, "idle")
    /\ UNCHANGED <<now, failures, openedUntilNs, clk, streak>>

RecordSuccess(w) ==
    /\ at[w] = "granted"
    /\ OnSuccess
    /\ streak' = 0
    /\ Goto(w, "idle")
    /\ UNCHANGED <<now, openedUntilNs, clk>>

\* RecordFailure: n := failures.Add(1), and the branch on n.
RecordFailureAdd(w) ==
    /\ at[w] = "granted"
    /\ failures' = failures + 1
    /\ streak' = Saturated(streak)
    /\ Goto(w, IF Reached(failures + 1) THEN "tripping" ELSE "idle")
    /\ UNCHANGED <<now, openedUntilNs, clk>>

\* time.Now() inside the branch.
RecordFailureClock(w) ==
    /\ at[w] = "tripping"
    /\ ReadClock(w)
    /\ Goto(w, "opening")
    /\ UNCHANGED <<now, failures, openedUntilNs, streak>>

\* openedUntilNs.Store(...), from the clock read one step ago.
RecordFailureOpen(w) ==
    /\ at[w] = "opening"
    /\ openedUntilNs' = Deadline(clk[w])
    /\ Goto(w, "resetting")
    /\ UNCHANGED <<now, failures, clk, streak>>

\* failures.Store(0), whatever has been added since this worker's Add.
RecordFailureReset(w) ==
    /\ at[w] = "resetting"
    /\ ResetCount
    /\ Goto(w, "idle")
    /\ UNCHANGED <<now, openedUntilNs, clk, streak>>

Tick ==
    /\ now < MaxNow
    /\ now' = now + 1
    /\ UNCHANGED <<failures, openedUntilNs, at, clk, streak>>

\* The process restarts: NewQueue makes a new breaker, the clock goes on.
Restart ==
    /\ failures' = 0
    /\ openedUntilNs' = 0
    /\ at' = [w \in Workers |-> "idle"]
    /\ clk' = [w \in Workers |-> 0]
    /\ streak' = 0
    /\ UNCHANGED now

Step(w) ==
    \/ AllowReadClock(w)
    \/ AllowGrant(w)
    \/ AllowDeny(w)
    \/ RecordSuccess(w)
    \/ RecordFailureAdd(w)
    \/ RecordFailureClock(w)
    \/ RecordFailureOpen(w)
    \/ RecordFailureReset(w)

Next == (\E w \in Workers : Step(w)) \/ Tick \/ Restart

Spec == Init /\ [][Next]_vars

-----------------------------------------------------------------------------
\* The types of the variables, with the range of the two clocks.  A counter
\* that could go below zero, say by subtracting the threshold instead of
\* storing 0, would not be caught by any test with one worker.
TypeOK ==
    /\ now \in 0..MaxNow
    /\ failures \in Nat
    /\ openedUntilNs \in Nat
    /\ at \in [Workers -> Where]
    /\ clk \in [Workers -> 0..MaxNow]
    /\ streak \in 0..Threshold

\* The counter goes over its threshold only by the workers that are inside
\* RecordFailure's branch at this moment.  In particular a counter at or over
\* the threshold always has a worker about to open the breaker: no failure
\* that should trip the breaker is forgotten between the Add and the Store.
CounterBounded == failures <= Threshold - 1 + Cardinality(Trippers)

\* However the workers' clock readings, stores and delays interleave, the
\* breaker is never open for longer than one window from the present: it
\* cannot lock the sink out.
WindowBound == openedUntilNs <= now + OpenWindow

\* The counter never exceeds the real number of failures in a row, so that
\* the breaker opens only after at least Threshold of them: a success, by any
\* worker, that comes before an Add is never forgotten by the branch on n.
TripNeedsStreak ==
    [][\A w \in Workers :
          at[w] = "granted" /\ at'[w] = "tripping" => streak' = Threshold]_vars

\* Allow returns true only at an instant when the stored deadline has passed,
\* although the clock it compares was read one step earlier.
GrantAfterDeadline ==
    [][\A w \in Workers :
          at[w] = "allow" /\ at'[w] = "granted" => now >= openedUntilNs]_vars
=============================================================================
