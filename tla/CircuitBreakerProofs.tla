------------------------ MODULE CircuitBreakerProofs ------------------------
(***************************************************************************)
(* Theorems of CircuitBreaker, for every number of workers, threshold,     *)
(* window and length of the clock.                                         *)
(***************************************************************************)
EXTENDS CircuitBreaker, FiniteSetTheorems, TLAPS

\* The types of the variables are kept by every step of every worker.
THEOREM TypeCorrect == Spec => []TypeOK
<1>1. Init => TypeOK
  BY BreakerAssumption DEF Init, TypeOK, Where, Tripping
<1>2. TypeOK /\ [Next]_vars => TypeOK'
  <2> SUFFICES ASSUME TypeOK, [Next]_vars PROVE TypeOK'
    OBVIOUS
  <2> USE BreakerAssumption DEF TypeOK, Where, Tripping, Goto, ReadClock
  <2>1. ASSUME NEW w \in Workers, AllowReadClock(w) PROVE TypeOK'
    BY <2>1 DEF AllowReadClock
  <2>2. ASSUME NEW w \in Workers, AllowGrant(w) PROVE TypeOK'
    BY <2>2 DEF AllowGrant
  <2>3. ASSUME NEW w \in Workers, AllowDeny(w) PROVE TypeOK'
    BY <2>3 DEF AllowDeny
  <2>4. ASSUME NEW w \in Workers, RecordSuccess(w) PROVE TypeOK'
    BY <2>4 DEF RecordSuccess, OnSuccess
  <2>5. ASSUME NEW w \in Workers, RecordFailureAdd(w) PROVE TypeOK'
    BY <2>5 DEF RecordFailureAdd, Saturated
  <2>6. ASSUME NEW w \in Workers, RecordFailureClock(w) PROVE TypeOK'
    BY <2>6 DEF RecordFailureClock
  <2>7. ASSUME NEW w \in Workers, RecordFailureOpen(w) PROVE TypeOK'
    BY <2>7 DEF RecordFailureOpen, Deadline
  <2>8. ASSUME NEW w \in Workers, RecordFailureReset(w) PROVE TypeOK'
    BY <2>8 DEF RecordFailureReset, ResetCount
  <2>9. CASE Tick
    BY <2>9 DEF Tick
  <2>10. CASE Restart
    BY <2>10 DEF Restart
  <2>11. CASE UNCHANGED vars
    BY <2>11 DEF vars
  <2> QED
    BY <2>1, <2>2, <2>3, <2>4, <2>5, <2>6, <2>7, <2>8, <2>9, <2>10, <2>11
       DEF Next, Step
<1> QED
  BY <1>1, <1>2, PTL DEF Spec

-----------------------------------------------------------------------------
\* No clock a worker holds is in the future; this is what makes the deadline
\* computed from it no later than one window from now.
ClockInv == \A w \in Workers : clk[w] <= now

\* WindowBound is inductive only together with the bound on the clocks that
\* RecordFailureOpen computes the deadline from.
THEOREM NeverOpenLongerThanWindow == Spec => []WindowBound
<1> DEFINE IInv == ClockInv /\ WindowBound
<1>1. Init => IInv
  BY BreakerAssumption DEF Init, ClockInv, WindowBound
<1>2. TypeOK /\ IInv /\ [Next]_vars => IInv'
  <2> SUFFICES ASSUME TypeOK, IInv, [Next]_vars PROVE IInv'
    OBVIOUS
  <2> USE BreakerAssumption DEF TypeOK, ClockInv, WindowBound, Goto, ReadClock
  <2>1. ASSUME NEW w \in Workers, AllowReadClock(w) PROVE IInv'
    BY <2>1 DEF AllowReadClock
  <2>2. ASSUME NEW w \in Workers,
               AllowGrant(w) \/ AllowDeny(w) \/ RecordSuccess(w)
                 \/ RecordFailureAdd(w) \/ RecordFailureReset(w)
        PROVE  IInv'
    BY <2>2 DEF AllowGrant, AllowDeny, RecordSuccess, OnSuccess, RecordFailureAdd,
                RecordFailureReset, ResetCount
  <2>3. ASSUME NEW w \in Workers, RecordFailureClock(w) PROVE IInv'
    BY <2>3 DEF RecordFailureClock
  <2>4. ASSUME NEW w \in Workers, RecordFailureOpen(w) PROVE IInv'
    BY <2>4 DEF RecordFailureOpen, Deadline
  <2>5. CASE Tick
    BY <2>5 DEF Tick
  <2>6. CASE Restart
    BY <2>6 DEF Restart
  <2>7. CASE UNCHANGED vars
    BY <2>7 DEF vars
  <2> QED
    BY <2>1, <2>2, <2>3, <2>4, <2>5, <2>6, <2>7 DEF Next, Step
<1>3. IInv => WindowBound
  OBVIOUS
<1> QED
  BY <1>1, <1>2, <1>3, TypeCorrect, PTL DEF Spec

\* A grant is given only when the stored deadline has passed at that instant.
THEOREM GrantOnlyAfterDeadline == Spec => GrantAfterDeadline
<1> DEFINE Granted == \A w \in Workers :
              at[w] = "allow" /\ at'[w] = "granted" => now >= openedUntilNs
<1>1. Init => ClockInv
  BY BreakerAssumption DEF Init, ClockInv
<1>2. TypeOK /\ ClockInv /\ [Next]_vars => ClockInv'
  BY BreakerAssumption
     DEF TypeOK, ClockInv, Next, Step, vars, Goto, ReadClock, AllowReadClock,
         AllowGrant, AllowDeny, RecordSuccess, OnSuccess, RecordFailureAdd,
         RecordFailureClock, RecordFailureOpen, RecordFailureReset, ResetCount, Tick, Restart
<1>3. TypeOK /\ ClockInv /\ [Next]_vars => [Granted]_vars
  <2> SUFFICES ASSUME TypeOK, ClockInv, [Next]_vars,
                      NEW v \in Workers, at[v] = "allow", at'[v] = "granted"
               PROVE  now >= openedUntilNs
    OBVIOUS
  <2> USE DEF TypeOK, Goto
  <2>1. ASSUME NEW w \in Workers, AllowGrant(w) PROVE now >= openedUntilNs
    <3>1. w = v
      BY <2>1 DEF AllowGrant
    <3> QED
      BY <2>1, <3>1 DEF AllowGrant, Elapsed, ClockInv
  <2>2. ASSUME NEW w \in Workers, Step(w), ~ AllowGrant(w) PROVE FALSE
    BY <2>2 DEF Step, AllowReadClock, AllowDeny, RecordSuccess, OnSuccess,
                RecordFailureAdd, RecordFailureClock, RecordFailureOpen,
                RecordFailureReset
  <2>3. CASE Tick
    BY <2>3 DEF Tick
  <2>4. CASE Restart
    BY <2>4 DEF Restart
  <2>5. CASE UNCHANGED vars
    BY <2>5 DEF vars
  <2> QED
    BY <2>1, <2>2, <2>3, <2>4, <2>5 DEF Next
<1> QED
  BY <1>1, <1>2, <1>3, TypeCorrect, PTL DEF Spec, GrantAfterDeadline

-----------------------------------------------------------------------------
\* A worker enters RecordFailure's branch only at the end of a streak of
\* Threshold failures: whatever the interleaving, fewer failures than that
\* since the last recorded success cannot open the breaker.
THEOREM TripsOnlyAfterStreak == Spec => TripNeedsStreak
<1> DEFINE IInv == failures <= streak \/ streak = Threshold
           Trips == \A w \in Workers :
              at[w] = "granted" /\ at'[w] = "tripping" => streak' = Threshold
<1>1. Init => IInv
  BY BreakerAssumption DEF Init
<1>2. TypeOK /\ IInv /\ [Next]_vars => IInv'
  BY BreakerAssumption
     DEF TypeOK, Next, Step, vars, Goto, ReadClock, Saturated, AllowReadClock,
         AllowGrant, AllowDeny, RecordSuccess, OnSuccess, RecordFailureAdd,
         RecordFailureClock, RecordFailureOpen, RecordFailureReset, ResetCount, Tick, Restart
<1>3. TypeOK /\ IInv /\ [Next]_vars => [Trips]_vars
  <2> SUFFICES ASSUME TypeOK, IInv, [Next]_vars,
                      NEW v \in Workers, at[v] = "granted", at'[v] = "tripping"
               PROVE  streak' = Threshold
    OBVIOUS
  <2> USE DEF TypeOK, Goto
  <2>1. ASSUME NEW w \in Workers, RecordFailureAdd(w) PROVE streak' = Threshold
    <3>1. w = v /\ failures + 1 >= Threshold
      BY <2>1 DEF RecordFailureAdd, Reached
    <3> QED
      BY <2>1, <3>1, BreakerAssumption DEF RecordFailureAdd, Saturated
  <2>2. ASSUME NEW w \in Workers, Step(w), ~ RecordFailureAdd(w) PROVE FALSE
    BY <2>2 DEF Step, AllowReadClock, AllowGrant, AllowDeny, RecordSuccess,
                RecordFailureClock, RecordFailureOpen, RecordFailureReset
  <2>3. CASE Tick
    BY <2>3 DEF Tick
  <2>4. CASE Restart
    BY <2>4 DEF Restart
  <2>5. CASE UNCHANGED vars
    BY <2>5 DEF vars
  <2> QED
    BY <2>1, <2>2, <2>3, <2>4, <2>5 DEF Next
<1> QED
  BY <1>1, <1>2, <1>3, TypeCorrect, PTL DEF Spec, TripNeedsStreak

-----------------------------------------------------------------------------
\* Trippers is a subset of the finite set of workers, so its cardinality is a
\* number.
LEMMA TrippersFinite == IsFiniteSet(Trippers) /\ Cardinality(Trippers) \in Nat
<1>1. Trippers \in SUBSET Workers
  BY DEF Trippers
<1> QED
  BY <1>1, FS_Subset, FS_CardinalityType, BreakerAssumption

\* The counter overshoots its threshold only by the workers that are inside
\* RecordFailure's branch, so a count that reaches the threshold is always
\* being acted upon, for any number of workers.
THEOREM OvershootIsAccountedFor == Spec => []CounterBounded
<1>1. Init => CounterBounded
  BY TrippersFinite, BreakerAssumption DEF Init, CounterBounded
<1>2. TypeOK /\ CounterBounded /\ [Next]_vars => CounterBounded'
  <2> SUFFICES ASSUME TypeOK, CounterBounded, [Next]_vars
               PROVE  CounterBounded'
    OBVIOUS
  <2> USE BreakerAssumption DEF TypeOK, CounterBounded, Goto, ReadClock, Tripping
  <2>1. Cardinality(Trippers) \in Nat /\ Cardinality(Trippers') \in Nat
    <3>1. Trippers \in SUBSET Workers /\ Trippers' \in SUBSET Workers
      BY DEF Trippers
    <3> QED
      BY <3>1, FS_Subset, FS_CardinalityType
  <2>2. ASSUME NEW w \in Workers,
               AllowReadClock(w) \/ AllowGrant(w) \/ AllowDeny(w)
                 \/ RecordFailureClock(w) \/ RecordFailureOpen(w)
        PROVE  CounterBounded'
    <3>1. Trippers' = Trippers
      BY <2>2 DEF Trippers, AllowReadClock, AllowGrant, AllowDeny,
                  RecordFailureClock, RecordFailureOpen
    <3> QED
      BY <2>2, <3>1 DEF AllowReadClock, AllowGrant, AllowDeny,
                        RecordFailureClock, RecordFailureOpen
  <2>3. ASSUME failures' = 0 PROVE CounterBounded'
    BY <2>1, <2>3
  <2>4. ASSUME NEW w \in Workers, RecordFailureAdd(w) PROVE CounterBounded'
    <3>1. CASE Reached(failures + 1)
      <4>1. Trippers' = Trippers \cup {w} /\ w \notin Trippers
        BY <2>4, <3>1 DEF RecordFailureAdd, Trippers
      <4>2. Cardinality(Trippers') = Cardinality(Trippers) + 1
        BY <4>1, TrippersFinite, FS_AddElement
      <4> QED
        BY <2>1, <2>4, <4>2 DEF RecordFailureAdd
    <3>2. CASE ~ Reached(failures + 1)
      BY <2>1, <2>4, <3>2 DEF RecordFailureAdd, Reached
    <3> QED
      BY <3>1, <3>2
  <2>5. CASE Tick
    <3>1. Trippers' = Trippers
      BY <2>5 DEF Tick, Trippers
    <3> QED
      BY <2>5, <3>1 DEF Tick
  <2>6. CASE UNCHANGED vars
    <3>1. Trippers' = Trippers
      BY <2>6 DEF vars, Trippers
    <3> QED
      BY <2>6, <3>1 DEF vars
  <2> QED
    BY <2>2, <2>3, <2>4, <2>5, <2>6
       DEF Next, Step, RecordSuccess, OnSuccess, RecordFailureReset, ResetCount, Restart
<1> QED
  BY <1>1, <1>2, TypeCorrect, PTL DEF Spec
=============================================================================
