---------------------------- MODULE EventLedger -----------------------------
(***************************************************************************)
(* What the logging pipeline promises about a security event: it is in the *)
(* process's memory, in the write-ahead log, in the sink, or lost, and it  *)
(* is lost only from memory.                                               *)
(***************************************************************************)
CONSTANT Events

VARIABLE fate

Fates == {"new", "inMemory", "logged", "stored", "lost"}

Init == fate = [e \in Events |-> "new"]

Accept(e) ==
    /\ fate[e] = "new"
    /\ fate' = [fate EXCEPT ![e] = "inMemory"]

Log(e) ==
    /\ fate[e] = "inMemory"
    /\ fate' = [fate EXCEPT ![e] = "logged"]

Store(e) ==
    /\ fate[e] \in {"inMemory", "logged"}
    /\ fate' = [fate EXCEPT ![e] = "stored"]

\* A panic, a failed append or the end of the process: events that exist only
\* in memory go; the log and the sink keep what they have.
Lose(S) ==
    /\ S # {}
    /\ \A e \in S : fate[e] = "inMemory"
    /\ fate' = [e \in Events |-> IF e \in S THEN "lost" ELSE fate[e]]

\* No event stays in memory for ever; one in the log may, while the sink is down.
Settle(e) ==
    /\ fate[e] = "inMemory"
    /\ Log(e) \/ Store(e) \/ \E S \in SUBSET Events : e \in S /\ Lose(S)

Next ==
    \/ \E e \in Events : Accept(e) \/ Log(e) \/ Store(e)
    \/ \E S \in SUBSET Events : Lose(S)

Spec == Init /\ [][Next]_fate /\ \A e \in Events : WF_fate(Settle(e))
=============================================================================
