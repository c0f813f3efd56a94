--------------------------- MODULE WriteAheadLog ----------------------------
(***************************************************************************)
(* The write-ahead log of the logging queue                                *)
(* (apps/viper-proxy/internal/logging/wal.go): a file of JSON lines that   *)
(* Append extends and Replay hands, line by line, to the sink, rewriting   *)
(* the file with what the sink refused.                                    *)
(*                                                                         *)
(* A record of the file is an event and how much of its line was written:  *)
(* "whole", "bare" (all of it but the newline) or "cut" (a prefix that is  *)
(* not JSON).  What a record is worth depends on its neighbours, since a   *)
(* record written after one without a newline ends up on the same line.    *)
(***************************************************************************)
EXTENDS Integers, Sequences, FiniteSets

CONSTANTS Events,    \* the events ever appended, each by one caller
          Faults,    \* which of the faults below the environment may cause
          MaxSlips   \* bound: interrupted replays plus ambiguous sink answers

\* "sink": a sink write fails; "ambiguous": it fails after having stored;
\* "wal": Append cannot open the file; "torn": Append writes a part of a line;
\* "replay": Replay's own file operations fail; "crash": the process dies.
FaultKinds == {"sink", "ambiguous", "wal", "torn", "replay", "crash"}

ASSUME WALAssumption ==
    /\ IsFiniteSet(Events)
    /\ Faults \subseteq FaultKinds
    /\ MaxSlips \in Nat

VARIABLES
    file,     \* the records on disk
    answer,   \* answer[e]: what Append(e) returned, "none" before
    torn,     \* history: the events whose Append tore a line
    copies,   \* copies[e]: how often the sink has stored e
    rpc,      \* where Replay is; anything but "off" holds the mutex
    pos,      \* Replay: records read so far
    acked,    \* Replay: how many of them the sink accepted
    pending,  \* Replay: the records the sink refused
    slips     \* history: interrupted replays and ambiguous answers so far

replayVars == <<rpc, pos, acked, pending>>
walVars == <<file, answer, torn, copies, rpc, pos, acked, pending, slips>>

Record == [event : Events, part : {"whole", "bare", "cut"}]

Init ==
    /\ file = <<>>
    /\ answer = [e \in Events |-> "none"]
    /\ torn = {}
    /\ copies = [e \in Events |-> 0]
    /\ rpc = "off"
    /\ pos = 0
    /\ acked = 0
    /\ pending = <<>>
    /\ slips = 0

-----------------------------------------------------------------------------
\* A line ends at a whole record or at the end of the file, and is JSON only
\* when it holds exactly one record and that record was not cut.
StartsLine(i) == i > 1 => file[i - 1].part = "whole"
EndsLine(i) == i < Len(file) => file[i].part = "whole"
Readable(i) == file[i].part # "cut" /\ StartsLine(i) /\ EndsLine(i)

InFile(e) == \E i \in DOMAIN file : file[i].event = e /\ Readable(i)

FreeAlways == TRUE
Free == rpc = "off"
Slip == slips < MaxSlips /\ slips' = slips + 1
Stored(e) == copies' = [copies EXCEPT ![e] = @ + 1]
Answered(e, r) == answer' = [answer EXCEPT ![e] = r]
Written(e, p) == file' = Append(file, [event |-> e, part |-> p])

-----------------------------------------------------------------------------
\* Append, under the mutex: one write of the encoded line.

AppendLine(e) ==
    /\ Free
    /\ answer[e] = "none"
    /\ Written(e, "whole")
    /\ Answered(e, "nil")
    /\ UNCHANGED <<torn, copies, replayVars, slips>>

AppendFails(e) ==
    /\ "wal" \in Faults
    /\ Free
    /\ answer[e] = "none"
    /\ Answered(e, "err")
    /\ UNCHANGED <<file, torn, copies, replayVars, slips>>

AppendTears(e) ==
    /\ "torn" \in Faults
    /\ Free
    /\ answer[e] = "none"
    /\ \E p \in {"bare", "cut"} : Written(e, p)
    /\ torn' = torn \cup {e}
    /\ Answered(e, "err")
    /\ UNCHANGED <<copies, replayVars, slips>>

AppendEvent(e) == AppendLine(e) \/ AppendFails(e) \/ AppendTears(e)

-----------------------------------------------------------------------------
\* Replay, which holds the mutex from its first statement to its return.

ReplayBegin ==
    /\ Free
    /\ rpc' = "reading"
    /\ pos' = 0
    /\ acked' = 0
    /\ pending' = <<>>
    /\ UNCHANGED <<file, answer, torn, copies, slips>>

More == rpc = "reading" /\ pos < Len(file)
NextRecord == file[pos + 1]
Advance == pos' = pos + 1

RefuseNothing(r) == UNCHANGED pending
Refuse(r) == pending' = Append(pending, r)

AckEveryLine == acked' = pos + 2
Ack == acked' = acked + 1

SurvivorsIfAny == IF pending # <<>> THEN pending ELSE file
SurvivorsNone == IF acked > 0 THEN <<>> ELSE file
Survivors == IF acked > 0 THEN pending ELSE file

\* A line that is not JSON goes neither to acked nor to pending.
ReplaySkip ==
    /\ More
    /\ ~ Readable(pos + 1)
    /\ Advance
    /\ UNCHANGED <<file, answer, torn, copies, rpc, acked, pending, slips>>

ReplayAck ==
    /\ More
    /\ Readable(pos + 1)
    /\ Stored(NextRecord.event)
    /\ Ack
    /\ Advance
    /\ UNCHANGED <<file, answer, torn, rpc, pending, slips>>

ReplayRefused ==
    /\ More
    /\ Readable(pos + 1)
    /\ \/ /\ "sink" \in Faults
          /\ UNCHANGED <<copies, slips>>
       \/ /\ "ambiguous" \in Faults
          /\ Slip
          /\ Stored(NextRecord.event)
    /\ Refuse(NextRecord)
    /\ Advance
    /\ UNCHANGED <<file, answer, torn, rpc, acked>>

\* The whole file is read: the temporary file is written and closed.
ReplayWriteTmp ==
    /\ rpc = "reading"
    /\ pos = Len(file)
    /\ rpc' = "renaming"
    /\ UNCHANGED <<file, answer, torn, copies, pos, acked, pending, slips>>

\* The rename happens only when something was acked; otherwise the temporary
\* file is removed.
ReplayFinish ==
    /\ rpc = "renaming"
    /\ file' = Survivors
    /\ rpc' = "off"
    /\ UNCHANGED <<answer, torn, copies, pos, acked, pending, slips>>

\* An error of the read, of the temporary file or of the rename: Replay
\* returns it and the log is as it was.
ReplayError ==
    /\ "replay" \in Faults
    /\ rpc # "off"
    /\ Slip
    /\ rpc' = "off"
    /\ UNCHANGED <<file, answer, torn, copies, pos, acked, pending>>

ReplayStep == ReplaySkip \/ ReplayAck \/ ReplayRefused \/ ReplayWriteTmp \/ ReplayFinish

\* The process dies: the mutex and Replay's variables are gone.
Crash ==
    /\ "crash" \in Faults
    /\ Slip
    /\ rpc' = "off"
    /\ pos' = 0
    /\ acked' = 0
    /\ pending' = <<>>
    /\ UNCHANGED <<file, answer, torn, copies>>

Next ==
    \/ \E e \in Events : AppendEvent(e)
    \/ ReplayBegin
    \/ ReplayStep
    \/ ReplayError
    \/ Crash

Spec == Init /\ [][Next]_walVars

-----------------------------------------------------------------------------
\* The types; while Replay runs, what it acked and what it keeps are lines it
\* has read.
TypeOK ==
    /\ file \in Seq(Record)
    /\ answer \in [Events -> {"none", "nil", "err"}]
    /\ torn \subseteq Events
    /\ copies \in [Events -> Nat]
    /\ rpc \in {"off", "reading", "renaming"}
    /\ pos \in Nat
    /\ acked \in Nat
    /\ pending \in Seq(Record)
    /\ Free \/ (pos <= Len(file) /\ acked + Len(pending) <= pos)
    /\ slips \in 0..MaxSlips

Safe(e) == InFile(e) \/ copies[e] > 0

\* The events whose Append returned nil and that are neither readable in the
\* file nor in the sink.
Damaged == {e \in Events : answer[e] = "nil" /\ ~ Safe(e)}

\* However appends, replays and crashes follow one another, each torn append
\* costs at most one other record: the one that was written behind it on the
\* same line, or none.
DamageBounded == Cardinality(Damaged) <= Cardinality(torn)

\* While no append was torn, every event Append returned nil for is in the
\* file or in the sink, at every moment of a replay and across its crashes.
NothingForgotten == torn = {} => Damaged = {}

\* An event reaches the sink a second time only because a replay was
\* interrupted after delivering it, or the sink failed after storing it.
RedeliveryBounded == \A e \in Events : copies[e] <= 1 + slips

\* A record that can be read leaves the file only when the sink has its event,
\* or when a new record is written behind it on its line.
RemovedOnlyWhenStored ==
    [][\A e \in Events : InFile(e) /\ ~ InFile(e)' =>
          copies[e] > 0 \/ (e \in torn /\ Len(file') > Len(file))]_walVars
=============================================================================
