------------------------ MODULE WriteAheadLogProofs -------------------------
(***************************************************************************)
(* Theorems of WriteAheadLog, for every set of events, every choice of     *)
(* faults and every number of interrupted replays.                         *)
(***************************************************************************)
EXTENDS WriteAheadLog, FiniteSetTheorems, TLAPS

\* An element of a sequence over a set is in the set.
LEMMA Element == ASSUME NEW S, NEW s \in Seq(S), NEW i \in 1..Len(s) PROVE s[i] \in S
  OBVIOUS

\* What Append adds, and what it leaves.
LEMMA Appended ==
    ASSUME NEW S, NEW s \in Seq(S), NEW x \in S
    PROVE  /\ Append(s, x) \in Seq(S)
           /\ Len(Append(s, x)) = Len(s) + 1
           /\ DOMAIN Append(s, x) = 1..(Len(s) + 1)
           /\ \A i \in 1..Len(s) : Append(s, x)[i] = s[i]
           /\ Append(s, x)[Len(s) + 1] = x
  OBVIOUS

\* A record has an event, and a line of an event is a record.
LEMMA Records ==
    /\ \A r \in Record : r.event \in Events
    /\ \A e \in Events : \A p \in {"whole", "bare", "cut"} : [event |-> e, part |-> p] \in Record
  BY DEF Record

\* The types are kept by every append and every step of a replay.
LEMMA TypeStep == ASSUME TypeOK, [Next]_walVars PROVE TypeOK'
<1> USE WALAssumption DEF TypeOK, Free, replayVars
<1>1. ASSUME NEW e \in Events, AppendLine(e) PROVE TypeOK'
  <2>1. \E r \in Record : file' = Append(file, r)
    BY <1>1, Records DEF AppendLine, Written
  <2>2. file' \in Seq(Record)
    BY <2>1
  <2> QED
    BY <1>1, <2>2 DEF AppendLine, Answered
<1>2. ASSUME NEW e \in Events, AppendFails(e) PROVE TypeOK'
  BY <1>2 DEF AppendFails, Answered
<1>3. ASSUME NEW e \in Events, AppendTears(e) PROVE TypeOK'
  <2>1. \E r \in Record : file' = Append(file, r)
    BY <1>3, Records DEF AppendTears, Written
  <2>2. file' \in Seq(Record)
    BY <2>1
  <2> QED
    BY <1>3, <2>2 DEF AppendTears, Answered
<1>4. CASE ReplayBegin
  BY <1>4 DEF ReplayBegin
<1>5. CASE ReplaySkip
  BY <1>5 DEF ReplaySkip, More, Advance
<1>6. CASE ReplayAck
  <2>1. pos + 1 \in 1..Len(file) /\ pos' = pos + 1
    BY <1>6 DEF ReplayAck, More, Advance
  <2>2. file[pos + 1] \in Record
    BY <2>1, Element
  <2>3. copies' \in [Events -> Nat]
    BY <1>6, <2>2, Records DEF ReplayAck, Stored, NextRecord
  <2> QED
    BY <1>6, <2>1, <2>3 DEF ReplayAck, More, Ack
<1>7. CASE ReplayRefused
  <2>1. pos + 1 \in 1..Len(file) /\ pos' = pos + 1 /\ pending' = Append(pending, file[pos + 1])
    BY <1>7 DEF ReplayRefused, More, Advance, Refuse, NextRecord
  <2>2. file[pos + 1] \in Record
    BY <2>1, Element
  <2>3. copies' \in [Events -> Nat] /\ slips' \in 0..MaxSlips
    <3>1. CASE UNCHANGED <<copies, slips>>
      BY <3>1
    <3>2. CASE Slip /\ Stored(NextRecord.event)
      BY <3>2, <2>2, Records DEF Stored, Slip, NextRecord
    <3> QED
      BY <1>7, <3>1, <3>2 DEF ReplayRefused
  <2> QED
    BY <1>7, <2>1, <2>2, <2>3 DEF ReplayRefused, More
<1>8. CASE ReplayWriteTmp
  BY <1>8 DEF ReplayWriteTmp
<1>9. CASE ReplayFinish
  BY <1>9 DEF ReplayFinish, Survivors
<1>10. CASE ReplayError
  BY <1>10 DEF ReplayError, Slip
<1>11. CASE Crash
  BY <1>11 DEF Crash, Slip
<1>12. CASE UNCHANGED walVars
  BY <1>12 DEF walVars
<1> QED
  BY <1>1, <1>2, <1>3, <1>4, <1>5, <1>6, <1>7, <1>8, <1>9, <1>10, <1>11, <1>12
     DEF Next, AppendEvent, ReplayStep

\* The types are kept by every append and every step of a replay, and Replay
\* never acks or keeps more lines than it has read.
THEOREM TypeCorrect == Spec => []TypeOK
<1>1. Init => TypeOK
  BY WALAssumption DEF Init, TypeOK, Free
<1>2. TypeOK /\ [Next]_walVars => TypeOK'
  BY TypeStep
<1> QED
  BY <1>1, <1>2, PTL DEF Spec

-----------------------------------------------------------------------------
\* NothingForgotten is not inductive: what Replay may drop by its rename depends
\* on what it did with every line it has read.  While no append was torn, all
\* records are whole, every record read is stored or pending, and the rename
\* comes when all were read.
AllWhole(s) == \A i \in DOMAIN s : s[i].part = "whole"
Holds(s, e) == \E i \in DOMAIN s : s[i].event = e
ReadAreKept == \A i \in 1..pos : copies[file[i].event] > 0 \/ Holds(pending, file[i].event)
AnsweredAreKept == \A e \in Events : answer[e] = "nil" => copies[e] > 0 \/ Holds(file, e)

ReplayKeeps ==
    rpc # "off" => AllWhole(pending) /\ ReadAreKept /\ (rpc = "renaming" => pos = Len(file))

KeepInv == torn = {} => AllWhole(file) /\ AnsweredAreKept /\ ReplayKeeps

\* A sequence holds the event appended to it, and those it held.
LEMMA AppendHolds ==
    ASSUME NEW s \in Seq(Record), NEW r \in Record
    PROVE  Holds(Append(s, r), r.event) /\ \A e \in Events : Holds(s, e) => Holds(Append(s, r), e)
<1>1. Len(s) + 1 \in DOMAIN Append(s, r) /\ Append(s, r)[Len(s) + 1] = r
  BY Appended
<1>2. \A i \in DOMAIN s : i \in DOMAIN Append(s, r) /\ Append(s, r)[i] = s[i]
  BY Appended
<1> QED
  BY <1>1, <1>2 DEF Holds

\* A file of whole records has one record on each line.
LEMMA WholeIsReadable ==
    ASSUME TypeOK, AllWhole(file), NEW e \in Events
    PROVE  InFile(e) <=> Holds(file, e)
<1>1. \A i \in DOMAIN file : Readable(i)
  BY DEF TypeOK, AllWhole, Readable, StartsLine, EndsLine
<1> QED
  BY <1>1 DEF InFile, Holds

\* Every append and every step of a replay keeps what Replay's rename relies on.
LEMMA KeepStep == ASSUME TypeOK, KeepInv, [Next]_walVars PROVE KeepInv'
<1> SUFFICES ASSUME torn' = {}
             PROVE  (AllWhole(file) /\ AnsweredAreKept /\ ReplayKeeps)'
  BY DEF KeepInv
<1>0. torn = {}
  BY DEF Next, AppendEvent, AppendLine, AppendFails, AppendTears, ReplayBegin, ReplayStep,
         ReplaySkip, ReplayAck, ReplayRefused, ReplayWriteTmp, ReplayFinish, ReplayError,
         Crash, walVars
<1>00. AllWhole(file) /\ AnsweredAreKept /\ ReplayKeeps
  BY <1>0 DEF KeepInv
<1> USE <1>00 DEF TypeOK, AllWhole, AnsweredAreKept, ReplayKeeps, ReadAreKept,
                  Free, replayVars
<1>1. ASSUME NEW e \in Events, AppendLine(e)
      PROVE  (AllWhole(file) /\ AnsweredAreKept /\ ReplayKeeps)'
  <2>1. PICK r \in Record : r.event = e /\ r.part = "whole" /\ file' = Append(file, r)
    BY <1>1, Records DEF AppendLine, Written
  <2>2. AllWhole(file')
    BY <2>1, Appended
  <2>3. Holds(file', e) /\ \A x \in Events : Holds(file, x) => Holds(file', x)
    BY <2>1, AppendHolds
  <2>4. AnsweredAreKept'
    BY <1>1, <2>3 DEF AppendLine, Answered
  <2> QED
    BY <1>1, <2>2, <2>4 DEF AppendLine
<1>2. ASSUME NEW e \in Events, AppendFails(e)
      PROVE  (AllWhole(file) /\ AnsweredAreKept /\ ReplayKeeps)'
  BY <1>2 DEF AppendFails, Answered
<1>3. ASSUME NEW e \in Events, AppendTears(e) PROVE FALSE
  BY <1>3 DEF AppendTears
<1>4. CASE ReplayBegin
  BY <1>4 DEF ReplayBegin
<1>5. CASE ReplaySkip
  BY <1>5 DEF ReplaySkip, More, Advance, Readable, StartsLine, EndsLine
<1>6. CASE ReplayAck
  <2>1. pos + 1 \in 1..Len(file) /\ pos' = pos + 1
    BY <1>6 DEF ReplayAck, More, Advance
  <2>2. file[pos + 1].event \in Events
    BY <2>1, Element, Records
  <2>3. /\ copies'[file[pos + 1].event] > 0
        /\ \A e \in Events : copies[e] > 0 => copies'[e] > 0
    BY <1>6, <2>2 DEF ReplayAck, Stored, NextRecord
  <2>4. \A i \in 1..Len(file) : file[i].event \in Events
    BY Element, Records
  <2>5. ReadAreKept'
    BY <1>6, <2>1, <2>3, <2>4 DEF ReplayAck, More
  <2> QED
    BY <1>6, <2>3, <2>5 DEF ReplayAck, More
<1>7. CASE ReplayRefused
  <2>1. pos + 1 \in 1..Len(file) /\ pos' = pos + 1 /\ pending' = Append(pending, file[pos + 1])
    BY <1>7 DEF ReplayRefused, More, Advance, Refuse, NextRecord
  <2>2. file[pos + 1] \in Record /\ \A i \in 1..Len(file) : file[i].event \in Events
    BY <2>1, Element, Records
  <2>3. \A e \in Events : copies[e] > 0 => copies'[e] > 0
    BY <1>7, <2>2, Records DEF ReplayRefused, Stored, NextRecord
  <2>4. /\ Holds(pending', file[pos + 1].event)
        /\ \A e \in Events : Holds(pending, e) => Holds(pending', e)
    BY <2>1, <2>2, AppendHolds
  <2>5. AllWhole(pending')
    BY <1>7, <2>1, <2>2, Appended DEF ReplayRefused, More
  <2>6. \A i \in 1..pos :
            copies'[file[i].event] > 0 \/ Holds(pending', file[i].event)
    <3>1. rpc = "reading" /\ pos <= Len(file)
      BY <1>7 DEF ReplayRefused, More
    <3> QED
      BY <3>1, <2>2, <2>3, <2>4
  <2>7. ReadAreKept'
    BY <1>7, <2>1, <2>4, <2>6 DEF ReplayRefused
  <2> QED
    BY <1>7, <2>3, <2>5, <2>7 DEF ReplayRefused, More
<1>8. CASE ReplayWriteTmp
  BY <1>8 DEF ReplayWriteTmp
<1>9. CASE ReplayFinish
  <2>1. CASE acked > 0
    <3>1. file' = pending /\ pos = Len(file)
      BY <1>9, <2>1 DEF ReplayFinish, Survivors
    <3>2. \A e \in Events : Holds(file, e) => copies[e] > 0 \/ Holds(pending, e)
      BY <1>9, <3>1 DEF ReplayFinish, Holds
    <3> QED
      BY <1>9, <3>1, <3>2 DEF ReplayFinish
  <2>2. CASE ~ (acked > 0)
    BY <1>9, <2>2 DEF ReplayFinish, Survivors
  <2> QED
    BY <2>1, <2>2
<1>10. CASE ReplayError
  BY <1>10 DEF ReplayError
<1>11. CASE Crash
  BY <1>11 DEF Crash
<1>12. CASE UNCHANGED walVars
  BY <1>12 DEF walVars
<1> QED
  BY <1>1, <1>2, <1>3, <1>4, <1>5, <1>6, <1>7, <1>8, <1>9, <1>10, <1>11, <1>12
     DEF Next, AppendEvent, ReplayStep

\* While no append was torn, every event Append returned nil for is in the file
\* or in the sink, whatever replays, failures and crashes come between.
THEOREM NothingIsForgotten == Spec => []NothingForgotten
<1>1. Init => KeepInv
  BY DEF Init, KeepInv, AllWhole, AnsweredAreKept, ReplayKeeps
<1>2. TypeOK /\ KeepInv /\ [Next]_walVars => KeepInv'
  BY KeepStep
<1>3. TypeOK /\ KeepInv => NothingForgotten
  BY WholeIsReadable DEF KeepInv, NothingForgotten, Damaged, Safe, AnsweredAreKept
<1> QED
  BY <1>1, <1>2, <1>3, TypeCorrect, PTL DEF Spec

-----------------------------------------------------------------------------
\* RedeliveryBounded is not inductive either: an event is delivered again only
\* if it is still in the file, so what is there, and not yet read by a replay,
\* must not have used up the bound.  An event is in the file at most once.
FileOnce == \A i, j \in DOMAIN file : file[i].event = file[j].event => i = j

Undelivered == \A i \in DOMAIN file : Free \/ acked = 0 \/ i > pos => copies[file[i].event] <= slips

PendingOnce ==
    rpc # "off" =>
      /\ \A k \in DOMAIN pending :
            copies[pending[k].event] <= slips /\ \E i \in 1..pos : file[i] = pending[k]
      /\ \A k, m \in DOMAIN pending : pending[k].event = pending[m].event => k = m

DeliverInv == FileOnce /\ Undelivered /\ PendingOnce /\ RedeliveryBounded

\* What has not been given to Append is neither in the file nor in the sink.
Fresh == \A e \in Events : answer[e] = "none" => copies[e] = 0 /\ ~ Holds(file, e)

\* An append adds at most its own event.
LEMMA AppendAdds ==
    ASSUME TypeOK, NEW e \in Events, AppendEvent(e)
    PROVE  /\ answer' = [answer EXCEPT ![e] = answer'[e]] /\ answer'[e] # "none"
           /\ UNCHANGED <<copies, replayVars, slips>> /\ Free
           /\ \/ UNCHANGED file
              \/ \E r \in Record : r.event = e /\ file' = Append(file, r)
           /\ \A x \in Events \ {e} : Holds(file', x) <=> Holds(file, x)
<1>1. \/ UNCHANGED file
      \/ \E r \in Record : r.event = e /\ file' = Append(file, r)
  BY Records DEF AppendEvent, AppendLine, AppendFails, AppendTears, Written
<1>2. CASE UNCHANGED file
  BY <1>2, Records DEF AppendEvent, AppendLine, AppendFails, AppendTears, Answered, TypeOK
<1>3. CASE \E r \in Record : r.event = e /\ file' = Append(file, r)
  <2>1. PICK r \in Record : r.event = e /\ file' = Append(file, r)
    BY <1>3
  <2>2. /\ DOMAIN file = 1..Len(file) /\ DOMAIN file' = 1..(Len(file) + 1)
        /\ file'[Len(file) + 1] = r /\ \A i \in 1..Len(file) : file'[i] = file[i]
    BY <2>1, Appended DEF TypeOK
  <2>3. \A x \in Events \ {e} : Holds(file', x) <=> Holds(file, x)
    BY <2>1, <2>2 DEF Holds
  <2>4. /\ answer' = [answer EXCEPT ![e] = answer'[e]] /\ answer'[e] # "none"
        /\ UNCHANGED <<copies, replayVars, slips>> /\ Free
    BY DEF AppendEvent, AppendLine, AppendFails, AppendTears, Answered, TypeOK
  <2> QED
    BY <1>1, <2>3, <2>4
<1> QED
  BY <1>1, <1>2, <1>3

\* An event that is not in the file and has not used up the bound may be
\* appended.
LEMMA AppendDelivers ==
    ASSUME TypeOK, DeliverInv, NEW e \in Events, AppendEvent(e),
           copies[e] <= slips, ~ Holds(file, e)
    PROVE  DeliverInv'
<1>1. /\ UNCHANGED <<copies, replayVars, slips>> /\ Free
      /\ \/ UNCHANGED file
         \/ \E r \in Record : r.event = e /\ file' = Append(file, r)
  BY AppendAdds
<1>2. CASE UNCHANGED file
  BY <1>1, <1>2 DEF DeliverInv, FileOnce, Undelivered, PendingOnce, RedeliveryBounded, Free,
                    replayVars
<1>3. CASE \E r \in Record : r.event = e /\ file' = Append(file, r)
  <2>1. PICK r \in Record : r.event = e /\ file' = Append(file, r)
    BY <1>3
  <2>2. /\ DOMAIN file = 1..Len(file) /\ DOMAIN file' = 1..(Len(file) + 1)
        /\ file'[Len(file) + 1] = r /\ \A i \in 1..Len(file) : file'[i] = file[i]
    BY <2>1, Appended DEF TypeOK
  <2>3. \A i \in 1..Len(file) : file[i].event # e
    BY <2>2 DEF Holds
  <2>4. FileOnce'
    BY <2>1, <2>2, <2>3 DEF DeliverInv, FileOnce
  <2>5. Undelivered'
    <3>1. \A i \in 1..Len(file) : copies[file[i].event] <= slips
      BY <1>1, <2>2 DEF DeliverInv, Undelivered
    <3>2. \A i \in 1..(Len(file) + 1) : i \in 1..Len(file) \/ i = Len(file) + 1
      BY DEF TypeOK
    <3>3. \A i \in DOMAIN file' : copies[file'[i].event] <= slips
      BY <2>1, <2>2, <3>1, <3>2
    <3> QED
      BY <1>1, <3>3 DEF Undelivered
  <2>6. PendingOnce'
    <3>1. rpc' = "off"
      BY <1>1 DEF Free, replayVars
    <3> QED
      BY <3>1 DEF PendingOnce
  <2>7. RedeliveryBounded'
    BY <1>1 DEF DeliverInv, RedeliveryBounded
  <2> QED
    BY <2>4, <2>5, <2>6, <2>7 DEF DeliverInv
<1> QED
  BY <1>1, <1>2, <1>3

\* A replay, an interrupted one too, touches only what is in the file.
LEMMA OnlyFromFile ==
    ASSUME TypeOK, DeliverInv, ReplayBegin \/ ReplayStep \/ ReplayError \/ Crash,
           NEW e \in Events, ~ Holds(file, e)
    PROVE  answer' = answer /\ ~ Holds(file', e) /\ copies'[e] = copies[e]
<1>0. /\ copies \in [Events -> Nat] /\ DOMAIN file = 1..Len(file) /\ pos \in Nat
      /\ \A i \in 1..Len(file) : file[i].event # e /\ file[i].event \in Events
  BY Element, Records DEF TypeOK, Holds
<1>1. CASE ReplayAck \/ ReplayRefused
  <2>1. pos + 1 \in 1..Len(file) /\ UNCHANGED <<file, answer>>
    BY <1>0, <1>1 DEF ReplayAck, ReplayRefused, More, TypeOK
  <2>2. copies'[e] = copies[e]
    BY <1>0, <1>1, <2>1 DEF ReplayAck, ReplayRefused, Stored, NextRecord
  <2> QED
    BY <2>1, <2>2
<1>2. CASE ReplayFinish
  <2>1. rpc # "off" /\ (file' = pending \/ file' = file) /\ UNCHANGED <<answer, copies>>
    BY <1>2 DEF ReplayFinish, Survivors
  <2>2. \A k \in DOMAIN pending : \E i \in 1..Len(file) : file[i] = pending[k]
    BY <1>0, <2>1 DEF DeliverInv, PendingOnce, TypeOK, Free
  <2> QED
    BY <1>0, <2>1, <2>2 DEF Holds
<1>3. CASE ReplayBegin \/ ReplaySkip \/ ReplayWriteTmp \/ ReplayError \/ Crash
  BY <1>3 DEF ReplayBegin, ReplaySkip, ReplayWriteTmp, ReplayError, Crash
<1> QED
  BY <1>1, <1>2, <1>3 DEF ReplayStep

\* A replay, an interrupted one too, keeps the bound of what it may still deliver.
LEMMA ReplayDelivers ==
    ASSUME TypeOK, DeliverInv, ReplayBegin \/ ReplayStep \/ ReplayError \/ Crash
    PROVE  DeliverInv'
<1>0. /\ slips \in Nat /\ copies \in [Events -> Nat]
      /\ \A i \in 1..Len(file) : file[i] \in Record /\ file[i].event \in Events
  BY Element, Records, WALAssumption DEF TypeOK
<1>i. FileOnce /\ Undelivered /\ PendingOnce /\ RedeliveryBounded
  BY DEF DeliverInv
<1>00. \A i, j \in 1..Len(file) : file[i].event = file[j].event => i = j
  BY <1>i DEF TypeOK, FileOnce
<1> USE DEF Free, replayVars
<1>1. CASE ReplayBegin
  BY <1>i, <1>1 DEF ReplayBegin, DeliverInv, FileOnce, Undelivered, PendingOnce,
                    RedeliveryBounded
<1>2. CASE ReplaySkip
  BY <1>i, <1>2 DEF ReplaySkip, More, Advance, TypeOK, DeliverInv, FileOnce,
                    Undelivered, PendingOnce, RedeliveryBounded
<1>3. CASE ReplayAck
  <2> DEFINE E == file[pos + 1].event
  <2>1. /\ rpc = "reading" /\ pos \in Nat /\ pos + 1 \in 1..Len(file) /\ acked \in Nat
        /\ pos' = pos + 1 /\ acked' = acked + 1
        /\ UNCHANGED <<file, answer, rpc, pending, slips>>
    BY <1>3 DEF ReplayAck, More, Advance, Ack, TypeOK
  <2>2. E \in Events /\ copies[E] <= slips
    BY <1>0, <1>i, <2>1 DEF TypeOK, Undelivered
  <2>3. copies'[E] = copies[E] + 1 /\ \A e \in Events \ {E} : copies'[e] = copies[e]
    BY <1>0, <1>3, <2>2 DEF ReplayAck, Stored, NextRecord
  <2>4. \A j \in 1..Len(file) : j # pos + 1 => file[j].event \in Events \ {E}
    BY <1>0, <1>00, <2>1
  <2>5. \A k \in DOMAIN pending : pending[k].event \in Events \ {E}
    BY <1>i, <2>1, <2>4 DEF PendingOnce
  <2>6. FileOnce'
    BY <1>i, <2>1, <2>2, <2>3 DEF FileOnce
  <2>7. Undelivered'
    <3>1. \A i \in DOMAIN file : i > pos + 1 => copies[file[i].event] <= slips
      BY <1>i, <2>1 DEF Undelivered, TypeOK
    <3>2. \A i \in DOMAIN file : i > pos + 1 => copies'[file[i].event] = copies[file[i].event]
      <4>1. \A i \in DOMAIN file : i \in 1..Len(file)
        BY DEF TypeOK
      <4> QED
        BY <2>1, <2>3, <2>4, <4>1
    <3>3. ~ Free' /\ acked' # 0
      BY <2>1
    <3> QED
      BY <2>1, <3>1, <3>2, <3>3 DEF Undelivered
  <2>8. PendingOnce'
    <3>1. \A k \in DOMAIN pending : copies'[pending[k].event] <= slips
      BY <1>i, <2>1, <2>3, <2>5 DEF PendingOnce
    <3>2. \A k \in DOMAIN pending : \E i \in 1..(pos + 1) : file[i] = pending[k]
      BY <1>i, <2>1 DEF PendingOnce
    <3> QED
      BY <1>i, <2>1, <3>1, <3>2 DEF PendingOnce
  <2>9. RedeliveryBounded'
    BY <1>0, <1>i, <2>1, <2>2, <2>3 DEF RedeliveryBounded
  <2> QED
    BY <2>6, <2>7, <2>8, <2>9 DEF DeliverInv
<1>4. CASE ReplayRefused
  <2> DEFINE E == file[pos + 1].event
  <2>1. /\ rpc = "reading" /\ pos \in Nat /\ pos + 1 \in 1..Len(file)
        /\ pos' = pos + 1 /\ pending' = Append(pending, file[pos + 1])
        /\ UNCHANGED <<file, answer, rpc, acked>>
    BY <1>4 DEF ReplayRefused, More, Advance, Refuse, NextRecord, TypeOK
  <2>2. file[pos + 1] \in Record /\ E \in Events /\ copies[E] <= slips
    BY <1>0, <1>i, <2>1 DEF TypeOK, Undelivered
  <2>3. \/ copies' = copies /\ slips' = slips
        \/ slips' = slips + 1 /\ copies' = [copies EXCEPT ![E] = @ + 1]
    BY <1>4 DEF ReplayRefused, Slip, Stored, NextRecord
  <2>4. /\ slips' \in Nat /\ slips <= slips' /\ copies'[E] <= slips'
        /\ \A e \in Events : copies'[e] - copies[e] <= slips' - slips
        /\ \A e \in Events \ {E} : copies'[e] = copies[e]
        /\ copies' \in [Events -> Nat]
    BY <1>0, <2>2, <2>3
  <2>5. /\ DOMAIN pending = 1..Len(pending) /\ DOMAIN pending' = 1..(Len(pending) + 1)
        /\ pending'[Len(pending) + 1] = file[pos + 1]
        /\ \A k \in 1..Len(pending) : pending'[k] = pending[k]
        /\ Len(pending) \in Nat
    BY <2>1, <2>2, Appended DEF TypeOK
  <2>6. \A j \in 1..Len(file) : j # pos + 1 => file[j].event \in Events \ {E}
    BY <1>0, <1>00, <2>1
  <2>7. \A k \in 1..Len(pending) :
          /\ pending[k].event \in Events \ {E} /\ copies[pending[k].event] <= slips
          /\ \E i \in 1..pos : file[i] = pending[k]
    BY <1>i, <2>1, <2>5, <2>6 DEF PendingOnce
  <2>8. FileOnce'
    BY <1>i, <2>1, <2>2, <2>4 DEF FileOnce
  <2>9. Undelivered'
    <3>1. \A i \in DOMAIN file : acked = 0 \/ i > pos + 1 => copies[file[i].event] <= slips
      BY <1>i, <2>1 DEF Undelivered, TypeOK
    <3>2. \A i \in DOMAIN file : file[i].event \in Events
      BY <1>0 DEF TypeOK
    <3>3. \A e \in Events : copies[e] <= slips => copies'[e] <= slips'
      BY <1>0, <2>4
    <3> QED
      BY <2>1, <3>1, <3>2, <3>3 DEF Undelivered
  <2>10. PendingOnce'
    <3>1. \A k \in 1..Len(pending) : copies'[pending[k].event] <= slips'
      BY <1>0, <2>4, <2>7
    <3>2. \A k \in DOMAIN pending' : copies'[pending'[k].event] <= slips'
      BY <2>4, <2>5, <3>1
    <3>3. \A k \in DOMAIN pending' : \E i \in 1..pos' : file'[i] = pending'[k]
      BY <2>1, <2>5, <2>7
    <3>4. \A k, m \in 1..Len(pending) : pending[k].event = pending[m].event => k = m
      BY <1>i, <2>1, <2>5 DEF PendingOnce
    <3>5. \A k, m \in DOMAIN pending' : pending'[k].event = pending'[m].event => k = m
      BY <2>5, <2>7, <3>4
    <3> QED
      BY <3>2, <3>3, <3>5 DEF PendingOnce
  <2>11. RedeliveryBounded'
    BY <1>0, <1>i, <2>4 DEF RedeliveryBounded
  <2> QED
    BY <2>8, <2>9, <2>10, <2>11 DEF DeliverInv
<1>5. CASE ReplayWriteTmp
  BY <1>i, <1>5 DEF ReplayWriteTmp, DeliverInv, FileOnce, Undelivered,
                    PendingOnce, RedeliveryBounded
<1>6. CASE ReplayFinish
  <2>1. CASE acked > 0
    <3>1. file' = pending /\ rpc # "off" /\ rpc' = "off"
          /\ UNCHANGED <<answer, copies, pos, acked, pending, slips>>
      BY <1>6, <2>1 DEF ReplayFinish, Survivors
    <3>3. FileOnce'
      BY <1>i, <3>1 DEF FileOnce, PendingOnce
    <3>4. Undelivered'
      BY <1>i, <3>1 DEF Undelivered, PendingOnce
    <3> QED
      BY <1>i, <3>1, <3>3, <3>4 DEF DeliverInv, PendingOnce, RedeliveryBounded
  <2>2. CASE ~ (acked > 0)
    <3>1. acked = 0 /\ rpc' = "off"
          /\ UNCHANGED <<file, answer, copies, pos, acked, pending, slips>>
      BY <1>6, <2>2 DEF ReplayFinish, Survivors, TypeOK
    <3>2. FileOnce' /\ Undelivered'
      BY <1>i, <3>1 DEF FileOnce, Undelivered
    <3> QED
      BY <1>i, <3>1, <3>2 DEF DeliverInv, PendingOnce, RedeliveryBounded
  <2> QED
    BY <2>1, <2>2
<1>7. ASSUME ReplayError \/ Crash PROVE DeliverInv'
  <2>1. slips' = slips + 1 /\ rpc' = "off" /\ UNCHANGED <<file, answer, copies>>
    BY <1>7 DEF ReplayError, Crash, Slip
  <2>2. FileOnce'
    BY <1>i, <2>1 DEF FileOnce
  <2>3. \A i \in DOMAIN file : file[i].event \in Events
    BY <1>0 DEF TypeOK
  <2>4. Undelivered' /\ RedeliveryBounded'
    BY <1>0, <1>i, <2>1, <2>3 DEF Undelivered, RedeliveryBounded
  <2> QED
    BY <2>1, <2>2, <2>4 DEF DeliverInv, PendingOnce
<1> QED
  BY <1>1, <1>2, <1>3, <1>4, <1>5, <1>6, <1>7 DEF ReplayStep

\* An event reaches the sink at most once more than there were interrupted
\* replays and writes that failed after storing.
THEOREM RedeliveredOnlyAfterSlips == Spec => []RedeliveryBounded
<1>1. Init => DeliverInv /\ Fresh
  BY WALAssumption
     DEF Init, DeliverInv, FileOnce, Undelivered, PendingOnce, RedeliveryBounded, Fresh, Holds
<1>2. TypeOK /\ DeliverInv /\ Fresh /\ [Next]_walVars => DeliverInv' /\ Fresh'
  <2> SUFFICES ASSUME TypeOK, DeliverInv, Fresh, [Next]_walVars PROVE DeliverInv' /\ Fresh'
    OBVIOUS
  <2>1. ASSUME NEW e \in Events, AppendEvent(e) PROVE DeliverInv' /\ Fresh'
    <3>1. answer[e] = "none"
      BY <2>1 DEF AppendEvent, AppendLine, AppendFails, AppendTears
    <3>2. copies[e] = 0 /\ ~ Holds(file, e) /\ slips \in Nat
      BY <3>1, WALAssumption DEF Fresh, TypeOK
    <3>3. DeliverInv'
      BY <2>1, <3>2, AppendDelivers
    <3>4. Fresh'
      BY <2>1, AppendAdds DEF Fresh, TypeOK
    <3> QED
      BY <3>3, <3>4
  <2>2. CASE ReplayBegin \/ ReplayStep \/ ReplayError \/ Crash
    <3>1. answer' = answer
      BY <2>2 DEF ReplayBegin, ReplayStep, ReplaySkip, ReplayAck, ReplayRefused, ReplayWriteTmp,
                  ReplayFinish, ReplayError, Crash
    <3> QED
      BY <2>2, <3>1, OnlyFromFile, ReplayDelivers DEF Fresh
  <2>3. CASE UNCHANGED walVars
    BY <2>3 DEF walVars, DeliverInv, FileOnce, Undelivered, PendingOnce, RedeliveryBounded, Free,
                Fresh
  <2> QED
    BY <2>1, <2>2, <2>3 DEF Next
<1>3. DeliverInv => RedeliveryBounded
  BY DEF DeliverInv
<1> QED
  BY <1>1, <1>2, <1>3, TypeCorrect, PTL DEF Spec

-----------------------------------------------------------------------------
\* What may leave the file.  A record that is not whole was torn; while Replay
\* runs, each readable record it has read is stored or pending as it is; only
\* the last one, read at the end of the file, can be without its newline, so
\* that the pending lines stay apart when they become the file.
TornKnown(s) == \A i \in DOMAIN s : s[i].part # "whole" => s[i].event \in torn

LinesApart ==
    \A k \in DOMAIN pending :
        /\ pending[k].part # "cut"
        /\ pending[k].part = "whole" \/ (k = Len(pending) /\ pos = Len(file))

ReadableAreKept ==
    \A i \in 1..pos : Readable(i) =>
        copies[file[i].event] > 0 \/ \E k \in DOMAIN pending : pending[k] = file[i]

RenameInv ==
    /\ TornKnown(file)
    /\ rpc # "off" =>
          /\ TornKnown(pending) /\ LinesApart /\ ReadableAreKept
          /\ rpc = "renaming" => pos = Len(file)

\* A record appended to the file leaves every other one readable but a last one
\* that has no newline.
LEMMA AppendSpares ==
    ASSUME TypeOK, TornKnown(file), NEW r \in Record, file' = Append(file, r), NEW e \in Events,
           InFile(e), ~ InFile(e)'
    PROVE  e \in torn /\ Len(file') > Len(file)
<1>1. PICK i \in 1..Len(file) : file[i].event = e /\ Readable(i)
  BY DEF InFile, TypeOK
<1>2. /\ DOMAIN file = 1..Len(file) /\ DOMAIN file' = 1..(Len(file) + 1)
      /\ Len(file') = Len(file) + 1 /\ Len(file) \in Nat
      /\ \A j \in 1..Len(file) : file'[j] = file[j]
  BY Appended DEF TypeOK
<1>3. file'[i] = file[i] /\ i \in DOMAIN file'
  BY <1>2
<1>4. ~ Readable(i)'
  BY <1>1, <1>3 DEF InFile
<1>5. StartsLine(i)'
  BY <1>1, <1>2 DEF Readable, StartsLine
<1>6. file[i].part # "whole"
  BY <1>1, <1>3, <1>4, <1>5 DEF Readable, EndsLine
<1> QED
  BY <1>1, <1>2, <1>6 DEF TornKnown

\* The pending lines, as the file, are all readable.
LEMMA PendingIsReadable ==
    ASSUME TypeOK, LinesApart, file' = pending, NEW k \in DOMAIN pending,
           NEW e \in Events, pending[k].event = e
    PROVE  InFile(e)'
<1>1. DOMAIN pending = 1..Len(pending) /\ Len(pending) \in Nat
  BY DEF TypeOK
<1>2. Readable(k)'
  BY <1>1 DEF LinesApart, Readable, StartsLine, EndsLine
<1> QED
  BY <1>2 DEF InFile

\* Every append and every step of a replay keeps that.
LEMMA RenameStep == ASSUME TypeOK, RenameInv, [Next]_walVars PROVE RenameInv'
<1>0. /\ \A i \in 1..Len(file) : file[i] \in Record /\ file[i].event \in Events
      /\ DOMAIN file = 1..Len(file) /\ Len(file) \in Nat /\ pos \in Nat
      /\ rpc # "off" => pos <= Len(file)
  BY Element, Records DEF TypeOK, Free
<1>00. More => pos # Len(file) /\ (pos + 1 < Len(file) \/ pos + 1 = Len(file))
  BY DEF TypeOK, More
<1>i. TornKnown(file)
  BY DEF RenameInv
<1>ii. rpc # "off" => /\ TornKnown(pending) /\ LinesApart /\ ReadableAreKept
                      /\ rpc = "renaming" => pos = Len(file)
  BY DEF RenameInv
<1> USE DEF Free, replayVars
<1>1. ASSUME NEW e \in Events, AppendLine(e) PROVE RenameInv'
  <2>1. PICK r \in Record : r.part = "whole" /\ file' = Append(file, r)
    BY <1>1, Records DEF AppendLine, Written
  <2>2. TornKnown(file')
    BY <1>i, <2>1, Appended DEF TornKnown, TypeOK
  <2>3. torn' = torn /\ rpc' = "off"
    BY <1>1 DEF AppendLine
  <2> QED
    BY <2>2, <2>3 DEF RenameInv, TornKnown
<1>2. ASSUME NEW e \in Events, AppendFails(e) PROVE RenameInv'
  BY <1>i, <1>2 DEF AppendFails, RenameInv, TornKnown
<1>3. ASSUME NEW e \in Events, AppendTears(e) PROVE RenameInv'
  <2>1. PICK r \in Record : r.event = e /\ file' = Append(file, r)
    BY <1>3, Records DEF AppendTears, Written
  <2>2. torn' = torn \cup {e} /\ rpc' = "off"
    BY <1>3 DEF AppendTears
  <2>3. TornKnown(file)'
    BY <1>i, <2>1, <2>2, Appended DEF TornKnown, TypeOK
  <2> QED
    BY <2>2, <2>3 DEF RenameInv
<1>4. CASE ReplayBegin
  <2>1. /\ pos' = 0 /\ pending' = <<>> /\ rpc' = "reading" /\ file' = file /\ torn' = torn
        /\ DOMAIN <<>> = {}
    BY <1>4 DEF ReplayBegin
  <2> QED
    BY <1>i, <2>1 DEF RenameInv, TornKnown, LinesApart, ReadableAreKept
<1>5. ASSUME More, Advance, UNCHANGED <<file, torn, rpc>>,
             TornKnown(pending)',
             \A e \in Events : copies[e] > 0 => copies'[e] > 0,
             \A k \in DOMAIN pending : \E m \in DOMAIN pending' : pending'[m] = pending[k],
             Readable(pos + 1) =>
                 \/ copies'[file[pos + 1].event] > 0
                 \/ \E k \in DOMAIN pending' : pending'[k] = file[pos + 1],
             LinesApart'
      PROVE  RenameInv'
  <2>1. /\ rpc = "reading" /\ rpc' = "reading" /\ pos' = pos + 1 /\ pos + 1 \in 1..Len(file)
        /\ file' = file /\ torn' = torn
    BY <1>0, <1>5 DEF More, Advance
  <2>2. \A i : Readable(i)' <=> Readable(i)
    BY <2>1 DEF Readable, StartsLine, EndsLine
  <2>3. ASSUME NEW i \in 1..pos, Readable(i)
        PROVE  copies'[file[i].event] > 0 \/ \E k \in DOMAIN pending' : pending'[k] = file[i]
    <3>1. i \in 1..Len(file) /\ file[i].event \in Events
      BY <1>0, <2>1
    <3>2. copies[file[i].event] > 0 \/ \E k \in DOMAIN pending : pending[k] = file[i]
      BY <1>ii, <2>1, <2>3 DEF ReadableAreKept
    <3> QED
      BY <1>5, <3>1, <3>2
  <2>4. \A i \in 1..(pos + 1) : i \in 1..pos \/ i = pos + 1
    BY <1>0
  <2>5. ReadableAreKept'
    BY <1>5, <2>1, <2>2, <2>3, <2>4 DEF ReadableAreKept
  <2>6. TornKnown(file)'
    BY <1>i, <2>1 DEF TornKnown
  <2> QED
    BY <1>5, <2>1, <2>5, <2>6 DEF RenameInv
<1>6. CASE ReplaySkip
  <2>1. LinesApart'
    BY <1>00, <1>ii, <1>6 DEF ReplaySkip, More, LinesApart
  <2>2. TornKnown(pending)'
    BY <1>ii, <1>6 DEF ReplaySkip, More, TornKnown
  <2> QED
    BY <1>5, <1>6, <2>1, <2>2 DEF ReplaySkip
<1>7. CASE ReplayAck
  <2>1. pos + 1 \in 1..Len(file) /\ copies \in [Events -> Nat]
    BY <1>0, <1>7 DEF ReplayAck, More, TypeOK
  <2>2. /\ copies'[file[pos + 1].event] > 0
        /\ \A e \in Events : copies[e] > 0 => copies'[e] > 0
    BY <1>0, <1>7, <2>1 DEF ReplayAck, Stored, NextRecord
  <2>3. LinesApart'
    BY <1>00, <1>ii, <1>7 DEF ReplayAck, More, LinesApart
  <2>4. TornKnown(pending)'
    BY <1>ii, <1>7 DEF ReplayAck, More, TornKnown
  <2> QED
    BY <1>5, <1>7, <2>2, <2>3, <2>4 DEF ReplayAck
<1>8. CASE ReplayRefused
  <2>1. /\ pos + 1 \in 1..Len(file) /\ file[pos + 1] \in Record /\ copies \in [Events -> Nat]
        /\ pos' = pos + 1 /\ pending' = Append(pending, file[pos + 1]) /\ rpc = "reading"
        /\ UNCHANGED <<file, torn, rpc>> /\ Readable(pos + 1)
    BY <1>0, <1>8 DEF ReplayRefused, More, Advance, Refuse, NextRecord, TypeOK
  <2>2. /\ DOMAIN pending = 1..Len(pending) /\ DOMAIN pending' = 1..(Len(pending) + 1)
        /\ pending'[Len(pending) + 1] = file[pos + 1] /\ Len(pending) \in Nat
        /\ Len(pending') = Len(pending) + 1
        /\ \A k \in 1..Len(pending) : pending'[k] = pending[k]
    BY <2>1, Appended DEF TypeOK
  <2>3. \A e \in Events : copies[e] > 0 => copies'[e] > 0
    <3>1. \/ copies' = copies
          \/ copies' = [copies EXCEPT ![NextRecord.event] = @ + 1]
      BY <1>8 DEF ReplayRefused, Stored
    <3> QED
      BY <2>1, <3>1
  <2>4. file[pos + 1].part # "cut" /\ (file[pos + 1].part = "whole" \/ pos + 1 = Len(file))
    <3>1. pos + 1 < Len(file) \/ pos + 1 = Len(file)
      BY <1>00, <1>8 DEF ReplayRefused
    <3> QED
      BY <2>1, <3>1 DEF Readable, EndsLine
  <2>5. \A k \in 1..Len(pending) : pending[k].part = "whole"
    <3>1. pos # Len(file)
      BY <1>00, <1>8 DEF ReplayRefused
    <3> QED
      BY <1>ii, <2>1, <2>2, <3>1 DEF LinesApart
  <2>6. LinesApart'
    BY <2>1, <2>2, <2>4, <2>5 DEF LinesApart
  <2>7. TornKnown(pending)'
    BY <1>0, <1>i, <1>ii, <2>1, <2>2 DEF TornKnown
  <2>8. \A k \in DOMAIN pending : \E m \in DOMAIN pending' : pending'[m] = pending[k]
    BY <2>2
  <2>9. \E k \in DOMAIN pending' : pending'[k] = file[pos + 1]
    BY <2>2
  <2> QED
    BY <1>5, <1>8, <2>1, <2>3, <2>6, <2>7, <2>8, <2>9 DEF ReplayRefused
<1>9. CASE ReplayWriteTmp
  <2>1. /\ UNCHANGED <<file, torn, copies, pos, pending>> /\ rpc # "off" /\ pos = Len(file)
    BY <1>9 DEF ReplayWriteTmp
  <2> QED
    BY <1>i, <1>ii, <2>1 DEF RenameInv, TornKnown, LinesApart, ReadableAreKept,
                             Readable, StartsLine, EndsLine
<1>10. CASE ReplayFinish
  <2>1. (file' = pending \/ file' = file) /\ rpc # "off" /\ rpc' = "off" /\ torn' = torn
    BY <1>10 DEF ReplayFinish, Survivors
  <2> QED
    BY <1>i, <1>ii, <2>1 DEF RenameInv, TornKnown
<1>11. ASSUME ReplayError \/ Crash PROVE RenameInv'
  BY <1>i, <1>11 DEF ReplayError, Crash, RenameInv, TornKnown
<1>12. CASE UNCHANGED walVars
  BY <1>i, <1>ii, <1>12 DEF walVars, RenameInv, TornKnown, LinesApart, ReadableAreKept,
                            Readable, StartsLine, EndsLine
<1> QED
  BY <1>1, <1>2, <1>3, <1>4, <1>6, <1>7, <1>8, <1>9, <1>10, <1>11, <1>12
     DEF Next, AppendEvent, ReplayStep

\* What can be read and then cannot is stored, or is torn and written behind.
LEMMA LeavesOnlySo ==
    ASSUME TypeOK, RenameInv, [Next]_walVars, NEW e \in Events, InFile(e), ~ InFile(e)'
    PROVE  copies[e] > 0 \/ (e \in torn /\ Len(file') > Len(file))
<1>1. file' # file
  BY DEF InFile, Readable, StartsLine, EndsLine
<1>2. CASE \E r \in Record : file' = Append(file, r)
  BY <1>2, AppendSpares DEF RenameInv
<1>3. CASE ReplayFinish
  <2>1. file' = pending /\ rpc = "renaming"
    BY <1>1, <1>3 DEF ReplayFinish, Survivors
  <2>2. LinesApart /\ ReadableAreKept /\ pos = Len(file)
    BY <2>1 DEF RenameInv
  <2>3. PICK i \in 1..Len(file) : file[i].event = e /\ Readable(i)
    BY DEF InFile, TypeOK
  <2>4. copies[e] > 0 \/ \E k \in DOMAIN pending : pending[k].event = e
    BY <2>2, <2>3 DEF ReadableAreKept
  <2> QED
    BY <2>1, <2>2, <2>4, PendingIsReadable
<1> QED
  BY <1>1, <1>2, <1>3, Records
     DEF Next, AppendEvent, AppendLine, AppendFails, AppendTears, Written, ReplayBegin, ReplayStep,
         ReplaySkip, ReplayAck, ReplayRefused, ReplayWriteTmp, ReplayError, Crash, walVars

LEMMA RenameInit == ASSUME Init PROVE RenameInv
  BY DEF Init, RenameInv, TornKnown

\* Nothing that can be read leaves the log, by an append or by a replay's
\* rename, before the sink has it, but a torn line that is written behind.
THEOREM NothingRemovedTooEarly == Spec => RemovedOnlyWhenStored
<1>1. TypeOK /\ RenameInv /\ [Next]_walVars
        => [\A e \in Events : InFile(e) /\ ~ InFile(e)' =>
              copies[e] > 0 \/ (e \in torn /\ Len(file') > Len(file))]_walVars
  BY LeavesOnlySo
<1> QED
  BY <1>1, RenameInit, RenameStep, TypeCorrect, PTL DEF Spec, RemovedOnlyWhenStored

-----------------------------------------------------------------------------
\* A torn line at the end of the file has cost no other record yet: the next one
\* that is written may be lost with it.  Spent are the torn ones of which that is
\* not so any more, and there are as many as records that were lost.
Dangling(t) == file # <<>> /\ file[Len(file)].event = t /\ file[Len(file)].part # "whole"
Spent == {t \in torn : ~ Dangling(t)}

\* A pending line without its newline is the last of the file.
OpenIsLast ==
    rpc # "off" => \A k \in DOMAIN pending : pending[k].part # "whole" =>
        pos = Len(file) /\ pending[k] = file[pos]

TornRefused == \A e \in torn : answer[e] = "err"

DamageInv ==
    /\ TornRefused /\ OpenIsLast
    /\ Cardinality(Damaged) <= Cardinality(Spent)

\* Events, counted.
LEMMA EventsCounted ==
    ASSUME NEW S \in SUBSET Events
    PROVE  /\ IsFiniteSet(S) /\ Cardinality(S) \in Nat
           /\ \A e \in Events \ S : Cardinality(S \cup {e}) = Cardinality(S) + 1
           /\ \A T \in SUBSET Events : S \subseteq T => Cardinality(S) <= Cardinality(T)
<1>1. IsFiniteSet(S)
  BY FS_Subset, WALAssumption
<1>2. Cardinality(S) \in Nat
  BY <1>1, FS_CardinalityType
<1>3. ASSUME NEW e \in Events \ S
      PROVE  Cardinality(S \cup {e}) = Cardinality(S) + 1
  BY <1>1, FS_AddElement
<1>4. ASSUME NEW T \in SUBSET Events, S \subseteq T
      PROVE  Cardinality(S) <= Cardinality(T)
  <2>1. IsFiniteSet(T)
    BY FS_Subset, WALAssumption
  <2> QED
    BY <1>4, <2>1, FS_Subset
<1> QED
  BY <1>1, <1>2, <1>3, <1>4

\* Only an append that is answered nil can add to the damaged ones, and only its
\* own event.
LEMMA DamagedOnlyBy ==
    ASSUME TypeOK, RenameInv, TornRefused, [Next]_walVars
    PROVE  \A e \in Damaged' : e \in Damaged \/ (AppendLine(e) /\ ~ InFile(e)')
<1> SUFFICES ASSUME NEW e \in Damaged', e \notin Damaged
             PROVE  AppendLine(e) /\ ~ InFile(e)'
  OBVIOUS
<1>1. e \in Events /\ answer'[e] = "nil" /\ ~ InFile(e)' /\ ~ (copies'[e] > 0)
  BY DEF Damaged, Safe
<1>2. ~ (copies[e] > 0)
  <2>1. CASE ReplayAck \/ ReplayRefused
    <3>1. More
      BY <2>1 DEF ReplayAck, ReplayRefused
    <3>2. pos + 1 \in 1..Len(file)
      BY <3>1 DEF More, TypeOK, Free
    <3>3. NextRecord.event \in Events
      BY <3>2, Element, Records DEF NextRecord, TypeOK
    <3>4. copies' = copies \/ copies' = [copies EXCEPT ![NextRecord.event] = @ + 1]
      BY <2>1 DEF ReplayAck, ReplayRefused, Stored
    <3> QED
      BY <1>1, <3>3, <3>4 DEF TypeOK
  <2>2. CASE ~ (ReplayAck \/ ReplayRefused)
    <3>1. copies' = copies
      BY <2>2 DEF Next, AppendEvent, AppendLine, AppendFails, AppendTears, ReplayBegin, ReplayStep,
             ReplaySkip, ReplayWriteTmp, ReplayFinish, ReplayError, Crash, walVars
    <3> QED
      BY <1>1, <3>1
  <2> QED
    BY <2>1, <2>2
<1>3. answer[e] # "nil"
  <2> SUFFICES ASSUME answer[e] = "nil" PROVE FALSE
    OBVIOUS
  <2>1. InFile(e)
    BY <1>1, <1>2 DEF Damaged, Safe
  <2>2. e \in torn
    BY <1>1, <1>2, <2>1, LeavesOnlySo
  <2> QED
    BY <2>2 DEF TornRefused
<1>4. PICK d \in Events : AppendEvent(d)
  BY <1>1, <1>3 DEF Next, ReplayBegin, ReplayStep, ReplaySkip, ReplayAck, ReplayRefused,
         ReplayWriteTmp, ReplayFinish, ReplayError, Crash, walVars
<1>5. AppendLine(d) /\ d = e
  <2>1. answer \in [Events -> {"none", "nil", "err"}]
    BY DEF TypeOK
  <2>2. AppendLine(d) \/ answer' = [answer EXCEPT ![d] = "err"]
    BY <1>4 DEF AppendEvent, AppendFails, AppendTears, Answered
  <2>3. AppendLine(d)
    BY <1>1, <1>3, <2>1, <2>2
  <2>4. answer' = [answer EXCEPT ![d] = "nil"]
    BY <2>3 DEF AppendLine, Answered
  <2> QED
    BY <1>1, <1>3, <2>1, <2>3, <2>4
<1> QED
  BY <1>1, <1>5

\* A record that is damaged as it is written costs a torn one that had cost none.
LEMMA AppendCosts ==
    ASSUME TypeOK, RenameInv, DamageInv, NEW e \in Events, AppendLine(e), [Next]_walVars
    PROVE  Cardinality(Damaged') <= Cardinality(Spent')
<1>0. PICK n : n = Len(file)
  OBVIOUS
<1>1. PICK r \in Record : r.part = "whole" /\ r.event = e /\ file' = Append(file, r)
  BY Records DEF AppendLine, Written
<1>2. /\ DOMAIN file = 1..n /\ DOMAIN file' = 1..(n + 1) /\ Len(file') = n + 1 /\ n \in Nat
      /\ \A j \in 1..n : file'[j] = file[j]
      /\ file'[n + 1] = r
  BY <1>0, <1>1, Appended DEF TypeOK
<1>3. Damaged' \in SUBSET Events /\ Damaged \in SUBSET Events
      /\ Spent' \in SUBSET Events /\ Spent \in SUBSET Events /\ torn' = torn
  <2>1. torn' = torn /\ torn \subseteq Events
    BY DEF AppendLine, TypeOK
  <2> QED
    BY <2>1 DEF Damaged, Spent
<1>4. Spent' = torn
  <2>1. \A t : ~ Dangling(t)'
    BY <1>0, <1>1, <1>2 DEF Dangling
  <2> QED
    BY <1>3, <2>1 DEF Spent
<1>5. \A d \in Damaged' : d \in Damaged \/ (d = e /\ ~ InFile(e)')
  <2>1. \A d \in Events : AppendLine(d) => d = e
    <3> SUFFICES ASSUME NEW d \in Events, AppendLine(d) PROVE d = e
      OBVIOUS
    <3>1. file' = Append(file, [event |-> d, part |-> "whole"]) /\ file \in Seq(Record)
          /\ [event |-> d, part |-> "whole"] \in Record
      BY Records DEF AppendLine, Written, TypeOK
    <3>2. file'[n + 1] = [event |-> d, part |-> "whole"]
      BY <1>0, <3>1, Appended
    <3> QED
      BY <1>1, <1>2, <3>2
  <2> QED
    BY <1>3, <2>1, DamagedOnlyBy DEF DamageInv
<1>6. CASE n > 0 /\ file[n].part # "whole"
  <2> DEFINE t == file[n].event
  <2>1. t \in torn /\ t \in Events
    <3>1. n \in DOMAIN file
      BY <1>2, <1>6
    <3>2. t \in torn
      BY <1>6, <3>1 DEF RenameInv, TornKnown
    <3> QED
      BY <3>2 DEF TypeOK
  <2>2. t \notin Spent
    BY <1>0, <1>2, <1>6 DEF Spent, Dangling
  <2>3. Cardinality(Spent \cup {t}) = Cardinality(Spent) + 1
    BY <1>3, <2>1, <2>2, EventsCounted
  <2>4. Spent \cup {t} \subseteq Spent'
    BY <1>4, <2>1 DEF Spent
  <2>5. Spent \cup {t} \in SUBSET Events
    BY <1>3, <2>1
  <2> HIDE DEF t
  <2>6. Cardinality(Spent) + 1 <= Cardinality(Spent')
    BY <1>3, <2>3, <2>4, <2>5, EventsCounted
  <2>7. Cardinality(Damaged') <= Cardinality(Damaged) + 1
    <3>1. Damaged' \subseteq Damaged \cup {e} /\ Damaged \cup {e} \in SUBSET Events
      BY <1>3, <1>5
    <3>2. Cardinality(Damaged') <= Cardinality(Damaged \cup {e})
      BY <1>3, <3>1, EventsCounted
    <3>3. CASE e \in Damaged
      <4>1. Damaged' \subseteq Damaged
        BY <1>5, <3>3
      <4>2. Cardinality(Damaged') <= Cardinality(Damaged)
        BY <1>3, <4>1, EventsCounted
      <4>3. Cardinality(Damaged) \in Nat /\ Cardinality(Damaged') \in Nat
        BY <1>3, EventsCounted
      <4> QED
        BY <4>2, <4>3
    <3>4. CASE e \notin Damaged
      <4>1. Cardinality(Damaged \cup {e}) = Cardinality(Damaged) + 1
        BY <1>3, <3>4, EventsCounted
      <4> QED
        BY <3>2, <4>1
    <3> QED
      BY <3>3, <3>4
  <2>8. /\ Cardinality(Damaged) \in Nat /\ Cardinality(Damaged') \in Nat
        /\ Cardinality(Spent) \in Nat /\ Cardinality(Spent') \in Nat
    BY <1>3, EventsCounted
  <2> QED
    BY <2>6, <2>7, <2>8 DEF DamageInv
<1>7. CASE ~ (n > 0 /\ file[n].part # "whole")
  <2>1. Readable(n + 1)'
    <3>1. StartsLine(n + 1)'
      BY <1>2, <1>7 DEF StartsLine
    <3>2. EndsLine(n + 1)' /\ file'[n + 1].part # "cut"
      BY <1>1, <1>2 DEF EndsLine
    <3> QED
      BY <3>1, <3>2 DEF Readable
  <2>2. InFile(e)'
    BY <1>1, <1>2, <2>1 DEF InFile
  <2>3. Damaged' \subseteq Damaged
    BY <1>5, <2>2
  <2>4. Spent \subseteq Spent'
    BY <1>4 DEF Spent
  <2>5. Cardinality(Damaged') <= Cardinality(Damaged) /\ Cardinality(Spent) <= Cardinality(Spent')
    BY <1>3, <2>3, <2>4, EventsCounted
  <2>6. /\ Cardinality(Damaged) \in Nat /\ Cardinality(Damaged') \in Nat
        /\ Cardinality(Spent) \in Nat /\ Cardinality(Spent') \in Nat
    BY <1>3, EventsCounted
  <2> QED
    BY <2>5, <2>6 DEF DamageInv
<1> QED
  BY <1>6, <1>7

\* What is pending without a newline stays the last of the file.
LEMMA OpenStaysLast ==
    ASSUME TypeOK, OpenIsLast, [Next]_walVars
    PROVE  OpenIsLast'
<1>1. ASSUME More, Advance, UNCHANGED <<file, rpc>>,
             \/ pending' = pending
             \/ Readable(pos + 1) /\ pending' = Append(pending, file[pos + 1])
      PROVE  OpenIsLast'
  <2>1. /\ rpc # "off" /\ pos # Len(file) /\ pos + 1 \in 1..Len(file) /\ Len(file) \in Nat
        /\ pos' = pos + 1 /\ file' = file /\ DOMAIN pending = 1..Len(pending)
        /\ pending \in Seq(Record) /\ Len(pending) \in Nat
    BY <1>1 DEF More, Advance, TypeOK, Free
  <2>2. \A k \in 1..Len(pending) : pending[k].part = "whole"
    BY <2>1 DEF OpenIsLast
  <2>3. CASE pending' = pending
    BY <2>1, <2>2, <2>3 DEF OpenIsLast
  <2>4. CASE Readable(pos + 1) /\ pending' = Append(pending, file[pos + 1])
    <3>1. file[pos + 1] \in Record
      BY <2>1, Element DEF TypeOK
    <3>2. /\ DOMAIN pending' = 1..(Len(pending) + 1)
          /\ \A k \in 1..Len(pending) : pending'[k] = pending[k]
          /\ pending'[Len(pending) + 1] = file[pos + 1]
      BY <2>1, <2>4, <3>1, Appended
    <3>3. file[pos + 1].part # "whole" => pos + 1 = Len(file)
      BY <2>1, <2>4 DEF Readable, EndsLine
    <3>4. \A k \in 1..(Len(pending) + 1) : k \in 1..Len(pending) \/ k = Len(pending) + 1
      BY <2>1
    <3>5. \A k \in DOMAIN pending' : pending'[k].part # "whole" =>
              pos + 1 = Len(file) /\ pending'[k] = file[pos + 1]
      BY <2>2, <3>2, <3>3, <3>4
    <3> QED
      BY <2>1, <3>5 DEF OpenIsLast
  <2> QED
    BY <1>1, <2>3, <2>4
<1>2. CASE ReplaySkip \/ ReplayAck \/ ReplayRefused
  BY <1>1, <1>2 DEF ReplaySkip, ReplayAck, ReplayRefused, Refuse, NextRecord
<1>3. CASE ReplayBegin \/ Crash
  BY <1>3 DEF ReplayBegin, Crash, OpenIsLast
<1>4. CASE ReplayFinish \/ ReplayError \/ \E e \in Events : AppendEvent(e)
  BY <1>4 DEF ReplayFinish, ReplayError, AppendEvent, AppendLine, AppendFails, AppendTears,
         OpenIsLast, replayVars, Free
<1>5. CASE ReplayWriteTmp \/ UNCHANGED walVars
  BY <1>5 DEF ReplayWriteTmp, walVars, OpenIsLast
<1> QED
  BY <1>2, <1>3, <1>4, <1>5 DEF Next, ReplayStep

\* No step but an append that costs one leaves less spent, or more damaged.
LEMMA DamageStep ==
    ASSUME TypeOK, RenameInv, DamageInv, [Next]_walVars
    PROVE  DamageInv'
<1>1. OpenIsLast'
  BY OpenStaysLast DEF DamageInv
<1>2. TornRefused'
  <2>1. ASSUME NEW e \in Events, AppendTears(e)
        PROVE  TornRefused'
    <3>1. torn' = torn \cup {e} /\ answer' = [answer EXCEPT ![e] = "err"]
      BY <2>1 DEF AppendTears, Answered
    <3> QED
      BY <3>1 DEF TornRefused, DamageInv, TypeOK
  <2>2. ASSUME NEW e \in Events, AppendLine(e) \/ AppendFails(e)
        PROVE  TornRefused'
    <3>1. torn' = torn /\ e \notin torn /\ \E a : answer' = [answer EXCEPT ![e] = a]
      BY <2>2 DEF AppendLine, AppendFails, Answered, TornRefused, DamageInv
    <3> QED
      BY <3>1 DEF TornRefused, DamageInv, TypeOK
  <2>3. ASSUME UNCHANGED <<torn, answer>>
        PROVE  TornRefused'
    BY <2>3 DEF TornRefused, DamageInv
  <2> QED
    BY <2>1, <2>2, <2>3 DEF Next, AppendEvent, ReplayBegin, ReplayStep, ReplaySkip, ReplayAck,
         ReplayRefused, ReplayWriteTmp, ReplayFinish, ReplayError, Crash, walVars
<1>3. CASE \E e \in Events : AppendLine(e)
  BY <1>1, <1>2, <1>3, AppendCosts DEF DamageInv
<1>4. CASE ~ \E e \in Events : AppendLine(e)
  <2>1. Damaged' \subseteq Damaged
    <3>1. Damaged' \subseteq Events
      BY DEF Damaged
    <3> QED
      BY <1>4, <3>1, DamagedOnlyBy DEF DamageInv
  <2>2. Spent \subseteq Spent'
    <3>1. ASSUME NEW e \in Events, AppendTears(e)
          PROVE  Spent \subseteq Spent'
      <4>1. torn' = torn \cup {e} /\ answer[e] = "none"
        BY <3>1 DEF AppendTears
      <4>2. e \notin torn
        BY <4>1 DEF DamageInv, TornRefused
      <4>3. PICK r \in Record : r.event = e /\ file' = Append(file, r)
        BY <3>1, Records DEF AppendTears, Written
      <4>4. file'[Len(file')] = r
        BY <4>3, Appended DEF TypeOK
      <4>5. \A t : Dangling(t)' => t = e
        BY <4>3, <4>4 DEF Dangling
      <4> QED
        BY <4>1, <4>2, <4>5 DEF Spent
    <3>2. CASE ReplayFinish
      <4>1. /\ torn' = torn /\ rpc = "renaming" /\ (file' = pending \/ file' = file)
        BY <3>2 DEF ReplayFinish, Survivors
      <4>2. \A t : Dangling(t)' => Dangling(t)
        <5> SUFFICES ASSUME NEW t, Dangling(t)' PROVE Dangling(t)
          OBVIOUS
        <5>1. CASE file' = file
          BY <5>1 DEF Dangling
        <5>2. CASE file' = pending
          <6>1. pending # <<>> /\ pending[Len(pending)].event = t
                /\ pending[Len(pending)].part # "whole"
            BY <5>2 DEF Dangling
          <6>2. Len(pending) \in DOMAIN pending
            BY <6>1 DEF TypeOK
          <6>3. pos = Len(file) /\ pending[Len(pending)] = file[pos]
            BY <4>1, <6>1, <6>2 DEF DamageInv, OpenIsLast
          <6>4. file # <<>>
            <7>1. Len(pending) \in Nat \ {0} /\ acked + Len(pending) <= pos /\ acked \in Nat /\ pos \in Nat
              BY <4>1, <6>1 DEF TypeOK, Free
            <7>2. Len(<<>>) = 0
              OBVIOUS
            <7> QED
              BY <6>3, <7>1, <7>2
          <6> QED
            BY <6>1, <6>3, <6>4 DEF Dangling
        <5> QED
          BY <4>1, <5>1, <5>2
      <4> QED
        BY <4>1, <4>2 DEF Spent
    <3>3. ASSUME UNCHANGED <<file, torn>>
          PROVE  Spent \subseteq Spent'
      BY <3>3 DEF Spent, Dangling
    <3> QED
      BY <1>4, <3>1, <3>2, <3>3 DEF Next, AppendEvent, AppendFails, ReplayBegin, ReplayStep,
         ReplaySkip, ReplayAck, ReplayRefused, ReplayWriteTmp, ReplayError, Crash, walVars
  <2>3. /\ Damaged \in SUBSET Events /\ Damaged' \in SUBSET Events
        /\ Spent \in SUBSET Events /\ Spent' \in SUBSET Events
    <3>1. torn \subseteq Events /\ torn' \subseteq Events
      BY TypeStep DEF TypeOK
    <3> QED
      BY <3>1 DEF Damaged, Spent
  <2>4. /\ Cardinality(Damaged') <= Cardinality(Damaged)
        /\ Cardinality(Spent) <= Cardinality(Spent')
        /\ Cardinality(Damaged) \in Nat /\ Cardinality(Damaged') \in Nat
        /\ Cardinality(Spent) \in Nat /\ Cardinality(Spent') \in Nat
    BY <2>1, <2>2, <2>3, EventsCounted
  <2>5. Cardinality(Damaged) <= Cardinality(Spent)
    BY DEF DamageInv
  <2>6. Cardinality(Damaged') <= Cardinality(Spent')
    BY <2>4, <2>5
  <2> QED
    BY <1>1, <1>2, <2>6 DEF DamageInv
<1> QED
  BY <1>3, <1>4

\* However appends, replays and crashes follow one another, each torn append
\* costs at most one other record.
THEOREM DamageIsBounded == Spec => []DamageBounded
<1>1. Init => DamageInv
  <2> SUFFICES ASSUME Init PROVE DamageInv
    OBVIOUS
  <2>1. Damaged = {} /\ Spent = {} /\ rpc = "off" /\ torn = {}
    BY DEF Init, Damaged, Spent
  <2>2. Cardinality({}) = 0
    BY FS_EmptySet
  <2> QED
    BY <2>1, <2>2 DEF DamageInv, TornRefused, OpenIsLast
<1>2. TypeOK /\ RenameInv /\ DamageInv /\ [Next]_walVars => DamageInv'
  BY DamageStep
<1>3. TypeOK /\ DamageInv => DamageBounded
  <2> SUFFICES ASSUME TypeOK, DamageInv PROVE DamageBounded
    OBVIOUS
  <2>1. Spent \in SUBSET Events /\ torn \in SUBSET Events /\ Damaged \in SUBSET Events /\ Spent \subseteq torn
    BY DEF TypeOK, Spent, Damaged
  <2>2. /\ Cardinality(Spent) <= Cardinality(torn) /\ Cardinality(Spent) \in Nat
        /\ Cardinality(torn) \in Nat /\ Cardinality(Damaged) \in Nat
    BY <2>1, EventsCounted
  <2>3. Cardinality(Damaged) <= Cardinality(Spent)
    BY DEF DamageInv
  <2>4. Cardinality(Damaged) <= Cardinality(torn)
    BY <2>2, <2>3
  <2> QED
    BY <2>4 DEF DamageBounded
<1> QED
  BY <1>1, <1>2, <1>3, RenameInit, RenameStep, TypeCorrect, PTL DEF Spec
=============================================================================
