-------------------------- MODULE StreamInterceptor -------------------------
(***************************************************************************)
(* The scanner of streamed answers                                         *)
(* (apps/viper-proxy/internal/security/output): InterceptAndWrite reads    *)
(* the upstream body chunk by chunk, looks for sensitive values in a       *)
(* rolling window, and redacts the chunk or stops the stream.              *)
(*                                                                         *)
(* A body is a sequence of cells.  The regular expressions are abstracted  *)
(* to one detector: a value is a longest run of sensitive cells, of at     *)
(* least MinLen of them, as for phone and card numbers.  What the client   *)
(* has received is a sequence of positions of the body; a mask is as many  *)
(* zeros as it hides cells.                                                *)
(***************************************************************************)
EXTENDS Integers, Sequences

CONSTANTS Sensitive,  \* the characters a value is made of
          Plain,      \* a character of no value
          BodyLen,    \* bound: the length of the upstream body
          ChunkSize,  \* len(buf), 1024
          WindowSize, \* 4096
          MinLen      \* the shortest value

ASSUME InterceptorAssumption ==
    /\ Plain \notin Sensitive
    /\ BodyLen \in Nat /\ WindowSize \in Nat
    /\ ChunkSize \in Nat \ {0}
    /\ MinLen \in Nat \ {0}
    \* The code's sizes satisfy this for every value the expressions ask for.
    /\ WindowSize >= ChunkSize + MinLen - 1

VARIABLES
    body,            \* what the upstream will send
    terminateOnLeak, \* the configuration
    taken,           \* cells read so far
    out,             \* what has been written to the client
    chunks,          \* history: the chunks read, as <<first, last>>
    anyLeakSeen,     \* res.AnyLeakSeen
    terminated,      \* res.Terminated
    result           \* "none" while the loop runs, then "nil" or "err"

vars == <<body, terminateOnLeak, taken, out, chunks, anyLeakSeen, terminated, result>>

Mask == 0

Init ==
    /\ body \in [1..BodyLen -> Sensitive \cup {Plain}]
    /\ terminateOnLeak \in BOOLEAN
    /\ taken = 0
    /\ out = <<>>
    /\ chunks = {}
    /\ anyLeakSeen = FALSE
    /\ terminated = FALSE
    /\ result = "none"

-----------------------------------------------------------------------------
\* The runs of at least MinLen sensitive cells in lo..hi that no cell of lo..hi
\* extends, as <<first, last>>.
IsRun(i, j) == \A k \in i..j : body[k] \in Sensitive

Runs(lo, hi) ==
    {r \in (lo..hi) \X (lo..hi) :
        /\ r[2] - r[1] + 1 >= MinLen
        /\ IsRun(r[1], r[2])
        /\ r[1] > lo => body[r[1] - 1] \notin Sensitive
        /\ r[2] < hi => body[r[2] + 1] \notin Sensitive}

\* strings.ReplaceAll works on what is still text of the chunk first..last: the
\* value of the run r occurs at i if none of those cells is masked.
Occurs(r, i, last, masked) ==
    /\ i + r[2] - r[1] <= last
    /\ \A k \in 0..r[2] - r[1] : i + k \notin masked /\ body[i + k] = body[r[1] + k]

ReplaceStarts(r, first, last, masked) ==
    {i \in first..last : Occurs(r, i, last, masked)}

\* The cells of the occurrences that it replaces, from the left and without
\* overlap: left[i] is what is left, from i on, of the one that i is in.
ReplaceAll(r, first, last, masked) ==
    LET left[i \in first - 1..last] ==
            IF i = first - 1 THEN 0
            ELSE IF left[i - 1] > 1 THEN left[i - 1] - 1
            ELSE IF Occurs(r, i, last, masked) THEN r[2] - r[1] + 1
            ELSE 0
    IN  {i \in first..last : left[i] > 0}

\* The cells that are masked when the findings have been replaced in the order
\* of the text; masked[p] is after those that begin at p or before.  A value
\* that is found twice is replaced twice, which is replacing it once.
Redact(findings, first, last) ==
    LET masked[p \in 0..last] ==
            IF p = 0 THEN {}
            ELSE LET before == masked[p - 1]
                 IN  before \cup UNION {ReplaceAll(r, first, last, before) :
                                           r \in {f \in findings : f[1] = p}}
    IN  masked[last]

-----------------------------------------------------------------------------
\* The window has the last WindowSize of the first last cells; WindowStart(n) is
\* its beginning after n more cells.
FirstKept(last) == IF last > WindowSize THEN last - WindowSize + 1 ELSE 1

WindowStartChunk(n) == taken + 1
WindowStart(n) == FirstKept(taken + n)

Findings(n) == Runs(WindowStart(n), taken + n)

SeenNow(n) == Findings(n) # {}
Seen(n) == anyLeakSeen \/ Findings(n) # {}

\* What is written for a chunk of n cells.
WrittenWindow(n) == [k \in 1..taken + n - WindowStart(n) + 1 |-> WindowStart(n) + k - 1]
WrittenIfClean(n) == IF Findings(n) = {} THEN [k \in 1..n |-> taken + k] ELSE <<>>
Written(n) ==
    LET masked == Redact(Findings(n), taken + 1, taken + n)
    IN  [k \in 1..n |-> IF taken + k \in masked THEN Mask ELSE taken + k]

Take(n) ==
    /\ taken' = taken + n
    /\ chunks' = chunks \cup {<<taken + 1, taken + n>>}
    /\ anyLeakSeen' = Seen(n)

Sizes == {n \in 1..ChunkSize : taken + n <= BodyLen}

\* A chunk with a finding in terminate mode: the loop ends without writing it,
\* whatever error the read returned with it.
Terminate(n) ==
    /\ terminateOnLeak
    /\ Findings(n) # {}
    /\ Take(n)
    /\ terminated' = TRUE
    /\ result' = "nil"
    /\ UNCHANGED <<body, terminateOnLeak, out>>

\* The chunk is written, redacted if there are findings; then the error the
\* read returned with it is looked at: none, io.EOF or another.
Pass(n) ==
    /\ ~ (terminateOnLeak /\ Findings(n) # {})
    /\ Take(n)
    /\ out' = out \o Written(n)
    /\ \/ result' = "none"
       \/ taken' = BodyLen /\ result' = "nil"
       \/ result' = "err"
    /\ UNCHANGED <<body, terminateOnLeak, terminated>>

\* w.Write fails: the client is gone.
WriteFails(n) ==
    /\ ~ (terminateOnLeak /\ Findings(n) # {})
    /\ Take(n)
    /\ result' = "err"
    /\ UNCHANGED <<body, terminateOnLeak, out, terminated>>

\* A read that returns no bytes, with io.EOF or another error.
ReadNothing ==
    /\ \/ taken = BodyLen /\ result' = "nil"
       \/ result' = "err"
    /\ UNCHANGED <<body, terminateOnLeak, taken, out, chunks, anyLeakSeen, terminated>>

Next ==
    /\ result = "none"
    /\ \/ \E n \in Sizes : Terminate(n) \/ Pass(n) \/ WriteFails(n)
       \/ ReadNothing

Spec == Init /\ [][Next]_vars

-----------------------------------------------------------------------------
\* The types; what the client has got of the body are cells from its beginning,
\* each at its place or masked, and never more than were read.
TypeOK ==
    /\ taken \in 0..BodyLen
    /\ out \in Seq(0..BodyLen) /\ Len(out) <= taken
    /\ \A i \in DOMAIN out : out[i] \in {Mask, i}
    /\ anyLeakSeen \in BOOLEAN /\ terminated \in BOOLEAN
    /\ result \in {"none", "nil", "err"}

Received(i, j) == \A k \in i..j : \E n \in DOMAIN out : out[n] = k

\* In terminate mode the client never receives MinLen sensitive cells in a row,
\* however the value is cut into chunks: the window joins what the chunks cut.
TerminateHidesValues ==
    terminateOnLeak =>
        \A i \in 1..(taken - MinLen + 1) :
            IsRun(i, i + MinLen - 1) => ~ Received(i, i + MinLen - 1)

\* A shorter value that is found before r and whose text is part of r: it is
\* replaced first, and the text of r is then no longer found.
Spoils(s, r) ==
    /\ s[1] < r[1] /\ s[2] - s[1] < r[2] - r[1]
    /\ \E i \in r[1]..r[2] : Occurs(s, i, r[2], {})

\* In redact mode the client never receives a value that arrives within one chunk
\* whole; and none of its cells, unless a shorter value of the window spoils it.
\* (With one that does, what the shorter value does not match is sent in clear.)
RedactMasksWholeValues ==
    \A c \in chunks : \A r \in Runs(1, taken) :
        c[1] <= r[1] /\ r[2] <= c[2] =>
            /\ ~ Received(r[1], r[2])
            /\ \/ \A k \in r[1]..r[2] : ~ Received(k, k)
               \/ \E s \in Runs(FirstKept(c[2]), c[2]) : Spoils(s, r)

\* When the scanner returns without error, it reports a leak exactly when the
\* part of the body it has read contains a value, and it has terminated the
\* stream only on a leak.
ReportedExactly ==
    result = "nil" =>
        /\ anyLeakSeen <=> Runs(1, taken) # {}
        /\ terminated => anyLeakSeen

\* Redaction loses nothing but values: at the end of a redacted stream the
\* client has every cell that is not sensitive.
PlainTextKept ==
    result = "nil" /\ ~ terminated =>
        \A k \in 1..BodyLen : body[k] = Plain => Received(k, k)

\* What the guide says of redact mode: "Leak found; sensitive values masked in
\* stream".  Violated: a value that is cut by a chunk boundary is found in the
\* window but replaced only where it occurs whole in the second chunk.
ValuesMasked ==
    result = "nil" => \A r \in Runs(1, taken) : ~ Received(r[1], r[2])
=============================================================================
