----------------------- MODULE StreamInterceptorProofs ----------------------
(***************************************************************************)
(* Theorems about the scanner of streamed answers, for any alphabet, body, *)
(* chunk, window and shortest value, with their proofs.                    *)
(***************************************************************************)
EXTENDS StreamInterceptor, SequenceTheorems, WellFoundedInduction, TLAPS

-----------------------------------------------------------------------------
(* Induction on numbers, as facts about sets of numbers.                   *)

\* A set of numbers has a least element.
LEMMA Least ==
  ASSUME NEW T \in SUBSET Nat, T # {}
  PROVE  \E x \in T : \A y \in T : x <= y
<1>1. IsWellFoundedOn(OpToRel(<, Nat), Nat)
  BY NatLessThanWellFounded
<1>2. PICK x \in T : \A y \in T : <<y, x>> \notin OpToRel(<, Nat)
  BY <1>1, WFMin
<1>3. \A y \in T : ~ (y < x)
  BY <1>2 DEF OpToRel
<1> QED
  BY <1>3

\* A set of numbers with a bound has a greatest element.
LEMMA Greatest ==
  ASSUME NEW n \in Nat, NEW T \in SUBSET (0..n), T # {}
  PROVE  \E x \in T : \A y \in T : y <= x
<1> DEFINE D == {n - y : y \in T}
<1>1. D \in SUBSET Nat /\ D # {}
  <2>1. \A y \in T : n - y \in Nat
    OBVIOUS
  <2>2. PICK y \in T : TRUE
    OBVIOUS
  <2>3. n - y \in D
    OBVIOUS
  <2> QED
    BY <2>1, <2>3
<1>2. PICK d \in D : \A e \in D : d <= e
  <2> HIDE DEF D
  <2> QED
    BY <1>1, Least
<1>3. PICK x \in T : d = n - x
  OBVIOUS
<1>4. ASSUME NEW y \in T PROVE y <= x
  <2>1. n - y \in D
    OBVIOUS
  <2>2. n - x <= n - y
    BY <1>2, <1>3, <2>1
  <2> QED
    BY <2>2
<1> QED
  BY <1>4

\* A set that has 0 and with each number the next has them all.
LEMMA Climb ==
  ASSUME NEW S, 0 \in S, \A n \in Nat : n \in S => n + 1 \in S
  PROVE  \A n \in Nat : n \in S
<1> SUFFICES ASSUME NEW m \in Nat, m \notin S PROVE FALSE
  OBVIOUS
<1> DEFINE T == {n \in Nat : n \notin S}
<1>1. T \in SUBSET Nat /\ T # {}
  OBVIOUS
<1>2. PICK x \in T : \A y \in T : x <= y
  BY <1>1, Least
<1>3. x \in Nat /\ x # 0
  OBVIOUS
<1>4. x - 1 \in Nat /\ x - 1 \notin T
  BY <1>2, <1>3
<1>5. x - 1 + 1 \in S /\ x - 1 + 1 = x
  BY <1>3, <1>4
<1> QED
  BY <1>5

\* On m..n, f begins with e and goes on as g says from each value to the next.
Iterates(f, m, n, V, e, g) ==
    /\ f \in [m..n -> V]
    /\ f[m] = e
    /\ \A i \in m + 1..n : f[i] = g[<<i, f[i - 1]>>]

\* There is such a function.
LEMMA Recursion ==
  ASSUME NEW m \in Nat, NEW V, NEW e \in V, NEW g \in [Nat \X V -> V], NEW n \in Nat, m <= n
  PROVE  \E f : Iterates(f, m, n, V, e, g)
<1> DEFINE Good(f, k) == Iterates(f, m, m + k, V, e, g)
           S == {k \in Nat : \E f : Good(f, k)}
<1>1. 0 \in S
  <2> DEFINE f == [i \in m..m + 0 |-> e]
  <2>1. Good(f, 0)
    BY DEF Iterates
  <2> QED
    BY <2>1
<1>2. ASSUME NEW k \in Nat, k \in S PROVE k + 1 \in S
  <2>1. PICK f : Good(f, k)
    BY <1>2
  <2> DEFINE h == [i \in m..m + (k + 1) |->
                     IF i = m + (k + 1) THEN g[<<i, f[m + k]>>] ELSE f[i]]
  <2>2. f[m + k] \in V
    BY <2>1 DEF Iterates
  <2>3. g[<<m + (k + 1), f[m + k]>>] \in V
    BY <2>2
  <2>4. h \in [m..m + (k + 1) -> V] /\ h[m] = e
    BY <2>1, <2>3 DEF Iterates
  <2>5. ASSUME NEW i \in m + 1..m + (k + 1) PROVE h[i] = g[<<i, h[i - 1]>>]
    <3>1. CASE i = m + (k + 1)
      BY <3>1
    <3>2. CASE i \in m + 1..m + k
      BY <2>1, <3>2 DEF Iterates
    <3> QED
      BY <3>1, <3>2
  <2> HIDE DEF h
  <2>6. Good(h, k + 1)
    BY <2>4, <2>5 DEF Iterates
  <2> HIDE DEF Good
  <2> QED
    BY <2>6
<1> HIDE DEF S
<1>3. \A k \in Nat : k \in S
  BY <1>1, <1>2, Climb
<1>4. n - m \in Nat /\ m + (n - m) = n
  OBVIOUS
<1>5. n - m \in S
  BY <1>3, <1>4
<1>6. PICK f : Good(f, n - m)
  BY <1>5 DEF S
<1> QED
  BY <1>4, <1>6

-----------------------------------------------------------------------------
(* Runs of sensitive cells.                                                *)

\* The sizes of the code are numbers.
LEMMA Sizing ==
  /\ BodyLen \in Nat /\ WindowSize \in Nat
  /\ ChunkSize \in Nat /\ ChunkSize > 0
  /\ MinLen \in Nat /\ MinLen > 0
  /\ WindowSize >= ChunkSize + MinLen - 1
  BY InterceptorAssumption

LEMMA RunsType ==
  ASSUME NEW lo \in Nat, NEW hi \in Nat, NEW r \in Runs(lo, hi)
  PROVE  /\ r = <<r[1], r[2]>>
         /\ r[1] \in Nat /\ r[2] \in Nat
         /\ lo <= r[1] /\ r[1] + MinLen - 1 <= r[2] /\ r[1] <= r[2] /\ r[2] <= hi
         /\ IsRun(r[1], r[2])
         /\ r[1] > lo => body[r[1] - 1] \notin Sensitive
         /\ r[2] < hi => body[r[2] + 1] \notin Sensitive
  BY Sizing DEF Runs

\* Sensitive cells that are enough for a value are part of one.
LEMMA Extends ==
  ASSUME NEW lo \in Nat, NEW hi \in Nat, NEW i \in lo..hi, NEW j \in i..hi,
         IsRun(i, j), j - i + 1 >= MinLen
  PROVE  Runs(lo, hi) # {}
<1> DEFINE A == {a \in lo..i : IsRun(a, j)}
<1>1. A \in SUBSET Nat /\ A # {}
  OBVIOUS
<1>2. PICK a \in A : \A x \in A : a <= x
  <2> HIDE DEF A
  <2> QED
    BY <1>1, Least
<1>3. a \in lo..i /\ IsRun(a, j)
  OBVIOUS
<1>4. a > lo => body[a - 1] \notin Sensitive
  <2> SUFFICES ASSUME a > lo, body[a - 1] \in Sensitive PROVE FALSE
    OBVIOUS
  <2>1. IsRun(a - 1, j)
    BY <1>3 DEF IsRun
  <2>2. a - 1 \in A
    BY <1>3, <2>1
  <2> QED
    BY <1>2, <1>3, <2>2
<1> DEFINE B == {b \in j..hi : IsRun(a, b)}
<1> HIDE DEF A
<1>5. B \in SUBSET (0..hi) /\ B # {}
  BY <1>3
<1>6. PICK b \in B : \A x \in B : x <= b
  <2> HIDE DEF B
  <2> QED
    BY <1>5, Greatest
<1>7. b \in j..hi /\ IsRun(a, b)
  OBVIOUS
<1>8. b < hi => body[b + 1] \notin Sensitive
  <2> SUFFICES ASSUME b < hi, body[b + 1] \in Sensitive PROVE FALSE
    OBVIOUS
  <2>1. IsRun(a, b + 1)
    BY <1>3, <1>7 DEF IsRun
  <2>2. b + 1 \in B
    BY <1>7, <2>1
  <2> QED
    BY <1>6, <1>7, <2>2
<1> HIDE DEF B
<1>9. <<a, b>> \in Runs(lo, hi)
  BY <1>3, <1>4, <1>7, <1>8, Sizing DEF Runs
<1> QED
  BY <1>9

\* A value of a part is part of a value of the whole.
LEMMA RunsGrow ==
  ASSUME NEW lo \in Nat, NEW hi \in Nat, NEW from \in lo..hi, NEW to \in from..hi,
         Runs(from, to) # {}
  PROVE  Runs(lo, hi) # {}
<1>1. PICK r \in Runs(from, to) : TRUE
  OBVIOUS
<1>2. /\ from <= r[1] /\ r[1] <= r[2] /\ r[2] <= to
      /\ r[1] \in Nat /\ r[2] \in Nat /\ IsRun(r[1], r[2])
      /\ r[1] + MinLen - 1 <= r[2]
  BY RunsType
<1>3. r[1] \in lo..hi /\ r[2] \in r[1]..hi /\ r[2] - r[1] + 1 >= MinLen
  BY <1>2, Sizing
<1> QED
  BY <1>2, <1>3, Extends

-----------------------------------------------------------------------------
(* What the replacing of values masks.                                     *)

\* A replacement masks cells of places where the value occurs, so sensitive ones;
\* the first cell of every place where it occurs; and all cells of a place that
\* no earlier one overlaps.
LEMMA Replaces ==
  ASSUME NEW lo \in Nat, NEW hi \in Nat, NEW r \in Runs(lo, hi),
         NEW first \in Nat \ {0}, NEW last \in Nat, first <= last + 1, NEW masked
  PROVE  /\ \A i \in ReplaceAll(r, first, last, masked) :
                i \in first..last /\ body[i] \in Sensitive
         /\ \A i \in first..last :
                Occurs(r, i, last, masked) => i \in ReplaceAll(r, first, last, masked)
         /\ \A i \in ReplaceAll(r, first, last, masked) : \E s \in first..i :
                Occurs(r, s, last, masked) /\ i <= s + (r[2] - r[1])
         /\ \A s \in first..last :
                /\ Occurs(r, s, last, masked)
                /\ \A t \in first..s - 1 : Occurs(r, t, last, masked) => t + (r[2] - r[1]) < s
                => s..s + (r[2] - r[1]) \subseteq ReplaceAll(r, first, last, masked)
<1> DEFINE len == r[2] - r[1] + 1
           Left(f) == [i \in first - 1..last |->
                         IF i = first - 1 THEN 0
                         ELSE IF f[i - 1] > 1 THEN f[i - 1] - 1
                         ELSE IF Occurs(r, i, last, masked) THEN r[2] - r[1] + 1
                         ELSE 0]
           left == CHOOSE f : f = Left(f)
           g == [x \in Nat \X Nat |->
                   IF x[2] > 1 THEN x[2] - 1
                   ELSE IF Occurs(r, x[1], last, masked) THEN len
                   ELSE 0]
<1>1. /\ r[1] \in Nat /\ r[2] \in Nat /\ r[1] <= r[2]
      /\ \A k \in r[1]..r[2] : body[k] \in Sensitive
  BY RunsType DEF IsRun
<1>2. len \in Nat /\ len > 0
  BY <1>1
<1>3. g \in [Nat \X Nat -> Nat]
  BY <1>2
<1>4. PICK f : Iterates(f, first - 1, last, Nat, 0, g)
  <2>1. first - 1 \in Nat /\ first - 1 <= last
    OBVIOUS
  <2> HIDE DEF g
  <2> QED
    BY <1>3, <2>1, Recursion
<1>5. f = Left(f)
  <2>1. ASSUME NEW i \in first..last
        PROVE  f[i] = IF f[i - 1] > 1 THEN f[i - 1] - 1
                      ELSE IF Occurs(r, i, last, masked) THEN len
                      ELSE 0
    <3>1. /\ f[i] = g[<<i, f[i - 1]>>]
          /\ i \in Nat /\ f[i - 1] \in Nat
      <4> HIDE DEF g
      <4> QED
        BY <1>4 DEF Iterates
    <3> QED
      BY <3>1
  <2> QED
    BY <1>4, <2>1 DEF Iterates
<1>6. left = Left(left)
  <2>1. \E z : z = Left(z)
    BY <1>5
  <2> HIDE DEF Left
  <2> QED
    BY <2>1
<1>7. ReplaceAll(r, first, last, masked) = {i \in first..last : left[i] > 0}
  BY DEF ReplaceAll
<1>8. /\ left[first - 1] = 0
      /\ \A i \in first..last :
            left[i] = IF left[i - 1] > 1 THEN left[i - 1] - 1
                      ELSE IF Occurs(r, i, last, masked) THEN len
                      ELSE 0
  <2> HIDE DEF left
  <2> QED
    BY <1>6
<1> HIDE DEF left, Left, g
<1> DEFINE Within(i) ==
              /\ left[i] \in 0..len
              /\ left[i] > 0 => \E s \in first..i :
                    Occurs(r, s, last, masked) /\ s + len - left[i] = i
           S == {k \in Nat : first - 1 + k <= last => Within(first - 1 + k)}
<1>9. 0 \in S
  BY <1>2, <1>8
<1>10. ASSUME NEW k \in Nat, k \in S PROVE k + 1 \in S
  <2> SUFFICES ASSUME first - 1 + (k + 1) <= last PROVE Within(first - 1 + (k + 1))
    OBVIOUS
  <2> DEFINE i == first + k
  <2>1. i \in first..last /\ i - 1 = first - 1 + k /\ i = first - 1 + (k + 1)
    OBVIOUS
  <2>2. Within(i - 1)
    BY <1>10, <2>1
  <2> HIDE DEF i
  <2>3. CASE left[i - 1] > 1
    <3>1. left[i] = left[i - 1] - 1
      BY <1>8, <2>1, <2>3
    <3>2. PICK s \in first..i - 1 :
             Occurs(r, s, last, masked) /\ s + len - left[i - 1] = i - 1
      BY <2>2, <2>3
    <3>3. s \in first..i /\ s + len - left[i] = i /\ left[i] \in 0..len
      BY <1>2, <2>1, <2>2, <2>3, <3>1, <3>2
    <3>4. Within(i)
      BY <3>2, <3>3
    <3> QED
      BY <2>1, <3>4
  <2>4. CASE ~ (left[i - 1] > 1)
    <3>1. left[i] = IF Occurs(r, i, last, masked) THEN len ELSE 0
      BY <1>8, <2>1, <2>4
    <3>2. Within(i)
      BY <1>2, <2>1, <3>1
    <3> QED
      BY <2>1, <3>2
  <2> QED
    BY <2>3, <2>4
<1> HIDE DEF S
<1>11. \A k \in Nat : k \in S
  BY <1>9, <1>10, Climb
<1>12. ASSUME NEW i \in first - 1..last PROVE Within(i)
  <2>1. i - (first - 1) \in Nat /\ first - 1 + (i - (first - 1)) = i
    OBVIOUS
  <2>2. i - (first - 1) \in S
    BY <1>11, <2>1
  <2> QED
    BY <2>1, <2>2 DEF S
<1>13. ASSUME NEW i \in first..last, left[i] > 0 PROVE body[i] \in Sensitive
  <2>1. left[i] \in 0..len
    BY <1>12
  <2>2. PICK s \in first..i : Occurs(r, s, last, masked) /\ s + len - left[i] = i
    BY <1>12, <1>13
  <2>3. i - s \in 0..r[2] - r[1]
    BY <1>1, <1>13, <2>1, <2>2
  <2>4. body[s + (i - s)] = body[r[1] + (i - s)]
    BY <2>2, <2>3 DEF Occurs
  <2>5. s + (i - s) = i /\ r[1] + (i - s) \in r[1]..r[2]
    BY <1>1, <2>3
  <2> QED
    BY <1>1, <2>4, <2>5
<1>14. ASSUME NEW i \in first..last, Occurs(r, i, last, masked) PROVE left[i] > 0
  <2>1. left[i - 1] \in 0..len
    BY <1>12
  <2> QED
    BY <1>2, <1>8, <1>14, <2>1
<1>15. ASSUME NEW i \in first..last, left[i] > 0
       PROVE  \E s \in first..i : Occurs(r, s, last, masked) /\ i <= s + (r[2] - r[1])
  <2>1. left[i] \in 0..len
    BY <1>12
  <2>2. PICK s \in first..i : Occurs(r, s, last, masked) /\ s + len - left[i] = i
    BY <1>12, <1>15
  <2>3. i <= s + (r[2] - r[1])
    BY <1>1, <1>15, <2>1, <2>2
  <2> QED
    BY <2>2, <2>3
<1>16. ASSUME NEW s \in first..last, Occurs(r, s, last, masked),
              \A t \in first..s - 1 : Occurs(r, t, last, masked) => t + (r[2] - r[1]) < s,
              NEW i \in s..s + (r[2] - r[1])
       PROVE  i \in first..last /\ left[i] > 0
  <2>1. left[s - 1] \in 0..len /\ ~ (left[s - 1] > 1)
    <3>1. left[s - 1] \in 0..len
      BY <1>12
    <3> SUFFICES ASSUME left[s - 1] > 1 PROVE FALSE
      BY <3>1
    <3>2. PICK t \in first..s - 1 : Occurs(r, t, last, masked) /\ t + len - left[s - 1] = s - 1
      BY <1>12
    <3>3. t + (r[2] - r[1]) < s
      BY <1>16, <3>2
    <3> QED
      BY <1>1, <3>1, <3>2, <3>3
  <2>2. left[s] = len
    BY <1>8, <1>16, <2>1
  <2>3. s + (r[2] - r[1]) <= last
    BY <1>16 DEF Occurs
  <2> DEFINE T == {k \in Nat : k < len => left[s + k] = len - k}
  <2>4. 0 \in T
    BY <1>2, <2>2
  <2>5. ASSUME NEW k \in Nat, k \in T PROVE k + 1 \in T
    <3> SUFFICES ASSUME k + 1 < len PROVE left[s + (k + 1)] = len - (k + 1)
      OBVIOUS
    <3>1. left[s + k] = len - k
      BY <1>2, <2>5
    <3>2. s + (k + 1) \in first..last /\ s + (k + 1) - 1 = s + k
      BY <1>1, <2>3
    <3>3. left[s + (k + 1)] = left[s + k] - 1
      BY <1>2, <1>8, <3>1, <3>2
    <3> QED
      BY <1>2, <3>1, <3>3
  <2> HIDE DEF T
  <2>6. i - s \in Nat /\ s + (i - s) = i /\ i - s < len
    BY <1>1
  <2>7. i - s \in T
    BY <2>4, <2>5, <2>6, Climb
  <2>8. left[i] = len - (i - s)
    BY <2>6, <2>7 DEF T
  <2> QED
    BY <1>1, <2>3, <2>6, <2>8
<1> HIDE DEF len
<1> QED
  BY <1>7, <1>13, <1>14, <1>15, <1>16

\* A place where a value f occurs in the chunk and that has a cell of r lies in r:
\* it is all sensitive, and no sensitive cell is next to r.
LEMMA OccursWithin ==
  ASSUME NEW lo \in Nat \ {0}, NEW hi \in Nat, NEW first \in Nat \ {0}, lo <= first,
         NEW r \in Runs(lo, hi), NEW f \in Runs(lo, hi), NEW masked,
         NEW s \in first..hi, Occurs(f, s, hi, masked),
         NEW k \in r[1]..r[2], s <= k, k <= s + (f[2] - f[1])
  PROVE  r[1] <= s /\ s + (f[2] - f[1]) <= r[2]
<1>1. /\ r[1] \in Nat /\ r[2] \in Nat /\ lo <= r[1] /\ r[1] <= r[2] /\ r[2] <= hi
      /\ r[1] > lo => body[r[1] - 1] \notin Sensitive
      /\ r[2] < hi => body[r[2] + 1] \notin Sensitive
  BY RunsType
<1>2. /\ f[1] \in Nat /\ f[2] \in Nat /\ f[1] <= f[2]
      /\ \A j \in f[1]..f[2] : body[j] \in Sensitive
  BY RunsType DEF IsRun
<1>3. s + (f[2] - f[1]) <= hi
  BY DEF Occurs
<1>4. ASSUME NEW j \in s..s + (f[2] - f[1]) PROVE body[j] \in Sensitive
  <2>1. j - s \in 0..f[2] - f[1] /\ s + (j - s) = j /\ f[1] + (j - s) \in f[1]..f[2]
    BY <1>2
  <2>2. body[s + (j - s)] = body[f[1] + (j - s)]
    BY <2>1 DEF Occurs
  <2> QED
    BY <1>2, <2>1, <2>2
<1>5. r[1] <= s
  <2> SUFFICES ASSUME s < r[1] PROVE FALSE
    BY <1>1
  <2>1. r[1] - 1 \in s..s + (f[2] - f[1]) /\ r[1] > lo
    BY <1>1, <1>2
  <2> QED
    BY <1>1, <1>4, <2>1
<1>6. s + (f[2] - f[1]) <= r[2]
  <2> SUFFICES ASSUME r[2] < s + (f[2] - f[1]) PROVE FALSE
    BY <1>1, <1>2
  <2>1. r[2] + 1 \in s..s + (f[2] - f[1]) /\ r[2] < hi
    BY <1>1, <1>2, <1>3
  <2> QED
    BY <1>1, <1>4, <2>1
<1> QED
  BY <1>5, <1>6

\* The values are replaced one after another: only sensitive cells are masked; of
\* each value that lies in the chunk at least one cell; and all its cells unless
\* the first replacement that reaches it is of a shorter value that occurs in it.
LEMMA Redacts ==
  ASSUME NEW lo \in Nat \ {0}, NEW hi \in Nat, NEW first \in Nat \ {0},
         lo <= first, first <= hi + 1
  PROVE  /\ \A i \in Redact(Runs(lo, hi), first, hi) : i \in first..hi /\ body[i] \in Sensitive
         /\ \A r \in Runs(lo, hi) : first <= r[1] =>
               /\ \E i \in r[1]..r[2] : i \in Redact(Runs(lo, hi), first, hi)
               /\ \/ r[1]..r[2] \subseteq Redact(Runs(lo, hi), first, hi)
                  \/ \E f \in Runs(lo, hi) : Spoils(f, r)
<1> DEFINE findings == Runs(lo, hi)
           V == SUBSET {i \in first..hi : body[i] \in Sensitive}
           More(before, p) ==
              before \cup UNION {ReplaceAll(r, first, hi, before) :
                                   r \in {f \in findings : f[1] = p}}
           Masked(f) == [p \in 0..hi |-> IF p = 0 THEN {} ELSE More(f[p - 1], p)]
           masked == CHOOSE f : f = Masked(f)
           g == [x \in Nat \X V |-> More(x[2], x[1])]
<1>1. g \in [Nat \X V -> V] /\ {} \in V
  <2>1. ASSUME NEW before \in V, NEW p \in Nat PROVE More(before, p) \in V
    <3>1. \A r \in findings : \A i \in ReplaceAll(r, first, hi, before) :
             i \in first..hi /\ body[i] \in Sensitive
      BY Replaces
    <3> QED
      BY <3>1
  <2> HIDE DEF More
  <2> QED
    BY <2>1
<1>2. PICK f : Iterates(f, 0, hi, V, {}, g)
  <2>1. 0 \in Nat /\ 0 <= hi
    OBVIOUS
  <2> HIDE DEF g, V, More, Masked, masked, findings
  <2> QED
    BY <1>1, <2>1, Recursion
<1>3. f = Masked(f)
  <2>1. ASSUME NEW p \in 1..hi PROVE f[p] = More(f[p - 1], p)
    <3>1. f[p] = g[<<p, f[p - 1]>>] /\ p \in Nat /\ f[p - 1] \in V
      <4> HIDE DEF g, V
      <4> QED
        BY <1>2 DEF Iterates
    <3> HIDE DEF More, V
    <3> QED
      BY <3>1
  <2> HIDE DEF More, V, g
  <2> QED
    BY <1>2, <2>1 DEF Iterates
<1>4. masked = Masked(masked)
  <2>1. \E z : z = Masked(z)
    BY <1>3
  <2> HIDE DEF Masked
  <2> QED
    BY <2>1
<1>5. Redact(findings, first, hi) = masked[hi]
  BY Zenon DEF Redact
<1>6. masked[0] = {} /\ \A p \in 1..hi : masked[p] = More(masked[p - 1], p)
  <2> HIDE DEF masked, V, g
  <2>1. ASSUME NEW p \in 0..hi
        PROVE  masked[p] = IF p = 0 THEN {} ELSE More(masked[p - 1], p)
    <3>1. masked[p] = Masked(masked)[p]
      BY <1>4
    <3> HIDE DEF More
    <3> QED
      BY <3>1
  <2> HIDE DEF More, Masked
  <2> QED
    BY <2>1
<1> HIDE DEF masked, Masked, g
<1>7. ASSUME NEW p \in 0..hi PROVE masked[p] \in V
  <2> DEFINE S == {k \in Nat : k <= hi => masked[k] \in V}
  <2>1. 0 \in S
    BY <1>6
  <2>2. ASSUME NEW k \in Nat, k \in S PROVE k + 1 \in S
    <3> SUFFICES ASSUME k + 1 <= hi PROVE masked[k + 1] \in V
      OBVIOUS
    <3>1. masked[k] \in V
      BY <2>2
    <3>2. masked[k + 1] = More(masked[k], k + 1)
      BY <1>6
    <3>3. More(masked[k], k + 1) \in V
      BY <3>1, Replaces
    <3> QED
      BY <3>2, <3>3
  <2> HIDE DEF S
  <2>3. p \in S
    BY <2>1, <2>2, Climb
  <2> QED
    BY <2>3 DEF S
<1>8. ASSUME NEW p \in 0..hi PROVE masked[p] \subseteq masked[hi]
  <2> DEFINE S == {k \in Nat : p + k <= hi => masked[p] \subseteq masked[p + k]}
  <2>1. 0 \in S
    OBVIOUS
  <2>2. ASSUME NEW k \in Nat, k \in S PROVE k + 1 \in S
    <3> SUFFICES ASSUME p + (k + 1) <= hi PROVE masked[p] \subseteq masked[p + (k + 1)]
      OBVIOUS
    <3>1. masked[p] \subseteq masked[p + k]
      BY <2>2
    <3>2. masked[p + (k + 1)] = More(masked[p + k], p + (k + 1))
      <4>1. p + (k + 1) \in 1..hi /\ p + (k + 1) - 1 = p + k
        OBVIOUS
      <4> HIDE DEF More
      <4> QED
        BY <1>6, <4>1
    <3> QED
      BY <3>1, <3>2
  <2> HIDE DEF S
  <2>3. hi - p \in Nat /\ p + (hi - p) = hi
    OBVIOUS
  <2>4. hi - p \in S
    BY <2>1, <2>2, <2>3, Climb
  <2> QED
    BY <2>3, <2>4 DEF S
<1>9. ASSUME NEW r \in findings, first <= r[1]
      PROVE  \E i \in r[1]..r[2] : i \in masked[r[1]]
  <2>1. r[1] \in 1..hi /\ r[2] \in r[1]..hi /\ r[1] \in first..hi
    BY <1>9, RunsType
  <2>2. CASE \E i \in r[1]..r[2] : i \in masked[r[1] - 1]
    BY <1>6, <2>1, <2>2
  <2>3. CASE \A i \in r[1]..r[2] : i \notin masked[r[1] - 1]
    <3>1. Occurs(r, r[1], hi, masked[r[1] - 1])
      BY <2>1, <2>3 DEF Occurs
    <3>2. r[1] \in ReplaceAll(r, first, hi, masked[r[1] - 1])
      BY <2>1, <3>1, Replaces
    <3>3. r[1] \in masked[r[1]]
      BY <1>6, <2>1, <3>2
    <3> QED
      BY <2>1, <3>3
  <2> QED
    BY <2>2, <2>3
<1>10. ASSUME NEW r \in findings, first <= r[1]
       PROVE  r[1]..r[2] \subseteq masked[hi] \/ \E v \in findings : Spoils(v, r)
  <2>1. /\ r[1] \in 1..hi /\ r[2] \in r[1]..hi /\ r[1] \in first..hi
        /\ \A k \in r[1]..r[2] : body[k] \in Sensitive
    BY <1>10, RunsType DEF IsRun
  <2> DEFINE T == {p \in 0..hi : \E i \in r[1]..r[2] : i \in masked[p]}
  <2>2. r[1] \in T /\ T \in SUBSET Nat
    BY <1>9, <1>10, <2>1
  <2>3. PICK p \in T : \A q \in T : p <= q
    <3> HIDE DEF T
    <3> QED
      BY <2>2, Least
  <2>4. p \in 1..hi /\ p <= r[1] /\ p - 1 \in 0..hi /\ p - 1 \notin T
    BY <1>6, <2>2, <2>3
  <2>5. PICK k \in r[1]..r[2] : k \in masked[p]
    BY <2>3
  <2>6. k \notin masked[p - 1]
    BY <2>4, <2>5
  <2> HIDE DEF T
  <2>7. PICK v \in findings : v[1] = p /\ k \in ReplaceAll(v, first, hi, masked[p - 1])
    BY <1>6, <2>4, <2>5, <2>6
  <2>8. /\ v[1] \in Nat /\ v[2] \in Nat /\ v[1] <= v[2] /\ v[2] <= hi
        /\ v[2] < hi => body[v[2] + 1] \notin Sensitive
    BY RunsType
  <2>9. PICK s \in first..k : Occurs(v, s, hi, masked[p - 1]) /\ k <= s + (v[2] - v[1])
    BY <2>7, Replaces
  <2>10. r[1] <= s /\ s + (v[2] - v[1]) <= r[2] /\ s \in first..hi
    BY <2>1, <2>9, OccursWithin
  <2>11. CASE v[2] - v[1] = r[2] - r[1]
    <3>1. s = r[1]
      BY <2>1, <2>8, <2>10, <2>11
    <3>2. ASSUME NEW t \in first..s - 1, Occurs(v, t, hi, masked[p - 1]),
                 ~ (t + (v[2] - v[1]) < s)
          PROVE  FALSE
      <4>1. /\ t \in first..hi /\ r[1] \in r[1]..r[2]
            /\ t <= r[1] /\ r[1] <= t + (v[2] - v[1])
        BY <2>1, <2>8, <3>1, <3>2
      <4>2. r[1] <= t
        BY <3>2, <4>1, OccursWithin
      <4> QED
        BY <2>1, <3>1, <4>2
    <3>3. s..s + (v[2] - v[1]) \subseteq ReplaceAll(v, first, hi, masked[p - 1])
      BY <2>9, <2>10, <3>2, Replaces
    <3>4. s..s + (v[2] - v[1]) = r[1]..r[2]
      BY <2>1, <2>8, <2>11, <3>1
    <3>5. r[1]..r[2] \subseteq masked[p]
      <4>1. ReplaceAll(v, first, hi, masked[p - 1]) \subseteq More(masked[p - 1], p)
        BY <2>7
      <4>2. masked[p] = More(masked[p - 1], p)
        BY <1>6, <2>4
      <4> HIDE DEF More
      <4> QED
        BY <3>3, <3>4, <4>1, <4>2
    <3> QED
      BY <1>8, <2>4, <3>5
  <2>12. CASE v[2] - v[1] < r[2] - r[1]
    <3>1. p # r[1]
      <4> SUFFICES ASSUME p = r[1] PROVE FALSE
        OBVIOUS
      <4>1. v[2] < hi /\ v[2] + 1 \in r[1]..r[2]
        BY <2>1, <2>7, <2>8, <2>12
      <4> QED
        BY <2>1, <2>8, <4>1
    <3>2. Occurs(v, s, r[2], {})
      BY <2>9, <2>10 DEF Occurs
    <3>3. s \in r[1]..r[2]
      BY <2>1, <2>8, <2>10
    <3>4. Spoils(v, r)
      BY <2>1, <2>4, <2>7, <2>12, <3>1, <3>2, <3>3 DEF Spoils
    <3> QED
      BY <3>4
  <2> QED
    BY <2>1, <2>8, <2>10, <2>11, <2>12
<1>11. ASSUME NEW r \in findings, first <= r[1]
       PROVE  \E i \in r[1]..r[2] : i \in masked[hi]
  <2>1. r[1] \in 0..hi
    BY <1>11, RunsType
  <2> QED
    BY <1>8, <1>9, <1>11, <2>1
<1> QED
  BY <1>5, <1>7, <1>10, <1>11
-----------------------------------------------------------------------------
(* The steps of the loop.                                                  *)

\* While the loop runs, everything that was read has been written.
TypeInv ==
    /\ TypeOK
    /\ body \in [1..BodyLen -> Sensitive \cup {Plain}]
    /\ terminateOnLeak \in BOOLEAN
    /\ result = "none" => Len(out) = taken /\ ~ terminated

\* The window has the whole chunk, and every value that ends in it has its last
\* MinLen cells there.
LEMMA Window ==
  ASSUME TypeOK, NEW n \in Sizes
  PROVE  /\ n \in Nat /\ n > 0 /\ taken \in Nat /\ taken + n <= BodyLen /\ taken + n \in Nat
         /\ WindowStart(n) \in Nat /\ WindowStart(n) >= 1 /\ WindowStart(n) <= taken + 1
         /\ \A i \in Nat : i >= 1 /\ i + MinLen - 1 > taken => WindowStart(n) <= i
  BY Sizing DEF TypeOK, Sizes, WindowStart, FirstKept

\* A chunk is written cell by cell.
LEMMA Writes ==
  ASSUME TypeOK, NEW n \in Sizes
  PROVE  /\ Written(n) \in Seq(0..BodyLen) /\ Len(Written(n)) = n
         /\ \A k \in 1..n : Written(n)[k] \in {Mask, taken + k}
         /\ \A k \in 1..n : body[taken + k] \notin Sensitive => Written(n)[k] = taken + k
         /\ \A r \in Findings(n) : taken + 1 <= r[1] =>
               /\ \E i \in r[1]..r[2] : Written(n)[i - taken] = Mask
               /\ \/ \A i \in r[1]..r[2] : Written(n)[i - taken] = Mask
                  \/ \E s \in Findings(n) : Spoils(s, r)
<1> DEFINE masked == Redact(Findings(n), taken + 1, taken + n)
<1>1. /\ n \in Nat /\ n > 0 /\ taken \in Nat /\ taken + n <= BodyLen /\ taken + n \in Nat
      /\ WindowStart(n) \in Nat /\ WindowStart(n) >= 1 /\ WindowStart(n) <= taken + 1
  BY Window
<1>2. Written(n) = [k \in 1..n |-> IF taken + k \in masked THEN Mask ELSE taken + k]
  BY DEF Written
<1>3. /\ \A i \in masked : body[i] \in Sensitive
      /\ \A r \in Findings(n) : taken + 1 <= r[1] =>
            /\ \E i \in r[1]..r[2] : i \in masked
            /\ r[1]..r[2] \subseteq masked \/ \E s \in Findings(n) : Spoils(s, r)
  <2> DEFINE lo == WindowStart(n)
             hi == taken + n
             first == taken + 1
  <2>1. /\ lo \in Nat \ {0} /\ hi \in Nat /\ first \in Nat \ {0}
        /\ lo <= first /\ first <= hi + 1
    BY <1>1
  <2>2. Findings(n) = Runs(lo, hi) /\ masked = Redact(Runs(lo, hi), first, hi)
    BY DEF Findings
  <2> HIDE DEF lo, hi, masked
  <2>3. /\ \A i \in Redact(Runs(lo, hi), first, hi) : i \in first..hi /\ body[i] \in Sensitive
        /\ \A r \in Runs(lo, hi) : first <= r[1] =>
              /\ \E i \in r[1]..r[2] : i \in Redact(Runs(lo, hi), first, hi)
              /\ \/ r[1]..r[2] \subseteq Redact(Runs(lo, hi), first, hi)
                 \/ \E s \in Runs(lo, hi) : Spoils(s, r)
    <3> HIDE DEF first
    <3> QED
      BY <2>1, Redacts
  <2> QED
    BY <2>2, <2>3
<1> HIDE DEF masked
<1>5. Written(n) \in [1..n -> 0..BodyLen]
  <2>1. \A k \in 1..n : Mask \in 0..BodyLen /\ taken + k \in 0..BodyLen
    BY <1>1, Sizing DEF Mask
  <2> QED
    BY <1>2, <2>1
<1>6. Written(n) \in Seq(0..BodyLen) /\ Len(Written(n)) = n
  <2>1. Written(n) \in Seq(0..BodyLen)
    BY <1>1, <1>5, SeqDef
  <2> QED
    BY <1>1, <1>5, <2>1, LenProperties
<1>7. ASSUME NEW r \in Findings(n), taken + 1 <= r[1]
      PROVE  /\ \E i \in r[1]..r[2] : Written(n)[i - taken] = Mask
             /\ \/ \A i \in r[1]..r[2] : Written(n)[i - taken] = Mask
                \/ \E s \in Findings(n) : Spoils(s, r)
  <2>1. ASSUME NEW i \in r[1]..r[2], i \in masked PROVE Written(n)[i - taken] = Mask
    <3>1. r[1] \in Nat /\ r[2] \in Nat /\ r[2] <= taken + n
      BY <1>1, RunsType DEF Findings
    <3>2. i - taken \in 1..n /\ taken + (i - taken) = i
      BY <1>1, <1>7, <2>1, <3>1
    <3> QED
      BY <1>2, <2>1, <3>2
  <2> QED
    BY <1>3, <1>7, <2>1
<1> QED
  BY <1>2, <1>3, <1>6, <1>7

\* What the client has got when a chunk has been written.
LEMMA Appends ==
  ASSUME TypeInv, result = "none", NEW n \in Sizes, Pass(n)
  PROVE  /\ taken' = taken + n /\ Len(out') = taken + n /\ out' \in Seq(0..BodyLen)
         /\ \A k \in 1..taken : out'[k] = out[k]
         /\ \A k \in 1..n : out'[taken + k] = Written(n)[k]
<1>1. /\ n \in Nat /\ taken \in Nat /\ Len(out) = taken /\ out \in Seq(0..BodyLen)
      /\ Written(n) \in Seq(0..BodyLen) /\ Len(Written(n)) = n
  BY Window, Writes DEF TypeInv, TypeOK
<1>2. taken' = taken + n /\ out' = out \o Written(n)
  BY DEF Pass, Take
<1>3. /\ out' \in Seq(0..BodyLen) /\ Len(out') = taken + n
      /\ \A i \in 1..taken + n : out'[i] = IF i <= taken THEN out[i] ELSE Written(n)[i - taken]
  <2> DEFINE w == Written(n)
             z == out \o w
  <2>1. out \in Seq(0..BodyLen) /\ w \in Seq(0..BodyLen) /\ Len(out) = taken /\ Len(w) = n
    BY <1>1
  <2> HIDE DEF w
  <2>2. /\ z \in Seq(0..BodyLen) /\ Len(z) = Len(out) + Len(w)
        /\ \A i \in 1..Len(out) + Len(w) :
              z[i] = IF i <= Len(out) THEN out[i] ELSE w[i - Len(out)]
    BY <2>1, ConcatProperties
  <2> HIDE DEF z
  <2>3. /\ z \in Seq(0..BodyLen) /\ Len(z) = taken + n
        /\ \A i \in 1..taken + n : z[i] = IF i <= taken THEN out[i] ELSE w[i - taken]
    BY <2>1, <2>2
  <2>4. out' = z
    BY <1>2 DEF z, w
  <2> QED
    BY <2>3, <2>4 DEF w
<1>4. \A k \in 1..n : taken + k \in 1..taken + n /\ ~ (taken + k <= taken) /\ taken + k - taken = k
  BY <1>1
<1> QED
  BY <1>1, <1>2, <1>3, <1>4

\* The types are kept by every step.
LEMMA Typed == Spec => []TypeInv
<1>1. Init => TypeInv
  <2> SUFFICES ASSUME Init PROVE TypeInv
    OBVIOUS
  <2>1. terminateOnLeak \in BOOLEAN /\ anyLeakSeen \in BOOLEAN /\ terminated \in BOOLEAN
    BY Zenon DEF Init
  <2> QED
    BY <2>1, Sizing DEF Init, TypeInv, TypeOK
<1>2. TypeInv /\ [Next]_vars => TypeInv'
  <2> SUFFICES ASSUME TypeInv, [Next]_vars PROVE TypeInv'
    OBVIOUS
  <2>1. ASSUME NEW n \in Sizes, Take(n) PROVE taken' \in 0..BodyLen /\ anyLeakSeen' \in BOOLEAN
    <3>1. taken' \in 0..BodyLen
      BY <2>1, Window DEF TypeInv, Take
    <3>2. anyLeakSeen' \in BOOLEAN
      BY <2>1, Zenon DEF TypeInv, TypeOK, Take, Seen
    <3> QED
      BY <3>1, <3>2
  <2>2. ASSUME result = "none", NEW n \in Sizes, Terminate(n) PROVE TypeInv'
    BY <2>1, <2>2, Window DEF TypeInv, TypeOK, Terminate, Take
  <2>3. ASSUME result = "none", NEW n \in Sizes, WriteFails(n) PROVE TypeInv'
    BY <2>1, <2>3, Window DEF TypeInv, TypeOK, WriteFails, Take
  <2>4. ASSUME result = "none", NEW n \in Sizes, Pass(n) PROVE TypeInv'
    <3>1. \A i \in DOMAIN out' : out'[i] \in {Mask, i}
      <4>1. ASSUME NEW i \in 1..taken + n PROVE out'[i] \in {Mask, i}
        <5>1. CASE i <= taken
          BY <2>4, <5>1, Appends, Window DEF TypeInv, TypeOK
        <5>2. CASE i > taken
          <6>1. i - taken \in 1..n /\ taken + (i - taken) = i
            BY <5>2, Window DEF TypeInv
          <6>2. out'[taken + (i - taken)] = Written(n)[i - taken]
            BY <2>4, <6>1, Appends
          <6>3. Written(n)[i - taken] \in {Mask, taken + (i - taken)}
            BY <6>1, Writes DEF TypeInv
          <6> QED
            BY <6>1, <6>2, <6>3
        <5> QED
          BY <5>1, <5>2, Window DEF TypeInv
      <4> QED
        BY <2>4, <4>1, Appends
    <3>2. Len(out') = taken' /\ out' \in Seq(0..BodyLen) /\ Len(out') \in Nat
      BY <2>4, Appends
    <3>3. result' \in {"none", "nil", "err"}
          /\ UNCHANGED <<body, terminateOnLeak, terminated>>
      BY <2>4 DEF Pass
    <3>4. taken' \in 0..BodyLen /\ anyLeakSeen' \in BOOLEAN
      BY <2>1, <2>4 DEF Pass
    <3> QED
      BY <2>4, <3>1, <3>2, <3>3, <3>4 DEF TypeInv, TypeOK
  <2>5. ASSUME result = "none", ReadNothing PROVE TypeInv'
    BY <2>5 DEF TypeInv, TypeOK, ReadNothing
  <2>6. CASE UNCHANGED vars
    BY <2>6 DEF TypeInv, TypeOK, vars
  <2> QED
    BY <2>2, <2>3, <2>4, <2>5, <2>6 DEF Next
<1> QED
  BY <1>1, <1>2, PTL DEF Spec

\* The types; and whatever the divisions into chunks and the errors, the client
\* has the first cells of the body, each at its place or masked.
THEOREM TypeCorrect == Spec => []TypeOK
<1>1. TypeInv => TypeOK
  BY DEF TypeInv
<1> QED
  BY <1>1, Typed, PTL
-----------------------------------------------------------------------------
(* What the client of a stream can have got.                               *)

\* What has been written in terminate mode has no value in it.
HiddenInv ==
    terminateOnLeak =>
        \A i \in 1..Len(out) : i + MinLen - 1 <= Len(out) => ~ IsRun(i, i + MinLen - 1)

\* The values that lie in one chunk have a cell that was not written, or masked;
\* and only such cells, unless one found in the window of that chunk spoils them.
Unwritten(k) == k \in DOMAIN out => out[k] = Mask

Hidden(r, findings) ==
    /\ \E k \in r[1]..r[2] : Unwritten(k)
    /\ (\A k \in r[1]..r[2] : Unwritten(k)) \/ \E s \in findings : Spoils(s, r)

MaskedInv ==
    /\ \A c \in chunks : c[1] \in Nat /\ c[2] \in 0..taken
    /\ \A c \in chunks : \A r \in Runs(1, taken) :
          c[1] <= r[1] /\ r[2] <= c[2] => Hidden(r, Runs(FirstKept(c[2]), c[2]))

\* A leak is reported as soon as a value has been read.
LeakInv ==
    /\ anyLeakSeen <=> Runs(1, taken) # {}
    /\ terminated => anyLeakSeen

\* Nothing but sensitive cells is masked.
PlainInv ==
    /\ \A k \in DOMAIN out : body[k] \notin Sensitive => out[k] = k
    /\ result = "nil" /\ ~ terminated => Len(out) = BodyLen

\* A position that the client has received was written at its place.
LEMMA ReceivedAt ==
  ASSUME TypeInv, NEW i \in Nat, NEW j \in Nat, i >= 1, Received(i, j), NEW k \in i..j
  PROVE  k \in DOMAIN out /\ out[k] = k
<1>1. PICK m \in DOMAIN out : out[m] = k
  BY DEF Received
<1>2. out[m] \in {Mask, m} /\ k # Mask
  BY DEF TypeInv, TypeOK, Mask
<1> QED
  BY <1>1, <1>2

\* In terminate mode every chunk was read, with the window, before it was written.
THEOREM ValuesAreHidden == Spec => []TerminateHidesValues
<1>1. Init => HiddenInv
  BY Sizing DEF Init, HiddenInv
<1>2. TypeInv /\ HiddenInv /\ [Next]_vars => HiddenInv'
  <2> SUFFICES ASSUME TypeInv, HiddenInv, [Next]_vars PROVE HiddenInv'
    OBVIOUS
  <2>1. CASE UNCHANGED <<body, terminateOnLeak, out>>
    BY <2>1 DEF HiddenInv, IsRun
  <2>2. ASSUME result = "none", NEW n \in Sizes, Pass(n) PROVE HiddenInv'
    <3>1. /\ body' = body /\ terminateOnLeak' = terminateOnLeak
          /\ Len(out) = taken /\ Len(out') = taken + n
          /\ terminateOnLeak => Findings(n) = {}
      BY <2>2, Appends DEF Pass, TypeInv
    <3> SUFFICES ASSUME terminateOnLeak, NEW i \in Nat, i >= 1, i + MinLen - 1 <= taken + n,
                        IsRun(i, i + MinLen - 1)
                 PROVE  FALSE
      BY <3>1, Window DEF HiddenInv, IsRun, TypeInv
    <3>2. i + MinLen - 1 > taken
      BY <3>1, Sizing, Window DEF HiddenInv, TypeInv
    <3>3. /\ WindowStart(n) \in Nat /\ WindowStart(n) <= i
          /\ taken + n \in Nat
      BY <3>2, Window DEF TypeInv
    <3>4. /\ i \in WindowStart(n)..taken + n
          /\ i + MinLen - 1 \in i..taken + n
          /\ (i + MinLen - 1) - i + 1 >= MinLen
      BY <3>3, Sizing
    <3>5. Findings(n) # {}
      BY <3>3, <3>4, Extends DEF Findings
    <3> QED
      BY <3>1, <3>5
  <2> QED
    BY <2>1, <2>2 DEF Next, Terminate, WriteFails, ReadNothing, vars
<1>3. TypeInv /\ HiddenInv => TerminateHidesValues
  <2> SUFFICES ASSUME TypeInv, HiddenInv, terminateOnLeak, NEW i \in 1..taken - MinLen + 1,
                      IsRun(i, i + MinLen - 1), Received(i, i + MinLen - 1)
               PROVE  FALSE
    BY DEF TerminateHidesValues
  <2>1. i \in Nat /\ i >= 1 /\ i + MinLen - 1 \in Nat /\ i + MinLen - 1 \in i..i + MinLen - 1
    BY Sizing DEF TypeInv, TypeOK
  <2>2. i + MinLen - 1 \in DOMAIN out
    BY <2>1, ReceivedAt
  <2>3. i + MinLen - 1 <= Len(out)
    BY <2>2 DEF TypeInv, TypeOK
  <2> QED
    BY <2>1, <2>3 DEF HiddenInv
<1> QED
  BY <1>1, <1>2, <1>3, Typed, PTL DEF Spec

\* A value that lies in a chunk is found whole, for the window begins before the
\* chunk; and if none of its cells is masked yet it occurs at its own place.  The
\* first replacement that reaches it is its own, one of the same text, or one of a
\* shorter value found before it.
THEOREM WholeValuesAreMasked == Spec => []RedactMasksWholeValues
<1>1. Init => MaskedInv
  BY DEF Init, MaskedInv
<1>2. TypeInv /\ TypeInv' /\ MaskedInv /\ [Next]_vars => MaskedInv'
  <2> SUFFICES ASSUME TypeInv, TypeInv', MaskedInv, [Next]_vars PROVE MaskedInv'
    OBVIOUS
  <2>1. CASE UNCHANGED <<body, taken, chunks, out>>
    BY <2>1 DEF MaskedInv, Hidden, Unwritten, Spoils, Occurs, Runs, IsRun
  <2>2. ASSUME result = "none", NEW n \in Sizes, Take(n), body' = body,
               \A k \in DOMAIN out : k \in DOMAIN out' => out'[k] = out[k],
               \A r \in Findings(n) : taken + 1 <= r[1] =>
                  /\ \E k \in r[1]..r[2] : Unwritten(k)'
                  /\ (\A k \in r[1]..r[2] : Unwritten(k)') \/ \E s \in Findings(n) : Spoils(s, r)
        PROVE  MaskedInv'
    <3>1. /\ n \in Nat /\ n > 0 /\ taken \in Nat /\ taken + n \in Nat
          /\ WindowStart(n) \in Nat /\ WindowStart(n) >= 1 /\ WindowStart(n) <= taken + 1
      BY Window DEF TypeInv
    <3>2. /\ taken' = taken + n
          /\ chunks' = chunks \cup {<<taken + 1, taken + n>>}
      BY <2>2 DEF Take
    <3>3. \A c \in chunks' : c[1] \in Nat /\ c[2] \in 0..taken'
      BY <3>1, <3>2 DEF MaskedInv
    <3>4. /\ Runs(1, taken)' = Runs(1, taken + n)
          /\ \A c \in chunks' : Runs(FirstKept(c[2]), c[2])' = Runs(FirstKept(c[2]), c[2])
      BY <2>2, <3>2 DEF Runs, IsRun, FirstKept
    <3>5. ASSUME NEW c \in chunks', NEW r \in Runs(1, taken + n), c[1] <= r[1], r[2] <= c[2]
          PROVE  Hidden(r, Runs(FirstKept(c[2]), c[2]))'
      <4>1. /\ r = <<r[1], r[2]>>
            /\ r[1] \in Nat /\ r[2] \in Nat
            /\ 1 <= r[1] /\ r[1] + MinLen - 1 <= r[2] /\ r[1] <= r[2] /\ r[2] <= taken + n
            /\ IsRun(r[1], r[2])
            /\ r[1] > 1 => body[r[1] - 1] \notin Sensitive
            /\ r[2] < taken + n => body[r[2] + 1] \notin Sensitive
        BY <3>1, RunsType
      <4>2. CASE c \in chunks
        <5>1. r[2] <= taken
          BY <3>1, <3>5, <4>1, <4>2 DEF MaskedInv
        <5>2. r \in Runs(1, taken)
          BY <3>1, <4>1, <5>1, Sizing DEF Runs
        <5>3. Hidden(r, Runs(FirstKept(c[2]), c[2]))
          BY <3>5, <4>2, <5>2 DEF MaskedInv
        <5>4. \A k \in r[1]..r[2] : Unwritten(k) => Unwritten(k)'
          BY <2>2, <3>1, <4>1, <5>1 DEF TypeInv, TypeOK, Unwritten
        <5>5. \A s : Spoils(s, r) => Spoils(s, r)'
          BY <2>2 DEF Spoils, Occurs
        <5> QED
          BY <3>4, <5>3, <5>4, <5>5 DEF Hidden
      <4>3. CASE c = <<taken + 1, taken + n>>
        <5>1. taken + 1 <= r[1]
          BY <3>5, <4>3
        <5>2. r \in Findings(n)
          BY <3>1, <4>1, <5>1, Sizing DEF Findings, Runs
        <5>3. Findings(n) = Runs(FirstKept(c[2]), c[2])
          BY <4>3 DEF Findings, WindowStart
        <5>4. \A s : Spoils(s, r) => Spoils(s, r)'
          BY <2>2 DEF Spoils, Occurs
        <5> QED
          BY <2>2, <3>4, <5>1, <5>2, <5>3, <5>4 DEF Hidden
      <4> QED
        BY <3>2, <4>2, <4>3
    <3> QED
      BY <3>2, <3>3, <3>4, <3>5 DEF MaskedInv
  <2>3. ASSUME result = "none", NEW n \in Sizes, Terminate(n) \/ WriteFails(n) PROVE MaskedInv'
    <3>1. Take(n) /\ body' = body /\ out' = out
      BY <2>3 DEF Terminate, WriteFails
    <3>2. ASSUME NEW r \in Findings(n), taken + 1 <= r[1], NEW k \in r[1]..r[2]
          PROVE  Unwritten(k)'
      <4>1. k \in Nat /\ k > taken
        BY <3>2, Window, RunsType DEF Findings, TypeInv
      <4>2. k \notin DOMAIN out'
        BY <2>3, <3>1, <4>1 DEF TypeInv, TypeOK
      <4> QED
        BY <4>2 DEF Unwritten
    <3>3. \A r \in Findings(n) : r[1] \in r[1]..r[2]
      BY Window, RunsType DEF Findings, TypeInv
    <3> QED
      BY <2>2, <2>3, <3>1, <3>2, <3>3
  <2>4. ASSUME result = "none", NEW n \in Sizes, Pass(n) PROVE MaskedInv'
    <3>1. Take(n) /\ body' = body
      BY <2>4 DEF Pass
    <3>2. \A k \in DOMAIN out : out'[k] = out[k]
      BY <2>4, Appends DEF TypeInv, TypeOK
    <3>3. ASSUME NEW r \in Findings(n), taken + 1 <= r[1], NEW k \in r[1]..r[2],
                 Written(n)[k - taken] = Mask
          PROVE  Unwritten(k)'
      <4>1. k - taken \in 1..n /\ taken + (k - taken) = k
        BY <3>3, Window, RunsType DEF Findings, TypeInv
      <4>2. out'[k] = Mask
        BY <2>4, <3>3, <4>1, Appends
      <4> QED
        BY <4>2 DEF Unwritten
    <3>4. ASSUME NEW r \in Findings(n), taken + 1 <= r[1]
          PROVE  /\ \E k \in r[1]..r[2] : Unwritten(k)'
                 /\ (\A k \in r[1]..r[2] : Unwritten(k)') \/ \E s \in Findings(n) : Spoils(s, r)
      BY <3>3, <3>4, Writes DEF TypeInv
    <3> QED
      BY <2>2, <2>4, <3>1, <3>2, <3>4
  <2> QED
    BY <2>1, <2>3, <2>4 DEF Next, ReadNothing, vars
<1>3. TypeInv /\ MaskedInv => RedactMasksWholeValues
  <2> SUFFICES ASSUME TypeInv, MaskedInv, NEW c \in chunks, NEW r \in Runs(1, taken),
                      c[1] <= r[1], r[2] <= c[2]
               PROVE  /\ ~ Received(r[1], r[2])
                      /\ \/ \A k \in r[1]..r[2] : ~ Received(k, k)
                         \/ \E s \in Runs(FirstKept(c[2]), c[2]) : Spoils(s, r)
    BY DEF RedactMasksWholeValues
  <2>1. r[1] \in Nat /\ r[2] \in Nat /\ r[1] >= 1
    <3>1. taken \in Nat /\ 1 \in Nat
      BY DEF TypeInv, TypeOK
    <3> QED
      BY <3>1, RunsType
  <2>2. Hidden(r, Runs(FirstKept(c[2]), c[2]))
    BY DEF MaskedInv
  <2>3. ASSUME NEW i \in r[1]..r[2], NEW j \in i..r[2], Received(i, j), NEW k \in i..j,
               Unwritten(k)
        PROVE  FALSE
    <3>1. i \in Nat /\ j \in Nat /\ i >= 1
      BY <2>1
    <3>2. k \in DOMAIN out /\ out[k] = k /\ k >= 1
      BY <2>3, <3>1, ReceivedAt
    <3> QED
      BY <2>3, <3>2 DEF Mask, Unwritten
  <2>4. ~ Received(r[1], r[2])
    <3>1. PICK k \in r[1]..r[2] : Unwritten(k)
      BY <2>2 DEF Hidden
    <3>2. r[1] \in r[1]..r[2] /\ r[2] \in r[1]..r[2]
      BY <2>1, <3>1
    <3> QED
      BY <2>3, <3>1, <3>2
  <2>5. ASSUME NEW k \in r[1]..r[2], Unwritten(k) PROVE ~ Received(k, k)
    <3>1. k \in k..k /\ k \in k..r[2]
      BY <2>1
    <3> QED
      BY <2>3, <2>5, <3>1
  <2> QED
    BY <2>2, <2>4, <2>5 DEF Hidden
<1> QED
  BY <1>1, <1>2, <1>3, Typed, PTL DEF Spec

-----------------------------------------------------------------------------
\* The part of the body that has been read has a value exactly when one was found:
\* the last cells of a value, of which MinLen make a value of their own, are never
\* further back than the window.
THEOREM LeaksAreReportedExactly == Spec => []ReportedExactly
<1>1. Init => LeakInv
  <2> SUFFICES ASSUME Init PROVE LeakInv
    OBVIOUS
  <2>1. Runs(1, 0) = {}
    BY DEF Runs
  <2> QED
    BY <2>1 DEF Init, LeakInv
<1>2. TypeInv /\ LeakInv /\ [Next]_vars => LeakInv'
  <2> SUFFICES ASSUME TypeInv, LeakInv, [Next]_vars PROVE LeakInv'
    OBVIOUS
  <2>1. CASE UNCHANGED <<body, taken, anyLeakSeen, terminated>>
    BY <2>1 DEF LeakInv, Runs, IsRun
  <2>2. ASSUME NEW n \in Sizes, Take(n), body' = body,
               terminated' => terminated \/ Findings(n) # {}
        PROVE  LeakInv'
    <3>1. /\ n \in Nat /\ n > 0 /\ taken \in Nat /\ taken + n \in Nat
          /\ WindowStart(n) \in Nat /\ WindowStart(n) >= 1 /\ WindowStart(n) <= taken + 1
          /\ \A i \in Nat : i >= 1 /\ i + MinLen - 1 > taken => WindowStart(n) <= i
      BY Window DEF TypeInv
    <3>2. /\ Runs(1, taken)' = Runs(1, taken + n)
          /\ anyLeakSeen' = (anyLeakSeen \/ Findings(n) # {})
      BY <2>2 DEF Take, Seen, Runs, IsRun
    <3>3. anyLeakSeen => Runs(1, taken + n) # {}
      <4> SUFFICES ASSUME Runs(1, taken) # {} PROVE Runs(1, taken + n) # {}
        BY DEF LeakInv
      <4>1. PICK r \in Runs(1, taken) : TRUE
        OBVIOUS
      <4>2. taken >= 1
        BY <3>1, <4>1, RunsType
      <4>3. 1 \in 1..taken + n /\ taken \in 1..taken + n
        BY <3>1, <4>2
      <4> QED
        BY <3>1, <4>3, RunsGrow
    <3>4. Findings(n) # {} => Runs(1, taken + n) # {}
      <4>1. WindowStart(n) \in 1..taken + n /\ taken + n \in WindowStart(n)..taken + n
        BY <3>1
      <4> QED
        BY <3>1, <4>1, RunsGrow DEF Findings
    <3>5. ASSUME NEW r \in Runs(1, taken + n) PROVE anyLeakSeen \/ Findings(n) # {}
      <4>1. /\ r[1] \in Nat /\ r[2] \in Nat
            /\ 1 <= r[1] /\ r[1] + MinLen - 1 <= r[2] /\ r[1] <= r[2] /\ r[2] <= taken + n
            /\ IsRun(r[1], r[2])
        BY <3>1, RunsType
      <4>2. CASE r[1] + MinLen - 1 <= taken
        <5>1. /\ r[1] \in 1..taken /\ r[1] + MinLen - 1 \in r[1]..taken
              /\ (r[1] + MinLen - 1) - r[1] + 1 >= MinLen
          BY <3>1, <4>1, <4>2, Sizing
        <5>2. IsRun(r[1], r[1] + MinLen - 1)
          BY <4>1, Sizing DEF IsRun
        <5>3. Runs(1, taken) # {}
          BY <3>1, <5>1, <5>2, Extends
        <5> QED
          BY <5>3 DEF LeakInv
      <4>3. CASE r[1] + MinLen - 1 > taken
        <5>1. /\ r[1] \in WindowStart(n)..taken + n /\ r[2] \in r[1]..taken + n
              /\ r[2] - r[1] + 1 >= MinLen
          BY <3>1, <4>1, <4>3, Sizing
        <5>2. Findings(n) # {}
          BY <3>1, <4>1, <5>1, Extends DEF Findings
        <5> QED
          BY <5>2
      <4> QED
        BY <3>1, <4>1, <4>2, <4>3, Sizing
    <3>6. anyLeakSeen' <=> Runs(1, taken)' # {}
      BY <3>2, <3>3, <3>4, <3>5
    <3>7. terminated' => anyLeakSeen'
      BY <2>2, <3>2 DEF LeakInv
    <3> QED
      BY <3>6, <3>7 DEF LeakInv
  <2> QED
    BY <2>1, <2>2 DEF Next, Terminate, Pass, WriteFails, ReadNothing, vars
<1>3. LeakInv => ReportedExactly
  BY DEF LeakInv, ReportedExactly
<1> QED
  BY <1>1, <1>2, <1>3, Typed, PTL DEF Spec

\* What is replaced was found, so it is sensitive; and the loop ends without error
\* and without terminating the stream only when all of the body was written.
THEOREM PlainTextIsKept == Spec => []PlainTextKept
<1>1. Init => PlainInv
  BY DEF Init, PlainInv
<1>2. TypeInv /\ PlainInv /\ [Next]_vars => PlainInv'
  <2> SUFFICES ASSUME TypeInv, PlainInv, [Next]_vars PROVE PlainInv'
    OBVIOUS
  <2>1. ASSUME result = "none", NEW n \in Sizes, Terminate(n) \/ WriteFails(n) PROVE PlainInv'
    BY <2>1 DEF Terminate, WriteFails, PlainInv
  <2>2. ASSUME result = "none", NEW n \in Sizes, Pass(n) PROVE PlainInv'
    <3>1. ASSUME NEW k \in DOMAIN out', body[k] \notin Sensitive PROVE out'[k] = k
      <4>1. k \in 1..taken + n
        BY <2>2, Appends
      <4>2. CASE k <= taken
        BY <2>2, <3>1, <4>1, <4>2, Appends, Window DEF TypeInv, TypeOK, PlainInv
      <4>3. CASE k > taken
        <5>1. k - taken \in 1..n /\ taken + (k - taken) = k
          BY <4>1, <4>3, Window DEF TypeInv
        <5>2. Written(n)[k - taken] = k
          BY <3>1, <5>1, Writes DEF TypeInv
        <5> QED
          BY <2>2, <5>1, <5>2, Appends
      <4> QED
        BY <4>1, <4>2, <4>3, Window DEF TypeInv
    <3>2. result' = "nil" => Len(out') = BodyLen
      BY <2>2, Appends DEF Pass
    <3> QED
      BY <2>2, <3>1, <3>2 DEF Pass, PlainInv
  <2>3. ASSUME result = "none", ReadNothing PROVE PlainInv'
    BY <2>3 DEF ReadNothing, TypeInv, PlainInv
  <2>4. CASE UNCHANGED vars
    BY <2>4 DEF vars, PlainInv
  <2> QED
    BY <2>1, <2>2, <2>3, <2>4 DEF Next
<1>3. TypeInv /\ PlainInv => PlainTextKept
  <2> SUFFICES ASSUME TypeInv, PlainInv, result = "nil", ~ terminated,
                      NEW k \in 1..BodyLen, body[k] = Plain
               PROVE  Received(k, k)
    BY DEF PlainTextKept
  <2>1. k \in DOMAIN out /\ body[k] \notin Sensitive
    BY InterceptorAssumption DEF TypeInv, TypeOK, PlainInv
  <2>2. out[k] = k
    BY <2>1 DEF PlainInv
  <2> QED
    BY <2>1, <2>2, Sizing DEF Received
<1> QED
  BY <1>1, <1>2, <1>3, Typed, PTL DEF Spec
=============================================================================
