----------------------------- MODULE PageProofs -----------------------------
(***************************************************************************)
(* Theorems about the page of the dashboard, with their proofs: about the  *)
(* request explorer, for any rows, options, search texts and limits; and   *)
(* about the refreshes of its data, for any events, tabs and number of     *)
(* refreshes that could be under way.                                      *)
(***************************************************************************)
EXTENDS Explorer, Dashboard, FiniteSetTheorems, SequenceTheorems, WellFoundedInduction,
        TLAPS

-----------------------------------------------------------------------------
(* Induction on numbers, as facts about sets of numbers.                   *)

\* A set of numbers has a least element.
LEMMA Least ==
  ASSUME NEW T \in SUBSET Nat, T # {}
  PROVE  \E x \in T : \A y \in T : x <= y
<1>1. IsWellFoundedOn(OpToRel(<, Nat), Nat)
  BY NatLessThanWellFounded
<1>2. PICK x \in T : \A y \in T : <<y, x>> \notin OpToRel(<, Nat)
  BY <1>1, WFMin
<1>3. \A y \in T : ~ (y < x)
  BY <1>2 DEF OpToRel
<1> QED
  BY <1>3

\* A set that has 0 and with each number the next has them all.
LEMMA Climb ==
  ASSUME NEW S, 0 \in S, \A n \in Nat : n \in S => n + 1 \in S
  PROVE  \A n \in Nat : n \in S
<1> SUFFICES ASSUME NEW m \in Nat, m \notin S PROVE FALSE
  OBVIOUS
<1> DEFINE T == {n \in Nat : n \notin S}
<1>1. T \in SUBSET Nat /\ T # {}
  OBVIOUS
<1>2. PICK x \in T : \A y \in T : x <= y
  BY <1>1, Least
<1>3. x \in Nat /\ x # 0
  OBVIOUS
<1>4. x - 1 \in Nat /\ x - 1 \notin T
  BY <1>2, <1>3
<1>5. x - 1 + 1 \in S /\ x - 1 + 1 = x
  BY <1>3, <1>4
<1> QED
  BY <1>5

\* On m..n, f begins with e and goes on as g says from each value to the next.
Iterates(f, m, n, V, e, g) ==
    /\ f \in [m..n -> V]
    /\ f[m] = e
    /\ \A i \in m + 1..n : f[i] = g[<<i, f[i - 1]>>]

\* There is such a function.
LEMMA Recursion ==
  ASSUME NEW m \in Nat, NEW V, NEW e \in V, NEW g \in [Nat \X V -> V], NEW n \in Nat, m <= n
  PROVE  \E f : Iterates(f, m, n, V, e, g)
<1> DEFINE Good(f, k) == Iterates(f, m, m + k, V, e, g)
           S == {k \in Nat : \E f : Good(f, k)}
<1>1. 0 \in S
  <2> DEFINE f == [i \in m..m + 0 |-> e]
  <2>1. Good(f, 0)
    BY DEF Iterates
  <2> QED
    BY <2>1
<1>2. ASSUME NEW k \in Nat, k \in S PROVE k + 1 \in S
  <2>1. PICK f : Good(f, k)
    BY <1>2
  <2> DEFINE h == [i \in m..m + (k + 1) |->
                     IF i = m + (k + 1) THEN g[<<i, f[m + k]>>] ELSE f[i]]
  <2>2. f[m + k] \in V
    BY <2>1 DEF Iterates
  <2>3. g[<<m + (k + 1), f[m + k]>>] \in V
    BY <2>2
  <2>4. h \in [m..m + (k + 1) -> V] /\ h[m] = e
    BY <2>1, <2>3 DEF Iterates
  <2>5. ASSUME NEW i \in m + 1..m + (k + 1) PROVE h[i] = g[<<i, h[i - 1]>>]
    <3>1. CASE i = m + (k + 1)
      BY <3>1
    <3>2. CASE i \in m + 1..m + k
      BY <2>1, <3>2 DEF Iterates
    <3> QED
      BY <3>1, <3>2
  <2> HIDE DEF h
  <2>6. Good(h, k + 1)
    BY <2>4, <2>5 DEF Iterates
  <2> HIDE DEF Good
  <2> QED
    BY <2>6
<1> HIDE DEF S
<1>3. \A k \in Nat : k \in S
  BY <1>1, <1>2, Climb
<1>4. n - m \in Nat /\ m + (n - m) = n
  OBVIOUS
<1>5. n - m \in S
  BY <1>3, <1>4
<1>6. PICK f : Good(f, n - m)
  BY <1>5 DEF S
<1> QED
  BY <1>4, <1>6

-----------------------------------------------------------------------------
(* The explorer.                                                           *)

\* What the page starts with is among the options.
LEMMA DefaultsOK == SettingsOK(Defaults)
  BY ExplorerAssumption DEF SettingsOK, Defaults, Fields, Options

\* What the first effect has read is among the options, too.
LEMMA ReadOK ==
  ASSUME stored = NoItem \/ SettingsOK(stored)
  PROVE  SettingsOK(ReadAtMount)
<1>1. SettingsOK(ReadItem)
  BY DefaultsOK DEF ReadItem
<1>2. SettingsOK(Then(ReadItem, Defaults))
  BY <1>1, DefaultsOK DEF SettingsOK, Then
<1> QED
  BY <1>1, <1>2 DEF ReadAtMount

\* The rows that match are rows, and of no rows there are none.
LEMMA FilterType ==
  ASSUME TypeOK
  PROVE  /\ filteredDecisionRows \in Seq(Rows)
         /\ decisionRows = <<>> => filteredDecisionRows = <<>>
<1> DEFINE last == Len(decisionRows)
           UpTo(f) == [n \in 0..last |->
                         IF n = 0 THEN <<>>
                         ELSE IF Matches(decisionRows[n]) THEN Append(f[n - 1], decisionRows[n])
                         ELSE f[n - 1]]
           upTo == CHOOSE f : f = UpTo(f)
           V == Seq(Rows)
           g == [x \in Nat \X V |->
                   IF x[1] \in 1..last /\ Matches(decisionRows[x[1]])
                   THEN Append(x[2], decisionRows[x[1]]) ELSE x[2]]
<1>1. last \in Nat /\ \A n \in 1..last : decisionRows[n] \in Rows
  BY DEF TypeOK
<1>2. g \in [Nat \X V -> V] /\ <<>> \in V
  BY <1>1
<1> HIDE DEF last
<1>3. PICK f : Iterates(f, 0, last, V, <<>>, g)
  <2> HIDE DEF g, V
  <2> QED
    <3>1. 0 \in Nat /\ last \in Nat /\ 0 <= last
      BY <1>1
    <3>2. \E f : Iterates(f, 0, last, V, <<>>, g)
      BY <1>2, <3>1, Recursion
    <3> QED
      BY <3>2, Zenon
<1>4. f = UpTo(f)
  <2>1. ASSUME NEW n \in 1..last
        PROVE  f[n] = IF Matches(decisionRows[n]) THEN Append(f[n - 1], decisionRows[n])
                      ELSE f[n - 1]
    <3>1. f[n] = g[<<n, f[n - 1]>>] /\ n \in Nat /\ f[n - 1] \in V
      <4> HIDE DEF g, V
      <4> QED
        BY <1>1, <1>3 DEF Iterates
    <3> HIDE DEF V
    <3> QED
      BY <3>1
  <2> HIDE DEF g, V
  <2>2. f \in [0..last -> V] /\ f[0] = <<>>
    BY <1>3 DEF Iterates
  <2>3. ASSUME NEW n \in 0..last
        PROVE  f[n] = IF n = 0 THEN <<>>
                      ELSE IF Matches(decisionRows[n]) THEN Append(f[n - 1], decisionRows[n])
                      ELSE f[n - 1]
    <3>1. n = 0 \/ n \in 1..last
      BY <1>1
    <3>2. CASE n = 0
      BY <2>2, <3>2, Zenon
    <3>3. CASE n \in 1..last
      <4>1. n # 0
        BY <3>3
      <4> QED
        BY <2>1, <3>3, <4>1, Zenon
    <3> QED
      BY <3>1, <3>2, <3>3
  <2>4. f = [n \in 0..last |-> f[n]]
    BY <2>2, Zenon
  <2> QED
    BY <2>3, <2>4, Zenon
<1>5. upTo = UpTo(upTo)
  <2>1. \E z : z = UpTo(z)
    BY <1>4
  <2> HIDE DEF UpTo
  <2> QED
    BY <2>1
<1>6. filteredDecisionRows = upTo[last]
  BY Zenon DEF filteredDecisionRows, last
<1>7. /\ upTo[0] = <<>>
      /\ \A n \in 1..last :
            upTo[n] = IF Matches(decisionRows[n]) THEN Append(upTo[n - 1], decisionRows[n])
                      ELSE upTo[n - 1]
  <2> HIDE DEF upTo
  <2>1. ASSUME NEW n \in 0..last
        PROVE  upTo[n] = IF n = 0 THEN <<>>
                         ELSE IF Matches(decisionRows[n])
                              THEN Append(upTo[n - 1], decisionRows[n])
                         ELSE upTo[n - 1]
    <3>1. upTo[n] = UpTo(upTo)[n]
      BY <1>5
    <3> QED
      BY <3>1, Zenon
  <2>2. 0 \in 0..last /\ \A n \in 1..last : n \in 0..last /\ n # 0
    BY <1>1
  <2> QED
    BY <2>1, <2>2, Zenon
<1> HIDE DEF upTo, UpTo, g
<1> DEFINE S == {n \in Nat : n <= last => upTo[n] \in V}
<1>8. 0 \in S
  BY <1>2, <1>7
<1>9. ASSUME NEW n \in Nat, n \in S PROVE n + 1 \in S
  <2> SUFFICES ASSUME n + 1 <= last PROVE upTo[n + 1] \in V
    OBVIOUS
  <2> DEFINE m == n + 1
  <2>1. upTo[n] \in V /\ m \in 1..last /\ m - 1 = n
    BY <1>1, <1>9
  <2> HIDE DEF m
  <2>2. decisionRows[m] \in Rows
    BY <1>1, <2>1
  <2>3. upTo[m] = IF Matches(decisionRows[m]) THEN Append(upTo[m - 1], decisionRows[m])
                  ELSE upTo[m - 1]
    BY <1>7, <2>1, Zenon
  <2>4. upTo[m] = upTo[n] \/ upTo[m] = Append(upTo[n], decisionRows[m])
    BY <2>1, <2>3, Zenon
  <2>5. upTo[m] \in V
    BY <2>1, <2>2, <2>4
  <2> QED
    BY <2>5 DEF m
<1>10. last \in S
  <2> HIDE DEF S
  <2> QED
    BY <1>1, <1>8, <1>9, Climb
<1>11. decisionRows = <<>> => last = 0
  BY DEF last
<1> QED
  BY <1>1, <1>6, <1>7, <1>10, <1>11

LEMMA MatchingType ==
  ASSUME TypeOK
  PROVE  Matching \in Nat /\ (decisionRows = <<>> => Matching = 0)
  BY FilterType DEF Matching

\* There is always a page, and a table without rows has one.
LEMMA Quotient ==
  ASSUME NEW m \in Nat, NEW k \in Nat \ {0}
  PROVE  /\ (m + k - 1) \div k \in Nat
         /\ (k - 1) \div k = 0
  OBVIOUS

LEMMA TotalPages ==
  ASSUME TypeOK
  PROVE  /\ totalPages \in Nat \ {0}
         /\ decisionRows = <<>> => totalPages = 1
<1>1. rowsPerPage \in Nat \ {0}
  BY ExplorerAssumption DEF TypeOK, SettingsOK, rowsPerPage, Fields, Options
<1>2. (Matching + rowsPerPage - 1) \div rowsPerPage \in Nat
  BY <1>1, MatchingType, Quotient
<1>3. decisionRows = <<>> => (Matching + rowsPerPage - 1) \div rowsPerPage = 0
  BY <1>1, MatchingType, Quotient
<1> QED
  BY <1>2, <1>3 DEF totalPages, AtLeast

\* The types are kept by every step.
THEOREM TypeCorrect == Spec => []TypeOK
<1>1. Init => TypeOK
  <2> SUFFICES ASSUME Init PROVE TypeOK
    OBVIOUS
  <2>1. SettingsOK(settings) /\ SettingsOK(read) /\ SettingsOK(chosen)
    BY DefaultsOK DEF Init
  <2>2. decisionRows \in Seq(Rows)
    BY DEF Init
  <2>3. strict \in BOOLEAN /\ cutShort \in BOOLEAN
    BY Zenon DEF Init
  <2> QED
    BY <2>1, <2>2, <2>3 DEF Init, TypeOK
<1>2. TypeOK /\ [Next]_vars => TypeOK'
  <2> SUFFICES ASSUME TypeOK, [Next]_vars PROVE TypeOK'
    OBVIOUS
  <2>1. CASE Open
    BY <2>1, ReadOK, DefaultsOK DEF Open, TypeOK, table
  <2>2. CASE Render
    BY <2>2 DEF Render, TypeOK, table, SettingsOK, QueueTaken
  <2>3. CASE Persist
    BY <2>3 DEF Persist, TypeOK, table
  <2>4. CASE Close
    BY <2>4, DefaultsOK DEF Close, TypeOK
  <2>5. ASSUME NEW f \in Fields, NEW v \in Options[f], Set(f, v),
               decisionRows' = decisionRows, selectedRequest' = selectedRequest,
               page' \in {1, page}
        PROVE  TypeOK'
    <3>1. SettingsOK(settings')
      BY <2>5 DEF Set, TypeOK, SettingsOK
    <3>2. SettingsOK(chosen')
      BY <2>5 DEF Set, TypeOK, SettingsOK
    <3> QED
      BY <2>5, <3>1, <3>2 DEF Set, TypeOK
  <2>6. ASSUME NEW f \in Fields, NEW v \in Options[f], Select(f, v) PROVE TypeOK'
    BY <2>5, <2>6 DEF Select, BackToFirstPage
  <2>7. ASSUME NEW needle \in Needles \cup {""}, Search(needle) PROVE TypeOK'
    BY <2>5, <2>7 DEF Search, table, Fields, Options
  <2>8. CASE PrevPage
    BY <2>8 DEF PrevPage, AtLeast, TypeOK, kept
  <2>9. CASE NextPage
    BY <2>9, TotalPages DEF NextPage, AtMost, TypeOK, kept
  <2>10. ASSUME NEW feed \in Feeds, Refresh(feed) PROVE TypeOK'
    <3>1. feed \in Seq(Rows)
      BY <2>10 DEF Feeds
    <3> QED
      BY <2>10, <3>1 DEF Refresh, TypeOK, kept
  <2>11. ASSUME NEW row \in Rows \cup {NoRow}, Drawer(row) PROVE TypeOK'
    BY <2>11 DEF Drawer, TypeOK, kept
  <2>12. CASE UNCHANGED vars
    BY <2>12 DEF vars, kept, table, TypeOK
  <2> QED
    BY <2>1, <2>2, <2>3, <2>4, <2>6, <2>7, <2>8, <2>9, <2>10, <2>11, <2>12
       DEF Next, OpenRow, OpenIncident, CloseDrawer, Escape
<1> QED
  BY <1>1, <1>2, PTL DEF Spec
-----------------------------------------------------------------------------
\* Where the last choice of a setting is to be found: in localStorage while the
\* page is closed, in the queue or the settings while the first render is due,
\* and in the settings from then on.
KeptIn(f) ==
    CASE session = "closed" -> IF stored = NoItem THEN Defaults[f] ELSE stored[f]
      [] session = "mounted" -> IF f \in queued THEN read[f] ELSE settings[f]
      [] OTHER -> settings[f]

KeptInv ==
    ~ cutShort => \A f \in Fields : (strict => f = "requestFilter") => KeptIn(f) = chosen[f]

\* An item is never mistaken for no item.
LEMMA ItemIsThere == ASSUME NEW s, SettingsOK(s) PROVE s # NoItem
<1>1. DOMAIN NoItem = {}
  BY DEF NoItem
<1> QED
  BY <1>1 DEF SettingsOK, Fields

\* The kept settings reach the page again although its first effects write the
\* defaults over them: what the first effect has read is queued before.
THEOREM SettingsAreKept == Spec => []SettingsSurvive
<1>1. Init => KeptInv
  BY DEF Init, KeptInv, KeptIn
<1>2. TypeOK /\ KeptInv /\ [Next]_vars => KeptInv'
  <2> SUFFICES ASSUME TypeOK, KeptInv, [Next]_vars, ~ cutShort',
                      NEW f \in Fields, strict' => f = "requestFilter"
               PROVE  KeptIn(f)' = chosen'[f]
    BY DEF KeptInv
  <2> DEFINE Before == KeptIn(f) = chosen[f]
  <2>1. CASE Open
    <3>1. Before
      BY <2>1 DEF Open, KeptInv
    <3>2. KeptIn(f) = ReadItem[f]
      BY <2>1 DEF Open, KeptIn, ReadItem
    <3>3. CASE f \in queued'
      <4>1. read'[f] = ReadItem[f]
        BY <2>1, <3>3 DEF Open, ReadAtMount, Then, Truthy, Defaults
      <4> QED
        BY <2>1, <3>1, <3>2, <3>3, <4>1 DEF Open, KeptIn
    <3>4. CASE f \notin queued'
      <4>1. settings[f] = Defaults[f]
        BY <2>1 DEF Open, TypeOK
      <4>2. ReadItem[f] = Defaults[f]
        BY <2>1, <3>4 DEF Open, ReadItem, ReadAtMount, Then, Truthy, Defaults
      <4> QED
        BY <2>1, <3>1, <3>2, <3>4, <4>1, <4>2 DEF Open, KeptIn
    <3> QED
      BY <3>3, <3>4
  <2>2. CASE Render
    BY <2>2 DEF Render, KeptInv, KeptIn, TypeOK
  <2>3. CASE Persist
    BY <2>3 DEF Persist, KeptInv, KeptIn
  <2>4. CASE Close
    <3>1. session = "settled" /\ ~ cutShort
      BY <2>4 DEF Close, TypeOK
    <3>2. stored = settings /\ stored # NoItem
      BY <3>1, ItemIsThere DEF TypeOK
    <3> QED
      BY <2>4, <3>1, <3>2 DEF Close, KeptInv, KeptIn
  <2>5. ASSUME NEW g \in Fields, NEW v \in Options[g], Set(g, v)
        PROVE  KeptIn(f)' = chosen'[f]
    BY <2>5 DEF Set, KeptInv, KeptIn, TypeOK, SettingsOK
  <2>6. CASE UNCHANGED <<strict, session, kept, cutShort>>
    BY <2>6 DEF KeptInv, KeptIn, kept
  <2> QED
    BY <2>1, <2>2, <2>3, <2>4, <2>5, <2>6
       DEF Next, Select, Search, PrevPage, NextPage, Refresh, OpenRow,
           OpenIncident, CloseDrawer, Escape, Drawer, vars, Fields, Options
<1>3. KeptInv => SettingsSurvive
  BY DEF KeptInv, KeptIn, SettingsSurvive
<1> QED
  BY <1>1, <1>2, <1>3, TypeCorrect, PTL DEF Spec

-----------------------------------------------------------------------------
\* The number of pages changes only with the rows and the settings.
LEMMA SamePages ==
  ASSUME decisionRows' = decisionRows, settings' = settings
  PROVE  totalPages' = totalPages
  BY DEF totalPages, Matching, filteredDecisionRows, Matches, rowsPerPage

\* The page falls behind only through the search box or a refresh.
THEOREM PageFallsBehindOnlySo == Spec => PageLeftBehind
<1> DEFINE Behind ==
      page <= totalPages /\ (page > totalPages)' =>
          \/ decisionRows' # decisionRows
          \/ settings'["requestFilter"] # settings["requestFilter"]
      Sized == page \in Nat /\ totalPages \in Nat \ {0}
<1>1. TypeOK => Sized
  BY TotalPages DEF TypeOK
<1>2. TypeOK /\ Sized /\ Sized' /\ [Next]_vars => Behind
  <2> SUFFICES ASSUME TypeOK, Sized, Sized', [Next]_vars, page <= totalPages,
                      decisionRows' = decisionRows,
                      settings'["requestFilter"] = settings["requestFilter"]
               PROVE  page' <= totalPages'
    OBVIOUS
  <2>1. totalPages \in Nat \ {0} /\ totalPages' \in Nat \ {0}
    OBVIOUS
  <2>2. CASE page' = 1
    BY <2>1, <2>2
  <2>3. CASE page' = page /\ settings' = settings
    BY <2>3, SamePages
  <2>4. CASE Open \/ Render \/ Persist \/ Close
    BY <2>2, <2>4 DEF Open, Render, Persist, Close, TypeOK, table
  <2>5. CASE NextPage
    BY <2>1, <2>5, SamePages DEF NextPage, AtMost, TypeOK, kept
  <2>6. CASE PrevPage
    BY <2>1, <2>6, SamePages DEF PrevPage, AtLeast, TypeOK, kept
  <2>7. ASSUME NEW f \in Fields, NEW v \in Options[f], Select(f, v)
        PROVE  page' = 1
    BY <2>7 DEF Select, BackToFirstPage
  <2>8. ASSUME NEW needle \in Needles \cup {""}, Search(needle) PROVE FALSE
    BY <2>8 DEF Search, Set, TypeOK, SettingsOK, Fields
  <2>9. CASE page' = page /\ UNCHANGED kept
    BY <2>3, <2>9 DEF kept
  <2> QED
    BY <2>2, <2>4, <2>5, <2>6, <2>7, <2>8, <2>9
       DEF Next, Refresh, OpenRow, OpenIncident, CloseDrawer, Escape, Drawer, vars, table
<1> QED
  BY <1>1, <1>2, TypeCorrect, PTL DEF Spec, PageLeftBehind

-----------------------------------------------------------------------------
\* The number of pages of k rows that m rows take: the last one begins before the
\* last row and ends behind it.
LEMMA Pages ==
  ASSUME NEW m \in Nat, NEW k \in Nat \ {0}, NEW t \in Nat \ {0},
         t = AtLeast(1, (m + k - 1) \div k)
  PROVE  /\ m <= t * k
         /\ \A p \in Nat : p < t /\ p > 0 => p * k < m
         /\ m > 0 => (t - 1) * k < m
<1> DEFINE q == (m + k - 1) \div k
<1>1. q \in Nat /\ q * k <= m + k - 1 /\ m + k - 1 < q * k + k
  OBVIOUS
<1> HIDE DEF q
<1>2. t = IF q < 1 THEN 1 ELSE q
  BY DEF AtLeast, q
<1>3. m <= t * k
  BY <1>1, <1>2
<1>4. m > 0 => (t - 1) * k < m
  BY <1>1, <1>2
<1>5. ASSUME NEW p \in Nat, p < t, p > 0 PROVE p * k < m
  <2>1. p <= t - 1 /\ t = q
    BY <1>1, <1>2, <1>5
  <2>2. p * k <= (t - 1) * k
    BY <2>1
  <2>3. (t - 1) * k < m
    BY <1>1, <2>1
  <2> QED
    BY <2>2, <2>3
<1> QED
  BY <1>3, <1>4, <1>5

\* e are places, in order, at which a sequence can be cut into t pieces.
Cuts(e, t, s) ==
    /\ e \in [0..t -> 0..Len(s)]
    /\ e[0] = 0 /\ e[t] = Len(s)
    /\ \A p \in 1..t : e[p - 1] <= e[p]

Pieces(e, t, s) == [p \in 1..t |-> SubSeq(s, e[p - 1] + 1, e[p])]

\* The pieces of a sequence joined are the sequence.
LEMMA Joins ==
  ASSUME NEW V, NEW s \in Seq(V), NEW t \in Nat \ {0}, NEW e, Cuts(e, t, s)
  PROVE  FlattenSeq(Pieces(e, t, s)) = s
<1> DEFINE c == Pieces(e, t, s)
           Flat(f) == [i \in 1..Len(c) |-> IF i = 1 THEN c[i] ELSE f[i - 1] \o c[i]]
           f == [p \in 1..t |-> SubSeq(s, 1, e[p])]
           flatten == CHOOSE z : z = Flat(z)
           S == {p \in Nat : \A q \in 1..t : q = p + 1 => flatten[q] = SubSeq(s, 1, e[q])}
           first == SubSeq(s, 1, e[1])
<1>1. Len(c) = t
  BY DEF Pieces
<1>2. ASSUME NEW p \in 1..t
      PROVE  c[p] = SubSeq(s, e[p - 1] + 1, e[p])
  BY DEF Pieces
<1> HIDE DEF c
<1> USE DEF Cuts
<1>3. ASSUME NEW p \in 1..t, p # 1
      PROVE  SubSeq(s, 1, e[p - 1]) \o c[p] = SubSeq(s, 1, e[p])
  <2> DEFINE a == e[p - 1]
             b == e[p]
  <2>1. p - 1 \in 0..t /\ p \in 0..t
    BY <1>3
  <2>2. a \in 0..Len(s) /\ b \in 0..Len(s) /\ a <= b
    BY <2>1
  <2>3. c[p] = SubSeq(s, a + 1, b)
    BY <1>2
  <2> HIDE DEF a, b
  <2>4. Len(s) \in Nat /\ 1 \in 1..Len(s) + 1 /\ a \in 1 - 1..Len(s) /\ b \in a..Len(s)
    BY <2>2
  <2>5. SubSeq(s, 1, a) \o SubSeq(s, a + 1, b) = SubSeq(s, 1, b)
    BY <2>4, ConcatAdjacentSubSeq
  <2>6. SubSeq(s, 1, a) \o c[p] = SubSeq(s, 1, b)
    BY <2>3, <2>5
  <2> QED
    BY <2>6 DEF a, b
<1>4. 1 \in 1..t /\ c[1] = first
  <2>1. 1 - 1 = 0 /\ e[1 - 1] + 1 = 1 /\ 1 \in 1..t
    OBVIOUS
  <2>2. c[1] = SubSeq(s, e[1 - 1] + 1, e[1])
    BY <1>2, <2>1
  <2> QED
    BY <2>1, <2>2
<1>5. f = Flat(f)
  <2>1. ASSUME NEW p \in 1..t
        PROVE  f[p] = IF p = 1 THEN c[p] ELSE f[p - 1] \o c[p]
    <3>1. f[p] = SubSeq(s, 1, e[p])
      OBVIOUS
    <3>2. CASE p = 1
      <4>1. c[p] = SubSeq(s, 1, e[p])
        BY <1>4, <3>2
      <4> QED
        BY <3>1, <3>2, <4>1, Zenon
    <3>3. CASE p # 1
      <4>1. p - 1 \in 1..t
        BY <3>3
      <4>2. f[p - 1] = SubSeq(s, 1, e[p - 1])
        BY <4>1
      <4>3. f[p] = f[p - 1] \o c[p]
        BY <1>3, <3>1, <3>3, <4>2, Zenon
      <4> QED
        BY <3>3, <4>3, Zenon
    <3> QED
      BY <3>2, <3>3
  <2>2. f = [p \in 1..t |-> f[p]]
    BY Zenon
  <2> HIDE DEF f
  <2> QED
    BY <1>1, <2>1, <2>2, Zenon
<1>6. flatten = Flat(flatten)
  <2>1. \E z : z = Flat(z)
    BY <1>5
  <2> HIDE DEF Flat
  <2> QED
    BY <2>1
<1>7. ASSUME NEW p \in 1..t
      PROVE  flatten[p] = IF p = 1 THEN c[p] ELSE flatten[p - 1] \o c[p]
  <2> HIDE DEF flatten
  <2>1. flatten[p] = Flat(flatten)[p]
    BY <1>6
  <2> QED
    BY <1>1, <2>1, Zenon
<1>8. FlattenSeq(c) = flatten[t]
  <2>1. Len(c) # 0
    BY <1>1
  <2>2. FlattenSeq(c) = flatten[Len(c)]
    BY <2>1, Zenon DEF FlattenSeq
  <2> QED
    BY <1>1, <2>2
<1> HIDE DEF flatten, f, Flat
<1>9. 0 \in S
  <2>1. flatten[1] = first
    BY <1>4, <1>7
  <2> SUFFICES ASSUME NEW q \in 1..t, q = 0 + 1
               PROVE  flatten[q] = SubSeq(s, 1, e[q])
    OBVIOUS
  <2>2. q = 1
    OBVIOUS
  <2> QED
    BY <2>1, <2>2
<1>10. ASSUME NEW p \in Nat, p \in S PROVE p + 1 \in S
  <2> SUFFICES ASSUME NEW r \in 1..t, r = p + 1 + 1
               PROVE  flatten[r] = SubSeq(s, 1, e[r])
    OBVIOUS
  <2> DEFINE q == r - 1
  <2>1. q \in 1..t /\ q = p + 1 /\ r # 1
    OBVIOUS
  <2>2. flatten[q] = SubSeq(s, 1, e[q])
    BY <1>10, <2>1
  <2>3. flatten[r] = flatten[q] \o c[r]
    BY <1>7, <2>1
  <2>4. SubSeq(s, 1, e[q]) \o c[r] = SubSeq(s, 1, e[r])
    BY <1>3, <2>1
  <2> QED
    BY <2>2, <2>3, <2>4, Zenon
<1>11. \A p \in Nat : p \in S
  <2> HIDE DEF S
  <2> QED
    BY <1>9, <1>10, Climb
<1>12. t - 1 \in S /\ t = t - 1 + 1 /\ t \in 1..t
  <2> HIDE DEF S
  <2> QED
    BY <1>11
<1>13. flatten[t] = SubSeq(s, 1, Len(s))
  BY <1>12
<1> QED
  BY <1>8, <1>13, SubSeqFull DEF c

\* The pages are cut out of the rows one behind the other, so that joined they
\* are the rows again.
THEOREM PagesAreTheExport == Spec => []PagesCover
<1>1. TypeOK => PagesCover
  <2> SUFFICES ASSUME TypeOK PROVE PagesCover
    OBVIOUS
  <2> DEFINE rows == filteredDecisionRows
             m == Len(rows)
             k == rowsPerPage
             t == totalPages
             e == [p \in 0..t |-> AtMost(m, p * k)]
             pages == [p \in 1..t |-> PageRows(p)]
  <2>1. rows \in Seq(Rows) /\ m \in Nat /\ Matching = m
    BY FilterType DEF Matching
  <2>2. k \in Nat \ {0} /\ t \in Nat \ {0}
    BY TotalPages, ExplorerAssumption DEF TypeOK, SettingsOK, rowsPerPage, Fields, Options
  <2>3. t = AtLeast(1, (m + k - 1) \div k)
    BY <2>1 DEF totalPages
  <2>4. ASSUME NEW p \in Nat
        PROVE  PageRows(p) = SubSeq(rows, (p - 1) * k + 1, AtMost(m, (p - 1) * k + k))
    BY <2>1, Zenon DEF PageRows, PageStart
  <2> HIDE DEF rows, m, k, t
  <2>5. /\ m <= t * k
        /\ \A p \in Nat : p < t /\ p > 0 => p * k < m
        /\ m > 0 => (t - 1) * k < m
    BY <2>1, <2>2, <2>3, Pages
  <2>6. ASSUME NEW p \in Nat \ {0}
        PROVE  (p - 1) * k \in Nat /\ p * k \in Nat /\ (p - 1) * k + k = p * k
    BY <2>2
  <2>7. ASSUME NEW p \in 0..t PROVE p * k \in Nat /\ e[p] = AtMost(m, p * k) /\ e[p] \in 0..m
    BY <2>1, <2>2 DEF AtMost
  <2>8. e \in [0..t -> 0..m]
    BY <2>7
  <2>9. e[0] = 0 /\ e[t] = m
    BY <2>1, <2>2, <2>5, <2>7 DEF AtMost
  <2>10. ASSUME NEW p \in 1..t
         PROVE  e[p - 1] <= e[p] /\ e[p - 1] = AtMost(m, (p - 1) * k)
    BY <2>1, <2>2, <2>6, <2>7 DEF AtMost
  <2>11. ASSUME NEW p \in 1..t, p > 1 \/ m > 0
         PROVE  e[p - 1] = (p - 1) * k
    <3>1. (p - 1) * k <= m
      BY <2>1, <2>2, <2>5, <2>11
    <3>2. (p - 1) * k \in Nat
      BY <2>6
    <3>3. AtMost(m, (p - 1) * k) = (p - 1) * k
      BY <2>1, <3>1, <3>2 DEF AtMost
    <3> QED
      BY <2>10, <3>3
  <2> HIDE DEF e
  <2>12. ASSUME NEW p \in 1..t PROVE PageRows(p) = SubSeq(rows, e[p - 1] + 1, e[p])
    <3>1. PageRows(p) = SubSeq(rows, (p - 1) * k + 1, e[p])
      <4>1. p \in Nat \ {0} /\ p \in 0..t
        BY <2>2
      <4>2. (p - 1) * k + k = p * k
        BY <2>6, <4>1
      <4>3. e[p] = AtMost(m, p * k)
        BY <2>7, <4>1
      <4> QED
        BY <2>4, <4>1, <4>2, <4>3
    <3>2. e[p - 1] = (p - 1) * k
      <4>1. CASE p > 1 \/ m > 0
        BY <2>11, <4>1
      <4>2. CASE p = 1
        BY <2>2, <2>9, <4>2
      <4> QED
        BY <2>2, <4>1, <4>2
    <3> QED
      BY <3>1, <3>2
  <2>13. FlattenSeq(pages) = Export
    <3>1. pages = Pieces(e, t, rows)
      BY <2>12 DEF Pieces
    <3> HIDE DEF pages
    <3>2. Cuts(e, t, rows)
      BY <2>8, <2>9, <2>10 DEF Cuts, m
    <3>3. FlattenSeq(Pieces(e, t, rows)) = rows
      BY <2>1, <2>2, <3>2, Joins
    <3>4. FlattenSeq(pages) = rows
      BY <3>1, <3>3
    <3> QED
      BY <3>4 DEF rows, Export
  <2>14. ASSUME NEW p \in 1..t PROVE Len(PageRows(p)) = e[p] - e[p - 1]
    <3> DEFINE a == e[p - 1]
               b == e[p]
    <3>1. a \in 0..m /\ b \in 0..m /\ a <= b
      <4>1. p - 1 \in 0..t /\ p \in 0..t
        BY <2>2
      <4> QED
        BY <2>8, <2>10, <4>1
    <3>2. PageRows(p) = SubSeq(rows, a + 1, b)
      BY <2>12
    <3> HIDE DEF a, b
    <3>3. \A i \in a + 1..b : rows[i] \in Rows
      BY <2>1, <3>1 DEF m
    <3>4. a + 1 \in Int /\ b \in Int
      BY <3>1
    <3>5. Len(SubSeq(rows, a + 1, b)) = IF a + 1 <= b THEN b - (a + 1) + 1 ELSE 0
      BY <3>3, <3>4, SubSeqProperties
    <3>6. Len(PageRows(p)) = b - a
      BY <2>1, <3>1, <3>2, <3>5
    <3> QED
      BY <3>6 DEF a, b
  <2>15. ASSUME NEW p \in 1..t - 1 PROVE Len(PageRows(p)) = k
    <3>1. p \in 1..t /\ p \in Nat \ {0} /\ p < t
      BY <2>2
    <3>2. e[p] = p * k
      BY <2>1, <2>5, <2>7, <3>1 DEF AtMost
    <3>3. p * k < m /\ p * k \in Nat /\ (p - 1) * k \in Nat /\ (p - 1) * k + k = p * k
      BY <2>5, <2>6, <3>1
    <3>4. e[p - 1] = (p - 1) * k
      BY <2>1, <2>11, <3>1, <3>3
    <3>5. Len(PageRows(p)) = p * k - (p - 1) * k
      BY <2>14, <3>1, <3>2, <3>4
    <3> QED
      BY <2>2, <3>3, <3>5
  <2>16. PageRows(page) = <<>> => Export = <<>> \/ page > t
    <3> SUFFICES ASSUME ~ (page > t), Export # <<>> PROVE PageRows(page) # <<>>
      OBVIOUS
    <3>1. page \in 1..t /\ page \in Nat \ {0}
      BY <2>2 DEF TypeOK
    <3>2. rows # <<>>
      BY DEF Export, rows
    <3>3. m > 0
      BY <2>1, <3>2 DEF m
    <3>4. e[page - 1] = (page - 1) * k /\ (page - 1) * k < m
      <4>1. (page - 1) * k < m
        <5>1. CASE page = t
          BY <2>5, <3>3, <5>1
        <5>2. CASE page < t
          BY <2>1, <2>2, <2>5, <2>6, <3>1, <5>2
        <5> QED
          BY <2>2, <3>1, <5>1, <5>2
      <4> QED
        BY <2>11, <3>1, <3>3, <4>1
    <3>5. e[page] > e[page - 1]
      BY <2>1, <2>2, <2>6, <2>7, <3>1, <3>4 DEF AtMost
    <3>6. e[page] \in Nat /\ e[page - 1] \in Nat
      <4>1. page - 1 \in 0..t /\ page \in 0..t
        BY <2>2, <3>1
      <4>2. e[page] \in 0..m /\ e[page - 1] \in 0..m
        BY <2>7, <4>1
      <4> QED
        BY <2>1, <4>2
    <3>7. Len(PageRows(page)) # 0
      BY <2>14, <3>1, <3>5, <3>6
    <3> QED
      BY <3>7
  <2> QED
    BY <2>13, <2>15, <2>16 DEF PagesCover, k, t
<1> QED
  BY <1>1, TypeCorrect, PTL

-----------------------------------------------------------------------------
(* The refreshes.                                                          *)

\* The guard admits one refresh at a time, which is why one that ends may clear
\* it.
OneRefresh == \A j, k \in Jobs : Busy(j) /\ Busy(k) => j = k

\* The parts of the page that a refresh has filled before it comes to a part.
FilledBefore(pc) ==
    CASE pc = "results" -> {"overview"}
      [] pc = "decisionFeed" -> {"overview", "results"}
      [] pc = "threatTrend" -> {"overview", "results", "decisionFeed"}
      [] OTHER -> {}

FilledInv ==
    /\ \A j \in Jobs : \A p \in FilledBefore(job[j].pc) : screen[p] = job[j].table
    /\ ScreenConsistent

JobType == [Jobs -> [pc : Steps, tab : Tabs, table : SUBSET TableRows]]

LEMMA IdleType ==
  Idle \in [pc : Steps, tab : Tabs, table : SUBSET TableRows] /\ Idle.pc = "idle"
<1>1. (CHOOSE t \in Tabs : TRUE) \in Tabs
  BY DashboardAssumption
<1> QED
  BY <1>1 DEF Idle, Steps

\* Going to another step, or filling the table on the way, keeps the refreshes
\* that are under way.
LEMMA GoesOn ==
  ASSUME DataTypeOK, NEW j \in Jobs, Busy(j), NEW l \in Steps \ {"idle"},
         NEW rows \in SUBSET TableRows, Goto(j, l) \/ Fill(j, l, rows)
  PROVE  job' \in JobType /\ \A k \in Jobs : Busy(k)' <=> Busy(k)
<1>1. CASE Goto(j, l)
  <2>1. job' \in JobType
    BY <1>1 DEF Goto, DataTypeOK, JobType
  <2>2. \A k \in Jobs : Busy(k)' <=> Busy(k)
    BY <1>1 DEF Goto, DataTypeOK, Busy
  <2> QED
    BY <2>1, <2>2
<1>2. CASE Fill(j, l, rows)
  <2>1. job' \in JobType
    BY <1>2 DEF Fill, DataTypeOK, JobType
  <2>2. \A k \in Jobs : Busy(k)' <=> Busy(k)
    BY <1>2 DEF Fill, DataTypeOK, Busy
  <2> QED
    BY <2>1, <2>2
<1> QED
  BY <1>1, <1>2

\* When the one refresh ends, none is under way.
LEMMA EndsAlone ==
  ASSUME DataTypeOK, OneRefresh, NEW j \in Jobs, Busy(j), Ends(j)
  PROVE  job' \in JobType /\ \A k \in Jobs : ~ Busy(k)'
  BY IdleType DEF DataTypeOK, OneRefresh, JobType, Busy, Ends

\* The types are kept by every step together with there being one refresh.
LEMMA Guarded ==
  DataSpec => [](DataTypeOK /\ OneRefresh)
<1> DEFINE IInv == DataTypeOK /\ OneRefresh
<1>1. DataInit => IInv
  <2> SUFFICES ASSUME DataInit PROVE IInv
    OBVIOUS
  <2>1. \A j \in Jobs : ~ Busy(j)
    BY IdleType DEF DataInit, Busy
  <2>2. job \in JobType /\ activeTab \in Tabs
    BY IdleType, DashboardAssumption DEF DataInit, JobType
  <2>3. due \in BOOLEAN /\ visible \in BOOLEAN /\ error \in BOOLEAN /\ isRefreshing \in BOOLEAN
    BY Zenon DEF DataInit
  <2>4. isRefreshing <=> \E j \in Jobs : Busy(j)
    BY <2>1 DEF DataInit
  <2>5. screen \in [Parts -> SUBSET TableRows] /\ source = "unknown" /\ resultsTab = "none"
    BY DEF DataInit
  <2> QED
    BY <2>1, <2>2, <2>3, <2>4, <2>5 DEF DataTypeOK, OneRefresh, JobType
<1>2. IInv /\ [DataNext]_dataVars => IInv'
  <2> SUFFICES ASSUME IInv, [DataNext]_dataVars PROVE IInv'
    OBVIOUS
  <2>1. ASSUME NEW t \in Tabs, SelectTab(t) PROVE IInv'
    BY <2>1 DEF SelectTab, shown, DataTypeOK, OneRefresh, Busy
  <2>2. CASE Tick
    BY <2>2 DEF Tick, TickDue, shown, DataTypeOK, OneRefresh, Busy
  <2>3. CASE ShowOrHide
    BY <2>3 DEF ShowOrHide, shown, DataTypeOK, OneRefresh, Busy
  <2>4. CASE EffectReturns
    BY <2>4 DEF EffectReturns, shown, DataTypeOK, OneRefresh, Busy
  <2>5. ASSUME NEW j \in Jobs, EffectStarts(j) PROVE IInv'
    <3>1. \A k \in Jobs : ~ Busy(k)
      BY <2>5 DEF EffectStarts, MayStart, DataTypeOK
    <3>2. job' \in JobType /\ \A k \in Jobs : Busy(k)' <=> k = j
      BY <2>5, <3>1 DEF EffectStarts, DataTypeOK, JobType, Busy, Steps
    <3> QED
      BY <2>5, <3>2 DEF EffectStarts, shown, DataTypeOK, OneRefresh, JobType
  <2>6. ASSUME NEW j \in Jobs, Busy(j), job' \in JobType,
               \A k \in Jobs : Busy(k)' <=> Busy(k), UNCHANGED <<view, isRefreshing, error>>,
               source' \in {"unknown", "live", "stale"}, screen' \in [Parts -> SUBSET TableRows],
               resultsTab' \in Tabs \cup {"none"}
        PROVE  IInv'
    BY <2>6 DEF DataTypeOK, OneRefresh, JobType, view
  <2>7. ASSUME NEW j \in Jobs, InitDB(j) PROVE IInv'
    BY <2>6, <2>7, GoesOn DEF InitDB, Busy, Steps, shown, DataTypeOK
  <2>8. ASSUME NEW j \in Jobs, LoadEventData(j) PROVE IInv'
    <3>1. job[j].table \cup Parquet \in SUBSET TableRows /\ WithDemo(job[j].table) \in SUBSET TableRows
      BY DashboardAssumption DEF DataTypeOK, WithDemo, TableRows
    <3> QED
      BY <2>6, <2>8, <3>1, GoesOn DEF LoadEventData, Busy, Steps, shown, DataTypeOK
  <2>9. ASSUME NEW j \in Jobs, SyncLive(j) PROVE IInv'
    <3>1. PICK feed \in SUBSET Events : Fill(j, "overview", job[j].table \cup feed)
      BY <2>9 DEF SyncLive
    <3>2. job[j].table \cup feed \in SUBSET TableRows
      BY DEF DataTypeOK, TableRows
    <3> QED
      BY <2>6, <2>9, <3>1, <3>2, GoesOn DEF SyncLive, Busy, Steps, Parts, DataTypeOK
  <2>10. ASSUME NEW j \in Jobs, SyncStale(j) PROVE IInv'
    BY <2>6, <2>10, GoesOn DEF SyncStale, Busy, Steps, Parts, DataTypeOK
  <2>11. ASSUME NEW j \in Jobs,
                QueryOverview(j) \/ QueryDetail(j) \/ QueryDecisions(j)
         PROVE  IInv'
    <3>1. \E l \in Parts : Goto(j, l)
      BY <2>11 DEF QueryOverview, QueryDetail, QueryDecisions, Query, Parts
    <3>2. Busy(j) /\ screen' \in [Parts -> SUBSET TableRows]
          /\ UNCHANGED <<view, isRefreshing, source, error>>
      BY <2>11 DEF QueryOverview, QueryDetail, QueryDecisions, Query, Busy, DataTypeOK
    <3>3. resultsTab' \in Tabs \cup {"none"}
      BY <2>11 DEF QueryOverview, QueryDetail, QueryDecisions, DataTypeOK
    <3>4. job' \in JobType /\ \A k \in Jobs : Busy(k)' <=> Busy(k)
      <4>1. PICK l \in Parts : Goto(j, l)
        BY <3>1
      <4>2. l \in Steps \ {"idle"} /\ {} \in SUBSET TableRows
        BY DEF Steps, Parts
      <4> QED
        BY <3>2, <4>1, <4>2, GoesOn
    <3> QED
      BY <2>6, <3>2, <3>3, <3>4 DEF DataTypeOK
  <2>12. ASSUME NEW j \in Jobs, QueryTrend(j) \/ Throws(j) PROVE IInv'
    <3>1. Ends(j) /\ Busy(j) /\ isRefreshing' = FALSE
      BY <2>12 DEF QueryTrend, Query, Throws, Finally, Busy
    <3>2. job' \in JobType /\ \A k \in Jobs : ~ Busy(k)'
      BY <3>1, EndsAlone
    <3>3. screen' \in [Parts -> SUBSET TableRows]
      BY <2>12 DEF QueryTrend, Query, Throws, DataTypeOK
    <3>4. error' \in BOOLEAN
      BY <2>12, Zenon DEF QueryTrend, Query, Throws, DataTypeOK
    <3> QED
      BY <2>12, <3>1, <3>2, <3>3, <3>4
         DEF QueryTrend, Query, Throws, DataTypeOK, OneRefresh, JobType, view
  <2>13. CASE UNCHANGED dataVars
    BY <2>13 DEF dataVars, view, shown, DataTypeOK, OneRefresh, Busy
  <2> QED
    BY <2>1, <2>2, <2>3, <2>4, <2>5, <2>7, <2>8, <2>9, <2>10, <2>11, <2>12, <2>13
       DEF DataNext, Effect, RefreshStep
<1> QED
  BY <1>1, <1>2, PTL DEF DataSpec

\* The types, and the guard being set exactly while a refresh is under way, which
\* is what lets the page refresh again after any failure.
THEOREM RefreshTypeCorrect ==
  DataSpec => []DataTypeOK
  BY Guarded, PTL

-----------------------------------------------------------------------------
\* What a refresh has filled is not overwritten before it ends, for there is no
\* other; so at its end all parts show its table.
THEOREM OneTableOnScreen ==
  DataSpec => []ScreenConsistent
<1> DEFINE IInv == DataTypeOK /\ OneRefresh
<1>1. DataInit => FilledInv
  BY IdleType DEF DataInit, FilledInv, FilledBefore, ScreenConsistent
<1>2. IInv /\ IInv' /\ FilledInv /\ [DataNext]_dataVars => FilledInv'
  <2> SUFFICES ASSUME IInv, IInv', FilledInv, [DataNext]_dataVars PROVE FilledInv'
    OBVIOUS
  <2>1. ASSUME NEW j \in Jobs, Busy(j), NEW k \in Jobs, k # j
        PROVE  FilledBefore(job[k].pc) = {}
    BY <2>1 DEF OneRefresh, Busy, FilledBefore
  <2>2. ASSUME UNCHANGED <<job, screen, isRefreshing, error>> PROVE FilledInv'
    BY <2>2 DEF FilledInv, ScreenConsistent
  <2>3. ASSUME NEW j \in Jobs, EffectStarts(j) PROVE FilledInv'
    BY <2>3 DEF EffectStarts, shown, FilledInv, FilledBefore, ScreenConsistent, DataTypeOK
  <2>4. ASSUME NEW j \in Jobs, InitDB(j) \/ LoadEventData(j) \/ SyncLive(j) \/ SyncStale(j)
        PROVE  FilledInv'
    <3>1. Busy(j) /\ UNCHANGED <<screen, isRefreshing, error>>
      BY <2>4 DEF InitDB, LoadEventData, SyncLive, SyncStale, shown, Busy
    <3>2. isRefreshing
      BY <3>1 DEF DataTypeOK
    <3>3. FilledBefore(job'[j].pc) = {} /\ \A k \in Jobs \ {j} : job'[k] = job[k]
      BY <2>4 DEF InitDB, LoadEventData, SyncLive, SyncStale, Goto, Fill, DataTypeOK, FilledBefore
    <3> QED
      BY <3>1, <3>2, <3>3 DEF FilledInv, ScreenConsistent
  <2>5. ASSUME NEW j \in Jobs, QueryOverview(j) \/ QueryDetail(j) \/ QueryDecisions(j)
        PROVE  FilledInv'
    <3>1. Busy(j) /\ isRefreshing' = isRefreshing /\ isRefreshing
      BY <2>5 DEF QueryOverview, QueryDetail, QueryDecisions, Query, Busy, DataTypeOK
    <3>2. \A k \in Jobs \ {j} : job'[k] = job[k]
      BY <2>5 DEF QueryOverview, QueryDetail, QueryDecisions, Query, Goto, DataTypeOK
    <3>3. \A k \in Jobs \ {j} : FilledBefore(job'[k].pc) = {}
      BY <2>1, <3>1, <3>2
    <3>4. \A p \in FilledBefore(job'[j].pc) : screen'[p] = job'[j].table
      BY <2>5 DEF QueryOverview, QueryDetail, QueryDecisions, Query, Goto, FilledInv,
                  FilledBefore, DataTypeOK, Parts
    <3> QED
      BY <3>1, <3>3, <3>4 DEF FilledInv, ScreenConsistent
  <2>6. ASSUME NEW j \in Jobs, QueryTrend(j) PROVE FilledInv'
    <3>1. \A k \in Jobs : FilledBefore(job'[k].pc) = {}
      BY <2>1, <2>6, IdleType DEF QueryTrend, Query, Ends, Busy, DataTypeOK, FilledBefore
    <3>2. \A p \in Parts : screen'[p] = job[j].table
      BY <2>6 DEF QueryTrend, Query, FilledInv, FilledBefore, DataTypeOK, Parts
    <3> QED
      BY <3>1, <3>2 DEF FilledInv, ScreenConsistent
  <2>7. ASSUME NEW j \in Jobs, Throws(j) PROVE FilledInv'
    <3>1. \A k \in Jobs : FilledBefore(job'[k].pc) = {}
      BY <2>1, <2>7, IdleType DEF Throws, Ends, Busy, DataTypeOK, FilledBefore
    <3> QED
      BY <2>7, <3>1 DEF Throws, FilledInv, ScreenConsistent
  <2> QED
    BY <2>2, <2>3, <2>4, <2>5, <2>6, <2>7
       DEF DataNext, Effect, RefreshStep, SelectTab, Tick, ShowOrHide, EffectReturns, shown, dataVars
<1>3. FilledInv => ScreenConsistent
  BY DEF FilledInv
<1> QED
  BY <1>1, <1>2, <1>3, Guarded, PTL DEF DataSpec

-----------------------------------------------------------------------------
\* A kind of events is never more than all events of the same table.
LEMMA CountBounded ==
  ASSUME NEW rows \in SUBSET TableRows, NEW kind \in SUBSET Events
  PROVE  Count(rows, kind, 1) <= Count(rows, Events, 3)
<1> DEFINE all == rows \cap Events
           some == rows \cap kind
<1>1. IsFiniteSet(all) /\ some \in SUBSET all
  BY DashboardAssumption, FS_Subset
<1>2. Cardinality(some) \in Nat /\ Cardinality(all) \in Nat /\ Cardinality(some) <= Cardinality(all)
  BY <1>1, FS_Subset, FS_CardinalityType
<1> QED
  BY <1>2 DEF Count

\* At every moment of a refresh, and after one that threw, the rates on the cards
\* are parts of a whole.
THEOREM RatesAreParts ==
  DataSpec => []RatesWithinTotal
<1>1. DataTypeOK => RatesWithinTotal
  BY CountBounded, DashboardAssumption
     DEF DataTypeOK, RatesWithinTotal, totalRequests, blockedRequests, leakEvents,
         decisionFeed, overviewRows, Parts
<1> QED
  BY <1>1, RefreshTypeCorrect, PTL
=============================================================================
