--------------------------- MODULE CompactorProofs ---------------------------
(***************************************************************************)
(* Theorems of Compactor, for any objects and hours, any number of runs at *)
(* once, and every page size and least number of records.                  *)
(***************************************************************************)
EXTENDS Compactor, FiniteSetTheorems, TLAPS

Working == {"list", "get", "head", "put"}

\* What is so of a run: what it has in hand belongs to its hour, and it decides
\* to write only enough.
Sound(v) ==
    /\ v \in Run
    /\ v.now - v.h \in Hours
    /\ Cardinality(v.page) <= PageSize
    /\ v.got \subseteq tagged
    /\ v.phase # "idle" => v.got \cup v.page \subseteq TaggedIn(v.now - v.h)
    /\ v.phase \in {"head", "put"} =>
          v.got # {} /\ Cardinality(v.got) >= MinPartitionRecords
    /\ v.phase = "checkpoint" => v.status \in Statuses

\* What is so of everything else.
StoreSound ==
    /\ headErrors \in BOOLEAN /\ overlap \in BOOLEAN
    /\ hour \in Hours /\ tagged \subseteq Objects
    /\ curated \in [Hours -> SUBSET tagged]
    /\ \A t \in Hours : curated[t] # {} =>
          curated[t] \subseteq TaggedIn(t) /\ Cardinality(curated[t]) >= MinPartitionRecords
    /\ checkpoint \in {<<>>} \cup (Hours \X Statuses)
    /\ due \in [Runners -> SUBSET tagged]

TypeInv ==
    /\ StoreSound
    /\ run \in [Runners -> Run]
    /\ \A r \in Runners : Sound(run[r])

\* ListingMissesNothing needs to know what a run still has to read: what was
\* tagged when it began the hour has been read, is in the page, or comes after
\* the token and after everything in the page, and then there are more pages.
StillToCome(r) ==
    /\ Doing(r, "list") => \A o \in due[r] : o \in run[r].got \/ o > run[r].token
    /\ Doing(r, "get") => \A o \in due[r] :
          \/ o \in run[r].got \cup run[r].page
          \/ /\ run[r].truncated
             /\ o > run[r].token
             /\ \A p \in run[r].page : o > p
    /\ Doing(r, "head") \/ Doing(r, "put") => due[r] \subseteq run[r].got

Listing(r) ==
    /\ run[r].phase # "idle" => due[r] \subseteq TaggedIn(HourAt(r))
    /\ StillToCome(r)

ListInv == \A r \in Runners : Listing(r)

\* While no two runs have overlapped, what an hour holds was tagged before the
\* run at work on it began the hour.
SoloInv ==
    ~ overlap =>
        /\ \A q, r \in Runners : Doing(q, "idle") \/ Doing(r, "idle") \/ q = r
        /\ \A r \in Runners : run[r].phase \in Working => curated[HourAt(r)] \subseteq due[r]

-----------------------------------------------------------------------------
(* The keys of a page.                                                       *)

FirstKeys(S) == {o \in S : Cardinality(Before(o, S)) < PageSize}

\* Any set of objects is finite.
LEMMA SomeObjects ==
    ASSUME NEW S \in SUBSET Objects
    PROVE  IsFiniteSet(S) /\ Cardinality(S) \in Nat
BY CompactorAssumption, FS_Subset, FS_CardinalityType

\* The keys before one key are fewer than the keys before a later one.
LEMMA BeforeGrows ==
    ASSUME NEW S \in SUBSET Objects, NEW o \in S, NEW p \in S, o < p
    PROVE  Cardinality(Before(o, S)) < Cardinality(Before(p, S))
<1>1. S \subseteq Nat
    BY CompactorAssumption
<1>2. IsFiniteSet(Before(o, S)) /\ Cardinality(Before(o, S)) \in Nat
    BY SomeObjects DEF Before
<1>3. IsFiniteSet(Before(p, S)) /\ Cardinality(Before(p, S)) \in Nat
    BY SomeObjects DEF Before
<1>4. o \notin Before(o, S)
    BY <1>1 DEF Before
<1>5. Before(o, S) \cup {o} \subseteq Before(p, S)
  <2> SUFFICES ASSUME NEW q \in S, q < o \/ q = o
               PROVE  q < p
      BY DEF Before
  <2>1. q \in Nat /\ o \in Nat /\ p \in Nat
      BY <1>1
  <2> QED
      BY <2>1
<1>6. Cardinality(Before(o, S) \cup {o}) = Cardinality(Before(o, S)) + 1
    BY <1>2, <1>4, FS_AddElement
<1>7. Cardinality(Before(o, S) \cup {o}) <= Cardinality(Before(p, S))
    BY <1>3, <1>5, FS_Subset
<1> QED
    BY <1>2, <1>3, <1>6, <1>7

\* A page is no longer than it may be.
LEMMA PageFits ==
    ASSUME NEW S \in SUBSET Objects
    PROVE  Cardinality(FirstKeys(S)) <= PageSize
<1> DEFINE F == FirstKeys(S)
           I == 0..(PageSize - 1)
           rank == [o \in F |-> Cardinality(Before(o, S))]
<1>1. PageSize \in Nat \ {0} /\ Objects \subseteq Nat
    BY CompactorAssumption
<1>2. F \subseteq S
    BY DEF FirstKeys
<1>3. \A o \in F : rank[o] \in I
  <2> TAKE o \in F
  <2>1. Cardinality(Before(o, S)) \in Nat
      BY SomeObjects DEF Before
  <2>2. Cardinality(Before(o, S)) < PageSize
      BY DEF FirstKeys
  <2> QED
      BY <1>1, <2>1, <2>2
<1>4. \A o, p \in F : rank[o] = rank[p] => o = p
  <2> SUFFICES ASSUME NEW o \in F, NEW p \in F, o # p
               PROVE  rank[o] # rank[p]
      OBVIOUS
  <2>1. rank[o] \in I /\ rank[p] \in I
      BY <1>3
  <2>2. o < p \/ p < o
    <3>1. o \in Nat /\ p \in Nat
        BY <1>1, <1>2
    <3> QED
        BY <3>1
  <2>3. CASE o < p
    <3>1. Cardinality(Before(o, S)) < Cardinality(Before(p, S))
        BY <1>2, <2>3, BeforeGrows
    <3> QED
        BY <2>1, <3>1
  <2>4. CASE p < o
    <3>1. Cardinality(Before(p, S)) < Cardinality(Before(o, S))
        BY <1>2, <2>4, BeforeGrows
    <3> QED
        BY <2>1, <3>1
  <2> QED
      BY <2>2, <2>3, <2>4
<1>5. rank \in Injection(F, I)
    BY <1>3, <1>4 DEF Injection, IsInjective
<1>6. IsFiniteSet(I) /\ Cardinality(I) = PageSize
    BY <1>1, FS_Interval
<1>7. Cardinality(F) <= Cardinality(I)
    BY <1>5, <1>6, FS_Injection
<1> QED
    BY <1>6, <1>7

\* A page that is not truncated is all there is.
LEMMA LastPage ==
    ASSUME NEW S \in SUBSET Objects, Cardinality(S) <= PageSize
    PROVE  FirstKeys(S) = S
<1>1. PageSize \in Nat /\ Objects \subseteq Nat
    BY CompactorAssumption
<1> SUFFICES ASSUME NEW o \in S
             PROVE  Cardinality(Before(o, S)) < PageSize
    BY DEF FirstKeys
<1>2. IsFiniteSet(Before(o, S)) /\ Cardinality(Before(o, S)) \in Nat
    BY SomeObjects DEF Before
<1>3. IsFiniteSet(S) /\ Cardinality(S) \in Nat
    BY SomeObjects
<1>4. o \notin Before(o, S) /\ Before(o, S) \cup {o} \subseteq S
    BY <1>1 DEF Before
<1>5. Cardinality(Before(o, S) \cup {o}) = Cardinality(Before(o, S)) + 1
    BY <1>2, <1>4, FS_AddElement
<1>6. Cardinality(Before(o, S) \cup {o}) <= Cardinality(S)
    BY <1>3, <1>4, FS_Subset
<1> QED
    BY <1>1, <1>2, <1>3, <1>5, <1>6

\* What is left for later pages comes after everything in this one.
LEMMA RestIsLater ==
    ASSUME NEW S \in SUBSET Objects, NEW o \in S \ FirstKeys(S), NEW p \in FirstKeys(S)
    PROVE  o > p
<1>1. Objects \subseteq Nat /\ PageSize \in Nat
    BY CompactorAssumption
<1>2. p \in S /\ Cardinality(Before(p, S)) < PageSize
    BY DEF FirstKeys
<1>3. ~ (Cardinality(Before(o, S)) < PageSize)
    BY DEF FirstKeys
<1>4. Cardinality(Before(o, S)) \in Nat /\ Cardinality(Before(p, S)) \in Nat
    BY <1>2, SomeObjects DEF Before
<1>5. o # p
    BY <1>2, <1>3
<1>6. ~ (o < p)
  <2> SUFFICES ASSUME o < p
               PROVE  FALSE
      OBVIOUS
  <2>1. Cardinality(Before(o, S)) < Cardinality(Before(p, S))
      BY <1>2, BeforeGrows
  <2> QED
      BY <1>1, <1>2, <1>3, <1>4, <2>1
<1> QED
    BY <1>1, <1>2, <1>5, <1>6

-----------------------------------------------------------------------------
(* Type correctness.                                                         *)

\* A step of one run that leaves the objects alone keeps the invariant if the
\* run is still sound...
LEMMA RunMoves ==
    ASSUME TypeInv, NEW r \in Runners, NEW v, Sound(v), Become(r, v),
           UNCHANGED <<headErrors, hour, tagged, curated>>,
           checkpoint' \in {<<>>} \cup (Hours \X Statuses),
           due' \in [Runners -> SUBSET tagged], overlap' \in BOOLEAN
    PROVE  TypeInv'
<1>1. StoreSound'
    BY DEF TypeInv, StoreSound, TaggedIn
<1>2. run' \in [Runners -> Run]
    BY DEF TypeInv, Sound, Become
<1>3. \A q \in Runners : Sound(run[q])'
  <2> TAKE q \in Runners
  <2>1. run'[q] = IF q = r THEN v ELSE run[q]
      BY DEF TypeInv, Become
  <2>2. Sound(run'[q])
      BY <2>1 DEF TypeInv
  <2> QED
      BY <2>2 DEF Sound, TaggedIn
<1> QED
    BY <1>1, <1>2, <1>3 DEF TypeInv

\* ... above all one that changes nothing else.
LEMMA RunKeeps ==
    ASSUME TypeInv, NEW r \in Runners, NEW v, Sound(v), Become(r, v),
           UNCHANGED <<headErrors, hour, tagged, curated, checkpoint, due, overlap>>
    PROVE  TypeInv'
BY RunMoves DEF TypeInv, StoreSound

LEMMA IdleSound ==
    ASSUME TypeInv
    PROVE  Sound(Idle)
<1>1. 0 \in Hours /\ PageSize \in Nat
    BY CompactorAssumption DEF Hours
<1>2. Idle \in Run
    BY <1>1 DEF Idle, Run, Phases
<1>3. Cardinality(Idle.page) = 0
    BY FS_EmptySet DEF Idle
<1> QED
    BY <1>1, <1>2, <1>3 DEF Sound, Idle

LEMMA InitType ==
    ASSUME Init
    PROVE  TypeInv
<1>1. 0 \in Hours /\ PageSize \in Nat
    BY CompactorAssumption DEF Hours
<1>2. StoreSound
    BY <1>1 DEF Init, StoreSound
<1>3. Idle \in Run
    BY <1>1 DEF Idle, Run, Phases
<1>4. Cardinality(Idle.page) = 0
    BY FS_EmptySet DEF Idle
<1>5. Sound(Idle)
    BY <1>1, <1>3, <1>4 DEF Sound, Idle
<1> QED
    BY <1>2, <1>3, <1>5 DEF Init, TypeInv

\* A run that begins an hour has nothing in hand.
LEMMA BeginHourSound ==
    ASSUME NEW v \in Run, v.now - v.h \in Hours
    PROVE  Sound(BeginHour(v))
<1>1. PageSize \in Nat
    BY CompactorAssumption
<1>2. BeginHour(v) \in Run
    BY DEF BeginHour, Run, Phases
<1>3. BeginHour(v).now = v.now /\ BeginHour(v).h = v.h /\ BeginHour(v).page = {}
      /\ BeginHour(v).got = {} /\ BeginHour(v).phase = "list"
    BY DEF BeginHour, Run
<1> QED
    BY <1>1, <1>2, <1>3, FS_EmptySet DEF Sound

LEMMA PageOfFits ==
    ASSUME TypeInv, NEW r \in Runners
    PROVE  /\ PageOf(r) = FirstKeys(After(r))
           /\ After(r) \in SUBSET Objects
           /\ PageOf(r) \in SUBSET Objects
           /\ PageOf(r) \subseteq TaggedIn(HourAt(r))
           /\ Cardinality(PageOf(r)) <= PageSize
<1>1. After(r) \in SUBSET Objects
    BY DEF TypeInv, StoreSound, After, TaggedIn
<1>2. PageOf(r) = FirstKeys(After(r))
    BY DEF PageOf, FirstKeys
<1> QED
    BY <1>1, <1>2, PageFits DEF FirstKeys, After

LEMMA StartType ==
    ASSUME TypeInv, NEW r \in Runners, Start(r)
    PROVE  TypeInv'
<1>1. due' \in [Runners -> SUBSET tagged] /\ overlap' \in BOOLEAN
    BY DEF TypeInv, StoreSound, Start, TaggedIn
<1>2. checkpoint' \in {<<>>} \cup (Hours \X Statuses)
    BY DEF TypeInv, StoreSound, Start
<1>3. UNCHANGED <<headErrors, hour, tagged, curated>>
    BY DEF Start
<1>4. CASE BackfillHours = 0
  <2>1. Become(r, run[r])
      BY <1>4 DEF TypeInv, Start, Become
  <2> QED
      BY <1>1, <1>2, <1>3, <2>1, RunMoves DEF TypeInv
<1>5. CASE BackfillHours # 0
  <2> DEFINE v == [Idle EXCEPT !.now = hour]
  <2>1. Become(r, BeginHour(v))
      BY <1>5 DEF Start
  <2>2. hour \in Hours /\ hour - 0 \in Hours
      BY CompactorAssumption DEF TypeInv, StoreSound, Hours
  <2>3. Idle \in Run /\ Idle.h = 0
      BY IdleSound DEF Sound, Idle
  <2>4. v \in Run /\ v.now = hour /\ v.h = 0
      BY <2>2, <2>3 DEF Run
  <2>5. Sound(BeginHour(v))
      BY <2>2, <2>4, BeginHourSound
  <2> QED
      BY <1>1, <1>2, <1>3, <2>1, <2>5, RunMoves
<1> QED
    BY <1>4, <1>5

LEMMA ListPageType ==
    ASSUME TypeInv, NEW r \in Runners, ListPage(r)
    PROVE  TypeInv'
<1> DEFINE v == [run[r] EXCEPT !.phase = "get", !.truncated = Truncated(r), !.page = PageOf(r)]
<1>1. Sound(run[r]) /\ run[r] \in Run
    BY DEF TypeInv, Sound
<1>2. PageOf(r) \in SUBSET Objects /\ PageOf(r) \subseteq TaggedIn(HourAt(r))
      /\ Cardinality(PageOf(r)) <= PageSize
    BY PageOfFits
<1>3. Truncated(r) \in BOOLEAN
    BY DEF Truncated
<1>4. v \in Run
    BY <1>1, <1>2, <1>3 DEF Run, Phases
<1>5. v.phase = "get" /\ v.page = PageOf(r) /\ v.got = run[r].got
      /\ v.now = run[r].now /\ v.h = run[r].h
    BY <1>1 DEF Run
<1>6. run[r].got \subseteq TaggedIn(HourAt(r))
    BY <1>1 DEF Sound, ListPage, Doing, HourAt
<1>7. Sound(v)
    BY <1>1, <1>2, <1>4, <1>5, <1>6 DEF Sound, HourAt
<1> QED
    BY <1>7, RunKeeps DEF ListPage

LEMMA GetObjectType ==
    ASSUME TypeInv, NEW r \in Runners, GetObject(r)
    PROVE  TypeInv'
<1>1. Sound(run[r]) /\ run[r] \in Run
    BY DEF TypeInv, Sound
<1>2. PICK o \in run[r].page :
        Become(r, [run[r] EXCEPT !.page = @ \ {o}, !.token = o, !.got = @ \cup {o}])
    BY DEF GetObject
<1> DEFINE v == [run[r] EXCEPT !.page = @ \ {o}, !.token = o, !.got = @ \cup {o}]
<1>3. o \in Objects /\ o \in Nat /\ run[r].page \in SUBSET Objects /\ run[r].got \in SUBSET Objects
    BY <1>1, CompactorAssumption DEF Run
<1>4. v \in Run
    BY <1>1, <1>3 DEF Run
<1>5. v.phase = "get" /\ v.page = run[r].page \ {o} /\ v.got = run[r].got \cup {o}
      /\ v.now = run[r].now /\ v.h = run[r].h
    BY <1>1 DEF Run, GetObject, Doing
<1>6. Cardinality(v.page) <= PageSize
  <2>1. IsFiniteSet(run[r].page) /\ Cardinality(run[r].page) \in Nat
      BY <1>3, SomeObjects
  <2>2. Cardinality(v.page) \in Nat
      BY <1>3, <1>5, SomeObjects
  <2>3. Cardinality(v.page) <= Cardinality(run[r].page)
      BY <1>5, <2>1, FS_Subset
  <2>4. Cardinality(run[r].page) <= PageSize
      BY <1>1 DEF Sound
  <2> QED
      BY <2>1, <2>2, <2>3, <2>4, CompactorAssumption
<1>7. v.got \cup v.page \subseteq TaggedIn(v.now - v.h)
    BY <1>1, <1>5 DEF Sound, GetObject, Doing
<1>8. v.got \subseteq tagged
    BY <1>7 DEF TaggedIn
<1>9. Sound(v)
    BY <1>1, <1>4, <1>5, <1>6, <1>7, <1>8 DEF Sound
<1> QED
    BY <1>2, <1>9, RunKeeps DEF GetObject

\* A run that keeps what it has in hand is sound if its new phase asks for
\* nothing it does not have.
LEMMA PhaseKeeps ==
    ASSUME TypeInv, NEW r \in Runners, run[r].phase # "idle",
           NEW v \in Run, Become(r, v),
           v.page = run[r].page, v.got = run[r].got, v.now = run[r].now, v.h = run[r].h,
           v.phase \in {"head", "put"} =>
               v.got # {} /\ Cardinality(v.got) >= MinPartitionRecords,
           v.phase = "checkpoint" => v.status \in Statuses,
           UNCHANGED <<headErrors, hour, tagged, curated, checkpoint, due, overlap>>
    PROVE  TypeInv'
<1>1. Sound(run[r])
    BY DEF TypeInv
<1>2. Sound(v)
    BY <1>1 DEF Sound
<1> QED
    BY <1>2, RunKeeps

LEMMA NewPhase ==
    ASSUME TypeInv, NEW r \in Runners, NEW p \in Phases
    PROVE  LET v == [run[r] EXCEPT !.phase = p]
           IN  /\ v \in Run /\ v.phase = p
               /\ v.page = run[r].page /\ v.got = run[r].got
               /\ v.now = run[r].now /\ v.h = run[r].h /\ v.token = run[r].token
BY DEF TypeInv, Run

LEMMA NewStatus ==
    ASSUME TypeInv, NEW r \in Runners, NEW st \in Statuses
    PROVE  LET v == [run[r] EXCEPT !.phase = "checkpoint", !.status = st]
           IN  /\ v \in Run /\ v.phase = "checkpoint" /\ v.status = st
               /\ v.page = run[r].page /\ v.got = run[r].got
               /\ v.now = run[r].now /\ v.h = run[r].h
BY DEF TypeInv, Run, Phases

LEMMA PageDoneType ==
    ASSUME TypeInv, NEW r \in Runners, PageDone(r)
    PROVE  TypeInv'
<1>1. run[r].phase # "idle" /\ IsFiniteSet(run[r].got) /\ Cardinality(run[r].got) \in Nat
    BY SomeObjects DEF PageDone, Doing, TypeInv, Run
<1>2. UNCHANGED <<headErrors, hour, tagged, curated, checkpoint, due, overlap>>
    BY DEF PageDone
<1>3. CASE run[r].truncated
  <2>1. Become(r, [run[r] EXCEPT !.phase = "list"])
      BY <1>3 DEF PageDone
  <2>2. "list" \in Phases
      BY DEF Phases
  <2> QED
      BY <1>1, <1>2, <2>1, <2>2, NewPhase, PhaseKeeps
<1>4. CASE ~ run[r].truncated /\ run[r].got = {}
  <2> DEFINE v == [run[r] EXCEPT !.phase = "checkpoint", !.status = "empty"]
  <2>1. Become(r, v)
      BY <1>4 DEF PageDone
  <2>2. "empty" \in Statuses
      BY DEF Statuses
  <2>3. v \in Run /\ v.phase = "checkpoint" /\ v.status = "empty" /\ v.page = run[r].page
        /\ v.got = run[r].got /\ v.now = run[r].now /\ v.h = run[r].h
      BY <2>2, NewStatus
  <2> HIDE DEF v
  <2> QED
      BY <1>1, <1>2, <2>1, <2>2, <2>3, PhaseKeeps
<1>5. CASE ~ run[r].truncated /\ run[r].got # {}
           /\ Cardinality(run[r].got) < MinPartitionRecords
  <2> DEFINE v == [run[r] EXCEPT !.phase = "checkpoint", !.status = "incomplete"]
  <2>1. Become(r, v)
      BY <1>5 DEF PageDone
  <2>2. "incomplete" \in Statuses
      BY DEF Statuses
  <2>3. v \in Run /\ v.phase = "checkpoint" /\ v.status = "incomplete" /\ v.page = run[r].page
        /\ v.got = run[r].got /\ v.now = run[r].now /\ v.h = run[r].h
      BY <2>2, NewStatus
  <2> HIDE DEF v
  <2> QED
      BY <1>1, <1>2, <2>1, <2>2, <2>3, PhaseKeeps
<1>6. CASE ~ run[r].truncated /\ run[r].got # {}
           /\ ~ (Cardinality(run[r].got) < MinPartitionRecords)
  <2>1. Become(r, [run[r] EXCEPT !.phase = "head"])
      BY <1>6 DEF PageDone
  <2>2. "head" \in Phases
      BY DEF Phases
  <2>3. Cardinality(run[r].got) >= MinPartitionRecords
      BY <1>1, <1>6, CompactorAssumption
  <2> QED
      BY <1>1, <1>2, <1>6, <2>1, <2>2, <2>3, NewPhase, PhaseKeeps
<1> QED
    BY <1>3, <1>4, <1>5, <1>6

LEMMA HeadType ==
    ASSUME TypeInv, NEW r \in Runners, HeadFinds(r) \/ HeadMisses(r)
    PROVE  TypeInv'
<1>1. run[r].phase = "head" /\ run[r].got # {}
      /\ Cardinality(run[r].got) >= MinPartitionRecords
    BY DEF HeadFinds, HeadMisses, Doing, TypeInv, Sound
<1>2. UNCHANGED <<headErrors, hour, tagged, curated, checkpoint, due, overlap>>
    BY DEF HeadFinds, HeadMisses
<1>3. CASE HeadFinds(r)
  <2> DEFINE v == [run[r] EXCEPT !.phase = "checkpoint", !.status = "exists"]
  <2>1. Become(r, v)
      BY <1>3 DEF HeadFinds
  <2>2. "exists" \in Statuses
      BY DEF Statuses
  <2>3. v \in Run /\ v.phase = "checkpoint" /\ v.status = "exists" /\ v.page = run[r].page
        /\ v.got = run[r].got /\ v.now = run[r].now /\ v.h = run[r].h
      BY <2>2, NewStatus
  <2> HIDE DEF v
  <2> QED
      BY <1>1, <1>2, <2>1, <2>2, <2>3, PhaseKeeps
<1>4. CASE HeadMisses(r)
  <2>1. Become(r, [run[r] EXCEPT !.phase = "put"])
      BY <1>4 DEF HeadMisses
  <2>2. "put" \in Phases
      BY DEF Phases
  <2> QED
      BY <1>1, <1>2, <2>1, <2>2, NewPhase, PhaseKeeps
<1> QED
    BY <1>3, <1>4

LEMMA PutParquetType ==
    ASSUME TypeInv, NEW r \in Runners, PutParquet(r)
    PROVE  TypeInv'
<1> DEFINE v == [run[r] EXCEPT !.phase = "checkpoint", !.status = "ok"]
           t == HourAt(r)
<1>1. Sound(run[r]) /\ run[r].phase = "put"
    BY DEF TypeInv, PutParquet, Doing
<1>2. t \in Hours /\ run[r].got \subseteq TaggedIn(t) /\ run[r].got \subseteq tagged
      /\ Cardinality(run[r].got) >= MinPartitionRecords
    BY <1>1 DEF Sound, HourAt
<1>3. "ok" \in Statuses
    BY DEF Statuses
<1>4. v \in Run /\ v.phase = "checkpoint" /\ v.status = "ok" /\ v.page = run[r].page
      /\ v.got = run[r].got /\ v.now = run[r].now /\ v.h = run[r].h
    BY <1>3, NewStatus
<1>5. Sound(v)
    BY <1>1, <1>3, <1>4 DEF Sound
<1>6. run' = [run EXCEPT ![r] = v] /\ curated' = [curated EXCEPT ![t] = run[r].got]
      /\ UNCHANGED <<headErrors, hour, tagged, checkpoint, due, overlap>>
    BY DEF PutParquet, Become
<1> HIDE DEF v, t
<1>7. \A s \in Hours : curated'[s] = IF s = t THEN run[r].got ELSE curated[s]
    BY <1>2, <1>6 DEF TypeInv, StoreSound
<1>8. curated' \in [Hours -> SUBSET tagged]
    BY <1>2, <1>6 DEF TypeInv, StoreSound
<1>9. StoreSound'
    BY <1>2, <1>6, <1>7, <1>8 DEF TypeInv, StoreSound, TaggedIn
<1>10. run' \in [Runners -> Run]
    BY <1>4, <1>6 DEF TypeInv
<1>11. \A q \in Runners : Sound(run[q])'
  <2> TAKE q \in Runners
  <2>1. run'[q] = IF q = r THEN v ELSE run[q]
      BY <1>6 DEF TypeInv
  <2>2. Sound(run'[q])
      BY <1>5, <2>1 DEF TypeInv
  <2> QED
      BY <1>6, <2>2 DEF Sound, TaggedIn
<1> QED
    BY <1>9, <1>10, <1>11 DEF TypeInv

LEMMA SaveCheckpointType ==
    ASSUME TypeInv, NEW r \in Runners, SaveCheckpoint(r)
    PROVE  TypeInv'
<1>1. Sound(run[r]) /\ run[r] \in Run /\ run[r].phase = "checkpoint"
    BY DEF TypeInv, Sound, SaveCheckpoint, Doing
<1>2. HourAt(r) \in Hours /\ run[r].status \in Statuses
    BY <1>1 DEF Sound, HourAt
<1>3. checkpoint' \in {<<>>} \cup (Hours \X Statuses)
    BY <1>2 DEF SaveCheckpoint
<1>4. UNCHANGED <<headErrors, hour, tagged, curated, overlap>> /\ overlap \in BOOLEAN
    BY DEF SaveCheckpoint, TypeInv, StoreSound
<1>5. due' \in [Runners -> SUBSET tagged]
    BY DEF SaveCheckpoint, TypeInv, StoreSound, TaggedIn
<1>6. CASE run[r].h + 1 < BackfillHours /\ HourAt(r) > 0
  <2> DEFINE v == [run[r] EXCEPT !.h = @ + 1]
  <2>1. Become(r, BeginHour(v))
      BY <1>6 DEF SaveCheckpoint
  <2>2. run[r].h \in Nat /\ run[r].now \in Hours
      BY <1>1 DEF Run
  <2>3. v \in Run /\ v.now = run[r].now /\ v.h = run[r].h + 1
      BY <1>1, <2>2 DEF Run
  <2>4. run[r].now - (run[r].h + 1) \in Hours
      BY <1>2, <1>6, <2>2, CompactorAssumption DEF Hours, HourAt
  <2> HIDE DEF v
  <2>5. Sound(BeginHour(v))
      BY <2>3, <2>4, BeginHourSound
  <2> QED
      BY <1>3, <1>4, <1>5, <2>1, <2>5, RunMoves
<1>7. CASE ~ (run[r].h + 1 < BackfillHours /\ HourAt(r) > 0)
  <2>1. Become(r, Idle)
      BY <1>7 DEF SaveCheckpoint
  <2> QED
      BY <1>3, <1>4, <1>5, <2>1, IdleSound, RunMoves
<1> QED
    BY <1>6, <1>7

\* More objects disturb nothing.
LEMMA ArriveType ==
    ASSUME TypeInv, NEW o \in Objects, Arrive(o)
    PROVE  TypeInv'
<1>1. tagged' = tagged \cup {o} /\ UNCHANGED <<headErrors, hour, curated, checkpoint, run, due, overlap>>
    BY DEF Arrive
<1>2. \A t : TaggedIn(t) \subseteq TaggedIn(t)'
    BY <1>1 DEF TaggedIn
<1>3. StoreSound'
    BY <1>1, <1>2 DEF TypeInv, StoreSound
<1>4. \A q \in Runners : Sound(run[q])'
    BY <1>1, <1>2 DEF TypeInv, Sound
<1> QED
    BY <1>1, <1>3, <1>4 DEF TypeInv

LEMMA TypeStep ==
    ASSUME TypeInv, [Next]_vars
    PROVE  TypeInv'
<1>1. CASE UNCHANGED vars
  <2>1. UNCHANGED <<headErrors, hour, tagged, curated, checkpoint, run, due, overlap>>
      BY <1>1 DEF vars
  <2> QED
      BY <2>1 DEF TypeInv, StoreSound, Sound, TaggedIn
<1>2. CASE Tick
  <2>1. hour' \in Hours /\ UNCHANGED <<headErrors, tagged, curated, checkpoint, run, due, overlap>>
      BY <1>2, CompactorAssumption DEF Tick, TypeInv, StoreSound, Hours
  <2> QED
      BY <2>1 DEF TypeInv, StoreSound, Sound, TaggedIn
<1>3. ASSUME NEW r \in Runners, RunFails(r)
      PROVE  TypeInv'
    BY <1>3, IdleSound, RunKeeps DEF RunFails
<1>4. ASSUME NEW r \in Runners, Step(r)
      PROVE  TypeInv'
    BY <1>4, ListPageType, GetObjectType, PageDoneType, HeadType, PutParquetType,
       SaveCheckpointType DEF Step
<1> QED
    BY <1>1, <1>2, <1>3, <1>4, StartType, ArriveType DEF Next

\* The invariant has every conjunct of TypeOK.
LEMMA TypeInvTypes ==
    ASSUME TypeInv
    PROVE  TypeOK
<1>1. \A r \in Runners :
          HourAt(r) \in Hours /\ Cardinality(run[r].page) <= PageSize /\ run[r].got \subseteq tagged
    BY DEF TypeInv, Sound, HourAt
<1> QED
    BY <1>1 DEF TypeInv, StoreSound, TypeOK

\* TypeOK: the types, and what is curated are events of its hour that have been
\* tagged, at least as many as asked for.
THEOREM TypeCorrect == Spec => []TypeOK
<1>1. Init => TypeInv
    BY InitType
<1>2. TypeInv /\ [Next]_vars => TypeInv'
    BY TypeStep
<1>3. TypeInv => TypeOK
    BY TypeInvTypes
<1> QED
    BY <1>1, <1>2, <1>3, PTL DEF Spec

-----------------------------------------------------------------------------
(* What a listing misses.                                                    *)

\* A step changes the run that takes it and no other.
LEMMA OneMoves ==
    ASSUME TypeInv, NEW r \in Runners, NEW v, Become(r, v)
    PROVE  run'[r] = v /\ \A q \in Runners \ {r} : run'[q] = run[q]
BY DEF TypeInv, Become

\* A run that stands still loses nothing of its listing.
LEMMA StandsStill ==
    ASSUME ListInv, NEW q \in Runners, run'[q] = run[q], due'[q] = due[q],
           tagged \subseteq tagged'
    PROVE  Listing(q)'
<1>1. HourAt(q)' = HourAt(q) /\ TaggedIn(HourAt(q)) \subseteq TaggedIn(HourAt(q))'
    BY DEF HourAt, TaggedIn
<1> QED
    BY <1>1 DEF ListInv, Listing, StillToCome, Doing

\* No token comes before every object.
LEMMA AfterNoToken ==
    ASSUME TypeInv, NEW t
    PROVE  \A o \in TaggedIn(t) : o > 0
<1> TAKE o \in TaggedIn(t)
<1>1. o \in Objects
    BY DEF TaggedIn, TypeInv, StoreSound
<1>2. o \in Nat \ {0}
    BY <1>1, CompactorAssumption
<1> QED
    BY <1>2

LEMMA StartLists ==
    ASSUME TypeInv, NEW r \in Runners, Start(r)
    PROVE  Listing(r)'
<1>1. CASE BackfillHours = 0
  <2>1. run'[r].phase = "idle"
      BY <1>1 DEF Start, Doing
  <2> QED
      BY <2>1 DEF Listing, StillToCome, Doing
<1>2. CASE BackfillHours # 0
  <2>1. run'[r] = BeginHour([Idle EXCEPT !.now = hour])
      BY <1>2, OneMoves DEF Start
  <2>2. run'[r].phase = "list" /\ run'[r].token = 0 /\ run'[r].now = hour /\ run'[r].h = 0
      BY <2>1 DEF BeginHour, Idle
  <2>3. due'[r] = TaggedIn(hour) /\ tagged' = tagged
      BY DEF Start, TypeInv, StoreSound
  <2>4. hour \in Int /\ hour - 0 = hour
      BY CompactorAssumption DEF TypeInv, StoreSound, Hours
  <2>5. \A o \in due'[r] : o > 0
      BY <2>3, AfterNoToken
  <2>6. due'[r] \subseteq TaggedIn(HourAt(r))'
      BY <2>2, <2>3, <2>4 DEF TaggedIn, HourAt
  <2> QED
      BY <2>2, <2>5, <2>6 DEF Listing, StillToCome, Doing
<1> QED
    BY <1>1, <1>2

\* Everything after the token is in the page or comes after it.
LEMMA ListPageLists ==
    ASSUME TypeInv, ListInv, NEW r \in Runners, ListPage(r)
    PROVE  Listing(r)'
<1> DEFINE v == [run[r] EXCEPT !.phase = "get", !.truncated = Truncated(r), !.page = PageOf(r)]
<1>1. run'[r] = v /\ UNCHANGED <<tagged, due>>
    BY OneMoves DEF ListPage
<1>2. v.phase = "get" /\ v.truncated = Truncated(r) /\ v.page = PageOf(r)
      /\ v.got = run[r].got /\ v.now = run[r].now /\ v.h = run[r].h /\ v.token = run[r].token
    BY DEF TypeInv, Run
<1> HIDE DEF v
<1>3. due[r] \subseteq TaggedIn(HourAt(r)) /\ \A o \in due[r] : o \in run[r].got \/ o > run[r].token
    BY DEF ListPage, Doing, ListInv, Listing, StillToCome
<1>4. ASSUME NEW o \in due[r], o \notin run[r].got, o \notin PageOf(r)
      PROVE  Truncated(r) /\ o > run[r].token /\ \A p \in PageOf(r) : o > p
  <2>1. o > run[r].token /\ o \in After(r)
      BY <1>3, <1>4 DEF After
  <2>2. PageOf(r) = FirstKeys(After(r)) /\ After(r) \in SUBSET Objects
      BY PageOfFits
  <2>3. Truncated(r)
    <3>1. Cardinality(After(r)) \in Nat /\ PageSize \in Nat
        BY <2>2, SomeObjects, CompactorAssumption
    <3>2. ~ (Cardinality(After(r)) <= PageSize)
        BY <1>4, <2>1, <2>2, LastPage
    <3> QED
        BY <3>1, <3>2 DEF Truncated
  <2>4. \A p \in PageOf(r) : o > p
      BY <1>4, <2>1, <2>2, RestIsLater
  <2> QED
      BY <2>1, <2>3, <2>4
<1>5. HourAt(r)' = HourAt(r) /\ TaggedIn(HourAt(r))' = TaggedIn(HourAt(r))
    BY <1>1, <1>2 DEF HourAt, TaggedIn
<1> QED
    BY <1>1, <1>2, <1>3, <1>4, <1>5 DEF Listing, StillToCome, Doing

\* The object read is the first of the page, so that what comes after the page
\* comes after the token too.
LEMMA GetObjectLists ==
    ASSUME TypeInv, ListInv, NEW r \in Runners, GetObject(r)
    PROVE  Listing(r)'
<1>1. PICK o \in run[r].page :
        Become(r, [run[r] EXCEPT !.page = @ \ {o}, !.token = o, !.got = @ \cup {o}])
    BY DEF GetObject
<1> DEFINE v == [run[r] EXCEPT !.page = @ \ {o}, !.token = o, !.got = @ \cup {o}]
<1>2. run'[r] = v /\ UNCHANGED <<tagged, due>>
    BY <1>1, OneMoves DEF GetObject
<1>3. v.phase = "get" /\ v.truncated = run[r].truncated /\ v.page = run[r].page \ {o}
      /\ v.got = run[r].got \cup {o} /\ v.now = run[r].now /\ v.h = run[r].h /\ v.token = o
    BY DEF TypeInv, Run, GetObject, Doing
<1> HIDE DEF v
<1>4. Listing(r) /\ run[r].phase = "get"
    BY DEF ListInv, GetObject, Doing
<1>5. HourAt(r)' = HourAt(r) /\ TaggedIn(HourAt(r))' = TaggedIn(HourAt(r))
    BY <1>2, <1>3 DEF HourAt, TaggedIn
<1> QED
    BY <1>2, <1>3, <1>4, <1>5 DEF Listing, StillToCome, Doing

\* After the last page everything that was due has been read.
LEMMA PageDoneLists ==
    ASSUME TypeInv, ListInv, NEW r \in Runners, PageDone(r)
    PROVE  Listing(r)'
<1>1. Listing(r) /\ run[r].phase = "get" /\ run[r].page = {} /\ UNCHANGED <<tagged, due>>
    BY DEF ListInv, PageDone, Doing
<1>2. ~ run[r].truncated => due[r] \subseteq run[r].got
    BY <1>1 DEF Listing, StillToCome, Doing
<1>3. \A o \in due[r] : o \in run[r].got \/ o > run[r].token
    BY <1>1 DEF Listing, StillToCome, Doing
<1>4. /\ run'[r].phase \in {"list", "head", "checkpoint"}
      /\ run'[r].phase = "head" => ~ run[r].truncated
      /\ run'[r].now = run[r].now /\ run'[r].h = run[r].h
      /\ run'[r].token = run[r].token /\ run'[r].got = run[r].got
  <2>1. run[r] \in Run
      BY DEF TypeInv
  <2>2. run'[r] = IF run[r].truncated THEN [run[r] EXCEPT !.phase = "list"]
         ELSE IF run[r].got = {}
              THEN [run[r] EXCEPT !.phase = "checkpoint", !.status = "empty"]
         ELSE IF Cardinality(run[r].got) < MinPartitionRecords
              THEN [run[r] EXCEPT !.phase = "checkpoint", !.status = "incomplete"]
         ELSE [run[r] EXCEPT !.phase = "head"]
      BY OneMoves DEF PageDone
  <2> QED
      BY <2>1, <2>2 DEF Run
<1>5. HourAt(r)' = HourAt(r) /\ TaggedIn(HourAt(r))' = TaggedIn(HourAt(r))
    BY <1>1, <1>4 DEF HourAt, TaggedIn
<1> QED
    BY <1>1, <1>2, <1>3, <1>4, <1>5 DEF Listing, StillToCome, Doing

LEMMA WriteLists ==
    ASSUME TypeInv, ListInv, NEW r \in Runners, HeadFinds(r) \/ HeadMisses(r) \/ PutParquet(r)
    PROVE  Listing(r)'
<1>1. Listing(r) /\ run[r] \in Run /\ UNCHANGED <<tagged, due>>
    BY DEF ListInv, TypeInv, HeadFinds, HeadMisses, PutParquet
<1>2. \/ run'[r] = [run[r] EXCEPT !.phase = "checkpoint", !.status = "exists"]
      \/ run'[r] = [run[r] EXCEPT !.phase = "put"]
      \/ run'[r] = [run[r] EXCEPT !.phase = "checkpoint", !.status = "ok"]
    BY OneMoves DEF HeadFinds, HeadMisses, PutParquet
<1>3. /\ run'[r].phase \in {"put", "checkpoint"} /\ run'[r].got = run[r].got
      /\ run'[r].now = run[r].now /\ run'[r].h = run[r].h
    BY <1>1, <1>2 DEF Run
<1>4. run[r].phase \in {"head", "put"}
    BY DEF HeadFinds, HeadMisses, PutParquet, Doing
<1>5. HourAt(r)' = HourAt(r) /\ TaggedIn(HourAt(r))' = TaggedIn(HourAt(r))
    BY <1>1, <1>3 DEF HourAt, TaggedIn
<1> QED
    BY <1>1, <1>3, <1>4, <1>5 DEF Listing, StillToCome, Doing

LEMMA SaveCheckpointLists ==
    ASSUME TypeInv, NEW r \in Runners, SaveCheckpoint(r)
    PROVE  Listing(r)'
<1>1. run[r] \in Run /\ HourAt(r) \in Hours /\ tagged' = tagged
    BY DEF TypeInv, Sound, SaveCheckpoint, HourAt
<1>2. CASE run[r].h + 1 < BackfillHours /\ HourAt(r) > 0
  <2>1. run'[r] = BeginHour([run[r] EXCEPT !.h = @ + 1])
      BY <1>2, OneMoves DEF SaveCheckpoint
  <2>2. run'[r].phase = "list" /\ run'[r].token = 0
        /\ run'[r].now = run[r].now /\ run'[r].h = run[r].h + 1
      BY <1>1, <2>1 DEF BeginHour, Run
  <2>3. due'[r] = TaggedIn(HourAt(r) - 1)
      BY <1>2 DEF SaveCheckpoint, TypeInv, StoreSound
  <2>4. run[r].now \in Int /\ run[r].h \in Int
      BY <1>1, CompactorAssumption DEF Run, Hours
  <2>5. HourAt(r)' = HourAt(r) - 1
      BY <2>2, <2>4 DEF HourAt
  <2>6. \A o \in due'[r] : o > 0
      BY <2>3, AfterNoToken
  <2>7. due'[r] \subseteq TaggedIn(HourAt(r))'
      BY <1>1, <2>3, <2>5 DEF TaggedIn
  <2> QED
      BY <2>2, <2>6, <2>7 DEF Listing, StillToCome, Doing
<1>3. CASE ~ (run[r].h + 1 < BackfillHours /\ HourAt(r) > 0)
  <2>1. run'[r].phase = "idle"
      BY <1>3, OneMoves DEF SaveCheckpoint, Idle
  <2> QED
      BY <2>1 DEF Listing, StillToCome, Doing
<1> QED
    BY <1>2, <1>3

LEMMA ListStep ==
    ASSUME TypeInv, ListInv, [Next]_vars
    PROVE  ListInv'
<1>1. CASE UNCHANGED <<run, due>> /\ tagged \subseteq tagged'
    BY <1>1, StandsStill DEF ListInv
<1>2. ASSUME NEW r \in Runners, Listing(r)', NEW v, Become(r, v), tagged' = tagged,
             \A q \in Runners \ {r} : due'[q] = due[q]
      PROVE  ListInv'
  <2>1. \A q \in Runners \ {r} : Listing(q)'
      BY <1>2, OneMoves, StandsStill
  <2> QED
      BY <1>2, <2>1 DEF ListInv
<1>3. ASSUME NEW r \in Runners, Start(r)
      PROVE  ListInv'
  <2>1. tagged' = tagged /\ \A q \in Runners \ {r} : due'[q] = due[q]
      BY <1>3 DEF Start, TypeInv, StoreSound
  <2>2. \E v : Become(r, v)
    <3>1. BackfillHours = 0 => Become(r, run[r])
        BY <1>3 DEF Start, TypeInv, Become
    <3> QED
        BY <1>3, <3>1 DEF Start
  <2> QED
      BY <1>2, <1>3, <2>1, <2>2, StartLists
<1>4. ASSUME NEW r \in Runners, Step(r)
      PROVE  ListInv'
  <2>1. tagged' = tagged /\ \A q \in Runners \ {r} : due'[q] = due[q]
      BY <1>4 DEF Step, ListPage, GetObject, PageDone, HeadFinds, HeadMisses, PutParquet,
         SaveCheckpoint, TypeInv, StoreSound
  <2>2. \E v : Become(r, v)
      BY <1>4 DEF Step, ListPage, GetObject, PageDone, HeadFinds, HeadMisses, PutParquet,
         SaveCheckpoint
  <2>3. Listing(r)'
      BY <1>4, ListPageLists, GetObjectLists, PageDoneLists, WriteLists, SaveCheckpointLists
         DEF Step
  <2> QED
      BY <1>2, <2>1, <2>2, <2>3
<1>5. ASSUME NEW r \in Runners, RunFails(r)
      PROVE  ListInv'
  <2>1. run'[r].phase = "idle"
      BY <1>5, OneMoves DEF RunFails, Idle
  <2>2. Listing(r)'
      BY <2>1 DEF Listing, StillToCome, Doing
  <2> QED
      BY <1>2, <1>5, <2>2 DEF RunFails
<1>6. ASSUME NEW o \in Objects, Arrive(o)
      PROVE  ListInv'
    BY <1>1, <1>6 DEF Arrive
<1>7. CASE Tick
    BY <1>1, <1>7 DEF Tick
<1>8. CASE UNCHANGED vars
    BY <1>1, <1>8 DEF vars
<1> QED
    BY <1>3, <1>4, <1>5, <1>6, <1>7, <1>8 DEF Next

\* ListingMissesNothing: what a run is about to write misses nothing that was
\* tagged when it began the hour.
THEOREM NothingIsMissed == Spec => []ListingMissesNothing
<1>1. Init => TypeInv /\ ListInv
  <2> SUFFICES ASSUME Init
               PROVE  TypeInv /\ ListInv
      OBVIOUS
  <2>1. \A r \in Runners : run[r].phase = "idle"
      BY DEF Init, Idle
  <2> QED
      BY <2>1, InitType DEF ListInv, Listing, StillToCome, Doing
<1>2. (TypeInv /\ ListInv) /\ [Next]_vars => (TypeInv /\ ListInv)'
    BY TypeStep, ListStep
<1>3. ListInv => ListingMissesNothing
    BY DEF ListInv, Listing, StillToCome, ListingMissesNothing
<1> QED
    BY <1>1, <1>2, <1>3, PTL DEF Spec

-----------------------------------------------------------------------------
(* What is curated while runs do not overlap.                                *)

\* A step of one run keeps SoloInv if no other can be at work, or if the run
\* keeps to its hour and nothing is written.
LEMMA SoloRun ==
    ASSUME TypeInv, SoloInv, NEW r \in Runners, NEW v, Become(r, v),
           UNCHANGED <<curated, due, overlap>>, ~ Doing(r, "idle"),
           v.phase \in Working =>
               run[r].phase \in Working /\ v.now = run[r].now /\ v.h = run[r].h
    PROVE  SoloInv'
<1> SUFFICES ASSUME ~ overlap'
             PROVE  /\ \A q, p \in Runners : (Doing(q, "idle") \/ Doing(p, "idle") \/ q = p)'
                    /\ \A q \in Runners : (run[q].phase \in Working =>
                                              curated[HourAt(q)] \subseteq due[q])'
    BY DEF SoloInv
<1>1. \A q \in Runners \ {r} : run[q].phase = "idle" /\ run'[q] = run[q]
    BY OneMoves DEF SoloInv, Doing
<1>2. run'[r] = v
    BY OneMoves
<1>3. v.phase \in Working => HourAt(r)' = HourAt(r)
    BY <1>2 DEF HourAt
<1>4. v.phase \in Working => curated[HourAt(r)] \subseteq due[r]
    BY DEF SoloInv
<1>5. "idle" \notin Working
    BY DEF Working
<1>6. \A q, p \in Runners : (Doing(q, "idle") \/ Doing(p, "idle") \/ q = p)'
    BY <1>1 DEF Doing
<1>7. \A q \in Runners \ {r} : ~ (run'[q].phase \in Working)
    BY <1>1, <1>5
<1>8. run'[r].phase \in Working => (curated[HourAt(r)] \subseteq due[r])'
    BY <1>2, <1>3, <1>4
<1> QED
    BY <1>6, <1>7, <1>8

\* A run that begins an hour finds everything that is curated of it tagged.
LEMMA SoloBegins ==
    ASSUME TypeInv, SoloInv, NEW r \in Runners, NEW v, Become(r, v),
           NEW t \in Hours, curated' = curated, due'[r] = TaggedIn(t),
           v.now - v.h = t, ~ overlap' => ~ overlap,
           ~ overlap' => \A q \in Runners \ {r} : Doing(q, "idle")
    PROVE  SoloInv'
<1> SUFFICES ASSUME ~ overlap'
             PROVE  /\ \A q, p \in Runners : (Doing(q, "idle") \/ Doing(p, "idle") \/ q = p)'
                    /\ \A q \in Runners : (run[q].phase \in Working =>
                                              curated[HourAt(q)] \subseteq due[q])'
    BY DEF SoloInv
<1>1. \A q \in Runners \ {r} : run[q].phase = "idle" /\ run'[q] = run[q]
    BY OneMoves DEF Doing
<1>2. HourAt(r)' = t
    BY OneMoves DEF HourAt
<1>3. curated[t] \subseteq TaggedIn(t)
    BY DEF TypeInv, StoreSound
<1>4. \A q \in Runners \ {r} : ~ (run'[q].phase \in Working)
    BY <1>1 DEF Working
<1>5. \A q, p \in Runners : (Doing(q, "idle") \/ Doing(p, "idle") \/ q = p)'
    BY <1>1 DEF Doing
<1> QED
    BY <1>2, <1>3, <1>4, <1>5

LEMMA SoloStart ==
    ASSUME TypeInv, SoloInv, NEW r \in Runners, Start(r)
    PROVE  SoloInv'
<1>1. ~ overlap' => ~ overlap /\ \A q \in Runners \ {r} : Doing(q, "idle")
    BY DEF Start
<1>2. due'[r] = TaggedIn(hour) /\ curated' = curated /\ hour \in Hours
    BY DEF Start, TypeInv, StoreSound
<1>3. CASE BackfillHours = 0
  <2>1. run' = run /\ run[r].phase = "idle"
      BY <1>3 DEF Start, Doing
  <2>2. ~ overlap' => \A q \in Runners : run'[q].phase = "idle"
      BY <1>1, <2>1 DEF Doing
  <2> QED
      BY <2>2 DEF SoloInv, Doing, Working
<1>4. CASE BackfillHours # 0
  <2> DEFINE v == BeginHour([Idle EXCEPT !.now = hour])
  <2>1. Become(r, v)
      BY <1>4 DEF Start
  <2>2. v.now = hour /\ v.h = 0
      BY DEF BeginHour, Idle
  <2>3. hour - 0 = hour
      BY <1>2, CompactorAssumption DEF Hours
  <2> HIDE DEF v
  <2> QED
      BY <1>1, <1>2, <2>1, <2>2, <2>3, SoloBegins
<1> QED
    BY <1>3, <1>4

LEMMA SoloSaveCheckpoint ==
    ASSUME TypeInv, SoloInv, NEW r \in Runners, SaveCheckpoint(r)
    PROVE  SoloInv'
<1>1. run[r] \in Run /\ HourAt(r) \in Hours /\ ~ Doing(r, "idle")
      /\ UNCHANGED <<curated, overlap>>
    BY DEF TypeInv, Sound, SaveCheckpoint, HourAt, Doing
<1>2. CASE run[r].h + 1 < BackfillHours /\ HourAt(r) > 0
  <2> DEFINE v == BeginHour([run[r] EXCEPT !.h = @ + 1])
  <2>1. Become(r, v)
      BY <1>2 DEF SaveCheckpoint
  <2>2. v.now = run[r].now /\ v.h = run[r].h + 1
      BY <1>1 DEF BeginHour, Run
  <2>3. run[r].now \in Int /\ run[r].h \in Int
      BY <1>1, CompactorAssumption DEF Run, Hours
  <2>4. v.now - v.h = HourAt(r) - 1
      BY <2>2, <2>3 DEF HourAt
  <2>5. HourAt(r) - 1 \in Hours
      BY <1>1, <1>2, CompactorAssumption DEF Hours
  <2>6. due'[r] = TaggedIn(HourAt(r) - 1)
      BY <1>2 DEF SaveCheckpoint, TypeInv, StoreSound
  <2>7. ~ overlap => \A q \in Runners \ {r} : Doing(q, "idle")
      BY <1>1 DEF SoloInv
  <2> HIDE DEF v
  <2> QED
      BY <1>1, <2>1, <2>4, <2>5, <2>6, <2>7, SoloBegins
<1>3. CASE ~ (run[r].h + 1 < BackfillHours /\ HourAt(r) > 0)
  <2>1. Become(r, Idle) /\ UNCHANGED due
      BY <1>3 DEF SaveCheckpoint
  <2>2. Idle.phase \notin Working
      BY DEF Idle, Working
  <2> QED
      BY <1>1, <2>1, <2>2, SoloRun
<1> QED
    BY <1>2, <1>3

LEMMA SoloPutParquet ==
    ASSUME TypeInv, SoloInv, NEW r \in Runners, PutParquet(r)
    PROVE  SoloInv'
<1> SUFFICES ASSUME ~ overlap'
             PROVE  /\ \A q, p \in Runners : (Doing(q, "idle") \/ Doing(p, "idle") \/ q = p)'
                    /\ \A q \in Runners : ~ (run[q].phase \in Working)'
    BY DEF SoloInv
<1> DEFINE v == [run[r] EXCEPT !.phase = "checkpoint", !.status = "ok"]
<1>1. v.phase = "checkpoint"
    BY DEF TypeInv, Run
<1>2. run'[r] = v /\ \A q \in Runners \ {r} : run'[q] = run[q]
    BY OneMoves DEF PutParquet
<1>3. ~ overlap /\ run[r].phase = "put"
    BY DEF PutParquet, Doing
<1>4. \A q \in Runners \ {r} : run[q].phase = "idle"
    BY <1>3 DEF SoloInv, Doing
<1> HIDE DEF v
<1> QED
    BY <1>1, <1>2, <1>4 DEF Doing, Working

LEMMA SoloStep ==
    ASSUME TypeInv, SoloInv, [Next]_vars
    PROVE  SoloInv'
<1>1. CASE UNCHANGED <<run, curated, due, overlap>>
    BY <1>1 DEF SoloInv, Doing, HourAt
<1>2. ASSUME NEW r \in Runners, ListPage(r) \/ GetObject(r) \/ PageDone(r)
                                \/ HeadFinds(r) \/ HeadMisses(r)
      PROVE  SoloInv'
  <2>1. run[r] \in Run /\ run[r].phase \in Working /\ ~ Doing(r, "idle")
        /\ UNCHANGED <<curated, due, overlap>>
      BY <1>2 DEF ListPage, GetObject, PageDone, HeadFinds, HeadMisses, TypeInv, Doing, Working
  <2>2. PICK v : Become(r, v)
      BY <1>2 DEF ListPage, GetObject, PageDone, HeadFinds, HeadMisses
  <2>3. run'[r] = v
      BY <2>2, OneMoves
  <2>4. v.now = run[r].now /\ v.h = run[r].h
    <3>1. CASE ListPage(r)
      <4>1. v = [run[r] EXCEPT !.phase = "get", !.truncated = Truncated(r), !.page = PageOf(r)]
          BY <2>3, <3>1, OneMoves DEF ListPage
      <4> QED
          BY <2>1, <4>1 DEF Run
    <3>2. CASE GetObject(r)
      <4>1. PICK o : v = [run[r] EXCEPT !.page = @ \ {o}, !.token = o, !.got = @ \cup {o}]
          BY <2>3, <3>2, OneMoves DEF GetObject
      <4> QED
          BY <2>1, <4>1 DEF Run
    <3>3. CASE PageDone(r)
      <4>1. \/ v = [run[r] EXCEPT !.phase = "list"]
            \/ v = [run[r] EXCEPT !.phase = "head"]
            \/ \E st : v = [run[r] EXCEPT !.phase = "checkpoint", !.status = st]
          BY <2>3, <3>3, OneMoves DEF PageDone
      <4> QED
          BY <2>1, <4>1 DEF Run
    <3>4. CASE HeadFinds(r)
      <4>1. v = [run[r] EXCEPT !.phase = "checkpoint", !.status = "exists"]
          BY <2>3, <3>4, OneMoves DEF HeadFinds
      <4> QED
          BY <2>1, <4>1 DEF Run
    <3>5. CASE HeadMisses(r)
      <4>1. v = [run[r] EXCEPT !.phase = "put"]
          BY <2>3, <3>5, OneMoves DEF HeadMisses
      <4> QED
          BY <2>1, <4>1 DEF Run
    <3> QED
        BY <1>2, <3>1, <3>2, <3>3, <3>4, <3>5
  <2> QED
      BY <2>1, <2>2, <2>4, SoloRun
<1>3. ASSUME NEW r \in Runners, RunFails(r)
      PROVE  SoloInv'
    BY <1>3, SoloRun DEF RunFails, Idle, Working
<1>4. ASSUME NEW o \in Objects, Arrive(o)
      PROVE  SoloInv'
    BY <1>1, <1>4 DEF Arrive
<1>5. CASE Tick
    BY <1>1, <1>5 DEF Tick
<1>6. CASE UNCHANGED vars
    BY <1>1, <1>6 DEF vars
<1> QED
    BY <1>2, <1>3, <1>4, <1>5, <1>6, SoloStart, SoloSaveCheckpoint, SoloPutParquet DEF Next, Step

\* The only step that writes puts back at least what there was.
LEMMA WritesAll ==
    ASSUME TypeInv, ListInv, SoloInv, [Next]_vars, ~ overlap, NEW t \in Hours
    PROVE  curated[t] \subseteq curated'[t]
<1>1. CASE curated' = curated
    BY <1>1
<1>2. ASSUME NEW r \in Runners, PutParquet(r)
      PROVE  curated[t] \subseteq curated'[t]
  <2>1. due[r] \subseteq run[r].got
      BY <1>2 DEF ListInv, Listing, StillToCome, PutParquet
  <2>2. curated[HourAt(r)] \subseteq due[r]
      BY <1>2 DEF SoloInv, PutParquet, Doing, Working
  <2>3. curated' = [curated EXCEPT ![HourAt(r)] = run[r].got] /\ t \in DOMAIN curated
      BY <1>2 DEF PutParquet, TypeInv, StoreSound
  <2> QED
      BY <2>1, <2>2, <2>3
<1> QED
    BY <1>1, <1>2 DEF Next, Start, Step, RunFails, ListPage, GetObject, PageDone, HeadFinds,
       HeadMisses, SaveCheckpoint, Arrive, Tick, vars

\* NeverShrinks: while runs do not overlap, an hour that is curated never loses
\* an event, also if a failing look-up makes a later run write it again.
THEOREM CuratedNeverShrinks == Spec => NeverShrinks
<1> DEFINE Inv == TypeInv /\ ListInv /\ SoloInv
           Keeps == ~ overlap => \A t \in Hours : curated[t] \subseteq curated'[t]
<1>1. Init => Inv
  <2> SUFFICES ASSUME Init
               PROVE  Inv
      OBVIOUS
  <2>1. \A r \in Runners : run[r].phase = "idle"
      BY DEF Init, Idle
  <2> QED
      BY <2>1, InitType DEF ListInv, Listing, StillToCome, SoloInv, Doing, Working
<1>2. Inv /\ [Next]_vars => Inv'
    BY TypeStep, ListStep, SoloStep
<1>3. Inv /\ [Next]_vars => [Keeps]_vars
    BY WritesAll
<1> QED
    BY <1>1, <1>2, <1>3, PTL DEF Spec, NeverShrinks
=============================================================================
