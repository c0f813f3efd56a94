----------------------------- MODULE Compactor ------------------------------
(***************************************************************************)
(* The batch job (services/parquet-compactor): run compacts, hour by hour, *)
(* the tagged objects of the last BACKFILL_HOURS hours into one Parquet    *)
(* object per hour, while the tagging function adds objects and other runs *)
(* may do the same work.                                                   *)
(*                                                                         *)
(* Objects are numbered in the order of their keys, which is the order of  *)
(* the listing.  A run is started any number of times; each page of the    *)
(* listing, each read, the look-up and the write are steps of their own.   *)
(***************************************************************************)
EXTENDS Integers, FiniteSets

CONSTANTS Objects,      \* tagged objects that may appear
          HourOf,       \* the hour in each one's key
          MaxHour,      \* bound: the clock
          Runners,      \* runs that may be going on at once
          BackfillHours, MinPartitionRecords,
          PageSize      \* keys in a page of a listing

Hours == 0..MaxHour

ASSUME CompactorAssumption ==
    /\ Objects \subseteq Nat \ {0} /\ IsFiniteSet(Objects)
    /\ HourOf \in [Objects -> Hours]
    /\ MaxHour \in Nat /\ BackfillHours \in Nat /\ MinPartitionRecords \in Nat
    /\ PageSize \in Nat \ {0}

VARIABLES
    headErrors, \* TRUE if a look-up may fail with a ClientError
    hour,       \* the current hour
    tagged,     \* the objects of the source bucket
    curated,    \* the events in each hour's Parquet object, {} if there is none
    checkpoint, \* the hour and status of the last checkpoint
    run,        \* the runs
    due,        \* history: what each run found tagged when it began an hour
    overlap     \* history: two runs have been going on at once

vars == <<headErrors, hour, tagged, curated, checkpoint, run, due, overlap>>

Idle == [phase |-> "idle", now |-> 0, h |-> 0, token |-> 0, page |-> {},
         truncated |-> FALSE, got |-> {}, status |-> "none"]

Init ==
    /\ headErrors \in BOOLEAN
    /\ hour = 0
    /\ tagged = {}
    /\ curated = [t \in Hours |-> {}]
    /\ checkpoint = <<>>
    /\ run = [r \in Runners |-> Idle]
    /\ due = [r \in Runners |-> {}]
    /\ overlap = FALSE

-----------------------------------------------------------------------------
TaggedIn(t) == {o \in tagged : HourOf[o] = t}

\* The hour a run works on: h hours before the one it was started in.
HourAt(r) == run[r].now - run[r].h
Doing(r, phase) == run[r].phase = phase
Become(r, v) == run' = [run EXCEPT ![r] = v]

BeginHour(v) ==
    [v EXCEPT !.phase = "list", !.token = 0, !.page = {}, !.got = {}, !.status = "none"]

Start(r) ==
    /\ Doing(r, "idle")
    /\ IF BackfillHours = 0 THEN UNCHANGED run
       ELSE Become(r, BeginHour([Idle EXCEPT !.now = hour]))
    /\ due' = [due EXCEPT ![r] = TaggedIn(hour)]
    /\ overlap' = (overlap \/ \E q \in Runners \ {r} : ~ Doing(q, "idle"))
    /\ UNCHANGED <<headErrors, hour, tagged, curated, checkpoint>>

\* _iterate_objects: a page holds the first keys after the token as they are
\* when it is fetched, and says whether there are more.
AfterAnyHour(r) == {o \in tagged : o > run[r].token}
After(r) == {o \in TaggedIn(HourAt(r)) : o > run[r].token}
Before(o, S) == {p \in S : p < o}

TruncatedNever(r) == FALSE
Truncated(r) == Cardinality(After(r)) > PageSize

PageOf(r) == {o \in After(r) : Cardinality(Before(o, After(r))) < PageSize}

ListPage(r) ==
    /\ Doing(r, "list")
    /\ Become(r, [run[r] EXCEPT !.phase = "get", !.truncated = Truncated(r),
                                !.page = PageOf(r)])
    /\ UNCHANGED <<headErrors, hour, tagged, curated, checkpoint, due, overlap>>

\* The next object of the page is read; the token is that of the page when all
\* are.
GetObject(r) ==
    /\ Doing(r, "get")
    /\ \E o \in run[r].page :
          /\ Before(o, run[r].page) = {}
          /\ Become(r, [run[r] EXCEPT !.page = @ \ {o}, !.token = o, !.got = @ \cup {o}])
    /\ UNCHANGED <<headErrors, hour, tagged, curated, checkpoint, due, overlap>>

\* The page is done: the next one, or, after the last, the decision.
PageDone(r) ==
    /\ Doing(r, "get") /\ run[r].page = {}
    /\ Become(r,
         IF run[r].truncated THEN [run[r] EXCEPT !.phase = "list"]
         ELSE IF run[r].got = {}
              THEN [run[r] EXCEPT !.phase = "checkpoint", !.status = "empty"]
         ELSE IF Cardinality(run[r].got) < MinPartitionRecords
              THEN [run[r] EXCEPT !.phase = "checkpoint", !.status = "incomplete"]
         ELSE [run[r] EXCEPT !.phase = "head"])
    /\ UNCHANGED <<headErrors, hour, tagged, curated, checkpoint, due, overlap>>

\* The hour's Parquet object is looked up.
Exists(t) == curated[t] # {}

HeadFinds(r) ==
    /\ Doing(r, "head") /\ Exists(HourAt(r))
    /\ Become(r, [run[r] EXCEPT !.phase = "checkpoint", !.status = "exists"])
    /\ UNCHANGED <<headErrors, hour, tagged, curated, checkpoint, due, overlap>>

\* It is not there, or the call fails with a ClientError, which is passed over.
HeadMisses(r) ==
    /\ Doing(r, "head")
    /\ headErrors \/ ~ Exists(HourAt(r))
    /\ Become(r, [run[r] EXCEPT !.phase = "put"])
    /\ UNCHANGED <<headErrors, hour, tagged, curated, checkpoint, due, overlap>>

PutParquet(r) ==
    /\ Doing(r, "put")
    /\ curated' = [curated EXCEPT ![HourAt(r)] = run[r].got]
    /\ Become(r, [run[r] EXCEPT !.phase = "checkpoint", !.status = "ok"])
    /\ UNCHANGED <<headErrors, hour, tagged, checkpoint, due, overlap>>

\* _save_checkpoint, and the next hour of the loop; hours before the first one
\* of the model hold nothing.
SaveCheckpoint(r) ==
    /\ Doing(r, "checkpoint")
    /\ checkpoint' = <<HourAt(r), run[r].status>>
    /\ IF run[r].h + 1 < BackfillHours /\ HourAt(r) > 0
       THEN /\ Become(r, BeginHour([run[r] EXCEPT !.h = @ + 1]))
            /\ due' = [due EXCEPT ![r] = TaggedIn(HourAt(r) - 1)]
       ELSE Become(r, Idle) /\ UNCHANGED due
    /\ UNCHANGED <<headErrors, hour, tagged, curated, overlap>>

\* Any other failure of a call, of a parse or of the process ends the run.
RunFails(r) ==
    /\ ~ Doing(r, "idle")
    /\ Become(r, Idle)
    /\ UNCHANGED <<headErrors, hour, tagged, curated, checkpoint, due, overlap>>

Step(r) ==
    \/ ListPage(r) \/ GetObject(r) \/ PageDone(r)
    \/ HeadFinds(r) \/ HeadMisses(r) \/ PutParquet(r) \/ SaveCheckpoint(r)

\* The tagging function writes an object, now or long after its hour.
Arrive(o) ==
    /\ o \notin tagged /\ HourOf[o] <= hour
    /\ tagged' = tagged \cup {o}
    /\ UNCHANGED <<headErrors, hour, curated, checkpoint, run, due, overlap>>

Tick ==
    /\ hour < MaxHour
    /\ hour' = hour + 1
    /\ UNCHANGED <<headErrors, tagged, curated, checkpoint, run, due, overlap>>

Next ==
    \/ \E r \in Runners : Start(r) \/ Step(r) \/ RunFails(r)
    \/ \E o \in Objects : Arrive(o)
    \/ Tick

Spec == Init /\ [][Next]_vars

-----------------------------------------------------------------------------
Phases == {"idle", "list", "get", "head", "put", "checkpoint"}
Statuses == {"empty", "incomplete", "exists", "ok"}
Run == [phase : Phases, now : Hours, h : Nat, token : Nat, page : SUBSET Objects,
        truncated : BOOLEAN, got : SUBSET Objects, status : {"none"} \cup Statuses]

\* The types; a page is no longer than it may be, what is read has been tagged,
\* and an hour's Parquet object holds events of that hour only, at least as many
\* as are asked for.
TypeOK ==
    /\ headErrors \in BOOLEAN /\ overlap \in BOOLEAN
    /\ hour \in Hours /\ tagged \subseteq Objects
    /\ curated \in [Hours -> SUBSET tagged]
    /\ \A t \in Hours : curated[t] # {} =>
          curated[t] \subseteq TaggedIn(t) /\ Cardinality(curated[t]) >= MinPartitionRecords
    /\ checkpoint \in {<<>>} \cup (Hours \X Statuses)
    /\ run \in [Runners -> Run] /\ due \in [Runners -> SUBSET tagged]
    /\ \A r \in Runners :
          /\ HourAt(r) \in Hours
          /\ Cardinality(run[r].page) <= PageSize
          /\ run[r].got \subseteq tagged

\* What a run is about to write misses nothing that was tagged when it began
\* the hour, although objects arrive between the pages of the listing.
ListingMissesNothing ==
    \A r \in Runners : Doing(r, "head") \/ Doing(r, "put") => due[r] \subseteq run[r].got

\* While runs do not overlap, an hour that is curated never loses an event,
\* also if a failing look-up makes a later run write it again.
NeverShrinks == [][~ overlap => \A t \in Hours : curated[t] \subseteq curated'[t]]_vars

=============================================================================
