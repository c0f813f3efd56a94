# A TLA+ model of Griffin Guard

Griffin Guard is a gateway in front of an LLM.  `apps/viper-proxy` (Go) scores
requests, forwards them, scans the streamed answer and logs a security event
for each decision; `services/` (Python) tags and compacts the logged events;
`apps/analytics-ui` (TypeScript) shows them.  This directory models the parts
whose correctness depends on interleaving, failure and order, checks them with
TLC on small instances and proves the most important results with TLAPS for all
instances.  Paths below are relative to the repository; `logging/` and the like
stand for `apps/viper-proxy/internal/logging/`.

## 1. The system

| Part | State it keeps | Operations | Correct if |
|------|----------------|------------|-----------|
| Gateway handler, metrics, live feed (`proxy/reverse_proxy.go`, `metrics/`, `logging/live_feed.go`, `middleware/`) | six atomic counters, two maps under a lock, a bounded slice of events | `ServeHTTP`, `Record*`, `GetSnapshot`, `PublishLiveEvent` | each way out of a request leaves counters, log and feed that agree; a snapshot taken meanwhile is not ahead of itself; the feed is the newest events |
| Input scanner (`security/input/`) | a token cache | `Score` | outside the model except for its outcome |
| Output stream scanner (`security/output/`) | a 4096-byte window over a stream read in chunks | `InterceptAndWrite`, `DetectLeak`, `Redact` | sensitive values are found across chunks, not sent on (terminate) or masked (redact), and nothing else is lost |
| Circuit breaker (`logging/circuit_breaker.go`) | two atomics, no lock | `Allow`, `RecordSuccess`, `RecordFailure` | opens only after enough failures, for no longer than its window |
| Write-ahead log (`logging/wal.go`) | a file of lines, under a mutex | `Append`, `Replay` | what it answered nil for is in the file until the sink has it |
| Logging queue and process (`logging/queue.go`, `server/`, `cmd/viper-proxy/main.go`) | a bounded channel, workers, a closed flag | `Enqueue`, the workers, `Close`, `ReplayWAL`; boot, signal, stop | an event accepted is delivered or logged; a stop ends and takes nothing with it |
| Tagging function (`services/pii-lambda`) | none but the buckets | `lambda_handler`, `tag_payload` | 200 means every record is accounted for; deliveries may repeat |
| Parquet compactor (`services/parquet-compactor`) | a checkpoint object | `run`, `_compact_hour` | an hour's file is complete as of its listing and does not shrink |
| Dashboard data (`apps/analytics-ui`: `app/page.tsx`, `lib/`) | a table per refresh, the page's state, a "refreshing" flag | the refreshing effect, `loadEventData`, `syncLiveEvents`, the cards | the parts of a page show one table, the rates on the cards make sense, and the selected tab catches up |
| Request explorer (`app/page.tsx`, `components/dashboard/`) | filters, page number, the open row; an item in `localStorage` | the two effects that read and write the item, search, selectors, paging, export, drawer | what the user chose survives, the pages show every row once |

The parts interact thus.  A handler (one goroutine per request) calls the input
scanner, the upstream and the stream scanner, then `Enqueue`, then
`PublishLiveEvent`, then the metrics.  Workers share the channel, the breaker,
the sink and the log with each other, and the log with the handlers.  The sink
writes objects to a bucket, whose notifications invoke the tagging function, at
least once; the tagged bucket is what the compactor reads, on a schedule; the
curated bucket and the proxy's `/debug/events` are what the dashboard reads.
Across these three borders there is only the storage: no part waits for another.

What is hard to test is listed line by line as `hazards` in `PROJECT.json`: the
lock-free breaker under several workers; log appends between a replay's read and
its rename; crashes between a delivery and the rename; the channel being full or
being closed under a handler; a value that arrives in two chunks; a snapshot that
is read while it is written; a panic between two records of one handler;
notifications delivered twice, at once; a listing that goes on while objects
arrive; a refresh during which the user moves on; an effect that writes before
what another has read is shown.

## 2. The modules

| Module | Source | Actions |
|--------|--------|---------|
| `CircuitBreaker` | `logging/circuit_breaker.go` | one per atomic operation or clock reading of `Allow`, `RecordSuccess`, `RecordFailure` |
| `WriteAheadLog` | `logging/wal.go` | the three outcomes of one `Append`; `Replay` line by line up to its rename, its errors; crash |
| `LogQueue` | `logging/queue.go`, `server/server.go`, `main.go` | `Enqueue` in its steps, the worker loop in its steps, boot, replay, serve, stop, `Close`, end, crash |
| `EventLedger` | none: the abstract promise | an event is in memory, logged, stored or lost, and lost only from memory |
| `StreamInterceptor` | `security/output/` | one read of the body with what it returns, its detection and its write |
| `Gateway` | `proxy/`, `metrics/`, `logging/live_feed.go`, `middleware/` | each branch of `ServeHTTP`, each counter, the snapshot's loads |
| `PiiLambda` | `services/pii-lambda/src` | each storage call of the handler, with its outcomes; retries; time-out |
| `Compactor` | `services/parquet-compactor/src` | each page, read, look-up, write and checkpoint; failure; arrivals |
| `Dashboard` | `app/page.tsx`, `lib/duckdb.ts`, `lib/queries.ts` | each await of the effect; tabs, ticks, visibility; the numbers of the cards |
| `Explorer` | `app/page.tsx`, `RequestDetailDrawer.tsx` | opening, the next render, its effect and closing of the page; search, selectors, paging, another feed, the drawer |
| `CircuitBreakerProofs`, `WriteAheadLogProofs`, `LogQueueProofs`, `GatewayProofs`, `PiiLambdaProofs`, `CompactorProofs`, `StreamInterceptorProofs`, `PageProofs` | | theorems |

`LogQueue` composes `CircuitBreaker` and `WriteAheadLog` by `INSTANCE`: a
worker's step is the breaker's or the log's step together with the worker's own.
`LogQueueProofs` composes their proofs in the same way.  `EventLedger` is the abstract specification that `LogQueue` implements; the
refinement maps each event to where it is kept (`Fate`).  `Gateway` and `LogQueue`
meet at `Enqueue`, which `Gateway` models by its two outcomes (it returns, or
panics on a closed channel), both of which `LogQueue` shows to be possible.
`map` in `PROJECT.json` gives the source lines of each definition.  A module
`MCx` extends module `x` with the symmetry sets or functions its `.cfg` needs.

How data is abstracted:

* Events, requests and objects are model values.  A line of the log is an event
  and how much of it was written ("whole", "bare": all but the newline, "cut");
  whether it can be read again depends on its neighbours, as in the file.
* The body of an answer is a string over two sensitive characters and a plain
  one; a *value* is a maximal run of at least `MinLen` sensitive cells.  This
  keeps what matters of the expressions of `detectors.go`: a value is found as a
  whole, may be cut by chunks and by the window, and may occur twice.  What the
  client gets of a chunk is, cell by cell, the cell or a mask; `Redact` says which
  cells of the chunk the replacements have masked, by recursive functions over the
  findings in the order of the text and over the cells from the left.
* A page of a listing is the set of its keys, which are numbers in the order of
  the listing; no two runs see the same page twice, so its order is that of the
  numbers.
* The contents of an event are the set of kinds of values in it.  A tag is computed
  from the weights and thresholds of `tagging.py`; `TypeOK` says what comes out in
  terms of the contents alone.  How often an object was stored, and how often that
  is excused, are histories (`puts`, `excused`).
* The breaker's clock is an integer that stops at `MaxNow`; its counter is
  exact, and the history of failures in a row, `streak`, stops at the threshold.
  The code compares wall times (`UnixNano`); that the host does not set its clock
  back is assumed.
* The dashboard's table is the set of its events, the demo rows being one.  The
  Parquet read may succeed or fail at any refresh.  How many rows a table has is
  counted: one for each event, three for the demo rows.
* The explorer's rows are numbers in the order of their time; what a search text
  or a selector makes of a row is given by constants.  React's order is kept: the
  effects of a new page run in the order in which they are written, what they set
  is shown by the next render, and a click's render and effects come before the
  next click.  One window uses the `localStorage` item.  The first refresh, which
  loads a database over the network, ends after the page's first two renders.

`Dashboard` and `Explorer` are two views of one page: `Dashboard` has the refresh
step by step and none of the filters, `Explorer` has any feed arriving at once.
They share no name (the specification of the first is `DataSpec`, its types are
`DataTypeOK`), so that `PageProofs` can extend both; they are not composed.

## 3. The runs

| Run | What it shows |
|-----|---------------|
| `MCCircuitBreaker` | Three workers, threshold 2, window 2, clock to 4: the counter exceeds the threshold only by workers about to trip the breaker (`CounterBounded`), the breaker is never open for longer than a window (`WindowBound`), opens only after a streak (`TripNeedsStreak`) and grants only past the deadline (`GrantAfterDeadline`). |
| `MCWriteAheadLog` | Three events, all faults, two slips: nothing answered nil is forgotten while no line is torn, a torn line costs at most one other record, the sink gets copies only for slips, records leave the file only when stored. |
| `MCLogQueue` | Three events, two workers, a channel of one, failing and ambiguous sink, failing log, crash and interrupted replay: an event is in one place only and accounted for, and only a crash loses one from memory. |
| `MCLogQueueLive` | Without crashes, with handlers that outlast the stop: `Close` returns, and the queue implements `EventLedger`, its liveness included. |
| `MCLogQueueClose` (violated) | `PROJECT_COMPLETE_GUIDE.md:846`, "Queue closed (shutdown): WAL append". |
| `MCStreamInterceptor` | All bodies of up to seven cells, chunks of up to three, a window of six, both modes, errors of the read and of the write: no value is sent in terminate mode; in redact mode one within a chunk is never sent whole, and no cell of it is unless a shorter value found before it occurs in it (`RedactMasksWholeValues`); leaks are reported exactly, plain text is kept. The window is long enough for two values of different length (`aa.aaa`), and shorter than the body by one cell, which leaves it. |
| `MCStreamInterceptorSplit` (violated) | `PROJECT_COMPLETE_GUIDE.md:120`, "sensitive values masked in stream". |
| `MCGateway` | Two requests through every way out, with snapshots and the queue closing: snapshots are covered, the books balance, the feed is faithful. |
| `MCPiiLambda` | Two invocations of up to two records, events without a value and with each kind that matters to the tag, `MAX_RETRIES` of 0 and 2, a dead-letter bucket: what 200 promises, what each content is tagged with, and how often a tagged object is written again. |
| `MCCompactor` | Two runs, three objects in one hour and two in the next, pages of two, at least two for a Parquet object: hours stay apart (`TypeOK`), a listing misses nothing, a curated hour does not shrink. |
| `MCDashboard` | Two tabs, one event in both sources: the parts of the page agree, the rates stay below 100% between two queries too, the guard is given back, the selected tab is shown in the end. |
| `MCExplorer` | Three rows, two actions, two severities, one search text, pages of one and two rows: kept settings survive (`SettingsSurvive`), the pages together are the export (`PagesCover`), and only a search or another feed leaves the page behind the last (`PageLeftBehind`). |

### Bounds

They are the smallest that let the interesting case happen.  Two workers can be
between any two statements of each other, and the third lets the counter exceed
the threshold by more than one; three log records let one be acked, one refused
and one be damaged by its neighbour; a channel of one is full with one event, and
a third is needed beside the one in the channel and the one in a worker's hands.
Six cells hold a value that is cut by a chunk and one that is pushed out of the
window.  Two requests suffice for every pair of recorded steps, since a handler's
steps commute with all but those of one other and of the snapshot.  Two slips
allow a replay to be interrupted and its successor to meet an ambiguous answer.
Two pages of two objects are a listing during which an object arrives behind and
ahead of the token, and each of the two hours can be written.  Three rows on pages of one are a first, a middle and a last
page, and on pages of two a full one and one that is not; one row passes the
search text, so that a search on the second page leaves it behind.

`CHECK_DEADLOCK FALSE` is set only where the system really stops: when all
events are logged, all requests answered, all invocations returned, the clock at
its bound or the stream at its end.  The queue and the dashboard are checked for
deadlock.

### Fairness

* `LogQueue`: weak fairness for each handler inside `Enqueue`, each worker and
  `main`: the Go scheduler runs every goroutine that can run.  A call of the sink
  is assumed to return: the worker gives it no deadline (`queue.go:59`), so that
  `Close` waits as long as the client or the file system does.  Requests, signals
  and crashes need not come.
* `Dashboard`: effects run after a commit, the timer ticks while the page is
  visible, an await that is under way ends.  That refreshes stop throwing is an
  assumption of the property, not of the specification.
* The other modules are checked for safety only and state no fairness.

## 4. What is proved

TLAPS proves these for every value of the constants, under the named assumptions
of the modules (finite sets, positive thresholds and sizes, `None` is no event,
keys are positive numbers), and no others.  Every inductive invariant named here
was first checked by TLC, as an invariant of the instance of its module's run.

`CircuitBreakerProofs`

* `TypeCorrect`.
* `NeverOpenLongerThanWindow` (`WindowBound`).  Not inductive alone: a worker
  stores a deadline computed from a clock it read earlier.  The strengthening
  `ClockInv` says that no clock a worker holds is in the future.
* `GrantOnlyAfterDeadline` (`GrantAfterDeadline`), from the types and `ClockInv`:
  the clock compared is not later than the clock at the comparison.
* `OvershootIsAccountedFor` (`CounterBounded`), by cardinality of the workers in
  the branch: each count past the threshold puts its worker there.
* `TripsOnlyAfterStreak` (`TripNeedsStreak`): the counter is at most the streak,
  since every success resets both and a late reset only lowers the counter.

`WriteAheadLogProofs`

* `TypeCorrect`, with what a replay has acked and kept being lines it has read.
* `NothingIsForgotten` (`NothingForgotten`).  What a rename may drop depends on
  what the replay did with each line it read, so `KeepInv` adds, for the case that
  nothing was torn: every record is whole, every record read is stored or pending,
  and the rename comes when all were read.
* `RedeliveredOnlyAfterSlips` (`RedeliveryBounded`).  An event can be delivered
  again only if it is still in the file, so `DeliverInv` adds: an event is in the
  file at most once; one that is there and not yet read, or of which the replay has
  stored nothing, has not used up the bound; neither has one that is pending.
* `NothingRemovedTooEarly` (`RemovedOnlyWhenStored`), with torn lines too.  A
  rename replaces the file by the pending lines; that these can be read where they
  then are needs `RenameInv`: what is not whole was torn, each readable record
  read is stored or pending as it is, and only a record read at the end of the file
  can be pending without its newline (`LinesApart`).

* `DamageIsBounded` (`DamageBounded`).  A torn line at the end of the file
  (`Dangling`) has cost nothing yet; the next record written may be lost with it.
  `DamageInv` counts: there are at most as many damaged events as torn lines that
  are `Spent`, that is, do not dangle.  The append that damages its record spends a
  line (`AppendCosts`); no other step damages one (`DamagedOnlyBy`, from
  `LeavesOnlySo`) or makes a spent line dangle again, since a pending line without
  its newline is the last of the file (`OpenIsLast`).

`LogQueueProofs`, which instantiates the two modules above

* `UsesTheBreaker`: every step of the queue is a step of `CircuitBreaker` or leaves
  its variables alone, so that `NeverOpenLongerThanWindow` and the other theorems
  about the breaker hold in the queue.
* `TypeCorrect`.  A worker's guards rely on its place in the loop, and the overflow
  counter on who has passed the send: `TypeInv` adds `PlaceInLoop` and
  `DropsCounted`.
* `LossTakesAFault` (`LossNeedsFault`: the step that loses an event from memory is a
  crash, or a handler outlasted the stop), from `LifeInv`: the channel is closed before
  `main` waits for the workers, a worker ends on an empty closed channel only, and
  without slow handlers none is left when `Close` begins.
* `HeldInOnePlace` (`HeldOnce`) and `RedeliveredOnlyAfterSlips`
  (`RedeliveryBounded`).  `PlaceInv` says where an event is: nowhere before
  `Enqueue` has placed it (`EarlyIsNowhere`); in the channel once, in nobody's hands,
  not in the file and not in the sink (`ChannelOnce`); in one worker's hands, and in
  the sink as often as that worker's place says (`HandOnce`); and in the file as
  `DeliverInv` of the log says, whose lemmas are used as they are.
* `EventsAreAccounted` (`Accounted`), from `TraceInv`: what `Enqueue` has returned
  for is in the channel, in hand, in the sink, or was answered by the log, which
  keeps it by `KeepInv`.
* `StepsImplementLedger`: without torn lines every initial state and step of the
  queue maps to one of `EventLedger`, or to a stutter, under the mapping `Fate`.

`GatewayProofs`

* `TypeCorrect`.  The lemmas `EffectsFit` and `ForwardFits` go through what each way
  out of `ServeHTTP` records, `Handled` through the ways themselves.
* `FeedShowsTheNewest` (`FeedFaithful`).  That an event is in the feed once and in
  the queue first depends on what its handler has left to do, so `FeedInv` follows
  that: a request on its way has published nothing; a publication that is due comes
  right after the hand-over to the queue, and is the only one; what was published is
  without repetition and was handed over; the feed is its last part, cut only when
  full.  A panic drops the hand-over and the publication together.
* `BooksAreBalanced` (`BooksBalance`).  Each counter is the number of requests that
  have recorded it: `Got(x)` is the set of those whose outcome owes `x` and who have
  it not left to do, `GotClass` the same for the status classes.  `CountInv` equates
  counters and cardinalities; it holds because `EndInv` says of each request that what
  it has left is part of a plan that fits its outcome (`Good`: nothing twice, nothing
  not owed, requests last, and before the hand-over to the queue only what a panic
  does not take back).  `SetsBalance` is then about sets of outcomes.
* `SnapshotsAreCovered` (`SnapshotCovered`), from `ShowInv`: from the load of
  `requests` on, the snapshot as it would be if it ended now (`Shown`) covers it.
  At that load it does because a request that counted itself has nothing left to do
  (`RequestsCovered`); later it does because counters only grow (`ShownGrows`).

`PiiLambdaProofs`

* `TypeCorrect` and `AnswersAreAccounted` (`ReturnedAccounted`, with a dead-letter
  bucket and without), from `LambdaInv`: of the records before its position an
  invocation has counted each once, its counts are at most the number of those whose
  objects are tagged, or in the dead-letter bucket, and none of them is in neither
  (`Counted`).  Other invocations and ambiguous writes only add to the buckets, so they
  keep it (`AmongGrows`).  That a tagged object has the tag of its contents is
  `TagByContent`, about the sum of the weights for every set of kinds.
* `RewritesAreBounded` (`RewritesBounded`).  An object that is there can be stored again
  by those that have looked for it and did not find it (`Storing`), which `RewriteInv`
  counts as if they had stored already: `puts[o]` and their number are at most
  `1 + excused[o]`.  The first write excuses the others that are about to store; later
  only a look-up answered with an error puts one more among them, and only a write that
  fails after it has stored leaves its invocation among them.

`CompactorProofs`

* `TypeCorrect`, with the hour of each event in a curated hour and its minimal size.
* `NothingIsMissed` (`ListingMissesNothing`).  `ListInv` says what a run has still to
  come: an object that was tagged when the run began the hour was read, is in the
  page, or comes after the token and after everything in the page, and then there
  are more pages.  The lemmas `PageFits`, `LastPage` and `RestIsLater` are about the
  first `PageSize` keys of a set, by cardinality of the keys before each.
* `CuratedNeverShrinks` (`NeverShrinks`), from `SoloInv`: while runs have not
  overlapped, what an hour holds was tagged before the run at work on it began it.


`StreamInterceptorProofs`, for texts, values, chunks and windows of any size with
`WindowSize >= ChunkSize + MinLen - 1`

* `TypeCorrect`, with each cell written at its place or masked.
* `ValuesAreHidden` (`TerminateHidesValues`) and `LeaksAreReportedExactly`
  (`ReportedExactly`).  `MinLen` sensitive cells that end in a new chunk lie in the
  window whole (`Window`, arithmetic on the three sizes); such cells are part of a
  longest run there (`Extends`, from the least beginning and the greatest end of a
  run that has them), so that there is a finding.  Conversely a run found in a part
  of the text lies in a longest run of the whole (`RunsGrow`).  `HiddenInv`: in
  terminate mode no `MinLen` cells in a row of what was written are sensitive;
  `LeakInv`: a leak has been reported exactly if what was read has a value.
* `WholeValuesAreMasked` (`RedactMasksWholeValues`), the promise of redact mode that
  the code does keep.  A replacement masks, of every place at which the value
  occurs, the first cell, or that place overlaps one further left that it replaces;
  it masks only cells of such places, and all cells of a place that no other
  overlaps (`Replaces`).  When the turn of a value comes, either an earlier
  replacement has masked a cell of it or it is replaced itself.  The first
  replacement that reaches it is of a text that lies within it, since no sensitive
  cell is next to it (`OccursWithin`): of its own text, and all of it is masked, or
  of a shorter value found before it (`Redacts`).  `MaskedInv` says so of each value
  that lies in one chunk, with the window of that chunk.
* `PlainTextIsKept` (`PlainTextKept`), from `PlainInv` and the other half of
  `Replaces` and `Redacts`: only sensitive cells are ever masked.

`PageProofs`, about the refreshes

* `RefreshTypeCorrect` (`DataTypeOK`): the guard is set exactly while a refresh is
  under way.
* `OneTableOnScreen` (`ScreenConsistent`).  `OneRefresh` says that at most one
  refresh is under way, which `MayStart` gives because the guard is set for as long
  as one is; `FilledInv` says that the parts a refresh has filled show its table and,
  at rest without an error, that all parts show one.
* `RatesAreParts` (`RatesWithinTotal`): each number is counted in the same table as
  the total, whichever that is.  The lemma `CountBounded` is about cardinalities.

`PageProofs`, about the explorer

* `TypeCorrect`: the kept item is what the page shows, except between a render and
  its effect.
* `SettingsAreKept` (`SettingsSurvive`).  `KeptInv` follows the settings through
  the four stages of a session: in the item, read, queued, shown and written back.
* `PageFallsBehindOnlySo` (`PageLeftBehind`): a page number is moved by the buttons
  within the number of pages, and everything else that changes that number sets it
  to 1.  The lemmas `Quotient` and `TotalPages` are about the rounded-up division.
* `PagesAreTheExport` (`PagesCover`): by `Pages`, the last page begins before the
  last row and ends behind it, so that the beginnings of the pages cut the rows into
  pieces in order; pieces of a sequence joined are the sequence (`Joins`, by
  induction on the number of pages).

The recursive functions (`Redact`, `ReplaceAll`, the explorer's filter, the joining of
the pages) are reasoned about without an induction theorem: a set of numbers has a
least element (`Least`, from the library's theorem on well-founded relations), hence
a set with 0 and each number's successor has them all (`Climb`), and a function that
is given by its first value and the step to the next exists (`Recursion`), so that
the recursive definition has what it says.  Each of the two modules states these for
itself.

Only model-checked: the liveness properties, `CloseReturns`, `TabCatchesUp` and the
fairness that `EventLedger` asks of its implementation, since the prover has no rules
for fairness and `ENABLED`.  Every invariant and every action property of the passing
runs is a theorem.

## 5. Where code and documents differ

Two runs show a difference as a counterexample (section 3).  The models
contain these others, which have no run of their own:

* A breaker that has tripped need not stay open for its window: the deadline
  is computed before it is stored, and a slower worker's older deadline can
  replace a newer one (`circuit_breaker.go:33`; guide, line 941).  Nor need the
  threshold be enough to trip it: the reset after a trip wipes what other workers have
  counted since (`circuit_breaker.go:34`).  The properties bound what opens it from
  above only.
* A torn append makes the *next* record unreadable as well when it lands on the
  same line (`wal.go:57`; guide, line 854).  `DamageBounded` says how far.
* A crash loses what is in the channel and in the workers' hands
  (`queue.go:45`; guide, line 881).  `LossNeedsFault` names the crash.
* The log is replayed only when a process starts (`main.go:43`), not when the
  sink recovers (`docs/runbooks/degraded-mode.md:12`).
* A leak in an answer whose stream then breaks is in no event
  (`reverse_proxy.go:130`; guide, line 42), and a scanner failure the proxy opened
  on is in no counter (`reverse_proxy.go:68`; `degraded-mode.md:5`).
  `BooksBalance` names both as its exceptions.
* Without a dead-letter bucket a record that fails is acknowledged and kept
  nowhere (`handler.py:40`; guide, line 589).  `MAX_RETRIES` counts calls, not
  retries, and 0 makes none (`handler.py:28`; guide, line 371).
* A look-up of a tagged object that the service answers with an error counts as "not
  there", and the object is written again (`handler.py:22`; guide, line 587, "skips if
  tagged object already exists").  It is also written twice by two deliveries that
  look before either has written.  The content is the same; `RewritesBounded` names every such way.
* In redact mode a value whose text has a shorter value in it that was found before
  it is masked only in part: the shorter one is replaced first, what it leaves of the
  longer is no longer the text that is looked for, and it is sent in clear
  (`redactor.go:12`; guide, line 120, "sensitive values masked in stream").  After
  `a@b.co`, the address `xa@b.com` is sent as `x[REDACTED_EMAIL]m`.
  `RedactMasksWholeValues` names this as its only exception.
* `PHONE_RE` matches the date the proxy writes into every event, so that no event
  of the proxy is tagged `SAFE` (`tagging.py:5`; guide, line 464).
* Two overlapping runs of the compactor may both write an hour
  (`compactor.py:55`; guide, line 598).  `NeverShrinks` is stated for runs that do
  not overlap.
* An event tagged after its hour was compacted never reaches Parquet
  (`compactor.py:57`; `README.md:13`): the run for the current hour writes what
  there is, later runs answer "exists".  The checkpoint is written but never read:
  after a pause longer than `BACKFILL_HOURS` the hours between stay raw
  (`compactor.py:83`).
* The compactor's Parquet has more columns than the dashboard's table, so that
  inserting it fails and the demo rows are shown, also together with live ones
  (`duckdb.ts:54`; guide, line 582).  `LoadEventData` has both outcomes.
* The numbers of the cards are counted in the decision feed, which stops at 100
  rows, and not taken from the `overview` query, unless the feed is empty
  (`page.tsx:126`; guide, line 614).
* The effect that writes the explorer's settings runs before the kept ones are
  shown and writes the defaults over them (`page.tsx:170`).  The next render puts
  them back, but not if the page is closed first, and not under `npm run dev`
  (`README.md:55`), whose strict mode reads the defaults again: there only the
  search text survives.  `SettingsSurvive` names both exceptions.
* Neither the search box nor a refresh goes back to the first page
  (`page.tsx:371`): the table may be empty under "Showing 21-5 of 5".
  `PageLeftBehind` says that these are the only ways.
* The sidebar says that proxy, scanner and logger are healthy, whatever they are
  (`SidebarNav.tsx:46`).  Its click on a tab's section scrolls only if that tab is
  already shown, since only then does its entry of `sectionRefs` hold a section
  (`page.tsx:254`).

## 6. What is not modelled

* The text of prompts, tokens and scores; the HTTP calls' headers and bodies;
  CORS and the debug token; formatting of any kind.
* Memory: every refresh of the dashboard makes a worker and a database that
  nothing terminates (`duckdb.ts:16`), and the tokenizer keeps every prompt
  (`tokenizer.go:33`).  Nothing bounds either, so no invariant would hold.
* The limits of the queries, but for the decision feed's in `Explorer`; the
  charts; the theme; the highlight and the scrolling of the sidebar; two windows
  that share the explorer's item.
* The three attempts inside `S3Writer.Write`: `LogQueue` has their possible
  outcomes.
* Configuration, infrastructure, mock services, scripts and the dashboard's
  presentation (see `components` in `PROJECT.json`).

## 7. Plan

Done, in this order: breaker, log, queue and ledger; stream scanner; gateway;
tagging; compaction; dashboard; request explorer; the proofs of section 4.

Next in the model:

1. `LogQueue`: the health answer, which reads the breaker twice
   (`main.go:57`); the attempts of `S3Writer.Write` as steps of a worker.
2. `Gateway`: the request's body limit and the order of the middlewares as
   steps; the classifier's time-out racing an answer.
3. A composition of tagging and compaction over one bucket, with the notification
   as a message that may be lost, delayed or repeated.

Next in the proofs: what a composition of tagging and compaction promises, once it
is there; and more than one kind of value in `StreamInterceptor`, whose lemmas about
`Runs` are for one.
