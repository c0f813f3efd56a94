----------------------------- MODULE Dashboard ------------------------------
(***************************************************************************)
(* The dashboard's data (apps/analytics-ui): the effect of app/page.tsx    *)
(* that refreshes the screen when the tab, or a ten-second tick, changes,  *)
(* and the table it fills in lib/duckdb.ts from the curated Parquet        *)
(* object, the demo rows and the proxy's live feed.                        *)
(*                                                                         *)
(* Every await is a step; in between the user changes tabs, the page is    *)
(* hidden and shown, and ticks come.  A table is the set of its events,    *)
(* the three demo rows being one of them.  The names differ from those of  *)
(* Explorer, so that PageProofs can extend both.                           *)
(***************************************************************************)
EXTENDS Integers, FiniteSets

CONSTANTS Events,
          Parquet,    \* the events in the Parquet object
          Blocked,    \* the events whose action is block_input
          Leaking,    \* the events with output_leak
          ParquetUrl, \* TRUE if its address is configured
          Tabs,
          Jobs        \* bound: refreshes that could be under way at once

Demo == "demo"

ASSUME DashboardAssumption ==
    /\ Parquet \subseteq Events /\ Demo \notin Events /\ IsFiniteSet(Events)
    /\ Blocked \subseteq Events /\ Leaking \subseteq Events
    /\ ParquetUrl \in BOOLEAN
    /\ Tabs # {} /\ Jobs # {}

VARIABLES
    activeTab, visible,
    due,        \* a dependency has changed and the effect has not run for it
    isRefreshing, \* isRefreshingRef.current
    job,        \* the refreshes: where each is, its tab and its table
    source,     \* dataSourceState
    screen,     \* the table each part of the page was last filled from
    resultsTab, \* the tab whose query filled "results"
    error       \* the error box is shown

view == <<activeTab, visible, due>>
shown == <<source, screen, resultsTab, error>>
dataVars == <<view, isRefreshing, job, shown>>

TableRows == Events \cup {Demo}
Parts == {"overview", "results", "decisionFeed", "threatTrend"}
Idle == [pc |-> "idle", tab |-> CHOOSE t \in Tabs : TRUE, table |-> {}]

DataInit ==
    /\ activeTab = CHOOSE t \in Tabs : TRUE
    /\ visible = TRUE
    /\ due = TRUE
    /\ isRefreshing = FALSE
    /\ job = [j \in Jobs |-> Idle]
    /\ source = "unknown"
    /\ screen = [p \in Parts |-> {}]
    /\ resultsTab = "none"
    /\ error = FALSE

-----------------------------------------------------------------------------
\* The world around the effect.
SelectTab(t) ==
    /\ activeTab # t
    /\ activeTab' = t /\ due' = TRUE
    /\ UNCHANGED <<visible, isRefreshing, job, shown>>

TickMissing == due' = due
TickDue == due' = TRUE
Tick ==
    /\ visible
    /\ TickDue
    /\ UNCHANGED <<activeTab, visible, isRefreshing, job, shown>>

ShowOrHide ==
    /\ visible' = ~ visible
    /\ UNCHANGED <<activeTab, due, isRefreshing, job, shown>>

-----------------------------------------------------------------------------
\* The effect runs after a change: it returns at once if a refresh is under
\* way, and otherwise begins one for the tab of this moment.
MayStartAlways == TRUE
MayStart == ~ isRefreshing

EffectReturns ==
    /\ due /\ ~ MayStart
    /\ due' = FALSE
    /\ UNCHANGED <<activeTab, visible, isRefreshing, job, shown>>

EffectStarts(j) ==
    /\ due /\ MayStart
    /\ job[j].pc = "idle" /\ j = CHOOSE k \in Jobs : job[k].pc = "idle"
    /\ due' = FALSE
    /\ isRefreshing' = TRUE
    /\ job' = [job EXCEPT ![j] = [pc |-> "initDB", tab |-> activeTab, table |-> {}]]
    /\ UNCHANGED <<activeTab, visible, shown>>

Goto(j, l) == job' = [job EXCEPT ![j].pc = l]
Ends(j) == job' = [job EXCEPT ![j] = Idle]
Fill(j, l, rows) == job' = [job EXCEPT ![j] = [pc |-> l, tab |-> @.tab, table |-> rows]]

InitDB(j) ==
    /\ job[j].pc = "initDB"
    /\ Goto(j, "load")
    /\ UNCHANGED <<view, isRefreshing, shown>>

\* The Parquet object's rows; or, without an address or when it cannot be
\* read, the demo rows if the table is empty.
WithDemo(table) == IF table = {} THEN {Demo} ELSE table

LoadEventData(j) ==
    /\ job[j].pc = "load"
    /\ \/ ParquetUrl /\ Fill(j, "sync", job[j].table \cup Parquet)
       \/ Fill(j, "sync", WithDemo(job[j].table))
    /\ UNCHANGED <<view, isRefreshing, shown>>

\* The proxy's live feed, whatever it has at that moment: every row of it
\* replaces the row of its request.
SyncLive(j) ==
    /\ job[j].pc = "sync"
    /\ \E feed \in SUBSET Events \ {{}} :
           Fill(j, "overview", job[j].table \cup feed)
    /\ source' = "live"
    /\ UNCHANGED <<view, isRefreshing, screen, resultsTab, error>>

\* The fetch fails, answers with an error or nonsense, or has no event.
SyncStale(j) ==
    /\ job[j].pc = "sync"
    /\ Goto(j, "overview")
    /\ source' = "stale"
    /\ UNCHANGED <<view, isRefreshing, screen, resultsTab, error>>

\* One query and the part of the page it fills.
Query(j, part, next) ==
    /\ job[j].pc = part
    /\ screen' = [screen EXCEPT ![part] = job[j].table]
    /\ next
    /\ UNCHANGED <<view, source, error>>

QueryOverview(j) ==
    Query(j, "overview", Goto(j, "results")) /\ UNCHANGED <<isRefreshing, resultsTab>>
QueryDetail(j) ==
    /\ Query(j, "results", Goto(j, "decisionFeed"))
    /\ resultsTab' = job[j].tab
    /\ UNCHANGED isRefreshing
QueryDecisions(j) ==
    Query(j, "decisionFeed", Goto(j, "threatTrend")) /\ UNCHANGED <<isRefreshing, resultsTab>>

FinallyKept == isRefreshing' = isRefreshing
Finally == isRefreshing' = FALSE

QueryTrend(j) == Query(j, "threatTrend", Ends(j)) /\ Finally /\ UNCHANGED resultsTab

\* Any await may throw: the error is shown, and never taken back.
Throws(j) ==
    /\ job[j].pc # "idle"
    /\ Ends(j)
    /\ Finally
    /\ error' = TRUE
    /\ UNCHANGED <<view, source, screen, resultsTab>>

RefreshStep(j) ==
    \/ InitDB(j) \/ LoadEventData(j) \/ SyncLive(j) \/ SyncStale(j)
    \/ QueryOverview(j) \/ QueryDetail(j) \/ QueryDecisions(j) \/ QueryTrend(j)

Effect == EffectReturns \/ \E j \in Jobs : EffectStarts(j)

DataNext ==
    \/ \E t \in Tabs : SelectTab(t)
    \/ Tick \/ ShowOrHide
    \/ Effect
    \/ \E j \in Jobs : RefreshStep(j) \/ Throws(j)

DataSpec == DataInit /\ [][DataNext]_dataVars

\* Effects run, the timer ticks while the page is visible, and an await that
\* is under way ends.
FairSpec ==
    /\ DataSpec
    /\ WF_dataVars(Effect) /\ WF_dataVars(Tick)
    /\ \A j \in Jobs : WF_dataVars(RefreshStep(j))

-----------------------------------------------------------------------------
\* What the cards at the top show.  Each number is counted in the decision feed
\* if that has a row, and otherwise taken from the overview, by a conditional of
\* its own; the two are filled by different queries.  Of the three demo rows
\* one is blocked and one leaks.
Count(table, kind, demo) ==
    Cardinality(table \cap kind) + (IF Demo \in table THEN demo ELSE 0)

decisionFeed == screen["decisionFeed"]
overviewRows == screen["overview"]

totalOfOverview == Count(overviewRows, Events, 3)
totalRequests ==
    IF decisionFeed # {} THEN Count(decisionFeed, Events, 3) ELSE Count(overviewRows, Events, 3)
blockedRequests ==
    IF decisionFeed # {} THEN Count(decisionFeed, Blocked, 1) ELSE Count(overviewRows, Blocked, 1)
leakEvents ==
    IF decisionFeed # {} THEN Count(decisionFeed, Leaking, 1) ELSE Count(overviewRows, Leaking, 1)

\* The types; the guard is set exactly while a refresh is under way.
Busy(j) == job[j].pc # "idle"
Steps == {"idle", "initDB", "load", "sync"} \cup Parts

DataTypeOK ==
    /\ activeTab \in Tabs /\ visible \in BOOLEAN /\ due \in BOOLEAN
    /\ job \in [Jobs -> [pc : Steps, tab : Tabs, table : SUBSET TableRows]]
    /\ isRefreshing \in BOOLEAN
    /\ isRefreshing <=> \E j \in Jobs : Busy(j)
    /\ source \in {"unknown", "live", "stale"}
    /\ screen \in [Parts -> SUBSET TableRows]
    /\ resultsTab \in Tabs \cup {"none"}
    /\ error \in BOOLEAN

\* At rest, as long as no refresh has thrown, the four parts of the page show
\* one table: they were filled by one refresh although each by a query of its
\* own, whatever was clicked meanwhile.
ScreenConsistent ==
    ~ isRefreshing /\ ~ error => \A p, q \in Parts : screen[p] = screen[q]

\* The rates on the cards are never above 100%: between two queries of a
\* refresh, and after one that threw, the overview and the feed may come from
\* different tables, but numerator and denominator are counted in the same one.
RatesWithinTotal == blockedRequests <= totalRequests /\ leakEvents <= totalRequests

\* A tab selected while a refresh is under way is ignored by the effect, but if
\* the user stays there, the page stays visible and refreshes no longer throw,
\* it is shown in the end.
NoMoreThrows == <>[][\A j \in Jobs : ~ Throws(j)]_dataVars
TabCatchesUp ==
    NoMoreThrows =>
        \A t \in Tabs : <>[](visible /\ activeTab = t) => <>[](resultsTab = t)
=============================================================================
