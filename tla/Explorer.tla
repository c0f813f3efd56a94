------------------------------ MODULE Explorer ------------------------------
(***************************************************************************)
(* The request explorer of the dashboard (apps/analytics-ui/app/page.tsx): *)
(* the search box, the selectors, the pages of the table, the incident     *)
(* feed and the drawer, and the settings that localStorage keeps from one  *)
(* session of the page to the next.                                        *)
(*                                                                         *)
(* The page is opened and closed any number of times, in one window.  When *)
(* it opens, its effects run in the order in which they are written: the   *)
(* first reads the kept settings but only queues them for the next render, *)
(* the third writes the settings of this render, which are the defaults.   *)
(* The next render, and the effect that writes what it shows, are steps of *)
(* their own: a click, or the end of the page, may come before either.     *)
(*                                                                         *)
(* A click's own render and effects are one step, as React does them.  A   *)
(* row is a model value; what a search text or a selector makes of it is   *)
(* given by constants.                                                     *)
(***************************************************************************)
EXTENDS Integers, Sequences, SequencesExt

CONSTANTS
    Rows,          \* the events the decision feed may list, numbered by time
    Actions, Tags,
    ActionOf,      \* each row's action
    TagOf,         \* each row's pii_tag
    Needles,       \* the search texts, "" aside
    Hits,          \* the rows each of them is found in: id, user or action
    PageSizes, DefaultSize,
    FeedLimit,     \* rows the decision feed returns
    IncidentLimit, \* rows the incident feed shows
    NoRow

Fields == {"action", "severity", "rowsPerPage", "requestFilter"}

\* What each setting may be: the options of its selector, or any text.
Options ==
    [f \in Fields |-> CASE f = "action" -> Actions \cup {"all"}
                        [] f = "severity" -> Tags \cup {"all"}
                        [] f = "rowsPerPage" -> PageSizes
                        [] f = "requestFilter" -> Needles \cup {""}]

Defaults ==
    [f \in Fields |-> CASE f \in {"action", "severity"} -> "all"
                        [] f = "rowsPerPage" -> DefaultSize
                        [] f = "requestFilter" -> ""]

ASSUME ExplorerAssumption ==
    /\ Rows \subseteq Nat
    /\ ActionOf \in [Rows -> Actions] /\ TagOf \in [Rows -> Tags]
    /\ Hits \in [Needles -> SUBSET Rows] /\ "" \notin Needles
    /\ PageSizes \subseteq Nat \ {0} /\ DefaultSize \in PageSizes
    /\ FeedLimit \in Nat /\ IncidentLimit \in Nat
    /\ NoRow \notin Rows

VARIABLES
    strict,   \* the development server runs the effects of a new page twice
    session,  \* "closed", "mounted" (settings queued for the next render),
              \* "rendered" (to be written) or "settled"
    settings, \* filterAction, filterSeverity, rowsPerPage, requestFilter
    read,     \* what the first effect has read from localStorage
    queued,   \* the fields of it that wait for the next render
    stored,   \* the item in localStorage, or NoItem
    page, decisionRows, selectedRequest,
    chosen,   \* history: what the user has last chosen for each setting
    cutShort  \* history: the page was once closed before it had settled

kept == <<settings, read, queued, stored, chosen>>
table == <<page, decisionRows, selectedRequest>>
vars == <<strict, session, kept, table, cutShort>>

NoItem == <<>>
Init ==
    /\ strict \in BOOLEAN
    /\ session = "closed"
    /\ settings = Defaults /\ read = Defaults /\ queued = {}
    /\ stored = NoItem
    /\ page = 1 /\ decisionRows = <<>> /\ selectedRequest = NoRow
    /\ chosen = Defaults /\ cutShort = FALSE

-----------------------------------------------------------------------------
\* The rows that pass the search text and the two selectors.
Matches(r) ==
    /\ settings["requestFilter"] # "" => r \in Hits[settings["requestFilter"]]
    /\ settings["action"] # "all" => ActionOf[r] = settings["action"]
    /\ settings["severity"] # "all" => TagOf[r] = settings["severity"]

\* Array.filter; it is SelectSeq, in a form that can be reasoned about.
filteredDecisionRows ==
    LET upTo[n \in 0..Len(decisionRows)] ==
            IF n = 0 THEN <<>>
            ELSE IF Matches(decisionRows[n]) THEN Append(upTo[n - 1], decisionRows[n])
            ELSE upTo[n - 1]
    IN  upTo[Len(decisionRows)]

Matching == Len(filteredDecisionRows)

AtLeast(m, n) == IF n < m THEN m ELSE n
AtMost(m, n) == IF n > m THEN m ELSE n

rowsPerPage == settings["rowsPerPage"]
totalPages == AtLeast(1, (Matching + rowsPerPage - 1) \div rowsPerPage)

\* The rows of a page: slice(start, start + rowsPerPage), where start counts
\* from 0.
PageStartsLate(p) == p * rowsPerPage
PageStart(p) == (p - 1) * rowsPerPage
PageRows(p) ==
    SubSeq(filteredDecisionRows, PageStart(p) + 1,
           AtMost(Matching, PageStart(p) + rowsPerPage))

\* What "Export CSV" writes, whatever page is shown.
Export == filteredDecisionRows

\* The newest rows that are not "allow", whatever the filters.
IsIncident(r) == ActionOf[r] # "allow"
incidentFeed ==
    LET all == SelectSeq(decisionRows, IsIncident)
    IN  SubSeq(all, 1, AtMost(IncidentLimit, Len(all)))

-----------------------------------------------------------------------------
\* The first effect queues the fields that are not falsy: of the values that
\* can be kept only an empty search text is.
Truthy(f, s) == f = "requestFilter" => s[f] # ""
\* What two readings queue, the second after the first.
Then(first, second) == [f \in Fields |-> IF Truthy(f, second) THEN second[f] ELSE first[f]]

\* The effects of a new page: read, then write the defaults; in strict mode,
\* both again, so that the second reading finds what the first writing left.
ReadItem == IF stored = NoItem THEN Defaults ELSE stored
ReadAfterWrite == Defaults
ReadAtMount == IF strict THEN Then(ReadItem, Defaults) ELSE ReadItem

Open ==
    /\ session = "closed"
    /\ session' = "mounted"
    /\ read' = ReadAtMount
    /\ queued' = {f \in Fields : (stored # NoItem \/ strict) /\ Truthy(f, ReadAtMount)}
    /\ stored' = Defaults
    /\ UNCHANGED <<strict, settings, table, chosen, cutShort>>

\* The next render shows what was queued.  If this changes a setting, the
\* effect that writes the settings is due.
QueueKept == queued' = queued
QueueTaken == queued' = {}

Render ==
    /\ session = "mounted"
    /\ settings' = [f \in Fields |-> IF f \in queued THEN read[f] ELSE settings[f]]
    /\ QueueTaken
    /\ session' = IF settings' = settings THEN "settled" ELSE "rendered"
    /\ UNCHANGED <<strict, read, stored, table, chosen, cutShort>>

Persist ==
    /\ session = "rendered"
    /\ stored' = settings
    /\ session' = "settled"
    /\ UNCHANGED <<strict, settings, read, queued, table, chosen, cutShort>>

\* The window is closed or loaded again; what was not written is lost.
Close ==
    /\ session # "closed"
    /\ session' = "closed"
    /\ settings' = Defaults /\ read' = Defaults /\ queued' = {}
    /\ page' = 1 /\ decisionRows' = <<>> /\ selectedRequest' = NoRow
    /\ cutShort' = (cutShort \/ session # "settled")
    /\ chosen' = IF cutShort' THEN Defaults ELSE chosen
    /\ UNCHANGED <<strict, stored>>

-----------------------------------------------------------------------------
\* The user sets one of the settings.  This update comes after a queued one of
\* the same field and overrides it; effects that are due run first.
Set(f, v) ==
    /\ session # "closed"
    /\ v # settings[f]
    /\ settings' = [settings EXCEPT ![f] = v]
    /\ stored' = settings'
    /\ queued' = queued \ {f}
    /\ session' = IF session = "rendered" THEN "settled" ELSE session
    /\ chosen' = IF cutShort THEN chosen ELSE [chosen EXCEPT ![f] = v]
    /\ UNCHANGED <<strict, read, cutShort>>

\* The selectors go back to the first page; the search box does not.
BackToFirstPageMissing == page' = page
BackToFirstPage == page' = 1

Select(f, v) ==
    /\ f # "requestFilter"
    /\ Set(f, v)
    /\ BackToFirstPage
    /\ UNCHANGED <<decisionRows, selectedRequest>>

Search(needle) == Set("requestFilter", needle) /\ UNCHANGED table

PrevPage ==
    /\ session # "closed"
    /\ page > 1
    /\ page' = AtLeast(1, page - 1)
    /\ UNCHANGED <<strict, session, kept, decisionRows, selectedRequest, cutShort>>

NextPage ==
    /\ session # "closed"
    /\ page < totalPages
    /\ page' = AtMost(totalPages, page + 1)
    /\ UNCHANGED <<strict, session, kept, decisionRows, selectedRequest, cutShort>>

\* A refresh brings another feed: the newest rows of another table.  The first
\* one takes several fetches, which the page's first renders do not wait for.
Feeds == {s \in UNION {[1..n -> Rows] : n \in 0..FeedLimit} :
             \A i, j \in DOMAIN s : i < j => s[i] > s[j]}

Refresh(feed) ==
    /\ session = "settled"
    /\ decisionRows' = feed
    /\ UNCHANGED <<strict, session, kept, page, selectedRequest, cutShort>>

\* A row of the table or of the incident feed is opened in the drawer, which
\* keeps it, whatever becomes of the feed, until another is opened or it is
\* closed: by its button or the backdrop, or by Escape.
Drawer(row) ==
    /\ session # "closed"
    /\ selectedRequest' = row
    /\ UNCHANGED <<strict, session, kept, page, decisionRows, cutShort>>

Listed(row, s) == \E i \in DOMAIN s : s[i] = row
OpenRow == \E row \in Rows : Listed(row, PageRows(page)) /\ Drawer(row)
OpenIncident == \E row \in Rows : Listed(row, incidentFeed) /\ Drawer(row)
CloseDrawer == selectedRequest # NoRow /\ Drawer(NoRow)
Escape == Drawer(NoRow)

Next ==
    \/ Open \/ Render \/ Persist \/ Close
    \/ \E f \in Fields : \E v \in Options[f] : Select(f, v)
    \/ \E needle \in Needles \cup {""} : Search(needle)
    \/ PrevPage \/ NextPage
    \/ \E feed \in Feeds : Refresh(feed)
    \/ OpenRow \/ OpenIncident \/ CloseDrawer \/ Escape

Spec == Init /\ [][Next]_vars

-----------------------------------------------------------------------------
\* The types; nothing is queued outside the first render, what a page shows is
\* what it has written except between a render and its effect, and a page has no
\* rows, and is on its first page, until it has settled.
SettingsOK(s) == DOMAIN s = Fields /\ \A f \in Fields : s[f] \in Options[f]

TypeOK ==
    /\ strict \in BOOLEAN /\ cutShort \in BOOLEAN
    /\ session \in {"closed", "mounted", "rendered", "settled"}
    /\ SettingsOK(settings) /\ SettingsOK(read) /\ SettingsOK(chosen)
    /\ stored = NoItem \/ SettingsOK(stored)
    /\ queued \subseteq Fields /\ (queued # {} => session = "mounted")
    /\ session \in {"mounted", "settled"} => stored = settings
    /\ page \in Nat \ {0} /\ decisionRows \in Seq(Rows)
    /\ selectedRequest \in Rows \cup {NoRow}
    /\ session # "settled" => page = 1 /\ decisionRows = <<>>
    /\ session = "closed" => settings = Defaults

\* Although each opening of the page first writes the defaults over the kept
\* settings, the page that has settled shows what the user last chose, in this
\* session or an earlier one: unless a page was closed before it had settled.
\* With the development server only the search text survives.
SettingsSurvive ==
    session = "settled" /\ ~ cutShort =>
        \A f \in Fields : (strict => f = "requestFilter") => settings[f] = chosen[f]

\* The pages of the table together are what the export holds, in its order,
\* each row once; all but the last are full; and the page shown is empty only
\* if no row matches or it is behind the last.
PagesCover ==
    /\ FlattenSeq([p \in 1..totalPages |-> PageRows(p)]) = Export
    /\ \A p \in 1..totalPages - 1 : Len(PageRows(p)) = rowsPerPage
    /\ PageRows(page) = <<>> => Export = <<>> \/ page > totalPages

\* The page shown falls behind the last page only when the rows or the search
\* text change, neither of which leads back to the first page; never by a
\* selector, the buttons, or kept settings that are restored.
PageLeftBehind ==
    [][page <= totalPages /\ (page > totalPages)' =>
          \/ decisionRows' # decisionRows
          \/ settings'["requestFilter"] # settings["requestFilter"]]_vars
=============================================================================
