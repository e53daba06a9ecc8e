---------------------------- MODULE ChannelTable ----------------------------
(***************************************************************************)
(* The table of channels of the administration page: loadChannels,         *)
(* searchChannels, refresh, the pager, tabs, switches and form, and the    *)
(* operations on rows of hooks/channels/useChannelsData.jsx.               *)
(*                                                                         *)
(* Every answer is awaited by code that has captured the state of the      *)
(* moment of its click.  Loads are numbered, and only the newest may       *)
(* change the table; searches are not, and what an operation does after    *)
(* its answer uses the rows, the page and the filters it has captured.     *)
(* Rows are abstracted to the view they were asked for.                    *)
(***************************************************************************)
EXTENDS Integers, FiniteSets

CONSTANTS
    Pages,       \* pages of the pager: 1 .. n
    Filters,     \* combinations of tab, status, tag mode, page size and order
    MaxQueries,  \* bound: lists asked for
    MaxOps,      \* bound: operations on rows
    MaxFaults    \* bound: requests that are refused or fail

ASSUME PagesAssumption == Pages \subseteq Nat \ {0} /\ 1 \in Pages

\* The Refresh button hands its click event to refresh as the page.
EventPage == 0

\* What the server makes of p: anything that is no number is page 1.
ServerPage(p) == IF p = EventPage THEN 1 ELSE p

VARIABLES
    activePage, filter, form, \* the controls; the search form is empty or filled
    channels,        \* the view whose rows are on display, as a set of at most one
    loading, searching,
    requestCounter,  \* number of the newest load
    pending,         \* lists that are awaited
    queries,         \* lists asked for so far
    ops,             \* operations that are awaited, numbered
    timer,           \* what the timer of Reset has captured, as a set
    faults,
    failed,          \* history: a request failed without an answer
    clean            \* history: nothing has crossed the latest choice of a view

controls == <<activePage, filter, form>>
list == <<channels, loading, searching, requestCounter, pending, queries>>
vars == <<controls, list, ops, timer, faults, failed, clean>>

AllPages == Pages \cup {EventPage}
Forms == {"empty", "filled"}
Views == [page : AllPages, filter : Filters, form : Forms]
Kinds == {"load", "search"}

\* A list that is awaited.  finally: its end clears searching; after: its answer clears
\* loading, for code that awaits it.
Requests == [kind : Kinds, view : Views, id : Nat, finally : BOOLEAN, after : BOOLEAN]

OpKinds == {"row", "delete", "batch", "other"}
Ops == [n : 1 .. MaxOps, kind : OpKinds, rows : SUBSET Views, page : AllPages, filter : Filters]

Init ==
    /\ activePage = 1 /\ filter \in Filters /\ form = "empty"
    /\ channels = {} /\ loading = TRUE /\ searching = FALSE
    /\ requestCounter = 1 /\ queries = 1
    /\ pending = {[kind |-> "load", view |-> [page |-> 1, filter |-> filter, form |-> "empty"],
                   id |-> 1, finally |-> FALSE, after |-> FALSE]}
    /\ ops = {} /\ timer = {} /\ faults = 0 /\ failed = FALSE /\ clean = TRUE

\* Bound on the clicks; an operation and the timer of Reset ask for one list each.
Room == queries + Cardinality(ops) + Cardinality(timer) < MaxQueries

-----------------------------------------------------------------------------
(* Asking for a list.                                                      *)

\* The GET of loadChannels, for a caller that awaits it.
SendLoad(page, f, finally, after) ==
    /\ requestCounter' = requestCounter + 1
    /\ pending' = pending \cup
         {[kind |-> "load", view |-> [page |-> page, filter |-> f, form |-> "empty"],
           id |-> requestCounter + 1, finally |-> finally, after |-> after]}

\* The GET of searchChannels; it has no number.
SendSearch(page, f, after) ==
    /\ pending' = pending \cup
         {[kind |-> "search", view |-> [page |-> page, filter |-> f, form |-> "filled"],
           id |-> 0, finally |-> TRUE, after |-> after]}
    /\ UNCHANGED requestCounter

\* loadChannels.
LoadChannels(page, f) ==
    /\ queries' = queries + 1
    /\ loading' = TRUE
    /\ IF form = "filled" THEN SendSearch(page, f, TRUE) /\ searching' = TRUE
       ELSE SendLoad(page, f, FALSE, FALSE) /\ UNCHANGED searching
    /\ UNCHANGED channels

\* searchChannels.
SearchChannels(page, f) ==
    /\ queries' = queries + 1
    /\ searching' = TRUE
    /\ IF form = "filled" THEN SendSearch(page, f, FALSE) /\ UNCHANGED loading
       ELSE SendLoad(page, f, TRUE, FALSE) /\ loading' = TRUE
    /\ UNCHANGED channels

\* refresh; batchDeleteChannels awaits it and then clears loading.
Refresh(page, f, after) ==
    /\ queries' = queries + 1
    /\ IF form = "filled" THEN SendSearch(page, f, after) /\ searching' = TRUE /\ UNCHANGED loading
       ELSE SendLoad(page, f, FALSE, after) /\ loading' = TRUE /\ UNCHANGED searching

\* Is a choice of a view the last word?  Older loads are dropped; searches, operations
\* and the timer are not.
Undisturbed ==
    /\ ops = {} /\ timer = {}
    /\ IF form = "filled" THEN pending = {} ELSE \A q \in pending : q.kind = "load"

-----------------------------------------------------------------------------
(* The controls.                                                           *)

\* handlePageChange.
HandlePageChange(page) ==
    /\ Room /\ page # activePage
    /\ activePage' = page
    /\ Refresh(page, filter, FALSE)
    /\ clean' = Undisturbed
    /\ UNCHANGED <<filter, form, channels, ops, timer, faults, failed>>

\* handlePageSizeChange.
HandlePageSizeChange(f) ==
    /\ Room /\ f # filter
    /\ activePage' = 1 /\ filter' = f
    /\ Refresh(1, f, FALSE)
    /\ clean' = Undisturbed
    /\ UNCHANGED <<form, channels, ops, timer, faults, failed>>

\* The tabs, the status and the tag mode.
Narrow(f) ==
    /\ Room /\ f # filter
    /\ activePage' = 1 /\ filter' = f
    /\ LoadChannels(1, f)
    /\ clean' = Undisturbed
    /\ UNCHANGED <<form, ops, timer, faults, failed>>

\* The switch of the order.
Sort(f) ==
    /\ Room /\ f # filter
    /\ filter' = f
    /\ Refresh(activePage, f, FALSE)
    /\ clean' = (Undisturbed /\ activePage # EventPage)
    /\ UNCHANGED <<activePage, form, channels, ops, timer, faults, failed>>

\* The form is edited; nothing is asked for yet.
EditForm ==
    /\ form' \in Forms \ {form}
    /\ clean' = FALSE
    /\ UNCHANGED <<activePage, filter, list, ops, timer, faults, failed>>

\* The form is submitted.  With an empty form the first page is loaded and the pager
\* stays where it is.
Submit ==
    /\ Room
    /\ SearchChannels(1, filter)
    /\ clean' = (Undisturbed /\ (form = "filled" \/ activePage = 1))
    /\ UNCHANGED <<controls, ops, timer, faults, failed>>

\* The Refresh button.
RefreshButton ==
    /\ Room
    /\ Refresh(EventPage, filter, FALSE)
    /\ clean' = (Undisturbed /\ form = "empty" /\ activePage = 1)
    /\ UNCHANGED <<controls, channels, ops, timer, faults, failed>>

\* The Reset button empties the form and refreshes 100 ms later.
Reset ==
    /\ Room /\ timer = {}
    /\ form' = "empty"
    /\ timer' = {[page |-> activePage, filter |-> filter]}
    /\ clean' = FALSE
    /\ UNCHANGED <<activePage, filter, list, ops, faults, failed>>

ResetTimer ==
    /\ \E c \in timer :
        /\ Refresh(c.page, c.filter, FALSE)
        /\ clean' = (/\ ops = {} /\ form = "empty" /\ c.page = activePage /\ c.filter = filter
                     /\ c.page # EventPage /\ \A q \in pending : q.kind = "load")
    /\ timer' = {}
    /\ UNCHANGED <<controls, channels, ops, faults, failed>>

-----------------------------------------------------------------------------
(* Operations on rows.                                                     *)

\* A click captures rows, page and filters.  "row": manageChannel, manageTag and
\* updateChannelProperty; "delete": the menu of a row; "batch": batchDeleteChannels;
\* "other": an operation that only refreshes.
StartOp(kind) ==
    /\ Room /\ Cardinality(ops) < MaxOps /\ channels # {}
    /\ \E n \in 1 .. MaxOps :
        /\ \A o \in ops : o.n # n
        /\ ops' = ops \cup {[n |-> n, kind |-> kind, rows |-> channels, page |-> activePage,
                             filter |-> filter]}
    /\ loading' = (loading \/ kind = "batch")
    /\ clean' = FALSE
    /\ UNCHANGED <<controls, channels, searching, requestCounter, pending, queries, timer,
                   faults, failed>>

\* Its answer.  After a deletion the rows are the captured ones, never none, so the
\* step back to the page before is not taken.
OpDone(o) ==
    /\ o \in ops /\ ops' = ops \ {o}
    /\ channels' = IF o.kind \in {"row", "delete"} THEN o.rows ELSE channels
    /\ IF o.kind = "row" THEN UNCHANGED <<loading, searching, requestCounter, pending, queries>>
       ELSE Refresh(o.page, o.filter, o.kind = "batch")
    /\ clean' = FALSE
    /\ UNCHANGED <<controls, timer, faults, failed>>

\* The server refuses; a deletion refreshes all the same.
OpRefused(o) ==
    /\ faults < MaxFaults /\ faults' = faults + 1
    /\ o \in ops /\ ops' = ops \ {o}
    /\ IF o.kind = "delete" THEN Refresh(o.page, o.filter, FALSE)
       ELSE /\ loading' = (loading /\ o.kind # "batch")
            /\ UNCHANGED <<searching, requestCounter, pending, queries>>
    /\ clean' = FALSE
    /\ UNCHANGED <<controls, channels, timer, failed>>

\* No answer: the rest of the operation is skipped.
OpFails(o) ==
    /\ faults < MaxFaults /\ faults' = faults + 1 /\ failed' = TRUE
    /\ o \in ops /\ ops' = ops \ {o}
    /\ UNCHANGED <<controls, list, timer, clean>>

-----------------------------------------------------------------------------
(* Answers to lists.  Equal GETs share one request (helpers/api.js).       *)

\* Mutant of Applies: any load may change the table.
AppliesAlways(q) == TRUE

\* May the answer change the table?
Applies(q) == q.kind = "search" \/ q.id = requestCounter

\* Mutant of ClearsLoading: a load that was dropped clears the sign, the newest does not.
ClearsLoadingDropped(q) == q.after \/ (q.kind = "load" /\ ~Applies(q))

\* Does the answer clear loading?
ClearsLoading(q) == q.after \/ (q.kind = "load" /\ Applies(q))

Awaiting(kind, view) == {q \in pending : q.kind = kind /\ q.view = view}

Answer(kind, view) ==
    LET shared == Awaiting(kind, view)
        applied == \E q \in shared : Applies(q) IN
    /\ shared # {}
    /\ pending' = pending \ shared
    /\ channels' = IF applied THEN {[view EXCEPT !.page = ServerPage(@)]} ELSE channels
    /\ activePage' = IF kind = "search" THEN view.page ELSE activePage
    /\ loading' = (loading /\ \A q \in shared : ~ClearsLoading(q))
    /\ searching' = (searching /\ \A q \in shared : ~q.finally)
    /\ UNCHANGED <<filter, form, requestCounter, queries, ops, timer, faults, failed, clean>>

\* An answer that carries an error.
AnswerRefused(kind, view) ==
    LET shared == Awaiting(kind, view) IN
    /\ faults < MaxFaults /\ faults' = faults + 1
    /\ shared # {}
    /\ pending' = pending \ shared
    /\ loading' = (loading /\ \A q \in shared : ~ClearsLoading(q))
    /\ searching' = (searching /\ \A q \in shared : ~q.finally)
    /\ clean' = (clean /\ \A q \in shared : ~Applies(q))
    /\ UNCHANGED <<controls, channels, requestCounter, queries, ops, timer, failed>>

\* No answer: loading stays on, the finally of a search runs.
AnswerFails(kind, view) ==
    LET shared == Awaiting(kind, view) IN
    /\ faults < MaxFaults /\ faults' = faults + 1 /\ failed' = TRUE
    /\ shared # {}
    /\ pending' = pending \ shared
    /\ searching' = (searching /\ \A q \in shared : ~q.finally)
    /\ clean' = (clean /\ \A q \in shared : ~Applies(q))
    /\ UNCHANGED <<controls, channels, loading, requestCounter, queries, ops, timer>>

Answers == \E kind \in Kinds, view \in Views :
    Answer(kind, view) \/ AnswerRefused(kind, view) \/ AnswerFails(kind, view)

OpAnswers == \E o \in ops : OpDone(o) \/ OpRefused(o) \/ OpFails(o)

Next ==
    \/ \E page \in Pages : HandlePageChange(page)
    \/ \E f \in Filters : HandlePageSizeChange(f) \/ Narrow(f) \/ Sort(f)
    \/ EditForm \/ Submit \/ RefreshButton \/ Reset \/ ResetTimer
    \/ \E kind \in OpKinds : StartOp(kind)
    \/ OpAnswers
    \/ Answers

\* Requests are answered or fail, and timers fire.  Nothing is assumed of the user.
Fairness == WF_vars(Answers) /\ WF_vars(OpAnswers) /\ WF_vars(ResetTimer)

Spec == Init /\ [][Next]_vars /\ Fairness

-----------------------------------------------------------------------------
(* Properties.                                                             *)

TypeOK ==
    /\ activePage \in AllPages /\ filter \in Filters /\ form \in Forms
    /\ channels \in SUBSET Views /\ loading \in BOOLEAN /\ searching \in BOOLEAN
    /\ requestCounter \in Nat /\ queries \in Nat
    /\ pending \in SUBSET Requests /\ ops \in SUBSET Ops
    /\ timer \in SUBSET [page : AllPages, filter : Filters]
    /\ faults \in Nat /\ failed \in BOOLEAN /\ clean \in BOOLEAN

\* The view that pager, filters and form name.
Selected == [page |-> activePage, filter |-> filter, form |-> form]

\* When every list has been answered, the rows on display are those that pager, filters
\* and form name, however many loads were under way at once and in whatever order they
\* were answered, unless a search, an operation or a failure has crossed the choice.
ShowsSelection ==
    clean /\ pending = {} => channels = {Selected}

\* The table does not show its spinner for ever, although answers that are dropped do
\* not switch it off; only a request that fails without an answer can leave it on.
SpinnerEnds == loading \/ searching ~> failed \/ ~(loading \/ searching)
=============================================================================
