---------------------------- MODULE ChannelsPage ----------------------------
(***************************************************************************)
(* The channel page of the console (web/src/hooks/channels/                *)
(* useChannelsData.jsx and its components): the table of channels with its *)
(* filter and page number, the operations on its rows, and the dialog that *)
(* tests all models of a channel.                                          *)
(*                                                                         *)
(* The rows of the table are the query they answer. A handler runs with    *)
(* the state of the render it was clicked in: what it writes after an      *)
(* await is made of the rows and the page number of that time. Only refs   *)
(* (requestCounter, shouldStopBatchTestingRef) and the form are read live. *)
(* Page size, sorting, type tab and status filter are left out: a click    *)
(* sets them and the request carries them, as with the page number, but    *)
(* no answer sets them, so the last click alone decides.                   *)
(***************************************************************************)
EXTENDS Integers, FiniteSets, FiniteSetsExt

CONSTANTS
    Filters,   \* contents of the search form
    MaxPage,   \* bound: number of pages
    Slots,     \* bound: list and search requests in flight, numbers
    MaxLists,  \* bound: list requests over all
    NModels,   \* models of the channel under test
    Limit,     \* concurrencyLimit
    Loops      \* bound: batches of tests

NoFilter == "none"  \* the empty form

ASSUME ChannelsPageAssumption ==
    /\ NoFilter \in Filters /\ MaxPage \in Nat \ {0} /\ MaxLists \in Nat \ {0}
    /\ NModels \in Nat \ {0} /\ Limit \in Nat \ {0}

VARIABLES
    form,            \* values of the search form
    activePage,      \* page number; 0 if it is no number
    table,           \* the query whose rows are shown
    requestCounter,  \* number of the last list request
    reqs,            \* per slot: NoReq or a request in flight
    asked,           \* history: the query of the last request
    op,              \* an operation on rows in flight: NoOp or [kind, rows, page]
    loop,            \* per batch of tests: control point, next model, tests in flight, rows
    isBatchTesting,  \* the dialog shows a running batch
    shouldStop,      \* shouldStopBatchTestingRef.current
    results,         \* models with a test result
    restarted,       \* history: a batch was started while another one was running
    cause            \* history: what set the table and the page number apart

list == <<form, activePage, table, requestCounter, reqs, asked, op, cause>>
tests == <<loop, isBatchTesting, shouldStop, results, restarted>>
vars == <<list, tests>>

-----------------------------------------------------------------------------
Pages == 1..MaxPage
Models == 1..NModels
Query(f, p) == [filter |-> f, page |-> p]
NoReq == [kind |-> "none", n |-> 0, query |-> Query(NoFilter, 0), page |-> 0]
NoOp == [kind |-> "none", rows |-> Query(NoFilter, 0), page |-> 0]
Idle == [pc |-> "idle", next |-> 1, flight |-> {}, rows |-> Query(NoFilter, 0)]

InFlight == {s \in Slots : reqs[s] # NoReq}
Free == {s \in Slots \ InFlight : \A r \in Slots \ InFlight : s <= r}

(* The first load of the page is over. *)
Init ==
    /\ form = NoFilter /\ activePage = 1 /\ table = Query(NoFilter, 1) /\ requestCounter = 1
    /\ reqs = [s \in Slots |-> NoReq] /\ asked = Query(NoFilter, 1) /\ op = NoOp
    /\ loop = [l \in Loops |-> Idle] /\ isBatchTesting = FALSE /\ shouldStop = FALSE
    /\ results = {} /\ restarted = FALSE /\ cause = {}

-----------------------------------------------------------------------------
(* Requests for rows. *)

(* The server takes a page that is no number for page 1. *)
ServedPage(p) == IF p = 0 THEN 1 ELSE p

(* loadChannels, searchChannels and fetchChannelList: a request without a filter
   is numbered, a search is not. *)
Request(f, p) ==
    \E s \in Free :
        /\ f = NoFilter => requestCounter < MaxLists
        /\ requestCounter' = IF f = NoFilter THEN requestCounter + 1 ELSE requestCounter
        /\ reqs' = [reqs EXCEPT ![s] = [kind |-> IF f = NoFilter THEN "list" ELSE "search",
                                        n |-> requestCounter', query |-> Query(f, ServedPage(p)),
                                        page |-> p]]
        /\ asked' = Query(f, ServedPage(p))
        /\ cause' = cause \cup (IF \E r \in InFlight : reqs[r].kind = "search" \/ f # NoFilter
                                  THEN {"overlap"} ELSE {})
                         \cup (IF p = 0 THEN {"no number"} ELSE {})

(* mutant: the number of a request is not looked at *)
AppliesAny(r) == TRUE

(* An answer is applied unless a later list request has been made. *)
Applies(r) == r.kind = "list" => r.n = requestCounter

ReceiveRows(s) ==
    /\ s \in InFlight
    /\ reqs' = [reqs EXCEPT ![s] = NoReq]
    /\ \/ IF Applies(reqs[s])
            THEN /\ table' = reqs[s].query /\ activePage' = reqs[s].page
                 /\ UNCHANGED cause
            ELSE UNCHANGED <<table, activePage, cause>>
       \/ /\ cause' = IF Applies(reqs[s]) THEN cause \cup {"failed"} ELSE cause
          /\ UNCHANGED <<table, activePage>>
    /\ UNCHANGED <<form, requestCounter, asked, op, tests>>

-----------------------------------------------------------------------------
(* Handlers of the table. *)

(* Text in the form that has not been submitted *)
TypeFilter(f) ==
    /\ form' = f
    /\ UNCHANGED <<activePage, table, requestCounter, reqs, asked, op, cause, tests>>

(* handlePageChange; handlePageSizeChange goes to page 1 *)
handlePageChange(p) ==
    /\ activePage' = p
    /\ Request(form, p)
    /\ UNCHANGED <<form, table, op, tests>>

(* The search button keeps the page number until the answer comes. *)
SubmitSearch ==
    /\ Request(form, 1)
    /\ UNCHANGED <<form, activePage, table, op, tests>>

(* handleSearchGroupChange, applyPackagePoolFilter; resetSearchFilters with NoFilter *)
ChooseFilter(f) ==
    /\ form' = f /\ activePage' = 1
    /\ Request(f, 1)
    /\ UNCHANGED <<table, op, tests>>

(* refresh as the handler of its button gets the click event as its page. *)
RefreshButton ==
    /\ Request(form, 0)
    /\ UNCHANGED <<form, activePage, table, op, tests>>

(* manageChannel, manageTag and updateChannelBalance ("row"); batchSetChannelTag,
   batchUpdateChannelModelConfig, deleteAllDisabledChannels, fixChannelsAbilities,
   copySelectedChannel and submitTagEdit ("refresh"); batchDeleteChannels ("delete");
   batchTestSelectedChannels ("tests") *)
Operate(kind) ==
    /\ op = NoOp
    /\ op' = [kind |-> kind, rows |-> table, page |-> activePage]
    /\ UNCHANGED <<form, activePage, table, requestCounter, reqs, asked, cause, tests>>

(* setChannels of rows that a handler captured *)
WriteRows(rows) ==
    /\ table' = rows
    /\ cause' = IF rows # table THEN cause \cup {"old rows"} ELSE cause

(* The answer to an operation: nothing more after a failure. *)
OperationEnds ==
    /\ op # NoOp /\ op.kind # "again"
    /\ \/ op' = NoOp /\ UNCHANGED <<table, requestCounter, reqs, asked, cause>>
       \/ /\ op.kind = "row" /\ op' = NoOp /\ WriteRows(op.rows)
          /\ UNCHANGED <<requestCounter, reqs, asked>>
       \/ op.kind = "refresh" /\ op' = NoOp /\ Request(form, op.page) /\ UNCHANGED table
       \/ /\ op.kind = "delete" /\ op' = [op EXCEPT !.kind = "again"]
          /\ Request(form, op.page) /\ UNCHANGED table
    /\ UNCHANGED <<form, activePage, tests>>

(* batchTestSelectedChannels: each test that succeeds writes its response time into
   the rows of the click; the operation goes on. *)
SelectedTested ==
    /\ op.kind = "tests" /\ WriteRows(op.rows)
    /\ UNCHANGED <<form, activePage, requestCounter, reqs, asked, op, tests>>

(* batchDeleteChannels, 100 ms after its refresh: the page before, if the page of
   the click was not the first and its rows were none (rows are not counted here:
   with any rows it may happen or not, and at any time after the refresh began). *)
SecondRefresh ==
    /\ op.kind = "again" /\ op' = NoOp
    /\ \/ UNCHANGED <<requestCounter, reqs, asked, cause>>
       \/ op.page > 1 /\ Request(form, op.page - 1)
    /\ UNCHANGED <<form, activePage, table, tests>>

-----------------------------------------------------------------------------
(* The test dialog. *)

Running == {l \in Loops : loop[l].pc \notin {"idle", "done"}}

(* mutant: the last wave is not cut at the last model *)
WaveUncut(i) == i..(i + Limit - 1)

(* models.slice(i, i + concurrencyLimit) *)
Wave(i) == {m \in Models : m >= i /\ m < i + Limit}

(* The tests of the wave that begins with model i are started. *)
StartWave(l, i, rows) ==
    loop' = [loop EXCEPT ![l] = [pc |-> "wave", next |-> i + Limit, flight |-> Wave(i), rows |-> rows]]

(* finally *)
EndLoop(l) ==
    /\ loop' = [loop EXCEPT ![l] = [Idle EXCEPT !.pc = "done"]]
    /\ isBatchTesting' = FALSE

(* batchTestModels up to the first wave *)
batchTestModels(l) ==
    /\ loop[l] = Idle /\ ~isBatchTesting
    /\ isBatchTesting' = TRUE /\ shouldStop' = FALSE /\ results' = {}
    /\ StartWave(l, 1, table)
    /\ restarted' = (restarted \/ Running # {})
    /\ UNCHANGED list

(* testChannel: the result is kept, and a success writes the response time into
   the rows. Its own checks of the stop flag also ask for the isBatchTesting of
   the click, which is always false. *)
testChannel(l, m) ==
    /\ m \in loop[l].flight
    /\ loop' = [loop EXCEPT ![l].flight = @ \ {m}]
    /\ results' = results \cup {m}
    /\ WriteRows(loop[l].rows) \/ UNCHANGED <<table, cause>>
    /\ UNCHANGED <<form, activePage, requestCounter, reqs, asked, op, isBatchTesting, shouldStop,
                   restarted>>

(* All tests of a wave are over: stop, wait 100 ms, or wait 300 ms for the end. *)
WaveOver(l) ==
    /\ loop[l].pc = "wave" /\ loop[l].flight = {}
    /\ IF shouldStop THEN EndLoop(l)
       ELSE /\ loop' = [loop EXCEPT ![l].pc = IF loop[l].next <= NModels THEN "gap" ELSE "tail"]
            /\ UNCHANGED isBatchTesting
    /\ UNCHANGED <<list, shouldStop, results, restarted>>

GapOver(l) ==
    /\ loop[l].pc = "gap"
    /\ IF shouldStop THEN EndLoop(l)
       ELSE StartWave(l, loop[l].next, loop[l].rows) /\ UNCHANGED isBatchTesting
    /\ UNCHANGED <<list, shouldStop, results, restarted>>

TailOver(l) ==
    /\ loop[l].pc = "tail"
    /\ EndLoop(l)
    /\ UNCHANGED <<list, shouldStop, results, restarted>>

(* mutant: the batch goes on behind the closed dialog *)
handleCloseModalOnly ==
    /\ isBatchTesting' = FALSE
    /\ UNCHANGED <<list, loop, shouldStop, results, restarted>>

(* handleCloseModal, also the button that stops the tests *)
handleCloseModal ==
    /\ shouldStop' = (shouldStop \/ isBatchTesting)
    /\ isBatchTesting' = FALSE
    /\ UNCHANGED <<list, loop, results, restarted>>

-----------------------------------------------------------------------------
TableStep ==
    \/ \E s \in Slots : ReceiveRows(s)
    \/ \E f \in Filters : TypeFilter(f) \/ ChooseFilter(f)
    \/ \E p \in Pages : handlePageChange(p)
    \/ SubmitSearch \/ RefreshButton
    \/ \E kind \in {"row", "refresh", "delete", "tests"} : Operate(kind)
    \/ OperationEnds \/ SelectedTested \/ SecondRefresh

LoopStep(l) == (\E m \in Models : testChannel(l, m)) \/ WaveOver(l) \/ GapOver(l) \/ TailOver(l)

Next == TableStep \/ handleCloseModal \/ \E l \in Loops : LoopStep(l) \/ batchTestModels(l)

Spec == Init /\ [][Next]_vars

-----------------------------------------------------------------------------
(* Properties. *)

Queries == [filter : Filters, page : 0..MaxPage]

(* Type invariant; the waves of a batch test only models there are. *)
TypeOK ==
    /\ form \in Filters /\ activePage \in 0..MaxPage /\ table \in Queries /\ asked \in Queries
    /\ requestCounter \in 1..MaxLists
    /\ reqs \in [Slots -> [kind : {"none", "list", "search"}, n : Nat, query : Queries, page : 0..MaxPage]]
    /\ op \in [kind : {"none", "row", "refresh", "delete", "again", "tests"}, rows : Queries, page : 0..MaxPage]
    /\ loop \in [Loops -> [pc : {"idle", "wave", "gap", "tail", "done"}, next : 1..(NModels + Limit),
                           flight : SUBSET Models, rows : Queries]]
    /\ isBatchTesting \in BOOLEAN /\ shouldStop \in BOOLEAN /\ restarted \in BOOLEAN
    /\ results \subseteq Models

(* Whatever order answers arrive in, when none is missing the table holds the rows
   of the last request and the page number is theirs. What breaks it (cause): a
   search, whose late answer is applied as well; a failed request, after which
   the page number is new and the rows are old; rows that an operation or a test
   captured before they changed; the refresh button. *)
RowsMatch ==
    (cause = {} /\ InFlight = {}) => table = asked /\ activePage = table.page

(* A batch of tests can be stopped from the screen as long as it runs, never has
   more than Limit tests in flight, and its summary counts every model; unless it
   was started while the tests of a stopped one were still in flight, which lets
   the stopped one go on. *)
BatchUnderControl ==
    ~restarted =>
        /\ Cardinality(UNION {loop[l].flight : l \in Loops}) <= Limit
        /\ isBatchTesting <=> (Running # {} /\ ~shouldStop)
        /\ \A l \in Loops : loop[l].pc = "tail" => results = Models

=============================================================================
