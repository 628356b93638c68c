------------------------- MODULE ChannelsPageProofs -------------------------
(***************************************************************************)
(* Proofs about ChannelsPage, for any filters, pages, requests in flight,  *)
(* batches and models: type correctness, that the table ends with the rows *)
(* of the last request (RowsMatch), and that a batch of tests stays under  *)
(* the control of the screen (BatchUnderControl).                          *)
(***************************************************************************)
EXTENDS ChannelsPage, FiniteSetTheorems, TLAPS

ReqType == [kind : {"none", "list", "search"}, n : Nat, query : Queries, page : 0..MaxPage]
OpType == [kind : {"none", "row", "refresh", "delete", "again", "tests"}, rows : Queries, page : 0..MaxPage]
LoopType == [pc : {"idle", "wave", "gap", "tail", "done"}, next : 1..(NModels + Limit),
             flight : SUBSET Models, rows : Queries]

ListType ==
    /\ form \in Filters /\ activePage \in 0..MaxPage /\ table \in Queries /\ asked \in Queries
    /\ requestCounter \in 1..MaxLists
    /\ reqs \in [Slots -> ReqType] /\ op \in OpType

(* The requests whose answer will be applied. *)
Live == {s \in InFlight : Applies(reqs[s])}

(* Numbers of requests are given once; as long as nothing went wrong, what will be
   applied is the last request, and when there is no such request it has been
   applied. A search is alone in flight. *)
RowsInv ==
    /\ \A s \in InFlight : reqs[s].kind \in {"list", "search"} /\ reqs[s].n <= requestCounter
    /\ cause = {} =>
         /\ \A s \in Live : reqs[s].query = asked /\ reqs[s].page = asked.page
         /\ Live = {} => table = asked /\ activePage = asked.page

TestType ==
    /\ loop \in [Loops -> LoopType] /\ isBatchTesting \in BOOLEAN /\ shouldStop \in BOOLEAN
    /\ restarted \in BOOLEAN /\ results \subseteq Models

(* One batch: its tests in flight are of one wave, and every model before the next
   wave has a result or is in flight. *)
LoopInv(l) ==
    /\ loop[l].pc = "wave" => loop[l].flight \subseteq Wave(loop[l].next - Limit)
    /\ loop[l].pc # "wave" => loop[l].flight = {}
    /\ loop[l].pc = "gap" => loop[l].next <= NModels
    /\ loop[l].pc = "tail" => loop[l].next > NModels

BatchInv ==
    /\ \A l \in Loops : LoopInv(l)
    /\ ~restarted =>
         /\ \A l, k \in Running : l = k
         /\ isBatchTesting <=> (Running # {} /\ ~shouldStop)
         /\ \A l \in Running : \A m \in Models :
              m < loop[l].next => m \in results \cup loop[l].flight

(* The inductive invariant *)
PageInv == ListType /\ RowsInv /\ TestType /\ BatchInv

(* It holds when the page has been loaded. *)
LEMMA InitInv == Init => PageInv
<1> SUFFICES ASSUME Init PROVE PageInv
  OBVIOUS
<1> USE ChannelsPageAssumption
<1>1. Query(NoFilter, 0) \in Queries /\ Query(NoFilter, 1) \in Queries
  BY DEF Query, Queries
<1>2. ListType
  BY <1>1 DEF Init, ListType, ReqType, OpType, NoReq, NoOp
<1>3. InFlight = {}
  BY DEF Init, InFlight
<1>4. RowsInv
  BY <1>3 DEF Init, RowsInv, Live, Query
<1>5. Idle \in LoopType
  BY <1>1 DEF Idle, LoopType
<1>6. TestType
  BY <1>5 DEF Init, TestType
<1>7. BatchInv
  BY DEF Init, BatchInv, LoopInv, Running, Idle
<1> QED BY <1>2, <1>4, <1>6, <1>7 DEF PageInv

-----------------------------------------------------------------------------
(* The table *)

(* A new request keeps the types. *)
LEMMA RequestType ==
  ASSUME ListType, NEW f \in Filters, NEW p \in 0..MaxPage, Request(f, p)
  PROVE  /\ reqs' \in [Slots -> ReqType] /\ requestCounter' \in 1..MaxLists /\ asked' \in Queries
         /\ requestCounter' >= requestCounter
<1> USE ChannelsPageAssumption
<1>1. PICK s \in Free :
        /\ f = NoFilter => requestCounter < MaxLists
        /\ requestCounter' = IF f = NoFilter THEN requestCounter + 1 ELSE requestCounter
        /\ reqs' = [reqs EXCEPT ![s] = [kind |-> IF f = NoFilter THEN "list" ELSE "search",
                                        n |-> requestCounter', query |-> Query(f, ServedPage(p)),
                                        page |-> p]]
        /\ asked' = Query(f, ServedPage(p))
  BY DEF Request
<1>2. requestCounter' \in 1..MaxLists /\ requestCounter' \in Nat /\ requestCounter' >= requestCounter
  BY <1>1 DEF ListType
<1>3. Query(f, ServedPage(p)) \in Queries
  BY DEF Query, Queries, ServedPage
<1>4. [kind |-> IF f = NoFilter THEN "list" ELSE "search", n |-> requestCounter',
       query |-> Query(f, ServedPage(p)), page |-> p] \in ReqType
  BY <1>2, <1>3 DEF ReqType
<1> QED BY <1>1, <1>2, <1>3, <1>4 DEF ListType

(* A new request becomes the only one whose answer will be applied. *)
LEMMA RequestRows ==
  ASSUME ListType, RowsInv, NEW f \in Filters, NEW p \in 0..MaxPage, Request(f, p)
  PROVE  RowsInv'
<1> USE ChannelsPageAssumption
<1> DEFINE kind == IF f = NoFilter THEN "list" ELSE "search"
           q == Query(f, ServedPage(p))
<1>1. PICK s \in Free :
        /\ requestCounter' = IF f = NoFilter THEN requestCounter + 1 ELSE requestCounter
        /\ reqs' = [reqs EXCEPT ![s] = [kind |-> kind, n |-> requestCounter', query |-> q, page |-> p]]
        /\ asked' = q
        /\ cause' = cause \cup (IF \E r \in InFlight : reqs[r].kind = "search" \/ f # NoFilter
                                  THEN {"overlap"} ELSE {})
                         \cup (IF p = 0 THEN {"no number"} ELSE {})
  BY DEF Request
<1>2. /\ s \in Slots /\ s \notin InFlight
      /\ reqs'[s] = [kind |-> kind, n |-> requestCounter', query |-> q, page |-> p]
      /\ \A r \in Slots \ {s} : reqs'[r] = reqs[r]
  BY <1>1 DEF Free, ListType
<1>3. reqs'[s] # NoReq
  BY <1>2 DEF NoReq
<1>4. InFlight' = InFlight \cup {s}
  BY <1>2, <1>3 DEF InFlight
<1>5. requestCounter' \in Nat /\ requestCounter \in Nat /\ requestCounter' >= requestCounter
  BY RequestType DEF ListType
<1>10. \A r \in Slots : reqs[r].n \in Nat
  BY DEF ListType, ReqType
<1>6. \A r \in InFlight' : reqs'[r].kind \in {"list", "search"} /\ reqs'[r].n <= requestCounter'
  <2>1. ASSUME NEW r \in InFlight PROVE reqs'[r].kind \in {"list", "search"} /\ reqs'[r].n <= requestCounter'
    <3>1. r \in Slots \ {s} /\ reqs[r].n <= requestCounter /\ reqs[r].kind \in {"list", "search"}
      BY <1>2 DEF RowsInv, InFlight
    <3> QED BY <3>1, <1>2, <1>5, <1>10
  <2> QED BY <2>1, <1>2, <1>4, <1>5
<1>7. ASSUME cause' = {}
      PROVE  Live' = {s} /\ q.page = p
  <2>1. p # 0 /\ \A r \in InFlight : reqs[r].kind # "search" /\ f = NoFilter
    BY <1>1, <1>7
  <2>2. ASSUME NEW r \in InFlight PROVE ~Applies(reqs[r])'
    <3>1. reqs[r].kind = "list" /\ reqs[r].n <= requestCounter /\ f = NoFilter /\ r \in Slots /\ r # s
      BY <1>2, <2>1 DEF RowsInv, InFlight
    <3>2. requestCounter' = requestCounter + 1
      BY <1>1, <3>1
    <3> QED BY <1>2, <1>5, <1>10, <3>1, <3>2 DEF Applies
  <2>3. Applies(reqs[s])'
    BY <1>2 DEF Applies
  <2>4. Live' = {s}
    BY <1>2, <1>4, <2>2, <2>3 DEF Live, InFlight
  <2> QED BY <2>1, <2>4 DEF Query, ServedPage
<1>8. cause' = {} => /\ \A r \in Live' : reqs'[r].query = asked' /\ reqs'[r].page = asked'.page
                     /\ Live' # {}
  <2>1. reqs'[s].query = q /\ reqs'[s].page = p
    BY <1>2
  <2> QED BY <1>1, <1>7, <2>1
<1> QED BY <1>6, <1>8 DEF RowsInv

(* Rows that are written are those that are shown, or are a cause. *)
LEMMA WriteRowsInv ==
  ASSUME RowsInv, NEW rows, WriteRows(rows),
         UNCHANGED <<activePage, requestCounter, reqs, asked>>
  PROVE  RowsInv'
<1>1. InFlight' = InFlight /\ Live' = Live
  BY DEF InFlight, Live, Applies
<1>2. cause' = {} => cause = {} /\ table' = table
  BY DEF WriteRows
<1> QED BY <1>1, <1>2 DEF RowsInv

(* A step that leaves the requests and the rows alone *)
LEMMA RowsFrame ==
  ASSUME RowsInv, UNCHANGED <<activePage, table, requestCounter, reqs, asked, cause>>
  PROVE  RowsInv'
BY DEF RowsInv, Live, InFlight, Applies

(* An answer: what is applied was asked for last, and what is dropped was not. *)
LEMMA ReceiveRowsInv ==
  ASSUME ListType, RowsInv, NEW s \in Slots, ReceiveRows(s)
  PROVE  ListType' /\ RowsInv'
<1> USE ChannelsPageAssumption
<1>1. s \in InFlight /\ reqs' = [reqs EXCEPT ![s] = NoReq]
      /\ UNCHANGED <<form, requestCounter, asked, op>>
  BY DEF ReceiveRows
<1>2. NoReq \in ReqType
  BY DEF NoReq, ReqType, Query, Queries
<1>3. reqs' \in [Slots -> ReqType] /\ reqs'[s] = NoReq /\ \A r \in Slots \ {s} : reqs'[r] = reqs[r]
  BY <1>1, <1>2 DEF ListType
<1>4. InFlight' = InFlight \ {s}
  BY <1>3 DEF InFlight
<1>5. Live' = Live \ {s}
  BY <1>1, <1>3, <1>4 DEF Live, InFlight, Applies
<1>6. reqs[s].query \in Queries /\ reqs[s].page \in 0..MaxPage
  BY DEF ListType, ReqType
<1>7. \/ Applies(reqs[s]) /\ table' = reqs[s].query /\ activePage' = reqs[s].page /\ cause' = cause
      \/ ~Applies(reqs[s]) /\ UNCHANGED <<table, activePage, cause>>
      \/ Applies(reqs[s]) /\ cause' = cause \cup {"failed"} /\ UNCHANGED <<table, activePage>>
  BY DEF ReceiveRows
<1>8. ListType'
  BY <1>1, <1>3, <1>6, <1>7 DEF ListType
<1>9. \A r \in InFlight' : reqs'[r].kind \in {"list", "search"} /\ reqs'[r].n <= requestCounter'
  BY <1>1, <1>3, <1>4 DEF RowsInv, InFlight
<1>10. \A r \in Live' : r \in Live /\ reqs'[r] = reqs[r]
  BY <1>3, <1>5 DEF Live, InFlight
<1>11. ASSUME cause' = {}
       PROVE  /\ \A r \in Live' : reqs'[r].query = asked' /\ reqs'[r].page = asked'.page
              /\ Live' = {} => table' = asked' /\ activePage' = asked'.page
  <2>1. cause = {}
    BY <1>7, <1>11
  <2>2. CASE Applies(reqs[s]) /\ table' = reqs[s].query /\ activePage' = reqs[s].page
    <3>1. s \in Live
      BY <1>1, <2>2 DEF Live
    <3> QED BY <1>1, <1>10, <2>1, <2>2, <3>1 DEF RowsInv
  <2>3. CASE ~Applies(reqs[s]) /\ UNCHANGED <<table, activePage, cause>>
    <3>1. Live' = Live
      BY <1>5, <2>3 DEF Live
    <3> QED BY <1>1, <1>10, <2>1, <2>3, <3>1 DEF RowsInv
  <2> QED BY <1>7, <1>11, <2>2, <2>3
<1> QED BY <1>8, <1>9, <1>11 DEF RowsInv

(* Every step of the table keeps the invariant of the table. *)
LEMMA TableStepInv ==
  ASSUME ListType, RowsInv, TableStep
  PROVE  ListType' /\ RowsInv'
<1> USE ChannelsPageAssumption
<1>1. CASE \E s \in Slots : ReceiveRows(s)
  BY <1>1, ReceiveRowsInv
<1>2. CASE \E f \in Filters : TypeFilter(f)
  <2>1. ListType'
    BY <1>2 DEF TypeFilter, ListType
  <2> QED BY <1>2, <2>1, RowsFrame DEF TypeFilter
<1>3. CASE \E f \in Filters : ChooseFilter(f)
  <2>1. PICK f \in Filters : ChooseFilter(f)
    BY <1>3
  <2>2. 1 \in 0..MaxPage /\ Request(f, 1) /\ form' = f /\ activePage' = 1 /\ UNCHANGED <<table, op>>
    BY <2>1 DEF ChooseFilter
  <2> QED BY <2>2, RequestType, RequestRows DEF ListType
<1>4. CASE \E p \in Pages : handlePageChange(p)
  <2>1. PICK p \in Pages : handlePageChange(p)
    BY <1>4
  <2>2. p \in 0..MaxPage /\ Request(form, p) /\ activePage' = p /\ UNCHANGED <<form, table, op>>
        /\ form \in Filters
    BY <2>1 DEF handlePageChange, Pages, ListType
  <2> QED BY <2>2, RequestType, RequestRows DEF ListType
<1>5. CASE SubmitSearch \/ RefreshButton
  <2>1. PICK p \in {0, 1} : Request(form, p) /\ UNCHANGED <<form, activePage, table, op>>
    BY <1>5 DEF SubmitSearch, RefreshButton
  <2>2. p \in 0..MaxPage /\ form \in Filters
    BY DEF ListType
  <2> QED BY <2>1, <2>2, RequestType, RequestRows DEF ListType
<1>6. CASE \E kind \in {"row", "refresh", "delete", "tests"} : Operate(kind)
  <2>1. ListType'
    BY <1>6 DEF Operate, ListType, OpType
  <2> QED BY <1>6, <2>1, RowsFrame DEF Operate
<1>7. CASE OperationEnds \/ SelectedTested \/ SecondRefresh
  <2>1. NoOp \in OpType /\ op \in OpType /\ [op EXCEPT !.kind = "again"] \in OpType
    BY DEF NoOp, OpType, Query, Queries, ListType
  <2>2. op' \in OpType /\ UNCHANGED <<form, activePage>> /\ form \in Filters
        /\ op.rows \in Queries /\ op.page \in 0..MaxPage
    BY <1>7, <2>1 DEF OperationEnds, SelectedTested, SecondRefresh, ListType, OpType
  <2>3. CASE UNCHANGED <<table, requestCounter, reqs, asked, cause>>
    BY <2>2, <2>3, RowsFrame DEF ListType
  <2>4. CASE WriteRows(op.rows) /\ UNCHANGED <<requestCounter, reqs, asked>>
    <3>1. ListType'
      BY <2>2, <2>4 DEF ListType, WriteRows
    <3> QED BY <2>2, <2>4, <3>1, WriteRowsInv
  <2>5. CASE \E p \in 0..MaxPage : Request(form, p) /\ UNCHANGED table
    BY <2>2, <2>5, RequestType, RequestRows DEF ListType
  <2>6. op.page > 1 => op.page - 1 \in 0..MaxPage
    BY <2>2
  <2> QED BY <1>7, <2>2, <2>3, <2>4, <2>5, <2>6 DEF OperationEnds, SelectedTested, SecondRefresh
<1> QED BY <1>1, <1>2, <1>3, <1>4, <1>5, <1>6, <1>7 DEF TableStep

-----------------------------------------------------------------------------
(* The test dialog *)

(* A wave is made of models, at most Limit of them. *)
LEMMA WaveSize ==
  ASSUME NEW i \in Int
  PROVE  /\ Wave(i) \subseteq Models /\ Wave(i) \subseteq i..(i + Limit - 1)
         /\ IsFiniteSet(i..(i + Limit - 1)) /\ Cardinality(i..(i + Limit - 1)) = Limit
<1> USE ChannelsPageAssumption
<1>1. Wave(i) \subseteq Models /\ Wave(i) \subseteq i..(i + Limit - 1)
  BY DEF Wave, Models
<1>2. IsFiniteSet(i..(i + Limit - 1))
      /\ Cardinality(i..(i + Limit - 1)) = IF i > i + Limit - 1 THEN 0 ELSE (i + Limit - 1) - i + 1
  BY FS_Interval
<1> QED BY <1>1, <1>2

(* A step of the table leaves the tests alone. *)
LEMMA TestsFrame ==
  ASSUME TestType, BatchInv, UNCHANGED tests
  PROVE  TestType' /\ BatchInv'
BY DEF TestType, BatchInv, LoopInv, Running, tests

(* A batch begins: alone, or else it is remembered. *)
LEMMA BatchStarts ==
  ASSUME TestType, BatchInv, table \in Queries, NEW l \in Loops, batchTestModels(l)
  PROVE  TestType' /\ BatchInv'
<1> USE ChannelsPageAssumption
<1> DEFINE new == [pc |-> "wave", next |-> 1 + Limit, flight |-> Wave(1), rows |-> table]
<1>1. /\ loop' = [loop EXCEPT ![l] = new] /\ isBatchTesting' = TRUE /\ shouldStop' = FALSE
      /\ results' = {} /\ restarted' = (restarted \/ Running # {})
  BY DEF batchTestModels, StartWave
<1>2. new \in LoopType
  BY WaveSize DEF LoopType
<1>3. loop' \in [Loops -> LoopType] /\ loop'[l] = new /\ \A k \in Loops \ {l} : loop'[k] = loop[k]
  BY <1>1, <1>2 DEF TestType
<1>4. TestType'
  BY <1>1, <1>3 DEF TestType
<1>5. 1 + Limit - Limit = 1
  OBVIOUS
<1>6. \A k \in Loops : LoopInv(k)'
  BY <1>3, <1>5 DEF BatchInv, LoopInv
<1>7. ASSUME ~restarted' PROVE Running' = {l}
  BY <1>1, <1>3, <1>7 DEF Running
<1>8. \A m \in Models : m < 1 + Limit => m \in Wave(1)
  BY DEF Models, Wave
<1> QED BY <1>1, <1>3, <1>4, <1>6, <1>7, <1>8 DEF BatchInv

(* A test ends. *)
LEMMA TestEnds ==
  ASSUME TestType, BatchInv, NEW l \in Loops, NEW m \in Models, testChannel(l, m)
  PROVE  TestType' /\ BatchInv'
<1>1. /\ m \in loop[l].flight /\ loop' = [loop EXCEPT ![l].flight = @ \ {m}]
      /\ results' = results \cup {m} /\ UNCHANGED <<isBatchTesting, shouldStop, restarted>>
  BY DEF testChannel
<1>2. loop[l] \in LoopType
  BY DEF TestType
<1>3. loop'[l] = [loop[l] EXCEPT !.flight = @ \ {m}] /\ \A k \in Loops \ {l} : loop'[k] = loop[k]
  BY <1>1 DEF TestType
<1>4. loop'[l] \in LoopType /\ loop'[l].pc = loop[l].pc /\ loop'[l].next = loop[l].next
      /\ loop'[l].flight = loop[l].flight \ {m}
  BY <1>2, <1>3 DEF LoopType
<1>5. TestType'
  BY <1>1, <1>3, <1>4 DEF TestType
<1>6. \A k \in Loops : LoopInv(k)'
  BY <1>3, <1>4 DEF BatchInv, LoopInv
<1>7. Running' = Running
  BY <1>3, <1>4 DEF Running
<1>8. ASSUME ~restarted', NEW k \in Running, NEW n \in Models, n < loop'[k].next
      PROVE  n \in results' \cup loop'[k].flight
  <2>1. n \in results \cup loop[k].flight /\ k \in Loops
    BY <1>1, <1>3, <1>4, <1>8 DEF BatchInv, Running
  <2> QED BY <1>1, <1>3, <1>4, <2>1
<1> QED BY <1>1, <1>5, <1>6, <1>7, <1>8 DEF BatchInv

(* A batch ends, and with it what the dialog shows. *)
LEMMA LoopEnds ==
  ASSUME TestType, BatchInv, NEW l \in Running, EndLoop(l),
         UNCHANGED <<shouldStop, results, restarted>>
  PROVE  TestType' /\ BatchInv'
<1> USE ChannelsPageAssumption
<1>1. Idle \in LoopType
  BY DEF Idle, LoopType, Query, Queries
<1>2. l \in Loops
  BY DEF Running
<1>3. loop' = [loop EXCEPT ![l] = [Idle EXCEPT !.pc = "done"]] /\ isBatchTesting' = FALSE
  BY DEF EndLoop
<1>4. [Idle EXCEPT !.pc = "done"] \in LoopType /\ [Idle EXCEPT !.pc = "done"].pc = "done"
      /\ [Idle EXCEPT !.pc = "done"].flight = {}
  BY <1>1 DEF LoopType, Idle
<1>5. loop' \in [Loops -> LoopType] /\ loop'[l] = [Idle EXCEPT !.pc = "done"]
      /\ \A k \in Loops \ {l} : loop'[k] = loop[k]
  BY <1>2, <1>3, <1>4 DEF TestType
<1>6. TestType'
  BY <1>3, <1>5 DEF TestType
<1>7. \A k \in Loops : LoopInv(k)'
  BY <1>4, <1>5 DEF BatchInv, LoopInv
<1>8. Running' = Running \ {l}
  BY <1>4, <1>5 DEF Running
<1>9. ~restarted' => Running' = {}
  BY <1>8 DEF BatchInv
<1> QED BY <1>3, <1>6, <1>7, <1>9 DEF BatchInv

(* A wave is over and the batch goes on, or a gap and the next wave begins. *)
LEMMA LoopGoesOn ==
  ASSUME TestType, BatchInv, NEW l \in Loops, WaveOver(l) \/ GapOver(l), ~shouldStop
  PROVE  TestType' /\ BatchInv'
<1> USE ChannelsPageAssumption
<1>1. UNCHANGED <<isBatchTesting, shouldStop, results, restarted>> /\ l \in Running
  BY DEF WaveOver, GapOver, Running
<1>2. loop[l] \in LoopType /\ LoopInv(l)
  BY DEF TestType, BatchInv
<1>3. loop[l].next \in Int /\ loop[l].rows \in Queries /\ loop[l].next \in 1..(NModels + Limit)
  BY <1>2 DEF LoopType
<1>4. /\ loop' \in [Loops -> LoopType] /\ \A k \in Loops \ {l} : loop'[k] = loop[k]
      /\ LoopInv(l)' /\ loop'[l].pc \notin {"idle", "done"}
      /\ \A m \in Models : m < loop'[l].next => m < loop[l].next \/ m \in loop'[l].flight
      /\ loop[l].flight = {}
  <2>1. CASE WaveOver(l)
    <3> DEFINE at == IF loop[l].next <= NModels THEN "gap" ELSE "tail"
    <3>1. loop' = [loop EXCEPT ![l].pc = at] /\ loop[l].flight = {}
      BY <2>1 DEF WaveOver
    <3>2. loop'[l] = [loop[l] EXCEPT !.pc = at] /\ \A k \in Loops \ {l} : loop'[k] = loop[k]
      BY <3>1 DEF TestType
    <3>3. loop'[l] \in LoopType /\ loop'[l].pc = at /\ loop'[l].next = loop[l].next
          /\ loop'[l].flight = {}
      BY <1>2, <3>1, <3>2 DEF LoopType
    <3>4. loop' \in [Loops -> LoopType]
      BY <3>1, <3>2, <3>3 DEF TestType
    <3>5. LoopInv(l)'
      BY <1>3, <3>1, <3>3 DEF LoopInv
    <3> QED BY <3>1, <3>2, <3>3, <3>4, <3>5
  <2>2. CASE GapOver(l)
    <3> DEFINE i == loop[l].next
               new == [pc |-> "wave", next |-> i + Limit, flight |-> Wave(i), rows |-> loop[l].rows]
    <3>1. loop' = [loop EXCEPT ![l] = new] /\ loop[l].pc = "gap"
      BY <2>2 DEF GapOver, StartWave
    <3>2. i <= NModels /\ loop[l].flight = {}
      BY <1>2, <3>1 DEF LoopInv
    <3>3. i + Limit \in 1..(NModels + Limit) /\ (i + Limit) - Limit = i
      BY <1>3, <3>2
    <3>4. new \in LoopType
      BY <1>3, <3>3, WaveSize DEF LoopType
    <3>5. loop' \in [Loops -> LoopType] /\ loop'[l] = new /\ \A k \in Loops \ {l} : loop'[k] = loop[k]
      BY <3>1, <3>4 DEF TestType
    <3>6. LoopInv(l)'
      BY <3>3, <3>5 DEF LoopInv
    <3>7. \A m \in Models : m < i + Limit => m < i \/ m \in Wave(i)
      BY <1>3 DEF Wave, Models
    <3> QED BY <3>2, <3>5, <3>6, <3>7
  <2> QED BY <2>1, <2>2
<1>5. TestType'
  BY <1>1, <1>4 DEF TestType
<1>6. \A k \in Loops : LoopInv(k)'
  BY <1>4 DEF BatchInv, LoopInv
<1>7. Running' = Running
  BY <1>1, <1>4 DEF Running
<1>8. ASSUME ~restarted', NEW k \in Running, NEW m \in Models, m < loop'[k].next
      PROVE  m \in results' \cup loop'[k].flight
  <2>1. k \in Loops /\ ~restarted /\ k = l
    BY <1>1, <1>8 DEF BatchInv, Running
  <2>2. CASE m < loop[l].next
    BY <1>1, <1>4, <2>1, <2>2 DEF BatchInv
  <2> QED BY <1>4, <1>8, <2>1, <2>2
<1> QED BY <1>1, <1>5, <1>6, <1>7, <1>8 DEF BatchInv

(* Every step of the dialog keeps the invariant of the dialog. *)
LEMMA DialogStepInv ==
  ASSUME TestType, BatchInv, table \in Queries,
         handleCloseModal \/ \E l \in Loops : LoopStep(l) \/ batchTestModels(l)
  PROVE  TestType' /\ BatchInv'
<1>1. CASE handleCloseModal
  <2>1. shouldStop' = (shouldStop \/ isBatchTesting) /\ isBatchTesting' = FALSE
        /\ UNCHANGED <<loop, results, restarted>>
    BY <1>1 DEF handleCloseModal
  <2>2. TestType' /\ Running' = Running /\ \A l \in Loops : LoopInv(l)'
    BY <2>1 DEF TestType, Running, BatchInv, LoopInv
  <2> QED BY <2>1, <2>2 DEF BatchInv
<1>2. ASSUME NEW l \in Loops, LoopStep(l)
      PROVE  TestType' /\ BatchInv'
  <2>1. CASE \E m \in Models : testChannel(l, m)
    BY <2>1, TestEnds
  <2>2. CASE (WaveOver(l) \/ GapOver(l)) /\ ~shouldStop
    BY <2>2, LoopGoesOn
  <2>3. CASE ((WaveOver(l) \/ GapOver(l)) /\ shouldStop) \/ TailOver(l)
    <3>1. l \in Running /\ EndLoop(l) /\ UNCHANGED <<shouldStop, results, restarted>>
      BY <2>3 DEF WaveOver, GapOver, TailOver, Running
    <3> QED BY <3>1, LoopEnds
  <2> QED BY <1>2, <2>1, <2>2, <2>3 DEF LoopStep
<1> QED BY <1>1, <1>2, BatchStarts

(* The tests change the table only by writing rows they captured. *)
LEMMA DialogKeepsTable ==
  ASSUME ListType, RowsInv, TestType,
         handleCloseModal \/ \E l \in Loops : LoopStep(l) \/ batchTestModels(l)
  PROVE  ListType' /\ RowsInv'
<1>1. CASE UNCHANGED list
  <2>1. ListType'
    BY <1>1 DEF ListType, list
  <2> QED BY <1>1, <2>1, RowsFrame DEF list
<1>2. CASE \E l \in Loops, m \in Models : testChannel(l, m)
  <2>1. PICK l \in Loops : /\ WriteRows(loop[l].rows) \/ UNCHANGED <<table, cause>>
                          /\ UNCHANGED <<form, activePage, requestCounter, reqs, asked, op>>
    BY <1>2 DEF testChannel
  <2>2. loop[l].rows \in Queries
    BY DEF TestType, LoopType
  <2>3. ListType'
    BY <2>1, <2>2 DEF ListType, WriteRows
  <2> QED BY <2>1, <2>3, RowsFrame, WriteRowsInv
<1> QED BY <1>1, <1>2
        DEF handleCloseModal, LoopStep, batchTestModels, WaveOver, GapOver, TailOver

-----------------------------------------------------------------------------
(* The theorems *)

(* The inductive invariant holds in every behaviour. *)
THEOREM SpecInv == Spec => []PageInv
<1>1. ASSUME PageInv, [Next]_vars
      PROVE  PageInv'
  <2>1. CASE TableStep
    <3>1. UNCHANGED tests
      BY <2>1 DEF TableStep, ReceiveRows, TypeFilter, ChooseFilter, handlePageChange, SubmitSearch,
                  RefreshButton, Operate, OperationEnds, SelectedTested, SecondRefresh
    <3> QED BY <1>1, <2>1, <3>1, TableStepInv, TestsFrame DEF PageInv
  <2>2. CASE handleCloseModal \/ \E l \in Loops : LoopStep(l) \/ batchTestModels(l)
    <3>1. table \in Queries
      BY <1>1 DEF PageInv, ListType
    <3> QED BY <1>1, <2>2, <3>1, DialogStepInv, DialogKeepsTable DEF PageInv
  <2>3. CASE UNCHANGED vars
    <3>1. UNCHANGED list /\ UNCHANGED tests
      BY <2>3 DEF vars
    <3>2. ListType'
      BY <1>1, <3>1 DEF PageInv, ListType, list
    <3>3. RowsInv'
      BY <1>1, <3>1, RowsFrame DEF PageInv, list
    <3> QED BY <1>1, <3>1, <3>2, <3>3, TestsFrame DEF PageInv
  <2> QED BY <1>1, <2>1, <2>2, <2>3 DEF Next
<1> QED BY <1>1, InitInv, PTL DEF Spec

(* Type correctness; in particular a wave of tests, which the code cuts out of the
   list of models by position, never goes past its end. *)
THEOREM TypeCorrect == Spec => []TypeOK
<1>1. PageInv => TypeOK
  BY DEF PageInv, ListType, TestType, ReqType, OpType, LoopType, TypeOK
<1> QED BY <1>1, SpecInv, PTL

(* The numbers of useChannelsData keep late answers out of the table, whatever the
   order of the answers: with no search, failure, captured rows or refresh button
   in play, the table ends with the rows of the last request. *)
THEOREM TableFollowsLastRequest == Spec => []RowsMatch
<1>1. PageInv => RowsMatch
  <2> SUFFICES ASSUME PageInv, cause = {}, InFlight = {}
               PROVE  table = asked /\ activePage = table.page
    BY DEF RowsMatch
  <2>1. Live = {}
    BY DEF Live
  <2> QED BY <2>1 DEF PageInv, RowsInv
<1> QED BY <1>1, SpecInv, PTL

(* A batch of tests that was not started over a stopped one can be stopped, keeps
   to the concurrency limit and tests every model. *)
THEOREM BatchStaysUnderControl == Spec => []BatchUnderControl
<1>1. PageInv => BatchUnderControl
  <2> SUFFICES ASSUME PageInv, ~restarted
               PROVE  /\ Cardinality(UNION {loop[l].flight : l \in Loops}) <= Limit
                      /\ isBatchTesting <=> (Running # {} /\ ~shouldStop)
                      /\ \A l \in Loops : loop[l].pc = "tail" => results = Models
    BY DEF BatchUnderControl
  <2> USE ChannelsPageAssumption
  <2>1. \A l \in Loops : LoopInv(l) /\ loop[l] \in LoopType
    BY DEF PageInv, BatchInv, TestType
  <2>2. \A l \in Loops : l \notin Running => loop[l].flight = {}
    BY <2>1 DEF LoopInv, Running
  <2>3. \A l, k \in Running : l = k
    BY DEF PageInv, BatchInv
  <2>4. Cardinality(UNION {loop[l].flight : l \in Loops}) <= Limit
    <3>1. PICK i \in Int : UNION {loop[l].flight : l \in Loops} \subseteq Wave(i)
      <4>1. CASE Running = {}
        BY <2>2, <4>1
      <4>2. CASE Running # {}
        <5>1. PICK k \in Running : TRUE
          BY <4>2
        <5>2. UNION {loop[l].flight : l \in Loops} \subseteq loop[k].flight
          BY <2>2, <2>3, <5>1
        <5>3. k \in Loops /\ loop[k].next - Limit \in Int
          BY <2>1 DEF Running, LoopType
        <5>4. loop[k].flight \subseteq Wave(loop[k].next - Limit)
          BY <2>1, <5>3 DEF LoopInv
        <5> QED BY <5>2, <5>3, <5>4
      <4> QED BY <4>1, <4>2
    <3>2. UNION {loop[l].flight : l \in Loops} \subseteq i..(i + Limit - 1)
          /\ IsFiniteSet(i..(i + Limit - 1)) /\ Cardinality(i..(i + Limit - 1)) = Limit
      BY <3>1, WaveSize
    <3> QED BY <3>2, FS_Subset
  <2>5. ASSUME NEW l \in Loops, loop[l].pc = "tail"
        PROVE  results = Models
    <3>1. l \in Running /\ loop[l].flight = {} /\ loop[l].next > NModels
      BY <2>1, <2>5 DEF LoopInv, Running
    <3>2. \A m \in Models : m < loop[l].next
      BY <2>1, <3>1 DEF Models, LoopType
    <3> QED BY <3>1, <3>2 DEF PageInv, BatchInv, TestType
  <2> QED BY <2>4, <2>5 DEF PageInv, BatchInv
<1> QED BY <1>1, SpecInv, PTL

=============================================================================
