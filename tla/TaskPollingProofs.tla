------------------------- MODULE TaskPollingProofs -------------------------
(***************************************************************************)
(* Proofs about TaskPolling, for any tasks, users, reports, costs and      *)
(* bounds. Type correctness holds for every kind of task. Without image    *)
(* tasks, whose goroutine saves the row whatever became of it, a finished  *)
(* task stays finished but for the bulk failure (TerminalIsFinal), and the *)
(* charge of a task that was not failed in bulk follows its outcome        *)
(* (ChargeFollowsOutcome). If all tasks are moved before they are          *)
(* billed, as video tasks are, no error or crash pays one back twice       *)
(* (NeverOverRefunded).                                                    *)
(*                                                                         *)
(* What a worker still has to do is its plan, and a plan has one of eleven *)
(* forms. The invariant says what each form implies: before the            *)
(* conditional update nothing was paid, between it and the end of the      *)
(* billing the row is terminal and the worker is the only one that bills   *)
(* the task.                                                               *)
(***************************************************************************)
EXTENDS TaskPolling, SequenceTheorems, FiniteSetTheorems, TLAPS

-----------------------------------------------------------------------------
(* Plans *)

CasPlans == {<<"cas">>, <<"cas", "fund">>, <<"cas", "fund", "token">>}
BillPlans == {<<"fund">>, <<"fund", "token">>, <<"token">>}
SavePlans == {<<"save">>, <<"fund", "save">>, <<"fund", "token", "save">>, <<"token", "save">>}
PlanForms == {<<>>} \cup CasPlans \cup BillPlans \cup SavePlans

-----------------------------------------------------------------------------
(* Types *)

(* A row of a task that was inserted *)
LiveRow == [status : Pending \cup Terminal, full : BOOLEAN, url : BOOLEAN,
            reason : BOOLEAN, quota : Nat \ {0}, held : Nat, source : FundingSources]
Rows == LiveRow \cup {NoRow}

(* A worker has read the rows of its list and knows the row of the task at hand. *)
WorkerOK(x) ==
    /\ x = [at |-> x.at, todo |-> x.todo, read |-> x.read, task |-> x.task, mem |-> x.mem,
            from |-> x.from, plan |-> x.plan, da |-> x.da, dt |-> x.dt]
    /\ x.at \in {"idle", "sweep", "poll", "query"}
    /\ x.todo \subseteq Tasks /\ DOMAIN x.read = x.todo
    /\ \A t \in x.todo : x.read[t] \in LiveRow
    /\ x.plan \in PlanForms /\ x.mem \in Rows /\ x.da \in Int /\ x.dt \in Int
    /\ x.plan # <<>> => x.task \in Tasks /\ x.mem \in LiveRow /\ x.from \in Pending \cup Terminal

Images == [pc : {"none", "start", "running", "saving", "done"}, mem : Rows, hold : Nat]
ImageOK(x) == x \in Images /\ (x.pc \in {"start", "running", "saving"} => x.mem \in LiveRow)

WorkersOK == /\ wk = [w \in Workers |-> wk[w]]
             /\ \A w \in Workers : WorkerOK(wk[w])

TasksOK ==
    /\ row \in [Tasks -> Rows]
    /\ img \in [Tasks -> Images] /\ \A t \in Tasks : ImageOK(img[t])
    /\ aged \subseteq Tasks /\ gone \subseteq Tasks
    /\ funds \in [Tasks -> Int] /\ token \in [Tasks -> Int]

CountsOK ==
    /\ hurt \subseteq Tasks \X {"settle", "billing", "channel", "overrun"}
    /\ queries \in 0 .. MaxQueries /\ faults \in 0 .. MaxFaults /\ crashes \in 0 .. MaxCrashes

(* A row that was read is never deleted. *)
KnownRows == \A w \in Workers : \A t \in wk[w].todo : row[t] # NoRow

TypeInv == WorkersOK /\ TasksOK /\ CountsOK /\ KnownRows

-----------------------------------------------------------------------------
(* What a plan implies *)

NoImages == \A t \in Tasks : Kind[t] # "image"

(* m is a version of row y: only status, progress and result differ. *)
Version(m, y) == y # NoRow /\ m.source = y.source /\ m.quota = y.quota /\ m.held = y.held

(* A task that may still change: Suno's reason for a failure ends it as well. *)
Open(m) == m.status \in Pending /\ ~ m.reason

(* A task that looks finished to a query, or to the poller, is. *)
Ends(t, m) ==
    /\ m.status = "FAILURE" => m.full
    /\ m.status = "SUCCESS" /\ Kind[t] = "video" => m.url
    /\ m.reason => m.full /\ Kind[t] = "suno"

(* What is owed to or by the user when the task comes to be as in m *)
Due(m, da, dt) ==
    /\ m.status = "FAILURE" \/ m.reason =>
         da = - RefundAmount(m) /\ dt = - TokenUnits(m.source, m.quota)
    /\ m.status = "SUCCESS" /\ ~ m.reason =>
         \/ da = 0 /\ dt = 0
         \/ /\ UsesTokenQuota(m.source) /\ dt = da
            /\ \E actual \in Actuals \ {0} : da = actual - m.quota
    /\ Open(m) => da = 0 /\ dt = 0

(* Worker w has read m of task t, whose row is y by now. Only the poller works on
   Suno tasks, so that their rows are as it read them. *)
Read(w, t, m, y) ==
    /\ Version(m, y) /\ Open(m)
    /\ Kind[t] = "suno" => w = Poller /\ Open(y)

(* The calls that are left agree with what is due. *)
PlanFits(x) ==
    /\ x.plan \in CasPlans => x.plan = <<"cas">> \o Bill(x.da, x.dt)
    /\ x.plan \in {<<"fund">>, <<"fund", "token">>} => x.plan = Bill(x.da, x.dt)
    /\ x.plan \in {<<"fund", "save">>, <<"fund", "token", "save">>} =>
         x.plan = Bill(x.da, x.dt) \o <<"save">>

(* What the plan of x implies for its task, whose row is y: a task is billed after
   it was moved, a Suno task before. *)
Work(w, x, y, g) ==
    /\ x.task \notin x.todo
    /\ Version(x.mem, y) /\ x.from \in Pending
    /\ Ends(x.task, x.mem) /\ Due(x.mem, x.da, x.dt) /\ PlanFits(x)
    /\ Kind[x.task] = "suno" => w = Poller
    /\ x.plan \in BillPlans =>
         y.status \in Terminal /\ (x.task \notin g => y.status = x.mem.status)
    /\ x.plan \in CasPlans \cup BillPlans => ~ x.mem.reason /\ ~ y.reason
    /\ x.plan \in SavePlans => Kind[x.task] = "suno" /\ Open(y)

WorkerInv(w, x, r, g) ==
    /\ \A t \in x.todo : Read(w, t, x.read[t], r[t])
    /\ x.plan # <<>> => Work(w, x, r[x.task], g)
    /\ x.at = "idle" => x.todo = {} /\ x.plan = <<>>

(* Nobody else bills the same task. *)
Billing(x, t) == x.plan \in BillPlans \cup SavePlans /\ x.task = t
Alone == \A v, w \in Workers, t \in Tasks : Billing(wk[v], t) /\ Billing(wk[w], t) => v = w

MoveInv ==
    /\ \A t \in Tasks : img[t] = NoImage /\ Ends(t, row[t])
    /\ \A w \in Workers : WorkerInv(w, wk[w], row, BulkFailed)
    /\ Alone

-----------------------------------------------------------------------------
(* What was charged: y is the row of a task, f and k what its funding source and its
   token were charged, h what was cut off. *)

(* A video task is moved first, so that an error or a crash cuts its billing off
   and never repeats it. *)
Counts(t, y, h) ==
    /\ <<t, "settle">> \notin h
    /\ y.source = "subscription" => y.held = y.quota
    /\ Kind[t] = "video" \/ <<t, "billing">> \notin h

Whole(y, f, k) == f = Units(y.source, y.quota) /\ k = TokenUnits(y.source, y.quota)

(* The calls of x that are left are the ones that were not made. *)
BilledSoFar(x, y, f, k) ==
    /\ x.plan \in {<<"fund">>, <<"fund", "token">>, <<"fund", "save">>, <<"fund", "token", "save">>} =>
         Whole(y, f, k)
    /\ x.plan \in {<<"token">>, <<"token", "save">>} => Whole(y, f - x.da, k)
    /\ x.plan = <<"save">> => Whole(y, f - x.da, k - x.dt)

(* The charge of a task that has ended *)
Outcome(y, f, k) ==
    LET paid == IF UsesTokenQuota(y.source) THEN k ELSE y.quota
    IN /\ y.status = "FAILURE" \/ y.reason => f = 0 /\ k = 0
       /\ y.status = "SUCCESS" /\ ~ y.reason =>
                                  /\ paid \in {y.quota} \cup (Actuals \ {0})
                                  /\ f = Units(y.source, paid)

(* The charge of a task that nobody bills *)
Balanced(t, y, f, k, h, g) ==
    /\ Open(y) => Whole(y, f, k)
    /\ t \notin g /\ <<t, "billing">> \notin h => Outcome(y, f, k)

Books(t) ==
    /\ Counts(t, row[t], hurt) => funds[t] >= 0 /\ token[t] >= 0
    /\ Counts(t, row[t], hurt) /\ row[t] # NoRow =>
         /\ \A w \in Workers : Billing(wk[w], t) => BilledSoFar(wk[w], row[t], funds[t], token[t])
         /\ (\A w \in Workers : ~ Billing(wk[w], t)) =>
              Balanced(t, row[t], funds[t], token[t], hurt, BulkFailed)

BooksInv == \A t \in Tasks : Books(t)

-----------------------------------------------------------------------------
(* Facts about plans *)

(* What the concatenation of two sequences is, by its elements *)
LEMMA ConcatIs ==
  ASSUME NEW S, NEW p \in Seq(S), NEW q \in Seq(S), NEW r \in Seq(S),
         Len(r) = Len(p) + Len(q),
         \A i \in 1 .. Len(r) : r[i] = IF i <= Len(p) THEN p[i] ELSE q[i - Len(p)]
  PROVE  p \o q = r
<1>1. /\ p \o q \in Seq(S) /\ Len(p \o q) = Len(p) + Len(q)
      /\ \A i \in 1 .. Len(p) + Len(q) : (p \o q)[i] = IF i <= Len(p) THEN p[i] ELSE q[i - Len(p)]
  BY ConcatProperties
<1> QED BY <1>1, SeqEqual

(* Tuples are sequences over the set of their elements. *)
LEMMA TupleSeq ==
  ASSUME NEW a, NEW b, NEW c
  PROVE  /\ <<>> \in Seq({a, b, c}) /\ <<a>> \in Seq({a, b, c}) /\ <<c>> \in Seq({a, b, c})
         /\ <<a, b>> \in Seq({a, b, c}) /\ <<b, c>> \in Seq({a, b, c})
         /\ <<a, b, c>> \in Seq({a, b, c})
<1> DEFINE S == {a, b, c}
<1>1. <<>> \in Seq(S) /\ <<a>> \in Seq(S) /\ <<c>> \in Seq(S)
  OBVIOUS
<1>2. <<a, b>> \in [1 .. 2 -> S] /\ <<b, c>> \in [1 .. 2 -> S] /\ <<a, b, c>> \in [1 .. 3 -> S]
  OBVIOUS
<1>3. [1 .. 2 -> S] \subseteq Seq(S) /\ [1 .. 3 -> S] \subseteq Seq(S)
  BY SeqDef, 2 \in Nat, 3 \in Nat, Zenon
<1> QED BY <1>1, <1>2, <1>3

(* The concatenations that plans are made of *)
LEMMA Concats ==
  ASSUME NEW a, NEW b, NEW c
  PROVE  /\ <<a>> \o <<>> = <<a>> /\ <<>> \o <<a>> = <<a>>
         /\ <<a>> \o <<b, c>> = <<a, b, c>> /\ <<a, b>> \o <<c>> = <<a, b, c>>
<1> DEFINE S == {a, b, c}
           e == <<>>
           s1 == <<a>>
           s2 == <<a, b>>
           u1 == <<c>>
           u2 == <<b, c>>
           r == <<a, b, c>>
<1>1. /\ e \in Seq(S) /\ s1 \in Seq(S) /\ s2 \in Seq(S) /\ u1 \in Seq(S) /\ u2 \in Seq(S)
      /\ r \in Seq(S)
  BY TupleSeq
<1>2. Len(e) = 0 /\ Len(s1) = 1 /\ Len(s2) = 2 /\ Len(u1) = 1 /\ Len(u2) = 2 /\ Len(r) = 3
  OBVIOUS
<1>3. \A i \in {1, 2, 3} : /\ r[i] = IF i <= 1 THEN s1[i] ELSE u2[i - 1]
                           /\ r[i] = IF i <= 2 THEN s2[i] ELSE u1[i - 2]
  OBVIOUS
<1> HIDE DEF e, s1, s2, u1, u2, r, S
<1>4. e \o s1 = s1 /\ s1 \o e = s1
  BY <1>1, ConcatEmptySeq, <1>2 DEF e
<1>5. s1 \o u2 = r
  <2>1. \A i \in 1 .. Len(r) : r[i] = IF i <= Len(s1) THEN s1[i] ELSE u2[i - Len(s1)]
    BY <1>2, <1>3
  <2>2. Len(r) = Len(s1) + Len(u2)
    BY <1>2
  <2> QED BY <1>1, <2>1, <2>2, ConcatIs
<1>6. s2 \o u1 = r
  <2>1. \A i \in 1 .. Len(r) : r[i] = IF i <= Len(s2) THEN s2[i] ELSE u1[i - Len(s2)]
    BY <1>2, <1>3
  <2>2. Len(r) = Len(s2) + Len(u1)
    BY <1>2
  <2> QED BY <1>1, <2>1, <2>2, ConcatIs
<1> QED BY <1>4, <1>5, <1>6 DEF e, s1, s2, u1, u2, r

(* Concatenation of two single calls *)
LEMMA Concat2 == ASSUME NEW a, NEW b PROVE <<a>> \o <<b>> = <<a, b>>
<1> DEFINE S == {a, b, b}
           s == <<a>>
           u == <<b>>
           r == <<a, b>>
<1>1. s \in Seq(S) /\ u \in Seq(S) /\ r \in Seq(S)
  BY TupleSeq
<1>2. Len(s) = 1 /\ Len(u) = 1 /\ Len(r) = 2
  OBVIOUS
<1>3. \A i \in {1, 2} : r[i] = IF i <= 1 THEN s[i] ELSE u[i - 1]
  OBVIOUS
<1> HIDE DEF s, u, r, S
<1>4. \A i \in 1 .. Len(r) : r[i] = IF i <= Len(s) THEN s[i] ELSE u[i - Len(s)]
  BY <1>2, <1>3
<1>5. Len(r) = Len(s) + Len(u)
  BY <1>2
<1>6. s \o u = r
  BY <1>1, <1>4, <1>5, ConcatIs
<1> QED BY <1>6 DEF s, u, r

(* The forms of the plans that a worker begins with *)
LEMMA BillForms ==
  ASSUME NEW da \in Int, NEW dt \in Int
  PROVE  /\ da = 0 => /\ Bill(da, dt) = <<>> /\ <<"cas">> \o Bill(da, dt) = <<"cas">>
                      /\ Bill(da, dt) \o <<"save">> = <<"save">>
         /\ da # 0 /\ dt = 0 => /\ Bill(da, dt) = <<"fund">>
                                /\ <<"cas">> \o Bill(da, dt) = <<"cas", "fund">>
                                /\ Bill(da, dt) \o <<"save">> = <<"fund", "save">>
         /\ da # 0 /\ dt # 0 => /\ Bill(da, dt) = <<"fund", "token">>
                                /\ <<"cas">> \o Bill(da, dt) = <<"cas", "fund", "token">>
                                /\ Bill(da, dt) \o <<"save">> = <<"fund", "token", "save">>
<1>1. CASE da = 0
  BY <1>1, Concats, Zenon DEF Bill
<1>2. CASE da # 0 /\ dt = 0
  BY <1>2, Concat2, Zenon DEF Bill
<1>3. CASE da # 0 /\ dt # 0
  BY <1>3, Concats, Zenon DEF Bill
<1> QED BY <1>1, <1>2, <1>3

(* First call and rest of every plan *)
LEMMA PlanSteps ==
  /\ \A p \in PlanForms : p # <<>> =>
       Head(p) \in {"cas", "fund", "token", "save"} /\ Tail(p) \in PlanForms
  /\ \A p \in PlanForms : p # <<>> /\ Head(p) = "cas" <=> p \in CasPlans
  /\ \A p \in PlanForms : p # <<>> /\ Head(p) # "cas" <=> p \in BillPlans \cup SavePlans
  /\ \A p \in PlanForms : p # <<>> /\ Head(p) = "save" => p = <<"save">>
  /\ \A p \in PlanForms : p # <<>> /\ Head(p) = "token" => p \in {<<"token">>, <<"token", "save">>}
  /\ \A p \in PlanForms : p # <<>> /\ Head(p) = "fund" =>
       p \in {<<"fund">>, <<"fund", "token">>, <<"fund", "save">>, <<"fund", "token", "save">>}
  /\ \A p \in CasPlans : (Len(p) > 1) <=> p # <<"cas">>
BY DEF PlanForms, CasPlans, BillPlans, SavePlans

(* What is left of a plan after its first call *)
LEMMA PlanTails ==
  /\ Tail(<<"cas">>) = <<>> /\ Tail(<<"cas", "fund">>) = <<"fund">>
  /\ Tail(<<"cas", "fund", "token">>) = <<"fund", "token">>
  /\ Tail(<<"fund">>) = <<>> /\ Tail(<<"fund", "token">>) = <<"token">>
  /\ Tail(<<"token">>) = <<>> /\ Tail(<<"save">>) = <<>> /\ Tail(<<"token", "save">>) = <<"save">>
  /\ Tail(<<"fund", "save">>) = <<"save">>
  /\ Tail(<<"fund", "token", "save">>) = <<"token", "save">>
OBVIOUS

(* A failed call to the funding source drops the token's part of the plan. *)
LEMMA SkipForms ==
  /\ \A p \in PlanForms : SkipToken(p) \in PlanForms
  /\ SkipToken(<<>>) = <<>> /\ SkipToken(<<"token">>) = <<>>
  /\ SkipToken(<<"save">>) = <<"save">> /\ SkipToken(<<"token", "save">>) = <<"save">>
BY DEF PlanForms, CasPlans, BillPlans, SavePlans, SkipToken

(* Plans of different forms differ. *)
LEMMA PlansDiffer ==
  /\ \A p \in CasPlans : p \notin BillPlans /\ p \notin SavePlans /\ p # <<>>
  /\ \A p \in BillPlans : p \notin SavePlans /\ p # <<>>
  /\ \A p \in SavePlans : p # <<>>
BY DEF CasPlans, BillPlans, SavePlans

(* The plans are of the type that TypeOK names. *)
LEMMA FormsArePlans == PlanForms \subseteq Plans
BY DEF PlanForms, CasPlans, BillPlans, SavePlans, Plans

-----------------------------------------------------------------------------
(* Facts about rows and workers *)

(* A row is the one of a task that was inserted, or none. *)
LEMMA RowFacts ==
  /\ NoRow \notin LiveRow /\ LiveRow \subseteq RowType /\ Rows \subseteq RowType
  /\ \A x \in Rows : x # NoRow <=> x \in LiveRow
  /\ \A x \in Rows : x.status # "none" => x \in LiveRow
<1>1. NoRow.status = "none" /\ NoRow \in RowType
  BY DEF NoRow, RowType
<1>2. \A x \in LiveRow : x.status # "none" /\ x \in RowType
  BY DEF LiveRow, RowType, Pending, Terminal
<1> QED BY <1>1, <1>2 DEF Rows

(* InitTask makes the row of a task. *)
LEMMA NewRowLive ==
  ASSUME NEW st \in Pending, NEW src \in Sources, NEW q \in Quotas, NEW h \in Holds
  PROVE  NewRow(st, src, q, h) \in LiveRow
<1>1. src \in FundingSources /\ q \in Nat \ {0} /\ h \in Nat
  BY TaskAssumption
<1> QED BY <1>1 DEF NewRow, NoRow, LiveRow

(* A row whose status, progress and result are changed *)
LEMMA ChangedLive ==
  ASSUME NEW x \in LiveRow, NEW st \in Pending \cup Terminal, NEW b \in BOOLEAN, NEW c \in BOOLEAN
  PROVE  /\ [x EXCEPT !.status = st] \in LiveRow
         /\ [x EXCEPT !.status = st, !.full = b] \in LiveRow
         /\ [x EXCEPT !.status = st, !.full = b, !.url = c] \in LiveRow
BY DEF LiveRow

(* A worker with these fields *)
Worker(at, todo, read, task, mem, from, plan, da, dt) ==
    [at |-> at, todo |-> todo, read |-> read, task |-> task, mem |-> mem, from |-> from,
     plan |-> plan, da |-> da, dt |-> dt]

(* The fields of such a record, and when it is of the right type *)
LEMMA MakeOK ==
  ASSUME NEW at \in {"idle", "sweep", "poll", "query"}, NEW todo \in SUBSET Tasks,
         NEW read, DOMAIN read = todo, \A t \in todo : read[t] \in LiveRow,
         NEW task, NEW mem \in Rows, NEW from, NEW plan \in PlanForms,
         NEW da \in Int, NEW dt \in Int,
         plan # <<>> => task \in Tasks /\ mem \in LiveRow /\ from \in Pending \cup Terminal,
         NEW y, y = Worker(at, todo, read, task, mem, from, plan, da, dt)
  PROVE  /\ WorkerOK(y) /\ y.at = at /\ y.todo = todo /\ y.read = read /\ y.plan = plan
         /\ y.task = task /\ y.mem = mem /\ y.from = from /\ y.da = da /\ y.dt = dt
<1>1. /\ y.at = at /\ y.todo = todo /\ y.read = read /\ y.plan = plan
      /\ y.task = task /\ y.mem = mem /\ y.from = from /\ y.da = da /\ y.dt = dt
  BY DEF Worker
<1>2. y = [at |-> y.at, todo |-> y.todo, read |-> y.read, task |-> y.task, mem |-> y.mem,
            from |-> y.from, plan |-> y.plan, da |-> y.da, dt |-> y.dt]
  BY <1>1 DEF Worker
<1>3. WorkerOK(y)
  BY <1>1, <1>2, Zenon DEF WorkerOK
<1> QED BY <1>1, <1>3

(* A worker without anything to do *)
LEMMA IdleOK == WorkerOK(Idle) /\ Idle.plan = <<>> /\ Idle.todo = {} /\ Idle.at = "idle"
BY DEF WorkerOK, Idle, Rows, PlanForms

(* A worker with a list of rows *)
Listed(at, S) == [Idle EXCEPT !.at = at, !.todo = S, !.read = [t \in S |-> row[t]]]

(* Such a worker knows the rows of its list. *)
LEMMA ListOK ==
  ASSUME NEW at \in {"idle", "sweep", "poll", "query"}, NEW S \in SUBSET Tasks,
         \A t \in S : row[t] \in LiveRow,
         NEW x, x = Listed(at, S)
  PROVE  /\ WorkerOK(x) /\ x.at = at /\ x.todo = S /\ x.plan = <<>>
         /\ \A t \in S : x.read[t] = row[t]
<1> DEFINE read == [t \in S |-> row[t]]
<1>1. x = Worker(at, S, read, <<>>, NoRow, "none", <<>>, 0, 0)
  BY DEF Idle, Worker, Listed
<1>2. DOMAIN read = S /\ \A t \in S : read[t] = row[t]
  OBVIOUS
<1>3. NoRow \in Rows /\ <<>> \in PlanForms /\ 0 \in Int
  BY DEF Rows, PlanForms
<1> HIDE DEF read
<1>4. \A t \in S : read[t] \in LiveRow
  BY <1>2
<1>5. WorkerOK(x) /\ x.at = at /\ x.todo = S /\ x.plan = <<>> /\ x.read = read
  BY <1>1, <1>2, <1>3, <1>4, MakeOK
<1> QED BY <1>2, <1>5

(* A worker that is through with a task *)
LEMMA ThroughOK ==
  ASSUME NEW x, WorkerOK(x), NEW t, NEW y, y = Through(x, t)
  PROVE  /\ WorkerOK(y) /\ y.at = x.at /\ y.todo = x.todo \ {t} /\ y.plan = <<>>
         /\ \A u \in y.todo : y.read[u] = x.read[u]
<1> DEFINE S == x.todo \ {t}
           read == [u \in S |-> x.read[u]]
<1>1. y = Worker(x.at, S, read, <<>>, NoRow, "none", <<>>, 0, 0)
  BY DEF Idle, Worker, Through
<1>2. DOMAIN read = S /\ \A u \in S : read[u] = x.read[u]
  OBVIOUS
<1>3. NoRow \in Rows /\ <<>> \in PlanForms /\ 0 \in Int
  BY DEF Rows, PlanForms
<1>4. S \in SUBSET Tasks /\ \A u \in S : x.read[u] \in LiveRow
  BY DEF WorkerOK
<1>5. x.at \in {"idle", "sweep", "poll", "query"}
  BY DEF WorkerOK
<1> HIDE DEF read, S
<1>6. \A u \in S : read[u] \in LiveRow
  BY <1>2, <1>4
<1>7. WorkerOK(y) /\ y.at = x.at /\ y.todo = S /\ y.plan = <<>> /\ y.read = read
  BY <1>1, <1>2, <1>3, <1>4, <1>5, <1>6, MakeOK
<1> QED BY <1>2, <1>7 DEF S

(* A worker that begins with a task *)
Begun(x, t, mem, from, plan, da, dt) ==
    [Through(x, t) EXCEPT !.task = t, !.mem = mem, !.from = from,
                          !.plan = plan, !.da = da, !.dt = dt]

(* It has this task at hand and the others left. *)
LEMMA BeginOK ==
  ASSUME NEW x, WorkerOK(x), NEW t \in Tasks, NEW mem \in LiveRow,
         NEW from \in Pending \cup Terminal, NEW plan \in PlanForms, NEW da \in Int, NEW dt \in Int,
         NEW y, y = Begun(x, t, mem, from, plan, da, dt)
  PROVE  /\ WorkerOK(y) /\ y.at = x.at /\ y.todo = x.todo \ {t} /\ y.plan = plan
         /\ \A u \in y.todo : y.read[u] = x.read[u]
         /\ y.task = t /\ y.mem = mem /\ y.from = from /\ y.da = da /\ y.dt = dt
<1> DEFINE z == Through(x, t)
<1>1. /\ WorkerOK(z) /\ z.at = x.at /\ z.todo = x.todo \ {t}
      /\ \A u \in z.todo : z.read[u] = x.read[u]
  BY ThroughOK
<1>2. y = [z EXCEPT !.task = t, !.mem = mem, !.from = from, !.plan = plan, !.da = da, !.dt = dt]
  BY DEF Begun
<1> HIDE DEF z
<1>3. y = Worker(z.at, z.todo, z.read, t, mem, from, plan, da, dt)
  BY <1>1, <1>2 DEF WorkerOK, Worker
<1>4. /\ z.at \in {"idle", "sweep", "poll", "query"} /\ z.todo \in SUBSET Tasks
      /\ DOMAIN z.read = z.todo /\ \A u \in z.todo : z.read[u] \in LiveRow
  BY <1>1 DEF WorkerOK
<1>5. mem \in Rows
  BY DEF Rows
<1>6. /\ WorkerOK(y) /\ y.at = z.at /\ y.todo = z.todo /\ y.read = z.read /\ y.plan = plan
      /\ y.task = t /\ y.mem = mem /\ y.from = from /\ y.da = da /\ y.dt = dt
  BY <1>3, <1>4, <1>5, MakeOK
<1> QED BY <1>1, <1>6

(* A worker that goes on with a plan *)
LEMMA GoOnOK ==
  ASSUME NEW x, WorkerOK(x), x.plan # <<>>, NEW plan \in PlanForms,
         NEW y, y = [x EXCEPT !.plan = plan]
  PROVE  /\ WorkerOK(y) /\ y.at = x.at /\ y.todo = x.todo /\ y.plan = plan /\ y.read = x.read
         /\ y.task = x.task /\ y.mem = x.mem /\ y.from = x.from /\ y.da = x.da /\ y.dt = x.dt
<1>1. y = Worker(x.at, x.todo, x.read, x.task, x.mem, x.from, plan, x.da, x.dt)
  BY DEF WorkerOK, Worker
<1>2. /\ x.at \in {"idle", "sweep", "poll", "query"} /\ x.todo \in SUBSET Tasks
      /\ DOMAIN x.read = x.todo /\ \A u \in x.todo : x.read[u] \in LiveRow
      /\ x.mem \in Rows /\ x.da \in Int /\ x.dt \in Int
      /\ x.task \in Tasks /\ x.mem \in LiveRow /\ x.from \in Pending \cup Terminal
  BY DEF WorkerOK
<1> QED BY <1>1, <1>2, MakeOK

-----------------------------------------------------------------------------
(* Steps of workers *)

Others(w) == \A v \in Workers : v # w => wk'[v] = wk[v]

(* The worker has task t off its list and keeps the rest. *)
Left(w, t) ==
    /\ wk'[w].at = wk[w].at /\ wk'[w].todo = wk[w].todo \ {t}
    /\ \A u \in wk'[w].todo : wk'[w].read[u] = wk[w].read[u]

At(x, t, mem, from, da, dt) ==
    x.task = t /\ x.mem = mem /\ x.from = from /\ x.da = da /\ x.dt = dt

(* One worker changes. *)
LEMMA WorkerStep ==
  ASSUME WorkersOK, NEW w \in Workers, NEW y, WorkerOK(y), wk' = [wk EXCEPT ![w] = y]
  PROVE  WorkersOK' /\ Others(w) /\ wk'[w] = y
<1>1. wk = [v \in Workers |-> wk[v]] /\ \A v \in Workers : WorkerOK(wk[v])
  BY DEF WorkersOK
<1>2. wk' = [v \in Workers |-> IF v = w THEN y ELSE wk[v]]
  BY <1>1
<1>3. \A v \in Workers : wk'[v] = IF v = w THEN y ELSE wk[v]
  BY <1>2
<1>4. wk' = [v \in Workers |-> wk'[v]]
  BY <1>2, <1>3
<1>5. \A v \in Workers : WorkerOK(wk'[v])
  BY <1>1, <1>3
<1>6. WorkersOK'
  BY <1>4, <1>5 DEF WorkersOK, WorkerOK
<1> QED BY <1>3, <1>6 DEF Others

(* A worker leaves a task. *)
LEMMA DropEffect ==
  ASSUME WorkersOK, NEW w \in Workers, NEW t, Drop(w, t)
  PROVE  WorkersOK' /\ Others(w) /\ Left(w, t) /\ wk'[w].plan = <<>>
<1> DEFINE y == Through(wk[w], t)
<1>1. wk' = [wk EXCEPT ![w] = y]
  BY DEF Drop
<1>2. WorkerOK(wk[w])
  BY DEF WorkersOK
<1>3. /\ WorkerOK(y) /\ y.at = wk[w].at /\ y.todo = wk[w].todo \ {t} /\ y.plan = <<>>
      /\ \A u \in y.todo : y.read[u] = wk[w].read[u]
  BY <1>2, ThroughOK
<1> HIDE DEF y
<1>4. WorkersOK' /\ Others(w) /\ wk'[w] = y
  BY <1>1, <1>3, WorkerStep
<1> QED BY <1>3, <1>4 DEF Left

(* A worker begins with a task. *)
LEMMA DoEffect ==
  ASSUME WorkersOK, NEW w \in Workers, NEW t \in Tasks, NEW mem \in LiveRow,
         NEW from \in Pending \cup Terminal, NEW plan \in PlanForms, NEW da \in Int, NEW dt \in Int,
         Do(w, t, mem, from, plan, da, dt)
  PROVE  /\ WorkersOK' /\ Others(w) /\ Left(w, t) /\ wk'[w].plan = plan
         /\ plan # <<>> => At(wk'[w], t, mem, from, da, dt)
<1>1. CASE plan = <<>>
  <2>1. Drop(w, t)
    BY <1>1 DEF Do
  <2> QED BY <1>1, <2>1, DropEffect
<1>2. CASE plan # <<>>
  <2> DEFINE y == Begun(wk[w], t, mem, from, plan, da, dt)
  <2>1. wk' = [wk EXCEPT ![w] = y]
    BY <1>2 DEF Do, Begun
  <2>2. WorkerOK(wk[w])
    BY DEF WorkersOK
  <2>3. /\ WorkerOK(y) /\ y.at = wk[w].at /\ y.todo = wk[w].todo \ {t} /\ y.plan = plan
        /\ \A u \in y.todo : y.read[u] = wk[w].read[u]
        /\ y.task = t /\ y.mem = mem /\ y.from = from /\ y.da = da /\ y.dt = dt
    BY <2>2, BeginOK
  <2> HIDE DEF y
  <2>4. WorkersOK' /\ Others(w) /\ wk'[w] = y
    BY <2>1, <2>3, WorkerStep
  <2> QED BY <2>3, <2>4 DEF Left, At
<1> QED BY <1>1, <1>2

(* A worker goes on with its task. *)
LEMMA ContinueEffect ==
  ASSUME WorkersOK, NEW w \in Workers, wk[w].plan # <<>>, NEW plan \in PlanForms,
         Continue(w, plan)
  PROVE  /\ WorkersOK' /\ Others(w) /\ wk'[w].plan = plan /\ wk'[w].at = wk[w].at
         /\ wk'[w].todo \subseteq wk[w].todo
         /\ \A u \in wk'[w].todo : wk'[w].read[u] = wk[w].read[u]
         /\ plan # <<>> => At(wk'[w], wk[w].task, wk[w].mem, wk[w].from, wk[w].da, wk[w].dt)
<1>0. WorkerOK(wk[w])
  BY DEF WorkersOK
<1>1. CASE plan = <<>>
  <2>1. Drop(w, wk[w].task)
    BY <1>1 DEF Continue, Drop
  <2> QED BY <1>1, <2>1, DropEffect DEF Left
<1>2. CASE plan # <<>>
  <2> DEFINE y == [wk[w] EXCEPT !.plan = plan]
  <2>1. wk' = [wk EXCEPT ![w] = y]
    BY <1>2 DEF Continue
  <2>3. /\ WorkerOK(y) /\ y.at = wk[w].at /\ y.todo = wk[w].todo /\ y.plan = plan
        /\ y.read = wk[w].read
        /\ y.task = wk[w].task /\ y.mem = wk[w].mem /\ y.from = wk[w].from
        /\ y.da = wk[w].da /\ y.dt = wk[w].dt
    BY <1>0, GoOnOK
  <2> HIDE DEF y
  <2>4. WorkersOK' /\ Others(w) /\ wk'[w] = y
    BY <2>1, <2>3, WorkerStep
  <2> QED BY <2>3, <2>4 DEF At
<1> QED BY <1>1, <1>2

(* A worker lists rows. *)
LEMMA ListEffect ==
  ASSUME WorkersOK, NEW w \in Workers, NEW at \in {"idle", "sweep", "poll", "query"},
         NEW S \in SUBSET Tasks, \A t \in S : row[t] \in LiveRow,
         wk' = [wk EXCEPT ![w] = Listed(at, S)]
  PROVE  /\ WorkersOK' /\ Others(w) /\ wk'[w].plan = <<>> /\ wk'[w].at = at /\ wk'[w].todo = S
         /\ \A u \in S : wk'[w].read[u] = row[u]
<1> DEFINE y == Listed(at, S)
<1>1. /\ WorkerOK(y) /\ y.at = at /\ y.todo = S /\ y.plan = <<>>
      /\ \A t \in S : y.read[t] = row[t]
  BY ListOK
<1>2. wk' = [wk EXCEPT ![w] = y]
  OBVIOUS
<1> HIDE DEF y
<1>3. WorkersOK' /\ Others(w) /\ wk'[w] = y
  BY <1>1, <1>2, WorkerStep
<1> QED BY <1>1, <1>3

(* A worker stops. *)
LEMMA IdleEffect ==
  ASSUME WorkersOK, NEW w \in Workers, wk' = [wk EXCEPT ![w] = Idle]
  PROVE  WorkersOK' /\ Others(w) /\ wk'[w].plan = <<>> /\ wk'[w].todo = {} /\ wk'[w].at = "idle"
<1>1. WorkersOK' /\ Others(w) /\ wk'[w] = Idle
  BY IdleOK, WorkerStep
<1> QED BY <1>1, IdleOK

-----------------------------------------------------------------------------
(* The actions by what they do to their worker *)

rest == <<row, img, aged, gone, funds, token, queries, faults, crashes, hurt>>

(* Worker w takes task t off its list, with the plan to make it as in mem. *)
Starts(w, t, mem, plan, da, dt) ==
    /\ wk[w].plan = <<>> /\ t \in wk[w].todo
    /\ Others(w) /\ Left(w, t) /\ wk'[w].plan = plan
    /\ plan # <<>> => At(wk'[w], t, mem, wk[w].read[t].status, da, dt)
    /\ mem.source = wk[w].read[t].source /\ mem.quota = wk[w].read[t].quota
    /\ mem.held = wk[w].read[t].held
    /\ Open(wk[w].read[t]) =>
         /\ Ends(t, mem) /\ Due(mem, da, dt)
         /\ \/ plan = <<>>
            \/ plan = <<"cas">> \o Bill(da, dt) /\ ~ mem.reason
            \/ Kind[t] = "suno" /\ w = Poller /\ plan = Bill(da, dt) \o <<"save">>
    /\ UNCHANGED rest

SomeStart(w) ==
    \E t \in Tasks, mem \in LiveRow, plan \in PlanForms, da \in Int, dt \in Int :
        Starts(w, t, mem, plan, da, dt)

(* A plan that begins with the conditional update, or ends with a save, has one of
   the forms. *)
LEMMA StartForms ==
  ASSUME NEW da \in Int, NEW dt \in Int
  PROVE  /\ Bill(da, dt) \in {<<>>, <<"fund">>, <<"fund", "token">>}
         /\ <<"cas">> \o Bill(da, dt) \in CasPlans /\ Bill(da, dt) \o <<"save">> \in SavePlans
BY BillForms DEF CasPlans, SavePlans

(* The list of a worker *)
LEMMA ReadFacts ==
  ASSUME WorkersOK, NEW w \in Workers, NEW t \in wk[w].todo
  PROVE  /\ t \in Tasks /\ wk[w].read[t] \in LiveRow
         /\ wk[w].read[t].status \in Pending \cup Terminal
         /\ wk[w].read[t].full \in BOOLEAN /\ wk[w].read[t].url \in BOOLEAN
         /\ wk[w].read[t].reason \in BOOLEAN
BY DEF WorkersOK, WorkerOK, LiveRow

(* sweepTimedOutTasks *)
LEMMA SweepEffect ==
  ASSUME WorkersOK, NEW t \in Tasks, SweepTask(t)
  PROVE  WorkersOK' /\ SomeStart(Poller)
<1> DEFINE w == Poller
           old == wk[w].read[t]
           mem == [old EXCEPT !.status = "FAILURE", !.full = TRUE]
           da == Refund(mem)[1]
           dt == Refund(mem)[2]
           plan == <<"cas">> \o Bill(da, dt)
<1>1. w \in Workers /\ wk[w].plan = <<>> /\ t \in wk[w].todo
  BY DEF SweepTask, ReadyFor, Workers
<1>2. Do(w, t, mem, old.status, plan, da, dt) /\ UNCHANGED rest
  BY DEF SweepTask, rest
<1>3. old \in LiveRow /\ old.status \in Pending \cup Terminal /\ "FAILURE" \in Pending \cup Terminal
  BY <1>1, ReadFacts DEF Terminal
<1>4. /\ mem \in LiveRow /\ mem.status = "FAILURE" /\ mem.full
      /\ mem.source = old.source /\ mem.quota = old.quota /\ mem.held = old.held
      /\ mem.reason = old.reason
  <2> HIDE DEF old
  <2> QED BY <1>3 DEF LiveRow
<1> HIDE DEF mem, old, w
<1>5. /\ da = - RefundAmount(mem) /\ dt = - TokenUnits(mem.source, mem.quota)
      /\ da \in Int /\ dt \in Int
  <2>1. RefundAmount(mem) \in Nat /\ TokenUnits(mem.source, mem.quota) \in Nat
    BY <1>4, TaskAssumption DEF LiveRow, RefundAmount, TokenUnits, Units
  <2> QED BY <2>1 DEF Refund
<1> HIDE DEF da, dt
<1>6. plan \in PlanForms /\ plan # <<>>
  BY <1>5, StartForms, PlansDiffer DEF PlanForms
<1> HIDE DEF plan
<1>7. /\ WorkersOK' /\ Others(w) /\ Left(w, t) /\ wk'[w].plan = plan
      /\ At(wk'[w], t, mem, old.status, da, dt)
  BY <1>1, <1>2, <1>3, <1>4, <1>5, <1>6, DoEffect
<1>8. ~ old.reason => Ends(t, mem) /\ Due(mem, da, dt) /\ ~ mem.reason
  BY <1>4, <1>5 DEF Ends, Due, Open, Pending
<1>9. Starts(w, t, mem, plan, da, dt)
  BY <1>1, <1>2, <1>4, <1>7, <1>8 DEF Starts, Open, old, plan
<1> QED BY <1>4, <1>5, <1>6, <1>7, <1>9 DEF SomeStart, w

(* updateSunoTasks *)
LEMMA SunoEffect ==
  ASSUME WorkersOK, NEW t \in Tasks, PollSuno(t)
  PROVE  WorkersOK' /\ SomeStart(Poller)
<1>1. PICK r \in Reports :
        LET old == wk[Poller].read[t]
            bad == r.reason \/ r.status = "FAILURE"
            mem == [old EXCEPT !.status = r.status, !.reason = @ \/ r.reason,
                               !.full = @ \/ bad \/ r.status = "SUCCESS"]
            d == IF bad THEN Refund(mem) ELSE <<0, 0>>
        IN IF mem = old THEN Drop(Poller, t)
           ELSE Do(Poller, t, mem, old.status, Bill(d[1], d[2]) \o <<"save">>, d[1], d[2])
  BY DEF PollSuno
<1> DEFINE w == Poller
           old == wk[w].read[t]
           bad == r.reason \/ r.status = "FAILURE"
           full == old.full \/ bad \/ r.status = "SUCCESS"
           reason == old.reason \/ r.reason
           mem == [old EXCEPT !.status = r.status, !.reason = reason, !.full = full]
           d == IF bad THEN Refund(mem) ELSE <<0, 0>>
           da == d[1]
           dt == d[2]
           plan == IF mem = old THEN <<>> ELSE Bill(da, dt) \o <<"save">>
<1>2. w \in Workers /\ wk[w].plan = <<>> /\ t \in wk[w].todo /\ Kind[t] = "suno" /\ UNCHANGED rest
  BY DEF PollSuno, ReadyFor, Workers, rest
<1>3. /\ old \in LiveRow /\ old.status \in Pending \cup Terminal
      /\ r.status \in Pending \cup Terminal /\ r.reason \in BOOLEAN
      /\ full \in BOOLEAN /\ reason \in BOOLEAN
  BY <1>2, ReadFacts, TaskAssumption
<1>4. /\ mem \in LiveRow /\ mem.status = r.status /\ mem.full = full /\ mem.reason = reason
      /\ mem.source = old.source /\ mem.quota = old.quota /\ mem.held = old.held
  <2> HIDE DEF old, full, reason
  <2> QED BY <1>3 DEF LiveRow
<1>5. mem = [old EXCEPT !.status = r.status, !.reason = @ \/ r.reason,
                        !.full = @ \/ bad \/ r.status = "SUCCESS"]
  BY <1>3 DEF LiveRow
<1>6. IF mem = old THEN Drop(w, t)
      ELSE Do(w, t, mem, old.status, Bill(da, dt) \o <<"save">>, da, dt)
  BY <1>1, <1>5, Zenon
<1> HIDE DEF mem, w
<1>7. /\ bad => da = - RefundAmount(mem) /\ dt = - TokenUnits(mem.source, mem.quota)
      /\ ~ bad => da = 0 /\ dt = 0
      /\ da \in Int /\ dt \in Int
  <2>1. RefundAmount(mem) \in Nat /\ TokenUnits(mem.source, mem.quota) \in Nat
    BY <1>4, TaskAssumption DEF LiveRow, RefundAmount, TokenUnits, Units
  <2> QED BY <2>1 DEF Refund
<1> HIDE DEF da, dt, d
<1>8. plan \in PlanForms
  BY <1>7, StartForms DEF PlanForms
<1>9. /\ WorkersOK' /\ Others(w) /\ Left(w, t) /\ wk'[w].plan = plan
      /\ plan # <<>> => At(wk'[w], t, mem, old.status, da, dt)
  <2>1. CASE mem = old
    BY <2>1, <1>2, <1>6, DropEffect
  <2>2. CASE mem # old
    <3>1. Do(w, t, mem, old.status, plan, da, dt)
      BY <2>2, <1>6
    <3> HIDE DEF plan, old
    <3> QED BY <1>2, <1>3, <1>4, <1>7, <1>8, <3>1, DoEffect
  <2> QED BY <2>1, <2>2
<1>10. ~ old.reason => Ends(t, mem) /\ Due(mem, da, dt)
  BY <1>2, <1>4, <1>7 DEF Ends, Due, Open, Pending, Terminal
<1>11. Starts(w, t, mem, plan, da, dt)
  BY <1>2, <1>4, <1>9, <1>10 DEF Starts, Open, w
<1> QED BY <1>4, <1>7, <1>8, <1>9, <1>11 DEF SomeStart, w

(* updateVideoSingleTask *)
LEMMA VideoEffect ==
  ASSUME WorkersOK, NEW w \in Workers, NEW t \in Tasks, UpdateVideo(w, t)
  PROVE  WorkersOK' /\ SomeStart(w)
<1>1. PICK r \in Answers(t), actual \in Actuals :
        LET old == wk[w].read[t]
            mem == Updated(old, r)
            d == CASE r.status = "FAILURE" -> Refund(mem)
                   [] r.status = "SUCCESS" -> SettleOnComplete(mem, actual)
                   [] OTHER -> <<0, 0>>
        IN Do(w, t, mem, old.status, VideoPlan(t, old, mem, d), d[1], d[2])
  BY DEF UpdateVideo
<1> DEFINE old == wk[w].read[t]
           mem == Updated(old, r)
           full == r.full \/ r.status = "FAILURE"
           url == old.url \/ r.status = "SUCCESS"
           d == CASE r.status = "FAILURE" -> Refund(mem)
                  [] r.status = "SUCCESS" -> SettleOnComplete(mem, actual)
                  [] OTHER -> <<0, 0>>
           da == d[1]
           dt == d[2]
           plan == VideoPlan(t, old, mem, d)
<1>2. wk[w].plan = <<>> /\ t \in wk[w].todo /\ UNCHANGED rest
  BY DEF UpdateVideo, Fetches, rest
<1>3. r.status \in Pending \cup Terminal /\ r.full \in BOOLEAN /\ actual \in Nat
  <2>1. CASE Kind[t] = "image"
    <3>1. r = [status |-> "FAILURE", full |-> TRUE, reason |-> TRUE]
      BY <2>1 DEF Answers
    <3> QED BY <3>1, TaskAssumption DEF Terminal
  <2>2. CASE Kind[t] # "image"
    BY <2>2, TaskAssumption DEF Answers
  <2> QED BY <2>1, <2>2
<1>4. old \in LiveRow /\ old.status \in Pending \cup Terminal /\ full \in BOOLEAN /\ url \in BOOLEAN
  BY <1>2, <1>3, ReadFacts
<1>5. mem = [old EXCEPT !.status = r.status, !.full = full, !.url = url]
  BY <1>4 DEF Updated, LiveRow
<1>6. /\ mem \in LiveRow /\ mem.status = r.status /\ mem.full = full /\ mem.url = url
      /\ mem.reason = old.reason /\ mem.source = old.source /\ mem.quota = old.quota /\ mem.held = old.held
  <2> HIDE DEF old, full, url, mem
  <2> QED BY <1>3, <1>4, <1>5 DEF LiveRow
<1>7. Do(w, t, mem, old.status, plan, da, dt)
  BY <1>1
<1> HIDE DEF mem
<1>8. /\ r.status = "FAILURE" => da = - RefundAmount(mem) /\ dt = - TokenUnits(mem.source, mem.quota)
      /\ r.status = "SUCCESS" =>
           \/ da = 0 /\ dt = 0
           \/ UsesTokenQuota(mem.source) /\ dt = da /\ actual # 0 /\ da = actual - mem.quota
      /\ r.status \in Pending => da = 0 /\ dt = 0
      /\ da \in Int /\ dt \in Int
  <2>1. /\ RefundAmount(mem) \in Nat /\ TokenUnits(mem.source, mem.quota) \in Nat
        /\ mem.quota \in Nat
    BY <1>6, TaskAssumption DEF LiveRow, RefundAmount, TokenUnits, Units
  <2>2. CASE r.status = "FAILURE"
    BY <2>1, <2>2 DEF Refund, Pending
  <2>3. CASE r.status = "SUCCESS"
    BY <2>1, <2>3, <1>3 DEF SettleOnComplete, Recalculate, Pending
  <2>4. CASE r.status \in Pending
    <3>1. d = <<0, 0>>
      BY <2>4 DEF Pending
    <3> QED BY <2>4, <3>1 DEF Pending
  <2> QED BY <1>3, <2>2, <2>3, <2>4 DEF Terminal
<1>9. plan = IF mem.status \in Terminal /\ mem.status # old.status THEN <<"cas">> \o Bill(da, dt)
             ELSE IF mem # old THEN <<"cas">> ELSE <<>>
  BY DEF VideoPlan
<1> HIDE DEF da, dt, d, plan, old
<1>10. plan \in PlanForms
  BY <1>8, <1>9, StartForms DEF PlanForms, CasPlans
<1>11. /\ WorkersOK' /\ Others(w) /\ Left(w, t) /\ wk'[w].plan = plan
       /\ plan # <<>> => At(wk'[w], t, mem, old.status, da, dt)
  BY <1>2, <1>4, <1>6, <1>7, <1>8, <1>10, DoEffect
<1>12. ~ old.reason => Ends(t, mem) /\ Due(mem, da, dt) /\ ~ mem.reason
  BY <1>3, <1>6, <1>8 DEF Ends, Due, Open
<1>13. old.status \in Pending => plan = <<>> \/ plan = <<"cas">> \o Bill(da, dt)
  <2> SUFFICES ASSUME old.status \in Pending PROVE plan = <<>> \/ plan = <<"cas">> \o Bill(da, dt)
    OBVIOUS
  <2>1. CASE mem.status \in Terminal
    BY <2>1, <1>9 DEF Pending, Terminal
  <2>2. CASE mem.status \in Pending
    <3>1. da = 0 /\ dt = 0 /\ mem.status \notin Terminal
      BY <2>2, <1>6, <1>8 DEF Pending, Terminal
    <3>2. <<"cas">> \o Bill(da, dt) = <<"cas">>
      BY <1>8, <3>1, BillForms
    <3> QED BY <1>9, <3>1, <3>2
  <2> QED BY <1>3, <1>6, <2>1, <2>2
<1>14. Starts(w, t, mem, plan, da, dt)
  BY <1>2, <1>6, <1>11, <1>12, <1>13 DEF Starts, Open, old
<1> QED BY <1>6, <1>8, <1>10, <1>11, <1>14 DEF SomeStart

(* Worker w goes on with its task. *)
Continued(w, plan) ==
    /\ Others(w) /\ wk[w].plan # <<>> /\ wk'[w].plan = plan /\ wk'[w].at = wk[w].at
    /\ wk'[w].todo \subseteq wk[w].todo
    /\ \A u \in wk'[w].todo : wk'[w].read[u] = wk[w].read[u]
    /\ plan # <<>> => At(wk'[w], wk[w].task, wk[w].mem, wk[w].from, wk[w].da, wk[w].dt)

(* The worker that a call belongs to *)
LEMMA CallerFacts ==
  ASSUME WorkersOK, NEW w \in Workers, NEW c, NextCall(w, c)
  PROVE  /\ wk[w].plan \in PlanForms /\ wk[w].plan # <<>> /\ Head(wk[w].plan) = c
         /\ wk[w].task \in Tasks /\ wk[w].mem \in LiveRow /\ wk[w].from \in Pending \cup Terminal
         /\ wk[w].da \in Int /\ wk[w].dt \in Int
         /\ Tail(wk[w].plan) \in PlanForms /\ SkipToken(Tail(wk[w].plan)) \in PlanForms
<1>1. WorkerOK(wk[w]) /\ wk[w].plan # <<>> /\ Head(wk[w].plan) = c
  BY DEF WorkersOK, NextCall
<1>2. /\ wk[w].plan \in PlanForms /\ wk[w].task \in Tasks /\ wk[w].mem \in LiveRow
      /\ wk[w].from \in Pending \cup Terminal /\ wk[w].da \in Int /\ wk[w].dt \in Int
  BY <1>1 DEF WorkerOK
<1> QED BY <1>1, <1>2, PlanSteps, SkipForms

(* UpdateWithStatus and what follows *)
LEMMA CasEffect ==
  ASSUME WorkersOK, NEW w \in Workers, CasStep(w)
  PROVE  /\ WorkersOK' /\ UNCHANGED <<img, aged, gone, funds, token, queries, crashes>>
         /\ \E o \in Outcomes :
              /\ Call(o)
              /\ row' = IF o # "lost" /\ Wins(w) THEN [row EXCEPT ![wk[w].task] = wk[w].mem] ELSE row
              /\ Continued(w, AfterCas(w, o = "ok" /\ Wins(w)))
              /\ HurtIf(o = "applied" /\ Wins(w) /\ Len(wk[w].plan) > 1, wk[w].task, "billing")
<1>1. PICK o \in Outcomes :
         /\ Call(o)
         /\ row' = IF o # "lost" /\ Wins(w) THEN [row EXCEPT ![wk[w].task] = wk[w].mem] ELSE row
         /\ Continue(w, AfterCas(w, o = "ok" /\ Wins(w)))
         /\ HurtIf(o = "applied" /\ Wins(w) /\ Len(wk[w].plan) > 1, wk[w].task, "billing")
  BY DEF CasStep
<1>2. UNCHANGED <<img, aged, gone, funds, token, queries, crashes>>
  BY DEF CasStep
<1>3. NextCall(w, "cas")
  BY DEF CasStep
<1> DEFINE plan == AfterCas(w, o = "ok" /\ Wins(w))
<1>4. wk[w].plan # <<>> /\ plan \in PlanForms
  BY <1>3, CallerFacts DEF AfterCas, PlanForms
<1> HIDE DEF plan
<1>5. Continue(w, plan)
  BY <1>1 DEF plan
<1>6. WorkersOK' /\ Continued(w, plan)
  BY <1>4, <1>5, ContinueEffect DEF Continued
<1> QED BY <1>1, <1>2, <1>6 DEF plan

(* Task.Update of a Suno task *)
LEMMA SaveEffect ==
  ASSUME WorkersOK, NEW w \in Workers, SaveStep(w)
  PROVE  /\ WorkersOK' /\ UNCHANGED <<img, aged, gone, funds, token, queries, crashes>>
         /\ Continued(w, Tail(wk[w].plan))
         /\ \E o \in Outcomes :
              /\ Call(o) /\ Saved(wk[w].task, wk[w].mem, o)
              /\ HurtIf(o = "lost", wk[w].task, "billing")
<1>1. NextCall(w, "save") /\ Continue(w, Tail(wk[w].plan))
  BY DEF SaveStep
<1>2. wk[w].plan # <<>> /\ Tail(wk[w].plan) \in PlanForms
  BY <1>1, CallerFacts
<1>3. WorkersOK' /\ Continued(w, Tail(wk[w].plan))
  BY <1>1, <1>2, ContinueEffect DEF Continued
<1> QED BY <1>3 DEF SaveStep

(* taskAdjustFunding *)
LEMMA FundEffect ==
  ASSUME WorkersOK, NEW w \in Workers, FundStep(w)
  PROVE  /\ WorkersOK' /\ UNCHANGED <<row, img, aged, gone, token, queries, crashes>>
         /\ \E o \in Outcomes :
              /\ Call(o)
              /\ funds' = IF o = "lost" THEN funds
                          ELSE [funds EXCEPT ![wk[w].task] = @ + wk[w].da]
              /\ Continued(w, IF o = "ok" THEN Tail(wk[w].plan) ELSE SkipToken(Tail(wk[w].plan)))
              /\ HurtIf(o # "ok", wk[w].task, "billing")
<1>1. PICK o \in Outcomes :
         /\ Call(o)
         /\ funds' = IF o = "lost" THEN funds ELSE [funds EXCEPT ![wk[w].task] = @ + wk[w].da]
         /\ Continue(w, IF o = "ok" THEN Tail(wk[w].plan) ELSE SkipToken(Tail(wk[w].plan)))
         /\ HurtIf(o # "ok", wk[w].task, "billing")
  BY DEF FundStep
<1>2. UNCHANGED <<row, img, aged, gone, token, queries, crashes>>
  BY DEF FundStep
<1>3. NextCall(w, "fund")
  BY DEF FundStep
<1> DEFINE plan == IF o = "ok" THEN Tail(wk[w].plan) ELSE SkipToken(Tail(wk[w].plan))
<1>4. wk[w].plan # <<>> /\ plan \in PlanForms
  BY <1>3, CallerFacts
<1> HIDE DEF plan
<1>5. Continue(w, plan)
  BY <1>1 DEF plan
<1>6. WorkersOK' /\ Continued(w, plan)
  BY <1>4, <1>5, ContinueEffect DEF Continued
<1> QED BY <1>1, <1>2, <1>6 DEF plan

(* taskAdjustTokenQuota *)
LEMMA TokenEffect ==
  ASSUME WorkersOK, NEW w \in Workers, TokenStep(w)
  PROVE  /\ WorkersOK' /\ UNCHANGED <<row, img, aged, gone, funds, queries, crashes>>
         /\ Continued(w, Tail(wk[w].plan))
         /\ \E o \in Outcomes :
              /\ Call(o)
              /\ token' = IF o = "lost" THEN token
                          ELSE [token EXCEPT ![wk[w].task] = @ + wk[w].dt]
              /\ HurtIf(o = "lost", wk[w].task, "billing")
<1>1. NextCall(w, "token") /\ Continue(w, Tail(wk[w].plan))
  BY DEF TokenStep
<1>2. wk[w].plan # <<>> /\ Tail(wk[w].plan) \in PlanForms
  BY <1>1, CallerFacts
<1>3. WorkersOK' /\ Continued(w, Tail(wk[w].plan))
  BY <1>1, <1>2, ContinueEffect DEF Continued
<1> QED BY <1>3 DEF TokenStep

(* Unfinished lists rows of tasks that were inserted. *)
LEMMA UnfinishedLive ==
  ASSUME TasksOK, NEW t \in Unfinished PROVE t \in Tasks /\ row[t] \in LiveRow /\ row[t].status \in Pending
<1>1. t \in Tasks /\ row[t].status \in Pending /\ row[t] \in Rows
  BY DEF Unfinished, TasksOK
<1>2. row[t].status # "none"
  BY <1>1 DEF Pending
<1> QED BY <1>1, <1>2, RowFacts

(* Worker w has read the rows of S. *)
Lists(w, S) ==
    /\ Others(w) /\ wk'[w].plan = <<>> /\ wk'[w].todo = S /\ \A u \in S : wk'[w].read[u] = row[u]
    /\ wk'[w].at # "idle"

(* GetTimedOutUnfinishedTasks and GetAllUnFinishSyncTasks *)
LEMMA ListsEffect ==
  ASSUME WorkersOK, TasksOK, SweepList \/ PollList
  PROVE  /\ WorkersOK' /\ UNCHANGED rest
         /\ \E S \in SUBSET Unfinished : Lists(Poller, S)
<1>1. PICK S \in SUBSET Unfinished, at \in {"sweep", "poll"} : List(S, at)
  BY DEF SweepList, PollList
<1>2. wk' = [wk EXCEPT ![Poller] = Listed(at, S)] /\ Poller \in Workers
  BY <1>1 DEF List, Listed, Workers
<1>3. S \in SUBSET Tasks /\ \A t \in S : row[t] \in LiveRow
  BY UnfinishedLive
<1>4. /\ WorkersOK' /\ Lists(Poller, S) /\ wk'[Poller].at = at
  BY <1>2, <1>3, ListEffect DEF Lists
<1>5. UNCHANGED rest
  BY DEF SweepList, PollList, rest
<1> QED BY <1>4, <1>5

(* GetUserTask *)
LEMMA QueryEffect ==
  ASSUME WorkersOK, TasksOK, NEW u \in Users, NEW t \in Tasks, Query(u, t)
  PROVE  /\ WorkersOK' /\ Lists(u, {t}) /\ Kind[t] # "suno" /\ row[t] \in LiveRow
         /\ ~ (row[t].status = "SUCCESS" /\ row[t].url)
         /\ ~ (row[t].status = "FAILURE" /\ row[t].full)
         /\ queries < MaxQueries /\ queries' = queries + 1
         /\ UNCHANGED <<row, img, aged, gone, funds, token, faults, crashes, hurt>>
<1>1. /\ Kind[t] # "suno" /\ row[t] # NoRow
      /\ ~ (row[t].status = "SUCCESS" /\ row[t].url)
      /\ ~ (row[t].status = "FAILURE" /\ row[t].full)
      /\ queries < MaxQueries /\ queries' = queries + 1
      /\ UNCHANGED <<row, img, aged, gone, funds, token, faults, crashes, hurt>>
  BY DEF Query
<1>2. wk' = [wk EXCEPT ![u] = Listed("query", {t})] /\ u \in Workers
  BY DEF Query, Listed, Workers
<1>3. row[t] \in LiveRow
  BY <1>1, RowFacts DEF TasksOK
<1>4. {t} \in SUBSET Tasks /\ \A x \in {t} : row[x] \in LiveRow
  BY <1>3
<1>5. WorkersOK' /\ Lists(u, {t})
  <2>1. /\ WorkersOK' /\ Others(u) /\ wk'[u].plan = <<>> /\ wk'[u].at = "query" /\ wk'[u].todo = {t}
        /\ \A x \in {t} : wk'[u].read[x] = row[x]
    BY <1>2, <1>4, ListEffect
  <2> QED BY <2>1 DEF Lists
<1> QED BY <1>1, <1>3, <1>5

-----------------------------------------------------------------------------
(* Type correctness *)

(* A database error is counted up to its bound. *)
LEMMA CallCounts ==
  ASSUME CountsOK, NEW o, Call(o) PROVE faults' \in 0 .. MaxFaults
BY TaskAssumption DEF CountsOK, Call

(* What is cut off is remembered for a task. *)
LEMMA HurtType ==
  ASSUME CountsOK, NEW bad, NEW t \in Tasks, NEW what \in {"settle", "billing", "channel", "overrun"}, HurtIf(bad, t, what)
  PROVE  hurt' \subseteq Tasks \X {"settle", "billing", "channel", "overrun"}
BY DEF CountsOK, HurtIf

Shrinks == \A v \in Workers : wk'[v].todo \subseteq wk[v].todo
RowsStay == \A t \in Tasks : row[t] # NoRow => row'[t] # NoRow

(* The lists of the workers only get shorter, and rows stay. *)
LEMMA KnownStep ==
  ASSUME WorkersOK, KnownRows, Shrinks, RowsStay PROVE KnownRows'
<1>1. \A v \in Workers : wk[v].todo \subseteq Tasks
  BY DEF WorkersOK, WorkerOK
<1> QED BY <1>1 DEF KnownRows, Shrinks, RowsStay

(* A worker that goes on, or leaves a task, shortens its list. *)
LEMMA ShrinkFacts ==
  ASSUME NEW w \in Workers
  PROVE  /\ \A plan : Continued(w, plan) => Shrinks
         /\ \A t : Others(w) /\ Left(w, t) => Shrinks
BY DEF Continued, Others, Left, Shrinks

(* Nothing but the workers changes. *)
LEMMA RestSame ==
  ASSUME TypeInv, UNCHANGED rest PROVE TasksOK' /\ CountsOK'
BY DEF TypeInv, TasksOK, CountsOK, ImageOK, rest

(* One row changes, or none. *)
LEMMA RowStep ==
  ASSUME TasksOK, NEW t \in Tasks, NEW y \in Rows, NEW c, row' = IF c THEN [row EXCEPT ![t] = y] ELSE row,
         UNCHANGED <<img, aged, gone, funds, token>>
  PROVE  /\ TasksOK' /\ \A u \in Tasks : u # t => row'[u] = row[u]
         /\ row'[t] = IF c THEN y ELSE row[t]
         /\ y \in LiveRow => RowsStay
<1>1. /\ row' \in [Tasks -> Rows] /\ \A u \in Tasks : u # t => row'[u] = row[u]
      /\ row'[t] = IF c THEN y ELSE row[t]
  BY DEF TasksOK
<1> QED BY <1>1, RowFacts DEF TasksOK, ImageOK, RowsStay

(* Task.Update in these terms *)
LEMMA SavedIs ==
  ASSUME TasksOK, NEW t \in Tasks, NEW y, NEW o, Saved(t, y, o)
  PROVE  row' = IF o # "lost" THEN [row EXCEPT ![t] = y] ELSE row
<1>1. row = [u \in Tasks |-> row[u]]
  BY DEF TasksOK
<1> QED BY <1>1 DEF Saved

(* What is owed is added to what was charged. *)
LEMMA LedgerStep ==
  ASSUME NEW f \in [Tasks -> Int], NEW t \in Tasks, NEW d \in Int, NEW o, NEW g,
         g = IF o = "lost" THEN f ELSE [f EXCEPT ![t] = @ + d]
  PROVE  /\ g \in [Tasks -> Int] /\ \A u \in Tasks : u # t => g[u] = f[u]
         /\ g[t] = IF o = "lost" THEN f[t] ELSE f[t] + d
OBVIOUS

(* The calls of a worker keep the types. *)
LEMMA CallType ==
  ASSUME TypeInv, NEW w \in Workers, CallStep(w) PROVE TypeInv'
<1> USE DEF TypeInv
<1>1. CASE CasStep(w)
  <2>1. /\ WorkersOK' /\ UNCHANGED <<img, aged, gone, funds, token, queries, crashes>>
        /\ \E o \in Outcomes :
              /\ Call(o)
              /\ row' = IF o # "lost" /\ Wins(w) THEN [row EXCEPT ![wk[w].task] = wk[w].mem] ELSE row
              /\ HurtIf(o = "applied" /\ Wins(w) /\ Len(wk[w].plan) > 1, wk[w].task, "billing")
        /\ \E plan : Continued(w, plan)
    BY <1>1, CasEffect
  <2>2. wk[w].task \in Tasks /\ wk[w].mem \in Rows /\ wk[w].mem \in LiveRow
    BY <1>1, CallerFacts DEF CasStep, Rows
  <2>3. TasksOK' /\ RowsStay
    BY <2>1, <2>2, RowStep
  <2>4. faults' \in 0 .. MaxFaults /\ hurt' \subseteq Tasks \X {"settle", "billing", "channel", "overrun"}
    BY <2>1, <2>2, CallCounts, HurtType
  <2>5. KnownRows'
    BY <2>1, <2>3, ShrinkFacts, KnownStep
  <2> QED BY <2>1, <2>3, <2>4, <2>5 DEF CountsOK
<1>2. CASE SaveStep(w)
  <2>1. PICK o \in Outcomes :
              /\ Call(o) /\ Saved(wk[w].task, wk[w].mem, o)
              /\ HurtIf(o = "lost", wk[w].task, "billing")
    BY <1>2, SaveEffect
  <2>2. WorkersOK' /\ UNCHANGED <<img, aged, gone, funds, token, queries, crashes>>
    BY <1>2, SaveEffect
  <2>3. wk[w].task \in Tasks /\ wk[w].mem \in Rows /\ wk[w].mem \in LiveRow
    BY <1>2, CallerFacts DEF SaveStep, Rows
  <2>4. row' = IF o # "lost" THEN [row EXCEPT ![wk[w].task] = wk[w].mem] ELSE row
    BY <2>1, <2>3, SavedIs
  <2>5. TasksOK' /\ RowsStay
    BY <2>2, <2>3, <2>4, RowStep
  <2>6. faults' \in 0 .. MaxFaults /\ hurt' \subseteq Tasks \X {"settle", "billing", "channel", "overrun"}
    BY <2>1, <2>3, CallCounts, HurtType
  <2>7. KnownRows'
    <3>1. Shrinks
      BY <1>2, SaveEffect, ShrinkFacts
    <3> QED BY <3>1, <2>5, KnownStep
  <2> QED BY <2>2, <2>5, <2>6, <2>7 DEF CountsOK
<1>3. CASE FundStep(w)
  <2>1. PICK o \in Outcomes :
              /\ Call(o)
              /\ funds' = IF o = "lost" THEN funds ELSE [funds EXCEPT ![wk[w].task] = @ + wk[w].da]
              /\ HurtIf(o # "ok", wk[w].task, "billing")
    BY <1>3, FundEffect
  <2>2. WorkersOK' /\ UNCHANGED <<row, img, aged, gone, token, queries, crashes>>
    BY <1>3, FundEffect
  <2>3. wk[w].task \in Tasks /\ wk[w].da \in Int
    BY <1>3, CallerFacts DEF FundStep
  <2>4. funds' \in [Tasks -> Int]
    BY <2>1, <2>3, LedgerStep DEF TasksOK
  <2>5. TasksOK'
    BY <2>2, <2>4 DEF TasksOK, ImageOK
  <2>6. faults' \in 0 .. MaxFaults /\ hurt' \subseteq Tasks \X {"settle", "billing", "channel", "overrun"}
    BY <2>1, <2>3, CallCounts, HurtType
  <2>8. RowsStay
    BY <2>2 DEF RowsStay
  <2>7. KnownRows'
    <3>1. Shrinks
      BY <1>3, FundEffect, ShrinkFacts
    <3> QED BY <3>1, <2>8, KnownStep
  <2> QED BY <2>2, <2>5, <2>6, <2>7 DEF CountsOK
<1>4. CASE TokenStep(w)
  <2>1. PICK o \in Outcomes :
              /\ Call(o)
              /\ token' = IF o = "lost" THEN token ELSE [token EXCEPT ![wk[w].task] = @ + wk[w].dt]
              /\ HurtIf(o = "lost", wk[w].task, "billing")
    BY <1>4, TokenEffect
  <2>2. WorkersOK' /\ UNCHANGED <<row, img, aged, gone, funds, queries, crashes>>
    BY <1>4, TokenEffect
  <2>3. wk[w].task \in Tasks /\ wk[w].dt \in Int
    BY <1>4, CallerFacts DEF TokenStep
  <2>4. token' \in [Tasks -> Int]
    BY <2>1, <2>3, LedgerStep DEF TasksOK
  <2>5. TasksOK'
    BY <2>2, <2>4 DEF TasksOK, ImageOK
  <2>6. faults' \in 0 .. MaxFaults /\ hurt' \subseteq Tasks \X {"settle", "billing", "channel", "overrun"}
    BY <2>1, <2>3, CallCounts, HurtType
  <2>8. RowsStay
    BY <2>2 DEF RowsStay
  <2>7. KnownRows'
    <3>1. Shrinks
      BY <1>4, TokenEffect, ShrinkFacts
    <3> QED BY <3>1, <2>8, KnownStep
  <2> QED BY <2>2, <2>5, <2>6, <2>7 DEF CountsOK
<1> QED BY <1>1, <1>2, <1>3, <1>4 DEF CallStep

(* TaskBulkUpdateByID *)
LEMMA BulkEffect ==
  ASSUME TypeInv, NEW t \in Tasks, BulkFail(t)
  PROVE  /\ TypeInv' /\ Others(Poller) /\ Left(Poller, t)
         /\ wk[Poller].plan = <<>> /\ wk'[Poller].plan = <<>> /\ t \in wk[Poller].todo
         /\ UNCHANGED <<img, aged, gone, funds, token, queries, crashes>> /\ hurt \subseteq hurt'
         /\ \/ row' = row
            \/ /\ row' = [row EXCEPT ![t] = [row[t] EXCEPT !.status = "FAILURE", !.full = TRUE]]
               /\ t \in BulkFailed'
<1> USE DEF TypeInv
<1>1. PICK o \in Outcomes, n \in {0, 1, 2} :
         /\ faults + n <= MaxFaults /\ faults' = faults + n
         /\ Saved(t, [row[t] EXCEPT !.status = "FAILURE", !.full = TRUE], o)
         /\ HurtIf(o # "lost", t, "channel")
  BY DEF BulkFail
<1>2. /\ UNCHANGED <<img, aged, gone, funds, token, queries, crashes>>
      /\ Drop(Poller, t) /\ t \in wk[Poller].todo /\ Poller \in Workers
      /\ wk[Poller].plan = <<>>
  BY DEF BulkFail, ReadyFor, Workers
<1>3. WorkersOK' /\ Others(Poller) /\ Left(Poller, t) /\ wk'[Poller].plan = <<>>
  BY <1>2, DropEffect
<1> DEFINE y == [row[t] EXCEPT !.status = "FAILURE", !.full = TRUE]
<1>4. row' = IF o # "lost" THEN [row EXCEPT ![t] = y] ELSE row
  BY <1>1, SavedIs
<1>5. row[t] \in LiveRow
  BY <1>2, RowFacts DEF KnownRows, TasksOK
<1>6. y \in Rows /\ y \in LiveRow
  BY <1>5, ChangedLive DEF Terminal, Rows
<1> HIDE DEF y
<1>7. TasksOK' /\ RowsStay
  BY <1>2, <1>4, <1>6, RowStep
<1>8. CountsOK'
  BY <1>1, <1>2, HurtType, TaskAssumption DEF CountsOK
<1>9. KnownRows'
  BY <1>2, <1>3, <1>7, ShrinkFacts, KnownStep
<1>10. hurt \subseteq hurt' /\ (o # "lost" => t \in BulkFailed')
  BY <1>1 DEF HurtIf, BulkFailed
<1> QED BY <1>2, <1>3, <1>4, <1>7, <1>8, <1>9, <1>10 DEF y

(* A step of a worker alone *)
LEMMA QuietType ==
  ASSUME TypeInv, WorkersOK', UNCHANGED rest, Shrinks PROVE TypeInv'
<1>1. TasksOK' /\ CountsOK'
  BY RestSame
<1>2. RowsStay
  BY DEF RowsStay, rest
<1>3. KnownRows'
  BY <1>2, KnownStep DEF TypeInv
<1> QED BY <1>1, <1>3 DEF TypeInv

(* A step that begins with a task *)
LEMMA StartType ==
  ASSUME TypeInv, NEW w \in Workers, WorkersOK', SomeStart(w) PROVE TypeInv'
<1>1. Shrinks /\ UNCHANGED rest
  BY ShrinkFacts DEF SomeStart, Starts
<1> QED BY <1>1, QuietType

(* A worker leaves a task without a plan for it, or stops. *)
Leaves(w) ==
    /\ Others(w) /\ wk[w].plan = <<>> /\ wk'[w].plan = <<>>
    /\ UNCHANGED rest
    /\ \/ wk'[w].todo = {} /\ wk'[w].at = "idle"
       \/ \E t \in Tasks : t \in wk[w].todo /\ Left(w, t)

(* PollEnd, QueryEnd, FetchFails and the image tasks of the poller *)
LEMMA LeavesEffect ==
  ASSUME TypeInv, NEW w \in Workers,
         \/ PollEnd /\ w = Poller
         \/ QueryEnd(w)
         \/ \E t \in Tasks : FetchFails(w, t) \/ (PollImage(t) /\ w = Poller)
  PROVE  TypeInv' /\ Leaves(w)
<1>0. WorkersOK
  BY DEF TypeInv
<1>1. CASE (PollEnd /\ w = Poller) \/ QueryEnd(w)
  <2>1. wk' = [wk EXCEPT ![w] = Idle] /\ wk[w].plan = <<>> /\ UNCHANGED rest
    BY <1>1 DEF PollEnd, QueryEnd, ReadyFor, rest
  <2>2. WorkersOK' /\ Others(w) /\ wk'[w].plan = <<>> /\ wk'[w].todo = {} /\ wk'[w].at = "idle"
    BY <1>0, <2>1, IdleEffect
  <2>3. Shrinks
    BY <2>2 DEF Others, Shrinks
  <2> QED BY <2>1, <2>2, <2>3, QuietType DEF Leaves
<1>2. ASSUME NEW t \in Tasks, FetchFails(w, t) \/ (PollImage(t) /\ w = Poller)
      PROVE  TypeInv' /\ Leaves(w)
  <2>1. Drop(w, t) /\ wk[w].plan = <<>> /\ t \in wk[w].todo /\ UNCHANGED rest
    BY <1>2 DEF FetchFails, PollImage, Fetches, ReadyFor, rest
  <2>2. WorkersOK' /\ Others(w) /\ Left(w, t) /\ wk'[w].plan = <<>>
    BY <1>0, <2>1, DropEffect
  <2>3. Shrinks
    BY <2>2, ShrinkFacts
  <2> QED BY <2>1, <2>2, <2>3, QuietType DEF Leaves
<1> QED BY <1>1, <1>2

(* The lists of the poller keep the types. *)
LEMMA ListsType ==
  ASSUME TypeInv, SweepList \/ PollList PROVE TypeInv'
<1>0. WorkersOK /\ TasksOK /\ KnownRows
  BY DEF TypeInv
<1>1. WorkersOK' /\ UNCHANGED rest /\ \E S \in SUBSET Unfinished : Lists(Poller, S)
  BY <1>0, ListsEffect
<1>2. TasksOK' /\ CountsOK' /\ row' = row
  BY <1>1, RestSame DEF rest
<1>3. \A t \in Unfinished : row[t] # NoRow
  BY <1>0, UnfinishedLive, RowFacts
<1>4. KnownRows'
  BY <1>0, <1>1, <1>2, <1>3 DEF KnownRows, Lists, Others
<1> QED BY <1>1, <1>2, <1>4 DEF TypeInv

(* A query keeps the types. *)
LEMMA QueryType ==
  ASSUME TypeInv, NEW u \in Users, NEW t \in Tasks, Query(u, t) PROVE TypeInv'
<1>0. WorkersOK /\ TasksOK /\ KnownRows /\ CountsOK
  BY DEF TypeInv
<1>1. /\ WorkersOK' /\ Lists(u, {t}) /\ row[t] \in LiveRow
      /\ queries < MaxQueries /\ queries' = queries + 1
      /\ UNCHANGED <<row, img, aged, gone, funds, token, faults, crashes, hurt>>
  BY <1>0, QueryEffect
<1>2. TasksOK'
  BY <1>0, <1>1 DEF TasksOK, ImageOK
<1>3. CountsOK'
  BY <1>0, <1>1, TaskAssumption DEF CountsOK
<1>4. KnownRows'
  BY <1>0, <1>1, RowFacts DEF KnownRows, Lists, Others
<1> QED BY <1>1, <1>2, <1>3, <1>4 DEF TypeInv

(* The process of a worker dies. *)
LEMMA CrashEffect ==
  ASSUME TypeInv, NEW w \in Workers, Crash(w)
  PROVE  /\ TypeInv' /\ Others(w) /\ wk'[w].plan = <<>> /\ wk'[w].todo = {} /\ wk'[w].at = "idle"
         /\ HurtIf(InBilling(w), wk[w].task, "billing")
         /\ UNCHANGED <<row, img, aged, gone, funds, token, queries, faults>>
<1> USE DEF TypeInv
<1>1. /\ wk' = [wk EXCEPT ![w] = Idle] /\ crashes < MaxCrashes /\ crashes' = crashes + 1
      /\ HurtIf(InBilling(w), wk[w].task, "billing")
      /\ UNCHANGED <<row, img, aged, gone, funds, token, queries, faults>>
  BY DEF Crash
<1>2. WorkersOK' /\ Others(w) /\ wk'[w].plan = <<>> /\ wk'[w].todo = {} /\ wk'[w].at = "idle"
  BY <1>1, IdleEffect
<1>3. hurt' \subseteq Tasks \X {"settle", "billing", "channel", "overrun"}
  <2>1. CASE InBilling(w)
    <3>1. wk[w].task \in Tasks
      BY <2>1 DEF InBilling, WorkersOK, WorkerOK
    <3> QED BY <1>1, <3>1, HurtType
  <2>2. CASE ~ InBilling(w)
    BY <1>1, <2>2 DEF HurtIf, CountsOK
  <2> QED BY <2>1, <2>2
<1>4. CountsOK'
  BY <1>1, <1>3, TaskAssumption DEF CountsOK
<1>5. TasksOK'
  BY <1>1 DEF TasksOK, ImageOK
<1>6. KnownRows'
  BY <1>1, <1>2 DEF KnownRows, Others
<1> QED BY <1>1, <1>2, <1>4, <1>5, <1>6

(* Time passes, or a channel is deleted. *)
LEMMA OutsideType ==
  ASSUME TypeInv, NEW t \in Tasks, Age(t) \/ DeleteChannel(t)
  PROVE  /\ TypeInv' /\ UNCHANGED <<row, wk, img, funds, token, queries, faults, crashes, hurt>>
         /\ gone \subseteq gone'
<1>1. /\ aged' \subseteq Tasks /\ gone' \subseteq Tasks /\ gone \subseteq gone'
      /\ UNCHANGED <<row, wk, img, funds, token, queries, faults, crashes, hurt>>
  BY DEF TypeInv, TasksOK, Age, DeleteChannel
<1>2. WorkersOK'
  BY <1>1 DEF TypeInv, WorkersOK, WorkerOK
<1>3. TasksOK' /\ CountsOK' /\ KnownRows'
  BY <1>1 DEF TypeInv, TasksOK, CountsOK, KnownRows, ImageOK
<1> QED BY <1>1, <1>2, <1>3 DEF TypeInv

(* The workers stay as they are. *)
LEMMA WorkersSame ==
  ASSUME TypeInv, wk' = wk, RowsStay PROVE WorkersOK' /\ KnownRows'
<1>1. WorkersOK'
  BY DEF TypeInv, WorkersOK, WorkerOK
<1>2. Shrinks
  BY DEF Shrinks
<1> QED BY <1>1, <1>2, KnownStep DEF TypeInv

(* The goroutine of an image task changes, or stays. *)
LEMMA ImagesStep ==
  ASSUME img \in [Tasks -> Images], \A t \in Tasks : ImageOK(img[t]),
         NEW t \in Tasks, NEW y, ImageOK(y), img' = [img EXCEPT ![t] = y]
  PROVE  img' \in [Tasks -> Images] /\ \A u \in Tasks : ImageOK(img'[u])
<1>1. y \in Images
  BY DEF ImageOK
<1>2. img' \in [Tasks -> Images]
  BY <1>1
<1>3. \A u \in Tasks : img'[u] = IF u = t THEN y ELSE img[u]
  OBVIOUS
<1> QED BY <1>2, <1>3

(* The fields of a goroutine *)
LEMMA ImageMake ==
  ASSUME NEW pc \in {"none", "start", "running", "saving", "done"}, NEW mem \in Rows, NEW hold \in Nat,
         pc \in {"start", "running", "saving"} => mem \in LiveRow
  PROVE  ImageOK([pc |-> pc, mem |-> mem, hold |-> hold])
BY DEF ImageOK, Images

(* What a task is charged is a number. *)
LEMMA UnitsInt ==
  ASSUME NEW src, NEW q \in Nat PROVE Units(src, q) \in Nat /\ TokenUnits(src, q) \in Nat
BY DEF Units, TokenUnits

(* The errors of a submission are counted. *)
LEMMA BadCount ==
  ASSUME NEW bad \in SUBSET {"settle", "insert"} PROVE Cardinality(bad) \in Nat
<1>1. IsFiniteSet({"settle", "insert"})
  <2>1. IsFiniteSet({"settle"}) /\ IsFiniteSet({"insert"})
    BY FS_Singleton
  <2>2. IsFiniteSet({"settle"} \cup {"insert"})
    BY <2>1, FS_Union
  <2>3. {"settle"} \cup {"insert"} = {"settle", "insert"}
    OBVIOUS
  <2> QED BY <2>2, <2>3, Zenon
<1> QED BY <1>1, FS_Subset, FS_CardinalityType

(* A task that was submitted *)
Submitted(t, src, h, q, charged) ==
    /\ row[t] = NoRow /\ Kind[t] # "image"
    /\ funds' = [funds EXCEPT ![t] = Units(src, charged)]
    /\ token' = [token EXCEPT ![t] = TokenUnits(src, charged)]
    /\ \/ row' = row
       \/ row' = [row EXCEPT ![t] = NewRow("NOT_START", src, q, h)]
    /\ \/ charged = q /\ hurt' = hurt
       \/ charged = h /\ hurt' = hurt \cup {<<t, "settle">>}
    /\ UNCHANGED <<wk, img, aged, gone, queries, crashes>>

(* RelayTask *)
LEMMA SubmitEffect ==
  ASSUME TypeInv, NEW t \in Tasks, SubmitTask(t)
  PROVE  /\ TypeInv'
         /\ \E src \in Sources, h \in Holds, q \in Quotas, charged \in Nat :
              Submitted(t, src, h, q, charged)
<1>1. PICK src \in Sources, h \in Holds \ {0}, q \in Quotas, bad \in SUBSET {"settle", "insert"} :
         LET charged == IF "settle" \in bad THEN h ELSE q
         IN /\ faults + Cardinality(bad) <= MaxFaults
            /\ faults' = faults + Cardinality(bad)
            /\ funds' = [funds EXCEPT ![t] = Units(src, charged)]
            /\ token' = [token EXCEPT ![t] = TokenUnits(src, charged)]
            /\ row' = [row EXCEPT ![t] =
                         IF "insert" \in bad THEN @ ELSE NewRow("NOT_START", src, q, h)]
            /\ HurtIf("settle" \in bad, t, "settle")
  BY DEF SubmitTask
<1> DEFINE charged == IF "settle" \in bad THEN h ELSE q
           y == IF "insert" \in bad THEN row[t] ELSE NewRow("NOT_START", src, q, h)
<1>2. charged \in Nat /\ Units(src, charged) \in Int /\ TokenUnits(src, charged) \in Int
  BY UnitsInt, TaskAssumption
<1>3. NewRow("NOT_START", src, q, h) \in LiveRow
  BY NewRowLive DEF Pending
<1>4. row[t] = NoRow /\ Kind[t] # "image" /\ UNCHANGED <<wk, img, aged, gone, queries, crashes>>
  BY DEF SubmitTask
<1>5. Submitted(t, src, h, q, charged)
  <2>1. row' = [row EXCEPT ![t] = y]
    BY <1>1
  <2>2. "insert" \in bad => row' = row
    BY <2>1 DEF TypeInv, TasksOK
  <2>3. "insert" \notin bad => row' = [row EXCEPT ![t] = NewRow("NOT_START", src, q, h)]
    BY <2>1
  <2>4. \/ charged = q /\ hurt' = hurt
        \/ charged = h /\ hurt' = hurt \cup {<<t, "settle">>}
    BY <1>1 DEF HurtIf
  <2>5. /\ funds' = [funds EXCEPT ![t] = Units(src, charged)]
        /\ token' = [token EXCEPT ![t] = TokenUnits(src, charged)]
    BY <1>1
  <2> HIDE DEF charged
  <2> QED BY <1>4, <2>2, <2>3, <2>4, <2>5 DEF Submitted
<1>6. faults' \in 0 .. MaxFaults
  BY <1>1, BadCount, TaskAssumption DEF TypeInv, CountsOK
<1>7. hurt' \subseteq Tasks \X {"settle", "billing", "channel", "overrun"}
  BY <1>1, HurtType DEF TypeInv
<1> HIDE DEF charged
<1>8. /\ row' \in [Tasks -> Rows] /\ funds' \in [Tasks -> Int] /\ token' \in [Tasks -> Int]
      /\ RowsStay
  <2>1. NewRow("NOT_START", src, q, h) \in Rows /\ NewRow("NOT_START", src, q, h) # NoRow
    BY <1>3, RowFacts DEF Rows
  <2>2. row \in [Tasks -> Rows] /\ funds \in [Tasks -> Int] /\ token \in [Tasks -> Int]
    BY DEF TypeInv, TasksOK
  <2> QED BY <1>2, <1>5, <2>1, <2>2 DEF Submitted, RowsStay
<1>9. TasksOK' /\ CountsOK'
  BY <1>4, <1>6, <1>7, <1>8 DEF TypeInv, TasksOK, CountsOK, ImageOK
<1>10. WorkersOK' /\ KnownRows'
  BY <1>4, <1>8, WorkersSame
<1> QED BY <1>2, <1>5, <1>9, <1>10 DEF TypeInv

(* submitAsyncImageTask *)
LEMMA SubmitImageType ==
  ASSUME TypeInv, NEW t \in Tasks, SubmitImage(t) PROVE TypeInv'
<1>1. PICK src \in Sources, h \in Holds, q \in Quotas, o \in Outcomes :
         LET new == NewRow("SUBMITTED", src, q, h)
         IN /\ Call(o)
            /\ row' = [row EXCEPT ![t] = IF o = "lost" THEN @ ELSE new]
            /\ HurtIf(o # "ok", t, "billing")
            /\ IF o = "ok"
                 THEN /\ img' = [img EXCEPT ![t] = [pc |-> "start", mem |-> new, hold |-> h]]
                      /\ funds' = [funds EXCEPT ![t] = Units(src, h)]
                      /\ token' = [token EXCEPT ![t] = TokenUnits(src, h)]
                 ELSE /\ img' = [img EXCEPT ![t].pc = "done"]
                      /\ UNCHANGED ledger
  BY DEF SubmitImage
<1> DEFINE new == NewRow("SUBMITTED", src, q, h)
<1>2. new \in LiveRow /\ new \in Rows /\ new # NoRow
  BY NewRowLive, RowFacts DEF Pending, Rows
<1>3. h \in Nat /\ Units(src, h) \in Int /\ TokenUnits(src, h) \in Int
  BY UnitsInt, TaskAssumption
<1>4. UNCHANGED <<wk, aged, gone, queries, crashes>>
  BY DEF SubmitImage
<1> HIDE DEF new
<1>5. row' \in [Tasks -> Rows] /\ RowsStay
  <2>1. row' = [row EXCEPT ![t] = IF o = "lost" THEN row[t] ELSE new]
    BY <1>1 DEF new
  <2> QED BY <2>1, <1>2 DEF TypeInv, TasksOK, RowsStay
<1>6. /\ img' \in [Tasks -> Images] /\ \A u \in Tasks : ImageOK(img'[u])
      /\ funds' \in [Tasks -> Int] /\ token' \in [Tasks -> Int]
  <2>0. /\ img \in [Tasks -> Images] /\ \A u \in Tasks : ImageOK(img[u])
        /\ funds \in [Tasks -> Int] /\ token \in [Tasks -> Int]
    BY DEF TypeInv, TasksOK
  <2>1. CASE o = "ok"
    <3> DEFINE y == [pc |-> "start", mem |-> new, hold |-> h]
    <3>1. img' = [img EXCEPT ![t] = y]
      BY <1>1, <2>1 DEF new
    <3>2. ImageOK(y)
      BY <1>2, <1>3, ImageMake
    <3> HIDE DEF y
    <3>3. img' \in [Tasks -> Images] /\ \A u \in Tasks : ImageOK(img'[u])
      BY <2>0, <3>1, <3>2, ImagesStep
    <3>4. /\ funds' = [funds EXCEPT ![t] = Units(src, h)]
          /\ token' = [token EXCEPT ![t] = TokenUnits(src, h)]
      BY <1>1, <2>1
    <3> QED BY <1>3, <2>0, <3>3, <3>4
  <2>2. CASE o # "ok"
    <3> DEFINE y == [img[t] EXCEPT !.pc = "done"]
    <3>1. img' = [img EXCEPT ![t] = y] /\ UNCHANGED <<funds, token>>
      BY <1>1, <2>2 DEF ledger
    <3>2. ImageOK(y)
      BY <2>0 DEF ImageOK, Images
    <3> HIDE DEF y
    <3> QED BY <2>0, <3>1, <3>2, ImagesStep
  <2> QED BY <2>1, <2>2
<1>7. faults' \in 0 .. MaxFaults /\ hurt' \subseteq Tasks \X {"settle", "billing", "channel", "overrun"}
  BY <1>1, CallCounts, HurtType DEF TypeInv
<1>8. TasksOK' /\ CountsOK'
  BY <1>4, <1>5, <1>6, <1>7 DEF TypeInv, TasksOK, CountsOK
<1>9. WorkersOK' /\ KnownRows'
  BY <1>4, <1>5, WorkersSame
<1> QED BY <1>8, <1>9 DEF TypeInv

(* The goroutine of an image task *)
LEMMA ImageType ==
  ASSUME TypeInv, NEW t \in Tasks, ImageStep(t) \/ CrashImage(t) PROVE TypeInv'
<1>0. /\ img \in [Tasks -> Images] /\ \A u \in Tasks : ImageOK(img[u])
      /\ row \in [Tasks -> Rows] /\ funds \in [Tasks -> Int] /\ token \in [Tasks -> Int]
  BY DEF TypeInv, TasksOK
<1> DEFINE m == img[t].mem
           h == img[t].hold
<1>1. h \in Nat /\ m \in Rows /\ (img[t].pc \in {"start", "running", "saving"} => m \in LiveRow)
  BY <1>0 DEF ImageOK, Images
<1>2. CASE ImageStart(t)
  <2>1. UNCHANGED <<wk, aged, gone, funds, token, queries, crashes>> /\ m \in LiveRow
    BY <1>1, <1>2 DEF ImageStart
  <2> DEFINE mem == [m EXCEPT !.status = "IN_PROGRESS"]
             y == [pc |-> "running", mem |-> mem, hold |-> h]
  <2>2. PICK o \in Outcomes :
          /\ Call(o) /\ Saved(t, mem, o) /\ img' = [img EXCEPT ![t] = y]
          /\ HurtIf(Overruns(t, o), t, "overrun")
    BY <1>2 DEF ImageStart
  <2>3. mem \in LiveRow /\ mem \in Rows /\ mem # NoRow
    <3> HIDE DEF m
    <3>1. mem \in LiveRow
      BY <2>1, ChangedLive DEF Pending
    <3> QED BY <3>1, RowFacts DEF Rows
  <2> HIDE DEF mem, m, h
  <2>4. ImageOK(y)
    BY <1>1, <2>3, ImageMake
  <2> HIDE DEF y
  <2>5. img' \in [Tasks -> Images] /\ \A u \in Tasks : ImageOK(img'[u])
    BY <1>0, <2>2, <2>4, ImagesStep
  <2>6. row' \in [Tasks -> Rows] /\ RowsStay
    BY <1>0, <2>2, <2>3 DEF Saved, RowsStay
  <2>7. faults' \in 0 .. MaxFaults /\ hurt' \subseteq Tasks \X {"settle", "billing", "channel", "overrun"}
    BY <2>2, CallCounts, HurtType DEF TypeInv
  <2>8. TasksOK' /\ CountsOK'
    BY <1>0, <2>1, <2>5, <2>6, <2>7 DEF TypeInv, TasksOK, CountsOK
  <2>9. WorkersOK' /\ KnownRows'
    BY <2>1, <2>6, WorkersSame
  <2> QED BY <2>8, <2>9 DEF TypeInv
<1>3. CASE ImageEnds(t)
  <2>1. UNCHANGED <<row, wk, aged, gone, queries, faults, crashes, hurt>> /\ m \in LiveRow
    BY <1>1, <1>3 DEF ImageEnds
  <2>2. PICK cost \in Actuals, st \in Terminal, url \in BOOLEAN :
         LET due == IF st = "SUCCESS" /\ cost > 0 THEN cost ELSE 0
             src == img[t].mem.source
         IN /\ funds' = [funds EXCEPT ![t] = @ + (IF due = 0 THEN 0 ELSE Units(src, due))
                                              - Units(src, h)]
            /\ token' = [token EXCEPT ![t] = @ + TokenUnits(src, due) - TokenUnits(src, h)]
            /\ img' = [img EXCEPT ![t] =
                         [pc |-> "saving", hold |-> h,
                          mem |-> [m EXCEPT !.status = st, !.full = TRUE, !.url = url]]]
    BY <1>3 DEF ImageEnds
  <2> DEFINE due == IF st = "SUCCESS" /\ cost > 0 THEN cost ELSE 0
             src == img[t].mem.source
             mem == [m EXCEPT !.status = st, !.full = TRUE, !.url = url]
             y == [pc |-> "saving", mem |-> mem, hold |-> h]
  <2>3. mem \in LiveRow /\ mem \in Rows
    <3> HIDE DEF m
    <3>1. mem \in LiveRow
      BY <2>1, ChangedLive
    <3> QED BY <3>1 DEF Rows
  <2>4. img' = [img EXCEPT ![t] = y]
    BY <2>2
  <2>5. /\ funds' = [funds EXCEPT ![t] = funds[t] + (IF due = 0 THEN 0 ELSE Units(src, due)) - Units(src, h)]
        /\ token' = [token EXCEPT ![t] = token[t] + TokenUnits(src, due) - TokenUnits(src, h)]
    BY <2>2
  <2> HIDE DEF mem, m, h
  <2>6. ImageOK(y)
    BY <1>1, <2>3, ImageMake
  <2> HIDE DEF y
  <2>7. img' \in [Tasks -> Images] /\ \A u \in Tasks : ImageOK(img'[u])
    BY <1>0, <2>4, <2>6, ImagesStep
  <2>8. due \in Nat
    BY TaskAssumption
  <2> HIDE DEF due, src
  <2>9. /\ Units(src, due) \in Nat /\ TokenUnits(src, due) \in Nat
        /\ Units(src, h) \in Nat /\ TokenUnits(src, h) \in Nat
    BY <1>1, <2>8, UnitsInt
  <2>10. funds' \in [Tasks -> Int] /\ token' \in [Tasks -> Int]
    BY <1>0, <2>5, <2>9
  <2>11. TasksOK' /\ CountsOK'
    BY <2>1, <2>7, <2>10 DEF TypeInv, TasksOK, CountsOK
  <2>12. WorkersOK' /\ KnownRows'
    BY <2>1, WorkersSame DEF RowsStay
  <2> QED BY <2>11, <2>12 DEF TypeInv
<1>4. CASE ImageSave(t)
  <2>1. UNCHANGED <<wk, aged, gone, funds, token, queries, crashes>> /\ m \in LiveRow
    BY <1>1, <1>4 DEF ImageSave
  <2>2. PICK o \in Outcomes, what \in {"billing", "overrun"} :
          Call(o) /\ Saved(t, m, o) /\ HurtIf(o = "lost" \/ Overruns(t, o), t, what)
    BY <1>4 DEF ImageSave
  <2> DEFINE y == [img[t] EXCEPT !.pc = "done"]
  <2>3. img' = [img EXCEPT ![t] = y]
    BY <1>4 DEF ImageSave
  <2>4. ImageOK(y)
    BY <1>0 DEF ImageOK, Images
  <2> HIDE DEF y
  <2>5. img' \in [Tasks -> Images] /\ \A u \in Tasks : ImageOK(img'[u])
    BY <1>0, <2>3, <2>4, ImagesStep
  <2>6. row' \in [Tasks -> Rows] /\ RowsStay
    <3>1. m # NoRow
      BY <2>1, RowFacts
    <3> HIDE DEF m
    <3> QED BY <1>0, <1>1, <2>2, <3>1 DEF Saved, RowsStay
  <2>7. faults' \in 0 .. MaxFaults /\ hurt' \subseteq Tasks \X {"settle", "billing", "channel", "overrun"}
    BY <2>2, CallCounts, HurtType DEF TypeInv
  <2>8. TasksOK' /\ CountsOK'
    BY <1>0, <2>1, <2>5, <2>6, <2>7 DEF TypeInv, TasksOK, CountsOK
  <2>9. WorkersOK' /\ KnownRows'
    BY <2>1, <2>6, WorkersSame
  <2> QED BY <2>8, <2>9 DEF TypeInv
<1>5. CASE CrashImage(t)
  <2>1. /\ UNCHANGED <<row, wk, aged, gone, funds, token, queries, faults>>
        /\ crashes < MaxCrashes /\ crashes' = crashes + 1
        /\ HurtIf(img[t].pc = "saving", t, "billing")
    BY <1>5 DEF CrashImage
  <2> DEFINE y == [img[t] EXCEPT !.pc = "done"]
  <2>2. img' = [img EXCEPT ![t] = y]
    BY <1>5 DEF CrashImage
  <2>3. ImageOK(y)
    BY <1>0 DEF ImageOK, Images
  <2> HIDE DEF y
  <2>4. img' \in [Tasks -> Images] /\ \A u \in Tasks : ImageOK(img'[u])
    BY <1>0, <2>2, <2>3, ImagesStep
  <2>5. hurt' \subseteq Tasks \X {"settle", "billing", "channel", "overrun"}
    BY <2>1, HurtType DEF TypeInv
  <2>6. TasksOK' /\ CountsOK'
    BY <1>0, <2>1, <2>4, <2>5, TaskAssumption DEF TypeInv, TasksOK, CountsOK
  <2>7. WorkersOK' /\ KnownRows'
    BY <2>1, WorkersSame DEF RowsStay
  <2> QED BY <2>6, <2>7 DEF TypeInv
<1> QED BY <1>2, <1>3, <1>4, <1>5 DEF ImageStep

(* The initial state *)
LEMMA InitType == Init => TypeInv
<1> SUFFICES ASSUME Init PROVE TypeInv
  OBVIOUS
<1>1. WorkersOK
  <2>1. wk = [w \in Workers |-> Idle]
    BY DEF Init
  <2>2. \A w \in Workers : wk[w] = Idle
    BY <2>1
  <2> QED BY <2>1, <2>2, IdleOK DEF WorkersOK
<1>2. ImageOK(NoImage) /\ NoImage \in Images /\ NoRow \in Rows
  BY DEF ImageOK, NoImage, Images, Rows
<1>3. TasksOK
  BY <1>2 DEF Init, TasksOK
<1>4. CountsOK /\ KnownRows
  BY IdleOK, TaskAssumption DEF Init, CountsOK, KnownRows
<1> QED BY <1>1, <1>3, <1>4 DEF TypeInv

(* Every step keeps the types. *)
LEMMA NextType ==
  ASSUME TypeInv, [Next]_vars PROVE TypeInv'
<1>0. WorkersOK /\ Poller \in Workers
  BY DEF TypeInv, Workers
<1>1. CASE SweepList \/ PollList
  BY <1>1, ListsType
<1>2. ASSUME NEW w \in Workers, CallStep(w) PROVE TypeInv'
  BY <1>2, CallType
<1>3. ASSUME NEW t \in Tasks, SweepTask(t) \/ PollSuno(t) PROVE TypeInv'
  BY <1>0, <1>3, SweepEffect, SunoEffect, StartType
<1>4. ASSUME NEW t \in Tasks, BulkFail(t) PROVE TypeInv'
  BY <1>4, BulkEffect
<1>5. ASSUME NEW w \in Workers, NEW t \in Tasks, UpdateVideo(w, t) PROVE TypeInv'
  BY <1>0, <1>5, VideoEffect, StartType
<1>6. ASSUME NEW w \in Workers, NEW t \in Tasks, FetchFails(w, t) PROVE TypeInv'
  BY <1>6, LeavesEffect
<1>7. ASSUME NEW t \in Tasks, PollImage(t) PROVE TypeInv'
  BY <1>0, <1>7, LeavesEffect
<1>8. ASSUME NEW w \in Workers, (PollEnd /\ w = Poller) \/ QueryEnd(w) PROVE TypeInv'
  BY <1>8, LeavesEffect
<1>9. ASSUME NEW u \in Users, NEW t \in Tasks, Query(u, t) PROVE TypeInv'
  BY <1>9, QueryType
<1>10. ASSUME NEW t \in Tasks, SubmitTask(t) \/ SubmitImage(t) PROVE TypeInv'
  BY <1>10, SubmitEffect, SubmitImageType
<1>11. ASSUME NEW t \in Tasks, ImageStep(t) \/ CrashImage(t) PROVE TypeInv'
  BY <1>11, ImageType
<1>12. ASSUME NEW t \in Tasks, Age(t) \/ DeleteChannel(t) PROVE TypeInv'
  BY <1>12, OutsideType
<1>13. ASSUME NEW w \in Workers, Crash(w) PROVE TypeInv'
  BY <1>13, CrashEffect
<1>14. CASE UNCHANGED vars
  <2>1. UNCHANGED rest /\ wk' = wk
    BY <1>14 DEF vars, rest
  <2>2. TasksOK' /\ CountsOK' /\ RowsStay
    BY <2>1, RestSame DEF rest, RowsStay
  <2> QED BY <2>1, <2>2, WorkersSame DEF TypeInv
<1>15. CASE PollerStep
  <2>1. CASE SweepList \/ PollList \/ PollEnd \/ CallStep(Poller)
    BY <2>1, <1>0, <1>1, <1>2, <1>8
  <2>2. ASSUME NEW t \in Tasks,
               \/ SweepTask(t) \/ BulkFail(t) \/ PollImage(t) \/ PollSuno(t)
               \/ FetchFails(Poller, t) \/ UpdateVideo(Poller, t)
        PROVE TypeInv'
    BY <2>2, <1>0, <1>3, <1>4, <1>5, <1>6, <1>7
  <2> QED BY <1>15, <2>1, <2>2 DEF PollerStep
<1>16. ASSUME NEW u \in Users, QueryStep(u) PROVE TypeInv'
  <2>1. u \in Workers
    BY DEF Workers
  <2> QED BY <1>16, <2>1, <1>2, <1>5, <1>6, <1>8 DEF QueryStep
<1> QED BY <1>9, <1>10, <1>11, <1>12, <1>13, <1>14, <1>15, <1>16 DEF Next

(* The types imply the type invariant that TLC checks. *)
LEMMA TypeInvTypeOK == TypeInv => TypeOK
<1> SUFFICES ASSUME TypeInv PROVE TypeOK
  OBVIOUS
<1>1. row \in [Tasks -> RowType]
  BY RowFacts DEF TypeInv, TasksOK
<1>2. \A w \in Workers :
         /\ wk[w].at \in {"idle", "sweep", "poll", "query"}
         /\ wk[w].todo \subseteq Tasks /\ DOMAIN wk[w].read = wk[w].todo
         /\ wk[w].plan \in Plans /\ wk[w].mem \in RowType
         /\ wk[w].plan # <<>> => wk[w].task \in Tasks /\ wk[w].from \in Pending \cup Terminal
         /\ wk[w].da \in Int /\ wk[w].dt \in Int
  <2> TAKE w \in Workers
  <2>1. WorkerOK(wk[w])
    BY DEF TypeInv, WorkersOK
  <2> QED BY <2>1, FormsArePlans, RowFacts DEF WorkerOK
<1>3. img \in [Tasks -> [pc : {"none", "start", "running", "saving", "done"},
                         mem : RowType, hold : Nat]]
  <2>1. Images \subseteq [pc : {"none", "start", "running", "saving", "done"}, mem : RowType, hold : Nat]
    BY RowFacts DEF Images
  <2> QED BY <2>1 DEF TypeInv, TasksOK
<1> QED BY <1>1, <1>2, <1>3 DEF TypeInv, TasksOK, CountsOK, TypeOK

(* In every reachable state the rows, the workers with what they read and what they
   plan, the goroutines and the ledgers have their types, whatever the tasks, the
   reports of the upstream and the bounds are. *)
THEOREM TypeCorrect == Spec => []TypeOK
<1>1. Init => TypeInv
  BY InitType
<1>2. TypeInv /\ [Next]_vars => TypeInv'
  BY NextType
<1>3. TypeInv => TypeOK
  BY TypeInvTypeOK
<1> QED BY <1>1, <1>2, <1>3, PTL DEF Spec

-----------------------------------------------------------------------------
(* What plans imply, kept by every step *)

(* Only the bulk failure adds to the tasks that failed in bulk. *)
LEMMA FailedSame ==
  ASSUME NEW bad, NEW t, NEW what \in {"settle", "billing"}, HurtIf(bad, t, what)
  PROVE  BulkFailed' = BulkFailed /\ hurt \subseteq hurt'
BY DEF BulkFailed, HurtIf

(* More tasks fail in bulk. *)
LEMMA FailedGrows ==
  ASSUME hurt \subseteq hurt' PROVE BulkFailed \subseteq BulkFailed'
BY DEF BulkFailed

(* The other tasks that fail in bulk do not matter to what a plan implies. *)
LEMMA GoneGrows ==
  ASSUME NEW v, NEW x, NEW r, NEW g, NEW g2, g \subseteq g2, WorkerInv(v, x, r, g)
  PROVE  WorkerInv(v, x, r, g2)
BY DEF WorkerInv, Work

(* Another one changes the row of task t, which is not a Suno task of this worker and
   still has the status that this worker bills. *)
LEMMA Bystander ==
  ASSUME NEW v, NEW x, NEW r, NEW r2, NEW g, NEW t,
         WorkerInv(v, x, r, g), x.todo \subseteq Tasks, x.plan # <<>> => x.task \in Tasks,
         \A u \in Tasks : u # t => r2[u] = r[u],
         r[t] # NoRow => Version(r[t], r2[t]), Ends(t, r2[t]),
         Kind[t] = "suno" => t \notin x.todo /\ (x.plan # <<>> => x.task # t),
         x.plan \in BillPlans /\ x.task = t =>
            r2[t].status \in Terminal /\ (t \notin g => r2[t].status = x.mem.status)
  PROVE  WorkerInv(v, x, r2, g)
<1>1. \A u \in x.todo : Read(v, u, x.read[u], r2[u])
  <2> TAKE u \in x.todo
  <2>1. Read(v, u, x.read[u], r[u]) /\ u \in Tasks
    BY DEF WorkerInv
  <2>2. CASE u # t
    BY <2>1, <2>2
  <2>3. CASE u = t
    BY <2>1, <2>3 DEF Read, Version
  <2> QED BY <2>2, <2>3
<1>2. ASSUME x.plan # <<>> PROVE Work(v, x, r2[x.task], g)
  <2>1. Work(v, x, r[x.task], g) /\ x.task \in Tasks
    BY <1>2 DEF WorkerInv
  <2>2. CASE x.task # t
    BY <2>1, <2>2
  <2>3. CASE x.task = t
    BY <1>2, <2>1, <2>3 DEF Work, Version, Ends
  <2> QED BY <2>2, <2>3
<1> QED BY <1>1, <1>2 DEF WorkerInv

(* The worker has fewer rows left. *)
LEMMA LessToRead ==
  ASSUME NEW v, NEW x, NEW y, NEW r, NEW g, WorkerInv(v, x, r, g), y.todo \subseteq x.todo,
         \A u \in y.todo : y.read[u] = x.read[u]
  PROVE  \A u \in y.todo : Read(v, u, y.read[u], r[u])
BY DEF WorkerInv

(* Whom a plan with calls to the ledgers belongs to *)
LEMMA BillingFacts ==
  ASSUME WorkersOK, MoveInv, NEW v \in Workers, NEW t \in Tasks, Billing(wk[v], t)
  PROVE  /\ wk[v].plan # <<>> /\ wk[v].task = t /\ Work(v, wk[v], row[t], BulkFailed)
         /\ row[t] # NoRow
         /\ row[t].status \in Pending => Kind[t] = "suno" /\ v = Poller
<1>1. wk[v].plan # <<>> /\ wk[v].task = t /\ wk[v].plan \in BillPlans \cup SavePlans
  BY PlansDiffer DEF Billing
<1>2. Work(v, wk[v], row[t], BulkFailed)
  BY <1>1 DEF MoveInv, WorkerInv
<1> QED BY <1>1, <1>2 DEF Work, Version, Pending, Terminal

(* One worker takes a step. *)
LEMMA AloneStep ==
  ASSUME Alone, NEW w \in Workers, Others(w),
         \A t \in Tasks : Billing(wk'[w], t) =>
            \/ Billing(wk[w], t)
            \/ \A v \in Workers : v # w => ~ Billing(wk[v], t)
  PROVE  Alone'
BY DEF Alone, Others, Billing

(* One worker takes a step and no row changes. *)
LEMMA MoveStep ==
  ASSUME TypeInv, MoveInv, NEW w \in Workers, Others(w), UNCHANGED <<row, img, BulkFailed>>,
         WorkerInv(w, wk'[w], row, BulkFailed),
         \A t \in Tasks : Billing(wk'[w], t) =>
            \/ Billing(wk[w], t)
            \/ \A v \in Workers : v # w => ~ Billing(wk[v], t)
  PROVE  MoveInv'
<1>1. \A v \in Workers : WorkerInv(v, wk'[v], row', BulkFailed')
  BY DEF MoveInv, Others
<1>2. Alone'
  BY AloneStep DEF MoveInv
<1> QED BY <1>1, <1>2 DEF MoveInv

(* A worker without a plan *)
LEMMA NoPlan ==
  ASSUME NEW x, x.plan = <<>> PROVE \A t : ~ Billing(x, t)
BY PlansDiffer DEF Billing

(* A worker that begins with a task *)
LEMMA StartMove ==
  ASSUME TypeInv, MoveInv, NEW w \in Workers, SomeStart(w)
  PROVE  MoveInv' /\ row' = row
<1>1. PICK t \in Tasks, mem \in LiveRow, plan \in PlanForms, da \in Int, dt \in Int :
        Starts(w, t, mem, plan, da, dt)
  BY DEF SomeStart
<1> DEFINE x == wk[w]
           y == wk'[w]
<1>2. /\ Others(w) /\ y.plan = plan /\ UNCHANGED <<row, img, BulkFailed>>
      /\ y.todo \subseteq x.todo /\ y.todo = x.todo \ {t} /\ \A u \in y.todo : y.read[u] = x.read[u]
      /\ t \in x.todo /\ y.at = x.at
      /\ plan # <<>> => y.task = t /\ y.mem = mem /\ y.from = x.read[t].status /\ y.da = da /\ y.dt = dt
      /\ mem.source = x.read[t].source /\ mem.quota = x.read[t].quota /\ mem.held = x.read[t].held
  BY <1>1 DEF Starts, Left, At, rest, BulkFailed
<1>3. WorkerInv(w, x, row, BulkFailed) /\ WorkersOK
  BY DEF MoveInv, TypeInv
<1>4. Read(w, t, x.read[t], row[t])
  BY <1>2, <1>3 DEF WorkerInv
<1>5. /\ Ends(t, mem) /\ Due(mem, da, dt)
      /\ \/ plan = <<>>
         \/ plan = <<"cas">> \o Bill(da, dt) /\ ~ mem.reason
         \/ Kind[t] = "suno" /\ w = Poller /\ plan = Bill(da, dt) \o <<"save">>
  BY <1>1, <1>4 DEF Starts, Read
<1>6. /\ plan = <<"cas">> \o Bill(da, dt) => plan \in CasPlans
      /\ plan = Bill(da, dt) \o <<"save">> => plan \in SavePlans
  BY StartForms
<1> HIDE DEF x, y
<1>7. ASSUME y.plan # <<>> PROVE Work(w, y, row[y.task], BulkFailed)
  <2>1. /\ y.task = t /\ y.mem = mem /\ y.from \in Pending /\ y.task \notin y.todo
        /\ y.da = da /\ y.dt = dt
    BY <1>2, <1>4, <1>7 DEF Read, Open
  <2>2. Version(mem, row[t])
    BY <1>2, <1>4 DEF Read, Version
  <2>3. plan \notin BillPlans /\ (plan \in SavePlans => Kind[t] = "suno" /\ Open(row[t]))
    BY <1>2, <1>4, <1>5, <1>6, <1>7, PlansDiffer DEF Read
  <2>4. PlanFits(y)
    BY <1>2, <1>5, <1>6, <1>7, <2>1, <2>3, PlansDiffer DEF PlanFits, BillPlans, SavePlans, CasPlans
  <2>5. Kind[t] = "suno" => w = Poller
    BY <1>4 DEF Read
  <2>6. plan \in CasPlans => ~ mem.reason /\ ~ row[t].reason
    <3>1. t \in Tasks /\ Ends(t, row[t])
      BY DEF MoveInv
    <3> QED BY <1>4, <1>5, <1>6, <3>1, PlansDiffer DEF Read, Open, Ends
  <2> QED BY <1>2, <1>5, <2>1, <2>2, <2>3, <2>4, <2>5, <2>6 DEF Work
<1>8. WorkerInv(w, y, row, BulkFailed)
  <2>1. y.at # "idle"
    BY <1>2, <1>3 DEF WorkerInv
  <2> QED BY <1>2, <1>3, <1>7, <2>1, LessToRead DEF WorkerInv
<1>9. \A u \in Tasks : Billing(y, u) => \A v \in Workers : v # w => ~ Billing(wk[v], u)
  <2> SUFFICES ASSUME NEW u \in Tasks, Billing(y, u), NEW v \in Workers, v # w, Billing(wk[v], u)
               PROVE  FALSE
    OBVIOUS
  <2>1. y.plan # <<>> /\ y.task = u /\ y.plan \in BillPlans \cup SavePlans
    BY PlansDiffer DEF Billing
  <2>2. u = t /\ Kind[t] = "suno" /\ w = Poller
    BY <1>2, <1>5, <1>6, <2>1, PlansDiffer
  <2>3. Work(v, wk[v], row[u], BulkFailed) /\ wk[v].task = u
    BY <1>3, BillingFacts
  <2> QED BY <2>2, <2>3 DEF Work
<1> QED BY <1>2, <1>8, <1>9, MoveStep DEF y

(* A worker that leaves a task or stops *)
LEMMA LeavesMove ==
  ASSUME TypeInv, MoveInv, NEW w \in Workers, Others(w), wk'[w].plan = <<>>,
         UNCHANGED <<row, img, BulkFailed>>,
         wk'[w].todo = {} \/ \E t : Left(w, t)
  PROVE  MoveInv'
<1>1. WorkerInv(w, wk[w], row, BulkFailed)
  BY DEF MoveInv
<1>2. wk'[w].todo \subseteq wk[w].todo /\ \A u \in wk'[w].todo : wk'[w].read[u] = wk[w].read[u]
  BY DEF Left
<1>3. WorkerInv(w, wk'[w], row, BulkFailed)
  <2>1. wk'[w].at = "idle" => wk'[w].todo = {}
    BY <1>1 DEF Left, WorkerInv
  <2> QED BY <1>1, <1>2, <2>1, LessToRead DEF WorkerInv
<1> QED BY <1>3, NoPlan, MoveStep

(* A worker that lists rows of open tasks *)
LEMMA ListsMove ==
  ASSUME TypeInv, MoveInv, NEW w \in Workers, NEW S \in SUBSET Tasks, Lists(w, S),
         UNCHANGED <<row, img, BulkFailed>>,
         \A t \in S : row[t] # NoRow /\ Open(row[t]) /\ (Kind[t] = "suno" => w = Poller)
  PROVE  MoveInv'
<1>1. WorkerInv(w, wk'[w], row, BulkFailed)
  BY DEF Lists, WorkerInv, Read, Version
<1> QED BY <1>1, NoPlan, MoveStep DEF Lists

(* Finished tasks keep their status, unless they are failed in bulk. *)
Final ==
    \A t \in Tasks :
       row[t].status \in Terminal /\ row'[t].status # row[t].status =>
         row'[t].status = "FAILURE" /\ t \in BulkFailed'

(* The row of one task changes, whose worker is w or nobody. *)
LEMMA MoveRow ==
  ASSUME TypeInv, MoveInv, NEW w \in Workers, Others(w), UNCHANGED img, hurt \subseteq hurt',
         NEW t \in Tasks,
         \A u \in Tasks : u # t => row'[u] = row[u],
         row[t] # NoRow => Version(row[t], row'[t]),
         Ends(t, row'[t]),
         row[t] # NoRow /\ Kind[t] = "suno" => w = Poller,
         \A v \in Workers : v # w /\ wk[v].plan \in BillPlans /\ wk[v].task = t =>
            row'[t].status \in Terminal /\ (t \notin BulkFailed' => row'[t].status = wk[v].mem.status),
         WorkerInv(w, wk'[w], row', BulkFailed'),
         Alone'
  PROVE  MoveInv'
<1>1. ASSUME NEW v \in Workers, v # w PROVE WorkerInv(v, wk[v], row', BulkFailed')
  <2>1. WorkerInv(v, wk[v], row, BulkFailed')
    BY FailedGrows, GoneGrows DEF MoveInv
  <2>2. wk[v].todo \subseteq Tasks /\ (wk[v].plan # <<>> => wk[v].task \in Tasks)
    BY DEF TypeInv, WorkersOK, WorkerOK
  <2>3. ASSUME Kind[t] = "suno" PROVE t \notin wk[v].todo /\ (wk[v].plan # <<>> => wk[v].task # t)
    <3>1. t \in wk[v].todo => row[t] # NoRow /\ v = Poller
      BY <2>1, <2>3 DEF WorkerInv, Read, Version
    <3>2. wk[v].plan # <<>> /\ wk[v].task = t => row[t] # NoRow /\ v = Poller
      BY <2>1, <2>3 DEF WorkerInv, Work, Version
    <3> QED BY <1>1, <2>3, <3>1, <3>2
  <2> QED BY <1>1, <2>1, <2>2, <2>3, Bystander
<1>2. \A v \in Workers : WorkerInv(v, wk'[v], row', BulkFailed')
  BY <1>1 DEF Others
<1>3. \A u \in Tasks : img'[u] = NoImage /\ Ends(u, row'[u])
  BY DEF MoveInv
<1> QED BY <1>2, <1>3 DEF MoveInv, Ends

(* Nobody bills an open task but the poller a Suno task. *)
LEMMA NobodyElse ==
  ASSUME TypeInv, MoveInv, NEW w \in Workers, wk[w].plan # <<>>, row[wk[w].task].status \in Pending,
         NEW v \in Workers, v # w
  PROVE  ~ Billing(wk[v], wk[w].task)
<1>1. wk[w].task \in Tasks /\ Work(w, wk[w], row[wk[w].task], BulkFailed) /\ WorkersOK
  BY DEF TypeInv, WorkersOK, WorkerOK, MoveInv, WorkerInv
<1> QED BY <1>1, BillingFacts DEF Work

(* UpdateWithStatus *)
LEMMA CasMove ==
  ASSUME TypeInv, MoveInv, NEW w \in Workers, CasStep(w)
  PROVE  MoveInv' /\ Final
<1>0. WorkersOK /\ TasksOK
  BY DEF TypeInv
<1>1. NextCall(w, "cas") /\ UNCHANGED img
  BY DEF CasStep
<1>a. BulkFailed' = BulkFailed /\ hurt \subseteq hurt'
  BY FailedSame DEF CasStep
<1>2. PICK o \in Outcomes :
        /\ row' = IF o # "lost" /\ Wins(w) THEN [row EXCEPT ![wk[w].task] = wk[w].mem] ELSE row
        /\ Continued(w, AfterCas(w, o = "ok" /\ Wins(w)))
  BY <1>0, CasEffect
<1> DEFINE x == wk[w]
           y == wk'[w]
           t == wk[w].task
           moved == o # "lost" /\ Wins(w)
           plan == AfterCas(w, o = "ok" /\ Wins(w))
<1>3. /\ x.plan \in PlanForms /\ x.plan # <<>> /\ x.plan \in CasPlans /\ t \in Tasks
      /\ x.mem \in LiveRow /\ x.da \in Int /\ x.dt \in Int
  BY <1>0, <1>1, CallerFacts, PlanSteps
<1>4. /\ WorkerInv(w, x, row, BulkFailed) /\ Work(w, x, row[t], BulkFailed)
  BY <1>3 DEF MoveInv, WorkerInv
<1>5. /\ Others(w) /\ y.plan = plan /\ y.todo \subseteq x.todo /\ y.at = x.at
      /\ \A u \in y.todo : y.read[u] = x.read[u]
      /\ plan # <<>> => y.task = t /\ y.mem = x.mem /\ y.from = x.from /\ y.da = x.da /\ y.dt = x.dt
  BY <1>2 DEF Continued, At
<1>6. /\ x.plan = <<"cas">> \o Bill(x.da, x.dt) /\ x.from \in Pending /\ Version(x.mem, row[t])
      /\ t \notin x.todo /\ Ends(t, x.mem) /\ Due(x.mem, x.da, x.dt) /\ (Kind[t] = "suno" => w = Poller)
      /\ ~ x.mem.reason /\ ~ row[t].reason
  BY <1>3, <1>4 DEF Work, PlanFits
<1>7. Tail(x.plan) = Bill(x.da, x.dt)
  BY <1>3, <1>6, BillForms, PlanTails
<1>8. /\ plan # <<>> => plan = Bill(x.da, x.dt) /\ moved
      /\ plan # <<>> => plan \in {<<"fund">>, <<"fund", "token">>} /\ x.da # 0
  BY <1>3, <1>7, BillForms DEF AfterCas
<1>9. /\ row'[t] = IF moved THEN x.mem ELSE row[t]
      /\ \A u \in Tasks : u # t => row'[u] = row[u]
  BY <1>0, <1>2, <1>3 DEF TasksOK
<1>10. moved => row[t].status \in Pending
  BY <1>6 DEF Wins
<1>11. x.mem # NoRow /\ x.mem.status \in Pending \cup Terminal /\ Version(x.mem, row'[t])
       /\ Version(row[t], row'[t])
  BY <1>3, <1>6, <1>9, RowFacts DEF LiveRow, Version
<1>12. Ends(t, row'[t])
  BY <1>3, <1>6, <1>9 DEF MoveInv
<1>13. \A v \in Workers : v # w /\ moved => ~ Billing(wk[v], t)
  BY <1>3, <1>10, NobodyElse
<1>14. \A v \in Workers : v # w /\ wk[v].plan \in BillPlans /\ wk[v].task = t =>
            row'[t].status \in Terminal /\ (t \notin BulkFailed => row'[t].status = wk[v].mem.status)
  <2> SUFFICES ASSUME NEW v \in Workers, v # w, wk[v].plan \in BillPlans, wk[v].task = t
               PROVE  row'[t].status \in Terminal /\ (t \notin BulkFailed => row'[t].status = wk[v].mem.status)
    OBVIOUS
  <2>1. ~ moved /\ Billing(wk[v], t)
    BY <1>13 DEF Billing
  <2>2. Work(v, wk[v], row[t], BulkFailed)
    BY <1>0, <1>3, <2>1, BillingFacts
  <2> QED BY <1>9, <2>1, <2>2 DEF Work
<1> HIDE DEF x, y, moved, plan
<1>15. ASSUME y.plan # <<>> PROVE Work(w, y, row'[y.task], BulkFailed)
  <2>1. /\ y.task = t /\ y.mem = x.mem /\ y.from = x.from /\ y.da = x.da /\ y.dt = x.dt
        /\ y.plan = Bill(x.da, x.dt) /\ moved /\ x.da # 0
        /\ y.plan \in {<<"fund">>, <<"fund", "token">>}
    BY <1>5, <1>8, <1>15
  <2>2. row'[t] = x.mem /\ x.mem.status \in Terminal
    BY <1>6, <1>9, <1>11, <2>1 DEF Due, Open
  <2>3. y.plan \in BillPlans /\ y.plan \notin CasPlans /\ y.plan \notin SavePlans
    BY <2>1, PlansDiffer DEF BillPlans
  <2>4. PlanFits(y)
    BY <2>1, <2>3 DEF PlanFits, SavePlans
  <2>5. y.task \notin y.todo
    BY <1>5, <1>6, <2>1
  <2>6. Version(y.mem, row'[y.task]) /\ y.from \in Pending /\ Ends(y.task, y.mem)
        /\ Due(y.mem, y.da, y.dt)
    BY <1>6, <1>11, <2>1
  <2>7. ~ y.mem.reason /\ ~ row'[y.task].reason
    BY <1>6, <2>1, <2>2
  <2> QED BY <1>6, <2>1, <2>2, <2>3, <2>4, <2>5, <2>6, <2>7 DEF Work
<1>16. \A u \in y.todo : Read(w, u, y.read[u], row'[u])
  <2>1. \A u \in y.todo : Read(w, u, y.read[u], row[u])
    BY <1>4, <1>5, LessToRead
  <2>2. \A u \in y.todo : row'[u] = row[u]
    <3>1. y.todo \subseteq Tasks /\ t \notin y.todo
      BY <1>0, <1>5, <1>6 DEF WorkersOK, WorkerOK, x
    <3> QED BY <1>9, <3>1
  <2> QED BY <2>1, <2>2
<1>17. WorkerInv(w, y, row', BulkFailed)
  <2>1. y.at # "idle"
    BY <1>3, <1>4, <1>5 DEF WorkerInv
  <2> QED BY <1>15, <1>16, <2>1 DEF WorkerInv
<1>18. Alone'
  <2>1. \A u \in Tasks : Billing(y, u) => \A v \in Workers : v # w => ~ Billing(wk[v], u)
    BY <1>5, <1>8, <1>13, PlansDiffer DEF Billing
  <2> QED BY <1>5, <2>1, AloneStep DEF MoveInv, y
<1>19. MoveInv'
  <2>1. Others(w) /\ t \in Tasks /\ (row[t] # NoRow /\ Kind[t] = "suno" => w = Poller)
        /\ Version(row[t], row'[t]) /\ \A u \in Tasks : u # t => row'[u] = row[u]
    BY <1>3, <1>5, <1>6, <1>9, <1>11
  <2>2. WorkerInv(w, wk'[w], row', BulkFailed')
    BY <1>a, <1>17 DEF y
  <2>3. \A v \in Workers : v # w /\ wk[v].plan \in BillPlans /\ wk[v].task = t =>
            row'[t].status \in Terminal /\ (t \notin BulkFailed' => row'[t].status = wk[v].mem.status)
    BY <1>a, <1>14
  <2> HIDE DEF t
  <2> QED BY <1>1, <1>a, <1>12, <1>18, <2>1, <2>2, <2>3, MoveRow
<1>20. Final
  BY <1>3, <1>9, <1>10 DEF Final, Pending, Terminal
<1> QED BY <1>19, <1>20

(* Task.Update of a Suno task *)
LEMMA SaveMove ==
  ASSUME TypeInv, MoveInv, NEW w \in Workers, SaveStep(w)
  PROVE  MoveInv' /\ Final
<1>0. WorkersOK /\ TasksOK
  BY DEF TypeInv
<1>1. NextCall(w, "save") /\ UNCHANGED img
  BY DEF SaveStep
<1>a. BulkFailed' = BulkFailed /\ hurt \subseteq hurt'
  BY FailedSame DEF SaveStep
<1> DEFINE x == wk[w]
           y == wk'[w]
           t == wk[w].task
<1>2. Continued(w, Tail(x.plan)) /\ \E o \in Outcomes : Saved(t, x.mem, o)
  BY <1>0, SaveEffect
<1>3. x.plan = <<"save">> /\ x.plan # <<>> /\ t \in Tasks /\ x.mem \in LiveRow
  BY <1>0, <1>1, CallerFacts, PlanSteps
<1>4. WorkerInv(w, x, row, BulkFailed) /\ Work(w, x, row[t], BulkFailed)
  BY <1>3 DEF MoveInv, WorkerInv
<1>5. /\ Others(w) /\ y.plan = <<>> /\ y.todo \subseteq x.todo /\ y.at = x.at
      /\ \A u \in y.todo : y.read[u] = x.read[u]
  BY <1>2, <1>3, PlanTails DEF Continued
<1>6. /\ Version(x.mem, row[t]) /\ t \notin x.todo /\ Ends(t, x.mem) /\ row[t].status \in Pending
      /\ w = Poller
  BY <1>3, <1>4 DEF Work, SavePlans, Open
<1>7. row'[t] \in {x.mem, row[t]} /\ \A u \in Tasks : u # t => row'[u] = row[u]
  BY <1>0, <1>2, <1>3 DEF TasksOK, Saved
<1>8. Version(row[t], row'[t]) /\ Ends(t, row'[t])
  BY <1>3, <1>6, <1>7, RowFacts DEF Version, MoveInv
<1>9. \A v \in Workers : v # w => ~ Billing(wk[v], t)
  BY <1>3, <1>6, NobodyElse
<1> HIDE DEF x, y
<1>10. WorkerInv(w, y, row', BulkFailed)
  <2>1. \A u \in y.todo : Read(w, u, y.read[u], row[u])
    BY <1>4, <1>5, LessToRead
  <2>2. \A u \in y.todo : row'[u] = row[u]
    <3>1. y.todo \subseteq Tasks /\ t \notin y.todo
      BY <1>0, <1>5, <1>6 DEF WorkersOK, WorkerOK, x
    <3> QED BY <1>7, <3>1
  <2>3. y.at # "idle"
    BY <1>3, <1>4, <1>5 DEF WorkerInv
  <2> QED BY <1>5, <2>1, <2>2, <2>3 DEF WorkerInv
<1>11. Alone'
  BY <1>5, NoPlan, AloneStep DEF MoveInv, y
<1>12. \A v \in Workers : v # w /\ wk[v].plan \in BillPlans /\ wk[v].task = t => FALSE
  BY <1>9 DEF Billing
<1>13. MoveInv'
  <2>1. WorkerInv(w, wk'[w], row', BulkFailed')
    BY <1>a, <1>10 DEF y
  <2> QED BY <1>1, <1>a, <1>3, <1>5, <1>6, <1>7, <1>8, <2>1, <1>11, <1>12, MoveRow DEF y
<1>14. Final
  BY <1>6, <1>7 DEF Final, Pending, Terminal
<1> QED BY <1>13, <1>14

(* What is left of a plan after a call to a ledger *)
LedgerRest(p, q) ==
    \/ p \in {<<"fund">>, <<"fund", "token">>, <<"token">>} /\ q = <<>>
    \/ p = <<"fund", "token">> /\ q = <<"token">>
    \/ p \in {<<"fund", "save">>, <<"fund", "token", "save">>, <<"token", "save">>} /\ q = <<"save">>
    \/ p = <<"fund", "token", "save">> /\ q = <<"token", "save">>

(* It is a plan of the same form and has no call to the funding source. *)
LEMMA LedgerRestFacts ==
  ASSUME NEW p, NEW q, LedgerRest(p, q)
  PROVE  /\ p \in BillPlans \cup SavePlans /\ q \notin CasPlans
         /\ q \in BillPlans => p \in BillPlans
         /\ q \in SavePlans => p \in SavePlans
         /\ q \notin {<<"fund">>, <<"fund", "token">>}
         /\ q \notin {<<"fund", "save">>, <<"fund", "token", "save">>}
BY DEF LedgerRest, BillPlans, SavePlans, CasPlans

(* taskAdjustFunding and taskAdjustTokenQuota leave such a rest. *)
LEMMA LedgerRests ==
  ASSUME WorkersOK, NEW w \in Workers, FundStep(w) \/ TokenStep(w)
  PROVE  LedgerRest(wk[w].plan, wk'[w].plan) /\ Continued(w, wk'[w].plan) /\ UNCHANGED <<row, img, BulkFailed>>
<1>1. CASE FundStep(w)
  <2>1. NextCall(w, "fund")
    BY <1>1 DEF FundStep
  <2>2. wk[w].plan \in {<<"fund">>, <<"fund", "token">>, <<"fund", "save">>, <<"fund", "token", "save">>}
    BY <2>1, CallerFacts, PlanSteps
  <2>3. PICK plan : /\ Continued(w, plan)
                    /\ plan \in {Tail(wk[w].plan), SkipToken(Tail(wk[w].plan))}
    BY <1>1, FundEffect
  <2>4. wk'[w].plan = plan
    BY <2>3 DEF Continued
  <2>5. LedgerRest(wk[w].plan, plan)
    BY <2>2, <2>3, PlanTails, SkipForms DEF LedgerRest
  <2>6. UNCHANGED <<row, img, BulkFailed>>
    BY <1>1, FailedSame DEF FundStep
  <2> QED BY <2>3, <2>4, <2>5, <2>6
<1>2. CASE TokenStep(w)
  <2>1. NextCall(w, "token")
    BY <1>2 DEF TokenStep
  <2>2. wk[w].plan \in {<<"token">>, <<"token", "save">>}
    BY <2>1, CallerFacts, PlanSteps
  <2>3. Continued(w, Tail(wk[w].plan))
    BY <1>2, TokenEffect
  <2>4. wk'[w].plan = Tail(wk[w].plan)
    BY <2>3 DEF Continued
  <2>5. LedgerRest(wk[w].plan, Tail(wk[w].plan))
    BY <2>2, PlanTails DEF LedgerRest
  <2>6. UNCHANGED <<row, img, BulkFailed>>
    BY <1>2, FailedSame DEF TokenStep
  <2> QED BY <2>3, <2>4, <2>5, <2>6
<1> QED BY <1>1, <1>2

(* The calls to the ledgers *)
LEMMA LedgerMove ==
  ASSUME TypeInv, MoveInv, NEW w \in Workers, FundStep(w) \/ TokenStep(w)
  PROVE  MoveInv' /\ Final
<1>0. WorkersOK
  BY DEF TypeInv
<1> DEFINE x == wk[w]
           y == wk'[w]
<1>1. LedgerRest(x.plan, y.plan) /\ Continued(w, y.plan) /\ UNCHANGED <<row, img, BulkFailed>>
  BY <1>0, LedgerRests
<1>2. /\ Others(w) /\ y.todo \subseteq x.todo /\ x.plan # <<>> /\ y.at = x.at
      /\ \A u \in y.todo : y.read[u] = x.read[u]
      /\ y.plan # <<>> => /\ y.task = x.task /\ y.mem = x.mem /\ y.from = x.from
                          /\ y.da = x.da /\ y.dt = x.dt
  BY <1>1 DEF Continued, At
<1>3. WorkerInv(w, x, row, BulkFailed) /\ Work(w, x, row[x.task], BulkFailed)
  BY <1>2 DEF MoveInv, WorkerInv
<1>4. /\ x.plan \in BillPlans \cup SavePlans /\ y.plan \notin CasPlans
      /\ y.plan \in BillPlans => x.plan \in BillPlans
      /\ y.plan \in SavePlans => x.plan \in SavePlans
      /\ y.plan \notin {<<"fund">>, <<"fund", "token">>}
      /\ y.plan \notin {<<"fund", "save">>, <<"fund", "token", "save">>}
  BY <1>1, LedgerRestFacts
<1> HIDE DEF x, y
<1>5. ASSUME y.plan # <<>> PROVE Work(w, y, row[y.task], BulkFailed)
  <2>1. y.task = x.task /\ y.mem = x.mem /\ y.from = x.from /\ y.da = x.da /\ y.dt = x.dt
    BY <1>2, <1>5
  <2>2. PlanFits(y)
    BY <1>4 DEF PlanFits
  <2> QED BY <1>2, <1>3, <1>4, <2>1, <2>2 DEF Work
<1>6. WorkerInv(w, y, row, BulkFailed)
  <2>1. y.at # "idle"
    BY <1>2, <1>3 DEF WorkerInv
  <2> QED BY <1>2, <1>3, <1>5, <2>1, LessToRead DEF WorkerInv
<1>7. \A t \in Tasks : Billing(y, t) => Billing(x, t)
  BY <1>2, <1>4, PlansDiffer DEF Billing
<1>8. MoveInv'
  BY <1>1, <1>2, <1>6, <1>7, MoveStep DEF x, y
<1> QED BY <1>1, <1>8 DEF Final

(* TaskBulkUpdateByID *)
LEMMA BulkMove ==
  ASSUME TypeInv, MoveInv, NEW t \in Tasks, BulkFail(t)
  PROVE  MoveInv' /\ Final
<1>0. WorkersOK /\ TasksOK /\ KnownRows /\ Poller \in Workers
  BY DEF TypeInv, Workers
<1> DEFINE w == Poller
           x == wk[w]
           y == wk'[w]
           z == [row[t] EXCEPT !.status = "FAILURE", !.full = TRUE]
<1>1. /\ Others(w) /\ y.plan = <<>> /\ x.plan = <<>> /\ t \in x.todo
      /\ Left(w, t) /\ UNCHANGED img /\ hurt \subseteq hurt'
      /\ row' = row \/ (row' = [row EXCEPT ![t] = z] /\ t \in BulkFailed')
  BY BulkEffect
<1>2. row[t] \in LiveRow /\ row \in [Tasks -> Rows]
  BY <1>0, <1>1, RowFacts DEF KnownRows, TasksOK
<1>3. /\ z \in LiveRow /\ z.status = "FAILURE" /\ z.full
      /\ z.source = row[t].source /\ z.quota = row[t].quota /\ z.held = row[t].held
  BY <1>2 DEF LiveRow, Terminal
<1> HIDE DEF z
<1>4. /\ row'[t] = row[t] \/ (row'[t] = z /\ t \in BulkFailed')
      /\ \A u \in Tasks : u # t => row'[u] = row[u]
  BY <1>1, <1>2
<1>5. Version(row[t], row'[t]) /\ Ends(t, row'[t])
  <2>1. z.reason = row[t].reason /\ z # NoRow
    BY <1>2, <1>3, RowFacts DEF z, LiveRow
  <2> QED BY <1>2, <1>3, <1>4, <2>1, RowFacts DEF Version, MoveInv, Ends
<1>6. WorkerInv(w, x, row, BulkFailed')
  BY <1>0, <1>1, FailedGrows, GoneGrows DEF MoveInv
<1>7. /\ y.todo = x.todo \ {t} /\ y.todo \subseteq x.todo /\ y.at = x.at /\ \A u \in y.todo : y.read[u] = x.read[u]
  BY <1>1 DEF Left
<1> HIDE DEF x, y
<1>8. WorkerInv(w, y, row', BulkFailed')
  <2>1. \A u \in y.todo : Read(w, u, y.read[u], row[u])
    BY <1>6, <1>7, LessToRead
  <2>2. \A u \in y.todo : row'[u] = row[u]
    <3>1. y.todo \subseteq Tasks /\ t \notin y.todo
      BY <1>0, <1>7 DEF WorkersOK, WorkerOK, x
    <3> QED BY <1>4, <3>1
  <2>3. y.at # "idle"
    BY <1>1, <1>6, <1>7 DEF WorkerInv
  <2> QED BY <1>1, <2>1, <2>2, <2>3 DEF WorkerInv
<1>9. Alone'
  BY <1>0, <1>1, NoPlan, AloneStep DEF MoveInv, y
<1>10. \A v \in Workers : v # w /\ wk[v].plan \in BillPlans /\ wk[v].task = t =>
            row'[t].status \in Terminal /\ (t \notin BulkFailed' => row'[t].status = wk[v].mem.status)
  <2> SUFFICES ASSUME NEW v \in Workers, wk[v].plan \in BillPlans, wk[v].task = t
               PROVE  row'[t].status \in Terminal /\ (t \notin BulkFailed' => row'[t].status = wk[v].mem.status)
    OBVIOUS
  <2>1. Work(v, wk[v], row[t], BulkFailed) /\ BulkFailed \subseteq BulkFailed'
    BY <1>0, <1>1, BillingFacts, FailedGrows DEF Billing
  <2> QED BY <1>3, <1>4, <2>1 DEF Work, Terminal
<1>11. MoveInv'
  <2>1. Others(w) /\ UNCHANGED img /\ hurt \subseteq hurt' /\ w = Poller /\ w \in Workers
    BY <1>0, <1>1
  <2>2. WorkerInv(w, wk'[w], row', BulkFailed')
    BY <1>8 DEF y
  <2> HIDE DEF w
  <2> QED BY <1>4, <1>5, <1>9, <1>10, <2>1, <2>2, MoveRow
<1>12. Final
  BY <1>3, <1>4 DEF Final
<1> QED BY <1>11, <1>12

(* RelayTask: nobody knows a task that has no row *)
LEMMA SubmitMove ==
  ASSUME TypeInv, MoveInv, NEW t \in Tasks, SubmitTask(t)
  PROVE  MoveInv' /\ Final
<1>0. WorkersOK /\ TasksOK
  BY DEF TypeInv
<1>1. PICK src \in Sources, h \in Holds, q \in Quotas, charged \in Nat :
         Submitted(t, src, h, q, charged)
  BY SubmitEffect
<1> DEFINE z == NewRow("NOT_START", src, q, h)
<1>2. z \in LiveRow /\ z.status = "NOT_START" /\ ~ z.reason
  BY NewRowLive DEF Pending, NewRow, NoRow
<1> HIDE DEF z
<1>3. /\ row[t] = NoRow /\ row'[t] \in {z, NoRow} /\ \A u \in Tasks : u # t => row'[u] = row[u]
      /\ UNCHANGED <<wk, img>>
  BY <1>0, <1>1 DEF Submitted, TasksOK, z
<1>a. BulkFailed' = BulkFailed
  BY <1>1 DEF Submitted, BulkFailed
<1>4. NoRow.status = "none" /\ ~ NoRow.reason
  BY DEF NoRow
<1>6. \A u \in Tasks : Ends(u, row'[u])
  BY <1>2, <1>3, <1>4 DEF MoveInv, Ends
<1>5. \A v \in Workers : WorkerInv(v, wk[v], row', BulkFailed)
  <2> TAKE v \in Workers
  <2>1. WorkerInv(v, wk[v], row, BulkFailed)
    BY DEF MoveInv
  <2>2. wk[v].todo \subseteq Tasks /\ (wk[v].plan # <<>> => wk[v].task \in Tasks)
    BY <1>0 DEF WorkersOK, WorkerOK
  <2>3. t \notin wk[v].todo /\ (wk[v].plan # <<>> => wk[v].task # t)
    BY <1>3, <2>1 DEF WorkerInv, Read, Work, Version
  <2>4. wk[v].plan \in BillPlans => wk[v].plan # <<>>
    BY PlansDiffer
  <2> QED BY <1>3, <1>6, <2>1, <2>2, <2>3, <2>4, Bystander
<1>7. Alone' /\ \A u \in Tasks : img'[u] = NoImage
  BY <1>3 DEF MoveInv, Alone, Billing
<1>8. MoveInv'
  BY <1>a, <1>3, <1>5, <1>6, <1>7 DEF MoveInv, Ends
<1> QED BY <1>3, <1>4, <1>8 DEF Final, Terminal

(* Steps outside of the workers *)
LEMMA OutsideMove ==
  ASSUME TypeInv, MoveInv, UNCHANGED <<row, wk, img, hurt>>
  PROVE  MoveInv' /\ Final
<1>1. \A v \in Workers : WorkerInv(v, wk'[v], row', BulkFailed')
  BY DEF MoveInv, BulkFailed
<1>2. Alone'
  BY DEF MoveInv, Alone, Billing
<1> QED BY <1>1, <1>2 DEF MoveInv, Final, Ends

(* A worker that lists open tasks *)
ListsOpen(w, S) ==
    /\ Lists(w, S) /\ wk[w].plan = <<>> /\ UNCHANGED <<row, img, funds, token, hurt>>
    /\ \A t \in S : row[t] # NoRow /\ Open(row[t]) /\ (Kind[t] = "suno" => w = Poller)

(* The steps there are without image tasks *)
Steps ==
    \/ UNCHANGED <<row, wk, img, funds, token, hurt>>
    \/ \E w \in Workers : \/ SomeStart(w) \/ Leaves(w) \/ Crash(w)
                          \/ CasStep(w) \/ SaveStep(w) \/ FundStep(w) \/ TokenStep(w)
                          \/ \E S \in SUBSET Tasks : ListsOpen(w, S)
    \/ \E t \in Tasks : BulkFail(t) \/ SubmitTask(t) \/ Age(t) \/ DeleteChannel(t)

(* Every step is one of them. A query finds an open task: one that is not is
   recognised by its result or its progress. *)
LEMMA NextSteps ==
  ASSUME NoImages, TypeInv, MoveInv, [Next]_vars PROVE Steps
<1>0. WorkersOK /\ TasksOK /\ Poller \in Workers
  BY DEF TypeInv, Workers
<1>1. CASE SweepList \/ PollList
  <2>1. UNCHANGED rest /\ \E S \in SUBSET Unfinished : Lists(Poller, S)
    BY <1>0, <1>1, ListsEffect
  <2>2. PICK S \in SUBSET Unfinished : Lists(Poller, S)
    BY <2>1
  <2>3. S \in SUBSET Tasks /\ \A t \in S : row[t] # NoRow /\ Open(row[t])
    <3>1. \A t \in S : t \in Tasks /\ Ends(t, row[t]) /\ ~ row[t].full
      BY DEF Unfinished, MoveInv
    <3> QED BY <1>0, <3>1, UnfinishedLive, RowFacts DEF Ends, Open
  <2>4. UNCHANGED <<row, img, funds, token, hurt>>
    BY <2>1 DEF rest
  <2>5. ListsOpen(Poller, S)
    BY <1>1, <2>2, <2>3, <2>4 DEF ListsOpen, SweepList, PollList, ReadyFor
  <2> QED BY <1>0, <2>3, <2>5 DEF Steps
<1>2. ASSUME NEW w \in Workers, CallStep(w) PROVE Steps
  BY <1>2 DEF CallStep, Steps
<1>3. ASSUME NEW t \in Tasks, SweepTask(t) \/ PollSuno(t) PROVE Steps
  BY <1>0, <1>3, SweepEffect, SunoEffect DEF Steps
<1>4. ASSUME NEW w \in Workers, NEW t \in Tasks, UpdateVideo(w, t) PROVE Steps
  BY <1>0, <1>4, VideoEffect DEF Steps
<1>5. ASSUME NEW w \in Workers,
             \/ PollEnd /\ w = Poller
             \/ QueryEnd(w)
             \/ \E t \in Tasks : FetchFails(w, t) \/ (PollImage(t) /\ w = Poller)
      PROVE Steps
  BY <1>5, LeavesEffect DEF Steps
<1>6. ASSUME NEW u \in Users, NEW t \in Tasks, Query(u, t) PROVE Steps
  <2>1. /\ Lists(u, {t}) /\ Kind[t] # "suno" /\ row[t] \in LiveRow
        /\ ~ (row[t].status = "SUCCESS" /\ row[t].url)
        /\ ~ (row[t].status = "FAILURE" /\ row[t].full)
        /\ UNCHANGED <<row, img, funds, token, hurt>>
    BY <1>0, <1>6, QueryEffect
  <2>2. Kind[t] = "video" /\ Ends(t, row[t])
    BY <2>1, TaskAssumption DEF NoImages, MoveInv
  <2>3. Open(row[t]) /\ row[t] # NoRow
    BY <2>1, <2>2, RowFacts DEF Ends, LiveRow, Terminal, Open
  <2>4. wk[u].plan = <<>>
    BY <1>6 DEF Query, MoveInv, WorkerInv, Workers
  <2>5. ListsOpen(u, {t})
    BY <2>1, <2>3, <2>4 DEF ListsOpen
  <2> QED BY <2>5 DEF Steps, Workers
<1>7. ASSUME NEW t \in Tasks, SubmitImage(t) \/ ImageStep(t) \/ CrashImage(t) PROVE FALSE
  <2>1. Kind[t] # "image" /\ img[t].pc = "none"
    BY DEF NoImages, MoveInv, NoImage
  <2> QED BY <1>7, <2>1 DEF SubmitImage, ImageStep, ImageStart, ImageEnds, ImageSave, CrashImage
<1>8. CASE UNCHANGED vars
  BY <1>8 DEF vars, Steps
<1>9. CASE PollerStep
  <2>1. CASE SweepList \/ PollList \/ PollEnd \/ CallStep(Poller)
    BY <2>1, <1>0, <1>1, <1>2, <1>5
  <2>2. ASSUME NEW t \in Tasks,
               \/ SweepTask(t) \/ BulkFail(t) \/ PollImage(t) \/ PollSuno(t)
               \/ FetchFails(Poller, t) \/ UpdateVideo(Poller, t)
        PROVE Steps
    <3>1. CASE BulkFail(t)
      BY <3>1 DEF Steps
    <3> QED BY <2>2, <3>1, <1>0, <1>3, <1>4, <1>5
  <2> QED BY <1>9, <2>1, <2>2 DEF PollerStep
<1>10. ASSUME NEW u \in Users, QueryStep(u) PROVE Steps
  <2>1. u \in Workers
    BY DEF Workers
  <2> QED BY <1>10, <2>1, <1>2, <1>4, <1>5 DEF QueryStep
<1>11. ASSUME NEW w \in Workers, Crash(w) PROVE Steps
  BY <1>11 DEF Steps
<1>12. ASSUME NEW t \in Tasks, SubmitTask(t) \/ Age(t) \/ DeleteChannel(t) PROVE Steps
  BY <1>12 DEF Steps
<1> QED BY <1>6, <1>7, <1>8, <1>9, <1>10, <1>11, <1>12 DEF Next

(* Every step keeps what plans imply and leaves finished tasks alone. *)
LEMMA NextMove ==
  ASSUME NoImages, TypeInv, MoveInv, [Next]_vars PROVE MoveInv' /\ Final
<1>0. row' = row => Final
  BY DEF Final
<1>1. CASE UNCHANGED <<row, wk, img, funds, token, hurt>>
  BY <1>1, OutsideMove
<1>2. ASSUME NEW w \in Workers, SomeStart(w) PROVE MoveInv' /\ Final
  BY <1>0, <1>2, StartMove
<1>3. ASSUME NEW w \in Workers, Leaves(w) PROVE MoveInv' /\ Final
  <2>1. /\ Others(w) /\ wk'[w].plan = <<>> /\ UNCHANGED <<row, img, BulkFailed>>
        /\ wk'[w].todo = {} \/ \E t : Left(w, t)
    BY <1>3 DEF Leaves, rest, BulkFailed
  <2> QED BY <1>0, <2>1, LeavesMove
<1>4. ASSUME NEW w \in Workers, Crash(w) PROVE MoveInv' /\ Final
  <2>1. /\ Others(w) /\ wk'[w].plan = <<>> /\ UNCHANGED <<row, img, BulkFailed>>
        /\ wk'[w].todo = {}
    BY <1>4, CrashEffect, FailedSame
  <2> QED BY <1>0, <2>1, LeavesMove
<1>5. ASSUME NEW w \in Workers, CasStep(w) \/ SaveStep(w) \/ FundStep(w) \/ TokenStep(w)
      PROVE  MoveInv' /\ Final
  BY <1>5, CasMove, SaveMove, LedgerMove
<1>6. ASSUME NEW w \in Workers, NEW S \in SUBSET Tasks, ListsOpen(w, S) PROVE MoveInv' /\ Final
  <2>1. /\ Lists(w, S) /\ UNCHANGED <<row, img, BulkFailed>>
        /\ \A t \in S : row[t] # NoRow /\ Open(row[t]) /\ (Kind[t] = "suno" => w = Poller)
    BY <1>6 DEF ListsOpen, BulkFailed
  <2> QED BY <1>0, <2>1, ListsMove
<1>7. ASSUME NEW t \in Tasks, BulkFail(t) \/ SubmitTask(t) PROVE MoveInv' /\ Final
  BY <1>7, BulkMove, SubmitMove
<1>8. ASSUME NEW t \in Tasks, Age(t) \/ DeleteChannel(t) PROVE MoveInv' /\ Final
  BY <1>8, OutsideType, OutsideMove
<1>9. Steps
  BY NextSteps
<1> QED BY <1>1, <1>2, <1>3, <1>4, <1>5, <1>6, <1>7, <1>8, <1>9 DEF Steps

(* The initial state *)
LEMMA InitMove == Init => MoveInv
<1> SUFFICES ASSUME Init PROVE MoveInv
  OBVIOUS
<1>1. \A w \in Workers : wk[w] = Idle /\ wk[w].plan = <<>> /\ wk[w].todo = {}
  BY IdleOK DEF Init
<1>2. Alone /\ \A w \in Workers : WorkerInv(w, wk[w], row, BulkFailed)
  BY <1>1, NoPlan DEF Alone, WorkerInv
<1>3. \A t \in Tasks : img[t] = NoImage /\ Ends(t, row[t])
  BY DEF Init, Ends, NoRow
<1> QED BY <1>2, <1>3 DEF MoveInv

(* The status of a finished task never changes, however the sweep, the rounds of the
   poller and the queries of users race, and whatever database calls fail, but for the
   bulk failure that follows a failed lookup of the task's channel and may turn a
   success into a failure: UpdateWithStatus moves a task only from the status that was
   read, and that was an open one. Image tasks are left out: their goroutine saves its
   row whatever became of it. *)
THEOREM FinishedStays == ASSUME NoImages PROVE Spec => TerminalIsFinal
<1>1. Init => TypeInv /\ MoveInv
  BY InitType, InitMove
<1>2. TypeInv /\ MoveInv /\ [Next]_vars => TypeInv' /\ MoveInv'
  BY NextType, NextMove
<1>3. TypeInv /\ MoveInv /\ [Next]_vars =>
        [\A t \in Tasks :
           row[t].status \in Terminal /\ row'[t].status # row[t].status =>
             row'[t].status = "FAILURE" /\ t \in BulkFailed']_vars
  BY NextMove DEF Final
<1> QED BY <1>1, <1>2, <1>3, PTL DEF Spec, TerminalIsFinal

-----------------------------------------------------------------------------
(* What was charged, kept by every step *)

(* What is due brings the charge of a task from its quota to what its outcome costs. *)
LEMMA DueFacts ==
  ASSUME NEW m \in LiveRow, NEW da \in Int, NEW dt \in Int, Due(m, da, dt),
         m.source = "subscription" => m.held = m.quota
  PROVE  /\ Units(m.source, m.quota) \in Nat /\ TokenUnits(m.source, m.quota) \in Nat
         /\ da = 0 => dt = 0 /\ m.status # "FAILURE" /\ ~ m.reason
         /\ Units(m.source, m.quota) + da >= 0 /\ TokenUnits(m.source, m.quota) + dt >= 0
         /\ Open(m) => da = 0 /\ dt = 0
         /\ Outcome(m, Units(m.source, m.quota) + da, TokenUnits(m.source, m.quota) + dt)
<1>1. /\ m.quota \in Nat \ {0} /\ m.held \in Nat /\ m.status \in Pending \cup Terminal
      /\ m.source \in FundingSources /\ m.reason \in BOOLEAN
  BY DEF LiveRow
<1>2. Units(m.source, m.quota) \in Nat \ {0} /\ TokenUnits(m.source, m.quota) \in Nat
  BY <1>1 DEF Units, TokenUnits
<1>3. CASE m.status = "FAILURE" \/ m.reason
  <2>1. RefundAmount(m) = Units(m.source, m.quota)
    BY <1>1 DEF RefundAmount, Units
  <2>2. da = - Units(m.source, m.quota) /\ dt = - TokenUnits(m.source, m.quota)
    BY <1>3, <2>1 DEF Due
  <2> QED BY <1>2, <1>3, <2>2 DEF Outcome, Pending, Open
<1>4. CASE m.status = "SUCCESS" /\ ~ m.reason
  <2>1. CASE da = 0 /\ dt = 0
    BY <1>1, <1>2, <1>4, <2>1 DEF Outcome, Pending, Open, Units, TokenUnits
  <2>2. CASE /\ UsesTokenQuota(m.source) /\ dt = da
             /\ \E actual \in Actuals \ {0} : da = actual - m.quota
    <3>1. PICK actual \in Actuals \ {0} : da = actual - m.quota
      BY <2>2
    <3>2. actual \in Nat /\ Units(m.source, m.quota) = m.quota /\ TokenUnits(m.source, m.quota) = m.quota
          /\ Units(m.source, actual) = actual
      BY <2>2, TaskAssumption DEF UsesTokenQuota, Units, TokenUnits
    <3>3. m.quota + da = actual /\ m.quota + dt = actual
      BY <1>1, <2>2, <3>1, <3>2
    <3> QED BY <1>1, <1>4, <2>2, <3>2, <3>3 DEF Outcome, Pending, Open
  <2> QED BY <1>4, <2>1, <2>2 DEF Due
<1>5. CASE Open(m)
  BY <1>2, <1>5 DEF Due, Outcome, Open, Pending
<1> QED BY <1>1, <1>3, <1>4, <1>5 DEF Terminal, Open

(* A step that does not touch the task, but for what is cut off or failed in bulk *)
LEMMA BooksSame ==
  ASSUME NEW t \in Tasks, Books(t), row'[t] = row[t], funds'[t] = funds[t], token'[t] = token[t],
         hurt \subseteq hurt', BulkFailed \subseteq BulkFailed',
         \A w \in Workers : Billing(wk'[w], t) <=> Billing(wk[w], t),
         \A w \in Workers : Billing(wk'[w], t) =>
            wk'[w].plan = wk[w].plan /\ wk'[w].da = wk[w].da /\ wk'[w].dt = wk[w].dt
  PROVE  Books(t)'
<1>1. Counts(t, row'[t], hurt') => Counts(t, row[t], hurt)
  BY DEF Counts
<1>2. \A w \in Workers : Billing(wk'[w], t) /\ BilledSoFar(wk[w], row[t], funds[t], token[t]) =>
        BilledSoFar(wk'[w], row'[t], funds'[t], token'[t])
  BY DEF BilledSoFar
<1>3. Balanced(t, row[t], funds[t], token[t], hurt, BulkFailed) =>
        Balanced(t, row'[t], funds'[t], token'[t], hurt', BulkFailed')
  BY DEF Balanced
<1> QED BY <1>1, <1>2, <1>3 DEF Books

(* After the step worker w bills the task. *)
LEMMA BooksBilled ==
  ASSUME Alone', NEW w \in Workers, NEW t \in Tasks, Billing(wk'[w], t),
         Counts(t, row'[t], hurt') => /\ funds'[t] >= 0 /\ token'[t] >= 0
                                      /\ BilledSoFar(wk'[w], row'[t], funds'[t], token'[t])
  PROVE  Books(t)'
<1>1. \A v \in Workers : Billing(wk'[v], t) => v = w
  BY DEF Alone, Billing
<1> QED BY <1>1 DEF Books

(* After the step nobody bills it. *)
LEMMA BooksFree ==
  ASSUME NEW t \in Tasks, \A v \in Workers : ~ Billing(wk'[v], t),
         Counts(t, row'[t], hurt') => /\ funds'[t] >= 0 /\ token'[t] >= 0
                                      /\ row'[t] # NoRow => Balanced(t, row'[t], funds'[t], token'[t], hurt', BulkFailed')
  PROVE  Books(t)'
BY DEF Books

(* One worker takes a step and no other task is touched. *)
LEMMA BooksOther ==
  ASSUME NEW w \in Workers, Others(w), NEW t \in Tasks, Books(t),
         row'[t] = row[t], funds'[t] = funds[t], token'[t] = token[t],
         hurt \subseteq hurt', BulkFailed \subseteq BulkFailed',
         ~ Billing(wk[w], t), ~ Billing(wk'[w], t)
  PROVE  Books(t)'
<1>1. \A v \in Workers : Billing(wk'[v], t) <=> Billing(wk[v], t)
  BY DEF Others
<1>2. \A v \in Workers : Billing(wk'[v], t) => v # w /\ wk'[v] = wk[v]
  BY DEF Others
<1> QED BY <1>1, <1>2, BooksSame

(* A worker that does not bill before or after its step *)
LEMMA BooksIdle ==
  ASSUME BooksInv, NEW w \in Workers, Others(w), UNCHANGED <<row, funds, token, hurt, BulkFailed>>,
         \A t \in Tasks : ~ Billing(wk[w], t) /\ ~ Billing(wk'[w], t)
  PROVE  BooksInv'
<1>1. ASSUME NEW t \in Tasks PROVE Books(t)'
  BY BooksOther DEF BooksInv
<1> QED BY <1>1 DEF BooksInv

(* A worker begins with a task: the poller with the refund of a Suno task *)
LEMMA StartBooks ==
  ASSUME TypeInv, MoveInv, MoveInv', BooksInv, NEW w \in Workers, SomeStart(w)
  PROVE  BooksInv'
<1>1. PICK s \in Tasks, mem \in LiveRow, plan \in PlanForms, da \in Int, dt \in Int :
        Starts(w, s, mem, plan, da, dt)
  BY DEF SomeStart
<1>2. /\ Others(w) /\ wk[w].plan = <<>> /\ UNCHANGED <<row, funds, token, hurt, BulkFailed>>
      /\ s \in wk[w].todo /\ wk'[w].plan = plan
      /\ plan # <<>> => /\ wk'[w].task = s /\ wk'[w].mem = mem /\ wk'[w].da = da /\ wk'[w].dt = dt
  BY <1>1 DEF Starts, At, rest, BulkFailed
<1>3. Read(w, s, wk[w].read[s], row[s])
  BY <1>2 DEF MoveInv, WorkerInv
<1>4. \/ plan = <<>>
      \/ plan = <<"cas">> \o Bill(da, dt)
      \/ Kind[s] = "suno" /\ w = Poller /\ plan = Bill(da, dt) \o <<"save">>
  BY <1>1, <1>3 DEF Starts, Read
<1>5. <<"cas">> \o Bill(da, dt) \in CasPlans /\ Bill(da, dt) \o <<"save">> \in SavePlans
  BY StartForms
<1>6. \A t : ~ Billing(wk[w], t)
  BY <1>2, NoPlan
<1>7. \A t : Billing(wk'[w], t) => t = s /\ plan # <<>> /\ plan \in BillPlans \cup SavePlans
  BY <1>2, PlansDiffer DEF Billing
<1>8. ASSUME NEW t \in Tasks PROVE Books(t)'
  <2>1. CASE ~ Billing(wk'[w], t)
    BY <1>2, <1>6, <2>1, BooksOther DEF BooksInv
  <2>2. CASE Billing(wk'[w], t)
    <3>1. /\ t = s /\ Kind[t] = "suno" /\ w = Poller /\ plan = Bill(da, dt) \o <<"save">>
          /\ Open(row[t]) /\ row[t] # NoRow
      BY <1>3, <1>4, <1>5, <1>7, <2>2, PlansDiffer DEF Read, Version
    <3>2. \A v \in Workers : ~ Billing(wk[v], t)
      <4>1. WorkersOK
        BY DEF TypeInv
      <4>2. \A v \in Workers : Billing(wk[v], t) => v = w
        BY <3>1, <4>1, BillingFacts DEF Open
      <4> QED BY <1>6, <4>2
    <3>3. ASSUME Counts(t, row[t], hurt)
          PROVE  /\ funds[t] >= 0 /\ token[t] >= 0
                 /\ BilledSoFar(wk'[w], row[t], funds[t], token[t])
      <4>1. funds[t] >= 0 /\ token[t] >= 0 /\ Whole(row[t], funds[t], token[t])
        BY <3>1, <3>2, <3>3 DEF BooksInv, Books, Balanced
      <4>2. Due(mem, da, dt) /\ Version(mem, row[t])
        BY <1>1, <1>3, <3>1 DEF Starts, Read, Version
      <4>3. da = 0 => dt = 0
        BY <3>3, <4>2, DueFacts DEF Counts, Version
      <4>4. plan \in {<<"fund", "save">>, <<"fund", "token", "save">>} \/ (plan = <<"save">> /\ da = 0)
        BY <3>1, BillForms
      <4>5. funds[t] \in Int /\ token[t] \in Int
        BY DEF TypeInv, TasksOK
      <4>6. wk'[w].plan = plan /\ wk'[w].da = da /\ wk'[w].dt = dt
        BY <1>2, <1>7, <2>2
      <4> QED BY <4>1, <4>3, <4>4, <4>5, <4>6 DEF BilledSoFar
    <3>4. Alone'
      BY DEF MoveInv
    <3> QED BY <1>2, <2>2, <3>3, <3>4, BooksBilled
  <2> QED BY <2>1, <2>2
<1> QED BY <1>8 DEF BooksInv

(* The process of a worker dies: what it had left is cut off. *)
LEMMA CrashBooks ==
  ASSUME TypeInv, MoveInv, BooksInv, NEW w \in Workers, Crash(w)
  PROVE  BooksInv'
<1>1. /\ Others(w) /\ wk'[w].plan = <<>> /\ HurtIf(InBilling(w), wk[w].task, "billing")
      /\ UNCHANGED <<row, BulkFailed, funds, token>>
  BY CrashEffect, FailedSame
<1>2. \A t : ~ Billing(wk'[w], t)
  BY <1>1, NoPlan
<1>3. hurt \subseteq hurt'
  BY <1>1 DEF HurtIf
<1>4. WorkersOK /\ wk[w].plan \in PlanForms
  BY DEF TypeInv, WorkersOK, WorkerOK
<1>5. ASSUME NEW t \in Tasks PROVE Books(t)'
  <2>1. CASE ~ Billing(wk[w], t)
    BY <1>1, <1>2, <1>3, <2>1, BooksOther DEF BooksInv
  <2>2. CASE Billing(wk[w], t)
    <3>1. /\ wk[w].plan # <<>> /\ wk[w].task = t /\ Work(w, wk[w], row[t], BulkFailed)
          /\ wk[w].plan \in BillPlans \cup SavePlans
      BY <1>4, <2>2, BillingFacts DEF Billing
    <3>2. InBilling(w)
      BY <1>4, <3>1, PlanSteps DEF InBilling
    <3>3. <<t, "billing">> \in hurt'
      BY <1>1, <3>1, <3>2 DEF HurtIf
    <3>4. \A v \in Workers : ~ Billing(wk'[v], t)
      <4>1. \A v \in Workers : Billing(wk[v], t) => v = w
        BY <2>2 DEF MoveInv, Alone
      <4> QED BY <1>1, <1>2, <4>1 DEF Others
    <3>5. ASSUME Counts(t, row'[t], hurt')
          PROVE  /\ funds'[t] >= 0 /\ token'[t] >= 0
                 /\ Balanced(t, row'[t], funds'[t], token'[t], hurt', BulkFailed')
      <4>1. Kind[t] = "video" /\ Counts(t, row[t], hurt)
        BY <1>1, <1>3, <3>3, <3>5 DEF Counts
      <4>2. row[t].status \in Terminal
        BY <3>1, <4>1 DEF Work
      <4>3. funds[t] >= 0 /\ token[t] >= 0
        BY <4>1 DEF BooksInv, Books
      <4> QED BY <1>1, <3>3, <4>2, <4>3 DEF Balanced, Open, Pending, Terminal
    <3> QED BY <3>4, <3>5, BooksFree
  <2> QED BY <2>1, <2>2
<1> QED BY <1>5 DEF BooksInv

(* Steps outside of the workers *)
LEMMA OutsideBooks ==
  ASSUME BooksInv, UNCHANGED <<row, wk, funds, token, hurt>>
  PROVE  BooksInv'
<1>1. ASSUME NEW t \in Tasks PROVE Books(t)'
  BY BooksSame DEF BooksInv, BulkFailed
<1> QED BY <1>1 DEF BooksInv

(* TaskBulkUpdateByID moves a task and pays nothing back. *)
LEMMA BulkBooks ==
  ASSUME TypeInv, MoveInv, BooksInv, NEW s \in Tasks, BulkFail(s)
  PROVE  BooksInv'
<1>0. WorkersOK /\ TasksOK /\ KnownRows /\ Poller \in Workers
  BY DEF TypeInv, Workers
<1> DEFINE z == [row[s] EXCEPT !.status = "FAILURE", !.full = TRUE]
<1>1. /\ Others(Poller) /\ wk'[Poller].plan = <<>> /\ wk[Poller].plan = <<>>
      /\ s \in wk[Poller].todo /\ UNCHANGED <<funds, token>>
      /\ hurt \subseteq hurt' /\ BulkFailed \subseteq BulkFailed'
      /\ row' = row \/ (row' = [row EXCEPT ![s] = z] /\ s \in BulkFailed')
  BY BulkEffect, FailedGrows
<1>2. row[s] \in LiveRow /\ row \in [Tasks -> Rows]
  BY <1>0, <1>1, RowFacts DEF KnownRows, TasksOK
<1>3. /\ z \in LiveRow /\ z.status = "FAILURE"
      /\ z.source = row[s].source /\ z.quota = row[s].quota /\ z.held = row[s].held
  BY <1>2 DEF LiveRow, Terminal
<1> HIDE DEF z
<1>4. /\ row'[s] = row[s] \/ (row'[s] = z /\ s \in BulkFailed')
      /\ \A u \in Tasks : u # s => row'[u] = row[u]
  BY <1>1, <1>2
<1>5. \A t : ~ Billing(wk[Poller], t) /\ ~ Billing(wk'[Poller], t)
  BY <1>1, NoPlan
<1>6. ASSUME NEW t \in Tasks PROVE Books(t)'
  <2>0. hurt \subseteq hurt' /\ BulkFailed \subseteq BulkFailed' /\ funds'[t] = funds[t] /\ token'[t] = token[t]
    BY <1>1
  <2>1. CASE row'[t] = row[t]
    BY <1>0, <1>1, <1>5, <2>0, <2>1, BooksOther DEF BooksInv
  <2>2. CASE row'[t] # row[t]
    <3>1. t = s /\ row'[t] = z /\ row[t] # NoRow /\ t \in BulkFailed'
      BY <1>2, <1>4, <2>2, RowFacts
    <3>2. Counts(t, row'[t], hurt') => Counts(t, row[t], hurt)
      BY <1>1, <1>3, <3>1 DEF Counts
    <3>3. \A v \in Workers : Billing(wk'[v], t) => Billing(wk[v], t) /\ wk'[v] = wk[v]
      BY <1>5, <1>1 DEF Others
    <3>4. \A v \in Workers : BilledSoFar(wk[v], row[t], funds[t], token[t]) =>
            BilledSoFar(wk[v], row'[t], funds[t], token[t])
      BY <1>3, <3>1 DEF BilledSoFar, Whole
    <3>5. Balanced(t, row'[t], funds'[t], token'[t], hurt', BulkFailed')
      BY <1>3, <3>1 DEF Balanced, Open, Pending
    <3>6. Books(t)
      BY DEF BooksInv
    <3> QED BY <2>0, <3>1, <3>2, <3>3, <3>4, <3>5, <3>6 DEF Books
  <2> QED BY <2>1, <2>2
<1> QED BY <1>6 DEF BooksInv

(* RelayTask charges what the row records, or what the session held if it could not
   settle. *)
LEMMA SubmitBooks ==
  ASSUME TypeInv, MoveInv, BooksInv, NEW s \in Tasks, SubmitTask(s)
  PROVE  BooksInv'
<1>0. WorkersOK /\ TasksOK
  BY DEF TypeInv
<1>1. PICK src \in Sources, h \in Holds, q \in Quotas, charged \in Nat :
         Submitted(s, src, h, q, charged)
  BY SubmitEffect
<1> DEFINE z == NewRow("NOT_START", src, q, h)
<1>2. z.status = "NOT_START" /\ z.source = src /\ z.quota = q /\ ~ z.reason
  BY DEF NewRow, NoRow
<1> HIDE DEF z
<1>3. /\ row[s] = NoRow /\ row'[s] \in {z, NoRow} /\ \A u \in Tasks : u # s => row'[u] = row[u]
      /\ UNCHANGED wk /\ hurt \subseteq hurt' /\ BulkFailed \subseteq BulkFailed'
      /\ charged # q => <<s, "settle">> \in hurt'
  BY <1>0, <1>1, FailedGrows DEF Submitted, TasksOK, z
<1>4. /\ funds'[s] = Units(src, charged) /\ token'[s] = TokenUnits(src, charged)
      /\ \A u \in Tasks : u # s => funds'[u] = funds[u] /\ token'[u] = token[u]
  BY <1>0, <1>1 DEF Submitted, TasksOK
<1>5. Units(src, charged) \in Nat /\ TokenUnits(src, charged) \in Nat
  BY UnitsInt
<1>6. ASSUME NEW t \in Tasks PROVE Books(t)'
  <2>1. CASE t # s
    BY <1>3, <1>4, <2>1, BooksSame DEF BooksInv
  <2>2. CASE t = s
    <3>1. \A v \in Workers : ~ Billing(wk'[v], t)
      <4>1. \A v \in Workers : ~ Billing(wk[v], t)
        BY <1>0, <1>3, <2>2, BillingFacts
      <4> QED BY <1>3, <4>1
    <3>2. ASSUME Counts(t, row'[t], hurt')
          PROVE  /\ funds'[t] >= 0 /\ token'[t] >= 0
                 /\ row'[t] # NoRow => Balanced(t, row'[t], funds'[t], token'[t], hurt', BulkFailed')
      <4>1. charged = q
        BY <1>3, <2>2, <3>2 DEF Counts
      <4>2. row'[t] # NoRow => row'[t] = z
        BY <1>3, <2>2
      <4> QED BY <1>2, <1>4, <1>5, <2>2, <4>1, <4>2 DEF Balanced, Whole, Outcome
    <3> QED BY <3>1, <3>2, BooksFree
  <2> QED BY <2>1, <2>2
<1> QED BY <1>6 DEF BooksInv

(* The numbers of a task *)
LEMMA ChargeInt ==
  ASSUME TypeInv, NEW t \in Tasks PROVE funds[t] \in Int /\ token[t] \in Int
BY DEF TypeInv, TasksOK

(* UpdateWithStatus: whoever moves the task finds it unbilled *)
LEMMA CasBooks ==
  ASSUME TypeInv, MoveInv, MoveInv', BooksInv, NEW w \in Workers, CasStep(w)
  PROVE  BooksInv'
<1>0. WorkersOK /\ TasksOK
  BY DEF TypeInv
<1>1. NextCall(w, "cas") /\ UNCHANGED <<BulkFailed, funds, token>>
  BY FailedSame DEF CasStep
<1>2. PICK o \in Outcomes :
        /\ row' = IF o # "lost" /\ Wins(w) THEN [row EXCEPT ![wk[w].task] = wk[w].mem] ELSE row
        /\ Continued(w, AfterCas(w, o = "ok" /\ Wins(w)))
        /\ HurtIf(o = "applied" /\ Wins(w) /\ Len(wk[w].plan) > 1, wk[w].task, "billing")
  BY <1>0, CasEffect
<1> DEFINE x == wk[w]
           y == wk'[w]
           s == wk[w].task
           moved == o # "lost" /\ Wins(w)
           plan == AfterCas(w, o = "ok" /\ Wins(w))
<1>3. /\ x.plan # <<>> /\ x.plan \in CasPlans /\ s \in Tasks
      /\ x.mem \in LiveRow /\ x.da \in Int /\ x.dt \in Int
  BY <1>0, <1>1, CallerFacts, PlanSteps
<1>4. Work(w, x, row[s], BulkFailed)
  BY <1>3 DEF MoveInv, WorkerInv
<1>5. /\ x.plan = <<"cas">> \o Bill(x.da, x.dt) /\ x.from \in Pending /\ Version(x.mem, row[s])
      /\ Due(x.mem, x.da, x.dt) /\ ~ row[s].reason
  BY <1>3, <1>4 DEF Work, PlanFits
<1>6. Tail(x.plan) = Bill(x.da, x.dt) /\ (x.da # 0 => x.plan # <<"cas">> /\ Len(x.plan) > 1)
  <2>1. Tail(x.plan) = Bill(x.da, x.dt)
    BY <1>3, <1>5, BillForms, PlanTails
  <2>2. x.da # 0 => x.plan \in {<<"cas", "fund">>, <<"cas", "fund", "token">>}
    BY <1>3, <1>5, BillForms
  <2>3. \A p \in {<<"cas", "fund">>, <<"cas", "fund", "token">>} : p # <<"cas">> /\ Len(p) > 1
    OBVIOUS
  <2> QED BY <2>1, <2>2, <2>3
<1>7. Others(w) /\ y.plan = plan /\ (plan # <<>> => y.task = s)
  BY <1>2 DEF Continued, At
<1>8. /\ row'[s] = IF moved THEN x.mem ELSE row[s]
      /\ \A u \in Tasks : u # s => row'[u] = row[u]
      /\ hurt \subseteq hurt'
  BY <1>0, <1>2, <1>3 DEF TasksOK, HurtIf
<1>9. moved => row[s].status \in Pending
  BY <1>5 DEF Wins
<1>10. \A t : ~ Billing(x, t)
  BY <1>3, PlansDiffer DEF Billing
<1>11. \A t \in Tasks : Billing(y, t) =>
         /\ t = s /\ moved /\ plan = Bill(x.da, x.dt) /\ x.da # 0
         /\ plan \in {<<"fund">>, <<"fund", "token">>}
  BY <1>3, <1>6, <1>7, BillForms, PlansDiffer DEF AfterCas, Billing
<1>12. moved /\ x.da # 0 /\ plan = <<>> => <<s, "billing">> \in hurt'
  <2> SUFFICES ASSUME moved, x.da # 0, plan = <<>> PROVE <<s, "billing">> \in hurt'
    OBVIOUS
  <2>1. o = "ok" => plan = Bill(x.da, x.dt)
    BY <1>6 DEF AfterCas
  <2>2. Bill(x.da, x.dt) # <<>>
    BY <1>3, BillForms
  <2>3. o = "applied" /\ Wins(w) /\ Len(x.plan) > 1
    BY <1>6, <2>1, <2>2 DEF Outcomes
  <2> QED BY <1>2, <2>3 DEF HurtIf
<1>13. moved => \A v \in Workers : ~ Billing(wk[v], s)
  BY <1>3, <1>9, <1>10, NobodyElse
<1> HIDE DEF x, y, moved, plan
<1>14. ASSUME NEW t \in Tasks PROVE Books(t)'
  <2>0. Books(t) /\ funds'[t] = funds[t] /\ token'[t] = token[t] /\ BulkFailed \subseteq BulkFailed'
    BY <1>1 DEF BooksInv
  <2>1. CASE t # s \/ ~ moved
    <3>1. row'[t] = row[t] /\ ~ Billing(y, t)
      BY <1>8, <1>11, <2>1
    <3> QED BY <1>7, <1>8, <1>10, <2>0, <3>1, BooksOther DEF x, y
  <2>2. CASE t = s /\ moved
    <3>1. row'[t] = x.mem /\ row[t] # NoRow /\ Open(row[t])
      BY <1>5, <1>8, <1>9, <2>2 DEF Version, Open
    <3>2. ASSUME Counts(t, row'[t], hurt')
          PROVE  /\ funds'[t] >= 0 /\ token'[t] >= 0
                 /\ Whole(row'[t], funds'[t], token'[t])
                 /\ x.mem.source = "subscription" => x.mem.held = x.mem.quota
      <4>1. Counts(t, row[t], hurt)
        BY <1>5, <1>8, <2>2, <3>1, <3>2 DEF Counts, Version
      <4>2. funds[t] >= 0 /\ token[t] >= 0 /\ Whole(row[t], funds[t], token[t])
        BY <1>13, <2>0, <2>2, <3>1, <4>1 DEF Books, Balanced
      <4> QED BY <1>5, <2>0, <2>2, <3>1, <3>2, <4>2 DEF Counts, Version, Whole
    <3>3. CASE plan # <<>>
      <4>1. Billing(y, t) /\ plan \in {<<"fund">>, <<"fund", "token">>}
        <5>1. plan \in {<<"fund">>, <<"fund", "token">>}
          BY <1>3, <1>6, <3>3, BillForms DEF plan, AfterCas, x
        <5> QED BY <1>7, <2>2, <3>3, <5>1 DEF Billing, BillPlans
      <4>2. Counts(t, row'[t], hurt') => /\ funds'[t] >= 0 /\ token'[t] >= 0
                                         /\ BilledSoFar(y, row'[t], funds'[t], token'[t])
        BY <1>7, <3>2, <4>1 DEF BilledSoFar
      <4>3. Alone'
        BY DEF MoveInv
      <4> QED BY <4>1, <4>2, <4>3, BooksBilled DEF y
    <3>4. CASE plan = <<>>
      <4>1. \A v \in Workers : ~ Billing(wk'[v], t)
        BY <1>7, <1>11, <1>13, <2>2, <3>4, NoPlan DEF Others, y
      <4>2. ASSUME Counts(t, row'[t], hurt')
            PROVE  Balanced(t, row'[t], funds'[t], token'[t], hurt', BulkFailed')
        <5>1. Whole(x.mem, funds'[t], token'[t])
          BY <3>1, <3>2, <4>2
        <5>2. <<t, "billing">> \notin hurt' => x.da = 0
          BY <1>12, <2>2, <3>4
        <5>3. x.da = 0 => Outcome(x.mem, funds'[t], token'[t])
          <6>1. /\ Outcome(x.mem, Units(x.mem.source, x.mem.quota) + x.da,
                                  TokenUnits(x.mem.source, x.mem.quota) + x.dt)
                /\ x.da = 0 => x.dt = 0
                /\ Units(x.mem.source, x.mem.quota) \in Nat /\ TokenUnits(x.mem.source, x.mem.quota) \in Nat
            BY <1>3, <1>5, <3>2, <4>2, DueFacts
          <6>2. x.da = 0 => /\ Units(x.mem.source, x.mem.quota) + x.da = funds'[t]
                            /\ TokenUnits(x.mem.source, x.mem.quota) + x.dt = token'[t]
            BY <5>1, <6>1 DEF Whole
          <6> QED BY <6>1, <6>2
        <5> QED BY <3>1, <5>1, <5>2, <5>3 DEF Balanced
      <4> QED BY <3>2, <4>1, <4>2, BooksFree
    <3> QED BY <3>3, <3>4
  <2> QED BY <2>1, <2>2
<1> QED BY <1>14 DEF BooksInv

(* Task.Update of a Suno task, which was billed before *)
LEMMA SaveBooks ==
  ASSUME TypeInv, MoveInv, MoveInv', BooksInv, NEW w \in Workers, SaveStep(w)
  PROVE  BooksInv'
<1>0. WorkersOK /\ TasksOK
  BY DEF TypeInv
<1>1. NextCall(w, "save") /\ UNCHANGED <<BulkFailed, funds, token>>
  BY FailedSame DEF SaveStep
<1> DEFINE x == wk[w]
           s == wk[w].task
<1>2. Continued(w, Tail(x.plan))
  BY <1>0, SaveEffect
<1>3. PICK o \in Outcomes : Saved(s, x.mem, o) /\ HurtIf(o = "lost", s, "billing")
  BY <1>0, SaveEffect
<1>4. x.plan = <<"save">> /\ x.plan # <<>> /\ s \in Tasks /\ x.mem \in LiveRow /\ x.da \in Int /\ x.dt \in Int
  BY <1>0, <1>1, CallerFacts, PlanSteps
<1>5. /\ Version(x.mem, row[s]) /\ Due(x.mem, x.da, x.dt) /\ Kind[s] = "suno"
  <2>1. Work(w, x, row[s], BulkFailed)
    BY <1>4 DEF MoveInv, WorkerInv
  <2> QED BY <1>4, <2>1 DEF Work, SavePlans
<1>6. Others(w) /\ wk'[w].plan = <<>>
  BY <1>2, <1>4, PlanTails DEF Continued
<1>7. /\ row'[s] = IF o = "lost" THEN row[s] ELSE x.mem
      /\ \A u \in Tasks : u # s => row'[u] = row[u]
      /\ hurt \subseteq hurt' /\ (o = "lost" => <<s, "billing">> \in hurt')
  BY <1>0, <1>3, <1>4 DEF TasksOK, Saved, HurtIf
<1>8. Billing(x, s) /\ \A t : Billing(x, t) => t = s
  BY <1>4 DEF Billing, SavePlans
<1>9. \A t : ~ Billing(wk'[w], t)
  BY <1>6, NoPlan
<1>10. \A v \in Workers : ~ Billing(wk'[v], s)
  <2>1. \A v \in Workers : Billing(wk[v], s) => v = w
    BY <1>4, <1>8 DEF MoveInv, Alone
  <2> QED BY <1>6, <1>9, <2>1 DEF Others
<1>11. ASSUME NEW t \in Tasks PROVE Books(t)'
  <2>0. Books(t) /\ funds'[t] = funds[t] /\ token'[t] = token[t] /\ BulkFailed \subseteq BulkFailed'
    BY <1>1 DEF BooksInv
  <2>1. CASE t # s
    BY <1>6, <1>7, <1>8, <1>9, <2>0, <2>1, BooksOther
  <2>2. CASE t = s
    <3>1. ASSUME Counts(t, row'[t], hurt')
          PROVE  /\ funds'[t] >= 0 /\ token'[t] >= 0
                 /\ Balanced(t, row'[t], funds'[t], token'[t], hurt', BulkFailed')
      <4>1. o # "lost" /\ row'[t] = x.mem /\ (x.mem.source = "subscription" => x.mem.held = x.mem.quota)
        BY <1>5, <1>7, <2>2, <3>1 DEF Counts
      <4>2. Counts(t, row[t], hurt) /\ row[t] # NoRow
        BY <1>5, <1>7, <2>2, <3>1, <4>1 DEF Counts, Version
      <4>3. funds[t] >= 0 /\ token[t] >= 0 /\ Whole(row[t], funds[t] - x.da, token[t] - x.dt)
        BY <1>4, <1>8, <2>0, <2>2, <4>2 DEF Books, BilledSoFar
      <4> DEFINE a == Units(x.mem.source, x.mem.quota)
                 b == TokenUnits(x.mem.source, x.mem.quota)
      <4>4. funds[t] - x.da = a /\ token[t] - x.dt = b
        BY <1>5, <2>2, <4>3 DEF Whole, Version
      <4>5. Outcome(x.mem, a + x.da, b + x.dt) /\ (Open(x.mem) => x.da = 0 /\ x.dt = 0)
        BY <1>4, <1>5, <4>1, DueFacts
      <4>6. funds[t] = a + x.da /\ token[t] = b + x.dt
        <5> HIDE DEF a, b, x
        <5>1. funds[t] \in Int /\ token[t] \in Int
          BY ChargeInt
        <5> QED BY <1>4, <4>4, <5>1
      <4>7. Open(x.mem) => Whole(x.mem, funds[t], token[t])
        <5>1. Open(x.mem) => funds[t] - 0 = a /\ token[t] - 0 = b
          BY <4>4, <4>5
        <5>2. funds[t] - 0 = funds[t] /\ token[t] - 0 = token[t]
          BY ChargeInt
        <5> QED BY <5>1, <5>2 DEF Whole
      <4> QED BY <2>0, <4>1, <4>3, <4>5, <4>6, <4>7 DEF Balanced
    <3> QED BY <1>10, <2>2, <3>1, BooksFree
  <2> QED BY <2>1, <2>2
<1> QED BY <1>11 DEF BooksInv

(* Worker w bills task s, whose quota is a and b *)
Biller(w, s, a, b) ==
    /\ s \in Tasks /\ Billing(wk[w], s) /\ row[s] # NoRow
    /\ wk[w].da \in Int /\ wk[w].dt \in Int
    /\ \A v \in Workers : Billing(wk[v], s) => v = w
    /\ \A t : Billing(wk[w], t) => t = s
    /\ Kind[s] = "video" => wk[w].plan \in BillPlans
    /\ wk[w].plan \in BillPlans => ~ Open(row[s])
    /\ Counts(s, row[s], hurt) =>
         /\ a \in Nat /\ b \in Nat /\ a + wk[w].da >= 0 /\ b + wk[w].dt >= 0
         /\ wk[w].plan \in BillPlans /\ s \notin BulkFailed => Outcome(row[s], a + wk[w].da, b + wk[w].dt)

(* A worker with calls to the ledgers left is the only one that bills its task, and
   what is due brings the charge to the outcome. *)
LEMMA BillerFacts ==
  ASSUME TypeInv, MoveInv, NEW w \in Workers, wk[w].plan \in BillPlans \cup SavePlans
  PROVE  Biller(w, wk[w].task, Units(row[wk[w].task].source, row[wk[w].task].quota),
                TokenUnits(row[wk[w].task].source, row[wk[w].task].quota))
<1> DEFINE s == wk[w].task
           a == Units(row[s].source, row[s].quota)
           b == TokenUnits(row[s].source, row[s].quota)
<1>1. /\ wk[w].plan # <<>> /\ s \in Tasks /\ wk[w].mem \in LiveRow
      /\ wk[w].da \in Int /\ wk[w].dt \in Int
  BY PlansDiffer DEF TypeInv, WorkersOK, WorkerOK
<1>2. Work(w, wk[w], row[s], BulkFailed)
  BY <1>1 DEF MoveInv, WorkerInv
<1>3. /\ Version(wk[w].mem, row[s]) /\ Due(wk[w].mem, wk[w].da, wk[w].dt)
      /\ wk[w].plan \in BillPlans => /\ row[s].status \in Terminal
                                     /\ s \notin BulkFailed => row[s].status = wk[w].mem.status
                                     /\ ~ row[s].reason /\ ~ wk[w].mem.reason
      /\ Kind[s] = "video" => wk[w].plan \in BillPlans
  BY <1>2 DEF Work
<1>4. Billing(wk[w], s) /\ \A t : Billing(wk[w], t) => t = s
  BY DEF Billing
<1>5. \A v \in Workers : Billing(wk[v], s) => v = w
  BY <1>1, <1>4 DEF MoveInv, Alone
<1>6. ASSUME Counts(s, row[s], hurt)
      PROVE  /\ a \in Nat /\ b \in Nat /\ a + wk[w].da >= 0 /\ b + wk[w].dt >= 0
             /\ wk[w].plan \in BillPlans /\ s \notin BulkFailed => Outcome(row[s], a + wk[w].da, b + wk[w].dt)
  <2> DEFINE m == wk[w].mem
  <2>1. m.source = row[s].source /\ m.quota = row[s].quota /\ m.held = row[s].held
    BY <1>3 DEF Version
  <2>2. m.source = "subscription" => m.held = m.quota
    BY <1>6, <2>1 DEF Counts
  <2>3. a = Units(m.source, m.quota) /\ b = TokenUnits(m.source, m.quota)
    BY <2>1
  <2>4. /\ a \in Nat /\ b \in Nat /\ a + wk[w].da >= 0 /\ b + wk[w].dt >= 0
        /\ Outcome(m, a + wk[w].da, b + wk[w].dt)
    BY <1>1, <1>3, <2>2, <2>3, DueFacts
  <2> QED BY <1>3, <2>1, <2>4 DEF Outcome
<1> HIDE DEF s, a, b
<1>7. Biller(w, s, a, b)
  BY <1>1, <1>3, <1>4, <1>5, <1>6 DEF Version, Biller, Open, Pending, Terminal
<1> QED BY <1>7 DEF s, a, b

(* taskAdjustFunding *)
LEMMA FundBooks ==
  ASSUME TypeInv, MoveInv, MoveInv', BooksInv, NEW w \in Workers, FundStep(w)
  PROVE  BooksInv'
<1>0. WorkersOK /\ TasksOK
  BY DEF TypeInv
<1>1. NextCall(w, "fund") /\ UNCHANGED <<row, BulkFailed, token>>
  BY FailedSame DEF FundStep
<1> DEFINE x == wk[w]
           y == wk'[w]
           s == wk[w].task
           a == Units(row[s].source, row[s].quota)
           b == TokenUnits(row[s].source, row[s].quota)
<1>2. PICK o \in Outcomes :
        /\ funds' = IF o = "lost" THEN funds ELSE [funds EXCEPT ![s] = @ + x.da]
        /\ Continued(w, IF o = "ok" THEN Tail(x.plan) ELSE SkipToken(Tail(x.plan)))
        /\ HurtIf(o # "ok", s, "billing")
  BY <1>0, FundEffect
<1>3. x.plan \in {<<"fund">>, <<"fund", "token">>, <<"fund", "save">>, <<"fund", "token", "save">>}
  BY <1>0, <1>1, CallerFacts, PlanSteps
<1>4. x.plan \in BillPlans \cup SavePlans /\ x.plan # <<>>
  BY <1>3, PlansDiffer DEF BillPlans, SavePlans
<1>5. /\ s \in Tasks /\ Billing(x, s) /\ row[s] # NoRow /\ x.da \in Int /\ x.dt \in Int
      /\ \A v \in Workers : Billing(wk[v], s) => v = w
      /\ \A t : Billing(x, t) => t = s
      /\ Kind[s] = "video" => x.plan \in BillPlans
      /\ x.plan \in BillPlans => ~ Open(row[s])
      /\ Counts(s, row[s], hurt) =>
           /\ a \in Nat /\ b \in Nat /\ a + x.da >= 0 /\ b + x.dt >= 0
           /\ x.plan \in BillPlans /\ s \notin BulkFailed => Outcome(row[s], a + x.da, b + x.dt)
  <2>1. Biller(w, s, a, b)
    BY <1>4, BillerFacts
  <2> HIDE DEF s, a, b
  <2> QED BY <2>1 DEF Biller
<1>6. PlanFits(x)
  BY <1>4 DEF MoveInv, WorkerInv, Work
<1>7. x.plan \in {<<"fund">>, <<"fund", "save">>} => x.dt = 0
  <2>1. x.plan = <<"fund">> => Bill(x.da, x.dt) = <<"fund">>
    BY <1>6 DEF PlanFits
  <2>2. x.plan = <<"fund", "save">> => Bill(x.da, x.dt) \o <<"save">> = <<"fund", "save">>
    BY <1>6 DEF PlanFits
  <2>3. <<"fund">> # <<>> /\ <<"fund">> # <<"fund", "token">>
    OBVIOUS
  <2>4. <<"fund", "save">> # <<"save">> /\ <<"fund", "save">> # <<"fund", "token", "save">>
    OBVIOUS
  <2>5. x.da = 0 \/ (x.da # 0 /\ x.dt # 0) \/ x.dt = 0
    OBVIOUS
  <2> HIDE DEF x
  <2>6. CASE x.da = 0
    BY <1>5, <2>1, <2>2, <2>3, <2>4, <2>6, BillForms
  <2>7. CASE x.da # 0 /\ x.dt # 0
    BY <1>5, <2>1, <2>2, <2>3, <2>4, <2>7, BillForms
  <2> QED BY <2>5, <2>6, <2>7
<1>8. /\ Others(w) /\ y.plan = IF o = "ok" THEN Tail(x.plan) ELSE SkipToken(Tail(x.plan))
      /\ y.plan # <<>> => y.task = s /\ y.da = x.da /\ y.dt = x.dt
  BY <1>2 DEF Continued, At
<1>9. /\ funds'[s] = IF o = "lost" THEN funds[s] ELSE funds[s] + x.da
      /\ \A u \in Tasks : u # s => funds'[u] = funds[u]
      /\ hurt \subseteq hurt' /\ (o # "ok" => <<s, "billing">> \in hurt') /\ (o = "ok" => hurt' = hurt)
  BY <1>0, <1>2, <1>5 DEF TasksOK, HurtIf
<1>10. /\ o = "ok" /\ x.plan = <<"fund">> => y.plan = <<>>
       /\ o = "ok" /\ x.plan = <<"fund", "token">> => y.plan = <<"token">>
       /\ o = "ok" /\ x.plan = <<"fund", "save">> => y.plan = <<"save">>
       /\ o = "ok" /\ x.plan = <<"fund", "token", "save">> => y.plan = <<"token", "save">>
       /\ o # "ok" /\ x.plan \in BillPlans => y.plan = <<>>
  <2>1. x.plan \in BillPlans => x.plan \in {<<"fund">>, <<"fund", "token">>}
    BY <1>3 DEF BillPlans
  <2> QED BY <1>8, <2>1, PlanTails, SkipForms
<1>11. funds[s] \in Int /\ token[s] \in Int
  BY <1>5, ChargeInt
<1> HIDE DEF x, y, a, b
<1>12. ASSUME Counts(s, row'[s], hurt')
       PROVE  /\ Counts(s, row[s], hurt) /\ funds[s] = a /\ token[s] = b
              /\ funds'[s] >= 0 /\ token'[s] >= 0
  <2>1. Counts(s, row[s], hurt)
    BY <1>1, <1>9, <1>12 DEF Counts
  <2>2. funds[s] >= 0 /\ token[s] >= 0 /\ Whole(row[s], funds[s], token[s])
    BY <1>3, <1>5, <2>1 DEF BooksInv, Books, BilledSoFar, x
  <2>3. funds[s] = a /\ token[s] = b
    BY <2>2 DEF Whole, a, b
  <2> QED BY <1>1, <1>5, <1>9, <2>1, <2>2, <2>3
<1>13. Alone'
  BY DEF MoveInv
<1>14. ASSUME NEW t \in Tasks PROVE Books(t)'
  <2>0. Books(t) /\ token'[t] = token[t] /\ BulkFailed \subseteq BulkFailed' /\ row'[t] = row[t]
    BY <1>1 DEF BooksInv
  <2>1. CASE t # s
    <3>1. ~ Billing(x, t) /\ ~ Billing(y, t)
      BY <1>5, <1>8, <2>1, PlansDiffer DEF Billing
    <3> QED BY <1>8, <1>9, <2>0, <2>1, <3>1, BooksOther DEF x, y
  <2>2. CASE t = s /\ y.plan = <<>>
    <3>1. \A v \in Workers : ~ Billing(wk'[v], t)
      BY <1>5, <1>8, <2>2, NoPlan DEF Others, y
    <3>2. ASSUME Counts(t, row'[t], hurt')
          PROVE  Balanced(t, row'[t], funds'[t], token'[t], hurt', BulkFailed')
      <4>1. x.plan \in BillPlans /\ ~ Open(row[t])
        <5>1. CASE o = "ok"
          <6>1. x.plan = <<"fund">>
            BY <1>3, <1>10, <2>2, <5>1
          <6> QED BY <1>5, <2>2, <6>1 DEF BillPlans
        <5>2. CASE o # "ok"
          BY <1>5, <1>9, <2>2, <3>2, <5>2 DEF Counts
        <5> QED BY <5>1, <5>2
      <4>2. CASE o # "ok"
        BY <1>9, <2>0, <2>2, <4>1, <4>2 DEF Balanced
      <4>3. CASE o = "ok"
        <5>1. x.plan = <<"fund">> /\ x.dt = 0
          BY <1>3, <1>7, <1>10, <2>2, <4>3
        <5>2. Counts(s, row[s], hurt) /\ funds[s] = a /\ token[s] = b
          BY <1>12, <2>2, <3>2
        <5>3. /\ funds'[t] = a + x.da /\ token'[t] = b + x.dt
          BY <1>9, <1>11, <2>0, <2>2, <4>3, <5>1, <5>2
        <5>4. t \notin BulkFailed => Outcome(row'[t], funds'[t], token'[t])
          BY <1>5, <2>0, <2>2, <4>1, <5>2, <5>3
        <5> QED BY <1>1, <2>0, <4>1, <5>4 DEF Balanced
      <4> QED BY <4>2, <4>3
    <3> QED BY <1>12, <2>2, <3>1, <3>2, BooksFree
  <2>3. CASE t = s /\ y.plan # <<>>
    <3>1. Billing(y, t)
      <4>1. y.plan \in BillPlans \cup SavePlans
        <5>1. LedgerRest(x.plan, y.plan)
          BY <1>0, LedgerRests DEF x, y
        <5> QED BY <2>3, <5>1 DEF LedgerRest, BillPlans, SavePlans
      <4> QED BY <1>8, <2>3, <4>1 DEF Billing
    <3>2. ASSUME Counts(t, row'[t], hurt')
          PROVE  BilledSoFar(y, row'[t], funds'[t], token'[t])
      <4>1. o = "ok"
        <5>1. o # "ok" => Kind[s] = "video"
          BY <1>9, <2>3, <3>2 DEF Counts
        <5> QED BY <1>5, <1>10, <2>3, <5>1
      <4>2. /\ y.plan \in {<<"token">>, <<"save">>, <<"token", "save">>}
            /\ y.plan = <<"save">> => x.dt = 0
        <5>1. <<"token">> # <<"save">> /\ <<"token", "save">> # <<"save">>
          OBVIOUS
        <5>2. CASE x.plan = <<"fund", "save">>
          BY <1>7, <1>10, <4>1, <5>2
        <5>3. CASE x.plan # <<"fund", "save">>
          BY <1>3, <1>10, <2>3, <4>1, <5>1, <5>3
        <5> QED BY <5>2, <5>3
      <4>3. funds'[t] = a + x.da /\ token'[t] = b /\ y.da = x.da /\ y.dt = x.dt
        BY <1>8, <1>9, <1>12, <2>0, <2>3, <3>2, <4>1
      <4>4. a \in Nat /\ b \in Nat /\ x.da \in Int
        BY <1>5, <1>12, <2>3, <3>2
      <4>5. funds'[t] - y.da = a /\ (x.dt = 0 => token'[t] - y.dt = b)
        BY <4>3, <4>4
      <4>6. Whole(row'[t], funds'[t] - y.da, token'[t])
        BY <2>0, <2>3, <4>3, <4>5 DEF Whole, a, b
      <4>7. y.plan = <<"save">> => Whole(row'[t], funds'[t] - y.da, token'[t] - y.dt)
        BY <4>2, <4>3, <4>5, <4>6 DEF Whole
      <4>8. y.plan \notin {<<"fund">>, <<"fund", "token">>, <<"fund", "save">>, <<"fund", "token", "save">>}
        BY <4>2
      <4> QED BY <4>6, <4>7, <4>8 DEF BilledSoFar
    <3> QED BY <1>12, <1>13, <2>3, <3>1, <3>2, BooksBilled DEF y
  <2> QED BY <2>1, <2>2, <2>3
<1> QED BY <1>14 DEF BooksInv

(* taskAdjustTokenQuota *)
LEMMA TokenBooks ==
  ASSUME TypeInv, MoveInv, MoveInv', BooksInv, NEW w \in Workers, TokenStep(w)
  PROVE  BooksInv'
<1>0. WorkersOK /\ TasksOK
  BY DEF TypeInv
<1>1. NextCall(w, "token") /\ UNCHANGED <<row, BulkFailed, funds>>
  BY FailedSame DEF TokenStep
<1> DEFINE x == wk[w]
           y == wk'[w]
           s == wk[w].task
           a == Units(row[s].source, row[s].quota)
           b == TokenUnits(row[s].source, row[s].quota)
<1>2. PICK o \in Outcomes :
        /\ token' = IF o = "lost" THEN token ELSE [token EXCEPT ![s] = @ + x.dt]
        /\ HurtIf(o = "lost", s, "billing")
  BY <1>0, TokenEffect
<1>3. x.plan \in {<<"token">>, <<"token", "save">>}
  BY <1>0, <1>1, CallerFacts, PlanSteps
<1>4. x.plan \in BillPlans \cup SavePlans /\ x.plan # <<>>
  BY <1>3, PlansDiffer DEF BillPlans, SavePlans
<1>5. /\ s \in Tasks /\ Billing(x, s) /\ row[s] # NoRow /\ x.da \in Int /\ x.dt \in Int
      /\ \A v \in Workers : Billing(wk[v], s) => v = w
      /\ \A t : Billing(x, t) => t = s
      /\ Kind[s] = "video" => x.plan \in BillPlans
      /\ x.plan \in BillPlans => ~ Open(row[s])
      /\ Counts(s, row[s], hurt) =>
           /\ a \in Nat /\ b \in Nat /\ a + x.da >= 0 /\ b + x.dt >= 0
           /\ x.plan \in BillPlans /\ s \notin BulkFailed => Outcome(row[s], a + x.da, b + x.dt)
  <2>1. Biller(w, s, a, b)
    BY <1>4, BillerFacts
  <2> HIDE DEF s, a, b
  <2> QED BY <2>1 DEF Biller
<1>6. Continued(w, Tail(x.plan))
  BY <1>0, TokenEffect
<1>7. /\ Others(w) /\ y.plan = Tail(x.plan)
      /\ y.plan # <<>> => y.task = s /\ y.da = x.da /\ y.dt = x.dt
  BY <1>6 DEF Continued, At
<1>8. /\ token'[s] = IF o = "lost" THEN token[s] ELSE token[s] + x.dt
      /\ \A u \in Tasks : u # s => token'[u] = token[u]
      /\ hurt \subseteq hurt' /\ (o = "lost" => <<s, "billing">> \in hurt') /\ (o # "lost" => hurt' = hurt)
  BY <1>0, <1>2, <1>5 DEF TasksOK, HurtIf
<1>9. /\ x.plan = <<"token">> => y.plan = <<>>
      /\ x.plan = <<"token", "save">> => y.plan = <<"save">>
      /\ x.plan = <<"token">> <=> x.plan \in BillPlans
  <2>1. x.plan = <<"token">> <=> x.plan \in BillPlans
    BY <1>3 DEF BillPlans
  <2> QED BY <1>7, <2>1, PlanTails
<1>10. funds[s] \in Int /\ token[s] \in Int
  BY <1>5, ChargeInt
<1> HIDE DEF x, y, a, b
<1>11. ASSUME Counts(s, row'[s], hurt')
       PROVE  /\ Counts(s, row[s], hurt) /\ funds[s] - x.da = a /\ token[s] = b
              /\ funds'[s] >= 0 /\ token'[s] >= 0
  <2>1. Counts(s, row[s], hurt)
    BY <1>1, <1>8, <1>11 DEF Counts
  <2>2. funds[s] >= 0 /\ token[s] >= 0 /\ Whole(row[s], funds[s] - x.da, token[s])
    BY <1>3, <1>5, <2>1 DEF BooksInv, Books, BilledSoFar, x
  <2>3. funds[s] - x.da = a /\ token[s] = b
    BY <2>2 DEF Whole, a, b
  <2> QED BY <1>1, <1>5, <1>8, <2>1, <2>2, <2>3
<1>12. Alone'
  BY DEF MoveInv
<1>13. ASSUME NEW t \in Tasks PROVE Books(t)'
  <2>0. Books(t) /\ funds'[t] = funds[t] /\ BulkFailed \subseteq BulkFailed' /\ row'[t] = row[t]
    BY <1>1 DEF BooksInv
  <2>1. CASE t # s
    <3>1. ~ Billing(x, t) /\ ~ Billing(y, t)
      BY <1>5, <1>7, <2>1, PlansDiffer DEF Billing
    <3> QED BY <1>7, <1>8, <2>0, <2>1, <3>1, BooksOther DEF x, y
  <2>2. CASE t = s /\ x.plan = <<"token">>
    <3>1. \A v \in Workers : ~ Billing(wk'[v], t)
      BY <1>5, <1>7, <1>9, <2>2, NoPlan DEF Others, y
    <3>2. ASSUME Counts(t, row'[t], hurt')
          PROVE  Balanced(t, row'[t], funds'[t], token'[t], hurt', BulkFailed')
      <4>1. x.plan \in BillPlans /\ ~ Open(row[t])
        BY <1>5, <1>9, <2>2
      <4>2. CASE o = "lost"
        BY <1>8, <2>0, <2>2, <4>1, <4>2 DEF Balanced
      <4>3. CASE o # "lost"
        <5>1. Counts(s, row[s], hurt) /\ funds[s] - x.da = a /\ token[s] = b
          BY <1>11, <2>2, <3>2
        <5>2. funds'[t] = a + x.da /\ token'[t] = b + x.dt
          BY <1>5, <1>8, <1>10, <2>0, <2>2, <4>3, <5>1
        <5>3. t \notin BulkFailed => Outcome(row'[t], funds'[t], token'[t])
          BY <1>5, <2>0, <2>2, <4>1, <5>1, <5>2
        <5> QED BY <1>1, <2>0, <4>1, <5>3 DEF Balanced
      <4> QED BY <4>2, <4>3
    <3> QED BY <1>11, <2>2, <3>1, <3>2, BooksFree
  <2>3. CASE t = s /\ x.plan = <<"token", "save">>
    <3>1. y.plan = <<"save">> /\ y.task = s /\ y.da = x.da /\ y.dt = x.dt
      BY <1>7, <1>9, <2>3
    <3>2. Billing(y, t)
      BY <2>3, <3>1 DEF Billing, SavePlans
    <3>3. ASSUME Counts(t, row'[t], hurt')
          PROVE  BilledSoFar(y, row'[t], funds'[t], token'[t])
      <4>1. o # "lost"
        <5>1. x.plan \notin BillPlans
          BY <2>3 DEF BillPlans
        <5> QED BY <1>5, <1>8, <2>3, <3>3, <5>1 DEF Counts
      <4>2. funds'[t] - y.da = a /\ token'[t] = b + x.dt /\ b \in Nat
        BY <1>5, <1>8, <1>11, <2>0, <2>3, <3>1, <3>3, <4>1
      <4>3. token'[t] - y.dt = b
        BY <1>5, <3>1, <4>2
      <4>4. Whole(row'[t], funds'[t] - y.da, token'[t] - y.dt)
        BY <2>0, <2>3, <4>2, <4>3 DEF Whole, a, b
      <4>5. y.plan \notin {<<"fund">>, <<"fund", "token">>, <<"fund", "save">>, <<"fund", "token", "save">>,
                           <<"token">>, <<"token", "save">>}
        BY <3>1
      <4> QED BY <4>4, <4>5 DEF BilledSoFar
    <3> QED BY <1>11, <1>12, <2>3, <3>2, <3>3, BooksBilled DEF y
  <2> QED BY <1>3, <2>1, <2>2, <2>3
<1> QED BY <1>13 DEF BooksInv

(* The initial state: nothing was charged *)
LEMMA InitBooks == Init => BooksInv
<1> SUFFICES ASSUME Init, NEW t \in Tasks PROVE Books(t)
  BY DEF BooksInv
<1>1. row[t] = NoRow /\ funds[t] = 0 /\ token[t] = 0
  BY DEF Init
<1> QED BY <1>1 DEF Books

(* Every step keeps the books. *)
LEMMA NextBooks ==
  ASSUME NoImages, TypeInv, MoveInv, BooksInv, [Next]_vars PROVE BooksInv'
<1>0. MoveInv' /\ Steps
  BY NextMove, NextSteps
<1>1. CASE UNCHANGED <<row, wk, img, funds, token, hurt>>
  BY <1>1, OutsideBooks
<1>2. ASSUME NEW w \in Workers, SomeStart(w) PROVE BooksInv'
  BY <1>0, <1>2, StartBooks
<1>3. ASSUME NEW w \in Workers, Leaves(w) PROVE BooksInv'
  <2>1. /\ Others(w) /\ wk[w].plan = <<>> /\ wk'[w].plan = <<>>
        /\ UNCHANGED <<row, funds, token, hurt, BulkFailed>>
    BY <1>3 DEF Leaves, rest, BulkFailed
  <2>2. \A t \in Tasks : ~ Billing(wk[w], t) /\ ~ Billing(wk'[w], t)
    BY <2>1, NoPlan
  <2> QED BY <2>1, <2>2, BooksIdle
<1>4. ASSUME NEW w \in Workers, Crash(w) PROVE BooksInv'
  BY <1>4, CrashBooks
<1>5. ASSUME NEW w \in Workers, CasStep(w) \/ SaveStep(w) \/ FundStep(w) \/ TokenStep(w)
      PROVE  BooksInv'
  BY <1>0, <1>5, CasBooks, SaveBooks, FundBooks, TokenBooks
<1>6. ASSUME NEW w \in Workers, NEW S \in SUBSET Tasks, ListsOpen(w, S) PROVE BooksInv'
  <2>1. /\ Others(w) /\ wk[w].plan = <<>> /\ wk'[w].plan = <<>>
        /\ UNCHANGED <<row, funds, token, hurt, BulkFailed>>
    BY <1>6 DEF ListsOpen, Lists, BulkFailed
  <2>2. \A t \in Tasks : ~ Billing(wk[w], t) /\ ~ Billing(wk'[w], t)
    BY <2>1, NoPlan
  <2> QED BY <2>1, <2>2, BooksIdle
<1>7. ASSUME NEW t \in Tasks, BulkFail(t) \/ SubmitTask(t) PROVE BooksInv'
  BY <1>7, BulkBooks, SubmitBooks
<1>8. ASSUME NEW t \in Tasks, Age(t) \/ DeleteChannel(t) PROVE BooksInv'
  BY <1>8, OutsideType, OutsideBooks
<1> QED BY <1>0, <1>1, <1>2, <1>3, <1>4, <1>5, <1>6, <1>7, <1>8 DEF Steps

(* A task that is quiet is billed by nobody. *)
LEMMA QuietFree ==
  ASSUME TypeInv, NEW t \in Tasks, Quiet(t) PROVE \A w \in Workers : ~ Billing(wk[w], t)
<1> SUFFICES ASSUME NEW w \in Workers, Billing(wk[w], t) PROVE FALSE
  OBVIOUS
<1>1. wk[w].plan \in PlanForms /\ wk[w].plan \in BillPlans \cup SavePlans /\ wk[w].task = t
  BY DEF TypeInv, WorkersOK, WorkerOK, Billing
<1>2. InBilling(w)
  BY <1>1, PlanSteps DEF InBilling
<1> QED BY <1>1, <1>2 DEF Quiet

(* The books imply that the charge follows the outcome. *)
LEMMA BooksOutcome ==
  ASSUME TypeInv, BooksInv PROVE ChargeFollowsOutcome
<1> SUFFICES ASSUME NEW t \in Tasks \ BulkFailed, row[t] # NoRow, AsRecorded(t),
                    <<t, "billing">> \notin hurt, <<t, "overrun">> \notin hurt, Quiet(t)
             PROVE  LET src == row[t].source
                        paid == IF UsesTokenQuota(src) THEN token[t] ELSE row[t].quota
                    IN CASE row[t].status = "FAILURE" \/ row[t].reason -> funds[t] = 0 /\ token[t] = 0
                         [] row[t].status = "SUCCESS" /\ ~ row[t].reason ->
                              /\ paid \in {row[t].quota} \cup (Actuals \ {0})
                              /\ funds[t] = Units(src, paid)
                         [] OTHER -> /\ funds[t] = Units(src, row[t].quota)
                                     /\ token[t] = TokenUnits(src, row[t].quota)
  BY DEF ChargeFollowsOutcome
<1>1. Counts(t, row[t], hurt)
  BY DEF Counts, AsRecorded
<1>2. Balanced(t, row[t], funds[t], token[t], hurt, BulkFailed)
  BY <1>1, QuietFree DEF BooksInv, Books
<1>3. row[t].status \in Pending \cup Terminal
  BY RowFacts DEF TypeInv, TasksOK, LiveRow
<1>4. CASE row[t].status = "FAILURE" \/ row[t].reason
  BY <1>2, <1>4 DEF Balanced, Outcome
<1>5. CASE row[t].status = "SUCCESS" /\ ~ row[t].reason
  BY <1>2, <1>5 DEF Balanced, Outcome
<1>6. CASE Open(row[t])
  BY <1>2, <1>6 DEF Balanced, Whole, Open, Pending
<1> QED BY <1>3, <1>4, <1>5, <1>6 DEF Terminal, Open

TaskInv == TypeInv /\ MoveInv /\ BooksInv

(* The inductive invariant holds in every reachable state. *)
LEMMA TaskInvariant == ASSUME NoImages PROVE Spec => []TaskInv
<1>1. Init => TaskInv
  BY InitType, InitMove, InitBooks DEF TaskInv
<1>2. TaskInv /\ [Next]_vars => TaskInv'
  BY NextType, NextMove, NextBooks DEF TaskInv
<1> QED BY <1>1, <1>2, PTL DEF Spec

(* A failed task, and one that Suno gives a reason of failure for, is paid back in full
   and once, a successful one costs its quota or its actual cost, an open one its quota,
   for any number of tasks and of users that query them while the poller and its sweep
   work on them: the one that moves the task finds it unbilled, and nobody else bills
   it. A task that was failed in bulk, after a failed lookup of its channel, and one
   whose billing an error or a crash cut off are left out, and so are image tasks: their
   goroutine settles and saves apart from the poller. *)
THEOREM ChargeIsRight == ASSUME NoImages PROVE Spec => []ChargeFollowsOutcome
<1>1. TaskInv => ChargeFollowsOutcome
  BY BooksOutcome DEF TaskInv
<1> QED BY <1>1, TaskInvariant, PTL

(* No error, crash or race pays a video task back twice, whatever other tasks there
   are. *)
THEOREM VideoNeverOverRefunded ==
  ASSUME NoImages
  PROVE  Spec => [](\A t \in Tasks : Kind[t] = "video" /\ AsRecorded(t) => funds[t] >= 0 /\ token[t] >= 0)
<1>1. TaskInv => \A t \in Tasks : Kind[t] = "video" /\ AsRecorded(t) => funds[t] >= 0 /\ token[t] >= 0
  BY DEF TaskInv, BooksInv, Books, Counts, AsRecorded
<1> QED BY <1>1, TaskInvariant, PTL

(* If all tasks are moved by UpdateWithStatus before they are billed, as video tasks
   are, none is ever paid back twice. *)
THEOREM NoDoubleRefund ==
  ASSUME \A t \in Tasks : Kind[t] = "video" PROVE Spec => []NeverOverRefunded
<1>1. NoImages
  BY DEF NoImages
<1>2. TaskInv => NeverOverRefunded
  BY DEF TaskInv, BooksInv, Books, Counts, AsRecorded, NeverOverRefunded
<1>3. Spec => []TaskInv
  BY <1>1, TaskInvariant
<1> QED BY <1>2, <1>3, PTL
=============================================================================
