----------------------------- MODULE TaskPolling -----------------------------
(***************************************************************************)
(* The life of an asynchronous task after it was paid for: the polling     *)
(* loop with its sweep of timed-out tasks (service/task_polling.go), users *)
(* whose queries fetch the task from the upstream at the same time         *)
(* (controller/task.go, relay/relay_task.go), the goroutine that runs an   *)
(* image task (controller/image_task.go), and the billing that follows a   *)
(* change of status (service/task_billing.go).                             *)
(*                                                                         *)
(* Every database call is a step of its own. What a worker still has to do *)
(* for the task at hand is its plan, a sequence of such calls. Each task   *)
(* is on a channel of its own. Tasks of the time before the refund existed *)
(* (legacyTaskCutoff) and the batch limits of the queries are left out.    *)
(***************************************************************************)
EXTENDS Integers, Sequences, FiniteSets

CONSTANTS
    Tasks,
    Kind,        \* Kind[t]: "video", "suno" or "image"
    Sources,     \* what may pay for a task, a subset of FundingSources
    Holds,       \* what the billing session of a task may have held
    Quotas,      \* what a task may be recorded to cost (task.Quota)
    Actuals,     \* what a finished task may turn out to cost; 0: as recorded
    Reports,     \* what the upstream may answer: status, whether it says 100%,
                 \* whether it gives a fail_reason
    Users,       \* users that may query a task at the same time
    Deletable,   \* tasks whose channel may be deleted
    MaxQueries,  \* bound: queries of users
    MaxFaults,   \* bound: database calls that report an error, channels not found
    MaxCrashes   \* bound: workers that die with their process

FundingSources == {"wallet", "subscription", "request_count"}
Pending == {"NOT_START", "SUBMITTED", "QUEUED", "IN_PROGRESS"}
Terminal == {"SUCCESS", "FAILURE"}
Poller == "poller"
Workers == {Poller} \cup Users

ASSUME TaskAssumption ==
    /\ Kind \in [Tasks -> {"video", "suno", "image"}]
    /\ Sources \subseteq FundingSources
    /\ Holds \subseteq Nat /\ Quotas \subseteq Nat \ {0} /\ Actuals \subseteq Nat
    /\ Reports \subseteq [status : Pending \cup Terminal, full : BOOLEAN, reason : BOOLEAN]
    /\ Poller \notin Users /\ Deletable \subseteq Tasks
    /\ MaxQueries \in Nat /\ MaxFaults \in Nat /\ MaxCrashes \in Nat

VARIABLES
    row,      \* row of the table tasks, or NoRow
    wk,       \* the workers: the poller and the users' queries
    img,      \* the goroutine of an image task
    aged,     \* tasks submitted before the cutoff of the sweep
    gone,     \* tasks whose channel was deleted
    funds,    \* what the funding source was charged for the task
    token,    \* what the token was charged for the task
    queries,  \* queries so far
    faults,   \* database errors so far
    crashes,  \* workers that died so far
    hurt      \* history: tasks whose "settle" at submission or later "billing"
              \* was cut off by an error or a crash, that were failed in bulk for
              \* want of their "channel", or that a goroutine saved over their end
              \* ("overrun")

ledger == <<funds, token>>
vars == <<row, wk, img, aged, gone, funds, token, queries, faults, crashes, hurt>>

-----------------------------------------------------------------------------
(* A row holds what billing and polling tell apart: full is progress = 100%,
   url a result URL, reason a fail_reason that Suno gave (the others come with
   FAILURE), source the BillingSource with its resource type, held the
   SubscriptionPreConsumedAmount. *)
NoRow == [status |-> "none", full |-> FALSE, url |-> FALSE, reason |-> FALSE,
          quota |-> 0, held |-> 0, source |-> "none"]

(* InitTask *)
NewRow(st, src, q, h) ==
    [NoRow EXCEPT !.status = st, !.source = src, !.quota = q,
                  !.held = IF src = "subscription" THEN h ELSE 0]

Idle == [at |-> "idle", todo |-> {}, read |-> <<>>, task |-> <<>>, mem |-> NoRow,
         from |-> "none", plan |-> <<>>, da |-> 0, dt |-> 0]

NoImage == [pc |-> "none", mem |-> NoRow, hold |-> 0]

Init ==
    /\ row = [t \in Tasks |-> NoRow]
    /\ wk = [w \in Workers |-> Idle]
    /\ img = [t \in Tasks |-> NoImage]
    /\ aged = {} /\ gone = {} /\ hurt = {}
    /\ funds = [t \in Tasks |-> 0]
    /\ token = [t \in Tasks |-> 0]
    /\ queries = 0 /\ faults = 0 /\ crashes = 0

(* A database call works, or reports an error without or after its effect. *)
Outcomes == {"ok", "lost", "applied"}

Call(o) ==
    \/ o = "ok" /\ UNCHANGED faults
    \/ o # "ok" /\ faults < MaxFaults /\ faults' = faults + 1

UsesTokenQuota(src) == src # "request_count"

(* The units a charge of q takes from the funding source. *)
Units(src, q) == IF src = "request_count" THEN 1 ELSE q
TokenUnits(src, q) == IF UsesTokenQuota(src) THEN q ELSE 0

(* What was cut off is remembered for the properties. *)
HurtIf(bad, t, what) == hurt' = IF bad THEN hurt \cup {<<t, what>>} ELSE hurt

-----------------------------------------------------------------------------
(* RelayTask after the upstream accepted the task: settle, then insert. A
   failed settle and a failed insert are only logged. *)
SubmitTask(t) ==
    /\ Kind[t] # "image" /\ row[t] = NoRow /\ funds[t] = 0
    /\ \E src \in Sources, h \in Holds \ {0}, q \in Quotas, bad \in SUBSET {"settle", "insert"} :
         LET charged == IF "settle" \in bad THEN h ELSE q
         IN /\ faults + Cardinality(bad) <= MaxFaults
            /\ faults' = faults + Cardinality(bad)
            /\ funds' = [funds EXCEPT ![t] = Units(src, charged)]
            /\ token' = [token EXCEPT ![t] = TokenUnits(src, charged)]
            /\ row' = [row EXCEPT ![t] =
                         IF "insert" \in bad THEN @ ELSE NewRow("NOT_START", src, q, h)]
            /\ HurtIf("settle" \in bad, t, "settle")
    /\ UNCHANGED <<wk, img, aged, gone, queries, crashes>>

(* submitAsyncImageTask: the session holds h, the row records the estimate q *)
SubmitImage(t) ==
    /\ Kind[t] = "image" /\ row[t] = NoRow /\ img[t] = NoImage
    /\ \E src \in Sources, h \in Holds, q \in Quotas, o \in Outcomes :
         LET new == NewRow("SUBMITTED", src, q, h)
         IN /\ Call(o)
            /\ row' = [row EXCEPT ![t] = IF o = "lost" THEN @ ELSE new]
            /\ HurtIf(o # "ok", t, "billing")
            /\ IF o = "ok"
                 THEN /\ img' = [img EXCEPT ![t] = [pc |-> "start", mem |-> new, hold |-> h]]
                      /\ funds' = [funds EXCEPT ![t] = Units(src, h)]
                      /\ token' = [token EXCEPT ![t] = TokenUnits(src, h)]
                 ELSE /\ img' = [img EXCEPT ![t].pc = "done"]
                      /\ UNCHANGED ledger
    /\ UNCHANGED <<wk, aged, gone, queries, crashes>>

(* Task.Update saves the whole row whatever its status is by now. *)
Saved(t, mem, o) == row' = [row EXCEPT ![t] = IF o = "lost" THEN @ ELSE mem]

(* The task has ended otherwise in the meantime, and the save undoes that. *)
Overruns(t, o) == o # "lost" /\ row[t].status \in Terminal

ImageStart(t) ==
    /\ img[t].pc = "start"
    /\ LET mem == [img[t].mem EXCEPT !.status = "IN_PROGRESS"]
       IN \E o \in Outcomes :
            Call(o) /\ Saved(t, mem, o) /\ HurtIf(Overruns(t, o), t, "overrun")
            /\ img' = [img EXCEPT ![t] = [pc |-> "running", mem |-> mem, hold |-> img[t].hold]]
    /\ UNCHANGED <<wk, aged, gone, funds, token, queries, crashes>>

(* ImageHelper ends: the session settles the cost, or its hold is refunded *)
ImageEnds(t) ==
    /\ img[t].pc = "running"
    /\ \E cost \in Actuals, st \in Terminal, url \in BOOLEAN :
         LET due == IF st = "SUCCESS" /\ cost > 0 THEN cost ELSE 0
             h == img[t].hold
             src == img[t].mem.source
         IN /\ st = "SUCCESS" => cost > 0
            /\ st = "FAILURE" => ~ url
            /\ funds' = [funds EXCEPT ![t] = @ + (IF due = 0 THEN 0 ELSE Units(src, due))
                                              - Units(src, h)]
            /\ token' = [token EXCEPT ![t] = @ + TokenUnits(src, due) - TokenUnits(src, h)]
            /\ img' = [img EXCEPT ![t] =
                         [pc |-> "saving", hold |-> h,
                          mem |-> [img[t].mem EXCEPT !.status = st, !.full = TRUE, !.url = url]]]
    /\ UNCHANGED <<row, wk, aged, gone, queries, faults, crashes, hurt>>

ImageSave(t) ==
    /\ img[t].pc = "saving"
    /\ \E o \in Outcomes :
         /\ Call(o) /\ Saved(t, img[t].mem, o)
         /\ HurtIf(o = "lost" \/ Overruns(t, o), t, IF o = "lost" THEN "billing" ELSE "overrun")
    /\ img' = [img EXCEPT ![t].pc = "done"]
    /\ UNCHANGED <<wk, aged, gone, funds, token, queries, crashes>>

-----------------------------------------------------------------------------
(* Billing of a change of status *)

(* RefundTaskQuota: the wallet gets the quota back, a subscription what the
   session had held of it. *)
RefundAmount(mem) ==
    IF mem.source = "subscription" /\ mem.held > 0 THEN mem.held
    ELSE Units(mem.source, mem.quota)

(* The calls that follow: no funding change, no call; the token after it. *)
Bill(da, dt) ==
    IF da = 0 THEN <<>> ELSE IF dt = 0 THEN <<"fund">> ELSE <<"fund", "token">>

(* The worker is through with task t and has the others of its list left. *)
Through(x, t) ==
    [Idle EXCEPT !.at = x.at, !.todo = x.todo \ {t},
                 !.read = [y \in x.todo \ {t} |-> x.read[y]]]

Drop(w, t) == wk' = [wk EXCEPT ![w] = Through(@, t)]

Do(w, t, mem, from, plan, da, dt) ==
    IF plan = <<>> THEN Drop(w, t)
    ELSE wk' = [wk EXCEPT ![w] = [Through(@, t) EXCEPT !.task = t, !.mem = mem, !.from = from,
                                                      !.plan = plan, !.da = da, !.dt = dt]]

Continue(w, plan) ==
    wk' = [wk EXCEPT ![w] =
             IF plan = <<>> THEN Through(@, @.task) ELSE [@ EXCEPT !.plan = plan]]

Refund(mem) == <<- RefundAmount(mem), - TokenUnits(mem.source, mem.quota)>>

(* RecalculateTaskQuota: a subscription that counts requests is left alone *)
Recalculate(mem, actual) ==
    IF UsesTokenQuota(mem.source) THEN <<actual - mem.quota, actual - mem.quota>>
    ELSE <<0, 0>>

(* settleTaskBillingOnComplete: per-call billing and a task without a cost of
   its own keep the quota *)
SettleOnComplete(mem, actual) ==
    IF actual = 0 THEN <<0, 0>> ELSE Recalculate(mem, actual)

-----------------------------------------------------------------------------
(* The polling loop *)

(* mutant: asks only for what the upstream has taken up *)
UnfinishedTakenUp == {t \in Tasks : row[t].status \in {"QUEUED", "IN_PROGRESS"} /\ ~ row[t].full}

(* GetAllUnFinishSyncTasks, and GetTimedOutUnfinishedTasks with the cutoff *)
Unfinished == {t \in Tasks : row[t].status \in Pending /\ ~ row[t].full}

List(S, at) ==
    wk' = [wk EXCEPT ![Poller] = [Idle EXCEPT !.at = at, !.todo = S,
                                              !.read = [t \in S |-> row[t]]]]

ReadyFor(w, at) == wk[w].at = at /\ wk[w].plan = <<>>

SweepList ==
    /\ ReadyFor(Poller, "idle")
    /\ List(Unfinished \cap aged, "sweep")
    /\ UNCHANGED <<row, img, aged, gone, funds, token, queries, faults, crashes, hurt>>

(* mutant: a task that timed out is not refunded *)
SweepTaskNoRefund(t) ==
    /\ ReadyFor(Poller, "sweep") /\ t \in wk[Poller].todo
    /\ Do(Poller, t, [wk[Poller].read[t] EXCEPT !.status = "FAILURE", !.full = TRUE],
          wk[Poller].read[t].status, <<"cas">>, 0, 0)
    /\ UNCHANGED <<row, img, aged, gone, funds, token, queries, faults, crashes, hurt>>

(* sweepTimedOutTasks *)
SweepTask(t) ==
    /\ ReadyFor(Poller, "sweep") /\ t \in wk[Poller].todo
    /\ LET old == wk[Poller].read[t]
           mem == [old EXCEPT !.status = "FAILURE", !.full = TRUE]
           d == Refund(mem)
       IN Do(Poller, t, mem, old.status, <<"cas">> \o Bill(d[1], d[2]), d[1], d[2])
    /\ UNCHANGED <<row, img, aged, gone, funds, token, queries, faults, crashes, hurt>>

PollList ==
    /\ ReadyFor(Poller, "sweep") /\ wk[Poller].todo = {}
    /\ List(Unfinished, "poll")
    /\ UNCHANGED <<row, img, aged, gone, funds, token, queries, faults, crashes, hurt>>

PollEnd ==
    /\ ReadyFor(Poller, "poll") /\ wk[Poller].todo = {}
    /\ wk' = [wk EXCEPT ![Poller] = Idle]
    /\ UNCHANGED <<row, img, aged, gone, funds, token, queries, faults, crashes, hurt>>

(* CacheGetChannel reports an error, for a deleted channel or because the lookup
   failed: TaskBulkUpdateByID, without CAS and without refund *)
BulkFail(t) ==
    /\ ReadyFor(Poller, "poll") /\ t \in wk[Poller].todo
    /\ \E o \in Outcomes :
         LET n == (IF t \in gone THEN 0 ELSE 1) + (IF o = "ok" THEN 0 ELSE 1)
         IN /\ faults + n <= MaxFaults /\ faults' = faults + n
            /\ Saved(t, [row[t] EXCEPT !.status = "FAILURE", !.full = TRUE], o)
            /\ HurtIf(o # "lost", t, "channel")
    /\ Drop(Poller, t)
    /\ UNCHANGED <<img, aged, gone, funds, token, queries, crashes>>

(* No task adaptor belongs to the platform of image tasks. *)
PollImage(t) ==
    /\ ReadyFor(Poller, "poll") /\ t \in wk[Poller].todo \ gone /\ Kind[t] = "image"
    /\ Drop(Poller, t)
    /\ UNCHANGED <<row, img, aged, gone, funds, token, queries, faults, crashes, hurt>>

(* updateSunoTasks: the refund comes first, then the row is saved. A fail_reason
   counts as a failure whatever the status says. *)
PollSuno(t) ==
    /\ ReadyFor(Poller, "poll") /\ t \in wk[Poller].todo \ gone /\ Kind[t] = "suno"
    /\ \E r \in Reports :
         LET old == wk[Poller].read[t]
             bad == r.reason \/ r.status = "FAILURE"
             mem == [old EXCEPT !.status = r.status, !.reason = @ \/ r.reason,
                                !.full = @ \/ bad \/ r.status = "SUCCESS"]
             d == IF bad THEN Refund(mem) ELSE <<0, 0>>
         IN IF mem = old THEN Drop(Poller, t)
            ELSE Do(Poller, t, mem, old.status, Bill(d[1], d[2]) \o <<"save">>, d[1], d[2])
    /\ UNCHANGED <<row, img, aged, gone, funds, token, queries, faults, crashes, hurt>>

(* The poller looks the channel up anew, a query already has it. *)
Fetches(w, t) ==
    /\ wk[w].plan = <<>> /\ t \in wk[w].todo
    /\ wk[w].at = "query" \/ (wk[w].at = "poll" /\ t \notin gone /\ Kind[t] # "image")

(* A fetch that fails, is rate limited or makes no sense changes nothing. *)
FetchFails(w, t) ==
    /\ Fetches(w, t)
    /\ Drop(w, t)
    /\ UNCHANGED <<row, img, aged, gone, funds, token, queries, faults, crashes, hurt>>

-----------------------------------------------------------------------------
(* updateVideoSingleTask, for the poller and for the query of a user *)

(* The upstream has no video task of an image task's id: an error, taken for
   a failure of the task. *)
Answers(t) ==
    IF Kind[t] = "image" THEN {[status |-> "FAILURE", full |-> TRUE, reason |-> TRUE]}
    ELSE Reports

(* mutant: takes over a status it does not know *)
UpdatedUnknown(old, r) ==
    [old EXCEPT !.status = IF r.status = "QUEUED" THEN "unknown" ELSE r.status,
                !.full = r.full \/ r.status = "FAILURE", !.url = @ \/ r.status = "SUCCESS"]

(* A successful task has at least a proxy URL; a failure is always at 100%. *)
Updated(old, r) ==
    [old EXCEPT !.status = r.status, !.full = r.full \/ r.status = "FAILURE",
                !.url = @ \/ r.status = "SUCCESS"]

(* mutant: bills first and then tries to move the task *)
VideoPlanBillFirst(t, old, mem, d) ==
    IF mem = old THEN <<>> ELSE Bill(d[1], d[2]) \o <<"cas">>

VideoPlan(t, old, mem, d) ==
    IF mem.status \in Terminal /\ mem.status # old.status
      THEN <<"cas">> \o Bill(d[1], d[2])
    ELSE IF mem # old THEN <<"cas">> ELSE <<>>

UpdateVideo(w, t) ==
    /\ Fetches(w, t) /\ Kind[t] # "suno"
    /\ \E r \in Answers(t), actual \in Actuals :
         LET old == wk[w].read[t]
             mem == Updated(old, r)
             d == CASE r.status = "FAILURE" -> Refund(mem)
                    [] r.status = "SUCCESS" -> SettleOnComplete(mem, actual)
                    [] OTHER -> <<0, 0>>
         IN Do(w, t, mem, old.status, VideoPlan(t, old, mem, d), d[1], d[2])
    /\ UNCHANGED <<row, img, aged, gone, funds, token, queries, faults, crashes, hurt>>

(* A user asks for a task: GetUserTask, tryRealtimeFetch *)
Query(u, t) ==
    /\ wk[u].at = "idle" /\ queries < MaxQueries
    /\ Kind[t] # "suno" /\ row[t] # NoRow /\ t \notin gone
    /\ ~ (row[t].status = "SUCCESS" /\ row[t].url)
    /\ ~ (row[t].status = "FAILURE" /\ row[t].full)
    /\ queries' = queries + 1
    /\ wk' = [wk EXCEPT ![u] = [Idle EXCEPT !.at = "query", !.todo = {t},
                                            !.read = [x \in {t} |-> row[x]]]]
    /\ UNCHANGED <<row, img, aged, gone, funds, token, faults, crashes, hurt>>

QueryEnd(u) ==
    /\ ReadyFor(u, "query") /\ wk[u].todo = {}
    /\ wk' = [wk EXCEPT ![u] = Idle]
    /\ UNCHANGED <<row, img, aged, gone, funds, token, queries, faults, crashes, hurt>>

-----------------------------------------------------------------------------
(* The calls of a plan *)

(* Past the point where the task was moved, or refunded ahead of it. *)
InBilling(w) == wk[w].plan # <<>> /\ Head(wk[w].plan) # "cas"

NextCall(w, c) == wk[w].plan # <<>> /\ Head(wk[w].plan) = c

(* mutant: the update is not conditional *)
WinsAlways(w) == TRUE

(* UpdateWithStatus: the row still has the status the worker read *)
Wins(w) == row[wk[w].task].status = wk[w].from

(* mutant: does not look at whether the update took effect *)
AfterCasAnyway(w, won) == Tail(wk[w].plan)

AfterCas(w, won) == IF won THEN Tail(wk[w].plan) ELSE <<>>

(* Only the caller that moved the task bills it; an error counts as lost. *)
CasStep(w) ==
    /\ NextCall(w, "cas")
    /\ \E o \in Outcomes :
         /\ Call(o)
         /\ row' = IF o # "lost" /\ Wins(w) THEN [row EXCEPT ![wk[w].task] = wk[w].mem] ELSE row
         /\ Continue(w, AfterCas(w, o = "ok" /\ Wins(w)))
         /\ HurtIf(o = "applied" /\ Wins(w) /\ Len(wk[w].plan) > 1, wk[w].task, "billing")
    /\ UNCHANGED <<img, aged, gone, funds, token, queries, crashes>>

SaveStep(w) ==
    /\ NextCall(w, "save")
    /\ \E o \in Outcomes :
         /\ Call(o) /\ Saved(wk[w].task, wk[w].mem, o)
         /\ HurtIf(o = "lost", wk[w].task, "billing")
    /\ Continue(w, Tail(wk[w].plan))
    /\ UNCHANGED <<img, aged, gone, funds, token, queries, crashes>>

(* The calls left after a funding error: without the change of the token's quota *)
SkipToken(plan) == IF plan # <<>> /\ Head(plan) = "token" THEN Tail(plan) ELSE plan

(* taskAdjustFunding; after an error the token is not touched *)
FundStep(w) ==
    /\ NextCall(w, "fund")
    /\ \E o \in Outcomes :
         /\ Call(o)
         /\ funds' = IF o = "lost" THEN funds ELSE [funds EXCEPT ![wk[w].task] = @ + wk[w].da]
         /\ Continue(w, IF o = "ok" THEN Tail(wk[w].plan)
                        ELSE SkipToken(Tail(wk[w].plan)))
         /\ HurtIf(o # "ok", wk[w].task, "billing")
    /\ UNCHANGED <<row, img, aged, gone, token, queries, crashes>>

(* taskAdjustTokenQuota only logs an error *)
TokenStep(w) ==
    /\ NextCall(w, "token")
    /\ \E o \in Outcomes :
         /\ Call(o)
         /\ token' = IF o = "lost" THEN token ELSE [token EXCEPT ![wk[w].task] = @ + wk[w].dt]
         /\ HurtIf(o = "lost", wk[w].task, "billing")
    /\ Continue(w, Tail(wk[w].plan))
    /\ UNCHANGED <<row, img, aged, gone, funds, queries, crashes>>

-----------------------------------------------------------------------------
(* The process of a worker dies. The poller starts again, an image task is
   not resumed. *)
Crash(w) ==
    /\ wk[w] # Idle /\ crashes < MaxCrashes /\ crashes' = crashes + 1
    /\ wk' = [wk EXCEPT ![w] = Idle]
    /\ HurtIf(InBilling(w), wk[w].task, "billing")
    /\ UNCHANGED <<row, img, aged, gone, funds, token, queries, faults>>

CrashImage(t) ==
    /\ img[t].pc \in {"start", "running", "saving"}
    /\ crashes < MaxCrashes /\ crashes' = crashes + 1
    /\ img' = [img EXCEPT ![t].pc = "done"]
    /\ HurtIf(img[t].pc = "saving", t, "billing")
    /\ UNCHANGED <<row, wk, aged, gone, funds, token, queries, faults>>

(* TASK_TIMEOUT_MINUTES pass, whatever the goroutine of an image task is at. *)
Age(t) ==
    /\ row[t].status \in Pending /\ t \notin aged
    /\ aged' = aged \cup {t}
    /\ UNCHANGED <<row, wk, img, gone, funds, token, queries, faults, crashes, hurt>>

DeleteChannel(t) ==
    /\ t \in Deletable \ gone
    /\ gone' = gone \cup {t}
    /\ UNCHANGED <<row, wk, img, aged, funds, token, queries, faults, crashes, hurt>>

CallStep(w) == CasStep(w) \/ SaveStep(w) \/ FundStep(w) \/ TokenStep(w)

PollerStep ==
    \/ SweepList \/ PollList \/ PollEnd
    \/ CallStep(Poller)
    \/ \E t \in Tasks : \/ SweepTask(t) \/ BulkFail(t) \/ PollImage(t) \/ PollSuno(t)
                        \/ FetchFails(Poller, t) \/ UpdateVideo(Poller, t)

QueryStep(u) ==
    \/ QueryEnd(u) \/ CallStep(u)
    \/ \E t \in Tasks : FetchFails(u, t) \/ UpdateVideo(u, t)

ImageStep(t) == ImageStart(t) \/ ImageEnds(t) \/ ImageSave(t)

Next ==
    \/ PollerStep
    \/ \E u \in Users : QueryStep(u) \/ \E t \in Tasks : Query(u, t)
    \/ \E t \in Tasks : \/ SubmitTask(t) \/ SubmitImage(t) \/ ImageStep(t)
                        \/ CrashImage(t) \/ Age(t) \/ DeleteChannel(t)
    \/ \E w \in Workers : Crash(w)

(* The loop runs every 15 seconds, requests and goroutines end, time passes. *)
Fairness ==
    /\ WF_vars(PollerStep)
    /\ \A u \in Users : WF_vars(QueryStep(u))
    /\ \A t \in Tasks : WF_vars(ImageStep(t)) /\ WF_vars(Age(t))

Spec == Init /\ [][Next]_vars /\ Fairness

-----------------------------------------------------------------------------
(* Properties *)

RowType == [status : Pending \cup Terminal \cup {"none"}, full : BOOLEAN, url : BOOLEAN,
            reason : BOOLEAN, quota : Nat, held : Nat, source : FundingSources \cup {"none"}]

Plans == UNION {[1 .. n -> {"cas", "save", "fund", "token"}] : n \in 0 .. 3}

(* Type invariant; a worker keeps what it read of the tasks on its list. *)
TypeOK ==
    /\ row \in [Tasks -> RowType]
    /\ \A w \in Workers :
         /\ wk[w].at \in {"idle", "sweep", "poll", "query"}
         /\ wk[w].todo \subseteq Tasks /\ DOMAIN wk[w].read = wk[w].todo
         /\ wk[w].plan \in Plans /\ wk[w].mem \in RowType
         /\ wk[w].plan # <<>> => wk[w].task \in Tasks /\ wk[w].from \in Pending \cup Terminal
         /\ wk[w].da \in Int /\ wk[w].dt \in Int
    /\ img \in [Tasks -> [pc : {"none", "start", "running", "saving", "done"},
                         mem : RowType, hold : Nat]]
    /\ aged \subseteq Tasks /\ gone \subseteq Tasks
    /\ hurt \subseteq Tasks \X {"settle", "billing", "channel", "overrun"}
    /\ funds \in [Tasks -> Int] /\ token \in [Tasks -> Int]
    /\ queries \in 0 .. MaxQueries /\ faults \in 0 .. MaxFaults /\ crashes \in 0 .. MaxCrashes

(* Nobody is between moving the task and the end of its billing. *)
Quiet(t) ==
    /\ img[t].pc \in {"none", "done"}
    /\ \A w \in Workers : wk[w].task = t => ~ InBilling(w)

(* A refund returns what the row records. That is what the task was charged,
   unless its settle failed at submission, or a subscription had held another
   amount for it (a retry on another channel changed the price). *)
AsRecorded(t) ==
    /\ <<t, "settle">> \notin hurt
    /\ row[t].source = "subscription" => row[t].held = row[t].quota

(* The tasks that were failed in bulk *)
BulkFailed == {t \in Tasks : <<t, "channel">> \in hurt}

(* The charge follows the outcome: a failed task, and one that Suno gives a reason
   of failure for, is paid back in full, once, a successful one costs its quota or
   its actual cost, an open one its quota, however sweep, poll and queries race,
   unless an error or a crash cut the billing off, the task was failed in bulk, or
   the goroutine of an image saved its row over a sweep. *)
ChargeFollowsOutcome ==
    \A t \in Tasks \ BulkFailed :
      row[t] # NoRow /\ AsRecorded(t) /\ Quiet(t)
      /\ <<t, "billing">> \notin hurt /\ <<t, "overrun">> \notin hurt =>
        LET src == row[t].source
            paid == IF UsesTokenQuota(src) THEN token[t] ELSE row[t].quota
        IN CASE row[t].status = "FAILURE" \/ row[t].reason -> funds[t] = 0 /\ token[t] = 0
             [] row[t].status = "SUCCESS" /\ ~ row[t].reason ->
                  /\ paid \in {row[t].quota} \cup (Actuals \ {0})
                  /\ funds[t] = Units(src, paid)
             [] OTHER -> /\ funds[t] = Units(src, row[t].quota)
                         /\ token[t] = TokenUnits(src, row[t].quota)

(* TaskBulkUpdateByID: "DO NOT use in billing/quota lifecycle flows". A task
   that fails because its channel was deleted is paid back like any other. *)
DeletedIsRefunded ==
    \A t \in gone :
      row[t].status = "FAILURE" /\ AsRecorded(t) /\ <<t, "billing">> \notin hurt /\ Quiet(t)
        => funds[t] = 0 /\ token[t] = 0

(* No error, crash or race pays a task back twice, if its status is moved by
   UpdateWithStatus before it is billed. updateSunoTasks bills first: a save that
   fails there lets the next round refund the task again. *)
NeverOverRefunded == \A t \in Tasks : AsRecorded(t) => funds[t] >= 0 /\ token[t] >= 0

(* The status of a finished task never changes (UpdateWithStatus), except that the
   bulk failure of a channel's tasks may turn a success into a failure. *)
TerminalIsFinal ==
    [][\A t \in Tasks :
         row[t].status \in Terminal /\ row'[t].status # row[t].status =>
           row'[t].status = "FAILURE" /\ t \in BulkFailed']_vars

(* Every task ends: what the upstream does not finish is swept. A Suno task that
   got a fail_reason with a pending status has been paid back, is at 100% and keeps
   that status. *)
TaskEnds ==
    \A t \in Tasks : row[t].status \in Pending ~> row[t].status \in Terminal \/ row[t].reason
=============================================================================
