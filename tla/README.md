# A TLA+ model of new-api

new-api is a gateway between API clients and providers of language, image,
video and audio models. A client holds a token of a user; a request is
authenticated, sent to one of several upstream channels, possibly retried on
another, and paid for from the user's wallet or from a subscription. What the
request costs is known only after the upstream has answered, so the gateway
holds an estimate first and settles the difference later. Everything that can
go wrong between the two moments (refused holds, failing or ambiguous database
calls, retries, windows that end, tasks that take hours, several workers on one
task, crashes) is what this project is about.

An administrator and the users see the gateway through a web console, and through
a desktop shell that starts a gateway of its own; their hard parts, what happens
between a click and a late answer, are modelled too.

Seven modules model the system, each with an `MC` module for its instances; one
states what a component promises. Seven `...Proofs` modules hold the proofs about
the seven, and one the facts about sums that they share.

| module | models | checked by |
|---|---|---|
| `BillingSession` | hold, settle and refund of concurrent requests over wallet, subscription and token | `MCBilling`: `billing_*` |
| `BillingSessionProofs` | the proofs about `BillingSession` | TLAPS |
| `SubscriptionLedger` | the transactions on subscription rows, their reset windows and expiry | `MCLedger`: `ledger_*` |
| `SubscriptionLedgerProofs` | the proofs about `SubscriptionLedger` | TLAPS |
| `TaskPolling` | asynchronous tasks after submission: sweep, poll, queries, image goroutine | `MCTasks`: `task_*` |
| `TaskPollingProofs` | the proofs about `TaskPolling` | TLAPS |
| `QuotaCounter` | what a quota promises its callers (abstract) | refined by `QuotaCache` |
| `QuotaCache` | the quota of users and tokens in row, batch buffer and Redis | `MCQuotaCache`: `quota_cache` |
| `QuotaCacheProofs` | the proofs about `QuotaCache`, with the refinement of `QuotaCounter` | TLAPS |
| `Playground` | the chat page: messages, streams, timers, storage | `MCPlayground`: `playground_chat` |
| `PlaygroundProofs` | the proofs about `Playground` | TLAPS |
| `ChannelsPage` | the channel page: table, operations, batch tests | `MCChannels`: `channels` |
| `ChannelsPageProofs` | the proofs about `ChannelsPage` | TLAPS |
| `Desktop` | the Electron shell and its server process | `MCDesktop`: `desktop` |
| `DesktopProofs` | the proofs about `Desktop` | TLAPS |
| `SumTheorems` | sums over finite sets: what one element's change does to the sum | TLAPS |

`PROJECT.json` maps every definition that models code to its source lines, lists
the runs, the mutants that show that each property can fail, the findings, the
hazards and the theorems.

## 1. Inventory

| component | state | operations | interacts with |
|---|---|---|---|
| billing session (`service/billing_session.go`, `funding_source.go`, `billing.go`, `quota.go`, `violation_fee.go`) | session flags and amounts in memory; `users.quota`, `tokens.remain_quota` | preConsume, Settle, Refund (in a goroutine), violation fee, realtime turns | controllers, subscription ledger, quota cache |
| relay controllers (`controller/relay.go`, `relay/relay_task.go`, `relay/websocket.go`) | retry counter, channel of the attempt | Relay, RelayTask, retry decision | billing session, channel selection |
| subscription usage ledger (`model/subscription.go`, `service/subscription_reset_task.go`) | subscription rows, idempotency records | pre-consume, post-consume delta, refund by request id, lazy and periodic reset, expiry, cleanup | billing session, tasks |
| asynchronous tasks (`service/task_polling.go`, `task_billing.go`, `model/task.go`, `controller/task.go`, `image_task.go`) | task rows | submit, sweep, poll, fetch on query, image goroutine, refund and recalculation | ledger, wallet, channels |
| quota cache and batch updater (`model/utils.go`, `user.go`, `token.go`, `*_cache.go`, `common/redis.go`) | rows, Redis hashes, increments in memory | change, asynchronous cache change, rebuild, removal, batched write | every quota change |
| channel selection, disabling, affinity (`service/channel_select.go`, `channel.go`, `channel_affinity.go`, `model/channel_cache.go`, `ability.go`) | channel cache, multi-key status, pins | select by priority and retry, disable on error, enable after test | controllers |
| top-up orders and redemption codes (`model/topup.go`, `redemption.go`) | order and code rows | create, callback, redeem | payment providers |
| subscription orders, day passes, conversion | orders, plan inventory | create, pay, convert | ledger |
| rate limiting (`middleware/*rate-limit.go`, `common/limiter`) | sliding windows, buckets | admit | every request |
| stream relay (`relay/helper/stream_scanner.go`) | goroutines, channels, timers | scan, handle, ping, time out | controllers |
| rewards (`model/checkin.go`, `activity_lottery.go`, `affiliate_commission.go`) | claims per user | claim, draw, pay | wallet |
| upstream credentials (`service/codex_credential_refresh*.go`) | tokens with expiry | refresh | channels |
| Midjourney proxy | task rows of its own | submit, poll, refund | wallet |
| playground (`web/src/pages/Playground`, `web/src/hooks/playground`) | list of messages, open stream, timers, localStorage | send, stop, regenerate, edit, delete, change role, clear, import, reset, reload | relay controllers |
| channel page (`web/src/hooks/channels/useChannelsData.jsx`) | rows, filter, page number, requests in flight, batch of tests | load, search, page, operate, test, stop | channel administration |
| desktop shell (`electron/main.js`) | server process, window, tray, message boxes | start, check, show, hide, quit | the gateway as a process |
| adaptors, authentication, rest of the web interface | no state the actors above share | conversion, login, presentation | |

Where it is hard, and what would be correct:

* **Billing session.** Requests of one user run at once and check balances
  before they take from them. A hold has two or three parts that are taken by
  separate calls; each may fail, or be applied and report an error. A refund
  runs in the background. *Correct:* no sequence of steps creates quota; a
  failed request costs nothing; a served one costs its usage once and on one
  source; a settled session is left alone.
* **Subscription ledger.** Rows are read, changed and saved as a whole. A window
  may end between hold and settle, or between hold and refund; a hold may be
  repeated with the same request id. *Correct:* the usage in a row is what its
  requests were charged; a window grants no more than its limit and a settle
  reaches no other window, each with exceptions that the properties name; every
  window that is over is reset.
* **Tasks.** A task is watched by the sweep, the poller and any number of
  queries, which read it, ask the upstream and then write. *Correct:* one of
  them finishes the task and bills it; its charge follows the outcome; it ends.

* **Quota cache.** One number is kept in three places by goroutines that do not
  wait for each other. *Correct:* every change is counted once, only a fault
  loses one, and a cached number that went wrong does not stay.
* **Playground.** Callbacks of several requests find "their" message by its
  position, the last of the list, which the user may change meanwhile; saving is
  done by timers. *Correct:* an answer stays in its own message, a message that is
  no longer generated says so, and a reload shows what was on the screen.
* **Channel page.** Handlers continue after an await with the rows of the render
  they were clicked in. *Correct:* the table shows the rows of the last request; a
  batch of tests keeps its limit and can be stopped.
* **Desktop shell.** Retries, timeouts, the end of the server and the user's quit
  overlap. *Correct:* every start and every quit ends, and no server is left.

The hazards, each at its line, are in `PROJECT.json`.

## 2. The modules

### BillingSession

*State.* Per request: `pc` (the control point of its goroutine), `sess` (the
`BillingSession` with its funding source), `row` (the idempotency record of its
subscription hold), `bg` (the goroutine that `Refund` starts), `loc` (local
variables). `debit` is what the request has taken, net, from wallet, token,
subscription amount and subscription count; the balances are derived from it,
because the code changes them only by adding and subtracting. `faulted` is
history.

*Actions.* One per database call, so that other requests run between a check and the
debit it allows: `NewBillingSession` with its preference order and fallback, the
wallet's check and debit, the subscription's pre-consume, the period limit, the
token's check and debit, rollback, the upstream attempt with its retry decision
(with the group "auto" the retry counter starts over in each group of the token,
`channel_select.go`), realtime turns (free for a model with a price per call),
settle of source and token, refund of a zero-cost request, the violation fee, and
the steps of the background refund with up to three attempts. A call ends "ok",
"lost" (error, no effect) or "applied" (error after the effect). `Crash` ends the
process and with it every goroutine.

*Abstractions.* Prices are inputs: a profile gives the estimate, `Usages` the
actual cost. The subscription is a pair of counters here, held and settled in one
step; its transactions, and whether its limits hold, are the subject of
`SubscriptionLedger`. Logs, statistics and notifications are left
out.

### SubscriptionLedger

*State.* `sub` (rows with amount, lifetime count, period count, status, last and
next reset), `rec` (idempotency records), `req` (what the session remembers of its
hold, with its window, its clock and the time its rows were read), `tx` and `job`
(open transactions: the rows they read and when), `round` (the round of the reset
task: its clock and the rows it has yet to reset), `now`. `paid` and `strayed` are
history: what each request was charged in which window, and which windows a late
refund, a late settle or the settle of a hold that was answered from its record
changed.

*Actions.* A transaction is two steps, read and commit. A pre-consume reads the
clock in a step before it (`ReadClock`), so that a reset may lie between the clock
and the rows; the preferred subscription is tried with a clock of its own
(`SeenTimes`, from the first clock on: on PostgreSQL `NOW()` is the time the
transaction began). `Isolation` says what
happens to one whose rows changed in between: `"conflict_fails"` is SQLite (and
any database once the rows are locked), `"last_write_wins"` is MySQL and
PostgreSQL with the legacy query option, which GORM v2 ignores
(`model/locking.go`). Selection goes through the preferred subscription, then
those that count requests, then the others, each kind by end; the lazy resets of
the rows looked at are saved too. The maintenance task expires, deletes old
records, and resets in rounds: `StartRound` lists what is due, `SkipDue` passes over
a row whose plan is not found, `BeginReset` and `CommitReset` are the transaction of
one row, and the first one that reports an error ends the round.

*Abstractions.* Calendar and fixed-clock periods are a fixed number of ticks.
A transaction sees one state of the rows; a second read of the preferred row that
sees a later one (PostgreSQL) is left out. Group changes on purchase and expiry,
purchase, migration and conversion are not part of the module.

### TaskPolling

*State.* `row` (task rows: status, whether progress is 100%, whether there is a
result, quota, funding source and what was held), `wk` (poller and queries: the
list they work on, the rows as they read them and the calls still to be made for
the task at hand), `img` (image goroutines), `funds` and `token` (what the task
was charged), `aged`, `gone`, and the history `hurt`.

*Actions.* Submission with a settle and an insert that may fail, the two lists
of the poller, a step per task, and one step per call of a plan: conditional
update (`UpdateWithStatus`), unconditional save (`Task.Update`), funding, token.
The order of a plan is that of the code: a video task is moved first and billed
by the one that moved it; a Suno task is refunded first and saved afterwards, and
that whenever the answer has a fail_reason, whatever its status. Any error of the
channel lookup, for a deleted channel or not, fails a task in bulk (`BulkFail`). A
task becomes old whatever its goroutine is at, so the goroutine of an image may save
its row over a sweep (the mark "overrun"). `Crash` ends a worker wherever it is.

*Abstractions.* Every task is on a channel of its own. Legacy tasks, the batch
limits of the queries, subscriptions limited by amount and count, and progress
other than 100% are left out.

### QuotaCounter and QuotaCache

*State.* `row` (the database), `store` (`batchUpdateStores`), `taken` (what the
batch updater took out of it and has not written), `hash` (Redis, with whether it
has all its fields), `call` and `job` (a call that changes a quota and the
goroutine it starts), `reader` (a read and the goroutine that rebuilds the hash).
`raced` is history: the hash was written beside a change.

*Actions.* The increase and decrease of users and tokens up to the buffer or the
row, `batchUpdate` with the replacement of one store at a time and the write of
each entry, `RedisHIncrBy` as the two commands it is (its check of the time to live
is in whole seconds, so that a key in its last half second is passed over),
`cacheDeleteToken`,
`RedisHSetObj`, key expiry, failed commands and `Crash` (a regular shutdown does
not flush the buffer either).

*Abstraction and refinement.* `QuotaCounter` has a balance, a mark (the last
checkpoint) and a durable part. The mapping is balance = `row + store + taken`, mark
= `row + taken`, durable = `row`: a call adds its change once, taking the store is a
checkpoint, a write brings the durable part to the mark. Only a fault makes the
balance go back, a failed write by exactly what was between row and mark, a crash to
exactly what is durable. `CountedOnce` is the
abstract specification under this mapping.

### Playground

*State.* `messages`, `stored` (localStorage), the queues `saves` and `timers` of
what `setTimeout` will do, `net` (each request), `ref` (`sseSourceRef`), `nextId`,
`editing`, `dialog`, `broken`, `fresh` (no messages were saved when the page was
opened). A message carries as history the request it belongs
to (`of`) and the requests whose text reached it (`from`); `cause` records what
was done to the list while a request was under way or about to be sent: cleared,
reset, imported, cut for a second request, or shortened by a deletion that was
asked for in the 100 ms before the request was sent and confirmed after it. A change
of the language on a `fresh` page is a cause too, once something was said or saved.

*Actions.* One per callback: the events of a stream (chunk, `[DONE]`, a line that
is no JSON, error, HTTP error, end without `[DONE]`), the answer of a plain
request, the timers, and every handler of the page. `Reload` loads what was
stored, unless it is the default messages with an old text, which are removed, and
ends a message that was being generated. `LanguageChange` shows the default messages
on a page that was opened without saved ones.

*Abstractions.* Texts are sets of requests and a number of edits. The custom
request body, the debug panel, images and folding are left out. That the send
button is off while the last message is generated is a property of the chat
component the page uses, not of its code.

### ChannelsPage

*State.* The rows of the table are the query they answer (`table`), beside the
page number, the form and the requests in flight with their number; `op` is an
operation with the rows and page of the render it was clicked in, `loop` a batch
of tests with its wave. `asked`, `cause`, `restarted` are history.

*Actions.* Requests and their answers in any order, every handler that asks for
rows, operations that write rows back or refresh (a deletion refreshes twice, the
test of selected channels writes rows after each test), and `batchTestModels` as
waves of tests with the checks of the stop flag where the code has them.

*Abstractions.* The contents of the rows and the edit dialogs are left out, and so
are sorting, page size, type tab and status filter: a click sets them and the request
carries them, but unlike the page number no answer sets them.

### Desktop

*State.* The promise of `startServer` with its attempts, connections and pending
retries, the process and the signals sent to it, the listeners and timers that
`before-quit` adds, the windows, dock and tray, and the open message boxes.

*Actions.* One per callback of `main.js`; the server, the port and the user are
the environment.

## 3. Runs

`r1`, `r2` are interchangeable requests, `u1`, `u2` users, `t1`, `t2` tasks.

| run | instance | checks |
|---|---|---|
| `billing_wallet` | two wallet requests out of text, playground, free, task and realtime (with a price per call or not), trusted as long as the balances are full; token with less quota than both need; one retry in each of two auto groups; one fault, one crash | `TypeOK`, `NoQuotaMinted`, `FailedRequestRestored`, `SuccessChargedOnce`, `SettledIsFinal` |
| `billing_subscription` | two requests of each preference; subscription limited by amount and requests, too small for both actual costs; fee; one fault | `NoQuotaMinted`, `FailedRequestMadeWhole` (liveness) |
| `ledger_quota` | quota plan over two windows and its end, one failed or ambiguous commit or lookup, a repeated hold | `TypeOK`, `UsageExact`, `NeverOvercounted`, `SettleStaysInWindow`, `WindowsAligned`, `HoldInItsWindow` |
| `ledger_count` | a plan with lifetime and period count beside a quota plan that may be preferred, both with windows of one tick; settles above and below the hold | `LifetimeExact`, `NotOversold`, `DueWindowReset` (liveness) |
| `ledger_lost_update` | the quota plan with `"last_write_wins"` | `UsageExact` is violated |
| `task_video` | a video task of any source, poller, two users, one fault or failed lookup, one crash, deletion of the channel | `TypeOK`, `ChargeFollowsOutcome`, `NeverOverRefunded`, `TerminalIsFinal` |
| `task_background` | an image and a Suno task, answers with and without a fail_reason, one fault, one crash | `ChargeFollowsOutcome`, `TaskEnds` (liveness) |
| `task_deleted` | the channel of a video task is deleted | `DeletedIsRefunded` is violated |
| `quota_cache` | a user and a token, two calls, a read, batch updates on, one fault or crash | `TypeOK`, `CacheExact`, `CountedOnce` (refinement), `Converges` (liveness) |
| `playground_chat` | two requests of either kind, one change of the list, one reload | `TypeOK`, `OwnAnswers`, `OnlyLastGenerates`, `SavedWhenQuiet` |
| `channels` | two filters, two pages, two requests in flight, three models in waves of two, two batches | `TypeOK`, `RowsMatch`, `BatchUnderControl` |
| `desktop` | either platform, development or not, three attempts, two timeouts, two quits | `TypeOK`, `NoOrphan`, `WindowTracked`, `StartSettles`, `QuitEnds` (the last two liveness) |

**Bounds.** Two requests are enough for every race of this code: each step depends
on the other requests only through sums (balances, row counters), and the races are
between a check and a use, or a read and a write, of two. Amounts are chosen so that
one request fits, two do not, and the actual cost may be below, at and above the
estimate. One fault suffices to cut off every call once; each call has all three
outcomes. `MaxTime` of `ledger_quota` covers two windows and the end of the
subscription, so that a transaction can begin before and commit after each boundary;
that of `ledger_count` covers one boundary, at which both rows are due, so that a
round of two rows can stop at the first (there only conflicts make a transaction
fail). `MaxQueries` lets both users query at once, or one user twice. Where a run
uses symmetry (requests in `ledger_quota`, users in `task_video`) it checks no
liveness. In `quota_cache` two calls of opposite sign on two accounts give every
order of change, buffer, rebuild and expiry. `playground_chat` needs two requests
for an answer to reach the wrong message and one change to shift the list (with two
changes, 2.5 million states, the result is the same; the theorems of section 5 hold
for any number); its constraint `NoCauseYet`, like `StillGood` of `channels`, ends a
behaviour when the exception its properties name has happened. `channels` has a last
wave that is not full. The three attempts of `desktop` stand for thirty: an attempt
depends on the number only through the comparison with the limit.

**Fairness.** `BillingSession`: weak fairness of each request and each refund
goroutine; the scheduler runs goroutines, and every upstream attempt ends by a
timeout. `SubscriptionLedger`: weak fairness of the reset task, which the master
node runs every minute; nothing is assumed of requests or the clock. `TaskPolling`:
weak fairness of the poller (a loop every 15 seconds), of queries and image
goroutines once they run, and of a pending task becoming old. Nothing is assumed of
the upstream: it may report "queued" for ever, and `TaskEnds` holds because the
sweep takes the task. `QuotaCache`: weak fairness of the goroutines and of the batch
updater (a loop with a sleep), and of each key being given up or renewed
(`ExpireOrRenew`): expiry is put off by `RedisHSetObj` and by the `Expire` of
`RedisHIncrBy`, each at most once per read or change. `Desktop`: timers fire, the
close event of an ended process is delivered, and a connection is answered, refused
or times out after ten seconds. Nothing is assumed of users, crashes, deletions, or
of the server's reaction to a signal. `Playground` and `ChannelsPage` have no
fairness: their properties are about safety.

**Deadlock** is checked where the system always has something to do: requests and
tasks that are all finished stutter or keep polling. It is off in `quota_cache`,
`playground_chat`, `channels` and `desktop`, where calls, requests or the program
itself come to an end.

## 4. Where code and text disagree

Two runs show a behaviour of the code that its own comments rule out.

* `ledger_lost_update`: the functions of `model/subscription.go` lock with
  `Set("gorm:query_option", "FOR UPDATE")`, which `model/locking.go` says locks
  nothing. Two holds on MySQL or PostgreSQL keep one of the two usages.
* `task_deleted`: tasks whose channel cannot be loaded, because it was deleted or
  because the lookup failed, are failed with `TaskBulkUpdateByID`, whose comment
  forbids exactly that, and not refunded. The same call may overwrite a success that
  a query has just billed, so `TerminalIsFinal` has it as its exception and
  `ChargeFollowsOutcome` leaves such tasks out.

Met while modelling, and not stated by a run: no line says what should happen, or a
property holds except in this case, which the property or the bounds of its run
leave out.

Gateway:

* the hold of a realtime connection is never returned;
* a subscription with end time 0 is usable for one query and refused by another;
* a repeated hold derives its window from the insertion time of its record, and
    so may settle into the next window (the exception of `SettleStaysInWindow`);
* a hold whose clock was read before a reset and whose rows were read after it is
  charged to a window begun after its clock (`HoldInItsWindow` admits it);
* a refund that comes after its window was reset lowers the usage of the next
  window, which may then be oversold by as much (the exception of `NotOversold`);
* on MySQL and PostgreSQL the whole-row save of a transaction that read a row before
  it expired makes it active again, until the next round expires it anew. No property
  says otherwise: under `"conflict_fails"` it would only restate the isolation;
* a request with an auto group is retried up to `RetryTimes` times in each group;
* a Suno task is refunded before it is saved; a save that fails lets the next
  round refund it again (`NeverOverRefunded` fails for a Suno task with a fault;
  `task_video` checks it for tasks that are moved first);
* a Suno task that gets a fail_reason with a pending status is refunded and set to
  100%, so that nobody looks at it again and it never ends (the exception of
  `TaskEnds`); with `SUCCESS` it is refunded too;
* an image goroutine that outlives the timeout saves its row over the sweep, which
  has refunded the task (the exception "overrun" of `ChargeFollowsOutcome`);
* a query for a running image task asks the upstream for a video, takes the error
  for a failure and refunds; the goroutine then saves the image as a success
  (`ChargeFollowsOutcome` fails for an image task that users query);
* a task whose settle failed at submission is later refunded what its row says,
  and a subscription task is refunded what was held even if a retry changed the
  price. `AsRecorded` in `TaskPolling` excludes both from the properties about the
  charge;
* an image task of a trusted user holds nothing, and is refunded its estimate if
  it is swept after a restart;
* a video task that is reported in progress at 100% is neither polled nor swept
    (`TaskEnds` is checked for image and Suno tasks, which do not take over the
  progress that the upstream reports);
* the wallet is checked in `tryWallet` and debited later without a condition, so
  concurrent requests can take it below zero;
* a task that was settled and accepted by the upstream is lost when its row cannot
  be inserted (`relay.go:716`);
* a hash that is rebuilt while changes wait in memory, incremented as its key
  expires, or passed over by an increment in the last half second of its key, is
  wrong until it expires, and what waits in memory is lost even
  by a regular shutdown.

Console and shell:

* the answer of a plain chat request is never saved; stop does not end such a
  request, and its answer goes into the next reply; a line that is no JSON leaves
  its stream open with the same effect; a stream that ends without `[DONE]` leaves
  its message generating;
* clearing the list under a running stream makes the page fail; the edit dialog
  writes back an old list; regenerate leaves 100 ms in which a second request can
  start; a reset that "keeps" the conversation removes the saved copy; an import
  is stored before it is confirmed;
* on a page that was opened without saved messages a change of the language replaces
  the conversation on the screen, under a running stream too, and leaves the saved
  copy, so that a reload brings it back;
* message ids repeat after a reload, and deleting a reply removes every message
  with its id;
* late answers of searches are applied; a failed page change leaves old rows;
  operations and tests write back rows of an earlier render; the refresh button
  turns the page number into an event; a new batch of tests revives a stopped one;
* a connection that times out starts two chains of retries; on macOS a window
  opened during the start is lost track of; a server that ends with code 0 only
  hides the window (a comment says it closes it), and quitting then takes the full
  five seconds.

## 5. Proofs

TLC checks small instances; the theorems below hold for every value of the
constants that satisfies the named assumption of the module (`ConstantsAssumption`,
`LedgerAssumption`, ...). The assumptions say that numbers are numbers, that the
sets of requests, calls and subscriptions are finite, and that a plan does not end
before it starts; nothing else is taken for granted.

| module | theorem | property |
|---|---|---|
| `BillingSessionProofs` | `TypeCorrect` | `TypeOK` |
| | `QuotaNeverMinted` | `NoQuotaMinted` |
| | `FailureRestores` | `FailedRequestRestored` |
| | `SuccessCharges` | `SuccessChargedOnce` |
| | `SettledStays` | `SettledIsFinal` |
| `SubscriptionLedgerProofs`, any isolation | `TypeCorrect` | `TypeOK` |
| | `WindowsStayAligned` | `WindowsAligned` |
| | `HoldsInItsWindow` | `HoldInItsWindow` |
| with `Isolation = "conflict_fails"` | `UsageStaysExact` | `UsageExact` |
| | `NeverOvercharged` | `NeverOvercounted` |
| | `LifetimeStaysExact` | `LifetimeExact` |
| | `LimitsHold` | `NotOversold` |
| | `SettlesInItsWindow` | `SettleStaysInWindow` |
| `TaskPollingProofs`, any tasks | `TypeCorrect` | `TypeOK` |
| without image tasks | `FinishedStays` | `TerminalIsFinal` |
| | `ChargeIsRight` | `ChargeFollowsOutcome` |
| | `VideoNeverOverRefunded` | `NeverOverRefunded` for the video tasks |
| with video tasks only | `NoDoubleRefund` | `NeverOverRefunded` |
| `QuotaCacheProofs` | `TypeCorrect` | `TypeOK` |
| | `ImplementsCounter` | `CountedOnce` |
| | `CacheHoldsQuota` | `CacheExact` |
| `PlaygroundProofs` | `TypeCorrect` | `TypeOK` |
| | `AnswersStayApart` | `OwnAnswers` |
| | `OnlyLastIsGenerated` | `OnlyLastGenerates` |
| | `ReloadShowsTheSame` | `SavedWhenQuiet` |
| `ChannelsPageProofs` | `TypeCorrect` | `TypeOK` |
| | `TableFollowsLastRequest` | `RowsMatch` |
| | `BatchStaysUnderControl` | `BatchUnderControl` |
| `DesktopProofs` | `TypeCorrect` | `TypeOK` |
| | `NoServerLeft` | `NoOrphan` |
| | `WindowStaysTracked` | `WindowTracked` |

### The billing session

`NoQuotaMinted` is not inductive: that a refund does not return too much depends
on what the session believes it holds. The inductive invariant `IInv` adds, for
each request,

* `Consistent`: which session fields can be set at which control point;
* `WalletHeld`, `SubscriptionHeld`, `TokenHeld`: as long as an amount may still
  be returned, what was taken is at least that amount. The wallet's part is
  bounded by `consumed`, the token's by `tok`, the subscription's by the amounts
  in the idempotency record while its status is "consumed";
* `BgAfterFailure`: the background refund runs only for a request that failed,
  so that it never meets a settle.

The record is what makes three attempts at a subscription refund safe: an
attempt that was applied and reported an error has also changed the status of
the record. The wallet has no record, and there the argument rests on the code
trying only once. Each action has a lemma (`L_...`) that it preserves the
invariant of the request it belongs to; requests do not change each other's
state, so `NextIInv` lifts the lemmas to `Next`, `InitIInv` gives the start, and
`SpecIInv` combines the two.

The exact properties need equalities where `IInv` has bounds, and hold only for a
request that met no fault. `ExactInv` says of such a request, at every control
point, what it has been charged: nothing before a session exists, what the session
holds until it settles (`ServedExact`), and after a failure what the background
refund has left, plus the fee (`FailedExact`). `SettledIsFinal` follows from
`SettledInv`: a session that is settled belongs to a request that is through.

### The usage ledger

`IInv` holds at every isolation level, lost updates included: the rows, and the
snapshots that open transactions will write back, are aligned to the windows of
the plan and within its limits (`RowsInv`), and session, record and charge of a
request agree (`SessionInv`). Snapshots have to be part of it because a
transaction saves the whole row it has read. The clocks that are read before the
rows are part of it as well: neither that of a request nor that of a round of resets
is ahead of the database's (`Clocked`, `RoundGood`).

What a row counts is the sum of the charges only if the row a transaction writes
is the row it has read. Where the last write wins (MySQL and PostgreSQL without a
row lock) that is false, as the run `ledger_lost_update` shows, so these theorems
have the hypothesis `Isolation = "conflict_fails"` (SQLite). There the invariant
`SerialInv` adds that windows only move on, that no charge lies in a window that
has not begun, that a row whose first window has not begun has counted nothing,
and for each row the three equalities and inequalities of the properties. A reset
empties the sum of the current window, a hold, settle or refund changes one
request's term of it.

### The asynchronous tasks

Any number of workers (the poller and every user that queries) hold rows they read
earlier and a plan of calls they are going to make. The invariant `TaskInv` has
three parts:

* `TypeInv`: besides the types, a plan is one of eleven sequences of calls, each a
  suffix of what a handler prepares; what is left of it says what was done.
* `MoveInv`: a worker that is about to move a task has read an open status; one that
  is billing a video task finds it in the terminal status it wrote itself, and no
  other worker is billing the same task (`Alone`). `UpdateWithStatus` writes only
  over the status that was read, so of several workers with the same snapshot one
  wins. `FinishedStays` follows: a row that is terminal matches no snapshot that
  anyone would write over, and only the bulk failure asks for no status.
* `BooksInv`: what the ledgers say of a task, at each place of the plan. Before the
  conditional update nothing has been paid back or recalculated; after it, the
  winner's remaining calls are the difference between the charge and the outcome.

The hypotheses are the code's, not the proof's. A task that was failed in bulk keeps
its charge and is left out of the books. An image task is written by a
goroutine that saves its row whatever has become of it (`Task.Update`), so its
finished status can change, and it has its own way of settling. Suno tasks are
refunded before they are saved: when the save is lost, the next round finds the task
open and refunds it again. Such a task is hurt in the sense of `ChargeFollowsOutcome`,
which is therefore proved for it, but `NeverOverRefunded` is false for it and is
proved for video tasks, faults and crashes included.

### Sums

`SumTheorems` has what these proofs need of the community modules' sum of a
function over a finite set: it does not depend on the order, one element's change
changes it by the difference, it is zero or not negative if all terms are. The
library's induction over finite sets has an operator as a parameter and cannot be
used; instead each fact is shown by taking a minimal counterexample
(`SubsetMinimum`), which the well-foundedness of strict inclusion gives.

### The quota cache

`ImplementsCounter` is the refinement of `QuotaCounter` under the mapping of section
2, step by step: a call that records its change is `Add`, a row that the batch
updater writes is `Flush`, or `Lose` if the write fails, a crash is `Crash`; taking
the buffer is `Checkpoint`, and everything about the cache and its readers changes
neither balance nor rows. `CacheInv` relates the hash to the same balance: as long
as a hash was not written beside a change, it differs from the balance by what the
goroutines still have to add, a sum over the calls (`HashExact`); a reader that is
about to rebuild holds the balance (`RebuildExact`).

### The playground

The page finds "its" message by position, the last of the list, so none of the three
properties is inductive: that a chunk reaches the right message depends on which
request that message belongs to, and what a reload will show on every list that is
waiting in a timer. `PageInv` is `TypeInv`, which holds always, and `ChatInv` as long
as `cause` is empty:

* `AllGood`: in every list, shown, stored, waiting to be saved or held by a dialog,
  a message has text of its own request only and none but the last is generated;
* `Attached`: the message of a request under way is the last one and is generated,
  and the stream in `sseSourceRef` is that of this request;
* `Waiting`: a timer that will send a request is the only one, and nothing is
  generated until it fires; one that will show the default messages finds the list
  and the storage empty;
* `Asking`: nothing is under way behind a question about an edit or an import;
* `Saved`: what is stored, or will be when the queue `saves` is through, agrees with
  the screen but for a message that is being generated and answers of plain requests.

`Asking` could not be proved of the question about a deletion, and rightly so:
regenerate sends 100 ms after it cut the list, the question may be opened in between
and be confirmed when the reply is already there, and then the message that is being
generated is removed under its stream. This takes two changes of the list, one more
than the run has; it is now one of the causes.

That deleting keeps the order of the rest (`Without`, `PosOrder`) would be an
induction over the list; it is shown by the least position at which it would fail
(`NatMin`).

### The channel page and the shell

`PageInv` of the channel page says that among the answers on their way at most the
one of the last request is going to be applied (`RowsInv`), and that without a
restart one loop runs and every model before its position is tested or in flight
(`BatchInv`). `DesktopInv` counts the chains of connection attempts (`ConnInv`: an
attempt, a destroyed connection or a timer each, one more per timeout), which
bounds the attempts; `ProcInv` says that a quit that is under way has a listener
that ends it; `UiInv` that as long as no window was opened early, what is open is
the main window.

### Only model-checked

* Liveness, which is out of the prover's reach: `FailedRequestMadeWhole`,
  `DueWindowReset`, `TaskEnds`, `Converges`, `StartSettles`, `QuitEnds`.
* `ChargeFollowsOutcome` for image tasks (`task_background`). The goroutine of such a
    task and the poller both write its row; the run has the sweep at any time of the
  goroutine, with the save over a swept task as the exception "overrun".

## 6. Not modelled

Channel selection and affinity, top-up and subscription orders, rate limiting,
stream relay, rewards, upstream credentials and Midjourney are candidates (see the
plan). Adaptors and protocol conversion are data transformations without shared
state; authentication and user management are single-row reads and writes; the
pricing tables are data. Most of the web interface, the largest part of the
repository by lines, is forms, tables and rendering: a view loads records, shows
them and posts them back, and a model of it would repeat its layout. The playground
and the channel page are the views whose callbacks interleave. Of the modelled
components, what is left out is said in `PROJECT.json`.

## 7. Plan

In order of importance:

1. *HoldLedger*: the abstract promise of a billing session (held, then settled or
   returned, once) and a refinement mapping from `BillingSession`.
2. *TopUpOrders*: repeated, concurrent and reordered payment callbacks; an order
   credits once. Then subscription orders with plan inventory.
3. *ChannelSelection*: tiers by priority and retry, cross-group retry, multi-key
      status, automatic disabling and enabling, affinity.
4. *RateLimit* and *StreamScanner*: small modules of their own.
