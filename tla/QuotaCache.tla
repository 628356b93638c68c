----------------------------- MODULE QuotaCache -----------------------------
(***************************************************************************)
(* The quota of users and tokens in its three places: the row in the       *)
(* database, the increments that wait in memory for the batch updater      *)
(* (model/utils.go), and the hash in Redis that requests read              *)
(* (model/user.go, model/user_cache.go, model/token.go,                    *)
(* model/token_cache.go, common/redis.go).                                 *)
(*                                                                         *)
(* A call changes the row or the buffer, and starts a goroutine that       *)
(* changes the hash; a read that misses the hash starts one that rebuilds  *)
(* it from the row. RedisHIncrBy asks for the TTL of the key before it     *)
(* writes. Redis is enabled, and there is one process.                     *)
(***************************************************************************)
EXTENDS Integers, FiniteSets

CONSTANTS
    Users,         \* users, whose quota is users.quota
    Tokens,        \* tokens, whose quota is tokens.remain_quota
    BatchEnabled,  \* common.BatchUpdateEnabled
    Calls,         \* bound: calls that change a quota
    Readers,       \* bound: reads of a quota at a time
    Deltas,        \* the changes, a set of integers
    Quota0,        \* the quota of every account at first
    MaxFaults      \* bound: failed commands and crashes

Accounts == Users \cup Tokens

ASSUME QuotaCacheAssumption ==
    /\ Users \cap Tokens = {} /\ IsFiniteSet(Calls)
    /\ BatchEnabled \in BOOLEAN
    /\ Deltas \subseteq Int \ {0} /\ Quota0 \in Int /\ MaxFaults \in Nat

VARIABLES
    row,     \* quota in the database
    store,   \* batchUpdateStores: per account the sum that waits, or 0
    taken,   \* per account what the batch updater has taken and not written yet
    batch,   \* control point of the batch updater: "sleep", "users" or "tokens"
    hash,    \* per account the hash in Redis: Absent or [quota, full]
    call,    \* per call: NoCall or [acct, delta, direct], and its control point pc
    job,     \* per call the goroutine it started: "none", "new", "checked"
    reader,  \* per read the goroutine it started: NoJob or [acct, quota]
    raced,   \* history: accounts whose hash was written beside a change of the quota
    faults   \* faults so far

vars == <<row, store, taken, batch, hash, call, job, reader, raced, faults>>

-----------------------------------------------------------------------------
Absent == [quota |-> 0, full |-> FALSE, there |-> FALSE]
Hash(q, full) == [quota |-> q, full |-> full, there |-> TRUE]
NoCall == [acct |-> "none", delta |-> 0, direct |-> FALSE, pc |-> "idle"]
NoJob == [acct |-> "none", quota |-> 0]

Init ==
    /\ row = [a \in Accounts |-> Quota0]
    /\ store = [a \in Accounts |-> 0] /\ taken = [a \in Accounts |-> 0]
    /\ batch = "sleep"
    /\ hash = [a \in Accounts |-> Absent]
    /\ call = [c \in Calls |-> NoCall] /\ job = [c \in Calls |-> "none"]
    /\ reader = [g \in Readers |-> NoJob]
    /\ raced = [a \in Accounts |-> FALSE] /\ faults = 0

(* The quota an account has: no change is in two of the three places. *)
Balance(a) == row[a] + store[a] + taken[a]

ChangeUnderWay(a) ==
    \E c \in Calls : call[c].acct = a /\ (call[c].pc = "called" \/ job[c] # "none")
RebuildUnderWay(a) == \E g \in Readers : reader[g].acct = a
Buffered(a) == store[a] # 0 \/ taken[a] # 0

(* The hash goes, and its history with it unless a goroutine is about to write
   the key again. *)
Remove(a) ==
    /\ hash' = [hash EXCEPT ![a] = Absent]
    /\ raced' = [raced EXCEPT ![a] =
                   \/ \E c \in Calls : call[c].acct = a /\ job[c] = "checked"
                   \/ raced[a] /\ RebuildUnderWay(a)]

Race(A) == raced' = [a \in Accounts |-> raced[a] \/ a \in A]
Fault == faults < MaxFaults /\ faults' = faults + 1

-----------------------------------------------------------------------------
(* Calls. *)

(* common.BatchUpdateEnabled. The db argument of IncreaseUserQuota goes past the
   batch, and so does a token when tokenRequiresImmediateQuotaUpdate finds a
   period quota or cannot read it. *)
Batched(c) == BatchEnabled /\ ~call[c].direct

(* IncreaseUserQuota, DecreaseUserQuota, IncreaseTokenQuota and
   DecreaseTokenQuota up to the row or the buffer: the goroutine for the hash is
   started first, but for a token that is written at once. *)
ChangeQuota(c, a, d) ==
    /\ call[c] = NoCall
    /\ \E direct \in BOOLEAN :
         /\ direct => a \in Tokens \/ d > 0
         /\ call' = [call EXCEPT ![c] = [acct |-> a, delta |-> d, direct |-> direct, pc |-> "called"]]
         /\ job' = [job EXCEPT ![c] = IF a \in Users \/ (BatchEnabled /\ ~direct) THEN "new" ELSE "none"]
    /\ Race(IF RebuildUnderWay(a) THEN {a} ELSE {})
    /\ UNCHANGED <<row, store, taken, batch, hash, reader, faults>>

Return(c) == call' = [call EXCEPT ![c].pc = "done"]

addNewRecord(c) ==
    /\ call[c].pc = "called" /\ Batched(c)
    /\ store' = [store EXCEPT ![call[c].acct] = @ + call[c].delta]
    /\ Return(c)
    /\ UNCHANGED <<row, taken, batch, hash, job, reader, raced, faults>>

(* increaseUserQuota, decreaseUserQuota and adjustTokenQuota called directly: one
   UPDATE that succeeds, is lost, or is applied and reported as failed. A token
   that was written is then removed from Redis. *)
WriteRow(c) ==
    LET a == call[c].acct
    IN /\ call[c].pc = "called" /\ ~Batched(c)
       /\ Return(c)
       /\ \/ /\ row' = [row EXCEPT ![a] = @ + call[c].delta]
             /\ job' = IF a \in Tokens THEN [job EXCEPT ![c] = "new"] ELSE job
             /\ UNCHANGED <<raced, faults>>
          \/ /\ Fault /\ Race({a})
             /\ row' \in {row, [row EXCEPT ![a] = @ + call[c].delta]}
             /\ UNCHANGED job
       /\ UNCHANGED <<store, taken, batch, hash, reader>>

-----------------------------------------------------------------------------
(* The batch updater. *)

(* mutant: the store is taken and kept *)
TakeStoreKept(type, accounts) ==
    /\ batch' = type
    /\ taken' = [a \in Accounts |-> IF a \in accounts THEN store[a] ELSE taken[a]]
    /\ UNCHANGED store

(* The store of one type is replaced by an empty one. *)
TakeStore(type, accounts) ==
    /\ batch' = type
    /\ taken' = [a \in Accounts |-> IF a \in accounts THEN store[a] ELSE taken[a]]
    /\ store' = [a \in Accounts |-> IF a \in accounts THEN 0 ELSE store[a]]

(* mutant: a type that was added later is left out *)
batchUpdateUsersOnly ==
    /\ \/ batch = "sleep" /\ (\E a \in Accounts : store[a] # 0) /\ TakeStore("users", Users)
       \/ batch = "users" /\ (\A a \in Accounts : taken[a] = 0) /\ TakeStore("sleep", {})
    /\ UNCHANGED <<row, hash, call, job, reader, raced, faults>>

(* mutant: the next store is taken before the last one is written *)
batchUpdateEager ==
    /\ \/ batch = "sleep" /\ (\E a \in Accounts : store[a] # 0) /\ TakeStore("users", Users)
       \/ batch = "users" /\ TakeStore("tokens", Tokens)
       \/ batch = "tokens" /\ TakeStore("sleep", {})
    /\ UNCHANGED <<row, hash, call, job, reader, raced, faults>>

(* batchUpdate, when there is something to do *)
batchUpdate ==
    /\ \/ batch = "sleep" /\ (\E a \in Accounts : store[a] # 0) /\ TakeStore("users", Users)
       \/ batch = "users" /\ (\A a \in Accounts : taken[a] = 0) /\ TakeStore("tokens", Tokens)
       \/ batch = "tokens" /\ (\A a \in Accounts : taken[a] = 0) /\ TakeStore("sleep", {})
    /\ UNCHANGED <<row, hash, call, job, reader, raced, faults>>

(* One entry of the store that was taken; a failed write is logged and dropped. *)
WriteTaken(a) ==
    /\ taken[a] # 0
    /\ taken' = [taken EXCEPT ![a] = 0]
    /\ \/ row' = [row EXCEPT ![a] = @ + taken[a]] /\ UNCHANGED <<raced, faults>>
       \/ Fault /\ Race({a}) /\ row' \in {row, [row EXCEPT ![a] = @ + taken[a]]}
    /\ UNCHANGED <<store, batch, hash, call, job, reader>>

-----------------------------------------------------------------------------
(* Goroutines of the calls. *)

(* A token that was written at once is deleted from Redis; any other hash is
   incremented. *)
Deletes(c) == call[c].acct \in Tokens /\ ~Batched(c)

(* mutant: the hash is incremented whether it is there or not *)
CheckTTLIgnored(c) ==
    /\ job[c] = "new" /\ ~Deletes(c)
    /\ job' = [job EXCEPT ![c] = "checked"]
    /\ UNCHANGED <<row, store, taken, batch, hash, call, reader, raced, faults>>

(* RedisHIncrBy: the TTL of the key, and nothing more unless ttl > 0: without a
   key, and in the last half second of a key, whose TTL is reported as 0. *)
CheckTTL(c) ==
    /\ job[c] = "new" /\ ~Deletes(c)
    /\ \/ /\ job' = [job EXCEPT ![c] = IF hash[call[c].acct].there THEN "checked" ELSE "none"]
          /\ UNCHANGED raced
       \/ /\ hash[call[c].acct].there
          /\ job' = [job EXCEPT ![c] = "none"]
          /\ Race({call[c].acct})
    /\ UNCHANGED <<row, store, taken, batch, hash, call, reader, faults>>

(* RedisHIncrBy: HINCRBY makes a hash of one field if the key is gone by now. The
   Expire after it gives the key its TTL anew, see ExpireOrRenew. *)
HIncrBy(c) ==
    LET a == call[c].acct
    IN /\ job[c] = "checked"
       /\ hash' = [hash EXCEPT ![a] = Hash(@.quota + call[c].delta, @.full)]
       /\ job' = [job EXCEPT ![c] = "none"]
       /\ UNCHANGED <<row, store, taken, batch, call, reader, raced, faults>>

(* cacheDeleteToken *)
DeleteHash(c) ==
    /\ job[c] = "new" /\ Deletes(c)
    /\ Remove(call[c].acct)
    /\ job' = [job EXCEPT ![c] = "none"]
    /\ UNCHANGED <<row, store, taken, batch, call, reader, faults>>

(* A command to Redis fails, which is logged. *)
JobFails(c) ==
    /\ job[c] # "none" /\ Fault
    /\ job' = [job EXCEPT ![c] = "none"] /\ Race({call[c].acct})
    /\ UNCHANGED <<row, store, taken, batch, hash, call, reader>>

-----------------------------------------------------------------------------
(* Reads. *)

(* GetUserCache and GetTokenByKey on a miss, GetTokenById always. *)
ReadRow(g, a) ==
    /\ reader[g] = NoJob
    /\ ~hash[a].there \/ a \in Tokens
    /\ reader' = [reader EXCEPT ![g] = [acct |-> a, quota |-> row[a]]]
    /\ Race(IF Buffered(a) \/ ChangeUnderWay(a) THEN {a} ELSE {})
    /\ UNCHANGED <<row, store, taken, batch, hash, call, job, faults>>

(* updateUserCache, cacheSetToken: RedisHSetObj *)
HSetObj(g) ==
    /\ reader[g] # NoJob
    /\ hash' = [hash EXCEPT ![reader[g].acct] = Hash(reader[g].quota, TRUE)]
    /\ reader' = [reader EXCEPT ![g] = NoJob]
    /\ UNCHANGED <<row, store, taken, batch, call, job, raced, faults>>

-----------------------------------------------------------------------------
(* The end of a key's time to live. *)
Expire(a) ==
    /\ hash[a].there
    /\ Remove(a)
    /\ UNCHANGED <<row, store, taken, batch, call, job, reader, faults>>

(* The process ends, with or without a signal: what waits in memory is lost
   (main saves the dashboard data only). Redis goes on. *)
Crash ==
    /\ Fault
    /\ store' = [a \in Accounts |-> 0] /\ taken' = [a \in Accounts |-> 0] /\ batch' = "sleep"
    /\ call' = [c \in Calls |-> IF call[c].pc = "called" THEN [call[c] EXCEPT !.pc = "done"] ELSE call[c]]
    /\ job' = [c \in Calls |-> "none"] /\ reader' = [g \in Readers |-> NoJob]
    /\ Race(Accounts)
    /\ UNCHANGED <<row, hash>>

-----------------------------------------------------------------------------
CallStep(c) ==
    \/ addNewRecord(c) \/ WriteRow(c)
    \/ CheckTTL(c) \/ HIncrBy(c) \/ DeleteHash(c) \/ JobFails(c)

Next ==
    \/ \E c \in Calls : CallStep(c) \/ \E a \in Accounts, d \in Deltas : ChangeQuota(c, a, d)
    \/ batchUpdate \/ \E a \in Accounts : WriteTaken(a)
    \/ \E g \in Readers : HSetObj(g) \/ \E a \in Accounts : ReadRow(g, a)
    \/ \E a \in Accounts : Expire(a)
    \/ Crash

(* The key of an account expires, or is given a time to live anew: by RedisHSetObj,
   and by RedisHIncrBy, which writes back the TTL it read, in whole seconds. *)
ExpireOrRenew(a) ==
    \/ Expire(a)
    \/ \E g \in Readers : reader[g].acct = a /\ HSetObj(g)
    \/ \E c \in Calls : call[c].acct = a /\ HIncrBy(c)

(* Goroutines run, the batch updater wakes up, and keys expire. *)
Fairness ==
    /\ \A c \in Calls : WF_vars(CallStep(c))
    /\ \A g \in Readers : WF_vars(HSetObj(g))
    /\ WF_vars(batchUpdate)
    /\ \A a \in Accounts : WF_vars(WriteTaken(a)) /\ WF_vars(ExpireOrRenew(a))

Spec == Init /\ [][Next]_vars /\ Fairness

-----------------------------------------------------------------------------
(* Properties. *)

(* Type invariant; the batch updater writes one type of account at a time and
   takes the next store when the last one is written. *)
TypeOK ==
    /\ row \in [Accounts -> Int] /\ store \in [Accounts -> Int] /\ taken \in [Accounts -> Int]
    /\ batch \in {"sleep", "users", "tokens"}
    /\ \A a \in Accounts :
         taken[a] # 0 => batch = IF a \in Users THEN "users" ELSE "tokens"
    /\ hash \in [Accounts -> [quota : Int, full : BOOLEAN, there : BOOLEAN]]
    /\ \A c \in Calls :
         \/ call[c] = NoCall /\ job[c] = "none"
         \/ /\ call[c] \in [acct : Accounts, delta : Deltas, direct : BOOLEAN, pc : {"called", "done"}]
            /\ job[c] \in {"none", "new", "checked"}
    /\ \A g \in Readers : reader[g] = NoJob \/ reader[g] \in [acct : Accounts, quota : Int]
    /\ raced \in [Accounts -> BOOLEAN] /\ faults \in 0..MaxFaults

(* The counter of the callers is the sum of the three places; what the batch
   updater has taken is the checkpoint it is about to write. *)
Counter == INSTANCE QuotaCounter WITH
    balance <- [a \in Accounts |-> Balance(a)],
    mark <- [a \in Accounts |-> row[a] + taken[a]], durable <- row

(* The buffer, its replacement by the batch updater and the writes that follow
   implement a counter: with changes recorded at any time in between, each is
   counted once, and only a fault loses what is not in the row yet: a failed write
   what was taken for that account, the end of the process what waits. *)
CountedOnce == Counter!Spec

(* Between changes a complete hash holds the quota, the part that waits in memory
   included. The exception is a hash that was written beside a change (raced):
   rebuilt from a row that the buffer has not reached, or while a goroutine was
   still to add its change, incremented when its key had just expired, or not
   incremented in the last half second of its key, whose TTL reads 0. *)
CacheExact ==
    \A a \in Accounts :
        (hash[a].there /\ ~raced[a] /\ ~ChangeUnderWay(a)) =>
            hash[a].full /\ hash[a].quota = Balance(a)

(* Such a hash does not stay: when there are no more changes, everything
   recorded ends in the rows and requests come to read what is there. *)
Converges ==
    <>[](\A a \in Accounts :
           /\ row[a] = Balance(a)
           /\ hash[a].there => hash[a].full /\ hash[a].quota = row[a])
=============================================================================
