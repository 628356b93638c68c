-------------------------- MODULE QuotaCacheProofs --------------------------
(***************************************************************************)
(* Proofs about QuotaCache, for any users, tokens, calls, readers and      *)
(* changes: type correctness, that the buffer and the batch updater        *)
(* implement the counter of QuotaCounter, and that a complete hash holds   *)
(* the quota (CacheExact).                                                 *)
(***************************************************************************)
EXTENDS QuotaCache, SumTheorems

CallType == [acct : Accounts, delta : Deltas, direct : BOOLEAN, pc : {"called", "done"}]

(* A call that has not been made has no goroutine. *)
CallOK(x, j) ==
    \/ x = NoCall /\ j = "none"
    \/ x \in CallType /\ j \in {"none", "new", "checked"}

ReaderOK(x) == x = NoJob \/ x \in [acct : Accounts, quota : Int]

(* TypeOK says nothing of the domains of call, job and reader. *)
TypeInv ==
    /\ TypeOK
    /\ call = [c \in Calls |-> call[c]] /\ job = [c \in Calls |-> job[c]]
    /\ reader = [g \in Readers |-> reader[g]]

(* The row, the buffer and the batch updater. *)
BooksOK ==
    /\ row \in [Accounts -> Int] /\ store \in [Accounts -> Int] /\ taken \in [Accounts -> Int]
    /\ batch \in {"sleep", "users", "tokens"}
    /\ \A a \in Accounts :
         taken[a] # 0 => batch = IF a \in Users THEN "users" ELSE "tokens"

HashOK ==
    /\ hash \in [Accounts -> [quota : Int, full : BOOLEAN, there : BOOLEAN]]
    /\ raced \in [Accounts -> BOOLEAN] /\ faults \in 0..MaxFaults

CallsOK ==
    /\ call = [c \in Calls |-> call[c]] /\ job = [c \in Calls |-> job[c]]
    /\ \A c \in Calls : CallOK(call[c], job[c])

ReadersOK == reader = [g \in Readers |-> reader[g]] /\ \A g \in Readers : ReaderOK(reader[g])

(* The parts of the invariant. *)
LEMMA TypeParts == TypeInv <=> BooksOK /\ HashOK /\ CallsOK /\ ReadersOK
BY DEF TypeInv, TypeOK, BooksOK, HashOK, CallsOK, ReadersOK, CallOK, ReaderOK, CallType

(* The same of the next state, in the direction the steps need. *)
LEMMA TypePartsPrime == (BooksOK /\ HashOK /\ CallsOK /\ ReadersOK)' => TypeInv'
BY DEF TypeInv, TypeOK, BooksOK, HashOK, CallsOK, ReadersOK, CallOK, ReaderOK, CallType

(* A call that has been made is of an account and changes it by an integer. *)
LEMMA CallFacts ==
  ASSUME CallsOK, NEW c \in Calls, call[c].pc = "called" \/ job[c] # "none"
  PROVE  /\ call[c] \in CallType /\ call[c].acct \in Accounts /\ call[c].delta \in Int
         /\ job[c] \in {"none", "new", "checked"}
<1>1. call[c] # NoCall \/ job[c] # "none"
  BY DEF NoCall
<1>2. call[c] \in CallType /\ job[c] \in {"none", "new", "checked"}
  BY <1>1 DEF CallsOK, CallOK
<1> QED BY <1>2, QuotaCacheAssumption DEF CallType

(* Marking accounts as raced. *)
LEMMA RaceOK ==
  ASSUME raced \in [Accounts -> BOOLEAN], NEW A, Race(A)
  PROVE  raced' \in [Accounts -> BOOLEAN]
BY DEF Race

(* Counting a fault. *)
LEMMA FaultOK == faults \in 0..MaxFaults /\ Fault => faults' \in 0..MaxFaults
BY QuotaCacheAssumption DEF Fault

(* One call and its goroutine move on. *)
LEMMA CallMoves ==
  ASSUME CallsOK, NEW c \in Calls, NEW x, NEW j, CallOK(x, j),
         call' = [call EXCEPT ![c] = x], job' = [job EXCEPT ![c] = j]
  PROVE  CallsOK'
BY DEF CallsOK

(* Removing a hash. *)
LEMMA RemoveOK ==
  ASSUME HashOK, NEW a \in Accounts, Remove(a), UNCHANGED faults
  PROVE  HashOK'
<1>1. Absent \in [quota : Int, full : BOOLEAN, there : BOOLEAN]
  BY DEF Absent
<1> DEFINE b == \/ \E c \in Calls : call[c].acct = a /\ job[c] = "checked"
                \/ raced[a] /\ RebuildUnderWay(a)
<1>2. b \in BOOLEAN
  OBVIOUS
<1>3. hash' = [hash EXCEPT ![a] = Absent] /\ raced' = [raced EXCEPT ![a] = b]
  BY DEF Remove
<1> HIDE DEF b
<1> QED BY <1>1, <1>2, <1>3 DEF HashOK

(* Type correctness holds at first. *)
LEMMA InitTypeInv == Init => TypeInv
<1> SUFFICES ASSUME Init PROVE TypeInv
  OBVIOUS
<1>1. BooksOK
  BY QuotaCacheAssumption DEF Init, BooksOK
<1>2. HashOK
  BY QuotaCacheAssumption DEF Init, HashOK, Absent
<1>3. CallsOK /\ ReadersOK
  BY DEF Init, CallsOK, ReadersOK, CallOK, ReaderOK
<1> QED BY <1>1, <1>2, <1>3, TypeParts

(* Every step keeps it. *)
LEMMA NextTypeInv == TypeInv /\ [Next]_vars => TypeInv'
<1> SUFFICES ASSUME TypeInv, [Next]_vars PROVE TypeInv'
  OBVIOUS
<1>p. BooksOK /\ HashOK /\ CallsOK /\ ReadersOK
  BY TypeParts
<1>b. ASSUME UNCHANGED <<row, store, taken, batch>> PROVE BooksOK'
  BY <1>b, <1>p DEF BooksOK
<1>h. ASSUME UNCHANGED <<hash, raced, faults>> PROVE HashOK'
  BY <1>h, <1>p DEF HashOK
<1>c. ASSUME UNCHANGED <<call, job>> PROVE CallsOK'
  BY <1>c, <1>p DEF CallsOK
<1>r. ASSUME UNCHANGED reader PROVE ReadersOK'
  BY <1>r, <1>p DEF ReadersOK
<1>n. \A c \in Calls : call[c] = call[c] /\ call = [call EXCEPT ![c] = call[c]]
                       /\ job = [job EXCEPT ![c] = job[c]]
  BY <1>p DEF CallsOK
<1>1. ASSUME NEW c \in Calls, NEW a \in Accounts, NEW d \in Deltas, ChangeQuota(c, a, d)
      PROVE  TypeInv'
  <2>1. PICK direct \in BOOLEAN :
          /\ call' = [call EXCEPT ![c] = [acct |-> a, delta |-> d, direct |-> direct, pc |-> "called"]]
          /\ job' = [job EXCEPT ![c] = IF a \in Users \/ (BatchEnabled /\ ~direct) THEN "new" ELSE "none"]
    BY <1>1 DEF ChangeQuota
  <2> DEFINE x == [acct |-> a, delta |-> d, direct |-> direct, pc |-> "called"]
             j == IF a \in Users \/ (BatchEnabled /\ ~direct) THEN "new" ELSE "none"
  <2>2. CallOK(x, j)
    BY DEF CallOK, CallType
  <2>3. CallsOK'
    <3> HIDE DEF x, j
    <3> QED BY <2>1, <2>2, <1>p, CallMoves DEF x, j
  <2>4. HashOK'
    BY <1>1, <1>p, RaceOK DEF ChangeQuota, HashOK
  <2> QED BY <1>1, <1>b, <1>r, <2>3, <2>4, TypePartsPrime DEF ChangeQuota
<1>2. ASSUME NEW c \in Calls, addNewRecord(c) PROVE TypeInv'
  <2>1. call[c] \in CallType /\ call[c].acct \in Accounts /\ call[c].delta \in Int
        /\ job[c] \in {"none", "new", "checked"}
    BY <1>2, <1>p, CallFacts DEF addNewRecord
  <2>2. BooksOK'
    BY <1>2, <1>p, <2>1 DEF addNewRecord, BooksOK
  <2>3. CallOK([call[c] EXCEPT !.pc = "done"], job[c])
    BY <2>1 DEF CallOK, CallType
  <2>4. CallsOK'
    BY <1>2, <1>p, <1>n, <2>3, CallMoves DEF addNewRecord, Return
  <2> QED BY <1>2, <1>h, <1>r, <2>2, <2>4, TypePartsPrime DEF addNewRecord
<1>3. ASSUME NEW c \in Calls, WriteRow(c) PROVE TypeInv'
  <2>1. call[c] \in CallType /\ call[c].acct \in Accounts /\ call[c].delta \in Int
        /\ job[c] \in {"none", "new", "checked"}
    BY <1>3, <1>p, CallFacts DEF WriteRow
  <2>2. BooksOK'
    BY <1>3, <1>p, <2>1 DEF WriteRow, BooksOK
  <2>3. CallOK([call[c] EXCEPT !.pc = "done"], job[c]) /\ CallOK([call[c] EXCEPT !.pc = "done"], "new")
    BY <2>1 DEF CallOK, CallType
  <2>4. call' = [call EXCEPT ![c] = [call[c] EXCEPT !.pc = "done"]]
    BY <1>3 DEF WriteRow, Return
  <2>5. job' = [job EXCEPT ![c] = job[c]] \/ job' = [job EXCEPT ![c] = "new"]
    BY <1>3, <1>n DEF WriteRow
  <2>6. CallsOK'
    BY <1>p, <2>3, <2>4, <2>5, CallMoves
  <2>7. HashOK'
    BY <1>3, <1>p, RaceOK, FaultOK DEF WriteRow, HashOK
  <2> QED BY <1>3, <1>r, <2>2, <2>6, <2>7, TypePartsPrime DEF WriteRow
<1>4. ASSUME NEW c \in Calls, CheckTTL(c) PROVE TypeInv'
  <2>1. call[c] \in CallType
    BY <1>4, <1>p, CallFacts DEF CheckTTL
  <2>2. PICK j \in {"checked", "none"} : job' = [job EXCEPT ![c] = j]
    BY <1>4 DEF CheckTTL
  <2>3. CallOK(call[c], j) /\ call' = [call EXCEPT ![c] = call[c]]
    BY <1>4, <1>n, <2>1 DEF CheckTTL, CallOK
  <2>4. CallsOK'
    BY <1>p, <2>2, <2>3, CallMoves
  <2>5. HashOK'
    BY <1>4, <1>p, RaceOK DEF CheckTTL, HashOK
  <2> QED BY <1>4, <1>b, <1>r, <2>4, <2>5, TypePartsPrime DEF CheckTTL
<1>5. ASSUME NEW c \in Calls, HIncrBy(c) PROVE TypeInv'
  <2>1. call[c] \in CallType /\ call[c].acct \in Accounts /\ call[c].delta \in Int
    BY <1>5, <1>p, CallFacts DEF HIncrBy
  <2>2. CallsOK'
    BY <1>5, <1>p, <1>n, <2>1, CallMoves DEF HIncrBy, CallOK
  <2>3. HashOK'
    BY <1>5, <1>p, <2>1 DEF HIncrBy, HashOK, Hash
  <2> QED BY <1>5, <1>b, <1>r, <2>2, <2>3, TypePartsPrime DEF HIncrBy
<1>6. ASSUME NEW c \in Calls, DeleteHash(c) PROVE TypeInv'
  <2>1. call[c] \in CallType /\ call[c].acct \in Accounts
    BY <1>6, <1>p, CallFacts DEF DeleteHash
  <2>2. CallsOK'
    BY <1>6, <1>p, <1>n, <2>1, CallMoves DEF DeleteHash, CallOK
  <2>3. HashOK'
    BY <1>6, <1>p, <2>1, RemoveOK DEF DeleteHash
  <2> QED BY <1>6, <1>b, <1>r, <2>2, <2>3, TypePartsPrime DEF DeleteHash
<1>7. ASSUME NEW c \in Calls, JobFails(c) PROVE TypeInv'
  <2>1. call[c] \in CallType
    BY <1>7, <1>p, CallFacts DEF JobFails
  <2>2. CallsOK'
    BY <1>7, <1>p, <1>n, <2>1, CallMoves DEF JobFails, CallOK
  <2>3. HashOK'
    BY <1>7, <1>p, RaceOK, FaultOK DEF JobFails, HashOK
  <2> QED BY <1>7, <1>b, <1>r, <2>2, <2>3, TypePartsPrime DEF JobFails
<1>8. ASSUME batchUpdate PROVE TypeInv'
  <2>1. BooksOK'
    <3>1. CASE batch = "sleep" /\ TakeStore("users", Users)
      BY <3>1, <1>p, <1>8 DEF batchUpdate, BooksOK, TakeStore, Accounts
    <3>2. CASE batch = "users" /\ (\A a \in Accounts : taken[a] = 0) /\ TakeStore("tokens", Tokens)
      BY <3>2, <1>p, <1>8, QuotaCacheAssumption DEF batchUpdate, BooksOK, TakeStore, Accounts
    <3>3. CASE batch = "tokens" /\ (\A a \in Accounts : taken[a] = 0) /\ TakeStore("sleep", {})
      BY <3>3, <1>p, <1>8 DEF batchUpdate, BooksOK, TakeStore, Accounts
    <3> QED BY <1>8, <3>1, <3>2, <3>3 DEF batchUpdate
  <2> QED BY <1>8, <1>h, <1>c, <1>r, <2>1, TypePartsPrime DEF batchUpdate
<1>9. ASSUME NEW a \in Accounts, WriteTaken(a) PROVE TypeInv'
  <2>1. BooksOK'
    BY <1>9, <1>p DEF WriteTaken, BooksOK
  <2>2. HashOK'
    BY <1>9, <1>p, RaceOK, FaultOK DEF WriteTaken, HashOK
  <2> QED BY <1>9, <1>c, <1>r, <2>1, <2>2, TypePartsPrime DEF WriteTaken
<1>10. ASSUME NEW g \in Readers, HSetObj(g) PROVE TypeInv'
  <2>1. reader[g] \in [acct : Accounts, quota : Int]
    BY <1>10, <1>p DEF HSetObj, ReadersOK, ReaderOK
  <2>2. HashOK'
    BY <1>10, <1>p, <2>1 DEF HSetObj, HashOK, Hash
  <2>3. ReadersOK'
    BY <1>10, <1>p DEF HSetObj, ReadersOK, ReaderOK
  <2> QED BY <1>10, <1>b, <1>c, <2>2, <2>3, TypePartsPrime DEF HSetObj
<1>11. ASSUME NEW g \in Readers, NEW a \in Accounts, ReadRow(g, a) PROVE TypeInv'
  <2>1. ReadersOK'
    BY <1>11, <1>p DEF ReadRow, ReadersOK, ReaderOK, BooksOK
  <2>2. HashOK'
    BY <1>11, <1>p, RaceOK DEF ReadRow, HashOK
  <2> QED BY <1>11, <1>b, <1>c, <2>1, <2>2, TypePartsPrime DEF ReadRow
<1>12. ASSUME NEW a \in Accounts, Expire(a) PROVE TypeInv'
  <2>1. HashOK'
    BY <1>12, <1>p, RemoveOK DEF Expire
  <2> QED BY <1>12, <1>b, <1>c, <1>r, <2>1, TypePartsPrime DEF Expire
<1>13. ASSUME Crash PROVE TypeInv'
  <2>1. BooksOK'
    BY <1>13, <1>p DEF Crash, BooksOK
  <2>2. HashOK'
    BY <1>13, <1>p, RaceOK, FaultOK DEF Crash, HashOK
  <2>3. CallsOK'
    <3>1. /\ call' = [c \in Calls |-> call'[c]] /\ job' = [c \in Calls |-> job'[c]]
          /\ \A c \in Calls : job'[c] = "none"
      BY <1>13 DEF Crash
    <3>2. ASSUME NEW c \in Calls PROVE call'[c] = NoCall \/ call'[c] \in CallType
      <4>1. call[c] = NoCall \/ call[c] \in CallType
        BY <1>p DEF CallsOK, CallOK
      <4>2. CASE call[c].pc = "called"
        <5>1. call[c] \in CallType
          BY <4>1, <4>2 DEF NoCall
        <5>2. call'[c] = [call[c] EXCEPT !.pc = "done"]
          BY <1>13, <4>2 DEF Crash
        <5> QED BY <5>1, <5>2 DEF CallType
      <4>3. CASE call[c].pc # "called"
        BY <1>13, <4>1, <4>3 DEF Crash
      <4> QED BY <4>2, <4>3
    <3> QED BY <3>1, <3>2 DEF CallsOK, CallOK
  <2>4. ReadersOK'
    BY <1>13 DEF Crash, ReadersOK, ReaderOK
  <2> QED BY <2>1, <2>2, <2>3, <2>4, TypePartsPrime
<1>14. ASSUME UNCHANGED vars PROVE TypeInv'
  BY <1>14, <1>b, <1>h, <1>c, <1>r, TypePartsPrime DEF vars
<1> QED
  BY <1>1, <1>2, <1>3, <1>4, <1>5, <1>6, <1>7, <1>8, <1>9, <1>10, <1>11, <1>12, <1>13, <1>14
  DEF Next, CallStep

(* Type correctness: the batch updater holds what it took from one store at a
   time, calls and goroutines follow their control points (batchUpdate,
   RedisHIncrBy), for any accounts, calls and changes. *)
THEOREM TypeCorrect == Spec => []TypeOK
<1>1. Init => TypeInv
  BY InitTypeInv
<1>2. TypeInv /\ [Next]_vars => TypeInv'
  BY NextTypeInv
<1>3. TypeInv => TypeOK
  BY DEF TypeInv
<1> QED BY <1>1, <1>2, <1>3, PTL DEF Spec

-----------------------------------------------------------------------------
(* The counter of QuotaCounter, whose number is the sum of the three places. *)

(* The first states are first states of the counter. *)
LEMMA InitCounter == Init => Counter!Init
BY QuotaCacheAssumption DEF Init, Counter!Init, Balance

(* A step that moves nothing between the places and has no fault. *)
LEMMA BooksKept ==
  ASSUME UNCHANGED <<row, store, taken, faults>>
  PROVE  UNCHANGED Counter!vars
BY DEF Counter!vars, Balance

(* What the batch updater is about to make of the rows *)
Mark == [a \in Accounts |-> row[a] + taken[a]]

(* A step that touches the books of one account. *)
LEMMA OneAccount ==
  ASSUME BooksOK, BooksOK', NEW a \in Accounts,
         \A b \in Accounts \ {a} : row'[b] = row[b] /\ store'[b] = store[b] /\ taken'[b] = taken[b]
  PROVE  /\ [b \in Accounts |-> Balance(b)]' =
              [[b \in Accounts |-> Balance(b)] EXCEPT ![a] = row'[a] + store'[a] + taken'[a]]
         /\ Mark' = [Mark EXCEPT ![a] = row'[a] + taken'[a]]
         /\ row' = [row EXCEPT ![a] = row'[a]]
BY DEF BooksOK, Balance, Mark

(* What moves between the buffer and the batch updater stays in the balance. *)
LEMMA BalanceKept ==
  ASSUME NEW a, row[a] \in Int, store[a] \in Int, taken[a] \in Int,
         row'[a] = row[a], store'[a] \in Int, taken'[a] \in Int,
         store'[a] + taken'[a] = store[a] + taken[a]
  PROVE  Balance(a)' = Balance(a)
BY DEF Balance

(* A change that is added to the row or to the buffer is added to the balance. *)
LEMMA BalanceGrows ==
  ASSUME NEW a, NEW d \in Int, row[a] \in Int, store[a] \in Int, taken[a] \in Int,
         \/ row'[a] = row[a] + d /\ store'[a] = store[a]
         \/ row'[a] = row[a] /\ store'[a] = store[a] + d,
         taken'[a] = taken[a]
  PROVE  Balance(a)' = Balance(a) + d
BY DEF Balance

(* Every step of the system is a step of the counter, or none. *)
LEMMA NextCounter == TypeInv /\ [Next]_vars => [Counter!Next]_(Counter!vars)
<1> SUFFICES ASSUME TypeInv, [Next]_vars PROVE [Counter!Next]_(Counter!vars)
  OBVIOUS
<1>p. BooksOK /\ HashOK /\ CallsOK /\ ReadersOK
  BY TypeParts
<1>t. BooksOK'
  BY NextTypeInv DEF TypeInv, TypeOK, BooksOK
<1> DEFINE bal == [b \in Accounts |-> Balance(b)]
<1>1. ASSUME NEW c \in Calls, NEW a \in Accounts, NEW d \in Deltas, ChangeQuota(c, a, d)
      PROVE  UNCHANGED Counter!vars
  BY <1>1, BooksKept DEF ChangeQuota
<1>2. ASSUME NEW c \in Calls, addNewRecord(c) PROVE Counter!Next
  <2> DEFINE a == call[c].acct
             d == call[c].delta
  <2>1. a \in Accounts /\ d \in Deltas /\ d \in Int
    BY <1>2, <1>p, CallFacts DEF addNewRecord, CallType
  <2>2. store' = [store EXCEPT ![a] = @ + d] /\ UNCHANGED <<row, taken, faults>>
    BY <1>2 DEF addNewRecord
  <2> HIDE DEF a, d
  <2>3. bal' = [bal EXCEPT ![a] = row'[a] + store'[a] + taken'[a]]
    BY <1>p, <1>t, <2>1, <2>2, OneAccount DEF BooksOK
  <2>4. row'[a] + store'[a] + taken'[a] = bal[a] + d
    BY <1>p, <2>1, <2>2 DEF BooksOK, Balance
  <2>5. Counter!Add(a, d)
    BY <2>2, <2>3, <2>4 DEF Counter!Add
  <2> QED BY <2>1, <2>5 DEF Counter!Next
<1>3. ASSUME NEW c \in Calls, WriteRow(c) PROVE Counter!Next
  <2>0. PICK a, d : a = call[c].acct /\ d = call[c].delta
    OBVIOUS
  <2>1. a \in Accounts /\ d \in Deltas /\ d \in Int
    BY <1>3, <1>p, <2>0, CallFacts DEF WriteRow, CallType
  <2>2. /\ row' \in {row, [row EXCEPT ![a] = @ + d]}
        /\ faults' \in {faults, faults + 1}
        /\ row' = row => faults' = faults + 1 \/ row = [row EXCEPT ![a] = @ + d]
        /\ UNCHANGED <<store, taken>>
    BY <1>3, <2>0 DEF WriteRow, Fault
  <2>4. CASE row' = [row EXCEPT ![a] = @ + d]
    <3>1. \A b \in Accounts \ {a} : row'[b] = row[b] /\ store'[b] = store[b] /\ taken'[b] = taken[b]
      BY <1>p, <2>1, <2>2, <2>4 DEF BooksOK
    <3>2. /\ bal' = [bal EXCEPT ![a] = row'[a] + store'[a] + taken'[a]]
          /\ Mark' = [Mark EXCEPT ![a] = row'[a] + taken'[a]]
      BY <1>p, <1>t, <2>1, <3>1, OneAccount
    <3>3. row'[a] + store'[a] + taken'[a] = bal[a] + d /\ row'[a] + taken'[a] = Mark[a] + d
      BY <1>p, <2>1, <2>2, <2>4 DEF BooksOK, Balance, Mark
    <3>4. bal' = [bal EXCEPT ![a] = @ + d] /\ Mark' = [Mark EXCEPT ![a] = @ + d]
      BY <3>2, <3>3 DEF Mark
    <3>5. Counter!AddDurable(a, d)
      BY <2>2, <2>4, <3>4 DEF Counter!AddDurable, Mark
    <3> QED BY <2>1, <3>5 DEF Counter!Next
  <2>5. CASE row' = row /\ faults' = faults + 1
    <3>1. bal' = bal /\ Mark' = Mark
      BY <2>2, <2>5 DEF Balance, Mark
    <3>2. Counter!Fail
      BY <2>5, <3>1 DEF Counter!Fail, Mark
    <3> QED BY <3>2 DEF Counter!Next
  <2> QED BY <2>2, <2>4, <2>5
<1>4. ASSUME NEW c \in Calls, CheckTTL(c) \/ HIncrBy(c) \/ DeleteHash(c) PROVE UNCHANGED Counter!vars
  BY <1>4, BooksKept DEF CheckTTL, HIncrBy, DeleteHash
<1>5. ASSUME NEW c \in Calls, JobFails(c) PROVE Counter!Next
  <2>1. UNCHANGED <<row, store, taken>> /\ faults' = faults + 1
    BY <1>5 DEF JobFails, Fault
  <2>2. bal' = bal /\ Mark' = Mark
    BY <2>1 DEF Balance, Mark
  <2>3. Counter!Fail
    BY <2>1, <2>2 DEF Counter!Fail, Mark
  <2> QED BY <2>3 DEF Counter!Next
<1>6. ASSUME batchUpdate PROVE Counter!Next
  <2>1. UNCHANGED <<row, faults>>
    BY <1>6 DEF batchUpdate
  <2>2. PICK accounts \in SUBSET Accounts : \E type \in {"users", "tokens", "sleep"} :
           TakeStore(type, accounts) /\ \A a \in accounts : taken[a] = 0
    BY <1>6, <1>p DEF batchUpdate, BooksOK, Accounts
  <2>3. ASSUME NEW a \in Accounts PROVE store'[a] + taken'[a] = store[a] + taken[a]
    BY <2>2, <1>p DEF TakeStore, BooksOK
  <2>4. ASSUME NEW a \in Accounts PROVE Balance(a)' = Balance(a)
    BY <2>1, <2>3, <1>p, <1>t, BalanceKept DEF BooksOK
  <2>5. ASSUME NEW a \in Accounts
        PROVE  row'[a] + taken'[a] = IF a \in accounts THEN bal[a] ELSE Mark[a]
    BY <2>1, <2>2, <1>p DEF TakeStore, BooksOK, Balance, Mark
  <2>6. bal' = bal
    BY <2>4
  <2>7. Mark' = [a \in Accounts |-> IF a \in accounts THEN bal[a] ELSE Mark[a]]
    BY <2>5 DEF Mark
  <2>8. Counter!Checkpoint(accounts)
    BY <2>1, <2>6, <2>7 DEF Counter!Checkpoint, Mark
  <2> QED BY <2>8 DEF Counter!Next
<1>7. ASSUME NEW a \in Accounts, WriteTaken(a) PROVE Counter!Next
  <2>1. /\ row' \in {row, [row EXCEPT ![a] = @ + taken[a]]} /\ faults' \in {faults, faults + 1}
        /\ taken' = [taken EXCEPT ![a] = 0] /\ UNCHANGED store
        /\ row' = row => faults' = faults + 1 \/ row = [row EXCEPT ![a] = @ + taken[a]]
    BY <1>7 DEF WriteTaken, Fault
  <2>2. /\ bal' = [bal EXCEPT ![a] = row'[a] + store'[a] + taken'[a]]
        /\ Mark' = [Mark EXCEPT ![a] = row'[a] + taken'[a]]
        /\ row' = [row EXCEPT ![a] = row'[a]]
    BY <1>p, <1>t, <2>1, OneAccount DEF BooksOK
  <2>3. CASE row' = [row EXCEPT ![a] = @ + taken[a]]
    <3>1. /\ row'[a] + store'[a] + taken'[a] = bal[a]
          /\ row'[a] + taken'[a] = Mark[a] /\ row'[a] = Mark[a]
      BY <1>p, <2>1, <2>3 DEF BooksOK, Balance, Mark
    <3>2. bal' = bal /\ Mark' = Mark /\ row' = [row EXCEPT ![a] = Mark[a]]
      BY <2>2, <3>1 DEF Mark
    <3>3. Counter!Flush(a)
      BY <2>1, <3>2 DEF Counter!Flush, Mark
    <3> QED BY <3>3 DEF Counter!Next
  <2>4. CASE row' = row /\ faults' = faults + 1
    <3>1. /\ row'[a] + store'[a] + taken'[a] = bal[a] - (Mark[a] - row[a])
          /\ row'[a] + taken'[a] = row[a]
      BY <1>p, <2>1, <2>4 DEF BooksOK, Balance, Mark
    <3>2. /\ bal' = [bal EXCEPT ![a] = @ - (Mark[a] - row[a])]
          /\ Mark' = [Mark EXCEPT ![a] = row[a]]
      BY <2>2, <3>1
    <3>3. Counter!Lose(a)
      BY <2>4, <3>2 DEF Counter!Lose, Mark
    <3> QED BY <3>3 DEF Counter!Next
  <2> QED BY <2>1, <2>3, <2>4
<1>8. ASSUME NEW g \in Readers, HSetObj(g) \/ \E a \in Accounts : ReadRow(g, a)
      PROVE  UNCHANGED Counter!vars
  BY <1>8, BooksKept DEF HSetObj, ReadRow
<1>9. ASSUME NEW a \in Accounts, Expire(a) PROVE UNCHANGED Counter!vars
  BY <1>9, BooksKept DEF Expire
<1>10. ASSUME Crash PROVE Counter!Next
  <2>1. row' = row /\ faults' = faults + 1
    BY <1>10 DEF Crash, Fault
  <2>2. ASSUME NEW a \in Accounts PROVE Balance(a)' = row[a] /\ row'[a] + taken'[a] = row[a]
    BY <1>10, <1>p DEF Crash, Balance, BooksOK
  <2>3. bal' = row /\ Mark' = row
    BY <2>2, <1>p DEF BooksOK, Mark
  <2>4. Counter!Crash
    BY <2>1, <2>3 DEF Counter!Crash, Mark
  <2> QED BY <2>4 DEF Counter!Next
<1>11. ASSUME UNCHANGED vars PROVE UNCHANGED Counter!vars
  BY <1>11, BooksKept DEF vars
<1> QED
  BY <1>1, <1>2, <1>3, <1>4, <1>5, <1>6, <1>7, <1>8, <1>9, <1>10, <1>11 DEF Next, CallStep

(* The quota of an account is one counter: buffered, taken, written or lost with
   a fault, every change of IncreaseUserQuota and its counterparts is counted
   once, whatever is recorded while the batch updater runs. *)
THEOREM ImplementsCounter == Spec => CountedOnce
<1>1. Init => Counter!Init /\ TypeInv
  BY InitCounter, InitTypeInv
<1>2. TypeInv /\ [Next]_vars => TypeInv' /\ [Counter!Next]_(Counter!vars)
  BY NextTypeInv, NextCounter
<1> QED BY <1>1, <1>2, PTL DEF Spec, CountedOnce, Counter!Spec

-----------------------------------------------------------------------------
(* The hash and the quota. *)

(* The goroutine of the call has not changed the hash yet, or is to come. *)
HashPending(c) == job[c] # "none" \/ (Deletes(c) /\ call[c].pc = "called")

(* How far call c lets the hash of account a run ahead of the quota: its change is
   in the hash and not in the three places, or, negative, the other way round. *)
Ahead(c, a) ==
    IF call[c].acct # a THEN 0
    ELSE (IF call[c].pc = "called" THEN call[c].delta ELSE 0)
         - (IF HashPending(c) THEN call[c].delta ELSE 0)

AheadOf(a) == [c \in Calls |-> Ahead(c, a)]

(* A hash that was not written beside a change is off by what is under way. *)
HashExact(a) ==
    hash[a].there /\ ~raced[a] =>
        hash[a].full /\ hash[a].quota = Balance(a) + SumFunctionOnSet(AheadOf(a), Calls)

(* A rebuild that nothing overtook carries the quota. *)
RebuildExact(a) ==
    \A g \in Readers :
        reader[g] # NoJob /\ reader[g].acct = a /\ ~raced[a] =>
            reader[g].quota = Balance(a) /\ ~ChangeUnderWay(a)

(* A goroutine that found a hash which is gone, and one that deletes the hash. *)
JobExact(c) ==
    /\ job[c] = "checked" /\ ~hash[call[c].acct].there => raced[call[c].acct]
    /\ Deletes(c) => job[c] # "checked" /\ (call[c].pc = "called" => job[c] = "none")

(* The inductive invariant of CacheExact *)
CacheInv ==
    /\ \A a \in Accounts : HashExact(a) /\ RebuildExact(a)
    /\ \A c \in Calls : JobExact(c)

(* What a call contributes is an integer. *)
LEMMA AheadInt == CallsOK => \A a : IntOn(AheadOf(a), Calls)
<1> SUFFICES ASSUME CallsOK, NEW a PROVE IntOn(AheadOf(a), Calls)
  OBVIOUS
<1>1. ASSUME NEW c \in Calls PROVE Ahead(c, a) \in Int
  <2>1. call[c].delta \in Int
    BY QuotaCacheAssumption DEF CallsOK, CallOK, CallType, NoCall
  <2> QED BY <2>1 DEF Ahead
<1> QED
  BY <1>1 DEF IntOn, AheadOf

(* The same of the next state. *)
LEMMA AheadIntNext == CallsOK' => (\A a : IntOn(AheadOf(a), Calls))'
BY AheadInt, PTL

(* The sum is zero when no change is under way. *)
LEMMA NothingAhead ==
  ASSUME CallsOK, NEW a, ~ChangeUnderWay(a)
  PROVE  SumFunctionOnSet(AheadOf(a), Calls) = 0
<1>1. ASSUME NEW c \in Calls PROVE Ahead(c, a) = 0
  BY DEF ChangeUnderWay, Ahead, HashPending
<1>2. \A c \in Calls : AheadOf(a)[c] = 0
  BY <1>1 DEF AheadOf
<1> QED BY <1>2, SumZero, QuotaCacheAssumption

(* One call moves on, and the sum with it. *)
LEMMA AheadMoves ==
  ASSUME CallsOK, CallsOK', NEW a, NEW c \in Calls,
         \A e \in Calls \ {c} : Ahead(e, a)' = Ahead(e, a)
  PROVE  SumFunctionOnSet(AheadOf(a), Calls)' =
            SumFunctionOnSet(AheadOf(a), Calls) + Ahead(c, a)' - Ahead(c, a)
<1> DEFINE f == AheadOf(a)
           h == AheadOf(a)'
<1>1. IntOn(f, Calls) /\ IntOn(h, Calls) /\ IsFiniteSet(Calls)
  BY AheadInt, AheadIntNext, QuotaCacheAssumption
<1>2. \A e \in Calls : f[e] = Ahead(e, a) /\ h[e] = Ahead(e, a)'
  BY DEF AheadOf
<1>3. SumFunctionOnSet(AheadOf(a), Calls)' = SumFunctionOnSet(h, Calls)
  OBVIOUS
<1> HIDE DEF f, h
<1>4. h[c] \in Int /\ \A e \in Calls \ {c} : h[e] = f[e]
  BY <1>1, <1>2 DEF IntOn
<1>5. SumFunctionOnSet(h, Calls) = SumFunctionOnSet(f, Calls) + h[c] - f[c]
  BY <1>1, <1>4, SumChange
<1> QED BY <1>2, <1>3, <1>5 DEF f

(* The other calls stay as they are. *)
LEMMA OthersKept ==
  ASSUME CallsOK, NEW c \in Calls, NEW x, NEW j,
         call' = [call EXCEPT ![c] = x], job' = [job EXCEPT ![c] = j]
  PROVE  /\ call'[c] = x /\ job'[c] = j
         /\ \A e \in Calls \ {c} :
              /\ call'[e] = call[e] /\ job'[e] = job[e]
              /\ Deletes(e)' <=> Deletes(e)
              /\ \A a : Ahead(e, a)' = Ahead(e, a)
<1>1. call'[c] = x /\ job'[c] = j /\ \A e \in Calls \ {c} : call'[e] = call[e] /\ job'[e] = job[e]
  BY DEF CallsOK
<1>2. ASSUME NEW e \in Calls, call'[e] = call[e], job'[e] = job[e]
      PROVE  (Deletes(e)' <=> Deletes(e)) /\ \A a : Ahead(e, a)' = Ahead(e, a)
  BY <1>2 DEF Deletes, Batched, Ahead, HashPending
<1> QED BY <1>1, <1>2

(* An account whose hash and quota stay, whatever else happens. *)
LEMMA HashKept ==
  ASSUME NEW a, HashExact(a), hash'[a] = hash[a], raced[a] => raced'[a],
         Balance(a)' = Balance(a), \A c \in Calls : Ahead(c, a)' = Ahead(c, a)
  PROVE  HashExact(a)'
<1>1. AheadOf(a)' = AheadOf(a)
  BY DEF AheadOf
<1>2. SumFunctionOnSet(AheadOf(a), Calls)' = SumFunctionOnSet(AheadOf(a), Calls)
  BY <1>1
<1> QED BY <1>2 DEF HashExact

(* An account no change of which begins, and which no new reader reads. *)
LEMMA RebuildKept ==
  ASSUME NEW a, RebuildExact(a), Balance(a)' = Balance(a),
         RebuildUnderWay(a) /\ raced[a] => raced'[a],
         ChangeUnderWay(a)' => ChangeUnderWay(a),
         \A g \in Readers : reader'[g] = reader[g] \/ reader'[g] = NoJob
  PROVE  RebuildExact(a)'
BY DEF RebuildExact, RebuildUnderWay

(* The balances after a step that leaves the books alone. *)
LEMMA SameBalance ==
  ASSUME UNCHANGED <<row, store, taken>>
  PROVE  \A a : Balance(a)' = Balance(a)
BY DEF Balance

(* Nothing begins when one call ends its goroutine or its change. *)
LEMMA UnderWayShrinks ==
  ASSUME \A c \in Calls :
           /\ call'[c].acct = call[c].acct
           /\ call'[c].pc = "called" => call[c].pc = "called"
           /\ job'[c] # "none" => job[c] # "none"
  PROVE  \A a : ChangeUnderWay(a)' => ChangeUnderWay(a)
BY DEF ChangeUnderWay

(* A new call: its change is owed to the hash as well as to the quota. *)
LEMMA C_ChangeQuota ==
  ASSUME TypeInv, CallsOK, CacheInv, NEW c \in Calls, NEW a \in Accounts, NEW d \in Deltas,
         ChangeQuota(c, a, d)
  PROVE  CacheInv'
<1>1. PICK direct \in BOOLEAN :
          /\ call' = [call EXCEPT ![c] = [acct |-> a, delta |-> d, direct |-> direct, pc |-> "called"]]
          /\ job' = [job EXCEPT ![c] = IF a \in Users \/ (BatchEnabled /\ ~direct) THEN "new" ELSE "none"]
  BY DEF ChangeQuota
<1> DEFINE x == [acct |-> a, delta |-> d, direct |-> direct, pc |-> "called"]
           j == IF a \in Users \/ (BatchEnabled /\ ~direct) THEN "new" ELSE "none"
<1>2. /\ call'[c] = x /\ job'[c] = j
      /\ \A e \in Calls \ {c} :
            /\ call'[e] = call[e] /\ job'[e] = job[e]
            /\ Deletes(e)' <=> Deletes(e)
            /\ \A b : Ahead(e, b)' = Ahead(e, b)
  <2>1. call' = [call EXCEPT ![c] = x] /\ job' = [job EXCEPT ![c] = j]
    BY <1>1
  <2> HIDE DEF x, j
  <2> QED BY <2>1, OthersKept
<1>3. call[c] = NoCall /\ job[c] = "none"
  BY DEF ChangeQuota, CallsOK, CallOK, NoCall, CallType
<1>4. d \in Int /\ (Deletes(c)' <=> a \in Tokens /\ ~ (BatchEnabled /\ ~direct))
  BY <1>2, QuotaCacheAssumption DEF Deletes, Batched
<1>5. ASSUME NEW b PROVE Ahead(c, b)' = 0 /\ Ahead(c, b) = 0
  <2>1. Ahead(c, b) = 0
    BY <1>3 DEF Ahead, HashPending, NoCall
  <2>2. HashPending(c)'
    BY <1>2, <1>4 DEF HashPending, Accounts
  <2> QED BY <1>2, <1>4, <2>1, <2>2 DEF Ahead
<1>6. /\ UNCHANGED <<hash, reader>> /\ \A b \in Accounts : raced[b] => raced'[b]
      /\ RebuildUnderWay(a) => raced'[a]
      /\ \A b : Balance(b)' = Balance(b)
  BY SameBalance DEF ChangeQuota, Race
<1>7. ASSUME NEW b \in Accounts PROVE HashExact(b)'
  BY <1>2, <1>5, <1>6, HashKept DEF CacheInv
<1>8. ASSUME NEW b \in Accounts PROVE RebuildExact(b)'
  <2>1. CASE b = a
    BY <1>6, <2>1 DEF RebuildExact, RebuildUnderWay
  <2>2. CASE b # a
    <3>1. ChangeUnderWay(b)' => ChangeUnderWay(b)
      BY <1>2, <2>2 DEF ChangeUnderWay
    <3> QED BY <1>6, <3>1, RebuildKept DEF CacheInv
  <2> QED BY <2>1, <2>2
<1>9. ASSUME NEW e \in Calls PROVE JobExact(e)'
  <2>1. CASE e = c
    BY <1>2, <1>4, <2>1, QuotaCacheAssumption DEF JobExact
  <2>2. CASE e # c
    <3>1. JobExact(e) /\ (job[e] = "checked" => call[e].acct \in Accounts)
      BY CallFacts DEF CacheInv
    <3> QED BY <1>2, <1>6, <2>2, <3>1 DEF JobExact
  <2> QED BY <2>1, <2>2
<1> QED BY <1>7, <1>8, <1>9 DEF CacheInv

(* The change d of call c is booked to account a, or a fault marks the account. *)
Booked(c, a, d) ==
    /\ call[c].pc = "called" /\ a = call[c].acct /\ d = call[c].delta
    /\ call' = [call EXCEPT ![c] = [call[c] EXCEPT !.pc = "done"]]
    /\ \/ Deletes(c) /\ job' = [job EXCEPT ![c] = "new"]
       \/ (~Deletes(c) \/ raced'[a]) /\ job' = job
    /\ raced'[a] \/ Balance(a)' = Balance(a) + d
    /\ \A b \in Accounts \ {a} : Balance(b)' = Balance(b)
    /\ \A b \in Accounts : raced[b] => raced'[b]
    /\ UNCHANGED <<hash, reader>>

(* The hash falls behind by the change, and any reader of the account is marked. *)
LEMMA C_Booked ==
  ASSUME TypeInv, CallsOK, CallsOK', BooksOK, BooksOK', CacheInv, NEW c \in Calls,
         NEW a, NEW d, Booked(c, a, d)
  PROVE  CacheInv'
<1> USE DEF Booked
<1>1. a \in Accounts /\ d \in Int /\ call[c] \in CallType
  BY CallFacts
<1>2. PICK j : job' = [job EXCEPT ![c] = j] /\ j \in {job[c], "new"} /\ (j # job[c] => Deletes(c))
               /\ (raced'[a] \/ (Deletes(c) => j = "new"))
  <2>1. job = [job EXCEPT ![c] = job[c]]
    BY DEF CallsOK
  <2> QED BY <2>1
<1>3. /\ call'[c] = [call[c] EXCEPT !.pc = "done"] /\ job'[c] = j
      /\ \A e \in Calls \ {c} :
            /\ call'[e] = call[e] /\ job'[e] = job[e]
            /\ Deletes(e)' <=> Deletes(e)
            /\ \A b : Ahead(e, b)' = Ahead(e, b)
  BY <1>2, OthersKept
<1>4. /\ call'[c].acct = a /\ call'[c].delta = d /\ call'[c].pc = "done"
      /\ (Deletes(c)' <=> Deletes(c))
  BY <1>1, <1>3 DEF CallType, Deletes, Batched
<1>5. JobExact(c)
  BY DEF CacheInv
<1>6. HashExact(a)'
  <2>1. SUFFICES ASSUME hash[a].there, ~raced'[a]
                 PROVE  /\ hash[a].full
                        /\ hash[a].quota = Balance(a)' + SumFunctionOnSet(AheadOf(a), Calls)'
    BY DEF HashExact
  <2>2. /\ hash[a].full
        /\ hash[a].quota = Balance(a) + SumFunctionOnSet(AheadOf(a), Calls)
    BY <1>1, <2>1 DEF CacheInv, HashExact
  <2>3. Ahead(c, a)' - Ahead(c, a) = - d
    <3>1. HashPending(c) <=> HashPending(c)'
      BY <1>2, <1>3, <1>4, <1>5, <2>1 DEF HashPending, JobExact
    <3> QED BY <1>1, <1>4, <3>1 DEF Ahead
  <2>4. SumFunctionOnSet(AheadOf(a), Calls)' =
            SumFunctionOnSet(AheadOf(a), Calls) + Ahead(c, a)' - Ahead(c, a)
    BY <1>3, AheadMoves
  <2>5. /\ SumFunctionOnSet(AheadOf(a), Calls) \in Int /\ Ahead(c, a) \in Int /\ Ahead(c, a)' \in Int
        /\ Balance(a) \in Int
    BY <1>1, AheadInt, AheadIntNext, SumType, QuotaCacheAssumption DEF IntOn, AheadOf, BooksOK, Balance
  <2>6. Balance(a)' = Balance(a) + d
    BY <2>1
  <2> QED
    <3> DEFINE S == SumFunctionOnSet(AheadOf(a), Calls)
               S1 == SumFunctionOnSet(AheadOf(a), Calls)'
               A0 == Ahead(c, a)
               A1 == Ahead(c, a)'
               B0 == Balance(a)
    <3>1. S1 = S + A1 - A0 /\ A1 - A0 = - d /\ S \in Int /\ A0 \in Int /\ A1 \in Int /\ d \in Int /\ B0 \in Int
      BY <1>1, <2>3, <2>4, <2>5
    <3>2. hash[a].quota = B0 + S /\ Balance(a)' = B0 + d
      BY <2>2, <2>6
    <3> HIDE DEF S, S1, A0, A1, B0
    <3>3. B0 + S = (B0 + d) + S1
      BY <3>1
    <3> QED BY <2>2, <3>2, <3>3 DEF S1
<1>7. ASSUME NEW b \in Accounts PROVE HashExact(b)'
  <2>1. CASE b # a
    <3>1. Ahead(c, b)' = 0 /\ Ahead(c, b) = 0
      BY <1>4, <2>1 DEF Ahead
    <3> QED BY <1>3, <2>1, <3>1, HashKept DEF CacheInv
  <2> QED BY <1>6, <2>1
<1>8. ASSUME NEW b \in Accounts PROVE RebuildExact(b)'
  <2>1. CASE b = a
    <3>1. ChangeUnderWay(a)
      BY DEF ChangeUnderWay
    <3> QED BY <1>1, <2>1, <3>1 DEF CacheInv, RebuildExact
  <2>2. CASE b # a
    <3>1. ChangeUnderWay(b)' => ChangeUnderWay(b)
      BY <1>3, <1>4, <2>2 DEF ChangeUnderWay
    <3> QED BY <2>2, <3>1, RebuildKept DEF CacheInv
  <2> QED BY <2>1, <2>2
<1>9. ASSUME NEW e \in Calls PROVE JobExact(e)'
  <2>1. JobExact(e) /\ (job[e] = "checked" => call[e].acct \in Accounts)
    BY CallFacts DEF CacheInv
  <2>2. CASE e = c
    BY <1>1, <1>2, <1>3, <1>4, <2>1, <2>2 DEF JobExact
  <2>3. CASE e # c
    BY <1>3, <2>1, <2>3 DEF JobExact
  <2> QED BY <2>2, <2>3
<1> QED BY <1>7, <1>8, <1>9 DEF CacheInv

(* addNewRecord books the change in the buffer. *)
LEMMA C_addNewRecord ==
  ASSUME TypeInv, CallsOK, CallsOK', BooksOK, BooksOK', CacheInv, NEW c \in Calls, addNewRecord(c)
  PROVE  CacheInv'
<1>0. PICK a, d : a = call[c].acct /\ d = call[c].delta
  OBVIOUS
<1> USE <1>0
<1>1. a \in Accounts /\ call[c].delta \in Int
  BY CallFacts DEF addNewRecord
<1>2. ~Deletes(c)
  BY DEF addNewRecord, Deletes
<1>3. store' = [store EXCEPT ![a] = @ + call[c].delta] /\ UNCHANGED <<row, taken>>
  BY DEF addNewRecord
<1>4. Balance(a)' = Balance(a) + d
  BY <1>1, <1>3, BalanceGrows DEF BooksOK
<1>5. \A b \in Accounts \ {a} : Balance(b)' = Balance(b)
  BY <1>3 DEF BooksOK, Balance
<1>6. /\ call[c].pc = "called" /\ call' = [call EXCEPT ![c] = [call[c] EXCEPT !.pc = "done"]]
      /\ UNCHANGED <<hash, reader, job, raced>>
  BY DEF addNewRecord, Return
<1>7. Booked(c, a, d)
  BY <1>2, <1>4, <1>5, <1>6 DEF Booked
<1> QED BY <1>7, C_Booked

(* WriteRow books it in the row, unless it fails. *)
LEMMA C_WriteRow ==
  ASSUME TypeInv, CallsOK, CallsOK', BooksOK, BooksOK', HashOK, CacheInv, NEW c \in Calls, WriteRow(c)
  PROVE  CacheInv'
<1>0. PICK a, d : a = call[c].acct /\ d = call[c].delta
  OBVIOUS
<1> USE <1>0
<1>1. a \in Accounts /\ d \in Int
  BY CallFacts DEF WriteRow
<1>2. /\ call[c].pc = "called" /\ call' = [call EXCEPT ![c] = [call[c] EXCEPT !.pc = "done"]]
      /\ UNCHANGED <<hash, reader, store, taken>>
      /\ Deletes(c) <=> a \in Tokens
  BY DEF WriteRow, Return, Deletes
<1>3. row' = row \/ row' = [row EXCEPT ![a] = @ + d]
  BY DEF WriteRow
<1>4. \A b \in Accounts \ {a} : Balance(b)' = Balance(b)
  BY <1>2, <1>3 DEF BooksOK, Balance
<1>5. CASE row' = [row EXCEPT ![a] = @ + d] /\ UNCHANGED raced
           /\ job' = IF a \in Tokens THEN [job EXCEPT ![c] = "new"] ELSE job
  <2>1. Balance(a)' = Balance(a) + d
    BY <1>1, <1>2, <1>5, BalanceGrows DEF BooksOK
  <2>2. \/ Deletes(c) /\ job' = [job EXCEPT ![c] = "new"]
        \/ ~Deletes(c) /\ job' = job
    BY <1>2, <1>5
  <2>3. Booked(c, a, d)
    BY <1>2, <1>4, <1>5, <2>1, <2>2 DEF Booked
  <2> QED BY <2>3, C_Booked
<1>6. CASE Race({a}) /\ UNCHANGED job
  <2>1. raced'[a] /\ \A b \in Accounts : raced[b] => raced'[b]
    BY <1>1, <1>6 DEF Race
  <2>2. Booked(c, a, d)
    BY <1>2, <1>4, <1>6, <2>1 DEF Booked
  <2> QED BY <2>2, C_Booked
<1> QED BY <1>5, <1>6 DEF WriteRow

(* The goroutine of a call ends or goes on without a change of the books. *)
LEMMA C_Job ==
  ASSUME TypeInv, CallsOK, CallsOK', BooksOK, HashOK, CacheInv, NEW c \in Calls,
         CheckTTL(c) \/ HIncrBy(c) \/ DeleteHash(c) \/ JobFails(c)
  PROVE  CacheInv'
<1>0. PICK a, d : a = call[c].acct /\ d = call[c].delta
  OBVIOUS
<1> USE <1>0
<1>1. a \in Accounts /\ d \in Int /\ call[c] \in CallType /\ job[c] \in {"new", "checked"}
  BY CallFacts DEF CheckTTL, HIncrBy, DeleteHash, JobFails
<1>2. PICK j \in {"checked", "none"} : job' = [job EXCEPT ![c] = j]
  BY DEF CheckTTL, HIncrBy, DeleteHash, JobFails
<1>3. /\ call' = call /\ reader' = reader /\ \A b : Balance(b)' = Balance(b)
      /\ \A b \in Accounts : b # a => hash'[b] = hash[b] /\ raced'[b] = raced[b]
      /\ RebuildUnderWay(a) /\ raced[a] => raced'[a]
  <2>1. UNCHANGED <<call, reader, row, store, taken>>
    BY DEF CheckTTL, HIncrBy, DeleteHash, JobFails
  <2>2. ASSUME NEW b \in Accounts, b # a PROVE hash'[b] = hash[b] /\ raced'[b] = raced[b]
    BY <2>2 DEF CheckTTL, HIncrBy, DeleteHash, JobFails, HashOK, Race, Remove
  <2>3. RebuildUnderWay(a) /\ raced[a] => raced'[a]
    BY <1>1 DEF CheckTTL, HIncrBy, DeleteHash, JobFails, HashOK, Race, Remove
  <2> QED BY <2>1, <2>2, <2>3, SameBalance
<1>4. call = [call EXCEPT ![c] = call[c]]
  BY DEF CallsOK
<1>5. /\ call'[c] = call[c] /\ job'[c] = j
      /\ \A e \in Calls \ {c} :
            /\ call'[e] = call[e] /\ job'[e] = job[e]
            /\ Deletes(e)' <=> Deletes(e)
            /\ \A b : Ahead(e, b)' = Ahead(e, b)
  BY <1>2, <1>3, <1>4, OthersKept
<1>6. Deletes(c)' <=> Deletes(c)
  BY <1>5 DEF Deletes, Batched
<1>7. JobExact(c) /\ HashExact(a) /\ HashOK
  BY <1>1 DEF CacheInv
<1>8. HashExact(a)'
  <2>1. CASE j = "checked"
    <3>1. UNCHANGED <<hash, raced>> /\ job[c] = "new"
      BY <1>5, <2>1 DEF CheckTTL, HIncrBy, DeleteHash, JobFails, CallsOK
    <3>2. Ahead(c, a)' = Ahead(c, a)
      BY <1>5, <1>6, <2>1, <3>1 DEF Ahead, HashPending
    <3> QED BY <1>3, <1>5, <1>7, <3>1, <3>2, HashKept
  <2>2. CASE j = "none" /\ HIncrBy(c)
    <3>1. SUFFICES ASSUME ~raced[a]
                   PROVE  hash'[a].full /\ hash'[a].quota = Balance(a)' + SumFunctionOnSet(AheadOf(a), Calls)'
      BY <2>2 DEF HIncrBy, HashExact
    <3>2. hash[a].there /\ ~Deletes(c)
      BY <1>7, <2>2, <3>1 DEF HIncrBy, JobExact
    <3>3. hash[a].full /\ hash[a].quota = Balance(a) + SumFunctionOnSet(AheadOf(a), Calls)
      BY <1>7, <3>1, <3>2 DEF HashExact
    <3>4. hash'[a].full = hash[a].full /\ hash'[a].quota = hash[a].quota + d
      BY <1>1, <2>2 DEF HIncrBy, Hash, HashOK
    <3>5. HashPending(c) /\ ~HashPending(c)'
      BY <1>5, <1>6, <2>2, <3>2 DEF HashPending, HIncrBy
    <3>6. Ahead(c, a)' - Ahead(c, a) = d
      BY <1>1, <1>5, <3>5 DEF Ahead
    <3>7. SumFunctionOnSet(AheadOf(a), Calls)' =
              SumFunctionOnSet(AheadOf(a), Calls) + Ahead(c, a)' - Ahead(c, a)
      BY <1>5, AheadMoves
    <3>8. /\ SumFunctionOnSet(AheadOf(a), Calls) \in Int /\ Ahead(c, a) \in Int
          /\ Ahead(c, a)' \in Int /\ Balance(a) \in Int
      BY <1>1, AheadInt, AheadIntNext, SumType, QuotaCacheAssumption DEF IntOn, AheadOf, BooksOK, Balance
    <3> DEFINE S == SumFunctionOnSet(AheadOf(a), Calls)
               S1 == SumFunctionOnSet(AheadOf(a), Calls)'
               A0 == Ahead(c, a)
               A1 == Ahead(c, a)'
               B0 == Balance(a)
    <3>9. /\ S1 = S + A1 - A0 /\ A1 - A0 = d /\ S \in Int /\ A0 \in Int /\ A1 \in Int
          /\ d \in Int /\ B0 \in Int
          /\ hash[a].quota = B0 + S /\ Balance(a)' = B0
      BY <1>1, <1>3, <3>3, <3>6, <3>7, <3>8
    <3>10. (B0 + S) + d = B0 + S1
      <4> HIDE DEF S, S1, A0, A1, B0
      <4> QED BY <3>9
    <3> HIDE DEF S, S1, A0, A1, B0
    <3> QED BY <3>3, <3>4, <3>9, <3>10 DEF S1
  <2>3. CASE j = "none" /\ CheckTTL(c)
    <3>1. (hash' = hash /\ ~hash[a].there) \/ raced'[a]
      <4>1. CASE Race({a})
        BY <1>1, <4>1 DEF Race
      <4>2. CASE job' = [job EXCEPT ![c] = IF hash[a].there THEN "checked" ELSE "none"]
        <5>1. job'[c] = IF hash[a].there THEN "checked" ELSE "none"
          BY <4>2 DEF CallsOK
        <5> QED BY <1>5, <2>3, <5>1 DEF CheckTTL
      <4> QED BY <2>3, <4>1, <4>2 DEF CheckTTL
    <3> QED BY <3>1 DEF HashExact
  <2>4. CASE DeleteHash(c)
    <3>1. ~hash'[a].there
      BY <1>1, <2>4 DEF DeleteHash, Remove, Absent, HashOK
    <3> QED BY <3>1 DEF HashExact
  <2>5. CASE JobFails(c)
    <3>1. raced'[a]
      BY <1>1, <2>5 DEF JobFails, Race
    <3> QED BY <3>1 DEF HashExact
  <2> QED BY <2>1, <2>2, <2>3, <2>4, <2>5
<1>9. ASSUME NEW b \in Accounts PROVE HashExact(b)'
  <2>1. CASE b # a
    <3>1. Ahead(c, b)' = 0 /\ Ahead(c, b) = 0
      BY <1>5, <2>1 DEF Ahead
    <3> QED BY <1>3, <1>5, <2>1, <3>1, HashKept DEF CacheInv
  <2> QED BY <1>8, <2>1
<1>10. ASSUME NEW b \in Accounts PROVE RebuildExact(b)'
  <2>1. ChangeUnderWay(b)' => ChangeUnderWay(b)
    BY <1>1, <1>3, <1>5, UnderWayShrinks
  <2> QED BY <1>3, <2>1, RebuildKept DEF CacheInv
<1>11. ASSUME NEW e \in Calls PROVE JobExact(e)'
  <2>1. JobExact(e) /\ (job[e] = "checked" => call[e].acct \in Accounts)
    BY CallFacts DEF CacheInv
  <2>2. CASE e = c
    <3>1. j = "checked" => CheckTTL(c) /\ hash[a].there /\ ~Deletes(c)
      BY <1>1, <1>5 DEF CheckTTL, HIncrBy, DeleteHash, JobFails, CallsOK
    <3>2. CheckTTL(c) => hash' = hash
      BY DEF CheckTTL
    <3> QED BY <1>5, <1>6, <2>2, <3>1, <3>2 DEF JobExact
  <2>3. CASE e # c /\ call[e].acct = a /\ job[e] = "checked"
    <3>1. hash'[a].there \/ raced'[a]
      <4>1. CASE CheckTTL(c)
        BY <1>1, <2>1, <2>3, <4>1 DEF CheckTTL, Race, JobExact
      <4>2. CASE HIncrBy(c)
        BY <1>1, <4>2 DEF HIncrBy, HashOK, Hash
      <4>3. CASE DeleteHash(c)
        BY <1>1, <2>3, <4>3 DEF DeleteHash, Remove, HashOK
      <4>4. CASE JobFails(c)
        BY <1>1, <4>4 DEF JobFails, Race
      <4> QED BY <4>1, <4>2, <4>3, <4>4
    <3> QED BY <1>5, <2>1, <2>3, <3>1 DEF JobExact
  <2>4. CASE e # c /\ ~ (call[e].acct = a /\ job[e] = "checked")
    BY <1>3, <1>5, <2>1, <2>4 DEF JobExact
  <2> QED BY <2>2, <2>3, <2>4
<1> QED BY <1>9, <1>10, <1>11 DEF CacheInv

(* The batch updater moves increments; a write that fails marks the account. *)
LEMMA C_Batch ==
  ASSUME TypeInv, BooksOK, BooksOK', HashOK, CacheInv,
         batchUpdate \/ \E a \in Accounts : WriteTaken(a)
  PROVE  CacheInv'
<1>1. UNCHANGED <<hash, call, job, reader>> /\ \A b \in Accounts : raced[b] => raced'[b]
  BY DEF batchUpdate, WriteTaken, Race
<1>2. ASSUME NEW b \in Accounts PROVE raced'[b] \/ Balance(b)' = Balance(b)
  <2>1. CASE batchUpdate
    <3>1. PICK accounts \in SUBSET Accounts : \E type \in {"users", "tokens", "sleep"} :
             TakeStore(type, accounts) /\ \A a \in accounts : taken[a] = 0
      BY <2>1 DEF batchUpdate, BooksOK, Accounts
    <3>2. store'[b] + taken'[b] = store[b] + taken[b]
      BY <3>1 DEF TakeStore, BooksOK
    <3>3. row' = row
      BY <2>1 DEF batchUpdate
    <3> QED BY <3>2, <3>3, BalanceKept DEF BooksOK
  <2>2. ASSUME NEW a \in Accounts, WriteTaken(a) PROVE raced'[b] \/ Balance(b)' = Balance(b)
    <3>1. CASE b # a
      BY <2>2, <3>1 DEF WriteTaken, BooksOK, Balance
    <3>2. CASE b = a /\ row' = [row EXCEPT ![a] = @ + taken[a]]
      <4>1. /\ row'[a] = row[a] + taken[a] /\ store'[a] = store[a] /\ taken'[a] = 0
            /\ row[a] \in Int /\ store[a] \in Int /\ taken[a] \in Int
        BY <2>2, <3>2 DEF WriteTaken, BooksOK
      <4> QED BY <3>2, <4>1 DEF Balance
    <3>3. CASE b = a /\ Race({a})
      BY <3>3 DEF Race
    <3> QED BY <2>2, <3>1, <3>2, <3>3 DEF WriteTaken
  <2> QED BY <2>1, <2>2
<1>3. /\ \A b, c : Ahead(c, b)' = Ahead(c, b)
      /\ \A b : ChangeUnderWay(b)' = ChangeUnderWay(b)
      /\ \A c : Deletes(c)' <=> Deletes(c)
  BY <1>1 DEF Ahead, HashPending, Deletes, Batched, ChangeUnderWay
<1>4. ASSUME NEW b \in Accounts PROVE HashExact(b)' /\ RebuildExact(b)'
  <2>1. CASE raced'[b]
    BY <2>1 DEF HashExact, RebuildExact
  <2>2. CASE ~raced'[b]
    <3>1. Balance(b)' = Balance(b) /\ HashExact(b) /\ RebuildExact(b)
      BY <1>2, <2>2 DEF CacheInv
    <3>2. HashExact(b)'
      BY <1>1, <1>3, <3>1, HashKept
    <3>3. RebuildExact(b)'
      BY <1>1, <1>3, <3>1, RebuildKept
    <3> QED BY <3>2, <3>3
  <2> QED BY <2>1, <2>2
<1>5. ASSUME NEW c \in Calls PROVE JobExact(c)'
  <2>1. JobExact(c) /\ (job[c] = "checked" => call[c].acct \in Accounts)
    BY CallFacts, TypeParts DEF CacheInv
  <2> QED BY <1>1, <1>3, <2>1 DEF JobExact
<1> QED BY <1>4, <1>5 DEF CacheInv

(* A read takes the row, and marks the account when the row is not the quota. *)
LEMMA C_ReadRow ==
  ASSUME TypeInv, BooksOK, ReadersOK, CacheInv, NEW g \in Readers, NEW a \in Accounts, ReadRow(g, a)
  PROVE  CacheInv'
<1>1. /\ UNCHANGED <<hash, call, job, row, store, taken>>
      /\ \A b \in Accounts : raced[b] => raced'[b]
      /\ Buffered(a) \/ ChangeUnderWay(a) => raced'[a]
  BY DEF ReadRow, Race
<1>2. /\ \A b, c : Ahead(c, b)' = Ahead(c, b)
      /\ \A b : ChangeUnderWay(b)' = ChangeUnderWay(b) /\ Balance(b)' = Balance(b)
      /\ \A c : Deletes(c)' <=> Deletes(c)
  BY <1>1, SameBalance DEF Ahead, HashPending, Deletes, Batched, ChangeUnderWay
<1>3. ASSUME NEW b \in Accounts PROVE HashExact(b)'
  BY <1>1, <1>2, HashKept DEF CacheInv
<1>4. ASSUME NEW b \in Accounts, NEW k \in Readers,
             reader'[k] # NoJob, reader'[k].acct = b, ~raced'[b]
      PROVE  reader'[k].quota = Balance(b) /\ ~ChangeUnderWay(b)
  <2>1. CASE k = g
    <3>1. reader'[k] = [acct |-> a, quota |-> row[a]]
      BY <2>1 DEF ReadRow, ReadersOK
    <3>2. ~Buffered(a) /\ ~ChangeUnderWay(a) /\ b = a
      BY <1>1, <1>4, <3>1
    <3>3. row[a] = Balance(a)
      BY <3>2 DEF Buffered, Balance, BooksOK
    <3> QED BY <3>1, <3>2, <3>3
  <2>2. CASE k # g
    <3>1. reader'[k] = reader[k]
      BY <2>2 DEF ReadRow, ReadersOK
    <3> QED BY <1>1, <1>4, <3>1 DEF CacheInv, RebuildExact
  <2> QED BY <2>1, <2>2
<1>5. ASSUME NEW b \in Accounts PROVE RebuildExact(b)'
  BY <1>2, <1>4 DEF RebuildExact
<1>6. ASSUME NEW c \in Calls PROVE JobExact(c)'
  <2>1. JobExact(c) /\ (job[c] = "checked" => call[c].acct \in Accounts)
    BY CallFacts, TypeParts DEF CacheInv
  <2> QED BY <1>1, <1>2, <2>1 DEF JobExact
<1> QED BY <1>3, <1>5, <1>6 DEF CacheInv

(* The rebuilt hash is the quota unless the account is marked. *)
LEMMA C_HSetObj ==
  ASSUME TypeInv, CallsOK, BooksOK, HashOK, ReadersOK, CacheInv, NEW g \in Readers, HSetObj(g)
  PROVE  CacheInv'
<1>0. PICK a, q : a = reader[g].acct /\ q = reader[g].quota
  OBVIOUS
<1>1. /\ UNCHANGED <<call, job, row, store, taken, raced>> /\ reader[g] # NoJob
      /\ hash' = [hash EXCEPT ![a] = Hash(q, TRUE)]
      /\ \A k \in Readers : reader'[k] = reader[k] \/ reader'[k] = NoJob
  BY <1>0 DEF HSetObj, ReadersOK
<1>2. a \in Accounts
  BY <1>0, <1>1 DEF ReadersOK, ReaderOK
<1>3. /\ \A b, c : Ahead(c, b)' = Ahead(c, b)
      /\ \A b : ChangeUnderWay(b)' = ChangeUnderWay(b) /\ Balance(b)' = Balance(b)
      /\ \A c : Deletes(c)' <=> Deletes(c)
  BY <1>1, SameBalance DEF Ahead, HashPending, Deletes, Batched, ChangeUnderWay
<1>4. hash'[a] = Hash(q, TRUE) /\ \A b \in Accounts \ {a} : hash'[b] = hash[b]
  BY <1>1, <1>2 DEF HashOK
<1>5. HashExact(a)'
  <2>1. SUFFICES ASSUME ~raced[a]
                 PROVE  q = Balance(a) + SumFunctionOnSet(AheadOf(a), Calls)
    <3>1. AheadOf(a)' = AheadOf(a)
      BY <1>3 DEF AheadOf
    <3>2. SumFunctionOnSet(AheadOf(a), Calls)' = SumFunctionOnSet(AheadOf(a), Calls)
      BY <3>1
    <3> QED BY <1>1, <1>3, <1>4, <3>2 DEF HashExact, Hash
  <2>2. q = Balance(a) /\ ~ChangeUnderWay(a)
    BY <1>0, <1>1, <1>2, <2>1 DEF CacheInv, RebuildExact
  <2>3. SumFunctionOnSet(AheadOf(a), Calls) = 0 /\ Balance(a) \in Int
    BY <1>2, <2>2, NothingAhead DEF Balance, BooksOK
  <2> QED BY <2>2, <2>3
<1>6. ASSUME NEW b \in Accounts PROVE HashExact(b)'
  BY <1>1, <1>3, <1>4, <1>5, HashKept DEF CacheInv
<1>7. ASSUME NEW b \in Accounts PROVE RebuildExact(b)'
  BY <1>1, <1>3, RebuildKept DEF CacheInv
<1>8. ASSUME NEW c \in Calls PROVE JobExact(c)'
  <2>1. JobExact(c) /\ (job[c] = "checked" => call[c].acct \in Accounts)
    BY CallFacts DEF CacheInv
  <2> QED BY <1>1, <1>3, <1>4, <2>1 DEF JobExact, Hash
<1> QED BY <1>6, <1>7, <1>8 DEF CacheInv

(* A key that expires is marked when a goroutine is about to write it. *)
LEMMA C_Expire ==
  ASSUME TypeInv, CallsOK, HashOK, CacheInv, NEW a \in Accounts, Expire(a)
  PROVE  CacheInv'
<1>1. UNCHANGED <<call, job, row, store, taken, reader>> /\ Remove(a)
  BY DEF Expire
<1>2. /\ \A b, c : Ahead(c, b)' = Ahead(c, b)
      /\ \A b : ChangeUnderWay(b)' = ChangeUnderWay(b) /\ Balance(b)' = Balance(b)
      /\ \A c : Deletes(c)' <=> Deletes(c)
  BY <1>1, SameBalance DEF Ahead, HashPending, Deletes, Batched, ChangeUnderWay
<1>3. /\ ~hash'[a].there
      /\ \A b \in Accounts \ {a} : hash'[b] = hash[b] /\ raced'[b] = raced[b]
      /\ RebuildUnderWay(a) /\ raced[a] => raced'[a]
      /\ \A c \in Calls : call[c].acct = a /\ job[c] = "checked" => raced'[a]
  BY <1>1 DEF Remove, HashOK, Absent
<1>4. ASSUME NEW b \in Accounts PROVE HashExact(b)'
  <2>1. CASE b = a
    BY <1>3, <2>1 DEF HashExact
  <2>2. CASE b # a
    BY <1>2, <1>3, <2>2, HashKept DEF CacheInv
  <2> QED BY <2>1, <2>2
<1>5. ASSUME NEW b \in Accounts PROVE RebuildExact(b)'
  BY <1>1, <1>2, <1>3, RebuildKept DEF CacheInv
<1>6. ASSUME NEW c \in Calls PROVE JobExact(c)'
  <2>1. JobExact(c) /\ (job[c] = "checked" => call[c].acct \in Accounts)
    BY CallFacts DEF CacheInv
  <2> QED BY <1>1, <1>2, <1>3, <2>1 DEF JobExact
<1> QED BY <1>4, <1>5, <1>6 DEF CacheInv

(* After a crash every account is marked. *)
LEMMA C_Crash ==
  ASSUME Crash
  PROVE  CacheInv'
<1>1. (\A b \in Accounts : raced'[b]) /\ \A c \in Calls : job'[c] = "none"
  BY DEF Crash, Race
<1> QED BY <1>1 DEF CacheInv, HashExact, RebuildExact, JobExact

(* At first there is no hash. *)
LEMMA InitCacheInv == Init => CacheInv
BY DEF Init, CacheInv, HashExact, RebuildExact, JobExact, Absent, NoCall

(* Every step keeps the invariant. *)
LEMMA NextCacheInv == TypeInv /\ CacheInv /\ [Next]_vars => CacheInv'
<1> SUFFICES ASSUME TypeInv, CacheInv, [Next]_vars PROVE CacheInv'
  OBVIOUS
<1>1. BooksOK /\ HashOK /\ CallsOK /\ ReadersOK
  BY TypeParts
<1>2. BooksOK' /\ CallsOK'
  BY NextTypeInv DEF TypeInv, TypeOK, BooksOK, CallsOK, CallOK, CallType
<1>3. ASSUME NEW c \in Calls, CallStep(c) PROVE CacheInv'
  BY <1>1, <1>2, <1>3, C_addNewRecord, C_WriteRow, C_Job DEF CallStep
<1>4. ASSUME UNCHANGED vars PROVE CacheInv'
  <2>1. UNCHANGED <<row, store, taken, hash, call, job, reader, raced>>
    BY <1>4 DEF vars
  <2>2. /\ \A b, c : Ahead(c, b)' = Ahead(c, b)
        /\ \A b : ChangeUnderWay(b)' = ChangeUnderWay(b) /\ Balance(b)' = Balance(b)
        /\ \A c : Deletes(c)' <=> Deletes(c)
    BY <2>1, SameBalance DEF Ahead, HashPending, Deletes, Batched, ChangeUnderWay
  <2>3. ASSUME NEW b \in Accounts PROVE HashExact(b)' /\ RebuildExact(b)'
    BY <2>1, <2>2, HashKept, RebuildKept DEF CacheInv
  <2>4. ASSUME NEW c \in Calls PROVE JobExact(c)'
    BY <2>1, <2>2 DEF CacheInv, JobExact
  <2> QED BY <2>3, <2>4 DEF CacheInv
<1> QED
  BY <1>1, <1>2, <1>3, <1>4, C_ChangeQuota, C_Batch, C_ReadRow, C_HSetObj, C_Expire, C_Crash DEF Next

(* Between changes a complete hash in Redis holds the quota, the part that waits
   for the batch updater included, unless it was written beside a change: for any
   interleaving of calls, goroutines, rebuilds, expiries and crashes. *)
THEOREM CacheHoldsQuota == Spec => []CacheExact
<1>1. Init => TypeInv /\ CacheInv
  BY InitTypeInv, InitCacheInv
<1>2. TypeInv /\ CacheInv /\ [Next]_vars => TypeInv' /\ CacheInv'
  BY NextTypeInv, NextCacheInv
<1>3. TypeInv /\ CacheInv => CacheExact
  <2> SUFFICES ASSUME TypeInv, CacheInv, NEW a \in Accounts,
                      hash[a].there, ~raced[a], ~ChangeUnderWay(a)
               PROVE  hash[a].full /\ hash[a].quota = Balance(a)
    BY DEF CacheExact
  <2>1. BooksOK /\ CallsOK
    BY TypeParts
  <2>2. hash[a].full /\ hash[a].quota = Balance(a) + SumFunctionOnSet(AheadOf(a), Calls)
    BY DEF CacheInv, HashExact
  <2>3. SumFunctionOnSet(AheadOf(a), Calls) = 0 /\ Balance(a) \in Int
    BY <2>1, NothingAhead DEF BooksOK, Balance
  <2> QED BY <2>2, <2>3
<1> QED BY <1>1, <1>2, <1>3, PTL DEF Spec
=============================================================================
