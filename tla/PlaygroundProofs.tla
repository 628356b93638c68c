--------------------------- MODULE PlaygroundProofs ---------------------------
(***************************************************************************)
(* Proofs about the chat page (Playground), for any number of requests,    *)
(* changes and reloads.                                                    *)
(*                                                                         *)
(* TypeInv holds in every reachable state. It also says that the requests  *)
(* sent so far are the first ones, so that a new request was never sent    *)
(* before, and bounds the ids and the numbers of edits.                    *)
(*                                                                         *)
(* ChatInv holds as long as nothing interfered with a request (cause).     *)
(* The page finds the message of a request by position, so its core is     *)
(* that the message of a request under way is the last one and is being    *)
(* generated; a waiting timer stands in for a request, and nothing is      *)
(* generated meanwhile. What was saved last, or is about to be saved last, *)
(* differs from the screen only in a message that is being generated or    *)
(* whose request was answered without a stream.                            *)
(***************************************************************************)
EXTENDS Playground, FiniteSetTheorems, WellFoundedInduction, TLAPS

(* The messages whose text was edited at most c times. *)
Msg(c) == [id : 0..(4 + 3 * MaxRequests), role : {"none", "user", "assistant", "system"},
           status : {"none", "complete", "error"} \cup Generating, of : 0..MaxRequests,
           from : SUBSET Requests, edits : 0..c]

Lists(c) == Seq(Msg(c))

Dialogs(c) == [kind : {"none", "delete", "edit", "import"}, list : Lists(c), at : Nat]

(* A confirmation to delete names a message, one to ask again a question that
   is not the last message. *)
DialogOK(d) ==
    /\ d.kind = "delete" => d.list # <<>>
    /\ d.kind = "edit" => (1 <= d.at /\ d.at < Len(d.list))

(* The first k requests were sent. *)
Sent(n, k) == k \in 0..MaxRequests /\ \A r \in Requests : n[r] # "idle" <=> r <= k

NetInv(n, rf, next) ==
    /\ n \in [Requests -> {"idle", "sse", "fetch", "ended", "answered"}]
    /\ rf \in 0..MaxRequests
    /\ rf # 0 => n[rf] \in {"sse", "ended"}
    /\ next \in Nat
    /\ \E k \in 0..MaxRequests : Sent(n, k) /\ next <= 4 + 3 * k

TypeInv ==
    /\ changes \in 0..MaxChanges /\ reloads \in 0..MaxReloads /\ broken \in BOOLEAN
    /\ messages \in Lists(changes) /\ stored \in Lists(changes)
    /\ saves \in Seq(Lists(changes)) /\ editing \in Msg(changes)
    /\ dialog \in Dialogs(changes) /\ DialogOK(dialog)
    /\ timers \in Seq({"send", "edited", "defaults"})
    /\ NetInv(net, ref, nextId)

-----------------------------------------------------------------------------
(* Only the last message of a list may be generated, and texts are those of
   the message's own request. *)
GoodMsg(m) == m.role # "none" /\ m.from \subseteq {m.of}
Good(list) ==
    \A i \in 1..Len(list) :
        GoodMsg(list[i]) /\ (list[i].status \in Generating => i = Len(list))

Settled(list) == \A i \in 1..Len(list) : list[i].status \notin Generating

(* A list b that was saved shows what is on the screen, but for a message that
   is being generated or was answered without a stream. *)
Agree(b, list, n) ==
    /\ Len(b) <= Len(list)
    /\ \A i \in 1..Len(list) :
         \/ i <= Len(b) /\ b[i] = list[i]
         \/ list[i].of # 0 /\ n[list[i].of] = "answered"
         \/ list[i].status \in Generating

(* What a reload will find once the timers have stored their lists. *)
Base(st, sv) ==
    IF sv # <<>> THEN sv[Len(sv)] ELSE IF st = NoList THEN DefaultMessages ELSE st

Running(n) == {r \in Requests : n[r] \in {"sse", "fetch"}}

(* The message of a request under way is the last one. *)
Attached(list, n, rf) ==
    \A r \in Running(n) :
        /\ list # <<>> /\ list[Len(list)].of = r /\ list[Len(list)].status \in Generating
        /\ n[r] = "sse" => rf = r

AllGood(list, st, sv, d) ==
    /\ Good(list)
    /\ st = NoList \/ Good(st)
    /\ \A i \in 1..Len(sv) : Good(sv[i])
    /\ d.kind \in {"edit", "import"} => Good(d.list)

(* A waiting timer is alone. *)
Waiting(list, st, sv, tm, n) ==
    tm # <<>> => /\ Len(tm) = 1 /\ Running(n) = {} /\ Settled(list)
                 /\ tm[1] = "defaults" => (list = <<>> /\ sv = <<>> /\ st = NoList)

(* Nothing else happens behind an open question about an edit or an import. *)
Asking(st, sv, tm, n, d) ==
    /\ d.kind \in {"edit", "import"} => (tm = <<>> /\ Running(n) = {})
    /\ d.kind = "import" => (sv = <<>> /\ st = d.list)

Saved(list, st, sv, tm, n, d) ==
    (d.kind # "import" /\ (tm = <<>> \/ tm[1] = "edited")) => Agree(Base(st, sv), list, n)

ChatInv ==
    /\ ~broken
    /\ AllGood(messages, stored, saves, dialog)
    /\ Attached(messages, net, ref)
    /\ Waiting(messages, stored, saves, timers, net)
    /\ Asking(stored, saves, timers, net, dialog)
    /\ Saved(messages, stored, saves, timers, net, dialog)

PageInv == TypeInv /\ (cause = {} => ChatInv)

-----------------------------------------------------------------------------
(* Numbers and positions. *)

(* A set of natural numbers that is not empty has a least element. *)
LEMMA NatMin == ASSUME NEW T, T \subseteq Nat, T # {} PROVE \E x \in T : \A y \in T : x <= y
<1>1. PICK x \in T : \A y \in T : ~ (<<y, x>> \in OpToRel(<, Nat))
  BY WFMin, NatLessThanWellFounded, Zenon
<1>2. \A y \in T : ~ (y < x)
  BY <1>1 DEF OpToRel
<1> QED
  BY <1>2

(* The first position of a kind is one of that kind. *)
LEMMA MinIn == ASSUME NEW T, T \subseteq Nat, T # {} PROVE Min(T) \in T
BY NatMin, Zenon DEF Min

(* So is the last position of a kind, in a list. *)
LEMMA MaxIn == ASSUME NEW n \in Nat, NEW T, T \subseteq 1..n, T # {} PROVE Max(T) \in T
<1> DEFINE U == {k \in Nat : n - k \in T}
<1>1. PICK t \in T : TRUE
  OBVIOUS
<1>2. n - t \in U
  BY <1>1
<1>3. PICK x \in U : \A y \in U : x <= y
  BY <1>2, NatMin
<1>4. n - x \in T /\ \A y \in T : n - x >= y
  <2>1. n - x \in T
    BY <1>3
  <2>2. \A y \in T : n - y \in U
    OBVIOUS
  <2> QED
    BY <2>1, <2>2, <1>3
<1> QED
  BY <1>4, Zenon DEF Max

(* The first k requests are k. *)
LEMMA NewRequestIs == ASSUME PlaygroundAssumption, NEW k \in Nat, Sent(net, k) PROVE NewRequest = k + 1
<1>1. Used = 1..k
  BY DEF Used, Sent, Requests, PlaygroundAssumption
<1>2. Cardinality(1..k) = k
  BY FS_Interval
<1> QED
  BY <1>1, <1>2 DEF NewRequest

(* The m-th element of a set of positions, as Without finds it. *)
Upto(K, i) == {j \in K : j <= i}
Pos(K, m) == CHOOSE i \in K : Cardinality(Upto(K, i)) = m

Within(K, n) == \A j \in K : j \in Nat /\ 1 <= j /\ j <= n

(* There are finitely many positions up to any of them. *)
LEMMA UptoFinite ==
  ASSUME NEW n \in Nat, NEW K, Within(K, n), NEW i \in Nat
  PROVE  /\ IsFiniteSet(Upto(K, i)) /\ Cardinality(Upto(K, i)) \in Nat
         /\ IsFiniteSet(K) /\ Cardinality(K) \in Nat
<1>1. IsFiniteSet(1..n)
  BY FS_Interval
<1>2. Upto(K, i) \in SUBSET (1..n) /\ K \in SUBSET (1..n)
  BY DEF Upto, Within
<1>3. IsFiniteSet(Upto(K, i)) /\ IsFiniteSet(K)
  BY <1>1, <1>2, FS_Subset
<1> QED
  BY <1>3, FS_CardinalityType

(* There is an m-th element. *)
LEMMA PosIn ==
  ASSUME NEW n \in Nat, NEW K, Within(K, n), NEW m \in Nat, 1 <= m, m <= Cardinality(K)
  PROVE  Pos(K, m) \in K /\ Cardinality(Upto(K, Pos(K, m))) = m
<1> DEFINE C(i) == Cardinality(Upto(K, i))
           T == {i \in Nat : C(i) >= m}
<1>1. \A i \in Nat : IsFiniteSet(Upto(K, i)) /\ C(i) \in Nat
  BY UptoFinite
<1>2. Upto(K, n) = K
  BY DEF Upto, Within
<1>3. n \in T
  BY <1>1, <1>2
<1>4. PICK x \in T : \A y \in T : x <= y
  BY <1>3, NatMin
<1>5. x # 0
  <2>1. Upto(K, 0) = {}
    BY DEF Upto, Within
  <2>2. C(0) = 0
    BY <2>1, FS_EmptySet
  <2> HIDE DEF C
  <2> QED
    BY <2>2
<1>6. x \in Nat /\ x - 1 \in Nat /\ C(x - 1) < m /\ C(x) >= m
  <2> HIDE DEF C
  <2>1. x \in Nat /\ x - 1 \in Nat /\ C(x) >= m
    BY <1>5
  <2>2. x - 1 \notin T
    BY <2>1, <1>4
  <2> QED
    BY <2>1, <2>2, <1>1
<1> HIDE DEF T
<1>7. x \in K
  <2>1. SUFFICES ASSUME x \notin K PROVE FALSE
    OBVIOUS
  <2>2. Upto(K, x) = Upto(K, x - 1)
    BY <2>1, <1>6 DEF Upto, Within
  <2>3. C(x) = C(x - 1)
    BY <2>2
  <2> HIDE DEF C
  <2> QED
    BY <2>3, <1>6, <1>1
<1>8. Upto(K, x) = Upto(K, x - 1) \cup {x} /\ x \notin Upto(K, x - 1)
  <2>1. \A j \in K : j <= x <=> (j <= x - 1 \/ j = x)
    BY <1>6 DEF Within
  <2>2. \A j : j \in Upto(K, x) <=> (j \in Upto(K, x - 1) \/ j = x)
    BY <2>1, <1>7 DEF Upto
  <2>3. ~ (x <= x - 1)
    BY <1>6
  <2> QED
    BY <2>2, <2>3 DEF Upto
<1>9. C(x) = C(x - 1) + 1
  <2>1. IsFiniteSet(Upto(K, x - 1))
    BY <1>1, <1>6
  <2> QED
    BY <2>1, <1>8, FS_AddElement
<1>10. C(x) = m
  <2> HIDE DEF C
  <2> QED
    BY <1>9, <1>6, <1>1
<1> QED
  BY <1>7, <1>10, Zenon DEF Pos

(* The elements come in their order. *)
LEMMA PosOrder ==
  ASSUME NEW n \in Nat, NEW K, Within(K, n), NEW a \in Nat, NEW b \in Nat,
         1 <= a, a < b, b <= Cardinality(K)
  PROVE  Pos(K, a) < Pos(K, b)
<1>1. Cardinality(K) \in Nat
  BY UptoFinite
<1>2. a <= Cardinality(K) /\ 1 <= b
  BY <1>1
<1>3. /\ Pos(K, a) \in K /\ Cardinality(Upto(K, Pos(K, a))) = a
      /\ Pos(K, b) \in K /\ Cardinality(Upto(K, Pos(K, b))) = b
  BY <1>2, PosIn
<1>4. Pos(K, a) \in Nat /\ Pos(K, b) \in Nat
  BY <1>3 DEF Within
<1>5. SUFFICES ASSUME Pos(K, b) <= Pos(K, a) PROVE FALSE
  BY <1>4
<1>6. Upto(K, Pos(K, b)) \in SUBSET Upto(K, Pos(K, a))
  BY <1>3, <1>4, <1>5 DEF Upto, Within
<1>7. IsFiniteSet(Upto(K, Pos(K, a)))
  BY <1>4, UptoFinite
<1>8. b <= a
  BY <1>3, <1>6, <1>7, FS_Subset
<1> QED
  BY <1>8

(* A list without some messages has messages of the list in their order. *)
LEMMA WithoutIs ==
  ASSUME NEW c, NEW list \in Lists(c), NEW id
  PROVE  /\ Without(list, id) \in Lists(c)
         /\ \A m \in 1..Len(Without(list, id)) : \E i \in 1..Len(list) :
              /\ Without(list, id)[m] = list[i]
              /\ i = Len(list) => m = Len(Without(list, id))
<1> DEFINE K == {i \in DOMAIN list : list[i].id # id}
           N == Cardinality(K)
           W == [m \in 1..N |-> list[Pos(K, m)]]
<1>1. Without(list, id) = W
  BY DEF Without, Pos, Upto
<1>2. Len(list) \in Nat /\ DOMAIN list = 1..Len(list) /\ Within(K, Len(list))
  BY DEF Lists, Within
<1>3. N \in Nat
  BY <1>2, UptoFinite
<1> HIDE DEF K
<1>4. \A m \in 1..N : Pos(K, m) \in K /\ Pos(K, m) \in 1..Len(list)
  <2>1. ASSUME NEW m \in Nat, 1 <= m, m <= N PROVE Pos(K, m) \in K
    BY <2>1, <1>2, PosIn
  <2>2. \A i \in K : i \in 1..Len(list)
    BY <1>2 DEF Within
  <2> HIDE DEF N
  <2> QED
    BY <2>1, <2>2, <1>3
<1>5. \A m \in Nat : (1 <= m /\ m + 1 <= N) => Pos(K, m) < Pos(K, m + 1)
  <2>1. SUFFICES ASSUME NEW m \in Nat, 1 <= m, m + 1 <= N PROVE Pos(K, m) < Pos(K, m + 1)
    OBVIOUS
  <2>2. m + 1 \in Nat /\ m < m + 1
    OBVIOUS
  <2> QED
    BY <2>1, <2>2, <1>2, PosOrder
<1> HIDE DEF N
<1>6. \A m \in 1..N : list[Pos(K, m)] \in Msg(c)
  BY <1>2, <1>4 DEF Lists
<1>7. W \in Lists(c) /\ Len(W) = N
  BY <1>3, <1>6 DEF Lists
<1>8. ASSUME NEW m \in 1..N
      PROVE  W[m] = list[Pos(K, m)] /\ (Pos(K, m) = Len(list) => m = N)
  <2>1. ASSUME Pos(K, m) = Len(list), m # N PROVE FALSE
    <3>1. m \in Nat /\ 1 <= m /\ m + 1 <= N /\ m + 1 \in 1..N
      BY <2>1, <1>3
    <3>2. Pos(K, m) < Pos(K, m + 1) /\ Pos(K, m + 1) <= Len(list)
      BY <3>1, <1>5, <1>4, <1>2
    <3> QED
      BY <2>1, <3>1, <3>2, <1>4, <1>2
  <2> QED
    BY <2>1
<1> HIDE DEF W
<1> QED
  BY <1>1, <1>4, <1>7, <1>8

-----------------------------------------------------------------------------
(* Messages and lists. *)

Statuses == {"none", "complete", "error"} \cup Generating

(* k is l with m in place of the last message. *)
LastSet(l, k, m) ==
    /\ Len(k) = Len(l) /\ k[Len(k)] = m
    /\ \A i \in 1..Len(l) : i < Len(l) => k[i] = l[i]

(* A new message is well formed. *)
LEMMA CreateIs ==
  ASSUME PlaygroundAssumption, NEW c \in Nat, NEW id \in 0..(4 + 3 * MaxRequests),
         NEW role \in {"none", "user", "assistant", "system"}, NEW status \in Statuses,
         NEW r \in 0..MaxRequests
  PROVE  createMessage(id, role, status, r) \in Msg(c)
BY DEF createMessage, Msg, Statuses, PlaygroundAssumption, Requests

(* A message may be edited more often later. *)
LEMMA MsgMonotone ==
  ASSUME NEW c \in Nat, NEW d \in Nat, c <= d
  PROVE  Msg(c) \subseteq Msg(d)
<1>1. 0..c \subseteq 0..d
  OBVIOUS
<1> QED
  BY <1>1 DEF Msg

(* So may the messages of a list, *)
LEMMA ListMonotone ==
  ASSUME NEW c \in Nat, NEW d \in Nat, c <= d
  PROVE  Lists(c) \subseteq Lists(d)
<1>1. Msg(c) \subseteq Msg(d)
  BY MsgMonotone
<1> QED
  BY <1>1 DEF Lists

(* those of lists that wait to be saved and of a confirmation. *)
LEMMA AllMonotone ==
  ASSUME NEW c \in Nat, NEW d \in Nat, c <= d
  PROVE  /\ Msg(c) \subseteq Msg(d) /\ Lists(c) \subseteq Lists(d)
         /\ Seq(Lists(c)) \subseteq Seq(Lists(d)) /\ Dialogs(c) \subseteq Dialogs(d)
<1>1. Msg(c) \subseteq Msg(d) /\ Lists(c) \subseteq Lists(d)
  BY MsgMonotone, ListMonotone
<1>2. Seq(Lists(c)) \subseteq Seq(Lists(d))
  BY <1>1
<1>3. Dialogs(c) \subseteq Dialogs(d)
  BY <1>1 DEF Dialogs
<1> QED
  BY <1>1, <1>2, <1>3

(* The fields of a message. *)
LEMMA MsgFields ==
  ASSUME NEW c, NEW m \in Msg(c)
  PROVE  /\ m.id \in 0..(4 + 3 * MaxRequests) /\ m.role \in {"none", "user", "assistant", "system"}
         /\ m.status \in Statuses /\ m.of \in 0..MaxRequests /\ m.from \in SUBSET Requests
         /\ m.edits \in 0..c
BY DEF Msg, Statuses

(* A message with another status. *)
LEMMA WithStatus ==
  ASSUME NEW c, NEW m \in Msg(c), NEW s \in Statuses
  PROVE  /\ [m EXCEPT !.status = s] \in Msg(c) /\ [m EXCEPT !.status = s].status = s
         /\ [m EXCEPT !.status = s].of = m.of /\ [m EXCEPT !.status = s].from = m.from
         /\ [m EXCEPT !.status = s].role = m.role
BY DEF Msg, Statuses

(* A message with another status and text. *)
Filled(m, s, f) == [m EXCEPT !.status = s, !.from = f]

LEMMA FilledIs ==
  ASSUME NEW c, NEW m \in Msg(c), NEW s \in Statuses, NEW f \in SUBSET Requests
  PROVE  /\ Filled(m, s, f) \in Msg(c) /\ Filled(m, s, f).status = s
         /\ Filled(m, s, f).of = m.of /\ Filled(m, s, f).from = f
         /\ Filled(m, s, f).role = m.role
BY DEF Msg, Statuses, Filled

(* The last message of a list. *)
LEMMA LastIs ==
  ASSUME NEW c, NEW l \in Lists(c), l # <<>>
  PROVE  Last(l) \in Msg(c) /\ Last(l) = l[Len(l)] /\ Len(l) \in Nat /\ Len(l) >= 1
BY DEF Lists, Last

(* The first k messages. *)
LEMMA PrefixIs ==
  ASSUME NEW c, NEW l \in Lists(c), NEW k \in Nat, k <= Len(l)
  PROVE  /\ SubSeq(l, 1, k) \in Lists(c) /\ Len(SubSeq(l, 1, k)) = k
         /\ \A i \in 1..k : SubSeq(l, 1, k)[i] = l[i]
BY DEF Lists

(* Another last message. *)
LEMMA SetLastIs ==
  ASSUME NEW c, NEW l \in Lists(c), l # <<>>, NEW m \in Msg(c)
  PROVE  Append(Front(l), m) \in Lists(c) /\ LastSet(l, Append(Front(l), m), m)
<1>1. Len(l) \in Nat /\ Len(l) >= 1
  BY DEF Lists
<1>2. /\ SubSeq(l, 1, Len(l) - 1) \in Lists(c) /\ Len(SubSeq(l, 1, Len(l) - 1)) = Len(l) - 1
      /\ \A i \in 1..(Len(l) - 1) : SubSeq(l, 1, Len(l) - 1)[i] = l[i]
  <2>1. Len(l) - 1 \in Nat /\ Len(l) - 1 <= Len(l)
    BY <1>1
  <2> QED
    BY <2>1, PrefixIs
<1> QED
  BY <1>1, <1>2 DEF Lists, Front, LastSet

(* A message more. *)
LEMMA AppendIs ==
  ASSUME NEW S, NEW l \in Seq(S), NEW m \in S
  PROVE  /\ Append(l, m) \in Seq(S) /\ Append(l, m) # <<>> /\ Len(Append(l, m)) = Len(l) + 1
         /\ Append(l, m)[Len(l) + 1] = m /\ \A i \in 1..Len(l) : Append(l, m)[i] = l[i]
OBVIOUS

(* One list after another. *)
LEMMA ConcatIs ==
  ASSUME NEW S, NEW A \in Seq(S), NEW B \in Seq(S)
  PROVE  /\ A \o B \in Seq(S) /\ Len(A \o B) = Len(A) + Len(B)
         /\ \A i \in 1..(Len(A) + Len(B)) : (A \o B)[i] = IF i <= Len(A) THEN A[i] ELSE B[i - Len(A)]
OBVIOUS

(* A list without the message at p. *)
LEMMA RemoveAtIs ==
  ASSUME NEW c, NEW l \in Lists(c), NEW p \in 1..Len(l)
  PROVE  /\ RemoveAt(l, p) \in Lists(c) /\ Len(RemoveAt(l, p)) = Len(l) - 1
         /\ \A i \in 1..(Len(l) - 1) : RemoveAt(l, p)[i] = IF i < p THEN l[i] ELSE l[i + 1]
<1>1. Len(l) \in Nat /\ p \in Nat
  BY DEF Lists
<1>2. /\ SubSeq(l, 1, p - 1) \in Lists(c) /\ Len(SubSeq(l, 1, p - 1)) = p - 1
      /\ \A i \in 1..(p - 1) : SubSeq(l, 1, p - 1)[i] = l[i]
  BY <1>1 DEF Lists
<1>3. /\ SubSeq(l, p + 1, Len(l)) \in Lists(c) /\ Len(SubSeq(l, p + 1, Len(l))) = Len(l) - p
      /\ \A i \in 1..(Len(l) - p) : SubSeq(l, p + 1, Len(l))[i] = l[p + i]
  BY <1>1 DEF Lists
<1> DEFINE A == SubSeq(l, 1, p - 1)
           B == SubSeq(l, p + 1, Len(l))
<1>4. RemoveAt(l, p) = A \o B
  BY DEF RemoveAt
<1> HIDE DEF A, B
<1>5. /\ A \o B \in Lists(c) /\ Len(A \o B) = Len(A) + Len(B)
      /\ \A i \in 1..(Len(A) + Len(B)) : (A \o B)[i] = IF i <= Len(A) THEN A[i] ELSE B[i - Len(A)]
  <2>1. A \in Seq(Msg(c)) /\ B \in Seq(Msg(c))
    BY <1>2, <1>3 DEF Lists, A, B
  <2> QED
    BY <2>1, ConcatIs DEF Lists
<1>6. Len(A) = p - 1 /\ Len(B) = Len(l) - p
  BY <1>2, <1>3 DEF A, B
<1>7. ASSUME NEW i \in 1..(Len(l) - 1) PROVE (A \o B)[i] = IF i < p THEN l[i] ELSE l[i + 1]
  <2>1. CASE i < p
    BY <2>1, <1>1, <1>2, <1>5, <1>6 DEF A
  <2>2. CASE ~ (i < p)
    <3>1. i - (p - 1) \in 1..(Len(l) - p) /\ p + (i - (p - 1)) = i + 1
      BY <2>2, <1>1
    <3>2. (A \o B)[i] = B[i - (p - 1)]
      BY <2>2, <1>1, <1>5, <1>6
    <3> QED
      BY <2>2, <3>1, <3>2, <1>3 DEF B
  <2> QED
    BY <2>1, <2>2
<1>8. Len(A \o B) = Len(l) - 1
  BY <1>1, <1>5, <1>6
<1> QED
  BY <1>4, <1>5, <1>7, <1>8

-----------------------------------------------------------------------------
(* What the handlers make of a list. *)

(* k is l, or l with another text in a last message that is being generated. *)
Streamed(l, k, r) ==
    \/ k = l
    \/ \E m : /\ l # <<>> /\ LastSet(l, k, m)
              /\ l[Len(l)].status \in Generating /\ m.status \in Generating
              /\ m.of = l[Len(l)].of /\ m.role = l[Len(l)].role
              /\ m.from = l[Len(l)].from \cup {r}

LEMMA StreamIs ==
  ASSUME NEW c, NEW l \in Lists(c), NEW r \in Requests
  PROVE  streamMessageUpdate(l, r) \in Lists(c) /\ Streamed(l, streamMessageUpdate(l, r), r)
<1> DEFINE On == l # <<>> /\ Last(l).role = "assistant" /\ Last(l).status \in Generating
<1>1. CASE ~ On
  BY <1>1 DEF streamMessageUpdate, Streamed
<1>2. CASE On
  <2> DEFINE m == Filled(Last(l), "incomplete", Last(l).from \cup {r})
             k == Append(Front(l), m)
  <2>1. streamMessageUpdate(l, r) = k
    BY <1>2 DEF streamMessageUpdate, Filled
  <2>2. Last(l) \in Msg(c) /\ Last(l) = l[Len(l)]
    BY <1>2, LastIs
  <2>3. Last(l).from \cup {r} \in SUBSET Requests /\ "incomplete" \in Statuses
    BY <2>2, MsgFields DEF Statuses, Generating
  <2>4. /\ m \in Msg(c) /\ m.status = "incomplete" /\ m.of = Last(l).of /\ m.role = Last(l).role
        /\ m.from = Last(l).from \cup {r}
    BY <2>2, <2>3, FilledIs
  <2> HIDE DEF m
  <2>5. k \in Lists(c) /\ LastSet(l, k, m)
    BY <2>4, <1>2, SetLastIs
  <2>6. "incomplete" \in Generating
    BY DEF Generating
  <2> HIDE DEF k
  <2>7. Streamed(l, k, r)
    BY <1>2, <2>2, <2>4, <2>5, <2>6 DEF Streamed
  <2> QED
    BY <2>1, <2>5, <2>7
<1> QED
  BY <1>1, <1>2

(* k is l with a last message that is not being generated any more. *)
Ended(l, k) ==
    \E m : /\ l # <<>> /\ LastSet(l, k, m)
           /\ m.status \notin Generating
           /\ m.of = l[Len(l)].of /\ m.role = l[Len(l)].role /\ m.from = l[Len(l)].from

(* The step that ends the last message, with any status that is an end. *)
LEMMA EndIs ==
  ASSUME NEW c, NEW l \in Lists(c), l # <<>>, NEW s \in {"complete", "error"}
  PROVE  /\ Append(Front(l), [Last(l) EXCEPT !.status = s]) \in Lists(c)
         /\ Ended(l, Append(Front(l), [Last(l) EXCEPT !.status = s]))
<1> DEFINE m == [Last(l) EXCEPT !.status = s]
           k == Append(Front(l), m)
<1>1. Last(l) \in Msg(c) /\ Last(l) = l[Len(l)] /\ s \in Statuses /\ s \notin Generating
  BY LastIs DEF Statuses, Generating
<1>2. m \in Msg(c) /\ m.status = s /\ m.of = Last(l).of /\ m.role = Last(l).role /\ m.from = Last(l).from
  BY <1>1, WithStatus
<1> HIDE DEF m
<1>3. k \in Lists(c) /\ LastSet(l, k, m)
  BY <1>2, SetLastIs
<1> HIDE DEF k
<1>4. Ended(l, k)
  BY <1>1, <1>2, <1>3 DEF Ended
<1> QED
  BY <1>3, <1>4 DEF k, m

(* completeMessage ends a message that is being generated and leaves one that
   has ended. *)
LEMMA CompleteIs ==
  ASSUME NEW c, NEW l \in Lists(c), NEW s \in {"complete", "error"}
  PROVE  /\ completeMessage(l, s) \in Lists(c)
         /\ IF CanComplete(l) THEN Ended(l, completeMessage(l, s)) ELSE completeMessage(l, s) = l
         /\ (l # <<>> /\ l[Len(l)].status \in Generating) => CanComplete(l)
<1>1. CASE ~ CanComplete(l)
  BY <1>1 DEF completeMessage, CanComplete, Last, Generating
<1>2. CASE CanComplete(l)
  <2>1. l # <<>> /\ completeMessage(l, s) = Append(Front(l), [Last(l) EXCEPT !.status = s])
    BY <1>2 DEF completeMessage, CanComplete
  <2> QED
    BY <1>2, <2>1, EndIs
<1> QED
  BY <1>1, <1>2

(* What a reload shows of a stored list. *)
LEMMA RepairedIs ==
  ASSUME NEW c, NEW l \in Lists(c)
  PROVE  /\ Repaired(l) \in Lists(c)
         /\ IF l # <<>> /\ l[Len(l)].status \in Generating THEN Ended(l, Repaired(l)) ELSE Repaired(l) = l
<1>1. CASE ~ (l # <<>> /\ l[Len(l)].status \in Generating)
  BY <1>1 DEF Repaired, Last
<1>2. CASE l # <<>> /\ l[Len(l)].status \in Generating
  <2>1. Repaired(l) = Append(Front(l), [Last(l) EXCEPT !.status = "complete"])
    BY <1>2 DEF Repaired, Last
  <2> QED
    BY <1>2, <2>1, EndIs
<1> QED
  BY <1>1, <1>2

(* The answer of a plain request in the last message. *)
Answered(l, k, r) ==
    \/ k = l
    \/ \E m : /\ l # <<>> /\ LastSet(l, k, m)
              /\ l[Len(l)].status \in Generating /\ m.status \notin Generating
              /\ m.of = l[Len(l)].of /\ m.role = l[Len(l)].role /\ m.from = {r}

LEMMA AnsweredIs ==
  ASSUME NEW c, NEW l \in Lists(c), NEW r \in Requests, NEW s \in {"complete", "error"},
         l # <<>>, Last(l).status = "loading"
  PROVE  /\ Append(Front(l), Filled(Last(l), s, {r})) \in Lists(c)
         /\ Answered(l, Append(Front(l), Filled(Last(l), s, {r})), r)
<1> DEFINE m == Filled(Last(l), s, {r})
           k == Append(Front(l), m)
<1>1. /\ Last(l) \in Msg(c) /\ Last(l) = l[Len(l)] /\ s \in Statuses /\ s \notin Generating
      /\ {r} \in SUBSET Requests /\ Last(l).status \in Generating
  BY LastIs DEF Statuses, Generating
<1>2. m \in Msg(c) /\ m.status = s /\ m.of = Last(l).of /\ m.role = Last(l).role /\ m.from = {r}
  BY <1>1, FilledIs
<1> HIDE DEF m
<1>3. k \in Lists(c) /\ LastSet(l, k, m)
  BY <1>2, SetLastIs
<1> HIDE DEF k
<1>4. Answered(l, k, r)
  BY <1>1, <1>2, <1>3 DEF Answered
<1> QED
  BY <1>3, <1>4 DEF k, m

(* k has the messages of l with the same statuses, texts of the same requests
   or none, and roles that are no less. *)
Rewritten(l, k) ==
    /\ Len(k) = Len(l)
    /\ \A i \in 1..Len(l) :
         /\ k[i].status = l[i].status /\ k[i].of = l[i].of /\ k[i].from \subseteq l[i].from
         /\ l[i].role # "none" => k[i].role # "none"

(* The list of handleRoleToggle. *)
Toggled(l, id, new) ==
    [j \in DOMAIN l |-> IF l[j].id = id /\ l[j].role # "user" THEN [l[j] EXCEPT !.role = new] ELSE l[j]]

LEMMA ToggledIs ==
  ASSUME NEW c, NEW l \in Lists(c), NEW id, NEW new \in {"assistant", "system"}
  PROVE  Toggled(l, id, new) \in Lists(c) /\ Rewritten(l, Toggled(l, id, new))
<1>1. Len(l) \in Nat /\ DOMAIN l = 1..Len(l) /\ \A j \in 1..Len(l) : l[j] \in Msg(c)
  BY DEF Lists
<1>2. ASSUME NEW m \in Msg(c)
      PROVE  /\ [m EXCEPT !.role = new] \in Msg(c)
             /\ [m EXCEPT !.role = new].status = m.status /\ [m EXCEPT !.role = new].of = m.of
             /\ [m EXCEPT !.role = new].from = m.from /\ [m EXCEPT !.role = new].role = new
  BY DEF Msg
<1> DEFINE t(j) == IF l[j].id = id /\ l[j].role # "user" THEN [l[j] EXCEPT !.role = new] ELSE l[j]
           k == [j \in 1..Len(l) |-> t(j)]
<1>3. \A j \in 1..Len(l) : /\ t(j) \in Msg(c) /\ t(j).status = l[j].status /\ t(j).of = l[j].of
                           /\ t(j).from = l[j].from /\ (l[j].role # "none" => t(j).role # "none")
  BY <1>1, <1>2
<1>4. Toggled(l, id, new) = k
  BY <1>1 DEF Toggled
<1> HIDE DEF t
<1>5. k \in Lists(c) /\ Len(k) = Len(l) /\ \A j \in 1..Len(l) : k[j] = t(j)
  BY <1>1, <1>3 DEF Lists
<1> HIDE DEF k
<1> QED
  BY <1>3, <1>4, <1>5 DEF Rewritten

(* The list of handleEditSave. *)
Edited(l, id) ==
    [j \in DOMAIN l |-> IF l[j].id = id THEN [l[j] EXCEPT !.from = {}, !.edits = @ + 1] ELSE l[j]]

LEMMA EditedIs ==
  ASSUME NEW c \in Nat, NEW l \in Lists(c), NEW id
  PROVE  Edited(l, id) \in Lists(c + 1) /\ Rewritten(l, Edited(l, id))
<1>1. Len(l) \in Nat /\ DOMAIN l = 1..Len(l) /\ \A j \in 1..Len(l) : l[j] \in Msg(c)
  BY DEF Lists
<1> DEFINE e(m) == [m EXCEPT !.from = {}, !.edits = m.edits + 1]
<1>2. ASSUME NEW m \in Msg(c)
      PROVE  /\ e(m) \in Msg(c + 1) /\ m \in Msg(c + 1)
             /\ e(m).status = m.status /\ e(m).of = m.of /\ e(m).from = {} /\ e(m).role = m.role
  <2>1. m.edits + 1 \in 0..(c + 1) /\ m \in Msg(c + 1)
    BY MsgMonotone, MsgFields
  <2> QED
    BY <2>1 DEF Msg
<1> DEFINE t(j) == IF l[j].id = id THEN e(l[j]) ELSE l[j]
           k == [j \in 1..Len(l) |-> t(j)]
<1>3. \A j \in 1..Len(l) : /\ t(j) \in Msg(c + 1) /\ t(j).status = l[j].status /\ t(j).of = l[j].of
                           /\ t(j).from \subseteq l[j].from /\ t(j).role = l[j].role
  <2> HIDE DEF e
  <2> QED
    BY <1>1, <1>2
<1>4. Edited(l, id) = k
  BY <1>1 DEF Edited
<1> HIDE DEF t
<1>5. k \in Lists(c + 1) /\ Len(k) = Len(l) /\ \A j \in 1..Len(l) : k[j] = t(j)
  BY <1>1, <1>3 DEF Lists
<1> HIDE DEF k
<1> QED
  BY <1>3, <1>4, <1>5 DEF Rewritten

(* The messages of k are messages of l; the last one of l, if it is there, is
   the last one of k. *)
Thinned(l, k) ==
    \A m \in 1..Len(k) : \E i \in 1..Len(l) : k[m] = l[i] /\ (i = Len(l) => m = Len(k))

(* A question is removed with its reply. *)
LEMMA PairRemoved ==
  ASSUME NEW c, NEW l \in Lists(c), NEW p \in Nat, 1 <= p, p < Len(l)
  PROVE  RemoveAt(RemoveAt(l, p), p) \in Lists(c) /\ Thinned(l, RemoveAt(RemoveAt(l, p), p))
<1>1. Len(l) \in Nat /\ p \in 1..Len(l)
  BY DEF Lists
<1> DEFINE k == RemoveAt(l, p)
<1>2. /\ k \in Lists(c) /\ Len(k) = Len(l) - 1
      /\ \A i \in 1..(Len(l) - 1) : k[i] = IF i < p THEN l[i] ELSE l[i + 1]
  BY <1>1, RemoveAtIs
<1> HIDE DEF k
<1>3. p \in 1..Len(k)
  BY <1>1, <1>2
<1> DEFINE h == RemoveAt(k, p)
<1>4. /\ h \in Lists(c) /\ Len(h) = Len(k) - 1
      /\ \A i \in 1..(Len(k) - 1) : h[i] = IF i < p THEN k[i] ELSE k[i + 1]
  BY <1>2, <1>3, RemoveAtIs
<1> HIDE DEF h
<1>5. ASSUME NEW m \in 1..Len(h)
      PROVE  \E i \in 1..Len(l) : h[m] = l[i] /\ (i = Len(l) => m = Len(h))
  <2>1. CASE m < p
    <3>1. h[m] = l[m] /\ m \in 1..Len(l) /\ m # Len(l)
      BY <2>1, <1>1, <1>2, <1>4
    <3> QED
      BY <3>1
  <2>2. CASE ~ (m < p)
    <3>1. h[m] = k[m + 1]
      BY <2>2, <1>1, <1>2, <1>4
    <3>2. k[m + 1] = l[m + 2] /\ m + 2 \in 1..Len(l) /\ (m + 2 = Len(l) => m = Len(h))
      BY <2>2, <1>1, <1>2, <1>4
    <3> QED
      BY <3>1, <3>2
  <2> QED
    BY <2>1, <2>2
<1> QED
  BY <1>4, <1>5 DEF Thinned, k, h

(* Where a message is. *)
LEMMA IndexIs ==
  ASSUME NEW c, messages \in Lists(c), NEW t
  PROVE  /\ IndexOfMessage(t) \in Nat /\ IndexOfMessage(t) <= Len(messages)
         /\ (\E i \in 1..Len(messages) : messages[i].id = t.id) => 1 <= IndexOfMessage(t)
<1> DEFINE A == {i \in 1..Len(messages) : messages[i] = t}
           B == {i \in 1..Len(messages) : messages[i].id = t.id}
           a == IF A # {} THEN Min(A) ELSE 0
           b == IF B # {} THEN Min(B) ELSE 0
<1>1. IndexOfMessage(t) = IF a # 0 THEN a ELSE b
  BY DEF IndexOfMessage, SelectInSeq
<1>2. Len(messages) \in Nat
  BY DEF Lists
<1>3. /\ A # {} => Min(A) \in A
      /\ B # {} => Min(B) \in B
  <2>1. A \subseteq Nat /\ B \subseteq Nat
    OBVIOUS
  <2> HIDE DEF A, B
  <2> QED
    BY <2>1, MinIn
<1>4. /\ a \in Nat /\ a <= Len(messages) /\ b \in Nat /\ b <= Len(messages)
      /\ B # {} => b # 0
  BY <1>2, <1>3
<1>5. (\E i \in 1..Len(messages) : messages[i].id = t.id) => B # {}
  OBVIOUS
<1> HIDE DEF a, b, A, B
<1> QED
  BY <1>1, <1>2, <1>4, <1>5

(* The question to which a message answers. *)
LEMMA QuestionIs ==
  ASSUME NEW c, messages \in Lists(c), NEW i \in DOMAIN messages
  PROVE  LET q == SelectLastInSubSeq(messages, 1, i, LAMBDA m : m.role = "user")
         IN q # 0 => (q \in Nat /\ 1 <= q /\ q <= Len(messages))
<1> DEFINE I == {j \in 1..i : messages[j].role = "user"}
           q == IF I # {} THEN Max(I) ELSE 0
<1>1. Len(messages) \in Nat /\ i \in Nat /\ i <= Len(messages)
  BY DEF Lists
<1>2. SelectLastInSubSeq(messages, 1, i, LAMBDA m : m.role = "user") = q
  BY DEF SelectLastInSubSeq
<1>3. I \subseteq 1..i
  OBVIOUS
<1>4. I # {} => Max(I) \in 1..i
  <2> HIDE DEF I
  <2> QED
    BY <1>1, <1>3, MaxIn
<1> HIDE DEF I
<1>5. q # 0 => (q \in Nat /\ 1 <= q /\ q <= Len(messages))
  BY <1>1, <1>4
<1> QED
  BY <1>2, <1>5

-----------------------------------------------------------------------------
(* The state of the requests. *)

(* A request ends. *)
LEMMA NetEnds ==
  ASSUME NEW n, NEW rf, NEW nx, NetInv(n, rf, nx), NEW r \in Requests, NEW s \in {"ended", "answered"},
         IF s = "answered" THEN n[r] = "fetch" ELSE n[r] = "sse"
  PROVE  /\ NetInv([n EXCEPT ![r] = s], rf, nx) /\ NetInv([n EXCEPT ![r] = s], 0, nx)
         /\ Running([n EXCEPT ![r] = s]) = Running(n) \ {r}
         /\ \A q \in Requests : q # r => [n EXCEPT ![r] = s][q] = n[q]
         /\ [n EXCEPT ![r] = s][r] = s
<1> DEFINE d == [n EXCEPT ![r] = s]
<1>1. /\ d \in [Requests -> {"idle", "sse", "fetch", "ended", "answered"}] /\ d[r] = s
      /\ \A q \in Requests : q # r => d[q] = n[q]
  BY DEF NetInv
<1> HIDE DEF d
<1>2. PICK k \in 0..MaxRequests : Sent(n, k) /\ nx <= 4 + 3 * k
  BY DEF NetInv
<1>3. Sent(d, k)
  BY <1>1, <1>2 DEF Sent
<1>4. Running(d) = Running(n) \ {r}
  BY <1>1 DEF Running
<1>5. rf # 0 => (rf \in Requests /\ d[rf] \in {"sse", "ended"})
  BY <1>1, PlaygroundAssumption DEF NetInv, Requests, PlaygroundAssumption
<1>6. NetInv(d, rf, nx) /\ NetInv(d, 0, nx)
  BY <1>1, <1>2, <1>3, <1>5, PlaygroundAssumption DEF NetInv, PlaygroundAssumption
<1> QED
  BY <1>1, <1>4, <1>6 DEF d

(* The next request is sent. *)
SentNet(n, r, stream) == [n EXCEPT ![r] = IF stream THEN "sse" ELSE "fetch"]
SentRef(rf, r, stream) == IF stream THEN r ELSE rf
AfterSend(n, rf, d, new, nx, r) ==
    /\ NetInv(d, new, nx)
    /\ Running(d) = Running(n) \cup {r}
    /\ \A q \in Requests : q # r => d[q] = n[q]
    /\ n[r] = "idle" /\ (d[r] = "sse" => new = r)

LEMMA NetSends ==
  ASSUME NEW n, NEW rf, NEW nx, NetInv(n, rf, nx), NEW k, Sent(n, k), nx <= 4 + 3 * k,
         k + 1 \in Requests, NEW stream \in BOOLEAN, NEW i \in 1..3
  PROVE  AfterSend(n, rf, SentNet(n, k + 1, stream), SentRef(rf, k + 1, stream), nx + i, k + 1)
<1> DEFINE d == SentNet(n, k + 1, stream)
           new == SentRef(rf, k + 1, stream)
<1>1. /\ d \in [Requests -> {"idle", "sse", "fetch", "ended", "answered"}]
      /\ d[k + 1] \in {"sse", "fetch"} /\ (d[k + 1] = "sse" <=> stream)
      /\ \A q \in Requests : q # k + 1 => d[q] = n[q]
  BY DEF NetInv, SentNet
<1>2. k \in Nat /\ k + 1 \in 0..MaxRequests /\ n[k + 1] = "idle"
  BY PlaygroundAssumption DEF Sent, Requests, NetInv, PlaygroundAssumption
<1>3. Sent(d, k + 1)
  BY <1>1, <1>2, PlaygroundAssumption DEF Sent, Requests, PlaygroundAssumption
<1>4. Running(d) = Running(n) \cup {k + 1}
  BY <1>1 DEF Running
<1>5. nx + i \in Nat /\ nx + i <= 4 + 3 * (k + 1)
  BY <1>2 DEF NetInv
<1>6. new \in 0..MaxRequests /\ (new # 0 => d[new] \in {"sse", "ended"}) /\ (stream => new = k + 1)
  BY <1>1, <1>2, PlaygroundAssumption DEF NetInv, Requests, PlaygroundAssumption, SentRef
<1> HIDE DEF d, new
<1>7. NetInv(d, new, nx + i)
  BY <1>1, <1>2, <1>3, <1>5, <1>6 DEF NetInv
<1>8. AfterSend(n, rf, d, new, nx + i, k + 1)
  BY <1>1, <1>2, <1>4, <1>6, <1>7 DEF AfterSend
<1> QED
  BY <1>8 DEF d, new

(* The stream that the page knows is closed. *)
StoppedNet(n, rf) == IF rf # 0 THEN [n EXCEPT ![rf] = "ended"] ELSE n

LEMMA NetStops ==
  ASSUME NEW n, NEW rf, NEW nx, NetInv(n, rf, nx)
  PROVE  /\ NetInv(StoppedNet(n, rf), 0, nx)
         /\ \A q \in Requests : n[q] = "answered" => StoppedNet(n, rf)[q] = "answered"
         /\ \A q \in Running(StoppedNet(n, rf)) :
              q \in Running(n) /\ StoppedNet(n, rf)[q] = n[q] /\ q # rf
<1> DEFINE d == StoppedNet(n, rf)
<1>1. rf # 0 => (rf \in Requests /\ n[rf] \in {"sse", "ended"})
  BY PlaygroundAssumption DEF NetInv, Requests, PlaygroundAssumption
<1>2. /\ d \in [Requests -> {"idle", "sse", "fetch", "ended", "answered"}]
      /\ \A q \in Requests : IF q = rf THEN d[q] = "ended" ELSE d[q] = n[q]
  BY <1>1, PlaygroundAssumption DEF NetInv, Requests, PlaygroundAssumption, StoppedNet
<1>3. PICK k \in 0..MaxRequests : Sent(n, k) /\ nx <= 4 + 3 * k
  BY DEF NetInv
<1> HIDE DEF d
<1>4. Sent(d, k)
  BY <1>1, <1>2, <1>3 DEF Sent
<1>5. NetInv(d, 0, nx)
  BY <1>2, <1>3, <1>4, PlaygroundAssumption DEF NetInv, PlaygroundAssumption
<1>6. /\ \A q \in Requests : n[q] = "answered" => d[q] = "answered"
      /\ \A q \in Running(d) : q \in Running(n) /\ d[q] = n[q] /\ q # rf
  <2>1. 0 \notin Requests
    BY PlaygroundAssumption DEF Requests, PlaygroundAssumption
  <2> QED
    BY <2>1, <1>1, <1>2 DEF Running
<1> QED
  BY <1>5, <1>6 DEF d

(* A reload ends every request. *)
ReloadedNet(n) == [r \in Requests |-> IF r \in Running(n) THEN "ended" ELSE n[r]]

LEMMA NetReloads ==
  ASSUME NEW n, NEW rf, NEW nx, NetInv(n, rf, nx)
  PROVE  NetInv(ReloadedNet(n), 0, 4) /\ Running(ReloadedNet(n)) = {}
<1> DEFINE d == ReloadedNet(n)
<1>1. /\ d \in [Requests -> {"idle", "sse", "fetch", "ended", "answered"}]
      /\ \A r \in Requests : d[r] = IF r \in Running(n) THEN "ended" ELSE n[r]
  BY DEF NetInv, ReloadedNet
<1>2. PICK k \in 0..MaxRequests : Sent(n, k)
  BY DEF NetInv
<1> HIDE DEF d
<1>3. Sent(d, k) /\ Running(d) = {}
  BY <1>1, <1>2 DEF Sent, Running
<1>4. NetInv(d, 0, 4)
  BY <1>1, <1>2, <1>3, PlaygroundAssumption DEF NetInv, PlaygroundAssumption
<1> QED
  BY <1>3, <1>4 DEF d

-----------------------------------------------------------------------------
(* TypeInv is inductive. *)

(* The constants of the model are lists of messages. *)
LEMMA ConstantsOK ==
  ASSUME PlaygroundAssumption, NEW c \in Nat
  PROVE  /\ NoMessage \in Msg(c) /\ NoList \in Lists(c) /\ <<>> \in Lists(c)
         /\ NoDialog \in Dialogs(c) /\ DialogOK(NoDialog) /\ NoDialog.kind = "none"
         /\ DefaultMessages \in Lists(c) /\ Imported \in Lists(c)
<1>1. 0 \in 0..(4 + 3 * MaxRequests) /\ 2 \in 0..(4 + 3 * MaxRequests) /\ 3 \in 0..(4 + 3 * MaxRequests)
      /\ 4 \in 0..(4 + 3 * MaxRequests) /\ 0 \in 0..MaxRequests /\ "none" \in Statuses
  BY DEF PlaygroundAssumption, Statuses
<1>2. /\ NoMessage \in Msg(c)
      /\ createMessage(2, "user", "none", 0) \in Msg(c)
      /\ createMessage(3, "assistant", "none", 0) \in Msg(c)
      /\ createMessage(4, "user", "none", 0) \in Msg(c)
  BY <1>1, CreateIs DEF NoMessage
<1>3. NoList \in Lists(c) /\ <<>> \in Lists(c) /\ DefaultMessages \in Lists(c) /\ Imported \in Lists(c)
  BY <1>2 DEF NoList, Lists, DefaultMessages, Imported
<1>4. NoDialog \in Dialogs(c) /\ DialogOK(NoDialog) /\ NoDialog.kind = "none"
  BY <1>3 DEF NoDialog, Dialogs, DialogOK
<1> QED
  BY <1>2, <1>3, <1>4

(* The page when it is first opened. *)
LEMMA TypeInit == ASSUME Init PROVE TypeInv
<1> USE PlaygroundAssumption
<1>1. /\ NoMessage \in Msg(0) /\ NoList \in Lists(0) /\ <<>> \in Lists(0)
      /\ NoDialog \in Dialogs(0) /\ DialogOK(NoDialog) /\ DefaultMessages \in Lists(0)
  BY ConstantsOK
<1>2. NetInv(net, ref, nextId)
  <2>1. Sent(net, 0)
    BY DEF Init, Sent, Requests, PlaygroundAssumption
  <2> QED
    BY <2>1 DEF Init, NetInv, PlaygroundAssumption
<1>3. <<>> \in Seq(Lists(0)) /\ <<>> \in Seq({"send", "edited", "defaults"})
  OBVIOUS
<1>4. 0 \in 0..MaxChanges /\ 0 \in 0..MaxReloads
  BY DEF PlaygroundAssumption
<1> QED
  BY <1>1, <1>2, <1>3, <1>4 DEF Init, TypeInv

(* The end of a message, as the stream handlers reach it. *)
LEMMA TypeComplete ==
  ASSUME NEW c, NEW l \in Lists(c), saves \in Seq(Lists(c)), NEW s \in {"complete", "error"},
         Complete(l, s)
  PROVE  messages' \in Lists(c) /\ saves' \in Seq(Lists(c)) /\ broken' \in BOOLEAN
<1>1. completeMessage(l, s) \in Lists(c)
  BY CompleteIs
<1>2. Append(saves, completeMessage(l, s)) \in Seq(Lists(c))
  BY <1>1, AppendIs
<1> QED
  BY <1>1, <1>2 DEF Complete

(* What the network reports. *)
LEMMA TypeNetwork ==
  ASSUME TypeInv, NEW r \in Requests, NetworkEvent(r)
  PROVE  TypeInv'
<1>0. messages \in Lists(changes) /\ saves \in Seq(Lists(changes)) /\ NetInv(net, ref, nextId)
  BY DEF TypeInv
<1>1. streamMessageUpdate(messages, r) \in Lists(changes)
  BY <1>0, StreamIs
<1>2. CASE SseChunk(r)
  BY <1>1, <1>2 DEF TypeInv, SseChunk
<1>3. CASE SseDone(r)
  <2>1. messages' \in Lists(changes) /\ saves' \in Seq(Lists(changes)) /\ broken' \in BOOLEAN
    BY <1>0, <1>3, TypeComplete DEF SseDone
  <2>2. NetInv(net', ref', nextId')
    BY <1>0, <1>3, NetEnds DEF SseDone
  <2> QED
    BY <1>3, <2>1, <2>2 DEF TypeInv, SseDone
<1>4. CASE SseParseError(r)
  <2>1. messages' \in Lists(changes) /\ saves' \in Seq(Lists(changes)) /\ broken' \in BOOLEAN
    BY <1>0, <1>1, <1>4, TypeComplete DEF SseParseError
  <2> QED
    BY <1>4, <2>1 DEF TypeInv, SseParseError
<1>5. CASE SseError(r)
  <2>1. messages' \in Lists(changes) /\ saves' \in Seq(Lists(changes)) /\ broken' \in BOOLEAN
    BY <1>0, <1>1, <1>5, TypeComplete DEF SseError
  <2>2. NetInv(net', ref', nextId')
    BY <1>0, <1>5, NetEnds DEF SseError
  <2> QED
    BY <1>5, <2>1, <2>2 DEF TypeInv, SseError
<1>6. CASE SseHttpError(r)
  <2>1. messages' \in Lists(changes) /\ saves' \in Seq(Lists(changes)) /\ broken' \in BOOLEAN
    BY <1>0, <1>1, <1>6, TypeComplete DEF SseHttpError
  <2>2. NetInv(net', ref', nextId')
    BY <1>0, <1>6, NetEnds DEF SseHttpError
  <2> QED
    BY <1>6, <2>1, <2>2 DEF TypeInv, SseHttpError
<1>7. CASE SseTruncated(r)
  <2>2. NetInv(net', ref', nextId')
    BY <1>0, <1>7, NetEnds DEF SseTruncated
  <2> QED
    BY <1>7, <2>2 DEF TypeInv, SseTruncated
<1>8. CASE FetchAnswered(r)
  <2>1. messages' \in Lists(changes)
    <3>1. ASSUME NEW s \in {"complete", "error"}, messages # <<>>, Last(messages).status = "loading"
          PROVE  Append(Front(messages), [Last(messages) EXCEPT !.status = s, !.from = {r}]) \in Lists(changes)
      BY <1>0, <3>1, AnsweredIs DEF Filled
    <3> QED
      BY <1>0, <1>8, <3>1 DEF FetchAnswered
  <2>2. NetInv(net', ref', nextId')
    BY <1>0, <1>8, NetEnds DEF FetchAnswered
  <2> QED
    BY <1>8, <2>1, <2>2 DEF TypeInv, FetchAnswered
<1> QED
  BY <1>2, <1>3, <1>4, <1>5, <1>6, <1>7, <1>8 DEF NetworkEvent

(* A request that is sent: it is the next one, and what it adds to the list. *)
LEMMA TypeSend ==
  ASSUME PlaygroundAssumption, TypeInv, NewRequest \in Requests,
         NEW stream \in Streams, sendRequest(NewRequest, stream),
         NEW i \in 1..3, nextId' = nextId + i
  PROVE  /\ NetInv(net', ref', nextId')
         /\ Running(net') = Running(net) \cup {NewRequest}
         /\ \A q \in Requests : net[q] = "answered" => net'[q] = "answered"
         /\ net'[NewRequest] = "sse" => ref' = NewRequest
         /\ \A q \in Running(net) : net'[q] = net[q]
         /\ NewRequest \in 1..MaxRequests /\ net[NewRequest] = "idle"
         /\ nextId \in 0..(4 + 3 * MaxRequests) /\ nextId + 1 \in 0..(4 + 3 * MaxRequests)
         /\ nextId + 2 \in 0..(4 + 3 * MaxRequests)
<1>1. PICK k \in 0..MaxRequests : Sent(net, k) /\ nextId <= 4 + 3 * k
  BY DEF TypeInv, NetInv
<1>2. k \in Nat /\ NewRequest = k + 1
  BY <1>1, NewRequestIs DEF PlaygroundAssumption
<1>3. NetInv(net, ref, nextId) /\ stream \in BOOLEAN /\ k + 1 \in Requests
  BY <1>2 DEF TypeInv, PlaygroundAssumption
<1> DEFINE d == SentNet(net, k + 1, stream)
           new == SentRef(ref, k + 1, stream)
<1>4. net' = d /\ ref' = new
  BY <1>2 DEF sendRequest, SentNet, SentRef
<1>0. AfterSend(net, ref, d, new, nextId + i, k + 1)
  BY <1>1, <1>3, NetSends
<1> HIDE DEF d, new
<1>5. /\ NetInv(d, new, nextId + i)
      /\ Running(d) = Running(net) \cup {k + 1}
      /\ \A q \in Requests : q # k + 1 => d[q] = net[q]
      /\ net[k + 1] = "idle" /\ (d[k + 1] = "sse" => new = k + 1)
  BY <1>0 DEF AfterSend
<1>6. \A q \in Requests : net[q] = "answered" => d[q] = "answered"
  BY <1>5
<1>7. \A q \in Running(net) : d[q] = net[q]
  BY <1>5 DEF Running
<1>8. /\ nextId \in 0..(4 + 3 * MaxRequests) /\ nextId + 1 \in 0..(4 + 3 * MaxRequests)
      /\ nextId + 2 \in 0..(4 + 3 * MaxRequests)
  BY <1>1, <1>2, <1>3 DEF NetInv, Requests, PlaygroundAssumption
<1> QED
  BY <1>2, <1>3, <1>4, <1>5, <1>6, <1>7, <1>8 DEF Requests

(* The question and the reply that onMessageSend adds. *)
Question(r, nx) == createMessage(nx + 2, "user", "none", r)
Reply(r, nx) == createMessage(nx, "assistant", "loading", r)

LEMMA SendAdds ==
  ASSUME NEW c, NEW l \in Lists(c), NEW a \in Msg(c), NEW b \in Msg(c)
  PROVE  /\ l \o <<a, b>> \in Lists(c) /\ Len(l \o <<a, b>>) = Len(l) + 2
         /\ (l \o <<a, b>>)[Len(l) + 1] = a /\ (l \o <<a, b>>)[Len(l) + 2] = b
         /\ \A i \in 1..Len(l) : (l \o <<a, b>>)[i] = l[i]
<1>1. <<a, b>> \in Seq(Msg(c)) /\ Len(<<a, b>>) = 2 /\ l \in Seq(Msg(c)) /\ Len(l) \in Nat
  BY DEF Lists
<1> DEFINE B == <<a, b>>
<1>2. B[1] = a /\ B[2] = b /\ B \in Seq(Msg(c)) /\ Len(B) = 2
  BY <1>1
<1> HIDE DEF B
<1>3. /\ l \o B \in Seq(Msg(c)) /\ Len(l \o B) = Len(l) + Len(B)
      /\ \A i \in 1..(Len(l) + Len(B)) : (l \o B)[i] = IF i <= Len(l) THEN l[i] ELSE B[i - Len(l)]
  BY <1>1, <1>2, ConcatIs
<1>4. /\ Len(l \o B) = Len(l) + 2 /\ (l \o B)[Len(l) + 1] = a /\ (l \o B)[Len(l) + 2] = b
      /\ \A i \in 1..Len(l) : (l \o B)[i] = l[i]
  BY <1>1, <1>2, <1>3
<1> QED
  BY <1>3, <1>4 DEF Lists, B

(* onMessageSend: the type of what it changes. *)
LEMMA TypeMessageSend ==
  ASSUME TypeInv, onMessageSend
  PROVE  /\ messages' \in Lists(changes) /\ saves' \in Seq(Lists(changes)) /\ NetInv(net', ref', nextId')
         /\ messages' = messages \o <<Question(NewRequest, nextId), Reply(NewRequest, nextId + 1)>>
         /\ saves' = Append(saves, messages')
         /\ Question(NewRequest, nextId) \in Msg(changes) /\ Reply(NewRequest, nextId + 1) \in Msg(changes)
         /\ Running(net') = Running(net) \cup {NewRequest}
         /\ \A q \in Requests : net[q] = "answered" => net'[q] = "answered"
         /\ net'[NewRequest] = "sse" => ref' = NewRequest
         /\ \A q \in Running(net) : net'[q] = net[q]
<1> USE PlaygroundAssumption
<1>1. PICK stream \in Streams : sendRequest(NewRequest, stream)
  BY DEF onMessageSend
<1>2. NewRequest \in Requests /\ nextId' = nextId + 3 /\ 3 \in 1..3
  BY DEF onMessageSend
<1>3. /\ NetInv(net', ref', nextId')
      /\ Running(net') = Running(net) \cup {NewRequest}
      /\ \A q \in Requests : net[q] = "answered" => net'[q] = "answered"
      /\ net'[NewRequest] = "sse" => ref' = NewRequest
      /\ \A q \in Running(net) : net'[q] = net[q]
      /\ NewRequest \in 1..MaxRequests
      /\ nextId + 1 \in 0..(4 + 3 * MaxRequests) /\ nextId + 2 \in 0..(4 + 3 * MaxRequests)
  BY <1>1, <1>2, TypeSend
<1>4. changes \in Nat /\ messages \in Lists(changes) /\ saves \in Seq(Lists(changes))
  BY DEF TypeInv, PlaygroundAssumption
<1>5. Question(NewRequest, nextId) \in Msg(changes) /\ Reply(NewRequest, nextId + 1) \in Msg(changes)
  <2>1. NewRequest \in 0..MaxRequests /\ "none" \in Statuses /\ "loading" \in Statuses
    BY <1>3 DEF Statuses, Generating, PlaygroundAssumption
  <2> QED
    BY <1>3, <1>4, <2>1, CreateIs DEF Question, Reply
<1>6. /\ messages' = messages \o <<Question(NewRequest, nextId), Reply(NewRequest, nextId + 1)>>
      /\ saves' = Append(saves, messages')
  BY DEF onMessageSend, Question, Reply
<1>7. messages' \in Lists(changes)
  BY <1>4, <1>5, <1>6, SendAdds
<1>8. saves' \in Seq(Lists(changes))
  BY <1>4, <1>6, <1>7, AppendIs
<1> QED
  BY <1>3, <1>5, <1>6, <1>7, <1>8

(* The reply to an edited question. *)
LEMMA TypeEditedSend ==
  ASSUME TypeInv, NewRequest \in Requests,
         messages' = Append(messages, createMessage(nextId, "assistant", "loading", NewRequest)),
         nextId' = nextId + 1, \E stream \in Streams : sendRequest(NewRequest, stream)
  PROVE  /\ messages' \in Lists(changes) /\ NetInv(net', ref', nextId')
         /\ messages' = Append(messages, Reply(NewRequest, nextId))
         /\ Reply(NewRequest, nextId) \in Msg(changes)
         /\ Running(net') = Running(net) \cup {NewRequest}
         /\ \A q \in Requests : net[q] = "answered" => net'[q] = "answered"
         /\ net'[NewRequest] = "sse" => ref' = NewRequest
         /\ \A q \in Running(net) : net'[q] = net[q]
<1> USE PlaygroundAssumption
<1>1. PICK stream \in Streams : sendRequest(NewRequest, stream)
  OBVIOUS
<1>2. 1 \in 1..3
  OBVIOUS
<1>3. /\ NetInv(net', ref', nextId')
      /\ Running(net') = Running(net) \cup {NewRequest}
      /\ \A q \in Requests : net[q] = "answered" => net'[q] = "answered"
      /\ net'[NewRequest] = "sse" => ref' = NewRequest
      /\ \A q \in Running(net) : net'[q] = net[q]
      /\ NewRequest \in 1..MaxRequests
      /\ nextId \in 0..(4 + 3 * MaxRequests)
  BY <1>1, <1>2, TypeSend
<1>4. changes \in Nat /\ messages \in Seq(Msg(changes))
  BY DEF TypeInv, PlaygroundAssumption, Lists
<1>5. Reply(NewRequest, nextId) \in Msg(changes)
  <2>1. NewRequest \in 0..MaxRequests /\ "loading" \in Statuses
    BY <1>3 DEF Statuses, Generating, PlaygroundAssumption
  <2> QED
    BY <1>3, <1>4, <2>1, CreateIs DEF Reply
<1>6. messages' = Append(messages, Reply(NewRequest, nextId))
  BY DEF Reply
<1>7. messages' \in Lists(changes)
  BY <1>4, <1>5, <1>6, AppendIs DEF Lists
<1> QED
  BY <1>3, <1>5, <1>6, <1>7

(* Timers. *)
LEMMA TypeTimer ==
  ASSUME TypeInv, SaveTimer \/ SendTimer \/ DefaultsTimer
  PROVE  TypeInv'
<1> USE PlaygroundAssumption
<1>1. CASE SaveTimer
  <2>1. saves \in Seq(Lists(changes)) /\ saves # <<>>
    BY <1>1 DEF SaveTimer, TypeInv
  <2>2. Head(saves) \in Lists(changes) /\ Tail(saves) \in Seq(Lists(changes))
    BY <2>1
  <2> QED
    BY <1>1, <2>2 DEF SaveTimer, TypeInv
<1>2. CASE SendTimer
  <2>1. timers' \in Seq({"send", "edited", "defaults"})
    BY <1>2 DEF SendTimer, TypeInv
  <2>2. CASE onMessageSend
    BY <1>2, <2>1, <2>2, TypeMessageSend DEF SendTimer, TypeInv
  <2>3. CASE ~ onMessageSend
    <3>1. saves' = saves /\ messages' \in Lists(changes) /\ NetInv(net', ref', nextId')
      BY <1>2, <2>3, TypeEditedSend DEF SendTimer
    <3> QED
      BY <1>2, <2>1, <3>1 DEF SendTimer, TypeInv
  <2> QED
    BY <2>2, <2>3
<1>3. CASE DefaultsTimer
  <2>1. timers' \in Seq({"send", "edited", "defaults"})
    <3> DEFINE I == {i \in 1..Len(timers) : timers[i] = "defaults"}
    <3>1. timers \in Seq({"send", "edited", "defaults"}) /\ Len(timers) \in Nat /\ I # {} /\ I \subseteq Nat
      BY <1>3 DEF TypeInv, DefaultsTimer, Contains
    <3>2. Min(I) \in I
      <4> HIDE DEF I
      <4> QED
        BY <3>1, MinIn
    <3>3. timers' = RemoveAt(timers, Min(I))
      BY <1>3, <3>1 DEF DefaultsTimer, RemoveFirst, SelectInSeq
    <3>4. Min(I) \in 1..Len(timers)
      BY <3>2
    <3> HIDE DEF I
    <3>5. /\ SubSeq(timers, 1, Min(I) - 1) \in Seq({"send", "edited", "defaults"})
          /\ SubSeq(timers, Min(I) + 1, Len(timers)) \in Seq({"send", "edited", "defaults"})
      BY <3>1, <3>4
    <3> QED
      BY <3>3, <3>5, ConcatIs DEF RemoveAt
  <2>2. DefaultMessages \in Lists(changes)
    BY ConstantsOK DEF TypeInv, PlaygroundAssumption
  <2> QED
    BY <1>3, <2>1, <2>2 DEF DefaultsTimer, TypeInv
<1> QED
  BY <1>1, <1>2, <1>3

(* Clicks that leave the number of changes alone, and the answers to a
   confirmation. *)
LEMMA TypeClick ==
  ASSUME TypeInv, \/ SendClick \/ onStopGenerator \/ DeleteConfirmed \/ DeleteCancelled
                  \/ handleEditCancel \/ EditRegenerate \/ EditKeep \/ handleConfigImport
  PROVE  TypeInv'
<1> USE PlaygroundAssumption
<1>0. /\ changes \in Nat /\ messages \in Lists(changes) /\ saves \in Seq(Lists(changes))
      /\ dialog \in Dialogs(changes) /\ DialogOK(dialog) /\ NetInv(net, ref, nextId)
      /\ timers \in Seq({"send", "edited", "defaults"})
      /\ dialog.list \in Lists(changes) /\ dialog.at \in Nat
  BY DEF TypeInv, PlaygroundAssumption, Dialogs
<1>1. NoDialog \in Dialogs(changes) /\ DialogOK(NoDialog) /\ NoMessage \in Msg(changes)
  BY <1>0, ConstantsOK
<1>2. CASE SendClick
  BY <1>2, TypeMessageSend DEF SendClick, TypeInv
<1>3. CASE onStopGenerator
  <2>1. messages # <<>>
    BY <1>3 DEF onStopGenerator, LastIsGenerating
  <2>2. messages' \in Lists(changes) /\ saves' = Append(saves, messages')
    BY <1>0, <1>3, <2>1, EndIs DEF onStopGenerator
  <2>3. saves' \in Seq(Lists(changes))
    BY <1>0, <2>2, AppendIs
  <2>4. NetInv(net', ref', nextId')
    BY <1>0, <1>3, NetStops DEF onStopGenerator, StoppedNet
  <2> QED
    BY <1>3, <2>2, <2>3, <2>4 DEF onStopGenerator, TypeInv
<1>4. CASE DeleteConfirmed
  <2>1. messages' \in Lists(changes) /\ saves' \in Seq(Lists(changes))
    <3> DEFINE t == Head(dialog.list)
               at == IndexOfMessage(t)
               pair == /\ t.role = "user" /\ at < Len(messages)
                       /\ messages[at + 1].role = "assistant"
               list == IF pair THEN RemoveAt(RemoveAt(messages, at), at) ELSE Without(messages, t.id)
    <3>1. IF at = 0 THEN UNCHANGED <<messages, saves>> ELSE messages' = list /\ saves' = Append(saves, list)
      BY <1>4 DEF DeleteConfirmed
    <3>2. at \in Nat /\ at <= Len(messages)
      BY <1>0, IndexIs
    <3>3. ASSUME at # 0 PROVE list \in Lists(changes)
      <4>1. CASE pair
        <5>1. 1 <= at /\ at < Len(messages)
          BY <4>1, <3>2, <3>3
        <5> HIDE DEF at, t
        <5>2. RemoveAt(RemoveAt(messages, at), at) \in Lists(changes)
          BY <1>0, <3>2, <5>1, PairRemoved
        <5> QED
          BY <4>1, <5>2
      <4>2. CASE ~ pair
        <5> HIDE DEF at, t
        <5>1. Without(messages, t.id) \in Lists(changes)
          BY <1>0, WithoutIs
        <5> QED
          BY <4>2, <5>1
      <4> QED
        BY <4>1, <4>2
    <3> HIDE DEF at, list
    <3> QED
      BY <1>0, <3>1, <3>3, AppendIs
  <2> QED
    BY <1>1, <1>4, <2>1 DEF DeleteConfirmed, TypeInv
<1>5. CASE DeleteCancelled
  BY <1>1, <1>5 DEF DeleteCancelled, TypeInv
<1>6. CASE handleEditCancel
  BY <1>1, <1>6 DEF handleEditCancel, TypeInv
<1>7. CASE EditRegenerate
  <2>1. messages' = SubSeq(dialog.list, 1, dialog.at) /\ dialog.at <= Len(dialog.list)
    BY <1>0, <1>7 DEF EditRegenerate, DialogOK, Lists
  <2>2. messages' \in Lists(changes)
    BY <1>0, <2>1, PrefixIs
  <2>3. saves' \in Seq(Lists(changes)) /\ timers' \in Seq({"send", "edited", "defaults"})
    BY <1>0, <1>7, <2>2, AppendIs DEF EditRegenerate
  <2> QED
    BY <1>1, <1>7, <2>2, <2>3 DEF EditRegenerate, TypeInv
<1>8. CASE EditKeep
  <2>1. saves' \in Seq(Lists(changes))
    BY <1>0, <1>8, AppendIs DEF EditKeep
  <2> QED
    BY <1>0, <1>1, <1>8, <2>1 DEF EditKeep, TypeInv
<1>9. CASE handleConfigImport
  BY <1>0, <1>1, <1>9 DEF handleConfigImport, TypeInv
<1> QED
  BY <1>2, <1>3, <1>4, <1>5, <1>6, <1>7, <1>8, <1>9

(* Clicks that are counted as a change. *)
Changing ==
    \/ handleClearMessages \/ handleEditSave \/ handleConfigReset \/ importConfig
    \/ \E i \in DOMAIN messages :
         handleMessageReset(i) \/ handleMessageDelete(i) \/ handleRoleToggle(i)

LEMMA TypeChange ==
  ASSUME TypeInv, Changing
  PROVE  TypeInv'
<1> USE PlaygroundAssumption
<1> DEFINE d == changes + 1
<1>0. /\ changes \in Nat /\ d \in Nat /\ changes <= d
      /\ changes' = d /\ changes' \in 0..MaxChanges
  <2>1. Change
    BY DEF Changing, handleClearMessages, handleEditSave, handleConfigReset, importConfig,
           handleMessageReset, handleMessageDelete, handleRoleToggle
  <2> QED
    BY <2>1 DEF Change, TypeInv, PlaygroundAssumption
<1> HIDE DEF d
<1>1. /\ Msg(changes) \subseteq Msg(d) /\ Lists(changes) \subseteq Lists(d)
      /\ Seq(Lists(changes)) \subseteq Seq(Lists(d)) /\ Dialogs(changes) \subseteq Dialogs(d)
  BY <1>0, AllMonotone
<1>2. /\ messages \in Lists(d) /\ stored \in Lists(d) /\ saves \in Seq(Lists(d))
      /\ editing \in Msg(d) /\ dialog \in Dialogs(d) /\ DialogOK(dialog)
      /\ timers \in Seq({"send", "edited", "defaults"}) /\ NetInv(net, ref, nextId)
      /\ reloads \in 0..MaxReloads /\ broken \in BOOLEAN /\ messages \in Lists(changes)
  BY <1>1 DEF TypeInv
<1>3. /\ NoMessage \in Msg(d) /\ NoList \in Lists(d) /\ <<>> \in Lists(d)
      /\ NoDialog \in Dialogs(d) /\ DialogOK(NoDialog) /\ Imported \in Lists(d)
  BY <1>0, ConstantsOK
<1>4. SUFFICES /\ messages' \in Lists(d) /\ stored' \in Lists(d) /\ saves' \in Seq(Lists(d))
               /\ editing' \in Msg(d) /\ dialog' \in Dialogs(d) /\ DialogOK(dialog')
               /\ timers' \in Seq({"send", "edited", "defaults"}) /\ NetInv(net', ref', nextId')
               /\ reloads' \in 0..MaxReloads /\ broken' \in BOOLEAN
  BY <1>0 DEF TypeInv
<1>5. CASE handleClearMessages
  BY <1>2, <1>3, <1>5, AppendIs DEF handleClearMessages
<1>6. CASE handleEditSave
  <2> DEFINE at == IndexOfMessage(editing)
             list == Edited(messages, editing.id)
             ask == /\ messages[at].role = "user" /\ at < Len(messages)
                    /\ messages[at + 1].role = "assistant"
  <2>1. IF ask THEN /\ dialog' = [kind |-> "edit", list |-> list, at |-> at]
                    /\ UNCHANGED <<messages, saves>>
               ELSE /\ messages' = list /\ saves' = Append(saves, list)
                    /\ UNCHANGED dialog
    BY <1>6 DEF handleEditSave, Edited
  <2>2. list \in Lists(d) /\ Len(list) = Len(messages)
    BY <1>0, <1>2, EditedIs DEF d, Rewritten
  <2>3. at \in Nat /\ 1 <= at
    <3>1. \E i \in 1..Len(messages) : messages[i].id = editing.id
      <4>1. \E i \in DOMAIN messages : messages[i].id = editing.id
        BY <1>6, Zenon DEF handleEditSave
      <4>2. DOMAIN messages = 1..Len(messages)
        BY <1>2 DEF Lists
      <4> QED
        BY <4>1, <4>2, Zenon
    <3> QED
      BY <1>2, <3>1, IndexIs
  <2> HIDE DEF at, list
  <2>4. CASE ask
    <3> DEFINE g == [kind |-> "edit", list |-> list, at |-> at]
    <3>1. g \in Dialogs(d) /\ g.list = list /\ g.at = at /\ g.kind = "edit"
      BY <2>2, <2>3 DEF Dialogs
    <3>2. at < Len(list)
      BY <2>2, <2>4
    <3> HIDE DEF g
    <3>3. DialogOK(g)
      BY <2>3, <3>1, <3>2 DEF DialogOK
    <3>4. dialog' = g /\ messages' = messages /\ saves' = saves
      BY <2>1, <2>4 DEF g
    <3> QED
      BY <1>2, <1>3, <1>6, <3>1, <3>3, <3>4 DEF handleEditSave
  <2>5. CASE ~ ask
    <3>1. messages' = list /\ saves' = Append(saves, list) /\ dialog' = dialog
      BY <2>1, <2>5
    <3> QED
      BY <1>2, <1>3, <1>6, <2>2, <3>1, AppendIs DEF handleEditSave
  <2> QED
    BY <2>4, <2>5
<1>7. CASE handleConfigReset
  <2>1. Append(timers, "defaults") \in Seq({"send", "edited", "defaults"})
    BY <1>2
  <2> QED
    BY <1>2, <1>3, <1>7, <2>1 DEF handleConfigReset
<1>8. CASE importConfig
  <2>1. [kind |-> "import", list |-> Imported, at |-> 0] \in Dialogs(d)
    BY <1>3 DEF Dialogs
  <2>2. DialogOK([kind |-> "import", list |-> Imported, at |-> 0])
    BY DEF DialogOK
  <2> QED
    BY <1>2, <1>3, <1>8, <2>1, <2>2 DEF importConfig
<1>9. ASSUME NEW i \in DOMAIN messages, handleMessageReset(i)
      PROVE  /\ messages' \in Lists(d) /\ stored' \in Lists(d) /\ saves' \in Seq(Lists(d))
             /\ editing' \in Msg(d) /\ dialog' \in Dialogs(d) /\ DialogOK(dialog')
             /\ timers' \in Seq({"send", "edited", "defaults"}) /\ NetInv(net', ref', nextId')
             /\ reloads' \in 0..MaxReloads /\ broken' \in BOOLEAN
  <2> DEFINE q == SelectLastInSubSeq(messages, 1, i, LAMBDA m : m.role = "user")
  <2>1. q # 0 /\ messages' = SubSeq(messages, 1, q - 1)
    BY <1>9 DEF handleMessageReset
  <2>2. q \in Nat /\ 1 <= q /\ q <= Len(messages)
    BY <1>2, <2>1, QuestionIs
  <2> HIDE DEF q
  <2>3. q - 1 \in Nat /\ q - 1 <= Len(messages)
    BY <1>2, <2>2 DEF Lists
  <2>4. messages' \in Lists(d)
    BY <1>2, <2>1, <2>3, PrefixIs
  <2>5. Append(timers, "send") \in Seq({"send", "edited", "defaults"})
    BY <1>2
  <2> QED
    BY <1>2, <1>9, <2>4, <2>5 DEF handleMessageReset
<1>10. ASSUME NEW i \in DOMAIN messages, handleMessageDelete(i)
      PROVE  /\ messages' \in Lists(d) /\ stored' \in Lists(d) /\ saves' \in Seq(Lists(d))
             /\ editing' \in Msg(d) /\ dialog' \in Dialogs(d) /\ DialogOK(dialog')
             /\ timers' \in Seq({"send", "edited", "defaults"}) /\ NetInv(net', ref', nextId')
             /\ reloads' \in 0..MaxReloads /\ broken' \in BOOLEAN
  <2> DEFINE g == [kind |-> "delete", list |-> <<messages[i]>>, at |-> 0]
  <2>1. messages[i] \in Msg(d)
    BY <1>2 DEF Lists
  <2>2. <<messages[i]>> \in Lists(d) /\ <<messages[i]>> # <<>>
    BY <2>1 DEF Lists
  <2>3. g \in Dialogs(d) /\ g.kind = "delete" /\ g.list = <<messages[i]>>
    BY <2>2 DEF Dialogs
  <2>4. dialog' = g
    BY <1>10 DEF handleMessageDelete
  <2> HIDE DEF g
  <2>5. DialogOK(g)
    BY <2>2, <2>3 DEF DialogOK
  <2> QED
    BY <1>2, <1>10, <2>3, <2>4, <2>5 DEF handleMessageDelete
<1>11. ASSUME NEW i \in DOMAIN messages, handleRoleToggle(i)
      PROVE  /\ messages' \in Lists(d) /\ stored' \in Lists(d) /\ saves' \in Seq(Lists(d))
             /\ editing' \in Msg(d) /\ dialog' \in Dialogs(d) /\ DialogOK(dialog')
             /\ timers' \in Seq({"send", "edited", "defaults"}) /\ NetInv(net', ref', nextId')
             /\ reloads' \in 0..MaxReloads /\ broken' \in BOOLEAN
  <2> DEFINE new == IF messages[i].role = "assistant" THEN "system" ELSE "assistant"
             list == Toggled(messages, messages[i].id, new)
  <2>1. new \in {"assistant", "system"} /\ messages' = list /\ saves' = Append(saves, list)
    BY <1>11 DEF handleRoleToggle, Toggled
  <2> HIDE DEF new
  <2>2. list \in Lists(d)
    BY <1>2, <2>1, ToggledIs
  <2> HIDE DEF list
  <2>3. saves' \in Seq(Lists(d))
    BY <1>2, <2>1, <2>2, AppendIs
  <2> QED
    BY <1>2, <1>11, <2>1, <2>2, <2>3 DEF handleRoleToggle
<1> QED
  BY <1>5, <1>6, <1>7, <1>8, <1>9, <1>10, <1>11 DEF Changing

(* The page is opened again. *)
LEMMA TypeReload ==
  ASSUME TypeInv, Reload
  PROVE  TypeInv'
<1> USE PlaygroundAssumption
<1>0. changes \in Nat /\ stored \in Lists(changes) /\ NetInv(net, ref, nextId)
  BY DEF TypeInv, PlaygroundAssumption
<1>1. /\ NoMessage \in Msg(changes) /\ NoDialog \in Dialogs(changes) /\ DialogOK(NoDialog)
      /\ DefaultMessages \in Lists(changes) /\ NoList \in Lists(changes)
  BY <1>0, ConstantsOK
<1>2. PICK list \in Lists(changes) :
        /\ messages' = Repaired(list)
        /\ saves' = IF Repaired(list) # list THEN <<Repaired(list)>> ELSE <<>>
  <2>1. (IF stored' = NoList THEN DefaultMessages ELSE stored') \in Lists(changes)
    BY <1>0, <1>1 DEF Reload
  <2> QED BY <2>1 DEF Reload
<1>3. Repaired(list) \in Lists(changes)
  BY <1>0, <1>1, RepairedIs
<1>4. saves' \in Seq(Lists(changes))
  BY <1>2, <1>3
<1>5. NetInv(net', ref', nextId')
  BY <1>0, NetReloads DEF Reload, ReloadedNet, Live, Running
<1>6. /\ reloads' \in 0..MaxReloads /\ timers' \in Seq({"send", "edited", "defaults"})
      /\ stored' \in Lists(changes)
  BY <1>0, <1>1 DEF Reload, TypeInv, PlaygroundAssumption
<1> QED
  BY <1>1, <1>2, <1>3, <1>4, <1>5, <1>6 DEF Reload, TypeInv

(* The default messages are shown in another language. *)
LEMMA TypeLanguage ==
  ASSUME TypeInv, LanguageChange
  PROVE  TypeInv'
<1> USE PlaygroundAssumption
<1>1. changes \in Nat /\ changes' = changes + 1 /\ changes' \in 0..MaxChanges /\ changes' \in Nat
  BY DEF LanguageChange, Change, TypeInv, PlaygroundAssumption
<1>2. /\ Msg(changes) \subseteq Msg(changes') /\ Lists(changes) \subseteq Lists(changes')
      /\ Seq(Lists(changes)) \subseteq Seq(Lists(changes'))
      /\ Dialogs(changes) \subseteq Dialogs(changes')
  BY <1>1, AllMonotone
<1>3. DefaultMessages \in Lists(changes')
  BY <1>1, ConstantsOK
<1>4. /\ messages' = DefaultMessages
      /\ UNCHANGED <<stored, saves, timers, net, ref, nextId, editing, dialog, broken, reloads>>
  BY DEF LanguageChange
<1> QED
  BY <1>1, <1>2, <1>3, <1>4 DEF TypeInv

(* Every step. *)
LEMMA TypeStep ==
  ASSUME TypeInv, [Next]_vars
  PROVE  TypeInv'
<1>1. CASE UNCHANGED vars
  BY <1>1 DEF vars, TypeInv
<1>2. CASE \E r \in Requests : NetworkEvent(r)
  BY <1>2, TypeNetwork
<1>3. CASE \E i \in DOMAIN messages : MessageAction(i)
  <2>1. CASE \E i \in DOMAIN messages : handleMessageEdit(i)
    <3>1. PICK i \in DOMAIN messages : handleMessageEdit(i)
      BY <2>1
    <3>2. messages[i] \in Msg(changes)
      BY DEF TypeInv, Lists
    <3> QED
      BY <3>1, <3>2 DEF handleMessageEdit, TypeInv
  <2>2. CASE Changing
    BY <2>2, TypeChange
  <2> QED
    BY <1>3, <2>1, <2>2 DEF MessageAction, Changing
<1> QED
  BY <1>1, <1>2, <1>3, TypeTimer, TypeClick, TypeChange, TypeReload, TypeLanguage DEF Next, Changing

(* TypeInv holds in every reachable state. *)
LEMMA TypeInvariant == Spec => []TypeInv
<1>1. Init => TypeInv
  BY TypeInit
<1>2. TypeInv /\ [Next]_vars => TypeInv'
  BY TypeStep
<1> QED
  BY <1>1, <1>2, PTL DEF Spec

(* Whether messages were saved is found out when the page is opened, and kept. *)
LEMMA FreshIs == Spec => [](fresh \in BOOLEAN)
<1>1. Init => fresh \in BOOLEAN
  BY DEF Init
<1>2. fresh \in BOOLEAN /\ [Next]_vars => (fresh \in BOOLEAN)'
  <2> SUFFICES ASSUME fresh \in BOOLEAN, [Next]_vars PROVE fresh' = fresh \/ fresh' \in BOOLEAN
    OBVIOUS
  <2>1. CASE UNCHANGED vars
    BY <2>1 DEF vars
  <2>2. ASSUME NEW r \in Requests, NetworkEvent(r) PROVE fresh' = fresh
    BY <2>2 DEF NetworkEvent, SseChunk, SseDone, SseParseError, SseError, SseHttpError, SseTruncated,
                FetchAnswered
  <2>3. CASE SaveTimer \/ SendTimer \/ DefaultsTimer \/ SendClick \/ onStopGenerator
    BY <2>3 DEF SaveTimer, SendTimer, DefaultsTimer, SendClick, onStopGenerator
  <2>4. ASSUME NEW i \in DOMAIN messages, MessageAction(i) PROVE fresh' = fresh
    BY <2>4 DEF MessageAction, handleMessageReset, handleMessageDelete, handleRoleToggle,
                handleMessageEdit
  <2>5. CASE \/ handleClearMessages \/ handleEditSave \/ handleConfigReset \/ importConfig
             \/ handleConfigImport \/ LanguageChange
    BY <2>5 DEF handleClearMessages, handleEditSave, handleConfigReset, importConfig,
                handleConfigImport, LanguageChange
  <2>6. CASE DeleteConfirmed \/ DeleteCancelled \/ handleEditCancel \/ EditRegenerate \/ EditKeep
    BY <2>6 DEF DeleteConfirmed, DeleteCancelled, handleEditCancel, EditRegenerate, EditKeep
  <2>7. CASE Reload
    BY <2>7 DEF Reload
  <2> QED
    BY <2>1, <2>2, <2>3, <2>4, <2>5, <2>6, <2>7 DEF Next
<1> QED
  BY <1>1, <1>2, PTL DEF Spec

(* What the page shows, has stored or is about to store consists of messages
   with ids, roles, statuses and request numbers that the page knows, however
   the user, the network and the timers interleave. *)
THEOREM TypeCorrect == Spec => []TypeOK
<1>1. TypeInv /\ fresh \in BOOLEAN => TypeOK
  <2> USE PlaygroundAssumption
  <2>1. SUFFICES ASSUME TypeInv, fresh \in BOOLEAN PROVE TypeOK
    OBVIOUS
  <2>2. Msg(changes) \subseteq Texts
    <3>1. changes \in Nat /\ changes <= MaxChanges
      BY <2>1 DEF TypeInv, PlaygroundAssumption
    <3>2. Msg(changes) \subseteq Msg(MaxChanges)
      BY <3>1, MsgMonotone DEF PlaygroundAssumption
    <3> QED
      BY <3>2 DEF Msg, Texts
  <2>3. \A list \in Lists(changes) : \A i \in DOMAIN list : list[i] \in Texts
    BY <2>2 DEF Lists
  <2>4. \A list \in {messages, stored, dialog.list} \cup ToSet(saves) : list \in Lists(changes)
    BY <2>1 DEF TypeInv, Dialogs, ToSet
  <2>5. ToSet(timers) \subseteq {"send", "edited", "defaults"}
    BY <2>1 DEF TypeInv, ToSet
  <2> QED
    BY <2>1, <2>2, <2>3, <2>4, <2>5 DEF TypeOK, TypeInv, NetInv
<1> QED
  BY <1>1, TypeInvariant, FreshIs, PTL

-----------------------------------------------------------------------------
(* Good lists stay good. *)

(* A chunk for the request whose message is the last one. *)
LEMMA GoodStreamed ==
  ASSUME NEW c, NEW l \in Lists(c), NEW k \in Lists(c), NEW r, Good(l), Streamed(l, k, r),
         l # <<>>, l[Len(l)].of = r, l[Len(l)].status \in Generating
  PROVE  /\ Good(k) /\ k # <<>> /\ k[Len(k)].of = r /\ k[Len(k)].status \in Generating
         /\ \A b, n : Agree(b, l, n) => Agree(b, k, n)
<1>0. Len(l) \in Nat /\ Len(l) >= 1 /\ Len(k) \in Nat
  BY DEF Lists
<1>1. CASE k = l
  BY <1>1
<1>2. CASE k # l
  <2>1. PICK m : /\ LastSet(l, k, m) /\ m.status \in Generating /\ m.of = r
                 /\ m.role = l[Len(l)].role /\ m.from = l[Len(l)].from \cup {r}
    BY <1>2 DEF Streamed
  <2>2. /\ Len(k) = Len(l) /\ k[Len(k)] = m /\ k # <<>>
        /\ \A i \in 1..Len(l) : i < Len(l) => k[i] = l[i]
    BY <1>0, <2>1 DEF LastSet
  <2>3. GoodMsg(m)
    BY <1>0, <2>1 DEF Good, GoodMsg
  <2>4. Good(k)
    BY <1>0, <2>2, <2>3 DEF Good
  <2>5. ASSUME NEW b, NEW n, Agree(b, l, n) PROVE Agree(b, k, n)
    BY <1>0, <2>1, <2>2, <2>5 DEF Agree
  <2> QED
    BY <2>1, <2>2, <2>4, <2>5
<1> QED
  BY <1>1, <1>2

(* The last message ends. *)
LEMMA GoodEnded ==
  ASSUME NEW c, NEW l \in Lists(c), NEW k \in Lists(c), Good(l), Ended(l, k)
  PROVE  Good(k) /\ Settled(k) /\ k # <<>>
<1>1. PICK m : /\ l # <<>> /\ LastSet(l, k, m) /\ m.status \notin Generating
               /\ m.of = l[Len(l)].of /\ m.role = l[Len(l)].role /\ m.from = l[Len(l)].from
  BY DEF Ended
<1>2. Len(l) \in Nat /\ Len(l) >= 1
  BY <1>1 DEF Lists
<1>3. /\ Len(k) = Len(l) /\ k[Len(k)] = m /\ k # <<>>
      /\ \A i \in 1..Len(l) : i < Len(l) => k[i] = l[i]
  BY <1>1, <1>2 DEF LastSet
<1>4. GoodMsg(m)
  BY <1>1, <1>2 DEF Good, GoodMsg
<1> QED
  BY <1>1, <1>2, <1>3, <1>4 DEF Good, Settled

(* The answer of a plain request. *)
LEMMA GoodAnswered ==
  ASSUME NEW c, NEW l \in Lists(c), NEW k \in Lists(c), NEW r \in Requests, Good(l), Answered(l, k, r),
         l # <<>>, l[Len(l)].of = r
  PROVE  /\ Good(k)
         /\ \A b, n : (Agree(b, l, n) /\ n[r] = "answered") => Agree(b, k, n)
<1>0. Len(l) \in Nat /\ Len(l) >= 1 /\ Len(k) \in Nat /\ r # 0
  BY PlaygroundAssumption DEF Lists, Requests, PlaygroundAssumption
<1>1. CASE k = l
  BY <1>1
<1>2. CASE k # l
  <2>1. PICK m : /\ LastSet(l, k, m) /\ m.status \notin Generating /\ m.of = r
                 /\ m.role = l[Len(l)].role /\ m.from = {r}
    BY <1>2 DEF Answered
  <2>2. /\ Len(k) = Len(l) /\ k[Len(k)] = m
        /\ \A i \in 1..Len(l) : i < Len(l) => k[i] = l[i]
    BY <1>0, <2>1 DEF LastSet
  <2>3. GoodMsg(m)
    BY <1>0, <2>1 DEF Good, GoodMsg
  <2>4. Good(k)
    BY <1>0, <2>2, <2>3, <2>1 DEF Good
  <2>5. ASSUME NEW b, NEW n, Agree(b, l, n), n[r] = "answered" PROVE Agree(b, k, n)
    BY <1>0, <2>1, <2>2, <2>5 DEF Agree
  <2> QED
    BY <2>4, <2>5
<1> QED
  BY <1>1, <1>2

(* Roles and texts are changed. *)
LEMMA GoodRewritten ==
  ASSUME NEW l, NEW k, Good(l), Rewritten(l, k)
  PROVE  Good(k) /\ (Settled(l) => Settled(k))
BY DEF Good, GoodMsg, Rewritten, Settled

(* Messages are removed. *)
LEMMA GoodThinned ==
  ASSUME NEW l, NEW k, Good(l), Thinned(l, k)
  PROVE  Good(k) /\ (Settled(l) => Settled(k))
BY DEF Good, Thinned, Settled

(* The end of the list is cut off. *)
LEMMA GoodPrefix ==
  ASSUME NEW c, NEW l \in Lists(c), NEW k \in Nat, k <= Len(l), Good(l), k < Len(l) \/ Settled(l)
  PROVE  Good(SubSeq(l, 1, k)) /\ Settled(SubSeq(l, 1, k))
<1> DEFINE p == SubSeq(l, 1, k)
<1>1. Len(p) = k /\ (\A i \in 1..k : p[i] = l[i]) /\ Len(l) \in Nat
  BY PrefixIs DEF Lists
<1> HIDE DEF p
<1>2. Settled(p)
  BY <1>1 DEF Good, Settled
<1>3. Good(p)
  BY <1>1, <1>2 DEF Good, Settled
<1> QED
  BY <1>2, <1>3 DEF p

(* New messages are good. *)
LEMMA NewGood ==
  ASSUME NEW r, NEW nx
  PROVE  /\ GoodMsg(Question(r, nx)) /\ Question(r, nx).status \notin Generating
         /\ GoodMsg(Reply(r, nx)) /\ Reply(r, nx).status \in Generating /\ Reply(r, nx).of = r
BY DEF GoodMsg, Question, Reply, createMessage, Generating

(* A question and its reply are added to a list that is not being generated. *)
EndsWith(k, r) == Good(k) /\ k # <<>> /\ k[Len(k)].of = r /\ k[Len(k)].status \in Generating

LEMMA GoodSent ==
  ASSUME NEW c, NEW l \in Lists(c), NEW r, NEW nx, NEW q, Good(l), Settled(l),
         Question(r, nx) \in Msg(c), Reply(r, q) \in Msg(c)
  PROVE  EndsWith(l \o <<Question(r, nx), Reply(r, q)>>, r)
<1> DEFINE k == l \o <<Question(r, nx), Reply(r, q)>>
<1>1. Len(l) \in Nat
  BY DEF Lists
<1>2. /\ Len(k) = Len(l) + 2
      /\ k[Len(l) + 1] = Question(r, nx) /\ k[Len(l) + 2] = Reply(r, q)
      /\ \A i \in 1..Len(l) : k[i] = l[i]
  BY SendAdds
<1> HIDE DEF k
<1>3. /\ GoodMsg(Question(r, nx)) /\ Question(r, nx).status \notin Generating
      /\ GoodMsg(Reply(r, q)) /\ Reply(r, q).status \in Generating /\ Reply(r, q).of = r
  BY NewGood
<1>4. ASSUME NEW i \in 1..Len(k)
      PROVE  GoodMsg(k[i]) /\ (k[i].status \in Generating => i = Len(k))
  <2>1. i \in 1..Len(l) \/ i = Len(l) + 1 \/ i = Len(l) + 2
    BY <1>1, <1>2
  <2> QED
    BY <2>1, <1>2, <1>3 DEF Good, Settled
<1>5. k # <<>>
  BY <1>1, <1>2
<1>6. Good(k)
  BY <1>4 DEF Good
<1>7. EndsWith(k, r)
  BY <1>2, <1>3, <1>5, <1>6 DEF EndsWith
<1> QED
  BY <1>7 DEF k

(* A reply is added. *)
LEMMA GoodReply ==
  ASSUME NEW c, NEW l \in Lists(c), NEW r, NEW nx, Good(l), Settled(l), Reply(r, nx) \in Msg(c)
  PROVE  /\ Good(Append(l, Reply(r, nx))) /\ Append(l, Reply(r, nx)) # <<>>
         /\ Append(l, Reply(r, nx))[Len(Append(l, Reply(r, nx)))] = Reply(r, nx)
         /\ \A b, n : Agree(b, l, n) => Agree(b, Append(l, Reply(r, nx)), n)
<1> DEFINE k == Append(l, Reply(r, nx))
<1>1. Len(l) \in Nat /\ l \in Seq(Msg(c))
  BY DEF Lists
<1>2. /\ Len(k) = Len(l) + 1 /\ k[Len(l) + 1] = Reply(r, nx) /\ k # <<>>
      /\ \A i \in 1..Len(l) : k[i] = l[i]
  BY <1>1, AppendIs
<1>3. GoodMsg(Reply(r, nx)) /\ Reply(r, nx).status \in Generating
  BY NewGood
<1> HIDE DEF k
<1>4. Good(k)
  <2>1. ASSUME NEW i \in 1..Len(k)
        PROVE  GoodMsg(k[i]) /\ (k[i].status \in Generating => i = Len(k))
    <3>1. i \in 1..Len(l) \/ i = Len(l) + 1
      BY <1>1, <1>2
    <3> QED
      BY <3>1, <1>2, <1>3 DEF Good, Settled
  <2> QED
    BY <2>1 DEF Good
<1>5. ASSUME NEW b, NEW n, Agree(b, l, n) PROVE Agree(b, k, n)
  <2>1. Len(b) <= Len(k)
    BY <1>1, <1>2, <1>5 DEF Agree
  <2> QED
    BY <2>1, <1>1, <1>2, <1>3, <1>5 DEF Agree
<1> QED
  BY <1>2, <1>4, <1>5 DEF k

(* The lists that the page comes with. *)
LEMMA GoodConstants ==
  /\ Good(<<>>) /\ Settled(<<>>) /\ Good(DefaultMessages) /\ Settled(DefaultMessages)
  /\ Good(Imported) /\ Settled(Imported) /\ Imported # NoList /\ ~ Good(NoList)
BY DEF Good, Settled, GoodMsg, DefaultMessages, Imported, NoList, NoMessage, createMessage, Generating

(* What is saved agrees with itself. *)
LEMMA AgreeSelf == ASSUME NEW c, NEW l \in Lists(c), NEW n PROVE Agree(l, l, n)
BY DEF Agree, Lists

(* An answer stays an answer. *)
LEMMA AgreeLater ==
  ASSUME NEW c, NEW b, NEW l \in Lists(c), NEW n, NEW d, Agree(b, l, n),
         \A q \in Requests : n[q] = "answered" => d[q] = "answered"
  PROVE  Agree(b, l, d)
<1>1. \A i \in 1..Len(l) : l[i].of # 0 => l[i].of \in Requests
  <2>1. \A i \in 1..Len(l) : l[i] \in Msg(c)
    BY DEF Lists
  <2> QED
    BY <2>1, MsgFields, PlaygroundAssumption DEF Requests, PlaygroundAssumption
<1> QED
  BY <1>1 DEF Agree

-----------------------------------------------------------------------------
(* ChatInv is inductive as long as nothing interferes. *)

(* A list that is shown and put on the queue is what a reload will find. *)
LEMMA SavedList ==
  ASSUME NEW c, NEW l, NEW st, NEW sv \in Seq(Lists(c)), NEW g, AllGood(l, st, sv, g),
         NEW x \in Lists(c), Good(x), NEW e, e.kind \in {"edit", "import"} => Good(e.list),
         NEW tm, NEW n
  PROVE  AllGood(x, st, Append(sv, x), e) /\ Saved(x, st, Append(sv, x), tm, n, e)
<1> DEFINE s == Append(sv, x)
<1>1. /\ Len(sv) \in Nat /\ s # <<>> /\ Len(s) = Len(sv) + 1 /\ s[Len(s)] = x
      /\ \A i \in 1..Len(sv) : s[i] = sv[i]
  BY AppendIs
<1> HIDE DEF s
<1>2. \A i \in 1..Len(s) : Good(s[i])
  BY <1>1 DEF AllGood
<1>3. AllGood(x, st, s, e)
  BY <1>2 DEF AllGood
<1>4. Base(st, s) = x
  BY <1>1 DEF Base
<1>5. Saved(x, st, s, tm, n, e)
  BY <1>4, AgreeSelf DEF Saved
<1> QED
  BY <1>3, <1>5 DEF s

(* When no message is being generated, no request is under way. *)
LEMMA SettledIdle ==
  ASSUME NEW c, NEW l \in Lists(c), NEW n, NEW rf, Attached(l, n, rf),
         l = <<>> \/ l[Len(l)].status \notin Generating
  PROVE  Running(n) = {}
BY DEF Attached

(* A good list whose last message is not being generated has none that is. *)
LEMMA LastSettled ==
  ASSUME NEW c, NEW l \in Lists(c), Good(l), l = <<>> \/ l[Len(l)].status \notin Generating
  PROVE  Settled(l)
BY DEF Good, Settled, Lists

(* The actions of a message are off while one is being generated. *)
LEMMA ActionsIdle ==
  ASSUME TypeInv, ChatInv, NEW i, ActionsOn(i)
  PROVE  /\ Settled(messages) /\ Running(net) = {} /\ dialog = NoDialog /\ ~broken
         /\ i \in 1..Len(messages)
<1>1. messages \in Lists(changes) /\ DOMAIN messages = 1..Len(messages) /\ Len(messages) \in Nat
  BY DEF TypeInv, Lists
<1>2. Settled(messages) /\ i \in 1..Len(messages) /\ dialog = NoDialog /\ ~broken
  BY <1>1 DEF ActionsOn, AnyGenerating, Settled, Clickable
<1>3. messages # <<>> => messages[Len(messages)].status \notin Generating
  BY <1>1, <1>2 DEF Settled
<1>4. Running(net) = {}
  BY <1>1, <1>3, SettledIdle DEF ChatInv
<1> QED
  BY <1>2, <1>4

(* What holds while request r is under way. *)
LEMMA UnderWay ==
  ASSUME TypeInv, ChatInv, NEW r \in Requests, net[r] \in {"sse", "fetch"}
  PROVE  /\ messages # <<>> /\ messages[Len(messages)].of = r
         /\ messages[Len(messages)].status \in Generating
         /\ Running(net) = {r} /\ timers = <<>> /\ dialog.kind \notin {"edit", "import"}
         /\ Agree(Base(stored, saves), messages, net)
         /\ net[r] = "sse" => ref = r
<1>1. r \in Running(net)
  BY DEF Running
<1>2. /\ messages # <<>> /\ messages[Len(messages)].of = r
      /\ messages[Len(messages)].status \in Generating
      /\ net[r] = "sse" => ref = r
  BY <1>1 DEF ChatInv, Attached
<1>3. Running(net) = {r}
  BY <1>1, <1>2 DEF ChatInv, Attached
<1>4. timers = <<>>
  BY <1>1 DEF ChatInv, Waiting
<1>5. dialog.kind \notin {"edit", "import"}
  BY <1>1 DEF ChatInv, Asking
<1>6. Agree(Base(stored, saves), messages, net)
  BY <1>4, <1>5 DEF ChatInv, Saved
<1> QED
  BY <1>2, <1>3, <1>4, <1>5, <1>6

(* With no request, no timer and no question about an edit or an import, all
   that is left to show is that the lists are good and saved. *)
LEMMA ChatIdle ==
  ASSUME ~broken', AllGood(messages', stored', saves', dialog'), Running(net') = {}, timers' = <<>>,
         dialog'.kind \notin {"edit", "import"},
         Saved(messages', stored', saves', timers', net', dialog')
  PROVE  ChatInv'
<1>1. Attached(messages', net', ref') /\ Asking(stored', saves', timers', net', dialog')
  BY DEF Attached, Asking
<1>2. Waiting(messages', stored', saves', timers', net')
  BY DEF Waiting
<1> QED
  BY <1>1, <1>2 DEF ChatInv

(* A stream or an error ends the message of its request. *)
LEMMA ChatEnds ==
  ASSUME TypeInv, ChatInv, NEW l \in Lists(changes), Good(l), l # <<>>,
         l[Len(l)].status \in Generating, NEW s \in {"complete", "error"}, Complete(l, s),
         Running(net') = {}, timers = <<>>, dialog.kind \notin {"edit", "import"},
         UNCHANGED <<stored, timers, dialog>>
  PROVE  ChatInv'
<1> DEFINE k == completeMessage(l, s)
<1>1. k \in Lists(changes) /\ CanComplete(l) /\ Ended(l, k)
  BY CompleteIs
<1>2. messages' = k /\ saves' = Append(saves, k) /\ ~broken'
  BY <1>1 DEF Complete
<1> HIDE DEF k
<1>3. Good(k)
  BY <1>1, GoodEnded
<1>4. saves \in Seq(Lists(changes)) /\ AllGood(messages, stored, saves, dialog)
  BY DEF TypeInv, ChatInv
<1>5. /\ AllGood(k, stored, Append(saves, k), dialog)
      /\ Saved(k, stored, Append(saves, k), timers, net', dialog)
  BY <1>1, <1>3, <1>4, SavedList DEF AllGood
<1>6. AllGood(messages', stored', saves', dialog') /\ Saved(messages', stored', saves', timers', net', dialog')
  BY <1>2, <1>5
<1> QED
  BY <1>2, <1>6, ChatIdle

(* The end of the only request under way. *)
LEMMA OneEnds ==
  ASSUME NetInv(net, ref, nextId), NEW r \in Requests, Running(net) = {r},
         NEW s \in {"ended", "answered"}, net' = [net EXCEPT ![r] = s]
  PROVE  /\ Running(net') = {} /\ net'[r] = s
         /\ \A q \in Requests : net[q] = "answered" => net'[q] = "answered"
<1>1. net'[r] = s /\ \A q \in Requests : q # r => net'[q] = net[q]
  BY DEF NetInv
<1>2. net[r] \in {"sse", "fetch"}
  BY DEF Running
<1>3. \A q \in Requests : q # r => net[q] \notin {"sse", "fetch"}
  BY DEF Running
<1>4. Running(net') = {}
  BY <1>1, <1>3 DEF Running
<1> QED
  BY <1>1, <1>2, <1>4

(* What the network reports. *)
LEMMA ChatNetwork ==
  ASSUME TypeInv, TypeInv', cause = {} => ChatInv, NEW r \in Requests, NetworkEvent(r), cause' = {}
  PROVE  ChatInv'
<1>0. cause = {} /\ net[r] \in {"sse", "fetch"}
  BY DEF NetworkEvent, SseChunk, SseDone, SseParseError, SseError, SseHttpError, SseTruncated, FetchAnswered
<1>1. ChatInv /\ messages \in Lists(changes) /\ NetInv(net, ref, nextId)
  BY <1>0 DEF TypeInv
<1>2. /\ messages # <<>> /\ messages[Len(messages)].of = r
      /\ messages[Len(messages)].status \in Generating
      /\ Running(net) = {r} /\ timers = <<>> /\ dialog.kind \notin {"edit", "import"}
      /\ Agree(Base(stored, saves), messages, net)
      /\ net[r] = "sse" => ref = r
  BY <1>0, <1>1, UnderWay
<1>3. Good(messages) /\ ~broken /\ AllGood(messages, stored, saves, dialog)
  BY <1>1 DEF ChatInv, AllGood
<1> DEFINE l == streamMessageUpdate(messages, r)
<1>4. l \in Lists(changes) /\ Streamed(messages, l, r)
  BY <1>1, StreamIs
<1>5. /\ Good(l) /\ l # <<>> /\ l[Len(l)].of = r /\ l[Len(l)].status \in Generating
      /\ \A b, n : Agree(b, messages, n) => Agree(b, l, n)
  <2> HIDE DEF l
  <2> QED
    BY <1>1, <1>2, <1>3, <1>4, GoodStreamed
<1> HIDE DEF l
<1>6. CASE SseChunk(r)
  <2>1. messages' = l /\ UNCHANGED <<stored, saves, timers, net, ref, dialog, broken>>
    BY <1>6 DEF SseChunk, l
  <2>2. AllGood(l, stored, saves, dialog)
    BY <1>3, <1>5 DEF AllGood
  <2>3. Attached(l, net, ref)
    BY <1>2, <1>5 DEF Attached
  <2>4. Agree(Base(stored, saves), l, net)
    BY <1>2, <1>5
  <2>5. Waiting(l, stored, saves, timers, net) /\ Saved(l, stored, saves, timers, net, dialog)
    BY <1>2, <2>4 DEF Waiting, Saved
  <2>6. Asking(stored, saves, timers, net, dialog)
    BY <1>1 DEF ChatInv
  <2> QED
    BY <1>3, <2>1, <2>2, <2>3, <2>5, <2>6 DEF ChatInv
<1>7. CASE SseDone(r)
  <2>1. Complete(messages, "complete") /\ UNCHANGED <<stored, timers, dialog>>
    BY <1>7 DEF SseDone
  <2>2. Running(net') = {}
    BY <1>1, <1>2, <1>7, OneEnds DEF SseDone
  <2> QED
    BY <1>1, <1>2, <1>3, <2>1, <2>2, ChatEnds
<1>8. CASE SseParseError(r)
  BY <1>8 DEF SseParseError
<1>9. CASE SseError(r)
  <2>1. Complete(l, "error") /\ UNCHANGED <<stored, timers, dialog>>
    BY <1>9 DEF SseError, l
  <2>2. Running(net') = {}
    BY <1>1, <1>2, <1>9, OneEnds DEF SseError
  <2> QED
    BY <1>1, <1>2, <1>4, <1>5, <2>1, <2>2, ChatEnds
<1>10. CASE SseHttpError(r)
  <2>1. Complete(l, "error") /\ UNCHANGED <<stored, timers, dialog>>
    BY <1>10 DEF SseHttpError, l
  <2>2. Running(net') = {}
    BY <1>1, <1>2, <1>10, OneEnds DEF SseHttpError
  <2> QED
    BY <1>1, <1>2, <1>4, <1>5, <2>1, <2>2, ChatEnds
<1>11. CASE SseTruncated(r)
  <2>1. UNCHANGED <<messages, stored, saves, timers, dialog, broken>>
    BY <1>11 DEF SseTruncated
  <2>2. Running(net') = {} /\ \A q \in Requests : net[q] = "answered" => net'[q] = "answered"
    BY <1>1, <1>2, <1>11, OneEnds DEF SseTruncated
  <2>3. Agree(Base(stored, saves), messages, net')
    BY <1>1, <1>2, <2>2, AgreeLater
  <2>4. Saved(messages', stored', saves', timers', net', dialog')
    BY <2>1, <2>3 DEF Saved
  <2> QED
    BY <1>2, <1>3, <2>1, <2>2, <2>4, ChatIdle
<1>12. CASE FetchAnswered(r)
  <2>1. UNCHANGED <<stored, saves, timers, dialog, broken>>
    BY <1>12 DEF FetchAnswered
  <2>2. /\ Running(net') = {} /\ net'[r] = "answered"
        /\ \A q \in Requests : net[q] = "answered" => net'[q] = "answered"
    BY <1>1, <1>2, <1>12, OneEnds DEF FetchAnswered
  <2>3. messages' \in Lists(changes) /\ Answered(messages, messages', r)
    <3>1. ASSUME NEW s \in {"complete", "error"}, Last(messages).status = "loading"
          PROVE  /\ Append(Front(messages), [Last(messages) EXCEPT !.status = s, !.from = {r}]) \in Lists(changes)
                 /\ Answered(messages, Append(Front(messages), [Last(messages) EXCEPT !.status = s, !.from = {r}]), r)
      BY <1>1, <1>2, <3>1, AnsweredIs DEF Filled
    <3>2. messages' = messages \/ \E s \in {"complete", "error"} :
            /\ Last(messages).status = "loading"
            /\ messages' = Append(Front(messages), [Last(messages) EXCEPT !.status = s, !.from = {r}])
      BY <1>12 DEF FetchAnswered
    <3> QED
      BY <1>1, <3>1, <3>2 DEF Answered
  <2>4. /\ Good(messages')
        /\ \A b, n : (Agree(b, messages, n) /\ n[r] = "answered") => Agree(b, messages', n)
    BY <1>1, <1>2, <1>3, <2>3, GoodAnswered
  <2>5. Agree(Base(stored, saves), messages, net')
    BY <1>1, <1>2, <2>2, AgreeLater
  <2>6. Saved(messages', stored', saves', timers', net', dialog')
    BY <2>1, <2>2, <2>4, <2>5 DEF Saved
  <2>7. AllGood(messages', stored', saves', dialog')
    BY <1>3, <2>1, <2>4 DEF AllGood
  <2> QED
    BY <1>2, <1>3, <2>1, <2>2, <2>6, <2>7, ChatIdle
<1> QED
  BY <1>6, <1>7, <1>8, <1>9, <1>10, <1>11, <1>12 DEF NetworkEvent

(* Timers. *)

(* A list that waited is stored. *)
LEMMA ChatSave ==
  ASSUME TypeInv, ChatInv, SaveTimer
  PROVE  ChatInv'
<1>1. /\ saves # <<>> /\ stored' = Head(saves) /\ saves' = Tail(saves) /\ saves \in Seq(Lists(changes))
      /\ UNCHANGED <<messages, timers, net, ref, dialog, broken>>
  BY DEF SaveTimer, TypeInv
<1>2. Len(saves) \in Nat /\ Len(saves) >= 1 /\ stored' = saves[1] /\ saves' \in Seq(Lists(changes))
      /\ Len(saves') = Len(saves) - 1 /\ \A i \in 1..(Len(saves) - 1) : saves'[i] = saves[i + 1]
  BY <1>1
<1>3. /\ ~broken /\ AllGood(messages, stored, saves, dialog) /\ Attached(messages, net, ref)
      /\ Waiting(messages, stored, saves, timers, net) /\ Asking(stored, saves, timers, net, dialog)
      /\ Saved(messages, stored, saves, timers, net, dialog)
  BY DEF ChatInv
<1>4. Good(stored') /\ stored' # NoList
  BY <1>2, <1>3, GoodConstants DEF AllGood
<1>5. AllGood(messages, stored', saves', dialog)
  BY <1>2, <1>3, <1>4 DEF AllGood
<1>6. Waiting(messages, stored', saves', timers, net) /\ Asking(stored', saves', timers, net, dialog)
  BY <1>1, <1>3 DEF Waiting, Asking
<1>7. Base(stored', saves') = Base(stored, saves)
  <2>1. CASE Len(saves) = 1
    BY <1>1, <1>2, <1>4, <2>1 DEF Base
  <2>2. CASE Len(saves) # 1
    <3>1. saves' # <<>> /\ saves'[Len(saves')] = saves[Len(saves)]
      BY <1>2, <2>2
    <3> QED
      BY <1>1, <3>1 DEF Base
  <2> QED
    BY <2>1, <2>2
<1>8. Saved(messages, stored', saves', timers, net, dialog)
  BY <1>3, <1>7 DEF Saved
<1>9. /\ ~broken' /\ AllGood(messages', stored', saves', dialog') /\ Attached(messages', net', ref')
      /\ Waiting(messages', stored', saves', timers', net') /\ Asking(stored', saves', timers', net', dialog')
      /\ Saved(messages', stored', saves', timers', net', dialog')
  BY <1>1, <1>3, <1>5, <1>6, <1>8
<1> QED
  BY <1>9 DEF ChatInv

(* A request is sent and its reply is the last message. *)
LEMMA ChatAttached ==
  ASSUME ~broken', AllGood(messages', stored', saves', dialog'), NEW r, Running(net') = {r},
         messages' # <<>>, messages'[Len(messages')].of = r, messages'[Len(messages')].status \in Generating,
         net'[r] = "sse" => ref' = r, timers' = <<>>, dialog'.kind \notin {"edit", "import"},
         Saved(messages', stored', saves', timers', net', dialog')
  PROVE  ChatInv'
<1>1. Attached(messages', net', ref')
  BY DEF Attached
<1>2. Waiting(messages', stored', saves', timers', net') /\ Asking(stored', saves', timers', net', dialog')
  BY DEF Waiting, Asking
<1> QED
  BY <1>1, <1>2 DEF ChatInv

(* onMessageSend, when nothing is being generated. *)
LEMMA ChatSend ==
  ASSUME TypeInv, ChatInv, onMessageSend, Settled(messages), Running(net) = {},
         timers' = <<>>, dialog.kind \notin {"edit", "import"}, UNCHANGED <<stored, dialog, broken>>
  PROVE  ChatInv'
<1> DEFINE r == NewRequest
           x == messages'
<1>1. /\ x \in Lists(changes)
      /\ x = messages \o <<Question(r, nextId), Reply(r, nextId + 1)>>
      /\ saves' = Append(saves, x)
      /\ Question(r, nextId) \in Msg(changes) /\ Reply(r, nextId + 1) \in Msg(changes)
      /\ Running(net') = Running(net) \cup {r}
      /\ net'[r] = "sse" => ref' = r
  BY TypeMessageSend
<1>2. messages \in Lists(changes) /\ saves \in Seq(Lists(changes)) /\ Good(messages) /\ ~broken
      /\ AllGood(messages, stored, saves, dialog)
  BY DEF TypeInv, ChatInv, AllGood
<1> HIDE DEF r, x
<1>3. Good(x) /\ x # <<>> /\ x[Len(x)].of = r /\ x[Len(x)].status \in Generating
  <2>1. EndsWith(messages \o <<Question(r, nextId), Reply(r, nextId + 1)>>, r)
    BY <1>1, <1>2, GoodSent
  <2> QED
    BY <1>1, <2>1 DEF EndsWith
<1>4. AllGood(x, stored, Append(saves, x), dialog) /\ Saved(x, stored, Append(saves, x), timers', net', dialog)
  BY <1>1, <1>2, <1>3, SavedList
<1>5. AllGood(messages', stored', saves', dialog') /\ Saved(messages', stored', saves', timers', net', dialog')
  BY <1>1, <1>4 DEF x
<1>6. /\ messages' # <<>> /\ messages'[Len(messages')].of = r
      /\ messages'[Len(messages')].status \in Generating /\ Running(net') = {r} /\ ~broken'
  BY <1>1, <1>2, <1>3 DEF x
<1> QED
  BY <1>1, <1>5, <1>6, ChatAttached

(* A request that was put off is sent. *)
LEMMA ChatSendTimer ==
  ASSUME TypeInv, ChatInv, SendTimer
  PROVE  ChatInv'
<1>1. timers # <<>> /\ timers' = Tail(timers) /\ UNCHANGED <<stored, dialog, broken>>
  BY DEF SendTimer
<1>2. /\ Len(timers) = 1 /\ Running(net) = {} /\ Settled(messages)
      /\ dialog.kind \notin {"edit", "import"}
  BY <1>1 DEF ChatInv, Waiting, Asking
<1>3. timers' = <<>> /\ Head(timers) = timers[1]
  BY <1>1, <1>2 DEF TypeInv
<1>4. CASE onMessageSend
  BY <1>1, <1>2, <1>3, <1>4, ChatSend
<1>5. CASE ~ onMessageSend
  <2> DEFINE r == NewRequest
             m == Reply(r, nextId)
  <2>1. /\ Head(timers) = "edited" /\ NewRequest \in Requests /\ saves' = saves
        /\ messages' = Append(messages, createMessage(nextId, "assistant", "loading", NewRequest))
        /\ nextId' = nextId + 1 /\ \E stream \in Streams : sendRequest(NewRequest, stream)
    BY <1>5 DEF SendTimer
  <2>2. /\ messages' \in Lists(changes) /\ messages' = Append(messages, m) /\ m \in Msg(changes)
        /\ Running(net') = Running(net) \cup {r}
        /\ \A q \in Requests : net[q] = "answered" => net'[q] = "answered"
        /\ net'[r] = "sse" => ref' = r
    BY <2>1, TypeEditedSend
  <2>3. messages \in Lists(changes) /\ Good(messages) /\ ~broken /\ AllGood(messages, stored, saves, dialog)
    BY DEF TypeInv, ChatInv, AllGood
  <2>4. Agree(Base(stored, saves), messages, net')
    <3>1. Agree(Base(stored, saves), messages, net)
      BY <1>2, <1>3, <2>1 DEF ChatInv, Saved
    <3> QED
      BY <2>2, <2>3, <3>1, AgreeLater
  <2>5. m.of = r /\ m.status \in Generating
    BY NewGood
  <2> HIDE DEF r
  <2>6. /\ Good(messages') /\ messages' # <<>> /\ messages'[Len(messages')] = m
        /\ Agree(Base(stored, saves), messages', net')
    BY <1>2, <2>2, <2>3, <2>4, GoodReply
  <2> HIDE DEF m
  <2>7. AllGood(messages', stored', saves', dialog') /\ Saved(messages', stored', saves', timers', net', dialog')
    BY <1>1, <2>1, <2>3, <2>6 DEF AllGood, Saved
  <2> QED
    BY <1>1, <1>2, <1>3, <2>2, <2>3, <2>5, <2>6, <2>7, ChatAttached
<1> QED
  BY <1>4, <1>5

(* The default messages are shown after a reset. *)
LEMMA ChatDefaults ==
  ASSUME TypeInv, ChatInv, DefaultsTimer
  PROVE  ChatInv'
<1>1. /\ Contains(timers, "defaults") /\ timers' = RemoveFirst(timers, "defaults")
      /\ messages' = DefaultMessages /\ UNCHANGED <<stored, saves, net, ref, dialog, broken>>
  BY DEF DefaultsTimer
<1>2. timers # <<>>
  BY <1>1 DEF Contains
<1>3. Len(timers) = 1 /\ Running(net) = {} /\ dialog.kind \notin {"edit", "import"}
  BY <1>2 DEF ChatInv, Waiting, Asking
<1>4. timers[1] = "defaults"
  BY <1>1, <1>3 DEF Contains
<1>5. saves = <<>> /\ stored = NoList
  BY <1>2, <1>4 DEF ChatInv, Waiting
<1>6. timers' = <<>>
  <2> DEFINE I == {i \in 1..Len(timers) : timers[i] = "defaults"}
  <2>1. I = {1}
    BY <1>3, <1>4
  <2>2. Min(I) = 1
    <3> HIDE DEF I
    <3>1. I \subseteq Nat /\ I # {}
      BY <2>1
    <3> QED
      BY <2>1, <3>1, MinIn
  <2>3. timers' = RemoveAt(timers, Min(I))
    BY <1>1, <1>3, <1>4 DEF RemoveFirst, SelectInSeq
  <2> HIDE DEF I
  <2>4. timers' = SubSeq(timers, 1, 0) \o SubSeq(timers, 2, 1)
    BY <1>3, <2>2, <2>3 DEF RemoveAt
  <2> QED
    BY <2>4, <1>3 DEF TypeInv
<1>7. DefaultMessages \in Lists(0)
  BY ConstantsOK, PlaygroundAssumption
<1>8. Base(stored, saves) = DefaultMessages
  BY <1>5 DEF Base
<1>9. Agree(DefaultMessages, DefaultMessages, net)
  BY <1>7, AgreeSelf
<1>10. AllGood(messages', stored', saves', dialog') /\ Saved(messages', stored', saves', timers', net', dialog')
  BY <1>1, <1>3, <1>8, <1>9, GoodConstants DEF Saved, AllGood, ChatInv
<1> QED
  BY <1>1, <1>3, <1>6, <1>10, ChatIdle DEF ChatInv

(* Clicks. *)

(* A click that did not interfere found nothing under way. *)
LEMMA NotInterfered ==
  ASSUME NEW w, Interfere(w), cause' = {}
  PROVE  cause = {} /\ Running(net) = {} /\ timers = <<>> /\ saves = <<>>
BY DEF Interfere, Live, Running

(* A click reaches a page without confirmation. *)
LEMMA ClickedPage ==
  ASSUME TypeInv, Clickable
  PROVE  dialog = NoDialog /\ dialog.kind = "none" /\ ~broken
BY ConstantsOK, PlaygroundAssumption DEF Clickable, NoDialog

(* The page shows and saves another list when nothing is under way. *)
LEMMA ChatShows ==
  ASSUME TypeInv, ChatInv, NEW x \in Lists(changes'), Good(x), saves \in Seq(Lists(changes')),
         messages' = x, saves' = Append(saves, x), stored' = stored, timers' = <<>>, ~broken',
         Running(net') = {}, dialog'.kind \notin {"edit", "import"}
  PROVE  ChatInv'
<1>1. AllGood(messages, stored, saves, dialog)
  BY DEF ChatInv
<1>2. AllGood(x, stored, Append(saves, x), dialog') /\ Saved(x, stored, Append(saves, x), timers', net', dialog')
  BY <1>1, SavedList
<1>3. AllGood(messages', stored', saves', dialog') /\ Saved(messages', stored', saves', timers', net', dialog')
  BY <1>2
<1> QED
  BY <1>3, ChatIdle

(* The send button. *)
LEMMA ChatSendClick ==
  ASSUME TypeInv, ChatInv, SendClick, cause' = {}
  PROVE  ChatInv'
<1>1. /\ onMessageSend /\ Clickable /\ timers = <<>> /\ timers' = <<>>
      /\ UNCHANGED <<stored, dialog, broken>> /\ ~LastIsGenerating
  BY DEF SendClick
<1>2. messages \in Lists(changes) /\ Good(messages) /\ Attached(messages, net, ref)
  BY DEF TypeInv, ChatInv, AllGood
<1>3. messages = <<>> \/ messages[Len(messages)].status \notin Generating
  BY <1>1 DEF LastIsGenerating, Last
<1>4. Settled(messages) /\ Running(net) = {}
  BY <1>2, <1>3, LastSettled, SettledIdle
<1>5. dialog.kind \notin {"edit", "import"}
  BY <1>1, ClickedPage
<1> QED
  BY <1>1, <1>4, <1>5, ChatSend

(* The stop button. *)
LEMMA ChatStop ==
  ASSUME TypeInv, TypeInv', ChatInv, onStopGenerator, cause' = {}
  PROVE  ChatInv'
<1>1. /\ Clickable /\ LastIsGenerating /\ net' = StoppedNet(net, ref)
      /\ messages' = Append(Front(messages), [Last(messages) EXCEPT !.status = "complete"])
      /\ saves' = Append(saves, messages')
      /\ UNCHANGED <<stored, timers, dialog, broken, changes>>
      /\ ~ (\E r \in Requests : net[r] = "fetch")
  BY DEF onStopGenerator, StoppedNet
<1>2. /\ messages \in Lists(changes) /\ Good(messages) /\ Attached(messages, net, ref)
      /\ NetInv(net, ref, nextId) /\ saves \in Seq(Lists(changes')) /\ messages # <<>>
      /\ messages[Len(messages)].status \in Generating
  BY <1>1 DEF TypeInv, ChatInv, AllGood, LastIsGenerating, Last
<1>3. Good(messages') /\ messages' \in Lists(changes')
  <2>1. messages' \in Lists(changes) /\ Ended(messages, messages')
    BY <1>1, <1>2, EndIs
  <2> QED
    BY <1>1, <1>2, <2>1, GoodEnded
<1>4. Running(net') = {}
  <2>1. \A q \in Running(StoppedNet(net, ref)) :
          q \in Running(net) /\ StoppedNet(net, ref)[q] = net[q] /\ q # ref
    BY <1>2, NetStops
  <2>2. \A q \in Running(net) : net[q] = "sse" /\ q = ref
    BY <1>1, <1>2 DEF Attached, Running
  <2> QED
    BY <1>1, <2>1, <2>2
<1>5. timers = <<>>
  <2>1. Len(messages) \in Nat /\ Len(messages) >= 1
    BY <1>2 DEF Lists
  <2> QED
    BY <1>2, <2>1 DEF ChatInv, Waiting, Settled
<1>6. dialog'.kind \notin {"edit", "import"} /\ ~broken'
  BY <1>1, ClickedPage
<1> QED
  BY <1>1, <1>2, <1>3, <1>4, <1>5, <1>6, ChatShows

(* The list is cleared. *)
LEMMA ChatClear ==
  ASSUME TypeInv, TypeInv', ChatInv, handleClearMessages, cause' = {}
  PROVE  ChatInv'
<1>1. /\ Clickable /\ messages' = <<>> /\ saves' = Append(saves, <<>>) /\ Interfere("clear")
      /\ UNCHANGED <<stored, timers, net, dialog, broken>>
  BY DEF handleClearMessages
<1>2. Running(net) = {} /\ timers = <<>> /\ saves = <<>>
  BY <1>1, NotInterfered
<1>3. dialog.kind = "none" /\ ~broken
  BY <1>1, ClickedPage
<1>4. <<>> \in Lists(changes') /\ saves \in Seq(Lists(changes'))
  BY <1>2 DEF Lists
<1> QED
  BY <1>1, <1>2, <1>3, <1>4, GoodConstants, ChatShows

(* Back to before a question, which is asked again later. *)
LEMMA ChatReset ==
  ASSUME TypeInv, TypeInv', ChatInv, NEW i \in DOMAIN messages, handleMessageReset(i), cause' = {}
  PROVE  ChatInv'
<1> DEFINE q == SelectLastInSubSeq(messages, 1, i, LAMBDA m : m.role = "user")
<1>1. /\ ActionsOn(i) /\ q # 0 /\ messages' = SubSeq(messages, 1, q - 1)
      /\ timers' = Append(timers, "send") /\ timers = <<>>
      /\ UNCHANGED <<stored, saves, net, ref, dialog, broken>>
  BY DEF handleMessageReset
<1>2. messages \in Lists(changes) /\ AllGood(messages, stored, saves, dialog)
  BY DEF TypeInv, ChatInv
<1>3. Settled(messages) /\ Running(net) = {} /\ dialog = NoDialog /\ ~broken
  BY <1>1, ActionsIdle
<1>4. q \in Nat /\ 1 <= q /\ q <= Len(messages)
  BY <1>1, <1>2, QuestionIs
<1> HIDE DEF q
<1>5. q - 1 \in Nat /\ q - 1 <= Len(messages) /\ Good(messages)
  BY <1>2, <1>4 DEF Lists, AllGood
<1>6. Good(messages') /\ Settled(messages')
  BY <1>1, <1>2, <1>3, <1>5, GoodPrefix
<1>7. dialog.kind = "none"
  BY <1>3 DEF NoDialog
<1>8. timers' # <<>> /\ Len(timers') = 1 /\ timers'[1] = "send"
  BY <1>1
<1>9. /\ AllGood(messages', stored', saves', dialog') /\ Attached(messages', net', ref')
      /\ Waiting(messages', stored', saves', timers', net')
  BY <1>1, <1>2, <1>3, <1>6, <1>8 DEF AllGood, Attached, Waiting
<1>10. Asking(stored', saves', timers', net', dialog') /\ Saved(messages', stored', saves', timers', net', dialog')
  BY <1>1, <1>7, <1>8 DEF Asking, Saved
<1> QED
  BY <1>1, <1>3, <1>9, <1>10 DEF ChatInv

(* The user is asked whether to delete a message. *)
LEMMA ChatDelete ==
  ASSUME TypeInv, ChatInv, NEW i \in DOMAIN messages, handleMessageDelete(i)
  PROVE  ChatInv'
<1>1. /\ ActionsOn(i) /\ dialog' = [kind |-> "delete", list |-> <<messages[i]>>, at |-> 0]
      /\ UNCHANGED <<messages, stored, saves, timers, net, ref, broken>>
  BY DEF handleMessageDelete
<1>2. dialog.kind = "none"
  BY <1>1, ActionsIdle DEF NoDialog
<1>3. dialog'.kind = "delete"
  BY <1>1
<1>4. AllGood(messages, stored, saves, dialog') /\ Asking(stored, saves, timers, net, dialog')
  BY <1>3 DEF ChatInv, AllGood, Asking
<1>5. Saved(messages, stored, saves, timers, net, dialog')
  BY <1>2, <1>3 DEF ChatInv, Saved
<1>6. /\ ~broken /\ Attached(messages, net, ref) /\ Waiting(messages, stored, saves, timers, net)
  BY DEF ChatInv
<1>7. /\ ~broken' /\ AllGood(messages', stored', saves', dialog') /\ Attached(messages', net', ref')
      /\ Waiting(messages', stored', saves', timers', net') /\ Asking(stored', saves', timers', net', dialog')
      /\ Saved(messages', stored', saves', timers', net', dialog')
  BY <1>1, <1>4, <1>5, <1>6
<1> QED
  BY <1>7 DEF ChatInv

(* The confirmation is closed and the lists are as they were. *)
LEMMA ChatCancelled ==
  ASSUME TypeInv, ChatInv, dialog.kind = "delete", dialog' = NoDialog,
         UNCHANGED <<messages, stored, saves, timers, net, ref, broken>>
  PROVE  ChatInv'
<1>1. dialog'.kind = "none"
  BY DEF NoDialog
<1>2. AllGood(messages, stored, saves, dialog') /\ Asking(stored, saves, timers, net, dialog')
  BY <1>1 DEF ChatInv, AllGood, Asking
<1>3. Saved(messages, stored, saves, timers, net, dialog')
  BY <1>1 DEF ChatInv, Saved
<1>4. /\ ~broken /\ Attached(messages, net, ref) /\ Waiting(messages, stored, saves, timers, net)
  BY DEF ChatInv
<1>5. /\ ~broken' /\ AllGood(messages', stored', saves', dialog') /\ Attached(messages', net', ref')
      /\ Waiting(messages', stored', saves', timers', net') /\ Asking(stored', saves', timers', net', dialog')
      /\ Saved(messages', stored', saves', timers', net', dialog')
  BY <1>2, <1>3, <1>4
<1> QED
  BY <1>5 DEF ChatInv

(* Another list is shown and saved while nothing is being generated; a request
   may be waiting for its timer. *)
LEMMA ChatRewrites ==
  ASSUME TypeInv, ChatInv, messages # <<>>, NEW x \in Lists(changes'), Good(x), Settled(messages) => Settled(x),
         saves \in Seq(Lists(changes')), messages' = x, saves' = Append(saves, x), Running(net) = {},
         dialog'.kind \notin {"edit", "import"}, UNCHANGED <<stored, timers, net, ref, broken>>
  PROVE  ChatInv'
<1>1. AllGood(messages, stored, saves, dialog) /\ ~broken /\ Waiting(messages, stored, saves, timers, net)
  BY DEF ChatInv
<1>2. AllGood(x, stored, Append(saves, x), dialog') /\ Saved(x, stored, Append(saves, x), timers, net, dialog')
  BY <1>1, SavedList
<1>3. Attached(x, net, ref) /\ Asking(stored, Append(saves, x), timers, net, dialog')
  BY DEF Attached, Asking
<1>4. Waiting(x, stored, Append(saves, x), timers, net)
  BY <1>1 DEF Waiting
<1>5. /\ ~broken' /\ AllGood(messages', stored', saves', dialog') /\ Attached(messages', net', ref')
      /\ Waiting(messages', stored', saves', timers', net') /\ Asking(stored', saves', timers', net', dialog')
      /\ Saved(messages', stored', saves', timers', net', dialog')
  BY <1>1, <1>2, <1>3, <1>4
<1> QED
  BY <1>5 DEF ChatInv

(* A message, or a question with its reply, is deleted. *)
LEMMA ChatDeleted ==
  ASSUME TypeInv, ChatInv, DeleteConfirmed, cause' = {}
  PROVE  ChatInv'
<1> DEFINE t == Head(dialog.list)
           at == IndexOfMessage(t)
           pair == /\ t.role = "user" /\ at < Len(messages)
                   /\ messages[at + 1].role = "assistant"
           list == IF pair THEN RemoveAt(RemoveAt(messages, at), at) ELSE Without(messages, t.id)
<1>1. /\ IF at = 0 THEN UNCHANGED <<messages, saves>> ELSE messages' = list /\ saves' = Append(saves, list)
      /\ dialog.kind = "delete" /\ dialog' = NoDialog /\ Live = {}
      /\ UNCHANGED <<stored, timers, net, ref, broken, changes>>
  BY DEF DeleteConfirmed
<1>2. /\ messages \in Lists(changes) /\ Len(messages) \in Nat /\ saves \in Seq(Lists(changes))
      /\ Good(messages) /\ Running(net) = {} /\ dialog'.kind = "none"
  BY <1>1 DEF TypeInv, ChatInv, AllGood, Live, Running, NoDialog, Lists
<1>3. at \in Nat /\ at <= Len(messages)
  BY <1>2, IndexIs
<1>4. CASE at = 0
  BY <1>1, <1>4, ChatCancelled
<1>5. CASE at # 0
  <2>1. list \in Lists(changes) /\ Thinned(messages, list)
    <3>1. CASE pair
      <4>1. 1 <= at /\ at < Len(messages)
        BY <1>3, <1>5, <3>1
      <4> HIDE DEF at, t
      <4>2. /\ RemoveAt(RemoveAt(messages, at), at) \in Lists(changes)
            /\ Thinned(messages, RemoveAt(RemoveAt(messages, at), at))
        BY <1>2, <1>3, <4>1, PairRemoved
      <4> QED
        BY <3>1, <4>2
    <3>2. CASE ~ pair
      <4> HIDE DEF at, t
      <4>1. Without(messages, t.id) \in Lists(changes) /\ Thinned(messages, Without(messages, t.id))
        BY <1>2, WithoutIs DEF Thinned
      <4> QED
        BY <3>2, <4>1
    <3> QED
      BY <3>1, <3>2
  <2>2. messages' = list /\ saves' = Append(saves, list) /\ messages # <<>>
    BY <1>1, <1>2, <1>3, <1>5
  <2> HIDE DEF list
  <2>3. Good(list) /\ (Settled(messages) => Settled(list))
    BY <1>2, <2>1, GoodThinned
  <2>4. list \in Lists(changes') /\ saves \in Seq(Lists(changes'))
    BY <1>1, <1>2, <2>1
  <2> QED
    BY <1>1, <1>2, <2>2, <2>3, <2>4, ChatRewrites
<1> QED
  BY <1>4, <1>5

(* The role of a reply is changed. *)
LEMMA ChatToggle ==
  ASSUME TypeInv, TypeInv', ChatInv, NEW i \in DOMAIN messages, handleRoleToggle(i)
  PROVE  ChatInv'
<1> DEFINE new == IF messages[i].role = "assistant" THEN "system" ELSE "assistant"
           list == Toggled(messages, messages[i].id, new)
<1>1. /\ new \in {"assistant", "system"} /\ messages' = list /\ saves' = Append(saves, list) /\ ActionsOn(i)
      /\ Change /\ UNCHANGED <<stored, timers, net, ref, dialog, broken>>
  BY DEF handleRoleToggle, Toggled
<1>2. messages \in Lists(changes) /\ Good(messages) /\ changes' = changes + 1 /\ changes \in Nat
  BY <1>1, PlaygroundAssumption DEF TypeInv, ChatInv, AllGood, Change, PlaygroundAssumption
<1>3. /\ Settled(messages) /\ Running(net) = {} /\ dialog = NoDialog /\ i \in 1..Len(messages)
  BY <1>1, ActionsIdle
<1> HIDE DEF new
<1>4. list \in Lists(changes) /\ Rewritten(messages, list)
  BY <1>1, <1>2, ToggledIs
<1> HIDE DEF list
<1>5. Good(list) /\ Settled(list)
  BY <1>2, <1>3, <1>4, GoodRewritten
<1>6. list \in Lists(changes') /\ saves \in Seq(Lists(changes'))
  <2>1. /\ Lists(changes) \subseteq Lists(changes + 1)
        /\ Seq(Lists(changes)) \subseteq Seq(Lists(changes + 1))
    BY <1>2, AllMonotone
  <2> QED
    BY <1>2, <1>4, <2>1 DEF TypeInv
<1>7. messages # <<>> /\ dialog'.kind \notin {"edit", "import"}
  BY <1>1, <1>2, <1>3 DEF NoDialog, Lists
<1> QED
  BY <1>1, <1>3, <1>5, <1>6, <1>7, ChatRewrites

(* The text of a message is replaced, at once or after a question. *)
LEMMA ChatEditSave ==
  ASSUME TypeInv, TypeInv', ChatInv, handleEditSave, cause' = {}
  PROVE  ChatInv'
<1> DEFINE at == IndexOfMessage(editing)
           list == Edited(messages, editing.id)
           ask == /\ messages[at].role = "user" /\ at < Len(messages)
                  /\ messages[at + 1].role = "assistant"
<1>1. /\ IF ask THEN /\ dialog' = [kind |-> "edit", list |-> list, at |-> at]
                     /\ UNCHANGED <<messages, saves>>
                ELSE /\ messages' = list /\ saves' = Append(saves, list)
                     /\ UNCHANGED dialog
      /\ Clickable /\ Change /\ Interfere("edit") /\ UNCHANGED <<stored, timers, net, ref, broken>>
  BY DEF handleEditSave, Edited
<1>2. Running(net) = {} /\ timers = <<>> /\ saves = <<>>
  BY <1>1, NotInterfered
<1>3. dialog.kind = "none" /\ ~broken
  BY <1>1, ClickedPage
<1>4. messages \in Lists(changes) /\ changes' = changes + 1 /\ changes \in Nat
  BY <1>1, PlaygroundAssumption DEF TypeInv, Change, PlaygroundAssumption
<1>5. AllGood(messages, stored, saves, dialog) /\ Good(messages)
  BY DEF ChatInv, AllGood
<1>6. list \in Lists(changes') /\ Rewritten(messages, list)
  BY <1>4, EditedIs
<1> HIDE DEF list, at
<1>7. Good(list)
  BY <1>5, <1>6, GoodRewritten
<1>8. CASE ask
  <2>1. dialog' = [kind |-> "edit", list |-> list, at |-> at] /\ messages' = messages /\ saves' = saves
    BY <1>1, <1>8
  <2>2. dialog'.kind = "edit" /\ dialog'.list = list
    BY <2>1
  <2>3. AllGood(messages', stored', saves', dialog')
    BY <1>1, <1>5, <1>7, <2>1, <2>2 DEF AllGood
  <2>4. Attached(messages', net', ref') /\ Waiting(messages', stored', saves', timers', net')
    BY <1>1, <1>2 DEF Attached, Waiting
  <2>5. Asking(stored', saves', timers', net', dialog')
    BY <1>1, <1>2, <2>2 DEF Asking
  <2>6. Agree(Base(stored, saves), messages, net)
    BY <1>2, <1>3 DEF ChatInv, Saved
  <2>7. Saved(messages', stored', saves', timers', net', dialog')
    BY <1>1, <2>1, <2>6 DEF Saved
  <2> QED
    BY <1>1, <1>3, <2>3, <2>4, <2>5, <2>7 DEF ChatInv
<1>9. CASE ~ ask
  <2>1. messages' = list /\ saves' = Append(saves, list) /\ dialog' = dialog
    BY <1>1, <1>9
  <2>2. saves \in Seq(Lists(changes'))
    BY <1>2
  <2> QED
    BY <1>1, <1>2, <1>3, <1>6, <1>7, <2>1, <2>2, ChatShows
<1> QED
  BY <1>8, <1>9

(* An edited question is asked again, or the edit is only kept. *)
LEMMA ChatEditAnswered ==
  ASSUME TypeInv, TypeInv', ChatInv, EditRegenerate \/ EditKeep
  PROVE  ChatInv'
<1>1. /\ dialog.kind = "edit" /\ dialog' = NoDialog
      /\ UNCHANGED <<stored, net, ref, broken, changes>>
  BY DEF EditRegenerate, EditKeep
<1>2. /\ timers = <<>> /\ Running(net) = {} /\ Good(dialog.list) /\ ~broken
      /\ AllGood(messages, stored, saves, dialog)
  BY <1>1 DEF ChatInv, Asking, AllGood
<1>3. /\ dialog.list \in Lists(changes) /\ dialog.at \in Nat /\ dialog.at < Len(dialog.list)
      /\ Len(dialog.list) \in Nat /\ saves \in Seq(Lists(changes'))
  BY <1>1 DEF TypeInv, Dialogs, DialogOK, Lists
<1>4. dialog'.kind = "none"
  BY <1>1 DEF NoDialog
<1>5. CASE EditKeep
  <2>1. messages' = dialog.list /\ saves' = Append(saves, dialog.list) /\ timers' = timers
    BY <1>5 DEF EditKeep
  <2>2. dialog.list \in Lists(changes')
    BY <1>1, <1>3
  <2> QED
    BY <1>1, <1>2, <1>3, <1>4, <2>1, <2>2, ChatShows
<1>6. CASE EditRegenerate
  <2> DEFINE x == SubSeq(dialog.list, 1, dialog.at)
  <2>1. messages' = x /\ saves' = Append(saves, x) /\ timers' = Append(timers, "edited")
    BY <1>6 DEF EditRegenerate
  <2>2. dialog.at <= Len(dialog.list)
    BY <1>3
  <2>3. x \in Lists(changes') /\ Good(x) /\ Settled(x)
    BY <1>1, <1>2, <1>3, <2>2, PrefixIs, GoodPrefix
  <2> HIDE DEF x
  <2>4. timers' # <<>> /\ Len(timers') = 1 /\ timers'[1] = "edited"
    BY <1>2, <2>1
  <2>5. /\ AllGood(x, stored, Append(saves, x), dialog')
        /\ Saved(x, stored, Append(saves, x), timers', net', dialog')
    BY <1>2, <1>3, <1>4, <2>3, SavedList
  <2>6. AllGood(messages', stored', saves', dialog') /\ Saved(messages', stored', saves', timers', net', dialog')
    BY <1>1, <2>1, <2>5
  <2>7. /\ Attached(messages', net', ref') /\ Asking(stored', saves', timers', net', dialog')
        /\ Waiting(messages', stored', saves', timers', net')
    BY <1>1, <1>2, <1>4, <2>1, <2>3, <2>4 DEF Attached, Asking, Waiting
  <2> QED
    BY <1>1, <1>2, <2>6, <2>7 DEF ChatInv
<1> QED
  BY <1>5, <1>6

(* The configuration is reset with the list. *)
LEMMA ChatConfigReset ==
  ASSUME TypeInv, ChatInv, handleConfigReset, cause' = {}
  PROVE  ChatInv'
<1>1. /\ Clickable /\ stored' = NoList /\ messages' = <<>> /\ timers' = Append(timers, "defaults")
      /\ Interfere("reset") /\ UNCHANGED <<saves, net, ref, dialog, broken>>
  BY DEF handleConfigReset
<1>2. Running(net) = {} /\ timers = <<>> /\ saves = <<>>
  BY <1>1, NotInterfered
<1>3. dialog.kind = "none" /\ ~broken
  BY <1>1, ClickedPage
<1>4. timers' # <<>> /\ Len(timers') = 1 /\ timers'[1] = "defaults"
  BY <1>1, <1>2
<1>5. AllGood(messages', stored', saves', dialog')
  BY <1>1, <1>2, <1>3, GoodConstants DEF AllGood
<1>6. /\ Attached(messages', net', ref') /\ Waiting(messages', stored', saves', timers', net')
      /\ Asking(stored', saves', timers', net', dialog')
      /\ Saved(messages', stored', saves', timers', net', dialog')
  BY <1>1, <1>2, <1>3, <1>4, GoodConstants DEF Attached, Waiting, Asking, Saved
<1> QED
  BY <1>1, <1>3, <1>5, <1>6 DEF ChatInv

(* A file is imported: it is stored before the user is asked. *)
LEMMA ChatImport ==
  ASSUME TypeInv, ChatInv, importConfig, cause' = {}
  PROVE  ChatInv'
<1>1. /\ Clickable /\ stored' = Imported /\ dialog' = [kind |-> "import", list |-> Imported, at |-> 0]
      /\ Interfere("import") /\ UNCHANGED <<messages, saves, timers, net, ref, broken>>
  BY DEF importConfig
<1>2. Running(net) = {} /\ timers = <<>> /\ saves = <<>>
  BY <1>1, NotInterfered
<1>3. ~broken /\ Good(messages)
  BY DEF ChatInv, AllGood
<1>4. dialog'.kind = "import" /\ dialog'.list = Imported
  BY <1>1
<1>5. AllGood(messages', stored', saves', dialog')
  BY <1>1, <1>2, <1>3, <1>4, GoodConstants DEF AllGood
<1>6. /\ Attached(messages', net', ref') /\ Waiting(messages', stored', saves', timers', net')
      /\ Asking(stored', saves', timers', net', dialog')
      /\ Saved(messages', stored', saves', timers', net', dialog')
  BY <1>1, <1>2, <1>4 DEF Attached, Waiting, Asking, Saved
<1> QED
  BY <1>1, <1>3, <1>5, <1>6 DEF ChatInv

(* The imported list is shown. *)
LEMMA ChatImported ==
  ASSUME TypeInv, ChatInv, handleConfigImport, cause' = {}
  PROVE  ChatInv'
<1>1. /\ dialog.kind = "import" /\ dialog' = NoDialog /\ messages' = dialog.list
      /\ UNCHANGED <<stored, saves, timers, net, ref, broken>>
  BY DEF handleConfigImport
<1>2. /\ timers = <<>> /\ Running(net) = {} /\ saves = <<>> /\ stored = dialog.list
      /\ Good(dialog.list) /\ ~broken
  BY <1>1 DEF ChatInv, Asking, AllGood
<1>3. stored # NoList /\ stored \in Lists(changes)
  BY <1>2, GoodConstants DEF TypeInv
<1>4. Base(stored, saves) = messages' /\ Agree(messages', messages', net)
  BY <1>1, <1>2, <1>3, AgreeSelf DEF Base
<1>5. dialog'.kind = "none"
  BY <1>1 DEF NoDialog
<1>6. AllGood(messages', stored', saves', dialog') /\ Saved(messages', stored', saves', timers', net', dialog')
  BY <1>1, <1>2, <1>4, <1>5 DEF AllGood, Saved
<1> QED
  BY <1>1, <1>2, <1>5, <1>6, ChatIdle

(* The page is opened again. *)
LEMMA ChatReload ==
  ASSUME TypeInv, ChatInv, Reload
  PROVE  ChatInv'
<1> DEFINE list == IF stored' = NoList THEN DefaultMessages ELSE stored'
           x == Repaired(list)
<1>1. /\ messages' = x /\ saves' = IF x # list THEN <<x>> ELSE <<>>
      /\ stored' \in {stored, NoList} /\ timers' = <<>> /\ dialog' = NoDialog /\ ~broken'
  BY DEF Reload
<1>2. Running(net') = {}
  <2>1. net' = ReloadedNet(net)
    BY DEF Reload, ReloadedNet, Live, Running
  <2> QED
    BY <2>1, NetReloads DEF TypeInv
<1>3. list \in Lists(changes) /\ Good(list) /\ (stored' = NoList \/ Good(stored'))
  <2>1. changes \in Nat
    BY PlaygroundAssumption DEF TypeInv, PlaygroundAssumption
  <2>2. DefaultMessages \in Lists(changes)
    BY <2>1, ConstantsOK, PlaygroundAssumption
  <2> QED
    BY <1>1, <2>2, GoodConstants DEF TypeInv, ChatInv, AllGood
<1> HIDE DEF list
<1>4. x \in Lists(changes) /\ Good(x)
  BY <1>3, RepairedIs, GoodEnded
<1>5. dialog'.kind = "none"
  BY <1>1 DEF NoDialog
<1>6. Base(stored', saves') = x
  <2>1. CASE x # list
    <3>1. saves' = <<x>>
      BY <1>1, <2>1
    <3>2. saves' # <<>> /\ saves'[Len(saves')] = x
      BY <3>1
    <3> QED
      BY <3>2 DEF Base
  <2>2. CASE x = list
    BY <1>1, <2>2 DEF Base, list
  <2> QED
    BY <2>1, <2>2
<1> HIDE DEF x
<1>7. \A i \in 1..Len(saves') : Good(saves'[i])
  BY <1>1, <1>4
<1>8. AllGood(messages', stored', saves', dialog')
  BY <1>1, <1>3, <1>4, <1>5, <1>7 DEF AllGood
<1>9. Saved(messages', stored', saves', timers', net', dialog')
  BY <1>1, <1>4, <1>6, AgreeSelf DEF Saved
<1> QED
  BY <1>1, <1>2, <1>5, <1>8, <1>9, ChatIdle

(* Steps that leave all that ChatInv speaks of alone. *)
LEMMA ChatSame ==
  ASSUME ChatInv, UNCHANGED <<messages, stored, saves, timers, net, ref, dialog, broken>>
  PROVE  ChatInv'
<1>1. /\ ~broken /\ AllGood(messages, stored, saves, dialog) /\ Attached(messages, net, ref)
      /\ Waiting(messages, stored, saves, timers, net) /\ Asking(stored, saves, timers, net, dialog)
      /\ Saved(messages, stored, saves, timers, net, dialog)
  BY DEF ChatInv
<1>2. /\ ~broken' /\ AllGood(messages', stored', saves', dialog') /\ Attached(messages', net', ref')
      /\ Waiting(messages', stored', saves', timers', net') /\ Asking(stored', saves', timers', net', dialog')
      /\ Saved(messages', stored', saves', timers', net', dialog')
  BY <1>1
<1> QED
  BY <1>2 DEF ChatInv

(* A change of the language that leaves the list as it is. *)
LEMMA ChatLanguage ==
  ASSUME ChatInv, LanguageChange, cause' = {}
  PROVE  ChatInv'
<1>1. UNCHANGED <<messages, stored, saves, timers, net, ref, dialog, broken>>
  BY DEF LanguageChange
<1> QED
  BY <1>1, ChatSame

(* The page when it is first opened. *)
LEMMA ChatInit == ASSUME Init PROVE ChatInv
<1>1. /\ messages = DefaultMessages /\ stored = NoList /\ saves = <<>> /\ timers = <<>>
      /\ net = [r \in Requests |-> "idle"] /\ dialog = NoDialog /\ ~broken
  BY DEF Init
<1>2. Running(net) = {} /\ dialog.kind = "none"
  BY <1>1 DEF Running, NoDialog
<1>3. Base(stored, saves) = messages /\ Agree(messages, messages, net)
  <2>1. DefaultMessages \in Lists(0)
    BY ConstantsOK, PlaygroundAssumption
  <2> QED
    BY <1>1, <2>1, AgreeSelf DEF Base
<1>4. AllGood(messages, stored, saves, dialog)
  BY <1>1, <1>2, GoodConstants DEF AllGood
<1>5. /\ Attached(messages, net, ref) /\ Waiting(messages, stored, saves, timers, net)
      /\ Asking(stored, saves, timers, net, dialog)
      /\ Saved(messages, stored, saves, timers, net, dialog)
  BY <1>1, <1>2, <1>3 DEF Attached, Waiting, Asking, Saved
<1> QED
  BY <1>1, <1>4, <1>5 DEF ChatInv

(* What interfered once is not forgotten. *)
LEMMA CauseStays == ASSUME [Next]_vars, cause' = {} PROVE cause = {}
<1>1. CASE UNCHANGED vars
  BY <1>1 DEF vars
<1>2. ASSUME NEW r \in Requests, NetworkEvent(r) PROVE cause = {}
  BY <1>2 DEF NetworkEvent, SseChunk, SseDone, SseParseError, SseError, SseHttpError, SseTruncated, FetchAnswered
<1>3. CASE SaveTimer \/ SendTimer \/ DefaultsTimer \/ SendClick \/ onStopGenerator
  BY <1>3 DEF SaveTimer, SendTimer, DefaultsTimer, SendClick, onStopGenerator
<1>4. ASSUME NEW i \in DOMAIN messages, MessageAction(i) PROVE cause = {}
  BY <1>4 DEF MessageAction, handleMessageReset, handleMessageDelete, handleRoleToggle, handleMessageEdit
<1>5. CASE handleClearMessages \/ handleEditSave \/ handleConfigReset \/ importConfig \/ handleConfigImport
           \/ LanguageChange
  BY <1>5 DEF handleClearMessages, handleEditSave, handleConfigReset, importConfig, handleConfigImport,
              Interfere, LanguageChange
<1>6. CASE DeleteConfirmed \/ DeleteCancelled \/ handleEditCancel \/ EditRegenerate \/ EditKeep \/ Reload
  BY <1>6 DEF DeleteConfirmed, DeleteCancelled, handleEditCancel, EditRegenerate, EditKeep, Reload
<1> QED
  BY <1>1, <1>2, <1>3, <1>4, <1>5, <1>6 DEF Next

(* Every step. *)
LEMMA ChatStep ==
  ASSUME TypeInv, TypeInv', cause = {} => ChatInv, [Next]_vars, cause' = {}
  PROVE  ChatInv'
<1>1. ChatInv
  BY CauseStays
<1>2. CASE UNCHANGED vars
  BY <1>1, <1>2, ChatSame DEF vars
<1>3. CASE \E r \in Requests : NetworkEvent(r)
  BY <1>3, ChatNetwork
<1>4. CASE SaveTimer \/ SendTimer \/ DefaultsTimer
  BY <1>1, <1>4, ChatSave, ChatSendTimer, ChatDefaults
<1>5. CASE SendClick \/ onStopGenerator \/ handleClearMessages
  BY <1>1, <1>5, ChatSendClick, ChatStop, ChatClear
<1>6. ASSUME NEW i \in DOMAIN messages, MessageAction(i) PROVE ChatInv'
  <2>1. CASE handleMessageEdit(i)
    BY <1>1, <2>1, ChatSame DEF handleMessageEdit
  <2> QED
    BY <1>1, <1>6, <2>1, ChatReset, ChatDelete, ChatToggle DEF MessageAction
<1>7. CASE DeleteConfirmed \/ DeleteCancelled
  BY <1>1, <1>7, ChatDeleted, ChatCancelled DEF DeleteCancelled
<1>8. CASE handleEditCancel
  BY <1>1, <1>8, ChatSame DEF handleEditCancel
<1>9. CASE handleEditSave \/ EditRegenerate \/ EditKeep
  BY <1>1, <1>9, ChatEditSave, ChatEditAnswered
<1>10. CASE handleConfigReset \/ importConfig \/ handleConfigImport \/ Reload \/ LanguageChange
  BY <1>1, <1>10, ChatConfigReset, ChatImport, ChatImported, ChatReload, ChatLanguage
<1> QED
  BY <1>2, <1>3, <1>4, <1>5, <1>6, <1>7, <1>8, <1>9, <1>10 DEF Next

(* PageInv holds in every reachable state. *)
LEMMA PageInvariant == Spec => []PageInv
<1>1. Init => PageInv
  BY TypeInit, ChatInit DEF PageInv
<1>2. PageInv /\ [Next]_vars => PageInv'
  BY TypeStep, ChatStep DEF PageInv
<1> QED
  BY <1>1, <1>2, PTL DEF Spec

-----------------------------------------------------------------------------
(* Chunks, errors and answers that come late never reach the reply of another
   request: as long as the user leaves the list alone while a request is under
   way, and the language on a page that was opened without saved messages (the
   effect of usePlaygroundState then replaces the list), a message holds text of its own request only, whatever was stopped,
   failed, truncated, regenerated, deleted or reloaded before. *)
THEOREM AnswersStayApart == Spec => []OwnAnswers
<1>1. PageInv => OwnAnswers
  <2>1. SUFFICES ASSUME PageInv, cause = {}, NEW i \in DOMAIN messages
                 PROVE  messages[i].from \subseteq {messages[i].of}
    BY DEF OwnAnswers
  <2>2. i \in 1..Len(messages)
    BY <2>1 DEF PageInv, TypeInv, Lists
  <2>3. GoodMsg(messages[i])
    BY <2>1, <2>2 DEF PageInv, ChatInv, AllGood, Good
  <2> QED
    BY <2>3 DEF GoodMsg
<1> QED
  BY <1>1, PageInvariant, PTL

(* No message but the last one is left in the state of being generated, where
   it would turn off the actions of all messages, and the page does not fail to
   render: completeMessage always finds a message. *)
THEOREM OnlyLastIsGenerated == Spec => []OnlyLastGenerates
<1>1. PageInv => OnlyLastGenerates
  BY DEF PageInv, TypeInv, ChatInv, AllGood, Good, OnlyLastGenerates, Lists
<1> QED
  BY <1>1, PageInvariant, PTL

(* When the queues are empty and nothing is being generated, the list that a reload
   loads is the conversation on the screen, but for the answers of plain requests,
   which handleNonStreamRequest does not save; a change of the language that put
   the default messages over a conversation is among the causes it excepts. *)
THEOREM ReloadShowsTheSame == Spec => []SavedWhenQuiet
<1>1. PageInv => SavedWhenQuiet
  <2>1. SUFFICES ASSUME PageInv, cause = {}, Quiet
                 PROVE  LET list == IF stored = NoList THEN DefaultMessages ELSE stored
                        IN /\ Len(list) <= Len(messages)
                           /\ \A i \in DOMAIN messages :
                                \/ i \in DOMAIN list /\ list[i] = messages[i]
                                \/ messages[i].of # 0 /\ net[messages[i].of] = "answered"
    BY DEF SavedWhenQuiet
  <2> DEFINE list == IF stored = NoList THEN DefaultMessages ELSE stored
  <2>2. TypeInv /\ ChatInv /\ saves = <<>> /\ timers = <<>> /\ dialog = NoDialog /\ ~AnyGenerating
    BY <2>1 DEF PageInv, Quiet
  <2>3. Agree(list, messages, net)
    BY <2>2 DEF ChatInv, Saved, Base, NoDialog
  <2>4. messages \in Lists(changes) /\ list \in Lists(changes)
    <3>1. changes \in Nat
      BY <2>2, PlaygroundAssumption DEF TypeInv, PlaygroundAssumption
    <3> QED
      BY <2>2, <3>1, ConstantsOK, PlaygroundAssumption DEF TypeInv
  <2> HIDE DEF list
  <2>5. /\ DOMAIN messages = 1..Len(messages) /\ DOMAIN list = 1..Len(list)
        /\ Len(messages) \in Nat /\ Len(list) \in Nat
    BY <2>4 DEF Lists
  <2>6. \A i \in 1..Len(messages) : messages[i].status \notin Generating
    BY <2>2, <2>5 DEF AnyGenerating
  <2>7. /\ Len(list) <= Len(messages)
        /\ \A i \in DOMAIN messages :
             \/ i \in DOMAIN list /\ list[i] = messages[i]
             \/ messages[i].of # 0 /\ net[messages[i].of] = "answered"
    BY <2>3, <2>5, <2>6 DEF Agree
  <2> QED
    BY <2>7 DEF list
<1> QED
  BY <1>1, PageInvariant, PTL
=============================================================================
