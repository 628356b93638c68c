---------------------------- MODULE QuotaCounter ----------------------------
(***************************************************************************)
(* What IncreaseUserQuota, DecreaseUserQuota and their counterparts for    *)
(* tokens promise their callers: one number per account to which every     *)
(* accepted change is added once. What has reached the row (durable) may   *)
(* lag behind; only a fault loses a change, and only one that is not yet   *)
(* in the row: the failed write of a checkpoint loses exactly what was     *)
(* between the row and the checkpoint, the end of the process exactly what *)
(* was not in the row.                                                     *)
(***************************************************************************)
EXTENDS Integers

CONSTANTS
    Accounts,  \* users and tokens
    Deltas     \* the changes that are made, a set of integers

VARIABLES
    balance,   \* what the callers have been told
    mark,      \* the last checkpoint, which is what the row is to become
    durable,   \* what is in the row
    faults     \* faults so far

vars == <<balance, mark, durable, faults>>

Init ==
    /\ balance \in [Accounts -> Int]
    /\ mark = balance /\ durable = balance /\ faults = 0

(* The change is buffered. *)
Add(a, d) ==
    /\ balance' = [balance EXCEPT ![a] = @ + d]
    /\ UNCHANGED <<mark, durable, faults>>

(* The change is written at once, which may be reported as an error. *)
AddDurable(a, d) ==
    /\ balance' = [balance EXCEPT ![a] = @ + d]
    /\ mark' = [mark EXCEPT ![a] = @ + d]
    /\ durable' = [durable EXCEPT ![a] = @ + d]
    /\ faults' \in {faults, faults + 1}

(* What these accounts have by now is to be written. *)
Checkpoint(A) ==
    /\ mark' = [a \in Accounts |-> IF a \in A THEN balance[a] ELSE mark[a]]
    /\ UNCHANGED <<balance, durable, faults>>

(* The checkpoint of one account reaches its row, with an error or without. *)
Flush(a) ==
    /\ durable' = [durable EXCEPT ![a] = mark[a]]
    /\ faults' \in {faults, faults + 1}
    /\ UNCHANGED <<balance, mark>>

(* The write of one account's checkpoint fails, and its part is lost. *)
Lose(a) ==
    /\ faults' = faults + 1
    /\ balance' = [balance EXCEPT ![a] = @ - (mark[a] - durable[a])]
    /\ mark' = [mark EXCEPT ![a] = durable[a]]
    /\ UNCHANGED durable

(* A fault before a change is counted, or one of Redis. *)
Fail == faults' = faults + 1 /\ UNCHANGED <<balance, mark, durable>>

(* The process ends: what is in the rows is all there is. *)
Crash ==
    /\ faults' = faults + 1
    /\ balance' = durable /\ mark' = durable
    /\ UNCHANGED durable

Next ==
    \/ \E a \in Accounts :
         Flush(a) \/ Lose(a) \/ \E d \in Deltas : Add(a, d) \/ AddDurable(a, d)
    \/ \E A \in SUBSET Accounts : Checkpoint(A)
    \/ Fail \/ Crash

Spec == Init /\ [][Next]_vars
=============================================================================
