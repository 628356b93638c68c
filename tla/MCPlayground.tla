---------------------------- MODULE MCPlayground ----------------------------
(* Instances of Playground for TLC. *)
EXTENDS Playground

(* The invariants but TypeOK say nothing of a state with a cause, and a cause
   stays: such states are checked and not continued. *)
NoCauseYet == cause = {}
=============================================================================
