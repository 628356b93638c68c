----------------------------- MODULE MCChannels -----------------------------
(* Instances of ChannelsPage for TLC. *)
EXTENDS ChannelsPage

(* The properties say nothing of a state with a cause, or with two batches of tests
   at a time, and both stay: such states are checked and not continued. *)
StillGood == cause = {} /\ ~restarted
=============================================================================
