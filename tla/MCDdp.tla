------------------------------- MODULE MCDdp -------------------------------
(* Instances of the training loop for TLC. *)
EXTENDS DdpRefinement, DdpLockstep
=============================================================================
