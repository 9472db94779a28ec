------------------------------ MODULE MCLaunch ------------------------------
(* Instances of the launched training run for TLC. *)
EXTENDS LaunchedTrain
=============================================================================
