------------------------------- MODULE MCChat -------------------------------
(* Conversations of up to three turns in a context of 16 tokens, and       *)
(* samples that run past it.                                               *)
EXTENDS ChatSession
=============================================================================
