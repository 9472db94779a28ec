----------------------------- MODULE MCForward -----------------------------
(* Two layers, contexts of three tokens over a cache of the same length,   *)
(* chunks of one, two and more rows than there are.                        *)
EXTENDS GptForward
=============================================================================
