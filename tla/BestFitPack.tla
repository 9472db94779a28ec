---------------------------- MODULE BestFitPack ----------------------------
(***************************************************************************)
(* What SFT packing promises, without the buffer, the source iterator and  *)
(* the row bookkeeping of tasks/pack.rs: rows are filled one after the     *)
(* other, each time with the longest conversation that fits among the      *)
(* first BufferSize not yet packed, the earliest of them on a tie; a gap   *)
(* that none of those fits is padded.                                      *)
(***************************************************************************)
EXTENDS Integers, Sequences, FiniteSets

CONSTANTS Capacity, BufferSize

VARIABLES stream, at, tokens

Unpacked == {k \in DOMAIN stream : at[k] = -1}
Window   == {k \in Unpacked :
               Cardinality({j \in Unpacked : j < k}) < BufferSize}
Gap      == Capacity - (tokens % Capacity)
Fitting  == {k \in Window : stream[k] <= Gap}

PackNext ==
  \E k \in Fitting :
     /\ \A j \in Fitting : /\ stream[j] <= stream[k]
                           /\ stream[j] = stream[k] => k <= j
     /\ at' = [at EXCEPT ![k] = tokens]
     /\ tokens' = tokens + stream[k]
     /\ UNCHANGED stream

PadGap ==
  /\ tokens % Capacity # 0 /\ Fitting = {}
  /\ tokens' = tokens + Gap
  /\ UNCHANGED <<stream, at>>

Init == at = [k \in DOMAIN stream |-> -1] /\ tokens = 0
Next == PackNext \/ PadGap
Spec == Init /\ [][Next]_<<stream, at, tokens>>
=============================================================================
