------------------------------ MODULE MCStart ------------------------------
(* Three ranks whose files may differ.  The packs contain the average of   *)
(* two others (13 rows; digest 2), an epoch of exactly one optimizer step, *)
(* a longer one, one that is too short and one that scores nothing.        *)
EXTENDS SftStart

MCPacks ==
  {[rows |-> rows, pads |-> 0, scored |-> 1, digest |-> 1] : rows \in {5, 12, 13, 14}}
  \cup {[rows |-> 13, pads |-> 0, scored |-> 1, digest |-> d] : d \in {2, 3}}
  \cup {[rows |-> 13, pads |-> 0, scored |-> 0, digest |-> 2]}

(* At two micro-batches of two rows: enough at once, enough uncapped, too  *)
(* little for two, too little for one.                                     *)
MCValFiles ==
  {[capped |-> <<2, 4>>, full |-> 4], [capped |-> <<1, 3>>, full |-> 4],
   [capped |-> <<1, 3>>, full |-> 3], [capped |-> <<1, 1>>, full |-> 1]}

(* Which rank has which files does not matter, so they are given out in    *)
(* ascending order, and not more than one kind differs between the ranks.  *)
Weight(p) == 10 * p.rows + 3 * p.digest + p.scored
OneDifference ==
  /\ \A r \in Ranks \ {0} : Weight(pack[r - 1]) <= Weight(pack[r])
  /\ \/ \A r, q \in Ranks : pack[r] = pack[q] /\ (r > 0 /\ q > 0 => val[r] = val[q])
     \/ \A r, q \in Ranks : val[r] = val[q]
MCInit == Init /\ OneDifference
MCSpec == MCInit /\ [][Next]_vars /\ \A r \in Ranks : WF_vars(RankStep(r))
=============================================================================
