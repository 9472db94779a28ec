------------------------------ MODULE NaiveBpe ------------------------------
(***************************************************************************)
(* Byte-pair encoding as it is defined: count the adjacent pairs of all    *)
(* words anew, make a token of the most frequent one, and replace it in    *)
(* every word from left to right.  What the trainer promises, without its  *)
(* linked lists and tables.                                                *)
(***************************************************************************)
EXTENDS BpeVocab, FiniteSets

VARIABLES
  words,       \* the corpus as segmented so far
  training

nvars == <<words, merged, learned, training>>

(* The places of all words where two tokens meet, once for each time a     *)
(* word counts: <<word, place, copy>>.                                     *)
Occurrences ==
  UNION {{k} \X (1 .. Len(words[k].tokens) - 1) \X (1 .. words[k].count) : k \in DOMAIN words}
PairAt(o) == <<words[o[1]].tokens[o[2]], words[o[1]].tokens[o[2] + 1]>>

Counts ==
  [pair \in {PairAt(o) : o \in Occurrences} |->
     Cardinality({o \in Occurrences : PairAt(o) = pair})]

MergeBest ==
  /\ training /\ Len(merged) < NumMerges
  /\ \E pair \in Best(Counts) :
       /\ PushMerge(pair)
       /\ words' = [k \in DOMAIN words |-> [words[k] EXCEPT !.tokens =
                       MergeAll(@, pair, NumBytes + Len(merged'))]]
  /\ UNCHANGED training

(* Only the vocabulary outlives the training. *)
Stop ==
  /\ training /\ (Len(merged) = NumMerges \/ Best(Counts) = {})
  /\ training' = FALSE /\ words' = <<>>
  /\ UNCHANGED <<merged, learned>>

Init ==
  /\ words \in Corpora
  /\ merged = <<>> /\ learned = <<>> /\ training = TRUE

Next == MergeBest \/ Stop
Spec == Init /\ [][Next]_nvars
=============================================================================
