------------------------------ MODULE BpeVocab ------------------------------
(***************************************************************************)
(* The vocabulary shared by the BPE trainer and the encoder (Vocab of      *)
(* tokenizer/shared.rs): a token id is a byte or stands for the byte       *)
(* string it was learned as.  The model has NumBytes bytes for 256.        *)
(***************************************************************************)
EXTENDS Integers, Sequences, SequencesExt

CONSTANTS
  NumBytes,    \* the bytes are 1 .. NumBytes, and their own token ids
  NumMerges,   \* num_merges
  Corpora      \* the corpora: sequences of words [tokens, count]

ASSUME VocabAssumption ==
  /\ NumBytes \in Nat \ {0} /\ NumMerges \in Nat
  /\ Corpora \subseteq
       Seq([tokens : Seq(1 .. NumBytes) \ {<<>>}, count : Nat \ {0}])

VARIABLES
  merged,      \* Vocab::merged: the bytes of each learned token
  learned      \* history: the pair each was learned from

BytesOf(id) == IF id <= NumBytes THEN <<id>> ELSE merged[id - NumBytes]
TokenIds    == 1 .. NumBytes + Len(merged)

PushMerge(pair) ==
  /\ merged'  = Append(merged, BytesOf(pair[1]) \o BytesOf(pair[2]))
  /\ learned' = Append(learned, pair)

-----------------------------------------------------------------------------
(* The order of byte strings, and of pairs of tokens. *)
Before(s, t) ==
  \E i \in 1 .. Len(t) :
     /\ i <= Len(s) + 1 /\ SubSeq(s, 1, i - 1) = SubSeq(t, 1, i - 1)
     /\ i <= Len(s) => s[i] < t[i]

PairBefore(p, q) ==
  \/ Before(BytesOf(p[1]), BytesOf(q[1]))
  \/ BytesOf(p[1]) = BytesOf(q[1]) /\ Before(BytesOf(p[2]), BytesOf(q[2]))

(* The pairs that no other pair beats: more frequent, or as frequent and   *)
(* later in byte order.  Pairs of equal bytes would tie.                   *)
Best(count) ==
  {p \in DOMAIN count : count[p] > 0 /\
     \A q \in DOMAIN count :
        \/ count[q] < count[p]
        \/ count[q] = count[p] /\ ~PairBefore(p, q)}

-----------------------------------------------------------------------------
(* The greedy merge of one pair in one word, from left to right. *)
MergeNext(seg, t, pair, id) ==
  IF seg # <<>> /\ <<Last(seg), t>> = pair THEN Append(Front(seg), id) ELSE Append(seg, t)

MergeAll(tokens, pair, id) ==
  LET seg[n \in 0 .. Len(tokens)] ==
        IF n = 0 THEN <<>> ELSE MergeNext(seg[n - 1], tokens[n], pair, id)
  IN seg[Len(tokens)]

(* A byte string segmented by the merges, in the order of learning. *)
Segments(bytes) ==
  LET seg[k \in 0 .. Len(learned)] ==
        IF k = 0 THEN bytes ELSE MergeAll(seg[k - 1], learned[k], NumBytes + k)
  IN seg
Segment(bytes) == Segments(bytes)[Len(learned)]

(* The values along a linked list, from its first node. *)
None == 0
Walk(value, next) ==
  LET from[i \in 0 .. Len(next)] ==
        IF i = None THEN <<>> ELSE <<value[i]>> \o from[next[i]]
  IN from[1]
=============================================================================
