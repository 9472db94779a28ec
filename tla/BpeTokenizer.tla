---------------------------- MODULE BpeTokenizer ----------------------------
(***************************************************************************)
(* A vocabulary is trained, written, read back, and a piece of text is     *)
(* encoded with it: BpeTokenizer::from_file and bpe_encode_piece (bpe.rs). *)
(* The encoder keeps a linked list of spans and a heap of candidate        *)
(* merges.  Candidates are never deleted: those whose spans have changed   *)
(* since are recognized by their generations.  Definitions named Mutant... *)
(* are plausible bugs, used by no specification.                           *)
(***************************************************************************)
EXTENDS BpeTrainer

CONSTANT Pieces      \* the pieces of text to encode, as byte strings

ASSUME PiecesAssumption == Pieces \subseteq Seq(1 .. NumBytes) \ {<<>>}

VARIABLES
  piece,
  bytes,             \* the span that starts at each byte, <<>> once absorbed
  prev, next,
  generation,        \* how often the span at each byte has grown
  heap               \* set of <<rank, left, generation, right, generation>>

encoder == <<piece, bytes, prev, next, generation, heap>>
vars    == <<states, pair_info, merged, learned, pc, pair, locations,
             merged_any, piece, bytes, prev, next, generation, heap>>

(* The encoder map, and byte_pair_ranks for two bytes: a later line of the *)
(* vocabulary replaces an earlier one with the same bytes.                 *)
Known(b) == \E id \in TokenIds : BytesOf(id) = b
Rank(b)  == CHOOSE id \in TokenIds :
              BytesOf(id) = b /\ \A later \in TokenIds : BytesOf(later) = b => later <= id

-----------------------------------------------------------------------------
Entry(bs, gens, left, right) ==
  <<Rank(bs[left] \o bs[right]), left, gens[left], right, gens[right]>>

Seed(p) ==
  LET single == [i \in DOMAIN p |-> <<p[i]>>]
      zero   == [i \in DOMAIN p |-> 0]
  IN {Entry(single, zero, i, i + 1) :
        i \in {k \in 1 .. Len(p) - 1 : Known(<<p[k], p[k + 1]>>)}}

EncodePiece ==
  /\ pc = "trained"
  /\ \E p \in Pieces :
       /\ piece' = p
       /\ bytes' = [i \in DOMAIN p |-> <<p[i]>>]
       /\ prev' = [i \in DOMAIN p |-> i - 1]
       /\ next' = [i \in DOMAIN p |-> IF i < Len(p) THEN i + 1 ELSE None]
       /\ generation' = [i \in DOMAIN p |-> 0]
       /\ heap' = Seed(p)
  /\ pc' = "encode"
  /\ UNCHANGED <<trainer, merged, learned>>

(* The order of the heap: by rank, then by place. *)
ComesFirst(e, f) ==
  \/ e = f
  \/ \E k \in DOMAIN e : e[k] < f[k] /\ SubSeq(e, 1, k - 1) = SubSeq(f, 1, k - 1)

MutantIsStale(e) == next[e[2]] # e[4]
IsStale(e) == next[e[2]] # e[4] \/ generation[e[2]] # e[3] \/ generation[e[4]] # e[5]

PopStale ==
  /\ pc = "encode"
  /\ \E e \in heap :
       /\ \A f \in heap : ComesFirst(e, f)
       /\ IsStale(e)
       /\ heap' = heap \ {e}
  /\ UNCHANGED <<trainer, merged, learned, pc, piece, bytes, prev, next, generation>>

MergeSpans ==
  /\ pc = "encode"
  /\ \E e \in heap :
       LET left == e[2]  right == e[4]  after == next[right]  before == prev[left]
           sides == {side \in {<<before, left>>, <<left, after>>} : None \notin Range(side)}
       IN /\ \A f \in heap : ComesFirst(e, f)
          /\ ~IsStale(e)
          /\ bytes' = [bytes EXCEPT ![left] = @ \o bytes[right], ![right] = <<>>]
          /\ generation' = [generation EXCEPT ![left] = @ + 1]
          /\ next' = [next EXCEPT ![left] = after, ![right] = None]
          /\ prev' = IF after = None THEN prev ELSE [prev EXCEPT ![after] = left]
          /\ heap' = (heap \ {e}) \cup
                {Entry(bytes', generation', side[1], side[2]) :
                   side \in {s \in sides : Known(bytes'[s[1]] \o bytes'[s[2]])}}
  /\ UNCHANGED <<trainer, merged, learned, pc, piece>>

(* The tokens of the spans that are left; an unknown span panics. *)
Encoded ==
  /\ pc = "encode" /\ heap = {}
  /\ pc' = IF \A i \in DOMAIN bytes : bytes[i] # <<>> => Known(bytes[i])
           THEN "encoded" ELSE "unknown"
  /\ UNCHANGED <<trainer, merged, learned, encoder>>

Tokens ==
  Walk([i \in DOMAIN bytes |-> IF bytes[i] = <<>> THEN None ELSE Rank(bytes[i])], next)

TokenizerInit ==
  /\ Init
  /\ piece = <<>> /\ bytes = <<>> /\ prev = <<>> /\ next = <<>>
  /\ generation = <<>> /\ heap = {}

TokenizerNext ==
  \/ TrainNext /\ UNCHANGED encoder
  \/ EncodePiece \/ PopStale \/ MergeSpans \/ Encoded

Spec == TokenizerInit /\ [][TokenizerNext]_vars

-----------------------------------------------------------------------------
(* Properties. *)

(* Every piece, in the corpus or not, is encoded as the training would     *)
(* have segmented it: all merges in the order of learning, each from left  *)
(* to right; although the encoder looks up spans by their bytes alone and  *)
(* pops candidates by rank.  So a corpus word gets the tokens it was       *)
(* counted as, no byte is lost, and no span is unknown in the end.         *)
EncodesAsTrained ==
  /\ pc # "unknown"
  /\ pc = "encoded" => Tokens = Segment(piece)
=============================================================================
