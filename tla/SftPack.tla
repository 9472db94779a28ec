------------------------------ MODULE SftPack ------------------------------
(***************************************************************************)
(* Packing the SFT epoch: pack_epoch of tasks/pack.rs.  Conversations are  *)
(* known by their position in the shuffled stream; of their tokens only    *)
(* the number is kept, and of the packed epoch where each conversation     *)
(* starts: every token that no conversation covers is padding.             *)
(***************************************************************************)
EXTENDS Integers, Sequences, FiniteSets

CONSTANTS
  Capacity,     \* tokens of a row: seq_len + 1
  BufferSize    \* lookahead window, in conversations

ASSUME PackAssumption ==
  Capacity \in Nat /\ Capacity >= 2 /\ BufferSize \in Nat \ {0}

VARIABLES
  stream,    \* lengths of the rendered conversations, in stream order
  src,       \* conversations taken from the stream
  buf,       \* the lookahead buffer, in arrival order
  at,        \* where each conversation starts in the epoch, -1: nowhere yet
  tokens,    \* length of the epoch so far
  rowStart,  \* where the open row starts
  pads,      \* pad_tokens
  pc         \* enter a row, fill it, done, panic

packVars == <<stream, src, buf, at, tokens, rowStart, pads, pc>>

(* pack_epoch of a stream of conversations of these lengths. *)
PackOf(lengths) ==
  /\ stream = lengths
  /\ src = 0 /\ buf = <<>> /\ at = [k \in DOMAIN lengths |-> -1]
  /\ tokens = 0 /\ rowStart = 0 /\ pads = 0 /\ pc = "enter"

-----------------------------------------------------------------------------
(* refill: top the buffer up, and what it asserts of every arrival. *)
Arrivals(b) ==
  LET free == BufferSize - Len(b)
      left == Len(stream) - src
  IN  [i \in 1 .. (IF free < left THEN free ELSE left) |-> src + i]
Refilled(b) == b \o Arrivals(b)
Packable(k) == stream[k] >= 1 /\ stream[k] <= Capacity

TopUp(b) == Refilled(b)

Takes(b, filled, point) ==
  /\ buf' = filled
  /\ src' = src + Len(filled) - Len(b)
  /\ pc' = IF \A i \in DOMAIN filled : Packable(filled[i]) THEN point ELSE "panic"

Remaining == Capacity - (tokens - rowStart)

(* The scan: the largest that fits, the first on ties (len > best_len). *)
MutantFits(i) == stream[buf[i]] <= Capacity
Fits(i) == stream[buf[i]] <= Remaining
Beats(i, j) == \/ stream[buf[i]] > stream[buf[j]]
               \/ stream[buf[i]] = stream[buf[j]] /\ i <= j
Best == CHOOSE i \in DOMAIN buf :
          Fits(i) /\ \A j \in DOMAIN buf : Fits(j) => Beats(i, j)

(* buf.remove(i), against buf.swap_remove(i). *)
MutantWithout(b, i) ==
  IF i = Len(b) THEN SubSeq(b, 1, i - 1)
                ELSE [SubSeq(b, 1, Len(b) - 1) EXCEPT ![i] = b[Len(b)]]
Without(b, i) == SubSeq(b, 1, i - 1) \o SubSeq(b, i + 1, Len(b))

EnterRow ==
  /\ pc = "enter"
  /\ Takes(buf, Refilled(buf), IF Refilled(buf) = <<>> THEN "done" ELSE "fill")
  /\ rowStart' = tokens
  /\ UNCHANGED <<stream, at, tokens, pads>>

PackBest ==
  /\ pc = "fill" /\ \E i \in DOMAIN buf : Fits(i)
  /\ LET rest == Without(buf, Best)
     IN  Takes(rest, TopUp(rest), IF stream[buf[Best]] = Remaining THEN "enter" ELSE "fill")
  /\ at' = [at EXCEPT ![buf[Best]] = tokens]
  /\ tokens' = tokens + stream[buf[Best]]
  /\ UNCHANGED <<stream, rowStart, pads>>

PadRow ==
  /\ pc = "fill" /\ \A i \in DOMAIN buf : ~Fits(i)
  /\ tokens' = tokens + Remaining /\ pads' = pads + Remaining
  /\ pc' = "enter"
  /\ UNCHANGED <<stream, src, buf, at, rowStart>>

PackStep == EnterRow \/ PackBest \/ PadRow

(* pack_epoch by itself, of any stream whatever. *)
PackSpec == (\E lengths \in Seq(Nat) : PackOf(lengths)) /\ [][PackStep]_packVars

-----------------------------------------------------------------------------
(* Properties. *)

Packed == {k \in DOMAIN stream : at[k] # -1}
Cells(k) == at[k] .. at[k] + stream[k] - 1
RowOf(k) == at[k] \div Capacity

(* A conversation is atomic: it lies in one row and overlaps no other;     *)
(* when the packing is done every conversation of the mixture, oversampled *)
(* copies included, is in the epoch, every row starts with a conversation  *)
(* (BOS) and is exactly full, and pad_tokens counts what is left.          *)
PackedWhole ==
  /\ \A k \in Packed :
        /\ RowOf(k) = (at[k] + stream[k] - 1) \div Capacity
        /\ \A j \in Packed \ {k} : Cells(j) \cap Cells(k) = {}
  /\ pc = "done" =>
        /\ Packed = DOMAIN stream
        /\ tokens % Capacity = 0
        /\ \A row \in 0 .. tokens \div Capacity - 1 :
              \E k \in Packed : at[k] = row * Capacity
        /\ pads = tokens - Cardinality(UNION {Cells(k) : k \in Packed})

(* The buffer, the iterator and the row bookkeeping implement best fit     *)
(* over the whole stream.                                                  *)
BestFit == INSTANCE BestFitPack
ImplementsBestFit == BestFit!Spec
=============================================================================
