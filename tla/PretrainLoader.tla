--------------------------- MODULE PretrainLoader ---------------------------
(***************************************************************************)
(* The pretraining data of all ranks: ShardTextIter of data/parquet.rs and *)
(* encode_docs and BatchAssembler of data/loader.rs.  A document is known  *)
(* by its position among the texts of the train split, and only its number *)
(* of tokens is kept.                                                      *)
(***************************************************************************)
EXTENDS Integers, Sequences, FiniteSets, SequencesExt

CONSTANTS
  W,           \* ranks
  RowLen,      \* tokens of a row: T + 1
  BufferSize,  \* documents in the pool
  Corpora,     \* sequences of shards; a shard is a sequence of body lengths
  MaxRows,     \* bound: rows a rank packs
  MaxErrors    \* bound: failing reads of a rank

Ranks == 0 .. W - 1
Null  == -1    \* a row of a shard without a text

ASSUME LoaderAssumption ==
  /\ W \in Nat \ {0} /\ RowLen \in Nat \ {0} /\ BufferSize \in Nat \ {0}
  /\ MaxRows \in Nat /\ MaxErrors \in Nat
  /\ \A c \in Corpora : c \in Seq(Seq(Nat \cup {Null})) /\ Len(c) >= 2

VARIABLES
  texts,     \* body lengths of the texts of the train split, in order
  index,     \* per rank: texts read in this pass
  produced,  \* per rank: docs_produced_this_pass
  passes,    \* per rank: completed passes
  pool,      \* per rank: the documents to choose from
  pos,       \* per rank: tokens in the open row
  rows,      \* per rank: rows packed
  ended,     \* per rank: the stream is over though it has not read every text
  fate,      \* per rank: running, or the panic that ended it
  placed,    \* history: how often each document was placed, cropped or not
  errors,    \* per rank, history: reads that failed
  missed     \* per rank, history: how often that has hidden each document

vars == <<texts, index, produced, passes, pool, pos, rows, ended, fate, placed,
          errors, missed>>

-----------------------------------------------------------------------------
(* The document stream: the shards in the order of their file names, the   *)
(* last of which is the validation split; rows without a text are skipped. *)

TrainShards(corpus) == SubSeq(corpus, 1, Len(corpus) - 1)
TextOf(body) == IF body = Null THEN <<>> ELSE <<body>>
TextsOf(corpus) ==
  LET bodies == FlattenSeq(TrainShards(corpus))
  IN  FlattenSeq([i \in DOMAIN bodies |-> TextOf(bodies[i])])
Docs == DOMAIN texts

(* The stride counts every text; an empty one is dropped after it was      *)
(* counted; BOS is put before the rest.  Definitions named Mutant... are   *)
(* plausible bugs, used by no specification.                               *)
Owns(r, d) == (d - 1) % W = r
MutantKeeps(r, d) == d % W = r /\ texts[d] > 0
Keeps(r, d) == Owns(r, d) /\ texts[d] > 0
Tokens(d) == texts[d] + 1

-----------------------------------------------------------------------------
(* refill_pool, one document or one end of a pass at a time. *)

Refilling(r) ==
  /\ rows[r] < MaxRows /\ fate[r] = "running"
  /\ Len(pool[r]) < BufferSize

NextDoc(r) ==
  /\ Refilling(r) /\ index[r] < Len(texts) /\ ~ended[r]
  /\ LET d == index[r] + 1
     IN  /\ index' = [index EXCEPT ![r] = d]
         /\ IF Keeps(r, d)
            THEN /\ produced' = [produced EXCEPT ![r] = @ + 1]
                 /\ pool' = [pool EXCEPT ![r] = Append(@, d)]
            ELSE UNCHANGED <<produced, pool>>
  /\ UNCHANGED <<texts, passes, pos, rows, ended, fate, placed, errors, missed>>

(* A read that fails is the last item of the stream (State::Done).  It     *)
(* takes the number of the next document, and only the rank that owns this *)
(* number looks at it and panics; any other drops it, and with it the rest *)
(* of the pass.                                                            *)
Unread(r) == {d \in Docs : d > index[r] /\ Owns(r, d)}

ReadFails(r) ==
  /\ Refilling(r) /\ ~ended[r] /\ errors[r] < MaxErrors
  /\ errors' = [errors EXCEPT ![r] = @ + 1]
  /\ IF Owns(r, index[r] + 1)
     THEN fate' = [fate EXCEPT ![r] = "read error"] /\ UNCHANGED <<ended, missed>>
     ELSE /\ ended' = [ended EXCEPT ![r] = TRUE]
          /\ missed' = [missed EXCEPT ![r] =
                           [d \in Docs |-> IF d \in Unread(r) THEN @[d] + 1 ELSE @[d]]]
          /\ UNCHANGED fate
  /\ UNCHANGED <<texts, index, produced, passes, pool, pos, rows, placed>>

MutantEmptyPass(r) == produced[r] <= 1
EmptyPass(r) == produced[r] = 0

NextPass(r) ==
  /\ Refilling(r) /\ (index[r] = Len(texts) \/ ended[r])
  /\ IF EmptyPass(r)
     THEN /\ fate' = [fate EXCEPT ![r] = "starved"]
          /\ UNCHANGED <<index, produced, passes, ended>>
     ELSE /\ index' = [index EXCEPT ![r] = 0] /\ ended' = [ended EXCEPT ![r] = FALSE]
          /\ produced' = [produced EXCEPT ![r] = 0]
          /\ passes' = [passes EXCEPT ![r] = @ + 1]
          /\ UNCHANGED fate
  /\ UNCHANGED <<texts, pool, pos, rows, placed, errors, missed>>

-----------------------------------------------------------------------------
(* pack_row: the largest document that fits (max_by_key keeps the last),   *)
(* or else the shortest (min_by_key keeps the first), cropped.             *)

Remaining(r) == RowLen - pos[r]
Fits(r, i) == Tokens(pool[r][i]) <= Remaining(r)

BestFit(r) ==
  CHOOSE i \in DOMAIN pool[r] :
     /\ Fits(r, i)
     /\ \A j \in DOMAIN pool[r] : Fits(r, j) =>
           \/ Tokens(pool[r][j]) < Tokens(pool[r][i])
           \/ Tokens(pool[r][j]) = Tokens(pool[r][i]) /\ j <= i

Shortest(r) ==
  CHOOSE i \in DOMAIN pool[r] : \A j \in DOMAIN pool[r] :
     \/ Tokens(pool[r][j]) > Tokens(pool[r][i])
     \/ Tokens(pool[r][j]) = Tokens(pool[r][i]) /\ j >= i

(* Vec::swap_remove. *)
MutantSwapRemove(s, i) == SubSeq([s EXCEPT ![Len(s)] = s[i]], 1, Len(s) - 1)
SwapRemove(s, i) == SubSeq([s EXCEPT ![i] = s[Len(s)]], 1, Len(s) - 1)

(* The row grows by n tokens of the i-th document of the pool, which is    *)
(* used up; a full row makes way for the next.                             *)
Place(r, i, n) ==
  /\ rows[r] < MaxRows /\ Len(pool[r]) >= BufferSize
  /\ pool' = [pool EXCEPT ![r] = SwapRemove(@, i)]
  /\ placed' = [placed EXCEPT ![r][pool[r][i]] = @ + 1]
  /\ pos' = [pos EXCEPT ![r] = IF @ + n = RowLen THEN 0 ELSE @ + n]
  /\ rows' = [rows EXCEPT ![r] = IF pos[r] + n = RowLen THEN @ + 1 ELSE @]
  /\ UNCHANGED <<texts, index, produced, passes, ended, fate, errors, missed>>

PlaceWhole(r) ==
  /\ \E i \in DOMAIN pool[r] : Fits(r, i)
  /\ Place(r, BestFit(r), Tokens(pool[r][BestFit(r)]))

PlaceCropped(r) ==
  /\ pool[r] # <<>> /\ \A i \in DOMAIN pool[r] : ~Fits(r, i)
  /\ Place(r, Shortest(r), Remaining(r))

Init ==
  /\ \E corpus \in Corpora : texts = TextsOf(corpus)
  /\ index = [r \in Ranks |-> 0] /\ produced = [r \in Ranks |-> 0]
  /\ passes = [r \in Ranks |-> 0] /\ pool = [r \in Ranks |-> <<>>]
  /\ pos = [r \in Ranks |-> 0] /\ rows = [r \in Ranks |-> 0]
  /\ ended = [r \in Ranks |-> FALSE] /\ fate = [r \in Ranks |-> "running"]
  /\ errors = [r \in Ranks |-> 0]
  /\ placed = [r \in Ranks |-> [d \in Docs |-> 0]] /\ missed = placed

RankStep(r) == NextDoc(r) \/ NextPass(r) \/ PlaceWhole(r) \/ PlaceCropped(r)

Next == \E r \in Ranks : RankStep(r) \/ ReadFails(r)
Spec == Init /\ [][Next]_vars
FairSpec == Spec /\ \A r \in Ranks : WF_vars(RankStep(r))

-----------------------------------------------------------------------------
(* Properties. *)

Stride(r) == {d \in Docs : Owns(r, d) /\ texts[d] # 0}
InPool(r, d) == Cardinality({i \in DOMAIN pool[r] : pool[r][i] = d})
TimesRead(r, d) == passes[r] + (IF d <= index[r] \/ ended[r] THEN 1 ELSE 0)

(* The ranks' streams partition the corpus, and no document is lost or     *)
(* used twice: rank r has drawn each document of its stride, and no other, *)
(* once in every pass that has got past it, except where a read failed,    *)
(* and what it has drawn is either placed or still in the pool.            *)
DocsConserved ==
  \A r \in Ranks, d \in Docs :
     placed[r][d] + InPool(r, d) =
       IF d \in Stride(r) THEN TimesRead(r, d) - missed[r][d] ELSE 0

(* Every rank packs as many rows as are asked of it, however often it has  *)
(* to go through the corpus, or panics; without a failing read it panics   *)
(* exactly if it has no document at all.                                   *)
RowsOrPanic ==
  \A r \in Ranks :
     <>[](IF errors[r] > 0 THEN rows[r] = MaxRows \/ fate[r] # "running"
          ELSE IF Stride(r) = {} THEN fate[r] = "starved" \/ MaxRows = 0
          ELSE rows[r] = MaxRows)

(* encode_docs: "the ranks' streams partition the corpus disjointly and    *)
(* exhaustively", and a shard that cannot be read is a panic: no rank goes *)
(* on to a new pass after it has left out documents of its stride.         *)
StreamsExhaustive ==
  \A r \in Ranks : \A d \in Stride(r) :
     placed[r][d] + InPool(r, d) >= passes[r]
=============================================================================
