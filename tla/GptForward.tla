---------------------------- MODULE GptForward ----------------------------
(***************************************************************************)
(* The model under src/model: Gpt::forward of a training pass with its     *)
(* backward, and Gpt::forward_with_cache of decoding, layer by layer and,  *)
(* inside attention, chunk by chunk of query rows (flash_attention.rs).    *)
(*                                                                         *)
(* An activation is the term that computes it: which weight was applied to *)
(* what, rotated for which position, mixed over which keys and values.     *)
(* Batch and heads are independent and left out.  Rows count from 0.       *)
(* Definitions named Mutant... are plausible bugs, used by no              *)
(* specification.                                                          *)
(***************************************************************************)
EXTENDS Integers, Sequences, FiniteSets

CONSTANTS
  Tokens,      \* token ids
  NumLayers,   \* n_layer
  SeqLen,      \* sequence_len: rows of the RoPE tables and of the mask
  Capacity,    \* capacity of the KvCache
  Chunks,      \* what FLASH_CHUNK may resolve to
  MaxUpsets    \* bound: failed calls and resets of one cache

ASSUME ModelAssumption ==
  /\ NumLayers \in Nat \ {0} /\ SeqLen \in Nat \ {0}
  /\ Capacity \in 1 .. SeqLen      \* KvCache::new refuses a larger one
  /\ Chunks \subseteq Nat \ {0}    \* flash_chunk falls back on a zero
  /\ MaxUpsets \in Nat

VARIABLES
  training,  \* passes with a backward, or decoding over a cache
  chunk,     \* flash_chunk(), resolved once per process
  keys,      \* the K buffers of the cache, per layer
  values,    \* the V buffers
  len,       \* KvCache::len
  fed,       \* history: the tokens the cache stands for
  upsets,    \* failed calls and resets so far
  pc,
  idx,       \* the tokens of the call in progress
  t0,        \* absolute position of its first row
  layer,     \* the block it is at
  x,         \* the residual stream, one term per row
  c0,        \* first row of the chunk
  out,       \* rows of attention output so far
  lse,       \* rows of the normaliser so far
  ops,       \* per layer, what its FlashAttnOp keeps for the backward
  scored,    \* rows whose target is not ignore_index
  live,      \* rows whose output carries a gradient
  dq, dk, dv \* the gradients of the layer: softmax terms added, per row

cacheVars == <<keys, values, len, fed, upsets>>
fwdVars   == <<idx, t0, layer, x, c0, out, lse, ops>>
bwdVars   == <<scored, live, dq, dk, dv>>
vars      == <<training, chunk, cacheVars, pc, fwdVars, bwdVars>>

Layers  == 0 .. NumLayers - 1
Rows(n) == 0 .. n - 1
T       == Len(idx)
Least(a, b) == IF a < b THEN a ELSE b

-----------------------------------------------------------------------------
(* The sub-layers, one row at a time. *)

Embedded(token)    == <<"wte", token>>
Projected(w, term) == <<w, term>>
Rotated(term, p)   == <<"rope", p, term>>
Normed(term)       == <<"norm", term>>
MlpOf(term)        == Projected("mlp.c_proj", <<"relu2", Projected("c_fc", term)>>)

(* RoPE, then QK-norm, at an absolute position. *)
Query(term, p) == Normed(Rotated(Projected("c_q", Normed(term)), p))
Key(term, p)   == Normed(Rotated(Projected("c_k", Normed(term)), p))
Value(term)    == Projected("c_v", Normed(term))

(* Softmax(q k^T) v, as the set of what is mixed. *)
Mixed(q, pairs) == <<"mix", q, pairs>>
Normaliser(q, ks) == <<"lse", q, ks>>

BlockOutput(term, mixed) ==
  LET a == <<"+", term, Projected("c_proj", mixed)>>
  IN  <<"+", a, MlpOf(Normed(a))>>

(* What the model means: every row attends to itself and to all before it. *)
NextLayer(h) ==
  [p \in DOMAIN h |->
     BlockOutput(h[p], Mixed(Query(h[p], p - 1),
                             {<<Key(h[j], j - 1), Value(h[j])>> : j \in 1 .. p}))]

Reference(tokens) ==
  LET X[l \in 0 .. NumLayers] ==
        IF l = 0 THEN [p \in DOMAIN tokens |-> Embedded(tokens[p])]
                 ELSE NextLayer(X[l - 1])
  IN  X

-----------------------------------------------------------------------------
(* flash_attn_fwd. *)

(* apply_at: the rows of the span stand at its absolute positions. *)
MutantRopePos(r) == r
RopePos(r) == t0 + r

(* The rectangle of the causal mask at rows t0 .. t0 + T. *)
MutantUnmasked(r, j) == j <= r
Unmasked(r, j) == j <= t0 + r

ChunkLen == Least(chunk, T - c0)

(* The causal prefix of the chunk. *)
MutantWidth == c0 + ChunkLen
Width == t0 + c0 + ChunkLen

K(j) == IF training THEN Key(x[j], RopePos(j)) ELSE keys[layer][j]
V(j) == IF training THEN Value(x[j]) ELSE values[layer][j]

Visible(r) == {j \in Rows(Width) : Unmasked(r, j)}

RowsOfChunk == c0 .. c0 + ChunkLen - 1

(* Tensor::cat of the chunks. *)
Extended(f, g) == [r \in DOMAIN f \cup DOMAIN g |->
                     IF r \in DOMAIN f THEN f[r] ELSE g[r]]

AttendChunk ==
  /\ pc = "attend" /\ c0 < T
  /\ LET Q(r) == Query(x[r], RopePos(r)) IN
     /\ out' = Extended(out, [r \in RowsOfChunk |->
                 Mixed(Q(r), {<<K(j), V(j)>> : j \in Visible(r)})])
     /\ lse' = Extended(lse, [r \in RowsOfChunk |->
                 Normaliser(Q(r), {K(j) : j \in Visible(r)})])
  /\ c0' = c0 + ChunkLen
  /\ UNCHANGED <<training, chunk, cacheVars, pc, idx, t0, layer, x, ops, bwdVars>>

-----------------------------------------------------------------------------
(* Gpt::forward_inner. *)

NoRows == [r \in {} |-> 0]

(* Whatever the call held is dropped. *)
Return ==
  /\ pc' = "idle" /\ idx' = <<>> /\ t0' = 0 /\ layer' = 0 /\ c0' = 0
  /\ x' = NoRows /\ out' = NoRows /\ lse' = NoRows /\ ops' = NoRows
  /\ scored' = {} /\ live' = {} /\ dq' = NoRows /\ dk' = NoRows /\ dv' = NoRows

HasRoom(t) == len + t <= Capacity

(* check_room, before any layer writes; then the embedding. *)
Call ==
  /\ pc = "idle"
  /\ \E n \in 1 .. SeqLen : \E tokens \in [1 .. n -> Tokens] :
       /\ training \/ HasRoom(n)
       /\ idx' = tokens /\ t0' = len
       /\ x' = [r \in Rows(n) |-> Embedded(tokens[r + 1])]
  /\ pc' = IF training THEN "attend" ELSE "append_k"
  /\ UNCHANGED <<training, chunk, cacheVars, layer, c0, out, lse, ops, bwdVars>>

CallRefused ==
  /\ pc = "idle" /\ ~training /\ \E n \in 1 .. SeqLen : ~HasRoom(n)
  /\ UNCHANGED vars

(* Cache::append: in place, at the absolute position of the span. *)
Written(buffer, span) ==
  [buffer EXCEPT ![layer] = [p \in Rows(Capacity) |->
     IF p - t0 \in Rows(T) THEN span[p - t0] ELSE @[p]]]

AppendK ==
  /\ pc = "append_k"
  /\ keys' = Written(keys, [r \in Rows(T) |-> Key(x[r], RopePos(r))])
  /\ pc' = "append_v"
  /\ UNCHANGED <<training, chunk, values, len, fed, upsets, fwdVars, bwdVars>>

AppendV ==
  /\ pc = "append_v"
  /\ values' = Written(values, [r \in Rows(T) |-> Value(x[r])])
  /\ pc' = "attend"
  /\ UNCHANGED <<training, chunk, keys, len, fed, upsets, fwdVars, bwdVars>>

(* The rest of the block; FlashAttnOp keeps what its backward needs. *)
Stash == [q |-> [r \in Rows(T) |-> Query(x[r], RopePos(r))],
          k |-> [r \in Rows(T) |-> Key(x[r], RopePos(r))],
          lse |-> lse]

EndBlock ==
  /\ pc = "attend" /\ c0 = T
  /\ x' = [r \in Rows(T) |-> BlockOutput(x[r], out[r])]
  /\ ops' = IF training THEN Extended(ops, [l \in {layer} |-> Stash]) ELSE ops
  /\ layer' = layer + 1
  /\ c0' = 0 /\ out' = NoRows /\ lse' = NoRows
  /\ pc' = IF layer + 1 = NumLayers THEN IF training THEN "head" ELSE "advance"
                                    ELSE IF training THEN "attend" ELSE "append_k"
  /\ UNCHANGED <<training, chunk, cacheVars, idx, t0, bwdVars>>

Advance ==
  /\ pc = "advance"
  /\ len' = len + T /\ fed' = fed \o idx
  /\ pc' = "head"
  /\ UNCHANGED <<training, chunk, keys, values, upsets, fwdVars, bwdVars>>

(* The final norm and lm_head: the logits go to the caller. *)
Logits ==
  /\ pc = "head"
  /\ pc' = "logits"
  /\ UNCHANGED <<training, chunk, cacheVars, fwdVars, bwdVars>>

Decoded == pc = "logits" /\ ~training /\ Return /\ UNCHANGED <<training, chunk, cacheVars>>

(* Any tensor operation of a call may fail, on memory to begin with. *)
Fail ==
  /\ pc # "idle" /\ upsets < MaxUpsets
  /\ Return /\ upsets' = upsets + 1
  /\ UNCHANGED <<training, chunk, keys, values, len, fed>>

(* KvCache::reset keeps the buffers and what is in them. *)
Reset ==
  /\ pc = "idle" /\ ~training /\ len > 0 /\ upsets < MaxUpsets
  /\ len' = 0 /\ fed' = <<>> /\ upsets' = upsets + 1
  /\ UNCHANGED <<training, chunk, keys, values, pc, fwdVars, bwdVars>>

-----------------------------------------------------------------------------
(* masked_nll, then FlashAttnOp::bwd of the layers, the last one first.  A *)
(* gradient is known by the softmax weights that were added into it: for   *)
(* each row of the output, how many times.                                 *)

(* An ignored row contributes a constant zero. *)
Loss ==
  /\ pc = "logits" /\ training
  /\ scored' \in SUBSET Rows(T) /\ live' = scored'
  /\ layer' = NumLayers - 1 /\ pc' = "grad"
  /\ UNCHANGED <<training, chunk, cacheVars, idx, t0, x, c0, out, lse, ops, dq, dk, dv>>

(* exp(S - LSE) is the weight of the forward, 1, if both are of one row    *)
(* and one layer, and something else otherwise.                            *)
MutantStash(l) == ops[NumLayers - 1]
StashOf(l) == ops[l]

Weight(i, j) ==
  LET op == StashOf(layer) IN
  IF j > i \/ i \notin live THEN 0
  ELSE IF op.lse[i] = Normaliser(ops[layer].q[i], {ops[layer].k[m] : m \in 0 .. i})
  THEN 1 ELSE 2

(* The contribution of the chunk to a key-sided gradient, w columns wide.  *)
Contribution ==
  [j \in Rows(c0 + ChunkLen) |-> [i \in Rows(T) |->
     IF i \in RowsOfChunk THEN Weight(i, j) ELSE 0]]

MutantAccumPrefix(acc, contrib) ==
  [j \in DOMAIN contrib |-> IF j \in DOMAIN acc THEN acc[j] ELSE contrib[j]]
AccumPrefix(acc, contrib) ==
  [j \in DOMAIN contrib |->
     IF j \in DOMAIN acc THEN [i \in Rows(T) |-> acc[j][i] + contrib[j][i]]
                         ELSE contrib[j]]

GradChunk ==
  /\ pc = "grad" /\ c0 < T
  /\ dq' = Extended(dq, [i \in RowsOfChunk |->
              [j \in Rows(T) |-> IF j < c0 + ChunkLen THEN Weight(i, j) ELSE 0]])
  /\ dk' = AccumPrefix(dk, Contribution)
  /\ dv' = AccumPrefix(dv, Contribution)
  /\ c0' = c0 + ChunkLen
  /\ UNCHANGED <<training, chunk, cacheVars, pc, idx, t0, layer, x, out, lse, ops, scored, live>>

(* The input of a block gets a gradient through the residual stream, and,  *)
(* as a key or a value, from every later row.                              *)
LiveBelow == live \cup {j \in Rows(T) : \E i \in Rows(T) : dk[j][i] > 0 \/ dv[j][i] > 0}

GradBlock ==
  /\ pc = "grad" /\ c0 = T /\ layer > 0
  /\ layer' = layer - 1 /\ live' = LiveBelow
  /\ c0' = 0 /\ dq' = NoRows /\ dk' = NoRows /\ dv' = NoRows
  /\ UNCHANGED <<training, chunk, cacheVars, pc, idx, t0, x, out, lse, ops, scored>>

Trained ==
  /\ pc = "grad" /\ c0 = T /\ layer = 0 /\ Return
  /\ UNCHANGED <<training, chunk, cacheVars>>

-----------------------------------------------------------------------------
Empty == [l \in Layers |-> [p \in Rows(Capacity) |-> "zero"]]

Init ==
  /\ training \in BOOLEAN /\ chunk \in Chunks
  /\ keys = Empty /\ values = Empty /\ len = 0 /\ fed = <<>> /\ upsets = 0
  /\ pc = "idle" /\ idx = <<>> /\ t0 = 0 /\ layer = 0 /\ c0 = 0
  /\ x = NoRows /\ out = NoRows /\ lse = NoRows /\ ops = NoRows
  /\ scored = {} /\ live = {} /\ dq = NoRows /\ dk = NoRows /\ dv = NoRows

Next ==
  \/ Call \/ CallRefused \/ AppendK \/ AppendV \/ AttendChunk \/ EndBlock
  \/ Advance \/ Logits \/ Decoded \/ Fail \/ Reset
  \/ Loss \/ GradChunk \/ GradBlock \/ Trained
Spec == Init /\ [][Next]_vars

-----------------------------------------------------------------------------
(* Properties. *)

(* Logits are those of the whole causal context, each token at its own     *)
(* position, whichever way they were come by: in one pass or span by span  *)
(* over the cache, in chunks of any width, after failed calls, resets and  *)
(* rows left behind by either.                                             *)
LogitsAreCausal ==
  pc = "logits" =>
    LET tokens == IF training THEN idx ELSE fed IN
    x = [r \in Rows(T) |-> Reference(tokens)[NumLayers][t0 + r + 1]]

(* Between calls the cache holds, in every layer, the keys and the values  *)
(* of the tokens it stands for: "a failure partway through leaves pos      *)
(* untouched and the next forward simply overwrites the partial writes".   *)
CacheHoldsPrefix ==
  pc = "idle" =>
    /\ len = Len(fed)
    /\ \A l \in Layers : \A p \in Rows(len) :
         LET h == Reference(fed)[l][p + 1] IN
         keys[l][p] = Key(h, p) /\ values[l][p] = Value(h)

(* The backward of a block adds every softmax weight of the forward that   *)
(* carries a gradient into dQ, dK and dV, and adds it once, whatever the   *)
(* width of the chunks and of the prefix accumulators.                     *)
GradientsComplete ==
  pc = "grad" /\ c0 = T =>
    \A i, j \in Rows(T) :
      LET once == IF j <= i /\ i \in live THEN 1 ELSE 0 IN
      dq[i][j] = once /\ dk[j][i] = once /\ dv[j][i] = once
=============================================================================
