------------------------- MODULE GptForwardProofs -------------------------
(***************************************************************************)
(* For any number of layers, any context, any width of chunk and any       *)
(* calls, failures and resets:                                             *)
(*                                                                         *)
(* The backward of flash attention is complete.  What a forward chunk      *)
(* keeps as the normaliser of a row is the normaliser of its whole causal  *)
(* context; every block stashes it beside its own queries and keys; so the *)
(* weight recomputed by the backward is the weight of the forward; and the *)
(* prefix accumulators hold, for the chunks done, each weight once.        *)
(*                                                                         *)
(* Then the logits are causal and the cache holds its prefix.  A row of    *)
(* the reference depends on no token after it, which is shown by counting  *)
(* layers; so the keys and values of a prefix stay right when the context  *)
(* grows.  A call writes behind the prefix only, in every layer, and the   *)
(* length moves when all layers have written: so the prefix is held at     *)
(* every moment, and a call that fails halfway leaves nothing to undo.     *)
(***************************************************************************)
EXTENDS GptForward, FiniteSetTheorems, WellFoundedInduction, TLAPS

USE DEF Rows, T

-----------------------------------------------------------------------------
(* The inductive invariant. *)

(* The normaliser of row i over all rows up to it. *)
Full(q, k, i) == Normaliser(q[i], {k[m] : m \in 0 .. i})

AttendedSoFar ==
  /\ layer \in Layers
  /\ DOMAIN lse = Rows(c0)
  /\ \A r \in Rows(c0) :
       lse[r] = Normaliser(Query(x[r], r), {Key(x[j], j) : j \in 0 .. r})

Stashed(n) ==
  /\ DOMAIN ops = Rows(n)
  /\ \A l \in Rows(n) : \A i \in Rows(T) : ops[l].lse[i] = Full(ops[l].q, ops[l].k, i)

Once(i, j) == IF j <= i /\ i \in live THEN 1 ELSE 0

AddedSoFar ==
  /\ layer \in Layers /\ live \subseteq Rows(T)
  /\ DOMAIN dq = Rows(c0) /\ DOMAIN dk = Rows(c0) /\ DOMAIN dv = Rows(c0)
  /\ \A i \in Rows(c0) : \A j \in Rows(T) : dq[i][j] = Once(i, j)
  /\ \A j \in Rows(c0) : \A i \in Rows(T) :
       /\ dk[j][i] = (IF i < c0 THEN Once(i, j) ELSE 0)
       /\ dv[j][i] = (IF i < c0 THEN Once(i, j) ELSE 0)

NothingAdded == DOMAIN dq = {} /\ DOMAIN dk = {} /\ DOMAIN dv = {}

TrainingInv ==
  /\ chunk \in Nat \ {0} /\ idx \in Seq(Tokens) /\ c0 \in 0 .. T
  /\ len = 0 /\ t0 = 0
  /\ pc \in {"idle", "attend", "head", "logits", "grad"}
  /\ pc = "idle" => layer = 0 /\ c0 = 0 /\ DOMAIN lse = {} /\ DOMAIN ops = {}
  /\ pc = "attend" => AttendedSoFar /\ Stashed(layer)
  /\ pc \in {"head", "logits", "grad"} => Stashed(NumLayers)
  /\ pc \in {"head", "logits"} => c0 = 0
  /\ pc # "grad" => NothingAdded
  /\ pc = "grad" => AddedSoFar

GradInv ==
  /\ training \in BOOLEAN
  /\ pc = "grad" => training
  /\ training => TrainingInv

-----------------------------------------------------------------------------
LEMMA NoRowsDomain == DOMAIN NoRows = {}
BY DEF NoRows

(* The chunk is not empty and ends inside the call. *)
LEMMA ChunkBounds ==
  ASSUME chunk \in Nat \ {0}, idx \in Seq(Tokens), c0 \in 0 .. T, c0 < T
  PROVE  ChunkLen \in Nat /\ ChunkLen > 0 /\ c0 + ChunkLen \in 0 .. T
<1>1. T \in Nat
  OBVIOUS
<1> QED BY <1>1 DEF ChunkLen, Least

(* Init establishes the invariant. *)
LEMMA InitGradInv == Init => GradInv
<1> SUFFICES ASSUME Init PROVE GradInv
  OBVIOUS
<1>1. chunk \in Nat \ {0}
  BY ModelAssumption DEF Init
<1>2. idx \in Seq(Tokens) /\ T = 0
  BY DEF Init
<1>3. DOMAIN NoRows = {}
  BY NoRowsDomain
<1> QED BY <1>1, <1>2, <1>3 DEF Init, GradInv, TrainingInv, NothingAdded

(* A call that returns or fails leaves nothing behind. *)
LEMMA ReturnGradInv ==
  ASSUME GradInv, Return, UNCHANGED <<training, chunk, len>>
  PROVE  GradInv'
<1>1. idx' \in Seq(Tokens) /\ Len(idx') = 0
  BY DEF Return
<1>2. DOMAIN NoRows = {}
  BY NoRowsDomain
<1> QED BY <1>1, <1>2 DEF Return, GradInv, TrainingInv, NothingAdded

-----------------------------------------------------------------------------
(* The forward of a training pass. *)

LEMMA CallGradInv ==
  ASSUME GradInv, Call PROVE GradInv'
<1> SUFFICES ASSUME training PROVE TrainingInv'
  BY DEF GradInv, Call
<1>1. PICK n \in 1 .. SeqLen : \E tokens \in [1 .. n -> Tokens] : idx' = tokens /\ t0' = len
  BY DEF Call
<1>2. idx' \in Seq(Tokens)
  BY <1>1, ModelAssumption
<1>3. NumLayers \in Nat \ {0}
  BY ModelAssumption
<1>4. layer' = 0 /\ c0' = 0 /\ len' = 0 /\ t0' = 0 /\ pc' = "attend" /\ chunk' \in Nat \ {0}
  BY <1>1 DEF Call, GradInv, TrainingInv, cacheVars
<1>5. Len(idx') \in Nat
  BY <1>2
<1>6. AttendedSoFar'
  BY <1>3, <1>4 DEF Call, AttendedSoFar, Layers, GradInv, TrainingInv
<1>7. Stashed(layer)'
  BY <1>4 DEF Call, Stashed, GradInv, TrainingInv
<1>8. NothingAdded'
  BY DEF Call, NothingAdded, GradInv, TrainingInv, bwdVars
<1> QED BY <1>2, <1>4, <1>5, <1>6, <1>7, <1>8 DEF TrainingInv

(* A chunk of queries sees exactly the rows up to each of them. *)
LEMMA AttendGradInv ==
  ASSUME GradInv, AttendChunk PROVE GradInv'
<1> SUFFICES ASSUME training PROVE TrainingInv'
  BY DEF GradInv, AttendChunk
<1>1. /\ chunk \in Nat \ {0} /\ idx \in Seq(Tokens) /\ c0 \in 0 .. T /\ c0 < T
      /\ T \in Nat /\ t0 = 0 /\ len = 0 /\ pc = "attend" /\ AttendedSoFar /\ Stashed(layer)
  BY DEF GradInv, TrainingInv, AttendChunk
<1>2. ChunkLen \in Nat /\ ChunkLen > 0 /\ c0 + ChunkLen \in 0 .. T
  BY <1>1, ChunkBounds
<1>3. /\ c0' = c0 + ChunkLen /\ idx' = idx /\ layer' = layer /\ x' = x /\ ops' = ops
      /\ t0' = 0 /\ len' = 0 /\ pc' = "attend" /\ chunk' = chunk
  BY <1>1 DEF AttendChunk, cacheVars
<1>4. ASSUME NEW r \in RowsOfChunk
      PROVE  Normaliser(Query(x[r], RopePos(r)), {K(j) : j \in Visible(r)})
               = Normaliser(Query(x[r], r), {Key(x[j], j) : j \in 0 .. r})
  <2>1. r \in Nat /\ r < c0 + ChunkLen
    BY <1>1, <1>2 DEF RowsOfChunk
  <2>2. Visible(r) = 0 .. r
    BY <1>1, <1>2, <2>1 DEF Visible, Width, Unmasked
  <2>3. ASSUME NEW j \in 0 .. r PROVE K(j) = Key(x[j], j)
    BY <1>1, <2>1 DEF K, RopePos
  <2>4. {K(j) : j \in Visible(r)} = {Key(x[j], j) : j \in 0 .. r}
    BY <2>2, <2>3
  <2>5. RopePos(r) = r
    BY <1>1, <2>1 DEF RopePos
  <2> QED BY <2>4, <2>5
<1>5. lse' = [r \in DOMAIN lse \cup RowsOfChunk |->
                IF r \in DOMAIN lse THEN lse[r]
                ELSE Normaliser(Query(x[r], r), {Key(x[j], j) : j \in 0 .. r})]
  BY <1>4 DEF AttendChunk, Extended
<1>6. DOMAIN lse' = Rows(c0')
  BY <1>1, <1>2, <1>3, <1>5 DEF AttendedSoFar, RowsOfChunk
<1>7. AttendedSoFar'
  BY <1>1, <1>3, <1>5, <1>6 DEF AttendedSoFar
<1>8. Stashed(layer)'
  BY <1>1, <1>3 DEF Stashed
<1>9. NothingAdded'
  BY <1>1 DEF AttendChunk, NothingAdded, GradInv, TrainingInv, bwdVars
<1> QED BY <1>1, <1>2, <1>3, <1>7, <1>8, <1>9 DEF TrainingInv

(* The stash of a block is consistent: q, k and lse are of one layer. *)
LEMMA EndBlockGradInv ==
  ASSUME GradInv, EndBlock PROVE GradInv'
<1> SUFFICES ASSUME training PROVE TrainingInv'
  BY DEF GradInv, EndBlock
<1>1. /\ idx \in Seq(Tokens) /\ c0 = T /\ T \in Nat /\ t0 = 0 /\ len = 0
      /\ pc = "attend" /\ AttendedSoFar /\ Stashed(layer) /\ chunk \in Nat \ {0}
  BY DEF GradInv, TrainingInv, EndBlock
<1>2. /\ c0' = 0 /\ idx' = idx /\ layer' = layer + 1 /\ t0' = 0 /\ len' = 0 /\ chunk' = chunk
      /\ lse' = NoRows
      /\ pc' = IF layer + 1 = NumLayers THEN "head" ELSE "attend"
  BY <1>1 DEF EndBlock, cacheVars
<1>3. layer \in Nat /\ layer < NumLayers /\ NumLayers \in Nat
  BY <1>1, ModelAssumption DEF AttendedSoFar, Layers
<1>4. ops' = [l \in DOMAIN ops \cup {layer} |-> IF l \in DOMAIN ops THEN ops[l] ELSE Stash]
  BY DEF EndBlock, Extended
<1>5. DOMAIN ops' = Rows(layer')
  BY <1>1, <1>2, <1>3, <1>4 DEF Stashed
<1>6. ASSUME NEW i \in Rows(T) PROVE Stash.lse[i] = Full(Stash.q, Stash.k, i)
  <2>1. Stash.lse[i] = Normaliser(Query(x[i], i), {Key(x[j], j) : j \in 0 .. i})
    BY <1>1 DEF Stash, AttendedSoFar
  <2>2. Stash.q[i] = Query(x[i], i)
    BY <1>1 DEF Stash, RopePos
  <2>3. ASSUME NEW m \in 0 .. i PROVE Stash.k[m] = Key(x[m], m)
    BY <1>1 DEF Stash, RopePos
  <2>4. {Stash.k[m] : m \in 0 .. i} = {Key(x[j], j) : j \in 0 .. i}
    BY <2>3
  <2> QED BY <2>1, <2>2, <2>4 DEF Full
<1>7. ASSUME NEW l \in Rows(layer'), NEW i \in Rows(T)
      PROVE  ops'[l].lse[i] = Full(ops'[l].q, ops'[l].k, i)
  <2>1. CASE l = layer
    BY <2>1, <1>1, <1>3, <1>4, <1>6 DEF Stashed
  <2>2. CASE l # layer
    <3>1. l \in Rows(layer) /\ l \in DOMAIN ops
      BY <2>2, <1>1, <1>2, <1>3 DEF Stashed
    <3>2. ops'[l] = ops[l]
      BY <3>1, <1>4
    <3> QED BY <3>1, <3>2, <1>1 DEF Stashed
  <2> QED BY <2>1, <2>2
<1>8. Stashed(layer)'
  BY <1>2, <1>5, <1>7 DEF Stashed, Full
<1>9. NothingAdded'
  BY <1>1 DEF EndBlock, NothingAdded, GradInv, TrainingInv, bwdVars
<1>10. CASE layer + 1 = NumLayers
  BY <1>10, <1>1, <1>2, <1>8, <1>9 DEF TrainingInv
<1>11. CASE layer + 1 # NumLayers
  <2>1. AttendedSoFar'
    BY <1>11, <1>2, <1>3, NoRowsDomain DEF AttendedSoFar, Layers
  <2> QED BY <2>1, <1>11, <1>1, <1>2, <1>8, <1>9 DEF TrainingInv
<1> QED BY <1>10, <1>11

-----------------------------------------------------------------------------
(* The backward. *)

LEMMA LossGradInv ==
  ASSUME GradInv, Loss PROVE GradInv'
<1>1. /\ TrainingInv /\ pc = "logits" /\ c0 = 0
  BY DEF GradInv, Loss, TrainingInv
<1>2. /\ layer' = NumLayers - 1 /\ live' \subseteq Rows(T) /\ idx' = idx /\ c0' = 0
      /\ dq' = dq /\ dk' = dk /\ dv' = dv /\ ops' = ops /\ pc' = "grad" /\ training'
  BY <1>1 DEF Loss
<1>3. layer' \in Layers
  BY <1>2, ModelAssumption DEF Layers
<1>4. AddedSoFar'
  BY <1>1, <1>2, <1>3 DEF AddedSoFar, TrainingInv, NothingAdded
<1>5. Stashed(NumLayers)'
  BY <1>1, <1>2 DEF Stashed, TrainingInv
<1>6. chunk' = chunk /\ len' = len /\ t0' = t0 /\ training' = training
  BY DEF Loss, cacheVars
<1> QED BY <1>1, <1>2, <1>4, <1>5, <1>6 DEF GradInv, TrainingInv

(* What the backward recomputes is the weight of the forward, for the rows *)
(* that carry a gradient and the columns before them.                      *)
LEMMA WeightIsOnce ==
  ASSUME Stashed(NumLayers), layer \in Layers, NEW i \in Rows(T), NEW j \in Nat
  PROVE  Weight(i, j) = Once(i, j)
<1>1. layer \in Rows(NumLayers)
  BY DEF Layers
<1>2. ops[layer].lse[i] = Normaliser(ops[layer].q[i], {ops[layer].k[m] : m \in 0 .. i})
  BY <1>1 DEF Stashed, Full
<1>3. i \in Int /\ j \in Int
  OBVIOUS
<1> QED BY <1>2, <1>3 DEF Weight, StashOf, Once

(* A prefix accumulator over one more chunk. *)
LEMMA AccumPrefixAdds ==
  ASSUME NEW acc, idx \in Seq(Tokens), c0 \in 0 .. T, c0 < T, chunk \in Nat \ {0},
         Stashed(NumLayers), layer \in Layers, DOMAIN acc = Rows(c0),
         \A j \in Rows(c0) : \A i \in Rows(T) :
            acc[j][i] = (IF i < c0 THEN Once(i, j) ELSE 0)
  PROVE  /\ DOMAIN AccumPrefix(acc, Contribution) = Rows(c0 + ChunkLen)
         /\ \A j \in Rows(c0 + ChunkLen) : \A i \in Rows(T) :
              AccumPrefix(acc, Contribution)[j][i]
                = (IF i < c0 + ChunkLen THEN Once(i, j) ELSE 0)
<1>1. T \in Nat /\ ChunkLen \in Nat /\ ChunkLen > 0 /\ c0 + ChunkLen \in 0 .. T
  BY ChunkBounds
<1>2. DOMAIN Contribution = Rows(c0 + ChunkLen)
  BY DEF Contribution
<1>3. ASSUME NEW j \in Rows(c0 + ChunkLen), NEW i \in Rows(T)
      PROVE  Contribution[j][i] = IF i \in RowsOfChunk THEN Once(i, j) ELSE 0
  BY <1>1, WeightIsOnce DEF Contribution
<1>4. ASSUME NEW j \in Rows(c0 + ChunkLen), NEW i \in Rows(T)
      PROVE  AccumPrefix(acc, Contribution)[j][i]
               = IF i < c0 + ChunkLen THEN Once(i, j) ELSE 0
  <2>1. CASE j \in Rows(c0)
    <3>1. AccumPrefix(acc, Contribution)[j][i] = acc[j][i] + Contribution[j][i]
      BY <2>1, <1>2 DEF AccumPrefix
    <3>2. acc[j][i] = IF i < c0 THEN Once(i, j) ELSE 0
      BY <2>1
    <3>3. i \in RowsOfChunk <=> (i >= c0 /\ i < c0 + ChunkLen)
      BY <1>1 DEF RowsOfChunk
    <3>4. Once(i, j) \in Int
      BY DEF Once
    <3>5. CASE i < c0
      BY <3>5, <3>1, <3>2, <3>3, <3>4, <1>1, <1>3
    <3>6. CASE i >= c0
      BY <3>6, <3>1, <3>2, <3>3, <3>4, <1>1, <1>3
    <3> QED BY <3>5, <3>6, <1>1
  <2>2. CASE j \notin Rows(c0)
    <3>1. AccumPrefix(acc, Contribution)[j][i] = Contribution[j][i]
      BY <2>2, <1>2 DEF AccumPrefix
    <3>2. i \in RowsOfChunk <=> (i >= c0 /\ i < c0 + ChunkLen)
      BY <1>1 DEF RowsOfChunk
    <3>3. i < c0 => Once(i, j) = 0
      BY <2>2, <1>1 DEF Once
    <3> QED BY <3>1, <3>2, <3>3, <1>1, <1>3
  <2> QED BY <2>1, <2>2
<1> QED BY <1>2, <1>4 DEF AccumPrefix

LEMMA GradChunkGradInv ==
  ASSUME GradInv, GradChunk PROVE GradInv'
<1>1. /\ training /\ TrainingInv /\ pc = "grad" /\ c0 < T /\ AddedSoFar /\ Stashed(NumLayers)
  BY DEF GradInv, GradChunk, TrainingInv
<1>2. /\ T \in Nat /\ c0 \in 0 .. T /\ ChunkLen \in Nat /\ ChunkLen > 0
      /\ c0 + ChunkLen \in 0 .. T
  BY <1>1, ChunkBounds DEF TrainingInv
<1>3. /\ c0' = c0 + ChunkLen /\ idx' = idx /\ layer' = layer /\ live' = live /\ ops' = ops
      /\ chunk' = chunk /\ len' = len /\ t0' = t0 /\ training' = training /\ pc' = "grad"
  BY <1>1 DEF GradChunk, cacheVars
<1>4. /\ DOMAIN dk' = Rows(c0')
      /\ \A j \in Rows(c0') : \A i \in Rows(T) :
           dk'[j][i] = (IF i < c0' THEN Once(i, j) ELSE 0)
  BY <1>1, <1>3, AccumPrefixAdds DEF GradChunk, AddedSoFar, TrainingInv
<1>5. /\ DOMAIN dv' = Rows(c0')
      /\ \A j \in Rows(c0') : \A i \in Rows(T) :
           dv'[j][i] = (IF i < c0' THEN Once(i, j) ELSE 0)
  BY <1>1, <1>3, AccumPrefixAdds DEF GradChunk, AddedSoFar, TrainingInv
<1>6. DOMAIN dq' = Rows(c0')
  BY <1>1, <1>2, <1>3 DEF GradChunk, Extended, AddedSoFar, RowsOfChunk
<1>7. ASSUME NEW i \in Rows(c0'), NEW j \in Rows(T) PROVE dq'[i][j] = Once(i, j)
  <2>1. CASE i \in Rows(c0)
    BY <2>1, <1>1 DEF GradChunk, Extended, AddedSoFar
  <2>2. CASE i \notin Rows(c0)
    <3>1. i \in RowsOfChunk /\ i \in Rows(T) /\ i \notin DOMAIN dq
      BY <2>2, <1>1, <1>2, <1>3 DEF RowsOfChunk, AddedSoFar
    <3>2. dq'[i][j] = IF j < c0 + ChunkLen THEN Weight(i, j) ELSE 0
      BY <3>1 DEF GradChunk, Extended
    <3>3. Weight(i, j) = Once(i, j)
      BY <3>1, <1>1, WeightIsOnce DEF AddedSoFar
    <3>4. j >= c0 + ChunkLen => Once(i, j) = 0
      BY <1>2, <1>3 DEF Once
    <3> QED BY <3>2, <3>3, <3>4, <1>2
  <2> QED BY <2>1, <2>2
<1>8. AddedSoFar'
  BY <1>1, <1>3, <1>4, <1>5, <1>6, <1>7 DEF AddedSoFar, Once
<1>9. Stashed(NumLayers)'
  BY <1>1, <1>3 DEF Stashed
<1> QED BY <1>1, <1>2, <1>3, <1>8, <1>9 DEF GradInv, TrainingInv

LEMMA GradBlockGradInv ==
  ASSUME GradInv, GradBlock PROVE GradInv'
<1>1. /\ training /\ TrainingInv /\ pc = "grad" /\ AddedSoFar /\ Stashed(NumLayers) /\ layer > 0
  BY DEF GradInv, GradBlock, TrainingInv
<1>2. /\ c0' = 0 /\ idx' = idx /\ layer' = layer - 1 /\ live' = LiveBelow /\ ops' = ops
      /\ chunk' = chunk /\ len' = len /\ t0' = t0 /\ training' = training /\ pc' = "grad"
      /\ DOMAIN dq' = {} /\ DOMAIN dk' = {} /\ DOMAIN dv' = {}
  BY <1>1, NoRowsDomain DEF GradBlock, cacheVars
<1>3. layer' \in Layers
  BY <1>1, <1>2, ModelAssumption DEF AddedSoFar, Layers
<1>4. live' \subseteq Rows(T)
  BY <1>1, <1>2 DEF AddedSoFar, LiveBelow
<1>5. AddedSoFar'
  BY <1>2, <1>3, <1>4 DEF AddedSoFar
<1>6. Stashed(NumLayers)'
  BY <1>1, <1>2 DEF Stashed
<1> QED BY <1>1, <1>2, <1>5, <1>6 DEF GradInv, TrainingInv

-----------------------------------------------------------------------------
(* Every step preserves the invariant. *)
LEMMA NextGradInv ==
  ASSUME GradInv, [Next]_vars PROVE GradInv'
<1>1. CASE Call
  BY <1>1, CallGradInv
<1>2. CASE CallRefused \/ UNCHANGED vars
  <2>1. UNCHANGED vars
    BY <1>2 DEF CallRefused
  <2>2. UNCHANGED <<AttendedSoFar, AddedSoFar, NothingAdded>>
    BY <2>1 DEF vars, fwdVars, bwdVars, AttendedSoFar, AddedSoFar, Once, NothingAdded
  <2>3. \A n : Stashed(n) => Stashed(n)'
    BY <2>1 DEF vars, fwdVars, Stashed
  <2> QED BY <2>1, <2>2, <2>3 DEF vars, cacheVars, fwdVars, GradInv, TrainingInv
<1>3. CASE AppendK \/ AppendV \/ Advance
  <2>1. ~training
    BY <1>3 DEF AppendK, AppendV, Advance, GradInv, TrainingInv
  <2> QED BY <1>3, <2>1 DEF AppendK, AppendV, Advance, GradInv
<1>4. CASE AttendChunk
  BY <1>4, AttendGradInv
<1>5. CASE EndBlock
  BY <1>5, EndBlockGradInv
<1>6. CASE Logits
  BY <1>6 DEF Logits, cacheVars, fwdVars, bwdVars, GradInv, TrainingInv,
     Stashed, NothingAdded
<1>7. CASE Decoded \/ Trained \/ Fail
  BY <1>7, ReturnGradInv DEF Decoded, Trained, Fail, cacheVars
<1>8. CASE Reset
  BY <1>8 DEF Reset, GradInv
<1>9. CASE Loss
  BY <1>9, LossGradInv
<1>10. CASE GradChunk
  BY <1>10, GradChunkGradInv
<1>11. CASE GradBlock
  BY <1>11, GradBlockGradInv
<1> QED BY <1>1, <1>2, <1>3, <1>4, <1>5, <1>6, <1>7, <1>8, <1>9, <1>10, <1>11 DEF Next

LEMMA GradInvImplies == GradInv => GradientsComplete
<1> SUFFICES ASSUME GradInv, pc = "grad", c0 = T, NEW i \in Rows(T), NEW j \in Rows(T)
             PROVE  dq[i][j] = Once(i, j) /\ dk[j][i] = Once(i, j) /\ dv[j][i] = Once(i, j)
  BY DEF GradientsComplete, Once
<1>1. AddedSoFar /\ idx \in Seq(Tokens)
  BY DEF GradInv, TrainingInv
<1>2. i < c0
  BY <1>1
<1> QED BY <1>1, <1>2 DEF AddedSoFar

(* For any number of layers, any context and any chunk width, the backward *)
(* of every block adds each softmax weight that carries a gradient into    *)
(* dQ, dK and dV exactly once (flash_attn_bwd, accum_prefix).              *)
THEOREM GradientsAlwaysComplete == Spec => []GradientsComplete
<1>1. GradInv /\ [Next]_vars => GradInv'
  BY NextGradInv
<1> QED BY <1>1, InitGradInv, GradInvImplies, PTL DEF Spec
-----------------------------------------------------------------------------
(* The reference: a recursive function, so it is first shown to be what    *)
(* its recursion says, then to have the rows of its context, then to be    *)
(* causal.  Each is a count over the layers.                               *)

(* The initial segments of the numbers are finite sets ordered as the      *)
(* numbers are, so a set of numbers has a least one.                       *)
LEMMA LeastNatural ==
  ASSUME NEW S, S \subseteq Nat, S # {}
  PROVE  \E m \in S : \A n \in S : m <= n
<1> DEFINE U == {0 .. n : n \in S}
<1>1. U \subseteq FiniteSubsetsOf(Nat) /\ U # {}
  <2>1. \A n \in S : 0 .. n \subseteq Nat /\ IsFiniteSet(0 .. n)
    BY FS_Interval
  <2> QED
    BY <2>1 DEF FiniteSubsetsOf
<1>2. IsWellFoundedOn(StrictSubsetOrdering(Nat), FiniteSubsetsOf(Nat))
  BY FS_StrictSubsetOrderingWellFounded
<1>3. PICK s \in U : \A t \in U : ~(<<t, s>> \in StrictSubsetOrdering(Nat))
  <2> HIDE DEF U
  <2> QED
    BY <1>1, <1>2, WFMin
<1>4. PICK m \in S : s = 0 .. m
  OBVIOUS
<1>5. ASSUME NEW n \in S, ~(m <= n) PROVE FALSE
  <2>1. n \in Nat /\ m \in Nat /\ n < m
    BY <1>5
  <2>2. 0 .. n \subseteq 0 .. m /\ m \in 0 .. m /\ m \notin 0 .. n
    BY <2>1
  <2>3. 0 .. n \in U /\ 0 .. n # 0 .. m /\ 0 .. n \subseteq Nat /\ 0 .. m \subseteq Nat
    BY <2>1, <2>2
  <2>4. <<0 .. n, 0 .. m>> \in StrictSubsetOrdering(Nat)
    BY <2>2, <2>3 DEF StrictSubsetOrdering
  <2> QED
    BY <1>3, <1>4, <2>3, <2>4
<1> QED
  BY <1>5

(* What holds at the embedding, and at a layer if at the one before it,    *)
(* holds at all of them.                                                   *)
LEMMA CountUp ==
  ASSUME NEW S, NEW n \in Nat, 0 \in S,
         \A k \in 0 .. n - 1 : k \in S => k + 1 \in S
  PROVE  \A k \in 0 .. n : k \in S
<1> DEFINE Missed == {k \in 0 .. n : k \notin S}
<1> SUFFICES ASSUME Missed # {} PROVE FALSE
  OBVIOUS
<1>1. Missed \subseteq Nat
  OBVIOUS
<1>2. PICK k \in Missed : \A j \in Missed : k <= j
  <2> HIDE DEF Missed
  <2> QED BY <1>1, LeastNatural
<1>3. k - 1 \in 0 .. n - 1
  BY <1>2
<1>4. k - 1 \in Missed
  BY <1>2, <1>3
<1> QED BY <1>2, <1>4

(* Reference is what its recursion says. *)
LEMMA ReferenceExists ==
  ASSUME NEW tokens
  PROVE  Reference(tokens) =
           [l \in 0 .. NumLayers |->
              IF l = 0 THEN [p \in DOMAIN tokens |-> Embedded(tokens[p])]
                       ELSE NextLayer(Reference(tokens)[l - 1])]
<1> DEFINE Def(X, n) == X = [l \in 0 .. n |->
              IF l = 0 THEN [p \in DOMAIN tokens |-> Embedded(tokens[p])]
                       ELSE NextLayer(X[l - 1])]
           S == {n \in Nat : \E X : Def(X, n)}
<1>1. 0 \in S
  <2> DEFINE X0 == [l \in 0 .. 0 |-> [p \in DOMAIN tokens |-> Embedded(tokens[p])]]
  <2>1. Def(X0, 0)
    OBVIOUS
  <2> QED BY <2>1
<1>2. ASSUME NEW n \in Nat, n \in S PROVE n + 1 \in S
  <2>1. PICK X : Def(X, n)
    BY <1>2
  <2> DEFINE Y == [l \in 0 .. n + 1 |-> IF l = n + 1 THEN NextLayer(X[n]) ELSE X[l]]
  <2>2. ASSUME NEW l \in 0 .. n + 1
        PROVE  Y[l] = IF l = 0 THEN [p \in DOMAIN tokens |-> Embedded(tokens[p])]
                               ELSE NextLayer(Y[l - 1])
    <3>1. CASE l = n + 1
      <4>1. l - 1 = n /\ n \in 0 .. n + 1 /\ n # n + 1 /\ l # 0
        BY <3>1
      <4>2. Y[l - 1] = X[n] /\ Y[l] = NextLayer(X[n])
        BY <3>1, <4>1
      <4> QED BY <4>1, <4>2
    <3>2. CASE l # n + 1
      <4>1. l \in 0 .. n /\ Y[l] = X[l]
        BY <3>2
      <4>2. l # 0 => l - 1 \in 0 .. n + 1 /\ l - 1 # n + 1
        BY <4>1
      <4>3. l # 0 => Y[l - 1] = X[l - 1]
        BY <4>2
      <4> QED BY <2>1, <4>1, <4>3
    <3> QED BY <3>1, <3>2
  <2>3. Def(Y, n + 1)
    <3>1. Y = [l \in 0 .. n + 1 |-> Y[l]]
      OBVIOUS
    <3> HIDE DEF Y
    <3> QED BY <2>2, <3>1
  <2> HIDE DEF Y, Def
  <2>4. \E Z : Def(Z, n + 1)
    BY <2>3
  <2> QED BY <2>4
<1> HIDE DEF Def
<1>3. \E X : Def(X, NumLayers)
  <2>1. NumLayers \in Nat
    BY ModelAssumption
  <2> HIDE DEF S
  <2>2. NumLayers \in S
    BY <1>1, <1>2, <2>1, CountUp
  <2> QED BY <2>2 DEF S
<1>4. Reference(tokens) = CHOOSE X : Def(X, NumLayers)
  BY DEF Reference, Def
<1>5. Def(Reference(tokens), NumLayers)
  BY <1>3, <1>4
<1> QED BY <1>5 DEF Def

(* The rows of the residual stream before block l. *)
LEMMA ReferenceLayers ==
  ASSUME NEW tokens
  PROVE  /\ Reference(tokens)[0] = [p \in DOMAIN tokens |-> Embedded(tokens[p])]
         /\ \A l \in Layers : Reference(tokens)[l + 1] = NextLayer(Reference(tokens)[l])
<1> DEFINE R == Reference(tokens)
<1>1. R = [l \in 0 .. NumLayers |->
             IF l = 0 THEN [p \in DOMAIN tokens |-> Embedded(tokens[p])]
                      ELSE NextLayer(R[l - 1])]
  BY ReferenceExists
<1> HIDE DEF R
<1>2. NumLayers \in Nat
  BY ModelAssumption
<1>3. R[0] = [p \in DOMAIN tokens |-> Embedded(tokens[p])]
  BY <1>1, <1>2
<1>4. ASSUME NEW l \in Layers PROVE R[l + 1] = NextLayer(R[l])
  <2>1. l + 1 \in 0 .. NumLayers /\ l + 1 # 0 /\ (l + 1) - 1 = l
    BY <1>2 DEF Layers
  <2> QED BY <1>1, <2>1
<1> QED BY <1>3, <1>4 DEF R

LEMMA ReferenceRows ==
  ASSUME NEW tokens, NEW l \in 0 .. NumLayers
  PROVE  DOMAIN Reference(tokens)[l] = DOMAIN tokens
<1> DEFINE S == {n \in 0 .. NumLayers : DOMAIN Reference(tokens)[n] = DOMAIN tokens}
<1>1. NumLayers \in Nat
  BY ModelAssumption
<1>2. 0 \in S
  <2>1. Reference(tokens)[0] = [p \in DOMAIN tokens |-> Embedded(tokens[p])]
    BY ReferenceLayers
  <2>2. DOMAIN Reference(tokens)[0] = DOMAIN tokens
    BY <2>1
  <2> QED BY <1>1, <2>2
<1>3. ASSUME NEW n \in 0 .. NumLayers - 1, n \in S PROVE n + 1 \in S
  <2>1. n \in Layers /\ n + 1 \in 0 .. NumLayers
    BY <1>1 DEF Layers
  <2>2. Reference(tokens)[n + 1] = NextLayer(Reference(tokens)[n])
    BY <2>1, ReferenceLayers
  <2> QED BY <1>3, <2>1, <2>2 DEF NextLayer
<1> HIDE DEF S
<1>4. l \in S
  BY <1>1, <1>2, <1>3, CountUp
<1> QED BY <1>4 DEF S

(* Causality: what comes after a row does not change it. *)
LEMMA ReferenceIsCausal ==
  ASSUME NEW s \in Seq(Tokens), NEW u \in Seq(Tokens), NEW l \in 0 .. NumLayers,
         NEW p \in 1 .. Len(s)
  PROVE  Reference(s \o u)[l][p] = Reference(s)[l][p]
<1> DEFINE Same(n) == \A q \in 1 .. Len(s) : Reference(s \o u)[n][q] = Reference(s)[n][q]
           S == {n \in 0 .. NumLayers : Same(n)}
<1>1. NumLayers \in Nat
  BY ModelAssumption
<1>2. /\ DOMAIN s = 1 .. Len(s) /\ Len(s) \in Nat /\ 1 .. Len(s) \subseteq DOMAIN (s \o u)
      /\ \A q \in 1 .. Len(s) : (s \o u)[q] = s[q]
  OBVIOUS
<1>3. 0 \in S
  <2>1. ASSUME NEW q \in 1 .. Len(s) PROVE Reference(s \o u)[0][q] = Reference(s)[0][q]
    <3>1. /\ Reference(s)[0] = [r \in DOMAIN s |-> Embedded(s[r])]
          /\ Reference(s \o u)[0] = [r \in DOMAIN (s \o u) |-> Embedded((s \o u)[r])]
      BY ReferenceLayers
    <3>2. q \in DOMAIN s /\ q \in DOMAIN (s \o u) /\ (s \o u)[q] = s[q]
      BY <1>2
    <3> QED BY <3>1, <3>2
  <2> QED BY <1>1, <2>1
<1>4. ASSUME NEW n \in 0 .. NumLayers - 1, n \in S PROVE n + 1 \in S
  <2>1. n \in Layers /\ n + 1 \in 0 .. NumLayers /\ n \in 0 .. NumLayers
    BY <1>1 DEF Layers
  <2> DEFINE A == Reference(s \o u)[n]  B == Reference(s)[n]
  <2>2. /\ Reference(s \o u)[n + 1] = NextLayer(A) /\ Reference(s)[n + 1] = NextLayer(B)
        /\ DOMAIN A = DOMAIN (s \o u) /\ DOMAIN B = DOMAIN s
    BY <2>1, ReferenceLayers, ReferenceRows
  <2>3. \A q \in 1 .. Len(s) : A[q] = B[q]
    BY <1>4
  <2> HIDE DEF A, B
  <2>4. ASSUME NEW q \in 1 .. Len(s) PROVE NextLayer(A)[q] = NextLayer(B)[q]
    <3>1. A[q] = B[q] /\ q \in DOMAIN A /\ q \in DOMAIN B
      BY <1>2, <2>2, <2>3
    <3>2. \A j \in 1 .. q : A[j] = B[j]
      BY <1>2, <2>3
    <3>3. {<<Key(A[j], j - 1), Value(A[j])>> : j \in 1 .. q}
            = {<<Key(B[j], j - 1), Value(B[j])>> : j \in 1 .. q}
      BY <3>2
    <3> QED BY <3>1, <3>3 DEF NextLayer
  <2> QED BY <2>1, <2>2, <2>4
<1> HIDE DEF S
<1>5. l \in S
  BY <1>1, <1>3, <1>4, CountUp
<1> QED BY <1>5 DEF S
-----------------------------------------------------------------------------
(* The forward, over the cache or in one pass. *)

(* The tokens the rows of a call stand for, the last of them its own. *)
Context ==
  IF training THEN idx ELSE IF pc \in {"head", "logits"} THEN fed ELSE fed \o idx

Stream(l) == Reference(Context)[l]

HeldFor(tokens, l, p) ==
  /\ keys[l][p] = Key(Reference(tokens)[l][p + 1], p)
  /\ values[l][p] = Value(Reference(tokens)[l][p + 1])

(* The output of attention at row p of the stream h. *)
MixedAt(h, p) ==
  Mixed(Query(h[p + 1], p), {<<Key(h[j], j - 1), Value(h[j])>> : j \in 1 .. p + 1})

CacheShape ==
  /\ DOMAIN keys = Layers /\ DOMAIN values = Layers
  /\ \A l \in Layers : DOMAIN keys[l] = Rows(Capacity) /\ DOMAIN values[l] = Rows(Capacity)

(* At every moment, and not only between calls: what the cache stands for  *)
(* is in it, a call writing only behind it until it advances.              *)
PrefixHeld == \A l \in Layers : \A p \in Rows(len) : HeldFor(fed, l, p)

InCall  == {"append_k", "append_v", "attend", "advance"}
Fresh   == len .. len + T - 1

RowsRight == x = [r \in Rows(T) |-> Stream(layer)[t0 + r + 1]]

CallInv ==
  /\ pc \in InCall =>
       /\ t0 = len /\ RowsRight
       /\ ~training => /\ len + T <= Capacity
                       /\ \A l \in Rows(layer) : \A p \in Fresh : HeldFor(fed \o idx, l, p)
  /\ pc \in InCall \ {"advance"} => layer \in Layers
  /\ pc \in InCall \ {"attend"} => ~training
  /\ pc = "append_v" => \A p \in Fresh :
       keys[layer][p] = Key(Reference(fed \o idx)[layer][p + 1], p)
  /\ pc = "attend" =>
       /\ ~training => \A p \in Fresh : HeldFor(fed \o idx, layer, p)
       /\ DOMAIN out = Rows(c0)
       /\ \A r \in Rows(c0) : out[r] = MixedAt(Stream(layer), t0 + r)
  /\ pc \in {"advance", "head", "logits"} => layer = NumLayers
  /\ pc \in {"head", "logits"} => RowsRight
  /\ pc \notin {"attend", "grad"} => c0 = 0 /\ DOMAIN out = {}
  /\ pc = "idle" => layer = 0

CausalInv ==
  /\ training \in BOOLEAN /\ chunk \in Nat \ {0}
  /\ fed \in Seq(Tokens) /\ len = Len(fed) /\ (training => len = 0)
  /\ idx \in Seq(Tokens) /\ t0 \in Nat /\ c0 \in 0 .. T
  /\ pc \in InCall \cup {"idle", "head", "logits", "grad"}
  /\ pc = "grad" => training
  /\ CacheShape /\ PrefixHeld /\ CallInv

LEMMA CausalTypes ==
  ASSUME CausalInv
  PROVE  /\ NumLayers \in Nat \ {0} /\ Capacity \in Nat
         /\ T \in Nat /\ len \in Nat /\ t0 \in Nat /\ c0 \in Nat /\ c0 <= T
         /\ (training => fed = <<>>)
         /\ Context \in Seq(Tokens)
         /\ pc \in InCall => Context = fed \o idx /\ Len(Context) = t0 + T
<1>1. NumLayers \in Nat \ {0} /\ Capacity \in Nat /\ T \in Nat /\ len \in Nat
  BY ModelAssumption DEF CausalInv
<1>2. training => fed = <<>>
  BY DEF CausalInv
<1>3. fed \o idx \in Seq(Tokens) /\ Len(fed \o idx) = len + T
  BY DEF CausalInv
<1>4. fed = <<>> => fed \o idx = idx
  BY DEF CausalInv
<1>5. Context \in Seq(Tokens)
  BY <1>3 DEF Context, CausalInv
<1>6. pc \in InCall => Context = fed \o idx /\ t0 = len
  BY <1>2, <1>4 DEF Context, CausalInv, CallInv, InCall
<1>7. c0 \in Nat /\ c0 <= T /\ t0 \in Nat
  BY <1>1 DEF CausalInv
<1> QED BY <1>1, <1>2, <1>3, <1>5, <1>6, <1>7

(* What is held for a context is held for every longer one. *)
LEMMA HeldForLonger ==
  ASSUME fed \in Seq(Tokens), idx \in Seq(Tokens), NEW l \in Layers, NEW p \in Rows(Len(fed))
  PROVE  HeldFor(fed \o idx, l, p) <=> HeldFor(fed, l, p)
<1>1. l \in 0 .. NumLayers /\ p + 1 \in 1 .. Len(fed)
  BY ModelAssumption DEF Layers
<1>2. Reference(fed \o idx)[l][p + 1] = Reference(fed)[l][p + 1]
  BY <1>1, ReferenceIsCausal
<1> QED BY <1>2 DEF HeldFor

(* In a call, the keys and values that attention reads at rows that exist  *)
(* are those of the reference, whether they come from the cache or not.    *)
LEMMA KeysRead ==
  ASSUME CausalInv, pc = "attend", NEW j \in Rows(t0 + T)
  PROVE  /\ K(j) = Key(Stream(layer)[j + 1], j)
         /\ V(j) = Value(Stream(layer)[j + 1])
<1>1. /\ T \in Nat /\ len \in Nat /\ t0 \in Nat /\ t0 = len /\ layer \in Layers
      /\ Context = fed \o idx /\ fed \in Seq(Tokens) /\ idx \in Seq(Tokens) /\ len = Len(fed)
  BY CausalTypes DEF CausalInv, CallInv, InCall
<1>2. CASE training
  <2>1. t0 = 0 /\ j \in Rows(T) /\ RopePos(j) = j
    BY <1>1, <1>2 DEF CausalInv, RopePos
  <2>2. x[j] = Stream(layer)[j + 1]
    BY <2>1 DEF CausalInv, CallInv, InCall, RowsRight
  <2> QED BY <1>2, <2>1, <2>2 DEF K, V
<1>3. CASE ~training
  <2>1. HeldFor(fed \o idx, layer, j)
    <3>1. CASE j < len
      <4>1. j \in Rows(Len(fed)) /\ HeldFor(fed, layer, j)
        BY <1>1, <3>1 DEF CausalInv, PrefixHeld
      <4> QED BY <1>1, <4>1, HeldForLonger
    <3>2. CASE ~(j < len)
      <4>1. j \in Fresh
        BY <1>1, <3>2 DEF Fresh
      <4> QED BY <1>3, <4>1 DEF CausalInv, CallInv
    <3> QED BY <3>1, <3>2
  <2> QED BY <1>1, <1>3, <2>1 DEF K, V, HeldFor, Stream
<1> QED BY <1>2, <1>3

LEMMA InitCausalInv == Init => CausalInv
<1> SUFFICES ASSUME Init PROVE CausalInv
  OBVIOUS
<1>1. chunk \in Nat \ {0}
  BY ModelAssumption DEF Init
<1>2. idx \in Seq(Tokens) /\ T = 0 /\ fed \in Seq(Tokens) /\ Len(fed) = 0
  BY DEF Init
<1>3. CacheShape
  BY DEF Init, Empty, CacheShape
<1>4. PrefixHeld /\ CallInv
  BY NoRowsDomain DEF Init, PrefixHeld, CallInv, InCall
<1> QED BY <1>1, <1>2, <1>3, <1>4 DEF Init, CausalInv

(* A call that returns or fails leaves the cache as it is. *)
LEMMA ReturnCausal ==
  ASSUME CausalInv, Return, UNCHANGED <<training, chunk, keys, values, len, fed>>
  PROVE  CausalInv'
<1>1. idx' \in Seq(Tokens) /\ Len(idx') = 0 /\ pc' = "idle" /\ t0' = 0 /\ c0' = 0
      /\ layer' = 0 /\ DOMAIN out' = {}
  BY NoRowsDomain DEF Return
<1>2. CacheShape' /\ PrefixHeld'
  BY DEF CausalInv, CacheShape, PrefixHeld, HeldFor
<1>3. CallInv'
  BY <1>1 DEF CallInv, InCall
<1> QED BY <1>1, <1>2, <1>3 DEF CausalInv

LEMMA ResetCausal ==
  ASSUME CausalInv, Reset PROVE CausalInv'
<1>1. /\ pc = "idle" /\ pc' = "idle" /\ len' = 0 /\ fed' = <<>> /\ keys' = keys /\ values' = values
      /\ training' = training /\ chunk' = chunk /\ idx' = idx /\ t0' = t0 /\ layer' = layer
      /\ c0' = c0 /\ out' = out
  BY DEF Reset, fwdVars
<1>2. CacheShape' /\ PrefixHeld'
  BY <1>1 DEF CausalInv, CacheShape, PrefixHeld
<1>3. CallInv'
  BY <1>1 DEF CausalInv, CallInv, InCall
<1> QED BY <1>1, <1>2, <1>3 DEF CausalInv, InCall

LEMMA CallCausal ==
  ASSUME CausalInv, Call PROVE CausalInv'
<1>1. PICK n \in 1 .. SeqLen : \E tokens \in [1 .. n -> Tokens] :
        /\ training \/ HasRoom(n)
        /\ idx' = tokens /\ t0' = len
        /\ x' = [r \in Rows(n) |-> Embedded(tokens[r + 1])]
  BY DEF Call
<1>2. PICK tokens \in [1 .. n -> Tokens] :
        /\ training \/ HasRoom(n)
        /\ idx' = tokens /\ t0' = len
        /\ x' = [r \in Rows(n) |-> Embedded(tokens[r + 1])]
  BY <1>1
<1>3. n \in Nat /\ n > 0 /\ idx' \in Seq(Tokens) /\ Len(idx') = n
  BY <1>2, ModelAssumption
<1>4. /\ layer' = 0 /\ c0' = 0 /\ DOMAIN out' = {} /\ fed' = fed /\ len' = len /\ keys' = keys
      /\ values' = values /\ training' = training /\ chunk' = chunk
      /\ pc' = IF training THEN "attend" ELSE "append_k"
  BY DEF Call, cacheVars, CausalInv, CallInv
<1>5. NumLayers \in Nat \ {0} /\ len \in Nat /\ (training => fed = <<>>)
  BY CausalTypes
<1>6. CacheShape' /\ PrefixHeld'
  BY <1>4 DEF CausalInv, CacheShape, PrefixHeld, HeldFor
<1>7. Context' = fed \o idx'
  BY <1>3, <1>4, <1>5 DEF Context
<1>8. RowsRight'
  <2>1. ASSUME NEW r \in Rows(n)
        PROVE  Embedded(tokens[r + 1]) = Reference(fed \o idx')[0][len + r + 1]
    <3>1. /\ len + r + 1 \in DOMAIN (fed \o idx')
          /\ (fed \o idx')[len + r + 1] = tokens[r + 1]
      BY <1>2, <1>3, <1>5 DEF CausalInv
    <3>2. Reference(fed \o idx')[0] =
            [p \in DOMAIN (fed \o idx') |-> Embedded((fed \o idx')[p])]
      BY ReferenceLayers
    <3> QED BY <3>1, <3>2
  <2> QED BY <1>2, <1>3, <1>4, <1>7, <2>1 DEF RowsRight, Stream
<1>9. layer' \in Layers /\ Rows(layer') = {} /\ Rows(c0') = {}
  BY <1>4, <1>5 DEF Layers
<1>10. ~training => len + n <= Capacity
  BY <1>2 DEF HasRoom
<1>11. CallInv'
  BY <1>2, <1>3, <1>4, <1>8, <1>9, <1>10 DEF CallInv, InCall
<1>12. pc' \in InCall /\ c0' \in 0 .. n
  BY <1>3, <1>4 DEF InCall
<1> QED BY <1>2, <1>3, <1>4, <1>5, <1>6, <1>11, <1>12 DEF CausalInv

(* Cache::append of a layer reaches the rows of the call and no others. *)
LEMMA WrittenRows ==
  ASSUME CausalInv, ~training, pc \in InCall, layer \in Layers, NEW buffer, NEW span,
         DOMAIN buffer = Layers, \A l \in Layers : DOMAIN buffer[l] = Rows(Capacity)
  PROVE  /\ DOMAIN Written(buffer, span) = Layers
         /\ \A l \in Layers : DOMAIN Written(buffer, span)[l] = Rows(Capacity)
         /\ \A l \in Layers \ {layer} : Written(buffer, span)[l] = buffer[l]
         /\ \A p \in Rows(len) : Written(buffer, span)[layer][p] = buffer[layer][p]
         /\ \A p \in Fresh : Written(buffer, span)[layer][p] = span[p - t0]
<1>1. /\ T \in Nat /\ len \in Nat /\ t0 = len /\ Capacity \in Nat /\ len + T <= Capacity
  BY CausalTypes DEF CausalInv, CallInv
<1>2. Written(buffer, span) = [buffer EXCEPT ![layer] =
         [p \in Rows(Capacity) |-> IF p - t0 \in Rows(T) THEN span[p - t0] ELSE buffer[layer][p]]]
  BY DEF Written
<1>3. Written(buffer, span)[layer] =
         [p \in Rows(Capacity) |-> IF p - t0 \in Rows(T) THEN span[p - t0] ELSE buffer[layer][p]]
  BY <1>2
<1>4. ASSUME NEW p \in Rows(len) PROVE Written(buffer, span)[layer][p] = buffer[layer][p]
  <2>1. p \in Rows(Capacity) /\ ~(p - t0 \in Rows(T))
    BY <1>1
  <2> QED BY <1>3, <2>1
<1>5. ASSUME NEW p \in Fresh PROVE Written(buffer, span)[layer][p] = span[p - t0]
  <2>1. p \in Rows(Capacity) /\ p - t0 \in Rows(T)
    BY <1>1 DEF Fresh
  <2> QED BY <1>3, <2>1
<1>6. DOMAIN Written(buffer, span) = Layers
  BY <1>2
<1>7. \A l \in Layers \ {layer} : Written(buffer, span)[l] = buffer[l]
  BY <1>2
<1>8. ASSUME NEW l \in Layers PROVE DOMAIN Written(buffer, span)[l] = Rows(Capacity)
  BY <1>3, <1>7
<1> QED BY <1>4, <1>5, <1>6, <1>7, <1>8

(* The row a fresh position stands for. *)
LEMMA FreshRow ==
  ASSUME CausalInv, pc \in InCall, NEW p \in Fresh
  PROVE  /\ p - t0 \in Rows(T) /\ RopePos(p - t0) = p
         /\ x[p - t0] = Reference(fed \o idx)[layer][p + 1]
<1>1. T \in Nat /\ len \in Nat /\ t0 = len /\ Context = fed \o idx /\ RowsRight
  BY CausalTypes DEF CausalInv, CallInv
<1>2. p - t0 \in Rows(T) /\ RopePos(p - t0) = p /\ t0 + (p - t0) + 1 = p + 1
  BY <1>1 DEF Fresh, RopePos
<1>3. x[p - t0] = Stream(layer)[t0 + (p - t0) + 1]
  BY <1>1, <1>2 DEF RowsRight
<1> QED BY <1>1, <1>2, <1>3 DEF Stream

LEMMA AppendKCausal ==
  ASSUME CausalInv, AppendK PROVE CausalInv'
<1> DEFINE span == [r \in Rows(T) |-> Key(x[r], RopePos(r))]
<1>1. /\ pc = "append_k" /\ pc \in InCall /\ ~training /\ layer \in Layers
      /\ keys' = Written(keys, span) /\ pc' = "append_v" /\ values' = values
      /\ UNCHANGED <<training, chunk, len, fed, idx, t0, layer, x, c0, out>>
  BY DEF AppendK, fwdVars, CausalInv, CallInv, InCall
<1>2. /\ DOMAIN keys' = Layers
      /\ \A l \in Layers : DOMAIN keys'[l] = Rows(Capacity)
      /\ \A l \in Layers \ {layer} : keys'[l] = keys[l]
      /\ \A p \in Rows(len) : keys'[layer][p] = keys[layer][p]
      /\ \A p \in Fresh : keys'[layer][p] = span[p - t0]
  BY <1>1, WrittenRows DEF CausalInv, CacheShape
<1>3. CacheShape'
  BY <1>1, <1>2 DEF CausalInv, CacheShape
<1>4. PrefixHeld'
  <2> SUFFICES ASSUME NEW l \in Layers, NEW p \in Rows(len) PROVE HeldFor(fed, l, p)'
    BY <1>1 DEF PrefixHeld
  <2>1. HeldFor(fed, l, p) /\ keys'[l][p] = keys[l][p]
    BY <1>2 DEF CausalInv, PrefixHeld
  <2> QED BY <1>1, <2>1 DEF HeldFor
<1>5. ASSUME NEW p \in Fresh
      PROVE  keys'[layer][p] = Key(Reference(fed \o idx)[layer][p + 1], p)
  <2>1. p - t0 \in Rows(T) /\ RopePos(p - t0) = p
        /\ x[p - t0] = Reference(fed \o idx)[layer][p + 1]
    BY <1>1, FreshRow
  <2> QED BY <1>2, <2>1
<1>6. ASSUME NEW l \in Rows(layer), NEW p \in Fresh PROVE HeldFor(fed \o idx, l, p)'
  <2>1. l \in Layers \ {layer} /\ HeldFor(fed \o idx, l, p)
    BY <1>1, ModelAssumption DEF CausalInv, CallInv, Layers
  <2> QED BY <1>1, <1>2, <2>1 DEF HeldFor
<1>7. CallInv'
  <2>1. RowsRight' /\ t0' = len'
    BY <1>1 DEF CausalInv, CallInv, RowsRight, Stream, Context, InCall
  <2>2. Fresh' = Fresh
    BY <1>1 DEF Fresh
  <2>3. len' + T' <= Capacity
    BY <1>1 DEF CausalInv, CallInv
  <2>4. c0' = 0 /\ DOMAIN out' = {}
    BY <1>1 DEF CausalInv, CallInv
  <2> QED BY <1>1, <1>5, <1>6, <2>1, <2>2, <2>3, <2>4 DEF CallInv, InCall
<1>8. pc' \in InCall
  BY <1>1 DEF InCall
<1> QED BY <1>1, <1>3, <1>4, <1>7, <1>8 DEF CausalInv

LEMMA AppendVCausal ==
  ASSUME CausalInv, AppendV PROVE CausalInv'
<1> DEFINE span == [r \in Rows(T) |-> Value(x[r])]
<1>1. /\ pc = "append_v" /\ pc \in InCall /\ ~training /\ layer \in Layers
      /\ values' = Written(values, span) /\ pc' = "attend" /\ keys' = keys
      /\ UNCHANGED <<training, chunk, len, fed, idx, t0, layer, x, c0, out>>
  BY DEF AppendV, fwdVars, CausalInv, CallInv, InCall
<1>2. /\ DOMAIN values' = Layers
      /\ \A l \in Layers : DOMAIN values'[l] = Rows(Capacity)
      /\ \A l \in Layers \ {layer} : values'[l] = values[l]
      /\ \A p \in Rows(len) : values'[layer][p] = values[layer][p]
      /\ \A p \in Fresh : values'[layer][p] = span[p - t0]
  BY <1>1, WrittenRows DEF CausalInv, CacheShape
<1>3. CacheShape'
  BY <1>1, <1>2 DEF CausalInv, CacheShape
<1>4. PrefixHeld'
  <2> SUFFICES ASSUME NEW l \in Layers, NEW p \in Rows(len) PROVE HeldFor(fed, l, p)'
    BY <1>1 DEF PrefixHeld
  <2>1. HeldFor(fed, l, p) /\ values'[l][p] = values[l][p]
    BY <1>2 DEF CausalInv, PrefixHeld
  <2> QED BY <1>1, <2>1 DEF HeldFor
<1>5. ASSUME NEW p \in Fresh PROVE HeldFor(fed \o idx, layer, p)'
  <2>1. p - t0 \in Rows(T) /\ x[p - t0] = Reference(fed \o idx)[layer][p + 1]
    BY <1>1, FreshRow
  <2>2. values'[layer][p] = Value(Reference(fed \o idx)[layer][p + 1])
    BY <1>2, <2>1
  <2>3. keys'[layer][p] = Key(Reference(fed \o idx)[layer][p + 1], p)
    BY <1>1 DEF CausalInv, CallInv
  <2> QED BY <1>1, <2>2, <2>3 DEF HeldFor
<1>6. ASSUME NEW l \in Rows(layer), NEW p \in Fresh PROVE HeldFor(fed \o idx, l, p)'
  <2>1. l \in Layers \ {layer} /\ HeldFor(fed \o idx, l, p)
    BY <1>1, ModelAssumption DEF CausalInv, CallInv, Layers
  <2> QED BY <1>1, <1>2, <2>1 DEF HeldFor
<1>7. CallInv'
  <2>1. RowsRight' /\ t0' = len'
    BY <1>1 DEF CausalInv, CallInv, RowsRight, Stream, Context, InCall
  <2>2. Fresh' = Fresh
    BY <1>1 DEF Fresh
  <2>3. len' + T' <= Capacity
    BY <1>1 DEF CausalInv, CallInv
  <2>4. c0' = 0 /\ DOMAIN out' = {} /\ Rows(c0') = {}
    BY <1>1 DEF CausalInv, CallInv
  <2> QED BY <1>1, <1>5, <1>6, <2>1, <2>2, <2>3, <2>4 DEF CallInv, InCall
<1>8. pc' \in InCall
  BY <1>1 DEF InCall
<1> QED BY <1>1, <1>3, <1>4, <1>7, <1>8 DEF CausalInv

(* Each row of a chunk mixes the keys and values of all rows up to its     *)
(* own and of none after it.                                               *)
LEMMA AttendCausal ==
  ASSUME CausalInv, AttendChunk PROVE CausalInv'
<1>1. /\ pc = "attend" /\ pc' = "attend" /\ c0 < T /\ c0' = c0 + ChunkLen /\ layer \in Layers
      /\ UNCHANGED <<training, chunk, keys, values, len, fed, idx, t0, layer, x>>
  BY DEF AttendChunk, cacheVars, CausalInv, CallInv, InCall
<1>2. /\ T \in Nat /\ t0 \in Nat /\ len \in Nat /\ c0 \in Nat /\ t0 = len /\ RowsRight
  BY <1>1, CausalTypes DEF CausalInv, CallInv, InCall
<1>3. ChunkLen \in Nat /\ ChunkLen > 0 /\ c0 + ChunkLen \in 0 .. T
  BY <1>1, ChunkBounds DEF CausalInv
<1>4. ASSUME NEW r \in RowsOfChunk
      PROVE  Mixed(Query(x[r], RopePos(r)), {<<K(j), V(j)>> : j \in Visible(r)})
               = MixedAt(Stream(layer), t0 + r)
  <2>1. r \in Nat /\ r < c0 + ChunkLen /\ r \in Rows(T)
    BY <1>2, <1>3 DEF RowsOfChunk
  <2>2. Visible(r) = 0 .. t0 + r
    BY <1>2, <1>3, <2>1 DEF Visible, Width, Unmasked
  <2>3. ASSUME NEW j \in 0 .. t0 + r
        PROVE  K(j) = Key(Stream(layer)[j + 1], j) /\ V(j) = Value(Stream(layer)[j + 1])
    <3>1. j \in Rows(t0 + T)
      BY <1>2, <2>1
    <3> QED BY <1>1, <3>1, KeysRead
  <2> DEFINE H == Stream(layer)
  <2>4. {<<K(j), V(j)>> : j \in Visible(r)}
          = {<<Key(H[j + 1], j), Value(H[j + 1])>> : j \in 0 .. t0 + r}
    BY <2>2, <2>3
  <2>5. {<<Key(H[j + 1], j), Value(H[j + 1])>> : j \in 0 .. t0 + r}
          = {<<Key(H[j], j - 1), Value(H[j])>> : j \in 1 .. t0 + r + 1}
    <3> HIDE DEF H
    <3> DEFINE A == {<<Key(H[j + 1], j), Value(H[j + 1])>> : j \in 0 .. t0 + r}
               B == {<<Key(H[j], j - 1), Value(H[j])>> : j \in 1 .. t0 + r + 1}
    <3>1. ASSUME NEW j \in 0 .. t0 + r PROVE <<Key(H[j + 1], j), Value(H[j + 1])>> \in B
      <4>1. j + 1 \in 1 .. t0 + r + 1 /\ (j + 1) - 1 = j
        BY <1>2, <2>1
      <4> QED BY <4>1
    <3>2. ASSUME NEW j \in 1 .. t0 + r + 1 PROVE <<Key(H[j], j - 1), Value(H[j])>> \in A
      <4>1. j - 1 \in 0 .. t0 + r /\ (j - 1) + 1 = j
        BY <1>2, <2>1
      <4> QED BY <4>1
    <3> QED BY <3>1, <3>2
  <2>6. x[r] = H[t0 + r + 1] /\ RopePos(r) = t0 + r
    BY <1>2, <2>1 DEF RowsRight, RopePos
  <2> HIDE DEF H
  <2>7. MixedAt(H, t0 + r)
          = Mixed(Query(H[t0 + r + 1], t0 + r),
                  {<<Key(H[j], j - 1), Value(H[j])>> : j \in 1 .. t0 + r + 1})
    BY DEF MixedAt
  <2>8. Mixed(Query(x[r], RopePos(r)), {<<K(j), V(j)>> : j \in Visible(r)}) = MixedAt(H, t0 + r)
    BY <2>4, <2>5, <2>6, <2>7
  <2> QED BY <2>8 DEF H
<1>5. out' = Extended(out, [r \in RowsOfChunk |-> MixedAt(Stream(layer), t0 + r)])
  BY <1>4 DEF AttendChunk
<1>6. DOMAIN out = Rows(c0) /\ \A r \in Rows(c0) : out[r] = MixedAt(Stream(layer), t0 + r)
  BY <1>1 DEF CausalInv, CallInv
<1>7. DOMAIN out' = Rows(c0') /\ \A r \in Rows(c0') : out'[r] = MixedAt(Stream(layer), t0 + r)
  <2>1. Rows(c0') = Rows(c0) \cup RowsOfChunk
    BY <1>1, <1>2, <1>3 DEF RowsOfChunk
  <2> QED BY <1>5, <1>6, <2>1 DEF Extended
<1>8. Stream(layer)' = Stream(layer) /\ Fresh' = Fresh
  BY <1>1 DEF Stream, Context, Fresh, InCall
<1>9. CacheShape' /\ PrefixHeld'
  BY <1>1 DEF CausalInv, CacheShape, PrefixHeld, HeldFor
<1>10. CallInv'
  <2>1. RowsRight'
    BY <1>1, <1>2, <1>8 DEF RowsRight
  <2>2. ~training => /\ len + T <= Capacity
                     /\ \A l \in Rows(layer) : \A p \in Fresh : HeldFor(fed \o idx, l, p)'
                     /\ \A p \in Fresh : HeldFor(fed \o idx, layer, p)'
    BY <1>1 DEF CausalInv, CallInv, InCall, HeldFor
  <2>3. \A r \in Rows(c0') : out'[r] = MixedAt(Stream(layer)', t0' + r)
    BY <1>1, <1>7, <1>8
  <2> QED BY <1>1, <1>2, <1>7, <1>8, <2>1, <2>2, <2>3 DEF CallInv, InCall, MixedAt
<1>11. c0' \in 0 .. T
  BY <1>1, <1>3
<1> QED BY <1>1, <1>9, <1>10, <1>11 DEF CausalInv

(* A block makes the next layer of the rows, however it was chunked.       *)
LEMMA EndBlockCausal ==
  ASSUME CausalInv, EndBlock PROVE CausalInv'
<1>1. /\ pc = "attend" /\ c0 = T /\ layer \in Layers /\ layer' = layer + 1
      /\ c0' = 0 /\ DOMAIN out' = {}
      /\ x' = [r \in Rows(T) |-> BlockOutput(x[r], out[r])]
      /\ pc' = IF layer + 1 = NumLayers THEN IF training THEN "head" ELSE "advance"
                                        ELSE IF training THEN "attend" ELSE "append_k"
      /\ UNCHANGED <<training, chunk, keys, values, len, fed, idx, t0>>
  BY NoRowsDomain DEF EndBlock, cacheVars, CausalInv, CallInv, InCall
<1>2. /\ T \in Nat /\ t0 \in Nat /\ len \in Nat /\ t0 = len /\ RowsRight
      /\ Context = fed \o idx /\ Len(Context) = t0 + T /\ Context \in Seq(Tokens)
      /\ NumLayers \in Nat \ {0} /\ layer \in Nat /\ (training => fed = <<>>)
  BY <1>1, CausalTypes DEF CausalInv, CallInv, InCall, Layers
<1>3. Context' = Context
  <2>1. training => idx = fed \o idx
    BY <1>2 DEF CausalInv
  <2> QED BY <1>1, <1>2, <2>1 DEF Context, InCall
<1>4. ASSUME NEW r \in Rows(T)
      PROVE  BlockOutput(x[r], out[r]) = Reference(Context)[layer + 1][t0 + r + 1]
  <2> DEFINE H == Stream(layer)
  <2>1. x[r] = H[t0 + r + 1] /\ out[r] = MixedAt(H, t0 + r)
    BY <1>1, <1>2 DEF RowsRight, CausalInv, CallInv
  <2>2. Reference(Context)[layer + 1] = NextLayer(H)
    BY <1>1, ReferenceLayers DEF Stream
  <2>3. t0 + r + 1 \in DOMAIN H /\ (t0 + r + 1) - 1 = t0 + r
    <3>1. layer \in 0 .. NumLayers
      BY <1>1, <1>2 DEF Layers
    <3>2. DOMAIN H = 1 .. t0 + T
      <4>1. DOMAIN Reference(Context)[layer] = DOMAIN Context
        BY <3>1, ReferenceRows
      <4>2. DOMAIN Context = 1 .. t0 + T
        BY <1>2
      <4> QED BY <4>1, <4>2 DEF Stream
    <3> HIDE DEF H
    <3> QED BY <1>2, <3>2
  <2> HIDE DEF H
  <2>4. NextLayer(H)[t0 + r + 1] = BlockOutput(H[t0 + r + 1], MixedAt(H, t0 + r))
    BY <2>3 DEF NextLayer, MixedAt
  <2> QED BY <2>1, <2>2, <2>4
<1>5. RowsRight'
  BY <1>1, <1>3, <1>4 DEF RowsRight, Stream
<1>6. CacheShape' /\ PrefixHeld'
  BY <1>1 DEF CausalInv, CacheShape, PrefixHeld, HeldFor
<1>7. Fresh' = Fresh
  BY <1>1 DEF Fresh
<1>8. ~training => /\ len + T <= Capacity
                   /\ \A l \in Rows(layer + 1) : \A p \in Fresh : HeldFor(fed \o idx, l, p)'
  <2> SUFFICES ASSUME ~training, NEW l \in Rows(layer + 1), NEW p \in Fresh
               PROVE  HeldFor(fed \o idx, l, p)' /\ len + T <= Capacity
    BY <1>1 DEF CausalInv, CallInv, InCall
  <2>1. HeldFor(fed \o idx, l, p)
    <3>1. CASE l = layer
      BY <1>1, <3>1 DEF CausalInv, CallInv
    <3>2. CASE l # layer
      <4>1. l \in Rows(layer)
        BY <1>2, <3>2
      <4> QED BY <1>1, <4>1 DEF CausalInv, CallInv, InCall
    <3> QED BY <3>1, <3>2
  <2> QED BY <1>1, <2>1 DEF HeldFor, CausalInv, CallInv, InCall
<1>9. CASE layer + 1 = NumLayers
  <2>1. pc' = (IF training THEN "head" ELSE "advance") /\ layer' = NumLayers
    BY <1>1, <1>9
  <2>2. CallInv'
    BY <1>1, <1>2, <1>5, <1>7, <1>8, <2>1 DEF CallInv, InCall
  <2>3. pc' \in InCall \cup {"head"} /\ c0' \in 0 .. T
    BY <1>1, <1>2, <2>1 DEF InCall
  <2> QED BY <1>1, <1>6, <2>2, <2>1, <2>3 DEF CausalInv
<1>10. CASE layer + 1 # NumLayers
  <2>1. pc' = (IF training THEN "attend" ELSE "append_k") /\ layer' \in Layers
    BY <1>1, <1>2, <1>10 DEF Layers
  <2>2. Rows(c0') = {}
    BY <1>1
  <2>3. CallInv'
    BY <1>1, <1>2, <1>5, <1>7, <1>8, <2>1, <2>2 DEF CallInv, InCall
  <2>4. pc' \in InCall /\ c0' \in 0 .. T
    BY <1>1, <1>2, <2>1 DEF InCall
  <2> QED BY <1>1, <1>6, <2>1, <2>3, <2>4 DEF CausalInv
<1> QED BY <1>9, <1>10

(* Only now do the rows of the call belong to what the cache stands for.   *)
LEMMA AdvanceCausal ==
  ASSUME CausalInv, Advance PROVE CausalInv'
<1>1. /\ pc = "advance" /\ pc \in InCall /\ pc' = "head" /\ ~training /\ layer = NumLayers
      /\ len' = len + T /\ fed' = fed \o idx /\ c0 = 0 /\ DOMAIN out = {}
      /\ UNCHANGED <<training, chunk, keys, values, idx, t0, layer, x, c0, out>>
  BY DEF Advance, fwdVars, CausalInv, CallInv, InCall
<1>2. /\ T \in Nat /\ t0 \in Nat /\ len \in Nat /\ t0 = len /\ RowsRight
      /\ Context = fed \o idx /\ Context' = fed \o idx
      /\ fed \in Seq(Tokens) /\ idx \in Seq(Tokens) /\ len = Len(fed)
  BY <1>1, CausalTypes DEF CausalInv, CallInv, InCall, Context
<1>3. fed' \in Seq(Tokens) /\ len' = Len(fed')
  BY <1>1, <1>2
<1>4. ASSUME NEW l \in Layers, NEW p \in Rows(len + T) PROVE HeldFor(fed \o idx, l, p)
  <2>1. CASE p < len
    <3>1. p \in Rows(Len(fed)) /\ HeldFor(fed, l, p)
      BY <1>2, <2>1 DEF CausalInv, PrefixHeld
    <3> QED BY <1>2, <3>1, HeldForLonger
  <2>2. CASE ~(p < len)
    <3>1. p \in Fresh /\ l \in Rows(layer)
      BY <1>1, <1>2, <2>2 DEF Fresh, Layers
    <3> QED BY <1>1, <3>1 DEF CausalInv, CallInv
  <2> QED BY <2>1, <2>2
<1>5. CacheShape' /\ PrefixHeld'
  BY <1>1, <1>4 DEF CausalInv, CacheShape, PrefixHeld, HeldFor
<1>6. RowsRight'
  BY <1>1, <1>2 DEF RowsRight, Stream
<1>7. CallInv'
  BY <1>1, <1>6 DEF CallInv, InCall
<1> QED BY <1>1, <1>3, <1>5, <1>7 DEF CausalInv

(* Steps that touch neither the cache nor the rows. *)
LEMMA BackwardCausal ==
  ASSUME CausalInv, Logits \/ Loss \/ GradChunk \/ GradBlock PROVE CausalInv'
<1>1. /\ UNCHANGED <<training, chunk, keys, values, len, fed, idx, t0, x, out>>
      /\ CacheShape' /\ PrefixHeld'
  BY DEF Logits, Loss, GradChunk, GradBlock, cacheVars, fwdVars, CausalInv, CacheShape,
         PrefixHeld, HeldFor
<1>2. CASE Logits
  <2>1. pc = "head" /\ pc' = "logits" /\ layer' = layer /\ c0' = c0
    BY <1>2 DEF Logits, fwdVars
  <2>2. RowsRight'
    BY <1>1, <2>1 DEF CausalInv, CallInv, RowsRight, Stream, Context
  <2> QED BY <1>1, <2>1, <2>2 DEF CausalInv, CallInv, InCall
<1>3. CASE Loss \/ GradChunk \/ GradBlock
  <2>1. pc' = "grad" /\ training /\ c0' \in 0 .. T
    <3>1. c0 < T => c0 + ChunkLen \in 0 .. T
      BY ChunkBounds DEF CausalInv
    <3> QED BY <1>3, <3>1, CausalTypes DEF Loss, GradChunk, GradBlock, CausalInv
  <2>2. CallInv'
    BY <2>1 DEF CallInv, InCall
  <2> QED BY <1>1, <2>1, <2>2 DEF CausalInv
<1> QED BY <1>2, <1>3

LEMMA NextCausal ==
  ASSUME CausalInv, [Next]_vars PROVE CausalInv'
<1>1. CASE Call
  BY <1>1, CallCausal
<1>2. CASE CallRefused \/ UNCHANGED vars
  <2>1. UNCHANGED vars
    BY <1>2 DEF CallRefused
  <2>2. UNCHANGED <<Fresh, RowsRight>> /\ Stream(layer)' = Stream(layer)
    BY <2>1 DEF vars, cacheVars, fwdVars, Fresh, RowsRight, Stream, Context
  <2>3. \A l, p : HeldFor(fed, l, p)' = HeldFor(fed, l, p)
                  /\ HeldFor(fed \o idx, l, p)' = HeldFor(fed \o idx, l, p)
    BY <2>1 DEF vars, cacheVars, fwdVars, HeldFor
  <2>4. UNCHANGED <<training, chunk, keys, values, len, fed, pc, idx, t0, layer, x, c0, out>>
    BY <2>1 DEF vars, cacheVars, fwdVars
  <2>5. CacheShape' /\ PrefixHeld'
    BY <2>3, <2>4 DEF CausalInv, CacheShape, PrefixHeld
  <2>6. \A p : MixedAt(Stream(layer), p)' = MixedAt(Stream(layer), p)
    BY <2>2 DEF MixedAt
  <2>7. CallInv'
    <3>1. CASE pc \in InCall
      <4>1. t0 = len /\ RowsRight
        BY <3>1 DEF CausalInv, CallInv
      <4>2. ASSUME ~training PROVE len + T <= Capacity
        BY <3>1, <4>2 DEF CausalInv, CallInv
      <4>3. ASSUME ~training, NEW l \in Rows(layer), NEW p \in Fresh
            PROVE  HeldFor(fed \o idx, l, p)'
        BY <2>3, <3>1, <4>3 DEF CausalInv, CallInv
      <4>4. ASSUME pc = "attend", ~training, NEW p \in Fresh
            PROVE  HeldFor(fed \o idx, layer, p)'
        <5>1. HeldFor(fed \o idx, layer, p)
          BY <4>4 DEF CausalInv, CallInv
        <5> QED BY <2>4, <5>1 DEF HeldFor
      <4> QED BY <2>2, <2>4, <2>6, <4>1, <4>2, <4>3, <4>4 DEF CausalInv, CallInv, InCall
    <3>2. CASE pc \notin InCall
      BY <2>2, <2>4, <3>2 DEF CausalInv, CallInv, InCall
    <3> QED BY <3>1, <3>2
  <2> QED BY <2>4, <2>5, <2>7 DEF CausalInv
<1>3. CASE AppendK
  BY <1>3, AppendKCausal
<1>4. CASE AppendV
  BY <1>4, AppendVCausal
<1>5. CASE AttendChunk
  BY <1>5, AttendCausal
<1>6. CASE EndBlock
  BY <1>6, EndBlockCausal
<1>7. CASE Advance
  BY <1>7, AdvanceCausal
<1>8. CASE Decoded \/ Trained \/ Fail
  BY <1>8, ReturnCausal DEF Decoded, Trained, Fail, cacheVars
<1>9. CASE Reset
  BY <1>9, ResetCausal
<1>10. CASE Logits \/ Loss \/ GradChunk \/ GradBlock
  BY <1>10, BackwardCausal
<1> QED BY <1>1, <1>2, <1>3, <1>4, <1>5, <1>6, <1>7, <1>8, <1>9, <1>10 DEF Next

(* In every execution, for any number of layers, capacity, chunk width and *)
(* sequence of calls, failures and resets: the logits of a call are those  *)
(* of one pass over the whole context, each token at its own position      *)
(* (Gpt::forward_with_cache, Cache::append, flash_attn_fwd).               *)
THEOREM LogitsAlwaysCausal == Spec => []LogitsAreCausal
<1>1. CausalInv => LogitsAreCausal
  <2> SUFFICES ASSUME CausalInv, pc = "logits"
               PROVE  x = [r \in Rows(T) |->
                             Reference(IF training THEN idx ELSE fed)[NumLayers][t0 + r + 1]]
    BY DEF LogitsAreCausal
  <2> QED BY DEF CausalInv, CallInv, RowsRight, Stream, Context
<1> QED BY <1>1, InitCausalInv, NextCausal, PTL DEF Spec

(* In every execution the cache holds, in every layer, the keys and values *)
(* of the tokens it stands for, at their positions, whatever calls failed  *)
(* partway or were dropped by a reset before (KvCache).                    *)
THEOREM CacheAlwaysHoldsPrefix == Spec => []CacheHoldsPrefix
<1>1. CausalInv => CacheHoldsPrefix
  BY DEF CausalInv, PrefixHeld, HeldFor, CacheHoldsPrefix
<1> QED BY <1>1, InitCausalInv, NextCausal, PTL DEF Spec
=============================================================================
