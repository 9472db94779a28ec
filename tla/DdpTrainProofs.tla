--------------------------- MODULE DdpTrainProofs ---------------------------
(***************************************************************************)
(* Proofs about the training loop for every world size, every number of    *)
(* parameters and steps, and every cadence.                                *)
(*                                                                         *)
(* First type correctness, with the effect of each action on its own rank  *)
(* (Inv0).  Then what needs no agreement of the ranks: each brings its own *)
(* NaN to every reduction it branches on (OwnInv), so it notices a         *)
(* non-finite model in time, and never saves one as the best.              *)
(*                                                                         *)
(* Then Lockstep, and the agreement of the ranks that follows from it.     *)
(* A step between two collectives leaves Cur alone, a return from a        *)
(* collective turns Cur into Advance(Cur), and the last rank to enter one  *)
(* finds everybody else at the same Cur: these three facts are all that    *)
(* SameFuture and SameRelease need to know of the program.  With the       *)
(* lockstep at hand: where the NaN of a replica comes from, and that the   *)
(* ranks together are one training run (SyncTrain).                        *)
(*                                                                         *)
(* At the end the launcher: its exit status tells the truth, and it leaves *)
(* no rank behind.  Two arguments meet.  To a rank, the launcher only      *)
(* gives and takes away the process, which no invariant of the training    *)
(* loop depends on: so the lockstep goes on to hold                        *)
(* (LauncherKeepsLockstep).  To the launcher, a rank only ends: the status *)
(* of a child that try_wait has reported is final, and a child it has      *)
(* killed does not run again (RankEffect).  What the launcher has found in *)
(* a round stays true.                                                     *)
(***************************************************************************)
EXTENDS LaunchedTrain, DdpLockstep, DdpRefinement, FiniteSetTheorems, TLAPS

(* The sorted list of the names 1 .. NV holds i at position i. *)
LEMMA SortedPosition ==
  ASSUME ConstantsAssumption, NEW n \in 1 .. NV, NEW i \in 1 .. NV
  PROVE  Cardinality({u \in 1 .. NV : u <= n}) = i <=> n = i
<1>1. {u \in 1 .. NV : u <= n} = 1 .. n
  BY DEF ConstantsAssumption
<1>2. Cardinality(1 .. n) = n
  BY FS_Interval DEF ConstantsAssumption
<1> QED
  BY <1>1, <1>2

(* canonical_vars puts the same parameter at the same position whatever    *)
(* the iteration order of the process's map.                               *)
LEMMA CanonicalOrder ==
  ASSUME ConstantsAssumption, order \in [Ranks -> Bijection(Vars, Vars)],
         NEW r \in Ranks, NEW i \in 1 .. NV
  PROVE  VarAt(r, i) = i
<1> DEFINE names == order[r]
<1>1. names \in [Vars -> Vars] /\ \A t \in Vars : \E s \in Vars : names[s] = t
  <2>1. names \in Bijection(Vars, Vars)
    OBVIOUS
  <2> HIDE DEF names
  <2> QED
    BY <2>1 DEF Bijection, Injection, Surjection
<1>1a. Range(order[r]) = Vars
  BY <1>1, Zenon DEF Range
<1>2. VarAt(r, i) = CHOOSE v \in Vars : Cardinality({u \in Vars : u <= v}) = i
  BY <1>1a DEF VarAt
<1>3. \A v \in Vars : Cardinality({u \in Vars : u <= v}) = i <=> v = i
  BY SortedPosition DEF Vars
<1> QED
  BY <1>2, <1>3 DEF Vars

LEMMA SummedNatsType ==
  ASSUME ConstantsAssumption
  PROVE  SummedNats \in Nat
<1> DEFINE cells == {cell \in Ranks \X (1 .. MaxNats) : cell[2] <= latched[cell[1]].n}
<1>1. IsFiniteSet(Ranks) /\ IsFiniteSet(1 .. MaxNats)
  BY FS_Interval DEF ConstantsAssumption, Ranks
<1>2. IsFiniteSet(Ranks \X (1 .. MaxNats))
  BY <1>1, FS_Product
<1>3. IsFiniteSet(cells)
  BY <1>2, FS_Subset
<1>4. Cardinality(cells) \in Nat
  BY <1>3, FS_CardinalityType
<1> QED
  BY <1>4 DEF SummedNats
-----------------------------------------------------------------------------
(* Type correctness, with the facts about the control it depends on. *)

ControlAt(r) ==
  /\ pc[r] \notin {"bcast", "grads"} => vi[r] = 1
  /\ pc[r] \in {"join", "bcast"} => step[r] = 0 /\ \A v \in Vars : w[r][v].nanAt = 0
  /\ pc[r] \in {"micro", "count", "grads", "opt", "log"} => step[r] < NumIters
  /\ coll[r] # "out" => pc[r] \in CollPcs
  /\ pc[r] \in SavePcs => r = 0
  /\ pc[r] = "end" <=> status[r] \in {"ok", "aborted"}
  /\ status[r] = "ok" => step[r] = NumIters
  /\ status[r] = "aborted" => step[r] < NumIters

ControlOK == \A r \in Ranks : ControlAt(r)

Inv0 == ConstantsAssumption /\ TypeOK /\ ControlOK

LEMMA EnterInv0 ==
  ASSUME Inv0, NEW r \in Ranks, NEW point \in CollPcs, NEW c \in Contribs,
         Enter(r, point, c)
  PROVE  Inv0'
<1>1. contrib' \in [Ranks -> Contribs]
  BY DEF Inv0, TypeOK, Enter
<1>2. latched' = contrib' \/ latched' = latched
  BY DEF Enter
<1>3. coll' \in [Ranks -> {"out", "in", "ready"}]
  BY DEF Inv0, TypeOK, Enter
<1>4. TypeOK'
  BY <1>1, <1>2, <1>3 DEF Inv0, TypeOK, Enter, hostVars, dataVars, ghostVars
<1>5. \A q \in Ranks : coll'[q] # "out" => coll[q] # "out" \/ q = r
  BY DEF Inv0, TypeOK, Enter
<1>6. ControlOK'
  BY <1>5 DEF Inv0, ControlOK, ControlAt, Enter, hostVars, dataVars, ghostVars
<1> QED
  BY <1>4, <1>6 DEF Inv0

LEMMA PcTypes ==
  /\ \A p \in {"join", "bcast", "eval", "count", "grads", "log", "save", "saving",
               "meta", "metaing", "sample", "micro", "opt", "end"} : p \in Pcs
  /\ \A s : TopPc(s) \in Pcs /\ TopPc(s) \in {"eval", "sample"}
BY DEF Pcs, CollPcs, SavePcs, TopPc

(* What TypeOK says, split so that a proof can take what it needs. *)
LEMMA Types ==
  ASSUME Inv0
  PROVE  /\ NumIters \in Nat \ {0} /\ NV \in Nat \ {0} /\ W \in Nat \ {0}
         /\ status \in [Ranks -> Statuses]
         /\ pc \in [Ranks -> Pcs]
         /\ step \in [Ranks -> 0 .. NumIters]
         /\ vi \in [Ranks -> 1 .. NV]
         /\ w \in [Ranks -> [Vars -> Weight]]
         /\ g \in [Ranks -> [Vars -> Grads]]
         /\ minBpb \in [Ranks -> Nat]
         /\ coll \in [Ranks -> {"out", "in", "ready"}]
         /\ 0 \in Ranks
BY DEF Inv0, TypeOK, ConstantsAssumption, Ranks

LEMMA Counters ==
  ASSUME Inv0, NEW r \in Ranks
  PROVE  /\ NumIters \in Nat /\ NV \in Nat /\ 1 <= NV
         /\ step[r] \in Nat /\ step[r] <= NumIters
         /\ vi[r] \in Nat /\ 1 <= vi[r] /\ vi[r] <= NV
<1>1. step[r] \in 0 .. NumIters /\ vi[r] \in 1 .. NV
  BY Types
<1>2. NumIters \in Nat /\ NV \in Nat \ {0}
  BY Types
<1> QED
  BY <1>1, <1>2

(* The rest of the world does not move when rank r takes a step. *)
Elsewhere(r) ==
  \A q \in Ranks \ {r} :
    /\ status'[q] = status[q] /\ pc'[q] = pc[q] /\ step'[q] = step[q]
    /\ vi'[q] = vi[q] /\ minBpb'[q] = minBpb[q] /\ w'[q] = w[q] /\ g'[q] = g[q]
    /\ coll'[q] = coll[q]

(* A step of one rank has to be looked at on that rank only. *)
LEMMA ControlIsLocal ==
  ASSUME Inv0, NEW r \in Ranks, Elsewhere(r), ControlAt(r)'
  PROVE  ControlOK'
BY DEF Inv0, ControlOK, ControlAt, Elsewhere

LEMMA WorldJoinedEffect ==
  ASSUME Inv0, NEW r \in Ranks, WorldJoined(r)
  PROVE  /\ pc[r] = "join" /\ coll[r] = "ready" /\ status[r] = "running"
         /\ pc'[r] = "bcast" /\ coll'[r] = "out"
         /\ UNCHANGED <<status, step, vi, minBpb, w, g, latched, contrib>>
         /\ Elsewhere(r) /\ Inv0'
<1>1. /\ pc[r] = "join" /\ coll[r] = "ready" /\ status[r] = "running"
      /\ UNCHANGED <<status, step, vi, minBpb, w, g, latched, contrib>>
  BY DEF WorldJoined, Leave, dataVars
<1>2. /\ pc' = [pc EXCEPT ![r] = "bcast"] /\ coll' = [coll EXCEPT ![r] = "out"]
  BY DEF WorldJoined, Leave, GoTo
<1>3. /\ pc' \in [Ranks -> Pcs] /\ pc'[r] = "bcast"
      /\ coll' \in [Ranks -> {"out", "in", "ready"}] /\ coll'[r] = "out"
      /\ Elsewhere(r)
  BY <1>1, <1>2, Types, PcTypes DEF Elsewhere
<1>4. TypeOK'
  BY <1>1, <1>3 DEF Inv0, TypeOK, WorldJoined, Leave, dataVars, ghostVars
<1>5. ControlAt(r)'
  BY <1>1, <1>3 DEF Inv0, ControlOK, ControlAt, SavePcs, CollPcs
<1> QED
  BY <1>1, <1>3, <1>4, <1>5, ControlIsLocal DEF Inv0

LEMMA VarBroadcastEffect ==
  ASSUME Inv0, NEW r \in Ranks, VarBroadcast(r)
  PROVE  /\ pc[r] = "bcast" /\ coll[r] = "ready" /\ status[r] = "running"
         /\ coll'[r] = "out" /\ w'[r] = Received(r)
         /\ \/ vi[r] < NV /\ pc'[r] = "bcast" /\ vi'[r] = vi[r] + 1
            \/ vi[r] = NV /\ pc'[r] = TopPc(0) /\ vi'[r] = 1
         /\ UNCHANGED <<status, step, minBpb, g, latched, contrib>>
         /\ Elsewhere(r) /\ Inv0'
<1>1. /\ pc[r] = "bcast" /\ coll[r] = "ready" /\ status[r] = "running"
      /\ UNCHANGED <<status, step, minBpb, g, latched, order, contrib, lossNan, cnt,
                     best, births, scored>>
      /\ w' = [w EXCEPT ![r] = Received(r)]
      /\ coll' = [coll EXCEPT ![r] = "out"]
      /\ \/ vi[r] < NV /\ pc' = pc /\ vi' = [vi EXCEPT ![r] = vi[r] + 1]
         \/ ~(vi[r] < NV) /\ pc' = [pc EXCEPT ![r] = TopPc(0)]
            /\ vi' = [vi EXCEPT ![r] = 1]
  BY DEF VarBroadcast, Leave, GoTo, ghostVars
<1>2. latched[0].n \in Nat
  BY DEF Inv0, TypeOK, Contribs, Ranks, ConstantsAssumption
<1>3. /\ Received(r) \in [Vars -> Weight]
      /\ \A v \in Vars : Received(r)[v].nanAt = w[r][v].nanAt
  BY <1>2, Types DEF Received, ReceivedInit, Weight
<1>4. vi[r] < NV \/ vi[r] = NV
  BY Counters
<1>5. pc' \in [Ranks -> Pcs] /\ vi' \in [Ranks -> 1 .. NV]
  <2>1. vi[r] < NV => vi[r] + 1 \in 1 .. NV
    BY Counters
  <2>2. 1 \in 1 .. NV
    BY Counters
  <2> QED
    BY <1>1, <2>1, <2>2, Types, PcTypes
<1>6. /\ w' \in [Ranks -> [Vars -> Weight]] /\ w'[r] = Received(r)
      /\ coll' \in [Ranks -> {"out", "in", "ready"}] /\ coll'[r] = "out"
      /\ Elsewhere(r)
  BY <1>1, <1>3, Types DEF Elsewhere
<1>7. \/ vi[r] < NV /\ pc'[r] = "bcast" /\ vi'[r] = vi[r] + 1
      \/ vi[r] = NV /\ pc'[r] = TopPc(0) /\ vi'[r] = 1
  BY <1>1, <1>4, Types
<1>8. TypeOK'
  BY <1>1, <1>5, <1>6 DEF Inv0, TypeOK
<1>9. ControlAt(r)'
  BY <1>1, <1>3, <1>6, <1>7, PcTypes DEF Inv0, ControlOK, ControlAt, SavePcs, CollPcs
<1> QED
  BY <1>1, <1>6, <1>7, <1>8, <1>9, ControlIsLocal DEF Inv0

LEMMA EvaluatedEffect ==
  ASSUME Inv0, NEW r \in Ranks, Evaluated(r)
  PROVE  /\ pc[r] = "eval" /\ coll[r] = "ready" /\ status[r] = "running"
         /\ coll'[r] = "out" /\ pc'[r] \in SavePcs \cup {"sample"}
         /\ minBpb'[r] = IF Improves(r) THEN ReducedBpb(r) ELSE minBpb[r]
         /\ UNCHANGED <<status, step, vi, w, g, latched, contrib>>
         /\ Elsewhere(r) /\ Inv0'
<1>1. /\ pc[r] = "eval" /\ coll[r] = "ready" /\ status[r] = "running"
      /\ UNCHANGED <<status, step, vi, w, g, latched, order, contrib, lossNan, cnt,
                     best, births, scored>>
      /\ coll' = [coll EXCEPT ![r] = "out"]
      /\ \/ /\ Improves(r) /\ minBpb' = [minBpb EXCEPT ![r] = ReducedBpb(r)]
            /\ pc' = [pc EXCEPT ![r] = IF r = 0 THEN "save" ELSE "sample"]
         \/ ~Improves(r) /\ minBpb' = minBpb /\ pc' = [pc EXCEPT ![r] = "sample"]
  BY DEF Evaluated, Leave, GoTo, NewMin, dataVars, ghostVars
<1>2. ReducedBpb(r) \in Nat
  <2>1. W * MaxNats + 1 \in Nat
    BY DEF Inv0, ConstantsAssumption
  <2>2. SummedNats \in Nat
    BY SummedNatsType DEF Inv0
  <2> QED
    BY <2>1, <2>2 DEF ReducedBpb, Infinity
<1>3. /\ minBpb' \in [Ranks -> Nat] /\ pc' \in [Ranks -> Pcs]
      /\ coll' \in [Ranks -> {"out", "in", "ready"}] /\ coll'[r] = "out"
      /\ Elsewhere(r)
      /\ minBpb'[r] = IF Improves(r) THEN ReducedBpb(r) ELSE minBpb[r]
  <2>1. CASE Improves(r)
    <3>1. PICK p \in {"save", "sample"} : pc' = [pc EXCEPT ![r] = p]
      BY <1>1, <2>1
    <3>2. p \in Pcs
      BY PcTypes
    <3>3. minBpb' = [minBpb EXCEPT ![r] = ReducedBpb(r)]
      BY <1>1, <2>1
    <3>4. /\ minBpb' \in [Ranks -> Nat] /\ minBpb'[r] = ReducedBpb(r)
          /\ \A q \in Ranks \ {r} : minBpb'[q] = minBpb[q]
      BY <1>2, <3>3, Types
    <3>5. pc' \in [Ranks -> Pcs] /\ \A q \in Ranks \ {r} : pc'[q] = pc[q]
      BY <3>1, <3>2, Types
    <3> QED
      BY <1>1, <2>1, <3>4, <3>5, Types DEF Elsewhere
  <2>2. CASE ~Improves(r)
    BY <1>1, <2>2, Types, PcTypes DEF Elsewhere
  <2> QED
    BY <2>1, <2>2
<1>4. pc'[r] = "sample" \/ (pc'[r] = "save" /\ r = 0)
  BY <1>1, Types
<1>5. TypeOK'
  BY <1>1, <1>3 DEF Inv0, TypeOK
<1>6. ControlAt(r)'
  BY <1>1, <1>3, <1>4 DEF Inv0, ControlOK, ControlAt, SavePcs, CollPcs
<1> QED
  BY <1>1, <1>3, <1>4, <1>5, <1>6, ControlIsLocal DEF Inv0, SavePcs

LEMMA MasterEffect ==
  ASSUME Inv0, Master
  PROVE  /\ pc[0] \in SavePcs /\ pc'[0] \in SavePcs \cup {"sample"}
         /\ UNCHANGED <<status, step, vi, minBpb, w, g, coll, latched, contrib>>
         /\ Elsewhere(0) /\ Inv0'
<1>1. PICK from \in SavePcs, to \in SavePcs \cup {"sample"},
            file \in [model : ModelFiles, meta : MetaFiles] :
         SaveStep(from, to, file)
  <2>1. best \in [model : ModelFiles, meta : MetaFiles]
    BY DEF Inv0, TypeOK
  <2>2. step[0] \in 0 .. NumIters /\ minBpb[0] \in Nat /\ WeightsNan(0) \in BOOLEAN
    BY Types DEF WeightsNan
  <2>3. /\ Model(step[0], WeightsNan(0)) \in ModelFiles
        /\ Meta(step[0], minBpb[0]) \in MetaFiles
        /\ Torn \in ModelFiles /\ Torn \in MetaFiles
    BY <2>2 DEF Model, Meta, ModelFiles, MetaFiles
  <2>4. CASE CreateModel
    BY <2>1, <2>3, <2>4 DEF CreateModel, SavePcs
  <2>5. CASE WriteModel
    BY <2>1, <2>3, <2>5 DEF WriteModel, SavePcs
  <2>6. CASE CreateMeta
    BY <2>1, <2>3, <2>6 DEF CreateMeta, SavePcs
  <2>7. CASE WriteMeta
    BY <2>1, <2>3, <2>7 DEF WriteMeta, SavePcs
  <2> QED
    BY <2>4, <2>5, <2>6, <2>7 DEF Master
<1>2. /\ pc[0] = from /\ pc' = [pc EXCEPT ![0] = to] /\ best' = file
      /\ status[0] = "running" /\ coll[0] = "out"
      /\ UNCHANGED <<status, step, vi, minBpb, w, g, coll, latched, order, contrib,
                     lossNan, cnt, births, scored>>
  BY <1>1 DEF SaveStep, Local, GoTo, dataVars, collVars, ghostVars
<1>3. 0 \in Ranks /\ to \in Pcs
  BY Types, PcTypes DEF SavePcs
<1>4. pc' \in [Ranks -> Pcs] /\ pc'[0] = to /\ Elsewhere(0)
  BY <1>2, <1>3, Types DEF Elsewhere
<1>5. TypeOK'
  BY <1>1, <1>2, <1>4 DEF Inv0, TypeOK
<1>6. ControlAt(0)'
  BY <1>1, <1>2, <1>3, <1>4 DEF Inv0, ControlOK, ControlAt, SavePcs, CollPcs
<1> QED
  BY <1>1, <1>2, <1>3, <1>4, <1>5, <1>6, ControlIsLocal DEF Inv0

(* The effect of GoTo on the control state. *)
LEMMA GoToEffect ==
  ASSUME Inv0, NEW r \in Ranks, NEW point \in Pcs, pc' = [pc EXCEPT ![r] = point]
  PROVE  /\ pc' \in [Ranks -> Pcs] /\ pc'[r] = point
         /\ \A q \in Ranks \ {r} : pc'[q] = pc[q]
<1>1. pc \in [Ranks -> Pcs]
  BY Types
<1> QED
  BY <1>1

LEMMA SampleOrBreakEffect ==
  ASSUME Inv0, NEW r \in Ranks, SampleOrBreak(r)
  PROVE  /\ pc[r] = "sample"
         /\ \/ step[r] = NumIters /\ pc'[r] = "end" /\ status'[r] = "ok"
            \/ step[r] # NumIters /\ pc'[r] = "micro" /\ status' = status
         /\ UNCHANGED <<step, vi, minBpb, w, g, coll, latched, contrib>>
         /\ Elsewhere(r) /\ Inv0'
<1>1. /\ pc[r] = "sample" /\ coll[r] = "out" /\ status[r] = "running"
      /\ UNCHANGED <<step, vi, minBpb, w, g, coll, latched, order, contrib, lossNan,
                     cnt, best, births, scored>>
      /\ \/ /\ step[r] = NumIters /\ pc' = [pc EXCEPT ![r] = "end"]
            /\ status' = [status EXCEPT ![r] = "ok"]
         \/ /\ step[r] # NumIters /\ pc' = [pc EXCEPT ![r] = "micro"]
            /\ status' = status
  BY DEF SampleOrBreak, Local, Last, GoTo, dataVars, collVars, ghostVars
<1>2. "ok" \in Statuses
  BY DEF Statuses
<1>3. /\ pc' \in [Ranks -> Pcs] /\ status' \in [Ranks -> Statuses] /\ Elsewhere(r)
  <2>1. /\ pc' \in [Ranks -> Pcs]
        /\ \A q \in Ranks \ {r} : pc'[q] = pc[q]
    <3>1. "end" \in Pcs /\ "micro" \in Pcs
      BY PcTypes
    <3> QED
      BY <1>1, <3>1, GoToEffect
  <2>2. /\ status' \in [Ranks -> Statuses]
        /\ \A q \in Ranks \ {r} : status'[q] = status[q]
    BY <1>1, <1>2, Types
  <2> QED
    BY <1>1, <2>1, <2>2 DEF Elsewhere
<1>4. \/ step[r] = NumIters /\ pc'[r] = "end" /\ status'[r] = "ok"
      \/ step[r] # NumIters /\ pc'[r] = "micro" /\ status' = status
  BY <1>1, Types
<1>5. TypeOK'
  BY <1>1, <1>3 DEF Inv0, TypeOK
<1>6. ControlAt(r)'
  BY <1>1, <1>4, Counters DEF Inv0, ControlOK, ControlAt, SavePcs, CollPcs
<1> QED
  BY <1>1, <1>3, <1>4, <1>5, <1>6, ControlIsLocal DEF Inv0

LEMMA MicroBatchesEffect ==
  ASSUME Inv0, NEW r \in Ranks, MicroBatches(r)
  PROVE  /\ pc[r] = "micro" /\ coll[r] = "out"
         /\ pc'[r] = AfterMicro(r)
         /\ UNCHANGED <<status, step, vi, minBpb, w, coll, latched, contrib>>
         /\ Elsewhere(r) /\ Inv0'
<1>1. /\ pc[r] = "micro" /\ coll[r] = "out" /\ status[r] = "running"
      /\ UNCHANGED <<status, step, vi, minBpb, w, coll, latched, order, contrib, best>>
      /\ pc' = [pc EXCEPT ![r] = AfterMicro(r)]
  BY DEF MicroBatches, Local, GoTo, collVars
<1>2. PICK overflow \in BOOLEAN, bad \in SUBSET Vars, missing \in SUBSET ZeroInit,
           c \in IF MayIgnore THEN {0, 1} ELSE {1} : Pass(r, overflow, bad, missing, c)
  BY DEF MicroBatches
<1>3. PICK nan \in BOOLEAN : /\ lossNan' = [lossNan EXCEPT ![r] = nan]
                            /\ g' = [g EXCEPT ![r] = Accumulated(nan, bad, missing)]
  BY <1>2 DEF Pass, WeightsNan
<1>3a. /\ cnt' = [cnt EXCEPT ![r] = c] /\ c \in {0, 1}
       /\ births' = births \/ births' = births \cup {step[r]}
       /\ scored' = scored \/ scored' = scored \cup {step[r]}
  BY <1>2 DEF Pass
<1>3b. Accumulated(nan, bad, missing) \in [Vars -> Grads]
  BY DEF Accumulated, Grads
<1>4. step[r] \in 0 .. NumIters - 1
  BY <1>1, Counters DEF Inv0, ControlOK, ControlAt
<1>5. AfterMicro(r) \in {"count", "grads"}
  BY DEF AfterMicro
<1>6. /\ pc' \in [Ranks -> Pcs] /\ pc'[r] = AfterMicro(r)
      /\ \A q \in Ranks \ {r} : pc'[q] = pc[q]
  BY <1>1, <1>5, Types, PcTypes
<1>7. /\ g' \in [Ranks -> [Vars -> Grads]]
      /\ \A q \in Ranks \ {r} : g'[q] = g[q]
  BY <1>3, <1>3b, Types
<1>8. lossNan' \in [Ranks -> BOOLEAN]
  BY <1>3 DEF Inv0, TypeOK
<1>9. cnt' \in [Ranks -> Nat]
  BY <1>3a DEF Inv0, TypeOK
<1>10. births' \subseteq 0 .. NumIters - 1 /\ scored' \subseteq 0 .. NumIters - 1
  BY <1>3a, <1>4 DEF Inv0, TypeOK
<1>11. Elsewhere(r)
  BY <1>1, <1>6, <1>7 DEF Elsewhere
<1>12. TypeOK'
  BY <1>1, <1>6, <1>7, <1>8, <1>9, <1>10 DEF Inv0, TypeOK
<1>13. step[r] < NumIters
  BY <1>4, Counters
<1>14. ControlAt(r)'
  BY <1>1, <1>5, <1>6, <1>13 DEF Inv0, ControlOK, ControlAt, SavePcs, CollPcs
<1> QED
  BY <1>1, <1>6, <1>11, <1>12, <1>14, ControlIsLocal DEF Inv0

LEMMA CountReducedEffect ==
  ASSUME Inv0, NEW r \in Ranks, CountReduced(r)
  PROVE  /\ pc[r] = "count" /\ coll[r] = "ready" /\ status[r] = "running"
         /\ coll'[r] = "out" /\ pc'[r] = "grads"
         /\ UNCHANGED <<status, step, vi, minBpb, w, latched, contrib>>
         /\ Elsewhere(r) /\ Inv0'
<1>1. /\ pc[r] = "count" /\ coll[r] = "ready" /\ status[r] = "running"
      /\ UNCHANGED <<status, step, vi, minBpb, w, latched, order, contrib, lossNan,
                     cnt, best, births, scored>>
      /\ g' = [g EXCEPT ![r] = Rescaled(r)]
      /\ coll' = [coll EXCEPT ![r] = "out"]
      /\ pc' = [pc EXCEPT ![r] = "grads"]
  BY DEF CountReduced, Leave, GoTo, ghostVars
<1>2. Rescaled(r) \in [Vars -> Grads]
  BY Types DEF Rescaled, Grads
<1>3. /\ g' \in [Ranks -> [Vars -> Grads]]
      /\ \A q \in Ranks \ {r} : g'[q] = g[q]
  BY <1>1, <1>2, Types
<1>4. /\ pc' \in [Ranks -> Pcs] /\ pc'[r] = "grads"
      /\ coll' \in [Ranks -> {"out", "in", "ready"}] /\ coll'[r] = "out"
      /\ \A q \in Ranks \ {r} : pc'[q] = pc[q] /\ coll'[q] = coll[q]
  BY <1>1, Types, PcTypes
<1>5. Elsewhere(r)
  BY <1>1, <1>3, <1>4 DEF Elsewhere
<1>6. TypeOK'
  BY <1>1, <1>3, <1>4 DEF Inv0, TypeOK
<1>7. ControlAt(r)'
  BY <1>1, <1>4 DEF Inv0, ControlOK, ControlAt, SavePcs, CollPcs
<1> QED
  BY <1>1, <1>4, <1>5, <1>6, <1>7, ControlIsLocal DEF Inv0

LEMMA GradReducedEffect ==
  ASSUME Inv0, NEW r \in Ranks, GradReduced(r)
  PROVE  /\ pc[r] = "grads" /\ coll[r] = "ready" /\ status[r] = "running"
         /\ coll'[r] = "out" /\ g'[r] = Reduced(r)
         /\ \/ vi[r] < NV /\ pc'[r] = "grads" /\ vi'[r] = vi[r] + 1
            \/ vi[r] = NV /\ pc'[r] = "opt" /\ vi'[r] = 1
         /\ UNCHANGED <<status, step, minBpb, w, latched, contrib>>
         /\ Elsewhere(r) /\ Inv0'
<1>1. /\ pc[r] = "grads" /\ coll[r] = "ready" /\ status[r] = "running"
      /\ UNCHANGED <<status, step, minBpb, w, latched, order, contrib, lossNan, cnt,
                     best, births, scored>>
      /\ g' = [g EXCEPT ![r] = Reduced(r)]
      /\ coll' = [coll EXCEPT ![r] = "out"]
      /\ \/ vi[r] < NV /\ pc' = pc /\ vi' = [vi EXCEPT ![r] = vi[r] + 1]
         \/ ~(vi[r] < NV) /\ pc' = [pc EXCEPT ![r] = "opt"]
            /\ vi' = [vi EXCEPT ![r] = 1]
  BY DEF GradReduced, Leave, GoTo, ghostVars
<1>2. Reduced(r) \in [Vars -> Grads]
  BY Types DEF Reduced, ReducedGrad, Grads
<1>3. vi[r] < NV \/ vi[r] = NV
  BY Counters
<1>4. pc' \in [Ranks -> Pcs] /\ vi' \in [Ranks -> 1 .. NV]
  <2>1. vi[r] < NV => vi[r] + 1 \in 1 .. NV
    BY Counters
  <2>2. 1 \in 1 .. NV
    BY Counters
  <2>3. pc' \in [Ranks -> Pcs]
    <3>1. pc \in [Ranks -> Pcs] /\ "opt" \in Pcs
      BY Types, PcTypes
    <3> QED
      BY <1>1, <3>1
  <2>4. vi' \in [Ranks -> 1 .. NV]
    <3>1. vi \in [Ranks -> 1 .. NV]
      BY Types
    <3> QED
      BY <1>1, <2>1, <2>2, <3>1
  <2> QED
    BY <2>3, <2>4
<1>5. /\ g' \in [Ranks -> [Vars -> Grads]] /\ g'[r] = Reduced(r)
      /\ coll' \in [Ranks -> {"out", "in", "ready"}] /\ coll'[r] = "out"
      /\ Elsewhere(r)
  BY <1>1, <1>2, Types DEF Elsewhere
<1>6. \/ vi[r] < NV /\ pc'[r] = "grads" /\ vi'[r] = vi[r] + 1
      \/ vi[r] = NV /\ pc'[r] = "opt" /\ vi'[r] = 1
  BY <1>1, <1>3, Types
<1>7. TypeOK'
  BY <1>1, <1>4, <1>5 DEF Inv0, TypeOK
<1>8. ControlAt(r)'
  BY <1>1, <1>5, <1>6 DEF Inv0, ControlOK, ControlAt, SavePcs, CollPcs
<1> QED
  BY <1>1, <1>5, <1>6, <1>7, <1>8, ControlIsLocal DEF Inv0

LEMMA OptStepEffect ==
  ASSUME Inv0, NEW r \in Ranks, OptStep(r)
  PROVE  /\ pc[r] = "opt" /\ coll[r] = "out" /\ status[r] = "running"
         /\ w'[r] = Updated(r)
         /\ \/ LogsAt(step[r]) /\ pc'[r] = "log" /\ step'[r] = step[r]
            \/ ~LogsAt(step[r]) /\ pc'[r] = TopPc(step[r] + 1)
               /\ step'[r] = step[r] + 1
         /\ UNCHANGED <<status, vi, minBpb, g, coll, latched, contrib>>
         /\ Elsewhere(r) /\ Inv0'
<1>1. /\ pc[r] = "opt" /\ coll[r] = "out" /\ status[r] = "running"
      /\ UNCHANGED <<status, vi, minBpb, g, coll, latched, order, contrib, lossNan,
                     cnt, best, births, scored>>
      /\ w' = [w EXCEPT ![r] = Updated(r)]
      /\ \/ LogsAt(step[r]) /\ pc' = [pc EXCEPT ![r] = "log"] /\ step' = step
         \/ /\ ~LogsAt(step[r]) /\ pc' = [pc EXCEPT ![r] = TopPc(step[r] + 1)]
            /\ step' = [step EXCEPT ![r] = step[r] + 1]
  BY DEF OptStep, Local, GoTo, NextIteration, collVars, ghostVars
<1>2. step[r] < NumIters /\ step[r] + 1 \in 0 .. NumIters
  BY <1>1, Counters DEF Inv0, ControlOK, ControlAt
<1>3. Updated(r) \in [Vars -> Weight]
  BY <1>2, Types DEF Updated, Weight
<1>4. /\ w' \in [Ranks -> [Vars -> Weight]] /\ w'[r] = Updated(r)
      /\ \A q \in Ranks \ {r} : w'[q] = w[q]
  BY <1>1, <1>3, Types
<1>5. /\ step' \in [Ranks -> 0 .. NumIters]
      /\ \A q \in Ranks \ {r} : step'[q] = step[q]
  BY <1>1, <1>2, Types
<1>6. /\ pc' \in [Ranks -> Pcs]
      /\ \A q \in Ranks \ {r} : pc'[q] = pc[q]
  BY <1>1, Types, PcTypes
<1>7. \/ LogsAt(step[r]) /\ pc'[r] = "log" /\ step'[r] = step[r]
      \/ ~LogsAt(step[r]) /\ pc'[r] = TopPc(step[r] + 1) /\ step'[r] = step[r] + 1
  BY <1>1, Types
<1>8. Elsewhere(r)
  BY <1>1, <1>4, <1>5, <1>6 DEF Elsewhere
<1>9. TypeOK'
  BY <1>1, <1>4, <1>5, <1>6 DEF Inv0, TypeOK
<1>10. ControlAt(r)'
  BY <1>1, <1>2, <1>7, PcTypes DEF Inv0, ControlOK, ControlAt, SavePcs, CollPcs
<1> QED
  BY <1>1, <1>4, <1>7, <1>8, <1>9, <1>10, ControlIsLocal DEF Inv0

LEMMA LossReducedEffect ==
  ASSUME Inv0, NEW r \in Ranks, LossReduced(r)
  PROVE  /\ pc[r] = "log" /\ coll[r] = "ready" /\ status[r] = "running"
         /\ coll'[r] = "out"
         /\ \/ NonFinite(r) /\ pc'[r] = "end" /\ step'[r] = step[r]
               /\ status'[r] = "aborted"
            \/ ~NonFinite(r) /\ pc'[r] = TopPc(step[r] + 1)
               /\ step'[r] = step[r] + 1 /\ status'[r] = "running"
         /\ UNCHANGED <<vi, minBpb, w, g, latched, contrib>>
         /\ Elsewhere(r) /\ Inv0'
<1>1. /\ pc[r] = "log" /\ coll[r] = "ready" /\ status[r] = "running"
      /\ UNCHANGED <<vi, minBpb, w, g, latched, order, contrib, lossNan, cnt, best,
                     births, scored>>
      /\ coll' = [coll EXCEPT ![r] = "out"]
      /\ \/ /\ NonFinite(r) /\ pc' = [pc EXCEPT ![r] = "end"] /\ step' = step
            /\ status' = [status EXCEPT ![r] = "aborted"]
         \/ /\ ~NonFinite(r) /\ pc' = [pc EXCEPT ![r] = TopPc(step[r] + 1)]
            /\ step' = [step EXCEPT ![r] = step[r] + 1] /\ status' = status
  BY DEF LossReduced, Leave, GoTo, NextIteration, dataVars, ghostVars
<1>2. step[r] < NumIters /\ step[r] + 1 \in 0 .. NumIters
  BY <1>1, Counters DEF Inv0, ControlOK, ControlAt
<1>3. "aborted" \in Statuses
  BY DEF Statuses
<1>4. /\ status' \in [Ranks -> Statuses]
      /\ \A q \in Ranks \ {r} : status'[q] = status[q]
  <2>1. status \in [Ranks -> Statuses]
    BY Types
  <2> QED
    BY <1>1, <1>3, <2>1
<1>5. /\ step' \in [Ranks -> 0 .. NumIters]
      /\ \A q \in Ranks \ {r} : step'[q] = step[q]
  BY <1>1, <1>2, Types
<1>6. /\ pc' \in [Ranks -> Pcs]
      /\ \A q \in Ranks \ {r} : pc'[q] = pc[q]
  <2>1. PICK p \in Pcs : pc' = [pc EXCEPT ![r] = p]
    BY <1>1, PcTypes
  <2> QED
    BY <2>1, Types
<1>7. /\ coll' \in [Ranks -> {"out", "in", "ready"}] /\ coll'[r] = "out"
      /\ \A q \in Ranks \ {r} : coll'[q] = coll[q]
  BY <1>1, Types
<1>8. \/ NonFinite(r) /\ pc'[r] = "end" /\ step'[r] = step[r] /\ status'[r] = "aborted"
      \/ ~NonFinite(r) /\ pc'[r] = TopPc(step[r] + 1) /\ step'[r] = step[r] + 1
         /\ status'[r] = "running"
  <2>1. /\ pc \in [Ranks -> Pcs] /\ step \in [Ranks -> 0 .. NumIters]
        /\ status \in [Ranks -> Statuses]
    BY Types
  <2>2. CASE NonFinite(r)
    BY <1>1, <2>1, <2>2
  <2>3. CASE ~NonFinite(r)
    BY <1>1, <2>1, <2>3
  <2> QED
    BY <2>2, <2>3
<1>9. Elsewhere(r)
  BY <1>1, <1>4, <1>5, <1>6, <1>7 DEF Elsewhere
<1>10. TypeOK'
  BY <1>1, <1>4, <1>5, <1>6, <1>7 DEF Inv0, TypeOK
<1>11. ControlAt(r)'
  BY <1>1, <1>2, <1>7, <1>8, PcTypes DEF Inv0, ControlOK, ControlAt, SavePcs, CollPcs
<1> QED
  BY <1>1, <1>7, <1>8, <1>9, <1>10, <1>11, ControlIsLocal DEF Inv0

LEMMA DieEffect ==
  ASSUME Inv0, NEW r \in Ranks, NEW how \in {"died", "killed"}, Die(r, how)
  PROVE  /\ status[r] = "running" /\ status'[r] = how
         /\ UNCHANGED <<pc, step, vi, minBpb, w, g, coll, latched, contrib>>
         /\ Elsewhere(r) /\ Inv0'
<1>1. /\ status[r] = "running" /\ status' = [status EXCEPT ![r] = how]
      /\ UNCHANGED <<pc, step, vi, minBpb, w, g, coll, latched, order, contrib,
                     lossNan, cnt, best, births, scored>>
  BY DEF Die, dataVars, collVars, ghostVars
<1>2. how \in Statuses
  BY DEF Statuses
<1>3. status' \in [Ranks -> Statuses] /\ status'[r] = how /\ Elsewhere(r)
  BY <1>1, <1>2, Types DEF Elsewhere
<1>4. TypeOK'
  BY <1>1, <1>3 DEF Inv0, TypeOK
<1>5. ControlAt(r)'
  BY <1>1, <1>3 DEF Inv0, ControlOK, ControlAt
<1> QED
  BY <1>1, <1>3, <1>4, <1>5, ControlIsLocal DEF Inv0
-----------------------------------------------------------------------------
(* Every step is one of these, and every collective enters the same way.   *)

Entering(r) ==
  \E point \in CollPcs, c \in Contribs :
     Enter(r, point, c) /\ (point = "bcast" => c.n = w[r][vi[r]].src)

Stepping(r) ==
  \/ Entering(r)
  \/ WorldJoined(r) \/ VarBroadcast(r) \/ Evaluated(r)
  \/ r = 0 /\ Master
  \/ SampleOrBreak(r) \/ MicroBatches(r) \/ CountReduced(r) \/ GradReduced(r)
  \/ OptStep(r) \/ LossReduced(r) \/ Die(r, "died")

LEMMA NextCases ==
  ASSUME Inv0, Next
  PROVE  \E r \in Ranks : Stepping(r)
<1>1. PICK r \in Ranks : HostStep(r) \/ Returned(r) \/ Die(r, "died")
  BY DEF Next
<1>2. WeightsNan(r) \in BOOLEAN /\ cnt[r] \in Nat /\ lossNan[r] \in BOOLEAN
  BY DEF WeightsNan, Inv0, TypeOK
<1>3. \A v \in Vars : w[r][v].src \in Nat
  BY Types DEF Weight
<1>4. VarAt(r, vi[r]) = vi[r] /\ vi[r] \in Vars
  BY CanonicalOrder DEF Inv0, TypeOK, Vars
<1>5. {"join", "bcast", "eval", "count", "grads", "log"} = CollPcs
  BY DEF CollPcs
<1>6. CASE JoinWorld(r)
  BY <1>5, <1>6 DEF JoinWorld, Stepping, Entering, Contribs
<1>7. CASE BroadcastVar(r)
  <2>1. Enter(r, "bcast", [nan |-> FALSE, n |-> w[r][vi[r]].src])
    BY <1>4, <1>7 DEF BroadcastVar
  <2>2. [nan |-> FALSE, n |-> w[r][vi[r]].src] \in Contribs
    BY <1>3, <1>4 DEF Contribs
  <2> QED
    BY <1>5, <2>1, <2>2 DEF Stepping, Entering
<1>8. CASE EvalSums(r)
  <2>1. PICK x \in 0 .. MaxNats :
          Enter(r, "eval", IF HasBatch(r) THEN [nan |-> WeightsNan(r), n |-> x]
                                          ELSE [nan |-> FALSE, n |-> 0])
    BY <1>8 DEF EvalSums
  <2>2. /\ [nan |-> WeightsNan(r), n |-> x] \in Contribs
        /\ [nan |-> FALSE, n |-> 0] \in Contribs
    BY <1>2 DEF Contribs, Inv0, ConstantsAssumption
  <2> QED
    BY <1>5, <2>1, <2>2 DEF Stepping, Entering
<1>9. CASE CountSum(r)
  BY <1>2, <1>5, <1>9 DEF CountSum, Stepping, Entering, Contribs
<1>10. CASE GradAvg(r)
  <2>1. [nan |-> g[r][VarAt(r, vi[r])] = "nan", n |-> 0] \in Contribs
    BY DEF Contribs
  <2> QED
    BY <1>5, <1>10, <2>1 DEF GradAvg, Stepping, Entering
<1>11. CASE LossSums(r)
  BY <1>2, <1>5, <1>11 DEF LossSums, Stepping, Entering, Contribs
<1> QED
  BY <1>1, <1>6, <1>7, <1>8, <1>9, <1>10, <1>11 DEF HostStep, Returned, Stepping

(* Ranks at the door of `train`, spawned already or not. *)
LEMMA Inv0Init ==
  ASSUME ConstantsAssumption, InitRanks, status \in [Ranks -> {"unborn", "running"}]
  PROVE  Inv0
<1>1. /\ "join" \in Pcs /\ {"unborn", "running"} \subseteq Statuses
      /\ 0 \in 0 .. NumIters /\ 1 \in 1 .. NV
      /\ "absent" \in Grads /\ Absent \in ModelFiles
      /\ Absent \in MetaFiles /\ [nan |-> FALSE, n |-> 0] \in Contribs
      /\ "out" \in {"out", "in", "ready"}
  BY PcTypes DEF Statuses, Grads, ModelFiles, MetaFiles, Contribs, ConstantsAssumption
<1>2. Infinity \in Nat
  BY DEF Infinity, ConstantsAssumption
<1>3. \A r \in Ranks : [src |-> r, nanAt |-> 0] \in Weight
  BY DEF Weight, Ranks, ConstantsAssumption
<1>4. TypeOK
  BY <1>1, <1>2, <1>3 DEF InitRanks, TypeOK
<1>5. ControlOK
  BY DEF InitRanks, ControlOK, ControlAt, SavePcs
<1> QED
  BY <1>4, <1>5 DEF Inv0

LEMMA Inv0Step == ASSUME Inv0, [Next]_vars PROVE Inv0'
<1>1. CASE Next
  <2>1. PICK r \in Ranks : Stepping(r)
    BY <1>1, NextCases
  <2> QED
    BY <2>1, EnterInv0, WorldJoinedEffect, VarBroadcastEffect, EvaluatedEffect,
       MasterEffect, SampleOrBreakEffect, MicroBatchesEffect, CountReducedEffect,
       GradReducedEffect, OptStepEffect, LossReducedEffect, DieEffect
    DEF Stepping, Entering
<1>2. CASE UNCHANGED vars
  BY <1>2 DEF Inv0, TypeOK, ControlOK, ControlAt, vars, hostVars, dataVars, collVars,
              ghostVars
<1> QED
  BY <1>1, <1>2

(* TypeOK is an invariant of the training loop of any number of ranks.     *)
THEOREM TypeCorrect == Spec => []TypeOK
<1>1. Init => Inv0
  BY Inv0Init, ConstantsAssumption DEF Init
<1>2. Inv0 /\ [Next]_vars => Inv0'
  BY Inv0Step
<1>3. Inv0 => TypeOK
  BY DEF Inv0
<1> QED
  BY <1>1, <1>2, <1>3, PTL DEF Spec
-----------------------------------------------------------------------------
(* What a rank knows of its own non-finite numbers.  No lockstep is needed *)
(* here: a rank brings its own NaN to the reduction of the loss and to the *)
(* evaluation, so the reduced value cannot be finite.                      *)

(* The contribution c is the one that rank r's program makes at point. *)
Honest(r, point, c) ==
  /\ point = "log" => c.nan = lossNan[r]
  /\ point = "eval" /\ HasBatch(r) => c.nan = WeightsNan(r)
  /\ point \in {"count", "log"} => c.n = cnt[r]
  /\ point = "grads" => c.nan = (g[r][vi[r]] = "nan")

Announced(r) ==
  /\ coll[r] = "in" => Honest(r, pc[r], contrib[r])
  /\ coll[r] = "ready" => Honest(r, pc[r], latched[r])

(* The weights were not finite before this step's update. *)
StaleNan(r) == \E v \in Vars : w[r][v].nanAt \in 1 .. step[r]

(* A NaN of the weights shows in the loss of every later step, and no step *)
(* that logs has gone by since.                                            *)
NanSeen(r) ==
  /\ pc[r] \in {"count", "grads", "opt", "log"} /\ StaleNan(r) => lossNan[r]
  /\ \A v \in Vars : w[r][v].nanAt # 0 =>
       \A m \in w[r][v].nanAt .. step[r] - 1 : ~LogsAt(m)

(* What the master owes to best/ at each point of checkpoint::save. *)
BestOK ==
  /\ minBpb[0] <= Infinity
  /\ pc[0] \in SavePcs => ~WeightsNan(0) /\ minBpb[0] # Infinity
  /\ pc[0] \in {"meta", "metaing"} => best.model = Model(step[0], FALSE)
  /\ BestIsLowest

OwnInv == Inv0 /\ BestOK /\ \A r \in Ranks : Announced(r) /\ NanSeen(r)

LEMMA OwnInit == ASSUME ConstantsAssumption, Init PROVE OwnInv
<1>1. Inv0 /\ 0 \in Ranks /\ Infinity \in Nat
  <2>1. InitRanks /\ status \in [Ranks -> {"unborn", "running"}]
    BY DEF Init
  <2>2. Inv0
    BY <2>1, Inv0Init
  <2>3. Infinity \in Nat
    BY DEF Infinity, ConstantsAssumption
  <2> QED
    BY <2>2, <2>3, Types
<1>2. BestOK
  BY <1>1 DEF Init, InitRanks, BestOK, BestIsLowest, SavePcs
<1>3. \A r \in Ranks : Announced(r) /\ NanSeen(r)
  BY DEF Init, InitRanks, Announced, NanSeen
<1> QED
  BY <1>1, <1>2, <1>3 DEF OwnInv

(* A rank, and the directory, that a step does not touch. *)
LEMMA NanSeenStable ==
  ASSUME NEW q \in Ranks, pc'[q] = pc[q], step'[q] = step[q], w'[q] = w[q],
         lossNan'[q] = lossNan[q], NanSeen(q)
  PROVE  NanSeen(q)'
BY DEF NanSeen, StaleNan

LEMMA BestStable ==
  ASSUME BestOK, pc'[0] = pc[0], step'[0] = step[0], w'[0] = w[0],
         minBpb'[0] = minBpb[0], UNCHANGED best
  PROVE  BestOK'
BY DEF BestOK, BestIsLowest, WeightsNan, Infinity

LEMMA OwnEnter ==
  ASSUME OwnInv, NEW r \in Ranks, NEW point \in CollPcs, NEW c \in Contribs,
         Enter(r, point, c), Honest(r, point, c)
  PROVE  OwnInv'
<1>1. /\ Inv0 /\ pc[r] = point /\ contrib' = [contrib EXCEPT ![r] = c]
      /\ contrib \in [Ranks -> Contribs] /\ coll \in [Ranks -> {"out", "in", "ready"}]
      /\ UNCHANGED <<pc, step, vi, w, g, cnt, minBpb, lossNan, best>> /\ 0 \in Ranks
  BY Types DEF OwnInv, Inv0, TypeOK, Enter, hostVars, dataVars
<1>2. Inv0'
  BY <1>1, EnterInv0
<1>3. \A q \in Ranks : NanSeen(q)'
  BY <1>1, NanSeenStable DEF OwnInv
<1>4. BestOK'
  BY <1>1, BestStable DEF OwnInv
<1>5. \A q \in Ranks : Announced(q)'
  <2>1. TAKE q \in Ranks
  <2>2. (coll[q] = "in" \/ q = r) => Honest(q, pc[q], contrib'[q])
    BY <1>1 DEF OwnInv, Announced
  <2>3. CASE \A p \in Ranks \ {r} : coll[p] = "in" /\ status[p] = "running"
    <3>1. coll'[q] = "ready" /\ latched' = contrib'
      BY <2>3 DEF Enter
    <3>2. Honest(q, pc[q], latched'[q])
      BY <2>2, <2>3, <3>1
    <3> QED
      BY <1>1, <3>1, <3>2 DEF Announced, Honest, WeightsNan, HasBatch
  <2>4. CASE ~\A p \in Ranks \ {r} : coll[p] = "in" /\ status[p] = "running"
    <3>1. /\ latched' = latched
          /\ coll'[q] = IF q = r THEN "in" ELSE coll[q]
      BY <1>1, <2>4 DEF Enter
    <3>2. coll[q] = "ready" => Honest(q, pc[q], latched[q])
      BY DEF OwnInv, Announced
    <3> QED
      BY <1>1, <2>2, <3>1, <3>2 DEF Announced, Honest, WeightsNan, HasBatch
  <2> QED
    BY <2>3, <2>4
<1> QED
  BY <1>2, <1>3, <1>4, <1>5 DEF OwnInv

(* The steps of rank r that announce nothing. *)
Working(r) ==
  \/ WorldJoined(r) \/ VarBroadcast(r) \/ Evaluated(r)
  \/ r = 0 /\ Master
  \/ SampleOrBreak(r) \/ MicroBatches(r) \/ CountReduced(r) \/ GradReduced(r)
  \/ OptStep(r) \/ LossReduced(r) \/ Die(r, "died")

LEMMA WorkingEffect ==
  ASSUME Inv0, NEW r \in Ranks, Working(r)
  PROVE  /\ Inv0' /\ Elsewhere(r) /\ UNCHANGED <<latched, contrib>>
         /\ \A q \in Ranks \ {r} : lossNan'[q] = lossNan[q] /\ cnt'[q] = cnt[q]
         /\ \/ coll'[r] = "out"
            \/ UNCHANGED <<pc, vi, w, g, lossNan, cnt, coll>>
         /\ UNCHANGED best \/ (r = 0 /\ Master)
<1>1. CASE WorldJoined(r)
  BY <1>1, WorldJoinedEffect DEF WorldJoined, dataVars
<1>2. CASE VarBroadcast(r)
  BY <1>2, VarBroadcastEffect DEF VarBroadcast
<1>3. CASE Evaluated(r)
  BY <1>3, EvaluatedEffect DEF Evaluated, dataVars
<1>4. CASE r = 0 /\ Master
  <2>1. coll[0] = "out" /\ UNCHANGED <<lossNan, cnt>>
    BY <1>4 DEF Master, CreateModel, WriteModel, CreateMeta, WriteMeta, SaveStep, Local,
                dataVars
  <2> QED
    BY <1>4, <2>1, MasterEffect
<1>5. CASE SampleOrBreak(r)
  BY <1>5, SampleOrBreakEffect DEF SampleOrBreak, Local, dataVars
<1>6. CASE MicroBatches(r)
  <2>1. PICK x, c : lossNan' = [lossNan EXCEPT ![r] = x] /\ cnt' = [cnt EXCEPT ![r] = c]
    BY <1>6 DEF MicroBatches, Pass
  <2>2. \A q \in Ranks \ {r} : lossNan'[q] = lossNan[q] /\ cnt'[q] = cnt[q]
    BY <2>1 DEF Inv0, TypeOK
  <2> QED
    BY <1>6, <2>2, MicroBatchesEffect DEF MicroBatches
<1>7. CASE CountReduced(r)
  BY <1>7, CountReducedEffect DEF CountReduced
<1>8. CASE GradReduced(r)
  BY <1>8, GradReducedEffect DEF GradReduced
<1>9. CASE OptStep(r)
  BY <1>9, OptStepEffect DEF OptStep
<1>10. CASE LossReduced(r)
  BY <1>10, LossReducedEffect DEF LossReduced, dataVars
<1>11. CASE Die(r, "died")
  BY <1>11, DieEffect DEF Die, dataVars
<1> QED
  BY <1>1, <1>2, <1>3, <1>4, <1>5, <1>6, <1>7, <1>8, <1>9, <1>10, <1>11 DEF Working

LEMMA AnnouncedWorking ==
  ASSUME OwnInv, NEW r \in Ranks, Working(r), NEW q \in Ranks
  PROVE  Announced(q)'
<1>1. /\ Elsewhere(r) /\ UNCHANGED <<latched, contrib>>
      /\ \A p \in Ranks \ {r} : lossNan'[p] = lossNan[p] /\ cnt'[p] = cnt[p]
      /\ coll'[r] = "out" \/ UNCHANGED <<pc, vi, w, g, lossNan, cnt, coll>>
  BY WorkingEffect DEF OwnInv
<1>2. CASE coll'[q] = "out"
  BY <1>2 DEF Announced
<1>3. CASE /\ pc'[q] = pc[q] /\ vi'[q] = vi[q] /\ w'[q] = w[q] /\ g'[q] = g[q]
           /\ coll'[q] = coll[q] /\ lossNan'[q] = lossNan[q] /\ cnt'[q] = cnt[q]
  <2>1. Announced(q) /\ UNCHANGED <<latched, contrib>>
    BY <1>1 DEF OwnInv
  <2>2. WeightsNan(q)' = WeightsNan(q) /\ HasBatch(q)' = HasBatch(q)
    BY <1>3 DEF WeightsNan, HasBatch
  <2> QED
    BY <1>3, <2>1, <2>2 DEF Announced, Honest
<1> QED
  BY <1>1, <1>2, <1>3 DEF Elsewhere

LEMMA NanSeenWorking ==
  ASSUME OwnInv, NEW r \in Ranks, Working(r)
  PROVE  NanSeen(r)'
<1>1. /\ Inv0 /\ NanSeen(r) /\ Announced(r) /\ step[r] \in Nat
      /\ w \in [Ranks -> [Vars -> Weight]] /\ lossNan \in [Ranks -> BOOLEAN]
  BY Counters DEF OwnInv, Inv0, TypeOK
<1>2. \A v \in Vars : w[r][v].nanAt \in Nat
  BY <1>1 DEF Weight, Inv0, ConstantsAssumption
<1>3. CASE WorldJoined(r) \/ Evaluated(r) \/ (r = 0 /\ Master) \/ SampleOrBreak(r)
  <2>1. /\ pc'[r] \notin {"count", "grads", "opt", "log"}
        /\ w'[r] = w[r] /\ step'[r] = step[r]
    BY <1>1, <1>3, WorldJoinedEffect, EvaluatedEffect, MasterEffect, SampleOrBreakEffect
    DEF SavePcs
  <2> QED
    BY <1>1, <2>1 DEF NanSeen
<1>4. CASE VarBroadcast(r)
  <2>1. /\ pc'[r] \notin {"count", "grads", "opt", "log"}
        /\ w'[r] = Received(r) /\ step'[r] = step[r]
    BY <1>1, <1>4, VarBroadcastEffect, PcTypes
  <2>2. \A v \in Vars : w'[r][v].nanAt = w[r][v].nanAt
    BY <2>1 DEF Received
  <2> QED
    BY <1>1, <2>1, <2>2 DEF NanSeen
<1>5. CASE MicroBatches(r)
  <2>1. /\ UNCHANGED <<w, step>>
        /\ WeightsNan(r) => lossNan'[r]
    <3>1. PICK x : lossNan' = [lossNan EXCEPT ![r] = x \/ WeightsNan(r)]
      BY <1>5 DEF MicroBatches, Pass
    <3> QED
      BY <1>1, <1>5, <3>1, MicroBatchesEffect
  <2>2. StaleNan(r)' => WeightsNan(r)
    BY <1>1, <2>1 DEF StaleNan, WeightsNan
  <2>3. StaleNan(r)' => lossNan'[r]
    BY <2>1, <2>2
  <2> QED
    BY <1>1, <2>1, <2>3 DEF NanSeen
<1>6. CASE CountReduced(r) \/ GradReduced(r) \/ Die(r, "died")
  <2>1. /\ UNCHANGED <<w, step, lossNan>>
        /\ pc[r] \in {"count", "grads"} \/ pc'[r] = pc[r]
    BY <1>1, <1>6, CountReducedEffect, GradReducedEffect, DieEffect
    DEF CountReduced, GradReduced, Die, dataVars
  <2> QED
    BY <1>1, <2>1 DEF NanSeen, StaleNan
<1>7. CASE OptStep(r)
  <2>1. /\ pc[r] = "opt" /\ w'[r] = Updated(r) /\ lossNan' = lossNan
        /\ \/ pc'[r] = "log" /\ step'[r] = step[r]
           \/ /\ ~LogsAt(step[r]) /\ pc'[r] \in {"eval", "sample"}
              /\ step'[r] = step[r] + 1
    BY <1>1, <1>7, OptStepEffect, PcTypes DEF OptStep
  <2>2. \A v \in Vars : \/ w'[r][v].nanAt = w[r][v].nanAt
                        \/ w'[r][v].nanAt = step[r] + 1
    BY <2>1 DEF Updated
  <2>3. ASSUME NEW v \in Vars, w'[r][v].nanAt # 0,
               NEW m \in w'[r][v].nanAt .. step'[r] - 1
        PROVE  ~LogsAt(m)
    <3>1. m \in Int /\ w'[r][v].nanAt <= m /\ m < step'[r]
      BY <1>1, <1>2, <2>1, <2>2, <2>3
    <3>2. w'[r][v].nanAt = w[r][v].nanAt
      BY <1>1, <1>2, <2>1, <2>2, <3>1
    <3>3. CASE m = step[r]
      BY <1>1, <2>1, <3>1, <3>3
    <3>4. CASE m # step[r]
      <4>1. m \in w[r][v].nanAt .. step[r] - 1
        <5>1. step'[r] \in {step[r], step[r] + 1} /\ step[r] \in Nat
          BY <1>1, <2>1
        <5>2. m \in Int /\ m < step'[r] /\ m # step[r]
          BY <3>1, <3>4
        <5>3. m < step[r]
          BY <5>1, <5>2
        <5>4. w[r][v].nanAt <= m /\ w[r][v].nanAt \in Nat
          BY <1>2, <2>3, <3>1, <3>2
        <5> QED
          BY <5>1, <5>2, <5>3, <5>4
      <4> QED
        BY <1>1, <2>3, <3>2, <4>1 DEF NanSeen
    <3> QED
      BY <3>3, <3>4
  <2>4. pc'[r] = "log" /\ StaleNan(r)' => StaleNan(r)
    <3>1. ASSUME pc'[r] = "log", NEW v \in Vars, w'[r][v].nanAt \in 1 .. step'[r]
          PROVE  w[r][v].nanAt \in 1 .. step[r]
      BY <1>1, <2>1, <2>2, <3>1
    <3> QED
      BY <3>1 DEF StaleNan
  <2> QED
    BY <1>1, <2>1, <2>3, <2>4 DEF NanSeen
<1>8. CASE LossReduced(r)
  <2>1. /\ pc[r] = "log" /\ coll[r] = "ready" /\ UNCHANGED <<w, lossNan, latched>>
        /\ \/ pc'[r] = "end" /\ step'[r] = step[r]
           \/ /\ ~NonFinite(r) /\ pc'[r] \in {"eval", "sample"}
              /\ step'[r] = step[r] + 1
    BY <1>1, <1>8, LossReducedEffect, PcTypes DEF LossReduced, dataVars
  <2>2. CASE pc'[r] = "end"
    BY <1>1, <2>1, <2>2 DEF NanSeen
  <2>3. CASE ~NonFinite(r) /\ pc'[r] \in {"eval", "sample"} /\ step'[r] = step[r] + 1
    <3>1. ~lossNan[r]
      BY <1>1, <2>1, <2>3 DEF NonFinite, AnyNan, Announced, Honest
    <3>2. \A v \in Vars : w[r][v].nanAt \notin 1 .. step[r]
      BY <1>1, <2>1, <3>1 DEF NanSeen, StaleNan
    <3>3. \A v \in Vars : w[r][v].nanAt # 0 => w[r][v].nanAt > step[r]
      BY <1>1, <1>2, <3>2
    <3>4. \A v \in Vars : w[r][v].nanAt # 0 =>
             w[r][v].nanAt .. step'[r] - 1 = {}
      BY <1>1, <1>2, <2>3, <3>3
    <3> QED
      BY <2>1, <2>3, <3>4 DEF NanSeen
  <2> QED
    BY <2>1, <2>2, <2>3
<1> QED
  BY <1>3, <1>4, <1>5, <1>6, <1>7, <1>8 DEF Working

LEMMA NatsBelowInfinity ==
  ASSUME ConstantsAssumption
  PROVE  SummedNats \in Nat /\ SummedNats < Infinity
<1> DEFINE cells == {cell \in Ranks \X (1 .. MaxNats) : cell[2] <= latched[cell[1]].n}
<1>1. /\ IsFiniteSet(Ranks) /\ Cardinality(Ranks) = W
      /\ IsFiniteSet(1 .. MaxNats) /\ Cardinality(1 .. MaxNats) = MaxNats
  BY FS_Interval DEF ConstantsAssumption, Ranks
<1>2. /\ IsFiniteSet(Ranks \X (1 .. MaxNats))
      /\ Cardinality(Ranks \X (1 .. MaxNats)) = W * MaxNats
  BY <1>1, FS_Product
<1>3. Cardinality(cells) <= W * MaxNats
  BY <1>2, FS_Subset
<1>4. W * MaxNats \in Nat
  BY DEF ConstantsAssumption
<1> QED
  BY <1>3, <1>4, SummedNatsType DEF SummedNats, Infinity

LEMMA BestWorking ==
  ASSUME OwnInv, NEW r \in Ranks, Working(r)
  PROVE  BestOK'
<1>1. /\ Inv0 /\ BestOK /\ Announced(0) /\ step[0] \in Nat /\ 0 \in Ranks
      /\ ConstantsAssumption /\ minBpb \in [Ranks -> Nat]
      /\ best \in [model : ModelFiles, meta : MetaFiles]
  BY Types, Counters DEF OwnInv, Inv0, TypeOK
<1>2. CASE r # 0
  <2>1. UNCHANGED best /\ Elsewhere(r)
    BY <1>1, <1>2, WorkingEffect
  <2> QED
    BY <1>1, <1>2, <2>1, BestStable DEF Elsewhere
<1>3. CASE r = 0 /\ Evaluated(0)
  <2>1. /\ pc[0] = "eval" /\ coll[0] = "ready" /\ UNCHANGED <<step, w, best>>
        /\ pc'[0] = IF Improves(0) THEN "save" ELSE "sample"
        /\ minBpb'[0] = IF Improves(0) THEN ReducedBpb(0) ELSE minBpb[0]
    <3>1. GoTo(0, IF Improves(0) THEN "save" ELSE "sample") /\ UNCHANGED best
      BY <1>3 DEF Evaluated
    <3>2. pc' = [pc EXCEPT ![0] = IF Improves(0) THEN "save" ELSE "sample"]
      BY <3>1 DEF GoTo
    <3>3. pc'[0] = IF Improves(0) THEN "save" ELSE "sample"
      BY <1>1, <3>2, Types
    <3> QED
      BY <1>1, <1>3, <3>1, <3>3, EvaluatedEffect
  <2>2. CASE Improves(0)
    <3>1. ReducedBpb(0) < minBpb[0] /\ ~latched[0].nan
      BY <1>1, <2>2 DEF Improves, AnyNan
    <3>2. HasBatch(0) /\ ReducedBpb(0) = SummedNats
      BY <1>1, <3>1 DEF HasBatch, ReducedBpb, BestOK, ConstantsAssumption, Infinity
    <3>3. ~WeightsNan(0)
      BY <1>1, <2>1, <3>1, <3>2 DEF Announced, Honest
    <3>4. minBpb'[0] < Infinity
      BY <1>1, <2>1, <2>2, <3>2, NatsBelowInfinity
    <3>5. minBpb'[0] <= Infinity /\ minBpb'[0] # Infinity /\ Infinity' = Infinity
      BY <1>1, <2>1, <2>2, <3>2, <3>4, NatsBelowInfinity DEF Infinity, ConstantsAssumption
    <3>6. pc'[0] = "save" /\ WeightsNan(0)' = WeightsNan(0)
      BY <2>1, <2>2 DEF WeightsNan
    <3> QED
      BY <3>3, <3>5, <3>6 DEF BestOK, BestIsLowest, SavePcs
  <2>3. CASE ~Improves(0)
    BY <1>1, <2>1, <2>3 DEF BestOK, BestIsLowest, WeightsNan, Infinity, SavePcs
  <2> QED
    BY <2>2, <2>3
<1>4. CASE r = 0 /\ Master
  <2>1. ASSUME NEW from, NEW to, NEW file, SaveStep(from, to, file)
        PROVE  /\ pc[0] = from /\ pc'[0] = to /\ best' = file
               /\ UNCHANGED <<step, w, minBpb>>
    BY <1>1, <2>1, Types DEF SaveStep, Local, GoTo, dataVars
  <2>2. pc[0] \in SavePcs /\ ~WeightsNan(0) /\ minBpb[0] # Infinity
    BY <1>1, <1>4, MasterEffect DEF BestOK
  <2>3. WeightsNan(0)' = WeightsNan(0) /\ Infinity' = Infinity /\ UNCHANGED <<step, minBpb>>
    <3>1. PICK from, to, file : SaveStep(from, to, file)
      BY <1>4 DEF Master, CreateModel, WriteModel, CreateMeta, WriteMeta
    <3> QED
      BY <2>1, <3>1 DEF WeightsNan, Infinity
  <2>4. CASE CreateModel
    <3>1. pc'[0] = "saving"
      BY <2>1, <2>4 DEF CreateModel
    <3> QED
      BY <1>1, <2>2, <2>3, <3>1 DEF BestOK, BestIsLowest, SavePcs
  <2>5. CASE WriteModel
    <3>1. pc'[0] = "meta" /\ best'.model = Model(step[0], WeightsNan(0))
      BY <1>1, <2>1, <2>5 DEF WriteModel
    <3>2. WeightsNan(0) = FALSE
      BY <2>2 DEF WeightsNan
    <3> QED
      BY <1>1, <2>2, <2>3, <3>1, <3>2 DEF BestOK, BestIsLowest, SavePcs, Model
  <2>6. CASE CreateMeta
    <3>1. pc[0] = "meta" /\ pc'[0] = "metaing" /\ best'.model = best.model
      BY <1>1, <2>1, <2>6 DEF CreateMeta
    <3> QED
      BY <1>1, <2>2, <2>3, <3>1 DEF BestOK, BestIsLowest, SavePcs, Model
  <2>7. CASE WriteMeta
    <3>1. /\ pc[0] = "metaing" /\ pc'[0] = "sample"
          /\ best' = [best EXCEPT !.meta = Meta(step[0], minBpb[0])]
      BY <2>1, <2>7 DEF WriteMeta
    <3>2. best' = [model |-> Model(step[0], FALSE), meta |-> Meta(step[0], minBpb[0])]
      BY <1>1, <3>1 DEF BestOK
    <3>3. step[0] \in 0 .. step'[0]
      BY <1>1, <2>3
    <3> QED
      BY <1>1, <2>2, <2>3, <3>1, <3>2, <3>3 DEF BestOK, BestIsLowest, SavePcs, Model, Meta
  <2> QED
    BY <1>4, <2>4, <2>5, <2>6, <2>7 DEF Master
<1>5. CASE r = 0 /\ ~Master /\ ~Evaluated(0)
  <2>1. /\ UNCHANGED <<minBpb, best>>
        /\ \/ pc[0] \notin SavePcs /\ pc'[0] \notin SavePcs
           \/ pc'[0] = pc[0] /\ w'[0] = w[0] /\ step'[0] = step[0]
        /\ step'[0] \in {step[0], step[0] + 1}
    <3>1. CASE WorldJoined(0)
      BY <1>1, <1>5, <3>1, WorldJoinedEffect, WorkingEffect DEF Working, SavePcs
    <3>2. CASE VarBroadcast(0)
      BY <1>1, <1>5, <3>2, VarBroadcastEffect, WorkingEffect, PcTypes
      DEF Working, SavePcs
    <3>3. CASE SampleOrBreak(0)
      BY <1>1, <1>5, <3>3, SampleOrBreakEffect, WorkingEffect DEF Working, SavePcs
    <3>4. CASE MicroBatches(0)
      BY <1>1, <1>5, <3>4, MicroBatchesEffect, WorkingEffect
      DEF Working, SavePcs, AfterMicro
    <3>5. CASE CountReduced(0)
      BY <1>1, <1>5, <3>5, CountReducedEffect, WorkingEffect DEF Working, SavePcs
    <3>6. CASE GradReduced(0)
      BY <1>1, <1>5, <3>6, GradReducedEffect, WorkingEffect DEF Working, SavePcs
    <3>7. CASE OptStep(0)
      BY <1>1, <1>5, <3>7, OptStepEffect, WorkingEffect, PcTypes DEF Working, SavePcs
    <3>8. CASE LossReduced(0)
      BY <1>1, <1>5, <3>8, LossReducedEffect, WorkingEffect, PcTypes
      DEF Working, SavePcs
    <3>9. CASE Die(0, "died")
      BY <1>1, <1>5, <3>9, DieEffect, WorkingEffect DEF Working
    <3> QED
      BY <1>5, <3>1, <3>2, <3>3, <3>4, <3>5, <3>6, <3>7, <3>8, <3>9 DEF Working
  <2>2. \A s : s \in 0 .. step[0] => s \in 0 .. step'[0]
    BY <1>1, <2>1
  <2>3. CASE pc[0] \notin SavePcs /\ pc'[0] \notin SavePcs
    BY <1>1, <2>1, <2>2, <2>3 DEF BestOK, BestIsLowest, Infinity, SavePcs
  <2>4. CASE pc'[0] = pc[0] /\ w'[0] = w[0] /\ step'[0] = step[0]
    BY <1>1, <2>1, <2>4, BestStable
  <2> QED
    BY <2>1, <2>3, <2>4
<1> QED
  BY <1>2, <1>3, <1>4, <1>5

(* What each program point contributes. *)
LEMMA HonestEntry ==
  ASSUME Inv0, NEW r \in Ranks,
         JoinWorld(r) \/ BroadcastVar(r) \/ EvalSums(r) \/ CountSum(r) \/ GradAvg(r)
           \/ LossSums(r)
  PROVE  \E point \in CollPcs, c \in Contribs : Enter(r, point, c) /\ Honest(r, point, c)
<1>1. WeightsNan(r) \in BOOLEAN /\ cnt[r] \in Nat /\ lossNan[r] \in BOOLEAN
  BY DEF WeightsNan, Inv0, TypeOK
<1>2. {"join", "bcast", "eval", "count", "grads", "log"} = CollPcs
  BY DEF CollPcs
<1>3. CASE JoinWorld(r)
  BY <1>2, <1>3 DEF JoinWorld, Honest, Contribs
<1>4. CASE BroadcastVar(r)
  <2>1. VarAt(r, vi[r]) = vi[r] /\ vi[r] \in Vars
    BY CanonicalOrder DEF Inv0, TypeOK, Vars
  <2>2. [nan |-> FALSE, n |-> w[r][vi[r]].src] \in Contribs
    BY <2>1, Types DEF Contribs, Weight
  <2> QED
    BY <1>2, <1>4, <2>1, <2>2 DEF BroadcastVar, Honest
<1>5. CASE EvalSums(r)
  <2>1. PICK x \in 0 .. MaxNats :
          Enter(r, "eval", IF HasBatch(r) THEN [nan |-> WeightsNan(r), n |-> x]
                                          ELSE [nan |-> FALSE, n |-> 0])
    BY <1>5 DEF EvalSums
  <2>2. /\ [nan |-> WeightsNan(r), n |-> x] \in Contribs
        /\ [nan |-> FALSE, n |-> 0] \in Contribs
    BY <1>1 DEF Contribs, Inv0, ConstantsAssumption
  <2> QED
    BY <1>2, <2>1, <2>2 DEF Honest
<1>6. CASE CountSum(r)
  BY <1>1, <1>2, <1>6 DEF CountSum, Honest, Contribs
<1>7. CASE GradAvg(r)
  <2>1. VarAt(r, vi[r]) = vi[r]
    BY CanonicalOrder DEF Inv0, TypeOK
  <2>2. [nan |-> g[r][vi[r]] = "nan", n |-> 0] \in Contribs
    BY DEF Contribs
  <2> QED
    BY <1>2, <1>7, <2>1, <2>2 DEF GradAvg, Honest
<1>8. CASE LossSums(r)
  BY <1>1, <1>2, <1>8 DEF LossSums, Honest, Contribs
<1> QED
  BY <1>3, <1>4, <1>5, <1>6, <1>7, <1>8

LEMMA OwnStep == ASSUME OwnInv, [Next]_vars PROVE OwnInv'
<1>1. CASE Next
  <2>1. PICK r \in Ranks : HostStep(r) \/ Returned(r) \/ Die(r, "died")
    BY <1>1 DEF Next
  <2>2. CASE Working(r)
    <3>1. Inv0' /\ BestOK' /\ NanSeen(r)' /\ \A q \in Ranks : Announced(q)'
      BY <2>2, WorkingEffect, BestWorking, NanSeenWorking, AnnouncedWorking DEF OwnInv
    <3>2. \A q \in Ranks \ {r} : NanSeen(q)'
      BY <2>2, WorkingEffect, NanSeenStable DEF OwnInv, Elsewhere
    <3> QED
      BY <3>1, <3>2 DEF OwnInv
  <2>3. CASE JoinWorld(r) \/ BroadcastVar(r) \/ EvalSums(r) \/ CountSum(r)
             \/ GradAvg(r) \/ LossSums(r)
    <3>1. PICK point \in CollPcs, c \in Contribs : Enter(r, point, c) /\ Honest(r, point, c)
      BY <2>3, HonestEntry DEF OwnInv
    <3> QED
      BY <3>1, OwnEnter
  <2> QED
    BY <2>1, <2>2, <2>3 DEF HostStep, Returned, Working
<1>2. CASE UNCHANGED vars
  <2>1. UNCHANGED <<pc, step, vi, w, g, cnt, minBpb, lossNan, coll, contrib, latched, best>>
    BY <1>2 DEF vars, hostVars, dataVars, collVars
  <2>2. Inv0' /\ BestOK' /\ \A q \in Ranks : NanSeen(q)'
    BY <1>2, <2>1, Inv0Step, BestStable, NanSeenStable DEF OwnInv
  <2>3. \A q \in Ranks : Announced(q)'
    BY <2>1 DEF OwnInv, Announced, Honest, WeightsNan, HasBatch
  <2> QED
    BY <2>2, <2>3 DEF OwnInv
<1> QED
  BY <1>1, <1>2

LEMMA OwnInvariant == Spec => []OwnInv
<1>1. Init => OwnInv
  BY OwnInit, ConstantsAssumption
<1>2. OwnInv /\ [Next]_vars => OwnInv'
  BY OwnStep
<1> QED
  BY <1>1, <1>2, PTL DEF Spec

(* Among LogEvery steps in a row one logs. *)
LEMMA NextLogStep ==
  ASSUME NEW period \in Nat \ {0}, NEW k \in Nat
  PROVE  \E m \in k .. k + period - 1 : m % period = 0
<1> DEFINE q == k \div period
<1> DEFINE e == k % period
<1>1. q \in Nat /\ e \in 0 .. period - 1 /\ k = period * q + e
  OBVIOUS
<1>2. CASE e = 0
  BY <1>1, <1>2
<1>3. CASE e # 0
  <2>1. period * (q + 1) = period * q + period /\ period * (q + 1) \in Int
    BY <1>1
  <2>2. period * (q + 1) \in k .. k + period - 1
    BY <1>1, <1>3, <2>1
  <2>3. (period * (q + 1)) % period = 0
    BY <1>1
  <2> QED
    BY <2>2, <2>3
<1> QED
  BY <1>2, <1>3

(* A non-finite model is noticed within log_every steps, by every rank for *)
(* itself.                                                                 *)
THEOREM NanAlwaysNoticed == Spec => []NanAbortLag
<1>1. ASSUME OwnInv PROVE NanAbortLag
  <2>1. SUFFICES ASSUME NEW r \in Ranks, NEW v \in Vars, w[r][v].nanAt # 0
                 PROVE  step[r] <= w[r][v].nanAt - 1 + LogEvery
    BY DEF NanAbortLag
  <2>2. /\ w[r][v].nanAt \in Nat /\ step[r] \in Nat /\ LogEvery \in Nat \ {0}
    <3>1. w[r][v] \in Weight
      BY <1>1, Types DEF OwnInv
    <3> QED
      BY <1>1, <3>1, Counters DEF OwnInv, Weight, Inv0, ConstantsAssumption
  <2>3. PICK m \in w[r][v].nanAt .. w[r][v].nanAt + LogEvery - 1 : m % LogEvery = 0
    BY <2>2, NextLogStep
  <2>4. m \notin w[r][v].nanAt .. step[r] - 1
    BY <1>1, <2>1, <2>3 DEF OwnInv, NanSeen, LogsAt
  <2> QED
    BY <2>2, <2>3, <2>4
<1> QED
  BY <1>1, OwnInvariant, PTL

(* Outside checkpoint::save, best/ is the lowest score so far.             *)
THEOREM BestAlwaysLowest == Spec => []BestIsLowest
<1>1. OwnInv => BestIsLowest
  BY DEF OwnInv, BestOK
<1> QED
  BY <1>1, OwnInvariant, PTL

-----------------------------------------------------------------------------
(* The lockstep of the ranks. *)

(* The part of the argument that does not depend on the program. *)

LEMMA CurStable ==
  ASSUME NEW q \in Ranks, pc'[q] = pc[q], step'[q] = step[q], vi'[q] = vi[q],
         minBpb'[q] = minBpb[q], w'[q] = w[q], g'[q] = g[q]
  PROVE  Cur(q)' = Cur(q)
BY DEF Cur, Point, Weights, Gradients, Updated

LEMMA AdvanceStable ==
  ASSUME NEW q \in Ranks, latched' = latched, Cur(q)' = Cur(q)
  PROVE  Advance(Cur(q))' = Advance(Cur(q))
<1> DEFINE c == Cur(q)
<1>1. /\ AnyNan' = AnyNan /\ NothingScored' = NothingScored
      /\ SharedBpb' = SharedBpb /\ SharedGrad' = SharedGrad
  BY DEF AnyNan, NothingScored, SharedBpb, SharedGrad, SummedNats, Infinity
<1>2. NewPoint(c.pt)' = NewPoint(c.pt)
  BY <1>1 DEF NewPoint
<1>3. NewLow(c.pt, c.min)' = NewLow(c.pt, c.min)
  BY <1>1 DEF NewLow
<1>4. NewWeights(c.pt, c.w, c.g)' = NewWeights(c.pt, c.w, c.g)
  BY <1>1 DEF NewWeights
<1>5. NewGradients(c.pt, c.g)' = NewGradients(c.pt, c.g)
  BY <1>1 DEF NewGradients
<1> QED
  BY <1>2, <1>3, <1>4, <1>5 DEF Advance

LEMMA SilentStep ==
  ASSUME SameFuture, SameRelease, latched' = latched,
         \A q \in Ranks : coll'[q] = coll[q] /\ Cur(q)' = Cur(q)
  PROVE  (SameFuture /\ SameRelease)'
<1>1. \A q \in Ranks : Future(q)' = Future(q)
  BY AdvanceStable DEF Future
<1> QED
  BY <1>1 DEF SameFuture, SameRelease

LEMMA ReturnStep ==
  ASSUME SameFuture, SameRelease, latched' = latched, NEW r \in Ranks,
         coll[r] = "ready", coll'[r] = "out", Cur(r)' = Advance(Cur(r)),
         \A q \in Ranks \ {r} : coll'[q] = coll[q] /\ Cur(q)' = Cur(q)
  PROVE  (SameFuture /\ SameRelease)'
<1>1. \A q \in Ranks \ {r} : Future(q)' = Future(q)
  BY AdvanceStable DEF Future
<1>2. Future(r)' = Future(r)
  BY DEF Future
<1>3. SameFuture'
  BY <1>1, <1>2 DEF SameFuture
<1>4. SameRelease'
  BY DEF SameRelease
<1> QED
  BY <1>3, <1>4

(* What Enter does to the progress of the collective: nobody is released,  *)
(* or everybody is, from equal places.                                     *)
LEMMA EnterCases ==
  ASSUME Inv0, SameFuture, NEW r \in Ranks, NEW point, NEW c, Enter(r, point, c)
  PROVE  /\ status[r] = "running" /\ pc[r] = point /\ coll[r] = "out"
         /\ UNCHANGED <<status, pc, step, vi, minBpb, w, g>>
         /\ contrib' = [contrib EXCEPT ![r] = c]
         /\ \A q \in Ranks : Cur(q)' = Cur(q)
         /\ \/ /\ latched' = latched
               /\ coll' = [coll EXCEPT ![r] = "in"]
            \/ /\ latched' = contrib'
               /\ \A q \in Ranks : coll'[q] = "ready"
               /\ \A q \in Ranks \ {r} : coll[q] = "in"
               /\ \A p, q \in Ranks : Cur(p) = Cur(q)
<1>1. /\ status[r] = "running" /\ pc[r] = point /\ coll[r] = "out"
      /\ UNCHANGED <<status, pc, step, vi, minBpb, w, g>>
      /\ contrib' = [contrib EXCEPT ![r] = c]
  BY DEF Enter, hostVars, dataVars
<1>2. \A q \in Ranks : Cur(q)' = Cur(q)
  BY <1>1, CurStable
<1>3. CASE \A q \in Ranks \ {r} : coll[q] = "in" /\ status[q] = "running"
  <2>1. latched' = contrib' /\ \A q \in Ranks : coll'[q] = "ready"
    BY <1>3 DEF Enter
  <2>2. \A q \in Ranks : Future(q) = Cur(q)
    BY <1>1, <1>3 DEF Future
  <2> QED
    BY <1>1, <1>2, <1>3, <2>1, <2>2 DEF SameFuture
<1>4. CASE ~\A q \in Ranks \ {r} : coll[q] = "in" /\ status[q] = "running"
  <2>1. latched' = latched /\ coll' = [coll EXCEPT ![r] = "in"]
    BY <1>4 DEF Enter
  <2> QED
    BY <1>1, <1>2, <2>1
<1> QED
  BY <1>3, <1>4

LEMMA EnterStep ==
  ASSUME Inv0, SameFuture, SameRelease, SameBase, NEW r \in Ranks,
         NEW point \in CollPcs, NEW c, Enter(r, point, c)
  PROVE  (SameFuture /\ SameRelease /\ SameBase)'
<1>1. /\ coll[r] = "out"
      /\ UNCHANGED <<pc, vi, w>>
      /\ \A q \in Ranks : Cur(q)' = Cur(q)
  BY EnterCases
<1>2. CASE latched' = latched /\ coll' = [coll EXCEPT ![r] = "in"]
  <2>1. coll'[r] = "in" /\ \A q \in Ranks \ {r} : coll'[q] = coll[q]
    BY <1>2, Types
  <2>2. \A q \in Ranks : Future(q)' = Future(q)
    BY <1>1, <1>2, <2>1, AdvanceStable DEF Future
  <2>3. SameRelease'
    BY <1>1, <2>1 DEF SameRelease
  <2>4. SameBase'
    BY <1>1, <2>1 DEF SameBase, InUpdate
  <2> QED
    BY <2>2, <2>3, <2>4 DEF SameFuture
<1>3. CASE /\ latched' = contrib'
           /\ \A q \in Ranks : coll'[q] = "ready"
           /\ \A q \in Ranks \ {r} : coll[q] = "in"
           /\ \A p, q \in Ranks : Cur(p) = Cur(q)
  <2>1. \A p, q \in Ranks : Cur(p)' = Cur(q)'
    BY <1>1, <1>3
  <2>2. SameRelease'
    BY <2>1 DEF SameRelease
  <2>3. SameFuture'
    <3>1. SUFFICES ASSUME NEW p \in Ranks, NEW q \in Ranks
                   PROVE  Future(p)' = Future(q)'
      BY DEF SameFuture
    <3>2. Advance(Cur(p))' = Advance(Cur(q))'
      BY <2>1 DEF Advance, NewPoint, NewLow, NewWeights, NewGradients
    <3> QED
      BY <1>3, <3>2 DEF Future
  <2>4. SameBase'
    <3>1. SUFFICES ASSUME NEW p \in Ranks, NEW q \in Ranks, InUpdate(p)', InUpdate(q)'
                   PROVE  w'[p] = w'[q]
      BY DEF SameBase
    <3>2. \A t \in Ranks : pc[t] # "opt"
      <4>1. pc[r] = point
        BY EnterCases
      <4>2. \A t \in Ranks \ {r} : pc[t] \in CollPcs
        BY <1>3 DEF Inv0, ControlOK, ControlAt
      <4> QED
        BY <4>1, <4>2 DEF CollPcs
    <3>3. pc[p] = "grads" /\ pc[q] = "grads"
      BY <1>1, <3>1, <3>2 DEF InUpdate
    <3>4. Weights(p) = w[p] /\ Weights(q) = w[q]
      BY <3>3, Types DEF Weights
    <3>5. Weights(p) = Weights(q)
      BY <1>3 DEF Cur
    <3> QED
      BY <1>1, <3>4, <3>5
  <2> QED
    BY <2>2, <2>3, <2>4
<1> QED
  BY <1>2, <1>3, EnterCases

LEMMA ElsewhereStable ==
  ASSUME NEW r \in Ranks, Elsewhere(r)
  PROVE  \A q \in Ranks \ {r} : coll'[q] = coll[q] /\ Cur(q)' = Cur(q)
BY CurStable DEF Elsewhere

LEMMA BaseStep ==
  ASSUME SameBase, NEW r \in Ranks, Elsewhere(r),
         InUpdate(r)' => InUpdate(r) /\ w'[r] = w[r]
  PROVE  SameBase'
<1>1. \A q \in Ranks \ {r} : (InUpdate(q)' <=> InUpdate(q)) /\ w'[q] = w[q]
  BY DEF InUpdate, Elsewhere
<1> QED
  BY <1>1 DEF SameBase
-----------------------------------------------------------------------------
(* What the program does to Cur: local steps nothing, returns Advance.     *)

LEMMA MasterCur ==
  ASSUME Inv0, Master
  PROVE  Cur(0)' = Cur(0)
<1>1. /\ pc[0] \in SavePcs /\ pc'[0] \in SavePcs \cup {"sample"}
      /\ UNCHANGED <<step, minBpb, w>> /\ 0 \in Ranks
  BY MasterEffect, Types
<1>2. Point(0)' = Point(0)
  BY <1>1 DEF Point
<1>3. Weights(0)' = Weights(0) /\ Gradients(0)' = Gradients(0)
  BY <1>1 DEF Weights, Gradients, SavePcs
<1> QED
  BY <1>1, <1>2, <1>3 DEF Cur

LEMMA SampleOrBreakCur ==
  ASSUME Inv0, NEW r \in Ranks, SampleOrBreak(r)
  PROVE  Cur(r)' = Cur(r)
<1>1. /\ pc[r] = "sample"
      /\ \/ step[r] = NumIters /\ pc'[r] = "end"
         \/ step[r] # NumIters /\ pc'[r] = "micro"
      /\ UNCHANGED <<step, vi, minBpb, w>>
  BY SampleOrBreakEffect
<1>2. vi[r] = 1
  BY <1>1 DEF Inv0, ControlOK, ControlAt
<1>3. Point(r)' = Point(r)
  BY <1>1, <1>2 DEF Point, AfterEval, SavePcs
<1>4. Weights(r)' = Weights(r) /\ Gradients(r)' = Gradients(r)
  BY <1>1 DEF Weights, Gradients
<1> QED
  BY <1>1, <1>3, <1>4 DEF Cur

LEMMA MicroBatchesCur ==
  ASSUME Inv0, NEW r \in Ranks, MicroBatches(r)
  PROVE  Cur(r)' = Cur(r)
<1>1. /\ pc[r] = "micro" /\ pc'[r] = IF MayIgnore THEN "count" ELSE "grads"
      /\ UNCHANGED <<step, vi, minBpb, w>>
  BY MicroBatchesEffect DEF AfterMicro
<1>2. vi[r] = 1 /\ step[r] # NumIters
  BY <1>1, Counters DEF Inv0, ControlOK, ControlAt
<1>3. Point(r)' = Point(r)
  BY <1>1, <1>2 DEF Point, AfterEval, SavePcs
<1>4. Weights(r)' = Weights(r)
  BY <1>1 DEF Weights
<1>5. Gradients(r)' = Gradients(r)
  <2>1. \A v \in Vars : ~(v < 1)
    BY DEF Vars
  <2> QED
    BY <1>1, <1>2, <2>1 DEF Gradients
<1> QED
  BY <1>1, <1>3, <1>4, <1>5 DEF Cur

LEMMA OptStepCur ==
  ASSUME Inv0, NEW r \in Ranks, OptStep(r)
  PROVE  Cur(r)' = Cur(r)
<1>1. /\ pc[r] = "opt" /\ w'[r] = Updated(r)
      /\ \/ LogsAt(step[r]) /\ pc'[r] = "log" /\ step'[r] = step[r]
         \/ ~LogsAt(step[r]) /\ pc'[r] = TopPc(step[r] + 1) /\ step'[r] = step[r] + 1
      /\ UNCHANGED <<vi, minBpb>>
  BY OptStepEffect
<1>2. vi[r] = 1
  BY <1>1 DEF Inv0, ControlOK, ControlAt
<1>3. Point(r)' = Point(r)
  BY <1>1, <1>2 DEF Point, AfterGrads, Top, TopPc, SavePcs
<1>4. pc'[r] \notin {"join", "bcast", "opt", "grads"} /\ pc[r] # "grads"
  BY <1>1, PcTypes
<1>5. Weights(r)' = Weights(r)
  BY <1>1, <1>4 DEF Weights, Updated
<1>6. Gradients(r)' = Gradients(r)
  BY <1>4 DEF Gradients
<1> QED
  BY <1>1, <1>3, <1>5, <1>6 DEF Cur

LEMMA WorldJoinedCur ==
  ASSUME Inv0, NEW r \in Ranks, WorldJoined(r)
  PROVE  Cur(r)' = Advance(Cur(r))
<1>1. /\ pc[r] = "join" /\ pc'[r] = "bcast"
      /\ UNCHANGED <<step, vi, minBpb, w, g>>
  BY WorldJoinedEffect
<1>2. vi[r] = 1
  BY <1>1 DEF Inv0, ControlOK, ControlAt
<1>3. Point(r) = <<"join", step[r], 1>>
  BY <1>1, <1>2 DEF Point, SavePcs
<1>4. Point(r)' = NewPoint(Point(r))
  BY <1>1, <1>2, <1>3 DEF Point, SavePcs, NewPoint
<1>5. NewLow(Point(r), minBpb[r]) = minBpb[r]
  BY <1>3 DEF NewLow
<1>6. Weights(r)' = NewWeights(Point(r), Weights(r), Gradients(r))
  <2>1. \A v \in Vars : v >= 1
    BY DEF Vars
  <2> QED
    BY <1>1, <1>2, <1>3, <2>1 DEF Weights, NewWeights
<1>7. Gradients(r)' = NewGradients(Point(r), Gradients(r))
  BY <1>1, <1>3 DEF Gradients, NewGradients
<1> QED
  BY <1>1, <1>4, <1>5, <1>6, <1>7 DEF Cur, Advance

LEMMA VarBroadcastCur ==
  ASSUME Inv0, NEW r \in Ranks, VarBroadcast(r)
  PROVE  Cur(r)' = Advance(Cur(r))
<1>1. /\ pc[r] = "bcast" /\ w'[r] = Received(r)
      /\ \/ vi[r] < NV /\ pc'[r] = "bcast" /\ vi'[r] = vi[r] + 1
         \/ vi[r] = NV /\ pc'[r] = TopPc(0) /\ vi'[r] = 1
      /\ UNCHANGED <<step, minBpb, g>>
  BY VarBroadcastEffect
<1>2. /\ step[r] = 0 /\ \A v \in Vars : w[r][v].nanAt = 0
      /\ VarAt(r, vi[r]) = vi[r] /\ vi[r] \in Nat /\ NV \in Nat
  BY <1>1, CanonicalOrder, Counters, Types DEF Inv0, TypeOK, ControlOK, ControlAt
<1>3. Point(r) = <<"bcast", 0, vi[r]>>
  BY <1>1, <1>2 DEF Point, SavePcs
<1>4. Point(r)' = NewPoint(Point(r))
  BY <1>1, <1>2, <1>3 DEF Point, SavePcs, NewPoint, Top, TopPc
<1>5. NewLow(Point(r), minBpb[r]) = minBpb[r]
  BY <1>3 DEF NewLow
<1>6. Received(r) = [v \in Vars |-> IF v = vi[r]
                                    THEN [src |-> latched[0].n, nanAt |-> 0]
                                    ELSE w[r][v]]
  BY <1>2 DEF Received, ReceivedInit
<1>7. Weights(r)' = NewWeights(Point(r), Weights(r), Gradients(r))
  <2>1. NewWeights(Point(r), Weights(r), Gradients(r)) =
          [v \in Vars |-> IF v = vi[r] THEN [src |-> latched[0].n, nanAt |-> 0]
                                       ELSE Weights(r)[v]]
    BY <1>3 DEF NewWeights
  <2>2. \A v \in Vars : v \in Nat /\ v <= NV
    BY <1>2 DEF Vars
  <2>3. \A v \in Vars : Weights(r)[v] = IF v >= vi[r] THEN Unset ELSE w[r][v]
    BY <1>1 DEF Weights
  <2>4. Weights(r)' = [v \in Vars |->
          IF pc'[r] = "bcast" /\ v >= vi'[r] THEN Unset ELSE Received(r)[v]]
    BY <1>1, PcTypes DEF Weights
  <2>5. CASE vi[r] < NV
    <3>1. \A v \in Vars : v >= vi[r] + 1 <=> v >= vi[r] /\ v # vi[r]
      BY <1>2, <2>2
    <3> QED
      BY <1>1, <1>2, <1>6, <2>1, <2>3, <2>4, <2>5, <3>1
  <2>6. CASE vi[r] = NV
    <3>1. \A v \in Vars : v >= vi[r] => v = vi[r]
      BY <1>2, <2>2, <2>6
    <3>2. pc'[r] # "bcast"
      BY <1>1, <1>2, <2>6, PcTypes
    <3> QED
      BY <1>6, <2>1, <2>3, <2>4, <3>1, <3>2
  <2> QED
    BY <1>1, <2>5, <2>6
<1>8. Gradients(r)' = NewGradients(Point(r), Gradients(r))
  BY <1>1, <1>3, PcTypes DEF Gradients, NewGradients
<1> QED
  BY <1>1, <1>4, <1>5, <1>7, <1>8 DEF Cur, Advance

LEMMA EvaluatedCur ==
  ASSUME Inv0, NEW r \in Ranks, Evaluated(r)
  PROVE  Cur(r)' = Advance(Cur(r))
<1>1. /\ pc[r] = "eval" /\ pc'[r] \in SavePcs \cup {"sample"}
      /\ minBpb'[r] = IF Improves(r) THEN ReducedBpb(r) ELSE minBpb[r]
      /\ UNCHANGED <<step, vi, w>>
  BY EvaluatedEffect
<1>2. vi[r] = 1
  BY <1>1 DEF Inv0, ControlOK, ControlAt
<1>3. Point(r) = <<"eval", step[r], 1>>
  BY <1>1, <1>2 DEF Point, SavePcs
<1>4. Point(r)' = NewPoint(Point(r))
  BY <1>1, <1>3 DEF Point, NewPoint
<1>5. minBpb'[r] = NewLow(Point(r), minBpb[r])
  BY <1>1, <1>3 DEF NewLow, Improves, ReducedBpb, SharedBpb
<1>6. pc'[r] \notin {"join", "bcast", "grads", "opt"}
  BY <1>1 DEF SavePcs
<1>7. Weights(r)' = NewWeights(Point(r), Weights(r), Gradients(r))
  BY <1>1, <1>3, <1>6 DEF Weights, NewWeights
<1>8. Gradients(r)' = NewGradients(Point(r), Gradients(r))
  BY <1>1, <1>3, <1>6 DEF Gradients, NewGradients
<1> QED
  BY <1>4, <1>5, <1>7, <1>8 DEF Cur, Advance

LEMMA CountReducedCur ==
  ASSUME Inv0, NEW r \in Ranks, CountReduced(r)
  PROVE  Cur(r)' = Advance(Cur(r))
<1>1. /\ pc[r] = "count" /\ pc'[r] = "grads"
      /\ UNCHANGED <<step, vi, minBpb, w>>
  BY CountReducedEffect
<1>2. vi[r] = 1
  BY <1>1 DEF Inv0, ControlOK, ControlAt
<1>3. Point(r) = <<"count", step[r], 1>>
  BY <1>1, <1>2 DEF Point, SavePcs
<1>4. Point(r)' = NewPoint(Point(r))
  BY <1>1, <1>2, <1>3 DEF Point, SavePcs, NewPoint
<1>5. NewLow(Point(r), minBpb[r]) = minBpb[r]
  BY <1>3 DEF NewLow
<1>6. Weights(r)' = NewWeights(Point(r), Weights(r), Gradients(r))
  BY <1>1, <1>3 DEF Weights, NewWeights
<1>7. Gradients(r)' = NewGradients(Point(r), Gradients(r))
  <2>1. \A v \in Vars : ~(v < 1)
    BY DEF Vars
  <2> QED
    BY <1>1, <1>2, <1>3, <2>1 DEF Gradients, NewGradients
<1> QED
  BY <1>1, <1>4, <1>5, <1>6, <1>7 DEF Cur, Advance

LEMMA GradReducedCur ==
  ASSUME Inv0, NEW r \in Ranks, GradReduced(r)
  PROVE  Cur(r)' = Advance(Cur(r))
<1>1. /\ pc[r] = "grads" /\ g'[r] = Reduced(r)
      /\ \/ vi[r] < NV /\ pc'[r] = "grads" /\ vi'[r] = vi[r] + 1
         \/ vi[r] = NV /\ pc'[r] = "opt" /\ vi'[r] = 1
      /\ UNCHANGED <<step, minBpb, w>>
  BY GradReducedEffect
<1>2. VarAt(r, vi[r]) = vi[r] /\ vi[r] \in Nat /\ NV \in Nat
  BY CanonicalOrder, Counters, Types DEF Inv0, TypeOK
<1>3. Point(r) = <<"grads", step[r], vi[r]>>
  BY <1>1 DEF Point, SavePcs
<1>4. Point(r)' = NewPoint(Point(r))
  BY <1>1, <1>2, <1>3 DEF Point, SavePcs, NewPoint
<1>5. NewLow(Point(r), minBpb[r]) = minBpb[r]
  BY <1>3 DEF NewLow
<1>6. Reduced(r) = [v \in Vars |-> IF v = vi[r] THEN SharedGrad ELSE g[r][v]]
  BY <1>2 DEF Reduced, ReducedGrad, SharedGrad
<1>7. \A v \in Vars : v \in Nat /\ v <= NV
  BY <1>2 DEF Vars
<1>8. \A v \in Vars : /\ v < vi[r] + 1 <=> v < vi[r] \/ v = vi[r]
                      /\ vi[r] = NV => (v < vi[r] <=> v # NV)
  BY <1>2, <1>7
<1>9. Weights(r) = [v \in Vars |-> w[r][v]]
  BY <1>1 DEF Weights
<1>10. Gradients(r) = [v \in Vars |-> IF v < vi[r] THEN g[r][v] ELSE "absent"]
  BY <1>1 DEF Gradients
<1>11. CASE vi[r] < NV
  <2>1. vi[r] # NV /\ pc'[r] = "grads" /\ vi'[r] = vi[r] + 1
    BY <1>1, <1>2, <1>11
  <2>2. Weights(r)' = NewWeights(Point(r), Weights(r), Gradients(r))
    BY <1>1, <1>3, <1>9, <2>1 DEF Weights, NewWeights
  <2>3. Gradients(r)' = NewGradients(Point(r), Gradients(r))
    <3>1. Gradients(r)' =
            [v \in Vars |-> IF v < vi[r] + 1 THEN Reduced(r)[v] ELSE "absent"]
      BY <1>1, <2>1 DEF Gradients
    <3>2. NewGradients(Point(r), Gradients(r)) =
            [v \in Vars |-> IF v = vi[r] THEN SharedGrad ELSE Gradients(r)[v]]
      BY <1>3, <2>1 DEF NewGradients
    <3> QED
      BY <1>6, <1>8, <1>10, <3>1, <3>2
  <2> QED
    BY <1>1, <1>4, <1>5, <2>2, <2>3 DEF Cur, Advance
<1>12. CASE vi[r] = NV
  <2>1. pc'[r] = "opt"
    BY <1>1, <1>2, <1>12
  <2>2. Weights(r)' = NewWeights(Point(r), Weights(r), Gradients(r))
    <3>1. Weights(r)' = [v \in Vars |->
            IF w[r][v].nanAt = 0 /\ Reduced(r)[v] = "nan"
            THEN [src |-> w[r][v].src, nanAt |-> step[r] + 1] ELSE w[r][v]]
      BY <1>1, <2>1 DEF Weights, Updated
    <3>2. \A v \in Vars :
            Reduced(r)[v] = IF v = NV THEN SharedGrad ELSE Gradients(r)[v]
      BY <1>6, <1>8, <1>10, <1>12
    <3>3. NewWeights(Point(r), Weights(r), Gradients(r)) = [v \in Vars |->
            IF /\ w[r][v].nanAt = 0
               /\ (IF v = NV THEN SharedGrad ELSE Gradients(r)[v]) = "nan"
            THEN [src |-> w[r][v].src, nanAt |-> step[r] + 1] ELSE w[r][v]]
      BY <1>3, <1>9, <1>12 DEF NewWeights
    <3> QED
      BY <3>1, <3>2, <3>3
  <2>3. Gradients(r)' = NewGradients(Point(r), Gradients(r))
    BY <1>3, <1>12, <2>1 DEF Gradients, NewGradients
  <2> QED
    BY <1>1, <1>4, <1>5, <2>2, <2>3 DEF Cur, Advance
<1> QED
  BY <1>1, <1>11, <1>12

LEMMA LossReducedCur ==
  ASSUME Inv0, NEW r \in Ranks, LossReduced(r)
  PROVE  Cur(r)' = Advance(Cur(r))
<1>1. /\ pc[r] = "log"
      /\ \/ NonFinite(r) /\ pc'[r] = "end" /\ step'[r] = step[r]
         \/ ~NonFinite(r) /\ pc'[r] = TopPc(step[r] + 1) /\ step'[r] = step[r] + 1
      /\ UNCHANGED <<vi, minBpb, w, g>>
  BY LossReducedEffect
<1>2. vi[r] = 1
  BY <1>1 DEF Inv0, ControlOK, ControlAt
<1>3. Point(r) = <<"log", step[r], 1>>
  BY <1>1, <1>2 DEF Point, SavePcs
<1>4. Point(r)' = NewPoint(Point(r))
  BY <1>1, <1>2, <1>3 DEF Point, SavePcs, NewPoint, Top, TopPc, NonFinite
<1>5. NewLow(Point(r), minBpb[r]) = minBpb[r]
  BY <1>3 DEF NewLow
<1>6. pc'[r] \notin {"join", "bcast", "grads", "opt"}
  BY <1>1, PcTypes
<1>7. Weights(r)' = NewWeights(Point(r), Weights(r), Gradients(r))
  BY <1>1, <1>3, <1>6 DEF Weights, NewWeights
<1>8. Gradients(r)' = NewGradients(Point(r), Gradients(r))
  BY <1>1, <1>3, <1>6 DEF Gradients, NewGradients
<1> QED
  BY <1>1, <1>4, <1>5, <1>7, <1>8 DEF Cur, Advance

-----------------------------------------------------------------------------
(* Everything a parameter holds after its broadcast is rank 0's.           *)

LEMMA ZeroEnter ==
  ASSUME Inv0, Lockstep, NEW r \in Ranks, NEW point \in CollPcs, NEW c \in Contribs,
         Enter(r, point, c), point = "bcast" => c.n = w[r][vi[r]].src
  PROVE  FromRankZero'
<1>1. /\ pc[r] = point /\ coll[r] = "out" /\ 0 \in Ranks
      /\ UNCHANGED <<pc, vi, w>>
      /\ contrib' = [contrib EXCEPT ![r] = c]
  BY EnterCases, Types DEF Lockstep
<1>2. vi[0] \in Vars /\ contrib \in [Ranks -> Contribs]
  BY Types DEF Inv0, TypeOK, Vars
<1>3. pc[0] = "bcast" /\ (r = 0 \/ coll[0] = "in") => contrib'[0].n = 0
  BY <1>1, <1>2 DEF Lockstep, FromRankZero
<1>4. CASE latched' = latched /\ coll' = [coll EXCEPT ![r] = "in"]
  <2>1. coll'[r] = "in" /\ \A q \in Ranks \ {r} : coll'[q] = coll[q]
    BY <1>4, Types
  <2> QED
    BY <1>1, <1>3, <1>4, <2>1 DEF Lockstep, FromRankZero, PastBroadcast
<1>5. CASE /\ latched' = contrib'
           /\ \A q \in Ranks : coll'[q] = "ready"
           /\ \A q \in Ranks \ {r} : coll[q] = "in"
           /\ \A p, q \in Ranks : Cur(p) = Cur(q)
  <2>1. \A q \in Ranks : pc[q] \in CollPcs
    BY <1>1, <1>5 DEF Inv0, ControlOK, ControlAt
  <2>2. \A q \in Ranks : Point(q) = <<pc[q], step[q], vi[q]>>
    BY <2>1 DEF Point, CollPcs, SavePcs
  <2>3. \A q \in Ranks : Point(q) = Point(0)
    BY <1>1, <1>5 DEF Cur
  <2>4. \A q \in Ranks : pc[q] = pc[0]
    BY <1>1, <2>2, <2>3
  <2> QED
    BY <1>1, <1>3, <1>5, <2>4 DEF Lockstep, FromRankZero, PastBroadcast
<1> QED
  BY <1>4, <1>5, EnterCases DEF Lockstep

LEMMA ZeroStep ==
  ASSUME Inv0, FromRankZero, NEW r \in Ranks, Elsewhere(r),
         UNCHANGED <<latched, contrib>>,
         coll'[r] = "out" \/ (coll'[r] = coll[r] /\ pc'[r] # "bcast"),
         \A v \in Vars :
            PastBroadcast(r)' \/ (pc'[r] = "bcast" /\ v < vi'[r]) => w'[r][v].src = 0,
         r = 0 => \A v \in Vars : w'[0][v].src = 0
  PROVE  FromRankZero'
<1>1. \A q \in Ranks \ {r} :
        /\ pc'[q] = pc[q] /\ vi'[q] = vi[q] /\ w'[q] = w[q] /\ coll'[q] = coll[q]
  BY DEF Elsewhere
<1>2. 0 \in Ranks
  BY Types
<1> QED
  BY <1>1, <1>2 DEF FromRankZero, PastBroadcast

-----------------------------------------------------------------------------
(* Lockstep is inductive relative to Inv0. *)

IInv == Inv0 /\ Lockstep

LEMMA LockstepInit ==
  ASSUME ConstantsAssumption, InitRanks, status \in [Ranks -> {"unborn", "running"}]
  PROVE  IInv
<1>1. Inv0
  BY Inv0Init
<1>2. \A r \in Ranks : Cur(r) = Cur(0) /\ coll[r] = "out"
  <2>1. SUFFICES ASSUME NEW r \in Ranks PROVE Cur(r) = Cur(0)
    BY DEF InitRanks
  <2>2. 0 \in Ranks
    BY <1>1, Types
  <2>3. pc[r] = "join" /\ pc[0] = "join"
    BY <2>2 DEF InitRanks
  <2>4. Point(r) = Point(0) /\ minBpb[r] = minBpb[0]
    BY <2>2 DEF InitRanks, Point, SavePcs
  <2>5. Weights(r) = Weights(0) /\ Gradients(r) = Gradients(0)
    BY <2>3 DEF Weights, Gradients
  <2> QED
    BY <2>4, <2>5 DEF Cur
<1>3. SameFuture /\ SameRelease
  BY <1>2 DEF SameFuture, SameRelease, Future
<1>4. SameBase /\ FromRankZero
  <2>1. 0 \in Ranks
    BY <1>1, Types
  <2> QED
    BY <2>1 DEF InitRanks, SameBase, FromRankZero, InUpdate, PastBroadcast
<1> QED
  BY <1>1, <1>3, <1>4 DEF IInv, Lockstep

LEMMA LocalLockstep ==
  ASSUME IInv, NEW r \in Ranks,
         SampleOrBreak(r) \/ MicroBatches(r) \/ OptStep(r) \/ Die(r, "died")
  PROVE  Lockstep'
<1>1. /\ Inv0 /\ SameFuture /\ SameRelease /\ SameBase /\ FromRankZero
  BY DEF IInv, Lockstep
<1>2. /\ UNCHANGED <<coll, latched, contrib>> /\ Elsewhere(r)
      /\ Cur(r)' = Cur(r)
  <2>1. CASE SampleOrBreak(r)
    BY <1>1, <2>1, SampleOrBreakEffect, SampleOrBreakCur
  <2>2. CASE MicroBatches(r)
    BY <1>1, <2>2, MicroBatchesEffect, MicroBatchesCur
  <2>3. CASE OptStep(r)
    BY <1>1, <2>3, OptStepEffect, OptStepCur
  <2>4. CASE Die(r, "died")
    BY <1>1, <2>4, DieEffect, CurStable
  <2> QED
    BY <2>1, <2>2, <2>3, <2>4
<1>3. (SameFuture /\ SameRelease)'
  BY <1>1, <1>2, ElsewhereStable, SilentStep
<1>4. SameBase' /\ FromRankZero'
  <2>1. CASE SampleOrBreak(r) \/ MicroBatches(r)
    <3>1. /\ pc[r] \in {"sample", "micro"}
          /\ pc'[r] \in {"end", "micro", "count", "grads"}
          /\ w'[r] = w[r] /\ w'[0] = w[0] /\ coll[r] = "out"
      <4>1. CASE SampleOrBreak(r)
        BY <1>1, <4>1, SampleOrBreakEffect DEF SampleOrBreak, Local
      <4>2. CASE MicroBatches(r)
        BY <1>1, <4>2, MicroBatchesEffect DEF AfterMicro
      <4> QED
        BY <2>1, <4>1, <4>2
    <3>2. InUpdate(r)' => InUpdate(r) /\ w'[r] = w[r]
      BY <1>2, <3>1 DEF InUpdate
    <3>3. \A v \in Vars : w'[r][v].src = 0
      BY <1>1, <3>1 DEF FromRankZero, PastBroadcast
    <3> QED
      BY <1>1, <1>2, <3>1, <3>2, <3>3, BaseStep, ZeroStep
  <2>2. CASE OptStep(r)
    <3>1. /\ pc[r] = "opt" /\ coll[r] = "out" /\ w'[r] = Updated(r)
          /\ pc'[r] \in {"log", "eval", "sample"}
      BY <1>1, <2>2, OptStepEffect, PcTypes
    <3>2. InUpdate(r)' => InUpdate(r) /\ w'[r] = w[r]
      BY <1>2, <3>1 DEF InUpdate
    <3>3. \A v \in Vars : w'[r][v].src = w[r][v].src
      BY <3>1 DEF Updated
    <3>4. \A v \in Vars : w[r][v].src = 0
      BY <1>1, <3>1 DEF FromRankZero, PastBroadcast
    <3> QED
      BY <1>1, <1>2, <3>1, <3>2, <3>3, <3>4, BaseStep, ZeroStep
  <2>3. CASE Die(r, "died")
    <3>1. UNCHANGED <<pc, vi, w, coll, latched, contrib>>
      BY <1>1, <2>3, DieEffect
    <3> QED
      BY <1>1, <3>1 DEF SameBase, InUpdate, FromRankZero, PastBroadcast
  <2> QED
    BY <2>1, <2>2, <2>3
<1> QED
  BY <1>3, <1>4 DEF Lockstep

LEMMA MasterLockstep ==
  ASSUME IInv, Master
  PROVE  Lockstep'
<1>1. /\ Inv0 /\ SameFuture /\ SameRelease /\ SameBase /\ FromRankZero /\ 0 \in Ranks
  BY Types DEF IInv, Lockstep
<1>2. /\ UNCHANGED <<coll, latched, contrib, w>> /\ Elsewhere(0) /\ Cur(0)' = Cur(0)
      /\ pc[0] \in SavePcs /\ pc'[0] \in SavePcs \cup {"sample"}
  BY <1>1, MasterEffect, MasterCur
<1>3. (SameFuture /\ SameRelease)'
  BY <1>1, <1>2, ElsewhereStable, SilentStep
<1>4. InUpdate(0)' => InUpdate(0) /\ w'[0] = w[0]
  BY <1>2 DEF InUpdate, SavePcs
<1>5. \A v \in Vars : w'[0][v].src = 0
  BY <1>1, <1>2 DEF FromRankZero
<1>6. pc'[0] # "bcast"
  BY <1>2 DEF SavePcs
<1> QED
  BY <1>1, <1>2, <1>3, <1>4, <1>5, <1>6, BaseStep, ZeroStep DEF Lockstep

LEMMA ReturnLockstep ==
  ASSUME IInv, NEW r \in Ranks,
         \/ WorldJoined(r) \/ VarBroadcast(r) \/ Evaluated(r)
         \/ CountReduced(r) \/ GradReduced(r) \/ LossReduced(r)
  PROVE  Lockstep'
<1>1. /\ Inv0 /\ SameFuture /\ SameRelease /\ SameBase /\ FromRankZero
  BY DEF IInv, Lockstep
<1>2. /\ UNCHANGED <<latched, contrib>> /\ Elsewhere(r)
      /\ coll[r] = "ready" /\ coll'[r] = "out" /\ Cur(r)' = Advance(Cur(r))
  <2>1. CASE WorldJoined(r)
    BY <1>1, <2>1, WorldJoinedEffect, WorldJoinedCur
  <2>2. CASE VarBroadcast(r)
    BY <1>1, <2>2, VarBroadcastEffect, VarBroadcastCur
  <2>3. CASE Evaluated(r)
    BY <1>1, <2>3, EvaluatedEffect, EvaluatedCur
  <2>4. CASE CountReduced(r)
    BY <1>1, <2>4, CountReducedEffect, CountReducedCur
  <2>5. CASE GradReduced(r)
    BY <1>1, <2>5, GradReducedEffect, GradReducedCur
  <2>6. CASE LossReduced(r)
    BY <1>1, <2>6, LossReducedEffect, LossReducedCur
  <2> QED
    BY <2>1, <2>2, <2>3, <2>4, <2>5, <2>6
<1>3. (SameFuture /\ SameRelease)'
  BY <1>1, <1>2, ElsewhereStable, ReturnStep
<1>4. SameBase'
  <2>1. pc'[r] = "opt" => pc[r] = "grads" /\ vi[r] = NV /\ w'[r] = w[r]
    <3>1. CASE WorldJoined(r)
      BY <1>1, <3>1, WorldJoinedEffect
    <3>2. CASE VarBroadcast(r)
      BY <1>1, <3>2, VarBroadcastEffect, PcTypes
    <3>3. CASE Evaluated(r)
      BY <1>1, <3>3, EvaluatedEffect DEF SavePcs
    <3>4. CASE CountReduced(r)
      BY <1>1, <3>4, CountReducedEffect
    <3>5. CASE GradReduced(r)
      BY <1>1, <3>5, GradReducedEffect
    <3>6. CASE LossReduced(r)
      BY <1>1, <3>6, LossReducedEffect, PcTypes
    <3> QED
      BY <3>1, <3>2, <3>3, <3>4, <3>5, <3>6
  <2>2. InUpdate(r)' => InUpdate(r) /\ w'[r] = w[r]
    BY <1>2, <2>1 DEF InUpdate
  <2> QED
    BY <1>1, <1>2, <2>2, BaseStep
<1>5. FromRankZero'
  <2>1. CASE WorldJoined(r)
    <3>1. pc[r] = "join" /\ pc'[r] = "bcast" /\ vi'[r] = vi[r] /\ w' = w
      BY <1>1, <2>1, WorldJoinedEffect
    <3>2. vi[r] = 1 /\ \A v \in Vars : ~(v < 1)
      BY <1>1, <3>1 DEF Inv0, ControlOK, ControlAt, Vars
    <3>3. \A v \in Vars : w'[0][v].src = 0
      BY <1>1, <3>1 DEF FromRankZero
    <3> QED
      BY <1>1, <1>2, <3>1, <3>2, <3>3, ZeroStep DEF PastBroadcast
  <2>2. CASE VarBroadcast(r)
    <3>1. /\ pc[r] = "bcast" /\ w'[r] = Received(r)
          /\ \/ vi[r] < NV /\ pc'[r] = "bcast" /\ vi'[r] = vi[r] + 1
             \/ vi[r] = NV /\ pc'[r] = TopPc(0) /\ vi'[r] = 1
      BY <1>1, <2>2, VarBroadcastEffect
    <3>2. VarAt(r, vi[r]) = vi[r] /\ vi[r] \in Nat /\ NV \in Nat
      BY <1>1, CanonicalOrder, Counters, Types DEF Inv0, TypeOK
    <3>3. latched[0].n = 0
      BY <1>1, <1>2, <3>1 DEF FromRankZero
    <3>4. \A v \in Vars : Received(r)[v].src = IF v = vi[r] THEN 0 ELSE w[r][v].src
      BY <3>2, <3>3 DEF Received, ReceivedInit
    <3>5. \A v \in Vars : v \in Nat /\ v <= NV
      BY <3>2 DEF Vars
    <3>6. \A v \in Vars : v < vi[r] => w[r][v].src = 0
      BY <1>1, <3>1 DEF FromRankZero
    <3>7. \A v \in Vars :
            PastBroadcast(r)' \/ (pc'[r] = "bcast" /\ v < vi'[r]) => w'[r][v].src = 0
      <4>1. CASE vi[r] < NV
        <5>1. \A v \in Vars : v < vi[r] + 1 => v < vi[r] \/ v = vi[r]
          BY <3>2, <3>5
        <5> QED
          BY <3>1, <3>2, <3>4, <3>6, <4>1, <5>1 DEF PastBroadcast
      <4>2. CASE vi[r] = NV
        <5>1. \A v \in Vars : v < vi[r] \/ v = vi[r]
          BY <3>2, <3>5, <4>2
        <5> QED
          BY <3>1, <3>4, <3>6, <5>1
      <4> QED
        BY <3>1, <4>1, <4>2
    <3>8. r = 0 => \A v \in Vars : w'[0][v].src = 0
      BY <1>1, <3>1, <3>4 DEF FromRankZero
    <3> QED
      BY <1>1, <1>2, <3>7, <3>8, ZeroStep
  <2>3. CASE Evaluated(r) \/ CountReduced(r) \/ GradReduced(r) \/ LossReduced(r)
    <3>1. /\ pc[r] \in {"eval", "count", "grads", "log"} /\ w' = w
      BY <1>1, <2>3, EvaluatedEffect, CountReducedEffect, GradReducedEffect,
         LossReducedEffect
    <3>2. \A v \in Vars : w'[r][v].src = 0
      BY <1>1, <3>1 DEF FromRankZero, PastBroadcast
    <3> QED
      BY <1>1, <1>2, <3>1, <3>2, ZeroStep
  <2> QED
    BY <2>1, <2>2, <2>3
<1> QED
  BY <1>3, <1>4, <1>5 DEF Lockstep

LEMMA LockstepStep == ASSUME IInv, [Next]_vars PROVE IInv'
<1>1. Inv0'
  BY Inv0Step DEF IInv
<1>2. Lockstep'
  <2>1. CASE Next
    <3>1. PICK r \in Ranks : Stepping(r)
      BY <2>1, NextCases DEF IInv
    <3>2. CASE Entering(r)
      <4>1. PICK point \in CollPcs, c \in Contribs :
               Enter(r, point, c) /\ (point = "bcast" => c.n = w[r][vi[r]].src)
        BY <3>2 DEF Entering
      <4>2. (SameFuture /\ SameRelease /\ SameBase)'
        BY <4>1, EnterStep DEF IInv, Lockstep
      <4>3. FromRankZero'
        BY <4>1, ZeroEnter DEF IInv
      <4> QED
        BY <4>2, <4>3 DEF Lockstep
    <3> QED
      BY <3>1, <3>2, LocalLockstep, MasterLockstep, ReturnLockstep DEF Stepping
  <2>2. CASE UNCHANGED vars
    <3>1. UNCHANGED <<pc, step, vi, minBpb, w, g, coll, latched, contrib>>
      BY <2>2 DEF vars, hostVars, dataVars, collVars
    <3>2. \A q \in Ranks : coll'[q] = coll[q] /\ Cur(q)' = Cur(q)
      BY <3>1, CurStable
    <3>3. (SameFuture /\ SameRelease)'
      BY <3>1, <3>2, SilentStep DEF IInv, Lockstep
    <3>4. SameBase' /\ FromRankZero'
      BY <3>1 DEF IInv, Lockstep, SameBase, InUpdate, FromRankZero, PastBroadcast
    <3> QED
      BY <3>3, <3>4 DEF Lockstep
  <2> QED
    BY <2>1, <2>2
<1> QED
  BY <1>1, <1>2 DEF IInv

(* The ranks are in lockstep, whatever their number.                       *)
THEOREM LockstepInvariant == Spec => [](Inv0 /\ Lockstep)
<1>1. Init => IInv
  BY LockstepInit, ConstantsAssumption DEF Init
<1>2. IInv /\ [Next]_vars => IInv'
  BY LockstepStep
<1> QED
  BY <1>1, <1>2, PTL DEF Spec, IInv

-----------------------------------------------------------------------------
(* What Lockstep means for the properties of DdpTrain. *)

(* Future only moves the point, and the weights of a rank that is about to *)
(* update or still receives its initialization.                            *)
LEMMA FutureParts ==
  ASSUME Inv0, NEW r \in Ranks
  PROVE  /\ coll[r] # "ready" => Future(r).pt = Point(r)
         /\ coll[r] = "ready" => Future(r).pt = NewPoint(Point(r))
         /\ pc[r] # "eval" \/ coll[r] # "ready" => Future(r).min = minBpb[r]
         /\ PastBroadcast(r) /\ ~InUpdate(r) => Future(r).w = w[r]
<1>1. coll[r] # "ready" => Future(r).pt = Point(r) /\ Future(r).min = minBpb[r]
  BY DEF Future, Cur
<1>2. coll[r] = "ready" =>
        /\ pc[r] \in CollPcs /\ Point(r) = <<pc[r], step[r], vi[r]>>
        /\ Future(r).pt = NewPoint(Point(r))
        /\ Future(r).min = NewLow(Point(r), minBpb[r])
        /\ Future(r).w = NewWeights(Point(r), Weights(r), Gradients(r))
  <2>1. SUFFICES ASSUME coll[r] = "ready"
                 PROVE pc[r] \in CollPcs /\ Point(r) = <<pc[r], step[r], vi[r]>>
    BY DEF Future, Cur, Advance
  <2>2. pc[r] \in CollPcs
    BY <2>1 DEF Inv0, ControlOK, ControlAt
  <2> QED
    BY <2>2 DEF Point, CollPcs, SavePcs
<1>3. pc[r] # "eval" => Future(r).min = minBpb[r]
  BY <1>1, <1>2 DEF NewLow
<1>4. ASSUME PastBroadcast(r), ~InUpdate(r) PROVE Future(r).w = w[r]
  <2>1. Weights(r) = w[r]
    <3>1. Weights(r) = [v \in Vars |-> w[r][v]]
      BY <1>4 DEF Weights, PastBroadcast, InUpdate
    <3> QED
      BY <3>1, Types
  <2>2. coll[r] # "ready" => Future(r).w = w[r]
    BY <2>1 DEF Future, Cur
  <2>3. coll[r] = "ready" => NewWeights(Point(r), w[r], Gradients(r)) = w[r]
    BY <1>2, <1>4 DEF NewWeights, PastBroadcast, InUpdate
  <2> QED
    BY <1>2, <2>1, <2>2, <2>3
<1> QED
  BY <1>1, <1>2, <1>3, <1>4

LEMMA NewPoints ==
  /\ \A s, i : NewPoint(<<"eval", s, i>>) = AfterEval(s)
  /\ \A s, i : NewPoint(<<"count", s, i>>) = <<"grads", s, 1>>
  /\ \A s, i : i < NV => NewPoint(<<"grads", s, i>>) = <<"grads", s, i + 1>>
  /\ \A s, i : ~(i < NV) => NewPoint(<<"grads", s, i>>) = AfterGrads(s)
  /\ \A s, i : \/ NewPoint(<<"log", s, i>>) = <<"end", s, 1>>
              \/ NewPoint(<<"log", s, i>>) = Top(s + 1)
BY DEF NewPoint

LEMMA LockstepImpliesMatch == ASSUME IInv PROVE CollectivesMatch
<1>1. SUFFICES ASSUME NEW r \in Ranks, NEW q \in Ranks,
                      coll[r] = coll[q], coll[r] # "out"
               PROVE  Call(r) = Call(q)
  BY DEF CollectivesMatch
<1>2. Cur(r) = Cur(q)
  BY <1>1 DEF IInv, Lockstep, SameFuture, SameRelease, Future
<1>3. pc[r] \in CollPcs /\ pc[q] \in CollPcs
  BY <1>1 DEF IInv, Inv0, ControlOK, ControlAt
<1>4. /\ Point(r) = <<pc[r], step[r], vi[r]>>
      /\ Point(q) = <<pc[q], step[q], vi[q]>>
  BY <1>3 DEF Point, CollPcs, SavePcs
<1>5. pc[r] = pc[q] /\ vi[r] = vi[q]
  BY <1>2, <1>4 DEF Cur
<1>6. VarAt(r, vi[r]) = VarAt(q, vi[q])
  BY <1>5, CanonicalOrder, Types DEF IInv, Inv0, TypeOK
<1> QED
  BY <1>5, <1>6 DEF Call

LEMMA LockstepImpliesMin == ASSUME IInv PROVE MinBpbInLockstep
<1>1. SUFFICES ASSUME NEW r \in Ranks, NEW q \in Ranks,
                      step[r] = step[q], pc[r] = "eval" <=> pc[q] = "eval"
               PROVE  minBpb[r] = minBpb[q]
  BY DEF MinBpbInLockstep
<1>2. Future(r) = Future(q)
  BY DEF IInv, Lockstep, SameFuture
<1>3. CASE pc[r] # "eval"
  BY <1>1, <1>2, <1>3, FutureParts DEF IInv
<1>4. CASE pc[r] = "eval" /\ coll[r] = "ready" /\ coll[q] = "ready"
  BY <1>4 DEF IInv, Lockstep, SameRelease, Cur
<1>5. CASE pc[r] = "eval" /\ coll[r] # "ready" /\ coll[q] # "ready"
  BY <1>2, <1>5, FutureParts DEF IInv
<1>6. ASSUME NEW a \in Ranks, NEW b \in Ranks, pc[a] = "eval", pc[b] = "eval",
             coll[a] = "ready", coll[b] # "ready", Future(a) = Future(b)
      PROVE  FALSE
  <2>1. Future(a).pt = AfterEval(step[a])
    <3>1. Point(a) = <<"eval", step[a], vi[a]>>
      BY <1>6 DEF Point, SavePcs
    <3> QED
      BY <1>6, <3>1, FutureParts, NewPoints DEF IInv
  <2>2. Future(b).pt = <<"eval", step[b], vi[b]>>
    BY <1>6, FutureParts DEF IInv, Point, SavePcs
  <2>3. AfterEval(step[a])[1] # "eval"
    BY DEF AfterEval
  <2> QED
    BY <1>6, <2>1, <2>2, <2>3
<1> QED
  BY <1>1, <1>2, <1>3, <1>4, <1>5, <1>6

(* The number of updates behind a point. *)
Updates(pt) ==
  IF pt[1] = "log" \/ (pt[1] = "end" /\ pt[2] # NumIters) THEN pt[2] + 1 ELSE pt[2]

LEMMA UpdatesAtPoints ==
  ASSUME NEW s \in Nat
  PROVE  /\ Updates(AfterEval(s)) = s
         /\ Updates(Top(s)) = s
         /\ Updates(AfterGrads(s)) = s + 1
<1>1. ASSUME NEW t \in Nat PROVE Updates(AfterEval(t)) = t /\ Updates(Top(t)) = t
  BY DEF Updates, AfterEval, Top
<1>2. CASE LogsAt(s)
  BY <1>1, <1>2 DEF Updates, AfterGrads
<1>3. CASE ~LogsAt(s)
  BY <1>1, <1>3 DEF AfterGrads
<1> QED
  BY <1>1, <1>2, <1>3

(* Future counts one update more than Applied exactly while the update is  *)
(* decided but not applied.                                                *)
LEMMA FutureUpdates ==
  ASSUME Inv0, NEW r \in Ranks, PastBroadcast(r)
  PROVE  Updates(Future(r).pt) = IF InUpdate(r) THEN Applied(r) + 1 ELSE Applied(r)
<1>1. /\ step[r] \in Nat /\ step[r] <= NumIters /\ NumIters \in Nat
      /\ vi[r] \in Nat /\ NV \in Nat /\ vi[r] <= NV
      /\ pc[r] \in Pcs
      /\ coll[r] # "out" => pc[r] \in CollPcs
      /\ pc[r] \in {"micro", "count", "grads", "opt", "log"} => step[r] < NumIters
      /\ pc[r] = "end" <=> status[r] \in {"ok", "aborted"}
      /\ status[r] = "ok" => step[r] = NumIters
      /\ status[r] = "aborted" => step[r] < NumIters
  BY Counters, Types DEF Inv0, ControlOK, ControlAt
<1>2. CASE pc[r] \in SavePcs \cup {"sample", "micro"}
  <2>1. coll[r] = "out" /\ Point(r) = AfterEval(step[r])
    BY <1>1, <1>2 DEF Point, CollPcs, SavePcs
  <2>2. ~InUpdate(r) /\ Applied(r) = step[r]
    BY <1>1, <1>2 DEF InUpdate, Applied, SavePcs
  <2> QED
    BY <1>1, <2>1, <2>2, FutureParts, UpdatesAtPoints
<1>3. CASE pc[r] = "opt"
  <2>1. coll[r] = "out" /\ Point(r) = AfterGrads(step[r])
    BY <1>1, <1>3 DEF Point, CollPcs, SavePcs
  <2>2. InUpdate(r) /\ Applied(r) = step[r]
    BY <1>1, <1>3 DEF InUpdate, Applied
  <2> QED
    BY <1>1, <2>1, <2>2, FutureParts, UpdatesAtPoints
<1>4. CASE pc[r] = "end"
  <2>1. coll[r] = "out" /\ Point(r) = <<"end", step[r], vi[r]>>
    BY <1>1, <1>4 DEF Point, CollPcs, SavePcs
  <2>2. ~InUpdate(r)
    BY <1>4 DEF InUpdate
  <2>3. Applied(r) = IF step[r] # NumIters THEN step[r] + 1 ELSE step[r]
    BY <1>1, <1>4 DEF Applied
  <2> QED
    BY <2>1, <2>2, <2>3, FutureParts DEF Updates
<1>5. CASE pc[r] \in {"eval", "count", "grads", "log"}
  <2>1. Point(r) = <<pc[r], step[r], vi[r]>>
    BY <1>5 DEF Point, SavePcs
  <2>2. Applied(r) = IF pc[r] = "log" THEN step[r] + 1 ELSE step[r]
    BY <1>1, <1>5 DEF Applied
  <2>3. CASE coll[r] # "ready"
    BY <1>5, <2>1, <2>2, <2>3, FutureParts DEF Updates, InUpdate
  <2>4. CASE coll[r] = "ready" /\ pc[r] = "eval"
    BY <1>1, <2>1, <2>2, <2>4, FutureParts, NewPoints, UpdatesAtPoints DEF InUpdate
  <2>5. CASE coll[r] = "ready" /\ pc[r] = "count"
    BY <2>1, <2>2, <2>5, FutureParts, NewPoints DEF Updates, InUpdate
  <2>6. CASE coll[r] = "ready" /\ pc[r] = "grads" /\ vi[r] < NV
    <3>1. Future(r).pt = <<"grads", step[r], vi[r] + 1>> /\ vi[r] # NV
      BY <1>1, <2>1, <2>6, FutureParts, NewPoints
    <3> QED
      BY <2>2, <2>6, <3>1 DEF Updates, InUpdate
  <2>7. CASE coll[r] = "ready" /\ pc[r] = "grads" /\ vi[r] = NV
    <3>1. Future(r).pt = AfterGrads(step[r])
      BY <1>1, <2>1, <2>7, FutureParts, NewPoints
    <3> QED
      BY <1>1, <2>2, <2>7, <3>1, UpdatesAtPoints DEF InUpdate
  <2>8. CASE coll[r] = "ready" /\ pc[r] = "log"
    <3>1. \/ Future(r).pt = <<"end", step[r], 1>>
          \/ Future(r).pt = Top(step[r] + 1)
      BY <2>1, <2>8, FutureParts, NewPoints
    <3>2. step[r] # NumIters /\ step[r] + 1 \in Nat
      BY <1>1, <2>8
    <3>3. Updates(<<"end", step[r], 1>>) = step[r] + 1
      BY <3>2 DEF Updates
    <3>4. Updates(Future(r).pt) = step[r] + 1
      BY <3>1, <3>2, <3>3, UpdatesAtPoints
    <3> QED
      BY <2>2, <2>8, <3>4 DEF InUpdate
  <2>9. vi[r] < NV \/ vi[r] = NV
    BY <1>1
  <2> QED
    BY <1>5, <2>3, <2>4, <2>5, <2>6, <2>7, <2>8, <2>9
<1> QED
  BY <1>1, <1>2, <1>3, <1>4, <1>5 DEF PastBroadcast, Pcs, CollPcs

LEMMA LockstepImpliesReplicas == ASSUME IInv PROVE ReplicasAgree
<1>1. SUFFICES ASSUME NEW r \in Ranks, NEW q \in Ranks,
                      PastBroadcast(r), PastBroadcast(q), Applied(r) = Applied(q)
               PROVE  w[r] = w[q] /\ \A v \in Vars : w[r][v].src = 0
  BY DEF ReplicasAgree
<1>2. Future(r) = Future(q)
  BY DEF IInv, Lockstep, SameFuture
<1>3. Applied(r) \in Nat /\ Applied(q) \in Nat
  BY Counters DEF Applied, IInv
<1>4. InUpdate(r) <=> InUpdate(q)
  BY <1>1, <1>2, <1>3, FutureUpdates DEF IInv
<1>5. w[r] = w[q]
  <2>1. CASE InUpdate(r)
    BY <1>4, <2>1 DEF IInv, Lockstep, SameBase
  <2>2. CASE ~InUpdate(r)
    BY <1>1, <1>2, <1>4, <2>2, FutureParts DEF IInv
  <2> QED
    BY <2>1, <2>2
<1> QED
  BY <1>1, <1>5 DEF IInv, Lockstep, FromRankZero

LEMMA LockstepImpliesVerdict == ASSUME IInv PROVE AbortIsUnanimous
<1>1. SUFFICES ASSUME NEW r \in Ranks, NEW q \in Ranks, status[r] = "aborted"
               PROVE  /\ step[q] = step[r]
                      /\ \/ status[q] = "aborted"
                         \/ pc[q] = "log" /\ coll[q] = "ready"
  BY DEF AbortIsUnanimous
<1>2. pc[r] = "end" /\ coll[r] = "out" /\ step[r] < NumIters
  BY <1>1, Types DEF IInv, Inv0, ControlOK, ControlAt, CollPcs
<1>3. Future(q).pt = <<"end", step[r], vi[r]>>
  <2>1. Point(r) = <<"end", step[r], vi[r]>>
    BY <1>2 DEF Point, SavePcs
  <2>2. Future(r).pt = Point(r)
    BY <1>2, FutureParts DEF IInv
  <2> QED
    BY <2>1, <2>2 DEF IInv, Lockstep, SameFuture
<1>4. /\ step[r] # NumIters
      /\ \A s : AfterEval(s)[1] = "end" => AfterEval(s)[2] = NumIters
      /\ \A s : Top(s)[1] = "end" => Top(s)[2] = NumIters
      /\ \A s : AfterGrads(s)[1] = "end" => AfterGrads(s)[2] = NumIters
  BY <1>2, Counters DEF IInv, AfterEval, Top, AfterGrads
<1>5. CASE coll[q] # "ready"
  <2>1. Point(q) = <<"end", step[r], vi[r]>>
    BY <1>3, <1>5, FutureParts DEF IInv
  <2>2. pc[q] = "end" /\ step[q] = step[r]
    BY <1>4, <2>1 DEF Point
  <2>3. status[q] \in {"ok", "aborted"} /\ (status[q] = "ok" => step[q] = NumIters)
    BY <2>2 DEF IInv, Inv0, ControlOK, ControlAt
  <2> QED
    BY <1>4, <2>2, <2>3
<1>6. CASE coll[q] = "ready"
  <2>1. pc[q] \in CollPcs /\ Point(q) = <<pc[q], step[q], vi[q]>>
    <3>1. pc[q] \in CollPcs
      BY <1>6 DEF IInv, Inv0, ControlOK, ControlAt
    <3> QED
      BY <3>1 DEF Point, CollPcs, SavePcs
  <2>2. NewPoint(Point(q)) = <<"end", step[r], vi[r]>>
    BY <1>3, <1>6, FutureParts DEF IInv
  <2>3. pc[q] = "log"
    BY <1>4, <2>1, <2>2 DEF NewPoint, CollPcs
  <2>4. step[q] = step[r]
    <3>1. \/ NewPoint(Point(q)) = <<"end", step[q], 1>>
          \/ NewPoint(Point(q)) = Top(step[q] + 1)
      BY <2>1, <2>3, NewPoints
    <3> QED
      BY <1>4, <2>2, <3>1
  <2> QED
    BY <1>6, <2>3, <2>4
<1> QED
  BY <1>5, <1>6

(* Collectives are matched by call order alone, and yet ranks never meet   *)
(* in different ones.                                                      *)
THEOREM CollectivesAlwaysMatch == Spec => []CollectivesMatch
<1>1. IInv => CollectivesMatch
  BY LockstepImpliesMatch
<1> QED
  BY <1>1, LockstepInvariant, PTL DEF IInv

(* Replicas at the same number of updates are equal and stem from rank 0.  *)
THEOREM ReplicasAlwaysAgree == Spec => []ReplicasAgree
<1>1. IInv => ReplicasAgree
  BY LockstepImpliesReplicas
<1> QED
  BY <1>1, LockstepInvariant, PTL DEF IInv

(* min_val_bpb never splits the ranks.                                     *)
THEOREM MinBpbAlwaysInLockstep == Spec => []MinBpbInLockstep
<1>1. IInv => MinBpbInLockstep
  BY LockstepImpliesMin
<1> QED
  BY <1>1, LockstepInvariant, PTL DEF IInv

(* check_finite never splits the ranks.                                    *)
THEOREM AbortAlwaysUnanimous == Spec => []AbortIsUnanimous
<1>1. IInv => AbortIsUnanimous
  BY LockstepImpliesVerdict
<1> QED
  BY <1>1, LockstepInvariant, PTL DEF IInv
-----------------------------------------------------------------------------
(* Where a NaN comes from.  This needs the lockstep: the rank whose pass   *)
(* overflowed, or whose weights were not finite, is not the rank whose     *)
(* replica the average poisons.                                            *)

PastMicro(q, s) ==
  step[q] > s \/ (step[q] = s /\ pc[q] \in {"count", "grads", "opt", "log", "end"})

(* Step s is over the micro-batches everywhere and had no scored target.   *)
Unscored(s) == s \notin scored /\ \A q \in Ranks : PastMicro(q, s)
Excused(s)  == s \in births \/ Unscored(s)
BadCause(r) == Excused(step[r]) \/ StaleNan(r)

Caused(r) ==
  /\ pc[r] \in {"count", "grads", "opt"} =>
       \A v \in Vars : g[r][v] = "nan" => BadCause(r)
  /\ pc[r] = "count" /\ coll[r] = "ready" /\ NothingScored => Unscored(step[r])
  /\ pc[r] = "grads" /\ coll[r] = "ready" /\ AnyNan => BadCause(r)
  /\ \A v \in Vars : w[r][v].nanAt # 0 =>
       /\ w[r][v].nanAt <= IF pc[r] \in {"log", "end"} THEN step[r] + 1 ELSE step[r]
       /\ \/ Excused(w[r][v].nanAt - 1)
          \/ \E u \in Vars : w[r][u].nanAt \in 1 .. w[r][v].nanAt - 1

(* A step with a scored target has a rank that holds a count above zero,   *)
(* or has gone by.                                                         *)
ScoredWitness ==
  \A s \in scored : \E p \in Ranks : PastMicro(p, s) /\ (step[p] = s => cnt[p] > 0)

CauseInv == IInv /\ OwnInv /\ ScoredWitness /\ \A r \in Ranks : Caused(r)

LEMMA CauseInit == ASSUME ConstantsAssumption, Init PROVE CauseInv
<1>1. IInv
  <2>1. InitRanks /\ status \in [Ranks -> {"unborn", "running"}]
    BY DEF Init
  <2> QED
    BY <2>1, LockstepInit
<1>2. ScoredWitness /\ \A r \in Ranks : Caused(r)
  BY DEF Init, InitRanks, ScoredWitness, Caused
<1> QED
  BY <1>1, <1>2, OwnInit DEF CauseInv

(* What a step does to the history and to the counts. *)
LEMMA HistoryEffect ==
  ASSUME Inv0, NEW r \in Ranks, Stepping(r)
  PROVE  /\ births \subseteq births'
         /\ \A q \in Ranks \ {r} : cnt'[q] = cnt[q] /\ step'[q] = step[q] /\ pc'[q] = pc[q]
         /\ \/ scored' = scored /\ cnt'[r] = cnt[r]
            \/ /\ pc[r] = "micro" /\ step'[r] = step[r]
               /\ pc'[r] \in {"count", "grads"}
               /\ \/ scored' = scored
                  \/ scored' = scored \cup {step[r]} /\ cnt'[r] > 0
<1>1. CASE Entering(r)
  BY <1>1 DEF Entering, Enter, hostVars, dataVars, ghostVars
<1>2. CASE WorldJoined(r)
  BY <1>2, WorldJoinedEffect DEF WorldJoined, Leave, dataVars, ghostVars, Elsewhere
<1>3. CASE VarBroadcast(r)
  BY <1>3, VarBroadcastEffect DEF VarBroadcast, Leave, ghostVars, Elsewhere
<1>4. CASE Evaluated(r)
  BY <1>4, EvaluatedEffect DEF Evaluated, Leave, dataVars, ghostVars, Elsewhere
<1>5. CASE r = 0 /\ Master
  BY <1>5, MasterEffect
  DEF Master, CreateModel, WriteModel, CreateMeta, WriteMeta, SaveStep, dataVars, ghostVars,
      Elsewhere
<1>6. CASE SampleOrBreak(r)
  BY <1>6, SampleOrBreakEffect DEF SampleOrBreak, dataVars, ghostVars, Elsewhere
<1>7. CASE MicroBatches(r)
  <2>1. PICK overflow \in BOOLEAN, bad \in SUBSET Vars, missing \in SUBSET ZeroInit,
             c \in IF MayIgnore THEN {0, 1} ELSE {1} : Pass(r, overflow, bad, missing, c)
    BY <1>7 DEF MicroBatches
  <2>2. /\ births \subseteq births'
        /\ cnt' = [cnt EXCEPT ![r] = c]
        /\ scored' = IF c > 0 THEN scored \cup {step[r]} ELSE scored
    BY <2>1 DEF Pass
  <2>3. cnt'[r] = c /\ \A q \in Ranks \ {r} : cnt'[q] = cnt[q]
    BY <2>2 DEF Inv0, TypeOK
  <2>4. scored' = scored \/ (scored' = scored \cup {step[r]} /\ cnt'[r] > 0)
    BY <2>2, <2>3
  <2>5. pc[r] = "micro" /\ step' = step /\ pc'[r] \in {"count", "grads"} /\ Elsewhere(r)
    BY <1>7, MicroBatchesEffect DEF AfterMicro
  <2> QED
    BY <2>2, <2>3, <2>4, <2>5 DEF Elsewhere
<1>8. CASE CountReduced(r)
  BY <1>8, CountReducedEffect DEF CountReduced, Leave, ghostVars, Elsewhere
<1>9. CASE GradReduced(r)
  BY <1>9, GradReducedEffect DEF GradReduced, Leave, ghostVars, Elsewhere
<1>10. CASE OptStep(r)
  BY <1>10, OptStepEffect DEF OptStep, ghostVars, Elsewhere
<1>11. CASE LossReduced(r)
  BY <1>11, LossReducedEffect DEF LossReduced, Leave, dataVars, ghostVars, Elsewhere
<1>12. CASE Die(r, "died")
  BY <1>12, DieEffect DEF Die, dataVars, ghostVars, Elsewhere
<1> QED
  BY <1>1, <1>2, <1>3, <1>4, <1>5, <1>6, <1>7, <1>8, <1>9, <1>10, <1>11, <1>12
  DEF Stepping

(* Nobody goes back behind the micro-batches of a step. *)
LEMMA StepGrows ==
  ASSUME Inv0, NEW r \in Ranks, Stepping(r), NEW q \in Ranks
  PROVE  \/ step'[q] = step[q] + 1
         \/ /\ step'[q] = step[q]
            /\ pc[q] \in {"count", "grads", "opt", "log", "end"} =>
                 pc'[q] \in {"count", "grads", "opt", "log", "end"}
<1>1. CASE q # r
  BY <1>1, HistoryEffect
<1>2. CASE q = r /\ Entering(r)
  BY <1>2 DEF Entering, Enter, hostVars
<1>3. CASE /\ q = r
           /\ WorldJoined(r) \/ VarBroadcast(r) \/ Evaluated(r) \/ (r = 0 /\ Master)
  BY <1>3, WorldJoinedEffect, VarBroadcastEffect, EvaluatedEffect, MasterEffect
  DEF SavePcs
<1>4. CASE /\ q = r
           /\ \/ SampleOrBreak(r) \/ MicroBatches(r) \/ CountReduced(r)
              \/ GradReduced(r)
  BY <1>4, SampleOrBreakEffect, MicroBatchesEffect, CountReducedEffect,
     GradReducedEffect DEF AfterMicro
<1>5. CASE q = r /\ (OptStep(r) \/ LossReduced(r) \/ Die(r, "died"))
  BY <1>5, OptStepEffect, LossReducedEffect, DieEffect
<1> QED
  BY <1>1, <1>2, <1>3, <1>4, <1>5 DEF Stepping

LEMMA PastMicroStable ==
  ASSUME Inv0, NEW r \in Ranks, Stepping(r), NEW q \in Ranks, NEW s \in Int, PastMicro(q, s)
  PROVE  PastMicro(q, s)'
<1>1. step[q] \in Nat
  BY Counters
<1> QED
  BY <1>1, StepGrows DEF PastMicro

LEMMA ExcusedStable ==
  ASSUME Inv0, NEW r \in Ranks, Stepping(r), NEW s \in Int
  PROVE  /\ Unscored(s) => Unscored(s)'
         /\ Excused(s) => Excused(s)'
<1>1. ASSUME Unscored(s) PROVE Unscored(s)'
  <2>1. \A q \in Ranks : PastMicro(q, s)'
    BY <1>1, PastMicroStable DEF Unscored
  <2>2. pc[r] = "micro" => step[r] # s
    BY <1>1, Counters DEF Unscored, PastMicro
  <2>3. s \notin scored'
    BY <1>1, <2>2, HistoryEffect DEF Unscored
  <2> QED
    BY <2>1, <2>3 DEF Unscored
<1> QED
  BY <1>1, HistoryEffect DEF Excused

LEMMA WitnessStable ==
  ASSUME Inv0, ScoredWitness, NEW r \in Ranks, Stepping(r)
  PROVE  ScoredWitness'
<1>1. SUFFICES ASSUME NEW s \in scored'
               PROVE  \E p \in Ranks : PastMicro(p, s)' /\ (step'[p] = s => cnt'[p] > 0)
  BY DEF ScoredWitness
<1>2. /\ scored \subseteq Int /\ step[r] \in Nat /\ \A p \in Ranks : step[p] \in Nat
      /\ \A p \in Ranks : cnt[p] \in Nat
  BY Counters DEF Inv0, TypeOK, ConstantsAssumption
<1>3. CASE s \in scored
  <2>1. PICK p \in Ranks : PastMicro(p, s) /\ (step[p] = s => cnt[p] > 0)
    BY <1>3 DEF ScoredWitness
  <2>2. PastMicro(p, s)'
    BY <1>2, <1>3, <2>1, PastMicroStable
  <2>3. ASSUME step'[p] = s PROVE cnt'[p] > 0
    <3>1. step[p] = s
      BY <1>2, <1>3, <2>1, <2>3, StepGrows DEF PastMicro
    <3>2. ~(p = r /\ pc[r] = "micro")
      BY <1>2, <1>3, <2>1, <3>1 DEF PastMicro
    <3> QED
      BY <2>1, <3>1, <3>2, HistoryEffect
  <2> QED
    BY <2>2, <2>3
<1>4. CASE s \notin scored
  <2>1. /\ s = step[r] /\ cnt'[r] > 0 /\ step'[r] = step[r]
        /\ pc'[r] \in {"count", "grads"}
    BY <1>1, <1>4, HistoryEffect
  <2> QED
    BY <2>1 DEF PastMicro
<1> QED
  BY <1>3, <1>4

(* What rank q knows is still so as long as nothing of its own changes.    *)
LEMMA CausedStable ==
  ASSUME CauseInv, NEW r \in Ranks, Stepping(r), NEW q \in Ranks,
         pc'[q] = pc[q], step'[q] = step[q], w'[q] = w[q], g'[q] = g[q],
         coll'[q] = "ready" => coll[q] = "ready" /\ latched' = latched
  PROVE  Caused(q)'
<1>1. Inv0 /\ Caused(q) /\ step[q] \in Int
  BY Counters DEF CauseInv, IInv
<1>2. \A v \in Vars : w[q][v].nanAt \in Nat
  BY <1>1, Types DEF Weight, Inv0, ConstantsAssumption
<1>3. \A s \in Int : (Excused(s) => Excused(s)') /\ (Unscored(s) => Unscored(s)')
  BY <1>1, ExcusedStable
<1>4. BadCause(q) => BadCause(q)'
  BY <1>1, <1>3 DEF BadCause, StaleNan
<1>5. coll'[q] = "ready" => NothingScored' = NothingScored /\ AnyNan' = AnyNan
  BY DEF NothingScored, AnyNan
<1>6. \A v \in Vars : w[q][v].nanAt # 0 =>
        /\ w[q][v].nanAt <= IF pc[q] \in {"log", "end"} THEN step[q] + 1 ELSE step[q]
        /\ \/ Excused(w[q][v].nanAt - 1)'
           \/ \E u \in Vars : w[q][u].nanAt \in 1 .. w[q][v].nanAt - 1
  BY <1>1, <1>2, <1>3 DEF Caused
<1> QED
  BY <1>1, <1>3, <1>4, <1>5, <1>6 DEF Caused

LEMMA CausedEnter ==
  ASSUME CauseInv, NEW r \in Ranks, NEW point \in CollPcs, NEW c \in Contribs,
         Enter(r, point, c), Stepping(r), OwnInv', NEW q \in Ranks
  PROVE  Caused(q)'
<1>1. /\ Inv0 /\ status[r] = "running" /\ pc[r] = point /\ coll[r] = "out"
      /\ UNCHANGED <<pc, step, vi, w, g, cnt, scored, births>>
      /\ \/ latched' = latched /\ coll' = [coll EXCEPT ![r] = "in"]
         \/ /\ latched' = contrib'
            /\ \A p \in Ranks : coll'[p] = "ready"
            /\ \A p \in Ranks \ {r} : coll[p] = "in"
            /\ \A p, t \in Ranks : Cur(p) = Cur(t)
  BY EnterCases DEF CauseInv, IInv, Lockstep, Enter, dataVars, ghostVars
<1>2. CASE latched' = latched /\ coll' = [coll EXCEPT ![r] = "in"]
  <2>1. coll'[q] = "ready" => coll[q] = "ready"
    BY <1>1, <1>2, Types
  <2> QED
    BY <1>1, <1>2, <2>1, CausedStable
<1>3. CASE /\ latched' = contrib'
           /\ \A p \in Ranks : coll'[p] = "ready"
           /\ \A p \in Ranks \ {r} : coll[p] = "in"
           /\ \A p, t \in Ranks : Cur(p) = Cur(t)
  <2>1. \A p \in Ranks : pc[p] = pc[q] /\ step[p] = step[q]
    <3>1. \A p \in Ranks : pc[p] \in CollPcs
      BY <1>1, <1>3 DEF Inv0, ControlOK, ControlAt
    <3>2. \A p \in Ranks : Point(p) = <<pc[p], step[p], vi[p]>>
      BY <3>1 DEF Point, CollPcs, SavePcs
    <3>3. \A p \in Ranks : Point(p) = Point(q)
      BY <1>3 DEF Cur
    <3> QED
      BY <3>2, <3>3
  <2>2. \A p \in Ranks : Honest(p, pc[p], latched[p])'
    BY <1>3 DEF OwnInv, Announced
  <2>3. ASSUME pc[q] = "count", NothingScored' PROVE Unscored(step[q])'
    <3>1. \A p \in Ranks : cnt[p] = 0 /\ step[p] = step[q] /\ pc[p] = "count"
      BY <1>1, <2>1, <2>2, <2>3 DEF Honest, NothingScored
    <3>2. step[q] \notin scored
      <4>1. step[q] \in Nat
        BY <1>1, Counters
      <4> QED
        BY <3>1, <4>1 DEF CauseInv, ScoredWitness, PastMicro
    <3> QED
      BY <1>1, <3>1, <3>2 DEF Unscored, PastMicro
  <2>4. ASSUME pc[q] = "grads", AnyNan' PROVE BadCause(q)'
    <3>1. PICK p \in Ranks : latched'[p].nan
      BY <2>4 DEF AnyNan
    <3>2. pc[p] = "grads" /\ step[p] = step[q] /\ vi[p] \in Vars
      BY <1>1, <2>1, <2>4, Types DEF Vars
    <3>3. g[p][vi[p]] = "nan"
      BY <1>1, <2>2, <3>1, <3>2 DEF Honest
    <3>4. BadCause(p)
      BY <3>2, <3>3 DEF CauseInv, Caused
    <3>5. \A v \in Vars : w[p][v] = w[q][v]
      <4>1. Weights(p) = [v \in Vars |-> w[p][v]] /\ Weights(q) = [v \in Vars |-> w[q][v]]
        BY <2>4, <3>2 DEF Weights
      <4>2. Weights(p) = Weights(q)
        BY <1>3 DEF Cur
      <4>3. \A v \in Vars : Weights(p)[v] = w[p][v] /\ Weights(q)[v] = w[q][v]
        BY <4>1
      <4> QED
        BY <4>2, <4>3
    <3>6. BadCause(q)
      BY <3>2, <3>4, <3>5 DEF BadCause, StaleNan
    <3> QED
      BY <1>1, <3>6 DEF BadCause, StaleNan, Excused, Unscored, PastMicro
  <2>5. /\ BadCause(q)' <=> BadCause(q)
        /\ \A s : Excused(s)' <=> Excused(s)
    BY <1>1 DEF BadCause, StaleNan, Excused, Unscored, PastMicro
  <2>6. Caused(q)
    BY DEF CauseInv
  <2> QED
    BY <1>1, <2>3, <2>4, <2>5, <2>6 DEF Caused
<1> QED
  BY <1>1, <1>2, <1>3

LEMMA CausedWorking ==
  ASSUME CauseInv, NEW r \in Ranks, Working(r)
  PROVE  Caused(r)'
<1>1. /\ Inv0 /\ Stepping(r) /\ Caused(r) /\ step[r] \in Nat /\ vi[r] \in Vars
      /\ w \in [Ranks -> [Vars -> Weight]] /\ g \in [Ranks -> [Vars -> Grads]]
      /\ NumIters \in Nat
  BY Counters, Types DEF CauseInv, IInv, Working, Stepping, Vars
<1>2. \A v \in Vars : w[r][v].nanAt \in Nat
  BY <1>1 DEF Weight
<1>3. \A s \in Int : (Excused(s) => Excused(s)') /\ (Unscored(s) => Unscored(s)')
  BY <1>1, ExcusedStable
<1> DEFINE Aged(q) == \A v \in Vars : w[q][v].nanAt # 0 =>
             \/ Excused(w[q][v].nanAt - 1)
             \/ \E u \in Vars : w[q][u].nanAt \in 1 .. w[q][v].nanAt - 1
<1>4. Aged(r) /\ \A v \in Vars : w[r][v].nanAt # 0 =>
                    w[r][v].nanAt <= IF pc[r] \in {"log", "end"} THEN step[r] + 1 ELSE step[r]
  BY <1>1 DEF Caused, Aged
<1>5. ASSUME \A v \in Vars : w'[r][v].nanAt = w[r][v].nanAt PROVE Aged(r)'
  BY <1>2, <1>3, <1>4, <1>5 DEF Aged
<1>6. ASSUME step'[r] = step[r], \A v \in Vars : w'[r][v].nanAt = w[r][v].nanAt, BadCause(r)
      PROVE  BadCause(r)'
  BY <1>1, <1>3, <1>6 DEF BadCause, StaleNan
<1> HIDE DEF Aged
<1>7. CASE WorldJoined(r) \/ Evaluated(r) \/ (r = 0 /\ Master) \/ SampleOrBreak(r)
  <2>1. /\ pc'[r] \notin {"count", "grads", "opt"} /\ pc[r] \notin {"log", "end"}
        /\ w'[r] = w[r] /\ step'[r] = step[r]
    BY <1>1, <1>7, WorldJoinedEffect, EvaluatedEffect, MasterEffect, SampleOrBreakEffect
    DEF SavePcs
  <2>2. Aged(r)'
    BY <1>5, <2>1
  <2> QED
    BY <1>1, <1>2, <1>4, <2>1, <2>2 DEF Caused, Aged
<1>8. CASE VarBroadcast(r)
  <2>1. /\ pc'[r] \notin {"count", "grads", "opt"} /\ pc[r] = "bcast"
        /\ w'[r] = Received(r) /\ step'[r] = step[r]
    BY <1>1, <1>8, VarBroadcastEffect, PcTypes
  <2>2. \A v \in Vars : w'[r][v].nanAt = w[r][v].nanAt
    BY <2>1 DEF Received
  <2>3. Aged(r)'
    BY <1>5, <2>2
  <2> QED
    BY <1>1, <1>2, <1>4, <2>1, <2>2, <2>3 DEF Caused, Aged
<1>9. CASE MicroBatches(r)
  <2>1. /\ pc[r] = "micro" /\ pc'[r] \in {"count", "grads"} /\ UNCHANGED <<w, step, coll>>
        /\ coll[r] = "out"
    BY <1>1, <1>9, MicroBatchesEffect DEF AfterMicro
  <2>2. \A v \in Vars : g'[r][v] = "nan" => step[r] \in births' \/ WeightsNan(r)
    <3>1. PICK overflow \in BOOLEAN, bad \in SUBSET Vars, missing \in SUBSET ZeroInit,
               c \in IF MayIgnore THEN {0, 1} ELSE {1} : Pass(r, overflow, bad, missing, c)
      BY <1>9 DEF MicroBatches
    <3>2. g'[r] = Accumulated(overflow \/ WeightsNan(r), bad, missing)
      BY <1>1, <3>1 DEF Pass
    <3>3. overflow \/ bad # {} => step[r] \in births'
      BY <3>1 DEF Pass
    <3> QED
      BY <3>2, <3>3 DEF Accumulated
  <2>3. WeightsNan(r) => StaleNan(r)'
    BY <1>1, <1>2, <1>4, <2>1 DEF WeightsNan, StaleNan
  <2>4. \A v \in Vars : g'[r][v] = "nan" => BadCause(r)'
    BY <2>1, <2>2, <2>3 DEF BadCause, Excused
  <2>5. Aged(r)'
    BY <1>5, <2>1
  <2> QED
    BY <1>4, <2>1, <2>4, <2>5 DEF Caused, Aged
<1>10. CASE CountReduced(r)
  <2>1. /\ pc[r] = "count" /\ coll[r] = "ready" /\ pc'[r] = "grads" /\ coll'[r] = "out"
        /\ UNCHANGED <<w, step>>
    BY <1>1, <1>10, CountReducedEffect
  <2>2. g'[r] = Rescaled(r)
    BY <1>1, <1>10 DEF CountReduced
  <2>3. \A v \in Vars : g'[r][v] = "nan" => g[r][v] = "nan" \/ NothingScored
    BY <2>2 DEF Rescaled, ZeroCount
  <2>4. \A v \in Vars : g'[r][v] = "nan" => BadCause(r)
    BY <1>1, <2>1, <2>3 DEF Caused, BadCause, Excused
  <2>5. Aged(r)'
    BY <1>5, <2>1
  <2> QED
    BY <1>4, <1>6, <2>1, <2>4, <2>5 DEF Caused, Aged
<1>11. CASE GradReduced(r)
  <2>1. /\ pc[r] = "grads" /\ coll[r] = "ready" /\ pc'[r] \in {"grads", "opt"}
        /\ coll'[r] = "out" /\ UNCHANGED <<w, step>> /\ g'[r] = Reduced(r)
    BY <1>1, <1>11, GradReducedEffect
  <2>2. \A v \in Vars : g'[r][v] = "nan" => g[r][v] = "nan" \/ AnyNan
    BY <2>1 DEF Reduced, ReducedGrad
  <2>3. \A v \in Vars : g'[r][v] = "nan" => BadCause(r)
    BY <1>1, <2>1, <2>2 DEF Caused
  <2>4. Aged(r)'
    BY <1>5, <2>1
  <2> QED
    BY <1>4, <1>6, <2>1, <2>3, <2>4 DEF Caused, Aged
<1>12. CASE OptStep(r)
  <2>1. /\ pc[r] = "opt" /\ coll[r] = "out" /\ coll' = coll /\ w'[r] = Updated(r)
        /\ \/ pc'[r] = "log" /\ step'[r] = step[r]
           \/ pc'[r] \in {"eval", "sample"} /\ step'[r] = step[r] + 1
    BY <1>1, <1>12, OptStepEffect, PcTypes
  <2>2. \A v \in Vars :
          \/ w'[r][v].nanAt = w[r][v].nanAt
          \/ /\ w[r][v].nanAt = 0 /\ g[r][v] = "nan"
             /\ w'[r][v].nanAt = step[r] + 1
    BY <2>1 DEF Updated
  <2>3. \A v \in Vars : w[r][v].nanAt # 0 => w'[r][v].nanAt = w[r][v].nanAt
    BY <2>2
  <2>4. Aged(r)'
    <3>1. SUFFICES ASSUME NEW v \in Vars, w'[r][v].nanAt # 0
                   PROVE \/ Excused(w[r][v].nanAt - 1)'
                         \/ \E u \in Vars : w'[r][u].nanAt \in 1 .. w'[r][v].nanAt - 1
      BY DEF Aged
    <3>2. CASE w'[r][v].nanAt = w[r][v].nanAt
      <4>1. \/ Excused(w[r][v].nanAt - 1)
            \/ \E u \in Vars : w[r][u].nanAt \in 1 .. w[r][v].nanAt - 1
        BY <1>4, <3>1, <3>2 DEF Aged
      <4>2. CASE Excused(w[r][v].nanAt - 1)
        BY <1>2, <1>3, <3>2, <4>2 DEF Excused, Unscored, PastMicro
      <4>3. ASSUME NEW u \in Vars, w[r][u].nanAt \in 1 .. w[r][v].nanAt - 1
            PROVE  w'[r][u].nanAt \in 1 .. w'[r][v].nanAt - 1
        BY <1>2, <2>3, <3>2, <4>3
      <4> QED
        BY <4>1, <4>2, <4>3
    <3>3. CASE g[r][v] = "nan" /\ w'[r][v].nanAt = step[r] + 1
      <4>1. BadCause(r)
        BY <1>1, <2>1, <3>3 DEF Caused
      <4>2. w'[r][v].nanAt - 1 = step[r]
        BY <1>1, <3>3
      <4>3. CASE Excused(step[r])
        BY <1>1, <1>3, <4>2, <4>3 DEF Excused, Unscored, PastMicro
      <4>4. CASE StaleNan(r)
        <5>1. PICK u \in Vars : w[r][u].nanAt \in 1 .. step[r]
          BY <4>4 DEF StaleNan
        <5>2. w[r][u].nanAt # 0
          BY <1>1, <5>1
        <5> QED
          BY <2>3, <4>2, <5>1, <5>2
      <4> QED
        BY <4>1, <4>3, <4>4 DEF BadCause
    <3> QED
      BY <2>2, <3>2, <3>3
  <2>5. \A v \in Vars : w'[r][v].nanAt # 0 =>
           w'[r][v].nanAt <= IF pc'[r] \in {"log", "end"} THEN step'[r] + 1 ELSE step'[r]
    <3>1. \A v \in Vars : w'[r][v].nanAt # 0 => w'[r][v].nanAt <= step[r] + 1
      BY <1>1, <1>2, <1>4, <2>1, <2>2
    <3> QED
      BY <2>1, <3>1
  <2> QED
    BY <2>1, <2>4, <2>5 DEF Caused, Aged
<1>13. CASE LossReduced(r)
  <2>1. /\ pc[r] = "log" /\ UNCHANGED w
        /\ \/ pc'[r] = "end" /\ step'[r] = step[r]
           \/ pc'[r] \in {"eval", "sample"} /\ step'[r] = step[r] + 1
    BY <1>1, <1>13, LossReducedEffect, PcTypes
  <2>2. Aged(r)'
    BY <1>5, <2>1
  <2>3. \A v \in Vars : w[r][v].nanAt # 0 => w[r][v].nanAt <= step[r] + 1
    BY <1>4, <2>1
  <2> QED
    BY <2>1, <2>2, <2>3 DEF Caused, Aged
<1>14. CASE Die(r, "died")
  <2>1. UNCHANGED <<pc, step, w, g, coll, latched>>
    BY <1>1, <1>14, DieEffect
  <2> QED
    BY <1>1, <2>1, CausedStable
<1> QED
  BY <1>7, <1>8, <1>9, <1>10, <1>11, <1>12, <1>13, <1>14 DEF Working

LEMMA CauseStep == ASSUME CauseInv, [Next]_vars PROVE CauseInv'
<1>1. Inv0 /\ IInv' /\ OwnInv'
  BY LockstepStep, OwnStep DEF CauseInv, IInv
<1>2. CASE Next
  <2>1. PICK r \in Ranks : Stepping(r)
    BY <1>1, <1>2, NextCases
  <2>2. ScoredWitness'
    BY <1>1, <2>1, WitnessStable DEF CauseInv
  <2>3. CASE Entering(r)
    BY <1>1, <2>1, <2>2, <2>3, CausedEnter DEF Entering, CauseInv
  <2>4. CASE Working(r)
    <3>1. Elsewhere(r) /\ UNCHANGED latched
      BY <1>1, <2>4, WorkingEffect
    <3>2. \A q \in Ranks \ {r} : Caused(q)'
      BY <2>1, <3>1, CausedStable DEF Elsewhere
    <3>3. Caused(r)'
      BY <2>4, CausedWorking
    <3> QED
      BY <1>1, <2>2, <3>2, <3>3 DEF CauseInv
  <2> QED
    BY <2>1, <2>3, <2>4 DEF Stepping, Working
<1>3. CASE UNCHANGED vars
  BY <1>1, <1>3
  DEF CauseInv, ScoredWitness, Caused, BadCause, StaleNan, Excused, Unscored, PastMicro,
      NothingScored, AnyNan, vars, hostVars, dataVars, collVars, ghostVars
<1> QED
  BY <1>2, <1>3

(* A replica is poisoned only by a step in which some rank overflowed or   *)
(* no rank had a target, however the average carried it there.             *)
THEOREM NanAlwaysHasCause == Spec => []NanHasCause
<1>1. Init => CauseInv
  BY CauseInit, ConstantsAssumption
<1>2. CauseInv /\ [Next]_vars => CauseInv'
  BY CauseStep
<1>3. CauseInv => NanHasCause
  BY DEF CauseInv, Caused, NanHasCause, Excused, Unscored
<1> QED
  BY <1>1, <1>2, <1>3, PTL DEF Spec
-----------------------------------------------------------------------------
(* W ranks are one training run.  Besides the lockstep this needs the      *)
(* converse of NanHasCause: a loss that is not finite, or a step without   *)
(* targets, has poisoned the replica by the time the run aborts for it.    *)

Poisoned(r) == WeightsNan(r) \/ \E v \in Vars : g[r][v] = "nan"

(* Something went wrong in the passes of this step. *)
Ill(r) == lossNan[r] \/ step[r] \notin scored

Symptom(r) ==
  /\ minBpb[r] <= Infinity
  /\ pc[r] = "eval" => CadenceFires(step[r], EvalEvery)
  /\ pc[r] = "log" => LogsAt(step[r])
  /\ pc[r] = "count" =>
       /\ lossNan[r] => Poisoned(r)
       /\ cnt[r] > 0 => step[r] \in scored
       /\ \E v \in Vars : g[r][v] # "absent"
       /\ coll[r] = "ready" => NothingScored \/ step[r] \in scored
  /\ pc[r] \in {"grads", "opt"} => (Ill(r) => Poisoned(r))
  /\ pc[r] = "log" => (Ill(r) => WeightsNan(r))
  /\ pc[r] = "log" /\ coll[r] = "ready" /\ NonFinite(r) => WeightsNan(r)

RunInv == CauseInv /\ \A r \in Ranks : Symptom(r)

LEMMA RunInit == ASSUME ConstantsAssumption, Init PROVE RunInv
<1>1. CauseInv
  BY CauseInit
<1>2. \A r \in Ranks : minBpb[r] = Infinity /\ pc[r] = "join"
  BY DEF Init, InitRanks
<1>3. Infinity \in Nat
  BY DEF Infinity, ConstantsAssumption
<1>4. \A r \in Ranks : Symptom(r)
  BY <1>2, <1>3 DEF Symptom
<1> QED
  BY <1>1, <1>4 DEF RunInv

(* A step that leaves rank q where it is and as it is. *)
LEMMA SymptomStable ==
  ASSUME NEW q \in Ranks, Symptom(q),
         pc'[q] = pc[q], step'[q] = step[q], w'[q] = w[q], g'[q] = g[q],
         minBpb'[q] = minBpb[q], lossNan'[q] = lossNan[q], cnt'[q] = cnt[q],
         scored \subseteq scored',
         coll'[q] = "ready" => coll[q] = "ready" /\ latched' = latched
  PROVE  Symptom(q)'
<1>1. WeightsNan(q)' = WeightsNan(q) /\ Poisoned(q)' = Poisoned(q)
  BY DEF WeightsNan, Poisoned
<1>2. coll'[q] = "ready" => NothingScored' = NothingScored /\ NonFinite(q)' = NonFinite(q)
  BY DEF NothingScored, NonFinite, AnyNan
<1>3. Ill(q)' => Ill(q)
  BY DEF Ill
<1>4. Infinity' = Infinity
  BY DEF Infinity
<1> QED
  BY <1>1, <1>2, <1>3, <1>4 DEF Symptom

(* At a release all ranks are at the same point of the same step. *)
LEMMA SamePlace ==
  ASSUME Inv0, NEW r \in Ranks, pc[r] \in CollPcs,
         \A p \in Ranks \ {r} : coll[p] = "in",
         \A p, t \in Ranks : Cur(p) = Cur(t)
  PROVE  \A p \in Ranks : pc[p] = pc[r] /\ step[p] = step[r]
<1>1. \A p \in Ranks : pc[p] \in CollPcs
  BY DEF Inv0, ControlOK, ControlAt
<1>2. \A p \in Ranks : Point(p) = <<pc[p], step[p], vi[p]>>
  BY <1>1 DEF Point, CollPcs, SavePcs
<1>3. \A p \in Ranks : Point(p) = Point(r)
  BY DEF Cur
<1> QED
  BY <1>2, <1>3

LEMMA SymptomEnter ==
  ASSUME RunInv, NEW r \in Ranks, NEW point \in CollPcs, NEW c \in Contribs,
         Enter(r, point, c), OwnInv', NEW q \in Ranks
  PROVE  Symptom(q)'
<1>1. /\ Inv0 /\ pc[r] = point /\ coll[r] = "out" /\ Symptom(q)
      /\ UNCHANGED <<pc, step, w, g, minBpb, lossNan, cnt, scored>>
      /\ \/ latched' = latched /\ coll' = [coll EXCEPT ![r] = "in"]
         \/ /\ latched' = contrib'
            /\ \A p \in Ranks : coll'[p] = "ready"
            /\ \A p \in Ranks \ {r} : coll[p] = "in"
            /\ \A p, t \in Ranks : Cur(p) = Cur(t)
  BY EnterCases DEF RunInv, CauseInv, IInv, Lockstep, Enter, dataVars, ghostVars
<1>2. CASE latched' = latched /\ coll' = [coll EXCEPT ![r] = "in"]
  <2>1. coll'[q] = "ready" => coll[q] = "ready"
    BY <1>1, <1>2, Types
  <2> QED
    BY <1>1, <1>2, <2>1, SymptomStable
<1>3. CASE /\ latched' = contrib'
           /\ \A p \in Ranks : coll'[p] = "ready"
           /\ \A p \in Ranks \ {r} : coll[p] = "in"
           /\ \A p, t \in Ranks : Cur(p) = Cur(t)
  <2>1. \A p \in Ranks : pc[p] = pc[q] /\ step[p] = step[q]
    BY <1>1, <1>3, SamePlace
  <2>2. \A p \in Ranks : Honest(p, pc[p], latched[p])'
    BY <1>3 DEF OwnInv, Announced
  <2>3. \A p \in Ranks : latched'[p].n \in Nat /\ cnt[p] \in Nat
    <3>1. latched' \in [Ranks -> Contribs] /\ cnt \in [Ranks -> Nat]
      BY <1>1 DEF OwnInv, Inv0, TypeOK
    <3> QED
      BY <3>1 DEF Contribs
  <2>4. ASSUME pc[q] = "count" PROVE NothingScored' \/ step[q] \in scored
    <3>1. SUFFICES ASSUME NEW p \in Ranks, latched'[p].n # 0 PROVE step[q] \in scored
      BY DEF NothingScored
    <3>2. pc[p] = "count" /\ step[p] = step[q]
      BY <2>1, <2>4
    <3>3. latched'[p].n = cnt[p]
      BY <1>1, <2>2, <3>2 DEF Honest
    <3>4. cnt[p] > 0
      BY <2>3, <3>1, <3>3
    <3> QED
      BY <3>2, <3>4 DEF RunInv, Symptom
  <2>5. ASSUME pc[q] = "log", AnyNan' PROVE WeightsNan(q)
    <3>1. PICK p \in Ranks : latched'[p].nan
      BY <2>5 DEF AnyNan
    <3>2. pc[p] = "log"
      BY <2>1, <2>5
    <3>3. lossNan[p]
      BY <1>1, <2>2, <3>1, <3>2 DEF Honest
    <3>4. WeightsNan(p)
      BY <3>2, <3>3 DEF RunInv, Symptom, Ill
    <3>5. Weights(p) = Weights(q)
      BY <1>3 DEF Cur
    <3>6. \A v \in Vars : Weights(p)[v] = w[p][v] /\ Weights(q)[v] = w[q][v]
      BY <2>5, <3>2 DEF Weights
    <3> QED
      BY <3>4, <3>5, <3>6 DEF WeightsNan
  <2>6. ASSUME pc[q] = "log", NothingScored' PROVE WeightsNan(q)
    <3>1. ASSUME NEW p \in Ranks PROVE cnt[p] = 0 /\ step[p] = step[q] /\ pc[p] = "log"
      <4>1. pc[p] = "log" /\ step[p] = step[q]
        BY <2>1, <2>6
      <4>2. latched'[p].n = cnt[p]
        BY <1>1, <2>2, <4>1 DEF Honest
      <4> QED
        BY <2>6, <4>1, <4>2 DEF NothingScored
    <3>2. step[q] \in Nat
      BY <1>1, Counters
    <3>3. step[q] \notin scored
      BY <3>1, <3>2 DEF RunInv, CauseInv, ScoredWitness, PastMicro
    <3> QED
      BY <1>1, <2>6, <3>3 DEF Symptom, Ill
  <2>7. pc[q] = "log" /\ NonFinite(q)' => WeightsNan(q)
    BY <2>5, <2>6 DEF NonFinite
  <2>8. /\ WeightsNan(q)' = WeightsNan(q) /\ Poisoned(q)' = Poisoned(q)
        /\ Ill(q)' = Ill(q) /\ Infinity' = Infinity
    BY <1>1 DEF WeightsNan, Poisoned, Ill, Infinity
  <2> QED
    BY <1>1, <2>4, <2>7, <2>8 DEF Symptom
<1> QED
  BY <1>1, <1>2, <1>3

LEMMA SymptomWorking ==
  ASSUME RunInv, NEW r \in Ranks, Working(r)
  PROVE  Symptom(r)'
<1>1. /\ Inv0 /\ Symptom(r) /\ Announced(r) /\ step[r] \in Nat /\ vi[r] \in 1 .. NV
      /\ minBpb[r] \in Nat /\ Infinity \in Nat /\ Infinity' = Infinity
      /\ lossNan \in [Ranks -> BOOLEAN] /\ cnt \in [Ranks -> Nat]
      /\ g \in [Ranks -> [Vars -> Grads]]
  <2>1. Inv0 /\ OwnInv /\ Symptom(r)
    BY DEF RunInv, CauseInv, IInv
  <2>2. Announced(r)
    BY <2>1 DEF OwnInv
  <2>3. step[r] \in Nat /\ vi[r] \in 1 .. NV /\ minBpb[r] \in Nat
    BY <2>1, Counters, Types
  <2>4. Infinity \in Nat /\ Infinity' = Infinity
    BY <2>1 DEF Infinity, Inv0, ConstantsAssumption
  <2>5. /\ lossNan \in [Ranks -> BOOLEAN] /\ cnt \in [Ranks -> Nat]
        /\ g \in [Ranks -> [Vars -> Grads]]
    BY <2>1 DEF Inv0, TypeOK
  <2> QED
    BY <2>1, <2>2, <2>3, <2>4, <2>5
<1>2. \A s : TopPc(s) = "eval" => CadenceFires(s, EvalEvery)
  BY DEF TopPc
<1>3. CASE WorldJoined(r) \/ (r = 0 /\ Master) \/ SampleOrBreak(r)
  <2>1. /\ pc'[r] \notin {"eval", "count", "grads", "opt", "log"}
        /\ minBpb'[r] = minBpb[r]
    BY <1>1, <1>3, WorldJoinedEffect, MasterEffect, SampleOrBreakEffect DEF SavePcs
  <2> QED
    BY <1>1, <2>1 DEF Symptom
<1>4. CASE VarBroadcast(r)
  <2>1. /\ pc'[r] = "bcast" \/ (pc'[r] = TopPc(0) /\ step'[r] = 0)
        /\ minBpb'[r] = minBpb[r]
    BY <1>1, <1>4, VarBroadcastEffect DEF Inv0, ControlOK, ControlAt
  <2>2. pc'[r] \in {"bcast", "eval", "sample"}
    BY <2>1, PcTypes
  <2>3. pc'[r] = "eval" => CadenceFires(step[r], EvalEvery)'
    BY <1>2, <2>1 DEF CadenceFires
  <2> QED
    BY <1>1, <2>1, <2>2, <2>3 DEF Symptom
<1>5. CASE Evaluated(r)
  <2>1. /\ pc'[r] \in SavePcs \cup {"sample"}
        /\ minBpb'[r] = IF Improves(r) THEN ReducedBpb(r) ELSE minBpb[r]
    BY <1>1, <1>5, EvaluatedEffect
  <2>2. ReducedBpb(r) \in Nat
    BY <1>1, SummedNatsType DEF ReducedBpb, Inv0
  <2>3. minBpb'[r] <= Infinity
    BY <1>1, <2>1, <2>2 DEF Improves, Symptom
  <2> QED
    BY <1>1, <2>1, <2>3 DEF Symptom, SavePcs
<1>6. CASE MicroBatches(r)
  <2>1. /\ coll'[r] = "out" /\ pc'[r] = AfterMicro(r)
        /\ UNCHANGED <<step, w, minBpb>> /\ Inv0'
    BY <1>1, <1>6, MicroBatchesEffect
  <2>2. PICK overflow \in BOOLEAN, bad \in SUBSET Vars, missing \in SUBSET ZeroInit,
             c \in IF MayIgnore THEN {0, 1} ELSE {1} : Pass(r, overflow, bad, missing, c)
    BY <1>6 DEF MicroBatches
  <2>3. /\ lossNan'[r] = (overflow \/ WeightsNan(r)) /\ cnt'[r] = c
        /\ g'[r] = Accumulated(overflow \/ WeightsNan(r), bad, missing)
        /\ scored' = IF c > 0 THEN scored \cup {step[r]} ELSE scored
    BY <1>1, <2>2 DEF Pass
  <2>4. PICK v \in Vars : v \notin missing
    BY <1>1 DEF Inv0, ConstantsAssumption
  <2>5. /\ g'[r][v] # "absent"
        /\ lossNan'[r] => g'[r][v] = "nan"
    BY <2>3, <2>4 DEF Accumulated
  <2>6. lossNan'[r] => Poisoned(r)'
    BY <2>5 DEF Poisoned
  <2>7. c > 0 => step[r] \in scored'
    BY <2>3
  <2>8. CASE MayIgnore
    BY <1>1, <2>1, <2>3, <2>5, <2>6, <2>7, <2>8 DEF AfterMicro, Symptom
  <2>9. CASE ~MayIgnore
    <3>1. step[r] \in scored' /\ pc'[r] = "grads"
      BY <2>1, <2>7, <2>9 DEF AfterMicro
    <3> QED
      BY <1>1, <2>1, <2>6, <3>1 DEF Symptom, Ill
  <2> QED
    BY <2>8, <2>9
<1>7. CASE CountReduced(r)
  <2>1. /\ pc[r] = "count" /\ coll[r] = "ready" /\ pc'[r] = "grads" /\ coll'[r] = "out"
        /\ UNCHANGED <<step, w, minBpb, lossNan, scored>> /\ g'[r] = Rescaled(r)
    BY <1>1, <1>7, CountReducedEffect DEF CountReduced, Leave, ghostVars
  <2>2. WeightsNan(r)' = WeightsNan(r)
    BY <2>1 DEF WeightsNan
  <2>3. CASE lossNan[r]
    <3>1. Poisoned(r)
      BY <1>1, <2>1, <2>3 DEF Symptom
    <3>2. \A v \in Vars : g[r][v] = "nan" => g'[r][v] = "nan"
      BY <2>1 DEF Rescaled
    <3> QED
      BY <1>1, <2>1, <2>2, <3>1, <3>2 DEF Symptom, Poisoned
  <2>4. CASE step[r] \notin scored
    <3>1. NothingScored
      BY <1>1, <2>1, <2>4 DEF Symptom
    <3>2. PICK v \in Vars : g[r][v] # "absent"
      BY <1>1, <2>1 DEF Symptom
    <3>3. g'[r][v] = "nan"
      BY <2>1, <3>1, <3>2 DEF Rescaled, ZeroCount
    <3> QED
      BY <1>1, <2>1, <3>3 DEF Symptom, Poisoned
  <2>5. CASE ~Ill(r)
    BY <1>1, <2>1, <2>5 DEF Symptom, Ill
  <2> QED
    BY <2>3, <2>4, <2>5 DEF Ill
<1>8. CASE GradReduced(r)
  <2>1. /\ pc[r] = "grads" /\ coll[r] = "ready" /\ pc'[r] \in {"grads", "opt"}
        /\ UNCHANGED <<step, w, minBpb, lossNan, scored>> /\ g'[r] = Reduced(r)
    BY <1>1, <1>8, GradReducedEffect DEF GradReduced, Leave, ghostVars
  <2>2. ASSUME NEW v \in Vars, g[r][v] = "nan" PROVE g'[r][v] = "nan"
    <3>1. VarAt(r, vi[r]) = vi[r]
      BY <1>1, CanonicalOrder DEF Inv0, TypeOK
    <3>2. CASE v = vi[r]
      <4>1. latched[r].nan
        BY <1>1, <2>1, <2>2, <3>2 DEF Announced, Honest
      <4>2. ReducedGrad(r) = "nan"
        BY <4>1 DEF ReducedGrad, AnyNan
      <4> QED
        BY <2>1, <3>1, <3>2, <4>2 DEF Reduced
    <3>3. CASE v # vi[r]
      BY <2>1, <2>2, <3>1, <3>3 DEF Reduced
    <3> QED
      BY <3>2, <3>3
  <2>3. Poisoned(r) => Poisoned(r)'
    BY <2>1, <2>2 DEF Poisoned, WeightsNan
  <2>4. Ill(r)' = Ill(r)
    BY <2>1 DEF Ill
  <2> QED
    BY <1>1, <2>1, <2>3, <2>4 DEF Symptom
<1>9. CASE OptStep(r)
  <2>1. /\ pc[r] = "opt" /\ coll'[r] = "out" /\ w'[r] = Updated(r)
        /\ UNCHANGED <<minBpb, lossNan, scored>>
        /\ \/ LogsAt(step[r]) /\ pc'[r] = "log" /\ step'[r] = step[r]
           \/ pc'[r] = TopPc(step[r] + 1) /\ step'[r] = step[r] + 1
    BY <1>1, <1>9, OptStepEffect DEF OptStep, ghostVars
  <2>2. CASE LogsAt(step[r]) /\ pc'[r] = "log" /\ step'[r] = step[r]
    <3>1. ASSUME NEW v \in Vars, w[r][v].nanAt # 0 \/ g[r][v] = "nan"
          PROVE  w'[r][v].nanAt # 0
      BY <1>1, <2>1, <3>1 DEF Updated
    <3>2. Poisoned(r) => WeightsNan(r)'
      BY <3>1 DEF Poisoned, WeightsNan
    <3>3. Ill(r)' = Ill(r) /\ LogsAt(step[r])'
      BY <2>1, <2>2 DEF Ill, LogsAt
    <3> QED
      BY <1>1, <2>1, <2>2, <3>2, <3>3 DEF Symptom
  <2>3. CASE pc'[r] = TopPc(step[r] + 1) /\ step'[r] = step[r] + 1
    <3>1. pc'[r] \in {"eval", "sample"}
      BY <2>3, PcTypes
    <3>2. pc'[r] = "eval" => CadenceFires(step[r], EvalEvery)'
      BY <1>2, <2>3 DEF CadenceFires
    <3> QED
      BY <1>1, <2>1, <3>1, <3>2 DEF Symptom
  <2> QED
    BY <2>1, <2>2, <2>3
<1>10. CASE LossReduced(r)
  <2>1. /\ UNCHANGED minBpb
        /\ \/ pc'[r] = "end"
           \/ pc'[r] = TopPc(step[r] + 1) /\ step'[r] = step[r] + 1
    BY <1>1, <1>10, LossReducedEffect
  <2>2. pc'[r] \in {"end", "eval", "sample"}
    BY <2>1, PcTypes
  <2>3. pc'[r] = "eval" => CadenceFires(step[r], EvalEvery)'
    BY <1>2, <2>1 DEF CadenceFires
  <2> QED
    BY <1>1, <2>1, <2>2, <2>3 DEF Symptom
<1>11. CASE Die(r, "died")
  <2>1. UNCHANGED <<pc, step, w, g, minBpb, lossNan, cnt, scored, coll, latched>>
    BY <1>11 DEF Die, dataVars, collVars, ghostVars
  <2> QED
    BY <1>1, <2>1, SymptomStable
<1> QED
  BY <1>3, <1>4, <1>5, <1>6, <1>7, <1>8, <1>9, <1>10, <1>11 DEF Working

LEMMA RunStep == ASSUME RunInv, [Next]_vars PROVE RunInv'
<1>1. Inv0 /\ CauseInv' /\ OwnInv'
  BY CauseStep DEF RunInv, CauseInv, IInv
<1>2. CASE Next
  <2>1. PICK r \in Ranks : Stepping(r)
    BY <1>1, <1>2, NextCases
  <2>2. CASE Entering(r)
    BY <1>1, <2>2, SymptomEnter DEF Entering, RunInv
  <2>3. CASE Working(r)
    <3>1. /\ Elsewhere(r) /\ UNCHANGED latched
          /\ \A q \in Ranks \ {r} : lossNan'[q] = lossNan[q] /\ cnt'[q] = cnt[q]
      BY <1>1, <2>3, WorkingEffect
    <3>2. scored \subseteq scored'
      BY <1>1, <2>1, HistoryEffect
    <3>3. \A q \in Ranks \ {r} : Symptom(q)'
      BY <3>1, <3>2, SymptomStable DEF Elsewhere, RunInv
    <3>4. Symptom(r)'
      BY <2>3, SymptomWorking
    <3> QED
      BY <1>1, <3>3, <3>4 DEF RunInv
  <2> QED
    BY <2>1, <2>2, <2>3 DEF Stepping, Working
<1>3. CASE UNCHANGED vars
  <2>1. UNCHANGED <<pc, step, w, g, minBpb, lossNan, cnt, scored, coll, latched>>
    BY <1>3 DEF vars, hostVars, dataVars, collVars, ghostVars
  <2>2. \A q \in Ranks : Symptom(q)'
    BY <2>1, SymptomStable DEF RunInv
  <2> QED
    BY <1>1, <2>2 DEF RunInv
<1> QED
  BY <1>2, <1>3
-----------------------------------------------------------------------------
(* The mapping of DdpRefinement.  A rank leads if none has applied more    *)
(* updates; Ahead is one that leads, and any other would do as well.       *)

Leads(r) == \A q \in Ranks : Applied(q) <= Applied(r)

AgesIn(x) == {x[v].nanAt : v \in Vars} \ {0}
AgeOf(x)  == IF AgesIn(x) = {} THEN 0 ELSE Min(AgesIn(x))

Done    == Applied(Ahead)
NanAge  == AgeOf(w[Ahead])
Low     == Min({minBpb[r] : r \in Ranks})
Verdict == IF \E r \in Ranks : status[r] = "aborted" THEN "aborted"
           ELSE IF \E r \in Ranks : status[r] = "ok" THEN "ok" ELSE "running"

Mapped ==
  /\ \E r \in Ranks : Leads(r)
  /\ \A r \in Ranks : Leads(r) => Done = Applied(r) /\ NanAge = AgeOf(w[r])
  /\ \A r \in Ranks : Low <= minBpb[r]
  /\ \E r \in Ranks : Low = minBpb[r]

(* The initial segments of the numbers are finite sets ordered as the      *)
(* numbers are, so a set of numbers has a least one.                       *)
LEMMA LeastNatural ==
  ASSUME NEW S, S \subseteq Nat, S # {}
  PROVE  \E m \in S : \A n \in S : m <= n
<1> DEFINE T == {0 .. n : n \in S}
<1>1. T \subseteq FiniteSubsetsOf(Nat) /\ T # {}
  <2>1. \A n \in S : 0 .. n \subseteq Nat /\ IsFiniteSet(0 .. n)
    BY FS_Interval
  <2> QED
    BY <2>1 DEF FiniteSubsetsOf
<1>2. IsWellFoundedOn(StrictSubsetOrdering(Nat), FiniteSubsetsOf(Nat))
  BY FS_StrictSubsetOrderingWellFounded
<1>3. PICK s \in T : \A t \in T : ~(<<t, s>> \in StrictSubsetOrdering(Nat))
  <2> HIDE DEF T
  <2> QED
    BY <1>1, <1>2, WFMin
<1>4. PICK m \in S : s = 0 .. m
  OBVIOUS
<1>5. ASSUME NEW n \in S, ~(m <= n) PROVE FALSE
  <2>1. n \in Nat /\ m \in Nat /\ n < m
    BY <1>5
  <2>2. 0 .. n \subseteq 0 .. m /\ m \in 0 .. m /\ m \notin 0 .. n
    BY <2>1
  <2>3. 0 .. n \in T /\ 0 .. n # 0 .. m /\ 0 .. n \subseteq Nat /\ 0 .. m \subseteq Nat
    BY <2>1, <2>2
  <2>4. <<0 .. n, 0 .. m>> \in StrictSubsetOrdering(Nat)
    BY <2>2, <2>3 DEF StrictSubsetOrdering
  <2> QED
    BY <1>3, <1>4, <2>3, <2>4
<1> QED
  BY <1>5

LEMMA MinIsLeast ==
  ASSUME NEW S, S \subseteq Nat, S # {}
  PROVE  Min(S) \in S /\ \A n \in S : Min(S) <= n
BY LeastNatural DEF Min

(* The age of a replica: zero, or the least age of a parameter. *)
LEMMA AgeFacts ==
  ASSUME NEW x \in [Vars -> Weight]
  PROVE  /\ AgeOf(x) = 0 <=> \A v \in Vars : x[v].nanAt = 0
         /\ AgeOf(x) # 0 => \E v \in Vars : x[v].nanAt = AgeOf(x)
         /\ \A v \in Vars : x[v].nanAt # 0 => AgeOf(x) <= x[v].nanAt
<1>1. \A v \in Vars : x[v].nanAt \in Nat
  BY DEF Weight
<1>2. AgesIn(x) \subseteq Nat
  BY <1>1 DEF AgesIn
<1>3. CASE AgesIn(x) = {}
  BY <1>3 DEF AgeOf, AgesIn
<1>4. CASE AgesIn(x) # {}
  <2>1. Min(AgesIn(x)) \in AgesIn(x) /\ \A n \in AgesIn(x) : Min(AgesIn(x)) <= n
    BY <1>2, <1>4, MinIsLeast
  <2>2. AgeOf(x) \in AgesIn(x) /\ \A n \in AgesIn(x) : AgeOf(x) <= n
    BY <1>4, <2>1 DEF AgeOf
  <2> QED
    BY <2>2 DEF AgesIn
<1> QED
  BY <1>3, <1>4

LEMMA AppliedRange ==
  ASSUME Inv0, NEW r \in Ranks
  PROVE  Applied(r) \in Nat /\ Applied(r) <= NumIters
<1>1. status[r] = "aborted" \/ pc[r] = "log" => step[r] < NumIters
  BY DEF Inv0, ControlOK, ControlAt
<1> QED
  BY <1>1, Counters DEF Applied

(* A replica is not poisoned by an update that it has not applied. *)
LEMMA AgeBounded ==
  ASSUME RunInv, NEW r \in Ranks
  PROVE  /\ \A v \in Vars : w[r][v].nanAt \in Nat /\ w[r][v].nanAt <= Applied(r)
         /\ w[r] \in [Vars -> Weight]
<1>1. Inv0 /\ Caused(r)
  BY DEF RunInv, CauseInv, IInv
<1>2. w[r] \in [Vars -> Weight] /\ NumIters \in Nat
  BY <1>1, Types
<1>3. \A v \in Vars : w[r][v].nanAt \in 0 .. NumIters
  BY <1>2 DEF Weight
<1>4. Applied(r) = step[r] + 1 \/ (Applied(r) = step[r] /\ pc[r] # "log")
  BY DEF Applied
<1>5. pc[r] = "end" => Applied(r) = step[r] + 1 \/ Applied(r) = NumIters
  BY <1>1 DEF Applied, Inv0, ControlOK, ControlAt
<1>6. step[r] \in Nat
  BY <1>1, Counters
<1> QED
  BY <1>1, <1>2, <1>3, <1>4, <1>5, <1>6 DEF Caused

LEMMA SameAge ==
  ASSUME RunInv, NEW r \in Ranks, NEW q \in Ranks, Applied(r) = Applied(q)
  PROVE  AgeOf(w[r]) = AgeOf(w[q])
<1>1. Inv0 /\ ReplicasAgree
  BY LockstepImpliesReplicas DEF RunInv, CauseInv, IInv
<1>2. CASE PastBroadcast(r) /\ PastBroadcast(q)
  <2>1. w[r] = w[q]
    BY <1>1, <1>2 DEF ReplicasAgree
  <2> QED
    BY <2>1
<1>3. CASE ~(PastBroadcast(r) /\ PastBroadcast(q))
  <2>1. ASSUME NEW p \in Ranks, ~PastBroadcast(p) PROVE Applied(p) = 0
    BY <1>1, <2>1 DEF PastBroadcast, Applied, Inv0, ControlOK, ControlAt
  <2>2. Applied(r) = 0 /\ Applied(q) = 0
    BY <1>3, <2>1
  <2>3. \A p \in {r, q} : \A v \in Vars : w[p][v].nanAt = 0
    BY <2>2, AgeBounded
  <2>4. AgeOf(w[r]) = 0 /\ AgeOf(w[q]) = 0
    BY <2>3, AgeBounded, AgeFacts
  <2> QED
    BY <2>4
<1> QED
  BY <1>2, <1>3

LEMMA MappedFacts == ASSUME RunInv PROVE Mapped
<1>1. Inv0 /\ 0 \in Ranks /\ NumIters \in Nat /\ minBpb \in [Ranks -> Nat]
  BY Types DEF RunInv, CauseInv, IInv
<1>2. \A r \in Ranks : Applied(r) \in Nat /\ Applied(r) <= NumIters
  BY <1>1, AppliedRange
<1>3. \E r \in Ranks : Leads(r)
  <2> DEFINE Lag == {NumIters - Applied(r) : r \in Ranks}
  <2>1. Lag \subseteq Nat /\ Lag # {}
    BY <1>1, <1>2
  <2>2. PICK m \in Lag : \A n \in Lag : m <= n
    <3> HIDE DEF Lag
    <3> QED
      BY <2>1, LeastNatural
  <2>3. PICK r \in Ranks : m = NumIters - Applied(r)
    OBVIOUS
  <2>4. ASSUME NEW q \in Ranks PROVE Applied(q) <= Applied(r)
    <3>1. NumIters - Applied(r) <= NumIters - Applied(q)
      BY <2>2, <2>3
    <3> QED
      BY <1>1, <1>2, <3>1
  <2> QED
    BY <2>4 DEF Leads
<1>4. Ahead \in Ranks /\ Leads(Ahead)
  BY <1>3 DEF Ahead, Leads
<1>5. ASSUME NEW r \in Ranks, Leads(r)
      PROVE  Done = Applied(r) /\ NanAge = AgeOf(w[r])
  <2>1. Applied(Ahead) = Applied(r)
    BY <1>2, <1>4, <1>5 DEF Leads
  <2>2. AgeOf(w[Ahead]) = AgeOf(w[r])
    BY <1>4, <2>1, SameAge
  <2> QED
    BY <2>1, <2>2 DEF Done, NanAge
<1>6. (\A r \in Ranks : Low <= minBpb[r]) /\ \E r \in Ranks : Low = minBpb[r]
  <2> DEFINE Bpbs == {minBpb[r] : r \in Ranks}
  <2>1. Bpbs \subseteq Nat /\ Bpbs # {}
    BY <1>1
  <2>2. Min(Bpbs) \in Bpbs /\ \A n \in Bpbs : Min(Bpbs) <= n
    <3> HIDE DEF Bpbs
    <3> QED
      BY <2>1, MinIsLeast
  <2> QED
    BY <2>2 DEF Low
<1> QED
  BY <1>3, <1>5, <1>6 DEF Mapped
-----------------------------------------------------------------------------
(* The steps of the ranks, seen through the mapping. *)

(* No rank gets further, and no replica changes its age. *)
LEMMA SameModel ==
  ASSUME Mapped, Mapped',
         \A q \in Ranks : Applied(q)' = Applied(q) /\ AgeOf(w'[q]) = AgeOf(w[q])
  PROVE  Done' = Done /\ NanAge' = NanAge
<1>1. PICK b \in Ranks : Leads(b)
  BY DEF Mapped
<1>2. Leads(b)'
  BY <1>1 DEF Leads
<1>3. Done = Applied(b) /\ NanAge = AgeOf(w[b])
  BY <1>1 DEF Mapped
<1>4. Done' = Applied(b)' /\ NanAge' = AgeOf(w[b])'
  BY <1>2 DEF Mapped
<1>5. AgeOf(w[b])' = AgeOf(w'[b])
  BY DEF AgeOf, AgesIn
<1> QED
  BY <1>3, <1>4, <1>5

LEMMA SameVerdict ==
  ASSUME \A q \in Ranks : /\ status'[q] = "aborted" <=> status[q] = "aborted"
                          /\ status'[q] = "ok" <=> status[q] = "ok"
  PROVE  Verdict' = Verdict
BY DEF Verdict

Stutter == UNCHANGED <<Done, NanAge, Low, Verdict>>

(* Most steps of a rank are nobody else's business. *)
LEMMA QuietStep ==
  ASSUME Mapped, Mapped', NEW r \in Ranks, Elsewhere(r), UNCHANGED minBpb,
         Applied(r)' = Applied(r), AgeOf(w'[r]) = AgeOf(w[r]),
         status'[r] = "aborted" <=> status[r] = "aborted",
         status'[r] = "ok" <=> status[r] = "ok"
  PROVE  Stutter
<1>1. \A q \in Ranks \ {r} : Applied(q)' = Applied(q) /\ w'[q] = w[q]
  BY DEF Elsewhere, Applied
<1>2. Done' = Done /\ NanAge' = NanAge
  BY <1>1, SameModel
<1>3. Verdict' = Verdict
  BY SameVerdict DEF Elsewhere
<1>4. Low' = Low
  BY DEF Low
<1> QED
  BY <1>2, <1>3, <1>4 DEF Stutter

Quiet(r) ==
  \/ Entering(r) \/ WorldJoined(r) \/ VarBroadcast(r) \/ (r = 0 /\ Master)
  \/ MicroBatches(r) \/ CountReduced(r) \/ GradReduced(r) \/ Die(r, "died")
  \/ (Evaluated(r) /\ ~Improves(r)) \/ (SampleOrBreak(r) /\ ~Last(r))
  \/ (LossReduced(r) /\ ~NonFinite(r))

LEMMA QuietIsStutter ==
  ASSUME Inv0, Mapped, Mapped', NEW r \in Ranks, Quiet(r)
  PROVE  Stutter
<1>1. /\ step[r] \in Nat /\ w[r] \in [Vars -> Weight]
      /\ pc[r] \in {"log", "end"} <=> (pc[r] = "log" \/ status[r] \in {"ok", "aborted"})
  BY Counters, Types DEF Inv0, ControlOK, ControlAt
<1>2. CASE Entering(r)
  <2>1. UNCHANGED <<minBpb, pc, step, status, w>>
    BY <1>2 DEF Entering, Enter, hostVars, dataVars
  <2>2. \A q \in Ranks : Applied(q)' = Applied(q) /\ AgeOf(w'[q]) = AgeOf(w[q])
    BY <2>1 DEF Applied
  <2>3. Low' = Low /\ Verdict' = Verdict
    BY <2>1 DEF Low, Verdict
  <2> QED
    BY <2>2, <2>3, SameModel DEF Stutter
<1>3. CASE WorldJoined(r)
  <2>1. /\ Elsewhere(r) /\ UNCHANGED <<minBpb, step, status, w>>
        /\ pc[r] = "join" /\ pc'[r] = "bcast"
    BY <1>3, WorldJoinedEffect
  <2> QED
    BY <2>1, QuietStep DEF Applied
<1>4. CASE VarBroadcast(r)
  <2>1. /\ Elsewhere(r) /\ UNCHANGED <<minBpb, step, status>>
        /\ pc[r] = "bcast" /\ pc'[r] # "log" /\ w'[r] = Received(r)
    BY <1>4, VarBroadcastEffect, PcTypes
  <2>2. \A v \in Vars : Received(r)[v].nanAt = w[r][v].nanAt
    BY DEF Received
  <2>3. AgesIn(Received(r)) = AgesIn(w[r])
    BY <2>2 DEF AgesIn
  <2>4. AgeOf(w'[r]) = AgeOf(w[r])
    BY <2>1, <2>3 DEF AgeOf
  <2> QED
    BY <2>1, <2>4, QuietStep DEF Applied
<1>5. CASE r = 0 /\ Master
  <2>1. /\ Elsewhere(r) /\ UNCHANGED <<minBpb, step, status, w>>
        /\ pc[r] # "log" /\ pc'[r] # "log"
    BY <1>5, MasterEffect DEF SavePcs
  <2> QED
    BY <2>1, QuietStep DEF Applied
<1>6. CASE MicroBatches(r)
  <2>1. /\ Elsewhere(r) /\ UNCHANGED <<minBpb, step, status, w>>
        /\ pc[r] # "log" /\ pc'[r] # "log"
    BY <1>6, MicroBatchesEffect DEF AfterMicro
  <2> QED
    BY <2>1, QuietStep DEF Applied
<1>7. CASE CountReduced(r)
  <2>1. /\ Elsewhere(r) /\ UNCHANGED <<minBpb, step, status, w>>
        /\ pc[r] # "log" /\ pc'[r] # "log"
    BY <1>7, CountReducedEffect
  <2> QED
    BY <2>1, QuietStep DEF Applied
<1>8. CASE GradReduced(r)
  <2>1. /\ Elsewhere(r) /\ UNCHANGED <<minBpb, step, status, w>>
        /\ pc[r] # "log" /\ pc'[r] # "log"
    BY <1>8, GradReducedEffect
  <2> QED
    BY <2>1, QuietStep DEF Applied
<1>9. CASE Die(r, "died")
  <2>1. /\ Elsewhere(r) /\ UNCHANGED <<minBpb, step, pc, w>>
        /\ status[r] = "running" /\ status'[r] = "died"
    BY <1>9, DieEffect
  <2> QED
    BY <2>1, QuietStep DEF Applied
<1>10. CASE Evaluated(r) /\ ~Improves(r)
  <2>1. /\ Elsewhere(r) /\ UNCHANGED <<step, status, w>>
        /\ pc[r] # "log" /\ pc'[r] # "log"
    BY <1>10, EvaluatedEffect DEF SavePcs
  <2>2. UNCHANGED minBpb
    BY <1>10 DEF Evaluated
  <2> QED
    BY <2>1, <2>2, QuietStep DEF Applied
<1>11. CASE SampleOrBreak(r) /\ ~Last(r)
  <2>1. /\ Elsewhere(r) /\ UNCHANGED <<minBpb, step, w, status>>
        /\ pc[r] # "log" /\ pc'[r] # "log"
    BY <1>11, SampleOrBreakEffect DEF Last
  <2> QED
    BY <2>1, QuietStep DEF Applied
<1>12. CASE LossReduced(r) /\ ~NonFinite(r)
  <2>1. /\ Elsewhere(r) /\ UNCHANGED <<minBpb, w>>
        /\ pc[r] = "log" /\ pc'[r] = TopPc(step[r] + 1)
        /\ step'[r] = step[r] + 1 /\ status[r] = "running" /\ status'[r] = "running"
    BY <1>12, LossReducedEffect
  <2>2. pc'[r] # "log"
    BY <2>1, PcTypes
  <2> QED
    BY <2>1, <2>2, QuietStep DEF Applied
<1> QED
  BY <1>2, <1>3, <1>4, <1>5, <1>6, <1>7, <1>8, <1>9, <1>10, <1>11, <1>12 DEF Quiet

(* A rank that leads and goes on is not past the log of a poisoned step,   *)
(* and the verdict is open.                                                *)
LEMMA GoingOn ==
  ASSUME RunInv, Mapped, NEW r \in Ranks, Leads(r), status[r] = "running",
         pc[r] \notin {"log", "end"}
  PROVE  /\ Verdict # "aborted"
         /\ step[r] # NumIters => Verdict = "running"
         /\ Done = step[r] /\ NanAge = AgeOf(w[r])
         /\ ~(Done > 0 /\ (Done - 1) % LogEvery = 0 /\ NanAge # 0 /\ NanAge < Done)
<1>1. Inv0 /\ AbortIsUnanimous /\ NanSeen(r)
  BY LockstepImpliesVerdict DEF RunInv, CauseInv, IInv, OwnInv
<1>2. \A q \in Ranks : status[q] # "aborted"
  BY <1>1 DEF AbortIsUnanimous
<1>3. Done = step[r] /\ NanAge = AgeOf(w[r]) /\ Applied(r) = step[r]
  BY DEF Mapped, Applied
<1>4. ASSUME NEW q \in Ranks, status[q] = "ok" PROVE step[r] = NumIters
  <2>1. step[q] = NumIters /\ pc[q] = "end"
    BY <1>1, <1>4 DEF Inv0, ControlOK, ControlAt
  <2>2. Applied(q) = NumIters
    BY <1>4, <2>1 DEF Applied
  <2> QED
    BY <1>1, <1>3, <2>2, Counters DEF Leads
<1>5. ASSUME Done > 0, (Done - 1) % LogEvery = 0, NanAge # 0, NanAge < Done
      PROVE  FALSE
  <2>1. /\ step[r] \in Nat
        /\ \A v \in Vars : w[r][v].nanAt \in Nat
    BY <1>1, Counters, AgeBounded
  <2>2. PICK v \in Vars : w[r][v].nanAt = NanAge
    BY <1>3, <1>5, AgeBounded, AgeFacts
  <2>3. \A m \in w[r][v].nanAt .. step[r] - 1 : ~LogsAt(m)
    BY <1>1, <1>5, <2>2 DEF NanSeen
  <2>4. step[r] - 1 \in w[r][v].nanAt .. step[r] - 1
    BY <1>3, <1>5, <2>1, <2>2
  <2>5. LogsAt(step[r] - 1)
    BY <1>3, <1>5 DEF LogsAt
  <2> QED
    BY <2>3, <2>4, <2>5
<1>6. Verdict # "aborted" /\ (step[r] # NumIters => Verdict = "running")
  BY <1>2, <1>4 DEF Verdict
<1> QED
  BY <1>3, <1>5, <1>6

(* The update of the rank that gets there first is the update of the run.  *)
LEMMA OptStepMaps ==
  ASSUME RunInv, Mapped, Mapped', NEW r \in Ranks, OptStep(r)
  PROVE  Stutter \/ Sync!Update
<1>1. /\ Elsewhere(r) /\ UNCHANGED <<status, minBpb>>
      /\ pc[r] = "opt" /\ pc'[r] \in {"log", TopPc(step[r] + 1)}
      /\ step'[r] = IF pc'[r] = "log" THEN step[r] ELSE step[r] + 1
      /\ status[r] = "running" /\ w'[r] = Updated(r)
      /\ step[r] < NumIters /\ Inv0 /\ Inv0'
  <2>1. Inv0
    BY DEF RunInv, CauseInv, IInv
  <2>2. step[r] < NumIters
    <3>1. pc[r] = "opt"
      BY DEF OptStep, Local
    <3> QED
      BY <2>1, <3>1 DEF Inv0, ControlOK, ControlAt
  <2> QED
    BY <2>1, <2>2, OptStepEffect, PcTypes
<1>2. Applied(r) = step[r] /\ Applied(r)' = step[r] + 1 /\ step[r] \in Nat
  BY <1>1, Counters DEF Applied
<1>3. \A q \in Ranks \ {r} : Applied(q)' = Applied(q) /\ w'[q] = w[q]
  BY <1>1 DEF Elsewhere, Applied
<1>4. Low' = Low /\ Verdict' = Verdict
  BY <1>1 DEF Low, Verdict
<1>5. \A q \in Ranks : Applied(q) \in Nat
  BY <1>1, AppliedRange
<1>6. CASE Leads(r)
  <2>1. Leads(r)'
    BY <1>2, <1>3, <1>5, <1>6 DEF Leads
  <2>2. /\ Done' = Done + 1 /\ Done = step[r]
        /\ NanAge = AgeOf(w[r]) /\ NanAge' = AgeOf(Updated(r))
    <3>1. Done' = Applied(r)' /\ NanAge' = AgeOf(w[r])'
      BY <2>1 DEF Mapped
    <3>2. AgeOf(w[r])' = AgeOf(w'[r])
      BY DEF AgeOf, AgesIn
    <3> QED
      BY <1>1, <1>2, <1>6, <3>1, <3>2 DEF Mapped
  <2>3. NanAge' \in IF NanAge = 0 THEN {0, Done + 1} ELSE {NanAge}
    <3>1. /\ w[r] \in [Vars -> Weight] /\ w'[r] \in [Vars -> Weight]
          /\ \A v \in Vars : w[r][v].nanAt \in Nat /\ w[r][v].nanAt <= step[r]
      BY <1>1, <1>2, AgeBounded, Types DEF Inv0, TypeOK
    <3>2. \A v \in Vars :
            Updated(r)[v].nanAt = IF w[r][v].nanAt = 0 /\ g[r][v] = "nan"
                                  THEN step[r] + 1 ELSE w[r][v].nanAt
      BY DEF Updated
    <3>3. CASE NanAge = 0
      <4>1. \A v \in Vars : Updated(r)[v].nanAt \in {0, step[r] + 1}
        BY <2>2, <3>1, <3>2, <3>3, AgeFacts
      <4> QED
        BY <1>1, <2>2, <3>1, <3>3, <4>1, AgeFacts
    <3>4. CASE NanAge # 0
      <4>1. PICK v \in Vars : w[r][v].nanAt = NanAge
        BY <2>2, <3>1, <3>4, AgeFacts
      <4>2. Updated(r)[v].nanAt = NanAge
        BY <3>2, <3>4, <4>1
      <4>3. \A u \in Vars : Updated(r)[u].nanAt # 0 => NanAge <= Updated(r)[u].nanAt
        BY <1>2, <2>2, <3>1, <3>2, <3>4, <4>1, AgeFacts
      <4>4. AgeOf(Updated(r)) = NanAge
        <5>1. AgeOf(Updated(r)) # 0 /\ AgeOf(Updated(r)) <= NanAge
          BY <1>1, <3>1, <3>4, <4>2, AgeFacts
        <5>2. PICK u \in Vars : Updated(r)[u].nanAt = AgeOf(Updated(r))
          BY <1>1, <3>1, <5>1, AgeFacts
        <5>3. NanAge \in Nat /\ Updated(r)[u].nanAt \in Nat
          BY <1>2, <3>1, <3>2, <4>1
        <5> QED
          BY <4>3, <5>1, <5>2, <5>3
      <4> QED
        BY <2>2, <3>4, <4>4
    <3> QED
      BY <3>3, <3>4
  <2>4. Sync!Going /\ Done < NumIters
    <3>1. /\ Verdict = "running"
          /\ ~(Done > 0 /\ (Done - 1) % LogEvery = 0 /\ NanAge # 0 /\ NanAge < Done)
      BY <1>1, <1>2, <1>6, GoingOn, Counters
    <3> QED
      BY <1>1, <2>2, <3>1 DEF Sync!Going, Sync!Doomed, Sync!JustLogged, Done, NanAge,
         Verdict, NanAges, AgeOf, AgesIn
  <2> QED
    BY <1>4, <2>2, <2>3, <2>4 DEF Sync!Update, Done, NanAge, Low, Verdict, NanAges,
       AgeOf, AgesIn
<1>7. CASE ~Leads(r)
  <2>1. PICK b \in Ranks : Leads(b)
    BY DEF Mapped
  <2>2. b # r /\ Applied(r) < Applied(b)
    BY <1>5, <1>7, <2>1 DEF Leads
  <2>3. Leads(b)'
    BY <1>2, <1>3, <1>5, <2>1, <2>2 DEF Leads
  <2>4. Done' = Applied(b)' /\ NanAge' = AgeOf(w[b])'
    BY <2>3 DEF Mapped
  <2>5. AgeOf(w[b])' = AgeOf(w'[b])
    BY DEF AgeOf, AgesIn
  <2>6. Done = Applied(b) /\ NanAge = AgeOf(w[b])
    BY <2>1 DEF Mapped
  <2> QED
    BY <1>3, <1>4, <2>2, <2>4, <2>5, <2>6 DEF Stutter
<1> QED
  BY <1>6, <1>7

(* The first rank to leave an evaluation that improves on the best score   *)
(* is the one that measures it.                                            *)
LEMMA EvaluatedMaps ==
  ASSUME RunInv, Mapped, Mapped', Inv0', NEW r \in Ranks, Evaluated(r), Improves(r)
  PROVE  Stutter \/ Sync!Measure
<1> DEFINE new == ReducedBpb(r)
<1>1. /\ Elsewhere(r) /\ UNCHANGED <<status, step, w>>
      /\ pc[r] = "eval" /\ coll[r] = "ready" /\ status[r] = "running"
      /\ pc'[r] # "log" /\ minBpb'[r] = new /\ new < minBpb[r] /\ ~AnyNan
      /\ Inv0 /\ Lockstep /\ OwnInv /\ Symptom(r)
  <2>1. Inv0 /\ Lockstep /\ OwnInv /\ Symptom(r)
    BY DEF RunInv, CauseInv, IInv
  <2> QED
    BY <2>1, EvaluatedEffect DEF SavePcs, Improves
<1>2. /\ new \in Nat /\ step[r] \in Nat
      /\ \A q \in Ranks : minBpb[q] \in Nat
      /\ \A q \in Ranks \ {r} : minBpb'[q] = minBpb[q]
  BY <1>1, Counters, Types DEF Inv0, TypeOK, Elsewhere
<1>3. \A q \in Ranks : Applied(q)' = Applied(q) /\ AgeOf(w'[q]) = AgeOf(w[q])
  BY <1>1 DEF Elsewhere, Applied
<1>4. Done' = Done /\ NanAge' = NanAge /\ Verdict' = Verdict
  BY <1>1, <1>3, SameModel DEF Verdict
<1>5. ASSUME NEW q \in Ranks
      PROVE  \/ minBpb[q] = new
             \/ pc[q] = "eval" /\ coll[q] = "ready" /\ Cur(q) = Cur(r)
  <2>1. CASE pc[q] # "eval" \/ coll[q] # "ready"
    <3>1. Future(q) = Future(r)
      BY <1>1 DEF Lockstep, SameFuture
    <3>2. Future(r).min = new
      <4>1. Cur(r).pt = <<"eval", step[r], vi[r]>> /\ Cur(r).min = minBpb[r]
        BY <1>1 DEF Cur, Point, SavePcs
      <4>2. Future(r).min = NewLow(Cur(r).pt, Cur(r).min)
        BY <1>1 DEF Future, Advance
      <4> QED
        BY <1>1, <4>1, <4>2 DEF NewLow, SharedBpb, ReducedBpb
    <3>3. Future(q).min = minBpb[q]
      BY <1>1, <2>1, FutureParts
    <3> QED
      BY <3>1, <3>2, <3>3
  <2>2. CASE pc[q] = "eval" /\ coll[q] = "ready"
    BY <1>1, <2>2 DEF Lockstep, SameRelease
  <2> QED
    BY <2>1, <2>2
<1>6. \A q \in Ranks : minBpb[q] = new \/ minBpb[q] = minBpb[r]
  BY <1>5 DEF Cur
<1>7. Low' = new
  <2>1. \A q \in Ranks : minBpb'[q] \in Nat /\ new <= minBpb'[q]
    BY <1>1, <1>2, <1>6
  <2>2. /\ Low' <= minBpb'[r]
        /\ \E q \in Ranks : Low' = minBpb'[q]
    BY DEF Mapped
  <2> QED
    BY <1>1, <1>2, <2>1, <2>2
<1>8. CASE \E q \in Ranks : minBpb[q] = new
  <2>1. PICK q \in Ranks : minBpb[q] = new
    BY <1>8
  <2>2. Low <= new /\ \E p \in Ranks : Low = minBpb[p]
    BY <2>1 DEF Mapped
  <2>3. Low = new
    BY <1>1, <1>2, <1>6, <2>2
  <2> QED
    BY <1>4, <1>7, <2>3 DEF Stutter
<1>9. CASE ~\E q \in Ranks : minBpb[q] = new
  <2>1. \A q \in Ranks : pc[q] = "eval" /\ coll[q] = "ready" /\ Cur(q) = Cur(r)
    BY <1>5, <1>9
  <2>2. \A q \in Ranks : step[q] = step[r]
    <3>1. \A q \in Ranks : Cur(q).pt = <<"eval", step[q], vi[q]>>
      BY <2>1 DEF Cur, Point, SavePcs
    <3> QED
      BY <2>1, <3>1
  <2>3. \A q \in Ranks : status[q] # "aborted" /\ status[q] # "ok"
    BY <1>1, <2>1 DEF Inv0, ControlOK, ControlAt
  <2>4. \A q \in Ranks : Applied(q) = step[r]
    BY <2>1, <2>2, <2>3 DEF Applied
  <2>5. \A q \in Ranks : Leads(q)
    BY <1>2, <2>4 DEF Leads
  <2>6. 0 \in Ranks /\ w[0] \in [Vars -> Weight] /\ W \in Nat /\ MaxNats \in Nat
    BY <1>1, Types DEF Inv0, ConstantsAssumption
  <2>7. Done = step[r] /\ NanAge = AgeOf(w[0]) /\ Verdict = "running"
    BY <2>3, <2>4, <2>5, <2>6 DEF Mapped, Verdict
  <2>8. NanAge = 0
    <3>1. ValBatches \in Nat \ {0}
      <4>1. minBpb[r] <= Infinity /\ ValBatches \in Nat
        BY <1>1 DEF Symptom, Inv0, ConstantsAssumption
      <4>2. Infinity \in Nat
        BY <2>6 DEF Infinity
      <4> QED
        BY <1>1, <1>2, <4>1, <4>2 DEF ReducedBpb
    <3>2. HasBatch(0)
      BY <3>1 DEF HasBatch
    <3>3. latched[0].nan = WeightsNan(0)
      BY <1>1, <2>1, <2>6, <3>2 DEF OwnInv, Announced, Honest
    <3>4. ~WeightsNan(0)
      BY <1>1, <2>6, <3>3 DEF AnyNan
    <3> QED
      BY <2>6, <2>7, <3>4, AgeFacts DEF WeightsNan
  <2>9. Low = minBpb[r]
    BY <1>6, <1>9 DEF Mapped
  <2>10. Low' \in 0 .. Low - 1
    BY <1>1, <1>2, <1>7, <2>9
  <2>11. CadenceFires(Done, EvalEvery)
    BY <1>1, <2>7 DEF Symptom
  <2>12. Sync!EvalDue
    BY <2>11 DEF Sync!EvalDue, CadenceFires, Done
  <2>13. Sync!Going
    BY <2>7, <2>8 DEF Sync!Going, Sync!Doomed, Done, NanAge, Verdict, NanAges, AgeOf,
       AgesIn
  <2> QED
    BY <1>4, <2>8, <2>10, <2>12, <2>13 DEF Sync!Measure, Done, NanAge, Low, Verdict,
       NanAges, AgeOf, AgesIn
<1> QED
  BY <1>8, <1>9

LEMMA BreakMaps ==
  ASSUME RunInv, Mapped, Mapped', NEW r \in Ranks, SampleOrBreak(r), Last(r)
  PROVE  Stutter \/ Sync!Finish
<1>1. /\ Elsewhere(r) /\ UNCHANGED <<step, minBpb, w>>
      /\ pc[r] = "sample" /\ pc'[r] = "end" /\ status[r] = "running"
      /\ status'[r] = "ok" /\ step[r] = NumIters /\ Inv0
  <2>1. Inv0
    BY DEF RunInv, CauseInv, IInv
  <2> QED
    BY <2>1, SampleOrBreakEffect DEF Last, SampleOrBreak, Local
<1>2. \A q \in Ranks : Applied(q)' = Applied(q) /\ AgeOf(w'[q]) = AgeOf(w[q])
  BY <1>1 DEF Elsewhere, Applied
<1>3. Done' = Done /\ NanAge' = NanAge /\ Low' = Low
  BY <1>1, <1>2, SameModel DEF Low
<1>4. Applied(r) = NumIters
  BY <1>1 DEF Applied
<1>5. Leads(r)
  BY <1>1, <1>4, AppliedRange DEF Leads
<1>6. /\ Verdict # "aborted" /\ Done = NumIters
      /\ ~(Done > 0 /\ (Done - 1) % LogEvery = 0 /\ NanAge # 0 /\ NanAge < Done)
  BY <1>1, <1>5, GoingOn
<1>7. Verdict' = "ok"
  <2>1. \A q \in Ranks : status[q] # "aborted"
    BY <1>6 DEF Verdict
  <2>2. \A q \in Ranks : status'[q] # "aborted"
    BY <1>1, <2>1 DEF Elsewhere
  <2> QED
    BY <1>1, <2>2 DEF Verdict
<1>8. CASE Verdict = "ok"
  BY <1>3, <1>7, <1>8 DEF Stutter
<1>9. CASE Verdict = "running"
  BY <1>3, <1>6, <1>7, <1>9 DEF Sync!Finish, Sync!Going, Sync!Doomed, Sync!JustLogged,
     Done, NanAge, Low, Verdict, NanAges, AgeOf, AgesIn
<1> QED
  BY <1>6, <1>8, <1>9 DEF Verdict

LEMMA AbortMaps ==
  ASSUME RunInv, RunInv', Mapped, Mapped', NEW r \in Ranks, LossReduced(r), NonFinite(r)
  PROVE  Stutter \/ Sync!Abort
<1>1. /\ Elsewhere(r) /\ UNCHANGED <<minBpb, w>>
      /\ pc[r] = "log" /\ coll[r] = "ready" /\ pc'[r] = "end"
      /\ step'[r] = step[r] /\ status[r] = "running" /\ status'[r] = "aborted"
      /\ Inv0 /\ Symptom(r)
  <2>1. Inv0 /\ Symptom(r)
    BY DEF RunInv, CauseInv, IInv
  <2> QED
    BY <2>1, LossReducedEffect
<1>2. \A q \in Ranks :
        /\ step'[q] = step'[r]
        /\ status'[q] = "aborted" \/ (pc'[q] = "log" /\ coll'[q] = "ready")
  <2>1. IInv'
    BY DEF RunInv, CauseInv
  <2>2. AbortIsUnanimous'
    BY <2>1, LockstepImpliesVerdict, PTL
  <2> QED
    BY <1>1, <2>2 DEF AbortIsUnanimous
<1>3. \A q \in Ranks : Applied(q)' = Applied(q) /\ AgeOf(w'[q]) = AgeOf(w[q])
  BY <1>1 DEF Elsewhere, Applied
<1>4. Done' = Done /\ NanAge' = NanAge /\ Low' = Low
  BY <1>1, <1>3, SameModel DEF Low
<1>5. Verdict' = "aborted"
  BY <1>1 DEF Verdict
<1>6. CASE \E q \in Ranks : status[q] = "aborted"
  BY <1>4, <1>5, <1>6 DEF Stutter, Verdict
<1>7. CASE ~\E q \in Ranks : status[q] = "aborted"
  <2>1. \A q \in Ranks : step[q] = step[r] /\ pc[q] = "log"
    BY <1>1, <1>2, <1>7 DEF Elsewhere
  <2>2. \A q \in Ranks : status[q] # "ok"
    BY <1>1, <2>1 DEF Inv0, ControlOK, ControlAt
  <2>3. \A q \in Ranks : Applied(q) = step[r] + 1
    BY <2>1 DEF Applied
  <2>4. step[r] \in Nat /\ LogsAt(step[r]) /\ WeightsNan(r) /\ w[r] \in [Vars -> Weight]
    BY <1>1, Counters, Types DEF Symptom
  <2>5. Leads(r)
    BY <2>3, <2>4 DEF Leads
  <2>6. Done = step[r] + 1 /\ NanAge = AgeOf(w[r])
    BY <2>3, <2>5 DEF Mapped
  <2>7. NanAge # 0
    BY <2>4, <2>6, AgeFacts DEF WeightsNan
  <2>8. Done > 0 /\ (Done - 1) % LogEvery = 0
    <3>1. Done - 1 = step[r] /\ Done > 0
      BY <2>4, <2>6
    <3> QED
      BY <2>4, <3>1 DEF LogsAt
  <2>9. Verdict = "running"
    BY <1>7, <2>2 DEF Verdict
  <2> QED
    BY <1>4, <1>5, <2>7, <2>8, <2>9 DEF Sync!Abort, Sync!JustLogged, Done, NanAge, Low,
       Verdict, NanAges, AgeOf, AgesIn
<1> QED
  BY <1>6, <1>7

LEMMA StutterMaps == ASSUME Stutter PROVE UNCHANGED Sync!vars
BY DEF Stutter, Sync!vars, Done, NanAge, Low, Verdict, NanAges, AgeOf, AgesIn

LEMMA StepMaps ==
  ASSUME RunInv, RunInv', Mapped, Mapped', [Next]_vars
  PROVE  [Sync!Next]_(Sync!vars)
<1>1. Inv0 /\ Inv0'
  BY DEF RunInv, CauseInv, IInv
<1>2. CASE Next
  <2>1. PICK r \in Ranks : Stepping(r)
    BY <1>1, <1>2, NextCases
  <2>2. CASE Quiet(r)
    BY <1>1, <2>2, QuietIsStutter, StutterMaps
  <2>3. CASE OptStep(r)
    BY <2>3, OptStepMaps, StutterMaps DEF Sync!Next
  <2>4. CASE Evaluated(r) /\ Improves(r)
    BY <1>1, <2>4, EvaluatedMaps, StutterMaps DEF Sync!Next
  <2>5. CASE SampleOrBreak(r) /\ Last(r)
    BY <2>5, BreakMaps, StutterMaps DEF Sync!Next
  <2>6. CASE LossReduced(r) /\ NonFinite(r)
    BY <2>6, AbortMaps, StutterMaps DEF Sync!Next
  <2> QED
    BY <2>1, <2>2, <2>3, <2>4, <2>5, <2>6 DEF Stepping, Quiet
<1>3. CASE UNCHANGED vars
  <2>1. UNCHANGED <<pc, step, status, w, minBpb>>
    BY <1>3 DEF vars, hostVars, dataVars, collVars
  <2>2. \A q \in Ranks : Applied(q)' = Applied(q) /\ AgeOf(w'[q]) = AgeOf(w[q])
    BY <2>1 DEF Applied
  <2>3. Stutter
    BY <2>1, <2>2, SameModel DEF Stutter, Low, Verdict
  <2> QED
    BY <2>3, StutterMaps
<1> QED
  BY <1>2, <1>3

LEMMA InitMaps == ASSUME ConstantsAssumption, Init, RunInv, Mapped PROVE Sync!Init
<1>1. Inv0 /\ 0 \in Ranks
  BY Types DEF RunInv, CauseInv, IInv
<1>2. \A r \in Ranks : /\ pc[r] = "join" /\ step[r] = 0 /\ status[r] = "running"
                       /\ minBpb[r] = Infinity
                       /\ \A v \in Vars : w[r][v].nanAt = 0
  BY DEF Init, InitRanks
<1>3. \A r \in Ranks : Applied(r) = 0
  BY <1>2 DEF Applied
<1>4. Leads(0)
  BY <1>1, <1>3 DEF Leads
<1>5. w[0] \in [Vars -> Weight]
  BY <1>1, Types
<1>6. Done = 0 /\ NanAge = 0
  BY <1>1, <1>2, <1>3, <1>4, <1>5, AgeFacts DEF Mapped
<1>7. Low = W * MaxNats + 1
  BY <1>1, <1>2 DEF Mapped, Infinity
<1>8. Verdict = "running"
  BY <1>2 DEF Verdict
<1> QED
  BY <1>6, <1>7, <1>8 DEF Sync!Init, Done, NanAge, Low, Verdict, NanAges, AgeOf, AgesIn

(* W ranks are one training run: the loops of `train`, for every world     *)
(* size, model and cadence, do through the mapping what a single process   *)
(* does, whatever the interleaving and whoever dies.                       *)
THEOREM RanksAreOneRun == Spec => ImplementsSyncTrain
<1>1. Init => RunInv
  BY RunInit, ConstantsAssumption
<1>2. RunInv /\ [Next]_vars => RunInv'
  BY RunStep
<1>3. RunInv => Mapped
  BY MappedFacts
<1>4. Init /\ RunInv /\ Mapped => Sync!Init
  BY InitMaps, ConstantsAssumption
<1>5. RunInv /\ RunInv' /\ Mapped /\ Mapped' /\ [Next]_vars => [Sync!Next]_(Sync!vars)
  BY StepMaps
<1> QED
  BY <1>1, <1>2, <1>3, <1>4, <1>5, PTL DEF Spec, ImplementsSyncTrain, Sync!Spec

-----------------------------------------------------------------------------
(* The launcher. *)

(* Only save is inside a file of best/. *)
SaveOK ==
  /\ best.model = Torn => pc[0] = "saving"
  /\ best.meta = Torn => pc[0] = "metaing"

Culprit == \E q \in exited : status[q] \in {"aborted", "died"}

AllSpawned == \A r \in Ranks : status[r] # "unborn"

(* What the launcher knows at each point of its program. *)
LauncherOK ==
  /\ lpc \in {"spawn", "poll", "kill", "ok", "err", "oserr"}
  /\ li \in 0 .. W
  /\ exited \subseteq Ranks
  /\ \A r \in exited : status[r] \in {"ok", "aborted", "died"}
  /\ lpc = "spawn" =>
       /\ li < W /\ exited = {}
       /\ \A r \in Ranks : status[r] = "unborn" <=> r >= li
  /\ AllSpawned \/ lpc \in {"spawn", "oserr"}
  /\ lpc \in {"spawn", "poll", "oserr"} => \A r \in Ranks : status[r] # "killed"
  /\ lpc = "poll" => \A r \in exited : status[r] = "ok"
  /\ lpc = "kill" => Culprit /\ \A r \in Ranks : r < li => status[r] # "running"
  /\ lpc = "ok" => \A r \in Ranks : status[r] = "ok"
  /\ lpc = "err" => Culprit /\ \A r \in Ranks : status[r] # "running"

LaunchInv == IInv /\ SaveOK /\ LauncherOK

-----------------------------------------------------------------------------
(* The two sides seen from each other. *)

LEMMA LauncherKeepsLockstep ==
  ASSUME IInv, RankUnchanged, status' \in [Ranks -> Statuses],
         \A r \in Ranks : \/ status'[r] = status[r]
                          \/ status[r] = "unborn" /\ status'[r] = "running"
                          \/ status[r] = "running" /\ status'[r] = "killed"
  PROVE  IInv'
<1>1. /\ UNCHANGED <<pc, step, vi, order, minBpb, w, g, lossNan, cnt, coll, contrib,
                     latched, best, births, scored>>
  BY DEF RankUnchanged, dataVars, collVars, ghostVars
<1>2. TypeOK'
  BY <1>1 DEF IInv, Inv0, TypeOK
<1>3. ControlOK'
  BY <1>1 DEF IInv, Inv0, ControlOK, ControlAt
<1>4. \A q \in Ranks : coll'[q] = coll[q] /\ Cur(q)' = Cur(q)
  BY <1>1, CurStable
<1>5. (SameFuture /\ SameRelease)'
  BY <1>1, <1>4, SilentStep DEF IInv, Lockstep
<1>6. SameBase' /\ FromRankZero'
  BY <1>1 DEF IInv, Lockstep, SameBase, InUpdate, FromRankZero, PastBroadcast
<1> QED
  BY <1>2, <1>3, <1>5, <1>6 DEF IInv, Inv0, Lockstep

LEMMA RankEffect ==
  ASSUME Inv0, NEW r \in Ranks, Stepping(r)
  PROVE  /\ \A q \in Ranks \ {r} : status'[q] = status[q] /\ pc'[q] = pc[q]
         /\ \/ status'[r] = status[r]
            \/ status[r] = "running" /\ status'[r] \in {"ok", "aborted", "died"}
         /\ \/ r = 0 /\ Master
            \/ UNCHANGED best /\ (pc'[r] = pc[r] \/ pc[r] \notin SavePcs)
<1>1. CASE Entering(r)
  BY <1>1 DEF Entering, Enter, hostVars
<1>2. CASE WorldJoined(r)
  BY <1>2, WorldJoinedEffect DEF WorldJoined, SavePcs, Elsewhere
<1>3. CASE VarBroadcast(r)
  BY <1>3, VarBroadcastEffect DEF VarBroadcast, SavePcs, Elsewhere
<1>4. CASE Evaluated(r)
  BY <1>4, EvaluatedEffect DEF Evaluated, SavePcs, Elsewhere
<1>5. CASE r = 0 /\ Master
  BY <1>5, MasterEffect DEF Elsewhere
<1>6. CASE SampleOrBreak(r)
  BY <1>6, SampleOrBreakEffect DEF SampleOrBreak, Local, SavePcs, Elsewhere
<1>7. CASE MicroBatches(r)
  BY <1>7, MicroBatchesEffect DEF MicroBatches, SavePcs, Elsewhere
<1>8. CASE CountReduced(r)
  BY <1>8, CountReducedEffect DEF CountReduced, SavePcs, Elsewhere
<1>9. CASE GradReduced(r)
  BY <1>9, GradReducedEffect DEF GradReduced, SavePcs, Elsewhere
<1>10. CASE OptStep(r)
  BY <1>10, OptStepEffect DEF OptStep, SavePcs, Elsewhere
<1>11. CASE LossReduced(r)
  BY <1>11, LossReducedEffect DEF LossReduced, SavePcs, Elsewhere
<1>12. CASE Die(r, "died")
  BY <1>12, DieEffect DEF Die, Elsewhere
<1> QED
  BY <1>1, <1>2, <1>3, <1>4, <1>5, <1>6, <1>7, <1>8, <1>9, <1>10, <1>11, <1>12
  DEF Stepping

(* A step of checkpoint::save moves along with the file it touches. *)
LEMMA MasterSaves == ASSUME Inv0, SaveOK, Master PROVE SaveOK'
<1>1. /\ pc \in [Ranks -> Pcs] /\ 0 \in Ranks
      /\ best \in [model : ModelFiles, meta : MetaFiles]
  BY Types DEF Inv0, TypeOK
<1>2. /\ Model(step[0], WeightsNan(0)) # Torn
      /\ Meta(step[0], minBpb[0]) # Torn
  BY DEF Model, Meta, Torn
<1>3. ASSUME NEW from, NEW to, NEW file, SaveStep(from, to, file)
      PROVE  pc[0] = from /\ pc'[0] = to /\ best' = file
  BY <1>1, <1>3 DEF SaveStep, Local, GoTo
<1>4. CASE CreateModel
  BY <1>1, <1>3, <1>4 DEF CreateModel, SaveOK
<1>5. CASE WriteModel
  BY <1>1, <1>2, <1>3, <1>5 DEF WriteModel, SaveOK
<1>6. CASE CreateMeta
  BY <1>1, <1>3, <1>6 DEF CreateMeta, SaveOK
<1>7. CASE WriteMeta
  BY <1>1, <1>2, <1>3, <1>7 DEF WriteMeta, SaveOK
<1> QED
  BY <1>4, <1>5, <1>6, <1>7 DEF Master

LEMMA RankStep == ASSUME LaunchInv, Next, UNCHANGED launcherVars PROVE LaunchInv'
<1>1. IInv /\ Inv0 /\ SaveOK /\ LauncherOK /\ UNCHANGED <<lpc, li, exited>>
  BY DEF LaunchInv, IInv, launcherVars
<1>2. IInv'
  BY <1>1, LockstepStep
<1>3. PICK r \in Ranks : Stepping(r)
  BY <1>1, NextCases
<1>4. SaveOK'
  <2>1. CASE r = 0 /\ Master
    BY <1>1, <2>1, MasterSaves
  <2>2. CASE ~(r = 0 /\ Master)
    <3>1. UNCHANGED best /\ (pc'[0] = pc[0] \/ pc[0] \notin SavePcs)
      BY <1>1, <1>3, <2>2, RankEffect, Types
    <3> QED
      BY <1>1, <3>1 DEF SaveOK, SavePcs
  <2> QED
    BY <2>1, <2>2
<1>5. \A q \in Ranks :
        \/ status'[q] = status[q]
        \/ status[q] = "running" /\ status'[q] \in {"ok", "aborted", "died"}
  BY <1>1, <1>3, RankEffect
<1>6. AllSpawned' <=> AllSpawned
  BY <1>5 DEF AllSpawned
<1>7. \A q \in exited : status'[q] = status[q]
  BY <1>1, <1>5 DEF LauncherOK
<1>8. LauncherOK'
  BY <1>1, <1>5, <1>6, <1>7 DEF LauncherOK, Culprit
<1> QED
  BY <1>2, <1>4, <1>8 DEF LaunchInv

-----------------------------------------------------------------------------
(* The launcher. *)

LEMMA SpawnStep == ASSUME LaunchInv, Spawn PROVE LaunchInv'
<1>1. /\ IInv /\ SaveOK /\ LauncherOK /\ RankUnchanged
      /\ lpc = "spawn" /\ li < W /\ li \in 0 .. W /\ W \in Nat
      /\ exited = {} /\ exited' = exited
      /\ status \in [Ranks -> Statuses]
      /\ status' = [status EXCEPT ![li] = "running"]
  BY Types DEF LaunchInv, Spawn, LauncherOK, IInv
<1>2. li \in Ranks /\ status[li] = "unborn"
  BY <1>1 DEF Ranks, LauncherOK
<1>3. status' \in [Ranks -> Statuses] /\ status'[li] = "running"
      /\ \A r \in Ranks \ {li} : status'[r] = status[r]
  BY <1>1, <1>2 DEF Statuses
<1>4. IInv'
  BY <1>1, <1>2, <1>3, LauncherKeepsLockstep
<1>5. SaveOK'
  BY <1>1 DEF SaveOK, RankUnchanged
<1>6. \A r \in Ranks : r \in Int /\ (status'[r] = "unborn" <=> r >= li + 1)
  BY <1>1, <1>2, <1>3 DEF LauncherOK, Ranks
<1>7. \A r \in Ranks : status'[r] # "killed"
  BY <1>1, <1>3 DEF LauncherOK
<1>8. CASE li + 1 < W
  <2>1. lpc' = "spawn" /\ li' = li + 1
    BY <1>1, <1>8 DEF Spawn
  <2> QED
    BY <1>1, <1>4, <1>5, <1>6, <1>7, <1>8, <2>1 DEF LaunchInv, LauncherOK
<1>9. CASE ~(li + 1 < W)
  <2>1. lpc' = "poll" /\ li' = 0
    BY <1>9 DEF Spawn
  <2>2. AllSpawned'
    BY <1>1, <1>6, <1>9 DEF AllSpawned, Ranks
  <2> QED
    BY <1>1, <1>4, <1>5, <1>7, <2>1, <2>2 DEF LaunchInv, LauncherOK
<1> QED
  BY <1>8, <1>9

(* A step that looks at the children and touches none. *)
LEMMA LookingStep ==
  ASSUME LaunchInv, RankUnchanged, UNCHANGED status
  PROVE  IInv' /\ SaveOK' /\ (AllSpawned' <=> AllSpawned)
<1>1. IInv'
  BY LauncherKeepsLockstep, Types DEF LaunchInv, IInv
<1> QED
  BY <1>1 DEF LaunchInv, SaveOK, RankUnchanged, AllSpawned

(* spawn and try_wait fail alike: nobody has been killed, nobody is now. *)
LEMMA OsErrorStep ==
  ASSUME LaunchInv, lpc \in {"spawn", "poll"}, OsError PROVE LaunchInv'
<1>1. /\ lpc' = "oserr" /\ UNCHANGED <<li, exited, status>>
      /\ RankUnchanged /\ LauncherOK
  BY DEF OsError, LaunchInv
<1>2. \A r \in Ranks : status[r] # "killed"
  BY <1>1 DEF LauncherOK
<1>3. LauncherOK'
  BY <1>1, <1>2, LookingStep DEF LauncherOK
<1> QED
  BY <1>1, <1>3, LookingStep DEF LaunchInv

LEMMA TryWaitStep == ASSUME LaunchInv, TryWait PROVE LaunchInv'
<1>1. /\ lpc = "poll" /\ li \in 0 .. W /\ li < W /\ W \in Nat /\ UNCHANGED status
      /\ RankUnchanged /\ LauncherOK /\ li \in Ranks /\ AllSpawned
      /\ status \in [Ranks -> Statuses]
  BY Types DEF TryWait, LaunchInv, LauncherOK, Ranks, IInv
<1>2. IInv' /\ SaveOK' /\ AllSpawned'
  BY <1>1, LookingStep
<1>3. CASE li \in exited \/ ~HasExited(li)
  <2>1. li' = li + 1 /\ UNCHANGED <<lpc, exited>>
    BY <1>3 DEF TryWait, NextChild
  <2> QED
    BY <1>1, <1>2, <2>1 DEF LaunchInv, LauncherOK
<1>4. CASE li \notin exited /\ HasExited(li)
  <2>1. exited' = exited \cup {li} /\ status[li] \in {"ok", "aborted", "died"}
    BY <1>1, <1>4 DEF TryWait, HasExited, LauncherOK, Statuses
  <2>2. CASE Success(li)
    <3>1. li' = li + 1 /\ lpc' = lpc /\ status[li] = "ok"
      BY <1>4, <2>2 DEF TryWait, NextChild, Success
    <3> QED
      BY <1>1, <1>2, <2>1, <3>1 DEF LaunchInv, LauncherOK
  <2>3. CASE ~Success(li)
    <3>1. li' = 0 /\ lpc' = "kill" /\ status[li] # "ok"
      BY <1>4, <2>3 DEF TryWait, Success
    <3>2. Culprit'
      BY <1>1, <2>1, <3>1 DEF Culprit
    <3>3. \A r \in Ranks : ~(r < 0)
      BY <1>1 DEF Ranks
    <3> QED
      BY <1>1, <1>2, <2>1, <3>1, <3>2, <3>3 DEF LaunchInv, LauncherOK
  <2> QED
    BY <2>2, <2>3
<1> QED
  BY <1>3, <1>4

LEMMA RoundEndsStep == ASSUME LaunchInv, RoundEnds PROVE LaunchInv'
<1>1. /\ lpc = "poll" /\ UNCHANGED <<status, exited>> /\ RankUnchanged /\ LauncherOK
      /\ AllSpawned /\ W \in Nat /\ li \in 0 .. W
      /\ \/ exited = Ranks /\ lpc' = "ok" /\ li' = li
         \/ li' = 0 /\ lpc' = "poll"
  BY Types DEF RoundEnds, LaunchInv, LauncherOK, IInv
<1>2. IInv' /\ SaveOK' /\ AllSpawned'
  BY <1>1, LookingStep
<1>3. LauncherOK'
  BY <1>1, <1>2 DEF LauncherOK
<1> QED
  BY <1>2, <1>3 DEF LaunchInv

LEMMA KillStep == ASSUME LaunchInv, Kill PROVE LaunchInv'
<1>1. /\ lpc = "kill" /\ li \in 0 .. W /\ li < W /\ W \in Nat /\ li \in Ranks
      /\ li' = li + 1 /\ UNCHANGED <<lpc, exited>>
      /\ IInv /\ SaveOK /\ LauncherOK /\ RankUnchanged /\ AllSpawned
      /\ status \in [Ranks -> Statuses]
  BY Types DEF Kill, LaunchInv, LauncherOK, Ranks, IInv
<1>2. /\ status' \in [Ranks -> Statuses]
      /\ status'[li] # "running"
      /\ \A r \in Ranks : \/ status'[r] = status[r]
                          \/ /\ r = li /\ status[r] = "running"
                             /\ status'[r] = "killed"
  <2>1. CASE Kills(li) /\ status[li] = "running"
    BY <1>1, <2>1 DEF Kill, Statuses
  <2>2. CASE ~(Kills(li) /\ status[li] = "running")
    <3>1. status' = status
      BY <2>2 DEF Kill
    <3>2. status[li] # "running"
      BY <1>1, <2>2 DEF Kills, LauncherOK
    <3> QED
      BY <1>1, <3>1, <3>2
  <2> QED
    BY <2>1, <2>2
<1>3. IInv'
  BY <1>1, <1>2, LauncherKeepsLockstep
<1>4. SaveOK'
  BY <1>1 DEF SaveOK, RankUnchanged
<1>5. AllSpawned' /\ \A r \in exited : status'[r] = status[r]
  BY <1>1, <1>2 DEF AllSpawned, LauncherOK
<1>6. \A r \in Ranks : r < li + 1 => r < li \/ r = li
  BY <1>1 DEF Ranks
<1>7. \A r \in Ranks : r < li + 1 => status'[r] # "running"
  BY <1>1, <1>2, <1>6 DEF LauncherOK
<1>8. Culprit'
  BY <1>1, <1>5 DEF Culprit, LauncherOK
<1>9. LauncherOK'
  BY <1>1, <1>5, <1>7, <1>8 DEF LauncherOK
<1> QED
  BY <1>3, <1>4, <1>9 DEF LaunchInv

LEMMA GiveUpStep == ASSUME LaunchInv, GiveUp PROVE LaunchInv'
<1>1. /\ lpc = "kill" /\ li = W /\ lpc' = "err" /\ UNCHANGED <<li, exited, status>>
      /\ RankUnchanged /\ LauncherOK /\ AllSpawned /\ W \in Nat
  BY Types DEF GiveUp, LaunchInv, LauncherOK, IInv
<1>2. IInv' /\ SaveOK' /\ AllSpawned'
  BY <1>1, LookingStep
<1>3. \A r \in Ranks : r < li
  BY <1>1 DEF Ranks
<1>4. Culprit' /\ \A r \in Ranks : status'[r] # "running"
  BY <1>1, <1>3 DEF LauncherOK, Culprit
<1>5. LauncherOK'
  BY <1>1, <1>2, <1>4 DEF LauncherOK
<1> QED
  BY <1>2, <1>5 DEF LaunchInv

-----------------------------------------------------------------------------
LEMMA LaunchInvInit == ASSUME LaunchInit PROVE LaunchInv
<1>1. /\ InitRanks /\ status = [r \in Ranks |-> "unborn"]
      /\ lpc = "spawn" /\ li = 0 /\ exited = {}
  BY DEF LaunchInit
<1>2. status \in [Ranks -> {"unborn", "running"}]
  BY <1>1
<1>3. IInv
  BY <1>1, <1>2, LockstepInit, ConstantsAssumption
<1>4. SaveOK
  BY <1>1 DEF InitRanks, SaveOK, Absent, Torn
<1>5. W \in Nat \ {0} /\ \A r \in Ranks : r >= 0
  BY <1>3, Types DEF IInv, Ranks
<1>6. LauncherOK
  BY <1>1, <1>5 DEF LauncherOK
<1> QED
  BY <1>3, <1>4, <1>6 DEF LaunchInv

LEMMA LaunchInvStep == ASSUME LaunchInv, [LaunchNext]_allVars PROVE LaunchInv'
<1>1. CASE Launcher
  BY <1>1, SpawnStep, OsErrorStep, TryWaitStep, RoundEndsStep, KillStep, GiveUpStep
  DEF Launcher, Supervise, SpawnFails, TryWaitFails
<1>2. CASE Next /\ UNCHANGED launcherVars
  BY <1>2, RankStep
<1>3. CASE UNCHANGED allVars
  <2>1. UNCHANGED vars /\ UNCHANGED <<lpc, li, exited>>
    BY <1>3 DEF allVars, launcherVars
  <2>2. UNCHANGED <<status, pc, best>>
    BY <2>1 DEF vars, hostVars
  <2>3. IInv'
    BY <2>1, LockstepStep DEF LaunchInv
  <2> QED
    BY <2>1, <2>2, <2>3 DEF LaunchInv, SaveOK, LauncherOK, Culprit, AllSpawned
<1> QED
  BY <1>1, <1>2, <1>3 DEF LaunchNext

(* What the launcher knows, next to the lockstep of the ranks it has not   *)
(* touched.                                                                *)
THEOREM LaunchInvariant == LaunchSpec => []LaunchInv
<1>1. LaunchInit => LaunchInv
  BY LaunchInvInit
<1>2. LaunchInv /\ [LaunchNext]_allVars => LaunchInv'
  BY LaunchInvStep
<1> QED
  BY <1>1, <1>2, PTL DEF LaunchSpec

(* When supervise_ranks returns over the ranks' exits it leaves no rank    *)
(* running, least of all one that hangs in a collective with a dead peer.  *)
(* Its returns on an error of spawn or try_wait promise no such thing.     *)
THEOREM LauncherLeavesNobody == LaunchSpec => []NoOrphans
<1>1. LaunchInv => NoOrphans
  BY DEF LaunchInv, LauncherOK, NoOrphans
<1> QED
  BY <1>1, LaunchInvariant, PTL

(* Exit status 0 of `pretrain --gpus N` is a complete run on N equal       *)
(* replicas with no half-written best/; the report of an abnormal exit, or *)
(* a killed rank, has a rank to blame.                                     *)
THEOREM ExitStatusAlwaysTrue == LaunchSpec => []ExitStatusIsTrue
<1>1. ASSUME LaunchInv PROVE ExitStatusIsTrue
  <2>1. IInv /\ Inv0 /\ SaveOK /\ LauncherOK
    BY <1>1 DEF LaunchInv, IInv
  <2>2. ASSUME lpc = "ok"
        PROVE  /\ \A r \in Ranks : status[r] = "ok" /\ Applied(r) = NumIters
               /\ \A r, q \in Ranks : w[r] = w[q]
               /\ Torn \notin {best.model, best.meta}
    <3>1. \A r \in Ranks : status[r] = "ok" /\ pc[r] = "end" /\ step[r] = NumIters
      BY <2>1, <2>2 DEF LauncherOK, Inv0, ControlOK, ControlAt
    <3>2. \A r \in Ranks : Applied(r) = NumIters /\ PastBroadcast(r)
      BY <3>1 DEF Applied, PastBroadcast
    <3>3. \A r, q \in Ranks : w[r] = w[q]
      BY <2>1, <3>2, LockstepImpliesReplicas DEF ReplicasAgree
    <3>4. Torn \notin {best.model, best.meta}
      BY <2>1, <3>1, Types DEF SaveOK
    <3> QED
      BY <3>1, <3>2, <3>3, <3>4
  <2>3. ASSUME lpc \in {"kill", "err"} \/ \E r \in Ranks : status[r] = "killed"
        PROVE  \E q \in exited : status[q] \in {"aborted", "died"}
    BY <2>1, <2>3 DEF LauncherOK, Culprit
  <2> QED
    BY <2>2, <2>3 DEF ExitStatusIsTrue
<1> QED
  BY <1>1, LaunchInvariant, PTL
=============================================================================
