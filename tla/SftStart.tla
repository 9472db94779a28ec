------------------------------ MODULE SftStart ------------------------------
(***************************************************************************)
(* `run` of sft.rs on every rank: size the validation snapshot, pack the   *)
(* train epoch, agree on the packs, fix the horizon, and serve the rows.   *)
(* Every rank reads its own files, so every rank may have another pack;    *)
(* the sums of step 7 are all they ever compare.  The collectives are      *)
(* those of DdpTrain; a rank that fails is gone, and whoever waits for it  *)
(* waits until the launcher kills it.                                      *)
(***************************************************************************)
EXTENDS Integers, Sequences, FiniteSets

CONSTANTS
  W,             \* world size
  DeviceBatch,   \* rows of a micro-batch
  GradAccum,     \* micro-batches of an optimizer step
  EvalSteps,     \* --eval-steps of the first attempt
  NumItersAsked, \* --num-iters, 0 if it was not given
  Headroom,      \* VAL_HEADROOM
  ValCaps,       \* active_val_denominator: the caps of the active sources
  Packs,         \* the train packs files may give: [rows, pads, scored, digest]
  ValFiles       \* what test files may give: [capped : steps -> rows, full : rows]

Ranks == 0 .. W - 1

ASSUME StartAssumption ==
  /\ W \in Nat \ {0} /\ DeviceBatch \in Nat \ {0} /\ GradAccum \in Nat \ {0}
  /\ EvalSteps \in Nat \ {0} /\ NumItersAsked \in Nat
  /\ Headroom \in Nat \ {0} /\ ValCaps \in Nat
  /\ Packs \subseteq [rows : Nat, pads : Nat, scored : Nat, digest : Nat]
  /\ ValFiles \subseteq [capped : [1 .. EvalSteps -> Nat], full : Nat]

VARIABLES
  pack, val,   \* what the files of each rank pack to; they do not change
  pc, status,  \* the point of `run` and the fate of each rank
  valRows,     \* rows of the validation pack a rank settled on
  coll,        \* progress through the pending collective: out, in, ready
  contrib,     \* the contribution of each rank to its latest collective
  latched,     \* the contributions to the collective released last
  numIters,    \* the horizon
  served,      \* EpochView.next: micro-batches served
  evalSteps,   \* --eval-steps of this attempt
  advised      \* the rank whose advice --eval-steps follows, -1: none

files == <<pack, val>>
vars == <<files, pc, status, valRows, coll, contrib, latched, numIters, served,
          evalSteps, advised>>

-----------------------------------------------------------------------------
(* The packed epoch: floor(rows / (world * device_batch)) micro-batches.   *)
NumBatches(rows, world) == rows \div (world * DeviceBatch)

(* Rows of the i-th micro-batch of rank r.  Definitions named Mutant...    *)
(* are plausible bugs, used by no specification.                           *)
MutantBatchRow(i, j, r) == (i * DeviceBatch + j) + r
BatchRow(i, j, r) == (i * DeviceBatch + j) * W + r

(* val_batches: a pack at the capped budget, replaced by the uncapped one  *)
(* if the cap binds and leaves too little.                                 *)
CapBinds == Headroom * evalSteps * DeviceBatch < ValCaps
CappedRows(r) == IF CapBinds THEN val[r].capped[evalSteps] ELSE val[r].full

MutantValPack(r) == CappedRows(r)
ValPack(r) ==
  IF CapBinds /\ NumBatches(CappedRows(r), 1) < evalSteps THEN val[r].full
                                                         ELSE CappedRows(r)

(* check_packs_agree: every component of the reduced sum is exactly world  *)
(* times the local one.                                                    *)
Local(r) ==
  <<pack[r].rows, pack[r].pads, pack[r].scored, pack[r].digest, valRows[r]>>

SumOver(values, i) ==
  LET sum[n \in 0 .. W] == IF n = 0 THEN 0 ELSE sum[n - 1] + values[n - 1][i]
  IN  sum[W]

MutantAgrees(r) == SumOver(latched, 1) = W * Local(r)[1]
Agrees(r) == \A i \in 1 .. 5 : SumOver(latched, i) = W * Local(r)[i]

EpochIters(r) == NumBatches(pack[r].rows, W) \div GradAccum
Horizon(r) == IF NumItersAsked = 0 THEN EpochIters(r) ELSE NumItersAsked

HorizonOK(r) == Horizon(r) >= 1 /\ Horizon(r) <= EpochIters(r)

-----------------------------------------------------------------------------
(* Control. *)

Running(r, point) == status[r] = "running" /\ pc[r] = point

GoTo(r, point) == pc' = [pc EXCEPT ![r] = point] /\ UNCHANGED status
Bail(r, why)   == status' = [status EXCEPT ![r] = why] /\ UNCHANGED pc

Enter(r, point, c) ==
  /\ Running(r, point) /\ coll[r] = "out"
  /\ contrib' = [contrib EXCEPT ![r] = c]
  /\ IF \A q \in Ranks \ {r} : coll[q] = "in" /\ status[q] = "running"
     THEN coll' = [q \in Ranks |-> "ready"] /\ latched' = contrib'
     ELSE coll' = [coll EXCEPT ![r] = "in"] /\ UNCHANGED latched
  /\ UNCHANGED <<files, pc, status, valRows, numIters, served, evalSteps, advised>>

Leave(r, point) ==
  /\ Running(r, point) /\ coll[r] = "ready"
  /\ coll' = [coll EXCEPT ![r] = "out"]
  /\ UNCHANGED <<files, valRows, contrib, latched, served, evalSteps, advised>>

Init ==
  /\ pack \in [Ranks -> Packs] /\ val \in [Ranks -> ValFiles]
  /\ pc = [r \in Ranks |-> "val"] /\ status = [r \in Ranks |-> "running"]
  /\ valRows = [r \in Ranks |-> 0]
  /\ coll = [r \in Ranks |-> "out"]
  /\ contrib = [r \in Ranks |-> <<0, 0, 0, 0, 0>>] /\ latched = contrib
  /\ numIters = [r \in Ranks |-> 0] /\ served = [r \in Ranks |-> 0]
  /\ evalSteps = EvalSteps /\ advised = -1

(* 5. The validation snapshot, or advice on how to get one. *)
SizeSnapshot(r) ==
  /\ Running(r, "val")
  /\ valRows' = [valRows EXCEPT ![r] = ValPack(r)]
  /\ LET batches == NumBatches(ValPack(r), 1)
     IN  CASE batches = 0         -> Bail(r, "no batch")
           [] batches \in 1 .. evalSteps - 1 -> Bail(r, "lower eval-steps")
           [] OTHER               -> GoTo(r, "pack")
  /\ UNCHANGED <<files, coll, contrib, latched, numIters, served, evalSteps, advised>>

(* Every rank of a world of several takes part in step 7. *)
MutantAfterPack(r) == IF r > 0 THEN "agree" ELSE "horizon"
AfterPack(r) == IF W > 1 THEN "agree" ELSE "horizon"

(* 6. The train epoch must score something; a world of one skips step 7.   *)
PackTrain(r) ==
  /\ Running(r, "pack")
  /\ IF pack[r].scored = 0 THEN Bail(r, "scores nothing")
                           ELSE GoTo(r, AfterPack(r))
  /\ UNCHANGED <<files, valRows, coll, contrib, latched, numIters, served,
                 evalSteps, advised>>

(* 7. The packs agree, or this rank says that they do not. *)
CheckPacks(r) == Enter(r, "agree", Local(r))

PacksChecked(r) ==
  /\ Leave(r, "agree")
  /\ IF Agrees(r) THEN GoTo(r, "horizon") ELSE Bail(r, "packs disagree")
  /\ UNCHANGED numIters

(* 8. The horizon. *)
FixHorizon(r) ==
  /\ Running(r, "horizon")
  /\ IF HorizonOK(r)
     THEN numIters' = [numIters EXCEPT ![r] = Horizon(r)] /\ GoTo(r, "bcast")
     ELSE Bail(r, "epoch too short") /\ UNCHANGED numIters
  /\ UNCHANGED <<files, valRows, coll, contrib, latched, served, evalSteps, advised>>

(* `train` starts with the broadcast of the parameters, and then pulls     *)
(* num_iters * grad_accum micro-batches from the view.                     *)
Broadcast(r) == Enter(r, "bcast", <<0, 0, 0, 0, 0>>)

Broadcasted(r) == Leave(r, "bcast") /\ GoTo(r, "train") /\ UNCHANGED numIters

NextBatch(r) ==
  /\ Running(r, "train") /\ served[r] < numIters[r] * GradAccum
  /\ IF served[r] >= NumBatches(pack[r].rows, W)
     THEN Bail(r, "view exhausted") /\ UNCHANGED served
     ELSE served' = [served EXCEPT ![r] = @ + 1] /\ UNCHANGED <<pc, status>>
  /\ UNCHANGED <<files, valRows, coll, contrib, latched, numIters, evalSteps, advised>>

Finish(r) ==
  /\ Running(r, "train") /\ served[r] = numIters[r] * GradAccum
  /\ Bail(r, "ok")
  /\ UNCHANGED <<files, valRows, coll, contrib, latched, numIters, served,
                 evalSteps, advised>>

(* The process ends: any other error, a signal, the launcher's kill. *)
Die(r) ==
  /\ status[r] = "running"
  /\ Bail(r, "died")
  /\ UNCHANGED <<files, valRows, coll, contrib, latched, numIters, served,
                 evalSteps, advised>>

(* The user does what the message of rank r says and starts again: the     *)
(* same files, --eval-steps lowered to the number of micro-batches.        *)
FollowAdvice(r) ==
  /\ advised = -1 /\ status[r] = "lower eval-steps"
  /\ \A q \in Ranks : status[q] # "running"
  /\ advised' = r
  /\ evalSteps' = NumBatches(valRows[r], 1)
  /\ pc' = [q \in Ranks |-> "val"] /\ status' = [q \in Ranks |-> "running"]
  /\ valRows' = [q \in Ranks |-> 0] /\ coll' = [q \in Ranks |-> "out"]
  /\ UNCHANGED <<files, contrib, latched, numIters, served>>

RankStep(r) ==
  \/ SizeSnapshot(r) \/ PackTrain(r) \/ CheckPacks(r) \/ PacksChecked(r)
  \/ FixHorizon(r) \/ Broadcast(r) \/ Broadcasted(r) \/ NextBatch(r) \/ Finish(r)

Next == \E r \in Ranks : RankStep(r) \/ Die(r) \/ FollowAdvice(r)
Spec == Init /\ [][Next]_vars
FairSpec == Spec /\ \A r \in Ranks : WF_vars(RankStep(r))

-----------------------------------------------------------------------------
(* Properties. *)

Training(r) == pc[r] = "train"
RowsOf(r) == {BatchRow(i, j, r) : i \in 0 .. served[r] - 1, j \in 0 .. DeviceBatch - 1}

(* No rank trains unless all built the same pack and have the same         *)
(* horizon, though a rank whose values are the average of the others' sees *)
(* nothing wrong: the ones that do fail never join the broadcast.          *)
NoUpdateOnDisagreement ==
  \A r, q \in Ranks :
     Training(r) => Local(r) = Local(q) /\ numIters[r] = numIters[q]

(* The ranks' micro-batches are disjoint, without repetition, and inside   *)
(* the epoch, which the horizon never outruns.                             *)
RowsServedOnce ==
  /\ \A r \in Ranks : status[r] # "view exhausted"
  /\ \A r, q \in Ranks : r # q => RowsOf(r) \cap RowsOf(q) = {}
  /\ \A r \in Ranks : /\ RowsOf(r) \subseteq 0 .. pack[r].rows - 1
                      /\ Cardinality(RowsOf(r)) = served[r] * DeviceBatch

(* The advice of val_batches works: who lowers --eval-steps to what it     *)
(* says gets a snapshot.                                                   *)
AdviceWorks ==
  advised # -1 => status[advised] \notin {"no batch", "lower eval-steps"}

(* On equal files nobody is left behind: unless a process dies, all ranks  *)
(* come to the same end.                                                   *)
SameFiles == \A r, q \in Ranks : pack[r] = pack[q] /\ val[r] = val[q]
OneStart ==
  SameFiles /\ [](\A r \in Ranks : status[r] # "died")
    => <>[](\A r, q \in Ranks : status[r] # "running" /\ status[r] = status[q])
=============================================================================
