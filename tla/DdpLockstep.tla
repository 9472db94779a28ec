---------------------------- MODULE DdpLockstep ----------------------------
(***************************************************************************)
(* The inductive invariant behind the agreement of the ranks.  Between two *)
(* collectives a rank works alone, so ranks are compared by what they      *)
(* bring to their next collective, Cur(r): its position in the program and *)
(* the replicated data, as they will be when the local work is done.       *)
(* Advance says what a collective makes of that, from the latched          *)
(* contributions, which all ranks share.  So the value after the pending   *)
(* collective, Future(r), is the same for all ranks at all times, however  *)
(* far apart the ranks are in the meantime.                                *)
(***************************************************************************)
EXTENDS DdpTrain

(* Points: the next collective, its step and its position in the list of   *)
(* parameters; or the end of `train`.                                      *)
AfterEval(s) ==
  IF s = NumIters THEN <<"end", s, 1>>
  ELSE <<IF MayIgnore THEN "count" ELSE "grads", s, 1>>
Top(s) == IF CadenceFires(s, EvalEvery) THEN <<"eval", s, 1>> ELSE AfterEval(s)
AfterGrads(s) == IF LogsAt(s) THEN <<"log", s, 1>> ELSE Top(s + 1)

Point(r) ==
  IF pc[r] \in SavePcs \cup {"sample", "micro"} THEN AfterEval(step[r])
  ELSE IF pc[r] = "opt" THEN AfterGrads(step[r])
  ELSE <<pc[r], step[r], vi[r]>>

(* Parameters and gradients that a collective has not made equal yet, or   *)
(* that no longer matter, are left out of the comparison.                  *)
Unset == [src |-> 0, nanAt |-> 0]

Weights(r) ==
  IF pc[r] = "opt" THEN Updated(r)
  ELSE [v \in Vars |-> IF pc[r] = "join" \/ (pc[r] = "bcast" /\ v >= vi[r])
                       THEN Unset ELSE w[r][v]]

Gradients(r) ==
  [v \in Vars |-> IF pc[r] = "grads" /\ v < vi[r] THEN g[r][v] ELSE "absent"]

Cur(r) == [pt |-> Point(r), min |-> minBpb[r], w |-> Weights(r), g |-> Gradients(r)]

(* What the released collective makes of Cur, the same on every rank.      *)
SharedBpb  == IF ValBatches = 0 THEN Infinity ELSE SummedNats
SharedGrad == IF AnyNan THEN "nan" ELSE "finite"

NewPoint(pt) ==
  CASE pt[1] = "join"  -> <<"bcast", pt[2], 1>>
    [] pt[1] = "bcast" -> IF pt[3] < NV THEN <<"bcast", pt[2], pt[3] + 1>> ELSE Top(0)
    [] pt[1] = "eval"  -> AfterEval(pt[2])
    [] pt[1] = "count" -> <<"grads", pt[2], 1>>
    [] pt[1] = "grads" -> IF pt[3] < NV THEN <<"grads", pt[2], pt[3] + 1>>
                                        ELSE AfterGrads(pt[2])
    [] pt[1] = "log"   -> IF AnyNan \/ NothingScored THEN <<"end", pt[2], 1>>
                                                     ELSE Top(pt[2] + 1)

NewLow(pt, low) ==
  IF pt[1] = "eval" /\ ~AnyNan /\ SharedBpb < low THEN SharedBpb ELSE low

NewGradients(pt, grads) ==
  IF pt[1] # "grads" THEN grads
  ELSE [v \in Vars |-> IF pt[3] = NV THEN "absent"
                       ELSE IF v = pt[3] THEN SharedGrad ELSE grads[v]]

NewWeights(pt, weights, grads) ==
  CASE pt[1] = "bcast" ->
         [v \in Vars |-> IF v = pt[3] THEN [src |-> latched[0].n, nanAt |-> 0]
                                      ELSE weights[v]]
    [] pt[1] = "grads" /\ pt[3] = NV ->
         [v \in Vars |->
            IF /\ weights[v].nanAt = 0
               /\ (IF v = NV THEN SharedGrad ELSE grads[v]) = "nan"
            THEN [src |-> weights[v].src, nanAt |-> pt[2] + 1] ELSE weights[v]]
    [] OTHER -> weights

Advance(c) ==
  [pt  |-> NewPoint(c.pt),
   min |-> NewLow(c.pt, c.min),
   w   |-> NewWeights(c.pt, c.w, c.g),
   g   |-> NewGradients(c.pt, c.g)]

Future(r) == IF coll[r] = "ready" THEN Advance(Cur(r)) ELSE Cur(r)

-----------------------------------------------------------------------------
(* The gradients of this step are reduced, the update is still to come.    *)
InUpdate(r) ==
  pc[r] = "opt" \/ (pc[r] = "grads" /\ vi[r] = NV /\ coll[r] = "ready")

SameFuture  == \A r, q \in Ranks : Future(r) = Future(q)
SameRelease ==
  \A r, q \in Ranks : coll[r] = "ready" /\ coll[q] = "ready" => Cur(r) = Cur(q)
SameBase == \A r, q \in Ranks : InUpdate(r) /\ InUpdate(q) => w[r] = w[q]

(* Every parameter that a broadcast has reached is rank 0's.               *)
FromRankZero ==
  /\ \A v \in Vars : w[0][v].src = 0
  /\ pc[0] = "bcast" /\ coll[0] = "in" => contrib[0].n = 0
  /\ \A r \in Ranks :
       /\ pc[r] = "bcast" /\ coll[r] = "ready" => latched[0].n = 0
       /\ \A v \in Vars :
            PastBroadcast(r) \/ (pc[r] = "bcast" /\ v < vi[r]) => w[r][v].src = 0

(* Wherever they stand, the ranks are on their way to the same state: the  *)
(* lockstep that `train` relies on when it branches on reduced values only *)
(* (the eval block, check_finite) around collectives.                      *)
Lockstep == SameFuture /\ SameRelease /\ SameBase /\ FromRankZero
=============================================================================
