--------------------------- MODULE DdpRefinement ---------------------------
(***************************************************************************)
(* The W-rank training loop implements the single run of SyncTrain.  The   *)
(* abstract model is the replica of a rank that is ahead of the others; an *)
(* abstract step happens when the first rank takes it, and the same step   *)
(* of the other ranks is a stutter.                                        *)
(***************************************************************************)
EXTENDS DdpTrain, FiniteSetsExt

Ahead == CHOOSE r \in Ranks : \A q \in Ranks : Applied(q) <= Applied(r)

NanAges(r) == {w[r][v].nanAt : v \in Vars} \ {0}

Sync == INSTANCE SyncTrain WITH
  MaxBpb  <- W * MaxNats,
  done    <- Applied(Ahead),
  nanAt   <- IF NanAges(Ahead) = {} THEN 0 ELSE Min(NanAges(Ahead)),
  low     <- Min({minBpb[r] : r \in Ranks}),
  verdict <- IF \E r \in Ranks : status[r] = "aborted" THEN "aborted"
             ELSE IF \E r \in Ranks : status[r] = "ok" THEN "ok" ELSE "running"

(* W ranks are one training run: every behaviour of the ranks is, through  *)
(* the mapping, a behaviour of the single-process trainer.                 *)
ImplementsSyncTrain == Sync!Spec
=============================================================================
