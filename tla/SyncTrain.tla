----------------------------- MODULE SyncTrain -----------------------------
(***************************************************************************)
(* What data-parallel training promises: one training run.  There is one   *)
(* model, one count of updates, one best validation score and one verdict, *)
(* as if a single process trained on the global batch.                     *)
(***************************************************************************)
EXTENDS Integers

CONSTANTS
  NumIters,   \* optimizer steps
  LogEvery,   \* the loss is checked at every multiple of it
  EvalEvery,  \* evaluation cadence, 0 for never
  MaxBpb      \* the largest finite bpb

VARIABLES
  done,     \* updates applied to the model
  nanAt,    \* number of updates after which the model became NaN, 0 if finite
  low,      \* lowest bpb measured, MaxBpb + 1 if none
  verdict   \* running, ok, aborted

vars == <<done, nanAt, low, verdict>>

TypeOK ==
  /\ done \in 0 .. NumIters
  /\ nanAt \in 0 .. NumIters
  /\ low \in 0 .. MaxBpb + 1
  /\ verdict \in {"running", "ok", "aborted"}

JustLogged == done > 0 /\ (done - 1) % LogEvery = 0

(* The step just logged ran on a model that was NaN already: its loss was  *)
(* NaN and the run must stop.                                              *)
Doomed == JustLogged /\ nanAt # 0 /\ nanAt < done

EvalDue ==
  /\ EvalEvery # 0
  /\ done = NumIters \/ (done > 0 /\ done % EvalEvery = 0)

Init == done = 0 /\ nanAt = 0 /\ low = MaxBpb + 1 /\ verdict = "running"

Going == verdict = "running" /\ ~Doomed

Update ==
  /\ Going /\ done < NumIters
  /\ done' = done + 1
  /\ nanAt' \in IF nanAt = 0 THEN {0, done + 1} ELSE {nanAt}
  /\ UNCHANGED <<low, verdict>>

Measure ==
  /\ Going /\ EvalDue /\ nanAt = 0
  /\ low' \in 0 .. low - 1
  /\ UNCHANGED <<done, nanAt, verdict>>

Abort ==
  /\ verdict = "running" /\ JustLogged /\ nanAt # 0
  /\ verdict' = "aborted"
  /\ UNCHANGED <<done, nanAt, low>>

Finish ==
  /\ Going /\ done = NumIters
  /\ verdict' = "ok"
  /\ UNCHANGED <<done, nanAt, low>>

Next == Update \/ Measure \/ Abort \/ Finish

Spec == Init /\ [][Next]_vars
=============================================================================
