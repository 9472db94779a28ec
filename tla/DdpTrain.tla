------------------------------ MODULE DdpTrain ------------------------------
(***************************************************************************)
(* The data-parallel training loop: W processes ("ranks"), each running    *)
(* `train` of train/train_loop.rs over its own replica of the parameters,  *)
(* coupled only by the collectives of train/dist.rs.                       *)
(*                                                                         *)
(* NCCL matches collectives by call order and by nothing else: a rank      *)
(* announces its next collective and its contribution ("in"), the last to  *)
(* arrive releases everybody ("ready"), and each rank leaves on its own    *)
(* and goes on to whatever its program does next ("out").  What a call     *)
(* *means* is known only to the rank that makes it, so a rank reads the    *)
(* latched contributions through the kind of its own call.                 *)
(*                                                                         *)
(* The data kept is what the properties tell apart: where a parameter's    *)
(* initial value came from, and after how many updates it became           *)
(* non-finite.                                                             *)
(***************************************************************************)
EXTENDS Integers, FiniteSets, Functions

CONSTANTS
  W,            \* world size: --gpus
  NV,           \* number of named parameters
  NumIters,     \* optimizer steps
  LogEvery,     \* log (and finite-check) cadence
  EvalEvery,    \* eval cadence, 0 disables it
  ValBatches,   \* number of batches in the validation snapshot
  MaxNats,      \* bound: a rank's share of the validation nats is 0..MaxNats
  MayIgnore,    \* targets_may_be_ignored: FALSE in pretraining, TRUE in SFT
  ZeroInit,     \* parameters that may store no gradient at step 0
  MaxBirths     \* bound: number of steps in which a rank overflows by itself

Ranks == 0 .. W - 1
Vars  == 1 .. NV

ASSUME ConstantsAssumption ==
  /\ W \in Nat \ {0} /\ NV \in Nat \ {0}
  /\ NumIters \in Nat \ {0} /\ LogEvery \in Nat \ {0} /\ EvalEvery \in Nat
  /\ ValBatches \in Nat /\ MaxNats \in Nat /\ MaxBirths \in Nat
  /\ MayIgnore \in BOOLEAN
  /\ ZeroInit \subseteq Vars /\ ZeroInit # Vars

VARIABLES
  status,   \* what the operating system sees of each rank's process
  pc,       \* the point of `train` each rank has reached
  step,     \* loop variable of `for step in 0..=num_iters`
  vi,       \* position in the canonical list of the per-parameter loops
  order,    \* iteration order of each process's VarMap (randomly seeded)
  w,        \* replica: per parameter, the source of its init and its age of NaN
  g,        \* accumulated gradient per parameter
  lossNan,  \* step_sum of the current step is not finite
  cnt,      \* step_count of the current step: scored targets
  minBpb,   \* min_val_bpb
  coll,     \* progress through the pending collective: out, in, ready
  contrib,  \* the contribution of each rank to its latest collective
  latched,  \* all contributions to the collective released last
  best,     \* the best/ directory: model.safetensors and meta.txt
  births,   \* history: steps in which some rank's own pass overflowed
  scored    \* history: steps in which some rank had a scored target

hostVars  == <<status, pc, step, vi, order, minBpb>>
dataVars  == <<w, g, lossNan, cnt>>
collVars  == <<coll, contrib, latched>>
ghostVars == <<births, scored>>
vars == <<hostVars, dataVars, collVars, best, ghostVars>>

-----------------------------------------------------------------------------
(* Values. *)

Infinity == W * MaxNats + 1         \* f64::INFINITY: above every finite bpb
Grads    == {"absent", "finite", "nan"}
Weight   == [src : Nat, nanAt : 0 .. NumIters]   \* nanAt = 0: finite
Contribs == [nan : BOOLEAN, n : Nat]
CollPcs  == {"join", "bcast", "eval", "count", "grads", "log"}
SavePcs  == {"save", "saving", "meta", "metaing"}
Pcs      == CollPcs \cup SavePcs \cup {"sample", "micro", "opt", "end"}
Statuses == {"unborn", "running", "ok", "aborted", "died", "killed"}

(* A file of best/: not there, truncated but not completely written, or    *)
(* complete (the step and what the property needs to know of it).          *)
Absent == [state |-> "absent"]
Torn   == [state |-> "torn"]
Model(s, nan) == [state |-> "whole", step |-> s, nan |-> nan]
Meta(s, bpb)  == [state |-> "whole", step |-> s, bpb |-> bpb]
ModelFiles == {Absent, Torn}
  \cup [state : {"whole"}, step : 0 .. NumIters, nan : BOOLEAN]
MetaFiles  == {Absent, Torn}
  \cup [state : {"whole"}, step : 0 .. NumIters, bpb : Nat]

-----------------------------------------------------------------------------
(* Control: cadences and the next point of the loop. *)

CadenceFires(s, every) ==
  /\ every # 0
  /\ \/ s = NumIters
     \/ s > 0 /\ s % every = 0

LogsAt(s) == s % LogEvery = 0

(* The head of an iteration: evaluate if the cadence fires, else sample. *)
TopPc(s) == IF CadenceFires(s, EvalEvery) THEN "eval" ELSE "sample"

(* canonical_vars: the i-th parameter name in sorted order, whatever the   *)
(* order in which this process's hash map yields them.  Definitions named  *)
(* Mutant... are plausible bugs, used by no specification: each stands in  *)
(* for the definition after it to show that a property would notice.       *)
MutantVarAt(r, i) == order[r][i]
VarAt(r, i) ==
  LET names == Range(order[r])
  IN  CHOOSE v \in names : Cardinality({u \in names : u <= v}) = i

WeightsNan(r) == \E v \in Vars : w[r][v].nanAt # 0

-----------------------------------------------------------------------------
(* Collectives. *)

Call(r) == <<pc[r], IF pc[r] \in {"bcast", "grads"} THEN VarAt(r, vi[r]) ELSE 0>>

AnyNan == \E q \in Ranks : latched[q].nan
NothingScored == \A q \in Ranks : latched[q].n = 0

(* The sum of the ranks' contributions to the validation nats, counted as  *)
(* the cells of a diagram with one row per rank.                           *)
SummedNats ==
  Cardinality({cell \in Ranks \X (1 .. MaxNats) : cell[2] <= latched[cell[1]].n})

(* A rank's host announces its next collective.  The exchange needs every  *)
(* member of the communicator to take part, and take part alive.           *)
Enter(r, point, c) ==
  /\ status[r] = "running" /\ pc[r] = point /\ coll[r] = "out"
  /\ contrib' = [contrib EXCEPT ![r] = c]
  /\ IF \A q \in Ranks \ {r} : coll[q] = "in" /\ status[q] = "running"
     THEN /\ coll' = [q \in Ranks |-> "ready"]
          /\ latched' = contrib'
     ELSE /\ coll' = [coll EXCEPT ![r] = "in"]
          /\ UNCHANGED latched
  /\ UNCHANGED <<hostVars, dataVars, best, ghostVars>>

Leave(r, point) ==
  /\ status[r] = "running" /\ pc[r] = point /\ coll[r] = "ready"
  /\ coll' = [coll EXCEPT ![r] = "out"]
  /\ UNCHANGED <<contrib, latched, order, ghostVars>>

GoTo(r, point) == pc' = [pc EXCEPT ![r] = point]

NextIteration(r) ==
  /\ step' = [step EXCEPT ![r] = @ + 1]
  /\ GoTo(r, TopPc(step[r] + 1))

(* A step of rank r between two collectives. *)
Local(r, point) ==
  /\ status[r] = "running" /\ pc[r] = point /\ coll[r] = "out"
  /\ UNCHANGED <<collVars, order>>

-----------------------------------------------------------------------------
(* Joining the NCCL world: Comm::from_rank returns once every rank of the  *)
(* world has called it (DistCtx::new_nccl, before `train`).                *)

JoinWorld(r) == Enter(r, "join", [nan |-> FALSE, n |-> 0])

WorldJoined(r) ==
  /\ Leave(r, "join")
  /\ GoTo(r, "bcast")
  /\ UNCHANGED <<status, step, vi, minBpb, dataVars, best>>

(* broadcast_vars: one collective per parameter, rank 0 is the root. *)
BroadcastVar(r) ==
  Enter(r, "bcast", [nan |-> FALSE, n |-> w[r][VarAt(r, vi[r])].src])

MutantReceivedInit(r, v) == w[r][v].src
ReceivedInit(r, v) == latched[0].n

Received(r) ==
  [v \in Vars |-> IF v = VarAt(r, vi[r])
                  THEN [src |-> ReceivedInit(r, v), nanAt |-> w[r][v].nanAt]
                  ELSE w[r][v]]

VarBroadcast(r) ==
  /\ Leave(r, "bcast")
  /\ w' = [w EXCEPT ![r] = Received(r)]
  /\ IF vi[r] < NV
     THEN vi' = [vi EXCEPT ![r] = @ + 1] /\ UNCHANGED pc
     ELSE vi' = [vi EXCEPT ![r] = 1] /\ GoTo(r, TopPc(0))
  /\ UNCHANGED <<status, step, minBpb, g, lossNan, cnt, best>>
-----------------------------------------------------------------------------
(* Evaluation: each rank scores batches r, r + W, ... of the shared        *)
(* snapshot, so a rank may have none.                                      *)

HasBatch(r) == r < ValBatches

EvalSums(r) ==
  \E x \in 0 .. MaxNats :
     Enter(r, "eval", IF HasBatch(r) THEN [nan |-> WeightsNan(r), n |-> x]
                                     ELSE [nan |-> FALSE, n |-> 0])

(* metrics_from_sums: no scored byte at all means an infinite bpb. *)
ReducedBpb(r) == IF ValBatches = 0 THEN Infinity ELSE SummedNats

(* `m.bpb < min_val_bpb`, which is false when m.bpb is NaN. *)
MutantImproves(r) == AnyNan \/ ReducedBpb(r) < minBpb[r]
Improves(r)       == ~AnyNan /\ ReducedBpb(r) < minBpb[r]
NewMin(r)         == ReducedBpb(r)

Evaluated(r) ==
  /\ Leave(r, "eval")
  /\ IF Improves(r)
     THEN /\ minBpb' = [minBpb EXCEPT ![r] = NewMin(r)]
          /\ GoTo(r, IF r = 0 THEN "save" ELSE "sample")
     ELSE GoTo(r, "sample") /\ UNCHANGED minBpb
  /\ UNCHANGED <<status, step, vi, dataVars, best>>

(* checkpoint::save on the master: the model file is created, which        *)
(* truncates it, and written; then meta.txt likewise.                      *)
SaveStep(from, to, newBest) ==
  /\ Local(0, from) /\ GoTo(0, to)
  /\ best' = newBest
  /\ UNCHANGED <<status, step, vi, minBpb, dataVars, ghostVars>>

CreateModel == SaveStep("save", "saving", [best EXCEPT !.model = Torn])
WriteModel  == SaveStep("saving", "meta",
                 [best EXCEPT !.model = Model(step[0], WeightsNan(0))])
CreateMeta  == SaveStep("meta", "metaing", [best EXCEPT !.meta = Torn])
WriteMeta   == SaveStep("metaing", "sample",
                 [best EXCEPT !.meta = Meta(step[0], minBpb[0])])

(* The master samples here; then `if last { break }`. *)
Last(r)       == step[r] = NumIters

SampleOrBreak(r) ==
  /\ Local(r, "sample")
  /\ IF Last(r)
     THEN GoTo(r, "end") /\ status' = [status EXCEPT ![r] = "ok"]
     ELSE GoTo(r, "micro") /\ UNCHANGED status
  /\ UNCHANGED <<step, vi, minBpb, dataVars, best, ghostVars>>

-----------------------------------------------------------------------------
(* One optimizer step. *)

(* The grad_accum micro-batches: the loss is non-finite if the weights are *)
(* (or if this pass overflows, which makes every stored gradient NaN), a   *)
(* backward pass may overflow in some parameters only.                     *)
AfterMicro(r) == IF MayIgnore THEN "count" ELSE "grads"

Accumulated(nan, bad, missing) ==
  [v \in Vars |-> IF v \in missing THEN "absent"
                  ELSE IF nan \/ v \in bad THEN "nan" ELSE "finite"]

Pass(r, overflow, bad, missing, c) ==
  LET nan  == overflow \/ WeightsNan(r)
      born == overflow \/ bad # {}
  IN  /\ born => Cardinality(births \cup {step[r]}) <= MaxBirths
      /\ overflow => bad = {}
      /\ step[r] # 0 => missing = {}
      /\ lossNan' = [lossNan EXCEPT ![r] = nan]
      /\ cnt' = [cnt EXCEPT ![r] = c]
      /\ g' = [g EXCEPT ![r] = Accumulated(nan, bad, missing)]
      /\ births' = IF born THEN births \cup {step[r]} ELSE births
      /\ scored' = IF c > 0 THEN scored \cup {step[r]} ELSE scored

MicroBatches(r) ==
  /\ Local(r, "micro")
  /\ \E overflow \in BOOLEAN, bad \in SUBSET Vars, missing \in SUBSET ZeroInit,
        c \in IF MayIgnore THEN {0, 1} ELSE {1} : Pass(r, overflow, bad, missing, c)
  /\ GoTo(r, AfterMicro(r))
  /\ UNCHANGED <<status, step, vi, minBpb, w, best>>

(* all_reduce_sum_tensor(step_count), then the rescale by E W / count: an  *)
(* infinite scale turns a stored zero gradient into NaN.                   *)
CountSum(r) == Enter(r, "count", [nan |-> FALSE, n |-> cnt[r]])

MutantZeroCount(r) == latched[r].n = 0
ZeroCount(r) == NothingScored

Rescaled(r) ==
  [v \in Vars |-> IF ZeroCount(r) /\ g[r][v] # "absent" THEN "nan" ELSE g[r][v]]

CountReduced(r) ==
  /\ Leave(r, "count")
  /\ g' = [g EXCEPT ![r] = Rescaled(r)]
  /\ GoTo(r, "grads")
  /\ UNCHANGED <<status, step, vi, minBpb, w, lossNan, cnt, best>>

(* all_reduce_grads: an absent gradient takes part as zeros and comes back *)
(* stored.                                                                 *)
GradAvg(r) ==
  Enter(r, "grads", [nan |-> g[r][VarAt(r, vi[r])] = "nan", n |-> 0])

MutantReducedGrad(r) == IF latched[r].nan THEN "nan" ELSE "finite"
ReducedGrad(r) == IF AnyNan THEN "nan" ELSE "finite"

Reduced(r) ==
  [v \in Vars |-> IF v = VarAt(r, vi[r]) THEN ReducedGrad(r) ELSE g[r][v]]

GradReduced(r) ==
  /\ Leave(r, "grads")
  /\ g' = [g EXCEPT ![r] = Reduced(r)]
  /\ IF vi[r] < NV
     THEN vi' = [vi EXCEPT ![r] = @ + 1] /\ UNCHANGED pc
     ELSE vi' = [vi EXCEPT ![r] = 1] /\ GoTo(r, "opt")
  /\ UNCHANGED <<status, step, minBpb, w, lossNan, cnt, best>>

Updated(r) ==
  [v \in Vars |-> IF w[r][v].nanAt = 0 /\ g[r][v] = "nan"
                  THEN [src |-> w[r][v].src, nanAt |-> step[r] + 1]
                  ELSE w[r][v]]

OptStep(r) ==
  /\ Local(r, "opt")
  /\ w' = [w EXCEPT ![r] = Updated(r)]
  /\ IF LogsAt(step[r]) THEN GoTo(r, "log") /\ UNCHANGED step
                        ELSE NextIteration(r)
  /\ UNCHANGED <<status, vi, minBpb, g, lossNan, cnt, best, ghostVars>>

(* The logging block: the loss and the count are summed over the ranks,    *)
(* and check_finite returns Err out of `train` on a non-finite mean.       *)
LossSums(r) == Enter(r, "log", [nan |-> lossNan[r], n |-> cnt[r]])

MutantNonFinite(r)        == latched[r].nan \/ latched[r].n = 0
MutantEmptyOnly(r)        == NothingScored
NonFinite(r)              == AnyNan \/ NothingScored

LossReduced(r) ==
  /\ Leave(r, "log")
  /\ IF NonFinite(r)
     THEN /\ status' = [status EXCEPT ![r] = "aborted"]
          /\ GoTo(r, "end") /\ UNCHANGED step
     ELSE NextIteration(r) /\ UNCHANGED status
  /\ UNCHANGED <<vi, minBpb, dataVars, best>>

-----------------------------------------------------------------------------
(* A rank's process ends abnormally where it stands: an Err of any         *)
(* fallible call (next_batch, out of memory, checkpoint::save, sampling),  *)
(* a panic, or a signal.                                                   *)
Die(r, how) ==
  /\ status[r] = "running"
  /\ status' = [status EXCEPT ![r] = how]
  /\ UNCHANGED <<pc, step, vi, order, minBpb, dataVars, collVars, best, ghostVars>>

InitRanks ==
  /\ pc = [r \in Ranks |-> "join"]
  /\ step = [r \in Ranks |-> 0]
  /\ vi = [r \in Ranks |-> 1]
  /\ order \in [Ranks -> Bijection(Vars, Vars)]
  /\ w = [r \in Ranks |-> [v \in Vars |-> [src |-> r, nanAt |-> 0]]]
  /\ g = [r \in Ranks |-> [v \in Vars |-> "absent"]]
  /\ lossNan = [r \in Ranks |-> FALSE]
  /\ cnt = [r \in Ranks |-> 0]
  /\ minBpb = [r \in Ranks |-> Infinity]
  /\ coll = [r \in Ranks |-> "out"]
  /\ contrib = [r \in Ranks |-> [nan |-> FALSE, n |-> 0]]
  /\ latched = [r \in Ranks |-> [nan |-> FALSE, n |-> 0]]
  /\ best = [model |-> Absent, meta |-> Absent]
  /\ births = {} /\ scored = {}

Init == InitRanks /\ status = [r \in Ranks |-> "running"]

Master == CreateModel \/ WriteModel \/ CreateMeta \/ WriteMeta

HostStep(r) ==
  \/ JoinWorld(r) \/ BroadcastVar(r) \/ EvalSums(r) \/ SampleOrBreak(r)
  \/ MicroBatches(r) \/ CountSum(r) \/ GradAvg(r) \/ OptStep(r) \/ LossSums(r)
  \/ r = 0 /\ Master

Returned(r) ==
  \/ WorldJoined(r) \/ VarBroadcast(r) \/ Evaluated(r)
  \/ CountReduced(r) \/ GradReduced(r) \/ LossReduced(r)

Next == \E r \in Ranks : HostStep(r) \/ Returned(r) \/ Die(r, "died")

Spec == Init /\ [][Next]_vars

(* Every process is scheduled, and a collective all of whose members are   *)
(* alive completes on each of them.                                        *)
AllAlive == \A q \in Ranks : status[q] # "died" /\ status[q] # "killed"
Fairness == \A r \in Ranks : /\ WF_vars(HostStep(r))
                             /\ WF_vars(Returned(r) /\ AllAlive)
FairSpec == Spec /\ Fairness

-----------------------------------------------------------------------------
(* Properties. *)

(* Optimizer updates rank r has applied. *)
Applied(r) ==
  IF pc[r] = "log" \/ status[r] = "aborted" THEN step[r] + 1 ELSE step[r]

PastBroadcast(r) == pc[r] \notin {"join", "bcast"}

TypeOK ==
  /\ status \in [Ranks -> Statuses]
  /\ pc \in [Ranks -> Pcs]
  /\ step \in [Ranks -> 0 .. NumIters]
  /\ vi \in [Ranks -> 1 .. NV]
  /\ order \in [Ranks -> Bijection(Vars, Vars)]
  /\ w \in [Ranks -> [Vars -> Weight]]
  /\ g \in [Ranks -> [Vars -> Grads]]
  /\ lossNan \in [Ranks -> BOOLEAN]
  /\ cnt \in [Ranks -> Nat]
  /\ minBpb \in [Ranks -> Nat]
  /\ coll \in [Ranks -> {"out", "in", "ready"}]
  /\ contrib \in [Ranks -> Contribs]
  /\ latched \in [Ranks -> Contribs]
  /\ best \in [model : ModelFiles, meta : MetaFiles]
  /\ births \subseteq 0 .. NumIters - 1
  /\ scored \subseteq 0 .. NumIters - 1

(* Ranks that meet in a collective made the same call: the same operation  *)
(* over the same parameter (the module comment of train/dist.rs: a         *)
(* mismatched reduce would succeed silently).                              *)
CollectivesMatch ==
  \A r, q \in Ranks : coll[r] = coll[q] /\ coll[r] # "out" => Call(r) = Call(q)

(* Two replicas that applied the same number of updates are equal, and     *)
(* every parameter descends from rank 0's initialization.                  *)
ReplicasAgree ==
  \A r, q \in Ranks :
     /\ PastBroadcast(r) /\ PastBroadcast(q) /\ Applied(r) = Applied(q)
     => /\ w[r] = w[q]
        /\ \A v \in Vars : w[r][v].src = 0

(* The control flow on the best bpb is in lockstep: two ranks on the same  *)
(* side of the evaluation of the same step hold the same min_val_bpb.      *)
MinBpbInLockstep ==
  \A r, q \in Ranks :
     step[r] = step[q] /\ (pc[r] = "eval" <=> pc[q] = "eval")
     => minBpb[r] = minBpb[q]

(* Whenever the master is not inside checkpoint::save, best/ is a complete *)
(* checkpoint of one step, with finite weights, at the lowest bpb measured *)
(* so far; or there is none and no finite bpb was measured.                *)
BestIsLowest ==
  pc[0] \notin SavePcs =>
    IF minBpb[0] = Infinity
    THEN best = [model |-> Absent, meta |-> Absent]
    ELSE \E s \in 0 .. step[0] :
            best = [model |-> Model(s, FALSE), meta |-> Meta(s, minBpb[0])]

(* The comment of the logging block: the abort lags by at most log_every   *)
(* steps.  A replica poisoned by the update of step k enters no iteration  *)
(* later than k + log_every.                                               *)
NanAbortLag ==
  \A r \in Ranks, v \in Vars :
     LET k == w[r][v].nanAt - 1
     IN  w[r][v].nanAt # 0 => step[r] <= k + LogEvery

(* The first NaN of a replica comes from a step in which some rank's own   *)
(* pass overflowed or in which no rank had a scored target: a rank that    *)
(* scores nothing contributes zero and poisons nobody.                     *)
NanHasCause ==
  \A r \in Ranks, v \in Vars :
     LET k == w[r][v].nanAt
     IN  k # 0 => \/ k - 1 \in births
                  \/ k - 1 \notin scored
                  \/ \E u \in Vars : w[r][u].nanAt \in 1 .. k - 1

(* check_finite fires on all ranks together: when one has aborted, every   *)
(* other has aborted too or holds the same reduced loss in its hands, and  *)
(* none is left waiting in a later collective.                             *)
AbortIsUnanimous ==
  \A r, q \in Ranks : status[r] = "aborted" =>
     /\ step[q] = step[r]
     /\ \/ status[q] = "aborted"
        \/ pc[q] = "log" /\ coll[q] = "ready"

(* If no rank dies, the whole world ends the run with one verdict: nobody  *)
(* is left hanging in a collective.                                        *)
OneVerdict ==
  []AllAlive => <>(\/ \A r \in Ranks : status[r] = "ok"
                   \/ \A r \in Ranks : status[r] = "aborted")
=============================================================================
