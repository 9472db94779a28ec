--------------------------- MODULE SftStartProofs ---------------------------
(***************************************************************************)
(* For any number of ranks, any files on each of them and any horizon: no  *)
(* rank trains unless all ranks packed the same.  A rank's own comparison  *)
(* does not show this, since the average of different values can be its    *)
(* own; it is that every rank must have passed it before any can train.    *)
(* Then, for any epoch and any micro-batch: the rows that the ranks are    *)
(* served are disjoint, none twice, all inside the epoch.                  *)
(* And the advice of a refused snapshot works: the number it names was     *)
(* counted without the cap, which is what the next attempt falls back on.  *)
(***************************************************************************)
EXTENDS SftStart, FiniteSetTheorems, TLAPS

Points   == {"val", "pack", "agree", "horizon", "bcast", "train"}
Fates    == {"running", "no batch", "lower eval-steps", "scores nothing",
             "packs disagree", "epoch too short", "view exhausted", "ok", "died"}

StartTypes ==
  /\ pack \in [Ranks -> Packs] /\ val \in [Ranks -> ValFiles]
  /\ pc \in [Ranks -> Points] /\ status \in [Ranks -> Fates]
  /\ coll \in [Ranks -> {"out", "in", "ready"}]
  /\ valRows \in [Ranks -> Nat]
  /\ numIters = [r \in Ranks |-> numIters[r]]
  /\ evalSteps \in 1 .. EvalSteps

(* The number --eval-steps can be lowered to. *)
AdviceLowers ==
  \A r \in Ranks : status[r] = "lower eval-steps" =>
     NumBatches(valRows[r], 1) \in 1 .. evalSteps - 1

Past(r)     == pc[r] \in {"horizon", "bcast", "train"}
Released(r) ==
  \/ Past(r)
  \/ pc[r] = "agree" /\ coll[r] = "ready"
  \/ pc[r] = "agree" /\ status[r] = "packs disagree"

(* Only a collective is waited in. *)
WaitsAtCollective ==
  \A r \in Ranks : coll[r] # "out" => pc[r] \in {"agree", "bcast"}

(* The sums are there for all ranks or for none. *)
ReleasedTogether == \A r, q \in Ranks : Released(r) => Released(q)

(* Who is past them found W times its own values in them, *)
PastAgreed ==
  \A r, q \in Ranks : Past(q) /\ pc[r] = "agree" => Agrees(q)

(* like everybody else who is. *)
PastEqual ==
  \A r, q \in Ranks : Past(r) /\ Past(q) =>
     \A i \in 1 .. 5 : W * Local(r)[i] = W * Local(q)[i]

HorizonFixed ==
  \A r \in Ranks : pc[r] \in {"bcast", "train"} => numIters[r] = Horizon(r)

(* The broadcast completes with all ranks, so they have all passed. *)
AllJoin ==
  \A r, q \in Ranks :
     pc[r] = "train" \/ (pc[r] = "bcast" /\ coll[r] = "ready")
        => pc[q] \in {"bcast", "train"}

StartInv ==
  /\ StartTypes /\ AdviceLowers /\ WaitsAtCollective /\ ReleasedTogether
  /\ PastAgreed /\ PastEqual /\ HorizonFixed /\ AllJoin

ControlInv == StartTypes /\ AdviceLowers /\ WaitsAtCollective

-----------------------------------------------------------------------------
(* Arithmetic. *)

LEMMA Cancel ==
  ASSUME NEW x \in Nat, NEW y \in Nat, W * x = W * y
  PROVE  x = y
<1>1. W \in Nat /\ W > 0
  BY StartAssumption
<1>2. CASE x < y
  <2>1. PICK d \in Nat : y = x + d /\ d > 0
    <3>1. y - x \in Nat /\ y = x + (y - x) /\ y - x > 0
      BY <1>2
    <3>2. QED
      BY <3>1
  <2>2. W * y = W * x + W * d /\ W * d > 0
    BY <1>1, <2>1
  <2>3. W * x \in Nat /\ W * d \in Nat
    BY <1>1, <2>1
  <2>4. QED
    BY <2>2, <2>3
<1>3. CASE y < x
  <2>1. PICK d \in Nat : x = y + d /\ d > 0
    <3>1. x - y \in Nat /\ x = y + (x - y) /\ x - y > 0
      BY <1>3
    <3>2. QED
      BY <3>1
  <2>2. W * x = W * y + W * d /\ W * d > 0
    BY <1>1, <2>1
  <2>3. W * y \in Nat /\ W * d \in Nat
    BY <1>1, <2>1
  <2>4. QED
    BY <2>2, <2>3
<1>4. QED
  BY <1>2, <1>3

(* A snapshot has a number of rows, however it was packed. *)
LEMMA ValPackIsNat ==
  ASSUME StartTypes, NEW r \in Ranks
  PROVE  ValPack(r) \in Nat
<1>1. /\ val[r].full \in Nat
      /\ val[r].capped[evalSteps] \in Nat
  BY StartAssumption DEF StartTypes
<1>2. QED
  BY <1>1 DEF ValPack, CappedRows

-----------------------------------------------------------------------------
(* What the properties of the ranks' agreement depend on. *)

(* A step that changes neither the values nor the sums, and lets no rank   *)
(* get past them or into the broadcast, keeps what was agreed on.          *)
LEMMA AgreementKept ==
  ASSUME ReleasedTogether, PastAgreed, PastEqual, HorizonFixed, AllJoin,
         UNCHANGED <<pack, latched>>,
         \A q \in Ranks : Released(q)' <=> Released(q),
         \A q \in Ranks : Past(q)' <=> Past(q),
         \A q \in Ranks : Past(q) => valRows'[q] = valRows[q],
         \A q \in Ranks : pc'[q] = "agree" => pc[q] = "agree" \/ ~Released(q),
         \A q \in Ranks : pc'[q] \in {"bcast", "train"} =>
                            \/ pc[q] \in {"bcast", "train"} /\ numIters'[q] = numIters[q]
                            \/ numIters'[q] = Horizon(q),
         \A q \in Ranks : pc[q] \in {"bcast", "train"} => pc'[q] \in {"bcast", "train"},
         \A q \in Ranks : pc'[q] = "train" \/ (pc'[q] = "bcast" /\ coll'[q] = "ready")
                       => pc[q] = "train" \/ (pc[q] = "bcast" /\ coll[q] = "ready")
  PROVE  ReleasedTogether' /\ PastAgreed' /\ PastEqual' /\ HorizonFixed' /\ AllJoin'
<1>1. ReleasedTogether'
  BY DEF ReleasedTogether
<1>2. PastAgreed'
  <2> SUFFICES ASSUME NEW r \in Ranks, NEW q \in Ranks, Past(q)', (pc[r] = "agree")'
               PROVE  Agrees(q)'
    BY DEF PastAgreed
  <2>1. Past(q) /\ Released(q)
    BY DEF Released
  <2>2. pc[r] = "agree"
    BY <2>1 DEF ReleasedTogether
  <2>3. Agrees(q)
    BY <2>1, <2>2 DEF PastAgreed
  <2>4. Local(q)' = Local(q)
    BY <2>1 DEF Local
  <2>5. QED
    BY <2>3, <2>4 DEF Agrees
<1>3. PastEqual'
  <2> SUFFICES ASSUME NEW r \in Ranks, NEW q \in Ranks, Past(r)', Past(q)', NEW i \in 1 .. 5
               PROVE  W * Local(r)'[i] = W * Local(q)'[i]
    BY DEF PastEqual
  <2>1. Past(r) /\ Past(q)
    OBVIOUS
  <2>2. Local(q)' = Local(q) /\ Local(r)' = Local(r)
    BY <2>1 DEF Local
  <2>3. QED
    BY <2>1, <2>2 DEF PastEqual
<1>4. HorizonFixed'
  <2> SUFFICES ASSUME NEW q \in Ranks, pc'[q] \in {"bcast", "train"}
               PROVE  numIters'[q] = Horizon(q)'
    BY DEF HorizonFixed
  <2>1. Horizon(q)' = Horizon(q)
    BY DEF Horizon, EpochIters, NumBatches
  <2>2. QED
    BY <2>1 DEF HorizonFixed
<1>5. AllJoin'
  BY DEF AllJoin
<1>6. QED
  BY <1>1, <1>2, <1>3, <1>4, <1>5

LEMMA ControlKept ==
  ASSUME ControlInv, NEW r \in Ranks,
         UNCHANGED <<pack, val, evalSteps>>,
         pc' \in [Ranks -> Points], status' \in [Ranks -> Fates],
         coll' \in [Ranks -> {"out", "in", "ready"}],
         numIters' = [q \in Ranks |-> numIters'[q]],
         UNCHANGED valRows,
         \A q \in Ranks : status'[q] = "lower eval-steps" => status[q] = "lower eval-steps",
         \A q \in Ranks : coll'[q] # "out" => pc'[q] \in {"agree", "bcast"}
  PROVE  ControlInv'
<1>1. StartTypes'
  BY DEF ControlInv, StartTypes
<1>2. AdviceLowers'
  BY DEF ControlInv, AdviceLowers, NumBatches
<1>3. WaitsAtCollective'
  BY DEF WaitsAtCollective
<1>4. QED
  BY <1>1, <1>2, <1>3 DEF ControlInv

LEMMA InitStart == Init => StartInv
<1> SUFFICES ASSUME Init PROVE StartInv
  OBVIOUS
<1>1. StartTypes
  BY StartAssumption DEF Init, StartTypes, Points, Fates
<1>2. AdviceLowers /\ WaitsAtCollective
  BY DEF Init, AdviceLowers, WaitsAtCollective
<1>3. \A r \in Ranks : ~Past(r) /\ ~Released(r) /\ pc[r] = "val"
  BY DEF Init, Past, Released
<1>4. QED
  BY <1>1, <1>2, <1>3
     DEF StartInv, ReleasedTogether, PastAgreed, PastEqual, HorizonFixed, AllJoin

LEMMA SizeSnapshotKeeps ==
  ASSUME StartInv, NEW r \in Ranks, SizeSnapshot(r)
  PROVE  StartInv'
<1> USE DEF StartInv
<1>1. /\ pc[r] = "val" /\ status[r] = "running"
      /\ valRows' = [valRows EXCEPT ![r] = ValPack(r)]
      /\ UNCHANGED <<pack, val, coll, latched, numIters, served, evalSteps, advised>>
  BY DEF SizeSnapshot, Running, files
<1> DEFINE batches == NumBatches(ValPack(r), 1)
<1>2. \/ status' = [status EXCEPT ![r] = "no batch"] /\ pc' = pc
      \/ /\ batches \in 1 .. evalSteps - 1
         /\ status' = [status EXCEPT ![r] = "lower eval-steps"] /\ pc' = pc
      \/ pc' = [pc EXCEPT ![r] = "pack"] /\ status' = status
  BY DEF SizeSnapshot, GoTo, Bail
<1>3. coll[r] = "out"
  BY <1>1 DEF WaitsAtCollective, StartTypes
<1>4. StartTypes'
  BY <1>1, <1>2, ValPackIsNat DEF StartTypes, Points, Fates
<1>5. AdviceLowers'
  <2> SUFFICES ASSUME NEW q \in Ranks, status'[q] = "lower eval-steps"
               PROVE  NumBatches(valRows'[q], 1) \in 1 .. evalSteps - 1
    BY <1>1 DEF AdviceLowers, NumBatches
  <2>1. CASE q = r
    <3>1. valRows'[r] = ValPack(r)
      BY <1>1 DEF StartTypes
    <3>2. batches \in 1 .. evalSteps - 1
      BY <1>1, <1>2, <2>1 DEF StartTypes
    <3>3. QED
      BY <2>1, <3>1, <3>2
  <2>2. CASE q # r
    <3>1. status[q] = "lower eval-steps" /\ valRows'[q] = valRows[q]
      BY <1>1, <1>2, <2>2 DEF StartTypes
    <3>2. QED
      BY <3>1 DEF AdviceLowers
  <2>3. QED
    BY <2>1, <2>2
<1>6. WaitsAtCollective'
  BY <1>1, <1>2, <1>3 DEF WaitsAtCollective, StartTypes
<1>7. ReleasedTogether' /\ PastAgreed' /\ PastEqual' /\ HorizonFixed' /\ AllJoin'
  <2>1. \A q \in Ranks : Past(q)' <=> Past(q)
    BY <1>1, <1>2 DEF Past, StartTypes
  <2>2. \A q \in Ranks : Released(q)' <=> Released(q)
    BY <1>1, <1>2, <1>3, <2>1 DEF Released, StartTypes
  <2>3. \A q \in Ranks : Past(q) => valRows'[q] = valRows[q]
    BY <1>1 DEF Past, StartTypes
  <2>4. \A q \in Ranks : pc'[q] = pc[q] \/ (q = r /\ pc'[q] = "pack")
    BY <1>1, <1>2 DEF StartTypes
  <2>5. QED
    BY <1>1, <2>1, <2>2, <2>3, <2>4, AgreementKept DEF HorizonFixed
<1>8. QED
  BY <1>4, <1>5, <1>6, <1>7

LEMMA PackTrainKeeps ==
  ASSUME StartInv, NEW r \in Ranks, PackTrain(r)
  PROVE  StartInv'
<1> USE DEF StartInv
<1>1. /\ pc[r] = "pack" /\ status[r] = "running"
      /\ UNCHANGED <<pack, val, valRows, coll, latched, numIters, evalSteps>>
      /\ \/ status' = [status EXCEPT ![r] = "scores nothing"] /\ pc' = pc
         \/ pc' = [pc EXCEPT ![r] = AfterPack(r)] /\ status' = status
  BY DEF PackTrain, Running, files, GoTo, Bail
<1>2. coll[r] = "out"
  BY <1>1 DEF WaitsAtCollective, StartTypes
<1>3. AfterPack(r) = (IF W > 1 THEN "agree" ELSE "horizon")
  BY DEF AfterPack
<1>4. ControlInv'
  BY <1>1, <1>2, <1>3, ControlKept
     DEF ControlInv, WaitsAtCollective, StartTypes, Points, Fates
<1>5. CASE W > 1
  <2>1. \A q \in Ranks : Past(q)' <=> Past(q)
    BY <1>1, <1>3, <1>5 DEF Past, StartTypes
  <2>2. \A q \in Ranks : Released(q)' <=> Released(q)
    BY <1>1, <1>2, <1>3, <1>5, <2>1 DEF Released, StartTypes
  <2>3. ~Released(r)
    BY <1>1 DEF Released, Past
  <2>4. \A q \in Ranks : pc'[q] = pc[q] \/ (q = r /\ pc'[q] \in {"pack", "agree"})
    BY <1>1, <1>3, <1>5 DEF StartTypes
  <2>5. QED
    BY <1>1, <1>4, <2>1, <2>2, <2>3, <2>4, AgreementKept DEF HorizonFixed, ControlInv
<1>6. CASE ~(W > 1)
  <2>1. \A q \in Ranks : q = r
    BY <1>6, StartAssumption DEF Ranks
  <2>2. pc'[r] \in {"pack", "horizon"}
    BY <1>1, <1>3, <1>6 DEF StartTypes
  <2>3. ReleasedTogether' /\ PastAgreed' /\ PastEqual' /\ HorizonFixed' /\ AllJoin'
    BY <2>1, <2>2
       DEF ReleasedTogether, PastAgreed, PastEqual, HorizonFixed, AllJoin
  <2>4. QED
    BY <1>4, <2>3 DEF ControlInv
<1>7. QED
  BY <1>5, <1>6

(* A rank that enters a collective waits in it, or completes it with all   *)
(* others: by what is released together, all of them at the same one.      *)
LEMMA EnterKeeps ==
  ASSUME StartInv, NEW r \in Ranks, NEW c,
         NEW point \in {"agree", "bcast"}, Enter(r, point, c)
  PROVE  StartInv'
<1> USE DEF StartInv
<1>1. /\ pc[r] = point /\ status[r] = "running" /\ coll[r] = "out"
      /\ UNCHANGED <<pack, val, pc, status, valRows, numIters, evalSteps>>
  BY DEF Enter, Running, files
<1>2. \/ coll' = [coll EXCEPT ![r] = "in"] /\ latched' = latched
      \/ /\ \A q \in Ranks \ {r} : coll[q] = "in" /\ status[q] = "running"
         /\ coll' = [q \in Ranks |-> "ready"]
  BY DEF Enter
<1>3. CASE coll' = [coll EXCEPT ![r] = "in"] /\ latched' = latched
  <2>1. ControlInv'
    BY <1>1, <1>3, ControlKept DEF ControlInv, WaitsAtCollective, StartTypes
  <2>2. \A q \in Ranks : Past(q)' <=> Past(q)
    BY <1>1 DEF Past
  <2>3. \A q \in Ranks : coll'[q] = "ready" <=> coll[q] = "ready"
    BY <1>1, <1>3 DEF StartTypes
  <2>4. \A q \in Ranks : Released(q)' <=> Released(q)
    BY <1>1, <2>2, <2>3 DEF Released
  <2>5. QED
    BY <1>1, <1>3, <2>1, <2>2, <2>3, <2>4, AgreementKept DEF HorizonFixed, ControlInv
<1>4. CASE /\ \A q \in Ranks \ {r} : coll[q] = "in" /\ status[q] = "running"
           /\ coll' = [q \in Ranks |-> "ready"]
  <2>1. \A q \in Ranks : coll[q] # "ready" /\ status[q] = "running"
    BY <1>1, <1>4
  <2>2. \A q \in Ranks : Released(q) <=> Past(q)
    BY <2>1 DEF Released
  <2>3. \A q \in Ranks : pc[q] \in {"agree", "bcast"}
    BY <1>1, <1>4 DEF WaitsAtCollective
  <2>4. \A q \in Ranks : pc[q] = point
    BY <1>1, <2>2, <2>3 DEF ReleasedTogether, Past
  <2>5. ControlInv'
    BY <1>1, <1>4, <2>3, ControlKept DEF ControlInv, StartTypes
  <2>6. \A q \in Ranks : pc'[q] = point /\ coll'[q] = "ready"
    BY <1>1, <1>4, <2>4
  <2>7. CASE point = "agree"
    <3>1. \A q \in Ranks : ~Past(q)' /\ Released(q)'
      BY <2>6, <2>7 DEF Past, Released
    <3>2. QED
      BY <2>5, <2>6, <2>7, <3>1
         DEF ControlInv, ReleasedTogether, PastAgreed, PastEqual, HorizonFixed, AllJoin
  <2>8. CASE point = "bcast"
    <3>1. \A q \in Ranks : Past(q)' /\ Released(q)' /\ Past(q)
      BY <2>4, <2>6, <2>8 DEF Past, Released
    <3>2. PastEqual'
      <4>1. \A q \in Ranks : Local(q)' = Local(q)
        BY <1>1 DEF Local
      <4>2. QED
        BY <3>1, <4>1 DEF PastEqual
    <3>3. HorizonFixed'
      <4>1. \A q \in Ranks : Horizon(q)' = Horizon(q)
        BY <1>1 DEF Horizon, EpochIters, NumBatches
      <4>2. QED
        BY <1>1, <4>1 DEF HorizonFixed
    <3>4. ReleasedTogether' /\ PastAgreed' /\ AllJoin'
      BY <2>6, <2>8, <3>1 DEF ReleasedTogether, PastAgreed, AllJoin
    <3>5. QED
      BY <2>5, <3>2, <3>3, <3>4 DEF ControlInv
  <2>9. QED
    BY <2>7, <2>8
<1>5. QED
  BY <1>2, <1>3, <1>4

(* The one place where a rank gets past the sums: it found W times its     *)
(* values in the sums in which the others found W times theirs.            *)
LEMMA PacksCheckedKeeps ==
  ASSUME StartInv, NEW r \in Ranks, PacksChecked(r)
  PROVE  StartInv'
<1> USE DEF StartInv
<1>1. /\ pc[r] = "agree" /\ status[r] = "running" /\ coll[r] = "ready"
      /\ coll' = [coll EXCEPT ![r] = "out"]
      /\ UNCHANGED <<pack, val, valRows, latched, numIters, evalSteps>>
      /\ \/ Agrees(r) /\ pc' = [pc EXCEPT ![r] = "horizon"] /\ status' = status
         \/ status' = [status EXCEPT ![r] = "packs disagree"] /\ pc' = pc
  BY DEF PacksChecked, Leave, Running, files, GoTo, Bail
<1>2. ControlInv'
  BY <1>1, ControlKept DEF ControlInv, WaitsAtCollective, StartTypes, Points, Fates
<1>3. CASE status' = [status EXCEPT ![r] = "packs disagree"] /\ pc' = pc
  <2>1. \A q \in Ranks : Past(q)' <=> Past(q)
    BY <1>3 DEF Past
  <2>2. \A q \in Ranks : Released(q)' <=> Released(q)
    BY <1>1, <1>3, <2>1 DEF Released, StartTypes
  <2>3. \A q \in Ranks : coll'[q] = "ready" => coll[q] = "ready"
    BY <1>1 DEF StartTypes
  <2>4. QED
    BY <1>1, <1>2, <1>3, <2>1, <2>2, <2>3, AgreementKept DEF HorizonFixed, ControlInv
<1>4. CASE Agrees(r) /\ pc' = [pc EXCEPT ![r] = "horizon"] /\ status' = status
  <2>1. /\ pc'[r] = "horizon" /\ pc[r] = "agree" /\ coll'[r] = "out"
        /\ \A q \in Ranks \ {r} : pc'[q] = pc[q] /\ coll'[q] = coll[q]
    BY <1>1, <1>4 DEF StartTypes
  <2>2. \A q \in Ranks : Past(q)' => q = r \/ Past(q)
    BY <2>1 DEF Past
  <2>3. \A q \in Ranks : Local(q)' = Local(q) /\ (Agrees(q) => Agrees(q)')
    BY <1>1 DEF Local, Agrees
  <2>4. \A q \in Ranks : Past(q)' => Agrees(q)
    BY <1>1, <1>4, <2>2 DEF PastAgreed
  <2>5. PastAgreed'
    BY <2>3, <2>4 DEF PastAgreed
  <2>6. PastEqual'
    BY <2>3, <2>4 DEF PastEqual, Agrees
  <2>7. ReleasedTogether'
    <3>1. \A q \in Ranks : Released(q)
      BY <1>1 DEF ReleasedTogether, Released
    <3>2. \A q \in Ranks : Released(q)'
      BY <1>4, <2>1, <3>1 DEF Released, Past
    <3>3. QED
      BY <3>2 DEF ReleasedTogether
  <2>8. HorizonFixed'
    <3>1. \A q \in Ranks : Horizon(q)' = Horizon(q)
      BY <1>1 DEF Horizon, EpochIters, NumBatches
    <3>2. QED
      BY <1>1, <2>1, <3>1 DEF HorizonFixed
  <2>9. AllJoin'
    BY <2>1 DEF AllJoin
  <2>10. QED
    BY <1>2, <2>5, <2>6, <2>7, <2>8, <2>9 DEF ControlInv
<1>5. QED
  BY <1>1, <1>3, <1>4

LEMMA FixHorizonKeeps ==
  ASSUME StartInv, NEW r \in Ranks, FixHorizon(r)
  PROVE  StartInv'
<1> USE DEF StartInv
<1>1. /\ pc[r] = "horizon" /\ status[r] = "running"
      /\ UNCHANGED <<pack, val, valRows, coll, latched, evalSteps>>
      /\ \/ /\ numIters' = [numIters EXCEPT ![r] = Horizon(r)]
            /\ pc' = [pc EXCEPT ![r] = "bcast"] /\ status' = status
         \/ status' = [status EXCEPT ![r] = "epoch too short"] /\ pc' = pc
            /\ numIters' = numIters
  BY DEF FixHorizon, Running, files, GoTo, Bail
<1>2. coll[r] = "out"
  BY <1>1 DEF WaitsAtCollective, StartTypes
<1>3. numIters' = [q \in Ranks |-> numIters'[q]]
  <2>1. numIters = [q \in Ranks |-> numIters[q]]
    BY DEF StartTypes
  <2>2. QED
    BY <1>1, <2>1
<1>4. ControlInv'
  BY <1>1, <1>2, <1>3, ControlKept
     DEF ControlInv, WaitsAtCollective, StartTypes, Points, Fates
<1>5. \A q \in Ranks : \/ pc'[q] = pc[q] /\ numIters'[q] = numIters[q]
                       \/ q = r /\ pc'[q] = "bcast" /\ numIters'[q] = Horizon(q)
  <2>1. numIters = [q \in Ranks |-> numIters[q]]
    BY DEF StartTypes
  <2>2. QED
    BY <1>1, <2>1 DEF StartTypes
<1>6. \A q \in Ranks : Past(q)' <=> Past(q)
  BY <1>1, <1>5 DEF Past
<1>7. \A q \in Ranks : Released(q)' <=> Released(q)
  BY <1>1, <1>2, <1>5, <1>6 DEF Released, StartTypes
<1>8. QED
  BY <1>1, <1>2, <1>4, <1>5, <1>6, <1>7, AgreementKept DEF HorizonFixed, ControlInv

LEMMA BroadcastedKeeps ==
  ASSUME StartInv, NEW r \in Ranks, Broadcasted(r)
  PROVE  StartInv'
<1> USE DEF StartInv
<1>1. /\ pc[r] = "bcast" /\ status[r] = "running" /\ coll[r] = "ready"
      /\ coll' = [coll EXCEPT ![r] = "out"] /\ pc' = [pc EXCEPT ![r] = "train"]
      /\ UNCHANGED <<pack, val, status, valRows, latched, numIters, evalSteps>>
  BY DEF Broadcasted, Leave, Running, files, GoTo
<1>2. ControlInv'
  BY <1>1, ControlKept DEF ControlInv, WaitsAtCollective, StartTypes, Points, Fates
<1>3. \A q \in Ranks : \/ pc'[q] = pc[q] /\ coll'[q] = coll[q]
                       \/ q = r /\ pc'[q] = "train"
  BY <1>1 DEF StartTypes
<1>4. \A q \in Ranks : Past(q)' <=> Past(q)
  BY <1>1, <1>3 DEF Past
<1>5. \A q \in Ranks : Released(q)' <=> Released(q)
  BY <1>1, <1>3, <1>4 DEF Released
<1>6. QED
  BY <1>1, <1>2, <1>3, <1>4, <1>5, AgreementKept DEF HorizonFixed, ControlInv

(* Steps that move no rank to another point of `run`. *)
LEMMA StayKeeps ==
  ASSUME StartInv, NEW r \in Ranks,
         status[r] = "running" /\ status' \in {status, [status EXCEPT ![r] = "died"],
            [status EXCEPT ![r] = "ok"], [status EXCEPT ![r] = "view exhausted"]},
         UNCHANGED <<pack, val, pc, coll, valRows, latched, numIters, evalSteps>>
  PROVE  StartInv'
<1> USE DEF StartInv
<1>1. \A q \in Ranks :
        status'[q] = status[q] \/ (q = r /\ status'[q] \in {"died", "ok", "view exhausted"})
  BY DEF StartTypes
<1>2. ControlInv'
  BY <1>1, ControlKept DEF ControlInv, WaitsAtCollective, StartTypes, Points, Fates
<1>3. \A q \in Ranks : Past(q)' <=> Past(q)
  BY DEF Past
<1>4. \A q \in Ranks : Released(q)' <=> Released(q)
  BY <1>1, <1>3 DEF Released
<1>5. QED
  BY <1>2, <1>3, <1>4, AgreementKept DEF HorizonFixed, ControlInv

LEMMA FollowAdviceKeeps ==
  ASSUME StartInv, NEW r \in Ranks, FollowAdvice(r)
  PROVE  StartInv'
<1> USE DEF StartInv
<1>1. /\ evalSteps' = NumBatches(valRows[r], 1)
      /\ pc' = [q \in Ranks |-> "val"] /\ status' = [q \in Ranks |-> "running"]
      /\ valRows' = [q \in Ranks |-> 0] /\ coll' = [q \in Ranks |-> "out"]
      /\ UNCHANGED <<pack, val, numIters>>
  BY DEF FollowAdvice, files
<1>2. evalSteps' \in 1 .. EvalSteps
  <2>1. NumBatches(valRows[r], 1) \in 1 .. evalSteps - 1
    BY DEF AdviceLowers, FollowAdvice
  <2>2. evalSteps \in 1 .. EvalSteps /\ EvalSteps \in Nat
    BY StartAssumption DEF StartTypes
  <2>3. QED
    BY <1>1, <2>1, <2>2
<1>3. StartTypes'
  BY <1>1, <1>2 DEF StartTypes, Points, Fates
<1>4. AdviceLowers' /\ WaitsAtCollective'
  BY <1>1 DEF AdviceLowers, WaitsAtCollective
<1>5. \A q \in Ranks : ~Past(q)' /\ ~Released(q)' /\ pc'[q] = "val"
  BY <1>1 DEF Past, Released
<1>6. QED
  BY <1>3, <1>4, <1>5
     DEF ReleasedTogether, PastAgreed, PastEqual, HorizonFixed, AllJoin

LEMMA StartStep == StartInv /\ [Next]_vars => StartInv'
<1> SUFFICES ASSUME StartInv, [Next]_vars PROVE StartInv'
  OBVIOUS
<1>1. ASSUME NEW r \in Ranks, SizeSnapshot(r) PROVE StartInv'
  BY <1>1, SizeSnapshotKeeps
<1>2. ASSUME NEW r \in Ranks, PackTrain(r) PROVE StartInv'
  BY <1>2, PackTrainKeeps
<1>3. ASSUME NEW r \in Ranks, CheckPacks(r) PROVE StartInv'
  BY <1>3, EnterKeeps DEF CheckPacks
<1>4. ASSUME NEW r \in Ranks, PacksChecked(r) PROVE StartInv'
  BY <1>4, PacksCheckedKeeps
<1>5. ASSUME NEW r \in Ranks, FixHorizon(r) PROVE StartInv'
  BY <1>5, FixHorizonKeeps
<1>6. ASSUME NEW r \in Ranks, Broadcast(r) PROVE StartInv'
  BY <1>6, EnterKeeps DEF Broadcast
<1>7. ASSUME NEW r \in Ranks, Broadcasted(r) PROVE StartInv'
  BY <1>7, BroadcastedKeeps
<1>8. ASSUME NEW r \in Ranks, NextBatch(r) PROVE StartInv'
  BY <1>8, StayKeeps DEF NextBatch, Running, Bail, files
<1>9. ASSUME NEW r \in Ranks, Finish(r) PROVE StartInv'
  BY <1>9, StayKeeps DEF Finish, Running, Bail, files
<1>10. ASSUME NEW r \in Ranks, Die(r) PROVE StartInv'
  BY <1>10, StayKeeps DEF Die, Bail, files
<1>11. ASSUME NEW r \in Ranks, FollowAdvice(r) PROVE StartInv'
  BY <1>11, FollowAdviceKeeps
<1>12. CASE UNCHANGED vars
  <2>1. UNCHANGED <<pack, val, pc, status, valRows, coll, latched, numIters, evalSteps>>
    BY <1>12 DEF vars, files
  <2>2. StartTypes' /\ AdviceLowers' /\ WaitsAtCollective'
    BY <2>1 DEF StartInv, StartTypes, AdviceLowers, WaitsAtCollective
  <2>3. \A q \in Ranks : Past(q)' <=> Past(q)
    BY <2>1 DEF Past
  <2>4. \A q \in Ranks : Released(q)' <=> Released(q)
    BY <2>1, <2>3 DEF Released
  <2>5. QED
    BY <2>1, <2>2, <2>3, <2>4, AgreementKept DEF StartInv, HorizonFixed
<1>13. QED
  BY <1>1, <1>2, <1>3, <1>4, <1>5, <1>6, <1>7, <1>8, <1>9, <1>10, <1>11, <1>12
     DEF Next, RankStep

-----------------------------------------------------------------------------
(* The inductive invariant of the start. *)
THEOREM StartInvariant == Spec => []StartInv
BY InitStart, StartStep, PTL DEF Spec

(* No rank trains unless all ranks built the same packs and are to train   *)
(* for the same number of iterations.                                      *)
THEOREM NeverUpdatesOnDisagreement == Spec => []NoUpdateOnDisagreement
<1>1. StartInv => NoUpdateOnDisagreement
  <2> SUFFICES ASSUME StartInv, NEW r \in Ranks, NEW q \in Ranks, Training(r)
               PROVE  Local(r) = Local(q) /\ numIters[r] = numIters[q]
    BY DEF NoUpdateOnDisagreement
  <2> USE DEF StartInv
  <2>1. pc[r] = "train" /\ pc[q] \in {"bcast", "train"} /\ Past(r) /\ Past(q)
    BY DEF Training, AllJoin, Past
  <2>2. \A i \in 1 .. 5 : W * Local(r)[i] = W * Local(q)[i]
    BY <2>1 DEF PastEqual
  <2>3. \A k \in Ranks : /\ pack[k].rows \in Nat /\ pack[k].pads \in Nat
                         /\ pack[k].scored \in Nat /\ pack[k].digest \in Nat
                         /\ valRows[k] \in Nat
    <3> SUFFICES ASSUME NEW k \in Ranks
                 PROVE  /\ pack[k].rows \in Nat /\ pack[k].pads \in Nat
                        /\ pack[k].scored \in Nat /\ pack[k].digest \in Nat
                        /\ valRows[k] \in Nat
      OBVIOUS
    <3>1. pack[k] \in Packs /\ valRows[k] \in Nat
      BY DEF StartTypes
    <3>2. pack[k] \in [rows : Nat, pads : Nat, scored : Nat, digest : Nat]
      BY <3>1, StartAssumption
    <3>3. QED
      BY <3>1, <3>2
  <2>4. /\ W * pack[r].rows = W * pack[q].rows /\ W * pack[r].pads = W * pack[q].pads
        /\ W * pack[r].scored = W * pack[q].scored
        /\ W * pack[r].digest = W * pack[q].digest
        /\ W * valRows[r] = W * valRows[q]
    BY <2>2 DEF Local
  <2>5. /\ pack[r].rows = pack[q].rows /\ pack[r].pads = pack[q].pads
        /\ pack[r].scored = pack[q].scored /\ pack[r].digest = pack[q].digest
        /\ valRows[r] = valRows[q]
    BY <2>3, <2>4, Cancel
  <2>6. Horizon(r) = Horizon(q)
    BY <2>5 DEF Horizon, EpochIters, NumBatches
  <2>7. QED
    BY <2>1, <2>5, <2>6 DEF Local, HorizonFixed
<1>2. QED
  BY <1>1, StartInvariant, PTL
-----------------------------------------------------------------------------
(* The rows each rank is served. *)

(* A view of a fixed pack: NextBatch stops at its end, and the horizon     *)
(* never asks for more.                                                    *)
ServedInv ==
  /\ served \in [Ranks -> Nat]
  /\ \A r \in Ranks : served[r] <= NumBatches(pack[r].rows, W)
  /\ \A r \in Ranks : status[r] # "view exhausted"
  /\ \A r \in Ranks : pc[r] \in {"bcast", "train"} => HorizonOK(r)

RowsInv == StartInv /\ ServedInv

LEMMA Division ==
  ASSUME NEW a \in Nat, NEW b \in Nat, b > 0
  PROVE  a \div b \in Nat /\ (a \div b) * b <= a
<1>1. a \div b \in Nat /\ a % b \in 0 .. b - 1 /\ a = b * (a \div b) + (a % b)
  OBVIOUS
<1>2. PICK q \in Nat : q = a \div b
  BY <1>1
<1>3. b * q = q * b /\ b * q \in Nat
  BY <1>2
<1>4. QED
  BY <1>1, <1>2, <1>3

LEMMA Monotone ==
  ASSUME NEW a \in Nat, NEW b \in Nat, NEW c \in Nat, a <= b
  PROVE  a * c <= b * c
<1>1. PICK d \in Nat : b = a + d
  <2>1. b - a \in Nat /\ b = a + (b - a)
    OBVIOUS
  <2>2. QED
    BY <2>1
<1>2. b * c = a * c + d * c /\ d * c \in Nat /\ a * c \in Nat
  BY <1>1
<1>3. QED
  BY <1>2

(* A position in a matrix of width c is one row and one column. *)
LEMMA Places ==
  ASSUME NEW c \in Nat, NEW x \in Nat, NEW y \in Nat, NEW n \in 0 .. c - 1, NEW m \in 0 .. c - 1,
         x * c + n = y * c + m
  PROVE  x = y /\ n = m
<1>1. ASSUME NEW u \in Nat, NEW v \in Nat, u < v,
             NEW k \in 0 .. c - 1, NEW l \in 0 .. c - 1
      PROVE  u * c + k < v * c + l
  <2>1. (u + 1) * c <= v * c
    <3>1. u + 1 \in Nat /\ u + 1 <= v
      BY <1>1
    <3>2. QED
      BY <3>1, Monotone
  <2>2. (u + 1) * c = u * c + c /\ u * c \in Nat /\ v * c \in Nat
    OBVIOUS
  <2>3. QED
    BY <2>1, <2>2
<1>2. ~(x < y) /\ ~(y < x)
  <2>1. x * c + n \in Nat /\ y * c + m \in Nat
    OBVIOUS
  <2>2. QED
    BY <1>1, <2>1
<1>3. x = y
  BY <1>2
<1>4. x * c \in Nat
  OBVIOUS
<1>5. QED
  BY <1>3, <1>4

(* Row x * c + n of a matrix of width c lies before row v. *)
LEMMA Before ==
  ASSUME NEW c \in Nat, NEW x \in Nat, NEW v \in Nat, x < v, NEW n \in 0 .. c - 1
  PROVE  x * c + n \in 0 .. v * c - 1
<1>1. x + 1 \in Nat /\ x + 1 <= v
  OBVIOUS
<1>2. (x + 1) * c <= v * c
  BY <1>1, Monotone
<1>3. (x + 1) * c = x * c + c /\ x * c \in Nat /\ v * c \in Nat
  OBVIOUS
<1>4. QED
  BY <1>2, <1>3

(* The horizon ends before the epoch does. *)
LEMMA HorizonFits ==
  ASSUME NEW r \in Ranks, pack[r].rows \in Nat, HorizonOK(r)
  PROVE  Horizon(r) * GradAccum <= NumBatches(pack[r].rows, W)
<1> DEFINE batches == NumBatches(pack[r].rows, W)
<1>1. W * DeviceBatch \in Nat /\ W * DeviceBatch > 0
  BY StartAssumption
<1>2. batches \in Nat
  BY <1>1, Division DEF NumBatches
<1> HIDE DEF batches
<1>3. EpochIters(r) = batches \div GradAccum
  BY DEF EpochIters, batches
<1>4. EpochIters(r) \in Nat /\ EpochIters(r) * GradAccum <= batches
  BY <1>2, <1>3, Division, StartAssumption
<1>5. Horizon(r) \in Nat /\ Horizon(r) <= EpochIters(r)
  BY <1>4, StartAssumption DEF HorizonOK, Horizon
<1>6. Horizon(r) * GradAccum <= EpochIters(r) * GradAccum
  BY <1>4, <1>5, Monotone, StartAssumption
<1>7. Horizon(r) * GradAccum \in Nat /\ EpochIters(r) * GradAccum \in Nat
  BY <1>4, <1>5, StartAssumption
<1>8. QED
  BY <1>2, <1>4, <1>6, <1>7 DEF batches

LEMMA RowsAreNat ==
  ASSUME StartTypes, NEW r \in Ranks
  PROVE  pack[r].rows \in Nat /\ NumBatches(pack[r].rows, W) \in Nat
<1>1. pack[r] \in [rows : Nat, pads : Nat, scored : Nat, digest : Nat]
  BY StartAssumption DEF StartTypes
<1>2. W * DeviceBatch \in Nat /\ W * DeviceBatch > 0
  BY StartAssumption
<1>3. QED
  BY <1>1, <1>2, Division DEF NumBatches

LEMMA InitServed == Init => ServedInv
<1> SUFFICES ASSUME Init PROVE ServedInv
  OBVIOUS
<1>1. ASSUME NEW r \in Ranks
      PROVE  NumBatches(pack[r].rows, W) \in Nat
  BY InitStart, RowsAreNat DEF StartInv
<1>2. QED
  BY <1>1 DEF Init, ServedInv

(* Steps that serve nothing: a rank comes to the broadcast with a horizon  *)
(* that fits, or it was there before.                                      *)
LEMMA ServedKept ==
  ASSUME ServedInv, UNCHANGED <<pack, served>>,
         \A q \in Ranks : status'[q] = "view exhausted" => status[q] = "view exhausted",
         \A q \in Ranks : pc'[q] \in {"bcast", "train"} =>
                             pc[q] \in {"bcast", "train"} \/ HorizonOK(q)
  PROVE  ServedInv'
<1>1. \A q \in Ranks : HorizonOK(q)' = HorizonOK(q)
  BY DEF HorizonOK, Horizon, EpochIters, NumBatches
<1>2. \A q \in Ranks : NumBatches(pack[q].rows, W)' = NumBatches(pack[q].rows, W)
  BY DEF NumBatches
<1>3. QED
  BY <1>1, <1>2 DEF ServedInv

LEMMA NextBatchServes ==
  ASSUME RowsInv, NEW r \in Ranks, NextBatch(r)
  PROVE  ServedInv'
<1> USE DEF RowsInv
<1> DEFINE batches == NumBatches(pack[r].rows, W)
<1>1. /\ pc[r] = "train" /\ status[r] = "running"
      /\ served[r] < numIters[r] * GradAccum
      /\ UNCHANGED <<pack, pc, numIters>>
  BY DEF NextBatch, Running, files, Bail
<1>2. batches \in Nat /\ pack[r].rows \in Nat /\ served[r] \in Nat
  BY RowsAreNat DEF StartInv, ServedInv
<1>3. numIters[r] = Horizon(r) /\ HorizonOK(r)
  BY <1>1 DEF StartInv, HorizonFixed, ServedInv
<1>4. numIters[r] * GradAccum <= batches
  BY <1>2, <1>3, HorizonFits
<1>5. numIters[r] * GradAccum \in Int
  <2>1. EpochIters(r) \in Nat
    BY <1>2, Division, StartAssumption DEF EpochIters
  <2>2. Horizon(r) \in Nat
    BY <2>1, StartAssumption DEF Horizon
  <2>3. QED
    BY <1>3, <2>2, StartAssumption
<1> HIDE DEF batches
<1>6. served[r] < batches
  BY <1>1, <1>2, <1>4, <1>5
<1>7. served' = [served EXCEPT ![r] = @ + 1] /\ status' = status
  <2>1. ~(served[r] >= NumBatches(pack[r].rows, W))
    BY <1>2, <1>6 DEF batches
  <2>2. QED
    BY <2>1 DEF NextBatch
<1>8. ASSUME NEW q \in Ranks
      PROVE  /\ NumBatches(pack[q].rows, W)' = NumBatches(pack[q].rows, W)
             /\ HorizonOK(q)' = HorizonOK(q)
             /\ NumBatches(pack[q].rows, W) \in Nat
  BY <1>1, RowsAreNat DEF HorizonOK, Horizon, EpochIters, NumBatches, StartInv
<1>9. served' \in [Ranks -> Nat]
  <2>1. served \in [Ranks -> Nat]
    BY DEF ServedInv
  <2>2. served[r] + 1 \in Nat
    BY <1>2
  <2>3. QED
    BY <1>7, <2>1, <2>2
<1>10. ASSUME NEW q \in Ranks PROVE served'[q] <= NumBatches(pack[q].rows, W)
  <2>1. CASE q = r
    <3>1. served'[r] = served[r] + 1
      BY <1>7 DEF ServedInv
    <3>2. QED
      BY <2>1, <3>1, <1>2, <1>6 DEF batches
  <2>2. CASE q # r
    BY <2>2, <1>7 DEF ServedInv
  <2>3. QED
    BY <2>1, <2>2
<1>11. QED
  BY <1>1, <1>7, <1>8, <1>9, <1>10 DEF ServedInv

LEMMA ServedStep == RowsInv /\ [Next]_vars => ServedInv'
<1> SUFFICES ASSUME RowsInv, [Next]_vars PROVE ServedInv'
  OBVIOUS
<1> USE DEF RowsInv
<1> USE DEF StartInv, StartTypes
<1>1. ASSUME NEW r \in Ranks, SizeSnapshot(r) PROVE ServedInv'
  <2>1. \/ status' = [status EXCEPT ![r] = "no batch"] /\ pc' = pc
        \/ status' = [status EXCEPT ![r] = "lower eval-steps"] /\ pc' = pc
        \/ pc' = [pc EXCEPT ![r] = "pack"] /\ status' = status
    BY <1>1 DEF SizeSnapshot, GoTo, Bail
  <2>2. UNCHANGED <<pack, served>>
    BY <1>1 DEF SizeSnapshot, files
  <2>3. QED
    BY <2>1, <2>2, ServedKept
<1>2. ASSUME NEW r \in Ranks, PackTrain(r) PROVE ServedInv'
  <2>1. \/ status' = [status EXCEPT ![r] = "scores nothing"] /\ pc' = pc
        \/ pc' = [pc EXCEPT ![r] = AfterPack(r)] /\ status' = status
    BY <1>2 DEF PackTrain, GoTo, Bail
  <2>2. UNCHANGED <<pack, served>> /\ AfterPack(r) \in {"agree", "horizon"}
    BY <1>2 DEF PackTrain, files, AfterPack
  <2>3. QED
    BY <2>1, <2>2, ServedKept
<1>3. ASSUME NEW r \in Ranks, CheckPacks(r) \/ Broadcast(r) PROVE ServedInv'
  <2>1. UNCHANGED <<pack, served, status, pc>>
    BY <1>3 DEF CheckPacks, Broadcast, Enter, files
  <2>2. QED
    BY <2>1, ServedKept
<1>4. ASSUME NEW r \in Ranks, PacksChecked(r) PROVE ServedInv'
  <2>1. \/ pc' = [pc EXCEPT ![r] = "horizon"] /\ status' = status
        \/ status' = [status EXCEPT ![r] = "packs disagree"] /\ pc' = pc
    BY <1>4 DEF PacksChecked, GoTo, Bail
  <2>2. UNCHANGED <<pack, served>>
    BY <1>4 DEF PacksChecked, Leave, files
  <2>3. QED
    BY <2>1, <2>2, ServedKept
<1>5. ASSUME NEW r \in Ranks, FixHorizon(r) PROVE ServedInv'
  <2>1. \/ HorizonOK(r) /\ pc' = [pc EXCEPT ![r] = "bcast"] /\ status' = status
        \/ status' = [status EXCEPT ![r] = "epoch too short"] /\ pc' = pc
    BY <1>5 DEF FixHorizon, GoTo, Bail
  <2>2. UNCHANGED <<pack, served>>
    BY <1>5 DEF FixHorizon, files
  <2>3. \A q \in Ranks : status'[q] = "view exhausted" => status[q] = "view exhausted"
    BY <2>1
  <2>4. \A q \in Ranks : pc'[q] \in {"bcast", "train"} =>
                            pc[q] \in {"bcast", "train"} \/ HorizonOK(q)
    BY <2>1
  <2>5. QED
    BY <2>2, <2>3, <2>4, ServedKept
<1>6. ASSUME NEW r \in Ranks, Broadcasted(r) PROVE ServedInv'
  <2>1. /\ pc[r] = "bcast" /\ pc' = [pc EXCEPT ![r] = "train"]
        /\ UNCHANGED <<pack, served, status>>
    BY <1>6 DEF Broadcasted, Leave, Running, GoTo, files
  <2>2. QED
    BY <2>1, ServedKept
<1>7. ASSUME NEW r \in Ranks, NextBatch(r) PROVE ServedInv'
  BY <1>7, NextBatchServes
<1>8. ASSUME NEW r \in Ranks, Finish(r) \/ Die(r) PROVE ServedInv'
  <2>1. /\ \/ status' = [status EXCEPT ![r] = "ok"]
           \/ status' = [status EXCEPT ![r] = "died"]
        /\ UNCHANGED <<pack, served, pc>>
    BY <1>8 DEF Finish, Die, Bail, files
  <2>2. QED
    BY <2>1, ServedKept
<1>9. ASSUME NEW r \in Ranks, FollowAdvice(r) PROVE ServedInv'
  <2>1. /\ pc' = [q \in Ranks |-> "val"] /\ status' = [q \in Ranks |-> "running"]
        /\ UNCHANGED <<pack, served>>
    BY <1>9 DEF FollowAdvice, files
  <2>2. QED
    BY <2>1, ServedKept
<1>10. CASE UNCHANGED vars
  BY <1>10, ServedKept DEF vars, files
<1>11. QED
  BY <1>1, <1>2, <1>3, <1>4, <1>5, <1>6, <1>7, <1>8, <1>9, <1>10 DEF Next, RankStep

(* The rows a rank was served are its column of the first lines, as many   *)
(* as served[r] * DeviceBatch, of a matrix of width W.                     *)
LEMMA RowsAreAColumn ==
  ASSUME NEW r \in Ranks, served[r] \in Nat
  PROVE  RowsOf(r) = {k * W + r : k \in 0 .. served[r] * DeviceBatch - 1}
<1> DEFINE n == served[r] * DeviceBatch
<1>1. W \in Nat /\ DeviceBatch \in Nat /\ DeviceBatch > 0 /\ r \in Nat
  BY StartAssumption DEF Ranks
<1>2. ASSUME NEW i \in 0 .. served[r] - 1, NEW j \in 0 .. DeviceBatch - 1
      PROVE  i * DeviceBatch + j \in 0 .. n - 1
  BY <1>1, Before
<1>3. ASSUME NEW k \in 0 .. n - 1
      PROVE  \E i \in 0 .. served[r] - 1, j \in 0 .. DeviceBatch - 1 :
                k = i * DeviceBatch + j
  <2>1. k \in Nat
    OBVIOUS
  <2>2. /\ k \div DeviceBatch \in Nat /\ k % DeviceBatch \in 0 .. DeviceBatch - 1
        /\ k = DeviceBatch * (k \div DeviceBatch) + (k % DeviceBatch)
    BY <1>1, <2>1
  <2>3. PICK i \in Nat, j \in 0 .. DeviceBatch - 1 : k = i * DeviceBatch + j
    <3>1. PICK i \in Nat : i = k \div DeviceBatch
      BY <2>2
    <3>2. DeviceBatch * i = i * DeviceBatch
      BY <1>1
    <3>3. QED
      BY <2>2, <3>1, <3>2
  <2>4. i < served[r]
    <3>1. SUFFICES ASSUME served[r] <= i PROVE FALSE
      OBVIOUS
    <3>2. served[r] * DeviceBatch <= i * DeviceBatch
      BY <1>1, <3>1, Monotone
    <3>3. i * DeviceBatch \in Nat /\ n \in Nat
      BY <1>1
    <3>4. QED
      BY <2>3, <3>2, <3>3
  <2>5. QED
    BY <2>3, <2>4
<1> HIDE DEF n
<1>4. RowsOf(r) = {(i * DeviceBatch + j) * W + r : i \in 0 .. served[r] - 1,
                                                  j \in 0 .. DeviceBatch - 1}
  BY DEF RowsOf, BatchRow
<1>5. ASSUME NEW x \in RowsOf(r) PROVE \E k \in 0 .. n - 1 : x = k * W + r
  BY <1>2, <1>4
<1>6. ASSUME NEW k \in 0 .. n - 1 PROVE k * W + r \in RowsOf(r)
  BY <1>3, <1>4
<1>7. RowsOf(r) = {k * W + r : k \in 0 .. n - 1}
  BY <1>5, <1>6
<1>8. QED
  BY <1>7 DEF n

(* A column of a matrix has as many cells as the matrix has lines. *)
LEMMA ColumnSize ==
  ASSUME NEW r \in Ranks, NEW n \in Nat
  PROVE  Cardinality({k * W + r : k \in 0 .. n - 1}) = n
<1> DEFINE S == 0 .. n - 1
           T == {k * W + r : k \in S}
           f == [k \in S |-> k * W + r]
<1>1. \A k, l \in S : f[k] = f[l] => k = l
  <2> SUFFICES ASSUME NEW k \in S, NEW l \in S, k * W + r = l * W + r
               PROVE  k = l
    OBVIOUS
  <2>1. W \in Nat /\ r \in 0 .. W - 1
    BY StartAssumption DEF Ranks
  <2>2. k \in Nat /\ l \in Nat
    OBVIOUS
  <2>3. QED
    BY <2>1, <2>2, Places
<1>2. f \in [S -> T] /\ \A t \in T : \E k \in S : f[k] = t
  OBVIOUS
<1>3. ExistsBijection(S, T)
  <2> HIDE DEF S, T, f
  <2>1. f \in Injection(S, T) /\ f \in Surjection(S, T)
    BY <1>1, <1>2 DEF Injection, Surjection, IsInjective
  <2>2. QED
    BY <2>1 DEF ExistsBijection, Bijection
<1>4. IsFiniteSet(S) /\ Cardinality(S) = n
  BY FS_Interval
<1> HIDE DEF S, T, f
<1>5. Cardinality(T) = n
  BY <1>3, <1>4, FS_Bijection
<1>6. QED
  BY <1>5 DEF S, T

(* In every execution the micro-batches of the ranks are disjoint, whole,  *)
(* and inside the epoch, whatever its number of rows, and the view never   *)
(* runs out before the horizon.                                            *)
THEOREM RowsAlwaysServedOnce == Spec => []RowsServedOnce
<1>1. Init => RowsInv
  BY InitStart, InitServed DEF RowsInv
<1>2. RowsInv /\ [Next]_vars => RowsInv'
  BY StartStep, ServedStep DEF RowsInv
<1>3. RowsInv => RowsServedOnce
  <2> SUFFICES ASSUME RowsInv PROVE RowsServedOnce
    OBVIOUS
  <2> USE DEF RowsInv
  <2>1. W \in Nat /\ DeviceBatch \in Nat /\ W > 0 /\ DeviceBatch > 0
    BY StartAssumption
  <2>2. ASSUME NEW r \in Ranks
        PROVE  /\ served[r] \in Nat /\ served[r] * DeviceBatch \in Nat
               /\ RowsOf(r) = {k * W + r : k \in 0 .. served[r] * DeviceBatch - 1}
               /\ r \in 0 .. W - 1
    <3>1. served[r] \in Nat
      BY DEF ServedInv
    <3>2. QED
      BY <2>1, <3>1, RowsAreAColumn DEF Ranks
  <2>3. ASSUME NEW r \in Ranks, NEW q \in Ranks, r # q
        PROVE  RowsOf(r) \cap RowsOf(q) = {}
    <3> SUFFICES ASSUME NEW x \in RowsOf(r), x \in RowsOf(q) PROVE FALSE
      OBVIOUS
    <3>1. PICK k \in 0 .. served[r] * DeviceBatch - 1 : x = k * W + r
      BY <2>2
    <3>2. PICK l \in 0 .. served[q] * DeviceBatch - 1 : x = l * W + q
      BY <2>2
    <3>3. k \in Nat /\ l \in Nat /\ r \in 0 .. W - 1 /\ q \in 0 .. W - 1
      BY <2>2
    <3>4. QED
      BY <2>1, <2>3, <3>1, <3>2, <3>3, Places
  <2>4. ASSUME NEW r \in Ranks PROVE RowsOf(r) \subseteq 0 .. pack[r].rows - 1
    <3> DEFINE n == served[r] * DeviceBatch
    <3>1. pack[r].rows \in Nat /\ NumBatches(pack[r].rows, W) \in Nat
      BY RowsAreNat DEF StartInv
    <3>2. n * W <= pack[r].rows
      <4> DEFINE nb == NumBatches(pack[r].rows, W)
      <4>1. W * DeviceBatch \in Nat /\ W * DeviceBatch > 0
        BY <2>1
      <4>2. nb * (W * DeviceBatch) <= pack[r].rows
        BY <3>1, <4>1, Division DEF NumBatches
      <4> HIDE DEF nb
      <4>3. served[r] <= nb /\ nb \in Nat
        BY <3>1 DEF nb, ServedInv
      <4>4. served[r] * (W * DeviceBatch) <= nb * (W * DeviceBatch)
        BY <2>2, <4>1, <4>3, Monotone
      <4>5. n * W = served[r] * (W * DeviceBatch)
        BY <2>1, <2>2
      <4>6. served[r] * (W * DeviceBatch) \in Nat /\ nb * (W * DeviceBatch) \in Nat
        BY <2>2, <4>1, <4>3
      <4>7. QED
        BY <3>1, <4>2, <4>4, <4>5, <4>6
    <3> SUFFICES ASSUME NEW x \in RowsOf(r) PROVE x \in 0 .. pack[r].rows - 1
      OBVIOUS
    <3>3. PICK k \in 0 .. n - 1 : x = k * W + r
      BY <2>2
    <3>4. n \in Nat /\ k \in Nat /\ k < n
      BY <2>2
    <3> HIDE DEF n
    <3>5. k * W + r \in 0 .. n * W - 1
      BY <2>1, <2>2, <3>4, Before
    <3>6. n * W \in Nat
      BY <2>1, <3>4
    <3>7. QED
      BY <3>1, <3>2, <3>3, <3>5, <3>6
  <2>5. ASSUME NEW r \in Ranks
        PROVE  Cardinality(RowsOf(r)) = served[r] * DeviceBatch
    BY <2>2, ColumnSize
  <2>6. \A r \in Ranks : status[r] # "view exhausted"
    BY DEF ServedInv
  <2>7. QED
    BY <2>3, <2>4, <2>5, <2>6 DEF RowsServedOnce
<1>4. QED
  BY <1>1, <1>2, <1>3, PTL DEF Spec
-----------------------------------------------------------------------------
(* Following the advice of val_batches. *)

(* A rank that could fill a snapshot at the cap is never advised, so what  *)
(* it counted was the uncapped pack: the pack the next attempt falls back  *)
(* on, whatever the lower number of steps does to the cap.                 *)
AdviceInv ==
  /\ \A r \in Ranks : status[r] = "lower eval-steps" => valRows[r] = val[r].full
  /\ advised # -1 => /\ advised \in Ranks
                     /\ NumBatches(val[advised].full, 1) = evalSteps
                     /\ status[advised] \notin {"no batch", "lower eval-steps"}

(* What val_batches settles on: enough, or everything there is. *)
LEMMA ValPackSuffices ==
  ASSUME StartTypes, NEW r \in Ranks
  PROVE  \/ ValPack(r) = val[r].full
         \/ NumBatches(ValPack(r), 1) >= evalSteps
<1>1. ValPack(r) = val[r].full \/ ~(NumBatches(ValPack(r), 1) < evalSteps)
  BY DEF ValPack, CappedRows
<1>2. NumBatches(ValPack(r), 1) \in Nat
  <2>1. 1 * DeviceBatch \in Nat /\ 1 * DeviceBatch > 0
    BY StartAssumption
  <2>2. QED
    BY <2>1, ValPackIsNat, Division DEF NumBatches
<1>3. evalSteps \in Nat
  BY DEF StartTypes
<1>4. QED
  BY <1>1, <1>2, <1>3

(* A step that gives no advice and follows none. *)
LEMMA AdviceKept ==
  ASSUME AdviceInv, UNCHANGED <<val, valRows, advised, evalSteps>>,
         \A q \in Ranks : status'[q] \in {"no batch", "lower eval-steps"}
                            => status'[q] = status[q]
  PROVE  AdviceInv'
<1>1. \A q \in Ranks : NumBatches(val[q].full, 1)' = NumBatches(val[q].full, 1)
  BY DEF NumBatches
<1>2. QED
  BY <1>1 DEF AdviceInv

LEMMA SizeSnapshotAdvises ==
  ASSUME StartInv, AdviceInv, NEW r \in Ranks, SizeSnapshot(r)
  PROVE  AdviceInv'
<1> DEFINE batches == NumBatches(ValPack(r), 1)
<1>1. /\ valRows' = [valRows EXCEPT ![r] = ValPack(r)]
      /\ UNCHANGED <<val, evalSteps, advised>>
  BY DEF SizeSnapshot, files
<1>2. valRows \in [Ranks -> Nat] /\ status \in [Ranks -> Fates] /\ evalSteps \in Nat \ {0}
  BY DEF StartInv, StartTypes
<1>3. \/ batches = 0 /\ status' = [status EXCEPT ![r] = "no batch"]
      \/ batches \in 1 .. evalSteps - 1 /\ status' = [status EXCEPT ![r] = "lower eval-steps"]
      \/ status' = status
  BY DEF SizeSnapshot, GoTo, Bail
<1>4. status[r] = "running"
  BY DEF SizeSnapshot, Running
<1>5. ValPack(r) = val[r].full \/ batches >= evalSteps
  BY ValPackSuffices DEF StartInv
<1>6. \A q \in Ranks : NumBatches(val[q].full, 1)' = NumBatches(val[q].full, 1)
  BY <1>1 DEF NumBatches
<1>7. ASSUME NEW q \in Ranks, status'[q] = "lower eval-steps"
      PROVE  valRows'[q] = val'[q].full
  <2>1. CASE q = r
    <3>1. batches \in 1 .. evalSteps - 1
      BY <1>2, <1>3, <1>4, <1>7, <2>1
    <3>2. ValPack(r) = val[r].full
      BY <1>2, <1>5, <3>1
    <3>3. QED
      BY <1>1, <1>2, <2>1, <3>2
  <2>2. CASE q # r
    <3>1. status[q] = "lower eval-steps" /\ valRows'[q] = valRows[q]
      BY <1>1, <1>2, <1>3, <1>7, <2>2
    <3>2. QED
      BY <1>1, <3>1 DEF AdviceInv
  <2>3. QED
    BY <2>1, <2>2
<1>8. ASSUME advised # -1
      PROVE  status'[advised] \notin {"no batch", "lower eval-steps"}
  <2>1. /\ advised \in Ranks /\ NumBatches(val[advised].full, 1) = evalSteps
        /\ status[advised] \notin {"no batch", "lower eval-steps"}
    BY <1>8 DEF AdviceInv
  <2>2. CASE advised = r
    <3>1. ~(batches = 0) /\ ~(batches \in 1 .. evalSteps - 1)
      <4>1. CASE ValPack(r) = val[r].full
        <5>1. batches = evalSteps
          BY <2>1, <2>2, <4>1
        <5> HIDE DEF batches
        <5>2. QED
          BY <1>2, <5>1
      <4>2. CASE batches >= evalSteps
        BY <1>2, <4>2
      <4>3. QED
        BY <1>5, <4>1, <4>2
    <3>2. QED
      BY <1>3, <2>1, <3>1
  <2>3. CASE advised # r
    BY <1>2, <1>3, <2>1, <2>3
  <2>4. QED
    BY <2>2, <2>3
<1>9. QED
  BY <1>1, <1>6, <1>7, <1>8 DEF AdviceInv

LEMMA AdviceStep == StartInv /\ AdviceInv /\ [Next]_vars => AdviceInv'
<1> SUFFICES ASSUME StartInv, AdviceInv, [Next]_vars PROVE AdviceInv'
  OBVIOUS
<1>1. status \in [Ranks -> Fates]
  BY DEF StartInv, StartTypes
<1>2. ASSUME NEW r \in Ranks, SizeSnapshot(r) PROVE AdviceInv'
  BY <1>2, SizeSnapshotAdvises
<1>3. ASSUME NEW r \in Ranks, PackTrain(r) \/ PacksChecked(r) \/ FixHorizon(r)
      PROVE AdviceInv'
  <2>1. /\ UNCHANGED <<val, valRows, advised, evalSteps>>
        /\ \/ status' = status
           \/ \E why \in {"scores nothing", "packs disagree", "epoch too short"} :
                 status' = [status EXCEPT ![r] = why]
    BY <1>3 DEF PackTrain, PacksChecked, FixHorizon, Leave, GoTo, Bail, files
  <2>2. QED
    BY <1>1, <2>1, AdviceKept
<1>4. ASSUME NEW r \in Ranks, CheckPacks(r) \/ Broadcast(r) \/ Broadcasted(r)
      PROVE AdviceInv'
  <2>1. UNCHANGED <<val, valRows, advised, evalSteps, status>>
    BY <1>4 DEF CheckPacks, Broadcast, Broadcasted, Enter, Leave, GoTo, files
  <2>2. QED
    BY <2>1, AdviceKept
<1>5. ASSUME NEW r \in Ranks, NextBatch(r) \/ Finish(r) \/ Die(r) PROVE AdviceInv'
  <2>1. /\ UNCHANGED <<val, valRows, advised, evalSteps>>
        /\ \/ status' = status
           \/ \E why \in {"view exhausted", "ok", "died"} :
                 status' = [status EXCEPT ![r] = why]
    BY <1>5 DEF NextBatch, Finish, Die, Bail, files
  <2>2. QED
    BY <1>1, <2>1, AdviceKept
<1>6. ASSUME NEW r \in Ranks, FollowAdvice(r) PROVE AdviceInv'
  <2>1. /\ status[r] = "lower eval-steps" /\ advised' = r /\ UNCHANGED val
        /\ evalSteps' = NumBatches(valRows[r], 1)
        /\ status' = [q \in Ranks |-> "running"]
    BY <1>6 DEF FollowAdvice, files
  <2>2. valRows[r] = val[r].full
    BY <2>1 DEF AdviceInv
  <2>3. NumBatches(val[r].full, 1)' = NumBatches(val[r].full, 1)
    BY <2>1 DEF NumBatches
  <2>4. \A q \in Ranks : status'[q] = "running"
    BY <2>1
  <2>5. /\ advised' \in Ranks /\ status'[advised'] = "running"
        /\ NumBatches(val'[advised'].full, 1) = evalSteps'
    BY <2>1, <2>2, <2>3, <2>4
  <2>6. NumBatches(val[advised].full, 1)' = NumBatches(val'[advised'].full, 1)
    BY DEF NumBatches
  <2>7. QED
    BY <2>4, <2>5, <2>6 DEF AdviceInv
<1>7. CASE UNCHANGED vars
  BY <1>7, AdviceKept DEF vars, files
<1>8. QED
  BY <1>2, <1>3, <1>4, <1>5, <1>6, <1>7 DEF Next, RankStep

(* In every execution, for all files, caps and sizes: a rank whose message *)
(* was followed has a snapshot at the next attempt, and is not told to     *)
(* lower --eval-steps again.                                               *)
THEOREM AdviceAlwaysWorks == Spec => []AdviceWorks
<1>1. Init => StartInv /\ AdviceInv
  <2>1. Init => AdviceInv
    BY DEF Init, AdviceInv
  <2>2. QED
    BY <2>1, InitStart
<1>2. AdviceInv => AdviceWorks
  BY DEF AdviceInv, AdviceWorks
<1>3. QED
  BY <1>1, <1>2, StartStep, AdviceStep, PTL DEF Spec
=============================================================================
