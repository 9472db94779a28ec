------------------------------ MODULE SftEpoch ------------------------------
(***************************************************************************)
(* A packed epoch from the dataset files to the targets the loss sees:     *)
(* train_sources or val_sources of sft.rs, render_mixture of               *)
(* tasks/mixture.rs, pack_epoch and batch of tasks/pack.rs.                *)
(***************************************************************************)
EXTENDS SftTasks, SftPack

CONSTANT Files  \* what the dataset directories may hold, and which epoch to pack

Directories ==
  [smoltalk : Seq(Seq(SmoltalkRows)), identity : Seq(Seq(IdentityLines)),
   mmlu : Seq(Seq(MmluRows)), gsm8k : Seq(Seq(Gsm8kRows))]
Staged ==
  [mode : {"train", "val"}, train : Directories, test : Directories,
   epochs : [mmlu : Nat, gsm8k : Nat], budget : Nat]

ASSUME FilesAssumption == Files \subseteq Staged

VARIABLE rendered  \* the shuffled stream of rendered conversations

vars == <<packVars, rendered>>

-----------------------------------------------------------------------------
(* The mixtures an epoch may be made of; none if the files do not load. *)

Mixtures(data) ==
  IF data.mode = "train"
  THEN IF SourcesOK(data, data.train, TrainSets) THEN {TrainSources(data)} ELSE {}
  ELSE IF SourcesOK(data, data.test, ValSets) THEN ValMixtures(data) ELSE {}

Renderable(mixture) == \A i \in DOMAIN mixture : Renders(mixture[i])

(* render_mixture: everything rendered, truncated to a row and shuffled.   *)
(* Definitions named Mutant... are plausible bugs, used by no              *)
(* specification.                                                          *)
Shuffles(n) == {p \in [1 .. n -> 1 .. n] : \A i, j \in 1 .. n : p[i] = p[j] => i = j}
MutantRenderMixture(mixture, p) ==
  [k \in DOMAIN mixture |-> RenderConversation(mixture[p[k]], Capacity + 1)]
RenderMixture(mixture, p) ==
  [k \in DOMAIN mixture |-> RenderConversation(mixture[p[k]], Capacity)]

(* The error of a parser or of a conversation ends the run before a pack.  *)
Refused ==
  /\ stream = <<>> /\ src = 0 /\ buf = <<>> /\ at = <<>>
  /\ tokens = 0 /\ rowStart = 0 /\ pads = 0 /\ pc = "refused"
  /\ rendered = <<>>

Init ==
  \E data \in Files :
    \/ /\ \/ Mixtures(data) = {}
          \/ \E mixture \in Mixtures(data) : ~Renderable(mixture)
       /\ Refused
    \/ \E mixture \in Mixtures(data) :
         /\ Renderable(mixture)
         /\ \E p \in Shuffles(Len(mixture)) : rendered = RenderMixture(mixture, p)
         /\ PackOf([k \in DOMAIN rendered |-> Len(rendered[k])])

Next == PackStep /\ UNCHANGED rendered
Spec == Init /\ [][Next]_vars
FairSpec == Spec /\ WF_vars(Next)

-----------------------------------------------------------------------------
(* The packed rows and their targets. *)

Pad == [id |-> "bos", scored |-> FALSE]

TokenAt(q) ==
  IF \E k \in Packed : q \in Cells(k)
  THEN LET k == CHOOSE k \in Packed : q \in Cells(k) IN rendered[k][q - at[k] + 1]
  ELSE Pad

Rows == 0 .. tokens \div Capacity - 1
Row(r) == [p \in 1 .. Capacity |-> TokenAt(r * Capacity + p - 1)]

(* batch: inputs are all but the last token, targets all but the first,    *)
(* ignored where the mask, shifted with them, is false.                    *)
MutantTargets(r) ==
  [p \in 1 .. Capacity - 1 |->
     IF Row(r)[p].scored THEN Row(r)[p + 1].id ELSE "ignored"]
Targets(r) ==
  [p \in 1 .. Capacity - 1 |->
     IF Row(r)[p + 1].scored THEN Row(r)[p + 1].id ELSE "ignored"]

ScoredTokens == Cardinality({q \in 0 .. tokens - 1 : TokenAt(q).scored})

-----------------------------------------------------------------------------
(* Properties. *)

(* Read off a row alone: the model writes what follows assistant_start and *)
(* what follows the output of a tool, up to the call or the end of its     *)
(* turn; BOS is never its to write.                                        *)
Hands == {"bos", "user_start", "assistant_start", "assistant_end", "python_end", "output_end"}
Writes(row, p) ==
  /\ row[p].id # "bos"
  /\ \E m \in 1 .. p - 1 :
        /\ row[m].id \in {"assistant_start", "output_end"}
        /\ \A n \in m + 1 .. p - 1 : row[n].id \notin Hands

(* The loss scores exactly the tokens the model has to produce at          *)
(* inference, whatever was merged, truncated, packed into one row and      *)
(* padded: no padding, no user or tool text, nothing across conversations. *)
ScoredIsReply ==
  pc = "done" =>
    \A r \in Rows : LET row == Row(r) targets == Targets(r) IN
      \A p \in 2 .. Capacity : (targets[p - 1] # "ignored") <=> Writes(row, p)

(* scored_tokens, a count over the mask, is the number of scored targets   *)
(* of the epoch and of the scored tokens of its conversations: the shift   *)
(* that drops the first column of every row drops none of them.            *)
ScoredTokensServed ==
  pc = "done" =>
    LET targets == [r \in Rows |-> Targets(r)] IN
    /\ ScoredTokens =
         Cardinality({x \in Rows \X (1 .. Capacity - 1) : targets[x[1]][x[2]] # "ignored"})
    /\ ScoredTokens =
         Cardinality({x \in (DOMAIN rendered) \X (1 .. Capacity) :
                        x[2] \in DOMAIN rendered[x[1]] /\ rendered[x[1]][x[2]].scored})

(* No conversation trips the guards of refill, and the packing of files    *)
(* that load and render ends.                                              *)
PackingEnds == <>(pc \in {"done", "refused"})
=============================================================================
