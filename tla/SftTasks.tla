------------------------------ MODULE SftTasks ------------------------------
(***************************************************************************)
(* The datasets of a finetune (tasks/): what each parser accepts and the   *)
(* conversations it makes of it, and the mixtures that train_sources and   *)
(* val_sources of sft.rs build.  A parser checks the shape of its rows and *)
(* leaves the structure of a conversation to the renderer.                 *)
(***************************************************************************)
EXTENDS ChatRender, FiniteSets

CONSTANTS
  Caps,           \* NANOCHAT_VAL_CAPS
  IdentityCopies  \* IDENTITY_COPIES

ASSUME TasksAssumption ==
  Caps \in [{"smoltalk", "mmlu", "gsm8k"} -> Nat \ {0}] /\ IdentityCopies \in Nat

(* The rows of the files: what parquet and JSON lines can hold. *)
Said          == [role : STRING, n : Nat]
Segments      == [kind : {"text"}, n : Nat] \cup [kind : {"call"}, expr : Nat, result : Nat]
MmluRows      == [null : BOOLEAN, question : Nat, choices : Seq(Nat), answer : Int]
Gsm8kRows     == [null : BOOLEAN, question : Nat, answer : Seq(Segments)]
SmoltalkRows  == [null : BOOLEAN, messages : Seq(Said)]
IdentityLines == [blank : BOOLEAN, json : BOOLEAN, messages : Seq(Said)]

-----------------------------------------------------------------------------
(* MMLU: a question, four choices, the number of the right one. *)

MmluOK(row) == ~row.null /\ Len(row.choices) = 4 /\ row.answer \in 0 .. 3

(* render_mc mentions every choice; the reply is a letter. *)
Mmlu(row) ==
  LET choices == row.choices[1] + row.choices[2] + row.choices[3] + row.choices[4]
  IN  <<Message("user", Text(row.question + choices)), Message("assistant", Text(1))>>

-----------------------------------------------------------------------------
(* GSM8K: an answer whose calculator annotations are tool calls.  A call   *)
(* without an equals sign has an empty result; empty texts are dropped.    *)

Gsm8kOK(row) == ~row.null

SegmentParts(segment) ==
  IF segment.kind = "text"
  THEN IF segment.n = 0 THEN <<>> ELSE <<segment>>
  ELSE <<[kind |-> "python", n |-> segment.expr], [kind |-> "output", n |-> segment.result]>>

SplitAnswer(segments) == FlattenSeq([i \in DOMAIN segments |-> SegmentParts(segments[i])])

Gsm8k(row) ==
  <<Message("user", Text(row.question)),
    Message("assistant", Parts(SplitAnswer(row.answer)))>>

-----------------------------------------------------------------------------
(* SmolTalk and the identity file: messages as they come. *)

RoleOK(role) == role \in {"system", "user", "assistant"}
MessagesOK(messages) == \A i \in DOMAIN messages : RoleOK(messages[i].role)

SmoltalkOK(row) == ~row.null /\ MessagesOK(row.messages)
IdentityOK(line) == line.blank \/ (line.json /\ MessagesOK(line.messages))

Plain(messages) ==
  [i \in DOMAIN messages |-> Message(messages[i].role, Text(messages[i].n))]

-----------------------------------------------------------------------------
(* load_dataset: the files of a split in sorted order; none is an error.   *)

RowsOf(files) == FlattenSeq(files)

RowOK(dataset, row) ==
  CASE dataset = "mmlu"     -> MmluOK(row)
    [] dataset = "gsm8k"    -> Gsm8kOK(row)
    [] dataset = "smoltalk" -> SmoltalkOK(row)
    [] dataset = "identity" -> IdentityOK(row)

Decoded(dataset, row) ==
  CASE dataset = "mmlu"  -> <<Mmlu(row)>>
    [] dataset = "gsm8k" -> <<Gsm8k(row)>>
    [] dataset = "smoltalk" -> <<Plain(row.messages)>>
    [] dataset = "identity" -> IF row.blank THEN <<>> ELSE <<Plain(row.messages)>>

LoadOK(dataset, files) ==
  files # <<>> /\ \A i \in DOMAIN RowsOf(files) : RowOK(dataset, RowsOf(files)[i])

Load(dataset, files) ==
  FlattenSeq([i \in DOMAIN RowsOf(files) |-> Decoded(dataset, RowsOf(files)[i])])

-----------------------------------------------------------------------------
(* The mixtures.  Zero epochs omit a dataset: its files are not read. *)

TrainSets == {"smoltalk", "identity", "mmlu", "gsm8k"}
ValSets   == {"smoltalk", "mmlu", "gsm8k"}

Active(data, d) == d \in {"mmlu", "gsm8k"} => data.epochs[d] > 0

Copies(data, d) ==
  CASE d = "smoltalk" -> 1
    [] d = "identity" -> IdentityCopies
    [] OTHER          -> data.epochs[d]

SourcesOK(data, files, datasets) ==
  \A d \in datasets : Active(data, d) => LoadOK(d, files[d])

Repeated(s, n) == FlattenSeq([copy \in 1 .. n |-> s])

TrainSources(data) ==
  LET Of(d) == IF Active(data, d) THEN Repeated(Load(d, data.train[d]), Copies(data, d))
               ELSE <<>>
  IN  Of("smoltalk") \o Of("identity") \o Of("mmlu") \o Of("gsm8k")

ActiveValDenominator(data) ==
  LET Cap(d) == IF Active(data, d) THEN Caps[d] ELSE 0
  IN  Cap("smoltalk") + Cap("mmlu") + Cap("gsm8k")

(* The cap of nanochat scaled to the budget, to the nearest, at least one  *)
(* conversation and at most what there is.                                 *)
ScaledCap(cap, budget, denominator, available) ==
  LET share == IF budget < denominator THEN budget ELSE denominator
      scaled == (2 * cap * share + denominator) \div (2 * denominator)
      atLeast == IF scaled = 0 THEN 1 ELSE scaled
  IN  IF atLeast < available THEN atLeast ELSE available

(* shuffled_cap: some of them, by the seed, and not the first ones. *)
ShuffledCap(convs, cap) ==
  {[i \in 1 .. cap |-> convs[p[i]]] :
     p \in {q \in [1 .. cap -> DOMAIN convs] : \A i, j \in 1 .. cap : q[i] = q[j] => i = j}}

ValSource(data, d) ==
  IF Active(data, d)
  THEN LET convs == Load(d, data.test[d])
           cap == ScaledCap(Caps[d], data.budget, ActiveValDenominator(data), Len(convs))
       IN  ShuffledCap(convs, cap)
  ELSE {<<>>}

ValMixtures(data) ==
  {s \o m \o g : s \in ValSource(data, "smoltalk"), m \in ValSource(data, "mmlu"),
                 g \in ValSource(data, "gsm8k")}
=============================================================================
