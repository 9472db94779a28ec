------------------------------- MODULE RunDir -------------------------------
(***************************************************************************)
(* What an invocation of the binary does around the training loop: the     *)
(* roles of a multi-GPU run, the checks between the flags and the first    *)
(* step, the run directory it claims under a root that others share, and   *)
(* the three artifacts it leaves there: run.json, metrics.jsonl, best/.    *)
(* Only the master rank writes; its peers are the world it may fail with.  *)
(* What is inside a step is modelled by DdpTrain.                          *)
(***************************************************************************)
EXTENDS Commands, Functions, SequencesExt

CONSTANTS
  Scenarios,  \* who is started: sets of invocations, by number
  Seconds,    \* bound: what the clock may show
  Bpbs,       \* bound: what an evaluation may give, a larger one is worse
  Room,       \* bound: lines the BufWriter holds before it must flush
  Peaks,      \* bound: bytes of the memory pool
  MaxUpsets   \* bound: I/O errors, deaths and signals

Runs == 1 .. 2

(* An invocation: clap has parsed its flags, and what else it will find.   *)
Subcommands == {"none", "pretrain", "sft", "chat", "download"}
Invocation(v) ==
  /\ v.cmd \in Subcommands
  /\ v.cmd = "pretrain" => v.args \in PretrainArgs
  /\ v.cmd = "sft"      => v.args \in SftArgs /\ v.epoch \in Nat
  /\ v.cmd = "chat"     => v.args \in ChatArgs
  /\ v.cmd = "download" => v.args \in DownloadArgs
  /\ v.cmd \in {"sft", "chat"} =>
       v.config \in [sequence_len : Count, n_head : Count, n_embd : Count]
  /\ v.cmd \in {"pretrain", "sft"} =>
       /\ DOMAIN v = {"cmd", "args", "env", "nccl", "checks", "traced", "config", "epoch"}
       /\ v.checks \in BOOLEAN  \* built with overflow checks

ASSUME RunDirAssumption ==
  /\ \A s \in Scenarios : DOMAIN s = Runs /\ \A i \in Runs : Invocation(s[i])
  /\ Room \in Nat /\ MaxUpsets \in Nat /\ Bpbs \subseteq Nat /\ Peaks \subseteq Nat

VARIABLES
  inv,      \* the invocations: command, flags, environment, build, files
  launched, \* spawned by a launcher that had accepted the flags
  pc, status,
  name,     \* the run directory of an invocation: second and suffix, or <<>>
  dirs,     \* the runs root: run directories by name
  numIters, step, minBpb,
  emitted,  \* history: the records given to `log`
  buffer,   \* lines in the BufWriter
  warned,   \* MetricsLogger.warned
  pool,     \* the memory pool: used, and its high-water mark since the reset
  window,   \* history: the most in use since the last sample, and before it
  upsets

control == <<inv, launched, pc, status, upsets>>
loop    == <<numIters, step, minBpb>>
logger  == <<emitted, buffer, warned>>
memory  == <<pool, window>>
vars    == <<control, name, dirs, loop, logger, memory>>

-----------------------------------------------------------------------------
(* What an invocation asks for. *)

Args(i)  == inv[i].args
Batch(i) == Args(i).batch
Trains(i) == inv[i].cmd \in {"pretrain", "sft"}

(* Pretraining takes the geometry from its flags, others from a meta.txt. *)
Geometry(i) ==
  IF inv[i].cmd = "pretrain"
  THEN [sequence_len |-> Args(i).sequence_len, n_head |-> Args(i).n_head,
        n_embd |-> Args(i).n_embd]
  ELSE inv[i].config

GradAccum(i) ==
  BatchGeometry(inv[i].checks, Batch(i).gpus, Batch(i).device_batch,
                Geometry(i).sequence_len, Batch(i).total_batch)

FlagsOK(i) ==
  CASE inv[i].cmd = "pretrain" -> PretrainFlagsOK(inv[i].checks, Args(i))
    [] inv[i].cmd = "sft"      -> SftFlagsOK(Args(i))
    [] inv[i].cmd = "chat"     -> ChatFlagsOK(Args(i))
    [] inv[i].cmd = "download" -> DownloadFlagsOK(Args(i))

CheckpointOK(i) == inv[i].cmd = "pretrain" \/ MetaOK(Args(i).checkpoint, inv[i].config)

(* The parent validates what it can before it spawns anybody. *)
LauncherOK(i) ==
  FlagsOK(i) /\ CheckpointOK(i) /\ GradAccum(i) \notin {Error, Panics} /\ inv[i].nccl

(* Validation gets as far as the batch geometry and panics in it. *)
Overflows(i) ==
  /\ GradAccum(i) = Panics
  /\ CASE inv[i].cmd = "pretrain" -> PretrainSizesOK(Args(i))
       [] inv[i].cmd = "sft"      -> SftFlagsOK(Args(i)) /\ CheckpointOK(i)

(* The two borders that no validator looks at: a micro-batch of all ranks  *)
(* that usize cannot count, and a model of no width.                       *)
Unguarded(i) ==
  \/ inv[i].cmd \in {"pretrain", "sft", "chat"} /\ Geometry(i).n_embd = 0
  \/ Trains(i) /\ Batch(i).gpus * Batch(i).device_batch * Geometry(i).sequence_len > MaxUsize

WorldSize(i) == IF inv[i].env = <<>> THEN 1 ELSE inv[i].env.world_size

-----------------------------------------------------------------------------
(* The runs root.  Every file names the run that wrote it. *)

Absent  == <<>>
EmptyDir == [meta |-> Absent, log |-> Absent, best |-> Absent]

WithDir(new) ==
  [n \in DOMAIN dirs \cup {new} |-> IF n = new THEN EmptyDir ELSE dirs[n]]
Put(i, file, content) == dirs' = [dirs EXCEPT ![name[i]][file] = content]

(* unique_run_dir: create_dir is exclusive, a taken name moves to the next *)
(* suffix.                                                                 *)
MutantTaken(n) == FALSE
Taken(n) == n \in DOMAIN dirs

At(i, point)  == pc[i] = point
GoTo(i, point) == pc' = [pc EXCEPT ![i] = point] /\ UNCHANGED <<inv, launched, status, upsets>>

Claimed(i) == name[i] # <<>> /\ pc[i] # "claim"
HasLog(i)  == dirs[name[i]].log # Absent
Lines(i)   == dirs[name[i]].log.lines

(* RemoveIfEmpty of a finetune: remove_dir refuses what is not empty.  It  *)
(* is taken to succeed on what is (its error is ignored), and to stand     *)
(* from the claim on: one println! lies between the two.                   *)
MutantGuarded(i) == FALSE
Guarded(i) == inv[i].cmd = "sft"

(* The scope of the run ends: the BufWriter is dropped, which flushes what *)
(* it holds (errors ignored), then the guard, if it stands.                *)
DropAll(i, flushed) ==
  IF ~Claimed(i) THEN UNCHANGED dirs
  ELSE IF HasLog(i)
  THEN Put(i, "log", [run |-> i, lines |-> Lines(i) \o (IF flushed THEN buffer[i] ELSE <<>>)])
  ELSE IF Guarded(i) /\ dirs[name[i]] = EmptyDir
  THEN dirs' = Restrict(dirs, DOMAIN dirs \ {name[i]})
  ELSE UNCHANGED dirs

(* A return from main or an unwinding panic, for a reason.  Definitions    *)
(* named Mutant... are plausible bugs, used by no specification.           *)
End(i, why) ==
  /\ pc' = [pc EXCEPT ![i] = "over"] /\ status' = [status EXCEPT ![i] = why]
  /\ \E flushed \in (IF warned[i] THEN BOOLEAN ELSE {TRUE}) : DropAll(i, flushed)
  /\ buffer' = [buffer EXCEPT ![i] = <<>>]
  /\ name' = [name EXCEPT ![i] = IF Claimed(i) THEN @ ELSE <<>>]
  /\ UNCHANGED <<inv, launched, loop, emitted, warned, memory>>

Stop(i, why) == End(i, why) /\ UNCHANGED upsets

-----------------------------------------------------------------------------
(* From the command line to the run directory. *)

Init ==
  /\ inv \in Scenarios
  /\ launched = [i \in Runs |-> FALSE]
  /\ pc = [i \in Runs |-> IF inv[i].cmd = "none" THEN "over" ELSE "start"]
  /\ status = [i \in Runs |-> "running"]
  /\ name = [i \in Runs |-> <<>>] /\ dirs = <<>>
  /\ numIters = [i \in Runs |-> 0] /\ step = [i \in Runs |-> 0]
  /\ minBpb = [i \in Runs |-> -1]
  /\ emitted = [i \in Runs |-> <<>>] /\ buffer = [i \in Runs |-> <<>>]
  /\ warned = [i \in Runs |-> FALSE]
  /\ pool = [i \in Runs |-> [used |-> 0, high |-> 0]]
  /\ window = [i \in Runs |-> [last |-> 0, since |-> 0]] /\ upsets = 0

(* The launcher becomes the rank 0 it spawns; the ranks share its fate. *)
Launch(i) ==
  /\ At(i, "start") /\ Trains(i) /\ Role(inv[i].env, Batch(i).gpus) = "launcher"
  /\ IF LauncherOK(i)
     THEN /\ inv' = [inv EXCEPT ![i].env =
                        [rank |-> 0, world_size |-> Batch(i).gpus, id |-> "hex"]]
          /\ launched' = [launched EXCEPT ![i] = TRUE]
          /\ UNCHANGED <<pc, status, upsets, name, dirs, loop, logger, memory>>
     ELSE Stop(i, IF Overflows(i) THEN "panicked" ELSE "refused")

Begin(i) ==
  /\ At(i, "start")
  /\ IF Trains(i)
     THEN CASE Role(inv[i].env, Batch(i).gpus) = "refused"  -> Stop(i, "refused")
            [] Role(inv[i].env, Batch(i).gpus) = "worker"   ->
                 GoTo(i, "flags") /\ UNCHANGED <<name, dirs, loop, logger, memory>>
            [] Role(inv[i].env, Batch(i).gpus) = "launcher" -> FALSE
     ELSE GoTo(i, "flags") /\ UNCHANGED <<name, dirs, loop, logger, memory>>

CheckFlags(i) ==
  /\ At(i, "flags")
  /\ IF FlagsOK(i)
     THEN /\ GoTo(i, IF inv[i].cmd = "download" THEN "fetch" ELSE "device")
          /\ UNCHANGED <<name, dirs, loop, logger, memory>>
     ELSE Stop(i, IF inv[i].cmd = "pretrain" /\ Overflows(i) THEN "panicked" ELSE "refused")

(* A spawned rank needs the nccl build and a world of --gpus. *)
InitDevice(i) ==
  /\ At(i, "device")
  /\ IF Trains(i) /\ inv[i].env # <<>>
        /\ (~inv[i].nccl \/ WorldSize(i) # Batch(i).gpus)
     THEN Stop(i, "refused")
     ELSE GoTo(i, "prepare") /\ UNCHANGED <<name, dirs, loop, logger, memory>>

(* Everything between the device and the run directory: the batch geometry *)
(* again, the meta of the checkpoint, the configuration and the model.     *)
(* The layers of a model of no width start from infinite bounds, and what  *)
(* candle makes of those is not of this repository.                        *)
Prepare(i) ==
  /\ At(i, "prepare")
  /\ IF \/ ~CheckpointOK(i)
        \/ inv[i].cmd = "sft" /\ WorldSize(i) # Batch(i).gpus
        \/ Trains(i) /\ GradAccum(i) = Error
     THEN Stop(i, "refused")
     ELSE IF Trains(i) /\ GradAccum(i) = Panics THEN Stop(i, "panicked")
     ELSE IF inv[i].cmd = "pretrain"
             /\ ~ConfigOK(Args(i).sequence_len, Args(i).n_head, Args(i).n_embd)
     THEN Stop(i, "bad geometry")
     ELSE IF ~ModelBuilds(Geometry(i)) THEN Stop(i, "panicked")
     ELSE \/ /\ Geometry(i).n_embd = 0
             /\ \E why \in {"bad geometry", "panicked"} : Stop(i, why)
          \/ IF inv[i].cmd = "chat" THEN Stop(i, "done")
             ELSE GoTo(i, "clock") /\ UNCHANGED <<name, dirs, loop, logger, memory>>

(* Shards are numbered 0 .. MaxShard, and counted in usize. *)
Fetch(i) ==
  /\ At(i, "fetch")
  /\ Stop(i, CASE Args(i).start + Args(i).num > MaxUsize -> "panicked"
               [] Args(i).start + Args(i).num <= MaxUsize ->
                    IF ShardIndices(Args(i)) \subseteq 0 .. MaxShard
                    THEN "done" ELSE "no such shard")

ReadClock(i) ==
  /\ At(i, "clock")
  /\ \E s \in Seconds : name' = [name EXCEPT ![i] = <<s, 1>>]
  /\ GoTo(i, "claim") /\ UNCHANGED <<dirs, loop, logger, memory>>

TryName(i) ==
  /\ At(i, "claim") /\ Taken(name[i])
  /\ name' = [name EXCEPT ![i][2] = @ + 1]
  /\ UNCHANGED <<control, dirs, loop, logger, memory>>

MutantAfterClaim(i) == IF inv[i].cmd = "sft" THEN "pack" ELSE "metrics"
AfterClaim(i) == IF inv[i].cmd = "sft" THEN "pack" ELSE "run.json"

ClaimDir(i) ==
  /\ At(i, "claim") /\ ~Taken(name[i])
  /\ dirs' = WithDir(name[i])
  /\ numIters' = [numIters EXCEPT ![i] = IF inv[i].cmd = "sft" THEN 0 ELSE Args(i).num_iters]
  /\ GoTo(i, AfterClaim(i))
  /\ UNCHANGED <<name, step, minBpb, logger, memory>>

(* Steps 5 to 8 of a finetune: what is packed sets the horizon.  How they  *)
(* may fail is the subject of SftStart.                                    *)
FixHorizon(i) ==
  /\ At(i, "pack")
  /\ IF inv[i].epoch = 0 \/ (Args(i).num_iters # Unset /\ Args(i).num_iters > inv[i].epoch)
     THEN Stop(i, "bad data")
     ELSE /\ numIters' = [numIters EXCEPT ![i] =
                 IF Args(i).num_iters = Unset THEN inv[i].epoch ELSE Args(i).num_iters]
          /\ GoTo(i, "run.json")
          /\ UNCHANGED <<name, dirs, step, minBpb, logger, memory>>

(* write_run_json creates the file and then writes it: what it says of the *)
(* batch is what the run does with it.                                     *)
RunMeta(i) ==
  [run |-> i, whole |-> TRUE, world_size |-> Batch(i).gpus, grad_accum |-> GradAccum(i),
   device_batch |-> Batch(i).device_batch, sequence_len |-> Geometry(i).sequence_len,
   tokens_per_step |-> Batch(i).total_batch]

CreateRunJson(i) ==
  /\ At(i, "run.json") /\ Put(i, "meta", [run |-> i, whole |-> FALSE])
  /\ GoTo(i, "run.json written") /\ UNCHANGED <<name, loop, logger, memory>>

WriteRunJson(i) ==
  /\ At(i, "run.json written") /\ Put(i, "meta", RunMeta(i))
  /\ GoTo(i, "metrics") /\ UNCHANGED <<name, loop, logger, memory>>

CreateMetrics(i) ==
  /\ At(i, "metrics") /\ Put(i, "log", [run |-> i, lines |-> <<>>])
  /\ GoTo(i, "train") /\ UNCHANGED <<name, loop, logger, memory>>

-----------------------------------------------------------------------------
(* MetricsLogger.log: a line into the BufWriter and a flush.  A flush that *)
(* fails has written some of the lines and keeps the rest for the next; a  *)
(* line that finds the BufWriter full is lost.  The first error warns.     *)

Record(i, s, kind, value) ==
  [n |-> Len(emitted[i]) + 1, step |-> s, kind |-> kind, value |-> value]

Pending(i, rec) == IF Len(buffer[i]) < Room THEN Append(buffer[i], rec) ELSE buffer[i]

MutantFlushed(i, lines) == Put(i, "log", [run |-> i, lines |-> lines])
Flushed(i, lines) == Put(i, "log", [run |-> i, lines |-> Lines(i) \o lines])

Log(i, rec) ==
  /\ emitted' = [emitted EXCEPT ![i] = Append(@, rec)]
  /\ \/ /\ Flushed(i, buffer[i] \o <<rec>>)
        /\ buffer' = [buffer EXCEPT ![i] = <<>>]
        /\ UNCHANGED <<warned, upsets>>
     \/ /\ upsets < MaxUpsets /\ upsets' = upsets + 1
        /\ warned' = [warned EXCEPT ![i] = TRUE]
        /\ \E k \in 0 .. Len(Pending(i, rec)) - 1 :
             /\ Flushed(i, SubSeq(Pending(i, rec), 1, k))
             /\ buffer' = [buffer EXCEPT ![i] =
                             SubSeq(Pending(i, rec), k + 1, Len(Pending(i, rec)))]

Goes(i, point) == pc' = [pc EXCEPT ![i] = point] /\ UNCHANGED <<inv, launched, status, name>>

-----------------------------------------------------------------------------
(* The training loop, as far as the artifacts show it. *)

(* A sample of the pool covers the time since the last one: log the        *)
(* high-water mark, then reset it, which leaves it at what is in use.      *)
MutantReset(p) == p
Reset(p) == [p EXCEPT !.high = p.used]

LogMemory(i) ==
  /\ Log(i, Record(i, step[i], "mem", pool[i].high))
  /\ pool' = [pool EXCEPT ![i] = Reset(@)]
  /\ window' = [window EXCEPT ![i] = [last |-> @.since, since |-> pool[i].used]]

StartLoop(i) ==
  /\ At(i, "train")
  /\ IF inv[i].traced
     THEN LogMemory(i) ELSE UNCHANGED <<dirs, logger, memory, upsets>>
  /\ Goes(i, "top") /\ UNCHANGED loop

Cadence(i) == Args(i).cadence
AtEnd(i) == step[i] = numIters[i]
Body(i) == IF AtEnd(i) THEN "end" ELSE "update"

(* The evaluation is logged before the model it may be the best of is saved. *)
Evaluate(i) ==
  /\ At(i, "top")
  /\ IF CadenceFires(step[i], numIters[i], Cadence(i).eval_every)
     THEN \E bpb \in Bpbs :
            LET better == minBpb[i] = -1 \/ bpb < minBpb[i] IN
            /\ Log(i, Record(i, step[i], "eval", bpb))
            /\ minBpb' = [minBpb EXCEPT ![i] = IF better THEN bpb ELSE @]
            /\ Goes(i, IF better THEN "save" ELSE Body(i))
     ELSE Goes(i, Body(i)) /\ UNCHANGED <<minBpb, dirs, logger, upsets>>
  /\ UNCHANGED <<numIters, step, memory>>

Save(i) ==
  /\ At(i, "save")
  /\ Put(i, "best", [run |-> i, step |-> step[i], bpb |-> minBpb[i]])
  /\ Goes(i, Body(i)) /\ UNCHANGED <<upsets, loop, logger, memory>>

(* The optimizer step: the shape of a micro-batch must agree, in usize,    *)
(* with tokens_per_step, one micro-batch at least runs, and the multiplier *)
(* of the learning rates is defined.                                       *)
StepDefined(i) ==
  /\ (GradAccum(i) * Batch(i).device_batch * Geometry(i).sequence_len) % (MaxUsize + 1)
       = Batch(i).total_batch \div Batch(i).gpus
  /\ GradAccum(i) >= 1
  /\ LrDefined(Args(i).schedule, numIters[i])

Allocate(i) ==
  IF inv[i].traced
  THEN \E most \in Peaks, used \in Peaks :
         /\ most >= pool[i].used /\ most >= used
         /\ pool' = [pool EXCEPT ![i] = [used |-> used, high |-> Max({@.high, most})]]
         /\ window' = [window EXCEPT ![i].since = Max({@, most})]
  ELSE UNCHANGED memory

Update(i) ==
  /\ At(i, "update")
  /\ IF ~StepDefined(i) THEN Stop(i, "panicked")
     ELSE IF step[i] % Cadence(i).log_every = 0
     THEN /\ Goes(i, IF inv[i].traced THEN "log memory" ELSE "log")
          /\ Allocate(i) /\ UNCHANGED <<upsets, dirs, loop, logger>>
     ELSE /\ Goes(i, "top") /\ Allocate(i)
          /\ step' = [step EXCEPT ![i] = @ + 1]
          /\ UNCHANGED <<upsets, dirs, numIters, minBpb, logger>>

SampleMemory(i) ==
  /\ At(i, "log memory") /\ LogMemory(i) /\ Goes(i, "log") /\ UNCHANGED loop

LogStep(i) ==
  /\ At(i, "log")
  /\ Log(i, Record(i, step[i], "train", LrMult(Args(i).schedule, step[i], numIters[i])))
  /\ step' = [step EXCEPT ![i] = @ + 1]
  /\ Goes(i, "top") /\ UNCHANGED <<numIters, minBpb, memory>>

Finish(i) == At(i, "end") /\ Stop(i, "done")

-----------------------------------------------------------------------------
(* Any call that may fail does: a file that is missing or full, a loss     *)
(* that is not finite, the device.  A signal leaves no time for drops.     *)

Busy(i) == pc[i] # "over" /\ upsets < MaxUpsets /\ upsets' = upsets + 1

Fail(i) == Busy(i) /\ End(i, "failed")

Kill(i) ==
  /\ Busy(i)
  /\ pc' = [pc EXCEPT ![i] = "over"] /\ status' = [status EXCEPT ![i] = "killed"]
  /\ buffer' = [buffer EXCEPT ![i] = <<>>]
  /\ name' = [name EXCEPT ![i] = IF Claimed(i) THEN @ ELSE <<>>]
  /\ UNCHANGED <<inv, launched, dirs, loop, emitted, warned, memory>>

Work(i) ==
  \/ Launch(i) \/ Begin(i) \/ CheckFlags(i) \/ InitDevice(i) \/ Prepare(i) \/ Fetch(i)
  \/ ReadClock(i) \/ TryName(i) \/ ClaimDir(i) \/ FixHorizon(i)
  \/ CreateRunJson(i) \/ WriteRunJson(i) \/ CreateMetrics(i)
  \/ StartLoop(i) \/ Evaluate(i) \/ Save(i) \/ Update(i) \/ SampleMemory(i)
  \/ LogStep(i) \/ Finish(i)

Next == \E i \in Runs : Work(i) \/ Fail(i) \/ Kill(i)
Spec == Init /\ [][Next]_vars

-----------------------------------------------------------------------------
(* Properties. *)

(* What the validators accept, the program can do: no division by zero, no *)
(* count that wraps, no assertion on a shape, no shard that does not exist *)
(* (validate_pretrain_args, SftConfig::validate, validate_download_args),  *)
(* short of the two borders that none of them looks at.  And what the      *)
(* launcher accepted, the ranks it spawned do not refuse, whatever the     *)
(* borders: not quite the "same bad flag" of main.rs, since the model      *)
(* geometry of pretraining is first checked by the ranks.                  *)
AcceptedFlagsRun ==
  \A i \in Runs :
     /\ status[i] # "no such shard"
     /\ status[i] = "panicked" => Unguarded(i)
     /\ launched[i] => status[i] # "refused"

Alive(i) == pc[i] # "over" /\ Claimed(i)

(* Runs never write into each other's directory, whatever the clock says   *)
(* and whoever gives up: a file is the file of the run that claimed the    *)
(* directory, and the directory of a running run stands (unique_run_dir,   *)
(* RemoveIfEmpty).                                                         *)
RunsApart ==
  /\ \A n \in DOMAIN dirs : \A file \in {"meta", "log", "best"} :
       dirs[n][file] # Absent => /\ name[dirs[n][file].run] = n
                                 /\ \A i \in Runs : Alive(i) /\ name[i] = n => dirs[n][file].run = i
  /\ \A i, j \in Runs :
       Alive(i) => Taken(name[i]) /\ (Alive(j) /\ i # j => name[i] # name[j])

(* Whatever happens to a run, a metrics file or a best model lies beside a *)
(* whole run.json whose batch geometry multiplies out to the tokens of a   *)
(* step, if usize can count a micro-batch of all ranks, and a best model   *)
(* beside the line of its evaluation, unless a line was lost to an I/O     *)
(* error that was warned of.                                               *)
RunHasProvenance ==
  \A n \in DOMAIN dirs :
     LET d == dirs[n] IN
     /\ d.log # Absent \/ d.best # Absent =>
          /\ d.meta # Absent /\ d.meta.whole
          /\ d.meta.world_size * d.meta.device_batch * d.meta.sequence_len <= MaxUsize =>
               d.meta.world_size * d.meta.grad_accum * d.meta.device_batch * d.meta.sequence_len
                 = d.meta.tokens_per_step
     /\ d.best # Absent /\ ~warned[d.best.run] =>
          \E rec \in Range(d.log.lines) :
             rec.kind = "eval" /\ rec.step = d.best.step /\ rec.value = d.best.bpb

(* A finetune that gives up before it writes anything leaves no directory, *)
(* if the println! of its name does not panic and remove_dir does not fail *)
(* on an empty directory.                                                  *)
NoEmptyDirLeft ==
  \A i \in Runs :
     inv[i].cmd = "sft" /\ name[i] # <<>> /\ status[i] \notin {"running", "killed"}
       => ~Taken(name[i]) \/ dirs[name[i]] # EmptyDir
          \/ \E j \in Runs \ {i} : name[j] = name[i]

(* "A killed run keeps everything logged so far": without an I/O error the *)
(* file holds every record, and with them what it holds is in order and    *)
(* without repetition (MetricsLogger).                                     *)
LogKeepsOrder ==
  \A n \in DOMAIN dirs :
     dirs[n].log # Absent =>
        LET lines == dirs[n].log.lines  run == dirs[n].log.run IN
        /\ \A a, b \in DOMAIN lines : a < b => lines[a].n < lines[b].n
        /\ ~warned[run] => lines = emitted[run]

Times(a, b) == a[1] * b[2]

(* The schedule of every accepted run: multipliers in (0, 1], never zero   *)
(* before the end, that never fall during the warmup and never rise after  *)
(* it, down to --final-lr-frac and no further (lr_mult).                   *)
LrUnimodal ==
  \A i \in Runs : At(i, "update") /\ ~AtEnd(i) =>
     LET s == Args(i).schedule
         mult(k) == LrMult(s, k, numIters[i])
         after == {k \in 0 .. numIters[i] - 1 : k >= s.warmup_steps}
     IN  /\ \A k \in 0 .. numIters[i] - 1 : mult(k)[1] > 0 /\ mult(k)[1] <= mult(k)[2]
         /\ \A k \in 1 .. numIters[i] - 1 :
              IF k \in after
              THEN k - 1 \in after => Times(mult(k), mult(k - 1)) <= Times(mult(k - 1), mult(k))
              ELSE Times(mult(k), mult(k - 1)) >= Times(mult(k - 1), mult(k))
         /\ \A k \in after : 4 * mult(k)[1] >= s.final_lr_frac * mult(k)[2]

(* Every memory record shows the most that was in use since the record     *)
(* before it: no allocation falls between two samples and none is shown    *)
(* twice (MemProbe.reset_highs right after each sample of `train`).        *)
PeaksCovered ==
  \A i \in Runs : At(i, "log") /\ inv[i].traced =>
     emitted[i][Len(emitted[i])].value = window[i].last
=============================================================================
