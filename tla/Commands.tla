------------------------------ MODULE Commands ------------------------------
(***************************************************************************)
(* The command line: the flags of the subcommands of main.rs, what their   *)
(* validators accept, and the arithmetic that an accepted command relies   *)
(* on.  A ratio counts quarters; a float that is NaN, infinite or negative *)
(* is -1.  Definitions named Mutant... are plausible bugs, used by no      *)
(* specification.                                                          *)
(***************************************************************************)
EXTENDS Integers, Sequences, FiniteSets

CONSTANTS
  Limit,     \* bound: the numbers a flag is given
  MaxShard,  \* MAX_SHARD
  MaxUsize   \* usize::MAX

ASSUME CommandsAssumption ==
  /\ Limit \in Nat \ {0} /\ MaxShard \in Nat /\ MaxUsize \in Nat
  /\ MaxUsize >= Limit /\ MaxUsize > MaxShard

Error   == -1
Count   == 0 .. Limit
Ratio   == -1 .. 5     \* 0 .. 4 is the interval [0, 1]
Float   == {-1, 0, 1}  \* the sign is all that matters
Unset   == -2
Panics  == -3
Smaller(a, b) == IF a < b THEN a ELSE b

-----------------------------------------------------------------------------
(* The flags. *)

CadenceFlags == [log_every : Count, eval_every : Count, eval_steps : Count,
                 sample_every : Count, sample_tokens : Count,
                 sample_temperature : Float]
ScheduleFlags == [warmup_steps : Count, warmdown_ratio : Ratio, final_lr_frac : Ratio]
BatchFlags == [gpus : Count, device_batch : Count, total_batch : Count]

PretrainArgs == [batch : BatchFlags, schedule : ScheduleFlags, cadence : CadenceFlags,
                 sequence_len : Count, n_head : Count, n_embd : Count,
                 num_iters : Count]

SftArgs == [batch : BatchFlags, schedule : ScheduleFlags, cadence : CadenceFlags,
            checkpoint : 0 .. 9,  \* lines of meta.txt that are there
            num_iters : Count \cup {Unset}, lrs : Float, init_lr_frac : Float]

ChatArgs     == [checkpoint : 0 .. 9, max_tokens : Count, temperature : Float]
DownloadArgs == [start : 0 .. MaxUsize, num : 0 .. MaxUsize, workers : Count,
                 val_shard : Count \cup {Unset, Error}]

-----------------------------------------------------------------------------
(* The identity of a spawned rank, from its environment. *)

ParseChildEnv(env) ==
  IF env = <<>> THEN "none"
  ELSE IF /\ DOMAIN env = {"rank", "world_size", "id"}
          /\ env.rank # Error /\ env.world_size # Error /\ env.id = "hex"
          /\ env.world_size > 0 /\ env.rank < env.world_size
       THEN "rank" ELSE "invalid"

(* The parent of several ranks, one of them, or all there is. *)
Role(env, gpus) ==
  CASE ParseChildEnv(env) = "invalid"            -> "refused"
    [] ParseChildEnv(env) = "none" /\ gpus > 1   -> "launcher"
    [] OTHER                                     -> "worker"

-----------------------------------------------------------------------------
(* What is checked. *)

(* gpus * device_batch * sequence_len: a product that leaves usize panics   *)
(* in a build with overflow checks and wraps, down to 0 too, in one without. *)
PerStep(checks, gpus, device_batch, sequence_len) ==
  LET product == gpus * device_batch * sequence_len IN
  IF product <= MaxUsize THEN product
  ELSE IF checks THEN Panics ELSE product % (MaxUsize + 1)

MutantGrad(checks, gpus, device_batch, sequence_len, total_batch) ==
  LET per_step == PerStep(checks, gpus, device_batch, sequence_len) IN
  CASE gpus = 0 \/ device_batch = 0 \/ sequence_len = 0 -> Error
    [] OTHER -> IF per_step = Panics \/ (per_step = 0 /\ total_batch = 0) THEN Panics
                ELSE IF per_step = 0 \/ total_batch % per_step # 0 THEN Error
                ELSE total_batch \div per_step

(* validate_batch_geometry: the micro-batches of a step, or an error.  0 is *)
(* a multiple of 0, so a product that wrapped to 0 can be divided by.       *)
BatchGeometry(checks, gpus, device_batch, sequence_len, total_batch) ==
  LET per_step == PerStep(checks, gpus, device_batch, sequence_len) IN
  CASE gpus = 0 \/ device_batch = 0 \/ sequence_len = 0 -> Error
    [] OTHER -> IF per_step = Panics \/ (per_step = 0 /\ total_batch = 0) THEN Panics
                ELSE IF per_step = 0 \/ total_batch % per_step # 0 \/ total_batch < per_step
                THEN Error ELSE total_batch \div per_step

(* GptConfig::validate. *)
ConfigOK(sequence_len, n_head, n_embd) ==
  /\ n_head # 0 /\ sequence_len # 0
  /\ n_embd % n_head = 0 /\ (n_embd \div n_head) % 2 = 0

ScheduleOK(s) == s.warmdown_ratio \in 0 .. 4 /\ s.final_lr_frac \in 0 .. 4
SamplesOK(c) ==
  /\ c.sample_every > 0 => c.sample_tokens > 0
  /\ c.sample_temperature >= 0

(* validate_pretrain_args, up to the geometry and as a whole. *)
PretrainSizesOK(a) ==
  /\ a.batch.device_batch > 0 /\ a.sequence_len > 0 /\ a.num_iters > 0
  /\ a.cadence.log_every > 0 /\ ScheduleOK(a.schedule) /\ a.batch.gpus > 0

PretrainFlagsOK(checks, a) ==
  /\ PretrainSizesOK(a)
  /\ BatchGeometry(checks, a.batch.gpus, a.batch.device_batch, a.sequence_len,
                   a.batch.total_batch) \notin {Error, Panics}
  /\ a.cadence.eval_every > 0 => a.cadence.eval_steps > 0
  /\ SamplesOK(a.cadence)

(* SftConfig::validate: here the evaluation is what saves the result. *)
SftFlagsOK(a) ==
  /\ a.batch.device_batch > 0 /\ a.batch.gpus > 0 /\ a.cadence.log_every > 0
  /\ ScheduleOK(a.schedule) /\ a.init_lr_frac > 0 /\ a.lrs > 0
  /\ a.num_iters # 0 /\ a.cadence.eval_steps > 0 /\ a.cadence.eval_every > 0
  /\ SamplesOK(a.cadence)

ChatFlagsOK(a) == a.max_tokens > 0 /\ a.temperature >= 0

(* saturating_add keeps an absurd --num from slipping through. *)
MutantLastShard(a) == (a.start + a.num - 1) % (MaxUsize + 1)
LastShard(a) == Smaller(a.start + (a.num - 1), MaxUsize)

ValShardOK(a) == a.val_shard # Error /\ a.val_shard <= MaxShard
DownloadFlagsOK(a) ==
  a.num > 0 /\ a.workers > 0 /\ LastShard(a) <= MaxShard /\ ValShardOK(a)

(* parse_meta requires every line that write_meta writes. *)
MetaOK(lines, config) ==
  lines = 9 /\ ConfigOK(config.sequence_len, config.n_head, config.n_embd)

-----------------------------------------------------------------------------
(* What an accepted command computes. *)

ShardIndices(a) ==
  LET range == a.start .. a.start + a.num - 1
  IN  range \cup ({a.val_shard} \ {Unset})

HeadDim(config) == config.n_embd \div config.n_head

(* Rope::new asserts an even head_dim, and the model divides by n_head. *)
ModelBuilds(config) == config.n_head # 0 /\ HeadDim(config) % 2 = 0

(* round(ratio * num_iters), a half away from zero. *)
WarmdownIters(s, num_iters) == (2 * s.warmdown_ratio * num_iters + 4) \div 8

(* num_iters - warmdown_iters must not wrap. *)
LrDefined(s, num_iters) == WarmdownIters(s, num_iters) \in 0 .. num_iters

MutantLrMult(s, step, num_iters) ==
  LET down == WarmdownIters(s, num_iters) IN
  IF step < s.warmup_steps THEN <<step, s.warmup_steps>>
  ELSE IF step <= num_iters - down THEN <<1, 1>>
  ELSE LET left == num_iters - step IN
       <<4 * left + (down - left) * s.final_lr_frac, 4 * down>>

(* lr_mult, as a fraction. *)
LrMult(s, step, num_iters) ==
  LET down == WarmdownIters(s, num_iters) IN
  IF step < s.warmup_steps THEN <<step + 1, s.warmup_steps>>
  ELSE IF step <= num_iters - down THEN <<1, 1>>
  ELSE LET left == num_iters - step IN
       <<4 * left + (down - left) * s.final_lr_frac, 4 * down>>

CadenceFires(step, num_iters, every) ==
  every > 0 /\ (step = num_iters \/ (step > 0 /\ step % every = 0))
=============================================================================
