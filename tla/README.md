# rs-nanogpt: formal models, checks and proofs

TLA+ modules that model rs-nanogpt, TLC configurations that check them on small
instances, and TLAPS proofs of what matters most for every instance. File and
line references are to the repository's own tree (`src/train/dist.rs` is the
Rust source of that name; `README.md` in a quotation is the repository's).

## 1. The system

`rs-nanogpt` downloads text, trains a BPE tokenizer, pretrains a GPT, finetunes
it on conversations, and chats with the result. One binary, subcommands:

| Part | State | Operations | Talks to |
|---|---|---|---|
| Training loop `src/train/train_loop.rs` | replica of the parameters, accumulated gradients, loss and count of the step, `min_val_bpb`, step counter | `train`: broadcast, evaluate, save, sample, micro-batches, rescale, reduce, optimizer step, log and check | the other ranks through `DistCtx`, the batch source, checkpoint files |
| Collectives `src/train/dist.rs` | one NCCL communicator per process | join, broadcast, average, sum | the same communicator of the other ranks, matched by call order |
| Launcher `src/main.rs` | child processes, which have been seen to exit | spawn, poll, kill, return | the ranks, through the operating system only |
| Commands `src/main.rs`, `src/train/dist.rs` | flags, the environment by which a rank knows itself | parse, validate, take a role, set up a run | every subcommand |
| Checkpoint `src/checkpoint.rs` | `model.safetensors`, `meta.txt` | save (in place), load | file system |
| Validation `src/eval/loss.rs` | four running sums | score a shard, turn reduced sums into metrics | training loop |
| Optimizer and schedule `src/train/optim.rs`, `schedule.rs` | moments, learning-rate multiplier | step, `lr_mult` | training loop |
| SFT driver `src/sft.rs` | packs, horizon | validation pack with retry, agreement of packs, run | packing, mixture, training loop |
| SFT datasets `src/tasks/smoltalk.rs`, `mmlu.rs`, `gsm8k.rs`, `custom_json.rs` | none | rows of a file to conversations, or an error | mixture |
| SFT packing and mixture `src/tasks/pack.rs`, `mixture.rs` | packed epoch, position of the view | render, best-fit packing, serve rows by rank | SFT driver |
| Pretraining loader `src/data/loader.rs`, `parquet.rs` | document pool, position in the shards | refill, pack a row, split over ranks and splits | training loop |
| Download `src/data/download.rs` | files, temporary files | fetch, retry, rename, worker threads | file system, network |
| Tokenizer `src/tokenizer/` | merges; pair counts and positions while training; linked pieces while encoding | train, encode, decode, render a conversation | everybody |
| Chat and generation `src/chat.rs`, `src/eval/sample.rs`, `src/model/kv_cache.rs` | conversation, KV cache and its position | prefill, sample, append, reset | model |
| Metrics `src/metrics.rs` | run directory, JSON lines in a buffer | create exclusively, append, flush, give up on an error | file system, other runs under the same root |
| Kernels `src/model/*` | the K and V buffers; what the backward keeps | forward by chunks of rows, in one pass or over the cache; backward by recomputation | training loop, generation |

What is hard in it:

- **The ranks.** `--gpus N` runs N processes with no shared memory, coupled only
  by collectives that NCCL matches by call order. Nothing compares the replicas
  after the initial broadcast; a mismatched reduce "succeeds" silently; a rank
  that takes another branch hangs the others for ever. All safety rests on every
  rank branching on reduced values only.
- **Non-finite numbers.** They spread through the gradient average, have to be
  noticed at the next logged step on all ranks together, and must not reach
  `best/`.
- **Failure.** Any rank may die anywhere. A dead peer is not noticed inside a
  collective; the launcher's polling is the only way out.
- **Files.** A checkpoint is two files overwritten in place; downloads are
  renamed into place; runs that start in the same second ask for the same
  directory; metrics lines wait in a buffer when the disk is full.
- **Borders.** The validators stand between the command line and unsigned
  arithmetic: a count that wraps, a division by zero and an assertion on a shape
  are each one wrong comparison away.
- **Masks and offsets.** What the loss scores depends on rendering, truncation,
  packing and a shift by one; what attention sees depends on chunks of rows, the
  position of the span and rows left over in the cache. Nothing fails when they
  are off by one; the model is just worse.
- **Incremental algorithms.** The BPE trainer and encoder keep redundant
  structures (counts, positions, heap entries) that may be stale; the packers
  promise to use every document or conversation exactly once.

What makes each part correct: replicas equal and from rank 0, matched
collectives, one verdict, `best/` the lowest score so far, abort within
`log_every` steps (training); no orphans, an end, a cause for every kill
(launcher, when it returns over the ranks' exits); a complete pair of files (checkpoint); every conversation whole,
once, on one rank, a horizon that fits, and the loss on exactly what the model has
to write (SFT); accepted flags that can be computed, and artifacts that are a run's
own, complete and in order (commands and run directory); no short file under a final
name (download); counts equal to live occurrences and the same tokens as the
naive algorithm (tokenizer); cache equal to the prefix (chat); logits of
the causal context and whole gradients (kernels). `PROJECT.json`
lists the hazards at their lines.

## 2. The modules

| Module | What it is |
|---|---|
| `DdpTrain` | W ranks running `train`, with the collectives of `DistCtx` |
| `LaunchedTrain` | `DdpTrain` under `run_launcher` and `supervise_ranks` |
| `SyncTrain` | the promise: one training run of one model |
| `DdpRefinement` | `DdpTrain` implements `SyncTrain` |
| `DdpLockstep` | the inductive invariant behind the agreement of the ranks |
| `DdpTrainProofs` | TLAPS, in three parts: type correctness, the effect of every action, what a rank notices by itself; `Lockstep`, the agreement properties, the cause of a NaN, the refinement of `SyncTrain`; the launcher leaves nobody, its exit status is true |
| `Commands` | flags, validators, roles, and the arithmetic of an accepted command |
| `RunDir` | an invocation from its flags to the last line of its metrics; two under one root |
| `RunDirProofs` | TLAPS: runs never touch each other's directory, no metrics line is lost silently, accepted flags run, artifacts have a provenance, no empty directory stays |
| `ChatRender` | a conversation as tokens and loss mask |
| `SftTasks` | the dataset parsers, and the mixtures made of them |
| `BestFitPack` | the promise of SFT packing: best fit over a window of the stream |
| `SftPack` | buffer and rows of `pack_epoch`; implements `BestFitPack` |
| `SftPackProofs` | TLAPS: what is packed is whole, complete and by best fit; the loss scores what the model writes, each token once |
| `SftEpoch` | composes the three: from dataset files to the targets of the loss |
| `SftStart` | `run` of `sft.rs` on every rank, to the end of its batches |
| `SftStartProofs` | TLAPS: no rank trains on packs that differ; rows are served once; the advice of a refused snapshot works |
| `PretrainLoader` | the document streams and row packers of all ranks |
| `Download` | fetching files with workers, retries, a temporary name and kills |
| `DataProofs` | TLAPS: a final name only ever holds a whole file; no document of a stride is lost or used twice |
| `BpeVocab` | the vocabulary and the order of pairs, shared by the next three |
| `NaiveBpe` | the promise of BPE training: recount everything, merge from left to right |
| `BpeTrainer` | the incremental trainer; implements `NaiveBpe` |
| `BpeTokenizer` | `BpeTrainer`, then the encoder over the vocabulary it learned |
| `BpeProofs` | TLAPS: the trainer's tables are exact, no two tokens share their bytes, and it does what naive BPE does; the encoder gives what the merges in order give |
| `ChatSession` | the REPL, one turn, generation, the KV cache as positions |
| `ChatSessionProofs` | TLAPS: what the cache shows, that it never overflows, and that the history is as training renders it |
| `GptForward` | the forward over layers, chunks and the KV cache, and the backward |
| `GptForwardProofs` | TLAPS: the backward adds every softmax weight once; logits are causal and the cache is a prefix |
| `MC...` | instances for TLC: `MCDdp`, `MCLaunch`, `MCEpoch`, `MCStart`, `MCLoader`, `MCDownload`, `MCBpe`, `MCChat`, `MCForward`, `MCRun` |

### DdpTrain

`pc[r]` is the point of `train` rank `r` has reached:

    join -> bcast (per parameter) -> [eval -> [save .. metaing]] -> sample
         -> micro -> [count] -> grads (per parameter) -> opt -> [log] -> next step

A collective takes two actions: `Enter` (the rank announces its contribution;
the last one latches them all and releases everybody) and `Leave` (the rank
comes out and uses the result). Between them the others can be anywhere. The
model does not make ranks check that they call the same thing, exactly as NCCL
does not: each reads the latched contributions through its own call. Kernels and
collectives are enqueued on one stream and the host runs ahead; the model shows
the order of that stream, and lets the process die at any point of it.
In a world of 1 the code skips the collectives; exchanging with oneself gives
the same values, except that a missing gradient stays missing, which the
optimizer treats as zero.

Data kept per parameter: the rank its initial value came from (`src`), and after
how many updates it became non-finite (`nanAt`). Gradients are absent, finite or
NaN; `ZeroInit` are the parameters that may store no gradient at step 0. A pass
(`Pass`) may overflow altogether (loss and all gradients) or in some gradients
only, and may find no scored target when targets may be ignored (SFT). The
validation score is a sum of small naturals, or infinity with an empty snapshot,
or NaN. `births` and `scored` are history variables.

`checkpoint::save` is four steps (create and write each of two files). `Die`
stands for every way a process can end where it is: an `Err` from any fallible
call, a panic, a signal, out of memory.

### LaunchedTrain

The launcher spawns rank by rank, then polls `try_wait` round by round. It sees
exit statuses only. On the first failure it kills whatever it has not seen exit,
in order, and returns an error ("err"). Its own calls fail too: a spawn half-way
(`SpawnFails`), `try_wait` at any child (`TryWaitFails`); then it returns at once
("oserr") and kills nobody. The errors of `kill` and `wait`, which the code drops, are
left out: the signal is taken to arrive.

### SyncTrain and the refinement

`SyncTrain` has one model (number of updates, age of its first NaN), one lowest
score and one verdict. `DdpRefinement` maps it to the rank that is ahead;
`ImplementsSyncTrain` is `Sync!Spec`, checked as a property and proved
(`RanksAreOneRun`).

### Commands and RunDir

`Commands` has the flags of the subcommands as records and one operator per
validator; a ratio is counted in quarters, a float only has its sign, NaN counts as
negative. `WarmdownIters` and `LrMult` are exact fractions. `BatchGeometry` counts in
`usize` as the code does: a product beyond `usize::MAX` panics in a build with
overflow checks (`checks` of an invocation) and wraps in one without (`PerStep`).
`--n-embd 0`, which no validator refuses, is among the inputs; whether candle then
builds the layers, fails or panics is left open (`Prepare`).

`RunDir` follows an invocation `i` along

    start -> flags -> device -> prepare -> clock -> claim -> [pack]
          -> run.json (two steps) -> metrics -> train
          -> top -> [save] -> update -> [log memory] -> [log] -> top ... -> end

`Launch` is the parent that validates and becomes the rank 0 it spawns; the other
ranks share its fate (their own life is `DdpTrain`). `TryName` and `ClaimDir` are
the loop of `unique_run_dir`. `Log` is `MetricsLogger::log`: it flushes, or the
flush writes a prefix and keeps the rest, up to `Room` lines, after which a line is
lost. The guard of a finetune is there from the claim on, though one `println!` lies
between the two in the code, and `remove_dir`, whose error the guard ignores, is taken
to work on an empty directory. `Fail` is any `Err` or panic, which drops the values in scope (the buffer
flushes, the guard of a finetune removes an empty directory); `Kill` is a signal,
which drops nothing. Every file carries the number of the run that wrote it. `End`
names why a run stopped, so that a validator's refusal, an assertion and a device
error are told apart. What an evaluation or a step computes is not here: a score is
any of `Bpbs`, memory any of `Peaks`.

### ChatRender, SftTasks and SftEpoch

A text is the number of its tokens; a token is the delimiter it is, or the kind of
text it comes from, with its mask. `Renders` says which conversations render (a
leading system text is merged into the next user text, roles alternate).
`SftTasks` has one `...OK` and one constructor per parser, and the mixtures of
`train_sources` and `val_sources` with their copies and scaled caps. `SftEpoch`
takes the files, builds a mixture, renders, truncates to a row, shuffles in every
order, and packs: its `Init` is everything before the first row, since nothing in
it interleaves with anything. `Staged` is what the directories may hold: per dataset a
sequence of files, per file a sequence of rows of its type, malformed ones included. `Targets` is `batch`, with the shift by one.

### SftPack and BestFitPack

A conversation is its position in the shuffled stream and its length; of the
packed epoch the model keeps where each conversation starts, so what no
conversation covers is padding. `EnterRow` is the refill before a row,
`PackBest` one round of the inner loop with its removal and top-up, `PadRow` the
padding. The assertions of `refill` are the value "panic" of `pc`. `BestFitPack`
knows neither buffer nor rows: only that the longest conversation that fits among
the first `BufferSize` unpacked ones is next.

### SftStart

The points of `run`: size the validation snapshot (`SizeSnapshot`, with the second
attempt of `val_batches`), pack (`PackTrain`), agree (`CheckPacks`,
`PacksChecked`), fix the horizon, join the broadcast with which `train` starts,
serve. Each rank has its own files: `pack` and `val` hold what they would give,
chosen in `Init` and constant. Collectives work as in `DdpTrain`. `FollowAdvice`
is the user who restarts with the `--eval-steps` the message names.

### PretrainLoader

Each rank reads all documents of the train split and keeps those of its stride.
`NextDoc`, `NextPass` and `ReadFails` are the iterations of `refill_pool`,
`PlaceWhole` and `PlaceCropped` those of `pack_row`. Ranks share nothing; they are
in one model because what they read together is the property.

### Download

A file name holds the set of parts it has (`{0}`: no such file); creating the
temporary name truncates it, the rename moves it. `Take`, `Create`, `CopyPart`,
`Rename` and `AttemptFails` are the steps of a job, `Kill` ends the process
between any two of them, `Start` is the next invocation on what is left on disk.
The removal after a failed attempt may fail as well, and the code does not look;
`stuck` is a history variable that remembers that it did.

### BpeVocab, NaiveBpe, BpeTrainer, BpeTokenizer

`BpeTrainer` keeps the words as linked lists and `pair_info` as in the code;
`FindBestPair` takes any best pair (the code's `HashMap` has no order),
`SkipStale` and `MergePlace` are one round of the loop over its places, and the
two assertions of `merge_pair` lead to "panic". `NaiveWords` maps a state in the
middle of a merge to the words with the merge completed, so the naive step is
taken when the pair is picked and everything after must be a stutter.
`WriteVocab` ends the trainer: only the vocabulary remains. `BpeTokenizer` goes on
from there: `EncodePiece` seeds the heap, `PopStale` and `MergeSpans` pop it. Ranks
are looked up by bytes, as `from_file` and the encoder do, with the last of equal
entries winning.

### ChatSession

A session at the prompt, or one sample of the training loop, which is longer than
the context if the prompt is. A token is its kind; a row of the KV buffers is the
index of the token it came from. `ReadLine` starts a turn (`chat_turn` up to
`generate_ids`), `Feed` is `feed_start` with one forward pass, `Draw` the token
drawn (any), `EndTurn` the rest of `chat_turn`. A row is rotated for the position
it stands at, so a row in the right place is a row with the right angle.

### GptForward

An activation is the term that computes it: which weight was applied to what,
rotated for which position, mixed over which keys and values, so that two of them
are equal exactly when the same computation led to both. A training pass and a
decoding call share `AttendChunk` and `EndBlock`; decoding appends to the cache
first (`AppendK`, `AppendV`, in place, at the absolute position), and advances its
length after the last layer. `Fail` ends a call anywhere, with what it has written
to the cache still there; `Reset` keeps the buffers too. The backward
(`GradChunk`) recomputes a chunk from what `FlashAttnOp` kept and adds its
contribution to accumulators that grow with the causal prefix; a gradient is known
by how often each softmax weight was added to it.

Definitions named `Mutant...` are plausible bugs that no specification uses.
Each replaces the definition next to it in one more TLC run, which shows that
the property in question would notice.

## 3. Runs

| Run | Instance | Shows |
|---|---|---|
| `ddp` | 2 ranks, 2 parameters, 3 steps, log and eval every 2, ignored targets, 1 overflow step | collectives match, replicas, best checkpoint, NaN lag and cause, one verdict, refinement |
| `launch` | 3 ranks, 1 parameter, 3 steps, one log and one evaluation | the exit status is true, no orphans after a return over the ranks' exits, the launcher returns |
| `best_is_checkpoint` | 2 ranks, an evaluation at each step | finding, see below |
| `sft_epoch` | 2 to 5 conversations out of all four datasets, rows of 12, window 3, three validation budgets, all shuffles, files that do not load | whole, once; best fit; the loss scores the replies, all of them; the packing ends |
| `sft_start` | 3 ranks with different packs and snapshots, one restart | no training on disagreement, rows served once, the advice works, one end for all |
| `forward` | 2 layers, 2 tokens, contexts of 3, chunks of 1, 2 and 4 rows, 2 failures or resets | causal logits, cache a prefix, whole gradients |
| `run_directory` | 2 invocations under one root, or one with flags at and beyond every border; 2 seconds, 2 errors, deaths or signals, builds with and without overflow checks | what is accepted runs (but for two borders, section 4), runs stay apart, provenance, no empty directory, ordered log, learning rates, memory peaks |
| `loader` | 2 ranks, 225 corpora of 4 rows, pool 2, rows of 4, one failing read | every document of a stride once a pass; rows or a panic |
| `streams_exhaustive` | as `loader` | finding |
| `download` | 3 files of 2 parts, 2 workers, 2 attempts, 2 runs | whole files only, nothing left over but what could not be removed, runs end |
| `chat` | context 16, 3 tokens a reply, lines of up to 2 tokens, prompts of up to 16 | every token is drawn from exactly the window, a conversation never crops, its history is as trained |
| `bpe` | 2 bytes, 4 merges, 3500 corpora of two words (up to 6 and 3 bytes), every piece of up to 6 bytes | exact tables, distinct tokens, naive BPE, the encoder reproduces the training |

`ddp` does not check type correctness, `Lockstep` or the agreement on the lowest
score: these are proved for every instance (section 5).

Why the bounds suffice: two ranks already show every asymmetry (rank 0 is root
and master, rank 1 has no validation batch); three are needed for the launcher
to find one dead between others. Two parameters give different map orders and
an overflow in one of them. Three steps with a cadence of 2 have a step with a
log, one without, one with both before and after; the last evaluation is off the
log cadence. One overflow step (`MaxBirths`) is enough since a NaN never goes
away. `MaxNats = 1` gives equal, better and worse scores. In the `launch` run a
log only at step 0 leaves two updates in a row with nothing but the gradients to
hold the ranks together. Deadlock is not checked because the system really stops:
at the end, or hung in a collective with a dead peer; the liveness properties say
when it must not.

SFT: up to 5 conversations have oversampling (the identity file twice), ties, exact
fits and gaps with a window smaller than the stream; a row of 12 holds two short
conversations or one of which the end is cut, in a reply and in a tool call. The
caps 3, 2 and 2 scale to different fractions under budgets of 1, 4 and 7. In `sft_start`
three ranks are the fewest of which one can have the average of the other two,
so that it alone sees no disagreement; ranks' files are given out in ascending
order, and either packs or snapshots differ (`MCInit`), as which rank has which
does not matter. Run directory: numbers up to 6 include each border of the validators, products that
divide and that do not, and warmdowns of a half; `usize::MAX = 7` makes the sums of
`download` and the products of a batch wrap (2·2·2 to 0, 2·2·3 to 4). Two clock readings let runs start in the same second or not, two
upsets fail one flush and then the run, and `Room = 2` lets a buffer fill up.
Forward: 3 rows in chunks of 2 have a full chunk and a rest, chunks of 4 are wider
than the context; a cache of 3 takes spans 1+1+1, 1+2, 2+1 and 3, and two upsets
leave partial rows behind twice, or behind a reset. Loader: two passes and more happen whenever a stride has fewer
documents than two rows take. Chat: 16 tokens hold two full turns and a third
that just fits, is cut short or is refused; samples start within and beyond the
window. BPE: six bytes of two values contain every overlap of two merges (`aaaa`,
`ababab`) and merges of merges; the encoder is run on pieces that are not in the
corpus too.

Fairness: every process is scheduled (`WF` on `HostStep`), and a collective
whose members are all alive completes (`WF` on `Returned` while `AllAlive`);
nothing is promised once a rank is dead, and no rank is obliged to die. The
launcher's loop has no blocking call besides `wait` on a killed child; it goes on (`WF`
on `Supervise`), but none of its calls is obliged to fail. In
`sft_start` and `loader` each rank is scheduled (`WF` per rank) and no rank is
obliged to die nor a read to fail; in `download` each job that a worker holds goes
on (`WF` per job): `io::copy` ends or fails by the timeouts of the client; packing
is one thread (`WF` of `Next`). `chat`, `bpe`, `forward` and `run_directory` claim
safety only: their loops end by counters.

## 4. Findings

- `best_is_checkpoint`: `README.md:134`. The files of `best/` are overwritten in
  place, so a master killed inside `save` (a peer's death suffices) loses the
  previous best and leaves a torn or newer model under a complete old `meta.txt`.
- `streams_exhaustive`: the comment of `encode_docs` (`src/data/loader.rs:160`),
  "the ranks' streams partition the corpus disjointly and exhaustively", and its
  panic on a failed read. The stride filter runs first: all ranks but one drop the
  error, and with it the rest of the pass, silently.

Worth knowing, without a run of their own:

- `README.md:126` says "A non-finite loss aborts the run." The loss is looked at on
  multiples of `log_every` only, so a run can end `Ok` with a non-finite model
  after its last logged step. `NanAbortLag` states the bound that holds, and is
  proved; `best/` is not touched (`BestIsLowest`).
- The comment of `supervise_ranks` (`src/main.rs:367`) is about the exits of ranks.
  Two errors of the launcher's own return at once and kill nobody, since dropping a
  `Child` does not end it: when rank k cannot be spawned (`src/main.rs:322`), ranks
  0..k-1 wait in `Comm::from_rank` for ever, and when `try_wait` fails
  (`src/main.rs:382`), all ranks run on unsupervised. `NoOrphans` therefore speaks of
  returns over the ranks' exits, and `ExitStatusIsTrue` gives only those a culprit;
  that nobody is killed without one holds on every path.
- `validate_batch_geometry` multiplies `gpus * device_batch * sequence_len` in `usize`
  without a check (`src/train/train_loop.rs:74`). Beyond `usize::MAX` a debug build
  panics; a release build wraps, so that the "whole micro-batches on every rank" of
  its comment may fail, and with a product of 0 and `--total-batch 0` it divides by 0,
  which is what its guards against zero are there to prevent.
- `--n-embd 0` passes `GptConfig::validate` (`src/model/config.rs:47`, 0 is a multiple
  of everything); the initial bounds (`src/model/mlp.rs:25`) and the learning-rate scale
  (`src/train/optim.rs:82`) are then infinite. These two borders are the operator
  `Unguarded`, the one exception in `AcceptedFlagsRun`.
- `src/main.rs:102` validates before spawning, lest every rank report the same bad
  flag; the geometry of the model in pretraining is refused by the ranks all the
  same ("bad geometry" in `RunDir`).
- Why the BPE trainer is deterministic at all: its best pair is a maximum over a
  `HashMap`, and only because no two ids ever have the same bytes (part of
  `TablesExact`) can there be no tie.

## 5. Proofs

Each module of proofs assumes only what its model assumes of the constants:
`ConstantsAssumption` of `DdpTrain` (positive world, parameters, steps and log
cadence, any evaluation cadence), `SessionAssumption` of `ChatSession`,
`StartAssumption` of `SftStart`, `PackAssumption` of `SftPack`, `ModelAssumption` of
`GptForward`, `CommandsAssumption` and `RunDirAssumption` for `RunDir`,
`DownloadAssumption`, `LoaderAssumption`. TLC evaluates them in the runs of these
modules. Where a constant is a set of inputs the assumption only gives their shape: the
scenarios of `RunDir` are records of flags, the corpora of `PretrainLoader` sequences
of row groups that hold texts or nulls, the files of `SftEpoch` rows of the type of
their dataset (`FilesAssumption`; `RenderAssumption` gives the separator of merged texts
a length, `TasksAssumption` positive caps). `CommandsAssumption` says of `usize::MAX` that
it is at least any number a flag is given and greater than the largest shard, since
`download` takes their difference.

`DdpTrainProofs`. `Inv0` is `TypeOK` with `ControlOK`, what each program point
implies (the parameter index is 1 outside the two loops, only rank 0 saves, a
rank inside a collective is at a collective, the status is final exactly at the
end, no parameter is non-finite before the first step). `TypeOK` alone is not
inductive: `step + 1` and the broadcast value need the rest. One lemma per action
(`...Effect`) says what the action does at its rank, that nothing moves
elsewhere, and that `Inv0` is kept; `CanonicalOrder` proves that the i-th entry
of the sorted list is the same on each rank whatever its map's order.
Result: `TypeCorrect`. Two properties need no other rank. `NanAlwaysNoticed`: a
poisoned replica has a non-finite loss from the next step on, every rank compares
the loss at multiples of `LogEvery`, and of `LogEvery` steps in a row one is a
multiple. `BestAlwaysLowest`: a score that is less than another is finite, finite
scores come from finite weights, and the file is not written between the
evaluation and the save (`OwnInv`).

The lockstep. None of the agreement properties is inductive: ranks are at
different places nearly all the time. Between two collectives a rank works
alone, so compare what each brings to its next collective, `Cur(r)`. Local steps
leave it alone; leaving a collective applies `Advance`, an operator of `Cur(r)`
and of the latched contributions, which are the same for all. So `Future(r)`, the
value after the pending collective, is the same for all ranks
(`SameFuture`), released ranks have the same `Cur` (`SameRelease`), ranks about
to update have the same weights (`SameBase`), and what the broadcast has reached
is rank 0's (`FromRankZero`). That conjunction, `Lockstep`, is inductive relative
to `Inv0`; the run `ddp` checked it first. From it follow
`CollectivesAlwaysMatch`, `ReplicasAlwaysAgree`, `MinBpbAlwaysInLockstep` and
`AbortAlwaysUnanimous`, for any number of ranks, parameters and steps.
`NanAlwaysHasCause` needs the lockstep as well: the cause may lie on another rank,
and a step without any scored target is one only if no rank has one, so the
invariant carries an excuse (`Excused`) from the pass of the rank at fault through
the sums all ranks divide by to the update.

`RanksAreOneRun`: the refinement of `SyncTrain`. A step of
the run is done by the first rank that takes it: the update by a rank that leads,
the measurement by the first to leave an improving evaluation, the abort by the
first to see the loss; the same step of the others is a stutter, since by
`Lockstep` they end up with the same value. The abort needs one thing more, the
converse of `NanHasCause`: a loss that is not finite, or a step without targets, has
poisoned the replica by then (`Symptom`). `RunInv` adds that to the invariant;
`Mapped` says what the mapping means on it: every rank that leads will do for
`Ahead`.

The launcher. To a rank the launcher only gives its process and takes it
away; to the launcher a rank only ends. So `Inv0`, `Lockstep` and what a rank knows
about its own save carry over to the composed system, and `LauncherOK` adds what
each point of the launcher knows: which ranks were spawned, seen to end, killed.
`LauncherLeavesNobody`: when it returns over the ranks' exits, nobody runs; both ways
lead through a complete launch. `ExitStatusAlwaysTrue`: it returns success only after
it has seen each rank end well, and then `Lockstep` makes the replicas equal; the
report of an abnormal exit has a rank that failed by itself; and where its own calls
fail (`OsErrorStep`) nobody has been killed yet, nor will be.

`ChatSessionProofs`. That the cache shows the window of the history whenever a
token is drawn (`CachedWindow`) says nothing about the forward pass to come, so
the invariant adds what holds before one: a history that still fits is cached as
a prefix of itself (`CachedPrefix`), and one that has outgrown the context is
computed anew, since then `feed_start` returns the cropped start. The buffers
never overflow because they hold exactly what the rest of the reply may use
(`CapacityFits`): each token lowers the budget by what it adds to the history.
`ChatNeverCrops` needs the budget of `chat_turn` besides (`ReplyFits`). Results:
`SessionInvariant`, `ContextAlwaysWindow` and `ChatNeverCropped`, for any context
length, budgets and conversation.
`HistoryAlwaysRendered` is about what the model has learned to read. At the prompt
the history is the rendering of all turns; during a turn it is the rendering of the
past, the user's line, what was shown so far, and the stop token if the reply ended
with one (`RenderInv`), so that every way a reply can end (`Tails`) is closed by
exactly one delimiter. It needs that rendering one more turn appends to the rendering
of the others, which is shown by counting (`CountUp`): the induction principle is
replaced by the least number that would fail.

`SftStartProofs`. One rank's check does not show that the packs agree: the mean of
different values may be its own. The invariant says that the sums are there for
all ranks or for none (`ReleasedTogether`), that a rank past them found W times
its own values in them (`PastAgreed`), hence W times anybody else's who is past
(`PastEqual`), and that the broadcast, with which training starts, completes only
when all ranks are past (`AllJoin`). Values that are equal W times are equal.
Results: `StartInvariant` and `NeverUpdatesOnDisagreement`, for any number of
ranks, any files and any horizon. With it goes `ServedInv`: a rank that may train has
a horizon within its epoch, two divisions by which nothing is gained, so what it is
served never exceeds its view. The rows are cells of a matrix of width W, of which
a rank is served its column; a position has one line and one column, whence
`RowsAlwaysServedOnce`. `AdviceAlwaysWorks`: the number a refusal names was counted
over the whole file, not under the cap of the first attempt (`AdviceInv`), and it is
lower than the number that failed; so the next attempt, whichever of its two sizes it
settles on, finds as many batches as it asks for.

`SftPackProofs`. `PackSpec` packs any stream in `Seq(Nat)`, empty conversations and
such as do not fit a row included; `SftEpoch!Spec` is the case of a rendered
mixture. The invariant: each conversation taken from the stream is in the buffer or
in the epoch and never in both, rows start at multiples of the capacity, what is
packed in the open row ends before its fill level, and an open row without a
conversation still has all its room, so that a buffer that is not empty fits. A
best fit exists because the candidates are finite, by well-founded induction on
the strict subset order. Result: `PacksWhole`.
For the refinement the buffer has to be the window. Arrivals come in stream order
and a removal keeps the order of the rest, so the buffer is sorted; it is topped up
before each choice, so it is full or the stream is at its end (`Stocked`); a sorted
list of the unpacked conversations read so far, of that length, is the first
`BufferSize` of the unpacked ones (`BufferIsWindow`). Then every step of `PackSpec`
is a step of `BestFitPack` or changes nothing it sees: `PacksBestFit`.
The rest is about the epoch of files (`SftEpoch!Spec`). Whether the model writes the
next token is a state of the text: `assistant_start` and `output_end` open it, the
delimiters of `Hands` close it. `Masks(s, b, a)` says that the piece `s`, begun in state
`b`, leaves state `a` and marks exactly what is written; pieces join (`MasksJoin`), so
what `render_conversation` appends is followed from the parts of an answer to a turn to
a conversation, and cutting it to a row loses nothing before the cut. The parsers make
only roles and contents that this covers, whatever their files hold (`DatasetsLoad`),
and a turn that would not be covered is one that `Renders` refuses. Sequences of any
length are handled by counting (`CountUp`, `SeqGrows`): a set of lengths has a least
member, so a shortest counterexample is refuted. In a row a conversation
begins with BOS, which closes the state, so what stands before it in the row does not
matter, and padding is BOS too (`RowMarked`). With `PackInv` this is `EpochInv`, and no
length it packs trips `refill`. Results: `EpochInvariant`, `LossAlwaysOnReplies`,
`EpochAlwaysPacked`. For `ScoredAlwaysServed` the scored tokens of the epoch are put
in bijection with the scored targets, by row and column, since column 0 holds BOS or
padding and scores nothing, and with those of the conversations, by where each starts.

`RunDirProofs`. The name a run claims was not taken when it claimed it, and every
write is at the run's own name; removal asks for an empty directory and for the
name as well. Result: `RunsStayApart`, whatever the clock, the errors and the flags.
For the metrics file the invariant (`LogInv`) looks at file and `BufWriter` together:
appended, they are in the order of `log`, and without a warning the file has every
record and the buffer none (`Kept`). A write that fails half-way moves the border
between the two, a full buffer leaves a gap at the end, a crash drops the buffer, a
drop flushes it: none changes the order. That a file has one writer only is
`RunsApart` again. Result: `LogAlwaysKeepsOrder`.
`FlagsInv` is what a run may rely on where it is: nothing changes an invocation but
the launcher, who had checked it first, so each point implies the checks before it
(`Past`), and a rank that was spawned cannot be refused by the validators that its
launcher ran. The theorems of arithmetic are stated once: an accepted batch divides,
whether its product wrapped or not, a schedule that is accepted rises, stays and falls,
and no other count wraps. The panics that remain are those of `Unguarded`
(`OnlyOverflowPanics`, `PanicUnguarded`). Results:
`AcceptedAlwaysRuns`, `LrAlwaysUnimodal`.
`ProvInv` is about which files lie together: a metrics file beside a whole `run.json`
of the same run, a best model beside a metrics file whose logger was given its
evaluation; and the high-water mark of the memory pool is the peak since the last
report, also when the report itself allocates. Results: `RunAlwaysHasProvenance`,
`PeaksAlwaysCovered`, both from the conjunction of all three invariants (`FullInv`).
`EmptyInv`: an empty directory belongs to a run that is still in front of its first
file, or to one that was killed there, or to a pretraining that failed before it wrote;
hence `NeverLeavesEmptyDir`.

`GptForwardProofs`. What `FlashAttnOp` keeps of each layer belongs to that layer and
to that context, so the recomputed weight is the weight of the forward; after chunk
c the accumulators hold the contributions of the rows before its end, on a prefix
as wide as that. Result: `GradientsAlwaysComplete`, for any number of layers, any
context and any width of chunks.
What a row should be is a recursive function of the layer. That row p of it does not
change when tokens are appended follows by counting layers, like that each of its
layers is defined; with that the keys and values held for a prefix stay right
when the context grows. `CausalInv` says at each point of a call which layers hold
their fresh rows already (`HeldFor`), what the chunks done so far have mixed, and that
everything below the length is right in every layer: a call writes behind the length
only and moves it last, so that a failure leaves nothing to undo. Results:
`LogitsAlwaysCausal`, `CacheAlwaysHoldsPrefix`.

`DataProofs`, on `Download`. A job that writes has truncated the temporary file first, so what it
holds is counted by the parts written in this attempt, whatever a killed run had left
there; only a job whose final name is free gets so far, so a temporary file never lies
beside a final one for a later job to mistake, and at the end there is none but that
of a failed job whose removal failed (`JobOK`). One file's job shows in no
other. Result: `FinalAlwaysWhole`, for any number of files, workers, attempts and runs.

`DataProofs`, on `PretrainLoader`. Per rank and document the invariant is an equation: times
placed plus times in the pool is times read minus times missed, and zero outside the
stride. `refill_pool` raises both sides or neither; a placement moves one from the pool
to the row, which needs that the index best fit returns, or that of the shortest, is in
the pool, and that `swap_remove` loses nothing but that document (`CountSwapRemove`).
How often a document was read, by division of the position in the stream, moves with
the position. Result: `DocsAlwaysConserved`, for any corpus and any pool.

`BpeProofs`. A word is a list of places whose links lead to the right (`WordOK`), and
the live pairs of all words are a set of triples `<<word, place, pair>>` (`Lives`). The
tables are exact if each count is the number of copies of the live pairs it stands for
(`Exact`, by counting `Copies`), complete if every live pair is listed (`Complete`), and
sorted, a place coming once (`SortedAll`): places of a word are appended from left to
right, and a place is not listed twice for a pair, because the pair at a place only
grows. While a pair is merged (`Merging`), every live place of it is
still to be visited (`Todo`); the new tokens, and what is listed for pairs with them, lie
to the left of the places still to be visited (`IdLeft`, `Behind`), so no place is
listed a second time, and the next live place is the leftmost in its word. Hence
the words with the merge completed (`NaiveWords`) do not change while it is under way
(`WordsKept`), which needs that merging the leftmost occurrence first changes nothing
about the result (`MergePlaceKeeps`). The table of the first words is counted place by
place (`TablesStart`).
For the vocabulary the invariant (`VInv`) says of the bytes of token k that the first
k - 1 merges segment them into the pair it was learned from. Merges never cross the
ends of a stretch that is segmented on its own, so with it the bytes of a token are
segmented into the token alone, and two tokens of the same bytes are one
(`TokensDistinct`). A pair that is picked is one of a word, hence such a stretch.
Results: `TrainedAlways`, `TablesStayExact` and `TrainerImplements`, for any corpus of
non-empty words and any number of merges (`VocabAssumption`). `Segments`, `AddWord` and
the others of `BpeVocab` and `BpeTrainer` are recursive functions; what they are at
n + 1 comes from what they are at n by `RecursionExists`, which is shown by
well-founded induction on sets of numbers.
The encoder's invariant (`EncodeInv`) rests on the vocabulary's alone. The spans of the
piece are a word of tokens with the same links as a word of the trainer (`Spans`,
`Coded`), and that word is half-way through some merge k + 1 of the piece: merges up to
k are done everywhere, merge k + 1 on a stretch at the left (`Half`). Each span has the
bytes of its token, so two neighbours whose bytes together are those of a token are such
a stretch of it, and where the merges have got to shows which token it can be: none
learned up to k, and token k + 1 only if the two are its pair (`Ahead`). Of the
heap: a candidate that is not stale joins two neighbours and has the rank of their bytes
(`HeapSound`), and every two neighbours that make a token are in it with their
generations as they are now (`HeapFull`). So the candidate of the lowest rank, if it is not
stale, is the leftmost pair of merge k + 1 or, once none is left, of the next merge that
has one (`FirstLeads`), popping it does the next step of that merge (`LeadMerged`), and
when the heap is empty all merges are done (`NoneLeft`). That ids have bytes of their
own makes the tokens that are read off the spans those of the word. Result:
`EncodesAlways`, for any set of non-empty pieces (`PiecesAssumption`) and any vocabulary
that training can end with.

So every safety property of the passing runs, invariant, action property or refinement,
is a theorem.
Liveness (`OneVerdict`, `LauncherReturns`, `PackingEnds`, `OneStart`, `RowsOrPanic`,
`RunsEnd`) stays with TLC for good, since TLAPS has no reasoning about fairness
and `ENABLED` here. Of `PackingEnds` the half that is safety is proved: no conversation
of an epoch trips `refill` (`EpochAlwaysPacked`).

## 6. What could come next

The parameter groups and moments of `src/train/optim.rs`, the streaming decoder
(`TokenDecoder`), the budgets of the corpus reader, the splitting of text into words, the
text of the vocabulary file.

## 7. Not modelled

- Numbers: rounding, dtypes, the softcap, batch and heads; a tensor is finite or
  not, or the term that computes it. The masks and byte counts of single tokens in
  the validation score; the groups and moments of the optimizer.
- Text: the splitting by the regular expression, decoding, the vocabulary's file
  format (a file cut at the end of a line loads as a smaller vocabulary), the
  wording of prompts and of the datasets, console output.
- The drivers of the tokenizer and of the standalone evaluation, whose only state is
  what the modelled parts keep; the evaluation of the tokenizer; test support.
- Sizes that memory cannot hold: they end a run as any failing call may (`Fail`). Of
  counts in `usize`, `sequence_len + 1` at the maximum, and the rounding of `num_iters`
  in floating point above 2^53.
- Devices: which one is chosen, the CUDA calls behind the memory figures.
- Collisions of the packs' fingerprints, and two download invocations at a time, for
  which the code has no lock and no document a claim.

`PROJECT.json` gives the reason for each component.
