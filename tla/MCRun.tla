-------------------------------- MODULE MCRun --------------------------------
(* One or two invocations: two that run as they should and share a root, or *)
(* one with any of the flags that a validator looks at.                     *)
EXTENDS RunDir

Idle == [cmd |-> "none"]

Schedule == [warmup_steps |-> 1, warmdown_ratio |-> 2, final_lr_frac |-> 0]
EachStep == [log_every |-> 1, eval_every |-> 1, eval_steps |-> 1, sample_every |-> 0,
             sample_tokens |-> 0, sample_temperature |-> 0]
NoEval   == [EachStep EXCEPT !.eval_every = 0]
OneRow   == [gpus |-> 1, device_batch |-> 1, total_batch |-> 2]
Small    == [sequence_len |-> 2, n_head |-> 1, n_embd |-> 2]

Invoked(cmd, args) ==
  [cmd |-> cmd, args |-> args, env |-> <<>>, nccl |-> FALSE, checks |-> TRUE,
   traced |-> FALSE, config |-> Small, epoch |-> 2]

Plain ==
  [batch |-> OneRow, schedule |-> Schedule, cadence |-> EachStep,
   sequence_len |-> 2, n_head |-> 1, n_embd |-> 2, num_iters |-> 2]
Finetune ==
  [batch |-> OneRow, schedule |-> Schedule, cadence |-> EachStep, checkpoint |-> 9,
   num_iters |-> Unset, lrs |-> 1, init_lr_frac |-> 1]
Pretrain(args) == Invoked("pretrain", args)
Sft(args)      == Invoked("sft", args)

Shared == {<<Pretrain([Plain EXCEPT !.num_iters = 1]), Sft(Finetune)>>,
           <<Sft(Finetune), Sft([Finetune EXCEPT !.num_iters = 1])>>}

Batches == [gpus : 0 .. 2, device_batch : 0 .. 2, total_batch : {0, 1, 2, 4}]
Shapes  == [sequence_len : 0 .. 3, n_head : 0 .. 2, n_embd : {0, 1, 2, 4}]
Schedules == [warmup_steps : {0, 1, 3}, warmdown_ratio : Ratio, final_lr_frac : {-1, 0, 1, 4, 5}]
Cadences == [log_every : 0 .. 2, eval_every : 0 .. 2, eval_steps : 0 .. 1,
             sample_every : 0 .. 1, sample_tokens : 0 .. 1, sample_temperature : Float]
Envs == {<<>>, [rank |-> 0, world_size |-> 2, id |-> "hex"],
         [rank |-> 0, world_size |-> 1, id |-> "hex"],
         [rank |-> 1, world_size |-> 1, id |-> "hex"],
         [rank |-> 0, world_size |-> 0, id |-> "hex"],
         [rank |-> Error, world_size |-> 1, id |-> "hex"],
         [rank |-> 0, world_size |-> 1, id |-> "garbled"],
         [rank |-> 0, world_size |-> 1]}

Alone ==
  {[Pretrain([Plain EXCEPT !.batch = b, !.sequence_len = c.sequence_len, !.n_head = c.n_head,
                           !.n_embd = c.n_embd, !.num_iters = 1, !.cadence = NoEval])
    EXCEPT !.nccl = TRUE, !.checks = o] : b \in Batches, c \in Shapes, o \in BOOLEAN}
  \cup {Pretrain([Plain EXCEPT !.schedule = s, !.num_iters = n, !.cadence = NoEval]) :
          s \in Schedules, n \in 0 .. 4}
  \cup {Pretrain([Plain EXCEPT !.cadence = c]) : c \in Cadences}
  \cup {[Pretrain([Plain EXCEPT !.num_iters = n]) EXCEPT !.traced = TRUE] : n \in 1 .. 2}
  \cup {[Sft([Finetune EXCEPT !.batch = b, !.checkpoint = k]) EXCEPT !.config = c, !.nccl = TRUE,
                                                                     !.checks = o] :
          b \in Batches, k \in 8 .. 9, c \in {s \in Shapes : s.n_embd \in {0, 2}},
          o \in BOOLEAN}
  \cup {[Sft([Finetune EXCEPT !.schedule.warmdown_ratio = w, !.cadence = c, !.num_iters = n,
                              !.lrs = l, !.init_lr_frac = f]) EXCEPT !.epoch = e] :
          w \in {2, 5}, c \in {EachStep, NoEval}, n \in {Unset, 0, 1, 3}, l \in Float,
          f \in Float, e \in {0, 1, 2}}
  \cup {[Pretrain([Plain EXCEPT !.batch.gpus = n, !.batch.total_batch = 4])
         EXCEPT !.env = e, !.nccl = b] : n \in 0 .. 2, e \in Envs, b \in BOOLEAN}
  \cup {[Invoked("chat", a) EXCEPT !.config = c] :
          a \in [checkpoint : 8 .. 9, max_tokens : 0 .. 1, temperature : Float], c \in Shapes}
  \cup {Invoked("download", a) :
          a \in [start : 0 .. MaxUsize, num : 0 .. MaxUsize, workers : 0 .. 1,
                 val_shard : {Unset, Error, 0, MaxShard, MaxShard + 1}]}

MCScenarios == Shared \cup {<<a, Idle>> : a \in Alone}
=============================================================================
