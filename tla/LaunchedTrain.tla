--------------------------- MODULE LaunchedTrain ---------------------------
(***************************************************************************)
(* `pretrain --gpus N` as a whole: the launcher process of main.rs         *)
(* (run_launcher, supervise_ranks) and the ranks it spawned, each of which *)
(* runs DdpTrain.  The launcher sees exit statuses only; the ranks see one *)
(* another only through the collectives, where a dead peer is never        *)
(* noticed.                                                                *)
(***************************************************************************)
EXTENDS DdpTrain

VARIABLES
  lpc,      \* spawn, poll, kill, then the launcher's own return: ok, err
            \* ("rank i exited abnormally") or oserr (a call's own error)
  li,       \* index of the child looked at
  exited    \* children whose exit try_wait has reported

launcherVars == <<lpc, li, exited>>
allVars == <<vars, launcherVars>>

RankUnchanged ==
  UNCHANGED <<pc, step, vi, order, minBpb, dataVars, collVars, best, ghostVars>>

-----------------------------------------------------------------------------

Spawn ==
  /\ lpc = "spawn" /\ li < W
  /\ status' = [status EXCEPT ![li] = "running"]
  /\ IF li + 1 < W THEN li' = li + 1 /\ UNCHANGED lpc
                   ELSE li' = 0 /\ lpc' = "poll"
  /\ UNCHANGED exited /\ RankUnchanged

(* The launcher's own call fails and `?` returns at once: dropping a Child *)
(* does not end its process, so the ranks spawned before run on.           *)
OsError ==
  /\ lpc' = "oserr"
  /\ UNCHANGED <<li, exited, status>> /\ RankUnchanged

(* The operating system refuses a process. *)
SpawnFails == lpc = "spawn" /\ OsError

HasExited(r) == status[r] \notin {"unborn", "running"}

(* A launcher that waited for its children one after the other. *)
MutantNextChild(i) == IF i \in exited \/ HasExited(i) THEN i + 1 ELSE i
NextChild(i) == i + 1

(* Kill what try_wait has not reported, in contrast to only the ranks      *)
(* before the failed one.                                                  *)
MutantKills(i) == i \notin exited /\ \E j \in exited : i < j /\ status[j] # "ok"
Kills(i) == i \notin exited

(* `status.success()`. *)
MutantIgnoreStatus(i) == HasExited(i)
Success(i)            == status[i] = "ok"

(* One try_wait of the polling loop. *)
TryWait ==
  /\ lpc = "poll" /\ li < W
  /\ IF li \in exited \/ ~HasExited(li)
     THEN li' = NextChild(li) /\ UNCHANGED <<lpc, exited>>
     ELSE /\ exited' = exited \cup {li}
          /\ IF Success(li) THEN li' = NextChild(li) /\ UNCHANGED lpc
                            ELSE li' = 0 /\ lpc' = "kill"
  /\ UNCHANGED status /\ RankUnchanged

(* `children[i].try_wait()?`, for a child that runs or that has exited. *)
TryWaitFails == lpc = "poll" /\ li < W /\ li \notin exited /\ OsError

(* The end of a round: return if nothing runs any more, else sleep. *)
RoundEnds ==
  /\ lpc = "poll" /\ li = W
  /\ IF exited = Ranks THEN lpc' = "ok" /\ UNCHANGED li
                       ELSE li' = 0 /\ UNCHANGED lpc
  /\ UNCHANGED <<exited, status>> /\ RankUnchanged

(* kill and wait for each child that has not been reported; a child that   *)
(* has exited on its own keeps its status.  `let _ =` drops the errors of  *)
(* both calls: a SIGKILL to one's own child is taken to arrive.            *)
Kill ==
  /\ lpc = "kill" /\ li < W
  /\ IF Kills(li) /\ status[li] = "running"
     THEN status' = [status EXCEPT ![li] = "killed"]
     ELSE UNCHANGED status
  /\ li' = li + 1
  /\ UNCHANGED <<lpc, exited>> /\ RankUnchanged

GiveUp ==
  /\ lpc = "kill" /\ li = W
  /\ lpc' = "err"
  /\ UNCHANGED <<li, exited, status>> /\ RankUnchanged

Supervise == Spawn \/ TryWait \/ RoundEnds \/ Kill \/ GiveUp
Launcher == Supervise \/ SpawnFails \/ TryWaitFails

LaunchInit ==
  /\ InitRanks
  /\ status = [r \in Ranks |-> "unborn"]
  /\ lpc = "spawn" /\ li = 0 /\ exited = {}

LaunchNext == Launcher \/ (Next /\ UNCHANGED launcherVars)

LaunchSpec == LaunchInit /\ [][LaunchNext]_allVars

(* The launcher goes on polling, though no call of its own has to fail, and *)
(* Fairness of DdpTrain for the ranks.                                     *)
LaunchFairness ==
  /\ WF_allVars(Supervise)
  /\ \A r \in Ranks :
       /\ WF_allVars(HostStep(r) /\ UNCHANGED launcherVars)
       /\ WF_allVars(Returned(r) /\ AllAlive /\ UNCHANGED launcherVars)

FairLaunchSpec == LaunchSpec /\ LaunchFairness

-----------------------------------------------------------------------------
(* Properties. *)

(* The launcher's return tells the truth.  Ok means a complete run: every  *)
(* rank applied every update, on equal replicas, and best/ is not half     *)
(* written.  "rank i exited abnormally" has a culprit, and nobody is       *)
(* killed, on any path, before some rank exited abnormally by itself.  An  *)
(* error of spawn or try_wait says nothing of the ranks and blames none.   *)
ExitStatusIsTrue ==
  /\ lpc = "ok" => /\ \A r \in Ranks : status[r] = "ok" /\ Applied(r) = NumIters
                   /\ \A r, q \in Ranks : w[r] = w[q]
                   /\ Torn \notin {best.model, best.meta}
  /\ lpc \in {"kill", "err"} \/ (\E r \in Ranks : status[r] = "killed") =>
        \E q \in exited : status[q] \in {"aborted", "died"}

(* When it returns over the ranks' own exits, for good or ill, the         *)
(* launcher leaves no rank behind, least of all one hung in a collective   *)
(* with a dead peer.  After an error of spawn or try_wait it may leave     *)
(* any number: those paths kill nobody.                                    *)
NoOrphans ==
  lpc \in {"ok", "err"} => \A r \in Ranks : status[r] # "running"

(* Whatever dies, hangs or fails, the launcher returns. *)
LauncherReturns == <>(lpc \in {"ok", "err", "oserr"})

(* README, "best/ ... Checkpoint of the lowest-val-bpb model so far": after *)
(* the run, a best/ whose meta.txt loads has the model that it describes.  *)
ReadmeBestIsCheckpoint ==
  lpc \in {"ok", "err"} /\ best.meta.state = "whole" =>
     best.model.state = "whole" /\ best.model.step = best.meta.step
=============================================================================
