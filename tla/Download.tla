------------------------------ MODULE Download ------------------------------
(***************************************************************************)
(* Fetching files: download_files of data/download.rs, run once after the  *)
(* other, each run by several worker threads, any run killed at any time.  *)
(* The file system is what the code uses of it: a name refers to a file, a *)
(* file created again under its name is the same file truncated, a rename  *)
(* moves the name and is atomic, an open file can be written whatever      *)
(* happened to its name.                                                   *)
(***************************************************************************)
EXTENDS Integers, FiniteSets

CONSTANTS
  Runs,         \* number of runs, one after the other
  Files,        \* the jobs
  Workers,      \* worker threads of a run
  MaxAttempts,  \* RetryPolicy::max_attempts
  Size          \* parts of a file

ASSUME DownloadAssumption ==
  /\ Runs \in Nat \ {0} /\ Workers \in Nat \ {0} /\ MaxAttempts \in Nat \ {0}
  /\ Size \in Nat \ {0} /\ IsFiniteSet(Files)

VARIABLES
  run,      \* the current run, 0 before the first
  dead,     \* the current run was killed
  pc,       \* per job: todo, get, body, rename, done, skipped, failed
  attempt,  \* per job: the attempt it is in
  written,  \* per job: parts written in this attempt
  tmp,      \* <filename>.tmp: the parts it holds, or none
  final,    \* <filename>:     the parts it holds, or none
  stuck     \* history: the last removal of this run's .tmp did not work

fetching == <<run, dead, pc, attempt, written, tmp, final, stuck>>

NoFile == {0}            \* no file under this name
Whole  == 1 .. Size
Settled == {"done", "skipped", "failed"}
Busy    == {"get", "body", "rename"}

RunOver == dead \/ \A f \in Files : pc[f] \in Settled

FetchInit ==
  /\ run = 0 /\ dead = TRUE
  /\ pc = [f \in Files |-> "todo"]
  /\ attempt = [f \in Files |-> 1] /\ written = [f \in Files |-> 0]
  /\ tmp = [f \in Files |-> NoFile] /\ final = [f \in Files |-> NoFile]
  /\ stuck = [f \in Files |-> FALSE]

Start ==
  /\ RunOver /\ run < Runs
  /\ run' = run + 1 /\ dead' = FALSE
  /\ pc' = [f \in Files |-> "todo"]
  /\ attempt' = [f \in Files |-> 1] /\ written' = [f \in Files |-> 0]
  /\ stuck' = [f \in Files |-> FALSE]
  /\ UNCHANGED <<tmp, final>>

Kill ==
  /\ ~RunOver
  /\ dead' = TRUE
  /\ UNCHANGED <<run, pc, attempt, written, tmp, final, stuck>>

-----------------------------------------------------------------------------
(* One job, on one worker.  Definitions named Mutant... are plausible      *)
(* bugs, used by no specification.                                         *)

At(f, point) == ~dead /\ run > 0 /\ pc[f] = point
GoTo(f, point) == pc' = [pc EXCEPT ![f] = point]

(* download_one: a file already there is not fetched. *)
Present(f) == final[f] # NoFile

Take(f) ==
  /\ At(f, "todo")
  /\ Cardinality({g \in Files : pc[g] \in Busy}) < Workers
  /\ GoTo(f, IF Present(f) THEN "skipped" ELSE "get")
  /\ UNCHANGED <<run, dead, attempt, written, tmp, final, stuck>>

(* try_download: the response, then File::create of the temporary name,    *)
(* which truncates what an earlier run has left there.                     *)
Create(f) ==
  /\ At(f, "get")
  /\ tmp' = [tmp EXCEPT ![f] = {}]
  /\ written' = [written EXCEPT ![f] = 0]
  /\ GoTo(f, "body")
  /\ UNCHANGED <<run, dead, attempt, final, stuck>>

(* io::copy; the end of the body is the end of the file. *)
MutantBodyEnds(n) == n > 0
BodyEnds(n) == n = Size

CopyPart(f) ==
  /\ At(f, "body")
  /\ written' = [written EXCEPT ![f] = @ + 1]
  /\ tmp' = [tmp EXCEPT ![f] = @ \cup {written[f] + 1}]
  /\ GoTo(f, IF BodyEnds(written[f] + 1) THEN "rename" ELSE "body")
  /\ UNCHANGED <<run, dead, attempt, final, stuck>>

Rename(f) ==
  /\ At(f, "rename")
  /\ final' = [final EXCEPT ![f] = tmp[f]] /\ tmp' = [tmp EXCEPT ![f] = NoFile]
  /\ GoTo(f, "done")
  /\ UNCHANGED <<run, dead, attempt, written, stuck>>

(* Any step of try_download may fail: the temporary file is removed if it  *)
(* can be (`let _ =` drops the error), and the attempt is repeated or was  *)
(* the last.                                                               *)
MutantNextAttempt(f) == attempt[f]
NextAttempt(f) == attempt[f] + 1

AttemptFails(f) ==
  /\ \E point \in Busy : At(f, point)
  /\ \E gone \in BOOLEAN : /\ tmp' = [tmp EXCEPT ![f] = IF gone THEN NoFile ELSE @]
                           /\ stuck' = [stuck EXCEPT ![f] = ~gone]
  /\ IF attempt[f] < MaxAttempts
     THEN GoTo(f, "get") /\ attempt' = [attempt EXCEPT ![f] = NextAttempt(f)]
     ELSE GoTo(f, "failed") /\ UNCHANGED attempt
  /\ UNCHANGED <<run, dead, written, final>>

JobStep(f) == Take(f) \/ Create(f) \/ CopyPart(f) \/ Rename(f) \/ AttemptFails(f)

FetchNext == Start \/ Kill \/ \E f \in Files : JobStep(f)
FetchSpec == FetchInit /\ [][FetchNext]_fetching
FairFetchSpec == FetchSpec /\ \A f \in Files : WF_fetching(JobStep(f))

-----------------------------------------------------------------------------
(* Properties. *)

(* "An interrupted run never leaves a truncated file under its final       *)
(* name" (download_files), whatever earlier runs left behind; what a run   *)
(* reports as downloaded or skipped is there, whole; and a run that ends   *)
(* by itself has every file it did not report as failed, and leaves no     *)
(* temporary file, not even one of a run that was killed before it, except *)
(* that of a job that failed and whose last removal did not work.          *)
FinalIsWhole ==
  \A f \in Files :
     /\ final[f] \in {NoFile, Whole}
     /\ run > 0 /\ pc[f] \in {"done", "skipped"} => final[f] = Whole
     /\ RunOver /\ ~dead => /\ tmp[f] = NoFile \/ (pc[f] = "failed" /\ stuck[f])
                            /\ pc[f] = "failed" <=> final[f] = NoFile

(* A run that is not killed ends, however the network behaves. *)
RunsEnd == \A n \in 1 .. Runs : run = n ~> RunOver
=============================================================================
