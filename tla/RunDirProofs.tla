---------------------------- MODULE RunDirProofs ----------------------------
(***************************************************************************)
(* Runs that share a runs root never write into each other's directory,    *)
(* for any invocations, clock readings, I/O errors, deaths and signals.    *)
(* The argument: a name is claimed only while nobody holds it, everything  *)
(* a run writes goes under the name it claimed and says so, and what a run *)
(* removes is its own.  And a metrics file loses no record silently: file  *)
(* and buffer together are the records given to the logger, in order, with *)
(* gaps only after an error that was warned of.                            *)
(* Then what the flags allow: an accepted run does no undefined            *)
(* arithmetic, its schedule rises, stays and falls; its artifacts go       *)
(* together; and it leaves no empty directory behind.                      *)
(***************************************************************************)
EXTENDS RunDir, SequenceTheorems, TLAPS

-----------------------------------------------------------------------------
(* The inductive invariant. *)

Early == {"start", "flags", "device", "prepare", "fetch", "clock"}
Late  == {"pack", "run.json", "run.json written", "metrics", "train", "top", "save",
          "update", "log memory", "log", "end"}
Artifacts == {"meta", "log", "best"}

Phases ==
  /\ DOMAIN pc = Runs /\ name = [i \in Runs |-> name[i]]
  /\ \A i \in Runs :
       /\ pc[i] \in Early \cup {"claim"} \cup Late \cup {"over"}
       /\ pc[i] \in Early => name[i] = <<>>
       /\ pc[i] \in Late \cup {"claim"} => 1 \in DOMAIN name[i]

(* A file is under the name its run claimed. *)
Own(n, file) ==
  dirs[n][file] # Absent =>
    /\ dirs[n][file].run \in Runs
    /\ name[dirs[n][file].run] = n
    /\ pc[dirs[n][file].run] \in Late \cup {"over"}
    /\ \A i \in Runs : pc[i] \in Late /\ name[i] = n => dirs[n][file].run = i

Owned ==
  \A n \in DOMAIN dirs :
    /\ DOMAIN dirs[n] = Artifacts
    /\ \A file \in Artifacts : Own(n, file)

Held ==
  \A i \in Runs : pc[i] \in Late =>
    /\ name[i] \in DOMAIN dirs
    /\ \A j \in Runs : pc[j] \in Late /\ i # j => name[i] # name[j]

ApartInv == Phases /\ Owned /\ Held

(* Only a run past its claim has a name that counts. *)
LEMMA NamedPhases ==
  ASSUME ApartInv, NEW i \in Runs, pc[i] # "over"
  PROVE  Claimed(i) <=> pc[i] \in Late
<1>1. 1 \in DOMAIN name[i] => name[i] # <<>>
  OBVIOUS
<1>2. CASE pc[i] \in Early
  BY <1>2 DEF ApartInv, Phases, Claimed, Early, Late
<1>3. CASE pc[i] = "claim"
  BY <1>3 DEF Claimed, Late
<1>4. CASE pc[i] \in Late
  BY <1>1, <1>4 DEF ApartInv, Phases, Claimed, Late
<1> QED BY <1>2, <1>3, <1>4 DEF ApartInv, Phases

-----------------------------------------------------------------------------
(* What a step of a run may do to the root. *)

MovesTo(i, points) == \E point \in points : pc' = [pc EXCEPT ![i] = point]

(* Nothing: it moves on, before the claim or after it. *)
LEMMA QuietKeeps ==
  ASSUME ApartInv, NEW i \in Runs, UNCHANGED <<dirs, name>>,
         \/ pc[i] \in Early /\ MovesTo(i, Early)
         \/ pc[i] \in Late /\ MovesTo(i, Late)
         \/ UNCHANGED pc
  PROVE  ApartInv'
<1>1. CASE UNCHANGED pc
  BY <1>1 DEF ApartInv, Phases, Owned, Own, Held
<1>2. CASE pc[i] \in Early /\ MovesTo(i, Early)
  <2>1. PICK point \in Early : pc' = [pc EXCEPT ![i] = point]
    BY <1>2 DEF MovesTo
  <2>2. Phases'
    BY <1>2, <2>1 DEF ApartInv, Phases, Early, Late
  <2>3. \A j \in Runs : /\ pc'[j] \in Late <=> pc[j] \in Late
                        /\ pc[j] \in Late \cup {"over"} => pc'[j] \in Late \cup {"over"}
    BY <1>2, <2>1 DEF ApartInv, Phases, Early, Late
  <2>4. Owned'
    BY <2>3 DEF ApartInv, Owned, Own
  <2> QED BY <2>2, <2>3, <2>4 DEF ApartInv, Held
<1>3. CASE pc[i] \in Late /\ MovesTo(i, Late)
  <2>1. PICK point \in Late : pc' = [pc EXCEPT ![i] = point]
    BY <1>3 DEF MovesTo
  <2>2. Phases'
    BY <1>3, <2>1 DEF ApartInv, Phases, Early, Late
  <2>3. \A j \in Runs : /\ pc'[j] \in Late <=> pc[j] \in Late
                        /\ pc[j] \in Late \cup {"over"} => pc'[j] \in Late \cup {"over"}
    BY <1>3, <2>1 DEF ApartInv, Phases, Early, Late
  <2>4. Owned'
    BY <2>3 DEF ApartInv, Owned, Own
  <2> QED BY <2>2, <2>3, <2>4 DEF ApartInv, Held
<1> QED BY <1>1, <1>2, <1>3

(* It writes a file of its own, and may end with that. *)
LEMMA WriteKeeps ==
  ASSUME ApartInv, NEW i \in Runs, pc[i] \in Late, name' = name,
         NEW file \in Artifacts, NEW content, content.run = i,
         Put(i, file, content), MovesTo(i, Late \cup {"over"})
  PROVE  ApartInv'
<1>1. PICK point \in Late \cup {"over"} : pc' = [pc EXCEPT ![i] = point]
  BY DEF MovesTo
<1>2. Phases'
  <2>1. DOMAIN pc = Runs /\ name' = [j \in Runs |-> name'[j]]
    BY DEF ApartInv, Phases
  <2>2. DOMAIN pc' = Runs
    BY <1>1, <2>1
  <2>3. \A j \in Runs : pc'[j] = IF j = i THEN point ELSE pc[j]
    BY <1>1, <2>1
  <2>4. ASSUME NEW j \in Runs
        PROVE  /\ pc'[j] \in Early \cup {"claim"} \cup Late \cup {"over"}
               /\ pc'[j] \in Early => name[j] = <<>>
               /\ pc'[j] \in Late \cup {"claim"} => 1 \in DOMAIN name[j]
    <3>1. CASE j = i
      BY <3>1, <2>3 DEF ApartInv, Phases, Early, Late
    <3>2. CASE j # i
      BY <3>2, <2>3 DEF ApartInv, Phases
    <3> QED BY <3>1, <3>2
  <2> QED BY <2>1, <2>2, <2>4 DEF Phases
<1>3. \A j \in Runs : /\ pc'[j] \in Late => pc[j] \in Late
                      /\ pc[j] \in Late \cup {"over"} => pc'[j] \in Late \cup {"over"}
  BY <1>1 DEF ApartInv, Phases
<1>4. name[i] \in DOMAIN dirs /\ DOMAIN dirs[name[i]] = Artifacts
  BY DEF ApartInv, Held, Owned
<1>5. /\ DOMAIN dirs' = DOMAIN dirs
      /\ \A n \in DOMAIN dirs : DOMAIN dirs'[n] = Artifacts
      /\ \A n \in DOMAIN dirs, other \in Artifacts :
           dirs'[n][other] = IF n = name[i] /\ other = file THEN content ELSE dirs[n][other]
  BY <1>4 DEF Put, ApartInv, Owned
<1>6. ASSUME NEW n \in DOMAIN dirs, NEW other \in Artifacts PROVE Own(n, other)'
  <2>1. Own(n, other)
    BY DEF ApartInv, Owned
  <2>2. CASE n = name[i] /\ other = file
    <3>1. dirs'[n][other] = content
      BY <2>2, <1>5
    <3>2. pc'[i] \in Late \cup {"over"}
      BY <1>3
    <3>3. \A j \in Runs : pc'[j] \in Late /\ name[j] = n => j = i
      BY <2>2, <1>3 DEF ApartInv, Held
    <3> QED BY <2>2, <3>1, <3>2, <3>3 DEF Own
  <2>3. CASE ~(n = name[i] /\ other = file)
    BY <2>1, <2>3, <1>3, <1>5 DEF Own
  <2> QED BY <2>2, <2>3
<1>7. Owned'
  BY <1>5, <1>6 DEF Owned
<1>8. Held'
  BY <1>3, <1>5 DEF ApartInv, Held
<1> QED BY <1>2, <1>7, <1>8 DEF ApartInv

(* It ends without a trace; a name it had only tried is nobody's. *)
LEMMA EndKeeps ==
  ASSUME ApartInv, NEW i \in Runs, pc[i] # "over", pc' = [pc EXCEPT ![i] = "over"],
         name' = [name EXCEPT ![i] = IF Claimed(i) THEN @ ELSE <<>>],
         \/ dirs' = dirs
         \/ Claimed(i) /\ dirs' = Restrict(dirs, DOMAIN dirs \ {name[i]})
  PROVE  ApartInv'
<1>1. Claimed(i) <=> pc[i] \in Late
  BY NamedPhases
<1>2. Phases'
  BY DEF ApartInv, Phases, Early, Late
<1>3. \A j \in Runs : /\ pc'[j] \in Late <=> pc[j] \in Late /\ j # i
                      /\ pc[j] \in Late \cup {"over"} =>
                           pc'[j] \in Late \cup {"over"} /\ name'[j] = name[j]
                      /\ j # i => name'[j] = name[j]
  BY <1>1 DEF ApartInv, Phases, Late
<1>4. /\ DOMAIN dirs' \subseteq DOMAIN dirs
      /\ \A n \in DOMAIN dirs' : dirs'[n] = dirs[n]
      /\ \A n \in DOMAIN dirs : n \notin DOMAIN dirs' => Claimed(i) /\ n = name[i]
  BY DEF Restrict
<1>5. ASSUME NEW n \in DOMAIN dirs', NEW file \in Artifacts PROVE Own(n, file)'
  <2>1. Own(n, file) /\ dirs'[n][file] = dirs[n][file]
    BY <1>4 DEF ApartInv, Owned
  <2>2. \A j \in Runs : pc'[j] \in Late => pc[j] \in Late /\ name'[j] = name[j]
    BY <1>3
  <2> QED BY <2>1, <2>2, <1>3 DEF Own
<1>6. Owned'
  BY <1>4, <1>5 DEF ApartInv, Owned
<1>7. Held'
  BY <1>1, <1>3, <1>4 DEF ApartInv, Held
<1> QED BY <1>2, <1>6, <1>7 DEF ApartInv

-----------------------------------------------------------------------------
(* Names. *)

LEMMA ReadClockKeeps ==
  ASSUME ApartInv, NEW i \in Runs, ReadClock(i) PROVE ApartInv'
<1>1. PICK s \in Seconds : name' = [name EXCEPT ![i] = <<s, 1>>]
  BY DEF ReadClock
<1>2. /\ pc[i] = "clock" /\ pc' = [pc EXCEPT ![i] = "claim"] /\ dirs' = dirs
  BY DEF ReadClock, At, GoTo
<1>3. 1 \in DOMAIN <<s, 1>>
  OBVIOUS
<1>4. Phases'
  BY <1>1, <1>2, <1>3 DEF ApartInv, Phases, Early, Late
<1>5. \A j \in Runs : /\ pc'[j] \in Late <=> pc[j] \in Late
                      /\ pc[j] \in Late \cup {"over"} =>
                           pc'[j] \in Late \cup {"over"} /\ name'[j] = name[j]
  BY <1>1, <1>2 DEF ApartInv, Phases, Late
<1>6. Owned'
  BY <1>2, <1>5 DEF ApartInv, Owned, Own
<1> QED BY <1>2, <1>4, <1>5, <1>6 DEF ApartInv, Held

LEMMA TryNameKeeps ==
  ASSUME ApartInv, NEW i \in Runs, TryName(i) PROVE ApartInv'
<1>1. /\ pc[i] = "claim" /\ pc' = pc /\ dirs' = dirs
      /\ name' = [name EXCEPT ![i] = [name[i] EXCEPT ![2] = name[i][2] + 1]]
  BY DEF TryName, At, control
<1>2. Phases'
  BY <1>1 DEF ApartInv, Phases, Early, Late
<1>3. \A j \in Runs : pc[j] \in Late \cup {"over"} => name'[j] = name[j]
  BY <1>1 DEF ApartInv, Phases, Late
<1>4. Owned'
  BY <1>1, <1>3 DEF ApartInv, Owned, Own
<1> QED BY <1>1, <1>2, <1>3, <1>4 DEF ApartInv, Held

(* create_dir is exclusive: nobody alive holds the name. *)
LEMMA ClaimDirKeeps ==
  ASSUME ApartInv, NEW i \in Runs, ClaimDir(i) PROVE ApartInv'
<1>1. /\ pc[i] = "claim" /\ name[i] \notin DOMAIN dirs /\ name' = name
      /\ dirs' = WithDir(name[i])
      /\ pc' = [pc EXCEPT ![i] = AfterClaim(i)] /\ AfterClaim(i) \in Late
  BY DEF ClaimDir, At, Taken, GoTo, AfterClaim, Late
<1>2. Phases'
  BY <1>1 DEF ApartInv, Phases, Early, Late
<1>3. \A j \in Runs : /\ pc'[j] \in Late => pc[j] \in Late \/ j = i
                      /\ pc[j] \in Late \cup {"over"} =>
                           pc'[j] \in Late \cup {"over"} /\ j # i
  BY <1>1 DEF ApartInv, Phases, Late
<1>4. /\ DOMAIN dirs' = DOMAIN dirs \cup {name[i]}
      /\ \A n \in DOMAIN dirs : dirs'[n] = dirs[n]
      /\ dirs'[name[i]] = EmptyDir
  BY <1>1 DEF WithDir
<1>5. ASSUME NEW n \in DOMAIN dirs', NEW file \in Artifacts PROVE Own(n, file)'
  <2>1. CASE n = name[i]
    BY <2>1, <1>4 DEF Own, EmptyDir, Artifacts
  <2>2. CASE n # name[i]
    <3>1. n \in DOMAIN dirs /\ Own(n, file) /\ dirs'[n][file] = dirs[n][file]
      BY <2>2, <1>4 DEF ApartInv, Owned
    <3> QED BY <2>2, <3>1, <1>1, <1>3 DEF Own
  <2> QED BY <2>1, <2>2
<1>6. DOMAIN EmptyDir = Artifacts
  BY DEF EmptyDir, Artifacts
<1>7. Owned'
  BY <1>4, <1>5, <1>6 DEF ApartInv, Owned
<1>8. Held'
  BY <1>1, <1>3, <1>4 DEF ApartInv, Held
<1> QED BY <1>2, <1>7, <1>8 DEF ApartInv

-----------------------------------------------------------------------------
(* Ends. *)

LEMMA EndActionKeeps ==
  ASSUME ApartInv, NEW i \in Runs, NEW why, pc[i] # "over", End(i, why)
  PROVE  ApartInv'
<1>1. /\ pc' = [pc EXCEPT ![i] = "over"]
      /\ name' = [name EXCEPT ![i] = IF Claimed(i) THEN @ ELSE <<>>]
  BY DEF End
<1>2. PICK flushed \in BOOLEAN : DropAll(i, flushed)
  BY DEF End
<1>3. CASE Claimed(i) /\ HasLog(i)
  <2>1. pc[i] \in Late
    BY <1>3, NamedPhases
  <2>2. name' = name
    BY <1>1, <1>3 DEF ApartInv, Phases
  <2>3. PICK lines : Put(i, "log", [run |-> i, lines |-> lines])
    BY <1>2, <1>3 DEF DropAll
  <2>4. MovesTo(i, Late \cup {"over"})
    BY <1>1 DEF MovesTo
  <2> QED BY <2>1, <2>2, <2>3, <2>4, WriteKeeps DEF Artifacts
<1>4. CASE ~(Claimed(i) /\ HasLog(i))
  <2>1. \/ dirs' = dirs
        \/ Claimed(i) /\ dirs' = Restrict(dirs, DOMAIN dirs \ {name[i]})
    BY <1>2, <1>4 DEF DropAll
  <2> QED BY <2>1, <1>1, EndKeeps
<1> QED BY <1>3, <1>4

(* A record of the metrics log is a write of the run's own file. *)
LEMMA LogIsAWrite ==
  ASSUME NEW i \in Runs, NEW rec, Log(i, rec)
  PROVE  \E lines : Put(i, "log", [run |-> i, lines |-> lines])
BY DEF Log, Flushed

LEMMA LogKeeps ==
  ASSUME ApartInv, NEW i \in Runs, pc[i] \in Late, NEW rec, Log(i, rec),
         NEW point \in Late, Goes(i, point)
  PROVE  ApartInv'
<1>1. PICK lines : Put(i, "log", [run |-> i, lines |-> lines])
  BY LogIsAWrite
<1>2. name' = name /\ MovesTo(i, Late \cup {"over"})
  BY DEF Goes, MovesTo
<1> QED BY <1>1, <1>2, WriteKeeps DEF Artifacts

-----------------------------------------------------------------------------
(* The steps of a run. *)

(* From the command line to the clock. *)
LEMMA BeforeClaimKeeps ==
  ASSUME ApartInv, NEW i \in Runs,
         \/ Launch(i) \/ Begin(i) \/ CheckFlags(i) \/ InitDevice(i) \/ Prepare(i) \/ Fetch(i)
  PROVE  ApartInv'
<1>1. pc[i] \in Early /\ pc[i] # "over"
  BY DEF Launch, Begin, CheckFlags, InitDevice, Prepare, Fetch, At, Early
<1>2. ASSUME NEW why, Stop(i, why) PROVE ApartInv'
  BY <1>1, <1>2, EndActionKeeps DEF Stop
<1>3. ASSUME NEW point \in Early, GoTo(i, point), UNCHANGED <<name, dirs>> PROVE ApartInv'
  BY <1>1, <1>3, QuietKeeps DEF GoTo, MovesTo
<1>4. CASE Launch(i)
  BY <1>2, <1>4, QuietKeeps DEF Launch
<1>5. CASE Begin(i)
  <2>1. \/ Stop(i, "refused")
        \/ GoTo(i, "flags") /\ UNCHANGED <<name, dirs>>
    BY <1>5 DEF Begin, Role
  <2> QED BY <1>2, <1>3, <2>1 DEF Early
<1>6. CASE CheckFlags(i)
  BY <1>2, <1>3, <1>6 DEF CheckFlags, Early
<1>7. CASE InitDevice(i)
  BY <1>2, <1>3, <1>7 DEF InitDevice, Early
<1>8. CASE Prepare(i)
  BY <1>2, <1>3, <1>8 DEF Prepare, Early
<1>9. CASE Fetch(i)
  BY <1>2, <1>9 DEF Fetch
<1> QED BY <1>4, <1>5, <1>6, <1>7, <1>8, <1>9

(* The run directory is filled. *)
LEMMA PrepareDirKeeps ==
  ASSUME ApartInv, NEW i \in Runs,
         FixHorizon(i) \/ CreateRunJson(i) \/ WriteRunJson(i) \/ CreateMetrics(i)
  PROVE  ApartInv'
<1>1. pc[i] \in Late /\ pc[i] # "over"
  BY DEF FixHorizon, CreateRunJson, WriteRunJson, CreateMetrics, At, Late
<1>2. ASSUME NEW point \in Late, GoTo(i, point), UNCHANGED name, NEW file \in Artifacts,
             NEW content, content.run = i, Put(i, file, content)
      PROVE  ApartInv'
  BY <1>1, <1>2, WriteKeeps DEF GoTo, MovesTo
<1>3. CASE FixHorizon(i)
  <2>1. CASE Stop(i, "bad data")
    BY <2>1, <1>1, EndActionKeeps DEF Stop
  <2>2. CASE GoTo(i, "run.json") /\ UNCHANGED <<name, dirs>>
    BY <2>2, <1>1, QuietKeeps DEF GoTo, MovesTo, Late
  <2> QED BY <1>3, <2>1, <2>2 DEF FixHorizon
<1>4. CASE CreateRunJson(i)
  BY <1>2, <1>4 DEF CreateRunJson, Late, Artifacts
<1>5. CASE WriteRunJson(i)
  <2>1. RunMeta(i).run = i
    BY DEF RunMeta
  <2> QED BY <1>2, <1>5, <2>1 DEF WriteRunJson, Late, Artifacts
<1>6. CASE CreateMetrics(i)
  BY <1>2, <1>6 DEF CreateMetrics, Late, Artifacts
<1> QED BY <1>3, <1>4, <1>5, <1>6

(* The training loop. *)
LEMMA LoopKeeps ==
  ASSUME ApartInv, NEW i \in Runs,
         \/ StartLoop(i) \/ Evaluate(i) \/ Save(i) \/ Update(i) \/ SampleMemory(i)
         \/ LogStep(i) \/ Finish(i)
  PROVE  ApartInv'
<1>1. pc[i] \in Late /\ pc[i] # "over"
  BY DEF StartLoop, Evaluate, Save, Update, SampleMemory, LogStep, Finish, At, Late
<1>2. Body(i) \in Late
  BY DEF Body, Late
<1>3. ASSUME NEW point \in Late, Goes(i, point), UNCHANGED dirs PROVE ApartInv'
  BY <1>1, <1>3, QuietKeeps DEF Goes, MovesTo
<1>4. CASE StartLoop(i)
  BY <1>1, <1>3, <1>4, LogKeeps DEF StartLoop, LogMemory, Late
<1>5. CASE Evaluate(i)
  <2>1. CASE CadenceFires(step[i], numIters[i], Cadence(i).eval_every)
    BY <2>1, <1>1, <1>2, <1>5, LogKeeps DEF Evaluate, Late
  <2>2. CASE ~CadenceFires(step[i], numIters[i], Cadence(i).eval_every)
    BY <2>2, <1>2, <1>3, <1>5 DEF Evaluate
  <2> QED BY <2>1, <2>2
<1>6. CASE Save(i)
  <2>1. PICK content : Put(i, "best", content) /\ content.run = i
    BY <1>6 DEF Save
  <2>2. name' = name /\ MovesTo(i, Late \cup {"over"})
    BY <1>2, <1>6 DEF Save, Goes, MovesTo
  <2> QED BY <2>1, <2>2, <1>1, WriteKeeps DEF Artifacts
<1>7. CASE Update(i)
  <2>1. CASE Stop(i, "panicked")
    BY <2>1, <1>1, EndActionKeeps DEF Stop
  <2>2. CASE ~Stop(i, "panicked")
    BY <2>2, <1>3, <1>7 DEF Update, Late
  <2> QED BY <2>1, <2>2
<1>8. CASE SampleMemory(i)
  BY <1>1, <1>8, LogKeeps DEF SampleMemory, LogMemory, Late
<1>9. CASE LogStep(i)
  BY <1>1, <1>9, LogKeeps DEF LogStep, Late
<1>10. CASE Finish(i)
  BY <1>1, <1>10, EndActionKeeps DEF Finish, Stop
<1> QED BY <1>4, <1>5, <1>6, <1>7, <1>8, <1>9, <1>10

LEMMA UpsetKeeps ==
  ASSUME ApartInv, NEW i \in Runs, Fail(i) \/ Kill(i) PROVE ApartInv'
<1>1. pc[i] # "over"
  BY DEF Fail, Kill, Busy
<1>2. CASE Fail(i)
  BY <1>1, <1>2, EndActionKeeps DEF Fail
<1>3. CASE Kill(i)
  BY <1>1, <1>3, EndKeeps DEF Kill
<1> QED BY <1>2, <1>3

LEMMA NextKeeps ==
  ASSUME ApartInv, [Next]_vars PROVE ApartInv'
<1>1. CASE UNCHANGED vars
  BY <1>1 DEF vars, control, ApartInv, Phases, Owned, Own, Held
<1>2. ASSUME NEW i \in Runs, Work(i) PROVE ApartInv'
  BY <1>2, BeforeClaimKeeps, ReadClockKeeps, TryNameKeeps, ClaimDirKeeps, PrepareDirKeeps,
     LoopKeeps DEF Work
<1> QED BY <1>1, <1>2, UpsetKeeps DEF Next

LEMMA InitApart == Init => ApartInv
<1> SUFFICES ASSUME Init PROVE ApartInv
  OBVIOUS
<1>1. DOMAIN dirs = {}
  BY DEF Init
<1>2. Phases
  BY DEF Init, Phases, Early, Late
<1> QED BY <1>1, <1>2 DEF ApartInv, Owned, Held, Init, Late

LEMMA ApartImplies == ApartInv => RunsApart
<1> SUFFICES ASSUME ApartInv PROVE RunsApart
  OBVIOUS
<1>1. \A i \in Runs : Alive(i) <=> pc[i] \in Late
  BY NamedPhases DEF Alive, Late
<1>2. \A n \in DOMAIN dirs : \A file \in {"meta", "log", "best"} : Own(n, file)
  BY DEF ApartInv, Owned, Artifacts
<1> QED BY <1>1, <1>2 DEF ApartInv, Held, Own, RunsApart, Taken

(* No run writes into the directory of another one, and the directory of a *)
(* running run stands (unique_run_dir, RemoveIfEmpty).                     *)
THEOREM RunsStayApart == Spec => []RunsApart
<1>1. ApartInv /\ [Next]_vars => ApartInv'
  BY NextKeeps
<1> QED BY <1>1, InitApart, ApartImplies, PTL DEF Spec

-----------------------------------------------------------------------------
(* The metrics file.  What is in the file and what the BufWriter still     *)
(* holds are the records in the order of `log`, with gaps once a line was  *)
(* lost; without an error they are all there, and in the file.             *)

Logging == {"train", "top", "save", "update", "log memory", "log", "end"}

(* Records in order, of the first m. *)
InOrder(s, m) ==
  /\ \A a \in DOMAIN s : s[a].n \in 1 .. m
  /\ \A a, b \in DOMAIN s : a < b => s[a].n < s[b].n

(* A file with these lines, of the records given to a logger. *)
Kept(lines, held, given, lossy) ==
  /\ InOrder(lines \o held, Len(given))
  /\ ~lossy => lines = given /\ held = <<>>

Lists(S) ==
  /\ \A i \in Runs : emitted[i] \in Seq(S) /\ buffer[i] \in Seq(S)
  /\ \A n \in DOMAIN dirs : dirs[n].log # Absent => dirs[n].log.lines \in Seq(S)

LoggerShape ==
  /\ emitted = [i \in Runs |-> emitted[i]] /\ buffer = [i \in Runs |-> buffer[i]]
  /\ warned = [i \in Runs |-> warned[i]] /\ \A i \in Runs : warned[i] \in BOOLEAN

Silent == \A i \in Runs :
  pc[i] \in (Early \cup {"claim"} \cup Late) \ Logging =>
    emitted[i] = <<>> /\ buffer[i] = <<>> /\ ~warned[i]

Opened == \A i \in Runs : pc[i] \in Logging => HasLog(i)

Files == \A n \in DOMAIN dirs : dirs[n].log # Absent =>
  LET run == dirs[n].log.run
  IN  Kept(dirs[n].log.lines, buffer[run], emitted[run], warned[run])

LogInv == LoggerShape /\ (\E S : Lists(S)) /\ Silent /\ Opened /\ Files

KeptInv == ApartInv /\ LogInv

LEMMA InOrderEmpty == InOrder(<<>> \o <<>>, 0)
BY DEF InOrder

LEMMA InOrderPrefix ==
  ASSUME NEW S, NEW s \in Seq(S), NEW t \in Seq(S), NEW m, InOrder(s \o t, m)
  PROVE  InOrder(s \o <<>>, m)
<1>1. DOMAIN s = 1 .. Len(s) /\ DOMAIN (s \o t) = 1 .. Len(s) + Len(t)
  BY ConcatProperties
<1>2. Len(s) \in Nat /\ Len(t) \in Nat
  OBVIOUS
<1>3. \A a \in DOMAIN s : a \in DOMAIN (s \o t) /\ (s \o t)[a] = s[a]
  BY <1>1, <1>2, ConcatProperties
<1>4. s \o <<>> = s
  BY ConcatEmptySeq
<1> QED BY <1>3, <1>4 DEF InOrder

LEMMA InOrderNext ==
  ASSUME NEW S, NEW s \in Seq(S), NEW m \in Nat, InOrder(s, m),
         NEW rec \in S, rec.n = m + 1
  PROVE  InOrder(s \o <<rec>>, m + 1)
<1> DEFINE t == s \o <<rec>>
<1>1. Len(s) \in Nat /\ DOMAIN s = 1 .. Len(s) /\ Len(<<rec>>) = 1 /\ <<rec>> \in Seq(S)
  OBVIOUS
<1>2. /\ DOMAIN t = 1 .. Len(s) + 1
      /\ \A a \in 1 .. Len(s) : t[a] = s[a]
      /\ t[Len(s) + 1] = rec
  <2>1. t \in Seq(S) /\ Len(t) = Len(s) + 1
    BY <1>1, ConcatProperties
  <2> QED BY <1>1, <2>1, ConcatProperties
<1>3. \A a \in 1 .. Len(s) : t[a].n \in 1 .. m
  BY <1>1, <1>2 DEF InOrder
<1>4. \A a \in DOMAIN t : a \in 1 .. Len(s) \/ a = Len(s) + 1
  BY <1>1, <1>2
<1>5. \A a \in DOMAIN t : t[a].n \in 1 .. m + 1
  BY <1>2, <1>3, <1>4
<1>6. ASSUME NEW a \in DOMAIN t, NEW b \in DOMAIN t, a < b PROVE t[a].n < t[b].n
  <2>1. a \in 1 .. Len(s)
    BY <1>1, <1>2, <1>4, <1>6
  <2>2. CASE b \in 1 .. Len(s)
    BY <1>1, <1>2, <1>6, <2>1, <2>2 DEF InOrder
  <2>3. CASE b = Len(s) + 1
    BY <1>2, <1>3, <2>1, <2>3
  <2> QED BY <1>4, <2>2, <2>3
<1> HIDE DEF t
<1> QED BY <1>5, <1>6 DEF InOrder, t

LEMMA InOrderLater ==
  ASSUME NEW s, NEW m \in Nat, InOrder(s, m) PROVE InOrder(s, m + 1)
BY DEF InOrder

(* What `log` does to the file and the buffer of its own run, whether the  *)
(* flush succeeds, stops half-way or the line is lost.                     *)
LEMMA LogKeepsFile ==
  ASSUME LogInv, NEW i \in Runs, NEW S, Lists(S), NEW rec \in S,
         rec.n = Len(emitted[i]) + 1, Log(i, rec), Lines(i) \in Seq(S),
         Kept(Lines(i), buffer[i], emitted[i], warned[i])
  PROVE  /\ \E lines \in Seq(S) :
              /\ Put(i, "log", [run |-> i, lines |-> lines])
              /\ Kept(lines, buffer'[i], emitted'[i], warned'[i])
         /\ emitted'[i] \in Seq(S) /\ buffer'[i] \in Seq(S)
<1> DEFINE old == Lines(i)  held == buffer[i]  m == Len(emitted[i])
<1>1. /\ old \in Seq(S) /\ held \in Seq(S) /\ <<rec>> \in Seq(S) /\ emitted[i] \in Seq(S)
      /\ m \in Nat /\ InOrder(old \o held, m) /\ old \o held \in Seq(S)
  BY ConcatProperties DEF Lists, Kept
<1>2. emitted'[i] = Append(emitted[i], rec) /\ Len(emitted'[i]) = m + 1
      /\ emitted'[i] \in Seq(S)
  <2>1. emitted' = [emitted EXCEPT ![i] = Append(emitted[i], rec)]
    BY DEF Log
  <2>2. emitted'[i] = Append(emitted[i], rec)
    BY <2>1 DEF LogInv, LoggerShape
  <2> QED BY <2>2, <1>1, AppendProperties
<1>3. InOrder((old \o held) \o <<rec>>, m + 1) /\ InOrder(old \o held, m + 1)
  BY <1>1, InOrderNext, InOrderLater
<1>4. (old \o held) \o <<rec>> = old \o (held \o <<rec>>)
  <2> HIDE DEF old, held
  <2>1. old \in Seq(S) /\ held \in Seq(S) /\ <<rec>> \in Seq(S)
    BY <1>1
  <2> QED BY <2>1, ConcatAssociative
<1>5. CASE /\ Flushed(i, held \o <<rec>>) /\ buffer' = [buffer EXCEPT ![i] = <<>>]
           /\ UNCHANGED warned
  <2> DEFINE new == old \o (held \o <<rec>>)
  <2>1. new \in Seq(S) /\ new \o <<>> = new
    <3>1. held \o <<rec>> \in Seq(S)
      BY <1>1, ConcatProperties
    <3> QED BY <1>1, <3>1, ConcatProperties, ConcatEmptySeq
  <2>2. Put(i, "log", [run |-> i, lines |-> new]) /\ buffer'[i] = <<>>
        /\ warned'[i] = warned[i]
    BY <1>5 DEF Flushed, LogInv, LoggerShape
  <2>3. ~warned[i] => new = emitted'[i]
    <3>1. SUFFICES ASSUME ~warned[i] PROVE new = emitted'[i]
      OBVIOUS
    <3>2. old = emitted[i] /\ held = <<>>
      BY <3>1 DEF Kept
    <3>3. held \o <<rec>> = <<rec>>
      BY <1>1, <3>2, ConcatEmptySeq
    <3> QED BY <1>1, <1>2, <3>2, <3>3, AppendIsConcat
  <2>4. Kept(new, buffer'[i], emitted'[i], warned'[i])
    BY <1>2, <1>3, <1>4, <2>1, <2>2, <2>3 DEF Kept
  <2>5. <<>> \in Seq(S)
    OBVIOUS
  <2> QED BY <1>2, <2>1, <2>2, <2>4, <2>5
<1>6. CASE /\ warned' = [warned EXCEPT ![i] = TRUE]
           /\ \E k \in 0 .. Len(Pending(i, rec)) - 1 :
                /\ Flushed(i, SubSeq(Pending(i, rec), 1, k))
                /\ buffer' = [buffer EXCEPT ![i] =
                                SubSeq(Pending(i, rec), k + 1, Len(Pending(i, rec)))]
  <2> DEFINE all == Pending(i, rec)
  <2>1. all \in Seq(S) /\ InOrder(old \o all, m + 1)
    <3>1. Append(held, rec) = held \o <<rec>> /\ held \o <<rec>> \in Seq(S)
      BY <1>1, AppendIsConcat, ConcatProperties
    <3> QED BY <1>1, <1>3, <1>4, <3>1 DEF Pending
  <2>2. PICK k \in 0 .. Len(all) - 1 :
          /\ Flushed(i, SubSeq(all, 1, k))
          /\ buffer' = [buffer EXCEPT ![i] = SubSeq(all, k + 1, Len(all))]
    BY <1>6
  <2> HIDE DEF all
  <2> DEFINE front == SubSeq(all, 1, k)  rest == SubSeq(all, k + 1, Len(all))
  <2>3. front \in Seq(S) /\ rest \in Seq(S) /\ front \o rest = all
    <3>1. Len(all) \in Nat /\ k \in Nat /\ k < Len(all)
      BY <2>1
    <3>2. front \in Seq(S) /\ rest \in Seq(S)
      BY <2>1, <3>1, SubSeqProperties
    <3>3. 1 \in 1 .. Len(all) + 1 /\ k \in 1 - 1 .. Len(all) /\ Len(all) \in k .. Len(all)
      BY <3>1
    <3>4. SubSeq(all, 1, k) \o SubSeq(all, k + 1, Len(all)) = SubSeq(all, 1, Len(all))
      BY <2>1, <3>1, <3>3, ConcatAdjacentSubSeq
    <3> QED BY <2>1, <3>2, <3>4, SubSeqFull
  <2> HIDE DEF front, rest
  <2>4. old \o front \in Seq(S) /\ (old \o front) \o rest = old \o all
    <3> HIDE DEF old
    <3>1. old \in Seq(S) /\ front \in Seq(S) /\ rest \in Seq(S)
      BY <1>1, <2>3
    <3>2. (old \o front) \o rest = old \o (front \o rest)
      BY <3>1, ConcatAssociative
    <3> QED BY <2>3, <3>1, <3>2, ConcatProperties
  <2>5. Put(i, "log", [run |-> i, lines |-> old \o front]) /\ buffer'[i] = rest
        /\ warned'[i] = TRUE
    BY <1>6, <2>2 DEF Flushed, LogInv, LoggerShape, front, rest
  <2>6. Kept(old \o front, buffer'[i], emitted'[i], warned'[i])
    BY <1>2, <2>1, <2>4, <2>5 DEF Kept
  <2> QED BY <1>2, <2>3, <2>4, <2>5, <2>6
<1> QED BY <1>5, <1>6 DEF Log

(* A run whose log is open finds its own file there. *)
LEMMA OwnLog ==
  ASSUME KeptInv, NEW i \in Runs, pc[i] \in Late, HasLog(i)
  PROVE  /\ name[i] \in DOMAIN dirs /\ dirs[name[i]].log.run = i
         /\ Kept(Lines(i), buffer[i], emitted[i], warned[i])
<1>1. name[i] \in DOMAIN dirs /\ Own(name[i], "log")
  BY DEF KeptInv, ApartInv, Held, Owned, Artifacts
<1>2. dirs[name[i]].log.run = i
  BY <1>1 DEF Own, HasLog
<1> QED BY <1>1, <1>2 DEF KeptInv, LogInv, Files, HasLog, Lines

(* It is the only file of that run. *)
LEMMA OneLog ==
  ASSUME ApartInv, NEW n \in DOMAIN dirs, dirs[n].log # Absent
  PROVE  /\ dirs[n].log.run \in Runs /\ name[dirs[n].log.run] = n
         /\ pc[dirs[n].log.run] \in Late \cup {"over"}
BY DEF ApartInv, Owned, Own, Artifacts

(* A step of run i that writes no log, and drops its buffer at most. *)
LEMMA LogsAlone ==
  ASSUME KeptInv, NEW i \in Runs, UNCHANGED <<emitted, warned>>,
         buffer' = buffer \/ buffer' = [buffer EXCEPT ![i] = <<>>],
         \A n \in DOMAIN dirs' : dirs'[n].log # Absent =>
            n \in DOMAIN dirs /\ dirs'[n].log = dirs[n].log,
         \A j \in Runs : pc'[j] \in Logging =>
            /\ pc[j] \in Logging /\ name'[j] = name[j]
            /\ dirs'[name[j]].log = dirs[name[j]].log,
         \A j \in Runs : pc'[j] \in (Early \cup {"claim"} \cup Late) \ Logging =>
            pc[j] \in (Early \cup {"claim"} \cup Late) \ Logging
  PROVE  LogInv'
<1>1. PICK S : Lists(S)
  BY DEF KeptInv, LogInv
<1>2. LoggerShape /\ \A j \in Runs : buffer'[j] = buffer[j] \/ (j = i /\ buffer'[j] = <<>>)
  BY DEF KeptInv, LogInv, LoggerShape
<1>3. LoggerShape'
  BY <1>2 DEF LoggerShape
<1>4. Lists(S)'
  <2>1. \A j \in Runs : emitted[j] \in Seq(S) /\ buffer[j] \in Seq(S) /\ <<>> \in Seq(S)
    BY <1>1 DEF Lists
  <2>2. \A j \in Runs : emitted'[j] \in Seq(S) /\ buffer'[j] \in Seq(S)
    BY <1>2, <2>1
  <2>3. \A n \in DOMAIN dirs' : dirs'[n].log # Absent => dirs'[n].log.lines \in Seq(S)
    BY <1>1 DEF Lists
  <2>4. Absent' = Absent
    BY DEF Absent
  <2> QED BY <2>2, <2>3, <2>4 DEF Lists
<1>5. Silent' /\ Opened'
  BY <1>2 DEF KeptInv, LogInv, Silent, Opened, HasLog
<1>6. ASSUME NEW n \in DOMAIN dirs', dirs'[n].log # Absent
      PROVE  LET run == dirs'[n].log.run
             IN  Kept(dirs'[n].log.lines, buffer'[run], emitted'[run], warned'[run])
  <2> DEFINE run == dirs[n].log.run  lines == dirs[n].log.lines
  <2>1. n \in DOMAIN dirs /\ dirs'[n].log = dirs[n].log /\ run \in Runs
    BY <1>6, OneLog DEF KeptInv
  <2>2. Kept(lines, buffer[run], emitted[run], warned[run])
    BY <1>6, <2>1 DEF KeptInv, LogInv, Files
  <2>3. lines \in Seq(S) /\ buffer[run] \in Seq(S)
    BY <1>1, <1>6, <2>1 DEF Lists
  <2>4. Kept(lines, <<>>, emitted[run], warned[run])
    BY <2>2, <2>3, InOrderPrefix DEF Kept
  <2> QED BY <1>2, <2>1, <2>2, <2>4
<1>7. Files'
  BY <1>6 DEF Files
<1> QED BY <1>3, <1>4, <1>5, <1>7 DEF LogInv

(* A step of run i that writes its log. *)
LEMMA LogWritten ==
  ASSUME KeptInv, NEW i \in Runs, pc[i] \in Late, name' = name, LoggerShape',
         NEW S, Lists(S), NEW lines \in Seq(S),
         Put(i, "log", [run |-> i, lines |-> lines]),
         Kept(lines, buffer'[i], emitted'[i], warned'[i]),
         emitted'[i] \in Seq(S), buffer'[i] \in Seq(S),
         \A j \in Runs \ {i} : /\ emitted'[j] = emitted[j] /\ buffer'[j] = buffer[j]
                               /\ warned'[j] = warned[j],
         MovesTo(i, Logging \cup {"over"})
  PROVE  LogInv'
<1>1. /\ pc'[i] \in Logging \cup {"over"}
      /\ \A j \in Runs \ {i} : pc'[j] = pc[j]
  BY DEF KeptInv, ApartInv, Phases, MovesTo
<1>2. name[i] \in DOMAIN dirs /\ DOMAIN dirs[name[i]] = Artifacts /\ "log" \in Artifacts
  BY DEF KeptInv, ApartInv, Held, Owned, Artifacts
<1>3. /\ DOMAIN dirs' = DOMAIN dirs
      /\ dirs'[name[i]].log = [run |-> i, lines |-> lines]
      /\ \A n \in DOMAIN dirs : n # name[i] => dirs'[n] = dirs[n]
  BY <1>2 DEF Put
<1>4. [run |-> i, lines |-> lines] # Absent
  <2>1. DOMAIN [run |-> i, lines |-> lines] = {"run", "lines"}
    OBVIOUS
  <2>2. DOMAIN Absent = {}
    BY DEF Absent
  <2> QED BY <2>1, <2>2
<1>5. Lists(S)'
  <2>1. \A j \in Runs : emitted'[j] \in Seq(S) /\ buffer'[j] \in Seq(S)
    BY DEF Lists
  <2>2. ASSUME NEW n \in DOMAIN dirs, dirs'[n].log # Absent
        PROVE  dirs'[n].log.lines \in Seq(S)
    <3>1. CASE n = name[i]
      BY <1>3, <3>1
    <3>2. CASE n # name[i]
      BY <1>3, <2>2, <3>2 DEF Lists
    <3> QED BY <3>1, <3>2
  <2> QED BY <1>3, <2>1, <2>2 DEF Lists, Absent
<1>6. Silent'
  <2>1. pc'[i] \notin (Early \cup {"claim"} \cup Late) \ Logging
    BY <1>1 DEF Early, Late
  <2> QED BY <1>1, <2>1 DEF KeptInv, LogInv, Silent
<1>7. Opened'
  <2>1. ASSUME NEW j \in Runs, pc'[j] \in Logging PROVE HasLog(j)'
    <3>1. CASE j = i
      BY <3>1, <1>3, <1>4 DEF HasLog, Absent
    <3>2. CASE j # i
      <4>1. HasLog(j) /\ pc[j] \in Late
        BY <1>1, <2>1, <3>2 DEF KeptInv, LogInv, Opened, Logging, Late
      <4>2. name[j] \in DOMAIN dirs /\ name[j] # name[i]
        BY <3>2, <4>1 DEF KeptInv, ApartInv, Held
      <4> QED BY <1>3, <4>1, <4>2 DEF HasLog, Absent
    <3> QED BY <3>1, <3>2
  <2> QED BY <2>1 DEF Opened
<1>8. ASSUME NEW n \in DOMAIN dirs, dirs'[n].log # Absent
      PROVE  LET run == dirs'[n].log.run
             IN  Kept(dirs'[n].log.lines, buffer'[run], emitted'[run], warned'[run])
  <2>1. CASE n = name[i]
    BY <1>3, <2>1
  <2>2. CASE n # name[i]
    <3>1. dirs'[n] = dirs[n] /\ dirs[n].log.run \in Runs \ {i}
      BY <1>3, <1>8, <2>2, OneLog DEF KeptInv
    <3>2. Kept(dirs[n].log.lines, buffer[dirs[n].log.run], emitted[dirs[n].log.run],
               warned[dirs[n].log.run])
      BY <1>8, <3>1 DEF KeptInv, LogInv, Files
    <3> QED BY <3>1, <3>2
  <2> QED BY <2>1, <2>2
<1>9. Files'
  BY <1>3, <1>8 DEF Files, Absent
<1> QED BY <1>5, <1>6, <1>7, <1>9 DEF LogInv

-----------------------------------------------------------------------------
(* The steps of a run, seen by the metrics file. *)

LEMMA LogSteps ==
  ASSUME KeptInv, NEW i \in Runs, pc[i] \in Logging,
         NEW s, NEW kind, NEW value, Log(i, Record(i, s, kind, value)),
         NEW point \in Logging, Goes(i, point)
  PROVE  LogInv'
<1> DEFINE rec == Record(i, s, kind, value)
<1>1. PICK S0 : Lists(S0)
  BY DEF KeptInv, LogInv
<1> DEFINE S == S0 \cup {rec}
<1>2. \A seq \in Seq(S0) : seq \in Seq(S)
  BY SeqMonotonic
<1>3. Lists(S) /\ rec \in S
  <2> HIDE DEF S
  <2>1. Lists(S)
    BY <1>1, <1>2 DEF Lists
  <2> QED BY <2>1 DEF S
<1>4. pc[i] \in Late /\ HasLog(i)
  BY DEF KeptInv, LogInv, Opened, Logging, Late
<1>5. /\ name[i] \in DOMAIN dirs
      /\ Kept(Lines(i), buffer[i], emitted[i], warned[i])
  BY <1>4, OwnLog
<1>6. Lines(i) \in Seq(S)
  BY <1>3, <1>4, <1>5 DEF Lists, Lines, HasLog
<1>7. rec.n = Len(emitted[i]) + 1
  BY DEF Record
<1>8. LogInv
  BY DEF KeptInv
<1> HIDE DEF S, rec
<1>9. /\ \E lines \in Seq(S) :
              /\ Put(i, "log", [run |-> i, lines |-> lines])
              /\ Kept(lines, buffer'[i], emitted'[i], warned'[i])
      /\ emitted'[i] \in Seq(S) /\ buffer'[i] \in Seq(S)
  BY <1>3, <1>5, <1>6, <1>7, <1>8, LogKeepsFile DEF rec
<1>10. /\ \A j \in Runs \ {i} : /\ emitted'[j] = emitted[j] /\ buffer'[j] = buffer[j]
                                /\ warned'[j] = warned[j]
       /\ LoggerShape'
  <2>1. emitted' = [emitted EXCEPT ![i] = Append(@, rec)]
    BY DEF Log, rec
  <2>2. /\ \E b : buffer' = [buffer EXCEPT ![i] = b]
        /\ \E v \in BOOLEAN : warned' = [warned EXCEPT ![i] = v]
    <3>1. LoggerShape
      BY <1>8 DEF LogInv
    <3> QED BY <3>1 DEF Log, rec, LoggerShape
  <2> QED BY <1>8, <2>1, <2>2 DEF LogInv, LoggerShape
<1>11. name' = name /\ MovesTo(i, Logging \cup {"over"})
  BY DEF Goes, MovesTo
<1> QED BY <1>3, <1>4, <1>9, <1>10, <1>11, LogWritten

(* A file of its own that is not the log. *)
LEMMA PutAside ==
  ASSUME KeptInv, NEW i \in Runs, pc[i] \in Late, UNCHANGED <<name, logger>>,
         NEW file \in Artifacts \ {"log"}, NEW content, Put(i, file, content),
         \/ MovesTo(i, Late \ Logging) /\ pc[i] \notin Logging
         \/ MovesTo(i, Logging) /\ pc[i] \in Logging
         \/ MovesTo(i, {"over"})
  PROVE  LogInv'
<1>1. name[i] \in DOMAIN dirs /\ DOMAIN dirs[name[i]] = Artifacts
  BY DEF KeptInv, ApartInv, Held, Owned
<1>2. DOMAIN dirs' = DOMAIN dirs /\ \A n \in DOMAIN dirs : dirs'[n].log = dirs[n].log
  BY <1>1 DEF Put, KeptInv, ApartInv, Owned, Artifacts
<1>3. /\ \A j \in Runs \ {i} : pc'[j] = pc[j]
      /\ \/ pc'[i] \in Late \ Logging /\ pc[i] \notin Logging
         \/ pc'[i] \in Logging /\ pc[i] \in Logging
         \/ pc'[i] = "over"
  BY DEF KeptInv, ApartInv, Phases, MovesTo
<1>4. \A j \in Runs : pc[j] \in Logging => name[j] \in DOMAIN dirs
  BY DEF KeptInv, ApartInv, Held, Logging, Late
<1>5. "over" \notin Early \cup {"claim"} \cup Late \cup Logging
  BY DEF Early, Late, Logging
<1> QED BY <1>2, <1>3, <1>4, <1>5, LogsAlone DEF logger

(* Nothing in the root changes. *)
LEMMA RootAside ==
  ASSUME KeptInv, NEW i \in Runs, UNCHANGED <<dirs, logger>>,
         \A j \in Runs \ {i} : name'[j] = name[j],
         \/ MovesTo(i, (Early \cup {"claim"} \cup Late) \ Logging) /\ pc[i] \notin Logging
            /\ pc[i] # "over"
         \/ MovesTo(i, Logging) /\ pc[i] \in Logging /\ name' = name
         \/ pc' = pc /\ pc[i] \notin Logging
         \/ pc' = pc /\ name' = name
  PROVE  LogInv'
<1>1. /\ \A j \in Runs \ {i} : pc'[j] = pc[j]
      /\ \/ /\ pc'[i] \in (Early \cup {"claim"} \cup Late) \ Logging
            /\ pc[i] \in (Early \cup {"claim"} \cup Late) \ Logging
         \/ pc'[i] \in Logging /\ pc[i] \in Logging /\ name' = name
         \/ pc' = pc /\ pc[i] \notin Logging
         \/ pc' = pc /\ name' = name
  BY DEF KeptInv, ApartInv, Phases, MovesTo
<1> QED BY <1>1, LogsAlone DEF logger

LEMMA EndsLog ==
  ASSUME KeptInv, NEW i \in Runs, NEW why, pc[i] # "over", End(i, why)
  PROVE  LogInv'
<1>1. /\ pc' = [pc EXCEPT ![i] = "over"] /\ buffer' = [buffer EXCEPT ![i] = <<>>]
      /\ UNCHANGED <<emitted, warned>>
      /\ name' = [name EXCEPT ![i] = IF Claimed(i) THEN @ ELSE <<>>]
  BY DEF End
<1>2. PICK flushed \in BOOLEAN : DropAll(i, flushed) /\ (~warned[i] => flushed)
  BY DEF End
<1>3. Claimed(i) <=> pc[i] \in Late
  BY NamedPhases DEF KeptInv
<1>4. CASE Claimed(i) /\ HasLog(i)
  <2> DEFINE lines == Lines(i) \o (IF flushed THEN buffer[i] ELSE <<>>)
  <2>1. PICK S : Lists(S)
    BY DEF KeptInv, LogInv
  <2>2. name[i] \in DOMAIN dirs /\ Kept(Lines(i), buffer[i], emitted[i], warned[i])
    BY <1>3, <1>4, OwnLog
  <2>3. /\ Lines(i) \in Seq(S) /\ buffer[i] \in Seq(S) /\ emitted[i] \in Seq(S)
        /\ <<>> \in Seq(S)
    BY <1>4, <2>1, <2>2 DEF Lists, Lines, HasLog
  <2>4. lines \in Seq(S)
    BY <2>3, ConcatProperties
  <2>5. Kept(lines, <<>>, emitted[i], warned[i])
    <3>1. InOrder(lines \o <<>>, Len(emitted[i]))
      <4>1. CASE flushed
        <5>1. lines = Lines(i) \o buffer[i]
          BY <4>1
        <5>2. lines \o <<>> = lines
          BY <2>4, ConcatEmptySeq
        <5> QED BY <2>2, <5>1, <5>2 DEF Kept
      <4>2. CASE ~flushed
        <5>1. lines = Lines(i)
          BY <2>3, <4>2, ConcatEmptySeq
        <5> QED BY <2>2, <2>3, <5>1, InOrderPrefix DEF Kept
      <4> QED BY <4>1, <4>2
    <3>2. ASSUME ~warned[i] PROVE lines = emitted[i]
      <4>1. Lines(i) = emitted[i] /\ buffer[i] = <<>>
        BY <2>2, <3>2 DEF Kept
      <4> QED BY <2>3, <4>1, ConcatEmptySeq
    <3> QED BY <3>1, <3>2 DEF Kept
  <2>6. Put(i, "log", [run |-> i, lines |-> lines])
    BY <1>2, <1>4 DEF DropAll
  <2>7. buffer'[i] = <<>> /\ \A j \in Runs \ {i} : buffer'[j] = buffer[j]
    BY <1>1 DEF KeptInv, LogInv, LoggerShape
  <2>8. LoggerShape'
    BY <1>1 DEF KeptInv, LogInv, LoggerShape
  <2>9. name' = name
    BY <1>1, <1>4 DEF KeptInv, ApartInv, Phases
  <2>10. MovesTo(i, Logging \cup {"over"})
    BY <1>1 DEF MovesTo
  <2> HIDE DEF lines
  <2> QED BY <1>1, <1>3, <1>4, <2>1, <2>3, <2>4, <2>5, <2>6, <2>7, <2>8, <2>9, <2>10,
             LogWritten
<1>5. CASE ~(Claimed(i) /\ HasLog(i))
  <2>1. \/ dirs' = dirs
        \/ Claimed(i) /\ dirs' = Restrict(dirs, DOMAIN dirs \ {name[i]})
    BY <1>2, <1>5 DEF DropAll
  <2>2. \A n \in DOMAIN dirs' : n \in DOMAIN dirs /\ dirs'[n] = dirs[n]
    BY <2>1 DEF Restrict
  <2>3. pc'[i] = "over" /\ \A j \in Runs \ {i} : pc'[j] = pc[j] /\ name'[j] = name[j]
    BY <1>1 DEF KeptInv, ApartInv, Phases
  <2>4. "over" \notin Early \cup {"claim"} \cup Late \cup Logging
    BY DEF Early, Late, Logging
  <2>5. \A j \in Runs \ {i} : pc[j] \in Logging => dirs'[name[j]] = dirs[name[j]]
    <3>1. SUFFICES ASSUME NEW j \in Runs \ {i}, pc[j] \in Logging
                   PROVE  dirs'[name[j]] = dirs[name[j]]
      OBVIOUS
    <3>2. pc[j] \in Late
      BY <3>1 DEF Logging, Late
    <3>3. name[j] \in DOMAIN dirs /\ (pc[i] \in Late => name[j] # name[i])
      BY <3>2 DEF KeptInv, ApartInv, Held
    <3> QED BY <1>3, <2>1, <3>3 DEF Restrict
  <2> QED BY <1>1, <2>2, <2>3, <2>4, <2>5, LogsAlone
<1> QED BY <1>4, <1>5

LEMMA KillLog == ASSUME KeptInv, NEW i \in Runs, Kill(i) PROVE LogInv'
<1>1. /\ pc' = [pc EXCEPT ![i] = "over"] /\ buffer' = [buffer EXCEPT ![i] = <<>>]
      /\ UNCHANGED <<emitted, warned, dirs>>
      /\ name' = [name EXCEPT ![i] = IF Claimed(i) THEN @ ELSE <<>>]
  BY DEF Kill
<1>2. pc'[i] = "over" /\ \A j \in Runs \ {i} : pc'[j] = pc[j] /\ name'[j] = name[j]
  BY <1>1 DEF KeptInv, ApartInv, Phases
<1>3. "over" \notin Early \cup {"claim"} \cup Late \cup Logging
  BY DEF Early, Late, Logging
<1> QED BY <1>1, <1>2, <1>3, LogsAlone

LEMMA BeforeClaimLog ==
  ASSUME KeptInv, NEW i \in Runs,
         \/ Launch(i) \/ Begin(i) \/ CheckFlags(i) \/ InitDevice(i) \/ Prepare(i) \/ Fetch(i)
         \/ ReadClock(i) \/ TryName(i)
  PROVE  LogInv'
<1>1. /\ pc[i] \in Early \cup {"claim"} /\ pc[i] # "over" /\ pc[i] \notin Logging
      /\ Early \subseteq (Early \cup {"claim"} \cup Late) \ Logging
      /\ "claim" \in (Early \cup {"claim"} \cup Late) \ Logging
  BY DEF Launch, Begin, CheckFlags, InitDevice, Prepare, Fetch, ReadClock, TryName, At,
         Early, Logging
<1>2. ASSUME NEW why, Stop(i, why) PROVE LogInv'
  BY <1>1, <1>2, EndsLog DEF Stop
<1>3. ASSUME NEW point \in Early \cup {"claim"}, GoTo(i, point), UNCHANGED <<dirs, logger>>,
             \A j \in Runs \ {i} : name'[j] = name[j]
      PROVE  LogInv'
  <2>1. MovesTo(i, (Early \cup {"claim"} \cup Late) \ Logging)
    BY <1>1, <1>3 DEF GoTo, MovesTo
  <2> QED BY <1>1, <1>3, <2>1, RootAside
<1>4. CASE Launch(i)
  <2>1. CASE \E why : Stop(i, why)
    BY <1>2, <2>1
  <2>2. CASE UNCHANGED <<pc, name, dirs, logger>>
    BY <2>2, RootAside
  <2> QED BY <1>4, <2>1, <2>2 DEF Launch
<1>5. CASE Begin(i)
  <2>1. \/ Stop(i, "refused")
        \/ GoTo(i, "flags") /\ UNCHANGED <<name, dirs, logger>>
    BY <1>5 DEF Begin, Role
  <2> QED BY <1>2, <1>3, <2>1 DEF Early
<1>6. CASE CheckFlags(i)
  BY <1>2, <1>3, <1>6 DEF CheckFlags, Early
<1>7. CASE InitDevice(i)
  BY <1>2, <1>3, <1>7 DEF InitDevice, Early
<1>8. CASE Prepare(i)
  BY <1>2, <1>3, <1>8 DEF Prepare, Early
<1>9. CASE Fetch(i)
  BY <1>2, <1>9 DEF Fetch
<1>10. CASE ReadClock(i)
  <2>1. \A j \in Runs \ {i} : name'[j] = name[j]
    BY <1>10 DEF ReadClock, KeptInv, ApartInv, Phases
  <2> QED BY <1>3, <1>10, <2>1 DEF ReadClock
<1>11. CASE TryName(i)
  <2>1. /\ \A j \in Runs \ {i} : name'[j] = name[j]
        /\ UNCHANGED <<pc, dirs, logger>>
    BY <1>11 DEF TryName, control, KeptInv, ApartInv, Phases
  <2> QED BY <1>1, <2>1, RootAside
<1> QED BY <1>4, <1>5, <1>6, <1>7, <1>8, <1>9, <1>10, <1>11

LEMMA ClaimDirLog == ASSUME KeptInv, NEW i \in Runs, ClaimDir(i) PROVE LogInv'
<1>1. /\ pc[i] = "claim" /\ name[i] \notin DOMAIN dirs /\ UNCHANGED <<name, logger>>
      /\ dirs' = WithDir(name[i])
      /\ pc' = [pc EXCEPT ![i] = AfterClaim(i)] /\ AfterClaim(i) \in Late \ Logging
  BY DEF ClaimDir, At, Taken, GoTo, AfterClaim, Late, Logging
<1>2. /\ DOMAIN dirs' = DOMAIN dirs \cup {name[i]}
      /\ \A n \in DOMAIN dirs : dirs'[n] = dirs[n]
      /\ dirs'[name[i]].log = Absent
  BY <1>1 DEF WithDir, EmptyDir
<1>3. pc'[i] \in Late \ Logging /\ \A j \in Runs \ {i} : pc'[j] = pc[j]
  BY <1>1 DEF KeptInv, ApartInv, Phases
<1>4. \A j \in Runs : pc[j] \in Logging => name[j] \in DOMAIN dirs
  BY DEF KeptInv, ApartInv, Held, Logging, Late
<1>5. "claim" \notin Logging
  BY DEF Logging
<1> QED BY <1>1, <1>2, <1>3, <1>4, <1>5, LogsAlone DEF logger

LEMMA PrepareLog ==
  ASSUME KeptInv, NEW i \in Runs,
         FixHorizon(i) \/ CreateRunJson(i) \/ WriteRunJson(i) \/ CreateMetrics(i)
  PROVE  LogInv'
<1>1. pc[i] \in Late \ Logging /\ pc[i] # "over"
  BY DEF FixHorizon, CreateRunJson, WriteRunJson, CreateMetrics, At, Late, Logging
<1>2. CASE FixHorizon(i)
  <2>1. CASE Stop(i, "bad data")
    BY <2>1, <1>1, EndsLog DEF Stop
  <2>2. CASE GoTo(i, "run.json") /\ UNCHANGED <<name, dirs, logger>>
    <3>1. MovesTo(i, (Early \cup {"claim"} \cup Late) \ Logging)
      BY <2>2 DEF GoTo, MovesTo, Late, Logging
    <3> QED BY <1>1, <2>2, <3>1, RootAside
  <2> QED BY <1>2, <2>1, <2>2 DEF FixHorizon
<1>3. CASE CreateRunJson(i)
  <2>1. MovesTo(i, Late \ Logging) /\ "meta" \in Artifacts \ {"log"}
    BY <1>3 DEF CreateRunJson, GoTo, MovesTo, Late, Logging, Artifacts
  <2> QED BY <1>1, <1>3, <2>1, PutAside DEF CreateRunJson
<1>4. CASE WriteRunJson(i)
  <2>1. MovesTo(i, Late \ Logging) /\ "meta" \in Artifacts \ {"log"}
    BY <1>4 DEF WriteRunJson, GoTo, MovesTo, Late, Logging, Artifacts
  <2> QED BY <1>1, <1>4, <2>1, PutAside DEF WriteRunJson
<1>5. CASE CreateMetrics(i)
  <2>1. PICK S : Lists(S)
    BY DEF KeptInv, LogInv
  <2>2. emitted[i] = <<>> /\ buffer[i] = <<>>
    BY <1>1 DEF KeptInv, LogInv, Silent
  <2>3. Kept(<<>>, buffer[i], emitted[i], warned[i]) /\ <<>> \in Seq(S)
    BY <2>2, InOrderEmpty DEF Kept
  <2>4. /\ UNCHANGED <<name, logger>> /\ MovesTo(i, Logging \cup {"over"})
        /\ Put(i, "log", [run |-> i, lines |-> <<>>])
    BY <1>5 DEF CreateMetrics, GoTo, MovesTo, Logging
  <2>5. LoggerShape' /\ emitted[i] \in Seq(S) /\ buffer[i] \in Seq(S)
    BY <2>1, <2>4 DEF KeptInv, LogInv, LoggerShape, Lists, logger
  <2> QED BY <1>1, <2>1, <2>3, <2>4, <2>5, LogWritten DEF logger
<1> QED BY <1>2, <1>3, <1>4, <1>5

LEMMA LoopLog ==
  ASSUME KeptInv, NEW i \in Runs,
         \/ StartLoop(i) \/ Evaluate(i) \/ Save(i) \/ Update(i) \/ SampleMemory(i)
         \/ LogStep(i) \/ Finish(i)
  PROVE  LogInv'
<1>1. pc[i] \in Logging /\ pc[i] \in Late /\ pc[i] # "over"
  BY DEF StartLoop, Evaluate, Save, Update, SampleMemory, LogStep, Finish, At, Logging, Late
<1>2. Body(i) \in Logging
  BY DEF Body, Logging
<1>3. ASSUME NEW point \in Logging, Goes(i, point), UNCHANGED <<dirs, logger>> PROVE LogInv'
  <2>1. MovesTo(i, Logging) /\ name' = name
    BY <1>3 DEF Goes, MovesTo
  <2> QED BY <1>1, <1>3, <2>1, RootAside
<1>4. CASE StartLoop(i)
  <2>1. Goes(i, "top") /\ "top" \in Logging
    BY <1>4 DEF StartLoop, Logging
  <2>2. CASE inv[i].traced
    BY <1>1, <1>4, <2>1, <2>2, LogSteps DEF StartLoop, LogMemory
  <2>3. CASE ~inv[i].traced
    BY <1>3, <1>4, <2>1, <2>3 DEF StartLoop
  <2> QED BY <2>2, <2>3
<1>5. CASE Evaluate(i)
  <2>1. CASE CadenceFires(step[i], numIters[i], Cadence(i).eval_every)
    <3> DEFINE better(bpb) == minBpb[i] = -1 \/ bpb < minBpb[i]
    <3>1. PICK bpb \in Bpbs :
            /\ Log(i, Record(i, step[i], "eval", bpb))
            /\ Goes(i, IF better(bpb) THEN "save" ELSE Body(i))
      BY <2>1, <1>5 DEF Evaluate
    <3> DEFINE point == IF better(bpb) THEN "save" ELSE Body(i)
    <3>2. point \in Logging
      BY <1>2 DEF Logging
    <3>3. Goes(i, point)
      BY <3>1
    <3> HIDE DEF point
    <3> QED BY <1>1, <3>1, <3>2, <3>3, LogSteps
  <2>2. CASE ~CadenceFires(step[i], numIters[i], Cadence(i).eval_every)
    BY <2>2, <1>2, <1>3, <1>5 DEF Evaluate
  <2> QED BY <2>1, <2>2
<1>6. CASE Save(i)
  <2>1. MovesTo(i, Logging) /\ name' = name /\ "best" \in Artifacts \ {"log"}
    BY <1>2, <1>6 DEF Save, Goes, MovesTo, Artifacts
  <2> QED BY <1>1, <1>6, <2>1, PutAside DEF Save
<1>7. CASE Update(i)
  <2>1. CASE Stop(i, "panicked")
    BY <2>1, <1>1, EndsLog DEF Stop
  <2>2. CASE ~Stop(i, "panicked")
    BY <2>2, <1>3, <1>7 DEF Update, Logging
  <2> QED BY <2>1, <2>2
<1>8. CASE SampleMemory(i)
  <2>1. Goes(i, "log") /\ "log" \in Logging
    BY <1>8 DEF SampleMemory, Logging
  <2> QED BY <1>1, <1>8, <2>1, LogSteps DEF SampleMemory, LogMemory
<1>9. CASE LogStep(i)
  <2>1. Goes(i, "top") /\ "top" \in Logging
    BY <1>9 DEF LogStep, Logging
  <2> QED BY <1>1, <1>9, <2>1, LogSteps DEF LogStep
<1>10. CASE Finish(i)
  BY <1>1, <1>10, EndsLog DEF Finish, Stop
<1> QED BY <1>4, <1>5, <1>6, <1>7, <1>8, <1>9, <1>10

LEMMA KeptStep == ASSUME KeptInv, [Next]_vars PROVE KeptInv'
<1>1. ApartInv'
  BY NextKeeps DEF KeptInv
<1>3. ASSUME NEW i \in Runs, Work(i) PROVE LogInv'
  BY <1>3, BeforeClaimLog, ClaimDirLog, PrepareLog, LoopLog DEF Work
<1>4. ASSUME NEW i \in Runs, Fail(i) \/ Kill(i) PROVE LogInv'
  BY <1>4, EndsLog, KillLog DEF Fail, Busy
<1>5. LogInv'
  <2>1. CASE UNCHANGED vars
    <3>1. pc' = pc /\ name' = name /\ UNCHANGED <<dirs, logger>>
      BY <2>1 DEF vars, control, logger
    <3>2. PICK i \in Runs : TRUE
      BY DEF Runs
    <3> QED BY <3>1, <3>2, RootAside
  <2> QED BY <2>1, <1>3, <1>4 DEF Next
<1> QED BY <1>1, <1>5 DEF KeptInv

LEMMA KeptInit == Init => KeptInv
<1> SUFFICES ASSUME Init PROVE KeptInv
  OBVIOUS
<1>1. DOMAIN dirs = {} /\ ApartInv
  BY InitApart DEF Init
<1>2. \A i \in Runs : /\ pc[i] \notin Logging
                      /\ emitted[i] = <<>> /\ buffer[i] = <<>> /\ warned[i] = FALSE
  BY DEF Init, Logging
<1>3. LoggerShape
  BY DEF Init, LoggerShape
<1>4. Lists({})
  <2>1. <<>> \in Seq({})
    OBVIOUS
  <2>2. \A n \in DOMAIN dirs : dirs[n].log # Absent => dirs[n].log.lines \in Seq({})
    BY <1>1
  <2> QED BY <1>2, <2>1, <2>2 DEF Lists
<1> QED BY <1>1, <1>2, <1>3, <1>4 DEF KeptInv, LogInv, Silent, Opened, Files

(* A killed run keeps everything logged so far: without an I/O error the   *)
(* metrics file holds every record, in any case those it has in order      *)
(* (MetricsLogger.log, which flushes each line).                           *)
THEOREM LogAlwaysKeepsOrder == Spec => []LogKeepsOrder
<1>1. KeptInv /\ [Next]_vars => KeptInv'
  BY KeptStep
<1>2. KeptInv => LogKeepsOrder
  <2> SUFFICES ASSUME KeptInv, NEW n \in DOMAIN dirs, dirs[n].log # Absent
               PROVE  LET lines == dirs[n].log.lines  run == dirs[n].log.run IN
                      /\ \A a, b \in DOMAIN lines : a < b => lines[a].n < lines[b].n
                      /\ ~warned[run] => lines = emitted[run]
    BY DEF LogKeepsOrder
  <2> DEFINE lines == dirs[n].log.lines  run == dirs[n].log.run
  <2>1. PICK S : Lists(S)
    BY DEF KeptInv, LogInv
  <2>2. lines \in Seq(S) /\ buffer[run] \in Seq(S) /\ Kept(lines, buffer[run], emitted[run], warned[run])
    BY <2>1, OneLog DEF Lists, KeptInv, LogInv, Files
  <2>3. InOrder(lines \o <<>>, Len(emitted[run])) /\ lines \o <<>> = lines
    BY <2>2, InOrderPrefix, ConcatEmptySeq DEF Kept
  <2> QED BY <2>2, <2>3 DEF InOrder, Kept
<1> QED BY <1>1, <1>2, KeptInit, PTL DEF Spec

-----------------------------------------------------------------------------
(* The checks.  What a run got past is what it may rely on later, since    *)
(* nothing changes an invocation but the launcher, who was the first to    *)
(* check.                                                                  *)

Spawned(i) ==
  /\ Trains(i) /\ LauncherOK(i)
  /\ inv[i].env = [rank |-> 0, world_size |-> Batch(i).gpus, id |-> "hex"]

Past(i, point) ==
  /\ inv[i].cmd = "none" => point = "over"
  /\ point \in {"device", "prepare", "fetch", "clock", "claim"} \cup Late => FlagsOK(i)
  /\ point \in {"device", "prepare"} => inv[i].cmd # "download"
  /\ point = "fetch" => inv[i].cmd = "download"
  /\ point \in {"clock", "claim"} \cup Late => Trains(i) /\ GradAccum(i) \notin {Error, Panics}
  /\ point = "pack" => inv[i].cmd = "sft"
  /\ point \in Late \ {"pack"} => numIters[i] \in Nat \ {0}

Accepted(i) ==
  /\ Invocation(inv[i])
  /\ launched[i] => Spawned(i) /\ status[i] # "refused"
  /\ Past(i, pc[i])
  /\ status[i] # "no such shard" /\ (status[i] = "panicked" => Unguarded(i))
  /\ pc[i] # "over" => status[i] = "running"

FlagsShape ==
  /\ DOMAIN pc = Runs /\ DOMAIN inv = Runs /\ launched = [i \in Runs |-> launched[i]]
  /\ status = [i \in Runs |-> status[i]] /\ numIters = [i \in Runs |-> numIters[i]]

FlagsInv == FlagsShape /\ \A i \in Runs : Accepted(i)

LEMMA FlagsElsewhere ==
  ASSUME NEW j \in Runs, Accepted(j), inv'[j] = inv[j], pc'[j] = pc[j],
         status'[j] = status[j], launched'[j] = launched[j], numIters'[j] = numIters[j]
  PROVE  Accepted(j)'
BY DEF Accepted, Past, Spawned, LauncherOK, FlagsOK, CheckpointOK, GradAccum, Unguarded,
       Geometry, Trains, Args, Batch

(* Run i moves on with its invocation as it is. *)
LEMMA FlagsGo ==
  ASSUME FlagsInv, NEW i \in Runs, pc[i] # "over", NEW point, pc' = [pc EXCEPT ![i] = point],
         UNCHANGED <<inv, launched, status>>,
         numIters' = numIters \/ (\E h : numIters' = [numIters EXCEPT ![i] = h]),
         Past(i, point)'
  PROVE  FlagsInv'
<1>1. FlagsShape'
  BY DEF FlagsInv, FlagsShape
<1>2. \A j \in Runs \ {i} : pc'[j] = pc[j] /\ numIters'[j] = numIters[j]
  BY DEF FlagsInv, FlagsShape
<1>3. \A j \in Runs \ {i} : Accepted(j)'
  BY <1>2, FlagsElsewhere DEF FlagsInv
<1>4. Accepted(i)'
  <2>1. pc'[i] = point
    BY DEF FlagsInv, FlagsShape
  <2>2. Accepted(i)
    BY DEF FlagsInv
  <2>3. Past(i, pc[i])'
    BY <2>1 DEF Past, FlagsOK, GradAccum, Geometry, Trains, Args, Batch
  <2> QED BY <2>2, <2>3 DEF Accepted, Spawned, LauncherOK, FlagsOK, CheckpointOK,
             GradAccum, Unguarded, Geometry, Trains, Args, Batch
<1> QED BY <1>1, <1>3, <1>4 DEF FlagsInv

(* Without a new horizon, what it got past is as it was. *)
LEMMA FlagsGoTo ==
  ASSUME FlagsInv, NEW i \in Runs, pc[i] # "over", NEW point, pc' = [pc EXCEPT ![i] = point],
         UNCHANGED <<inv, launched, status, numIters>>, Past(i, point)
  PROVE  FlagsInv'
<1>1. Past(i, point)'
  BY DEF Past, FlagsOK, GradAccum, Geometry, Trains, Args, Batch
<1> QED BY <1>1, FlagsGo

LEMMA FlagsEnd ==
  ASSUME FlagsInv, NEW i \in Runs, NEW why, pc' = [pc EXCEPT ![i] = "over"],
         status' = [status EXCEPT ![i] = why],
         UNCHANGED <<inv, launched, numIters>>,
         why # "no such shard", why = "panicked" => Unguarded(i),
         why = "refused" => ~launched[i]
  PROVE  FlagsInv'
<1>1. FlagsShape'
  BY DEF FlagsInv, FlagsShape
<1>2. \A j \in Runs \ {i} : pc'[j] = pc[j] /\ status'[j] = status[j]
  BY DEF FlagsInv, FlagsShape
<1>3. \A j \in Runs \ {i} : Accepted(j)'
  BY <1>2, FlagsElsewhere DEF FlagsInv
<1>4. Accepted(i)'
  <2>1. pc'[i] = "over" /\ status'[i] = why /\ Accepted(i)
    BY DEF FlagsInv, FlagsShape
  <2>2. Past(i, pc[i])'
    BY <2>1 DEF Past, Late
  <2> QED BY <2>1, <2>2 DEF Accepted, Spawned, LauncherOK, FlagsOK, CheckpointOK,
             GradAccum, Unguarded, Geometry, Trains, Args, Batch
<1> QED BY <1>1, <1>3, <1>4 DEF FlagsInv

LEMMA FlagsStop ==
  ASSUME FlagsInv, NEW i \in Runs, NEW why, End(i, why),
         why # "no such shard", why = "panicked" => Unguarded(i),
         why = "refused" => ~launched[i]
  PROVE  FlagsInv'
BY FlagsEnd DEF End, loop

-----------------------------------------------------------------------------
(* What the validators accept. *)

LEMMA OnlyOverflowPanics ==
  ASSUME NEW checks, NEW gpus \in Nat, NEW device \in Nat, NEW len \in Nat, NEW total \in Nat,
         gpus * device * len <= MaxUsize
  PROVE  BatchGeometry(checks, gpus, device, len, total) # Panics
<1> DEFINE per_step == gpus * device * len
<1>1. CASE gpus = 0 \/ device = 0 \/ len = 0
  BY <1>1 DEF BatchGeometry, Error, Panics
<1>2. CASE ~(gpus = 0 \/ device = 0 \/ len = 0)
  <2>1. per_step \in Nat /\ per_step > 0
    <3>1. gpus * device \in Nat /\ gpus * device > 0
      BY <1>2
    <3> QED BY <1>2, <3>1
  <2>2. PerStep(checks, gpus, device, len) = per_step
    BY DEF PerStep
  <2> HIDE DEF per_step
  <2>3. total \div per_step \in Nat
    BY <2>1
  <2> QED BY <1>2, <2>1, <2>2, <2>3 DEF BatchGeometry, Error, Panics
<1> QED BY <1>1, <1>2

LEMMA BatchFits ==
  ASSUME NEW checks, NEW gpus \in Nat, NEW device \in Nat, NEW len \in Nat, NEW total \in Nat,
         gpus * device * len <= MaxUsize, BatchGeometry(checks, gpus, device, len, total) # Error
  PROVE  LET grads == BatchGeometry(checks, gpus, device, len, total) IN
         /\ gpus > 0 /\ grads \in Nat \ {0}
         /\ gpus * grads * device * len = total
         /\ grads * device * len = total \div gpus
<1> DEFINE per_step == gpus * device * len  accum == total \div per_step
<1>1. gpus > 0 /\ device > 0 /\ len > 0
  BY DEF BatchGeometry
<1>2. per_step \in Nat /\ per_step > 0
  <2>1. gpus * device \in Nat /\ gpus * device > 0
    BY <1>1
  <2> QED BY <1>1, <2>1
<1>3. /\ total % per_step = 0 /\ total >= per_step
      /\ BatchGeometry(checks, gpus, device, len, total) = accum
  <2>1. PerStep(checks, gpus, device, len) = per_step
    BY DEF PerStep
  <2> HIDE DEF per_step
  <2> QED BY <1>1, <1>2, <2>1 DEF BatchGeometry, Panics
<1>4. accum \in Nat /\ accum * per_step = total
  <2> HIDE DEF per_step
  <2> QED BY <1>2, <1>3
<1>5. accum # 0
  BY <1>2, <1>3, <1>4
<1>6. /\ gpus * accum * device * len = accum * per_step
      /\ gpus * (accum * device * len) = accum * per_step
  <2> HIDE DEF accum
  <2> QED BY <1>4
<1>7. accum * device * len = total \div gpus
  <2> DEFINE part == accum * device * len
  <2>1. part \in Nat /\ gpus * part = total
    <3> HIDE DEF accum, per_step
    <3> QED BY <1>4, <1>6
  <2> HIDE DEF part
  <2>2. (gpus * part) \div gpus = part
    BY <1>1, <2>1
  <2> QED BY <2>1, <2>2 DEF part
<1> QED BY <1>1, <1>3, <1>4, <1>5, <1>6, <1>7

LEMMA ConfigBuilds ==
  ASSUME NEW config \in [sequence_len : Count, n_head : Count, n_embd : Count],
         ConfigOK(config.sequence_len, config.n_head, config.n_embd)
  PROVE  ModelBuilds(config)
BY DEF ConfigOK, ModelBuilds, HeadDim

LEMMA WarmdownFits ==
  ASSUME NEW s, s.warmdown_ratio \in 0 .. 4, NEW n \in Nat
  PROVE  WarmdownIters(s, n) \in 0 .. n
<1>1. /\ s.warmdown_ratio * n \in Nat /\ s.warmdown_ratio * n <= 4 * n
  <2>1. s.warmdown_ratio \in {0, 1, 2, 3, 4}
    OBVIOUS
  <2> QED BY <2>1
<1>2. 2 * s.warmdown_ratio * n = 2 * (s.warmdown_ratio * n)
  OBVIOUS
<1> QED BY <1>1, <1>2 DEF WarmdownIters

LEMMA ShardsExist ==
  ASSUME NEW a \in DownloadArgs, DownloadFlagsOK(a)
  PROVE  /\ a.start + a.num <= MaxUsize
         /\ ShardIndices(a) \subseteq 0 .. MaxShard
<1>1. /\ a.start \in 0 .. MaxUsize /\ a.num \in 0 .. MaxUsize
      /\ a.val_shard \in Count \cup {Unset, Error}
  BY DEF DownloadArgs
<1>2. a.num > 0 /\ a.start + (a.num - 1) <= MaxShard
  BY <1>1, CommandsAssumption DEF DownloadFlagsOK, LastShard, Smaller
<1>3. a.val_shard # Unset => a.val_shard \in 0 .. MaxShard
  BY <1>1, CommandsAssumption DEF DownloadFlagsOK, ValShardOK, Count, Error, Unset
<1> QED BY <1>1, <1>2, <1>3, CommandsAssumption DEF ShardIndices

-----------------------------------------------------------------------------
(* The steps of a run, seen by the checks. *)

(* The batch of a run that trains is made of numbers. *)
LEMMA TrainsTyped ==
  ASSUME NEW i \in Runs, Invocation(inv[i]), Trains(i)
  PROVE  /\ Batch(i).gpus \in Nat /\ Batch(i).device_batch \in Nat
         /\ Batch(i).total_batch \in 0 .. MaxUsize /\ Geometry(i).sequence_len \in Nat
         /\ Args(i).schedule \in ScheduleFlags
         /\ Args(i).num_iters \in Nat \cup {Unset}
         /\ inv[i].cmd = "pretrain" => Args(i).num_iters \in Nat
<1>1. Count \subseteq Nat /\ Count \subseteq 0 .. MaxUsize
  BY CommandsAssumption DEF Count
<1>2. CASE inv[i].cmd = "pretrain"
  <2>1. Batch(i).total_batch \in Count
    BY <1>2 DEF Invocation, Args, Batch, PretrainArgs, BatchFlags
  <2> QED BY <1>1, <1>2, <2>1
          DEF Invocation, Args, Batch, Geometry, PretrainArgs, BatchFlags
<1>3. CASE inv[i].cmd = "sft"
  <2>1. Batch(i).total_batch \in Count
    BY <1>3 DEF Invocation, Args, Batch, SftArgs, BatchFlags
  <2> QED BY <1>1, <1>3, <2>1
          DEF Invocation, Args, Batch, Geometry, SftArgs, BatchFlags
<1> QED BY <1>2, <1>3 DEF Trains

(* The geometry panics over nothing but a product that leaves usize. *)
LEMMA PanicUnguarded ==
  ASSUME NEW i \in Runs, Invocation(inv[i]), Trains(i), GradAccum(i) = Panics
  PROVE  Unguarded(i)
BY TrainsTyped, OnlyOverflowPanics, CommandsAssumption DEF GradAccum, Unguarded

(* A spawned rank is one of a world of --gpus; the flags ask for one at    *)
(* least.                                                                  *)
LEMMA SpawnedRole ==
  ASSUME NEW i \in Runs, Invocation(inv[i]), Spawned(i)
  PROVE  /\ Role(inv[i].env, Batch(i).gpus) = "worker" /\ FlagsOK(i) /\ inv[i].nccl
         /\ inv[i].env # <<>> /\ WorldSize(i) = Batch(i).gpus
         /\ CheckpointOK(i) /\ GradAccum(i) \notin {Error, Panics}
<1>1. Batch(i).gpus \in Nat /\ Batch(i).gpus > 0
  <2>1. Batch(i).gpus \in Nat
    BY TrainsTyped DEF Spawned
  <2> QED BY <2>1 DEF Spawned, LauncherOK, FlagsOK, Trains, PretrainFlagsOK,
             PretrainSizesOK, SftFlagsOK, Batch
<1>2. inv[i].env = [rank |-> 0, world_size |-> Batch(i).gpus, id |-> "hex"]
  BY DEF Spawned
<1>3. inv[i].env # <<>>
  <2>1. "id" \in DOMAIN inv[i].env /\ "id" \notin DOMAIN <<>>
    BY <1>2
  <2> QED BY <2>1
<1>4. ParseChildEnv(inv[i].env) = "rank"
  BY <1>1, <1>2, <1>3 DEF ParseChildEnv, Error
<1> QED BY <1>2, <1>3, <1>4 DEF Role, WorldSize, Spawned, LauncherOK

LEMMA LaunchFlags == ASSUME FlagsInv, NEW i \in Runs, Launch(i) PROVE FlagsInv'
<1>1. /\ pc[i] = "start" /\ Trains(i) /\ Role(inv[i].env, Batch(i).gpus) = "launcher"
      /\ Accepted(i) /\ FlagsShape
  BY DEF Launch, At, FlagsInv
<1>2. ~launched[i]
  BY <1>1, SpawnedRole DEF Accepted
<1>3. CASE ~LauncherOK(i)
  <2>1. Overflows(i) => Unguarded(i)
    BY <1>1, PanicUnguarded DEF Overflows, Accepted
  <2> QED BY <1>2, <1>3, <2>1, FlagsStop DEF Launch, Stop
<1>4. CASE LauncherOK(i)
  <2> DEFINE env == [rank |-> 0, world_size |-> Batch(i).gpus, id |-> "hex"]
  <2>1. /\ inv' = [inv EXCEPT ![i].env = env] /\ launched' = [launched EXCEPT ![i] = TRUE]
        /\ UNCHANGED <<pc, status, numIters>>
    BY <1>4 DEF Launch, loop
  <2>2. FlagsShape'
    BY <1>1, <2>1 DEF FlagsShape
  <2>3. \A j \in Runs \ {i} : inv'[j] = inv[j] /\ launched'[j] = launched[j]
    BY <1>1, <2>1 DEF FlagsShape
  <2>4. \A j \in Runs \ {i} : Accepted(j)'
    BY <2>1, <2>3, FlagsElsewhere DEF FlagsInv
  <2>5. Invocation(inv[i]) /\ "env" \in DOMAIN inv[i]
    BY <1>1 DEF Accepted, Invocation, Trains
  <2>6. inv'[i] = [inv[i] EXCEPT !.env = env]
    BY <1>1, <2>1 DEF FlagsShape
  <2>7. /\ inv'[i].env = env /\ inv'[i].cmd = inv[i].cmd /\ inv'[i].args = inv[i].args
        /\ inv'[i].config = inv[i].config /\ inv'[i].nccl = inv[i].nccl
        /\ inv'[i].epoch = inv[i].epoch /\ inv'[i].checks = inv[i].checks
        /\ DOMAIN inv'[i] = DOMAIN inv[i]
    BY <2>5, <2>6
  <2> HIDE DEF env
  <2>8. Invocation(inv'[i])
    BY <2>5, <2>7 DEF Invocation
  <2>9. Spawned(i)'
    BY <1>1, <1>4, <2>7 DEF Spawned, LauncherOK, FlagsOK, CheckpointOK, GradAccum, Geometry,
       Trains, Args, Batch, env
  <2>10. Past(i, pc[i])'
    BY <1>1, <2>1, <2>7 DEF Accepted, Past, Late, Trains
  <2>11. status[i] = "running"
    BY <1>1 DEF Accepted
  <2>12. Accepted(i)'
    BY <2>1, <2>8, <2>9, <2>10, <2>11 DEF Accepted
  <2> QED BY <2>2, <2>4, <2>12 DEF FlagsInv
<1> QED BY <1>3, <1>4

LEMMA EarlyFlags ==
  ASSUME FlagsInv, NEW i \in Runs,
         Begin(i) \/ CheckFlags(i) \/ InitDevice(i) \/ Fetch(i) \/ ReadClock(i) \/ TryName(i)
  PROVE  FlagsInv'
<1>1. Accepted(i) /\ (launched[i] => Spawned(i)) /\ Invocation(inv[i])
  BY DEF FlagsInv, Accepted
<1>2. ASSUME NEW point, GoTo(i, point), pc[i] # "over", UNCHANGED loop, Past(i, point)
      PROVE  FlagsInv'
  BY <1>2, FlagsGoTo DEF GoTo, loop
<1>3. CASE Begin(i)
  <2>1. pc[i] = "start" /\ inv[i].cmd # "none"
    BY <1>1, <1>3 DEF Begin, At, Accepted, Past
  <2>2. CASE Trains(i) /\ Role(inv[i].env, Batch(i).gpus) = "refused"
    <3>1. ~launched[i]
      BY <1>1, <2>2, SpawnedRole
    <3> QED BY <1>3, <2>2, <3>1, FlagsStop DEF Begin, Stop
  <2>3. CASE GoTo(i, "flags") /\ UNCHANGED loop
    BY <1>2, <2>1, <2>3 DEF Past, Late
  <2> QED BY <1>3, <2>2, <2>3 DEF Begin, Role
<1>4. CASE CheckFlags(i)
  <2>1. pc[i] = "flags" /\ inv[i].cmd # "none"
    BY <1>1, <1>4 DEF CheckFlags, At, Accepted, Past
  <2>2. CASE FlagsOK(i)
    <3>1. GoTo(i, IF inv[i].cmd = "download" THEN "fetch" ELSE "device") /\ UNCHANGED loop
      BY <1>4, <2>2 DEF CheckFlags
    <3> QED BY <1>2, <2>1, <2>2, <3>1 DEF Past, Late
  <2>3. CASE ~FlagsOK(i)
    <3>1. ~launched[i]
      BY <1>1, <2>3, SpawnedRole
    <3>2. inv[i].cmd = "pretrain" /\ Overflows(i) => Unguarded(i)
      BY <1>1, PanicUnguarded DEF Overflows, Trains
    <3> QED BY <1>4, <2>3, <3>1, <3>2, FlagsStop DEF CheckFlags, Stop
  <2> QED BY <2>2, <2>3
<1>5. CASE InitDevice(i)
  <2>1. pc[i] = "device" /\ inv[i].cmd \notin {"none", "download"} /\ FlagsOK(i)
    BY <1>1, <1>5 DEF InitDevice, At, Accepted, Past
  <2>2. CASE Trains(i) /\ inv[i].env # <<>> /\ (~inv[i].nccl \/ WorldSize(i) # Batch(i).gpus)
    <3>1. ~launched[i]
      BY <1>1, <2>2, SpawnedRole
    <3> QED BY <1>5, <2>2, <3>1, FlagsStop DEF InitDevice, Stop
  <2>3. CASE GoTo(i, "prepare") /\ UNCHANGED loop
    BY <1>2, <2>1, <2>3 DEF Past, Late
  <2> QED BY <1>5, <2>2, <2>3 DEF InitDevice
<1>6. CASE Fetch(i)
  <2>1. inv[i].args \in DownloadArgs /\ DownloadFlagsOK(Args(i))
    BY <1>1, <1>6 DEF Fetch, At, Accepted, Past, Invocation, FlagsOK
  <2>2. Args(i).start + Args(i).num <= MaxUsize /\ ShardIndices(Args(i)) \subseteq 0 .. MaxShard
    BY <2>1, ShardsExist DEF Args
  <2>3. Stop(i, "done")
    BY <1>6, <2>2 DEF Fetch
  <2> QED BY <2>3, FlagsStop DEF Stop
<1>7. CASE ReadClock(i)
  <2>1. pc[i] = "clock"
    BY <1>7 DEF ReadClock, At
  <2>2. Past(i, "claim")
    BY <1>1, <2>1 DEF Accepted, Past, Late
  <2> QED BY <1>2, <1>7, <2>1, <2>2 DEF ReadClock
<1>8. CASE TryName(i)
  <2>1. UNCHANGED <<inv, launched, pc, status, numIters>>
    BY <1>8 DEF TryName, control, loop
  <2>2. \A j \in Runs : Accepted(j)'
    BY <2>1, FlagsElsewhere DEF FlagsInv
  <2> QED BY <2>1, <2>2 DEF FlagsInv, FlagsShape
<1> QED BY <1>3, <1>4, <1>5, <1>6, <1>7, <1>8

LEMMA PrepareFlags == ASSUME FlagsInv, NEW i \in Runs, Prepare(i) PROVE FlagsInv'
<1>1. /\ Accepted(i) /\ Invocation(inv[i]) /\ pc[i] = "prepare"
      /\ FlagsOK(i) /\ inv[i].cmd \in {"pretrain", "sft", "chat"}
  BY DEF FlagsInv, Accepted, Past, Prepare, At, Invocation, Subcommands
<1> DEFINE refused == \/ ~CheckpointOK(i)
                      \/ inv[i].cmd = "sft" /\ WorldSize(i) # Batch(i).gpus
                      \/ Trains(i) /\ GradAccum(i) = Error
<1>2. CASE refused
  <2>1. ~launched[i]
    BY <1>1, <1>2, SpawnedRole DEF Accepted
  <2> QED BY <1>2, <2>1, FlagsStop DEF Prepare, Stop
<1>3. CASE ~refused
  <2> DEFINE over == Trains(i) /\ GradAccum(i) = Panics
             bad == inv[i].cmd = "pretrain"
                    /\ ~ConfigOK(Args(i).sequence_len, Args(i).n_head, Args(i).n_embd)
  <2>0. CASE over
    BY <1>1, <1>3, <2>0, PanicUnguarded, FlagsStop DEF Prepare, Stop
  <2>1. CASE ~over /\ bad
    BY <1>3, <2>1, FlagsStop DEF Prepare, Stop
  <2>2. CASE ~over /\ ~bad
    <3>1. ModelBuilds(Geometry(i))
      <4>1. CASE inv[i].cmd = "pretrain"
        BY <2>2, <4>1 DEF Geometry, ConfigOK, ModelBuilds, HeadDim
      <4>2. CASE inv[i].cmd # "pretrain"
        BY <1>1, <1>3, <4>2, ConfigBuilds DEF CheckpointOK, MetaOK, Geometry, Invocation
      <4> QED BY <4>1, <4>2
    <3> DEFINE flat == /\ Geometry(i).n_embd = 0
                       /\ \E why \in {"bad geometry", "panicked"} : Stop(i, why)
    <3>2. CASE flat
      BY <1>1, <3>2, FlagsStop DEF Stop, Unguarded
    <3>3. CASE ~flat /\ inv[i].cmd = "chat"
      BY <1>3, <2>2, <3>1, <3>3, FlagsStop DEF Prepare, Stop
    <3>4. CASE ~flat /\ inv[i].cmd # "chat"
      <4>1. GoTo(i, "clock") /\ UNCHANGED loop
        BY <1>3, <2>2, <3>1, <3>4 DEF Prepare
      <4>2. Past(i, "clock")
        BY <1>1, <1>3, <2>2, <3>4 DEF Past, Late, Trains
      <4> QED BY <1>1, <4>1, <4>2, FlagsGoTo DEF GoTo, loop
    <3> QED BY <3>2, <3>3, <3>4
  <2> QED BY <2>0, <2>1, <2>2
<1> QED BY <1>2, <1>3

LEMMA ClaimFlags ==
  ASSUME FlagsInv, NEW i \in Runs, ClaimDir(i) \/ FixHorizon(i) PROVE FlagsInv'
<1>1. /\ Accepted(i) /\ Invocation(inv[i]) /\ FlagsOK(i) /\ Trains(i)
      /\ GradAccum(i) \notin {Error, Panics} /\ pc[i] \in {"claim", "pack"} /\ FlagsShape
      /\ pc[i] = "pack" => inv[i].cmd = "sft"
  BY DEF FlagsInv, Accepted, Past, ClaimDir, FixHorizon, At, Late
<1>2. \A j \in Runs : inv'[j] = inv[j] => /\ FlagsOK(j)' = FlagsOK(j) /\ Trains(j)' = Trains(j)
                                          /\ GradAccum(j)' = GradAccum(j)
  BY DEF FlagsOK, Trains, GradAccum, Geometry, Batch, Args
<1>3. ASSUME NEW point \in Late, NEW h, GoTo(i, point),
             numIters' = [numIters EXCEPT ![i] = h],
             point = "pack" => inv[i].cmd = "sft", point # "pack" => h \in Nat \ {0}
      PROVE  FlagsInv'
  <2>1. numIters'[i] = h /\ inv' = inv
    BY <1>1, <1>3 DEF FlagsShape, GoTo
  <2>2. Past(i, point)'
    BY <1>1, <1>2, <1>3, <2>1 DEF Past, Late, Trains
  <2> QED BY <1>1, <1>3, <2>2, FlagsGo DEF GoTo
<1>4. inv[i].cmd = "pretrain" => Args(i).num_iters \in Nat \ {0}
  BY <1>1, TrainsTyped DEF FlagsOK, PretrainFlagsOK, PretrainSizesOK
<1>5. inv[i].cmd = "sft" => /\ Args(i).num_iters \in Nat \cup {Unset} /\ Args(i).num_iters # 0
                            /\ inv[i].epoch \in Nat
  BY <1>1, TrainsTyped DEF FlagsOK, SftFlagsOK, Invocation
<1>6. CASE ClaimDir(i)
  <2>1. /\ numIters' = [numIters EXCEPT ![i] = IF inv[i].cmd = "sft" THEN 0 ELSE Args(i).num_iters]
        /\ GoTo(i, AfterClaim(i)) /\ AfterClaim(i) \in Late
        /\ AfterClaim(i) = IF inv[i].cmd = "sft" THEN "pack" ELSE "run.json"
    BY <1>6 DEF ClaimDir, AfterClaim, Late
  <2>2. CASE inv[i].cmd = "sft"
    BY <1>3, <2>1, <2>2
  <2>3. CASE inv[i].cmd # "sft"
    BY <1>1, <1>3, <1>4, <2>1, <2>3 DEF Trains
  <2> QED BY <2>2, <2>3
<1>7. CASE FixHorizon(i)
  <2> DEFINE bad == inv[i].epoch = 0
                    \/ (Args(i).num_iters # Unset /\ Args(i).num_iters > inv[i].epoch)
  <2>1. CASE bad
    BY <1>7, <2>1, FlagsStop DEF FixHorizon, Stop
  <2>2. CASE ~bad
    <3>1. inv[i].cmd = "sft" /\ "run.json" \in Late
      BY <1>1, <1>7 DEF FixHorizon, At, Late
    <3>2. PICK h : /\ h = IF Args(i).num_iters = Unset THEN inv[i].epoch ELSE Args(i).num_iters
                   /\ numIters' = [numIters EXCEPT ![i] = h]
      BY <1>7, <2>2 DEF FixHorizon
    <3>3. h \in Nat \ {0}
      BY <1>5, <2>2, <3>1, <3>2
    <3>4. GoTo(i, "run.json")
      BY <1>7, <2>2 DEF FixHorizon
    <3> QED BY <1>3, <3>1, <3>2, <3>3, <3>4
  <2> QED BY <2>1, <2>2
<1> QED BY <1>6, <1>7

(* No step of the loop divides by zero or counts below it, as long as      *)
(* usize counts the micro-batch of all ranks.                              *)
LEMMA StepsAreDefined ==
  ASSUME FlagsInv, NEW i \in Runs, pc[i] \in Late \ {"pack"}, ~Unguarded(i)
  PROVE  StepDefined(i)
<1>1. /\ Invocation(inv[i]) /\ FlagsOK(i) /\ Trains(i) /\ GradAccum(i) # Error
      /\ numIters[i] \in Nat \ {0}
  BY DEF FlagsInv, Accepted, Past
<1>2. /\ Batch(i).gpus \in Nat /\ Batch(i).device_batch \in Nat
      /\ Batch(i).total_batch \in 0 .. MaxUsize /\ Geometry(i).sequence_len \in Nat
  BY <1>1, TrainsTyped
<1>3. Batch(i).gpus * Batch(i).device_batch * Geometry(i).sequence_len <= MaxUsize
  BY <1>1, <1>2, CommandsAssumption DEF Unguarded
<1>4. /\ Batch(i).gpus > 0 /\ GradAccum(i) >= 1
      /\ GradAccum(i) * Batch(i).device_batch * Geometry(i).sequence_len
           = Batch(i).total_batch \div Batch(i).gpus
  BY <1>1, <1>2, <1>3, BatchFits DEF GradAccum
<1>5. (Batch(i).total_batch \div Batch(i).gpus) \in 0 .. MaxUsize
  <2>1. ASSUME NEW t \in 0 .. MaxUsize, NEW g \in Nat \ {0} PROVE t \div g \in 0 .. MaxUsize
    BY <2>1, CommandsAssumption
  <2> QED BY <1>2, <1>4, <2>1
<1>6. ASSUME NEW n \in 0 .. MaxUsize PROVE n % (MaxUsize + 1) = n
  BY CommandsAssumption
<1>7. Args(i).schedule.warmdown_ratio \in 0 .. 4
  BY <1>1 DEF FlagsOK, Trains, PretrainFlagsOK, PretrainSizesOK, SftFlagsOK, ScheduleOK
<1>8. LrDefined(Args(i).schedule, numIters[i])
  BY <1>1, <1>7, WarmdownFits DEF LrDefined
<1> QED BY <1>4, <1>5, <1>6, <1>8 DEF StepDefined

LEMMA LoopFlags ==
  ASSUME FlagsInv, NEW i \in Runs,
         \/ CreateRunJson(i) \/ WriteRunJson(i) \/ CreateMetrics(i)
         \/ StartLoop(i) \/ Evaluate(i) \/ Save(i) \/ Update(i) \/ SampleMemory(i)
         \/ LogStep(i) \/ Finish(i)
  PROVE  FlagsInv'
<1>1. pc[i] \in Late \ {"pack"} /\ pc[i] # "over"
  BY DEF CreateRunJson, WriteRunJson, CreateMetrics, StartLoop, Evaluate, Save, Update,
         SampleMemory, LogStep, Finish, At, Late
<1>2. \A point \in Late \ {"pack"} : Past(i, point)
  BY <1>1 DEF FlagsInv, Accepted, Past, Trains, Late
<1>3. ASSUME NEW point \in Late \ {"pack"}, pc' = [pc EXCEPT ![i] = point],
             UNCHANGED <<inv, launched, status, numIters>>
      PROVE  FlagsInv'
  BY <1>1, <1>2, <1>3, FlagsGoTo
<1>4. Body(i) \in Late \ {"pack"} /\ "save" \in Late \ {"pack"}
  BY DEF Body, Late
<1>5. CASE CreateRunJson(i) \/ WriteRunJson(i) \/ CreateMetrics(i)
  BY <1>3, <1>5 DEF CreateRunJson, WriteRunJson, CreateMetrics, GoTo, loop, Late
<1>6. CASE StartLoop(i)
  BY <1>3, <1>6 DEF StartLoop, Goes, loop, Late
<1>7. CASE Evaluate(i)
  <2>1. PICK point \in {"save", Body(i)} : Goes(i, point)
    <3>1. CASE CadenceFires(step[i], numIters[i], Cadence(i).eval_every)
      BY <3>1, <1>7 DEF Evaluate
    <3>2. CASE ~CadenceFires(step[i], numIters[i], Cadence(i).eval_every)
      BY <3>2, <1>7 DEF Evaluate
    <3> QED BY <3>1, <3>2
  <2> QED BY <1>3, <1>4, <1>7, <2>1 DEF Evaluate, Goes
<1>8. CASE Save(i)
  BY <1>3, <1>4, <1>8 DEF Save, Goes, loop
<1>9. CASE Update(i)
  <2>1. CASE ~StepDefined(i)
    BY <1>1, <1>9, <2>1, StepsAreDefined, FlagsStop DEF Update, Stop
  <2>2. CASE StepDefined(i)
    <3>1. PICK point \in Late \ {"pack"} : Goes(i, point)
      BY <1>9, <2>2 DEF Update, Late
    <3>2. numIters' = numIters
      BY <1>9, <2>2 DEF Update, loop
    <3> QED BY <1>3, <3>1, <3>2 DEF Goes
  <2> QED BY <2>1, <2>2
<1>10. CASE SampleMemory(i)
  BY <1>3, <1>10 DEF SampleMemory, Goes, loop, Late
<1>11. CASE LogStep(i)
  BY <1>3, <1>11 DEF LogStep, Goes, Late
<1>12. CASE Finish(i)
  BY <1>12, FlagsStop DEF Finish, Stop
<1> QED BY <1>5, <1>6, <1>7, <1>8, <1>9, <1>10, <1>11, <1>12

LEMMA FlagsStep == ASSUME FlagsInv, [Next]_vars PROVE FlagsInv'
<1>1. CASE UNCHANGED vars
  <2>1. UNCHANGED <<inv, launched, pc, status, numIters>>
    BY <1>1 DEF vars, control, loop
  <2>2. \A j \in Runs : Accepted(j)'
    BY <2>1, FlagsElsewhere DEF FlagsInv
  <2> QED BY <2>1, <2>2 DEF FlagsInv, FlagsShape
<1>2. ASSUME NEW i \in Runs, Work(i) PROVE FlagsInv'
  BY <1>2, LaunchFlags, EarlyFlags, PrepareFlags, ClaimFlags, LoopFlags DEF Work
<1>3. ASSUME NEW i \in Runs, Fail(i) PROVE FlagsInv'
  BY <1>3, FlagsStop DEF Fail
<1>4. ASSUME NEW i \in Runs, Kill(i) PROVE FlagsInv'
  BY <1>4, FlagsEnd DEF Kill, loop
<1> QED BY <1>1, <1>2, <1>3, <1>4 DEF Next

LEMMA FlagsInit == Init => FlagsInv
<1> SUFFICES ASSUME Init PROVE FlagsInv
  OBVIOUS
<1>1. inv \in Scenarios /\ DOMAIN inv = Runs /\ \A i \in Runs : Invocation(inv[i])
  BY RunDirAssumption DEF Init
<1>2. FlagsShape
  BY <1>1 DEF Init, FlagsShape
<1>3. ASSUME NEW i \in Runs PROVE Accepted(i)
  BY <1>1 DEF Init, Accepted, Past, Late
<1> QED BY <1>2, <1>3 DEF FlagsInv

(* What the validators accept, the program can do, if usize can count a    *)
(* micro-batch of all ranks and the model has a width, and the ranks refuse *)
(* nothing that the launcher has accepted (validate_pretrain_args,         *)
(* SftConfig::validate, validate_download_args, main.rs).                  *)
THEOREM AcceptedAlwaysRuns == Spec => []AcceptedFlagsRun
<1>1. FlagsInv /\ [Next]_vars => FlagsInv'
  BY FlagsStep
<1>2. FlagsInv => AcceptedFlagsRun
  BY DEF FlagsInv, Accepted, AcceptedFlagsRun
<1> QED BY <1>1, <1>2, FlagsInit, PTL DEF Spec

-----------------------------------------------------------------------------
(* The schedule of an accepted run. *)

LEMMA ScheduleShape ==
  ASSUME NEW s \in ScheduleFlags, ScheduleOK(s), NEW n \in Nat \ {0}
  PROVE  /\ \A k \in 0 .. n - 1 : LrMult(s, k, n)[1] > 0 /\ LrMult(s, k, n)[1] <= LrMult(s, k, n)[2]
         /\ \A k \in 1 .. n - 1 :
              IF k >= s.warmup_steps
              THEN k - 1 >= s.warmup_steps =>
                     Times(LrMult(s, k, n), LrMult(s, k - 1, n))
                       <= Times(LrMult(s, k - 1, n), LrMult(s, k, n))
              ELSE Times(LrMult(s, k, n), LrMult(s, k - 1, n))
                     >= Times(LrMult(s, k - 1, n), LrMult(s, k, n))
         /\ \A k \in 0 .. n - 1 : k >= s.warmup_steps =>
              4 * LrMult(s, k, n)[1] >= s.final_lr_frac * LrMult(s, k, n)[2]
<1> DEFINE up == s.warmup_steps  down == WarmdownIters(s, n)  floor == s.final_lr_frac
           high(k) == 4 * (n - k) + (down - (n - k)) * floor
<1>1. /\ up \in Nat /\ down \in 0 .. n /\ floor \in {0, 1, 2, 3, 4} /\ n \in Nat
  BY CommandsAssumption, WarmdownFits DEF ScheduleFlags, ScheduleOK, Count
<1>2. \A k \in 0 .. n - 1 :
        /\ k < up => LrMult(s, k, n) = <<k + 1, up>>
        /\ k >= up /\ k <= n - down => LrMult(s, k, n) = <<1, 1>>
        /\ k >= up /\ k > n - down => LrMult(s, k, n) = <<high(k), 4 * down>>
  BY <1>1 DEF LrMult
<1> HIDE DEF up, down, floor
<1>3. \A k \in 0 .. n - 1 : k > n - down =>
        /\ high(k) > 0 /\ high(k) <= 4 * down /\ 4 * high(k) >= floor * (4 * down)
        /\ down > 0 /\ high(k) \in Int
  BY <1>1
<1>4. \A k \in 1 .. n - 1 : k - 1 > n - down => high(k) <= high(k - 1)
  BY <1>1
<1> HIDE DEF high
<1>5. ASSUME NEW k \in 0 .. n - 1
      PROVE  /\ LrMult(s, k, n)[1] > 0 /\ LrMult(s, k, n)[1] <= LrMult(s, k, n)[2]
             /\ k >= up => 4 * LrMult(s, k, n)[1] >= floor * LrMult(s, k, n)[2]
  BY <1>1, <1>2, <1>3
<1>6. ASSUME NEW k \in 1 .. n - 1
      PROVE  IF k >= up
             THEN k - 1 >= up =>
                    Times(LrMult(s, k, n), LrMult(s, k - 1, n))
                      <= Times(LrMult(s, k - 1, n), LrMult(s, k, n))
             ELSE Times(LrMult(s, k, n), LrMult(s, k - 1, n))
                    >= Times(LrMult(s, k - 1, n), LrMult(s, k, n))
  <2>1. k \in 0 .. n - 1 /\ k - 1 \in 0 .. n - 1 /\ k \in Int
    OBVIOUS
  <2>2. CASE k < up
    <3>1. LrMult(s, k, n) = <<k + 1, up>> /\ LrMult(s, k - 1, n) = <<k - 1 + 1, up>>
      BY <1>1, <1>2, <2>1, <2>2
    <3>2. (k + 1) * up >= (k - 1 + 1) * up
      BY <1>1, <2>1
    <3> QED BY <1>1, <2>1, <2>2, <3>1, <3>2 DEF Times
  <2>3. CASE k - 1 >= up /\ k <= n - down
    <3>1. LrMult(s, k, n) = <<1, 1>> /\ LrMult(s, k - 1, n) = <<1, 1>>
      BY <1>1, <1>2, <2>1, <2>3
    <3> QED BY <1>1, <2>1, <2>3, <3>1 DEF Times
  <2>4. CASE k - 1 >= up /\ k > n - down /\ k - 1 <= n - down
    <3>1. LrMult(s, k, n) = <<high(k), 4 * down>> /\ LrMult(s, k - 1, n) = <<1, 1>>
      BY <1>1, <1>2, <2>1, <2>4
    <3> QED BY <1>1, <1>3, <2>1, <2>4, <3>1 DEF Times
  <2>5. CASE k - 1 >= up /\ k - 1 > n - down
    <3>1. LrMult(s, k, n) = <<high(k), 4 * down>> /\ LrMult(s, k - 1, n) = <<high(k - 1), 4 * down>>
      BY <1>1, <1>2, <2>1, <2>5
    <3>2. /\ high(k) \in Int /\ high(k - 1) \in Int /\ high(k) <= high(k - 1) /\ 4 * down \in Nat
      BY <1>1, <1>3, <1>4, <2>1, <2>5
    <3>3. high(k) * (4 * down) <= high(k - 1) * (4 * down)
      BY <3>2
    <3> QED BY <1>1, <2>1, <2>5, <3>1, <3>3 DEF Times
  <2> QED BY <1>1, <2>1, <2>2, <2>3, <2>4, <2>5
<1> QED BY <1>5, <1>6 DEF up, floor

(* The multipliers of an accepted run are in (0, 1], rise, stay and fall,  *)
(* and stop at --final-lr-frac (lr_mult).                                  *)
THEOREM LrAlwaysUnimodal == Spec => []LrUnimodal
<1>1. FlagsInv /\ [Next]_vars => FlagsInv'
  BY FlagsStep
<1>2. ASSUME FlagsInv PROVE LrUnimodal
  <2> SUFFICES ASSUME NEW i \in Runs, At(i, "update")
               PROVE  LET s == Args(i).schedule
                          mult(k) == LrMult(s, k, numIters[i])
                          after == {k \in 0 .. numIters[i] - 1 : k >= s.warmup_steps}
                      IN  /\ \A k \in 0 .. numIters[i] - 1 : mult(k)[1] > 0 /\ mult(k)[1] <= mult(k)[2]
                          /\ \A k \in 1 .. numIters[i] - 1 :
                               IF k \in after
                               THEN k - 1 \in after =>
                                      Times(mult(k), mult(k - 1)) <= Times(mult(k - 1), mult(k))
                               ELSE Times(mult(k), mult(k - 1)) >= Times(mult(k - 1), mult(k))
                          /\ \A k \in after : 4 * mult(k)[1] >= s.final_lr_frac * mult(k)[2]
    BY DEF LrUnimodal
  <2> DEFINE s == Args(i).schedule  n == numIters[i]
  <2>1. /\ Invocation(inv[i]) /\ FlagsOK(i) /\ Trains(i) /\ n \in Nat \ {0}
    BY <1>2 DEF FlagsInv, Accepted, Past, At, Late
  <2>2. s \in ScheduleFlags /\ ScheduleOK(s)
    BY <2>1, TrainsTyped DEF FlagsOK, Trains, PretrainFlagsOK, PretrainSizesOK, SftFlagsOK
  <2> HIDE DEF s, n
  <2>3. \A k \in 1 .. n - 1 : k \in 0 .. n - 1
    BY <2>1
  <2> QED BY <2>1, <2>2, <2>3, ScheduleShape DEF s, n
<1> QED BY <1>1, <1>2, FlagsInit, PTL DEF Spec

-----------------------------------------------------------------------------
(* What lies in a run directory, of whom, and in which order it came: a    *)
(* metrics file only beside a whole run.json, a best model only beside a   *)
(* metrics file whose logger was given its evaluation.                     *)

Whole(m) ==
  /\ m.whole
  /\ m.world_size * m.device_batch * m.sequence_len <= MaxUsize =>
       m.world_size * m.grad_accum * m.device_batch * m.sequence_len = m.tokens_per_step

Evaluated(i, s, bpb) ==
  \E k \in DOMAIN emitted[i] :
     emitted[i][k].kind = "eval" /\ emitted[i][k].step = s /\ emitted[i][k].value = bpb

DirInv(n) ==
  /\ \A file, other \in Artifacts :
       dirs[n][file] # Absent /\ dirs[n][other] # Absent
         => dirs[n][file].run = dirs[n][other].run
  /\ dirs[n].log # Absent => dirs[n].meta # Absent /\ Whole(dirs[n].meta)
  /\ dirs[n].best # Absent =>
       /\ dirs[n].log # Absent
       /\ Evaluated(dirs[n].best.run, dirs[n].best.step, dirs[n].best.bpb)

RunInv(i) ==
  /\ pc[i] \in {"pack", "run.json", "run.json written", "metrics"} => dirs[name[i]].log = Absent
  /\ pc[i] = "metrics" => dirs[name[i]].meta # Absent /\ Whole(dirs[name[i]].meta)
  /\ pc[i] = "save" => Evaluated(i, step[i], minBpb[i])
  /\ pool[i].high = window[i].since
  /\ pc[i] = "log" /\ inv[i].traced => emitted[i][Len(emitted[i])].value = window[i].last

LoopShape ==
  /\ step = [i \in Runs |-> step[i]] /\ minBpb = [i \in Runs |-> minBpb[i]]
  /\ pool = [i \in Runs |-> [used |-> pool[i].used, high |-> pool[i].high]]
  /\ window = [i \in Runs |-> [last |-> window[i].last, since |-> window[i].since]]

ProvInv == LoopShape /\ (\A n \in DOMAIN dirs : DirInv(n)) /\ (\A i \in Runs : RunInv(i))

FullInv == KeptInv /\ FlagsInv /\ ProvInv

(* What a logger was given it was given for good. *)
Grows == \A j \in Runs : \A s, bpb : Evaluated(j, s, bpb) => Evaluated(j, s, bpb)'

LEMMA SameGrows == ASSUME UNCHANGED emitted PROVE Grows
BY DEF Grows, Evaluated

LEMMA LogGrows ==
  ASSUME KeptInv, NEW i \in Runs, NEW rec, Log(i, rec)
  PROVE  /\ Grows /\ \A j \in Runs \ {i} : emitted'[j] = emitted[j]
         /\ emitted'[i] = Append(emitted[i], rec)
         /\ Len(emitted'[i]) \in DOMAIN emitted'[i] /\ emitted'[i][Len(emitted'[i])] = rec
<1>1. PICK S : Lists(S)
  BY DEF KeptInv, LogInv
<1>2. \A j \in Runs : emitted'[j] = IF j = i THEN Append(emitted[i], rec) ELSE emitted[j]
  BY DEF Log, KeptInv, LogInv, LoggerShape
<1>3. emitted[i] \in Seq(S) /\ emitted[i] \in Seq(S \cup {rec})
  BY <1>1 DEF Lists
<1>4. /\ DOMAIN emitted[i] = 1 .. Len(emitted[i]) /\ Len(emitted[i]) \in Nat
      /\ DOMAIN emitted'[i] = 1 .. Len(emitted[i]) + 1
      /\ Len(emitted'[i]) = Len(emitted[i]) + 1
      /\ emitted'[i][Len(emitted[i]) + 1] = rec
      /\ \A k \in DOMAIN emitted[i] : emitted'[i][k] = emitted[i][k]
  <2> DEFINE T == S \cup {rec}
  <2>1. rec \in T /\ emitted[i] \in Seq(T)
    BY <1>3
  <2> HIDE DEF T
  <2>2. emitted'[i] = Append(emitted[i], rec)
    BY <1>2
  <2>3. /\ Len(Append(emitted[i], rec)) = Len(emitted[i]) + 1
        /\ Append(emitted[i], rec) \in Seq(T)
        /\ Append(emitted[i], rec)[Len(emitted[i]) + 1] = rec
        /\ \A k \in 1 .. Len(emitted[i]) : Append(emitted[i], rec)[k] = emitted[i][k]
    BY <2>1, AppendProperties
  <2> QED BY <2>1, <2>2, <2>3, LenProperties
<1>5. Grows
  <2> SUFFICES ASSUME NEW j \in Runs, NEW s, NEW bpb, Evaluated(j, s, bpb)
               PROVE  Evaluated(j, s, bpb)'
    BY DEF Grows
  <2>1. CASE j = i
    BY <1>4, <2>1 DEF Evaluated
  <2>2. CASE j # i
    BY <1>2, <2>2 DEF Evaluated
  <2> QED BY <2>1, <2>2
<1>6. Len(emitted'[i]) \in DOMAIN emitted'[i] /\ emitted'[i][Len(emitted'[i])] = rec
  BY <1>4
<1> QED BY <1>2, <1>5, <1>6

LEMMA PutFile ==
  ASSUME ApartInv, NEW i \in Runs, pc[i] \in Late, NEW file \in Artifacts, NEW content,
         Put(i, file, content)
  PROVE  /\ name[i] \in DOMAIN dirs /\ DOMAIN dirs' = DOMAIN dirs
         /\ \A n \in DOMAIN dirs \ {name[i]} : dirs'[n] = dirs[n]
         /\ dirs'[name[i]][file] = content
         /\ \A other \in Artifacts \ {file} : dirs'[name[i]][other] = dirs[name[i]][other]
         /\ \A other \in Artifacts : dirs[name[i]][other] # Absent => dirs[name[i]][other].run = i
<1>1. name[i] \in DOMAIN dirs /\ DOMAIN dirs[name[i]] = Artifacts
  BY DEF ApartInv, Held, Owned
<1>2. \A other \in Artifacts : Own(name[i], other)
  BY <1>1 DEF ApartInv, Owned
<1> QED BY <1>1, <1>2 DEF Put, Own

LEMMA DirElsewhere ==
  ASSUME ApartInv, NEW n \in DOMAIN dirs, DirInv(n), dirs'[n] = dirs[n], Grows
  PROVE  DirInv(n)'
<1>1. dirs[n].best # Absent => dirs[n].best.run \in Runs
  BY DEF ApartInv, Owned, Own, Artifacts
<1> QED BY <1>1 DEF DirInv, Grows, Whole, Absent

LEMMA RunElsewhere ==
  ASSUME NEW j \in Runs, RunInv(j), pc'[j] = pc[j], name'[j] = name[j],
         pc[j] \in Late => dirs'[name[j]] = dirs[name[j]],
         step'[j] = step[j], minBpb'[j] = minBpb[j], pool'[j] = pool[j],
         window'[j] = window[j], emitted'[j] = emitted[j],
         pc[j] \in Late => inv'[j] = inv[j]
  PROVE  RunInv(j)'
BY DEF RunInv, Late, Whole, Evaluated, Absent

(* A step of run i: it is enough to look at run i, and at the directories  *)
(* it has touched.                                                         *)
LEMMA ProvStep ==
  ASSUME FullInv, NEW i \in Runs, LoopShape', Grows,
         \A n \in DOMAIN dirs' : (n \in DOMAIN dirs /\ dirs'[n] = dirs[n]) \/ DirInv(n)',
         \A j \in Runs \ {i} :
           /\ pc'[j] = pc[j] /\ name'[j] = name[j] /\ emitted'[j] = emitted[j]
           /\ step'[j] = step[j] /\ minBpb'[j] = minBpb[j] /\ pool'[j] = pool[j]
           /\ window'[j] = window[j] /\ inv'[j] = inv[j]
           /\ pc[j] \in Late => dirs'[name[j]] = dirs[name[j]],
         RunInv(i)'
  PROVE  ProvInv'
<1>1. ASSUME NEW n \in DOMAIN dirs' PROVE DirInv(n)'
  BY <1>1, DirElsewhere DEF FullInv, KeptInv, ProvInv
<1>2. ASSUME NEW j \in Runs PROVE RunInv(j)'
  <2>1. CASE j # i
    BY <2>1, RunElsewhere DEF FullInv, ProvInv
  <2> QED BY <2>1
<1> QED BY <1>1, <1>2 DEF ProvInv

(* Run i only moves on. *)
LEMMA ProvQuiet ==
  ASSUME FullInv, NEW i \in Runs, UNCHANGED <<dirs, logger, step, minBpb, memory>>,
         \A j \in Runs \ {i} : name'[j] = name[j] /\ inv'[j] = inv[j],
         \/ pc' = pc /\ pc[i] \notin Late
         \/ \E point \in Early \cup {"claim", "over"} : pc' = [pc EXCEPT ![i] = point]
         \/ /\ name' = name /\ inv' = inv /\ pc[i] \in Late \ {"metrics", "save", "log"}
            /\ \/ pc' = pc
               \/ pc[i] = "pack" /\ pc' = [pc EXCEPT ![i] = "run.json"]
               \/ \E point \in {"top", "update", "end"} : pc' = [pc EXCEPT ![i] = point]
               \/ pc' = [pc EXCEPT ![i] = "log"] /\ ~inv[i].traced
               \/ pc' = [pc EXCEPT ![i] = "log memory"]
  PROVE  ProvInv'
<1>1. \A j \in Runs \ {i} : pc'[j] = pc[j]
  BY DEF FullInv, KeptInv, ApartInv, Phases
<1>2. LoopShape' /\ Grows /\ emitted' = emitted
  BY SameGrows DEF FullInv, ProvInv, LoopShape, memory, logger
<1>3. RunInv(i)'
  <2>1. RunInv(i) /\ DOMAIN pc = Runs
    BY DEF FullInv, ProvInv, KeptInv, ApartInv, Phases
  <2> QED BY <2>1, <1>2 DEF RunInv, Early, Late, memory, Whole, Absent, Evaluated
<1> QED BY <1>1, <1>2, <1>3, ProvStep DEF memory

(* Run i writes a file of its own. *)
LEMMA ProvPut ==
  ASSUME FullInv, NEW i \in Runs, pc[i] \in Late, name' = name, inv' = inv, LoopShape', Grows,
         NEW file \in Artifacts, NEW content, Put(i, file, content), content.run = i,
         \A j \in Runs \ {i} :
           /\ pc'[j] = pc[j] /\ emitted'[j] = emitted[j]
           /\ step'[j] = step[j] /\ minBpb'[j] = minBpb[j] /\ pool'[j] = pool[j]
           /\ window'[j] = window[j],
         (file = "meta") => dirs[name[i]].log = Absent,
         (file = "log") => dirs[name[i]].meta # Absent /\ Whole(dirs[name[i]].meta),
         (file = "log") => content # Absent,
         (file = "best") => /\ dirs[name[i]].log # Absent
                            /\ Evaluated(i, content.step, content.bpb)',
         RunInv(i)'
  PROVE  ProvInv'
<1>0. PICK n : n = name[i]
  OBVIOUS
<1>1. /\ n \in DOMAIN dirs /\ DOMAIN dirs' = DOMAIN dirs
      /\ \A m \in DOMAIN dirs \ {n} : dirs'[m] = dirs[m]
      /\ dirs'[n][file] = content
      /\ \A other \in Artifacts \ {file} : dirs'[n][other] = dirs[n][other]
      /\ \A other \in Artifacts : dirs[n][other] # Absent => dirs[n][other].run = i
  BY <1>0, PutFile DEF FullInv, KeptInv
<1>2. DirInv(n) /\ (dirs[n].best # Absent => dirs[n].best.run \in Runs)
  BY <1>1 DEF FullInv, ProvInv, Artifacts
<1>3. DirInv(n)'
  <2>1. \A other \in Artifacts : dirs'[n][other] # Absent => dirs'[n][other].run = i
    BY <1>1
  <2>2. dirs'[n].log # Absent => dirs'[n].meta # Absent /\ Whole(dirs'[n].meta)
    <3>1. CASE file = "meta"
      BY <3>1, <1>0, <1>1 DEF Artifacts
    <3>2. CASE file # "meta"
      BY <3>2, <1>0, <1>1, <1>2 DEF Artifacts, DirInv
    <3> QED BY <3>1, <3>2
  <2>3. ASSUME dirs'[n].best # Absent
        PROVE  /\ dirs'[n].log # Absent
               /\ Evaluated(dirs[n].best.run, dirs[n].best.step, dirs[n].best.bpb)'
    <3>1. CASE file = "best"
      <4>1. dirs'[n].best = content /\ dirs'[n].log = dirs[n].log /\ dirs[n].log # Absent
        BY <3>1, <1>0, <1>1 DEF Artifacts
      <4>2. Evaluated(i, content.step, content.bpb)'
        BY <3>1
      <4> QED BY <4>1, <4>2 DEF Evaluated
    <3>2. CASE file # "best"
      <4>1. dirs'[n].best = dirs[n].best /\ (dirs[n].log # Absent => dirs'[n].log # Absent)
        BY <3>2, <1>0, <1>1 DEF Artifacts
      <4>2. /\ dirs[n].best.run \in Runs /\ dirs[n].log # Absent
            /\ Evaluated(dirs[n].best.run, dirs[n].best.step, dirs[n].best.bpb)
        BY <4>1, <1>2, <2>3 DEF DirInv
      <4>3. PICK j, s, bpb :
              j = dirs[n].best.run /\ s = dirs[n].best.step /\ bpb = dirs[n].best.bpb
        OBVIOUS
      <4>4. Evaluated(j, s, bpb)'
        BY <4>2, <4>3 DEF Grows
      <4> QED BY <4>1, <4>2, <4>3, <4>4 DEF Evaluated
    <3> QED BY <3>1, <3>2
  <2> QED BY <2>1, <2>2, <2>3 DEF DirInv, Whole, Absent
<1>4. \A j \in Runs \ {i} : pc[j] \in Late => dirs'[name[j]] = dirs[name[j]]
  BY <1>0, <1>1 DEF FullInv, KeptInv, ApartInv, Held
<1>5. \A m \in DOMAIN dirs' : (m \in DOMAIN dirs /\ dirs'[m] = dirs[m]) \/ DirInv(m)'
  BY <1>1, <1>3
<1> QED BY <1>4, <1>5, ProvStep

(* Run i ends: its metrics file gets the lines that were left, or its      *)
(* directory goes if there is nothing in it.                               *)
LEMMA ProvEnd ==
  ASSUME FullInv, NEW i \in Runs, pc[i] # "over", pc' = [pc EXCEPT ![i] = "over"], inv' = inv,
         UNCHANGED <<emitted, step, minBpb, memory>>,
         name' = [name EXCEPT ![i] = IF Claimed(i) THEN @ ELSE <<>>],
         dirs' = dirs \/ \E flushed \in BOOLEAN : DropAll(i, flushed)
  PROVE  ProvInv'
<1>1. /\ \A j \in Runs \ {i} : pc'[j] = pc[j] /\ name'[j] = name[j]
      /\ Grows /\ LoopShape'
  BY SameGrows DEF FullInv, KeptInv, ApartInv, Phases, ProvInv, LoopShape, memory
<1>2. RunInv(i)'
  <2>1. RunInv(i) /\ pc'[i] = "over"
    BY DEF FullInv, ProvInv, KeptInv, ApartInv, Phases
  <2> QED BY <2>1 DEF RunInv, memory
<1>3. Claimed(i) <=> pc[i] \in Late
  BY NamedPhases DEF FullInv, KeptInv
<1>4. CASE dirs' = dirs
  BY <1>1, <1>2, <1>4, ProvStep DEF memory
<1>5. CASE pc[i] \in Late /\ HasLog(i) /\ dirs' # dirs
  <2>1. PICK lines : Put(i, "log", [run |-> i, lines |-> lines])
    BY <1>3, <1>5 DEF DropAll
  <2>2. name' = name
    BY <1>3, <1>5 DEF FullInv, KeptInv, ApartInv, Phases
  <2>3. [run |-> i, lines |-> lines] # Absent
    <3>1. DOMAIN [run |-> i, lines |-> lines] = {"run", "lines"} /\ DOMAIN Absent = {}
      BY DEF Absent
    <3> QED BY <3>1
  <2>4. DirInv(name[i]) /\ "log" \in Artifacts
    BY <1>5 DEF FullInv, ProvInv, KeptInv, ApartInv, Held, Artifacts
  <2>5. dirs[name[i]].meta # Absent /\ Whole(dirs[name[i]].meta)
    BY <1>5, <2>4 DEF DirInv, HasLog
  <2> QED BY <1>1, <1>2, <1>5, <2>1, <2>2, <2>3, <2>4, <2>5, ProvPut DEF memory
<1>6. CASE Claimed(i) /\ ~HasLog(i) /\ dirs' # dirs
  <2>1. dirs' = Restrict(dirs, DOMAIN dirs \ {name[i]})
    BY <1>6 DEF DropAll
  <2>2. /\ DOMAIN dirs' = DOMAIN dirs \ {name[i]}
        /\ \A n \in DOMAIN dirs' : dirs'[n] = dirs[n]
    BY <2>1 DEF Restrict
  <2>3. \A j \in Runs \ {i} : pc[j] \in Late => name[j] \in DOMAIN dirs'
    BY <1>3, <1>6, <2>2 DEF FullInv, KeptInv, ApartInv, Held
  <2> QED BY <1>1, <1>2, <2>2, <2>3, ProvStep DEF memory
<1> QED BY <1>3, <1>4, <1>5, <1>6 DEF DropAll

LEMMA ProvStop == ASSUME FullInv, NEW i \in Runs, NEW why, pc[i] # "over", End(i, why) PROVE ProvInv'
BY ProvEnd DEF End, loop

(* Run i logs a record. *)
LEMMA ProvLog ==
  ASSUME FullInv, NEW i \in Runs, pc[i] \in Logging, NEW rec, Log(i, rec),
         inv' = inv, name' = name, LoopShape',
         \A j \in Runs \ {i} :
           /\ pc'[j] = pc[j] /\ step'[j] = step[j] /\ minBpb'[j] = minBpb[j]
           /\ pool'[j] = pool[j] /\ window'[j] = window[j],
         emitted'[i][Len(emitted'[i])] = rec /\ Len(emitted'[i]) \in DOMAIN emitted'[i] => RunInv(i)'
  PROVE  ProvInv'
<1>1. /\ pc[i] \in Late /\ HasLog(i) /\ name[i] \in DOMAIN dirs /\ "log" \in Artifacts
  BY DEF FullInv, KeptInv, LogInv, Opened, ApartInv, Held, Logging, Late, Artifacts
<1>2. /\ Grows /\ \A j \in Runs \ {i} : emitted'[j] = emitted[j]
      /\ Len(emitted'[i]) \in DOMAIN emitted'[i] /\ emitted'[i][Len(emitted'[i])] = rec
  BY LogGrows DEF FullInv
<1>3. PICK lines : Put(i, "log", [run |-> i, lines |-> lines])
  BY LogIsAWrite
<1>4. [run |-> i, lines |-> lines] # Absent
  <2>1. DOMAIN [run |-> i, lines |-> lines] = {"run", "lines"} /\ DOMAIN Absent = {}
    BY DEF Absent
  <2> QED BY <2>1
<1>5. dirs[name[i]].meta # Absent /\ Whole(dirs[name[i]].meta)
  BY <1>1 DEF FullInv, ProvInv, DirInv, HasLog
<1> QED BY <1>1, <1>2, <1>3, <1>4, <1>5, ProvPut

LEMMA EarlyProv ==
  ASSUME FullInv, NEW i \in Runs,
         \/ Launch(i) \/ Begin(i) \/ CheckFlags(i) \/ InitDevice(i) \/ Prepare(i) \/ Fetch(i)
         \/ ReadClock(i) \/ TryName(i)
  PROVE  ProvInv'
<1>1. /\ pc[i] \in Early \cup {"claim"} /\ pc[i] # "over" /\ pc[i] \notin Late
  BY DEF Launch, Begin, CheckFlags, InitDevice, Prepare, Fetch, ReadClock, TryName, At,
         Early, Late
<1>2. ASSUME NEW why, Stop(i, why) PROVE ProvInv'
  BY <1>1, <1>2, ProvStop DEF Stop
<1>3. ASSUME NEW point \in Early \cup {"claim"}, GoTo(i, point),
             UNCHANGED <<dirs, loop, logger, memory>>,
             \A j \in Runs \ {i} : name'[j] = name[j]
      PROVE  ProvInv'
  BY <1>1, <1>3, ProvQuiet DEF GoTo, loop
<1>4. CASE Launch(i)
  <2>1. CASE \E why : Stop(i, why)
    BY <1>2, <2>1
  <2>2. CASE LauncherOK(i)
    <3>1. /\ inv' = [inv EXCEPT ![i].env = [rank |-> 0, world_size |-> Batch(i).gpus, id |-> "hex"]]
          /\ UNCHANGED <<pc, name, dirs, loop, logger, memory>>
      BY <1>4, <2>2 DEF Launch
    <3>2. \A j \in Runs \ {i} : inv'[j] = inv[j]
      BY <3>1 DEF FullInv, FlagsInv, FlagsShape
    <3> QED BY <1>1, <3>1, <3>2, ProvQuiet DEF loop
  <2> QED BY <1>4, <2>1, <2>2 DEF Launch
<1>5. CASE Begin(i)
  <2>1. \/ Stop(i, "refused")
        \/ GoTo(i, "flags") /\ UNCHANGED <<name, dirs, loop, logger, memory>>
    BY <1>5 DEF Begin, Role
  <2> QED BY <1>2, <1>3, <2>1 DEF Early
<1>6. CASE CheckFlags(i)
  BY <1>2, <1>3, <1>6 DEF CheckFlags, Early
<1>7. CASE InitDevice(i)
  BY <1>2, <1>3, <1>7 DEF InitDevice, Early
<1>8. CASE Prepare(i)
  BY <1>2, <1>3, <1>8 DEF Prepare, Early
<1>9. CASE Fetch(i)
  BY <1>2, <1>9 DEF Fetch
<1>10. CASE ReadClock(i)
  <2>1. \A j \in Runs \ {i} : name'[j] = name[j]
    BY <1>10 DEF ReadClock, FullInv, KeptInv, ApartInv, Phases
  <2> QED BY <1>3, <1>10, <2>1 DEF ReadClock
<1>11. CASE TryName(i)
  <2>1. \A j \in Runs \ {i} : name'[j] = name[j]
    BY <1>11 DEF TryName, FullInv, KeptInv, ApartInv, Phases
  <2> QED BY <1>1, <1>11, <2>1, ProvQuiet DEF TryName, control, loop
<1> QED BY <1>4, <1>5, <1>6, <1>7, <1>8, <1>9, <1>10, <1>11

LEMMA ClaimProv == ASSUME FullInv, NEW i \in Runs, ClaimDir(i) PROVE ProvInv'
<1>1. /\ pc[i] = "claim" /\ name[i] \notin DOMAIN dirs /\ UNCHANGED <<inv, name, logger, memory>>
      /\ step' = step /\ minBpb' = minBpb
      /\ dirs' = WithDir(name[i])
      /\ pc' = [pc EXCEPT ![i] = AfterClaim(i)] /\ AfterClaim(i) \in {"pack", "run.json"}
  BY DEF ClaimDir, At, Taken, GoTo, AfterClaim
<1>2. /\ DOMAIN dirs' = DOMAIN dirs \cup {name[i]}
      /\ \A n \in DOMAIN dirs : dirs'[n] = dirs[n]
      /\ dirs'[name[i]].log = Absent /\ dirs'[name[i]].meta = Absent
      /\ dirs'[name[i]].best = Absent
  BY <1>1 DEF WithDir, EmptyDir
<1>3. /\ \A j \in Runs \ {i} : pc'[j] = pc[j]
      /\ pc'[i] \in {"pack", "run.json"}
      /\ Grows /\ LoopShape'
  BY <1>1, SameGrows DEF FullInv, KeptInv, ApartInv, Phases, ProvInv, LoopShape, memory, logger
<1>4. PICK n : n = name[i]
  OBVIOUS
<1>5. DirInv(n)'
  BY <1>2, <1>4 DEF DirInv, Artifacts, Absent
<1>6. RunInv(i)'
  BY <1>1, <1>2, <1>3 DEF RunInv, FullInv, ProvInv, memory, Absent
<1>7. \A j \in Runs \ {i} : pc[j] \in Late => dirs'[name[j]] = dirs[name[j]]
  BY <1>2 DEF FullInv, KeptInv, ApartInv, Held
<1> QED BY <1>1, <1>2, <1>3, <1>4, <1>5, <1>6, <1>7, ProvStep DEF logger, memory

LEMMA PrepareProv ==
  ASSUME FullInv, NEW i \in Runs,
         FixHorizon(i) \/ CreateRunJson(i) \/ WriteRunJson(i) \/ CreateMetrics(i)
  PROVE  ProvInv'
<1>1. /\ pc[i] \in {"pack", "run.json", "run.json written", "metrics"} /\ pc[i] \in Late
      /\ pc[i] # "over" /\ dirs[name[i]].log = Absent /\ DOMAIN pc = Runs
      /\ pc[i] = "metrics" => dirs[name[i]].meta # Absent /\ Whole(dirs[name[i]].meta)
      /\ pool[i].high = window[i].since
  BY DEF FixHorizon, CreateRunJson, WriteRunJson, CreateMetrics, At, Late, FullInv, ProvInv,
         RunInv, KeptInv, ApartInv, Phases
<1>2. CASE FixHorizon(i)
  <2>1. CASE Stop(i, "bad data")
    BY <1>1, <2>1, ProvStop DEF Stop
  <2>2. CASE GoTo(i, "run.json") /\ UNCHANGED <<name, dirs, step, minBpb, logger, memory>>
    BY <1>1, <1>2, <2>2, ProvQuiet DEF GoTo, FixHorizon, At
  <2> QED BY <1>2, <2>1, <2>2 DEF FixHorizon
<1>3. ASSUME NEW point, GoTo(i, point), UNCHANGED <<name, loop, logger, memory>>
      PROVE  /\ LoopShape' /\ Grows /\ pc'[i] = point /\ inv' = inv /\ name' = name
             /\ \A j \in Runs \ {i} :
                  /\ pc'[j] = pc[j] /\ emitted'[j] = emitted[j] /\ step'[j] = step[j]
                  /\ minBpb'[j] = minBpb[j] /\ pool'[j] = pool[j] /\ window'[j] = window[j]
             /\ pool'[i].high = window'[i].since
  BY <1>1, <1>3, SameGrows DEF GoTo, loop, logger, memory, FullInv, ProvInv, LoopShape
<1>4. /\ name[i] \in DOMAIN dirs /\ {"meta", "log", "best"} \subseteq Artifacts
  BY <1>1 DEF FullInv, KeptInv, ApartInv, Held, Artifacts
<1>5. CASE CreateRunJson(i)
  <2> DEFINE content == [run |-> i, whole |-> FALSE]
  <2>1. Put(i, "meta", content) /\ GoTo(i, "run.json written") /\ UNCHANGED <<name, loop, logger, memory>>
    BY <1>5 DEF CreateRunJson
  <2>2. dirs'[name[i]].log = dirs[name[i]].log
    <3>1. ApartInv /\ pc[i] \in Late
      BY <1>1 DEF FullInv, KeptInv, Late
    <3>2. \A other \in Artifacts \ {"meta"} :
             dirs'[name[i]][other] = dirs[name[i]][other]
      BY <1>4, <2>1, <3>1, PutFile
    <3> QED BY <1>4, <3>2
  <2>3. RunInv(i)'
    <3>1. pc'[i] = "run.json written" /\ name' = name /\ pool'[i].high = window'[i].since
      BY <1>3, <2>1
    <3> QED BY <1>1, <2>2, <3>1 DEF RunInv, Absent
  <2> QED BY <1>1, <1>3, <1>4, <2>1, <2>3, ProvPut
<1>6. CASE WriteRunJson(i)
  <2>1. Put(i, "meta", RunMeta(i)) /\ GoTo(i, "metrics") /\ UNCHANGED <<name, loop, logger, memory>>
    BY <1>6 DEF WriteRunJson
  <2>2. PICK content : content = RunMeta(i)
    OBVIOUS
  <2>3. content.run = i /\ Whole(content) /\ content # Absent
    <3>1. Invocation(inv[i]) /\ Trains(i) /\ GradAccum(i) # Error
      BY <1>1 DEF FullInv, FlagsInv, Accepted, Past
    <3>2. Batch(i).gpus * Batch(i).device_batch * Geometry(i).sequence_len <= MaxUsize =>
            Batch(i).gpus * GradAccum(i) * Batch(i).device_batch * Geometry(i).sequence_len
              = Batch(i).total_batch
      BY <3>1, TrainsTyped, BatchFits DEF GradAccum
    <3>3. "run" \in DOMAIN content /\ DOMAIN Absent = {}
      BY <2>2 DEF RunMeta, Absent
    <3> QED BY <2>2, <3>2, <3>3 DEF RunMeta, Whole
  <2>4. /\ dirs'[name[i]].log = dirs[name[i]].log /\ dirs'[name[i]].meta = content
    BY <1>1, <1>4, <2>1, <2>2, PutFile DEF FullInv, KeptInv, Artifacts
  <2>5. RunInv(i)'
    <3>1. pc'[i] = "metrics" /\ name' = name /\ pool'[i].high = window'[i].since
      BY <1>3, <2>1
    <3> QED BY <1>1, <2>3, <2>4, <3>1 DEF RunInv, Absent, Whole
  <2> QED BY <1>1, <1>3, <1>4, <2>1, <2>2, <2>3, <2>5, ProvPut
<1>7. CASE CreateMetrics(i)
  <2> DEFINE content == [run |-> i, lines |-> <<>>]
  <2>1. Put(i, "log", content) /\ GoTo(i, "train") /\ UNCHANGED <<name, loop, logger, memory>>
    BY <1>7 DEF CreateMetrics
  <2>2. content # Absent
    <3>1. DOMAIN content = {"run", "lines"} /\ DOMAIN Absent = {}
      BY DEF Absent
    <3> QED BY <3>1
  <2>3. RunInv(i)'
    <3>1. pc'[i] = "train" /\ name' = name /\ pool'[i].high = window'[i].since
      BY <1>3, <2>1
    <3> QED BY <3>1 DEF RunInv
  <2>4. dirs[name[i]].meta # Absent /\ Whole(dirs[name[i]].meta)
    BY <1>1, <1>7 DEF CreateMetrics, At
  <2> QED BY <1>1, <1>3, <1>4, <2>1, <2>2, <2>3, <2>4, ProvPut
<1> QED BY <1>2, <1>5, <1>6, <1>7

(* The high-water mark and the history of it move together. *)
LEMMA SampleShape ==
  ASSUME LoopShape, NEW i \in Runs, LogMemory(i), step' = step, minBpb' = minBpb
  PROVE  LoopShape'
<1>1. /\ pool'[i] = [used |-> pool[i].used, high |-> pool[i].used]
      /\ \A j \in Runs \ {i} : pool'[j] = pool[j]
      /\ pool' = [j \in Runs |-> pool'[j]]
  <2>1. pool[i] = [used |-> pool[i].used, high |-> pool[i].high] /\ DOMAIN pool = Runs
    BY DEF LoopShape
  <2>2. [pool[i] EXCEPT !.high = pool[i].used] = [used |-> pool[i].used, high |-> pool[i].used]
    BY <2>1
  <2>3. pool' = [pool EXCEPT ![i] = [used |-> pool[i].used, high |-> pool[i].used]]
    BY <2>2 DEF LogMemory, Reset
  <2> QED BY <2>1, <2>3
<1>2. /\ window'[i] = [last |-> window[i].since, since |-> pool[i].used]
      /\ \A j \in Runs \ {i} : window'[j] = window[j]
      /\ window' = [j \in Runs |-> window'[j]]
  BY DEF LoopShape, LogMemory
<1>3. \A j \in Runs : pool'[j] = [used |-> pool'[j].used, high |-> pool'[j].high]
  BY <1>1 DEF LoopShape
<1>4. \A j \in Runs : window'[j] = [last |-> window'[j].last, since |-> window'[j].since]
  BY <1>2 DEF LoopShape
<1> QED BY <1>1, <1>2, <1>3, <1>4 DEF LoopShape

LEMMA AllocateShape ==
  ASSUME LoopShape, NEW i \in Runs, Allocate(i), pool[i].high = window[i].since
  PROVE  /\ pool' = [j \in Runs |-> [used |-> pool'[j].used, high |-> pool'[j].high]]
         /\ window' = [j \in Runs |-> [last |-> window'[j].last, since |-> window'[j].since]]
         /\ pool'[i].high = window'[i].since
         /\ \A j \in Runs \ {i} : pool'[j] = pool[j] /\ window'[j] = window[j]
<1>1. CASE UNCHANGED memory
  BY <1>1 DEF LoopShape, memory
<1>2. CASE inv[i].traced
  <2>1. PICK most, used :
          /\ pool' = [pool EXCEPT ![i] = [used |-> used, high |-> Max({pool[i].high, most})]]
          /\ window' = [window EXCEPT ![i] = [window[i] EXCEPT !.since = Max({window[i].since, most})]]
    BY <1>2 DEF Allocate
  <2>2. PICK top : top = Max({pool[i].high, most})
    OBVIOUS
  <2>3. top = Max({window[i].since, most})
    BY <2>2
  <2>4. /\ pool'[i] = [used |-> used, high |-> top]
        /\ \A j \in Runs \ {i} : pool'[j] = pool[j]
        /\ pool' = [j \in Runs |-> pool'[j]]
    BY <2>1, <2>2 DEF LoopShape
  <2>5. /\ window'[i] = [last |-> window[i].last, since |-> top]
        /\ \A j \in Runs \ {i} : window'[j] = window[j]
        /\ window' = [j \in Runs |-> window'[j]]
    <3>1. window[i] = [last |-> window[i].last, since |-> window[i].since] /\ DOMAIN window = Runs
      BY DEF LoopShape
    <3>2. [window[i] EXCEPT !.since = top] = [last |-> window[i].last, since |-> top]
      BY <3>1
    <3>3. window' = [window EXCEPT ![i] = [last |-> window[i].last, since |-> top]]
      BY <2>1, <2>3, <3>2
    <3> QED BY <3>1, <3>3
  <2>6. \A j \in Runs : pool'[j] = [used |-> pool'[j].used, high |-> pool'[j].high]
    BY <2>4 DEF LoopShape
  <2>7. \A j \in Runs : window'[j] = [last |-> window'[j].last, since |-> window'[j].since]
    BY <2>5 DEF LoopShape
  <2> QED BY <2>4, <2>5, <2>6, <2>7
<1> QED BY <1>1, <1>2 DEF Allocate

LEMMA LoopProv ==
  ASSUME FullInv, NEW i \in Runs,
         \/ StartLoop(i) \/ Evaluate(i) \/ Save(i) \/ Update(i) \/ SampleMemory(i)
         \/ LogStep(i) \/ Finish(i)
  PROVE  ProvInv'
<1>1. /\ pc[i] \in Logging /\ pc[i] \in Late /\ pc[i] # "over" /\ DOMAIN pc = Runs
      /\ LoopShape /\ RunInv(i) /\ pool[i].high = window[i].since
  BY DEF StartLoop, Evaluate, Save, Update, SampleMemory, LogStep, Finish, At, Logging, Late,
         FullInv, ProvInv, RunInv, KeptInv, ApartInv, Phases
<1>2. Body(i) \in {"update", "end"}
  BY DEF Body
<1>3. ASSUME NEW point, Goes(i, point)
      PROVE  /\ inv' = inv /\ name' = name /\ pc' = [pc EXCEPT ![i] = point] /\ pc'[i] = point
             /\ \A j \in Runs \ {i} : pc'[j] = pc[j]
  BY <1>1, <1>3 DEF Goes
<1>4. ASSUME NEW rec, Log(i, rec), NEW point \in {"top", "log", "update", "end"}, Goes(i, point),
             LogMemory(i) \/ UNCHANGED memory, LoopShape',
             \A j \in Runs \ {i} : step'[j] = step[j] /\ minBpb'[j] = minBpb[j],
             point = "log" => LogMemory(i) /\ rec.value = pool[i].high
      PROVE  ProvInv'
  <2>1. /\ \A j \in Runs \ {i} : pool'[j] = pool[j] /\ window'[j] = window[j]
        /\ pool'[i].high = window'[i].since
        /\ LogMemory(i) => window'[i].last = window[i].since
    BY <1>1, <1>4 DEF LogMemory, Reset, LoopShape, memory
  <2>2. ASSUME emitted'[i][Len(emitted'[i])] = rec PROVE RunInv(i)'
    BY <1>1, <1>3, <1>4, <2>1, <2>2 DEF RunInv
  <2> QED BY <1>1, <1>3, <1>4, <2>1, <2>2, ProvLog
<1>5. CASE StartLoop(i)
  <2>1. Goes(i, "top") /\ UNCHANGED loop
    BY <1>5 DEF StartLoop
  <2>2. CASE LogMemory(i)
    <3>1. LoopShape'
      BY <1>1, <2>1, <2>2, SampleShape DEF loop
    <3>2. Log(i, Record(i, step[i], "mem", pool[i].high))
      BY <2>2 DEF LogMemory
    <3> QED BY <1>4, <2>1, <2>2, <3>1, <3>2 DEF loop
  <2>3. CASE UNCHANGED <<dirs, logger, memory>>
    <3>1. /\ inv' = inv /\ name' = name /\ pc' = [pc EXCEPT ![i] = "top"]
          /\ UNCHANGED <<dirs, logger, step, minBpb, memory>>
      BY <1>3, <2>1, <2>3 DEF loop
    <3>2. pc[i] \in Late \ {"metrics", "save", "log"}
      BY <1>1, <1>5 DEF StartLoop, At
    <3> QED BY <3>1, <3>2, ProvQuiet
  <2> QED BY <1>5, <2>2, <2>3 DEF StartLoop
<1>6. CASE SampleMemory(i)
  <2>1. Goes(i, "log") /\ UNCHANGED loop /\ LogMemory(i)
    BY <1>6 DEF SampleMemory
  <2>2. PICK rec : Log(i, rec) /\ rec.value = pool[i].high
    BY <2>1 DEF LogMemory, Record
  <2>3. LoopShape'
    BY <1>1, <2>1, SampleShape DEF loop
  <2> QED BY <1>4, <2>1, <2>2, <2>3 DEF loop
<1>7. CASE LogStep(i)
  <2>1. PICK rec : Log(i, rec)
    BY <1>7 DEF LogStep
  <2>2. /\ Goes(i, "top") /\ UNCHANGED memory /\ minBpb' = minBpb
        /\ step' = [step EXCEPT ![i] = @ + 1]
    BY <1>7 DEF LogStep
  <2>3. LoopShape' /\ \A j \in Runs \ {i} : step'[j] = step[j]
    BY <1>1, <2>2 DEF LoopShape, memory
  <2> QED BY <1>4, <2>1, <2>2, <2>3
<1>8. CASE Save(i)
  <2>1. PICK content : /\ content = [run |-> i, step |-> step[i], bpb |-> minBpb[i]]
                       /\ Put(i, "best", content)
    BY <1>8 DEF Save
  <2>2. Goes(i, Body(i)) /\ UNCHANGED <<loop, logger, memory>> /\ pc[i] = "save"
    BY <1>8 DEF Save, At
  <2>3. /\ content.run = i /\ content.step = step[i] /\ content.bpb = minBpb[i]
        /\ Evaluated(i, content.step, content.bpb)
    BY <1>1, <2>1, <2>2 DEF RunInv
  <2>4. Evaluated(i, content.step, content.bpb)' /\ Grows
    BY <2>2, <2>3, SameGrows DEF Evaluated, logger
  <2>5. LoopShape' /\ "best" \in Artifacts /\ dirs[name[i]].log # Absent
    BY <1>1, <2>2 DEF LoopShape, loop, memory, Artifacts, FullInv, KeptInv, LogInv, Opened, HasLog
  <2>6. pc'[i] \in {"update", "end"} /\ inv' = inv /\ name' = name
        /\ \A j \in Runs \ {i} : pc'[j] = pc[j]
    BY <1>1, <1>2, <2>2 DEF Goes
  <2>7. RunInv(i)'
    BY <1>1, <2>2, <2>6 DEF RunInv, memory
  <2> QED BY <1>1, <2>1, <2>2, <2>3, <2>4, <2>5, <2>6, <2>7, ProvPut DEF loop, logger, memory
<1>9. CASE Evaluate(i)
  <2>1. CASE ~CadenceFires(step[i], numIters[i], Cadence(i).eval_every)
    <3>1. Goes(i, Body(i)) /\ UNCHANGED <<minBpb, dirs, logger, step, memory>> /\ pc[i] = "top"
      BY <1>9, <2>1 DEF Evaluate, At
    <3> QED BY <1>1, <1>2, <1>3, <3>1, ProvQuiet DEF Goes
  <2>2. CASE CadenceFires(step[i], numIters[i], Cadence(i).eval_every)
    <3> DEFINE better(bpb) == minBpb[i] = -1 \/ bpb < minBpb[i]
    <3>1. PICK bpb \in Bpbs :
            /\ Log(i, Record(i, step[i], "eval", bpb))
            /\ minBpb' = [minBpb EXCEPT ![i] = IF better(bpb) THEN bpb ELSE @]
            /\ Goes(i, IF better(bpb) THEN "save" ELSE Body(i))
            /\ UNCHANGED <<step, memory>>
      BY <1>9, <2>2 DEF Evaluate
    <3>2. PICK rec : rec = Record(i, step[i], "eval", bpb)
      OBVIOUS
    <3>3. /\ Log(i, rec) /\ rec.kind = "eval" /\ rec.step = step[i] /\ rec.value = bpb
      BY <3>1, <3>2 DEF Record
    <3>4. LoopShape' /\ \A j \in Runs \ {i} : minBpb'[j] = minBpb[j]
      BY <1>1, <3>1 DEF LoopShape, memory
    <3>5. CASE ~better(bpb)
      BY <1>2, <1>4, <3>1, <3>3, <3>4, <3>5
    <3>6. CASE better(bpb)
      <4>1. Goes(i, "save") /\ minBpb'[i] = bpb
        BY <1>1, <3>1, <3>6 DEF LoopShape
      <4>2. ASSUME emitted'[i][Len(emitted'[i])] = rec, Len(emitted'[i]) \in DOMAIN emitted'[i]
            PROVE  RunInv(i)'
        <5>1. Evaluated(i, step[i], minBpb[i])'
          BY <3>1, <3>3, <4>1, <4>2 DEF Evaluated
        <5>2. pc'[i] = "save" /\ pool'[i].high = window'[i].since
          BY <1>1, <1>3, <3>1, <4>1 DEF memory
        <5> QED BY <5>1, <5>2 DEF RunInv
      <4> QED BY <1>1, <1>3, <3>1, <3>3, <3>4, <4>1, <4>2, ProvLog DEF memory
    <3> QED BY <3>5, <3>6
  <2> QED BY <2>1, <2>2
<1>10. CASE Finish(i)
  BY <1>1, <1>10, ProvStop DEF Finish, Stop
<1>11. CASE Update(i)
  <2>1. CASE Stop(i, "panicked")
    BY <1>1, <2>1, ProvStop DEF Stop
  <2>2. CASE ~Stop(i, "panicked")
    <3>1. /\ UNCHANGED <<dirs, minBpb, logger>> /\ Allocate(i)
          /\ step' = step \/ step' = [step EXCEPT ![i] = @ + 1]
          /\ inv[i].traced \/ UNCHANGED memory
      BY <1>11, <2>2 DEF Update, loop, Allocate
    <3>2. \E point \in {"top", "log memory", "log"} :
             Goes(i, point) /\ (point = "log" => ~inv[i].traced)
      BY <1>11, <2>2 DEF Update
    <3>3. PICK point \in {"top", "log memory", "log"} :
             Goes(i, point) /\ (point = "log" => ~inv[i].traced)
      BY <3>2
    <3>4. /\ LoopShape'
          /\ pool'[i].high = window'[i].since
          /\ \A j \in Runs \ {i} : pool'[j] = pool[j] /\ window'[j] = window[j] /\ step'[j] = step[j]
      BY <1>1, <3>1, AllocateShape DEF LoopShape
    <3>5. RunInv(i)'
      BY <1>3, <3>3, <3>4 DEF RunInv
    <3>6. Grows /\ emitted' = emitted
      BY <3>1, SameGrows DEF logger
    <3> QED BY <1>3, <3>1, <3>3, <3>4, <3>5, <3>6, ProvStep
  <2> QED BY <2>1, <2>2
<1> QED BY <1>5, <1>6, <1>7, <1>8, <1>9, <1>10, <1>11

LEMMA FullStep == ASSUME FullInv, [Next]_vars PROVE FullInv'
<1>1. KeptInv' /\ FlagsInv'
  BY KeptStep, FlagsStep DEF FullInv
<1>2. CASE UNCHANGED vars
  <2>1. UNCHANGED <<inv, pc, name, dirs, step, minBpb, emitted, pool, window>>
    BY <1>2 DEF vars, control, loop, logger, memory
  <2>2. LoopShape' /\ Grows
    BY <2>1, SameGrows DEF FullInv, ProvInv, LoopShape
  <2>3. PICK i \in Runs : TRUE
    BY DEF Runs
  <2>4. RunInv(i)'
    BY <2>1, RunElsewhere DEF FullInv, ProvInv
  <2> QED BY <1>1, <2>1, <2>2, <2>3, <2>4, ProvStep DEF FullInv
<1>3. ASSUME NEW i \in Runs, Work(i) PROVE ProvInv'
  BY <1>3, EarlyProv, ClaimProv, PrepareProv, LoopProv DEF Work
<1>4. ASSUME NEW i \in Runs, Fail(i) PROVE ProvInv'
  BY <1>4, ProvStop DEF Fail, Busy
<1>5. ASSUME NEW i \in Runs, Kill(i) PROVE ProvInv'
  BY <1>5, ProvEnd DEF Kill, Busy, loop
<1> QED BY <1>1, <1>2, <1>3, <1>4, <1>5 DEF Next, FullInv

LEMMA FullInit == Init => FullInv
<1> SUFFICES ASSUME Init PROVE FullInv
  OBVIOUS
<1>1. KeptInv /\ FlagsInv /\ DOMAIN dirs = {}
  BY KeptInit, FlagsInit DEF Init
<1>2. LoopShape /\ \A i \in Runs : RunInv(i)
  BY DEF Init, LoopShape, RunInv
<1> QED BY <1>1, <1>2 DEF FullInv, ProvInv

-----------------------------------------------------------------------------

(* A metrics file or a best model lies beside a whole run.json whose batch *)
(* multiplies out (unless its product leaves usize), and a best model      *)
(* beside the line of its evaluation unless a line was lost to an error    *)
(* that was warned of (write_run_json, MetricsLogger, the order of         *)
(* evaluation and save in train).                                          *)
THEOREM RunAlwaysHasProvenance == Spec => []RunHasProvenance
<1>1. FullInv /\ [Next]_vars => FullInv'
  BY FullStep
<1>2. ASSUME FullInv PROVE RunHasProvenance
  <2> SUFFICES ASSUME NEW n \in DOMAIN dirs
               PROVE  /\ dirs[n].log # Absent \/ dirs[n].best # Absent =>
                           dirs[n].meta # Absent /\ Whole(dirs[n].meta)
                      /\ dirs[n].best # Absent /\ ~warned[dirs[n].best.run] =>
                           \E rec \in Range(dirs[n].log.lines) :
                              /\ rec.kind = "eval" /\ rec.step = dirs[n].best.step
                              /\ rec.value = dirs[n].best.bpb
    BY DEF RunHasProvenance, Whole
  <2>1. DirInv(n)
    BY <1>2 DEF FullInv, ProvInv
  <2>2. ASSUME dirs[n].best # Absent, ~warned[dirs[n].best.run]
        PROVE  \E rec \in Range(dirs[n].log.lines) :
                 /\ rec.kind = "eval" /\ rec.step = dirs[n].best.step
                 /\ rec.value = dirs[n].best.bpb
    <3>1. /\ dirs[n].log # Absent /\ dirs[n].log.run = dirs[n].best.run
          /\ Evaluated(dirs[n].best.run, dirs[n].best.step, dirs[n].best.bpb)
      BY <2>1, <2>2 DEF DirInv, Artifacts
    <3>2. dirs[n].log.lines = emitted[dirs[n].best.run]
      BY <1>2, <2>2, <3>1 DEF FullInv, KeptInv, LogInv, Files, Kept
    <3> QED BY <3>1, <3>2 DEF Evaluated, Range
  <2> QED BY <2>1, <2>2 DEF DirInv
<1> QED BY <1>1, <1>2, FullInit, PTL DEF Spec

(* Each memory record shows the most that was in use since the one before  *)
(* it (MemProbe.reset_highs after each sample).                            *)
THEOREM PeaksAlwaysCovered == Spec => []PeaksCovered
<1>1. FullInv /\ [Next]_vars => FullInv'
  BY FullStep
<1>2. FullInv => PeaksCovered
  BY DEF FullInv, ProvInv, RunInv, PeaksCovered, At
<1> QED BY <1>1, <1>2, FullInit, PTL DEF Spec

-----------------------------------------------------------------------------
(* An empty directory is that of a run that has claimed it and not filled  *)
(* it yet, or was killed, or has no guard.                                 *)

Holds(i) ==
  \/ pc[i] \in Late
  \/ pc[i] = "over" /\ (status[i] = "killed" \/ ~Guarded(i))

EmptyInv ==
  \A n \in DOMAIN dirs : dirs[n] = EmptyDir => \E i \in Runs : name[i] = n /\ Holds(i)

LEMMA EmptyStep ==
  ASSUME EmptyInv, NEW i \in Runs,
         \A j \in Runs \ {i} : /\ pc'[j] = pc[j] /\ name'[j] = name[j]
                               /\ status'[j] = status[j] /\ inv'[j] = inv[j],
         \A n \in DOMAIN dirs' : dirs'[n] = EmptyDir =>
           \/ n \in DOMAIN dirs /\ dirs[n] = EmptyDir
           \/ n = name'[i] /\ Holds(i)',
         Holds(i) => \/ Holds(i)' /\ name'[i] = name[i]
                     \/ name[i] \notin DOMAIN dirs' \/ dirs'[name[i]] # EmptyDir
  PROVE  EmptyInv'
<1> SUFFICES ASSUME NEW n \in DOMAIN dirs', dirs'[n] = EmptyDir
             PROVE  \E j \in Runs : name'[j] = n /\ Holds(j)'
  BY DEF EmptyInv, EmptyDir, Absent
<1>1. CASE n = name'[i] /\ Holds(i)'
  BY <1>1
<1>2. CASE n \in DOMAIN dirs /\ dirs[n] = EmptyDir
  <2>1. PICK j \in Runs : name[j] = n /\ Holds(j)
    BY <1>2 DEF EmptyInv
  <2>2. CASE j = i
    BY <2>1, <2>2
  <2>3. CASE j # i
    BY <2>1, <2>3 DEF Holds, Guarded
  <2> QED BY <2>2, <2>3
<1> QED BY <1>1, <1>2

(* A run at a point of its life, and the root with nothing new that is     *)
(* empty.                                                                  *)
LEMMA EmptyQuiet ==
  ASSUME FullInv, EmptyInv, NEW i \in Runs, UNCHANGED status,
         \A j \in Runs \ {i} : pc'[j] = pc[j] /\ name'[j] = name[j] /\ inv'[j] = inv[j],
         \A n \in DOMAIN dirs' : dirs'[n] = EmptyDir => n \in DOMAIN dirs /\ dirs[n] = EmptyDir,
         \/ pc[i] \in Early \cup {"claim"}
         \/ pc[i] \in Late /\ pc'[i] \in Late /\ name' = name
  PROVE  EmptyInv'
<1>1. Holds(i) => Holds(i)' /\ name'[i] = name[i]
  BY DEF Holds, Early, Late
<1> QED BY <1>1, EmptyStep

LEMMA EmptyPut ==
  ASSUME FullInv, EmptyInv, NEW i \in Runs, pc[i] \in Late, NEW file \in Artifacts, NEW content,
         Put(i, file, content), content # Absent
  PROVE  /\ dirs'[name[i]] # EmptyDir
         /\ \A n \in DOMAIN dirs' : dirs'[n] = EmptyDir => n \in DOMAIN dirs /\ dirs[n] = EmptyDir
<1>1. /\ name[i] \in DOMAIN dirs /\ DOMAIN dirs' = DOMAIN dirs
      /\ \A n \in DOMAIN dirs \ {name[i]} : dirs'[n] = dirs[n]
      /\ dirs'[name[i]][file] = content
  BY PutFile DEF FullInv, KeptInv
<1>2. EmptyDir[file] = Absent
  BY DEF EmptyDir, Artifacts
<1> QED BY <1>1, <1>2

(* Whatever a file holds, it is a record. *)
LEMMA FileIsThere ==
  ASSUME NEW content, "run" \in DOMAIN content PROVE content # Absent
<1>1. DOMAIN Absent = {}
  BY DEF Absent
<1> QED BY <1>1

LEMMA EmptyEnd ==
  ASSUME FullInv, EmptyInv, NEW i \in Runs, NEW why, pc[i] # "over", End(i, why)
  PROVE  EmptyInv'
<1>1. /\ pc'[i] = "over" /\ inv' = inv
      /\ \A j \in Runs \ {i} : pc'[j] = pc[j] /\ name'[j] = name[j] /\ status'[j] = status[j]
      /\ pc[i] \in Late => name'[i] = name[i]
  BY NamedPhases DEF End, FullInv, KeptInv, ApartInv, Phases, FlagsInv, FlagsShape
<1>2. PICK flushed \in BOOLEAN : DropAll(i, flushed)
  BY DEF End
<1>3. Holds(i) <=> pc[i] \in Late
  BY DEF Holds
<1>4. Claimed(i) <=> pc[i] \in Late
  BY NamedPhases DEF FullInv, KeptInv
<1>5. CASE pc[i] \in Late /\ HasLog(i)
  <2>1. PICK content : Put(i, "log", content) /\ "run" \in DOMAIN content
    BY <1>2, <1>4, <1>5 DEF DropAll
  <2>2. content # Absent /\ "log" \in Artifacts
    BY <2>1, FileIsThere DEF Artifacts
  <2>3. /\ dirs'[name[i]] # EmptyDir
        /\ \A n \in DOMAIN dirs' : dirs'[n] = EmptyDir => n \in DOMAIN dirs /\ dirs[n] = EmptyDir
    BY <1>5, <2>1, <2>2, EmptyPut
  <2> QED BY <1>1, <2>3, EmptyStep
<1>6. CASE pc[i] \in Late /\ ~HasLog(i) /\ Guarded(i) /\ dirs[name[i]] = EmptyDir
  <2>1. dirs' = Restrict(dirs, DOMAIN dirs \ {name[i]})
    BY <1>2, <1>4, <1>6 DEF DropAll
  <2>2. /\ DOMAIN dirs' = DOMAIN dirs \ {name[i]}
        /\ \A n \in DOMAIN dirs' : dirs'[n] = dirs[n]
    BY <2>1 DEF Restrict
  <2> QED BY <1>1, <2>2, EmptyStep
<1>7. CASE pc[i] \in Late /\ ~HasLog(i) /\ ~(Guarded(i) /\ dirs[name[i]] = EmptyDir)
  <2>1. dirs' = dirs
    BY <1>2, <1>4, <1>7 DEF DropAll
  <2>2. ~Guarded(i) => Holds(i)'
    BY <1>1 DEF Holds, Guarded
  <2>3. Guarded(i) => dirs'[name[i]] # EmptyDir
    BY <1>7, <2>1
  <2> QED BY <1>1, <1>7, <2>1, <2>2, <2>3, EmptyStep
<1>8. CASE pc[i] \notin Late
  <2>1. dirs' = dirs
    BY <1>2, <1>4, <1>8 DEF DropAll
  <2> QED BY <1>1, <1>3, <1>8, <2>1, EmptyStep
<1> QED BY <1>5, <1>6, <1>7, <1>8

LEMMA EmptyKill ==
  ASSUME FullInv, EmptyInv, NEW i \in Runs, Kill(i) PROVE EmptyInv'
<1>1. /\ pc'[i] = "over" /\ status'[i] = "killed" /\ inv' = inv /\ dirs' = dirs /\ pc[i] # "over"
      /\ \A j \in Runs \ {i} : pc'[j] = pc[j] /\ name'[j] = name[j] /\ status'[j] = status[j]
      /\ pc[i] \in Late => name'[i] = name[i]
  BY NamedPhases DEF Kill, Busy, FullInv, KeptInv, ApartInv, Phases, FlagsInv, FlagsShape
<1>2. Holds(i) => Holds(i)' /\ name'[i] = name[i]
  BY <1>1 DEF Holds
<1> QED BY <1>1, <1>2, EmptyStep

LEMMA EmptyWork == ASSUME FullInv, EmptyInv, NEW i \in Runs, Work(i) PROVE EmptyInv'
<1>1. ASSUME NEW why, Stop(i, why), pc[i] # "over" PROVE EmptyInv'
  BY <1>1, EmptyEnd DEF Stop
<1>2. /\ DOMAIN pc = Runs /\ name = [j \in Runs |-> name[j]] /\ DOMAIN inv = Runs
  BY DEF FullInv, KeptInv, ApartInv, Phases, FlagsInv, FlagsShape
<1>3. ASSUME NEW point, GoTo(i, point) \/ Goes(i, point)
      PROVE  /\ pc'[i] = point /\ inv' = inv /\ status' = status
             /\ \A j \in Runs \ {i} : pc'[j] = pc[j]
  BY <1>2, <1>3 DEF GoTo, Goes
<1>4. ASSUME NEW point, GoTo(i, point), dirs' = dirs, pc[i] \in Early \cup {"claim"},
             \A j \in Runs \ {i} : name'[j] = name[j]
      PROVE  EmptyInv'
  <2>1. /\ inv' = inv /\ status' = status /\ \A j \in Runs \ {i} : pc'[j] = pc[j]
    BY <1>3, <1>4
  <2> QED BY <1>4, <2>1, EmptyQuiet
<1>5. ASSUME NEW point \in Late, GoTo(i, point) \/ Goes(i, point), name' = name, pc[i] \in Late,
             NEW file \in Artifacts, NEW content, "run" \in DOMAIN content, Put(i, file, content)
      PROVE  EmptyInv'
  <2>1. /\ pc'[i] = point /\ inv' = inv /\ status' = status /\ \A j \in Runs \ {i} : pc'[j] = pc[j]
    BY <1>3, <1>5
  <2>2. \A n \in DOMAIN dirs' : dirs'[n] = EmptyDir => n \in DOMAIN dirs /\ dirs[n] = EmptyDir
    BY <1>5, FileIsThere, EmptyPut
  <2> QED BY <1>5, <2>1, <2>2, EmptyQuiet
<1>6. ASSUME NEW point \in Late, GoTo(i, point) \/ Goes(i, point), name' = name, pc[i] \in Late,
             dirs' = dirs
      PROVE  EmptyInv'
  <2>1. /\ pc'[i] = point /\ inv' = inv /\ status' = status /\ \A j \in Runs \ {i} : pc'[j] = pc[j]
    BY <1>3, <1>6
  <2> QED BY <1>6, <2>1, EmptyQuiet
<1>7. ASSUME NEW point \in Late, Goes(i, point), pc[i] \in Late, NEW rec, Log(i, rec)
      PROVE  EmptyInv'
  <2>1. PICK content : Put(i, "log", content) /\ "run" \in DOMAIN content
    <3>1. PICK lines : Put(i, "log", [run |-> i, lines |-> lines])
      BY <1>7, LogIsAWrite
    <3>2. "run" \in DOMAIN [run |-> i, lines |-> lines]
      OBVIOUS
    <3> QED BY <3>1, <3>2
  <2>2. name' = name /\ "log" \in Artifacts
    BY <1>7 DEF Goes, Artifacts
  <2> QED BY <1>5, <1>7, <2>1, <2>2
<1>8. CASE Launch(i) \/ Begin(i) \/ CheckFlags(i) \/ InitDevice(i) \/ Prepare(i) \/ Fetch(i)
  <2>1. pc[i] \in Early \cup {"claim"} /\ pc[i] # "over"
    BY <1>8 DEF Launch, Begin, CheckFlags, InitDevice, Prepare, Fetch, At, Early
  <2>2. CASE \E why : Stop(i, why)
    BY <1>1, <2>1, <2>2
  <2>3. CASE \E point : GoTo(i, point) /\ dirs' = dirs /\ name' = name
    BY <1>4, <2>1, <2>3
  <2>4. CASE Launch(i) /\ LauncherOK(i)
    <3>1. /\ inv' = [inv EXCEPT ![i].env = [rank |-> 0, world_size |-> Batch(i).gpus, id |-> "hex"]]
          /\ UNCHANGED <<pc, status, name, dirs>>
      BY <2>4 DEF Launch
    <3>2. \A j \in Runs \ {i} : inv'[j] = inv[j]
      BY <1>2, <3>1
    <3> QED BY <2>1, <3>1, <3>2, EmptyQuiet
  <2>5. CASE Begin(i)
    BY <2>2, <2>3, <2>5 DEF Begin, Role
  <2>6. CASE Prepare(i)
    BY <2>2, <2>3, <2>6 DEF Prepare
  <2>7. CASE Fetch(i) \/ CheckFlags(i) \/ InitDevice(i) \/ (Launch(i) /\ ~LauncherOK(i))
    BY <2>2, <2>3, <2>7 DEF Fetch, CheckFlags, InitDevice, Launch
  <2> QED BY <1>8, <2>4, <2>5, <2>6, <2>7
<1>9. CASE ReadClock(i)
  <2>1. pc[i] = "clock" /\ GoTo(i, "claim") /\ dirs' = dirs /\ \A j \in Runs \ {i} : name'[j] = name[j]
    BY <1>2, <1>9 DEF ReadClock, At
  <2> QED BY <1>4, <2>1 DEF Early
<1>10. CASE TryName(i)
  <2>1. /\ pc[i] = "claim" /\ UNCHANGED <<inv, pc, status, dirs>>
        /\ \A j \in Runs \ {i} : name'[j] = name[j]
    BY <1>2, <1>10 DEF TryName, At, control
  <2> QED BY <2>1, EmptyQuiet
<1>11. CASE ClaimDir(i)
  <2>1. /\ pc'[i] \in Late /\ inv' = inv /\ status' = status /\ name' = name
        /\ \A j \in Runs \ {i} : pc'[j] = pc[j]
    BY <1>2, <1>11 DEF ClaimDir, GoTo, AfterClaim, Late
  <2>2. \A n \in DOMAIN dirs' : (n \in DOMAIN dirs /\ dirs'[n] = dirs[n]) \/ n = name[i]
    BY <1>11 DEF ClaimDir, WithDir
  <2>3. Holds(i)'
    BY <2>1 DEF Holds
  <2> QED BY <2>1, <2>2, <2>3, EmptyStep
<1>12. CASE FixHorizon(i)
  <2>1. pc[i] = "pack" /\ pc[i] \in Late /\ pc[i] # "over" /\ "run.json" \in Late
    BY <1>12 DEF FixHorizon, At, Late
  <2>2. Stop(i, "bad data") \/ (GoTo(i, "run.json") /\ name' = name /\ dirs' = dirs)
    BY <1>12 DEF FixHorizon
  <2> QED BY <1>1, <1>6, <2>1, <2>2
<1>13. CASE CreateRunJson(i) \/ WriteRunJson(i) \/ CreateMetrics(i)
  <2>1. "run" \in DOMAIN RunMeta(i)
    BY DEF RunMeta
  <2> QED BY <1>5, <1>13, <2>1 DEF CreateRunJson, WriteRunJson, CreateMetrics, At, Late, Artifacts
<1>14. CASE StartLoop(i) \/ Evaluate(i) \/ Save(i) \/ Update(i) \/ SampleMemory(i) \/ LogStep(i)
            \/ Finish(i)
  <2>1. pc[i] \in Late /\ pc[i] # "over" /\ {"top", "log", "log memory", "save", Body(i)} \subseteq Late
    BY <1>14 DEF StartLoop, Evaluate, Save, Update, SampleMemory, LogStep, Finish, At, Late, Body
  <2>2. ASSUME NEW point, Goes(i, point) PROVE name' = name
    BY <2>2 DEF Goes
  <2>3. CASE StartLoop(i)
    BY <1>6, <1>7, <2>1, <2>2, <2>3 DEF StartLoop, LogMemory
  <2>4. CASE Evaluate(i)
    <3>1. CASE CadenceFires(step[i], numIters[i], Cadence(i).eval_every)
      <4>1. \E point \in {"save", Body(i)} : Goes(i, point) /\ \E rec : Log(i, rec)
        BY <2>4, <3>1 DEF Evaluate
      <4> QED BY <1>7, <2>1, <4>1
    <3>2. CASE ~CadenceFires(step[i], numIters[i], Cadence(i).eval_every)
      BY <1>6, <2>1, <2>2, <2>4, <3>2 DEF Evaluate
    <3> QED BY <3>1, <3>2
  <2>5. CASE Save(i)
    BY <1>5, <2>1, <2>2, <2>5 DEF Save, Artifacts
  <2>6. CASE Update(i)
    BY <1>1, <1>6, <2>1, <2>2, <2>6 DEF Update
  <2>7. CASE SampleMemory(i) \/ LogStep(i)
    BY <1>7, <2>1, <2>7 DEF SampleMemory, LogMemory, LogStep
  <2>8. CASE Finish(i)
    BY <1>1, <2>1, <2>8 DEF Finish
  <2> QED BY <1>14, <2>3, <2>4, <2>5, <2>6, <2>7, <2>8
<1> QED BY <1>8, <1>9, <1>10, <1>11, <1>12, <1>13, <1>14 DEF Work

(* A finetune that gives up before it writes anything leaves no empty      *)
(* directory (RemoveIfEmpty).                                              *)
THEOREM NeverLeavesEmptyDir == Spec => []NoEmptyDirLeft
<1>1. FullInv /\ EmptyInv /\ [Next]_vars => (FullInv /\ EmptyInv)'
  <2> SUFFICES ASSUME FullInv, EmptyInv, [Next]_vars PROVE EmptyInv'
    BY FullStep
  <2>1. CASE UNCHANGED vars
    BY <2>1 DEF vars, control, EmptyInv, Holds, Guarded, EmptyDir, Absent
  <2>2. ASSUME NEW i \in Runs, Fail(i) PROVE EmptyInv'
    BY <2>2, EmptyEnd DEF Fail, Busy
  <2> QED BY <2>1, <2>2, EmptyWork, EmptyKill DEF Next
<1>2. Init => EmptyInv
  BY DEF Init, EmptyInv
<1>3. ASSUME FullInv, EmptyInv PROVE NoEmptyDirLeft
  <2> SUFFICES ASSUME NEW i \in Runs, inv[i].cmd = "sft", status[i] \notin {"running", "killed"},
                      name[i] \in DOMAIN dirs, dirs[name[i]] = EmptyDir
               PROVE  \E j \in Runs \ {i} : name[j] = name[i]
    BY DEF NoEmptyDirLeft, Taken
  <2>1. PICK j \in Runs : name[j] = name[i] /\ Holds(j)
    BY <1>3 DEF EmptyInv
  <2>2. pc[i] = "over"
    BY <1>3 DEF FullInv, FlagsInv, Accepted
  <2>3. j # i
    BY <2>1, <2>2 DEF Holds, Guarded, Late
  <2> QED BY <2>1, <2>3
<1> QED BY <1>1, <1>2, <1>3, FullInit, PTL DEF Spec
=============================================================================
