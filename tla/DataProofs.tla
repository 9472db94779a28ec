----------------------------- MODULE DataProofs -----------------------------
(***************************************************************************)
(* The shards and the documents in them.                                   *)
(*                                                                         *)
(* Download, for any number of files, workers, attempts, parts and runs,   *)
(* killed anywhere: no file is ever short under its final name.  What a    *)
(* killed run leaves under a temporary name does not matter, because a job *)
(* truncates it before it writes; what it holds from then on is counted by *)
(* the parts written in this attempt; and only a job whose final name is   *)
(* free gets so far, so a temporary file never outlives its final one.     *)
(*                                                                         *)
(* PretrainLoader, for any number of ranks, any corpus, any pool and any   *)
(* length of row: no document of a rank's stride is lost or used twice,    *)
(* and none of another rank's is used at all.  The sum of what was placed  *)
(* and what is in the pool moves only when a document is read or missed;   *)
(* placing a document takes it out of the pool once, since the pool always *)
(* holds the one that best fit or the crop asks for, and swap_remove loses *)
(* no other.                                                               *)
(***************************************************************************)
EXTENDS Download, PretrainLoader, SequenceTheorems, FiniteSetTheorems, WellFoundedInduction, TLAPS

-----------------------------------------------------------------------------
(* Download. *)

(* The inductive invariant, for one file. *)
JobTypes(f) ==
  /\ pc[f] \in {"todo"} \cup Busy \cup Settled
  /\ attempt[f] \in Nat /\ written[f] \in Nat
  /\ final[f] \in {NoFile, Whole}

JobOK(f) ==
  /\ pc[f] = "body" => written[f] < Size /\ tmp[f] = 1 .. written[f]
  /\ pc[f] = "rename" => tmp[f] = Whole
  /\ final[f] = Whole => tmp[f] = NoFile
  /\ pc[f] \in {"done", "skipped"} => final[f] = Whole
  /\ pc[f] \in Busy \cup {"failed"} => final[f] = NoFile
  /\ pc[f] = "failed" => tmp[f] = NoFile \/ stuck[f]

DownloadInv ==
  /\ run \in Nat /\ (run = 0 => dead)
  /\ pc = [f \in Files |-> pc[f]] /\ attempt = [f \in Files |-> attempt[f]]
  /\ written = [f \in Files |-> written[f]]
  /\ tmp = [f \in Files |-> tmp[f]] /\ final = [f \in Files |-> final[f]]
  /\ stuck = [f \in Files |-> stuck[f]]
  /\ \A f \in Files : JobTypes(f) /\ JobOK(f)

LEMMA WholeIsSome == Whole # NoFile /\ 1 .. 0 = {} /\ {} # NoFile
BY DownloadAssumption DEF Whole, NoFile

LEMMA FetchInitInv == FetchInit => DownloadInv
BY WholeIsSome DEF FetchInit, DownloadInv, JobTypes, JobOK, Busy, Settled

(* A step of one job shows in no other. *)
LEMMA JobKeeps ==
  ASSUME DownloadInv, NEW f \in Files, JobStep(f), NEW h \in Files
  PROVE  JobTypes(h)' /\ JobOK(h)'
<1>1. JobTypes(h) /\ JobOK(h) /\ JobTypes(f) /\ JobOK(f)
  BY DEF DownloadInv
<1>2. CASE h # f
  <2>1. /\ pc'[h] = pc[h] /\ attempt'[h] = attempt[h] /\ written'[h] = written[h]
        /\ tmp'[h] = tmp[h] /\ final'[h] = final[h] /\ stuck'[h] = stuck[h]
    <3>1. CASE Take(f)
      BY <1>2, <3>1 DEF DownloadInv, Take, GoTo
    <3>2. CASE Create(f)
      BY <1>2, <3>2 DEF DownloadInv, Create, GoTo
    <3>3. CASE CopyPart(f)
      BY <1>2, <3>3 DEF DownloadInv, CopyPart, GoTo
    <3>4. CASE Rename(f)
      BY <1>2, <3>4 DEF DownloadInv, Rename, GoTo
    <3>5. CASE AttemptFails(f)
      BY <1>2, <3>5 DEF DownloadInv, AttemptFails, GoTo
    <3> QED BY <3>1, <3>2, <3>3, <3>4, <3>5 DEF JobStep
  <2> QED BY <1>1, <2>1 DEF JobTypes, JobOK
<1>3. CASE h = f
  <2>1. CASE Take(f)
    <3>1. /\ pc[f] = "todo" /\ pc'[f] = (IF Present(f) THEN "skipped" ELSE "get")
          /\ UNCHANGED <<attempt, written, tmp, final>>
      BY <2>1 DEF DownloadInv, Take, At, GoTo
    <3> QED BY <1>1, <1>3, <3>1, WholeIsSome DEF JobTypes, JobOK, Present, Busy, Settled
  <2>2. CASE Create(f)
    <3>1. /\ pc[f] = "get" /\ pc'[f] = "body" /\ tmp'[f] = {} /\ written'[f] = 0
          /\ UNCHANGED <<attempt, final>>
      BY <2>2 DEF DownloadInv, Create, At, GoTo
    <3>2. final[f] = NoFile
      BY <1>1, <3>1 DEF JobOK, Busy
    <3> QED BY <1>1, <1>3, <3>1, <3>2, WholeIsSome, DownloadAssumption
            DEF JobTypes, JobOK, Busy, Settled
  <2>3. CASE CopyPart(f)
    <3> DEFINE n == written[f] + 1
    <3>1. /\ pc[f] = "body" /\ pc'[f] = (IF n = Size THEN "rename" ELSE "body")
          /\ tmp'[f] = tmp[f] \cup {n} /\ written'[f] = n
          /\ UNCHANGED <<attempt, final>>
      BY <2>3 DEF DownloadInv, CopyPart, At, GoTo, BodyEnds
    <3>2. final[f] = NoFile /\ n \in Nat /\ n <= Size /\ tmp'[f] = 1 .. n
      BY <1>1, <3>1, DownloadAssumption DEF JobTypes, JobOK, Busy
    <3> QED BY <1>1, <1>3, <3>1, <3>2, WholeIsSome, DownloadAssumption
            DEF JobTypes, JobOK, Busy, Settled, Whole
  <2>4. CASE Rename(f)
    <3>1. /\ pc[f] = "rename" /\ pc'[f] = "done" /\ final'[f] = tmp[f] /\ tmp'[f] = NoFile
          /\ UNCHANGED <<attempt, written>>
      BY <2>4 DEF DownloadInv, Rename, At, GoTo
    <3> QED BY <1>1, <1>3, <3>1 DEF JobTypes, JobOK, Busy, Settled
  <2>5. CASE AttemptFails(f)
    <3>1. /\ pc[f] \in Busy /\ pc'[f] \in {"get", "failed"}
          /\ tmp'[f] = NoFile \/ stuck'[f]
          /\ attempt'[f] \in {attempt[f], attempt[f] + 1} /\ UNCHANGED <<written, final>>
      BY <2>5 DEF DownloadInv, AttemptFails, At, GoTo, NextAttempt
    <3>2. final[f] = NoFile
      BY <1>1, <3>1 DEF JobOK
    <3> QED BY <1>1, <1>3, <3>1, <3>2, WholeIsSome DEF JobTypes, JobOK, Busy, Settled
  <2> QED BY <2>1, <2>2, <2>3, <2>4, <2>5 DEF JobStep
<1> QED BY <1>2, <1>3

LEMMA FetchNextInv == DownloadInv /\ [FetchNext]_fetching => DownloadInv'
<1> SUFFICES ASSUME DownloadInv, [FetchNext]_fetching PROVE DownloadInv'
  OBVIOUS
<1>1. CASE Start
  BY <1>1 DEF Start, DownloadInv, JobTypes, JobOK, Busy, Settled
<1>2. CASE Kill \/ UNCHANGED fetching
  BY <1>2 DEF Kill, fetching, DownloadInv, JobTypes, JobOK, RunOver
<1>3. ASSUME NEW f \in Files, JobStep(f) PROVE DownloadInv'
  <2>1. /\ run' = run /\ dead' = dead
        /\ pc' = [g \in Files |-> pc'[g]] /\ attempt' = [g \in Files |-> attempt'[g]]
        /\ written' = [g \in Files |-> written'[g]]
        /\ tmp' = [g \in Files |-> tmp'[g]] /\ final' = [g \in Files |-> final'[g]]
        /\ stuck' = [g \in Files |-> stuck'[g]]
    BY <1>3 DEF JobStep, Take, Create, CopyPart, Rename, AttemptFails, GoTo, DownloadInv
  <2>2. \A h \in Files : JobTypes(h)' /\ JobOK(h)'
    BY <1>3, JobKeeps
  <2> QED BY <2>1, <2>2 DEF DownloadInv
<1> QED BY <1>1, <1>2, <1>3 DEF FetchNext

(* In every execution a final name holds a whole file or none, whatever    *)
(* earlier runs left behind; what a run reports as there is there; and a   *)
(* run that ends by itself leaves no temporary file but those of failed    *)
(* jobs that could not be removed (download_files, download_one,           *)
(* try_download).                                                          *)
THEOREM FinalAlwaysWhole == FetchSpec => []FinalIsWhole
<1>1. DownloadInv => FinalIsWhole
  <2> SUFFICES ASSUME DownloadInv, NEW f \in Files
               PROVE  /\ final[f] \in {NoFile, Whole}
                      /\ run > 0 /\ pc[f] \in {"done", "skipped"} => final[f] = Whole
                      /\ RunOver /\ ~dead => /\ tmp[f] = NoFile \/ (pc[f] = "failed" /\ stuck[f])
                                             /\ pc[f] = "failed" <=> final[f] = NoFile
    BY DEF FinalIsWhole
  <2>1. JobTypes(f) /\ JobOK(f)
    BY DEF DownloadInv
  <2>2. RunOver /\ ~dead => pc[f] \in Settled
    BY DEF RunOver
  <2> QED BY <2>1, <2>2, WholeIsSome DEF JobTypes, JobOK, Settled
<1> QED BY <1>1, FetchInitInv, FetchNextInv, PTL DEF FetchSpec

-----------------------------------------------------------------------------
(* PretrainLoader. *)

(* The inductive invariant. *)

LoaderTypes ==
  /\ texts \in Seq(Nat)
  /\ index \in [Ranks -> 0 .. Len(texts)] /\ produced \in [Ranks -> Nat]
  /\ passes \in [Ranks -> Nat] /\ pool \in [Ranks -> Seq(Docs)]
  /\ pos \in [Ranks -> 0 .. RowLen - 1] /\ rows \in [Ranks -> Nat]
  /\ ended \in [Ranks -> BOOLEAN] /\ errors \in [Ranks -> Nat]
  /\ fate \in [Ranks -> {"running", "read error", "starved"}]
  /\ placed \in [Ranks -> [Docs -> Nat]] /\ missed \in [Ranks -> [Docs -> Nat]]

Conserved(r) ==
  \A d \in Docs :
     placed[r][d] + InPool(r, d) =
       IF d \in Stride(r) THEN TimesRead(r, d) - missed[r][d] ELSE 0

LoaderInv == LoaderTypes /\ \A r \in Ranks : Conserved(r)

-----------------------------------------------------------------------------
(* The initial segments of the numbers are finite sets ordered as the      *)
(* numbers are, so a set of numbers has a least one.                       *)
LEMMA LeastNatural ==
  ASSUME NEW S, S \subseteq Nat, S # {}
  PROVE  \E m \in S : \A n \in S : m <= n
<1> DEFINE U == {0 .. n : n \in S}
<1>1. U \subseteq FiniteSubsetsOf(Nat) /\ U # {}
  <2>1. \A n \in S : 0 .. n \subseteq Nat /\ IsFiniteSet(0 .. n)
    BY FS_Interval
  <2> QED
    BY <2>1 DEF FiniteSubsetsOf
<1>2. IsWellFoundedOn(StrictSubsetOrdering(Nat), FiniteSubsetsOf(Nat))
  BY FS_StrictSubsetOrderingWellFounded
<1>3. PICK s \in U : \A t \in U : ~(<<t, s>> \in StrictSubsetOrdering(Nat))
  <2> HIDE DEF U
  <2> QED
    BY <1>1, <1>2, WFMin
<1>4. PICK m \in S : s = 0 .. m
  OBVIOUS
<1>5. ASSUME NEW n \in S, ~(m <= n) PROVE FALSE
  <2>1. n \in Nat /\ m \in Nat /\ n < m
    BY <1>5
  <2>2. 0 .. n \subseteq 0 .. m /\ m \in 0 .. m /\ m \notin 0 .. n
    BY <2>1
  <2>3. 0 .. n \in U /\ 0 .. n # 0 .. m /\ 0 .. n \subseteq Nat /\ 0 .. m \subseteq Nat
    BY <2>1, <2>2
  <2>4. <<0 .. n, 0 .. m>> \in StrictSubsetOrdering(Nat)
    BY <2>2, <2>3 DEF StrictSubsetOrdering
  <2> QED
    BY <1>3, <1>4, <2>3, <2>4
<1> QED
  BY <1>5

(* What holds at zero, and at a number if at the one before it, holds at   *)
(* all of them.                                                            *)
LEMMA CountUp ==
  ASSUME NEW S, NEW n \in Nat, 0 \in S,
         \A k \in 0 .. n - 1 : k \in S => k + 1 \in S
  PROVE  \A k \in 0 .. n : k \in S
<1> DEFINE Missed == {k \in 0 .. n : k \notin S}
<1> SUFFICES ASSUME Missed # {} PROVE FALSE
  OBVIOUS
<1>1. Missed \subseteq Nat
  OBVIOUS
<1>2. PICK k \in Missed : \A j \in Missed : k <= j
  <2> HIDE DEF Missed
  <2> QED BY <1>1, LeastNatural
<1>3. k - 1 \in 0 .. n - 1
  BY <1>2
<1>4. k - 1 \in Missed
  BY <1>2, <1>3
<1> QED BY <1>2, <1>4

Joined(q) ==
  CHOOSE f : f = [i \in 1 .. Len(q) |-> IF i = 1 THEN q[i] ELSE f[i - 1] \o q[i]]

LEMMA JoinedExists ==
  ASSUME NEW q, Len(q) \in Nat
  PROVE  Joined(q) = [i \in 1 .. Len(q) |->
                        IF i = 1 THEN q[i] ELSE Joined(q)[i - 1] \o q[i]]
<1> DEFINE Def(f, n) == f = [i \in 1 .. n |-> IF i = 1 THEN q[i] ELSE f[i - 1] \o q[i]]
           S == {n \in Nat : \E f : Def(f, n)}
<1>1. 0 \in S
  <2>1. Def([i \in 1 .. 0 |-> q[i]], 0)
    OBVIOUS
  <2> HIDE DEF Def
  <2>2. \E f : Def(f, 0)
    BY <2>1
  <2> QED BY <2>2
<1>2. ASSUME NEW n \in Nat, n \in S PROVE n + 1 \in S
  <2>1. PICK f : Def(f, n)
    BY <1>2
  <2> DEFINE g == [i \in 1 .. n + 1 |->
                     IF i = n + 1 THEN (IF i = 1 THEN q[i] ELSE f[n] \o q[i]) ELSE f[i]]
  <2>2. ASSUME NEW i \in 1 .. n + 1
        PROVE  g[i] = IF i = 1 THEN q[i] ELSE g[i - 1] \o q[i]
    <3>1. CASE i = n + 1
      <4>1. g[i] = IF i = 1 THEN q[i] ELSE f[n] \o q[i]
        BY <3>1
      <4>2. i # 1 => i - 1 = n /\ n \in 1 .. n + 1 /\ n # n + 1
        BY <3>1
      <4>3. i # 1 => g[i - 1] = f[n]
        BY <4>2
      <4> QED BY <4>1, <4>3
    <3>2. CASE i # n + 1
      <4>1. i \in 1 .. n /\ g[i] = f[i]
        BY <3>2
      <4>2. i # 1 => i - 1 \in 1 .. n + 1 /\ i - 1 # n + 1
        BY <4>1
      <4>3. i # 1 => g[i - 1] = f[i - 1]
        BY <4>2
      <4> QED BY <2>1, <4>1, <4>3
    <3> QED BY <3>1, <3>2
  <2>3. Def(g, n + 1)
    <3>1. g = [i \in 1 .. n + 1 |-> g[i]]
      OBVIOUS
    <3> HIDE DEF g
    <3> QED BY <2>2, <3>1
  <2> HIDE DEF g, Def
  <2>4. \E f1 : Def(f1, n + 1)
    BY <2>3
  <2> QED BY <2>4
<1> HIDE DEF Def
<1>3. \E f : Def(f, Len(q))
  <2> HIDE DEF S
  <2>1. PICK n \in Nat : n = Len(q)
    OBVIOUS
  <2>2. \A k \in 0 .. n - 1 : k \in S => k + 1 \in S
    BY <1>2
  <2>3. n \in 0 .. n
    BY <2>1
  <2>4. n \in S
    BY <1>1, <2>1, <2>2, <2>3, CountUp
  <2> QED BY <2>1, <2>4 DEF S
<1>4. Joined(q) = CHOOSE f : Def(f, Len(q))
  BY DEF Joined, Def
<1>5. Def(Joined(q), Len(q))
  BY <1>3, <1>4
<1> QED BY <1>5 DEF Def

-----------------------------------------------------------------------------
(* The pool as a bag. *)

Times(s, d) == Cardinality({i \in DOMAIN s : s[i] = d})

LEMMA CountAppend ==
  ASSUME NEW S, NEW s \in Seq(S), NEW e \in S, NEW d
  PROVE  /\ Append(s, e) \in Seq(S) /\ Times(s, d) \in Nat
         /\ Times(Append(s, e), d) = Times(s, d) + (IF e = d THEN 1 ELSE 0)
<1> DEFINE n == Len(s)  t == Append(s, e)  A == {i \in 1 .. n : s[i] = d}
<1>1. /\ n \in Nat /\ DOMAIN s = 1 .. n /\ t \in Seq(S) /\ DOMAIN t = 1 .. n + 1
      /\ t[n + 1] = e /\ \A i \in 1 .. n : t[i] = s[i]
  BY AppendProperties, LenProperties
<1> HIDE DEF n, t
<1>2. IsFiniteSet(A) /\ Cardinality(A) \in Nat /\ n + 1 \notin A
  <2>1. IsFiniteSet(1 .. n) /\ A \subseteq 1 .. n
    BY <1>1, FS_Interval
  <2>2. IsFiniteSet(A)
    BY <2>1, FS_Subset
  <2> QED BY <1>1, <2>2, FS_CardinalityType
<1>3. Times(s, d) = Cardinality(A)
  BY <1>1 DEF Times
<1>4. CASE e = d
  <2>1. {i \in 1 .. n + 1 : t[i] = d} = A \cup {n + 1}
    BY <1>1, <1>4
  <2>2. Cardinality(A \cup {n + 1}) = Cardinality(A) + 1
    BY <1>2, FS_AddElement
  <2> QED BY <1>1, <1>2, <1>3, <1>4, <2>1, <2>2 DEF Times, t
<1>5. CASE e # d
  <2>1. {i \in 1 .. n + 1 : t[i] = d} = A
    BY <1>1, <1>5
  <2>2. Times(t, d) = Cardinality(A)
    BY <1>1, <2>1 DEF Times
  <2> QED BY <1>1, <1>2, <1>3, <1>5, <2>2 DEF t
<1> QED BY <1>4, <1>5

LEMMA CountSwapRemove ==
  ASSUME NEW S, NEW s \in Seq(S), NEW p \in DOMAIN s, NEW d
  PROVE  /\ SwapRemove(s, p) \in Seq(S)
         /\ Times(SwapRemove(s, p), d) = Times(s, d) - (IF s[p] = d THEN 1 ELSE 0)
<1> DEFINE n == Len(s)  m == n - 1  t == SwapRemove(s, p)  A == {i \in 1 .. n : s[i] = d}
           B == {i \in 1 .. m : t[i] = d}  swapped == [s EXCEPT ![p] = s[Len(s)]]
<1>1. n \in Nat /\ DOMAIN s = 1 .. n /\ p \in 1 .. n /\ \A i \in 1 .. n : s[i] \in S
  BY LenProperties, ElementOfSeq
<1>2. /\ swapped \in Seq(S) /\ Len(swapped) = n
      /\ \A i \in 1 .. n : swapped[i] = IF i = p THEN s[n] ELSE s[i]
  BY <1>1, ExceptSeq
<1>3. /\ t \in Seq(S) /\ Len(t) = m /\ DOMAIN t = 1 .. m
      /\ \A i \in 1 .. m : t[i] = IF i = p THEN s[n] ELSE s[i]
  <2>1. t = SubSeq(swapped, 1, m)
    BY <1>1 DEF SwapRemove
  <2>2. m \in Int /\ m + 1 \in Nat /\ \A i \in 1 .. m : swapped[i] \in S
    BY <1>1, <1>2, ElementOfSeq
  <2> HIDE DEF swapped, t
  <2>3. /\ SubSeq(swapped, 1, m) \in Seq(S)
        /\ Len(SubSeq(swapped, 1, m)) = (IF 1 <= m THEN m - 1 + 1 ELSE 0)
        /\ \A i \in 1 .. m - 1 + 1 : SubSeq(swapped, 1, m)[i] = swapped[1 + i - 1]
    BY <2>2, SubSeqProperties
  <2>4. t \in Seq(S) /\ Len(t) = m
    BY <1>1, <2>1, <2>2, <2>3
  <2>5. \A i \in 1 .. m : t[i] = swapped[i]
    BY <2>1, <2>2, <2>3
  <2> QED BY <1>1, <1>2, <2>4, <2>5, LenProperties
<1> HIDE DEF n, m, t, swapped
<1>4. Times(s, d) = Cardinality(A) /\ Times(t, d) = Cardinality(B) /\ m + 1 = n
  BY <1>1, <1>3 DEF Times, m
<1>5. IsFiniteSet(A) /\ Cardinality(A) \in Nat
  <2>1. IsFiniteSet(1 .. n) /\ A \subseteq 1 .. n
    BY <1>1, FS_Interval
  <2>2. IsFiniteSet(A)
    BY <2>1, FS_Subset
  <2> QED BY <2>2, FS_CardinalityType
<1>6. CASE s[p] = d /\ s[n] = d
  <2>1. B = A \ {n} /\ n \in A
    BY <1>1, <1>3, <1>4, <1>6
  <2>2. Cardinality(A \ {n}) = Cardinality(A) - 1
    BY <1>5, <2>1, FS_RemoveElement
  <2> QED BY <1>3, <1>4, <1>6, <2>1, <2>2 DEF t
<1>7. CASE s[p] = d /\ s[n] # d
  <2>1. B = A \ {p} /\ p \in A
    BY <1>1, <1>3, <1>4, <1>7
  <2>2. Cardinality(A \ {p}) = Cardinality(A) - 1
    BY <1>5, <2>1, FS_RemoveElement
  <2> QED BY <1>3, <1>4, <1>7, <2>1, <2>2 DEF t
<1>8. CASE s[p] # d /\ s[n] = d
  <2>1. B = (A \ {n}) \cup {p} /\ n \in A /\ p \notin A \ {n}
    BY <1>1, <1>3, <1>4, <1>8
  <2>2. IsFiniteSet(A \ {n}) /\ Cardinality(A \ {n}) = Cardinality(A) - 1
    BY <1>5, <2>1, FS_RemoveElement
  <2>3. Cardinality((A \ {n}) \cup {p}) = Cardinality(A \ {n}) + 1
    BY <2>1, <2>2, FS_AddElement
  <2>4. Cardinality(B) = Cardinality(A)
    <3>1. Cardinality(B) = Cardinality(A \ {n}) + 1
      BY <2>1, <2>3
    <3> HIDE DEF A, B
    <3> QED BY <1>5, <2>2, <3>1
  <2> QED BY <1>3, <1>4, <1>5, <1>8, <2>4 DEF t
<1>9. CASE s[p] # d /\ s[n] # d
  <2>1. B = A
    BY <1>1, <1>3, <1>4, <1>9
  <2>2. Times(t, d) = Times(s, d) /\ Times(s, d) \in Nat
    BY <1>4, <1>5, <2>1
  <2> QED BY <1>3, <1>9, <2>2 DEF t
<1> QED BY <1>6, <1>7, <1>8, <1>9

-----------------------------------------------------------------------------
(* What pack_row asks for is in the pool. *)

LEMMA GreatestNatural ==
  ASSUME NEW S, S \subseteq Nat, S # {}, NEW n \in Nat, \A s \in S : s <= n
  PROVE  \E m \in S : \A s \in S : s <= m
<1> DEFINE Gaps == {n - s : s \in S}
<1>1. Gaps \subseteq Nat /\ Gaps # {}
  <2>1. \A s \in S : n - s \in Nat
    OBVIOUS
  <2> QED BY <2>1
<1> HIDE DEF Gaps
<1>2. PICK g \in Gaps : \A h \in Gaps : g <= h
  BY <1>1, LeastNatural
<1>3. PICK m \in S : g = n - m
  BY <1>2 DEF Gaps
<1>4. ASSUME NEW s \in S PROVE s <= m
  <2>1. n - s \in Gaps
    BY DEF Gaps
  <2>2. n - m <= n - s /\ s \in Nat /\ m \in Nat
    BY <1>2, <1>3, <2>1
  <2> QED BY <2>2
<1> QED BY <1>4

LEMMA PoolTokens ==
  ASSUME LoaderTypes, NEW r \in Ranks
  PROVE  /\ Len(pool[r]) \in Nat /\ DOMAIN pool[r] = 1 .. Len(pool[r])
         /\ \A i \in DOMAIN pool[r] : /\ pool[r][i] \in Docs
                                      /\ Tokens(pool[r][i]) \in Nat \ {0}
<1>1. pool[r] \in Seq(Docs)
  BY DEF LoaderTypes
<1>2. Len(pool[r]) \in Nat /\ DOMAIN pool[r] = 1 .. Len(pool[r])
  BY <1>1, LenProperties
<1>3. ASSUME NEW d \in Docs PROVE Tokens(d) \in Nat \ {0}
  <2>1. d \in 1 .. Len(texts) /\ texts \in Seq(Nat)
    BY LenProperties DEF LoaderTypes, Docs
  <2>2. texts[d] \in Nat
    BY <2>1, ElementOfSeq
  <2> QED BY <2>2 DEF Tokens
<1> QED BY <1>1, <1>2, <1>3, ElementOfSeq

LEMMA BestFitFits ==
  ASSUME LoaderTypes, NEW r \in Ranks, \E i \in DOMAIN pool[r] : Fits(r, i)
  PROVE  BestFit(r) \in DOMAIN pool[r] /\ Fits(r, BestFit(r))
<1> DEFINE size(i) == Tokens(pool[r][i])
           Fitting == {i \in DOMAIN pool[r] : Fits(r, i)}
           Sizes == {size(i) : i \in Fitting}
<1>1. Remaining(r) \in Nat
  <2>1. pos[r] \in 0 .. RowLen - 1
    BY DEF LoaderTypes
  <2> QED BY <2>1, LoaderAssumption DEF Remaining
<1>2. \A i \in DOMAIN pool[r] : size(i) \in Nat
  BY PoolTokens
<1>3. PICK m \in Sizes : \A s \in Sizes : s <= m
  <2>1. Sizes \subseteq Nat /\ Sizes # {} /\ \A s \in Sizes : s <= Remaining(r)
    BY <1>1, <1>2 DEF Fits
  <2> HIDE DEF Sizes
  <2> QED BY <1>1, <2>1, GreatestNatural
<1> DEFINE Largest == {i \in Fitting : size(i) = m}
<1>4. PICK i \in Largest : \A j \in Largest : j <= i
  <2>1. Largest \subseteq Nat /\ Largest # {} /\ \A j \in Largest : j <= Len(pool[r])
    BY <1>3, PoolTokens
  <2> HIDE DEF Largest
  <2> QED BY <2>1, PoolTokens, GreatestNatural
<1>5. /\ i \in DOMAIN pool[r] /\ Fits(r, i)
      /\ \A j \in DOMAIN pool[r] : Fits(r, j) =>
            \/ Tokens(pool[r][j]) < Tokens(pool[r][i])
            \/ Tokens(pool[r][j]) = Tokens(pool[r][i]) /\ j <= i
  <2>1. i \in Fitting /\ size(i) = m
    BY <1>4
  <2>2. ASSUME NEW j \in DOMAIN pool[r], Fits(r, j)
        PROVE  size(j) < size(i) \/ (size(j) = size(i) /\ j <= i)
    <3>1. size(j) <= m /\ size(j) \in Nat /\ m \in Nat
      BY <1>2, <1>3, <2>1, <2>2
    <3>2. size(j) = m => j <= i
      BY <1>4, <2>2
    <3> QED BY <2>1, <3>1, <3>2
  <2> QED BY <2>1, <2>2
<1> QED BY <1>5 DEF BestFit

LEMMA ShortestThere ==
  ASSUME LoaderTypes, NEW r \in Ranks, pool[r] # <<>>
  PROVE  Shortest(r) \in DOMAIN pool[r]
<1> DEFINE size(i) == Tokens(pool[r][i])
           Sizes == {size(i) : i \in DOMAIN pool[r]}
<1>1. DOMAIN pool[r] # {}
  <2>1. pool[r] \in Seq(Docs)
    BY DEF LoaderTypes
  <2>2. Len(pool[r]) \in Nat \ {0}
    BY <2>1, EmptySeq
  <2>3. 1 \in 1 .. Len(pool[r])
    BY <2>2
  <2> QED BY <2>3, PoolTokens
<1>2. \A i \in DOMAIN pool[r] : size(i) \in Nat
  BY PoolTokens
<1>3. PICK m \in Sizes : \A s \in Sizes : m <= s
  <2>1. Sizes \subseteq Nat /\ Sizes # {}
    BY <1>1, <1>2
  <2> HIDE DEF Sizes
  <2> QED BY <2>1, LeastNatural
<1> DEFINE Least == {i \in DOMAIN pool[r] : size(i) = m}
<1>4. PICK i \in Least : \A j \in Least : i <= j
  <2>1. Least \subseteq Nat /\ Least # {}
    BY <1>3, PoolTokens
  <2> HIDE DEF Least
  <2> QED BY <2>1, LeastNatural
<1>5. /\ i \in DOMAIN pool[r]
      /\ \A j \in DOMAIN pool[r] :
            \/ Tokens(pool[r][j]) > Tokens(pool[r][i])
            \/ Tokens(pool[r][j]) = Tokens(pool[r][i]) /\ j >= i
  <2>1. i \in DOMAIN pool[r] /\ size(i) = m /\ i \in Nat
    BY <1>4, PoolTokens
  <2>2. ASSUME NEW j \in DOMAIN pool[r]
        PROVE  size(j) > size(i) \/ (size(j) = size(i) /\ j >= i)
    <3>1. m <= size(j) /\ size(j) \in Nat /\ m \in Nat /\ j \in Nat
      BY <1>2, <1>3, <2>1, PoolTokens
    <3>2. size(j) = m => i <= j
      BY <1>4
    <3> QED BY <2>1, <3>1, <3>2
  <2> QED BY <2>1, <2>2
<1> QED BY <1>5 DEF Shortest

-----------------------------------------------------------------------------
(* The steps. *)

(* Sequences joined are a sequence. *)
LEMMA FlattenIsSeq ==
  ASSUME NEW S, NEW q \in Seq(Seq(S))
  PROVE  FlattenSeq(q) \in Seq(S)
<1> DEFINE n == Len(q)
           J == {k \in 0 .. n : k # 0 => Joined(q)[k] \in Seq(S)}
<1>1. n \in Nat /\ \A i \in 1 .. n : q[i] \in Seq(S)
  BY LenProperties, ElementOfSeq
<1>2. CASE n = 0
  <2>1. FlattenSeq(q) = q /\ q = <<>>
    BY <1>2, EmptySeq DEF FlattenSeq
  <2> QED BY <2>1, EmptySeq
<1>3. CASE n # 0
  <2> HIDE DEF n
  <2>1. Joined(q) = [i \in 1 .. n |-> IF i = 1 THEN q[i] ELSE Joined(q)[i - 1] \o q[i]]
    BY <1>1, JoinedExists DEF n
  <2>2. ASSUME NEW k \in 0 .. n - 1, k \in J PROVE k + 1 \in J
    <3>1. k + 1 \in 1 .. n /\ (k + 1) - 1 = k /\ q[k + 1] \in Seq(S)
      BY <1>1
    <3>2. CASE k = 0
      <4>1. Joined(q)[1] = q[1]
        BY <2>1, <3>1, <3>2
      <4> QED BY <3>1, <3>2, <4>1
    <3>3. CASE k # 0
      <4>1. Joined(q)[k + 1] = Joined(q)[k] \o q[k + 1] /\ Joined(q)[k] \in Seq(S)
        <5>1. k + 1 # 1 /\ Joined(q)[k] \in Seq(S)
          BY <2>2, <3>3
        <5> QED BY <2>1, <3>1, <5>1
      <4>2. Joined(q)[k + 1] \in Seq(S)
        BY <3>1, <4>1, ConcatProperties
      <4> QED BY <3>1, <4>2
    <3> QED BY <3>2, <3>3
  <2>3. 0 \in J /\ n \in 0 .. n
    BY <1>1
  <2> HIDE DEF J
  <2>4. n \in J
    BY <1>1, <2>2, <2>3, CountUp
  <2>5. FlattenSeq(q) = Joined(q)[n]
    BY <1>3 DEF FlattenSeq, Joined, n
  <2> QED BY <1>3, <2>4, <2>5 DEF J
<1> QED BY <1>2, <1>3

LEMMA TextsAreSeq ==
  ASSUME NEW corpus \in Corpora
  PROVE  TextsOf(corpus) \in Seq(Nat)
<1> DEFINE Bodies == Nat \cup {Null}
           bodies == FlattenSeq(TrainShards(corpus))
           found == [i \in DOMAIN bodies |-> TextOf(bodies[i])]
<1>1. corpus \in Seq(Seq(Bodies)) /\ Len(corpus) \in Nat /\ Len(corpus) >= 2
  BY LoaderAssumption, LenProperties
<1>2. TrainShards(corpus) \in Seq(Seq(Bodies))
  <2>1. \A i \in 1 .. Len(corpus) - 1 : corpus[i] \in Seq(Bodies)
    BY <1>1, ElementOfSeq
  <2> HIDE DEF Bodies
  <2> QED BY <1>1, <2>1, SubSeqProperties DEF TrainShards
<1>3. bodies \in Seq(Bodies)
  <2> HIDE DEF Bodies
  <2> QED BY <1>2, FlattenIsSeq
<1>4. found \in Seq(Seq(Nat))
  <2>1. Len(bodies) \in Nat /\ DOMAIN bodies = 1 .. Len(bodies)
    BY <1>3, LenProperties
  <2>2. \A i \in 1 .. Len(bodies) : TextOf(bodies[i]) \in Seq(Nat)
    <3>1. \A i \in 1 .. Len(bodies) : bodies[i] \in Bodies
      BY <1>3, ElementOfSeq
    <3> HIDE DEF bodies
    <3> QED BY <3>1 DEF TextOf
  <2> HIDE DEF bodies
  <2> QED BY <2>1, <2>2
<1>5. FlattenSeq(found) \in Seq(Nat)
  <2> HIDE DEF found
  <2> QED BY <1>4, FlattenIsSeq
<1> QED BY <1>5 DEF TextsOf

LEMMA InitLoader == Init => LoaderInv
<1> SUFFICES ASSUME Init PROVE LoaderInv
  OBVIOUS
<1>1. texts \in Seq(Nat)
  BY TextsAreSeq DEF Init
<1>2. Len(texts) \in Nat /\ Docs = 1 .. Len(texts)
  BY <1>1, LenProperties DEF Docs
<1>3. LoaderTypes
  BY <1>1, <1>2, LoaderAssumption DEF Init, LoaderTypes
<1>4. ASSUME NEW r \in Ranks, NEW d \in Docs
      PROVE  placed[r][d] + InPool(r, d) =
               IF d \in Stride(r) THEN TimesRead(r, d) - missed[r][d] ELSE 0
  <2>1. placed[r][d] = 0 /\ missed[r][d] = 0
    BY DEF Init
  <2>2. InPool(r, d) = 0
    <3>1. pool[r] = <<>>
      BY DEF Init
    <3>2. {i \in DOMAIN pool[r] : pool[r][i] = d} = {}
      BY <3>1
    <3> QED BY <3>2, FS_EmptySet DEF InPool
  <2>3. TimesRead(r, d) = 0
    <3>1. passes[r] = 0 /\ index[r] = 0 /\ ~ended[r] /\ d \in Nat /\ d > 0
      BY <1>2 DEF Init
    <3> QED BY <3>1 DEF TimesRead
  <2> QED BY <2>1, <2>2, <2>3
<1> QED BY <1>3, <1>4 DEF LoaderInv, Conserved

(* What the types say of one rank. *)
LEMMA RankTypes ==
  ASSUME LoaderTypes, NEW r \in Ranks
  PROVE  /\ Len(texts) \in Nat /\ Docs = 1 .. Len(texts) /\ \A d \in Docs : texts[d] \in Nat
         /\ index[r] \in 0 .. Len(texts) /\ produced[r] \in Nat /\ passes[r] \in Nat
         /\ pool[r] \in Seq(Docs) /\ pos[r] \in 0 .. RowLen - 1 /\ rows[r] \in Nat
         /\ ended[r] \in BOOLEAN /\ errors[r] \in Nat
         /\ \A d \in Docs : /\ placed[r][d] \in Nat /\ missed[r][d] \in Nat
                             /\ InPool(r, d) \in Nat
<1>1. Len(texts) \in Nat /\ Docs = 1 .. Len(texts)
  BY LenProperties DEF LoaderTypes, Docs
<1>2. \A d \in Docs : texts[d] \in Nat
  BY <1>1, ElementOfSeq DEF LoaderTypes
<1>3. pool[r] \in Seq(Docs)
  BY DEF LoaderTypes
<1>4. ASSUME NEW d \in Docs PROVE InPool(r, d) \in Nat
  <2>1. Times(pool[r], d) \in Nat
    BY <1>3, CountAppend
  <2> QED BY <2>1 DEF InPool, Times
<1>5. /\ index[r] \in 0 .. Len(texts) /\ produced[r] \in Nat /\ passes[r] \in Nat
      /\ pos[r] \in 0 .. RowLen - 1 /\ rows[r] \in Nat
      /\ ended[r] \in BOOLEAN /\ errors[r] \in Nat
  BY DEF LoaderTypes
<1>6. placed[r] \in [Docs -> Nat] /\ missed[r] \in [Docs -> Nat]
  BY DEF LoaderTypes
<1> QED BY <1>1, <1>2, <1>3, <1>4, <1>5, <1>6

(* A step of one rank shows in no other. *)
LEMMA OtherRank ==
  ASSUME LoaderInv, NEW r \in Ranks, texts' = texts,
         index'[r] = index[r], passes'[r] = passes[r], pool'[r] = pool[r],
         ended'[r] = ended[r], placed'[r] = placed[r], missed'[r] = missed[r]
  PROVE  Conserved(r)'
<1>1. Conserved(r)
  BY DEF LoaderInv
<1> QED BY <1>1 DEF Conserved, InPool, Stride, TimesRead, Docs, Owns

LEMMA NextDocConserves ==
  ASSUME LoaderInv, NEW r \in Ranks, NextDoc(r)
  PROVE  LoaderInv'
<1> DEFINE n == index[r] + 1
<1>1. LoaderTypes /\ Conserved(r) /\ n \in Docs /\ n \in Nat /\ texts[n] \in Nat
  <2>1. LoaderTypes /\ Conserved(r)
    BY DEF LoaderInv
  <2>2. index[r] \in 0 .. Len(texts) /\ index[r] < Len(texts) /\ Len(texts) \in Nat
    BY <2>1, RankTypes DEF NextDoc
  <2>3. n \in 1 .. Len(texts) /\ n \in Nat
    BY <2>2
  <2> HIDE DEF n
  <2> QED BY <2>1, <2>3, RankTypes
<1>2. /\ ~ended[r]
      /\ index' = [index EXCEPT ![r] = n]
      /\ Keeps(r, n) => /\ produced' = [produced EXCEPT ![r] = @ + 1]
                        /\ pool' = [pool EXCEPT ![r] = Append(@, n)]
      /\ ~Keeps(r, n) => UNCHANGED <<produced, pool>>
      /\ UNCHANGED <<texts, passes, pos, rows, ended, fate, placed, errors, missed>>
  <2> HIDE DEF n
  <2> QED BY DEF NextDoc, n
<1> HIDE DEF n
<1>3. pool[r] \in Seq(Docs) /\ Append(pool[r], n) \in Seq(Docs)
  BY <1>1, AppendProperties DEF LoaderTypes
<1>4. LoaderTypes'
  <2>1. index' \in [Ranks -> 0 .. Len(texts)]
    <3>1. n \in 0 .. Len(texts)
      BY <1>1, RankTypes
    <3> QED BY <1>1, <1>2, <3>1 DEF LoaderTypes
  <2>2. produced' \in [Ranks -> Nat] /\ pool' \in [Ranks -> Seq(Docs)]
    <3>1. produced \in [Ranks -> Nat] /\ pool \in [Ranks -> Seq(Docs)]
      BY <1>1 DEF LoaderTypes
    <3>2. CASE Keeps(r, n)
      <4>1. produced[r] + 1 \in Nat
        BY <3>1
      <4> QED BY <1>2, <1>3, <3>1, <3>2, <4>1
    <3>3. CASE ~Keeps(r, n)
      BY <1>2, <3>1, <3>3
    <3> QED BY <3>2, <3>3
  <2>3. Docs' = Docs
    BY <1>2 DEF Docs
  <2> QED BY <1>1, <1>2, <2>1, <2>2, <2>3 DEF LoaderTypes
<1>5. ASSUME NEW d \in Docs
      PROVE  placed'[r][d] + InPool(r, d)' =
               IF d \in Stride(r)' THEN TimesRead(r, d)' - missed'[r][d] ELSE 0
  <2>1. /\ Stride(r)' = Stride(r) /\ placed' = placed /\ missed' = missed
        /\ d \in Stride(r) <=> Owns(r, d) /\ texts[d] # 0
    BY <1>2 DEF Stride, Owns, Docs
  <2>2. placed[r][d] + InPool(r, d) =
          IF d \in Stride(r) THEN TimesRead(r, d) - missed[r][d] ELSE 0
    BY <1>1 DEF Conserved
  <2>3. /\ placed[r][d] \in Nat /\ missed[r][d] \in Nat /\ passes[r] \in Nat
        /\ index[r] \in Nat /\ d \in Nat /\ n = index[r] + 1
    BY <1>1, RankTypes DEF n
  <2>4. InPool(r, d) \in Nat
    BY <1>1, RankTypes
  <2>5. /\ TimesRead(r, d) = passes[r] + (IF d < n THEN 1 ELSE 0)
        /\ TimesRead(r, d)' = passes[r] + (IF d <= n THEN 1 ELSE 0)
    <3>1. index'[r] = n /\ passes'[r] = passes[r] /\ ~ended'[r] /\ ~ended[r]
      BY <1>1, <1>2 DEF LoaderTypes
    <3> QED BY <2>3, <3>1 DEF TimesRead
  <2>6. CASE Keeps(r, n)
    <3>1. InPool(r, d)' = InPool(r, d) + (IF n = d THEN 1 ELSE 0)
      <4>1. pool'[r] = Append(pool[r], n)
        BY <1>1, <1>2, <2>6 DEF LoaderTypes
      <4>2. Times(Append(pool[r], n), d) = Times(pool[r], d) + (IF n = d THEN 1 ELSE 0)
        BY <1>1, <1>3, CountAppend
      <4> QED BY <4>1, <4>2 DEF InPool, Times
    <3>2. n \in Stride(r)
      BY <1>1, <2>6 DEF Keeps, Stride
    <3>3. CASE d = n
      BY <2>1, <2>2, <2>3, <2>4, <2>5, <3>1, <3>2, <3>3
    <3>4. CASE d # n
      BY <2>1, <2>2, <2>3, <2>4, <2>5, <3>1, <3>4
    <3> QED BY <3>3, <3>4
  <2>7. CASE ~Keeps(r, n)
    <3>1. InPool(r, d)' = InPool(r, d)
      BY <1>2, <2>7 DEF InPool
    <3>2. n \notin Stride(r)
      BY <1>1, <2>7 DEF Keeps, Stride
    <3>3. CASE d = n
      BY <2>1, <2>2, <3>1, <3>2, <3>3
    <3>4. CASE d # n
      BY <2>1, <2>2, <2>3, <2>4, <2>5, <3>1, <3>4
    <3> QED BY <3>3, <3>4
  <2> QED BY <2>6, <2>7
<1>6. \A q \in Ranks : Conserved(q)'
  <2> SUFFICES ASSUME NEW q \in Ranks PROVE Conserved(q)'
    OBVIOUS
  <2>1. CASE q = r
    <3>1. Docs' = Docs
      BY <1>2 DEF Docs
    <3> QED BY <1>5, <2>1, <3>1 DEF Conserved
  <2>2. CASE q # r
    <3>1. /\ texts' = texts /\ index'[q] = index[q] /\ passes'[q] = passes[q]
          /\ pool'[q] = pool[q] /\ ended'[q] = ended[q] /\ placed'[q] = placed[q]
          /\ missed'[q] = missed[q]
      BY <1>1, <1>2, <2>2 DEF LoaderTypes
    <3> QED BY <3>1, OtherRank
  <2> QED BY <2>1, <2>2
<1> QED BY <1>4, <1>6 DEF LoaderInv

LEMMA ReadFailsConserves ==
  ASSUME LoaderInv, NEW r \in Ranks, ReadFails(r)
  PROVE  LoaderInv'
<1>1. LoaderTypes /\ Conserved(r) /\ ~ended[r]
      /\ UNCHANGED <<texts, index, produced, passes, pool, pos, rows, placed>>
      /\ errors' = [errors EXCEPT ![r] = @ + 1]
  BY DEF LoaderInv, ReadFails
<1>2. Docs' = Docs /\ errors' \in [Ranks -> Nat]
  <2>1. errors \in [Ranks -> Nat]
    BY <1>1 DEF LoaderTypes
  <2>2. errors' \in [Ranks -> Nat]
    BY <1>1, <2>1
  <2> QED BY <1>1, <2>2 DEF Docs
<1>3. CASE Owns(r, index[r] + 1)
  <2>1. fate' = [fate EXCEPT ![r] = "read error"] /\ UNCHANGED <<ended, missed>>
    BY <1>3 DEF ReadFails
  <2>2. fate' \in [Ranks -> {"running", "read error", "starved"}]
    <3>1. fate \in [Ranks -> {"running", "read error", "starved"}]
      BY <1>1 DEF LoaderTypes
    <3> QED BY <2>1, <3>1
  <2>3. LoaderTypes'
    BY <1>1, <1>2, <2>1, <2>2 DEF LoaderTypes
  <2>4. ASSUME NEW q \in Ranks PROVE Conserved(q)'
    BY <1>1, <2>1, OtherRank
  <2> QED BY <2>3, <2>4 DEF LoaderInv
<1>4. CASE ~Owns(r, index[r] + 1)
  <2> DEFINE more == [d \in Docs |-> IF d \in Unread(r) THEN missed[r][d] + 1 ELSE missed[r][d]]
  <2>1. ended' = [ended EXCEPT ![r] = TRUE] /\ missed' = [missed EXCEPT ![r] = more] /\ fate' = fate
    BY <1>4 DEF ReadFails
  <2>2. more \in [Docs -> Nat]
    BY <1>1, RankTypes
  <2> HIDE DEF more
  <2>3. LoaderTypes'
    <3>1. missed' \in [Ranks -> [Docs -> Nat]] /\ ended' \in [Ranks -> BOOLEAN]
      BY <1>1, <2>1, <2>2 DEF LoaderTypes
    <3> QED BY <1>1, <1>2, <2>1, <3>1 DEF LoaderTypes
  <2>4. ASSUME NEW d \in Docs
        PROVE  placed'[r][d] + InPool(r, d)' =
                 IF d \in Stride(r)' THEN TimesRead(r, d)' - missed'[r][d] ELSE 0
    <3>1. /\ placed'[r][d] = placed[r][d] /\ InPool(r, d)' = InPool(r, d)
          /\ Stride(r)' = Stride(r) /\ (d \in Stride(r) => Owns(r, d))
      BY <1>1 DEF InPool, Stride, Owns, Docs
    <3>2. placed[r][d] + InPool(r, d) =
            IF d \in Stride(r) THEN TimesRead(r, d) - missed[r][d] ELSE 0
      BY <1>1 DEF Conserved
    <3>3. /\ index[r] \in Nat /\ passes[r] \in Nat /\ missed[r][d] \in Nat /\ d \in Nat
      BY <1>1, RankTypes
    <3>4. missed'[r][d] = missed[r][d] + (IF d \in Unread(r) THEN 1 ELSE 0)
      <4>1. missed'[r] = more
        BY <1>1, <2>1 DEF LoaderTypes
      <4>2. more[d] = IF d \in Unread(r) THEN missed[r][d] + 1 ELSE missed[r][d]
        BY DEF more
      <4> QED BY <3>3, <4>1, <4>2
    <3>5. /\ TimesRead(r, d)' = passes[r] + 1
          /\ TimesRead(r, d) = passes[r] + (IF d <= index[r] THEN 1 ELSE 0)
      <4>1. ended'[r] /\ passes'[r] = passes[r]
        BY <1>1, <2>1 DEF LoaderTypes
      <4> QED BY <1>1, <4>1 DEF TimesRead
    <3>6. d \in Stride(r) => (d \in Unread(r) <=> ~(d <= index[r]))
      BY <3>1, <3>3 DEF Unread
    <3> QED BY <3>1, <3>2, <3>3, <3>4, <3>5, <3>6
  <2>5. ASSUME NEW q \in Ranks PROVE Conserved(q)'
    <3>1. CASE q = r
      BY <1>2, <2>4, <3>1 DEF Conserved
    <3>2. CASE q # r
      <4>1. ended'[q] = ended[q] /\ missed'[q] = missed[q]
        BY <1>1, <2>1, <3>2 DEF LoaderTypes
      <4> QED BY <1>1, <4>1, OtherRank
    <3> QED BY <3>1, <3>2
  <2> QED BY <2>3, <2>5 DEF LoaderInv
<1> QED BY <1>3, <1>4

LEMMA NextPassConserves ==
  ASSUME LoaderInv, NEW r \in Ranks, NextPass(r)
  PROVE  LoaderInv'
<1>1. LoaderTypes /\ Conserved(r) /\ (index[r] = Len(texts) \/ ended[r])
      /\ UNCHANGED <<texts, pool, pos, rows, placed, errors, missed>>
  BY DEF LoaderInv, NextPass
<1>2. Docs' = Docs
  BY <1>1 DEF Docs
<1>3. CASE EmptyPass(r)
  <2>1. fate' = [fate EXCEPT ![r] = "starved"] /\ UNCHANGED <<index, produced, passes, ended>>
    BY <1>3 DEF NextPass
  <2>2. LoaderTypes'
    BY <1>1, <1>2, <2>1 DEF LoaderTypes
  <2>3. ASSUME NEW q \in Ranks PROVE Conserved(q)'
    BY <1>1, <2>1, OtherRank
  <2> QED BY <2>2, <2>3 DEF LoaderInv
<1>4. CASE ~EmptyPass(r)
  <2>1. /\ index' = [index EXCEPT ![r] = 0] /\ ended' = [ended EXCEPT ![r] = FALSE]
        /\ produced' = [produced EXCEPT ![r] = 0]
        /\ passes' = [passes EXCEPT ![r] = @ + 1] /\ fate' = fate
    BY <1>4 DEF NextPass
  <2>2. LoaderTypes'
    <3>1. 0 \in 0 .. Len(texts)
      BY <1>1, RankTypes
    <3>2. /\ index' \in [Ranks -> 0 .. Len(texts)] /\ ended' \in [Ranks -> BOOLEAN]
          /\ produced' \in [Ranks -> Nat] /\ passes' \in [Ranks -> Nat]
      <4>1. /\ index \in [Ranks -> 0 .. Len(texts)] /\ ended \in [Ranks -> BOOLEAN]
            /\ produced \in [Ranks -> Nat] /\ passes \in [Ranks -> Nat]
        BY <1>1 DEF LoaderTypes
      <4>2. index' \in [Ranks -> 0 .. Len(texts)] /\ ended' \in [Ranks -> BOOLEAN]
        BY <2>1, <3>1, <4>1
      <4>3. produced' \in [Ranks -> Nat] /\ passes' \in [Ranks -> Nat]
        BY <2>1, <4>1
      <4> QED BY <4>2, <4>3
    <3> QED BY <1>1, <1>2, <2>1, <3>2 DEF LoaderTypes
  <2>3. ASSUME NEW d \in Docs
        PROVE  placed'[r][d] + InPool(r, d)' =
                 IF d \in Stride(r)' THEN TimesRead(r, d)' - missed'[r][d] ELSE 0
    <3>1. /\ placed' = placed /\ InPool(r, d)' = InPool(r, d) /\ missed' = missed
          /\ Stride(r)' = Stride(r)
      BY <1>1 DEF InPool, Stride, Owns, Docs
    <3>2. /\ Len(texts) \in Nat /\ passes[r] \in Nat /\ d \in 1 .. Len(texts)
      BY <1>1, RankTypes
    <3>3. TimesRead(r, d)' = passes[r] + 1
      <4>1. passes'[r] = passes[r] + 1 /\ index'[r] = 0 /\ ~ended'[r]
        BY <1>1, <2>1 DEF LoaderTypes
      <4> QED BY <3>2, <4>1 DEF TimesRead
    <3>4. TimesRead(r, d) = passes[r] + 1
      BY <1>1, <3>2 DEF TimesRead
    <3> QED BY <1>1, <3>1, <3>3, <3>4 DEF Conserved
  <2>4. ASSUME NEW q \in Ranks PROVE Conserved(q)'
    <3>1. CASE q = r
      BY <1>2, <2>3, <3>1 DEF Conserved
    <3>2. CASE q # r
      <4>1. index'[q] = index[q] /\ passes'[q] = passes[q] /\ ended'[q] = ended[q]
        BY <1>1, <2>1, <3>2 DEF LoaderTypes
      <4> QED BY <1>1, <4>1, OtherRank
    <3> QED BY <3>1, <3>2
  <2> QED BY <2>2, <2>4 DEF LoaderInv
<1> QED BY <1>3, <1>4

(* Placing a document moves it from the pool into the row. *)
LEMMA PlaceConserves ==
  ASSUME LoaderInv, NEW r \in Ranks, NEW i \in DOMAIN pool[r],
         NEW n \in Nat, n > 0, n <= Remaining(r), Place(r, i, n)
  PROVE  LoaderInv'
<1>1. LoaderTypes /\ Conserved(r)
  BY DEF LoaderInv
<1>2. /\ pool' = [pool EXCEPT ![r] = SwapRemove(@, i)]
      /\ placed' = [placed EXCEPT ![r][pool[r][i]] = @ + 1]
      /\ pos' = [pos EXCEPT ![r] = IF pos[r] + n = RowLen THEN 0 ELSE pos[r] + n]
      /\ rows' = [rows EXCEPT ![r] = IF pos[r] + n = RowLen THEN @ + 1 ELSE @]
      /\ UNCHANGED <<texts, index, produced, passes, ended, fate, errors, missed>>
  BY DEF Place
<1>3. Docs' = Docs
  BY <1>2 DEF Docs
<1> DEFINE used == pool[r][i]  left == SwapRemove(pool[r], i)
<1>4. used \in Docs /\ pool[r] \in Seq(Docs) /\ left \in Seq(Docs)
  <2>1. pool[r] \in Seq(Docs)
    BY <1>1, RankTypes
  <2>2. used \in Docs
    BY <1>1, PoolTokens
  <2> QED BY <2>1, <2>2, CountSwapRemove
<1> HIDE DEF used, left
<1>5. pool' = [pool EXCEPT ![r] = left]
  BY <1>2 DEF left
<1>6. /\ placed'[r] = [placed[r] EXCEPT ![used] = @ + 1]
      /\ placed' = [placed EXCEPT ![r] = placed'[r]]
  BY <1>1, <1>2 DEF LoaderTypes, used
<1>7. LoaderTypes'
  <2>1. pos[r] + n \in Nat /\ pos[r] + n <= RowLen
    <3>1. pos[r] \in 0 .. RowLen - 1 /\ n <= RowLen - pos[r]
      BY <1>1, RankTypes DEF Remaining
    <3> QED BY <3>1, LoaderAssumption
  <2>2. (IF pos[r] + n = RowLen THEN 0 ELSE pos[r] + n) \in 0 .. RowLen - 1
    BY <2>1, LoaderAssumption
  <2>3. pos' \in [Ranks -> 0 .. RowLen - 1]
    BY <1>1, <1>2, <2>2 DEF LoaderTypes
  <2>4. rows' \in [Ranks -> Nat]
    <3>1. rows \in [Ranks -> Nat]
      BY <1>1 DEF LoaderTypes
    <3> QED BY <1>2, <3>1
  <2>5. pool' \in [Ranks -> Seq(Docs)]
    <3>1. pool \in [Ranks -> Seq(Docs)]
      BY <1>1 DEF LoaderTypes
    <3> QED BY <1>4, <1>5, <3>1
  <2>6. placed' \in [Ranks -> [Docs -> Nat]]
    <3>1. placed \in [Ranks -> [Docs -> Nat]] /\ placed[r] \in [Docs -> Nat]
      BY <1>1 DEF LoaderTypes
    <3>2. placed'[r] \in [Docs -> Nat]
      BY <1>4, <1>6, <3>1
    <3> QED BY <1>6, <3>1, <3>2
  <2> QED BY <1>1, <1>2, <1>3, <2>3, <2>4, <2>5, <2>6 DEF LoaderTypes
<1>8. ASSUME NEW d \in Docs
      PROVE  placed'[r][d] + InPool(r, d)' =
               IF d \in Stride(r)' THEN TimesRead(r, d)' - missed'[r][d] ELSE 0
  <2>1. InPool(r, d)' = InPool(r, d) - (IF used = d THEN 1 ELSE 0)
    <3>1. pool'[r] = left
      BY <1>1, <1>5 DEF LoaderTypes
    <3>2. Times(left, d) = Times(pool[r], d) - (IF used = d THEN 1 ELSE 0)
      BY <1>4, CountSwapRemove DEF left, used
    <3> QED BY <3>1, <3>2 DEF InPool, Times
  <2>2. placed'[r][d] = placed[r][d] + (IF used = d THEN 1 ELSE 0)
    <3>1. placed[r] \in [Docs -> Nat]
      BY <1>1 DEF LoaderTypes
    <3> QED BY <1>4, <1>6, <3>1
  <2>3. placed[r][d] \in Nat /\ InPool(r, d) \in Nat
    BY <1>1, RankTypes
  <2>4. placed'[r][d] + InPool(r, d)' = placed[r][d] + InPool(r, d)
    BY <2>1, <2>2, <2>3
  <2>5. Stride(r)' = Stride(r) /\ TimesRead(r, d)' = TimesRead(r, d) /\ missed' = missed
    BY <1>2 DEF Stride, Owns, Docs, TimesRead
  <2> QED BY <1>1, <2>4, <2>5 DEF Conserved
<1>9. ASSUME NEW q \in Ranks PROVE Conserved(q)'
  <2>1. CASE q = r
    BY <1>3, <1>8, <2>1 DEF Conserved
  <2>2. CASE q # r
    <3>1. pool'[q] = pool[q] /\ placed'[q] = placed[q]
      BY <1>1, <1>5, <1>6, <2>2 DEF LoaderTypes
    <3> QED BY <1>2, <3>1, OtherRank
  <2> QED BY <2>1, <2>2
<1> QED BY <1>7, <1>9 DEF LoaderInv

LEMMA NextLoader == LoaderInv /\ [Next]_vars => LoaderInv'
<1> SUFFICES ASSUME LoaderInv, [Next]_vars PROVE LoaderInv'
  OBVIOUS
<1>1. CASE UNCHANGED vars
  <2>1. LoaderTypes'
    BY <1>1 DEF LoaderInv, LoaderTypes, vars, Docs
  <2>2. ASSUME NEW r \in Ranks PROVE Conserved(r)'
    BY <1>1, OtherRank DEF vars
  <2> QED BY <2>1, <2>2 DEF LoaderInv
<1>2. ASSUME NEW r \in Ranks, PlaceWhole(r) PROVE LoaderInv'
  <2> DEFINE i == BestFit(r)  n == Tokens(pool[r][i])
  <2>1. i \in DOMAIN pool[r] /\ Fits(r, i)
    BY <1>2, BestFitFits DEF PlaceWhole, LoaderInv
  <2>2. n \in Nat /\ n > 0 /\ n <= Remaining(r)
    BY <2>1, PoolTokens DEF LoaderInv, Fits
  <2>3. Place(r, i, n)
    BY <1>2 DEF PlaceWhole
  <2> HIDE DEF i, n
  <2> QED BY <2>1, <2>2, <2>3, PlaceConserves
<1>3. ASSUME NEW r \in Ranks, PlaceCropped(r) PROVE LoaderInv'
  <2> DEFINE i == Shortest(r)  n == Remaining(r)
  <2>1. i \in DOMAIN pool[r]
    BY <1>3, ShortestThere DEF PlaceCropped, LoaderInv
  <2>2. n \in Nat /\ n > 0 /\ n <= Remaining(r)
    <3>1. pos[r] \in 0 .. RowLen - 1
      BY RankTypes DEF LoaderInv
    <3> QED BY <3>1, LoaderAssumption DEF Remaining
  <2>3. Place(r, i, n)
    BY <1>3 DEF PlaceCropped
  <2> HIDE DEF i
  <2> QED BY <2>1, <2>2, <2>3, PlaceConserves
<1>4. ASSUME NEW r \in Ranks, NextDoc(r) \/ NextPass(r) \/ ReadFails(r) PROVE LoaderInv'
  BY <1>4, NextDocConserves, NextPassConserves, ReadFailsConserves
<1> QED BY <1>1, <1>2, <1>3, <1>4 DEF Next, RankStep

(* In every execution, for each rank and each document: what was placed    *)
(* and what waits in the pool is what the rank has read of its stride, and *)
(* nothing else, except where a read failed (encode_docs, refill_pool,     *)
(* pack_row).                                                              *)
THEOREM DocsAlwaysConserved == Spec => []DocsConserved
<1>1. LoaderInv => DocsConserved
  BY DEF LoaderInv, Conserved, DocsConserved
<1> QED BY <1>1, InitLoader, NextLoader, PTL DEF Spec
=============================================================================
