----------------------------- MODULE BpeProofs -----------------------------
(***************************************************************************)
(* For every corpus and every number of merges, the incremental trainer    *)
(* keeps its tables exact, gives no two tokens the same bytes, fails none  *)
(* of its assertions, and does what naive BPE does; and for every piece    *)
(* the encoder finds the tokens that the merges, one after the other, give.*)
(* The argument.  The lists of a word stay linked and its live nodes are   *)
(* the word.  A place of the tables is a live pair with its word; every    *)
(* merge moves the counts as it moves the live pairs, and a place that has *)
(* died is recognized when it is visited, because the pair at a node only  *)
(* grows and so is listed once for a pair.  Words merged from the left at  *)
(* the places listed are the words naive BPE merges.  Ids have bytes of    *)
(* their own because the merges up to a token segment its bytes into the   *)
(* two ids it was learned from.  The spans of a piece are at every moment  *)
(* half-way through some merge k + 1 of it: the merges up to k are done.   *)
(* Two neighbours then make no token learned up to k, and token k + 1 only *)
(* if they are its pair; so the candidate of the lowest rank is the        *)
(* leftmost pair of merge k + 1, which is what that merge does next.       *)
(***************************************************************************)
EXTENDS BpeTokenizer, FiniteSetTheorems, FunctionTheorems, SequenceTheorems,
        WellFoundedInduction, TLAPS

-----------------------------------------------------------------------------
(* Counting, and recursion along the numbers. *)

(* The initial segments of the numbers are finite sets ordered as the      *)
(* numbers are, so a set of numbers has a least one.                       *)
LEMMA LeastNatural ==
  ASSUME NEW S, S \subseteq Nat, S # {}
  PROVE  \E m \in S : \A n \in S : m <= n
<1> DEFINE U == {0 .. n : n \in S}
<1>1. U \subseteq FiniteSubsetsOf(Nat) /\ U # {}
  <2>1. \A n \in S : 0 .. n \subseteq Nat /\ IsFiniteSet(0 .. n)
    BY FS_Interval
  <2> QED
    BY <2>1 DEF FiniteSubsetsOf
<1>2. IsWellFoundedOn(StrictSubsetOrdering(Nat), FiniteSubsetsOf(Nat))
  BY FS_StrictSubsetOrderingWellFounded
<1>3. PICK s \in U : \A t \in U : ~(<<t, s>> \in StrictSubsetOrdering(Nat))
  <2> HIDE DEF U
  <2> QED
    BY <1>1, <1>2, WFMin
<1>4. PICK m \in S : s = 0 .. m
  OBVIOUS
<1>5. ASSUME NEW n \in S, ~(m <= n) PROVE FALSE
  <2>1. n \in Nat /\ m \in Nat /\ n < m
    BY <1>5
  <2>2. 0 .. n \subseteq 0 .. m /\ m \in 0 .. m /\ m \notin 0 .. n
    BY <2>1
  <2>3. 0 .. n \in U /\ 0 .. n # 0 .. m /\ 0 .. n \subseteq Nat /\ 0 .. m \subseteq Nat
    BY <2>1, <2>2
  <2>4. <<0 .. n, 0 .. m>> \in StrictSubsetOrdering(Nat)
    BY <2>2, <2>3 DEF StrictSubsetOrdering
  <2> QED
    BY <1>3, <1>4, <2>3, <2>4
<1> QED
  BY <1>5

(* What holds at zero, and at a number if at the one before it, holds at   *)
(* all of them.                                                            *)
LEMMA CountUp ==
  ASSUME NEW S, NEW n \in Nat, 0 \in S,
         \A k \in 0 .. n - 1 : k \in S => k + 1 \in S
  PROVE  \A k \in 0 .. n : k \in S
<1> DEFINE Missed == {k \in 0 .. n : k \notin S}
<1> SUFFICES ASSUME Missed # {} PROVE FALSE
  OBVIOUS
<1>1. Missed \subseteq Nat
  OBVIOUS
<1>2. PICK k \in Missed : \A j \in Missed : k <= j
  <2> HIDE DEF Missed
  <2> QED BY <1>1, LeastNatural
<1>3. k - 1 \in 0 .. n - 1
  BY <1>2
<1>4. k - 1 \in Missed
  BY <1>2, <1>3
<1> QED BY <1>2, <1>4

(* What holds of the empty sequence, and of a sequence with one more       *)
(* element if of the sequence, holds of all of them.                       *)
LEMMA SeqGrows ==
  ASSUME NEW S, NEW G, <<>> \in G,
         \A s \in Seq(S), e \in S : s \in G => Append(s, e) \in G
  PROVE  Seq(S) \subseteq G
<1> DEFINE J == {k \in Nat : \A s \in Seq(S) : Len(s) = k => s \in G}
<1>1. 0 \in J
  <2>1. \A s \in Seq(S) : Len(s) = 0 => s = <<>>
    BY EmptySeq
  <2> QED BY <2>1
<1>2. ASSUME NEW k \in Nat, k \in J PROVE k + 1 \in J
  <2> SUFFICES ASSUME NEW t \in Seq(S), Len(t) = k + 1 PROVE t \in G
    OBVIOUS
  <2>1. t # <<>>
    BY EmptySeq
  <2>2. PICK s \in Seq(S), e \in S : t = Append(s, e)
    BY <2>1, SequenceEmptyOrAppend
  <2>3. Len(t) = Len(s) + 1 /\ Len(s) \in Nat
    BY <2>2, AppendProperties, LenProperties
  <2>4. Len(s) = k
    BY <2>3
  <2> QED BY <1>2, <2>2, <2>4
<1> SUFFICES ASSUME NEW s \in Seq(S) PROVE s \in G
  OBVIOUS
<1>3. PICK n \in Nat : n = Len(s)
  BY LenProperties
<1> HIDE DEF J
<1>4. \A k \in 0 .. n - 1 : k \in J => k + 1 \in J
  BY <1>2
<1>5. n \in 0 .. n
  OBVIOUS
<1>6. n \in J
  BY <1>1, <1>4, <1>5, CountUp
<1> QED BY <1>3, <1>6 DEF J

(* A recursive function along the numbers exists: F says how a value comes *)
(* from the one before it.                                                 *)
StaysIn(F, n, S) == \A i \in 1 .. n : \A x \in S : F[<<i, x>>] \in S
Recursion(f, n, S, base, F) ==
  /\ f \in [0 .. n -> S]
  /\ \A i \in 0 .. n : f[i] = IF i = 0 THEN base ELSE F[<<i, f[i - 1]>>]

LEMMA RecursionExists ==
  ASSUME NEW n \in Nat, NEW S, NEW base \in S, NEW F, StaysIn(F, n, S)
  PROVE  \E f : Recursion(f, n, S, base, F)
<1>0. \A i \in 1 .. n : \A x \in S : F[<<i, x>>] \in S
  BY Zenon DEF StaysIn
<1> DEFINE Good(f, m) == /\ f \in [0 .. m -> S]
                         /\ \A i \in 0 .. m : f[i] = IF i = 0 THEN base ELSE F[<<i, f[i - 1]>>]
           J == {m \in 0 .. n : \E f : Good(f, m)}
<1>1. 0 \in J
  <2>1. Good([i \in 0 .. 0 |-> base], 0)
    OBVIOUS
  <2> HIDE DEF Good
  <2> QED BY <2>1
<1>2. ASSUME NEW m \in 0 .. n - 1, m \in J PROVE m + 1 \in J
  <2>1. PICK f : Good(f, m)
    BY <1>2
  <2>2. m + 1 \in 1 .. n /\ m \in 0 .. m /\ m \in Nat
    OBVIOUS
  <2> DEFINE g == [i \in 0 .. m + 1 |-> IF i = m + 1 THEN F[<<m + 1, f[m]>>] ELSE f[i]]
  <2>3. \A i \in 0 .. m : i \in 0 .. m + 1 /\ i # m + 1 /\ g[i] = f[i]
    BY <2>2
  <2>4. g[m + 1] = F[<<m + 1, f[m]>>]
    BY <2>2
  <2>5. f[m] \in S /\ g[m + 1] \in S
    BY <1>0, <2>1, <2>2, <2>4
  <2>6. g \in [0 .. m + 1 -> S]
    <3>1. \A i \in 0 .. m + 1 : g[i] \in S
      BY <2>1, <2>2, <2>3, <2>5
    <3>2. g = [i \in 0 .. m + 1 |-> g[i]]
      OBVIOUS
    <3> HIDE DEF g
    <3> QED BY <3>1, <3>2
  <2> HIDE DEF g
  <2>7. ASSUME NEW i \in 0 .. m + 1
        PROVE  g[i] = IF i = 0 THEN base ELSE F[<<i, g[i - 1]>>]
    <3>1. CASE i = m + 1
      <4>1. i # 0 /\ i - 1 = m /\ g[m] = f[m]
        BY <2>2, <2>3, <3>1
      <4> QED BY <2>4, <3>1, <4>1
    <3>2. CASE i # m + 1
      <4>1. i \in 0 .. m /\ (i # 0 => i - 1 \in 0 .. m)
        BY <2>2, <3>2
      <4>2. g[i] = f[i] /\ (i # 0 => g[i - 1] = f[i - 1])
        BY <2>3, <4>1
      <4> QED BY <2>1, <4>1, <4>2
    <3> QED BY <3>1, <3>2
  <2>8. Good(g, m + 1)
    BY <2>6, <2>7
  <2> HIDE DEF Good
  <2> QED BY <2>2, <2>8
<1> HIDE DEF J
<1>3. n \in J
  <2>1. n \in 0 .. n
    OBVIOUS
  <2> QED BY <1>1, <1>2, <2>1, CountUp
<1>4. PICK f : Good(f, n)
  BY <1>3 DEF J
<1> QED BY <1>4 DEF Recursion

-----------------------------------------------------------------------------
(* MergeAll, token by token. *)

Segs(tokens, p, id) ==
  CHOOSE seg : seg = [n \in 0 .. Len(tokens) |->
    IF n = 0 THEN <<>> ELSE MergeNext(seg[n - 1], tokens[n], p, id)]

LEMMA FrontLast ==
  ASSUME NEW T, NEW s \in Seq(T), NEW e \in T
  PROVE  Front(Append(s, e)) = s /\ Last(Append(s, e)) = e
<1> DEFINE t == Append(s, e)
<1>1. t \in Seq(T) /\ Len(t) = Len(s) + 1 /\ Len(s) \in Nat
      /\ (\A i \in 1 .. Len(s) : t[i] = s[i]) /\ t[Len(s) + 1] = e
  BY AppendProperties, LenProperties
<1> HIDE DEF t
<1>2. \A i \in 1 .. Len(t) - 1 : t[i] \in T
  BY <1>1, ElementOfSeq
<1>3. /\ SubSeq(t, 1, Len(t) - 1) \in Seq(T)
      /\ Len(SubSeq(t, 1, Len(t) - 1)) = Len(s)
      /\ \A i \in 1 .. Len(s) : SubSeq(t, 1, Len(t) - 1)[i] = t[i]
  BY <1>1, <1>2, SubSeqProperties
<1> QED BY <1>1, <1>3, SeqEqual DEF Front, Last, t

LEMMA MergeNextType ==
  ASSUME NEW T, NEW s \in Seq(T), NEW t \in T, NEW p, NEW id \in T
  PROVE  MergeNext(s, t, p, id) \in Seq(T) /\ MergeNext(s, t, p, id) # <<>>
<1>1. Append(s, t) \in Seq(T) /\ Append(s, t) # <<>>
  BY AppendProperties
<1>2. CASE s # <<>>
  <2>1. PICK x \in Seq(T), e \in T : s = Append(x, e)
    BY <1>2, SequenceEmptyOrAppend
  <2>2. Append(Front(s), id) \in Seq(T) /\ Append(Front(s), id) # <<>>
    BY <2>1, FrontLast, AppendProperties
  <2> QED BY <1>1, <2>2 DEF MergeNext
<1> QED BY <1>1, <1>2 DEF MergeNext

LEMMA SegsValues ==
  ASSUME NEW T, NEW tokens \in Seq(T), NEW p, NEW id \in T
  PROVE  /\ MergeAll(tokens, p, id) = Segs(tokens, p, id)[Len(tokens)]
         /\ Segs(tokens, p, id) \in [0 .. Len(tokens) -> Seq(T)]
         /\ Segs(tokens, p, id)[0] = <<>>
         /\ \A n \in 1 .. Len(tokens) : Segs(tokens, p, id)[n] =
               MergeNext(Segs(tokens, p, id)[n - 1], tokens[n], p, id)
<1> DEFINE N == Len(tokens)
           Def(seg) == seg = [n \in 0 .. N |->
             IF n = 0 THEN <<>> ELSE MergeNext(seg[n - 1], tokens[n], p, id)]
           F == [x \in (1 .. N) \X Seq(T) |-> MergeNext(x[2], tokens[x[1]], p, id)]
<1>1. N \in Nat /\ <<>> \in Seq(T) /\ \A n \in 1 .. N : tokens[n] \in T
  BY LenProperties, ElementOfSeq
<1>2. \A n \in 1 .. N : \A x \in Seq(T) : F[<<n, x>>] = MergeNext(x, tokens[n], p, id)
  OBVIOUS
<1>3. \A n \in 1 .. N : \A x \in Seq(T) : F[<<n, x>>] \in Seq(T)
  BY <1>1, <1>2, MergeNextType, Zenon
<1> HIDE DEF F, N
<1>4. PICK f \in [0 .. N -> Seq(T)] :
        \A n \in 0 .. N : f[n] = IF n = 0 THEN <<>> ELSE F[<<n, f[n - 1]>>]
  <2>1. StaysIn(F, N, Seq(T)) /\ <<>> \in Seq(T) /\ N \in Nat
    BY <1>1, <1>3 DEF StaysIn
  <2>2. PICK f : Recursion(f, N, Seq(T), <<>>, F)
    BY <2>1, RecursionExists
  <2> QED BY <2>2 DEF Recursion
<1>5. ASSUME NEW n \in 0 .. N
      PROVE  f[n] = IF n = 0 THEN <<>> ELSE MergeNext(f[n - 1], tokens[n], p, id)
  <2>1. n # 0 => n \in 1 .. N /\ n - 1 \in 0 .. N
    BY <1>1
  <2> QED BY <1>2, <1>4, <2>1
<1>6. f = [n \in 0 .. N |-> IF n = 0 THEN <<>> ELSE MergeNext(f[n - 1], tokens[n], p, id)]
  <2>1. f = [n \in 0 .. N |-> f[n]]
    OBVIOUS
  <2> QED BY <1>5, <2>1
<1>7. Def(f)
  BY <1>6
<1>8. Segs(tokens, p, id) = CHOOSE seg : Def(seg)
  BY DEF Segs, N
<1> DEFINE g == Segs(tokens, p, id)
<1>9. Def(g)
  <2> HIDE DEF Def
  <2> QED BY <1>7, <1>8
<1> HIDE DEF g
<1>10. g = [n \in 0 .. N |-> IF n = 0 THEN <<>> ELSE MergeNext(g[n - 1], tokens[n], p, id)]
  BY <1>9
<1>11. g[0] = <<>> /\ \A n \in 1 .. N : g[n] = MergeNext(g[n - 1], tokens[n], p, id)
  <2>1. 0 \in 0 .. N /\ \A n \in 1 .. N : n \in 0 .. N /\ n # 0
    BY <1>1
  <2> QED BY <1>10, <2>1
<1>12. \A n \in 0 .. N : g[n] \in Seq(T)
  <2> DEFINE J == {n \in 0 .. N : g[n] \in Seq(T)}
  <2>1. 0 \in J
    <3>1. 0 \in 0 .. N /\ g[0] \in Seq(T)
      BY <1>1, <1>11
    <3> QED BY <3>1
  <2>2. ASSUME NEW n \in 0 .. N - 1, n \in J PROVE n + 1 \in J
    <3>1. n + 1 \in 1 .. N /\ n + 1 \in 0 .. N /\ (n + 1) - 1 = n
      BY <1>1
    <3>2. g[n] \in Seq(T) /\ tokens[n + 1] \in T
      BY <1>1, <2>2, <3>1
    <3>3. MergeNext(g[n], tokens[n + 1], p, id) \in Seq(T)
      BY <3>2, MergeNextType
    <3>4. g[n + 1] = MergeNext(g[n], tokens[n + 1], p, id)
      BY <1>11, <3>1
    <3> QED BY <3>1, <3>3, <3>4
  <2> HIDE DEF J
  <2>3. \A n \in 0 .. N : n \in J
    BY <1>1, <2>1, <2>2, CountUp
  <2> QED BY <2>3 DEF J
<1>13. g \in [0 .. N -> Seq(T)]
  <2>1. g = [n \in 0 .. N |-> g[n]]
    BY <1>10
  <2> QED BY <1>12, <2>1
<1>14. MergeAll(tokens, p, id) = g[N]
  BY DEF MergeAll, Segs, g, N
<1> QED BY <1>11, <1>13, <1>14 DEF g, N

LEMMA MergeAllAppend ==
  ASSUME NEW T, NEW tokens \in Seq(T), NEW t \in T, NEW p, NEW id \in T
  PROVE  /\ MergeAll(tokens, p, id) \in Seq(T)
         /\ MergeAll(Append(tokens, t), p, id) = MergeNext(MergeAll(tokens, p, id), t, p, id)
<1> DEFINE N == Len(tokens)  longer == Append(tokens, t)
           f == Segs(tokens, p, id)  g == Segs(longer, p, id)
<1>1. /\ N \in Nat /\ longer \in Seq(T) /\ Len(longer) = N + 1 /\ longer[N + 1] = t
      /\ \A n \in 1 .. N : longer[n] = tokens[n]
  BY AppendProperties, LenProperties
<1>2. /\ MergeAll(tokens, p, id) = f[N] /\ f \in [0 .. N -> Seq(T)] /\ f[0] = <<>>
      /\ \A n \in 1 .. N : f[n] = MergeNext(f[n - 1], tokens[n], p, id)
  BY SegsValues
<1> HIDE DEF f, N, longer
<1>3. /\ MergeAll(longer, p, id) = g[N + 1] /\ g[0] = <<>>
      /\ \A n \in 1 .. N + 1 : g[n] = MergeNext(g[n - 1], longer[n], p, id)
  BY <1>1, SegsValues
<1> HIDE DEF g
<1> DEFINE J == {n \in 0 .. N : g[n] = f[n]}
<1>4. 0 \in J
  BY <1>1, <1>2, <1>3
<1>5. ASSUME NEW n \in 0 .. N - 1, n \in J PROVE n + 1 \in J
  <2>1. n + 1 \in 1 .. N /\ n + 1 \in 1 .. N + 1 /\ n + 1 \in 0 .. N /\ (n + 1) - 1 = n
    BY <1>1
  <2>2. g[n + 1] = f[n + 1]
    BY <1>1, <1>2, <1>3, <1>5, <2>1
  <2> QED BY <2>1, <2>2
<1> HIDE DEF J
<1>6. N \in J
  <2>1. N \in 0 .. N
    BY <1>1
  <2> QED BY <1>1, <1>4, <1>5, <2>1, CountUp
<1>7. g[N + 1] = MergeNext(f[N], t, p, id)
  <2>1. N + 1 \in 1 .. N + 1 /\ (N + 1) - 1 = N
    BY <1>1
  <2> QED BY <1>1, <1>3, <1>6, <2>1 DEF J
<1>8. f[N] \in Seq(T)
  BY <1>1, <1>2
<1> QED BY <1>2, <1>3, <1>7, <1>8 DEF longer

LEMMA MergeAllEmpty ==
  ASSUME NEW T, NEW p, NEW id \in T
  PROVE  MergeAll(<<>>, p, id) = <<>>
<1>1. <<>> \in Seq(T) /\ Len(<<>>) = 0
  BY EmptySeq
<1>2. PICK e \in Seq(T) : e = <<>>
  BY <1>1
<1>3. MergeAll(e, p, id) = Segs(e, p, id)[Len(e)] /\ Segs(e, p, id)[0] = <<>>
  BY SegsValues
<1> QED BY <1>1, <1>2, <1>3

-----------------------------------------------------------------------------
(* Words over the numbers: the laws of their ends.  Nil, Put and Cat name *)
(* the empty sequence, Append and concatenation.                           *)

Word       == Seq(Nat)
Nil        == <<>>
Put(s, e) == Append(s, e)
Cat(s, t)  == s \o t
Mg(w, a, b, id) == MergeAll(w, <<a, b>>, id)

LEMMA WordTypes ==
  /\ Nil \in Word
  /\ \A s \in Word, e \in Nat : Put(s, e) \in Word /\ Put(s, e) # Nil
  /\ \A s, t \in Word : Cat(s, t) \in Word
<1>1. Nil \in Word
  BY EmptySeq DEF Word, Nil
<1>2. \A s \in Word, e \in Nat : Put(s, e) \in Word /\ Put(s, e) # Nil
  BY AppendProperties DEF Word, Nil, Put
<1>3. \A s, t \in Word : Cat(s, t) \in Word
  BY ConcatProperties DEF Word, Cat
<1> QED BY <1>1, <1>2, <1>3

LEMMA PutCases ==
  \A s \in Word : s = Nil \/ \E t \in Word, e \in Nat : s = Put(t, e)
BY SequenceEmptyOrAppend DEF Word, Nil, Put

LEMMA PutEnds ==
  \A s \in Word, e \in Nat : Front(Put(s, e)) = s /\ Last(Put(s, e)) = e
BY FrontLast DEF Word, Put

LEMMA PutInjective ==
  \A s, t \in Word, e, f \in Nat : Put(s, e) = Put(t, f) => s = t /\ e = f
<1> TAKE s, t \in Word, e, f \in Nat
<1>1. Front(Put(s, e)) = s /\ Last(Put(s, e)) = e /\ Front(Put(t, f)) = t /\ Last(Put(t, f)) = f
  BY PutEnds
<1> QED BY <1>1

LEMMA CatNil ==
  \A s \in Word : Cat(s, Nil) = s /\ Cat(Nil, s) = s
<1> SUFFICES ASSUME NEW s \in Seq(Nat) PROVE s \o <<>> = s /\ <<>> \o s = s
  BY DEF Word, Nil, Cat
<1> QED BY ConcatEmptySeq

LEMMA CatIsNil ==
  \A s, t \in Word : Cat(s, t) = Nil => s = Nil /\ t = Nil
<1> SUFFICES ASSUME NEW s \in Seq(Nat), NEW t \in Seq(Nat), s \o t = <<>>
             PROVE  s = <<>> /\ t = <<>>
  BY DEF Word, Nil, Cat
<1> QED BY ConcatEqualIffEmpty

LEMMA CatAssoc ==
  \A s, t, u \in Word : Cat(Cat(s, t), u) = Cat(s, Cat(t, u))
<1> SUFFICES ASSUME NEW s \in Seq(Nat), NEW t \in Seq(Nat), NEW u \in Seq(Nat)
             PROVE  (s \o t) \o u = s \o (t \o u)
  BY DEF Word, Cat
<1> QED BY ConcatAssociative, SMTT(40)

LEMMA PutIsCat ==
  \A s \in Word, e \in Nat : Put(s, e) = Cat(s, <<e>>) /\ <<e>> \in Word /\ Put(Nil, e) = <<e>>
<1> SUFFICES ASSUME NEW s \in Seq(Nat), NEW e \in Nat
             PROVE  Append(s, e) = s \o <<e>> /\ <<e>> \in Seq(Nat) /\ Append(<<>>, e) = <<e>>
  BY DEF Word, Nil, Put, Cat
<1>1. Append(s, e) = s \o <<e>>
  BY AppendIsConcat
<1>2. <<e>> \in Seq(Nat)
  OBVIOUS
<1>3. <<>> \in Seq(Nat)
  BY EmptySeq
<1>4. Append(<<>>, e) = <<>> \o <<e>>
  BY <1>3, AppendIsConcat
<1> QED BY <1>1, <1>2, <1>4, ConcatEmptySeq

LEMMA CatPut ==
  \A s, t \in Word, e \in Nat : Cat(s, Put(t, e)) = Put(Cat(s, t), e)
<1> TAKE s, t \in Word, e \in Nat
<1>1. Cat(s, t) \in Word
  BY WordTypes
<1>2. PICK f \in Word : f = <<e>>
  BY PutIsCat
<1>3. Put(t, e) = Cat(t, f) /\ Put(Cat(s, t), e) = Cat(Cat(s, t), f)
  BY <1>1, <1>2, PutIsCat
<1>4. Cat(Cat(s, t), f) = Cat(s, Cat(t, f))
  BY CatAssoc
<1> QED BY <1>3, <1>4

LEMMA CatEndsIn ==
  \A s, t, x \in Word, e \in Nat :
     Cat(s, t) = Put(x, e) /\ t # Nil => \E y \in Word : t = Put(y, e) /\ x = Cat(s, y)
<1> TAKE s, t, x \in Word, e \in Nat
<1> HAVE Cat(s, t) = Put(x, e) /\ t # Nil
<1>1. PICK y \in Word, f \in Nat : t = Put(y, f)
  BY PutCases
<1>2. Put(x, e) = Put(Cat(s, y), f) /\ Cat(s, y) \in Word
  BY <1>1, CatPut, WordTypes
<1>3. x = Cat(s, y) /\ e = f
  BY <1>2, PutInjective
<1> QED BY <1>1, <1>3

LEMMA WordGrows ==
  ASSUME NEW G, Nil \in G, \A s \in Word, e \in Nat : s \in G => Put(s, e) \in G
  PROVE  \A s \in Word : s \in G
<1>1. <<>> \in G /\ \A s \in Seq(Nat), e \in Nat : s \in G => Append(s, e) \in G
  BY DEF Nil, Word, Put
<1>2. Seq(Nat) \subseteq G
  BY <1>1, SeqGrows
<1> QED BY <1>2 DEF Word

-----------------------------------------------------------------------------
(* One merge in one word.  Its next token is merged with the last one, or  *)
(* it is appended because they are not the pair.                           *)

LEMMA MergeStep ==
  ASSUME NEW a \in Nat, NEW b \in Nat, NEW id \in Nat
  PROVE  /\ Mg(Nil, a, b, id) = Nil
         /\ \A w \in Word : Mg(w, a, b, id) \in Word
         /\ \A w, x \in Word : Mg(w, a, b, id) = Put(x, a) => Mg(Put(w, b), a, b, id) = Put(x, id)
         /\ \A w \in Word, t \in Nat :
               \/ t = b /\ \E x \in Word : Mg(w, a, b, id) = Put(x, a)
               \/ Mg(Put(w, t), a, b, id) = Put(Mg(w, a, b, id), t)
<1>0. PICK p : p = <<a, b>>
  OBVIOUS
<1>1. Mg(Nil, a, b, id) = Nil
  BY MergeAllEmpty DEF Mg, Nil
<1>2. ASSUME NEW w \in Seq(Nat), NEW t \in Nat
      PROVE  /\ MergeAll(w, p, id) \in Seq(Nat)
             /\ MergeAll(Append(w, t), p, id) = MergeNext(MergeAll(w, p, id), t, p, id)
  BY MergeAllAppend
<1>3. \A w \in Word : Mg(w, a, b, id) \in Word
  BY <1>0, <1>2 DEF Mg, Word
<1>4. \A x \in Word, e \in Nat : Front(Put(x, e)) = x /\ Last(Put(x, e)) = e
  BY FrontLast DEF Put, Word
<1>5. ASSUME NEW w \in Word, NEW t \in Nat, NEW x \in Word, NEW e \in Nat,
             Mg(w, a, b, id) = Put(x, e)
      PROVE  Mg(Put(w, t), a, b, id) =
               IF e = a /\ t = b THEN Put(x, id) ELSE Put(Put(x, e), t)
  <2> DEFINE m == Mg(w, a, b, id)
  <2>1. m # Nil /\ Front(m) = x /\ Last(m) = e
    BY <1>4, <1>5, WordTypes
  <2>2. Mg(Put(w, t), a, b, id) = MergeNext(m, t, p, id)
    BY <1>0, <1>2 DEF Mg, Word, Put
  <2>3. MergeNext(m, t, p, id) = IF m # <<>> /\ <<Last(m), t>> = <<a, b>>
                                 THEN Append(Front(m), id) ELSE Append(m, t)
    BY <1>0 DEF MergeNext
  <2>4. MergeNext(m, t, p, id) = IF e = a /\ t = b THEN Put(x, id) ELSE Put(m, t)
    <3> HIDE DEF m
    <3> QED BY <2>1, <2>3 DEF Put, Nil
  <2> QED BY <1>5, <2>2, <2>4
<1>6. ASSUME NEW w \in Word, NEW t \in Nat, Mg(w, a, b, id) = Nil
      PROVE  Mg(Put(w, t), a, b, id) = Put(Mg(w, a, b, id), t)
  <2> DEFINE m == Mg(w, a, b, id)
  <2>1. Mg(Put(w, t), a, b, id) = MergeNext(m, t, p, id)
    BY <1>0, <1>2 DEF Mg, Word, Put
  <2>2. m = <<>>
    BY <1>6 DEF Nil
  <2> HIDE DEF m
  <2>3. MergeNext(m, t, p, id) = Append(m, t)
    BY <2>2 DEF MergeNext
  <2> QED BY <2>1, <2>3 DEF Put, m
<1>7. ASSUME NEW w \in Word, NEW t \in Nat
      PROVE  \/ t = b /\ \E x \in Word : Mg(w, a, b, id) = Put(x, a)
             \/ Mg(Put(w, t), a, b, id) = Put(Mg(w, a, b, id), t)
  <2>1. CASE Mg(w, a, b, id) = Nil
    BY <1>6, <2>1
  <2>2. CASE Mg(w, a, b, id) # Nil
    <3>1. PICK x \in Word, e \in Nat : Mg(w, a, b, id) = Put(x, e)
      BY <1>3, <2>2, PutCases
    <3>2. Mg(Put(w, t), a, b, id) =
               IF e = a /\ t = b THEN Put(x, id) ELSE Put(Put(x, e), t)
      BY <1>5, <3>1
    <3> QED BY <3>1, <3>2
  <2> QED BY <2>1, <2>2
<1>8. \A w, x \in Word : Mg(w, a, b, id) = Put(x, a) => Mg(Put(w, b), a, b, id) = Put(x, id)
  BY <1>5
<1> QED BY <1>1, <1>3, <1>7, <1>8

(* A merged word cut anywhere comes from a word cut somewhere. *)
LEMMA MergeSplit ==
  ASSUME NEW a \in Nat, NEW b \in Nat, NEW id \in Nat
  PROVE  \A w, u, v \in Word : Mg(w, a, b, id) = Cat(u, v) =>
           \E c, d \in Word : w = Cat(c, d) /\ Mg(c, a, b, id) = u /\ Mg(d, a, b, id) = v
<1> DEFINE M(x) == Mg(x, a, b, id)
           Splits(x, y, z) == \E c, d \in Word : x = Cat(c, d) /\ M(c) = y /\ M(d) = z
           G == {x \in Word : \A y, z \in Word : M(x) = Cat(y, z) => Splits(x, y, z)}
<1> HIDE DEF M
<1>0. /\ M(Nil) = Nil
      /\ \A w \in Word : M(w) \in Word
      /\ \A w, x \in Word : M(w) = Put(x, a) => M(Put(w, b)) = Put(x, id)
      /\ \A w \in Word, t \in Nat :
               \/ t = b /\ \E x \in Word : M(w) = Put(x, a)
               \/ M(Put(w, t)) = Put(M(w), t)
  <2>1. M(Nil) = Nil
    BY MergeStep DEF M
  <2>2. \A w \in Word : M(w) \in Word
    BY MergeStep DEF M
  <2>3. \A w, x \in Word : M(w) = Put(x, a) => M(Put(w, b)) = Put(x, id)
    BY MergeStep DEF M
  <2>4. \A w \in Word, t \in Nat :
               \/ t = b /\ \E x \in Word : M(w) = Put(x, a)
               \/ M(Put(w, t)) = Put(M(w), t)
    BY MergeStep DEF M
  <2> QED BY <2>1, <2>2, <2>3, <2>4
<1>3. \A x \in Word : Splits(x, M(x), Nil)
  BY <1>0, CatNil, WordTypes
<1>4. Nil \in G
  <2>1. ASSUME NEW y \in Word, NEW z \in Word, M(Nil) = Cat(y, z) PROVE Splits(Nil, y, z)
    BY <1>0, <1>3, <2>1, CatIsNil, WordTypes
  <2> QED BY <2>1, WordTypes
<1>5. ASSUME NEW x \in Word, NEW t \in Nat, x \in G PROVE Put(x, t) \in G
  <2>1. \A y, z \in Word : M(x) = Cat(y, z) =>
           \E c, d \in Word : x = Cat(c, d) /\ M(c) = y /\ M(d) = z
    BY <1>5
  <2> HIDE DEF G
  <2>2. ASSUME NEW y \in Word, NEW z \in Word, M(Put(x, t)) = Cat(y, z)
        PROVE  Splits(Put(x, t), y, z)
    <3>1. CASE z = Nil
      BY <1>3, <2>2, <3>1, CatNil, WordTypes
    <3>2. CASE z # Nil
      <4>1. CASE t = b /\ \E h \in Word : M(x) = Put(h, a)
        <5>1. PICK h \in Word : M(x) = Put(h, a) /\ M(Put(x, t)) = Put(h, id)
          BY <1>0, <4>1
        <5>2. PICK z0 \in Word : z = Put(z0, id) /\ h = Cat(y, z0)
          <6>1. Cat(y, z) = Put(h, id)
            BY <2>2, <5>1
          <6> QED BY <3>2, <6>1, CatEndsIn
        <5>3. M(x) = Cat(y, Put(z0, a))
          BY <5>1, <5>2, CatPut, WordTypes
        <5>4. PICK c, d \in Word : x = Cat(c, d) /\ M(c) = y /\ M(d) = Put(z0, a)
          BY <2>1, <5>3, WordTypes
        <5>5. M(Put(d, t)) = z
          BY <1>0, <4>1, <5>2, <5>4
        <5>6. Put(x, t) = Cat(c, Put(d, t))
          BY <5>4, CatPut, WordTypes
        <5> QED BY <5>4, <5>5, <5>6, WordTypes
      <4>2. CASE ~(t = b /\ \E h \in Word : M(x) = Put(h, a))
        <5>1. M(Put(x, t)) = Put(M(x), t) /\ M(x) \in Word
          BY <1>0, <4>2
        <5>2. PICK z0 \in Word : z = Put(z0, t) /\ M(x) = Cat(y, z0)
          <6>1. Cat(y, z) = Put(M(x), t)
            BY <2>2, <5>1
          <6> QED BY <3>2, <5>1, <6>1, CatEndsIn
        <5>3. PICK c, d \in Word : x = Cat(c, d) /\ M(c) = y /\ M(d) = z0
          BY <2>1, <5>2
        <5>4. ~(t = b /\ \E g \in Word : M(d) = Put(g, a))
          BY <4>2, <5>2, <5>3, CatPut, WordTypes
        <5>5. M(Put(d, t)) = z
          BY <1>0, <5>2, <5>3, <5>4
        <5>6. Put(x, t) = Cat(c, Put(d, t))
          BY <5>3, CatPut, WordTypes
        <5> QED BY <5>3, <5>5, <5>6, WordTypes
      <4> QED BY <4>1, <4>2
    <3> QED BY <3>1, <3>2
  <2> HIDE DEF Splits
  <2>3. Put(x, t) \in Word
    BY WordTypes
  <2> QED BY <2>2, <2>3 DEF G
<1>6. \A w \in Word : w \in G
  <2> HIDE DEF G
  <2> QED BY <1>4, <1>5, WordGrows
<1> QED BY <1>6 DEF M

-----------------------------------------------------------------------------
(* A pair that occurs nowhere, and the leftmost place of one that does. *)

HasPair(w, a, b) == \E c, d \in Word : w = Cat(Put(Put(c, a), b), d)

LEMMA HasPairGrows ==
  ASSUME NEW a \in Nat, NEW b \in Nat
  PROVE  /\ \A w \in Word, t \in Nat : HasPair(w, a, b) => HasPair(Put(w, t), a, b)
         /\ \A w \in Word : HasPair(Put(Put(w, a), b), a, b)
<1>1. ASSUME NEW w \in Word, NEW t \in Nat, HasPair(w, a, b) PROVE HasPair(Put(w, t), a, b)
  <2>1. PICK c, d \in Word : w = Cat(Put(Put(c, a), b), d)
    BY <1>1 DEF HasPair
  <2>2. PICK z \in Word : z = Put(Put(c, a), b)
    BY WordTypes
  <2>3. Put(w, t) = Cat(z, Put(d, t))
    BY <2>1, <2>2, CatPut
  <2>4. Put(d, t) \in Word
    BY WordTypes
  <2> QED BY <2>2, <2>3, <2>4 DEF HasPair
<1>2. ASSUME NEW w \in Word PROVE HasPair(Put(Put(w, a), b), a, b)
  <2>1. Put(Put(w, a), b) \in Word
    BY WordTypes
  <2>2. Put(Put(w, a), b) = Cat(Put(Put(w, a), b), Nil)
    BY <2>1, CatNil
  <2> QED BY <2>2, WordTypes DEF HasPair
<1> QED BY <1>1, <1>2

LEMMA MergeNone ==
  ASSUME NEW a \in Nat, NEW b \in Nat, NEW id \in Nat
  PROVE  \A w \in Word : ~HasPair(w, a, b) => Mg(w, a, b, id) = w
<1> DEFINE G == {w \in Word : ~HasPair(w, a, b) => Mg(w, a, b, id) = w}
<1>1. Nil \in G
  BY MergeStep, WordTypes
<1>2. ASSUME NEW w \in Word, NEW t \in Nat, w \in G PROVE Put(w, t) \in G
  <2> SUFFICES ASSUME ~HasPair(Put(w, t), a, b) PROVE Mg(Put(w, t), a, b, id) = Put(w, t)
    BY WordTypes
  <2>1. Mg(w, a, b, id) = w
    BY <1>2, HasPairGrows
  <2>2. ~(t = b /\ \E x \in Word : w = Put(x, a))
    BY HasPairGrows
  <2> QED BY <2>1, <2>2, MergeStep
<1>3. \A w \in Word : w \in G
  <2> HIDE DEF G
  <2> QED BY <1>1, <1>2, WordGrows
<1> QED BY <1>3

(* What is appended is merged alike to words that merge to the same word. *)
LEMMA MergeSame ==
  ASSUME NEW a \in Nat, NEW b \in Nat, NEW id \in Nat,
         NEW u \in Word, NEW v \in Word, Mg(u, a, b, id) = Mg(v, a, b, id)
  PROVE  \A d \in Word : Mg(Cat(u, d), a, b, id) = Mg(Cat(v, d), a, b, id)
<1> DEFINE G == {d \in Word : Mg(Cat(u, d), a, b, id) = Mg(Cat(v, d), a, b, id)}
<1>1. Nil \in G
  BY CatNil, WordTypes
<1>2. ASSUME NEW d \in Word, NEW t \in Nat, d \in G PROVE Put(d, t) \in G
  <2> DEFINE x == Cat(u, d)  y == Cat(v, d)
  <2>1. x \in Word /\ y \in Word /\ Mg(x, a, b, id) = Mg(y, a, b, id)
    BY <1>2, WordTypes
  <2>2. Cat(u, Put(d, t)) = Put(x, t) /\ Cat(v, Put(d, t)) = Put(y, t)
    BY CatPut
  <2> HIDE DEF x, y
  <2>3. CASE t = b /\ \E z \in Word : Mg(x, a, b, id) = Put(z, a)
    <3>1. PICK z \in Word : Mg(x, a, b, id) = Put(z, a) /\ t = b
      BY <2>3
    <3>2. Mg(Put(x, t), a, b, id) = Put(z, id)
      BY <2>1, <3>1, MergeStep
    <3>3. Mg(y, a, b, id) = Put(z, a)
      BY <2>1, <3>1
    <3>4. Mg(Put(y, t), a, b, id) = Put(z, id)
      BY <2>1, <3>1, <3>3, MergeStep
    <3> QED BY <2>2, <3>2, <3>4, WordTypes
  <2>4. CASE ~(t = b /\ \E z \in Word : Mg(x, a, b, id) = Put(z, a))
    <3>1. Mg(Put(x, t), a, b, id) = Put(Mg(x, a, b, id), t)
      BY <2>1, <2>4, MergeStep
    <3>2. Mg(Put(y, t), a, b, id) = Put(Mg(y, a, b, id), t)
      BY <2>1, <2>4, MergeStep
    <3> QED BY <2>1, <2>2, <3>1, <3>2, WordTypes
  <2> QED BY <2>3, <2>4
<1>3. \A w \in Word : w \in G
  <2> HIDE DEF G
  <2> QED BY <1>1, <1>2, WordGrows
<1> QED BY <1>3

(* Merging the leftmost place of the pair by hand changes nothing. *)
LEMMA MergeLeftmost ==
  ASSUME NEW a \in Nat, NEW b \in Nat, NEW id \in Nat, id # b,
         NEW c \in Word, NEW d \in Word, ~HasPair(Put(c, a), a, b)
  PROVE  Mg(Cat(Put(Put(c, a), b), d), a, b, id) = Mg(Cat(Put(c, id), d), a, b, id)
<1>1. Put(c, a) \in Word /\ Put(Put(c, a), b) \in Word /\ Put(c, id) \in Word
  BY WordTypes
<1>2. Mg(Put(c, a), a, b, id) = Put(c, a) /\ Mg(c, a, b, id) = c
  BY <1>1, MergeNone, HasPairGrows
<1>3. Mg(Put(Put(c, a), b), a, b, id) = Put(c, id)
  BY <1>1, <1>2, MergeStep
<1>4. Mg(Put(c, id), a, b, id) = Put(c, id)
  BY <1>2, MergeStep
<1> QED BY <1>1, <1>3, <1>4, MergeSame

(* Where the last token of a merged word comes from. *)
LEMMA MergeEnd ==
  ASSUME NEW a \in Nat, NEW b \in Nat, NEW id \in Nat,
         NEW w \in Word, NEW x \in Word, NEW e \in Nat, Mg(w, a, b, id) = Put(x, e)
  PROVE  \/ \E v \in Word : w = Put(v, e) /\ Mg(v, a, b, id) = x
         \/ e = id /\ \E v \in Word : w = Put(v, b) /\ Mg(v, a, b, id) = Put(x, a)
<1>1. w # Nil
  BY MergeStep, WordTypes
<1>2. PICK v \in Word, t \in Nat : w = Put(v, t)
  BY <1>1, PutCases
<1>3. Mg(v, a, b, id) \in Word
  BY MergeStep
<1>4. CASE t = b /\ \E y \in Word : Mg(v, a, b, id) = Put(y, a)
  <2>1. PICK y \in Word : Mg(v, a, b, id) = Put(y, a) /\ t = b
    BY <1>4
  <2>2. Put(x, e) = Put(y, id)
    BY <1>2, <2>1, MergeStep
  <2>3. x = y /\ e = id
    BY <2>2, PutInjective
  <2> QED BY <1>2, <2>1, <2>3
<1>5. CASE ~(t = b /\ \E y \in Word : Mg(v, a, b, id) = Put(y, a))
  <2>1. Put(x, e) = Put(Mg(v, a, b, id), t)
    BY <1>2, <1>5, MergeStep
  <2>2. x = Mg(v, a, b, id) /\ e = t
    BY <1>3, <2>1, PutInjective
  <2> QED BY <1>2, <2>2
<1> QED BY <1>4, <1>5

LEMMA MergeNil ==
  ASSUME NEW a \in Nat, NEW b \in Nat, NEW id \in Nat, NEW w \in Word, Mg(w, a, b, id) = Nil
  PROVE  w = Nil
<1> SUFFICES ASSUME w # Nil PROVE FALSE
  OBVIOUS
<1>2. PICK v \in Word, t \in Nat : w = Put(v, t)
  BY PutCases
<1>3. Mg(v, a, b, id) \in Word
  BY MergeStep
<1>4. \/ \E x \in Word : Mg(v, a, b, id) = Put(x, a) /\ t = b
      \/ Mg(w, a, b, id) = Put(Mg(v, a, b, id), t)
  BY <1>2, MergeStep
<1>5. CASE \E x \in Word : Mg(v, a, b, id) = Put(x, a) /\ t = b
  <2>1. PICK x \in Word : Mg(v, a, b, id) = Put(x, a) /\ t = b
    BY <1>5
  <2>2. Mg(w, a, b, id) = Put(x, id)
    BY <1>2, <2>1, MergeStep
  <2> QED BY <2>2, WordTypes
<1>6. CASE Mg(w, a, b, id) = Put(Mg(v, a, b, id), t)
  BY <1>3, <1>6, WordTypes
<1> QED BY <1>4, <1>5, <1>6

(* The word of one token, and of two. *)
One(e)    == Put(Nil, e)
Two(a, b) == Put(Put(Nil, a), b)

LEMMA MergeToOne ==
  ASSUME NEW a \in Nat, NEW b \in Nat, NEW id \in Nat, id # a,
         NEW w \in Word, NEW e \in Nat, Mg(w, a, b, id) = One(e)
  PROVE  w = One(e) \/ (e = id /\ w = Two(a, b))
<1>0. PICK n \in Word : n = Nil
  BY WordTypes
<1>1. CASE \E v \in Word : w = Put(v, e) /\ Mg(v, a, b, id) = n
  BY <1>0, <1>1, MergeNil DEF One
<1>2. CASE e = id /\ \E v \in Word : w = Put(v, b) /\ Mg(v, a, b, id) = Put(n, a)
  <2>1. PICK v \in Word : w = Put(v, b) /\ Mg(v, a, b, id) = Put(n, a)
    BY <1>2
  <2>2. PICK u \in Word : v = Put(u, a) /\ Mg(u, a, b, id) = n
    BY <2>1, MergeEnd
  <2>3. u = Nil
    BY <1>0, <2>2, MergeNil
  <2> QED BY <1>2, <2>1, <2>2, <2>3 DEF Two
<1>3. Mg(w, a, b, id) = Put(n, e)
  BY <1>0 DEF One
<1>4. \/ \E v \in Word : w = Put(v, e) /\ Mg(v, a, b, id) = n
      \/ e = id /\ \E v \in Word : w = Put(v, b) /\ Mg(v, a, b, id) = Put(n, a)
  BY <1>3, MergeEnd
<1> QED BY <1>1, <1>2, <1>4

LEMMA MergeOneTwo ==
  ASSUME NEW a \in Nat, NEW b \in Nat, NEW id \in Nat
  PROVE  /\ \A e \in Nat : Mg(One(e), a, b, id) = One(e)
         /\ Mg(Two(a, b), a, b, id) = One(id)
<1>1. ASSUME NEW e \in Nat PROVE Mg(One(e), a, b, id) = One(e)
  <2>1. ~\E x \in Word : Mg(Nil, a, b, id) = Put(x, a)
    BY MergeStep, WordTypes
  <2> QED BY <2>1, MergeStep, WordTypes DEF One
<1>2. Mg(Two(a, b), a, b, id) = One(id)
  BY <1>1, MergeStep, WordTypes DEF One, Two
<1> QED BY <1>1, <1>2

LEMMA TwoFacts ==
  \A a, b \in Nat : /\ One(a) \in Word /\ Two(a, b) \in Word /\ Two(a, b) = Cat(One(a), One(b))
                    /\ \A e \in Nat : One(e) # Two(a, b)
<1> TAKE a, b \in Nat
<1>1. One(a) \in Word /\ One(b) \in Word /\ Two(a, b) \in Word /\ Nil \in Word
  BY WordTypes DEF One, Two
<1>2. Cat(One(a), Put(Nil, b)) = Put(Cat(One(a), Nil), b)
  BY <1>1, CatPut
<1>3. Two(a, b) = Cat(One(a), One(b))
  BY <1>1, <1>2, CatNil DEF One, Two
<1>4. ASSUME NEW e \in Nat, Put(Nil, e) = Put(Put(Nil, a), b) PROVE FALSE
  <2>1. Nil = Put(Nil, a)
    BY <1>1, <1>4, PutInjective, WordTypes
  <2> QED BY <1>1, <2>1, WordTypes
<1> QED BY <1>1, <1>3, <1>4 DEF One, Two

-----------------------------------------------------------------------------
(* Words over the first ids. *)
Ids(n) == Seq(1 .. n)

LEMMA IdsWords ==
  ASSUME NEW n \in Nat
  PROVE  /\ Ids(n) \subseteq Word /\ Nil \in Ids(n)
         /\ \A w \in Word, e \in Nat : Put(w, e) \in Ids(n) <=> w \in Ids(n) /\ e \in 1 .. n
<1>1. ASSUME NEW w \in Ids(n) PROVE w \in Word
  BY SeqMonotonic DEF Ids, Word
<1>2. Nil \in Ids(n)
  BY EmptySeq DEF Ids, Nil
<1>3. ASSUME NEW w \in Word, NEW e \in Nat, w \in Ids(n), e \in 1 .. n PROVE Put(w, e) \in Ids(n)
  BY <1>3, AppendProperties DEF Ids, Put
<1>4. ASSUME NEW w \in Word, NEW e \in Nat, Put(w, e) \in Ids(n) PROVE w \in Ids(n) /\ e \in 1 .. n
  <2>1. PICK v \in Ids(n), f \in 1 .. n : Put(w, e) = Put(v, f)
    <3>1. Put(w, e) # <<>>
      BY WordTypes DEF Nil
    <3> QED BY <1>4, <3>1, SequenceEmptyOrAppend DEF Ids, Put
  <2>2. v \in Word /\ f \in Nat
    BY <1>1
  <2> QED BY <2>1, <2>2, PutInjective
<1> QED BY <1>1, <1>2, <1>3, <1>4

LEMMA IdsMonotonic ==
  ASSUME NEW m \in Nat, NEW n \in Nat, m <= n PROVE Ids(m) \subseteq Ids(n)
<1>1. 1 .. m \subseteq 1 .. n
  OBVIOUS
<1> QED BY <1>1, SeqMonotonic DEF Ids

LEMMA IdsCat ==
  ASSUME NEW n \in Nat
  PROVE  \A u, v \in Word : Cat(u, v) \in Ids(n) <=> u \in Ids(n) /\ v \in Ids(n)
<1> DEFINE G == {v \in Word : \A u \in Word : Cat(u, v) \in Ids(n) <=> u \in Ids(n) /\ v \in Ids(n)}
<1>1. Nil \in G
  BY CatNil, IdsWords, WordTypes
<1>2. ASSUME NEW v \in Word, NEW t \in Nat, v \in G PROVE Put(v, t) \in G
  <2>1. ASSUME NEW u \in Word
        PROVE  Cat(u, Put(v, t)) \in Ids(n) <=> u \in Ids(n) /\ Put(v, t) \in Ids(n)
    <3>1. Cat(u, Put(v, t)) = Put(Cat(u, v), t) /\ Cat(u, v) \in Word
      BY CatPut, WordTypes
    <3>2. Put(Cat(u, v), t) \in Ids(n) <=> Cat(u, v) \in Ids(n) /\ t \in 1 .. n
      BY <3>1, IdsWords
    <3>3. Put(v, t) \in Ids(n) <=> v \in Ids(n) /\ t \in 1 .. n
      BY IdsWords
    <3>4. Cat(u, v) \in Ids(n) <=> u \in Ids(n) /\ v \in Ids(n)
      BY <1>2
    <3> QED BY <3>1, <3>2, <3>3, <3>4
  <2> QED BY <2>1, WordTypes
<1>3. \A w \in Word : w \in G
  <2> HIDE DEF G
  <2> QED BY <1>1, <1>2, WordGrows
<1> QED BY <1>3

LEMMA MergeIds ==
  ASSUME NEW a \in Nat, NEW b \in Nat, NEW n \in Nat \ {0}
  PROVE  \A w \in Ids(n - 1) : Mg(w, a, b, n) \in Ids(n)
<1> DEFINE G == {w \in Word : w \in Ids(n - 1) => Mg(w, a, b, n) \in Ids(n)}
<1>1. Nil \in G
  BY MergeStep, IdsWords, WordTypes
<1>2. ASSUME NEW w \in Word, NEW t \in Nat, w \in G PROVE Put(w, t) \in G
  <2> SUFFICES ASSUME Put(w, t) \in Ids(n - 1) PROVE Mg(Put(w, t), a, b, n) \in Ids(n)
    BY WordTypes
  <2>1. n - 1 \in Nat /\ n \in Nat /\ n \in 1 .. n
    OBVIOUS
  <2>2. w \in Ids(n - 1) /\ t \in 1 .. n
    BY <2>1, IdsWords
  <2>3. Mg(w, a, b, n) \in Ids(n) /\ Mg(w, a, b, n) \in Word
    BY <1>2, <2>1, <2>2, MergeStep
  <2>4. CASE t = b /\ \E x \in Word : Mg(w, a, b, n) = Put(x, a)
    <3>1. PICK x \in Word : Mg(w, a, b, n) = Put(x, a) /\ t = b
      BY <2>4
    <3>2. Mg(Put(w, t), a, b, n) = Put(x, n)
      BY <2>1, <3>1, MergeStep
    <3> QED BY <2>1, <2>3, <3>1, <3>2, IdsWords
  <2>5. CASE Mg(Put(w, t), a, b, n) = Put(Mg(w, a, b, n), t)
    BY <2>1, <2>2, <2>3, <2>5, IdsWords
  <2> QED BY <2>1, <2>4, <2>5, MergeStep
<1>3. \A w \in Word : w \in G
  <2> HIDE DEF G
  <2> QED BY <1>1, <1>2, WordGrows
<1>4. n - 1 \in Nat
  OBVIOUS
<1> QED BY <1>3, <1>4, IdsWords

-----------------------------------------------------------------------------
(* A byte string segmented by the first merges of a history l. *)

StagesOf(l, w) ==
  CHOOSE seg : seg = [k \in 0 .. Len(l) |->
    IF k = 0 THEN w ELSE MergeAll(seg[k - 1], l[k], NumBytes + k)]
St(l, w, k) == StagesOf(l, w)[k]

Pairs   == Nat \X Nat
History == Seq(Pairs)

LEMMA SegmentIsStage == \A w : Segment(w) = St(learned, w, Len(learned))
BY DEF Segment, Segments, St, StagesOf

LEMMA HistoryTypes ==
  ASSUME NEW l \in History
  PROVE  Len(l) \in Nat /\ \A k \in 1 .. Len(l) : l[k][1] \in Nat /\ l[k][2] \in Nat /\ l[k] = <<l[k][1], l[k][2]>>
<1>1. Len(l) \in Nat
  BY LenProperties DEF History
<1>2. \A k \in 1 .. Len(l) : l[k] \in Pairs
  BY ElementOfSeq DEF History
<1> QED BY <1>1, <1>2 DEF Pairs

LEMMA StageValues ==
  ASSUME NEW l \in History, NEW w \in Word
  PROVE  /\ St(l, w, 0) = w
         /\ \A k \in 0 .. Len(l) : St(l, w, k) \in Word
         /\ \A k \in 1 .. Len(l) : St(l, w, k) = Mg(St(l, w, k - 1), l[k][1], l[k][2], NumBytes + k)
<1> DEFINE N == Len(l)
           Def(seg) == seg = [k \in 0 .. N |->
             IF k = 0 THEN w ELSE MergeAll(seg[k - 1], l[k], NumBytes + k)]
           F == [x \in (1 .. N) \X Word |-> MergeAll(x[2], l[x[1]], NumBytes + x[1])]
<1>0. NumBytes \in Nat
  BY VocabAssumption
<1>1. N \in Nat /\ \A k \in 1 .. N : l[k][1] \in Nat /\ l[k][2] \in Nat /\ l[k] = <<l[k][1], l[k][2]>>
  BY HistoryTypes
<1>2. \A k \in 1 .. N : \A x \in Word : F[<<k, x>>] = MergeAll(x, l[k], NumBytes + k)
  OBVIOUS
<1>3. ASSUME NEW k \in 1 .. N, NEW x \in Word
      PROVE  MergeAll(x, l[k], NumBytes + k) = Mg(x, l[k][1], l[k][2], NumBytes + k)
  BY <1>1 DEF Mg
<1>4. ASSUME NEW k \in 1 .. N, NEW x \in Word
      PROVE  Mg(x, l[k][1], l[k][2], NumBytes + k) \in Word
  <2>1. NumBytes + k \in Nat /\ l[k][1] \in Nat /\ l[k][2] \in Nat
    BY <1>0, <1>1
  <2> QED BY <2>1, MergeStep
<1> HIDE DEF F, N
<1>5. StaysIn(F, N, Word)
  BY <1>2, <1>3, <1>4, ZenonT(40) DEF StaysIn
<1>6. PICK f : Recursion(f, N, Word, w, F)
  BY <1>1, <1>5, RecursionExists
<1>7. f \in [0 .. N -> Word] /\ \A i \in 0 .. N : f[i] = IF i = 0 THEN w ELSE F[<<i, f[i - 1]>>]
  BY <1>6 DEF Recursion
<1>8. ASSUME NEW k \in 0 .. N
      PROVE  f[k] = IF k = 0 THEN w ELSE MergeAll(f[k - 1], l[k], NumBytes + k)
  <2>1. k # 0 => k \in 1 .. N /\ k - 1 \in 0 .. N
    BY <1>1
  <2> QED BY <1>2, <1>7, <2>1
<1>9. f = [k \in 0 .. N |-> IF k = 0 THEN w ELSE MergeAll(f[k - 1], l[k], NumBytes + k)]
  <2>1. f = [k \in 0 .. N |-> f[k]]
    BY <1>7
  <2> QED BY <1>8, <2>1
<1>10. Def(f)
  BY <1>9
<1>11. StagesOf(l, w) = CHOOSE seg : Def(seg)
  BY DEF StagesOf, N
<1> DEFINE g == StagesOf(l, w)
<1>12. Def(g)
  <2> HIDE DEF Def
  <2> QED BY <1>10, <1>11
<1> HIDE DEF g
<1>13. g = [k \in 0 .. N |-> IF k = 0 THEN w ELSE MergeAll(g[k - 1], l[k], NumBytes + k)]
  BY <1>12
<1>14. g[0] = w /\ \A k \in 1 .. N : g[k] = MergeAll(g[k - 1], l[k], NumBytes + k)
  <2>1. 0 \in 0 .. N /\ \A k \in 1 .. N : k \in 0 .. N /\ k # 0
    BY <1>1
  <2> QED BY <1>13, <2>1
<1>15. \A k \in 0 .. N : g[k] \in Word
  <2> DEFINE J == {k \in 0 .. N : g[k] \in Word}
  <2>1. 0 \in J
    <3>1. 0 \in 0 .. N /\ g[0] \in Word
      BY <1>1, <1>14
    <3> QED BY <3>1
  <2>2. ASSUME NEW k \in 0 .. N - 1, k \in J PROVE k + 1 \in J
    <3>1. k + 1 \in 1 .. N /\ k + 1 \in 0 .. N /\ (k + 1) - 1 = k
      BY <1>1
    <3>2. g[k] \in Word
      BY <2>2
    <3>3. g[k + 1] \in Word
      BY <1>3, <1>4, <1>14, <3>1, <3>2
    <3> QED BY <3>1, <3>3
  <2> HIDE DEF J
  <2>3. \A k \in 0 .. N : k \in J
    BY <1>1, <2>1, <2>2, CountUp
  <2> QED BY <2>3 DEF J
<1>16. ASSUME NEW k \in 1 .. N PROVE g[k] = Mg(g[k - 1], l[k][1], l[k][2], NumBytes + k)
  <2>1. k - 1 \in 0 .. N
    BY <1>1
  <2> QED BY <1>3, <1>14, <1>15, <2>1
<1> QED BY <1>14, <1>15, <1>16 DEF St, g, N

(* A longer history begins with the same stages. *)
LEMMA StagePrefix ==
  ASSUME NEW l \in History, NEW p \in Pairs, NEW w \in Word
  PROVE  /\ Append(l, p) \in History /\ Len(Append(l, p)) = Len(l) + 1
         /\ Append(l, p)[Len(l) + 1] = p /\ \A k \in 1 .. Len(l) : Append(l, p)[k] = l[k]
         /\ \A k \in 0 .. Len(l) : St(Append(l, p), w, k) = St(l, w, k)
         /\ St(Append(l, p), w, Len(l) + 1) = Mg(St(l, w, Len(l)), p[1], p[2], NumBytes + Len(l) + 1)
<1> DEFINE N == Len(l)
<1>0. NumBytes \in Nat
  BY VocabAssumption
<1>1. PICK h \in History : h = Append(l, p)
  BY AppendProperties DEF History
<1>2. /\ N \in Nat /\ Len(h) = N + 1 /\ h[N + 1] = p /\ \A k \in 1 .. N : h[k] = l[k]
  BY <1>1, AppendProperties, LenProperties DEF History
<1>3. /\ St(l, w, 0) = w
      /\ \A k \in 1 .. N : St(l, w, k) = Mg(St(l, w, k - 1), l[k][1], l[k][2], NumBytes + k)
  BY StageValues
<1>4. /\ St(h, w, 0) = w
      /\ \A k \in 1 .. N + 1 : St(h, w, k) = Mg(St(h, w, k - 1), h[k][1], h[k][2], NumBytes + k)
  BY <1>2, StageValues
<1> DEFINE J == {k \in 0 .. N : St(h, w, k) = St(l, w, k)}
<1> HIDE DEF N
<1>5. 0 \in J
  BY <1>2, <1>3, <1>4
<1>6. ASSUME NEW k \in 0 .. N - 1, k \in J PROVE k + 1 \in J
  <2>1. k + 1 \in 1 .. N /\ k + 1 \in 1 .. N + 1 /\ k + 1 \in 0 .. N /\ (k + 1) - 1 = k
    BY <1>2
  <2>2. St(h, w, k + 1) = Mg(St(h, w, k), l[k + 1][1], l[k + 1][2], NumBytes + (k + 1))
    BY <1>2, <1>4, <2>1
  <2>3. St(l, w, k + 1) = Mg(St(l, w, k), l[k + 1][1], l[k + 1][2], NumBytes + (k + 1))
    BY <1>3, <2>1
  <2> QED BY <1>6, <2>1, <2>2, <2>3
<1>7. \A k \in 0 .. N : k \in J
  <2> HIDE DEF J
  <2> QED BY <1>2, <1>5, <1>6, CountUp
<1>8. St(h, w, N + 1) = Mg(St(l, w, N), p[1], p[2], NumBytes + N + 1)
  <2>1. N + 1 \in 1 .. N + 1 /\ (N + 1) - 1 = N /\ N \in 0 .. N /\ NumBytes + (N + 1) = NumBytes + N + 1
    BY <1>0, <1>2
  <2>2. St(h, w, N + 1) = Mg(St(h, w, N), p[1], p[2], NumBytes + (N + 1))
    BY <1>2, <1>4, <2>1
  <2> QED BY <1>7, <2>1, <2>2
<1> QED BY <1>1, <1>2, <1>7, <1>8 DEF N

(* A segmented word cut anywhere is the segmentation of a word cut         *)
(* somewhere.                                                              *)
LEMMA StageSplit ==
  ASSUME NEW l \in History
  PROVE  \A k \in 0 .. Len(l) : \A w, u, v \in Word : St(l, w, k) = Cat(u, v) =>
           \E c, d \in Word : w = Cat(c, d) /\ St(l, c, k) = u /\ St(l, d, k) = v
<1> DEFINE N == Len(l)
           Cuts(k) == \A w, u, v \in Word : St(l, w, k) = Cat(u, v) =>
                        \E c, d \in Word : w = Cat(c, d) /\ St(l, c, k) = u /\ St(l, d, k) = v
           J == {k \in 0 .. N : Cuts(k)}
<1>0. NumBytes \in Nat
  BY VocabAssumption
<1>1. N \in Nat /\ \A k \in 1 .. N : l[k][1] \in Nat /\ l[k][2] \in Nat
  BY HistoryTypes
<1>2. \A w \in Word : /\ St(l, w, 0) = w
                      /\ \A k \in 0 .. N : St(l, w, k) \in Word
                      /\ \A k \in 1 .. N : St(l, w, k) = Mg(St(l, w, k - 1), l[k][1], l[k][2], NumBytes + k)
  BY StageValues
<1> HIDE DEF N
<1>3. 0 \in J
  <2>1. Cuts(0)
    BY <1>2
  <2> HIDE DEF Cuts
  <2> QED BY <1>1, <2>1
<1>4. ASSUME NEW k \in 0 .. N - 1, k \in J PROVE k + 1 \in J
  <2>0. Cuts(k)
    BY <1>4
  <2>1. k + 1 \in 1 .. N /\ k \in 0 .. N /\ k + 1 \in 0 .. N /\ (k + 1) - 1 = k
    BY <1>1
  <2>2. PICK a \in Nat, b \in Nat, id \in Nat : a = l[k + 1][1] /\ b = l[k + 1][2] /\ id = NumBytes + (k + 1)
    BY <1>0, <1>1, <2>1
  <2>3. \A w \in Word : St(l, w, k + 1) = Mg(St(l, w, k), a, b, id) /\ St(l, w, k) \in Word
    BY <1>2, <2>1, <2>2
  <2>4. ASSUME NEW w \in Word, NEW u \in Word, NEW v \in Word, St(l, w, k + 1) = Cat(u, v)
        PROVE  \E c, d \in Word : w = Cat(c, d) /\ St(l, c, k + 1) = u /\ St(l, d, k + 1) = v
    <3> HIDE DEF J
    <3>1. PICK x, y \in Word : St(l, w, k) = Cat(x, y) /\ Mg(x, a, b, id) = u /\ Mg(y, a, b, id) = v
      BY <2>3, <2>4, MergeSplit
    <3>2. PICK c, d \in Word : w = Cat(c, d) /\ St(l, c, k) = x /\ St(l, d, k) = y
      BY <2>0, <3>1
    <3> QED BY <2>3, <3>1, <3>2
  <2>5. Cuts(k + 1)
    BY <2>4
  <2> HIDE DEF Cuts
  <2> QED BY <2>1, <2>5
<1>5. \A k \in 0 .. N : k \in J
  <2> HIDE DEF J
  <2> QED BY <1>1, <1>3, <1>4, CountUp
<1> QED BY <1>5 DEF N

-----------------------------------------------------------------------------
(* The vocabulary m with its history l: the bytes of a token are those of  *)
(* the two it was learned from, and the merges learned before it segment   *)
(* them into these two.                                                    *)

B(m, id) == IF id <= NumBytes THEN <<id>> ELSE m[id - NumBytes]

VInv(m, l) ==
  /\ l \in History /\ Len(m) = Len(l) /\ m \in Seq(Ids(NumBytes))
  /\ \A k \in 1 .. Len(l) :
       /\ l[k][1] \in 1 .. NumBytes + k - 1 /\ l[k][2] \in 1 .. NumBytes + k - 1
       /\ m[k] = Cat(B(m, l[k][1]), B(m, l[k][2]))
       /\ St(l, m[k], k - 1) = Two(l[k][1], l[k][2])

LEMMA NumBytesNat == NumBytes \in Nat
BY VocabAssumption

LEMMA TokenBytes ==
  ASSUME NEW m, NEW l, VInv(m, l)
  PROVE  /\ Len(l) \in Nat
         /\ \A id \in 1 .. NumBytes : B(m, id) = One(id)
         /\ \A id \in 1 .. NumBytes + Len(l) : B(m, id) \in Ids(NumBytes) /\ B(m, id) \in Word
         /\ \A k \in 1 .. Len(l) : B(m, NumBytes + k) = m[k] /\ m[k] \in Ids(NumBytes) /\ m[k] \in Word
<1>0. NumBytes \in Nat
  BY NumBytesNat
<1>1. Len(l) \in Nat
  BY HistoryTypes DEF VInv
<1>2. ASSUME NEW k \in 1 .. Len(l)
      PROVE  m[k] \in Ids(NumBytes) /\ m[k] \in Word /\ B(m, NumBytes + k) = m[k]
  <2>1. m[k] \in Ids(NumBytes)
    BY ElementOfSeq DEF VInv
  <2>2. ~(NumBytes + k <= NumBytes) /\ (NumBytes + k) - NumBytes = k
    BY <1>0
  <2> QED BY <1>0, <2>1, <2>2, IdsWords DEF B
<1>3. ASSUME NEW id \in 1 .. NumBytes PROVE B(m, id) = One(id) /\ One(id) \in Ids(NumBytes)
  <2>1. id \in Nat /\ id <= NumBytes
    BY <1>0
  <2>2. B(m, id) = One(id)
    <3>1. B(m, id) = <<id>>
      BY <2>1 DEF B
    <3>2. Put(Nil, id) = <<id>>
      BY <2>1, PutIsCat, WordTypes
    <3> QED BY <3>1, <3>2 DEF One
  <2>3. One(id) \in Ids(NumBytes)
    BY <1>0, <2>1, IdsWords, WordTypes DEF One
  <2> QED BY <2>2, <2>3
<1>4. ASSUME NEW id \in 1 .. NumBytes + Len(l) PROVE B(m, id) \in Ids(NumBytes) /\ B(m, id) \in Word
  <2>1. CASE id \in 1 .. NumBytes
    BY <1>0, <1>3, <2>1, IdsWords
  <2>2. CASE id \notin 1 .. NumBytes
    <3>1. id - NumBytes \in 1 .. Len(l) /\ id = NumBytes + (id - NumBytes)
      BY <1>0, <1>1, <2>2
    <3> QED BY <1>2, <3>1
  <2> QED BY <2>1, <2>2
<1> QED BY <1>1, <1>2, <1>3, <1>4

LEMMA StageIds ==
  ASSUME NEW m, NEW l, VInv(m, l), NEW w \in Ids(NumBytes)
  PROVE  w \in Word /\ \A k \in 0 .. Len(l) : St(l, w, k) \in Ids(NumBytes + k) /\ St(l, w, k) \in Word
<1>0. NumBytes \in Nat /\ Len(l) \in Nat /\ l \in History
  BY NumBytesNat, TokenBytes DEF VInv
<1>1. w \in Word
  BY <1>0, IdsWords
<1>2. /\ St(l, w, 0) = w
      /\ \A k \in 0 .. Len(l) : St(l, w, k) \in Word
      /\ \A k \in 1 .. Len(l) : St(l, w, k) = Mg(St(l, w, k - 1), l[k][1], l[k][2], NumBytes + k)
  BY <1>0, <1>1, StageValues
<1> DEFINE J == {k \in 0 .. Len(l) : St(l, w, k) \in Ids(NumBytes + k)}
<1>3. 0 \in J
  <2>1. 0 \in 0 .. Len(l) /\ NumBytes + 0 = NumBytes
    BY <1>0
  <2> QED BY <1>2, <2>1
<1>4. ASSUME NEW k \in 0 .. Len(l) - 1, k \in J PROVE k + 1 \in J
  <2>1. k + 1 \in 1 .. Len(l) /\ k + 1 \in 0 .. Len(l) /\ (k + 1) - 1 = k
    BY <1>0
  <2>2. PICK n \in Nat \ {0} : n = NumBytes + (k + 1) /\ n - 1 = NumBytes + k
    BY <1>0
  <2>3. PICK a \in Nat, b \in Nat : a = l[k + 1][1] /\ b = l[k + 1][2]
    BY <1>0, <2>1, HistoryTypes
  <2>4. St(l, w, k) \in Ids(n - 1)
    BY <1>4, <2>2
  <2>5. Mg(St(l, w, k), a, b, n) \in Ids(n)
    BY <2>4, MergeIds
  <2> QED BY <1>2, <2>1, <2>2, <2>3, <2>5
<1>5. \A k \in 0 .. Len(l) : k \in J
  <2> HIDE DEF J
  <2> QED BY <1>0, <1>3, <1>4, CountUp
<1> QED BY <1>1, <1>2, <1>5

LEMMA StageOne ==
  ASSUME NEW l \in History, NEW j \in 0 .. Len(l), NEW w \in Word, NEW e \in Nat,
         St(l, w, j) = One(e)
  PROVE  \A k \in j .. Len(l) : St(l, w, k) = One(e)
<1>0. NumBytes \in Nat /\ Len(l) \in Nat
  BY NumBytesNat, HistoryTypes
<1>2. \A k \in 1 .. Len(l) : St(l, w, k) = Mg(St(l, w, k - 1), l[k][1], l[k][2], NumBytes + k)
  BY StageValues
<1> DEFINE J == {k \in 0 .. Len(l) : k >= j => St(l, w, k) = One(e)}
<1>3. 0 \in J
  BY <1>0
<1>4. ASSUME NEW k \in 0 .. Len(l) - 1, k \in J PROVE k + 1 \in J
  <2>1. k + 1 \in 1 .. Len(l) /\ k + 1 \in 0 .. Len(l) /\ (k + 1) - 1 = k
    BY <1>0
  <2>2. CASE k >= j
    <3>1. PICK a \in Nat, b \in Nat, id \in Nat : a = l[k + 1][1] /\ b = l[k + 1][2] /\ id = NumBytes + (k + 1)
      BY <1>0, <2>1, HistoryTypes
    <3>2. St(l, w, k + 1) = Mg(One(e), a, b, id)
      BY <1>2, <1>4, <2>1, <2>2, <3>1
    <3> QED BY <2>1, <3>2, MergeOneTwo
  <2>3. CASE k + 1 = j
    BY <2>1, <2>3
  <2>4. CASE k + 1 < j
    BY <1>0, <2>1, <2>4
  <2> QED BY <1>0, <2>2, <2>3, <2>4
<1>5. \A k \in 0 .. Len(l) : k \in J
  <2> HIDE DEF J
  <2> QED BY <1>0, <1>3, <1>4, CountUp
<1> QED BY <1>0, <1>5

(* Once a token is learned, its bytes are segmented into the token.        *)
LEMMA TokenWhole ==
  ASSUME NEW m, NEW l, VInv(m, l), NEW k \in 0 .. Len(l), NEW id \in 1 .. NumBytes + k
  PROVE  St(l, B(m, id), k) = One(id)
<1>0. NumBytes \in Nat /\ Len(l) \in Nat /\ l \in History
  BY NumBytesNat, TokenBytes DEF VInv
<1>1. B(m, id) \in Word /\ id \in Nat
  <2>1. id \in 1 .. NumBytes + Len(l)
    BY <1>0
  <2> QED BY <2>1, TokenBytes
<1>2. CASE id \in 1 .. NumBytes
  <2>1. 0 \in 0 .. Len(l) /\ k \in 0 .. Len(l) /\ St(l, B(m, id), 0) = One(id)
    BY <1>0, <1>1, <1>2, TokenBytes, StageValues
  <2> QED BY <1>0, <1>1, <2>1, StageOne
<1>3. CASE id \notin 1 .. NumBytes
  <2>1. PICK j \in 1 .. Len(l) : id = NumBytes + j /\ j <= k
    <3>1. id - NumBytes \in 1 .. Len(l) /\ id = NumBytes + (id - NumBytes) /\ id - NumBytes <= k
      BY <1>0, <1>3
    <3> QED BY <3>1
  <2>2. PICK a \in Nat, b \in Nat : a = l[j][1] /\ b = l[j][2]
    BY <1>0, HistoryTypes
  <2>3. St(l, B(m, id), j - 1) = Two(a, b)
    BY <2>1, <2>2, TokenBytes DEF VInv
  <2>4. St(l, B(m, id), j) = Mg(Two(a, b), a, b, id)
    BY <1>0, <1>1, <2>1, <2>2, <2>3, StageValues
  <2>5. St(l, B(m, id), j) = One(id)
    BY <1>1, <2>4, MergeOneTwo
  <2>6. j \in 0 .. Len(l) /\ k \in j .. Len(l)
    BY <1>0, <2>1
  <2> QED BY <1>0, <1>1, <2>5, <2>6, StageOne
<1> QED BY <1>2, <1>3

(* Only the bytes of a token are segmented into the token. *)
LEMMA StageToOne ==
  ASSUME NEW m, NEW l, VInv(m, l)
  PROVE  \A k \in 0 .. Len(l) : \A w \in Ids(NumBytes), e \in Nat :
            St(l, w, k) = One(e) => e \in 1 .. NumBytes + k /\ w = B(m, e)
<1>0. NumBytes \in Nat /\ Len(l) \in Nat /\ l \in History
  BY NumBytesNat, TokenBytes DEF VInv
<1> DEFINE Back(k) == \A w \in Ids(NumBytes), e \in Nat :
                        St(l, w, k) = One(e) => e \in 1 .. NumBytes + k /\ w = B(m, e)
           J == {k \in 0 .. Len(l) : Back(k)}
<1>1. ASSUME NEW k \in 0 .. Len(l), NEW w \in Ids(NumBytes), NEW e \in Nat, St(l, w, k) = One(e)
      PROVE  e \in 1 .. NumBytes + k
  <2>1. Put(Nil, e) \in Ids(NumBytes + k)
    BY <1>1, StageIds DEF One
  <2>2. NumBytes + k \in Nat /\ Nil \in Word
    BY <1>0, WordTypes
  <2> QED BY <2>1, <2>2, IdsWords
<1>2. 0 \in J
  <2>1. ASSUME NEW w \in Ids(NumBytes), NEW e \in Nat, St(l, w, 0) = One(e)
        PROVE  e \in 1 .. NumBytes + 0 /\ w = B(m, e)
    <3>1. 0 \in 0 .. Len(l) /\ NumBytes + 0 = NumBytes
      BY <1>0
    <3>2. e \in 1 .. NumBytes
      BY <1>1, <2>1, <3>1
    <3>3. w = One(e)
      BY <1>0, <2>1, StageIds, StageValues
    <3> QED BY <3>1, <3>2, <3>3, TokenBytes
  <2>2. Back(0)
    BY <2>1
  <2> HIDE DEF Back
  <2> QED BY <1>0, <2>2
<1>3. ASSUME NEW k \in 0 .. Len(l) - 1, k \in J PROVE k + 1 \in J
  <2>0. Back(k)
    BY <1>3
  <2> HIDE DEF J
  <2>1. k + 1 \in 1 .. Len(l) /\ k + 1 \in 0 .. Len(l) /\ (k + 1) - 1 = k /\ k \in 0 .. Len(l)
    BY <1>0
  <2>2. PICK a \in Nat, b \in Nat, id \in Nat :
          a = l[k + 1][1] /\ b = l[k + 1][2] /\ id = NumBytes + (k + 1)
    BY <1>0, <2>1, HistoryTypes
  <2>3. a \in 1 .. NumBytes + k /\ b \in 1 .. NumBytes + k /\ m[k + 1] = Cat(B(m, a), B(m, b))
    BY <1>0, <2>1, <2>2 DEF VInv
  <2>4. a # id /\ B(m, id) = m[k + 1]
    BY <1>0, <2>1, <2>2, <2>3, TokenBytes
  <2>5. ASSUME NEW w \in Ids(NumBytes), NEW e \in Nat, St(l, w, k + 1) = One(e)
        PROVE  w = B(m, e)
    <3>1. w \in Word /\ St(l, w, k) \in Word
      BY <2>1, StageIds
    <3>2. Mg(St(l, w, k), a, b, id) = One(e)
      BY <1>0, <2>1, <2>2, <2>5, <3>1, StageValues
    <3>3. St(l, w, k) = One(e) \/ (e = id /\ St(l, w, k) = Two(a, b))
      BY <2>4, <3>1, <3>2, MergeToOne
    <3>4. CASE St(l, w, k) = One(e)
      BY <2>0, <3>4
    <3>5. CASE e = id /\ St(l, w, k) = Two(a, b)
      <4>1. St(l, w, k) = Cat(One(a), One(b)) /\ One(a) \in Word /\ One(b) \in Word
        BY <3>5, TwoFacts
      <4>2. PICK c, d \in Word : w = Cat(c, d) /\ St(l, c, k) = One(a) /\ St(l, d, k) = One(b)
        BY <1>0, <2>1, <3>1, <4>1, StageSplit
      <4>3. c \in Ids(NumBytes) /\ d \in Ids(NumBytes)
        BY <1>0, <4>2, IdsCat
      <4>4. c = B(m, a) /\ d = B(m, b)
        BY <2>0, <4>2, <4>3
      <4> QED BY <2>3, <2>4, <3>5, <4>2, <4>4
    <3> QED BY <3>3, <3>4, <3>5
  <2>6. Back(k + 1)
    BY <1>1, <2>1, <2>5
  <2> HIDE DEF Back
  <2> QED BY <2>1, <2>6 DEF J
<1>4. \A k \in 0 .. Len(l) : k \in J
  <2> HIDE DEF J
  <2> QED BY <1>0, <1>2, <1>3, CountUp
<1> QED BY <1>4

(* No two tokens stand for the same bytes.                                 *)
LEMMA TokensDistinct ==
  ASSUME NEW m, NEW l, VInv(m, l), NEW i \in 1 .. NumBytes + Len(l), NEW j \in 1 .. NumBytes + Len(l),
         B(m, i) = B(m, j)
  PROVE  i = j
<1>0. NumBytes \in Nat /\ Len(l) \in Nat
  BY NumBytesNat, TokenBytes
<1>1. Len(l) \in 0 .. Len(l) /\ i \in Nat /\ j \in Nat /\ Nil \in Word
  BY <1>0, WordTypes
<1>2. One(i) = One(j)
  BY <1>1, TokenWhole
<1> QED BY <1>1, <1>2, PutInjective DEF One

(* Two tokens that meet in a segmented word segment their bytes.           *)
LEMMA StageToTwo ==
  ASSUME NEW m, NEW l, VInv(m, l), NEW k \in 0 .. Len(l), NEW w \in Ids(NumBytes),
         NEW p \in Nat, NEW q \in Nat, NEW c \in Word, NEW d \in Word,
         St(l, w, k) = Cat(Put(Put(c, p), q), d)
  PROVE  /\ p \in 1 .. NumBytes + k /\ q \in 1 .. NumBytes + k
         /\ St(l, Cat(B(m, p), B(m, q)), k) = Two(p, q)
<1>0. NumBytes \in Nat /\ Len(l) \in Nat /\ l \in History /\ w \in Word
  BY NumBytesNat, TokenBytes, StageIds DEF VInv
<1>1. One(p) \in Word /\ One(q) \in Word /\ Two(p, q) \in Word /\ Two(p, q) = Cat(One(p), One(q))
  BY TwoFacts
<1>2. Put(Put(c, p), q) = Cat(c, Two(p, q))
  <2>1. Put(c, p) = Cat(c, One(p))
    <3>1. Cat(c, Put(Nil, p)) = Put(Cat(c, Nil), p)
      BY CatPut, WordTypes
    <3> QED BY <3>1, CatNil DEF One
  <2>2. Cat(c, Put(One(p), q)) = Put(Cat(c, One(p)), q)
    BY <1>1, CatPut
  <2> QED BY <2>1, <2>2 DEF Two, One
<1>3. PICK x, y \in Word : w = Cat(x, y) /\ St(l, x, k) = Cat(c, Two(p, q))
  <2>1. PICK z \in Word : z = Cat(c, Two(p, q))
    BY <1>1, WordTypes
  <2>2. St(l, w, k) = Cat(z, d)
    BY <1>2, <2>1
  <2> QED BY <1>0, <2>1, <2>2, StageSplit
<1>4. PICK u, v \in Word : x = Cat(u, v) /\ St(l, v, k) = Two(p, q)
  BY <1>0, <1>1, <1>3, StageSplit
<1>5. PICK f, g \in Word : v = Cat(f, g) /\ St(l, f, k) = One(p) /\ St(l, g, k) = One(q)
  BY <1>0, <1>1, <1>4, StageSplit
<1>6. f \in Ids(NumBytes) /\ g \in Ids(NumBytes)
  BY <1>0, <1>3, <1>4, <1>5, IdsCat
<1>7. p \in 1 .. NumBytes + k /\ f = B(m, p) /\ q \in 1 .. NumBytes + k /\ g = B(m, q)
  BY <1>5, <1>6, StageToOne
<1> QED BY <1>4, <1>5, <1>7

(* A pair that meets in a segmented word makes a token.                    *)
LEMMA TokenLearned ==
  ASSUME NEW m, NEW l, VInv(m, l), NEW w \in Ids(NumBytes),
         NEW p \in Nat, NEW q \in Nat, HasPair(St(l, w, Len(l)), p, q)
  PROVE  VInv(Append(m, Cat(B(m, p), B(m, q))), Append(l, <<p, q>>))
<1> DEFINE N == Len(l)
<1>0. NumBytes \in Nat /\ N \in Nat /\ l \in History /\ m \in Seq(Ids(NumBytes)) /\ Len(m) = N
  BY NumBytesNat, TokenBytes DEF VInv
<1>1. PICK c, d \in Word : St(l, w, N) = Cat(Put(Put(c, p), q), d)
  BY DEF HasPair
<1>2. /\ p \in 1 .. NumBytes + N /\ q \in 1 .. NumBytes + N
      /\ St(l, Cat(B(m, p), B(m, q)), N) = Two(p, q)
  <2>1. N \in 0 .. N
    BY <1>0
  <2> QED BY <1>1, <2>1, StageToTwo
<1>3. PICK b \in Ids(NumBytes) : b = Cat(B(m, p), B(m, q)) /\ b \in Word
  <2>1. B(m, p) \in Ids(NumBytes) /\ B(m, q) \in Ids(NumBytes) /\ B(m, p) \in Word /\ B(m, q) \in Word
    BY <1>2, TokenBytes
  <2>2. Cat(B(m, p), B(m, q)) \in Ids(NumBytes)
    BY <1>0, <2>1, IdsCat
  <2> QED BY <1>0, <2>2, IdsWords
<1>4. PICK h \in Pairs : h = <<p, q>> /\ h[1] = p /\ h[2] = q
  <2>1. <<p, q>> \in Pairs
    BY DEF Pairs
  <2> QED BY <2>1
<1>5. PICK n \in Seq(Ids(NumBytes)) :
        /\ n = Append(m, b) /\ Len(n) = N + 1 /\ n[N + 1] = b /\ \A k \in 1 .. N : n[k] = m[k]
  <2>1. /\ Append(m, b) \in Seq(Ids(NumBytes)) /\ Len(Append(m, b)) = N + 1 /\ Append(m, b)[N + 1] = b
        /\ \A k \in 1 .. N : Append(m, b)[k] = m[k]
    BY <1>0, AppendProperties
  <2> HIDE DEF N
  <2> QED BY <2>1
<1>6. PICK L \in History :
        /\ L = Append(l, h) /\ Len(L) = N + 1 /\ L[N + 1] = h /\ \A k \in 1 .. N : L[k] = l[k]
        /\ \A x \in Word, k \in 0 .. N : St(L, x, k) = St(l, x, k)
  <2>1. /\ Append(l, h) \in History /\ Len(Append(l, h)) = N + 1 /\ Append(l, h)[N + 1] = h
        /\ \A k \in 1 .. N : Append(l, h)[k] = l[k]
        /\ \A x \in Word, k \in 0 .. N : St(Append(l, h), x, k) = St(l, x, k)
    BY <1>0, WordTypes, StagePrefix
  <2> QED BY <2>1
<1>7. \A id \in 1 .. NumBytes + N : B(n, id) = B(m, id)
  <2>1. ASSUME NEW id \in 1 .. NumBytes + N, ~(id <= NumBytes) PROVE n[id - NumBytes] = m[id - NumBytes]
    <3>1. id - NumBytes \in 1 .. N
      BY <1>0, <2>1
    <3> QED BY <1>5, <3>1
  <2> QED BY <2>1 DEF B
<1>8. ASSUME NEW k \in 1 .. N + 1
      PROVE  /\ L[k][1] \in 1 .. NumBytes + k - 1 /\ L[k][2] \in 1 .. NumBytes + k - 1
             /\ n[k] = Cat(B(n, L[k][1]), B(n, L[k][2]))
             /\ St(L, n[k], k - 1) = Two(L[k][1], L[k][2])
  <2>1. CASE k = N + 1
    <3>1. L[k][1] = p /\ L[k][2] = q /\ n[k] = b /\ k - 1 = N /\ NumBytes + k - 1 = NumBytes + N /\ N \in 0 .. N
      BY <1>0, <1>4, <1>5, <1>6, <2>1
    <3> QED BY <1>2, <1>3, <1>6, <1>7, <3>1
  <2>2. CASE k # N + 1
    <3>1. k \in 1 .. N /\ k - 1 \in 0 .. N
      BY <1>0, <2>2
    <3>2. /\ l[k][1] \in 1 .. NumBytes + k - 1 /\ l[k][2] \in 1 .. NumBytes + k - 1
          /\ m[k] = Cat(B(m, l[k][1]), B(m, l[k][2]))
          /\ St(l, m[k], k - 1) = Two(l[k][1], l[k][2]) /\ m[k] \in Word
      BY <3>1, TokenBytes DEF VInv
    <3>3. l[k][1] \in 1 .. NumBytes + N /\ l[k][2] \in 1 .. NumBytes + N
      <4>1. NumBytes + k - 1 <= NumBytes + N
        BY <1>0, <3>1, NumBytesNat
      <4> QED BY <1>0, <3>1, <3>2, <4>1, NumBytesNat, SMTT(40)
    <3>4. L[k] = l[k] /\ n[k] = m[k]
      BY <1>5, <1>6, <3>1
    <3> QED BY <1>6, <1>7, <3>1, <3>2, <3>3, <3>4
  <2> QED BY <2>1, <2>2
<1>9. VInv(n, L)
  BY <1>5, <1>6, <1>8 DEF VInv
<1> QED BY <1>3, <1>4, <1>5, <1>6, <1>9

-----------------------------------------------------------------------------
(* Words, place by place. *)

LEMMA WordLen ==
  Len(Nil) = 0 /\ \A w \in Word : Len(w) \in Nat /\ \A i \in 1 .. Len(w) : w[i] \in Nat
<1>1. Len(Nil) = 0
  BY EmptySeq DEF Nil
<1>2. \A w \in Word : Len(w) \in Nat /\ \A i \in 1 .. Len(w) : w[i] \in Nat
  BY LenProperties, ElementOfSeq DEF Word
<1> QED BY <1>1, <1>2

LEMMA PutElements ==
  ASSUME NEW w \in Word, NEW e \in Nat, NEW c, c = Put(w, e)
  PROVE  /\ Len(c) = Len(w) + 1 /\ c[Len(w) + 1] = e
         /\ \A i \in 1 .. Len(w) : c[i] = w[i]
BY AppendProperties DEF Word, Put

LEMMA CatElements ==
  ASSUME NEW u \in Word, NEW v \in Word, NEW c, c = Cat(u, v)
  PROVE  /\ Len(c) = Len(u) + Len(v)
         /\ \A i \in 1 .. Len(u) : c[i] = u[i]
         /\ \A i \in 1 .. Len(v) : c[Len(u) + i] = v[i]
<1>0. Len(u) \in Nat /\ Len(v) \in Nat
  BY WordLen
<1>1. /\ Len(u \o v) = Len(u) + Len(v)
      /\ \A i \in 1 .. Len(u) + Len(v) : (u \o v)[i] = IF i <= Len(u) THEN u[i] ELSE v[i - Len(u)]
  BY ConcatProperties DEF Word
<1>2. /\ Len(c) = Len(u) + Len(v)
      /\ \A i \in 1 .. Len(u) + Len(v) : c[i] = IF i <= Len(u) THEN u[i] ELSE v[i - Len(u)]
  BY <1>1 DEF Cat
<1>3. ASSUME NEW i \in 1 .. Len(u) PROVE c[i] = u[i]
  <2>1. i \in 1 .. Len(u) + Len(v) /\ i <= Len(u)
    BY <1>0
  <2> QED BY <1>2, <2>1
<1>4. ASSUME NEW i \in 1 .. Len(v) PROVE c[Len(u) + i] = v[i]
  <2>1. Len(u) + i \in 1 .. Len(u) + Len(v) /\ ~(Len(u) + i <= Len(u)) /\ (Len(u) + i) - Len(u) = i
    BY <1>0
  <2> QED BY <1>2, <2>1
<1> QED BY <1>2, <1>3, <1>4

LEMMA WordEqual ==
  \A u, v \in Word : Len(u) = Len(v) /\ (\A i \in 1 .. Len(u) : u[i] = v[i]) => u = v
BY SeqEqual DEF Word

LEMMA WordFunction ==
  ASSUME NEW n \in Nat, NEW f, \A i \in 1 .. n : f[i] \in Nat
  PROVE  [i \in 1 .. n |-> f[i]] \in Word /\ Len([i \in 1 .. n |-> f[i]]) = n
<1>1. [i \in 1 .. n |-> f[i]] \in [1 .. n -> Nat]
  OBVIOUS
<1>2. [i \in 1 .. n |-> f[i]] \in Seq(Nat)
  BY <1>1, SeqDef
<1> QED BY <1>2 DEF Word

LEMMA CatOf ==
  ASSUME NEW u \in Word, NEW v \in Word
  PROVE  /\ Len(Cat(u, v)) = Len(u) + Len(v)
         /\ \A i \in 1 .. Len(u) : Cat(u, v)[i] = u[i]
         /\ \A i \in 1 .. Len(v) : Cat(u, v)[Len(u) + i] = v[i]
<1> DEFINE c == Cat(u, v)
<1> HIDE DEF c
<1>1. /\ Len(c) = Len(u) + Len(v)
      /\ \A i \in 1 .. Len(u) : c[i] = u[i]
      /\ \A i \in 1 .. Len(v) : c[Len(u) + i] = v[i]
  BY CatElements DEF c
<1> QED BY <1>1 DEF c

LEMMA CutAt ==
  ASSUME NEW w \in Word, NEW k \in 0 .. Len(w)
  PROVE  \E c, d \in Word : w = Cat(c, d) /\ Len(c) = k
<1>0. Len(w) \in Nat /\ w \in Seq(Nat) /\ \A i \in 1 .. Len(w) : w[i] \in Nat
  BY WordLen DEF Word
<1>1. SubSeq(w, 1, k) \o SubSeq(w, k + 1, Len(w)) = SubSeq(w, 1, Len(w))
  <2>1. 1 \in 1 .. Len(w) + 1 /\ k \in 1 - 1 .. Len(w) /\ Len(w) \in k .. Len(w)
    BY <1>0
  <2> QED BY <1>0, <2>1, ConcatAdjacentSubSeq
<1>2. SubSeq(w, 1, Len(w)) = w
  BY <1>0, SubSeqFull
<1>3. SubSeq(w, 1, k) \in Seq(Nat) /\ Len(SubSeq(w, 1, k)) = k
  <2>1. 1 \in Int /\ k \in Int /\ (\A i \in 1 .. k : w[i] \in Nat) /\ (IF 1 <= k THEN k - 1 + 1 ELSE 0) = k
    BY <1>0
  <2> QED BY <2>1, SubSeqProperties
<1>4. SubSeq(w, k + 1, Len(w)) \in Seq(Nat)
  <2>1. k + 1 \in Int /\ Len(w) \in Int /\ (\A i \in k + 1 .. Len(w) : w[i] \in Nat)
    BY <1>0
  <2> QED BY <2>1, SubSeqProperties
<1> QED BY <1>1, <1>2, <1>3, <1>4, Zenon DEF Word, Cat

(* The same of a word that is named. *)
IsCatOf(w, u, v) ==
  /\ Len(w) = Len(u) + Len(v)
  /\ \A i \in 1 .. Len(u) : w[i] = u[i]
  /\ \A i \in 1 .. Len(v) : w[Len(u) + i] = v[i]

LEMMA CatNamed ==
  ASSUME NEW u \in Word, NEW v \in Word, NEW w, w = Cat(u, v)
  PROVE  IsCatOf(w, u, v)
BY CatOf DEF IsCatOf

LEMMA CutAtPair ==
  ASSUME NEW w \in Word, NEW k \in 1 .. Len(w) - 1
  PROVE  \E c, d \in Word :
           /\ w = Cat(Put(Put(c, w[k]), w[k + 1]), d)
           /\ Len(c) = k - 1 /\ Len(d) = Len(w) - (k + 1)
           /\ \A i \in 1 .. Len(c) : c[i] = w[i]
           /\ \A i \in 1 .. Len(d) : d[i] = w[k + 1 + i]
<1>0. Len(w) \in Nat /\ k + 1 \in 0 .. Len(w) /\ k \in Nat
  BY WordLen
<1>1. PICK c0 \in Word, d \in Word : w = Cat(c0, d) /\ Len(c0) = k + 1
  BY <1>0, CutAt
<1>2. /\ Len(w) = Len(c0) + Len(d) /\ Len(d) \in Nat
      /\ \A i \in 1 .. Len(c0) : w[i] = c0[i]
      /\ \A i \in 1 .. Len(d) : w[Len(c0) + i] = d[i]
  <2>1. IsCatOf(w, c0, d)
    BY <1>1, CatNamed
  <2> QED BY <2>1, WordLen DEF IsCatOf
<1>3. PICK c1 \in Word, e \in Nat : c0 = Put(c1, e)
  <2>1. c0 # Nil
    BY <1>0, <1>1, WordLen
  <2> QED BY <2>1, PutCases
<1>4. Len(c0) = Len(c1) + 1 /\ Len(c1) \in Nat /\ c0[Len(c1) + 1] = e /\ \A i \in 1 .. Len(c1) : c0[i] = c1[i]
  BY <1>3, PutElements, WordLen
<1>5. Len(c1) = k
  BY <1>0, <1>1, <1>4
<1>6. PICK c \in Word, f \in Nat : c1 = Put(c, f)
  <2>1. c1 # Nil
    BY <1>0, <1>5, WordLen
  <2> QED BY <2>1, PutCases
<1>7. Len(c1) = Len(c) + 1 /\ Len(c) \in Nat /\ c1[Len(c) + 1] = f /\ \A i \in 1 .. Len(c) : c1[i] = c[i]
  BY <1>6, PutElements, WordLen
<1>8. Len(c) = k - 1 /\ c1[k] = f
  BY <1>0, <1>5, <1>7
<1>9. w[k + 1] = e
  <2>1. k + 1 \in 1 .. Len(c0)
    BY <1>0, <1>1
  <2> QED BY <1>2, <1>4, <1>5, <2>1
<1>10. w[k] = f
  <2>1. k \in 1 .. Len(c0) /\ k \in 1 .. Len(c1)
    BY <1>0, <1>1, <1>5
  <2> QED BY <1>2, <1>4, <1>8, <2>1
<1>11. \A i \in 1 .. Len(c) : c[i] = w[i]
  <2>1. \A i \in 1 .. Len(c) : i \in 1 .. Len(c0) /\ i \in 1 .. Len(c1)
    BY <1>4, <1>7
  <2> QED BY <1>2, <1>4, <1>7, <2>1
<1>12. Len(d) = Len(w) - (k + 1)
  BY <1>0, <1>1, <1>2
<1>13. \A i \in 1 .. Len(d) : d[i] = w[k + 1 + i]
  BY <1>1, <1>2
<1> QED BY <1>1, <1>3, <1>6, <1>8, <1>9, <1>10, <1>11, <1>12, <1>13

LEMMA PairIndex ==
  ASSUME NEW w \in Word, NEW a \in Nat, NEW b \in Nat
  PROVE  HasPair(w, a, b) <=> \E k \in 1 .. Len(w) - 1 : w[k] = a /\ w[k + 1] = b
<1>1. ASSUME HasPair(w, a, b) PROVE \E k \in 1 .. Len(w) - 1 : w[k] = a /\ w[k + 1] = b
  <2>1. PICK c, d \in Word : w = Cat(Put(Put(c, a), b), d)
    BY <1>1 DEF HasPair
  <2>2. PICK u \in Word : u = Put(c, a)
    BY WordTypes
  <2>3. PICK v \in Word : v = Put(u, b)
    BY WordTypes
  <2>4. Len(u) = Len(c) + 1 /\ Len(c) \in Nat /\ u[Len(c) + 1] = a
    BY <2>2, PutElements, WordLen
  <2>5. Len(v) = Len(u) + 1 /\ v[Len(u) + 1] = b /\ \A i \in 1 .. Len(u) : v[i] = u[i]
    BY <2>3, PutElements
  <2>6. w = Cat(v, d)
    BY <2>1, <2>2, <2>3
  <2>7. Len(w) = Len(v) + Len(d) /\ Len(d) \in Nat /\ \A i \in 1 .. Len(v) : w[i] = v[i]
    BY <2>6, CatOf, WordLen, Zenon
  <2>8. PICK k \in Nat : k = Len(c) + 1
    BY <2>4
  <2>9. k \in 1 .. Len(w) - 1 /\ k \in 1 .. Len(u) /\ k \in 1 .. Len(v) /\ k + 1 \in 1 .. Len(v) /\ k + 1 = Len(u) + 1
    BY <2>4, <2>5, <2>7, <2>8
  <2>10. w[k] = a /\ w[k + 1] = b
    BY <2>4, <2>5, <2>7, <2>8, <2>9
  <2> QED BY <2>9, <2>10
<1>2. ASSUME NEW k \in 1 .. Len(w) - 1, w[k] = a, w[k + 1] = b PROVE HasPair(w, a, b)
  <2>1. PICK c, d \in Word : w = Cat(Put(Put(c, w[k]), w[k + 1]), d)
    BY CutAtPair
  <2> QED BY <1>2, <2>1 DEF HasPair
<1> QED BY <1>1, <1>2

(* A merge by hand at the leftmost place k of the pair.                    *)
Contracts(w, v, a, b, id, k) ==
  /\ k \in 1 .. Len(w) - 1 /\ w[k] = a /\ w[k + 1] = b
  /\ \A j \in 1 .. k - 1 : ~(w[j] = a /\ w[j + 1] = b)
  /\ Len(v) = Len(w) - 1 /\ v[k] = id
  /\ \A j \in 1 .. k - 1 : v[j] = w[j]
  /\ \A j \in k + 1 .. Len(v) : v[j] = w[j + 1]

(* What stands before it has no such pair, and what follows stays.         *)
LeftmostCut(w, v, a, b, id) ==
  \E c, d \in Word :
     /\ w = Cat(Put(Put(c, a), b), d) /\ v = Cat(Put(c, id), d)
     /\ ~HasPair(Put(c, a), a, b)

LEMMA ContractsCut ==
  ASSUME NEW a \in Nat, NEW b \in Nat, NEW id \in Nat,
         NEW w \in Word, NEW v \in Word, NEW k, Contracts(w, v, a, b, id, k)
  PROVE  LeftmostCut(w, v, a, b, id)
<1> USE DEF Contracts
<1>0. Len(w) \in Nat /\ k \in Nat
  BY WordLen
<1>1. PICK c, d \in Word :
           /\ w = Cat(Put(Put(c, a), b), d)
           /\ Len(c) = k - 1 /\ Len(d) = Len(w) - (k + 1)
           /\ \A i \in 1 .. Len(c) : c[i] = w[i]
           /\ \A i \in 1 .. Len(d) : d[i] = w[k + 1 + i]
  BY CutAtPair, Zenon
<1>2. PICK x \in Word, y \in Word : x = Put(c, a) /\ y = Put(c, id)
  BY WordTypes
<1>9. /\ Len(x) = Len(c) + 1 /\ x[Len(c) + 1] = a /\ \A i \in 1 .. Len(c) : x[i] = c[i]
      /\ Len(y) = Len(c) + 1 /\ y[Len(c) + 1] = id /\ \A i \in 1 .. Len(c) : y[i] = c[i]
  <2> HIDE DEF Contracts
  <2>1. Len(x) = Len(c) + 1 /\ x[Len(c) + 1] = a /\ \A i \in 1 .. Len(c) : x[i] = c[i]
    BY <1>2, PutElements
  <2>2. Len(y) = Len(c) + 1 /\ y[Len(c) + 1] = id /\ \A i \in 1 .. Len(c) : y[i] = c[i]
    BY <1>2, PutElements
  <2> QED BY <2>1, <2>2
<1>3. Len(x) = k /\ Len(y) = k /\ x[k] = a /\ y[k] = id
      /\ \A i \in 1 .. k - 1 : x[i] = c[i] /\ y[i] = c[i]
  <2>1. (k - 1) + 1 = k
    BY <1>0
  <2> QED BY <1>1, <1>9, <2>1
<1>4. ~HasPair(x, a, b)
  <2>1. ASSUME NEW j \in 1 .. Len(x) - 1, x[j] = a, x[j + 1] = b PROVE FALSE
    <3>1. j \in 1 .. k - 1 /\ x[j] = w[j]
      BY <1>0, <1>1, <1>3
    <3>2. x[j + 1] = w[j + 1]
      <4>1. CASE j + 1 = k
        BY <1>3, <4>1
      <4>2. CASE j + 1 # k
        <5>1. j + 1 \in 1 .. k - 1
          BY <1>0, <3>1, <4>2
        <5> QED BY <1>1, <1>3, <5>1
      <4> QED BY <4>1, <4>2
    <3> QED BY <2>1, <3>1, <3>2
  <2> QED BY <2>1, PairIndex
<1>5. v = Cat(y, d)
  <2>1. PICK z \in Word : z = Cat(y, d)
    BY WordTypes
  <2>2. /\ Len(z) = k + Len(d) /\ (\A i \in 1 .. k : z[i] = y[i])
        /\ \A i \in 1 .. Len(d) : z[k + i] = d[i]
    <3>1. /\ Len(z) = Len(y) + Len(d) /\ (\A i \in 1 .. Len(y) : z[i] = y[i])
          /\ \A i \in 1 .. Len(d) : z[Len(y) + i] = d[i]
      <4>1. y \in Word /\ d \in Word
        BY <1>1, <1>2
      <4>2. IsCatOf(z, y, d)
        BY <2>1, <4>1, CatNamed
      <4> QED BY <4>2 DEF IsCatOf
    <3> QED BY <1>3, <3>1
  <2>3. Len(z) = Len(v)
    BY <1>0, <1>1, <2>2
  <2>4. ASSUME NEW i \in 1 .. Len(v) PROVE v[i] = z[i]
    <3>1. CASE i \in 1 .. k - 1
      <4>1. i \in 1 .. k /\ i \in 1 .. Len(c)
        BY <1>0, <1>1, <3>1
      <4> QED BY <1>1, <1>3, <2>2, <3>1, <4>1
    <3>2. CASE i = k
      <4>1. k \in 1 .. k
        BY <1>0
      <4> QED BY <1>3, <2>2, <3>2, <4>1
    <3>3. CASE i \in k + 1 .. Len(v)
      <4>1. PICK n \in 1 .. Len(d) : i = k + n
        <5>1. i - k \in 1 .. Len(d) /\ i = k + (i - k)
          BY <1>0, <1>1, <3>3
        <5> QED BY <5>1
      <4>2. i + 1 = k + 1 + n
        BY <1>0, <4>1
      <4>3. v[i] = w[i + 1] /\ d[n] = w[k + 1 + n] /\ z[k + n] = d[n]
        BY <1>1, <2>2, <3>3, <4>1
      <4> QED BY <4>1, <4>2, <4>3
    <3> QED BY <1>0, <3>1, <3>2, <3>3
  <2> QED BY <2>1, <2>3, <2>4, WordEqual
<1> QED BY <1>1, <1>2, <1>4, <1>5 DEF LeftmostCut

-----------------------------------------------------------------------------
(* Linked lists.  The links lead to the right, or nowhere.                 *)

Links(nxt) ==
  /\ nxt \in Word /\ Len(nxt) > 0
  /\ \A i \in 1 .. Len(nxt) : nxt[i] = 0 \/ nxt[i] \in i + 1 .. Len(nxt)

(* The nodes of a list in order, from the first place.                     *)
Path(pos, nxt, prv) ==
  /\ pos \in Word /\ Len(pos) > 0 /\ pos[1] = 1
  /\ \A k \in 1 .. Len(pos) : pos[k] \in 1 .. Len(nxt)
  /\ \A j, k \in 1 .. Len(pos) : j < k => pos[j] < pos[k]
  /\ \A k \in 1 .. Len(pos) :
       /\ nxt[pos[k]] = IF k = Len(pos) THEN 0 ELSE pos[k + 1]
       /\ prv[pos[k]] = IF k = 1 THEN 0 ELSE pos[k - 1]

Values(val, pos) == [k \in 1 .. Len(pos) |-> val[pos[k]]]

WalkFrom(val, nxt) ==
  CHOOSE from : from = [i \in 0 .. Len(nxt) |->
    IF i = None THEN <<>> ELSE <<val[i]>> \o from[nxt[i]]]

LEMMA WalkIsFrom == \A val, nxt : Walk(val, nxt) = WalkFrom(val, nxt)[1]
BY DEF Walk, WalkFrom

LEMMA WalkValues ==
  ASSUME NEW nxt, Links(nxt), NEW val, \A i \in 1 .. Len(nxt) : val[i] \in Nat
  PROVE  /\ \A i \in 0 .. Len(nxt) : WalkFrom(val, nxt)[i] \in Word
         /\ WalkFrom(val, nxt)[0] = Nil
         /\ \A i \in 1 .. Len(nxt) : WalkFrom(val, nxt)[i] = Cat(One(val[i]), WalkFrom(val, nxt)[nxt[i]])
<1> DEFINE n == Len(nxt)
           Right(h, i) == h[i] = Cat(One(val[i]), h[nxt[i]])
           Good(h, j) == /\ h \in [0 .. n -> Word] /\ h[0] = Nil
                         /\ \A i \in n - j + 1 .. n : Right(h, i)
           J == {j \in 0 .. n : \E h : Good(h, j)}
<1>1. /\ n \in Nat /\ n > 0
      /\ \A i \in 1 .. n : nxt[i] \in 0 .. n /\ (nxt[i] = 0 \/ nxt[i] > i)
  BY WordLen DEF Links
<1>2. \A i \in 1 .. n : val[i] \in Nat /\ One(val[i]) \in Word
  BY TwoFacts
<1> HIDE DEF n
<1>3. 0 \in J
  <2>1. Good([i \in 0 .. n |-> Nil], 0)
    BY <1>1, WordTypes
  <2> HIDE DEF Good
  <2> QED BY <1>1, <2>1
<1>4. ASSUME NEW j \in 0 .. n - 1, j \in J PROVE j + 1 \in J
  <2>1. PICK h : Good(h, j)
    BY <1>4
  <2>2. PICK m \in 1 .. n : m = n - j
    BY <1>1
  <2>3. PICK x \in Word : x = Cat(One(val[m]), h[nxt[m]])
    BY <1>1, <1>2, <2>1, <2>2, WordTypes
  <2> DEFINE g == [h EXCEPT ![m] = x]
  <2>4. g \in [0 .. n -> Word] /\ g[m] = x /\ \A i \in 0 .. n : i # m => g[i] = h[i]
    BY <2>1, <2>2, <2>3
  <2> HIDE DEF g
  <2>5. g[0] = Nil
    BY <1>1, <2>1, <2>2, <2>4
  <2>6. ASSUME NEW i \in n - (j + 1) + 1 .. n PROVE Right(g, i)
    <3>1. i \in 1 .. n /\ nxt[i] \in 0 .. n /\ nxt[i] # m
      BY <1>1, <2>2
    <3>2. g[nxt[i]] = h[nxt[i]]
      BY <2>4, <3>1
    <3>3. CASE i = m
      BY <2>3, <2>4, <3>2, <3>3
    <3>4. CASE i # m
      <4>1. i \in n - j + 1 .. n /\ g[i] = h[i]
        BY <1>1, <2>2, <2>4, <3>1, <3>4
      <4>2. Right(h, i)
        BY <2>1, <4>1
      <4> QED BY <3>2, <4>1, <4>2
    <3> QED BY <3>3, <3>4
  <2>7. Good(g, j + 1)
    BY <2>4, <2>5, <2>6
  <2>8. j + 1 \in 0 .. n
    BY <1>1
  <2> HIDE DEF Good
  <2> QED BY <2>7, <2>8
<1>5. n \in J
  <2>1. n \in 0 .. n
    BY <1>1
  <2> HIDE DEF J
  <2> QED BY <1>1, <1>3, <1>4, <2>1, CountUp
<1>6. PICK h : Good(h, n)
  BY <1>5
<1> DEFINE Def(from) == from = [i \in 0 .. n |-> IF i = None THEN <<>> ELSE <<val[i]>> \o from[nxt[i]]]
           w == WalkFrom(val, nxt)
<1>7. ASSUME NEW i \in 1 .. n, NEW x \in Word PROVE Cat(One(val[i]), x) = <<val[i]>> \o x
  <2>1. One(val[i]) = <<val[i]>>
    BY <1>2, PutIsCat, WordTypes DEF One
  <2> QED BY <2>1 DEF Cat
<1>8. Def(h)
  <2>1. h = [i \in 0 .. n |-> h[i]]
    BY <1>6
  <2>2. ASSUME NEW i \in 0 .. n PROVE h[i] = IF i = None THEN <<>> ELSE <<val[i]>> \o h[nxt[i]]
    <3>1. CASE i = 0
      BY <1>6, <3>1 DEF None, Nil
    <3>2. CASE i # 0
      <4>1. i \in 1 .. n /\ i \in n - n + 1 .. n /\ nxt[i] \in 0 .. n
        BY <1>1, <3>2
      <4>2. h[i] = Cat(One(val[i]), h[nxt[i]]) /\ h[nxt[i]] \in Word
        BY <1>6, <4>1
      <4>3. h[i] = <<val[i]>> \o h[nxt[i]]
        BY <1>7, <4>1, <4>2
      <4> QED BY <3>2, <4>3 DEF None
    <3> QED BY <3>1, <3>2
  <2> QED BY <2>1, <2>2
<1>9. w = CHOOSE from : Def(from)
  BY DEF WalkFrom, n
<1>10. Def(w)
  <2> HIDE DEF Def, w
  <2> QED BY <1>8, <1>9
<1> HIDE DEF w
<1>11. w = [i \in 0 .. n |-> IF i = None THEN <<>> ELSE <<val[i]>> \o w[nxt[i]]]
  BY <1>10
<1>12. w[0] = Nil
  <2>1. 0 \in 0 .. n
    BY <1>1
  <2> QED BY <1>11, <2>1 DEF None, Nil
<1>13. \A i \in 1 .. n : w[i] = <<val[i]>> \o w[nxt[i]]
  <2>1. \A i \in 1 .. n : i \in 0 .. n /\ i # None
    BY <1>1 DEF None
  <2> QED BY <1>11, <2>1
<1>14. \A i \in 0 .. n : w[i] \in Word
  <2> DEFINE I == {j \in 0 .. n : \A i \in 1 .. n : i > n - j => w[i] \in Word}
  <2>1. 0 \in I
    BY <1>1
  <2>2. ASSUME NEW j \in 0 .. n - 1, j \in I PROVE j + 1 \in I
    <3>1. ASSUME NEW i \in 1 .. n, i > n - (j + 1) PROVE w[i] \in Word
      <4>1. CASE i > n - j
        BY <2>2, <4>1
      <4>2. CASE i = n - j
        <5>1. nxt[i] \in 0 .. n /\ (nxt[i] = 0 \/ (nxt[i] \in 1 .. n /\ nxt[i] > n - j))
          BY <1>1, <4>2
        <5>2. w[nxt[i]] \in Word
          BY <1>12, <2>2, <5>1, WordTypes
        <5>3. w[i] = Cat(One(val[i]), w[nxt[i]])
          BY <1>7, <1>13, <5>2
        <5> QED BY <1>2, <5>2, <5>3, WordTypes
      <4> QED BY <1>1, <3>1, <4>1, <4>2
    <3>2. j + 1 \in 0 .. n
      BY <1>1
    <3> QED BY <3>1, <3>2
  <2>3. n \in I
    <3>1. n \in 0 .. n
      BY <1>1
    <3> HIDE DEF I
    <3> QED BY <1>1, <2>1, <2>2, <3>1, CountUp
  <2>4. ASSUME NEW i \in 0 .. n PROVE w[i] \in Word
    <3>1. CASE i = 0
      BY <1>12, <3>1, WordTypes
    <3>2. CASE i # 0
      <4>1. i \in 1 .. n /\ i > n - n
        BY <1>1, <3>2
      <4> QED BY <2>3, <4>1
    <3> QED BY <3>1, <3>2
  <2> QED BY <2>4
<1>15. ASSUME NEW i \in 1 .. n PROVE w[i] = Cat(One(val[i]), w[nxt[i]])
  BY <1>1, <1>7, <1>13, <1>14
<1> QED BY <1>12, <1>14, <1>15 DEF w, n

LEMMA ValuesWord ==
  ASSUME NEW nxt, NEW prv, NEW pos, Path(pos, nxt, prv), NEW val, \A i \in 1 .. Len(nxt) : val[i] \in Nat
  PROVE  /\ Len(pos) \in Nat /\ Values(val, pos) \in Word /\ Len(Values(val, pos)) = Len(pos)
         /\ \A k \in 1 .. Len(pos) : Values(val, pos)[k] = val[pos[k]]
<1>1. Len(pos) \in Nat
  BY WordLen DEF Path
<1> DEFINE f == [k \in 1 .. Len(pos) |-> val[pos[k]]]
<1>2. \A k \in 1 .. Len(pos) : f[k] = val[pos[k]] /\ f[k] \in Nat
  BY DEF Path
<1>3. f = [k \in 1 .. Len(pos) |-> f[k]]
  OBVIOUS
<1>4. f = Values(val, pos)
  BY DEF Values
<1> HIDE DEF f
<1>5. [k \in 1 .. Len(pos) |-> f[k]] \in Word /\ Len([k \in 1 .. Len(pos) |-> f[k]]) = Len(pos)
  BY <1>1, <1>2, WordFunction
<1> QED BY <1>1, <1>2, <1>3, <1>4, <1>5

LEMMA OneCat ==
  ASSUME NEW v \in Nat, NEW x \in Word
  PROVE  /\ Cat(One(v), x) \in Word /\ Len(Cat(One(v), x)) = Len(x) + 1 /\ Cat(One(v), x)[1] = v
         /\ \A i \in 1 .. Len(x) : Cat(One(v), x)[i + 1] = x[i]
<1>1. PICK o \in Word : o = One(v)
  BY TwoFacts
<1>2. Len(o) = 1 /\ o[1] = v
  <2>1. /\ Len(o) = Len(Nil) + 1 /\ o[Len(Nil) + 1] = v
    BY <1>1, PutElements, WordTypes DEF One
  <2> QED BY <2>1, WordLen
<1>3. /\ Len(Cat(o, x)) = Len(o) + Len(x) /\ Len(x) \in Nat
      /\ \A i \in 1 .. Len(o) : Cat(o, x)[i] = o[i]
      /\ \A i \in 1 .. Len(x) : Cat(o, x)[Len(o) + i] = x[i]
  BY CatOf, WordLen
<1>4. PICK y \in Word : y = Cat(o, x)
  BY WordTypes
<1>5. \A i \in 1 .. Len(x) : 1 + i = i + 1
  BY <1>3
<1>6. Len(y) = Len(x) + 1 /\ y[1] = v /\ \A i \in 1 .. Len(x) : y[i + 1] = x[i]
  BY <1>2, <1>3, <1>4, <1>5
<1> QED BY <1>1, <1>4, <1>6

(* A walk along the links takes the values of the nodes.                   *)
LEMMA WalkPath ==
  ASSUME NEW nxt, NEW prv, NEW pos, Links(nxt), Path(pos, nxt, prv),
         NEW val, \A i \in 1 .. Len(nxt) : val[i] \in Nat
  PROVE  Walk(val, nxt) = Values(val, pos)
<1> DEFINE w == WalkFrom(val, nxt)
           m == Len(pos)
           c == Values(val, pos)
           Tails(j) == /\ Len(w[pos[m - j]]) = j + 1
                       /\ \A i \in 1 .. j + 1 : w[pos[m - j]][i] = c[m - j + i - 1]
           J == {j \in 0 .. m - 1 : Tails(j)}
<1>1. /\ \A i \in 0 .. Len(nxt) : w[i] \in Word
      /\ w[0] = Nil
      /\ \A i \in 1 .. Len(nxt) : w[i] = Cat(One(val[i]), w[nxt[i]])
  BY WalkValues
<1>2. m \in Nat /\ c \in Word /\ Len(c) = m /\ \A k \in 1 .. m : c[k] = val[pos[k]]
  BY ValuesWord
<1>3. /\ m > 0 /\ pos[1] = 1 /\ \A k \in 1 .. m : pos[k] \in 1 .. Len(nxt)
      /\ \A k \in 1 .. m : nxt[pos[k]] = IF k = m THEN 0 ELSE pos[k + 1]
  BY DEF Path
<1>4. Len(nxt) \in Nat
  BY WordLen DEF Links
<1> HIDE DEF w, m, c
<1>6. 0 \in J
  <2>1. pos[m] \in 1 .. Len(nxt) /\ nxt[pos[m]] = 0
    BY <1>2, <1>3
  <2>2. w[pos[m]] = Cat(One(val[pos[m]]), Nil) /\ val[pos[m]] \in Nat
    BY <1>1, <2>1
  <2>3. Len(w[pos[m]]) = Len(Nil) + 1 /\ w[pos[m]][1] = val[pos[m]]
    <3>1. PICK v \in Nat : v = val[pos[m]]
      BY <2>2
    <3>2. PICK x \in Word : x = Nil
      BY WordTypes
    <3>3. Len(Cat(One(v), x)) = Len(x) + 1 /\ Cat(One(v), x)[1] = v
      BY OneCat
    <3> QED BY <2>2, <3>1, <3>2, <3>3
  <2>4. m - 0 = m /\ 0 \in 0 .. m - 1 /\ Len(w[pos[m]]) = 0 + 1
    BY <1>2, <1>3, <2>3, WordLen
  <2>5. ASSUME NEW i \in 1 .. 0 + 1 PROVE w[pos[m - 0]][i] = c[m - 0 + i - 1]
    <3>1. i = 1 /\ m - 0 + i - 1 = m /\ m \in 1 .. m
      BY <1>2, <1>3
    <3> QED BY <1>2, <2>3, <2>4, <3>1
  <2> QED BY <2>4, <2>5
<1>7. ASSUME NEW j \in 0 .. (m - 1) - 1, j \in J PROVE j + 1 \in J
  <2>0. Tails(j)
    BY <1>7
  <2>1. PICK k \in 1 .. m : k = m - (j + 1) /\ k + 1 = m - j /\ k # m
    BY <1>2, <1>3
  <2>2. PICK x \in Word : x = w[pos[k + 1]] /\ Len(x) = j + 1 /\ \A i \in 1 .. j + 1 : x[i] = c[k + 1 + i - 1]
    <3>1. k + 1 \in 1 .. m
      BY <1>2, <2>1
    <3>2. pos[k + 1] \in 0 .. Len(nxt)
      BY <1>3, <1>4, <3>1
    <3>3. w[pos[k + 1]] \in Word
      BY <1>1, <3>2
    <3> QED BY <2>0, <2>1, <3>3
  <2>3. pos[k] \in 1 .. Len(nxt) /\ nxt[pos[k]] = pos[k + 1]
    BY <1>3, <2>1
  <2>4. PICK y : y = w[pos[k]]
    OBVIOUS
  <2>5. y = Cat(One(val[pos[k]]), x) /\ val[pos[k]] \in Nat
    BY <1>1, <2>2, <2>3, <2>4
  <2>6. Len(y) = (j + 1) + 1 /\ y[1] = c[k] /\ \A i \in 1 .. j + 1 : y[i + 1] = x[i]
    <3>1. PICK v \in Nat : v = val[pos[k]]
      BY <2>5
    <3>2. y = Cat(One(v), x)
      BY <2>5, <3>1
    <3>3. y \in Word /\ Len(y) = Len(x) + 1 /\ y[1] = v /\ \A i \in 1 .. Len(x) : y[i + 1] = x[i]
      <4>1. /\ Cat(One(v), x) \in Word /\ Len(Cat(One(v), x)) = Len(x) + 1 /\ Cat(One(v), x)[1] = v
            /\ \A i \in 1 .. Len(x) : Cat(One(v), x)[i + 1] = x[i]
        BY OneCat
      <4> QED BY <3>2, <4>1
    <3>4. c[k] = val[pos[k]]
      BY <1>2
    <3> QED BY <2>2, <3>1, <3>3, <3>4
  <2>7. ASSUME NEW i \in 1 .. (j + 1) + 1 PROVE y[i] = c[k + i - 1]
    <3>1. CASE i = 1
      <4>1. k + i - 1 = k
        BY <1>2, <3>1
      <4> QED BY <2>6, <3>1, <4>1
    <3>2. CASE i # 1
      <4>1. PICK h \in 1 .. j + 1 : i = h + 1
        <5>1. i - 1 \in 1 .. j + 1 /\ i = (i - 1) + 1
          BY <3>2
        <5> QED BY <5>1
      <4>2. k + i - 1 = k + 1 + h - 1
        BY <1>2, <4>1
      <4> QED BY <2>2, <2>6, <4>1, <4>2
    <3> QED BY <3>1, <3>2
  <2>8. Tails(j + 1)
    BY <2>1, <2>4, <2>6, <2>7
  <2>9. j + 1 \in 0 .. m - 1
    BY <1>2
  <2> HIDE DEF Tails
  <2> QED BY <2>8, <2>9
<1>8. m - 1 \in J
  <2>1. m - 1 \in Nat /\ m - 1 \in 0 .. m - 1
    BY <1>2, <1>3
  <2> HIDE DEF J
  <2> QED BY <1>6, <1>7, <2>1, CountUp
<1>9. PICK x \in Word : x = w[1]
  <2>1. 1 \in 0 .. Len(nxt)
    BY <1>4 DEF Links
  <2> QED BY <1>1, <2>1
<1>10. Len(x) = m /\ \A i \in 1 .. m : x[i] = c[i]
  <2>1. m - (m - 1) = 1 /\ (m - 1) + 1 = m /\ \A i \in 1 .. m : 1 + i - 1 = i
    BY <1>2
  <2>2. Tails(m - 1)
    BY <1>8
  <2>3. Len(w[pos[1]]) = m /\ \A i \in 1 .. m : w[pos[1]][i] = c[1 + i - 1]
    BY <2>1, <2>2
  <2> QED BY <1>3, <1>9, <2>1, <2>3
<1>11. x = c
  BY <1>2, <1>10, WordEqual
<1> QED BY <1>9, <1>11, WalkIsFrom DEF w, c

-----------------------------------------------------------------------------
(* Counting the live places.  A place is <<word, left node, its pair>> and *)
(* counts as often as its word does.                                       *)

Copies(A, cnt) == UNION {{x} \X (1 .. cnt[x[1]]) : x \in A}
Weight(A, cnt) == Cardinality(Copies(A, cnt))
At(R, q)       == {x \in R : x[3] = q}

LEMMA BlockSize ==
  ASSUME NEW x, NEW n \in Nat
  PROVE  IsFiniteSet({x} \X (1 .. n)) /\ Cardinality({x} \X (1 .. n)) = n
<1> DEFINE S == 1 .. n  T == {x} \X (1 .. n)  f == [i \in S |-> <<x, i>>]
<1>1. f \in [S -> T] /\ (\A i, j \in S : f[i] = f[j] => i = j) /\ \A t \in T : \E i \in S : f[i] = t
  OBVIOUS
<1>2. f \in Bijection(S, T)
  BY <1>1, Fun_IsBij
<1>3. ExistsBijection(S, T)
  BY <1>2 DEF ExistsBijection
<1>4. IsFiniteSet(S) /\ Cardinality(S) = n
  BY FS_Interval
<1> HIDE DEF S, T
<1>5. IsFiniteSet(T) /\ Cardinality(T) = n
  BY <1>3, <1>4, FS_Bijection
<1> QED BY <1>5 DEF T

LEMMA CopiesAdd ==
  ASSUME NEW A, NEW cnt, NEW x, x \notin A, cnt[x[1]] \in Nat, IsFiniteSet(Copies(A, cnt))
  PROVE  /\ IsFiniteSet(Copies(A \cup {x}, cnt))
         /\ Weight(A \cup {x}, cnt) = Weight(A, cnt) + cnt[x[1]]
<1> DEFINE K == {x} \X (1 .. cnt[x[1]])  C == Copies(A, cnt)
<1>1. Copies(A \cup {x}, cnt) = C \cup K
  BY DEF Copies
<1>2. C \cap K = {}
  BY DEF Copies
<1>3. IsFiniteSet(K) /\ Cardinality(K) = cnt[x[1]]
  BY BlockSize
<1> HIDE DEF K, C
<1>4. Cardinality({}) = 0 /\ Cardinality(C) \in Nat
  BY FS_EmptySet, FS_CardinalityType DEF C
<1>5. IsFiniteSet(C \cup K) /\ Cardinality(C \cup K) = Cardinality(C) + cnt[x[1]]
  BY <1>2, <1>3, <1>4, FS_Union DEF C
<1> QED BY <1>1, <1>5 DEF Weight, C

LEMMA CopiesRemove ==
  ASSUME NEW A, NEW cnt, NEW x \in A, cnt[x[1]] \in Nat, IsFiniteSet(Copies(A, cnt))
  PROVE  /\ IsFiniteSet(Copies(A \ {x}, cnt))
         /\ Weight(A \ {x}, cnt) = Weight(A, cnt) - cnt[x[1]]
         /\ Weight(A, cnt) \in Nat /\ Weight(A \ {x}, cnt) \in Nat
<1> DEFINE Z == A \ {x}
<1>1. Copies(Z, cnt) \subseteq Copies(A, cnt)
  BY DEF Copies
<1>2. IsFiniteSet(Copies(Z, cnt))
  BY <1>1, FS_Subset
<1>3. x \notin Z /\ Z \cup {x} = A
  OBVIOUS
<1> HIDE DEF Z
<1>4. Weight(A, cnt) = Weight(Z, cnt) + cnt[x[1]]
  BY <1>2, <1>3, CopiesAdd
<1>5. Weight(Z, cnt) \in Nat /\ Weight(A, cnt) \in Nat
  BY <1>2, FS_CardinalityType DEF Weight
<1> QED BY <1>2, <1>4, <1>5 DEF Z

LEMMA CopiesNone == \A cnt : Copies({}, cnt) = {} /\ IsFiniteSet(Copies({}, cnt)) /\ Weight({}, cnt) = 0
<1> TAKE cnt
<1>1. Copies({}, cnt) = {}
  BY DEF Copies
<1> QED BY <1>1, FS_EmptySet DEF Weight

-----------------------------------------------------------------------------
(* The tables.  Exact: the count of a pair among Q is that of its places   *)
(* in R.                                                                   *)

Spots == Nat \X Nat
Infos == [count : Int, locations : Seq(Spots)]

InfoOK(info) == DOMAIN info \subseteq Pairs /\ info \in [DOMAIN info -> Infos]

Exact(info, R, cnt, Q) ==
  \A q \in Q :
     /\ IsFiniteSet(Copies(At(R, q), cnt))
     /\ q \in DOMAIN info => info[q].count = Weight(At(R, q), cnt)
     /\ q \notin DOMAIN info => At(R, q) = {}

(* The places of a pair are listed word by word from left to right, and    *)
(* every place in R is listed.                                             *)
Sorted(loc) ==
  \A i, j \in 1 .. Len(loc) : i < j /\ loc[i][1] = loc[j][1] => loc[i][2] < loc[j][2]
Listed(x, loc) == \E i \in 1 .. Len(loc) : loc[i] = x

Complete(info, R, Q) ==
  \A x \in R : x[3] \in Q => x[3] \in DOMAIN info /\ Listed(<<x[1], x[2]>>, info[x[3]].locations)

SortedAll(info) == \A q \in DOMAIN info : Sorted(info[q].locations)

LEMMA SubtractValues ==
  ASSUME NEW info, InfoOK(info), NEW key, NEW n \in Int
  PROVE  /\ InfoOK(Subtract(info, key, n)) /\ DOMAIN Subtract(info, key, n) = DOMAIN info
         /\ \A q \in DOMAIN info :
              /\ Subtract(info, key, n)[q].locations = info[q].locations
              /\ Subtract(info, key, n)[q].count = IF q = key THEN info[q].count - n ELSE info[q].count
<1>1. CASE key \in DOMAIN info
  <2> DEFINE g == [info EXCEPT ![key].count = @ - n]
  <2>1. Subtract(info, key, n) = g
    BY <1>1 DEF Subtract
  <2>2. DOMAIN g = DOMAIN info /\ info[key] \in Infos
    BY <1>1 DEF InfoOK
  <2>3. \A q \in DOMAIN info : q # key => g[q] = info[q]
    OBVIOUS
  <2>4. g[key] = [info[key] EXCEPT !.count = @ - n]
    BY <1>1
  <2>5. g[key] \in Infos /\ g[key].count = info[key].count - n /\ g[key].locations = info[key].locations
    BY <2>2, <2>4 DEF Infos
  <2>6. \A q \in DOMAIN info : g[q] \in Infos
    BY <2>3, <2>5 DEF InfoOK
  <2>7. g \in [DOMAIN info -> Infos]
    <3>1. g = [q \in DOMAIN info |-> g[q]]
      OBVIOUS
    <3> HIDE DEF g
    <3> QED BY <2>6, <3>1
  <2> HIDE DEF g
  <2>8. InfoOK(g)
    BY <2>2, <2>7 DEF InfoOK
  <2> QED BY <2>1, <2>2, <2>3, <2>5, <2>8
<1>2. CASE key \notin DOMAIN info
  BY <1>2 DEF Subtract
<1> QED BY <1>1, <1>2

Added(info, key, n, spot, new) ==
  /\ InfoOK(new) /\ DOMAIN new = DOMAIN info \cup {key}
  /\ \A q \in DOMAIN info : q # key => new[q] = info[q]
  /\ key \in DOMAIN info =>
       /\ new[key].count = info[key].count + n
       /\ new[key].locations = Append(info[key].locations, spot)
  /\ key \notin DOMAIN info =>
       /\ new[key].count = n
       /\ new[key].locations = Append(<<>>, spot)

LEMMA AddValues ==
  ASSUME NEW info, InfoOK(info), NEW key \in Pairs, NEW n \in Int, NEW spot \in Spots
  PROVE  Added(info, key, n, spot, Add(info, key, n, spot))
<1> DEFINE old == IF key \in DOMAIN info THEN info[key] ELSE [count |-> 0, locations |-> <<>>]
           new == [count |-> old.count + n, locations |-> Places(old.locations, spot)]
           g == [k \in DOMAIN info \cup {key} |-> IF k = key THEN new ELSE info[k]]
<1>1. Add(info, key, n, spot) = g
  BY DEF Add
<1>2. old \in Infos
  <2>1. <<>> \in Seq(Spots)
    BY EmptySeq
  <2>2. key \in DOMAIN info => info[key] \in Infos
    BY DEF InfoOK
  <2> QED BY <2>1, <2>2 DEF Infos
<1>3. new.count = old.count + n /\ new.locations = Append(old.locations, spot)
  BY DEF Places
<1>4. new \in Infos
  <2>1. Append(old.locations, spot) \in Seq(Spots)
    <3>1. old.locations \in Seq(Spots)
      BY <1>2 DEF Infos
    <3> HIDE DEF old
    <3> QED BY <3>1, AppendProperties
  <2>2. old.count + n \in Int
    BY <1>2 DEF Infos
  <2> HIDE DEF old
  <2> QED BY <2>1, <2>2 DEF Infos, Places
<1>5. g[key] = new /\ DOMAIN g = DOMAIN info \cup {key} /\ \A q \in DOMAIN info : q # key => g[q] = info[q]
  OBVIOUS
<1>6. \A q \in DOMAIN info \cup {key} : g[q] \in Infos
  <2> HIDE DEF new, g
  <2> QED BY <1>4, <1>5 DEF InfoOK
<1>7. g = [q \in DOMAIN info \cup {key} |-> g[q]]
  OBVIOUS
<1>8. g \in [DOMAIN info \cup {key} -> Infos]
  <2> HIDE DEF g
  <2> QED BY <1>6, <1>7
<1>9. InfoOK(g)
  <2> HIDE DEF g
  <2> QED BY <1>5, <1>8 DEF InfoOK
<1>10. key \in DOMAIN info => old = info[key]
  OBVIOUS
<1>11. key \notin DOMAIN info => old.count + n = n /\ old.locations = <<>>
  OBVIOUS
<1> HIDE DEF g, new, old
<1>12. Added(info, key, n, spot, g)
  BY <1>3, <1>5, <1>9, <1>10, <1>11 DEF Added
<1> QED BY <1>1, <1>12

-----------------------------------------------------------------------------
(* A place leaves R and the count of its pair, or joins R and the table.   *)

LEMMA SubtractExact ==
  ASSUME NEW info, InfoOK(info), NEW R, NEW cnt, NEW Q, Exact(info, R, cnt, Q), Complete(info, R, Q),
         NEW x \in R, NEW n \in Nat, n = cnt[x[1]], NEW new, new = Subtract(info, x[3], n)
  PROVE  /\ InfoOK(new) /\ DOMAIN new = DOMAIN info
         /\ \A q \in DOMAIN info : new[q].locations = info[q].locations
         /\ Exact(new, R \ {x}, cnt, Q) /\ Complete(new, R \ {x}, Q)
<1> DEFINE key == x[3]  S == R \ {x}
<1>1. /\ InfoOK(new) /\ DOMAIN new = DOMAIN info
      /\ \A q \in DOMAIN info :
           /\ new[q].locations = info[q].locations
           /\ new[q].count = IF q = key THEN info[q].count - n ELSE info[q].count
  BY SubtractValues
<1>2. ASSUME NEW q \in Q
      PROVE  /\ IsFiniteSet(Copies(At(S, q), cnt))
             /\ q \in DOMAIN new => new[q].count = Weight(At(S, q), cnt)
             /\ q \notin DOMAIN new => At(S, q) = {}
  <2>1. /\ IsFiniteSet(Copies(At(R, q), cnt))
        /\ q \in DOMAIN info => info[q].count = Weight(At(R, q), cnt)
        /\ q \notin DOMAIN info => At(R, q) = {}
    BY DEF Exact
  <2>2. CASE q = key
    <3>1. At(S, q) = At(R, q) \ {x} /\ x \in At(R, q)
      BY <2>2 DEF At
    <3>2. PICK A : A = At(R, q) /\ x \in A
      BY <3>1
    <3>3. IsFiniteSet(Copies(A \ {x}, cnt)) /\ Weight(A \ {x}, cnt) = Weight(A, cnt) - n
      BY <2>1, <3>2, CopiesRemove
    <3> QED BY <1>1, <2>1, <2>2, <3>1, <3>2, <3>3
  <2>3. CASE q # key
    <3>1. At(S, q) = At(R, q)
      BY <2>3 DEF At
    <3> QED BY <1>1, <2>1, <2>3, <3>1
  <2> QED BY <2>2, <2>3
<1>3. Complete(new, S, Q)
  BY <1>1 DEF Complete
<1> QED BY <1>1, <1>2, <1>3 DEF Exact

LEMMA ListedAppend ==
  ASSUME NEW loc \in Seq(Spots), NEW spot \in Spots
  PROVE  /\ Append(loc, spot) \in Seq(Spots)
         /\ \A x : Listed(x, Append(loc, spot)) <=> Listed(x, loc) \/ x = spot
         /\ Sorted(loc) /\ (\A s : Listed(s, loc) /\ s[1] = spot[1] => s[2] < spot[2]) => Sorted(Append(loc, spot))
<1> DEFINE N == Len(loc)
<1>1. PICK l \in Seq(Spots) : l = Append(loc, spot)
  BY AppendProperties
<1>2. /\ N \in Nat /\ Len(l) = N + 1 /\ l[N + 1] = spot
      /\ \A i \in 1 .. N : l[i] = loc[i]
  BY <1>1, AppendProperties, LenProperties
<1> HIDE DEF N
<1>3. \A i \in 1 .. N + 1 : i \in 1 .. N \/ i = N + 1
  BY <1>2
<1>4. 1 .. N \subseteq 1 .. N + 1 /\ N + 1 \in 1 .. N + 1
  BY <1>2
<1>5. ASSUME NEW x PROVE Listed(x, l) <=> Listed(x, loc) \/ x = spot
  BY <1>2, <1>3, <1>4 DEF Listed, N
<1>6. ASSUME Sorted(loc), \A s : Listed(s, loc) /\ s[1] = spot[1] => s[2] < spot[2]
      PROVE  Sorted(l)
  <2>1. ASSUME NEW i \in 1 .. N + 1, NEW j \in 1 .. N + 1, i < j, l[i][1] = l[j][1]
        PROVE  l[i][2] < l[j][2]
    <3>1. i \in 1 .. N
      BY <1>2, <1>3, <2>1
    <3>2. CASE j \in 1 .. N
      BY <1>2, <1>6, <2>1, <3>1, <3>2 DEF Sorted, N
    <3>3. CASE j = N + 1
      <4>1. Listed(l[i], loc)
        BY <1>2, <3>1, ZenonT(40) DEF Listed, N
      <4> QED BY <1>2, <1>6, <2>1, <3>3, <4>1
    <3> QED BY <1>3, <3>2, <3>3
  <2> QED BY <1>2, <2>1 DEF Sorted
<1> QED BY <1>1, <1>5, <1>6

(* The spot lies to the right of those listed for its pair and word.       *)
Fits(info, key, spot) ==
  key \in DOMAIN info =>
    \A s : Listed(s, info[key].locations) /\ s[1] = spot[1] => s[2] < spot[2]

Grown(info, R, cnt, Q, x, spot, new) ==
  /\ InfoOK(new) /\ DOMAIN new = DOMAIN info \cup {x[3]}
  /\ \A q \in DOMAIN new : \A s : Listed(s, new[q].locations) =>
       \/ q \in DOMAIN info /\ Listed(s, info[q].locations)
       \/ q = x[3] /\ s = spot
  /\ Exact(new, R \cup {x}, cnt, Q) /\ Complete(new, R \cup {x}, Q) /\ SortedAll(new)

LEMMA AddExact ==
  ASSUME NEW info, InfoOK(info), NEW R, NEW cnt, NEW Q, Exact(info, R, cnt, Q), Complete(info, R, Q),
         SortedAll(info),
         NEW x, x \notin R, x[3] \in Pairs, NEW spot \in Spots, spot = <<x[1], x[2]>>,
         NEW n \in Nat, n = cnt[x[1]], Fits(info, x[3], spot)
  PROVE  Grown(info, R, cnt, Q, x, spot, Add(info, x[3], n, spot))
<1> USE DEF Fits
<1> DEFINE new == Add(info, x[3], n, spot)
<1>15. new = Add(info, x[3], n, spot)
  OBVIOUS
<1> HIDE DEF new
<1> DEFINE S == R \cup {x}
<1>0. PICK key \in Pairs : key = x[3]
  OBVIOUS
<1>1. /\ InfoOK(new) /\ DOMAIN new = DOMAIN info \cup {key}
      /\ \A q \in DOMAIN info : q # key => new[q] = info[q]
      /\ key \in DOMAIN info =>
              /\ new[key].count = info[key].count + n
              /\ new[key].locations = Append(info[key].locations, spot)
      /\ key \notin DOMAIN info =>
              /\ new[key].count = n
              /\ new[key].locations = Append(<<>>, spot)
  <2>1. new = Add(info, key, n, spot)
    BY <1>0, <1>15
  <2>2. n \in Int
    OBVIOUS
  <2>3. Added(info, key, n, spot, Add(info, key, n, spot))
    BY <2>2, AddValues, Zenon
  <2>4. Added(info, key, n, spot, new)
    BY <2>1, <2>3
  <2> QED BY <2>4 DEF Added
<1>2. ASSUME NEW q \in Q
      PROVE  /\ IsFiniteSet(Copies(At(S, q), cnt))
             /\ q \in DOMAIN new => new[q].count = Weight(At(S, q), cnt)
             /\ q \notin DOMAIN new => At(S, q) = {}
  <2>1. /\ IsFiniteSet(Copies(At(R, q), cnt))
        /\ q \in DOMAIN info => info[q].count = Weight(At(R, q), cnt)
        /\ q \notin DOMAIN info => At(R, q) = {}
    BY DEF Exact
  <2>2. CASE q = key
    <3>1. At(S, q) = At(R, q) \cup {x} /\ x \notin At(R, q)
      BY <1>0, <2>2 DEF At
    <3>2. PICK A : A = At(R, q) /\ x \notin A
      BY <3>1
    <3>3. IsFiniteSet(Copies(A \cup {x}, cnt)) /\ Weight(A \cup {x}, cnt) = Weight(A, cnt) + n
      <4>1. cnt[x[1]] \in Nat /\ IsFiniteSet(Copies(A, cnt)) /\ x \notin A
        BY <2>1, <3>2
      <4>2. IsFiniteSet(Copies(A \cup {x}, cnt)) /\ Weight(A \cup {x}, cnt) = Weight(A, cnt) + cnt[x[1]]
        BY <4>1, CopiesAdd, Zenon
      <4> QED BY <4>2
    <3>4. q \notin DOMAIN info => Weight(A, cnt) = 0
      BY <2>1, <3>2, CopiesNone
    <3>5. IsFiniteSet(Copies(At(S, q), cnt)) /\ Weight(At(S, q), cnt) = Weight(A, cnt) + n
      BY <3>1, <3>2, <3>3
    <3>6. q \in DOMAIN new
      BY <1>1, <2>2
    <3>7. new[q].count = Weight(A, cnt) + n
      <4>1. CASE q \in DOMAIN info
        BY <1>1, <2>1, <2>2, <3>2, <4>1
      <4>2. CASE q \notin DOMAIN info
        BY <1>1, <2>2, <3>4, <4>2
      <4> QED BY <4>1, <4>2
    <3> QED BY <3>5, <3>6, <3>7
  <2>3. CASE q # key
    <3>1. At(S, q) = At(R, q)
      BY <1>0, <2>3 DEF At
    <3>2. q \in DOMAIN new <=> q \in DOMAIN info
      BY <1>1, <2>3
    <3> QED BY <1>1, <2>1, <2>3, <3>1, <3>2
  <2> QED BY <2>2, <2>3
<1>3. PICK loc \in Seq(Spots) :
        /\ key \in DOMAIN info => loc = info[key].locations
        /\ key \notin DOMAIN info => loc = <<>>
        /\ new[key].locations = Append(loc, spot)
  <2>1. CASE key \in DOMAIN info
    <3>1. info[key].locations \in Seq(Spots)
      BY <2>1 DEF InfoOK, Infos
    <3> QED BY <1>1, <2>1, <3>1
  <2>2. CASE key \notin DOMAIN info
    <3>1. PICK e : e = <<>> /\ e \in Seq(Spots)
      BY EmptySeq
    <3> QED BY <1>1, <2>2, <3>1
  <2> QED BY <2>1, <2>2
<1>4. key \notin DOMAIN info => \A s : ~Listed(s, loc)
  <2>1. Len(<<>>) = 0
    BY EmptySeq
  <2> QED BY <1>3, <2>1 DEF Listed
<1>5. /\ \A s : Listed(s, new[key].locations) <=> Listed(s, loc) \/ s = spot
      /\ Sorted(loc) /\ (\A s : Listed(s, loc) /\ s[1] = spot[1] => s[2] < spot[2]) => Sorted(new[key].locations)
  <2>1. /\ \A s : Listed(s, Append(loc, spot)) <=> Listed(s, loc) \/ s = spot
        /\ Sorted(loc) /\ (\A s : Listed(s, loc) /\ s[1] = spot[1] => s[2] < spot[2]) => Sorted(Append(loc, spot))
    BY ListedAppend, Zenon
  <2> QED BY <1>3, <2>1
<1>6. Sorted(loc) /\ \A s : Listed(s, loc) /\ s[1] = spot[1] => s[2] < spot[2]
  <2>1. CASE key \in DOMAIN info
    BY <1>0, <1>3, <2>1 DEF SortedAll
  <2>2. CASE key \notin DOMAIN info
    <3>1. Len(loc) = 0
      BY <1>3, <2>2, EmptySeq
    <3> QED BY <1>4, <2>2, <3>1 DEF Sorted
  <2> QED BY <2>1, <2>2
<1>7. SortedAll(new)
  BY <1>1, <1>5, <1>6 DEF SortedAll
<1>8. ASSUME NEW q \in DOMAIN new, NEW s, Listed(s, new[q].locations)
      PROVE  \/ q \in DOMAIN info /\ Listed(s, info[q].locations)
             \/ q = key /\ s = spot
  <2>1. CASE q = key
    BY <1>3, <1>4, <1>5, <1>8, <2>1
  <2>2. CASE q # key
    BY <1>1, <1>8, <2>2
  <2> QED BY <2>1, <2>2
<1>9. Complete(new, S, Q)
  <2>1. ASSUME NEW y \in S, y[3] \in Q
        PROVE  y[3] \in DOMAIN new /\ Listed(<<y[1], y[2]>>, new[y[3]].locations)
    <3>1. CASE y = x
      BY <1>0, <1>1, <1>5, <3>1
    <3>2. CASE y # x
      <4>1. y[3] \in DOMAIN info /\ Listed(<<y[1], y[2]>>, info[y[3]].locations)
        BY <2>1, <3>2 DEF Complete
      <4>2. CASE y[3] = key
        BY <1>1, <1>3, <1>5, <4>1, <4>2
      <4>3. CASE y[3] # key
        BY <1>1, <4>1, <4>3
      <4> QED BY <4>2, <4>3
    <3> QED BY <3>1, <3>2
  <2> HIDE DEF S
  <2> QED BY <2>1 DEF Complete
<1>10. Exact(new, S, cnt, Q)
  BY <1>2 DEF Exact
<1> QED BY <1>0, <1>1, <1>7, <1>8, <1>9, <1>10 DEF Grown, new

-----------------------------------------------------------------------------
(* A word as a linked list: the places pos are its live nodes, in order;   *)
(* a node is dead when its token is the tombstone.                         *)

Rec == [tokens : Word, count : Nat, next : Word, prev : Word]

WordOK(st, pos, K) ==
  /\ st \in Rec /\ Links(st.next) /\ Path(pos, st.next, st.prev)
  /\ Len(st.tokens) = Len(st.next) /\ Len(st.prev) = Len(st.next)
  /\ \A i \in 1 .. Len(st.next) : st.tokens[i] \in 0 .. K
  /\ \A i \in 1 .. Len(st.next) : st.tokens[i] # 0 <=> \E k \in 1 .. Len(pos) : pos[k] = i

Alive(st, i) == i \in 1 .. Len(st.next) /\ st.tokens[i] # 0

(* The pair that starts at a live node. *)
LiveAt(st, l) == Alive(st, l) /\ st.next[l] # 0
PairOf(st, l) == <<st.tokens[l], st.tokens[st.next[l]]>>

WordFacts(st, pos) ==
  /\ Len(st.next) \in Nat /\ Len(st.next) > 0 /\ Len(pos) \in Nat /\ Len(pos) > 0 /\ pos[1] = 1
  /\ st.count \in Nat
  /\ \A i \in 1 .. Len(st.next) : st.tokens[i] \in Nat /\ st.next[i] \in 0 .. Len(st.next) /\ st.prev[i] \in Nat
  /\ \A i \in 1 .. Len(st.next) : st.next[i] = 0 \/ st.next[i] > i
  /\ \A k \in 1 .. Len(pos) :
       /\ pos[k] \in 1 .. Len(st.next) /\ pos[k] \in Nat /\ pos[k] # 0 /\ Alive(st, pos[k])
       /\ st.next[pos[k]] = IF k = Len(pos) THEN 0 ELSE pos[k + 1]
       /\ st.prev[pos[k]] = IF k = 1 THEN 0 ELSE pos[k - 1]
  /\ \A j, k \in 1 .. Len(pos) : j < k => pos[j] < pos[k]
  /\ \A i : Alive(st, i) => \E k \in 1 .. Len(pos) : pos[k] = i

LEMMA WordTyping ==
  ASSUME NEW st, NEW pos, NEW K, WordOK(st, pos, K)
  PROVE  WordFacts(st, pos)
<1>1. st.tokens \in Word /\ st.next \in Word /\ st.prev \in Word /\ st.count \in Nat /\ pos \in Word
  BY DEF WordOK, Rec, Path
<1>2. Len(st.next) \in Nat /\ Len(pos) \in Nat /\ Len(st.tokens) \in Nat /\ Len(st.prev) \in Nat
  BY <1>1, WordLen
<1>3. /\ Len(st.tokens) = Len(st.next) /\ Len(st.prev) = Len(st.next) /\ Len(st.next) > 0 /\ Len(pos) > 0 /\ pos[1] = 1
      /\ \A i \in 1 .. Len(st.next) : st.next[i] = 0 \/ st.next[i] \in i + 1 .. Len(st.next)
  BY DEF WordOK, Links, Path
<1>4. \A i \in 1 .. Len(st.next) : st.tokens[i] \in Nat /\ st.prev[i] \in Nat
  BY <1>1, <1>3, WordLen
<1>5. \A i \in 1 .. Len(st.next) : st.next[i] \in 0 .. Len(st.next) /\ (st.next[i] = 0 \/ st.next[i] > i)
  BY <1>2, <1>3
<1>6. /\ \A k \in 1 .. Len(pos) :
           /\ pos[k] \in 1 .. Len(st.next)
           /\ st.next[pos[k]] = IF k = Len(pos) THEN 0 ELSE pos[k + 1]
           /\ st.prev[pos[k]] = IF k = 1 THEN 0 ELSE pos[k - 1]
      /\ \A j, k \in 1 .. Len(pos) : j < k => pos[j] < pos[k]
  BY DEF WordOK, Path
<1>7. \A k \in 1 .. Len(pos) : Alive(st, pos[k])
  BY <1>6 DEF WordOK, Alive
<1>9. \A k \in 1 .. Len(pos) : pos[k] \in Nat /\ pos[k] # 0
  BY <1>2, <1>6
<1>8. \A i : Alive(st, i) => \E k \in 1 .. Len(pos) : pos[k] = i
  BY DEF WordOK, Alive
<1> QED BY <1>1, <1>2, <1>3, <1>4, <1>5, <1>6, <1>7, <1>8, <1>9 DEF WordFacts

(* The links of live nodes lead to live nodes and back.                    *)
LEMMA LinkFacts ==
  ASSUME NEW st, NEW pos, NEW K, WordOK(st, pos, K), NEW l, Alive(st, l)
  PROVE  /\ st.next[l] # 0 => /\ Alive(st, st.next[l]) /\ st.next[l] > l
                              /\ st.prev[st.next[l]] = l
         /\ st.prev[l] # 0 => /\ Alive(st, st.prev[l]) /\ st.prev[l] < l
                              /\ st.next[st.prev[l]] = l
         /\ \A i : Alive(st, i) /\ i < l => st.prev[l] # 0 /\ i <= st.prev[l]
<1>0. /\ Len(st.next) \in Nat /\ Len(pos) \in Nat
      /\ \A k \in 1 .. Len(pos) :
              /\ pos[k] \in 1 .. Len(st.next) /\ pos[k] \in Nat /\ pos[k] # 0 /\ Alive(st, pos[k])
              /\ st.next[pos[k]] = IF k = Len(pos) THEN 0 ELSE pos[k + 1]
              /\ st.prev[pos[k]] = IF k = 1 THEN 0 ELSE pos[k - 1]
      /\ \A j, k \in 1 .. Len(pos) : j < k => pos[j] < pos[k]
      /\ \A i : Alive(st, i) => \E k \in 1 .. Len(pos) : pos[k] = i
  <2>1. WordFacts(st, pos)
    BY WordTyping
  <2> QED BY <2>1 DEF WordFacts
<1>1. PICK k \in 1 .. Len(pos) : pos[k] = l
  BY <1>0
<1>2. ASSUME st.next[l] # 0
      PROVE  Alive(st, st.next[l]) /\ st.next[l] > l /\ st.prev[st.next[l]] = l
  <2>1. k # Len(pos) /\ st.next[l] = pos[k + 1]
    BY <1>0, <1>1, <1>2
  <2>2. k + 1 \in 1 .. Len(pos) /\ k < k + 1 /\ k + 1 # 1 /\ (k + 1) - 1 = k
    BY <1>0, <2>1
  <2>3. pos[k] < pos[k + 1] /\ pos[k + 1] \in Nat /\ pos[k] \in Nat
    BY <1>0, <2>2
  <2>4. st.prev[pos[k + 1]] = pos[k]
    BY <1>0, <2>2
  <2> QED BY <1>0, <1>1, <2>1, <2>2, <2>3, <2>4
<1>3. ASSUME st.prev[l] # 0
      PROVE  Alive(st, st.prev[l]) /\ st.prev[l] < l /\ st.next[st.prev[l]] = l
  <2>1. k # 1 /\ st.prev[l] = pos[k - 1]
    BY <1>0, <1>1, <1>3
  <2>2. k - 1 \in 1 .. Len(pos) /\ k - 1 < k /\ k - 1 # Len(pos) /\ (k - 1) + 1 = k
    BY <1>0, <2>1
  <2>3. pos[k - 1] < pos[k]
    BY <1>0, <2>2
  <2>4. st.next[pos[k - 1]] = pos[k]
    BY <1>0, <2>2
  <2> QED BY <1>0, <1>1, <2>1, <2>2, <2>3, <2>4
<1>4. ASSUME NEW i, Alive(st, i), i < l PROVE st.prev[l] # 0 /\ i <= st.prev[l]
  <2>1. PICK j \in 1 .. Len(pos) : pos[j] = i
    BY <1>0, <1>4
  <2>2. pos[j] \in Nat /\ pos[k] \in Nat /\ pos[j] < pos[k]
    BY <1>0, <1>1, <1>4, <2>1
  <2>3. j < k
    <3>1. k < j => pos[k] < pos[j]
      BY <1>0
    <3>2. j # k
      BY <2>2
    <3>3. j \in Nat /\ k \in Nat
      BY <1>0
    <3> QED BY <2>2, <3>1, <3>2, <3>3
  <2>4. k # 1 /\ k - 1 \in 1 .. Len(pos)
    BY <1>0, <2>3
  <2>5. st.prev[l] = pos[k - 1]
    BY <1>0, <1>1, <2>4
  <2>6. pos[k - 1] \in Nat /\ pos[k - 1] # 0
    BY <1>0, <2>4
  <2>7. j = k - 1 \/ j < k - 1
    BY <1>0, <2>3
  <2>8. j < k - 1 => pos[j] < pos[k - 1]
    BY <1>0, <2>4
  <2>9. pos[j] <= pos[k - 1]
    BY <2>2, <2>6, <2>7, <2>8
  <2> QED BY <2>1, <2>5, <2>6, <2>9
<1> QED BY <1>2, <1>3, <1>4

-----------------------------------------------------------------------------
(* One element of a word is replaced.                                      *)
Replaced(w, i, e, v) ==
  /\ v \in Word /\ Len(v) = Len(w)
  /\ \A j \in 1 .. Len(w) : v[j] = IF j = i THEN e ELSE w[j]

LEMMA WordExcept ==
  ASSUME NEW w \in Word, NEW i \in 1 .. Len(w), NEW e \in Nat
  PROVE  Replaced(w, i, e, [w EXCEPT ![i] = e])
BY ExceptSeq DEF Word, Replaced

(* The pair at a live node is merged.                                      *)

Merged(st, left, id) ==
  LET right == st.next[left]
      after == st.next[right]
  IN [st EXCEPT !.tokens = [st.tokens EXCEPT ![left] = id, ![right] = TOMBSTONE],
                !.next = [st.next EXCEPT ![left] = after],
                !.prev = IF after = None THEN st.prev ELSE [st.prev EXCEPT ![after] = left]]

IsMerged(st, left, id, m) ==
  /\ m \in Rec /\ m.count = st.count
  /\ Len(m.tokens) = Len(st.next) /\ Len(m.next) = Len(st.next) /\ Len(m.prev) = Len(st.next)
  /\ \A i \in 1 .. Len(st.next) :
       /\ m.tokens[i] = IF i = st.next[left] THEN 0 ELSE IF i = left THEN id ELSE st.tokens[i]
       /\ m.next[i] = IF i = left THEN st.next[st.next[left]] ELSE st.next[i]
       /\ m.prev[i] = IF i = st.next[st.next[left]] THEN left ELSE st.prev[i]

LEMMA MergedValues ==
  ASSUME NEW st, NEW pos, NEW K, WordOK(st, pos, K), NEW left, LiveAt(st, left), NEW id \in Nat
  PROVE  IsMerged(st, left, id, Merged(st, left, id))
<1> DEFINE n == Len(st.next)  right == st.next[left]  after == st.next[right]
<1>1. /\ n \in Nat /\ left \in 1 .. n /\ right \in 1 .. n /\ after \in 0 .. n /\ left # right
  <2>1. Alive(st, left) /\ st.next[left] # 0
    BY DEF LiveAt
  <2>2. Alive(st, st.next[left]) /\ st.next[left] > left
    BY <2>1, LinkFacts
  <2>3. left \in 1 .. n /\ right \in 1 .. n
    BY <2>1, <2>2 DEF Alive
  <2>4. n \in Nat /\ \A i \in 1 .. n : st.next[i] \in 0 .. n
    <3>1. WordFacts(st, pos)
      BY WordTyping
    <3> QED BY <3>1 DEF WordFacts
  <2> QED BY <2>2, <2>3, <2>4
<1>2. st \in Rec /\ st.tokens \in Word /\ st.next \in Word /\ st.prev \in Word /\ Len(st.tokens) = n /\ Len(st.prev) = n
  BY DEF WordOK, Rec
<1> HIDE DEF n, right, after
<1>3. PICK t1 : t1 = [st.tokens EXCEPT ![left] = id] /\ Replaced(st.tokens, left, id, t1)
  <2>1. left \in 1 .. Len(st.tokens)
    BY <1>1, <1>2
  <2> QED BY <1>2, <2>1, WordExcept
<1>13. t1 \in Word /\ Len(t1) = n /\ \A i \in 1 .. n : t1[i] = IF i = left THEN id ELSE st.tokens[i]
  BY <1>2, <1>3 DEF Replaced
<1>4. PICK t2 : t2 = [t1 EXCEPT ![right] = 0] /\ Replaced(t1, right, 0, t2)
  <2>1. right \in 1 .. Len(t1) /\ 0 \in Nat
    BY <1>1, <1>13
  <2> QED BY <1>13, <2>1, WordExcept
<1>14. t2 \in Word /\ Len(t2) = n /\ \A i \in 1 .. n : t2[i] = IF i = right THEN 0 ELSE t1[i]
  BY <1>13, <1>4 DEF Replaced
<1>5. PICK x : x = [st.next EXCEPT ![left] = after] /\ Replaced(st.next, left, after, x)
  <2>1. after \in Nat /\ left \in 1 .. Len(st.next)
    BY <1>1 DEF n
  <2> QED BY <1>2, <2>1, WordExcept
<1>15. x \in Word /\ Len(x) = n /\ \A i \in 1 .. n : x[i] = IF i = left THEN after ELSE st.next[i]
  BY <1>5 DEF Replaced, n
<1>6. PICK p \in Word : p = (IF after = None THEN st.prev ELSE [st.prev EXCEPT ![after] = left]) /\ Len(p) = n
          /\ \A i \in 1 .. n : p[i] = IF i = after THEN left ELSE st.prev[i]
  <2>1. CASE after = 0
    BY <1>1, <1>2, <2>1 DEF None
  <2>2. CASE after # 0
    <3>1. after \in 1 .. Len(st.prev) /\ left \in Nat
      BY <1>1, <1>2, <2>2
    <3>2. PICK q : q = [st.prev EXCEPT ![after] = left] /\ Replaced(st.prev, after, left, q)
      BY <1>2, <3>1, WordExcept
    <3> QED BY <1>2, <2>2, <3>2 DEF None, Replaced
  <2> QED BY <2>1, <2>2
<1> DEFINE m == [st EXCEPT !.tokens = t2, !.next = x, !.prev = p]
<1>7. Merged(st, left, id) = m
  <2>1. [st.tokens EXCEPT ![left] = id, ![right] = 0] = t2
    BY <1>3, <1>4
  <2> QED BY <1>5, <1>6, <2>1 DEF Merged, TOMBSTONE, right, after
<1>8. m \in Rec /\ m.tokens = t2 /\ m.next = x /\ m.prev = p /\ m.count = st.count
  BY <1>2, <1>14, <1>15 DEF Rec
<1> HIDE DEF m
<1>9. IsMerged(st, left, id, m)
  BY <1>13, <1>14, <1>15, <1>6, <1>8 DEF IsMerged, n, right, after
<1> QED BY <1>7, <1>9

-----------------------------------------------------------------------------
(* The node after the k-th is taken out of a list.                         *)

Drop(pos, k) == [j \in 1 .. Len(pos) - 1 |-> IF j <= k THEN pos[j] ELSE pos[j + 1]]

DropOf(pos, k, v) ==
  /\ v \in Word /\ Len(v) = Len(pos) - 1
  /\ \A j \in 1 .. k : v[j] = pos[j]
  /\ \A j \in k + 1 .. Len(pos) - 1 : v[j] = pos[j + 1]

LEMMA DropWord ==
  ASSUME NEW w \in Word, NEW k \in 1 .. Len(w) - 1
  PROVE  DropOf(w, k, Drop(w, k))
<1> DEFINE f == [j \in 1 .. Len(w) - 1 |-> IF j <= k THEN w[j] ELSE w[j + 1]]
<1>1. Len(w) \in Nat /\ \A i \in 1 .. Len(w) : w[i] \in Nat
  BY WordLen
<1>2. PICK n \in Nat : n = Len(w) - 1
  BY <1>1
<1>3. \A j \in 1 .. n : f[j] = IF j <= k THEN w[j] ELSE w[j + 1]
  BY <1>2
<1>4. ASSUME NEW j \in 1 .. n PROVE f[j] \in Nat
  <2>1. j \in 1 .. Len(w) /\ j + 1 \in 1 .. Len(w)
    BY <1>1, <1>2
  <2> QED BY <1>1, <1>3, <2>1
<1> HIDE DEF f
<1>5. [j \in 1 .. n |-> f[j]] \in Word /\ Len([j \in 1 .. n |-> f[j]]) = n
  BY <1>4, WordFunction
<1>6. [j \in 1 .. n |-> f[j]] = f
  BY <1>2 DEF f
<1>7. \A j \in 1 .. k : f[j] = w[j]
  BY <1>1, <1>2, <1>3
<1>8. \A j \in k + 1 .. n : f[j] = w[j + 1]
  BY <1>1, <1>2, <1>3
<1>9. Drop(w, k) = f
  BY DEF Drop, f
<1> QED BY <1>2, <1>5, <1>6, <1>7, <1>8, <1>9, Zenon DEF DropOf

LEMMA PathDrop ==
  ASSUME NEW nxt, NEW prv, NEW pos, Path(pos, nxt, prv), NEW k \in 1 .. Len(pos) - 1,
         NEW nxt2, NEW prv2, Len(nxt2) = Len(nxt),
         \A j \in 1 .. Len(pos) : j # k + 1 =>
            /\ nxt2[pos[j]] = IF j = k THEN nxt[pos[k + 1]] ELSE nxt[pos[j]]
            /\ prv2[pos[j]] = IF j = k + 2 THEN pos[k] ELSE prv[pos[j]]
  PROVE  Path(Drop(pos, k), nxt2, prv2)
<1>1. /\ pos \in Word /\ Len(pos) \in Nat /\ pos[1] = 1
      /\ \A j \in 1 .. Len(pos) : pos[j] \in 1 .. Len(nxt)
      /\ \A i, j \in 1 .. Len(pos) : i < j => pos[i] < pos[j]
      /\ \A j \in 1 .. Len(pos) :
           /\ nxt[pos[j]] = IF j = Len(pos) THEN 0 ELSE pos[j + 1]
           /\ prv[pos[j]] = IF j = 1 THEN 0 ELSE pos[j - 1]
  BY WordLen DEF Path
<1>2. PICK v \in Word : v = Drop(pos, k) /\ DropOf(pos, k, v)
  BY <1>1, DropWord DEF DropOf
<1>0. Len(pos) \in Nat
  BY <1>1
<1>3. PICK n \in Nat : n = Len(pos) - 1
  BY <1>0
<1>4. /\ Len(v) = n /\ Len(pos) = n + 1 /\ k \in 1 .. n
      /\ \A j \in 1 .. k : v[j] = pos[j]
      /\ \A j \in k + 1 .. n : v[j] = pos[j + 1]
  BY <1>1, <1>2, <1>3 DEF DropOf
<1>5. v[1] = 1 /\ n > 0
  BY <1>1, <1>4
<1>6. ASSUME NEW j \in 1 .. n PROVE v[j] \in 1 .. Len(nxt2)
  <2>1. j \in 1 .. Len(pos) /\ j + 1 \in 1 .. Len(pos) /\ (j \in 1 .. k \/ j \in k + 1 .. n)
    BY <1>4
  <2> QED BY <1>1, <1>4, <2>1
<1>7. ASSUME NEW i \in 1 .. n, NEW j \in 1 .. n, i < j PROVE v[i] < v[j]
  <2>1. /\ i \in 1 .. Len(pos) /\ i + 1 \in 1 .. Len(pos) /\ (i \in 1 .. k \/ i \in k + 1 .. n)
        /\ j \in 1 .. Len(pos) /\ j + 1 \in 1 .. Len(pos) /\ (j \in 1 .. k \/ j \in k + 1 .. n)
    BY <1>4
  <2>2. i < j /\ i < j + 1 /\ i + 1 < j + 1 /\ ~(i \in k + 1 .. n /\ j \in 1 .. k)
    BY <1>7, <1>4
  <2>3. pos[i] < pos[j] /\ pos[i] < pos[j + 1] /\ pos[i + 1] < pos[j + 1]
    BY <1>1, <2>1, <2>2
  <2> QED BY <1>4, <2>1, <2>2, <2>3
<1>8. ASSUME NEW j \in 1 .. n PROVE nxt2[v[j]] = IF j = n THEN 0 ELSE v[j + 1]
  <2>1. CASE j < k
    <3>1. j \in 1 .. k /\ j + 1 \in 1 .. k /\ j # n /\ j \in 1 .. Len(pos) /\ j # Len(pos) /\ j # k /\ j # k + 1
      BY <1>4, <2>1
    <3>2. v[j] = pos[j] /\ v[j + 1] = pos[j + 1]
      BY <1>4, <3>1
    <3>3. nxt2[pos[j]] = pos[j + 1]
      BY <1>1, <3>1
    <3> QED BY <3>1, <3>2, <3>3
  <2>2. CASE j = k
    <3>1. k \in 1 .. k /\ k \in 1 .. Len(pos) /\ k + 1 \in 1 .. Len(pos) /\ k # k + 1 /\ (k + 1 = Len(pos) <=> k = n)
      BY <1>4
    <3>2. nxt2[pos[k]] = nxt[pos[k + 1]] /\ v[k] = pos[k]
      BY <1>4, <3>1
    <3>3. nxt[pos[k + 1]] = IF k + 1 = Len(pos) THEN 0 ELSE pos[(k + 1) + 1]
      BY <1>1, <3>1
    <3>4. CASE k = n
      BY <2>2, <3>1, <3>2, <3>3, <3>4
    <3>5. CASE k # n
      <4>1. k + 1 \in k + 1 .. n
        BY <1>4, <3>5
      <4>2. v[k + 1] = pos[(k + 1) + 1]
        BY <1>4, <4>1
      <4> QED BY <2>2, <3>1, <3>2, <3>3, <3>5, <4>2
    <3> QED BY <3>4, <3>5
  <2>3. CASE j > k
    <3>1. /\ j \in k + 1 .. n /\ j + 1 \in 1 .. Len(pos) /\ j + 1 # k + 1 /\ j + 1 # k
          /\ (j + 1 = Len(pos) <=> j = n)
      BY <1>4, <2>3
    <3>2. v[j] = pos[j + 1]
      BY <1>4, <3>1
    <3>3. nxt2[pos[j + 1]] = nxt[pos[j + 1]]
      BY <3>1
    <3>4. nxt[pos[j + 1]] = IF j + 1 = Len(pos) THEN 0 ELSE pos[(j + 1) + 1]
      BY <1>1, <3>1
    <3>5. CASE j = n
      BY <3>1, <3>2, <3>3, <3>4, <3>5
    <3>6. CASE j # n
      <4>1. j + 1 \in k + 1 .. n
        BY <1>4, <3>1, <3>6
      <4>2. v[j + 1] = pos[(j + 1) + 1]
        BY <1>4, <4>1
      <4> QED BY <3>1, <3>2, <3>3, <3>4, <3>6, <4>2
    <3> QED BY <3>5, <3>6
  <2> QED BY <1>4, <2>1, <2>2, <2>3
<1>9. ASSUME NEW j \in 1 .. n PROVE prv2[v[j]] = IF j = 1 THEN 0 ELSE v[j - 1]
  <2>1. CASE j <= k
    <3>1. j \in 1 .. k /\ j \in 1 .. Len(pos) /\ j # k + 1 /\ j # k + 2
      BY <1>4, <2>1
    <3>2. v[j] = pos[j] /\ prv2[pos[j]] = prv[pos[j]]
      BY <1>4, <3>1
    <3>3. prv[pos[j]] = IF j = 1 THEN 0 ELSE pos[j - 1]
      BY <1>1, <3>1
    <3>4. j # 1 => j - 1 \in 1 .. k
      BY <1>4, <3>1
    <3>5. j # 1 => v[j - 1] = pos[j - 1]
      BY <1>4, <3>4
    <3> QED BY <3>2, <3>3, <3>5
  <2>2. CASE j = k + 1
    <3>1. /\ j \in k + 1 .. n /\ j + 1 \in 1 .. Len(pos) /\ j + 1 = k + 2 /\ j + 1 # k + 1
          /\ j # 1 /\ j - 1 = k /\ k \in 1 .. k
      BY <1>4, <2>2
    <3>2. v[j] = pos[j + 1] /\ v[k] = pos[k]
      BY <1>4, <3>1
    <3>3. prv2[pos[j + 1]] = pos[k]
      BY <3>1
    <3> QED BY <3>1, <3>2, <3>3
  <2>3. CASE j > k + 1
    <3>1. /\ j \in k + 1 .. n /\ j + 1 \in 1 .. Len(pos) /\ j + 1 # k + 2 /\ j + 1 # k + 1 /\ j + 1 # 1
          /\ j # 1 /\ j - 1 \in k + 1 .. n /\ (j - 1) + 1 = j /\ (j + 1) - 1 = j
      BY <1>4, <2>3
    <3>2. v[j] = pos[j + 1] /\ v[j - 1] = pos[j]
      BY <1>4, <3>1
    <3>3. prv2[pos[j + 1]] = prv[pos[j + 1]]
      BY <3>1
    <3>4. prv[pos[j + 1]] = pos[j]
      BY <1>1, <3>1
    <3> QED BY <3>1, <3>2, <3>3, <3>4
  <2> QED BY <1>4, <2>1, <2>2, <2>3
<1>10. \A i, j \in 1 .. n : i < j => v[i] < v[j]
  BY <1>7
<1> QED BY <1>2, <1>4, <1>5, <1>6, <1>8, <1>9, <1>10, Zenon DEF Path

-----------------------------------------------------------------------------
DropHas(w, k, i) ==
  (\E j \in 1 .. Len(w) - 1 : Drop(w, k)[j] = i) <=> \E j \in 1 .. Len(w) : j # k + 1 /\ w[j] = i

LEMMA DropValues ==
  ASSUME NEW w \in Word, NEW k \in 1 .. Len(w) - 1, NEW i
  PROVE  DropHas(w, k, i)
<1> SUFFICES (\E j \in 1 .. Len(w) - 1 : Drop(w, k)[j] = i) <=> \E j \in 1 .. Len(w) : j # k + 1 /\ w[j] = i
  BY DEF DropHas
<1>0. Len(w) \in Nat
  BY WordLen
<1>1. PICK v : v = Drop(w, k) /\ DropOf(w, k, v)
  BY DropWord
<1>2. PICK n \in Nat : n = Len(w) - 1
  BY <1>0
<1>3. /\ \A j \in 1 .. k : v[j] = w[j]
      /\ \A j \in k + 1 .. n : v[j] = w[j + 1]
      /\ k \in 1 .. n /\ Len(w) = n + 1
  BY <1>0, <1>1, <1>2 DEF DropOf
<1>4. ASSUME NEW j \in 1 .. n, v[j] = i PROVE \E h \in 1 .. Len(w) : h # k + 1 /\ w[h] = i
  <2>1. CASE j <= k
    <3>1. j \in 1 .. k /\ j \in 1 .. Len(w) /\ j # k + 1
      BY <1>3, <2>1
    <3> QED BY <1>3, <1>4, <3>1
  <2>2. CASE j > k
    <3>1. j \in k + 1 .. n /\ j + 1 \in 1 .. Len(w) /\ j + 1 # k + 1
      BY <1>3, <2>2
    <3> QED BY <1>3, <1>4, <3>1
  <2> QED BY <1>3, <2>1, <2>2
<1>5. ASSUME NEW h \in 1 .. Len(w), h # k + 1, w[h] = i PROVE \E j \in 1 .. n : v[j] = i
  <2>1. CASE h <= k
    <3>1. h \in 1 .. k /\ h \in 1 .. n
      BY <1>3, <2>1
    <3> QED BY <1>3, <1>5, <3>1
  <2>2. CASE h > k
    <3>1. h - 1 \in k + 1 .. n /\ h - 1 \in 1 .. n /\ (h - 1) + 1 = h
      BY <1>3, <1>5, <2>2
    <3>2. v[h - 1] = w[(h - 1) + 1]
      BY <1>3, <3>1
    <3> QED BY <1>5, <3>1, <3>2
  <2> QED BY <1>3, <2>1, <2>2
<1> QED BY <1>1, <1>2, <1>4, <1>5

(* Around a merge: its node, the one taken out, and their neighbours.      *)
Around(st, pos, k, left, right, after) ==
  /\ k \in 1 .. Len(pos) - 1 /\ pos[k] = left /\ pos[k + 1] = right
  /\ left \in 1 .. Len(st.next) /\ right \in 1 .. Len(st.next) /\ left < right
  /\ after \in Nat /\ after = st.next[right] /\ right = st.next[left]
  /\ after # 0 => k + 2 \in 1 .. Len(pos) /\ pos[k + 2] = after /\ right < after
  /\ after = 0 => k + 1 = Len(pos)

LEMMA MergeAround ==
  ASSUME NEW st, NEW pos, NEW K, WordOK(st, pos, K), NEW left, LiveAt(st, left)
  PROVE  \E k : Around(st, pos, k, left, st.next[left], st.next[st.next[left]])
<1>1. WordFacts(st, pos)
  BY WordTyping
<1>2. Alive(st, left) /\ st.next[left] # 0
  BY DEF LiveAt
<1>3. PICK k \in 1 .. Len(pos) : pos[k] = left
  BY <1>1, <1>2 DEF WordFacts
<1>4. Len(pos) \in Nat
  BY <1>1 DEF WordFacts
<1>5. /\ k # Len(pos) /\ st.next[left] = pos[k + 1]
      /\ left \in 1 .. Len(st.next)
  BY <1>1, <1>2, <1>3 DEF WordFacts
<1>6. k \in 1 .. Len(pos) - 1 /\ k + 1 \in 1 .. Len(pos) /\ k < k + 1
  BY <1>4, <1>5
<1>7. /\ pos[k + 1] \in 1 .. Len(st.next) /\ pos[k] < pos[k + 1]
      /\ st.next[pos[k + 1]] = IF k + 1 = Len(pos) THEN 0 ELSE pos[(k + 1) + 1]
  BY <1>1, <1>6 DEF WordFacts
<1> DEFINE right == st.next[left]  after == st.next[right]
<1>10. /\ left \in 1 .. Len(st.next) /\ right \in 1 .. Len(st.next) /\ left < right
       /\ pos[k + 1] = right
  BY <1>3, <1>5, <1>7
<1> HIDE DEF right
<1>8. CASE k + 1 = Len(pos)
  <2>1. after = 0
    BY <1>7, <1>8, <1>10
  <2>2. after \in Nat /\ ~(after # 0)
    BY <2>1
  <2> HIDE DEF after
  <2> QED BY <1>3, <1>6, <1>8, <1>10, <2>2 DEF Around, after, right
<1>9. CASE k + 1 # Len(pos)
  <2>1. after = pos[k + 2]
    BY <1>6, <1>7, <1>9, <1>10
  <2>2. k + 2 \in 1 .. Len(pos) /\ k + 1 < k + 2
    BY <1>4, <1>6, <1>9
  <2>3. pos[k + 2] \in Nat /\ pos[k + 2] # 0 /\ pos[k + 1] < pos[k + 2]
    BY <1>1, <1>6, <2>2 DEF WordFacts
  <2> HIDE DEF after
  <2>4. after \in Nat /\ after # 0 /\ right < after
    BY <1>10, <2>1, <2>3
  <2> QED BY <1>3, <1>6, <1>10, <2>1, <2>2, <2>4 DEF Around, after, right
<1> QED BY <1>8, <1>9

LEMMA MergedWord ==
  ASSUME NEW st, NEW pos, NEW K \in Nat, WordOK(st, pos, K), NEW left, LiveAt(st, left), NEW id \in 1 .. K,
         NEW m, IsMerged(st, left, id, m),
         NEW k, Around(st, pos, k, left, st.next[left], st.next[st.next[left]])
  PROVE  /\ WordOK(m, Drop(pos, k), K)
         /\ \A l : Alive(m, l) <=> Alive(st, l) /\ l # st.next[left]
<1> DEFINE right == st.next[left]  after == st.next[right]  n == Len(st.next)
<1>1. WordFacts(st, pos)
  BY WordTyping
<1>2. /\ n \in Nat /\ n > 0 /\ Len(pos) \in Nat
      /\ \A j \in 1 .. Len(pos) : pos[j] \in 1 .. n /\ pos[j] \in Nat /\ pos[j] # 0 /\ Alive(st, pos[j])
      /\ \A i, j \in 1 .. Len(pos) : i < j => pos[i] < pos[j]
      /\ \A i : Alive(st, i) => \E j \in 1 .. Len(pos) : pos[j] = i
      /\ \A i \in 1 .. n : st.next[i] \in 0 .. n /\ (st.next[i] = 0 \/ st.next[i] > i)
  BY <1>1 DEF WordFacts
<1>3. /\ k \in 1 .. Len(pos) - 1 /\ pos[k] = left /\ pos[k + 1] = right
      /\ left \in 1 .. n /\ right \in 1 .. n /\ left < right /\ after \in Nat
      /\ after # 0 => k + 2 \in 1 .. Len(pos) /\ pos[k + 2] = after /\ right < after
      /\ after = 0 => k + 1 = Len(pos)
  BY DEF Around
<1>4. /\ m \in Rec
      /\ Len(m.tokens) = n /\ Len(m.next) = n /\ Len(m.prev) = n
      /\ \A i \in 1 .. n :
           /\ m.tokens[i] = IF i = right THEN 0 ELSE IF i = left THEN id ELSE st.tokens[i]
           /\ m.next[i] = IF i = left THEN after ELSE st.next[i]
           /\ m.prev[i] = IF i = after THEN left ELSE st.prev[i]
  BY DEF IsMerged
<1>5. pos \in Word /\ Path(pos, st.next, st.prev) /\ \A i \in 1 .. n : st.tokens[i] \in 0 .. K
  BY DEF WordOK, Path
<1>6. \A i, j \in 1 .. Len(pos) : pos[i] = pos[j] => i = j
  <2> SUFFICES ASSUME NEW i \in 1 .. Len(pos), NEW j \in 1 .. Len(pos), pos[i] = pos[j], i # j PROVE FALSE
    OBVIOUS
  <2>1. i < j => pos[i] < pos[j]
    BY <1>2
  <2>2. j < i => pos[j] < pos[i]
    BY <1>2
  <2>3. pos[i] \in Nat /\ pos[j] \in Nat
    BY <1>2
  <2> QED BY <1>2, <2>1, <2>2, <2>3
<1> HIDE DEF right, after, n
<1>7. Path(Drop(pos, k), m.next, m.prev)
  <2>1. k + 1 \in 1 .. Len(pos) /\ k \in 1 .. Len(pos)
    BY <1>2, <1>3
  <2>2. ASSUME NEW j \in 1 .. Len(pos), j # k + 1
        PROVE  /\ m.next[pos[j]] = IF j = k THEN st.next[pos[k + 1]] ELSE st.next[pos[j]]
               /\ m.prev[pos[j]] = IF j = k + 2 THEN pos[k] ELSE st.prev[pos[j]]
    <3>1. pos[j] \in 1 .. n /\ pos[j] # 0
      BY <1>2
    <3>2. pos[j] = left <=> j = k
      BY <1>3, <1>6, <2>1
    <3>3. after # 0 => (pos[j] = after <=> j = k + 2)
      BY <1>3, <1>6
    <3>4. after = 0 => j # k + 2
      BY <1>2, <1>3
    <3>5. pos[j] = after <=> j = k + 2
      BY <3>1, <3>3, <3>4
    <3>6. after = st.next[pos[k + 1]]
      BY <1>3 DEF after
    <3> QED BY <1>3, <1>4, <3>1, <3>2, <3>5, <3>6
  <2>3. Len(m.next) = Len(st.next)
    BY <1>4 DEF n
  <2>4. \A j \in 1 .. Len(pos) : j # k + 1 =>
          /\ m.next[pos[j]] = IF j = k THEN st.next[pos[k + 1]] ELSE st.next[pos[j]]
          /\ m.prev[pos[j]] = IF j = k + 2 THEN pos[k] ELSE st.prev[pos[j]]
    BY <2>2
  <2>5. k \in 1 .. Len(pos) - 1 /\ Path(pos, st.next, st.prev)
    BY <1>3, <1>5
  <2> QED BY <2>3, <2>4, <2>5, PathDrop, SMTT(40)
<1>8. Links(m.next)
  <2>1. m.next \in Word /\ Len(m.next) > 0
    BY <1>2, <1>4 DEF Rec
  <2>2. ASSUME NEW i \in 1 .. n PROVE m.next[i] = 0 \/ m.next[i] \in i + 1 .. n
    <3>1. CASE i = left
      <4>1. after \in 0 .. n /\ m.next[i] = after
        BY <1>2, <1>3, <1>4, <3>1 DEF after
      <4>2. after # 0 => left < after
        BY <1>3
      <4> QED BY <1>3, <3>1, <4>1, <4>2
    <3>2. CASE i # left
      BY <1>2, <1>4, <3>2
    <3> QED BY <3>1, <3>2
  <2> QED BY <1>4, <2>1, <2>2 DEF Links
<1>9. \A i \in 1 .. n : m.tokens[i] \in 0 .. K
  BY <1>4, <1>5
<1>10. ASSUME NEW l PROVE Alive(m, l) <=> Alive(st, l) /\ l # right
  <2>1. \A i \in 1 .. n : m.tokens[i] # 0 <=> st.tokens[i] # 0 /\ i # right
    <3>1. st.tokens[left] # 0
      BY DEF LiveAt, Alive
    <3> QED BY <1>4, <3>1
  <2> QED BY <1>4, <2>1 DEF Alive, n
<1>11. ASSUME NEW i \in 1 .. n
       PROVE  m.tokens[i] # 0 <=> \E j \in 1 .. Len(Drop(pos, k)) : Drop(pos, k)[j] = i
  <2>1. m.tokens[i] # 0 <=> Alive(m, i)
    BY <1>4 DEF Alive
  <2>2. Alive(m, i) <=> Alive(st, i) /\ i # right
    BY <1>10
  <2>3. Alive(st, i) <=> \E j \in 1 .. Len(pos) : pos[j] = i
    BY <1>2
  <2>4. k + 1 \in 1 .. Len(pos)
    BY <1>2, <1>3
  <2>5. Alive(st, i) /\ i # right <=> \E j \in 1 .. Len(pos) : j # k + 1 /\ pos[j] = i
    BY <1>3, <1>6, <2>3, <2>4
  <2>6. (\E j \in 1 .. Len(pos) - 1 : Drop(pos, k)[j] = i) <=> \E j \in 1 .. Len(pos) : j # k + 1 /\ pos[j] = i
    <3>1. k \in 1 .. Len(pos) - 1 /\ pos \in Word
      BY <1>3, <1>5
    <3>2. DropHas(pos, k, i)
      BY <3>1, DropValues
    <3> QED BY <3>2 DEF DropHas
  <2>7. Len(Drop(pos, k)) = Len(pos) - 1
    BY <1>3, <1>5, DropWord DEF DropOf
  <2> QED BY <2>1, <2>2, <2>5, <2>6, <2>7
<1>12. WordOK(m, Drop(pos, k), K)
  BY <1>4, <1>7, <1>8, <1>9, <1>11 DEF WordOK
<1> QED BY <1>10, <1>12 DEF right

(* The live pairs after a merge.                                           *)
MergedLives(st, left, id, m) ==
  /\ \A l : LiveAt(m, l) <=> LiveAt(st, l) /\ l # st.next[left] /\ (l = left => st.next[st.next[left]] # 0)
  /\ \A l : LiveAt(m, l) => PairOf(m, l) =
       IF l = left THEN <<id, st.tokens[st.next[st.next[left]]]>>
       ELSE IF l = st.prev[left] THEN <<st.tokens[l], id>> ELSE PairOf(st, l)

LEMMA MergedPairs ==
  ASSUME NEW st, NEW pos, NEW K \in Nat, WordOK(st, pos, K), NEW left, LiveAt(st, left), NEW id \in 1 .. K,
         NEW m, IsMerged(st, left, id, m)
  PROVE  MergedLives(st, left, id, m)
<1> DEFINE right == st.next[left]  after == st.next[right]  n == Len(st.next)  before == st.prev[left]
<1>1. PICK k : Around(st, pos, k, left, right, after)
  BY MergeAround
<1>2. \A l : Alive(m, l) <=> Alive(st, l) /\ l # right
  BY <1>1, MergedWord
<1>3. /\ left \in 1 .. n /\ right \in 1 .. n /\ left < right /\ after \in Nat /\ (after # 0 => right < after)
      /\ Alive(st, left)
  BY <1>1 DEF Around, LiveAt
<1>4. /\ Len(m.next) = n
      /\ \A i \in 1 .. n :
           /\ m.tokens[i] = IF i = right THEN 0 ELSE IF i = left THEN id ELSE st.tokens[i]
           /\ m.next[i] = IF i = left THEN after ELSE st.next[i]
  BY DEF IsMerged
<1>5. \A l : Alive(st, l) => l \in 1 .. n
  BY DEF Alive
<1>6. \A l : Alive(st, l) /\ st.next[l] # 0 => Alive(st, st.next[l]) /\ st.prev[st.next[l]] = l
  BY LinkFacts
<1>7. before # 0 => Alive(st, before) /\ st.next[before] = left
  BY <1>3, LinkFacts
<1>11. st.next[left] # 0
  BY DEF LiveAt
<1> HIDE DEF right, after, n, before
<1>8. ASSUME NEW l PROVE LiveAt(m, l) <=> LiveAt(st, l) /\ l # right /\ (l = left => after # 0)
  <2>1. LiveAt(m, l) <=> Alive(st, l) /\ l # right /\ m.next[l] # 0
    BY <1>2 DEF LiveAt
  <2>2. Alive(st, l) => m.next[l] = IF l = left THEN after ELSE st.next[l]
    BY <1>4, <1>5
  <2>3. LiveAt(st, l) <=> Alive(st, l) /\ st.next[l] # 0
    BY DEF LiveAt
  <2>4. LiveAt(st, left)
    OBVIOUS
  <2> QED BY <2>1, <2>2, <2>3, <2>4
<1>9. ASSUME NEW l, LiveAt(m, l)
      PROVE  PairOf(m, l) = IF l = left THEN <<id, st.tokens[after]>>
                            ELSE IF l = before THEN <<st.tokens[l], id>> ELSE PairOf(st, l)
  <2>1. Alive(st, l) /\ st.next[l] # 0 /\ l # right /\ (l = left => after # 0) /\ l \in 1 .. n
    BY <1>5, <1>8, <1>9 DEF LiveAt
  <2>2. CASE l = left
    <3>1. after \in 1 .. n /\ after # right /\ after # left
      <4>1. Alive(st, right) /\ after # 0
        BY <1>3, <1>6, <1>11, <2>1, <2>2 DEF right
      <4>2. Alive(st, after)
        BY <1>6, <4>1 DEF after
      <4> QED BY <1>3, <1>5, <4>1, <4>2
    <3>2. m.next[l] = after /\ m.tokens[l] = id /\ m.tokens[after] = st.tokens[after]
      BY <1>3, <1>4, <2>2, <3>1
    <3> QED BY <2>2, <3>2 DEF PairOf
  <2>3. CASE l # left
    <3>1. m.next[l] = st.next[l] /\ m.tokens[l] = st.tokens[l]
      BY <1>4, <2>1, <2>3
    <3>2. Alive(st, st.next[l]) /\ st.prev[st.next[l]] = l /\ st.next[l] \in 1 .. n
      BY <1>5, <1>6, <2>1
    <3>3. st.next[l] # right
      <4>1. st.prev[right] = left
        BY <1>3, <1>6, <1>11 DEF right
      <4> QED BY <2>3, <3>2, <4>1
    <3>4. CASE l = before
      <4>1. st.next[l] = left /\ m.tokens[left] = id
        <5>1. Alive(st, before) => before # 0
          BY <1>5
        <5> QED BY <1>3, <1>4, <1>7, <2>1, <3>4, <5>1
      <4> QED BY <2>3, <3>1, <3>4, <4>1 DEF PairOf
    <3>5. CASE l # before
      <4>1. st.next[l] # left
        BY <3>2, <3>5 DEF before
      <4>2. m.tokens[st.next[l]] = st.tokens[st.next[l]]
        BY <1>4, <3>2, <3>3, <4>1
      <4> QED BY <2>3, <3>1, <3>5, <4>2 DEF PairOf
    <3> QED BY <3>4, <3>5
  <2> QED BY <2>2, <2>3
<1> QED BY <1>8, <1>9 DEF MergedLives, right, after, before

-----------------------------------------------------------------------------
(* The tokens of a word and its live pairs.                                *)

ChainOf(st, pos, c) ==
  /\ c \in Word /\ c = Walk(st.tokens, st.next) /\ Len(c) = Len(pos) /\ Len(pos) \in Nat
  /\ \A k \in 1 .. Len(pos) : c[k] = st.tokens[pos[k]]

LEMMA ChainValues ==
  ASSUME NEW st, NEW pos, NEW K, WordOK(st, pos, K)
  PROVE  ChainOf(st, pos, Walk(st.tokens, st.next))
<1>1. WordFacts(st, pos)
  BY WordTyping
<1>2. /\ Links(st.next) /\ Path(pos, st.next, st.prev)
      /\ \A i \in 1 .. Len(st.next) : st.tokens[i] \in Nat
  BY <1>1 DEF WordOK, WordFacts
<1>3. Walk(st.tokens, st.next) = Values(st.tokens, pos)
  BY <1>2, WalkPath
<1>4. /\ Len(pos) \in Nat /\ Values(st.tokens, pos) \in Word /\ Len(Values(st.tokens, pos)) = Len(pos)
      /\ \A k \in 1 .. Len(pos) : Values(st.tokens, pos)[k] = st.tokens[pos[k]]
  BY <1>2, ValuesWord
<1> QED BY <1>3, <1>4 DEF ChainOf

LEMMA ChainPairs ==
  ASSUME NEW st, NEW pos, NEW K, WordOK(st, pos, K), NEW a \in Nat, NEW b \in Nat
  PROVE  HasPair(Walk(st.tokens, st.next), a, b) <=> \E l : LiveAt(st, l) /\ PairOf(st, l) = <<a, b>>
<1>1. WordFacts(st, pos)
  BY WordTyping
<1>2. PICK c : c = Walk(st.tokens, st.next) /\ ChainOf(st, pos, c)
  BY ChainValues
<1>3. c \in Word /\ Len(c) = Len(pos) /\ Len(pos) \in Nat /\ \A k \in 1 .. Len(pos) : c[k] = st.tokens[pos[k]]
  BY <1>2 DEF ChainOf
<1>4. HasPair(c, a, b) <=> \E k \in 1 .. Len(c) - 1 : c[k] = a /\ c[k + 1] = b
  BY <1>3, PairIndex
<1>5. ASSUME NEW k \in 1 .. Len(pos) - 1
      PROVE  LiveAt(st, pos[k]) /\ PairOf(st, pos[k]) = <<c[k], c[k + 1]>>
  <2>1. k \in 1 .. Len(pos) /\ k + 1 \in 1 .. Len(pos) /\ k # Len(pos)
    BY <1>3
  <2>2. Alive(st, pos[k]) /\ st.next[pos[k]] = pos[k + 1] /\ pos[k + 1] # 0
    BY <1>1, <2>1 DEF WordFacts
  <2>3. c[k] = st.tokens[pos[k]] /\ c[k + 1] = st.tokens[pos[k + 1]]
    BY <1>3, <2>1
  <2> QED BY <2>2, <2>3 DEF LiveAt, PairOf
<1>6. ASSUME NEW l, LiveAt(st, l)
      PROVE  \E k \in 1 .. Len(pos) - 1 : pos[k] = l
  <2>1. PICK k \in 1 .. Len(pos) : pos[k] = l
    BY <1>1, <1>6 DEF WordFacts, LiveAt
  <2>2. k # Len(pos)
    BY <1>1, <1>6, <2>1 DEF WordFacts, LiveAt
  <2>3. k \in 1 .. Len(pos) - 1
    BY <1>3, <2>2
  <2> QED BY <2>1, <2>3
<1>7. (\E k \in 1 .. Len(pos) - 1 : c[k] = a /\ c[k + 1] = b) <=> \E l : LiveAt(st, l) /\ PairOf(st, l) = <<a, b>>
  <2>1. ASSUME NEW k \in 1 .. Len(pos) - 1, c[k] = a, c[k + 1] = b
        PROVE  \E l : LiveAt(st, l) /\ PairOf(st, l) = <<a, b>>
    BY <1>5, <2>1
  <2>2. ASSUME NEW l, LiveAt(st, l), PairOf(st, l) = <<a, b>>
        PROVE  \E k \in 1 .. Len(pos) - 1 : c[k] = a /\ c[k + 1] = b
    <3>1. PICK k \in 1 .. Len(pos) - 1 : pos[k] = l
      BY <1>6, <2>2
    <3>2. <<c[k], c[k + 1]>> = <<a, b>>
      BY <1>5, <2>2, <3>1
    <3> QED BY <3>2
  <2> QED BY <2>1, <2>2
<1> QED BY <1>2, <1>3, <1>4, <1>7

(* The merge at the leftmost place of the pair.                            *)
LEMMA MergedCut ==
  ASSUME NEW st, NEW pos, NEW K \in Nat, WordOK(st, pos, K), NEW left, LiveAt(st, left), NEW id \in 1 .. K,
         NEW a \in Nat, NEW b \in Nat, id # b, PairOf(st, left) = <<a, b>>,
         \A l : LiveAt(st, l) /\ l < left => PairOf(st, l) # <<a, b>>,
         NEW m, IsMerged(st, left, id, m)
  PROVE  LeftmostCut(Walk(st.tokens, st.next), Walk(m.tokens, m.next), a, b, id)
<1> DEFINE right == st.next[left]  after == st.next[right]
<1>1. PICK k : Around(st, pos, k, left, right, after)
  BY MergeAround
<1>2. WordFacts(st, pos)
  BY WordTyping
<1>3. WordOK(m, Drop(pos, k), K)
  BY <1>1, MergedWord
<1>4. PICK w \in Word : w = Walk(st.tokens, st.next) /\ ChainOf(st, pos, w)
  BY ChainValues DEF ChainOf
<1>5. PICK v \in Word : v = Walk(m.tokens, m.next) /\ ChainOf(m, Drop(pos, k), v)
  BY <1>3, ChainValues DEF ChainOf
<1>6. pos \in Word /\ k \in 1 .. Len(pos) - 1 /\ pos[k] = left /\ pos[k + 1] = right
  BY <1>1 DEF Around, WordOK, Path
<1>7. PICK d : d = Drop(pos, k) /\ DropOf(pos, k, d)
  BY <1>6, DropWord
<1>8. /\ w \in Word /\ Len(w) = Len(pos) /\ Len(pos) \in Nat /\ \A j \in 1 .. Len(pos) : w[j] = st.tokens[pos[j]]
      /\ v \in Word /\ Len(v) = Len(d) /\ \A j \in 1 .. Len(d) : v[j] = m.tokens[d[j]]
  BY <1>4, <1>5, <1>7 DEF ChainOf
<1>9. /\ Len(d) = Len(pos) - 1
      /\ \A j \in 1 .. k : d[j] = pos[j]
      /\ \A j \in k + 1 .. Len(pos) - 1 : d[j] = pos[j + 1]
  BY <1>7 DEF DropOf
<1>10. /\ \A j \in 1 .. Len(pos) : pos[j] \in 1 .. Len(st.next) /\ pos[j] \in Nat /\ Alive(st, pos[j])
       /\ \A i, j \in 1 .. Len(pos) : i < j => pos[i] < pos[j]
       /\ \A j \in 1 .. Len(pos) : st.next[pos[j]] = IF j = Len(pos) THEN 0 ELSE pos[j + 1]
  BY <1>2 DEF WordFacts
<1>11. PICK n \in Nat : n = Len(pos) - 1
  <2>1. Len(pos) \in Nat /\ k \in 1 .. Len(pos) - 1
    BY <1>6, <1>8
  <2> QED BY <2>1
<1>12. k \in 1 .. n /\ Len(pos) = n + 1 /\ k \in 1 .. Len(pos) /\ k + 1 \in 1 .. Len(pos)
  BY <1>6, <1>8, <1>11
<1>13. ASSUME NEW j \in 1 .. Len(pos), j # k + 1
       PROVE  m.tokens[pos[j]] = IF j = k THEN id ELSE st.tokens[pos[j]]
  <2>1. pos[j] # right
    <3>1. j < k + 1 => pos[j] < pos[k + 1]
      BY <1>10, <1>12
    <3>2. k + 1 < j => pos[k + 1] < pos[j]
      BY <1>10, <1>12
    <3>3. pos[j] \in Nat /\ pos[k + 1] \in Nat
      BY <1>10, <1>12
    <3> QED BY <1>6, <1>12, <1>13, <3>1, <3>2, <3>3
  <2>2. pos[j] = left <=> j = k
    <3>1. j < k => pos[j] < pos[k]
      BY <1>10, <1>12
    <3>2. k < j => pos[k] < pos[j]
      BY <1>10, <1>12
    <3>3. pos[j] \in Nat /\ pos[k] \in Nat
      BY <1>10, <1>12
    <3> QED BY <1>6, <1>12, <3>1, <3>2, <3>3
  <2>3. pos[j] \in 1 .. Len(st.next)
    BY <1>10
  <2> QED BY <2>1, <2>2, <2>3 DEF IsMerged
<1>14. w[k] = a /\ w[k + 1] = b
  <2>1. w[k] = st.tokens[left] /\ w[k + 1] = st.tokens[right]
    BY <1>6, <1>8, <1>12
  <2> QED BY <2>1 DEF PairOf
<1>15. ASSUME NEW j \in 1 .. k - 1 PROVE ~(w[j] = a /\ w[j + 1] = b)
  <2>1. j \in 1 .. Len(pos) /\ j + 1 \in 1 .. Len(pos) /\ j # Len(pos) /\ j < k
    BY <1>12
  <2>2. pos[j] < left /\ Alive(st, pos[j]) /\ st.next[pos[j]] = pos[j + 1] /\ pos[j + 1] # 0
    <3>1. pos[j] < pos[k]
      BY <1>10, <1>12, <2>1
    <3>2. Alive(st, pos[j]) /\ Alive(st, pos[j + 1]) /\ pos[j + 1] \in 1 .. Len(st.next)
      BY <1>10, <2>1
    <3>3. st.next[pos[j]] = pos[j + 1]
      BY <1>10, <2>1
    <3>4. pos[j + 1] # 0
      BY <3>2
    <3> QED BY <1>6, <3>1, <3>2, <3>3, <3>4
  <2>3. LiveAt(st, pos[j]) /\ PairOf(st, pos[j]) = <<w[j], w[j + 1]>>
    BY <1>8, <2>1, <2>2 DEF LiveAt, PairOf
  <2> QED BY <2>2, <2>3
<1>16. v[k] = id /\ Len(v) = Len(w) - 1
  <2>1. v[k] = m.tokens[pos[k]]
    BY <1>8, <1>9, <1>11, <1>12
  <2>2. k # k + 1
    BY <1>12
  <2> QED BY <1>8, <1>9, <1>12, <1>13, <2>1, <2>2
<1>17. ASSUME NEW j \in 1 .. k - 1 PROVE v[j] = w[j]
  <2>1. j \in 1 .. k /\ j \in 1 .. Len(pos) /\ j # k /\ j # k + 1 /\ j \in 1 .. Len(d)
    BY <1>9, <1>12
  <2> QED BY <1>8, <1>9, <1>13, <2>1
<1>18. ASSUME NEW j \in k + 1 .. Len(v) PROVE v[j] = w[j + 1]
  <2>1. j \in k + 1 .. n /\ j \in 1 .. Len(d) /\ j + 1 \in 1 .. Len(pos) /\ j + 1 # k /\ j + 1 # k + 1
    BY <1>8, <1>9, <1>11, <1>12
  <2>2. v[j] = m.tokens[pos[j + 1]]
    BY <1>8, <1>9, <1>11, <2>1
  <2> QED BY <1>8, <1>13, <2>1, <2>2
<1>19. Contracts(w, v, a, b, id, k)
  BY <1>6, <1>8, <1>14, <1>15, <1>16, <1>17, <1>18 DEF Contracts
<1>20. id \in Nat
  OBVIOUS
<1>21. LeftmostCut(w, v, a, b, id)
  BY <1>19, <1>20, ContractsCut
<1> QED BY <1>4, <1>5, <1>21

(* It is the next one of the merge from left to right.                     *)
LEMMA MergedChain ==
  ASSUME NEW st, NEW pos, NEW K \in Nat, WordOK(st, pos, K), NEW left, LiveAt(st, left), NEW id \in 1 .. K,
         NEW a \in Nat, NEW b \in Nat, id # b, PairOf(st, left) = <<a, b>>,
         \A l : LiveAt(st, l) /\ l < left => PairOf(st, l) # <<a, b>>,
         NEW m, IsMerged(st, left, id, m)
  PROVE  Mg(Walk(st.tokens, st.next), a, b, id) = Mg(Walk(m.tokens, m.next), a, b, id)
<1>1. LeftmostCut(Walk(st.tokens, st.next), Walk(m.tokens, m.next), a, b, id)
  BY MergedCut
<1>2. id \in Nat
  OBVIOUS
<1> QED BY <1>1, <1>2, MergeLeftmost DEF LeftmostCut

-----------------------------------------------------------------------------
(* The words, and their live pairs.                                        *)

Words(sts, K) == sts \in Seq(Rec) /\ \A s \in 1 .. Len(sts) : \E pos : WordOK(sts[s], pos, K)

Triples(sts) == (1 .. Len(sts)) \X Nat \X Pairs
Lives(sts)   == {x \in Triples(sts) : LiveAt(sts[x[1]], x[2]) /\ x[3] = PairOf(sts[x[1]], x[2])}
Cnt(sts)     == [s \in 1 .. Len(sts) |-> sts[s].count]
Valid(sts, x) == x[1] \in 1 .. Len(sts) /\ x[2] \in 1 .. Len(sts[x[1]].next)

(* The tokens of a live pair.                                              *)
LEMMA LiveTyping ==
  ASSUME NEW st, NEW pos, NEW K \in Nat, WordOK(st, pos, K), NEW l, LiveAt(st, l)
  PROVE  /\ l \in 1 .. Len(st.next) /\ l \in Nat /\ st.next[l] \in 1 .. Len(st.next) /\ st.next[l] \in Nat
         /\ st.next[l] > l /\ Alive(st, l) /\ Alive(st, st.next[l])
         /\ st.tokens[l] \in 1 .. K /\ st.tokens[st.next[l]] \in 1 .. K
         /\ PairOf(st, l) \in Pairs
<1>1. WordFacts(st, pos) /\ \A i \in 1 .. Len(st.next) : st.tokens[i] \in 0 .. K
  BY WordTyping DEF WordOK
<1>2. Alive(st, l) /\ st.next[l] # 0
  BY DEF LiveAt
<1>3. Alive(st, st.next[l]) /\ st.next[l] > l
  BY <1>2, LinkFacts
<1>4. Len(st.next) \in Nat
  BY <1>1 DEF WordFacts
<1>5. \A i : Alive(st, i) => i \in 1 .. Len(st.next) /\ st.tokens[i] \in 1 .. K
  BY <1>1 DEF Alive
<1>6. l \in 1 .. Len(st.next) /\ st.next[l] \in 1 .. Len(st.next) /\ st.tokens[l] \in 1 .. K /\ st.tokens[st.next[l]] \in 1 .. K
  BY <1>2, <1>3, <1>5
<1>7. PairOf(st, l) \in Pairs
  BY <1>6 DEF PairOf, Pairs
<1> QED BY <1>2, <1>3, <1>4, <1>6, <1>7

LEMMA LivesIn ==
  ASSUME NEW K \in Nat, NEW sts, Words(sts, K), NEW s \in 1 .. Len(sts), NEW l, LiveAt(sts[s], l)
  PROVE  <<s, l, PairOf(sts[s], l)>> \in Lives(sts)
<1>1. PICK pos : WordOK(sts[s], pos, K)
  BY DEF Words
<1>2. l \in Nat /\ PairOf(sts[s], l) \in Pairs
  BY <1>1, LiveTyping
<1> QED BY <1>2 DEF Lives, Triples

WordPut(sts, s, m, K, new) ==
  /\ Words(new, K) /\ Len(new) = Len(sts)
  /\ \A t \in 1 .. Len(sts) : new[t] = IF t = s THEN m ELSE sts[t]

LEMMA WordsReplaced ==
  ASSUME NEW K \in Nat, NEW sts, Words(sts, K), NEW s \in 1 .. Len(sts), NEW m, NEW pos, WordOK(m, pos, K)
  PROVE  WordPut(sts, s, m, K, [sts EXCEPT ![s] = m])
<1>0. PICK new : new = [sts EXCEPT ![s] = m]
  OBVIOUS
<1>1. sts \in Seq(Rec) /\ m \in Rec
  BY DEF Words, WordOK
<1>3. /\ new \in Seq(Rec) /\ Len(new) = Len(sts)
      /\ \A t \in 1 .. Len(sts) : new[t] = IF t = s THEN m ELSE sts[t]
  BY <1>0, <1>1, ExceptSeq
<1>4. ASSUME NEW t \in 1 .. Len(new) PROVE \E p : WordOK(new[t], p, K)
  BY <1>3 DEF Words
<1> QED BY <1>0, <1>3, <1>4 DEF Words, WordPut

(* The live pairs lost and gained around a merge.                          *)
Opt(n, x) == IF n = 0 THEN {} ELSE {x}
Gone(st, s, left)     == <<s, left, PairOf(st, left)>>
LostL(st, s, left)    == Opt(st.prev[left], <<s, st.prev[left], PairOf(st, st.prev[left])>>)
LostR(st, s, left)    == Opt(st.next[st.next[left]], <<s, st.next[left], PairOf(st, st.next[left])>>)
NewL(st, s, left, id) == Opt(st.prev[left], <<s, st.prev[left], <<st.tokens[st.prev[left]], id>>>>)
NewR(st, s, left, id) == Opt(st.next[st.next[left]], <<s, left, <<id, st.tokens[st.next[st.next[left]]]>>>>)

LivesAfter(sts, s, left, id, new) ==
  Lives(new) =
    (((Lives(sts) \ LostL(sts[s], s, left)) \ LostR(sts[s], s, left)) \cup NewL(sts[s], s, left, id)
       \cup NewR(sts[s], s, left, id)) \ {Gone(sts[s], s, left)}

LEMMA LivesMerged ==
  ASSUME NEW K \in Nat, NEW sts, Words(sts, K), NEW s \in 1 .. Len(sts), NEW left, LiveAt(sts[s], left),
         NEW id \in 1 .. K, id # sts[s].tokens[left], NEW m, MergedLives(sts[s], left, id, m),
         NEW new, WordPut(sts, s, m, K, new)
  PROVE  LivesAfter(sts, s, left, id, new)
<1> DEFINE st == sts[s]  right == st.next[left]  after == st.next[right]  bef == st.prev[left]
           RHS == (((Lives(sts) \ LostL(st, s, left)) \ LostR(st, s, left)) \cup NewL(st, s, left, id)
                     \cup NewR(st, s, left, id)) \ {Gone(st, s, left)}
           T == Triples(sts)
<1>0. Len(new) = Len(sts) /\ \A t \in 1 .. Len(sts) : new[t] = IF t = s THEN m ELSE sts[t]
  BY DEF WordPut
<1>1. Triples(new) = T
  BY <1>0 DEF Triples
<1>2. PICK pos : WordOK(st, pos, K)
  BY DEF Words
<1>3. /\ left \in Nat /\ right \in Nat /\ left # right /\ right # 0 /\ Alive(st, left) /\ Alive(st, right)
      /\ st.tokens[left] \in 1 .. K
  BY <1>2, LiveTyping
<1>4. bef # 0 => /\ bef \in Nat /\ bef # left /\ bef # right /\ LiveAt(st, bef) /\ st.next[bef] = left
                 /\ st.tokens[bef] \in 1 .. K
  <2> SUFFICES ASSUME bef # 0
               PROVE  /\ bef \in Nat /\ bef # left /\ bef # right /\ LiveAt(st, bef) /\ st.next[bef] = left
                      /\ st.tokens[bef] \in 1 .. K
    OBVIOUS
  <2>1. Alive(st, bef) /\ bef < left /\ st.next[bef] = left
    BY <1>2, <1>3, LinkFacts
  <2>2. LiveAt(st, bef)
    BY <1>2, <1>3, <2>1, LiveTyping DEF LiveAt
  <2>3. bef \in Nat /\ st.tokens[bef] \in 1 .. K
    BY <1>2, <2>2, LiveTyping
  <2>4. left < right
    BY <1>2, LiveTyping
  <2> QED BY <1>3, <2>1, <2>2, <2>3, <2>4
<1>5. after # 0 => LiveAt(st, right) /\ st.tokens[after] \in 1 .. K
  <2> SUFFICES ASSUME after # 0 PROVE LiveAt(st, right) /\ st.tokens[after] \in 1 .. K
    OBVIOUS
  <2>1. LiveAt(st, right)
    BY <1>3 DEF LiveAt
  <2> QED BY <1>2, <2>1, LiveTyping
<1>6. /\ \A l : LiveAt(m, l) <=> LiveAt(st, l) /\ l # right /\ (l = left => after # 0)
      /\ \A l : LiveAt(m, l) => PairOf(m, l) =
           IF l = left THEN <<id, st.tokens[after]>>
           ELSE IF l = bef THEN <<st.tokens[l], id>> ELSE PairOf(st, l)
  BY DEF MergedLives
<1>7. /\ Lives(sts) \subseteq T /\ Lives(new) \subseteq T
      /\ \A x \in T : x \in Lives(sts) <=> LiveAt(sts[x[1]], x[2]) /\ x[3] = PairOf(sts[x[1]], x[2])
      /\ \A x \in T : x \in Lives(new) <=> LiveAt(new[x[1]], x[2]) /\ x[3] = PairOf(new[x[1]], x[2])
  BY <1>1 DEF Lives
<1>8. /\ \A l, q : l \in Nat /\ q \in Pairs => <<s, l, q>> \in T
      /\ \A x \in T : x[1] \in 1 .. Len(sts) /\ x[2] \in Nat /\ x[3] \in Pairs /\ x = <<x[1], x[2], x[3]>>
  BY DEF Triples
<1>9. /\ bef # 0 => <<st.tokens[bef], id>> \in Pairs
      /\ after # 0 => <<id, st.tokens[after]>> \in Pairs
  BY <1>4, <1>5 DEF Pairs
<1> HIDE DEF st, right, after, bef, T
<1>10. /\ \A x : x \in LostL(st, s, left) <=> bef # 0 /\ x = <<s, bef, PairOf(st, bef)>>
       /\ \A x : x \in LostR(st, s, left) <=> after # 0 /\ x = <<s, right, PairOf(st, right)>>
       /\ \A x : x \in NewL(st, s, left, id) <=> bef # 0 /\ x = <<s, bef, <<st.tokens[bef], id>>>>
       /\ \A x : x \in NewR(st, s, left, id) <=> after # 0 /\ x = <<s, left, <<id, st.tokens[after]>>>>
  BY DEF LostL, LostR, NewL, NewR, Opt, bef, after, right
<1>11. RHS \subseteq T
  <2>1. NewL(st, s, left, id) \subseteq T
    BY <1>4, <1>8, <1>9, <1>10
  <2>2. NewR(st, s, left, id) \subseteq T
    BY <1>3, <1>8, <1>9, <1>10
  <2> QED BY <1>7, <2>1, <2>2
<1>12. ASSUME NEW x \in T
       PROVE  /\ x \in LostL(st, s, left) <=> bef # 0 /\ x[1] = s /\ x[2] = bef /\ x[3] = PairOf(st, bef)
              /\ x \in LostR(st, s, left) <=> after # 0 /\ x[1] = s /\ x[2] = right /\ x[3] = PairOf(st, right)
              /\ x \in NewL(st, s, left, id) <=> bef # 0 /\ x[1] = s /\ x[2] = bef /\ x[3] = <<st.tokens[bef], id>>
              /\ x \in NewR(st, s, left, id) <=> after # 0 /\ x[1] = s /\ x[2] = left /\ x[3] = <<id, st.tokens[after]>>
              /\ x = Gone(st, s, left) <=> x[1] = s /\ x[2] = left /\ x[3] = PairOf(st, left)
  <2>1. PICK x1, x2, x3 : x = <<x1, x2, x3>> /\ x[1] = x1 /\ x[2] = x2 /\ x[3] = x3
    BY <1>8
  <2> QED BY <1>10, <2>1 DEF Gone
<1>13. ASSUME NEW x \in T PROVE x \in Lives(new) <=> x \in RHS
  <2>1. CASE x[1] # s
    <3>1. new[x[1]] = sts[x[1]]
      BY <1>0, <1>8, <2>1
    <3>2. x \in Lives(new) <=> x \in Lives(sts)
      BY <1>7, <3>1
    <3> QED BY <1>12, <2>1, <3>2
  <2>2. CASE x[1] = s
    <3>1. new[x[1]] = m /\ sts[x[1]] = st
      BY <1>0, <1>8, <2>2 DEF st
    <3>2. x \in Lives(new) <=> LiveAt(m, x[2]) /\ x[3] = PairOf(m, x[2])
      BY <1>7, <3>1
    <3>3. x \in Lives(sts) <=> LiveAt(st, x[2]) /\ x[3] = PairOf(st, x[2])
      BY <1>7, <3>1
    <3>4. CASE x[2] = left
      <4>1. x \in Lives(new) <=> after # 0 /\ x[3] = <<id, st.tokens[after]>>
        <5>1. LiveAt(st, left)
          BY DEF st
        <5> QED BY <1>3, <1>6, <3>2, <3>4, <5>1
      <4>2. x \in Lives(sts) <=> x = Gone(st, s, left)
        <5>1. LiveAt(st, left)
          BY DEF st
        <5> QED BY <1>12, <2>2, <3>3, <3>4, <5>1
      <4>3. x \notin NewL(st, s, left, id)
        BY <1>4, <1>12, <3>4
      <4>4. <<id, st.tokens[after]>> # PairOf(st, left)
        BY DEF PairOf, st
      <4> QED BY <1>12, <2>2, <3>4, <4>1, <4>2, <4>3, <4>4
    <3>5. CASE x[2] = right
      <4>1. x \notin Lives(new)
        BY <1>6, <3>2, <3>5
      <4>2. x \notin NewL(st, s, left, id) /\ x \notin NewR(st, s, left, id)
        BY <1>3, <1>4, <1>12, <3>5
      <4>3. x \in Lives(sts) => x \in LostR(st, s, left)
        <5>1. LiveAt(st, right) => after # 0
          BY DEF LiveAt, after
        <5> QED BY <1>12, <2>2, <3>3, <3>5, <5>1
      <4> QED BY <4>1, <4>2, <4>3
    <3>6. CASE x[2] = bef /\ x[2] # left /\ x[2] # right
      <4>0. LiveAt(m, bef) => bef # 0
        <5>1. LiveAt(m, bef) => LiveAt(st, bef)
          BY <1>6
        <5>2. LiveAt(st, bef) => bef # 0
          BY DEF LiveAt, Alive
        <5> QED BY <5>1, <5>2
      <4>1. x \in Lives(new) <=> bef # 0 /\ x[3] = <<st.tokens[bef], id>>
        BY <1>4, <1>6, <3>2, <3>6, <4>0
      <4>2. x \in Lives(sts) => x \in LostL(st, s, left)
        <5>2. LiveAt(st, bef) => bef # 0
          BY DEF LiveAt, Alive
        <5> QED BY <1>12, <2>2, <3>3, <3>6, <5>2
      <4>3. x \notin NewR(st, s, left, id) /\ x # Gone(st, s, left)
        BY <1>12, <3>6
      <4> QED BY <1>12, <2>2, <3>6, <4>1, <4>2, <4>3
    <3>7. CASE x[2] # bef /\ x[2] # left /\ x[2] # right
      <4>1. x \in Lives(new) <=> x \in Lives(sts)
        BY <1>6, <3>2, <3>3, <3>7
      <4> QED BY <1>12, <3>7, <4>1
    <3> QED BY <3>4, <3>5, <3>6, <3>7
  <2> QED BY <2>1, <2>2
<1> HIDE DEF RHS
<1>14. Lives(new) = RHS
  BY <1>7, <1>11, <1>13
<1> QED BY <1>14 DEF RHS, st, LivesAfter

(* What leaves was live, and what comes was not.                           *)
LEMMA LivesAround ==
  ASSUME NEW K \in Nat, NEW sts, Words(sts, K), NEW s \in 1 .. Len(sts), NEW left, LiveAt(sts[s], left),
         NEW id \in 1 .. K, id # sts[s].tokens[left]
  PROVE  /\ LostL(sts[s], s, left) \subseteq Lives(sts)
         /\ LostR(sts[s], s, left) \subseteq Lives(sts) \ LostL(sts[s], s, left)
         /\ NewL(sts[s], s, left, id) \cap Lives(sts) = {}
         /\ NewR(sts[s], s, left, id) \cap (Lives(sts) \cup NewL(sts[s], s, left, id)) = {}
<1> DEFINE st == sts[s]  right == st.next[left]  after == st.next[right]  bef == st.prev[left]
<1>2. PICK pos : WordOK(st, pos, K)
  BY DEF Words
<1>3. /\ left \in Nat /\ right \in Nat /\ left # right /\ left < right /\ left # 0 /\ right # 0 /\ Alive(st, left) /\ Alive(st, right)
  BY <1>2, LiveTyping
<1>4. bef # 0 => bef # left /\ bef # right /\ LiveAt(st, bef) /\ st.next[bef] = left
  <2> SUFFICES ASSUME bef # 0
               PROVE  bef # left /\ bef # right /\ LiveAt(st, bef) /\ st.next[bef] = left
    OBVIOUS
  <2>1. Alive(st, bef) /\ bef < left /\ st.next[bef] = left
    BY <1>2, <1>3, LinkFacts
  <2>2. LiveAt(st, bef)
    BY <1>3, <2>1 DEF LiveAt
  <2>3. bef \in Nat
    BY <1>2, <2>2, LiveTyping
  <2> QED BY <1>3, <2>1, <2>2, <2>3
<1>5. after # 0 => LiveAt(st, right)
  BY <1>3 DEF LiveAt
<1>6. \A x \in Lives(sts) : x = <<x[1], x[2], x[3]>> /\ x[3] = PairOf(sts[x[1]], x[2])
  BY DEF Lives, Triples
<1>7. \A l : LiveAt(st, l) => <<s, l, PairOf(st, l)>> \in Lives(sts)
  BY LivesIn
<1>8. bef # 0 => PairOf(st, bef) = <<st.tokens[bef], st.tokens[left]>>
  BY <1>4 DEF PairOf
<1>9. PairOf(st, left) = <<st.tokens[left], st.tokens[right]>>
  BY DEF PairOf
<1> HIDE DEF st, right, after, bef
<1>10. id # st.tokens[left] /\ sts[s] = st
  BY DEF st
<1>11. /\ \A x : x \in LostL(st, s, left) <=> bef # 0 /\ x = <<s, bef, PairOf(st, bef)>>
       /\ \A x : x \in LostR(st, s, left) <=> after # 0 /\ x = <<s, right, PairOf(st, right)>>
       /\ \A x : x \in NewL(st, s, left, id) <=> bef # 0 /\ x = <<s, bef, <<st.tokens[bef], id>>>>
       /\ \A x : x \in NewR(st, s, left, id) <=> after # 0 /\ x = <<s, left, <<id, st.tokens[after]>>>>
  BY DEF LostL, LostR, NewL, NewR, Opt, bef, after, right
<1>12. LostL(st, s, left) \subseteq Lives(sts)
  BY <1>4, <1>7, <1>11
<1>13. LostR(st, s, left) \subseteq Lives(sts) \ LostL(st, s, left)
  BY <1>4, <1>5, <1>7, <1>11
<1>14. NewL(st, s, left, id) \cap Lives(sts) = {}
  <2> SUFFICES ASSUME NEW x, x \in NewL(st, s, left, id), x \in Lives(sts) PROVE FALSE
    OBVIOUS
  <2>1. bef # 0 /\ x[1] = s /\ x[2] = bef /\ x[3] = <<st.tokens[bef], id>>
    BY <1>11
  <2>2. x[3] = PairOf(st, bef)
    BY <1>6, <1>10, <2>1
  <2>3. <<st.tokens[bef], id>> = <<st.tokens[bef], st.tokens[left]>>
    BY <1>8, <2>1, <2>2
  <2> QED BY <1>10, <2>3
<1>15. NewR(st, s, left, id) \cap (Lives(sts) \cup NewL(st, s, left, id)) = {}
  <2> SUFFICES ASSUME NEW x, x \in NewR(st, s, left, id), x \in Lives(sts) \/ x \in NewL(st, s, left, id) PROVE FALSE
    OBVIOUS
  <2>1. x[1] = s /\ x[2] = left /\ x[3] = <<id, st.tokens[after]>>
    BY <1>11
  <2>2. CASE x \in Lives(sts)
    <3>1. x[3] = PairOf(st, left)
      BY <1>6, <1>10, <2>1, <2>2
    <3>2. <<id, st.tokens[after]>> = <<st.tokens[left], st.tokens[right]>>
      BY <1>9, <2>1, <3>1
    <3> QED BY <1>10, <3>2
  <2>3. CASE x \in NewL(st, s, left, id)
    <3>1. bef # 0 /\ x[2] = bef
      BY <1>11, <2>3
    <3> QED BY <1>4, <2>1, <3>1
  <2> QED BY <2>2, <2>3
<1> QED BY <1>10, <1>12, <1>13, <1>14, <1>15

-----------------------------------------------------------------------------
(* The tables along a merge.                                               *)

Tab(info, R, cnt, Q) ==
  InfoOK(info) /\ Exact(info, R, cnt, Q) /\ Complete(info, R, Q) /\ SortedAll(info)

SameLists(info, new) ==
  DOMAIN new = DOMAIN info /\ \A q \in DOMAIN info : new[q].locations = info[q].locations

(* Only the one spot of the one pair was listed, if n is a node.           *)
Gains(info, new, n, key, spot) ==
  /\ DOMAIN new = IF n = 0 THEN DOMAIN info ELSE DOMAIN info \cup {key}
  /\ \A q \in DOMAIN new : \A s : Listed(s, new[q].locations) =>
       \/ q \in DOMAIN info /\ Listed(s, info[q].locations)
       \/ n # 0 /\ q = key /\ s = spot

LEMMA SubtractOpt ==
  ASSUME NEW info, NEW R, NEW cnt, NEW Q, Tab(info, R, cnt, Q),
         NEW n, NEW x, Opt(n, x) \subseteq R, NEW c \in Nat, c = cnt[x[1]],
         NEW key, n # 0 => key = x[3],
         NEW new, new = IF n = None THEN info ELSE Subtract(info, key, c)
  PROVE  Tab(new, R \ Opt(n, x), cnt, Q) /\ SameLists(info, new)
<1>1. CASE n = 0
  <2>1. Opt(n, x) = {} /\ new = info
    BY <1>1 DEF Opt, None
  <2> QED BY <2>1 DEF SameLists
<1>2. CASE n # 0
  <2>1. Opt(n, x) = {x} /\ x \in R /\ new = Subtract(info, x[3], c)
    BY <1>2 DEF Opt, None
  <2>2. InfoOK(info) /\ Exact(info, R, cnt, Q) /\ Complete(info, R, Q) /\ SortedAll(info)
    BY DEF Tab
  <2>3. /\ InfoOK(new) /\ DOMAIN new = DOMAIN info
        /\ \A q \in DOMAIN info : new[q].locations = info[q].locations
        /\ Exact(new, R \ {x}, cnt, Q) /\ Complete(new, R \ {x}, Q)
    BY <2>1, <2>2, SubtractExact
  <2>4. SortedAll(new)
    BY <2>2, <2>3 DEF SortedAll
  <2> QED BY <2>1, <2>3, <2>4 DEF Tab, SameLists
<1> QED BY <1>1, <1>2

LEMMA AddOpt ==
  ASSUME NEW info, NEW R, NEW cnt, NEW Q, Tab(info, R, cnt, Q),
         NEW n, NEW x, Opt(n, x) \cap R = {}, NEW c \in Nat, c = cnt[x[1]],
         n # 0 => x[3] \in Pairs /\ <<x[1], x[2]>> \in Spots,
         n # 0 /\ x[3] \in DOMAIN info => \A s : Listed(s, info[x[3]].locations) /\ s[1] = x[1] => s[2] < x[2],
         NEW new, new = IF n = None THEN info ELSE Add(info, x[3], c, <<x[1], x[2]>>)
  PROVE  Tab(new, R \cup Opt(n, x), cnt, Q) /\ Gains(info, new, n, x[3], <<x[1], x[2]>>)
<1>1. CASE n = 0
  <2>1. Opt(n, x) = {} /\ new = info
    BY <1>1 DEF Opt, None
  <2> QED BY <1>1, <2>1 DEF Gains
<1>2. CASE n # 0
  <2>0. PICK spot \in Spots : spot = <<x[1], x[2]>> /\ spot[1] = x[1] /\ spot[2] = x[2]
    BY <1>2
  <2>1. Opt(n, x) = {x} /\ x \notin R /\ new = Add(info, x[3], c, spot) /\ x[3] \in Pairs
    BY <1>2, <2>0 DEF Opt, None
  <2>2. InfoOK(info) /\ Exact(info, R, cnt, Q) /\ Complete(info, R, Q) /\ SortedAll(info)
    BY DEF Tab
  <2>3. Fits(info, x[3], spot)
    BY <1>2, <2>0 DEF Fits
  <2>4. Grown(info, R, cnt, Q, x, spot, new)
    <3>1. Grown(info, R, cnt, Q, x, spot, Add(info, x[3], c, spot))
      BY <2>0, <2>1, <2>2, <2>3, AddExact
    <3> QED BY <2>1, <3>1
  <2> QED BY <1>2, <2>0, <2>1, <2>4 DEF Tab, Gains, Grown
<1> QED BY <1>1, <1>2

LEMMA ListsKept ==
  ASSUME NEW info, NEW new, SameLists(info, new), NEW key, NEW spot, Fits(info, key, spot)
  PROVE  Fits(new, key, spot)
BY DEF SameLists, Fits

(* The tables of MergePlace, for a word st, its node left and the node's   *)
(* neighbours bef, right and after.                                        *)
Neighbours(st, left, bef, right, after) ==
  bef = st.prev[left] /\ right = st.next[left] /\ after = st.next[right]

Lessened(info, st, bef, left, right, after, less) ==
  \E less1 :
    /\ less1 = IF bef = None THEN info
               ELSE Subtract(info, <<st.tokens[bef], st.tokens[left]>>, st.count)
    /\ less = IF after = None THEN less1
              ELSE Subtract(less1, <<st.tokens[right], st.tokens[after]>>, st.count)

Increased(less, st, s, bef, left, after, id, more) ==
  \E more1 :
    /\ more1 = IF bef = None THEN less
               ELSE Add(less, <<st.tokens[bef], id>>, st.count, <<s, bef>>)
    /\ more = IF after = None THEN more1
              ELSE Add(more1, <<id, st.tokens[after]>>, st.count, <<s, left>>)

(* Only the spots of the new pairs were listed.                            *)
NewSpots(info, more, st, s, bef, left, after, id) ==
  /\ \A q \in DOMAIN more :
       \/ q \in DOMAIN info
       \/ bef # 0 /\ q = <<st.tokens[bef], id>>
       \/ after # 0 /\ q = <<id, st.tokens[after]>>
  /\ \A q \in DOMAIN more : \A x : Listed(x, more[q].locations) =>
       \/ q \in DOMAIN info /\ Listed(x, info[q].locations)
       \/ bef # 0 /\ q = <<st.tokens[bef], id>> /\ x = <<s, bef>>
       \/ after # 0 /\ q = <<id, st.tokens[after]>> /\ x = <<s, left>>

LEMMA LessStep ==
  ASSUME NEW K \in Nat, NEW sts, Words(sts, K), NEW s \in 1 .. Len(sts), NEW left, LiveAt(sts[s], left),
         NEW id \in 1 .. K, id # sts[s].tokens[left], NEW info, NEW Q, Tab(info, Lives(sts), Cnt(sts), Q),
         NEW bef, NEW right, NEW after, Neighbours(sts[s], left, bef, right, after),
         NEW less, Lessened(info, sts[s], bef, left, right, after, less)
  PROVE  /\ Tab(less, (Lives(sts) \ LostL(sts[s], s, left)) \ LostR(sts[s], s, left), Cnt(sts), Q)
         /\ SameLists(info, less)
<1>1. PICK st : st = sts[s]
  OBVIOUS
<1>2. bef = st.prev[left] /\ right = st.next[left] /\ after = st.next[right]
  BY <1>1 DEF Neighbours
<1>3. PICK less1 :
        /\ less1 = IF bef = None THEN info
                   ELSE Subtract(info, <<st.tokens[bef], st.tokens[left]>>, st.count)
        /\ less = IF after = None THEN less1
                  ELSE Subtract(less1, <<st.tokens[right], st.tokens[after]>>, st.count)
  BY <1>1 DEF Lessened
<1>4. PICK pos : WordOK(st, pos, K)
  BY <1>1 DEF Words
<1>5. PICK cnt : cnt = Cnt(sts)
  OBVIOUS
<1>6. PICK c \in Nat : c = st.count /\ cnt[s] = c
  <2>1. WordFacts(st, pos)
    BY <1>4, WordTyping
  <2> QED BY <1>1, <1>5, <2>1 DEF WordFacts, Cnt
<1>7. PICK x, y : x = <<s, bef, PairOf(st, bef)>> /\ y = <<s, right, PairOf(st, right)>>
  OBVIOUS
<1>8. LostL(st, s, left) = Opt(bef, x) /\ LostR(st, s, left) = Opt(after, y)
  BY <1>2, <1>7 DEF LostL, LostR
<1>9. PICK R, R1 : R = Lives(sts) /\ R1 = R \ Opt(bef, x)
  OBVIOUS
<1>10. Opt(bef, x) \subseteq R /\ Opt(after, y) \subseteq R1
  BY <1>1, <1>8, <1>9, LivesAround
<1>11. Alive(st, left) /\ (bef # 0 => st.next[bef] = left)
  <2>1. Alive(st, left)
    BY <1>1 DEF LiveAt
  <2> QED BY <1>2, <1>4, <2>1, LinkFacts
<1>12. Tab(less1, R1, cnt, Q) /\ SameLists(info, less1)
  <2>1. PICK key : key = <<st.tokens[bef], st.tokens[left]>>
    OBVIOUS
  <2>2. bef # 0 => key = x[3]
    BY <1>7, <1>11, <2>1 DEF PairOf
  <2>3. less1 = IF bef = None THEN info ELSE Subtract(info, key, c)
    BY <1>3, <1>6, <2>1
  <2>4. c = cnt[x[1]] /\ Tab(info, R, cnt, Q)
    BY <1>5, <1>6, <1>7, <1>9
  <2> QED BY <1>9, <1>10, <2>2, <2>3, <2>4, SubtractOpt
<1>13. Tab(less, R1 \ Opt(after, y), cnt, Q) /\ SameLists(less1, less)
  <2>1. PICK key : key = <<st.tokens[right], st.tokens[after]>>
    OBVIOUS
  <2>2. after # 0 => key = y[3]
    BY <1>2, <1>7, <2>1 DEF PairOf
  <2>3. less = IF after = None THEN less1 ELSE Subtract(less1, key, c)
    BY <1>3, <1>6, <2>1
  <2>4. c = cnt[y[1]]
    BY <1>5, <1>6, <1>7, <1>9
  <2> QED BY <1>10, <1>12, <2>2, <2>3, <2>4, SubtractOpt
<1>14. SameLists(info, less)
  BY <1>12, <1>13 DEF SameLists
<1> QED BY <1>1, <1>5, <1>8, <1>9, <1>13, <1>14

LEMMA MoreStep ==
  ASSUME NEW K \in Nat, NEW sts, Words(sts, K), NEW s \in 1 .. Len(sts), NEW left, LiveAt(sts[s], left),
         NEW id \in 1 .. K, id # sts[s].tokens[left],
         NEW bef, NEW right, NEW after, Neighbours(sts[s], left, bef, right, after),
         NEW info, NEW Q, NEW less, SameLists(info, less),
         Tab(less, (Lives(sts) \ LostL(sts[s], s, left)) \ LostR(sts[s], s, left), Cnt(sts), Q),
         bef # 0 => Fits(info, <<sts[s].tokens[bef], id>>, <<s, bef>>),
         after # 0 => Fits(info, <<id, sts[s].tokens[after]>>, <<s, left>>),
         NEW more, Increased(less, sts[s], s, bef, left, after, id, more)
  PROVE  /\ Tab(more, ((Lives(sts) \ LostL(sts[s], s, left)) \ LostR(sts[s], s, left)) \cup NewL(sts[s], s, left, id)
                         \cup NewR(sts[s], s, left, id), Cnt(sts), Q)
         /\ NewSpots(info, more, sts[s], s, bef, left, after, id)
<1>1. PICK st : st = sts[s]
  OBVIOUS
<1>2. bef = st.prev[left] /\ right = st.next[left] /\ after = st.next[right]
  BY <1>1 DEF Neighbours
<1>3. PICK more1 :
        /\ more1 = IF bef = None THEN less
                   ELSE Add(less, <<st.tokens[bef], id>>, st.count, <<s, bef>>)
        /\ more = IF after = None THEN more1
                  ELSE Add(more1, <<id, st.tokens[after]>>, st.count, <<s, left>>)
  BY <1>1 DEF Increased
<1>4. PICK pos : WordOK(st, pos, K)
  BY <1>1 DEF Words
<1>5. PICK cnt : cnt = Cnt(sts)
  OBVIOUS
<1>6. PICK c \in Nat : c = st.count /\ cnt[s] = c /\ s \in Nat
  <2>1. WordFacts(st, pos)
    BY <1>4, WordTyping
  <2>2. sts \in Seq(Rec)
    BY DEF Words
  <2>3. s \in Nat
    BY <2>2, LenProperties
  <2> QED BY <1>1, <1>5, <2>1, <2>3 DEF WordFacts, Cnt
<1>7. PICK kl, kr : kl = <<st.tokens[bef], id>> /\ kr = <<id, st.tokens[after]>>
  OBVIOUS
<1>16. PICK x, y : x = <<s, bef, kl>> /\ y = <<s, left, kr>>
  OBVIOUS
<1>8. /\ x = <<s, bef, kl>> /\ x[1] = s /\ x[2] = bef /\ x[3] = kl
      /\ y = <<s, left, kr>> /\ y[1] = s /\ y[2] = left /\ y[3] = kr
  BY <1>16
<1>9. NewL(st, s, left, id) = Opt(bef, x) /\ NewR(st, s, left, id) = Opt(after, y)
  BY <1>2, <1>7, <1>8 DEF NewL, NewR
<1>10. PICK R, R1 : R = (Lives(sts) \ LostL(st, s, left)) \ LostR(st, s, left) /\ R1 = R \cup Opt(bef, x)
  OBVIOUS
<1>11. Opt(bef, x) \cap R = {} /\ Opt(after, y) \cap R1 = {}
  <2>1. PICK L, A, C : L = Lives(sts) /\ A = NewL(st, s, left, id) /\ C = NewR(st, s, left, id)
    OBVIOUS
  <2>2. A \cap L = {} /\ C \cap (L \cup A) = {}
    BY <1>1, <2>1, LivesAround
  <2>3. R \subseteq L /\ R1 = R \cup A
    BY <1>9, <1>10, <2>1
  <2>4. A \cap R = {} /\ C \cap R1 = {}
    BY <2>2, <2>3
  <2> QED BY <1>9, <2>1, <2>4
<1>12. /\ left \in Nat /\ Alive(st, left)
       /\ bef # 0 => bef \in Nat /\ bef < left /\ st.tokens[bef] \in Nat
       /\ after # 0 => st.tokens[after] \in Nat
  <2>1. left \in Nat /\ Alive(st, left) /\ Alive(st, right) /\ left # 0
    BY <1>1, <1>2, <1>4, LiveTyping
  <2>2. ASSUME bef # 0 PROVE bef \in Nat /\ bef < left /\ st.tokens[bef] \in Nat
    <3>1. Alive(st, bef) /\ bef < left /\ st.next[bef] = left
      BY <1>2, <1>4, <2>1, <2>2, LinkFacts
    <3>2. LiveAt(st, bef)
      BY <2>1, <3>1 DEF LiveAt
    <3>3. bef \in Nat /\ st.tokens[bef] \in 1 .. K
      BY <1>4, <3>2, LiveTyping
    <3> QED BY <3>1, <3>3
  <2>3. ASSUME after # 0 PROVE st.tokens[after] \in Nat
    <3>1. LiveAt(st, right)
      BY <1>2, <2>1, <2>3 DEF LiveAt
    <3>2. st.tokens[st.next[right]] \in 1 .. K
      BY <1>4, <3>1, LiveTyping
    <3> QED BY <1>2, <3>2
  <2> QED BY <2>1, <2>2, <2>3, Zenon
<1>13. Tab(more1, R1, cnt, Q) /\ Gains(less, more1, bef, kl, <<s, bef>>)
  <2>1. bef # 0 => x[3] \in Pairs /\ <<x[1], x[2]>> \in Spots
    BY <1>6, <1>7, <1>8, <1>12 DEF Pairs, Spots
  <2>2. bef # 0 => Fits(less, kl, <<s, bef>>)
    BY <1>1, <1>7, ListsKept
  <2>3. bef # 0 /\ x[3] \in DOMAIN less => \A z : Listed(z, less[x[3]].locations) /\ z[1] = x[1] => z[2] < x[2]
    BY <1>8, <2>2 DEF Fits
  <2>4. more1 = IF bef = None THEN less ELSE Add(less, x[3], c, <<x[1], x[2]>>)
    BY <1>3, <1>6, <1>7, <1>8
  <2>5. c = cnt[x[1]] /\ Tab(less, R, cnt, Q)
    BY <1>1, <1>5, <1>6, <1>8, <1>10
  <2>6. Tab(more1, R \cup Opt(bef, x), cnt, Q) /\ Gains(less, more1, bef, x[3], <<x[1], x[2]>>)
    BY <1>11, <2>1, <2>3, <2>4, <2>5, AddOpt
  <2> QED BY <1>8, <1>10, <2>6
<1>14. Tab(more, R1 \cup Opt(after, y), cnt, Q) /\ Gains(more1, more, after, kr, <<s, left>>)
  <2>1. after # 0 => y[3] \in Pairs /\ <<y[1], y[2]>> \in Spots
    BY <1>6, <1>7, <1>8, <1>12 DEF Pairs, Spots
  <2>2. after # 0 => Fits(less, kr, <<s, left>>)
    BY <1>1, <1>7, ListsKept
  <2>3. ASSUME after # 0, y[3] \in DOMAIN more1, NEW z, Listed(z, more1[y[3]].locations), z[1] = y[1]
        PROVE  z[2] < y[2]
    <3>1. \/ kr \in DOMAIN less /\ Listed(z, less[kr].locations)
          \/ bef # 0 /\ z = <<s, bef>>
      <4>1. kr \in DOMAIN more1 /\ Listed(z, more1[kr].locations)
        BY <1>8, <2>3
      <4> QED BY <1>13, <4>1 DEF Gains
    <3>2. kr \in DOMAIN less /\ Listed(z, less[kr].locations) => z[2] < left
      BY <1>8, <2>2, <2>3 DEF Fits
    <3> QED BY <1>8, <1>12, <3>1, <3>2
  <2>4. more = IF after = None THEN more1 ELSE Add(more1, y[3], c, <<y[1], y[2]>>)
    BY <1>3, <1>6, <1>7, <1>8
  <2>5. c = cnt[y[1]]
    BY <1>6, <1>8
  <2>6. Tab(more, R1 \cup Opt(after, y), cnt, Q) /\ Gains(more1, more, after, y[3], <<y[1], y[2]>>)
    BY <1>11, <1>13, <2>1, <2>3, <2>4, <2>5, AddOpt
  <2> QED BY <1>8, <2>6
<1>15. NewSpots(info, more, st, s, bef, left, after, id)
  <2>1. /\ DOMAIN less = DOMAIN info
        /\ \A q \in DOMAIN info : less[q].locations = info[q].locations
    BY DEF SameLists
  <2>2. /\ DOMAIN more1 = IF bef = 0 THEN DOMAIN info ELSE DOMAIN info \cup {kl}
        /\ \A q \in DOMAIN more1 : \A z : Listed(z, more1[q].locations) =>
             \/ q \in DOMAIN info /\ Listed(z, info[q].locations)
             \/ bef # 0 /\ q = kl /\ z = <<s, bef>>
    BY <1>13, <2>1 DEF Gains
  <2>3. /\ DOMAIN more = IF after = 0 THEN DOMAIN more1 ELSE DOMAIN more1 \cup {kr}
        /\ \A q \in DOMAIN more : \A z : Listed(z, more[q].locations) =>
             \/ q \in DOMAIN more1 /\ Listed(z, more1[q].locations)
             \/ after # 0 /\ q = kr /\ z = <<s, left>>
    BY <1>14 DEF Gains
  <2>4. \A q \in DOMAIN more : q \in DOMAIN info \/ (bef # 0 /\ q = kl) \/ (after # 0 /\ q = kr)
    BY <2>2, <2>3
  <2>5. ASSUME NEW q \in DOMAIN more, NEW z, Listed(z, more[q].locations)
        PROVE  \/ q \in DOMAIN info /\ Listed(z, info[q].locations)
               \/ bef # 0 /\ q = kl /\ z = <<s, bef>>
               \/ after # 0 /\ q = kr /\ z = <<s, left>>
    <3>1. \/ q \in DOMAIN more1 /\ Listed(z, more1[q].locations)
          \/ after # 0 /\ q = kr /\ z = <<s, left>>
      BY <2>3, <2>5
    <3> QED BY <2>2, <3>1
  <2> QED BY <1>7, <2>4, <2>5 DEF NewSpots
<1> QED BY <1>1, <1>5, <1>9, <1>10, <1>14, <1>15

-----------------------------------------------------------------------------
(* The places still to be visited.                                         *)

TailOf(loc, rest) ==
  /\ rest \in Seq(Spots) /\ Head(loc) \in Spots /\ Listed(Head(loc), loc)
  /\ \A x : Listed(x, loc) <=> x = Head(loc) \/ Listed(x, rest)
  /\ Sorted(loc) => /\ Sorted(rest)
                    /\ \A x : Listed(x, rest) /\ x[1] = Head(loc)[1] => Head(loc)[2] < x[2]

LEMMA TailListed ==
  ASSUME NEW loc \in Seq(Spots), loc # <<>>
  PROVE  TailOf(loc, Tail(loc))
<1>1. PICK rest \in Seq(Spots) : rest = Tail(loc) /\ Len(rest) = Len(loc) - 1
        /\ \A i \in 1 .. Len(rest) : rest[i] = loc[i + 1]
  BY HeadTailProperties
<1>2. Head(loc) = loc[1] /\ Head(loc) \in Spots /\ Len(loc) \in Nat /\ Len(loc) > 0
  BY HeadTailProperties, EmptySeq, LenProperties
<1>3. PICK n \in Nat : Len(loc) = n + 1 /\ Len(rest) = n
  <2>1. Len(loc) - 1 \in Nat
    BY <1>2
  <2>2. PICK k \in Nat : k = Len(loc) - 1
    BY <2>1
  <2>3. Len(loc) = k + 1 /\ Len(rest) = k
    BY <1>1, <1>2, <2>2
  <2> QED BY <2>3
<1>4. Listed(Head(loc), loc)
  <2>1. 1 \in 1 .. Len(loc)
    BY <1>3
  <2> QED BY <1>2, <2>1 DEF Listed
<1>5. ASSUME NEW x PROVE Listed(x, loc) <=> x = Head(loc) \/ Listed(x, rest)
  <2>1. ASSUME Listed(x, loc), x # Head(loc) PROVE Listed(x, rest)
    <3>1. PICK i \in 1 .. Len(loc) : loc[i] = x
      BY <2>1 DEF Listed
    <3>2. i # 1
      BY <1>2, <2>1, <3>1
    <3>3. i - 1 \in 1 .. n /\ (i - 1) + 1 = i
      BY <1>3, <3>2
    <3>4. rest[i - 1] = x
      BY <1>1, <1>3, <3>1, <3>3
    <3> QED BY <1>3, <3>3, <3>4 DEF Listed
  <2>2. ASSUME Listed(x, rest) PROVE Listed(x, loc)
    <3>1. PICK i \in 1 .. Len(rest) : rest[i] = x
      BY <2>2 DEF Listed
    <3>2. i + 1 \in 1 .. Len(loc) /\ loc[i + 1] = x
      BY <1>1, <1>3, <3>1
    <3> QED BY <3>2 DEF Listed
  <2> QED BY <1>4, <2>1, <2>2
<1>6. ASSUME Sorted(loc) PROVE Sorted(rest)
  <2> SUFFICES ASSUME NEW i \in 1 .. Len(rest), NEW j \in 1 .. Len(rest), i < j, rest[i][1] = rest[j][1]
               PROVE  rest[i][2] < rest[j][2]
    BY DEF Sorted
  <2>1. i + 1 \in 1 .. Len(loc) /\ j + 1 \in 1 .. Len(loc) /\ i + 1 < j + 1
    BY <1>3
  <2>2. rest[i] = loc[i + 1] /\ rest[j] = loc[j + 1]
    BY <1>1
  <2> QED BY <1>6, <2>1, <2>2 DEF Sorted
<1>7. ASSUME Sorted(loc), NEW x, Listed(x, rest), x[1] = Head(loc)[1] PROVE Head(loc)[2] < x[2]
  <2>1. PICK i \in 1 .. Len(rest) : rest[i] = x
    BY <1>7 DEF Listed
  <2>2. i + 1 \in 1 .. Len(loc) /\ 1 \in 1 .. Len(loc) /\ 1 < i + 1 /\ loc[i + 1] = x
    BY <1>1, <1>3, <2>1
  <2> QED BY <1>2, <1>7, <2>2 DEF Sorted
<1> QED BY <1>1, <1>2, <1>4, <1>5, <1>6, <1>7 DEF TailOf

-----------------------------------------------------------------------------
(* What holds when a pair is to be picked, and while one is merged.        *)

Within(info, K)     == \A q \in DOMAIN info : q[1] \in 1 .. K /\ q[2] \in 1 .. K
AllValid(info, sts) == \A q \in DOMAIN info : \A x : Listed(x, info[q].locations) => Valid(sts, x)

Picking(sts, info, K) ==
  Words(sts, K) /\ Tab(info, Lives(sts), Cnt(sts), Pairs) /\ Within(info, K) /\ AllValid(info, sts)

(* Every live place of the pair is still to be visited.                    *)
Todo(sts, pr, loc) ==
  /\ loc \in Seq(Spots) /\ Sorted(loc)
  /\ \A x : Listed(x, loc) => Valid(sts, x)
  /\ \A x \in Lives(sts) : x[3] = pr => Listed(<<x[1], x[2]>>, loc)

(* The new tokens lie to the left of the places still to be visited.       *)
IdLeft(sts, id, loc) ==
  \A s \in 1 .. Len(sts) : \A i, l :
    Alive(sts[s], i) /\ sts[s].tokens[i] = id /\ Listed(<<s, l>>, loc) => i < l

(* So does what is listed for the new pairs, with a live node in between.  *)
Between(st, x, i, strict, loc) ==
  /\ Alive(st, i) /\ x[2] <= i /\ (strict => x[2] < i)
  /\ \A l : Listed(<<x[1], l>>, loc) => i < l
Behind(info, sts, id, loc) ==
  \A q \in DOMAIN info : q[1] = id \/ q[2] = id =>
    \A x : Listed(x, info[q].locations) => \E i : Between(sts[x[1]], x, i, q[2] = id, loc)

Merging(sts, info, pr, loc, K) ==
  /\ Words(sts, K) /\ pr \in Pairs /\ pr[1] \in 1 .. K - 1 /\ pr[2] \in 1 .. K - 1
  /\ pr \notin DOMAIN info /\ Tab(info, Lives(sts), Cnt(sts), Pairs \ {pr})
  /\ Within(info, K) /\ AllValid(info, sts)
  /\ Todo(sts, pr, loc) /\ IdLeft(sts, K, loc) /\ Behind(info, sts, K, loc)

(* A stale place is skipped.                                               *)
LEMMA SkipKeeps ==
  ASSUME NEW K \in Nat, NEW sts, NEW info, NEW pr, NEW loc, Merging(sts, info, pr, loc, K), loc # <<>>,
         ~(LiveAt(sts[Head(loc)[1]], Head(loc)[2]) /\ PairOf(sts[Head(loc)[1]], Head(loc)[2]) = pr)
  PROVE  Merging(sts, info, pr, Tail(loc), K)
<1>1. loc \in Seq(Spots) /\ Sorted(loc) /\ Todo(sts, pr, loc) /\ IdLeft(sts, K, loc) /\ Behind(info, sts, K, loc)
  BY DEF Merging, Todo
<1>2. PICK rest : rest = Tail(loc) /\ TailOf(loc, rest)
  BY <1>1, TailListed
<1>3. rest \in Seq(Spots) /\ Sorted(rest) /\ \A x : Listed(x, loc) <=> x = Head(loc) \/ Listed(x, rest)
  BY <1>1, <1>2 DEF TailOf
<1>4. Todo(sts, pr, rest)
  <2>1. ASSUME NEW x \in Lives(sts), x[3] = pr PROVE Listed(<<x[1], x[2]>>, rest)
    <3>1. Listed(<<x[1], x[2]>>, loc)
      BY <1>1, <2>1 DEF Todo
    <3>2. LiveAt(sts[x[1]], x[2]) /\ PairOf(sts[x[1]], x[2]) = pr
      BY <2>1 DEF Lives
    <3>3. <<x[1], x[2]>> # Head(loc)
      BY <3>2
    <3> QED BY <1>3, <3>1, <3>3
  <2> QED BY <1>1, <1>3, <2>1 DEF Todo
<1>5. IdLeft(sts, K, rest)
  BY <1>1, <1>3 DEF IdLeft
<1>6. Behind(info, sts, K, rest)
  BY <1>1, <1>3 DEF Behind, Between
<1> QED BY <1>2, <1>4, <1>5, <1>6 DEF Merging

(* All places visited, the tables count every pair.                        *)
LEMMA MergeEnds ==
  ASSUME NEW K \in Nat, NEW sts, NEW info, NEW pr, Merging(sts, info, pr, <<>>, K)
  PROVE  Picking(sts, info, K) /\ \A x \in Lives(sts) : x[3] # pr
<1>1. \A x : ~Listed(x, <<>>)
  BY EmptySeq DEF Listed
<1>2. \A x \in Lives(sts) : x[3] # pr
  BY <1>1 DEF Merging, Todo
<1>3. At(Lives(sts), pr) = {}
  BY <1>2 DEF At
<1>4. Tab(info, Lives(sts), Cnt(sts), Pairs \ {pr}) /\ pr \notin DOMAIN info
  BY DEF Merging
<1>5. Exact(info, Lives(sts), Cnt(sts), Pairs)
  <2>1. ASSUME NEW q \in Pairs
        PROVE  /\ IsFiniteSet(Copies(At(Lives(sts), q), Cnt(sts)))
               /\ q \in DOMAIN info => info[q].count = Weight(At(Lives(sts), q), Cnt(sts))
               /\ q \notin DOMAIN info => At(Lives(sts), q) = {}
    <3>1. CASE q = pr
      BY <1>3, <1>4, <3>1, CopiesNone
    <3>2. CASE q # pr
      BY <1>4, <3>2 DEF Tab, Exact
    <3> QED BY <3>1, <3>2
  <2> QED BY <2>1 DEF Exact
<1>6. Complete(info, Lives(sts), Pairs)
  BY <1>2, <1>4 DEF Tab, Complete
<1> QED BY <1>2, <1>4, <1>5, <1>6 DEF Merging, Picking, Tab

(* No count falls below zero when the old pairs are taken off.             *)
LEMMA NoUnderflow ==
  ASSUME NEW info, NEW R, NEW cnt, NEW pr, Tab(info, R, cnt, Pairs \ {pr}), pr \notin DOMAIN info
  PROVE  ~Underflows(info)
<1> SUFFICES ASSUME NEW key \in DOMAIN info, info[key].count < 0 PROVE FALSE
  BY DEF Underflows
<1>1. key \in Pairs \ {pr}
  BY DEF Tab, InfoOK
<1>2. IsFiniteSet(Copies(At(R, key), cnt)) /\ info[key].count = Weight(At(R, key), cnt)
  BY <1>1 DEF Tab, Exact
<1>3. Weight(At(R, key), cnt) \in Nat
  BY <1>2, FS_CardinalityType DEF Weight
<1> QED BY <1>2, <1>3

(* The words after a merge at a live place of the pair.                    *)
WordsAfter(sts, s, left, id, K, m, new) ==
  /\ Words(new, K) /\ Len(new) = Len(sts) /\ Cnt(new) = Cnt(sts)
  /\ \A t \in 1 .. Len(sts) : new[t] = IF t = s THEN m ELSE sts[t]
  /\ \A x : Valid(sts, x) => Valid(new, x)
  /\ \A l : Alive(m, l) <=> Alive(sts[s], l) /\ l # sts[s].next[left]
  /\ MergedLives(sts[s], left, id, m)
  /\ WordPut(sts, s, m, K, new)

LEMMA WordsMerged ==
  ASSUME NEW K \in Nat, NEW sts, Words(sts, K), NEW s \in 1 .. Len(sts), NEW left, LiveAt(sts[s], left),
         NEW id \in 1 .. K, NEW m, IsMerged(sts[s], left, id, m)
  PROVE  WordsAfter(sts, s, left, id, K, m, [sts EXCEPT ![s] = m])
<1> DEFINE new == [sts EXCEPT ![s] = m]
<1>1. PICK pos : WordOK(sts[s], pos, K)
  BY DEF Words
<1>2. PICK k : Around(sts[s], pos, k, left, sts[s].next[left], sts[s].next[sts[s].next[left]])
  BY <1>1, MergeAround
<1>3. /\ WordOK(m, Drop(pos, k), K)
      /\ \A l : Alive(m, l) <=> Alive(sts[s], l) /\ l # sts[s].next[left]
  BY <1>1, <1>2, MergedWord
<1>4. MergedLives(sts[s], left, id, m)
  BY <1>1, MergedPairs
<1>5. /\ Words(new, K) /\ Len(new) = Len(sts)
      /\ \A t \in 1 .. Len(sts) : new[t] = IF t = s THEN m ELSE sts[t]
      /\ WordPut(sts, s, m, K, new)
  <2>1. PICK p : WordOK(m, p, K)
    BY <1>3
  <2>2. WordPut(sts, s, m, K, [sts EXCEPT ![s] = m])
    BY <2>1, WordsReplaced
  <2> QED BY <2>2 DEF WordPut
<1> HIDE DEF new
<1>6. m.count = sts[s].count /\ Len(m.next) = Len(sts[s].next)
  BY DEF IsMerged
<1>7. Cnt(new) = Cnt(sts)
  BY <1>5, <1>6 DEF Cnt
<1>8. \A x : Valid(sts, x) => Valid(new, x)
  BY <1>5, <1>6 DEF Valid
<1> QED BY <1>3, <1>4, <1>5, <1>7, <1>8 DEF WordsAfter, new

LEMMA TabDropped ==
  ASSUME NEW info, NEW R, NEW cnt, NEW pr, NEW x, x[3] = pr, Tab(info, R, cnt, Pairs \ {pr})
  PROVE  Tab(info, R \ {x}, cnt, Pairs \ {pr})
<1>1. \A q \in Pairs \ {pr} : At(R \ {x}, q) = At(R, q)
  BY DEF At
<1>2. Exact(info, R \ {x}, cnt, Pairs \ {pr})
  BY <1>1 DEF Tab, Exact
<1>3. Complete(info, R \ {x}, Pairs \ {pr})
  BY DEF Tab, Complete
<1> QED BY <1>2, <1>3 DEF Tab

-----------------------------------------------------------------------------
(* A live place of the pair is merged.                                     *)
LEMMA MergeKeeps ==
  ASSUME NEW K \in Nat, NEW sts, NEW info, NEW pr, NEW loc, Merging(sts, info, pr, loc, K), loc # <<>>,
         NEW s, s = Head(loc)[1], NEW left, left = Head(loc)[2],
         LiveAt(sts[s], left), PairOf(sts[s], left) = pr,
         NEW m, IsMerged(sts[s], left, K, m), NEW new, new = [sts EXCEPT ![s] = m],
         NEW bef, NEW right, NEW after, Neighbours(sts[s], left, bef, right, after),
         NEW less, Lessened(info, sts[s], bef, left, right, after, less),
         NEW more, Increased(less, sts[s], s, bef, left, after, K, more)
  PROVE  Merging(new, more, pr, Tail(loc), K) /\ ~Underflows(less)
<1>1. PICK rest : rest = Tail(loc) /\ TailOf(loc, rest)
  BY TailListed DEF Merging, Todo
<1>2. /\ Words(sts, K) /\ pr \in Pairs /\ pr[1] \in 1 .. K - 1 /\ pr[2] \in 1 .. K - 1
      /\ pr \notin DOMAIN info /\ Tab(info, Lives(sts), Cnt(sts), Pairs \ {pr})
      /\ Within(info, K) /\ AllValid(info, sts)
      /\ Todo(sts, pr, loc) /\ IdLeft(sts, K, loc) /\ Behind(info, sts, K, loc)
  BY DEF Merging
<1>3. /\ loc \in Seq(Spots) /\ Sorted(loc) /\ \A x : Listed(x, loc) => Valid(sts, x)
      /\ \A x \in Lives(sts) : x[3] = pr => Listed(<<x[1], x[2]>>, loc)
  BY <1>2 DEF Todo
<1>4. /\ rest \in Seq(Spots) /\ Head(loc) \in Spots /\ Listed(Head(loc), loc) /\ Sorted(rest)
      /\ \A x : Listed(x, loc) <=> x = Head(loc) \/ Listed(x, rest)
      /\ \A x : Listed(x, rest) /\ x[1] = s => left < x[2]
  BY <1>1, <1>3 DEF TailOf
<1>5. Head(loc) = <<s, left>>
  BY <1>4 DEF Spots
<1>6. s \in 1 .. Len(sts) /\ Valid(sts, <<s, left>>) /\ Listed(<<s, left>>, loc)
  <2>1. Valid(sts, Head(loc))
    BY <1>3, <1>4
  <2> QED BY <1>4, <1>5, <2>1 DEF Valid
<1>7. PICK st : st = sts[s]
  OBVIOUS
<1>8. PICK pos : WordOK(st, pos, K)
  BY <1>2, <1>6, <1>7 DEF Words
<1>9. /\ K \in 1 .. K /\ st.tokens[left] = pr[1] /\ st.tokens[right] = pr[2]
      /\ K # pr[1] /\ K # pr[2] /\ K # st.tokens[left]
  <2>1. st.tokens[left] = pr[1] /\ st.tokens[right] = pr[2]
    BY <1>7, Zenon DEF PairOf, Neighbours
  <2> QED BY <1>2, <2>1
<1>32. /\ bef = st.prev[left] /\ right = st.next[left] /\ after = st.next[right]
       /\ LiveAt(st, left) /\ PairOf(st, left) = pr /\ IsMerged(st, left, K, m)
  BY <1>7, Zenon DEF Neighbours
<1>10. left \in Nat /\ right \in Nat /\ left < right /\ Alive(st, left) /\ Alive(st, right) /\ left # 0
  <2>1. /\ left \in 1 .. Len(st.next) /\ left \in Nat /\ st.next[left] \in Nat /\ st.next[left] > left
        /\ Alive(st, left) /\ Alive(st, st.next[left])
    BY <1>8, <1>32, LiveTyping, Zenon
  <2>2. left # 0
    BY <2>1
  <2>3. PICK r \in Nat : r = st.next[left] /\ left < r
    BY <2>1
  <2> QED BY <1>32, <2>1, <2>2, <2>3, Zenon
<1>11. bef # 0 => /\ bef \in Nat /\ Alive(st, bef) /\ bef < left /\ st.tokens[bef] \in 1 .. K
                  /\ \A i : Alive(st, i) /\ i < left => i <= bef
  <2> SUFFICES ASSUME bef # 0
               PROVE  /\ bef \in Nat /\ Alive(st, bef) /\ bef < left /\ st.tokens[bef] \in 1 .. K
                      /\ \A i : Alive(st, i) /\ i < left => i <= bef
    BY Zenon
  <2>1. Alive(st, bef) /\ bef < left /\ st.next[bef] = left
    <3>1. st.prev[left] # 0 => /\ Alive(st, st.prev[left]) /\ st.prev[left] < left
                               /\ st.next[st.prev[left]] = left
      BY <1>8, <1>10, LinkFacts
    <3> QED BY <1>32, <3>1, Zenon
  <2>2. LiveAt(st, bef)
    BY <1>10, <2>1 DEF LiveAt
  <2>3. bef \in Nat /\ st.tokens[bef] \in 1 .. K
    BY <1>8, <2>2, LiveTyping, SMTT(40)
  <2>4. \A i : Alive(st, i) /\ i < left => i <= bef
    <3>1. \A i : Alive(st, i) /\ i < left => i <= st.prev[left]
      BY <1>8, <1>10, LinkFacts, Zenon
    <3> QED BY <1>32, <3>1
  <2> QED BY <2>1, <2>3, <2>4
<1>12. after # 0 => after \in Nat /\ Alive(st, after) /\ left < after /\ st.tokens[after] \in 1 .. K
  <2> SUFFICES ASSUME after # 0
               PROVE  after \in Nat /\ Alive(st, after) /\ left < after /\ st.tokens[after] \in 1 .. K
    BY Zenon
  <2>1. LiveAt(st, right)
    BY <1>10, <1>32, Zenon DEF LiveAt
  <2>2. Alive(st, st.next[right]) /\ st.next[right] > right /\ st.next[right] \in Nat /\ st.tokens[st.next[right]] \in 1 .. K
    BY <1>8, <2>1, LiveTyping
  <2>3. PICK a \in Nat : a = st.next[right] /\ a > right
    BY <2>2
  <2>4. left < a
    BY <1>10, <2>3
  <2> QED BY <1>32, <2>2, <2>3, <2>4, Zenon
<1>13. PICK kl, kr : kl = <<st.tokens[bef], K>> /\ kr = <<K, st.tokens[after]>>
  OBVIOUS
<1>14. kl[1] = st.tokens[bef] /\ kl[2] = K /\ kr[1] = K /\ kr[2] = st.tokens[after]
  BY <1>13
<1>15. bef # 0 => Fits(info, kl, <<s, bef>>)
  <2> SUFFICES ASSUME bef # 0, kl \in DOMAIN info, NEW x, Listed(x, info[kl].locations), x[1] = s
               PROVE  x[2] < bef
    BY DEF Fits
  <2>1. PICK i : Between(sts[x[1]], x, i, kl[2] = K, loc)
    BY <1>2, <1>14 DEF Behind
  <2>2. Alive(st, i) /\ x[2] < i /\ i < left
    BY <1>6, <1>7, <1>14, <2>1 DEF Between
  <2>3. i <= bef
    BY <1>11, <2>2
  <2>4. x[2] \in Nat /\ i \in Nat
    <3>1. Valid(sts, x)
      BY <1>2 DEF AllValid
    <3>2. Len(st.next) \in Nat
      BY <1>8, WordTyping DEF WordFacts
    <3> QED BY <1>7, <2>2, <3>1, <3>2 DEF Valid, Alive
  <2> QED BY <1>11, <2>2, <2>3, <2>4
<1>16. after # 0 => Fits(info, kr, <<s, left>>)
  <2> SUFFICES ASSUME after # 0, kr \in DOMAIN info, NEW x, Listed(x, info[kr].locations), x[1] = s
               PROVE  x[2] < left
    BY DEF Fits
  <2>1. PICK i : Between(sts[x[1]], x, i, kr[2] = K, loc)
    BY <1>2, <1>14 DEF Behind
  <2>2. Alive(st, i) /\ x[2] <= i /\ i < left
    BY <1>6, <1>7, <2>1 DEF Between
  <2>4. x[2] \in Nat /\ i \in Nat
    <3>1. Valid(sts, x)
      BY <1>2 DEF AllValid
    <3>2. Len(st.next) \in Nat
      BY <1>8, WordTyping, SMTT(40) DEF WordFacts
    <3> QED BY <1>7, <2>2, <3>1, <3>2 DEF Valid, Alive
  <2> QED BY <1>10, <2>2, <2>4
<1>17. /\ Words(new, K) /\ Len(new) = Len(sts) /\ Cnt(new) = Cnt(sts)
       /\ \A t \in 1 .. Len(sts) : new[t] = IF t = s THEN m ELSE sts[t]
       /\ \A x : Valid(sts, x) => Valid(new, x)
       /\ \A l : Alive(m, l) <=> Alive(sts[s], l) /\ l # sts[s].next[left]
       /\ MergedLives(sts[s], left, K, m) /\ WordPut(sts, s, m, K, new)
  <2>1. WordsAfter(sts, s, left, K, K, m, new)
    BY <1>2, <1>6, <1>9, WordsMerged
  <2> QED BY <2>1 DEF WordsAfter
<1>18. PICK R, R2 : /\ R = (Lives(sts) \ LostL(sts[s], s, left)) \ LostR(sts[s], s, left)
                    /\ R2 = R \cup NewL(sts[s], s, left, K) \cup NewR(sts[s], s, left, K)
  OBVIOUS
<1>19. Tab(less, R, Cnt(sts), Pairs \ {pr}) /\ SameLists(info, less)
  BY <1>2, <1>6, <1>7, <1>9, <1>18, LessStep
<1>20. Tab(more, R2, Cnt(sts), Pairs \ {pr}) /\ NewSpots(info, more, st, s, bef, left, after, K)
  <2>1. /\ bef # 0 => Fits(info, <<sts[s].tokens[bef], K>>, <<s, bef>>)
        /\ after # 0 => Fits(info, <<K, sts[s].tokens[after]>>, <<s, left>>)
    BY <1>7, <1>13, <1>15, <1>16, Zenon
  <2>2. /\ Tab(less, (Lives(sts) \ LostL(sts[s], s, left)) \ LostR(sts[s], s, left), Cnt(sts), Pairs \ {pr})
        /\ K # sts[s].tokens[left]
    BY <1>7, <1>9, <1>18, <1>19, Zenon
  <2> QED BY <1>2, <1>6, <1>7, <1>9, <1>18, <1>19, <2>1, <2>2, MoreStep, ZenonT(40)
<1>21. Lives(new) = R2 \ {Gone(sts[s], s, left)}
  <2>1. K # sts[s].tokens[left]
    BY <1>7, <1>9
  <2>2. LivesAfter(sts, s, left, K, new)
    BY <1>2, <1>6, <1>9, <1>17, <2>1, LivesMerged, ZenonT(40)
  <2> QED BY <1>18, <2>2 DEF LivesAfter
<1>22. Tab(more, Lives(new), Cnt(new), Pairs \ {pr})
  <2>1. PICK x : x = Gone(sts[s], s, left)
    OBVIOUS
  <2>2. x[3] = pr
    BY <2>1 DEF Gone
  <2>3. Tab(more, R2 \ {x}, Cnt(sts), Pairs \ {pr})
    BY <1>20, <2>2, TabDropped
  <2> QED BY <1>17, <1>21, <2>1, <2>3
<1>23. ~Underflows(less)
  BY <1>2, <1>19, NoUnderflow DEF SameLists
<1>24. /\ \A q \in DOMAIN more :
            \/ q \in DOMAIN info
            \/ bef # 0 /\ q = kl
            \/ after # 0 /\ q = kr
       /\ \A q \in DOMAIN more : \A x : Listed(x, more[q].locations) =>
            \/ q \in DOMAIN info /\ Listed(x, info[q].locations)
            \/ bef # 0 /\ q = kl /\ x = <<s, bef>>
            \/ after # 0 /\ q = kr /\ x = <<s, left>>
  BY <1>13, <1>20 DEF NewSpots
<1>25. pr \notin DOMAIN more
  BY <1>2, <1>9, <1>14, <1>24
<1>26. Within(more, K)
  BY <1>2, <1>9, <1>11, <1>12, <1>14, <1>24, ZenonT(40) DEF Within
<1>27. AllValid(more, new)
  <2>1. bef # 0 => Valid(sts, <<s, bef>>)
    BY <1>6, <1>7, <1>11 DEF Valid, Alive
  <2> QED BY <1>2, <1>6, <1>17, <1>24, <2>1 DEF AllValid
<1>28. Todo(new, pr, rest)
  <2>1. ASSUME NEW x \in Lives(new), x[3] = pr PROVE Listed(<<x[1], x[2]>>, rest)
    <3>1. x \in R2 /\ x # Gone(sts[s], s, left)
      BY <1>21
    <3>2. x \notin NewL(sts[s], s, left, K) /\ x \notin NewR(sts[s], s, left, K)
      <4>1. ASSUME NEW y \in NewL(sts[s], s, left, K) PROVE y[3][2] = K
        <5>1. \E t, a : y = <<s, t, <<a, K>>>>
          BY ZenonT(40) DEF NewL, Opt
        <5> QED BY <5>1
      <4>2. ASSUME NEW y \in NewR(sts[s], s, left, K) PROVE y[3][1] = K
        <5>1. \E a : y = <<s, left, <<K, a>>>>
          BY Zenon DEF NewR, Opt
        <5> QED BY <5>1
      <4> QED BY <1>9, <2>1, <4>1, <4>2
    <3>3. x \in Lives(sts)
      BY <1>18, <3>1, <3>2
    <3>4. Listed(<<x[1], x[2]>>, loc)
      BY <1>3, <2>1, <3>3
    <3>5. <<x[1], x[2]>> # Head(loc)
      <4>1. x = <<x[1], x[2], x[3]>>
        BY <3>3 DEF Lives, Triples
      <4> QED BY <1>5, <2>1, <3>1, <4>1 DEF Gone
    <3> QED BY <1>4, <3>4, <3>5
  <2>2. \A x : Listed(x, rest) => Valid(new, x)
    BY <1>3, <1>4, <1>17
  <2> QED BY <1>4, <2>1, <2>2 DEF Todo
<1>29. IdLeft(new, K, rest)
  <2> SUFFICES ASSUME NEW t \in 1 .. Len(sts), NEW i, NEW l, Alive(new[t], i), new[t].tokens[i] = K, Listed(<<t, l>>, rest)
               PROVE  i < l
    BY <1>17 DEF IdLeft
  <2>1. Listed(<<t, l>>, loc)
    BY <1>4, ZenonT(40)
  <2>2. CASE t # s
    BY <1>2, <1>17, <2>1, <2>2 DEF IdLeft
  <2>3. CASE t = s
    <3>1. Alive(m, i) /\ m.tokens[i] = K
      BY <1>17, <2>3
    <3>2. CASE i = left
      BY <1>4, <2>3, <3>2
    <3>3. CASE i # left
      <4>1. Alive(st, i) /\ i # right
        BY <1>7, <1>10, <1>32, <1>17, <3>1, Zenon
      <4>2. st.tokens[i] = K
        <5>1. i \in 1 .. Len(st.next)
          BY <4>1 DEF Alive
        <5> QED BY <1>7, <1>10, <1>32, <3>1, <3>3, <4>1, <5>1, Zenon DEF IsMerged
      <4> QED BY <1>2, <1>7, <2>1, <2>3, <4>1, <4>2, Zenon DEF IdLeft
    <3> QED BY <3>2, <3>3, ZenonT(40)
  <2> QED BY <2>2, <2>3
<1>30. Behind(more, new, K, rest)
  <2> SUFFICES ASSUME NEW q \in DOMAIN more, q[1] = K \/ q[2] = K, NEW x, Listed(x, more[q].locations)
               PROVE  \E i : Between(new[x[1]], x, i, q[2] = K, rest)
    BY DEF Behind
  <2>1. CASE q \in DOMAIN info /\ Listed(x, info[q].locations)
    <3>1. PICK i : Between(sts[x[1]], x, i, q[2] = K, loc)
      BY <1>2, <2>1 DEF Behind
    <3>2. /\ Alive(sts[x[1]], i) /\ x[2] <= i /\ (q[2] = K => x[2] < i)
          /\ \A l : Listed(<<x[1], l>>, loc) => i < l
      BY <3>1 DEF Between
    <3>3. \A l : Listed(<<x[1], l>>, rest) => i < l
      BY <1>4, <3>2
    <3>4. x[1] \in 1 .. Len(sts)
      BY <1>2, <2>1 DEF AllValid, Valid
    <3>5. Alive(new[x[1]], i)
      <4>1. CASE x[1] = s
        <5>1. i < left
          BY <1>6, <3>2, <4>1
        <5>2. i # right
          BY <1>10, <5>1
        <5> QED BY <1>7, <1>10, <1>32, <1>17, <3>2, <3>4, <4>1, <5>2, Zenon
      <4>2. CASE x[1] # s
        BY <1>17, <3>2, <3>4, <4>2, Zenon
      <4> QED BY <4>1, <4>2, Zenon
    <3> QED BY <3>2, <3>3, <3>5 DEF Between
  <2>2. Alive(m, left) /\ new[s] = m /\ \A l : Listed(<<s, l>>, rest) => left < l
    <3>1. left # sts[s].next[left]
      <4>1. left # right
        BY <1>10
      <4> QED BY <1>7, <1>32, <4>1, Zenon
    <3>2. Alive(m, left)
      BY <1>7, <1>10, <1>17, <3>1, Zenon
    <3>3. \A l : Listed(<<s, l>>, rest) => left < l
      BY <1>4
    <3> QED BY <1>6, <1>17, <3>2, <3>3, Zenon
  <2>3. CASE bef # 0 /\ q = kl /\ x = <<s, bef>>
    <3>1. x[1] = s /\ x[2] = bef /\ bef < left /\ bef <= left
      BY <1>10, <1>11, <2>3
    <3> QED BY <2>2, <3>1 DEF Between
  <2>4. CASE after # 0 /\ q = kr /\ x = <<s, left>>
    <3>1. x[1] = s /\ x[2] = left /\ left <= left
      BY <1>10, <2>4
    <3>2. q[2] # K
      <4>1. SUFFICES ASSUME st.tokens[after] = K PROVE FALSE
        BY <1>14, <2>4
      <4>2. after < left
        BY <1>2, <1>6, <1>7, <1>12, <2>4, <4>1, ZenonT(40) DEF IdLeft
      <4> QED BY <1>10, <1>12, <2>4, <4>2
    <3> QED BY <2>2, <3>1, <3>2 DEF Between
  <2> QED BY <1>24, <2>1, <2>3, <2>4
<1>31. Merging(new, more, pr, rest, K)
  BY <1>2, <1>17, <1>22, <1>25, <1>26, <1>27, <1>28, <1>29, <1>30 DEF Merging
<1> QED BY <1>1, <1>23, <1>31

-----------------------------------------------------------------------------
(* A pair is picked.                                                       *)

LEMMA WordGrows2 ==
  ASSUME NEW K \in Nat, NEW st, NEW pos, WordOK(st, pos, K)
  PROVE  WordOK(st, pos, K + 1)
<1>1. \A e \in 0 .. K : e \in 0 .. K + 1
  OBVIOUS
<1> QED BY <1>1 DEF WordOK

LEMMA MergeBegins ==
  ASSUME NEW K \in Nat, NEW sts, NEW info, Picking(sts, info, K), NEW best \in DOMAIN info
  PROVE  /\ Merging(sts, Restrict(info, DOMAIN info \ {best}), best, info[best].locations, K + 1)
         /\ best \in Pairs /\ best[1] \in 1 .. K /\ best[2] \in 1 .. K
<1> DEFINE D == DOMAIN info \ {best}
<1>1. PICK info2 : info2 = Restrict(info, D)
  OBVIOUS
<1>2. DOMAIN info2 = D /\ \A q \in D : info2[q] = info[q]
  BY <1>1 DEF Restrict
<1>3. PICK loc : loc = info[best].locations
  OBVIOUS
<1>4. /\ Words(sts, K) /\ InfoOK(info) /\ Exact(info, Lives(sts), Cnt(sts), Pairs)
      /\ Complete(info, Lives(sts), Pairs) /\ SortedAll(info) /\ Within(info, K) /\ AllValid(info, sts)
  BY DEF Picking, Tab
<1>5. DOMAIN info \subseteq Pairs /\ \A q \in DOMAIN info : info[q] \in Infos
  BY <1>4 DEF InfoOK
<1>6. Words(sts, K + 1)
  BY <1>4, WordGrows2 DEF Words
<1>7. best \in Pairs /\ best[1] \in 1 .. K /\ best[2] \in 1 .. K /\ K = (K + 1) - 1
  BY <1>4, <1>5 DEF Within
<1>8. InfoOK(info2)
  <2>1. info2 = [q \in D |-> info[q]]
    BY <1>1 DEF Restrict
  <2> QED BY <1>5, <2>1 DEF InfoOK
<1>9. Exact(info2, Lives(sts), Cnt(sts), Pairs \ {best})
  BY <1>2, <1>4 DEF Exact
<1>10. Complete(info2, Lives(sts), Pairs \ {best})
  BY <1>2, <1>4 DEF Complete
<1>11. SortedAll(info2)
  BY <1>2, <1>4 DEF SortedAll
<1>12. Within(info2, K + 1) /\ AllValid(info2, sts)
  <2>1. \A e \in 1 .. K : e \in 1 .. K + 1
    OBVIOUS
  <2> QED BY <1>2, <1>4, <2>1 DEF Within, AllValid
<1>13. Todo(sts, best, loc)
  <2>1. loc \in Seq(Spots)
    BY <1>3, <1>5 DEF Infos
  <2>2. Sorted(loc) /\ \A x : Listed(x, loc) => Valid(sts, x)
    BY <1>3, <1>4 DEF SortedAll, AllValid
  <2>3. \A x \in Lives(sts) : x[3] = best => Listed(<<x[1], x[2]>>, loc)
    BY <1>3, <1>4, <1>7 DEF Complete
  <2> QED BY <2>1, <2>2, <2>3 DEF Todo
<1>14. IdLeft(sts, K + 1, loc)
  <2>1. ASSUME NEW s \in 1 .. Len(sts), NEW i, Alive(sts[s], i), sts[s].tokens[i] = K + 1 PROVE FALSE
    <3>1. PICK pos : WordOK(sts[s], pos, K)
      BY <1>4 DEF Words
    <3>2. sts[s].tokens[i] \in 0 .. K
      BY <2>1, <3>1 DEF WordOK, Alive
    <3> QED BY <2>1, <3>2
  <2> QED BY <2>1 DEF IdLeft
<1>15. Behind(info2, sts, K + 1, loc)
  <2>1. ASSUME NEW q \in DOMAIN info2 PROVE q[1] # K + 1 /\ q[2] # K + 1
    <3>1. q[1] \in 1 .. K /\ q[2] \in 1 .. K
      BY <1>2, <1>4 DEF Within
    <3> QED BY <3>1
  <2> QED BY <2>1 DEF Behind
<1>16. Merging(sts, info2, best, loc, K + 1)
  BY <1>2, <1>6, <1>7, <1>8, <1>9, <1>10, <1>11, <1>12, <1>13, <1>14, <1>15 DEF Merging, Tab
<1> QED BY <1>1, <1>3, <1>7, <1>16

(* A pair that counts has a live place.                                    *)
LEMMA CountedLives ==
  ASSUME NEW info, NEW R, NEW cnt, Tab(info, R, cnt, Pairs), NEW p \in DOMAIN info, info[p].count > 0
  PROVE  \E x \in R : x[3] = p
<1>1. p \in Pairs
  BY DEF Tab, InfoOK
<1>2. info[p].count = Weight(At(R, p), cnt)
  BY <1>1 DEF Tab, Exact
<1>3. At(R, p) # {}
  BY <1>2, CopiesNone
<1> QED BY <1>3 DEF At

-----------------------------------------------------------------------------
(* The tables count as NaiveBpe does.                                      *)

Occ(w) == UNION {{k} \X (1 .. Len(w[k].tokens) - 1) \X (1 .. w[k].count) : k \in DOMAIN w}
PairIn(w, o) == <<w[o[1]].tokens[o[2]], w[o[1]].tokens[o[2] + 1]>>
OccOf(w, p) == {o \in Occ(w) : PairIn(w, o) = p}
CountsOf(w) == [p \in {PairIn(w, o) : o \in Occ(w)} |-> Cardinality(OccOf(w, p))]

(* The words as they are segmented now.                                    *)
Segmented(sts, w) ==
  /\ DOMAIN w = 1 .. Len(sts)
  /\ \A s \in 1 .. Len(sts) : w[s].count = sts[s].count /\ w[s].tokens = Walk(sts[s].tokens, sts[s].next)

LEMMA OccIn ==
  ASSUME NEW w, NEW o
  PROVE  o \in Occ(w) <=> \E s \in DOMAIN w : \E k \in 1 .. Len(w[s].tokens) - 1 : \E n \in 1 .. w[s].count : o = <<s, k, n>>
BY DEF Occ

LEMMA CopyIn ==
  ASSUME NEW A, NEW cnt, NEW y
  PROVE  y \in Copies(A, cnt) <=> \E x \in A : \E n \in 1 .. cnt[x[1]] : y = <<x, n>>
BY DEF Copies

(* The nodes of the words.                                                 *)
NodeAt(sts, s, k) == (CHOOSE pos : \E K \in Nat : WordOK(sts[s], pos, K))[k]

LEMMA NodesLive ==
  ASSUME NEW K \in Nat, NEW sts, Words(sts, K), NEW w, Segmented(sts, w), NEW s \in 1 .. Len(sts)
  PROVE  /\ Len(w[s].tokens) \in Nat
         /\ \A k \in 1 .. Len(w[s].tokens) - 1 :
              <<s, NodeAt(sts, s, k), <<w[s].tokens[k], w[s].tokens[k + 1]>>>> \in Lives(sts)
         /\ \A j, k \in 1 .. Len(w[s].tokens) - 1 : NodeAt(sts, s, j) = NodeAt(sts, s, k) => j = k
         /\ \A l : LiveAt(sts[s], l) => \E k \in 1 .. Len(w[s].tokens) - 1 : NodeAt(sts, s, k) = l
<1>1. PICK pos : /\ pos = CHOOSE p : \E N \in Nat : WordOK(sts[s], p, N)
                 /\ \E N \in Nat : WordOK(sts[s], pos, N)
  <2>1. \E p : \E N \in Nat : WordOK(sts[s], p, N)
    BY DEF Words
  <2> QED BY <2>1
<1>2. PICK N \in Nat : WordOK(sts[s], pos, N)
  BY <1>1
<1>3. PICK st : st = sts[s]
  OBVIOUS
<1>4. PICK c : c = Walk(st.tokens, st.next) /\ ChainOf(st, pos, c)
  BY <1>2, <1>3, ChainValues
<1>5. c \in Word /\ Len(c) = Len(pos) /\ Len(pos) \in Nat /\ \A k \in 1 .. Len(pos) : c[k] = st.tokens[pos[k]]
  BY <1>4 DEF ChainOf
<1>6. WordFacts(st, pos)
  BY <1>2, <1>3, WordTyping
<1>7. w[s].tokens = c /\ \A k : NodeAt(sts, s, k) = pos[k]
  BY <1>1, <1>3, <1>4 DEF Segmented, NodeAt
<1>8. ASSUME NEW k \in 1 .. Len(pos) - 1
      PROVE  <<s, pos[k], <<c[k], c[k + 1]>>>> \in Lives(sts)
  <2>1. k \in 1 .. Len(pos) /\ k + 1 \in 1 .. Len(pos) /\ k # Len(pos)
    BY <1>5
  <2>2. Alive(st, pos[k]) /\ st.next[pos[k]] = pos[k + 1] /\ pos[k + 1] # 0
    BY <1>6, <2>1 DEF WordFacts
  <2>3. c[k] = st.tokens[pos[k]] /\ c[k + 1] = st.tokens[pos[k + 1]]
    BY <1>5, <2>1
  <2>4. LiveAt(st, pos[k]) /\ PairOf(st, pos[k]) = <<c[k], c[k + 1]>>
    BY <2>2, <2>3 DEF LiveAt, PairOf
  <2>5. <<s, pos[k], PairOf(sts[s], pos[k])>> \in Lives(sts)
    BY <1>3, <2>4, LivesIn
  <2> QED BY <1>3, <2>4, <2>5
<1>9. ASSUME NEW j \in 1 .. Len(pos) - 1, NEW k \in 1 .. Len(pos) - 1, pos[j] = pos[k] PROVE j = k
  <2>1. j \in 1 .. Len(pos) /\ k \in 1 .. Len(pos)
    BY <1>5
  <2>2. (j < k => pos[j] < pos[k]) /\ (k < j => pos[k] < pos[j]) /\ pos[j] \in Nat /\ pos[k] \in Nat
    BY <1>6, <2>1 DEF WordFacts
  <2> QED BY <1>9, <2>1, <2>2
<1>10. ASSUME NEW l, LiveAt(st, l) PROVE \E k \in 1 .. Len(pos) - 1 : pos[k] = l
  <2>1. PICK k \in 1 .. Len(pos) : pos[k] = l
    BY <1>6, <1>10 DEF WordFacts, LiveAt
  <2>2. k # Len(pos)
    BY <1>6, <1>10, <2>1 DEF WordFacts, LiveAt
  <2>3. k \in 1 .. Len(pos) - 1
    BY <1>5, <2>2
  <2> QED BY <2>1, <2>3
<1>11. Len(w[s].tokens) = Len(pos)
  BY <1>5, <1>7
<1>12. \A k \in 1 .. Len(w[s].tokens) - 1 :
         <<s, NodeAt(sts, s, k), <<w[s].tokens[k], w[s].tokens[k + 1]>>>> \in Lives(sts)
  BY <1>7, <1>8, <1>11
<1>13. \A j, k \in 1 .. Len(w[s].tokens) - 1 : NodeAt(sts, s, j) = NodeAt(sts, s, k) => j = k
  BY <1>7, <1>9, <1>11
<1>14. \A l : LiveAt(sts[s], l) => \E k \in 1 .. Len(w[s].tokens) - 1 : NodeAt(sts, s, k) = l
  BY <1>3, <1>7, <1>10, <1>11
<1> QED BY <1>5, <1>11, <1>12, <1>13, <1>14

LEMMA CountsSame ==
  ASSUME NEW K \in Nat, NEW sts, Words(sts, K), NEW w, Segmented(sts, w), NEW p
  PROVE  ExistsBijection(OccOf(w, p), Copies(At(Lives(sts), p), Cnt(sts)))
<1> DEFINE S == OccOf(w, p)  T == Copies(At(Lives(sts), p), Cnt(sts))
           F == [o \in S |-> <<<<o[1], NodeAt(sts, o[1], o[2]), p>>, o[3]>>]
<1>1. DOMAIN w = 1 .. Len(sts) /\ \A s \in 1 .. Len(sts) : w[s].count = sts[s].count
  BY DEF Segmented
<1>2. ASSUME NEW o \in S
      PROVE  /\ o = <<o[1], o[2], o[3]>> /\ o[1] \in 1 .. Len(sts) /\ o[2] \in 1 .. Len(w[o[1]].tokens) - 1
             /\ o[3] \in 1 .. sts[o[1]].count
             /\ p = <<w[o[1]].tokens[o[2]], w[o[1]].tokens[o[2] + 1]>>
  <2>1. o \in Occ(w) /\ PairIn(w, o) = p
    BY DEF OccOf
  <2>2. PICK s \in DOMAIN w : \E k \in 1 .. Len(w[s].tokens) - 1 : \E n \in 1 .. w[s].count : o = <<s, k, n>>
    BY <2>1, OccIn
  <2>3. PICK k \in 1 .. Len(w[s].tokens) - 1, n \in 1 .. w[s].count : o = <<s, k, n>>
    BY <2>2
  <2>4. o[1] = s /\ o[2] = k /\ o[3] = n
    BY <2>3
  <2> QED BY <1>1, <2>1, <2>3, <2>4 DEF PairIn
<1>3. ASSUME NEW s \in 1 .. Len(sts)
      PROVE  /\ \A k \in 1 .. Len(w[s].tokens) - 1 :
                  <<s, NodeAt(sts, s, k), <<w[s].tokens[k], w[s].tokens[k + 1]>>>> \in Lives(sts)
             /\ \A j, k \in 1 .. Len(w[s].tokens) - 1 : NodeAt(sts, s, j) = NodeAt(sts, s, k) => j = k
             /\ \A l : LiveAt(sts[s], l) => \E k \in 1 .. Len(w[s].tokens) - 1 : NodeAt(sts, s, k) = l
  BY NodesLive, SMTT(40)
<1>4. \A s \in 1 .. Len(sts) : Cnt(sts)[s] = sts[s].count
  BY DEF Cnt
<1> HIDE DEF S, T
<1>5. ASSUME NEW o \in S PROVE F[o] \in T
  <2>a. PICK s \in 1 .. Len(sts) : s = o[1]
    BY <1>2
  <2>1. PICK k \in 1 .. Len(w[s].tokens) - 1 : s = o[1] /\ k = o[2]
    BY <1>2, <2>a
  <2>2. PICK x : x = <<s, NodeAt(sts, s, k), p>>
    OBVIOUS
  <2>3. x \in At(Lives(sts), p) /\ x[1] = s
    <3>1. x \in Lives(sts)
      BY <1>2, <1>3, <2>1, <2>2
    <3> QED BY <2>2, <3>1 DEF At
  <2>4. F[o] = <<x, o[3]>> /\ o[3] \in 1 .. Cnt(sts)[x[1]]
    BY <1>2, <1>4, <2>1, <2>2, <2>3
  <2> QED BY <2>3, <2>4, CopyIn DEF T
<1>6. ASSUME NEW o \in S, NEW r \in S, F[o] = F[r] PROVE o = r
  <2>1. o[1] = r[1] /\ NodeAt(sts, o[1], o[2]) = NodeAt(sts, r[1], r[2]) /\ o[3] = r[3]
    BY <1>6
  <2>2. o[2] = r[2]
    BY <1>2, <1>3, <2>1
  <2> QED BY <1>2, <2>1, <2>2
<1>7. ASSUME NEW y \in T PROVE \E o \in S : F[o] = y
  <2>1. PICK x \in At(Lives(sts), p) : \E n \in 1 .. Cnt(sts)[x[1]] : y = <<x, n>>
    BY CopyIn DEF T
  <2>2. PICK n \in 1 .. Cnt(sts)[x[1]] : y = <<x, n>>
    BY <2>1
  <2>3. /\ x = <<x[1], x[2], x[3]>> /\ x[1] \in 1 .. Len(sts) /\ LiveAt(sts[x[1]], x[2])
        /\ x[3] = PairOf(sts[x[1]], x[2]) /\ x[3] = p
    BY DEF At, Lives, Triples
  <2>4. PICK s \in 1 .. Len(sts) : s = x[1]
    BY <2>3
  <2>5. PICK k \in 1 .. Len(w[s].tokens) - 1 : NodeAt(sts, s, k) = x[2]
    BY <1>3, <2>3, <2>4
  <2>b. PICK o : o = <<s, k, n>>
    OBVIOUS
  <2>6. o = <<s, k, n>> /\ o[1] = s /\ o[2] = k /\ o[3] = n
    BY <2>b
  <2>7. <<w[s].tokens[k], w[s].tokens[k + 1]>> = p
    <3> DEFINE q == <<w[s].tokens[k], w[s].tokens[k + 1]>>
    <3>1. q = <<w[s].tokens[k], w[s].tokens[k + 1]>>
      OBVIOUS
    <3>2. <<s, x[2], q>> \in Lives(sts)
      BY <1>3, <2>5
    <3> HIDE DEF q
    <3>3. q = PairOf(sts[s], x[2])
      BY <3>2 DEF Lives
    <3> QED BY <2>3, <2>4, <3>1, <3>3
  <2>8. o \in S
    <3>1. n \in 1 .. w[s].count
      BY <1>1, <1>4, <2>4
    <3>2. o \in Occ(w)
      BY <1>1, <2>6, <3>1, OccIn
    <3>3. PairIn(w, o) = p
      BY <2>6, <2>7 DEF PairIn
    <3> QED BY <3>2, <3>3 DEF OccOf, S
  <2>9. F[o] = y
    BY <2>2, <2>3, <2>4, <2>5, <2>6, <2>8
  <2> QED BY <2>8, <2>9
<1>8. F \in [S -> T]
  <2>1. \A o \in S : <<<<o[1], NodeAt(sts, o[1], o[2]), p>>, o[3]>> \in T
    BY <1>5
  <2> QED BY <2>1
<1> HIDE DEF F
<1>9. F \in Bijection(S, T)
  BY <1>6, <1>7, <1>8, Fun_IsBij
<1>10. ExistsBijection(S, T)
  BY <1>9 DEF ExistsBijection
<1> QED BY <1>10 DEF S, T

-----------------------------------------------------------------------------
(* The counts of the tables are those of NaiveBpe, and 0 for the others.   *)

SameCounts(info, counts) ==
  /\ \A p \in DOMAIN counts : p \in DOMAIN info /\ info[p].count = counts[p] /\ counts[p] \in Nat
  /\ \A p \in DOMAIN info : p \notin DOMAIN counts => info[p].count = 0

LEMMA CountsExact ==
  ASSUME NEW K \in Nat, NEW sts, NEW info, Picking(sts, info, K), NEW w, Segmented(sts, w)
  PROVE  SameCounts(info, CountsOf(w))
<1>1. /\ Words(sts, K) /\ InfoOK(info) /\ Exact(info, Lives(sts), Cnt(sts), Pairs)
      /\ Complete(info, Lives(sts), Pairs)
  BY DEF Picking, Tab
<1>2. ASSUME NEW p \in Pairs
      PROVE  /\ IsFiniteSet(OccOf(w, p))
             /\ Cardinality(OccOf(w, p)) = Weight(At(Lives(sts), p), Cnt(sts))
  <2>1. ExistsBijection(OccOf(w, p), Copies(At(Lives(sts), p), Cnt(sts)))
    BY <1>1, CountsSame
  <2>2. ExistsBijection(Copies(At(Lives(sts), p), Cnt(sts)), OccOf(w, p))
    BY <2>1, Fun_ExistsBijSymmetric
  <2>3. IsFiniteSet(Copies(At(Lives(sts), p), Cnt(sts)))
    BY <1>1 DEF Exact
  <2>4. Cardinality(OccOf(w, p)) = Cardinality(Copies(At(Lives(sts), p), Cnt(sts))) /\ IsFiniteSet(OccOf(w, p))
    BY <2>2, <2>3, FS_Bijection
  <2> QED BY <2>4 DEF Weight
<1>3. \A p : p \in DOMAIN CountsOf(w) <=> OccOf(w, p) # {}
  BY DEF CountsOf, OccOf
<1>4. \A p \in DOMAIN CountsOf(w) : CountsOf(w)[p] = Cardinality(OccOf(w, p))
  BY DEF CountsOf
<1>5. ASSUME NEW p \in DOMAIN CountsOf(w)
      PROVE  p \in DOMAIN info /\ info[p].count = CountsOf(w)[p] /\ CountsOf(w)[p] \in Nat
  <2>1. ExistsBijection(OccOf(w, p), Copies(At(Lives(sts), p), Cnt(sts)))
    BY <1>1, CountsSame
  <2>2. PICK f : f \in Bijection(OccOf(w, p), Copies(At(Lives(sts), p), Cnt(sts)))
    BY <2>1 DEF ExistsBijection
  <2>3. PICK o : o \in OccOf(w, p)
    BY <1>3
  <2>4. f[o] \in Copies(At(Lives(sts), p), Cnt(sts))
    BY <2>2, <2>3 DEF Bijection, Injection
  <2>5. PICK x : x \in At(Lives(sts), p)
    BY <2>4, CopyIn
  <2>6. x \in Lives(sts) /\ x[3] = p /\ p \in Pairs
    BY <2>5 DEF At, Lives, Triples
  <2>7. p \in DOMAIN info
    BY <1>1, <2>6 DEF Complete
  <2>8. info[p].count = Weight(At(Lives(sts), p), Cnt(sts))
    BY <1>1, <2>6, <2>7 DEF Exact
  <2>9. Cardinality(OccOf(w, p)) \in Nat
    BY <1>2, <2>6, FS_CardinalityType
  <2> QED BY <1>2, <1>4, <2>6, <2>7, <2>8, <2>9
<1>6. ASSUME NEW p \in DOMAIN info, p \notin DOMAIN CountsOf(w) PROVE info[p].count = 0
  <2>1. p \in Pairs
    BY <1>1 DEF InfoOK
  <2>2. OccOf(w, p) = {}
    BY <1>3, <1>6
  <2>3. Cardinality(OccOf(w, p)) = 0
    BY <2>2, FS_EmptySet
  <2>4. info[p].count = Weight(At(Lives(sts), p), Cnt(sts))
    BY <1>1, <2>1 DEF Exact
  <2> QED BY <1>2, <2>1, <2>3, <2>4
<1> QED BY <1>5, <1>6 DEF SameCounts

(* So both find the same pairs best.                                       *)
LEMMA BestSame ==
  ASSUME NEW info, NEW counts, SameCounts(info, counts)
  PROVE  Best([p \in DOMAIN info |-> info[p].count]) = Best(counts)
<1> DEFINE mine == [p \in DOMAIN info |-> info[p].count]
<1>1. \A p \in DOMAIN counts : p \in DOMAIN mine /\ mine[p] = counts[p] /\ counts[p] \in Nat
  BY DEF SameCounts
<1>2. \A p \in DOMAIN mine : p \notin DOMAIN counts => mine[p] = 0
  BY DEF SameCounts
<1> HIDE DEF mine
<1>3. ASSUME NEW p \in Best(mine) PROVE p \in Best(counts)
  <2>1. p \in DOMAIN mine /\ mine[p] > 0
    BY DEF Best
  <2>2. p \in DOMAIN counts /\ counts[p] = mine[p]
    BY <1>1, <1>2, <2>1
  <2>3. \A q \in DOMAIN mine : mine[q] < mine[p] \/ (mine[q] = mine[p] /\ ~PairBefore(p, q))
    BY DEF Best
  <2>4. \A q \in DOMAIN counts : counts[q] < counts[p] \/ (counts[q] = counts[p] /\ ~PairBefore(p, q))
    BY <1>1, <2>2, <2>3
  <2> QED BY <2>1, <2>2, <2>4 DEF Best
<1>4. ASSUME NEW p \in Best(counts) PROVE p \in Best(mine)
  <2>1. p \in DOMAIN counts /\ counts[p] > 0
    BY DEF Best
  <2>2. p \in DOMAIN mine /\ counts[p] = mine[p]
    BY <1>1, <2>1
  <2>3. \A q \in DOMAIN counts : counts[q] < counts[p] \/ (counts[q] = counts[p] /\ ~PairBefore(p, q))
    BY DEF Best
  <2>4. ASSUME NEW q \in DOMAIN mine PROVE mine[q] < mine[p] \/ (mine[q] = mine[p] /\ ~PairBefore(p, q))
    <3>1. CASE q \in DOMAIN counts
      BY <1>1, <2>2, <2>3, <3>1
    <3>2. CASE q \notin DOMAIN counts
      BY <1>2, <2>1, <2>2, <3>2
    <3> QED BY <3>1, <3>2
  <2> QED BY <2>1, <2>2, <2>4 DEF Best
<1>5. Best(mine) = Best(counts)
  BY <1>3, <1>4
<1> QED BY <1>5 DEF mine

(* A live occurrence is listed once.                                       *)
Spotted(N, sts, info, p, s, left) ==
  /\ Picking(sts, info, N) /\ p \in DOMAIN info /\ s \in 1 .. Len(sts) /\ left \in DOMAIN sts[s].next
  /\ sts[s].next[left] # 0 /\ <<sts[s].tokens[left], sts[s].tokens[sts[s].next[left]]>> = p
Once(loc, spot) == Cardinality({i \in DOMAIN loc : loc[i] = spot}) = 1

LEMMA ListedOnce ==
  ASSUME NEW K \in Nat, NEW sts, NEW info, NEW p, NEW s, NEW left, Spotted(K, sts, info, p, s, left)
  PROVE  Once(info[p].locations, <<s, left>>)
<1> SUFFICES ASSUME Picking(sts, info, K), p \in DOMAIN info, s \in 1 .. Len(sts), left \in DOMAIN sts[s].next,
                    sts[s].next[left] # 0, <<sts[s].tokens[left], sts[s].tokens[sts[s].next[left]]>> = p
             PROVE  Cardinality({i \in DOMAIN info[p].locations : info[p].locations[i] = <<s, left>>}) = 1
  BY DEF Spotted, Once
<1>1. /\ Words(sts, K) /\ InfoOK(info) /\ Complete(info, Lives(sts), Pairs) /\ SortedAll(info) /\ Within(info, K)
  BY DEF Picking, Tab
<1>2. PICK pos : WordOK(sts[s], pos, K)
  BY <1>1 DEF Words
<1>3. left \in 1 .. Len(sts[s].next)
  <2>1. sts[s].next \in Word
    BY <1>2 DEF WordOK, Rec
  <2> QED BY <2>1, WordLen
<1>4. LiveAt(sts[s], left) /\ PairOf(sts[s], left) = p
  <2>1. sts[s].tokens[left] = p[1]
    OBVIOUS
  <2>2. p[1] \in 1 .. K
    BY <1>1 DEF Within
  <2>3. sts[s].tokens[left] # 0
    BY <2>1, <2>2
  <2> QED BY <1>3, <2>3 DEF LiveAt, Alive, PairOf
<1>5. <<s, left, p>> \in Lives(sts)
  BY <1>1, <1>4, LivesIn
<1>6. PICK loc : loc = info[p].locations /\ loc \in Seq(Spots)
  BY <1>1 DEF InfoOK, Infos
<1>7. p \in Pairs /\ Listed(<<s, left>>, loc) /\ Sorted(loc)
  <2>1. p \in Pairs
    BY <1>1 DEF InfoOK
  <2>2. PICK x : x = <<s, left, p>>
    OBVIOUS
  <2>3. x \in Lives(sts) /\ x[1] = s /\ x[2] = left /\ x[3] = p
    BY <1>5, <2>2
  <2>4. Listed(<<x[1], x[2]>>, info[x[3]].locations)
    BY <1>1, <2>1, <2>3 DEF Complete
  <2> QED BY <1>1, <1>6, <2>1, <2>3, <2>4 DEF SortedAll
<1>8. DOMAIN loc = 1 .. Len(loc) /\ Len(loc) \in Nat
  BY <1>6
<1>9. PICK k \in 1 .. Len(loc) : loc[k] = <<s, left>>
  BY <1>7 DEF Listed
<1>10. ASSUME NEW i \in 1 .. Len(loc), loc[i] = <<s, left>> PROVE i = k
  <2>1. loc[i][1] = loc[k][1] /\ loc[i][2] = left /\ loc[k][2] = left /\ left \in Nat
    BY <1>3, <1>9, <1>10
  <2>2. ~(i < k) /\ ~(k < i)
    BY <1>7, <2>1 DEF Sorted
  <2> QED BY <1>8, <2>2
<1>11. {i \in DOMAIN loc : loc[i] = <<s, left>>} = {k}
  BY <1>8, <1>9, <1>10
<1>12. Cardinality({k}) = 1
  BY FS_Singleton
<1> QED BY <1>6, <1>11, <1>12, Zenon

-----------------------------------------------------------------------------
(* The tables of the words as the training starts.                         *)

Tables == UNION {[D -> Infos] : D \in SUBSET Pairs}

LEMMA TablesOK == \A f : f \in Tables <=> InfoOK(f)
<1>1. ASSUME NEW f \in Tables PROVE InfoOK(f)
  <2>1. PICK D \in SUBSET Pairs : f \in [D -> Infos]
    BY DEF Tables
  <2> QED BY <2>1 DEF InfoOK
<1>2. ASSUME NEW f, InfoOK(f) PROVE f \in Tables
  BY <1>2 DEF InfoOK, Tables
<1> QED BY <1>1, <1>2

AddsUp(g, n, info, st, s) ==
  /\ g[0] = info
  /\ \A k \in 1 .. n : g[k] = Add(g[k - 1], <<st.tokens[k], st.tokens[k + 1]>>, st.count, <<s, k>>)

Addable(st, n) ==
  /\ n = Len(st.tokens) - 1 /\ st.count \in Nat
  /\ \A k \in 1 .. n : <<st.tokens[k], st.tokens[k + 1]>> \in Pairs

LEMMA AddWordValues ==
  ASSUME NEW info, InfoOK(info), NEW st, NEW N \in Nat, Addable(st, N), NEW s \in Nat
  PROVE  \E g : AddsUp(g, N, info, st, s) /\ AddWord(info, st, s) = g[N]
<1> DEFINE Def(g) == g = [k \in 0 .. N |->
             IF k = 0 THEN info
             ELSE Add(g[k - 1], <<st.tokens[k], st.tokens[k + 1]>>, st.count, <<s, k>>)]
           F == [x \in (1 .. N) \X Tables |->
                   Add(x[2], <<st.tokens[x[1]], st.tokens[x[1] + 1]>>, st.count, <<s, x[1]>>)]
<1>1. N = Len(st.tokens) - 1 /\ st.count \in Nat /\ \A k \in 1 .. N : <<st.tokens[k], st.tokens[k + 1]>> \in Pairs
  BY DEF Addable
<1>2. \A k \in 1 .. N : \A x \in Tables :
        F[<<k, x>>] = Add(x, <<st.tokens[k], st.tokens[k + 1]>>, st.count, <<s, k>>)
  OBVIOUS
<1>4. ASSUME NEW k \in 1 .. N, NEW x \in Tables
      PROVE  Add(x, <<st.tokens[k], st.tokens[k + 1]>>, st.count, <<s, k>>) \in Tables
  <2>1. PICK key \in Pairs : key = <<st.tokens[k], st.tokens[k + 1]>>
    BY <1>1
  <2>a. k \in Nat
    OBVIOUS
  <2>2. PICK spot \in Spots : spot = <<s, k>>
    BY <2>a DEF Spots
  <2>3. InfoOK(x)
    BY TablesOK
  <2>4. PICK c \in Int : c = st.count
    BY <1>1
  <2>5. Added(x, key, c, spot, Add(x, key, c, spot))
    BY <2>3, AddValues
  <2>6. Add(x, key, c, spot) \in Tables
    BY <2>5, TablesOK DEF Added
  <2> QED BY <2>1, <2>2, <2>4, <2>6
<1> HIDE DEF F
<1>5. StaysIn(F, N, Tables)
  BY <1>2, <1>4, Zenon DEF StaysIn
<1>a. info \in Tables
  BY TablesOK
<1>6. PICK f : Recursion(f, N, Tables, info, F)
  BY <1>5, <1>a, RecursionExists
<1>7. f \in [0 .. N -> Tables] /\ \A i \in 0 .. N : f[i] = IF i = 0 THEN info ELSE F[<<i, f[i - 1]>>]
  BY <1>6 DEF Recursion
<1>8. ASSUME NEW k \in 0 .. N
      PROVE  f[k] = IF k = 0 THEN info
                    ELSE Add(f[k - 1], <<st.tokens[k], st.tokens[k + 1]>>, st.count, <<s, k>>)
  <2>1. k # 0 => k \in 1 .. N /\ k - 1 \in 0 .. N
    OBVIOUS
  <2> QED BY <1>2, <1>7, <2>1
<1>9. f = [k \in 0 .. N |-> IF k = 0 THEN info
             ELSE Add(f[k - 1], <<st.tokens[k], st.tokens[k + 1]>>, st.count, <<s, k>>)]
  <2>1. f = [k \in 0 .. N |-> f[k]]
    BY <1>7
  <2> QED BY <1>8, <2>1
<1>10. Def(f)
  BY <1>9
<1>11. AddWord(info, st, s) = (CHOOSE g : Def(g))[N]
  BY <1>1 DEF AddWord
<1> DEFINE g == CHOOSE h : Def(h)
<1>12. Def(g)
  <2> HIDE DEF Def
  <2> QED BY <1>10
<1>15. AddWord(info, st, s) = g[N]
  BY <1>11
<1> HIDE DEF g
<1>13. g = [k \in 0 .. N |-> IF k = 0 THEN info
             ELSE Add(g[k - 1], <<st.tokens[k], st.tokens[k + 1]>>, st.count, <<s, k>>)]
  BY <1>12
<1>14. AddsUp(g, N, info, st, s)
  <2>1. 0 \in 0 .. N /\ \A k \in 1 .. N : k \in 0 .. N /\ k # 0
    OBVIOUS
  <2> QED BY <1>13, <2>1 DEF AddsUp
<1> QED BY <1>14, <1>15

-----------------------------------------------------------------------------
(* What is in the tables when the places up to left of word s are.         *)

UpTo(sts, s, left) == {x \in Lives(sts) : x[1] < s \/ (x[1] = s /\ x[2] <= left)}

Filled(sts, info, K, s, left) ==
  /\ Tab(info, UpTo(sts, s, left), Cnt(sts), Pairs) /\ Within(info, K) /\ AllValid(info, sts)
  /\ \A q \in DOMAIN info : \A x : Listed(x, info[q].locations) => x[1] < s \/ (x[1] = s /\ x[2] <= left)

LEMMA PlaceFilled ==
  ASSUME NEW K \in Nat, NEW sts, Words(sts, K), NEW s \in 1 .. Len(sts), NEW k \in Nat \ {0},
         NEW info, Filled(sts, info, K, s, k - 1), LiveAt(sts[s], k)
  PROVE  Filled(sts, Add(info, PairOf(sts[s], k), sts[s].count, <<s, k>>), K, s, k)
<1> DEFINE R == UpTo(sts, s, k - 1)
<1>1. PICK pos : WordOK(sts[s], pos, K)
  BY DEF Words
<1>2. PICK p : p = PairOf(sts[s], k)
  OBVIOUS
<1>3. /\ k \in 1 .. Len(sts[s].next) /\ sts[s].tokens[k] \in 1 .. K /\ sts[s].tokens[sts[s].next[k]] \in 1 .. K
      /\ p \in Pairs
  BY <1>1, <1>2, LiveTyping
<1>4. p[1] \in 1 .. K /\ p[2] \in 1 .. K
  BY <1>2, <1>3 DEF PairOf
<1>5. PICK x : x = <<s, k, p>>
  OBVIOUS
<1>6. x[1] = s /\ x[2] = k /\ x[3] = p /\ x \in Lives(sts) /\ s \in Nat
  <2>1. x \in Lives(sts)
    BY <1>2, <1>5, LivesIn
  <2>2. s \in Nat
    BY DEF Words
  <2> QED BY <1>5, <2>1, <2>2
<1>7. UpTo(sts, s, k) = R \cup {x} /\ x \notin R
  <2>1. x \in UpTo(sts, s, k) /\ x \notin R
    BY <1>6 DEF UpTo
  <2>2. R \subseteq UpTo(sts, s, k)
    <3>1. ASSUME NEW y \in R PROVE y \in UpTo(sts, s, k)
      <4>1. y \in Lives(sts) /\ y[2] \in Nat /\ (y[1] < s \/ (y[1] = s /\ y[2] <= k - 1))
        BY DEF UpTo, Lives, Triples
      <4>2. y[1] < s \/ (y[1] = s /\ y[2] <= k)
        BY <4>1
      <4> QED BY <4>1, <4>2 DEF UpTo
    <3> QED BY <3>1
  <2>3. ASSUME NEW y \in UpTo(sts, s, k), y \notin R PROVE y = x
    <3>1. y \in Lives(sts) /\ y[2] \in Nat /\ (y[1] < s \/ (y[1] = s /\ y[2] <= k))
      BY DEF UpTo, Lives, Triples
    <3>2. y[1] = s /\ y[2] = k
      <4>1. ~(y[1] < s \/ (y[1] = s /\ y[2] <= k - 1))
        BY <2>3, <3>1 DEF UpTo
      <4> QED BY <3>1, <4>1
    <3>3. y = <<y[1], y[2], y[3]>> /\ y[3] = PairOf(sts[y[1]], y[2])
      BY <3>1 DEF Lives, Triples
    <3> QED BY <1>2, <1>5, <3>2, <3>3
  <2> QED BY <2>1, <2>2, <2>3
<1>8. PICK c \in Nat : c = sts[s].count /\ c = Cnt(sts)[s]
  <2>1. sts[s].count \in Nat
    BY <1>1 DEF WordOK, Rec
  <2>2. Cnt(sts)[s] = sts[s].count
    BY DEF Cnt
  <2> QED BY <2>1, <2>2
<1>9. PICK spot \in Spots : spot = <<s, k>> /\ spot = <<x[1], x[2]>>
  <2>1. <<s, k>> \in Spots
    BY <1>6 DEF Spots
  <2> QED BY <1>6, <2>1
<1>10. PICK new : new = Add(info, p, c, spot)
  OBVIOUS
<1>11. /\ Tab(info, R, Cnt(sts), Pairs) /\ Within(info, K) /\ AllValid(info, sts)
       /\ \A q \in DOMAIN info : \A y : Listed(y, info[q].locations) => y[1] < s \/ (y[1] = s /\ y[2] <= k - 1)
  BY DEF Filled
<1>12. Tab(new, R \cup {x}, Cnt(sts), Pairs) /\ Gains(info, new, 1, p, spot)
  <2>1. Opt(1, x) = {x} /\ Opt(1, x) \cap R = {}
    BY <1>7 DEF Opt
  <2>2. c = Cnt(sts)[x[1]] /\ x[3] \in Pairs /\ <<x[1], x[2]>> \in Spots
    BY <1>3, <1>6, <1>8, <1>9
  <2>3. \A y : x[3] \in DOMAIN info /\ Listed(y, info[x[3]].locations) /\ y[1] = x[1] => y[2] < x[2]
    <3>1. ASSUME NEW y, p \in DOMAIN info, Listed(y, info[p].locations), y[1] = s PROVE y[2] < k
      <4>1. y[1] < s \/ (y[1] = s /\ y[2] <= k - 1)
        BY <1>11, <3>1
      <4>2. y[2] <= k - 1
        BY <1>6, <3>1, <4>1
      <4>3. y \in Spots
        <5>1. info[p].locations \in Seq(Spots)
          BY <1>11, <3>1 DEF Tab, InfoOK, Infos
        <5> QED BY <3>1, <5>1 DEF Listed
      <4> QED BY <4>2, <4>3 DEF Spots
    <3> QED BY <1>6, <3>1
  <2>4. new = IF 1 = None THEN info ELSE Add(info, x[3], c, <<x[1], x[2]>>)
    BY <1>6, <1>9, <1>10 DEF None
  <2>5. Tab(new, R \cup Opt(1, x), Cnt(sts), Pairs) /\ Gains(info, new, 1, x[3], <<x[1], x[2]>>)
    BY <1>11, <2>1, <2>2, <2>3, <2>4, AddOpt
  <2> QED BY <1>6, <1>9, <2>1, <2>5
<1>13. DOMAIN new = DOMAIN info \cup {p}
  BY <1>12 DEF Gains
<1>14. \A q \in DOMAIN new : \A y : Listed(y, new[q].locations) =>
         y = spot \/ (q \in DOMAIN info /\ Listed(y, info[q].locations))
  BY <1>12 DEF Gains
<1>15. Within(new, K)
  BY <1>4, <1>11, <1>13 DEF Within
<1>16. AllValid(new, sts)
  <2>1. Valid(sts, spot)
    BY <1>3, <1>9 DEF Valid
  <2> QED BY <1>11, <1>14, <2>1 DEF AllValid
<1>17. ASSUME NEW q \in DOMAIN new, NEW y, Listed(y, new[q].locations)
       PROVE  y[1] < s \/ (y[1] = s /\ y[2] <= k)
  <2>1. CASE y = spot
    BY <1>9, <2>1
  <2>2. CASE q \in DOMAIN info /\ Listed(y, info[q].locations)
    <3>1. y[1] < s \/ (y[1] = s /\ y[2] <= k - 1)
      BY <1>11, <2>2
    <3>2. y \in Spots
      <4>1. info[q].locations \in Seq(Spots)
        BY <1>11, <2>2 DEF Tab, InfoOK, Infos
      <4> QED BY <2>2, <4>1 DEF Listed
    <3>3. y[2] \in Nat
      BY <3>2 DEF Spots
    <3> QED BY <3>1, <3>3
  <2> QED BY <1>14, <1>17, <2>1, <2>2
<1>18. Tab(new, UpTo(sts, s, k), Cnt(sts), Pairs)
  BY <1>7, <1>12
<1>19. Filled(sts, new, K, s, k)
  BY <1>15, <1>16, <1>17, <1>18 DEF Filled
<1> QED BY <1>2, <1>8, <1>9, <1>10, <1>19

(* A word that nothing was merged in: its live places are all but the last.*)
Fresh(st) ==
  /\ Len(st.tokens) \in Nat \ {0} /\ st.count \in Nat
  /\ \A l : LiveAt(st, l) <=> l \in 1 .. Len(st.tokens) - 1
  /\ \A l \in 1 .. Len(st.tokens) - 1 : PairOf(st, l) = <<st.tokens[l], st.tokens[l + 1]>>

LEMMA WordFilled ==
  ASSUME NEW K \in Nat, NEW sts, Words(sts, K), NEW s \in 1 .. Len(sts), Fresh(sts[s]),
         NEW info, Filled(sts, info, K, s, 0)
  PROVE  Filled(sts, AddWord(info, sts[s], s), K, s + 1, 0)
<1>1. PICK st : st = sts[s]
  OBVIOUS
<1>2. PICK N \in Nat : N = Len(st.tokens) - 1
  <2>1. Len(st.tokens) - 1 \in Nat
    BY <1>1 DEF Fresh
  <2> QED BY <2>1
<1>3. /\ st.count \in Nat /\ \A l : LiveAt(st, l) <=> l \in 1 .. N
      /\ \A l \in 1 .. N : PairOf(st, l) = <<st.tokens[l], st.tokens[l + 1]>>
  BY <1>1, <1>2 DEF Fresh
<1>4. s \in Nat
  BY DEF Words
<1>5. PICK pos : WordOK(st, pos, K)
  BY <1>1 DEF Words
<1>6. \A k \in 1 .. N : <<st.tokens[k], st.tokens[k + 1]>> \in Pairs
  <2>1. ASSUME NEW k \in 1 .. N PROVE PairOf(st, k) \in Pairs
    <3>1. LiveAt(st, k)
      BY <1>3
    <3> QED BY <1>5, <3>1, LiveTyping
  <2> QED BY <1>3, <2>1
<1>7. InfoOK(info)
  BY DEF Filled, Tab
<1>8. PICK g : AddsUp(g, N, info, st, s) /\ AddWord(info, st, s) = g[N]
  <2>1. Addable(st, N)
    BY <1>2, <1>3, <1>6 DEF Addable
  <2> QED BY <1>4, <1>7, <2>1, AddWordValues
<1>9. g[0] = info /\ \A k \in 1 .. N : g[k] = Add(g[k - 1], <<st.tokens[k], st.tokens[k + 1]>>, st.count, <<s, k>>)
  BY <1>8 DEF AddsUp
<1> DEFINE J == {k \in 0 .. N : Filled(sts, g[k], K, s, k)}
<1>10. 0 \in J
  BY <1>9
<1>11. ASSUME NEW k \in 0 .. N - 1, k \in J PROVE k + 1 \in J
  <2>1. PICK n \in 1 .. N : n = k + 1 /\ n - 1 = k /\ n \in Nat \ {0}
    OBVIOUS
  <2>2. Filled(sts, g[n - 1], K, s, n - 1)
    BY <1>11, <2>1
  <2>3. LiveAt(sts[s], n)
    BY <1>1, <1>3
  <2>4. Filled(sts, Add(g[n - 1], PairOf(sts[s], n), sts[s].count, <<s, n>>), K, s, n)
    BY <2>1, <2>2, <2>3, PlaceFilled
  <2>5. g[n] = Add(g[n - 1], PairOf(sts[s], n), sts[s].count, <<s, n>>)
    BY <1>1, <1>3, <1>9
  <2>6. Filled(sts, g[n], K, s, n)
    BY <2>4, <2>5
  <2> QED BY <2>1, <2>6
<1> HIDE DEF J
<1>12. \A k \in 0 .. N : k \in J
  BY <1>10, <1>11, CountUp
<1>13. PICK new : new = AddWord(info, st, s) /\ Filled(sts, new, K, s, N)
  <2>1. N \in 0 .. N
    OBVIOUS
  <2>2. Filled(sts, g[N], K, s, N)
    BY <1>12, <2>1 DEF J
  <2> QED BY <1>8, <2>2
<1>14. UpTo(sts, s, N) = UpTo(sts, s + 1, 0)
  <2>1. ASSUME NEW x \in Lives(sts)
        PROVE  (x[1] < s \/ (x[1] = s /\ x[2] <= N)) <=> (x[1] < s + 1 \/ (x[1] = s + 1 /\ x[2] <= 0))
    <3>1. x[1] \in 1 .. Len(sts) /\ x[2] \in Nat /\ LiveAt(sts[x[1]], x[2])
      BY DEF Lives, Triples
    <3>2. x[1] \in Nat /\ x[1] # 0
      <4>1. Len(sts) \in Nat
        BY LenProperties DEF Words
      <4> QED BY <3>1, <4>1
    <3>3. x[1] = s => x[2] \in 1 .. N
      BY <1>1, <1>3, <3>1
    <3>4. x[2] # 0
      <4>1. PICK p2 : WordOK(sts[x[1]], p2, K)
        BY <3>1 DEF Words
      <4>2. x[2] \in 1 .. Len(sts[x[1]].next)
        BY <3>1, <4>1, LiveTyping
      <4> QED BY <4>2
    <3> QED BY <1>4, <3>1, <3>2, <3>3, <3>4
  <2> QED BY <2>1 DEF UpTo
<1>15. ASSUME NEW q \in DOMAIN new, NEW x, Listed(x, new[q].locations)
       PROVE  x[1] < s + 1 \/ (x[1] = s + 1 /\ x[2] <= 0)
  <2>1. x[1] < s \/ (x[1] = s /\ x[2] <= N)
    BY <1>13, <1>15 DEF Filled
  <2>2. x \in Spots
    <3>1. new[q].locations \in Seq(Spots)
      BY <1>13 DEF Filled, Tab, InfoOK, Infos
    <3> QED BY <1>15, <3>1 DEF Listed
  <2>3. x[1] \in Nat
    BY <2>2 DEF Spots
  <2> QED BY <1>4, <2>1, <2>3
<1>16. Tab(new, UpTo(sts, s + 1, 0), Cnt(sts), Pairs) /\ Within(new, K) /\ AllValid(new, sts)
  BY <1>13, <1>14 DEF Filled
<1>17. Filled(sts, new, K, s + 1, 0)
  BY <1>15, <1>16 DEF Filled
<1> QED BY <1>1, <1>13, <1>17

-----------------------------------------------------------------------------
(* All words.                                                              *)

AddsAll(g, n, sts) ==
  g[0] = <<>> /\ \A s \in 1 .. n : g[s] = AddWord(g[s - 1], sts[s], s)

LEMMA InitPairValues ==
  ASSUME NEW K \in Nat, NEW sts, Words(sts, K), \A s \in 1 .. Len(sts) : Fresh(sts[s])
  PROVE  \E g : AddsAll(g, Len(sts), sts) /\ InitPairTables(sts) = g[Len(sts)]
<1> DEFINE N == Len(sts)
           Def(g) == g = [s \in 0 .. N |-> IF s = 0 THEN <<>> ELSE AddWord(g[s - 1], sts[s], s)]
           F == [x \in (1 .. N) \X Tables |-> AddWord(x[2], sts[x[1]], x[1])]
<1>1. N \in Nat
  BY LenProperties DEF Words
<1>2. \A s \in 1 .. N : \A x \in Tables : F[<<s, x>>] = AddWord(x, sts[s], s)
  OBVIOUS
<1>4. ASSUME NEW s \in 1 .. N, NEW x \in Tables PROVE AddWord(x, sts[s], s) \in Tables
  <2>1. PICK st : st = sts[s] /\ Fresh(st)
    OBVIOUS
  <2>2. PICK n \in Nat : n = Len(st.tokens) - 1
    <3>1. Len(st.tokens) - 1 \in Nat
      BY <2>1 DEF Fresh
    <3> QED BY <3>1
  <2>3. PICK pos : WordOK(st, pos, K)
    BY <2>1 DEF Words
  <2>4. ASSUME NEW k \in 1 .. n
        PROVE  <<st.tokens[k], st.tokens[k + 1]>> \in Pairs
    <3>1. LiveAt(st, k) /\ PairOf(st, k) = <<st.tokens[k], st.tokens[k + 1]>>
      BY <2>1, <2>2 DEF Fresh
    <3>2. PairOf(st, k) \in Pairs
      BY <2>3, <3>1, LiveTyping
    <3> QED BY <3>1, <3>2
  <2>5. InfoOK(x) /\ s \in Nat /\ st.count \in Nat
    BY <1>1, <2>1, TablesOK DEF Fresh
  <2>6. PICK g : AddsUp(g, n, x, st, s) /\ AddWord(x, st, s) = g[n]
    <3>1. Addable(st, n)
      BY <2>2, <2>4, <2>5 DEF Addable
    <3> QED BY <2>5, <3>1, AddWordValues
  <2>7. g[0] = x /\ \A k \in 1 .. n : g[k] = Add(g[k - 1], <<st.tokens[k], st.tokens[k + 1]>>, st.count, <<s, k>>)
    BY <2>6 DEF AddsUp
  <2> DEFINE J == {k \in 0 .. n : g[k] \in Tables}
  <2>8. 0 \in J
    BY <2>7
  <2>9. ASSUME NEW k \in 0 .. n - 1, k \in J PROVE k + 1 \in J
    <3>1. PICK m \in 1 .. n : m = k + 1 /\ m - 1 = k
      OBVIOUS
    <3>2. PICK key \in Pairs : key = <<st.tokens[m], st.tokens[m + 1]>>
      BY <2>4
    <3>3. PICK spot \in Spots : spot = <<s, m>>
      <4>1. <<s, m>> \in Spots
        BY <2>5, <3>1 DEF Spots
      <4> QED BY <4>1
    <3>4. InfoOK(g[k])
      BY <2>9, TablesOK
    <3>5. PICK c \in Int : c = st.count
      BY <2>5
    <3>6. Added(g[k], key, c, spot, Add(g[k], key, c, spot))
      BY <3>4, AddValues
    <3>7. Add(g[k], key, c, spot) \in Tables
      BY <3>6, TablesOK DEF Added
    <3>8. g[m] = Add(g[k], key, c, spot)
      BY <2>7, <3>1, <3>2, <3>3, <3>5
    <3> QED BY <3>1, <3>7, <3>8
  <2> HIDE DEF J
  <2>10. \A k \in 0 .. n : k \in J
    BY <2>8, <2>9, CountUp
  <2>11. g[n] \in Tables
    <3>1. n \in 0 .. n
      OBVIOUS
    <3> QED BY <2>10, <3>1 DEF J
  <2> QED BY <2>1, <2>6, <2>11
<1> HIDE DEF F
<1>5. StaysIn(F, N, Tables)
  BY <1>2, <1>4, Zenon DEF StaysIn
<1>a. <<>> \in Tables
  <2>1. <<>> \in [{} -> Infos]
    OBVIOUS
  <2> QED BY <2>1 DEF Tables
<1>6. PICK f : Recursion(f, N, Tables, <<>>, F)
  <2> HIDE DEF N
  <2> QED BY <1>1, <1>5, <1>a, RecursionExists
<1>7. f \in [0 .. N -> Tables] /\ \A i \in 0 .. N : f[i] = IF i = 0 THEN <<>> ELSE F[<<i, f[i - 1]>>]
  BY <1>6 DEF Recursion
<1>8. ASSUME NEW s \in 0 .. N PROVE f[s] = IF s = 0 THEN <<>> ELSE AddWord(f[s - 1], sts[s], s)
  <2>1. s # 0 => s \in 1 .. N /\ s - 1 \in 0 .. N
    BY <1>1
  <2> QED BY <1>2, <1>7, <2>1
<1>9. f = [s \in 0 .. N |-> IF s = 0 THEN <<>> ELSE AddWord(f[s - 1], sts[s], s)]
  <2>1. f = [s \in 0 .. N |-> f[s]]
    BY <1>7
  <2> QED BY <1>8, <2>1
<1>10. Def(f)
  BY <1>9
<1>11. InitPairTables(sts) = (CHOOSE g : Def(g))[N]
  BY DEF InitPairTables
<1> DEFINE g == CHOOSE h : Def(h)
<1>12. Def(g)
  <2> HIDE DEF Def
  <2> QED BY <1>10
<1>15. InitPairTables(sts) = g[N]
  BY <1>11
<1> HIDE DEF g
<1>13. g = [s \in 0 .. N |-> IF s = 0 THEN <<>> ELSE AddWord(g[s - 1], sts[s], s)]
  BY <1>12
<1>14. AddsAll(g, N, sts)
  <2>1. 0 \in 0 .. N /\ \A k \in 1 .. N : k \in 0 .. N /\ k # 0
    BY <1>1
  <2> QED BY <1>13, <2>1 DEF AddsAll
<1> QED BY <1>14, <1>15

LEMMA TablesStart ==
  ASSUME NEW K \in Nat, NEW sts, Words(sts, K), \A s \in 1 .. Len(sts) : Fresh(sts[s])
  PROVE  Picking(sts, InitPairTables(sts), K)
<1>1. PICK N \in Nat : N = Len(sts)
  BY LenProperties DEF Words
<1>2. PICK g : AddsAll(g, N, sts) /\ InitPairTables(sts) = g[N]
  BY <1>1, InitPairValues
<1>3. g[0] = <<>> /\ \A s \in 1 .. N : g[s] = AddWord(g[s - 1], sts[s], s)
  BY <1>2 DEF AddsAll
<1> DEFINE J == {s \in 0 .. N : Filled(sts, g[s], K, s + 1, 0)}
<1>4. \A x \in Lives(sts) : x[1] \in 1 .. N /\ x[2] \in Nat /\ x[2] # 0
  <2>1. ASSUME NEW x \in Lives(sts) PROVE x[1] \in 1 .. N /\ x[2] \in Nat /\ x[2] # 0
    <3>1. x[1] \in 1 .. N /\ x[2] \in Nat /\ LiveAt(sts[x[1]], x[2])
      BY <1>1 DEF Lives, Triples
    <3>2. PICK pos : WordOK(sts[x[1]], pos, K)
      BY <1>1, <3>1 DEF Words
    <3>3. x[2] \in 1 .. Len(sts[x[1]].next)
      BY <3>1, <3>2, LiveTyping
    <3> QED BY <3>1, <3>3
  <2> QED BY <2>1
<1>5. 0 \in J
  <2>1. PICK info : info = <<>> /\ DOMAIN info = {} /\ info = g[0]
    BY <1>3
  <2>2. UpTo(sts, 1, 0) = {}
    <3>1. \A x \in Lives(sts) : ~(x[1] < 1 \/ (x[1] = 1 /\ x[2] <= 0))
      BY <1>4
    <3> QED BY <3>1 DEF UpTo
  <2>3. InfoOK(info)
    <3>1. <<>> \in [{} -> Infos]
      OBVIOUS
    <3> QED BY <2>1, <3>1 DEF InfoOK
  <2>4. Exact(info, {}, Cnt(sts), Pairs)
    <3>1. \A q : At({}, q) = {}
      BY DEF At
    <3>2. IsFiniteSet(Copies({}, Cnt(sts)))
      BY CopiesNone
    <3> QED BY <2>1, <3>1, <3>2 DEF Exact
  <2>5. Tab(info, {}, Cnt(sts), Pairs) /\ Within(info, K) /\ AllValid(info, sts)
    BY <2>1, <2>3, <2>4 DEF Tab, Complete, SortedAll, Within, AllValid
  <2>6. Filled(sts, info, K, 1, 0)
    BY <2>1, <2>2, <2>5 DEF Filled
  <2>7. 0 \in 0 .. N /\ 0 + 1 = 1
    OBVIOUS
  <2> QED BY <2>1, <2>6, <2>7
<1>6. ASSUME NEW k \in 0 .. N - 1, k \in J PROVE k + 1 \in J
  <2>1. PICK s \in 1 .. N : s = k + 1 /\ s - 1 = k /\ s \in 0 .. N
    OBVIOUS
  <2>2. Filled(sts, g[s - 1], K, s, 0)
    BY <1>6, <2>1
  <2>3. s \in 1 .. Len(sts) /\ Fresh(sts[s])
    BY <1>1
  <2>4. Filled(sts, AddWord(g[s - 1], sts[s], s), K, s + 1, 0)
    BY <2>2, <2>3, WordFilled
  <2>5. Filled(sts, g[s], K, s + 1, 0)
    BY <1>3, <2>4
  <2> QED BY <2>1, <2>5
<1> HIDE DEF J
<1>7. \A k \in 0 .. N : k \in J
  BY <1>5, <1>6, CountUp
<1>8. PICK info : info = InitPairTables(sts) /\ Filled(sts, info, K, N + 1, 0)
  <2>1. N \in 0 .. N
    OBVIOUS
  <2>2. Filled(sts, g[N], K, N + 1, 0)
    BY <1>7, <2>1 DEF J
  <2> QED BY <1>2, <2>2
<1>9. UpTo(sts, N + 1, 0) = Lives(sts)
  <2>1. \A x \in Lives(sts) : x[1] < N + 1
    BY <1>4
  <2> QED BY <2>1 DEF UpTo
<1> QED BY <1>8, <1>9 DEF Filled, Picking

-----------------------------------------------------------------------------
(* A word as the training starts.                                          *)

CorpusWords == [tokens : Seq(1 .. NumBytes) \ {<<>>}, count : Nat \ {0}]

LEMMA InitWord ==
  ASSUME NEW word \in CorpusWords, NEW st, st = InitState(word)
  PROVE  /\ \E pos : WordOK(st, pos, NumBytes)
         /\ Fresh(st) /\ Walk(st.tokens, st.next) = word.tokens /\ st.count = word.count
         /\ word.tokens \in Ids(NumBytes)
<1>0. NumBytes \in Nat
  BY NumBytesNat
<1>1. PICK w : w = word.tokens /\ w \in Ids(NumBytes) /\ w # <<>> /\ word.count \in Nat
  BY DEF CorpusWords, Ids
<1>2. w \in Word /\ Len(w) \in Nat /\ \A i \in 1 .. Len(w) : w[i] \in 1 .. NumBytes
  <2>1. w \in Word
    BY <1>0, <1>1, IdsWords
  <2>2. \A i \in 1 .. Len(w) : w[i] \in 1 .. NumBytes
    BY <1>1, ElementOfSeq DEF Ids
  <2> QED BY <2>1, <2>2, WordLen
<1>3. PICK n \in Nat \ {0} : n = Len(w)
  <2>1. Len(w) # 0
    BY <1>1, <1>2, EmptySeq DEF Word
  <2> QED BY <1>2, <2>1
<1>4. /\ st.tokens = w /\ st.count = word.count
      /\ st.next = [i \in 1 .. n |-> IF i < n THEN i + 1 ELSE 0]
      /\ st.prev = [i \in 1 .. n |-> i - 1]
      /\ st = [tokens |-> st.tokens, count |-> st.count, next |-> st.next, prev |-> st.prev]
  BY <1>1, <1>3 DEF InitState, None
<1>5. PICK nxt : nxt = st.next /\ nxt \in Word /\ Len(nxt) = n /\ \A i \in 1 .. n : nxt[i] = IF i < n THEN i + 1 ELSE 0
  <2> DEFINE f == [i \in 1 .. n |-> IF i < n THEN i + 1 ELSE 0]
  <2>1. \A i \in 1 .. n : f[i] = (IF i < n THEN i + 1 ELSE 0) /\ f[i] \in Nat
    OBVIOUS
  <2>2. f = [i \in 1 .. n |-> f[i]] /\ f = st.next
    BY <1>4
  <2> HIDE DEF f
  <2>3. [i \in 1 .. n |-> f[i]] \in Word /\ Len([i \in 1 .. n |-> f[i]]) = n
    BY <2>1, WordFunction
  <2> QED BY <2>1, <2>2, <2>3
<1>6. PICK prv : prv = st.prev /\ prv \in Word /\ Len(prv) = n /\ \A i \in 1 .. n : prv[i] = i - 1
  <2> DEFINE f == [i \in 1 .. n |-> i - 1]
  <2>1. \A i \in 1 .. n : f[i] = i - 1 /\ f[i] \in Nat
    OBVIOUS
  <2>2. f = [i \in 1 .. n |-> f[i]] /\ f = st.prev
    BY <1>4
  <2> HIDE DEF f
  <2>3. [i \in 1 .. n |-> f[i]] \in Word /\ Len([i \in 1 .. n |-> f[i]]) = n
    BY <2>1, WordFunction
  <2> QED BY <2>1, <2>2, <2>3
<1>7. PICK pos : pos \in Word /\ Len(pos) = n /\ \A i \in 1 .. n : pos[i] = i
  <2> DEFINE f == [i \in 1 .. n |-> i]
  <2>1. \A i \in 1 .. n : f[i] = i /\ f[i] \in Nat
    OBVIOUS
  <2>2. f = [i \in 1 .. n |-> f[i]]
    OBVIOUS
  <2> HIDE DEF f
  <2>3. [i \in 1 .. n |-> f[i]] \in Word /\ Len([i \in 1 .. n |-> f[i]]) = n
    BY <2>1, WordFunction
  <2> QED BY <2>1, <2>2, <2>3
<1>8. WordOK(st, pos, NumBytes)
  <2>1. st \in Rec
    BY <1>1, <1>2, <1>4, <1>5, <1>6 DEF Rec
  <2>2. Links(nxt)
    BY <1>5 DEF Links
  <2>3. Path(pos, nxt, prv)
    <3>1. \A k \in 1 .. n : /\ pos[k] \in 1 .. n
                            /\ nxt[pos[k]] = IF k = n THEN 0 ELSE pos[k + 1]
                            /\ prv[pos[k]] = IF k = 1 THEN 0 ELSE pos[k - 1]
      BY <1>5, <1>6, <1>7
    <3>2. \A j, k \in 1 .. n : j < k => pos[j] < pos[k]
      BY <1>7
    <3>3. Len(pos) > 0 /\ pos[1] = 1
      BY <1>7
    <3> QED BY <1>5, <1>7, <3>1, <3>2, <3>3, ZenonT(40) DEF Path
  <2>4. \A i \in 1 .. n : w[i] \in 0 .. NumBytes /\ w[i] # 0
    BY <1>0, <1>2, <1>3
  <2>5. \A i \in 1 .. n : \E k \in 1 .. n : pos[k] = i
    BY <1>7
  <2> QED BY <1>3, <1>4, <1>5, <1>6, <1>7, <2>1, <2>2, <2>3, <2>4, <2>5 DEF WordOK
<1>9. Fresh(st)
  <2>1. ASSUME NEW l PROVE LiveAt(st, l) <=> l \in 1 .. n - 1
    <3>1. LiveAt(st, l) <=> l \in 1 .. n /\ w[l] # 0 /\ nxt[l] # 0
      BY <1>4, <1>5 DEF LiveAt, Alive
    <3>2. l \in 1 .. n => w[l] # 0 /\ (nxt[l] # 0 <=> l < n)
      BY <1>2, <1>3, <1>5
    <3>3. l \in 1 .. n /\ l < n <=> l \in 1 .. n - 1
      OBVIOUS
    <3> QED BY <3>1, <3>2, <3>3
  <2>2. ASSUME NEW l \in 1 .. n - 1 PROVE PairOf(st, l) = <<st.tokens[l], st.tokens[l + 1]>>
    <3>1. nxt[l] = l + 1
      BY <1>5
    <3> QED BY <1>5, <3>1 DEF PairOf
  <2>3. Len(st.tokens) = n /\ st.count \in Nat
    BY <1>1, <1>3, <1>4
  <2> QED BY <2>1, <2>2, <2>3 DEF Fresh
<1>10. Walk(st.tokens, st.next) = w
  <2>1. PICK c : c = Walk(st.tokens, st.next) /\ ChainOf(st, pos, c)
    BY <1>8, ChainValues
  <2>2. c \in Word /\ Len(c) = n /\ \A k \in 1 .. n : c[k] = st.tokens[pos[k]]
    BY <1>7, <2>1 DEF ChainOf
  <2>3. \A k \in 1 .. n : c[k] = w[k]
    BY <1>4, <1>7, <2>2
  <2> QED BY <1>2, <1>3, <2>1, <2>2, <2>3, WordEqual
<1> QED BY <1>1, <1>4, <1>8, <1>9, <1>10

-----------------------------------------------------------------------------
(* The segmented words are what the vocabulary makes of byte strings.      *)

Trained(m, l, w) ==
  VInv(m, l) /\ \A s \in DOMAIN w : \E o \in Ids(NumBytes) : w[s].tokens = St(l, o, Len(l))

(* The corpus as a list of linked lists.                                   *)
LEMMA CorpusStates ==
  ASSUME NEW corpus \in Corpora, NEW sts, sts = [k \in DOMAIN corpus |-> InitState(corpus[k])]
  PROVE  /\ Picking(sts, InitPairTables(sts), NumBytes)
         /\ Segmented(sts, corpus) /\ Trained(<<>>, <<>>, corpus)
         /\ corpus \in Seq(CorpusWords)
<1>0. NumBytes \in Nat
  BY NumBytesNat
<1>1. corpus \in Seq(CorpusWords)
  BY VocabAssumption DEF CorpusWords
<1>2. PICK n \in Nat : n = Len(corpus) /\ DOMAIN corpus = 1 .. n
  BY <1>1
<1>3. \A k \in 1 .. n : corpus[k] \in CorpusWords
  BY <1>1, <1>2
<1>4. ASSUME NEW k \in 1 .. n
      PROVE  /\ \E pos : WordOK(sts[k], pos, NumBytes)
             /\ Fresh(sts[k]) /\ Walk(sts[k].tokens, sts[k].next) = corpus[k].tokens /\ sts[k].count = corpus[k].count
             /\ corpus[k].tokens \in Ids(NumBytes)
  <2>1. sts[k] = InitState(corpus[k])
    BY <1>2
  <2> QED BY <1>3, <2>1, InitWord
<1>5. sts \in Seq(Rec) /\ Len(sts) = n
  <2>1. \A k \in 1 .. n : sts[k] \in Rec
    BY <1>4 DEF WordOK
  <2>2. sts \in [1 .. n -> Rec]
    BY <1>2, <2>1
  <2> QED BY <2>2, SeqDef
<1>6. Words(sts, NumBytes)
  BY <1>4, <1>5 DEF Words
<1>7. Picking(sts, InitPairTables(sts), NumBytes)
  BY <1>0, <1>4, <1>5, <1>6, TablesStart
<1>8. Segmented(sts, corpus)
  BY <1>2, <1>4, <1>5 DEF Segmented
<1>9. Trained(<<>>, <<>>, corpus)
  <2>1. VInv(<<>>, <<>>)
    <3>1. <<>> \in Seq(Pairs) /\ <<>> \in Seq(Ids(NumBytes)) /\ Len(<<>>) = 0
      OBVIOUS
    <3> QED BY <3>1 DEF VInv, History
  <2>2. ASSUME NEW s \in 1 .. n PROVE \E o \in Ids(NumBytes) : corpus[s].tokens = St(<<>>, o, Len(<<>>))
    <3>1. corpus[s].tokens \in Ids(NumBytes) /\ corpus[s].tokens \in Word
      BY <1>0, <1>4, IdsWords
    <3>a. <<>> \in Seq(Pairs) /\ Len(<<>>) = 0
      OBVIOUS
    <3>2. PICK l \in History : l = <<>> /\ Len(l) = 0
      BY <3>a DEF History
    <3>3. St(l, corpus[s].tokens, 0) = corpus[s].tokens
      BY <3>1, StageValues
    <3> QED BY <3>1, <3>2, <3>3
  <2> QED BY <1>2, <2>1, <2>2 DEF Trained
<1> QED BY <1>1, <1>7, <1>8, <1>9

-----------------------------------------------------------------------------
(* The steps of the training on the segmented words.                       *)

(* The words of NaiveWords while a pair is merged, and when none is.       *)
PickWords(sts) == [s \in DOMAIN sts |-> [count |-> sts[s].count, tokens |-> Walk(sts[s].tokens, sts[s].next)]]
MergeWords(sts, pr, id) ==
  [s \in DOMAIN sts |-> [count |-> sts[s].count, tokens |-> MergeAll(Walk(sts[s].tokens, sts[s].next), pr, id)]]

LEMMA StatesDomain ==
  ASSUME NEW K, NEW sts, Words(sts, K)
  PROVE  DOMAIN sts = 1 .. Len(sts) /\ Len(sts) \in Nat
BY DEF Words

(* A pair that counts is picked: it is learned, and naively every word is  *)
(* merged at once.                                                         *)
Picked(m, l, sts, info, best, m2, l2) ==
  /\ Picking(sts, info, NumBytes + Len(m)) /\ Trained(m, l, PickWords(sts))
  /\ best \in DOMAIN info /\ info[best].count > 0
  /\ m2 = Append(m, B(m, best[1]) \o B(m, best[2])) /\ l2 = Append(l, best)
NowLearned(m, sts, best, m2, l2) ==
  /\ Len(m2) = Len(m) + 1 /\ Trained(m2, l2, MergeWords(sts, best, NumBytes + Len(m2)))
  /\ \E x \in Lives(sts) : x[3] = best

LEMMA PairLearned ==
  ASSUME NEW m, NEW l, NEW sts, NEW info, NEW best, NEW m2, NEW l2, Picked(m, l, sts, info, best, m2, l2)
  PROVE  NowLearned(m, sts, best, m2, l2)
<1> SUFFICES ASSUME Picking(sts, info, NumBytes + Len(m)),
                    Trained(m, l, PickWords(sts)), best \in DOMAIN info, info[best].count > 0,
                    m2 = Append(m, B(m, best[1]) \o B(m, best[2])), l2 = Append(l, best)
             PROVE  /\ Len(m2) = Len(m) + 1 /\ Trained(m2, l2, MergeWords(sts, best, NumBytes + Len(m2)))
                    /\ \E x \in Lives(sts) : x[3] = best
  BY DEF Picked, NowLearned
<1> DEFINE K == NumBytes + Len(m)
<1>1. VInv(m, l) /\ Len(m) = Len(l) /\ Len(l) \in Nat /\ l \in History
  BY TokenBytes DEF Trained, VInv
<1>2. K \in Nat /\ NumBytes \in Nat
  BY <1>1, NumBytesNat
<1>3. best \in Pairs /\ best[1] \in Nat /\ best[2] \in Nat /\ best = <<best[1], best[2]>>
  <2>1. best \in Pairs
    BY DEF Picking, Tab, InfoOK
  <2> QED BY <2>1 DEF Pairs
<1>4. Words(sts, K) /\ Tab(info, Lives(sts), Cnt(sts), Pairs)
  BY DEF Picking
<1>5. PICK x \in Lives(sts) : x[3] = best
  BY <1>4, CountedLives
<1>6. PICK s \in 1 .. Len(sts) : s = x[1] /\ LiveAt(sts[s], x[2]) /\ PairOf(sts[s], x[2]) = best
  BY <1>5 DEF Lives, Triples
<1>7. PICK pos : WordOK(sts[s], pos, K)
  BY <1>4 DEF Words
<1>8. HasPair(Walk(sts[s].tokens, sts[s].next), best[1], best[2])
  BY <1>3, <1>6, <1>7, ChainPairs
<1>9. DOMAIN sts = 1 .. Len(sts)
  BY <1>4, StatesDomain
<1>10. \A t \in 1 .. Len(sts) : \E o \in Ids(NumBytes) : Walk(sts[t].tokens, sts[t].next) = St(l, o, Len(l))
  <2>1. ASSUME NEW t \in 1 .. Len(sts)
        PROVE  \E o \in Ids(NumBytes) : Walk(sts[t].tokens, sts[t].next) = St(l, o, Len(l))
    <3>1. t \in DOMAIN PickWords(sts) /\ PickWords(sts)[t].tokens = Walk(sts[t].tokens, sts[t].next)
      BY <1>9 DEF PickWords
    <3> QED BY <3>1 DEF Trained
  <2> QED BY <2>1
<1>11. VInv(m2, l2)
  <2>1. PICK o \in Ids(NumBytes) : HasPair(St(l, o, Len(l)), best[1], best[2])
    BY <1>8, <1>10
  <2>2. VInv(Append(m, Cat(B(m, best[1]), B(m, best[2]))), Append(l, <<best[1], best[2]>>))
    BY <1>1, <1>3, <2>1, TokenLearned
  <2> QED BY <1>3, <2>2 DEF Cat
<1>12. Len(m2) = Len(m) + 1 /\ Len(l2) = Len(l) + 1
  <2>1. Len(m2) = Len(l2)
    BY <1>11 DEF VInv
  <2>2. Len(l2) = Len(l) + 1
    BY <1>1 DEF History
  <2> QED BY <1>1, <2>1, <2>2
<1>13. ASSUME NEW t \in 1 .. Len(sts)
       PROVE  \E o \in Ids(NumBytes) :
                MergeAll(Walk(sts[t].tokens, sts[t].next), best, NumBytes + Len(m2)) = St(l2, o, Len(l2))
  <2>1. PICK o \in Ids(NumBytes) : Walk(sts[t].tokens, sts[t].next) = St(l, o, Len(l))
    BY <1>10
  <2>2. o \in Word
    BY <1>2, IdsWords
  <2>3. St(Append(l, best), o, Len(l) + 1) = Mg(St(l, o, Len(l)), best[1], best[2], NumBytes + Len(l) + 1)
    BY <1>1, <1>3, <2>2, StagePrefix
  <2>4. NumBytes + Len(m2) = NumBytes + Len(l) + 1
    BY <1>1, <1>2, <1>12
  <2> QED BY <1>3, <1>12, <2>1, <2>3, <2>4 DEF Mg
<1>14. Trained(m2, l2, MergeWords(sts, best, NumBytes + Len(m2)))
  <2>1. \A t \in DOMAIN MergeWords(sts, best, NumBytes + Len(m2)) :
          /\ t \in 1 .. Len(sts)
          /\ MergeWords(sts, best, NumBytes + Len(m2))[t].tokens
               = MergeAll(Walk(sts[t].tokens, sts[t].next), best, NumBytes + Len(m2))
    BY <1>9 DEF MergeWords
  <2> QED BY <1>11, <1>13, <2>1 DEF Trained
<1> QED BY <1>5, <1>12, <1>14

(* When every place has been visited, nothing is left to merge.            *)
LEMMA WordsDone ==
  ASSUME NEW K \in Nat, NEW sts, NEW info, NEW pr, Merging(sts, info, pr, <<>>, K)
  PROVE  MergeWords(sts, pr, K) = PickWords(sts)
<1>1. Words(sts, K) /\ pr \in Pairs /\ \A x \in Lives(sts) : x[3] # pr
  BY MergeEnds DEF Merging
<1>2. pr[1] \in Nat /\ pr[2] \in Nat /\ pr = <<pr[1], pr[2]>>
  BY <1>1 DEF Pairs
<1>3. ASSUME NEW s \in DOMAIN sts
      PROVE  MergeAll(Walk(sts[s].tokens, sts[s].next), pr, K) = Walk(sts[s].tokens, sts[s].next)
  <2>1. s \in 1 .. Len(sts)
    BY <1>1, StatesDomain
  <2>2. PICK pos : WordOK(sts[s], pos, K)
    BY <1>1, <2>1 DEF Words
  <2>3. PICK c : c = Walk(sts[s].tokens, sts[s].next) /\ c \in Word
    BY <2>2, ChainValues DEF ChainOf
  <2>4. ~ \E l : LiveAt(sts[s], l) /\ PairOf(sts[s], l) = pr
    <3>1. ASSUME NEW l, LiveAt(sts[s], l), PairOf(sts[s], l) = pr PROVE FALSE
      <4>1. PICK x \in Lives(sts) : x = <<s, l, PairOf(sts[s], l)>>
        BY <1>1, <2>1, <3>1, LivesIn
      <4> QED BY <1>1, <3>1, <4>1
    <3> QED BY <3>1
  <2>5. ~HasPair(c, pr[1], pr[2])
    BY <1>2, <2>2, <2>3, <2>4, ChainPairs
  <2>6. Mg(c, pr[1], pr[2], K) = c
    BY <1>2, <2>3, <2>5, MergeNone
  <2> QED BY <1>2, <2>3, <2>6 DEF Mg
<1> QED BY <1>3 DEF MergeWords, PickWords

(* A place is merged: naively it had been already.                         *)
SamePlace(sts, info, pr, loc, N, s, left, m, new) ==
  /\ Merging(sts, info, pr, loc, N) /\ loc # <<>> /\ s = Head(loc)[1] /\ left = Head(loc)[2]
  /\ LiveAt(sts[s], left) /\ PairOf(sts[s], left) = pr /\ IsMerged(sts[s], left, N, m)
  /\ new = [sts EXCEPT ![s] = m]
SameMerge(sts, new, pr, N) == MergeWords(new, pr, N) = MergeWords(sts, pr, N)

LEMMA WordsKept ==
  ASSUME NEW K \in Nat, NEW sts, NEW info, NEW pr, NEW loc, NEW s, NEW left, NEW m, NEW new,
         SamePlace(sts, info, pr, loc, K, s, left, m, new)
  PROVE  SameMerge(sts, new, pr, K)
<1> SUFFICES ASSUME Merging(sts, info, pr, loc, K), loc # <<>>, s = Head(loc)[1], left = Head(loc)[2],
                    LiveAt(sts[s], left), PairOf(sts[s], left) = pr,
                    IsMerged(sts[s], left, K, m), new = [sts EXCEPT ![s] = m]
             PROVE  MergeWords(new, pr, K) = MergeWords(sts, pr, K)
  BY DEF SamePlace, SameMerge
<1>1. /\ Words(sts, K) /\ pr \in Pairs /\ pr[1] \in 1 .. K - 1 /\ pr[2] \in 1 .. K - 1 /\ Todo(sts, pr, loc)
  BY DEF Merging
<1>2. pr = <<pr[1], pr[2]>> /\ pr[1] \in Nat /\ pr[2] \in Nat /\ K \in 1 .. K /\ K # pr[2]
  BY <1>1 DEF Pairs
<1>3. /\ loc \in Seq(Spots) /\ Sorted(loc) /\ \A x : Listed(x, loc) => Valid(sts, x)
      /\ \A x \in Lives(sts) : x[3] = pr => Listed(<<x[1], x[2]>>, loc)
  BY <1>1 DEF Todo
<1>4. PICK rest : TailOf(loc, rest)
  BY <1>3, TailListed
<1>5. /\ Head(loc) \in Spots /\ Listed(Head(loc), loc)
      /\ \A x : Listed(x, loc) => x = Head(loc) \/ (x[1] = s => left < x[2])
  <2>1. /\ \A x : Listed(x, loc) <=> x = Head(loc) \/ Listed(x, rest)
        /\ \A x : Listed(x, rest) /\ x[1] = Head(loc)[1] => Head(loc)[2] < x[2]
    BY <1>3, <1>4 DEF TailOf
  <2> QED BY <1>4, <2>1 DEF TailOf
<1>6. s \in 1 .. Len(sts) /\ DOMAIN sts = 1 .. Len(sts)
  BY <1>1, <1>3, <1>5, StatesDomain DEF Valid
<1>7. PICK pos : WordOK(sts[s], pos, K)
  BY <1>1, <1>6 DEF Words
<1>8. \A l : LiveAt(sts[s], l) /\ l < left => PairOf(sts[s], l) # <<pr[1], pr[2]>>
  <2>1. ASSUME NEW l, LiveAt(sts[s], l), l < left, PairOf(sts[s], l) = pr PROVE FALSE
    <3>1. PICK x \in Lives(sts) : x = <<s, l, PairOf(sts[s], l)>>
      BY <1>1, <1>6, <2>1, LivesIn
    <3>2. Listed(<<x[1], x[2]>>, loc)
      BY <1>3, <2>1, <3>1
    <3>3. PICK y : y = <<s, l>> /\ Listed(y, loc)
      BY <3>1, <3>2
    <3>4. y = Head(loc) \/ left < l
      BY <1>5, <3>3
    <3>5. l \in Nat /\ left \in Nat
      <4>1. l \in Nat
        BY <1>7, <2>1, LiveTyping
      <4>2. left \in Nat
        BY <1>7, LiveTyping
      <4> QED BY <4>1, <4>2
    <3>6. y # Head(loc)
      <4>1. y[2] = l
        BY <3>3
      <4> QED BY <2>1, <3>5, <4>1
    <3> QED BY <2>1, <3>4, <3>5, <3>6
  <2> QED BY <1>2, <2>1
<1>9. Mg(Walk(sts[s].tokens, sts[s].next), pr[1], pr[2], K) = Mg(Walk(m.tokens, m.next), pr[1], pr[2], K)
  <2>1. PICK st : st = sts[s]
    OBVIOUS
  <2>2. PICK a \in Nat, b \in Nat : a = pr[1] /\ b = pr[2]
    BY <1>2
  <2>3. /\ WordOK(st, pos, K) /\ LiveAt(st, left) /\ PairOf(st, left) = <<a, b>> /\ K # b /\ IsMerged(st, left, K, m)
        /\ \A l : LiveAt(st, l) /\ l < left => PairOf(st, l) # <<a, b>>
    BY <1>2, <1>7, <1>8, <2>1, <2>2
  <2>4. Mg(Walk(st.tokens, st.next), a, b, K) = Mg(Walk(m.tokens, m.next), a, b, K)
    BY <1>2, <2>3, MergedChain
  <2> QED BY <2>1, <2>2, <2>4
<1>10. m.count = sts[s].count
  BY Zenon DEF IsMerged
<1>11. DOMAIN new = DOMAIN sts /\ \A t \in DOMAIN sts : new[t] = IF t = s THEN m ELSE sts[t]
  OBVIOUS
<1>12. MergeAll(Walk(m.tokens, m.next), pr, K) = MergeAll(Walk(sts[s].tokens, sts[s].next), pr, K)
  BY <1>2, <1>9 DEF Mg
<1>13. \A t \in DOMAIN sts :
         /\ new[t].count = sts[t].count
         /\ MergeAll(Walk(new[t].tokens, new[t].next), pr, K) = MergeAll(Walk(sts[t].tokens, sts[t].next), pr, K)
  BY <1>10, <1>11, <1>12
<1> QED BY <1>11, <1>13 DEF MergeWords

-----------------------------------------------------------------------------
(* The inductive invariant of the training.                                *)

TokenCount == NumBytes + Len(merged)

TrainInv ==
  /\ pc # "panic"
  /\ pc = "pick" => Picking(states, pair_info, TokenCount)
  /\ pc = "merge" => /\ Merging(states, pair_info, pair, locations, TokenCount)
                     /\ merged_any \/ \E x \in Lives(states) : x[3] = pair
  /\ pc \notin {"pick", "merge"} => states = <<>>
  /\ Trained(merged, learned, NaiveWords)

LEMMA BytesAre == \A id : BytesOf(id) = B(merged, id)
BY DEF BytesOf, B

LEMMA WordsNow ==
  /\ pc = "pick" => NaiveWords = PickWords(states)
  /\ pc = "merge" => NaiveWords = MergeWords(states, pair, TokenCount)
  /\ states = <<>> => NaiveWords = <<>>
<1>1. pc = "pick" => NaiveWords = PickWords(states)
  BY DEF NaiveWords, PickWords, Chain
<1>2. pc = "merge" => NaiveWords = MergeWords(states, pair, TokenCount)
  BY DEF NaiveWords, MergeWords, Chain, TokenCount
<1>3. ASSUME states = <<>> PROVE NaiveWords = <<>>
  <2>1. DOMAIN states = {}
    BY <1>3
  <2> QED BY <2>1 DEF NaiveWords
<1> QED BY <1>1, <1>2, <1>3

LEMMA WordsThen ==
  /\ pc' = "pick" => NaiveWords' = PickWords(states')
  /\ pc' = "merge" => NaiveWords' = MergeWords(states', pair', TokenCount')
  /\ states' = <<>> => NaiveWords' = <<>>
<1>1. pc' = "pick" => NaiveWords' = PickWords(states')
  BY DEF NaiveWords, PickWords, Chain
<1>2. pc' = "merge" => NaiveWords' = MergeWords(states', pair', TokenCount')
  BY DEF NaiveWords, MergeWords, Chain, TokenCount
<1>3. ASSUME states' = <<>> PROVE NaiveWords' = <<>>
  <2>1. DOMAIN states' = {}
    BY <1>3
  <2> QED BY <2>1 DEF NaiveWords
<1> QED BY <1>1, <1>2, <1>3

(* An invariant of the vocabulary of words still gives one when they go.   *)
LEMMA TrainedEmpty == \A m, l, w : Trained(m, l, w) => Trained(m, l, <<>>)
BY DEF Trained

LEMMA TokenCountNat ==
  ASSUME TrainInv
  PROVE  TokenCount \in Nat /\ VInv(merged, learned) /\ Len(merged) \in Nat /\ Len(learned) = Len(merged)
<1>1. VInv(merged, learned) /\ Len(merged) = Len(learned)
  BY DEF TrainInv, Trained, VInv
<1>2. Len(learned) \in Nat
  BY <1>1, TokenBytes
<1> QED BY <1>1, <1>2, NumBytesNat DEF TokenCount

LEMMA InitTrained ==
  ASSUME Init
  PROVE  TrainInv /\ NaiveWords \in Corpora
<1>1. PICK corpus \in Corpora : states = [k \in DOMAIN corpus |-> InitState(corpus[k])]
  BY DEF Init
<1>2. PICK sts : sts = states /\ sts = [k \in DOMAIN corpus |-> InitState(corpus[k])]
  BY <1>1
<1>3. /\ Picking(sts, InitPairTables(sts), NumBytes) /\ Segmented(sts, corpus) /\ Trained(<<>>, <<>>, corpus)
      /\ corpus \in Seq(CorpusWords)
  BY <1>2, CorpusStates
<1>4. pair_info = InitPairTables(sts) /\ merged = <<>> /\ learned = <<>> /\ pc = "pick"
  BY <1>2 DEF Init
<1>5. TokenCount = NumBytes
  BY <1>4, NumBytesNat DEF TokenCount
<1>6. PickWords(sts) = corpus
  <2>1. DOMAIN sts = DOMAIN corpus /\ DOMAIN corpus = 1 .. Len(sts)
    BY <1>2, <1>3 DEF Segmented
  <2>2. \A k \in DOMAIN corpus :
          /\ corpus[k] = [tokens |-> corpus[k].tokens, count |-> corpus[k].count]
          /\ corpus[k].count = sts[k].count /\ corpus[k].tokens = Walk(sts[k].tokens, sts[k].next)
    <3>1. \A k \in DOMAIN corpus : corpus[k] \in CorpusWords
      BY <1>3
    <3>2. \A k \in DOMAIN corpus : corpus[k] = [tokens |-> corpus[k].tokens, count |-> corpus[k].count]
      BY <3>1 DEF CorpusWords
    <3> QED BY <1>3, <2>1, <3>2 DEF Segmented
  <2>3. corpus = [k \in DOMAIN corpus |-> corpus[k]]
    BY <1>3
  <2>4. \A k \in DOMAIN corpus : corpus[k] = [count |-> sts[k].count, tokens |-> Walk(sts[k].tokens, sts[k].next)]
    BY <2>2
  <2>5. PickWords(sts) = [k \in DOMAIN corpus |-> corpus[k]]
    BY <2>1, <2>4 DEF PickWords
  <2> QED BY <2>3, <2>5
<1>7. NaiveWords = corpus
  BY <1>2, <1>4, <1>6, WordsNow
<1>8. TrainInv
  <2>1. Picking(states, pair_info, TokenCount)
    BY <1>2, <1>3, <1>4, <1>5
  <2>2. Trained(merged, learned, NaiveWords)
    BY <1>3, <1>4, <1>7
  <2> QED BY <1>4, <2>1, <2>2 DEF TrainInv
<1> QED BY <1>7, <1>8

-----------------------------------------------------------------------------
(* Each step keeps it.                                                     *)

LEMMA PickKeeps ==
  ASSUME TrainInv, FindBestPair
  PROVE  TrainInv'
<1>1. pc = "pick" /\ pc' = "merge" /\ states' = states
  BY DEF FindBestPair
<1>2. PICK best \in Candidates :
        /\ PushMerge(best) /\ pair' = best /\ locations' = pair_info[best].locations
        /\ pair_info' = Restrict(pair_info, DOMAIN pair_info \ {best})
  BY DEF FindBestPair
<1>3. Picking(states, pair_info, TokenCount) /\ TokenCount \in Nat /\ NumBytes \in Nat /\ Len(merged) \in Nat
  BY <1>1, TokenCountNat, NumBytesNat DEF TrainInv
<1>4. best \in DOMAIN pair_info /\ pair_info[best].count > 0
  BY DEF Candidates, Best
<1>5. /\ merged' = Append(merged, B(merged, best[1]) \o B(merged, best[2]))
      /\ learned' = Append(learned, best)
  BY <1>2, BytesAre DEF PushMerge
<1>6. Trained(merged, learned, PickWords(states))
  BY <1>1, WordsNow DEF TrainInv
<1>7. /\ Len(merged') = Len(merged) + 1
      /\ Trained(merged', learned', MergeWords(states, best, NumBytes + Len(merged')))
      /\ \E x \in Lives(states) : x[3] = best
  <2>1. PICK m2 : m2 = merged' /\ m2 = Append(merged, B(merged, best[1]) \o B(merged, best[2]))
    BY <1>5
  <2>2. PICK l2 : l2 = learned' /\ l2 = Append(learned, best)
    BY <1>5
  <2>3. Picking(states, pair_info, NumBytes + Len(merged))
    BY <1>3 DEF TokenCount
  <2>4. Picked(merged, learned, states, pair_info, best, m2, l2)
    BY <1>4, <1>6, <2>1, <2>2, <2>3 DEF Picked
  <2>5. NowLearned(merged, states, best, m2, l2)
    BY <2>4, PairLearned
  <2> QED BY <2>1, <2>2, <2>5 DEF NowLearned
<1>8. TokenCount' = TokenCount + 1
  BY <1>3, <1>7 DEF TokenCount
<1>9. Merging(states, pair_info', best, locations', TokenCount + 1)
  BY <1>2, <1>3, <1>4, MergeBegins
<1>10. Merging(states', pair_info', pair', locations', TokenCount')
  BY <1>1, <1>2, <1>8, <1>9
<1>11. NaiveWords' = MergeWords(states, best, NumBytes + Len(merged'))
  <2>1. NaiveWords' = MergeWords(states', pair', TokenCount')
    BY <1>1, WordsThen
  <2> QED BY <1>1, <1>2, <2>1 DEF TokenCount
<1>12. Trained(merged', learned', NaiveWords')
  BY <1>7, <1>11
<1>13. \E x \in Lives(states') : x[3] = pair'
  BY <1>1, <1>2, <1>7
<1> QED BY <1>1, <1>10, <1>12, <1>13 DEF TrainInv

LEMMA StaleKeeps ==
  ASSUME TrainInv, SkipStale
  PROVE  TrainInv' /\ NaiveWords' = NaiveWords
<1>1. /\ pc = "merge" /\ pc' = "merge" /\ states' = states /\ pair_info' = pair_info /\ pair' = pair
      /\ merged' = merged /\ learned' = learned /\ merged_any' = merged_any
      /\ locations # <<>> /\ locations' = Tail(locations)
      /\ ~Starts(states[Head(locations)[1]], Head(locations)[2])
  BY DEF SkipStale
<1>2. /\ TokenCount \in Nat /\ Merging(states, pair_info, pair, locations, TokenCount) /\ pair \in Pairs
      /\ merged_any \/ \E x \in Lives(states) : x[3] = pair
  BY <1>1, TokenCountNat DEF TrainInv, Merging
<1>3. ~ /\ LiveAt(states[Head(locations)[1]], Head(locations)[2])
        /\ PairOf(states[Head(locations)[1]], Head(locations)[2]) = pair
  <2>1. ASSUME NEW st, NEW l, LiveAt(st, l), PairOf(st, l) = pair PROVE Starts(st, l)
    <3>1. st.tokens[l] = pair[1] /\ st.tokens[st.next[l]] = pair[2]
      BY <2>1 DEF PairOf
    <3> QED BY <2>1, <3>1 DEF Starts, LiveAt, None
  <2> QED BY <1>1, <2>1
<1>4. Merging(states, pair_info, pair, Tail(locations), TokenCount)
  BY <1>1, <1>2, <1>3, SkipKeeps
<1>5. TokenCount' = TokenCount
  BY <1>1 DEF TokenCount
<1>6. Merging(states', pair_info', pair', locations', TokenCount')
  BY <1>1, <1>4, <1>5
<1>7. NaiveWords' = NaiveWords
  BY <1>1, <1>5, WordsNow, WordsThen
<1>8. Trained(merged', learned', NaiveWords')
  BY <1>1, <1>7 DEF TrainInv
<1>9. merged_any' \/ \E x \in Lives(states') : x[3] = pair'
  BY <1>1, <1>2
<1>10. TrainInv'
  BY <1>1, <1>6, <1>8, <1>9 DEF TrainInv
<1> QED BY <1>7, <1>10

LEMMA DoneKeeps ==
  ASSUME TrainInv, MergeDone
  PROVE  TrainInv' /\ NaiveWords' = NaiveWords /\ pc' = "pick"
<1>1. /\ pc = "merge" /\ pc' = (IF merged_any THEN "pick" ELSE "panic") /\ states' = states /\ pair_info' = pair_info
      /\ merged' = merged /\ learned' = learned /\ locations = <<>>
  BY DEF MergeDone
<1>2. /\ TokenCount \in Nat /\ Merging(states, pair_info, pair, <<>>, TokenCount)
      /\ merged_any \/ \E x \in Lives(states) : x[3] = pair
  BY <1>1, TokenCountNat DEF TrainInv
<1>3. Picking(states, pair_info, TokenCount) /\ \A x \in Lives(states) : x[3] # pair
  BY <1>2, MergeEnds
<1>4. pc' = "pick"
  BY <1>1, <1>2, <1>3
<1>5. MergeWords(states, pair, TokenCount) = PickWords(states)
  BY <1>2, WordsDone
<1>6. NaiveWords' = NaiveWords
  BY <1>1, <1>4, <1>5, WordsNow, WordsThen
<1>7. TokenCount' = TokenCount
  BY <1>1 DEF TokenCount
<1>8. Trained(merged', learned', NaiveWords')
  BY <1>1, <1>6 DEF TrainInv
<1>9. Picking(states', pair_info', TokenCount')
  BY <1>1, <1>3, <1>7
<1>10. TrainInv'
  BY <1>4, <1>8, <1>9 DEF TrainInv
<1> QED BY <1>4, <1>6, <1>10

LEMMA WrittenKeeps ==
  ASSUME TrainInv, WriteVocab
  PROVE  TrainInv' /\ NaiveWords' = <<>>
<1>1. pc' = "trained" /\ states' = <<>> /\ merged' = merged /\ learned' = learned
  BY DEF WriteVocab
<1>2. NaiveWords' = <<>>
  BY <1>1, WordsThen
<1>3. Trained(merged', learned', NaiveWords')
  BY <1>1, <1>2, TrainedEmpty DEF TrainInv
<1> QED BY <1>1, <1>2, <1>3 DEF TrainInv

(* The place that is merged. *)
LEMMA PlaceLive ==
  ASSUME TrainInv, pc = "merge", locations # <<>>, NEW s, s = Head(locations)[1], NEW left, left = Head(locations)[2],
         Starts(states[s], left)
  PROVE  /\ Merging(states, pair_info, pair, locations, TokenCount) /\ TokenCount \in Nat
         /\ s \in 1 .. Len(states) /\ LiveAt(states[s], left) /\ PairOf(states[s], left) = pair
         /\ \E pos : WordOK(states[s], pos, TokenCount)
<1>1. Merging(states, pair_info, pair, locations, TokenCount) /\ TokenCount \in Nat
  BY TokenCountNat DEF TrainInv
<1>2. Words(states, TokenCount) /\ pair \in Pairs /\ pair[1] \in 1 .. TokenCount - 1 /\ Todo(states, pair, locations)
  BY <1>1 DEF Merging
<1>3. locations \in Seq(Spots) /\ \A x : Listed(x, locations) => Valid(states, x)
  BY <1>2 DEF Todo
<1>4. Listed(Head(locations), locations)
  BY <1>3, TailListed DEF TailOf
<1>5. s \in 1 .. Len(states) /\ left \in 1 .. Len(states[s].next)
  BY <1>3, <1>4 DEF Valid
<1>6. PICK st : st = states[s]
  BY Zenon
<1>7. st.next[left] # 0 /\ st.tokens[left] = pair[1] /\ st.tokens[st.next[left]] = pair[2]
  BY <1>6 DEF Starts, None
<1>8. pair[1] # 0 /\ pair = <<pair[1], pair[2]>>
  BY <1>1, <1>2 DEF Pairs
<1>9. LiveAt(st, left) /\ PairOf(st, left) = pair
  BY <1>5, <1>6, <1>7, <1>8 DEF LiveAt, Alive, PairOf
<1> QED BY <1>1, <1>2, <1>5, <1>6, <1>9 DEF Words

(* The words as MergePlace leaves them. *)
IsPlaced(sts, s, left, id, right, after, new) ==
  /\ right = sts[s].next[left] /\ after = sts[s].next[right]
  /\ new = [sts EXCEPT
        ![s].tokens[left] = id, ![s].tokens[right] = TOMBSTONE,
        ![s].next[left] = after,
        ![s].prev = IF after = None THEN @ ELSE [@ EXCEPT ![after] = left]]
MergedAt(sts, s, left, id, new) == new = [sts EXCEPT ![s] = Merged(sts[s], left, id)]

LEMMA PlaceMerged ==
  ASSUME NEW N, NEW sts, NEW s \in DOMAIN sts, NEW left, NEW id, NEW pos, WordOK(sts[s], pos, N),
         NEW right, NEW after, NEW new, IsPlaced(sts, s, left, id, right, after, new)
  PROVE  MergedAt(sts, s, left, id, new)
BY ZenonT(40) DEF Merged, WordOK, Rec, IsPlaced, MergedAt

LEMMA PlaceKeeps ==
  ASSUME TrainInv, MergePlace
  PROVE  TrainInv' /\ NaiveWords' = NaiveWords /\ pc' = pc
<1>1. pc = "merge" /\ locations # <<>>
  BY Zenon DEF MergePlace
<1>2. PICK s : s = Head(locations)[1]
  OBVIOUS
<1>3. PICK left : left = Head(locations)[2]
  OBVIOUS
<1>4. PICK st : st = states[s]
  OBVIOUS
<1>5. PICK right : right = st.next[left]
  OBVIOUS
<1>6. PICK after : after = st.next[right]
  OBVIOUS
<1>7. PICK bef : bef = st.prev[left]
  OBVIOUS
<1>8. PICK less1 : less1 = IF bef = None THEN pair_info
                           ELSE Subtract(pair_info, <<st.tokens[bef], pair[1]>>, st.count)
  OBVIOUS
<1>9. PICK less : less = IF after = None THEN less1
                         ELSE Subtract(less1, <<pair[2], st.tokens[after]>>, st.count)
  OBVIOUS
<1>10. PICK more1 : more1 = IF bef = None THEN less
                            ELSE Add(less, <<st.tokens[bef], TokenCount>>, st.count, <<s, bef>>)
  OBVIOUS
<1>11. PICK more : more = IF after = None THEN more1
                          ELSE Add(more1, <<TokenCount, st.tokens[after]>>, st.count, <<s, left>>)
  OBVIOUS
<1>12. /\ Starts(st, left)
       /\ states' = [states EXCEPT
             ![s].tokens[left] = TokenCount, ![s].tokens[right] = TOMBSTONE,
             ![s].next[left] = after,
             ![s].prev = IF after = None THEN @ ELSE [@ EXCEPT ![after] = left]]
       /\ pair_info' = more
       /\ pc' = IF Underflows(less) THEN "panic" ELSE pc
  BY <1>2, <1>3, <1>4, <1>5, <1>6, <1>7, <1>8, <1>9, <1>10, <1>11, Zenon DEF MergePlace, TokenCount
<1>13. /\ locations' = Tail(locations) /\ merged_any' = TRUE
       /\ merged' = merged /\ learned' = learned /\ pair' = pair
  BY Zenon DEF MergePlace
<1>14. /\ Merging(states, pair_info, pair, locations, TokenCount) /\ TokenCount \in Nat
       /\ s \in 1 .. Len(states) /\ LiveAt(st, left) /\ PairOf(st, left) = pair
       /\ \E pos : WordOK(st, pos, TokenCount)
  BY <1>1, <1>2, <1>3, <1>4, <1>12, PlaceLive, Zenon
<1>15. s \in DOMAIN states
  BY <1>14, StatesDomain DEF Merging
<1>16. PICK m : m = Merged(st, left, TokenCount) /\ IsMerged(st, left, TokenCount, m)
  BY <1>14, MergedValues
<1>17. states' = [states EXCEPT ![s] = m]
  <2>1. PICK new : new = states'
    OBVIOUS
  <2>2. PICK N : N = TokenCount
    BY Zenon
  <2>3. IsPlaced(states, s, left, N, right, after, new)
    <3>1. right = states[s].next[left] /\ after = states[s].next[right]
      BY <1>4, <1>5, <1>6
    <3> QED BY <1>12, <2>1, <2>2, <3>1 DEF IsPlaced
  <2>4. \E pos : WordOK(states[s], pos, N)
    BY <1>4, <1>14, <2>2
  <2>5. MergedAt(states, s, left, N, new)
    BY <1>15, <2>3, <2>4, PlaceMerged
  <2> QED BY <1>4, <1>16, <2>1, <2>2, <2>5 DEF MergedAt
<1>18. Neighbours(st, left, bef, right, after)
  BY <1>5, <1>6, <1>7 DEF Neighbours
<1>19. pair[1] = st.tokens[left] /\ pair[2] = st.tokens[right]
  BY <1>5, <1>12 DEF Starts
<1>20. Lessened(pair_info, st, bef, left, right, after, less)
  <2>1. less1 = IF bef = None THEN pair_info
                ELSE Subtract(pair_info, <<st.tokens[bef], st.tokens[left]>>, st.count)
    BY <1>8, <1>19
  <2>2. less = IF after = None THEN less1
               ELSE Subtract(less1, <<st.tokens[right], st.tokens[after]>>, st.count)
    BY <1>9, <1>19
  <2> QED BY <2>1, <2>2 DEF Lessened
<1>21. Increased(less, st, s, bef, left, after, TokenCount, more)
  BY <1>10, <1>11 DEF Increased
<1>22. Merging(states', more, pair, Tail(locations), TokenCount) /\ ~Underflows(less)
  <2>1. PICK new : new = states' /\ new = [states EXCEPT ![s] = m]
    BY <1>17
  <2>2. PICK N \in Nat : N = TokenCount
    BY <1>14, Zenon
  <2>3. Merging(new, more, pair, Tail(locations), N) /\ ~Underflows(less)
    BY <1>1, <1>2, <1>3, <1>4, <1>14, <1>16, <1>18, <1>20, <1>21, <2>1, <2>2, MergeKeeps, Zenon
  <2> QED BY <2>1, <2>2, <2>3
<1>23. MergeWords(states', pair, TokenCount) = MergeWords(states, pair, TokenCount)
  <2>1. PICK new : new = states' /\ new = [states EXCEPT ![s] = m]
    BY <1>17
  <2>2. PICK N \in Nat : N = TokenCount
    BY <1>14
  <2>3. SamePlace(states, pair_info, pair, locations, N, s, left, m, new)
    BY <1>1, <1>2, <1>3, <1>4, <1>14, <1>16, <2>1, <2>2 DEF SamePlace
  <2>4. SameMerge(states, new, pair, N)
    BY <2>3, WordsKept
  <2> QED BY <2>1, <2>2, <2>4 DEF SameMerge
<1>24. TokenCount' = TokenCount /\ pc' = "merge"
  BY <1>1, <1>12, <1>13, <1>22 DEF TokenCount
<1>25. NaiveWords' = NaiveWords
  BY <1>1, <1>13, <1>23, <1>24, WordsNow, WordsThen
<1>26. Merging(states', pair_info', pair', locations', TokenCount')
  BY <1>12, <1>13, <1>22, <1>24
<1>27. Trained(merged', learned', NaiveWords')
  BY <1>13, <1>25 DEF TrainInv
<1>28. TrainInv'
  BY <1>13, <1>24, <1>26, <1>27 DEF TrainInv
<1> QED BY <1>1, <1>24, <1>25, <1>28

(* The encoder leaves the training alone. *)
EncodeNext == EncodePiece \/ PopStale \/ MergeSpans \/ Encoded

LEMMA EncoderKeeps ==
  ASSUME TrainInv, EncodeNext
  PROVE  TrainInv' /\ NaiveWords' = <<>> /\ NaiveWords = <<>>
<1>1. /\ pc \in {"trained", "encode"} /\ pc' \in {"encode", "encoded", "unknown"}
      /\ states' = states /\ merged' = merged /\ learned' = learned
  <2>1. CASE EncodePiece
    BY <2>1 DEF EncodePiece, trainer
  <2>2. CASE PopStale
    BY <2>2 DEF PopStale, trainer
  <2>3. CASE MergeSpans
    BY <2>3 DEF MergeSpans, trainer
  <2>4. CASE Encoded
    BY <2>4 DEF Encoded, trainer
  <2> QED BY <2>1, <2>2, <2>3, <2>4 DEF EncodeNext
<1>2. states = <<>>
  BY <1>1 DEF TrainInv
<1>3. NaiveWords' = <<>> /\ NaiveWords = <<>>
  BY <1>1, <1>2, WordsNow, WordsThen
<1>4. Trained(merged', learned', NaiveWords')
  BY <1>1, <1>3 DEF TrainInv
<1> QED BY <1>1, <1>2, <1>3, <1>4 DEF TrainInv

LEMMA VarsKeep ==
  ASSUME TrainInv, UNCHANGED vars
  PROVE  TrainInv' /\ NaiveWords' = NaiveWords
BY DEF TrainInv, vars, NaiveWords, TokenCount, Chain

LEMMA TrainKeeps ==
  ASSUME TrainInv, [TokenizerNext]_vars
  PROVE  TrainInv'
<1>1. CASE FindBestPair
  BY <1>1, PickKeeps
<1>2. CASE SkipStale
  BY <1>2, StaleKeeps
<1>3. CASE MergePlace
  BY <1>3, PlaceKeeps
<1>4. CASE MergeDone
  BY <1>4, DoneKeeps
<1>5. CASE WriteVocab
  BY <1>5, WrittenKeeps
<1>6. CASE EncodeNext
  BY <1>6, EncoderKeeps
<1>7. CASE UNCHANGED vars
  BY <1>7, VarsKeep
<1> QED BY <1>1, <1>2, <1>3, <1>4, <1>5, <1>6, <1>7 DEF TokenizerNext, TrainNext, EncodeNext

(* For every corpus: the lists of every word stay linked, the tables count *)
(* its live pairs, and merge_pair neither subtracts below zero nor meets a *)
(* pair without a count.                                                   *)
THEOREM TrainedAlways == Spec => []TrainInv
<1>1. TokenizerInit => TrainInv
  BY InitTrained DEF TokenizerInit
<1>2. TrainInv /\ [TokenizerNext]_vars => TrainInv'
  BY TrainKeeps
<1> QED BY <1>1, <1>2, PTL DEF Spec

-----------------------------------------------------------------------------
(* What the invariant says of the tables and of the vocabulary.            *)

LEMMA CountsAre == Naive!Counts = CountsOf(NaiveWords)
<1>1. Naive!Occurrences = Occ(NaiveWords)
  BY DEF Naive!Occurrences, Occ
<1>2. \A o : Naive!PairAt(o) = PairIn(NaiveWords, o)
  BY DEF Naive!PairAt, PairIn
<1>3. \A p : {o \in Naive!Occurrences : Naive!PairAt(o) = p} = OccOf(NaiveWords, p)
  BY <1>1, <1>2 DEF OccOf
<1>4. {Naive!PairAt(o) : o \in Naive!Occurrences} = {PairIn(NaiveWords, o) : o \in Occ(NaiveWords)}
  BY <1>1, <1>2
<1> DEFINE mine == [p \in {Naive!PairAt(o) : o \in Naive!Occurrences} |->
                      Cardinality({o \in Naive!Occurrences : Naive!PairAt(o) = p})]
<1>5. Naive!Counts = mine
  BY Zenon DEF Naive!Counts, Naive!Cardinality, Cardinality
<1>6. mine = [p \in {PairIn(NaiveWords, o) : o \in Occ(NaiveWords)} |-> Cardinality(OccOf(NaiveWords, p))]
  BY <1>3, <1>4
<1> QED BY <1>5, <1>6 DEF CountsOf

LEMMA CountsNow ==
  ASSUME TrainInv, pc = "pick"
  PROVE  /\ SameCounts(pair_info, Naive!Counts) /\ Candidates = Naive!Best(Naive!Counts)
         /\ Picking(states, pair_info, TokenCount)
<1>1. Picking(states, pair_info, TokenCount) /\ TokenCount \in Nat /\ NaiveWords = PickWords(states)
  BY TokenCountNat, WordsNow DEF TrainInv
<1>2. DOMAIN states = 1 .. Len(states)
  BY <1>1, StatesDomain DEF Picking
<1>3. Segmented(states, NaiveWords)
  BY <1>1, <1>2 DEF Segmented, PickWords
<1>4. SameCounts(pair_info, CountsOf(NaiveWords))
  BY <1>1, <1>3, CountsExact
<1>5. Candidates = Best(CountsOf(NaiveWords))
  BY <1>4, BestSame DEF Candidates
<1>6. \A c : Naive!Best(c) = Best(c)
  BY DEF Naive!Best, Best, Naive!PairBefore, PairBefore, Naive!Before, Before, Naive!BytesOf, BytesOf
<1> QED BY <1>1, <1>4, <1>5, <1>6, CountsAre

LEMMA TablesNow ==
  ASSUME TrainInv
  PROVE  TablesExact
<1>1. pc # "panic"
  BY DEF TrainInv
<1>2. ASSUME NEW i \in TokenIds, NEW j \in TokenIds, BytesOf(i) = BytesOf(j) PROVE i = j
  <2>1. VInv(merged, learned) /\ Len(learned) = Len(merged)
    BY TokenCountNat
  <2>2. i \in 1 .. NumBytes + Len(learned) /\ j \in 1 .. NumBytes + Len(learned)
    BY <2>1 DEF TokenIds
  <2>3. B(merged, i) = B(merged, j)
    BY <1>2, BytesAre
  <2> QED BY <2>1, <2>2, <2>3, TokensDistinct
<1>3. ASSUME pc = "pick", NEW p \in DOMAIN pair_info \cup DOMAIN Naive!Counts
      PROVE  IF p \in DOMAIN Naive!Counts
             THEN /\ p \in DOMAIN pair_info
                  /\ pair_info[p].count = Naive!Counts[p]
                  /\ \A s \in DOMAIN states : \A left \in DOMAIN states[s].next :
                       LET right == states[s].next[left] IN
                       right # None /\ <<states[s].tokens[left], states[s].tokens[right]>> = p
                       => Cardinality({i \in DOMAIN pair_info[p].locations :
                                         pair_info[p].locations[i] = <<s, left>>}) = 1
             ELSE pair_info[p].count = 0
  <2>1. SameCounts(pair_info, Naive!Counts) /\ Picking(states, pair_info, TokenCount) /\ TokenCount \in Nat
    BY <1>3, CountsNow, TokenCountNat
  <2>2. CASE p \in DOMAIN Naive!Counts
    <3>1. p \in DOMAIN pair_info /\ pair_info[p].count = Naive!Counts[p]
      BY <2>1, <2>2 DEF SameCounts
    <3>2. ASSUME NEW s \in DOMAIN states, NEW left \in DOMAIN states[s].next, states[s].next[left] # None,
                 <<states[s].tokens[left], states[s].tokens[states[s].next[left]]>> = p
          PROVE  Cardinality({i \in DOMAIN pair_info[p].locations : pair_info[p].locations[i] = <<s, left>>}) = 1
      <4>1. s \in 1 .. Len(states)
        BY <2>1, StatesDomain DEF Picking
      <4>2. PICK N \in Nat : N = TokenCount
        BY <2>1
      <4>3. Spotted(N, states, pair_info, p, s, left)
        BY <2>1, <3>1, <3>2, <4>1, <4>2 DEF Spotted, None
      <4>4. Once(pair_info[p].locations, <<s, left>>)
        BY <4>3, ListedOnce
      <4> QED BY <4>4 DEF Once
    <3> QED BY <2>2, <3>1, <3>2
  <2>3. CASE p \notin DOMAIN Naive!Counts
    BY <2>1, <2>3 DEF SameCounts
  <2> QED BY <2>2, <2>3
<1> QED BY <1>1, <1>2, <1>3 DEF TablesExact

(* Whenever no merge is under way, pair_info has of every pair exactly the *)
(* count that counting the whole corpus anew would give, and all tokens    *)
(* learned so far have different bytes, so the best pair is never a tie.   *)
THEOREM TablesStayExact == Spec => []TablesExact
<1>1. TrainInv => TablesExact
  BY TablesNow
<1> QED BY <1>1, TrainedAlways, PTL

-----------------------------------------------------------------------------
(* The trainer implements NaiveBpe.                                        *)

NaiveVars == <<NaiveWords, merged, learned, pc \in {"pick", "merge", "panic"}>>

LEMMA InitImplements == Init => Naive!Init
BY InitTrained DEF Naive!Init, Init

LEMMA PickImplements ==
  ASSUME TrainInv, FindBestPair
  PROVE  Naive!MergeBest
<1>1. pc = "pick" /\ pc' = "merge" /\ states' = states /\ Len(merged) < NumMerges
  BY DEF FindBestPair
<1>2. PICK best \in Candidates : PushMerge(best) /\ pair' = best
  BY DEF FindBestPair
<1>3. best \in Naive!Best(Naive!Counts)
  BY <1>1, <1>2, CountsNow
<1>4. Naive!PushMerge(best)
  BY <1>2 DEF PushMerge, Naive!PushMerge, BytesOf, Naive!BytesOf
<1>5. NaiveWords = PickWords(states) /\ NaiveWords' = MergeWords(states, best, NumBytes + Len(merged'))
  <2>1. NaiveWords' = MergeWords(states', pair', TokenCount')
    BY <1>1, WordsThen
  <2> QED BY <1>1, <1>2, <2>1, WordsNow DEF TokenCount
<1>6. NaiveWords' = [k \in DOMAIN NaiveWords |-> [NaiveWords[k] EXCEPT !.tokens =
                       MergeAll(@, best, NumBytes + Len(merged'))]]
  BY <1>5 DEF PickWords, MergeWords
<1>7. \A w, p, id : Naive!MergeAll(w, p, id) = MergeAll(w, p, id)
  BY Zenon DEF Naive!MergeAll, MergeAll, Naive!MergeNext, MergeNext, Naive!Last, Last, Naive!Front, Front
<1>8. NaiveWords' = [k \in DOMAIN NaiveWords |-> [NaiveWords[k] EXCEPT !.tokens =
                       Naive!MergeAll(@, best, NumBytes + Len(merged'))]]
  BY <1>6, <1>7
<1>9. /\ pc \in {"pick", "merge", "panic"} /\ (pc \in {"pick", "merge", "panic"})'
      /\ (pc \in {"pick", "merge", "panic"})' = (pc \in {"pick", "merge", "panic"})
  BY <1>1
<1>10. \E p \in Naive!Best(Naive!Counts) :
         /\ Naive!PushMerge(p)
         /\ NaiveWords' = [k \in DOMAIN NaiveWords |-> [NaiveWords[k] EXCEPT !.tokens =
                             Naive!MergeAll(@, p, NumBytes + Len(merged'))]]
  BY <1>3, <1>4, <1>8
<1> QED BY <1>1, <1>9, <1>10, Zenon DEF Naive!MergeBest

LEMMA WriteImplements ==
  ASSUME TrainInv, WriteVocab
  PROVE  Naive!Stop
<1>1. /\ pc = "pick" /\ pc' = "trained" /\ merged' = merged /\ learned' = learned
      /\ Len(merged) = NumMerges \/ Candidates = {}
  BY DEF WriteVocab
<1>2. NaiveWords' = <<>>
  BY WrittenKeeps
<1>3. Candidates = Naive!Best(Naive!Counts)
  BY <1>1, CountsNow
<1> QED BY <1>1, <1>2, <1>3 DEF Naive!Stop

LEMMA StepImplements ==
  ASSUME TrainInv, [TokenizerNext]_vars
  PROVE  [Naive!Next]_NaiveVars
<1>1. CASE FindBestPair
  BY <1>1, PickImplements DEF Naive!Next
<1>2. CASE SkipStale
  BY <1>2, StaleKeeps, Zenon DEF SkipStale, NaiveVars
<1>3. CASE MergePlace
  BY <1>3, PlaceKeeps, Zenon DEF MergePlace, NaiveVars
<1>4. CASE MergeDone
  BY <1>4, DoneKeeps DEF MergeDone, NaiveVars
<1>5. CASE WriteVocab
  BY <1>5, WriteImplements DEF Naive!Next
<1>6. CASE EncodeNext
  <2>1. NaiveWords' = NaiveWords
    BY <1>6, EncoderKeeps
  <2>2. /\ pc \in {"trained", "encode"} /\ pc' \in {"encode", "encoded", "unknown"}
        /\ merged' = merged /\ learned' = learned
    BY <1>6 DEF EncodeNext, EncodePiece, PopStale, MergeSpans, Encoded
  <2> QED BY <2>1, <2>2 DEF NaiveVars
<1>7. CASE UNCHANGED vars
  <2>1. NaiveWords' = NaiveWords
    BY <1>7, VarsKeep
  <2> QED BY <1>7, <2>1 DEF vars, NaiveVars
<1> QED BY <1>1, <1>2, <1>3, <1>4, <1>5, <1>6, <1>7 DEF TokenizerNext, TrainNext, EncodeNext

(* learn_merges with its lists and tables learns what naive BPE learns,    *)
(* which counts all pairs anew before each merge and merges every word     *)
(* from left to right: the same pairs in the same order, to the same end.  *)
THEOREM TrainerImplements == Spec => ImplementsNaiveBpe
<1>1. TokenizerInit => Naive!Init
  BY InitImplements DEF TokenizerInit
<1>2. TrainInv /\ [TokenizerNext]_vars => [Naive!Next]_Naive!nvars
  <2>1. Naive!nvars = NaiveVars /\ (Naive!nvars)' = NaiveVars'
    BY DEF Naive!nvars, NaiveVars
  <2> QED BY <2>1, StepImplements
<1> QED BY <1>1, <1>2, TrainedAlways, PTL DEF Spec, ImplementsNaiveBpe, Naive!Spec

-----------------------------------------------------------------------------
(* A word half-way through a merge: the pair <<a, b>> is merged in front,  *)
(* and what is behind is as it was.                                        *)

Part(c, w, a, b, id) == \E p, r \in Word : w = Cat(p, r) /\ c = Cat(Mg(p, a, b, id), r)

(* Of two cuts of a word, one is in front of the other.                    *)
Levi(s, t, u, v) ==
  \/ \E x \in Word : s = Cat(u, x) /\ v = Cat(x, t)
  \/ \E x \in Word : u = Cat(s, x) /\ t = Cat(x, v)

LEMMA TwoCuts ==
  \A t, s, u, v \in Word : Cat(u, v) = Cat(s, t) => Levi(s, t, u, v)
<1> DEFINE G == {t \in Word : \A s, u, v \in Word : Cat(u, v) = Cat(s, t) => Levi(s, t, u, v)}
<1>1. Nil \in G
  <2>1. ASSUME NEW s \in Word, NEW u \in Word, NEW v \in Word, Cat(u, v) = Cat(s, Nil)
        PROVE  Levi(s, Nil, u, v)
    BY <2>1, CatNil DEF Levi
  <2> QED BY <2>1, WordTypes
<1>2. ASSUME NEW t \in Word, NEW e \in Nat, t \in G PROVE Put(t, e) \in G
  <2>1. ASSUME NEW s \in Word, NEW u \in Word, NEW v \in Word, Cat(u, v) = Cat(s, Put(t, e))
        PROVE  Levi(s, Put(t, e), u, v)
    <3>1. Cat(u, v) = Put(Cat(s, t), e) /\ Cat(s, t) \in Word /\ Put(t, e) \in Word
      BY <2>1, CatPut, WordTypes
    <3>2. CASE v = Nil
      <4>1. u = Cat(s, Put(t, e)) /\ Put(t, e) = Cat(Put(t, e), v)
        BY <2>1, <3>1, <3>2, CatNil
      <4> QED BY <3>1, <4>1 DEF Levi
    <3>3. CASE v # Nil
      <4>1. PICK y \in Word : v = Put(y, e) /\ Cat(s, t) = Cat(u, y)
        BY <3>1, <3>3, CatEndsIn
      <4>2. Levi(s, t, u, y)
        BY <1>2, <4>1
      <4>3. CASE \E x \in Word : s = Cat(u, x) /\ y = Cat(x, t)
        <5>1. PICK x \in Word : s = Cat(u, x) /\ y = Cat(x, t)
          BY <4>3
        <5>2. v = Cat(x, Put(t, e))
          BY <4>1, <5>1, CatPut
        <5> QED BY <5>1, <5>2 DEF Levi
      <4>4. CASE \E x \in Word : u = Cat(s, x) /\ t = Cat(x, y)
        <5>1. PICK x \in Word : u = Cat(s, x) /\ t = Cat(x, y)
          BY <4>4
        <5>2. Put(t, e) = Cat(x, v)
          BY <4>1, <5>1, CatPut
        <5> QED BY <5>1, <5>2 DEF Levi
      <4> QED BY <4>2, <4>3, <4>4 DEF Levi
    <3> QED BY <3>2, <3>3
  <2> QED BY <2>1, WordTypes
<1> HIDE DEF G
<1>3. \A t \in Word : t \in G
  BY <1>1, <1>2, WordGrows
<1> QED BY <1>3 DEF G

(* A pair of a longer word is in the word or at its end.                   *)
LEMMA HasPairEnds ==
  ASSUME NEW a \in Nat, NEW b \in Nat, NEW w \in Word, NEW t \in Nat, HasPair(Put(w, t), a, b)
  PROVE  HasPair(w, a, b) \/ (t = b /\ \E x \in Word : w = Put(x, a))
<1>1. PICK c, d \in Word : Put(w, t) = Cat(Put(Put(c, a), b), d)
  BY DEF HasPair
<1>2. Put(c, a) \in Word /\ Put(Put(c, a), b) \in Word
  BY WordTypes
<1>3. CASE d = Nil
  <2>1. Put(w, t) = Put(Put(c, a), b)
    BY <1>1, <1>2, <1>3, CatNil
  <2> QED BY <1>2, <2>1, PutInjective
<1>4. CASE d # Nil
  <2>1. PICK y \in Word, e \in Nat : d = Put(y, e)
    BY <1>4, PutCases
  <2>2. Put(w, t) = Put(Cat(Put(Put(c, a), b), y), e)
    BY <1>1, <1>2, <2>1, CatPut
  <2>3. Cat(Put(Put(c, a), b), y) \in Word
    BY <1>2, WordTypes
  <2>4. w = Cat(Put(Put(c, a), b), y)
    BY <2>2, <2>3, PutInjective
  <2> QED BY <2>4 DEF HasPair
<1> QED BY <1>3, <1>4

(* After the merge of a pair there is none left.                           *)
LEMMA MergedNone ==
  ASSUME NEW a \in Nat, NEW b \in Nat, NEW id \in Nat, id # b
  PROVE  \A w \in Word : ~HasPair(Mg(w, a, b, id), a, b)
<1> DEFINE G == {w \in Word : ~HasPair(Mg(w, a, b, id), a, b)}
<1>1. Nil \in G
  <2>1. Nil \in Word /\ Mg(Nil, a, b, id) = Nil
    BY MergeStep, WordTypes
  <2>2. ASSUME NEW c \in Word, NEW d \in Word, Nil = Cat(Put(Put(c, a), b), d) PROVE FALSE
    <3>1. Put(c, a) \in Word /\ Put(Put(c, a), b) \in Word /\ Put(Put(c, a), b) # Nil
      BY WordTypes
    <3> QED BY <2>2, <3>1, CatIsNil
  <2>3. ~HasPair(Nil, a, b)
    BY <2>2 DEF HasPair
  <2> QED BY <2>1, <2>3
<1>2. ASSUME NEW w \in Word, NEW t \in Nat, w \in G PROVE Put(w, t) \in G
  <2>1. PICK g \in Word : g = Mg(w, a, b, id)
    BY MergeStep
  <2>2. Put(w, t) \in Word /\ ~HasPair(g, a, b)
    BY <1>2, <2>1, WordTypes
  <2>3. CASE t = b /\ \E x \in Word : g = Put(x, a)
    <3>1. PICK x \in Word : g = Put(x, a)
      BY <2>3
    <3>2. Mg(Put(w, t), a, b, id) = Put(x, id)
      <4>1. Mg(w, a, b, id) = Put(x, a)
        BY <2>1, <3>1
      <4>2. Mg(Put(w, b), a, b, id) = Put(x, id)
        BY <4>1, MergeStep
      <4> QED BY <2>3, <4>2
    <3>3. ~HasPair(x, a, b)
      BY <2>2, <3>1, HasPairGrows
    <3>4. ~HasPair(Put(x, id), a, b)
      BY <3>3, HasPairEnds
    <3> QED BY <2>2, <3>2, <3>4
  <2>4. CASE ~(t = b /\ \E x \in Word : g = Put(x, a))
    <3>1. Mg(Put(w, t), a, b, id) = Put(g, t)
      BY <2>1, <2>4, MergeStep
    <3>2. ~HasPair(Put(g, t), a, b)
      BY <2>2, <2>4, HasPairEnds
    <3> QED BY <2>2, <3>1, <3>2
  <2> QED BY <2>3, <2>4
<1> HIDE DEF G
<1>3. \A w \in Word : w \in G
  BY <1>1, <1>2, WordGrows
<1> QED BY <1>3 DEF G

(* A word half-way through a merge and without a pair is through with it.  *)
LEMMA MergeRest ==
  ASSUME NEW a \in Nat, NEW b \in Nat, NEW id \in Nat, NEW p \in Word
  PROVE  \A r \in Word : ~HasPair(Cat(Mg(p, a, b, id), r), a, b) =>
                            Mg(Cat(p, r), a, b, id) = Cat(Mg(p, a, b, id), r)
<1>0. PICK g \in Word : g = Mg(p, a, b, id)
  BY MergeStep
<1> DEFINE G == {r \in Word : ~HasPair(Cat(g, r), a, b) => Mg(Cat(p, r), a, b, id) = Cat(g, r)}
<1>1. Nil \in G
  BY <1>0, CatNil, WordTypes
<1>2. ASSUME NEW r \in Word, NEW t \in Nat, r \in G PROVE Put(r, t) \in G
  <2>1. /\ Put(r, t) \in Word /\ Cat(g, r) \in Word /\ Cat(p, r) \in Word
        /\ Cat(g, Put(r, t)) = Put(Cat(g, r), t) /\ Cat(p, Put(r, t)) = Put(Cat(p, r), t)
    BY WordTypes, CatPut
  <2>2. ASSUME ~HasPair(Cat(g, Put(r, t)), a, b)
        PROVE  Mg(Cat(p, Put(r, t)), a, b, id) = Cat(g, Put(r, t))
    <3>1. ~HasPair(Cat(g, r), a, b)
      BY <2>1, <2>2, HasPairGrows
    <3>2. Mg(Cat(p, r), a, b, id) = Cat(g, r)
      BY <1>2, <3>1
    <3>3. ASSUME t = b, NEW x \in Word, Cat(g, r) = Put(x, a) PROVE FALSE
      <4>1. HasPair(Put(Put(x, a), b), a, b)
        BY HasPairGrows
      <4> QED BY <2>1, <2>2, <3>3, <4>1
    <3>4. Mg(Put(Cat(p, r), t), a, b, id) = Put(Mg(Cat(p, r), a, b, id), t)
      BY <2>1, <3>2, <3>3, MergeStep
    <3> QED BY <2>1, <3>2, <3>4
  <2> QED BY <2>1, <2>2
<1> HIDE DEF G
<1>3. \A r \in Word : r \in G
  BY <1>1, <1>2, WordGrows
<1> QED BY <1>0, <1>3 DEF G

(* The next pair of the merge is replaced.                                 *)
LEMMA PartMerged ==
  ASSUME NEW a \in Nat, NEW b \in Nat, NEW id \in Nat, id # b,
         NEW u \in Word, NEW v \in Word, NEW w \in Word,
         Part(Cat(Put(Put(u, a), b), v), w, a, b, id), ~HasPair(Put(u, a), a, b)
  PROVE  Part(Cat(Put(u, id), v), w, a, b, id)
<1>1. PICK p \in Word, r \in Word : w = Cat(p, r) /\ Cat(Put(Put(u, a), b), v) = Cat(Mg(p, a, b, id), r)
  BY DEF Part
<1>2. PICK g \in Word : g = Mg(p, a, b, id)
  BY MergeStep
<1>3. PICK ua \in Word : ua = Put(u, a)
  BY WordTypes
<1>4. PICK s \in Word : s = Put(ua, b)
  BY WordTypes
<1>5. Cat(g, r) = Cat(s, v) /\ ~HasPair(ua, a, b) /\ ~HasPair(g, a, b)
  BY <1>1, <1>2, <1>3, <1>4, MergedNone
<1>6. ASSUME NEW x \in Word, g = Cat(s, x) PROVE FALSE
  <2>1. g = Cat(Put(Put(u, a), b), x)
    BY <1>3, <1>4, <1>6
  <2>2. HasPair(g, a, b)
    BY <2>1 DEF HasPair
  <2> QED BY <1>5, <2>2
<1>7. PICK x \in Word : s = Cat(g, x) /\ r = Cat(x, v)
  <2>1. Levi(s, v, g, r)
    BY <1>5, TwoCuts
  <2> QED BY <1>6, <2>1 DEF Levi
<1>8. x # Nil
  <2>1. x = Nil => g = Cat(s, Nil)
    BY <1>7, CatNil
  <2> QED BY <2>1, <1>6, WordTypes
<1>9. PICK y \in Word : x = Put(y, b) /\ ua = Cat(g, y)
  <2>1. Cat(g, x) = Put(ua, b)
    BY <1>4, <1>7
  <2> QED BY <1>8, <2>1, CatEndsIn
<1>10. PICK py \in Word : py = Cat(p, y)
  BY WordTypes
<1>11. Mg(py, a, b, id) = ua
  BY <1>2, <1>5, <1>9, <1>10, MergeRest
<1>12. Mg(Put(py, b), a, b, id) = Put(u, id)
  BY <1>3, <1>11, MergeStep
<1>13. Put(py, b) \in Word /\ Put(py, b) = Cat(p, x)
  BY <1>9, <1>10, WordTypes, CatPut
<1>14. w = Cat(Put(py, b), v)
  BY <1>1, <1>7, <1>13, CatAssoc
<1>15. Cat(Put(u, id), v) = Cat(Mg(Put(py, b), a, b, id), v)
  BY <1>12
<1> QED BY <1>13, <1>14, <1>15 DEF Part

(* A word is cut where the half-merged word is.                            *)
PartCut(s, t, w, a, b, id) ==
  \E c, d \in Word : w = Cat(c, d) /\ Part(s, c, a, b, id) /\ Part(t, d, a, b, id)

LEMMA PartSplit ==
  ASSUME NEW a \in Nat, NEW b \in Nat, NEW id \in Nat,
         NEW s \in Word, NEW t \in Word, NEW w \in Word, Part(Cat(s, t), w, a, b, id)
  PROVE  PartCut(s, t, w, a, b, id)
<1> SUFFICES \E c, d \in Word : w = Cat(c, d) /\ Part(s, c, a, b, id) /\ Part(t, d, a, b, id)
  BY DEF PartCut
<1>1. PICK p \in Word, r \in Word : w = Cat(p, r) /\ Cat(s, t) = Cat(Mg(p, a, b, id), r)
  BY DEF Part
<1>2. PICK g \in Word : g = Mg(p, a, b, id)
  BY MergeStep
<1>3. CASE \E x \in Word : s = Cat(g, x) /\ r = Cat(x, t)
  <2>1. PICK x \in Word : s = Cat(g, x) /\ r = Cat(x, t)
    BY <1>3
  <2>2. Part(s, Cat(p, x), a, b, id)
    BY <1>2, <2>1 DEF Part
  <2>3. t = Cat(Mg(Nil, a, b, id), t) /\ t = Cat(Nil, t) /\ Nil \in Word
    BY MergeStep, CatNil, WordTypes
  <2>4. Part(t, t, a, b, id)
    BY <2>3 DEF Part
  <2>5. w = Cat(Cat(p, x), t) /\ Cat(p, x) \in Word
    BY <1>1, <2>1, CatAssoc, WordTypes
  <2> QED BY <2>2, <2>4, <2>5
<1>4. CASE \E x \in Word : g = Cat(s, x) /\ t = Cat(x, r)
  <2>1. PICK x \in Word : g = Cat(s, x) /\ t = Cat(x, r)
    BY <1>4
  <2>2. PICK c \in Word, d \in Word : p = Cat(c, d) /\ Mg(c, a, b, id) = s /\ Mg(d, a, b, id) = x
    <3>1. Mg(p, a, b, id) = Cat(s, x)
      BY <1>2, <2>1
    <3> QED BY <3>1, MergeSplit
  <2>3. s = Cat(Mg(c, a, b, id), Nil) /\ c = Cat(c, Nil) /\ Nil \in Word
    BY <2>2, CatNil, WordTypes
  <2>4. Part(s, c, a, b, id)
    BY <2>3 DEF Part
  <2>5. Part(t, Cat(d, r), a, b, id)
    BY <2>1, <2>2 DEF Part
  <2>6. w = Cat(c, Cat(d, r)) /\ Cat(d, r) \in Word
    BY <1>1, <2>2, CatAssoc, WordTypes
  <2> QED BY <2>4, <2>5, <2>6
<1>5. Cat(g, r) = Cat(s, t)
  BY <1>1, <1>2
<1>6. Levi(s, t, g, r)
  BY <1>5, TwoCuts
<1> QED BY <1>3, <1>4, <1>6 DEF Levi

(* What a single token of it stands for.                                   *)
LEMMA PartOne ==
  ASSUME NEW a \in Nat, NEW b \in Nat, NEW id \in Nat, id # a,
         NEW w \in Word, NEW e \in Nat, Part(One(e), w, a, b, id)
  PROVE  w = One(e) \/ (e = id /\ w = Two(a, b))
<1>1. PICK p \in Word, r \in Word : w = Cat(p, r) /\ One(e) = Cat(Mg(p, a, b, id), r)
  BY DEF Part
<1>2. PICK g \in Word : g = Mg(p, a, b, id)
  BY MergeStep
<1>3. CASE r = Nil
  <2>1. w = p /\ g = One(e)
    BY <1>1, <1>2, <1>3, CatNil
  <2>2. Mg(p, a, b, id) = One(e)
    BY <1>2, <2>1
  <2> QED BY <2>1, <2>2, MergeToOne
<1>4. CASE r # Nil
  <2>1. Cat(g, r) = Put(Nil, e) /\ Nil \in Word
    BY <1>1, <1>2, WordTypes DEF One
  <2>2. PICK y \in Word : r = Put(y, e) /\ Nil = Cat(g, y)
    BY <1>4, <2>1, CatEndsIn
  <2>3. g = Nil /\ y = Nil
    BY <2>2, CatIsNil
  <2>4. p = Nil
    BY <1>2, <2>3, MergeNil
  <2>5. w = One(e)
    BY <1>1, <2>2, <2>3, <2>4, CatNil DEF One
  <2> QED BY <2>5
<1> QED BY <1>3, <1>4

-----------------------------------------------------------------------------
(* A byte string w half-way through merge k + 1.                           *)

Half(c, l, w, k) ==
  IF k = Len(l) THEN c = St(l, w, k)
  ELSE Part(c, St(l, w, k), l[k + 1][1], l[k + 1][2], NumBytes + (k + 1))

(* The next merge, and how it goes on from there. *)
LEMMA NextMerge ==
  ASSUME NEW l \in History, NEW k \in 0 .. Len(l), k # Len(l)
  PROVE  /\ k + 1 \in 1 .. Len(l) /\ k + 1 \in 0 .. Len(l) /\ (k + 1) - 1 = k
         /\ l[k + 1][1] \in Nat /\ l[k + 1][2] \in Nat /\ NumBytes + (k + 1) \in Nat
<1>1. Len(l) \in Nat /\ NumBytes \in Nat
  BY HistoryTypes, NumBytesNat
<1>2. k + 1 \in 1 .. Len(l) /\ k + 1 \in 0 .. Len(l) /\ (k + 1) - 1 = k /\ NumBytes + (k + 1) \in Nat
  BY <1>1
<1> QED BY <1>2, HistoryTypes

LEMMA HalfWhole ==
  ASSUME NEW l \in History, NEW w \in Word, NEW k \in 0 .. Len(l)
  PROVE  Half(St(l, w, k), l, w, k)
<1>1. CASE k = Len(l)
  BY <1>1 DEF Half
<1>2. CASE k # Len(l)
  <2>1. PICK s \in Word : s = St(l, w, k)
    BY StageValues
  <2>2. PICK a \in Nat, b \in Nat, id \in Nat :
          a = l[k + 1][1] /\ b = l[k + 1][2] /\ id = NumBytes + (k + 1)
    BY <1>2, NextMerge
  <2>3. s = Cat(Nil, s) /\ s = Cat(Mg(Nil, a, b, id), s) /\ Nil \in Word
    BY MergeStep, CatNil, WordTypes
  <2>4. Part(s, s, a, b, id)
    BY <2>3 DEF Part
  <2> QED BY <1>2, <2>1, <2>2, <2>4 DEF Half
<1> QED BY <1>1, <1>2

(* When the pair is nowhere left, the merge is done and the next begins.   *)
LEMMA HalfNext ==
  ASSUME NEW l \in History, NEW w \in Word, NEW k \in 0 .. Len(l), k # Len(l),
         NEW c, Half(c, l, w, k), ~HasPair(c, l[k + 1][1], l[k + 1][2])
  PROVE  Half(c, l, w, k + 1)
<1>1. PICK s \in Word : s = St(l, w, k)
  BY StageValues
<1>2. PICK a \in Nat, b \in Nat, id \in Nat :
        a = l[k + 1][1] /\ b = l[k + 1][2] /\ id = NumBytes + (k + 1)
  BY NextMerge
<1>3. Part(c, s, a, b, id)
  BY <1>1, <1>2 DEF Half
<1>4. PICK p \in Word, r \in Word : s = Cat(p, r) /\ c = Cat(Mg(p, a, b, id), r)
  BY <1>3 DEF Part
<1>5. Mg(s, a, b, id) = c
  <2>1. ~HasPair(Cat(Mg(p, a, b, id), r), a, b)
    BY <1>2, <1>4
  <2>2. Mg(Cat(p, r), a, b, id) = Cat(Mg(p, a, b, id), r)
    BY <1>4, <2>1, MergeRest
  <2> QED BY <1>4, <2>2
<1>6. k + 1 \in 1 .. Len(l) /\ k + 1 \in 0 .. Len(l) /\ (k + 1) - 1 = k
  BY NextMerge
<1>7. St(l, w, k + 1) = Mg(St(l, w, (k + 1) - 1), l[k + 1][1], l[k + 1][2], NumBytes + (k + 1))
  BY <1>6, StageValues
<1>8. St(l, w, k + 1) = c
  BY <1>1, <1>2, <1>5, <1>6, <1>7
<1> QED BY <1>6, <1>8, HalfWhole

(* So a word is half-way through a merge of which some pair is left, or    *)
(* through with all of them.                                               *)
Level(c, l, w, k) ==
  /\ k \in 0 .. Len(l) /\ Half(c, l, w, k)
  /\ k = Len(l) \/ HasPair(c, l[k + 1][1], l[k + 1][2])

LEMMA LevelExists ==
  ASSUME NEW l \in History, NEW w \in Word, NEW c, NEW h \in 0 .. Len(l), Half(c, l, w, h)
  PROVE  \E k : Level(c, l, w, k)
<1> DEFINE S == {n \in 0 .. Len(l) : Half(c, l, w, Len(l) - n)}
<1>1. Len(l) \in Nat
  BY HistoryTypes
<1>2. S \subseteq Nat /\ S # {}
  <2>1. Len(l) - h \in 0 .. Len(l) /\ Len(l) - (Len(l) - h) = h
    BY <1>1
  <2>2. Len(l) - h \in S
    BY <2>1
  <2>3. 0 .. Len(l) \subseteq Nat
    BY <1>1
  <2> QED BY <2>2, <2>3
<1>3. PICK n \in S : \A i \in S : n <= i
  <2> HIDE DEF S
  <2> QED BY <1>2, LeastNatural
<1>4. PICK k : k = Len(l) - n
  OBVIOUS
<1>5. k \in 0 .. Len(l) /\ Half(c, l, w, k) /\ n \in 0 .. Len(l)
  BY <1>1, <1>3, <1>4
<1>6. ASSUME k # Len(l), ~HasPair(c, l[k + 1][1], l[k + 1][2]) PROVE FALSE
  <2>1. Half(c, l, w, k + 1)
    BY <1>5, <1>6, HalfNext
  <2>2. n - 1 \in 0 .. Len(l) /\ Len(l) - (n - 1) = k + 1
    BY <1>1, <1>4, <1>5, <1>6
  <2>3. n - 1 \in S
    BY <2>1, <2>2
  <2>4. ~(n <= n - 1)
    BY <1>5
  <2> QED BY <1>3, <2>3, <2>4
<1> QED BY <1>5, <1>6 DEF Level

(* Merging the leftmost pair that is left goes on with the merge.          *)
LEMMA HalfMerged ==
  ASSUME NEW m, NEW l, VInv(m, l), NEW w \in Word, NEW k \in 0 .. Len(l), k # Len(l),
         NEW a, a = l[k + 1][1], NEW b, b = l[k + 1][2],
         NEW u \in Word, NEW v \in Word,
         Half(Cat(Put(Put(u, a), b), v), l, w, k), ~HasPair(Put(u, a), a, b)
  PROVE  Half(Cat(Put(u, NumBytes + (k + 1)), v), l, w, k)
<1>1. l \in History /\ k + 1 \in 1 .. Len(l)
  BY NextMerge DEF VInv
<1>2. PICK id \in Nat : id = NumBytes + (k + 1)
  BY <1>1, NextMerge
<1>3. a \in Nat /\ b \in Nat /\ id # b
  <2>1. b \in 1 .. NumBytes + (k + 1) - 1
    BY <1>1 DEF VInv
  <2>2. a \in Nat /\ b \in Nat
    BY <1>1, NextMerge
  <2> QED BY <1>2, <2>1, <2>2, NumBytesNat
<1>4. PICK s \in Word : s = St(l, w, k)
  BY <1>1, StageValues
<1>5. Part(Cat(Put(Put(u, a), b), v), s, a, b, id)
  BY <1>2, <1>4 DEF Half
<1>6. Part(Cat(Put(u, id), v), s, a, b, id)
  BY <1>3, <1>5, PartMerged
<1> QED BY <1>2, <1>4, <1>6 DEF Half

(* The stretch of the last stage that a token stands for.                  *)
Opens(d, x, l, k) ==
  d = One(x) \/ (k # Len(l) /\ x = NumBytes + (k + 1) /\ d = Two(l[k + 1][1], l[k + 1][2]))

Stretch(s, x, y, l, k, d1, d2) ==
  /\ d1 \in Word /\ d2 \in Word /\ Opens(d1, x, l, k) /\ Opens(d2, y, l, k)
  /\ \E w1, w4 \in Word : s = Cat(Cat(w1, Cat(d1, d2)), w4)

LEMMA PutsAreCats ==
  \A u \in Word, x, y \in Nat :
     /\ Put(u, x) = Cat(u, One(x))
     /\ Put(Put(u, x), y) = Cat(Cat(u, One(x)), One(y))
     /\ Put(Put(u, x), y) = Cat(u, Cat(One(x), One(y)))
<1>1. ASSUME NEW u \in Word, NEW x \in Nat PROVE Put(u, x) = Cat(u, One(x)) /\ One(x) \in Word
  BY PutIsCat DEF One
<1>2. ASSUME NEW u \in Word, NEW x \in Nat, NEW y \in Nat
      PROVE  /\ Put(Put(u, x), y) = Cat(Cat(u, One(x)), One(y))
             /\ Put(Put(u, x), y) = Cat(u, Cat(One(x), One(y)))
  <2>1. Put(u, x) \in Word
    BY WordTypes
  <2>2. Put(Put(u, x), y) = Cat(Put(u, x), One(y)) /\ Put(u, x) = Cat(u, One(x))
        /\ One(x) \in Word /\ One(y) \in Word
    BY <1>1, <2>1
  <2>3. Cat(Cat(u, One(x)), One(y)) = Cat(u, Cat(One(x), One(y)))
    BY <2>2, CatAssoc
  <2> QED BY <2>2, <2>3
<1> QED BY <1>1, <1>2

LEMMA HalfPair ==
  ASSUME NEW l \in History, NEW w \in Word, NEW k \in 0 .. Len(l),
         NEW u \in Word, NEW v \in Word, NEW x \in Nat, NEW y \in Nat,
         \A j \in 1 .. Len(l) : l[j][1] # NumBytes + j,
         Half(Cat(Put(Put(u, x), y), v), l, w, k)
  PROVE  \E d1, d2 : Stretch(St(l, w, k), x, y, l, k, d1, d2)
<1>1. /\ One(x) \in Word /\ One(y) \in Word
      /\ Put(u, x) = Cat(u, One(x)) /\ Put(u, x) \in Word
      /\ Put(Put(u, x), y) = Cat(Put(u, x), One(y)) /\ Put(Put(u, x), y) \in Word
      /\ Put(Put(u, x), y) = Cat(u, Cat(One(x), One(y)))
  BY PutsAreCats, TwoFacts, WordTypes
<1>2. CASE k = Len(l)
  <2>1. St(l, w, k) = Cat(Cat(u, Cat(One(x), One(y))), v)
    BY <1>1, <1>2 DEF Half
  <2> QED BY <1>1, <2>1 DEF Stretch, Opens
<1>3. CASE k # Len(l)
  <2>1. PICK s \in Word : s = St(l, w, k)
    BY StageValues
  <2>2. PICK a \in Nat, b \in Nat, id \in Nat :
          a = l[k + 1][1] /\ b = l[k + 1][2] /\ id = NumBytes + (k + 1)
    BY <1>3, NextMerge
  <2>3. id # a
    BY <1>3, <2>2, NextMerge
  <2>4. Part(Cat(Put(Put(u, x), y), v), s, a, b, id)
    BY <1>3, <2>1, <2>2 DEF Half
  <2>5. PICK c1, w4 \in Word : s = Cat(c1, w4) /\ Part(Put(Put(u, x), y), c1, a, b, id)
    <3>1. PartCut(Put(Put(u, x), y), v, s, a, b, id)
      BY <1>1, <2>4, PartSplit
    <3> QED BY <3>1 DEF PartCut
  <2>6. Part(Cat(Put(u, x), One(y)), c1, a, b, id)
    BY <1>1, <2>5
  <2>7. PICK c2, d2 \in Word : c1 = Cat(c2, d2) /\ Part(Put(u, x), c2, a, b, id) /\ Part(One(y), d2, a, b, id)
    <3>1. PartCut(Put(u, x), One(y), c1, a, b, id)
      BY <1>1, <2>6, PartSplit
    <3> QED BY <3>1 DEF PartCut
  <2>8. Part(Cat(u, One(x)), c2, a, b, id)
    BY <1>1, <2>7
  <2>9. PICK w1, d1 \in Word : c2 = Cat(w1, d1) /\ Part(One(x), d1, a, b, id)
    <3>1. PartCut(u, One(x), c2, a, b, id)
      BY <1>1, <2>8, PartSplit
    <3> QED BY <3>1 DEF PartCut
  <2>10. Opens(d1, x, l, k)
    <3>1. d1 = One(x) \/ (x = id /\ d1 = Two(a, b))
      BY <2>3, <2>9, PartOne
    <3> QED BY <1>3, <2>2, <3>1 DEF Opens
  <2>11. Opens(d2, y, l, k)
    <3>1. d2 = One(y) \/ (y = id /\ d2 = Two(a, b))
      BY <2>3, <2>7, PartOne
    <3> QED BY <1>3, <2>2, <3>1 DEF Opens
  <2>12. c1 = Cat(w1, Cat(d1, d2))
    BY <2>7, <2>9, CatAssoc
  <2>13. s = Cat(Cat(w1, Cat(d1, d2)), w4)
    BY <2>5, <2>12
  <2> QED BY <2>1, <2>10, <2>11, <2>13 DEF Stretch
<1> QED BY <1>2, <1>3

(* It is the segmentation of the bytes of the token.                       *)
LEMMA OpensBytes ==
  ASSUME NEW m, NEW l, VInv(m, l), NEW k \in 0 .. Len(l), NEW t \in Ids(NumBytes), NEW x \in Nat,
         NEW d, Opens(d, x, l, k), St(l, t, k) = d
  PROVE  t = B(m, x)
<1>1. l \in History /\ t \in Word
  BY StageIds DEF VInv
<1>2. CASE d = One(x)
  BY <1>2, StageToOne
<1>3. CASE k # Len(l) /\ x = NumBytes + (k + 1) /\ d = Two(l[k + 1][1], l[k + 1][2])
  <2>1. k + 1 \in 1 .. Len(l) /\ l[k + 1][1] \in Nat /\ l[k + 1][2] \in Nat
    BY <1>1, <1>3, NextMerge
  <2>2. PICK a \in Nat, b \in Nat : a = l[k + 1][1] /\ b = l[k + 1][2]
    BY <2>1
  <2>3. One(a) \in Word /\ One(b) \in Word /\ Two(a, b) = Cat(One(a), One(b))
    BY TwoFacts
  <2>4. St(l, t, k) = Cat(One(a), One(b))
    BY <1>3, <2>2, <2>3
  <2>5. PICK t1, t2 \in Word : t = Cat(t1, t2) /\ St(l, t1, k) = One(a) /\ St(l, t2, k) = One(b)
    BY <1>1, <2>3, <2>4, StageSplit
  <2>6. t1 \in Ids(NumBytes) /\ t2 \in Ids(NumBytes)
    BY <2>5, IdsCat, NumBytesNat
  <2>7. t1 = B(m, a) /\ t2 = B(m, b)
    BY <2>5, <2>6, StageToOne
  <2>8. m[k + 1] = Cat(B(m, a), B(m, b)) /\ B(m, NumBytes + (k + 1)) = m[k + 1]
    BY <2>1, <2>2, TokenBytes DEF VInv
  <2> QED BY <1>3, <2>5, <2>7, <2>8
<1> QED BY <1>2, <1>3 DEF Opens

LEMMA StretchBytes ==
  ASSUME NEW m, NEW l, VInv(m, l), NEW k \in 0 .. Len(l), NEW w \in Ids(NumBytes),
         NEW x \in Nat, NEW y \in Nat, NEW d1, NEW d2, Stretch(St(l, w, k), x, y, l, k, d1, d2)
  PROVE  St(l, Cat(B(m, x), B(m, y)), k) = Cat(d1, d2)
<1>1. l \in History /\ w \in Word /\ d1 \in Word /\ d2 \in Word /\ Cat(d1, d2) \in Word
  BY StageIds, WordTypes DEF VInv, Stretch
<1>2. PICK w1, w4 \in Word : St(l, w, k) = Cat(Cat(w1, Cat(d1, d2)), w4)
  BY DEF Stretch
<1>3. Cat(w1, Cat(d1, d2)) \in Word
  BY <1>1, WordTypes
<1>4. PICK e, f \in Word : w = Cat(e, f) /\ St(l, e, k) = Cat(w1, Cat(d1, d2))
  BY <1>1, <1>2, <1>3, StageSplit
<1>5. PICK g, t \in Word : e = Cat(g, t) /\ St(l, t, k) = Cat(d1, d2)
  BY <1>1, <1>4, StageSplit
<1>6. PICK t1, t2 \in Word : t = Cat(t1, t2) /\ St(l, t1, k) = d1 /\ St(l, t2, k) = d2
  BY <1>1, <1>5, StageSplit
<1>7. t1 \in Ids(NumBytes) /\ t2 \in Ids(NumBytes)
  <2>1. e \in Ids(NumBytes)
    BY <1>4, IdsCat, NumBytesNat
  <2>2. t \in Ids(NumBytes)
    BY <1>5, <2>1, IdsCat, NumBytesNat
  <2> QED BY <1>6, <2>2, IdsCat, NumBytesNat
<1>8. Opens(d1, x, l, k) /\ Opens(d2, y, l, k)
  BY DEF Stretch
<1>9. t1 = B(m, x) /\ t2 = B(m, y)
  BY <1>6, <1>7, <1>8, OpensBytes
<1> QED BY <1>5, <1>6, <1>9

(* What two neighbours make together is no token of the merges done, and   *)
(* if it is the next one, they are the pair of it.                         *)
LEMMA StretchAhead ==
  ASSUME NEW m, NEW l, VInv(m, l), NEW k \in 0 .. Len(l), NEW w \in Ids(NumBytes),
         NEW x \in Nat, NEW y \in Nat, NEW d1, NEW d2, Stretch(St(l, w, k), x, y, l, k, d1, d2),
         NEW r \in 1 .. NumBytes + Len(l), B(m, r) = Cat(B(m, x), B(m, y))
  PROVE  /\ NumBytes + k < r
         /\ r = NumBytes + (k + 1) => x = l[k + 1][1] /\ y = l[k + 1][2]
<1>0. NumBytes \in Nat /\ Len(l) \in Nat /\ k \in Nat /\ r \in Nat /\ l \in History
  BY NumBytesNat, TokenBytes DEF VInv
<1>1. St(l, B(m, r), k) = Cat(d1, d2)
  BY StretchBytes
<1>2. d1 \in Word /\ d2 \in Word /\ Opens(d1, x, l, k) /\ Opens(d2, y, l, k)
  BY DEF Stretch
<1>3. \A e, f \in Nat : Len(One(e)) = 1 /\ Len(Two(e, f)) = 2
  <2>1. ASSUME NEW e \in Nat, NEW f \in Nat PROVE Len(One(e)) = 1 /\ Len(Two(e, f)) = 2
    <3>1. One(e) \in Word /\ Two(e, f) = Put(One(e), f) /\ One(e) = Put(Nil, e) /\ Nil \in Word
      BY WordTypes DEF One, Two
    <3>2. PICK c, d : c = One(e) /\ d = Two(e, f)
      OBVIOUS
    <3>3. Len(c) = Len(Nil) + 1
      BY <3>1, <3>2, PutElements
    <3>4. Len(d) = Len(c) + 1
      BY <3>1, <3>2, PutElements
    <3> QED BY <3>2, <3>3, <3>4, WordLen
  <2> QED BY <2>1
<1>4. k # Len(l) => l[k + 1][1] \in Nat /\ l[k + 1][2] \in Nat
  BY <1>0, NextMerge
<1>5. /\ Len(d1) \in {1, 2} /\ (Len(d1) = 1 => d1 = One(x))
      /\ Len(d2) \in {1, 2} /\ (Len(d2) = 1 => d2 = One(y))
  <2>1. ASSUME NEW z \in Nat, NEW d, Opens(d, z, l, k)
        PROVE  Len(d) \in {1, 2} /\ (Len(d) = 1 => d = One(z))
    <3>1. CASE d = One(z)
      BY <1>3, <3>1
    <3>2. CASE k # Len(l) /\ d = Two(l[k + 1][1], l[k + 1][2])
      <4>1. Len(d) = 2
        BY <1>3, <1>4, <3>2
      <4> QED BY <4>1
    <3> QED BY <2>1, <3>1, <3>2 DEF Opens
  <2> QED BY <1>2, <2>1
<1>6. Len(Cat(d1, d2)) = Len(d1) + Len(d2)
  BY <1>2, CatElements
<1>7. ~(r <= NumBytes + k)
  <2>1. SUFFICES ASSUME r <= NumBytes + k PROVE FALSE
    OBVIOUS
  <2>2. r \in 1 .. NumBytes + k
    BY <1>0, <2>1
  <2>3. Cat(d1, d2) = One(r)
    BY <1>1, <2>2, TokenWhole
  <2>4. Len(d1) + Len(d2) = 1
    BY <1>0, <1>3, <1>6, <2>3
  <2>5. \A n1, n2 \in {1, 2} : n1 + n2 # 1
    OBVIOUS
  <2> QED BY <1>5, <2>4, <2>5, Zenon
<1>8. ASSUME r = NumBytes + (k + 1) PROVE x = l[k + 1][1] /\ y = l[k + 1][2]
  <2>1. k # Len(l)
    BY <1>0, <1>8
  <2>2. k + 1 \in 1 .. Len(l) /\ (k + 1) - 1 = k
    BY <1>0, <2>1, NextMerge
  <2>3. PICK a \in Nat, b \in Nat : a = l[k + 1][1] /\ b = l[k + 1][2]
    BY <1>4, <2>1
  <2>4. B(m, r) = m[k + 1]
    BY <1>8, <2>2, TokenBytes
  <2>5. St(l, m[k + 1], (k + 1) - 1) = Two(l[k + 1][1], l[k + 1][2])
    BY <2>2 DEF VInv
  <2>6. Cat(d1, d2) = Two(a, b)
    BY <1>1, <2>2, <2>3, <2>4, <2>5
  <2>7. Len(d1) + Len(d2) = 2
    BY <1>3, <1>6, <2>6
  <2>8. d1 = One(x) /\ d2 = One(y)
    <3>1. PICK n1, n2 : n1 = Len(d1) /\ n2 = Len(d2)
      OBVIOUS
    <3>2. n1 \in {1, 2} /\ n2 \in {1, 2} /\ n1 + n2 = 2
      BY <1>5, <2>7, <3>1
    <3>3. n1 = 1 /\ n2 = 1
      BY <3>2
    <3> QED BY <1>5, <3>1, <3>3
  <2>9. Two(x, y) = Two(a, b)
    BY <2>6, <2>8, TwoFacts
  <2>10. Put(Nil, x) = Put(Nil, a) /\ y = b
    <3>1. Put(Nil, x) \in Word /\ Put(Nil, a) \in Word
      BY WordTypes
    <3> QED BY <2>9, <3>1, PutInjective DEF Two
  <2>11. x = a
    BY <2>10, PutInjective, WordTypes
  <2> QED BY <2>3, <2>10, <2>11
<1> QED BY <1>0, <1>7, <1>8

IsAhead(l, k, r, x, y) ==
  /\ NumBytes + k < r
  /\ r = NumBytes + (k + 1) => x = l[k + 1][1] /\ y = l[k + 1][2]

LEMMA Ahead ==
  ASSUME NEW m, NEW l, VInv(m, l), NEW k \in 0 .. Len(l), NEW w \in Ids(NumBytes),
         NEW u \in Word, NEW v \in Word, NEW x \in Nat, NEW y \in Nat,
         Half(Cat(Put(Put(u, x), y), v), l, w, k),
         NEW r \in 1 .. NumBytes + Len(l), B(m, r) = Cat(B(m, x), B(m, y))
  PROVE  IsAhead(l, k, r, x, y)
<1>1. l \in History /\ w \in Word
  BY StageIds DEF VInv
<1>2. \A j \in 1 .. Len(l) : l[j][1] # NumBytes + j
  <2>1. ASSUME NEW j \in 1 .. Len(l) PROVE l[j][1] # NumBytes + j
    <3>1. l[j][1] \in 1 .. NumBytes + j - 1 /\ j \in Nat
      BY TokenBytes DEF VInv
    <3> QED BY <3>1, NumBytesNat
  <2> QED BY <2>1
<1>3. PICK d1, d2 : Stretch(St(l, w, k), x, y, l, k, d1, d2)
  BY <1>1, <1>2, HalfPair
<1> QED BY <1>3, StretchAhead DEF IsAhead

-----------------------------------------------------------------------------
(* The spans of the encoder are a word of tokens with their bytes.         *)

Spans(m, bs, nx, pv, gn, st, pos) ==
  /\ WordOK(st, pos, NumBytes + Len(m)) /\ st.next = nx /\ st.prev = pv
  /\ gn \in Word /\ Len(gn) = Len(nx) /\ DOMAIN bs = 1 .. Len(nx)
  /\ \A i \in 1 .. Len(nx) :
       /\ bs[i] = IF st.tokens[i] = 0 THEN <<>> ELSE B(m, st.tokens[i])
       /\ st.tokens[i] = 0 => nx[i] = 0

Ring(nx, pv, gn) ==
  /\ Len(nx) \in Nat /\ nx \in Word /\ gn \in Word /\ Len(gn) = Len(nx)
  /\ \A i \in 1 .. Len(nx) : i \in Nat /\ nx[i] \in 0 .. Len(nx) /\ nx[i] \in Nat /\ gn[i] \in Nat
  /\ \A i \in 1 .. Len(nx) : nx[i] # 0 =>
       /\ nx[i] \in 1 .. Len(nx) /\ i < nx[i] /\ pv[nx[i]] = i
       /\ pv[i] # 0 => pv[i] \in 1 .. Len(nx) /\ nx[pv[i]] = i

LEMMA SpansRing ==
  ASSUME NEW m, NEW bs, NEW nx, NEW pv, NEW gn, NEW st, NEW pos, Spans(m, bs, nx, pv, gn, st, pos)
  PROVE  Ring(nx, pv, gn)
<1>1. WordOK(st, pos, NumBytes + Len(m)) /\ st.next = nx /\ st.prev = pv
  BY DEF Spans
<1>2. WordFacts(st, pos)
  BY <1>1, WordTyping
<1>3. /\ Len(nx) \in Nat /\ nx \in Word /\ gn \in Word /\ Len(gn) = Len(nx)
      /\ \A i \in 1 .. Len(nx) : i \in Nat /\ nx[i] \in 0 .. Len(nx) /\ nx[i] \in Nat
  <2>1. nx \in Word /\ gn \in Word /\ Len(gn) = Len(nx)
    BY <1>1 DEF WordOK, Rec, Spans
  <2>2. Len(nx) \in Nat /\ \A i \in 1 .. Len(nx) : nx[i] \in 0 .. Len(nx)
    BY <1>1, <1>2 DEF WordFacts
  <2> QED BY <2>1, <2>2
<1>4. \A i \in 1 .. Len(nx) : gn[i] \in Nat
  BY <1>3, WordLen
<1>5. ASSUME NEW i \in 1 .. Len(nx), nx[i] # 0
      PROVE  /\ nx[i] \in 1 .. Len(nx) /\ i < nx[i] /\ pv[nx[i]] = i
             /\ pv[i] # 0 => pv[i] \in 1 .. Len(nx) /\ nx[pv[i]] = i
  <2>1. Alive(st, i)
    BY <1>1, <1>5 DEF Spans, Alive
  <2>2. /\ Alive(st, nx[i]) /\ nx[i] > i /\ pv[nx[i]] = i
        /\ pv[i] # 0 => Alive(st, pv[i]) /\ nx[pv[i]] = i
    BY <1>1, <1>5, <2>1, LinkFacts
  <2>3. nx[i] \in 1 .. Len(nx) /\ (pv[i] # 0 => pv[i] \in 1 .. Len(nx))
    BY <1>1, <2>2 DEF Alive
  <2>4. nx[i] \in Nat
    BY <1>3
  <2> QED BY <2>2, <2>3, <2>4
<1> QED BY <1>3, <1>4, <1>5 DEF Ring

LEMMA SpansLive ==
  ASSUME NEW m, NEW bs, NEW nx, NEW pv, NEW gn, NEW st, NEW pos, Spans(m, bs, nx, pv, gn, st, pos),
         NEW i, i \in 1 .. Len(nx), nx[i] # 0
  PROVE  /\ LiveAt(st, i) /\ PairOf(st, i) = <<st.tokens[i], st.tokens[nx[i]]>>
         /\ st.tokens[i] \in 1 .. NumBytes + Len(m) /\ st.tokens[nx[i]] \in 1 .. NumBytes + Len(m)
         /\ bs[i] = B(m, st.tokens[i]) /\ bs[nx[i]] = B(m, st.tokens[nx[i]])
<1>1. WordOK(st, pos, NumBytes + Len(m)) /\ st.next = nx
  BY DEF Spans
<1>2. Alive(st, i)
  BY <1>1 DEF Spans, Alive
<1>3. Alive(st, nx[i])
  BY <1>1, <1>2, LinkFacts
<1>4. nx[i] \in 1 .. Len(nx) /\ st.tokens[i] # 0 /\ st.tokens[nx[i]] # 0
  BY <1>1, <1>2, <1>3 DEF Alive
<1>5. st.tokens[i] \in 0 .. NumBytes + Len(m) /\ st.tokens[nx[i]] \in 0 .. NumBytes + Len(m)
  BY <1>1, <1>4 DEF WordOK
<1>6. st.tokens[i] \in 1 .. NumBytes + Len(m) /\ st.tokens[nx[i]] \in 1 .. NumBytes + Len(m)
  BY <1>4, <1>5
<1>7. bs[i] = B(m, st.tokens[i]) /\ bs[nx[i]] = B(m, st.tokens[nx[i]])
  BY <1>4 DEF Spans
<1> QED BY <1>1, <1>2, <1>6, <1>7 DEF LiveAt, PairOf

(* Ranks and tokens: each token is the one of its bytes.                   *)
Makes(m, bs, r, i, j) == r \in 1 .. NumBytes + Len(m) /\ B(m, r) = Cat(bs[i], bs[j])

LEMMA RankIs ==
  ASSUME VInv(merged, learned)
  PROVE  /\ \A b : Known(b) => Rank(b) \in 1 .. NumBytes + Len(merged) /\ B(merged, Rank(b)) = b
         /\ \A id \in 1 .. NumBytes + Len(merged) : Known(B(merged, id)) /\ Rank(B(merged, id)) = id
<1>1. TokenIds = 1 .. NumBytes + Len(merged) /\ Len(learned) = Len(merged)
  BY DEF TokenIds, VInv
<1>2. ASSUME NEW id \in TokenIds PROVE Known(B(merged, id)) /\ Rank(B(merged, id)) = id
  <2>1. BytesOf(id) = B(merged, id)
    BY BytesAre
  <2>2. ASSUME NEW j \in TokenIds, BytesOf(j) = B(merged, id) PROVE j = id
    <3>1. B(merged, j) = B(merged, id)
      BY <2>2, BytesAre
    <3> QED BY <1>1, <3>1, TokensDistinct
  <2>3. id <= id
    <3>1. Len(merged) \in Nat
      BY <1>1, TokenBytes
    <3> QED BY <1>1, <3>1, NumBytesNat
  <2> QED BY <2>1, <2>2, <2>3 DEF Known, Rank
<1>3. ASSUME NEW b, Known(b) PROVE Rank(b) \in TokenIds /\ B(merged, Rank(b)) = b
  <2>1. PICK id \in TokenIds : BytesOf(id) = b
    BY <1>3 DEF Known
  <2>2. b = B(merged, id)
    BY <2>1, BytesAre
  <2> QED BY <1>2, <2>2
<1> QED BY <1>1, <1>2, <1>3

(* The order of the heap.                                                  *)
Entries(n) == (1 .. n) \X Nat \X Nat \X Nat \X Nat

LEMMA FirstOrder ==
  ASSUME NEW n \in Nat, NEW e \in Entries(n), NEW f \in Entries(n), ComesFirst(e, f)
  PROVE  e[1] <= f[1] /\ (e[1] = f[1] => e[2] <= f[2])
<1>1. /\ e[1] \in Nat /\ f[1] \in Nat /\ e[2] \in Nat /\ f[2] \in Nat
      /\ e \in Seq(Nat) /\ f \in Seq(Nat) /\ DOMAIN e = 1 .. 5 /\ Len(e) = 5 /\ Len(f) = 5
  <2>1. ASSUME NEW g \in Entries(n)
        PROVE  /\ g[1] \in Nat /\ g[2] \in Nat
               /\ g \in Seq(Nat) /\ DOMAIN g = 1 .. 5 /\ Len(g) = 5
    <3>1. PICK r \in 1 .. n, a \in Nat, b \in Nat, c \in Nat, d \in Nat : g = <<r, a, b, c, d>>
      BY SMTT(40) DEF Entries
    <3>2. r \in Nat
      OBVIOUS
    <3> QED BY <3>1, <3>2
  <2> QED BY <2>1
<1>2. CASE e = f
  BY <1>1, <1>2
<1>3. ASSUME NEW k \in DOMAIN e, e[k] < f[k], SubSeq(e, 1, k - 1) = SubSeq(f, 1, k - 1)
      PROVE  e[1] <= f[1] /\ (e[1] = f[1] => e[2] <= f[2])
  <2>1. k \in 1 .. 5
    BY <1>1
  <2>2. ASSUME NEW i \in 1 .. k - 1 PROVE e[i] = f[i]
    <3>1. k - 1 \in 1 .. 4 /\ 1 \in 1 .. 5 + 1 /\ k - 1 \in 0 .. 5
      BY <2>1
    <3>2. SubSeq(e, 1, k - 1)[i] = e[i] /\ SubSeq(f, 1, k - 1)[i] = f[i]
      BY <1>1, <3>1, SubSeqProperties
    <3> QED BY <1>3, <3>2
  <2>3. CASE k = 1
    BY <1>1, <1>3, <2>3
  <2>4. CASE k = 2
    <3>1. e[1] = f[1]
      BY <2>2, <2>4
    <3> QED BY <1>1, <1>3, <2>4, <3>1
  <2>5. CASE k > 2
    <3>1. e[1] = f[1] /\ e[2] = f[2]
      BY <2>1, <2>2, <2>5
    <3> QED BY <1>1, <3>1
  <2> QED BY <2>1, <2>3, <2>4, <2>5
<1> QED BY <1>2, <1>3 DEF ComesFirst

-----------------------------------------------------------------------------
(* Two spans are merged.                                                   *)

Joined(bs, nx, pv, gn, left, bs2, nx2, pv2, gn2) ==
  /\ DOMAIN bs2 = DOMAIN bs /\ nx2 \in Word /\ Len(nx2) = Len(nx) /\ gn2 \in Word /\ Len(gn2) = Len(nx)
  /\ pv2 = IF nx[nx[left]] = None THEN pv ELSE [pv EXCEPT ![nx[nx[left]]] = left]
  /\ \A i \in 1 .. Len(nx) :
       /\ bs2[i] = IF i = nx[left] THEN <<>> ELSE IF i = left THEN Cat(bs[left], bs[nx[left]]) ELSE bs[i]
       /\ nx2[i] = IF i = nx[left] THEN 0 ELSE IF i = left THEN nx[nx[left]] ELSE nx[i]
       /\ gn2[i] = IF i = left THEN gn[i] + 1 ELSE gn[i]

LEMMA SpansJoin ==
  ASSUME NEW nx, NEW pv, NEW gn, Ring(nx, pv, gn), NEW bs, DOMAIN bs = 1 .. Len(nx),
         NEW left \in 1 .. Len(nx), NEW right, right = nx[left], right # 0, NEW after, after = nx[right]
  PROVE  Joined(bs, nx, pv, gn, left,
                [bs EXCEPT ![left] = @ \o bs[right], ![right] = <<>>],
                [nx EXCEPT ![left] = after, ![right] = None],
                IF after = None THEN pv ELSE [pv EXCEPT ![after] = left],
                [gn EXCEPT ![left] = @ + 1])
<1>1. /\ Len(nx) \in Nat /\ nx \in Word /\ gn \in Word /\ Len(gn) = Len(nx) /\ gn[left] \in Nat
      /\ right \in 1 .. Len(nx) /\ left < right /\ left \in Nat /\ after \in Nat
  BY DEF Ring
<1>2. left # right
  BY <1>1
<1>3. PICK n1 : n1 = [nx EXCEPT ![left] = after]
  OBVIOUS
<1>4. Replaced(nx, left, after, n1)
  BY <1>1, <1>3, WordExcept
<1>5. n1 \in Word /\ Len(n1) = Len(nx) /\ \A i \in 1 .. Len(nx) : n1[i] = IF i = left THEN after ELSE nx[i]
  BY <1>4 DEF Replaced
<1>6. PICK n2 : n2 = [n1 EXCEPT ![right] = 0]
  OBVIOUS
<1>7. 0 \in Nat /\ right \in 1 .. Len(n1)
  BY <1>1, <1>5
<1>8. Replaced(n1, right, 0, n2)
  BY <1>5, <1>6, <1>7, WordExcept
<1>9. /\ n2 \in Word /\ Len(n2) = Len(nx)
      /\ \A i \in 1 .. Len(nx) : n2[i] = IF i = right THEN 0 ELSE IF i = left THEN after ELSE nx[i]
  <2>1. n2 \in Word /\ Len(n2) = Len(n1) /\ \A i \in 1 .. Len(n1) : n2[i] = IF i = right THEN 0 ELSE n1[i]
    BY <1>8 DEF Replaced
  <2> QED BY <1>5, <2>1
<1>10. n2 = [nx EXCEPT ![left] = after, ![right] = None]
  BY <1>3, <1>6 DEF None
<1>11. PICK g : g = [gn EXCEPT ![left] = @ + 1]
  OBVIOUS
<1>12. g = [gn EXCEPT ![left] = gn[left] + 1] /\ gn[left] + 1 \in Nat /\ left \in 1 .. Len(gn)
  BY <1>1, <1>11
<1>13. Replaced(gn, left, gn[left] + 1, g)
  BY <1>1, <1>12, WordExcept
<1>14. g \in Word /\ Len(g) = Len(nx) /\ \A i \in 1 .. Len(nx) : g[i] = IF i = left THEN gn[i] + 1 ELSE gn[i]
  BY <1>1, <1>13 DEF Replaced
<1>15. PICK b2 : b2 = [bs EXCEPT ![left] = @ \o bs[right], ![right] = <<>>]
  OBVIOUS
<1>16. /\ DOMAIN b2 = DOMAIN bs
       /\ \A i \in 1 .. Len(nx) : b2[i] = IF i = right THEN <<>> ELSE IF i = left THEN bs[left] \o bs[right] ELSE bs[i]
  BY <1>2, <1>15
<1> QED BY <1>9, <1>10, <1>11, <1>14, <1>15, <1>16 DEF Joined, Cat

(* A node out of the list needs no link.                                   *)
LEMMA Unlinked ==
  ASSUME NEW t, NEW pos, NEW K, WordOK(t, pos, K), NEW nx2 \in Word, Len(nx2) = Len(t.next),
         \A i \in 1 .. Len(nx2) : nx2[i] = t.next[i] \/ (t.tokens[i] = 0 /\ nx2[i] = 0),
         NEW t2, t2 = [tokens |-> t.tokens, count |-> t.count, next |-> nx2, prev |-> t.prev]
  PROVE  WordOK(t2, pos, K) /\ Walk(t2.tokens, t2.next) = Walk(t.tokens, t.next)
<1>1. WordFacts(t, pos)
  BY WordTyping
<1>2. t \in Rec /\ Links(t.next) /\ Path(pos, t.next, t.prev)
  BY DEF WordOK
<1>3. t2.tokens = t.tokens /\ t2.count = t.count /\ t2.next = nx2 /\ t2.prev = t.prev /\ t2 \in Rec
  BY <1>2 DEF Rec
<1>4. \A k \in 1 .. Len(pos) : pos[k] \in 1 .. Len(t.next) /\ nx2[pos[k]] = t.next[pos[k]]
  BY <1>1 DEF WordFacts, Alive
<1>5. Links(nx2)
  BY <1>2 DEF Links
<1>6. Path(pos, nx2, t.prev)
  BY <1>2, <1>4 DEF Path
<1>7. WordOK(t2, pos, K)
  BY <1>3, <1>5, <1>6 DEF WordOK
<1>8. \A i \in 1 .. Len(t.next) : t.tokens[i] \in Nat
  BY <1>1 DEF WordFacts
<1>9. Walk(t.tokens, t.next) = Values(t.tokens, pos)
  BY <1>2, <1>8, WalkPath
<1>10. Walk(t.tokens, nx2) = Values(t.tokens, pos)
  <2>1. \A i \in 1 .. Len(nx2) : t.tokens[i] \in Nat
    BY <1>8
  <2> QED BY <1>5, <1>6, <2>1, WalkPath
<1> QED BY <1>3, <1>7, <1>9, <1>10

(* The spans are those of the word with its two tokens merged.             *)
LEMMA SpansJoined ==
  ASSUME NEW m, NEW bs, NEW nx, NEW pv, NEW gn, NEW st, NEW pos, Spans(m, bs, nx, pv, gn, st, pos),
         NumBytes + Len(m) \in Nat,
         NEW left \in 1 .. Len(nx), nx[left] # 0,
         NEW id, Makes(m, bs, id, left, nx[left]),
         NEW bs2, NEW nx2, NEW pv2, NEW gn2, Joined(bs, nx, pv, gn, left, bs2, nx2, pv2, gn2)
  PROVE  \E st2, pos2 :
           /\ Spans(m, bs2, nx2, pv2, gn2, st2, pos2)
           /\ Walk(st2.tokens, st2.next) = Walk(Merged(st, left, id).tokens, Merged(st, left, id).next)
           /\ IsMerged(st, left, id, Merged(st, left, id))
<1>1. WordOK(st, pos, NumBytes + Len(m)) /\ st.next = nx /\ st.prev = pv
  BY DEF Spans
<1>2. Ring(nx, pv, gn)
  BY SpansRing
<1>3. LiveAt(st, left) /\ id \in 1 .. NumBytes + Len(m) /\ id \in Nat /\ id # 0 /\ B(m, id) = Cat(bs[left], bs[nx[left]])
  <2>1. LiveAt(st, left)
    BY SpansLive
  <2> QED BY <2>1 DEF Makes
<1>4. PICK t : t = Merged(st, left, id)
  OBVIOUS
<1>5. IsMerged(st, left, id, t)
  BY <1>1, <1>3, <1>4, MergedValues
<1>6. PICK k : Around(st, pos, k, left, st.next[left], st.next[st.next[left]])
  BY <1>1, <1>3, MergeAround
<1>7. PICK q : q = Drop(pos, k) /\ WordOK(t, q, NumBytes + Len(m))
  BY <1>1, <1>3, <1>5, <1>6, MergedWord
<1>8. PICK t2 : t2 = [tokens |-> t.tokens, count |-> t.count, next |-> nx2, prev |-> t.prev]
  OBVIOUS
<1>9. /\ Len(nx) \in Nat /\ nx[left] \in 1 .. Len(nx) /\ left < nx[left] /\ left \in Nat
      /\ nx2 \in Word /\ Len(nx2) = Len(nx) /\ Len(t.next) = Len(nx) /\ gn2 \in Word /\ Len(gn2) = Len(nx)
      /\ DOMAIN bs2 = 1 .. Len(nx)
  BY <1>1, <1>2, <1>5 DEF Ring, Joined, IsMerged, Spans
<1>10. left # nx[left]
  BY <1>9
<1>11. \A i \in 1 .. Len(nx) :
         /\ t.tokens[i] = IF i = nx[left] THEN 0 ELSE IF i = left THEN id ELSE st.tokens[i]
         /\ t.next[i] = IF i = left THEN nx[nx[left]] ELSE nx[i]
  BY <1>1, <1>5 DEF IsMerged
<1>12. \A i \in 1 .. Len(nx) :
         /\ bs2[i] = IF i = nx[left] THEN <<>> ELSE IF i = left THEN Cat(bs[left], bs[nx[left]]) ELSE bs[i]
         /\ nx2[i] = IF i = nx[left] THEN 0 ELSE IF i = left THEN nx[nx[left]] ELSE nx[i]
  BY DEF Joined
<1>13. \A i \in 1 .. Len(nx2) : nx2[i] = t.next[i] \/ (t.tokens[i] = 0 /\ nx2[i] = 0)
  BY <1>9, <1>10, <1>11, <1>12
<1>14. WordOK(t2, q, NumBytes + Len(m)) /\ Walk(t2.tokens, t2.next) = Walk(t.tokens, t.next)
  BY <1>7, <1>8, <1>9, <1>13, Unlinked
<1>15. t2.tokens = t.tokens /\ t2.next = nx2 /\ t2.prev = t.prev
  BY <1>8
<1>16. t.prev = pv2
  BY <1>1, <1>4 DEF Merged, Joined
<1>17. ASSUME NEW i \in 1 .. Len(nx)
       PROVE  /\ bs2[i] = IF t.tokens[i] = 0 THEN <<>> ELSE B(m, t.tokens[i])
              /\ t.tokens[i] = 0 => nx2[i] = 0
  <2>1. /\ bs[i] = IF st.tokens[i] = 0 THEN <<>> ELSE B(m, st.tokens[i])
        /\ st.tokens[i] = 0 => nx[i] = 0
    BY <1>1 DEF Spans
  <2>2. CASE i = nx[left]
    BY <1>11, <1>12, <2>2
  <2>3. CASE i = left
    BY <1>3, <1>10, <1>11, <1>12, <2>3
  <2>4. CASE i # left /\ i # nx[left]
    BY <1>11, <1>12, <2>1, <2>4
  <2> QED BY <2>2, <2>3, <2>4
<1>18. Spans(m, bs2, nx2, pv2, gn2, t2, q)
  BY <1>9, <1>14, <1>15, <1>16, <1>17 DEF Spans
<1> QED BY <1>4, <1>5, <1>14, <1>18

-----------------------------------------------------------------------------
(* The heap: a candidate that is not stale is what its spans make, and     *)
(* every two neighbours that make a token are in it as they are now.       *)

Stale(e, nx, gn) == nx[e[2]] # e[4] \/ gn[e[2]] # e[3] \/ gn[e[4]] # e[5]

Candidate(r, i, j, gn) == <<r, i, gn[i], j, gn[j]>>

HeapSound(heap0, m, bs, nx, gn) ==
  \A e \in heap0 :
    /\ e \in Entries(NumBytes + Len(m))
    /\ e[2] \in 1 .. Len(nx) /\ e[4] \in 1 .. Len(nx) /\ e[3] <= gn[e[2]] /\ e[5] <= gn[e[4]]
    /\ ~Stale(e, nx, gn) => Makes(m, bs, e[1], e[2], e[4])

HeapFull(heap0, m, bs, nx, gn) ==
  \A i \in 1 .. Len(nx) : nx[i] # 0 =>
    \A r : Makes(m, bs, r, i, nx[i]) => Candidate(r, i, nx[i], gn) \in heap0

(* What a merge leaves in the heap.                                        *)
Pushed(heap0, e, m, bs2, gn2, i, j, heap2) ==
  /\ \A f \in heap2 : \/ f \in heap0
                      \/ \E r : Makes(m, bs2, r, i[1], i[2]) /\ f = Candidate(r, i[1], i[2], gn2) /\ i[1] # 0
                      \/ \E r : Makes(m, bs2, r, j[1], j[2]) /\ f = Candidate(r, j[1], j[2], gn2) /\ j[2] # 0
  /\ \A f \in heap0 : f # e => f \in heap2
  /\ i[1] # 0 => \A r : Makes(m, bs2, r, i[1], i[2]) => Candidate(r, i[1], i[2], gn2) \in heap2
  /\ j[2] # 0 => \A r : Makes(m, bs2, r, j[1], j[2]) => Candidate(r, j[1], j[2], gn2) \in heap2

LEMMA SoundJoined ==
  ASSUME NEW m, NEW bs, NEW nx, NEW pv, NEW gn, Ring(nx, pv, gn),
         NEW left \in 1 .. Len(nx), nx[left] # 0,
         NEW bs2, NEW nx2, NEW pv2, NEW gn2, Joined(bs, nx, pv, gn, left, bs2, nx2, pv2, gn2),
         NEW h, HeapSound(h, m, bs, nx, gn), NEW e, NEW h2,
         Pushed(h, e, m, bs2, gn2, <<pv[left], left>>, <<left, nx[nx[left]]>>, h2)
  PROVE  HeapSound(h2, m, bs2, nx2, gn2)
<1>1. /\ Len(nx) \in Nat /\ Len(nx2) = Len(nx) /\ nx[left] \in 1 .. Len(nx) /\ left < nx[left] /\ left \in Nat
      /\ pv[nx[left]] = left /\ nx[nx[left]] \in 0 .. Len(nx)
      /\ pv[left] # 0 => pv[left] \in 1 .. Len(nx) /\ nx[pv[left]] = left
      /\ \A i \in 1 .. Len(nx) : i \in Nat /\ nx[i] \in Nat /\ gn[i] \in Nat
  BY DEF Ring, Joined
<1>2. \A i \in 1 .. Len(nx) :
       /\ bs2[i] = IF i = nx[left] THEN <<>> ELSE IF i = left THEN Cat(bs[left], bs[nx[left]]) ELSE bs[i]
       /\ nx2[i] = IF i = nx[left] THEN 0 ELSE IF i = left THEN nx[nx[left]] ELSE nx[i]
       /\ gn2[i] = IF i = left THEN gn[i] + 1 ELSE gn[i]
  BY DEF Joined
<1>3. \A i \in 1 .. Len(nx) : gn2[i] \in Nat /\ gn[i] <= gn2[i]
  <2>1. ASSUME NEW i \in 1 .. Len(nx) PROVE gn2[i] \in Nat /\ gn[i] <= gn2[i]
    <3>1. gn[i] \in Nat /\ (gn2[i] = gn[i] + 1 \/ gn2[i] = gn[i])
      BY <1>1, <1>2
    <3> QED BY <3>1
  <2> QED BY <2>1
<1>4. ASSUME NEW f \in h
      PROVE  /\ f \in Entries(NumBytes + Len(m))
             /\ f[2] \in 1 .. Len(nx2) /\ f[4] \in 1 .. Len(nx2) /\ f[3] <= gn2[f[2]] /\ f[5] <= gn2[f[4]]
             /\ ~Stale(f, nx2, gn2) => Makes(m, bs2, f[1], f[2], f[4])
  <2>1. /\ f \in Entries(NumBytes + Len(m)) /\ f[3] \in Nat /\ f[5] \in Nat
        /\ f[2] \in 1 .. Len(nx) /\ f[4] \in 1 .. Len(nx) /\ f[3] <= gn[f[2]] /\ f[5] <= gn[f[4]]
        /\ ~Stale(f, nx, gn) => Makes(m, bs, f[1], f[2], f[4])
    BY DEF HeapSound, Entries
  <2>2. f[3] <= gn2[f[2]] /\ f[5] <= gn2[f[4]]
    <3>1. /\ gn[f[2]] \in Nat /\ gn2[f[2]] \in Nat /\ gn[f[2]] <= gn2[f[2]]
          /\ gn[f[4]] \in Nat /\ gn2[f[4]] \in Nat /\ gn[f[4]] <= gn2[f[4]]
      BY <1>1, <1>3, <2>1
    <3>2. \A x, y, z \in Nat : x <= y /\ y <= z => x <= z
      OBVIOUS
    <3> QED BY <2>1, <3>1, <3>2, Zenon
  <2>3. ASSUME ~Stale(f, nx2, gn2) PROVE Makes(m, bs2, f[1], f[2], f[4])
    <3>1. nx2[f[2]] = f[4] /\ gn2[f[2]] = f[3] /\ gn2[f[4]] = f[5]
      BY <2>3 DEF Stale
    <3>2. f[2] # left /\ f[4] # left
      <4>1. gn2[left] = gn[left] + 1 /\ gn[left] \in Nat
        BY <1>1, <1>2
      <4> QED BY <2>1, <3>1, <4>1
    <3>3. f[2] # nx[left]
      <4>1. f[4] # 0 /\ nx2[nx[left]] = 0
        BY <1>1, <1>2, <2>1, SMTT(40)
      <4> QED BY <3>1, <4>1
    <3>4. nx[f[2]] = f[4] /\ gn[f[2]] = f[3]
      BY <1>2, <2>1, <3>1, <3>2, <3>3
    <3>5. f[4] # nx[left]
      <4>1. SUFFICES ASSUME f[4] = nx[left] PROVE FALSE
        OBVIOUS
      <4>2. nx[f[2]] # 0
        BY <1>1, <2>1, <3>4
      <4>3. pv[nx[f[2]]] = f[2]
        BY <2>1, <4>2 DEF Ring
      <4> QED BY <1>1, <3>2, <3>4, <4>1, <4>3
    <3>6. gn[f[4]] = f[5] /\ bs2[f[2]] = bs[f[2]] /\ bs2[f[4]] = bs[f[4]]
      BY <1>2, <2>1, <3>1, <3>2, <3>3, <3>5
    <3>7. Makes(m, bs, f[1], f[2], f[4])
      BY <2>1, <3>4, <3>6 DEF Stale
    <3> QED BY <3>6, <3>7 DEF Makes
  <2> QED BY <1>1, <2>1, <2>2, <2>3
<1>5. ASSUME NEW f, NEW r, NEW i \in 1 .. Len(nx), NEW j \in 1 .. Len(nx),
             Makes(m, bs2, r, i, j), f = Candidate(r, i, j, gn2)
      PROVE  /\ f \in Entries(NumBytes + Len(m))
             /\ f[2] \in 1 .. Len(nx2) /\ f[4] \in 1 .. Len(nx2) /\ f[3] <= gn2[f[2]] /\ f[5] <= gn2[f[4]]
             /\ ~Stale(f, nx2, gn2) => Makes(m, bs2, f[1], f[2], f[4])
  <2>1. r \in 1 .. NumBytes + Len(m) /\ i \in Nat /\ j \in Nat /\ gn2[i] \in Nat /\ gn2[j] \in Nat
    BY <1>1, <1>3, <1>5 DEF Makes
  <2>2. f = <<r, i, gn2[i], j, gn2[j]>>
    BY <1>5 DEF Candidate
  <2>3. f[1] = r /\ f[2] = i /\ f[3] = gn2[i] /\ f[4] = j /\ f[5] = gn2[j]
    BY <2>2
  <2>4. f \in Entries(NumBytes + Len(m))
    BY <2>1, <2>2 DEF Entries
  <2>5. f[3] <= gn2[f[2]] /\ f[5] <= gn2[f[4]]
    BY <2>1, <2>3
  <2> QED BY <1>1, <1>5, <2>3, <2>4, <2>5
<1>6. ASSUME NEW f \in h2
      PROVE  /\ f \in Entries(NumBytes + Len(m))
             /\ f[2] \in 1 .. Len(nx2) /\ f[4] \in 1 .. Len(nx2) /\ f[3] <= gn2[f[2]] /\ f[5] <= gn2[f[4]]
             /\ ~Stale(f, nx2, gn2) => Makes(m, bs2, f[1], f[2], f[4])
  <2>1. \/ f \in h
        \/ \E r : Makes(m, bs2, r, pv[left], left) /\ f = Candidate(r, pv[left], left, gn2) /\ pv[left] # 0
        \/ \E r : Makes(m, bs2, r, left, nx[nx[left]]) /\ f = Candidate(r, left, nx[nx[left]], gn2) /\ nx[nx[left]] # 0
    BY DEF Pushed
  <2>2. CASE f \in h
    BY <1>4, <2>2
  <2>3. ASSUME NEW r, Makes(m, bs2, r, pv[left], left), f = Candidate(r, pv[left], left, gn2), pv[left] # 0
        PROVE  /\ f \in Entries(NumBytes + Len(m))
               /\ f[2] \in 1 .. Len(nx2) /\ f[4] \in 1 .. Len(nx2) /\ f[3] <= gn2[f[2]] /\ f[5] <= gn2[f[4]]
               /\ ~Stale(f, nx2, gn2) => Makes(m, bs2, f[1], f[2], f[4])
    <3>1. pv[left] \in 1 .. Len(nx)
      BY <1>1, <2>3
    <3> QED BY <1>5, <2>3, <3>1
  <2>4. ASSUME NEW r, Makes(m, bs2, r, left, nx[nx[left]]), f = Candidate(r, left, nx[nx[left]], gn2), nx[nx[left]] # 0
        PROVE  /\ f \in Entries(NumBytes + Len(m))
               /\ f[2] \in 1 .. Len(nx2) /\ f[4] \in 1 .. Len(nx2) /\ f[3] <= gn2[f[2]] /\ f[5] <= gn2[f[4]]
               /\ ~Stale(f, nx2, gn2) => Makes(m, bs2, f[1], f[2], f[4])
    <3>1. nx[nx[left]] \in 1 .. Len(nx)
      BY <1>1, <2>4
    <3> QED BY <1>5, <2>4, <3>1
  <2> QED BY <2>1, <2>2, <2>3, <2>4
<1> QED BY <1>6 DEF HeapSound

LEMMA FullJoined ==
  ASSUME NEW m, NEW bs, NEW nx, NEW pv, NEW gn, Ring(nx, pv, gn),
         NEW left \in 1 .. Len(nx), nx[left] # 0,
         NEW bs2, NEW nx2, NEW pv2, NEW gn2, Joined(bs, nx, pv, gn, left, bs2, nx2, pv2, gn2),
         NEW h, HeapFull(h, m, bs, nx, gn), NEW e, e[2] = left, NEW h2,
         Pushed(h, e, m, bs2, gn2, <<pv[left], left>>, <<left, nx[nx[left]]>>, h2)
  PROVE  HeapFull(h2, m, bs2, nx2, gn2)
<1>1. /\ Len(nx) \in Nat /\ Len(nx2) = Len(nx) /\ nx[left] \in 1 .. Len(nx) /\ left < nx[left] /\ left \in Nat
      /\ pv[nx[left]] = left /\ nx[nx[left]] \in 0 .. Len(nx)
      /\ \A i \in 1 .. Len(nx) : i \in Nat /\ nx[i] \in Nat
      /\ \A i \in 1 .. Len(nx) : nx[i] # 0 => nx[i] \in 1 .. Len(nx) /\ pv[nx[i]] = i
  BY DEF Ring, Joined
<1>2. \A i \in 1 .. Len(nx) :
       /\ bs2[i] = IF i = nx[left] THEN <<>> ELSE IF i = left THEN Cat(bs[left], bs[nx[left]]) ELSE bs[i]
       /\ nx2[i] = IF i = nx[left] THEN 0 ELSE IF i = left THEN nx[nx[left]] ELSE nx[i]
       /\ gn2[i] = IF i = left THEN gn[i] + 1 ELSE gn[i]
  BY DEF Joined
<1>3. ASSUME NEW i \in 1 .. Len(nx), nx2[i] # 0, NEW r, Makes(m, bs2, r, i, nx2[i])
      PROVE  Candidate(r, i, nx2[i], gn2) \in h2
  <2>1. i # nx[left]
    BY <1>2, <1>3
  <2>2. CASE i = left
    <3>1. left # nx[left] /\ nx2[i] = nx[nx[left]]
      BY <1>1, <1>2, <2>1, <2>2
    <3> QED BY <1>3, <2>2, <3>1 DEF Pushed
  <2>3. CASE i # left
    <3>1. nx2[i] = nx[i] /\ nx[i] # 0
      BY <1>2, <1>3, <2>1, <2>3
    <3>2. nx[i] \in 1 .. Len(nx) /\ pv[nx[i]] = i
      BY <1>1, <3>1
    <3>3. nx[i] # nx[left]
      BY <1>1, <2>3, <3>2
    <3>4. CASE nx[i] = left
      <4>1. pv[left] = i /\ i # 0
        BY <3>2, <3>4
      <4>2. nx2[i] = left
        BY <3>1, <3>4
      <4> QED BY <1>3, <4>1, <4>2 DEF Pushed
    <3>5. CASE nx[i] # left
      <4>1. bs2[i] = bs[i] /\ bs2[nx[i]] = bs[nx[i]] /\ gn2[i] = gn[i] /\ gn2[nx[i]] = gn[nx[i]]
        BY <1>2, <2>1, <2>3, <3>2, <3>3, <3>5
      <4>2. Makes(m, bs, r, i, nx[i])
        BY <1>3, <3>1, <4>1 DEF Makes
      <4>3. Candidate(r, i, nx[i], gn) \in h
        BY <3>1, <4>2 DEF HeapFull
      <4>4. Candidate(r, i, nx[i], gn) # e
        BY <2>3 DEF Candidate
      <4>5. Candidate(r, i, nx[i], gn) \in h2
        BY <4>3, <4>4 DEF Pushed
      <4> QED BY <3>1, <4>1, <4>5 DEF Candidate
    <3> QED BY <3>4, <3>5
  <2> QED BY <2>2, <2>3
<1> QED BY <1>1, <1>3 DEF HeapFull

-----------------------------------------------------------------------------
(* The candidate of the lowest rank is the leftmost pair of the merge that *)
(* the spans are half-way through.                                         *)

Coded(m, l, w, bs, nx, pv, gn, h, st, pos) ==
  /\ VInv(m, l) /\ NumBytes + Len(m) \in Nat /\ w \in Ids(NumBytes)
  /\ Spans(m, bs, nx, pv, gn, st, pos)
  /\ HeapSound(h, m, bs, nx, gn) /\ HeapFull(h, m, bs, nx, gn)

(* Place i of the list has the pair of merge k + 1. *)
PairHere(l, k, nx, st, i) ==
  i \in 1 .. Len(nx) /\ nx[i] # 0 /\ PairOf(st, i) = <<l[k + 1][1], l[k + 1][2]>>

LEMMA PairListed ==
  ASSUME NEW m, NEW l, NEW w, NEW bs, NEW nx, NEW pv, NEW gn, NEW h, NEW st, NEW pos,
         Coded(m, l, w, bs, nx, pv, gn, h, st, pos),
         NEW k \in 0 .. Len(l), k # Len(l), NEW i, PairHere(l, k, nx, st, i)
  PROVE  Candidate(NumBytes + (k + 1), i, nx[i], gn) \in h
<1>1. VInv(m, l) /\ l \in History /\ Len(m) = Len(l)
  BY DEF Coded, VInv
<1>2. k + 1 \in 1 .. Len(l) /\ Len(l) \in Nat /\ NumBytes \in Nat /\ k \in Nat
  <2>1. Len(l) \in Nat
    BY <1>1, HistoryTypes
  <2> QED BY <1>1, <2>1, NextMerge, NumBytesNat
<1>3. NumBytes + (k + 1) \in 1 .. NumBytes + Len(m)
  BY <1>1, <1>2
<1>4. B(m, NumBytes + (k + 1)) = Cat(B(m, l[k + 1][1]), B(m, l[k + 1][2]))
  <2>1. B(m, NumBytes + (k + 1)) = m[k + 1]
    BY <1>1, <1>2, TokenBytes
  <2>2. m[k + 1] = Cat(B(m, l[k + 1][1]), B(m, l[k + 1][2]))
    BY <1>1, <1>2 DEF VInv
  <2> QED BY <2>1, <2>2
<1>5. i \in 1 .. Len(nx) /\ nx[i] # 0 /\ PairOf(st, i) = <<l[k + 1][1], l[k + 1][2]>>
  BY DEF PairHere
<1>6. /\ PairOf(st, i) = <<st.tokens[i], st.tokens[nx[i]]>>
      /\ bs[i] = B(m, st.tokens[i]) /\ bs[nx[i]] = B(m, st.tokens[nx[i]])
  BY <1>5, SpansLive DEF Coded
<1>7. bs[i] = B(m, l[k + 1][1]) /\ bs[nx[i]] = B(m, l[k + 1][2])
  BY <1>5, <1>6
<1>8. Makes(m, bs, NumBytes + (k + 1), i, nx[i])
  BY <1>3, <1>4, <1>7 DEF Makes
<1> QED BY <1>5, <1>8 DEF Coded, HeapFull

LEMMA PairSomewhere ==
  ASSUME NEW m, NEW l, NEW w, NEW bs, NEW nx, NEW pv, NEW gn, NEW h, NEW st, NEW pos,
         Coded(m, l, w, bs, nx, pv, gn, h, st, pos),
         NEW k, Level(Walk(st.tokens, st.next), l, w, k), k # Len(l)
  PROVE  \E i : PairHere(l, k, nx, st, i)
<1>1. /\ k \in 0 .. Len(l) /\ l \in History /\ WordOK(st, pos, NumBytes + Len(m)) /\ st.next = nx
      /\ HasPair(Walk(st.tokens, st.next), l[k + 1][1], l[k + 1][2])
  BY DEF Coded, VInv, Spans, Level
<1>2. PICK a \in Nat, b \in Nat : a = l[k + 1][1] /\ b = l[k + 1][2]
  BY <1>1, NextMerge
<1>3. PICK i : LiveAt(st, i) /\ PairOf(st, i) = <<a, b>>
  BY <1>1, <1>2, ChainPairs
<1> QED BY <1>1, <1>2, <1>3 DEF LiveAt, Alive, PairHere

(* A merge done from left to right up to place i. *)
Leads(e, m, l, bs, nx, st, k) ==
  /\ k # Len(l) /\ e[1] = NumBytes + (k + 1)
  /\ e[2] \in 1 .. Len(nx) /\ nx[e[2]] = e[4] /\ nx[e[2]] # 0
  /\ Makes(m, bs, e[1], e[2], nx[e[2]])
  /\ PairHere(l, k, nx, st, e[2])
  /\ \A i : PairHere(l, k, nx, st, i) => e[2] <= i

LEMMA FirstLeads ==
  ASSUME NEW m, NEW l, NEW w, NEW bs, NEW nx, NEW pv, NEW gn, NEW h, NEW st, NEW pos,
         Coded(m, l, w, bs, nx, pv, gn, h, st, pos),
         NEW k, Level(Walk(st.tokens, st.next), l, w, k),
         NEW e \in h, \A f \in h : ComesFirst(e, f), ~Stale(e, nx, gn)
  PROVE  Leads(e, m, l, bs, nx, st, k)
<1>1. /\ VInv(m, l) /\ l \in History /\ Len(m) = Len(l) /\ NumBytes + Len(m) \in Nat /\ w \in Ids(NumBytes)
      /\ k \in 0 .. Len(l) /\ Half(Walk(st.tokens, st.next), l, w, k)
      /\ Spans(m, bs, nx, pv, gn, st, pos) /\ HeapSound(h, m, bs, nx, gn)
      /\ WordOK(st, pos, NumBytes + Len(m)) /\ st.next = nx
  BY DEF Coded, VInv, Spans, Level
<1>2. NumBytes \in Nat /\ Len(l) \in Nat /\ k \in Nat
  BY <1>1, NumBytesNat, HistoryTypes
<1>3. /\ e \in Entries(NumBytes + Len(m)) /\ e[2] \in 1 .. Len(nx) /\ e[4] \in 1 .. Len(nx)
      /\ nx[e[2]] = e[4] /\ nx[e[2]] # 0 /\ Makes(m, bs, e[1], e[2], nx[e[2]])
  BY <1>1 DEF HeapSound, Stale
<1>4. PICK i, x, y : i = e[2] /\ x = st.tokens[i] /\ y = st.tokens[nx[i]]
  OBVIOUS
<1>5. /\ LiveAt(st, i) /\ PairOf(st, i) = <<x, y>> /\ x \in 1 .. NumBytes + Len(m) /\ y \in 1 .. NumBytes + Len(m)
      /\ bs[i] = B(m, x) /\ bs[nx[i]] = B(m, y) /\ x \in Nat /\ y \in Nat
  <2>1. i \in 1 .. Len(nx) /\ nx[i] # 0
    BY <1>3, <1>4
  <2>2. /\ LiveAt(st, i) /\ PairOf(st, i) = <<st.tokens[i], st.tokens[nx[i]]>>
        /\ st.tokens[i] \in 1 .. NumBytes + Len(m) /\ st.tokens[nx[i]] \in 1 .. NumBytes + Len(m)
        /\ bs[i] = B(m, st.tokens[i]) /\ bs[nx[i]] = B(m, st.tokens[nx[i]])
    BY <1>1, <2>1, SpansLive
  <2>3. \A z \in 1 .. NumBytes + Len(m) : z \in Nat
    BY <1>1
  <2> QED BY <1>4, <2>2, <2>3
<1>6. HasPair(Walk(st.tokens, st.next), x, y)
  BY <1>1, <1>5, ChainPairs
<1>7. PICK u \in Word, v \in Word : Walk(st.tokens, st.next) = Cat(Put(Put(u, x), y), v)
  BY <1>6 DEF HasPair
<1>8. PICK r \in 1 .. NumBytes + Len(l) : r = e[1] /\ B(m, r) = Cat(B(m, x), B(m, y))
  BY <1>1, <1>3, <1>4, <1>5 DEF Makes
<1>9. Half(Cat(Put(Put(u, x), y), v), l, w, k)
  BY <1>1, <1>7
<1>10. IsAhead(l, k, r, x, y)
  BY <1>1, <1>5, <1>8, <1>9, Ahead
<1>11. NumBytes + k < r /\ (r = NumBytes + (k + 1) => x = l[k + 1][1] /\ y = l[k + 1][2]) /\ r \in Nat
  BY <1>2, <1>8, <1>10 DEF IsAhead
<1>12. k # Len(l)
  BY <1>2, <1>8, <1>11
<1>13. ASSUME NEW j, PairHere(l, k, nx, st, j) PROVE r <= NumBytes + (k + 1) /\ (r = NumBytes + (k + 1) => i <= j)
  <2>1. PICK f \in h : f = Candidate(NumBytes + (k + 1), j, nx[j], gn)
    BY <1>1, <1>12, <1>13, PairListed
  <2>2. f[1] = NumBytes + (k + 1) /\ f[2] = j
    BY <2>1 DEF Candidate
  <2>3. f \in Entries(NumBytes + Len(m)) /\ ComesFirst(e, f)
    BY <1>1 DEF HeapSound
  <2>4. e[1] <= f[1] /\ (e[1] = f[1] => e[2] <= f[2])
    BY <1>1, <1>3, <2>3, FirstOrder
  <2> QED BY <1>4, <1>8, <2>2, <2>4
<1>14. PICK p : PairHere(l, k, nx, st, p)
  BY <1>12, PairSomewhere
<1>15. r = NumBytes + (k + 1)
  <2>1. r <= NumBytes + (k + 1)
    BY <1>13, <1>14
  <2> QED BY <1>2, <1>11, <2>1
<1>16. PairHere(l, k, nx, st, i)
  BY <1>3, <1>4, <1>5, <1>11, <1>15 DEF PairHere
<1> QED BY <1>3, <1>4, <1>8, <1>12, <1>13, <1>15, <1>16 DEF Leads

(* So merging it goes on with that merge. *)
LEMMA LeadMerged ==
  ASSUME NEW m, NEW l, NEW w, NEW bs, NEW nx, NEW pv, NEW gn, NEW h, NEW st, NEW pos,
         Coded(m, l, w, bs, nx, pv, gn, h, st, pos),
         NEW k \in 0 .. Len(l), Half(Walk(st.tokens, st.next), l, w, k),
         NEW e, Leads(e, m, l, bs, nx, st, k),
         NEW t, IsMerged(st, e[2], e[1], t)
  PROVE  Half(Walk(t.tokens, t.next), l, w, k)
<1>1. /\ VInv(m, l) /\ l \in History /\ Len(m) = Len(l) /\ NumBytes + Len(m) \in Nat /\ w \in Ids(NumBytes)
      /\ Spans(m, bs, nx, pv, gn, st, pos) /\ k # Len(l)
      /\ WordOK(st, pos, NumBytes + Len(m)) /\ st.next = nx
  BY DEF Coded, VInv, Spans, Leads
<1>2. PICK id : id = e[1] /\ id = NumBytes + (k + 1) /\ id \in 1 .. NumBytes + Len(m)
  BY DEF Leads, Makes
<1>3. PICK a \in Nat, b \in Nat : a = l[k + 1][1] /\ b = l[k + 1][2]
  BY <1>1, NextMerge
<1>4. id \in Nat /\ id # b
  <2>1. k + 1 \in 1 .. Len(l) /\ NumBytes \in Nat /\ k \in Nat
    <3>1. Len(l) \in Nat
      BY <1>1, HistoryTypes
    <3> QED BY <1>1, <3>1, NextMerge, NumBytesNat
  <2>2. b \in 1 .. NumBytes + (k + 1) - 1
    BY <1>1, <1>3, <2>1 DEF VInv
  <2> QED BY <1>2, <2>1, <2>2
<1>5. PICK left : left = e[2] /\ left \in 1 .. Len(nx) /\ nx[left] # 0 /\ PairOf(st, left) = <<a, b>>
  BY <1>3 DEF Leads, PairHere
<1>6. LiveAt(st, left)
  BY <1>1, <1>5, SpansLive
<1>7. ASSUME NEW j, LiveAt(st, j), j < left PROVE PairOf(st, j) # <<a, b>>
  <2>1. SUFFICES ASSUME PairOf(st, j) = <<a, b>> PROVE FALSE
    OBVIOUS
  <2>2. PairHere(l, k, nx, st, j)
    BY <1>1, <1>3, <1>7, <2>1 DEF PairHere, LiveAt, Alive
  <2>3. left <= j
    BY <1>5, <2>2 DEF Leads
  <2>4. Ring(nx, pv, gn)
    BY <1>1, SpansRing
  <2>5. left \in Nat /\ j \in Nat
    BY <1>1, <1>5, <1>7, <2>4 DEF Ring, LiveAt, Alive
  <2> QED BY <1>7, <2>3, <2>5
<1>8. IsMerged(st, left, id, t)
  BY <1>2, <1>5
<1>9. LeftmostCut(Walk(st.tokens, st.next), Walk(t.tokens, t.next), a, b, id)
  BY <1>1, <1>2, <1>4, <1>5, <1>6, <1>7, <1>8, MergedCut
<1>10. PICK u, v \in Word : /\ Walk(st.tokens, st.next) = Cat(Put(Put(u, a), b), v)
                            /\ Walk(t.tokens, t.next) = Cat(Put(u, id), v) /\ ~HasPair(Put(u, a), a, b)
  BY <1>9 DEF LeftmostCut
<1>11. Half(Cat(Put(Put(u, a), b), v), l, w, k)
  BY <1>10
<1>12. w \in Word
  BY <1>1, StageIds
<1>13. Half(Cat(Put(u, NumBytes + (k + 1)), v), l, w, k)
  BY <1>1, <1>3, <1>10, <1>11, <1>12, HalfMerged
<1> QED BY <1>2, <1>10, <1>13

(* When no candidate is left, all merges are done. *)
LEMMA NoneLeft ==
  ASSUME NEW m, NEW l, NEW w, NEW bs, NEW nx, NEW pv, NEW gn, NEW h, NEW st, NEW pos,
         Coded(m, l, w, bs, nx, pv, gn, h, st, pos), h = {},
         NEW k, Level(Walk(st.tokens, st.next), l, w, k)
  PROVE  Walk(st.tokens, st.next) = St(l, w, Len(l))
<1>1. k \in 0 .. Len(l)
  BY DEF Level
<1>2. k = Len(l)
  <2>1. SUFFICES ASSUME k # Len(l) PROVE FALSE
    OBVIOUS
  <2>2. PICK i : PairHere(l, k, nx, st, i)
    BY <2>1, PairSomewhere
  <2>3. Candidate(NumBytes + (k + 1), i, nx[i], gn) \in h
    BY <1>1, <2>1, <2>2, PairListed
  <2> QED BY <2>3
<1> QED BY <1>2 DEF Level, Half

-----------------------------------------------------------------------------
(* The encoder keeps all this.                                             *)

Encoding(m, l, w, bs, nx, pv, gn, h) ==
  \E st, pos : /\ Coded(m, l, w, bs, nx, pv, gn, h, st, pos)
               /\ \E k \in 0 .. Len(l) : Half(Walk(st.tokens, st.next), l, w, k)

EncodeInv ==
  /\ pc = "encode" => Encoding(merged, learned, piece, bytes, next, prev, generation, heap)
  /\ EncodesAsTrained

LEMMA RankMakes ==
  ASSUME VInv(merged, learned), NEW bs, NEW i, NEW j
  PROVE  /\ Known(bs[i] \o bs[j]) => Makes(merged, bs, Rank(bs[i] \o bs[j]), i, j)
         /\ \A r : Makes(merged, bs, r, i, j) => Known(bs[i] \o bs[j]) /\ r = Rank(bs[i] \o bs[j])
<1>1. PICK b : b = bs[i] \o bs[j]
  OBVIOUS
<1>2. ASSUME Known(b) PROVE Makes(merged, bs, Rank(b), i, j)
  <2>1. Rank(b) \in 1 .. NumBytes + Len(merged) /\ B(merged, Rank(b)) = b
    BY <1>2, RankIs
  <2> QED BY <1>1, <2>1 DEF Makes, Cat
<1>3. ASSUME NEW r, Makes(merged, bs, r, i, j) PROVE Known(b) /\ r = Rank(b)
  <2>1. r \in 1 .. NumBytes + Len(merged) /\ B(merged, r) = b
    BY <1>1, <1>3 DEF Makes, Cat
  <2>2. Known(B(merged, r)) /\ Rank(B(merged, r)) = r
    BY <2>1, RankIs
  <2> QED BY <2>1, <2>2
<1> QED BY <1>1, <1>2, <1>3

Repushed(h, e, bs2, gn2, before, left, after, h2) ==
  h2 = (h \ {e}) \cup
         {Entry(bs2, gn2, side[1], side[2]) :
            side \in {s \in {side \in {<<before, left>>, <<left, after>>} : None \notin Range(side)} :
                        Known(bs2[s[1]] \o bs2[s[2]])}}

LEMMA SidesPushed ==
  ASSUME VInv(merged, learned), NEW h, NEW e, NEW bs2, NEW gn2, NEW before, NEW left, left # 0, NEW after, NEW h2,
         Repushed(h, e, bs2, gn2, before, left, after, h2)
  PROVE  Pushed(h, e, merged, bs2, gn2, <<before, left>>, <<left, after>>, h2)
<1>0. h2 = (h \ {e}) \cup
         {Entry(bs2, gn2, side[1], side[2]) :
            side \in {s \in {side \in {<<before, left>>, <<left, after>>} : None \notin Range(side)} :
                        Known(bs2[s[1]] \o bs2[s[2]])}}
  BY DEF Repushed
<1>1. \A x, y : Range(<<x, y>>) = {x, y}
  BY DEF Range
<1>2. \A side : side \in {<<before, left>>, <<left, after>>} /\ None \notin Range(side)
                <=> (side = <<before, left>> /\ before # 0) \/ (side = <<left, after>> /\ after # 0)
  BY <1>1 DEF None
<1>3. ASSUME NEW i, NEW j, Known(bs2[i] \o bs2[j])
      PROVE  \E r : Makes(merged, bs2, r, i, j) /\ Entry(bs2, gn2, i, j) = Candidate(r, i, j, gn2)
  <2>1. Makes(merged, bs2, Rank(bs2[i] \o bs2[j]), i, j)
    BY <1>3, RankMakes
  <2>2. Entry(bs2, gn2, i, j) = Candidate(Rank(bs2[i] \o bs2[j]), i, j, gn2)
    BY DEF Entry, Candidate
  <2> QED BY <2>1, <2>2
<1>4. ASSUME NEW i, NEW j, NEW r, Makes(merged, bs2, r, i, j)
      PROVE  Known(bs2[i] \o bs2[j]) /\ Entry(bs2, gn2, i, j) = Candidate(r, i, j, gn2)
  <2>1. Known(bs2[i] \o bs2[j]) /\ r = Rank(bs2[i] \o bs2[j])
    BY <1>4, RankMakes
  <2> QED BY <2>1 DEF Entry, Candidate
<1>5. ASSUME NEW f \in h2
      PROVE  \/ f \in h
             \/ \E r : Makes(merged, bs2, r, before, left) /\ f = Candidate(r, before, left, gn2) /\ before # 0
             \/ \E r : Makes(merged, bs2, r, left, after) /\ f = Candidate(r, left, after, gn2) /\ after # 0
  <2>1. CASE f \in h
    BY <2>1
  <2>2. ASSUME NEW side \in {<<before, left>>, <<left, after>>}, None \notin Range(side),
               Known(bs2[side[1]] \o bs2[side[2]]), f = Entry(bs2, gn2, side[1], side[2])
        PROVE  \/ \E r : Makes(merged, bs2, r, before, left) /\ f = Candidate(r, before, left, gn2) /\ before # 0
               \/ \E r : Makes(merged, bs2, r, left, after) /\ f = Candidate(r, left, after, gn2) /\ after # 0
    <3>1. CASE side = <<before, left>> /\ before # 0
      <4>1. side[1] = before /\ side[2] = left
        BY <3>1
      <4>2. Known(bs2[before] \o bs2[left]) /\ f = Entry(bs2, gn2, before, left)
        BY <2>2, <4>1
      <4> QED BY <1>3, <3>1, <4>2
    <3>2. CASE side = <<left, after>> /\ after # 0
      <4>1. side[1] = left /\ side[2] = after
        BY <3>2
      <4>2. Known(bs2[left] \o bs2[after]) /\ f = Entry(bs2, gn2, left, after)
        BY <2>2, <4>1
      <4> QED BY <1>3, <3>2, <4>2
    <3> QED BY <1>2, <2>2, <3>1, <3>2
  <2> QED BY <1>0, <2>1, <2>2
<1>6. \A f \in h : f # e => f \in h2
  BY <1>0
<1>7. ASSUME NEW side \in {<<before, left>>, <<left, after>>}, None \notin Range(side),
             Known(bs2[side[1]] \o bs2[side[2]])
      PROVE  Entry(bs2, gn2, side[1], side[2]) \in h2
  BY <1>0, <1>7
<1>8. ASSUME before # 0, NEW r, Makes(merged, bs2, r, before, left) PROVE Candidate(r, before, left, gn2) \in h2
  <2>1. PICK side : side = <<before, left>>
    OBVIOUS
  <2>2. side[1] = before /\ side[2] = left /\ side \in {<<before, left>>, <<left, after>>} /\ None \notin Range(side)
    BY <1>2, <1>8, <2>1
  <2>3. Entry(bs2, gn2, side[1], side[2]) \in h2
    BY <1>4, <1>7, <1>8, <2>2
  <2> QED BY <1>4, <1>8, <2>2, <2>3
<1>9. ASSUME after # 0, NEW r, Makes(merged, bs2, r, left, after) PROVE Candidate(r, left, after, gn2) \in h2
  <2>1. PICK side : side = <<left, after>>
    OBVIOUS
  <2>2. side[1] = left /\ side[2] = after /\ side \in {<<before, left>>, <<left, after>>} /\ None \notin Range(side)
    BY <1>2, <1>9, <2>1
  <2>3. Entry(bs2, gn2, side[1], side[2]) \in h2
    BY <1>4, <1>7, <1>9, <2>2
  <2> QED BY <1>4, <1>9, <2>2, <2>3
<1> QED BY <1>5, <1>6, <1>8, <1>9 DEF Pushed

(* The first spans are the bytes. *)
LEMMA SeedSound ==
  ASSUME VInv(merged, learned), NEW p \in Ids(NumBytes), NEW bs, bs = [i \in DOMAIN p |-> <<p[i]>>],
         NEW gn, gn = [i \in DOMAIN p |-> 0], NEW nx, Len(nx) = Len(p),
         \A i \in 1 .. Len(p) : nx[i] = IF i < Len(p) THEN i + 1 ELSE 0
  PROVE  HeapSound(Seed(p), merged, bs, nx, gn) /\ HeapFull(Seed(p), merged, bs, nx, gn)
<1>1. DOMAIN p = 1 .. Len(p) /\ Len(p) \in Nat
  BY LenProperties DEF Ids
<1>2. \A i \in 1 .. Len(p) : bs[i] = <<p[i]>> /\ gn[i] = 0
  BY <1>1
<1>3. \A i \in 1 .. Len(p) - 1 : i \in 1 .. Len(p) /\ i + 1 \in 1 .. Len(p) /\ i \in Nat /\ i + 1 \in Nat /\ nx[i] = i + 1
  BY <1>1
<1>4. \A i \in 1 .. Len(p) - 1 : bs[i] \o bs[i + 1] = <<p[i], p[i + 1]>>
  <2>1. ASSUME NEW x \in Nat, NEW y \in Nat PROVE <<x>> \o <<y>> = <<x, y>>
    <3>1. <<x>> \in Word
      BY PutIsCat, WordTypes
    <3>2. Put(<<x>>, y) = Cat(<<x>>, <<y>>)
      BY <3>1, PutIsCat
    <3>3. Append(<<x>>, y) = <<x, y>>
      <4>1. PICK u, v : u = Put(<<x>>, y) /\ v = <<x, y>>
        OBVIOUS
      <4>2. u \in Word /\ Len(u) = Len(<<x>>) + 1 /\ u[Len(<<x>>) + 1] = y /\ \A i \in 1 .. Len(<<x>>) : u[i] = <<x>>[i]
        <5>1. u \in Word
          BY <3>1, <4>1, WordTypes
        <5>2. PICK s \in Word : s = <<x>>
          BY <3>1
        <5>3. u = Put(s, y)
          BY <4>1, <5>2
        <5>4. Len(u) = Len(s) + 1 /\ u[Len(s) + 1] = y /\ \A i \in 1 .. Len(s) : u[i] = s[i]
          BY <5>3, PutElements
        <5> QED BY <5>1, <5>2, <5>4
      <4>3. Len(<<x>>) = 1 /\ <<x>>[1] = x
        OBVIOUS
      <4>4. v \in Word /\ Len(v) = 2 /\ v[1] = x /\ v[2] = y
        BY <4>1 DEF Word
      <4>5. Len(u) = 2 /\ u[1] = x /\ u[2] = y
        BY <4>2, <4>3
      <4>6. u = v
        <5>1. \A i \in 1 .. 2 : u[i] = v[i]
          BY <4>4, <4>5
        <5>2. Len(u) = Len(v) /\ \A i \in 1 .. Len(u) : u[i] = v[i]
          BY <4>4, <4>5, <5>1
        <5> QED BY <4>2, <4>4, <5>2, WordEqual, Zenon
      <4> QED BY <4>1, <4>6 DEF Put
    <3> QED BY <3>2, <3>3 DEF Put, Cat
  <2>2. \A i \in 1 .. Len(p) : p[i] \in Nat
    BY <1>1, ElementOfSeq, NumBytesNat DEF Ids
  <2> QED BY <1>2, <1>3, <2>1, <2>2, Zenon
<1>5. Seed(p) = {Entry(bs, gn, i, i + 1) : i \in {k \in 1 .. Len(p) - 1 : Known(<<p[k], p[k + 1]>>)}}
  BY DEF Seed
<1>6. \A f : f \in Seed(p) <=> \E i \in 1 .. Len(p) - 1 : Known(bs[i] \o bs[i + 1]) /\ f = Entry(bs, gn, i, i + 1)
  BY <1>4, <1>5
<1>7. \A r, i, j : Candidate(r, i, j, gn) = <<r, i, gn[i], j, gn[j]>>
  BY DEF Candidate
<1>8. ASSUME NEW f \in Seed(p)
      PROVE  /\ f \in Entries(NumBytes + Len(merged))
             /\ f[2] \in 1 .. Len(nx) /\ f[4] \in 1 .. Len(nx) /\ f[3] <= gn[f[2]] /\ f[5] <= gn[f[4]]
             /\ Makes(merged, bs, f[1], f[2], f[4])
  <2>1. PICK i \in 1 .. Len(p) - 1 : Known(bs[i] \o bs[i + 1]) /\ f = Entry(bs, gn, i, i + 1)
    BY <1>6
  <2>2. PICK r : r = Rank(bs[i] \o bs[i + 1]) /\ Makes(merged, bs, r, i, i + 1)
    BY <2>1, RankMakes
  <2>3. f = <<r, i, gn[i], i + 1, gn[i + 1]>>
    BY <2>1, <2>2 DEF Entry
  <2>4. gn[i] = 0 /\ gn[i + 1] = 0 /\ i \in Nat /\ i + 1 \in Nat /\ i \in 1 .. Len(nx) /\ i + 1 \in 1 .. Len(nx)
    BY <1>2, <1>3
  <2>5. f[1] = r /\ f[2] = i /\ f[3] = 0 /\ f[4] = i + 1 /\ f[5] = 0 /\ f = <<r, i, 0, i + 1, 0>>
    BY <2>3, <2>4
  <2>6. f \in Entries(NumBytes + Len(merged))
    BY <2>2, <2>4, <2>5 DEF Entries, Makes
  <2> QED BY <2>2, <2>4, <2>5, <2>6
<1>9. HeapSound(Seed(p), merged, bs, nx, gn)
  BY <1>8 DEF HeapSound
<1>10. ASSUME NEW i \in 1 .. Len(nx), nx[i] # 0, NEW r, Makes(merged, bs, r, i, nx[i])
       PROVE  Candidate(r, i, nx[i], gn) \in Seed(p)
  <2>1. i \in 1 .. Len(p) - 1
    BY <1>1, <1>10
  <2>2. nx[i] = i + 1
    BY <1>3, <2>1
  <2>3. Makes(merged, bs, r, i, i + 1)
    BY <1>10, <2>2
  <2>4. Known(bs[i] \o bs[i + 1]) /\ r = Rank(bs[i] \o bs[i + 1])
    <3>1. \A s : Makes(merged, bs, s, i, i + 1) => Known(bs[i] \o bs[i + 1]) /\ s = Rank(bs[i] \o bs[i + 1])
      BY RankMakes
    <3> QED BY <2>3, <3>1
  <2>5. Candidate(r, i, i + 1, gn) = Entry(bs, gn, i, i + 1)
    BY <2>4 DEF Candidate, Entry
  <2> QED BY <1>6, <2>1, <2>2, <2>4, <2>5
<1> QED BY <1>9, <1>10 DEF HeapFull

-----------------------------------------------------------------------------
(* The steps of the encoder. *)

LEMMA WordAmong ==
  ASSUME NEW st, NEW pos, NEW K \in Nat, WordOK(st, pos, K), NEW N \in Nat, K <= N
  PROVE  WordOK(st, pos, N)
<1>1. 0 .. K \subseteq 0 .. N
  OBVIOUS
<1> QED BY <1>1 DEF WordOK

LEMMA PieceStarts ==
  ASSUME TrainInv, EncodePiece
  PROVE  EncodeInv'
<1>1. /\ VInv(merged, learned) /\ Len(merged) \in Nat /\ NumBytes \in Nat /\ learned \in History
      /\ NumBytes + Len(merged) \in Nat /\ NumBytes <= NumBytes + Len(merged)
  <2>1. VInv(merged, learned) /\ Len(merged) \in Nat /\ NumBytes \in Nat
    BY TokenCountNat, NumBytesNat
  <2> QED BY <2>1 DEF VInv
<1>2. PICK p \in Pieces :
       /\ piece' = p
       /\ bytes' = [i \in DOMAIN p |-> <<p[i]>>]
       /\ prev' = [i \in DOMAIN p |-> i - 1]
       /\ next' = [i \in DOMAIN p |-> IF i < Len(p) THEN i + 1 ELSE None]
       /\ generation' = [i \in DOMAIN p |-> 0]
       /\ heap' = Seed(p)
  BY DEF EncodePiece
<1>3. pc' = "encode" /\ merged' = merged /\ learned' = learned
  BY DEF EncodePiece
<1>4. p \in Ids(NumBytes) /\ p # <<>> /\ p \in Word /\ DOMAIN p = 1 .. Len(p) /\ Len(p) \in Nat
      /\ \A i \in 1 .. Len(p) : p[i] \in 1 .. NumBytes
  <2>1. p \in Seq(1 .. NumBytes) /\ p # <<>>
    BY PiecesAssumption
  <2>2. p \in Ids(NumBytes) /\ p \in Word
    BY <1>1, <2>1, IdsWords DEF Ids
  <2> QED BY <2>1, <2>2, LenProperties, ElementOfSeq
<1>5. PICK word : word = [tokens |-> p, count |-> 1]
  OBVIOUS
<1>6. word \in CorpusWords /\ word.tokens = p
  BY <1>4, <1>5 DEF CorpusWords, Ids
<1>7. PICK st : st = InitState(word)
  OBVIOUS
<1>8. PICK pos : WordOK(st, pos, NumBytes)
  BY <1>6, <1>7, InitWord
<1>9. Walk(st.tokens, st.next) = p
  BY <1>6, <1>7, InitWord
<1>10. st.tokens = p /\ st.next = next' /\ st.prev = prev'
  BY <1>2, <1>4, <1>6, <1>7 DEF InitState
<1>11. WordOK(st, pos, NumBytes + Len(merged)) /\ Len(next') = Len(p)
  <2>1. Len(st.tokens) = Len(st.next)
    BY <1>8 DEF WordOK
  <2> QED BY <1>1, <1>8, <1>10, <2>1, WordAmong
<1>12. \A i \in 1 .. Len(p) :
         /\ bytes'[i] = <<p[i]>> /\ generation'[i] = 0 /\ next'[i] = IF i < Len(p) THEN i + 1 ELSE 0
         /\ bytes'[i] = B(merged, p[i]) /\ p[i] # 0
  BY <1>2, <1>4 DEF None, B
<1>13. generation' \in Word /\ Len(generation') = Len(p) /\ DOMAIN bytes' = 1 .. Len(p)
  <2>1. generation' = [i \in 1 .. Len(p) |-> generation'[i]]
    BY <1>2, <1>4
  <2>2. \A i \in 1 .. Len(p) : generation'[i] \in Nat
    BY <1>12
  <2>3. PICK g : g = generation'
    OBVIOUS
  <2>4. [i \in 1 .. Len(p) |-> g[i]] \in Word /\ Len([i \in 1 .. Len(p) |-> g[i]]) = Len(p)
    BY <1>4, <2>2, <2>3, WordFunction
  <2>5. DOMAIN bytes' = 1 .. Len(p)
    BY <1>2, <1>4
  <2> QED BY <2>1, <2>3, <2>4, <2>5
<1>14. Spans(merged, bytes', next', prev', generation', st, pos)
  BY <1>10, <1>11, <1>12, <1>13 DEF Spans
<1>15. HeapSound(Seed(p), merged, bytes', next', generation') /\ HeapFull(Seed(p), merged, bytes', next', generation')
  BY <1>1, <1>2, <1>4, <1>11, <1>12, SeedSound
<1>16. Coded(merged, learned, p, bytes', next', prev', generation', heap', st, pos)
  BY <1>1, <1>2, <1>4, <1>14, <1>15 DEF Coded
<1>17. Half(Walk(st.tokens, st.next), learned, p, 0) /\ 0 \in 0 .. Len(learned)
  <2>1. 0 \in 0 .. Len(learned)
    BY <1>1, HistoryTypes
  <2>2. St(learned, p, 0) = p
    BY <1>1, <1>4, StageValues
  <2>3. Half(St(learned, p, 0), learned, p, 0)
    BY <1>1, <1>4, <2>1, HalfWhole
  <2> QED BY <1>9, <2>1, <2>2, <2>3
<1>18. Encoding(merged', learned', piece', bytes', next', prev', generation', heap')
  BY <1>2, <1>3, <1>16, <1>17 DEF Encoding
<1> QED BY <1>3, <1>18 DEF EncodeInv, EncodesAsTrained

LEMMA StaleDropped ==
  ASSUME NEW m, NEW bs, NEW nx, NEW gn, NEW h, NEW e, Stale(e, nx, gn),
         HeapSound(h, m, bs, nx, gn), HeapFull(h, m, bs, nx, gn)
  PROVE  HeapSound(h \ {e}, m, bs, nx, gn) /\ HeapFull(h \ {e}, m, bs, nx, gn)
<1>1. HeapSound(h \ {e}, m, bs, nx, gn)
  BY DEF HeapSound
<1>2. ASSUME NEW r, NEW i PROVE Candidate(r, i, nx[i], gn) # e
  BY DEF Stale, Candidate
<1> QED BY <1>1, <1>2 DEF HeapFull

LEMMA StalePops ==
  ASSUME TrainInv, EncodeInv, PopStale
  PROVE  EncodeInv'
<1>1. PICK e \in heap : IsStale(e) /\ heap' = heap \ {e}
  BY DEF PopStale
<1>2. /\ pc = "encode" /\ pc' = "encode" /\ merged' = merged /\ learned' = learned /\ piece' = piece
      /\ bytes' = bytes /\ prev' = prev /\ next' = next /\ generation' = generation
  BY DEF PopStale
<1>3. Stale(e, next, generation)
  BY <1>1 DEF IsStale, Stale
<1>4. PICK st, pos : /\ Coded(merged, learned, piece, bytes, next, prev, generation, heap, st, pos)
                     /\ \E k \in 0 .. Len(learned) : Half(Walk(st.tokens, st.next), learned, piece, k)
  BY <1>2 DEF EncodeInv, Encoding
<1>5. HeapSound(heap', merged, bytes, next, generation) /\ HeapFull(heap', merged, bytes, next, generation)
  BY <1>1, <1>3, <1>4, StaleDropped DEF Coded
<1>6. Coded(merged, learned, piece, bytes, next, prev, generation, heap', st, pos)
  BY <1>4, <1>5 DEF Coded
<1>7. Encoding(merged', learned', piece', bytes', next', prev', generation', heap')
  BY <1>2, <1>4, <1>6 DEF Encoding
<1> QED BY <1>2, <1>7 DEF EncodeInv, EncodesAsTrained

Popped(e, left, right, before, after) ==
  /\ \A f \in heap : ComesFirst(e, f)
  /\ ~IsStale(e)
  /\ bytes' = [bytes EXCEPT ![left] = @ \o bytes[right], ![right] = <<>>]
  /\ generation' = [generation EXCEPT ![left] = @ + 1]
  /\ next' = [next EXCEPT ![left] = after, ![right] = None]
  /\ prev' = IF after = None THEN prev ELSE [prev EXCEPT ![after] = left]
  /\ Repushed(heap, e, bytes', generation', before, left, after, heap')

LEMMA SpansMerge ==
  ASSUME TrainInv, EncodeInv, MergeSpans
  PROVE  EncodeInv'
<1>1. /\ pc = "encode" /\ pc' = "encode" /\ merged' = merged /\ learned' = learned /\ piece' = piece
  BY DEF MergeSpans
<1>2. PICK e \in heap : Popped(e, e[2], e[4], prev[e[2]], next[e[4]])
  BY Zenon DEF MergeSpans, Popped, Repushed
<1> DEFINE left == e[2]  right == e[4]  before == prev[left]  after == next[right]
<1>20. /\ \A f \in heap : ComesFirst(e, f)
       /\ ~IsStale(e)
       /\ bytes' = [bytes EXCEPT ![left] = @ \o bytes[right], ![right] = <<>>]
       /\ generation' = [generation EXCEPT ![left] = @ + 1]
       /\ next' = [next EXCEPT ![left] = after, ![right] = None]
       /\ prev' = IF after = None THEN prev ELSE [prev EXCEPT ![after] = left]
  BY <1>2, Zenon DEF Popped
<1>3. PICK st, pos : /\ Coded(merged, learned, piece, bytes, next, prev, generation, heap, st, pos)
                     /\ \E k \in 0 .. Len(learned) : Half(Walk(st.tokens, st.next), learned, piece, k)
  BY <1>1 DEF EncodeInv, Encoding
<1>4. /\ VInv(merged, learned) /\ learned \in History /\ piece \in Ids(NumBytes) /\ piece \in Word
      /\ NumBytes + Len(merged) \in Nat
      /\ Spans(merged, bytes, next, prev, generation, st, pos)
      /\ HeapSound(heap, merged, bytes, next, generation) /\ HeapFull(heap, merged, bytes, next, generation)
  <2>1. VInv(merged, learned) /\ piece \in Ids(NumBytes)
    BY <1>3 DEF Coded
  <2>2. piece \in Word
    BY <2>1, StageIds
  <2> QED BY <1>3, <2>1, <2>2 DEF Coded, VInv
<1>5. Ring(next, prev, generation) /\ DOMAIN bytes = 1 .. Len(next)
  <2>1. Ring(next, prev, generation)
    BY <1>4, SpansRing
  <2> QED BY <1>4, <2>1 DEF Spans
<1>6. PICK k : Level(Walk(st.tokens, st.next), learned, piece, k)
  <2>1. PICK j \in 0 .. Len(learned) : Half(Walk(st.tokens, st.next), learned, piece, j)
    BY <1>3
  <2> QED BY <1>4, <2>1, LevelExists
<1>7. Leads(e, merged, learned, bytes, next, st, k) /\ k \in 0 .. Len(learned)
      /\ Half(Walk(st.tokens, st.next), learned, piece, k)
  <2>1. ~Stale(e, next, generation)
    BY <1>20 DEF IsStale, Stale
  <2>2. \A f \in heap : ComesFirst(e, f)
    BY <1>20
  <2>3. Leads(e, merged, learned, bytes, next, st, k)
    BY <1>3, <1>6, <2>1, <2>2, FirstLeads
  <2> QED BY <1>6, <2>3 DEF Level
<1>8. /\ left \in 1 .. Len(next) /\ right = next[left] /\ right # 0 /\ left # 0
      /\ next[left] # 0 /\ Makes(merged, bytes, e[1], left, next[left])
  BY <1>2, <1>7 DEF Leads
<1>9. Joined(bytes, next, prev, generation, left, bytes', next', prev', generation')
  <2>1. Joined(bytes, next, prev, generation, left,
               [bytes EXCEPT ![left] = @ \o bytes[right], ![right] = <<>>],
               [next EXCEPT ![left] = after, ![right] = None],
               IF after = None THEN prev ELSE [prev EXCEPT ![after] = left],
               [generation EXCEPT ![left] = @ + 1])
    BY <1>5, <1>8, SpansJoin
  <2> QED BY <1>20, <2>1
<1>10. Pushed(heap, e, merged, bytes', generation', <<before, left>>, <<left, after>>, heap')
  <2>1. Repushed(heap, e, bytes', generation', before, left, after, heap')
    BY <1>2 DEF Popped
  <2> QED BY <1>4, <1>8, <2>1, SidesPushed
<1>11. Pushed(heap, e, merged, bytes', generation', <<prev[left], left>>, <<left, next[next[left]]>>, heap')
  BY <1>2, <1>8, <1>10
<1>12. HeapSound(heap', merged, bytes', next', generation')
  BY <1>4, <1>5, <1>8, <1>9, <1>11, SoundJoined
<1>13. HeapFull(heap', merged, bytes', next', generation')
  BY <1>2, <1>4, <1>5, <1>8, <1>9, <1>11, FullJoined
<1>14. PICK st2, pos2 :
           /\ Spans(merged, bytes', next', prev', generation', st2, pos2)
           /\ Walk(st2.tokens, st2.next) = Walk(Merged(st, left, e[1]).tokens, Merged(st, left, e[1]).next)
           /\ IsMerged(st, left, e[1], Merged(st, left, e[1]))
  BY <1>4, <1>8, <1>9, SpansJoined
<1>15. PICK t : t = Merged(st, left, e[1]) /\ IsMerged(st, e[2], e[1], t)
  BY <1>2, <1>14
<1>16. Half(Walk(t.tokens, t.next), learned, piece, k)
  BY <1>3, <1>7, <1>15, LeadMerged
<1>17. Coded(merged, learned, piece, bytes', next', prev', generation', heap', st2, pos2)
  BY <1>4, <1>12, <1>13, <1>14 DEF Coded
<1>18. Half(Walk(st2.tokens, st2.next), learned, piece, k)
  BY <1>14, <1>15, <1>16
<1>19. Encoding(merged', learned', piece', bytes', next', prev', generation', heap')
  BY <1>1, <1>7, <1>17, <1>18 DEF Encoding
<1> QED BY <1>1, <1>19 DEF EncodeInv, EncodesAsTrained

-----------------------------------------------------------------------------
(* The end of a piece.                                                     *)

LEMMA StageNil ==
  ASSUME NEW l \in History
  PROVE  St(l, Nil, Len(l)) = Nil
<1> DEFINE S == {n \in 0 .. Len(l) : St(l, Nil, n) = Nil}
<1>1. Len(l) \in Nat /\ Nil \in Word /\ NumBytes \in Nat
  BY HistoryTypes, WordTypes, NumBytesNat
<1>2. 0 \in S
  BY <1>1, StageValues
<1>3. ASSUME NEW n \in 0 .. Len(l) - 1, n \in S PROVE n + 1 \in S
  <2>1. n + 1 \in 1 .. Len(l) /\ n + 1 \in 0 .. Len(l) /\ (n + 1) - 1 = n /\ NumBytes + (n + 1) \in Nat
    BY <1>1
  <2>2. PICK a \in Nat, b \in Nat, id \in Nat : a = l[n + 1][1] /\ b = l[n + 1][2] /\ id = NumBytes + (n + 1)
    BY <2>1, HistoryTypes
  <2>3. St(l, Nil, n + 1) = Mg(St(l, Nil, (n + 1) - 1), l[n + 1][1], l[n + 1][2], NumBytes + (n + 1))
    BY <1>1, <2>1, StageValues
  <2>4. St(l, Nil, n + 1) = Mg(Nil, a, b, id)
    BY <1>3, <2>1, <2>2, <2>3
  <2> QED BY <2>1, <2>4, MergeStep
<1> HIDE DEF S
<1>4. \A n \in 0 .. Len(l) : n \in S
  BY <1>1, <1>2, <1>3, CountUp
<1> QED BY <1>1, <1>4 DEF S

LEMMA PieceEnds ==
  ASSUME TrainInv, EncodeInv, Encoded
  PROVE  EncodeInv'
<1>1. /\ pc = "encode" /\ heap = {} /\ merged' = merged /\ learned' = learned /\ piece' = piece
      /\ bytes' = bytes /\ next' = next
      /\ pc' = IF \A i \in DOMAIN bytes : bytes[i] # <<>> => Known(bytes[i])
               THEN "encoded" ELSE "unknown"
  BY DEF Encoded, encoder
<1>2. PICK st, pos : /\ Coded(merged, learned, piece, bytes, next, prev, generation, heap, st, pos)
                     /\ \E k \in 0 .. Len(learned) : Half(Walk(st.tokens, st.next), learned, piece, k)
  BY <1>1 DEF EncodeInv, Encoding
<1>3. /\ VInv(merged, learned) /\ learned \in History /\ piece \in Ids(NumBytes) /\ piece \in Word
      /\ Spans(merged, bytes, next, prev, generation, st, pos)
  <2>1. VInv(merged, learned) /\ piece \in Ids(NumBytes)
    BY <1>2 DEF Coded
  <2>2. piece \in Word
    BY <2>1, StageIds
  <2> QED BY <1>2, <2>1, <2>2 DEF Coded, VInv
<1>4. PICK k : Level(Walk(st.tokens, st.next), learned, piece, k)
  <2>1. PICK j \in 0 .. Len(learned) : Half(Walk(st.tokens, st.next), learned, piece, j)
    BY <1>2
  <2> QED BY <1>3, <2>1, LevelExists
<1>5. Walk(st.tokens, st.next) = St(learned, piece, Len(learned))
  BY <1>1, <1>2, <1>4, NoneLeft
<1>6. /\ DOMAIN bytes = 1 .. Len(next) /\ st.next = next /\ st.tokens \in Word /\ Len(st.tokens) = Len(next)
      /\ \A i \in 1 .. Len(next) : /\ bytes[i] = IF st.tokens[i] = 0 THEN <<>> ELSE B(merged, st.tokens[i])
                                   /\ st.tokens[i] \in 0 .. NumBytes + Len(merged)
  BY <1>3 DEF Spans, WordOK, Rec
<1>7. ASSUME NEW i \in 1 .. Len(next), st.tokens[i] # 0
      PROVE  /\ bytes[i] # <<>> /\ Known(bytes[i]) /\ Rank(bytes[i]) = st.tokens[i]
  <2>1. PICK id \in 1 .. NumBytes + Len(merged) : id = st.tokens[i] /\ bytes[i] = B(merged, id)
    <3>1. Len(merged) \in Nat /\ NumBytes \in Nat
      BY TokenCountNat, NumBytesNat
    <3> QED BY <1>6, <1>7, <3>1
  <2>2. Known(B(merged, id)) /\ Rank(B(merged, id)) = id
    BY <1>3, RankIs
  <2>3. B(merged, id) # Nil
    <3>1. SUFFICES ASSUME B(merged, id) = Nil PROVE FALSE
      OBVIOUS
    <3>2. Len(merged) = Len(learned) /\ Len(learned) \in Nat
      BY <1>3, HistoryTypes DEF VInv
    <3>3. Len(learned) \in 0 .. Len(learned) /\ id \in 1 .. NumBytes + Len(learned)
      BY <3>2
    <3>4. St(learned, B(merged, id), Len(learned)) = One(id)
      BY <1>3, <3>3, TokenWhole
    <3>5. id \in Nat
      BY <3>3, <3>2, NumBytesNat
    <3>6. St(learned, Nil, Len(learned)) = Nil
      BY <1>3, StageNil
    <3>7. One(id) # Nil
      BY <3>5, WordTypes DEF One
    <3> QED BY <3>1, <3>4, <3>6, <3>7
  <2> QED BY <2>1, <2>2, <2>3 DEF Nil
<1>8. pc' = "encoded"
  <2>1. ASSUME NEW i \in DOMAIN bytes, bytes[i] # <<>> PROVE Known(bytes[i])
    <3>1. i \in 1 .. Len(next) /\ st.tokens[i] # 0
      BY <1>6, <2>1
    <3> QED BY <1>7, <3>1
  <2> QED BY <1>1, <2>1
<1>9. [i \in DOMAIN bytes |-> IF bytes[i] = <<>> THEN None ELSE Rank(bytes[i])] = st.tokens
  <2>1. ASSUME NEW i \in 1 .. Len(next)
        PROVE  (IF bytes[i] = <<>> THEN None ELSE Rank(bytes[i])) = st.tokens[i]
    <3>1. CASE st.tokens[i] = 0
      BY <1>6, <3>1 DEF None
    <3>2. CASE st.tokens[i] # 0
      BY <1>7, <3>2
    <3> QED BY <3>1, <3>2
  <2>2. st.tokens = [i \in 1 .. Len(next) |-> st.tokens[i]]
    <3>1. DOMAIN st.tokens = 1 .. Len(st.tokens)
      BY <1>6, LenProperties DEF Word
    <3>2. st.tokens = [i \in DOMAIN st.tokens |-> st.tokens[i]]
      BY <1>6 DEF Word
    <3> QED BY <1>6, <3>1, <3>2
  <2> QED BY <1>6, <2>1, <2>2
<1>10. Tokens = Segment(piece)
  <2>1. Tokens = Walk(st.tokens, next)
    BY <1>9 DEF Tokens
  <2> QED BY <1>5, <1>6, <2>1, SegmentIsStage
<1>11. Tokens' = Tokens /\ Segment(piece)' = Segment(piece)
  <2>1. Tokens' = Tokens
    BY <1>1 DEF Tokens, Rank, TokenIds, BytesOf
  <2>2. Segment(piece)' = Segment(piece)
    BY <1>1 DEF Segment, Segments
  <2> QED BY <2>1, <2>2
<1> QED BY <1>8, <1>10, <1>11 DEF EncodeInv, EncodesAsTrained

LEMMA TrainingLeaves ==
  ASSUME TrainNext
  PROVE  EncodeInv'
<1>1. pc' \in {"pick", "merge", "panic", "trained"}
  <2>1. CASE FindBestPair
    BY <2>1 DEF FindBestPair
  <2>2. CASE SkipStale
    BY <2>2 DEF SkipStale
  <2>3. CASE MergePlace
    BY <2>3, Zenon DEF MergePlace
  <2>4. CASE MergeDone
    BY <2>4 DEF MergeDone
  <2>5. CASE WriteVocab
    BY <2>5 DEF WriteVocab
  <2> QED BY <2>1, <2>2, <2>3, <2>4, <2>5 DEF TrainNext
<1> QED BY <1>1 DEF EncodeInv, EncodesAsTrained

LEMMA VarsEncode ==
  ASSUME EncodeInv, UNCHANGED vars
  PROVE  EncodeInv'
<1>1. /\ pc' = pc /\ merged' = merged /\ learned' = learned /\ piece' = piece /\ bytes' = bytes /\ next' = next
      /\ prev' = prev /\ generation' = generation /\ heap' = heap
  BY DEF vars
<1>2. Tokens' = Tokens /\ Segment(piece)' = Segment(piece)
  <2>1. Tokens' = Tokens
    BY <1>1 DEF Tokens, Rank, TokenIds, BytesOf
  <2>2. Segment(piece)' = Segment(piece)
    BY <1>1 DEF Segment, Segments
  <2> QED BY <2>1, <2>2
<1> QED BY <1>1, <1>2 DEF EncodeInv, EncodesAsTrained

(* For every vocabulary the training can end with and every piece of text, *)
(* in the corpus or not: bpe_encode_piece, which looks spans up by their   *)
(* bytes and merges them by rank, gives the tokens that all merges in the  *)
(* order of learning, each from left to right, give; none is unknown.      *)
THEOREM EncodesAlways == Spec => []EncodesAsTrained
<1>1. TokenizerInit => EncodeInv
  BY DEF TokenizerInit, Init, EncodeInv, EncodesAsTrained
<1>2. TrainInv /\ EncodeInv /\ [TokenizerNext]_vars => EncodeInv'
  <2> SUFFICES ASSUME TrainInv, EncodeInv, [TokenizerNext]_vars PROVE EncodeInv'
    OBVIOUS
  <2>1. CASE TrainNext
    BY <2>1, TrainingLeaves
  <2>2. CASE EncodePiece
    BY <2>2, PieceStarts
  <2>3. CASE PopStale
    BY <2>3, StalePops
  <2>4. CASE MergeSpans
    BY <2>4, SpansMerge
  <2>5. CASE Encoded
    BY <2>5, PieceEnds
  <2>6. CASE UNCHANGED vars
    BY <2>6, VarsEncode
  <2> QED BY <2>1, <2>2, <2>3, <2>4, <2>5, <2>6 DEF TokenizerNext
<1>3. EncodeInv => EncodesAsTrained
  BY DEF EncodeInv
<1> QED BY <1>1, <1>2, <1>3, TrainedAlways, PTL DEF Spec
=============================================================================
