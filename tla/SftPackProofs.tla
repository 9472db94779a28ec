--------------------------- MODULE SftPackProofs ---------------------------
(***************************************************************************)
(* pack_epoch packs whole conversations, for any stream of conversations,  *)
(* any row and any window.  The argument: each conversation taken from the *)
(* stream is in the buffer or in the epoch, never in both; rows begin at   *)
(* multiples of Capacity, and what is packed into the open row starts at   *)
(* its end so far and fits what remains of it.  And it packs by best fit:  *)
(* the buffer is the window of the stream, sorted and full.                *)
(*                                                                         *)
(* Of an epoch made of dataset files, further: the loss scores the tokens  *)
(* the model writes, no others and each once.  Every piece that rendering  *)
(* appends takes "the model writes next" from what it was before the piece *)
(* to what it is after, so a rendered conversation is marked right; BOS    *)
(* opens it, so it stays right wherever in a row it is put.                *)
(***************************************************************************)
EXTENDS SftEpoch, FiniteSetTheorems, SequenceTheorems, WellFoundedInduction, TLAPS

-----------------------------------------------------------------------------
(* The inductive invariant. *)

Points == {"enter", "fill", "done", "panic"}

PackTypes ==
  /\ stream \in Seq(Nat) /\ src \in 0 .. Len(stream)
  /\ buf \in Seq(DOMAIN stream)
  /\ at \in [DOMAIN stream -> Nat \cup {-1}]
  /\ tokens \in Nat /\ rowStart \in Nat /\ pads \in Nat
  /\ pc \in Points

(* b holds, once each, the conversations of the first s that a does not place. *)
WaitsIn(b, a, s) ==
  /\ Len(b) <= BufferSize
  /\ \A i, j \in DOMAIN b : b[i] = b[j] => i = j
  /\ \A i \in DOMAIN b : b[i] <= s /\ a[b[i]] = -1
  /\ \A k \in DOMAIN stream : k <= s => a[k] # -1 \/ \E i \in DOMAIN b : b[i] = k
  /\ \A k \in DOMAIN stream : a[k] # -1 => k <= s

Waiting == WaitsIn(buf, at, src)

AllPackable == pc # "panic" => \A i \in DOMAIN buf : Packable(buf[i])

Multiple(n) == \E m \in Nat : n = m * Capacity

OpenRow ==
  /\ Multiple(rowStart)
  /\ pc \in {"enter", "done"} => Multiple(tokens)
  /\ pc = "fill" => /\ rowStart <= tokens /\ tokens < rowStart + Capacity
                    /\ tokens = rowStart => buf # <<>>
  /\ pc = "done" => buf = <<>> /\ src = Len(stream)

InOneRow ==
  \A k \in Packed :
    /\ stream[k] >= 1 /\ at[k] + stream[k] <= tokens
    /\ \E m \in Nat : m * Capacity <= at[k] /\ at[k] + stream[k] <= (m + 1) * Capacity

Apart ==
  \A j, k \in Packed : j # k => \/ at[j] + stream[j] <= at[k]
                                \/ at[k] + stream[k] <= at[j]

RowsBegin ==
  \A m \in Nat : m * Capacity < tokens => \E k \in Packed : at[k] = m * Capacity

Covered == UNION {Cells(k) : k \in Packed}
Counted == IsFiniteSet(Covered) /\ pads = tokens - Cardinality(Covered)

PackInv ==
  /\ PackTypes /\ Waiting /\ AllPackable /\ OpenRow
  /\ InOneRow /\ Apart /\ RowsBegin /\ Counted

-----------------------------------------------------------------------------
(* Arithmetic of rows. *)

(* A multiple below the end of row m is at most the start of row m. *)
LEMMA MultipleBelow ==
  ASSUME NEW c \in Nat, c >= 1, NEW a \in Nat, NEW m \in Nat, a * c < (m + 1) * c
  PROVE  a <= m
<1>1. SUFFICES ASSUME a >= m + 1 PROVE FALSE
  OBVIOUS
<1>2. PICK d \in Nat : a = m + 1 + d
  <2>1. a - (m + 1) \in Nat /\ a = m + 1 + (a - (m + 1))
    BY <1>1
  <2> QED BY <2>1
<1>3. a * c = (m + 1) * c + d * c /\ d * c >= 0 /\ (m + 1) * c \in Nat
  BY <1>2
<1> QED BY <1>3

(* The row of a token between two multiples of the capacity. *)
LEMMA RowBetween ==
  ASSUME NEW c \in Nat, c >= 1, NEW m \in Nat, NEW x \in Nat,
         m * c <= x, x < (m + 1) * c
  PROVE  x \div c = m
<1>1. x \div c \in Nat /\ x % c \in 0 .. c - 1 /\ x = c * (x \div c) + (x % c)
  OBVIOUS
<1>2. PICK q \in Nat : q = x \div c
  BY <1>1
<1>3. q * c <= x /\ x < (q + 1) * c
  BY <1>1, <1>2
<1>4. q * c \in Nat /\ m * c \in Nat /\ (q + 1) * c \in Nat /\ (m + 1) * c \in Nat
  OBVIOUS
<1>5. q <= m
  BY <1>3, <1>4, MultipleBelow
<1>6. m <= q
  BY <1>3, <1>4, MultipleBelow
<1> QED BY <1>2, <1>5, <1>6

(* A multiple of the capacity leaves no rest, and its quotient is the factor. *)
LEMMA MultipleDivides ==
  ASSUME NEW c \in Nat, c >= 1, NEW m \in Nat
  PROVE  (m * c) % c = 0 /\ (m * c) \div c = m
<1>1. m * c \in Nat /\ m * c < (m + 1) * c
  OBVIOUS
<1>2. (m * c) \div c = m
  BY <1>1, RowBetween
<1>3. m * c = c * ((m * c) \div c) + ((m * c) % c) /\ (m * c) % c \in Nat
  BY <1>1
<1>4. m * c = c * m + ((m * c) % c)
  BY <1>2, <1>3
<1>5. c * m = m * c
  OBVIOUS
<1> QED BY <1>1, <1>2, <1>3, <1>4, <1>5

-----------------------------------------------------------------------------
(* The buffer. *)

(* Concatenation and removal, entry by entry. *)
LEMMA ConcatEntries ==
  ASSUME NEW S, NEW a \in Seq(S), NEW b \in Seq(S)
  PROVE  /\ a \o b \in Seq(S) /\ Len(a \o b) = Len(a) + Len(b)
         /\ \A i \in 1 .. Len(a) : (a \o b)[i] = a[i]
         /\ \A i \in 1 .. Len(b) : (a \o b)[Len(a) + i] = b[i]
<1>1. Len(a) \in Nat /\ Len(b) \in Nat
  OBVIOUS
<1>2. /\ a \o b \in Seq(S) /\ Len(a \o b) = Len(a) + Len(b)
      /\ \A i \in 1 .. Len(a) + Len(b) :
           (a \o b)[i] = IF i <= Len(a) THEN a[i] ELSE b[i - Len(a)]
  BY ConcatProperties
<1>3. \A i \in 1 .. Len(a) : (a \o b)[i] = a[i]
  BY <1>1, <1>2
<1>4. ASSUME NEW i \in 1 .. Len(b) PROVE (a \o b)[Len(a) + i] = b[i]
  <2>1. /\ Len(a) + i \in 1 .. Len(a) + Len(b) /\ ~(Len(a) + i <= Len(a))
        /\ (Len(a) + i) - Len(a) = i
    BY <1>1
  <2> QED BY <1>2, <2>1
<1> QED BY <1>2, <1>3, <1>4

(* What refill puts where. *)
LEMMA RefilledValue ==
  ASSUME PackAssumption, stream \in Seq(Nat), src \in 0 .. Len(stream),
         NEW b \in Seq(DOMAIN stream), Len(b) <= BufferSize
  PROVE  \E n \in Nat :
           /\ n <= BufferSize - Len(b) /\ n <= Len(stream) - src
           /\ n < BufferSize - Len(b) => n >= Len(stream) - src
           /\ Refilled(b) \in Seq(DOMAIN stream)
           /\ Len(Refilled(b)) = Len(b) + n
           /\ \A i \in 1 .. Len(b) : Refilled(b)[i] = b[i]
           /\ \A i \in 1 .. n : Refilled(b)[Len(b) + i] = src + i
<1> DEFINE free == BufferSize - Len(b)
           left == Len(stream) - src
           n == IF free < left THEN free ELSE left
           more == [i \in 1 .. n |-> src + i]
<1>1. /\ Len(stream) \in Nat /\ Len(b) \in Nat /\ DOMAIN stream = 1 .. Len(stream)
      /\ src \in Nat /\ src <= Len(stream) /\ BufferSize \in Nat
  BY DEF PackAssumption
<1>2. n \in Nat /\ n <= free /\ n <= left /\ (n < free => n >= left)
  BY <1>1
<1>3. Refilled(b) = b \o more
  BY DEF Refilled, Arrivals
<1> HIDE DEF n
<1>4. \A i \in 1 .. n : src + i \in DOMAIN stream
  BY <1>1, <1>2
<1>5. more \in Seq(DOMAIN stream) /\ Len(more) = n /\ \A i \in 1 .. n : more[i] = src + i
  BY <1>2, <1>4
<1> HIDE DEF more
<1>6. /\ b \o more \in Seq(DOMAIN stream) /\ Len(b \o more) = Len(b) + Len(more)
      /\ \A i \in 1 .. Len(b) : (b \o more)[i] = b[i]
      /\ \A i \in 1 .. Len(more) : (b \o more)[Len(b) + i] = more[i]
  <2>1. more \in Seq(DOMAIN stream)
    BY <1>5
  <2> QED BY <2>1, ConcatEntries
<1>7. \A i \in 1 .. n : (b \o more)[Len(b) + i] = src + i
  BY <1>5, <1>6, Zenon
<1>8. Len(b \o more) = Len(b) + n
  BY <1>5, <1>6, Zenon
<1> QED BY <1>2, <1>3, <1>6, <1>7, <1>8, Zenon

(* Refilling keeps every conversation once. *)
LEMMA RefilledWaits ==
  ASSUME PackAssumption, stream \in Seq(Nat), src \in 0 .. Len(stream),
         NEW b \in Seq(DOMAIN stream), NEW a, WaitsIn(b, a, src)
  PROVE  /\ Refilled(b) \in Seq(DOMAIN stream)
         /\ src + Len(Refilled(b)) - Len(b) \in 0 .. Len(stream)
         /\ WaitsIn(Refilled(b), a, src + Len(Refilled(b)) - Len(b))
         /\ Refilled(b) = <<>> => b = <<>> /\ src = Len(stream)
<1> DEFINE f == Refilled(b)
<1>1. Len(b) <= BufferSize
  BY DEF WaitsIn
<1>2. PICK n \in Nat :
           /\ n <= BufferSize - Len(b) /\ n <= Len(stream) - src
           /\ n < BufferSize - Len(b) => n >= Len(stream) - src
           /\ f \in Seq(DOMAIN stream)
           /\ Len(f) = Len(b) + n
           /\ \A i \in 1 .. Len(b) : f[i] = b[i]
           /\ \A i \in 1 .. n : f[Len(b) + i] = src + i
  BY <1>1, RefilledValue
<1> HIDE DEF f
<1>3. /\ Len(stream) \in Nat /\ Len(b) \in Nat /\ DOMAIN stream = 1 .. Len(stream)
      /\ DOMAIN b = 1 .. Len(b) /\ DOMAIN f = 1 .. Len(b) + n
      /\ BufferSize \in Nat /\ BufferSize >= 1 /\ src \in Nat /\ src <= Len(stream)
  BY <1>2 DEF PackAssumption
<1>4. src + Len(f) - Len(b) = src + n /\ src + n \in 0 .. Len(stream)
  BY <1>2, <1>3
<1>5. \A i \in DOMAIN b : i \in DOMAIN f /\ f[i] = b[i] /\ b[i] \in DOMAIN stream
  <2>1. \A i \in DOMAIN b : i \in DOMAIN f /\ b[i] \in DOMAIN stream
    BY <1>3
  <2>2. \A i \in DOMAIN b : f[i] = b[i]
    BY <1>2, <1>3, Zenon
  <2> QED BY <2>1, <2>2
<1>6. ASSUME NEW i \in DOMAIN f, i \notin DOMAIN b
      PROVE  /\ f[i] = src + (i - Len(b)) /\ i > Len(b)
             /\ f[i] \in src + 1 .. src + n
  <2>1. PICK k \in 1 .. n : k = i - Len(b)
    BY <1>3, <1>6
  <2>2. f[Len(b) + k] = src + k
    BY <1>2, Zenon
  <2>3. Len(b) + k = i /\ i > Len(b) /\ src + k \in src + 1 .. src + n
    BY <1>3, <1>6, <2>1
  <2> QED BY <2>1, <2>2, <2>3
<1>7. ASSUME NEW i \in DOMAIN f, NEW j \in DOMAIN f, f[i] = f[j] PROVE i = j
  <2>1. CASE i \in DOMAIN b /\ j \in DOMAIN b
    BY <1>5, <1>7, <2>1 DEF WaitsIn
  <2>2. CASE i \in DOMAIN b /\ j \notin DOMAIN b
    <3>1. f[i] <= src
      BY <1>5, <2>2 DEF WaitsIn
    <3>2. f[j] > src
      BY <1>3, <1>6, <2>2
    <3> QED BY <1>3, <1>5, <1>7, <2>2, <3>1, <3>2
  <2>3. CASE i \notin DOMAIN b /\ j \in DOMAIN b
    <3>1. f[j] <= src
      BY <1>5, <2>3 DEF WaitsIn
    <3>2. f[i] > src
      BY <1>3, <1>6, <2>3
    <3> QED BY <1>3, <1>5, <1>7, <2>3, <3>1, <3>2
  <2>4. CASE i \notin DOMAIN b /\ j \notin DOMAIN b
    BY <1>3, <1>6, <1>7, <2>4
  <2> QED BY <2>1, <2>2, <2>3, <2>4
<1>8. ASSUME NEW i \in DOMAIN f PROVE f[i] <= src + n /\ a[f[i]] = -1
  <2>1. CASE i \in DOMAIN b
    <3>1. b[i] <= src /\ a[b[i]] = -1
      BY <2>1 DEF WaitsIn
    <3> QED BY <1>3, <1>5, <2>1, <3>1
  <2>2. CASE i \notin DOMAIN b
    <3>1. f[i] \in src + 1 .. src + n
      BY <1>6, <2>2
    <3>2. src + n <= Len(stream)
      BY <1>4
    <3>3. f[i] \in DOMAIN stream /\ f[i] > src /\ f[i] <= src + n
      BY <1>3, <3>1, <3>2
    <3>4. a[f[i]] = -1
      BY <1>3, <3>3 DEF WaitsIn
    <3> QED BY <3>3, <3>4
  <2> QED BY <2>1, <2>2
<1>9. ASSUME NEW k \in DOMAIN stream, k <= src + n
      PROVE  a[k] # -1 \/ \E i \in DOMAIN f : f[i] = k
  <2>1. CASE k <= src
    BY <1>5, <2>1 DEF WaitsIn
  <2>2. CASE k > src
    <3> DEFINE i == Len(b) + (k - src)
    <3>1. i \in DOMAIN f /\ i > Len(b) /\ src + (i - Len(b)) = k
      BY <1>3, <1>9, <2>2
    <3>2. f[i] = k
      BY <1>3, <1>6, <3>1
    <3> QED BY <3>1, <3>2
  <2> QED BY <1>3, <2>1, <2>2
<1>10. \A k \in DOMAIN stream : a[k] # -1 => k <= src + n
  BY <1>3 DEF WaitsIn
<1>11. Len(f) <= BufferSize
  BY <1>2, <1>3
<1>12. WaitsIn(f, a, src + n)
  BY <1>7, <1>8, <1>9, <1>10, <1>11 DEF WaitsIn
<1>13. ASSUME f = <<>> PROVE b = <<>> /\ src = Len(stream)
  <2>1. Len(f) = 0
    BY <1>13
  <2>2. Len(b) + n = 0 /\ (n < BufferSize - Len(b) => n >= Len(stream) - src)
    BY <1>2, <2>1, Zenon
  <2>3. Len(b) \in Nat /\ Len(stream) \in Nat
    OBVIOUS
  <2>4. Len(b) = 0 /\ n = 0
    BY <2>2, <2>3
  <2>5. src >= Len(stream)
    BY <2>2, <2>3, <2>4 DEF PackAssumption
  <2> QED BY <2>4, <2>5
<1> QED BY <1>2, <1>4, <1>12, <1>13 DEF f

(* buf.remove(i): what is left, and where it stood. *)
LEMMA WithoutValue ==
  ASSUME NEW S, NEW b \in Seq(S), NEW i \in DOMAIN b
  PROVE  /\ Without(b, i) \in Seq(S) /\ Len(Without(b, i)) = Len(b) - 1
         /\ \A j \in 1 .. i - 1 : Without(b, i)[j] = b[j]
         /\ \A j \in i .. Len(b) - 1 : Without(b, i)[j] = b[j + 1]
<1> DEFINE head == SubSeq(b, 1, i - 1)
           tail == SubSeq(b, i + 1, Len(b))
<1>1. Len(b) \in Nat /\ i \in 1 .. Len(b)
  OBVIOUS
<1>2. /\ head \in Seq(S) /\ Len(head) = i - 1
      /\ \A j \in 1 .. i - 1 : head[j] = b[j]
  BY <1>1
<1>3. /\ tail \in Seq(S) /\ Len(tail) = Len(b) - i
      /\ \A j \in 1 .. Len(b) - i : tail[j] = b[i + j]
  BY <1>1
<1>4. Without(b, i) = head \o tail
  BY DEF Without
<1> HIDE DEF head, tail
<1>5. /\ head \o tail \in Seq(S) /\ Len(head \o tail) = Len(head) + Len(tail)
      /\ \A j \in 1 .. Len(head) : (head \o tail)[j] = head[j]
      /\ \A j \in 1 .. Len(tail) : (head \o tail)[Len(head) + j] = tail[j]
  <2>1. head \in Seq(S) /\ tail \in Seq(S)
    BY <1>2, <1>3
  <2> QED BY <2>1, ConcatEntries
<1>6. ASSUME NEW j \in i .. Len(b) - 1 PROVE (head \o tail)[j] = b[j + 1]
  <2>1. PICK k \in 1 .. Len(b) - i : k = j - (i - 1)
    BY <1>1
  <2>2. (i - 1) + k = j /\ i + k = j + 1
    BY <1>1, <2>1
  <2>3. (head \o tail)[Len(head) + k] = tail[k]
    BY <1>3, <1>5, Zenon
  <2>4. (head \o tail)[(i - 1) + k] = b[i + k]
    BY <1>2, <1>3, <2>3, Zenon
  <2> QED BY <2>2, <2>4
<1>7. Len(head) + Len(tail) = Len(b) - 1
  BY <1>1, <1>2, <1>3
<1>8. \A j \in 1 .. i - 1 : (head \o tail)[j] = b[j]
  BY <1>2, <1>5
<1> QED BY <1>4, <1>5, <1>6, <1>7, <1>8

(* If anything fits, the scan finds one that fits and beats all others: of *)
(* the conversations that fit, one with the fewest that beat it is beaten  *)
(* by none.                                                                *)
LEMMA BestFits ==
  ASSUME PackTypes, \E i \in DOMAIN buf : Fits(i)
  PROVE  /\ Best \in DOMAIN buf /\ Fits(Best)
         /\ \A j \in DOMAIN buf : Fits(j) => Beats(Best, j)
<1> DEFINE D == DOMAIN buf
           F == {i \in D : Fits(i)}
           Above == [i \in D |-> {j \in F : ~Beats(i, j)}]
           T == {Above[i] : i \in F}
<1>1. IsFiniteSet(D)
  <2>1. D = 1 .. Len(buf) /\ Len(buf) \in Nat
    BY DEF PackTypes
  <2> QED BY <2>1, FS_Interval
<1>2. /\ \A i \in D : stream[buf[i]] \in Nat /\ i \in Nat
  BY DEF PackTypes
<1>3. T \subseteq FiniteSubsetsOf(D) /\ T # {}
  <2>1. T \subseteq SUBSET D /\ T # {}
    OBVIOUS
  <2> QED BY <1>1, <2>1, FS_FiniteSubsetsOfFinite
<1>4. IsWellFoundedOn(StrictSubsetOrdering(D), FiniteSubsetsOf(D))
  BY FS_StrictSubsetOrderingWellFounded
<1>5. PICK m \in T : \A t \in T : ~(<<t, m>> \in StrictSubsetOrdering(D))
  <2> HIDE DEF T
  <2> QED BY <1>3, <1>4, WFMin
<1>6. PICK i \in F : m = Above[i]
  OBVIOUS
<1>7. ASSUME NEW j \in D, Fits(j), ~Beats(i, j) PROVE FALSE
  <2>1. j \in Above[i] /\ j \in F
    BY <1>6, <1>7
  <2>2. Above[j] \subseteq Above[i]
    <3> SUFFICES ASSUME NEW k \in F, ~Beats(j, k) PROVE ~Beats(i, k)
      BY <1>6, <2>1
    <3> QED BY <1>2, <1>6, <1>7, <2>1 DEF Beats
  <2>3. j \notin Above[j]
    BY <1>2, <2>1 DEF Beats
  <2>4. Above[j] \in T /\ Above[j] # Above[i]
    BY <2>1, <2>3
  <2>5. <<Above[j], Above[i]>> \in StrictSubsetOrdering(D)
    BY <1>6, <2>1, <2>2, <2>4 DEF StrictSubsetOrdering
  <2> QED BY <1>5, <1>6, <2>4, <2>5
<1>8. i \in DOMAIN buf /\ Fits(i) /\ \A j \in DOMAIN buf : Fits(j) => Beats(i, j)
  BY <1>6, <1>7
<1> QED BY <1>8 DEF Best

(* What removing one of distinct entries leaves: the others, once each. *)
LEMMA WithoutRest ==
  ASSUME NEW S, NEW b \in Seq(S), NEW i \in DOMAIN b,
         \A l, m \in DOMAIN b : b[l] = b[m] => l = m
  PROVE  LET r == Without(b, i) IN
         /\ r \in Seq(S) /\ Len(r) = Len(b) - 1
         /\ \A j, m \in DOMAIN r : r[j] = r[m] => j = m
         /\ \A j \in DOMAIN r : \E l \in DOMAIN b : l # i /\ r[j] = b[l]
         /\ \A l \in DOMAIN b : l # i => \E j \in DOMAIN r : r[j] = b[l]
<1> DEFINE r == Without(b, i)
           old(j) == IF j < i THEN j ELSE j + 1
<1>1. /\ r \in Seq(S) /\ Len(r) = Len(b) - 1
      /\ \A j \in 1 .. i - 1 : r[j] = b[j]
      /\ \A j \in i .. Len(b) - 1 : r[j] = b[j + 1]
  BY WithoutValue
<1> HIDE DEF r
<1>2. Len(b) \in Nat /\ i \in 1 .. Len(b) /\ DOMAIN b = 1 .. Len(b)
  OBVIOUS
<1>3. DOMAIN r = 1 .. Len(b) - 1
  BY <1>1, <1>2
<1>4. ASSUME NEW j \in DOMAIN r
      PROVE  old(j) \in DOMAIN b /\ old(j) # i /\ r[j] = b[old(j)]
  <2>1. CASE j < i
    <3>1. j \in 1 .. i - 1 /\ old(j) = j /\ old(j) \in DOMAIN b /\ old(j) # i
      BY <1>2, <1>3, <2>1
    <3> QED BY <1>1, <3>1
  <2>2. CASE ~(j < i)
    <3>1. j \in i .. Len(b) - 1 /\ old(j) = j + 1 /\ old(j) \in DOMAIN b /\ old(j) # i
      BY <1>2, <1>3, <2>2
    <3> QED BY <1>1, <3>1
  <2> QED BY <2>1, <2>2
<1>5. ASSUME NEW j \in DOMAIN r, NEW m \in DOMAIN r, r[j] = r[m] PROVE j = m
  <2>1. old(j) = old(m)
    <3> HIDE DEF old
    <3> QED BY <1>4, <1>5
  <2> QED BY <1>2, <1>3, <2>1
<1>6. ASSUME NEW j \in DOMAIN r PROVE \E l \in DOMAIN b : l # i /\ r[j] = b[l]
  <2> HIDE DEF old
  <2> QED BY <1>4
<1>7. ASSUME NEW l \in DOMAIN b, l # i PROVE \E j \in DOMAIN r : r[j] = b[l]
  <2>1. CASE l < i
    <3>1. l \in 1 .. i - 1 /\ l \in DOMAIN r
      BY <1>2, <1>3, <2>1
    <3> QED BY <1>1, <3>1
  <2>2. CASE ~(l < i)
    <3>1. l - 1 \in i .. Len(b) - 1 /\ l - 1 \in DOMAIN r /\ (l - 1) + 1 = l
      BY <1>2, <1>3, <1>7, <2>2
    <3>2. r[l - 1] = b[(l - 1) + 1]
      BY <1>1, <3>1, Zenon
    <3> QED BY <3>1, <3>2
  <2> QED BY <2>1, <2>2
<1>8. /\ r \in Seq(S) /\ Len(r) = Len(b) - 1
      /\ \A j, m \in DOMAIN r : r[j] = r[m] => j = m
      /\ \A j \in DOMAIN r : \E l \in DOMAIN b : l # i /\ r[j] = b[l]
      /\ \A l \in DOMAIN b : l # i => \E j \in DOMAIN r : r[j] = b[l]
  BY <1>1, <1>5, <1>6, <1>7, Zenon
<1> QED BY <1>8 DEF r

(* A refill, whatever it follows. *)
LEMMA TakesKeeps ==
  ASSUME PackAssumption, PackTypes, stream' = stream,
         NEW b \in Seq(DOMAIN stream), WaitsIn(b, at', src),
         NEW point \in Points, point # "panic", Takes(b, Refilled(b), point)
  PROVE  /\ src' \in 0 .. Len(stream') /\ buf' \in Seq(DOMAIN stream') /\ pc' \in Points
         /\ Waiting' /\ AllPackable' /\ (pc' # "panic" => pc' = point)
         /\ buf' = <<>> => b = <<>> /\ src' = Len(stream')
<1>1. stream \in Seq(Nat) /\ src \in 0 .. Len(stream)
  BY DEF PackTypes
<1>2. /\ Refilled(b) \in Seq(DOMAIN stream)
      /\ src + Len(Refilled(b)) - Len(b) \in 0 .. Len(stream)
      /\ WaitsIn(Refilled(b), at', src + Len(Refilled(b)) - Len(b))
      /\ Refilled(b) = <<>> => b = <<>> /\ src = Len(stream)
  BY <1>1, RefilledWaits
<1>3. /\ buf' = Refilled(b) /\ src' = src + Len(Refilled(b)) - Len(b)
      /\ pc' = IF \A i \in DOMAIN Refilled(b) : Packable(Refilled(b)[i]) THEN point ELSE "panic"
  BY DEF Takes
<1>4. Waiting'
  <2>1. WaitsIn(buf', at', src')
    BY <1>2, <1>3, Zenon
  <2> QED BY <2>1 DEF Waiting, WaitsIn
<1>5. AllPackable' /\ pc' \in Points /\ (pc' # "panic" => pc' = point)
  <2>1. pc' # "panic" => \A i \in DOMAIN buf' : Packable(buf'[i])
    BY <1>3, Zenon
  <2>2. AllPackable'
    BY <2>1 DEF AllPackable, Packable
  <2> QED BY <1>3, <2>2 DEF Points
<1>6. ASSUME buf' = <<>> PROVE b = <<>> /\ src' = Len(stream')
  <2>1. b = <<>> /\ src = Len(stream) /\ Refilled(b) = <<>>
    BY <1>2, <1>3, <1>6
  <2>2. src' = src
    BY <1>1, <1>3, <2>1
  <2> QED BY <2>1, <2>2
<1>7. src' \in 0 .. Len(stream') /\ buf' \in Seq(DOMAIN stream')
  BY <1>2, <1>3, Zenon
<1> QED BY <1>4, <1>5, <1>6, <1>7

-----------------------------------------------------------------------------
(* Every step keeps the invariant. *)

LEMMA PackInit ==
  ASSUME PackAssumption, NEW lengths \in Seq(Nat), PackOf(lengths)
  PROVE  PackInv
<1>1. /\ stream \in Seq(Nat) /\ stream = lengths /\ src = 0 /\ buf = <<>>
      /\ at = [k \in DOMAIN stream |-> -1]
      /\ tokens = 0 /\ rowStart = 0 /\ pads = 0 /\ pc = "enter"
  BY DEF PackOf
<1>2. PackTypes
  BY <1>1 DEF PackTypes, Points
<1>3. Packed = {} /\ Covered = {}
  BY <1>1 DEF Packed, Covered
<1>4. Waiting
  BY <1>1 DEF Waiting, WaitsIn, PackAssumption
<1>5. AllPackable
  BY <1>1 DEF AllPackable
<1>6. Multiple(0)
  BY DEF Multiple, PackAssumption
<1>7. OpenRow
  BY <1>1, <1>6 DEF OpenRow
<1>8. InOneRow /\ Apart
  BY <1>3 DEF InOneRow, Apart
<1>9. RowsBegin
  <2>1. ASSUME NEW m \in Nat PROVE ~(m * Capacity < 0)
    BY DEF PackAssumption
  <2> QED BY <1>1, <2>1 DEF RowsBegin
<1>10. Counted
  BY <1>1, <1>3, FS_EmptySet DEF Counted
<1> QED BY <1>2, <1>4, <1>5, <1>7, <1>8, <1>9, <1>10 DEF PackInv

(* Steps that place nothing leave the epoch's conversations as they are. *)
LEMMA NothingPlaced ==
  ASSUME stream' = stream, at' = at
  PROVE  /\ Packed' = Packed /\ Covered' = Covered /\ Apart' = Apart
         /\ \A k : Cells(k)' = Cells(k)
BY DEF Packed, Covered, Cells, Apart

LEMMA InvStutters ==
  ASSUME PackInv, UNCHANGED packVars
  PROVE  PackInv'
BY NothingPlaced
DEF packVars, PackInv, PackTypes, Waiting, WaitsIn, AllPackable, Packable, OpenRow,
    Multiple, InOneRow, RowsBegin, Counted

LEMMA EnterRowKeeps ==
  ASSUME PackAssumption, PackInv, EnterRow
  PROVE  PackInv'
<1>1. /\ pc = "enter" /\ stream' = stream /\ at' = at /\ tokens' = tokens
      /\ pads' = pads /\ rowStart' = tokens
      /\ Takes(buf, Refilled(buf), IF Refilled(buf) = <<>> THEN "done" ELSE "fill")
  BY DEF EnterRow
<1> DEFINE point == IF Refilled(buf) = <<>> THEN "done" ELSE "fill"
<1>2. /\ src' \in 0 .. Len(stream') /\ buf' \in Seq(DOMAIN stream') /\ pc' \in Points
      /\ Waiting' /\ AllPackable' /\ (pc' # "panic" => pc' = point)
      /\ buf' = <<>> => buf = <<>> /\ src' = Len(stream')
  <2>1. WaitsIn(buf, at', src) /\ buf \in Seq(DOMAIN stream) /\ PackTypes
    BY <1>1 DEF PackInv, Waiting, PackTypes
  <2>2. point \in Points /\ point # "panic"
    BY DEF Points
  <2>3. Takes(buf, Refilled(buf), point)
    BY <1>1
  <2> HIDE DEF point
  <2> QED BY <1>1, <2>1, <2>2, <2>3, TakesKeeps
<1>3. PackTypes'
  BY <1>1, <1>2 DEF PackInv, PackTypes
<1>4. OpenRow'
  <2>1. Multiple(tokens) /\ tokens \in Nat
    BY <1>1 DEF PackInv, OpenRow, PackTypes
  <2>2. Multiple(tokens)' /\ Multiple(rowStart)'
    BY <1>1, <2>1 DEF Multiple
  <2>3. buf' = Refilled(buf)
    BY <1>1 DEF Takes
  <2>4. pc' = "fill" => buf' # <<>>
    BY <1>2, <2>3
  <2>5. pc' = "done" => buf' = <<>> /\ src' = Len(stream')
    BY <1>2, <2>3
  <2>6. rowStart' <= tokens' /\ tokens' < rowStart' + Capacity
    BY <1>1, <2>1 DEF PackAssumption
  <2> QED BY <2>2, <2>4, <2>5, <2>6 DEF OpenRow
<1>5. InOneRow' /\ Apart' /\ RowsBegin' /\ Counted'
  BY <1>1, NothingPlaced DEF PackInv, InOneRow, RowsBegin, Counted
<1> QED BY <1>2, <1>3, <1>4, <1>5 DEF PackInv

(* A row that is still empty takes any conversation. *)
LEMMA EmptyRowTakes ==
  ASSUME PackAssumption, PackInv, pc = "fill", \A i \in DOMAIN buf : ~Fits(i)
  PROVE  tokens # rowStart
<1>1. SUFFICES ASSUME tokens = rowStart PROVE FALSE
  OBVIOUS
<1>2. buf # <<>> /\ buf \in Seq(DOMAIN stream)
  BY <1>1 DEF PackInv, OpenRow, PackTypes
<1>3. 1 \in DOMAIN buf
  BY <1>2
<1>4. Packable(buf[1])
  BY <1>3 DEF PackInv, AllPackable
<1>5. Remaining = Capacity
  BY <1>1 DEF Remaining, PackInv, PackTypes, PackAssumption
<1> QED BY <1>3, <1>4, <1>5 DEF Fits, Packable

LEMMA PadRowKeeps ==
  ASSUME PackAssumption, PackInv, PadRow
  PROVE  PackInv'
<1>1. /\ pc = "fill" /\ pc' = "enter" /\ \A i \in DOMAIN buf : ~Fits(i)
      /\ tokens' = tokens + Remaining /\ pads' = pads + Remaining
      /\ stream' = stream /\ src' = src /\ buf' = buf /\ at' = at /\ rowStart' = rowStart
  BY DEF PadRow
<1>2. PICK m \in Nat : rowStart = m * Capacity
  BY DEF PackInv, OpenRow, Multiple
<1>3. /\ tokens \in Nat /\ rowStart \in Nat /\ pads \in Nat /\ Capacity \in Nat
      /\ Capacity >= 2 /\ rowStart <= tokens /\ tokens < rowStart + Capacity
  BY <1>1 DEF PackInv, PackTypes, OpenRow, PackAssumption
<1>4. Remaining \in Nat /\ tokens' = rowStart + Capacity
  BY <1>1, <1>3 DEF Remaining
<1>5. rowStart < tokens
  BY <1>1, <1>3, EmptyRowTakes
<1>6. PackTypes'
  BY <1>1, <1>3, <1>4 DEF PackInv, PackTypes, Points
<1>7. Waiting' /\ AllPackable'
  BY <1>1 DEF PackInv, Waiting, WaitsIn, AllPackable, Packable
<1>8. OpenRow'
  <2>1. tokens' = (m + 1) * Capacity /\ m + 1 \in Nat
    BY <1>2, <1>3, <1>4
  <2>2. Multiple(rowStart)' /\ Multiple(tokens)'
    BY <1>1, <1>2, <2>1 DEF Multiple
  <2> QED BY <1>1, <2>2 DEF OpenRow
<1>9. Packed' = Packed /\ Covered' = Covered /\ Apart'
  BY <1>1, NothingPlaced DEF PackInv
<1>10. InOneRow'
  <2> SUFFICES ASSUME NEW k \in Packed
               PROVE  /\ stream[k] >= 1 /\ at[k] + stream[k] <= tokens'
                      /\ \E l \in Nat : /\ l * Capacity <= at[k]
                                        /\ at[k] + stream[k] <= (l + 1) * Capacity
    BY <1>1, <1>9 DEF InOneRow
  <2>1. /\ stream[k] >= 1 /\ at[k] + stream[k] <= tokens
        /\ \E l \in Nat : /\ l * Capacity <= at[k]
                          /\ at[k] + stream[k] <= (l + 1) * Capacity
    BY DEF PackInv, InOneRow
  <2>2. at[k] \in Int /\ stream[k] \in Nat
    BY DEF PackInv, PackTypes, Packed
  <2>3. at[k] + stream[k] <= tokens'
    BY <1>1, <1>3, <1>4, <2>1, <2>2
  <2> QED BY <2>1, <2>3
<1>11. RowsBegin'
  <2> SUFFICES ASSUME NEW l \in Nat, l * Capacity < tokens'
               PROVE  \E k \in Packed : at[k] = l * Capacity
    BY <1>1, <1>9 DEF RowsBegin
  <2>1. l * Capacity < (m + 1) * Capacity
    BY <1>2, <1>3, <1>4
  <2>2. l <= m
    BY <1>3, <2>1, MultipleBelow
  <2>3. l * Capacity <= m * Capacity
    BY <1>3, <2>2
  <2>4. l * Capacity < tokens
    BY <1>2, <1>3, <1>5, <2>3
  <2> QED BY <2>4 DEF PackInv, RowsBegin
<1>12. Counted'
  <2>1. Cardinality(Covered) \in Nat
    BY FS_CardinalityType DEF PackInv, Counted
  <2>2. pads = tokens - Cardinality(Covered) /\ IsFiniteSet(Covered)
    BY DEF PackInv, Counted
  <2>3. pads' = tokens' - Cardinality(Covered)
    BY <1>1, <1>3, <1>4, <2>1, <2>2
  <2> QED BY <1>9, <2>2, <2>3 DEF Counted
<1> QED BY <1>6, <1>7, <1>8, <1>9, <1>10, <1>11, <1>12 DEF PackInv

(* The rest of the buffer waits, once the best of it is placed. *)
LEMMA BestRemoved ==
  ASSUME PackAssumption, PackInv, PackBest
  PROVE  LET rest == Without(buf, Best) IN
         /\ rest \in Seq(DOMAIN stream)
         /\ WaitsIn(rest, [at EXCEPT ![buf[Best]] = tokens], src)
<1> DEFINE k == buf[Best]
           rest == Without(buf, Best)
           placed == [at EXCEPT ![k] = tokens]
<1>1. \E i \in DOMAIN buf : Fits(i)
  BY DEF PackBest
<1>2. Best \in DOMAIN buf /\ Fits(Best)
  BY <1>1, BestFits DEF PackInv
<1>3. buf \in Seq(DOMAIN stream) /\ PackTypes
  BY DEF PackInv, PackTypes
<1>4. k \in DOMAIN stream
  BY <1>2, <1>3
<1>5. /\ at[k] = -1 /\ k <= src
      /\ \A l, m \in DOMAIN buf : buf[l] = buf[m] => l = m
  BY <1>2 DEF PackInv, Waiting, WaitsIn
<1>6. /\ rest \in Seq(DOMAIN stream) /\ Len(rest) = Len(buf) - 1
      /\ \A j, m \in DOMAIN rest : rest[j] = rest[m] => j = m
      /\ \A j \in DOMAIN rest : \E l \in DOMAIN buf : l # Best /\ rest[j] = buf[l]
      /\ \A l \in DOMAIN buf : l # Best => \E j \in DOMAIN rest : rest[j] = buf[l]
  <2>1. LET r == Without(buf, Best) IN
         /\ r \in Seq(DOMAIN stream) /\ Len(r) = Len(buf) - 1
         /\ \A j, m \in DOMAIN r : r[j] = r[m] => j = m
         /\ \A j \in DOMAIN r : \E l \in DOMAIN buf : l # Best /\ r[j] = buf[l]
         /\ \A l \in DOMAIN buf : l # Best => \E j \in DOMAIN r : r[j] = buf[l]
    BY <1>2, <1>3, <1>5, WithoutRest
  <2> QED BY <2>1, Zenon
<1> HIDE DEF rest
<1>7. WaitsIn(rest, placed, src)
  <2>1. Len(rest) <= BufferSize
    <3>1. Len(buf) <= BufferSize /\ Len(buf) \in Nat
      BY <1>3 DEF PackInv, Waiting, WaitsIn
    <3> QED BY <1>6, <3>1 DEF PackAssumption
  <2>2. \A c \in DOMAIN stream : c # k => placed[c] = at[c]
    BY <1>3 DEF PackTypes
  <2>3. placed[k] # -1
    BY <1>3, <1>4 DEF PackTypes
  <2>4. ASSUME NEW j \in DOMAIN rest PROVE rest[j] <= src /\ placed[rest[j]] = -1
    <3>1. PICK l \in DOMAIN buf : l # Best /\ rest[j] = buf[l]
      BY <1>6
    <3>2. buf[l] # k /\ buf[l] \in DOMAIN stream
      BY <1>2, <1>3, <1>5, <3>1
    <3>3. buf[l] <= src /\ at[buf[l]] = -1
      BY DEF PackInv, Waiting, WaitsIn
    <3> QED BY <2>2, <3>1, <3>2, <3>3
  <2>5. ASSUME NEW c \in DOMAIN stream, c <= src
        PROVE  placed[c] # -1 \/ \E j \in DOMAIN rest : rest[j] = c
    <3>1. at[c] # -1 \/ \E l \in DOMAIN buf : buf[l] = c
      BY <2>5 DEF PackInv, Waiting, WaitsIn
    <3>2. CASE c = k
      BY <2>3, <3>2
    <3>3. CASE c # k /\ at[c] # -1
      BY <2>2, <3>3
    <3>4. ASSUME NEW l \in DOMAIN buf, buf[l] = c, c # k
          PROVE  \E j \in DOMAIN rest : rest[j] = c
      BY <1>6, <3>4
    <3> QED BY <3>1, <3>2, <3>3, <3>4
  <2>6. \A c \in DOMAIN stream : placed[c] # -1 => c <= src
    BY <1>5, <2>2 DEF PackInv, Waiting, WaitsIn
  <2> QED BY <1>6, <2>1, <2>4, <2>5, <2>6 DEF WaitsIn
<1> QED BY <1>6, <1>7 DEF rest

(* What PackBest puts where: the conversation k, out of the buffer. *)
LEMMA BestPlaced ==
  ASSUME PackAssumption, PackInv, PackBest
  PROVE  \E k \in DOMAIN stream :
           /\ pc = "fill" /\ at[k] = -1 /\ stream[k] >= 1 /\ stream[k] <= Remaining
           /\ stream' = stream /\ at' = [at EXCEPT ![k] = tokens]
           /\ tokens' = tokens + stream[k] /\ rowStart' = rowStart /\ pads' = pads
           /\ src' \in 0 .. Len(stream') /\ buf' \in Seq(DOMAIN stream') /\ pc' \in Points
           /\ Waiting' /\ AllPackable'
           /\ pc' # "panic" => pc' = IF stream[k] = Remaining THEN "enter" ELSE "fill"
<1> DEFINE k == buf[Best]
           rest == Without(buf, Best)
           point == IF stream[k] = Remaining THEN "enter" ELSE "fill"
<1>1. /\ pc = "fill" /\ \E i \in DOMAIN buf : Fits(i)
      /\ Takes(rest, Refilled(rest), point)
      /\ stream' = stream /\ at' = [at EXCEPT ![k] = tokens]
      /\ tokens' = tokens + stream[k] /\ rowStart' = rowStart /\ pads' = pads
  BY DEF PackBest, TopUp
<1>2. Best \in DOMAIN buf /\ Fits(Best)
  BY <1>1, BestFits DEF PackInv
<1>3. buf \in Seq(DOMAIN stream) /\ PackTypes
  BY DEF PackInv, PackTypes
<1>4. k \in DOMAIN stream
  BY <1>2, <1>3
<1>5. /\ at[k] = -1 /\ k <= src
      /\ \A l, m \in DOMAIN buf : buf[l] = buf[m] => l = m
  BY <1>2 DEF PackInv, Waiting, WaitsIn
<1>6. stream[k] >= 1 /\ stream[k] <= Remaining
  BY <1>1, <1>2 DEF PackInv, AllPackable, Packable, Fits
<1>7. rest \in Seq(DOMAIN stream) /\ WaitsIn(rest, at', src)
  BY <1>1, BestRemoved
<1> HIDE DEF rest
<1>8. /\ src' \in 0 .. Len(stream') /\ buf' \in Seq(DOMAIN stream') /\ pc' \in Points
      /\ Waiting' /\ AllPackable' /\ (pc' # "panic" => pc' = point)
  <2>1. point \in Points /\ point # "panic"
    BY DEF Points
  <2> HIDE DEF point
  <2> QED BY <1>1, <1>3, <1>7, <2>1, TakesKeeps
<1> QED BY <1>1, <1>4, <1>5, <1>6, <1>8

LEMMA PackBestKeeps ==
  ASSUME PackAssumption, PackInv, PackBest
  PROVE  PackInv'
<1>1. PICK k \in DOMAIN stream :
           /\ pc = "fill" /\ at[k] = -1 /\ stream[k] >= 1 /\ stream[k] <= Remaining
           /\ stream' = stream /\ at' = [at EXCEPT ![k] = tokens]
           /\ tokens' = tokens + stream[k] /\ rowStart' = rowStart /\ pads' = pads
           /\ src' \in 0 .. Len(stream') /\ buf' \in Seq(DOMAIN stream') /\ pc' \in Points
           /\ Waiting' /\ AllPackable'
           /\ pc' # "panic" => pc' = IF stream[k] = Remaining THEN "enter" ELSE "fill"
  BY BestPlaced
<1>2. PackTypes
  BY DEF PackInv
<1>3. PICK m \in Nat : rowStart = m * Capacity
  BY DEF PackInv, OpenRow, Multiple
<1>4. /\ tokens \in Nat /\ rowStart \in Nat /\ Capacity \in Nat /\ Capacity >= 2
      /\ rowStart <= tokens /\ tokens < rowStart + Capacity /\ stream[k] \in Nat
  BY <1>1, <1>2 DEF PackInv, PackTypes, OpenRow, PackAssumption
<1>5. /\ (m + 1) * Capacity = rowStart + Capacity /\ m * Capacity = rowStart
      /\ (m + 1) * Capacity \in Nat
  BY <1>3, <1>4
<1>6. tokens' \in Nat /\ tokens < tokens' /\ tokens' <= rowStart + Capacity
  BY <1>1, <1>4 DEF Remaining
<1>7. /\ at'[k] = tokens /\ k \in Packed' /\ k \notin Packed
      /\ \A j \in Packed : at'[j] = at[j] /\ j # k
      /\ Packed' = Packed \cup {k}
  <2>1. at'[k] = tokens /\ \A j \in DOMAIN stream : j # k => at'[j] = at[j]
    BY <1>1, <1>2 DEF PackTypes
  <2> QED BY <1>1, <1>4, <2>1 DEF Packed
<1>8. ASSUME NEW j \in Packed
      PROVE  /\ at[j] \in Nat /\ stream[j] \in Nat /\ stream[j] >= 1
             /\ at[j] + stream[j] <= tokens
             /\ \E l \in Nat : l * Capacity <= at[j] /\ at[j] + stream[j] <= (l + 1) * Capacity
  <2>1. at[j] \in Nat /\ stream[j] \in Nat
    BY <1>2 DEF PackTypes, Packed
  <2> QED BY <2>1 DEF PackInv, InOneRow
<1>9. PackTypes'
  BY <1>1, <1>2, <1>4, <1>6 DEF PackTypes
<1>10. OpenRow'
  <2>1. Multiple(rowStart)'
    BY <1>1, <1>3 DEF Multiple
  <2>2. CASE stream[k] = Remaining
    <3>1. tokens' = (m + 1) * Capacity
      BY <1>1, <1>4, <1>5, <2>2 DEF Remaining
    <3>2. Multiple(tokens)'
      BY <3>1 DEF Multiple
    <3>3. pc' \in {"enter", "panic"}
      BY <1>1, <2>2
    <3> QED BY <2>1, <3>2, <3>3 DEF OpenRow
  <2>3. CASE stream[k] # Remaining
    <3>1. /\ rowStart' = rowStart /\ tokens' = tokens + stream[k]
          /\ stream[k] <= Capacity - (tokens - rowStart)
          /\ stream[k] # Capacity - (tokens - rowStart)
      BY <1>1, <2>3 DEF Remaining
    <3>2. tokens + stream[k] < rowStart + Capacity /\ rowStart < tokens + stream[k]
      BY <1>1, <1>4, <3>1
    <3>3. rowStart' <= tokens' /\ tokens' < rowStart' + Capacity /\ tokens' # rowStart'
      BY <1>4, <3>1, <3>2
    <3>4. pc' \in {"fill", "panic"}
      BY <1>1, <2>3
    <3> QED BY <2>1, <3>3, <3>4 DEF OpenRow
  <2> QED BY <2>2, <2>3
<1>11. InOneRow'
  <2>1. ASSUME NEW j \in Packed
        PROVE  /\ stream'[j] >= 1 /\ at'[j] + stream'[j] <= tokens'
               /\ \E l \in Nat : /\ l * Capacity <= at'[j]
                                 /\ at'[j] + stream'[j] <= (l + 1) * Capacity
    <3>1. stream'[j] = stream[j] /\ at'[j] = at[j]
      BY <1>1, <1>7
    <3>2. at[j] + stream[j] <= tokens'
      BY <1>4, <1>6, <1>8
    <3> QED BY <1>8, <3>1, <3>2
  <2>2. /\ stream'[k] >= 1 /\ at'[k] + stream'[k] <= tokens'
        /\ \E l \in Nat : /\ l * Capacity <= at'[k]
                          /\ at'[k] + stream'[k] <= (l + 1) * Capacity
    <3>1. m * Capacity <= tokens /\ tokens + stream[k] <= (m + 1) * Capacity
      BY <1>1, <1>4, <1>5, <1>6
    <3>2. stream'[k] = stream[k] /\ at'[k] = tokens /\ tokens' = tokens + stream[k]
      BY <1>1, <1>7
    <3>3. at'[k] + stream'[k] = tokens' /\ tokens' <= tokens'
      BY <1>6, <3>2
    <3>4. at'[k] + stream'[k] <= (m + 1) * Capacity /\ m * Capacity <= at'[k]
      BY <3>1, <3>2
    <3> QED BY <1>1, <3>2, <3>3, <3>4
  <2> QED BY <1>7, <2>1, <2>2 DEF InOneRow
<1>12. Apart'
  <2> SUFFICES ASSUME NEW i \in Packed', NEW j \in Packed', i # j
               PROVE  at'[i] + stream[i] <= at'[j] \/ at'[j] + stream[j] <= at'[i]
    BY <1>1 DEF Apart
  <2>1. CASE i \in Packed /\ j \in Packed
    BY <1>7, <2>1 DEF PackInv, Apart
  <2>2. CASE i = k
    BY <1>7, <1>8, <2>2
  <2>3. CASE j = k
    BY <1>7, <1>8, <2>3
  <2> QED BY <1>7, <2>1, <2>2, <2>3
(* A row begins where the epoch has come to, or has begun before. *)
<1>13. RowsBegin'
  <2> SUFFICES ASSUME NEW l \in Nat, l * Capacity < tokens'
               PROVE  \E j \in Packed' : at'[j] = l * Capacity
    BY <1>1 DEF RowsBegin
  <2>1. CASE l * Capacity < tokens
    <3>1. PICK j \in Packed : at[j] = l * Capacity
      BY <2>1 DEF PackInv, RowsBegin
    <3> QED BY <1>7, <3>1
  <2>2. CASE ~(l * Capacity < tokens)
    <3>1. l * Capacity \in Nat /\ l * Capacity < (m + 1) * Capacity
      BY <1>4, <1>5, <1>6
    <3>2. l <= m
      BY <1>4, <3>1, MultipleBelow
    <3>3. l * Capacity <= m * Capacity
      BY <1>4, <3>2
    <3>4. l * Capacity = tokens
      BY <1>4, <1>5, <2>2, <3>1, <3>3
    <3> QED BY <1>7, <3>4
  <2> QED BY <2>1, <2>2
<1>14. Counted'
  <2> DEFINE new == tokens .. tokens + stream[k] - 1
  <2>1. Covered' = Covered \cup new
    <3>1. Cells(k)' = new /\ \A j \in Packed : Cells(j)' = Cells(j)
      BY <1>1, <1>7 DEF Cells
    <3>2. Covered' = UNION {Cells(j)' : j \in Packed'}
      BY DEF Covered
    <3> HIDE DEF new
    <3> QED BY <1>7, <3>1, <3>2 DEF Covered
  <2>2. Covered \cap new = {}
    <3>1. ASSUME NEW j \in Packed, NEW q \in Cells(j) PROVE q < tokens
      BY <1>4, <1>8, <3>1 DEF Cells
    <3>2. \A q \in new : ~(q < tokens)
      BY <1>4
    <3> HIDE DEF new
    <3> QED BY <3>1, <3>2 DEF Covered
  <2>3. IsFiniteSet(new) /\ Cardinality(new) = stream[k]
    <3>1. /\ tokens \in Int /\ tokens + stream[k] - 1 \in Int
          /\ ~(tokens > tokens + stream[k] - 1)
          /\ (tokens + stream[k] - 1) - tokens + 1 = stream[k]
      BY <1>1, <1>4
    <3> QED BY <3>1, FS_Interval
  <2> HIDE DEF new
  <2>4. IsFiniteSet(Covered) /\ pads = tokens - Cardinality(Covered)
    BY DEF PackInv, Counted
  <2>5. Cardinality(Covered) \in Nat
    BY <2>4, FS_CardinalityType
  <2>6. /\ IsFiniteSet(Covered')
        /\ Cardinality(Covered') = Cardinality(Covered) + Cardinality(new) - Cardinality({})
    BY <2>1, <2>2, <2>3, <2>4, FS_Union
  <2>7. Cardinality(Covered') = Cardinality(Covered) + stream[k]
    BY <1>4, <2>3, <2>5, <2>6, FS_EmptySet
  <2>8. pads' = tokens' - Cardinality(Covered')
    BY <1>1, <1>4, <2>4, <2>5, <2>7
  <2> QED BY <2>6, <2>8 DEF Counted
<1> QED BY <1>1, <1>9, <1>10, <1>11, <1>12, <1>13, <1>14 DEF PackInv

(* What the invariant says of the finished epoch, and of an unfinished one. *)
LEMMA InvariantWhole ==
  ASSUME PackAssumption, PackInv
  PROVE  PackedWhole
<1>1. /\ Capacity \in Nat /\ Capacity >= 1 /\ tokens \in Nat
      /\ \A k \in Packed : at[k] \in Nat /\ stream[k] \in Nat
  BY DEF PackAssumption, PackInv, PackTypes, Packed
<1>2. ASSUME NEW k \in Packed PROVE RowOf(k) = (at[k] + stream[k] - 1) \div Capacity
  <2>1. PICK m \in Nat : m * Capacity <= at[k] /\ at[k] + stream[k] <= (m + 1) * Capacity
    BY DEF PackInv, InOneRow
  <2>2. stream[k] >= 1 /\ m * Capacity \in Nat /\ (m + 1) * Capacity \in Nat
    BY <1>1 DEF PackInv, InOneRow
  <2>3. /\ at[k] \in Nat /\ m * Capacity <= at[k] /\ at[k] < (m + 1) * Capacity
        /\ at[k] + stream[k] - 1 \in Nat /\ m * Capacity <= at[k] + stream[k] - 1
        /\ at[k] + stream[k] - 1 < (m + 1) * Capacity
    BY <1>1, <2>1, <2>2
  <2>4. at[k] \div Capacity = m
    BY <1>1, <2>3, RowBetween
  <2>5. (at[k] + stream[k] - 1) \div Capacity = m
    BY <1>1, <2>3, RowBetween
  <2> QED BY <2>4, <2>5 DEF RowOf
<1>3. ASSUME NEW k \in Packed, NEW j \in Packed \ {k} PROVE Cells(j) \cap Cells(k) = {}
  <2>1. at[j] + stream[j] <= at[k] \/ at[k] + stream[k] <= at[j]
    BY DEF PackInv, Apart
  <2> QED BY <1>1, <2>1 DEF Cells
<1>4. ASSUME pc = "done"
      PROVE  /\ Packed = DOMAIN stream
             /\ tokens % Capacity = 0
             /\ \A row \in 0 .. tokens \div Capacity - 1 :
                   \E k \in Packed : at[k] = row * Capacity
             /\ pads = tokens - Cardinality(UNION {Cells(k) : k \in Packed})
  <2>1. buf = <<>> /\ src = Len(stream) /\ stream \in Seq(Nat)
    BY <1>4 DEF PackInv, OpenRow, PackTypes
  <2>2. ASSUME NEW k \in DOMAIN stream PROVE k \in Packed
    <3>1. k <= src
      BY <2>1
    <3>2. at[k] # -1 \/ \E i \in DOMAIN buf : buf[i] = k
      BY <3>1 DEF PackInv, Waiting, WaitsIn
    <3> QED BY <2>1, <3>2 DEF Packed
  <2>3. PICK m \in Nat : tokens = m * Capacity
    BY <1>4 DEF PackInv, OpenRow, Multiple
  <2>4. tokens % Capacity = 0 /\ tokens \div Capacity = m
    BY <1>1, <2>3, MultipleDivides
  <2>5. ASSUME NEW row \in 0 .. tokens \div Capacity - 1
        PROVE  \E k \in Packed : at[k] = row * Capacity
    <3>1. row \in Nat /\ row < m
      BY <2>4
    <3>2. PICK d \in Nat : m = row + 1 + d
      <4>1. m - (row + 1) \in Nat /\ m = row + 1 + (m - (row + 1))
        BY <3>1
      <4> QED BY <4>1
    <3>3. m * Capacity = row * Capacity + Capacity + d * Capacity /\ d * Capacity >= 0
      BY <1>1, <3>1, <3>2
    <3>4. row * Capacity < tokens
      BY <1>1, <2>3, <3>1, <3>3
    <3> QED BY <3>1, <3>4 DEF PackInv, RowsBegin
  <2>6. pads = tokens - Cardinality(UNION {Cells(k) : k \in Packed})
    BY DEF PackInv, Counted, Covered
  <2>7. Packed = DOMAIN stream
    BY <2>2 DEF Packed
  <2> QED BY <2>4, <2>5, <2>6, <2>7
<1> QED BY <1>2, <1>3, <1>4 DEF PackedWhole

-----------------------------------------------------------------------------
(* Whatever is rendered, and whatever the row and the window: a packed     *)
(* conversation lies whole in one row and shares no token with another,    *)
(* and an epoch that is done has all of them, full rows that begin with    *)
(* one, and the padding it reports (pack_epoch of tasks/pack.rs).          *)
THEOREM PacksWhole == PackSpec => []PackedWhole
<1>1. (\E lengths \in Seq(Nat) : PackOf(lengths)) => PackInv
  BY PackAssumption, PackInit
<1>2. PackInv /\ [PackStep]_packVars => PackInv'
  <2> SUFFICES ASSUME PackInv, [PackStep]_packVars PROVE PackInv'
    OBVIOUS
  <2>1. CASE EnterRow
    BY <2>1, PackAssumption, EnterRowKeeps
  <2>2. CASE PackBest
    BY <2>2, PackAssumption, PackBestKeeps
  <2>3. CASE PadRow
    BY <2>3, PackAssumption, PadRowKeeps
  <2>4. CASE UNCHANGED packVars
    BY <2>4, InvStutters
  <2> QED BY <2>1, <2>2, <2>3, <2>4 DEF PackStep
<1>3. PackInv => PackedWhole
  BY PackAssumption, InvariantWhole
<1> QED BY <1>1, <1>2, <1>3, PTL DEF PackSpec

-----------------------------------------------------------------------------
(* The refinement.  The buffer is the window: it is sorted, as arrivals    *)
(* keep the order of the stream and removal keeps theirs, and it is full   *)
(* unless the stream is exhausted.  So at most BufferSize - 1 unpacked     *)
(* conversations come before one that is in it, and no fewer than          *)
(* BufferSize before one that is not.                                      *)

SortedIn(b) == \A i, j \in DOMAIN b : i < j => b[i] < b[j]
Stocked     == pc = "fill" => Len(buf) = BufferSize \/ src = Len(stream)
WindowInv   == PackInv /\ SortedIn(buf) /\ Stocked

LEMMA RefilledSorted ==
  ASSUME PackAssumption, stream \in Seq(Nat), src \in 0 .. Len(stream),
         NEW b \in Seq(DOMAIN stream), NEW a, WaitsIn(b, a, src), SortedIn(b)
  PROVE  /\ SortedIn(Refilled(b))
         /\ \/ Len(Refilled(b)) = BufferSize
            \/ src + Len(Refilled(b)) - Len(b) = Len(stream)
<1> DEFINE f == Refilled(b)
<1>1. Len(b) <= BufferSize /\ \A i \in DOMAIN b : b[i] <= src
  BY DEF WaitsIn
<1>2. PICK n \in Nat :
           /\ n <= BufferSize - Len(b) /\ n <= Len(stream) - src
           /\ n < BufferSize - Len(b) => n >= Len(stream) - src
           /\ f \in Seq(DOMAIN stream)
           /\ Len(f) = Len(b) + n
           /\ \A i \in 1 .. Len(b) : f[i] = b[i]
           /\ \A i \in 1 .. n : f[Len(b) + i] = src + i
  BY <1>1, RefilledValue
<1> HIDE DEF f
<1>3. /\ Len(stream) \in Nat /\ Len(b) \in Nat /\ DOMAIN stream = 1 .. Len(stream)
      /\ DOMAIN b = 1 .. Len(b) /\ DOMAIN f = 1 .. Len(b) + n
      /\ BufferSize \in Nat /\ src \in Nat /\ src <= Len(stream)
  BY <1>2 DEF PackAssumption
<1>4. ASSUME NEW i \in DOMAIN f, i > Len(b)
      PROVE  f[i] = src + (i - Len(b))
  <2>1. PICK k \in 1 .. n : k = i - Len(b)
    BY <1>3, <1>4
  <2>2. f[Len(b) + k] = src + k
    BY <1>2, Zenon
  <2>3. Len(b) + k = i
    BY <1>3, <2>1
  <2> QED BY <2>1, <2>2, <2>3
<1>5. ASSUME NEW i \in DOMAIN f, i <= Len(b)
      PROVE  i \in DOMAIN b /\ f[i] = b[i] /\ b[i] \in Nat
  <2>1. i \in 1 .. Len(b) /\ b[i] \in Nat
    BY <1>3, <1>5
  <2>2. f[i] = b[i]
    BY <1>2, <2>1, Zenon
  <2> QED BY <1>3, <2>1, <2>2
<1>6. ASSUME NEW i \in DOMAIN f, NEW j \in DOMAIN f, i < j PROVE f[i] < f[j]
  <2>1. CASE j <= Len(b)
    <3>1. i <= Len(b)
      BY <1>3, <1>6, <2>1
    <3>2. /\ i \in DOMAIN b /\ j \in DOMAIN b
          /\ f[i] = b[i] /\ f[j] = b[j]
      BY <1>5, <2>1, <3>1
    <3>3. b[i] < b[j]
      BY <1>6, <3>2 DEF SortedIn
    <3> QED BY <3>2, <3>3
  <2>2. CASE i <= Len(b) /\ j > Len(b)
    <3>1. f[i] <= src /\ f[i] \in Nat
      BY <1>1, <1>5, <2>2
    <3>2. f[j] = src + (j - Len(b)) /\ j \in Nat
      BY <1>3, <1>4, <2>2
    <3> QED BY <1>3, <2>2, <3>1, <3>2
  <2>3. CASE i > Len(b)
    <3>1. /\ f[i] = src + (i - Len(b)) /\ f[j] = src + (j - Len(b))
          /\ i \in Nat /\ j \in Nat
      BY <1>3, <1>4, <1>6, <2>3
    <3> QED BY <1>3, <1>6, <3>1
  <2> QED BY <1>3, <2>1, <2>2, <2>3
<1>7. Len(f) = BufferSize \/ src + Len(f) - Len(b) = Len(stream)
  <2>1. /\ Len(f) = Len(b) + n /\ n <= BufferSize - Len(b) /\ n <= Len(stream) - src
        /\ n < BufferSize - Len(b) => n >= Len(stream) - src
    BY <1>2, Zenon
  <2>2. Len(f) = BufferSize \/ n = Len(stream) - src
    <3>1. /\ Len(stream) \in Nat /\ Len(b) \in Nat
          /\ BufferSize \in Nat /\ src \in Nat /\ src <= Len(stream)
      BY <1>3
    <3> QED BY <2>1, <3>1
  <2>3. n = Len(stream) - src => src + Len(f) - Len(b) = Len(stream)
    BY <1>3, <2>1
  <2> QED BY <2>2, <2>3
<1> QED BY <1>6, <1>7 DEF SortedIn, f

LEMMA WithoutSorted ==
  ASSUME NEW S, NEW b \in Seq(S), NEW i \in DOMAIN b, SortedIn(b)
  PROVE  SortedIn(Without(b, i))
<1> DEFINE r == Without(b, i)
<1>1. /\ r \in Seq(S) /\ Len(r) = Len(b) - 1
      /\ \A j \in 1 .. i - 1 : r[j] = b[j]
      /\ \A j \in i .. Len(b) - 1 : r[j] = b[j + 1]
  BY WithoutValue
<1> HIDE DEF r
<1>2. Len(b) \in Nat /\ i \in 1 .. Len(b) /\ DOMAIN b = 1 .. Len(b)
  OBVIOUS
<1>3. DOMAIN r = 1 .. Len(b) - 1
  BY <1>1, <1>2
<1>4. \A j, m \in DOMAIN b : j < m => b[j] < b[m]
  BY DEF SortedIn
<1>5. ASSUME NEW j \in DOMAIN r, NEW m \in DOMAIN r, j < m PROVE r[j] < r[m]
  <2>1. CASE m < i
    <3>1. j \in 1 .. i - 1 /\ m \in 1 .. i - 1 /\ j \in DOMAIN b /\ m \in DOMAIN b
      BY <1>2, <1>3, <1>5, <2>1
    <3> QED BY <1>1, <1>4, <1>5, <3>1
  <2>2. CASE j < i /\ ~(m < i)
    <3>1. /\ j \in 1 .. i - 1 /\ m \in i .. Len(b) - 1 /\ j \in DOMAIN b
          /\ m + 1 \in DOMAIN b /\ j < m + 1
      BY <1>2, <1>3, <1>5, <2>2
    <3> QED BY <1>1, <1>4, <3>1
  <2>3. CASE ~(j < i)
    <3>1. /\ j \in i .. Len(b) - 1 /\ m \in i .. Len(b) - 1 /\ j + 1 \in DOMAIN b
          /\ m + 1 \in DOMAIN b /\ j + 1 < m + 1
      BY <1>2, <1>3, <1>5, <2>3
    <3> QED BY <1>1, <1>4, <3>1
  <2> QED BY <1>2, <1>3, <2>1, <2>2, <2>3
<1> QED BY <1>5 DEF SortedIn, r

(* A refill sorts and stocks the buffer, before a row and after a removal. *)
LEMMA TakesStocks ==
  ASSUME PackAssumption, stream \in Seq(Nat), src \in 0 .. Len(stream), stream' = stream,
         NEW b \in Seq(DOMAIN stream), NEW a, WaitsIn(b, a, src), SortedIn(b),
         NEW point, Takes(b, Refilled(b), point)
  PROVE  SortedIn(buf)' /\ Stocked'
<1>1. buf' = Refilled(b) /\ src' = src + Len(Refilled(b)) - Len(b)
  BY DEF Takes
<1>2. /\ SortedIn(Refilled(b))
      /\ \/ Len(Refilled(b)) = BufferSize
         \/ src + Len(Refilled(b)) - Len(b) = Len(stream)
  BY RefilledSorted
<1>3. SortedIn(buf)'
  BY <1>1, <1>2 DEF SortedIn
<1>4. Len(buf') = BufferSize \/ src' = Len(stream')
  BY <1>1, <1>2
<1> QED BY <1>3, <1>4 DEF Stocked

LEMMA WindowKept ==
  ASSUME PackAssumption, WindowInv, PackStep
  PROVE  WindowInv'
<1>1. /\ stream \in Seq(Nat) /\ src \in 0 .. Len(stream) /\ buf \in Seq(DOMAIN stream)
      /\ WaitsIn(buf, at, src) /\ SortedIn(buf) /\ PackInv
  BY DEF WindowInv, PackInv, PackTypes, Waiting
<1>2. PackInv'
  BY <1>1, EnterRowKeeps, PackBestKeeps, PadRowKeeps DEF PackStep
<1>3. CASE EnterRow
  <2>1. Takes(buf, Refilled(buf), IF Refilled(buf) = <<>> THEN "done" ELSE "fill")
    BY <1>3 DEF EnterRow
  <2>2. stream' = stream
    BY <1>3 DEF EnterRow
  <2>3. SortedIn(buf)' /\ Stocked'
    BY <1>1, <2>1, <2>2, TakesStocks
  <2> QED BY <1>2, <2>3 DEF WindowInv
<1>4. CASE PackBest
  <2> DEFINE rest == Without(buf, Best)
  <2>1. /\ Best \in DOMAIN buf /\ stream' = stream
        /\ Takes(rest, Refilled(rest),
                 IF stream[buf[Best]] = Remaining THEN "enter" ELSE "fill")
    BY <1>1, <1>4, BestFits DEF PackBest, PackInv, TopUp
  <2>2. \A l, m \in DOMAIN buf : buf[l] = buf[m] => l = m
    BY <1>1 DEF WaitsIn
  <2>3. rest \in Seq(DOMAIN stream) /\ WaitsIn(rest, [at EXCEPT ![buf[Best]] = tokens], src)
    BY <1>1, <1>4, BestRemoved
  <2>4. SortedIn(rest)
    BY <1>1, <2>1, WithoutSorted
  <2> HIDE DEF rest
  <2>5. SortedIn(buf)' /\ Stocked'
    BY <1>1, <2>1, <2>3, <2>4, TakesStocks
  <2> QED BY <1>2, <2>5 DEF WindowInv
<1>5. CASE PadRow
  <2>1. buf' = buf /\ pc' = "enter"
    BY <1>5 DEF PadRow
  <2> QED BY <1>1, <1>2, <2>1 DEF WindowInv, SortedIn, Stocked
<1> QED BY <1>3, <1>4, <1>5 DEF PackStep

(* The window of the stream is what is in the buffer. *)
LEMMA BufferIsWindow ==
  ASSUME PackAssumption, WindowInv, pc = "fill"
  PROVE  \A k \in DOMAIN stream :
           k \in BestFit!Window <=> \E i \in DOMAIN buf : buf[i] = k
<1> DEFINE Before(k) == {j \in BestFit!Unpacked : j < k}
<1>1. /\ stream \in Seq(Nat) /\ buf \in Seq(DOMAIN stream)
      /\ WaitsIn(buf, at, src) /\ SortedIn(buf)
  BY DEF WindowInv, PackInv, PackTypes, Waiting
<1>2. PICK L \in Nat, N \in Nat :
         /\ DOMAIN stream = 1 .. L /\ DOMAIN buf = 1 .. N /\ N = Len(buf)
         /\ BufferSize \in Nat /\ src \in Nat /\ src <= L /\ L = Len(stream)
  <2>1. Len(stream) \in Nat /\ DOMAIN stream = 1 .. Len(stream)
    BY <1>1
  <2>2. Len(buf) \in Nat /\ DOMAIN buf = 1 .. Len(buf)
    BY <1>1
  <2>3. BufferSize \in Nat /\ src \in Nat /\ src <= Len(stream)
    BY <1>1 DEF WindowInv, PackInv, PackTypes, PackAssumption
  <2> QED BY <2>1, <2>2, <2>3
<1>3. N = BufferSize \/ src = L
  BY <1>2 DEF WindowInv, Stocked
<1>4. /\ N <= BufferSize
      /\ \A i, j \in DOMAIN buf : buf[i] = buf[j] => i = j
      /\ \A i \in DOMAIN buf : buf[i] <= src /\ at[buf[i]] = -1 /\ buf[i] \in DOMAIN stream
      /\ \A i, j \in DOMAIN buf : i < j => buf[i] < buf[j]
      /\ \A k \in DOMAIN stream : k <= src => at[k] # -1 \/ \E i \in DOMAIN buf : buf[i] = k
  <2>1. \A i \in DOMAIN buf : buf[i] \in DOMAIN stream
    BY <1>1
  <2> QED BY <1>1, <1>2, <2>1 DEF WaitsIn, SortedIn
<1>5. \A i \in DOMAIN buf : buf[i] \in BestFit!Unpacked
  BY <1>4 DEF BestFit!Unpacked
(* Of those before an entry of the buffer, each stands before it there. *)
<1>6. ASSUME NEW i \in DOMAIN buf
      PROVE  Cardinality(Before(buf[i])) < BufferSize
  <2> DEFINE A == Before(buf[i])
             f == [m \in 1 .. i - 1 |-> buf[m]]
  <2>1. ASSUME NEW m \in 1 .. i - 1 PROVE buf[m] \in A
    <3>1. m \in DOMAIN buf /\ m < i
      BY <1>2
    <3> QED BY <1>4, <1>5, <3>1
  <2>2. ASSUME NEW j \in A PROVE \E m \in 1 .. i - 1 : buf[m] = j
    <3>1. j \in DOMAIN stream /\ at[j] = -1 /\ j < buf[i] /\ buf[i] <= src
      BY <1>4 DEF BestFit!Unpacked
    <3>2. buf[i] \in DOMAIN stream
      BY <1>4
    <3>3. j <= src
      BY <1>2, <3>1, <3>2
    <3>4. PICK m \in DOMAIN buf : buf[m] = j
      BY <1>4, <3>1, <3>3
    <3>5. ~(i < m) /\ m # i
      <4>1. j \in Nat /\ buf[i] \in Nat
        BY <1>2, <3>1, <3>2
      <4>2. i < m => buf[i] < j
        BY <1>4, <3>4
      <4> QED BY <3>1, <3>4, <4>1, <4>2
    <3> QED BY <1>2, <3>4, <3>5
  <2> HIDE DEF A
  <2>3. f \in Surjection(1 .. i - 1, A)
    BY <2>1, <2>2 DEF Surjection
  <2>4. i - 1 \in Int /\ IsFiniteSet(1 .. i - 1) /\ Cardinality(1 .. i - 1) = i - 1
    <3>1. i \in Nat /\ i >= 1 /\ i - 1 \in Int /\ 1 \in Int
      BY <1>2
    <3>2. /\ IsFiniteSet(1 .. i - 1)
          /\ Cardinality(1 .. i - 1) = IF 1 > i - 1 THEN 0 ELSE (i - 1) - 1 + 1
      BY <3>1, FS_Interval
    <3> QED BY <3>1, <3>2
  <2> HIDE DEF f
  <2>5. IsFiniteSet(A) /\ Cardinality(A) <= i - 1
    <3>1. IsFiniteSet(A) /\ Cardinality(A) <= Cardinality(1 .. i - 1)
      BY <2>3, <2>4, FS_Surjection
    <3> QED BY <2>4, <3>1
  <2>6. Cardinality(A) \in Nat
    BY <2>5, FS_CardinalityType
  <2> QED BY <1>2, <1>4, <2>5, <2>6 DEF A
(* Before one that has not arrived stands the whole buffer, and it is full. *)
<1>7. ASSUME NEW k \in BestFit!Unpacked, ~ \E i \in DOMAIN buf : buf[i] = k
      PROVE  ~(Cardinality(Before(k)) < BufferSize)
  <2> DEFINE B == Before(k)
             f == [m \in DOMAIN buf |-> buf[m]]
  <2>1. k \in DOMAIN stream /\ at[k] = -1 /\ k > src
    <3>1. k \in DOMAIN stream /\ at[k] = -1
      BY DEF BestFit!Unpacked
    <3> QED BY <1>2, <1>4, <1>7, <3>1
  <2>2. N = BufferSize
    <3>1. k \in 1 .. L /\ k > src
      BY <1>2, <2>1
    <3>2. src # L
      BY <3>1
    <3> QED BY <1>3, <3>2
  <2>3. \A m \in DOMAIN buf : buf[m] \in B
    <3>1. \A m \in DOMAIN buf : buf[m] < k
      BY <1>2, <1>4, <2>1
    <3> QED BY <1>5, <3>1
  <2>4. IsFiniteSet(B)
    <3>1. B \in SUBSET (1 .. L)
      BY <1>2 DEF BestFit!Unpacked
    <3>2. IsFiniteSet(1 .. L)
      BY <1>2, FS_Interval
    <3> HIDE DEF B
    <3> QED BY <3>1, <3>2, FS_Subset
  <2> HIDE DEF B
  <2>5. f \in Injection(DOMAIN buf, B)
    BY <1>4, <2>3 DEF Injection, IsInjective
  <2> HIDE DEF f
  <2>6. Cardinality(DOMAIN buf) <= Cardinality(B)
    BY <2>4, <2>5, FS_Injection
  <2>7. Cardinality(DOMAIN buf) = N
    <3>1. Cardinality(1 .. N) = IF 1 > N THEN 0 ELSE N - 1 + 1
      BY FS_Interval
    <3> QED BY <1>2, <3>1
  <2>8. Cardinality(B) \in Nat
    BY <2>4, FS_CardinalityType
  <2> QED BY <1>2, <2>2, <2>6, <2>7, <2>8 DEF B
<1> HIDE DEF Before
<1>8. \A S : BestFit!Cardinality(S) = Cardinality(S)
  BY DEF BestFit!Cardinality, Cardinality
<1>9. \A k : k \in BestFit!Window
               <=> k \in BestFit!Unpacked /\ Cardinality(Before(k)) < BufferSize
  BY <1>8 DEF BestFit!Window, Before
<1>10. ASSUME NEW k \in DOMAIN stream
      PROVE  k \in BestFit!Window <=> \E i \in DOMAIN buf : buf[i] = k
  <2>1. CASE \E i \in DOMAIN buf : buf[i] = k
    BY <1>5, <1>6, <1>9, <2>1
  <2>2. CASE ~ \E i \in DOMAIN buf : buf[i] = k
    BY <1>7, <1>9, <2>2
  <2> QED BY <2>1, <2>2
<1> QED BY <1>10

(* The gap to the next multiple of the capacity is the rest of the open row. *)
LEMMA GapIsRest ==
  ASSUME PackAssumption, PackInv, pc = "fill"
  PROVE  BestFit!Gap = Remaining /\ tokens % Capacity = tokens - rowStart
<1>1. /\ tokens \in Nat /\ rowStart \in Nat /\ Capacity \in Nat /\ Capacity >= 1
      /\ rowStart <= tokens /\ tokens < rowStart + Capacity
  BY DEF PackInv, PackTypes, OpenRow, PackAssumption
<1>2. PICK m \in Nat : rowStart = m * Capacity
  BY DEF PackInv, OpenRow, Multiple
<1>3. tokens < (m + 1) * Capacity
  BY <1>1, <1>2
<1>4. tokens \div Capacity = m
  BY <1>1, <1>2, <1>3, RowBetween
<1>5. tokens = Capacity * (tokens \div Capacity) + (tokens % Capacity)
      /\ tokens % Capacity \in Nat
  BY <1>1
<1>6. tokens = Capacity * m + (tokens % Capacity) /\ Capacity * m = rowStart
  <2>1. tokens = Capacity * m + (tokens % Capacity)
    BY <1>4, <1>5
  <2>2. Capacity * m = m * Capacity
    BY <1>1
  <2> QED BY <1>2, <2>1, <2>2
<1>7. tokens % Capacity = tokens - rowStart
  BY <1>1, <1>5, <1>6
<1> QED BY <1>7 DEF BestFit!Gap, Remaining

(* What the scan may choose from is what best fit may choose from. *)
LEMMA FittingIsFits ==
  ASSUME PackAssumption, WindowInv, pc = "fill"
  PROVE  /\ \A i \in DOMAIN buf : Fits(i) <=> buf[i] \in BestFit!Fitting
         /\ \A k \in BestFit!Fitting : \E i \in DOMAIN buf : buf[i] = k
<1>1. buf \in Seq(DOMAIN stream) /\ PackInv
  BY DEF WindowInv, PackInv, PackTypes
<1>2. \A k \in DOMAIN stream : k \in BestFit!Window <=> \E i \in DOMAIN buf : buf[i] = k
  BY BufferIsWindow
<1>3. BestFit!Gap = Remaining
  BY <1>1, GapIsRest
<1>4. \A i \in DOMAIN buf : buf[i] \in DOMAIN stream
  BY <1>1
<1>5. BestFit!Window \subseteq DOMAIN stream
  BY DEF BestFit!Window, BestFit!Unpacked
<1> QED BY <1>2, <1>3, <1>4, <1>5 DEF BestFit!Fitting, Fits

LEMMA StepFits ==
  ASSUME PackAssumption, WindowInv, PackStep
  PROVE  BestFit!Next \/ UNCHANGED <<stream, at, tokens>>
<1>1. PackInv /\ PackTypes
  BY DEF WindowInv, PackInv
<1>2. CASE EnterRow
  BY <1>2 DEF EnterRow
<1>3. CASE PackBest
  <2>1. /\ pc = "fill" /\ stream' = stream
        /\ at' = [at EXCEPT ![buf[Best]] = tokens]
        /\ tokens' = tokens + stream[buf[Best]]
    BY <1>3 DEF PackBest
  <2>2. /\ Best \in DOMAIN buf /\ Fits(Best)
        /\ \A j \in DOMAIN buf : Fits(j) => Beats(Best, j)
    BY <1>1, <1>3, BestFits DEF PackBest
  <2>3. buf[Best] \in BestFit!Fitting
    BY <2>1, <2>2, FittingIsFits
  <2>4. ASSUME NEW j \in BestFit!Fitting
        PROVE  /\ stream[j] <= stream[buf[Best]]
               /\ stream[j] = stream[buf[Best]] => buf[Best] <= j
    <3>1. PICK i \in DOMAIN buf : buf[i] = j
      BY <2>1, FittingIsFits
    <3>2. Beats(Best, i)
      BY <2>1, <2>2, <3>1, FittingIsFits
    <3>3. /\ stream[buf[Best]] \in Nat /\ stream[buf[i]] \in Nat
          /\ buf[Best] \in Nat /\ buf[i] \in Nat /\ Best \in Nat /\ i \in Nat
      BY <1>1, <2>2 DEF PackTypes
    <3>4. Best <= i => buf[Best] <= buf[i]
      BY <2>2, <3>3 DEF WindowInv, SortedIn
    <3> QED BY <3>1, <3>2, <3>3, <3>4 DEF Beats
  <2>5. BestFit!PackNext
    BY <2>1, <2>3, <2>4 DEF BestFit!PackNext
  <2> QED BY <2>5 DEF BestFit!Next
<1>4. CASE PadRow
  <2>1. /\ pc = "fill" /\ \A i \in DOMAIN buf : ~Fits(i)
        /\ tokens' = tokens + Remaining /\ stream' = stream /\ at' = at
    BY <1>4 DEF PadRow
  <2>2. BestFit!Fitting = {}
    BY <2>1, FittingIsFits
  <2>3. BestFit!Gap = Remaining /\ tokens % Capacity = tokens - rowStart
    BY <1>1, <2>1, GapIsRest
  <2>4. tokens - rowStart # 0
    <3>1. tokens # rowStart
      BY <1>1, <2>1, EmptyRowTakes
    <3> QED BY <1>1, <3>1 DEF PackTypes
  <2>5. BestFit!PadGap
    BY <2>1, <2>2, <2>3, <2>4 DEF BestFit!PadGap
  <2> QED BY <2>5 DEF BestFit!Next
<1> QED BY <1>2, <1>3, <1>4 DEF PackStep

-----------------------------------------------------------------------------
(* The buffer of pack_epoch with its removals and top-ups, the iterator    *)
(* and the row bookkeeping are best fit over the whole stream, for any     *)
(* stream, any row and any window: each conversation packed is the longest *)
(* that fits among the first BufferSize unpacked, the earliest of equals,  *)
(* and a row is padded only when none of those fits.                       *)
THEOREM PacksBestFit == PackSpec => ImplementsBestFit
<1>1. (\E lengths \in Seq(Nat) : PackOf(lengths)) => WindowInv /\ BestFit!Init
  <2> SUFFICES ASSUME NEW lengths \in Seq(Nat), PackOf(lengths)
               PROVE  WindowInv /\ BestFit!Init
    OBVIOUS
  <2>1. PackInv
    BY PackAssumption, PackInit
  <2>2. stream = lengths /\ at = [k \in DOMAIN stream |-> -1] /\ tokens = 0
        /\ buf = <<>> /\ pc = "enter"
    BY DEF PackOf
  <2> QED BY <2>1, <2>2 DEF WindowInv, SortedIn, Stocked, BestFit!Init
<1>2. WindowInv /\ [PackStep]_packVars => WindowInv'
  <2> SUFFICES ASSUME WindowInv, [PackStep]_packVars PROVE WindowInv'
    OBVIOUS
  <2>1. CASE PackStep
    BY <2>1, PackAssumption, WindowKept
  <2>2. CASE UNCHANGED packVars
    <3>1. PackInv'
      BY <2>2, InvStutters DEF WindowInv
    <3> QED BY <2>2, <3>1 DEF WindowInv, SortedIn, Stocked, packVars
  <2> QED BY <2>1, <2>2
<1>3. WindowInv /\ [PackStep]_packVars => [BestFit!Next]_<<stream, at, tokens>>
  BY PackAssumption, StepFits DEF packVars
<1> QED BY <1>1, <1>2, <1>3, PTL DEF PackSpec, ImplementsBestFit, BestFit!Spec
-----------------------------------------------------------------------------
(* The mask.  Whether the model writes the next token is a state that      *)
(* rendering carries along: a piece of a conversation takes it from what   *)
(* it was before to what it is after, and is marked accordingly.           *)

Ids == {"bos", "user_start", "user", "user_end", "assistant_start", "assistant_end", "reply",
        "python_start", "python", "python_end", "output_start", "output", "output_end"}
Tokens == [id : Ids, scored : BOOLEAN]
Opens  == {"assistant_start", "output_end"}

MaskRight(t) == \A p \in DOMAIN t : t[p].scored <=> Writes(t, p)

Open(t) ==
  \E m \in DOMAIN t : t[m].id \in Opens /\ \A n \in m + 1 .. Len(t) : t[n].id \notin Hands

Masks(u, before, after) ==
  /\ u \in Seq(Tokens)
  /\ \A t \in Seq(Tokens) : MaskRight(t) /\ (Open(t) <=> before)
                              => MaskRight(t \o u) /\ (Open(t \o u) <=> after)

(* What the model writes depends on what comes before only. *)
LEMMA WritesLooksBack ==
  ASSUME NEW t, NEW w, NEW p \in Nat, \A q \in 1 .. p : t[q] = w[q]
  PROVE  Writes(t, p) <=> Writes(w, p)
<1>1. CASE p = 0
  BY <1>1 DEF Writes
<1>2. CASE p # 0
  <2>1. t[p] = w[p] /\ \A m \in 1 .. p - 1 : t[m] = w[m]
    BY <1>2
  <2>2. \A m \in 1 .. p - 1 : \A n \in m + 1 .. p - 1 : t[n] = w[n]
    BY <2>1
  <2> QED BY <2>1, <2>2 DEF Writes
<1> QED BY <1>1, <1>2

LEMMA OneToken ==
  ASSUME NEW x \in Tokens, NEW before \in BOOLEAN, NEW after \in BOOLEAN,
         x.scored <=> x.id # "bos" /\ before,
         after <=> x.id \in Opens \/ (x.id \notin Hands /\ before)
  PROVE  Masks(<<x>>, before, after)
<1>1. <<x>> \in Seq(Tokens) /\ Len(<<x>>) = 1 /\ <<x>>[1] = x
  OBVIOUS
<1>2. SUFFICES ASSUME NEW t \in Seq(Tokens), MaskRight(t), Open(t) <=> before
               PROVE  MaskRight(t \o <<x>>) /\ (Open(t \o <<x>>) <=> after)
  BY <1>1 DEF Masks
<1> DEFINE u == t \o <<x>>  n == Len(t)
<1>3. /\ n \in Nat /\ u \in Seq(Tokens) /\ Len(u) = n + 1
      /\ \A p \in 1 .. n : u[p] = t[p]
      /\ u[n + 1] = x
      /\ DOMAIN t = 1 .. n /\ DOMAIN u = 1 .. n + 1
  <2>1. /\ u \in Seq(Tokens) /\ Len(u) = n + Len(<<x>>)
        /\ \A i \in 1 .. n : u[i] = t[i]
        /\ \A i \in 1 .. Len(<<x>>) : u[n + i] = <<x>>[i]
    BY <1>1, ConcatEntries
  <2>2. 1 \in 1 .. Len(<<x>>)
    BY <1>1
  <2>3. u[n + 1] = x
    BY <1>1, <2>1, <2>2
  <2>4. n \in Nat /\ Len(u) = n + 1
    BY <1>1, <2>1
  <2> QED BY <2>1, <2>3, <2>4
<1> HIDE DEF u, n
<1>4. \A p \in 1 .. n : Writes(u, p) <=> Writes(t, p)
  <2> SUFFICES ASSUME NEW p \in 1 .. n PROVE Writes(u, p) <=> Writes(t, p)
    OBVIOUS
  <2>1. p \in Nat /\ \A q \in 1 .. p : u[q] = t[q]
    BY <1>3
  <2> QED BY <2>1, WritesLooksBack
<1>5. Writes(u, n + 1) <=> x.id # "bos" /\ before
  <2>1. Writes(u, n + 1) <=>
          /\ x.id # "bos"
          /\ \E m \in 1 .. n : /\ u[m].id \in Opens
                               /\ \A k \in m + 1 .. n : u[k].id \notin Hands
    BY <1>3 DEF Writes, Opens
  <2>2. (\E m \in 1 .. n : /\ u[m].id \in Opens
                           /\ \A k \in m + 1 .. n : u[k].id \notin Hands) <=> Open(t)
    <3>1. \A m \in 1 .. n : \A k \in m + 1 .. n : u[k] = t[k]
      BY <1>3
    <3> QED BY <1>3, <3>1 DEF Open, n
  <2> QED BY <1>2, <2>1, <2>2
<1>6. MaskRight(u)
  <2> SUFFICES ASSUME NEW p \in 1 .. n + 1 PROVE u[p].scored <=> Writes(u, p)
    BY <1>3 DEF MaskRight
  <2>1. CASE p = n + 1
    BY <1>3, <1>5, <2>1
  <2>2. CASE p # n + 1
    <3>1. p \in 1 .. n
      BY <1>3, <2>2
    <3>2. t[p].scored <=> Writes(t, p)
      BY <1>2, <1>3, <3>1 DEF MaskRight
    <3> QED BY <1>3, <1>4, <3>1, <3>2
  <2> QED BY <2>1, <2>2
<1>7. Open(u) <=> after
  <2>1. CASE x.id \in Opens
    <3>1. n + 1 \in DOMAIN u /\ u[n + 1].id \in Opens /\ (n + 1) + 1 .. Len(u) = {}
      BY <1>3, <2>1
    <3> QED BY <2>1, <3>1 DEF Open
  <2>2. CASE x.id \in Hands /\ x.id \notin Opens
    <3>1. ASSUME NEW m \in DOMAIN u, u[m].id \in Opens PROVE \E k \in m + 1 .. Len(u) : u[k].id \in Hands
      <4>1. m # n + 1
        BY <1>3, <2>2, <3>1
      <4>2. n + 1 \in m + 1 .. Len(u)
        BY <1>3, <4>1
      <4> QED BY <1>3, <2>2, <4>2
    <3>2. ~Open(u)
      BY <3>1 DEF Open
    <3> QED BY <2>2, <3>2
  <2>3. CASE x.id \notin Hands /\ x.id \notin Opens
    <3>1. ASSUME Open(t) PROVE Open(u)
      <4>1. PICK m \in 1 .. n : t[m].id \in Opens /\ \A k \in m + 1 .. n : t[k].id \notin Hands
        BY <1>3, <3>1 DEF Open, n
      <4>2. ASSUME NEW k \in m + 1 .. n + 1 PROVE u[k].id \notin Hands
        <5>1. CASE k = n + 1
          BY <1>3, <2>3, <5>1
        <5>2. CASE k # n + 1
          <6>1. k \in m + 1 .. n /\ k \in 1 .. n
            BY <1>3, <5>2
          <6> QED BY <1>3, <4>1, <6>1
        <5> QED BY <5>1, <5>2
      <4>3. m \in DOMAIN u /\ u[m].id \in Opens
        BY <1>3, <4>1
      <4> QED BY <1>3, <4>2, <4>3 DEF Open
    <3>2. ASSUME Open(u) PROVE Open(t)
      <4>1. PICK m \in 1 .. n + 1 :
               u[m].id \in Opens /\ \A k \in m + 1 .. n + 1 : u[k].id \notin Hands
        BY <1>3, <3>2 DEF Open
      <4>2. m \in 1 .. n
        BY <1>3, <2>3, <4>1
      <4>3. \A k \in m + 1 .. n : k \in m + 1 .. n + 1 /\ k \in 1 .. n
        BY <1>3, <4>2
      <4> QED BY <1>3, <4>1, <4>2, <4>3 DEF Open, n
    <3> QED BY <1>2, <2>3, <3>1, <3>2
  <2>4. x.id \in Opens \/ x.id \in Hands \/ (x.id \notin Hands /\ x.id \notin Opens)
    OBVIOUS
  <2> QED BY <2>1, <2>2, <2>3, <2>4
<1> QED BY <1>6, <1>7 DEF u

(* Pieces in a row. *)
LEMMA MasksJoin ==
  ASSUME NEW u, NEW v, NEW a, NEW b, NEW c, Masks(u, a, b), Masks(v, b, c)
  PROVE  Masks(u \o v, a, c)
<1>1. u \in Seq(Tokens) /\ v \in Seq(Tokens) /\ u \o v \in Seq(Tokens)
  BY ConcatProperties DEF Masks
<1>2. SUFFICES ASSUME NEW t \in Seq(Tokens), MaskRight(t), Open(t) <=> a
               PROVE  MaskRight(t \o (u \o v)) /\ (Open(t \o (u \o v)) <=> c)
  BY <1>1 DEF Masks
<1>3. t \o (u \o v) = (t \o u) \o v
  BY <1>1, ConcatAssociative
<1>4. t \o u \in Seq(Tokens) /\ MaskRight(t \o u) /\ (Open(t \o u) <=> b)
  BY <1>1, <1>2, ConcatProperties DEF Masks
<1>5. MaskRight((t \o u) \o v) /\ (Open((t \o u) \o v) <=> c)
  BY <1>4 DEF Masks
<1> QED BY <1>3, <1>5

LEMMA MasksNothing ==
  ASSUME NEW b
  PROVE  Masks(<<>>, b, b)
<1>1. <<>> \in Seq(Tokens) /\ \A t \in Seq(Tokens) : t \o <<>> = t
  BY ConcatEmptySeq
<1> QED BY <1>1 DEF Masks

-----------------------------------------------------------------------------
(* The initial segments of the numbers are finite sets ordered as the      *)
(* numbers are, so a set of numbers has a least one.                       *)
LEMMA LeastNatural ==
  ASSUME NEW S, S \subseteq Nat, S # {}
  PROVE  \E m \in S : \A n \in S : m <= n
<1> DEFINE U == {0 .. n : n \in S}
<1>1. U \subseteq FiniteSubsetsOf(Nat) /\ U # {}
  <2>1. \A n \in S : 0 .. n \subseteq Nat /\ IsFiniteSet(0 .. n)
    BY FS_Interval
  <2> QED
    BY <2>1 DEF FiniteSubsetsOf
<1>2. IsWellFoundedOn(StrictSubsetOrdering(Nat), FiniteSubsetsOf(Nat))
  BY FS_StrictSubsetOrderingWellFounded
<1>3. PICK s \in U : \A t \in U : ~(<<t, s>> \in StrictSubsetOrdering(Nat))
  <2> HIDE DEF U
  <2> QED
    BY <1>1, <1>2, WFMin
<1>4. PICK m \in S : s = 0 .. m
  OBVIOUS
<1>5. ASSUME NEW n \in S, ~(m <= n) PROVE FALSE
  <2>1. n \in Nat /\ m \in Nat /\ n < m
    BY <1>5
  <2>2. 0 .. n \subseteq 0 .. m /\ m \in 0 .. m /\ m \notin 0 .. n
    BY <2>1
  <2>3. 0 .. n \in U /\ 0 .. n # 0 .. m /\ 0 .. n \subseteq Nat /\ 0 .. m \subseteq Nat
    BY <2>1, <2>2
  <2>4. <<0 .. n, 0 .. m>> \in StrictSubsetOrdering(Nat)
    BY <2>2, <2>3 DEF StrictSubsetOrdering
  <2> QED
    BY <1>3, <1>4, <2>3, <2>4
<1> QED
  BY <1>5

(* What holds at zero, and at a number if at the one before it, holds at   *)
(* all of them.                                                            *)
LEMMA CountUp ==
  ASSUME NEW S, NEW n \in Nat, 0 \in S,
         \A k \in 0 .. n - 1 : k \in S => k + 1 \in S
  PROVE  \A k \in 0 .. n : k \in S
<1> DEFINE Missed == {k \in 0 .. n : k \notin S}
<1> SUFFICES ASSUME Missed # {} PROVE FALSE
  OBVIOUS
<1>1. Missed \subseteq Nat
  OBVIOUS
<1>2. PICK k \in Missed : \A j \in Missed : k <= j
  <2> HIDE DEF Missed
  <2> QED BY <1>1, LeastNatural
<1>3. k - 1 \in 0 .. n - 1
  BY <1>2
<1>4. k - 1 \in Missed
  BY <1>2, <1>3
<1> QED BY <1>2, <1>4

Joined(q) ==
  CHOOSE f : f = [i \in 1 .. Len(q) |-> IF i = 1 THEN q[i] ELSE f[i - 1] \o q[i]]

LEMMA JoinedExists ==
  ASSUME NEW q, Len(q) \in Nat
  PROVE  Joined(q) = [i \in 1 .. Len(q) |->
                        IF i = 1 THEN q[i] ELSE Joined(q)[i - 1] \o q[i]]
<1> DEFINE Def(f, n) == f = [i \in 1 .. n |-> IF i = 1 THEN q[i] ELSE f[i - 1] \o q[i]]
           S == {n \in Nat : \E f : Def(f, n)}
<1>1. 0 \in S
  <2>1. Def([i \in 1 .. 0 |-> q[i]], 0)
    OBVIOUS
  <2> HIDE DEF Def
  <2>2. \E f : Def(f, 0)
    BY <2>1
  <2> QED BY <2>2
<1>2. ASSUME NEW n \in Nat, n \in S PROVE n + 1 \in S
  <2>1. PICK f : Def(f, n)
    BY <1>2
  <2> DEFINE g == [i \in 1 .. n + 1 |->
                     IF i = n + 1 THEN (IF i = 1 THEN q[i] ELSE f[n] \o q[i]) ELSE f[i]]
  <2>2. ASSUME NEW i \in 1 .. n + 1
        PROVE  g[i] = IF i = 1 THEN q[i] ELSE g[i - 1] \o q[i]
    <3>1. CASE i = n + 1
      <4>1. g[i] = IF i = 1 THEN q[i] ELSE f[n] \o q[i]
        BY <3>1
      <4>2. i # 1 => i - 1 = n /\ n \in 1 .. n + 1 /\ n # n + 1
        BY <3>1
      <4>3. i # 1 => g[i - 1] = f[n]
        BY <4>2
      <4> QED BY <4>1, <4>3
    <3>2. CASE i # n + 1
      <4>1. i \in 1 .. n /\ g[i] = f[i]
        BY <3>2
      <4>2. i # 1 => i - 1 \in 1 .. n + 1 /\ i - 1 # n + 1
        BY <4>1
      <4>3. i # 1 => g[i - 1] = f[i - 1]
        BY <4>2
      <4> QED BY <2>1, <4>1, <4>3
    <3> QED BY <3>1, <3>2
  <2>3. Def(g, n + 1)
    <3>1. g = [i \in 1 .. n + 1 |-> g[i]]
      OBVIOUS
    <3> HIDE DEF g
    <3> QED BY <2>2, <3>1
  <2> HIDE DEF g, Def
  <2>4. \E f1 : Def(f1, n + 1)
    BY <2>3
  <2> QED BY <2>4
<1> HIDE DEF Def
<1>3. \E f : Def(f, Len(q))
  <2> HIDE DEF S
  <2>1. PICK n \in Nat : n = Len(q)
    OBVIOUS
  <2>2. \A k \in 0 .. n - 1 : k \in S => k + 1 \in S
    BY <1>2
  <2>3. n \in 0 .. n
    BY <2>1
  <2>4. n \in S
    BY <1>1, <2>1, <2>2, <2>3, CountUp
  <2> QED BY <2>1, <2>4 DEF S
<1>4. Joined(q) = CHOOSE f : Def(f, Len(q))
  BY DEF Joined, Def
<1>5. Def(Joined(q), Len(q))
  BY <1>3, <1>4
<1> QED BY <1>5 DEF Def

LEMMA FlattenIsJoined ==
  ASSUME NEW q, Len(q) # 0
  PROVE  FlattenSeq(q) = Joined(q)[Len(q)]
BY DEF FlattenSeq, Joined

LEMMA FlattenAppend ==
  ASSUME NEW S, NEW q \in Seq(Seq(S)), NEW s \in Seq(S)
  PROVE  /\ FlattenSeq(q) \in Seq(S)
         /\ FlattenSeq(Append(q, s)) = FlattenSeq(q) \o s
<1> DEFINE n == Len(q)  longer == Append(q, s)
<1>1. /\ n \in Nat /\ Len(longer) = n + 1 /\ longer[n + 1] = s
      /\ \A i \in 1 .. n : longer[i] = q[i] /\ q[i] \in Seq(S)
  BY AppendProperties, LenProperties, ElementOfSeq
<1> HIDE DEF n, longer
<1>2. /\ Joined(q) = [i \in 1 .. n |-> IF i = 1 THEN q[i] ELSE Joined(q)[i - 1] \o q[i]]
      /\ Joined(longer) = [i \in 1 .. n + 1 |->
                             IF i = 1 THEN longer[i] ELSE Joined(longer)[i - 1] \o longer[i]]
  <2>1. Joined(q) = [i \in 1 .. n |-> IF i = 1 THEN q[i] ELSE Joined(q)[i - 1] \o q[i]]
    BY <1>1, JoinedExists DEF n
  <2>2. Len(longer) \in Nat
    BY <1>1
  <2>3. Joined(longer) = [i \in 1 .. Len(longer) |->
                            IF i = 1 THEN longer[i] ELSE Joined(longer)[i - 1] \o longer[i]]
    BY <2>2, JoinedExists
  <2> QED BY <1>1, <2>1, <2>3
<1>3. CASE n = 0
  <2>1. q = <<>>
    BY <1>3, EmptySeq DEF n
  <2>2. FlattenSeq(q) = q
    BY <1>3 DEF FlattenSeq, n
  <2>3. FlattenSeq(longer) = Joined(longer)[1]
    <3>1. Len(longer) = 1
      BY <1>1, <1>3
    <3>2. FlattenSeq(longer) = Joined(longer)[Len(longer)]
      <4>1. Len(longer) # 0
        BY <3>1
      <4> QED BY <4>1, FlattenIsJoined
    <3> QED BY <3>1, <3>2
  <2>4. Joined(longer)[1] = s
    BY <1>1, <1>2, <1>3
  <2>5. FlattenSeq(q) \in Seq(S) /\ FlattenSeq(q) \o s = s
    <3>1. <<>> \in Seq(S) /\ <<>> \o s = s
      BY ConcatEmptySeq
    <3>2. FlattenSeq(q) = <<>>
      BY <2>1, <2>2
    <3> QED BY <3>1, <3>2
  <2>6. FlattenSeq(longer) = FlattenSeq(q) \o s
    BY <2>3, <2>4, <2>5
  <2> QED BY <2>5, <2>6 DEF longer
<1>4. CASE n # 0
  <2> DEFINE Same(i) == i \in 1 .. n => /\ Joined(longer)[i] = Joined(q)[i]
                                        /\ Joined(q)[i] \in Seq(S)
             I == {i \in 0 .. n : Same(i)}
  <2>1. 0 \in I
    BY <1>1
  <2>2. ASSUME NEW i \in 0 .. n - 1, i \in I PROVE i + 1 \in I
    <3>1. i + 1 \in 1 .. n /\ i + 1 \in 1 .. n + 1
      BY <1>1
    <3>2. CASE i = 0
      BY <1>1, <1>2, <3>1, <3>2
    <3>3. CASE i # 0
      <4>1. i \in 1 .. n /\ (i + 1) - 1 = i /\ i + 1 # 1
        BY <1>1, <3>3
      <4>2. /\ Joined(longer)[i + 1] = Joined(longer)[i] \o longer[i + 1]
            /\ Joined(q)[i + 1] = Joined(q)[i] \o q[i + 1]
        BY <1>2, <3>1, <4>1
      <4>3. Joined(longer)[i] = Joined(q)[i] /\ Joined(q)[i] \in Seq(S)
        BY <2>2, <4>1
      <4>4. longer[i + 1] = q[i + 1] /\ q[i + 1] \in Seq(S)
        BY <1>1, <3>1
      <4>5. Joined(q)[i + 1] \in Seq(S)
        BY <4>2, <4>3, <4>4, ConcatProperties
      <4>6. Joined(longer)[i + 1] = Joined(q)[i + 1]
        BY <4>2, <4>3, <4>4
      <4> QED BY <1>1, <3>1, <4>5, <4>6
    <3> QED BY <3>2, <3>3
  <2> HIDE DEF I
  <2>3. n \in I
    <3>1. n \in Nat /\ n \in 0 .. n
      BY <1>1
    <3>2. \A i \in 0 .. n : i \in I
      BY <2>1, <2>2, <3>1, CountUp
    <3> QED BY <3>1, <3>2
  <2>4. Joined(longer)[n] = Joined(q)[n] /\ Joined(q)[n] \in Seq(S)
    BY <1>1, <1>4, <2>3 DEF I
  <2>5. Joined(longer)[n + 1] = Joined(longer)[n] \o longer[n + 1]
    <3>1. n + 1 \in 1 .. n + 1 /\ (n + 1) - 1 = n /\ n + 1 # 1
      BY <1>1, <1>4
    <3> QED BY <1>2, <3>1
  <2>6. FlattenSeq(q) = Joined(q)[n]
    BY <1>4, FlattenIsJoined DEF n
  <2>7. FlattenSeq(longer) = Joined(longer)[n + 1]
    BY <1>1, FlattenIsJoined
  <2>8. FlattenSeq(longer) = FlattenSeq(q) \o s
    BY <1>1, <2>4, <2>5, <2>6, <2>7
  <2> QED BY <2>4, <2>6, <2>8 DEF longer
<1> QED BY <1>3, <1>4

(* What holds of the empty sequence, and of a sequence with one more       *)
(* element if of the sequence, holds of all of them.                       *)
LEMMA SeqGrows ==
  ASSUME NEW S, NEW G, <<>> \in G,
         \A s \in Seq(S), e \in S : s \in G => Append(s, e) \in G
  PROVE  Seq(S) \subseteq G
<1> DEFINE J == {k \in Nat : \A s \in Seq(S) : Len(s) = k => s \in G}
<1>1. 0 \in J
  <2>1. \A s \in Seq(S) : Len(s) = 0 => s = <<>>
    BY EmptySeq
  <2> QED BY <2>1
<1>2. ASSUME NEW k \in Nat, k \in J PROVE k + 1 \in J
  <2> SUFFICES ASSUME NEW t \in Seq(S), Len(t) = k + 1 PROVE t \in G
    OBVIOUS
  <2>1. t # <<>>
    BY EmptySeq
  <2>2. PICK s \in Seq(S), e \in S : t = Append(s, e)
    BY <2>1, SequenceEmptyOrAppend
  <2>3. Len(t) = Len(s) + 1 /\ Len(s) \in Nat
    BY <2>2, AppendProperties, LenProperties
  <2>4. Len(s) = k
    BY <2>3
  <2> QED BY <1>2, <2>2, <2>4
<1> SUFFICES ASSUME NEW s \in Seq(S) PROVE s \in G
  OBVIOUS
<1>3. PICK n \in Nat : n = Len(s)
  BY LenProperties
<1> HIDE DEF J
<1>4. \A k \in 0 .. n - 1 : k \in J => k + 1 \in J
  BY <1>2
<1>5. n \in 0 .. n
  OBVIOUS
<1>6. n \in J
  BY <1>1, <1>4, <1>5, CountUp
<1> QED BY <1>3, <1>6 DEF J

(* Every element replaced by a sequence, and these joined. *)
FlatMap(f, s) == FlattenSeq([i \in DOMAIN s |-> f[s[i]]])

Expands(f, S, R) == f \in [S -> Seq(R)]

LEMMA FlatMapEmpty ==
  ASSUME NEW f
  PROVE  FlatMap(f, <<>>) = <<>>
<1> DEFINE q == [i \in DOMAIN <<>> |-> f[<<>>[i]]]
<1>1. q = <<>>
  OBVIOUS
<1>2. FlattenSeq(<<>>) = <<>>
  BY DEF FlattenSeq
<1> QED BY <1>1, <1>2 DEF FlatMap

LEMMA FlatMapAppend ==
  ASSUME NEW S, NEW R, NEW f, Expands(f, S, R), NEW s \in Seq(S), NEW e \in S
  PROVE  /\ FlatMap(f, s) \in Seq(R)
         /\ FlatMap(f, Append(s, e)) = FlatMap(f, s) \o f[e]
<1> DEFINE longer == Append(s, e)
           q == [i \in DOMAIN s |-> f[s[i]]]
           g == [i \in DOMAIN longer |-> f[longer[i]]]
           n == Len(s)
<1>1. n \in Nat /\ DOMAIN s = 1 .. n /\ \A k \in 1 .. n : s[k] \in S
  BY LenProperties, ElementOfSeq
<1>2. /\ longer \in Seq(S) /\ DOMAIN longer = 1 .. n + 1 /\ longer[n + 1] = e
      /\ \A k \in 1 .. n : longer[k] = s[k]
  BY <1>1, AppendProperties, LenProperties
<1> HIDE DEF longer, n
<1>3. q \in [1 .. n -> Seq(R)] /\ g \in [1 .. n + 1 -> Seq(R)]
  <2>1. \A k \in 1 .. n + 1 : longer[k] \in S
    BY <1>1, <1>2
  <2> QED BY <1>1, <1>2, <2>1 DEF Expands
<1>4. q \in Seq(Seq(R)) /\ Len(q) = n /\ g \in Seq(Seq(R)) /\ Len(g) = n + 1
  <2> HIDE DEF q, g
  <2>1. n \in Nat /\ n + 1 \in Nat
    BY <1>1
  <2> QED BY <1>3, <2>1, SeqDef, LenProperties
<1>5. \A k \in 1 .. n : g[k] = q[k]
  BY <1>1, <1>2
<1>6. g[n + 1] = f[e]
  BY <1>1, <1>2
<1> HIDE DEF q, g
<1>7. f[e] \in Seq(R)
  BY DEF Expands
<1>8. g = Append(q, f[e])
  <2> DEFINE h == Append(q, f[e])
  <2>1. h \in Seq(Seq(R)) /\ Len(h) = n + 1 /\ h[n + 1] = f[e]
        /\ \A k \in 1 .. n : h[k] = q[k]
    BY <1>4, <1>7, AppendProperties
  <2> HIDE DEF h
  <2>2. \A k \in 1 .. n + 1 : g[k] = h[k]
    BY <1>1, <1>5, <1>6, <2>1
  <2>3. g = h
    BY <1>4, <2>1, <2>2, SeqEqual
  <2> QED BY <2>3 DEF h
<1>9. FlattenSeq(q) \in Seq(R) /\ FlattenSeq(Append(q, f[e])) = FlattenSeq(q) \o f[e]
  BY <1>4, <1>7, FlattenAppend
<1> QED BY <1>8, <1>9 DEF FlatMap, q, g, longer

LEMMA FlatMapIsSeq ==
  ASSUME NEW S, NEW R, NEW f, Expands(f, S, R), NEW s \in Seq(S)
  PROVE  FlatMap(f, s) \in Seq(R)
<1> DEFINE G == {u \in Seq(S) : FlatMap(f, u) \in Seq(R)}
<1>1. <<>> \in G
  BY FlatMapEmpty, EmptySeq
<1>2. \A u \in Seq(S), e \in S : u \in G => Append(u, e) \in G
  <2> SUFFICES ASSUME NEW u \in Seq(S), NEW e \in S, u \in G PROVE Append(u, e) \in G
    OBVIOUS
  <2>1. f[e] \in Seq(R)
    BY DEF Expands
  <2> HIDE DEF G
  <2>2. /\ FlatMap(f, u) \in Seq(R)
        /\ FlatMap(f, Append(u, e)) = FlatMap(f, u) \o f[e]
    BY FlatMapAppend
  <2>3. FlatMap(f, Append(u, e)) \in Seq(R)
    BY <2>1, <2>2, ConcatProperties
  <2> QED BY <2>3, AppendProperties DEF G
<1> HIDE DEF G
<1>3. Seq(S) \subseteq G
  BY <1>1, <1>2, SeqGrows
<1> QED BY <1>3 DEF G

-----------------------------------------------------------------------------
(* Texts. *)

LEMMA OneEncoded ==
  ASSUME NEW id \in Ids, NEW b \in BOOLEAN
  PROVE  Push(id, b) = <<[id |-> id, scored |-> b]>> /\ [id |-> id, scored |-> b] \in Tokens
BY DEF Push, Tokens

LEMMA EncodedMasks ==
  ASSUME NEW id \in Ids \ Hands, NEW n \in Nat, NEW b \in BOOLEAN
  PROVE  Masks(Encoded(id, n, b), b, b)
<1> DEFINE x == [id |-> id, scored |-> b]
           I == {k \in Nat : Masks(Encoded(id, k, b), b, b)}
<1>1. x \in Tokens /\ x.id = id /\ x.scored = b
  BY DEF Tokens
<1>2. id # "bos" /\ id \notin Opens
  BY DEF Hands, Opens
<1> HIDE DEF x
<1>3. \A k \in Nat : Encoded(id, k, b) \in Seq(Tokens) /\ Len(Encoded(id, k, b)) = k
                     /\ \A i \in 1 .. k : Encoded(id, k, b)[i] = x
  <2> SUFFICES ASSUME NEW k \in Nat
               PROVE  Encoded(id, k, b) \in Seq(Tokens) /\ Len(Encoded(id, k, b)) = k
                      /\ \A i \in 1 .. k : Encoded(id, k, b)[i] = x
    OBVIOUS
  <2>1. Encoded(id, k, b) = [i \in 1 .. k |-> x]
    BY DEF Encoded, x
  <2>2. [i \in 1 .. k |-> x] \in [1 .. k -> Tokens]
    BY <1>1
  <2>3. [i \in 1 .. k |-> x] \in Seq(Tokens) /\ Len([i \in 1 .. k |-> x]) = k
    BY <2>2, SeqDef, LenProperties
  <2> QED BY <2>1, <2>3
<1>4. 0 \in I
  <2>1. Encoded(id, 0, b) = <<>>
    BY <1>3, EmptySeq
  <2> QED BY <2>1, MasksNothing
<1>5. ASSUME NEW k \in 0 .. n - 1, k \in I PROVE k + 1 \in I
  <2> DEFINE e == Encoded(id, k, b)  e1 == Encoded(id, k + 1, b)
  <2>1. /\ k \in Nat /\ k + 1 \in Nat
        /\ e \in Seq(Tokens) /\ Len(e) = k /\ \A i \in 1 .. k : e[i] = x
        /\ e1 \in Seq(Tokens) /\ Len(e1) = k + 1 /\ \A i \in 1 .. k + 1 : e1[i] = x
    <3>1. k \in Nat /\ k + 1 \in Nat
      OBVIOUS
    <3> HIDE DEF I
    <3> QED BY <1>3, <3>1
  <2>2. Masks(e, b, b)
    BY <1>5
  <2> HIDE DEF e, e1, I
  <2>3. /\ Append(e, x) \in Seq(Tokens) /\ Len(Append(e, x)) = k + 1
        /\ Append(e, x)[k + 1] = x /\ \A i \in 1 .. k : Append(e, x)[i] = e[i]
    BY <1>1, <2>1, AppendProperties
  <2>4. \A i \in 1 .. k + 1 : e1[i] = Append(e, x)[i]
    BY <2>1, <2>3
  <2>5. e1 = Append(e, x)
    BY <2>1, <2>3, <2>4, SeqEqual
  <2>6. e1 = e \o <<x>>
    BY <1>1, <2>1, <2>5, AppendIsConcat
  <2>7. Masks(<<x>>, b, b)
    <3>1. id \notin Hands
      OBVIOUS
    <3> QED BY <1>1, <1>2, <3>1, OneToken
  <2>8. Masks(e1, b, b)
    BY <2>2, <2>6, <2>7, MasksJoin
  <2> QED BY <2>1, <2>8 DEF I, e1
<1> HIDE DEF I
<1>6. n \in 0 .. n
  OBVIOUS
<1>7. n \in I
  BY <1>4, <1>5, <1>6, CountUp
<1> QED BY <1>7 DEF I

(* A delimiter. *)
LEMMA PushMasks ==
  ASSUME NEW id \in Ids, NEW scored \in BOOLEAN, NEW before \in BOOLEAN, NEW after \in BOOLEAN,
         scored <=> id # "bos" /\ before,
         after <=> id \in Opens \/ (id \notin Hands /\ before)
  PROVE  Masks(Push(id, scored), before, after)
<1> DEFINE x == [id |-> id, scored |-> scored]
<1>1. x \in Tokens /\ x.id = id /\ x.scored = scored /\ Push(id, scored) = <<x>>
  BY DEF Tokens, Push
<1> HIDE DEF x
<1>2. Masks(<<x>>, before, after)
  BY <1>1, OneToken
<1> QED BY <1>1, <1>2

(* The turns.  A user turn is never the model's; a tool call is, its       *)
(* output is not, and hands the turn back.                                 *)

LEMMA UserTurnMasks ==
  ASSUME NEW n \in Nat
  PROVE  Masks(UserTurn(n), FALSE, FALSE)
<1> DEFINE a == Push("user_start", FALSE)  b == Encoded("user", n, FALSE)  c == Push("user_end", FALSE)
<1>1. Masks(a, FALSE, FALSE)
  <2>1. "user_start" \in Ids /\ "user_start" \notin Opens
    BY DEF Ids, Opens
  <2> QED BY <2>1, PushMasks
<1>2. Masks(b, FALSE, FALSE)
  <2>1. "user" \in Ids \ Hands
    BY DEF Ids, Hands
  <2> QED BY <2>1, EncodedMasks
<1>3. Masks(c, FALSE, FALSE)
  <2>1. "user_end" \in Ids /\ "user_end" \notin Opens
    BY DEF Ids, Opens
  <2> QED BY <2>1, PushMasks
<1>4. UserTurn(n) = (a \o b) \o c
  BY DEF UserTurn
<1> HIDE DEF a, b, c
<1>5. Masks(a \o b, FALSE, FALSE)
  BY <1>1, <1>2, MasksJoin
<1>6. Masks((a \o b) \o c, FALSE, FALSE)
  BY <1>3, <1>5, MasksJoin
<1> QED BY <1>4, <1>6

LEMMA ReplyTextMasks ==
  ASSUME NEW n \in Nat
  PROVE  Masks(Encoded("reply", n, TRUE), TRUE, TRUE)
<1>1. "reply" \in Ids \ Hands
  BY DEF Ids, Hands
<1> QED BY <1>1, EncodedMasks

LEMMA OutputMasks ==
  ASSUME NEW n \in Nat
  PROVE  Masks(Output(n), FALSE, TRUE)
<1> DEFINE a == Push("output_start", FALSE)  b == Encoded("output", n, FALSE)
           c == Push("output_end", FALSE)
<1>1. Masks(a, FALSE, FALSE)
  <2>1. "output_start" \in Ids /\ "output_start" \notin Opens
    BY DEF Ids, Opens
  <2> QED BY <2>1, PushMasks
<1>2. Masks(b, FALSE, FALSE)
  <2>1. "output" \in Ids \ Hands
    BY DEF Ids, Hands
  <2> QED BY <2>1, EncodedMasks
<1>3. Masks(c, FALSE, TRUE)
  <2>1. "output_end" \in Ids /\ "output_end" \in Opens
    BY DEF Ids, Opens
  <2> QED BY <2>1, PushMasks
<1>4. Output(n) = (a \o b) \o c
  BY DEF Output
<1> HIDE DEF a, b, c
<1>5. Masks(a \o b, FALSE, FALSE)
  BY <1>1, <1>2, MasksJoin
<1>6. Masks((a \o b) \o c, FALSE, TRUE)
  BY <1>3, <1>5, MasksJoin
<1> QED BY <1>4, <1>6

Python(n) ==
  Push("python_start", TRUE) \o Encoded("python", n, TRUE) \o Push("python_end", TRUE)

LEMMA PythonMasks ==
  ASSUME NEW n \in Nat
  PROVE  Masks(Python(n), TRUE, FALSE)
<1> DEFINE a == Push("python_start", TRUE)  b == Encoded("python", n, TRUE)
           c == Push("python_end", TRUE)
<1>1. Masks(a, TRUE, TRUE)
  <2>1. "python_start" \in Ids /\ "python_start" \notin Hands /\ "python_start" # "bos"
    BY DEF Ids, Hands
  <2> QED BY <2>1, PushMasks
<1>2. Masks(b, TRUE, TRUE)
  <2>1. "python" \in Ids \ Hands
    BY DEF Ids, Hands
  <2> QED BY <2>1, EncodedMasks
<1>3. Masks(c, TRUE, FALSE)
  <2>1. /\ "python_end" \in Ids /\ "python_end" \in Hands /\ "python_end" # "bos"
        /\ "python_end" \notin Opens
    BY DEF Ids, Hands, Opens
  <2> QED BY <2>1, PushMasks
<1>4. Python(n) = (a \o b) \o c
  BY DEF Python
<1> HIDE DEF a, b, c
<1>5. Masks(a \o b, TRUE, TRUE)
  BY <1>1, <1>2, MasksJoin
<1>6. Masks((a \o b) \o c, TRUE, FALSE)
  BY <1>3, <1>5, MasksJoin
<1> QED BY <1>4, <1>6

-----------------------------------------------------------------------------
(* The parts of an answer, as split_answer makes them. *)

Pieces == [kind : {"text", "python", "output"}, n : Nat]
PieceOf == [x \in Pieces |-> PartTokens(x)]
SplitOf == [x \in Segments |-> SegmentParts(x)]

LEMMA PieceMasks ==
  ASSUME NEW x \in Pieces
  PROVE  /\ x.kind = "text"   => Masks(PartTokens(x), TRUE, TRUE)
         /\ x.kind = "python" => Masks(PartTokens(x), TRUE, FALSE)
         /\ x.kind = "output" => Masks(PartTokens(x), FALSE, TRUE)
         /\ PartTokens(x) \in Seq(Tokens)
<1>1. x.n \in Nat /\ x.kind \in {"text", "python", "output"}
  BY DEF Pieces
<1>2. /\ x.kind = "text"   => PartTokens(x) = Encoded("reply", x.n, TRUE)
      /\ x.kind = "python" => PartTokens(x) = Python(x.n)
      /\ x.kind = "output" => PartTokens(x) = Output(x.n)
  BY <1>1 DEF PartTokens, Python
<1>3. /\ x.kind = "text"   => Masks(PartTokens(x), TRUE, TRUE)
      /\ x.kind = "python" => Masks(PartTokens(x), TRUE, FALSE)
      /\ x.kind = "output" => Masks(PartTokens(x), FALSE, TRUE)
  BY <1>1, <1>2, ReplyTextMasks, PythonMasks, OutputMasks
<1>4. PartTokens(x) \in Seq(Tokens)
  BY <1>1, <1>3 DEF Masks
<1> QED BY <1>3, <1>4

LEMMA PieceExpands == Expands(PieceOf, Pieces, Tokens)
BY PieceMasks DEF Expands, PieceOf

LEMMA SegmentPieces ==
  ASSUME NEW e \in Segments
  PROVE  /\ SegmentParts(e) \in Seq(Pieces)
         /\ \/ SegmentParts(e) = <<>>
            \/ \E x \in Pieces : x.kind = "text" /\ SegmentParts(e) = <<x>>
            \/ \E x, y \in Pieces : x.kind = "python" /\ y.kind = "output" /\ SegmentParts(e) = <<x, y>>
<1>1. CASE e.kind = "text"
  <2>1. e \in [kind : {"text"}, n : Nat]
    BY <1>1 DEF Segments
  <2>2. e \in Pieces /\ e.kind = "text"
    BY <2>1 DEF Pieces
  <2>3. SegmentParts(e) = IF e.n = 0 THEN <<>> ELSE <<e>>
    BY <1>1 DEF SegmentParts
  <2>4. <<>> \in Seq(Pieces) /\ <<e>> \in Seq(Pieces)
    BY <2>2
  <2> QED BY <2>2, <2>3, <2>4
<1>2. CASE e.kind # "text"
  <2>1. e.expr \in Nat /\ e.result \in Nat
    BY <1>2 DEF Segments
  <2> DEFINE x == [kind |-> "python", n |-> e.expr]
             y == [kind |-> "output", n |-> e.result]
  <2>2. x \in Pieces /\ y \in Pieces /\ x.kind = "python" /\ y.kind = "output"
    BY <2>1 DEF Pieces
  <2>3. SegmentParts(e) = <<x, y>>
    BY <1>2 DEF SegmentParts
  <2> HIDE DEF x, y
  <2>4. <<x, y>> \in Seq(Pieces)
    BY <2>2
  <2> QED BY <2>2, <2>3, <2>4
<1> QED BY <1>1, <1>2

LEMMA SplitExpands == Expands(SplitOf, Segments, Pieces)
BY SegmentPieces DEF Expands, SplitOf

LEMMA SplitIsFlatMap ==
  ASSUME NEW s \in Seq(Segments)
  PROVE  SplitAnswer(s) = FlatMap(SplitOf, s)
<1>1. \A i \in DOMAIN s : s[i] \in Segments
  BY LenProperties, ElementOfSeq
<1>2. [i \in DOMAIN s |-> SegmentParts(s[i])] = [i \in DOMAIN s |-> SplitOf[s[i]]]
  BY <1>1 DEF SplitOf
<1> QED BY <1>2 DEF SplitAnswer, FlatMap

(* What is written of a whole answer: between two calls it is the model's  *)
(* to write. *)
Written(ps) == FlatMap(PieceOf, ps)

LEMMA WrittenAppend ==
  ASSUME NEW ps \in Seq(Pieces), NEW x \in Pieces
  PROVE  Append(ps, x) \in Seq(Pieces) /\ Written(Append(ps, x)) = Written(ps) \o PartTokens(x)
<1>1. Written(Append(ps, x)) = Written(ps) \o PieceOf[x]
  BY PieceExpands, FlatMapAppend DEF Written
<1>2. PieceOf[x] = PartTokens(x)
  BY DEF PieceOf
<1> QED BY <1>1, <1>2, AppendProperties

LEMMA PairAppend ==
  ASSUME NEW S, NEW x \in S, NEW y \in S
  PROVE  Append(<<x>>, y) = <<x, y>>
<1> DEFINE s == Append(<<x>>, y)  t == <<x, y>>
<1>1. t \in Seq(S) /\ Len(t) = 2 /\ t[1] = x /\ t[2] = y
  OBVIOUS
<1>2. s \in Seq(S) /\ Len(s) = 2 /\ s[1] = x /\ s[2] = y
  <2>1. <<x>> \in Seq(S) /\ Len(<<x>>) = 1 /\ <<x>>[1] = x
    OBVIOUS
  <2>2. /\ s \in Seq(S) /\ Len(s) = Len(<<x>>) + 1 /\ s[Len(<<x>>) + 1] = y
        /\ \A i \in 1 .. Len(<<x>>) : s[i] = <<x>>[i]
    BY <2>1, AppendProperties
  <2> QED BY <2>1, <2>2
<1> HIDE DEF s, t
<1>3. \A i \in 1 .. 2 : s[i] = t[i]
  <2> SUFFICES ASSUME NEW i \in 1 .. 2 PROVE s[i] = t[i]
    OBVIOUS
  <2>1. i = 1 \/ i = 2
    OBVIOUS
  <2> QED BY <1>1, <1>2, <2>1
<1>4. s = t
  BY <1>1, <1>2, <1>3, SeqEqual
<1> QED BY <1>4 DEF s, t

LEMMA AnswerMasks ==
  ASSUME NEW s \in Seq(Segments)
  PROVE  SplitAnswer(s) \in Seq(Pieces) /\ Masks(Written(SplitAnswer(s)), TRUE, TRUE)
<1> DEFINE G == {u \in Seq(Segments) : Masks(Written(FlatMap(SplitOf, u)), TRUE, TRUE)}
<1>1. <<>> \in G
  BY FlatMapEmpty, EmptySeq, MasksNothing DEF Written
<1>2. ASSUME NEW u \in Seq(Segments), NEW e \in Segments, u \in G PROVE Append(u, e) \in G
  <2> DEFINE ps == FlatMap(SplitOf, u)
  <2>1. Masks(Written(ps), TRUE, TRUE)
    BY <1>2
  <2>2. ps \in Seq(Pieces) /\ FlatMap(SplitOf, Append(u, e)) = ps \o SplitOf[e]
    BY SplitExpands, FlatMapAppend
  <2>3. SplitOf[e] = SegmentParts(e)
    BY DEF SplitOf
  <2> HIDE DEF ps, G
  <2>4. Masks(Written(ps \o SegmentParts(e)), TRUE, TRUE)
    <3>1. CASE SegmentParts(e) = <<>>
      <4>1. ps \o <<>> = ps
        BY <2>2, ConcatEmptySeq
      <4> QED BY <2>1, <3>1, <4>1
    <3>2. ASSUME NEW x \in Pieces, x.kind = "text", SegmentParts(e) = <<x>>
          PROVE  Masks(Written(ps \o SegmentParts(e)), TRUE, TRUE)
      <4>1. ps \o <<x>> = Append(ps, x)
        BY <2>2, AppendIsConcat
      <4>2. Written(Append(ps, x)) = Written(ps) \o PartTokens(x)
        BY <2>2, WrittenAppend
      <4>3. Masks(PartTokens(x), TRUE, TRUE)
        BY <3>2, PieceMasks
      <4>4. Masks(Written(ps) \o PartTokens(x), TRUE, TRUE)
        BY <2>1, <4>3, MasksJoin
      <4> QED BY <3>2, <4>1, <4>2, <4>4
    <3>3. ASSUME NEW x \in Pieces, NEW y \in Pieces, x.kind = "python", y.kind = "output",
                 SegmentParts(e) = <<x, y>>
          PROVE  Masks(Written(ps \o SegmentParts(e)), TRUE, TRUE)
      <4>1. ps \o <<x, y>> = Append(Append(ps, x), y)
        <5>1. <<x, y>> = <<x>> \o <<y>> /\ <<x>> \in Seq(Pieces) /\ <<y>> \in Seq(Pieces)
          <6>1. <<x>> \in Seq(Pieces) /\ <<y>> \in Seq(Pieces)
            OBVIOUS
          <6>2. Append(<<x>>, y) = <<x, y>>
            BY PairAppend
          <6>3. Append(<<x>>, y) = <<x>> \o <<y>>
            BY <6>1, AppendIsConcat
          <6> QED BY <6>1, <6>2, <6>3
        <5>2. ps \o (<<x>> \o <<y>>) = (ps \o <<x>>) \o <<y>>
          BY <2>2, <5>1, ConcatAssociative
        <5>3. ps \o <<x>> = Append(ps, x) /\ Append(ps, x) \in Seq(Pieces)
          BY <2>2, AppendIsConcat, AppendProperties
        <5>4. Append(ps, x) \o <<y>> = Append(Append(ps, x), y)
          BY <5>3, AppendIsConcat
        <5> QED BY <5>1, <5>2, <5>3, <5>4
      <4>2. /\ Written(Append(ps, x)) = Written(ps) \o PartTokens(x)
            /\ Append(ps, x) \in Seq(Pieces)
        BY <2>2, WrittenAppend
      <4>3. Written(Append(Append(ps, x), y)) = Written(Append(ps, x)) \o PartTokens(y)
        BY <4>2, WrittenAppend
      <4>4. Masks(PartTokens(x), TRUE, FALSE) /\ Masks(PartTokens(y), FALSE, TRUE)
        BY <3>3, PieceMasks
      <4>5. Masks(Written(ps) \o PartTokens(x), TRUE, FALSE)
        BY <2>1, <4>4, MasksJoin
      <4>6. Masks(Written(Append(ps, x)) \o PartTokens(y), TRUE, TRUE)
        BY <4>2, <4>4, <4>5, MasksJoin
      <4> QED BY <3>3, <4>1, <4>3, <4>6
    <3> QED BY <3>1, <3>2, <3>3, SegmentPieces
  <2>5. Append(u, e) \in Seq(Segments)
    BY AppendProperties
  <2> QED BY <2>2, <2>3, <2>4, <2>5 DEF G
<1> HIDE DEF G
<1>3. s \in G
  BY <1>1, <1>2, SeqGrows
<1>4. SplitAnswer(s) = FlatMap(SplitOf, s)
  BY SplitIsFlatMap
<1>5. FlatMap(SplitOf, s) \in Seq(Pieces)
  BY SplitExpands, FlatMapIsSeq
<1> QED BY <1>3, <1>4, <1>5 DEF G

(* Messages: what the parsers put into a conversation. *)

Contents == [kind : {"text"}, n : Nat] \cup {Parts(SplitAnswer(s)) : s \in Seq(Segments)}
Messages == [role : {"system", "user", "assistant"}, content : Contents]

LEMMA AssistantTurnMasks ==
  ASSUME NEW content \in Contents
  PROVE  Masks(AssistantTurn(content), FALSE, FALSE)
<1> DEFINE a == Push("assistant_start", FALSE)  c == Push("assistant_end", TRUE)
           b == IF content.kind = "text" THEN Encoded("reply", content.n, TRUE)
                ELSE FlattenSeq([i \in DOMAIN content.parts |-> PartTokens(content.parts[i])])
<1>1. Masks(a, FALSE, TRUE)
  <2>1. "assistant_start" \in Ids /\ "assistant_start" \in Opens
    BY DEF Ids, Opens
  <2> QED BY <2>1, PushMasks
<1>2. Masks(b, TRUE, TRUE)
  <2>1. CASE content \in [kind : {"text"}, n : Nat]
    <3>1. content.kind = "text" /\ content.n \in Nat
      BY <2>1
    <3> QED BY <3>1, ReplyTextMasks
  <2>2. CASE content \in {Parts(SplitAnswer(s)) : s \in Seq(Segments)}
    <3>1. PICK s \in Seq(Segments) : content = Parts(SplitAnswer(s))
      BY <2>2
    <3> DEFINE ps == SplitAnswer(s)
    <3>2. content.kind # "text" /\ content.parts = ps
      BY <3>1 DEF Parts
    <3>3. ps \in Seq(Pieces) /\ Masks(Written(ps), TRUE, TRUE)
      BY AnswerMasks
    <3> HIDE DEF ps
    <3>4. \A i \in DOMAIN ps : ps[i] \in Pieces
      BY <3>3, LenProperties, ElementOfSeq
    <3>5. [i \in DOMAIN ps |-> PartTokens(ps[i])] = [i \in DOMAIN ps |-> PieceOf[ps[i]]]
      BY <3>4 DEF PieceOf
    <3>6. b = Written(ps)
      BY <3>2, <3>5 DEF Written, FlatMap
    <3> QED BY <3>3, <3>6
  <2> QED BY <2>1, <2>2 DEF Contents
<1>3. Masks(c, TRUE, FALSE)
  <2>1. /\ "assistant_end" \in Ids /\ "assistant_end" \in Hands /\ "assistant_end" # "bos"
        /\ "assistant_end" \notin Opens
    BY DEF Ids, Hands, Opens
  <2> QED BY <2>1, PushMasks
<1>4. AssistantTurn(content) = (a \o b) \o c
  BY DEF AssistantTurn
<1> HIDE DEF a, b, c
<1>5. Masks(a \o b, FALSE, TRUE)
  BY <1>1, <1>2, MasksJoin
<1>6. Masks((a \o b) \o c, FALSE, FALSE)
  BY <1>3, <1>5, MasksJoin
<1> QED BY <1>4, <1>6

-----------------------------------------------------------------------------
(* Conversations. *)

Spoken == {m \in Messages : m.role = "user" => m.content.kind = "text"}
TurnOf == [m \in Spoken |-> Turn(m)]

LEMMA TextContent ==
  ASSUME NEW c \in Contents, c.kind = "text"
  PROVE  c.n \in Nat
<1>1. c \notin {Parts(SplitAnswer(s)) : s \in Seq(Segments)}
  BY DEF Parts
<1> QED BY <1>1 DEF Contents

LEMMA TextIsContent ==
  ASSUME NEW n \in Nat
  PROVE  Text(n) \in Contents /\ Text(n).kind = "text"
BY DEF Text, Contents

LEMMA TurnMasks ==
  ASSUME NEW m \in Spoken
  PROVE  Masks(Turn(m), FALSE, FALSE) /\ Turn(m) \in Seq(Tokens)
<1>1. m.content \in Contents /\ (m.role = "user" => m.content.kind = "text")
  BY DEF Spoken, Messages
<1>2. CASE m.role = "user"
  <2>1. m.content.n \in Nat
    BY <1>1, <1>2, TextContent
  <2> QED BY <1>2, <2>1, UserTurnMasks DEF Turn, Masks
<1>3. CASE m.role # "user"
  BY <1>1, <1>3, AssistantTurnMasks DEF Turn, Masks
<1> QED BY <1>2, <1>3

LEMMA TurnExpands == Expands(TurnOf, Spoken, Tokens)
BY TurnMasks DEF Expands, TurnOf

LEMMA TurnsMask ==
  ASSUME NEW messages \in Seq(Spoken)
  PROVE  Masks(FlatMap(TurnOf, messages), FALSE, FALSE)
<1> DEFINE G == {u \in Seq(Spoken) : Masks(FlatMap(TurnOf, u), FALSE, FALSE)}
<1>1. <<>> \in G
  BY FlatMapEmpty, EmptySeq, MasksNothing
<1>2. ASSUME NEW u \in Seq(Spoken), NEW e \in Spoken, u \in G PROVE Append(u, e) \in G
  <2>1. FlatMap(TurnOf, Append(u, e)) = FlatMap(TurnOf, u) \o TurnOf[e]
    BY TurnExpands, FlatMapAppend
  <2>2. Masks(TurnOf[e], FALSE, FALSE)
    BY TurnMasks DEF TurnOf
  <2>3. Masks(FlatMap(TurnOf, u), FALSE, FALSE)
    BY <1>2
  <2>4. Masks(FlatMap(TurnOf, Append(u, e)), FALSE, FALSE)
    BY <2>1, <2>2, <2>3, MasksJoin
  <2>5. Append(u, e) \in Seq(Spoken)
    BY AppendProperties
  <2> QED BY <2>4, <2>5
<1> HIDE DEF G
<1>3. messages \in G
  BY <1>1, <1>2, SeqGrows
<1> QED BY <1>3 DEF G

LEMMA MergedSpoken ==
  ASSUME RenderAssumption, NEW conv \in Seq(Messages), Renders(conv)
  PROVE  Merged(conv) \in Seq(Spoken)
<1>1. Len(conv) \in Nat /\ \A i \in 1 .. Len(conv) : conv[i] \in Messages
  BY LenProperties, ElementOfSeq
<1>2. Merged(conv) \in Seq(Messages)
  <2>1. CASE HasSystem(conv)
    <3>1. /\ conv[1].content.kind = "text" /\ Len(conv) >= 2
          /\ conv[2].content.kind = "text"
      BY <2>1 DEF Renders
    <3>2. conv[1] \in Messages /\ conv[2] \in Messages
      BY <1>1, <3>1
    <3>3. conv[1].content \in Contents /\ conv[2].content \in Contents
      BY <3>2 DEF Messages
    <3>4. conv[1].content.n \in Nat /\ conv[2].content.n \in Nat
      BY <3>1, <3>3, TextContent
    <3> DEFINE n == conv[1].content.n + SepTokens + conv[2].content.n
               first == Message("user", Text(n))
               rest == SubSeq(conv, 3, Len(conv))
    <3>5. n \in Nat
      <4>1. PICK a \in Nat, b \in Nat : a = conv[1].content.n /\ b = conv[2].content.n
        BY <3>4
      <4>2. a + SepTokens + b \in Nat
        BY DEF RenderAssumption
      <4> QED BY <4>1, <4>2
    <3> HIDE DEF n
    <3>6. first \in Messages
      <4>1. Text(n) \in Contents
        BY <3>5, TextIsContent
      <4>2. \A c \in Contents : Message("user", c) \in Messages
        BY DEF Message, Messages
      <4> QED BY <4>1, <4>2
    <3>7. rest \in Seq(Messages)
      <4>1. \A i \in 3 .. Len(conv) : conv[i] \in Messages
        BY <1>1
      <4> QED BY <1>1, <4>1, SubSeqProperties
    <3>8. Merged(conv) = <<first>> \o rest
      BY <2>1 DEF Merged, n
    <3> HIDE DEF first, rest
    <3>9. <<first>> \in Seq(Messages)
      BY <3>6
    <3> QED BY <3>7, <3>8, <3>9, ConcatProperties
  <2>2. CASE ~HasSystem(conv)
    BY <2>2 DEF Merged
  <2> QED BY <2>1, <2>2
<1> DEFINE messages == Merged(conv)
<1>3. \A i \in DOMAIN messages :
        /\ messages[i].role = Expected(i)
        /\ Expected(i) = "user" => messages[i].content.kind = "text"
  BY DEF Renders
<1> HIDE DEF messages
<1>4. \A i \in 1 .. Len(messages) : messages[i] \in Spoken
  <2> SUFFICES ASSUME NEW i \in 1 .. Len(messages) PROVE messages[i] \in Spoken
    OBVIOUS
  <2>1. messages[i] \in Messages /\ i \in DOMAIN messages
    BY <1>2, LenProperties, ElementOfSeq DEF messages
  <2> QED BY <1>3, <2>1 DEF Spoken
<1>5. Len(messages) \in Nat /\ messages \in [1 .. Len(messages) -> Spoken]
  <2>1. Len(messages) \in Nat /\ messages \in [1 .. Len(messages) -> Messages]
    BY <1>2, LenProperties DEF messages
  <2> QED BY <1>4, <2>1
<1>6. messages \in Seq(Spoken)
  BY <1>5, SeqDef
<1> QED BY <1>6 DEF messages

(* A rendered conversation is marked right from its first token, and is    *)
(* so still where it is cut off.                                           *)
WellMarked ==
  {t \in Seq(Tokens) : Len(t) \in 1 .. Capacity /\ t[1].id = "bos" /\ MaskRight(t)}

LEMMA RenderedWell ==
  ASSUME RenderAssumption, PackAssumption, NEW conv \in Seq(Messages), Renders(conv)
  PROVE  RenderConversation(conv, Capacity) \in WellMarked
<1> DEFINE messages == Merged(conv)
           bos == Push("bos", FALSE)
           turns == FlatMap(TurnOf, messages)
           all == bos \o turns
           n == IF Len(all) < Capacity THEN Len(all) ELSE Capacity
           t == SubSeq(all, 1, n)
<1>1. messages \in Seq(Spoken)
  BY MergedSpoken
<1>2. RenderConversation(conv, Capacity) = t
  <2> HIDE DEF messages
  <2>1. \A i \in DOMAIN messages : messages[i] \in Spoken
    BY <1>1, LenProperties, ElementOfSeq
  <2>2. [i \in DOMAIN messages |-> Turn(messages[i])] = [i \in DOMAIN messages |-> TurnOf[messages[i]]]
    BY <2>1 DEF TurnOf
  <2>3. RenderConversation(conv, Capacity)
          = Finish(bos \o FlattenSeq([i \in DOMAIN messages |-> Turn(messages[i])]), Capacity)
    BY DEF RenderConversation, messages
  <2>4. FlattenSeq([i \in DOMAIN messages |-> Turn(messages[i])]) = turns
    BY <2>2 DEF FlatMap
  <2>5. RenderConversation(conv, Capacity) = Finish(all, Capacity)
    BY <2>3, <2>4
  <2> HIDE DEF all
  <2> QED BY <2>5 DEF Finish
<1> HIDE DEF messages
<1>3. Masks(turns, FALSE, FALSE)
  BY <1>1, TurnsMask
<1>4. Masks(bos, FALSE, FALSE)
  <2>1. "bos" \in Ids /\ "bos" \in Hands /\ "bos" \notin Opens
    BY DEF Ids, Hands, Opens
  <2> QED BY <2>1, PushMasks
<1>5. bos = <<[id |-> "bos", scored |-> FALSE]>>
  BY DEF Push
<1>6. Len(bos) = 1 /\ bos[1].id = "bos" /\ bos \in Seq(Tokens)
  <2>1. bos \in Seq(Tokens)
    BY <1>4 DEF Masks
  <2> DEFINE x == [id |-> "bos", scored |-> FALSE]
  <2>2. x.id = "bos"
    OBVIOUS
  <2>3. bos = <<x>>
    BY <1>5
  <2> HIDE DEF x
  <2>4. Len(<<x>>) = 1 /\ <<x>>[1] = x
    OBVIOUS
  <2> HIDE DEF bos
  <2> QED BY <2>1, <2>2, <2>3, <2>4
<1> HIDE DEF turns, bos
<1>7. Masks(all, FALSE, FALSE)
  BY <1>3, <1>4, MasksJoin
<1>8. all \in Seq(Tokens) /\ Len(all) \in Nat /\ Len(all) >= 1 /\ all[1].id = "bos"
  <2>1. turns \in Seq(Tokens) /\ Len(turns) \in Nat
    BY <1>3, LenProperties DEF Masks
  <2>2. /\ all \in Seq(Tokens) /\ Len(all) = Len(bos) + Len(turns)
        /\ \A i \in 1 .. Len(bos) : all[i] = bos[i]
    BY <1>6, <2>1, ConcatEntries
  <2> QED BY <1>6, <2>1, <2>2
<1> HIDE DEF all
<1>9. MaskRight(all)
  <2>1. <<>> \in Seq(Tokens) /\ MaskRight(<<>>) /\ ~Open(<<>>)
    BY DEF MaskRight, Open
  <2>2. <<>> \o all = all
    BY <1>8, ConcatEmptySeq
  <2>3. MaskRight(<<>> \o all)
    BY <1>7, <2>1 DEF Masks
  <2> QED BY <2>2, <2>3
<1>10. n \in Nat /\ n >= 1 /\ n <= Len(all) /\ n <= Capacity
  BY <1>8 DEF PackAssumption
<1> HIDE DEF n
<1>11. t \in Seq(Tokens) /\ Len(t) = n /\ \A i \in 1 .. n : t[i] = all[i]
  <2>1. \A i \in 1 .. n : all[i] \in Tokens
    BY <1>8, <1>10, ElementOfSeq
  <2>2. /\ t \in Seq(Tokens) /\ Len(t) = n - 1 + 1
        /\ \A i \in 1 .. n - 1 + 1 : t[i] = all[1 + i - 1]
    BY <1>10, <2>1, SubSeqProperties
  <2>3. n - 1 + 1 = n /\ \A i \in 1 .. n : 1 + i - 1 = i
    BY <1>10
  <2> HIDE DEF t
  <2> QED BY <2>2, <2>3
<1> HIDE DEF t
<1>12. MaskRight(t)
  <2> SUFFICES ASSUME NEW p \in 1 .. n PROVE t[p].scored <=> Writes(t, p)
    BY <1>11 DEF MaskRight
  <2>1. p \in Nat /\ \A q \in 1 .. p : t[q] = all[q]
    BY <1>10, <1>11
  <2>2. Writes(t, p) <=> Writes(all, p)
    BY <2>1, WritesLooksBack
  <2>3. p \in DOMAIN all
    BY <1>8, <1>10, LenProperties
  <2>4. all[p].scored <=> Writes(all, p)
    BY <1>9, <2>3 DEF MaskRight
  <2> QED BY <1>11, <2>2, <2>4
<1>13. t[1].id = "bos" /\ Len(t) \in 1 .. Capacity
  BY <1>8, <1>10, <1>11 DEF PackAssumption
<1> QED BY <1>2, <1>11, <1>12, <1>13 DEF WellMarked

-----------------------------------------------------------------------------
(* The parsers make conversations, whatever the files hold. *)

Conversations == Seq(Messages)

LEMMA SaidMessage ==
  ASSUME NEW role \in {"system", "user", "assistant"}, NEW n \in Nat
  PROVE  Message(role, Text(n)) \in Messages
<1>1. Text(n) \in Contents
  BY TextIsContent
<1> QED BY <1>1 DEF Message, Messages

LEMMA AnswerMessage ==
  ASSUME NEW s \in Seq(Segments)
  PROVE  Message("assistant", Parts(SplitAnswer(s))) \in Messages
<1>1. Parts(SplitAnswer(s)) \in Contents
  BY DEF Contents
<1> QED BY <1>1 DEF Message, Messages

LEMMA MmluDecoded ==
  ASSUME NEW row \in MmluRows, MmluOK(row)
  PROVE  Decoded("mmlu", row) \in Seq(Conversations)
<1> DEFINE n == row.question + (row.choices[1] + row.choices[2] + row.choices[3] + row.choices[4])
           u == Message("user", Text(n))  a == Message("assistant", Text(1))
<1>1. n \in Nat
  <2>1. row.choices \in Seq(Nat) /\ Len(row.choices) = 4 /\ row.question \in Nat
    BY DEF MmluRows, MmluOK
  <2>2. \A i \in 1 .. 4 : row.choices[i] \in Nat
    BY <2>1, ElementOfSeq
  <2>3. /\ row.choices[1] \in Nat /\ row.choices[2] \in Nat
        /\ row.choices[3] \in Nat /\ row.choices[4] \in Nat
    BY <2>2
  <2>4. PICK q \in Nat, h \in Nat, i \in Nat, j \in Nat, k \in Nat :
           /\ q = row.question /\ h = row.choices[1] /\ i = row.choices[2]
           /\ j = row.choices[3] /\ k = row.choices[4]
    BY <2>1, <2>3
  <2>5. q + (h + i + j + k) \in Nat
    OBVIOUS
  <2> QED BY <2>4, <2>5
<1>2. Decoded("mmlu", row) = <<<<u, a>>>>
  BY DEF Decoded, Mmlu
<1> HIDE DEF n
<1>3. u \in Messages /\ a \in Messages
  BY <1>1, SaidMessage
<1> HIDE DEF u, a
<1>4. <<u, a>> \in Seq(Messages)
  BY <1>3
<1> DEFINE c == <<u, a>>
<1> HIDE DEF c
<1>5. c \in Conversations => <<c>> \in Seq(Conversations)
  OBVIOUS
<1> QED BY <1>2, <1>4, <1>5 DEF c, Conversations

LEMMA Gsm8kDecoded ==
  ASSUME NEW row \in Gsm8kRows
  PROVE  Decoded("gsm8k", row) \in Seq(Conversations)
<1> DEFINE u == Message("user", Text(row.question))
           a == Message("assistant", Parts(SplitAnswer(row.answer)))
<1>1. row.question \in Nat /\ row.answer \in Seq(Segments)
  BY DEF Gsm8kRows
<1>2. Decoded("gsm8k", row) = <<<<u, a>>>>
  BY DEF Decoded, Gsm8k
<1>3. u \in Messages /\ a \in Messages
  BY <1>1, SaidMessage, AnswerMessage
<1> HIDE DEF u, a
<1>4. <<u, a>> \in Seq(Messages)
  BY <1>3
<1> DEFINE c == <<u, a>>
<1> HIDE DEF c
<1>5. c \in Conversations => <<c>> \in Seq(Conversations)
  OBVIOUS
<1> QED BY <1>2, <1>4, <1>5 DEF c, Conversations

LEMMA PlainDecoded ==
  ASSUME NEW messages \in Seq(Said), MessagesOK(messages)
  PROVE  <<Plain(messages)>> \in Seq(Conversations) /\ <<>> \in Seq(Conversations)
<1> DEFINE c == Plain(messages)
<1>1. Len(messages) \in Nat /\ DOMAIN messages = 1 .. Len(messages)
      /\ \A i \in 1 .. Len(messages) : messages[i] \in Said
  BY LenProperties, ElementOfSeq
<1>2. ASSUME NEW i \in 1 .. Len(messages)
      PROVE  Message(messages[i].role, Text(messages[i].n)) \in Messages
  <2>1. messages[i].role \in {"system", "user", "assistant"}
    BY <1>1 DEF MessagesOK, RoleOK
  <2>2. messages[i].n \in Nat
    BY <1>1 DEF Said
  <2> QED BY <2>1, <2>2, SaidMessage
<1>3. c \in [1 .. Len(messages) -> Messages]
  BY <1>1, <1>2 DEF Plain
<1> HIDE DEF c
<1>4. c \in Conversations
  BY <1>1, <1>3, SeqDef DEF Conversations
<1>5. <<c>> \in Seq(Conversations) /\ <<>> \in Seq(Conversations)
  BY <1>4
<1> QED BY <1>5 DEF c

LEMMA SmoltalkDecoded ==
  ASSUME NEW row \in SmoltalkRows, SmoltalkOK(row)
  PROVE  Decoded("smoltalk", row) \in Seq(Conversations)
<1>1. row.messages \in Seq(Said) /\ MessagesOK(row.messages)
  BY DEF SmoltalkRows, SmoltalkOK
<1>2. Decoded("smoltalk", row) = <<Plain(row.messages)>>
  BY DEF Decoded
<1> QED BY <1>1, <1>2, PlainDecoded

LEMMA IdentityDecoded ==
  ASSUME NEW row \in IdentityLines, IdentityOK(row)
  PROVE  Decoded("identity", row) \in Seq(Conversations)
<1>1. row.messages \in Seq(Said) /\ (~row.blank => MessagesOK(row.messages))
  BY DEF IdentityLines, IdentityOK
<1>2. Decoded("identity", row) = IF row.blank THEN <<>> ELSE <<Plain(row.messages)>>
  BY DEF Decoded
<1>3. <<>> \in Seq(Conversations)
  BY EmptySeq
<1> QED BY <1>1, <1>2, <1>3, PlainDecoded

LEMMA FlattenIsSeq ==
  ASSUME NEW S, NEW q \in Seq(Seq(S))
  PROVE  FlattenSeq(q) \in Seq(S)
<1>1. <<>> \in Seq(S)
  BY EmptySeq
<1> QED BY <1>1, FlattenAppend

LEMMA LoadIsSeq ==
  ASSUME NEW d, NEW R, NEW files \in Seq(Seq(R)), LoadOK(d, files),
         \A row \in R : RowOK(d, row) => Decoded(d, row) \in Seq(Conversations)
  PROVE  Load(d, files) \in Seq(Conversations)
<1> DEFINE s == RowsOf(files)
           Q == {row \in R : RowOK(d, row)}
           f == [row \in Q |-> Decoded(d, row)]
<1>1. s \in Seq(R)
  BY FlattenIsSeq DEF RowsOf
<1>2. \A i \in DOMAIN s : RowOK(d, s[i])
  BY DEF LoadOK
<1>3. Load(d, files) = FlattenSeq([i \in DOMAIN s |-> Decoded(d, s[i])])
  BY DEF Load
<1> HIDE DEF s
<1>4. Len(s) \in Nat /\ DOMAIN s = 1 .. Len(s) /\ s \in [1 .. Len(s) -> R]
  BY <1>1, LenProperties
<1>5. s \in [1 .. Len(s) -> Q]
  BY <1>2, <1>4
<1>6. s \in Seq(Q)
  <2> HIDE DEF Q
  <2> QED BY <1>4, <1>5, SeqDef
<1>7. Expands(f, Q, Conversations)
  BY DEF Expands
<1>8. [i \in DOMAIN s |-> Decoded(d, s[i])] = [i \in DOMAIN s |-> f[s[i]]]
  BY <1>4, <1>5
<1> HIDE DEF f, Q
<1>9. Load(d, files) = FlatMap(f, s)
  BY <1>3, <1>8 DEF FlatMap
<1>10. FlatMap(f, s) \in Seq(Conversations)
  BY <1>6, <1>7, FlatMapIsSeq
<1> QED BY <1>9, <1>10

(* What each dataset loads. *)
LEMMA DatasetsLoad ==
  ASSUME NEW files \in Directories
  PROVE  \A d \in TrainSets : LoadOK(d, files[d]) => Load(d, files[d]) \in Seq(Conversations)
<1>1. /\ files["smoltalk"] \in Seq(Seq(SmoltalkRows)) /\ files["identity"] \in Seq(Seq(IdentityLines))
      /\ files["mmlu"] \in Seq(Seq(MmluRows)) /\ files["gsm8k"] \in Seq(Seq(Gsm8kRows))
  BY DEF Directories
<1>2. LoadOK("smoltalk", files["smoltalk"]) => Load("smoltalk", files["smoltalk"]) \in Seq(Conversations)
  <2>1. \A row \in SmoltalkRows : RowOK("smoltalk", row) => Decoded("smoltalk", row) \in Seq(Conversations)
    BY SmoltalkDecoded DEF RowOK
  <2> QED BY <1>1, <2>1, LoadIsSeq
<1>3. LoadOK("identity", files["identity"]) => Load("identity", files["identity"]) \in Seq(Conversations)
  <2>1. \A row \in IdentityLines : RowOK("identity", row) => Decoded("identity", row) \in Seq(Conversations)
    BY IdentityDecoded DEF RowOK
  <2> QED BY <1>1, <2>1, LoadIsSeq
<1>4. LoadOK("mmlu", files["mmlu"]) => Load("mmlu", files["mmlu"]) \in Seq(Conversations)
  <2>1. \A row \in MmluRows : RowOK("mmlu", row) => Decoded("mmlu", row) \in Seq(Conversations)
    BY MmluDecoded DEF RowOK
  <2> QED BY <1>1, <2>1, LoadIsSeq
<1>5. LoadOK("gsm8k", files["gsm8k"]) => Load("gsm8k", files["gsm8k"]) \in Seq(Conversations)
  <2>1. \A row \in Gsm8kRows : RowOK("gsm8k", row) => Decoded("gsm8k", row) \in Seq(Conversations)
    BY Gsm8kDecoded
  <2> QED BY <1>1, <2>1, LoadIsSeq
<1> QED BY <1>2, <1>3, <1>4, <1>5 DEF TrainSets

LEMMA RepeatedIsSeq ==
  ASSUME NEW S, NEW s \in Seq(S), NEW n \in Nat
  PROVE  Repeated(s, n) \in Seq(S)
<1> DEFINE q == [copy \in 1 .. n |-> s]
<1>1. q \in [1 .. n -> Seq(S)]
  OBVIOUS
<1> HIDE DEF q
<1>2. q \in Seq(Seq(S))
  BY <1>1, SeqDef
<1>3. FlattenSeq(q) \in Seq(S)
  BY <1>2, FlattenIsSeq
<1> QED BY <1>3 DEF Repeated, q

-----------------------------------------------------------------------------
LEMMA QuotientIsNat ==
  ASSUME NEW a \in Nat, NEW b \in Nat \ {0}
  PROVE  a \div b \in Nat
OBVIOUS

LEMMA ScaledCapIsNat ==
  ASSUME NEW cap \in Nat, NEW budget \in Nat, NEW denominator \in Nat \ {0}, NEW available \in Nat
  PROVE  ScaledCap(cap, budget, denominator, available) \in Nat
<1> DEFINE share == IF budget < denominator THEN budget ELSE denominator
           scaled == (2 * cap * share + denominator) \div (2 * denominator)
           atLeast == IF scaled = 0 THEN 1 ELSE scaled
<1>1. share \in Nat
  OBVIOUS
<1> HIDE DEF share
<1>2. 2 * cap * share + denominator \in Nat
  <2>1. cap * share \in Nat
    BY <1>1
  <2>2. 2 * cap * share = 2 * (cap * share)
    BY <1>1
  <2> QED BY <2>1, <2>2
<1>3. 2 * denominator \in Nat \ {0}
  OBVIOUS
<1>4. scaled \in Nat
  BY <1>2, <1>3, QuotientIsNat
<1> HIDE DEF scaled
<1>5. atLeast \in Nat
  BY <1>4
<1>6. ScaledCap(cap, budget, denominator, available)
        = IF atLeast < available THEN atLeast ELSE available
  BY DEF ScaledCap, share, scaled
<1> QED BY <1>5, <1>6

LEMMA CappedIsSeq ==
  ASSUME NEW S, NEW convs \in Seq(S), NEW cap \in Nat, NEW picked \in ShuffledCap(convs, cap)
  PROVE  picked \in Seq(S)
<1>1. PICK p \in [1 .. cap -> DOMAIN convs] : picked = [i \in 1 .. cap |-> convs[p[i]]]
  BY DEF ShuffledCap
<1>2. \A i \in DOMAIN convs : convs[i] \in S
  BY LenProperties, ElementOfSeq
<1>3. picked \in [1 .. cap -> S]
  BY <1>1, <1>2
<1> QED BY <1>3, SeqDef

(* A mixture is a list of conversations. *)
LEMMA TrainMixture ==
  ASSUME TasksAssumption, NEW data \in Staged, SourcesOK(data, data.train, TrainSets)
  PROVE  TrainSources(data) \in Seq(Conversations)
<1> DEFINE Of(d) == IF Active(data, d) THEN Repeated(Load(d, data.train[d]), Copies(data, d))
                    ELSE <<>>
<1>1. data.train \in Directories /\ data.epochs \in [mmlu : Nat, gsm8k : Nat]
  BY DEF Staged
<1>2. \A d \in TrainSets : Copies(data, d) \in Nat
  <2>1. data.epochs["mmlu"] \in Nat /\ data.epochs["gsm8k"] \in Nat /\ IdentityCopies \in Nat
    BY <1>1 DEF TasksAssumption
  <2> QED BY <2>1 DEF TrainSets, Copies
<1>3. ASSUME NEW d \in TrainSets PROVE Of(d) \in Seq(Conversations)
  <2>1. CASE Active(data, d)
    <3>1. LoadOK(d, data.train[d])
      BY <2>1 DEF SourcesOK
    <3>2. Load(d, data.train[d]) \in Seq(Conversations)
      BY <1>1, <3>1, DatasetsLoad
    <3>3. Copies(data, d) \in Nat
      BY <1>2
    <3>4. Repeated(Load(d, data.train[d]), Copies(data, d)) \in Seq(Conversations)
      BY <3>2, <3>3, RepeatedIsSeq
    <3> QED BY <2>1, <3>4
  <2>2. CASE ~Active(data, d)
    BY <2>2, EmptySeq
  <2> QED BY <2>1, <2>2
<1>4. TrainSources(data) = Of("smoltalk") \o Of("identity") \o Of("mmlu") \o Of("gsm8k")
  BY DEF TrainSources
<1> DEFINE s == Of("smoltalk")  i == Of("identity")  m == Of("mmlu")  g == Of("gsm8k")
<1>5. /\ s \in Seq(Conversations) /\ i \in Seq(Conversations)
      /\ m \in Seq(Conversations) /\ g \in Seq(Conversations)
  <2> HIDE DEF Of
  <2> QED BY <1>3 DEF TrainSets
<1> HIDE DEF s, i, m, g
<1>6. s \o i \in Seq(Conversations)
  BY <1>5, ConcatProperties
<1>7. (s \o i) \o m \in Seq(Conversations)
  BY <1>5, <1>6, ConcatProperties
<1>8. ((s \o i) \o m) \o g \in Seq(Conversations)
  BY <1>5, <1>7, ConcatProperties
<1>9. TrainSources(data) = ((s \o i) \o m) \o g
  BY <1>4 DEF s, i, m, g
<1> QED BY <1>8, <1>9

LEMMA ValSourceIsSeq ==
  ASSUME TasksAssumption, NEW data \in Staged, SourcesOK(data, data.test, ValSets),
         NEW d \in ValSets, NEW picked \in ValSource(data, d)
  PROVE  picked \in Seq(Conversations)
<1>1. data.test \in Directories /\ data.budget \in Nat
  BY DEF Staged
<1>2. CASE Active(data, d)
  <2> DEFINE convs == Load(d, data.test[d])
             denominator == ActiveValDenominator(data)
             cap == ScaledCap(Caps[d], data.budget, denominator, Len(convs))
  <2>1. LoadOK(d, data.test[d]) /\ d \in TrainSets
    BY <1>2 DEF SourcesOK, ValSets, TrainSets
  <2>2. convs \in Seq(Conversations)
    BY <1>1, <2>1, DatasetsLoad
  <2>3. \A e \in ValSets : Caps[e] \in Nat \ {0}
    BY DEF TasksAssumption, ValSets
  <2>4. denominator \in Nat \ {0}
    <3> DEFINE Cap(e) == IF Active(data, e) THEN Caps[e] ELSE 0
    <3>1. \A e \in ValSets : Cap(e) \in Nat
      BY <2>3
    <3>2. Cap("smoltalk") \in Nat \ {0}
      <4>1. Active(data, "smoltalk")
        BY DEF Active
      <4> QED BY <2>3, <4>1 DEF ValSets
    <3>3. denominator = Cap("smoltalk") + Cap("mmlu") + Cap("gsm8k")
      BY DEF ActiveValDenominator
    <3> HIDE DEF Cap, denominator
    <3>4. Cap("mmlu") \in Nat /\ Cap("gsm8k") \in Nat
      BY <3>1 DEF ValSets
    <3> QED BY <3>2, <3>3, <3>4
  <2>5. Len(convs) \in Nat
    BY <2>2, LenProperties
  <2>6. picked \in ShuffledCap(convs, cap)
    BY <1>2 DEF ValSource
  <2> HIDE DEF convs, denominator
  <2>7. cap \in Nat
    BY <1>1, <2>3, <2>4, <2>5, ScaledCapIsNat
  <2> HIDE DEF cap
  <2> QED BY <2>2, <2>6, <2>7, CappedIsSeq
<1>3. CASE ~Active(data, d)
  BY <1>3, EmptySeq DEF ValSource
<1> QED BY <1>2, <1>3

LEMMA MixturesAreSeqs ==
  ASSUME TasksAssumption, FilesAssumption, NEW data \in Files, NEW mixture \in Mixtures(data)
  PROVE  mixture \in Seq(Conversations)
<1>1. data \in Staged
  BY DEF FilesAssumption
<1>2. CASE data.mode = "train"
  <2>1. SourcesOK(data, data.train, TrainSets) /\ mixture = TrainSources(data)
    BY <1>2 DEF Mixtures
  <2> QED BY <1>1, <2>1, TrainMixture
<1>3. CASE data.mode # "train"
  <2>1. SourcesOK(data, data.test, ValSets) /\ mixture \in ValMixtures(data)
    BY <1>3 DEF Mixtures
  <2>2. PICK s \in ValSource(data, "smoltalk"), m \in ValSource(data, "mmlu"),
             g \in ValSource(data, "gsm8k") : mixture = s \o m \o g
    BY <2>1 DEF ValMixtures
  <2>3. "smoltalk" \in ValSets /\ "mmlu" \in ValSets /\ "gsm8k" \in ValSets
    BY DEF ValSets
  <2>4. s \in Seq(Conversations) /\ m \in Seq(Conversations) /\ g \in Seq(Conversations)
    BY <1>1, <2>1, <2>3, ValSourceIsSeq
  <2>5. s \o m \in Seq(Conversations)
    BY <2>4, ConcatProperties
  <2>6. (s \o m) \o g \in Seq(Conversations)
    BY <2>4, <2>5, ConcatProperties
  <2> QED BY <2>2, <2>6
<1> QED BY <1>2, <1>3

-----------------------------------------------------------------------------
(* The epoch: PackInv of the lengths of conversations that are marked      *)
(* right, each of which fits a row.                                        *)

Marked ==
  /\ PackInv /\ pc # "panic"
  /\ rendered \in Seq(WellMarked)
  /\ stream = [k \in DOMAIN rendered |-> Len(rendered[k])]

EpochInv == (pc = "refused" /\ stream = <<>>) \/ Marked

LEMMA LengthsFit ==
  ASSUME rendered \in Seq(WellMarked), NEW k \in DOMAIN rendered
  PROVE  /\ rendered[k] \in Seq(Tokens) /\ MaskRight(rendered[k]) /\ rendered[k][1].id = "bos"
         /\ Len(rendered[k]) \in 1 .. Capacity /\ Len(rendered[k]) \in Nat
<1>1. rendered[k] \in WellMarked
  BY LenProperties, ElementOfSeq
<1>2. Len(rendered[k]) \in Nat
  BY <1>1, LenProperties DEF WellMarked
<1> QED BY <1>1, <1>2 DEF WellMarked

LEMMA InitEpoch == Init => EpochInv
<1> SUFFICES ASSUME Init PROVE EpochInv
  OBVIOUS
<1>1. PICK data \in Files :
    \/ /\ \/ Mixtures(data) = {}
          \/ \E mixture \in Mixtures(data) : ~Renderable(mixture)
       /\ Refused
    \/ \E mixture \in Mixtures(data) :
         /\ Renderable(mixture)
         /\ \E p \in Shuffles(Len(mixture)) : rendered = RenderMixture(mixture, p)
         /\ PackOf([k \in DOMAIN rendered |-> Len(rendered[k])])
  BY DEF Init
<1>2. CASE Refused
  BY <1>2 DEF Refused, EpochInv
<1>3. ASSUME NEW mixture \in Mixtures(data), Renderable(mixture),
             NEW p \in Shuffles(Len(mixture)), rendered = RenderMixture(mixture, p),
             PackOf([k \in DOMAIN rendered |-> Len(rendered[k])])
      PROVE  Marked
  <2>1. mixture \in Seq(Conversations)
    BY TasksAssumption, FilesAssumption, MixturesAreSeqs
  <2>2. Len(mixture) \in Nat /\ DOMAIN mixture = 1 .. Len(mixture)
        /\ \A i \in DOMAIN mixture : mixture[i] \in Conversations
    BY <2>1, LenProperties, ElementOfSeq
  <2>3. \A k \in DOMAIN mixture : p[k] \in DOMAIN mixture
    BY <2>2 DEF Shuffles
  <2>4. ASSUME NEW k \in DOMAIN mixture
        PROVE  RenderConversation(mixture[p[k]], Capacity) \in WellMarked
    <3>1. mixture[p[k]] \in Seq(Messages) /\ Renders(mixture[p[k]])
      BY <1>3, <2>2, <2>3 DEF Renderable, Conversations
    <3> QED BY <3>1, RenderAssumption, PackAssumption, RenderedWell
  <2>5. rendered \in [1 .. Len(mixture) -> WellMarked]
    BY <1>3, <2>2, <2>4 DEF RenderMixture
  <2>6. rendered \in Seq(WellMarked)
    BY <2>2, <2>5, SeqDef
  <2> DEFINE lengths == [k \in DOMAIN rendered |-> Len(rendered[k])]
  <2>7. lengths \in Seq(Nat)
    <3>1. lengths \in [1 .. Len(mixture) -> Nat]
      <4>1. \A k \in DOMAIN rendered : Len(rendered[k]) \in Nat
        BY <2>6, LengthsFit
      <4>2. DOMAIN rendered = 1 .. Len(mixture)
        BY <2>5
      <4> QED BY <4>1, <4>2
    <3> HIDE DEF lengths
    <3> QED BY <2>2, <3>1, SeqDef
  <2>8. PackOf(lengths)
    BY <1>3
  <2> HIDE DEF lengths
  <2>9. PackInv
    BY <2>7, <2>8, PackAssumption, PackInit
  <2>10. stream = lengths /\ pc = "enter"
    BY <2>8 DEF PackOf
  <2> QED BY <2>6, <2>9, <2>10 DEF Marked, lengths
<1> QED BY <1>1, <1>2, <1>3 DEF EpochInv

(* No length trips the guards of refill. *)
LEMMA TakesNeverPanics ==
  ASSUME Marked, rendered' = rendered, stream' = stream, NEW b, NEW filled, NEW point,
         point # "panic", Takes(b, filled, point), buf' \in Seq(DOMAIN stream')
  PROVE  pc' # "panic"
<1>1. buf' = filled /\ filled \in Seq(DOMAIN stream)
  BY DEF Takes
<1>2. \A k \in DOMAIN stream : stream[k] \in 1 .. Capacity
  <2> SUFFICES ASSUME NEW k \in DOMAIN stream PROVE stream[k] \in 1 .. Capacity
    OBVIOUS
  <2>1. k \in DOMAIN rendered /\ stream[k] = Len(rendered[k])
    BY DEF Marked
  <2> QED BY <2>1, LengthsFit DEF Marked
<1>3. \A i \in DOMAIN filled : filled[i] \in DOMAIN stream
  BY <1>1, LenProperties, ElementOfSeq
<1>4. \A i \in DOMAIN filled : Packable(filled[i])
  BY <1>2, <1>3, PackAssumption DEF Packable, PackAssumption
<1> QED BY <1>4 DEF Takes

LEMMA EpochStep == EpochInv /\ [Next]_vars => EpochInv'
<1> SUFFICES ASSUME EpochInv, [Next]_vars PROVE EpochInv'
  OBVIOUS
<1>1. CASE pc = "refused" /\ stream = <<>>
  BY <1>1 DEF EpochInv, Next, PackStep, EnterRow, PackBest, PadRow, vars, packVars
<1>2. CASE Marked
  <2>1. rendered' = rendered /\ [PackStep]_packVars
    BY DEF Next, vars
  <2>2. stream' = stream
    BY <2>1 DEF PackStep, EnterRow, PackBest, PadRow, packVars
  <2>3. PackInv'
    <3>1. CASE EnterRow
      BY <1>2, <3>1, PackAssumption, EnterRowKeeps DEF Marked
    <3>2. CASE PackBest
      BY <1>2, <3>2, PackAssumption, PackBestKeeps DEF Marked
    <3>3. CASE PadRow
      BY <1>2, <3>3, PackAssumption, PadRowKeeps DEF Marked
    <3>4. CASE UNCHANGED packVars
      BY <1>2, <3>4, InvStutters DEF Marked
    <3> QED BY <2>1, <3>1, <3>2, <3>3, <3>4 DEF PackStep
  <2>4. pc' # "panic"
    <3>1. buf' \in Seq(DOMAIN stream')
      BY <2>3 DEF PackInv, PackTypes
    <3>2. CASE EnterRow
      <4> DEFINE point == IF Refilled(buf) = <<>> THEN "done" ELSE "fill"
      <4>1. Takes(buf, Refilled(buf), point) /\ point # "panic"
        BY <3>2 DEF EnterRow
      <4> HIDE DEF point
      <4> QED BY <1>2, <2>1, <2>2, <3>1, <4>1, TakesNeverPanics
    <3>3. CASE PackBest
      <4> DEFINE point == IF stream[buf[Best]] = Remaining THEN "enter" ELSE "fill"
                 rest == Without(buf, Best)
      <4>1. Takes(rest, TopUp(rest), point) /\ point # "panic"
        BY <3>3 DEF PackBest
      <4> HIDE DEF point, rest
      <4> QED BY <1>2, <2>1, <2>2, <3>1, <4>1, TakesNeverPanics
    <3>4. CASE PadRow
      BY <3>4 DEF PadRow
    <3>5. CASE UNCHANGED packVars
      BY <1>2, <3>5 DEF Marked, packVars
    <3> QED BY <2>1, <3>2, <3>3, <3>4, <3>5 DEF PackStep
  <2> QED BY <1>2, <2>1, <2>2, <2>3, <2>4 DEF Marked, EpochInv
<1> QED BY <1>1, <1>2 DEF EpochInv

(* In every execution the epoch is refused whole, or it packs marked       *)
(* conversations that fit a row (render_mixture of tasks/mixture.rs).      *)
THEOREM EpochInvariant == Spec => []EpochInv
BY InitEpoch, EpochStep, PTL DEF Spec

-----------------------------------------------------------------------------
(* What a row shows. *)

(* A cell belongs to one conversation. *)
LEMMA TokenOfCell ==
  ASSUME Marked, NEW k \in Packed, NEW q \in Cells(k)
  PROVE  TokenAt(q) = rendered[k][q - at[k] + 1]
<1>1. ASSUME NEW j \in Packed, q \in Cells(j) PROVE j = k
  <2>1. /\ at[j] \in Nat /\ stream[j] \in Nat /\ at[k] \in Nat /\ stream[k] \in Nat
    BY DEF Marked, PackInv, PackTypes, Packed
  <2>2. j # k => at[j] + stream[j] <= at[k] \/ at[k] + stream[k] <= at[j]
    BY DEF Marked, PackInv, Apart
  <2> QED BY <1>1, <2>1, <2>2 DEF Cells
<1>2. (CHOOSE j \in Packed : q \in Cells(j)) = k
  BY <1>1
<1> QED BY <1>2 DEF TokenAt

(* A conversation as its row shows it, moved to where it starts. *)
LEMMA RowShows ==
  ASSUME Marked, NEW r \in Nat, NEW p \in 1 .. Capacity, NEW k \in Packed,
         r * Capacity + p - 1 \in Cells(k)
  PROVE  \E s \in Nat :
           /\ at[k] = r * Capacity + s /\ s + Len(rendered[k]) <= Capacity
           /\ p \in s + 1 .. s + Len(rendered[k])
           /\ \A j \in 1 .. Len(rendered[k]) : Row(r)[s + j] = rendered[k][j]
<1> DEFINE n == Len(rendered[k])  q == r * Capacity + p - 1  base == r * Capacity
<1>1. /\ Capacity \in Nat /\ Capacity >= 2 /\ base \in Nat /\ at[k] \in Nat
      /\ k \in DOMAIN rendered /\ stream[k] = n /\ n \in 1 .. Capacity /\ n \in Nat
  <2>1. Capacity \in Nat /\ Capacity >= 2
    BY PackAssumption DEF PackAssumption
  <2>2. k \in DOMAIN rendered /\ stream[k] = n
    BY DEF Marked, Packed
  <2>3. n \in 1 .. Capacity /\ n \in Nat
    BY <2>2, LengthsFit DEF Marked
  <2>4. at[k] \in Nat
    BY DEF Marked, PackInv, PackTypes, Packed
  <2> QED BY <2>1, <2>2, <2>3, <2>4
<1>2. PICK m \in Nat : m * Capacity <= at[k] /\ at[k] + stream[k] <= (m + 1) * Capacity
  BY DEF Marked, PackInv, InOneRow
<1>3. m = r
  <2>1. (r + 1) * Capacity = base + Capacity /\ m * Capacity \in Nat /\ (m + 1) * Capacity \in Nat
    BY <1>1
  <2>2. q \in Nat /\ base <= q /\ q < (r + 1) * Capacity
    BY <1>1, <2>1
  <2>3. at[k] <= q /\ q <= at[k] + n - 1
    BY <1>1 DEF Cells
  <2>4. PICK x \in Nat : x = q
    BY <2>2
  <2>5. r * Capacity <= x /\ x < (r + 1) * Capacity
    BY <2>2, <2>4
  <2> HIDE DEF base, q
  <2>6. m * Capacity <= x /\ x < (m + 1) * Capacity
    BY <1>1, <1>2, <2>1, <2>2, <2>3, <2>4
  <2>7. Capacity \in Nat /\ Capacity >= 1
    BY <1>1
  <2>8. x \div Capacity = m
    BY <2>6, <2>7, RowBetween
  <2>9. x \div Capacity = r
    BY <2>5, <2>7, RowBetween
  <2> QED BY <2>8, <2>9
<1>4. base <= at[k] /\ at[k] + n <= base + Capacity
  <2>1. (r + 1) * Capacity = base + Capacity
    BY <1>1
  <2> QED BY <1>1, <1>2, <1>3, <2>1
<1>5. PICK s \in Nat : s = at[k] - base
  BY <1>1, <1>4
<1>6. at[k] <= base + p - 1 /\ base + p - 1 <= at[k] + n - 1
  BY <1>1 DEF Cells
<1> HIDE DEF base, n
<1>7. at[k] = base + s /\ s + n <= Capacity /\ p \in s + 1 .. s + n
  BY <1>1, <1>4, <1>5, <1>6
<1>8. ASSUME NEW j \in 1 .. n PROVE Row(r)[s + j] = rendered[k][j]
  <2>1. s + j \in 1 .. Capacity
    BY <1>1, <1>7
  <2>2. Row(r)[s + j] = TokenAt(base + (s + j) - 1)
    BY <2>1 DEF Row, base
  <2>3. /\ base + (s + j) - 1 \in at[k] .. at[k] + stream[k] - 1
        /\ (base + (s + j) - 1) - at[k] + 1 = j
    BY <1>1, <1>7
  <2>4. TokenAt(base + (s + j) - 1) = rendered[k][(base + (s + j) - 1) - at[k] + 1]
    BY <2>3, TokenOfCell DEF Cells
  <2> QED BY <2>2, <2>3, <2>4
<1> QED BY <1>7, <1>8 DEF base, n

(* Every token of every row is scored if and only if the model writes it.  *)
LEMMA RowMarked ==
  ASSUME Marked, NEW r \in Nat, NEW p \in 1 .. Capacity
  PROVE  Row(r)[p] \in Tokens /\ (Row(r)[p].scored <=> Writes(Row(r), p))
<1> DEFINE q == r * Capacity + p - 1  row == Row(r)
<1>1. row[p] = TokenAt(q) /\ Capacity \in Nat
  BY PackAssumption DEF Row, PackAssumption
<1>2. CASE \A k \in Packed : q \notin Cells(k)
  <2>1. row[p] = Pad
    BY <1>1, <1>2 DEF TokenAt
  <2>2. Pad \in Tokens /\ Pad.id = "bos" /\ Pad.scored = FALSE
    BY DEF Pad, Tokens, Ids
  <2>3. ~Writes(row, p)
    BY <2>1, <2>2 DEF Writes
  <2> HIDE DEF row
  <2> QED BY <2>1, <2>2, <2>3 DEF row
<1>3. ASSUME NEW k \in Packed, q \in Cells(k)
      PROVE  row[p] \in Tokens /\ (row[p].scored <=> Writes(row, p))
  <2> DEFINE t == rendered[k]  n == Len(t)
  <2>1. PICK s \in Nat :
           /\ s + n <= Capacity /\ p \in s + 1 .. s + n
           /\ \A j \in 1 .. n : row[s + j] = t[j]
    BY <1>3, RowShows
  <2>2. k \in DOMAIN rendered
    BY DEF Marked, Packed
  <2>3. /\ t \in Seq(Tokens) /\ MaskRight(t) /\ t[1].id = "bos" /\ n \in 1 .. Capacity /\ n \in Nat
    BY <2>2, LengthsFit DEF Marked
  <2>4. DOMAIN t = 1 .. n
    BY <2>3, LenProperties
  <2> HIDE DEF t, n, row
  <2>5. PICK j \in 1 .. n : p = s + j
    BY <2>1, <2>3
  <2>6. row[p] = t[j] /\ t[j] \in Tokens /\ (t[j].scored <=> Writes(t, j))
    <3>1. t[j] \in Tokens
      BY <2>3, <2>4, ElementOfSeq DEF n
    <3> QED BY <2>1, <2>3, <2>4, <2>5, <3>1 DEF MaskRight
  <2>7. ASSUME Writes(t, j) PROVE Writes(row, p)
    <3>1. PICK m \in 1 .. j - 1 : /\ t[m].id \in {"assistant_start", "output_end"}
                                  /\ \A i \in m + 1 .. j - 1 : t[i].id \notin Hands
      BY <2>7 DEF Writes
    <3>2. s + m \in 1 .. p - 1 /\ row[s + m] = t[m]
      BY <2>1, <2>3, <2>5, <3>1
    <3>3. ASSUME NEW i \in s + m + 1 .. p - 1 PROVE row[i].id \notin Hands
      <4>1. PICK h \in m + 1 .. j - 1 : i = s + h
        <5>1. i - s \in m + 1 .. j - 1 /\ i = s + (i - s)
          BY <2>3, <2>5, <3>1
        <5> QED BY <5>1
      <4>2. row[i] = t[h]
        BY <2>1, <2>3, <3>1, <4>1
      <4> QED BY <3>1, <4>1, <4>2
    <3>4. row[p].id # "bos"
      BY <2>6, <2>7 DEF Writes
    <3> QED BY <3>1, <3>2, <3>3, <3>4 DEF Writes
  <2>8. ASSUME Writes(row, p) PROVE Writes(t, j)
    <3>1. row[p].id # "bos"
      BY <2>8 DEF Writes
    <3>2. PICK m \in 1 .. p - 1 : /\ row[m].id \in {"assistant_start", "output_end"}
                                  /\ \A i \in m + 1 .. p - 1 : row[i].id \notin Hands
      BY <2>8 DEF Writes
    <3>3. 1 \in 1 .. n /\ row[s + 1] = t[1]
      BY <2>1, <2>3
    <3>4. j # 1
      BY <2>3, <2>6, <3>1
    <3>5. s + 1 \in 1 .. p - 1
      BY <2>3, <2>5, <3>4
    <3>6. "bos" \in Hands
      BY DEF Hands
    <3>7. s + 1 \notin m + 1 .. p - 1
      BY <2>3, <3>2, <3>3, <3>6
    <3>8. m - s \in 1 .. j - 1 /\ s + (m - s) = m
      BY <2>3, <2>5, <3>2, <3>5, <3>7
    <3>9. t[m - s] = row[m]
      BY <2>1, <2>3, <3>8
    <3>10. ASSUME NEW i \in (m - s) + 1 .. j - 1 PROVE t[i].id \notin Hands
      <4>1. s + i \in m + 1 .. p - 1 /\ i \in 1 .. n
        BY <2>3, <2>5, <3>8
      <4> QED BY <2>1, <3>2, <4>1
    <3>11. t[j].id # "bos"
      BY <2>6, <3>1
    <3> QED BY <3>2, <3>8, <3>9, <3>10, <3>11 DEF Writes
  <2> QED BY <2>6, <2>7, <2>8
<1> QED BY <1>2, <1>3

LEMMA MarkedScores == ASSUME Marked PROVE ScoredIsReply
<1> SUFFICES ASSUME NEW r \in Rows, NEW p \in 2 .. Capacity
             PROVE  (Targets(r)[p - 1] # "ignored") <=> Writes(Row(r), p)
  BY DEF ScoredIsReply
<1>1. r \in Nat /\ p \in 1 .. Capacity /\ p - 1 \in 1 .. Capacity - 1 /\ (p - 1) + 1 = p
  BY PackAssumption DEF Rows, PackAssumption
<1>2. Targets(r)[p - 1] = IF Row(r)[p].scored THEN Row(r)[p].id ELSE "ignored"
  BY <1>1 DEF Targets
<1>3. Row(r)[p] \in Tokens /\ (Row(r)[p].scored <=> Writes(Row(r), p))
  BY <1>1, RowMarked
<1>4. Row(r)[p].id # "ignored"
  BY <1>3 DEF Tokens, Ids
<1> QED BY <1>2, <1>3, <1>4

(* In every packed epoch, whatever the dataset files hold and however the  *)
(* mixture is shuffled, a target is ignored if and only if the model does  *)
(* not write the token (batch of tasks/pack.rs, the mask of chat.rs).      *)
THEOREM LossAlwaysOnReplies == Spec => []ScoredIsReply
<1>1. EpochInv => ScoredIsReply
  BY MarkedScores DEF EpochInv, ScoredIsReply
<1> QED BY <1>1, EpochInvariant, PTL

-----------------------------------------------------------------------------
(* scored_tokens: the scored tokens of the epoch, of its targets and of    *)
(* its conversations correspond one to one.                                *)

LEMMA SameSize ==
  ASSUME NEW S, NEW T, IsFiniteSet(S), NEW f \in [S -> T],
         \A x, y \in S : f[x] = f[y] => x = y,
         \A t \in T : \E x \in S : f[x] = t
  PROVE  Cardinality(T) = Cardinality(S)
<1>1. f \in Injection(S, T) /\ f \in Surjection(S, T)
  BY DEF Injection, Surjection, IsInjective
<1>2. ExistsBijection(S, T)
  BY <1>1 DEF ExistsBijection, Bijection
<1> QED BY <1>2, FS_Bijection

(* The cells of n rows of c are their pairs of a row and a column. *)
LEMMA CellInRange ==
  ASSUME NEW c \in Nat, c >= 1, NEW n \in Nat, NEW r \in 0 .. n - 1, NEW p \in 0 .. c - 1
  PROVE  r * c + p \in 0 .. n * c - 1 /\ (r * c + p) \div c = r
<1>1. r * c \in Nat /\ n * c \in Nat /\ (r + 1) * c = r * c + c
  OBVIOUS
<1>2. PICK d \in Nat : n = r + 1 + d
  <2>1. n - (r + 1) \in Nat /\ n = r + 1 + (n - (r + 1))
    OBVIOUS
  <2> QED BY <2>1
<1>3. n * c = (r + 1) * c + d * c /\ d * c \in Nat
  BY <1>2
<1>4. PICK x \in Nat : x = r * c + p
  BY <1>1
<1>5. r * c <= x /\ x < (r + 1) * c /\ x \in 0 .. n * c - 1
  BY <1>1, <1>3, <1>4
<1>6. x \div c = r
  BY <1>5, RowBetween
<1> QED BY <1>4, <1>5, <1>6

LEMMA CellOfRow ==
  ASSUME NEW c \in Nat, c >= 1, NEW n \in Nat, NEW q \in 0 .. n * c - 1
  PROVE  \E r \in 0 .. n - 1, p \in 0 .. c - 1 : q = r * c + p
<1>1. n * c \in Nat /\ q \in Nat /\ q < n * c
  <2>1. PICK w \in Nat : w = n * c
    OBVIOUS
  <2>2. q \in 0 .. w - 1
    BY <2>1
  <2> QED BY <2>1, <2>2
<1>2. PICK r \in Nat, p \in 0 .. c - 1 : r = q \div c /\ q = c * r + p
  <2>1. q \div c \in Nat /\ q % c \in 0 .. c - 1 /\ q = c * (q \div c) + (q % c)
    BY <1>1
  <2> QED BY <2>1
<1>3. r * c = c * r /\ r * c \in Nat
  OBVIOUS
<1>4. r * c <= q /\ q < (r + 1) * c
  BY <1>2, <1>3
<1>5. r < n
  <2>1. CASE n <= r
    <3>1. PICK d \in Nat : r = n + d
      <4>1. r - n \in Nat /\ r = n + (r - n)
        BY <2>1
      <4> QED BY <4>1
    <3>2. r * c = n * c + d * c /\ d * c \in Nat
      BY <3>1
    <3> QED BY <1>1, <1>3, <1>4, <3>2
  <2> QED BY <2>1
<1>6. r \in 0 .. n - 1
  BY <1>5
<1> QED BY <1>2, <1>3, <1>6

LEMMA ScoredTargets ==
  ASSUME Marked, pc = "done"
  PROVE  ScoredTokens = Cardinality({x \in Rows \X (1 .. Capacity - 1) :
                                       [r \in Rows |-> Targets(r)][x[1]][x[2]] # "ignored"})
<1> DEFINE columns == Rows \X (1 .. Capacity - 1)
           B == {x \in columns : [r \in Rows |-> Targets(r)][x[1]][x[2]] # "ignored"}
           A == {q \in 0 .. tokens - 1 : TokenAt(q).scored}
           f == [x \in B |-> x[1] * Capacity + x[2]]
<1>1. Capacity \in Nat /\ Capacity >= 2 /\ Capacity >= 1
  BY PackAssumption DEF PackAssumption
<1>2. PICK n \in Nat : tokens = n * Capacity
  BY DEF Marked, PackInv, OpenRow, Multiple
<1>3. Rows = 0 .. n - 1
  <2>1. tokens \div Capacity = n
    BY <1>1, <1>2, MultipleDivides
  <2> QED BY <2>1 DEF Rows
<1>4. ASSUME NEW r \in Rows, NEW p \in 1 .. Capacity
      PROVE  /\ r \in Nat /\ Row(r)[p] = TokenAt(r * Capacity + p - 1)
             /\ Row(r)[p] \in Tokens /\ (Row(r)[p].scored <=> Writes(Row(r), p))
  <2>1. r \in Nat
    BY <1>3
  <2>2. Row(r)[p] = TokenAt(r * Capacity + p - 1)
    BY DEF Row
  <2> QED BY <2>1, <2>2, RowMarked
<1>5. ASSUME NEW r \in Rows, NEW p \in 1 .. Capacity - 1
      PROVE  Targets(r)[p] # "ignored" <=> TokenAt(r * Capacity + p).scored
  <2>1. p + 1 \in 1 .. Capacity /\ r \in Nat
    BY <1>1, <1>3
  <2>2. Targets(r)[p] = IF Row(r)[p + 1].scored THEN Row(r)[p + 1].id ELSE "ignored"
    BY DEF Targets
  <2>3. Row(r)[p + 1] \in Tokens /\ Row(r)[p + 1] = TokenAt(r * Capacity + (p + 1) - 1)
    BY <1>4, <2>1
  <2>4. r * Capacity + (p + 1) - 1 = r * Capacity + p
    BY <1>1, <2>1
  <2>5. Row(r)[p + 1].id # "ignored"
    BY <2>3 DEF Tokens, Ids
  <2> QED BY <2>2, <2>3, <2>4, <2>5
<1>6. ASSUME NEW x \in B
      PROVE  /\ x[1] \in 0 .. n - 1 /\ x[2] \in 1 .. Capacity - 1 /\ x[2] \in 0 .. Capacity - 1
             /\ x = <<x[1], x[2]>> /\ f[x] = x[1] * Capacity + x[2] /\ f[x] \in A
  <2>1. x[1] \in Rows /\ x[2] \in 1 .. Capacity - 1 /\ x = <<x[1], x[2]>>
    OBVIOUS
  <2>2. Targets(x[1])[x[2]] # "ignored"
    BY <2>1
  <2>3. TokenAt(x[1] * Capacity + x[2]).scored
    BY <1>5, <2>1, <2>2
  <2>4. x[1] \in 0 .. n - 1 /\ x[2] \in 0 .. Capacity - 1
    BY <1>1, <1>3, <2>1
  <2>5. x[1] * Capacity + x[2] \in 0 .. tokens - 1
    BY <1>1, <1>2, <2>4, CellInRange
  <2>6. x[1] * Capacity + x[2] \in A
    BY <2>3, <2>5
  <2> QED BY <2>1, <2>4, <2>6
<1>7. f \in [B -> A]
  <2>1. f = [x \in B |-> f[x]]
    OBVIOUS
  <2> HIDE DEF f, A, B
  <2> QED BY <1>6, <2>1
<1>8. ASSUME NEW x \in B, NEW y \in B, f[x] = f[y] PROVE x = y
  <2> HIDE DEF f, A, B
  <2>1. f[x] \div Capacity = x[1] /\ f[y] \div Capacity = y[1]
    BY <1>1, <1>6, CellInRange
  <2>2. x[1] = y[1]
    BY <1>8, <2>1
  <2>3. PICK b \in Nat : b = x[1] * Capacity
    BY <1>1, <1>6
  <2>4. b + x[2] = b + y[2]
    BY <1>6, <1>8, <2>2, <2>3
  <2>5. x[2] = y[2]
    BY <1>6, <2>4
  <2> QED BY <1>6, <2>2, <2>5
<1>9. ASSUME NEW q \in A PROVE \E x \in B : f[x] = q
  <2>1. q \in 0 .. n * Capacity - 1 /\ TokenAt(q).scored
    BY <1>2
  <2>2. PICK r \in 0 .. n - 1, p \in 0 .. Capacity - 1 : q = r * Capacity + p
    BY <1>1, <2>1, CellOfRow
  <2>3. p # 0
    <3> SUFFICES ASSUME p = 0 PROVE FALSE
      OBVIOUS
    <3>1. r \in Rows /\ 1 \in 1 .. Capacity /\ q = r * Capacity + 1 - 1
      BY <1>1, <1>3, <2>2
    <3>2. Writes(Row(r), 1)
      BY <1>4, <2>1, <3>1
    <3> QED BY <3>2 DEF Writes
  <2>4. r \in Rows /\ p \in 1 .. Capacity - 1
    BY <1>1, <1>3, <2>2, <2>3
  <2>5. Targets(r)[p] # "ignored"
    BY <1>5, <2>1, <2>2, <2>4
  <2>6. <<r, p>> \in B
    BY <2>4, <2>5
  <2>7. f[<<r, p>>] = q
    BY <2>2, <2>6
  <2> QED BY <2>6, <2>7
<1>10. IsFiniteSet(B)
  <2>1. IsFiniteSet(0 .. n - 1) /\ IsFiniteSet(1 .. Capacity - 1)
    BY <1>1, FS_Interval
  <2>2. IsFiniteSet(columns)
    BY <1>3, <2>1, FS_Product
  <2>3. B \in SUBSET columns
    OBVIOUS
  <2> HIDE DEF B, columns
  <2> QED BY <2>2, <2>3, FS_Subset
<1>11. Cardinality(A) = Cardinality(B)
  <2> HIDE DEF A, B, f
  <2> QED BY <1>7, <1>8, <1>9, <1>10, SameSize
<1> QED BY <1>11 DEF ScoredTokens

LEMMA ScoredConversations ==
  ASSUME Marked, pc = "done"
  PROVE  ScoredTokens = Cardinality({x \in (DOMAIN rendered) \X (1 .. Capacity) :
                          x[2] \in DOMAIN rendered[x[1]] /\ rendered[x[1]][x[2]].scored})
<1> DEFINE pairs == (DOMAIN rendered) \X (1 .. Capacity)
           C == {x \in pairs : x[2] \in DOMAIN rendered[x[1]] /\ rendered[x[1]][x[2]].scored}
           A == {q \in 0 .. tokens - 1 : TokenAt(q).scored}
           f == [x \in C |-> at[x[1]] + x[2] - 1]
<1>1. Packed = DOMAIN rendered /\ tokens \in Nat
  <2>1. Packed = DOMAIN stream
    BY PackAssumption, InvariantWhole DEF Marked, PackedWhole
  <2> QED BY <2>1 DEF Marked, PackInv, PackTypes
<1>2. ASSUME NEW k \in DOMAIN rendered
      PROVE  /\ k \in Packed /\ at[k] \in Nat /\ stream[k] = Len(rendered[k])
             /\ stream[k] \in 1 .. Capacity /\ DOMAIN rendered[k] = 1 .. stream[k]
             /\ at[k] + stream[k] <= tokens
  <2>1. k \in Packed /\ k \in DOMAIN stream
    BY <1>1 DEF Packed
  <2>2. at[k] \in Nat /\ at[k] + stream[k] <= tokens
    BY <2>1 DEF Marked, PackInv, PackTypes, InOneRow, Packed
  <2>3. stream[k] = Len(rendered[k])
    BY DEF Marked
  <2>4. rendered[k] \in Seq(Tokens) /\ Len(rendered[k]) \in 1 .. Capacity
    BY LengthsFit DEF Marked
  <2>5. DOMAIN rendered[k] = 1 .. Len(rendered[k])
    BY <2>4, LenProperties
  <2> QED BY <2>1, <2>2, <2>3, <2>4, <2>5
<1>3. Capacity \in Nat
  BY PackAssumption DEF PackAssumption
<1>4. ASSUME NEW x \in C
      PROVE  /\ x[1] \in DOMAIN rendered /\ x[2] \in 1 .. stream[x[1]] /\ x = <<x[1], x[2]>>
             /\ f[x] = at[x[1]] + x[2] - 1 /\ f[x] \in Cells(x[1]) /\ f[x] \in A
  <2>1. /\ x[1] \in DOMAIN rendered /\ x = <<x[1], x[2]>>
        /\ x[2] \in DOMAIN rendered[x[1]] /\ rendered[x[1]][x[2]].scored
    OBVIOUS
  <2>2. PICK k \in DOMAIN rendered, p \in 1 .. Capacity : k = x[1] /\ p = x[2]
    BY <2>1
  <2>3. PICK q : q = at[k] + p - 1
    OBVIOUS
  <2>4. /\ p \in 1 .. stream[k] /\ k \in Packed /\ at[k] \in Nat /\ stream[k] \in Nat
        /\ at[k] + stream[k] <= tokens
    BY <1>2, <2>1, <2>2
  <2>5. q \in Cells(k) /\ q \in 0 .. tokens - 1 /\ q - at[k] + 1 = p
    BY <1>1, <2>3, <2>4 DEF Cells
  <2>6. TokenAt(q) = rendered[k][p]
    BY <2>4, <2>5, TokenOfCell
  <2>7. q \in A
    BY <2>1, <2>2, <2>5, <2>6
  <2> QED BY <2>1, <2>2, <2>3, <2>4, <2>5, <2>7
<1>5. f \in [C -> A]
  <2>1. f = [x \in C |-> f[x]]
    OBVIOUS
  <2> HIDE DEF f, A, C
  <2> QED BY <1>4, <2>1
<1>6. ASSUME NEW x \in C, NEW y \in C, f[x] = f[y] PROVE x = y
  <2> HIDE DEF f, A, C
  <2>1. PICK j \in Packed, k \in Packed : j = x[1] /\ k = y[1]
    BY <1>2, <1>4
  <2>2. /\ at[j] \in Nat /\ at[k] \in Nat /\ stream[j] \in Nat /\ stream[k] \in Nat
        /\ x[2] \in Nat /\ y[2] \in Nat
    BY <1>1, <1>2, <1>4, <2>1
  <2>3. j # k => at[j] + stream[j] <= at[k] \/ at[k] + stream[k] <= at[j]
    BY DEF Marked, PackInv, Apart
  <2>4. f[x] \in Cells(j) /\ f[x] \in Cells(k)
    BY <1>4, <1>6, <2>1
  <2>5. j = k
    BY <2>2, <2>3, <2>4 DEF Cells
  <2>6. at[j] + x[2] - 1 = at[j] + y[2] - 1
    BY <1>4, <1>6, <2>1, <2>5
  <2>7. x[2] = y[2]
    BY <2>2, <2>6
  <2> QED BY <1>4, <2>1, <2>5, <2>7
<1>7. ASSUME NEW q \in A PROVE \E x \in C : f[x] = q
  <2>1. q \in Nat /\ TokenAt(q).scored
    BY <1>1
  <2>2. PICK k \in Packed : q \in Cells(k)
    <3>1. Pad.scored = FALSE
      BY DEF Pad
    <3> QED BY <2>1, <3>1 DEF TokenAt
  <2>3. k \in DOMAIN rendered /\ TokenAt(q) = rendered[k][q - at[k] + 1]
    BY <1>1, <2>2, TokenOfCell
  <2>4. PICK p \in 1 .. stream[k] : p = q - at[k] + 1 /\ at[k] + p - 1 = q
    <3>1. at[k] \in Nat /\ stream[k] \in Nat
      BY <1>2, <2>3
    <3> QED BY <2>1, <2>2, <3>1 DEF Cells
  <2>5. p \in 1 .. Capacity /\ p \in DOMAIN rendered[k] /\ rendered[k][p].scored
    BY <1>2, <1>3, <2>1, <2>3, <2>4
  <2>6. <<k, p>> \in C
    BY <2>3, <2>5
  <2>7. f[<<k, p>>] = q
    BY <2>4, <2>6
  <2> QED BY <2>6, <2>7
<1>8. IsFiniteSet(C)
  <2>1. rendered \in Seq(WellMarked)
    BY DEF Marked
  <2>2. Len(rendered) \in Nat /\ DOMAIN rendered = 1 .. Len(rendered)
    BY <2>1, LenProperties
  <2>3. IsFiniteSet(DOMAIN rendered) /\ IsFiniteSet(1 .. Capacity)
    BY <1>3, <2>2, FS_Interval
  <2>4. IsFiniteSet(pairs)
    BY <2>3, FS_Product
  <2>5. C \in SUBSET pairs
    OBVIOUS
  <2> HIDE DEF C, pairs
  <2> QED BY <2>4, <2>5, FS_Subset
<1>9. Cardinality(A) = Cardinality(C)
  <2> HIDE DEF A, C, f
  <2> QED BY <1>5, <1>6, <1>7, <1>8, SameSize
<1> QED BY <1>9 DEF ScoredTokens

(* Every scored token of every conversation of the mixture is a target of  *)
(* the epoch, once: none falls in the column that the shift of batch drops *)
(* from a row, and scored_tokens is their number (pack_epoch and batch of  *)
(* tasks/pack.rs).                                                         *)
THEOREM ScoredAlwaysServed == Spec => []ScoredTokensServed
<1>1. ASSUME Marked PROVE ScoredTokensServed
  BY <1>1, ScoredTargets, ScoredConversations DEF ScoredTokensServed
<1>2. EpochInv => ScoredTokensServed
  BY <1>1 DEF EpochInv, ScoredTokensServed
<1> QED BY <1>2, EpochInvariant, PTL

(* Whatever loads from the dataset files, the packing never trips a guard  *)
(* of refill, and an epoch that is done has every conversation, whole.     *)
THEOREM EpochAlwaysPacked == Spec => [](pc # "panic" /\ PackedWhole)
<1>1. ASSUME pc = "refused", stream = <<>> PROVE pc # "panic" /\ PackedWhole
  <2>1. Packed = {}
    BY <1>1 DEF Packed
  <2> QED BY <1>1, <2>1 DEF PackedWhole
<1>2. ASSUME Marked PROVE pc # "panic" /\ PackedWhole
  BY <1>2, PackAssumption, InvariantWhole DEF Marked
<1>3. EpochInv => pc # "panic" /\ PackedWhole
  BY <1>1, <1>2 DEF EpochInv
<1> QED BY <1>3, EpochInvariant, PTL
=============================================================================
