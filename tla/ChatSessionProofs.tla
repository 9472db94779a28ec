-------------------------- MODULE ChatSessionProofs --------------------------
(***************************************************************************)
(* For every context length, budget and number of turns: the KV cache      *)
(* never overflows and always shows the window of the history, and a       *)
(* conversation never loses its beginning.  Then the history between two   *)
(* turns is what the renderer of the training data makes of them: every    *)
(* reply, however it ended, is a text without delimiters that the turn     *)
(* closes, and rendering a conversation is a concatenation of its turns.   *)
(***************************************************************************)
EXTENDS ChatSession, SequenceTheorems, FiniteSetTheorems, WellFoundedInduction, TLAPS

Kinds == {"user_start", "user_end", "assistant_start"} \cup Emitted

(* Shapes. *)
SessionTypes ==
  /\ chat \in BOOLEAN
  /\ pc \in {"prompt", "feed", "draw", "overflow", "failed", "over"}
  /\ ids \in Seq(Kinds) /\ base \in Nat /\ budget \in Nat
  /\ kv \in Seq(Nat) /\ len \in Nat
  /\ pc \in {"feed", "draw"} => base \in 1 .. Len(ids)

Generating == pc \in {"feed", "draw"} /\ budget > 0

(* The buffers have exactly the room that the rest of the reply can use. *)
CapacityFits == Generating => Len(kv) = Capacity(Len(ids), budget)

(* What is cached, before and after a forward pass.  Before it, a history  *)
(* that still fits has been cached up to its last token; one that has      *)
(* outgrown the context will be computed anew, so nothing is claimed.      *)
CachedPrefix ==
  pc = "feed" /\ budget > 0 /\ Len(ids) <= SeqLen =>
     len < Len(ids) /\ \A p \in 1 .. len : kv[p] = p

CachedWindow ==
  pc = "draw" =>
     /\ budget > 0
     /\ len = Len(ids) - Crop
     /\ \A p \in 1 .. len : kv[p] = Crop + p

(* chat_turn's budget leaves room for the whole reply. *)
ReplyFits == chat /\ Generating => Len(ids) + budget <= SeqLen

SessionInv ==
  /\ SessionTypes /\ CapacityFits /\ CachedPrefix /\ CachedWindow /\ ReplyFits
  /\ pc # "overflow"

-----------------------------------------------------------------------------
(* Sequences. *)

LEMMA FunctionIsSeq ==
  ASSUME NEW S, NEW n \in Nat, NEW f \in [1 .. n -> S]
  PROVE  f \in Seq(S) /\ Len(f) = n
BY SeqDef, LenProperties

LEMMA ConcatIsSeq ==
  ASSUME NEW S, NEW s \in Seq(S), NEW t \in Seq(S)
  PROVE  s \o t \in Seq(S) /\ Len(s \o t) = Len(s) + Len(t)
BY ConcatProperties

LEMMA TextIsSeq ==
  ASSUME NEW n \in Nat
  PROVE  Text(n) \in Seq(Kinds) /\ Len(Text(n)) = n
<1>1. Text(n) \in [1 .. n -> Kinds]
  BY DEF Text, Kinds, Emitted
<1>2. QED
  BY <1>1, FunctionIsSeq

LEMMA UserTurnIsSeq ==
  ASSUME NEW n \in Nat
  PROVE  PushUserTurn(n) \in Seq(Kinds) /\ Len(PushUserTurn(n)) = n + 3
<1>1. Text(n) \in Seq(Kinds) /\ Len(Text(n)) = n
  BY TextIsSeq
<1> DEFINE open == <<"user_start">>  close == <<"user_end", "assistant_start">>
<1>2. open \in Seq(Kinds) /\ Len(open) = 1 /\ close \in Seq(Kinds) /\ Len(close) = 2
  BY DEF Kinds
<1> HIDE DEF open, close
<1>3. open \o Text(n) \in Seq(Kinds) /\ Len(open \o Text(n)) = 1 + n
  BY <1>1, <1>2, ConcatIsSeq
<1> DEFINE opened == open \o Text(n)
<1> HIDE DEF opened
<1>4. opened \o close \in Seq(Kinds) /\ Len(opened \o close) = n + 3
  <2>1. opened \in Seq(Kinds) /\ Len(opened) = 1 + n
    BY <1>3 DEF opened
  <2>2. opened \o close \in Seq(Kinds) /\ Len(opened \o close) = Len(opened) + Len(close)
    BY <1>2, <2>1, ConcatIsSeq
  <2>3. QED
    BY <1>2, <2>1, <2>2
<1>5. QED
  BY <1>4 DEF PushUserTurn, opened, open, close

LEMMA TerminatedIsSeq ==
  ASSUME NEW reply \in Seq(Kinds)
  PROVE  Terminated(reply) \in Seq(Kinds)
<1> DEFINE popped == IF reply # <<>> /\ Last(reply) = "bos" THEN Front(reply) ELSE reply
<1>1. reply # <<>> => Front(reply) \in Seq(Kinds)
  BY EmptySeq, SubSeqProperties DEF Front
<1>2. popped \in Seq(Kinds)
  BY <1>1
<1> HIDE DEF popped
<1>3. Append(popped, "assistant_end") \in Seq(Kinds)
  <2>1. "assistant_end" \in Kinds
    BY DEF Kinds, Emitted, Stops
  <2>2. QED
    BY <1>2, <2>1, AppendProperties
<1>4. QED
  BY <1>2, <1>3 DEF Terminated, popped

(* The fresh buffers of a generation. *)
LEMMA FreshBuffers ==
  ASSUME NEW prefix \in Nat, NEW tokens \in Nat
  PROVE  /\ Capacity(prefix, tokens) \in Nat
         /\ [p \in 1 .. Capacity(prefix, tokens) |-> 0] \in Seq(Nat)
         /\ Len([p \in 1 .. Capacity(prefix, tokens) |-> 0]) = Capacity(prefix, tokens)
<1>1. Capacity(prefix, tokens) \in Nat
  BY SessionAssumption DEF Capacity
<1> DEFINE f == [p \in 1 .. Capacity(prefix, tokens) |-> 0]
<1>2. f \in [1 .. Capacity(prefix, tokens) -> Nat]
  OBVIOUS
<1> HIDE DEF f
<1>3. f \in Seq(Nat) /\ Len(f) = Capacity(prefix, tokens)
  BY <1>1, <1>2, FunctionIsSeq
<1>4. QED
  BY <1>1, <1>3 DEF f

-----------------------------------------------------------------------------
LEMMA InitSession == Init => SessionInv
<1> SUFFICES ASSUME Init PROVE SessionInv
  OBVIOUS
<1>1. PICK n \in 0 .. MaxPrompt : ids = <<"bos">> \o Text(IF chat THEN 0 ELSE n)
  BY DEF Init
<1> DEFINE m == IF chat THEN 0 ELSE n
<1>2. m \in Nat
  BY SessionAssumption
<1>3. Text(m) \in Seq(Kinds) /\ Len(Text(m)) = m
  BY <1>2, TextIsSeq
<1>4. ids \in Seq(Kinds) /\ Len(ids) = 1 + m
  <2>1. <<"bos">> \in Seq(Kinds) /\ Len(<<"bos">>) = 1
    BY DEF Kinds, Emitted, Stops
  <2>2. ids = <<"bos">> \o Text(m)
    BY <1>1
  <2>3. QED
    BY <2>1, <2>2, <1>3, ConcatIsSeq
<1> HIDE DEF m
<1>5. base = Len(ids) /\ base \in Nat /\ budget \in Nat /\ (budget > 0 => ~chat)
  BY <1>2, <1>4, SessionAssumption DEF Init
<1>6. /\ kv \in Seq(Nat) /\ Len(kv) = Capacity(Len(ids), budget) /\ len = 0
  BY <1>5, FreshBuffers DEF Init
<1>7. chat \in BOOLEAN /\ pc = (IF chat THEN "prompt" ELSE "feed")
  BY DEF Init
<1>8. QED
  BY <1>2, <1>4, <1>5, <1>6, <1>7
     DEF SessionInv, SessionTypes, CapacityFits, CachedPrefix, CachedWindow,
         ReplyFits, Generating

(* feed_start's two cases. *)
LEMMA FeedKeeps ==
  ASSUME SessionInv, Feed
  PROVE  SessionInv'
<1> USE DEF SessionInv
<1>1. /\ pc = "feed" /\ budget > 0 /\ budget \in Nat /\ len \in Nat /\ SeqLen \in Nat
      /\ Len(ids) \in Nat /\ Len(ids) >= 1 /\ Len(kv) \in Nat
      /\ Len(kv) = IF Len(ids) + budget < SeqLen THEN Len(ids) + budget ELSE SeqLen
  BY SessionAssumption, LenProperties
     DEF Feed, SessionTypes, CapacityFits, Generating, Capacity
<1>2. /\ Crop = (IF Len(ids) > SeqLen THEN Len(ids) - SeqLen ELSE 0)
      /\ Crop \in Nat
      /\ Pos \in Nat /\ Start \in Nat
      /\ Pos + Span = Len(ids) - Crop
      /\ Len(ids) - Crop \in Nat
      /\ Start - Pos = Crop
      /\ Pos <= Len(ids) - Crop
  <2>1. CASE Len(ids) > SeqLen
    BY <1>1, <2>1 DEF Crop, Pos, Start, Span
  <2>2. CASE ~(Len(ids) > SeqLen)
    <3>1. Crop = 0 /\ Pos = len /\ Start = len /\ Span = Len(ids) - len
      BY <1>1, <2>2 DEF Crop, Pos, Start, Span
    <3>2. len < Len(ids)
      BY <1>1, <2>2 DEF CachedPrefix
    <3>3. QED
      BY <1>1, <2>2, <3>1, <3>2
  <2>3. QED
    BY <2>1, <2>2
<1>3. Pos + Span <= Len(kv)
  BY <1>1, <1>2
<1>4. /\ kv' = [p \in DOMAIN kv |-> IF p \in Pos + 1 .. Pos + Span
                                    THEN Start + p - Pos ELSE kv[p]]
      /\ len' = Pos + Span /\ pc' = "draw"
      /\ UNCHANGED <<chat, ids, base, budget>>
  BY <1>3 DEF Feed, HasRoom
<1>5. kv' \in Seq(Nat) /\ Len(kv') = Len(kv)
  <2>1. DOMAIN kv = 1 .. Len(kv) /\ \A p \in 1 .. Len(kv) : kv[p] \in Nat
    BY LenProperties, ElementOfSeq DEF SessionTypes
  <2>2. \A p \in 1 .. Len(kv) :
           (IF p \in Pos + 1 .. Pos + Span THEN Start + p - Pos ELSE kv[p]) \in Nat
    BY <2>1, <1>1, <1>2
  <2>3. kv' \in [1 .. Len(kv) -> Nat]
    BY <2>1, <2>2, <1>4
  <2>4. QED
    BY <2>3, <1>1, FunctionIsSeq
<1>6. \A p \in 1 .. len' : kv'[p] = Crop' + p
  <2>1. DOMAIN kv = 1 .. Len(kv)
    BY LenProperties DEF SessionTypes
  <2>2. Crop' = Crop
    BY <1>4 DEF Crop
  <2> SUFFICES ASSUME NEW p \in 1 .. len' PROVE kv'[p] = Crop + p
    BY <2>2
  <2>3. p \in DOMAIN kv
    BY <2>1, <1>1, <1>2, <1>3, <1>4
  <2>4. CASE p > Pos
    <3>1. p \in Pos + 1 .. Pos + Span
      BY <2>4, <1>2, <1>4
    <3>2. kv'[p] = Start + p - Pos
      BY <3>1, <2>3, <1>4
    <3>3. QED
      BY <3>2, <1>2
  <2>5. CASE ~(p > Pos)
    <3>1. Crop = 0 /\ p \in 1 .. len
      BY <2>5, <1>1, <1>2 DEF Pos
    <3>2. kv'[p] = kv[p]
      BY <2>5, <2>3, <1>2, <1>4
    <3>3. kv[p] = p
      BY <3>1, <1>1, <1>2 DEF CachedPrefix
    <3>4. QED
      BY <3>1, <3>2, <3>3
  <2>6. QED
    BY <2>4, <2>5
<1>7. SessionTypes'
  BY <1>1, <1>2, <1>4, <1>5 DEF SessionTypes
<1>8. CapacityFits' /\ ReplyFits'
  BY <1>1, <1>4, <1>5 DEF CapacityFits, ReplyFits, Generating, Capacity
<1>9. CachedPrefix' /\ CachedWindow'
  BY <1>1, <1>2, <1>4, <1>6 DEF CachedPrefix, CachedWindow, Crop
<1>10. QED
  BY <1>4, <1>7, <1>8, <1>9

(* The new token is the only one that is not cached. *)
LEMMA DrawKeeps ==
  ASSUME SessionInv, Draw
  PROVE  SessionInv'
<1> USE DEF SessionInv
<1>1. PICK token \in Emitted :
        /\ ids' = Append(ids, token)
        /\ budget' = IF token \in stop THEN 0 ELSE budget - 1
  BY DEF Draw
<1>2. /\ pc = "draw" /\ pc' = "feed" /\ budget > 0 /\ budget \in Nat /\ len \in Nat
      /\ SeqLen \in Nat /\ Len(ids) \in Nat /\ UNCHANGED <<chat, base, kv, len>>
  BY SessionAssumption, LenProperties DEF Draw, CachedWindow, SessionTypes
<1>3. ids' \in Seq(Kinds) /\ Len(ids') = Len(ids) + 1
  <2>1. token \in Kinds
    BY DEF Kinds
  <2>2. QED
    BY <1>1, <2>1, AppendProperties DEF SessionTypes
<1>4. budget' \in Nat /\ (budget' > 0 => budget' = budget - 1)
  BY <1>1, <1>2
<1>5. SessionTypes'
  BY <1>2, <1>3, <1>4 DEF SessionTypes
<1>6. CapacityFits' /\ ReplyFits'
  BY <1>2, <1>3, <1>4 DEF CapacityFits, ReplyFits, Generating, Capacity
<1>7. CachedPrefix' /\ CachedWindow'
  BY <1>2, <1>3 DEF CachedPrefix, CachedWindow, Crop
<1>8. QED
  BY <1>2, <1>5, <1>6, <1>7

(* A turn is generated only within the room it leaves. *)
LEMMA ReadLineKeeps ==
  ASSUME SessionInv, ReadLine
  PROVE  SessionInv'
<1> USE DEF SessionInv
<1>1. PICK n \in 1 .. MaxText :
        /\ Room(n) > 0
        /\ Generate(ids \o PushUserTurn(n),
                    IF MaxTokens < Room(n) THEN MaxTokens ELSE Room(n), Stops)
  BY DEF ReadLine
<1> DEFINE prefix == ids \o PushUserTurn(n)
           tokens == IF MaxTokens < Room(n) THEN MaxTokens ELSE Room(n)
<1>2. prefix \in Seq(Kinds) /\ Len(prefix) = Len(ids) + Len(PushUserTurn(n))
      /\ Len(prefix) \in Nat /\ Len(prefix) >= 1
  <2>1. n \in Nat
    BY SessionAssumption
  <2>2. PushUserTurn(n) \in Seq(Kinds) /\ Len(PushUserTurn(n)) = n + 3
    BY <2>1, UserTurnIsSeq
  <2>3. QED
    BY <2>1, <2>2, ConcatIsSeq, LenProperties DEF SessionTypes
<1>3. Room(n) = SeqLen - Len(prefix) /\ SeqLen \in Nat /\ MaxTokens \in Nat
  BY <1>2, SessionAssumption DEF Room
<1>4. tokens \in Nat /\ tokens > 0 /\ Len(prefix) + tokens <= SeqLen
  <2>1. Room(n) > 0 /\ MaxTokens > 0
    BY <1>1, SessionAssumption
  <2>2. PICK l \in Nat : l = Len(prefix)
    BY <1>2
  <2>3. Room(n) = SeqLen - l /\ SeqLen \in Nat /\ MaxTokens \in Nat
    BY <1>3, <2>2
  <2>4. tokens \in Nat /\ tokens > 0 /\ l + tokens <= SeqLen
    BY <2>1, <2>3
  <2>5. QED
    BY <2>2, <2>4
<1>5. /\ ids' = prefix /\ base' = Len(prefix) /\ budget' = tokens
      /\ kv' = [p \in 1 .. Capacity(Len(prefix), tokens) |-> 0]
      /\ len' = 0 /\ pc' = "feed" /\ chat' = chat
  BY <1>1 DEF Generate, ReadLine
<1> HIDE DEF prefix, tokens
<1>6. kv' \in Seq(Nat) /\ Len(kv') = Capacity(Len(prefix), tokens)
  BY <1>2, <1>4, <1>5, FreshBuffers
<1>7. SessionTypes'
  BY <1>2, <1>4, <1>5, <1>6 DEF SessionTypes
<1>8. CapacityFits' /\ ReplyFits'
  BY <1>2, <1>4, <1>5, <1>6 DEF CapacityFits, ReplyFits, Generating
<1>9. CachedPrefix' /\ CachedWindow'
  BY <1>2, <1>5 DEF CachedPrefix, CachedWindow
<1>10. QED
  BY <1>5, <1>7, <1>8, <1>9

(* Nothing else generates. *)
LEMMA EndTurnKeeps ==
  ASSUME SessionInv, EndTurn
  PROVE  SessionInv'
<1> USE DEF SessionInv
<1>1. /\ pc = "feed" /\ pc' = "prompt" /\ UNCHANGED <<chat, base, budget, kv, len>>
      /\ ids' = SubSeq(ids, 1, base) \o Terminated(SubSeq(ids, base + 1, Len(ids)))
  BY DEF EndTurn
<1>2. Len(ids) \in Nat /\ base \in 1 .. Len(ids) /\ ids \in Seq(Kinds)
  BY <1>1, LenProperties DEF SessionTypes
<1>3. SubSeq(ids, 1, base) \in Seq(Kinds) /\ SubSeq(ids, base + 1, Len(ids)) \in Seq(Kinds)
  BY <1>2, SubSeqProperties
<1>4. ids' \in Seq(Kinds)
  BY <1>1, <1>3, TerminatedIsSeq, ConcatIsSeq
<1>5. QED
  BY <1>1, <1>4
     DEF SessionTypes, CapacityFits, CachedPrefix, CachedWindow, ReplyFits, Generating

LEMMA StepKeeps == SessionInv /\ [Next]_vars => SessionInv'
<1> SUFFICES ASSUME SessionInv, [Next]_vars PROVE SessionInv'
  OBVIOUS
<1> USE DEF SessionInv, SessionTypes, CapacityFits, CachedPrefix, CachedWindow,
            ReplyFits, Generating
<1>1. CASE Feed
  BY <1>1, FeedKeeps
<1>2. CASE Draw
  BY <1>2, DrawKeeps
<1>3. CASE ReadLine
  BY <1>3, ReadLineKeeps
<1>4. CASE EndTurn
  BY <1>4, EndTurnKeeps
<1>5. CASE Fail
  BY <1>5 DEF Fail
<1>6. CASE EndSample
  BY <1>6 DEF EndSample
<1>7. CASE Quit
  BY <1>7 DEF Quit
<1>8. CASE Clear
  <2>1. <<"bos">> \in Seq(Kinds)
    BY DEF Kinds, Emitted, Stops
  <2>2. QED
    BY <1>8, <2>1 DEF Clear
<1>9. CASE TurnRefused \/ UNCHANGED vars
  BY <1>9 DEF TurnRefused, vars, Crop
<1>10. QED
  BY <1>1, <1>2, <1>3, <1>4, <1>5, <1>6, <1>7, <1>8, <1>9 DEF Next

(* The inductive invariant of the session. *)
THEOREM SessionInvariant == Spec => []SessionInv
BY InitSession, StepKeeps, PTL DEF Spec

(* Every token is drawn from logits over exactly the last SeqLen tokens of *)
(* the history, each at its own position, and the cache never overflows.   *)
THEOREM ContextAlwaysWindow == Spec => []ContextIsWindow
<1>1. SessionInv => ContextIsWindow
  <2> SUFFICES ASSUME SessionInv, pc = "draw"
               PROVE  SubSeq(kv, 1, len) = [p \in 1 .. Len(ids) - Crop |-> Crop + p]
    BY DEF ContextIsWindow, SessionInv
  <2>1. /\ Len(ids) \in Nat /\ SeqLen \in Nat /\ SeqLen > 0 /\ budget \in Nat
        /\ kv \in Seq(Nat) /\ len \in Nat /\ budget > 0
        /\ len = Len(ids) - Crop /\ len <= Len(kv) /\ Len(kv) \in Nat
    BY LenProperties, SessionAssumption
       DEF SessionInv, SessionTypes, CachedWindow, CapacityFits, Generating, Capacity, Crop
  <2>2. /\ SubSeq(kv, 1, len) \in Seq(Nat)
        /\ Len(SubSeq(kv, 1, len)) = len
        /\ \A p \in 1 .. len : SubSeq(kv, 1, len)[p] = kv[p]
    BY <2>1, SubSeqProperties
  <2>3. \A p \in 1 .. len : kv[p] = Crop + p
    BY DEF SessionInv, CachedWindow
  <2>4. SubSeq(kv, 1, len) \in [1 .. len -> Nat]
    BY <2>2, LenProperties
  <2>5. QED
    BY <2>1, <2>2, <2>3, <2>4
<1>2. QED
  BY <1>1, SessionInvariant, PTL

(* In a conversation every token is drawn with <|bos|> and the whole       *)
(* history in view, and no forward pass sees more than SeqLen - 1 tokens.  *)
THEOREM ChatNeverCropped == Spec => []ChatNeverCrops
<1>1. SessionInv => ChatNeverCrops
  BY LenProperties, SessionAssumption
     DEF SessionInv, SessionTypes, CachedWindow, ReplyFits, Generating, Crop, ChatNeverCrops
<1>2. QED
  BY <1>1, SessionInvariant, PTL
-----------------------------------------------------------------------------
(* FlattenSeq is a recursive function over its argument: what it makes of  *)
(* a list with one more sequence is what it made of the list, and that     *)
(* sequence.                                                               *)

(* The initial segments of the numbers are finite sets ordered as the      *)
(* numbers are, so a set of numbers has a least one.                       *)
LEMMA LeastNatural ==
  ASSUME NEW S, S \subseteq Nat, S # {}
  PROVE  \E m \in S : \A n \in S : m <= n
<1> DEFINE U == {0 .. n : n \in S}
<1>1. U \subseteq FiniteSubsetsOf(Nat) /\ U # {}
  <2>1. \A n \in S : 0 .. n \subseteq Nat /\ IsFiniteSet(0 .. n)
    BY FS_Interval
  <2> QED
    BY <2>1 DEF FiniteSubsetsOf
<1>2. IsWellFoundedOn(StrictSubsetOrdering(Nat), FiniteSubsetsOf(Nat))
  BY FS_StrictSubsetOrderingWellFounded
<1>3. PICK s \in U : \A t \in U : ~(<<t, s>> \in StrictSubsetOrdering(Nat))
  <2> HIDE DEF U
  <2> QED
    BY <1>1, <1>2, WFMin
<1>4. PICK m \in S : s = 0 .. m
  OBVIOUS
<1>5. ASSUME NEW n \in S, ~(m <= n) PROVE FALSE
  <2>1. n \in Nat /\ m \in Nat /\ n < m
    BY <1>5
  <2>2. 0 .. n \subseteq 0 .. m /\ m \in 0 .. m /\ m \notin 0 .. n
    BY <2>1
  <2>3. 0 .. n \in U /\ 0 .. n # 0 .. m /\ 0 .. n \subseteq Nat /\ 0 .. m \subseteq Nat
    BY <2>1, <2>2
  <2>4. <<0 .. n, 0 .. m>> \in StrictSubsetOrdering(Nat)
    BY <2>2, <2>3 DEF StrictSubsetOrdering
  <2> QED
    BY <1>3, <1>4, <2>3, <2>4
<1> QED
  BY <1>5

(* What holds at zero, and at a number if at the one before it, holds at   *)
(* all of them.                                                            *)
LEMMA CountUp ==
  ASSUME NEW S, NEW n \in Nat, 0 \in S,
         \A k \in 0 .. n - 1 : k \in S => k + 1 \in S
  PROVE  \A k \in 0 .. n : k \in S
<1> DEFINE Missed == {k \in 0 .. n : k \notin S}
<1> SUFFICES ASSUME Missed # {} PROVE FALSE
  OBVIOUS
<1>1. Missed \subseteq Nat
  OBVIOUS
<1>2. PICK k \in Missed : \A j \in Missed : k <= j
  <2> HIDE DEF Missed
  <2> QED BY <1>1, LeastNatural
<1>3. k - 1 \in 0 .. n - 1
  BY <1>2
<1>4. k - 1 \in Missed
  BY <1>2, <1>3
<1> QED BY <1>2, <1>4

Joined(q) ==
  CHOOSE f : f = [i \in 1 .. Len(q) |-> IF i = 1 THEN q[i] ELSE f[i - 1] \o q[i]]

LEMMA JoinedExists ==
  ASSUME NEW q, Len(q) \in Nat
  PROVE  Joined(q) = [i \in 1 .. Len(q) |->
                        IF i = 1 THEN q[i] ELSE Joined(q)[i - 1] \o q[i]]
<1> DEFINE Def(f, n) == f = [i \in 1 .. n |-> IF i = 1 THEN q[i] ELSE f[i - 1] \o q[i]]
           S == {n \in Nat : \E f : Def(f, n)}
<1>1. 0 \in S
  <2>1. Def([i \in 1 .. 0 |-> q[i]], 0)
    OBVIOUS
  <2> HIDE DEF Def
  <2>2. \E f : Def(f, 0)
    BY <2>1
  <2> QED BY <2>2
<1>2. ASSUME NEW n \in Nat, n \in S PROVE n + 1 \in S
  <2>1. PICK f : Def(f, n)
    BY <1>2
  <2> DEFINE g == [i \in 1 .. n + 1 |->
                     IF i = n + 1 THEN (IF i = 1 THEN q[i] ELSE f[n] \o q[i]) ELSE f[i]]
  <2>2. ASSUME NEW i \in 1 .. n + 1
        PROVE  g[i] = IF i = 1 THEN q[i] ELSE g[i - 1] \o q[i]
    <3>1. CASE i = n + 1
      <4>1. g[i] = IF i = 1 THEN q[i] ELSE f[n] \o q[i]
        BY <3>1
      <4>2. i # 1 => i - 1 = n /\ n \in 1 .. n + 1 /\ n # n + 1
        BY <3>1
      <4>3. i # 1 => g[i - 1] = f[n]
        BY <4>2
      <4> QED BY <4>1, <4>3
    <3>2. CASE i # n + 1
      <4>1. i \in 1 .. n /\ g[i] = f[i]
        BY <3>2
      <4>2. i # 1 => i - 1 \in 1 .. n + 1 /\ i - 1 # n + 1
        BY <4>1
      <4>3. i # 1 => g[i - 1] = f[i - 1]
        BY <4>2
      <4> QED BY <2>1, <4>1, <4>3
    <3> QED BY <3>1, <3>2
  <2>3. Def(g, n + 1)
    <3>1. g = [i \in 1 .. n + 1 |-> g[i]]
      OBVIOUS
    <3> HIDE DEF g
    <3> QED BY <2>2, <3>1
  <2> HIDE DEF g, Def
  <2>4. \E f1 : Def(f1, n + 1)
    BY <2>3
  <2> QED BY <2>4
<1> HIDE DEF Def
<1>3. \E f : Def(f, Len(q))
  <2> HIDE DEF S
  <2>1. PICK n \in Nat : n = Len(q)
    OBVIOUS
  <2>2. \A k \in 0 .. n - 1 : k \in S => k + 1 \in S
    BY <1>2
  <2>3. n \in 0 .. n
    BY <2>1
  <2>4. n \in S
    BY <1>1, <2>1, <2>2, <2>3, CountUp
  <2> QED BY <2>1, <2>4 DEF S
<1>4. Joined(q) = CHOOSE f : Def(f, Len(q))
  BY DEF Joined, Def
<1>5. Def(Joined(q), Len(q))
  BY <1>3, <1>4
<1> QED BY <1>5 DEF Def

LEMMA FlattenIsJoined ==
  ASSUME NEW q, Len(q) # 0
  PROVE  FlattenSeq(q) = Joined(q)[Len(q)]
BY DEF FlattenSeq, Joined

LEMMA FlattenAppend ==
  ASSUME NEW S, NEW q \in Seq(Seq(S)), NEW s \in Seq(S)
  PROVE  /\ FlattenSeq(q) \in Seq(S)
         /\ FlattenSeq(Append(q, s)) = FlattenSeq(q) \o s
<1> DEFINE n == Len(q)  longer == Append(q, s)
<1>1. /\ n \in Nat /\ Len(longer) = n + 1 /\ longer[n + 1] = s
      /\ \A i \in 1 .. n : longer[i] = q[i] /\ q[i] \in Seq(S)
  BY AppendProperties, LenProperties, ElementOfSeq
<1> HIDE DEF n, longer
<1>2. /\ Joined(q) = [i \in 1 .. n |-> IF i = 1 THEN q[i] ELSE Joined(q)[i - 1] \o q[i]]
      /\ Joined(longer) = [i \in 1 .. n + 1 |->
                             IF i = 1 THEN longer[i] ELSE Joined(longer)[i - 1] \o longer[i]]
  <2>1. Joined(q) = [i \in 1 .. n |-> IF i = 1 THEN q[i] ELSE Joined(q)[i - 1] \o q[i]]
    BY <1>1, JoinedExists DEF n
  <2>2. Len(longer) \in Nat
    BY <1>1
  <2>3. Joined(longer) = [i \in 1 .. Len(longer) |->
                            IF i = 1 THEN longer[i] ELSE Joined(longer)[i - 1] \o longer[i]]
    BY <2>2, JoinedExists
  <2> QED BY <1>1, <2>1, <2>3
<1>3. CASE n = 0
  <2>1. q = <<>>
    BY <1>3, EmptySeq DEF n
  <2>2. FlattenSeq(q) = q
    BY <1>3 DEF FlattenSeq, n
  <2>3. FlattenSeq(longer) = Joined(longer)[1]
    <3>1. Len(longer) = 1
      BY <1>1, <1>3
    <3>2. FlattenSeq(longer) = Joined(longer)[Len(longer)]
      <4>1. Len(longer) # 0
        BY <3>1
      <4> QED BY <4>1, FlattenIsJoined
    <3> QED BY <3>1, <3>2
  <2>4. Joined(longer)[1] = s
    BY <1>1, <1>2, <1>3
  <2>5. FlattenSeq(q) \in Seq(S) /\ FlattenSeq(q) \o s = s
    <3>1. <<>> \in Seq(S) /\ <<>> \o s = s
      BY ConcatEmptySeq
    <3>2. FlattenSeq(q) = <<>>
      BY <2>1, <2>2
    <3> QED BY <3>1, <3>2
  <2>6. FlattenSeq(longer) = FlattenSeq(q) \o s
    BY <2>3, <2>4, <2>5
  <2> QED BY <2>5, <2>6 DEF longer
<1>4. CASE n # 0
  <2> DEFINE Same(i) == i \in 1 .. n => /\ Joined(longer)[i] = Joined(q)[i]
                                        /\ Joined(q)[i] \in Seq(S)
             I == {i \in 0 .. n : Same(i)}
  <2>1. 0 \in I
    BY <1>1
  <2>2. ASSUME NEW i \in 0 .. n - 1, i \in I PROVE i + 1 \in I
    <3>1. i + 1 \in 1 .. n /\ i + 1 \in 1 .. n + 1
      BY <1>1
    <3>2. CASE i = 0
      BY <1>1, <1>2, <3>1, <3>2
    <3>3. CASE i # 0
      <4>1. i \in 1 .. n /\ (i + 1) - 1 = i /\ i + 1 # 1
        BY <1>1, <3>3
      <4>2. /\ Joined(longer)[i + 1] = Joined(longer)[i] \o longer[i + 1]
            /\ Joined(q)[i + 1] = Joined(q)[i] \o q[i + 1]
        BY <1>2, <3>1, <4>1
      <4>3. Joined(longer)[i] = Joined(q)[i] /\ Joined(q)[i] \in Seq(S)
        BY <2>2, <4>1
      <4>4. longer[i + 1] = q[i + 1] /\ q[i + 1] \in Seq(S)
        BY <1>1, <3>1
      <4>5. Joined(q)[i + 1] \in Seq(S)
        BY <4>2, <4>3, <4>4, ConcatProperties
      <4>6. Joined(longer)[i + 1] = Joined(q)[i + 1]
        BY <4>2, <4>3, <4>4
      <4> QED BY <1>1, <3>1, <4>5, <4>6
    <3> QED BY <3>2, <3>3
  <2> HIDE DEF I
  <2>3. n \in I
    <3>1. n \in Nat /\ n \in 0 .. n
      BY <1>1
    <3>2. \A i \in 0 .. n : i \in I
      BY <2>1, <2>2, <3>1, CountUp
    <3> QED BY <3>1, <3>2
  <2>4. Joined(longer)[n] = Joined(q)[n] /\ Joined(q)[n] \in Seq(S)
    BY <1>1, <1>4, <2>3 DEF I
  <2>5. Joined(longer)[n + 1] = Joined(longer)[n] \o longer[n + 1]
    <3>1. n + 1 \in 1 .. n + 1 /\ (n + 1) - 1 = n /\ n + 1 # 1
      BY <1>1, <1>4
    <3> QED BY <1>2, <3>1
  <2>6. FlattenSeq(q) = Joined(q)[n]
    BY <1>4, FlattenIsJoined DEF n
  <2>7. FlattenSeq(longer) = Joined(longer)[n + 1]
    BY <1>1, FlattenIsJoined
  <2>8. FlattenSeq(longer) = FlattenSeq(q) \o s
    BY <1>1, <2>4, <2>5, <2>6, <2>7
  <2> QED BY <2>4, <2>6, <2>8 DEF longer
<1> QED BY <1>3, <1>4

-----------------------------------------------------------------------------
(* The history is what training would have rendered. *)

Turns == [user : Nat, reply : Seq(Kinds)]

(* How a generated reply may end: cut by the budget, or by a stop token.   *)
Tails == {<<>>, <<"assistant_end">>, <<"bos">>}

(* Between turns the history is rendered; during one it is the rendered    *)
(* past, the user's line, what was shown, and a stop token if the reply is *)
(* complete.                                                               *)
RenderInv ==
  chat =>
    /\ stop = Stops
    /\ pc = "prompt" => said \in Seq(Turns) /\ ids = RenderConversation(said)
    /\ pc \in {"feed", "draw"} =>
         /\ shown \in Seq(Emitted \ Stops)
         /\ \E past \in Seq(Turns), n \in Nat, tail \in Tails :
              /\ said = Append(past, [user |-> n, reply |-> <<>>])
              /\ base = Len(RenderConversation(past) \o PushUserTurn(n))
              /\ ids = (RenderConversation(past) \o PushUserTurn(n)) \o (shown \o tail)
              /\ tail # <<>> => budget = 0

LEMMA TurnIsSeq ==
  ASSUME NEW t \in Turns
  PROVE  /\ UserTurn(t.user) \in Seq(Kinds) /\ AssistantTurn(t.reply) \in Seq(Kinds)
         /\ UserTurn(t.user) \o AssistantTurn(t.reply) \in Seq(Kinds)
<1>1. t.user \in Nat /\ t.reply \in Seq(Kinds)
  BY DEF Turns
<1>2. Text(t.user) \in Seq(Kinds)
  BY <1>1, TextIsSeq
<1>3. /\ <<"user_start">> \in Seq(Kinds) /\ <<"user_end">> \in Seq(Kinds)
      /\ <<"assistant_start">> \in Seq(Kinds) /\ <<"assistant_end">> \in Seq(Kinds)
  <2>1. \A k \in Kinds : <<k>> \in Seq(Kinds)
    OBVIOUS
  <2>2. {"user_start", "user_end", "assistant_start", "assistant_end"} \subseteq Kinds
    BY DEF Kinds, Emitted, Stops
  <2> QED BY <2>1, <2>2
<1>4. UserTurn(t.user) \in Seq(Kinds)
  BY <1>2, <1>3, ConcatIsSeq DEF UserTurn
<1>5. AssistantTurn(t.reply) \in Seq(Kinds)
  BY <1>1, <1>3, ConcatIsSeq DEF AssistantTurn
<1> QED BY <1>4, <1>5, ConcatIsSeq

(* One more turn is appended to what was rendered. *)
LEMMA RenderAppend ==
  ASSUME NEW past \in Seq(Turns), NEW t \in Turns
  PROVE  /\ RenderConversation(past) \in Seq(Kinds)
         /\ RenderConversation(Append(past, t))
              = RenderConversation(past) \o (UserTurn(t.user) \o AssistantTurn(t.reply))
<1> DEFINE Both(u) == UserTurn(u.user) \o AssistantTurn(u.reply)
           q == [k \in DOMAIN past |-> Both(past[k])]
           longer == Append(past, t)
           n == Len(past)
<1>1. n \in Nat /\ DOMAIN past = 1 .. n /\ \A k \in 1 .. n : past[k] \in Turns
  BY LenProperties, ElementOfSeq
<1>2. \A u \in Turns : Both(u) \in Seq(Kinds)
  BY TurnIsSeq
<1>3. longer \in Seq(Turns) /\ DOMAIN longer = 1 .. n + 1 /\ longer[n + 1] = t
      /\ \A k \in 1 .. n : longer[k] = past[k]
  BY <1>1, AppendProperties, LenProperties
<1> HIDE DEF longer, n, Both
<1>4. q \in Seq(Seq(Kinds)) /\ Len(q) = n
  <2>1. q \in [1 .. n -> Seq(Kinds)]
    BY <1>1, <1>2
  <2> QED BY <1>1, <2>1, FunctionIsSeq
<1>5. [k \in DOMAIN longer |-> Both(longer[k])] = Append(q, Both(t))
  <2> DEFINE f == [k \in DOMAIN longer |-> Both(longer[k])]
             g == Append(q, Both(t))
  <2>1. f \in [1 .. n + 1 -> Seq(Kinds)]
    <3>1. \A k \in 1 .. n + 1 : longer[k] \in Turns
      BY <1>1, <1>3
    <3> QED BY <1>2, <1>3, <3>1
  <2>2. f \in Seq(Seq(Kinds)) /\ Len(f) = n + 1
    <3> HIDE DEF f
    <3> QED BY <1>1, <2>1, FunctionIsSeq
  <2>3. g \in Seq(Seq(Kinds)) /\ Len(g) = n + 1 /\ g[n + 1] = Both(t)
        /\ \A k \in 1 .. n : g[k] = q[k]
    BY <1>2, <1>4, AppendProperties
  <2>4. \A k \in 1 .. n : f[k] = q[k]
    BY <1>1, <1>3
  <2>5. f[n + 1] = Both(t)
    BY <1>1, <1>3
  <2> HIDE DEF f, g
  <2>6. \A k \in 1 .. n + 1 : f[k] = g[k]
    BY <1>1, <2>3, <2>4, <2>5
  <2>7. f = g
    BY <1>1, <2>2, <2>3, <2>6, SeqEqual
  <2> QED BY <2>7 DEF f, g
<1>6. /\ FlattenSeq(q) \in Seq(Kinds)
      /\ FlattenSeq(Append(q, Both(t))) = FlattenSeq(q) \o Both(t)
  <2> HIDE DEF q
  <2> QED BY <1>2, <1>4, FlattenAppend
<1>7. <<"bos">> \in Seq(Kinds)
  BY DEF Kinds, Emitted, Stops
<1>8. RenderConversation(past) = <<"bos">> \o FlattenSeq(q)
  BY DEF RenderConversation, Both
<1>9. RenderConversation(longer) = <<"bos">> \o FlattenSeq([k \in DOMAIN longer |-> Both(longer[k])])
  BY DEF RenderConversation, Both
<1> HIDE DEF q
<1>10. RenderConversation(past) \in Seq(Kinds)
  BY <1>6, <1>7, <1>8, ConcatIsSeq
<1>11. RenderConversation(longer) = (<<"bos">> \o FlattenSeq(q)) \o Both(t)
  <2>1. RenderConversation(longer) = <<"bos">> \o (FlattenSeq(q) \o Both(t))
    BY <1>5, <1>6, <1>9
  <2>2. Both(t) \in Seq(Kinds)
    BY <1>2
  <2> DEFINE b == <<"bos">>  fl == FlattenSeq(q)  bt == Both(t)
  <2>3. b \in Seq(Kinds) /\ fl \in Seq(Kinds) /\ bt \in Seq(Kinds)
    BY <1>6, <1>7, <2>2
  <2> HIDE DEF b, fl, bt
  <2>4. (b \o fl) \o bt = b \o (fl \o bt)
    BY <2>3, ConcatAssociative
  <2> QED BY <2>1, <2>4 DEF b, fl, bt
<1> QED BY <1>8, <1>10, <1>11 DEF longer, Both

LEMMA Associative ==
  ASSUME NEW a \in Seq(Kinds), NEW b \in Seq(Kinds), NEW c \in Seq(Kinds)
  PROVE  (a \o b) \o c = a \o (b \o c)
BY ConcatAssociative

(* A generated turn, closed, is the turn that would have been rendered. *)
LEMMA TurnCloses ==
  ASSUME NEW past \in Seq(Turns), NEW n \in Nat, NEW reply \in Seq(Kinds)
  PROVE  (RenderConversation(past) \o PushUserTurn(n)) \o Append(reply, "assistant_end")
           = RenderConversation(Append(past, [user |-> n, reply |-> reply]))
<1> DEFINE t == [user |-> n, reply |-> reply]
           us == <<"user_start">>  text == Text(n)  ue == <<"user_end">>
           as == <<"assistant_start">>  ae == <<"assistant_end">>
           rc == RenderConversation(past)
<1>1. t \in Turns /\ t.user = n /\ t.reply = reply
  BY DEF Turns
<1>2. rc \in Seq(Kinds) /\ RenderConversation(Append(past, t))
                             = rc \o (UserTurn(n) \o AssistantTurn(reply))
  BY <1>1, RenderAppend
<1>3. /\ us \in Seq(Kinds) /\ text \in Seq(Kinds) /\ ue \in Seq(Kinds)
      /\ as \in Seq(Kinds) /\ ae \in Seq(Kinds)
  BY TextIsSeq DEF Kinds, Emitted, Stops
<1>4. /\ UserTurn(n) = (us \o text) \o ue /\ AssistantTurn(reply) = (as \o reply) \o ae
      /\ PushUserTurn(n) = (us \o text) \o <<"user_end", "assistant_start">>
  BY DEF UserTurn, AssistantTurn, PushUserTurn
<1>5. <<"user_end", "assistant_start">> = ue \o as
  OBVIOUS
<1>6. Append(reply, "assistant_end") = reply \o ae
  BY AppendIsConcat, <1>3 DEF Kinds, Emitted, Stops
<1> HIDE DEF t, us, text, ue, as, ae, rc
<1>7. us \o text \in Seq(Kinds) /\ ue \o as \in Seq(Kinds) /\ reply \o ae \in Seq(Kinds)
      /\ as \o reply \in Seq(Kinds)
  BY <1>3, ConcatIsSeq
<1>8. ((us \o text) \o ue) \o ((as \o reply) \o ae)
        = ((us \o text) \o (ue \o as)) \o (reply \o ae)
  <2> DEFINE ut == us \o text
  <2>1. ut \in Seq(Kinds)
    BY <1>7
  <2> HIDE DEF ut
  <2>2. (as \o reply) \o ae = as \o (reply \o ae)
    BY <1>3, Associative
  <2>3. (ut \o (ue \o as)) \o (reply \o ae) = ut \o ((ue \o as) \o (reply \o ae))
    BY <1>7, <2>1, Associative
  <2>4. (ue \o as) \o (reply \o ae) = ue \o (as \o (reply \o ae))
    <3> DEFINE last == reply \o ae
    <3>1. ue \in Seq(Kinds) /\ as \in Seq(Kinds) /\ last \in Seq(Kinds)
      BY <1>3, <1>7
    <3> HIDE DEF last
    <3>2. (ue \o as) \o last = ue \o (as \o last)
      BY <3>1, Associative
    <3> QED BY <3>2 DEF last
  <2>5. as \o (reply \o ae) \in Seq(Kinds)
    BY <1>3, <1>7, ConcatIsSeq
  <2>6. (ut \o ue) \o (as \o (reply \o ae)) = ut \o (ue \o (as \o (reply \o ae)))
    BY <1>3, <2>1, <2>5, Associative
  <2>7. ((ut \o ue) \o ((as \o reply) \o ae)) = ((ut \o (ue \o as)) \o (reply \o ae))
    BY <2>2, <2>3, <2>4, <2>6
  <2> QED BY <2>7 DEF ut
<1>9. (us \o text) \o (ue \o as) \in Seq(Kinds)
  BY <1>7, ConcatIsSeq
<1>10. (rc \o ((us \o text) \o (ue \o as))) \o (reply \o ae)
         = rc \o (((us \o text) \o (ue \o as)) \o (reply \o ae))
  BY <1>2, <1>7, <1>9, Associative
<1> QED BY <1>2, <1>4, <1>5, <1>6, <1>8, <1>10 DEF t, rc

(* chat_turn closes every reply with exactly one end token. *)
LEMMA TerminatedReply ==
  ASSUME NEW reply \in Seq(Emitted \ Stops), NEW tail \in Tails
  PROVE  Terminated(reply \o tail) = Append(reply, "assistant_end")
<1>1. /\ Len(reply) \in Nat /\ \A k \in 1 .. Len(reply) : reply[k] \notin Stops
      /\ reply # <<>> => Last(reply) \notin Stops
  <2>1. Len(reply) \in Nat /\ \A k \in 1 .. Len(reply) : reply[k] \notin Stops
    BY LenProperties, ElementOfSeq
  <2>2. reply # <<>> => Len(reply) \in 1 .. Len(reply)
    BY <2>1, EmptySeq
  <2> QED BY <2>1, <2>2 DEF Last
<1>2. "bos" \in Stops /\ "assistant_end" \in Stops
  BY DEF Stops
<1>3. CASE tail = <<>>
  <2>1. reply \o tail = reply
    BY <1>3, ConcatEmptySeq
  <2> QED BY <1>1, <1>2, <2>1 DEF Terminated
<1>4. ASSUME NEW e, tail = <<e>>
      PROVE  /\ reply \o tail = Append(reply, e) /\ reply \o tail # <<>>
             /\ Last(reply \o tail) = e /\ Front(reply \o tail) = reply
  <2> DEFINE S == Emitted \cup {e}
             longer == Append(reply, e)
  <2>1. reply \in Seq(S) /\ e \in S
    BY SeqMonotonic
  <2>2. longer \in Seq(S) /\ Len(longer) = Len(reply) + 1 /\ longer[Len(reply) + 1] = e
        /\ \A k \in 1 .. Len(reply) : longer[k] = reply[k]
    BY <2>1, AppendProperties
  <2>3. reply \o tail = longer
    BY <1>4, <2>1, AppendIsConcat
  <2> HIDE DEF S, longer
  <2>4. longer # <<>> /\ Last(longer) = e
    BY <1>1, <2>2 DEF Last
  <2>5. SubSeq(longer, 1, Len(reply)) = reply
    <3> DEFINE front == SubSeq(longer, 1, Len(reply))
    <3>1. front \in Seq(S) /\ Len(front) = Len(reply)
          /\ \A k \in 1 .. Len(reply) : front[k] = longer[k]
      BY <1>1, <2>2, SubSeqProperties
    <3> HIDE DEF front
    <3>2. front = reply
      BY <2>1, <2>2, <3>1, SeqEqual
    <3> QED BY <3>2 DEF front
  <2>6. Front(longer) = reply
    BY <1>1, <2>2, <2>5 DEF Front
  <2> QED BY <2>3, <2>4, <2>6 DEF longer
<1>5. CASE tail = <<"assistant_end">>
  <2>1. /\ reply \o tail = Append(reply, "assistant_end") /\ reply \o tail # <<>>
        /\ Last(reply \o tail) = "assistant_end"
    BY <1>4, <1>5
  <2> QED BY <2>1 DEF Terminated
<1>6. CASE tail = <<"bos">>
  <2>1. /\ reply \o tail # <<>> /\ Last(reply \o tail) = "bos" /\ Front(reply \o tail) = reply
    BY <1>4, <1>6
  <2> QED BY <1>1, <1>2, <2>1 DEF Terminated
<1> QED BY <1>3, <1>5, <1>6 DEF Tails

(* A concatenation is cut where it was joined. *)
LEMMA SplitAt ==
  ASSUME NEW S, NEW s \in Seq(S), NEW t \in Seq(S)
  PROVE  /\ SubSeq(s \o t, 1, Len(s)) = s
         /\ SubSeq(s \o t, Len(s) + 1, Len(s \o t)) = t
<1> DEFINE c == s \o t  a == SubSeq(c, 1, Len(s))  b == SubSeq(c, Len(s) + 1, Len(c))
<1>1. /\ Len(s) \in Nat /\ Len(t) \in Nat /\ c \in Seq(S) /\ Len(c) = Len(s) + Len(t)
      /\ \A i \in 1 .. Len(s) : c[i] = s[i]
      /\ \A i \in 1 .. Len(t) : c[Len(s) + i] = t[i]
  BY ConcatProperties, LenProperties
<1> HIDE DEF c
<1>2. a \in Seq(S) /\ Len(a) = Len(s) /\ \A i \in 1 .. Len(s) : a[i] = c[i]
  BY <1>1, SubSeqProperties
<1>3. b \in Seq(S) /\ Len(b) = Len(t) /\ \A i \in 1 .. Len(t) : b[i] = c[Len(s) + i]
  <2>1. Len(s) + 1 \in 1 .. Len(c) + 1 /\ Len(c) \in Len(s) .. Len(c)
    BY <1>1
  <2>2. b \in Seq(S) /\ Len(b) = Len(c) - (Len(s) + 1) + 1
        /\ \A i \in 1 .. Len(c) - (Len(s) + 1) + 1 : b[i] = c[(Len(s) + 1) + i - 1]
    BY <1>1, <2>1, SubSeqProperties
  <2>3. Len(c) - (Len(s) + 1) + 1 = Len(t)
    BY <1>1
  <2>4. \A i \in 1 .. Len(t) : (Len(s) + 1) + i - 1 = Len(s) + i
    BY <1>1
  <2> HIDE DEF b
  <2> QED BY <2>2, <2>3, <2>4
<1> HIDE DEF a, b
<1>4. a = s
  BY <1>1, <1>2, SeqEqual
<1>5. b = t
  BY <1>1, <1>3, SeqEqual
<1> QED BY <1>4, <1>5 DEF a, b, c

LEMMA EmittedIsKind ==
  ASSUME NEW s \in Seq(Emitted \ Stops)
  PROVE  s \in Seq(Kinds)
<1>1. Emitted \ Stops \subseteq Kinds
  BY DEF Kinds
<1> QED BY <1>1, SeqMonotonic

(* The pieces of a turn in progress. *)
LEMMA PiecesAreSeqs ==
  ASSUME NEW past \in Seq(Turns), NEW n \in Nat, NEW reply \in Seq(Emitted \ Stops),
         NEW tail \in Tails
  PROVE  /\ RenderConversation(past) \o PushUserTurn(n) \in Seq(Kinds)
         /\ tail \in Seq(Kinds) /\ reply \o tail \in Seq(Kinds)
<1>1. RenderConversation(past) \in Seq(Kinds)
  <2>1. [user |-> 0, reply |-> <<>>] \in Turns
    BY DEF Turns
  <2> QED BY <2>1, RenderAppend
<1>2. PushUserTurn(n) \in Seq(Kinds)
  BY UserTurnIsSeq
<1>3. tail \in Seq(Kinds)
  <2>1. "assistant_end" \in Kinds /\ "bos" \in Kinds
    BY DEF Kinds, Emitted, Stops
  <2>2. <<>> \in Seq(Kinds) /\ <<"assistant_end">> \in Seq(Kinds) /\ <<"bos">> \in Seq(Kinds)
    BY <2>1
  <2> QED BY <2>2 DEF Tails
<1>4. reply \in Seq(Kinds)
  BY EmittedIsKind
<1> QED BY <1>1, <1>2, <1>3, <1>4, ConcatIsSeq

LEMMA InitRender == Init => RenderInv
<1> SUFFICES ASSUME Init, chat PROVE RenderInv
  BY DEF RenderInv
<1>1. stop = Stops /\ pc = "prompt" /\ said = <<>>
  BY DEF Init
<1>2. ids = <<"bos">> \o Text(0)
  BY DEF Init
<1>3. Text(0) = <<>>
  BY TextIsSeq, EmptySeq
<1>4. RenderConversation(<<>>) = <<"bos">> \o <<>>
  <2> DEFINE q == [k \in DOMAIN <<>> |-> UserTurn(<<>>[k].user) \o AssistantTurn(<<>>[k].reply)]
  <2>1. q = <<>>
    OBVIOUS
  <2>2. FlattenSeq(<<>>) = <<>>
    BY DEF FlattenSeq
  <2> HIDE DEF q
  <2>3. FlattenSeq(q) = <<>>
    BY <2>1, <2>2
  <2> QED BY <2>3 DEF RenderConversation, q
<1> QED BY <1>1, <1>2, <1>3, <1>4 DEF RenderInv

LEMMA ReadLineRender ==
  ASSUME RenderInv, ReadLine PROVE RenderInv'
<1>1. PICK n \in 1 .. MaxText :
        /\ Generate(ids \o PushUserTurn(n),
                    IF MaxTokens < Room(n) THEN MaxTokens ELSE Room(n), Stops)
        /\ said' = Append(said, [user |-> n, reply |-> <<>>])
  BY DEF ReadLine
<1>2. /\ chat /\ pc = "prompt" /\ chat' = chat /\ n \in Nat
      /\ said \in Seq(Turns) /\ ids = RenderConversation(said)
  BY SessionAssumption DEF ReadLine, RenderInv
<1> DEFINE prefix == RenderConversation(said) \o PushUserTurn(n)
<1>3. /\ ids' = prefix /\ base' = Len(prefix) /\ stop' = Stops /\ shown' = <<>> /\ pc' = "feed"
  BY <1>1, <1>2 DEF Generate
<1>4. <<>> \in Tails /\ <<>> \in Seq(Emitted \ Stops)
  BY DEF Tails
<1>5. prefix \in Seq(Kinds)
  BY <1>2, <1>4, PiecesAreSeqs
<1> HIDE DEF prefix
<1>6. <<>> \o <<>> = <<>> /\ prefix \o <<>> = prefix
  BY <1>5, ConcatEmptySeq
<1>7. ids' = prefix \o (shown' \o <<>>)
  BY <1>3, <1>6
<1>8. \E past \in Seq(Turns), m \in Nat, tail \in Tails :
         /\ said' = Append(past, [user |-> m, reply |-> <<>>])
         /\ base' = Len(RenderConversation(past) \o PushUserTurn(m))
         /\ ids' = (RenderConversation(past) \o PushUserTurn(m)) \o (shown' \o tail)
         /\ tail # <<>> => budget' = 0
  <2>1. /\ said' = Append(said, [user |-> n, reply |-> <<>>])
        /\ base' = Len(RenderConversation(said) \o PushUserTurn(n))
        /\ ids' = (RenderConversation(said) \o PushUserTurn(n)) \o (shown' \o <<>>)
    BY <1>1, <1>3, <1>7 DEF prefix
  <2> QED BY <1>2, <1>4, <2>1
<1> QED BY <1>2, <1>3, <1>4, <1>8 DEF RenderInv

(* A token is shown, or stops the reply, never both. *)
LEMMA DrawRender ==
  ASSUME SessionInv, RenderInv, Draw PROVE RenderInv'
<1> SUFFICES ASSUME chat PROVE RenderInv'
  BY DEF RenderInv, Draw
<1>1. /\ pc = "draw" /\ pc' = "feed" /\ budget # 0 /\ stop = Stops
      /\ UNCHANGED <<chat, stop, base, said>>
      /\ shown \in Seq(Emitted \ Stops)
  BY DEF Draw, RenderInv, SessionInv, CachedWindow
<1>2. PICK token \in Emitted :
        /\ ids' = Append(ids, token)
        /\ budget' = IF token \in stop THEN 0 ELSE budget - 1
        /\ shown' = IF token \in stop THEN shown ELSE Append(shown, token)
  BY DEF Draw
<1>3. PICK past \in Seq(Turns), n \in Nat, tail \in Tails :
         /\ said = Append(past, [user |-> n, reply |-> <<>>])
         /\ base = Len(RenderConversation(past) \o PushUserTurn(n))
         /\ ids = (RenderConversation(past) \o PushUserTurn(n)) \o (shown \o tail)
         /\ tail # <<>> => budget = 0
  BY <1>1 DEF RenderInv
<1> DEFINE prefix == RenderConversation(past) \o PushUserTurn(n)
<1>4. tail = <<>> /\ prefix \in Seq(Kinds) /\ shown \in Seq(Kinds) /\ token \in Kinds
  BY <1>1, <1>3, PiecesAreSeqs, EmittedIsKind DEF Kinds
<1> HIDE DEF prefix
<1>5. ids' = prefix \o (shown \o <<token>>)
  <2>1. ids = prefix \o shown
    BY <1>3, <1>4, ConcatEmptySeq DEF prefix
  <2>2. prefix \o shown \in Seq(Kinds) /\ <<token>> \in Seq(Kinds)
    BY <1>4, ConcatIsSeq
  <2>3. ids' = (prefix \o shown) \o <<token>>
    BY <1>2, <1>4, <2>1, <2>2, AppendIsConcat
  <2> QED BY <1>4, <2>2, <2>3, Associative
<1>6. CASE token \in Stops
  <2>1. <<token>> \in Tails /\ shown' = shown /\ budget' = 0
    BY <1>1, <1>2, <1>6 DEF Tails, Stops
  <2>2. \E p \in Seq(Turns), m \in Nat, t \in Tails :
         /\ said' = Append(p, [user |-> m, reply |-> <<>>])
         /\ base' = Len(RenderConversation(p) \o PushUserTurn(m))
         /\ ids' = (RenderConversation(p) \o PushUserTurn(m)) \o (shown' \o t)
         /\ t # <<>> => budget' = 0
    <3>1. /\ said' = Append(past, [user |-> n, reply |-> <<>>])
          /\ base' = Len(RenderConversation(past) \o PushUserTurn(n))
          /\ ids' = (RenderConversation(past) \o PushUserTurn(n)) \o (shown' \o <<token>>)
      BY <1>1, <1>3, <1>5, <2>1 DEF prefix
    <3> QED BY <2>1, <3>1
  <2> QED BY <1>1, <2>1, <2>2 DEF RenderInv
<1>7. CASE token \notin Stops
  <2>1. shown' = Append(shown, token) /\ token \in Emitted \ Stops
    BY <1>1, <1>2, <1>7
  <2>2. shown' \in Seq(Emitted \ Stops)
    BY <1>1, <2>1, AppendProperties
  <2>3. shown' = shown \o <<token>> /\ shown' \o <<>> = shown'
    BY <1>1, <2>1, <2>2, AppendIsConcat, ConcatEmptySeq
  <2>4. <<>> \in Tails
    BY DEF Tails
  <2>5. \E p \in Seq(Turns), m \in Nat, t \in Tails :
         /\ said' = Append(p, [user |-> m, reply |-> <<>>])
         /\ base' = Len(RenderConversation(p) \o PushUserTurn(m))
         /\ ids' = (RenderConversation(p) \o PushUserTurn(m)) \o (shown' \o t)
         /\ t # <<>> => budget' = 0
    <3>1. /\ said' = Append(past, [user |-> n, reply |-> <<>>])
          /\ base' = Len(RenderConversation(past) \o PushUserTurn(n))
          /\ ids' = (RenderConversation(past) \o PushUserTurn(n)) \o (shown' \o <<>>)
      BY <1>1, <1>3, <1>5, <2>3 DEF prefix
    <3> QED BY <2>4, <3>1
  <2> QED BY <1>1, <2>2, <2>5 DEF RenderInv
<1> QED BY <1>6, <1>7

LEMMA EndTurnRender ==
  ASSUME RenderInv, EndTurn PROVE RenderInv'
<1>1. /\ chat /\ pc = "feed" /\ pc' = "prompt" /\ UNCHANGED <<chat, stop>> /\ stop = Stops
      /\ ids' = SubSeq(ids, 1, base) \o Terminated(SubSeq(ids, base + 1, Len(ids)))
      /\ said' = [said EXCEPT ![Len(said)].reply = shown]
      /\ shown \in Seq(Emitted \ Stops)
  BY DEF EndTurn, RenderInv
<1>2. PICK past \in Seq(Turns), n \in Nat, tail \in Tails :
         /\ said = Append(past, [user |-> n, reply |-> <<>>])
         /\ base = Len(RenderConversation(past) \o PushUserTurn(n))
         /\ ids = (RenderConversation(past) \o PushUserTurn(n)) \o (shown \o tail)
  BY <1>1 DEF RenderInv
<1> DEFINE prefix == RenderConversation(past) \o PushUserTurn(n)
<1>3. prefix \in Seq(Kinds) /\ shown \o tail \in Seq(Kinds) /\ shown \in Seq(Kinds)
  BY <1>1, PiecesAreSeqs, EmittedIsKind
<1>4. ids' = prefix \o Append(shown, "assistant_end")
  <2> HIDE DEF prefix
  <2>1. /\ SubSeq(ids, 1, base) = prefix
        /\ SubSeq(ids, base + 1, Len(ids)) = shown \o tail
    <3>1. ids = prefix \o (shown \o tail) /\ base = Len(prefix)
      BY <1>2 DEF prefix
    <3> DEFINE gen == shown \o tail
    <3>2. gen \in Seq(Kinds)
      BY <1>3
    <3> HIDE DEF gen
    <3>3. /\ SubSeq(prefix \o gen, 1, Len(prefix)) = prefix
          /\ SubSeq(prefix \o gen, Len(prefix) + 1, Len(prefix \o gen)) = gen
      BY <1>3, <3>2, SplitAt
    <3> QED BY <3>1, <3>3 DEF gen
  <2> QED BY <1>1, <2>1, TerminatedReply
<1>5. ids' = RenderConversation(Append(past, [user |-> n, reply |-> shown]))
  BY <1>3, <1>4, TurnCloses
<1>6. said' = Append(past, [user |-> n, reply |-> shown])
  <2> DEFINE old == [user |-> n, reply |-> <<>>]  new == [user |-> n, reply |-> shown]
  <2>1. old \in Turns /\ new \in Turns
    BY <1>3 DEF Turns
  <2>2. /\ Len(past) \in Nat /\ Len(said) = Len(past) + 1
        /\ said \in Seq(Turns) /\ said[Len(past) + 1] = old
        /\ \A k \in 1 .. Len(past) : said[k] = past[k]
    BY <1>2, <2>1, AppendProperties, LenProperties
  <2>3. DOMAIN said = 1 .. Len(past) + 1
    BY <2>2, LenProperties
  <2> DEFINE a == Append(past, new)
  <2>4. /\ a \in Seq(Turns) /\ Len(a) = Len(past) + 1 /\ a[Len(past) + 1] = new
        /\ \A k \in 1 .. Len(past) : a[k] = past[k]
    BY <2>1, AppendProperties
  <2>5. said'[Len(past) + 1] = new
    BY <1>1, <2>2, <2>3
  <2>6. \A k \in 1 .. Len(past) : said'[k] = said[k]
    BY <1>1, <2>2, <2>3
  <2>7. DOMAIN said' = 1 .. Len(past) + 1 /\ DOMAIN a = 1 .. Len(past) + 1
    BY <1>1, <2>3, <2>4, LenProperties
  <2> HIDE DEF a, old, new
  <2>8. \A k \in 1 .. Len(past) + 1 : said'[k] = a[k]
    BY <2>2, <2>4, <2>5, <2>6
  <2>9. said' = [k \in DOMAIN said' |-> said'[k]] /\ a = [k \in DOMAIN a |-> a[k]]
    <3>1. said' = [k \in DOMAIN said' |-> said'[k]]
      BY <1>1
    <3>2. a = [k \in DOMAIN a |-> a[k]]
      BY <2>4, LenProperties
    <3> QED BY <3>1, <3>2
  <2>10. said' = a
    BY <2>7, <2>8, <2>9
  <2> QED BY <2>10 DEF a, new
<1>7. said' \in Seq(Turns)
  <2>1. [user |-> n, reply |-> shown] \in Turns
    BY <1>3 DEF Turns
  <2> QED BY <1>6, <2>1, AppendProperties
<1> QED BY <1>1, <1>5, <1>6, <1>7 DEF RenderInv

LEMMA RenderStep == SessionInv /\ RenderInv /\ [Next]_vars => RenderInv'
<1> SUFFICES ASSUME SessionInv, RenderInv, [Next]_vars PROVE RenderInv'
  OBVIOUS
<1>1. CASE Feed
  <2>1. pc = "feed" /\ pc' # "prompt" /\ UNCHANGED <<chat, stop, ids, base, budget, shown, said>>
    BY <1>1 DEF Feed
  <2> QED BY <2>1 DEF RenderInv
<1>2. CASE Draw
  BY <1>2, DrawRender
<1>3. CASE ReadLine
  BY <1>3, ReadLineRender
<1>4. CASE EndTurn
  BY <1>4, EndTurnRender
<1>5. CASE Fail \/ EndSample \/ Quit
  <2>1. pc' \in {"failed", "over"} /\ UNCHANGED <<chat, stop>>
    BY <1>5 DEF Fail, EndSample, Quit
  <2> QED BY <2>1 DEF RenderInv
<1>6. CASE Clear
  <2>1. ids' = <<"bos">> /\ said' = <<>> /\ UNCHANGED <<chat, stop, pc>> /\ pc = "prompt"
    BY <1>6 DEF Clear
  <2>2. RenderConversation(<<>>) = <<"bos">>
    <3>1. [k \in DOMAIN <<>> |-> UserTurn(<<>>[k].user) \o AssistantTurn(<<>>[k].reply)] = <<>>
      OBVIOUS
    <3>2. FlattenSeq(<<>>) = <<>>
      BY DEF FlattenSeq
    <3>3. <<"bos">> \o <<>> = <<"bos">>
      OBVIOUS
    <3> QED BY <3>1, <3>2, <3>3 DEF RenderConversation
  <2> QED BY <2>1, <2>2 DEF RenderInv
<1>7. CASE TurnRefused \/ UNCHANGED vars
  <2>1. UNCHANGED <<chat, stop, pc, ids, base, budget, shown, said>>
    BY <1>7 DEF TurnRefused, vars
  <2> QED BY <2>1 DEF RenderInv
<1> QED BY <1>1, <1>2, <1>3, <1>4, <1>5, <1>6, <1>7 DEF Next

(* Between turns the history is what training would have rendered, for     *)
(* every conversation, budget and context (chat_turn, push_user_turn).     *)
THEOREM HistoryAlwaysRendered == Spec => []HistoryIsRendered
<1>1. RenderInv => HistoryIsRendered
  BY DEF RenderInv, HistoryIsRendered
<1> QED BY <1>1, InitRender, InitSession, RenderStep, StepKeeps, PTL DEF Spec
=============================================================================
