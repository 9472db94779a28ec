----------------------------- MODULE ChatRender -----------------------------
(***************************************************************************)
(* render_conversation of tokenizer/chat.rs: a conversation as tokens, each *)
(* with the mask that says whether the loss scores it.  Of a text only the *)
(* number of its tokens matters; a token is known by the delimiter it is,  *)
(* or by the kind of text it comes from.                                   *)
(***************************************************************************)
EXTENDS Integers, Sequences, SequencesExt

CONSTANT SepTokens  \* bound: what the blank line after a system text encodes to

ASSUME RenderAssumption == SepTokens \in Nat

Text(n)      == [kind |-> "text", n |-> n]
Parts(parts) == [kind |-> "parts", parts |-> parts]
Message(role, content) == [role |-> role, content |-> content]

-----------------------------------------------------------------------------
(* The conversations that render. *)

HasSystem(conv) == conv # <<>> /\ conv[1].role = "system"

(* A leading system text is merged into the user message after it. *)
Merged(conv) ==
  IF HasSystem(conv)
  THEN <<Message("user", Text(conv[1].content.n + SepTokens + conv[2].content.n))>>
         \o SubSeq(conv, 3, Len(conv))
  ELSE conv

Expected(logical) == IF logical % 2 = 1 THEN "user" ELSE "assistant"

Renders(conv) ==
  /\ conv # <<>>
  /\ HasSystem(conv) =>
       /\ conv[1].content.kind = "text" /\ Len(conv) >= 2
       /\ conv[2].role = "user" /\ conv[2].content.kind = "text"
  /\ \A i \in DOMAIN Merged(conv) :
       /\ Merged(conv)[i].role = Expected(i)
       /\ Expected(i) = "user" => Merged(conv)[i].content.kind = "text"

-----------------------------------------------------------------------------
(* The turns. *)

Push(id, scored)      == <<[id |-> id, scored |-> scored]>>
Encoded(id, n, scored) == [k \in 1 .. n |-> [id |-> id, scored |-> scored]]

UserTurn(n) ==
  Push("user_start", FALSE) \o Encoded("user", n, FALSE) \o Push("user_end", FALSE)

(* A tool call is the model's own, its output is injected.  Definitions    *)
(* named Mutant... are plausible bugs, used by no specification.           *)
MutantOutput(n) ==
  Push("output_start", FALSE) \o Encoded("output", n, FALSE) \o Push("output_end", TRUE)
Output(n) ==
  Push("output_start", FALSE) \o Encoded("output", n, FALSE) \o Push("output_end", FALSE)

PartTokens(part) ==
  CASE part.kind = "text"   -> Encoded("reply", part.n, TRUE)
    [] part.kind = "python" ->
         Push("python_start", TRUE) \o Encoded("python", part.n, TRUE) \o Push("python_end", TRUE)
    [] part.kind = "output" -> Output(part.n)

AssistantTurn(content) ==
  Push("assistant_start", FALSE)
    \o (IF content.kind = "text" THEN Encoded("reply", content.n, TRUE)
        ELSE FlattenSeq([i \in DOMAIN content.parts |-> PartTokens(content.parts[i])]))
    \o Push("assistant_end", TRUE)

Turn(message) ==
  IF message.role = "user" THEN UserTurn(message.content.n) ELSE AssistantTurn(message.content)

(* finish truncates the tokens and the mask alike. *)
Finish(tokens, max_tokens) ==
  SubSeq(tokens, 1, IF Len(tokens) < max_tokens THEN Len(tokens) ELSE max_tokens)

RenderConversation(conv, max_tokens) ==
  LET messages == Merged(conv)
  IN  Finish(Push("bos", FALSE) \o FlattenSeq([i \in DOMAIN messages |-> Turn(messages[i])]),
             max_tokens)
=============================================================================
