---------------------------- MODULE ChatSession ----------------------------
(***************************************************************************)
(* Talking to the model: repl and chat_turn of chat.rs, and, as the        *)
(* training loop uses it for its samples, generate_ids of eval/sample.rs   *)
(* alone; both over Gpt::forward_with_cache and KvCache.                   *)
(*                                                                         *)
(* A token is known by its kind.  A row of the key/value buffers is known  *)
(* by the index of the token it was computed from; it was rotated for the  *)
(* position at which it stands, since both come from KvCache::pos.  All    *)
(* layers hold the same rows.                                              *)
(***************************************************************************)
EXTENDS Integers, Sequences, SequencesExt

CONSTANTS
  SeqLen,      \* sequence_len of the model
  MaxTokens,   \* --max-tokens, or the sample_tokens of the training loop
  MaxText,     \* bound: tokens of a line
  MaxPrompt    \* bound: tokens of a sample prompt

ASSUME SessionAssumption ==
  /\ SeqLen \in Nat \ {0} /\ MaxTokens \in Nat \ {0}
  /\ MaxText \in Nat \ {0} /\ MaxPrompt \in Nat

VARIABLES
  chat,       \* a session at the prompt, or one sample
  stop,       \* the stop ids of the generation
  pc,         \* prompt, feed, draw, overflow, failed, over
  ids,        \* the history and what was generated since
  base,       \* tokens before the generated ones
  budget,     \* tokens that may still be generated
  kv,         \* the rows of the buffers, 0 where nothing was written
  len,        \* KvCache::pos
  shown,      \* history: what the user was shown of this reply
  said        \* history: the finished turns of the conversation

vars == <<chat, stop, pc, ids, base, budget, kv, len, shown, said>>

-----------------------------------------------------------------------------
(* The wire format of a conversation. *)

Stops   == {"assistant_end", "bos"}
Emitted == Stops \cup {"text", "other"}  \* "other": any other special token
Text(n) == [i \in 1 .. n |-> "text"]

PushUserTurn(n) == <<"user_start">> \o Text(n) \o <<"user_end", "assistant_start">>

UserTurn(n) == <<"user_start">> \o Text(n) \o <<"user_end">>
AssistantTurn(reply) == <<"assistant_start">> \o reply \o <<"assistant_end">>
RenderConversation(turns) ==
  <<"bos">> \o FlattenSeq([k \in DOMAIN turns |->
                 UserTurn(turns[k].user) \o AssistantTurn(turns[k].reply)])

-----------------------------------------------------------------------------
(* generate_ids. *)

(* KvCache::new, sized to the longest context this call can reach. *)
Capacity(prefix, tokens) ==
  IF prefix + tokens < SeqLen THEN prefix + tokens ELSE SeqLen

Generate(prefix, tokens, stops) ==
  /\ ids' = prefix /\ base' = Len(prefix)
  /\ budget' = tokens /\ stop' = stops
  /\ kv' = [p \in 1 .. Capacity(Len(prefix), tokens) |-> 0] /\ len' = 0
  /\ shown' = <<>> /\ pc' = "feed"

(* feed_start: a history that has outgrown the context slides the window,  *)
(* which invalidates the cache.  Definitions named Mutant... are plausible *)
(* bugs, used by no specification.                                         *)
Crop == IF Len(ids) > SeqLen THEN Len(ids) - SeqLen ELSE 0
Pos  == IF Crop > 0 THEN 0 ELSE len

MutantStart == len
Start == IF Crop > 0 THEN Crop ELSE len

(* forward_with_cache: check_room, one write per layer, advance. *)
Span == Len(ids) - Start

HasRoom == Pos + Span <= Len(kv)

Feed ==
  /\ pc = "feed" /\ budget > 0
  /\ IF ~HasRoom
     THEN pc' = "overflow" /\ UNCHANGED <<kv, len>>
     ELSE /\ kv' = [p \in DOMAIN kv |-> IF p \in Pos + 1 .. Pos + Span
                                        THEN Start + p - Pos ELSE kv[p]]
          /\ len' = Pos + Span
          /\ pc' = "draw"
  /\ UNCHANGED <<chat, stop, ids, base, budget, shown, said>>

(* A stop token is kept but not shown. *)
Draw ==
  /\ pc = "draw"
  /\ \E token \in Emitted :
        /\ ids' = Append(ids, token)
        /\ budget' = IF token \in stop THEN 0 ELSE budget - 1
        /\ shown' = IF token \in stop THEN shown ELSE Append(shown, token)
  /\ pc' = "feed"
  /\ UNCHANGED <<chat, stop, base, kv, len, said>>

(* The forward pass or the output fails, which ends the program. *)
Fail ==
  /\ pc \in {"feed", "draw"} /\ (chat \/ budget > 0)
  /\ pc' = "failed"
  /\ UNCHANGED <<chat, stop, ids, base, budget, kv, len, shown, said>>

-----------------------------------------------------------------------------
(* repl and chat_turn. *)

MutantRoom(n) == SeqLen - Len(ids)
Room(n) == SeqLen - (Len(ids) + Len(PushUserTurn(n)))

ReadLine ==
  /\ chat /\ pc = "prompt"
  /\ \E n \in 1 .. MaxText :
       /\ Room(n) > 0
       /\ Generate(ids \o PushUserTurn(n),
                   IF MaxTokens < Room(n) THEN MaxTokens ELSE Room(n), Stops)
       /\ said' = Append(said, [user |-> n, reply |-> <<>>])
  /\ UNCHANGED chat

(* A turn that does not fit leaves the history alone; so does an empty line. *)
TurnRefused ==
  /\ chat /\ pc = "prompt" /\ \E n \in 1 .. MaxText : Room(n) <= 0
  /\ UNCHANGED vars

Clear ==
  /\ chat /\ pc = "prompt"
  /\ ids' = <<"bos">> /\ said' = <<>>
  /\ UNCHANGED <<chat, stop, pc, base, budget, kv, len, shown>>

Quit ==
  /\ chat /\ pc = "prompt" /\ pc' = "over"
  /\ UNCHANGED <<chat, stop, ids, base, budget, kv, len, shown, said>>

(* The reply joins the history, without <|bos|> and with its end token. *)
MutantTerminated(reply) ==
  IF reply # <<>> /\ Last(reply) \in Stops THEN reply
                                           ELSE Append(reply, "assistant_end")
Terminated(reply) ==
  LET popped == IF reply # <<>> /\ Last(reply) = "bos" THEN Front(reply) ELSE reply
  IN  IF popped # <<>> /\ Last(popped) = "assistant_end"
      THEN popped ELSE Append(popped, "assistant_end")

EndTurn ==
  /\ chat /\ pc = "feed" /\ budget = 0
  /\ ids' = SubSeq(ids, 1, base) \o Terminated(SubSeq(ids, base + 1, Len(ids)))
  /\ said' = [said EXCEPT ![Len(said)].reply = shown]
  /\ pc' = "prompt"
  /\ UNCHANGED <<chat, stop, base, budget, kv, len, shown>>

EndSample ==
  /\ ~chat /\ pc = "feed" /\ budget = 0
  /\ pc' = "over"
  /\ UNCHANGED <<chat, stop, ids, base, budget, kv, len, shown, said>>

Init ==
  /\ chat \in BOOLEAN
  /\ pc = IF chat THEN "prompt" ELSE "feed"
  /\ stop \in IF chat THEN {Stops} ELSE {Stops, {}}
  /\ \E n \in 0 .. MaxPrompt : ids = <<"bos">> \o Text(IF chat THEN 0 ELSE n)
  /\ base = Len(ids) /\ budget = IF chat THEN 0 ELSE MaxTokens
  /\ kv = [p \in 1 .. Capacity(base, budget) |-> 0] /\ len = 0
  /\ shown = <<>> /\ said = <<>>

Next ==
  \/ Feed \/ Draw \/ Fail \/ EndSample
  \/ ReadLine \/ TurnRefused \/ Clear \/ Quit \/ EndTurn
Spec == Init /\ [][Next]_vars

-----------------------------------------------------------------------------
(* Properties. *)

(* Every token is drawn from logits over exactly the last SeqLen tokens of *)
(* the history, each at its own position, whatever was cached, cropped or  *)
(* rebuilt before; and the cache never overflows.                          *)
ContextIsWindow ==
  /\ pc # "overflow"
  /\ pc = "draw" => SubSeq(kv, 1, len) =
                      [p \in 1 .. Len(ids) - Crop |-> Crop + p]

(* chat_turn: "the crop path is closed": in a conversation, however long,  *)
(* every token is drawn with <|bos|> and the whole history in view, and    *)
(* "the longest context any forward sees is seq_len - 1".                  *)
ChatNeverCrops ==
  chat /\ pc = "draw" => len = Len(ids) /\ len <= SeqLen - 1

(* Between turns the history is exactly how training would have rendered   *)
(* the conversation of what the user typed and was shown: a reply cut by   *)
(* the budget or ended by <|bos|> is closed as one that ended itself is,   *)
(* and clear forgets everything.                                           *)
HistoryIsRendered ==
  chat /\ pc = "prompt" => ids = RenderConversation(said)
=============================================================================
