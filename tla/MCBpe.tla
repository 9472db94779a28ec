------------------------------- MODULE MCBpe -------------------------------
(* Two bytes; every corpus of a word of up to 6 bytes, counted once or     *)
(* twice, and another one of up to 3; every piece of up to 6 bytes.        *)
EXTENDS BpeTokenizer

CONSTANTS LongWord, ShortWord, MaxCount

Strings(n) == UNION {[1 .. k -> 1 .. NumBytes] : k \in 1 .. n}
Word(tokens, count) == [tokens |-> tokens, count |-> count]

MCCorpora ==
  {<<Word(v, n), Word(w, 1)>> :
     v \in Strings(LongWord), w \in Strings(ShortWord), n \in 1 .. MaxCount}
  \ {<<Word(v, n), Word(v, 1)>> : v \in Strings(ShortWord), n \in 1 .. MaxCount}
MCPieces == Strings(LongWord)
=============================================================================
