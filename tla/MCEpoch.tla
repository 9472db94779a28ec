------------------------------- MODULE MCEpoch -------------------------------
(* Epochs of two SmolTalk conversations out of a menu with an identity     *)
(* file taken twice, an MMLU question and a GSM8K answer with a tool call; *)
(* validation mixtures under three budgets; files that do not load and     *)
(* conversations that do not render.                                       *)
EXTENDS SftEpoch

MCCaps == [d \in {"smoltalk", "mmlu", "gsm8k"} |-> IF d = "smoltalk" THEN 3 ELSE 2]

Says(role, n) == [role |-> role, n |-> n]
Talk(messages) == [null |-> FALSE, messages |-> messages]

Menu == {
  Talk(<<Says("user", 1)>>),
  Talk(<<Says("user", 1), Says("assistant", 0)>>),
  Talk(<<Says("user", 1), Says("assistant", 7)>>),
  Talk(<<Says("system", 1), Says("user", 1), Says("assistant", 1)>>),
  Talk(<<Says("user", 0), Says("assistant", 1), Says("user", 1), Says("assistant", 1)>>) }
Short == {Talk(<<Says("user", 1)>>), Talk(<<Says("user", 1), Says("assistant", 0)>>)}
Broken == {
  Talk(<<Says("user", 1), Says("user", 1)>>),
  Talk(<<Says("system", 1)>>), Talk(<<>>),
  Talk(<<Says("tool", 1)>>),
  [null |-> TRUE, messages |-> <<>>] }

Line == [blank |-> FALSE, json |-> TRUE, messages |-> <<Says("user", 1), Says("assistant", 1)>>]
Blank == [blank |-> TRUE, json |-> FALSE, messages |-> <<>>]
Question == [null |-> FALSE, question |-> 1, choices |-> <<1, 0, 0, 0>>, answer |-> 2]
Call(expr, result) == [kind |-> "call", expr |-> expr, result |-> result]
Answers == {
  <<Call(1, 1), Text(0)>>, <<Text(1), Call(1, 0), Text(1)>>, <<Call(0, 0), Text(2)>>}
Problem(answer) == [null |-> FALSE, question |-> 0, answer |-> answer]

Base(mode, smoltalk, mmlu, gsm8k, epochs, budget) ==
  LET files == [smoltalk |-> smoltalk, mmlu |-> mmlu, gsm8k |-> gsm8k,
                identity |-> <<<<Line, Blank>>>>]
  IN  [mode |-> mode, train |-> files, test |-> files, epochs |-> epochs, budget |-> budget]

One(row) == <<<<row>>>>
Epochs(m, g) == [mmlu |-> m, gsm8k |-> g]

MCFiles ==
  {Base("train", <<<<a>>, <<b>>>>, <<>>, One(Problem(g)), Epochs(0, 1), 0) :
     a \in Menu, b \in Short, g \in Answers}
  \cup {Base("train", <<<<a>>>>, One(Question), One(Problem(g)), Epochs(1, 1), 0) :
     a \in Menu, g \in Answers}
  \cup {Base("train", One(a), One(Question), <<>>, Epochs(1, 0), 0) : a \in Broken}
  \cup {Base("train", One(a), m, <<>>, Epochs(1, 0), 0) :
     a \in Menu, m \in {<<>>, One([Question EXCEPT !.answer = 4])}}
  \cup {Base("val", <<<<b, c>>, <<a>>>>, <<<<Question, Question>>>>, One(Problem(<<Call(1, 1)>>)),
             Epochs(m, 1), budget) :
     a \in Menu, b, c \in Short, m \in {0, 2}, budget \in {1, 4, 7}}
=============================================================================
