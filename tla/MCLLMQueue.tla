----------------------------- MODULE MCLLMQueue -----------------------------
(* An instance of LLMQueue for TLC: an extracted and a plain request, which *)
(* share one profile, and a chat of the queue "system" among them.          *)
EXTENDS LLMQueue

Three == 1 .. 3
Kinds3 == <<"extracted", "plain", "chat">>
Main3 == [r \in Three |-> {"main"}]
=============================================================================
