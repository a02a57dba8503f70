----------------------------- MODULE MCSession -----------------------------
(* Session with a transcript to load, prompts a caller has made itself, one *)
(* of them empty, and a tokenizer that makes one token of two blanks, which *)
(* are what the model says besides `</think>`.                              *)
EXTENDS Session

MCSaved   == {<<Assistant(<<" ", "</think>">>, FALSE),
                [role |-> "tool", thought |-> <<>>, text |-> <<" ", "u">>]>>}
MCRaw     == {<<"user", "u", "end">>, <<>>}
MCOptions == {[think |-> TRUE, effort |-> "low", keep |-> TRUE],
              [think |-> FALSE, effort |-> "medium", keep |-> FALSE]}
MCTokens  == Signs \union {"  "}

MCEncode(text) ==
  FoldLeft(LAMBDA ids, sign : IF ids # <<>> /\ Last(ids) = " " /\ sign = " "
                                THEN Append(Front(ids), "  ") ELSE Append(ids, sign),
           <<>>, text)
============================================================================
