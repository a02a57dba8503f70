------------------------------ MODULE MCStream ------------------------------
(* Stream with tokens of one symbol and some that are a tag or span its end. *)
EXTENDS Stream

MCThoughts == {<<"<">>, <<"/", "t">>, <<">">>, <<">", "n", "x">>, <<"h">>, <<"x", "h">>, <<"x", "<">>, EndThink}
MCCalls    == {<<"<">>, <<"c">>, <<">">>, <<"x">>, <<"/", "c", ">">>, OpenCall, CloseCall}
=============================================================================
