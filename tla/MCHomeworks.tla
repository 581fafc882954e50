----------------------------- MODULE MCHomeworks -----------------------------
(* Homeworks for TLC: the rounds of the code, and what killed runs leave. *)
EXTENDS Homeworks

MCLeftovers == {<< >>, <<"child">>, <<"parent", "child">>}
MCOldPosts == {0, 1}
=============================================================================
