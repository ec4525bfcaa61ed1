---------------------------- MODULE MCAskService ----------------------------
(* Any two of a question that is answered at once, two that are streamed and   *)
(* a health probe; the questions want a model that comes and goes.            *)
EXTENDS AskService

CONSTANTS a1, s1, s2, h1, big, small

MCWanted == [r \in {a1, s1, s2} |-> big]

MCAnswers ==
    {<<"line">>, <<"cite", "word">>, <<"word", "cite", "ghost">>, <<"cite", "line", "derived">>}
=============================================================================
