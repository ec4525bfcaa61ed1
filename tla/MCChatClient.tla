---------------------------- MODULE MCChatClient ----------------------------
(* One question and two conversation ids.                                   *)
EXTENDS ChatClient

CONSTANTS c1, c2
=============================================================================
