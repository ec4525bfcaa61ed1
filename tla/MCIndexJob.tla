----------------------------- MODULE MCIndexJob -----------------------------
(* Three requests: two that compete and one that follows a crash.            *)
EXTENDS IndexJob

CONSTANTS r1, r2, r3
=============================================================================
