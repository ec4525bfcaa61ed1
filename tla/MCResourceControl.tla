--------------------------- MODULE MCResourceControl ---------------------------
(* Three clients for a table of two buckets, and two requests for one slot.    *)
EXTENDS ResourceControl, TLC

CONSTANTS a1, a2, a3, q1, q2

Interchangeable == Permutations(Clients \ {Watched}) \cup Permutations(Requests)
=============================================================================
