----------------------------- MODULE MCIndexer ------------------------------
(* Two interchangeable paths, and two releases that share a chunk of one      *)
(* content and differ in what they make of the other.  Contents that are not  *)
(* UTF-8 are left to the proofs.                                              *)
EXTENDS Indexer, TLC

CONSTANTS p1, p2, v1, v2, k1, k2, e1, e2

MCChunksOf ==
    (e1 :> (v1 :> {k1} @@ v2 :> {k1, k2})) @@ (e2 :> (v1 :> {k2} @@ v2 :> {k1}))

MCMarkOf == [e \in Releases |-> e]

AnyOrder == Permutations(Paths)
=============================================================================
