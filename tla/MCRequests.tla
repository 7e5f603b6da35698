----------------------------- MODULE MCRequests -----------------------------
(***************************************************************************)
(* Instances of Requests for TLC.                                          *)
(***************************************************************************)
EXTENDS Requests, TLC

Symmetric ==
    Permutations(Key) \cup Permutations(Mac) \cup Permutations(Create) \cup Permutations(Operator)
=============================================================================
