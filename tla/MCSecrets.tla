----------------------------- MODULE MCSecrets ------------------------------
(***************************************************************************)
(* Instances of Secrets for TLC.                                           *)
(***************************************************************************)
EXTENDS Secrets, TLC

CONSTANT n1

\* Every request asks for the first name.
AskFirst == [r \in Request |-> n1]

Symmetric == Permutations(Request) \cup Permutations(Operator)
=============================================================================
