---------------------------- MODULE MCPushOutbox ----------------------------
(***************************************************************************)
(* Instances of PushOutbox for TLC.                                        *)
(***************************************************************************)
EXTENDS PushOutbox, TLC

Symmetric == Permutations(Request)
=============================================================================
