------------------------------ MODULE MCGrants ------------------------------
(***************************************************************************)
(* Instances of Grants for TLC.                                            *)
(***************************************************************************)
EXTENDS Grants
=============================================================================
