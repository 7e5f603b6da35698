----------------------------- MODULE MCKeyring -----------------------------
(***************************************************************************)
(* Three transactions on shared names and one client, two KEKs.            *)
(***************************************************************************)
EXTENDS Keyring, TLC

Symmetric == Permutations(Txn) \cup Permutations(Kek)
=============================================================================
