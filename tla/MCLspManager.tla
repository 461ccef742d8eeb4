---------------------------- MODULE MCLspManager ----------------------------
(* Small instances of LspManager for TLC.                                  *)
EXTENDS LspManager, TLC

Symmetry == Permutations(Peer)
=============================================================================
