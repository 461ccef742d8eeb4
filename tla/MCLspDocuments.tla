--------------------------- MODULE MCLspDocuments ---------------------------
(* Small instances of LspDocuments for TLC.                                *)
EXTENDS LspDocuments, TLC

Symmetry == Permutations(Peer) \cup Permutations(Text) \cup Permutations(Tile)
=============================================================================
