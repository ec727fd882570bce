----------------------------- MODULE MCMongoPools -----------------------------
(***************************************************************************)
(* Instances of MongoPools for TLC.                                        *)
(***************************************************************************)
EXTENDS MongoPools, TLC

Symmetry == Permutations(Threads) \cup Permutations(Uris \ BadUris) \cup Permutations(Handles)

===============================================================================
