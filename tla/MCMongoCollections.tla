-------------------------- MODULE MCMongoCollections --------------------------
(***************************************************************************)
(* Instances of MongoCollections for TLC.                                  *)
(***************************************************************************)
EXTENDS MongoCollections, TLC

Symmetry ==
  Permutations(Threads) \cup Permutations(Objects) \cup Permutations(Clients)

===============================================================================
