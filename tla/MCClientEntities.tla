-------------------------- MODULE MCClientEntities --------------------------
(***************************************************************************)
(* Small instances of ClientEntities for TLC.                              *)
(***************************************************************************)
EXTENDS ClientEntities, TLC

\* Actors, shards and ids are interchangeable.
Symmetric == Permutations(Actors) \cup Permutations(ShardIds) \cup Permutations(EntityIds)
=============================================================================
