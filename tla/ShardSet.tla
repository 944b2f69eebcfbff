------------------------------ MODULE ShardSet ------------------------------
(***************************************************************************)
(* The shards of the table, by their numbers.                              *)
(***************************************************************************)
EXTENDS Integers

CONSTANT NUM_SHARDS

ASSUME ShardSetAssumption == NUM_SHARDS \in Nat \ {0}

(* sharded_ohtable_create *)
Shards == 0 .. NUM_SHARDS - 1
=============================================================================
