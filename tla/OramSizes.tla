----------------------------- MODULE OramSizes -----------------------------
(***************************************************************************)
(* The sizes of the ORAMs of a shard.  They are written down in three      *)
(* places that no test compares: where an ORAM is created, where its       *)
(* position map is, and in the parameters that the Jasmin code is compiled *)
(* with.  A build is prod, staging or test.                                *)
(***************************************************************************)
EXTENDS Integers

Builds == {"prod", "staging", "test"}

(* params.jinc of the builds. *)
params(build) ==
    IF build = "prod"
    THEN [PATH_LENGTH |-> 20, PATH_LENGTH_0 |-> 13, POSITION_MAP_SIZE_0 |-> 2536]
    ELSE [PATH_LENGTH |-> 16, PATH_LENGTH_0 |-> 9, POSITION_MAP_SIZE_0 |-> 159]
BLOCKS_PER_BUCKET == 3
BLOCK_DATA_SIZE_QWORDS == (4096 \div BLOCKS_PER_BUCKET) \div 8 - 2

(* An ORAM: its levels, the blocks it can be asked for, and its map. *)
oram_create_120G_16shards ==
    LET num_levels == 20
    IN  [num_levels |-> num_levels, num_blocks |-> (2 ^ (num_levels - 1) * 13) \div 8]
oram_create_120G_16shards_posmap == [num_levels |-> 13, num_blocks |-> 2 ^ 13]
oram_create_depth16 ==
    LET num_levels == 16
    IN  [num_levels |-> num_levels, num_blocks |-> (2 ^ (num_levels - 1) * 13) \div 8]
oram_create_depth16_posmap == [num_levels |-> 9, num_blocks |-> 159]

(* A position map: the ids it maps, and the positions it maps them to. *)
oram_position_map_create_120G_16shards == [domain |-> 851968, range |-> 524288]
scan_position_map_create_120G_16shards == [domain |-> 2536, range |-> 4096]
oram_position_map_create_depth16 == [domain |-> 53248, range |-> 32768]
scan_position_map_create_depth16 == [domain |-> 159, range |-> 256]

(* ohtable_create: what a shard of a build is made of. *)
ohtable_create(build) ==
    IF build = "prod"
    THEN [oram |-> oram_create_120G_16shards, map |-> oram_position_map_create_120G_16shards,
          map_oram |-> oram_create_120G_16shards_posmap,
          scan |-> scan_position_map_create_120G_16shards]
    ELSE [oram |-> oram_create_depth16, map |-> oram_position_map_create_depth16,
          map_oram |-> oram_create_depth16_posmap, scan |-> scan_position_map_create_depth16]

(* Mutant: the last, partial block of positions is forgotten. *)
blocks_needed_floor(domain) == domain \div (2 * BLOCK_DATA_SIZE_QWORDS)
(* The blocks that hold the positions of a domain, two to a word. *)
blocks_needed(domain) ==
    LET n == 2 * BLOCK_DATA_SIZE_QWORDS
    IN  domain \div n + IF domain % n = 0 THEN 0 ELSE 1

(* Each position map covers the blocks of its ORAM and maps them to leaves  *)
(* of its tree, the blocks of the upper map have entries in the lower one,  *)
(* the compiled loops over paths and entries are as long as the trees and   *)
(* maps, and the blocks fit in the buckets.                                 *)
Agree(build) ==
    LET p == params(build)
        t == ohtable_create(build)
        n == blocks_needed(t.map.domain)
    IN  /\ t.oram.num_levels = p.PATH_LENGTH /\ t.map_oram.num_levels = p.PATH_LENGTH_0
        /\ t.oram.num_blocks <= t.map.domain /\ t.map.range = 2 ^ (t.oram.num_levels - 1)
        /\ n * 2 * BLOCK_DATA_SIZE_QWORDS >= t.map.domain
        /\ n <= t.scan.domain /\ n <= t.map_oram.num_blocks
        /\ t.scan.domain = p.POSITION_MAP_SIZE_0
        /\ t.scan.range = 2 ^ (t.map_oram.num_levels - 1)
        /\ t.oram.num_blocks <= BLOCKS_PER_BUCKET * (2 ^ t.oram.num_levels - 1)
        /\ n <= BLOCKS_PER_BUCKET * (2 ^ t.map_oram.num_levels - 1)
=============================================================================
