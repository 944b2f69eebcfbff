------------------------------- MODULE Stash -------------------------------
(***************************************************************************)
(* c/path_oram/stash: the blocks of the path being accessed, level by      *)
(* level from the leaf, followed by the overflow blocks, as one sequence.  *)
(* The constant-time selections are written as choices; the sorting        *)
(* network is a stable sort: its ties are blocks with one position.        *)
(***************************************************************************)
EXTENDS TreePath, Sequences, FiniteSetsExt

CONSTANTS
    BLOCKS_PER_BUCKET,
    NoBlock                 \* EMPTY_BLOCK_ID, and what an empty block holds

ASSUME StashAssumption == BLOCKS_PER_BUCKET \in Nat \ {0} /\ NoBlock \notin Nat

(* The position of an empty block is all ones: larger than any leaf. *)
ALL_ONES == 1000000
Empty == [id |-> NoBlock, position |-> ALL_ONES, data |-> NoBlock]

(* stash_create, stash_clear, bucket_store_create: n empty blocks. *)
empty_blocks(n) == [i \in 1 .. n |-> Empty]

(* stash_num_overflow_blocks *)
num_nonempty(blocks) == Cardinality({i \in DOMAIN blocks : blocks[i].id # NoBlock})

-----------------------------------------------------------------------------
(* Mutant: the block is copied out and also stays where it was. *)
swap_copies(s, i) == [target |-> s.blocks[i], blocks |-> s.blocks]
(* _cond_swap_blocks *)
swap(s, i) == [target |-> s.blocks[i], blocks |-> [s.blocks EXCEPT ![i] = s.target]]

(* add_path_bucket for each level and scan_overflow_for_target: each block  *)
(* with the id is swapped with the target, which starts empty.              *)
extract(blocks, id) ==
    LET scanned[i \in 0 .. Len(blocks)] ==
            IF i = 0 THEN [target |-> Empty, blocks |-> blocks]
            ELSE LET s == scanned[i - 1]
                 IN  IF s.blocks[i].id = id THEN swap(s, i) ELSE s
    IN  scanned[Len(blocks)]

(* Mutant: a slot that is taken is taken again. *)
free_overflow_any(blocks, num_path_blocks) == {i \in DOMAIN blocks : i > num_path_blocks}
(* add_block: the first empty overflow slot; none means STASH_EXHAUSTION. *)
free_overflow(blocks, num_path_blocks) ==
    {i \in DOMAIN blocks : i > num_path_blocks /\ blocks[i].id = NoBlock}

-----------------------------------------------------------------------------
(* A path block stays at its level or sinks; an overflow block may go to    *)
(* any level.                                                               *)
max_level(i, path_length) ==
    IF i > BLOCKS_PER_BUCKET * path_length THEN path_length
    ELSE (i - 1) \div BLOCKS_PER_BUCKET + 1

(* Mutant: the upper bound of the subtree is not compared. *)
is_valid_lower(bucket_id, position) == lower_bound(bucket_id) <= position
(* The position of the block is a leaf below the bucket. *)
is_valid(bucket_id, position) ==
    lower_bound(bucket_id) <= position /\ position <= upper_bound(bucket_id)

(* bucket_occupancy: what has been assigned to a level so far. *)
has_room(assignments, l) ==
    Cardinality({i \in DOMAIN assignments : assignments[i] = l}) < BLOCKS_PER_BUCKET

(* The levels to which _assign_block_to_bucket_path or _overflow may assign *)
(* block i.                                                                 *)
assignable(block, i, path, path_length, assignments) ==
    {l \in 0 .. max_level(i, path_length) - 1 :
        /\ block.id # NoBlock
        /\ is_valid(path[l], block.position)
        /\ has_room(assignments, l)}

(* The deepest of some levels, or none of them: path_length. *)
deepest(levels, path_length) == Min(levels \cup {path_length})

(* _place_empty_blocks: empty blocks fill what is left, leaf first. *)
place_empty_blocks(blocks, assignments, path_length) ==
    LET open(a) == {l \in 0 .. path_length - 1 : has_room(a, l)}
        placed[i \in 0 .. Len(blocks)] ==
            IF i = 0 THEN assignments
            ELSE LET a == placed[i - 1]
                 IN  IF blocks[i].id # NoBlock THEN a
                     ELSE [a EXCEPT ![i] = deepest(open(a), path_length)]
    IN  placed[Len(blocks)]

(* _assign_buckets: path blocks, overflow blocks, then the empty ones. *)
assign_buckets(blocks, path, path_length) ==
    LET assigned[i \in 0 .. Len(blocks)] ==
            IF i = 0 THEN << >>
            ELSE LET a == assigned[i - 1]
                 IN  Append(a, deepest(assignable(blocks[i], i, path, path_length, a),
                                       path_length))
    IN  place_empty_blocks(blocks, assigned[Len(blocks)], path_length)

(* _overflow_ub: the overflow up to its last block. *)
overflow_ub(blocks, num_path_blocks) ==
    Max({num_path_blocks} \cup {i \in DOMAIN blocks : blocks[i].id # NoBlock})

(* _comp_and_swap: by assigned level, then by position. *)
sorts_before(a, b) ==
    a.lvl < b.lvl \/ (a.lvl = b.lvl /\ a.block.position < b.block.position)

(* odd_even_msort: the r-th entry is the one before which r - 1 belong.     *)
sort(entries) ==
    LET rank(i) == Cardinality({j \in DOMAIN entries :
                      \/ sorts_before(entries[j], entries[i])
                      \/ j <= i /\ ~sorts_before(entries[i], entries[j])})
    IN  [r \in DOMAIN entries |-> entries[CHOOSE i \in DOMAIN entries : rank(i) = r]]

(* build_path: the path blocks and the used overflow, sorted by level; the *)
(* rest of the overflow stays.                                             *)
build_path(blocks, path, path_length) ==
    LET assignments == assign_buckets(blocks, path, path_length)
        ub == overflow_ub(blocks, BLOCKS_PER_BUCKET * path_length)
        sorted == sort([i \in 1 .. ub |-> [block |-> blocks[i], lvl |-> assignments[i]]])
    IN  [i \in DOMAIN blocks |-> IF i <= ub THEN sorted[i].block ELSE blocks[i]]
=============================================================================
