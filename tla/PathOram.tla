------------------------------ MODULE PathOram ------------------------------
(***************************************************************************)
(* c/path_oram: an oblivious array.  A block lives in a bucket on the path *)
(* of its position or in the overflow of the stash, and gets a new random  *)
(* position with every access.  Positions are kept in the blocks of a      *)
(* second, smaller ORAM, whose own positions are in a table that is        *)
(* scanned.  One thread uses an ORAM, so an access is one step.  Every     *)
(* random choice is an arbitrary one.                                      *)
(*                                                                         *)
(* Positions are stored halved: position p is leaf 2 * p.                  *)
(***************************************************************************)
EXTENDS Stash

CONSTANTS
    PATH_LENGTH, PATH_LENGTH_0,     \* levels of the two trees
    OVERFLOW, OVERFLOW_0,           \* overflow capacity of the two stashes
    ENTRIES_PER_BLOCK,              \* positions in a block of the position map
    NUM_BLOCKS,                     \* capacity_blocks
    Vals, Unset,                    \* contents of blocks, and of one never written
    MAX_FAILURES                    \* bound: accesses that find a stash full

Blocks    == 0 .. NUM_BLOCKS - 1
(* blocks_needed, rounded up. *)
MapBlocks == 0 .. (NUM_BLOCKS + ENTRIES_PER_BLOCK - 1) \div ENTRIES_PER_BLOCK - 1

(* The positions of a tree. *)
Positions(path_length) == 0 .. pow2[path_length - 1] - 1

ASSUME PathOramAssumption ==
    /\ PATH_LENGTH \in Nat \ {0} /\ PATH_LENGTH_0 \in Nat \ {0}
    /\ OVERFLOW \in Nat /\ OVERFLOW_0 \in Nat
    /\ ENTRIES_PER_BLOCK \in Nat \ {0} /\ NUM_BLOCKS \in Nat \ {0}
    /\ ALL_ONES \notin Positions(PATH_LENGTH)
    /\ Unset \notin Vals

VARIABLES
    oram,           \* bucket store and stash of the main ORAM
    posmap,         \* those of the ORAM in the position map
    scan,           \* scan_position_map: positions of the blocks of posmap
    created,        \* how many blocks of posmap have been put
    stats,          \* overflow count and its maximum
    ret,            \* what the last call returned
    wild,           \* a position outside of the tree has been followed
    lost, unmapped, \* blocks given up by a full stash of either ORAM (not in the source)
    failures        \* how often that happened (not in the source)

vars == <<oram, posmap, scan, created, stats, ret, wild, lost, unmapped, failures>>

Block(ids, data, path_length) ==
    {Empty} \cup [id : ids, position : {2 * p : p \in Positions(path_length)}, data : data]
Oram(ids, data, path_length, overflow) ==
    [buckets : [0 .. tree_path_num_nodes(path_length) - 1 ->
                    [1 .. BLOCKS_PER_BUCKET -> Block(ids, data, path_length)]],
     overflow : [1 .. overflow -> Block(ids, data, path_length)]]

TypeOK ==
    /\ oram \in Oram(Blocks, Vals \cup {Unset}, PATH_LENGTH, OVERFLOW)
    /\ posmap \in Oram(MapBlocks,
                       [0 .. ENTRIES_PER_BLOCK - 1 -> Positions(PATH_LENGTH) \cup {ALL_ONES}],
                       PATH_LENGTH_0, OVERFLOW_0)
    /\ scan \in [MapBlocks -> Positions(PATH_LENGTH_0)]
    /\ created \in 0 .. Cardinality(MapBlocks)
    /\ stats \in [stash_overflow_count : 0 .. OVERFLOW, max_stash_overflow_count : 0 .. OVERFLOW]
    /\ wild \in BOOLEAN /\ lost \subseteq Blocks /\ unmapped \subseteq Blocks

(* bucket_store_create and stash_create; also what oram_clear makes of them. *)
new_oram(path_length, overflow) ==
    [buckets |-> [b \in 0 .. tree_path_num_nodes(path_length) - 1 |->
                    empty_blocks(BLOCKS_PER_BUCKET)],
     overflow |-> empty_blocks(overflow)]

(* oram_create up to the position map, and scan_position_map_create. *)
Init ==
    /\ oram = new_oram(PATH_LENGTH, OVERFLOW)
    /\ posmap = new_oram(PATH_LENGTH_0, OVERFLOW_0)
    /\ scan \in [MapBlocks -> Positions(PATH_LENGTH_0)]
    /\ created = 0
    /\ stats = [stash_overflow_count |-> 0, max_stash_overflow_count |-> 0]
    /\ ret = "none" /\ wild = FALSE /\ lost = {} /\ unmapped = {} /\ failures = 0

-----------------------------------------------------------------------------
(* The buckets of a path, read into the stash. *)
path_blocks(o, path, path_length) ==
    [i \in 1 .. BLOCKS_PER_BUCKET * path_length |->
        o.buckets[path[(i - 1) \div BLOCKS_PER_BUCKET]][((i - 1) % BLOCKS_PER_BUCKET) + 1]]

(* write_bucket_blocks for each level, and what is left as the overflow. *)
write_path(o, path, path_length, blocks) ==
    LET level_of(b) == {l \in DOMAIN path : path[l] = b}
    IN  [buckets |-> [b \in DOMAIN o.buckets |->
                        IF level_of(b) = {} THEN o.buckets[b]
                        ELSE [j \in 1 .. BLOCKS_PER_BUCKET |->
                                blocks[Max(level_of(b)) * BLOCKS_PER_BUCKET + j]]],
         overflow |-> [i \in DOMAIN o.overflow |-> blocks[BLOCKS_PER_BUCKET * path_length + i]]]

(* read_path_for_block: the path of the old position is read, and the block *)
(* taken out of it or of the overflow; a block that is not there is unset.  *)
read_block(o, path_length, old, id, unset) ==
    LET path  == tree_path_update(path_length, 2 * old)
        found == extract(path_blocks(o, path, path_length) \o o.overflow, id)
    IN  [id |-> id, path |-> path, blocks |-> found.blocks,
         data |-> IF found.target = Empty THEN unset ELSE found.target.data]

(* The rest of an access: the block is added to the overflow with its new   *)
(* position and the path is written back.  With a full overflow the path is *)
(* not written: the block that was taken out is given up.                   *)
oram_access(o, path_length, read, new, data) ==
    LET n      == BLOCKS_PER_BUCKET * path_length
        target == [id |-> read.id, position |-> 2 * new, data |-> data]
        free   == free_overflow(read.blocks, n)
    IN  IF free = {}
        THEN [abort |-> TRUE,
              o |-> [o EXCEPT !.overflow = [i \in DOMAIN @ |-> read.blocks[n + i]]]]
        ELSE [abort |-> FALSE,
              o |-> write_path(o, read.path, path_length,
                               build_path([read.blocks EXCEPT ![Min(free)] = target],
                                          read.path, path_length))]

(* Counts the failures, up to their bound. *)
fails(abort) ==
    /\ abort => failures < MAX_FAILURES
    /\ failures' = failures + IF abort THEN 1 ELSE 0

map_unset == [i \in 0 .. ENTRIES_PER_BLOCK - 1 |-> ALL_ONES]
covered(mb) == {b \in Blocks : b \div ENTRIES_PER_BLOCK = mb}

-----------------------------------------------------------------------------
(* oram_position_map_create: the next block of random positions is put      *)
(* with position_map_put.  Nobody looks at the error it may return.         *)
oram_position_map_create(data, new) ==
    LET mb == created
    IN  /\ created \in MapBlocks
        /\ \E r \in {oram_access(posmap, PATH_LENGTH_0,
                                 read_block(posmap, PATH_LENGTH_0, scan[mb], mb, map_unset),
                                 new, data)} :
           /\ posmap' = r.o
           /\ unmapped' = IF r.abort THEN unmapped \cup covered(mb) ELSE unmapped
           /\ fails(r.abort)
        /\ scan' = [scan EXCEPT ![mb] = new]
        /\ created' = created + 1
        /\ ret' = "ok"
        /\ UNCHANGED <<oram, stats, wild, lost>>

(* Mutant: the overflow of all accesses is added up. *)
collect_adds(o) ==
    LET n == num_nonempty(o.overflow) + stats.stash_overflow_count
    IN  [stash_overflow_count |-> n,
         max_stash_overflow_count |-> Max({n, stats.max_stash_overflow_count})]
(* oram_collect_statistics *)
collect(o) ==
    LET n == num_nonempty(o.overflow)
    IN  [stash_overflow_count |-> n,
         max_stash_overflow_count |-> Max({n, stats.max_stash_overflow_count})]

(* Mutant: the scanned table keeps the old position. *)
scan_set_keeps(mb, new) == scan
(* _scan_position_map_set *)
scan_set(mb, new) == [scan EXCEPT ![mb] = new]

(* Mutant: the new position is not stored. *)
set_entry_keeps(entries, i, new) == entries
(* write_partial_out *)
set_entry(entries, i, new) == [entries EXCEPT ![i] = new]

(* What is done with the block: block_data_from_buffer for oram_put, or an  *)
(* accessor that gives the caller what is there.                            *)
Accessors == [op : {"put"}, val : Vals] \cup {[op |-> "get"]}
accessor(f, data) == IF f.op = "put" THEN f.val ELSE data
result(f, data)   == IF f.op = "put" THEN "ok" ELSE data

(* access, once the positions have been exchanged: oram_put and             *)
(* oram_function_access_get.                                                *)
access_block(id, old, new, f) ==
    \E r \in {read_block(oram, PATH_LENGTH, old, id, Unset)} :
    \E a \in {oram_access(oram, PATH_LENGTH, r, new, accessor(f, r.data))} :
        /\ oram' = a.o
        /\ stats' = collect(a.o)
        /\ lost' = IF a.abort THEN lost \cup {id} ELSE lost
        /\ ret' = IF a.abort THEN "error" ELSE result(f, r.data)
        /\ fails(a.abort)
        /\ UNCHANGED <<wild, unmapped>>

(* access: the new position is stored before the block is looked for at its *)
(* old one.  If the position map's stash is full, that is all that happens. *)
access(id, new, new_0) ==
    LET mb == id \div ENTRIES_PER_BLOCK
        i  == id % ENTRIES_PER_BLOCK
    IN  /\ created \notin MapBlocks /\ ~wild
        /\ scan' = scan_set(mb, new_0)
        /\ UNCHANGED created
        /\ \E r \in {read_block(posmap, PATH_LENGTH_0, scan[mb], mb, map_unset)} :
           \E m \in {oram_access(posmap, PATH_LENGTH_0, r, new_0, set_entry(r.data, i, new))} :
           /\ posmap' = m.o
           /\ \/ /\ m.abort /\ fails(TRUE)
                 /\ unmapped' = unmapped \cup covered(mb)
                 /\ ret' = "error"
                 /\ stats' = collect(oram)
                 /\ UNCHANGED <<oram, wild, lost>>
              \/ /\ ~m.abort /\ r.data[i] = ALL_ONES
                 /\ wild' = TRUE
                 /\ ret' = "error"
                 /\ UNCHANGED <<oram, stats, lost, unmapped, failures>>
              \/ /\ ~m.abort /\ r.data[i] # ALL_ONES
                 /\ \E f \in Accessors : access_block(id, r.data[i], new, f)

(* oram_clear: the positions stay, in both maps. *)
oram_clear ==
    /\ created \notin MapBlocks /\ ~wild
    /\ oram' = new_oram(PATH_LENGTH, OVERFLOW)
    /\ stats' = [stash_overflow_count |-> 0, max_stash_overflow_count |-> 0]
    /\ lost' = {} /\ ret' = "ok"
    /\ UNCHANGED <<posmap, scan, created, wild, unmapped, failures>>

Next ==
    \/ \E d \in [0 .. ENTRIES_PER_BLOCK - 1 -> Positions(PATH_LENGTH)],
          new \in Positions(PATH_LENGTH_0) : oram_position_map_create(d, new)
    \/ \E id \in Blocks, new \in Positions(PATH_LENGTH), new_0 \in Positions(PATH_LENGTH_0) :
          access(id, new, new_0)
    \/ oram_clear

Spec == Init /\ [][Next]_vars

-----------------------------------------------------------------------------
(* The copies of a block in an ORAM. *)
InBucket(o, b, id) == {j \in DOMAIN o.buckets[b] : o.buckets[b][j].id = id}
TreeCopies(o, id) == UNION {{o.buckets[b][j] : j \in InBucket(o, b, id)} : b \in DOMAIN o.buckets}
StashCopies(o, id) == {o.overflow[i] : i \in {j \in DOMAIN o.overflow : o.overflow[j].id = id}}
Copies(o, id) == TreeCopies(o, id) \cup StashCopies(o, id)
NumCopies(o, id) ==
    Cardinality({p \in (DOMAIN o.buckets) \X (1 .. BLOCKS_PER_BUCKET) :
                    o.buckets[p[1]][p[2]].id = id})
    + Cardinality({j \in DOMAIN o.overflow : o.overflow[j].id = id})

(* The position map's own entry for a block, read through its blocks. *)
MapEntry(id) ==
    {c.data[id % ENTRIES_PER_BLOCK] : c \in Copies(posmap, id \div ENTRIES_PER_BLOCK)}

(* Eviction puts no block off the path of its position, whatever has failed *)
(* before: a later access finds it on the path it reads.                    *)
OnItsPath ==
    \A o \in {oram, posmap} : \A b \in DOMAIN o.buckets : \A j \in DOMAIN o.buckets[b] :
        LET k == o.buckets[b][j]
        IN  k.id # NoBlock => lower_bound(b) <= k.position /\ k.position <= upper_bound(b)

(* In both ORAMs a block that was never given up exists at most once, at    *)
(* the position that the map above it holds.                                *)
OneCopy ==
    /\ \A mb \in MapBlocks : covered(mb) \cap unmapped = {} =>
          /\ NumCopies(posmap, mb) = IF mb < created THEN 1 ELSE 0
          /\ \A c \in Copies(posmap, mb) : c.position = 2 * scan[mb]
    /\ \A id \in Blocks \ (lost \cup unmapped) :
          /\ NumCopies(oram, id) <= 1
          /\ \A c \in Copies(oram, id) : MapEntry(id) = {c.position \div 2}

(* No access ever follows a position outside of the tree, except after the  *)
(* stash of the position map has overflowed: its entries are then all ones. *)
PathInTree == wild => unmapped # {}

(* Every block can be found again: it exists once, on the path of the       *)
(* position that the map holds, and all positions are in the tree.          *)
OramInv == TypeOK /\ OnItsPath /\ OneCopy /\ PathInTree

(* The ORAM is an array of which a failing access gives up only the         *)
(* accessed block, or the blocks that share its block of the position map.  *)
Damaged == lost \cup unmapped
Content ==
    [id \in Blocks |->
        IF id \in Damaged \/ Copies(oram, id) = {} THEN Unset
        ELSE (CHOOSE c \in Copies(oram, id) : TRUE).data]
Array == INSTANCE OramArray WITH mem <- Content, damaged <- Damaged
ImplementsArray == Array!Spec
=============================================================================
