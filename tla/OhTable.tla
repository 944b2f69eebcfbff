------------------------------ MODULE OhTable ------------------------------
(***************************************************************************)
(* c/ohtable: the Robin Hood hash table of a shard.                        *)
(*                                                                         *)
(* The slots are those of consecutive ORAM blocks, ITEMS_PER_BLOCK in      *)
(* each.  ohtable_put and ohtable_get go from block to block; within a     *)
(* block the accessors robinhood and get_record look at every slot, one    *)
(* step each here.  Only one thread uses a table (module Shard), so there  *)
(* is one operation at a time.  An ORAM access is a read and write of one  *)
(* block that succeeds.  The statistics total_displacement and             *)
(* max_trace_length, which nothing reads back, are left out.               *)
(*                                                                         *)
(* raw is the hash function restricted to the keys in play.  It never      *)
(* changes; a run starts with every assignment in RawHashes.               *)
(***************************************************************************)
EXTENDS Integers, FiniteSets

CONSTANTS
    Keys,               \* keys that are put and looked up
    Vals,               \* what is stored with them
    NoKey,              \* the key of an empty slot (all ones)
    Absent,             \* no value
    NUM_BLOCKS,         \* ohtable->num_blocks
    ITEMS_PER_BLOCK,    \* ohtable->items_per_block
    RawHashes           \* the hash functions considered

ASSUME OhTableAssumption ==
    /\ NUM_BLOCKS \in Nat \ {0}
    /\ ITEMS_PER_BLOCK \in Nat \ {0}
    /\ NoKey \notin Keys
    /\ Absent \notin Vals
    /\ RawHashes \subseteq [Keys -> Nat]

Capacity == NUM_BLOCKS * ITEMS_PER_BLOCK
Slots    == 0 .. Capacity - 1

VARIABLES
    raw,                \* raw[k]: the 64-bit FNV-1a hash of k
    slots,              \* the records of all blocks
    num_items,          \* records in the table
    max_offset,         \* bounds the scan of a lookup
    args,               \* the arguments of the accessor in progress
    ret,                \* what the last operation returned
    stored              \* what a map would hold (not in the source)

vars == <<raw, slots, num_items, max_offset, args, ret, stored>>

Record == [key : Keys \cup {NoKey}, val : Vals \cup {Absent}]
Empty  == [key |-> NoKey, val |-> Absent]

Idle == [kind |-> "idle"]
PutArgs == [kind : {"put"}, in_record : Record, block : 0 .. NUM_BLOCKS - 1,
            i : 0 .. ITEMS_PER_BLOCK, start_index : 0 .. ITEMS_PER_BLOCK - 1,
            insert_complete : BOOLEAN, inserted : BOOLEAN, inserted_new_item : BOOLEAN,
            curr_jump : Nat, curr_slot_hash : Nat, trace : Nat, max_offset : Nat]
GetArgs == [kind : {"get"}, key : Keys, block : 0 .. NUM_BLOCKS - 1,
            i : 0 .. ITEMS_PER_BLOCK, start_index : 0 .. ITEMS_PER_BLOCK - 1,
            search_complete : BOOLEAN, out_record : Record, blocks_to_scan : Nat]

TypeOK ==
    /\ raw \in RawHashes
    /\ slots \in [Slots -> Record]
    /\ num_items \in Nat /\ max_offset \in Nat
    /\ args \in {Idle} \cup PutArgs \cup GetArgs
    /\ stored \in [Keys -> Vals \cup {Absent}]

Nothing == [op |-> "none"]

(* _create *)
Init ==
    /\ raw \in RawHashes
    /\ slots = [s \in Slots |-> Empty]
    /\ num_items = 0 /\ max_offset = 0
    /\ args = Idle
    /\ ret = Nothing
    /\ stored = [k \in Keys |-> Absent]

-----------------------------------------------------------------------------
(* hash: the slot where a key should be. *)
hash(k) == raw[k] % Capacity

(* distance_to_hash: from a record's slot to the slot considered. *)
distance_to_hash(h, target_hash) ==
    IF target_hash < h THEN target_hash - h + Capacity ELSE target_hash - h

(* Mutant: the probe sequence does not wrap around. *)
next_block_no_wrap(b) == b + 1
next_block(b) == IF b + 1 = NUM_BLOCKS THEN 0 ELSE b + 1

larger(a, b) == IF a > b THEN a ELSE b

(* Mutant: the last slots may be used too. *)
is_full_never == FALSE
(* is_full: the table stops at 98% of its capacity. *)
is_full == 100 * num_items > 98 * Capacity

-----------------------------------------------------------------------------
(* ohtable_put up to the first ORAM access. *)
ohtable_put(k, v) ==
    /\ args = Idle
    /\ \/ /\ is_full
          /\ ret' = [op |-> "put", err |-> "TABLE_FULL"]
          /\ UNCHANGED <<args, stored>>
       \/ /\ ~is_full
          /\ args' = [kind |-> "put",
                      in_record |-> [key |-> k, val |-> v],
                      block |-> hash(k) \div ITEMS_PER_BLOCK,
                      i |-> 0,
                      start_index |-> hash(k) % ITEMS_PER_BLOCK,
                      insert_complete |-> FALSE, inserted |-> FALSE,
                      inserted_new_item |-> FALSE,
                      curr_jump |-> 0, curr_slot_hash |-> hash(k),
                      trace |-> 0, max_offset |-> 0]
          /\ stored' = [stored EXCEPT ![k] = v]
          /\ ret' = Nothing
    /\ UNCHANGED <<raw, slots, num_items, max_offset>>

(* Mutant: the occupant of a slot always gives way. *)
jump_smaller_always(a, cand) == TRUE
(* The occupant of the slot is closer to its hash than the carried record; *)
(* on a tie the full hashes decide.                                        *)
jump_smaller(a, cand) ==
    LET candidate_jump == distance_to_hash(hash(cand.key), a.curr_slot_hash)
    IN  \/ candidate_jump < a.curr_jump
        \/ candidate_jump = a.curr_jump /\ raw[cand.key] < raw[a.in_record.key]

(* Mutant: a record that is swapped in is not counted as new. *)
counts_as_new_no_swap(a, cand, should_store, should_swap) ==
    should_store /\ cand = Empty /\ ~a.inserted
(* The first store into an empty slot, or swap, of a block. *)
counts_as_new(a, cand, should_store, should_swap) ==
    ((should_store /\ cand = Empty) \/ should_swap) /\ ~a.inserted

(* The largest offset of this put: on a swap it becomes that of the record *)
(* that is placed, whatever it was before.                                 *)
offset_after(a, should_store, should_swap) ==
    IF (should_store /\ a.curr_jump > a.max_offset) \/ should_swap
    THEN a.curr_jump ELSE a.max_offset

(* robinhood, one iteration: store the carried record, swap it, or pass. *)
robinhood ==
    LET a    == args
        s    == a.block * ITEMS_PER_BLOCK + a.i
        cand == slots[s]
        search_started == a.start_index <= a.i
        should_store   == /\ search_started /\ ~a.insert_complete
                          /\ cand.key \in {NoKey, a.in_record.key}
        should_swap    == /\ search_started /\ ~a.insert_complete /\ ~should_store
                          /\ jump_smaller(a, cand)
        going_on       == search_started /\ ~a.insert_complete /\ ~should_store
        inc            == IF going_on THEN 1 ELSE 0
    IN  /\ a.kind = "put" /\ a.i < ITEMS_PER_BLOCK
        /\ slots' = IF should_store \/ should_swap
                    THEN [slots EXCEPT ![s] = a.in_record] ELSE slots
        /\ args' = [a EXCEPT
               !.i = a.i + 1,
               !.in_record = IF should_swap THEN cand ELSE a.in_record,
               !.insert_complete = a.insert_complete \/ should_store,
               !.inserted = a.inserted \/ should_store \/ should_swap,
               !.inserted_new_item = \/ a.inserted_new_item
                                     \/ counts_as_new(a, cand, should_store, should_swap),
               !.max_offset = offset_after(a, should_store, should_swap),
               !.curr_jump = inc + IF should_swap
                                   THEN distance_to_hash(hash(cand.key), a.curr_slot_hash)
                                   ELSE a.curr_jump,
               !.curr_slot_hash = a.curr_slot_hash + IF search_started THEN 1 ELSE 0,
               !.trace = a.trace + inc]
        /\ UNCHANGED <<raw, num_items, max_offset, ret, stored>>

(* Mutant: start_index is not reset. *)
put_next_block_from_start ==
    /\ args.kind = "put" /\ args.i = ITEMS_PER_BLOCK /\ ~args.insert_complete
    /\ args' = [args EXCEPT !.block = next_block(args.block), !.i = 0, !.inserted = FALSE]
    /\ UNCHANGED <<raw, slots, num_items, max_offset, ret, stored>>
(* ohtable_put, the next round of its loop. *)
put_next_block ==
    /\ args.kind = "put" /\ args.i = ITEMS_PER_BLOCK /\ ~args.insert_complete
    /\ args' = [args EXCEPT !.block = next_block(args.block), !.i = 0,
                            !.start_index = 0, !.inserted = FALSE]
    /\ UNCHANGED <<raw, slots, num_items, max_offset, ret, stored>>

(* ohtable_put after its loop. *)
put_return ==
    /\ args.kind = "put" /\ args.i = ITEMS_PER_BLOCK /\ args.insert_complete
    /\ num_items' = num_items + IF args.inserted_new_item THEN 1 ELSE 0
    /\ max_offset' = larger(args.max_offset, max_offset)
    /\ ret' = [op |-> "put", err |-> "SUCCESS"]
    /\ args' = Idle
    /\ UNCHANGED <<raw, slots, stored>>

-----------------------------------------------------------------------------
(* ohtable_get: how many blocks every lookup reads. *)
blocks_to_scan == 1 + (max_offset + ITEMS_PER_BLOCK - 1) \div ITEMS_PER_BLOCK

(* ohtable_get up to the first ORAM access; the caller's buffer holds the   *)
(* key and no value.                                                        *)
ohtable_get(k) ==
    /\ args = Idle
    /\ args' = [kind |-> "get", key |-> k,
                block |-> hash(k) \div ITEMS_PER_BLOCK,
                i |-> 0,
                start_index |-> hash(k) % ITEMS_PER_BLOCK,
                search_complete |-> FALSE,
                out_record |-> [key |-> k, val |-> Absent],
                blocks_to_scan |-> blocks_to_scan]
    /\ ret' = Nothing
    /\ UNCHANGED <<raw, slots, num_items, max_offset, stored>>

(* get_record, one iteration: an empty slot ends the search as well. *)
get_record ==
    LET a    == args
        cand == slots[a.block * ITEMS_PER_BLOCK + a.i]
        should_copy == /\ a.start_index <= a.i /\ ~a.search_complete
                       /\ cand.key \in {NoKey, a.key}
    IN  /\ a.kind = "get" /\ a.blocks_to_scan > 0 /\ a.i < ITEMS_PER_BLOCK
        /\ args' = [a EXCEPT
               !.i = a.i + 1,
               !.search_complete = a.search_complete \/ should_copy,
               !.out_record = IF should_copy THEN cand ELSE a.out_record]
        /\ UNCHANGED <<raw, slots, num_items, max_offset, ret, stored>>

(* Mutant: start_index is not reset. *)
get_next_block_from_start ==
    /\ args.kind = "get" /\ args.blocks_to_scan > 0 /\ args.i = ITEMS_PER_BLOCK
    /\ args' = [args EXCEPT !.block = next_block(args.block), !.i = 0, !.blocks_to_scan = @ - 1]
    /\ UNCHANGED <<raw, slots, num_items, max_offset, ret, stored>>
(* ohtable_get, the next round of its loop. *)
get_next_block ==
    /\ args.kind = "get" /\ args.blocks_to_scan > 0 /\ args.i = ITEMS_PER_BLOCK
    /\ args' = [args EXCEPT !.block = next_block(args.block), !.i = 0,
                            !.start_index = 0, !.blocks_to_scan = @ - 1]
    /\ UNCHANGED <<raw, slots, num_items, max_offset, ret, stored>>

get_return ==
    /\ args.kind = "get" /\ args.blocks_to_scan = 0
    /\ ret' = [op |-> "get", key |-> args.key, val |-> args.out_record.val]
    /\ args' = Idle
    /\ UNCHANGED <<raw, slots, num_items, max_offset, stored>>

-----------------------------------------------------------------------------
(* ohtable_clear; max_offset is not reset. *)
ohtable_clear ==
    /\ args = Idle
    /\ slots' = [s \in Slots |-> Empty]
    /\ num_items' = 0
    /\ stored' = [k \in Keys |-> Absent]
    /\ ret' = Nothing
    /\ UNCHANGED <<raw, max_offset, args>>

Next ==
    \/ \E k \in Keys, v \in Vals : ohtable_put(k, v)
    \/ \E k \in Keys : ohtable_get(k)
    \/ robinhood \/ put_next_block \/ put_return
    \/ get_record \/ get_next_block \/ get_return
    \/ ohtable_clear

Spec == Init /\ [][Next]_vars

-----------------------------------------------------------------------------
(* Where k is stored, and how far from its hash a slot is. *)
At(k) == {s \in Slots : slots[s].key = k}
Offset(k, s) == distance_to_hash(hash(k), s)

(* The record that ohtable_put still carries, if any. *)
Carried == IF args.kind = "put" /\ ~args.insert_complete THEN {args.in_record} ELSE {}

(***************************************************************************)
(* No record is lost, duplicated or mixed up while others are pushed out   *)
(* of its way: at every moment each stored key is in exactly one slot, or  *)
(* is being carried (then its slot, if it has one, is the one that the     *)
(* carried record is about to replace).                                    *)
(***************************************************************************)
NothingLost ==
    \A k \in Keys :
        IF \E r \in Carried : r.key = k
        THEN /\ \A r \in Carried : r.val = stored[k]
             /\ Cardinality(At(k)) <= 1
        ELSE /\ Cardinality(At(k)) = IF stored[k] = Absent THEN 0 ELSE 1
             /\ \A s \in At(k) : slots[s].val = stored[k]

(* num_items counts the records, so that is_full sees the true load: an     *)
(* update of a key that is there is never counted as an insertion.          *)
CountExact == args.kind # "put" => num_items = Cardinality({s \in Slots : slots[s] # Empty})

(* A put ends within one round of the table: is_full lets it start only if *)
(* there is an empty slot.                                                 *)
ProbeBounded == args.kind = "put" => args.trace < Capacity

(* The shape of the state, and the two facts that let every put end: the    *)
(* count is exact, and nobody probes more than one round.                   *)
PutsEnd == TypeOK /\ CountExact /\ ProbeBounded

(* Between the slot of a hash and the record there is no empty slot, where  *)
(* get_record would give up.                                                *)
ProbeChain ==
    \A k \in Keys : \A s \in At(k) : \A t \in Slots :
        Offset(k, t) < Offset(k, s) => slots[t] # Empty

(* A lookup returns the value last put, or none; and none only if the key   *)
(* is absent or its record lies beyond the blocks that are scanned.         *)
LastScanned(k) ==
    (hash(k) \div ITEMS_PER_BLOCK) * ITEMS_PER_BLOCK + blocks_to_scan * ITEMS_PER_BLOCK - 1
LookupSound ==
    ret.op = "get" =>
        \/ ret.val = stored[ret.key]
        \/ /\ ret.val = Absent
           /\ \A s \in At(ret.key) : hash(ret.key) + Offset(ret.key, s) > LastScanned(ret.key)

(* A lookup of a stored key finds it.  ohtable_get: "Compute the worst case  *)
(* number of blocks that must be scanned in order to find a record", from   *)
(* "the maximum offset of a record from its hash".                          *)
LookupFinds == ret.op = "get" => ret.val = stored[ret.key]
=============================================================================
