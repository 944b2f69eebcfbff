--------------------------- MODULE OhTableProofs ---------------------------
(***************************************************************************)
(* The Robin Hood table of c/ohtable keeps its promises for any capacity,  *)
(* any hash function and any sequence of puts, lookups and clears.         *)
(*                                                                         *)
(* The heart of the inductive invariant OhInv is the order of the probes   *)
(* (Passed): a record that was passed on the way to a stored record, or to *)
(* where the carried record is now, would not give way to it.  So an       *)
(* update meets the old record before it can displace anything (NotTwice), *)
(* and a swap keeps the order for every other record (SwapStays).  Both    *)
(* rest on robinhood comparing jumps computed from curr_slot_hash, which   *)
(* after a wrap is a capacity larger than the slot.                        *)
(***************************************************************************)
EXTENDS OhTable, FiniteSetTheorems, TLAPS

-----------------------------------------------------------------------------
(* The d-th slot that is probed for k, and whether a record that is found   *)
(* there stays: it is another one, and not closer to its hash than k.       *)
SlotAt(k, d) == IF hash(k) + d < Capacity THEN hash(k) + d ELSE hash(k) + d - Capacity

Jump(r, k, d) == distance_to_hash(hash(r.key), hash(k) + d)

Stays(r, k, d) ==
    /\ r.key \in Keys \ {k}
    /\ \/ Jump(r, k, d) > d
       \/ Jump(r, k, d) = d /\ raw[r.key] >= raw[k]

Passed(k, n) == \A d \in 0 .. n - 1 : Stays(slots[SlotAt(k, d)], k, d)

(* ohtable_put has a record in hand. *)
Carrying == args.kind = "put" /\ ~args.insert_complete

(* An empty slot holds nothing, a key is in one slot, and everything on the *)
(* way to it stays where it is.                                             *)
SlotsInv ==
    /\ \A s \in Slots : slots[s].key = NoKey => slots[s] = Empty
    /\ \A s, t \in Slots : slots[s].key = slots[t].key => s = t \/ slots[s].key = NoKey
    /\ \A k \in Keys, s \in Slots : slots[s].key = k => Passed(k, Offset(k, s))

(* What is in the table or in hand is what was stored. *)
StoredInv ==
    /\ \A s \in Slots : slots[s].key \in Keys =>
          /\ stored[slots[s].key] # Absent
          /\ slots[s].val = stored[slots[s].key] \/ (Carrying /\ args.in_record.key = slots[s].key)
    /\ \A k \in Keys : stored[k] # Absent =>
          (\E s \in Slots : slots[s].key = k) \/ (Carrying /\ args.in_record.key = k)

Occupied == {s \in Slots : slots[s] # Empty}

(* num_items is exact, up to the record that put_return will count. *)
CountInv ==
    Cardinality(Occupied) =
        num_items + IF args.kind = "put" /\ args.insert_complete /\ args.inserted_new_item
                    THEN 1 ELSE 0

(* The slot that is looked at next, or at which the search will start. *)
Here == args.block * ITEMS_PER_BLOCK + larger(args.i, args.start_index)

(* The carried record is looked for where it may be: everything before the  *)
(* slot considered was passed, and if it is in the table (an update; then   *)
(* nothing was displaced yet) it is still ahead.                            *)
CarryInv ==
    Carrying =>
        /\ args.in_record.key \in Keys
        /\ args.in_record.val \in Vals
        /\ args.in_record.val = stored[args.in_record.key]
        /\ args.curr_slot_hash = hash(args.in_record.key) + args.curr_jump
        /\ args.curr_slot_hash \in {Here, Here + Capacity}
        /\ Passed(args.in_record.key, args.curr_jump)
        /\ args.inserted => args.inserted_new_item
        /\ \A s \in Slots : slots[s].key = args.in_record.key =>
              ~args.inserted_new_item /\ args.curr_jump <= Offset(args.in_record.key, s)

(* There is an empty slot ahead, counted from where this put started. *)
RoomInv ==
    /\ Carrying =>
        /\ args.curr_jump <= args.trace
        /\ args.curr_slot_hash - args.trace \in Slots
        /\ \E e \in Slots : /\ slots[e] = Empty
                            /\ args.trace <= distance_to_hash(args.curr_slot_hash - args.trace, e)
    /\ args.kind = "put" => args.trace < Capacity

(* How far a lookup has got, not taking the wrap into account. *)
Scanned ==
    (hash(args.key) \div ITEMS_PER_BLOCK + (blocks_to_scan - args.blocks_to_scan)) * ITEMS_PER_BLOCK
        + larger(args.i, args.start_index)

(* A lookup that goes on has not passed its record. *)
GetInv ==
    args.kind = "get" =>
        /\ args.blocks_to_scan <= blocks_to_scan
        /\ args.blocks_to_scan = 0 => args.i = 0 /\ args.start_index = 0
        /\ args.search_complete => args.out_record.val = stored[args.key]
        /\ ~args.search_complete =>
              /\ args.out_record.val = Absent
              /\ hash(args.key) <= Scanned
              /\ \A s \in Slots : slots[s].key = args.key =>
                    /\ Scanned <= hash(args.key) + Offset(args.key, s)
                    /\ Scanned \in {Here, Here + Capacity}

(* A result is there only between operations. *)
RetInv ==
    /\ args # Idle => ret = Nothing
    /\ ret.op = "get" => ret.key \in Keys

(* The inductive invariant. *)
OhInv ==
    /\ TypeOK /\ SlotsInv /\ StoredInv /\ CountInv
    /\ CarryInv /\ RoomInv /\ GetInv /\ RetInv /\ LookupSound

-----------------------------------------------------------------------------
(* Arithmetic of blocks and slots. *)

(* ohtable->capacity is positive. *)
LEMMA CapacityPositive == Capacity \in Nat /\ Capacity > 0
  BY OhTableAssumption, SMT DEF Capacity

(* ohtable_hash_from_location: item i of block b is a slot, and block b + 1 *)
(* follows on block b; after the last block the capacity is reached.        *)
LEMMA BlockLayout ==
    ASSUME NEW b \in 0 .. NUM_BLOCKS - 1
    PROVE  /\ b * ITEMS_PER_BLOCK \in Nat
           /\ b * ITEMS_PER_BLOCK + ITEMS_PER_BLOCK <= Capacity
           /\ (b + 1) * ITEMS_PER_BLOCK = b * ITEMS_PER_BLOCK + ITEMS_PER_BLOCK
           /\ b + 1 = NUM_BLOCKS => b * ITEMS_PER_BLOCK + ITEMS_PER_BLOCK = Capacity
  <1> USE OhTableAssumption
  <1>1. \A x, y, z \in Nat : x + 1 <= y => x * z + z <= y * z
    <2> SUFFICES ASSUME NEW x \in Nat, NEW y \in Nat, NEW z \in Nat, x + 1 <= y
                 PROVE  x * z + z <= y * z
      OBVIOUS
    <2>1. PICK w \in Nat : y = x + 1 + w
      <3> WITNESS y - (x + 1) \in Nat
      <3> QED OBVIOUS
    <2>2. y * z = x * z + z + w * z
      BY <2>1
    <2>3. w * z \in Nat
      OBVIOUS
    <2>4. x * z \in Nat
      OBVIOUS
    <2> QED
      BY <2>2, <2>3, <2>4
  <1>2. b \in Nat /\ b + 1 <= NUM_BLOCKS
    OBVIOUS
  <1>3. b * ITEMS_PER_BLOCK \in Nat
    BY <1>2
  <1>4. (b + 1) * ITEMS_PER_BLOCK = b * ITEMS_PER_BLOCK + ITEMS_PER_BLOCK
    BY <1>2
  <1> QED
    BY <1>1, <1>2, <1>3, <1>4 DEF Capacity

(* ct_div and ct_mod: quotient and remainder. *)
LEMMA DivMod ==
    ASSUME NEW n \in Nat, NEW d \in Nat, d > 0
    PROVE  /\ n \div d \in Nat
           /\ n % d \in 0 .. d - 1
           /\ (n \div d) * d \in Nat
           /\ (n \div d) * d <= n
           /\ n = (n \div d) * d + (n % d)
  <1>1. n \div d \in Nat /\ n % d \in 0 .. d - 1
    OBVIOUS
  <1>2. n % d = n - (n \div d) * d
    OBVIOUS
  <1> QED
    BY <1>1, <1>2

(* hash: a key hashes to a slot, and its location is that slot. *)
LEMMA HashLocation ==
    ASSUME raw \in RawHashes, NEW k \in Keys
    PROVE  /\ raw[k] \in Nat
           /\ hash(k) \in Slots
           /\ hash(k) \div ITEMS_PER_BLOCK \in 0 .. NUM_BLOCKS - 1
           /\ hash(k) % ITEMS_PER_BLOCK \in 0 .. ITEMS_PER_BLOCK - 1
           /\ hash(k) =
                 (hash(k) \div ITEMS_PER_BLOCK) * ITEMS_PER_BLOCK + (hash(k) % ITEMS_PER_BLOCK)
  <1> USE OhTableAssumption, CapacityPositive
  <1>1. raw[k] \in Nat
    OBVIOUS
  <1>2. hash(k) \in Slots
    BY <1>1 DEF hash, Slots
  <1> DEFINE q == hash(k) \div ITEMS_PER_BLOCK
  <1>3. /\ q \in Nat
        /\ hash(k) % ITEMS_PER_BLOCK \in 0 .. ITEMS_PER_BLOCK - 1
        /\ q * ITEMS_PER_BLOCK \in Nat
        /\ q * ITEMS_PER_BLOCK <= hash(k)
        /\ hash(k) = q * ITEMS_PER_BLOCK + (hash(k) % ITEMS_PER_BLOCK)
    <2>1. hash(k) \in Nat /\ ITEMS_PER_BLOCK \in Nat /\ ITEMS_PER_BLOCK > 0
      BY <1>2 DEF Slots
    <2> QED
      BY <2>1, DivMod, Zenon
  <1>4. q \in 0 .. NUM_BLOCKS - 1
    <2> SUFFICES ASSUME q >= NUM_BLOCKS PROVE FALSE
      BY <1>3
    <2> HIDE DEF q
    <2>1. PICK w \in Nat : q = NUM_BLOCKS + w
      <3>1. q - NUM_BLOCKS \in Nat /\ q = NUM_BLOCKS + (q - NUM_BLOCKS)
        BY <1>3
      <3> QED
        BY <3>1
    <2>2. q * ITEMS_PER_BLOCK = Capacity + w * ITEMS_PER_BLOCK
      BY <2>1 DEF Capacity
    <2>3. w * ITEMS_PER_BLOCK \in Nat
      OBVIOUS
    <2> QED
      BY <1>2, <1>3, <2>2, <2>3 DEF Slots
  <1> QED
    BY <1>1, <1>2, <1>3, <1>4

-----------------------------------------------------------------------------
(* Distances and probe sequences. *)

(* distance_to_hash from a hash to a slot, and back. *)
LEMMA Distances ==
    ASSUME NEW h \in Slots, NEW s \in Slots
    PROVE  /\ distance_to_hash(h, s) \in Nat
           /\ distance_to_hash(h, s) < Capacity
           /\ h + distance_to_hash(h, s) \in {s, s + Capacity}
  BY CapacityPositive DEF distance_to_hash, Slots

(* The probe sequence of a key visits every slot once. *)
LEMMA Probes ==
    ASSUME raw \in RawHashes, NEW k \in Keys
    PROVE  /\ \A d \in 0 .. Capacity - 1 :
                 /\ SlotAt(k, d) \in Slots
                 /\ Offset(k, SlotAt(k, d)) = d
                 /\ hash(k) + d \in {SlotAt(k, d), SlotAt(k, d) + Capacity}
           /\ \A s \in Slots : /\ Offset(k, s) \in 0 .. Capacity - 1
                               /\ SlotAt(k, Offset(k, s)) = s
                               /\ hash(k) + Offset(k, s) \in {s, s + Capacity}
  <1>1. hash(k) \in 0 .. Capacity - 1
    BY HashLocation DEF Slots
  <1> QED
    BY <1>1, CapacityPositive DEF SlotAt, Offset, distance_to_hash, Slots

(* robinhood: when a carried record c takes the place of r, because r is    *)
(* closer to its hash, c stays in the way of every key k that r was in the  *)
(* way of.                                                                  *)
LEMMA SwapStays ==
    ASSUME raw \in RawHashes, NEW k \in Keys, NEW c, c.key \in Keys \ {k}, NEW r, r.key \in Keys,
           NEW d \in 0 .. Capacity - 1, Stays(r, k, d),
           NEW jc \in 0 .. Capacity - 1,
           NEW csh, csh = hash(c.key) + jc,
           csh \in {SlotAt(k, d), SlotAt(k, d) + Capacity},
           \/ distance_to_hash(hash(r.key), csh) < jc
           \/ distance_to_hash(hash(r.key), csh) = jc /\ raw[r.key] < raw[c.key]
    PROVE  Stays(c, k, d)
  <1>1. hash(k) \in 0 .. Capacity - 1 /\ hash(c.key) \in 0 .. Capacity - 1
        /\ hash(r.key) \in 0 .. Capacity - 1
    BY HashLocation DEF Slots
  <1>2. raw[k] \in Nat /\ raw[c.key] \in Nat /\ raw[r.key] \in Nat
    BY HashLocation
  <1>3. SlotAt(k, d) \in Slots
    BY Probes
  <1>4. \/ Jump(c, k, d) > d
        \/ Jump(c, k, d) = d /\ raw[c.key] >= raw[k]
    BY <1>1, <1>2, <1>3, CapacityPositive DEF Stays, Jump, SlotAt, distance_to_hash, Slots
  <1> QED
    BY <1>4 DEF Stays

(* robinhood: the record that was swapped out finds c in its way. *)
LEMMA SwappedStays ==
    ASSUME raw \in RawHashes, NEW c, c.key \in Keys, NEW r, r.key \in Keys \ {c.key},
           NEW jc \in 0 .. Capacity - 1,
           NEW csh, csh = hash(c.key) + jc,
           NEW d, d = distance_to_hash(hash(r.key), csh),
           d < jc \/ (d = jc /\ raw[r.key] < raw[c.key])
    PROVE  /\ d \in 0 .. jc
           /\ csh = hash(r.key) + d
           /\ Stays(c, r.key, d)
  <1>1. hash(c.key) \in 0 .. Capacity - 1 /\ hash(r.key) \in 0 .. Capacity - 1
    BY HashLocation DEF Slots
  <1>2. raw[c.key] \in Nat /\ raw[r.key] \in Nat
    BY HashLocation
  <1>3. d \in 0 .. jc /\ csh = hash(r.key) + d
    BY <1>1, CapacityPositive DEF distance_to_hash
  <1>4. \/ Jump(c, r.key, d) > d
        \/ Jump(c, r.key, d) = d /\ raw[c.key] >= raw[r.key]
    BY <1>1, <1>2, <1>3, CapacityPositive DEF Jump, distance_to_hash
  <1> QED
    BY <1>3, <1>4 DEF Stays

(* robinhood: where a record with this probe sequence is looked at. *)
LEMMA AtHere ==
    ASSUME raw \in RawHashes, NEW k \in Keys, NEW d \in 0 .. Capacity - 1,
           NEW s \in Slots, hash(k) + d \in {s, s + Capacity}
    PROVE  SlotAt(k, d) = s /\ Offset(k, s) = d
  <1>1. hash(k) \in 0 .. Capacity - 1
    BY HashLocation DEF Slots
  <1> QED
    BY <1>1, CapacityPositive DEF SlotAt, Offset, distance_to_hash, Slots

(* An empty slot that is ahead of the one considered is still ahead after   *)
(* it.                                                                      *)
LEMMA OneFurther ==
    ASSUME NEW h \in Slots, NEW e \in Slots, NEW s \in Slots, e # s,
           NEW n \in 0 .. Capacity - 1, h + n \in {s, s + Capacity},
           n <= distance_to_hash(h, e)
    PROVE  n + 1 <= distance_to_hash(h, e) /\ distance_to_hash(h, e) < Capacity
  BY CapacityPositive DEF distance_to_hash, Slots

-----------------------------------------------------------------------------
(* The four things that an iteration of robinhood does. *)

Spot    == args.block * ITEMS_PER_BLOCK + args.i
Looking == Carrying /\ args.start_index <= args.i

Iteration ==
    /\ args \in PutArgs /\ args' \in PutArgs
    /\ args.i < ITEMS_PER_BLOCK /\ args'.i = args.i + 1
    /\ args'.block = args.block /\ args'.start_index = args.start_index
    /\ Spot \in Slots
    /\ UNCHANGED <<raw, num_items, max_offset, ret, stored>>

Skips ==
    /\ ~Looking
    /\ UNCHANGED slots
    /\ args'.in_record = args.in_record /\ (args'.insert_complete <=> args.insert_complete)
    /\ (args'.inserted <=> args.inserted) /\ (args'.inserted_new_item <=> args.inserted_new_item)
    /\ args'.curr_jump = args.curr_jump /\ args'.trace = args.trace
    /\ ~args.insert_complete => args'.curr_slot_hash = args.curr_slot_hash

Stores ==
    /\ Looking
    /\ slots[Spot].key \in {NoKey, args.in_record.key}
    /\ slots' = [slots EXCEPT ![Spot] = args.in_record]
    /\ args'.insert_complete
    /\ args'.inserted_new_item <=>
          args.inserted_new_item \/ (slots[Spot] = Empty /\ ~args.inserted)
    /\ args'.trace = args.trace

Swaps ==
    /\ Looking
    /\ slots[Spot].key \in Keys \ {args.in_record.key}
    /\ jump_smaller(args, slots[Spot])
    /\ slots' = [slots EXCEPT ![Spot] = args.in_record]
    /\ args'.in_record = slots[Spot]
    /\ ~args'.insert_complete
    /\ args'.inserted
    /\ args'.inserted_new_item <=> args.inserted_new_item \/ ~args.inserted
    /\ args'.curr_jump = 1 + distance_to_hash(hash(slots[Spot].key), args.curr_slot_hash)
    /\ args'.curr_slot_hash = args.curr_slot_hash + 1
    /\ args'.trace = args.trace + 1

Passes ==
    /\ Looking
    /\ slots[Spot].key \in Keys \ {args.in_record.key}
    /\ ~jump_smaller(args, slots[Spot])
    /\ UNCHANGED slots
    /\ args'.in_record = args.in_record
    /\ ~args'.insert_complete
    /\ args'.inserted <=> args.inserted
    /\ args'.inserted_new_item <=> args.inserted_new_item
    /\ args'.curr_jump = args.curr_jump + 1
    /\ args'.curr_slot_hash = args.curr_slot_hash + 1
    /\ args'.trace = args.trace + 1

(* distance_to_hash of any record to any slot hash is a number. *)
LEMMA DistanceNat ==
    ASSUME raw \in RawHashes, NEW k \in Keys, NEW n \in Nat
    PROVE  distance_to_hash(hash(k), n) \in Nat
  <1>1. hash(k) \in 0 .. Capacity - 1
    BY HashLocation DEF Slots
  <1> QED
    BY <1>1, CapacityPositive DEF distance_to_hash

(* robinhood is one of them; and its arguments keep their types. *)
LEMMA RobinhoodCases ==
    ASSUME TypeOK, robinhood
    PROVE  Iteration /\ (Skips \/ Stores \/ Swaps \/ Passes)
  <1> DEFINE a == args
             s == Spot
             cand == slots[s]
             search_started == a.start_index <= a.i
             should_store   == /\ search_started /\ ~a.insert_complete
                               /\ cand.key \in {NoKey, a.in_record.key}
             should_swap    == /\ search_started /\ ~a.insert_complete /\ ~should_store
                               /\ jump_smaller(a, cand)
             going_on       == search_started /\ ~a.insert_complete /\ ~should_store
             inc            == IF going_on THEN 1 ELSE 0
  <1>1. args \in PutArgs /\ args.kind = "put" /\ args.i < ITEMS_PER_BLOCK
    BY DEF TypeOK, robinhood, PutArgs, GetArgs, Idle
  <1>2. Spot \in Slots
    <2>1. args.block \in 0 .. NUM_BLOCKS - 1 /\ args.i \in Nat
      BY <1>1 DEF PutArgs
    <2>2. /\ args.block * ITEMS_PER_BLOCK \in Nat
          /\ args.block * ITEMS_PER_BLOCK + ITEMS_PER_BLOCK <= Capacity
      BY <2>1, BlockLayout
    <2> QED
      BY <1>1, <2>1, <2>2, CapacityPositive, OhTableAssumption DEF Spot, Slots
  <1>3. cand \in Record
    BY <1>2 DEF TypeOK
  <1> DEFINE
        rec  == IF should_swap THEN cand ELSE a.in_record
        done == a.insert_complete \/ should_store
        ins  == a.inserted \/ should_store \/ should_swap
        new  == a.inserted_new_item \/ counts_as_new(a, cand, should_store, should_swap)
        off  == offset_after(a, should_store, should_swap)
        jump == inc + IF should_swap THEN distance_to_hash(hash(cand.key), a.curr_slot_hash)
                                     ELSE a.curr_jump
        csh  == a.curr_slot_hash + IF search_started THEN 1 ELSE 0
        tr   == a.trace + inc
  <1>4. args' = [args EXCEPT !.i = a.i + 1, !.in_record = rec, !.insert_complete = done,
                             !.inserted = ins, !.inserted_new_item = new, !.max_offset = off,
                             !.curr_jump = jump, !.curr_slot_hash = csh, !.trace = tr]
    BY DEF robinhood, Spot
  <1>5. /\ slots' = IF should_store \/ should_swap
                    THEN [slots EXCEPT ![s] = a.in_record] ELSE slots
        /\ UNCHANGED <<raw, num_items, max_offset, ret, stored>>
    BY DEF robinhood, Spot
  <1>6. should_store \in BOOLEAN /\ should_swap \in BOOLEAN
        /\ counts_as_new(a, cand, should_store, should_swap) \in BOOLEAN
        /\ inc \in Nat
    BY DEF jump_smaller, counts_as_new
  <1>7. should_swap => distance_to_hash(hash(cand.key), a.curr_slot_hash) \in Nat
    <2>1. should_swap => cand.key \in Keys
      BY <1>3 DEF Record
    <2>2. a.curr_slot_hash \in Nat
      BY <1>1 DEF PutArgs
    <2> QED
      BY <2>1, <2>2, DistanceNat DEF TypeOK
  <1> HIDE DEF should_store, should_swap, inc
  <1>8. /\ rec \in Record /\ done \in BOOLEAN /\ ins \in BOOLEAN /\ new \in BOOLEAN
        /\ off \in Nat /\ jump \in Nat /\ csh \in Nat /\ tr \in Nat
        /\ a.i + 1 \in 0 .. ITEMS_PER_BLOCK
    BY <1>1, <1>3, <1>6, <1>7, OhTableAssumption DEF PutArgs, offset_after
  <1> HIDE DEF rec, done, ins, new, off, jump, csh, tr
  <1>9. args' \in PutArgs
    BY <1>1, <1>4, <1>8 DEF PutArgs
  <1>10. /\ args'.block = a.block /\ args'.start_index = a.start_index
         /\ args'.i = a.i + 1 /\ args'.in_record = rec /\ (args'.insert_complete <=> done)
         /\ (args'.inserted <=> ins) /\ (args'.inserted_new_item <=> new)
         /\ args'.curr_jump = jump /\ args'.curr_slot_hash = csh /\ args'.trace = tr
    BY <1>1, <1>4, <1>8 DEF PutArgs
  <1>11. Iteration
    BY <1>1, <1>2, <1>5, <1>9, <1>10 DEF Iteration
  <1>12. a.insert_complete \in BOOLEAN /\ a.inserted \in BOOLEAN /\ a.inserted_new_item \in BOOLEAN
         /\ a.curr_jump \in Nat /\ a.curr_slot_hash \in Nat /\ a.trace \in Nat
    BY <1>1 DEF PutArgs
  <1>13. CASE ~(search_started /\ ~a.insert_complete)
    <2>1. ~should_store /\ ~should_swap /\ inc = 0
      BY <1>13 DEF should_store, should_swap, inc
    <2>2. /\ rec = a.in_record /\ (done <=> a.insert_complete) /\ (ins <=> a.inserted)
          /\ (new <=> a.inserted_new_item) /\ jump = a.curr_jump /\ tr = a.trace
          /\ ~a.insert_complete => csh = a.curr_slot_hash
      BY <1>12, <1>13, <2>1 DEF rec, done, ins, new, jump, tr, csh, counts_as_new
    <2>3. ~Looking /\ UNCHANGED slots
      BY <1>5, <1>13, <2>1 DEF Looking, Carrying
    <2> QED
      BY <1>10, <1>11, <2>2, <2>3 DEF Skips
  <1>14. CASE search_started /\ ~a.insert_complete
    <2>1. Looking
      BY <1>1, <1>14 DEF Looking, Carrying
    <2>2. CASE should_store
      <3>1. ~should_swap /\ inc = 0 /\ cand.key \in {NoKey, a.in_record.key}
        BY <2>2 DEF should_store, should_swap, inc
      <3>2. /\ done /\ tr = a.trace
            /\ new <=> a.inserted_new_item \/ (cand = Empty /\ ~a.inserted)
        BY <1>12, <2>2, <3>1 DEF done, new, tr, counts_as_new
      <3>3. slots' = [slots EXCEPT ![s] = a.in_record]
        BY <1>5, <2>2
      <3> QED
        BY <1>10, <1>11, <2>1, <3>1, <3>2, <3>3 DEF Stores
    <2>3. CASE should_swap
      <3>1. ~should_store /\ inc = 1 /\ cand.key \notin {NoKey, a.in_record.key}
        BY <1>14, <2>3 DEF should_store, should_swap, inc
      <3>2. jump_smaller(a, cand)
        BY <2>3 DEF should_swap
      <3>3. /\ rec = cand /\ ~done /\ ins /\ tr = a.trace + 1 /\ csh = a.curr_slot_hash + 1
            /\ new <=> a.inserted_new_item \/ ~a.inserted
            /\ jump = 1 + distance_to_hash(hash(cand.key), a.curr_slot_hash)
        BY <1>12, <1>14, <2>3, <3>1 DEF rec, done, ins, new, tr, csh, jump, counts_as_new
      <3>4. slots' = [slots EXCEPT ![s] = a.in_record] /\ cand.key \in Keys \ {a.in_record.key}
        BY <1>3, <1>5, <2>3, <3>1 DEF Record
      <3> QED
        BY <1>10, <1>11, <2>1, <3>1, <3>2, <3>3, <3>4 DEF Swaps
    <2>4. CASE ~should_store /\ ~should_swap
      <3>1. inc = 1 /\ cand.key \notin {NoKey, a.in_record.key} /\ ~jump_smaller(a, cand)
        BY <1>14, <2>4 DEF should_store, should_swap, inc
      <3>2. /\ rec = a.in_record /\ ~done /\ (ins <=> a.inserted)
            /\ (new <=> a.inserted_new_item) /\ jump = a.curr_jump + 1
            /\ tr = a.trace + 1 /\ csh = a.curr_slot_hash + 1
        BY <1>12, <1>14, <2>4, <3>1 DEF rec, done, ins, new, jump, tr, csh, counts_as_new
      <3>3. UNCHANGED slots /\ cand.key \in Keys \ {a.in_record.key}
        BY <1>3, <1>5, <2>4, <3>1 DEF Record
      <3> QED
        BY <1>10, <1>11, <2>1, <3>1, <3>2, <3>3 DEF Passes
    <2> QED
      BY <2>2, <2>3, <2>4
  <1> QED
    BY <1>11, <1>13, <1>14

-----------------------------------------------------------------------------
(* A probe sequence sees a changed slot only where it passes it. *)
LEMMA PassedFrame ==
    ASSUME raw \in RawHashes, UNCHANGED raw, slots \in [Slots -> Record],
           NEW k \in Keys, NEW n \in 0 .. Capacity, Passed(k, n),
           NEW s \in Slots, NEW r, slots' = [slots EXCEPT ![s] = r],
           \A d \in 0 .. n - 1 : SlotAt(k, d) = s => Stays(r, k, d)
    PROVE  Passed(k, n)'
  <1> SUFFICES ASSUME NEW d \in 0 .. n - 1
               PROVE  Stays(slots'[SlotAt(k, d)], k, d)
    BY DEF Passed, Stays, Jump, SlotAt, hash
  <1>1. d \in 0 .. Capacity - 1
    BY CapacityPositive
  <1>2. SlotAt(k, d) \in Slots
    BY <1>1, Probes
  <1>3. Stays(slots[SlotAt(k, d)], k, d)
    BY DEF Passed
  <1>4. CASE SlotAt(k, d) = s
    BY <1>2, <1>4
  <1>5. CASE SlotAt(k, d) # s
    BY <1>2, <1>3, <1>5
  <1> QED
    BY <1>4, <1>5

(* Where robinhood is while it carries a record and has started its search: *)
(* the slot considered is the one at curr_jump in that record's probe       *)
(* sequence.                                                                *)
LEMMA LookingAt ==
    ASSUME OhInv, Iteration, Looking
    PROVE  /\ args.in_record \in Record /\ args.in_record.key \in Keys
           /\ args.curr_jump \in 0 .. Capacity - 1
           /\ args.trace \in 0 .. Capacity - 1
           /\ args.curr_slot_hash = hash(args.in_record.key) + args.curr_jump
           /\ args.curr_slot_hash \in {Spot, Spot + Capacity}
           /\ SlotAt(args.in_record.key, args.curr_jump) = Spot
           /\ Offset(args.in_record.key, Spot) = args.curr_jump
  <1> USE DEF OhInv
  <1>1. /\ args.in_record \in Record /\ args.curr_jump \in Nat /\ args.trace \in Nat
        /\ args.kind = "put" /\ args.start_index \in Nat /\ args.i \in Nat
    BY DEF Iteration, PutArgs
  <1>2. args.curr_jump \in 0 .. Capacity - 1 /\ args.trace \in 0 .. Capacity - 1
    BY <1>1, CapacityPositive DEF RoomInv, Looking, Carrying
  <1>3. Here = Spot
    BY <1>1 DEF Looking, Here, Spot, larger
  <1>4. /\ args.in_record.key \in Keys
        /\ args.curr_slot_hash = hash(args.in_record.key) + args.curr_jump
        /\ args.curr_slot_hash \in {Spot, Spot + Capacity}
    BY <1>3 DEF CarryInv, Looking
  <1>5. Spot \in Slots /\ raw \in RawHashes
    BY DEF Iteration, TypeOK
  <1>6. /\ SlotAt(args.in_record.key, args.curr_jump) = Spot
        /\ Offset(args.in_record.key, Spot) = args.curr_jump
    BY <1>2, <1>4, <1>5, AtHere
  <1> QED
    BY <1>1, <1>2, <1>4, <1>6

(* A record cannot be stored in an empty slot, or swapped, while it is in   *)
(* the table: its own slot comes first, because of the order of the probes. *)
LEMMA NotTwice ==
    ASSUME OhInv, Iteration, Looking, Stores \/ Swaps,
           NEW t \in Slots, slots[t].key = args.in_record.key
    PROVE  t = Spot
  <1> SUFFICES ASSUME t # Spot PROVE FALSE
    OBVIOUS
  <1> DEFINE c == args.in_record.key
             j == args.curr_jump
  <1> USE LookingAt
  <1>1. raw \in RawHashes /\ Spot \in Slots /\ c \in Keys
    BY DEF OhInv, TypeOK, Iteration
  <1>2. Offset(c, t) \in 0 .. Capacity - 1 /\ SlotAt(c, Offset(c, t)) = t
    BY <1>1, Probes
  <1>3. j < Offset(c, t)
    <2>1. j <= Offset(c, t)
      BY DEF OhInv, CarryInv, Looking
    <2>2. j # Offset(c, t)
      BY <1>2
    <2> QED
      BY <1>2, <2>1, <2>2
  <1>4. Passed(c, Offset(c, t))
    BY <1>1 DEF OhInv, SlotsInv
  <1>5. j \in 0 .. Offset(c, t) - 1
    BY <1>2, <1>3
  <1>6. Stays(slots[SlotAt(c, j)], c, j)
    BY <1>4, <1>5 DEF Passed
  <1>7. Stays(slots[Spot], c, j)
    BY <1>6
  <1>8. CASE Stores
    BY <1>7, <1>8, OhTableAssumption DEF Stores, Stays
  <1>9. CASE Swaps
    <2>1. jump_smaller(args, slots[Spot]) /\ slots[Spot].key \in Keys
      BY <1>9 DEF Swaps
    <2>2. raw[slots[Spot].key] \in Nat /\ raw[c] \in Nat
      BY <1>1, <2>1, HashLocation
    <2>3. Jump(slots[Spot], c, j) = distance_to_hash(hash(slots[Spot].key), args.curr_slot_hash)
      BY DEF Jump
    <2>4. distance_to_hash(hash(slots[Spot].key), args.curr_slot_hash) \in Nat
      <3>1. args.curr_slot_hash \in Nat
        BY DEF Iteration, PutArgs
      <3> QED
        BY <1>1, <2>1, <3>1, DistanceNat
    <2> QED
      BY <1>7, <2>1, <2>2, <2>3, <2>4 DEF Stays, jump_smaller
  <1> QED
    BY <1>8, <1>9

-----------------------------------------------------------------------------
(* A store keeps the Robin Hood order: it fills the end of a probe sequence *)
(* or replaces a record by one with the same key.                           *)
LEMMA StoreSlots ==
    ASSUME OhInv, Iteration, Stores
    PROVE  SlotsInv'
  <1> DEFINE c == args.in_record.key
             j == args.curr_jump
  <1>1. Looking
    BY DEF Stores
  <1>2. /\ raw \in RawHashes /\ UNCHANGED raw /\ slots \in [Slots -> Record] /\ Spot \in Slots
        /\ slots' = [slots EXCEPT ![Spot] = args.in_record]
    BY DEF OhInv, TypeOK, Iteration, Stores
  <1>3. c \in Keys /\ j \in 0 .. Capacity - 1 /\ SlotAt(c, j) = Spot /\ Offset(c, Spot) = j
    BY <1>1, LookingAt
  <1>4. c # NoKey
    BY <1>3, OhTableAssumption
  <1>5. \A s \in Slots : slots'[s].key = NoKey => slots'[s] = Empty
    BY <1>2, <1>4 DEF OhInv, SlotsInv
  <1>6. \A s, t \in Slots : slots'[s].key = slots'[t].key => s = t \/ slots'[s].key = NoKey
    BY <1>1, <1>2, NotTwice DEF OhInv, SlotsInv
  <1>7. ASSUME NEW k \in Keys, NEW s \in Slots, slots'[s].key = k
        PROVE  Passed(k, Offset(k, s))'
    <2>1. PICK n \in 0 .. Capacity - 1 : n = Offset(k, s) /\ SlotAt(k, n) = s
      BY <1>2, Probes
    <2>2. Passed(k, n)
      <3>1. CASE s = Spot
        BY <1>1, <1>2, <1>3, <1>7, <2>1, <3>1 DEF OhInv, CarryInv, Looking
      <3>2. CASE s # Spot
        BY <1>2, <1>7, <2>1, <3>2 DEF OhInv, SlotsInv
      <3> QED
        BY <3>1, <3>2
    <2>3. ASSUME NEW d \in 0 .. n - 1, SlotAt(k, d) = Spot PROVE Stays(args.in_record, k, d)
      <3>1. Stays(slots[Spot], k, d)
        BY <2>2, <2>3 DEF Passed
      <3>2. slots[Spot].key = c
        BY <3>1, OhTableAssumption DEF Stores, Stays
      <3> QED
        BY <3>1, <3>2 DEF Stays, Jump
    <2>4. n \in 0 .. Capacity
      BY <2>1, CapacityPositive
    <2>5. Passed(k, n)'
      BY <1>2, <2>2, <2>3, <2>4, PassedFrame
    <2>6. Offset(k, s)' = n
      BY <1>2, <2>1 DEF Offset, distance_to_hash, hash
    <2> QED
      BY <2>5, <2>6
  <1> QED
    BY <1>5, <1>6, <1>7 DEF SlotsInv

(* A swap keeps the Robin Hood order: who gives way is closer to its hash,  *)
(* so no probe that passed it may end at the new record.                    *)
LEMMA SwapSlots ==
    ASSUME OhInv, Iteration, Swaps
    PROVE  SlotsInv'
  <1> DEFINE c == args.in_record.key
             j == args.curr_jump
             r == slots[Spot]
  <1>1. Looking
    BY DEF Swaps
  <1>2. /\ raw \in RawHashes /\ UNCHANGED raw /\ slots \in [Slots -> Record] /\ Spot \in Slots
        /\ slots' = [slots EXCEPT ![Spot] = args.in_record]
    BY DEF OhInv, TypeOK, Iteration, Swaps
  <1>3. /\ c \in Keys /\ j \in 0 .. Capacity - 1 /\ SlotAt(c, j) = Spot /\ Offset(c, Spot) = j
        /\ args.curr_slot_hash = hash(c) + j
        /\ args.curr_slot_hash \in {Spot, Spot + Capacity}
    BY <1>1, LookingAt
  <1>4. c # NoKey
    BY <1>3, OhTableAssumption
  <1>5. \A s \in Slots : slots'[s].key = NoKey => slots'[s] = Empty
    BY <1>2, <1>4 DEF OhInv, SlotsInv
  <1>6. \A s, t \in Slots : slots'[s].key = slots'[t].key => s = t \/ slots'[s].key = NoKey
    BY <1>1, <1>2, NotTwice DEF OhInv, SlotsInv
  <1>7. ASSUME NEW k \in Keys, NEW s \in Slots, slots'[s].key = k
        PROVE  Passed(k, Offset(k, s))'
    <2>1. PICK n \in 0 .. Capacity - 1 : n = Offset(k, s) /\ SlotAt(k, n) = s
      BY <1>2, Probes
    <2>2. Passed(k, n)
      <3>1. CASE s = Spot
        BY <1>1, <1>2, <1>3, <1>7, <2>1, <3>1 DEF OhInv, CarryInv, Looking
      <3>2. CASE s # Spot
        BY <1>2, <1>7, <2>1, <3>2 DEF OhInv, SlotsInv
      <3> QED
        BY <3>1, <3>2
    <2>3. ASSUME NEW d \in 0 .. n - 1, SlotAt(k, d) = Spot PROVE Stays(args.in_record, k, d)
      <3>1. Stays(r, k, d)
        BY <2>2, <2>3 DEF Passed
      <3>2. d \in 0 .. Capacity - 1
        BY <2>1, CapacityPositive
      <3>3. Offset(k, Spot) = d
        BY <1>2, <1>7, <2>3, <3>2, Probes
      <3>4. k # c
        <4> SUFFICES ASSUME k = c PROVE FALSE
          OBVIOUS
        <4>1. s # Spot
          BY <2>1, <3>3
        <4>2. slots[s].key = c
          BY <1>2, <1>7, <4>1
        <4> QED
          BY <1>1, <4>1, <4>2, NotTwice
      <3>5. r.key \in Keys /\ jump_smaller(args, r)
        BY DEF Swaps
      <3> HIDE DEF r
      <3> QED
        BY <1>2, <1>3, <2>3, <3>1, <3>2, <3>4, <3>5, SwapStays DEF jump_smaller
    <2>4. n \in 0 .. Capacity
      BY <2>1, CapacityPositive
    <2>5. Passed(k, n)'
      BY <1>2, <2>2, <2>3, <2>4, PassedFrame
    <2>6. Offset(k, s)' = n
      BY <1>2, <2>1 DEF Offset, distance_to_hash, hash
    <2> QED
      BY <2>5, <2>6
  <1> QED
    BY <1>5, <1>6, <1>7 DEF SlotsInv

-----------------------------------------------------------------------------
(* What does not touch the slots leaves their order alone. *)
LEMMA SlotsSame ==
    ASSUME UNCHANGED <<raw, slots>>
    PROVE  /\ SlotsInv => SlotsInv'
           /\ \A k, n : Passed(k, n) => Passed(k, n)'
           /\ \A k, s : Offset(k, s)' = Offset(k, s)
           /\ \A k : hash(k)' = hash(k)
           /\ Occupied' = Occupied
  <1>1. \A k : hash(k)' = hash(k)
    BY DEF hash
  <1>2. \A k, s : Offset(k, s)' = Offset(k, s)
    BY <1>1 DEF Offset, distance_to_hash
  <1>3. \A k, d : SlotAt(k, d)' = SlotAt(k, d)
    BY <1>1 DEF SlotAt
  <1>4. \A r, k, d : Stays(r, k, d) => Stays(r, k, d)'
    BY <1>1 DEF Stays, Jump, distance_to_hash
  <1>5. \A k, n : Passed(k, n) => Passed(k, n)'
    BY <1>3, <1>4 DEF Passed
  <1>6. SlotsInv => SlotsInv'
    BY <1>2, <1>5 DEF SlotsInv
  <1> QED
    BY <1>1, <1>2, <1>5, <1>6 DEF Occupied

(* robinhood: the shape of the state. *)
LEMMA RobinhoodType ==
    ASSUME OhInv, Iteration, Skips \/ Stores \/ Swaps \/ Passes
    PROVE  TypeOK' /\ RetInv' /\ GetInv' /\ LookupSound'
  <1>1. args.kind = "put" /\ args'.kind = "put" /\ args.in_record \in Record
    BY DEF Iteration, PutArgs
  <1>2. slots' \in [Slots -> Record]
    <2>1. slots \in [Slots -> Record]
      BY DEF OhInv, TypeOK
    <2> QED
      BY <1>1, <2>1 DEF Skips, Stores, Swaps, Passes, Iteration
  <1>3. TypeOK'
    BY <1>2 DEF OhInv, TypeOK, Iteration
  <1>4. RetInv' /\ GetInv' /\ LookupSound'
    BY <1>1 DEF OhInv, RetInv, GetInv, LookupSound, Iteration, Nothing, Idle
  <1> QED
    BY <1>3, <1>4

(* robinhood: nothing is lost. *)
LEMMA RobinhoodStored ==
    ASSUME OhInv, Iteration, Skips \/ Stores \/ Swaps \/ Passes
    PROVE  StoredInv'
  <1> USE DEF OhInv, StoredInv
  <1>1. /\ args.kind = "put" /\ args'.kind = "put" /\ UNCHANGED stored
        /\ slots \in [Slots -> Record] /\ Spot \in Slots
    BY DEF Iteration, PutArgs, TypeOK
  <1>2. CASE Skips
    BY <1>1, <1>2 DEF Skips, Carrying
  <1>3. CASE Passes
    BY <1>1, <1>3 DEF Passes, Carrying, Looking
  <1>4. CASE Stores
    <2>1. /\ args.in_record.key \in Keys /\ args.in_record.val = stored[args.in_record.key]
          /\ args.in_record.val # Absent /\ Looking
      BY <1>4, OhTableAssumption DEF Stores, Looking, CarryInv
    <2>2. slots' = [slots EXCEPT ![Spot] = args.in_record] /\ ~Carrying'
          /\ slots[Spot].key \in {NoKey, args.in_record.key}
      BY <1>4 DEF Stores, Carrying
    <2>3. ASSUME NEW s \in Slots, slots'[s].key \in Keys
          PROVE  stored[slots'[s].key] # Absent /\ slots'[s].val = stored[slots'[s].key]
      BY <1>1, <1>4, <2>1, <2>2, <2>3, NotTwice
    <2>4. ASSUME NEW k \in Keys, stored[k] # Absent PROVE \E s \in Slots : slots'[s].key = k
      BY <1>1, <2>1, <2>2, <2>4, OhTableAssumption DEF Carrying
    <2> QED
      BY <1>1, <2>3, <2>4
  <1>5. CASE Swaps
    <2>1. /\ args.in_record.key \in Keys /\ args.in_record.val = stored[args.in_record.key]
          /\ args.in_record.val # Absent /\ Looking
      BY <1>5, OhTableAssumption DEF Swaps, Looking, CarryInv
    <2>2. slots' = [slots EXCEPT ![Spot] = args.in_record]
          /\ Carrying' /\ args'.in_record = slots[Spot]
      BY <1>1, <1>5 DEF Swaps, Carrying
    <2>3. ASSUME NEW s \in Slots, slots'[s].key \in Keys
          PROVE  stored[slots'[s].key] # Absent /\ slots'[s].val = stored[slots'[s].key]
      BY <1>1, <1>5, <2>1, <2>2, <2>3, NotTwice
    <2>4. ASSUME NEW k \in Keys, stored[k] # Absent
          PROVE (\E s \in Slots : slots'[s].key = k) \/ args'.in_record.key = k
      BY <1>1, <2>1, <2>2, <2>4 DEF Carrying
    <2> QED
      BY <1>1, <2>2, <2>3, <2>4
  <1> QED
    BY <1>2, <1>3, <1>4, <1>5

(* robinhood: a new record is counted exactly when a slot is filled. *)
LEMMA RobinhoodCount ==
    ASSUME OhInv, Iteration, Skips \/ Stores \/ Swaps \/ Passes
    PROVE  CountInv'
  <1> USE DEF OhInv, CountInv
  <1>1. /\ args.kind = "put" /\ args'.kind = "put" /\ UNCHANGED num_items
        /\ slots \in [Slots -> Record] /\ Spot \in Slots /\ num_items \in Nat
        /\ args'.inserted_new_item \in BOOLEAN /\ args.inserted_new_item \in BOOLEAN
    BY DEF Iteration, PutArgs, TypeOK
  <1>2. CASE Skips
    BY <1>1, <1>2 DEF Skips, Occupied
  <1>3. CASE Passes
    BY <1>1, <1>3 DEF Passes, Carrying, Looking, Occupied
  <1>4. CASE Swaps
    <2>1. slots[Spot] # Empty /\ args.in_record # Empty
      BY <1>4, OhTableAssumption DEF Swaps, Looking, CarryInv, Empty
    <2>2. Occupied' = Occupied
      BY <1>1, <1>4, <2>1 DEF Swaps, Occupied
    <2> QED
      BY <1>1, <1>4, <2>2 DEF Swaps, Looking, Carrying
  <1>5. CASE Stores
    <2>1. args.in_record # Empty /\ args.in_record.key \in Keys
          /\ (args.inserted => args.inserted_new_item)
      BY <1>5, OhTableAssumption DEF Stores, Looking, CarryInv, Empty
    <2>2. Cardinality(Occupied) = num_items
      BY <1>1, <1>5 DEF Stores, Looking, Carrying
    <2>3. Occupied' = Occupied \cup {Spot}
      BY <1>1, <1>5, <2>1 DEF Stores, Occupied
    <2>4. IsFiniteSet(Occupied)
      <3>1. IsFiniteSet(Slots)
        BY CapacityPositive, FS_Interval DEF Slots
      <3> QED
        BY <3>1, FS_Subset DEF Occupied
    <2>5. CASE slots[Spot] = Empty
      <3>1. Spot \notin Occupied
        BY <2>5 DEF Occupied
      <3>2. Cardinality(Occupied') = num_items + 1
        BY <2>2, <2>3, <2>4, <3>1, FS_AddElement
      <3>3. args'.insert_complete /\ args'.inserted_new_item
        BY <1>5, <2>1, <2>5 DEF Stores
      <3> QED
        BY <1>1, <3>2, <3>3
    <2>6. CASE slots[Spot] # Empty
      <3>1. slots[Spot].key = args.in_record.key
        BY <1>1, <1>5, <2>6 DEF Stores, SlotsInv
      <3>2. ~args.inserted_new_item
        BY <1>1, <1>5, <3>1 DEF Stores, Looking, CarryInv
      <3>3. ~args'.inserted_new_item
        BY <1>5, <2>6, <3>2 DEF Stores
      <3>4. Occupied' = Occupied
        BY <1>1, <2>3, <2>6 DEF Occupied
      <3> QED
        BY <1>1, <2>2, <3>3, <3>4
    <2> QED
      BY <2>5, <2>6
  <1> QED
    BY <1>2, <1>3, <1>4, <1>5

(* robinhood: the carried record stays in its probe sequence. *)
LEMMA RobinhoodCarry ==
    ASSUME OhInv, Iteration, Skips \/ Stores \/ Swaps \/ Passes
    PROVE  CarryInv'
  <1> USE DEF OhInv
  <1>1. /\ args.kind = "put" /\ args'.kind = "put" /\ UNCHANGED <<raw, stored>>
        /\ raw \in RawHashes /\ slots \in [Slots -> Record] /\ Spot \in Slots
        /\ args.i \in Nat /\ args.start_index \in Nat /\ args.block \in 0 .. NUM_BLOCKS - 1
        /\ args'.i = args.i + 1 /\ args'.start_index = args.start_index
        /\ args'.block = args.block
    BY DEF Iteration, PutArgs, TypeOK
  <1>2. args.block * ITEMS_PER_BLOCK \in Nat
    BY <1>1, BlockLayout
  <1>3. Looking => Here' = Spot + 1
    BY <1>1, <1>2 DEF Looking, Here, Spot, larger
  <1>4. CASE Skips
    <2>1. UNCHANGED slots
      BY <1>4 DEF Skips
    <2>2. Carrying => Here' = Here
      BY <1>1, <1>2, <1>4 DEF Skips, Looking, Here, larger
    <2> QED
      BY <1>1, <1>4, <2>1, <2>2, SlotsSame DEF Skips, Carrying, CarryInv
  <1>5. CASE Stores
    BY <1>5 DEF Stores, Carrying, CarryInv
  <1>6. CASE Passes
    <2>1. Looking /\ UNCHANGED slots
      BY <1>6 DEF Passes
    <2>2. PICK c \in Keys, j \in 0 .. Capacity - 1 :
             /\ c = args.in_record.key /\ j = args.curr_jump
             /\ SlotAt(c, j) = Spot /\ Offset(c, Spot) = j
             /\ args.curr_slot_hash = hash(c) + j
             /\ args.curr_slot_hash \in {Spot, Spot + Capacity}
      BY <2>1, LookingAt
    <2>3. Stays(slots[Spot], c, j)
      <3>1. slots[Spot].key \in Keys \ {c} /\ ~jump_smaller(args, slots[Spot])
        BY <1>6, <2>2 DEF Passes
      <3>2. raw[slots[Spot].key] \in Nat /\ raw[c] \in Nat
        BY <1>1, <2>2, <3>1, HashLocation
      <3>3. distance_to_hash(hash(slots[Spot].key), args.curr_slot_hash) \in Nat
        <4>1. args.curr_slot_hash \in Nat
          BY DEF Iteration, PutArgs
        <4> QED
          BY <1>1, <3>1, <4>1, DistanceNat
      <3> QED
        BY <2>2, <3>1, <3>2, <3>3 DEF Stays, Jump, jump_smaller
    <2>4. Passed(c, j + 1)'
      <3>1. Passed(c, j)
        BY <2>1, <2>2 DEF CarryInv, Looking
      <3>2. Passed(c, j + 1)
        BY <2>2, <2>3, <3>1 DEF Passed
      <3> QED
        BY <1>1, <2>1, <3>2, SlotsSame
    <2>5. ASSUME NEW s \in Slots, slots[s].key = c
          PROVE  ~args.inserted_new_item /\ j + 1 <= Offset(c, s)
      <3>1. ~args.inserted_new_item /\ j <= Offset(c, s)
        BY <2>1, <2>2, <2>5 DEF CarryInv, Looking
      <3>2. Offset(c, s) \in 0 .. Capacity - 1 /\ SlotAt(c, Offset(c, s)) = s
        BY <1>1, Probes
      <3>3. s # Spot
        BY <1>6, <2>2, <2>5 DEF Passes
      <3> QED
        BY <2>2, <3>1, <3>2, <3>3
    <2>6. /\ args'.in_record = args.in_record /\ args'.curr_jump = j + 1
          /\ args'.curr_slot_hash = args.curr_slot_hash + 1
          /\ (args'.inserted <=> args.inserted)
          /\ (args'.inserted_new_item <=> args.inserted_new_item)
      BY <1>6, <2>2 DEF Passes
    <2>7. hash(c)' = hash(c) /\ \A s \in Slots : Offset(c, s)' = Offset(c, s)
      BY <1>1, <2>1, SlotsSame
    <2>8. args'.curr_slot_hash \in {Here', Here' + Capacity}
      BY <1>1, <1>3, <2>1, <2>2, <2>6, CapacityPositive DEF Slots
    <2>9. args'.curr_slot_hash = hash(c) + (j + 1)
      <3>1. hash(c) \in Nat
        BY <1>1, HashLocation DEF Slots
      <3> QED
        BY <2>2, <2>6, <3>1
    <2>10. /\ args.in_record.val \in Vals /\ args.in_record.val = stored[c]
           /\ args.inserted => args.inserted_new_item
      BY <2>1, <2>2 DEF CarryInv, Looking
    <2> QED
      BY <1>1, <2>1, <2>2, <2>4, <2>5, <2>6, <2>7, <2>8, <2>9, <2>10 DEF CarryInv
  <1>7. CASE Swaps
    <2>1. Looking /\ slots' = [slots EXCEPT ![Spot] = args.in_record]
      BY <1>7 DEF Swaps
    <2>2. PICK c \in Keys, j \in 0 .. Capacity - 1, r \in Keys,
                d \in {distance_to_hash(hash(slots[Spot].key), args.curr_slot_hash)} :
             /\ c = args.in_record.key /\ j = args.curr_jump
             /\ SlotAt(c, j) = Spot /\ Offset(c, Spot) = j
             /\ args.curr_slot_hash = hash(c) + j
             /\ args.curr_slot_hash \in {Spot, Spot + Capacity}
             /\ r = slots[Spot].key /\ r # c
             /\ d = distance_to_hash(hash(r), args.curr_slot_hash)
      BY <1>7, <2>1, LookingAt DEF Swaps
    <2>3. /\ d \in 0 .. j /\ args.curr_slot_hash = hash(r) + d
          /\ Stays(args.in_record, r, d)
      <3>1. d < j \/ (d = j /\ raw[r] < raw[c])
        BY <1>7, <2>2 DEF Swaps, jump_smaller
      <3> QED
        BY <1>1, <2>2, <3>1, SwappedStays
    <2>4. d \in 0 .. Capacity - 1 /\ SlotAt(r, d) = Spot /\ Offset(r, Spot) = d
      <3>1. d \in 0 .. Capacity - 1
        BY <2>2, <2>3, CapacityPositive
      <3> QED
        BY <1>1, <2>2, <2>3, <3>1, AtHere
    <2>5. Passed(r, d + 1)'
      <3>1. Passed(r, d)
        BY <1>1, <2>2, <2>4 DEF SlotsInv
      <3>2. ASSUME NEW e \in 0 .. d - 1 PROVE SlotAt(r, e) # Spot
        <4>1. e \in 0 .. Capacity - 1
          BY <2>4, CapacityPositive
        <4> QED
          BY <1>1, <2>4, <4>1, Probes
      <3>3. d \in 0 .. Capacity
        BY <2>4, CapacityPositive
      <3>4. Passed(r, d)'
        BY <1>1, <2>1, <3>1, <3>2, <3>3, PassedFrame
      <3>5. SlotAt(r, d)' = Spot /\ slots'[Spot] = args.in_record
        BY <1>1, <2>1, <2>4 DEF SlotAt, hash
      <3>6. PICK rec : rec = args.in_record
        OBVIOUS
      <3>7. Stays(rec, r, d)'
        BY <1>1, <2>3, <3>6 DEF Stays, Jump, distance_to_hash, hash
      <3>8. Stays(slots[SlotAt(r, d)], r, d)'
        BY <3>5, <3>6, <3>7
      <3> QED
        BY <2>4, <3>4, <3>8 DEF Passed
    <2>6. /\ args'.in_record = slots[Spot] /\ args'.curr_jump = d + 1
          /\ args'.curr_slot_hash = args.curr_slot_hash + 1
          /\ args'.inserted_new_item
      <3>1. args.inserted => args.inserted_new_item
        BY <2>1 DEF CarryInv, Looking
      <3> QED
        BY <1>7, <2>2, <2>3, <3>1 DEF Swaps
    <2>7. args'.curr_slot_hash \in {Here', Here' + Capacity}
      BY <1>1, <1>3, <2>1, <2>2, <2>6, CapacityPositive DEF Slots
    <2>8. args'.curr_slot_hash = hash(r)' + (d + 1)
      <3>1. hash(r) \in Nat /\ hash(r)' = hash(r)
        BY <1>1, HashLocation DEF Slots, hash
      <3> QED
        BY <2>3, <2>6, <3>1
    <2>9. slots[Spot].val = stored[r] /\ stored[r] \in Vals
      BY <1>1, <2>2 DEF StoredInv, TypeOK
    <2>10. \A s \in Slots : slots'[s].key # r
      BY <1>1, <2>1, <2>2, OhTableAssumption DEF SlotsInv
    <2> QED
      BY <1>1, <2>2, <2>5, <2>6, <2>7, <2>8, <2>9, <2>10 DEF CarryInv
  <1> QED
    BY <1>4, <1>5, <1>6, <1>7

(* robinhood: there is still an empty slot ahead, so the search goes on for *)
(* less than one round.                                                     *)
LEMMA RobinhoodRoom ==
    ASSUME OhInv, Iteration, Skips \/ Stores \/ Swaps \/ Passes
    PROVE  RoomInv'
  <1> USE DEF OhInv, RoomInv
  <1>1. args.kind = "put" /\ args'.kind = "put" /\ Spot \in Slots /\ slots \in [Slots -> Record]
    BY DEF Iteration, PutArgs, TypeOK
  <1>2. CASE Skips
    BY <1>1, <1>2 DEF Skips, Carrying
  <1>3. CASE Stores
    BY <1>1, <1>3 DEF Stores, Carrying
  <1>4. CASE Swaps \/ Passes
    <2>1. Looking
      BY <1>4 DEF Swaps, Passes
    <2>2. PICK n \in 0 .. Capacity - 1, csh \in Nat, h \in Slots, e \in Slots :
             /\ n = args.trace /\ csh = args.curr_slot_hash /\ h = csh - n
             /\ csh \in {Spot, Spot + Capacity}
             /\ slots[e] = Empty /\ n <= distance_to_hash(h, e)
      <3>1. args.curr_slot_hash \in Nat
        BY DEF Iteration, PutArgs
      <3> QED
        BY <2>1, <3>1, LookingAt DEF Looking
    <2>3. /\ args'.trace = n + 1 /\ args'.curr_slot_hash = csh + 1
          /\ slots' \in {slots, [slots EXCEPT ![Spot] = args.in_record]}
          /\ slots[Spot].key \in Keys
      BY <1>4, <2>2 DEF Swaps, Passes
    <2>4. e # Spot /\ slots'[e] = Empty
      BY <1>1, <2>2, <2>3, OhTableAssumption DEF Empty
    <2>5. n + 1 <= distance_to_hash(h, e) /\ distance_to_hash(h, e) < Capacity
      <3>1. h + n \in {Spot, Spot + Capacity}
        BY <2>2 DEF Slots
      <3> QED
        BY <1>1, <2>2, <2>4, <3>1, OneFurther
    <2>6. args'.curr_slot_hash - args'.trace = h
      BY <2>2, <2>3 DEF Slots
    <2>7. args'.curr_jump <= args'.trace
      <3>1. args.curr_jump \in Nat /\ args.curr_jump <= n
        BY <2>1, <2>2, LookingAt DEF Looking
      <3>2. CASE Passes
        BY <2>2, <2>3, <3>1, <3>2 DEF Passes
      <3>3. CASE Swaps
        <4>1. /\ distance_to_hash(hash(slots[Spot].key), csh) \in Nat
              /\ distance_to_hash(hash(slots[Spot].key), csh) <= args.curr_jump
          BY <2>2, <2>3, <3>1, <3>3, DistanceNat DEF Swaps, jump_smaller, TypeOK
        <4> QED
          BY <2>2, <2>3, <3>1, <3>3, <4>1 DEF Swaps
      <3> QED
        BY <1>4, <3>2, <3>3
    <2>8. args'.trace < Capacity
      <3>1. distance_to_hash(h, e) \in Nat
        BY Distances
      <3> QED
        BY <2>2, <2>3, <2>5, <3>1, CapacityPositive
    <2>9. args'.trace <= distance_to_hash(args'.curr_slot_hash - args'.trace, e)
      BY <2>3, <2>5, <2>6
    <2> QED
      BY <2>4, <2>6, <2>7, <2>8, <2>9
  <1> QED
    BY <1>2, <1>3, <1>4

(* One iteration of robinhood preserves the invariant. *)
LEMMA RobinhoodInv == OhInv /\ robinhood => OhInv'
  <1> SUFFICES ASSUME OhInv, robinhood PROVE OhInv'
    OBVIOUS
  <1>1. Iteration /\ (Skips \/ Stores \/ Swaps \/ Passes)
    BY RobinhoodCases DEF OhInv
  <1>2. SlotsInv'
    <2>1. CASE Skips \/ Passes
      <3>1. UNCHANGED <<raw, slots>>
        BY <1>1, <2>1 DEF Iteration, Skips, Passes
      <3> QED
        BY <3>1, SlotsSame DEF OhInv
    <2> QED
      BY <1>1, <2>1, StoreSlots, SwapSlots
  <1> QED
    BY <1>1, <1>2, RobinhoodType, RobinhoodStored, RobinhoodCount, RobinhoodCarry, RobinhoodRoom
       DEF OhInv

-----------------------------------------------------------------------------
(* The table starts empty. *)
LEMMA InitOhInv == Init => OhInv
  <1> SUFFICES ASSUME Init PROVE OhInv
    OBVIOUS
  <1> USE DEF Init
  <1>1. \A s \in Slots : slots[s] = Empty
    OBVIOUS
  <1>2. TypeOK
    BY DEF TypeOK, Record, Empty, Idle
  <1>3. SlotsInv /\ StoredInv
    BY <1>1, OhTableAssumption DEF SlotsInv, StoredInv, Empty
  <1>4. CountInv
    <2>1. Occupied = {}
      BY <1>1 DEF Occupied
    <2> QED
      BY <2>1, FS_EmptySet DEF CountInv, Idle
  <1>5. CarryInv /\ RoomInv /\ GetInv /\ RetInv /\ LookupSound
    BY DEF CarryInv, RoomInv, GetInv, RetInv, LookupSound, Carrying, Idle, Nothing
  <1> QED
    BY <1>2, <1>3, <1>4, <1>5 DEF OhInv

(* is_full: a put that starts has an empty slot. *)
LEMMA RoomLeft ==
    ASSUME OhInv, args.kind # "put", ~is_full
    PROVE  \E e \in Slots : slots[e] = Empty
  <1> SUFFICES ASSUME \A e \in Slots : slots[e] # Empty PROVE FALSE
    OBVIOUS
  <1>1. Occupied = 0 .. Capacity - 1
    BY DEF Occupied, Slots
  <1>2. Cardinality(Occupied) = Capacity
    BY <1>1, CapacityPositive, FS_Interval
  <1>3. num_items = Capacity
    BY <1>2, CapacityPositive DEF OhInv, TypeOK, CountInv
  <1> QED
    BY <1>3, CapacityPositive DEF is_full

(* ohtable_put starts its search at the hash of the key. *)
LEMMA PutInv ==
    ASSUME OhInv, NEW k \in Keys, NEW v \in Vals, ohtable_put(k, v)
    PROVE  OhInv'
  <1>1. /\ args = Idle /\ raw \in RawHashes /\ slots \in [Slots -> Record]
        /\ stored \in [Keys -> Vals \cup {Absent}]
        /\ UNCHANGED <<raw, slots, num_items, max_offset>>
    BY DEF ohtable_put, OhInv, TypeOK
  <1>2. args.kind = "idle"
    BY <1>1 DEF Idle
  <1>3. CASE is_full
    <2>1. ret' = [op |-> "put", err |-> "TABLE_FULL"] /\ UNCHANGED <<args, stored>>
      BY <1>3 DEF ohtable_put
    <2>2. SlotsInv' /\ Occupied' = Occupied
      BY <1>1, SlotsSame DEF OhInv
    <2>3. ~Carrying /\ ~Carrying'
      BY <1>2, <2>1 DEF Carrying
    <2>4. TypeOK' /\ StoredInv' /\ CountInv' /\ CarryInv' /\ RoomInv' /\ GetInv'
      BY <1>1, <1>2, <2>1, <2>2, <2>3
         DEF OhInv, TypeOK, StoredInv, CountInv, CarryInv, RoomInv, GetInv
    <2>5. RetInv' /\ LookupSound'
      BY <1>1, <2>1 DEF RetInv, LookupSound
    <2> QED
      BY <2>2, <2>4, <2>5 DEF OhInv
  <1>4. CASE ~is_full
    <2>1. /\ args' = [kind |-> "put",
                      in_record |-> [key |-> k, val |-> v],
                      block |-> hash(k) \div ITEMS_PER_BLOCK,
                      i |-> 0,
                      start_index |-> hash(k) % ITEMS_PER_BLOCK,
                      insert_complete |-> FALSE, inserted |-> FALSE,
                      inserted_new_item |-> FALSE,
                      curr_jump |-> 0, curr_slot_hash |-> hash(k),
                      trace |-> 0, max_offset |-> 0]
          /\ stored' = [stored EXCEPT ![k] = v]
          /\ ret' = Nothing
      BY <1>4 DEF ohtable_put
    <2>2. /\ hash(k) \div ITEMS_PER_BLOCK \in 0 .. NUM_BLOCKS - 1
          /\ hash(k) % ITEMS_PER_BLOCK \in 0 .. ITEMS_PER_BLOCK - 1
          /\ hash(k) \in Slots
      BY <1>1, HashLocation
    <2>3. args' \in PutArgs
      <3>1. 0 \in 0 .. ITEMS_PER_BLOCK /\ hash(k) \in Nat
        BY <2>2, OhTableAssumption DEF Slots
      <3>2. [key |-> k, val |-> v] \in Record
        BY DEF Record
      <3> QED
        BY <2>1, <2>2, <3>1, <3>2 DEF PutArgs
    <2>4. TypeOK'
      BY <1>1, <2>1, <2>3 DEF OhInv, TypeOK
    <2>5. /\ SlotsInv' /\ Occupied' = Occupied
          /\ hash(k)' = hash(k) /\ \A s : Offset(k, s)' = Offset(k, s)
      BY <1>1, SlotsSame DEF OhInv
    <2>6. /\ Carrying' /\ args'.kind = "put" /\ args'.in_record.key = k /\ args'.in_record.val = v
          /\ args'.curr_jump = 0 /\ args'.trace = 0 /\ args'.curr_slot_hash = hash(k)
          /\ ~args'.inserted /\ ~args'.inserted_new_item /\ ~args'.insert_complete
          /\ args'.i = 0 /\ args'.start_index = hash(k) % ITEMS_PER_BLOCK
          /\ args'.block = hash(k) \div ITEMS_PER_BLOCK
      BY <2>1 DEF Carrying
    <2>7. StoredInv'
      BY <1>1, <1>2, <2>1, <2>6, OhTableAssumption DEF OhInv, StoredInv, Carrying
    <2>8. CountInv'
      BY <1>1, <1>2, <2>5, <2>6 DEF OhInv, CountInv
    <2>9. Here' = hash(k)
      <3>1. larger(args'.i, args'.start_index) = hash(k) % ITEMS_PER_BLOCK
        BY <2>2, <2>6 DEF larger
      <3>2. hash(k) = (hash(k) \div ITEMS_PER_BLOCK) * ITEMS_PER_BLOCK + (hash(k) % ITEMS_PER_BLOCK)
        BY <1>1, HashLocation
      <3> QED
        BY <2>6, <3>1, <3>2 DEF Here
    <2>10. CarryInv'
      <3>1. Passed(k, 0)'
        BY DEF Passed
      <3>2. hash(k) = hash(k) + 0
        BY <2>2 DEF Slots
      <3>3. \A s \in Slots : 0 <= Offset(k, s)
        BY <1>1, Probes
      <3>4. stored'[k] = v
        BY <1>1, <2>1
      <3> QED
        BY <2>5, <2>6, <2>9, <3>1, <3>2, <3>3, <3>4 DEF CarryInv
    <2>11. RoomInv'
      <3>1. PICK e \in Slots : slots[e] = Empty
        BY <1>2, <1>4, RoomLeft
      <3>2. args'.curr_slot_hash - args'.trace = hash(k)
        BY <2>2, <2>6 DEF Slots
      <3>3. 0 <= distance_to_hash(hash(k), e)
        BY <2>2, Distances
      <3> QED
        BY <1>1, <2>2, <2>6, <3>1, <3>2, <3>3, CapacityPositive DEF RoomInv
    <2>12. GetInv' /\ RetInv' /\ LookupSound'
      BY <2>1, <2>6 DEF GetInv, RetInv, LookupSound, Nothing
    <2> QED
      BY <2>4, <2>5, <2>7, <2>8, <2>10, <2>11, <2>12 DEF OhInv
  <1> QED
    BY <1>3, <1>4

(* ohtable_put goes on with the next block, and from the last one with the  *)
(* first: curr_slot_hash, which only grows, then is a capacity ahead.       *)
LEMMA PutNextBlockInv == OhInv /\ put_next_block => OhInv'
  <1> SUFFICES ASSUME OhInv, put_next_block PROVE OhInv'
    OBVIOUS
  <1>1. /\ args.kind = "put" /\ args.i = ITEMS_PER_BLOCK /\ Carrying
        /\ args' = [args EXCEPT !.block = next_block(args.block), !.i = 0,
                                !.start_index = 0, !.inserted = FALSE]
        /\ UNCHANGED <<raw, slots, num_items, max_offset, ret, stored>>
    BY DEF put_next_block, Carrying
  <1>2. args \in PutArgs
    BY <1>1 DEF OhInv, TypeOK, GetArgs, Idle
  <1>3. next_block(args.block) \in 0 .. NUM_BLOCKS - 1
    BY <1>2, OhTableAssumption DEF next_block, PutArgs
  <1>4. args' \in PutArgs
    <2>1. 0 \in 0 .. ITEMS_PER_BLOCK /\ 0 \in 0 .. ITEMS_PER_BLOCK - 1
      BY OhTableAssumption
    <2> QED
      BY <1>1, <1>2, <1>3, <2>1 DEF PutArgs
  <1>5. /\ args'.kind = "put" /\ args'.block = next_block(args.block) /\ args'.i = 0
        /\ args'.start_index = 0 /\ ~args'.inserted
        /\ args'.in_record = args.in_record /\ args'.insert_complete = args.insert_complete
        /\ args'.inserted_new_item = args.inserted_new_item
        /\ args'.curr_jump = args.curr_jump /\ args'.curr_slot_hash = args.curr_slot_hash
        /\ args'.trace = args.trace
    BY <1>1, <1>2 DEF PutArgs
  <1>6. Carrying'
    BY <1>1, <1>5 DEF Carrying
  <1>7. TypeOK'
    BY <1>1, <1>4 DEF OhInv, TypeOK
  <1>8. /\ SlotsInv' /\ Occupied' = Occupied
        /\ \A k : hash(k)' = hash(k)
        /\ \A k, s : Offset(k, s)' = Offset(k, s)
    BY <1>1, SlotsSame DEF OhInv
  <1>9. StoredInv' /\ CountInv' /\ RetInv' /\ GetInv' /\ LookupSound'
    BY <1>1, <1>5, <1>6, <1>8
       DEF OhInv, StoredInv, CountInv, RetInv, GetInv, LookupSound, Nothing, Idle, Carrying
  <1>10. RoomInv'
    BY <1>1, <1>5, <1>6 DEF OhInv, RoomInv
  <1>11. args.curr_slot_hash \in {Here', Here' + Capacity}
    <2>1. PICK b \in 0 .. NUM_BLOCKS - 1 : b = args.block
      BY <1>2 DEF PutArgs
    <2>2. PICK p \in Nat : p = b * ITEMS_PER_BLOCK
      BY BlockLayout
    <2>3. Here = p + ITEMS_PER_BLOCK
      BY <1>1, <1>2, <2>1, <2>2, OhTableAssumption DEF Here, larger, PutArgs
    <2>4. args.curr_slot_hash \in {p + ITEMS_PER_BLOCK, p + ITEMS_PER_BLOCK + Capacity}
      BY <1>1, <2>3 DEF OhInv, CarryInv
    <2>5. args.curr_slot_hash \in Nat /\ args.curr_slot_hash < 2 * Capacity
      BY <1>1, <1>2, CapacityPositive DEF OhInv, RoomInv, Slots, PutArgs
    <2>6. CASE b + 1 = NUM_BLOCKS
      <3>1. Here' = 0
        BY <1>5, <2>1, <2>6, OhTableAssumption DEF Here, larger, next_block
      <3>2. p + ITEMS_PER_BLOCK = Capacity
        BY <2>2, <2>6, BlockLayout
      <3> QED
        BY <2>4, <2>5, <3>1, <3>2, CapacityPositive
    <2>7. CASE b + 1 # NUM_BLOCKS
      <3>1. Here' = (b + 1) * ITEMS_PER_BLOCK + 0
        BY <1>5, <2>1, <2>7 DEF Here, larger, next_block
      <3>2. (b + 1) * ITEMS_PER_BLOCK = p + ITEMS_PER_BLOCK
        BY <2>2, BlockLayout
      <3>3. Here' = p + ITEMS_PER_BLOCK
        BY <2>2, <3>1, <3>2, OhTableAssumption
      <3> QED
        BY <2>4, <3>3
    <2> QED
      BY <2>6, <2>7
  <1>12. CarryInv'
    <2>1. PICK c, j : c = args.in_record.key /\ j = args.curr_jump
      OBVIOUS
    <2>2. Passed(c, j)'
      BY <1>1, <2>1, SlotsSame DEF OhInv, CarryInv
    <2> QED
      BY <1>1, <1>5, <1>8, <1>11, <2>1, <2>2 DEF OhInv, CarryInv
  <1> QED
    BY <1>7, <1>8, <1>9, <1>10, <1>12 DEF OhInv

(* ohtable_put returns: the count is brought up to date. *)
LEMMA PutReturnInv == OhInv /\ put_return => OhInv'
  <1> SUFFICES ASSUME OhInv, put_return PROVE OhInv'
    OBVIOUS
  <1>1. /\ args.kind = "put" /\ args.insert_complete /\ args' = Idle
        /\ num_items' = num_items + IF args.inserted_new_item THEN 1 ELSE 0
        /\ max_offset' = larger(args.max_offset, max_offset)
        /\ ret' = [op |-> "put", err |-> "SUCCESS"]
        /\ UNCHANGED <<raw, slots, stored>>
    BY DEF put_return
  <1>2. args \in PutArgs
    BY <1>1 DEF OhInv, TypeOK, GetArgs, Idle
  <1>3. ~Carrying /\ ~Carrying' /\ args'.kind = "idle"
    BY <1>1 DEF Carrying, Idle
  <1>4. TypeOK'
    BY <1>1, <1>2 DEF OhInv, TypeOK, PutArgs, larger
  <1>5. SlotsInv' /\ Occupied' = Occupied
    BY <1>1, SlotsSame DEF OhInv
  <1>6. StoredInv' /\ CountInv' /\ CarryInv' /\ RoomInv' /\ GetInv'
    BY <1>1, <1>3, <1>5 DEF OhInv, TypeOK, StoredInv, CountInv, CarryInv, RoomInv, GetInv
  <1>7. RetInv' /\ LookupSound'
    BY <1>1 DEF RetInv, LookupSound
  <1> QED
    BY <1>4, <1>5, <1>6, <1>7 DEF OhInv

(* ohtable_clear: an empty table. *)
LEMMA ClearInv == OhInv /\ ohtable_clear => OhInv'
  <1> SUFFICES ASSUME OhInv, ohtable_clear PROVE OhInv'
    OBVIOUS
  <1> USE DEF ohtable_clear
  <1>1. args' = Idle /\ args'.kind = "idle" /\ ~Carrying'
    BY DEF Carrying, Idle
  <1>2. \A s \in Slots : slots'[s] = Empty
    OBVIOUS
  <1>3. TypeOK'
    BY DEF OhInv, TypeOK, Record, Empty
  <1>4. SlotsInv' /\ StoredInv'
    BY <1>1, <1>2, OhTableAssumption DEF SlotsInv, StoredInv, Empty
  <1>5. CountInv'
    <2>1. Occupied' = {}
      BY <1>2 DEF Occupied
    <2> QED
      BY <1>1, <2>1, FS_EmptySet DEF CountInv
  <1>6. CarryInv' /\ RoomInv' /\ GetInv' /\ RetInv' /\ LookupSound'
    BY <1>1 DEF CarryInv, RoomInv, GetInv, RetInv, LookupSound, Nothing
  <1> QED
    BY <1>3, <1>4, <1>5, <1>6 DEF OhInv

-----------------------------------------------------------------------------
(* Steps that only look: the lookup's arguments and result change.          *)
LEMMA LookOnly ==
    ASSUME OhInv, UNCHANGED <<raw, slots, num_items, max_offset, stored>>,
           args.kind # "put", args'.kind # "put",
           args' \in {Idle} \cup GetArgs
    PROVE  TypeOK' /\ SlotsInv' /\ StoredInv' /\ CountInv' /\ CarryInv' /\ RoomInv'
  <1>1. ~Carrying /\ ~Carrying'
    BY DEF Carrying
  <1>2. SlotsInv' /\ Occupied' = Occupied
    BY SlotsSame DEF OhInv
  <1>3. TypeOK'
    BY DEF OhInv, TypeOK
  <1>4. StoredInv'
    BY <1>1 DEF OhInv, StoredInv
  <1>5. CountInv'
    BY <1>2 DEF OhInv, CountInv
  <1>6. CarryInv' /\ RoomInv'
    BY <1>1 DEF CarryInv, RoomInv
  <1> QED
    BY <1>2, <1>3, <1>4, <1>5, <1>6

(* ohtable_get always reads a block or more. *)
LEMMA ScanPositive ==
    ASSUME max_offset \in Nat
    PROVE  blocks_to_scan \in Nat /\ blocks_to_scan > 0
  <1>1. max_offset + ITEMS_PER_BLOCK - 1 \in Nat
    BY OhTableAssumption
  <1>2. (max_offset + ITEMS_PER_BLOCK - 1) \div ITEMS_PER_BLOCK \in Nat
    BY <1>1, OhTableAssumption, DivMod
  <1> QED
    BY <1>2 DEF blocks_to_scan

(* A stored key is somewhere, and its slot holds what was stored. *)
LEMMA FoundIsStored ==
    ASSUME OhInv, ~Carrying, NEW k \in Keys
    PROVE  /\ \A s \in Slots : slots[s].key = k => slots[s].val = stored[k]
           /\ (\A s \in Slots : slots[s].key # k) => stored[k] = Absent
  BY DEF OhInv, StoredInv

(* ohtable_get starts at the hash of the key. *)
LEMMA GetStartInv ==
    ASSUME OhInv, NEW k \in Keys, ohtable_get(k)
    PROVE  OhInv'
  <1>1. /\ args = Idle /\ raw \in RawHashes /\ max_offset \in Nat
        /\ args' = [kind |-> "get", key |-> k,
                    block |-> hash(k) \div ITEMS_PER_BLOCK,
                    i |-> 0,
                    start_index |-> hash(k) % ITEMS_PER_BLOCK,
                    search_complete |-> FALSE,
                    out_record |-> [key |-> k, val |-> Absent],
                    blocks_to_scan |-> blocks_to_scan]
        /\ ret' = Nothing
        /\ UNCHANGED <<raw, slots, num_items, max_offset, stored>>
    BY DEF ohtable_get, OhInv, TypeOK
  <1>2. /\ hash(k) \div ITEMS_PER_BLOCK \in 0 .. NUM_BLOCKS - 1
        /\ hash(k) % ITEMS_PER_BLOCK \in 0 .. ITEMS_PER_BLOCK - 1
        /\ hash(k) \in Slots
        /\ hash(k) = (hash(k) \div ITEMS_PER_BLOCK) * ITEMS_PER_BLOCK + (hash(k) % ITEMS_PER_BLOCK)
    BY <1>1, HashLocation
  <1>3. blocks_to_scan \in Nat /\ blocks_to_scan > 0 /\ blocks_to_scan' = blocks_to_scan
    BY <1>1, ScanPositive DEF blocks_to_scan
  <1>4. args' \in GetArgs
    <2>1. 0 \in 0 .. ITEMS_PER_BLOCK
      BY OhTableAssumption
    <2>2. [key |-> k, val |-> Absent] \in Record
      BY DEF Record
    <2> QED
      BY <1>1, <1>2, <1>3, <2>1, <2>2 DEF GetArgs
  <1>5. /\ args.kind = "idle" /\ args'.kind = "get" /\ args'.key = k /\ ~args'.search_complete
        /\ args'.out_record.val = Absent /\ args'.blocks_to_scan = blocks_to_scan
        /\ args'.i = 0 /\ args'.start_index = hash(k) % ITEMS_PER_BLOCK
        /\ args'.block = hash(k) \div ITEMS_PER_BLOCK
    BY <1>1 DEF Idle
  <1>6. TypeOK' /\ SlotsInv' /\ StoredInv' /\ CountInv' /\ CarryInv' /\ RoomInv'
    BY <1>1, <1>4, <1>5, LookOnly
  <1>7. hash(k)' = hash(k) /\ \A s : Offset(k, s)' = Offset(k, s)
    BY <1>1, SlotsSame
  <1>8. larger(args'.i, args'.start_index) = hash(k) % ITEMS_PER_BLOCK
    BY <1>2, <1>5 DEF larger
  <1>9. Here' = hash(k)
    BY <1>2, <1>5, <1>8 DEF Here
  <1>10. Scanned' = hash(k)
    <2>1. hash(k) \div ITEMS_PER_BLOCK + (blocks_to_scan - blocks_to_scan)
             = hash(k) \div ITEMS_PER_BLOCK
      BY <1>2, <1>3
    <2>2. Scanned' = (hash(k) \div ITEMS_PER_BLOCK + (blocks_to_scan - blocks_to_scan))
                         * ITEMS_PER_BLOCK + (hash(k) % ITEMS_PER_BLOCK)
      BY <1>3, <1>5, <1>7, <1>8 DEF Scanned
    <2> QED
      BY <1>2, <2>1, <2>2
  <1>11. GetInv'
    <2>1. \A s \in Slots : hash(k) <= hash(k) + Offset(k, s)
      BY <1>1, <1>2, Probes DEF Slots
    <2>2. hash(k) <= hash(k)
      BY <1>2 DEF Slots
    <2> QED
      BY <1>3, <1>5, <1>7, <1>9, <1>10, <2>1, <2>2 DEF GetInv
  <1>12. RetInv' /\ LookupSound'
    BY <1>1 DEF RetInv, LookupSound, Nothing
  <1> QED
    BY <1>6, <1>11, <1>12 DEF OhInv

(* get_record: the record of k, if it is not before the slot considered nor *)
(* in it, is behind it.                                                     *)
LEMMA StillAhead ==
    ASSUME raw \in RawHashes, NEW k \in Keys, NEW s \in Slots, NEW t \in Slots, s # t,
           NEW p \in {t, t + Capacity}, hash(k) <= p, p <= hash(k) + Offset(k, s)
    PROVE  Offset(k, t) < Offset(k, s) /\ p + 1 <= hash(k) + Offset(k, s)
  <1>1. hash(k) \in 0 .. Capacity - 1
    BY HashLocation DEF Slots
  <1> QED
    BY <1>1, CapacityPositive DEF Offset, distance_to_hash, Slots

(* The blocks that a lookup has read. *)
BlocksRead ==
    (hash(args.key) \div ITEMS_PER_BLOCK + (blocks_to_scan - args.blocks_to_scan)) * ITEMS_PER_BLOCK

(* Where a lookup is: in the block, and counted from the first block.       *)
LEMMA GetPosition ==
    ASSUME OhInv, args \in GetArgs
    PROVE  /\ BlocksRead \in Nat
           /\ Scanned = BlocksRead + larger(args.i, args.start_index)
           /\ Here = args.block * ITEMS_PER_BLOCK + larger(args.i, args.start_index)
           /\ args.block * ITEMS_PER_BLOCK \in Nat
           /\ args.block * ITEMS_PER_BLOCK + ITEMS_PER_BLOCK <= Capacity
  <1>1. /\ args.key \in Keys /\ args.block \in 0 .. NUM_BLOCKS - 1
        /\ args.blocks_to_scan \in Nat /\ args.kind = "get"
    BY DEF GetArgs
  <1>2. raw \in RawHashes /\ max_offset \in Nat
    BY DEF OhInv, TypeOK
  <1>3. hash(args.key) \div ITEMS_PER_BLOCK \in Nat
    BY <1>1, <1>2, HashLocation
  <1>4. blocks_to_scan - args.blocks_to_scan \in Nat
    <2>1. args.blocks_to_scan <= blocks_to_scan
      BY <1>1 DEF OhInv, GetInv
    <2> QED
      BY <1>1, <1>2, <2>1, ScanPositive
  <1>5. BlocksRead \in Nat
    BY <1>3, <1>4, OhTableAssumption DEF BlocksRead
  <1> QED
    BY <1>1, <1>5, BlockLayout DEF Scanned, BlocksRead, Here

(* get_record: it stops at the record or at an empty slot, before which it  *)
(* would have been.                                                         *)
LEMMA GetRecordInv == OhInv /\ get_record => OhInv'
  <1> SUFFICES ASSUME OhInv, get_record PROVE OhInv'
    OBVIOUS
  <1> DEFINE t == args.block * ITEMS_PER_BLOCK + args.i
             should_copy == /\ args.start_index <= args.i /\ ~args.search_complete
                            /\ slots[t].key \in {NoKey, args.key}
  <1>1. /\ args.kind = "get" /\ args.blocks_to_scan > 0 /\ args.i < ITEMS_PER_BLOCK
        /\ args' = [args EXCEPT !.i = args.i + 1,
                                !.search_complete = args.search_complete \/ should_copy,
                                !.out_record = IF should_copy THEN slots[t] ELSE args.out_record]
        /\ UNCHANGED <<raw, slots, num_items, max_offset, ret, stored>>
    BY DEF get_record
  <1>2. args \in GetArgs
    BY <1>1 DEF OhInv, TypeOK, PutArgs, Idle
  <1>3. /\ BlocksRead \in Nat
        /\ Scanned = BlocksRead + larger(args.i, args.start_index)
        /\ Here = args.block * ITEMS_PER_BLOCK + larger(args.i, args.start_index)
        /\ args.block * ITEMS_PER_BLOCK \in Nat
        /\ args.block * ITEMS_PER_BLOCK + ITEMS_PER_BLOCK <= Capacity
    BY <1>2, GetPosition
  <1>4. /\ args.i \in Nat /\ args.start_index \in Nat /\ args.key \in Keys
        /\ args.out_record \in Record /\ args.search_complete \in BOOLEAN
    BY <1>2 DEF GetArgs
  <1>5. t \in Slots
    BY <1>1, <1>3, <1>4, CapacityPositive, OhTableAssumption DEF Slots
  <1>6. /\ raw \in RawHashes /\ slots \in [Slots -> Record] /\ slots[t] \in Record
    BY <1>5 DEF OhInv, TypeOK
  <1> DEFINE done == args.search_complete \/ should_copy
             out  == IF should_copy THEN slots[t] ELSE args.out_record
  <1>7. args' = [args EXCEPT !.i = args.i + 1, !.search_complete = done, !.out_record = out]
    BY <1>1
  <1>8. done \in BOOLEAN /\ out \in Record /\ args.i + 1 \in 0 .. ITEMS_PER_BLOCK
    BY <1>1, <1>4, <1>6, OhTableAssumption
  <1> HIDE DEF done, out, t
  <1>9. args' \in GetArgs
    BY <1>2, <1>7, <1>8 DEF GetArgs
  <1>10. /\ args'.kind = "get" /\ args'.key = args.key /\ args'.block = args.block
         /\ args'.start_index = args.start_index /\ args'.blocks_to_scan = args.blocks_to_scan
         /\ args'.i = args.i + 1 /\ args'.out_record = out /\ (args'.search_complete <=> done)
    BY <1>2, <1>7, <1>8 DEF GetArgs
  <1>11. TypeOK' /\ SlotsInv' /\ StoredInv' /\ CountInv' /\ CarryInv' /\ RoomInv'
    BY <1>1, <1>9, <1>10, LookOnly
  <1>12. PICK k \in Keys : k = args.key
    BY <1>4
  <1>13. /\ \A s \in Slots : slots[s].key = k => slots[s].val = stored[k]
         /\ (\A s \in Slots : slots[s].key # k) => stored[k] = Absent
    BY <1>1, FoundIsStored DEF Carrying
  <1>14. /\ hash(k)' = hash(k) /\ \A s : Offset(k, s)' = Offset(k, s)
         /\ blocks_to_scan' = blocks_to_scan
    BY <1>1, SlotsSame DEF blocks_to_scan
  <1>15. /\ Scanned' = BlocksRead + larger(args.i + 1, args.start_index)
         /\ Here' = args.block * ITEMS_PER_BLOCK + larger(args.i + 1, args.start_index)
    BY <1>10, <1>12, <1>14 DEF Scanned, BlocksRead, Here
  <1>16. /\ args'.blocks_to_scan <= blocks_to_scan'
         /\ args'.blocks_to_scan = 0 => args'.i = 0 /\ args'.start_index = 0
    <2>1. args.blocks_to_scan \in Nat
      BY <1>2 DEF GetArgs
    <2> QED
      BY <1>1, <1>10, <1>14, <2>1 DEF OhInv, GetInv
  <1>17. CASE args.search_complete
    <2>1. done /\ out = args.out_record
      BY <1>17 DEF done, out
    <2> QED
      BY <1>1, <1>10, <1>11, <1>16, <1>17, <2>1
         DEF OhInv, GetInv, RetInv, LookupSound, Nothing, Idle
  <1>18. CASE ~args.search_complete /\ ~(args.start_index <= args.i)
    <2>1. ~done /\ out = args.out_record
      BY <1>4, <1>18 DEF done, out
    <2>2. larger(args.i + 1, args.start_index) = larger(args.i, args.start_index)
      BY <1>4, <1>18 DEF larger
    <2>3. Scanned' = Scanned /\ Here' = Here
      BY <1>3, <1>15, <2>2
    <2>4. GetInv'
      BY <1>1, <1>10, <1>12, <1>14, <1>16, <1>18, <2>1, <2>3 DEF OhInv, GetInv
    <2> QED
      BY <1>1, <1>10, <1>11, <2>4 DEF OhInv, RetInv, LookupSound, Nothing, Idle
  <1>19. CASE ~args.search_complete /\ args.start_index <= args.i
    <2>1. Here = t /\ Scanned = BlocksRead + args.i
      BY <1>3, <1>4, <1>19 DEF larger, t
    <2>2. Scanned' = Scanned + 1 /\ Here' = t + 1 /\ Scanned \in Nat
      BY <1>3, <1>4, <1>15, <1>19, <2>1 DEF larger, t
    <2>3. /\ args.out_record.val = Absent /\ hash(k) <= Scanned
          /\ \A s \in Slots : slots[s].key = k =>
                Scanned <= hash(k) + Offset(k, s) /\ Scanned \in {t, t + Capacity}
      BY <1>1, <1>12, <1>19, <2>1 DEF OhInv, GetInv
    <2>4. ASSUME NEW s \in Slots, slots[s].key = k, s # t
          PROVE  /\ slots[t].key # NoKey
                 /\ Scanned + 1 <= hash(k) + Offset(k, s)
      <3>1. Offset(k, t) < Offset(k, s) /\ Scanned + 1 <= hash(k) + Offset(k, s)
        BY <1>5, <1>6, <2>3, <2>4, StillAhead
      <3>2. Offset(k, t) \in 0 .. Capacity - 1 /\ SlotAt(k, Offset(k, t)) = t
            /\ Offset(k, s) \in 0 .. Capacity - 1
        BY <1>5, <1>6, Probes
      <3>3. Offset(k, t) \in 0 .. Offset(k, s) - 1
        BY <3>1, <3>2
      <3>4. Passed(k, Offset(k, s))
        BY <2>4 DEF OhInv, SlotsInv
      <3>5. Stays(slots[t], k, Offset(k, t))
        BY <3>2, <3>3, <3>4 DEF Passed
      <3> QED
        BY <3>1, <3>5, OhTableAssumption DEF Stays
    <2>5. CASE slots[t].key \in {NoKey, k}
      <3>1. done /\ out = slots[t]
        BY <1>12, <1>19, <2>5 DEF done, out
      <3>2. slots[t].val = stored[k]
        <4>1. CASE slots[t].key = k
          BY <1>5, <1>13, <4>1
        <4>2. CASE slots[t].key = NoKey
          <5>1. \A s \in Slots : slots[s].key # k
            BY <1>12, <2>4, <4>2, OhTableAssumption
          <5>2. slots[t].val = Absent
            BY <1>5, <4>2 DEF OhInv, SlotsInv, Empty
          <5> QED
            BY <1>13, <5>1, <5>2
        <4> QED
          BY <2>5, <4>1, <4>2
      <3>3. GetInv'
        BY <1>1, <1>10, <1>12, <1>16, <3>1, <3>2 DEF GetInv
      <3> QED
        BY <1>1, <1>10, <1>11, <3>3 DEF OhInv, RetInv, LookupSound, Nothing, Idle
    <2>6. CASE slots[t].key \notin {NoKey, k}
      <3>1. ~done /\ out = args.out_record
        BY <1>12, <1>19, <2>6 DEF done, out
      <3>2. ASSUME NEW s \in Slots, slots[s].key = k
            PROVE  Scanned' <= hash(k) + Offset(k, s) /\ Scanned' \in {t + 1, t + 1 + Capacity}
        <4>1. s # t
          BY <2>6, <3>2
        <4>2. Scanned \in {t, t + Capacity} /\ t \in Nat
          BY <1>5, <2>3, <3>2 DEF Slots
        <4> QED
          BY <2>2, <2>4, <3>2, <4>1, <4>2, CapacityPositive
      <3>3. hash(k) <= Scanned'
        <4>1. hash(k) \in Nat
          BY <1>6, HashLocation DEF Slots
        <4> QED
          BY <2>2, <2>3, <4>1
      <3>4. GetInv'
        BY <1>1, <1>10, <1>12, <1>14, <1>16, <2>2, <2>3, <3>1, <3>2, <3>3 DEF GetInv
      <3> QED
        BY <1>1, <1>10, <1>11, <3>4 DEF OhInv, RetInv, LookupSound, Nothing, Idle
    <2> QED
      BY <2>5, <2>6
  <1> QED
    BY <1>17, <1>18, <1>19

(* ohtable_get goes on with the next block. *)
LEMMA GetNextBlockInv == OhInv /\ get_next_block => OhInv'
  <1> SUFFICES ASSUME OhInv, get_next_block PROVE OhInv'
    OBVIOUS
  <1>1. /\ args.kind = "get" /\ args.blocks_to_scan > 0 /\ args.i = ITEMS_PER_BLOCK
        /\ args' = [args EXCEPT !.block = next_block(args.block), !.i = 0,
                                !.start_index = 0, !.blocks_to_scan = args.blocks_to_scan - 1]
        /\ UNCHANGED <<raw, slots, num_items, max_offset, ret, stored>>
    BY DEF get_next_block
  <1>2. args \in GetArgs
    BY <1>1 DEF OhInv, TypeOK, PutArgs, Idle
  <1>3. /\ args.blocks_to_scan \in Nat /\ args.block \in 0 .. NUM_BLOCKS - 1
        /\ args.start_index \in 0 .. ITEMS_PER_BLOCK - 1 /\ args.key \in Keys
    BY <1>2 DEF GetArgs
  <1>4. /\ next_block(args.block) \in 0 .. NUM_BLOCKS - 1
        /\ args.blocks_to_scan - 1 \in Nat
        /\ 0 \in 0 .. ITEMS_PER_BLOCK /\ 0 \in 0 .. ITEMS_PER_BLOCK - 1
    BY <1>1, <1>3, OhTableAssumption DEF next_block
  <1>5. args' \in GetArgs
    BY <1>1, <1>2, <1>4 DEF GetArgs
  <1>6. /\ args'.kind = "get" /\ args'.key = args.key /\ args'.block = next_block(args.block)
        /\ args'.i = 0 /\ args'.start_index = 0
        /\ args'.blocks_to_scan = args.blocks_to_scan - 1
        /\ args'.out_record = args.out_record /\ args'.search_complete = args.search_complete
    BY <1>1, <1>2 DEF GetArgs
  <1>7. TypeOK' /\ SlotsInv' /\ StoredInv' /\ CountInv' /\ CarryInv' /\ RoomInv'
    BY <1>1, <1>5, <1>6, LookOnly
  <1>8. PICK k \in Keys : k = args.key
    BY <1>3
  <1>9. /\ hash(k)' = hash(k) /\ \A s : Offset(k, s)' = Offset(k, s)
        /\ blocks_to_scan' = blocks_to_scan /\ raw \in RawHashes /\ max_offset \in Nat
    BY <1>1, SlotsSame DEF blocks_to_scan, OhInv, TypeOK
  <1>10. args.blocks_to_scan <= blocks_to_scan /\ blocks_to_scan \in Nat
    BY <1>1, <1>9, ScanPositive DEF OhInv, GetInv
  <1>11. /\ BlocksRead \in Nat
         /\ Scanned = BlocksRead + ITEMS_PER_BLOCK
         /\ Here = args.block * ITEMS_PER_BLOCK + ITEMS_PER_BLOCK
    <2>1. larger(args.i, args.start_index) = ITEMS_PER_BLOCK
      BY <1>1, <1>3, OhTableAssumption DEF larger
    <2> QED
      BY <1>2, <2>1, GetPosition
  <1>12. Scanned' = Scanned
    <2>1. PICK x \in Nat : x = hash(k) \div ITEMS_PER_BLOCK + (blocks_to_scan - args.blocks_to_scan)
      <3>1. hash(k) \div ITEMS_PER_BLOCK \in Nat
        BY <1>9, HashLocation
      <3>2. blocks_to_scan - args.blocks_to_scan \in Nat
        BY <1>3, <1>10
      <3> QED
        BY <3>1, <3>2
    <2>2. hash(k) \div ITEMS_PER_BLOCK + (blocks_to_scan - (args.blocks_to_scan - 1)) = x + 1
      <3>1. hash(k) \div ITEMS_PER_BLOCK \in Nat
        BY <1>9, HashLocation
      <3> QED
        BY <1>3, <1>10, <2>1, <3>1
    <2>3. Scanned' = (x + 1) * ITEMS_PER_BLOCK + 0
      BY <1>6, <1>8, <1>9, <2>2 DEF Scanned, larger
    <2>4. BlocksRead = x * ITEMS_PER_BLOCK
      BY <1>8, <2>1 DEF BlocksRead
    <2> QED
      BY <1>11, <2>3, <2>4, OhTableAssumption
  <1>13. ASSUME NEW s \in Slots, slots[s].key = k, ~args.search_complete
         PROVE  Scanned <= hash(k) + Offset(k, s) /\ Scanned \in {Here', Here' + Capacity}
    <2>1. Scanned <= hash(k) + Offset(k, s) /\ Scanned \in {Here, Here + Capacity}
      BY <1>1, <1>8, <1>13 DEF OhInv, GetInv
    <2>2. PICK b \in 0 .. NUM_BLOCKS - 1 : b = args.block
      BY <1>3
    <2>3. PICK p \in Nat : p = b * ITEMS_PER_BLOCK
      BY BlockLayout
    <2>4. Here = p + ITEMS_PER_BLOCK
      BY <1>11, <2>2, <2>3
    <2>5. Scanned < 2 * Capacity
      <3>1. hash(k) \in 0 .. Capacity - 1 /\ Offset(k, s) \in 0 .. Capacity - 1
        BY <1>9, HashLocation, Probes DEF Slots
      <3>2. Scanned \in Nat
        BY <1>11, OhTableAssumption
      <3> QED
        BY <2>1, <3>1, <3>2, CapacityPositive
    <2>6. CASE b + 1 = NUM_BLOCKS
      <3>1. Here' = 0
        BY <1>6, <2>2, <2>6, OhTableAssumption DEF Here, larger, next_block
      <3>2. p + ITEMS_PER_BLOCK = Capacity
        BY <2>3, <2>6, BlockLayout
      <3> QED
        BY <2>1, <2>4, <2>5, <3>1, <3>2, CapacityPositive
    <2>7. CASE b + 1 # NUM_BLOCKS
      <3>1. Here' = (b + 1) * ITEMS_PER_BLOCK + 0
        BY <1>6, <2>2, <2>7 DEF Here, larger, next_block
      <3>2. (b + 1) * ITEMS_PER_BLOCK = p + ITEMS_PER_BLOCK
        BY <2>3, BlockLayout
      <3>3. Here' = p + ITEMS_PER_BLOCK
        BY <2>3, <3>1, <3>2, OhTableAssumption
      <3> QED
        BY <2>1, <2>4, <3>3
    <2> QED
      BY <2>6, <2>7
  <1>14. GetInv'
    <2>1. args'.blocks_to_scan <= blocks_to_scan'
      BY <1>3, <1>6, <1>9, <1>10
    <2>2. args.search_complete => args.out_record.val = stored[k]
      BY <1>1, <1>8 DEF OhInv, GetInv
    <2>3. ~args.search_complete => args.out_record.val = Absent /\ hash(k) <= Scanned
      BY <1>1, <1>8 DEF OhInv, GetInv
    <2> QED
      BY <1>1, <1>6, <1>8, <1>9, <1>12, <1>13, <2>1, <2>2, <2>3 DEF GetInv
  <1>15. RetInv' /\ LookupSound'
    BY <1>1, <1>6 DEF OhInv, RetInv, LookupSound, Nothing, Idle
  <1> QED
    BY <1>7, <1>14, <1>15 DEF OhInv

(* ohtable_get returns what was stored; or nothing, if the record is beyond *)
(* the blocks that max_offset let it read.                                  *)
LEMMA GetReturnInv == OhInv /\ get_return => OhInv'
  <1> SUFFICES ASSUME OhInv, get_return PROVE OhInv'
    OBVIOUS
  <1>1. /\ args.kind = "get" /\ args.blocks_to_scan = 0
        /\ ret' = [op |-> "get", key |-> args.key, val |-> args.out_record.val]
        /\ args' = Idle
        /\ UNCHANGED <<raw, slots, num_items, max_offset, stored>>
    BY DEF get_return
  <1>2. args \in GetArgs
    BY <1>1 DEF OhInv, TypeOK, PutArgs, Idle
  <1>3. args'.kind = "idle"
    BY <1>1 DEF Idle
  <1>4. TypeOK' /\ SlotsInv' /\ StoredInv' /\ CountInv' /\ CarryInv' /\ RoomInv'
    BY <1>1, <1>3, LookOnly
  <1>5. PICK k \in Keys : k = args.key
    BY <1>2 DEF GetArgs
  <1>6. /\ hash(k)' = hash(k) /\ \A s : Offset(k, s)' = Offset(k, s)
        /\ blocks_to_scan' = blocks_to_scan /\ raw \in RawHashes /\ max_offset \in Nat
    BY <1>1, SlotsSame DEF blocks_to_scan, OhInv, TypeOK
  <1>7. GetInv' /\ RetInv'
    BY <1>1, <1>2, <1>3 DEF GetInv, RetInv, GetArgs
  <1>8. ret'.op = "get" /\ ret'.key = k /\ ret'.val = args.out_record.val
    BY <1>1, <1>5
  <1>9. CASE args.search_complete
    <2>1. ret'.val = stored'[k]
      BY <1>1, <1>5, <1>8, <1>9 DEF OhInv, GetInv
    <2>2. LookupSound'
      BY <1>8, <2>1 DEF LookupSound
    <2> QED
      BY <1>4, <1>7, <2>2 DEF OhInv
  <1>10. CASE ~args.search_complete
    <2>1. /\ args.out_record.val = Absent
          /\ \A s \in Slots : slots[s].key = k => Scanned <= hash(k) + Offset(k, s)
          /\ args.i = 0 /\ args.start_index = 0
      BY <1>1, <1>5, <1>10 DEF OhInv, GetInv
    <2>2. PICK q \in Nat, n \in Nat : q = hash(k) \div ITEMS_PER_BLOCK /\ n = blocks_to_scan
      BY <1>6, HashLocation, ScanPositive
    <2>3. Scanned = (q + n) * ITEMS_PER_BLOCK
      <3>1. q + (n - 0) = q + n
        OBVIOUS
      <3>2. Scanned = (q + n) * ITEMS_PER_BLOCK + 0
        BY <1>1, <1>5, <2>1, <2>2, <3>1 DEF Scanned, larger
      <3> QED
        BY <3>2, OhTableAssumption
    <2>4. LastScanned(k) = q * ITEMS_PER_BLOCK + n * ITEMS_PER_BLOCK - 1
      BY <2>2 DEF LastScanned
    <2>5. LastScanned(k) = Scanned - 1 /\ Scanned \in Nat
      BY <2>3, <2>4, OhTableAssumption
    <2>6. \A s \in Slots : slots[s].key = k => hash(k) + Offset(k, s) > LastScanned(k)
      <3>1. \A s \in Slots : hash(k) + Offset(k, s) \in Nat
        BY <1>6, HashLocation, Probes DEF Slots
      <3> QED
        BY <2>1, <2>5, <3>1
    <2>7. LastScanned(k)' = LastScanned(k)
      BY <1>6 DEF LastScanned
    <2>8. LookupSound'
      BY <1>1, <1>6, <1>8, <2>1, <2>6, <2>7 DEF LookupSound, At
    <2> QED
      BY <1>4, <1>7, <2>8 DEF OhInv
  <1> QED
    BY <1>9, <1>10

-----------------------------------------------------------------------------
(* Every step of the table preserves the invariant. *)
LEMMA NextOhInv == OhInv /\ [Next]_vars => OhInv'
  <1> SUFFICES ASSUME OhInv, [Next]_vars PROVE OhInv'
    OBVIOUS
  <1>1. CASE UNCHANGED vars
    <2>1. UNCHANGED <<raw, slots, num_items, max_offset, args, ret, stored>>
      BY <1>1 DEF vars
    <2>2. SlotsInv' /\ Occupied' = Occupied
          /\ \A k, n : Passed(k, n) => Passed(k, n)'
      BY <2>1, SlotsSame DEF OhInv
    <2>3. TypeOK' /\ StoredInv' /\ CountInv' /\ RoomInv' /\ RetInv'
      BY <2>1, <2>2 DEF OhInv, TypeOK, StoredInv, CountInv, RoomInv, RetInv, Carrying
    <2>4. CarryInv'
      BY <2>1, <2>2 DEF OhInv, CarryInv, Carrying, Here, Offset, distance_to_hash, hash
    <2>5. GetInv' /\ LookupSound'
      BY <2>1 DEF OhInv, GetInv, LookupSound, Scanned, Here, Offset, distance_to_hash, hash,
         blocks_to_scan, At, LastScanned
    <2> QED
      BY <2>2, <2>3, <2>4, <2>5 DEF OhInv
  <1> QED
    BY <1>1, PutInv, GetStartInv, RobinhoodInv, PutNextBlockInv, PutReturnInv, GetRecordInv,
       GetNextBlockInv, GetReturnInv, ClearInv DEF Next

(* OhInv is an invariant of the table, for any capacity, number of items    *)
(* per block, hash function, keys and values.                               *)
THEOREM OhInvariance == Spec => []OhInv
  <1> QED
    BY InitOhInv, NextOhInv, PTL DEF Spec

(* ohtable_put always ends: num_items is exact, so is_full refuses a put    *)
(* into a full table, and a put that starts looks at less slots than the    *)
(* table has.                                                               *)
THEOREM PutsTerminate == Spec => []PutsEnd
  <1>1. OhInv => PutsEnd
    BY DEF OhInv, PutsEnd, CountInv, CountExact, RoomInv, ProbeBounded, Occupied, TypeOK
  <1> QED
    BY <1>1, OhInvariance, PTL

(* robinhood loses, duplicates and mixes up no record, whatever has to move *)
(* for it.                                                                  *)
THEOREM RecordsKept == Spec => []NothingLost
  <1>1. OhInv => NothingLost
    <2> SUFFICES ASSUME OhInv, NEW k \in Keys
                 PROVE  IF \E r \in Carried : r.key = k
                        THEN /\ \A r \in Carried : r.val = stored[k]
                             /\ Cardinality(At(k)) <= 1
                        ELSE /\ Cardinality(At(k)) = IF stored[k] = Absent THEN 0 ELSE 1
                             /\ \A s \in At(k) : slots[s].val = stored[k]
      BY DEF NothingLost
    <2>1. At(k) = {} \/ \E s \in Slots : At(k) = {s}
      BY OhTableAssumption DEF OhInv, SlotsInv, At
    <2>2. Cardinality({}) = 0 /\ \A s : Cardinality({s}) = 1
      BY FS_EmptySet, FS_Singleton
    <2>3. Carried = IF Carrying THEN {args.in_record} ELSE {}
      BY DEF Carried, Carrying
    <2>4. CASE \E r \in Carried : r.key = k
      <3>1. Carrying /\ args.in_record.key = k
        BY <2>3, <2>4
      <3>2. \A r \in Carried : r.val = stored[k]
        BY <2>3, <3>1 DEF OhInv, CarryInv
      <3>3. Cardinality(At(k)) <= 1
        BY <2>1, <2>2
      <3> QED
        BY <2>4, <3>2, <3>3
    <2>5. CASE ~\E r \in Carried : r.key = k
      <3>1. ~(Carrying /\ args.in_record.key = k)
        BY <2>3, <2>5
      <3>2. \A s \in At(k) : slots[s].val = stored[k]
        BY <3>1 DEF OhInv, StoredInv, At
      <3>3. stored[k] = Absent <=> At(k) = {}
        BY <3>1 DEF OhInv, StoredInv, At
      <3>4. Cardinality(At(k)) = IF stored[k] = Absent THEN 0 ELSE 1
        BY <2>1, <2>2, <3>3
      <3> QED
        BY <2>5, <3>2, <3>4
    <2> QED
      BY <2>4, <2>5
  <1> QED
    BY <1>1, OhInvariance, PTL

(* No empty slot between a record and its hash: get_record may stop at the  *)
(* first one.                                                               *)
THEOREM ChainsUnbroken == Spec => []ProbeChain
  <1>1. OhInv => ProbeChain
    <2> SUFFICES ASSUME OhInv, NEW k \in Keys, NEW s \in At(k), NEW t \in Slots,
                        Offset(k, t) < Offset(k, s)
                 PROVE  slots[t] # Empty
      BY DEF ProbeChain
    <2>1. s \in Slots /\ slots[s].key = k /\ raw \in RawHashes
      BY DEF At, OhInv, TypeOK
    <2>2. /\ Offset(k, t) \in 0 .. Capacity - 1 /\ SlotAt(k, Offset(k, t)) = t
          /\ Offset(k, s) \in 0 .. Capacity - 1
      BY <2>1, Probes
    <2>3. Offset(k, t) \in 0 .. Offset(k, s) - 1
      BY <2>2
    <2>4. Stays(slots[t], k, Offset(k, t))
      BY <2>1, <2>2, <2>3 DEF OhInv, SlotsInv, Passed
    <2> QED
      BY <2>4, OhTableAssumption DEF Stays, Empty
  <1> QED
    BY <1>1, OhInvariance, PTL

(* ohtable_get returns the value last put, or none; and none for a stored   *)
(* key only if its record is beyond the blocks that max_offset lets every   *)
(* lookup read.                                                             *)
THEOREM LookupsSound == Spec => []LookupSound
  <1>1. OhInv => LookupSound
    BY DEF OhInv
  <1> QED
    BY <1>1, OhInvariance, PTL
=============================================================================
