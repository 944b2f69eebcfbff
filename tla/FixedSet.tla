------------------------------ MODULE FixedSet ------------------------------
(***************************************************************************)
(* c/fixedset: a hash set with Robin Hood probing, in which a request's    *)
(* pairs of ACI and UAK are looked up, and c/aci_pni_uak_helpers, which    *)
(* decides with it what a client is told.  An entry that is [jump] places  *)
(* after the hash of its key has that jump, 1 or more; 0 is an empty one.  *)
(*                                                                         *)
(* The code starts with 32 entries, grows when size + size / 8 is more     *)
(* than the capacity, and then by a quarter of it at least.                *)
(***************************************************************************)
EXTENDS Integers, FiniteSetsExt, Sequences

CONSTANTS
    Keys,               \* pairs <<aci, uak>> of numbers, some of them zero
    Hashes,             \* what khash may return
    INITIAL_CAP,        \* 32 in the code
    LOAD, GROWTH,       \* 8 and 4 in the code
    MAX_CAP             \* bound on the capacity

ASSUME FixedSetAssumption ==
    /\ LOAD \in Nat \ {0} /\ GROWTH \in 1 .. LOAD
    /\ INITIAL_CAP \in Nat /\ INITIAL_CAP > 2 * LOAD
    /\ MAX_CAP \in Nat /\ INITIAL_CAP <= MAX_CAP
    /\ Hashes \in SUBSET Nat

NoKey == <<0, 0>>
NoEntry == [jump |-> 0, key |-> NoKey]

VARIABLES
    set,        \* block, size and maxjump; the capacity is the length of block
    khash,      \* the hash under the random key of this set
    replaced,   \* what the last upsert or remove answered
    members,    \* the keys that are in the set (not in the source)
    placed      \* every insertion has come to an end (not in the source)

fvars == <<set, khash, replaced, members, placed>>

cap(h) == Len(h.block)
(* fixedset_entry_n: where an index is, modulo the capacity. *)
entry_n(h, i) == (i % cap(h)) + 1

(* fixedset_new *)
empty_set(n) == [block |-> [i \in 1 .. n |-> NoEntry], size |-> 0, maxjump |-> 0]
FInit ==
    /\ set = empty_set(INITIAL_CAP)
    /\ khash \in [Keys -> Hashes]
    /\ members = {} /\ replaced = FALSE /\ placed = TRUE

(* fixedset_find: the places of a key. *)
fixedset_find(h, k) ==
    {khash[k] + j : j \in {n \in 1 .. h.maxjump :
                             h.block[entry_n(h, khash[k] + n)] = [jump |-> n, key |-> k]}}

(* fixedset_get *)
fixedset_get(h, k) == fixedset_find(h, k) # {}

(* fixedset_maybe_set_max_jump *)
raised(h, jump) == Max({h.maxjump, jump})

(* Mutant: plain linear probing. *)
displaced_never(e, jump) == FALSE
(* The entry is closer to its hash than the key that is to be placed. *)
displaced(e, jump) == e.jump # 0 /\ e.jump < jump

(* The variables of the loop of fixedset_upsert. *)
walker(h, hash, jump, key, done) ==
    [h |-> h, hash |-> hash, jump |-> jump, key |-> key, done |-> done]

(* A turn of the loop.  A key with a smaller jump than the one to place     *)
(* gives up its entry and is placed in turn.                                *)
probe(w) ==
    LET i == entry_n(w.h, w.hash + w.jump)
        e == w.h.block[i]
        taken(more) == [block |-> [w.h.block EXCEPT ![i] = [jump |-> w.jump, key |-> w.key]],
                        size |-> w.h.size + more, maxjump |-> raised(w.h, w.jump)]
    IN  CASE w.done -> w
          [] ~w.done /\ e.jump = 0 -> walker(taken(1), w.hash, w.jump, w.key, TRUE)
          [] ~w.done /\ displaced(e, w.jump) ->
               walker(taken(0), w.hash + w.jump - e.jump, e.jump + 1, e.key, FALSE)
          [] OTHER -> walker(w.h, w.hash, w.jump + 1, w.key, FALSE)

(* The loop.  Each turn is at the next entry and none empties one, so that  *)
(* a loop that has not ended after all entries does not end.                *)
place(h, k) ==
    LET walk[n \in 0 .. cap(h)] ==
            IF n = 0 THEN walker(h, khash[k], 1, k, FALSE)
            ELSE probe(walk[n - 1])
    IN  walk[cap(h)]

(* fixedset_upsert: what makes it grow. *)
over_load(h) == h.size + h.size \div LOAD > cap(h)

(* fixedset_upsert into a set that does not grow. *)
insert(h, k) == IF fixedset_get(h, k) THEN [h |-> h, done |-> TRUE] ELSE place(h, k)

(* fixedset_resize: every entry of the old block into a new one, with       *)
(* upserts that must not make it grow again.                                *)
fixedset_resize(h, newcap) ==
    LET moved[i \in 0 .. cap(h)] ==
            IF i = 0 THEN [h |-> empty_set(newcap), done |-> TRUE]
            ELSE LET m == moved[i - 1]
                 IN  IF h.block[i].jump = 0 \/ ~m.done THEN m
                     ELSE IF over_load(m.h) THEN [h |-> m.h, done |-> FALSE]
                     ELSE insert(m.h, h.block[i].key)
    IN  moved[cap(h)]

-----------------------------------------------------------------------------
(* fixedset_upsert: by a quarter and a random share of a half. *)
new_caps(c) == c + c \div GROWTH .. c + c \div GROWTH + c \div 2 - 1

(* fixedset_upsert when there is memory for the growth, if it must grow. *)
upserted(k) ==
    \E c \in IF over_load(set) THEN new_caps(cap(set)) ELSE {cap(set)} :
        /\ c <= MAX_CAP
        /\ \E m \in {IF over_load(set) THEN fixedset_resize(set, c) ELSE [h |-> set, done |-> TRUE]} :
           \E r \in {insert(m.h, k)} :
            /\ set' = r.h
            /\ placed' = (m.done /\ r.done)
            /\ replaced' = fixedset_get(m.h, k)
        /\ members' = members \cup {k}
        /\ UNCHANGED khash

(* fixedset_upsert.  The capacity is looked at before the key is.  When     *)
(* fixedset_resize finds no memory it puts back the old set, the error is   *)
(* returned, and nothing is written to *replaced.                           *)
fixedset_upsert(k) ==
    \/ upserted(k)
    \/ over_load(set) /\ UNCHANGED fvars

(* Mutant: an entry moves back although it is at its hash. *)
stops_at_home(e) == e.jump < 1
(* fixedset_remove ends at an entry that is empty or cannot move back. *)
stops(e) == e.jump < 2

(* fixedset_remove: the entries after the key move back by one. *)
fixedset_remove(k) ==
    LET at  == Max(fixedset_find(set, k))
        run == CHOOSE n \in 0 .. cap(set) :
                 /\ stops(set.block[entry_n(set, at + n + 1)])
                 /\ \A m \in 1 .. n : ~stops(set.block[entry_n(set, at + m)])
        next(e) == [jump |-> e.jump - 1, key |-> e.key]
        moved_back == [i \in 1 .. cap(set) |->
                         CASE i = entry_n(set, at + run) -> NoEntry
                           [] \E m \in 0 .. run - 1 : i = entry_n(set, at + m) ->
                                next(set.block[entry_n(set, i)])
                           [] OTHER -> set.block[i]]
    IN  /\ set' = IF fixedset_get(set, k)
                  THEN [block |-> moved_back, size |-> set.size - 1, maxjump |-> set.maxjump]
                  ELSE set
        /\ replaced' = fixedset_get(set, k)
        /\ members' = members \ {k}
        /\ UNCHANGED <<khash, placed>>

(* fixedset_clear: maxjump stays. *)
fixedset_clear ==
    /\ set' = [block |-> empty_set(cap(set)).block, size |-> 0, maxjump |-> set.maxjump]
    /\ members' = {} /\ UNCHANGED <<khash, replaced, placed>>

FNext ==
    \/ \E k \in Keys : fixedset_upsert(k) \/ fixedset_remove(k)
    \/ fixedset_clear

FSpec == FInit /\ [][FNext]_fvars

-----------------------------------------------------------------------------
Records == [found : BOOLEAN, pni : {0, 1}, aci : {k[1] : k \in Keys}, uak : {k[2] : k \in Keys}]

(* Mutant: an empty UAK is a UAK like others. *)
add_aci_any(pair) == fixedset_get(set, pair)
(* The ACI is told to a client that has its pair, which has a UAK. *)
add_aci(pair) == fixedset_get(set, pair) /\ pair[2] # 0

(* create_e164_pni_aci_triples: the i-th triple.  A record without an ACI   *)
(* is one that was removed.  For what is not found, i is looked up in the   *)
(* place of the UAK; the answer is not used.                                *)
triple(r, i) ==
    LET got  == r.found /\ r.aci # 0
        pair == <<r.aci, IF got THEN r.uak ELSE i>>
        tell == got /\ pair \in Keys /\ add_aci(pair)
    IN  [e164 |-> got, pni |-> IF got THEN r.pni ELSE 0, aci |-> IF tell THEN r.aci ELSE 0]

-----------------------------------------------------------------------------
(* Growing, displacing and moving back lose no key and invent none: the set *)
(* answers for every key as a set would, its size is that of its members,   *)
(* and an insertion finds an empty entry.                                   *)
SetIsASet ==
    /\ placed
    /\ \A k \in Keys : fixedset_get(set, k) <=> k \in members
    /\ set.size = Cardinality(members)
    /\ set.size = Cardinality({i \in DOMAIN set.block : set.block[i].jump # 0})

(* A key may only be missing from its probe sequence where an entry is      *)
(* empty: nobody between the hash of a key and its entry is closer to home  *)
(* than the key could be, which is what ends a search after maxjump.        *)
RobinHood ==
    \A i \in DOMAIN set.block : LET e == set.block[i] IN e.jump # 0 =>
        /\ entry_n(set, khash[e.key] + e.jump) = i
        /\ e.jump <= set.maxjump
        /\ \A j \in 1 .. e.jump - 1 : set.block[entry_n(set, khash[e.key] + j)].jump >= j

(* The set has the shape of a fixed set. *)
FTypeOK ==
    /\ \A i \in DOMAIN set.block : set.block[i] \in [jump : 0 .. MAX_CAP, key : Keys \cup {NoKey}]
    /\ cap(set) \in INITIAL_CAP .. MAX_CAP /\ set.maxjump \in 0 .. MAX_CAP

(* fixedset.c: the table is well formed and is a set. *)
SetInv == FTypeOK /\ SetIsASet /\ RobinHood

(* A client learns the ACI of a number only if the number is registered and *)
(* the client has sent that ACI with its UAK, and learns no PNI of a number *)
(* that is not registered.                                                  *)
TriplesFiltered ==
    \A r \in Records, i \in {0, 1} :
        /\ triple(r, i).aci # 0 => r.found /\ r.uak # 0 /\ <<r.aci, r.uak>> \in members
        /\ r.found /\ r.aci # 0 /\ r.uak # 0 /\ <<r.aci, r.uak>> \in members => triple(r, i).aci = r.aci
        /\ triple(r, i).pni # 0 => r.found /\ r.aci # 0
=============================================================================
