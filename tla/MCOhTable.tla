----------------------------- MODULE MCOhTable -----------------------------
EXTENDS OhTable, TLC
CONSTANTS k1, k2, k3, k4, k5, k6, v1, v2
MCKeys5 == {k1, k2, k3, k4, k5}
MCKeys6 == {k1, k2, k3, k4, k5, k6}
MCVals == {v1}
MCVals2 == {v1, v2}
(* Slots 0, 1 and 3: equal hashes, hashes equal modulo the capacity (0 and 4, *)
(* 3 and 7), and runs that wrap around the end of the table.                *)
MCRaw == [Keys -> {0, 1, 3, 4, 7}]
(* Collisions, and a cluster that gets in the way of the records of slot 1. *)
MCRawChain == [Keys -> {1, 9, 4, 5}]
MCSymmetry == Permutations(Keys)
=============================================================================
