----------------------------- MODULE OramArray -----------------------------
(***************************************************************************)
(* What a user of the ORAM may rely on: an array of blocks.  An access may *)
(* fail; that gives up some blocks, the accessed one among them, and       *)
(* leaves all others as they are.  Nothing is promised about a block that  *)
(* has been given up.                                                      *)
(***************************************************************************)
CONSTANTS Blocks, Vals, Unset
VARIABLES mem, ret, damaged

Init == mem = [b \in Blocks |-> Unset] /\ ret = "none" /\ damaged = {}

Put(b, v) ==
    /\ mem' = IF b \in damaged THEN mem ELSE [mem EXCEPT ![b] = v]
    /\ ret' = "ok" /\ UNCHANGED damaged

Get(b) ==
    /\ IF b \in damaged THEN ret' \in Vals \cup {Unset} ELSE ret' = mem[b]
    /\ UNCHANGED <<mem, damaged>>

(* A given-up block reads as Unset here; that is not a promise. *)
GiveUp(r) ==
    /\ damaged \subseteq damaged' /\ damaged' \subseteq Blocks
    /\ mem' = [b \in Blocks |-> IF b \in damaged' THEN Unset ELSE mem[b]]
    /\ ret' = r

Fail(b) == GiveUp("error") /\ b \in damaged'

(* The map of the array is set up; a failure there is not reported. *)
Setup == GiveUp("ok")

Clear ==
    /\ mem' = [b \in Blocks |-> Unset] /\ damaged' \subseteq damaged /\ ret' = "ok"

Next == \/ \E b \in Blocks : Get(b) \/ Fail(b) \/ \E v \in Vals : Put(b, v)
        \/ Setup \/ Clear

Spec == Init /\ [][Next]_<<mem, ret, damaged>>
=============================================================================
