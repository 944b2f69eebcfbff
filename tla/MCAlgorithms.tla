---------------------------- MODULE MCAlgorithms ----------------------------
EXTENDS Algorithms
(* Pairs with an ACI or a UAK in common, and pairs that lack one of them. *)
MCKeys == {<<1, 1>>, <<1, 2>>, <<1, 0>>, <<0, 1>>, <<2, 1>>}
(* Messages of up to four packets, their bytes all different. *)
MCPlaintexts == {[i \in 1 .. n |-> i] : n \in 0 .. 10}
=============================================================================
