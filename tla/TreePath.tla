------------------------------ MODULE TreePath ------------------------------
(***************************************************************************)
(* c/path_oram/tree_path: the buckets of an ORAM numbered by an in-order   *)
(* traversal of a full binary tree.  Leaves are even, level 0; the root is *)
(* the one node of the highest level.                                      *)
(***************************************************************************)
EXTENDS Integers

(* 1 << n *)
pow2[n \in Nat] == IF n = 0 THEN 1 ELSE 2 * pow2[n - 1]

(* tree_path_num_nodes *)
tree_path_num_nodes(num_levels) == pow2[num_levels] - 1

(* level: the number of trailing ones of n. *)
level(n) == CHOOSE l \in 0 .. n : n % pow2[l + 1] = pow2[l] - 1

(* node_val: from level and offset within the level to the node. *)
node_val(lvl, offset) == pow2[lvl + 1] * offset + pow2[lvl] - 1

(* coords_for_val: the offset of a node within its level. *)
coords_for_val(n) == (n - (pow2[level(n)] - 1)) \div pow2[level(n) + 1]

(* tree_path_update: the path from a leaf to the root, indexed by level;    *)
(* the offset of a parent is half that of its child.                        *)
tree_path_update(length, leaf) ==
    [l \in 0 .. length - 1 |-> node_val(l, coords_for_val(leaf) \div pow2[l])]

(* The first and the last leaf below a node. *)
lower_bound(n) == n - (pow2[level(n)] - 1)
upper_bound(n) == n + (pow2[level(n)] - 1)
=============================================================================
