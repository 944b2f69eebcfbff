---------------------------- MODULE MCPathOram ----------------------------
EXTENDS PathOram, TLC
CONSTANTS v1, v2
MCVals == {v1, v2}
MCSymmetry == Permutations(MCVals)
=============================================================================
