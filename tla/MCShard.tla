------------------------------ MODULE MCShard ------------------------------
EXTENDS ShardInv, ShardRefinement, TLC
CONSTANTS t1, t2, w1, w2, r1, r2, r3, r4, k1, k2, v1, v2
MCThreads == {t1, t2}
MCWorkers == {w1, w2}
MCWorkers1 == {w1}
MCReqs == {r1, r2, r3, r4}
MCKeys == {k1, k2}
MCKeys1 == {k1}
MCVals == {v1, v2}
MCVals1 == {v1}
MCBatches == {<<k1, k2>>, <<k2>>}
MCBatches1 == {<<k1>>}
MCSymmetry == Permutations(MCThreads) \cup Permutations(MCWorkers) \cup Permutations(MCReqs)
=============================================================================
