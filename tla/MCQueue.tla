------------------------------ MODULE MCQueue ------------------------------
EXTENDS Queue, TLC
CONSTANTS p1, p2, c1, c2, a, b
MCProducers == {p1, p2}
MCConsumers == {c1, c2}
MCItems == {a, b}
=============================================================================
