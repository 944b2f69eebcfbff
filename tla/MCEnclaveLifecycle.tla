------------------------- MODULE MCEnclaveLifecycle -------------------------
EXTENDS EnclaveLifecycle
CONSTANTS a, k1, k2
MCCalls == {a}
MCClosers == {k1, k2}
MCClosers1 == {k1}
=============================================================================
