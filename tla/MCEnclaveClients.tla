-------------------------- MODULE MCEnclaveClients --------------------------
EXTENDS EnclaveClients
CONSTANTS t1, t2, t3, c1
MCThreads == {t1, t2, t3}
MCClients == {c1}
=============================================================================
