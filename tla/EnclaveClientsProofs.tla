------------------------ MODULE EnclaveClientsProofs ------------------------
(***************************************************************************)
(* ClientInv of EnclaveClients is inductive, for any number of threads,    *)
(* clients and keys.  There is one lemma for each action, and in it one    *)
(* step for each conjunct of ClientInv:                                    *)
(*   - the word of a client is a lock: WordInv says which word goes with   *)
(*     which place of a call, and makes ExclusiveClient inductive;         *)
(*   - LockInv says who holds g_handshakestart_mu and which of g_privkey   *)
(*     and g_handshakestart may be ahead while it is held; with KeyedInv   *)
(*     it makes KeyIsAttested inductive.                                   *)
(***************************************************************************)
EXTENDS EnclaveClients, MergeE164s, NoiseMessages, FiniteSetTheorems,
        SequenceTheorems, NaturalsInduction, WellFoundedInduction, TLAPS

(* Before enclave_init there is no key, no client and no thread inside.      *)
LEMMA InitClientInv == Init => ClientInv
  <1> SUFFICES ASSUME Init PROVE ClientInv
    OBVIOUS
  <1> USE DEF Init
  <1>1. TypeOK
    BY EnclaveClientsAssumption DEF TypeOK, Zeroed, Fields, Pcs
  <1>2. ExclusiveClient /\ NoClientLost
    BY DEF ExclusiveClient, NoClientLost, Inside
  <1>3. KeyIsAttested /\ InitCheckHolds /\ LockInv /\ WordInv /\ KeyedInv
    BY DEF KeyIsAttested, InitCheckHolds, LockInv, WordInv, KeyedInv
  <1>4. StagesInOrder
    BY DEF StagesInOrder, Zeroed
  <1> QED
    BY <1>1, <1>2, <1>3, <1>4 DEF ClientInv

(* enclave_init wins its compare-exchange: one initialiser.                  *)
LEMMA InvEnclaveInit ==
    ASSUME ClientInv, NEW t \in Threads, enclave_init(t)
    PROVE  ClientInv'
  <1> USE DEF ClientInv, TypeOK, enclave_init, Goto, locks, memory, init_claims
  <1>1. TypeOK'
    BY EnclaveClientsAssumption DEF Pcs
  <1>2. ExclusiveClient'
    BY DEF ExclusiveClient, Inside
  <1>3. NoClientLost'
    BY DEF NoClientLost, Inside
  <1>4. KeyIsAttested'
    BY DEF KeyIsAttested
  <1>5. StagesInOrder'
    BY DEF StagesInOrder
  <1>6. InitCheckHolds'
    BY DEF InitCheckHolds
  <1>7. LockInv'
    BY DEF LockInv
  <1>8. WordInv'
    BY DEF WordInv
  <1>9. KeyedInv'
    BY DEF KeyedInv
  <1> QED
    BY <1>1, <1>2, <1>3, <1>4, <1>5, <1>6, <1>7, <1>8, <1>9

(* The end of enclave_init: the first key before any client; or it is undone,*)
(* and nothing was attested yet (KeyedInv).                                  *)
LEMMA InvEnclaveInitDone ==
    ASSUME ClientInv, NEW t \in Threads, enclave_init_done(t)
    PROVE  ClientInv'
  <1> USE DEF ClientInv, TypeOK, enclave_init_done, Goto, locks, memory
  <1>1. TypeOK'
    BY EnclaveClientsAssumption DEF Pcs
  <1>2. ExclusiveClient'
    BY DEF ExclusiveClient, Inside
  <1>3. NoClientLost'
    BY DEF NoClientLost, Inside
  <1>4. KeyIsAttested'
    BY DEF KeyIsAttested
  <1>5. StagesInOrder'
    BY DEF StagesInOrder
  <1>6. InitCheckHolds'
    BY DEF InitCheckHolds
  <1>7. LockInv'
    BY DEF LockInv, InitCheckHolds, KeyedInv
  <1>8. WordInv'
    BY DEF WordInv
  <1>9. KeyedInv'
    BY DEF KeyedInv, InitCheckHolds
  <1> QED
    BY <1>1, <1>2, <1>3, <1>4, <1>5, <1>6, <1>7, <1>8, <1>9

(* enclave_attest makes a key that nobody uses yet.                          *)
LEMMA InvEnclaveAttest ==
    ASSUME ClientInv, NEW t \in Threads, enclave_attest(t)
    PROVE  ClientInv'
  <1> USE DEF ClientInv, TypeOK, enclave_attest, Goto, locks, memory
  <1>1. TypeOK'
    BY EnclaveClientsAssumption DEF Pcs
  <1>2. ExclusiveClient'
    BY DEF ExclusiveClient, Inside
  <1>3. NoClientLost'
    BY DEF NoClientLost, Inside
  <1>4. KeyIsAttested'
    BY DEF KeyIsAttested
  <1>5. StagesInOrder'
    BY DEF StagesInOrder
  <1>6. InitCheckHolds'
    BY DEF InitCheckHolds
  <1>7. LockInv'
    BY DEF LockInv
  <1>8. WordInv'
    BY DEF WordInv
  <1>9. KeyedInv'
    BY DEF KeyedInv
  <1> QED
    BY <1>1, <1>2, <1>3, <1>4, <1>5, <1>6, <1>7, <1>8, <1>9

(* pthread_rwlock_wrlock excludes the readers of LockInv.                    *)
LEMMA InvAttestWrlock ==
    ASSUME ClientInv, NEW t \in Threads, attest_wrlock(t)
    PROVE  ClientInv'
  <1> USE DEF ClientInv, TypeOK, attest_wrlock, Goto, globals, memory, wrlock_free
  <1>1. TypeOK'
    BY EnclaveClientsAssumption DEF Pcs
  <1>2. ExclusiveClient'
    BY DEF ExclusiveClient, Inside
  <1>3. NoClientLost'
    BY DEF NoClientLost, Inside
  <1>4. KeyIsAttested'
    BY DEF KeyIsAttested
  <1>5. StagesInOrder'
    BY DEF StagesInOrder
  <1>6. InitCheckHolds'
    BY DEF InitCheckHolds
  <1>7. LockInv'
    BY DEF LockInv
  <1>8. WordInv'
    BY DEF WordInv
  <1>9. KeyedInv'
    BY DEF KeyedInv
  <1> QED
    BY <1>1, <1>2, <1>3, <1>4, <1>5, <1>6, <1>7, <1>8, <1>9

(* g_privkey changes under the write lock: no client is between its key and  *)
(* its report.                                                               *)
LEMMA InvAttestKey ==
    ASSUME ClientInv, NEW t \in Threads, attest_key(t)
    PROVE  ClientInv'
  <1> USE DEF ClientInv, TypeOK, attest_key, Goto, locks, memory
  <1>1. TypeOK'
    BY EnclaveClientsAssumption DEF Pcs
  <1>2. ExclusiveClient'
    BY DEF ExclusiveClient, Inside
  <1>3. NoClientLost'
    BY DEF NoClientLost, Inside
  <1>4. KeyIsAttested'
    BY DEF KeyIsAttested
  <1>5. StagesInOrder'
    BY DEF StagesInOrder
  <1>6. InitCheckHolds'
    BY DEF InitCheckHolds
  <1>7. LockInv'
    BY DEF LockInv
  <1>8. WordInv'
    BY DEF WordInv
  <1>9. KeyedInv'
    BY DEF KeyedInv
  <1> QED
    BY <1>1, <1>2, <1>3, <1>4, <1>5, <1>6, <1>7, <1>8, <1>9

(* g_handshakestart catches up with g_privkey.                               *)
LEMMA InvAttestReport ==
    ASSUME ClientInv, NEW t \in Threads, attest_report(t)
    PROVE  ClientInv'
  <1> USE DEF ClientInv, TypeOK, attest_report, Goto, locks, memory
  <1>1. TypeOK'
    BY EnclaveClientsAssumption DEF Pcs
  <1>2. ExclusiveClient'
    BY DEF ExclusiveClient, Inside
  <1>3. NoClientLost'
    BY DEF NoClientLost, Inside
  <1>4. KeyIsAttested'
    BY DEF KeyIsAttested
  <1>5. StagesInOrder'
    BY DEF StagesInOrder
  <1>6. InitCheckHolds'
    BY DEF InitCheckHolds
  <1>7. LockInv'
    BY DEF LockInv
  <1>8. WordInv'
    BY DEF WordInv
  <1>9. KeyedInv'
    BY DEF KeyedInv
  <1> QED
    BY <1>1, <1>2, <1>3, <1>4, <1>5, <1>6, <1>7, <1>8, <1>9

(* When the lock is released the key and its evidence agree.                 *)
LEMMA InvAttestUnlock ==
    ASSUME ClientInv, NEW t \in Threads, attest_unlock(t)
    PROVE  ClientInv'
  <1> USE DEF ClientInv, TypeOK, attest_unlock, Goto, globals, memory
  <1>1. TypeOK'
    BY EnclaveClientsAssumption DEF Pcs
  <1>2. ExclusiveClient'
    BY DEF ExclusiveClient, Inside
  <1>3. NoClientLost'
    BY DEF NoClientLost, Inside
  <1>4. KeyIsAttested'
    BY DEF KeyIsAttested
  <1>5. StagesInOrder'
    BY DEF StagesInOrder
  <1>6. InitCheckHolds'
    BY DEF InitCheckHolds
  <1>7. LockInv'
    BY DEF LockInv
  <1>8. WordInv'
    BY DEF WordInv
  <1>9. KeyedInv'
    BY DEF KeyedInv
  <1> QED
    BY <1>1, <1>2, <1>3, <1>4, <1>5, <1>6, <1>7, <1>8, <1>9

(* A new client_t is unreachable: its word is dead until client_add.         *)
LEMMA InvEnclaveNewClient ==
    ASSUME ClientInv, NEW t \in Threads, NEW c \in Clients, enclave_new_client(t, c)
    PROVE  ClientInv'
  <1> USE DEF ClientInv, TypeOK, Goto, globals, locks
  <1>1. [Zeroed EXCEPT !.handshake = "new"] \in Fields /\ Zeroed \in Fields
    <2>1. 0 \in 0 .. MAX_KEYS
      BY EnclaveClientsAssumption
    <2>2. Zeroed \in Fields
      BY <2>1 DEF Zeroed, Fields
    <2> QED
      BY <2>2 DEF Fields
  <1>2. cl' \in [Clients -> Fields] /\ \A d \in Clients : d # c => cl'[d] = cl[d]
    BY <1>1 DEF enclave_new_client
  <1>3. cl'[c] \in {[Zeroed EXCEPT !.handshake = "new"], Zeroed}
    BY DEF enclave_new_client
  <1>4. ~cl'[c].req /\ ~cl'[c].session /\ ~cl'[c].workspace
    BY <1>3 DEF Zeroed
  <1>5. /\ pc' \in {[pc EXCEPT ![t] = "new"], [pc EXCEPT ![t] = "free"]}
        /\ pc[t] = "idle" /\ init_done = "INITIALIZED" /\ ~heap[c]
        /\ heap' = [heap EXCEPT ![c] = TRUE]
        /\ cli' = [cli EXCEPT ![t] = c]
        /\ UNCHANGED <<globals, locks, acq, op, new_key>>
    BY DEF enclave_new_client
  <1>6. \A u \in Threads : pc[u] \in {"new_report", "new_add", "new_publish"} => cli[u] # c
    BY <1>5 DEF ExclusiveClient, Inside
  <1>7. TypeOK'
    BY <1>2, <1>5 DEF Pcs
  <1>8. ExclusiveClient'
    <2>1. acq[c] = "DEAD" /\ \A u \in Threads : ~Inside(u, c)
      BY <1>5 DEF NoClientLost, ExclusiveClient
    <2>2. \A u \in Threads, d \in Clients :
             Inside(u, d)' => IF u = t THEN d = c ELSE Inside(u, d)
      BY <1>5 DEF Inside
    <2> QED
      BY <1>5, <2>1, <2>2 DEF ExclusiveClient
  <1>9. NoClientLost'
    <2>1. acq[c] = "DEAD"
      BY <1>5 DEF NoClientLost
    <2>2. \A d \in Clients, u \in Threads : Inside(u, d) => Inside(u, d)'
      BY <1>5 DEF Inside
    <2>3. Inside(t, c)'
      BY <1>5 DEF Inside
    <2> QED
      BY <1>2, <1>5, <2>1, <2>2, <2>3 DEF NoClientLost
  <1>10. KeyIsAttested'
    BY <1>2, <1>5 DEF KeyIsAttested, NoClientLost
  <1>11. StagesInOrder'
    BY <1>2, <1>4 DEF StagesInOrder
  <1>12. InitCheckHolds'
    BY <1>5 DEF InitCheckHolds
  <1>13. LockInv'
    BY <1>2, <1>5, <1>6 DEF LockInv
  <1>14. WordInv'
    BY <1>5 DEF WordInv, NoClientLost
  <1>15. KeyedInv'
    BY <1>5 DEF KeyedInv
  <1> QED
    BY <1>7, <1>8, <1>9, <1>10, <1>11, <1>12, <1>13, <1>14, <1>15

(* pthread_rwlock_rdlock excludes a rotation.                                *)
LEMMA InvNewRdlock ==
    ASSUME ClientInv, NEW t \in Threads, new_rdlock(t)
    PROVE  ClientInv'
  <1> USE DEF ClientInv, TypeOK, new_rdlock, Goto, globals, memory, rdlock_free
  <1>1. TypeOK'
    BY EnclaveClientsAssumption DEF Pcs
  <1>2. ExclusiveClient'
    BY DEF ExclusiveClient, Inside
  <1>3. NoClientLost'
    BY DEF NoClientLost, Inside
  <1>4. KeyIsAttested'
    BY DEF KeyIsAttested
  <1>5. StagesInOrder'
    BY DEF StagesInOrder
  <1>6. InitCheckHolds'
    BY DEF InitCheckHolds
  <1>7. LockInv'
    BY DEF LockInv
  <1>8. WordInv'
    BY DEF WordInv
  <1>9. KeyedInv'
    BY DEF KeyedInv
  <1> QED
    BY <1>1, <1>2, <1>3, <1>4, <1>5, <1>6, <1>7, <1>8, <1>9

(* The client gets the key of the evidence that is copied next.              *)
LEMMA InvNewSetKey ==
    ASSUME ClientInv, NEW t \in Threads, new_set_key(t)
    PROVE  ClientInv'
  <1> USE DEF ClientInv, TypeOK, Goto, globals, locks
  <1> DEFINE c == cli[t]
  <1>1. c \in Clients /\ cl[c] \in Fields /\ privkey \in 0 .. MAX_KEYS
    OBVIOUS
  <1>2. [cl[c] EXCEPT !.key = privkey] \in Fields
    BY <1>1 DEF Fields
  <1>3. cl' \in [Clients -> Fields] /\ \A d \in Clients : d # c => cl'[d] = cl[d]
    BY <1>1, <1>2 DEF new_set_key
  <1>4. cl'[c] \in {[cl[c] EXCEPT !.key = privkey], cl[c]}
    BY <1>1 DEF new_set_key
  <1>5. /\ cl'[c].req = cl[c].req /\ cl'[c].session = cl[c].session
        /\ cl'[c].workspace = cl[c].workspace /\ cl'[c].handshake = cl[c].handshake
    BY <1>1, <1>4 DEF Fields
  <1>6. \/ pc' = [pc EXCEPT ![t] = "new_fail"]
        \/ pc' = [pc EXCEPT ![t] = "new_report"] /\ cl'[c].key = privkey
    BY <1>1, <1>4 DEF new_set_key, Fields
  <1>7. pc[t] = "new_key" /\ UNCHANGED <<globals, locks, heap, acq, op, cli, new_key>>
    BY DEF new_set_key
  <1>8. acq[c] = "DEAD" /\ \A u \in Threads : Inside(u, c) => u = t
    BY <1>1, <1>7 DEF ExclusiveClient, WordInv, Inside
  <1> HIDE DEF c
  <1>9. TypeOK'
    BY <1>3, <1>6, <1>7 DEF Pcs
  <1>10. ExclusiveClient'
    BY <1>6, <1>7 DEF ExclusiveClient, Inside
  <1>11. NoClientLost'
    <2>1. \A d \in Clients, u \in Threads : Inside(u, d) => Inside(u, d)'
      BY <1>6, <1>7 DEF Inside
    <2> QED
      BY <1>3, <1>7, <1>8, <2>1 DEF NoClientLost
  <1>12. KeyIsAttested'
    BY <1>3, <1>7, <1>8 DEF KeyIsAttested
  <1>13. StagesInOrder'
    BY <1>1, <1>3, <1>5 DEF StagesInOrder
  <1>14. InitCheckHolds'
    BY <1>6, <1>7 DEF InitCheckHolds
  <1>15. LockInv'
    BY <1>1, <1>3, <1>6, <1>7, <1>8 DEF LockInv, Inside, c
  <1>16. WordInv'
    BY <1>6, <1>7, <1>8 DEF WordInv
  <1>17. KeyedInv'
    BY <1>6, <1>7 DEF KeyedInv
  <1> QED
    BY <1>9, <1>10, <1>11, <1>12, <1>13, <1>14, <1>15, <1>16, <1>17

(* The evidence copied out is that of the key set before, both under one lock.*)
LEMMA InvNewCopyReport ==
    ASSUME ClientInv, NEW t \in Threads, new_copy_report(t)
    PROVE  ClientInv'
  <1> USE DEF ClientInv, TypeOK, new_copy_report, Goto, globals, locks
  <1>1. TypeOK'
    BY EnclaveClientsAssumption DEF Pcs, StagesInOrder, Fields
  <1>2. ExclusiveClient'
    BY DEF ExclusiveClient, Inside
  <1>3. NoClientLost'
    BY DEF NoClientLost, Inside
  <1>4. KeyIsAttested'
    BY DEF KeyIsAttested, WordInv
  <1>5. StagesInOrder'
    BY DEF StagesInOrder
  <1>6. InitCheckHolds'
    BY DEF InitCheckHolds
  <1>7. LockInv'
    BY DEF LockInv, KeyedInv
  <1>8. WordInv'
    BY DEF WordInv
  <1>9. KeyedInv'
    BY DEF KeyedInv
  <1> QED
    BY <1>1, <1>2, <1>3, <1>4, <1>5, <1>6, <1>7, <1>8, <1>9

(* client_add gives the client its word, still in use.                       *)
LEMMA InvClientAdd ==
    ASSUME ClientInv, NEW t \in Threads, client_add(t)
    PROVE  ClientInv'
  <1> USE DEF ClientInv, TypeOK, client_add, Goto, globals, locks
  <1>1. TypeOK'
    BY EnclaveClientsAssumption DEF Pcs
  <1>2. ExclusiveClient'
    BY DEF ExclusiveClient, Inside
  <1>3. NoClientLost'
    BY DEF NoClientLost, Inside, ExclusiveClient, LockInv
  <1>4. KeyIsAttested'
    BY DEF KeyIsAttested, LockInv
  <1>5. StagesInOrder'
    BY DEF StagesInOrder
  <1>6. InitCheckHolds'
    BY DEF InitCheckHolds
  <1>7. LockInv'
    BY DEF LockInv
  <1>8. WordInv'
    BY DEF WordInv, ExclusiveClient, Inside
  <1>9. KeyedInv'
    BY DEF KeyedInv
  <1> QED
    BY <1>1, <1>2, <1>3, <1>4, <1>5, <1>6, <1>7, <1>8, <1>9

(* From client_setstate on the client can be acquired; it is complete.       *)
LEMMA InvNewPublish ==
    ASSUME ClientInv, NEW t \in Threads, new_publish(t)
    PROVE  ClientInv'
  <1> USE DEF ClientInv, TypeOK, new_publish, Goto, globals, locks
  <1>1. TypeOK'
    BY EnclaveClientsAssumption DEF Pcs
  <1>2. ExclusiveClient'
    BY DEF ExclusiveClient, Inside
  <1>3. NoClientLost'
    BY DEF NoClientLost, Inside, WordInv
  <1>4. KeyIsAttested'
    BY DEF KeyIsAttested
  <1>5. StagesInOrder'
    BY DEF StagesInOrder
  <1>6. InitCheckHolds'
    BY DEF InitCheckHolds
  <1>7. LockInv'
    BY DEF LockInv
  <1>8. WordInv'
    BY DEF WordInv, ExclusiveClient, Inside
  <1>9. KeyedInv'
    BY DEF KeyedInv
  <1> QED
    BY <1>1, <1>2, <1>3, <1>4, <1>5, <1>6, <1>7, <1>8, <1>9

(* unlock_handshake releases only this thread's read lock.                   *)
LEMMA InvNewUnlock ==
    ASSUME ClientInv, NEW t \in Threads, new_unlock(t)
    PROVE  ClientInv'
  <1> USE DEF ClientInv, TypeOK, new_unlock, Goto, globals, memory
  <1>1. TypeOK'
    BY EnclaveClientsAssumption DEF Pcs
  <1>2. ExclusiveClient'
    BY DEF ExclusiveClient, Inside
  <1>3. NoClientLost'
    BY DEF NoClientLost, Inside
  <1>4. KeyIsAttested'
    BY DEF KeyIsAttested
  <1>5. StagesInOrder'
    BY DEF StagesInOrder
  <1>6. InitCheckHolds'
    BY DEF InitCheckHolds
  <1>7. LockInv'
    BY DEF LockInv
  <1>8. WordInv'
    BY DEF WordInv
  <1>9. KeyedInv'
    BY DEF KeyedInv
  <1> QED
    BY <1>1, <1>2, <1>3, <1>4, <1>5, <1>6, <1>7, <1>8, <1>9

(* A call may name any handle: nothing is touched before client_get.         *)
LEMMA InvCall ==
    ASSUME ClientInv, NEW t \in Threads, NEW o \in Ops, NEW c \in Clients, Call(t, o, c)
    PROVE  ClientInv'
  <1> USE DEF ClientInv, TypeOK, Call, Goto, globals, locks, memory
  <1>1. TypeOK'
    BY EnclaveClientsAssumption DEF Pcs
  <1>2. ExclusiveClient'
    BY DEF ExclusiveClient, Inside
  <1>3. NoClientLost'
    BY DEF NoClientLost, Inside
  <1>4. KeyIsAttested'
    BY DEF KeyIsAttested
  <1>5. StagesInOrder'
    BY DEF StagesInOrder
  <1>6. InitCheckHolds'
    BY DEF InitCheckHolds
  <1>7. LockInv'
    BY DEF LockInv
  <1>8. WordInv'
    BY DEF WordInv
  <1>9. KeyedInv'
    BY DEF KeyedInv
  <1> QED
    BY <1>1, <1>2, <1>3, <1>4, <1>5, <1>6, <1>7, <1>8, <1>9

(* client_get: the compare-exchange admits one thread to a client.           *)
LEMMA InvClientGet ==
    ASSUME ClientInv, NEW t \in Threads, client_get(t)
    PROVE  ClientInv'
  <1> USE DEF ClientInv, TypeOK, client_get, Goto, globals, locks, acquires
  <1>1. TypeOK'
    BY EnclaveClientsAssumption DEF Pcs
  <1>2. ExclusiveClient'
    BY DEF ExclusiveClient, Inside, NoClientLost
  <1>3. NoClientLost'
    BY DEF NoClientLost, Inside
  <1>4. KeyIsAttested'
    BY DEF KeyIsAttested
  <1>5. StagesInOrder'
    BY DEF StagesInOrder
  <1>6. InitCheckHolds'
    BY DEF InitCheckHolds
  <1>7. LockInv'
    BY DEF LockInv
  <1>8. WordInv'
    BY DEF WordInv
  <1>9. KeyedInv'
    BY DEF KeyedInv
  <1> QED
    BY <1>1, <1>2, <1>3, <1>4, <1>5, <1>6, <1>7, <1>8, <1>9

(* client_remove: who frees a client is alone with it.                       *)
LEMMA InvClientRemove ==
    ASSUME ClientInv, NEW t \in Threads, client_remove(t)
    PROVE  ClientInv'
  <1> USE DEF ClientInv, TypeOK, client_remove, Goto, globals, locks, acquires, after_remove
  <1>1. TypeOK'
    BY EnclaveClientsAssumption DEF Pcs
  <1>2. ExclusiveClient'
    BY DEF ExclusiveClient, Inside, NoClientLost
  <1>3. NoClientLost'
    BY DEF NoClientLost, Inside
  <1>4. KeyIsAttested'
    BY DEF KeyIsAttested
  <1>5. StagesInOrder'
    BY DEF StagesInOrder
  <1>6. InitCheckHolds'
    BY DEF InitCheckHolds
  <1>7. LockInv'
    BY DEF LockInv
  <1>8. WordInv'
    BY DEF WordInv
  <1>9. KeyedInv'
    BY DEF KeyedInv
  <1> QED
    BY <1>1, <1>2, <1>3, <1>4, <1>5, <1>6, <1>7, <1>8, <1>9

(* client_free leaves no live word and no thread inside.                     *)
LEMMA InvClientFree ==
    ASSUME ClientInv, NEW t \in Threads, client_free(t)
    PROVE  ClientInv'
  <1> USE DEF ClientInv, TypeOK, client_free, Goto, globals, locks, Zeroed
  <1>1. TypeOK'
    BY EnclaveClientsAssumption DEF Pcs, Fields
  <1>2. ExclusiveClient'
    BY DEF ExclusiveClient, Inside
  <1>3. NoClientLost'
    BY DEF NoClientLost, Inside
  <1>4. KeyIsAttested'
    BY DEF KeyIsAttested
  <1>5. StagesInOrder'
    BY DEF StagesInOrder
  <1>6. InitCheckHolds'
    BY DEF InitCheckHolds
  <1>7. LockInv'
    BY DEF LockInv, ExclusiveClient, Inside
  <1>8. WordInv'
    BY DEF WordInv
  <1>9. KeyedInv'
    BY DEF KeyedInv
  <1> QED
    BY <1>1, <1>2, <1>3, <1>4, <1>5, <1>6, <1>7, <1>8, <1>9

(* A call inside a client may change what belongs to the session, not the key*)
(* and not the report, and has to keep the order of the stages.              *)
LEMMA InvBody ==
    ASSUME ClientInv, NEW t \in Threads, pc[t] = "body",
           cl' \in [Clients -> Fields],
           \A d \in Clients : d # cli[t] => cl'[d] = cl[d],
           cl'[cli[t]].key = cl[cli[t]].key,
           cl'[cli[t]].report = cl[cli[t]].report,
           cl'[cli[t]].req => cl'[cli[t]].session /\ cl'[cli[t]].workspace,
           cl'[cli[t]].workspace => cl'[cli[t]].session,
           cl'[cli[t]].session => cl'[cli[t]].handshake = "none",
           Goto(t, "unlock"),
           UNCHANGED <<globals, locks, heap, acq, op, cli, new_key>>
    PROVE  ClientInv'
  <1> USE DEF ClientInv, TypeOK, Goto, globals, locks
  <1>1. TypeOK'
    BY DEF Pcs
  <1>2. ExclusiveClient'
    BY DEF ExclusiveClient, Inside
  <1>3. NoClientLost'
    <2>1. \A c \in Clients, u \in Threads : Inside(u, c) => Inside(u, c)'
      BY DEF Inside
    <2>2. \A c \in Clients : cl'[c].key = cl[c].key
      OBVIOUS
    <2> QED
      BY <2>1, <2>2 DEF NoClientLost
  <1>4. KeyIsAttested'
    BY DEF KeyIsAttested
  <1>5. StagesInOrder'
    BY DEF StagesInOrder
  <1>6. InitCheckHolds'
    BY DEF InitCheckHolds
  <1>7. LockInv'
    BY DEF LockInv
  <1>8. WordInv'
    BY DEF WordInv
  <1>9. KeyedInv'
    BY DEF KeyedInv
  <1> QED
    BY <1>1, <1>2, <1>3, <1>4, <1>5, <1>6, <1>7, <1>8, <1>9

(* enclave_handshake keeps the order of the stages.                          *)
LEMMA InvEnclaveHandshake ==
    ASSUME ClientInv, NEW t \in Threads, enclave_handshake(t)
    PROVE  ClientInv'
  <1> DEFINE f == cl[cli[t]]
  <1>1. cli[t] \in Clients /\ cl \in [Clients -> Fields] /\ f \in Fields
    BY DEF ClientInv, TypeOK
  <1>2. /\ f.req => f.session /\ f.workspace
        /\ f.workspace => f.session
        /\ f.session => f.handshake = "none"
    BY <1>1 DEF ClientInv, StagesInOrder
  <1>3. pc[t] = "body" /\ Goto(t, "unlock") /\ UNCHANGED <<globals, locks, heap, acq, op, cli, new_key>>
    BY DEF enclave_handshake
  <1>4. CASE f.handshake = "new" /\ cl' = [cl EXCEPT ![cli[t]].handshake = "none", ![cli[t]].session = TRUE]
    <2>1. cl' = [cl EXCEPT ![cli[t]] = [f EXCEPT !.handshake = "none", !.session = TRUE]]
      BY <1>1, <1>4
    <2>2. [f EXCEPT !.handshake = "none", !.session = TRUE] \in Fields
      BY <1>1 DEF Fields
    <2>3. cl' \in [Clients -> Fields] /\ cl'[cli[t]] = [f EXCEPT !.handshake = "none", !.session = TRUE]
      BY <1>1, <2>1, <2>2
    <2>4. \A d \in Clients : d # cli[t] => cl'[d] = cl[d]
      BY <1>1, <2>1
    <2> QED
      BY <1>1, <1>2, <1>3, <1>4, <2>3, <2>4, InvBody DEF Fields
  <1>5. CASE f.handshake = "new" /\ cl' = [cl EXCEPT ![cli[t]].handshake = "started"]
    <2>1. [f EXCEPT !.handshake = "started"] \in Fields
      BY <1>1 DEF Fields
    <2>2. cl' \in [Clients -> Fields] /\ cl'[cli[t]] = [f EXCEPT !.handshake = "started"]
      BY <1>1, <1>5, <2>1
    <2>3. \A d \in Clients : d # cli[t] => cl'[d] = cl[d]
      BY <1>1, <1>5
    <2> QED
      BY <1>1, <1>2, <1>3, <1>5, <2>2, <2>3, InvBody DEF Fields
  <1>6. CASE UNCHANGED cl
    BY <1>1, <1>2, <1>3, <1>6, InvBody
  <1> QED
    BY <1>4, <1>5, <1>6 DEF enclave_handshake

(* enclave_rate_limit keeps the order of the stages.                         *)
LEMMA InvEnclaveRateLimit ==
    ASSUME ClientInv, NEW t \in Threads, enclave_rate_limit(t)
    PROVE  ClientInv'
  <1> DEFINE f == cl[cli[t]]
  <1>1. cli[t] \in Clients /\ cl \in [Clients -> Fields] /\ f \in Fields
    BY DEF ClientInv, TypeOK
  <1>2. /\ f.req => f.session /\ f.workspace
        /\ f.workspace => f.session
        /\ f.session => f.handshake = "none"
    BY <1>1 DEF ClientInv, StagesInOrder
  <1>3. pc[t] = "body" /\ Goto(t, "unlock") /\ UNCHANGED <<globals, locks, heap, acq, op, cli, new_key>>
    BY DEF enclave_rate_limit
  <1>4. CASE f.session /\ cl' = [cl EXCEPT ![cli[t]].workspace = TRUE]
    <2>1. [f EXCEPT !.workspace = TRUE] \in Fields
      BY <1>1 DEF Fields
    <2>2. cl' \in [Clients -> Fields] /\ cl'[cli[t]] = [f EXCEPT !.workspace = TRUE]
      BY <1>1, <1>4, <2>1
    <2>3. \A d \in Clients : d # cli[t] => cl'[d] = cl[d]
      BY <1>1, <1>4
    <2>4. /\ cl'[cli[t]].key = f.key /\ cl'[cli[t]].report = f.report
          /\ cl'[cli[t]].req = f.req /\ cl'[cli[t]].workspace = TRUE
          /\ cl'[cli[t]].session = f.session /\ cl'[cli[t]].handshake = f.handshake
      BY <1>1, <2>2 DEF Fields
    <2> QED
      BY <1>2, <1>3, <1>4, <2>2, <2>3, <2>4, InvBody
  <1>5. CASE f.session /\ cl' = [cl EXCEPT ![cli[t]].workspace = TRUE, ![cli[t]].req = TRUE]
    <2>1. cl' = [cl EXCEPT ![cli[t]] = [f EXCEPT !.workspace = TRUE, !.req = TRUE]]
      BY <1>1, <1>5
    <2>2. [f EXCEPT !.workspace = TRUE, !.req = TRUE] \in Fields
      BY <1>1 DEF Fields
    <2>3. cl' \in [Clients -> Fields] /\ cl'[cli[t]] = [f EXCEPT !.workspace = TRUE, !.req = TRUE]
      BY <1>1, <2>1, <2>2
    <2>4. \A d \in Clients : d # cli[t] => cl'[d] = cl[d]
      BY <1>1, <2>1
    <2> QED
      BY <1>1, <1>2, <1>3, <1>5, <2>3, <2>4, InvBody DEF Fields
  <1>6. CASE UNCHANGED cl
    BY <1>1, <1>2, <1>3, <1>6, InvBody
  <1> QED
    BY <1>4, <1>5, <1>6 DEF enclave_rate_limit, rate_limit_allowed

(* enclave_run only reads its client.                                        *)
LEMMA InvEnclaveRun ==
    ASSUME ClientInv, NEW t \in Threads, enclave_run(t)
    PROVE  ClientInv'
  <1> USE DEF ClientInv, TypeOK, enclave_run, Goto, globals, locks, memory
  <1>1. TypeOK'
    BY EnclaveClientsAssumption DEF Pcs
  <1>2. ExclusiveClient'
    BY DEF ExclusiveClient, Inside
  <1>3. NoClientLost'
    BY DEF NoClientLost, Inside
  <1>4. KeyIsAttested'
    BY DEF KeyIsAttested
  <1>5. StagesInOrder'
    BY DEF StagesInOrder
  <1>6. InitCheckHolds'
    BY DEF InitCheckHolds
  <1>7. LockInv'
    BY DEF LockInv
  <1>8. WordInv'
    BY DEF WordInv
  <1>9. KeyedInv'
    BY DEF KeyedInv
  <1> QED
    BY <1>1, <1>2, <1>3, <1>4, <1>5, <1>6, <1>7, <1>8, <1>9

(* The table query touches no client.                                        *)
LEMMA InvRunQuery ==
    ASSUME ClientInv, NEW t \in Threads, run_query(t)
    PROVE  ClientInv'
  <1> USE DEF ClientInv, TypeOK, run_query, Goto, globals, locks, memory
  <1>1. TypeOK'
    BY EnclaveClientsAssumption DEF Pcs
  <1>2. ExclusiveClient'
    BY DEF ExclusiveClient, Inside
  <1>3. NoClientLost'
    BY DEF NoClientLost, Inside
  <1>4. KeyIsAttested'
    BY DEF KeyIsAttested
  <1>5. StagesInOrder'
    BY DEF StagesInOrder
  <1>6. InitCheckHolds'
    BY DEF InitCheckHolds
  <1>7. LockInv'
    BY DEF LockInv
  <1>8. WordInv'
    BY DEF WordInv
  <1>9. KeyedInv'
    BY DEF KeyedInv
  <1> QED
    BY <1>1, <1>2, <1>3, <1>4, <1>5, <1>6, <1>7, <1>8, <1>9

(* client_unlock makes the client acquirable when nobody is inside.          *)
LEMMA InvClientUnlock ==
    ASSUME ClientInv, NEW t \in Threads, client_unlock(t)
    PROVE  ClientInv'
  <1> USE DEF ClientInv, TypeOK, client_unlock, Goto, globals, locks
  <1>1. TypeOK'
    BY EnclaveClientsAssumption DEF Pcs
  <1>2. ExclusiveClient'
    BY DEF ExclusiveClient, Inside
  <1>3. NoClientLost'
    BY DEF NoClientLost, Inside, WordInv
  <1>4. KeyIsAttested'
    BY DEF KeyIsAttested
  <1>5. StagesInOrder'
    BY DEF StagesInOrder
  <1>6. InitCheckHolds'
    BY DEF InitCheckHolds
  <1>7. LockInv'
    BY DEF LockInv
  <1>8. WordInv'
    BY DEF WordInv, ExclusiveClient, Inside
  <1>9. KeyedInv'
    BY DEF KeyedInv
  <1> QED
    BY <1>1, <1>2, <1>3, <1>4, <1>5, <1>6, <1>7, <1>8, <1>9

-----------------------------------------------------------------------------
(* Every step of every thread, and every step in which the enclave does     *)
(* nothing, preserves ClientInv.                                            *)
LEMMA NextClientInv == ClientInv /\ [Next]_vars => ClientInv'
  <1> SUFFICES ASSUME ClientInv, [Next]_vars PROVE ClientInv'
    OBVIOUS
  <1>1. ASSUME NEW t \in Threads, Step(t) PROVE ClientInv'
    BY <1>1, InvEnclaveInitDone, InvAttestWrlock, InvAttestKey, InvAttestReport,
         InvAttestUnlock, InvNewRdlock, InvNewSetKey, InvNewCopyReport,
         InvClientAdd, InvNewPublish, InvNewUnlock, InvClientGet,
         InvClientRemove, InvClientFree, InvEnclaveHandshake,
         InvEnclaveRateLimit, InvEnclaveRun, InvRunQuery, InvClientUnlock
         DEF Step
  <1>2. ASSUME NEW t \in Threads, Start(t) PROVE ClientInv'
    BY <1>2, InvEnclaveInit, InvEnclaveAttest, InvEnclaveNewClient, InvCall DEF Start
  <1>3. CASE UNCHANGED vars
    BY <1>3 DEF vars, globals, locks, memory, control, ClientInv, TypeOK, ExclusiveClient,
       NoClientLost, KeyIsAttested, StagesInOrder, InitCheckHolds, LockInv, WordInv, KeyedInv,
       Inside
  <1> QED
    BY <1>1, <1>2, <1>3 DEF Next

(* Whatever calls the host makes, on whatever handles, the enclave's        *)
(* clients satisfy ClientInv, and with it every part of it.                 *)
THEOREM ClientInvariance == Spec => []ClientInv
  <1> QED
    BY InitClientInv, NextClientInv, PTL DEF Spec

(* The key a client's handshake uses is the one attested in the evidence    *)
(* its caller was given, however enclave_attest and enclave_new_client      *)
(* interleave.                                                              *)
THEOREM AttestedKeys == Spec => []KeyIsAttested
  <1>1. ClientInv => KeyIsAttested
    BY DEF ClientInv
  <1> QED
    BY <1>1, ClientInvariance, PTL

(* No two threads are inside one client, and none is inside one that is     *)
(* freed: the words of client_get, client_remove and client_free suffice.   *)
THEOREM ClientExclusion == Spec => []ExclusiveClient
  <1>1. ClientInv => ExclusiveClient
    BY DEF ClientInv
  <1> QED
    BY <1>1, ClientInvariance, PTL

(* g_privkey and g_handshakestart change only under the write lock, or      *)
(* before the enclave is initialised: no thread that reads them under the   *)
(* read lock sees them move.                                                *)
KeyStable ==
    [][\A t \in Threads : t \in readers /\ t \in readers' =>
          UNCHANGED <<privkey, handshakestart>>]_vars

(* A thread that holds g_handshakestart_mu for reading, as                  *)
(* enclave_new_client does between its two reads, sees one key.             *)
THEOREM KeyStableUnderLock == Spec => KeyStable
  <1>1. ClientInv /\ [Next]_vars =>
          [\A t \in Threads : t \in readers /\ t \in readers' =>
              UNCHANGED <<privkey, handshakestart>>]_vars
    <2> SUFFICES ASSUME ClientInv, [Next]_vars, NEW t \in Threads, t \in readers,
                        ~UNCHANGED <<privkey, handshakestart>>
                 PROVE  FALSE
      BY DEF vars, globals
    <2>1. PICK u \in Threads : enclave_init_done(u) \/ attest_key(u) \/ attest_report(u)
      BY DEF Next, Step, Start, vars, globals, enclave_init, enclave_attest, attest_wrlock,
         attest_unlock, new_rdlock, new_set_key, new_copy_report, client_add, new_publish,
         new_unlock, client_get, client_remove, client_free, enclave_handshake,
         enclave_rate_limit, enclave_run, run_query, client_unlock, enclave_new_client, Call
    <2>2. pc[t] \notin {"idle", "initializing"}
      BY DEF ClientInv, LockInv
    <2>3. CASE enclave_init_done(u)
      BY <2>2, <2>3 DEF enclave_init_done, ClientInv, KeyedInv, InitCheckHolds
    <2>4. CASE attest_key(u) \/ attest_report(u)
      BY <2>4 DEF attest_key, attest_report, ClientInv, LockInv
    <2> QED
      BY <2>1, <2>3, <2>4
  <1> QED
    BY <1>1, ClientInvariance, PTL DEF Spec, KeyStable

(***************************************************************************)
(* The numbers of a request that enclave_run merges, for a workspace of    *)
(* any size.  With both fields, the one that is first in the workspace     *)
(* ends before the other starts, so that the reads of it that go on past   *)
(* its end stay in the workspace, and so do those of the other that start  *)
(* before it.  An empty field of previous numbers that has the address of  *)
(* the new ones is taken for the second one, and breaks that.              *)
(***************************************************************************)
(* A field that is there. *)
LEMMA FieldIs ==
    ASSUME NEW f \in E164Fields
    PROVE  /\ f # NULL /\ f.start \in Nat /\ f.size \in Nat
           /\ f.start + f.size <= WORKSPACE_SIZE /\ WORKSPACE_SIZE \in Nat
           /\ field_size(f) = f.size /\ Addresses(f) = f.start .. f.start + f.size - 1
<1>1. f # NULL
  BY MergeAssumption
<1>2. f.start \in HEADER_SIZE .. WORKSPACE_SIZE /\ f.size \in 0 .. WORKSPACE_SIZE /\ f.start + f.size <= WORKSPACE_SIZE
  BY DEF E164Fields
<1> QED BY <1>1, <1>2, MergeAssumption DEF field_size, Addresses

(* The numbers of one field: it is read as the second operand, or as the    *)
(* first one next to an empty field with its address.                       *)
LEMMA OneMerged ==
    ASSUME NEW f \in E164Fields, NEW g, NEW h, g.start = f.start, h.start = f.start, NEW prev, NEW new,
           NEW z \in {0, f.size}, operands(prev, new) = [a_size |-> z, a |-> g, b |-> h],
           least_read(prev, new) = IF z = 0 THEN 0 ELSE f.start - f.size,
           num_e164s(prev, new) = f.size, Addresses(prev) \cup Addresses(new) = Addresses(f)
    PROVE  Merged(prev, new)
<1>1. PICK s, n, w \in Nat : s = f.start /\ n = f.size /\ w = WORKSPACE_SIZE /\ s + n <= w
  BY FieldIs
<1> DEFINE o == operands(prev, new)
           all == merge_e164s(prev, new)
<1>2. o.a_size = z /\ o.a.start = s /\ o.b.start = s /\ z \in {0, n}
  BY <1>1
<1>3. all = [i \in 1 .. n |-> takes(o, i - 1)]
  BY <1>1 DEF merge_e164s
<1>4. \A i \in 1 .. n : takes(o, i - 1) = s + i - 1 /\ reads(o, i - 1) = {s + (i - 1), s + (i - 1) - z}
  BY <1>1, <1>2 DEF takes, reads
<1> HIDE DEF o
<1>5. DOMAIN all = 1 .. n /\ \A i \in 1 .. n : all[i] = s + i - 1
  BY <1>3, <1>4
<1> HIDE DEF all
<1>6. {all[i] : i \in DOMAIN all} = s .. s + n - 1
  <2>1. ASSUME NEW x \in s .. s + n - 1 PROVE \E i \in 1 .. n : x = s + i - 1
    <3>1. x - s + 1 \in 1 .. n /\ x = s + (x - s + 1) - 1
      BY <1>1
    <3> QED BY <3>1
  <2>2. \A i \in 1 .. n : s + i - 1 \in s .. s + n - 1
    BY <1>1
  <2>3. \A i \in 1 .. n : all[i] \in s .. s + n - 1
    BY <2>2, <1>5
  <2>4. \A x \in s .. s + n - 1 : \E i \in 1 .. n : x = all[i]
    BY <2>1, <1>5
  <2>5. DOMAIN all = 1 .. n
    BY <1>5
  <2> QED BY <2>3, <2>4, <2>5, Zenon
<1>7. \A i, j \in DOMAIN all : all[i] = all[j] => i = j
  BY <1>1, <1>5
<1>8. ASSUME NEW i \in DOMAIN all PROVE reads(o, i - 1) \subseteq least_read(prev, new) .. w - 1
  <2>1. i \in 1 .. n /\ reads(o, i - 1) = {s + (i - 1), s + (i - 1) - z}
    BY <1>4, <1>5
  <2>2. PICK y \in Int : y = least_read(prev, new) /\ y = IF z = 0 THEN 0 ELSE s - n
    BY <1>1
  <2>3. s + (i - 1) \in y .. w - 1 /\ s + (i - 1) - z \in y .. w - 1
    BY <2>1, <2>2, <1>1, <1>2
  <2> QED BY <2>1, <2>2, <2>3
<1>9. Addresses(f) = s .. s + n - 1
  BY <1>1, FieldIs
<1> QED BY <1>1, <1>6, <1>7, <1>8, <1>9 DEF Merged, all, o

(* Two fields: the one that is first in the workspace is read first. *)
LEMMA TwoMerged ==
    ASSUME NEW f \in E164Fields, NEW g \in E164Fields, f.start + f.size <= g.start,
           NEW prev, NEW new, ~EmptyPrevFirst(prev, new),
           operands(prev, new) = [a_size |-> f.size, a |-> f, b |-> g],
           num_e164s(prev, new) = f.size + g.size,
           Addresses(prev) \cup Addresses(new) = Addresses(f) \cup Addresses(g)
    PROVE  Merged(prev, new)
<1>1. PICK s, n, w \in Nat : s = f.start /\ n = f.size /\ w = WORKSPACE_SIZE /\ s + n <= w
  BY FieldIs
<1>2. PICK t, m \in Nat : t = g.start /\ m = g.size /\ t + m <= w
  BY <1>1, FieldIs
<1>3. Addresses(f) = s .. s + n - 1 /\ Addresses(g) = t .. t + m - 1
  BY <1>1, <1>2, FieldIs
<1>4. s + n <= t /\ least_read(prev, new) = 0
  BY <1>1, <1>2 DEF least_read
<1> DEFINE o == operands(prev, new)
           all == merge_e164s(prev, new)
<1>5. o.a_size = n /\ o.a.start = s /\ o.b.start = t
  BY <1>1, <1>2
<1>6. all = [i \in 1 .. n + m |-> takes(o, i - 1)]
  BY <1>1, <1>2 DEF merge_e164s
<1>7. \A i \in 1 .. n + m :
         /\ takes(o, i - 1) = IF i - 1 < n THEN s + (i - 1) ELSE t + (i - 1) - n
         /\ reads(o, i - 1) = {s + (i - 1), t + (i - 1) - n}
  BY <1>5 DEF takes, reads
<1> HIDE DEF o
<1>8. DOMAIN all = 1 .. n + m /\ \A i \in 1 .. n + m : all[i] = IF i - 1 < n THEN s + (i - 1) ELSE t + (i - 1) - n
  BY <1>6, <1>7
<1> HIDE DEF all
<1>9. {all[i] : i \in DOMAIN all} = (s .. s + n - 1) \cup (t .. t + m - 1)
  <2>1. ASSUME NEW x \in s .. s + n - 1 PROVE \E i \in 1 .. n + m : x = all[i]
    <3>1. x - s + 1 \in 1 .. n + m /\ (x - s + 1) - 1 < n /\ x = s + ((x - s + 1) - 1)
      BY <1>1, <1>2
    <3> QED BY <3>1, <1>8
  <2>2. ASSUME NEW x \in t .. t + m - 1 PROVE \E i \in 1 .. n + m : x = all[i]
    <3>1. x - t + n + 1 \in 1 .. n + m /\ ~((x - t + n + 1) - 1 < n) /\ x = t + ((x - t + n + 1) - 1) - n
      BY <1>1, <1>2
    <3> QED BY <3>1, <1>8
  <2>3. ASSUME NEW i \in 1 .. n + m PROVE all[i] \in (s .. s + n - 1) \cup (t .. t + m - 1)
    <3>1. CASE i - 1 < n
      <4>1. all[i] = s + (i - 1)
        BY <3>1, <1>8
      <4>2. s + (i - 1) \in s .. s + n - 1
        BY <3>1
      <4> QED BY <4>1, <4>2
    <3>2. CASE ~(i - 1 < n)
      <4>1. all[i] = t + (i - 1) - n
        BY <3>2, <1>8
      <4>2. t + (i - 1) - n \in t .. t + m - 1
        BY <3>2
      <4> QED BY <4>1, <4>2
    <3> QED BY <3>1, <3>2
  <2>4. DOMAIN all = 1 .. n + m
    BY <1>8
  <2> DEFINE A == s .. s + n - 1
             B == t .. t + m - 1
  <2>5. \A x \in A : \E i \in DOMAIN all : x = all[i]
    BY <2>1, <2>4
  <2>6. \A x \in B : \E i \in DOMAIN all : x = all[i]
    BY <2>2, <2>4
  <2>7. \A i \in DOMAIN all : all[i] \in A \cup B
    BY <2>3, <2>4
  <2> HIDE DEF A, B
  <2>8. {all[i] : i \in DOMAIN all} = A \cup B
    BY <2>5, <2>6, <2>7, Zenon
  <2> QED BY <2>8 DEF A, B
<1>10. ASSUME NEW i \in DOMAIN all, NEW j \in DOMAIN all, all[i] = all[j] PROVE i = j
  <2>1. i \in 1 .. n + m /\ j \in 1 .. n + m
    BY <1>8
  <2>2. (IF i - 1 < n THEN s + (i - 1) ELSE t + (i - 1) - n)
           = IF j - 1 < n THEN s + (j - 1) ELSE t + (j - 1) - n
    BY <1>8, <1>10, <2>1
  <2> QED BY <1>1, <1>2, <1>4, <2>1, <2>2
<1>11. ASSUME NEW i \in DOMAIN all PROVE reads(o, i - 1) \subseteq 0 .. w - 1
  <2>1. i \in 1 .. n + m
    BY <1>8
  <2>2. s + (i - 1) \in 0 .. w - 1 /\ t + (i - 1) - n \in 0 .. w - 1
    BY <1>1, <1>2, <1>4, <2>1
  <2>3. reads(o, i - 1) = {s + (i - 1), t + (i - 1) - n}
    BY <1>7, <2>1
  <2> QED BY <2>2, <2>3
<1> QED BY <1>1, <1>3, <1>4, <1>9, <1>10, <1>11 DEF Merged, all, o

(* Whichever of the fields are there, and in whichever order. *)
LEMMA FieldsMerge ==
    ASSUME NEW prev \in E164Fields \cup {NULL}, NEW new \in E164Fields \cup {NULL},
           Apart(prev, new), has_numbers(prev, new)
    PROVE  Merged(prev, new)
<1>1. CASE prev = NULL /\ new = NULL
  BY <1>1 DEF has_numbers, num_e164s, field_size
<1>2. CASE prev = NULL /\ new # NULL
  <2>1. new \in E164Fields
    BY <1>2
  <2>2. operands(prev, new) = [a_size |-> 0, a |-> new, b |-> new] /\ least_read(prev, new) = 0
    BY <1>2 DEF operands, least_read, EmptyPrevFirst
  <2>3. num_e164s(prev, new) = new.size /\ Addresses(prev) \cup Addresses(new) = Addresses(new)
    <3>1. field_size(prev) = 0 /\ Addresses(prev) = {}
      BY <1>2 DEF field_size, Addresses
    <3>2. field_size(new) = new.size /\ new.size \in Nat
      BY <2>1, FieldIs
    <3> QED BY <3>1, <3>2 DEF num_e164s
  <2> QED BY <2>1, <2>2, <2>3, OneMerged
<1>3. CASE prev # NULL /\ new = NULL
  <2>1. prev \in E164Fields
    BY <1>3
  <2>2. operands(prev, new) = [a_size |-> 0, a |-> prev, b |-> prev] /\ least_read(prev, new) = 0
    BY <1>3 DEF operands, least_read, EmptyPrevFirst
  <2>3. num_e164s(prev, new) = prev.size /\ Addresses(prev) \cup Addresses(new) = Addresses(prev)
    <3>1. field_size(new) = 0 /\ Addresses(new) = {}
      BY <1>3 DEF field_size, Addresses
    <3>2. field_size(prev) = prev.size /\ prev.size \in Nat
      BY <2>1, FieldIs
    <3> QED BY <3>1, <3>2 DEF num_e164s
  <2> QED BY <2>1, <2>2, <2>3, OneMerged
<1>4. CASE prev # NULL /\ new # NULL
  <2>1. prev \in E164Fields /\ new \in E164Fields
    BY <1>4
  <2>2. /\ field_size(prev) = prev.size /\ field_size(new) = new.size /\ prev.size \in Nat /\ new.size \in Nat
        /\ prev.start \in Nat /\ new.start \in Nat
    BY <2>1, FieldIs
  <2>3. num_e164s(prev, new) = prev.size + new.size /\ num_e164s(prev, new) = new.size + prev.size
    BY <2>2 DEF num_e164s
  <2>4. prev.start + prev.size <= new.start \/ new.start + new.size <= prev.start
    BY <1>4 DEF Apart
  <2>5. CASE prev.start < new.start
    <3>1. operands(prev, new) = [a_size |-> prev.size, a |-> prev, b |-> new] /\ ~EmptyPrevFirst(prev, new)
      BY <1>4, <2>2, <2>5 DEF operands, EmptyPrevFirst
    <3>2. prev.start + prev.size <= new.start
      BY <2>2, <2>4, <2>5
    <3> QED BY <3>1, <3>2, <2>1, <2>3, TwoMerged
  <2>6. CASE ~(prev.start < new.start)
    <3>1. operands(prev, new) = [a_size |-> new.size, a |-> new, b |-> prev]
      BY <1>4, <2>6 DEF operands
    <3>2. CASE EmptyPrevFirst(prev, new)
      <4>1. prev.size = 0 /\ prev.start = new.start /\ least_read(prev, new) = new.start - new.size
        BY <3>2 DEF EmptyPrevFirst, least_read
      <4>2. num_e164s(prev, new) = new.size /\ new.size # 0
        BY <4>1, <2>2, <2>3 DEF has_numbers
      <4>3. Addresses(prev) \cup Addresses(new) = Addresses(new)
        <5>1. Addresses(prev) = {}
          <6>1. Addresses(prev) = prev.start .. prev.start + 0 - 1
            BY <4>1, <2>1, FieldIs
          <6> QED BY <6>1, <2>2
        <5> QED BY <5>1
      <4> QED BY <3>1, <4>1, <4>2, <4>3, <2>1, OneMerged
    <3>3. CASE ~EmptyPrevFirst(prev, new)
      <4>1. new.start + new.size <= prev.start
        BY <3>3, <1>4, <2>2, <2>4, <2>6 DEF EmptyPrevFirst
      <4>2. Addresses(prev) \cup Addresses(new) = Addresses(new) \cup Addresses(prev)
        OBVIOUS
      <4> QED BY <3>1, <3>3, <4>1, <4>2, <2>1, <2>3, TwoMerged
    <3> QED BY <3>2, <3>3
  <2> QED BY <2>5, <2>6
<1> QED BY <1>1, <1>2, <1>3, <1>4

(* enclave_run: for a workspace of any size, the previous and the new       *)
(* numbers of a request become one array that has each of them once, and no *)
(* read leaves the workspace, unless the field of previous numbers is empty *)
(* and right before the new ones: then none is below these by more than     *)
(* their size.                                                              *)
THEOREM MergeIsComplete == []MergeComplete
<1>1. MergeComplete
  <2>1. SUFFICES ASSUME job \in MergeJobs, NEW new \in E164Fields \cup {NULL},
                        Apart(job.prev, new), has_numbers(job.prev, new)
                 PROVE  Merged(job.prev, new)
    BY DEF MergeComplete
  <2>2. job.prev \in E164Fields \cup {NULL}
    BY <2>1 DEF MergeJobs
  <2> QED BY <2>1, <2>2, FieldsMerge
<1> QED BY <1>1, PTL

(***************************************************************************)
(* Messages of Noise packets, for packets and messages of any size.  The   *)
(* ciphertext is described byte by byte (CipherByte).  EncryptIs says that *)
(* the loop of noise_encrypt_message makes it; Decrypted, that after k     *)
(* packets the buffer starts with the data of k packets and has the        *)
(* ciphertext from packet k on, for the move of a packet never reaches     *)
(* what is still to be read; Refused, that a packet which does not start   *)
(* with the nonce whose turn it is ends the loop.                          *)
(***************************************************************************)
(* Division with remainder. *)
LEMMA DivMod ==
    ASSUME NEW x \in Nat, NEW d \in Nat \ {0}
    PROVE  \E q, r \in Nat : q = x \div d /\ r = x % d /\ r < d /\ x = d * q + r
<1>1. PICK q \in Nat : q = x \div d
  OBVIOUS
<1>2. PICK r \in Nat : r = x % d /\ r < d
  OBVIOUS
<1>3. r = x - d * q
  <2>1. x % d = x - d * (x \div d)
    OBVIOUS
  <2> QED BY <1>1, <1>2, <2>1
<1>4. x = d * q + r
  BY <1>3
<1> QED BY <1>1, <1>2, <1>4

(* Quotient and remainder are determined. *)
LEMMA DivUnique ==
    ASSUME NEW d \in Nat \ {0}, NEW q \in Int, NEW p \in Int, NEW r \in Nat, NEW s \in Nat,
           r < d, s < d, d * q + r = d * p + s
    PROVE  q = p /\ r = s
<1>1. ASSUME NEW a \in Int, NEW b \in Int, NEW t \in Nat, NEW u \in Nat, t < d, u < d,
             d * a + t = d * b + u, a < b
      PROVE  FALSE
  <2>1. b >= a + 1
    BY <1>1
  <2>2. d * b >= d * (a + 1)
    BY <2>1
  <2>3. d * (a + 1) = d * a + d
    OBVIOUS
  <2> QED BY <1>1, <2>2, <2>3
<1>2. ~(q < p) /\ ~(p < q)
  BY <1>1
<1> QED BY <1>2

(* Quotient and remainder are determined by what they add up to. *)
LEMMA DivModIs ==
    ASSUME NEW d \in Nat \ {0}, NEW q \in Nat, NEW r \in Nat, r < d
    PROVE  /\ (d * q + r) \div d = q
           /\ (d * q + r) % d = r
<1> DEFINE x == d * q + r
<1>1. x \in Nat
  OBVIOUS
<1>2. x = d * q + r
  OBVIOUS
<1> HIDE DEF x
<1>3. PICK p, s \in Nat : p = x \div d /\ s = x % d /\ s < d /\ x = d * p + s
  BY <1>1, DivMod
<1>4. x \div d = q /\ x % d = r
  BY <1>2, <1>3, DivUnique
<1> QED BY <1>4 DEF x

(* The least element of a set of numbers. *)
LEMMA LeastNumber ==
    ASSUME NEW T \in SUBSET Nat, T # {}
    PROVE  \E x \in T : \A y \in T : x <= y
<1> DEFINE R == OpToRel(<, Nat)
<1>1. IsWellFoundedOn(R, Nat)
  BY NatLessThanWellFounded
<1>2. PICK x \in T : \A y \in T : ~(<<y, x>> \in R)
  <2> HIDE DEF R
  <2> QED BY <1>1, WFMin
<1>3. R = {ss \in Nat \X Nat : ss[1] < ss[2]}
  BY DEF OpToRel
<1>4. \A y \in T : x <= y
  <2> HIDE DEF R
  <2> SUFFICES ASSUME NEW y \in T, ~(x <= y) PROVE FALSE
    OBVIOUS
  <2>1. x \in Nat /\ y \in Nat /\ y < x
    OBVIOUS
  <2>2. <<y, x>> \in R
    BY <2>1, <1>3
  <2> QED BY <2>2, <1>2
<1> QED BY <1>4

(* Induction on the naturals, for the members of a set. *)
LEMMA SetInduction ==
    ASSUME NEW S, 0 \in S, \A n \in Nat : n \in S => n + 1 \in S
    PROVE  \A n \in Nat : n \in S
<1> DEFINE T == Nat \ S
<1>1. SUFFICES ASSUME T # {} PROVE FALSE
  OBVIOUS
<1>2. PICK x \in T : \A y \in T : x <= y
  BY <1>1, LeastNumber
<1>3. x \in Nat /\ x # 0 /\ x \notin S
  OBVIOUS
<1>4. x - 1 \in Nat /\ x - 1 \in S
  BY <1>2, <1>3
<1> QED BY <1>3, <1>4

(* Products grow with their factors. *)
LEMMA TimesGrows ==
    ASSUME NEW a \in Nat, NEW b \in Nat, NEW c \in Nat, a <= b
    PROVE  a * c \in Nat /\ b * c \in Nat /\ a * c <= b * c /\ c * a <= c * b
<1>1. PICK e \in Nat : b = a + e
  <2>1. b - a \in Nat /\ b = a + (b - a)
    OBVIOUS
  <2> QED BY <2>1
<1>2. (a + e) * c = a * c + e * c /\ e * c \in Nat /\ a * c \in Nat
  OBVIOUS
<1>3. c * (a + e) = c * a + c * e /\ c * e \in Nat /\ c * a \in Nat
  OBVIOUS
<1> QED BY <1>1, <1>2, <1>3

(* s is a sequence of length n. *)
IsSeq(s, n) == s = [i \in 1 .. n |-> s[i]]

(* Sequences as functions. *)
LEMMA SeqIs ==
    ASSUME NEW n \in Nat, NEW s, IsSeq(s, n)
    PROVE  Len(s) = n /\ DOMAIN s = 1 .. n /\ \A S : (\A i \in 1 .. n : s[i] \in S) => s \in Seq(S)
<1>1. s = [i \in 1 .. n |-> s[i]]
  BY DEF IsSeq
<1>2. DOMAIN s = 1 .. n
  BY <1>1
<1>3. ASSUME NEW S, \A i \in 1 .. n : s[i] \in S PROVE s \in Seq(S) /\ Len(s) = n
  <2>1. s \in [1 .. n -> S]
    BY <1>1, <1>3
  <2> QED BY <2>1
<1>4. Len(s) = n
  <2>1. \A i \in 1 .. n : s[i] \in {s[j] : j \in 1 .. n}
    OBVIOUS
  <2> QED BY <2>1, <1>3
<1> QED BY <1>2, <1>3, <1>4

(* A part of a sequence, or of any function. *)
LEMMA PartIs ==
    ASSUME NEW s, NEW m \in Nat, NEW l \in Nat
    PROVE  /\ IsSeq(SubSeq(s, m + 1, m + l), l) /\ Len(SubSeq(s, m + 1, m + l)) = l
           /\ DOMAIN SubSeq(s, m + 1, m + l) = 1 .. l
           /\ \A j \in 1 .. l : SubSeq(s, m + 1, m + l)[j] = s[m + j]
<1> DEFINE S == {s[i] : i \in m + 1 .. m + l}
<1>1. m + 1 \in Int /\ m + l \in Int
  OBVIOUS
<1>2. \A i \in m + 1 .. m + l : s[i] \in S
  OBVIOUS
<1> HIDE DEF S
<1>3. PICK p : p = SubSeq(s, m + 1, m + l)
  OBVIOUS
<1>4. /\ p \in Seq(S) /\ Len(p) = (IF m + 1 <= m + l THEN m + l - (m + 1) + 1 ELSE 0)
      /\ \A i \in 1 .. m + l - (m + 1) + 1 : p[i] = s[m + 1 + i - 1]
  BY <1>1, <1>2, <1>3, SubSeqProperties
<1>5. Len(p) = l
  BY <1>4
<1>6. \A j \in 1 .. l : p[j] = s[m + j]
  <2>1. m + l - (m + 1) + 1 = l /\ \A j \in 1 .. l : m + 1 + j - 1 = m + j
    OBVIOUS
  <2> QED BY <2>1, <1>4
<1>7. p = [i \in 1 .. l |-> p[i]] /\ DOMAIN p = 1 .. l
  <2>1. p \in [1 .. Len(p) -> S]
    BY <1>4
  <2> QED BY <2>1, <1>5
<1> QED BY <1>3, <1>5, <1>6, <1>7 DEF IsSeq

(* u is the part of s of l elements behind its first m. *)
IsPart(u, s, m, l) == IsSeq(u, l) /\ Len(u) = l /\ \A j \in 1 .. l : u[j] = s[m + j]

(* SubSeq gives that part, as one fact. *)
LEMMA PartOf ==
    ASSUME NEW s, NEW m \in Nat, NEW l \in Nat
    PROVE  IsPart(SubSeq(s, m + 1, m + l), s, m, l)
  BY PartIs DEF IsPart

(* Sequences joined. *)
Join(s, t) == s \o t

(* The length and the elements of joined sequences. *)
LEMMA JoinIs ==
    ASSUME NEW a \in Nat, NEW b \in Nat, NEW s, NEW t, IsSeq(s, a), IsSeq(t, b)
    PROVE  /\ IsSeq(Join(s, t), a + b)
           /\ \A x \in 1 .. a + b : Join(s, t)[x] = IF x <= a THEN s[x] ELSE t[x - a]
<1> DEFINE S == {s[i] : i \in 1 .. a} \cup {t[i] : i \in 1 .. b}
<1>1. (\A i \in 1 .. a : s[i] \in S) /\ (\A i \in 1 .. b : t[i] \in S)
  OBVIOUS
<1> HIDE DEF S
<1>2. s \in Seq(S) /\ Len(s) = a
  BY <1>1, SeqIs
<1>3. t \in Seq(S) /\ Len(t) = b
  BY <1>1, SeqIs
<1>4. PICK u : u = s \o t
  OBVIOUS
<1>5. /\ u \in Seq(S) /\ Len(u) = Len(s) + Len(t)
      /\ \A i \in 1 .. Len(s) + Len(t) : u[i] = IF i <= Len(s) THEN s[i] ELSE t[i - Len(s)]
  BY <1>2, <1>3, <1>4, ConcatProperties
<1>6. u = [i \in 1 .. a + b |-> u[i]]
  <2>1. u \in [1 .. Len(u) -> S]
    BY <1>5
  <2> QED BY <2>1, <1>2, <1>3, <1>5
<1>7. \A i \in 1 .. a + b : u[i] = IF i <= a THEN s[i] ELSE t[i - a]
  BY <1>2, <1>3, <1>5
<1> QED BY <1>4, <1>6, <1>7 DEF IsSeq, Join

(* The loops go on while there is something left. *)
LEMMA PacketsIs ==
    ASSUME NEW size \in Nat, NEW max \in Nat \ {0}
    PROVE  /\ num_packets(size, max) \in Nat /\ size <= num_packets(size, max) * max
           /\ num_packets(size, max) = 0 <=> size = 0
           /\ \A n \in 1 .. num_packets(size, max) : (n - 1) * max < size
<1>1. PICK x \in Nat : x = size + max - 1
  OBVIOUS
<1>2. PICK n, r \in Nat : n = x \div max /\ r = x % max /\ r < max /\ x = max * n + r
  BY DivMod
<1>3. num_packets(size, max) = n
  BY <1>1, <1>2 DEF num_packets
<1>4. PICK a \in Nat : a = n * max /\ max * n = a
  OBVIOUS
<1>5. size <= a /\ a < size + max
  BY <1>1, <1>2, <1>4
<1>6. ASSUME NEW k \in 1 .. n PROVE (k - 1) * max < size
  <2>1. PICK j \in Nat : j = k - 1 /\ j + 1 <= n
    OBVIOUS
  <2>2. (j + 1) * max <= n * max
    <3>1. j + 1 \in Nat
      OBVIOUS
    <3> QED BY <2>1, <3>1, TimesGrows
  <2>3. (j + 1) * max = j * max + max /\ j * max \in Nat
    OBVIOUS
  <2> QED BY <2>1, <2>2, <2>3, <1>4, <1>5
<1>7. n = 0 <=> size = 0
  <2>1. n = 0 => a = 0
    BY <1>4
  <2>2. ASSUME n # 0 PROVE size # 0
    <3>1. n \in 1 .. n
      BY <2>2
    <3>2. (n - 1) * max < size /\ n - 1 \in Nat
      BY <3>1, <1>6
    <3>3. (n - 1) * max \in Nat
      BY <3>2
    <3> QED BY <3>2, <3>3
  <2> QED BY <2>1, <2>2, <1>5
<1> QED BY <1>3, <1>4, <1>5, <1>6, <1>7

(* The number of packets is the only one that covers the size and no more. *)
LEMMA PacketsAre ==
    ASSUME NEW size \in Nat, NEW max \in Nat \ {0}, NEW n \in Nat, n > 0,
           size <= n * max, (n - 1) * max < size
    PROVE  num_packets(size, max) = n
<1>1. PICK k \in Nat : k = num_packets(size, max) /\ size <= k * max /\ (k = 0 <=> size = 0)
                       /\ \A i \in 1 .. k : (i - 1) * max < size
  BY PacketsIs
<1>2. PICK i \in Nat : i = n - 1 /\ i * max < size /\ i * max \in Nat
  <2>1. n - 1 \in Nat
    OBVIOUS
  <2>2. (n - 1) * max \in Nat
    BY <2>1
  <2> QED BY <2>1, <2>2
<1>3. k > 0
  BY <1>1, <1>2
<1>4. ~(k < n)
  <2>1. SUFFICES ASSUME k <= i PROVE FALSE
    BY <1>2
  <2>2. k * max <= i * max
    BY <2>1, TimesGrows
  <2>3. k * max \in Nat
    OBVIOUS
  <2> QED BY <2>2, <2>3, <1>1, <1>2
<1>5. ~(n < k)
  <2>1. SUFFICES ASSUME n < k PROVE FALSE
    OBVIOUS
  <2>2. n + 1 \in 1 .. k /\ (n + 1) - 1 = n
    BY <2>1
  <2>3. n * max < size /\ n * max \in Nat
    BY <2>2, <1>1
  <2> QED BY <2>3
<1> QED BY <1>1, <1>4, <1>5

(* The sizes of a packet, its data and its MAC. *)
LEMMA NoiseSizes ==
    \E p, m, d \in Nat \ {0} : /\ p = NOISE_MAX_PACKET_SIZE /\ m = MAC_SIZE /\ d = NOISE_MAX_DATA_SIZE
                               /\ p = d + m /\ d = p - m
<1>1. NOISE_MAX_DATA_SIZE = NOISE_MAX_PACKET_SIZE - MAC_SIZE
  BY DEF NOISE_MAX_DATA_SIZE
<1>2. NOISE_MAX_DATA_SIZE \in Nat \ {0} /\ NOISE_MAX_PACKET_SIZE = NOISE_MAX_DATA_SIZE + MAC_SIZE
      /\ NOISE_MAX_PACKET_SIZE \in Nat \ {0} /\ MAC_SIZE \in Nat \ {0}
  BY <1>1, NoiseAssumption
<1> QED BY <1>1, <1>2

(* A chunk is full, but for the last one, which ends where the whole does. *)
LEMMA ChunkIs ==
    ASSUME NEW size \in Nat, NEW max \in Nat \ {0}, NEW k \in Nat, k < num_packets(size, max)
    PROVE  /\ k * max \in Nat
           /\ chunk(k * max, size, max) \in Nat /\ chunk(k * max, size, max) >= 1
           /\ chunk(k * max, size, max) <= max /\ k * max + chunk(k * max, size, max) <= size
           /\ k + 1 < num_packets(size, max) => chunk(k * max, size, max) = max
           /\ k + 1 = num_packets(size, max) => k * max + chunk(k * max, size, max) = size
<1>1. PICK n \in Nat : n = num_packets(size, max) /\ size <= n * max
                       /\ \A i \in 1 .. n : (i - 1) * max < size
  BY PacketsIs
<1>2. PICK a \in Nat : a = k * max
  OBVIOUS
<1>3. a < size
  <2>1. k + 1 \in 1 .. n /\ (k + 1) - 1 = k
    BY <1>1
  <2> QED BY <2>1, <1>1, <1>2
<1>4. (k + 1) * max = a + max
  BY <1>2
<1>5. PICK c : c = chunk(a, size, max)
  OBVIOUS
<1>6. c = IF a + max > size THEN size - a ELSE max
  BY <1>5 DEF chunk
<1>7. c \in Nat /\ c >= 1 /\ c <= max /\ a + c <= size
  BY <1>3, <1>6
<1>8. ASSUME k + 1 < n PROVE c = max
  <2>1. k + 2 \in 1 .. n /\ (k + 2) - 1 = k + 1
    BY <1>8
  <2>2. (k + 1) * max < size
    BY <2>1, <1>1
  <2> QED BY <2>2, <1>4, <1>6
<1>9. ASSUME k + 1 = n PROVE a + c = size
  <2>1. size <= a + max
    BY <1>1, <1>4, <1>9
  <2> QED BY <2>1, <1>6, <1>7
<1> QED BY <1>1, <1>2, <1>5, <1>7, <1>8, <1>9

(* The ciphertext has the packets of the plaintext. *)
LEMMA SameChunks ==
    ASSUME NEW L \in Nat, NEW n \in Nat, n = num_packets(L, NOISE_MAX_DATA_SIZE),
           NEW T \in Nat, T = L + MAC_SIZE * n
    PROVE  /\ num_packets(T, NOISE_MAX_PACKET_SIZE) = n
           /\ \A k \in Nat : k < n => chunk(k * NOISE_MAX_PACKET_SIZE, T, NOISE_MAX_PACKET_SIZE)
                                        = chunk(k * NOISE_MAX_DATA_SIZE, L, NOISE_MAX_DATA_SIZE) + MAC_SIZE
<1>1. PICK p, m, d \in Nat \ {0} : p = NOISE_MAX_PACKET_SIZE /\ m = MAC_SIZE /\ d = NOISE_MAX_DATA_SIZE
                                   /\ p = d + m
  BY NoiseSizes
<1>2. n = num_packets(L, d) /\ T = L + m * n
  BY <1>1
<1>3. L <= n * d /\ (n = 0 <=> L = 0) /\ \A i \in 1 .. n : (i - 1) * d < L
  BY <1>2, PacketsIs
<1>4. num_packets(T, p) = n
  <2>1. CASE n = 0
    <3>1. T = 0
      BY <2>1, <1>2, <1>3
    <3> QED BY <2>1, <3>1, PacketsIs
  <2>2. CASE n # 0
    <3>1. PICK k \in Nat : n = k + 1 /\ k = n - 1
      BY <2>2
    <3>2. k * d < L /\ k * d \in Nat
      <4>1. n \in 1 .. n
        BY <2>2
      <4> QED BY <4>1, <3>1, <1>3
    <3>3. /\ n * (d + m) = n * d + m * n /\ k * (d + m) = k * d + m * k /\ m * (k + 1) = m * k + m
          /\ n * d \in Nat /\ m * n \in Nat /\ m * k \in Nat
      OBVIOUS
    <3>4. T <= n * p
      <4>1. n * p = n * d + m * n
        BY <3>3, <1>1
      <4> QED BY <4>1, <3>3, <1>2, <1>3
    <3>5. k * p < T
      <4>1. k * p = k * d + m * k /\ m * n = m * k + m
        BY <3>1, <3>3, <1>1
      <4> QED BY <4>1, <3>2, <3>3, <1>2
    <3> QED BY <2>2, <3>1, <3>4, <3>5, PacketsAre
  <2> QED BY <2>1, <2>2
<1>5. ASSUME NEW k \in Nat, k < n PROVE chunk(k * p, T, p) = chunk(k * d, L, d) + m
  <2>5. k < num_packets(L, d) /\ k < num_packets(T, p)
    BY <1>2, <1>4, <1>5
  <2>6. /\ k * d \in Nat /\ chunk(k * d, L, d) \in Nat
        /\ k + 1 < num_packets(L, d) => chunk(k * d, L, d) = d
        /\ k + 1 = num_packets(L, d) => k * d + chunk(k * d, L, d) = L
    BY <2>5, ChunkIs
  <2>7. /\ k * p \in Nat /\ chunk(k * p, T, p) \in Nat
        /\ k + 1 < num_packets(T, p) => chunk(k * p, T, p) = p
        /\ k + 1 = num_packets(T, p) => k * p + chunk(k * p, T, p) = T
    BY <2>5, ChunkIs
  <2>1. PICK a, c \in Nat : /\ a = k * d /\ c = chunk(k * d, L, d) /\ (k + 1 < n => c = d)
                            /\ (k + 1 = n => a + c = L)
    BY <1>2, <2>6
  <2>2. PICK b, e \in Nat : /\ b = k * p /\ e = chunk(k * p, T, p) /\ (k + 1 < n => e = p)
                            /\ (k + 1 = n => b + e = T)
    BY <1>4, <2>7
  <2>3. CASE k + 1 < n
    BY <2>1, <2>2, <2>3, <1>1
  <2>4. CASE k + 1 = n
    <3>1. k * (d + m) = k * d + m * k /\ m * (k + 1) = m * k + m /\ m * k \in Nat
      OBVIOUS
    <3>2. PICK g \in Nat : g = m * k /\ b = a + g /\ m * n = g + m
      BY <3>1, <2>1, <2>2, <2>4, <1>1
    <3>3. b + e = T /\ a + c = L /\ T = L + (g + m)
      BY <2>1, <2>2, <2>4, <3>2, <1>2
    <3>4. e = c + m
      BY <3>2, <3>3
    <3> QED BY <3>4, <2>1, <2>2
  <2> QED BY <2>3, <2>4, <1>5
<1> QED BY <1>1, <1>4, <1>5

(* The bytes of the ciphertext of a message: the packet that byte x is in,  *)
(* its place there, and what it holds.                                      *)
DataOf(text, k) ==
    SubSeq(text, k * NOISE_MAX_DATA_SIZE + 1,
           k * NOISE_MAX_DATA_SIZE + chunk(k * NOISE_MAX_DATA_SIZE, Len(text), NOISE_MAX_DATA_SIZE))

PacketByte(text, nonce, k, j) ==
    [nonce |-> nonce + k, at |-> j, len |-> Len(DataOf(text, k)),
     byte |-> IF j <= Len(DataOf(text, k)) THEN DataOf(text, k)[j] ELSE DataOf(text, k)]

CipherByte(text, nonce, x) ==
    PacketByte(text, nonce, (x - 1) \div NOISE_MAX_PACKET_SIZE, ((x - 1) % NOISE_MAX_PACKET_SIZE) + 1)

(* Where the byte j of packet k is. *)
LEMMA ByteIs ==
    ASSUME NEW text, NEW nonce, NEW k \in Nat, NEW j \in 1 .. NOISE_MAX_PACKET_SIZE
    PROVE  CipherByte(text, nonce, k * NOISE_MAX_PACKET_SIZE + j) = PacketByte(text, nonce, k, j)
<1>1. PICK p \in Nat \ {0} : p = NOISE_MAX_PACKET_SIZE
  BY NoiseSizes
<1>2. PICK i \in Nat : j = i + 1 /\ i < p
  <2>1. j - 1 \in Nat /\ j = (j - 1) + 1 /\ j - 1 < p
    BY <1>1
  <2> QED BY <2>1
<1>3. (k * p + j) - 1 = p * k + i
  <2>1. k * p = p * k /\ p * k \in Nat
    OBVIOUS
  <2> QED BY <2>1, <1>2
<1>4. (p * k + i) \div p = k /\ (p * k + i) % p = i
  BY <1>2, DivModIs
<1>5. ((k * p + j) - 1) \div p = k /\ (((k * p + j) - 1) % p) + 1 = j
  BY <1>2, <1>3, <1>4
<1> QED BY <1>1, <1>5 DEF CipherByte

-----------------------------------------------------------------------------
(* noise_encrypt_message makes the packets, or fails for want of room. *)
LEMMA EncryptIs ==
    ASSUME NEW text \in Seq(Nat), NEW nonce \in Nat, NEW room \in Nat
    PROVE  LET r == noise_encrypt_message(nonce, text, room)
           IN  /\ ciphertext_size(text) \in Nat
               /\ r.ok <=> room >= ciphertext_size(text)
               /\ r.ok => r.out = [x \in 1 .. ciphertext_size(text) |-> CipherByte(text, nonce, x)]
<1> DEFINE c0 == [ok |-> TRUE, out |-> << >>]
           Def(v, n) == LET d == v
                            off == (n - 1) * NOISE_MAX_DATA_SIZE
                            len == chunk(off, Len(text), NOISE_MAX_DATA_SIZE)
                        IN  IF ~d.ok \/ Len(d.out) + len + MAC_SIZE > room
                            THEN [ok |-> FALSE, out |-> d.out]
                            ELSE [ok |-> TRUE,
                                  out |-> d.out \o cipherstate_encrypt(nonce + n - 1,
                                                   SubSeq(text, off + 1, off + len))]
           N == num_packets(Len(text), NOISE_MAX_DATA_SIZE)
           done[n \in 0 .. num_packets(Len(text), NOISE_MAX_DATA_SIZE)] ==
            IF n = 0 THEN [ok |-> TRUE, out |-> << >>]
            ELSE LET d   == done[n - 1]
                     off == (n - 1) * NOISE_MAX_DATA_SIZE
                     len == chunk(off, Len(text), NOISE_MAX_DATA_SIZE)
                 IN  IF ~d.ok \/ Len(d.out) + len + MAC_SIZE > room
                     THEN [ok |-> FALSE, out |-> d.out]
                     ELSE [ok |-> TRUE,
                           out |-> d.out \o cipherstate_encrypt(nonce + n - 1,
                                                   SubSeq(text, off + 1, off + len))]
<1>1. PICK p, m, d \in Nat \ {0} : p = NOISE_MAX_PACKET_SIZE /\ m = MAC_SIZE /\ d = NOISE_MAX_DATA_SIZE
                                   /\ p = d + m
  BY NoiseSizes
<1>2. PICK L \in Nat : L = Len(text)
  OBVIOUS
<1>3. N \in Nat /\ (N = 0 <=> L = 0)
  BY <1>1, <1>2, PacketsIs
<1>4. FiniteNatInductiveDefConclusion(done, c0, Def, 0, N)
  <2>1. FiniteNatInductiveDefHypothesis(done, c0, Def, 0, N)
    BY DEF FiniteNatInductiveDefHypothesis
  <2>2. N \in Nat /\ 0 \in Nat
    BY <1>3
  <2> HIDE DEF done, c0, Def, N
  <2> QED BY <2>1, <2>2, FiniteNatInductiveDef
<1>5. done = [n \in 0 .. N |-> IF n = 0 THEN c0 ELSE Def(done[n - 1], n)]
  BY <1>4 DEF FiniteNatInductiveDefConclusion
<1>6. noise_encrypt_message(nonce, text, room) = done[N]
  BY DEF noise_encrypt_message
<1>7. N = num_packets(L, d)
  BY <1>1, <1>2
<1>8. \A v, n : Def(v, n) =
         IF ~v.ok \/ Len(v.out) + chunk((n - 1) * d, L, d) + m > room
         THEN [ok |-> FALSE, out |-> v.out]
         ELSE [ok |-> TRUE,
               out |-> v.out \o cipherstate_encrypt(nonce + n - 1,
                          SubSeq(text, (n - 1) * d + 1, (n - 1) * d + chunk((n - 1) * d, L, d)))]
  BY <1>1, <1>2
<1> HIDE DEF done, Def, N
<1>9. PICK T \in Nat : T = L + MAC_SIZE * N /\ T = ciphertext_size(text)
  BY <1>1, <1>2, <1>3 DEF ciphertext_size, N
<1>10. /\ num_packets(T, p) = N
       /\ \A k \in Nat : k < N => chunk(k * p, T, p) = chunk(k * d, L, d) + m
  <2>1. N = num_packets(L, NOISE_MAX_DATA_SIZE)
    BY <1>1, <1>7
  <2>2. /\ num_packets(T, NOISE_MAX_PACKET_SIZE) = N
        /\ \A k \in Nat : k < N => chunk(k * NOISE_MAX_PACKET_SIZE, T, NOISE_MAX_PACKET_SIZE)
                                       = chunk(k * NOISE_MAX_DATA_SIZE, L, NOISE_MAX_DATA_SIZE) + MAC_SIZE
    BY <2>1, <1>3, <1>9, SameChunks
  <2> QED BY <2>2, <1>1
<1> DEFINE e(k) == IF k < N THEN k * p ELSE T
           Made(k) == /\ done[k].ok <=> e(k) <= room
                      /\ done[k].ok => done[k].out = [x \in 1 .. e(k) |-> CipherByte(text, nonce, x)]
           S == {k \in Nat : k <= N => Made(k)}
<1>11. 0 \in S
  <2>1. done[0] = c0
    <3>1. 0 \in 0 .. N
      BY <1>3
    <3> HIDE DEF c0
    <3> QED BY <3>1, <1>5, Zenon
  <2>2. e(0) = 0
    <3>1. CASE N = 0
      <4>1. T = 0 + m * 0
        BY <3>1, <1>1, <1>3, <1>9
      <4>2. T = 0
        BY <4>1
      <4> QED BY <3>1, <4>2
    <3>2. CASE N # 0
      <4>1. 0 < N /\ 0 * p = 0
        BY <3>2, <1>3
      <4> QED BY <4>1
    <3> QED BY <3>1, <3>2
  <2>3. done[0].ok = TRUE /\ done[0].out = << >>
    BY <2>1
  <2>4. [x \in 1 .. 0 |-> CipherByte(text, nonce, x)] = << >>
    OBVIOUS
  <2> HIDE DEF e
  <2> QED BY <2>2, <2>3, <2>4
<1>12. ASSUME NEW k \in Nat, k \in S PROVE k + 1 \in S
  <2>1. SUFFICES ASSUME k + 1 <= N PROVE Made(k + 1)
    OBVIOUS
  <2>2. k < N /\ Made(k) /\ e(k) = k * p
    BY <1>3, <1>12, <2>1
  <2>3. PICK a, b \in Nat : a = k * p /\ b = k * d
    OBVIOUS
  <2>4. PICK l \in Nat : l = chunk(k * d, L, d) /\ l >= 1 /\ l <= d /\ b + l <= L
    BY <1>7, <2>2, <2>3, ChunkIs
  <2>5. PICK v : v = done[k]
    OBVIOUS
  <2>6. done[k + 1] = IF ~v.ok \/ Len(v.out) + l + m > room
                      THEN [ok |-> FALSE, out |-> v.out]
                      ELSE [ok |-> TRUE, out |-> v.out \o cipherstate_encrypt(nonce + k, SubSeq(text, b + 1, b + l))]
    <3>1. k + 1 \in 0 .. N /\ k + 1 # 0 /\ (k + 1) - 1 = k /\ nonce + (k + 1) - 1 = nonce + k
      BY <1>3, <2>1
    <3>2. done[k + 1] = Def(done[(k + 1) - 1], k + 1)
      BY <3>1, <1>5, Zenon
    <3>3. done[k + 1] = Def(v, k + 1)
      BY <3>1, <3>2, <2>5
    <3> QED BY <3>1, <3>3, <1>8, <2>3, <2>4
  <2>7. e(k + 1) = a + (l + m)
    <3>1. chunk(k * p, T, p) = l + m
      BY <1>10, <2>2, <2>4
    <3>2. /\ k + 1 < N => chunk(k * p, T, p) = p
          /\ k + 1 = N => k * p + chunk(k * p, T, p) = T
      BY <1>10, <2>2, ChunkIs
    <3>3. CASE k + 1 < N
      <4>1. e(k + 1) = (k + 1) * p
        BY <3>3
      <4>2. (k + 1) * p = a + p
        BY <2>3
      <4> QED BY <4>1, <4>2, <3>1, <3>2, <3>3
    <3>4. CASE k + 1 = N
      <4>1. e(k + 1) = T
        BY <3>4, <1>3
      <4> QED BY <4>1, <3>1, <3>2, <3>4, <2>3
    <3> QED BY <3>3, <3>4, <2>1, <1>3
  <2>8. e(k) = a
    BY <2>2, <2>3
  <2> HIDE DEF e
  <2>9. CASE ~v.ok
    <3>1. ~(a <= room)
      BY <2>2, <2>5, <2>8, <2>9
    <3>2. ~(e(k + 1) <= room)
      BY <3>1, <2>7
    <3>3. done[k + 1].ok = FALSE
      BY <2>6, <2>9
    <3> QED BY <3>2, <3>3
  <2>10. CASE v.ok
    <3>1. v.out = [x \in 1 .. a |-> CipherByte(text, nonce, x)]
      BY <2>2, <2>5, <2>8, <2>10
    <3>2. PICK out : out = v.out /\ IsSeq(out, a) /\ \A x \in 1 .. a : out[x] = CipherByte(text, nonce, x)
      BY <3>1 DEF IsSeq
    <3>3. Len(out) = a
      BY <3>2, SeqIs
    <3>4. CASE a + l + m > room
      <4>1. done[k + 1].ok = FALSE
        BY <2>6, <3>2, <3>3, <3>4
      <4>2. ~(e(k + 1) <= room)
        BY <2>7, <3>4
      <4> QED BY <4>1, <4>2
    <3>5. CASE ~(a + l + m > room)
      <4>1. PICK data : data = SubSeq(text, b + 1, b + l)
        OBVIOUS
      <4>2. Len(data) = l /\ data = DataOf(text, k)
        <5>1. Len(data) = l
          BY <4>1, PartIs
        <5>2. data = DataOf(text, k)
          BY <4>1, <2>3, <2>4, <1>1, <1>2 DEF DataOf
        <5> QED BY <5>1, <5>2
      <4>3. PICK c : c = cipherstate_encrypt(nonce + k, data)
        OBVIOUS
      <4>4. IsSeq(c, l + m) /\ \A j \in 1 .. l + m : c[j] = PacketByte(text, nonce, k, j)
        BY <4>2, <4>3, <1>1 DEF cipherstate_encrypt, PacketByte, IsSeq
      <4>5. done[k + 1].ok = TRUE /\ done[k + 1].out = out \o c
        <5>1. ~(~v.ok \/ Len(v.out) + l + m > room)
          BY <2>10, <3>2, <3>3, <3>5
        <5>2. done[k + 1] = [ok |-> TRUE, out |-> v.out \o cipherstate_encrypt(nonce + k, SubSeq(text, b + 1, b + l))]
          BY <2>6, <5>1, Zenon
        <5>3. done[k + 1] = [ok |-> TRUE, out |-> out \o c]
          BY <5>2, <3>2, <4>1, <4>3
        <5> QED BY <5>3
      <4>10. PICK w : w = out \o c /\ w = Join(out, c)
        BY DEF Join
      <4>11. w = Join(out, c)
        BY <4>10
      <4>6. IsSeq(w, a + (l + m)) /\ \A i \in 1 .. a + (l + m) : w[i] = IF i <= a THEN out[i] ELSE c[i - a]
        <5>1. PICK y \in Nat : y = l + m
          OBVIOUS
        <5>2. IsSeq(out, a) /\ IsSeq(c, y)
          BY <5>1, <3>2, <4>4
        <5>3. IsSeq(w, a + y) /\ \A i \in 1 .. a + y : w[i] = IF i <= a THEN out[i] ELSE c[i - a]
          BY <5>2, <4>11, JoinIs
        <5> QED BY <5>1, <5>3
      <4>7. ASSUME NEW i \in 1 .. a + (l + m)
            PROVE  (IF i <= a THEN out[i] ELSE c[i - a]) = CipherByte(text, nonce, i)
        <5>1. CASE i <= a
          BY <3>2, <5>1
        <5>2. CASE ~(i <= a)
          <6>1. PICK j \in Nat : j = i - a /\ j >= 1 /\ j <= l + m /\ i = a + j
            BY <5>2
          <6>2. j \in 1 .. p /\ j \in 1 .. l + m
            BY <6>1, <2>4, <1>1
          <6>3. CipherByte(text, nonce, k * p + j) = PacketByte(text, nonce, k, j)
            BY <6>2, <1>1, ByteIs
          <6> QED BY <6>1, <6>2, <6>3, <4>4, <5>2, <2>3
        <5> QED BY <5>1, <5>2
      <4>8. done[k + 1].out = [i \in 1 .. e(k + 1) |-> CipherByte(text, nonce, i)]
        <5>1. PICK y : y = a + (l + m) /\ e(k + 1) = y
          BY ONLY <2>7
        <5>2. w = [i \in 1 .. y |-> w[i]]
          BY ONLY <4>6, <5>1 DEF IsSeq
        <5>3. \A i \in 1 .. y : w[i] = CipherByte(text, nonce, i)
          BY ONLY <4>6, <4>7, <5>1
        <5>4. w = [i \in 1 .. y |-> CipherByte(text, nonce, i)]
          BY ONLY <5>2, <5>3
        <5> QED BY ONLY <5>1, <5>4, <4>5, <4>10
      <4>9. e(k + 1) <= room
        BY <2>7, <3>5
      <4> QED BY <4>5, <4>8, <4>9
    <3> QED BY <3>4, <3>5
  <2> QED BY <2>9, <2>10
<1> HIDE DEF S
<1>13. N \in S
  BY <1>3, <1>11, <1>12, SetInduction
<1>14. Made(N) /\ e(N) = T
  BY <1>3, <1>13 DEF S
<1> QED BY <1>6, <1>9, <1>14

-----------------------------------------------------------------------------
(* An iteration of the loop in noise_decrypt_message_inplace: the buffer    *)
(* after the move, the packet to decrypt, and the buffer after it.          *)
Moved(v, off, len) == memmove(v.buf, v.size, off, len)
Taken(v, off, len) == SubSeq(Moved(v, off, len), v.size + 1, v.size + len)
DecryptStep(v, nonce, off, len) ==
    IF ~v.ok \/ ~cipherstate_accepts(nonce, Taken(v, off, len)) THEN [v EXCEPT !.ok = FALSE]
    ELSE [ok |-> TRUE, size |-> v.size + len - MAC_SIZE,
          buf |-> [i \in DOMAIN Moved(v, off, len) |->
                     IF i - v.size \in 1 .. len - MAC_SIZE THEN Moved(v, off, len)[i].byte
                     ELSE Moved(v, off, len)[i]]]

IsState(v) == v = [ok |-> v.ok, buf |-> v.buf, size |-> v.size]

(* The iterations of noise_decrypt_message_inplace as a function f. *)
Steps(f, T, c, nonce) ==
    LET r == f[num_packets(T, NOISE_MAX_PACKET_SIZE)]
    IN  /\ noise_decrypt_message_inplace(nonce, c)
             = [ok |-> r.ok, out |-> IF r.ok THEN SubSeq(r.buf, 1, r.size) ELSE << >>]
        /\ f[0] = [ok |-> TRUE, buf |-> c, size |-> 0]
        /\ \A k \in Nat : k < num_packets(T, NOISE_MAX_PACKET_SIZE) =>
              f[k + 1] = DecryptStep(f[k], nonce + k, k * NOISE_MAX_PACKET_SIZE,
                            chunk(k * NOISE_MAX_PACKET_SIZE, T, NOISE_MAX_PACKET_SIZE))

(* There is such a function. *)
LEMMA DecryptSteps ==
    ASSUME NEW T \in Nat, NEW c, Len(c) = T, NEW nonce \in Nat
    PROVE  \E f : Steps(f, T, c, nonce)
<1> DEFINE c0 == [ok |-> TRUE, buf |-> c, size |-> 0]
           Def(v, n) == LET d == v
                            off == (n - 1) * NOISE_MAX_PACKET_SIZE
                            len == chunk(off, Len(c), NOISE_MAX_PACKET_SIZE)
                            b   == memmove(d.buf, d.size, off, len)
                            p   == SubSeq(b, d.size + 1, d.size + len)
                        IN  IF ~d.ok \/ ~cipherstate_accepts(nonce + n - 1, p) THEN [d EXCEPT !.ok = FALSE]
                            ELSE [ok |-> TRUE, size |-> d.size + len - MAC_SIZE,
                                  buf |-> [i \in DOMAIN b |-> IF i - d.size \in 1 .. len - MAC_SIZE
                                                              THEN b[i].byte ELSE b[i]]]
           N == num_packets(Len(c), NOISE_MAX_PACKET_SIZE)
           done[n \in 0 .. num_packets(Len(c), NOISE_MAX_PACKET_SIZE)] ==
            IF n = 0 THEN [ok |-> TRUE, buf |-> c, size |-> 0]
            ELSE LET d   == done[n - 1]
                     off == (n - 1) * NOISE_MAX_PACKET_SIZE
                     len == chunk(off, Len(c), NOISE_MAX_PACKET_SIZE)
                     b   == memmove(d.buf, d.size, off, len)
                     p   == SubSeq(b, d.size + 1, d.size + len)
                 IN  IF ~d.ok \/ ~cipherstate_accepts(nonce + n - 1, p) THEN [d EXCEPT !.ok = FALSE]
                     ELSE [ok |-> TRUE, size |-> d.size + len - MAC_SIZE,
                           buf |-> [i \in DOMAIN b |-> IF i - d.size \in 1 .. len - MAC_SIZE
                                                       THEN b[i].byte ELSE b[i]]]
<1>1. N \in Nat /\ N = num_packets(T, NOISE_MAX_PACKET_SIZE)
  BY NoiseSizes, PacketsIs
<1>2. FiniteNatInductiveDefConclusion(done, c0, Def, 0, N)
  <2>1. FiniteNatInductiveDefHypothesis(done, c0, Def, 0, N)
    BY DEF FiniteNatInductiveDefHypothesis
  <2>2. N \in Nat /\ 0 \in Nat
    BY <1>1
  <2> HIDE DEF done, c0, Def, N
  <2> QED BY <2>1, <2>2, FiniteNatInductiveDef
<1>3. done = [n \in 0 .. N |-> IF n = 0 THEN c0 ELSE Def(done[n - 1], n)]
  BY <1>2 DEF FiniteNatInductiveDefConclusion
<1>4. noise_decrypt_message_inplace(nonce, c)
        = [ok |-> done[N].ok, out |-> IF done[N].ok THEN SubSeq(done[N].buf, 1, done[N].size) ELSE << >>]
  BY DEF noise_decrypt_message_inplace
<1>5. \A v, n : Def(v, n) = DecryptStep(v, nonce + n - 1, (n - 1) * NOISE_MAX_PACKET_SIZE,
                                 chunk((n - 1) * NOISE_MAX_PACKET_SIZE, T, NOISE_MAX_PACKET_SIZE))
  BY DEF DecryptStep, Taken, Moved
<1> HIDE DEF done, Def, N
<1>6. done[0] = c0
  <2>1. 0 \in 0 .. N
    BY <1>1
  <2> HIDE DEF c0
  <2> QED BY <2>1, <1>3, Zenon
<1>7. ASSUME NEW k \in Nat, k < N
      PROVE  done[k + 1] = DecryptStep(done[k], nonce + k, k * NOISE_MAX_PACKET_SIZE,
                               chunk(k * NOISE_MAX_PACKET_SIZE, T, NOISE_MAX_PACKET_SIZE))
  <2>1. k + 1 \in 0 .. N /\ k + 1 # 0 /\ (k + 1) - 1 = k /\ nonce + (k + 1) - 1 = nonce + k
    BY <1>1, <1>7
  <2>2. done[k + 1] = Def(done[(k + 1) - 1], k + 1)
    BY <2>1, <1>3, Zenon
  <2>3. done[k + 1] = Def(done[k], k + 1)
    BY <2>1, <2>2
  <2>4. Def(done[k], k + 1) = DecryptStep(done[k], nonce + (k + 1) - 1, ((k + 1) - 1) * NOISE_MAX_PACKET_SIZE,
                                 chunk(((k + 1) - 1) * NOISE_MAX_PACKET_SIZE, T, NOISE_MAX_PACKET_SIZE))
    BY <1>5
  <2> QED BY <2>1, <2>3, <2>4
<1>8. Steps(done, T, c, nonce)
  BY <1>1, <1>4, <1>6, <1>7 DEF Steps
<1> QED BY <1>8

(* What an iteration does: it looks at the packet, and moves nothing that   *)
(* is before its data or after its end.                                     *)
LEMMA DecryptStepIs ==
    ASSUME NEW T \in Nat, NEW v, IsState(v), v.ok, IsSeq(v.buf, T), v.size \in Nat, NEW nonce \in Nat,
           NEW off \in Nat, NEW len \in Nat, v.size <= off, off + len <= T
    PROVE  LET taken == Taken(v, off, len)
               after == DecryptStep(v, nonce, off, len)
           IN  /\ Len(taken) = len /\ DOMAIN taken = 1 .. len
               /\ \A j \in 1 .. len : taken[j] = v.buf[off + j]
               /\ IsState(after)
               /\ ~cipherstate_accepts(nonce, taken) => after.ok = FALSE
               /\ cipherstate_accepts(nonce, taken) =>
                    /\ after.ok = TRUE /\ len >= MAC_SIZE /\ after.size = v.size + (len - MAC_SIZE)
                    /\ IsSeq(after.buf, T)
                    /\ \A i \in 1 .. T : i <= v.size \/ i > off + len => after.buf[i] = v.buf[i]
                    /\ \A j \in 1 .. len - MAC_SIZE : after.buf[v.size + j] = v.buf[off + j].byte
<1>1. PICK m \in Nat \ {0} : m = MAC_SIZE
  BY NoiseSizes
<1>2. PICK z \in Nat : z = v.size /\ z <= off
  OBVIOUS
<1>3. PICK buf : buf = v.buf /\ IsSeq(buf, T) /\ DOMAIN buf = 1 .. T
  <2>1. DOMAIN v.buf = 1 .. T
    BY SeqIs
  <2> QED BY <2>1
<1>4. PICK b : b = Moved(v, off, len)
  OBVIOUS
<1>5. /\ b = [i \in 1 .. T |-> IF i - z \in 1 .. len THEN buf[i - z + off] ELSE buf[i]]
      /\ DOMAIN b = 1 .. T
  BY <1>2, <1>3, <1>4 DEF Moved, memmove
<1>6. \A j \in 1 .. len : b[z + j] = buf[off + j]
  <2>1. SUFFICES ASSUME NEW j \in 1 .. len PROVE b[z + j] = buf[off + j]
    OBVIOUS
  <2>2. z + j \in 1 .. T /\ (z + j) - z \in 1 .. len /\ (z + j) - z + off = off + j
    BY <1>2
  <2> QED BY <2>2, <1>5
<1>7. \A i \in 1 .. T : i <= z \/ i > off + len => b[i] = buf[i]
  <2>1. SUFFICES ASSUME NEW i \in 1 .. T, i <= z \/ i > off + len PROVE b[i] = buf[i]
    OBVIOUS
  <2>2. ~(i - z \in 1 .. len)
    BY <2>1, <1>2
  <2> QED BY <2>2, <1>5
<1>8. PICK t : t = Taken(v, off, len) /\ t = SubSeq(b, z + 1, z + len)
  BY <1>2, <1>4 DEF Taken
<1>9. Len(t) = len /\ DOMAIN t = 1 .. len /\ \A j \in 1 .. len : t[j] = b[z + j]
  <2>1. /\ Len(SubSeq(b, z + 1, z + len)) = len /\ DOMAIN SubSeq(b, z + 1, z + len) = 1 .. len
        /\ \A j \in 1 .. len : SubSeq(b, z + 1, z + len)[j] = b[z + j]
    BY PartIs
  <2> QED BY <2>1, <1>8
<1>10. \A j \in 1 .. len : t[j] = buf[off + j]
  BY <1>6, <1>9
<1>11. PICK w : w = DecryptStep(v, nonce, off, len)
  OBVIOUS
<1>12. ASSUME ~cipherstate_accepts(nonce, t) PROVE w.ok = FALSE /\ IsState(w)
  <2>1. w = [v EXCEPT !.ok = FALSE]
    BY <1>8, <1>11, <1>12 DEF DecryptStep
  <2>2. w = [ok |-> FALSE, buf |-> v.buf, size |-> v.size]
    BY <2>1 DEF IsState
  <2> QED BY <2>2 DEF IsState
<1>13. ASSUME cipherstate_accepts(nonce, t)
       PROVE  /\ IsState(w)
              /\ w.ok = TRUE /\ len >= MAC_SIZE /\ w.size = v.size + (len - MAC_SIZE)
              /\ IsSeq(w.buf, T)
              /\ \A i \in 1 .. T : i <= v.size \/ i > off + len => w.buf[i] = v.buf[i]
              /\ \A j \in 1 .. len - MAC_SIZE : w.buf[v.size + j] = v.buf[off + j].byte
  <2>1. len >= m
    BY <1>1, <1>9, <1>13 DEF cipherstate_accepts
  <2>2. w = [ok |-> TRUE, size |-> z + len - m,
             buf |-> [i \in DOMAIN b |-> IF i - z \in 1 .. len - m THEN b[i].byte ELSE b[i]]]
    BY <1>1, <1>2, <1>4, <1>8, <1>11, <1>13 DEF DecryptStep
  <2>3. w.ok = TRUE /\ w.size = z + (len - m)
    BY <2>2, <2>1
  <2>8. IsState(w)
    BY <2>2 DEF IsState
  <2>4. w.buf = [i \in 1 .. T |-> IF i - z \in 1 .. len - m THEN b[i].byte ELSE b[i]]
    BY <2>2, <1>5
  <2>5. IsSeq(w.buf, T)
    BY <2>4 DEF IsSeq
  <2>6. ASSUME NEW i \in 1 .. T, i <= z \/ i > off + len PROVE w.buf[i] = buf[i]
    <3>1. ~(i - z \in 1 .. len - m)
      BY <2>6, <1>2
    <3> QED BY <3>1, <2>4, <2>6, <1>7
  <2>7. ASSUME NEW j \in 1 .. len - m PROVE w.buf[z + j] = buf[off + j].byte
    <3>1. z + j \in 1 .. T /\ (z + j) - z \in 1 .. len - m /\ j \in 1 .. len
      BY <1>2, <2>1
    <3>2. w.buf[z + j] = b[z + j].byte
      BY <3>1, <2>4
    <3> QED BY <3>1, <3>2, <1>6
  <2> QED BY <2>1, <2>3, <2>5, <2>6, <2>7, <2>8, <1>1, <1>2, <1>3
<1> QED BY <1>3, <1>8, <1>9, <1>10, <1>11, <1>12, <1>13

(* Once an iteration has failed, all further ones do. *)
LEMMA DecryptStepFailed ==
    ASSUME NEW v, IsState(v), ~v.ok, NEW nonce, NEW off, NEW len
    PROVE  IsState(DecryptStep(v, nonce, off, len)) /\ ~DecryptStep(v, nonce, off, len).ok
<1>1. DecryptStep(v, nonce, off, len) = [v EXCEPT !.ok = FALSE]
  BY DEF DecryptStep
<1>2. PICK x, b, z : v = [ok |-> x, buf |-> b, size |-> z]
  BY DEF IsState
<1>3. [v EXCEPT !.ok = FALSE] = [ok |-> FALSE, buf |-> b, size |-> z]
  <2>1. \A y : [[ok |-> x, buf |-> b, size |-> z] EXCEPT !.ok = y] = [ok |-> y, buf |-> b, size |-> z]
    OBVIOUS
  <2>2. \A y : [v EXCEPT !.ok = y] = [ok |-> y, buf |-> b, size |-> z]
    BY <1>2, <2>1, Zenon
  <2> QED BY <2>2, Zenon
<1>4. DecryptStep(v, nonce, off, len) = [ok |-> FALSE, buf |-> b, size |-> z]
  BY <1>1, <1>3
<1> QED BY <1>4 DEF IsState

(* A message is refused when a packet does not start with its nonce. *)
LEMMA Refused ==
    ASSUME NEW T \in Nat, NEW c, IsSeq(c, T), NEW nonce \in Nat, NEW k \in Nat,
           k < num_packets(T, NOISE_MAX_PACKET_SIZE),
           c[k * NOISE_MAX_PACKET_SIZE + 1].nonce # nonce + k
    PROVE  ~noise_decrypt_message_inplace(nonce, c).ok
<1>1. PICK p, m \in Nat \ {0} : p = NOISE_MAX_PACKET_SIZE /\ m = MAC_SIZE
  BY NoiseSizes
<1>2. Len(c) = T
  BY SeqIs
<1>3. PICK N \in Nat : N = num_packets(T, p)
  BY PacketsIs
<1>10. PICK f : Steps(f, T, c, nonce)
  BY <1>2, DecryptSteps
<1>4. /\ noise_decrypt_message_inplace(nonce, c)
            = [ok |-> f[N].ok, out |-> IF f[N].ok THEN SubSeq(f[N].buf, 1, f[N].size) ELSE << >>]
      /\ f[0] = [ok |-> TRUE, buf |-> c, size |-> 0]
      /\ \A n \in Nat : n < N => f[n + 1] = DecryptStep(f[n], nonce + n, n * p, chunk(n * p, T, p))
  BY <1>1, <1>3, <1>10 DEF Steps
<1> DEFINE Kept(n, v) == /\ IsSeq(v.buf, T) /\ v.size \in Nat /\ v.size <= n * p
                         /\ \A x \in 1 .. T : x > n * p => v.buf[x] = c[x]
           Good(n, v) == IsState(v) /\ (n <= k => (v.ok => Kept(n, v))) /\ (n > k => ~v.ok)
           S == {n \in Nat : n <= N => Good(n, f[n])}
<1>5. 0 \in S
  <2>1. f[0] = [ok |-> TRUE, buf |-> c, size |-> 0]
    BY <1>4
  <2>2. IsState(f[0]) /\ f[0].buf = c /\ f[0].size = 0
    BY <2>1 DEF IsState
  <2>3. 0 * p = 0
    OBVIOUS
  <2>4. Kept(0, f[0])
    BY <2>2, <2>3
  <2> QED BY <2>2, <2>4
<1>6. ASSUME NEW n \in Nat, n \in S PROVE n + 1 \in S
  <2>1. SUFFICES ASSUME n + 1 <= N PROVE Good(n + 1, f[n + 1])
    OBVIOUS
  <2>2. n < N /\ Good(n, f[n])
    BY <1>6, <2>1
  <2>3. PICK v : v = f[n]
    OBVIOUS
  <2>4. PICK a, l \in Nat : a = n * p /\ l = chunk(n * p, T, p) /\ l >= 1 /\ l <= p /\ a + l <= T
    <3>1. n < num_packets(T, p)
      BY <2>2, <1>3
    <3>2. /\ n * p \in Nat /\ chunk(n * p, T, p) \in Nat /\ chunk(n * p, T, p) >= 1
          /\ chunk(n * p, T, p) <= p /\ n * p + chunk(n * p, T, p) <= T
      BY <3>1, ChunkIs
    <3> QED BY <3>2
  <2>5. PICK w : w = f[n + 1] /\ w = DecryptStep(v, nonce + n, a, l)
    BY <2>2, <2>3, <2>4, <1>4
  <2>6. (n + 1) * p = a + p
    BY <2>4
  <2>7. CASE ~v.ok
    <3>1. IsState(w) /\ ~w.ok
      BY <2>2, <2>3, <2>5, <2>7, DecryptStepFailed
    <3> QED BY <3>1, <2>5
  <2>8. CASE v.ok
    <3>1. n <= k /\ Kept(n, v) /\ IsState(v)
      BY <2>2, <2>3, <2>8
    <3>2. IsSeq(v.buf, T) /\ v.size \in Nat /\ v.size <= a /\ \A x \in 1 .. T : x > a => v.buf[x] = c[x]
      BY <3>1, <2>4
    <3>3. PICK t : t = Taken(v, a, l)
      OBVIOUS
    <3>4. nonce + n \in Nat
      OBVIOUS
    <3>5. /\ Len(t) = l /\ DOMAIN t = 1 .. l /\ \A j \in 1 .. l : t[j] = v.buf[a + j]
          /\ IsState(w)
          /\ ~cipherstate_accepts(nonce + n, t) => w.ok = FALSE
          /\ cipherstate_accepts(nonce + n, t) =>
               /\ w.ok = TRUE /\ l >= MAC_SIZE /\ w.size = v.size + (l - MAC_SIZE)
               /\ IsSeq(w.buf, T)
               /\ \A i \in 1 .. T : i <= v.size \/ i > a + l => w.buf[i] = v.buf[i]
      <4>1. v.size <= a /\ a + l <= T
        BY <3>2, <2>4
      <4>2. LET taken == Taken(v, a, l)
                after == DecryptStep(v, nonce + n, a, l)
            IN  /\ Len(taken) = l /\ DOMAIN taken = 1 .. l
                /\ \A j \in 1 .. l : taken[j] = v.buf[a + j]
                /\ IsState(after)
                /\ ~cipherstate_accepts(nonce + n, taken) => after.ok = FALSE
                /\ cipherstate_accepts(nonce + n, taken) =>
                     /\ after.ok = TRUE /\ l >= MAC_SIZE /\ after.size = v.size + (l - MAC_SIZE)
                     /\ IsSeq(after.buf, T)
                     /\ \A i \in 1 .. T : i <= v.size \/ i > a + l => after.buf[i] = v.buf[i]
                     /\ \A j \in 1 .. l - MAC_SIZE : after.buf[v.size + j] = v.buf[a + j].byte
        BY <4>1, <2>8, <3>1, <3>2, <3>4, DecryptStepIs
      <4> QED BY <4>2, <2>5, <3>3
    <3>6. ASSUME n = k PROVE w.ok = FALSE
      <4>1. 1 \in DOMAIN t /\ t[1] = v.buf[a + 1]
        BY <3>5, <2>4
      <4>2. v.buf[a + 1] = c[a + 1]
        <5>1. a + 1 \in 1 .. T /\ a + 1 > a
          BY <2>4
        <5> QED BY <5>1, <3>2
      <4>3. t[1].nonce # nonce + n
        BY <4>1, <4>2, <3>6, <2>4, <1>1
      <4>4. ~cipherstate_accepts(nonce + n, t)
        BY <4>1, <4>3 DEF cipherstate_accepts
      <4> QED BY <4>4, <3>5
    <3>7. ASSUME n # k, w.ok PROVE Kept(n + 1, w)
      <4>1. cipherstate_accepts(nonce + n, t)
        BY <3>5, <3>7
      <4>2. /\ l >= m /\ w.size = v.size + (l - m) /\ IsSeq(w.buf, T)
            /\ \A i \in 1 .. T : i <= v.size \/ i > a + l => w.buf[i] = v.buf[i]
        BY <4>1, <3>5, <1>1
      <4>3. w.size \in Nat /\ w.size <= a + p
        BY <4>2, <3>2, <2>4
      <4>4. ASSUME NEW x \in 1 .. T, x > a + p PROVE w.buf[x] = c[x]
        <5>1. x > a + l /\ x > a
          BY <4>4, <2>4
        <5> QED BY <5>1, <4>2, <3>2
      <4> QED BY <4>2, <4>3, <4>4, <2>6
    <3> HIDE DEF Kept
    <3>8. CASE n = k
      <4>1. n + 1 > k /\ ~(n + 1 <= k)
        BY <3>8
      <4> QED BY <4>1, <3>5, <3>6, <3>8, <2>5
    <3>9. CASE n # k
      <4>1. n + 1 <= k /\ ~(n + 1 > k)
        BY <3>1, <3>9
      <4> QED BY <4>1, <3>5, <3>7, <3>9, <2>5
    <3> QED BY <3>8, <3>9
  <2> QED BY <2>7, <2>8
<1> HIDE DEF S
<1>7. N \in S
  BY <1>3, <1>5, <1>6, SetInduction
<1>8. Good(N, f[N])
  BY <1>3, <1>7 DEF S
<1>9. ~f[N].ok
  BY <1>1, <1>3, <1>8
<1> QED BY <1>4, <1>9

(* A ciphertext decrypts to its plaintext in the same buffer. *)
LEMMA Decrypted ==
    ASSUME NEW text \in Seq(Nat), NEW nonce \in Nat
    PROVE  noise_decrypt_message_inplace(nonce, [x \in 1 .. ciphertext_size(text) |-> CipherByte(text, nonce, x)])
             = [ok |-> TRUE, out |-> text]
<1>1. PICK p, m, d \in Nat \ {0} : p = NOISE_MAX_PACKET_SIZE /\ m = MAC_SIZE /\ d = NOISE_MAX_DATA_SIZE
                                   /\ p = d + m
  BY NoiseSizes
<1>2. PICK L \in Nat : L = Len(text)
  OBVIOUS
<1>3. PICK N \in Nat : N = num_packets(L, d) /\ (N = 0 <=> L = 0)
  BY PacketsIs
<1>4. PICK T \in Nat : T = ciphertext_size(text) /\ T = L + m * N
  BY <1>1, <1>2, <1>3 DEF ciphertext_size
<1>5. PICK c : c = [x \in 1 .. T |-> CipherByte(text, nonce, x)]
  OBVIOUS
<1>6. IsSeq(c, T) /\ Len(c) = T
  <2>1. IsSeq(c, T)
    BY <1>5 DEF IsSeq
  <2> QED BY <2>1, SeqIs
<1>7. num_packets(T, p) = N /\ \A k \in Nat : k < N => chunk(k * p, T, p) = chunk(k * d, L, d) + m
  <2>1. N = num_packets(L, NOISE_MAX_DATA_SIZE) /\ T = L + MAC_SIZE * N
    BY <1>1, <1>3, <1>4
  <2>2. /\ num_packets(T, NOISE_MAX_PACKET_SIZE) = N
        /\ \A k \in Nat : k < N => chunk(k * NOISE_MAX_PACKET_SIZE, T, NOISE_MAX_PACKET_SIZE)
                                       = chunk(k * NOISE_MAX_DATA_SIZE, L, NOISE_MAX_DATA_SIZE) + MAC_SIZE
    BY <2>1, SameChunks
  <2> QED BY <2>2, <1>1
<1>17. PICK f : Steps(f, T, c, nonce)
  BY <1>6, DecryptSteps
<1>8. /\ noise_decrypt_message_inplace(nonce, c)
            = [ok |-> f[N].ok, out |-> IF f[N].ok THEN SubSeq(f[N].buf, 1, f[N].size) ELSE << >>]
      /\ f[0] = [ok |-> TRUE, buf |-> c, size |-> 0]
      /\ \A n \in Nat : n < N => f[n + 1] = DecryptStep(f[n], nonce + n, n * p, chunk(n * p, T, p))
  BY <1>1, <1>7, <1>17 DEF Steps
<1> DEFINE e(n) == IF n < N THEN n * d ELSE L
           Good(n, v) == /\ IsState(v) /\ v.ok = TRUE /\ IsSeq(v.buf, T) /\ v.size = e(n)
                         /\ \A x \in 1 .. e(n) : v.buf[x] = text[x]
                         /\ \A x \in 1 .. T : x > n * p => v.buf[x] = c[x]
           S == {n \in Nat : n <= N => Good(n, f[n])}
<1>9. 0 \in S
  <2>1. f[0] = [ok |-> TRUE, buf |-> c, size |-> 0]
    BY <1>8
  <2>2. IsState(f[0]) /\ f[0].buf = c /\ f[0].size = 0 /\ f[0].ok = TRUE
    BY <2>1 DEF IsState
  <2>3. e(0) = 0
    <3>1. 0 * d = 0
      OBVIOUS
    <3> QED BY <3>1, <1>3
  <2> HIDE DEF e
  <2>4. \A x \in 1 .. e(0) : f[0].buf[x] = text[x]
    BY <2>3
  <2> QED BY <2>2, <2>3, <2>4, <1>6
<1>10. ASSUME NEW n \in Nat, n \in S PROVE n + 1 \in S
  <2> HIDE DEF Good
  <2>1. SUFFICES ASSUME n + 1 <= N PROVE Good(n + 1, f[n + 1])
    OBVIOUS
  <2>2. n < N /\ Good(n, f[n])
    BY <1>10, <2>1
  <2> USE DEF Good
  <2>3. PICK v : v = f[n]
    OBVIOUS
  <2>4. PICK a, b \in Nat : a = n * p /\ b = n * d
    OBVIOUS
  <2>5. PICK l \in Nat : /\ l = chunk(n * d, L, d) /\ l >= 1 /\ l <= d /\ b + l <= L
                         /\ (n + 1 < N => l = d) /\ (n + 1 = N => b + l = L)
    <3>1. n < num_packets(L, d)
      BY <2>2, <1>3
    <3>2. /\ chunk(n * d, L, d) \in Nat /\ chunk(n * d, L, d) >= 1
          /\ chunk(n * d, L, d) <= d /\ n * d + chunk(n * d, L, d) <= L
          /\ n + 1 < num_packets(L, d) => chunk(n * d, L, d) = d
          /\ n + 1 = num_packets(L, d) => n * d + chunk(n * d, L, d) = L
      BY <3>1, ChunkIs
    <3> QED BY <3>2, <2>4, <1>3
  <2>6. PICK g \in Nat : g = chunk(n * p, T, p) /\ g = l + m /\ a + g <= T /\ g <= p
    <3>1. n < num_packets(T, p)
      BY <2>2, <1>7
    <3>2. n * p + chunk(n * p, T, p) <= T /\ chunk(n * p, T, p) \in Nat
      BY <3>1, ChunkIs
    <3>3. chunk(n * p, T, p) = l + m
      BY <2>2, <2>5, <1>7
    <3> QED BY <3>2, <3>3, <2>4, <2>5, <1>1
  <2>7. PICK w : w = f[n + 1] /\ w = DecryptStep(v, nonce + n, a, g)
    BY <2>2, <2>3, <2>4, <2>6, <1>8
  <2>8. e(n) = b /\ e(n + 1) = b + l
    <3>1. (n + 1) * d = b + d
      BY <2>4
    <3>2. n + 1 < N \/ n + 1 = N
      BY <2>1
    <3> QED BY <3>1, <3>2, <2>2, <2>4, <2>5
  <2>9. /\ IsState(v) /\ v.ok /\ IsSeq(v.buf, T) /\ v.size = b
        /\ \A x \in 1 .. b : v.buf[x] = text[x]
        /\ \A x \in 1 .. T : x > a => v.buf[x] = c[x]
    BY <2>2, <2>3, <2>4, <2>8
  <2> HIDE DEF e
  <2>10. b <= a /\ (n + 1) * p = a + p
    <3>1. n * (d + m) = n * d + n * m /\ n * m \in Nat
      OBVIOUS
    <3> QED BY <3>1, <2>4, <1>1
  <2>11. PICK t : t = Taken(v, a, g)
    OBVIOUS
  <2>12. nonce + n \in Nat
    OBVIOUS
  <2>13. /\ Len(t) = g /\ DOMAIN t = 1 .. g /\ \A j \in 1 .. g : t[j] = v.buf[a + j]
         /\ IsState(w)
         /\ cipherstate_accepts(nonce + n, t) =>
               /\ w.ok = TRUE /\ w.size = v.size + (g - MAC_SIZE)
               /\ IsSeq(w.buf, T)
               /\ \A i \in 1 .. T : i <= v.size \/ i > a + g => w.buf[i] = v.buf[i]
               /\ \A j \in 1 .. g - MAC_SIZE : w.buf[v.size + j] = v.buf[a + j].byte
    <3>1. v.size <= a /\ a + g <= T /\ v.size \in Nat
      BY <2>6, <2>9, <2>10
    <3>2. LET taken == Taken(v, a, g)
              after == DecryptStep(v, nonce + n, a, g)
          IN  /\ Len(taken) = g /\ DOMAIN taken = 1 .. g
              /\ \A j \in 1 .. g : taken[j] = v.buf[a + j]
              /\ IsState(after)
              /\ ~cipherstate_accepts(nonce + n, taken) => after.ok = FALSE
              /\ cipherstate_accepts(nonce + n, taken) =>
                   /\ after.ok = TRUE /\ g >= MAC_SIZE /\ after.size = v.size + (g - MAC_SIZE)
                   /\ IsSeq(after.buf, T)
                   /\ \A i \in 1 .. T : i <= v.size \/ i > a + g => after.buf[i] = v.buf[i]
                   /\ \A j \in 1 .. g - MAC_SIZE : after.buf[v.size + j] = v.buf[a + j].byte
      BY <3>1, <2>9, <2>12, DecryptStepIs
    <3> QED BY <3>2, <2>7, <2>11
  <2>14. PICK data : data = DataOf(text, n) /\ Len(data) = l /\ \A j \in 1 .. l : data[j] = text[b + j]
    <3>1. DataOf(text, n) = SubSeq(text, b + 1, b + l)
      BY <2>4, <2>5, <1>1, <1>2 DEF DataOf
    <3>2. IsPart(SubSeq(text, b + 1, b + l), text, b, l)
      BY ONLY PartOf, b \in Nat, l \in Nat
    <3>3. IsPart(DataOf(text, n), text, b, l)
      BY ONLY <3>1, <3>2
    <3> QED BY ONLY <3>3 DEF IsPart
  <2>15. ASSUME NEW j \in 1 .. g
         PROVE  v.buf[a + j] = [nonce |-> nonce + n, at |-> j, len |-> l,
                                byte |-> IF j <= l THEN data[j] ELSE data]
    <3>1. a + j \in 1 .. T /\ a + j > a /\ j \in 1 .. p
      BY <2>6
    <3>2. v.buf[a + j] = CipherByte(text, nonce, n * p + j)
      BY <3>1, <2>4, <2>9, <1>5
    <3>3. CipherByte(text, nonce, n * p + j) = PacketByte(text, nonce, n, j)
      BY <3>1, <1>1, ByteIs
    <3>4. PacketByte(text, nonce, n, j) = [nonce |-> nonce + n, at |-> j, len |-> l,
                                           byte |-> IF j <= l THEN data[j] ELSE data]
      BY <2>14 DEF PacketByte
    <3> QED BY <3>2, <3>3, <3>4
  <2>16. cipherstate_accepts(nonce + n, t)
    <3>1. Len(t) >= MAC_SIZE /\ Len(t) - MAC_SIZE = l
      BY <2>6, <2>13, <1>1
    <3>2. ASSUME NEW i \in DOMAIN t PROVE t[i].nonce = nonce + n /\ t[i].at = i /\ t[i].len = l
      <4>1. i \in 1 .. g /\ t[i] = v.buf[a + i]
        BY <2>13
      <4>2. t[i] = [nonce |-> nonce + n, at |-> i, len |-> l, byte |-> IF i <= l THEN data[i] ELSE data]
        BY <4>1, <2>15
      <4> QED BY <4>2
    <3> QED BY <3>1, <3>2 DEF cipherstate_accepts
  <2>17. /\ w.ok = TRUE /\ w.size = b + l /\ IsSeq(w.buf, T)
         /\ \A i \in 1 .. T : i <= b \/ i > a + g => w.buf[i] = v.buf[i]
         /\ \A j \in 1 .. l : w.buf[b + j] = v.buf[a + j].byte
    <3>1. g - MAC_SIZE = l
      BY <2>6, <1>1
    <3> QED BY <3>1, <2>9, <2>13, <2>16
  <2>18. b + l <= T
    BY <2>6, <2>10
  <2>19. ASSUME NEW x \in 1 .. b + l PROVE w.buf[x] = text[x]
    <3>1. x \in 1 .. T
      BY <2>18
    <3>2. CASE x <= b
      <4>1. x \in 1 .. b
        BY <3>2
      <4> QED BY <3>1, <3>2, <4>1, <2>9, <2>17
    <3>3. CASE x > b
      <4>1. PICK j \in 1 .. l : x = b + j
        <5>1. x - b \in 1 .. l /\ x = b + (x - b)
          BY <3>3
        <5> QED BY <5>1
      <4>2. j \in 1 .. g /\ j <= l
        BY <2>6
      <4>3. v.buf[a + j].byte = data[j]
        <5>1. v.buf[a + j] = [nonce |-> nonce + n, at |-> j, len |-> l, byte |-> IF j <= l THEN data[j] ELSE data]
          BY <4>2, <2>15
        <5>2. v.buf[a + j].byte = IF j <= l THEN data[j] ELSE data
          BY <5>1
        <5> QED BY <5>2, <4>2
      <4> QED BY <4>1, <4>3, <2>14, <2>17
    <3> QED BY <3>2, <3>3
  <2>20. ASSUME NEW x \in 1 .. T, x > a + p PROVE w.buf[x] = c[x]
    <3>1. x > a + g /\ x > a
      BY <2>6, <2>20
    <3> QED BY <3>1, <2>9, <2>17
  <2> QED BY <2>7, <2>8, <2>10, <2>13, <2>17, <2>19, <2>20
<1> HIDE DEF S
<1>11. N \in S
  BY <1>3, <1>9, <1>10, SetInduction
<1>12. Good(N, f[N]) /\ e(N) = L
  <2>1. e(N) = L
    OBVIOUS
  <2> HIDE DEF Good, e
  <2>2. Good(N, f[N])
    BY ONLY <1>11, N \in Nat DEF S
  <2> QED BY ONLY <2>1, <2>2
<1>13. f[N].ok = TRUE /\ f[N].size = L /\ \A x \in 1 .. L : f[N].buf[x] = text[x]
  BY <1>12
<1>14. PICK r : r = SubSeq(f[N].buf, 1, L)
  OBVIOUS
<1>15. r = text
  <2>1. PICK z \in Nat : z = 0 /\ z + 1 = 1 /\ z + L = L /\ \A j \in 1 .. L : z + j = j
    OBVIOUS
  <2>2. /\ IsSeq(SubSeq(f[N].buf, z + 1, z + L), L)
        /\ \A j \in 1 .. L : SubSeq(f[N].buf, z + 1, z + L)[j] = f[N].buf[z + j]
    BY PartIs
  <2>3. IsSeq(r, L) /\ \A j \in 1 .. L : r[j] = text[j]
    BY <2>1, <2>2, <1>13, <1>14
  <2>4. text = [i \in 1 .. L |-> text[i]]
    BY <1>2
  <2> QED BY <2>3, <2>4 DEF IsSeq
<1>16. noise_decrypt_message_inplace(nonce, c) = [ok |-> TRUE, out |-> text]
  BY <1>8, <1>13, <1>14, <1>15
<1> QED BY <1>4, <1>5, <1>16

-----------------------------------------------------------------------------
(* noise_encrypt_message fills exactly the buffer that is needed. *)
LEMMA Fits == ASSUME NEW text \in Seq(Nat) PROVE FitsExactly(text)
<1>1. PICK T \in Nat : T = ciphertext_size(text)
  <2>1. 0 \in Nat
    OBVIOUS
  <2> QED BY <2>1, EncryptIs
<1>2. ASSUME NEW s \in 0 .. T + 1, NEW r, r = noise_encrypt_message(0, text, s)
      PROVE  (r.ok <=> s >= T) /\ (r.ok => Len(r.out) = T)
  <2>1. s \in Nat /\ 0 \in Nat
    BY <1>1
  <2>2. (r.ok <=> s >= T) /\ (r.ok => r.out = [x \in 1 .. T |-> CipherByte(text, 0, x)])
    BY <1>1, <1>2, <2>1, EncryptIs
  <2>3. ASSUME r.ok PROVE Len(r.out) = T
    <3>1. IsSeq(r.out, T)
      BY <2>2, <2>3 DEF IsSeq
    <3> QED BY <3>1, SeqIs
  <2> QED BY <2>2, <2>3
<1> QED BY <1>1, <1>2 DEF FitsExactly

(* A sequence that is longer than k packets has more than k. *)
LEMMA MorePackets ==
    ASSUME NEW size \in Nat, NEW max \in Nat \ {0}, NEW k \in Nat, k * max < size
    PROVE  k < num_packets(size, max)
<1>1. PICK n \in Nat : n = num_packets(size, max) /\ size <= n * max
  BY PacketsIs
<1>2. SUFFICES ASSUME n <= k PROVE FALSE
  BY <1>1
<1>3. n * max <= k * max /\ n * max \in Nat /\ k * max \in Nat
  BY <1>2, TimesGrows
<1> QED BY <1>1, <1>3

(* The ciphertext of a message under nonces from 0: its length, how many    *)
(* packets it has, and the nonce that a packet starts with.                 *)
IsCiphertext(c, T, n) ==
    /\ T \in Nat /\ n \in Nat /\ IsSeq(c, T) /\ n = num_packets(T, NOISE_MAX_PACKET_SIZE)
    /\ \A k \in Nat : k < n => /\ k * NOISE_MAX_PACKET_SIZE + 1 <= T
                               /\ c[k * NOISE_MAX_PACKET_SIZE + 1].nonce = k

(* noise_encrypt_message makes one. *)
LEMMA CiphertextIs ==
    ASSUME NEW text \in Seq(Nat)
    PROVE  /\ noise_encrypt_message(0, text, ciphertext_size(text)).out
                = [x \in 1 .. ciphertext_size(text) |-> CipherByte(text, 0, x)]
           /\ IsCiphertext([x \in 1 .. ciphertext_size(text) |-> CipherByte(text, 0, x)], ciphertext_size(text),
                           num_packets(Len(text), NOISE_MAX_DATA_SIZE))
<1>1. PICK p, m, d \in Nat \ {0} : p = NOISE_MAX_PACKET_SIZE /\ m = MAC_SIZE /\ d = NOISE_MAX_DATA_SIZE
  BY NoiseSizes
<1>2. PICK L \in Nat : L = Len(text)
  OBVIOUS
<1>3. PICK n \in Nat : n = num_packets(L, NOISE_MAX_DATA_SIZE)
  BY <1>1, PacketsIs
<1>4. PICK T \in Nat : T = ciphertext_size(text) /\ T = L + MAC_SIZE * n
  BY <1>1, <1>2, <1>3 DEF ciphertext_size
<1>5. noise_encrypt_message(0, text, T).out = [x \in 1 .. T |-> CipherByte(text, 0, x)]
  <2>1. 0 \in Nat /\ T >= T
    OBVIOUS
  <2>2. PICK room \in Nat : room = T
    OBVIOUS
  <2>3. PICK r : r = noise_encrypt_message(0, text, room)
    OBVIOUS
  <2>4. /\ r.ok <=> room >= ciphertext_size(text)
        /\ r.ok => r.out = [x \in 1 .. ciphertext_size(text) |-> CipherByte(text, 0, x)]
    BY <2>1, <2>3, EncryptIs
  <2> QED BY <2>1, <2>2, <2>3, <2>4, <1>4
<1>6. num_packets(T, NOISE_MAX_PACKET_SIZE) = n
  BY <1>3, <1>4, SameChunks
<1>7. PICK c : c = [x \in 1 .. T |-> CipherByte(text, 0, x)]
  OBVIOUS
<1>8. ASSUME NEW k \in Nat, k < n PROVE k * p + 1 <= T /\ c[k * p + 1].nonce = k
  <2>1. k < num_packets(T, p)
    BY <1>1, <1>6, <1>8
  <2>2. k * p \in Nat /\ chunk(k * p, T, p) \in Nat /\ chunk(k * p, T, p) >= 1 /\ k * p + chunk(k * p, T, p) <= T
    BY <2>1, ChunkIs
  <2>3. k * p + 1 \in 1 .. T
    BY <2>2
  <2>4. c[k * p + 1] = CipherByte(text, 0, k * p + 1)
    BY <2>3, <1>7
  <2>5. CipherByte(text, 0, k * p + 1) = PacketByte(text, 0, k, 1)
    <3>1. 1 \in 1 .. NOISE_MAX_PACKET_SIZE
      BY <1>1
    <3>2. CipherByte(text, 0, k * NOISE_MAX_PACKET_SIZE + 1) = PacketByte(text, 0, k, 1)
      BY <3>1, ByteIs
    <3> QED BY <3>2, <1>1
  <2>6. PacketByte(text, 0, k, 1).nonce = k
    <3>1. PacketByte(text, 0, k, 1).nonce = 0 + k
      BY DEF PacketByte
    <3> QED BY <3>1
  <2> QED BY <2>3, <2>4, <2>5, <2>6
<1>9. IsSeq(c, T)
  BY <1>7 DEF IsSeq
<1>10. IsCiphertext(c, T, n)
  BY <1>1, <1>6, <1>8, <1>9 DEF IsCiphertext
<1> QED BY <1>2, <1>3, <1>4, <1>5, <1>7, <1>10

(* The length and the nonce of a packet of a ciphertext. *)
LEMMA PacketOfIs ==
    ASSUME NEW c, NEW T, NEW n, IsCiphertext(c, T, n), NEW i \in 1 .. n
    PROVE  \E l \in Nat : /\ IsSeq(PacketOf(c, i), l) /\ l >= 1 /\ PacketOf(c, i)[1].nonce = i - 1
                          /\ i < n => l = NOISE_MAX_PACKET_SIZE
<1>1. PICK p \in Nat \ {0} : p = NOISE_MAX_PACKET_SIZE
  BY NoiseSizes
<1>2. T \in Nat /\ n \in Nat /\ n = num_packets(T, p) /\ IsSeq(c, T)
  BY <1>1 DEF IsCiphertext
<1>3. Len(c) = T
  BY <1>2, SeqIs
<1>4. PICK k \in Nat : k = i - 1 /\ k < n /\ k + 1 = i
  BY <1>2
<1>5. PICK a, l \in Nat : /\ a = k * p /\ l = chunk(k * p, T, p) /\ l >= 1
                          /\ k + 1 < n => l = p
  <2>1. k < num_packets(T, p)
    BY <1>2, <1>4
  <2>2. /\ k * p \in Nat /\ chunk(k * p, T, p) \in Nat /\ chunk(k * p, T, p) >= 1
        /\ k + 1 < num_packets(T, p) => chunk(k * p, T, p) = p
    BY <2>1, <1>2, ChunkIs
  <2> QED BY <2>2, <1>2
<1>6. PacketOf(c, i) = SubSeq(c, a + 1, a + l)
  BY <1>1, <1>3, <1>4, <1>5 DEF PacketOf
<1>7. IsSeq(SubSeq(c, a + 1, a + l), l) /\ \A j \in 1 .. l : SubSeq(c, a + 1, a + l)[j] = c[a + j]
  BY PartIs
<1>8. PacketOf(c, i)[1] = c[a + 1]
  <2>1. 1 \in 1 .. l
    BY <1>5
  <2> QED BY <2>1, <1>6, <1>7
<1>9. c[a + 1].nonce = k
  BY <1>1, <1>4, <1>5 DEF IsCiphertext
<1> QED BY <1>1, <1>4, <1>5, <1>6, <1>7, <1>8, <1>9

(* A choice of packets other than the first ones in order is refused. *)
LEMMA JoinedRefused ==
    ASSUME NEW c, NEW T, NEW n, IsCiphertext(c, T, n), NEW K \in 0 .. n, NEW f \in [1 .. K -> 1 .. n],
           \E i \in 1 .. K : f[i] # i
    PROVE  ~noise_decrypt_message_inplace(0, Joined(c, K, f)).ok
<1>1. PICK p \in Nat \ {0} : p = NOISE_MAX_PACKET_SIZE
  BY NoiseSizes
<1>2. n \in Nat /\ K \in Nat /\ K <= n
  BY DEF IsCiphertext
<1>3. PICK i \in 1 .. K : f[i] # i /\ \A j \in 1 .. K : j < i => f[j] = j
  <2> DEFINE D == {j \in Nat : j \in 1 .. K /\ f[j] # j}
  <2>1. D \in SUBSET Nat /\ D # {}
    <3>1. PICK i \in 1 .. K : f[i] # i
      OBVIOUS
    <3>2. i \in Nat
      BY <1>2
    <3>3. i \in D
      BY <3>1, <3>2
    <3> QED BY <3>3
  <2>2. PICK i \in D : \A j \in D : i <= j
    BY <2>1, LeastNumber
  <2>3. i \in 1 .. K /\ f[i] # i
    BY <2>2
  <2>4. ASSUME NEW j \in 1 .. K, j < i PROVE f[j] = j
    <3>1. j \in Nat /\ j \notin D
      BY <2>2, <2>3, <2>4, <1>2
    <3> QED BY <3>1
  <2> QED BY <2>3, <2>4
<1>4. PICK k \in Nat : i = k + 1 /\ k < K
  <2>1. i - 1 \in Nat /\ i = (i - 1) + 1 /\ i - 1 < K
    BY <1>2
  <2> QED BY <2>1
<1> DEFINE Def(v, m) == v \o PacketOf(c, f[m])
           first[m \in 0 .. K] == IF m = 0 THEN << >> ELSE first[m - 1] \o PacketOf(c, f[m])
<1>5. FiniteNatInductiveDefConclusion(first, << >>, Def, 0, K)
  <2>1. FiniteNatInductiveDefHypothesis(first, << >>, Def, 0, K)
    BY DEF FiniteNatInductiveDefHypothesis
  <2>2. K \in Nat /\ 0 \in Nat
    BY <1>2
  <2> HIDE DEF first, Def
  <2> QED BY <2>1, <2>2, FiniteNatInductiveDef
<1>6. first = [m \in 0 .. K |-> IF m = 0 THEN << >> ELSE Def(first[m - 1], m)]
  BY <1>5 DEF FiniteNatInductiveDefConclusion
<1>7. Joined(c, K, f) = first[K]
  BY DEF Joined
<1> HIDE DEF first
<1> DEFINE Good(m) == \E l \in Nat :
                        /\ IsSeq(first[m], l)
                        /\ m <= k => l = m * p
                        /\ m > k => l > k * p /\ first[m][k * p + 1].nonce = f[i] - 1
           S == {m \in Nat : m <= K => Good(m)}
<1>8. 0 \in S
  <2>1. first[0] = << >>
    <3>1. 0 \in 0 .. K
      BY <1>2
    <3> HIDE DEF Def
    <3> QED BY <3>1, <1>6, Zenon
  <2>2. IsSeq(first[0], 0)
    <3>1. << >> = [j \in 1 .. 0 |-> << >>[j]]
      OBVIOUS
    <3> QED BY <2>1, <3>1 DEF IsSeq
  <2>3. 0 * p = 0 /\ ~(0 > k)
    OBVIOUS
  <2>4. Good(0)
    BY <2>2, <2>3
  <2> QED BY <2>4
<1>9. ASSUME NEW m \in Nat, m \in S PROVE m + 1 \in S
  <2> HIDE DEF Good
  <2>1. SUFFICES ASSUME m + 1 <= K PROVE Good(m + 1)
    OBVIOUS
  <2>2. m < K /\ Good(m) /\ m + 1 \in 1 .. K
    BY <1>2, <1>9, <2>1
  <2>3. PICK l \in Nat : /\ IsSeq(first[m], l)
                         /\ m <= k => l = m * p
                         /\ m > k => l > k * p /\ first[m][k * p + 1].nonce = f[i] - 1
    BY <2>2 DEF Good
  <2>4. PICK q : q = f[m + 1] /\ q \in 1 .. n
    BY <2>2
  <2>6. \E h \in Nat : /\ IsSeq(PacketOf(c, q), h) /\ h >= 1 /\ PacketOf(c, q)[1].nonce = q - 1
                       /\ q < n => h = NOISE_MAX_PACKET_SIZE
    <3>1. q \in 1 .. n
      BY <2>4
    <3> QED BY <3>1, PacketOfIs, Zenon
  <2>7. PICK h \in Nat : /\ IsSeq(PacketOf(c, q), h) /\ h >= 1 /\ PacketOf(c, q)[1].nonce = q - 1
                         /\ q < n => h = p
    BY <2>6, <1>1
  <2>8. PICK s, u : s = first[m] /\ u = PacketOf(c, q) /\ IsSeq(s, l) /\ IsSeq(u, h)
    BY <2>3, <2>7
  <2>9. first[m + 1] = s \o u
    <3>1. m + 1 \in 0 .. K /\ m + 1 # 0 /\ (m + 1) - 1 = m
      BY <1>2, <2>1
    <3>2. first[m + 1] = Def(first[(m + 1) - 1], m + 1)
      <4> HIDE DEF Def
      <4> QED BY <3>1, <1>6, Zenon
    <3> QED BY <3>1, <3>2, <2>4, <2>8
  <2>10. PICK w : w = first[m + 1] /\ w = Join(s, u)
    BY <2>9 DEF Join
  <2>17. IsSeq(s, l) /\ IsSeq(u, h)
    BY <2>8
  <2>18. /\ IsSeq(Join(s, u), l + h)
         /\ \A x \in 1 .. l + h : Join(s, u)[x] = IF x <= l THEN s[x] ELSE u[x - l]
    BY <2>17, JoinIs
  <2>11. \A x \in 1 .. l + h : w[x] = IF x <= l THEN s[x] ELSE u[x - l]
    BY <2>10, <2>18
  <2>12. IsSeq(w, l + h)
    BY <2>10, <2>18
  <2>5. l + h \in Nat
    OBVIOUS
  <2>13. PICK b \in Nat : b = k * p
    OBVIOUS
  <2>14. CASE m + 1 <= k
    <3>1. q = m + 1 /\ q < n
      <4>1. m + 1 < i /\ m + 1 < n
        BY <2>14, <1>2, <1>4
      <4>2. f[m + 1] = m + 1
        BY <4>1, <2>2, <1>3
      <4> QED BY <4>1, <4>2, <2>4
    <3>2. l + h = (m + 1) * p
      <4>1. (m + 1) * p = m * p + p
        OBVIOUS
      <4>2. m <= k
        BY <2>14
      <4>3. l = m * p
        BY <4>2, <2>3
      <4>4. h = p
        BY <3>1, <2>7
      <4> QED BY <4>1, <4>3, <4>4
    <3>3. ~(m + 1 > k)
      BY <2>14
    <3> QED BY <3>2, <3>3, <2>5, <2>10, <2>12 DEF Good
  <2>15. CASE m = k
    <3>1. l = b /\ q = f[i]
      BY <2>3, <2>4, <2>13, <2>15, <1>4
    <3>2. b + 1 \in 1 .. l + h /\ ~(b + 1 <= l) /\ (b + 1) - l = 1
      <4>1. h >= 1
        BY <2>7
      <4>2. l = b
        BY <3>1
      <4> QED BY <4>1, <4>2
    <3>3. w[b + 1] = u[1]
      BY <3>2, <2>11
    <3>4. w[b + 1].nonce = f[i] - 1
      BY <3>1, <3>3, <2>7, <2>8
    <3>5. l + h > b /\ m + 1 > k /\ ~(m + 1 <= k)
      BY <3>1, <2>7, <2>15
    <3> QED BY <3>4, <3>5, <2>5, <2>10, <2>12, <2>13 DEF Good
  <2>16. CASE m > k
    <3>1. l > b /\ s[b + 1].nonce = f[i] - 1
      BY <2>3, <2>8, <2>13, <2>16
    <3>2. b + 1 \in 1 .. l + h /\ b + 1 <= l
      BY <3>1, <2>13
    <3>3. w[b + 1] = s[b + 1]
      BY <3>2, <2>11
    <3>4. l + h > b /\ m + 1 > k /\ ~(m + 1 <= k)
      BY <3>1, <2>16
    <3> QED BY <3>1, <3>3, <3>4, <2>5, <2>10, <2>12, <2>13 DEF Good
  <2> QED BY <2>14, <2>15, <2>16
<1> HIDE DEF S
<1>10. K \in S
  BY <1>2, <1>8, <1>9, SetInduction
<1>11. Good(K)
  BY <1>2, <1>10 DEF S
<1>12. PICK l \in Nat : IsSeq(first[K], l) /\ l > k * p /\ first[K][k * p + 1].nonce = f[i] - 1
  BY <1>4, <1>11
<1>13. k < num_packets(l, p)
  BY <1>12, MorePackets
<1>14. f[i] - 1 # 0 + k
  <2>1. f[i] \in 1 .. n
    OBVIOUS
  <2> QED BY <2>1, <1>2, <1>3, <1>4
<1>15. 0 \in Nat
  OBVIOUS
<1>16. ~noise_decrypt_message_inplace(0, first[K]).ok
  BY <1>1, <1>12, <1>13, <1>14, <1>15, Refused
<1> QED BY <1>7, <1>16

(* The first k packets are the ciphertext of the first data. *)
LEMMA FirstPackets ==
    ASSUME NEW text \in Seq(Nat), NEW k \in Nat, k < num_packets(Len(text), NOISE_MAX_DATA_SIZE)
    PROVE  noise_decrypt_message_inplace(0,
              SubSeq([x \in 1 .. ciphertext_size(text) |-> CipherByte(text, 0, x)], 1, k * NOISE_MAX_PACKET_SIZE))
            = [ok |-> TRUE, out |-> SubSeq(text, 1, k * NOISE_MAX_DATA_SIZE)]
<1>1. PICK p, m, d \in Nat \ {0} : p = NOISE_MAX_PACKET_SIZE /\ m = MAC_SIZE /\ d = NOISE_MAX_DATA_SIZE
                                   /\ p = d + m
  BY NoiseSizes
<1>2. PICK L \in Nat : L = Len(text)
  OBVIOUS
<1>3. PICK z \in Nat : z = 0 /\ z + 1 = 1 /\ \A j \in Nat : z + j = j
  OBVIOUS
<1>4. PICK D, P \in Nat : D = k * d /\ P = k * p /\ P = D + m * k
  <2>1. k * d \in Nat /\ k * p \in Nat /\ k * p = k * d + m * k
    BY <1>1
  <2> QED BY <2>1
<1>5. D < L
  <2>1. k + 1 \in 1 .. num_packets(L, d) /\ (k + 1) - 1 = k
    <3>1. num_packets(L, d) \in Nat
      BY PacketsIs
    <3> QED BY <3>1, <1>1, <1>2
  <2>2. ((k + 1) - 1) * d < L
    BY <2>1, PacketsIs
  <2> QED BY <2>1, <2>2, <1>4
<1>6. PICK t : t = SubSeq(text, z + 1, z + D) /\ IsSeq(t, D) /\ Len(t) = D /\ \A j \in 1 .. D : t[j] = text[j]
  <2>1. /\ IsSeq(SubSeq(text, z + 1, z + D), D) /\ Len(SubSeq(text, z + 1, z + D)) = D
        /\ \A j \in 1 .. D : SubSeq(text, z + 1, z + D)[j] = text[z + j]
    BY PartIs
  <2>2. \A j \in 1 .. D : z + j = j
    BY <1>3
  <2>3. \A j \in 1 .. D : SubSeq(text, z + 1, z + D)[j] = text[j]
    BY <2>1, <2>2
  <2> QED BY <2>1, <2>3
<1>7. t \in Seq(Nat)
  <2>1. \A j \in 1 .. D : t[j] \in Nat
    <3>1. \A j \in 1 .. D : j \in 1 .. Len(text)
      BY <1>2, <1>5
    <3>2. \A j \in 1 .. D : text[j] \in Nat
      BY ONLY <3>1, text \in Seq(Nat)
    <3> QED BY ONLY <3>2, <1>6
  <2> QED BY <2>1, <1>6, SeqIs
<1>8. num_packets(D, d) = k
  <2>1. CASE k = 0
    <3>1. D = 0
      BY <2>1, <1>4
    <3> QED BY <3>1, <2>1, PacketsIs
  <2>2. CASE k > 0
    <3>1. k - 1 \in Nat /\ (k - 1) * d = k * d - d
      BY <2>2
    <3>2. D <= k * d /\ (k - 1) * d < D
      BY <3>1, <1>4
    <3> QED BY <3>2, <2>2, PacketsAre
  <2> QED BY <2>1, <2>2
<1>9. ciphertext_size(t) = P
  BY <1>1, <1>4, <1>6, <1>8 DEF ciphertext_size
<1>10. PICK N \in Nat : N = num_packets(L, d) /\ k < N /\ ciphertext_size(text) = L + m * N
  <2>1. num_packets(L, d) \in Nat
    BY PacketsIs
  <2> QED BY <2>1, <1>1, <1>2 DEF ciphertext_size
<1>11. PICK S \in Nat : S = ciphertext_size(text) /\ P <= S
  <2>1. L + m * N \in Nat
    OBVIOUS
  <2>2. k <= N /\ m \in Nat
    BY <1>10
  <2>3. k * m <= N * m
    BY <2>2, TimesGrows
  <2>4. PICK u, v \in Nat : u = m * k /\ v = m * N /\ u = k * m /\ v = N * m
    OBVIOUS
  <2>5. u <= v /\ P = D + u /\ ciphertext_size(text) = L + v
    BY <2>3, <2>4, <1>4, <1>10
  <2> QED BY <2>5, <1>5
<1>12. ASSUME NEW q \in Nat, q < k PROVE DataOf(t, q) = DataOf(text, q)
  <2>1. PICK a \in Nat : a = q * d /\ a + d <= D
    <3>1. q + 1 \in Nat /\ q + 1 <= k /\ (q + 1) * d = q * d + d /\ q * d \in Nat
      BY <1>12
    <3>2. (q + 1) * d <= k * d
      BY <3>1, TimesGrows
    <3> QED BY <3>1, <3>2, <1>4
  <2>2. chunk(a, D, d) = d /\ chunk(a, L, d) = d
    BY <2>1, <1>5 DEF chunk
  <2>3. DataOf(t, q) = SubSeq(t, a + 1, a + d) /\ DataOf(text, q) = SubSeq(text, a + 1, a + d)
    BY <2>1, <2>2, <1>1, <1>2, <1>6 DEF DataOf
  <2>4. PICK u, v : u = SubSeq(t, a + 1, a + d) /\ v = SubSeq(text, a + 1, a + d)
    OBVIOUS
  <2>5. /\ IsSeq(u, d) /\ \A j \in 1 .. d : u[j] = t[a + j]
        /\ IsSeq(v, d) /\ \A j \in 1 .. d : v[j] = text[a + j]
    BY <2>4, PartIs
  <2>6. \A j \in 1 .. d : t[a + j] = text[a + j]
    <3>1. \A j \in 1 .. d : a + j \in 1 .. D
      BY <2>1
    <3> QED BY <3>1, <1>6
  <2> QED BY <2>3, <2>4, <2>5, <2>6 DEF IsSeq
<1>13. ASSUME NEW x \in 1 .. P PROVE CipherByte(t, 0, x) = CipherByte(text, 0, x)
  <2>1. x - 1 \in Nat
    OBVIOUS
  <2>2. PICK q, r \in Nat : x - 1 = p * q + r /\ r < p /\ q = (x - 1) \div p /\ r = (x - 1) % p
    BY <2>1, DivMod
  <2>3. q < k
    <3>1. SUFFICES ASSUME k <= q PROVE FALSE
      OBVIOUS
    <3>2. k * p <= q * p /\ q * p = p * q /\ k * p \in Nat /\ p * q \in Nat
      BY <3>1, TimesGrows
    <3> QED BY <3>2, <2>2, <1>4
  <2>4. DataOf(t, q) = DataOf(text, q)
    BY <2>3, <1>12
  <2>5. PacketByte(t, 0, q, r + 1) = PacketByte(text, 0, q, r + 1)
    BY <2>4 DEF PacketByte
  <2> QED BY <2>2, <2>5, <1>1 DEF CipherByte
<1>14. PICK c : c = [x \in 1 .. S |-> CipherByte(text, 0, x)]
  OBVIOUS
<1>15. SubSeq(c, z + 1, z + P) = [x \in 1 .. P |-> CipherByte(t, 0, x)]
  <2>1. PICK e : e = SubSeq(c, z + 1, z + P)
    OBVIOUS
  <2>2. IsSeq(e, P) /\ \A j \in 1 .. P : e[j] = c[z + j]
    <3>1. IsPart(SubSeq(c, z + 1, z + P), c, z, P)
      BY ONLY PartOf, z \in Nat, P \in Nat
    <3>2. IsPart(e, c, z, P)
      BY ONLY <2>1, <3>1
    <3> QED BY ONLY <3>2 DEF IsPart
  <2>3. ASSUME NEW j \in 1 .. P PROVE e[j] = CipherByte(t, 0, j)
    <3>1. j \in 1 .. S /\ z + j = j
      BY <1>3, <1>11
    <3>2. e[j] = c[j] /\ c[j] = CipherByte(text, 0, j)
      BY <3>1, <2>2, <1>14
    <3> QED BY <3>2, <1>13
  <2> QED BY <2>1, <2>2, <2>3 DEF IsSeq
<1>16. noise_decrypt_message_inplace(0, [x \in 1 .. ciphertext_size(t) |-> CipherByte(t, 0, x)]) = [ok |-> TRUE, out |-> t]
  <2>1. 0 \in Nat
    OBVIOUS
  <2> QED BY <2>1, <1>7, Decrypted
<1>17. noise_decrypt_message_inplace(0, SubSeq(c, z + 1, z + P)) = [ok |-> TRUE, out |-> t]
  BY <1>9, <1>15, <1>16
<1>18. z + P = P /\ z + D = D /\ z + 1 = 1
  BY <1>3
<1>19. noise_decrypt_message_inplace(0, SubSeq(c, 1, P)) = [ok |-> TRUE, out |-> SubSeq(text, 1, D)]
  BY <1>6, <1>17, <1>18
<1> QED BY <1>1, <1>4, <1>11, <1>14, <1>19

(* A message decrypts in its buffer, and of other choices of its packets    *)
(* only the first ones.                                                     *)
LEMMA InPlace == ASSUME NEW text \in Seq(Nat) PROVE DecryptsInPlace(text)
<1>1. PICK p \in Nat \ {0} : p = NOISE_MAX_PACKET_SIZE
  BY NoiseSizes
<1>2. PICK c, T, N : /\ c = [x \in 1 .. ciphertext_size(text) |-> CipherByte(text, 0, x)]
                     /\ T = ciphertext_size(text) /\ N = num_packets(Len(text), NOISE_MAX_DATA_SIZE)
  OBVIOUS
<1>3. c = noise_encrypt_message(0, text, ciphertext_size(text)).out /\ IsCiphertext(c, T, N)
  BY <1>2, CiphertextIs
<1>4. T \in Nat /\ N \in Nat /\ IsSeq(c, T) /\ N = num_packets(T, p)
  BY <1>1, <1>3 DEF IsCiphertext
<1>5. Len(c) = T /\ N = num_packets(Len(c), NOISE_MAX_PACKET_SIZE)
  <2>1. Len(c) = T
    BY <1>4, SeqIs
  <2> QED BY <2>1, <1>1, <1>4
<1>6. \A k \in Nat : k < N => k * p + 1 <= T /\ c[k * p + 1].nonce = k
  BY <1>1, <1>3 DEF IsCiphertext
<1>7. 0 \in Nat /\ 1 \in Nat /\ 0 * p = 0 /\ 1 * p = p
  OBVIOUS
<1>8. noise_decrypt_message_inplace(0, c) = [ok |-> TRUE, out |-> text]
  BY <1>2, <1>7, Decrypted
<1>9. ASSUME text # << >> PROVE ~noise_decrypt_message_inplace(1, c).ok
  <2>1. Len(text) \in Nat /\ Len(text) # 0
    <3>1. Len(text) = 0 => text = << >>
      BY EmptySeq
    <3> QED BY <3>1, <1>9
  <2>2. 0 < N
    <3>1. PICK d \in Nat \ {0} : d = NOISE_MAX_DATA_SIZE
      BY NoiseSizes
    <3>2. N = num_packets(Len(text), d)
      BY <3>1, <1>2
    <3>3. N # 0
      BY <2>1, <3>1, <3>2, PacketsIs
    <3> QED BY <3>3, <1>4
  <2>3. c[0 * p + 1].nonce = 0
    BY <2>2, <1>6, <1>7
  <2>4. c[0 * p + 1].nonce # 1 + 0
    BY <2>3
  <2> QED BY <2>2, <2>4, <1>1, <1>4, <1>7, Refused
<1>10. ASSUME NEW k \in 0 .. N, NEW f \in [1 .. k -> 1 .. N], \E i \in 1 .. k : f[i] # i
       PROVE  ~noise_decrypt_message_inplace(0, Joined(c, k, f)).ok
  BY <1>3, <1>10, JoinedRefused
<1>11. ASSUME NEW k \in 0 .. N - 1
       PROVE  noise_decrypt_message_inplace(0, SubSeq(c, 1, k * NOISE_MAX_PACKET_SIZE))
                = [ok |-> TRUE, out |-> SubSeq(text, 1, k * NOISE_MAX_DATA_SIZE)]
  <2>1. k \in Nat /\ k < N
    BY <1>4
  <2> QED BY <2>1, <1>2, FirstPackets
<1> QED BY <1>1, <1>3, <1>5, <1>8, <1>9, <1>10, <1>11 DEF DecryptsInPlace

(* noise.c: for packets and messages of any size, a message fills exactly   *)
(* the buffer computed for it and decrypts to itself in place.  Packets in  *)
(* another order, repeated, under other nonces, or with one missing before  *)
(* one that is there, are refused; a message whose last packets are missing *)
(* is accepted as the data of the first ones.                               *)
THEOREM NoiseIsDelivered == []NoiseDelivers
<1>1. NoiseDelivers
  <2>1. SUFFICES ASSUME job \in NoiseJobs PROVE FitsExactly(job.text) /\ DecryptsInPlace(job.text)
    BY DEF NoiseDelivers
  <2>2. job.text \in Plaintexts
    BY <2>1 DEF NoiseJobs
  <2>3. job.text \in Seq(Nat)
    BY <2>2, NoiseAssumption
  <2> QED BY <2>3, Fits, InPlace
<1> QED BY <1>1, PTL
=============================================================================
