--------------------------- MODULE EnclaveClients ---------------------------
(***************************************************************************)
(* c/enclave/enc.c: the clients of the enclave, its one-time               *)
(* initialisation and the rotation of its attested key.                    *)
(*                                                                         *)
(* Threads are calls into the enclave.  The host may make any call at any  *)
(* time with any client handle, also one that was closed or never given    *)
(* out; a handle is the address of a client_t.  The word acq, in which the *)
(* source fuses a secret with the state of a client, is DEAD, UNUSED or    *)
(* INUSE; memory that is not a live client does not hold the secret, so    *)
(* its word is DEAD.  The steps of a call between two accesses to shared   *)
(* state are one step.                                                     *)
(***************************************************************************)
EXTENDS Naturals

CONSTANTS
    Threads,        \* threads of the host inside the enclave
    Clients,        \* addresses at which a client_t can be allocated
    MAX_KEYS        \* bound: how many private keys are generated

ASSUME EnclaveClientsAssumption == MAX_KEYS \in Nat

VARIABLES
    init_done,      \* g_init_done
    keys,           \* private keys generated so far
    privkey,        \* g_privkey, 0 before the first
    handshakestart, \* the key attested by g_handshakestart, 0 if there is none
    readers,        \* threads that hold g_handshakestart_mu for reading
    writer,         \* threads that hold it for writing
    heap,           \* heap[c]: is there a client_t at c
    acq,            \* acq[c]
    cl,             \* cl[c]: the other fields of the client
    pc, op, cli,    \* control of a thread, its call and that call's client
    new_key         \* the key enclave_attest has generated

globals == <<init_done, keys, privkey, handshakestart>>
locks   == <<readers, writer>>
memory  == <<heap, acq, cl>>
control == <<pc, op, cli, new_key>>
vars    == <<globals, locks, memory, control>>

Ops == {"handshake", "rate_limit", "run", "close"}

(* handshake is the Noise handshake state: none, fresh or already started;  *)
(* session says that send and recv are set; key is the private key the      *)
(* client was given and report the one attested in what its caller got.     *)
Fields == [workspace : BOOLEAN, req : BOOLEAN, handshake : {"none", "new", "started"},
           session : BOOLEAN, key : 0 .. MAX_KEYS, report : 0 .. MAX_KEYS]
Zeroed == [workspace |-> FALSE, req |-> FALSE, handshake |-> "none",
           session |-> FALSE, key |-> 0, report |-> 0]

Pcs == {"idle", "initializing", "called", "body", "query", "unlock", "free",
        "attest", "attest_key", "attest_report", "attest_unlock",
        "new", "new_key", "new_report", "new_add", "new_publish", "new_unlock", "new_fail"}

TypeOK ==
    /\ init_done \in {"UNINITIALIZED", "INITIALIZING", "INITIALIZED"}
    /\ keys \in 0 .. MAX_KEYS /\ privkey \in 0 .. MAX_KEYS /\ handshakestart \in 0 .. MAX_KEYS
    /\ readers \subseteq Threads /\ writer \subseteq Threads
    /\ heap \in [Clients -> BOOLEAN]
    /\ acq \in [Clients -> {"DEAD", "UNUSED", "INUSE"}]
    /\ cl \in [Clients -> Fields]
    /\ pc \in [Threads -> Pcs]
    /\ op \in [Threads -> Ops]
    /\ cli \in [Threads -> Clients]
    /\ new_key \in [Threads -> 0 .. MAX_KEYS]

Init ==
    /\ init_done = "UNINITIALIZED"
    /\ keys = 0 /\ privkey = 0 /\ handshakestart = 0
    /\ readers = {} /\ writer = {}
    /\ heap = [c \in Clients |-> FALSE]
    /\ acq = [c \in Clients |-> "DEAD"]
    /\ cl = [c \in Clients |-> Zeroed]
    /\ pc = [t \in Threads |-> "idle"]
    /\ op \in [Threads -> Ops] /\ cli \in [Threads -> Clients]
    /\ new_key = [t \in Threads |-> 0]

Goto(t, l) == pc' = [pc EXCEPT ![t] = l]

-----------------------------------------------------------------------------
(* Mutant: nothing keeps two threads from initialising at once. *)
init_claims_any == TRUE
(* The compare-exchange of enclave_init; a second call gets REINIT. *)
init_claims == init_done = "UNINITIALIZED"

enclave_init(t) ==
    /\ pc[t] = "idle" /\ init_claims
    /\ init_done' = "INITIALIZING"
    /\ Goto(t, "initializing")
    /\ UNCHANGED <<keys, privkey, handshakestart, locks, memory, op, cli, new_key>>

(* generate_privkey, the secret and the table; or generate_privkey fails   *)
(* and enclave_init may be called again.                                   *)
enclave_init_done(t) ==
    /\ pc[t] = "initializing"
    /\ \/ /\ keys < MAX_KEYS
          /\ keys' = keys + 1
          /\ privkey' = keys + 1
          /\ init_done' = "INITIALIZED"
       \/ /\ init_done' = "UNINITIALIZED"
          /\ UNCHANGED <<keys, privkey>>
    /\ Goto(t, "idle")
    /\ UNCHANGED <<handshakestart, locks, memory, op, cli, new_key>>

-----------------------------------------------------------------------------
(* enclave_attest up to wrap_in_ereport: a new key and its evidence.  If   *)
(* there is no evidence the call fails here and nothing has changed.       *)
enclave_attest(t) ==
    /\ pc[t] = "idle" /\ init_done = "INITIALIZED"
    /\ keys < MAX_KEYS
    /\ keys' = keys + 1
    /\ new_key' = [new_key EXCEPT ![t] = keys + 1]
    /\ Goto(t, "attest")
    /\ UNCHANGED <<init_done, privkey, handshakestart, locks, memory, op, cli>>

wrlock_free == readers = {} /\ writer = {}
rdlock_free == writer = {}

(* Mutant: the key is changed without the lock. *)
attest_wrlock_none(t) ==
    /\ pc[t] = "attest"
    /\ Goto(t, "attest_key")
    /\ UNCHANGED <<globals, locks, memory, op, cli, new_key>>

attest_wrlock(t) ==
    /\ pc[t] = "attest" /\ wrlock_free
    /\ writer' = writer \cup {t}
    /\ Goto(t, "attest_key")
    /\ UNCHANGED <<globals, readers, memory, op, cli, new_key>>

attest_key(t) ==
    /\ pc[t] = "attest_key"
    /\ privkey' = new_key[t]
    /\ Goto(t, "attest_report")
    /\ UNCHANGED <<init_done, keys, handshakestart, locks, memory, op, cli, new_key>>

attest_report(t) ==
    /\ pc[t] = "attest_report"
    /\ handshakestart' = new_key[t]
    /\ Goto(t, "attest_unlock")
    /\ UNCHANGED <<init_done, keys, privkey, locks, memory, op, cli, new_key>>

attest_unlock(t) ==
    /\ pc[t] = "attest_unlock"
    /\ writer' = writer \ {t}
    /\ Goto(t, "idle")
    /\ UNCHANGED <<globals, readers, memory, op, cli, new_key>>

-----------------------------------------------------------------------------
(* enclave_new_client: zeroed memory with a fresh Noise handshake; if there *)
(* is no memory for that the client is freed at once.                       *)
enclave_new_client(t, c) ==
    /\ pc[t] = "idle" /\ init_done = "INITIALIZED"
    /\ ~heap[c]
    /\ heap' = [heap EXCEPT ![c] = TRUE]
    /\ cli' = [cli EXCEPT ![t] = c]
    /\ \/ /\ cl' = [cl EXCEPT ![c] = [Zeroed EXCEPT !.handshake = "new"]]
          /\ Goto(t, "new")
       \/ /\ cl' = [cl EXCEPT ![c] = Zeroed]
          /\ Goto(t, "free")
    /\ UNCHANGED <<globals, locks, acq, op, new_key>>

new_rdlock(t) ==
    /\ pc[t] = "new" /\ rdlock_free
    /\ readers' = readers \cup {t}
    /\ Goto(t, "new_key")
    /\ UNCHANGED <<globals, writer, memory, op, cli, new_key>>

(* The keypair is set, unless the caller's buffer is too small. *)
new_set_key(t) ==
    /\ pc[t] = "new_key"
    /\ \/ /\ cl' = [cl EXCEPT ![cli[t]].key = privkey]
          /\ Goto(t, "new_report")
       \/ /\ Goto(t, "new_fail")
          /\ UNCHANGED cl
    /\ UNCHANGED <<globals, locks, heap, acq, op, cli, new_key>>

new_copy_report(t) ==
    /\ pc[t] = "new_report"
    /\ cl' = [cl EXCEPT ![cli[t]].report = handshakestart]
    /\ Goto(t, "new_add")
    /\ UNCHANGED <<globals, locks, heap, acq, op, cli, new_key>>

client_add(t) ==
    /\ pc[t] = "new_add"
    /\ acq' = [acq EXCEPT ![cli[t]] = "INUSE"]
    /\ Goto(t, "new_publish")
    /\ UNCHANGED <<globals, locks, heap, cl, op, cli, new_key>>

(* client_setstate: the client can be used from here on. *)
new_publish(t) ==
    /\ pc[t] = "new_publish"
    /\ acq' = IF acq[cli[t]] = "INUSE" THEN [acq EXCEPT ![cli[t]] = "UNUSED"] ELSE acq
    /\ Goto(t, "new_unlock")
    /\ UNCHANGED <<globals, locks, heap, cl, op, cli, new_key>>

(* unlock_handshake, and free_client after an error. *)
new_unlock(t) ==
    /\ pc[t] \in {"new_unlock", "new_fail"}
    /\ readers' = readers \ {t}
    /\ Goto(t, IF pc[t] = "new_fail" THEN "free" ELSE "idle")
    /\ UNCHANGED <<globals, writer, memory, op, cli, new_key>>

-----------------------------------------------------------------------------
Call(t, o, c) ==
    /\ pc[t] = "idle" /\ init_done = "INITIALIZED"
    /\ op' = [op EXCEPT ![t] = o]
    /\ cli' = [cli EXCEPT ![t] = c]
    /\ Goto(t, "called")
    /\ UNCHANGED <<globals, locks, memory, new_key>>

(* Mutant: the state is not part of the comparison. *)
acquires_any(c) == acq[c] # "DEAD"
(* The compare-exchange of client_get and client_remove. *)
acquires(c) == acq[c] = "UNUSED"

(* client_get *)
client_get(t) ==
    /\ pc[t] = "called" /\ op[t] # "close"
    /\ \/ /\ acquires(cli[t])
          /\ acq' = [acq EXCEPT ![cli[t]] = "INUSE"]
          /\ Goto(t, "body")
       \/ /\ ~acquires(cli[t])
          /\ Goto(t, "idle")
          /\ UNCHANGED acq
    /\ UNCHANGED <<globals, locks, heap, cl, op, cli, new_key>>

(* Mutant: the client stays live while it is being freed. *)
after_remove_live == "UNUSED"
after_remove == "DEAD"

(* client_remove *)
client_remove(t) ==
    /\ pc[t] = "called" /\ op[t] = "close"
    /\ \/ /\ acquires(cli[t])
          /\ acq' = [acq EXCEPT ![cli[t]] = after_remove]
          /\ Goto(t, "free")
       \/ /\ ~acquires(cli[t])
          /\ Goto(t, "idle")
          /\ UNCHANGED acq
    /\ UNCHANGED <<globals, locks, heap, cl, op, cli, new_key>>

(* client_free: the word, everything the client owns, and the client. *)
client_free(t) ==
    /\ pc[t] = "free"
    /\ acq' = [acq EXCEPT ![cli[t]] = "DEAD"]
    /\ cl' = [cl EXCEPT ![cli[t]] = Zeroed]
    /\ heap' = [heap EXCEPT ![cli[t]] = FALSE]
    /\ Goto(t, "idle")
    /\ UNCHANGED <<globals, locks, op, cli, new_key>>

(* enclave_handshake: a handshake that has been started cannot be started  *)
(* again; the first one succeeds or leaves it started.                     *)
enclave_handshake(t) ==
    /\ pc[t] = "body" /\ op[t] = "handshake"
    /\ IF cl[cli[t]].handshake = "new"
       THEN \/ cl' = [cl EXCEPT ![cli[t]].handshake = "none", ![cli[t]].session = TRUE]
            \/ cl' = [cl EXCEPT ![cli[t]].handshake = "started"]
       ELSE UNCHANGED cl
    /\ Goto(t, "unlock")
    /\ UNCHANGED <<globals, locks, heap, acq, op, cli, new_key>>

(* Mutant: the first test of enclave_rate_limit is dropped. *)
rate_limit_allowed_any(f) == TRUE
(* The first test of enclave_rate_limit. *)
rate_limit_allowed(f) == ~f.req /\ f.session /\ ~f.workspace

(* enclave_rate_limit: it fails before it allocates the workspace, after   *)
(* it, or gets as far as the token.                                        *)
enclave_rate_limit(t) ==
    /\ pc[t] = "body" /\ op[t] = "rate_limit"
    /\ \/ UNCHANGED cl
       \/ /\ rate_limit_allowed(cl[cli[t]])
          /\ \/ cl' = [cl EXCEPT ![cli[t]].workspace = TRUE]
             \/ cl' = [cl EXCEPT ![cli[t]].workspace = TRUE, ![cli[t]].req = TRUE]
    /\ Goto(t, "unlock")
    /\ UNCHANGED <<globals, locks, heap, acq, op, cli, new_key>>

(* enclave_run: the request that enclave_rate_limit kept is read, and the  *)
(* client stays in use while the table is queried.                         *)
enclave_run(t) ==
    /\ pc[t] = "body" /\ op[t] = "run"
    /\ Goto(t, IF cl[cli[t]].req /\ cl[cli[t]].session THEN "query" ELSE "unlock")
    /\ UNCHANGED <<globals, locks, memory, op, cli, new_key>>

run_query(t) ==
    /\ pc[t] = "query"
    /\ Goto(t, "unlock")
    /\ UNCHANGED <<globals, locks, memory, op, cli, new_key>>

(* Mutant: an early return leaves the client in use. *)
client_unlock_skipped(t) ==
    /\ pc[t] = "unlock"
    /\ Goto(t, "idle")
    /\ UNCHANGED <<globals, locks, memory, op, cli, new_key>>
(* client_unlock: client_setstate back to UNUSED. *)
client_unlock(t) ==
    /\ pc[t] = "unlock"
    /\ acq' = IF acq[cli[t]] = "INUSE" THEN [acq EXCEPT ![cli[t]] = "UNUSED"] ELSE acq
    /\ Goto(t, "idle")
    /\ UNCHANGED <<globals, locks, heap, cl, op, cli, new_key>>

-----------------------------------------------------------------------------
Step(t) ==
    \/ enclave_init_done(t)
    \/ attest_wrlock(t) \/ attest_key(t) \/ attest_report(t) \/ attest_unlock(t)
    \/ new_rdlock(t) \/ new_set_key(t) \/ new_copy_report(t) \/ client_add(t)
    \/ new_publish(t) \/ new_unlock(t)
    \/ client_get(t) \/ client_remove(t) \/ client_free(t)
    \/ enclave_handshake(t) \/ enclave_rate_limit(t) \/ enclave_run(t) \/ run_query(t)
    \/ client_unlock(t)

Start(t) ==
    \/ enclave_init(t) \/ enclave_attest(t)
    \/ \E c \in Clients : enclave_new_client(t, c)
    \/ \E c \in Clients, o \in Ops : Call(t, o, c)

Next == \E t \in Threads : Step(t) \/ Start(t)

Spec == Init /\ [][Next]_vars

(* A thread inside the enclave is scheduled. *)
FairSpec == Spec /\ \A t \in Threads : WF_vars(Step(t))

-----------------------------------------------------------------------------
(* Threads inside a client: they read or write its fields. *)
Inside(t, c) ==
    /\ cli[t] = c
    /\ pc[t] \in {"body", "query", "unlock", "free", "new", "new_key", "new_report",
                  "new_add", "new_publish", "new_fail"}

(* Whatever the host does with handles, one thread at a time is inside a    *)
(* client, and only while the client is allocated: no use after free, no    *)
(* double free, no two calls on one client.                                 *)
ExclusiveClient ==
    \A t \in Threads, c \in Clients : Inside(t, c) =>
        /\ heap[c]
        /\ acq[c] # "UNUSED"
        /\ \A u \in Threads : Inside(u, c) => u = t

(* A client that can be acquired is allocated and has been completely set   *)
(* up; an allocated one is acquirable, or in the hands of a thread that     *)
(* will publish, release or free it: none is lost.                          *)
NoClientLost ==
    \A c \in Clients :
        /\ acq[c] # "DEAD" => heap[c] /\ cl[c].key # 0
        /\ heap[c] /\ acq[c] # "UNUSED" => \E t \in Threads : Inside(t, c)

(* The key a client's handshake uses is the one attested in the evidence    *)
(* that its caller received, across any number of rotations: new clients    *)
(* and enclave_attest do not see each other's halves.                       *)
KeyIsAttested ==
    \A c \in Clients : acq[c] # "DEAD" => cl[c].report \in {0, cl[c].key}

(* The stages of a client come in order: no request is kept before there is *)
(* a session, and a session replaces its handshake.                         *)
StagesInOrder ==
    \A c \in Clients :
        /\ cl[c].req => cl[c].session /\ cl[c].workspace
        /\ cl[c].workspace => cl[c].session
        /\ cl[c].session => cl[c].handshake = "none"

(* The CHECK at the end of enclave_init cannot fail: nobody else moves       *)
(* g_init_done while a thread initialises the enclave.                      *)
InitCheckHolds ==
    \A t \in Threads : pc[t] = "initializing" =>
        /\ init_done = "INITIALIZING"
        /\ \A u \in Threads : pc[u] = "initializing" => u = t

(* No call leaves a client locked: every client that is in use is released  *)
(* or freed.                                                                *)
AlwaysReleased == \A c \in Clients : []<>(acq[c] # "INUSE")

-----------------------------------------------------------------------------
(* Who holds g_handshakestart_mu, and what it protects. *)
LockInv ==
    /\ \A t \in Threads : t \in writer <=> pc[t] \in {"attest_key", "attest_report", "attest_unlock"}
    /\ \A t \in Threads : t \in readers <=>
          pc[t] \in {"new_key", "new_report", "new_add", "new_publish", "new_unlock", "new_fail"}
    /\ \A t, u \in Threads : t \in writer => u \notin readers /\ (u \in writer => u = t)
    /\ (\A t \in Threads : pc[t] # "attest_report") => handshakestart \in {0, privkey}
    /\ \A t \in Threads : pc[t] = "attest_report" => privkey = new_key[t]
    /\ \A t \in Threads : pc[t] = "new_report" => cl[cli[t]].key = privkey
    /\ \A t \in Threads : pc[t] \in {"new_add", "new_publish"} =>
          cl[cli[t]].key # 0 /\ cl[cli[t]].report \in {0, cl[cli[t]].key}

(* A client is un-acquirable while it is set up or torn down, and in use    *)
(* while a call is inside it.                                               *)
WordInv ==
    \A t \in Threads :
        /\ pc[t] \in {"new", "new_key", "new_report", "new_add", "new_fail", "free"} =>
              acq[cli[t]] = "DEAD"
        /\ pc[t] \in {"new_publish", "body", "query", "unlock"} => acq[cli[t]] = "INUSE"

(* A key exists as soon as clients can be created, and nothing is attested  *)
(* before that.                                                             *)
KeyedInv ==
    /\ init_done = "INITIALIZED" => privkey # 0
    /\ init_done # "INITIALIZED" => handshakestart = 0
    /\ \A t \in Threads : pc[t] \notin {"idle", "initializing"} => init_done = "INITIALIZED"
    /\ \A t \in Threads : pc[t] \in {"attest", "attest_key", "attest_report"} => new_key[t] # 0

(* The inductive invariant: all of the above. *)
ClientInv ==
    /\ TypeOK /\ ExclusiveClient /\ NoClientLost /\ KeyIsAttested /\ StagesInOrder
    /\ InitCheckHolds /\ LockInv /\ WordInv /\ KeyedInv
=============================================================================
