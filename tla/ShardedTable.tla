---------------------------- MODULE ShardedTable ----------------------------
(***************************************************************************)
(* c/sharded_ohtable/sharded_ohtable.c and the entry points that use it:   *)
(* enclave_load_pb, the query of enclave_run, enclave_table_statistics.    *)
(* Many threads share the table.  Each of them gives every shard a         *)
(* request, one shard after the other, and then waits for the shards one   *)
(* by one; the worker of a shard serves its requests in their order (see   *)
(* SerialShard).  Which keys a batch brings to which shard is in Batching. *)
(***************************************************************************)
EXTENDS ShardSet, Sequences, FiniteSets

CONSTANTS
    Clients, Loader,        \* threads in enclave_run, the one in enclave_load_pb
    Keys, ShardOf,          \* the shard of each key
    Vals, Absent,           \* contents of records
    Queries,                \* sets of keys that a client asks for
    Loads,                  \* messages for enclave_load_pb
    MAX_LOADS, MAX_FAILURES \* bounds: loads, requests that fail in a shard

Threads == Clients \cup {Loader}

ASSUME ShardedTableAssumption ==
    /\ ShardOf \in [Keys -> Shards]
    /\ Absent \notin Vals /\ Loader \notin Clients
    /\ IsFiniteSet(Keys) /\ IsFiniteSet(Clients)
    /\ Queries \subseteq SUBSET Keys
    /\ \A msg \in Loads : /\ msg.clear_all \in BOOLEAN /\ msg.whole \in BOOLEAN
                          /\ DOMAIN msg.records \subseteq Keys
                          /\ msg.records \in [DOMAIN msg.records -> Vals]
    /\ MAX_LOADS \in Nat /\ MAX_FAILURES \in Nat

VARIABLES
    table,      \* the records, of all shards
    num_items,  \* num_items[sh]: the counter of a shard's ohtable
    requests,   \* requests[sh]: the queue of a shard
    call,       \* call[t]: what thread t is doing
    secret,     \* g_shared_secret_bytes and _size
    load,       \* what enclave_load_pb is doing besides
    stats,      \* stats[c]: the sum that enclave_table_statistics is making
    failures,
    seen        \* seen[t][k]: what k has been since t began (not in the source)

vars == <<table, num_items, requests, call, secret, load, stats, failures, seen>>

(* A call: the type of the requests it makes, the keys or records, the      *)
(* shard it is at and whether it submits to it, will wait or waits; the     *)
(* answers, and the shards that failed.                                     *)
Idle == [pc |-> "idle"]
Call(type, batch) ==
    [pc |-> "submit", type |-> type, batch |-> batch, sh |-> 0,
     answer |-> [k \in DOMAIN batch |-> Absent], failed |-> {}]
NoKeys == [k \in {} |-> Absent]
NoStats == [sh |-> 0, sum |-> 0, quiet |-> TRUE]
KeysOf(sh) == {k \in Keys : ShardOf[k] = sh}

Init ==
    /\ table = [k \in Keys |-> Absent]
    /\ num_items = [sh \in Shards |-> 1]       \* the zero record
    /\ requests = [sh \in Shards |-> << >>]
    /\ call = [t \in Threads |-> Idle]
    /\ secret = "zero" /\ load = [pc |-> "idle", done |-> 0] /\ failures = 0
    /\ stats = [c \in Clients |-> NoStats]
    /\ seen = [t \in Threads |-> [k \in Keys |-> {}]]

(* Thread t begins a call. *)
begins(t) == seen' = [seen EXCEPT ![t] = [k \in Keys |-> {table[k]}]]
(* The records change: every thread that is in a call may see it. *)
becomes(new, counts) ==
    /\ table' = new /\ num_items' = counts
    /\ seen' = [t \in Threads |-> [k \in Keys |->
                    IF call[t] = Idle THEN {} ELSE seen[t][k] \cup {new[k]}]]
    /\ stats' = [c \in Clients |-> [stats[c] EXCEPT !.quiet = @ /\ counts = num_items]]

-----------------------------------------------------------------------------
(* batch_queries and prepare_query_batches, up to the shards, called by     *)
(* sharded_ohtable_get_batch.                                               *)
get_batch(c, keys) ==
    /\ call[c] = Idle
    /\ call' = [call EXCEPT ![c] = Call("query", [k \in keys |-> Absent])]
    /\ begins(c)
    /\ UNCHANGED <<table, num_items, requests, secret, load, stats, failures>>

(* Thread t puts a request on the queue of the shard it is at. *)
enqueues(t, type) == requests' = [requests EXCEPT ![call[t].sh] = Append(@, [from |-> t, type |-> type])]

(* Mutant: a batch goes to all shards and only the last one is waited for. *)
wait_first_last(type, sh) == NUM_SHARDS - 1
(* A batch goes to all shards before the first is waited for; a clear waits *)
(* for each shard before the next is cleared.                               *)
wait_first(type, sh) == IF type = "clear" THEN sh ELSE 0

(* Call c after it has submitted to the shard it is at. *)
submitted(c) ==
    IF c.type # "clear" /\ c.sh < NUM_SHARDS - 1 THEN [c EXCEPT !.sh = c.sh + 1]
    ELSE [c EXCEPT !.pc = "wait", !.sh = wait_first(c.type, c.sh)]

(* shard_insert, shard_query or shard_clear for the shard that t is at. *)
submit(t) ==
    /\ call[t].pc = "submit"
    /\ enqueues(t, call[t].type)
    /\ call' = [call EXCEPT ![t] = submitted(call[t])]
    /\ UNCHANGED <<table, num_items, secret, load, stats, failures, seen>>

(* shard_wait puts a request of its own behind those that are there. *)
shard_wait(t) ==
    /\ call[t].pc = "wait"
    /\ enqueues(t, "wait")
    /\ call' = [call EXCEPT ![t] = [call[t] EXCEPT !.pc = "waiting"]]
    /\ UNCHANGED <<table, num_items, secret, load, stats, failures, seen>>

(* Mutant: the wait for a shard is over only when no shard has failed. *)
woken_again(c) ==
    IF c.failed # {} THEN [c EXCEPT !.pc = "wait"]
    ELSE IF c.sh = NUM_SHARDS - 1 THEN [c EXCEPT !.pc = "collect"]
    ELSE [c EXCEPT !.pc = IF c.type = "clear" THEN "submit" ELSE "wait", !.sh = @ + 1]
(* Mutant: one shard too many is waited for. *)
woken_past(c) == [c EXCEPT !.pc = IF c.sh = NUM_SHARDS THEN "collect" ELSE "wait", !.sh = @ + 1]
(* shard_waiter_finish: t goes on with the next shard, if there is one. *)
woken(c) ==
    IF c.sh = NUM_SHARDS - 1 THEN [c EXCEPT !.pc = "collect"]
    ELSE [c EXCEPT !.pc = IF c.type = "clear" THEN "submit" ELSE "wait",
                   !.sh = c.sh + 1]

(* The shard answers a query for these keys. *)
answered(c, keys) ==
    [c EXCEPT !.answer = [k \in DOMAIN c.answer |-> IF k \in keys THEN table[k] ELSE c.answer[k]]]

(* The shard applies an insert of the records of c for these keys, or a     *)
(* clear; records may get lost on the way.                                  *)
applied(sh, c, keys, lost) ==
    [k \in Keys |-> CASE ShardOf[k] # sh -> table[k]
                      [] ShardOf[k] = sh /\ k \in lost -> Absent
                      [] ShardOf[k] = sh /\ k \in keys \ lost -> c.batch[k]
                      [] OTHER -> IF c.type = "clear" THEN Absent ELSE table[k]]
counted(sh, c, keys) ==
    [num_items EXCEPT ![sh] = IF c.type = "clear" THEN 1
                              ELSE @ + Cardinality({k \in keys : table[k] = Absent})]

(* shard_handle_request.  An insert or a query may fail in an ORAM access:  *)
(* the batch is left there, the record that was being put is not counted,   *)
(* and records of the shard that nobody asked for may be lost, with a block *)
(* of the ORAM or as the one that was about to be moved.                    *)
shard_handle_request(sh) ==
    /\ requests[sh] # << >>
    /\ requests' = [requests EXCEPT ![sh] = Tail(@)]
    /\ LET t     == Head(requests[sh]).from
           type  == Head(requests[sh]).type
           batch == {k \in DOMAIN call[t].batch : ShardOf[k] = sh}
       IN  \/ /\ type = "wait"
              /\ call' = [call EXCEPT ![t] = woken(call[t])]
              /\ UNCHANGED <<table, num_items, stats, failures, seen>>
           \/ /\ type = "query"
              /\ call' = [call EXCEPT ![t] = answered(call[t], batch)]
              /\ UNCHANGED <<table, num_items, stats, failures, seen>>
           \/ /\ type \in {"insert", "clear"}
              /\ becomes(applied(sh, call[t], batch, {}), counted(sh, call[t], batch))
              /\ UNCHANGED <<call, failures>>
           \/ /\ type \in {"insert", "query"} /\ failures < MAX_FAILURES
              /\ failures' = failures + 1
              /\ \E done \in IF type = "insert" THEN SUBSET batch ELSE {{}},
                   lost \in SUBSET KeysOf(sh), last \in {{}} \cup {{k} : k \in batch} :
                    becomes(applied(sh, call[t], done, lost), counted(sh, call[t], done \ last))
              /\ call' = [call EXCEPT ![t] = [call[t] EXCEPT !.failed = call[t].failed \cup {sh}]]
    /\ UNCHANGED <<secret, load>>

(* Mutant: put_batch looks at the last shard only. *)
put_error_last(c) == NUM_SHARDS - 1 \in c.failed
(* sharded_ohtable_put_batch: the error of the first shard that has one. *)
put_error(c) == c.failed # {}

(* Mutant: the error of the first shard is the one that is returned. *)
get_error_first(c) == 0 \in c.failed
(* extract_results_from_batch: the error of the last shard, and no record   *)
(* for the keys of a shard that failed.                                     *)
get_error(c) == NUM_SHARDS - 1 \in c.failed
results(c) == [k \in DOMAIN c.batch |-> IF ShardOf[k] \in c.failed THEN Absent ELSE c.answer[k]]

(* batched_destroy and the return of get_batch. *)
get_return(c) ==
    /\ call[c].pc = "collect" /\ call[c].type = "query"
    /\ call' = [call EXCEPT ![c] = Idle]
    /\ seen' = [seen EXCEPT ![c] = [k \in Keys |-> {}]]
    /\ UNCHANGED <<table, num_items, requests, secret, load, stats, failures>>

-----------------------------------------------------------------------------
(* Mutant: a message without a secret takes the secret away. *)
next_secret_always(s) == s
(* A secret that is not in the message leaves the stored one. *)
next_secret(s) == IF s = "none" THEN secret ELSE s

(* The errors that end enclave_load_pb before anything has changed: there   *)
(* is no workspace for the message or it cannot be decoded, or its secret   *)
(* is too long.                                                             *)
load_error(msg, decoded) ==
    CASE ~decoded -> "REQUEST_PB"
      [] decoded /\ msg.secret = "too_large" -> "SECRET_TOO_LARGE"
      [] OTHER -> "none"

(* enclave_load_pb: the secret comes first, then sharded_ohtable_clear,     *)
(* which cannot fail.                                                       *)
enclave_load_pb(msg, decoded) ==
    /\ load.pc = "idle" /\ load.done < MAX_LOADS
    /\ \E err \in {load_error(msg, decoded)} :
        /\ load' = [pc |-> CASE err # "none" -> "returned"
                             [] err = "none" /\ msg.clear_all -> "clear"
                             [] OTHER -> "check",
                    result |-> err, msg |-> msg, before |-> table, failed |-> {},
                    done |-> load.done]
        /\ secret' = IF err = "none" THEN next_secret(msg.secret) ELSE secret
    /\ call' = IF load'.pc = "clear" THEN [call EXCEPT ![Loader] = Call("clear", NoKeys)] ELSE call
    /\ UNCHANGED <<table, num_items, requests, stats, failures, seen>>

(* After the clear, if any: are the tuples whole records?  Only then does   *)
(* sharded_ohtable_put_batch begin.                                         *)
put_batch ==
    /\ \/ load.pc = "check"
       \/ load.pc = "clear" /\ call[Loader].pc = "collect"
    /\ IF load.msg.whole
       THEN /\ load' = [load EXCEPT !.pc = "put"]
            /\ call' = [call EXCEPT ![Loader] = Call("insert", load.msg.records)]
       ELSE /\ load' = [load EXCEPT !.pc = "returned", !.result = "TUPLES_INVALID"]
            /\ call' = [call EXCEPT ![Loader] = Idle]
    /\ UNCHANGED <<table, num_items, requests, secret, stats, failures, seen>>

(* The load returns what put_batch returns. *)
put_return ==
    /\ load.pc = "put" /\ call[Loader].pc = "collect"
    /\ load' = [load EXCEPT !.pc = "returned", !.failed = call[Loader].failed,
                            !.result = IF put_error(call[Loader]) THEN "ERROR" ELSE "SUCCESS"]
    /\ call' = [call EXCEPT ![Loader] = Idle]
    /\ UNCHANGED <<table, num_items, requests, secret, stats, failures, seen>>

(* The host takes the result of a load. *)
load_done ==
    /\ load.pc = "returned"
    /\ load' = [pc |-> "idle", done |-> load.done + 1]
    /\ UNCHANGED <<table, num_items, requests, call, secret, stats, failures, seen>>

-----------------------------------------------------------------------------
(* Mutant: the shards are counted from the second on. *)
first_shard_second == 1
first_shard == 0

(* enclave_table_statistics. *)
table_statistics(c) ==
    /\ call[c] = Idle
    /\ call' = [call EXCEPT ![c] = [Call("statistics", NoKeys) EXCEPT !.pc = "count"]]
    /\ stats' = [stats EXCEPT ![c] = [NoStats EXCEPT !.sh = first_shard]]
    /\ UNCHANGED <<table, num_items, requests, secret, load, failures, seen>>

(* sharded_ohtable_report_statistics reads the counters of the shards one   *)
(* by one, beside the workers and without their queues; they are added up.  *)
report_statistics(c) ==
    /\ call[c].pc = "count" /\ stats[c].sh < NUM_SHARDS
    /\ stats' = [stats EXCEPT ![c] =
                    [sh |-> stats[c].sh + 1, sum |-> stats[c].sum + num_items[stats[c].sh],
                     quiet |-> stats[c].quiet \/ stats[c].sh = first_shard]]
    /\ UNCHANGED <<table, num_items, requests, call, secret, load, failures, seen>>

statistics_return(c) ==
    /\ call[c].pc = "count" /\ stats[c].sh = NUM_SHARDS
    /\ call' = [call EXCEPT ![c] = Idle] /\ stats' = [stats EXCEPT ![c] = NoStats]
    /\ UNCHANGED <<table, num_items, requests, secret, load, failures, seen>>

Next ==
    \/ \E c \in Clients :
          \/ get_return(c) \/ \E keys \in Queries : get_batch(c, keys)
          \/ table_statistics(c) \/ report_statistics(c) \/ statistics_return(c)
    \/ \E t \in Threads : submit(t) \/ shard_wait(t)
    \/ \E sh \in Shards : shard_handle_request(sh)
    \/ \E msg \in Loads, decoded \in BOOLEAN : enclave_load_pb(msg, decoded)
    \/ put_batch \/ put_return \/ load_done

(* Threads and workers go on; a new call need not be made. *)
Fairness ==
    /\ \A sh \in Shards : WF_vars(shard_handle_request(sh))
    /\ \A t \in Threads : WF_vars(submit(t) \/ shard_wait(t))
    /\ \A c \in Clients : WF_vars(get_return(c) \/ report_statistics(c) \/ statistics_return(c))
    /\ WF_vars(put_batch \/ put_return \/ load_done)

Spec == Init /\ [][Next]_vars /\ Fairness

-----------------------------------------------------------------------------
(* The shape of the state. *)
TypeOK ==
    /\ table \in [Keys -> Vals \cup {Absent}]
    /\ \A sh \in Shards : Len(requests[sh]) <= 2 * Cardinality(Threads)
    /\ \A t \in Threads : call[t] = Idle \/ call[t].sh \in Shards
    /\ num_items \in [Shards -> Nat]
    /\ \A c \in Clients : stats[c].sh \in 0 .. NUM_SHARDS

(* No shard still has a request of a batch that was given back to the       *)
(* allocator: while a request is queued, the thread that made it has not    *)
(* gone past the wait for that shard.                                       *)
RequestsOwned ==
    \A sh \in Shards : \A i \in DOMAIN requests[sh] :
        LET t == requests[sh][i].from
        IN  /\ call[t] # Idle /\ call[t].pc # "collect"
            /\ requests[sh][i].type = "wait" => call[t].pc = "waiting" /\ call[t].sh = sh

(* What a query finds for a key is what the key was at some time during the *)
(* call; in particular, while no load runs, all keys are answered from one  *)
(* state of the table.  The exception: a shard that fails, if it is not the *)
(* last, makes its keys look absent, and the caller is not told.            *)
QueryLinearizable ==
    \A c \in Clients : call[c] # Idle /\ call[c].pc = "collect" /\ ~get_error(call[c]) =>
        \A k \in DOMAIN call[c].batch :
            \/ results(call[c])[k] \in seen[c][k]
            \/ results(call[c])[k] = Absent /\ ShardOf[k] \in call[c].failed \ {NUM_SHARDS - 1}

(* What the table holds for the keys of a load that has returned, and for   *)
(* the others: after success all records are there and, if it cleared,      *)
(* nothing else; a load that cannot be decoded or is refused for its secret *)
(* has done nothing, one that is refused for its tuples has at most         *)
(* cleared; an error of some shards leaves the keys of the other ones as    *)
(* success does.  Queries that fail may cost single records at any time.    *)
Expected(k) ==
    CASE load.result \in {"REQUEST_PB", "SECRET_TOO_LARGE"} -> load.before[k]
      [] load.result \in {"SUCCESS", "ERROR"} /\ k \in DOMAIN load.msg.records -> load.msg.records[k]
      [] OTHER -> IF load.msg.clear_all THEN Absent ELSE load.before[k]
LoadApplied ==
    load.pc = "returned" =>
        /\ load.result = "SUCCESS" => load.failed = {}
        /\ \A k \in Keys : ShardOf[k] \notin load.failed =>
              table[k] = Expected(k) \/ (table[k] = Absent /\ failures > 0)

(* The stored secret is one that a load brought: never none. *)
SecretKept == secret \in {"zero"} \cup ({m.secret : m \in Loads} \ {"none", "too_large"})

(* The sum of the counters is the number of records, with a zero record for *)
(* every shard, if none of them has changed since the first was read and no *)
(* access has ever failed.                                                  *)
StatisticsExact ==
    \A c \in Clients : stats[c].sh = NUM_SHARDS /\ stats[c].quiet /\ failures = 0 =>
        stats[c].sum = NUM_SHARDS + Cardinality({k \in Keys : table[k] # Absent})

(* The shape of the state, and what holds between calls that overlap: their *)
(* requests stay allocated, the secret stays set, and statistics that       *)
(* nobody disturbs are exact.                                               *)
CallsInv == TypeOK /\ RequestsOwned /\ SecretKept /\ StatisticsExact

(* Every query and every load returns, with failing shards too. *)
CallsReturn ==
    /\ \A c \in Clients : call[c] # Idle ~> call[c] = Idle
    /\ load.pc # "idle" ~> load.pc = "idle"
=============================================================================
