------------------------------- MODULE Shard -------------------------------
(***************************************************************************)
(* c/sharded_ohtable/shard.c: one shard of the table.  A worker thread     *)
(* inside shard_run takes requests from the shard's queue and applies them *)
(* to the table; other threads submit requests, wait for them with         *)
(* shard_wait, and start, stop and destroy the shard.                      *)
(*                                                                         *)
(* The queue is the bounded FIFO that module Queue implements.  Request    *)
(* objects are members of a pool, so that a freed one can be reused and a  *)
(* use after free is visible.  The table is a map with a capacity: the     *)
(* hash table that stores it is modelled in module OhTable.  The zero      *)
(* record that every shard holds takes none of that capacity.              *)
(***************************************************************************)
EXTENDS Naturals, Sequences, FiniteSets

CONSTANTS
    Threads,        \* callers of the shard API
    Workers,        \* threads that call shard_run
    Reqs,           \* addresses of request objects
    Keys,           \* keys stored in this shard
    Vals,           \* their values
    Absent,         \* the empty record a lookup of an unknown key returns
    Batches,        \* sequences of keys that put_batch and get_batch use
    QUEUE_SIZE,     \* 20 in the source
    Capacity,       \* records the table accepts before it is full
    NoReq           \* the NULL request

ASSUME ShardAssumption ==
    /\ QUEUE_SIZE \in Nat \ {0}
    /\ Capacity \in Nat
    /\ NoReq \notin Reqs
    /\ Absent \notin Vals
    /\ Batches \subseteq Seq(Keys)

VARIABLES
    running,        \* shard->running, the worker slot
    keep_alive,     \* shard->keep_alive
    requests,       \* shard->requests, oldest first
    table,          \* shard->table
    life,           \* "live", "destroying" (draining) or "dead"
    req,            \* req[r]: the fields of request object r
    phase,          \* phase[r]: where object r is (see Phases)
    pc,             \* pc[t]: control of a caller
    sub,            \* sub[t]: the request t submitted and has not freed
    wtr,            \* wtr[t]: the wait or stop request t waits for
    wpc,            \* wpc[w]: control of a worker
    wreq,           \* wreq[w]: the request it is handling
    widx            \* widx[w]: records of that request already processed

shardVars  == <<running, keep_alive, requests, table, life>>
heapVars   == <<req, phase>>
callerVars == <<pc, sub, wtr>>
workerVars == <<wpc, wreq, widx>>
vars       == <<shardVars, heapVars, callerVars, workerVars>>

(* Where a request object is: free memory, queued, in the hands of the     *)
(* worker (or of shard_destroy), or completed and owned by its caller.     *)
Phases == {"free", "queued", "taken", "handled"}
Types  == {"insert", "query", "clear", "wait", "stop"}
Errs   == {"SUCCESS", "TABLE_FULL", "ACCESS_FAILED", "DESTROYING"}

(* rec[i] is the i-th record: its key, and the value to insert or the one  *)
(* found.  done is the flag of the request's waiter, when it has one.      *)
Record   == [key : Keys, val : Vals \cup {Absent}]
RecSeqs  == Seq(Record)
Requests == [type : Types, rec : RecSeqs, err : Errs, done : BOOLEAN]

CallerPcs == {"idle", "submitted", "waiting", "collect", "stop", "stopping", "destroying"}
WorkerPcs == {"out", "start", "loop", "handle", "finish", "release"}

TypeOK ==
    /\ running \in {"IDLE", "RUNNING", "STOPPING"}
    /\ keep_alive \in BOOLEAN
    /\ requests \in Seq(Reqs)
    /\ table \in [Keys -> Vals \cup {Absent}]
    /\ life \in {"live", "destroying", "dead"}
    /\ req \in [Reqs -> Requests]
    /\ phase \in [Reqs -> Phases]
    /\ pc \in [Threads -> CallerPcs]
    /\ sub \in [Threads -> Reqs \cup {NoReq}]
    /\ wtr \in [Threads -> Reqs \cup {NoReq}]
    /\ wpc \in [Workers -> WorkerPcs]
    /\ wreq \in [Workers -> Reqs \cup {NoReq}]
    /\ widx \in [Workers -> Nat]

EmptyTable == [k \in Keys |-> Absent]
NewRequest(type, rec) == [type |-> type, rec |-> rec, err |-> "SUCCESS", done |-> FALSE]

(* shard_create on a process that has done nothing yet. *)
Init ==
    /\ running = "IDLE"
    /\ keep_alive = FALSE
    /\ requests = << >>
    /\ table = EmptyTable
    /\ life = "live"
    /\ req = [r \in Reqs |-> NewRequest("wait", << >>)]
    /\ phase = [r \in Reqs |-> "free"]
    /\ pc = [t \in Threads |-> "idle"]
    /\ sub = [t \in Threads |-> NoReq]
    /\ wtr = [t \in Threads |-> NoReq]
    /\ wpc = [w \in Workers |-> "out"]
    /\ wreq = [w \in Workers |-> NoReq]
    /\ widx = [w \in Workers |-> 0]

-----------------------------------------------------------------------------
(* Callers.  An object is private until it is queued, so allocating and     *)
(* queueing it are one step; while the queue is full the caller sleeps in   *)
(* queue_add_item, which is the step being disabled.                        *)

(* shard_request_create and queue_add_item. *)
Enqueue(r, type, rec) ==
    /\ phase[r] = "free"
    /\ Len(requests) < QUEUE_SIZE
    /\ req' = [req EXCEPT ![r] = NewRequest(type, rec)]
    /\ phase' = [phase EXCEPT ![r] = "queued"]
    /\ requests' = Append(requests, r)

Submit(t, type, rec) ==
    /\ life = "live" /\ pc[t] = "idle"
    /\ \E r \in Reqs :
          /\ Enqueue(r, type, rec)
          /\ sub' = [sub EXCEPT ![t] = r]
    /\ pc' = [pc EXCEPT ![t] = "submitted"]
    /\ UNCHANGED <<running, keep_alive, table, life, wtr, workerVars>>

Records(b, v) == [i \in DOMAIN b |-> [key |-> b[i], val |-> v]]

shard_insert(t, b, v) == Submit(t, "insert", Records(b, v))
shard_query(t, b)     == Submit(t, "query", Records(b, Absent))
shard_clear(t)        == Submit(t, "clear", << >>)

(* Mutant: shard_wait queues nothing and does not wait. *)
shard_wait_skipped(t) ==
    /\ pc[t] = "submitted"
    /\ pc' = [pc EXCEPT ![t] = "collect"]
    /\ UNCHANGED <<shardVars, heapVars, sub, wtr, workerVars>>
(* shard_wait up to its sleep on the waiter.  Every submission is followed  *)
(* by one (sharded_ohtable.c: prepare_query_batches, sharded_ohtable_clear). *)
shard_wait(t) ==
    /\ pc[t] = "submitted"
    /\ \E r \in Reqs :
          /\ Enqueue(r, "wait", << >>)
          /\ wtr' = [wtr EXCEPT ![t] = r]
    /\ pc' = [pc EXCEPT ![t] = "waiting"]
    /\ UNCHANGED <<running, keep_alive, table, life, sub, workerVars>>

(* free() of a request object: nothing of its contents is left. *)
Free(r) ==
    /\ phase' = [phase EXCEPT ![r] = "free"]
    /\ req' = [req EXCEPT ![r] = NewRequest("wait", << >>)]

(* The waiter is done: shard_wait frees it with its request and returns. *)
shard_wait_return(t) ==
    /\ pc[t] = "waiting" /\ req[wtr[t]].done
    /\ Free(wtr[t])
    /\ wtr' = [wtr EXCEPT ![t] = NoReq]
    /\ pc' = [pc EXCEPT ![t] = "collect"]
    /\ UNCHANGED <<shardVars, sub, workerVars>>

(* The caller reads error and records, then shard_request_destroy. *)
shard_request_destroy(t) ==
    /\ pc[t] = "collect"
    /\ Free(sub[t])
    /\ sub' = [sub EXCEPT ![t] = NoReq]
    /\ pc' = [pc EXCEPT ![t] = "idle"]
    /\ UNCHANGED <<shardVars, wtr, workerVars>>

(* Mutant: shard_stop does not look at the worker slot. *)
stop_claims_any == running # "IDLE"
(* The compare-exchange RUNNING -> STOPPING of shard_stop. *)
stop_claims == running = "RUNNING"

(* shard_stop up to the compare-exchange; when it fails the call returns   *)
(* err_SHARD__NOT_RUNNING and nothing has changed.                         *)
shard_stop(t) ==
    /\ life = "live" /\ pc[t] = "idle"
    /\ stop_claims
    /\ running' = "STOPPING"
    /\ pc' = [pc EXCEPT ![t] = "stop"]
    /\ UNCHANGED <<keep_alive, requests, table, life, heapVars, sub, wtr, workerVars>>

shard_stop_enqueue(t) ==
    /\ pc[t] = "stop"
    /\ \E r \in Reqs :
          /\ Enqueue(r, "stop", << >>)
          /\ wtr' = [wtr EXCEPT ![t] = r]
    /\ pc' = [pc EXCEPT ![t] = "stopping"]
    /\ UNCHANGED <<running, keep_alive, table, life, sub, workerVars>>

shard_stop_return(t) ==
    /\ pc[t] = "stopping" /\ req[wtr[t]].done
    /\ Free(wtr[t])
    /\ wtr' = [wtr EXCEPT ![t] = NoReq]
    /\ pc' = [pc EXCEPT ![t] = "idle"]
    /\ UNCHANGED <<shardVars, sub, workerVars>>

-----------------------------------------------------------------------------
(* The worker. *)

(* Mutant: a worker starts whenever the shard is not being stopped. *)
run_claims_any == running # "STOPPING"
(* The compare-exchange IDLE -> RUNNING of shard_run. *)
run_claims == running = "IDLE"

(* shard_run up to the compare-exchange; when it fails the call returns    *)
(* err_SHARD__ALREADY_RUNNING and nothing has changed.                     *)
shard_run(w) ==
    /\ life = "live" /\ wpc[w] = "out"
    /\ run_claims
    /\ running' = "RUNNING"
    /\ wpc' = [wpc EXCEPT ![w] = "start"]
    /\ UNCHANGED <<keep_alive, requests, table, life, heapVars, callerVars, wreq, widx>>

shard_run_start(w) ==
    /\ wpc[w] = "start"
    /\ keep_alive' = TRUE
    /\ wpc' = [wpc EXCEPT ![w] = "loop"]
    /\ UNCHANGED <<running, requests, table, life, heapVars, callerVars, wreq, widx>>

(* The loop test, and shard_next_request when it succeeds. *)
shard_next_request(w) ==
    /\ wpc[w] = "loop" /\ keep_alive
    /\ requests # << >>
    /\ requests' = Tail(requests)
    /\ phase' = [phase EXCEPT ![Head(requests)] = "taken"]
    /\ wreq' = [wreq EXCEPT ![w] = Head(requests)]
    /\ wpc' = [wpc EXCEPT ![w] = "handle"]
    /\ UNCHANGED <<running, keep_alive, table, life, req, callerVars, widx>>

shard_loop_exit(w) ==
    /\ wpc[w] = "loop" /\ ~keep_alive
    /\ wpc' = [wpc EXCEPT ![w] = "release"]
    /\ UNCHANGED <<shardVars, heapVars, callerVars, wreq, widx>>

(* is_full of ohtable.c, counted in records. *)
Full(tb) == Cardinality({k \in Keys : tb[k] # Absent}) >= Capacity

(* ohtable_put of the next record of an insert request: a full table       *)
(* refuses it and ends the batch.                                          *)
handle_insert(w) ==
    LET r == wreq[w]
        e == req[r].rec[widx[w] + 1]
    IN  /\ wpc[w] = "handle" /\ req[r].type = "insert" /\ widx[w] < Len(req[r].rec)
        /\ IF Full(table)
           THEN /\ req' = [req EXCEPT ![r].err = "TABLE_FULL"]
                /\ wpc' = [wpc EXCEPT ![w] = "finish"]
                /\ UNCHANGED <<table, widx>>
           ELSE /\ table' = [table EXCEPT ![e.key] = e.val]
                /\ widx' = [widx EXCEPT ![w] = @ + 1]
                /\ UNCHANGED <<req, wpc>>
        /\ UNCHANGED <<running, keep_alive, requests, life, phase, callerVars, wreq>>

(* ohtable_get of the next record of a query request, answered in place. *)
handle_query(w) ==
    LET r == wreq[w]
        i == widx[w] + 1
    IN  /\ wpc[w] = "handle" /\ req[r].type = "query" /\ widx[w] < Len(req[r].rec)
        /\ req' = [req EXCEPT ![r].rec[i].val = table[req[r].rec[i].key]]
        /\ widx' = [widx EXCEPT ![w] = i]
        /\ UNCHANGED <<shardVars, phase, callerVars, wpc, wreq>>

(* An ORAM access of ohtable_get fails: the batch ends with the error.  The *)
(* record may have been found by an access before the one that failed.      *)
handle_query_fail(w) ==
    LET r == wreq[w]
        i == widx[w] + 1
    IN  /\ wpc[w] = "handle" /\ req[r].type = "query" /\ widx[w] < Len(req[r].rec)
        /\ \E v \in {req[r].rec[i].val, table[req[r].rec[i].key]} :
              req' = [req EXCEPT ![r].err = "ACCESS_FAILED", ![r].rec[i].val = v]
        /\ wpc' = [wpc EXCEPT ![w] = "finish"]
        /\ UNCHANGED <<shardVars, phase, callerVars, wreq, widx>>

(* The rest of the switch of shard_handle_request: the end of a batch, a   *)
(* stop, a clear (shard_do_clear), a wait.                                 *)
handle_other(w) ==
    LET r == wreq[w]
    IN  /\ wpc[w] = "handle"
        /\ req[r].type \in {"insert", "query"} => widx[w] = Len(req[r].rec)
        /\ keep_alive' = (keep_alive /\ req[r].type # "stop")
        /\ table' = IF req[r].type = "clear" THEN EmptyTable ELSE table
        /\ wpc' = [wpc EXCEPT ![w] = "finish"]
        /\ UNCHANGED <<running, requests, life, heapVars, callerVars, wreq, widx>>

(* Mutant: waiters of stop requests are not completed. *)
HasWaiterMissing(r) == req[r].type = "wait"
(* Mutant: waiters of wait requests are not completed. *)
HasWaiterStopOnly(r) == req[r].type = "stop"
(* Only shard_wait and shard_stop attach a waiter to their request. *)
HasWaiter(r) == req[r].type \in {"wait", "stop"}

(* The end of shard_handle_request: shard_waiter_finish if there is a      *)
(* waiter.  The worker does not look at the request again.                 *)
shard_waiter_finish(w) ==
    /\ wpc[w] = "finish"
    /\ req' = [req EXCEPT ![wreq[w]].done = HasWaiter(wreq[w])]
    /\ phase' = [phase EXCEPT ![wreq[w]] = "handled"]
    /\ wreq' = [wreq EXCEPT ![w] = NoReq]
    /\ widx' = [widx EXCEPT ![w] = 0]
    /\ wpc' = [wpc EXCEPT ![w] = "loop"]
    /\ UNCHANGED <<shardVars, callerVars>>

(* The compare-exchange at the end of shard_run, STOPPING -> IDLE; its     *)
(* failure would abort the process.                                        *)
shard_run_return(w) ==
    /\ wpc[w] = "release" /\ running = "STOPPING"
    /\ running' = "IDLE"
    /\ wpc' = [wpc EXCEPT ![w] = "out"]
    /\ UNCHANGED <<keep_alive, requests, table, life, heapVars, callerVars, wreq, widx>>

-----------------------------------------------------------------------------
(* The end of a shard. *)

(* What shard_destroy leaves to its callers, who are the tests: the worker  *)
(* is stopped and joined first, and no further call is made, though callers *)
(* may still be asleep in shard_wait.  It does not check this; a worker     *)
(* inside would go on with freed memory.                                    *)
Joined ==
    /\ \A w \in Workers : wpc[w] = "out"
    /\ \A u \in Threads : pc[u] \notin {"submitted", "stop"}

shard_destroy(t) ==
    /\ life = "live" /\ pc[t] = "idle" /\ Joined
    /\ life' = "destroying"
    /\ pc' = [pc EXCEPT ![t] = "destroying"]
    /\ UNCHANGED <<running, keep_alive, requests, table, heapVars, sub, wtr, workerVars>>

(* One round of the loop that completes what is still queued. *)
shard_destroy_drain(t) ==
    LET r == Head(requests)
    IN  /\ pc[t] = "destroying" /\ requests # << >>
        /\ req' = [req EXCEPT ![r].err = "DESTROYING", ![r].done = HasWaiter(r)]
        /\ phase' = [phase EXCEPT ![r] = "handled"]
        /\ requests' = Tail(requests)
        /\ UNCHANGED <<running, keep_alive, table, life, callerVars, workerVars>>

shard_destroy_free(t) ==
    /\ pc[t] = "destroying" /\ requests = << >>
    /\ life' = "dead"
    /\ pc' = [pc EXCEPT ![t] = "idle"]
    /\ UNCHANGED <<running, keep_alive, requests, table, heapVars, sub, wtr, workerVars>>

(* shard_create: a fresh shard takes the place of the destroyed one. *)
shard_create(t) ==
    /\ life = "dead" /\ pc[t] = "idle"
    /\ life' = "live"
    /\ running' = "IDLE"
    /\ keep_alive' = FALSE
    /\ table' = EmptyTable
    /\ UNCHANGED <<requests, heapVars, callerVars, workerVars>>

-----------------------------------------------------------------------------
CallerStep(t) ==
    \/ shard_wait(t) \/ shard_wait_return(t) \/ shard_request_destroy(t)
    \/ shard_stop_enqueue(t) \/ shard_stop_return(t)
    \/ shard_destroy_drain(t) \/ shard_destroy_free(t)

CallerCall(t) ==
    \/ \E b \in Batches, v \in Vals : shard_insert(t, b, v)
    \/ \E b \in Batches : shard_query(t, b)
    \/ shard_clear(t) \/ shard_stop(t) \/ shard_destroy(t) \/ shard_create(t)

WorkerStep(w) ==
    \/ shard_run_start(w) \/ shard_next_request(w) \/ shard_loop_exit(w)
    \/ handle_insert(w) \/ handle_query(w) \/ handle_query_fail(w) \/ handle_other(w)
    \/ shard_waiter_finish(w) \/ shard_run_return(w)

Next ==
    \/ \E t \in Threads : CallerStep(t) \/ CallerCall(t)
    \/ \E w \in Workers : WorkerStep(w) \/ shard_run(w)

Spec == Init /\ [][Next]_vars

(* Threads that are inside a call are scheduled; nobody has to make a call. *)
Fairness ==
    /\ \A t \in Threads : WF_vars(CallerStep(t))
    /\ \A w \in Workers : WF_vars(WorkerStep(w))
FairSpec == Spec /\ Fairness

(* The host starts a worker again after each stop. *)
Restarted == WF_vars(\E w \in Workers : shard_run(w))

-----------------------------------------------------------------------------
Active == {w \in Workers : wpc[w] # "out"}

(* At most one thread is inside the loop of shard_run, and there is one     *)
(* exactly while the worker slot is taken.                                  *)
SingleWorker ==
    /\ \A v, w \in Active : v = w
    /\ running = "IDLE" <=> Active = {}

(* The CHECK at the end of shard_run cannot fail: a worker that left its    *)
(* loop finds the slot STOPPING.                                            *)
ReleaseFindsStopping ==
    \A w \in Workers : wpc[w] = "release" => running = "STOPPING"

(* A request or waiter is freed only when neither the queue nor the worker  *)
(* refers to it any more, and what the queue and the worker hold is held    *)
(* once.                                                                    *)
NoUseAfterFree ==
    /\ \A i \in DOMAIN requests : phase[requests[i]] = "queued"
    /\ \A i, j \in DOMAIN requests : requests[i] = requests[j] => i = j
    /\ \A w \in Workers : wpc[w] \in {"handle", "finish"} => phase[wreq[w]] = "taken"

(* shard_wait is a barrier: when it returns, the caller's request has been  *)
(* completed, and nobody writes its records any more.                       *)
WaitIsBarrier ==
    \A t \in Threads : pc[t] = "collect" => phase[sub[t]] = "handled"

(* shard_stop returns, whoever else uses the shard: a worker is there to    *)
(* take its request.                                                        *)
StopReturns == \A t \in Threads : pc[t] = "stop" ~> pc[t] = "idle"

(* A caller that submitted a request gets its answer, if stopped shards are *)
(* started again: a request that is queued behind a stop is not lost.       *)
WaitReturns == Restarted => \A t \in Threads : pc[t] = "submitted" ~> pc[t] = "idle"
=============================================================================
