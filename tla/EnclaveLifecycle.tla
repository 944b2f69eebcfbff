-------------------------- MODULE EnclaveLifecycle --------------------------
(***************************************************************************)
(* From the construction of an Enclave object to its close: the executor   *)
(* that every native call goes through (Enclave.java), the shard threads   *)
(* and the memory of the JNI shim (jnishim.c), and the worker slots of the *)
(* shards that enclave_run_shard and enclave_stop_shards contend for       *)
(* (enc.c over the protocol of module Shard). A request to a shard is here *)
(* the call that made it, or a stop.                                       *)
(***************************************************************************)
EXTENDS Integers, Sequences, FiniteSets

CONSTANTS num_shards, Calls, Closers, Stop

ASSUME LifecycleAssumption ==
    /\ num_shards \in Nat \ {0}
    /\ Stop \notin Calls
    /\ IsFiniteSet(Calls)

Ids == 0 .. num_shards - 1

VARIABLES
    enclave,                \* the Java object: new, starting, started, open, failed
    cdsi_enclave,           \* the shim's memory: none, live, freed
    enc,                    \* the enclave itself: none, created, terminated
    thread,                 \* where each shard thread is
    running_shard_threads,
    running,                \* the worker slot of each shard
    requests,               \* the queue of each shard
    shutdown,               \* jniExecutor refuses new calls
    call, asked,            \* where each call is; shards it has sent to
    future,                 \* what its caller has done with the future
    outstandingRequestCount,
    isClosed,
    pc, shard,              \* where each thread in close is, and at which shard
    timed_out, stop_failed, \* history: close went on after a minute, or after it
                            \* had failed to stop the shards
    count_read              \* what getRunningShardThreadCount returned last

shim == <<cdsi_enclave, enc, thread, running_shard_threads>>
shards == <<running, requests>>
calls == <<call, asked, future, outstandingRequestCount>>
closing == <<isClosed, pc, shard, timed_out, stop_failed>>
work == <<enclave, shim, shards, shutdown, calls, closing>>
vars == <<work, count_read>>

Init ==
    /\ enclave = "new" /\ cdsi_enclave = "none" /\ enc = "none"
    /\ thread = [i \in Ids |-> "none"] /\ running_shard_threads = 0
    /\ running = [i \in Ids |-> "IDLE"] /\ requests = [i \in Ids |-> << >>]
    /\ shutdown = FALSE
    /\ call = [c \in Calls |-> "none"] /\ asked = [c \in Calls |-> 0]
    /\ future = [c \in Calls |-> "none"] /\ outstandingRequestCount = 0
    /\ isClosed = FALSE
    /\ pc = [k \in Closers |-> "out"] /\ shard = [k \in Closers |-> 0]
    /\ timed_out = FALSE /\ stop_failed = FALSE
    /\ count_read = 0

-----------------------------------------------------------------------------
(* The constructor. After an error the shim's memory is freed, the enclave  *)
(* that may exist by then is not terminated, and the exception leaves no    *)
(* Enclave object to close.                                                 *)
nativeEnclaveInit ==
    /\ enclave = "new"
    /\ \/ /\ enc' \in {"none", "created"}
          /\ cdsi_enclave' = "freed" /\ enclave' = "failed"
       \/ /\ enc' = "created"
          /\ cdsi_enclave' = "live" /\ enclave' = "starting"
    /\ UNCHANGED <<thread, running_shard_threads, shards, shutdown, calls, closing>>

(* pthread_create for the next shard. *)
run_shard(i) ==
    /\ enclave = "starting"
    /\ thread[i] = "none" /\ \A j \in 0 .. i - 1 : thread[j] # "none"
    /\ thread' = [thread EXCEPT ![i] = "created"]
    /\ enclave' = IF i = num_shards - 1 THEN "started" ELSE enclave
    /\ UNCHANGED <<cdsi_enclave, enc, running_shard_threads, shards, shutdown,
                   calls, closing>>

(* The constructor's own call, which it joins while nobody else has the     *)
(* object: it reads the tables and waits for no worker. If it fails the     *)
(* exception leaves a live enclave with its threads, and no object to close *)
(* it with.                                                                 *)
getTableStatistics ==
    /\ enclave = "started"
    /\ enclave' \in {"open", "failed"}
    /\ UNCHANGED <<shim, shards, shutdown, calls, closing>>

-----------------------------------------------------------------------------
(* A shard thread. *)
ThreadGoto(i, l) == thread' = [thread EXCEPT ![i] = l]

shard_thread_fn(i) ==
    /\ thread[i] = "created"
    /\ running_shard_threads' = running_shard_threads + 1
    /\ ThreadGoto(i, "counted")
    /\ UNCHANGED <<enclave, cdsi_enclave, enc, shards, shutdown, calls, closing>>

enclave_run_shard(i) ==
    /\ thread[i] = "counted"
    /\ \/ /\ running[i] = "IDLE"
          /\ running' = [running EXCEPT ![i] = "RUNNING"]
          /\ ThreadGoto(i, "serving")
       \/ /\ running[i] # "IDLE"
          /\ ThreadGoto(i, "returned")
          /\ UNCHANGED running
    /\ UNCHANGED <<enclave, cdsi_enclave, enc, running_shard_threads, requests,
                   shutdown, calls, closing>>

(* The worker takes the next request and wakes whoever waits for it; after  *)
(* a stop it leaves its loop.                                               *)
shard_handle_request(i) ==
    /\ thread[i] = "serving" /\ requests[i] # << >>
    /\ requests' = [requests EXCEPT ![i] = Tail(@)]
    /\ ThreadGoto(i, IF Head(requests[i]) = Stop THEN "leaving" ELSE "serving")
    /\ UNCHANGED <<enclave, cdsi_enclave, enc, running_shard_threads, running,
                   shutdown, calls, closing>>

shard_run_return(i) ==
    /\ thread[i] = "leaving"
    /\ running' = [running EXCEPT ![i] = "IDLE"]
    /\ ThreadGoto(i, "returned")
    /\ UNCHANGED <<enclave, cdsi_enclave, enc, running_shard_threads, requests,
                   shutdown, calls, closing>>

(* Mutant: the sign of the second atomic_fetch_add is lost. *)
count_at_exit_up == running_shard_threads + 1
count_at_exit == running_shard_threads - 1

shard_thread_exit(i) ==
    /\ thread[i] = "returned"
    /\ running_shard_threads' = count_at_exit
    /\ ThreadGoto(i, "exited")
    /\ UNCHANGED <<enclave, cdsi_enclave, enc, shards, shutdown, calls, closing>>

-----------------------------------------------------------------------------
(* supplyAsync and runAsync, for each of the native calls. The future is    *)
(* handed to the executor first, then counted, then whenComplete registers  *)
(* the action that uncounts it.                                             *)
Submit(c) ==
    /\ enclave = "open" /\ call[c] = "none"
    /\ \/ /\ ~shutdown
          /\ call' = [call EXCEPT ![c] = "queued"]
          /\ future' = [future EXCEPT ![c] = "submitted"]
       \/ /\ shutdown                           \* RejectedExecutionException
          /\ call' = [call EXCEPT ![c] = "rejected"]
          /\ UNCHANGED future
    /\ UNCHANGED <<enclave, shim, shards, shutdown, asked,
                   outstandingRequestCount, closing>>

addAndGet(c) ==
    /\ future[c] = "submitted"
    /\ future' = [future EXCEPT ![c] = "counted"]
    /\ outstandingRequestCount' = outstandingRequestCount + 1
    /\ UNCHANGED <<enclave, shim, shards, shutdown, call, asked, closing>>

(* Mutant: the action is registered before the call is counted. *)
registrable_early == {"submitted", "counted"}
registrable == {"counted"}

(* The action runs at once if the future is complete already. *)
whenComplete(c) ==
    /\ future[c] \in registrable
    /\ \/ /\ call[c] = "completed"
          /\ future' = [future EXCEPT ![c] = "uncounted"]
          /\ outstandingRequestCount' = outstandingRequestCount - 1
       \/ /\ call[c] # "completed"
          /\ future' = [future EXCEPT ![c] = "registered"]
          /\ UNCHANGED outstandingRequestCount
    /\ UNCHANGED <<enclave, shim, shards, shutdown, call, asked, closing>>

(* A thread of the pool takes the call, however many there are: the shim    *)
(* reads the handle, and the call enters the enclave.                       *)
CallGoto(c, l) == call' = [call EXCEPT ![c] = l]

execute(c) ==
    /\ call[c] = "queued"
    /\ CallGoto(c, "entering")
    /\ UNCHANGED <<enclave, shim, shards, shutdown, asked, future,
                   outstandingRequestCount, closing>>

(* Loads and queries go to the shards, the other calls do not; a call that  *)
(* comes after the enclave is gone gets an error at best.                   *)
nativeCall(c) ==
    /\ call[c] = "entering"
    /\ \/ CallGoto(c, "returning")
       \/ enc = "created" /\ CallGoto(c, "asking")
    /\ UNCHANGED <<enclave, shim, shards, shutdown, asked, future,
                   outstandingRequestCount, closing>>

(* prepare_query_batches: one request to each shard, then a wait for each. *)
shard_query(c) ==
    /\ call[c] = "asking"
    /\ requests' = [requests EXCEPT ![asked[c]] = Append(@, c)]
    /\ asked' = [asked EXCEPT ![c] = @ + 1]
    /\ CallGoto(c, IF asked[c] = num_shards - 1 THEN "waiting" ELSE "asking")
    /\ UNCHANGED <<enclave, shim, running, shutdown, future,
                   outstandingRequestCount, closing>>

Queued(r, i) == \E n \in DOMAIN requests[i] : requests[i][n] = r

shard_wait(c) ==
    /\ call[c] = "waiting" /\ \A i \in Ids : ~Queued(c, i)
    /\ CallGoto(c, "returning")
    /\ UNCHANGED <<enclave, shim, shards, shutdown, asked, future,
                   outstandingRequestCount, closing>>

complete(c) ==
    /\ call[c] = "returning"
    /\ CallGoto(c, "completed")
    /\ \/ /\ future[c] = "registered"
          /\ future' = [future EXCEPT ![c] = "uncounted"]
          /\ outstandingRequestCount' = outstandingRequestCount - 1
       \/ /\ future[c] # "registered"
          /\ UNCHANGED <<future, outstandingRequestCount>>
    /\ UNCHANGED <<enclave, shim, shards, shutdown, asked, closing>>

-----------------------------------------------------------------------------
(* close *)
CloserGoto(k, l) == pc' = [pc EXCEPT ![k] = l]

close(k) ==
    /\ enclave = "open" /\ pc[k] = "out"
    /\ shutdown' = TRUE
    /\ CloserGoto(k, "await")
    /\ UNCHANGED <<enclave, shim, shards, calls, isClosed, shard, timed_out,
                   stop_failed>>

(* What keeps the executor from terminating. *)
Pending == {c \in Calls : call[c] \in {"queued", "entering", "asking", "waiting", "returning"}}

(* Mutant: close does not wait. *)
awaitTermination_skipped(k) ==
    /\ pc[k] = "await"
    /\ CloserGoto(k, "terminated")
    /\ UNCHANGED <<enclave, shim, shards, shutdown, calls, isClosed, shard,
                   timed_out, stop_failed>>

(* awaitTermination returns false after a minute, and close goes on. *)
awaitTermination(k) ==
    /\ pc[k] = "await"
    /\ \/ Pending = {} /\ UNCHANGED timed_out
       \/ Pending # {} /\ timed_out' = TRUE
    /\ CloserGoto(k, "terminated")
    /\ UNCHANGED <<enclave, shim, shards, shutdown, calls, isClosed, shard,
                   stop_failed>>

(* Mutant: isClosed is set without looking at what it was. *)
closes_any == TRUE
closes == ~isClosed

compareAndSet(k) ==
    /\ pc[k] = "terminated"
    /\ \/ /\ closes
          /\ isClosed' = TRUE
          /\ CloserGoto(k, "stopping")
       \/ /\ ~closes
          /\ CloserGoto(k, "closed")
          /\ UNCHANGED isClosed
    /\ UNCHANGED <<enclave, shim, shards, shutdown, calls, shard, timed_out,
                   stop_failed>>

(* Mutant: the loop passes over every other shard. *)
next_shard_skips(k) == shard[k] + 2
next_shard(k) == shard[k] + 1

(* enclave_stop_shards, for one shard: claim the worker; a shard without    *)
(* one is passed over.                                                      *)
stop_shard(k) ==
    /\ pc[k] = "stopping" /\ shard[k] < num_shards
    /\ \/ /\ running[shard[k]] = "RUNNING"
          /\ running' = [running EXCEPT ![shard[k]] = "STOPPING"]
          /\ CloserGoto(k, "enqueue")
          /\ UNCHANGED shard
       \/ /\ running[shard[k]] # "RUNNING"      \* err_SHARD__NOT_RUNNING
          /\ shard' = [shard EXCEPT ![k] = next_shard(k)]
          /\ UNCHANGED <<running, pc>>
    /\ UNCHANGED <<enclave, shim, requests, shutdown, calls, isClosed, timed_out,
                   stop_failed>>

stop_enqueue(k) ==
    /\ pc[k] = "enqueue"
    /\ requests' = [requests EXCEPT ![shard[k]] = Append(@, Stop)]
    /\ CloserGoto(k, "stop_wait")
    /\ UNCHANGED <<enclave, shim, running, shutdown, calls, isClosed, shard,
                   timed_out, stop_failed>>

stop_return(k) ==
    /\ pc[k] = "stop_wait" /\ ~Queued(Stop, shard[k])
    /\ shard' = [shard EXCEPT ![k] = next_shard(k)]
    /\ CloserGoto(k, "stopping")
    /\ UNCHANGED <<enclave, shim, shards, shutdown, calls, isClosed, timed_out,
                   stop_failed>>

(* The ecall fails as a whole, before it has stopped anything: nothing is   *)
(* joined, and the shim's memory is freed all the same.                     *)
stop_fails(k) ==
    /\ pc[k] = "stopping" /\ shard[k] = 0
    /\ stop_failed' = TRUE
    /\ CloserGoto(k, "finish")
    /\ UNCHANGED <<enclave, shim, shards, shutdown, calls, isClosed, shard, timed_out>>

stop_done(k) ==
    /\ pc[k] = "stopping" /\ shard[k] = num_shards
    /\ shard' = [shard EXCEPT ![k] = 0]
    /\ CloserGoto(k, "join")
    /\ UNCHANGED <<enclave, shim, shards, shutdown, calls, isClosed, timed_out,
                   stop_failed>>

(* Mutant: the thread has left the enclave, but not the shim. *)
joinable_returned(i) == thread[i] \in {"returned", "exited"}
joinable(i) == thread[i] = "exited"

pthread_join(k) ==
    /\ pc[k] = "join" /\ shard[k] < num_shards
    /\ joinable(shard[k])
    /\ shard' = [shard EXCEPT ![k] = @ + 1]
    /\ UNCHANGED <<enclave, shim, shards, shutdown, calls, isClosed, pc, timed_out,
                   stop_failed>>

(* Mutant: the enclave is terminated without waiting for its threads. *)
all_joined_any(k) == TRUE
all_joined(k) == shard[k] = num_shards

oe_terminate_enclave(k) ==
    /\ pc[k] = "join" /\ all_joined(k)
    /\ CloserGoto(k, "finish")
    /\ enc' \in {"terminated", enc}               \* it may fail
    /\ UNCHANGED <<enclave, cdsi_enclave, thread, running_shard_threads, shards,
                   shutdown, calls, isClosed, shard, timed_out, stop_failed>>

finish(k) ==
    /\ pc[k] = "finish"
    /\ cdsi_enclave' = "freed"
    /\ CloserGoto(k, "closed")
    /\ UNCHANGED <<enclave, enc, thread, running_shard_threads, shards, shutdown,
                   calls, isClosed, shard, timed_out, stop_failed>>

-----------------------------------------------------------------------------
(* The health check reads the shim's memory from its own thread, without    *)
(* the executor: isClosed and the shutdown do not hold it back. Freed       *)
(* memory has any value.                                                    *)
getRunningShardThreadCount ==
    /\ enclave = "open"
    /\ \/ cdsi_enclave = "live" /\ count_read' = running_shard_threads
       \/ cdsi_enclave = "freed" /\ count_read' \in 0 .. num_shards
    /\ UNCHANGED work

-----------------------------------------------------------------------------
Starting == nativeEnclaveInit \/ (\E i \in Ids : run_shard(i)) \/ getTableStatistics
Thread(i) ==
    shard_thread_fn(i) \/ enclave_run_shard(i) \/ shard_handle_request(i)
    \/ shard_run_return(i) \/ shard_thread_exit(i)
Caller(c) == addAndGet(c) \/ whenComplete(c)
Pool(c) == execute(c) \/ nativeCall(c) \/ shard_query(c) \/ shard_wait(c) \/ complete(c)
Closer(k) ==
    awaitTermination(k) \/ compareAndSet(k) \/ stop_shard(k) \/ stop_enqueue(k)
    \/ stop_return(k) \/ stop_fails(k) \/ stop_done(k) \/ pthread_join(k)
    \/ oe_terminate_enclave(k) \/ finish(k)

Work ==
    \/ Starting
    \/ \E i \in Ids : Thread(i)
    \/ \E c \in Calls : Submit(c) \/ Caller(c) \/ Pool(c)
    \/ \E k \in Closers : close(k) \/ Closer(k)

Next ==
    \/ Work /\ UNCHANGED count_read
    \/ getRunningShardThreadCount

Spec == Init /\ [][Next]_vars

(* Threads that are inside a function go on, and the pool takes every call  *)
(* that was accepted; nobody has to make a call or to close, and an ecall   *)
(* need not fail.                                                           *)
Fairness ==
    /\ WF_work(Starting)
    /\ \A i \in Ids : WF_work(Thread(i))
    /\ \A c \in Calls : WF_work(Caller(c)) /\ WF_work(Pool(c))
    /\ \A k \in Closers : WF_work(Closer(k))

FairSpec == Spec /\ Fairness

-----------------------------------------------------------------------------
(* Types of the variables. *)
TypeOK ==
    /\ enclave \in {"new", "starting", "started", "open", "failed"}
    /\ cdsi_enclave \in {"none", "live", "freed"}
    /\ enc \in {"none", "created", "terminated"}
    /\ thread \in [Ids -> {"none", "created", "counted", "serving", "leaving",
                           "returned", "exited"}]
    /\ running_shard_threads \in 0 .. num_shards
    /\ running \in [Ids -> {"IDLE", "RUNNING", "STOPPING"}]
    /\ requests \in [Ids -> Seq(Calls \cup {Stop})]
    /\ shutdown \in BOOLEAN
    /\ call \in [Calls -> {"none", "queued", "rejected", "entering", "asking",
                           "waiting", "returning", "completed"}]
    /\ asked \in [Calls -> 0 .. num_shards]
    /\ future \in [Calls -> {"none", "submitted", "counted", "registered", "uncounted"}]
    /\ outstandingRequestCount \in Int
    /\ isClosed \in BOOLEAN
    /\ pc \in [Closers -> {"out", "await", "terminated", "stopping", "enqueue",
                           "stop_wait", "join", "finish", "closed"}]
    /\ shard \in [Closers -> 0 .. num_shards]
    /\ timed_out \in BOOLEAN /\ stop_failed \in BOOLEAN
    /\ count_read \in 0 .. num_shards

(* Shard threads and calls that will still use the shim's memory, and the   *)
(* ones that are in the enclave.                                            *)
ThreadsUsingShim == {i \in Ids : thread[i] \notin {"none", "exited"}}
CallsUsingShim == {c \in Calls : call[c] \notin {"none", "rejected", "completed"}}
ThreadsInEnclave == {i \in Ids : thread[i] \in {"serving", "leaving"}}
CallsInEnclave == {c \in Calls : call[c] \in {"asking", "waiting"}}

(* When nativeEnclaveClose frees the shim's memory, every shard thread has  *)
(* ended, unless stopping the shards failed, and every accepted call has    *)
(* returned, unless close gave up waiting for the executor: a timeout does  *)
(* not endanger the threads nor a failed stop the calls. The two exceptions *)
(* are paths on which the code does free memory in use. The third user of   *)
(* the memory, getRunningShardThreadCount, is not kept from it by anything  *)
(* and is no part of this: it reads freed memory if it runs after close.    *)
HandleLive ==
    cdsi_enclave = "freed" =>
        /\ stop_failed \/ ThreadsUsingShim = {}
        /\ timed_out \/ CallsUsingShim = {}

(* The enclave is terminated only when no shard thread is in it, even after *)
(* a timeout; and when no call is, unless there was one.                    *)
TerminatedEmpty ==
    enc = "terminated" =>
        /\ ThreadsInEnclave = {}
        /\ timed_out \/ CallsInEnclave = {}

(* Concurrent calls of close destroy the enclave once: at most one thread   *)
(* is in nativeEnclaveClose, and none is after the memory was freed.        *)
InNativeClose ==
    {k \in Closers : pc[k] \in {"stopping", "enqueue", "stop_wait", "join", "finish"}}
ClosedOnce ==
    /\ \A j, k \in InNativeClose : j = k
    /\ cdsi_enclave = "freed" => InNativeClose = {}

(* What close keeps of an orderly end: it destroys the enclave once,        *)
(* terminates it only when no shard thread is inside, and frees the shim's  *)
(* memory under no shard thread unless the stop failed and under no call    *)
(* unless the wait timed out. It says nothing of the reads of the count.    *)
OrderlyEnd == TypeOK /\ HandleLive /\ TerminatedEmpty /\ ClosedOnce

(* The count that load shedding looks at never goes below zero, and it is   *)
(* zero whenever every submitted call has completed and its submitter has   *)
(* registered the action that uncounts it.                                  *)
OutstandingBalanced ==
    /\ outstandingRequestCount >= 0
    /\ (\A c \in Calls : future[c] \in {"none", "uncounted"})
          => outstandingRequestCount = 0
    /\ \A c \in Calls : call[c] = "completed" => future[c] # "registered"

(* A close that finds every shard served returns, whatever calls are still  *)
(* in the queues of the shards: each stop is handled behind them, each      *)
(* thread is joined.                                                        *)
CloseReturnsWhenServed ==
    \A k \in Closers :
        (/\ pc[k] = "stopping" /\ shard[k] = 0
         /\ \A i \in Ids : running[i] = "RUNNING")
            ~> (pc[k] = "closed")

(* Every call that the executor accepted completes, unless close gave up    *)
(* waiting for it.                                                          *)
AcceptedCallCompletes ==
    \A c \in Calls : (call[c] = "queued") ~> (call[c] = "completed" \/ timed_out)

(* nativeEnclaveClose stops all threads and returns; in enclave_stop_shards *)
(* "a shard with no worker is already in the state this call is asking      *)
(* for". A thread that has been created and has not reached shard_run yet   *)
(* has no worker either, and starts one after the stop.                     *)
CloseReturns ==
    \A k \in Closers : (pc[k] = "stopping") ~> (pc[k] = "closed")
=============================================================================
