----------------------- MODULE EnclaveLifecycleProofs -----------------------
(***************************************************************************)
(* Why the end of the service is orderly, for any number of shards, calls  *)
(* and threads that call close. LifecycleInv is the inductive invariant:   *)
(* OrderlyEnd and OutstandingBalanced follow from it.                      *)
(***************************************************************************)
EXTENDS EnclaveLifecycle, FiniteSetTheorems, TLAPS

(* The two counters count what they are meant to count. *)
CountedThreads ==
    {i \in Ids : thread[i] \in {"counted", "serving", "leaving", "returned"}}
CountedCalls == {c \in Calls : future[c] \in {"counted", "registered"}}
CountInv ==
    /\ running_shard_threads = Cardinality(CountedThreads)
    /\ outstandingRequestCount = Cardinality(CountedCalls)

(* Threads, calls and closers exist only for an object that was built. *)
StartInv ==
    /\ enclave = "new" \/ (enclave = "failed" /\ cdsi_enclave = "freed") =>
          \A i \in Ids : thread[i] = "none"
    /\ enclave \in {"started", "open"} => \A i \in Ids : thread[i] # "none"
    /\ enclave # "open" =>
          /\ \A c \in Calls : call[c] = "none"
          /\ \A k \in Closers : pc[k] = "out"
          /\ ~isClosed /\ enc # "terminated"
    /\ enclave = "new" => cdsi_enclave = "none"
    /\ enclave \in {"starting", "started"} => cdsi_enclave = "live"

(* A call has a future once it is accepted; a call that goes to the shards  *)
(* has shards left to ask.                                                  *)
CallInv ==
    /\ \A c \in Calls : call[c] \in {"none", "rejected"} <=> future[c] = "none"
    /\ \A c \in Calls : call[c] = "completed" => future[c] # "registered"
    /\ \A c \in Calls : call[c] \in {"none", "queued", "entering"} => asked[c] = 0
    /\ \A c \in Calls : call[c] = "asking" => asked[c] < num_shards

Joined(n) == \A i \in Ids : i < n => thread[i] = "exited"

(* A thread that came through awaitTermination found the executor empty or  *)
(* gave up, and nothing is accepted afterwards.                             *)
Drained == shutdown /\ (timed_out \/ Pending = {})
ShutdownInv ==
    /\ \A k \in Closers : pc[k] # "out" => shutdown
    /\ \A k \in Closers : pc[k] \notin {"out", "await"} => Drained
    /\ isClosed => Drained

(* Whoever is in nativeEnclaveClose is there alone, and what it has joined, *)
(* terminated or freed by then has no thread any more.                      *)
CloseInv ==
    /\ \A k \in Closers : k \in InNativeClose => isClosed /\ cdsi_enclave # "freed"
    /\ \A j, k \in Closers : j \in InNativeClose /\ k \in InNativeClose => j = k
    /\ \A k \in Closers : pc[k] \in {"enqueue", "stop_wait"} => shard[k] < num_shards
    /\ \A k \in Closers : pc[k] = "join" => Joined(shard[k])
    /\ \A k \in Closers : pc[k] = "finish" => stop_failed \/ Joined(num_shards)
    /\ cdsi_enclave = "freed" /\ enclave = "open" =>
          isClosed /\ (stop_failed \/ Joined(num_shards))
    /\ enc = "terminated" => isClosed /\ Joined(num_shards)

LifecycleInv ==
    TypeOK /\ CountInv /\ StartInv /\ CallInv /\ ShutdownInv /\ CloseInv

(* Finite sets of threads and of calls, and their cardinalities. *)
LEMMA ThreadSet ==
    ASSUME NEW S \in SUBSET Ids
    PROVE  IsFiniteSet(S) /\ Cardinality(S) \in 0 .. num_shards
  <1>1. IsFiniteSet(Ids) /\ Cardinality(Ids) = num_shards
    BY FS_Interval, LifecycleAssumption DEF Ids
  <1>2. IsFiniteSet(S) /\ Cardinality(S) <= Cardinality(Ids)
    BY <1>1, FS_Subset
  <1>3. Cardinality(S) \in Nat
    BY <1>2, FS_CardinalityType
  <1> QED
    BY <1>1, <1>2, <1>3, LifecycleAssumption

LEMMA CallSet ==
    ASSUME NEW S \in SUBSET Calls
    PROVE  IsFiniteSet(S) /\ Cardinality(S) \in Nat
  BY FS_Subset, FS_CardinalityType, LifecycleAssumption

(* Before the constructor there is nothing. *)
LEMMA InitLifecycleInv == Init => LifecycleInv
  <1> SUFFICES ASSUME Init PROVE LifecycleInv
    OBVIOUS
  <1> USE LifecycleAssumption DEF Init
  <1>1. CountedThreads = {} /\ CountedCalls = {}
    BY DEF CountedThreads, CountedCalls
  <1>2. CountInv
    BY <1>1, FS_EmptySet DEF CountInv
  <1>3. /\ requests \in [Ids -> Seq(Calls \cup {Stop})] /\ running_shard_threads \in 0 .. num_shards
        /\ asked \in [Calls -> 0 .. num_shards] /\ shard \in [Closers -> 0 .. num_shards]
    OBVIOUS
  <1>4. TypeOK
    <2>1. /\ thread \in [Ids -> {"none", "created", "counted", "serving", "leaving",
                              "returned", "exited"}]
          /\ running \in [Ids -> {"IDLE", "RUNNING", "STOPPING"}]
      OBVIOUS
    <2>2. /\ call \in [Calls -> {"none", "queued", "rejected", "entering", "asking",
                               "waiting", "returning", "completed"}]
          /\ future \in [Calls -> {"none", "submitted", "counted", "registered", "uncounted"}]
      OBVIOUS
    <2>3. pc \in [Closers -> {"out", "await", "terminated", "stopping", "enqueue",
                              "stop_wait", "join", "finish", "closed"}]
      OBVIOUS
    <2>4. {shutdown, isClosed, timed_out, stop_failed} \subseteq BOOLEAN
      OBVIOUS
    <2>5. /\ enclave = "new" /\ cdsi_enclave = "none" /\ enc = "none"
          /\ outstandingRequestCount = 0 /\ count_read = 0 /\ 0 \in 0 .. num_shards
      OBVIOUS
    <2> HIDE DEF Init
    <2> QED
      BY <1>3, <2>1, <2>2, <2>3, <2>4, <2>5 DEF TypeOK
  <1>5. StartInv /\ CallInv
    BY DEF StartInv, CallInv
  <1>6. ShutdownInv /\ CloseInv
    BY DEF ShutdownInv, CloseInv, InNativeClose
  <1> QED
    BY <1>2, <1>4, <1>5, <1>6 DEF LifecycleInv

(* nativeEnclaveInit builds or fails before there is a thread. *)
LEMMA InvNativeEnclaveInit ==
    ASSUME LifecycleInv, nativeEnclaveInit, UNCHANGED count_read
    PROVE  LifecycleInv'
  <1> USE LifecycleAssumption DEF LifecycleInv, nativeEnclaveInit, shim, shards,
                               calls, closing
  <1>1. CountInv'
    BY DEF CountInv, CountedThreads, CountedCalls
  <1>2. TypeOK'
    BY DEF TypeOK
  <1>3. StartInv'
    BY DEF StartInv
  <1>4. CallInv'
    BY DEF CallInv
  <1>5. ShutdownInv'
    BY DEF ShutdownInv, StartInv
  <1>6. CloseInv'
    BY DEF CloseInv, StartInv, InNativeClose
  <1> QED
    BY <1>1, <1>2, <1>3, <1>4, <1>5, <1>6

(* run_shard creates the threads in order. *)
LEMMA InvRunShard ==
    ASSUME LifecycleInv, NEW i \in Ids, run_shard(i), UNCHANGED count_read
    PROVE  LifecycleInv'
  <1> USE LifecycleAssumption DEF LifecycleInv, run_shard, shim, shards, calls, closing
  <1>1. CountInv'
    BY DEF CountInv, TypeOK, CountedThreads, CountedCalls
  <1>2. TypeOK'
    BY DEF TypeOK
  <1>3. StartInv'
    BY DEF StartInv, TypeOK, Ids
  <1>4. CallInv'
    BY DEF CallInv
  <1>5. ShutdownInv'
    BY DEF ShutdownInv, StartInv
  <1>6. CloseInv'
    BY DEF CloseInv, StartInv, InNativeClose
  <1> QED
    BY <1>1, <1>2, <1>3, <1>4, <1>5, <1>6

(* The constructor's own call opens the object, or leaves the threads behind. *)
LEMMA InvGetTableStatistics ==
    ASSUME LifecycleInv, getTableStatistics, UNCHANGED count_read
    PROVE  LifecycleInv'
  <1> USE LifecycleAssumption DEF LifecycleInv, getTableStatistics, shim, shards,
                               calls, closing
  <1>1. CountInv'
    BY DEF CountInv, CountedThreads, CountedCalls
  <1>2. TypeOK'
    BY DEF TypeOK
  <1>3. StartInv'
    BY DEF StartInv
  <1>4. CallInv'
    BY DEF CallInv
  <1>5. ShutdownInv'
    BY DEF ShutdownInv, StartInv
  <1>6. CloseInv'
    BY DEF CloseInv, StartInv, InNativeClose
  <1> QED
    BY <1>1, <1>2, <1>3, <1>4, <1>5, <1>6

(* A shard thread counts itself in. *)
LEMMA InvShardThreadFn ==
    ASSUME LifecycleInv, NEW i \in Ids, shard_thread_fn(i), UNCHANGED count_read
    PROVE  LifecycleInv'
  <1> USE LifecycleAssumption DEF LifecycleInv, shard_thread_fn, ThreadGoto, shim,
                               shards, calls, closing
  <1>1. CountInv'
    <2>1. CountedThreads' = CountedThreads \cup {i} /\ i \notin CountedThreads
      BY DEF TypeOK, CountedThreads
    <2>2. Cardinality(CountedThreads') = Cardinality(CountedThreads) + 1
      BY <2>1, ThreadSet, FS_AddElement DEF CountedThreads
    <2>3. CountedCalls' = CountedCalls
      BY DEF CountedCalls
    <2> QED
      BY <2>2, <2>3 DEF CountInv
  <1>2. TypeOK'
    BY <1>1, ThreadSet DEF TypeOK, CountInv, CountedThreads
  <1>3. StartInv'
    BY DEF StartInv
  <1>4. CallInv'
    BY DEF CallInv
  <1>5. ShutdownInv'
    BY DEF ShutdownInv, Drained, Pending
  <1>6. CloseInv'
    BY DEF CloseInv, InNativeClose, Joined
  <1> QED
    BY <1>1, <1>2, <1>3, <1>4, <1>5, <1>6

(* A shard thread becomes the worker of its shard, or finds it stopping. *)
LEMMA InvEnclaveRunShard ==
    ASSUME LifecycleInv, NEW i \in Ids, enclave_run_shard(i), UNCHANGED count_read
    PROVE  LifecycleInv'
  <1> USE LifecycleAssumption DEF LifecycleInv, enclave_run_shard, ThreadGoto, shim,
                               shards, calls, closing
  <1>1. CountInv'
    BY DEF CountInv, TypeOK, CountedThreads, CountedCalls
  <1>2. TypeOK'
    BY ZenonT(60) DEF TypeOK
  <1>3. StartInv'
    BY DEF StartInv, TypeOK
  <1>4. CallInv'
    BY DEF CallInv
  <1>5. ShutdownInv'
    BY DEF ShutdownInv, Drained, Pending
  <1>6. CloseInv'
    BY DEF CloseInv, TypeOK, InNativeClose, Joined
  <1> QED
    BY <1>1, <1>2, <1>3, <1>4, <1>5, <1>6

(* The worker takes a request, or leaves its loop. *)
LEMMA InvShardHandleRequest ==
    ASSUME LifecycleInv, NEW i \in Ids, shard_handle_request(i), UNCHANGED count_read
    PROVE  LifecycleInv'
  <1> USE LifecycleAssumption DEF LifecycleInv, shard_handle_request, ThreadGoto,
                               shim, shards, calls, closing
  <1>1. CountInv'
    BY DEF CountInv, TypeOK, CountedThreads, CountedCalls
  <1>2. TypeOK'
    <2>1. Tail(requests[i]) \in Seq(Calls \cup {Stop})
      BY DEF TypeOK
    <2>2. requests' \in [Ids -> Seq(Calls \cup {Stop})]
      BY <2>1 DEF TypeOK
    <2>3. PICK l \in {"leaving", "serving"} : thread' = [thread EXCEPT ![i] = l]
      OBVIOUS
    <2>4. UNCHANGED <<enclave, cdsi_enclave, enc, running_shard_threads, running, shutdown,
                      calls, closing, count_read>>
      OBVIOUS
    <2> HIDE DEF shard_handle_request
    <2> QED
      BY <2>2, <2>3, <2>4 DEF TypeOK
  <1>3. StartInv'
    BY DEF StartInv
  <1>4. CallInv'
    BY DEF CallInv
  <1>5. ShutdownInv'
    BY DEF ShutdownInv, Drained, Pending
  <1>6. CloseInv'
    BY DEF CloseInv, InNativeClose, Joined
  <1> QED
    BY <1>1, <1>2, <1>3, <1>4, <1>5, <1>6

(* shard_run returns. *)
LEMMA InvShardRunReturn ==
    ASSUME LifecycleInv, NEW i \in Ids, shard_run_return(i), UNCHANGED count_read
    PROVE  LifecycleInv'
  <1> USE LifecycleAssumption DEF LifecycleInv, shard_run_return, ThreadGoto, shim,
                               shards, calls, closing
  <1>1. CountInv'
    BY DEF CountInv, TypeOK, CountedThreads, CountedCalls
  <1>2. TypeOK'
    BY DEF TypeOK
  <1>3. StartInv'
    BY DEF StartInv
  <1>4. CallInv'
    BY DEF CallInv
  <1>5. ShutdownInv'
    BY DEF ShutdownInv, Drained, Pending
  <1>6. CloseInv'
    BY DEF CloseInv, InNativeClose, Joined
  <1> QED
    BY <1>1, <1>2, <1>3, <1>4, <1>5, <1>6

(* A shard thread counts itself out and ends. *)
LEMMA InvShardThreadExit ==
    ASSUME LifecycleInv, NEW i \in Ids, shard_thread_exit(i), UNCHANGED count_read
    PROVE  LifecycleInv'
  <1> USE LifecycleAssumption DEF LifecycleInv, shard_thread_exit, ThreadGoto, shim,
                               shards, calls, closing
  <1>1. CountInv'
    <2>1. CountedThreads' = CountedThreads \ {i} /\ i \in CountedThreads
      BY DEF TypeOK, CountedThreads
    <2>2. Cardinality(CountedThreads') = Cardinality(CountedThreads) - 1
      BY <2>1, ThreadSet, FS_RemoveElement DEF CountedThreads
    <2>3. CountedCalls' = CountedCalls
      BY DEF CountedCalls
    <2> QED
      BY <2>2, <2>3 DEF CountInv, count_at_exit
  <1>2. TypeOK'
    BY <1>1, ThreadSet DEF TypeOK, CountInv, CountedThreads
  <1>3. StartInv'
    BY DEF StartInv
  <1>4. CallInv'
    BY DEF CallInv
  <1>5. ShutdownInv'
    BY DEF ShutdownInv, Drained, Pending
  <1>6. CloseInv'
    BY DEF CloseInv, InNativeClose, Joined
  <1> QED
    BY <1>1, <1>2, <1>3, <1>4, <1>5, <1>6

(* A call is accepted only before the shutdown, so Drained is stable. *)
LEMMA InvSubmit ==
    ASSUME LifecycleInv, NEW c \in Calls, Submit(c), UNCHANGED count_read
    PROVE  LifecycleInv'
  <1> USE LifecycleAssumption DEF LifecycleInv, Submit, shim, shards, calls, closing
  <1>1. CountInv'
    BY DEF CountInv, CallInv, TypeOK, CountedThreads, CountedCalls
  <1>2. TypeOK'
    BY DEF TypeOK
  <1>3. StartInv'
    BY DEF StartInv
  <1>4. CallInv'
    <2>1. CASE ~shutdown
      <3>1. /\ call' = [call EXCEPT ![c] = "queued"] /\ call[c] = "none"
            /\ future' = [future EXCEPT ![c] = "submitted"] /\ asked' = asked
        BY <2>1
      <3> HIDE DEF Submit
      <3> QED
        BY <3>1 DEF TypeOK, CallInv
    <2>2. CASE shutdown
      BY <2>2 DEF TypeOK, CallInv
    <2> QED
      BY <2>1, <2>2
  <1>5. ShutdownInv'
    BY DEF ShutdownInv, TypeOK, Drained, Pending
  <1>6. CloseInv'
    BY DEF CloseInv, InNativeClose, Joined
  <1> QED
    BY <1>1, <1>2, <1>3, <1>4, <1>5, <1>6

(* A call is counted. *)
LEMMA InvAddAndGet ==
    ASSUME LifecycleInv, NEW c \in Calls, addAndGet(c), UNCHANGED count_read
    PROVE  LifecycleInv'
  <1> USE LifecycleAssumption DEF LifecycleInv, addAndGet, shim, shards, calls, closing
  <1>1. CountInv'
    <2>1. CountedCalls' = CountedCalls \cup {c} /\ c \notin CountedCalls
      BY DEF TypeOK, CountedCalls
    <2>2. Cardinality(CountedCalls') = Cardinality(CountedCalls) + 1
      BY <2>1, CallSet, FS_AddElement DEF CountedCalls
    <2>3. CountedThreads' = CountedThreads
      BY DEF CountedThreads
    <2> QED
      BY <2>2, <2>3 DEF CountInv
  <1>2. TypeOK'
    BY DEF TypeOK
  <1>3. StartInv'
    BY DEF StartInv
  <1>4. CallInv'
    BY DEF CallInv
  <1>5. ShutdownInv'
    BY DEF ShutdownInv, Drained, Pending
  <1>6. CloseInv'
    BY DEF CloseInv, InNativeClose, Joined
  <1> QED
    BY <1>1, <1>2, <1>3, <1>4, <1>5, <1>6

(* The action that uncounts a call is registered, or runs at once. *)
LEMMA InvWhenComplete ==
    ASSUME LifecycleInv, NEW c \in Calls, whenComplete(c), UNCHANGED count_read
    PROVE  LifecycleInv'
  <1> USE LifecycleAssumption DEF LifecycleInv, whenComplete, registrable, shim,
                               shards, calls, closing
  <1>1. CountInv'
    <2>1. CountedThreads' = CountedThreads /\ c \in CountedCalls
      BY DEF TypeOK, CountedThreads, CountedCalls
    <2>2. CASE call[c] = "completed"
      <3>1. CountedCalls' = CountedCalls \ {c}
        BY <2>2 DEF TypeOK, CountedCalls
      <3>2. Cardinality(CountedCalls') = Cardinality(CountedCalls) - 1
        BY <2>1, <3>1, CallSet, FS_RemoveElement DEF CountedCalls
      <3> QED
        BY <2>1, <2>2, <3>2 DEF CountInv
    <2>3. CASE call[c] # "completed"
      <3>1. CountedCalls' = CountedCalls
        BY <2>3 DEF TypeOK, CountedCalls
      <3> QED
        BY <2>1, <2>3, <3>1 DEF CountInv
    <2> QED
      BY <2>2, <2>3
  <1>2. TypeOK'
    <2>1. PICK l \in {"uncounted", "registered"} : future' = [future EXCEPT ![c] = l]
      OBVIOUS
    <2>2. outstandingRequestCount' \in Int
      BY DEF TypeOK
    <2>3. UNCHANGED <<enclave, shim, shards, shutdown, call, asked, closing, count_read>>
      OBVIOUS
    <2> HIDE DEF whenComplete
    <2> QED
      BY <2>1, <2>2, <2>3 DEF TypeOK
  <1>3. StartInv'
    BY DEF StartInv
  <1>4. CallInv'
    BY DEF CallInv, TypeOK
  <1>5. ShutdownInv'
    BY DEF ShutdownInv, Drained, Pending
  <1>6. CloseInv'
    BY DEF CloseInv, InNativeClose, Joined
  <1> QED
    BY <1>1, <1>2, <1>3, <1>4, <1>5, <1>6

(* The pool takes a call. *)
LEMMA InvExecute ==
    ASSUME LifecycleInv, NEW c \in Calls, execute(c), UNCHANGED count_read
    PROVE  LifecycleInv'
  <1> USE LifecycleAssumption DEF LifecycleInv, execute, CallGoto, shim, shards,
                               calls, closing
  <1>1. CountInv'
    BY DEF CountInv, CountedThreads, CountedCalls
  <1>2. TypeOK'
    BY DEF TypeOK
  <1>3. StartInv'
    BY DEF StartInv
  <1>4. CallInv'
    BY DEF CallInv
  <1>5. ShutdownInv'
    BY DEF ShutdownInv, Drained, Pending
  <1>6. CloseInv'
    BY DEF CloseInv, InNativeClose, Joined
  <1> QED
    BY <1>1, <1>2, <1>3, <1>4, <1>5, <1>6

(* A call enters the enclave. *)
LEMMA InvNativeCall ==
    ASSUME LifecycleInv, NEW c \in Calls, nativeCall(c), UNCHANGED count_read
    PROVE  LifecycleInv'
  <1> USE LifecycleAssumption DEF LifecycleInv, nativeCall, CallGoto, shim, shards,
                               calls, closing
  <1>1. CountInv'
    BY DEF CountInv, CountedThreads, CountedCalls
  <1>2. TypeOK'
    BY DEF TypeOK
  <1>3. StartInv'
    BY DEF StartInv
  <1>4. CallInv'
    <2>1. PICK l \in {"returning", "asking"} : call' = [call EXCEPT ![c] = l]
      OBVIOUS
    <2>2. call[c] = "entering" /\ asked' = asked /\ future' = future
      OBVIOUS
    <2> HIDE DEF nativeCall
    <2> QED
      BY <2>1, <2>2 DEF TypeOK, CallInv
  <1>5. ShutdownInv'
    BY DEF ShutdownInv, Drained, Pending
  <1>6. CloseInv'
    BY DEF CloseInv, InNativeClose, Joined
  <1> QED
    BY <1>1, <1>2, <1>3, <1>4, <1>5, <1>6

(* A call asks the next shard. *)
LEMMA InvShardQuery ==
    ASSUME LifecycleInv, NEW c \in Calls, shard_query(c), UNCHANGED count_read
    PROVE  LifecycleInv'
  <1> USE LifecycleAssumption DEF LifecycleInv, shard_query, CallGoto, shim, shards,
                               calls, closing
  <1>1. CountInv'
    BY DEF CountInv, CountedThreads, CountedCalls
  <1>2. TypeOK'
    BY DEF TypeOK, CallInv, Ids
  <1>3. StartInv'
    BY DEF StartInv
  <1>4. CallInv'
    <2>1. PICK l \in {"waiting", "asking"} :
             /\ call' = [call EXCEPT ![c] = l]
             /\ l = "asking" => asked[c] # num_shards - 1
      OBVIOUS
    <2>2. /\ call[c] = "asking" /\ future' = future
          /\ asked' = [asked EXCEPT ![c] = asked[c] + 1]
      OBVIOUS
    <2>3. asked[c] \in 0 .. num_shards /\ asked[c] < num_shards
      BY <2>2 DEF TypeOK, CallInv
    <2> HIDE DEF shard_query
    <2> QED
      BY <2>1, <2>2, <2>3 DEF TypeOK, CallInv
  <1>5. ShutdownInv'
    BY DEF ShutdownInv, Drained, Pending
  <1>6. CloseInv'
    BY DEF CloseInv, InNativeClose, Joined
  <1> QED
    BY <1>1, <1>2, <1>3, <1>4, <1>5, <1>6

(* A call has its answers. *)
LEMMA InvShardWait ==
    ASSUME LifecycleInv, NEW c \in Calls, shard_wait(c), UNCHANGED count_read
    PROVE  LifecycleInv'
  <1> USE LifecycleAssumption DEF LifecycleInv, shard_wait, CallGoto, shim, shards,
                               calls, closing
  <1>1. CountInv'
    BY DEF CountInv, CountedThreads, CountedCalls
  <1>2. TypeOK'
    BY DEF TypeOK
  <1>3. StartInv'
    BY DEF StartInv
  <1>4. CallInv'
    BY DEF CallInv
  <1>5. ShutdownInv'
    BY DEF ShutdownInv, Drained, Pending
  <1>6. CloseInv'
    BY DEF CloseInv, InNativeClose, Joined
  <1> QED
    BY <1>1, <1>2, <1>3, <1>4, <1>5, <1>6

(* A call completes and runs the action that was registered. *)
LEMMA InvComplete ==
    ASSUME LifecycleInv, NEW c \in Calls, complete(c), UNCHANGED count_read
    PROVE  LifecycleInv'
  <1> USE LifecycleAssumption DEF LifecycleInv, complete, CallGoto, shim, shards,
                               calls, closing
  <1>1. CountInv'
    <2>1. CountedThreads' = CountedThreads
      BY DEF CountedThreads
    <2>2. CASE future[c] = "registered"
      <3>1. CountedCalls' = CountedCalls \ {c}
        BY <2>2 DEF TypeOK, CountedCalls
      <3>2. Cardinality(CountedCalls') = Cardinality(CountedCalls) - 1
        BY <2>2, <3>1, CallSet, FS_RemoveElement DEF CountedCalls
      <3> QED
        BY <2>1, <2>2, <3>2 DEF CountInv
    <2>3. CASE future[c] # "registered"
      <3>1. CountedCalls' = CountedCalls
        BY <2>3 DEF TypeOK, CountedCalls
      <3> QED
        BY <2>1, <2>3, <3>1 DEF CountInv
    <2> QED
      BY <2>2, <2>3
  <1>2. TypeOK'
    <2>1. future' \in [Calls -> {"none", "submitted", "counted", "registered", "uncounted"}]
      BY DEF TypeOK
    <2>2. outstandingRequestCount' \in Int
      BY DEF TypeOK
    <2>3. call' = [call EXCEPT ![c] = "completed"]
      OBVIOUS
    <2>4. UNCHANGED <<enclave, shim, shards, shutdown, asked, closing, count_read>>
      OBVIOUS
    <2> HIDE DEF complete
    <2> QED
      BY <2>1, <2>2, <2>3, <2>4 DEF TypeOK
  <1>3. StartInv'
    BY DEF StartInv
  <1>4. CallInv'
    BY DEF CallInv, TypeOK
  <1>5. ShutdownInv'
    BY DEF ShutdownInv, Drained, Pending
  <1>6. CloseInv'
    BY DEF CloseInv, InNativeClose, Joined
  <1> QED
    BY <1>1, <1>2, <1>3, <1>4, <1>5, <1>6

(* A thread enters close and shuts the executor down. *)
LEMMA InvClose ==
    ASSUME LifecycleInv, NEW k \in Closers, close(k), UNCHANGED count_read
    PROVE  LifecycleInv'
  <1> USE LifecycleAssumption DEF LifecycleInv, close, CloserGoto, shim, shards,
                               calls, closing
  <1>1. CountInv'
    BY DEF CountInv, CountedThreads, CountedCalls
  <1>2. TypeOK'
    BY DEF TypeOK
  <1>3. StartInv'
    BY DEF StartInv
  <1>4. CallInv'
    BY DEF CallInv
  <1>5. ShutdownInv'
    BY DEF ShutdownInv, Drained, Pending
  <1>6. CloseInv'
    BY DEF CloseInv, InNativeClose, Joined
  <1> QED
    BY <1>1, <1>2, <1>3, <1>4, <1>5, <1>6

(* awaitTermination ends with an empty executor or with the timeout. *)
LEMMA InvAwaitTermination ==
    ASSUME LifecycleInv, NEW k \in Closers, awaitTermination(k), UNCHANGED count_read
    PROVE  LifecycleInv'
  <1> USE LifecycleAssumption DEF LifecycleInv, awaitTermination, CloserGoto, shim,
                               shards, calls, closing
  <1>1. CountInv'
    BY DEF CountInv, CountedThreads, CountedCalls
  <1>2. TypeOK'
    BY ZenonT(60) DEF TypeOK
  <1>3. StartInv'
    BY DEF StartInv
  <1>4. CallInv'
    BY DEF CallInv
  <1>5. ShutdownInv'
    BY DEF ShutdownInv, Drained, Pending
  <1>6. CloseInv'
    BY DEF CloseInv, InNativeClose, Joined
  <1> QED
    BY <1>1, <1>2, <1>3, <1>4, <1>5, <1>6

(* One thread wins isClosed; from then on it is alone in the native close. *)
LEMMA InvCompareAndSet ==
    ASSUME LifecycleInv, NEW k \in Closers, compareAndSet(k), UNCHANGED count_read
    PROVE  LifecycleInv'
  <1> USE LifecycleAssumption DEF LifecycleInv, compareAndSet, CloserGoto, shim,
                               shards, calls, closing
  <1>1. CountInv'
    BY DEF CountInv, CountedThreads, CountedCalls
  <1>2. TypeOK'
    BY ZenonT(60) DEF TypeOK
  <1>3. StartInv'
    BY DEF StartInv
  <1>4. CallInv'
    BY DEF CallInv
  <1>5. ShutdownInv'
    BY DEF ShutdownInv, Drained, Pending
  <1>6. CloseInv'
    <2>1. CASE closes
      <3>1. pc[k] = "terminated" /\ pc' = [pc EXCEPT ![k] = "stopping"]
        BY <2>1
      <3>2. ~isClosed /\ isClosed' /\ cdsi_enclave # "freed"
        BY <2>1, <3>1 DEF closes, TypeOK, StartInv, CloseInv
      <3>3. UNCHANGED <<enclave, thread, cdsi_enclave, enc, shard, stop_failed>>
        OBVIOUS
      <3> HIDE DEF compareAndSet
      <3> QED
        BY <3>1, <3>2, <3>3 DEF TypeOK, CloseInv, InNativeClose, Joined
    <2>2. CASE ~closes
      <3>1. \A j \in Closers : pc'[j] # "closed" => pc'[j] = pc[j]
        BY <2>2 DEF TypeOK
      <3>2. \A j \in Closers : j \in InNativeClose' => j \in InNativeClose
        BY <2>2 DEF TypeOK, InNativeClose
      <3>3. isClosed' = isClosed
        BY <2>2
      <3>4. UNCHANGED <<enclave, thread, cdsi_enclave, enc, shard, stop_failed>>
        OBVIOUS
      <3> HIDE DEF compareAndSet
      <3> QED
        BY <3>1, <3>2, <3>3, <3>4 DEF CloseInv, Joined
    <2> QED
      BY <2>1, <2>2
  <1> QED
    BY <1>1, <1>2, <1>3, <1>4, <1>5, <1>6

(* A shard is told to stop, or has no worker. *)
LEMMA InvStopShard ==
    ASSUME LifecycleInv, NEW k \in Closers, stop_shard(k), UNCHANGED count_read
    PROVE  LifecycleInv'
  <1> USE LifecycleAssumption DEF LifecycleInv, stop_shard, CloserGoto, next_shard,
                               shim, shards, calls, closing
  <1>1. CountInv'
    BY DEF CountInv, CountedThreads, CountedCalls
  <1>2. TypeOK'
    <2>1. running' = running \/ running' = [running EXCEPT ![shard[k]] = "STOPPING"]
      OBVIOUS
    <2>2. CASE running[shard[k]] = "RUNNING"
      BY <2>1, <2>2, ZenonT(60) DEF TypeOK
    <2>3. CASE running[shard[k]] # "RUNNING"
      <3>1. shard[k] < num_shards /\ shard' = [shard EXCEPT ![k] = shard[k] + 1]
        BY <2>3
      <3>2. shard' \in [Closers -> 0 .. num_shards]
        BY <3>1 DEF TypeOK
      <3> QED
        BY <2>1, <2>3, <3>2 DEF TypeOK
    <2> QED
      BY <2>2, <2>3
  <1>3. StartInv'
    BY DEF StartInv
  <1>4. CallInv'
    BY DEF CallInv
  <1>5. ShutdownInv'
    BY DEF ShutdownInv, Drained, Pending
  <1>6. CloseInv'
    <2>1. CASE running[shard[k]] = "RUNNING"
      <3>1. pc[k] = "stopping" /\ shard[k] < num_shards /\ pc' = [pc EXCEPT ![k] = "enqueue"]
        BY <2>1
      <3>2. UNCHANGED <<enclave, thread, cdsi_enclave, enc, isClosed, shard, stop_failed>>
        BY <2>1
      <3> HIDE DEF stop_shard
      <3> QED
        BY <3>1, <3>2 DEF TypeOK, CloseInv, InNativeClose, Joined
    <2>2. CASE running[shard[k]] # "RUNNING"
      BY <2>2 DEF TypeOK, CloseInv, InNativeClose, Joined
    <2> QED
      BY <2>1, <2>2
  <1> QED
    BY <1>1, <1>2, <1>3, <1>4, <1>5, <1>6

(* The stop is queued. *)
LEMMA InvStopEnqueue ==
    ASSUME LifecycleInv, NEW k \in Closers, stop_enqueue(k), UNCHANGED count_read
    PROVE  LifecycleInv'
  <1> USE LifecycleAssumption DEF LifecycleInv, stop_enqueue, CloserGoto, shim,
                               shards, calls, closing
  <1>1. CountInv'
    BY DEF CountInv, CountedThreads, CountedCalls
  <1>2. TypeOK'
    <2>1. shard[k] \in Ids
      BY DEF TypeOK, CloseInv, Ids
    <2>2. Append(requests[shard[k]], Stop) \in Seq(Calls \cup {Stop})
      BY <2>1 DEF TypeOK
    <2> QED
      BY <2>2 DEF TypeOK
  <1>3. StartInv'
    BY DEF StartInv
  <1>4. CallInv'
    BY DEF CallInv
  <1>5. ShutdownInv'
    BY DEF ShutdownInv, Drained, Pending
  <1>6. CloseInv'
    BY DEF CloseInv, InNativeClose, Joined
  <1> QED
    BY <1>1, <1>2, <1>3, <1>4, <1>5, <1>6

(* The stop was handled. *)
LEMMA InvStopReturn ==
    ASSUME LifecycleInv, NEW k \in Closers, stop_return(k), UNCHANGED count_read
    PROVE  LifecycleInv'
  <1> USE LifecycleAssumption DEF LifecycleInv, stop_return, CloserGoto, next_shard,
                               shim, shards, calls, closing
  <1>1. CountInv'
    BY DEF CountInv, CountedThreads, CountedCalls
  <1>2. TypeOK'
    BY DEF TypeOK, CloseInv
  <1>3. StartInv'
    BY DEF StartInv
  <1>4. CallInv'
    BY DEF CallInv
  <1>5. ShutdownInv'
    BY DEF ShutdownInv, Drained, Pending
  <1>6. CloseInv'
    BY DEF CloseInv, TypeOK, InNativeClose, Joined
  <1> QED
    BY <1>1, <1>2, <1>3, <1>4, <1>5, <1>6

(* The ecall fails. *)
LEMMA InvStopFails ==
    ASSUME LifecycleInv, NEW k \in Closers, stop_fails(k), UNCHANGED count_read
    PROVE  LifecycleInv'
  <1> USE LifecycleAssumption DEF LifecycleInv, stop_fails, CloserGoto, shim, shards,
                               calls, closing
  <1>1. CountInv'
    BY DEF CountInv, CountedThreads, CountedCalls
  <1>2. TypeOK'
    BY DEF TypeOK
  <1>3. StartInv'
    BY DEF StartInv
  <1>4. CallInv'
    BY DEF CallInv
  <1>5. ShutdownInv'
    BY DEF ShutdownInv, Drained, Pending
  <1>6. CloseInv'
    BY DEF CloseInv, InNativeClose, Joined
  <1> QED
    BY <1>1, <1>2, <1>3, <1>4, <1>5, <1>6

(* All shards were asked to stop; the joins begin. *)
LEMMA InvStopDone ==
    ASSUME LifecycleInv, NEW k \in Closers, stop_done(k), UNCHANGED count_read
    PROVE  LifecycleInv'
  <1> USE LifecycleAssumption DEF LifecycleInv, stop_done, CloserGoto, shim, shards,
                               calls, closing
  <1>1. CountInv'
    BY DEF CountInv, CountedThreads, CountedCalls
  <1>2. TypeOK'
    BY DEF TypeOK
  <1>3. StartInv'
    BY DEF StartInv
  <1>4. CallInv'
    BY DEF CallInv
  <1>5. ShutdownInv'
    BY DEF ShutdownInv, Drained, Pending
  <1>6. CloseInv'
    BY DEF CloseInv, TypeOK, InNativeClose, Joined, Ids
  <1> QED
    BY <1>1, <1>2, <1>3, <1>4, <1>5, <1>6

(* One more thread is joined: the prefix of ended threads grows. *)
LEMMA InvPthreadJoin ==
    ASSUME LifecycleInv, NEW k \in Closers, pthread_join(k), UNCHANGED count_read
    PROVE  LifecycleInv'
  <1> USE LifecycleAssumption DEF LifecycleInv, pthread_join, joinable, shim, shards,
                               calls, closing
  <1>1. CountInv'
    BY DEF CountInv, CountedThreads, CountedCalls
  <1>2. TypeOK'
    BY DEF TypeOK
  <1>3. StartInv'
    BY DEF StartInv
  <1>4. CallInv'
    BY DEF CallInv
  <1>5. ShutdownInv'
    BY DEF ShutdownInv, Drained, Pending
  <1>6. CloseInv'
    BY DEF CloseInv, TypeOK, InNativeClose, Joined, Ids
  <1> QED
    BY <1>1, <1>2, <1>3, <1>4, <1>5, <1>6

(* All are joined when the enclave is terminated. *)
LEMMA InvOeTerminateEnclave ==
    ASSUME LifecycleInv, NEW k \in Closers, oe_terminate_enclave(k), UNCHANGED count_read
    PROVE  LifecycleInv'
  <1> USE LifecycleAssumption DEF LifecycleInv, oe_terminate_enclave, CloserGoto,
                               all_joined, shim, shards, calls, closing
  <1>1. CountInv'
    BY DEF CountInv, CountedThreads, CountedCalls
  <1>2. TypeOK'
    BY DEF TypeOK
  <1>3. StartInv'
    BY DEF StartInv
  <1>4. CallInv'
    BY DEF CallInv
  <1>5. ShutdownInv'
    BY DEF ShutdownInv, Drained, Pending
  <1>6. CloseInv'
    BY DEF CloseInv, InNativeClose, Joined
  <1> QED
    BY <1>1, <1>2, <1>3, <1>4, <1>5, <1>6

(* The shim's memory is freed. *)
LEMMA InvFinish ==
    ASSUME LifecycleInv, NEW k \in Closers, finish(k), UNCHANGED count_read
    PROVE  LifecycleInv'
  <1> USE LifecycleAssumption DEF LifecycleInv, finish, CloserGoto, shim, shards,
                               calls, closing
  <1>1. CountInv'
    BY DEF CountInv, CountedThreads, CountedCalls
  <1>2. TypeOK'
    BY DEF TypeOK
  <1>3. StartInv'
    BY DEF StartInv
  <1>4. CallInv'
    BY DEF CallInv
  <1>5. ShutdownInv'
    BY DEF ShutdownInv, Drained, Pending
  <1>6. CloseInv'
    BY DEF CloseInv, TypeOK, InNativeClose, Joined
  <1> QED
    BY <1>1, <1>2, <1>3, <1>4, <1>5, <1>6

(* A read of the count changes nothing else. *)
LEMMA InvCountRead ==
    ASSUME LifecycleInv, UNCHANGED work, count_read' \in 0 .. num_shards
    PROVE  LifecycleInv'
  <1> USE DEF LifecycleInv, work, shim, shards, calls, closing
  <1>1. CountInv' /\ TypeOK' /\ StartInv' /\ CallInv'
    BY DEF CountInv, CountedThreads, CountedCalls, TypeOK, StartInv, CallInv
  <1>2. ShutdownInv' /\ CloseInv'
    BY DEF ShutdownInv, CloseInv, Drained, Pending, InNativeClose, Joined
  <1> QED
    BY <1>1, <1>2

LEMMA StepLifecycleInv == LifecycleInv /\ [Next]_vars => LifecycleInv'
  <1> SUFFICES ASSUME LifecycleInv, [Next]_vars PROVE LifecycleInv'
    OBVIOUS
  <1>1. ASSUME Work, UNCHANGED count_read PROVE LifecycleInv'
    <2>1. CASE Starting
      BY <1>1, <2>1, InvNativeEnclaveInit, InvRunShard, InvGetTableStatistics DEF Starting
    <2>2. ASSUME NEW i \in Ids, Thread(i) PROVE LifecycleInv'
      BY <1>1, <2>2, InvShardThreadFn, InvEnclaveRunShard, InvShardHandleRequest,
         InvShardRunReturn, InvShardThreadExit DEF Thread
    <2>3. ASSUME NEW c \in Calls, Submit(c) \/ Caller(c) PROVE LifecycleInv'
      BY <1>1, <2>3, InvSubmit, InvAddAndGet, InvWhenComplete DEF Caller
    <2>4. ASSUME NEW c \in Calls, Pool(c) PROVE LifecycleInv'
      BY <1>1, <2>4, InvExecute, InvNativeCall, InvShardQuery, InvShardWait,
         InvComplete DEF Pool
    <2>5. ASSUME NEW k \in Closers, close(k) \/ Closer(k) PROVE LifecycleInv'
      BY <1>1, <2>5, InvClose, InvAwaitTermination, InvCompareAndSet, InvStopShard,
         InvStopEnqueue, InvStopReturn, InvStopFails, InvStopDone, InvPthreadJoin,
         InvOeTerminateEnclave, InvFinish DEF Closer
    <2> QED
      BY <1>1, <2>1, <2>2, <2>3, <2>4, <2>5 DEF Work
  <1>2. CASE getRunningShardThreadCount
    <2>1. UNCHANGED work /\ count_read' \in 0 .. num_shards
      BY <1>2 DEF getRunningShardThreadCount, LifecycleInv, TypeOK
    <2> QED
      BY <2>1, InvCountRead
  <1>3. CASE UNCHANGED vars
    <2>1. UNCHANGED work /\ count_read' \in 0 .. num_shards
      BY <1>3 DEF vars, LifecycleInv, TypeOK
    <2> QED
      BY <2>1, InvCountRead
  <1> QED
    BY <1>1, <1>2, <1>3 DEF Next

(* LifecycleInv holds in every state of the system. *)
THEOREM LifecycleInvariance == Spec => []LifecycleInv
  BY InitLifecycleInv, StepLifecycleInv, PTL DEF Spec

(* What close keeps of an orderly end, for any number of shards, calls and  *)
(* threads in close: one of them destroys the enclave, it terminates it     *)
(* when no shard thread is inside, and it frees the shim's memory under no  *)
(* shard thread unless stopping the shards failed, and under no call unless *)
(* awaitTermination timed out. Reads of the count of running threads are    *)
(* not among the users it speaks of: nothing keeps them from freed memory.  *)
THEOREM EndIsOrderly == Spec => []OrderlyEnd
  <1>1. LifecycleInv => OrderlyEnd
    <2> SUFFICES ASSUME LifecycleInv PROVE OrderlyEnd
      OBVIOUS
    <2>1. HandleLive
      <3> SUFFICES ASSUME cdsi_enclave = "freed"
                   PROVE  /\ stop_failed \/ ThreadsUsingShim = {}
                          /\ timed_out \/ CallsUsingShim = {}
        BY DEF HandleLive
      <3>1. CASE enclave = "open"
        <4>1. stop_failed \/ \A i \in Ids : thread[i] = "exited"
          BY <3>1, LifecycleAssumption DEF LifecycleInv, CloseInv, Joined, Ids
        <4>2. timed_out \/ Pending = {}
          BY <3>1 DEF LifecycleInv, CloseInv, ShutdownInv, Drained
        <4>3. timed_out \/ \A c \in Calls : call[c] \in {"none", "rejected", "completed"}
          BY <4>2 DEF Pending, LifecycleInv, TypeOK
        <4> QED
          BY <4>1, <4>3 DEF ThreadsUsingShim, CallsUsingShim
      <3>2. CASE enclave # "open"
        BY <3>2 DEF LifecycleInv, TypeOK, StartInv, ThreadsUsingShim, CallsUsingShim
      <3> QED
        BY <3>1, <3>2
    <2>2. TerminatedEmpty
      <3> SUFFICES ASSUME enc = "terminated"
                   PROVE  ThreadsInEnclave = {} /\ (timed_out \/ CallsInEnclave = {})
        BY DEF TerminatedEmpty
      <3>1. \A i \in Ids : thread[i] = "exited"
        BY LifecycleAssumption DEF LifecycleInv, CloseInv, Joined, Ids
      <3>2. timed_out \/ Pending = {}
        BY DEF LifecycleInv, CloseInv, ShutdownInv, Drained
      <3> QED
        BY <3>1, <3>2 DEF ThreadsInEnclave, CallsInEnclave, Pending
    <2>3. ClosedOnce
      BY DEF LifecycleInv, CloseInv, ClosedOnce, InNativeClose
    <2> QED
      BY <2>1, <2>2, <2>3 DEF OrderlyEnd, LifecycleInv
  <1> QED
    BY <1>1, LifecycleInvariance, PTL

(* The count that load shedding looks at is the number of calls between     *)
(* addAndGet and the action of whenComplete: never negative, and zero when  *)
(* there is none.                                                           *)
THEOREM CountsBalance == Spec => []OutstandingBalanced
  <1>1. LifecycleInv => OutstandingBalanced
    <2> SUFFICES ASSUME LifecycleInv PROVE OutstandingBalanced
      OBVIOUS
    <2>1. outstandingRequestCount >= 0
      BY CallSet DEF LifecycleInv, CountInv, CountedCalls
    <2>2. ASSUME \A c \in Calls : future[c] \in {"none", "uncounted"}
          PROVE  outstandingRequestCount = 0
      <3>1. CountedCalls = {}
        BY <2>2 DEF CountedCalls
      <3> QED
        BY <3>1, FS_EmptySet DEF LifecycleInv, CountInv
    <2> QED
      BY <2>1, <2>2 DEF OutstandingBalanced, LifecycleInv, CallInv
  <1> QED
    BY <1>1, LifecycleInvariance, PTL
=============================================================================
