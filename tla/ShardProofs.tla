---------------------------- MODULE ShardProofs ----------------------------
(***************************************************************************)
(* Proofs about c/sharded_ohtable/shard.c, for any number of callers, of   *)
(* threads that call shard_run, of requests, keys and values: the          *)
(* inductive invariant IInv, the safety properties that follow from it,    *)
(* and that a shard implements SerialShard, the linearizable map.          *)
(***************************************************************************)
EXTENDS ShardInv, ShardRefinement, SequenceTheorems, WellFoundedInduction, TLAPS

(* IInv without its types and without what a batch is about. *)
Parts == /\ WorkerHolds /\ SingleWorker /\ HeapInv /\ OwnerInv
        /\ KindInv /\ LifeInv /\ StopInv /\ OrderInv

LEMMA FreshType ==
  ASSUME NEW type \in Types, NEW rec \in RecSeqs
  PROVE  NewRequest(type, rec) \in Requests
  BY DEF NewRequest, Requests, Errs

LEMMA EmptyRecs == << >> \in RecSeqs
  BY DEF RecSeqs

LEMMA FreedType == NewRequest("wait", << >>) \in Requests
  BY FreshType, EmptyRecs DEF Types

LEMMA EmptyTableType == EmptyTable \in [Keys -> Vals \cup {Absent}]
  BY DEF EmptyTable

LEMMA WaiterBool == \A r : HasWaiter(r) \in BOOLEAN
  BY DEF HasWaiter

LEMMA TypeInit == Init => TypeOK
<1> SUFFICES ASSUME Init PROVE TypeOK
  OBVIOUS
<1>1. table \in [Keys -> Vals \cup {Absent}] /\ req \in [Reqs -> Requests]
  BY FreedType, EmptyTableType DEF Init
<1>2. /\ phase \in [Reqs -> Phases] /\ pc \in [Threads -> CallerPcs]
      /\ wpc \in [Workers -> WorkerPcs] /\ widx \in [Workers -> Nat]
  BY DEF Init, Phases, CallerPcs, WorkerPcs
<1>3. requests \in Seq(Reqs) /\ sub \in [Threads -> Reqs \cup {NoReq}]
  BY DEF Init
<1>4. wtr \in [Threads -> Reqs \cup {NoReq}] /\ wreq \in [Workers -> Reqs \cup {NoReq}]
  BY DEF Init
<1>5. /\ running \in {"IDLE", "RUNNING", "STOPPING"} /\ keep_alive \in BOOLEAN
      /\ life \in {"live", "destroying", "dead"}
  BY DEF Init
<1> QED
  BY <1>1, <1>2, <1>3, <1>4, <1>5 DEF TypeOK

LEMMA EnqueueType ==
  ASSUME TypeOK, NEW r \in Reqs, NEW type \in Types,
         NEW rec \in RecSeqs, Enqueue(r, type, rec)
  PROVE  /\ req' \in [Reqs -> Requests]
         /\ phase' \in [Reqs -> Phases]
         /\ requests' \in Seq(Reqs)
  BY FreshType DEF TypeOK, Enqueue, Phases

LEMMA FreeType ==
  ASSUME TypeOK, NEW r \in Reqs, Free(r)
  PROVE  req' \in [Reqs -> Requests] /\ phase' \in [Reqs -> Phases]
  BY FreedType DEF TypeOK, Free, Phases

LEMMA RecordsType ==
  ASSUME NEW b \in Batches, NEW v \in Vals \cup {Absent}
  PROVE  Records(b, v) \in RecSeqs
<1>1. b \in Seq(Keys)
  BY ShardAssumption
<1>2. DOMAIN b = 1 .. Len(b) /\ Len(b) \in Nat /\ \A i \in 1 .. Len(b) : b[i] \in Keys
  BY <1>1
<1>3. Records(b, v) \in [1 .. Len(b) -> Record]
  BY <1>2 DEF Records, Record
<1> HIDE DEF Record, Records
<1> QED
  BY <1>2, <1>3 DEF RecSeqs

LEMMA HandleInsertType ==
  ASSUME TypeOK, NEW w \in Workers, wreq[w] \in Reqs, handle_insert(w) PROVE TypeOK'
<1> DEFINE r == wreq[w]
<1>1. req[r] \in Requests /\ widx[w] + 1 \in 1 .. Len(req[r].rec)
  BY DEF TypeOK, handle_insert, Requests, RecSeqs
<1>2. req[r].rec[widx[w] + 1] \in Record
  BY <1>1 DEF Requests, RecSeqs
<1>3. req' \in [Reqs -> Requests]
  <2>1. CASE Full(table)
    <3>1. req' = [req EXCEPT ![r] = [req[r] EXCEPT !.err = "TABLE_FULL"]]
      BY <2>1 DEF handle_insert
    <3> QED
      BY <1>1, <3>1 DEF TypeOK, Requests, Errs
  <2>2. CASE ~Full(table)
    BY <2>2 DEF TypeOK, handle_insert
  <2> QED
    BY <2>1, <2>2
<1>4. table' \in [Keys -> Vals \cup {Absent}]
  BY <1>2 DEF TypeOK, handle_insert, Record
<1>5. wpc' \in [Workers -> WorkerPcs] /\ widx' \in [Workers -> Nat]
  <2>1. \/ wpc' = [wpc EXCEPT ![w] = "finish"] /\ widx' = widx
        \/ wpc' = wpc /\ widx' = [widx EXCEPT ![w] = widx[w] + 1]
    BY DEF handle_insert
  <2>2. [wpc EXCEPT ![w] = "finish"] \in [Workers -> WorkerPcs]
    BY DEF TypeOK, WorkerPcs
  <2>3. widx[w] + 1 \in Nat
    BY DEF TypeOK
  <2>4. [widx EXCEPT ![w] = widx[w] + 1] \in [Workers -> Nat]
    BY <2>3 DEF TypeOK
  <2>5. wpc \in [Workers -> WorkerPcs] /\ widx \in [Workers -> Nat]
    BY DEF TypeOK
  <2> QED
    BY <2>1, <2>2, <2>4, <2>5
<1> QED
  BY <1>3, <1>4, <1>5 DEF TypeOK, handle_insert, callerVars

LEMMA HandleQueryType ==
  ASSUME TypeOK, NEW w \in Workers, wreq[w] \in Reqs, handle_query(w) PROVE TypeOK'
<1> DEFINE r == wreq[w]
           i == widx[w] + 1
           s == req[r].rec
           e == [s[i] EXCEPT !.val = table[s[i].key]]
<1>1. req[r] \in Requests /\ s \in Seq(Record) /\ i \in 1 .. Len(s)
  BY DEF TypeOK, handle_query, Requests, RecSeqs
<1>2. s[i] \in Record
  BY <1>1
<1>3. e \in Record
  BY <1>2 DEF Record, TypeOK
<1>4. [s EXCEPT ![i] = e] \in RecSeqs
  BY <1>1, <1>3 DEF RecSeqs
<1>5. req' = [req EXCEPT ![r] = [req[r] EXCEPT !.rec = [s EXCEPT ![i] = e]]]
  BY DEF handle_query
<1>6. req' \in [Reqs -> Requests]
  BY <1>1, <1>4, <1>5 DEF TypeOK, Requests
<1> QED
  BY <1>1, <1>6 DEF TypeOK, handle_query, shardVars, callerVars

LEMMA HandleQueryFailType ==
  ASSUME TypeOK, NEW w \in Workers, wreq[w] \in Reqs, handle_query_fail(w) PROVE TypeOK'
<1> DEFINE r == wreq[w]
           i == widx[w] + 1
           s == req[r].rec
<1>1. req[r] \in Requests /\ s \in Seq(Record) /\ i \in 1 .. Len(s)
  BY DEF TypeOK, handle_query_fail, Requests, RecSeqs
<1>2. s[i] \in Record /\ table \in [Keys -> Vals \cup {Absent}]
  BY <1>1 DEF TypeOK
<1>3. PICK v \in {s[i].val, table[s[i].key]} :
        req' = [req EXCEPT ![r].err = "ACCESS_FAILED", ![r].rec[i].val = v]
  BY DEF handle_query_fail
<1> DEFINE e == [s[i] EXCEPT !.val = v]
<1>4. e \in Record
  BY <1>2, <1>3 DEF Record
<1>5. [s EXCEPT ![i] = e] \in RecSeqs
  BY <1>1, <1>4 DEF RecSeqs
<1>6. req' = [req EXCEPT ![r] = [req[r] EXCEPT !.err = "ACCESS_FAILED", !.rec = [s EXCEPT ![i] = e]]]
  BY <1>3
<1>7. req' \in [Reqs -> Requests]
  BY <1>1, <1>5, <1>6 DEF TypeOK, Requests, Errs
<1> QED
  BY <1>7 DEF TypeOK, handle_query_fail, WorkerPcs, shardVars, callerVars

(* One step of the specification keeps the types. *)
LEMMA TypeStep == TypeOK /\ WorkerHolds /\ [Next]_vars => TypeOK'
<1> SUFFICES ASSUME TypeOK, WorkerHolds, [Next]_vars PROVE TypeOK'
  OBVIOUS
<1> USE DEF shardVars, heapVars, callerVars, workerVars
<1>1. ASSUME NEW t \in Threads, NEW type \in Types,
             NEW rec \in RecSeqs, Submit(t, type, rec)
      PROVE  TypeOK'
  <2>1. PICK r \in Reqs : Enqueue(r, type, rec) /\ sub' = [sub EXCEPT ![t] = r]
    BY <1>1 DEF Submit
  <2> QED
    BY <1>1, <2>1, EnqueueType DEF TypeOK, Submit, CallerPcs
<1>2. ASSUME NEW t \in Threads, CallerStep(t) PROVE TypeOK'
  <2>1. CASE shard_wait(t)
    <3>1. PICK r \in Reqs : Enqueue(r, "wait", << >>) /\ wtr' = [wtr EXCEPT ![t] = r]
      BY <2>1 DEF shard_wait
    <3> QED
      BY <2>1, <3>1, EnqueueType, EmptyRecs DEF TypeOK, shard_wait, CallerPcs, Types
  <2>2. CASE shard_stop_enqueue(t)
    <3>1. PICK r \in Reqs : Enqueue(r, "stop", << >>) /\ wtr' = [wtr EXCEPT ![t] = r]
      BY <2>2 DEF shard_stop_enqueue
    <3> QED
      BY <2>2, <3>1, EnqueueType, EmptyRecs DEF TypeOK, shard_stop_enqueue, CallerPcs, Types
  <2>3. CASE shard_wait_return(t)
    BY <2>3, FreedType DEF TypeOK, Free, Phases, shard_wait_return, CallerPcs
  <2>4. CASE shard_request_destroy(t)
    BY <2>4, FreedType DEF TypeOK, Free, Phases, shard_request_destroy, CallerPcs
  <2>5. CASE shard_stop_return(t)
    BY <2>5, FreedType DEF TypeOK, Free, Phases, shard_stop_return, CallerPcs
  <2>6. CASE shard_destroy_drain(t)
    <3>1. requests # << >> /\ requests \in Seq(Reqs)
      BY <2>6 DEF shard_destroy_drain, TypeOK
    <3>2. Head(requests) \in Reqs /\ Tail(requests) \in Seq(Reqs)
      BY <3>1
    <3>3. req' \in [Reqs -> Requests]
      <4> DEFINE r == Head(requests)
      <4>1. req' = [req EXCEPT ![r] = [req[r] EXCEPT !.err = "DESTROYING", !.done = HasWaiter(r)]]
        BY <2>6 DEF shard_destroy_drain
      <4>2. req[r] \in Requests /\ HasWaiter(r) \in BOOLEAN
        BY <3>2, WaiterBool DEF TypeOK
      <4>3. [req[r] EXCEPT !.err = "DESTROYING", !.done = HasWaiter(r)] \in Requests
        BY <4>2 DEF Requests, Errs
      <4> HIDE DEF r
      <4> QED
        BY <4>1, <4>3 DEF TypeOK
    <3> QED
      BY <2>6, <3>2, <3>3 DEF TypeOK, shard_destroy_drain, Phases
  <2>7. CASE shard_destroy_free(t)
    BY <2>7 DEF TypeOK, shard_destroy_free, CallerPcs
  <2> QED
    BY <1>2, <2>1, <2>2, <2>3, <2>4, <2>5, <2>6, <2>7 DEF CallerStep
<1>3. ASSUME NEW t \in Threads, CallerCall(t) PROVE TypeOK'
  <2>1. ASSUME NEW b \in Batches, NEW v \in Vals, shard_insert(t, b, v) PROVE TypeOK'
    BY <1>1, <2>1, RecordsType DEF shard_insert, Types
  <2>2. ASSUME NEW b \in Batches, shard_query(t, b) PROVE TypeOK'
    BY <1>1, <2>2, RecordsType DEF shard_query, Types
  <2>3. CASE shard_clear(t)
    BY <1>1, <2>3, EmptyRecs DEF shard_clear, Types
  <2>4. CASE shard_stop(t)
    BY <2>4 DEF TypeOK, shard_stop, CallerPcs
  <2>5. CASE shard_destroy(t)
    BY <2>5 DEF TypeOK, shard_destroy, CallerPcs
  <2>6. CASE shard_create(t)
    BY <2>6 DEF TypeOK, shard_create, EmptyTable
  <2> QED
    BY <1>3, <2>1, <2>2, <2>3, <2>4, <2>5, <2>6 DEF CallerCall
<1>4. ASSUME NEW w \in Workers, WorkerStep(w) \/ shard_run(w) PROVE TypeOK'
  <2>1. CASE shard_run(w)
    BY <2>1 DEF TypeOK, shard_run, WorkerPcs
  <2>2. CASE shard_run_start(w)
    BY <2>2 DEF TypeOK, shard_run_start, WorkerPcs
  <2>3. CASE shard_next_request(w)
    <3>1. Head(requests) \in Reqs /\ Tail(requests) \in Seq(Reqs)
      BY <2>3 DEF shard_next_request, TypeOK
    <3> QED
      BY <2>3, <3>1 DEF TypeOK, shard_next_request, WorkerPcs, Phases
  <2>4. CASE shard_loop_exit(w)
    BY <2>4 DEF TypeOK, shard_loop_exit, WorkerPcs
  <2>5. CASE handle_insert(w)
    <3>1. wpc[w] = "handle"
      BY <2>5 DEF handle_insert
    <3>2. wreq[w] \in Reqs
      BY <3>1 DEF WorkerHolds
    <3> QED
      BY <2>5, <3>2, HandleInsertType
  <2>6. CASE handle_query(w)
    <3>1. wpc[w] = "handle"
      BY <2>6 DEF handle_query
    <3>2. wreq[w] \in Reqs
      BY <3>1 DEF WorkerHolds
    <3> QED
      BY <2>6, <3>2, HandleQueryType
  <2>10. CASE handle_query_fail(w)
    <3>1. wpc[w] = "handle"
      BY <2>10 DEF handle_query_fail
    <3>2. wreq[w] \in Reqs
      BY <3>1 DEF WorkerHolds
    <3> QED
      BY <2>10, <3>2, HandleQueryFailType
  <2>7. CASE handle_other(w)
    BY <2>7 DEF TypeOK, handle_other, EmptyTable, WorkerPcs
  <2>8. CASE shard_waiter_finish(w)
    <3>0. req' = [req EXCEPT ![wreq[w]].done = HasWaiter(wreq[w])]
      BY <2>8 DEF shard_waiter_finish
    <3>2. wreq[w] \in Reqs /\ req[wreq[w]] \in Requests
      BY <2>8 DEF TypeOK, WorkerHolds, shard_waiter_finish
    <3>1. req' \in [Reqs -> Requests]
      BY <3>0, <3>2, WaiterBool DEF TypeOK, Requests
    <3> QED
      BY <2>8, <3>1 DEF TypeOK, shard_waiter_finish, WorkerPcs, Phases
  <2>9. CASE shard_run_return(w)
    BY <2>9 DEF TypeOK, shard_run_return, WorkerPcs
  <2> QED
    BY <1>4, <2>1, <2>2, <2>3, <2>4, <2>5, <2>6, <2>7, <2>8, <2>9, <2>10 DEF WorkerStep
<1>5. CASE UNCHANGED vars
  BY <1>5 DEF TypeOK, vars
<1> QED
  BY <1>2, <1>3, <1>4, <1>5 DEF Next

-----------------------------------------------------------------------------
(* One lemma per action: it keeps the parts of IInv other than the types.  *)

(* What queueing, dequeuing and freeing do, point by point. *)
LEMMA EnqueueFacts ==
  ASSUME TypeOK, OwnerInv, NEW r \in Reqs, NEW type, NEW rec, Enqueue(r, type, rec)
  PROVE  /\ phase[r] = "free"
         /\ \A x \in Reqs : phase'[x] = IF x = r THEN "queued" ELSE phase[x]
         /\ \A x \in Reqs : x # r => req'[x] = req[x]
         /\ req'[r].type = type /\ req'[r].err = "SUCCESS" /\ ~req'[r].done
         /\ Len(requests) \in Nat
         /\ DOMAIN requests = 1 .. Len(requests)
         /\ DOMAIN requests' = 1 .. Len(requests) + 1
         /\ \A i \in 1 .. Len(requests) : requests[i] \in Reqs /\ requests'[i] = requests[i]
         /\ requests'[Len(requests) + 1] = r
         /\ \A t \in Threads : sub[t] # r /\ wtr[t] # r
  BY DEF TypeOK, OwnerInv, Enqueue, NewRequest

LEMMA TakeFacts ==
  ASSUME TypeOK, requests # << >>, requests' = Tail(requests)
  PROVE  /\ Head(requests) = requests[1] /\ requests[1] \in Reqs
         /\ Len(requests) \in Nat /\ Len(requests) >= 1
         /\ DOMAIN requests = 1 .. Len(requests)
         /\ DOMAIN requests' = 1 .. Len(requests) - 1
         /\ \A i \in 1 .. Len(requests) : requests[i] \in Reqs
         /\ \A i \in 1 .. Len(requests) - 1 : requests'[i] = requests[i + 1]
  BY DEF TypeOK

LEMMA FreeFacts ==
  ASSUME TypeOK, NEW r \in Reqs, Free(r)
  PROVE  /\ \A x \in Reqs : phase'[x] = IF x = r THEN "free" ELSE phase[x]
         /\ \A x \in Reqs : x # r => req'[x] = req[x]
         /\ ~req'[r].done
  BY DEF TypeOK, Free, NewRequest

LEMMA EnqueueHeap ==
  ASSUME TypeOK, OwnerInv, WorkerHolds, HeapInv, NEW r \in Reqs, NEW type, NEW rec,
         Enqueue(r, type, rec), UNCHANGED <<wpc, wreq>>
  PROVE  HeapInv'
<1> DEFINE n == Len(requests)
<1>0. Enqueue(r, type, rec)
  OBVIOUS
<1>1. \A i \in DOMAIN requests' : phase'[requests'[i]] = "queued"
  BY EnqueueFacts DEF HeapInv, NoUseAfterFree
<1>2. \A i, j \in DOMAIN requests' : requests'[i] = requests'[j] => i = j
  BY EnqueueFacts DEF HeapInv, NoUseAfterFree
<1>3. \A w \in Workers : wpc'[w] \in {"handle", "finish"} => phase'[wreq'[w]] = "taken"
  BY EnqueueFacts DEF HeapInv, NoUseAfterFree, WorkerHolds
<1>4. \A x \in Reqs : phase'[x] = "queued" => \E i \in DOMAIN requests' : requests'[i] = x
  BY EnqueueFacts DEF HeapInv
<1>5. \A x \in Reqs : phase'[x] = "taken" => \E w \in Workers : wreq'[w] = x
  BY EnqueueFacts DEF HeapInv
<1>6. \A x \in Reqs : req'[x].done => phase'[x] = "handled"
  BY EnqueueFacts DEF HeapInv
<1> QED
  BY <1>1, <1>2, <1>3, <1>4, <1>5, <1>6 DEF HeapInv, NoUseAfterFree

(* Taking the oldest request out of the queue keeps the rest of it. *)
LEMMA TakeQueue ==
  ASSUME TypeOK, HeapInv, requests # << >>, requests' = Tail(requests), NEW p \in {"taken", "handled"},
         \A x \in Reqs : phase'[x] = IF x = requests[1] THEN p ELSE phase[x]
  PROVE  /\ \A i \in DOMAIN requests' : phase'[requests'[i]] = "queued"
         /\ \A i, j \in DOMAIN requests' : requests'[i] = requests'[j] => i = j
         /\ \A x \in Reqs : phase'[x] = "queued" => \E i \in DOMAIN requests' : requests'[i] = x
<1>1. \A i \in DOMAIN requests' : i + 1 \in DOMAIN requests /\ requests'[i] = requests[i + 1] /\ i \in Nat
  BY TakeFacts
<1>2. 1 \in DOMAIN requests /\ \A i \in DOMAIN requests : requests[i] \in Reqs
  BY TakeFacts
<1>3. \A i \in DOMAIN requests : i # 1 => i - 1 \in DOMAIN requests' /\ requests'[i - 1] = requests[i]
  BY TakeFacts
<1>4. \A i \in DOMAIN requests' : requests'[i] # requests[1]
  BY <1>1, <1>2 DEF HeapInv, NoUseAfterFree
<1>5. \A i \in DOMAIN requests' : phase'[requests'[i]] = "queued"
  BY <1>1, <1>2, <1>4 DEF HeapInv, NoUseAfterFree
<1>6. \A i, j \in DOMAIN requests' : requests'[i] = requests'[j] => i = j
  BY <1>1 DEF HeapInv, NoUseAfterFree
<1>7. ASSUME NEW x \in Reqs, phase'[x] = "queued"
      PROVE  \E i \in DOMAIN requests' : requests'[i] = x
  <2>1. x # requests[1] /\ phase[x] = "queued"
    BY <1>7
  <2>2. PICK i \in DOMAIN requests : requests[i] = x
    BY <2>1 DEF HeapInv
  <2> QED
    BY <1>3, <2>1, <2>2
<1> QED
  BY <1>5, <1>6, <1>7

LEMMA FreeHeap ==
  ASSUME TypeOK, WorkerHolds, HeapInv, NEW r \in Reqs, phase[r] = "handled", Free(r),
         UNCHANGED <<requests, wpc, wreq>>
  PROVE  HeapInv'
<1>1. \A i \in DOMAIN requests : requests[i] \in Reqs
  BY DEF TypeOK
<1> QED
  BY <1>1, FreeFacts DEF HeapInv, NoUseAfterFree, WorkerHolds

LEMMA SubmitStep ==
  ASSUME IInv, NEW t \in Threads, NEW type \in {"insert", "query", "clear"}, NEW rec, Submit(t, type, rec)
  PROVE  Parts'
<1> USE DEF IInv, shardVars, heapVars, callerVars, workerVars
<1>0. PICK r \in Reqs : Enqueue(r, type, rec) /\ sub' = [sub EXCEPT ![t] = r]
  BY DEF Submit
<1>1. WorkerHolds'
  BY DEF TypeOK, WorkerHolds, Submit, Enqueue, NewRequest
<1>2. SingleWorker'
  BY DEF TypeOK, SingleWorker, Active, Submit, Enqueue, NewRequest
<1>3. HeapInv'
  BY <1>0, EnqueueHeap DEF Submit
<1>4. OwnerInv'
  BY DEF TypeOK, OwnerInv, Submit, Enqueue, NewRequest
<1>5. KindInv'
  BY <1>0, EnqueueFacts DEF TypeOK, KindInv, OwnerInv, Submit
<1>6. LifeInv'
  BY DEF TypeOK, LifeInv, Submit, Enqueue, NewRequest
<1>7. StopInv'
  BY <1>0, EnqueueFacts DEF TypeOK, StopInv, StopPending, StopSeen, OwnerInv, Submit
<1>8. OrderInv'
  BY DEF TypeOK, OrderInv, Submit, Enqueue, NewRequest
<1> QED
  BY <1>1, <1>2, <1>3, <1>4, <1>5, <1>6, <1>7, <1>8 DEF Parts

LEMMA ShardWaitStep ==
  ASSUME IInv, NEW t \in Threads, shard_wait(t)
  PROVE  Parts'
<1> USE DEF IInv, shardVars, heapVars, callerVars, workerVars
<1>0. PICK r \in Reqs : Enqueue(r, "wait", << >>) /\ wtr' = [wtr EXCEPT ![t] = r]
  BY DEF shard_wait
<1>1. WorkerHolds'
  BY DEF TypeOK, WorkerHolds, shard_wait, Enqueue, NewRequest
<1>2. SingleWorker'
  BY DEF TypeOK, SingleWorker, Active, shard_wait, Enqueue, NewRequest
<1>3. HeapInv'
  BY <1>0, EnqueueHeap DEF shard_wait
<1>4. OwnerInv'
  <2>0. /\ sub' = sub /\ wtr'[t] = r /\ wtr[t] \notin Reqs
        /\ \A u \in Threads : u # t => wtr'[u] = wtr[u]
    <3>1. pc[t] = "submitted" /\ sub' = sub
      BY DEF shard_wait
    <3>2. wtr[t] \notin Reqs
      BY <3>1 DEF OwnerInv
    <3> QED
      BY <1>0, <3>1, <3>2 DEF TypeOK
  <2>1. \A x \in Reqs : phase'[x] # "free" <=> \E u \in Threads : x \in {sub'[u], wtr'[u]}
    <3>1. phase'[r] # "free" /\ r \in {sub'[t], wtr'[t]}
      BY <1>0, <2>0, EnqueueFacts
    <3>2. ASSUME NEW x \in Reqs, x # r
          PROVE  phase'[x] # "free" <=> \E u \in Threads : x \in {sub'[u], wtr'[u]}
      <4>1. phase'[x] = phase[x]
        BY <1>0, <3>2, EnqueueFacts
      <4>2. phase[x] # "free" <=> \E u \in Threads : x \in {sub[u], wtr[u]}
        BY DEF OwnerInv
      <4>3. \A u \in Threads : x \in {sub[u], wtr[u]} <=> x \in {sub'[u], wtr'[u]}
        BY <2>0, <3>2
      <4> QED
        BY <4>1, <4>2, <4>3
    <3> QED
      BY <3>1, <3>2
  <2> QED
    BY <1>0, <2>1, EnqueueFacts DEF TypeOK, OwnerInv, shard_wait
<1>5. KindInv'
  BY <1>0, EnqueueFacts DEF TypeOK, KindInv, OwnerInv, shard_wait
<1>6. LifeInv'
  BY DEF TypeOK, LifeInv, shard_wait, Enqueue, NewRequest
<1>7. StopInv'
  BY <1>0, EnqueueFacts DEF TypeOK, StopInv, StopPending, StopSeen, OwnerInv, shard_wait
<1>8. OrderInv'
  <2>1. \A u \in Threads : u # t => pc'[u] = pc[u] /\ wtr'[u] = wtr[u]
    BY <1>0 DEF TypeOK, shard_wait
  <2>2. pc'[t] = "waiting" /\ wtr'[t] = r /\ sub' = sub /\ sub[t] \in Reqs
    BY <1>0 DEF TypeOK, OwnerInv, shard_wait
  <2>3. ASSUME NEW u \in Threads, u # t, pc[u] = "waiting"
        PROVE  /\ sub[u] \in Reqs /\ wtr[u] \in Reqs
               /\ phase'[sub[u]] = phase[sub[u]] /\ phase'[wtr[u]] = phase[wtr[u]]
               /\ \A i, j \in DOMAIN requests' :
                     requests'[i] = sub[u] /\ requests'[j] = wtr[u]
                        => i \in DOMAIN requests /\ j \in DOMAIN requests
    BY <1>0, <2>3, EnqueueFacts DEF TypeOK, OwnerInv
  <2>4. phase[sub[t]] \in {"queued", "taken", "handled"}
    BY <2>2, <1>0 DEF TypeOK, OwnerInv, Phases
  <2>5. phase'[sub[t]] = phase[sub[t]] /\ phase'[r] = "queued"
    BY <1>0, <2>2, EnqueueFacts
  <2>6. \A i, j \in DOMAIN requests' : requests'[i] = sub[t] /\ requests'[j] = r => i < j
    BY <1>0, <2>2, EnqueueFacts DEF HeapInv, NoUseAfterFree
  <2>7. \A i \in DOMAIN requests : requests'[i] = requests[i]
    BY <1>0, EnqueueFacts
  <2>8. ASSUME NEW u \in Threads, u # t, pc[u] = "waiting",
               \A i, j \in DOMAIN requests : requests[i] = sub[u] /\ requests[j] = wtr[u] => i < j
        PROVE  \A i, j \in DOMAIN requests' : requests'[i] = sub[u] /\ requests'[j] = wtr[u] => i < j
    BY <2>3, <2>7, <2>8
  <2>9. \A u \in Threads : u # t /\ pc[u] = "collect" => phase'[sub[u]] = phase[sub[u]]
    BY <1>0, EnqueueFacts DEF OwnerInv
  <2> QED
    BY <2>1, <2>2, <2>3, <2>4, <2>5, <2>6, <2>8, <2>9 DEF OrderInv
<1> QED
  BY <1>1, <1>2, <1>3, <1>4, <1>5, <1>6, <1>7, <1>8 DEF Parts

LEMMA ShardWaitReturnStep ==
  ASSUME IInv, NEW t \in Threads, shard_wait_return(t)
  PROVE  Parts'
<1> USE DEF IInv, shardVars, heapVars, callerVars, workerVars
<1>0. wtr[t] \in Reqs /\ phase[wtr[t]] = "handled" /\ Free(wtr[t])
  BY DEF TypeOK, OwnerInv, HeapInv, OrderInv, shard_wait_return
<1>1. WorkerHolds'
  BY DEF TypeOK, WorkerHolds, shard_wait_return, Free, NewRequest
<1>2. SingleWorker'
  BY DEF TypeOK, SingleWorker, Active, shard_wait_return, Free, NewRequest
<1>3. HeapInv'
  BY <1>0, FreeHeap DEF shard_wait_return
<1>4. OwnerInv'
  BY <1>0, FreeFacts, ShardAssumption DEF TypeOK, OwnerInv, shard_wait_return
<1>5. KindInv'
  BY <1>0, FreeFacts DEF TypeOK, KindInv, OwnerInv, shard_wait_return
<1>6. LifeInv'
  BY DEF TypeOK, LifeInv, shard_wait_return, Free, NewRequest
<1>7. StopInv'
  BY <1>0, FreeFacts DEF TypeOK, StopInv, StopPending, StopSeen, OwnerInv, shard_wait_return
<1>8. OrderInv'
  BY <1>0, FreeFacts DEF TypeOK, OrderInv, OwnerInv, shard_wait_return
<1> QED
  BY <1>1, <1>2, <1>3, <1>4, <1>5, <1>6, <1>7, <1>8 DEF Parts

LEMMA ShardRequestDestroyStep ==
  ASSUME IInv, NEW t \in Threads, shard_request_destroy(t)
  PROVE  Parts'
<1> USE DEF IInv, shardVars, heapVars, callerVars, workerVars
<1>0. sub[t] \in Reqs /\ phase[sub[t]] = "handled" /\ Free(sub[t])
  BY DEF TypeOK, OwnerInv, HeapInv, OrderInv, shard_request_destroy
<1>1. WorkerHolds'
  BY DEF TypeOK, WorkerHolds, shard_request_destroy, Free, NewRequest
<1>2. SingleWorker'
  BY DEF TypeOK, SingleWorker, Active, shard_request_destroy, Free, NewRequest
<1>3. HeapInv'
  BY <1>0, FreeHeap DEF shard_request_destroy
<1>4. OwnerInv'
  BY <1>0, FreeFacts, ShardAssumption DEF TypeOK, OwnerInv, shard_request_destroy
<1>5. KindInv'
  BY <1>0, FreeFacts DEF TypeOK, KindInv, OwnerInv, shard_request_destroy
<1>6. LifeInv'
  BY DEF TypeOK, LifeInv, shard_request_destroy, Free, NewRequest
<1>7. StopInv'
  BY <1>0, FreeFacts DEF TypeOK, StopInv, StopPending, StopSeen, OwnerInv, shard_request_destroy
<1>8. OrderInv'
  BY <1>0, FreeFacts DEF TypeOK, OrderInv, OwnerInv, shard_request_destroy
<1> QED
  BY <1>1, <1>2, <1>3, <1>4, <1>5, <1>6, <1>7, <1>8 DEF Parts

LEMMA ShardStopEnqueueStep ==
  ASSUME IInv, NEW t \in Threads, shard_stop_enqueue(t)
  PROVE  Parts'
<1> USE DEF IInv, shardVars, heapVars, callerVars, workerVars
<1>0. PICK r \in Reqs : Enqueue(r, "stop", << >>) /\ wtr' = [wtr EXCEPT ![t] = r]
  BY DEF shard_stop_enqueue
<1>1. WorkerHolds'
  BY DEF TypeOK, WorkerHolds, shard_stop_enqueue, Enqueue, NewRequest
<1>2. SingleWorker'
  BY DEF TypeOK, SingleWorker, Active, shard_stop_enqueue, Enqueue, NewRequest
<1>3. HeapInv'
  BY <1>0, EnqueueHeap DEF shard_stop_enqueue
<1>4. OwnerInv'
  <2>1. /\ \A u \in Threads : wtr'[u] = (IF u = t THEN r ELSE wtr[u])
        /\ \A u \in Threads : pc'[u] = (IF u = t THEN "stopping" ELSE pc[u])
        /\ pc[t] = "stop" /\ sub' = sub
    BY <1>0 DEF TypeOK, shard_stop_enqueue
  <2>2. /\ \A x \in Reqs : phase'[x] = (IF x = r THEN "queued" ELSE phase[x])
        /\ phase[r] = "free" /\ \A u \in Threads : sub[u] # r /\ wtr[u] # r
    BY <1>0, EnqueueFacts
  <2>3. wtr[t] \notin Reqs
    BY <2>1 DEF OwnerInv
  <2> QED
    BY <2>1, <2>2, <2>3 DEF OwnerInv
<1>5. KindInv'
  BY <1>0, EnqueueFacts DEF TypeOK, KindInv, OwnerInv, shard_stop_enqueue
<1>6. LifeInv'
  BY DEF TypeOK, LifeInv, shard_stop_enqueue, Enqueue, NewRequest
<1>7. StopInv'
  <2>1. \A u \in Threads : StopPending(u)' => StopPending(u)
    BY <1>0, EnqueueFacts DEF TypeOK, StopPending, OwnerInv, shard_stop_enqueue
  <2>2. StopPending(t)
    BY DEF StopPending, shard_stop_enqueue
  <2>3. \A w \in Workers : ~StopSeen(w)
    BY <2>2, <1>0, EnqueueFacts DEF StopInv, HeapInv, NoUseAfterFree, OwnerInv, StopPending, WorkerHolds, shard_stop_enqueue
  <2> QED
    BY <2>1, <2>2, <2>3 DEF StopInv, StopSeen, shard_stop_enqueue
<1>8. OrderInv'
  BY DEF TypeOK, OrderInv, shard_stop_enqueue, Enqueue, NewRequest
<1> QED
  BY <1>1, <1>2, <1>3, <1>4, <1>5, <1>6, <1>7, <1>8 DEF Parts

LEMMA ShardStopReturnStep ==
  ASSUME IInv, NEW t \in Threads, shard_stop_return(t)
  PROVE  Parts'
<1> USE DEF IInv, shardVars, heapVars, callerVars, workerVars
<1>0. wtr[t] \in Reqs /\ phase[wtr[t]] = "handled" /\ Free(wtr[t])
  BY DEF TypeOK, OwnerInv, HeapInv, OrderInv, shard_stop_return
<1>1. WorkerHolds'
  BY DEF TypeOK, WorkerHolds, shard_stop_return, Free, NewRequest
<1>2. SingleWorker'
  BY DEF TypeOK, SingleWorker, Active, shard_stop_return, Free, NewRequest
<1>3. HeapInv'
  BY <1>0, FreeHeap DEF shard_stop_return
<1>4. OwnerInv'
  <2>1. /\ \A u \in Threads : wtr'[u] = (IF u = t THEN NoReq ELSE wtr[u])
        /\ \A u \in Threads : pc'[u] = (IF u = t THEN "idle" ELSE pc[u])
        /\ pc[t] = "stopping" /\ sub' = sub
    BY DEF TypeOK, shard_stop_return
  <2>2. \A x \in Reqs : phase'[x] = (IF x = wtr[t] THEN "free" ELSE phase[x])
    BY <1>0, FreeFacts
  <2>3. \A u \in Threads : sub[u] # wtr[t] /\ (u # t => wtr[u] # wtr[t])
    BY <1>0 DEF OwnerInv
  <2>4. sub[t] \notin Reqs
    BY <2>1 DEF OwnerInv
  <2> QED
    BY <1>0, <2>1, <2>2, <2>3, <2>4, ShardAssumption DEF OwnerInv
<1>5. KindInv'
  BY <1>0, FreeFacts DEF TypeOK, KindInv, OwnerInv, shard_stop_return
<1>6. LifeInv'
  BY DEF TypeOK, LifeInv, shard_stop_return, Free, NewRequest
<1>7. StopInv'
  BY <1>0, FreeFacts DEF TypeOK, StopInv, StopPending, StopSeen, OwnerInv, shard_stop_return
<1>8. OrderInv'
  BY <1>0, FreeFacts DEF TypeOK, OrderInv, OwnerInv, shard_stop_return
<1> QED
  BY <1>1, <1>2, <1>3, <1>4, <1>5, <1>6, <1>7, <1>8 DEF Parts

LEMMA ShardDestroyDrainStep ==
  ASSUME IInv, NEW t \in Threads, shard_destroy_drain(t)
  PROVE  Parts'
<1> USE DEF IInv, shardVars, heapVars, callerVars, workerVars
<1>0. /\ requests # << >> /\ requests' = Tail(requests) /\ requests[1] \in Reqs
      /\ \A x \in Reqs : phase'[x] = IF x = requests[1] THEN "handled" ELSE phase[x]
      /\ \A x \in Reqs : x # requests[1] => req'[x] = req[x]
      /\ req'[requests[1]].type = req[requests[1]].type
      /\ phase[requests[1]] = "queued"
      /\ UNCHANGED <<running, keep_alive, table, life, pc, sub, wtr, wpc, wreq, widx>>
  <2>1. requests # << >> /\ requests' = Tail(requests)
    BY DEF shard_destroy_drain
  <2>2. Head(requests) = requests[1] /\ requests[1] \in Reqs /\ 1 \in DOMAIN requests
    BY <2>1, TakeFacts DEF TypeOK
  <2> QED
    BY <2>1, <2>2, WaiterBool DEF TypeOK, Requests, HeapInv, NoUseAfterFree, shard_destroy_drain
<1>a. \A t2 \in Threads : ~StopPending(t2)
  BY DEF shard_destroy_drain, LifeInv, StopInv, SingleWorker, Active
<1>1. WorkerHolds'
  BY DEF TypeOK, WorkerHolds, shard_destroy_drain, HasWaiter
<1>2. SingleWorker'
  BY DEF TypeOK, SingleWorker, Active, shard_destroy_drain, HasWaiter
<1>3. HeapInv'
  <2>1. requests[1] \in Reqs /\ phase'[requests[1]] = "handled"
    BY <1>0
  <2>2. \A x \in Reqs : req'[x].done => phase'[x] = "handled"
    BY <1>0, <2>1 DEF HeapInv
  <2>3. \A v \in Workers : wpc'[v] \in {"handle", "finish"} => phase'[wreq'[v]] = "taken"
    BY <1>0 DEF HeapInv, NoUseAfterFree, WorkerHolds
  <2>4. \A x \in Reqs : phase'[x] = "taken" => \E v \in Workers : wreq'[v] = x
    BY <1>0 DEF HeapInv
  <2> QED
    BY <1>0, <2>2, <2>3, <2>4, TakeQueue DEF HeapInv, NoUseAfterFree
<1>4. OwnerInv'
  <2>1. \A x \in Reqs : phase'[x] = "free" <=> phase[x] = "free"
    BY <1>0
  <2> QED
    BY <1>0, <2>1 DEF OwnerInv
<1>5. KindInv'
  <2>1. \A u \in Threads : pc[u] = "stopping" => wtr[u] # requests[1]
    BY <1>0, <1>a DEF StopPending
  <2>2. \A x \in Reqs : req'[x].type = req[x].type
    BY <1>0
  <2> QED
    BY <1>0, <2>1, <2>2 DEF KindInv, OwnerInv
<1>6. LifeInv'
  BY DEF TypeOK, LifeInv, shard_destroy_drain, HasWaiter
<1>7. StopInv'
  BY <1>0, <1>a DEF TypeOK, StopInv, OwnerInv, StopPending, StopSeen
<1>8. OrderInv'
  <2>1. ASSUME NEW u \in Threads, pc[u] = "waiting", phase[sub[u]] = "queued", phase[wtr[u]] = "queued",
               \A i, j \in DOMAIN requests : requests[i] = sub[u] /\ requests[j] = wtr[u] => i < j
        PROVE  \A i, j \in DOMAIN requests' : requests'[i] = sub[u] /\ requests'[j] = wtr[u] => i < j
    BY <1>0, <2>1, TakeFacts
  <2>2. ASSUME NEW u \in Threads, pc[u] = "waiting", phase[sub[u]] # "handled"
        PROVE  wtr[u] # requests[1] /\ wtr[u] \in Reqs /\ sub[u] \in Reqs
    <3>1. wtr[u] \in Reqs /\ sub[u] \in Reqs
      BY <2>2 DEF OwnerInv
    <3>2. CASE phase[sub[u]] = "taken"
      BY <1>0, <3>1, <3>2 DEF HeapInv, WorkerHolds, LifeInv, shard_destroy_drain
    <3>3. CASE phase[sub[u]] = "queued"
      <4>1. PICK i \in DOMAIN requests : requests[i] = sub[u]
        BY <3>1, <3>3 DEF HeapInv
      <4>2. 1 \in DOMAIN requests /\ ~(i < 1)
        BY <1>0, <4>1, TakeFacts
      <4> QED
        BY <2>2, <3>1, <3>3, <4>1, <4>2 DEF OrderInv
    <3> QED
      BY <2>2, <3>1, <3>2, <3>3 DEF OrderInv
  <2> QED
    BY <1>0, <2>1, <2>2 DEF OrderInv, OwnerInv
<1> QED
  BY <1>1, <1>2, <1>3, <1>4, <1>5, <1>6, <1>7, <1>8 DEF Parts

LEMMA ShardDestroyFreeStep ==
  ASSUME IInv, NEW t \in Threads, shard_destroy_free(t)
  PROVE  Parts'
<1> USE DEF IInv, shardVars, heapVars, callerVars, workerVars
<1>1. WorkerHolds'
  BY DEF TypeOK, WorkerHolds, shard_destroy_free
<1>2. SingleWorker'
  BY DEF TypeOK, SingleWorker, Active, shard_destroy_free
<1>3. HeapInv'
  BY DEF TypeOK, HeapInv, NoUseAfterFree, shard_destroy_free
<1>4. OwnerInv'
  BY DEF TypeOK, OwnerInv, shard_destroy_free
<1>5. KindInv'
  BY DEF TypeOK, KindInv, shard_destroy_free
<1>6. LifeInv'
  BY DEF TypeOK, LifeInv, shard_destroy_free
<1>7. StopInv'
  BY DEF TypeOK, StopInv, StopPending, StopSeen, shard_destroy_free
<1>8. OrderInv'
  BY DEF TypeOK, OrderInv, shard_destroy_free
<1> QED
  BY <1>1, <1>2, <1>3, <1>4, <1>5, <1>6, <1>7, <1>8 DEF Parts

LEMMA ShardStopStep ==
  ASSUME IInv, NEW t \in Threads, shard_stop(t)
  PROVE  Parts'
<1> USE DEF IInv, shardVars, heapVars, callerVars, workerVars
<1>1. WorkerHolds'
  BY DEF TypeOK, WorkerHolds, shard_stop, stop_claims
<1>2. SingleWorker'
  BY DEF TypeOK, SingleWorker, Active, shard_stop, stop_claims
<1>3. HeapInv'
  BY DEF TypeOK, HeapInv, NoUseAfterFree, shard_stop, stop_claims
<1>4. OwnerInv'
  BY DEF TypeOK, OwnerInv, shard_stop, stop_claims
<1>5. KindInv'
  BY DEF TypeOK, KindInv, shard_stop, stop_claims
<1>6. LifeInv'
  BY DEF TypeOK, LifeInv, shard_stop, stop_claims
<1>7. StopInv'
  BY DEF TypeOK, StopInv, StopPending, StopSeen, shard_stop, stop_claims
<1>8. OrderInv'
  BY DEF TypeOK, OrderInv, shard_stop, stop_claims
<1> QED
  BY <1>1, <1>2, <1>3, <1>4, <1>5, <1>6, <1>7, <1>8 DEF Parts

LEMMA ShardDestroyStep ==
  ASSUME IInv, NEW t \in Threads, shard_destroy(t)
  PROVE  Parts'
<1> USE DEF IInv, shardVars, heapVars, callerVars, workerVars
<1>1. WorkerHolds'
  BY DEF TypeOK, WorkerHolds, shard_destroy
<1>2. SingleWorker'
  BY DEF TypeOK, SingleWorker, Active, shard_destroy
<1>3. HeapInv'
  BY DEF TypeOK, HeapInv, NoUseAfterFree, shard_destroy
<1>4. OwnerInv'
  BY DEF TypeOK, OwnerInv, shard_destroy
<1>5. KindInv'
  BY DEF TypeOK, KindInv, shard_destroy
<1>6. LifeInv'
  BY DEF TypeOK, LifeInv, shard_destroy, Joined
<1>7. StopInv'
  BY DEF TypeOK, StopInv, StopPending, StopSeen, shard_destroy
<1>8. OrderInv'
  BY DEF TypeOK, OrderInv, shard_destroy
<1> QED
  BY <1>1, <1>2, <1>3, <1>4, <1>5, <1>6, <1>7, <1>8 DEF Parts

LEMMA ShardCreateStep ==
  ASSUME IInv, NEW t \in Threads, shard_create(t)
  PROVE  Parts'
<1> USE DEF IInv, shardVars, heapVars, callerVars, workerVars
<1>a. \A u \in Threads : ~StopPending(u)
  BY DEF shard_create, LifeInv, StopInv, SingleWorker, Active
<1>1. WorkerHolds'
  BY DEF TypeOK, WorkerHolds, shard_create
<1>2. SingleWorker'
  BY DEF SingleWorker, Active, LifeInv, shard_create
<1>3. HeapInv'
  BY DEF TypeOK, HeapInv, NoUseAfterFree, shard_create
<1>4. OwnerInv'
  BY DEF TypeOK, OwnerInv, shard_create
<1>5. KindInv'
  BY DEF TypeOK, KindInv, shard_create
<1>6. LifeInv'
  BY DEF TypeOK, LifeInv, shard_create
<1>7. StopInv'
  BY <1>a DEF StopInv, StopPending, StopSeen, LifeInv, shard_create
<1>8. OrderInv'
  BY DEF TypeOK, OrderInv, shard_create
<1> QED
  BY <1>1, <1>2, <1>3, <1>4, <1>5, <1>6, <1>7, <1>8 DEF Parts

LEMMA ShardRunStep ==
  ASSUME IInv, NEW w \in Workers, shard_run(w)
  PROVE  Parts'
<1> USE DEF IInv, shardVars, heapVars, callerVars, workerVars
<1>1. WorkerHolds'
  BY DEF TypeOK, WorkerHolds, shard_run, run_claims
<1>2. SingleWorker'
  BY DEF TypeOK, SingleWorker, Active, shard_run, run_claims
<1>3. HeapInv'
  BY DEF TypeOK, HeapInv, NoUseAfterFree, shard_run, run_claims
<1>4. OwnerInv'
  BY DEF TypeOK, OwnerInv, shard_run, run_claims
<1>5. KindInv'
  BY DEF TypeOK, KindInv, shard_run, run_claims
<1>6. LifeInv'
  BY DEF TypeOK, LifeInv, shard_run, run_claims
<1>7. StopInv'
  BY DEF TypeOK, StopInv, StopPending, StopSeen, shard_run, run_claims
<1>8. OrderInv'
  BY DEF TypeOK, OrderInv, shard_run, run_claims
<1> QED
  BY <1>1, <1>2, <1>3, <1>4, <1>5, <1>6, <1>7, <1>8 DEF Parts

LEMMA ShardRunStartStep ==
  ASSUME IInv, NEW w \in Workers, shard_run_start(w)
  PROVE  Parts'
<1> USE DEF IInv, shardVars, heapVars, callerVars, workerVars
<1>a. \A v \in Workers : v # w => wpc[v] = "out"
  BY DEF SingleWorker, Active, shard_run_start
<1>1. WorkerHolds'
  BY DEF TypeOK, WorkerHolds, shard_run_start
<1>2. SingleWorker'
  BY DEF TypeOK, SingleWorker, Active, shard_run_start
<1>3. HeapInv'
  BY DEF TypeOK, HeapInv, NoUseAfterFree, shard_run_start
<1>4. OwnerInv'
  BY DEF TypeOK, OwnerInv, shard_run_start
<1>5. KindInv'
  BY DEF TypeOK, KindInv, shard_run_start
<1>6. LifeInv'
  BY DEF TypeOK, LifeInv, shard_run_start
<1>7. StopInv'
  BY <1>a DEF TypeOK, StopInv, StopPending, StopSeen, shard_run_start, WorkerPcs
<1>8. OrderInv'
  BY DEF TypeOK, OrderInv, shard_run_start
<1> QED
  BY <1>1, <1>2, <1>3, <1>4, <1>5, <1>6, <1>7, <1>8 DEF Parts

LEMMA ShardNextRequestStep ==
  ASSUME IInv, NEW w \in Workers, shard_next_request(w)
  PROVE  Parts'
<1> USE DEF IInv, shardVars, heapVars, callerVars, workerVars
<1>0. /\ requests # << >> /\ requests' = Tail(requests) /\ requests[1] \in Reqs
      /\ wpc[w] = "loop" /\ keep_alive /\ wpc'[w] = "handle" /\ wreq'[w] = requests[1]
      /\ \A v \in Workers : v # w => wpc[v] = "out" /\ wpc'[v] = "out" /\ wreq'[v] = wreq[v]
      /\ \A x \in Reqs : phase'[x] = IF x = requests[1] THEN "taken" ELSE phase[x]
      /\ phase[requests[1]] = "queued"
      /\ UNCHANGED <<running, keep_alive, table, life, req, pc, sub, wtr, widx>>
  <2>1. requests # << >> /\ requests' = Tail(requests)
    BY DEF shard_next_request
  <2>2. Head(requests) = requests[1] /\ requests[1] \in Reqs /\ 1 \in DOMAIN requests
    BY <2>1, TakeFacts DEF TypeOK
  <2> QED
    BY <2>1, <2>2 DEF TypeOK, HeapInv, NoUseAfterFree, SingleWorker, Active, shard_next_request
<1>1. WorkerHolds'
  BY DEF TypeOK, WorkerHolds, shard_next_request
<1>2. SingleWorker'
  BY DEF TypeOK, SingleWorker, Active, shard_next_request
<1>3. HeapInv'
  <2>1. \A v \in Workers : wpc'[v] \in {"handle", "finish"} => phase'[wreq'[v]] = "taken"
    BY <1>0
  <2>2. \A x \in Reqs : phase'[x] = "taken" => \E v \in Workers : wreq'[v] = x
    <3>1. wreq[w] \notin Reqs
      BY <1>0 DEF WorkerHolds
    <3> QED
      BY <1>0, <3>1 DEF HeapInv
  <2>3. \A x \in Reqs : req'[x].done => phase'[x] = "handled"
    BY <1>0 DEF HeapInv
  <2> QED
    BY <1>0, <2>1, <2>2, <2>3, TakeQueue DEF HeapInv, NoUseAfterFree
<1>4. OwnerInv'
  BY <1>0 DEF TypeOK, OwnerInv
<1>5. KindInv'
  BY DEF TypeOK, KindInv, shard_next_request
<1>6. LifeInv'
  BY DEF TypeOK, LifeInv, shard_next_request
<1>7. StopInv'
  <2>1. \A t \in Threads : StopPending(t)' <=> StopPending(t)
    BY <1>0 DEF OwnerInv, StopPending
  <2>2. \A v \in Workers : ~StopSeen(v)'
    BY <1>0 DEF StopSeen
  <2> QED
    BY <1>0, <2>1, <2>2 DEF StopInv
<1>8. OrderInv'
  <2>1. ASSUME NEW u \in Threads, pc[u] = "waiting", phase[sub[u]] = "queued", phase[wtr[u]] = "queued",
               \A i, j \in DOMAIN requests : requests[i] = sub[u] /\ requests[j] = wtr[u] => i < j
        PROVE  \A i, j \in DOMAIN requests' : requests'[i] = sub[u] /\ requests'[j] = wtr[u] => i < j
    BY <1>0, <2>1, TakeFacts
  <2>2. ASSUME NEW u \in Threads, pc[u] = "waiting", phase[sub[u]] # "handled"
        PROVE  wtr[u] # requests[1] /\ wtr[u] \in Reqs /\ sub[u] \in Reqs
    <3>1. wtr[u] \in Reqs /\ sub[u] \in Reqs
      BY <2>2 DEF OwnerInv
    <3>2. CASE phase[sub[u]] = "taken"
      BY <1>0, <3>1, <3>2 DEF HeapInv, WorkerHolds
    <3>3. CASE phase[sub[u]] = "queued"
      <4>1. PICK i \in DOMAIN requests : requests[i] = sub[u]
        BY <3>1, <3>3 DEF HeapInv
      <4>2. 1 \in DOMAIN requests /\ ~(i < 1)
        BY <1>0, <4>1, TakeFacts
      <4> QED
        BY <2>2, <3>1, <3>3, <4>1, <4>2 DEF OrderInv
    <3> QED
      BY <2>2, <3>1, <3>2, <3>3 DEF OrderInv
  <2> QED
    BY <1>0, <2>1, <2>2 DEF OrderInv, OwnerInv
<1> QED
  BY <1>1, <1>2, <1>3, <1>4, <1>5, <1>6, <1>7, <1>8 DEF Parts

LEMMA ShardLoopExitStep ==
  ASSUME IInv, NEW w \in Workers, shard_loop_exit(w)
  PROVE  Parts'
<1> USE DEF IInv, shardVars, heapVars, callerVars, workerVars
<1>1. WorkerHolds'
  BY DEF TypeOK, WorkerHolds, shard_loop_exit
<1>2. SingleWorker'
  BY DEF TypeOK, SingleWorker, Active, shard_loop_exit
<1>3. HeapInv'
  BY DEF TypeOK, HeapInv, NoUseAfterFree, shard_loop_exit
<1>4. OwnerInv'
  BY DEF TypeOK, OwnerInv, shard_loop_exit
<1>5. KindInv'
  BY DEF TypeOK, KindInv, shard_loop_exit
<1>6. LifeInv'
  BY DEF TypeOK, LifeInv, shard_loop_exit
<1>7. StopInv'
  BY DEF TypeOK, StopInv, StopPending, StopSeen, shard_loop_exit
<1>8. OrderInv'
  BY DEF TypeOK, OrderInv, shard_loop_exit
<1> QED
  BY <1>1, <1>2, <1>3, <1>4, <1>5, <1>6, <1>7, <1>8 DEF Parts

LEMMA HandleInsertStep ==
  ASSUME IInv, NEW w \in Workers, handle_insert(w)
  PROVE  Parts'
<1> USE DEF IInv, shardVars, heapVars, callerVars, workerVars
<1>0. /\ wpc[w] = "handle" /\ wpc'[w] \in {"handle", "finish"}
      /\ \A v \in Workers : v # w => wpc'[v] = wpc[v]
      /\ wreq[w] \in Reqs /\ req[wreq[w]].type = "insert"
      /\ \A x \in Reqs : x # wreq[w] => req'[x] = req[x]
      /\ req'[wreq[w]].type = "insert" /\ req'[wreq[w]].done = req[wreq[w]].done
      /\ UNCHANGED <<running, keep_alive, requests, life, phase, pc, sub, wtr, wreq>>
  <2>1. wreq[w] \in Reqs /\ req[wreq[w]] \in Requests
    BY DEF TypeOK, WorkerHolds, handle_insert
  <2>2. CASE Full(table)
    BY <2>1, <2>2 DEF TypeOK, Requests, handle_insert
  <2>3. CASE ~Full(table)
    BY <2>1, <2>3 DEF TypeOK, handle_insert
  <2> QED
    BY <2>2, <2>3
<1>1. WorkerHolds'
  BY DEF TypeOK, WorkerHolds, handle_insert
<1>2. SingleWorker'
  BY <1>0 DEF SingleWorker, Active
<1>3. HeapInv'
  BY <1>0 DEF HeapInv, NoUseAfterFree
<1>4. OwnerInv'
  BY DEF TypeOK, OwnerInv, handle_insert
<1>5. KindInv'
  <2>1. \A t \in Threads : pc[t] = "stopping" => wtr[t] # wreq[w]
    BY <1>0 DEF KindInv
  <2>2. \A x \in Reqs : req'[x].type = req[x].type
    BY <1>0
  <2> QED
    BY <1>0, <2>1, <2>2 DEF KindInv, OwnerInv
<1>6. LifeInv'
  BY DEF TypeOK, LifeInv, handle_insert
<1>7. StopInv'
  BY DEF TypeOK, StopInv, StopPending, StopSeen, handle_insert
<1>8. OrderInv'
  BY DEF TypeOK, OrderInv, handle_insert
<1> QED
  BY <1>1, <1>2, <1>3, <1>4, <1>5, <1>6, <1>7, <1>8 DEF Parts

LEMMA HandleQueryStep ==
  ASSUME IInv, NEW w \in Workers, handle_query(w)
  PROVE  Parts'
<1> USE DEF IInv, shardVars, heapVars, callerVars, workerVars
<1>1. WorkerHolds'
  BY DEF TypeOK, WorkerHolds, handle_query
<1>2. SingleWorker'
  BY DEF TypeOK, SingleWorker, Active, handle_query
<1>3. HeapInv'
  BY DEF TypeOK, HeapInv, NoUseAfterFree, handle_query
<1>4. OwnerInv'
  BY DEF TypeOK, OwnerInv, handle_query
<1>5. KindInv'
  BY DEF TypeOK, KindInv, handle_query
<1>6. LifeInv'
  BY DEF TypeOK, LifeInv, handle_query
<1>7. StopInv'
  BY DEF TypeOK, StopInv, StopPending, StopSeen, handle_query
<1>8. OrderInv'
  BY DEF TypeOK, OrderInv, handle_query
<1> QED
  BY <1>1, <1>2, <1>3, <1>4, <1>5, <1>6, <1>7, <1>8 DEF Parts

LEMMA HandleQueryFailStep ==
  ASSUME IInv, NEW w \in Workers, handle_query_fail(w)
  PROVE  Parts'
<1> USE DEF IInv, shardVars, heapVars, callerVars, workerVars
<1>0. /\ wpc[w] = "handle" /\ wpc'[w] = "finish"
      /\ \A v \in Workers : v # w => wpc'[v] = wpc[v]
      /\ wreq[w] \in Reqs
      /\ \A x \in Reqs : x # wreq[w] => req'[x] = req[x]
      /\ req'[wreq[w]].type = req[wreq[w]].type /\ req'[wreq[w]].done = req[wreq[w]].done
      /\ UNCHANGED <<running, keep_alive, requests, life, phase, pc, sub, wtr, wreq>>
  <2>1. wreq[w] \in Reqs /\ req[wreq[w]] \in Requests
    BY DEF TypeOK, WorkerHolds, handle_query_fail
  <2>2. PICK v, z : req' = [req EXCEPT ![wreq[w]] = [req[wreq[w]] EXCEPT !.err = "ACCESS_FAILED", !.rec = z]]
    BY DEF handle_query_fail
  <2>3. /\ req'[wreq[w]] = [req[wreq[w]] EXCEPT !.err = "ACCESS_FAILED", !.rec = z]
        /\ \A x \in Reqs : x # wreq[w] => req'[x] = req[x]
    BY <2>1, <2>2 DEF TypeOK
  <2>4. req'[wreq[w]].type = req[wreq[w]].type /\ req'[wreq[w]].done = req[wreq[w]].done
    BY <2>1, <2>3 DEF Requests
  <2> QED
    BY <2>1, <2>3, <2>4 DEF TypeOK, handle_query_fail
<1>1. WorkerHolds'
  BY DEF TypeOK, WorkerHolds, handle_query_fail
<1>2. SingleWorker'
  BY <1>0 DEF SingleWorker, Active
<1>3. HeapInv'
  BY <1>0 DEF HeapInv, NoUseAfterFree
<1>4. OwnerInv'
  BY <1>0 DEF OwnerInv
<1>5. KindInv'
  <2>1. \A x \in Reqs : req'[x].type = req[x].type
    BY <1>0
  <2> QED
    BY <1>0, <2>1 DEF KindInv, OwnerInv
<1>6. LifeInv'
  BY <1>0 DEF LifeInv
<1>7. StopInv'
  BY <1>0 DEF StopInv, StopPending, StopSeen
<1>8. OrderInv'
  BY <1>0 DEF OrderInv
<1> QED
  BY <1>1, <1>2, <1>3, <1>4, <1>5, <1>6, <1>7, <1>8 DEF Parts

LEMMA HandleOtherStep ==
  ASSUME IInv, NEW w \in Workers, handle_other(w)
  PROVE  Parts'
<1> USE DEF IInv, shardVars, heapVars, callerVars, workerVars
<1>0. /\ wpc[w] = "handle" /\ wpc'[w] = "finish" /\ wreq[w] \in Reqs /\ keep_alive
      /\ \A v \in Workers : v # w => wpc[v] = "out" /\ wpc'[v] = "out"
      /\ keep_alive' <=> req[wreq[w]].type # "stop"
      /\ UNCHANGED <<running, phase, pc, wtr, wreq>>
  <2>1. wpc[w] = "handle" /\ wpc' = [wpc EXCEPT ![w] = "finish"]
    BY DEF handle_other
  <2>2. wreq[w] \in Reqs /\ keep_alive
    BY <2>1 DEF WorkerHolds, StopInv
  <2>3. \A v \in Workers : v # w => wpc[v] = "out"
    BY <2>1 DEF SingleWorker, Active
  <2>4. wpc'[w] = "finish" /\ \A v \in Workers : v # w => wpc'[v] = wpc[v]
    BY <2>1 DEF TypeOK
  <2>5. keep_alive' = (keep_alive /\ req[wreq[w]].type # "stop")
    BY DEF handle_other
  <2>6. UNCHANGED <<running, phase, pc, wtr, wreq>>
    BY DEF handle_other
  <2> QED
    BY <2>1, <2>2, <2>3, <2>4, <2>5, <2>6
<1>a. ASSUME ~keep_alive'
      PROVE  \E t \in Threads : pc[t] = "stopping" /\ wtr[t] = wreq[w] /\ StopPending(t)
  <2>1. req[wreq[w]].type = "stop" /\ phase[wreq[w]] = "taken"
    BY <1>0, <1>a DEF HeapInv, NoUseAfterFree
  <2>2. PICK t \in Threads : wreq[w] \in {sub[t], wtr[t]}
    BY <1>0, <2>1 DEF OwnerInv
  <2>3. wreq[w] = wtr[t] /\ pc[t] \in {"waiting", "stopping"}
    BY <1>0, <2>1, <2>2 DEF OwnerInv, KindInv
  <2> QED
    BY <2>1, <2>3 DEF KindInv, StopPending
<1>1. WorkerHolds'
  BY DEF TypeOK, WorkerHolds, handle_other
<1>2. SingleWorker'
  BY DEF TypeOK, SingleWorker, Active, handle_other
<1>3. HeapInv'
  BY DEF TypeOK, HeapInv, NoUseAfterFree, handle_other
<1>4. OwnerInv'
  BY DEF TypeOK, OwnerInv, handle_other
<1>5. KindInv'
  BY DEF TypeOK, KindInv, handle_other
<1>6. LifeInv'
  BY DEF TypeOK, LifeInv, handle_other
<1>7. StopInv'
  BY <1>0, <1>a DEF StopInv, StopPending, StopSeen
<1>8. OrderInv'
  BY DEF TypeOK, OrderInv, handle_other
<1> QED
  BY <1>1, <1>2, <1>3, <1>4, <1>5, <1>6, <1>7, <1>8 DEF Parts

LEMMA ShardWaiterFinishStep ==
  ASSUME IInv, NEW w \in Workers, shard_waiter_finish(w)
  PROVE  Parts'
<1> USE DEF IInv, shardVars, heapVars, callerVars, workerVars
<1>0. /\ wpc[w] = "finish" /\ wpc'[w] = "loop" /\ wreq[w] \in Reqs /\ wreq'[w] = NoReq
      /\ \A v \in Workers : v # w => wpc[v] = "out" /\ wpc'[v] = "out" /\ wreq'[v] = wreq[v]
      /\ \A x \in Reqs : phase'[x] = IF x = wreq[w] THEN "handled" ELSE phase[x]
      /\ \A x \in Reqs : x # wreq[w] => req'[x] = req[x]
      /\ phase[wreq[w]] = "taken"
      /\ UNCHANGED <<running, keep_alive, requests, pc, sub, wtr>>
  BY DEF TypeOK, WorkerHolds, SingleWorker, Active, HeapInv, NoUseAfterFree, shard_waiter_finish
<1>1. WorkerHolds'
  BY <1>0, ShardAssumption DEF WorkerHolds
<1>2. SingleWorker'
  BY DEF TypeOK, SingleWorker, Active, shard_waiter_finish, HasWaiter
<1>3. HeapInv'
  <2>1. \A i \in DOMAIN requests : requests[i] \in Reqs
    BY DEF TypeOK
  <2> QED
    BY <1>0, <2>1 DEF HeapInv, NoUseAfterFree, WorkerHolds
<1>4. OwnerInv'
  BY <1>0 DEF TypeOK, OwnerInv
<1>5. KindInv'
  BY DEF TypeOK, KindInv, shard_waiter_finish, HasWaiter
<1>6. LifeInv'
  BY DEF TypeOK, LifeInv, shard_waiter_finish, HasWaiter
<1>7. StopInv'
  <2>1. \A t \in Threads : StopPending(t)' <=> StopPending(t) /\ (pc[t] = "stopping" => wtr[t] # wreq[w])
    BY <1>0 DEF OwnerInv, StopPending
  <2>2. \A t \in Threads : pc[t] = "stop" => wtr[t] # wreq[w]
    BY <1>0 DEF OwnerInv
  <2>3. \A v \in Workers : StopSeen(v)' => v = w /\ StopSeen(w)
    BY <1>0 DEF StopSeen
  <2> QED
    BY <1>0, <2>1, <2>2, <2>3 DEF StopInv, StopPending
<1>8. OrderInv'
  BY <1>0 DEF TypeOK, OrderInv, OwnerInv, HeapInv, NoUseAfterFree
<1> QED
  BY <1>1, <1>2, <1>3, <1>4, <1>5, <1>6, <1>7, <1>8 DEF Parts

LEMMA ShardRunReturnStep ==
  ASSUME IInv, NEW w \in Workers, shard_run_return(w)
  PROVE  Parts'
<1> USE DEF IInv, shardVars, heapVars, callerVars, workerVars
<1>a. \A t \in Threads : ~StopPending(t)
  BY DEF StopInv, StopSeen, shard_run_return
<1>0. wpc'[w] = "out" /\ \A v \in Workers : wpc'[v] = "out"
  BY DEF TypeOK, SingleWorker, Active, shard_run_return
<1>1. WorkerHolds'
  BY DEF TypeOK, WorkerHolds, shard_run_return
<1>2. SingleWorker'
  BY DEF TypeOK, SingleWorker, Active, shard_run_return
<1>3. HeapInv'
  BY DEF TypeOK, HeapInv, NoUseAfterFree, shard_run_return
<1>4. OwnerInv'
  BY DEF TypeOK, OwnerInv, shard_run_return
<1>5. KindInv'
  BY DEF TypeOK, KindInv, shard_run_return
<1>6. LifeInv'
  BY DEF TypeOK, LifeInv, shard_run_return
<1>7. StopInv'
  BY <1>0, <1>a DEF StopInv, StopPending, StopSeen, shard_run_return
<1>8. OrderInv'
  BY DEF TypeOK, OrderInv, shard_run_return
<1> QED
  BY <1>1, <1>2, <1>3, <1>4, <1>5, <1>6, <1>7, <1>8 DEF Parts

-----------------------------------------------------------------------------
LEMMA PartsStep == IInv /\ [Next]_vars => Parts'
<1> SUFFICES ASSUME IInv, [Next]_vars PROVE Parts'
  OBVIOUS
<1>1. ASSUME NEW t \in Threads, CallerStep(t) PROVE Parts'
  BY <1>1, ShardWaitStep, ShardWaitReturnStep, ShardRequestDestroyStep, ShardStopEnqueueStep,
     ShardStopReturnStep, ShardDestroyDrainStep, ShardDestroyFreeStep DEF CallerStep
<1>2. ASSUME NEW t \in Threads, CallerCall(t) PROVE Parts'
  <2>1. ASSUME NEW b \in Batches, NEW v \in Vals, shard_insert(t, b, v) PROVE Parts'
    BY <2>1, SubmitStep DEF shard_insert
  <2>2. ASSUME NEW b \in Batches, shard_query(t, b) PROVE Parts'
    BY <2>2, SubmitStep DEF shard_query
  <2>3. CASE shard_clear(t)
    BY <2>3, SubmitStep DEF shard_clear
  <2> QED
    BY <1>2, <2>1, <2>2, <2>3, ShardStopStep, ShardDestroyStep, ShardCreateStep DEF CallerCall
<1>3. ASSUME NEW w \in Workers, WorkerStep(w) \/ shard_run(w) PROVE Parts'
  BY <1>3, ShardRunStep, ShardRunStartStep, ShardNextRequestStep, ShardLoopExitStep,
     HandleInsertStep, HandleQueryStep, HandleQueryFailStep, HandleOtherStep, ShardWaiterFinishStep, ShardRunReturnStep DEF WorkerStep
<1>4. CASE UNCHANGED vars
  <2> USE <1>4 DEF vars, shardVars, heapVars, callerVars, workerVars, IInv
  <2>1. WorkerHolds' /\ SingleWorker' /\ LifeInv'
    BY DEF WorkerHolds, SingleWorker, Active, LifeInv
  <2>2. HeapInv' /\ OwnerInv' /\ KindInv'
    BY DEF HeapInv, NoUseAfterFree, OwnerInv, KindInv
  <2>3. StopInv' /\ OrderInv'
    BY DEF StopInv, StopPending, StopSeen, OrderInv
  <2> QED
    BY <2>1, <2>2, <2>3 DEF Parts
<1> QED
  BY <1>1, <1>2, <1>3, <1>4 DEF Next

LEMMA PartsInit == Init => Parts
<1> SUFFICES ASSUME Init PROVE Parts
  OBVIOUS
<1>1. WorkerHolds /\ SingleWorker /\ LifeInv
  BY ShardAssumption DEF Init, WorkerHolds, SingleWorker, Active, LifeInv
<1>2. HeapInv
  BY DEF Init, HeapInv, NoUseAfterFree, NewRequest
<1>3. OwnerInv /\ KindInv
  BY ShardAssumption DEF Init, OwnerInv, KindInv
<1>4. StopInv /\ OrderInv
  BY DEF Init, StopInv, StopPending, StopSeen, OrderInv
<1> QED
  BY <1>1, <1>2, <1>3, <1>4 DEF Parts

LEMMA BatchInit == Init => BatchInv
  BY DEF Init, BatchInv

LEMMA BatchStep == IInv /\ [Next]_vars => BatchInv'
<1> SUFFICES ASSUME IInv, [Next]_vars PROVE BatchInv'
  OBVIOUS
<1> USE DEF IInv, shardVars, heapVars, callerVars, workerVars
<1>a. \A w \in Workers : wpc[w] = "handle" => wreq[w] \in Reqs /\ phase[wreq[w]] = "taken"
  BY DEF HeapInv, NoUseAfterFree, WorkerHolds
<1>0. ASSUME NEW r \in Reqs, NEW type, NEW rec, Enqueue(r, type, rec),
             UNCHANGED <<life, workerVars>>, life = "live"
      PROVE  BatchInv'
  <2>1. \A x \in Reqs : phase'[x] = IF x = r THEN "queued" ELSE phase[x]
    BY <1>0, EnqueueFacts
  <2>2. \A x \in Reqs : x # r => req'[x] = req[x]
    BY <1>0, EnqueueFacts
  <2>3. phase[r] = "free" /\ req'[r].err = "SUCCESS"
    BY <1>0, EnqueueFacts
  <2> QED BY <1>0, <1>a, <2>1, <2>2, <2>3 DEF BatchInv
<1>1. ASSUME NEW t \in Threads, CallerStep(t) PROVE BatchInv'
  <2>1. CASE shard_wait(t)
    BY <1>0, <2>1 DEF shard_wait, LifeInv, TypeOK
  <2>2. CASE shard_stop_enqueue(t)
    BY <1>0, <2>2 DEF shard_stop_enqueue, LifeInv, TypeOK
  <2>3. ASSUME NEW r \in Reqs, phase[r] = "handled", Free(r), UNCHANGED <<shardVars, workerVars>>
        PROVE  BatchInv'
    <3>1. \A x \in Reqs : phase'[x] = IF x = r THEN "free" ELSE phase[x]
      BY <2>3, FreeFacts
    <3>2. \A x \in Reqs : x # r => req'[x] = req[x]
      BY <2>3, FreeFacts
    <3> QED BY <2>3, <1>a, <3>1, <3>2 DEF BatchInv
  <2>4. CASE shard_wait_return(t)
    BY <2>3, <2>4 DEF shard_wait_return, OwnerInv, HeapInv
  <2>5. CASE shard_request_destroy(t)
    BY <2>3, <2>5 DEF shard_request_destroy, OwnerInv, OrderInv
  <2>6. CASE shard_stop_return(t)
    BY <2>3, <2>6 DEF shard_stop_return, OwnerInv, HeapInv
  <2>7. CASE shard_destroy_drain(t)
    <3>1. /\ \A x \in Reqs : phase'[x] = "queued" => phase[x] = "queued" /\ req'[x] = req[x]
      BY <2>7, TakeFacts DEF shard_destroy_drain, TypeOK
    <3>2. \A w \in Workers : wpc'[w] = "out"
      BY <2>7 DEF shard_destroy_drain, LifeInv
    <3>3. life' # "dead"
      BY <2>7 DEF shard_destroy_drain, LifeInv
    <3> QED BY <2>7, <3>1, <3>2, <3>3 DEF shard_destroy_drain, BatchInv
  <2>8. CASE shard_destroy_free(t)
    BY <2>8 DEF shard_destroy_free, BatchInv
  <2> QED BY <1>1, <2>1, <2>2, <2>4, <2>5, <2>6, <2>7, <2>8 DEF CallerStep
<1>2. ASSUME NEW t \in Threads, CallerCall(t) PROVE BatchInv'
  <2>1. ASSUME NEW type, NEW rec, Submit(t, type, rec) PROVE BatchInv'
    BY <1>0, <2>1 DEF Submit
  <2>2. CASE shard_stop(t) \/ shard_destroy(t) \/ shard_create(t)
    BY <2>2 DEF shard_stop, shard_destroy, shard_create, BatchInv
  <2> QED BY <1>2, <2>1, <2>2 DEF CallerCall, shard_insert, shard_query, shard_clear
<1>3. ASSUME NEW w \in Workers, WorkerStep(w) \/ shard_run(w) PROVE BatchInv'
  <2>1. CASE shard_run(w) \/ shard_run_start(w) \/ shard_loop_exit(w) \/ shard_run_return(w)
    <3>1. /\ UNCHANGED <<requests, life, req, phase, wreq, widx>>
          /\ wpc \in [Workers -> WorkerPcs]
          /\ \E p \in {"out", "start", "loop", "release"} : wpc' = [wpc EXCEPT ![w] = p]
          /\ wpc[w] \notin {"handle", "finish"}
      BY <2>1 DEF shard_run, shard_run_start, shard_loop_exit, shard_run_return, TypeOK
    <3> QED BY <3>1 DEF BatchInv
  <2>2. CASE shard_next_request(w)
    <3>1. /\ requests # << >> /\ requests' = Tail(requests) /\ requests[1] \in Reqs
          /\ Head(requests) = requests[1] /\ phase[requests[1]] = "queued"
      BY <2>2, TakeFacts DEF shard_next_request, HeapInv, NoUseAfterFree, TypeOK
    <3>2. life' = "live"
      BY <2>2 DEF shard_next_request, LifeInv, TypeOK
    <3>3. req[requests[1]].rec \in RecSeqs
      BY <3>1 DEF TypeOK, Requests
    <3>4. 0 <= Len(req[requests[1]].rec)
      BY <3>3 DEF RecSeqs
    <3>5. UNCHANGED <<req, widx>> /\ wpc[w] = "loop"
      BY <2>2 DEF shard_next_request
    <3>6. \A x \in Workers : wpc'[x] = IF x = w THEN "handle" ELSE wpc[x]
      BY <2>2 DEF shard_next_request, TypeOK
    <3>7. \A x \in Workers : wreq'[x] = IF x = w THEN requests[1] ELSE wreq[x]
      BY <2>2, <3>1 DEF shard_next_request, TypeOK
    <3>8. \A x \in Reqs : phase'[x] = "queued" => phase[x] = "queued"
      BY <2>2, <3>1 DEF shard_next_request, TypeOK
    <3> QED BY <3>1, <3>2, <3>4, <3>5, <3>6, <3>7, <3>8 DEF BatchInv
  <2>3. CASE handle_insert(w)
    <3>1. /\ wpc[w] = "handle" /\ wreq[w] \in Reqs /\ phase[wreq[w]] = "taken" /\ life' = "live"
          /\ widx[w] \in Nat /\ widx[w] < Len(req[wreq[w]].rec) /\ UNCHANGED <<wreq, phase, requests, life>>
      BY <2>3 DEF handle_insert, WorkerHolds, HeapInv, NoUseAfterFree, LifeInv, TypeOK
    <3>2. \A x \in Workers : x # w => wpc[x] = "out"
      BY <3>1 DEF SingleWorker, Active
    <3>3. Len(req[wreq[w]].rec) \in Nat
      BY <3>1 DEF TypeOK, Requests, RecSeqs
    <3>4. CASE Full(table)
      BY <2>3, <3>1, <3>2, <3>4, ZenonT(60) DEF handle_insert, BatchInv, TypeOK
    <3>5. CASE ~Full(table)
      <4>1. UNCHANGED <<req, wpc>> /\ widx' = [widx EXCEPT ![w] = widx[w] + 1]
        BY <2>3, <3>5 DEF handle_insert
      <4>2. widx'[w] = widx[w] + 1 /\ \A x \in Workers : x # w => widx'[x] = widx[x]
        BY <4>1 DEF TypeOK
      <4>3. widx'[w] <= Len(req[wreq[w]].rec)
        BY <3>1, <3>3, <4>2
      <4> QED BY <3>1, <3>2, <4>1, <4>2, <4>3 DEF BatchInv
    <3> QED BY <3>4, <3>5
  <2>4. CASE handle_query(w)
    <3>1. /\ wpc[w] = "handle" /\ wreq[w] \in Reqs /\ phase[wreq[w]] = "taken" /\ life' = "live"
          /\ widx[w] \in Nat /\ widx[w] < Len(req[wreq[w]].rec) /\ UNCHANGED <<wpc, wreq, phase, requests, life>>
      BY <2>4 DEF handle_query, WorkerHolds, HeapInv, NoUseAfterFree, LifeInv, TypeOK
    <3>2. \A x \in Workers : x # w => wpc[x] = "out"
      BY <3>1 DEF SingleWorker, Active
    <3>3. /\ req[wreq[w]].rec \in Seq(Record) /\ req[wreq[w]] \in Requests
      BY <3>1 DEF TypeOK, Requests, RecSeqs
    <3> DEFINE s == req[wreq[w]].rec
               i == widx[w] + 1
               e == [s[i] EXCEPT !.val = table[s[i].key]]
    <3>4. i \in 1 .. Len(s) /\ Len([s EXCEPT ![i] = e]) = Len(s)
      BY <3>1, <3>3
    <3>5. req'[wreq[w]] = [req[wreq[w]] EXCEPT !.rec = [s EXCEPT ![i] = e]]
      BY <2>4, <3>1 DEF handle_query, TypeOK
    <3>6. /\ req'[wreq[w]].rec = [s EXCEPT ![i] = e]
          /\ req'[wreq[w]].err = req[wreq[w]].err
      BY <3>3, <3>5 DEF Requests
    <3>7. /\ \A x \in Reqs : x # wreq[w] => req'[x] = req[x]
          /\ widx'[w] = widx[w] + 1 /\ \A x \in Workers : x # w => widx'[x] = widx[x]
      BY <2>4, <3>1 DEF handle_query, TypeOK
    <3>8. widx'[w] <= Len(req'[wreq[w]].rec)
      BY <3>4, <3>6, <3>7
    <3> HIDE DEF s, i, e
    <3> QED BY <3>1, <3>2, <3>6, <3>7, <3>8 DEF BatchInv
  <2>5. CASE handle_other(w)
    BY <2>5 DEF handle_other, BatchInv, TypeOK
  <2>6. CASE shard_waiter_finish(w)
    <3>1. /\ wpc[w] = "finish" /\ wreq[w] \in Reqs /\ phase[wreq[w]] = "taken" /\ life' = "live"
          /\ UNCHANGED <<life, requests>>
      BY <2>6 DEF shard_waiter_finish, WorkerHolds, HeapInv, NoUseAfterFree, LifeInv, TypeOK
    <3>2. \A x \in Workers : x # w => wpc[x] = "out"
      BY <3>1 DEF SingleWorker, Active
    <3>3. /\ \A x \in Reqs : x # wreq[w] => req'[x] = req[x] /\ phase'[x] = phase[x]
          /\ phase'[wreq[w]] = "handled"
      BY <2>6, <3>1 DEF shard_waiter_finish, TypeOK
    <3>4. \A x \in Workers : IF x = w THEN wpc'[x] = "loop" /\ widx'[x] = 0
                               ELSE wpc'[x] = wpc[x] /\ widx'[x] = widx[x]
      BY <2>6, <3>1 DEF shard_waiter_finish, TypeOK
    <3> QED BY <3>1, <3>2, <3>3, <3>4 DEF BatchInv
  <2>7. CASE handle_query_fail(w)
    <3>1. /\ wpc[w] = "handle" /\ wreq[w] \in Reqs /\ phase[wreq[w]] = "taken" /\ life' = "live"
          /\ UNCHANGED <<wreq, widx, phase, requests, life>>
      BY <2>7 DEF handle_query_fail, WorkerHolds, HeapInv, NoUseAfterFree, LifeInv, TypeOK
    <3>2. \A x \in Workers : x # w => wpc[x] = "out"
      BY <3>1 DEF SingleWorker, Active
    <3>3. \A x \in Workers : wpc'[x] = IF x = w THEN "finish" ELSE wpc[x]
      BY <2>7 DEF handle_query_fail, TypeOK
    <3>4. \A x \in Reqs : x # wreq[w] => req'[x] = req[x]
      BY <2>7, <3>1 DEF handle_query_fail, TypeOK
    <3> QED BY <3>1, <3>2, <3>3, <3>4 DEF BatchInv
  <2> QED BY <1>3, <2>1, <2>2, <2>3, <2>4, <2>5, <2>6, <2>7 DEF WorkerStep
<1>4. CASE UNCHANGED vars
  BY <1>4 DEF vars, BatchInv
<1> QED
  BY <1>1, <1>2, <1>3, <1>4 DEF Next

LEMMA QueryInit == Init => QueryInv
  BY DEF Init, QueryInv, Unanswered

(* A query is queued with empty records, and each lookup answers one. *)
LEMMA QueryStep == IInv /\ [Next]_vars => QueryInv'
<1> SUFFICES ASSUME IInv, [Next]_vars PROVE QueryInv'
  OBVIOUS
<1> USE DEF IInv, shardVars, heapVars, callerVars, workerVars
<1>a. \A w \in Workers : wpc[w] = "handle" => wreq[w] \in Reqs /\ phase[wreq[w]] = "taken"
  BY DEF HeapInv, NoUseAfterFree, WorkerHolds
(* Steps that leave the batch in progress and the queued queries alone. *)
<1>b. ASSUME \A x \in Reqs : phase'[x] = "queued" /\ req'[x].type = "query" =>
                 phase[x] = "queued" /\ req'[x] = req[x],
             \A w \in Workers : wpc'[w] = "handle" =>
                 wpc[w] = "handle" /\ wreq'[w] = wreq[w] /\ widx'[w] = widx[w] /\ req'[wreq[w]] = req[wreq[w]]
      PROVE  QueryInv'
  <2>1. ASSUME NEW x \in Reqs, phase'[x] = "queued", req'[x].type = "query"
        PROVE  \A i \in 0 + 1 .. Len(req'[x].rec) : req'[x].rec[i].val = Absent
    BY <1>b, <2>1 DEF QueryInv, Unanswered
  <2>2. ASSUME NEW w \in Workers, wpc'[w] = "handle", req'[wreq'[w]].type = "query"
        PROVE  \A i \in widx'[w] + 1 .. Len(req'[wreq'[w]].rec) : req'[wreq'[w]].rec[i].val = Absent
    BY <1>b, <2>2 DEF QueryInv, Unanswered
  <2> QED BY <2>1, <2>2 DEF QueryInv, Unanswered
<1>0. ASSUME NEW r \in Reqs, NEW type, NEW rec, Enqueue(r, type, rec),
             UNCHANGED workerVars,
             type = "query" => \A i \in 1 .. Len(rec) : rec[i].val = Absent
      PROVE  QueryInv'
  <2>1. \A x \in Reqs : phase'[x] = IF x = r THEN "queued" ELSE phase[x]
    BY <1>0, EnqueueFacts
  <2>2. \A x \in Reqs : x # r => req'[x] = req[x]
    BY <1>0, EnqueueFacts
  <2>3. phase[r] = "free" /\ req'[r].type = type /\ req'[r].rec = rec
    BY <1>0, EnqueueFacts DEF Enqueue, NewRequest, TypeOK
  <2>4. ASSUME NEW x \in Reqs, phase'[x] = "queued", req'[x].type = "query"
        PROVE  \A i \in 0 + 1 .. Len(req'[x].rec) : req'[x].rec[i].val = Absent
    <3>1. CASE x = r
      BY <1>0, <2>3, <2>4, <3>1
    <3>2. CASE x # r
      BY <2>1, <2>2, <2>4, <3>2 DEF QueryInv, Unanswered
    <3> QED BY <3>1, <3>2
  <2>5. ASSUME NEW w \in Workers, wpc'[w] = "handle", req'[wreq'[w]].type = "query"
        PROVE  \A i \in widx'[w] + 1 .. Len(req'[wreq'[w]].rec) : req'[wreq'[w]].rec[i].val = Absent
    <3>1. wpc[w] = "handle" /\ wreq'[w] = wreq[w] /\ widx'[w] = widx[w] /\ req'[wreq[w]] = req[wreq[w]]
      BY <1>0, <1>a, <2>2, <2>3, <2>5
    <3> QED BY <2>5, <3>1 DEF QueryInv, Unanswered
  <2> QED BY <2>4, <2>5 DEF QueryInv, Unanswered
<1>1. ASSUME NEW t \in Threads, CallerStep(t) PROVE QueryInv'
  <2>1. CASE shard_wait(t)
    BY <1>0, <2>1 DEF shard_wait
  <2>2. CASE shard_stop_enqueue(t)
    BY <1>0, <2>2 DEF shard_stop_enqueue
  <2>3. ASSUME NEW r \in Reqs, phase[r] = "handled", Free(r), UNCHANGED workerVars
        PROVE  QueryInv'
    <3>1. \A x \in Reqs : phase'[x] = IF x = r THEN "free" ELSE phase[x]
      BY <2>3, FreeFacts
    <3>2. \A x \in Reqs : x # r => req'[x] = req[x]
      BY <2>3, FreeFacts
    <3>3. \A w \in Workers : wpc[w] = "handle" => req'[wreq[w]] = req[wreq[w]]
      BY <2>3, <1>a, <3>2
    <3> QED BY <2>3, <1>b, <3>1, <3>2, <3>3
  <2>4. CASE shard_wait_return(t)
    BY <2>3, <2>4 DEF shard_wait_return, OwnerInv, HeapInv
  <2>5. CASE shard_request_destroy(t)
    BY <2>3, <2>5 DEF shard_request_destroy, OwnerInv, OrderInv
  <2>6. CASE shard_stop_return(t)
    BY <2>3, <2>6 DEF shard_stop_return, OwnerInv, HeapInv
  <2>7. CASE shard_destroy_drain(t)
    <3>1. /\ \A x \in Reqs : phase'[x] = "queued" => phase[x] = "queued" /\ req'[x] = req[x]
      BY <2>7, TakeFacts DEF shard_destroy_drain, TypeOK
    <3>2. \A w \in Workers : wpc'[w] = "out"
      BY <2>7 DEF shard_destroy_drain, LifeInv
    <3> QED BY <1>b, <3>1, <3>2
  <2>8. CASE shard_destroy_free(t)
    BY <1>b, <2>8 DEF shard_destroy_free
  <2> QED BY <1>1, <2>1, <2>2, <2>4, <2>5, <2>6, <2>7, <2>8 DEF CallerStep
<1>2. ASSUME NEW t \in Threads, CallerCall(t) PROVE QueryInv'
  <2>1. ASSUME NEW type, NEW rec, Submit(t, type, rec),
               type = "query" => \A i \in 1 .. Len(rec) : rec[i].val = Absent
        PROVE  QueryInv'
    BY <1>0, <2>1 DEF Submit
  <2>2. CASE shard_stop(t) \/ shard_destroy(t) \/ shard_create(t)
    BY <1>b, <2>2 DEF shard_stop, shard_destroy, shard_create
  <2>3. ASSUME NEW b \in Batches, NEW v \in Vals, shard_insert(t, b, v) PROVE QueryInv'
    BY <2>1, <2>3 DEF shard_insert
  <2>4. ASSUME NEW b \in Batches, shard_query(t, b) PROVE QueryInv'
    <3>1. b \in Seq(Keys)
      BY ShardAssumption
    <3>2. DOMAIN b = 1 .. Len(b) /\ Len(b) \in Nat
      BY <3>1
    <3>3. Records(b, Absent) \in RecSeqs
      BY RecordsType
    <3>4. DOMAIN Records(b, Absent) = 1 .. Len(Records(b, Absent))
      BY <3>3 DEF RecSeqs
    <3>5. \A i \in 1 .. Len(Records(b, Absent)) : Records(b, Absent)[i].val = Absent
      <4>1. DOMAIN Records(b, Absent) = DOMAIN b /\ \A i \in DOMAIN b : Records(b, Absent)[i].val = Absent
        BY DEF Records
      <4> HIDE DEF Records
      <4> QED BY <3>4, <4>1
    <3> QED BY <2>1, <2>4, <3>5 DEF shard_query
  <2>5. CASE shard_clear(t)
    BY <2>1, <2>5 DEF shard_clear
  <2> QED BY <1>2, <2>2, <2>3, <2>4, <2>5 DEF CallerCall
<1>3. ASSUME NEW w \in Workers, WorkerStep(w) \/ shard_run(w) PROVE QueryInv'
  <2>1. CASE shard_run(w) \/ shard_run_start(w) \/ shard_loop_exit(w) \/ shard_run_return(w)
    <3>1. /\ UNCHANGED <<req, phase, wreq, widx>>
          /\ wpc \in [Workers -> WorkerPcs]
          /\ \E p \in {"out", "start", "loop", "release"} : wpc' = [wpc EXCEPT ![w] = p]
      BY <2>1 DEF shard_run, shard_run_start, shard_loop_exit, shard_run_return, TypeOK
    <3> QED BY <1>b, <3>1
  <2>2. CASE shard_next_request(w)
    <3>1. /\ requests # << >> /\ requests' = Tail(requests) /\ requests[1] \in Reqs
          /\ Head(requests) = requests[1] /\ phase[requests[1]] = "queued"
      BY <2>2, TakeFacts DEF shard_next_request, HeapInv, NoUseAfterFree, TypeOK
    <3>2. UNCHANGED <<req, widx>> /\ widx[w] = 0
      BY <2>2 DEF shard_next_request, BatchInv
    <3>3. \A x \in Workers : wpc'[x] = IF x = w THEN "handle" ELSE wpc[x]
      BY <2>2 DEF shard_next_request, TypeOK
    <3>4. \A x \in Workers : wreq'[x] = IF x = w THEN requests[1] ELSE wreq[x]
      BY <2>2, <3>1 DEF shard_next_request, TypeOK
    <3>5. \A x \in Reqs : phase'[x] = "queued" => phase[x] = "queued"
      BY <2>2, <3>1 DEF shard_next_request, TypeOK
    <3> QED BY <3>1, <3>2, <3>3, <3>4, <3>5 DEF QueryInv, Unanswered
  <2>3. CASE handle_insert(w)
    <3>1. /\ wpc[w] = "handle" /\ wreq[w] \in Reqs /\ phase[wreq[w]] = "taken"
          /\ UNCHANGED <<wreq, phase>> /\ req[wreq[w]].type = "insert"
      BY <2>3, <1>a DEF handle_insert
    <3>2. \A x \in Workers : x # w => wpc[x] = "out"
      BY <3>1 DEF SingleWorker, Active
    <3>3. /\ \A x \in Reqs : x # wreq[w] => req'[x] = req[x]
          /\ req'[wreq[w]].type = "insert"
          /\ \A x \in Workers : x # w => wpc'[x] = wpc[x]
      <4>1. req[wreq[w]] \in Requests /\ wpc \in [Workers -> WorkerPcs] /\ req \in [Reqs -> Requests]
        BY <3>1 DEF TypeOK
      <4>2. CASE Full(table)
        BY <2>3, <3>1, <4>1, <4>2 DEF handle_insert, Requests
      <4>3. CASE ~Full(table)
        BY <2>3, <3>1, <4>3 DEF handle_insert
      <4> QED BY <4>2, <4>3
    <3> QED BY <3>1, <3>2, <3>3 DEF QueryInv, Unanswered
  <2>4. CASE handle_query(w)
    <3>1. /\ wpc[w] = "handle" /\ wreq[w] \in Reqs /\ phase[wreq[w]] = "taken"
          /\ widx[w] \in Nat /\ widx[w] < Len(req[wreq[w]].rec) /\ UNCHANGED <<wpc, wreq, phase>>
          /\ req[wreq[w]].type = "query"
      BY <2>4, <1>a DEF handle_query, TypeOK
    <3>2. \A x \in Workers : x # w => wpc[x] = "out"
      BY <3>1 DEF SingleWorker, Active
    <3>3. /\ req[wreq[w]].rec \in Seq(Record) /\ req[wreq[w]] \in Requests
      BY <3>1 DEF TypeOK, Requests, RecSeqs
    <3> DEFINE s == req[wreq[w]].rec
               i == widx[w] + 1
               e == [s[i] EXCEPT !.val = table[s[i].key]]
               z == [s EXCEPT ![i] = e]
    <3>4. i \in 1 .. Len(s) /\ Len(z) = Len(s) /\ \A j \in 1 .. Len(s) : j # i => z[j] = s[j]
      BY <3>1, <3>3
    <3>5. req'[wreq[w]] = [req[wreq[w]] EXCEPT !.rec = z]
      BY <2>4, <3>1 DEF handle_query, TypeOK
    <3>6. req'[wreq[w]].rec = z
      BY <3>3, <3>5 DEF Requests
    <3>7. /\ \A x \in Reqs : x # wreq[w] => req'[x] = req[x]
          /\ widx'[w] = widx[w] + 1
      BY <2>4, <3>1 DEF handle_query, TypeOK
    <3>8. \A j \in widx[w] + 1 .. Len(s) : s[j].val = Absent
      BY <3>1 DEF QueryInv, Unanswered
    <3>9. \A j \in widx'[w] + 1 .. Len(req'[wreq[w]].rec) : req'[wreq[w]].rec[j].val = Absent
      <4> HIDE DEF z
      <4>1. \A j \in widx[w] + 1 + 1 .. Len(s) : j \in 1 .. Len(s) /\ j # i /\ j \in widx[w] + 1 .. Len(s)
        BY <3>1, <3>3
      <4> HIDE DEF s, i
      <4> QED BY <3>4, <3>6, <3>7, <3>8, <4>1
    <3> HIDE DEF s, i, e, z
    <3> QED BY <3>1, <3>2, <3>7, <3>9, ZenonT(60) DEF QueryInv, Unanswered
  <2>5. CASE handle_other(w)
    BY <1>b, <2>5 DEF handle_other, TypeOK
  <2>6. CASE shard_waiter_finish(w)
    <3>1. /\ wpc[w] = "finish" /\ wreq[w] \in Reqs /\ phase[wreq[w]] = "taken"
      BY <2>6 DEF shard_waiter_finish, WorkerHolds, HeapInv, NoUseAfterFree
    <3>2. \A x \in Workers : x # w => wpc[x] = "out"
      BY <3>1 DEF SingleWorker, Active
    <3>3. /\ \A x \in Reqs : x # wreq[w] => req'[x] = req[x] /\ phase'[x] = phase[x]
          /\ phase'[wreq[w]] = "handled"
      BY <2>6, <3>1 DEF shard_waiter_finish, TypeOK
    <3>4. \A x \in Workers : wpc'[x] # "handle"
      BY <2>6, <3>2 DEF shard_waiter_finish, TypeOK
    <3> QED BY <1>b, <3>1, <3>3, <3>4
  <2>7. CASE handle_query_fail(w)
    <3>1. /\ wpc[w] = "handle" /\ wreq[w] \in Reqs /\ phase[wreq[w]] = "taken" /\ UNCHANGED phase
      BY <2>7, <1>a DEF handle_query_fail
    <3>2. \A x \in Workers : x # w => wpc[x] = "out"
      BY <3>1 DEF SingleWorker, Active
    <3>3. \A x \in Workers : wpc'[x] # "handle"
      BY <2>7, <3>2 DEF handle_query_fail, TypeOK
    <3>4. \A x \in Reqs : x # wreq[w] => req'[x] = req[x]
      BY <2>7, <3>1 DEF handle_query_fail, TypeOK
    <3> QED BY <1>b, <3>1, <3>3, <3>4
  <2> QED BY <1>3, <2>1, <2>2, <2>3, <2>4, <2>5, <2>6, <2>7 DEF WorkerStep
<1>4. CASE UNCHANGED vars
  BY <1>b, <1>4 DEF vars
<1> QED
  BY <1>1, <1>2, <1>3, <1>4 DEF Next

(***************************************************************************)
(* The inductive invariant holds in every reachable state of the shard,    *)
(* for any number of callers, of threads in shard_run and of requests.     *)
(***************************************************************************)
THEOREM Invariance == Spec => []IInv
<1>1. Init => IInv
  BY TypeInit, PartsInit, BatchInit, QueryInit DEF IInv, Parts
<1>2. IInv /\ [Next]_vars => IInv'
  <2> SUFFICES ASSUME IInv, [Next]_vars PROVE IInv'
    OBVIOUS
  <2>1. TypeOK'
    BY TypeStep DEF IInv
  <2>2. Parts'
    BY PartsStep
  <2>3. BatchInv'
    BY BatchStep
  <2>4. QueryInv'
    BY QueryStep
  <2> QED
    BY <2>1, <2>2, <2>3, <2>4 DEF IInv, Parts
<1> QED
  BY <1>1, <1>2, PTL DEF Spec

(* The state of the shard stays within its types. *)
THEOREM TypeCorrect == Spec => []TypeOK
<1>1. IInv => TypeOK
  BY DEF IInv
<1> QED
  BY <1>1, Invariance, PTL

(* At most one worker runs a shard, whatever number of threads calls        *)
(* shard_run and shard_stop: the compare-exchanges on shard->running.       *)
THEOREM AtMostOneWorker == Spec => []SingleWorker
<1>1. IInv => SingleWorker
  BY DEF IInv
<1> QED
  BY <1>1, Invariance, PTL

(* The CHECK at the end of shard_run never fires. *)
THEOREM ReleaseCheck == Spec => []ReleaseFindsStopping
<1>1. IInv => ReleaseFindsStopping
  BY DEF IInv, StopInv, StopSeen, ReleaseFindsStopping
<1> QED
  BY <1>1, Invariance, PTL

(* Neither the queue nor the worker ever holds a request that its caller    *)
(* has freed.                                                               *)
THEOREM MemorySafe == Spec => []NoUseAfterFree
<1>1. IInv => NoUseAfterFree
  BY DEF IInv, HeapInv
<1> QED
  BY <1>1, Invariance, PTL

(* shard_wait returns only after the request its caller submitted before    *)
(* has been completed.                                                      *)
THEOREM WaitBarrier == Spec => []WaitIsBarrier
<1>1. IInv => WaitIsBarrier
  BY DEF IInv, OrderInv, WaitIsBarrier
<1> QED
  BY <1>1, Invariance, PTL

-----------------------------------------------------------------------------
(* Batches.  What PutBatch of SerialShard computes is a recursive function; *)
(* that it exists, and its value for a batch without its first record, are  *)
(* shown by induction over the naturals, from the theorem that every set of *)
(* naturals has a least element.                                            *)

(* Every nonempty set of naturals has a least element. *)
LEMMA LeastNumber ==
    ASSUME NEW T \in SUBSET Nat, T # {}
    PROVE  \E x \in T : \A y \in T : x <= y
<1> DEFINE R == OpToRel(<, Nat)
<1>1. IsWellFoundedOn(R, Nat)
  BY NatLessThanWellFounded
<1>2. PICK x \in T : \A y \in T : ~(<<y, x>> \in R)
  <2> HIDE DEF R
  <2> QED BY <1>1, WFMin
<1>3. R = {ss \in Nat \X Nat : ss[1] < ss[2]}
  BY DEF OpToRel
<1>4. \A y \in T : x <= y
  <2> HIDE DEF R
  <2> SUFFICES ASSUME NEW y \in T, ~(x <= y) PROVE FALSE
    OBVIOUS
  <2>1. x \in Nat /\ y \in Nat /\ y < x
    OBVIOUS
  <2>2. <<y, x>> \in R
    BY <2>1, <1>3
  <2> QED BY <2>2, <1>2
<1> QED BY <1>4

(* Induction on the naturals, for the members of a set. *)
LEMMA SetInduction ==
    ASSUME NEW S, 0 \in S, \A n \in Nat : n \in S => n + 1 \in S
    PROVE  \A n \in Nat : n \in S
<1> DEFINE T == Nat \ S
<1>1. SUFFICES ASSUME T # {} PROVE FALSE
  OBVIOUS
<1>2. PICK x \in T : \A y \in T : x <= y
  BY <1>1, LeastNumber
<1>3. x \in Nat /\ x # 0 /\ x \notin S
  OBVIOUS
<1>4. x - 1 \in Nat /\ x - 1 \in S
  BY <1>2, <1>3
<1> QED BY <1>3, <1>4

(* One record of PutBatch, after the records before it. *)
PutNext(prev, e) ==
    IF prev.err # "SUCCESS" THEN prev
    ELSE IF A!Full(prev.table) THEN [prev EXCEPT !.err = "TABLE_FULL"]
    ELSE [prev EXCEPT !.table[e.key] = e.val]

(* f is what PutBatch computes, up to its n-th record. *)
Puts(f, tb, rec, n) ==
    f = [i \in 0 .. n |->
            IF i = 0 THEN [table |-> tb, err |-> "SUCCESS"]
            ELSE LET prev == f[i - 1]
                 IN  IF prev.err # "SUCCESS" THEN prev
                     ELSE IF A!Full(prev.table)
                     THEN [prev EXCEPT !.err = "TABLE_FULL"]
                     ELSE [prev EXCEPT !.table[rec[i].key] = rec[i].val]]

LEMMA PutsEach ==
    ASSUME NEW f, NEW tb, NEW rec, NEW n \in Nat
    PROVE  Puts(f, tb, rec, n) <=>
             f = [i \in 0 .. n |-> IF i = 0 THEN [table |-> tb, err |-> "SUCCESS"]
                                   ELSE PutNext(f[i - 1], rec[i])]
  BY DEF Puts, PutNext

LEMMA PutsExist ==
    ASSUME NEW tb, NEW rec
    PROVE  \A n \in Nat : \E f : Puts(f, tb, rec, n)
<1> DEFINE S == {n \in Nat : \E f : Puts(f, tb, rec, n)}
<1>1. 0 \in S
  <2> DEFINE f == [i \in 0 .. 0 |-> [table |-> tb, err |-> "SUCCESS"]]
  <2>1. f = [i \in 0 .. 0 |-> IF i = 0 THEN [table |-> tb, err |-> "SUCCESS"]
                              ELSE PutNext(f[i - 1], rec[i])]
    OBVIOUS
  <2> HIDE DEF f
  <2>2. Puts(f, tb, rec, 0)
    BY <2>1, PutsEach
  <2> QED BY <2>2
<1>2. ASSUME NEW n \in Nat, n \in S PROVE n + 1 \in S
  <2>1. PICK f : Puts(f, tb, rec, n)
    BY <1>2
  <2> DEFINE g == [i \in 0 .. n + 1 |-> IF i = n + 1 THEN PutNext(f[n], rec[n + 1]) ELSE f[i]]
  <2>2. \A i \in 0 .. n + 1 :
           g[i] = IF i = 0 THEN [table |-> tb, err |-> "SUCCESS"] ELSE PutNext(g[i - 1], rec[i])
    BY <2>1, PutsEach
  <2>3. Puts(g, tb, rec, n + 1)
    BY <2>2, PutsEach
  <2> QED BY <2>3
<1> HIDE DEF S
<1>3. \A n \in Nat : n \in S
  BY <1>1, <1>2, SetInduction
<1> QED BY <1>3 DEF S

LEMMA PutBatchIs ==
    ASSUME NEW tb, NEW rec \in RecSeqs
    PROVE  \E f : Puts(f, tb, rec, Len(rec)) /\ A!PutBatch(tb, rec) = f[Len(rec)]
<1>1. Len(rec) \in Nat
  BY DEF RecSeqs
<1>2. \E f : Puts(f, tb, rec, Len(rec))
  BY <1>1, PutsExist
<1> DEFINE after[n \in 0 .. Len(rec)] ==
            IF n = 0 THEN [table |-> tb, err |-> "SUCCESS"]
            ELSE LET prev == after[n - 1]
                 IN  IF prev.err # "SUCCESS" THEN prev
                     ELSE IF A!Full(prev.table)
                     THEN [prev EXCEPT !.err = "TABLE_FULL"]
                     ELSE [prev EXCEPT !.table[rec[n].key] = rec[n].val]
<1>3. A!PutBatch(tb, rec) = after[Len(rec)]
  BY DEF A!PutBatch
<1>4. after = CHOOSE f : Puts(f, tb, rec, Len(rec))
  BY DEF Puts
<1> HIDE DEF after
<1>5. Puts(after, tb, rec, Len(rec))
  BY <1>2, <1>4
<1> QED BY <1>3, <1>5

LEMMA SameFull == \A tb : A!Full(tb) = Full(tb)
  BY DEF A!Full, Full, A!Cardinality, Cardinality

LEMMA PutBatchEmpty ==
    ASSUME NEW tb
    PROVE  A!PutBatch(tb, << >>) = [table |-> tb, err |-> "SUCCESS"]
<1>1. << >> \in RecSeqs /\ Len(<< >>) = 0
  BY DEF RecSeqs
<1>2. PICK f : Puts(f, tb, << >>, 0) /\ A!PutBatch(tb, << >>) = f[0]
  BY <1>1, PutBatchIs
<1> QED BY <1>2, PutsEach

LEMMA PutBatchFull ==
    ASSUME NEW tb, NEW rec \in RecSeqs, rec # << >>, Full(tb)
    PROVE  A!PutBatch(tb, rec) = [table |-> tb, err |-> "TABLE_FULL"]
<1> DEFINE full == [table |-> tb, err |-> "TABLE_FULL"]
<1>1. Len(rec) \in Nat \ {0}
  BY DEF RecSeqs
<1>2. PICK f : Puts(f, tb, rec, Len(rec)) /\ A!PutBatch(tb, rec) = f[Len(rec)]
  BY PutBatchIs
<1>3. f = [i \in 0 .. Len(rec) |-> IF i = 0 THEN [table |-> tb, err |-> "SUCCESS"]
                                   ELSE PutNext(f[i - 1], rec[i])]
  BY <1>1, <1>2, PutsEach
<1>4. f[1] = full
  <2>1. f[0] = [table |-> tb, err |-> "SUCCESS"] /\ f[1] = PutNext(f[0], rec[1])
    BY <1>1, <1>3
  <2> QED BY <2>1, SameFull DEF PutNext
<1>5. \A e : PutNext(full, e) = full
  BY DEF PutNext
<1> DEFINE S == {i \in Nat : i + 1 <= Len(rec) => f[i + 1] = full}
<1>6. 0 \in S
  BY <1>4
<1>7. ASSUME NEW i \in Nat, i \in S PROVE i + 1 \in S
  <2>1. CASE i + 2 <= Len(rec)
    <3>1. f[i + 2] = PutNext(f[i + 1], rec[i + 2])
      BY <1>1, <1>3, <2>1
    <3>2. f[i + 1] = full
      BY <1>1, <1>7, <2>1
    <3>3. f[i + 2] = full
      BY <3>1, <3>2, <1>5
    <3> HIDE DEF full
    <3> QED BY <3>3
  <2> QED BY <1>1, <2>1
<1> HIDE DEF S
<1>8. Len(rec) - 1 \in S
  BY <1>1, <1>6, <1>7, SetInduction
<1>9. f[Len(rec)] = full
  BY <1>1, <1>8 DEF S
<1> QED BY <1>2, <1>9

LEMMA PutBatchStep ==
    ASSUME NEW tb, NEW rec \in RecSeqs, rec # << >>, ~Full(tb)
    PROVE  A!PutBatch(tb, rec) =
             A!PutBatch([tb EXCEPT ![rec[1].key] = rec[1].val], Tail(rec))
<1> DEFINE tc == [tb EXCEPT ![rec[1].key] = rec[1].val]
           tail == Tail(rec)
           N == Len(rec) - 1
<1>1. /\ Len(rec) \in Nat \ {0} /\ tail \in RecSeqs /\ Len(tail) = N /\ N \in Nat
      /\ \A i \in 1 .. N : tail[i] = rec[i + 1]
  BY HeadTailProperties DEF RecSeqs
<1> HIDE DEF tail
<1>2. PICK f : Puts(f, tb, rec, Len(rec)) /\ A!PutBatch(tb, rec) = f[Len(rec)]
  BY PutBatchIs
<1>3. f = [i \in 0 .. Len(rec) |-> IF i = 0 THEN [table |-> tb, err |-> "SUCCESS"]
                                   ELSE PutNext(f[i - 1], rec[i])]
  BY <1>1, <1>2, PutsEach
<1>4. PICK g : Puts(g, tc, tail, N) /\ A!PutBatch(tc, tail) = g[N]
  <2> HIDE DEF tc
  <2> QED BY <1>1, PutBatchIs
<1>5. g = [i \in 0 .. N |-> IF i = 0 THEN [table |-> tc, err |-> "SUCCESS"]
                            ELSE PutNext(g[i - 1], tail[i])]
  <2> HIDE DEF tc
  <2> QED BY <1>1, <1>4, PutsEach
<1>6. f[1] = g[0]
  <2>1. f[0] = [table |-> tb, err |-> "SUCCESS"] /\ f[1] = PutNext(f[0], rec[1])
    BY <1>1, <1>3
  <2>2. g[0] = [table |-> tc, err |-> "SUCCESS"]
    BY <1>1, <1>5
  <2>3. f[1] = [table |-> tc, err |-> "SUCCESS"]
    BY <2>1, SameFull DEF PutNext
  <2> QED BY <2>2, <2>3
<1> HIDE DEF tc
<1> DEFINE S == {i \in Nat : i <= N => f[i + 1] = g[i]}
<1>7. 0 \in S
  BY <1>6
<1>8. ASSUME NEW i \in Nat, i \in S PROVE i + 1 \in S
  <2>1. CASE i + 1 <= N
    <3>1. f[i + 2] = PutNext(f[i + 1], rec[i + 2])
      BY <1>1, <1>3, <2>1
    <3>2. g[i + 1] = PutNext(g[i], tail[i + 1])
      BY <1>1, <1>5, <2>1
    <3>3. f[i + 1] = g[i] /\ tail[i + 1] = rec[i + 2]
      BY <1>1, <1>8, <2>1
    <3> QED BY <3>1, <3>2, <3>3
  <2> QED BY <1>1, <2>1
<1> HIDE DEF S
<1>9. N \in S
  BY <1>1, <1>7, <1>8, SetInduction
<1>10. f[Len(rec)] = g[N]
  BY <1>1, <1>9 DEF S
<1> QED BY <1>2, <1>4, <1>10 DEF tc, tail

-----------------------------------------------------------------------------
(* The refinement. *)

LEMMA SameBatch ==
    /\ \A tb, rec : Abs!PutBatch(tb, rec) = A!PutBatch(tb, rec)
    /\ \A tb, rec : Abs!GetBatch(tb, rec) = A!GetBatch(tb, rec)
    /\ \A type, rec : Abs!Pending(type, rec) = A!Pending(type, rec)
    /\ Abs!NoOp = A!NoOp
<1>1. ASSUME NEW tb, NEW rec PROVE Abs!PutBatch(tb, rec) = A!PutBatch(tb, rec)
  BY DEF Abs!PutBatch, A!PutBatch, Abs!Full, A!Full, Abs!Cardinality, A!Cardinality
<1> QED BY <1>1 DEF Abs!GetBatch, A!GetBatch, Abs!Pending, A!Pending, Abs!NoOp, A!NoOp

LEMMA SerialConstants ==
    /\ \A b, v : Abs!Records(b, v) = Records(b, v)
    /\ Abs!EmptyTable = EmptyTable
  BY DEF Abs!Records, Records, Abs!EmptyTable, EmptyTable

(* An operation that is done, with given records or with those of its       *)
(* request.                                                                 *)
Answer(r, rec, err) == [st |-> "done", type |-> req[r].type, rec |-> rec, err |-> err]
Base(r) == [st |-> "done", type |-> req[r].type, rec |-> req[r].rec, err |-> req[r].err]

(* What the mapping shows of one thread. *)
View(t) ==
    IF sub[t] = NoReq THEN A!NoOp
    ELSE IF phase[sub[t]] = "queued" THEN A!Pending(req[sub[t]].type, req[sub[t]].rec)
    ELSE AbsDone(sub[t])

(* Between batches the mapping shows what the shard holds. *)
QuietView ==
    (\A w \in Workers : wpc[w] # "handle") => AbsTable = table /\ \A r : AbsDone(r) = Base(r)

(* During a batch it shows what the rest of the batch will leave. *)
BusyView ==
    \A w \in Workers : \A r : wpc[w] = "handle" /\ wreq[w] = r =>
        LET put == A!PutBatch(table, Rest(w))
            found == SubSeq(req[r].rec, 1, widx[w]) \o A!GetBatch(table, Rest(w))
        IN  /\ \A x : x # r => AbsDone(x) = Base(x)
            /\ req[r].type = "insert" =>
                  AbsTable = put.table /\ AbsDone(r) = Answer(r, req[r].rec, put.err)
            /\ req[r].type = "query" =>
                  AbsTable = table /\ AbsDone(r) = Answer(r, found, req[r].err)
            /\ req[r].type = "clear" => AbsTable = EmptyTable /\ AbsDone(r) = Base(r)
            /\ req[r].type \in {"wait", "stop"} => AbsTable = table /\ AbsDone(r) = Base(r)

Views == QuietView /\ BusyView

LEMMA ViewsHold == IInv => Views
<1> SUFFICES ASSUME IInv PROVE Views
  OBVIOUS
<1>1. QuietView
  <2> SUFFICES ASSUME \A w \in Workers : wpc[w] # "handle"
               PROVE  AbsTable = table /\ \A r : AbsDone(r) = Base(r)
    BY DEF QuietView
  <2> QED BY DEF AbsTable, AbsDone, Handling, Base
<1>2. BusyView
  <2> SUFFICES ASSUME NEW w \in Workers, wpc[w] = "handle",
                      NEW r, r = wreq[w],
                      NEW put, put = A!PutBatch(table, Rest(w)),
                      NEW found, found = SubSeq(req[r].rec, 1, widx[w]) \o A!GetBatch(table, Rest(w))
               PROVE  /\ \A x : x # r => AbsDone(x) = Base(x)
                      /\ req[r].type = "insert" =>
                            AbsTable = put.table /\ AbsDone(r) = Answer(r, req[r].rec, put.err)
                      /\ req[r].type = "query" =>
                            AbsTable = table /\ AbsDone(r) = Answer(r, found, req[r].err)
                      /\ req[r].type = "clear" => AbsTable = EmptyTable /\ AbsDone(r) = Base(r)
                      /\ req[r].type \in {"wait", "stop"} => AbsTable = table /\ AbsDone(r) = Base(r)
    BY Zenon DEF BusyView
  <2>1. \A v \in Workers : wpc[v] = "handle" => v = w
    BY DEF IInv, SingleWorker, Active
  <2>2. \A type : (\E v \in Workers : Handling(v, type)) <=> req[r].type = type
    BY <2>1 DEF Handling
  <2>3. req[r].type = "insert" => (CHOOSE x \in Workers : Handling(x, "insert")) = w
    BY <2>1 DEF Handling
  <2>4. /\ req[r].type = "clear" => AbsTable = EmptyTable
        /\ req[r].type = "insert" => AbsTable = put.table
        /\ req[r].type \notin {"clear", "insert"} => AbsTable = table
    <3>1. /\ (\E v \in Workers : Handling(v, "clear")) <=> req[r].type = "clear"
          /\ (\E v \in Workers : Handling(v, "insert")) <=> req[r].type = "insert"
      BY <2>2
    <3> DEFINE x == CHOOSE v \in Workers : Handling(v, "insert")
    <3>2. AbsTable = IF req[r].type = "clear" THEN EmptyTable
                     ELSE IF req[r].type = "insert" THEN A!PutBatch(table, Rest(x)).table
                     ELSE table
      BY <3>1, Zenon DEF AbsTable
    <3> HIDE DEF x
    <3>3. req[r].type = "insert" => x = w
      BY <2>3 DEF x
    <3> QED BY <3>2, <3>3
  <2>5. \A x : (\E v \in Workers : wreq[v] = x /\ wpc[v] = "handle") <=> x = r
    BY <2>1
  <2>6. (CHOOSE x \in Workers : wreq[x] = r /\ wpc[x] = "handle") = w
    BY <2>1
  <2>7. \A x : x # r => AbsDone(x) = Base(x)
    BY <2>5 DEF AbsDone, Base
  <2>8. AbsDone(r) = CASE req[r].type = "insert" -> Answer(r, req[r].rec, put.err)
                       [] req[r].type = "query" -> Answer(r, found, req[r].err)
                       [] OTHER -> Base(r)
    <3>1. AbsDone(r) = CASE req[r].type = "insert" -> [Base(r) EXCEPT !.err = put.err]
                       [] req[r].type = "query" -> [Base(r) EXCEPT !.rec = SubSeq(@, 1, widx[w]) \o A!GetBatch(table, Rest(w))]
                       [] OTHER -> Base(r)
      BY <2>5, <2>6, Zenon DEF AbsDone, Base
    <3> QED BY <3>1 DEF Base, Answer
  <2> QED BY <2>4, <2>7, <2>8
<1> QED BY <1>1, <1>2 DEF Views

LEMMA ViewsNext == IInv' => Views'
  BY ViewsHold, PTL

(* A step that leaves the batch in progress alone. *)
LEMMA Frame ==
    ASSUME Views, Views', table' = table,
           \A w \in Workers : wpc'[w] = "handle" <=> wpc[w] = "handle",
           \A w \in Workers : wpc[w] = "handle" =>
              wreq'[w] = wreq[w] /\ widx'[w] = widx[w] /\ req'[wreq[w]] = req[wreq[w]],
           \A w \in Workers : wpc[w] = "handle" => req[wreq[w]].type \in Types
    PROVE  AbsTable' = AbsTable /\ \A r : req'[r] = req[r] => AbsDone(r)' = AbsDone(r)
<1>1. CASE \A w \in Workers : wpc[w] # "handle"
  <2>1. AbsTable = table /\ \A r : AbsDone(r) = Base(r)
    BY <1>1 DEF Views, QuietView
  <2>2. AbsTable' = table' /\ \A r : AbsDone(r)' = Base(r)'
    BY <1>1 DEF Views, QuietView
  <2> QED BY <2>1, <2>2 DEF Base
<1>2. ASSUME NEW w \in Workers, wpc[w] = "handle", NEW q, q = wreq[w]
      PROVE  AbsTable' = AbsTable /\ \A r : req'[r] = req[r] => AbsDone(r)' = AbsDone(r)
  <2>0. q = wreq'[w] /\ wpc'[w] = "handle" /\ widx'[w] = widx[w] /\ req'[q] = req[q]
    BY <1>2
  <2>1. Rest(w)' = Rest(w) /\ Base(q)' = Base(q)
    BY <1>2, <2>0 DEF Rest, Base
  <2>2. \A x : x # q => AbsDone(x) = Base(x)
    BY <1>2, <2>0 DEF Views, BusyView
  <2>3. \A x : x # q => AbsDone(x)' = Base(x)'
    BY <1>2, <2>0 DEF Views, BusyView
  <2>4. AbsTable' = AbsTable /\ AbsDone(q)' = AbsDone(q)
    <3>1. CASE req[q].type = "insert"
      <4>1. /\ AbsTable = A!PutBatch(table, Rest(w)).table
            /\ AbsDone(q) = Answer(q, req[q].rec, A!PutBatch(table, Rest(w)).err)
        BY <1>2, <2>0, <3>1 DEF Views, BusyView
      <4>2. /\ AbsTable' = A!PutBatch(table, Rest(w)).table'
            /\ AbsDone(q)' = Answer(q, req[q].rec, A!PutBatch(table, Rest(w)).err)'
        BY <1>2, <2>0, <3>1 DEF Views, BusyView
      <4> QED BY <4>1, <4>2, <2>0, <2>1 DEF Answer
    <3>2. CASE req[q].type = "query"
      <4> DEFINE found == SubSeq(req[q].rec, 1, widx[w]) \o A!GetBatch(table, Rest(w))
      <4>1. /\ AbsTable = table
            /\ AbsDone(q) = Answer(q, found, req[q].err)
        BY <1>2, <2>0, <3>2 DEF Views, BusyView
      <4>2. /\ AbsTable' = table'
            /\ AbsDone(q)' = Answer(q, found, req[q].err)'
        BY <1>2, <2>0, <3>2 DEF Views, BusyView
      <4>3. found' = found
        BY <2>0, <2>1
      <4> HIDE DEF found
      <4> QED BY <4>1, <4>2, <4>3, <2>1, <2>0 DEF Answer
    <3>3. CASE req[q].type \notin {"insert", "query"}
      <4>0. req[q].type \in {"clear", "wait", "stop"}
        BY <3>3, <1>2 DEF Types
      <4>1. /\ AbsTable = IF req[q].type = "clear" THEN EmptyTable ELSE table
            /\ AbsDone(q) = Base(q)
        BY <1>2, <2>0, <4>0 DEF Views, BusyView
      <4>2. /\ AbsTable' = IF req[q].type = "clear" THEN EmptyTable ELSE table
            /\ AbsDone(q)' = Base(q)'
        BY <1>2, <2>0, <4>0 DEF Views, BusyView
      <4> QED BY <4>1, <4>2, <2>1
    <3> QED BY <3>1, <3>2, <3>3
  <2> QED BY <2>2, <2>3, <2>4 DEF Base
<1> QED BY <1>1, <1>2

(* The operations of all threads, before and after a step. *)
LEMMA OpIs == AbsOp = [t \in Threads |-> View(t)]
  BY DEF AbsOp, View

LEMMA OpNext == AbsOp' = [t \in Threads |-> View(t)']
  BY DEF AbsOp, View

LEMMA Stutters ==
    ASSUME AbsTable' = AbsTable, \A t \in Threads : View(t)' = View(t)
    PROVE  UNCHANGED Abs!vars
  BY OpIs, OpNext DEF Abs!vars

LEMMA OneChanges ==
    ASSUME NEW t \in Threads, \A u \in Threads : u # t => View(u)' = View(u)
    PROVE  /\ AbsOp[t] = View(t)
           /\ \A x : View(t)' = x => AbsOp' = [AbsOp EXCEPT ![t] = x]
  BY OpIs, OpNext

(* What a thread sees of its request x. *)
LEMMA ViewIs ==
    ASSUME NEW t, NEW x, x # NoReq
    PROVE  /\ sub[t] = x => View(t) = IF phase[x] = "queued" THEN A!Pending(req[x].type, req[x].rec)
                                      ELSE AbsDone(x)
           /\ sub'[t] = x => View(t)' = IF phase'[x] = "queued" THEN A!Pending(req'[x].type, req'[x].rec)
                                        ELSE AbsDone(x)'
  BY DEF View

LEMMA ViewKept ==
    ASSUME NEW t, NEW x, x = sub[t], sub'[t] = x,
           x # NoReq => /\ phase'[x] = "queued" <=> phase[x] = "queued"
                        /\ phase[x] = "queued" => req'[x] = req[x]
                        /\ phase[x] # "queued" => AbsDone(x)' = AbsDone(x)
    PROVE  View(t)' = View(t)
<1>1. CASE x = NoReq
  BY <1>1 DEF View, A!NoOp
<1>2. CASE x # NoReq
  BY <1>2, ViewIs
<1> QED BY <1>1, <1>2

(* What a step that leaves the batch in progress alone needs to know. *)
LEMMA BusyFacts ==
    ASSUME IInv
    PROVE  \A w \in Workers : wpc[w] = "handle" =>
              /\ wreq[w] \in Reqs /\ phase[wreq[w]] = "taken" /\ req[wreq[w]].type \in Types
              /\ \A v \in Workers : v # w => wpc[v] = "out"
  BY DEF IInv, HeapInv, NoUseAfterFree, WorkerHolds, TypeOK, Requests, SingleWorker, Active

(* A request becomes queued, and one thread may call it its own. *)
LEMMA EnqueueView ==
    ASSUME IInv, IInv', NEW r \in Reqs, NEW type, NEW rec, Enqueue(r, type, rec),
           UNCHANGED <<table, workerVars>>
    PROVE  /\ AbsTable' = AbsTable
           /\ \A t \in Threads : sub'[t] = sub[t] => View(t)' = View(t)
           /\ \A t \in Threads : sub'[t] = r => View(t)' = A!Pending(type, rec)
<1>1. Views /\ Views'
  BY ViewsHold, ViewsNext
<1>2. /\ \A x \in Reqs : phase'[x] = IF x = r THEN "queued" ELSE phase[x]
      /\ \A x \in Reqs : x # r => req'[x] = req[x]
      /\ phase[r] = "free" /\ \A t \in Threads : sub[t] # r
  BY EnqueueFacts DEF IInv
<1>3. req'[r].type = type /\ req'[r].rec = rec
  BY DEF Enqueue, NewRequest, IInv, TypeOK
<1>4. AbsTable' = AbsTable /\ \A x : req'[x] = req[x] => AbsDone(x)' = AbsDone(x)
  BY <1>1, <1>2, Frame, BusyFacts DEF workerVars
<1>5. ASSUME NEW t \in Threads, sub'[t] = sub[t] PROVE View(t)' = View(t)
  <2>1. PICK x : x = sub[t]
    OBVIOUS
  <2>2. x # NoReq => phase'[x] = phase[x] /\ req'[x] = req[x] /\ AbsDone(x)' = AbsDone(x)
    BY <1>2, <1>4, <2>1 DEF IInv, TypeOK
  <2> QED BY <1>5, <2>1, <2>2, ViewKept
<1>6. ASSUME NEW t \in Threads, sub'[t] = r PROVE View(t)' = A!Pending(type, rec)
  BY <1>2, <1>3, <1>6, ShardAssumption DEF View
<1> QED BY <1>4, <1>5, <1>6

(* A request that has been handled is freed by its owner. *)
LEMMA FreeView ==
    ASSUME IInv, IInv', NEW r \in Reqs, Free(r), phase[r] = "handled",
           UNCHANGED <<table, workerVars>>
    PROVE  /\ AbsTable' = AbsTable
           /\ \A t \in Threads : sub'[t] = sub[t] /\ sub[t] # r => View(t)' = View(t)
<1>1. Views /\ Views'
  BY ViewsHold, ViewsNext
<1>2. /\ \A x \in Reqs : phase'[x] = IF x = r THEN "free" ELSE phase[x]
      /\ \A x \in Reqs : x # r => req'[x] = req[x]
  BY FreeFacts DEF IInv
<1>4. AbsTable' = AbsTable /\ \A x : req'[x] = req[x] => AbsDone(x)' = AbsDone(x)
  BY <1>1, <1>2, Frame, BusyFacts DEF workerVars
<1>5. ASSUME NEW t \in Threads, sub'[t] = sub[t], sub[t] # r PROVE View(t)' = View(t)
  <2>1. PICK x : x = sub[t]
    OBVIOUS
  <2>2. x # NoReq => phase'[x] = phase[x] /\ req'[x] = req[x] /\ AbsDone(x)' = AbsDone(x)
    BY <1>2, <1>4, <1>5, <2>1 DEF IInv, TypeOK
  <2> QED BY <1>5, <2>1, <2>2, ViewKept
<1> QED BY <1>4, <1>5

(* A step that touches neither requests nor table, and no batch. *)
LEMMA ControlView ==
    ASSUME IInv, IInv', UNCHANGED <<table, req, phase, sub, wreq, widx>>,
           \A w \in Workers : wpc'[w] = "handle" <=> wpc[w] = "handle"
    PROVE  UNCHANGED Abs!vars
<1>1. Views /\ Views'
  BY ViewsHold, ViewsNext
<1>2. AbsTable' = AbsTable /\ \A x : req'[x] = req[x] => AbsDone(x)' = AbsDone(x)
  BY <1>1, Frame, BusyFacts
<1>3. ASSUME NEW t \in Threads PROVE View(t)' = View(t)
  <2>1. PICK x : x = sub[t]
    OBVIOUS
  <2> QED BY <1>2, <2>1, ViewKept
<1> QED BY <1>2, <1>3, Stutters

LEMMA SubmitRefines ==
    ASSUME IInv, IInv', NEW t \in Threads, NEW type, NEW rec, Submit(t, type, rec)
    PROVE  /\ AbsTable' = AbsTable /\ AbsOp[t] = Abs!NoOp
           /\ AbsOp' = [AbsOp EXCEPT ![t] = Abs!Pending(type, rec)]
<1>1. PICK r \in Reqs : Enqueue(r, type, rec) /\ sub' = [sub EXCEPT ![t] = r]
  BY DEF Submit
<1>2. UNCHANGED <<table, workerVars>> /\ sub'[t] = r /\ \A u \in Threads : u # t => sub'[u] = sub[u]
  BY <1>1 DEF Submit, IInv, TypeOK
<1>3. /\ AbsTable' = AbsTable
      /\ \A u \in Threads : u # t => View(u)' = View(u)
      /\ View(t)' = A!Pending(type, rec)
  BY <1>1, <1>2, EnqueueView
<1>4. sub[t] = NoReq
  <2>1. sub[t] \notin Reqs
    BY DEF Submit, IInv, OwnerInv
  <2>2. sub[t] \in Reqs \cup {NoReq}
    BY DEF IInv, TypeOK
  <2> QED BY <2>1, <2>2
<1>5. View(t) = A!NoOp
  BY <1>4 DEF View
<1> QED BY <1>3, <1>5, OneChanges, SameBatch

LEMMA CallRefines ==
    ASSUME IInv, IInv', NEW t \in Threads, CallerCall(t)
    PROVE  [Abs!Next]_(Abs!vars)
<1>1. ASSUME NEW b \in Batches, NEW v \in Vals, shard_insert(t, b, v) PROVE Abs!Invoke(t)
  <2>1. Submit(t, "insert", Records(b, v))
    BY <1>1 DEF shard_insert
  <2> QED BY <2>1, SubmitRefines, SerialConstants DEF Abs!Invoke
<1>2. ASSUME NEW b \in Batches, shard_query(t, b) PROVE Abs!Invoke(t)
  <2>1. Submit(t, "query", Records(b, Absent))
    BY <1>2 DEF shard_query
  <2> QED BY <2>1, SubmitRefines, SerialConstants DEF Abs!Invoke
<1>3. CASE shard_clear(t)
  <2>1. Submit(t, "clear", << >>)
    BY <1>3 DEF shard_clear
  <2>2. Abs!Invoke(t)
    BY <2>1, SubmitRefines, SerialConstants DEF Abs!Invoke
  <2> QED BY <2>2 DEF Abs!Next
<1>4. CASE shard_stop(t) \/ shard_destroy(t)
  <2>1. UNCHANGED <<table, req, phase, sub, wpc, wreq, widx>>
    BY <1>4 DEF shard_stop, shard_destroy, heapVars, workerVars
  <2> QED BY <2>1, ControlView
<1>5. CASE shard_create(t)
  <2>1. /\ table' = EmptyTable /\ UNCHANGED <<requests, req, phase, sub, wpc, wreq, widx>>
        /\ life = "dead"
    BY <1>5 DEF shard_create, heapVars, callerVars, workerVars
  <2>2. \A w \in Workers : wpc[w] # "handle"
    BY <2>1 DEF IInv, LifeInv
  <2>3. \A r \in Reqs : phase[r] # "queued"
    BY <2>1 DEF IInv, BatchInv, HeapInv
  <2>4. /\ AbsTable' = EmptyTable /\ \A r : AbsDone(r)' = AbsDone(r)
        /\ \A r : AbsDone(r) = Base(r)
    <3>1. Views /\ Views'
      BY ViewsHold, ViewsNext
    <3>2. /\ AbsTable' = table' /\ \A r : AbsDone(r)' = Base(r)'
          /\ \A r : AbsDone(r) = Base(r)
      BY <2>1, <2>2, <3>1 DEF Views, QuietView
    <3>3. \A r : Base(r)' = Base(r)
      BY <2>1 DEF Base
    <3> QED BY <2>1, <3>2, <3>3
  <2>5. ASSUME NEW u \in Threads PROVE View(u)' = View(u) /\ View(u).st # "pending"
    <3>1. PICK x : x = sub[u]
      OBVIOUS
    <3>2. View(u)' = View(u)
      BY <2>1, <2>4, <3>1, ViewKept
    <3>3. CASE x = NoReq
      BY <3>1, <3>2, <3>3 DEF View, A!NoOp
    <3>4. CASE x # NoReq
      <4>1. x \in Reqs
        BY <3>1, <3>4 DEF IInv, TypeOK
      <4>2. View(u) = Base(x)
        BY <2>3, <2>4, <3>1, <3>4, <4>1, ViewIs
      <4> QED BY <3>2, <4>2 DEF Base
    <3> QED BY <3>3, <3>4
  <2>6. AbsOp' = AbsOp /\ \A u \in Threads : AbsOp[u].st # "pending"
    BY <2>5, OpIs, OpNext
  <2>7. Abs!Reset
    BY <2>4, <2>6, SerialConstants DEF Abs!Reset
  <2> QED BY <2>7 DEF Abs!Next
<1> QED BY <1>1, <1>2, <1>3, <1>4, <1>5 DEF CallerCall, Abs!Next

(* How Serve of the serial shard writes an operation that is done. *)
Done(type, rec, err) == [st |-> "done", type |-> type, rec |-> rec, err |-> err]

LEMMA PendingIs ==
    ASSUME NEW type, NEW rec
    PROVE  /\ A!Pending(type, rec).st = "pending" /\ A!Pending(type, rec).type = type
           /\ A!Pending(type, rec).rec = rec
  BY DEF A!Pending

(* A pending operation is done, with an error or with other records. *)
LEMMA DoneAsIs ==
    ASSUME NEW u \in Threads, NEW type, NEW rec, AbsOp[u] = A!Pending(type, rec)
    PROVE  [AbsOp EXCEPT ![u].st = "done"] = [AbsOp EXCEPT ![u] = Done(type, rec, "SUCCESS")]
<1>1. [AbsOp[u] EXCEPT !.st = "done"] = Done(type, rec, "SUCCESS")
  BY DEF A!Pending, Done
<1> QED BY <1>1, OpIs

SetOp(u, d) == [AbsOp EXCEPT ![u] = d]
WithError(u, x) == [AbsOp EXCEPT ![u].st = "done", ![u].err = x]
WithRecords(u, x) == [AbsOp EXCEPT ![u].st = "done", ![u].rec = x]

LEMMA DoneWithError ==
    ASSUME NEW u \in Threads, NEW type, NEW rec, NEW x, AbsOp[u] = A!Pending(type, rec)
    PROVE  WithError(u, x) = SetOp(u, Done(type, rec, x))
<1> DEFINE p == A!Pending(type, rec)
           q == [p EXCEPT !.st = "done"]
<1>1. q = [st |-> "done", type |-> type, rec |-> rec, err |-> "SUCCESS"]
  BY DEF A!Pending
<1>2. [p EXCEPT !.st = "done", !.err = x] = [q EXCEPT !.err = x]
  BY DEF A!Pending
<1>3. [q EXCEPT !.err = x] = Done(type, rec, x)
  <2> HIDE DEF q
  <2> QED BY <1>1 DEF Done
<1>4. WithError(u, x) =
        [AbsOp EXCEPT ![u] = [AbsOp[u] EXCEPT !.st = "done", !.err = x]]
  BY OpIs DEF WithError
<1> QED BY <1>2, <1>3, <1>4 DEF SetOp

LEMMA DoneWithRecords ==
    ASSUME NEW u \in Threads, NEW type, NEW rec, NEW x, AbsOp[u] = A!Pending(type, rec)
    PROVE  WithRecords(u, x) = SetOp(u, Done(type, x, "SUCCESS"))
<1> DEFINE p == A!Pending(type, rec)
           q == [p EXCEPT !.st = "done"]
<1>1. q = [st |-> "done", type |-> type, rec |-> rec, err |-> "SUCCESS"]
  BY DEF A!Pending
<1>2. [p EXCEPT !.st = "done", !.rec = x] = [q EXCEPT !.rec = x]
  BY DEF A!Pending
<1>3. [q EXCEPT !.rec = x] = Done(type, x, "SUCCESS")
  <2> HIDE DEF q
  <2> QED BY <1>1 DEF Done
<1>4. WithRecords(u, x) =
        [AbsOp EXCEPT ![u] = [AbsOp[u] EXCEPT !.st = "done", !.rec = x]]
  BY OpIs DEF WithRecords
<1> QED BY <1>2, <1>3, <1>4 DEF SetOp

LEMMA CallerStepRefines ==
    ASSUME IInv, IInv', NEW t \in Threads, CallerStep(t)
    PROVE  [Abs!Next]_(Abs!vars)
<1>1. ASSUME NEW type, \E r \in Reqs : Enqueue(r, type, << >>), UNCHANGED <<table, sub, workerVars>>
      PROVE  UNCHANGED Abs!vars
  BY <1>1, EnqueueView, Stutters
<1>2. CASE shard_wait(t)
  BY <1>1, <1>2 DEF shard_wait
<1>3. CASE shard_stop_enqueue(t)
  BY <1>1, <1>3 DEF shard_stop_enqueue
<1>4. ASSUME wtr[t] \in Reqs, req[wtr[t]].done, Free(wtr[t]), UNCHANGED <<table, sub, workerVars>>
      PROVE  UNCHANGED Abs!vars
  <2>1. phase[wtr[t]] = "handled"
    BY <1>4 DEF IInv, HeapInv
  <2>2. \A u \in Threads : sub[u] # wtr[t]
    BY <1>4 DEF IInv, OwnerInv
  <2> QED BY <1>4, <2>1, <2>2, FreeView, Stutters
<1>5. CASE shard_wait_return(t)
  <2>1. wtr[t] \in Reqs
    BY <1>5 DEF shard_wait_return, IInv, OwnerInv
  <2> QED BY <1>4, <1>5, <2>1 DEF shard_wait_return, shardVars
<1>6. CASE shard_stop_return(t)
  <2>1. wtr[t] \in Reqs
    BY <1>6 DEF shard_stop_return, IInv, OwnerInv
  <2> QED BY <1>4, <1>6, <2>1 DEF shard_stop_return, shardVars
<1>7. CASE shard_request_destroy(t)
  <2>1. PICK r : r = sub[t]
    OBVIOUS
  <2>2. /\ r \in Reqs /\ phase[r] = "handled" /\ Free(r) /\ sub' = [sub EXCEPT ![t] = NoReq]
        /\ UNCHANGED <<table, workerVars>>
    BY <1>7, <2>1 DEF shard_request_destroy, shardVars, IInv, OwnerInv, OrderInv
  <2>3. \A u \in Threads : u # t => sub'[u] = sub[u] /\ sub[u] # r
    BY <2>1, <2>2 DEF IInv, OwnerInv, TypeOK
  <2>4. AbsTable' = AbsTable /\ \A u \in Threads : u # t => View(u)' = View(u)
    BY <2>2, <2>3, FreeView
  <2>5. View(t)' = A!NoOp
    BY <2>2 DEF View, IInv, TypeOK, A!NoOp
  <2>6. AbsDone(r) = Base(r)
    <3>1. \A w \in Workers : wpc[w] = "handle" => wreq[w] # r
      BY <2>2, BusyFacts
    <3> QED BY <3>1, ViewsHold DEF Views, QuietView, BusyView
  <2>7. View(t) = Base(r)
    BY <2>1, <2>2, <2>6, ViewIs, ShardAssumption
  <2>8. AbsOp[t].st = "done" /\ AbsOp' = [AbsOp EXCEPT ![t] = Abs!NoOp]
    BY <2>4, <2>5, <2>7, OneChanges, SameBatch DEF Base
  <2>9. Abs!Return(t)
    BY <2>4, <2>8 DEF Abs!Return
  <2> QED BY <2>9 DEF Abs!Next
<1>8. CASE shard_destroy_drain(t)
  <2>1. PICK r : r = requests[1]
    OBVIOUS
  <2>2. /\ requests # << >> /\ r \in Reqs /\ Head(requests) = r /\ phase[r] = "queued"
    BY <1>8, <2>1, TakeFacts DEF shard_destroy_drain, IInv, TypeOK, HeapInv, NoUseAfterFree
  <2>3. /\ \A x \in Reqs : x # r => phase'[x] = phase[x] /\ req'[x] = req[x]
        /\ phase'[r] = "handled" /\ req'[r].type = req[r].type /\ req'[r].rec = req[r].rec
        /\ req'[r].err = "DESTROYING"
        /\ UNCHANGED <<table, sub, wpc, wreq, widx>>
    BY <1>8, <2>2, WaiterBool DEF shard_destroy_drain, callerVars, workerVars, IInv, TypeOK, Requests
  <2>4. \A w \in Workers : wpc[w] # "handle"
    BY <1>8 DEF shard_destroy_drain, IInv, LifeInv
  <2>5. Views /\ Views'
    BY ViewsHold, ViewsNext
  <2>6. /\ AbsTable = table /\ AbsTable' = table'
        /\ \A x : AbsDone(x) = Base(x) /\ AbsDone(x)' = Base(x)'
    BY <2>3, <2>4, <2>5 DEF Views, QuietView
  <2>7. ASSUME NEW u \in Threads, sub[u] # r PROVE View(u)' = View(u)
    <3>1. PICK x : x = sub[u]
      OBVIOUS
    <3>2. x # NoReq => phase'[x] = phase[x] /\ req'[x] = req[x]
      BY <2>3, <2>7, <3>1 DEF IInv, TypeOK
    <3>3. x # NoReq => AbsDone(x)' = AbsDone(x)
      BY <2>6, <3>2 DEF Base
    <3>4. sub'[u] = x
      BY <2>3, <3>1
    <3> QED BY <3>1, <3>2, <3>3, <3>4, ViewKept
  <2>8. CASE \A u \in Threads : sub[u] # r
    BY <2>3, <2>6, <2>7, <2>8, Stutters
  <2>9. ASSUME NEW u \in Threads, sub[u] = r PROVE Abs!Fail(u)
    <3>1. \A v \in Threads : v # u => View(v)' = View(v)
      BY <2>2, <2>7, <2>9 DEF IInv, OwnerInv
    <3>2. r # NoReq /\ sub'[u] = r
      BY <2>2, <2>3, <2>9, ShardAssumption
    <3>3. View(u) = A!Pending(req[r].type, req[r].rec)
      BY <2>2, <2>9, <3>2, ViewIs
    <3>4. View(u)' = Base(r)'
      BY <2>3, <2>6, <3>2, ViewIs
    <3>5. /\ AbsOp[u] = A!Pending(req[r].type, req[r].rec)
          /\ AbsOp' = [AbsOp EXCEPT ![u] = Base(r)']
      BY <3>1, <3>3, <3>4, OneChanges
    <3>6. Base(r)' = Done(req[r].type, req[r].rec, "DESTROYING")
      BY <2>3 DEF Base, Done
    <3>7. AbsOp' = WithError(u, "DESTROYING")
      BY <3>5, <3>6, DoneWithError DEF SetOp
    <3>8. AbsOp[u].st = "pending"
      BY <3>5 DEF A!Pending
    <3> QED BY <2>3, <2>6, <3>7, <3>8 DEF Abs!Fail, WithError
  <2> QED BY <2>8, <2>9 DEF Abs!Next
<1>9. CASE shard_destroy_free(t)
  <2>1. UNCHANGED <<table, req, phase, sub, wpc, wreq, widx>>
    BY <1>9 DEF shard_destroy_free, heapVars, workerVars
  <2> QED BY <2>1, ControlView
<1> QED BY <1>2, <1>3, <1>5, <1>6, <1>7, <1>8, <1>9 DEF CallerStep

(* The records of a query of which m are answered and the rest is to come,  *)
(* as the refinement mapping puts them together, and one by one.            *)
Found(s, m, n, tb) == SubSeq(s, 1, m) \o A!GetBatch(tb, SubSeq(s, m + 1, n))
Looked(s, m, n, tb) ==
    [j \in 1 .. n |-> IF j <= m THEN s[j] ELSE [s[j] EXCEPT !.val = tb[s[j].key]]]

LEMMA FoundIs ==
    ASSUME NEW s \in Seq(Record), NEW m \in 0 .. Len(s), NEW tb \in [Keys -> Vals \cup {Absent}],
           NEW n, n = Len(s)
    PROVE  Found(s, m, n, tb) = Looked(s, m, n, tb)
<1> DEFINE a == SubSeq(s, 1, m)
           b == SubSeq(s, m + 1, n)
           g == A!GetBatch(tb, b)
           e(j) == [s[j] EXCEPT !.val = tb[s[j].key]]
<1>1. n \in Nat /\ m \in Nat /\ m <= n /\ \A j \in 1 .. n : s[j] \in Record
  OBVIOUS
<1>2. a \in Seq(Record) /\ Len(a) = m /\ \A j \in 1 .. m : a[j] = s[j]
  BY <1>1, SubSeqProperties
<1>3. b \in Seq(Record) /\ Len(b) = n - m /\ \A j \in 1 .. n - m : b[j] = s[m + j]
  <2>1. m + 1 \in Int /\ n \in Int /\ \A j \in m + 1 .. n : s[j] \in Record
    BY <1>1
  <2>2. /\ b \in Seq(Record) /\ Len(b) = IF m + 1 <= n THEN n - (m + 1) + 1 ELSE 0
        /\ \A j \in 1 .. n - (m + 1) + 1 : b[j] = s[m + 1 + j - 1]
    BY <2>1, SubSeqProperties
  <2> HIDE DEF b
  <2> QED BY <1>1, <2>2
<1> HIDE DEF a, b
<1>4. \A j \in 1 .. n : e(j) \in Record
  BY <1>1 DEF Record
<1>5. g = [j \in 1 .. n - m |-> e(m + j)]
  <2>1. DOMAIN b = 1 .. n - m
    BY <1>1, <1>3
  <2>2. g = [j \in 1 .. n - m |-> [b[j] EXCEPT !.val = tb[b[j].key]]]
    BY <2>1 DEF A!GetBatch
  <2> QED BY <2>2, <1>3
<1> HIDE DEF e, g
<1>6. g \in Seq(Record) /\ Len(g) = n - m /\ \A j \in 1 .. n - m : g[j] = e(m + j)
  <2>1. g \in [1 .. n - m -> Record] /\ n - m \in Nat
    BY <1>1, <1>4, <1>5
  <2>2. g \in Seq(Record) /\ Len(g) = n - m
    BY <2>1
  <2> QED BY <1>5, <2>2
<1>7. /\ a \o g \in Seq(Record) /\ Len(a \o g) = n
      /\ \A j \in 1 .. n : (a \o g)[j] = IF j <= m THEN a[j] ELSE g[j - m]
  BY <1>1, <1>2, <1>6, ConcatProperties
<1>8. \A j \in 1 .. n : (a \o g)[j] = IF j <= m THEN s[j] ELSE e(j)
  BY <1>1, <1>2, <1>6, <1>7
<1>9. a \o g = [j \in 1 .. n |-> (a \o g)[j]]
  <2>1. \A z \in Seq(Record) : z = [j \in 1 .. Len(z) |-> z[j]]
    OBVIOUS
  <2> QED BY <1>7, <2>1
<1>10. a \o g = [j \in 1 .. n |-> IF j <= m THEN s[j] ELSE e(j)]
  BY <1>8, <1>9
<1> QED BY <1>10 DEF a, b, g, e, Found, Looked

LEMMA NextRequestRefines ==
    ASSUME IInv, IInv', NEW w \in Workers, shard_next_request(w)
    PROVE  [Abs!Next]_(Abs!vars)
<1>1. PICK r : r = requests[1]
  OBVIOUS
<1>2. /\ requests # << >> /\ r \in Reqs /\ Head(requests) = r /\ phase[r] = "queued"
  BY <1>1, TakeFacts DEF shard_next_request, IInv, TypeOK, HeapInv, NoUseAfterFree
<1>3. /\ UNCHANGED <<table, req, sub, widx>> /\ wpc[w] = "loop"
      /\ \A x \in Reqs : phase'[x] = IF x = r THEN "taken" ELSE phase[x]
      /\ wreq'[w] = r /\ wpc'[w] = "handle"
  BY <1>2 DEF shard_next_request, callerVars, IInv, TypeOK
<1>4. \A v \in Workers : wpc[v] # "handle"
  BY <1>3 DEF IInv, SingleWorker, Active
<1>5. req[r] \in Requests /\ req[r].rec \in Seq(Record) /\ req[r].err = "SUCCESS" /\ widx'[w] = 0
  BY <1>2, <1>3 DEF IInv, TypeOK, BatchInv, Requests, RecSeqs
<1>6. Rest(w)' = req[r].rec
  BY <1>3, <1>5, SubSeqFull DEF Rest
<1>7. Views /\ Views'
  BY ViewsHold, ViewsNext
<1>8. AbsTable = table /\ \A x : AbsDone(x) = Base(x)
  BY <1>4, <1>7 DEF Views, QuietView
<1>9. \A x : Base(x)' = Base(x)
  BY <1>3 DEF Base
<1>10. \A x : x # r => AbsDone(x)' = AbsDone(x)
  <2>1. \A x : x # r => AbsDone(x)' = Base(x)'
    BY <1>3, <1>7 DEF Views, BusyView
  <2> QED BY <1>8, <1>9, <2>1
<1>11. ASSUME NEW u \in Threads, sub[u] # r PROVE View(u)' = View(u)
  <2>1. PICK x : x = sub[u]
    OBVIOUS
  <2>2. x # NoReq => x \in Reqs /\ x # r
    BY <1>11, <2>1 DEF IInv, TypeOK
  <2> QED BY <1>3, <1>10, <2>1, <2>2, ViewKept
<1>12. CASE \A u \in Threads : sub[u] # r
  <2>1. PICK t \in Threads : r \in {sub[t], wtr[t]}
    BY <1>2 DEF IInv, OwnerInv
  <2>2. wtr[t] = r /\ pc[t] \in {"waiting", "stopping"}
    BY <1>2, <1>12, <2>1 DEF IInv, OwnerInv
  <2>3. req[r].type \in {"wait", "stop"}
    BY <2>2 DEF IInv, KindInv
  <2>4. AbsTable' = table'
    BY <1>3, <1>7, <2>3 DEF Views, BusyView
  <2> QED BY <1>3, <1>8, <1>11, <1>12, <2>4, Stutters
<1>13. ASSUME NEW u \in Threads, sub[u] = r PROVE Abs!Apply(u)
  <2>1. \A v \in Threads : v # u => View(v)' = View(v)
    BY <1>2, <1>11, <1>13 DEF IInv, OwnerInv
  <2>2. r # NoReq /\ sub'[u] = r
    BY <1>2, <1>3, <1>13, ShardAssumption
  <2>3. PICK type, rec : type = req[r].type /\ rec = req[r].rec
    OBVIOUS
  <2>4. AbsOp[u] = A!Pending(type, rec)
    BY <1>2, <1>13, <2>1, <2>2, <2>3, ViewIs, OneChanges
  <2>5. View(u)' = AbsDone(r)'
    BY <1>2, <1>3, <2>2, ViewIs
  <2>6. type \in {"insert", "query", "clear"}
    BY <1>2, <1>13, <2>3 DEF IInv, KindInv
  <2>7. AbsOp[u].st = "pending" /\ AbsOp[u].type = type /\ AbsOp[u].rec = rec
    BY <2>4, PendingIs
  <2>8. CASE type = "insert"
    <3>0. PICK err : err = A!PutBatch(table, rec).err
      OBVIOUS
    <3>1. /\ AbsTable' = A!PutBatch(table, rec).table
          /\ AbsDone(r)' = Answer(r, req[r].rec, A!PutBatch(table, Rest(w)).err)'
      BY <1>3, <1>6, <1>7, <2>3, <2>8 DEF Views, BusyView
    <3>2. AbsDone(r)' = Done(type, rec, err)
      BY <3>0, <3>1, <1>3, <1>6, <2>3 DEF Answer, Done
    <3>3. AbsOp' = [AbsOp EXCEPT ![u] = Done(type, rec, err)]
      BY <2>1, <2>5, <3>2, OneChanges
    <3>4. WithError(u, err) = SetOp(u, Done(type, rec, err))
      BY <2>4, DoneWithError
    <3>5. AbsOp' = WithError(u, err)
      BY <3>3, <3>4 DEF SetOp
    <3> QED BY <1>8, <2>7, <2>8, <3>0, <3>1, <3>5, SameBatch DEF Abs!Apply, WithError
  <2>9. CASE type = "query"
    <3>0. PICK found : found = A!GetBatch(table, rec)
      OBVIOUS
    <3>1. /\ AbsTable' = table'
          /\ AbsDone(r)' = Answer(r, SubSeq(req[r].rec, 1, widx[w]) \o A!GetBatch(table, Rest(w)), req[r].err)'
      BY <1>3, <1>7, <2>3, <2>9 DEF Views, BusyView
    <3>2. (SubSeq(req[r].rec, 1, widx[w]) \o A!GetBatch(table, Rest(w)))' = A!GetBatch(table, rec)
      <4>1. SubSeq(rec, 1, 0) = << >>
        BY SubSeqEmpty
      <4>2. A!GetBatch(table, rec) \in Seq(Record)
        <5>1. rec \in Seq(Record) /\ DOMAIN rec = 1 .. Len(rec) /\ Len(rec) \in Nat
          BY <1>5, <2>3
        <5>2. \A i \in 1 .. Len(rec) : [rec[i] EXCEPT !.val = table[rec[i].key]] \in Record
          <6>1. table \in [Keys -> Vals \cup {Absent}] /\ \A i \in 1 .. Len(rec) : rec[i] \in Record
            BY <5>1 DEF IInv, TypeOK
          <6> QED BY <6>1 DEF Record
        <5>3. A!GetBatch(table, rec) \in [1 .. Len(rec) -> Record]
          BY <5>1, <5>2 DEF A!GetBatch
        <5> QED BY <5>1, <5>3
      <4>3. << >> \o A!GetBatch(table, rec) = A!GetBatch(table, rec)
        BY <4>2, ConcatEmptySeq
      <4> QED BY <1>3, <1>5, <1>6, <2>3, <4>1, <4>3
    <3>3. AbsDone(r)' = Done(type, found, "SUCCESS")
      BY <3>0, <3>1, <3>2, <1>3, <1>5, <2>3 DEF Answer, Done
    <3>4. AbsOp' = [AbsOp EXCEPT ![u] = Done(type, found, "SUCCESS")]
      BY <2>1, <2>5, <3>3, OneChanges
    <3>5. WithRecords(u, found) = SetOp(u, Done(type, found, "SUCCESS"))
      BY <2>4, DoneWithRecords
    <3>6. AbsOp' = WithRecords(u, found)
      BY <3>4, <3>5 DEF SetOp
    <3> QED BY <1>3, <1>8, <2>7, <2>9, <3>0, <3>1, <3>6, SameBatch DEF Abs!Apply, WithRecords
  <2>10. CASE type = "clear"
    <3>1. AbsTable' = EmptyTable /\ AbsDone(r)' = Base(r)'
      BY <1>3, <1>7, <2>3, <2>10 DEF Views, BusyView
    <3>2. AbsDone(r)' = Done(type, rec, "SUCCESS")
      BY <3>1, <1>3, <1>5, <2>3 DEF Base, Done
    <3>3. AbsOp' = [AbsOp EXCEPT ![u] = Done(type, rec, "SUCCESS")]
      BY <2>1, <2>5, <3>2, OneChanges
    <3>4. AbsOp' = [AbsOp EXCEPT ![u].st = "done"]
      BY <2>4, <3>3, DoneAsIs
    <3> QED BY <2>7, <2>10, <3>1, <3>4, SerialConstants DEF Abs!Apply
  <2> QED BY <2>6, <2>8, <2>9, <2>10
<1> QED BY <1>12, <1>13 DEF Abs!Next

(* In the middle of a batch nobody but its caller sees a difference: what    *)
(* every other request is, and which table the rest of the batch leaves.     *)
LEMMA HandleView ==
    ASSUME IInv, IInv', NEW w \in Workers, wpc[w] = "handle", NEW r, r = wreq[w],
           UNCHANGED <<sub, phase, wreq>>, \A x \in Reqs : x # r => req'[x] = req[x],
           wpc'[w] \in {"handle", "finish"},
           AbsTable' = AbsTable, AbsDone(r)' = AbsDone(r)
    PROVE  UNCHANGED Abs!vars
<1>1. r \in Reqs /\ phase[r] = "taken"
  BY BusyFacts
<1>2. Views /\ Views'
  BY ViewsHold, ViewsNext
<1>3. \A x \in Reqs : x # r => AbsDone(x) = Base(x)
  BY <1>2 DEF Views, BusyView
<1>4. \A x \in Reqs : x # r => AbsDone(x)' = Base(x)'
  <2>1. CASE wpc'[w] = "handle"
    BY <1>2, <2>1 DEF Views, BusyView
  <2>2. CASE wpc'[w] = "finish"
    <3>1. \A v \in Workers : wpc'[v] # "handle"
      BY <2>2 DEF IInv, SingleWorker, Active
    <3> QED BY <1>2, <3>1 DEF Views, QuietView
  <2> QED BY <2>1, <2>2
<1>5. \A x \in Reqs : AbsDone(x)' = AbsDone(x)
  BY <1>3, <1>4 DEF Base
<1>6. ASSUME NEW t \in Threads PROVE View(t)' = View(t)
  <2>1. PICK x : x = sub[t]
    OBVIOUS
  <2>2. x # NoReq => x \in Reqs
    BY <2>1 DEF IInv, TypeOK
  <2>3. phase[x] = "queued" => x # r
    BY <1>1
  <2> QED BY <1>5, <2>1, <2>2, <2>3, ViewKept
<1> QED BY <1>6, Stutters

(* Where the worker is in its batch. *)
LEMMA BatchFacts ==
    ASSUME IInv, NEW w \in Workers, wpc[w] = "handle", NEW r, r = wreq[w]
    PROVE  /\ r \in Reqs /\ req[r] \in Requests /\ req[r].rec \in Seq(Record) /\ req[r].type \in Types
           /\ widx[w] \in 0 .. Len(req[r].rec) /\ req[r].err = "SUCCESS"
           /\ table \in [Keys -> Vals \cup {Absent}]
<1>1. r \in Reqs
  BY BusyFacts
<1>2. req[r] \in Requests /\ widx[w] \in Nat /\ table \in [Keys -> Vals \cup {Absent}]
  BY <1>1 DEF IInv, TypeOK
<1>3. widx[w] <= Len(req[r].rec) /\ req[r].err = "SUCCESS"
  BY DEF IInv, BatchInv
<1>4. req[r].rec \in Seq(Record) /\ req[r].type \in Types
  BY <1>2 DEF Requests, RecSeqs
<1> QED BY <1>1, <1>2, <1>3, <1>4

LEMMA InsertRefines ==
    ASSUME IInv, IInv', NEW w \in Workers, handle_insert(w)
    PROVE  UNCHANGED Abs!vars
<1>1. PICK r : r = wreq[w]
  OBVIOUS
<1>2. wpc[w] = "handle" /\ req[r].type = "insert" /\ widx[w] < Len(req[r].rec)
  BY <1>1 DEF handle_insert
<1>3. PICK rec, n : rec = req[r].rec /\ n = widx[w]
  OBVIOUS
<1>4. r \in Reqs /\ req[r] \in Requests /\ rec \in Seq(Record) /\ n \in Nat /\ n < Len(rec)
      /\ req[r].err = "SUCCESS" /\ table \in [Keys -> Vals \cup {Absent}]
  BY <1>1, <1>2, <1>3, BatchFacts
<1>5. UNCHANGED <<sub, phase, wreq>>
  BY DEF handle_insert, callerVars
<1>6. Views /\ Views'
  BY ViewsHold, ViewsNext
<1>7. PICK rest : rest = SubSeq(rec, n + 1, Len(rec))
  OBVIOUS
<1>8. /\ rest \in Seq(Record) /\ rest # << >> /\ rest[1] = rec[n + 1]
      /\ Tail(rest) = SubSeq(rec, n + 2, Len(rec))
  <2>1. n + 1 \in 1 .. Len(rec) /\ Len(rec) \in n + 1 .. Len(rec)
    BY <1>4
  <2>2. Head(rest) = rec[n + 1] /\ Tail(rest) = SubSeq(rec, n + 1 + 1, Len(rec))
    BY <1>4, <1>7, <2>1, HeadTailOfSubSeq
  <2>3. \A i \in n + 1 .. Len(rec) : rec[i] \in Record
    BY <1>4
  <2>4. rest \in Seq(Record) /\ Len(rest) = Len(rec) - n
    <3>1. n + 1 \in Int /\ Len(rec) \in Int /\ n + 1 <= Len(rec)
      BY <1>4
    <3>2. rest \in Seq(Record) /\ Len(rest) = Len(rec) - (n + 1) + 1
      BY <1>7, <2>3, <3>1, SubSeqProperties
    <3> QED BY <1>4, <3>2
  <2>5. rest # << >>
    BY <1>4, <2>4
  <2>6. n + 1 + 1 = n + 2
    BY <1>4
  <2>7. Head(rest) = rest[1]
    BY <2>4, <2>5
  <2> QED BY <2>2, <2>4, <2>5, <2>6, <2>7
<1>9. Rest(w) = rest
  BY <1>1, <1>3, <1>7 DEF Rest
<1>10. /\ AbsTable = A!PutBatch(table, rest).table
       /\ AbsDone(r) = Answer(r, req[r].rec, A!PutBatch(table, rest).err)
  BY <1>1, <1>2, <1>6, <1>9 DEF Views, BusyView
<1>11. CASE Full(table)
  <2>1. req' = [req EXCEPT ![r].err = "TABLE_FULL"] /\ wpc' = [wpc EXCEPT ![w] = "finish"] /\ table' = table
    BY <1>1, <1>11 DEF handle_insert
  <2>2. wpc'[w] = "finish"
    BY <2>1 DEF IInv, TypeOK
  <2>3. /\ req'[r].err = "TABLE_FULL" /\ req'[r].type = req[r].type /\ req'[r].rec = req[r].rec
        /\ \A x \in Reqs : x # r => req'[x] = req[x]
    BY <1>4, <2>1 DEF IInv, TypeOK, Requests
  <2>4. A!PutBatch(table, rest) = [table |-> table, err |-> "TABLE_FULL"]
    BY <1>8, <1>11, PutBatchFull DEF RecSeqs
  <2>5. \A v \in Workers : wpc'[v] # "handle"
    BY <2>2 DEF IInv, SingleWorker, Active
  <2>6. AbsTable' = table' /\ AbsDone(r)' = Base(r)'
    BY <1>6, <2>5 DEF Views, QuietView
  <2>7. AbsTable' = AbsTable
    BY <1>10, <2>1, <2>4, <2>6
  <2>8. AbsDone(r)' = AbsDone(r)
    <3>1. AbsDone(r) = Done(req[r].type, req[r].rec, "TABLE_FULL")
      BY <1>10, <2>4 DEF Answer, Done
    <3>2. Base(r)' = Done(req[r].type, req[r].rec, "TABLE_FULL")
      BY <2>3 DEF Base, Done
    <3> QED BY <2>6, <3>1, <3>2
  <2> QED BY <1>1, <1>2, <1>5, <2>2, <2>3, <2>7, <2>8, HandleView
<1>12. CASE ~Full(table)
  <2>1. PICK e : e = rec[n + 1]
    OBVIOUS
  <2>2. /\ table' = [table EXCEPT ![e.key] = e.val] /\ widx' = [widx EXCEPT ![w] = widx[w] + 1]
        /\ UNCHANGED <<req, wpc>>
    BY <1>1, <1>3, <1>12, <2>1 DEF handle_insert
  <2>3. widx'[w] = n + 1
    BY <1>3, <2>2 DEF IInv, TypeOK
  <2>4. Rest(w)' = Tail(rest)
    <3>1. wreq'[w] = r /\ req'[r].rec = rec /\ widx'[w] + 1 = n + 2
      BY <1>1, <1>3, <1>4, <1>5, <2>2, <2>3
    <3> QED BY <3>1, <1>8 DEF Rest
  <2>5. PICK tb : tb = table
    OBVIOUS
  <2>6. A!PutBatch(tb, rest) = A!PutBatch(table', Tail(rest))
    <3>1. A!PutBatch(tb, rest) = A!PutBatch([tb EXCEPT ![rest[1].key] = rest[1].val], Tail(rest))
      BY <1>8, <1>12, <2>5, PutBatchStep DEF RecSeqs
    <3>2. table' = [tb EXCEPT ![rest[1].key] = rest[1].val]
      BY <1>8, <2>1, <2>2, <2>5
    <3> QED BY <3>1, <3>2
  <2>7. /\ AbsTable' = A!PutBatch(table', Rest(w)').table
        /\ AbsDone(r)' = Answer(r, req[r].rec, A!PutBatch(table, Rest(w)).err)'
    BY <1>1, <1>2, <1>5, <1>6, <2>2 DEF Views, BusyView
  <2>8. AbsDone(r)' = AbsDone(r)
    BY <1>10, <2>2, <2>4, <2>5, <2>6, <2>7 DEF Answer
  <2>9. AbsTable' = AbsTable
    BY <1>10, <2>4, <2>5, <2>6, <2>7
  <2> QED BY <1>1, <1>2, <1>5, <2>2, <2>8, <2>9, HandleView
<1> QED BY <1>11, <1>12

LEMMA QueryRefines ==
    ASSUME IInv, IInv', NEW w \in Workers, handle_query(w)
    PROVE  UNCHANGED Abs!vars
<1>1. PICK r : r = wreq[w]
  OBVIOUS
<1>2. wpc[w] = "handle" /\ req[r].type = "query" /\ widx[w] < Len(req[r].rec)
  BY <1>1 DEF handle_query
<1>3. PICK s, m, n, tb : s = req[r].rec /\ m = widx[w] /\ n = Len(s) /\ tb = table
  OBVIOUS
<1>4. r \in Reqs /\ req[r] \in Requests /\ s \in Seq(Record) /\ m \in 0 .. n - 1 /\ n \in Nat
      /\ tb \in [Keys -> Vals \cup {Absent}]
  BY <1>1, <1>2, <1>3, BatchFacts
<1>5. UNCHANGED <<sub, phase, wpc, wreq, table>>
  BY DEF handle_query, callerVars, shardVars
<1>6. Views /\ Views'
  BY ViewsHold, ViewsNext
<1>7. PICK e, z : e = [s[m + 1] EXCEPT !.val = tb[s[m + 1].key]] /\ z = [s EXCEPT ![m + 1] = e]
  OBVIOUS
<1>8. /\ s[m + 1] \in Record /\ e \in Record /\ z \in Seq(Record) /\ Len(z) = n
      /\ \A j \in 1 .. n : z[j] = IF j = m + 1 THEN e ELSE s[j]
  <2>1. m + 1 \in 1 .. Len(s) /\ s[m + 1] \in Record
    BY <1>3, <1>4
  <2>2. e \in Record
    BY <1>4, <1>7, <2>1 DEF Record
  <2>3. /\ z \in Seq(Record) /\ Len(z) = Len(s)
        /\ \A j \in 1 .. Len(s) : z[j] = IF j = m + 1 THEN e ELSE s[j]
    <3>1. s \in Seq(Record) /\ z = [s EXCEPT ![m + 1] = e]
      BY <1>4, <1>7
    <3> QED BY <2>1, <2>2, <3>1, ExceptSeq
  <2> QED BY <1>3, <2>1, <2>2, <2>3
<1>9. req'[r] = [req[r] EXCEPT !.rec = z]
  <2>1. req' = [req EXCEPT ![r] = [req[r] EXCEPT !.rec = z]]
    BY <1>1, <1>3, <1>7 DEF handle_query
  <2> QED BY <1>4, <2>1 DEF IInv, TypeOK
<1>10. /\ req'[r].rec = z /\ req'[r].type = "query" /\ req'[r].err = req[r].err
  BY <1>2, <1>4, <1>9 DEF Requests
<1>11. /\ \A x \in Reqs : x # r => req'[x] = req[x]
       /\ widx'[w] = m + 1
  BY <1>1, <1>3, <1>4 DEF handle_query, IInv, TypeOK
<1>12. Found(s, m, n, tb) = Looked(s, m, n, tb)
  BY <1>3, <1>4, FoundIs
<1>13. Found(z, m + 1, n, tb) = Looked(z, m + 1, n, tb)
  <2>1. m + 1 \in 0 .. Len(z)
    BY <1>4, <1>8
  <2> QED BY <1>4, <1>8, <2>1, FoundIs
<1>14. Looked(z, m + 1, n, tb) = Looked(s, m, n, tb)
  <2> SUFFICES ASSUME NEW j \in 1 .. n
               PROVE  (IF j <= m + 1 THEN z[j] ELSE [z[j] EXCEPT !.val = tb[z[j].key]]) =
                      (IF j <= m THEN s[j] ELSE [s[j] EXCEPT !.val = tb[s[j].key]])
    BY DEF Looked
  <2>1. CASE j <= m
    BY <1>4, <1>8, <2>1
  <2>2. CASE j = m + 1
    BY <1>4, <1>7, <1>8, <2>2
  <2>3. CASE j > m + 1
    <3>1. z[j] = s[j]
      BY <1>4, <1>8, <2>3
    <3>2. ~(j <= m) /\ ~(j <= m + 1)
      BY <1>4, <2>3
    <3> QED BY <3>1, <3>2
  <2> QED BY <1>4, <2>1, <2>2, <2>3
<1>15. AbsTable = table /\ AbsDone(r) = Answer(r, Found(s, m, n, tb), req[r].err)
  <2>1. Rest(w) = SubSeq(s, m + 1, n)
    BY <1>1, <1>3 DEF Rest
  <2>2. AbsTable = table /\
        AbsDone(r) = Answer(r, SubSeq(req[r].rec, 1, widx[w]) \o A!GetBatch(table, Rest(w)), req[r].err)
    BY <1>1, <1>2, <1>6 DEF Views, BusyView
  <2> QED BY <1>3, <2>1, <2>2 DEF Found
<1>16. AbsTable' = table' /\ AbsDone(r)' = Done("query", Found(z, m + 1, n, tb), req[r].err)
  <2>1. Rest(w)' = SubSeq(z, m + 1 + 1, n)
    BY <1>1, <1>5, <1>8, <1>10, <1>11 DEF Rest
  <2>2. AbsTable' = table' /\
        AbsDone(r)' = Answer(r, SubSeq(req[r].rec, 1, widx[w]) \o A!GetBatch(table, Rest(w)), req[r].err)'
    BY <1>1, <1>2, <1>5, <1>6, <1>10 DEF Views, BusyView
  <2> QED BY <1>3, <1>5, <1>10, <1>11, <2>1, <2>2 DEF Answer, Done, Found
<1>17. AbsDone(r)' = AbsDone(r)
  <2> QED BY <1>2, <1>12, <1>13, <1>14, <1>15, <1>16 DEF Answer, Done
<1> QED BY <1>1, <1>2, <1>5, <1>11, <1>15, <1>16, <1>17, HandleView

(* A lookup fails: the answer loses what was still to be looked up. *)
WithLoss(u, lost) == [AbsOp EXCEPT ![u].err = "ACCESS_FAILED", ![u].rec = Abs!Without(@, lost)]

LEMMA LossIs ==
    ASSUME NEW u \in Threads, NEW type, NEW rec, NEW lost, AbsOp[u] = Done(type, rec, "SUCCESS")
    PROVE  WithLoss(u, lost) = SetOp(u, Done(type, Abs!Without(rec, lost), "ACCESS_FAILED"))
<1> DEFINE p == Done(type, rec, "SUCCESS")
           q == [p EXCEPT !.err = "ACCESS_FAILED"]
           x == Abs!Without(rec, lost)
<1>1. q = [st |-> "done", type |-> type, rec |-> rec, err |-> "ACCESS_FAILED"]
  BY DEF Done
<1>2. p.rec = rec
  BY DEF Done
<1> HIDE DEF x
<1>3. [p EXCEPT !.err = "ACCESS_FAILED", !.rec = x] = Done(type, x, "ACCESS_FAILED")
  <2>1. [p EXCEPT !.err = "ACCESS_FAILED", !.rec = x] = [q EXCEPT !.rec = x]
    BY DEF Done
  <2> HIDE DEF q
  <2> QED BY <1>1, <2>1 DEF Done
<1>4. WithLoss(u, lost) =
        [AbsOp EXCEPT ![u] = [AbsOp[u] EXCEPT !.err = "ACCESS_FAILED", !.rec = Abs!Without(AbsOp[u].rec, lost)]]
  BY OpIs DEF WithLoss
<1>5. Abs!Without(AbsOp[u].rec, lost) = x
  <2>1. PICK y : y = AbsOp[u].rec
    OBVIOUS
  <2>2. y = rec
    BY <1>2, <2>1
  <2>3. Abs!Without(y, lost) = Abs!Without(rec, lost)
    BY <2>2
  <2> QED BY <2>1, <2>3 DEF x
<1> QED BY <1>3, <1>4, <1>5 DEF SetOp, x

LEMMA QueryFailRefines ==
    ASSUME IInv, IInv', NEW w \in Workers, handle_query_fail(w)
    PROVE  [Abs!Next]_(Abs!vars)
<1>1. PICK r : r = wreq[w]
  OBVIOUS
<1>2. wpc[w] = "handle" /\ req[r].type = "query" /\ widx[w] < Len(req[r].rec)
  BY <1>1 DEF handle_query_fail
<1>3. PICK s, m, n, tb : s = req[r].rec /\ m = widx[w] /\ n = Len(s) /\ tb = table
  OBVIOUS
<1>4. /\ r \in Reqs /\ req[r] \in Requests /\ s \in Seq(Record) /\ m \in 0 .. n - 1 /\ n \in Nat
      /\ tb \in [Keys -> Vals \cup {Absent}] /\ req[r].err = "SUCCESS"
  BY <1>1, <1>2, <1>3, BatchFacts
<1>5. UNCHANGED <<sub, phase, wreq, widx, table>> /\ wpc'[w] = "finish"
  BY DEF handle_query_fail, callerVars, shardVars, IInv, TypeOK
<1>6. Views /\ Views' /\ phase[r] = "taken"
  BY <1>1, <1>2, ViewsHold, ViewsNext, BusyFacts
<1>7. PICK v \in {s[m + 1].val, tb[s[m + 1].key]} :
        req' = [req EXCEPT ![r].err = "ACCESS_FAILED", ![r].rec[m + 1].val = v]
  BY <1>1, <1>3 DEF handle_query_fail
<1>8. PICK e, z : e = [s[m + 1] EXCEPT !.val = v] /\ z = [s EXCEPT ![m + 1] = e]
  OBVIOUS
<1>9. /\ s[m + 1] \in Record /\ e \in Record /\ z \in Seq(Record) /\ Len(z) = n
      /\ \A j \in 1 .. n : z[j] = IF j = m + 1 THEN e ELSE s[j]
  <2>1. m + 1 \in 1 .. Len(s) /\ s[m + 1] \in Record
    BY <1>3, <1>4
  <2>2. e \in Record
    BY <1>4, <1>7, <1>8, <2>1 DEF Record
  <2>3. /\ z \in Seq(Record) /\ Len(z) = Len(s)
        /\ \A j \in 1 .. Len(s) : z[j] = IF j = m + 1 THEN e ELSE s[j]
    <3>1. s \in Seq(Record) /\ z = [s EXCEPT ![m + 1] = e]
      BY <1>4, <1>8
    <3> QED BY <2>1, <2>2, <3>1, ExceptSeq
  <2> QED BY <1>3, <2>1, <2>2, <2>3
<1>10. /\ req'[r].rec = z /\ req'[r].type = "query" /\ req'[r].err = "ACCESS_FAILED"
       /\ \A x \in Reqs : x # r => req'[x] = req[x]
  <2>1. req' = [req EXCEPT ![r] = [req[r] EXCEPT !.err = "ACCESS_FAILED", !.rec = z]]
    BY <1>3, <1>7, <1>8
  <2>2. /\ req'[r] = [req[r] EXCEPT !.err = "ACCESS_FAILED", !.rec = z]
        /\ \A x \in Reqs : x # r => req'[x] = req[x]
    BY <1>4, <2>1 DEF IInv, TypeOK
  <2> QED BY <1>2, <1>4, <2>2 DEF Requests
<1>11. PICK rec : rec = Looked(s, m, n, tb)
  OBVIOUS
<1>12. AbsTable = table /\ AbsDone(r) = Done("query", rec, "SUCCESS")
  <2>1. Rest(w) = SubSeq(s, m + 1, n)
    BY <1>1, <1>3 DEF Rest
  <2>2. AbsTable = table /\
        AbsDone(r) = Answer(r, SubSeq(req[r].rec, 1, widx[w]) \o A!GetBatch(table, Rest(w)), req[r].err)
    BY <1>1, <1>2, <1>6 DEF Views, BusyView
  <2>3. Found(s, m, n, tb) = rec
    BY <1>3, <1>4, <1>11, FoundIs
  <2> QED BY <1>2, <1>3, <1>4, <2>1, <2>2, <2>3 DEF Found, Answer, Done
<1>13. AbsTable' = table' /\ \A x : AbsDone(x)' = Base(x)'
  <2>1. \A x \in Workers : wpc'[x] # "handle"
    BY <1>5 DEF IInv, SingleWorker, Active
  <2> QED BY <1>6, <2>1 DEF Views, QuietView
<1>14. AbsDone(r)' = Done("query", z, "ACCESS_FAILED")
  BY <1>10, <1>13 DEF Base, Done
<1>15. ASSUME NEW x \in Reqs, x # r PROVE AbsDone(x)' = AbsDone(x)
  <2>1. AbsDone(x) = Base(x)
    BY <1>1, <1>2, <1>6, <1>15 DEF Views, BusyView
  <2> QED BY <1>10, <1>13, <1>15, <2>1 DEF Base
<1>16. PICK u \in Threads : sub[u] = r
  <2>1. PICK t \in Threads : r \in {sub[t], wtr[t]}
    BY <1>4, <1>6 DEF IInv, OwnerInv
  <2>2. CASE wtr[t] = r
    BY <1>2, <1>4, <2>2 DEF IInv, OwnerInv, KindInv
  <2> QED BY <2>1, <2>2
<1>17. \A t \in Threads : t # u => View(t)' = View(t)
  <2> SUFFICES ASSUME NEW t \in Threads, t # u PROVE View(t)' = View(t)
    OBVIOUS
  <2>1. PICK x : x = sub[t]
    OBVIOUS
  <2>2. x # NoReq => x \in Reqs /\ x # r
    BY <1>4, <1>16, <2>1 DEF IInv, TypeOK, OwnerInv
  <2> QED BY <1>5, <1>10, <1>15, <2>1, <2>2, ViewKept
<1>18. r # NoReq /\ sub'[u] = r
  BY <1>4, <1>5, <1>16, ShardAssumption
<1>19. AbsOp[u] = Done("query", rec, "SUCCESS")
  BY <1>6, <1>12, <1>16, <1>17, <1>18, ViewIs, OneChanges
<1>20. AbsOp' = SetOp(u, Done("query", z, "ACCESS_FAILED"))
  BY <1>5, <1>6, <1>14, <1>17, <1>18, ViewIs, OneChanges DEF SetOp
<1>21. PICK lost : lost = {j \in 1 .. n : j > m + 1 \/ (j = m + 1 /\ v = s[m + 1].val)}
  OBVIOUS
<1>22. z = Abs!Without(rec, lost) /\ DOMAIN rec = 1 .. n
  <2>1. DOMAIN rec = 1 .. n
    BY <1>11 DEF Looked
  <2>2. \A j \in m + 1 .. n : s[j].val = Absent
    <3>1. \A j \in widx[w] + 1 .. Len(req[wreq[w]].rec) : req[wreq[w]].rec[j].val = Absent
      BY <1>1, <1>2 DEF IInv, QueryInv, Unanswered
    <3> QED BY <1>1, <1>3, <3>1
  <2>3. ASSUME NEW j \in 1 .. n
        PROVE  z[j] = IF j \in lost THEN [rec[j] EXCEPT !.val = Absent] ELSE rec[j]
    <3>0. s[j] \in Record
      BY <1>3, <1>4
    <3>1. CASE j <= m
      <4>1. rec[j] = s[j] /\ j \notin lost /\ z[j] = s[j]
        BY <1>4, <1>9, <1>11, <1>21, <3>1 DEF Looked
      <4> QED BY <4>1
    <3>2. CASE j = m + 1
      <4>1. rec[j] = [s[j] EXCEPT !.val = tb[s[j].key]] /\ z[j] = [s[j] EXCEPT !.val = v]
        BY <1>4, <1>8, <1>9, <1>11, <3>2 DEF Looked
      <4>2. CASE v = s[m + 1].val
        <5>1. j \in lost /\ v = Absent
          BY <1>4, <1>21, <2>2, <3>2, <4>2
        <5> QED BY <3>0, <4>1, <5>1 DEF Record
      <4>3. CASE v # s[m + 1].val
        <5>1. j \notin lost /\ v = tb[s[j].key]
          BY <1>4, <1>7, <1>21, <3>2, <4>3
        <5> QED BY <4>1, <5>1
      <4> QED BY <4>2, <4>3
    <3>3. CASE j > m + 1
      <4>1. rec[j] = [s[j] EXCEPT !.val = tb[s[j].key]] /\ z[j] = s[j] /\ s[j].val = Absent /\ j \in lost
        <5>1. ~(j <= m) /\ j # m + 1 /\ j \in m + 1 .. n
          BY <1>4, <3>3
        <5>2. rec[j] = [s[j] EXCEPT !.val = tb[s[j].key]]
          BY <1>11, <5>1 DEF Looked
        <5>3. z[j] = s[j] /\ s[j].val = Absent
          BY <1>9, <2>2, <5>1
        <5>4. j \in lost
          BY <1>21, <3>3
        <5> QED BY <5>2, <5>3, <5>4
      <4> QED BY <3>0, <4>1 DEF Record
    <3> QED BY <1>4, <3>1, <3>2, <3>3
  <2>4. z = [j \in 1 .. n |-> z[j]]
    <3>1. \A y \in Seq(Record) : y = [j \in 1 .. Len(y) |-> y[j]]
      OBVIOUS
    <3> QED BY <1>9, <3>1
  <2>5. Abs!Without(rec, lost) = [j \in 1 .. n |-> IF j \in lost THEN [rec[j] EXCEPT !.val = Absent] ELSE rec[j]]
    BY <2>1 DEF Abs!Without
  <2> QED BY <2>1, <2>3, <2>4, <2>5
<1>23. AbsOp' = WithLoss(u, lost)
  BY <1>19, <1>20, <1>22, LossIs
<1>24. Abs!GetFails(u)
  <2>1. AbsOp[u].st = "done" /\ AbsOp[u].type = "query" /\ AbsOp[u].err = "SUCCESS" /\ AbsOp[u].rec = rec
    BY <1>19 DEF Done
  <2>2. m + 1 \in DOMAIN rec /\ lost \in SUBSET DOMAIN rec /\ \A j \in lost : m + 1 <= j
    BY <1>4, <1>21, <1>22
  <2>3. AbsTable' = AbsTable
    BY <1>5, <1>12, <1>13
  <2> QED BY <1>23, <2>1, <2>2, <2>3 DEF Abs!GetFails, WithLoss
<1> QED BY <1>24 DEF Abs!Next

LEMMA OtherRefines ==
    ASSUME IInv, IInv', NEW w \in Workers, handle_other(w)
    PROVE  UNCHANGED Abs!vars
<1>1. PICK r : r = wreq[w]
  OBVIOUS
<1>2. wpc[w] = "handle" /\ (req[r].type \in {"insert", "query"} => widx[w] = Len(req[r].rec))
  BY <1>1 DEF handle_other
<1>3. /\ r \in Reqs /\ req[r].rec \in Seq(Record) /\ req[r].type \in Types /\ req[r].err = "SUCCESS"
      /\ widx[w] \in 0 .. Len(req[r].rec) /\ table \in [Keys -> Vals \cup {Absent}]
  BY <1>1, <1>2, BatchFacts
<1>4. /\ UNCHANGED <<sub, req, phase, wreq, widx>> /\ wpc'[w] = "finish"
      /\ table' = IF req[r].type = "clear" THEN EmptyTable ELSE table
  BY <1>1 DEF handle_other, callerVars, heapVars, IInv, TypeOK
<1>5. Views /\ Views'
  BY ViewsHold, ViewsNext
<1>6. \A v \in Workers : wpc'[v] # "handle"
  BY <1>4 DEF IInv, SingleWorker, Active
<1>7. AbsTable' = table' /\ AbsDone(r)' = Base(r)'
  BY <1>5, <1>6 DEF Views, QuietView
<1>8. Base(r)' = Base(r)
  BY <1>4 DEF Base
<1>9. req[r].type \in {"insert", "query"} => Rest(w) = << >>
  <2>1. Len(req[r].rec) \in Int
    BY <1>3
  <2> QED BY <1>1, <1>2, <2>1, SubSeqEmpty DEF Rest
<1>10. AbsTable' = AbsTable /\ AbsDone(r)' = AbsDone(r)
  <2>1. CASE req[r].type = "insert"
    <3>1. /\ AbsTable = A!PutBatch(table, << >>).table
          /\ AbsDone(r) = Answer(r, req[r].rec, A!PutBatch(table, << >>).err)
      BY <1>1, <1>2, <1>5, <1>9, <2>1 DEF Views, BusyView
    <3>2. A!PutBatch(table, << >>) = [table |-> table, err |-> "SUCCESS"]
      BY PutBatchEmpty
    <3>3. AbsTable = table /\ AbsDone(r) = Base(r)
      BY <1>3, <3>1, <3>2 DEF Answer, Base
    <3> QED BY <1>4, <1>7, <1>8, <2>1, <3>3
  <2>2. CASE req[r].type = "query"
    <3>1. /\ AbsTable = table
          /\ AbsDone(r) = Answer(r, SubSeq(req[r].rec, 1, widx[w]) \o A!GetBatch(table, Rest(w)), req[r].err)
      BY <1>1, <1>2, <1>5, <2>2 DEF Views, BusyView
    <3>2. SubSeq(req[r].rec, 1, widx[w]) = req[r].rec
      BY <1>2, <1>3, <2>2, SubSeqFull
    <3>3. A!GetBatch(table, Rest(w)) = << >>
      BY <1>9, <2>2 DEF A!GetBatch
    <3>4. req[r].rec \o << >> = req[r].rec
      BY <1>3, ConcatEmptySeq
    <3>5. AbsDone(r) = Base(r)
      BY <3>1, <3>2, <3>3, <3>4 DEF Answer, Base
    <3> QED BY <1>4, <1>7, <1>8, <2>2, <3>1, <3>5
  <2>3. CASE req[r].type = "clear"
    <3>1. AbsTable = EmptyTable /\ AbsDone(r) = Base(r)
      BY <1>1, <1>2, <1>5, <2>3 DEF Views, BusyView
    <3> QED BY <1>4, <1>7, <1>8, <2>3, <3>1
  <2>4. CASE req[r].type \in {"wait", "stop"}
    <3>1. AbsTable = table /\ AbsDone(r) = Base(r)
      BY <1>1, <1>2, <1>5, <2>4 DEF Views, BusyView
    <3> QED BY <1>4, <1>7, <1>8, <2>4, <3>1
  <2> QED BY <1>3, <2>1, <2>2, <2>3, <2>4 DEF Types
<1> QED BY <1>1, <1>2, <1>4, <1>10, HandleView

LEMMA FinishRefines ==
    ASSUME IInv, IInv', NEW w \in Workers, shard_waiter_finish(w)
    PROVE  UNCHANGED Abs!vars
<1>1. PICK r : r = wreq[w]
  OBVIOUS
<1>2. /\ wpc[w] = "finish" /\ r \in Reqs /\ phase[r] = "taken"
  BY <1>1 DEF shard_waiter_finish, IInv, WorkerHolds, HeapInv, NoUseAfterFree
<1>3. /\ UNCHANGED <<table, sub>> /\ wpc'[w] = "loop"
      /\ \A x \in Reqs : x # r => req'[x] = req[x] /\ phase'[x] = phase[x]
      /\ phase'[r] = "handled"
  BY <1>1, <1>2 DEF shard_waiter_finish, shardVars, callerVars, IInv, TypeOK
<1>4. req'[r].type = req[r].type /\ req'[r].rec = req[r].rec /\ req'[r].err = req[r].err
  <2>1. req[r] \in Requests
    BY <1>2 DEF IInv, TypeOK
  <2>2. req'[r] = [req[r] EXCEPT !.done = HasWaiter(r)]
    BY <1>1, <1>2 DEF shard_waiter_finish, IInv, TypeOK
  <2> QED BY <2>1, <2>2 DEF Requests
<1>5. \A v \in Workers : wpc[v] # "handle" /\ wpc'[v] # "handle"
  BY <1>2, <1>3 DEF IInv, SingleWorker, Active
<1>6. /\ AbsTable = table /\ AbsTable' = table'
      /\ \A x : AbsDone(x) = Base(x) /\ AbsDone(x)' = Base(x)'
  BY <1>5, ViewsHold, ViewsNext DEF Views, QuietView
<1>7. \A x \in Reqs : Base(x)' = Base(x)
  BY <1>3, <1>4 DEF Base
<1>8. ASSUME NEW t \in Threads PROVE View(t)' = View(t)
  <2>1. PICK x : x = sub[t]
    OBVIOUS
  <2>2. x # NoReq => x \in Reqs
    BY <2>1 DEF IInv, TypeOK
  <2>3. x # NoReq => AbsDone(x)' = AbsDone(x)
    BY <1>6, <1>7, <2>2
  <2>4. x # NoReq => /\ phase'[x] = "queued" <=> phase[x] = "queued"
                     /\ phase[x] = "queued" => req'[x] = req[x]
    BY <1>2, <1>3, <2>2
  <2> QED BY <1>3, <2>1, <2>3, <2>4, ViewKept
<1> QED BY <1>3, <1>6, <1>8, Stutters

LEMMA WorkerRefines ==
    ASSUME IInv, IInv', NEW w \in Workers, WorkerStep(w) \/ shard_run(w)
    PROVE  [Abs!Next]_(Abs!vars)
<1>1. CASE shard_run(w) \/ shard_run_start(w) \/ shard_loop_exit(w) \/ shard_run_return(w)
  <2>1. /\ UNCHANGED <<table, req, phase, sub, wreq, widx>>
        /\ wpc[w] \in {"out", "start", "loop", "release"}
        /\ \E p \in {"out", "start", "loop", "release"} : wpc' = [wpc EXCEPT ![w] = p]
    BY <1>1 DEF shard_run, shard_run_start, shard_loop_exit, shard_run_return, shardVars, heapVars, callerVars
  <2>2. \A v \in Workers : wpc'[v] = "handle" <=> wpc[v] = "handle"
    BY <2>1 DEF IInv, TypeOK
  <2> QED BY <2>1, <2>2, ControlView
<1> QED BY <1>1, NextRequestRefines, InsertRefines, QueryRefines, QueryFailRefines,
       OtherRefines, FinishRefines DEF WorkerStep

LEMMA InitRefines == Init => Abs!Init
<1> SUFFICES ASSUME Init PROVE Abs!Init
  OBVIOUS
<1>1. AbsTable = EmptyTable
  BY DEF Init, AbsTable, Handling
<1>2. AbsOp = [t \in Threads |-> A!NoOp]
  BY DEF Init, AbsOp
<1> QED BY <1>1, <1>2, SerialConstants, SameBatch DEF Abs!Init

LEMMA StepRefines == IInv /\ IInv' /\ [Next]_vars => [Abs!Next]_(Abs!vars)
<1> SUFFICES ASSUME IInv, IInv', [Next]_vars PROVE [Abs!Next]_(Abs!vars)
  OBVIOUS
<1>1. CASE UNCHANGED vars
  <2>1. UNCHANGED <<table, req, phase, sub, wpc, wreq, widx>>
    BY <1>1 DEF vars, shardVars, heapVars, callerVars, workerVars
  <2> QED BY <2>1, ControlView
<1> QED BY <1>1, CallerStepRefines, CallRefines, WorkerRefines DEF Next

(* A shard is a linearizable map with atomic batches. *)
THEOREM ShardIsSerial == Spec => ImplementsSerialShard
<1>1. Init => Abs!Init
  BY InitRefines
<1>2. IInv /\ IInv' /\ [Next]_vars => [Abs!Next]_(Abs!vars)
  BY StepRefines
<1>3. Spec => Abs!Spec
  BY <1>1, <1>2, Invariance, PTL DEF Spec, Abs!Spec
<1> QED BY <1>3 DEF ImplementsSerialShard
=============================================================================
