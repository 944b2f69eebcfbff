------------------------------ MODULE ShardInv ------------------------------
(***************************************************************************)
(* The inductive invariant behind the safety properties of module Shard.   *)
(***************************************************************************)
EXTENDS Shard

(* The worker has a request exactly while it is handling one. *)
WorkerHolds == \A w \in Workers : wpc[w] \in {"handle", "finish"} <=> wreq[w] \in Reqs

(* The queue and the worker hold distinct, allocated requests, and an       *)
(* object is in phase "queued" or "taken" only if one of them holds it.     *)
HeapInv ==
    /\ NoUseAfterFree
    /\ \A r \in Reqs : phase[r] = "queued" => \E i \in DOMAIN requests : requests[i] = r
    /\ \A r \in Reqs : phase[r] = "taken" => \E w \in Workers : wreq[w] = r
    /\ \A r \in Reqs : req[r].done => phase[r] = "handled"

(* Every allocated request belongs to the one caller that will free it. *)
OwnerInv ==
    /\ \A t \in Threads : sub[t] \in Reqs <=> pc[t] \in {"submitted", "waiting", "collect"}
    /\ \A t \in Threads : wtr[t] \in Reqs <=> pc[t] \in {"waiting", "stopping"}
    /\ \A t, u \in Threads : sub[t] \in Reqs /\ sub[t] = sub[u] => t = u
    /\ \A t, u \in Threads : wtr[t] \in Reqs /\ wtr[t] = wtr[u] => t = u
    /\ \A t, u \in Threads : sub[t] \in Reqs => sub[t] # wtr[u]
    /\ \A r \in Reqs : phase[r] # "free" <=> \E t \in Threads : r \in {sub[t], wtr[t]}

(* What each object is for. *)
KindInv ==
    \A t \in Threads :
        /\ sub[t] \in Reqs => req[sub[t]].type \in {"insert", "query", "clear"}
        /\ pc[t] = "waiting" => req[wtr[t]].type = "wait"
        /\ pc[t] = "stopping" => req[wtr[t]].type = "stop"

(* Nobody is inside a shard that is being destroyed. *)
LifeInv ==
    /\ life # "live" => /\ \A w \in Workers : wpc[w] = "out"
                        /\ \A t \in Threads : pc[t] \notin {"submitted", "stop"}
    /\ \A t \in Threads : pc[t] = "destroying" => life = "destroying"
    /\ \A t, u \in Threads : pc[t] = "destroying" /\ pc[u] = "destroying" => t = u

(* A stop that the worker has still to see... *)
StopPending(t) ==
    \/ pc[t] = "stop"
    \/ pc[t] = "stopping" /\ phase[wtr[t]] \in {"queued", "taken"}
(* ... and one that it has seen: it is about to leave its loop. *)
StopSeen(w) == wpc[w] \in {"loop", "finish", "release"} /\ ~keep_alive

(* There is at most one stop at a time, from the compare-exchange of        *)
(* shard_stop to the one at the end of shard_run.                           *)
StopInv ==
    /\ \A t \in Threads : StopPending(t) => running = "STOPPING"
    /\ \A t, u \in Threads : StopPending(t) /\ StopPending(u) => t = u
    /\ \A w \in Workers : wpc[w] = "handle" => keep_alive
    /\ \A w \in Workers : wpc[w] = "release" => ~keep_alive
    /\ \A w \in Workers : StopSeen(w) =>
          /\ running = "STOPPING"
          /\ \A t \in Threads : StopPending(t) => wpc[w] = "finish" /\ wreq[w] = wtr[t]

(* The order behind shard_wait: a caller's request goes through the queue   *)
(* ahead of the wait request that it queued next.                           *)
OrderInv ==
    \A t \in Threads :
        /\ pc[t] = "waiting" =>
              \/ phase[sub[t]] = "handled"
              \/ phase[sub[t]] = "taken" /\ phase[wtr[t]] = "queued"
              \/ /\ phase[sub[t]] = "queued" /\ phase[wtr[t]] = "queued"
                 /\ \A i, j \in DOMAIN requests :
                       requests[i] = sub[t] /\ requests[j] = wtr[t] => i < j
        /\ pc[t] = "collect" => phase[sub[t]] = "handled"

(* A batch that has not run to its end has met no error, the worker begins  *)
(* each one with its first record, and a destroyed shard has no requests.   *)
BatchInv ==
    /\ \A w \in Workers : wpc[w] \notin {"handle", "finish"} => widx[w] = 0
    /\ \A w \in Workers : wpc[w] = "handle" =>
          widx[w] <= Len(req[wreq[w]].rec) /\ req[wreq[w]].err = "SUCCESS"
    /\ \A r \in Reqs : phase[r] = "queued" => req[r].err = "SUCCESS"
    /\ life = "dead" => requests = << >>

(* The records of a query that are still to be looked up hold nothing. *)
Unanswered(r, n) == \A i \in n + 1 .. Len(req[r].rec) : req[r].rec[i].val = Absent
QueryInv ==
    /\ \A r \in Reqs : phase[r] = "queued" /\ req[r].type = "query" => Unanswered(r, 0)
    /\ \A w \in Workers : wpc[w] = "handle" /\ req[wreq[w]].type = "query" =>
          Unanswered(wreq[w], widx[w])

(* All of it together is kept by every step. *)
IInv ==
    /\ TypeOK /\ WorkerHolds /\ SingleWorker /\ HeapInv /\ OwnerInv
    /\ KindInv /\ LifeInv /\ StopInv /\ OrderInv /\ BatchInv /\ QueryInv
=============================================================================
