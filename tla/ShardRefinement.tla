-------------------------- MODULE ShardRefinement --------------------------
(***************************************************************************)
(* Shard implements SerialShard.  A batch takes effect, for the abstract   *)
(* specification, when the worker takes its request from the queue: while  *)
(* the worker is in the middle of the batch, the abstract table already    *)
(* holds what the rest of the batch is about to do, and the abstract       *)
(* answer what the rest of the lookups is about to find.                   *)
(***************************************************************************)
EXTENDS Shard

A == INSTANCE SerialShard WITH table <- table, op <- sub

(* What is left of the batch a worker is in. *)
Rest(w) == SubSeq(req[wreq[w]].rec, widx[w] + 1, Len(req[wreq[w]].rec))
Handling(w, type) == wpc[w] = "handle" /\ req[wreq[w]].type = type

AbsTable ==
    IF \E w \in Workers : Handling(w, "clear") THEN EmptyTable
    ELSE IF \E w \in Workers : Handling(w, "insert")
    THEN LET w == CHOOSE x \in Workers : Handling(x, "insert")
         IN  A!PutBatch(table, Rest(w)).table
    ELSE table

(* The request of t as its caller will see it. *)
AbsDone(r) ==
    LET base == [st |-> "done", type |-> req[r].type, rec |-> req[r].rec, err |-> req[r].err]
    IN  IF \E w \in Workers : wreq[w] = r /\ wpc[w] = "handle"
        THEN LET w == CHOOSE x \in Workers : wreq[x] = r /\ wpc[x] = "handle"
             IN  CASE req[r].type = "insert" ->
                        [base EXCEPT !.err = A!PutBatch(table, Rest(w)).err]
                   [] req[r].type = "query" ->
                        [base EXCEPT !.rec = SubSeq(@, 1, widx[w]) \o A!GetBatch(table, Rest(w))]
                   [] OTHER -> base
        ELSE base

AbsOp ==
    [t \in Threads |->
        IF sub[t] = NoReq THEN A!NoOp
        ELSE IF phase[sub[t]] = "queued" THEN A!Pending(req[sub[t]].type, req[sub[t]].rec)
        ELSE AbsDone(sub[t])]

Abs == INSTANCE SerialShard WITH table <- AbsTable, op <- AbsOp

(* A shard is a linearizable map with atomic batches: no interleaving of   *)
(* callers, of two threads in shard_run, of stops, restarts and            *)
(* destruction makes half a batch, a lost batch or a stale answer visible. *)
ImplementsSerialShard == Abs!Spec
=============================================================================
