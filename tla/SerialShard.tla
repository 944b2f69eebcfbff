---------------------------- MODULE SerialShard ----------------------------
(***************************************************************************)
(* What a shard promises to the threads that use it: each batch of inserts *)
(* or queries, and each clear, takes effect at one instant between its     *)
(* submission and the end of the wait for it.  Workers, queue and request  *)
(* objects do not appear.                                                  *)
(***************************************************************************)
EXTENDS Naturals, Sequences, FiniteSets

CONSTANTS Threads, Keys, Vals, Absent, Batches, Capacity

VARIABLES
    table,      \* the records of the shard
    op          \* op[t]: the operation of t, its records and its error

vars == <<table, op>>

NoOp == [st |-> "none", type |-> "none", rec |-> << >>, err |-> "SUCCESS"]
Pending(type, rec) == [st |-> "pending", type |-> type, rec |-> rec, err |-> "SUCCESS"]
EmptyTable == [k \in Keys |-> Absent]

Full(tb) == Cardinality({k \in Keys : tb[k] # Absent}) >= Capacity

(* Records are inserted in order; the first one that finds the table full  *)
(* ends the batch, and what was inserted before stays.                     *)
PutBatch(tb, rec) ==
    LET after[n \in 0 .. Len(rec)] ==
            IF n = 0 THEN [table |-> tb, err |-> "SUCCESS"]
            ELSE LET prev == after[n - 1]
                 IN  IF prev.err # "SUCCESS" THEN prev
                     ELSE IF Full(prev.table)
                     THEN [prev EXCEPT !.err = "TABLE_FULL"]
                     ELSE [prev EXCEPT !.table[rec[n].key] = rec[n].val]
    IN  after[Len(rec)]

GetBatch(tb, rec) == [i \in DOMAIN rec |-> [rec[i] EXCEPT !.val = tb[rec[i].key]]]

Init ==
    /\ table = EmptyTable
    /\ op = [t \in Threads |-> NoOp]

Records(b, v) == [i \in DOMAIN b |-> [key |-> b[i], val |-> v]]

Invoke(t) ==
    /\ op[t] = NoOp
    /\ \/ \E b \in Batches, v \in Vals : op' = [op EXCEPT ![t] = Pending("insert", Records(b, v))]
       \/ \E b \in Batches : op' = [op EXCEPT ![t] = Pending("query", Records(b, Absent))]
       \/ op' = [op EXCEPT ![t] = Pending("clear", << >>)]
    /\ UNCHANGED table

Apply(t) ==
    /\ op[t].st = "pending"
    /\ \/ /\ op[t].type = "insert"
          /\ LET r == PutBatch(table, op[t].rec)
             IN  /\ table' = r.table
                 /\ op' = [op EXCEPT ![t].st = "done", ![t].err = r.err]
       \/ /\ op[t].type = "query"
          /\ op' = [op EXCEPT ![t].st = "done", ![t].rec = GetBatch(table, op[t].rec)]
          /\ UNCHANGED table
       \/ /\ op[t].type = "clear"
          /\ table' = EmptyTable
          /\ op' = [op EXCEPT ![t].st = "done"]

(* The lookup of the n-th key fails, and the query with it.  What it had    *)
(* found before stands; of the rest, nothing or what is there is returned.  *)
Without(rec, lost) == [i \in DOMAIN rec |-> IF i \in lost THEN [rec[i] EXCEPT !.val = Absent] ELSE rec[i]]
GetFails(t) ==
    /\ op[t].st = "done" /\ op[t].type = "query" /\ op[t].err = "SUCCESS"
    /\ \E n \in DOMAIN op[t].rec, lost \in SUBSET DOMAIN op[t].rec :
          /\ \A i \in lost : n <= i
          /\ op' = [op EXCEPT ![t].err = "ACCESS_FAILED", ![t].rec = Without(@, lost)]
    /\ UNCHANGED table

(* The shard is destroyed under a waiting caller, who is told. *)
Fail(t) ==
    /\ op[t].st = "pending"
    /\ op' = [op EXCEPT ![t].st = "done", ![t].err = "DESTROYING"]
    /\ UNCHANGED table

Return(t) ==
    /\ op[t].st = "done"
    /\ op' = [op EXCEPT ![t] = NoOp]
    /\ UNCHANGED table

(* A new shard, empty, takes the place of a destroyed one. *)
Reset ==
    /\ \A t \in Threads : op[t].st # "pending"
    /\ table' = EmptyTable
    /\ UNCHANGED op

Next == Reset \/ \E t \in Threads : Invoke(t) \/ Apply(t) \/ GetFails(t) \/ Fail(t) \/ Return(t)
Spec == Init /\ [][Next]_vars
=============================================================================
