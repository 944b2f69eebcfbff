------------------------------- MODULE Queue -------------------------------
(***************************************************************************)
(* c/sharded_ohtable/queue.c: the ring buffer, guarded by one mutex and    *)
(* two condition variables, through which callers hand requests to a shard *)
(* worker.                                                                 *)
(*                                                                         *)
(* Everything between pthread_mutex_lock and the next unlock or cond_wait  *)
(* is one step.  A condition variable is the set of the threads that sleep *)
(* on it; pthread_cond_signal removes one of them (any), a broadcast all,  *)
(* and a removed thread evaluates its while loop again when it next gets   *)
(* the mutex.  Spurious wakeups, which POSIX allows, are a step of their   *)
(* own.                                                                    *)
(***************************************************************************)
EXTENDS Naturals, Sequences

CONSTANTS
    Producers,      \* threads that call queue_add_item
    Consumers,      \* threads that call queue_next_item and queue_close
    Items,          \* the pointers that are queued
    QUEUE_SIZE,     \* 20 in the source
    NoItem          \* the NULL that queue_next_item may return

ASSUME QueueAssumption ==
    /\ QUEUE_SIZE \in Nat \ {0}
    /\ Producers \cap Consumers = {}
    /\ NoItem \notin Items
    /\ "ok" \notin Items /\ "closed" \notin Items

VARIABLES
    items,          \* the ring
    num_items,      \* how many of its slots are in use
    add,            \* the slot the next item goes to
    rem,            \* the slot the next item is taken from
    closed,         \* when closed, don't accept any more writes
    consumer_con,   \* threads asleep on q->consumer_con
    producer_con,   \* threads asleep on q->producer_con
    op,             \* op[t]: the call thread t is in
    ret             \* ret[t]: what its last finished call returned

vars == <<items, num_items, add, rem, closed, consumer_con, producer_con, op, ret>>

Threads     == Producers \cup Consumers
Slots       == 0 .. QUEUE_SIZE - 1
Idle        == [kind |-> "idle"]
AddCall(x)  == [kind |-> "add", item |-> x]
NextCall(b) == [kind |-> "next", block |-> b]

TypeOK ==
    /\ items \in [Slots -> Items \cup {NoItem}]
    /\ num_items \in 0 .. QUEUE_SIZE
    /\ add \in Slots
    /\ rem \in Slots
    /\ closed \in BOOLEAN
    /\ consumer_con \in SUBSET Consumers
    /\ producer_con \in SUBSET Producers
    /\ \A p \in Producers : op[p] \in {Idle} \cup {AddCall(x) : x \in Items}
    /\ \A c \in Consumers : op[c] \in {Idle} \cup {NextCall(b) : b \in BOOLEAN}
    /\ DOMAIN op = Threads
    /\ ret \in [Threads -> Items \cup {NoItem, "ok", "closed"}]

(* queue_create: the structure is zeroed. *)
Init ==
    /\ items = [s \in Slots |-> NoItem]
    /\ num_items = 0
    /\ add = 0
    /\ rem = 0
    /\ closed = FALSE
    /\ consumer_con = {}
    /\ producer_con = {}
    /\ op = [t \in Threads |-> Idle]
    /\ ret = [t \in Threads |-> NoItem]

-----------------------------------------------------------------------------
(* The sets pthread_cond_signal may leave behind: any one sleeper goes.    *)
Signalled(con) == IF con = {} THEN {con} ELSE {con \ {t} : t \in con}

(* Mutant: the index runs off the end of the ring. *)
AdvanceOffByOne(i) == i + 1
(* Mutant: the index is not advanced. *)
AdvanceStuck(i) == i
(* q->add and q->rem move round the ring. *)
Advance(i) == (i + 1) % QUEUE_SIZE

Return(t, v) ==
    /\ op' = [op EXCEPT ![t] = Idle]
    /\ ret' = [ret EXCEPT ![t] = v]

-----------------------------------------------------------------------------
CallAdd(p, x) ==
    /\ op[p] = Idle
    /\ op' = [op EXCEPT ![p] = AddCall(x)]
    /\ UNCHANGED <<items, num_items, add, rem, closed, consumer_con, producer_con, ret>>

CallNext(c, block) ==
    /\ op[c] = Idle
    /\ op' = [op EXCEPT ![c] = NextCall(block)]
    /\ UNCHANGED <<items, num_items, add, rem, closed, consumer_con, producer_con, ret>>

(* The end of queue_add_item: another producer may find room as well. *)
producers_after_add ==
    IF num_items' < QUEUE_SIZE THEN Signalled(producer_con) ELSE {producer_con}

(* Mutant: an added item is not announced. *)
consumers_after_add_none == {consumer_con}
(* queue_add_item: a consumer may be asleep. *)
consumers_after_add == Signalled(consumer_con)

(* queue_add_item, first while loop: the ring is full, sleep. *)
queue_add_wait(p) ==
    /\ op[p].kind = "add" /\ p \notin producer_con
    /\ num_items = QUEUE_SIZE /\ ~closed
    /\ producer_con' = producer_con \cup {p}
    /\ UNCHANGED <<items, num_items, add, rem, closed, consumer_con, op, ret>>

(* queue_add_item on a closed queue: err_QUEUE__CLOSED. *)
queue_add_closed(p) ==
    /\ op[p].kind = "add" /\ p \notin producer_con
    /\ closed
    /\ UNCHANGED num_items
    /\ producer_con' \in producers_after_add
    /\ Return(p, "closed")
    /\ UNCHANGED <<items, add, rem, closed, consumer_con>>

(* queue_add_item, the store. *)
queue_add_store(p) ==
    /\ op[p].kind = "add" /\ p \notin producer_con
    /\ num_items < QUEUE_SIZE /\ ~closed
    /\ items' = [items EXCEPT ![add] = op[p].item]
    /\ add' = Advance(add)
    /\ num_items' = num_items + 1
    /\ consumer_con' \in consumers_after_add
    /\ producer_con' \in producers_after_add
    /\ Return(p, "ok")
    /\ UNCHANGED <<rem, closed>>

queue_add_item(p) == queue_add_wait(p) \/ queue_add_closed(p) \/ queue_add_store(p)

(* The end of queue_next_item: another consumer may find an item as well. *)
consumers_after_take ==
    IF num_items' > 0 THEN Signalled(consumer_con) ELSE {consumer_con}

(* Mutant: a free slot is not announced. *)
producers_after_take_none == {producer_con}
(* queue_next_item: a producer may be asleep. *)
producers_after_take == Signalled(producer_con)

(* queue_next_item, while loop: the ring is empty, sleep. *)
queue_next_wait(c) ==
    /\ op[c] = NextCall(TRUE) /\ c \notin consumer_con
    /\ num_items = 0
    /\ consumer_con' = consumer_con \cup {c}
    /\ UNCHANGED <<items, num_items, add, rem, closed, producer_con, op, ret>>

(* queue_next_item(q, false) on an empty ring returns NULL. *)
queue_next_nothing(c) ==
    /\ op[c] = NextCall(FALSE)
    /\ num_items = 0
    /\ Return(c, NoItem)
    /\ UNCHANGED <<items, num_items, add, rem, closed, consumer_con, producer_con>>

(* queue_next_item, the removal. *)
queue_next_take(c) ==
    /\ op[c].kind = "next" /\ c \notin consumer_con
    /\ num_items > 0
    /\ rem' = Advance(rem)
    /\ num_items' = num_items - 1
    /\ producer_con' \in producers_after_take
    /\ consumer_con' \in consumers_after_take
    /\ Return(c, items[rem])
    /\ UNCHANGED <<items, add, closed>>

queue_next_item(c) == queue_next_wait(c) \/ queue_next_nothing(c) \/ queue_next_take(c)

(* Mutant: only one sleeping producer is woken. *)
woken_by_close_one(con) == Signalled(con)
(* The broadcast of queue_close. *)
woken_by_close(con) == {{}}

(* queue_close; it is not told to threads asleep on consumer_con. *)
queue_close(c) ==
    /\ op[c] = Idle
    /\ closed' = TRUE
    /\ producer_con' \in woken_by_close(producer_con)
    /\ UNCHANGED <<items, num_items, add, rem, consumer_con, op, ret>>

SpuriousWakeup(t) ==
    /\ \/ /\ t \in producer_con
          /\ producer_con' = producer_con \ {t}
          /\ UNCHANGED consumer_con
       \/ /\ t \in consumer_con
          /\ consumer_con' = consumer_con \ {t}
          /\ UNCHANGED producer_con
    /\ UNCHANGED <<items, num_items, add, rem, closed, op, ret>>

Next ==
    \/ \E p \in Producers : queue_add_item(p) \/ \E x \in Items : CallAdd(p, x)
    \/ \E c \in Consumers :
          \/ queue_next_item(c)
          \/ queue_close(c)
          \/ \E block \in BOOLEAN : CallNext(c, block)
    \/ \E t \in Threads : SpuriousWakeup(t)

(* A thread that is not asleep gets the mutex sooner or later. *)
Fairness ==
    /\ \A p \in Producers : WF_vars(queue_add_item(p))
    /\ \A c \in Consumers : WF_vars(queue_next_item(c))

Spec == Init /\ [][Next]_vars /\ Fairness

-----------------------------------------------------------------------------
(* Awake inside queue_add_item or queue_next_item. *)
AwakeProducers == {p \in Producers \ producer_con : op[p].kind = "add"}
AwakeConsumers == {c \in Consumers \ consumer_con : op[c].kind = "next"}

(* Only threads inside a blocking call sleep. *)
SleepersInCall ==
    /\ \A p \in producer_con : op[p].kind = "add"
    /\ \A c \in consumer_con : op[c] = NextCall(TRUE)

(***************************************************************************)
(* No lost wakeup: as long as somebody sleeps although the ring would let  *)
(* it go on, another thread is awake inside the same operation, and that   *)
(* thread passes the signal on.  No producer sleeps on a closed queue.     *)
(* This is what the chain of signals in queue_add_item and                 *)
(* queue_next_item is for.                                                 *)
(***************************************************************************)
NoLostWakeup ==
    /\ producer_con # {} => ~closed /\ (num_items = QUEUE_SIZE \/ AwakeProducers # {})
    /\ consumer_con # {} => (num_items = 0 \/ AwakeConsumers # {})

(* The inductive invariant of the queue: the ring and the calls have their  *)
(* shape, sleepers are inside a call, and no wakeup is lost.                *)
QInv == TypeOK /\ SleepersInCall /\ NoLostWakeup

(* Nobody is kept in a call for ever: no producer in queue_add_item while   *)
(* the ring keeps having room, no consumer in queue_next_item while it      *)
(* keeps having items.                                                      *)
NoneStranded ==
    /\ \A p \in Producers : []<>(op[p] = Idle \/ num_items = QUEUE_SIZE)
    /\ \A c \in Consumers : []<>(op[c] = Idle \/ num_items = 0)

-----------------------------------------------------------------------------
(* The ring read from rem: what the abstract queue holds. *)
Contents == [k \in 1 .. num_items |-> items[(rem + k - 1) % QUEUE_SIZE]]

Fifo == INSTANCE BoundedFifo WITH fifo <- Contents, Size <- QUEUE_SIZE

(* The ring buffer implements a bounded FIFO: every call takes effect once, *)
(* in one step, and items leave in the order in which they entered.         *)
ImplementsFifo == Fifo!Spec
=============================================================================
