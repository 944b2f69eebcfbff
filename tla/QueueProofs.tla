---------------------------- MODULE QueueProofs ----------------------------
(***************************************************************************)
(* No wakeup is lost in c/sharded_ohtable/queue.c, and its ring of slots   *)
(* is a bounded first-in first-out queue: proofs for any number of         *)
(* producers and consumers and any ring size.                              *)
(***************************************************************************)
EXTENDS Queue, SequenceTheorems, TLAPS

LEMMA Kinds ==
  /\ Idle.kind = "idle"
  /\ \A x : AddCall(x).kind = "add" /\ AddCall(x).item = x /\ AddCall(x) # Idle
  /\ \A b : NextCall(b).kind = "next" /\ NextCall(b) # Idle
  /\ NextCall(TRUE) # NextCall(FALSE)
<1>1. Idle.kind = "idle"
  BY DEF Idle
<1>2. \A x : AddCall(x).kind = "add" /\ AddCall(x).item = x
  BY DEF AddCall
<1>3. \A b : NextCall(b).kind = "next"
  BY DEF NextCall
<1>4. NextCall(TRUE) # NextCall(FALSE)
  <2>1. NextCall(TRUE).block = TRUE /\ NextCall(FALSE).block = FALSE
    BY DEF NextCall
  <2> QED
    BY <2>1
<1> QED
  BY <1>1, <1>2, <1>3, <1>4

LEMMA AdvanceType == ASSUME NEW i \in Slots PROVE Advance(i) \in Slots
<1>1. QUEUE_SIZE \in Nat /\ QUEUE_SIZE > 0 /\ i \in Nat
  BY QueueAssumption DEF Slots
<1>2. (i + 1) % QUEUE_SIZE \in 0 .. QUEUE_SIZE - 1
  BY <1>1
<1> QED
  BY <1>2 DEF Advance, Slots

(* A signal removes at most one sleeper, and one if there is any. *)
LEMMA SignalFacts ==
  ASSUME NEW con, NEW after \in Signalled(con)
  PROVE  /\ after \subseteq con
         /\ after # {} => \E t \in con : t \notin after
         /\ con # {} => \E t \in con : t \notin after
  BY DEF Signalled

LEMMA QInvInit == Init => QInv
<1> SUFFICES ASSUME Init PROVE QInv
  OBVIOUS
<1>1. TypeOK
  <2>1. items \in [Slots -> Items \cup {NoItem}] /\ ret \in [Threads -> Items \cup {NoItem, "ok", "closed"}]
    BY DEF Init
  <2>2. 0 \in Slots /\ 0 \in 0 .. QUEUE_SIZE
    BY QueueAssumption DEF Slots
  <2>3. \A t \in Threads : op[t] = Idle
    BY DEF Init
  <2>4. DOMAIN op = Threads
    BY DEF Init
  <2> QED
    BY <2>1, <2>2, <2>3, <2>4 DEF Init, TypeOK, Threads
<1>2. SleepersInCall /\ NoLostWakeup
  BY DEF Init, SleepersInCall, NoLostWakeup
<1> QED
  BY <1>1, <1>2 DEF QInv

(* A call that returns: its thread is idle, the others are where they were. *)
LEMMA ReturnFacts ==
  ASSUME TypeOK, NEW t \in Threads, NEW v \in Items \cup {NoItem, "ok", "closed"}, Return(t, v)
  PROVE  /\ op'[t] = Idle
         /\ \A u \in Threads : u # t => op'[u] = op[u]
         /\ DOMAIN op' = Threads
         /\ ret' \in [Threads -> Items \cup {NoItem, "ok", "closed"}]
  BY DEF TypeOK, Return

LEMMA CallAddStep ==
  ASSUME QInv, NEW p \in Producers, NEW x \in Items, CallAdd(p, x)
  PROVE  QInv'
<1> USE DEF QInv
<1>1. TypeOK'
  BY Kinds, AdvanceType, QueueAssumption DEF TypeOK, Threads, CallAdd
<1>2. SleepersInCall'
  BY Kinds, QueueAssumption DEF TypeOK, Threads, SleepersInCall, CallAdd
<1>3. NoLostWakeup'
  BY Kinds, QueueAssumption DEF TypeOK, Threads, SleepersInCall, NoLostWakeup, AwakeProducers, AwakeConsumers, CallAdd
<1> QED
  BY <1>1, <1>2, <1>3

LEMMA CallNextStep ==
  ASSUME QInv, NEW c \in Consumers, NEW block \in BOOLEAN, CallNext(c, block)
  PROVE  QInv'
<1> USE DEF QInv
<1>1. TypeOK'
  BY Kinds, AdvanceType, QueueAssumption DEF TypeOK, Threads, CallNext
<1>2. SleepersInCall'
  BY Kinds, QueueAssumption DEF TypeOK, Threads, SleepersInCall, CallNext
<1>3. NoLostWakeup'
  BY Kinds, QueueAssumption DEF TypeOK, Threads, SleepersInCall, NoLostWakeup, AwakeProducers, AwakeConsumers, CallNext
<1> QED
  BY <1>1, <1>2, <1>3

LEMMA AddWaitStep ==
  ASSUME QInv, NEW p \in Producers, queue_add_wait(p)
  PROVE  QInv'
<1> USE DEF QInv
<1>1. TypeOK'
  BY Kinds, AdvanceType, QueueAssumption DEF TypeOK, Threads, queue_add_wait
<1>2. SleepersInCall'
  BY Kinds, QueueAssumption DEF TypeOK, Threads, SleepersInCall, queue_add_wait
<1>3. NoLostWakeup'
  BY Kinds, QueueAssumption DEF TypeOK, Threads, SleepersInCall, NoLostWakeup, AwakeProducers, AwakeConsumers, queue_add_wait
<1> QED
  BY <1>1, <1>2, <1>3

LEMMA AddClosedStep ==
  ASSUME QInv, NEW p \in Producers, queue_add_closed(p)
  PROVE  QInv'
<1> USE DEF QInv
<1>0. /\ op'[p] = Idle
      /\ \A u \in Threads : u # p => op'[u] = op[u]
      /\ DOMAIN op' = Threads
      /\ ret' \in [Threads -> Items \cup {NoItem, "ok", "closed"}]
  BY ReturnFacts DEF queue_add_closed, Threads, TypeOK, Slots
<1>a. producer_con' \subseteq producer_con
  BY SignalFacts DEF queue_add_closed, producers_after_add
<1>s. /\ \A u \in producer_con' : u \in producer_con /\ u \in Threads /\ u # p /\ op'[u] = op[u]
      /\ \A u \in consumer_con' : u \in consumer_con /\ u \in Threads /\ u # p /\ op'[u] = op[u]
  BY <1>0, <1>a, Kinds, QueueAssumption DEF TypeOK, Threads, SleepersInCall, queue_add_closed
<1>1. TypeOK'
  BY <1>0, Kinds, <1>a, AdvanceType, QueueAssumption DEF TypeOK, Threads, queue_add_closed
<1>2. SleepersInCall'
  BY <1>s DEF SleepersInCall
<1>3. NoLostWakeup'
  BY <1>0, Kinds, <1>a, QueueAssumption DEF TypeOK, Threads, SleepersInCall, NoLostWakeup, AwakeProducers, AwakeConsumers, queue_add_closed
<1> QED
  BY <1>1, <1>2, <1>3

LEMMA AddStoreStep ==
  ASSUME QInv, NEW p \in Producers, queue_add_store(p)
  PROVE  QInv'
<1> USE DEF QInv
<1>0. /\ op'[p] = Idle
      /\ \A u \in Threads : u # p => op'[u] = op[u]
      /\ DOMAIN op' = Threads
      /\ ret' \in [Threads -> Items \cup {NoItem, "ok", "closed"}]
  BY ReturnFacts DEF queue_add_store, Threads, TypeOK, Slots
<1>a. producer_con' \subseteq producer_con
  BY SignalFacts DEF queue_add_store, producers_after_add
<1>b. consumer_con' \subseteq consumer_con /\ (consumer_con # {} => \E u \in consumer_con : u \notin consumer_con')
  BY SignalFacts DEF queue_add_store, consumers_after_add
<1>c. num_items' < QUEUE_SIZE /\ producer_con # {} => \E u \in producer_con : u \notin producer_con'
  BY SignalFacts DEF queue_add_store, producers_after_add
<1>s. /\ \A u \in producer_con' : u \in producer_con /\ u \in Threads /\ u # p /\ op'[u] = op[u]
      /\ \A u \in consumer_con' : u \in consumer_con /\ u \in Threads /\ u # p /\ op'[u] = op[u]
  BY <1>0, <1>a, <1>b, Kinds, QueueAssumption DEF TypeOK, Threads, SleepersInCall, queue_add_store
<1>1. TypeOK'
  BY <1>0, Kinds, <1>a, <1>b, <1>c, AdvanceType, QueueAssumption DEF TypeOK, Threads, queue_add_store
<1>2. SleepersInCall'
  BY <1>s DEF SleepersInCall
<1>3. NoLostWakeup'
  <2>1. \A u \in producer_con \ producer_con' : u \in AwakeProducers'
    BY <1>0, <1>s, QueueAssumption DEF TypeOK, Threads, SleepersInCall, AwakeProducers, queue_add_store
  <2>2. \A u \in consumer_con \ consumer_con' : u \in AwakeConsumers'
    <3> SUFFICES ASSUME NEW u \in consumer_con, u \notin consumer_con'
                 PROVE  u \in AwakeConsumers'
      OBVIOUS
    <3>1. u \in Consumers /\ u \in Threads
      BY DEF TypeOK, Threads
    <3>2. op[u].kind = "next"
      BY Kinds DEF SleepersInCall
    <3>3. u # p
      BY <3>1, QueueAssumption DEF queue_add_store
    <3>4. op'[u].kind = "next"
      BY <1>0, <3>1, <3>2, <3>3
    <3> QED
      BY <3>1, <3>4 DEF AwakeConsumers
  <2>3. producer_con' # {} => ~closed' /\ (num_items' = QUEUE_SIZE \/ AwakeProducers' # {})
    BY <1>a, <1>c, <2>1, QueueAssumption DEF TypeOK, NoLostWakeup, queue_add_store
  <2>4. consumer_con' # {} => (num_items' = 0 \/ AwakeConsumers' # {})
    BY <1>b, <1>c, <2>2, QueueAssumption DEF TypeOK, NoLostWakeup, queue_add_store
  <2> QED
    BY <2>3, <2>4 DEF NoLostWakeup
<1> QED
  BY <1>1, <1>2, <1>3

LEMMA NextWaitStep ==
  ASSUME QInv, NEW c \in Consumers, queue_next_wait(c)
  PROVE  QInv'
<1> USE DEF QInv
<1>1. TypeOK'
  BY Kinds, AdvanceType, QueueAssumption DEF TypeOK, Threads, queue_next_wait
<1>2. SleepersInCall'
  BY Kinds, QueueAssumption DEF TypeOK, Threads, SleepersInCall, queue_next_wait
<1>3. NoLostWakeup'
  BY Kinds, QueueAssumption DEF TypeOK, Threads, SleepersInCall, NoLostWakeup, AwakeProducers, AwakeConsumers, queue_next_wait
<1> QED
  BY <1>1, <1>2, <1>3

LEMMA NextNothingStep ==
  ASSUME QInv, NEW c \in Consumers, queue_next_nothing(c)
  PROVE  QInv'
<1> USE DEF QInv
<1>0. /\ op'[c] = Idle
      /\ \A u \in Threads : u # c => op'[u] = op[u]
      /\ DOMAIN op' = Threads
      /\ ret' \in [Threads -> Items \cup {NoItem, "ok", "closed"}]
  BY ReturnFacts DEF queue_next_nothing, Threads, TypeOK, Slots
<1>s. /\ \A u \in producer_con' : u \in producer_con /\ u \in Threads /\ u # c /\ op'[u] = op[u]
      /\ \A u \in consumer_con' : u \in consumer_con /\ u \in Threads /\ u # c /\ op'[u] = op[u]
  BY <1>0, Kinds, QueueAssumption DEF TypeOK, Threads, SleepersInCall, queue_next_nothing
<1>1. TypeOK'
  BY <1>0, Kinds, AdvanceType, QueueAssumption DEF TypeOK, Threads, queue_next_nothing
<1>2. SleepersInCall'
  BY <1>s DEF SleepersInCall
<1>3. NoLostWakeup'
  BY <1>0, Kinds, QueueAssumption DEF TypeOK, Threads, SleepersInCall, NoLostWakeup, AwakeProducers, AwakeConsumers, queue_next_nothing
<1> QED
  BY <1>1, <1>2, <1>3

LEMMA NextTakeStep ==
  ASSUME QInv, NEW c \in Consumers, queue_next_take(c)
  PROVE  QInv'
<1> USE DEF QInv
<1>0. /\ op'[c] = Idle
      /\ \A u \in Threads : u # c => op'[u] = op[u]
      /\ DOMAIN op' = Threads
      /\ ret' \in [Threads -> Items \cup {NoItem, "ok", "closed"}]
  BY ReturnFacts DEF queue_next_take, Threads, TypeOK, Slots
<1>a. producer_con' \subseteq producer_con /\ (producer_con # {} => \E u \in producer_con : u \notin producer_con')
  BY SignalFacts DEF queue_next_take, producers_after_take
<1>b. consumer_con' \subseteq consumer_con
  BY SignalFacts DEF queue_next_take, consumers_after_take
<1>c. num_items' > 0 /\ consumer_con # {} => \E u \in consumer_con : u \notin consumer_con'
  BY SignalFacts DEF queue_next_take, consumers_after_take
<1>s. /\ \A u \in producer_con' : u \in producer_con /\ u \in Threads /\ u # c /\ op'[u] = op[u]
      /\ \A u \in consumer_con' : u \in consumer_con /\ u \in Threads /\ u # c /\ op'[u] = op[u]
  BY <1>0, <1>a, <1>b, Kinds, QueueAssumption DEF TypeOK, Threads, SleepersInCall, queue_next_take
<1>1. TypeOK'
  BY <1>0, Kinds, <1>a, <1>b, <1>c, AdvanceType, QueueAssumption DEF TypeOK, Threads, queue_next_take
<1>2. SleepersInCall'
  BY <1>s DEF SleepersInCall
<1>3. NoLostWakeup'
  <2>1. \A u \in producer_con \ producer_con' : u \in AwakeProducers'
    BY <1>0, <1>s, QueueAssumption DEF TypeOK, Threads, SleepersInCall, AwakeProducers, queue_next_take
  <2>2. \A u \in consumer_con \ consumer_con' : u \in AwakeConsumers'
    <3> SUFFICES ASSUME NEW u \in consumer_con, u \notin consumer_con'
                 PROVE  u \in AwakeConsumers'
      OBVIOUS
    <3>1. u \in Consumers /\ u \in Threads
      BY DEF TypeOK, Threads
    <3>2. op[u].kind = "next"
      BY Kinds DEF SleepersInCall
    <3>3. u # c
      BY <3>1, QueueAssumption DEF queue_next_take
    <3>4. op'[u].kind = "next"
      BY <1>0, <3>1, <3>2, <3>3
    <3> QED
      BY <3>1, <3>4 DEF AwakeConsumers
  <2>3. producer_con' # {} => ~closed' /\ (num_items' = QUEUE_SIZE \/ AwakeProducers' # {})
    BY <1>a, <1>c, <2>1, QueueAssumption DEF TypeOK, NoLostWakeup, queue_next_take
  <2>4. consumer_con' # {} => (num_items' = 0 \/ AwakeConsumers' # {})
    BY <1>b, <1>c, <2>2, QueueAssumption DEF TypeOK, NoLostWakeup, queue_next_take
  <2> QED
    BY <2>3, <2>4 DEF NoLostWakeup
<1> QED
  BY <1>1, <1>2, <1>3

LEMMA CloseStep ==
  ASSUME QInv, NEW c \in Consumers, queue_close(c)
  PROVE  QInv'
<1> USE DEF QInv
<1>1. TypeOK'
  BY Kinds, AdvanceType, QueueAssumption DEF TypeOK, Threads, queue_close, woken_by_close
<1>2. SleepersInCall'
  BY Kinds, QueueAssumption DEF TypeOK, Threads, SleepersInCall, queue_close, woken_by_close
<1>3. NoLostWakeup'
  BY Kinds, QueueAssumption DEF TypeOK, Threads, SleepersInCall, NoLostWakeup, AwakeProducers, AwakeConsumers, queue_close, woken_by_close
<1> QED
  BY <1>1, <1>2, <1>3

LEMMA SpuriousStep ==
  ASSUME QInv, NEW t \in Threads, SpuriousWakeup(t)
  PROVE  QInv'
<1> USE DEF QInv
<1>1. TypeOK'
  BY Kinds, AdvanceType, QueueAssumption DEF TypeOK, Threads, SpuriousWakeup
<1>2. SleepersInCall'
  BY Kinds, QueueAssumption DEF TypeOK, Threads, SleepersInCall, SpuriousWakeup
<1>3. NoLostWakeup'
  BY Kinds, QueueAssumption DEF TypeOK, Threads, SleepersInCall, NoLostWakeup, AwakeProducers, AwakeConsumers, SpuriousWakeup
<1> QED
  BY <1>1, <1>2, <1>3

LEMMA QInvStep == QInv /\ [Next]_vars => QInv'
<1> SUFFICES ASSUME QInv, [Next]_vars PROVE QInv'
  OBVIOUS
<1>1. ASSUME NEW p \in Producers, queue_add_item(p) \/ \E x \in Items : CallAdd(p, x) PROVE QInv'
  BY <1>1, CallAddStep, AddWaitStep, AddClosedStep, AddStoreStep DEF queue_add_item
<1>2. ASSUME NEW c \in Consumers, queue_next_item(c) \/ queue_close(c) \/ \E block \in BOOLEAN : CallNext(c, block)
      PROVE  QInv'
  BY <1>2, CallNextStep, NextWaitStep, NextNothingStep, NextTakeStep, CloseStep DEF queue_next_item
<1>3. ASSUME NEW t \in Threads, SpuriousWakeup(t) PROVE QInv'
  BY <1>3, SpuriousStep
<1>4. CASE UNCHANGED vars
  BY <1>4 DEF vars, QInv, TypeOK, SleepersInCall, NoLostWakeup, AwakeProducers, AwakeConsumers
<1> QED
  BY <1>1, <1>2, <1>3, <1>4 DEF Next

(* The invariant QInv of the queue holds whatever the calls of the threads, *)
(* their spurious wake-ups and queue_close do, for any number of threads    *)
(* and any ring size.                                                       *)
THEOREM QueueInvariance == Spec => []QInv
<1>1. Init => QInv
  BY QInvInit
<1>2. QInv /\ [Next]_vars => QInv'
  BY QInvStep
<1> QED
  BY <1>1, <1>2, PTL DEF Spec

(***************************************************************************)
(* Whoever sleeps although the ring would let it go on will be woken: for  *)
(* any number of threads and any ring size.                                *)
(***************************************************************************)
THEOREM WakeupsNotLost == Spec => []NoLostWakeup
<1>1. QInv => NoLostWakeup
  BY DEF QInv
<1> QED
  BY QueueInvariance, <1>1, PTL

-----------------------------------------------------------------------------
(* The ring is used from rem on, and add is behind the last item. *)
RingInv == add = (rem + num_items) % QUEUE_SIZE

(* An index that has gone round the ring at most once. *)
LEMMA Wrap ==
  ASSUME NEW Q \in Nat \ {0}, NEW x \in Nat, x < 2 * Q
  PROVE  x % Q = IF x < Q THEN x ELSE x - Q
<1>1. PICK d \in Nat, r \in 0 .. Q - 1 : d = x \div Q /\ r = x % Q /\ x = d * Q + r
  <2>1. x \div Q \in Nat /\ x % Q \in 0 .. Q - 1
    OBVIOUS
  <2>2. x = Q * (x \div Q) + (x % Q)
    OBVIOUS
  <2> QED
    BY <2>1, <2>2
<1>2. CASE d = 0
  BY <1>1, <1>2
<1>3. CASE d = 1
  BY <1>1, <1>3
<1>4. CASE d > 1
  <2>1. d * Q >= 2 * Q
    <3>1. PICK e \in Nat : d = e + 2
      <4>1. d - 2 \in Nat /\ d = (d - 2) + 2
        BY <1>4
      <4> QED
        BY <4>1
    <3>2. e * Q \in Nat
      OBVIOUS
    <3>3. (e + 2) * Q = e * Q + 2 * Q
      OBVIOUS
    <3> QED
      BY <3>1, <3>2, <3>3
  <2> QED
    BY <1>1, <2>1
<1> QED
  BY <1>1, <1>2, <1>3, <1>4

(* The slot of the k-th item, for an index of the ring. *)
LEMMA SlotFacts ==
  ASSUME NEW i \in Slots, NEW k \in 0 .. QUEUE_SIZE
  PROVE  /\ (i + k) % QUEUE_SIZE = IF i + k < QUEUE_SIZE THEN i + k ELSE i + k - QUEUE_SIZE
         /\ (i + k) % QUEUE_SIZE \in Slots
<1>1. QUEUE_SIZE \in Nat \ {0} /\ i \in Nat /\ k \in Nat /\ i + k \in Nat /\ i + k < 2 * QUEUE_SIZE
  BY QueueAssumption DEF Slots
<1>2. (i + k) % QUEUE_SIZE = IF i + k < QUEUE_SIZE THEN i + k ELSE i + k - QUEUE_SIZE
  <2>1. PICK x \in Nat : x = i + k
    BY <1>1
  <2>2. x % QUEUE_SIZE = IF x < QUEUE_SIZE THEN x ELSE x - QUEUE_SIZE
    BY <1>1, <2>1, Wrap
  <2> QED
    BY <1>1, <2>1, <2>2
<1> QED
  BY <1>1, <1>2 DEF Slots

LEMMA RingInvStep == QInv /\ RingInv /\ [Next]_vars => RingInv'
<1> SUFFICES ASSUME QInv, RingInv, [Next]_vars PROVE RingInv'
  OBVIOUS
<1>1. /\ rem \in Slots /\ num_items \in 0 .. QUEUE_SIZE /\ QUEUE_SIZE \in Nat \ {0} /\ add \in Slots
      /\ rem \in Nat /\ num_items \in Nat /\ add \in Nat
  BY QueueAssumption DEF QInv, TypeOK, Slots
<1>2. CASE UNCHANGED <<add, rem, num_items>>
  BY <1>2 DEF RingInv
<1>3. CASE add' = Advance(add) /\ num_items' = num_items + 1 /\ rem' = rem /\ num_items < QUEUE_SIZE
  <2>1. num_items + 1 \in 0 .. QUEUE_SIZE /\ 1 \in 0 .. QUEUE_SIZE
    BY <1>1, <1>3
  <2>2. (rem + (num_items + 1)) % QUEUE_SIZE =
           IF rem + (num_items + 1) < QUEUE_SIZE THEN rem + (num_items + 1)
           ELSE rem + (num_items + 1) - QUEUE_SIZE
    BY <1>1, <2>1, SlotFacts
  <2>3. (rem + num_items) % QUEUE_SIZE =
           IF rem + num_items < QUEUE_SIZE THEN rem + num_items ELSE rem + num_items - QUEUE_SIZE
    BY <1>1, SlotFacts
  <2>4. (add + 1) % QUEUE_SIZE = IF add + 1 < QUEUE_SIZE THEN add + 1 ELSE add + 1 - QUEUE_SIZE
    BY <1>1, <2>1, SlotFacts
  <2>5. (rem + (num_items + 1)) % QUEUE_SIZE = (add + 1) % QUEUE_SIZE
    BY <1>1, <2>2, <2>3, <2>4 DEF RingInv, Slots
  <2> QED
    BY <1>3, <2>5 DEF RingInv, Advance
<1>4. CASE rem' = Advance(rem) /\ num_items' = num_items - 1 /\ add' = add /\ num_items > 0
  <2>1. num_items - 1 \in 0 .. QUEUE_SIZE /\ 1 \in 0 .. QUEUE_SIZE
    BY <1>1, <1>4
  <2>2. PICK r \in Slots : r = Advance(rem)
    BY <1>1, AdvanceType
  <2>3. r = IF rem + 1 < QUEUE_SIZE THEN rem + 1 ELSE rem + 1 - QUEUE_SIZE
    BY <1>1, <2>1, <2>2, SlotFacts DEF Advance
  <2>4. (r + (num_items - 1)) % QUEUE_SIZE =
           IF r + (num_items - 1) < QUEUE_SIZE THEN r + (num_items - 1)
           ELSE r + (num_items - 1) - QUEUE_SIZE
    BY <2>1, SlotFacts
  <2>5. (rem + num_items) % QUEUE_SIZE =
           IF rem + num_items < QUEUE_SIZE THEN rem + num_items ELSE rem + num_items - QUEUE_SIZE
    BY <1>1, SlotFacts
  <2>6. (r + (num_items - 1)) % QUEUE_SIZE = add
    BY <1>1, <2>3, <2>4, <2>5 DEF RingInv, Slots
  <2> QED
    BY <1>4, <2>2, <2>6 DEF RingInv
<1>5. ASSUME NEW p \in Producers, queue_add_item(p) \/ \E x \in Items : CallAdd(p, x) PROVE RingInv'
  BY <1>2, <1>3, <1>5 DEF queue_add_item, queue_add_wait, queue_add_closed, queue_add_store, CallAdd
<1>6. ASSUME NEW c \in Consumers, queue_next_item(c) \/ queue_close(c) \/ \E block \in BOOLEAN : CallNext(c, block)
      PROVE  RingInv'
  BY <1>2, <1>4, <1>6 DEF queue_next_item, queue_next_wait, queue_next_nothing, queue_next_take,
                          queue_close, CallNext
<1>7. ASSUME NEW t \in Threads, SpuriousWakeup(t) PROVE RingInv'
  BY <1>2, <1>7 DEF SpuriousWakeup
<1>8. CASE UNCHANGED vars
  BY <1>2, <1>8 DEF vars
<1> QED
  BY <1>5, <1>6, <1>7, <1>8 DEF Next

(* What the abstract queue holds, item by item. *)
LEMMA ContentsFacts ==
  ASSUME TypeOK
  PROVE  /\ Contents \in Seq(Items \cup {NoItem}) /\ Len(Contents) = num_items
         /\ DOMAIN Contents = 1 .. num_items
         /\ \A k \in 1 .. num_items :
               /\ (rem + k - 1) % QUEUE_SIZE \in Slots
               /\ Contents[k] = items[(rem + k - 1) % QUEUE_SIZE]
<1>1. /\ rem \in Slots /\ num_items \in 0 .. QUEUE_SIZE /\ QUEUE_SIZE \in Nat \ {0}
      /\ rem \in Nat /\ num_items \in Nat
  BY QueueAssumption DEF TypeOK, Slots
<1>2. ASSUME NEW k \in 1 .. num_items
      PROVE  (rem + k - 1) % QUEUE_SIZE \in Slots
  <2>1. PICK j \in 0 .. QUEUE_SIZE : j = k - 1 /\ rem + k - 1 = rem + j
    BY <1>1
  <2> QED
    BY <1>1, <2>1, SlotFacts
<1>3. \A k \in 1 .. num_items : items[(rem + k - 1) % QUEUE_SIZE] \in Items \cup {NoItem}
  BY <1>2 DEF TypeOK
<1>4. Contents \in [1 .. num_items -> Items \cup {NoItem}]
  BY <1>3 DEF Contents
<1>5. Contents \in Seq(Items \cup {NoItem}) /\ Len(Contents) = num_items
  BY <1>1, <1>4
<1> QED
  BY <1>2, <1>4, <1>5 DEF Contents

(* The store puts its item behind the others. *)
LEMMA StoreAppends ==
  ASSUME QInv, RingInv, TypeOK', NEW p \in Producers, queue_add_store(p)
  PROVE  Contents' = Append(Contents, op[p].item)
<1>1. /\ rem \in Slots /\ num_items \in 0 .. QUEUE_SIZE /\ QUEUE_SIZE \in Nat \ {0}
      /\ rem \in Nat /\ num_items \in Nat /\ add \in Slots /\ num_items < QUEUE_SIZE
      /\ rem' = rem /\ num_items' = num_items + 1 /\ add = (rem + num_items) % QUEUE_SIZE
  BY QueueAssumption DEF QInv, TypeOK, RingInv, Slots, queue_add_store
<1>2. PICK x : x = op[p].item
  OBVIOUS
<1>3. items'[add] = x /\ \A i \in Slots : i # add => items'[i] = items[i]
  BY <1>1, <1>2 DEF queue_add_store, QInv, TypeOK
<1>4. /\ Contents \in Seq(Items \cup {NoItem}) /\ Len(Contents) = num_items
      /\ DOMAIN Contents = 1 .. num_items
      /\ \A k \in 1 .. num_items :
            /\ (rem + k - 1) % QUEUE_SIZE \in Slots
            /\ Contents[k] = items[(rem + k - 1) % QUEUE_SIZE]
  BY ContentsFacts DEF QInv
<1>5. Contents' = [k \in 1 .. num_items + 1 |-> items'[(rem + k - 1) % QUEUE_SIZE]]
  BY <1>1 DEF Contents
<1>6. ASSUME NEW k \in 1 .. num_items
      PROVE  Contents'[k] = Contents[k]
  <2>1. PICK j \in 0 .. QUEUE_SIZE : j = k - 1 /\ j < num_items /\ rem + k - 1 = rem + j
    BY <1>1
  <2>2. (rem + j) % QUEUE_SIZE = IF rem + j < QUEUE_SIZE THEN rem + j ELSE rem + j - QUEUE_SIZE
    BY <1>1, SlotFacts
  <2>3. (rem + num_items) % QUEUE_SIZE =
           IF rem + num_items < QUEUE_SIZE THEN rem + num_items ELSE rem + num_items - QUEUE_SIZE
    BY <1>1, SlotFacts
  <2>4. (rem + j) % QUEUE_SIZE # add
    BY <1>1, <2>1, <2>2, <2>3 DEF Slots
  <2>5. (rem + k - 1) % QUEUE_SIZE # add
    BY <2>1, <2>4
  <2>6. Contents'[k] = items'[(rem + k - 1) % QUEUE_SIZE]
    BY <1>1, <1>5
  <2> QED
    BY <1>3, <1>4, <2>5, <2>6
<1>7. Contents'[num_items + 1] = x
  <2>1. Contents'[num_items + 1] = items'[(rem + (num_items + 1) - 1) % QUEUE_SIZE]
    BY <1>1, <1>5
  <2>2. rem + (num_items + 1) - 1 = rem + num_items
    BY <1>1
  <2> QED
    BY <1>1, <1>3, <2>1, <2>2
<1>8. PICK old, new : old = Contents /\ new = Contents'
  OBVIOUS
<1>9. /\ old \in Seq(Items \cup {NoItem}) /\ Len(old) = num_items
      /\ new = [k \in 1 .. num_items + 1 |-> new[k]]
      /\ \A k \in 1 .. num_items : new[k] = old[k]
      /\ new[num_items + 1] = x
  BY <1>4, <1>5, <1>6, <1>7, <1>8
<1>10. new = Append(old, x)
  <2>1. PICK S : S = Items \cup {NoItem, x}
    OBVIOUS
  <2>2. old \in Seq(S) /\ x \in S
    BY <1>9, <2>1
  <2>3. /\ Append(old, x) \in Seq(S) /\ Len(Append(old, x)) = num_items + 1
        /\ \A k \in 1 .. num_items : Append(old, x)[k] = old[k]
        /\ Append(old, x)[num_items + 1] = x
    BY <1>1, <1>9, <2>2
  <2>4. \A k \in 1 .. num_items + 1 : new[k] = Append(old, x)[k] /\ new[k] \in S
    BY <1>1, <1>9, <2>2, <2>3, SMTT(30)
  <2>5. new \in [1 .. num_items + 1 -> S]
    BY <1>9, <2>4
  <2>6. new \in Seq(S) /\ Len(new) = num_items + 1
    BY <1>1, <2>5
  <2> QED
    BY <2>3, <2>4, <2>6, SeqEqual
<1> QED
  BY <1>2, <1>8, <1>10

(* The removal takes the first item. *)
LEMMA TakeRemoves ==
  ASSUME QInv, RingInv, NEW c \in Consumers, queue_next_take(c)
  PROVE  Contents # << >> /\ Contents' = Tail(Contents) /\ items[rem] = Head(Contents)
<1>1. /\ rem \in Slots /\ num_items \in 0 .. QUEUE_SIZE /\ QUEUE_SIZE \in Nat \ {0}
      /\ rem \in Nat /\ num_items \in Nat \ {0} /\ items' = items
      /\ rem' = Advance(rem) /\ num_items' = num_items - 1
  BY QueueAssumption DEF QInv, TypeOK, RingInv, Slots, queue_next_take
<1>2. PICK r \in Slots : r = Advance(rem)
  BY <1>1, AdvanceType
<1>3. r = IF rem + 1 < QUEUE_SIZE THEN rem + 1 ELSE rem + 1 - QUEUE_SIZE
  <2>1. 1 \in 0 .. QUEUE_SIZE
    BY <1>1
  <2> QED
    BY <1>1, <1>2, <2>1, SlotFacts DEF Advance
<1>4. /\ Contents \in Seq(Items \cup {NoItem}) /\ Len(Contents) = num_items
      /\ DOMAIN Contents = 1 .. num_items
      /\ \A k \in 1 .. num_items :
            /\ (rem + k - 1) % QUEUE_SIZE \in Slots
            /\ Contents[k] = items[(rem + k - 1) % QUEUE_SIZE]
  BY ContentsFacts DEF QInv
<1>5. Contents' = [k \in 1 .. num_items - 1 |-> items[(r + k - 1) % QUEUE_SIZE]]
  BY <1>1, <1>2 DEF Contents
<1>6. ASSUME NEW k \in 1 .. num_items - 1
      PROVE  Contents'[k] = Contents[k + 1]
  <2>1. PICK j \in 0 .. QUEUE_SIZE : j = k - 1 /\ r + k - 1 = r + j /\ k = j + 1
    BY <1>1, <1>2 DEF Slots
  <2>2. PICK i \in 0 .. QUEUE_SIZE : i = k /\ rem + (k + 1) - 1 = rem + i /\ k + 1 \in 1 .. num_items
    BY <1>1
  <2>3. (r + j) % QUEUE_SIZE = IF r + j < QUEUE_SIZE THEN r + j ELSE r + j - QUEUE_SIZE
    BY SlotFacts
  <2>4. (rem + i) % QUEUE_SIZE = IF rem + i < QUEUE_SIZE THEN rem + i ELSE rem + i - QUEUE_SIZE
    BY <1>1, SlotFacts
  <2>5. (r + j) % QUEUE_SIZE = (rem + i) % QUEUE_SIZE
    BY <1>1, <1>3, <2>1, <2>2, <2>3, <2>4 DEF Slots
  <2>6. Contents'[k] = items[(r + j) % QUEUE_SIZE]
    BY <1>5, <2>1
  <2>7. Contents[k + 1] = items[(rem + i) % QUEUE_SIZE]
    BY <1>4, <2>2
  <2> QED
    BY <2>5, <2>6, <2>7
<1>7. Contents[1] = items[rem]
  <2>1. Contents[1] = items[(rem + 1 - 1) % QUEUE_SIZE]
    BY <1>1, <1>4
  <2>2. PICK j \in 0 .. QUEUE_SIZE : j = 0 /\ rem + 1 - 1 = rem + j
    BY <1>1
  <2>3. (rem + j) % QUEUE_SIZE = rem
    <3>1. (rem + j) % QUEUE_SIZE = IF rem + j < QUEUE_SIZE THEN rem + j ELSE rem + j - QUEUE_SIZE
      BY <1>1, SlotFacts
    <3> QED
      BY <1>1, <2>2, <3>1 DEF Slots
  <2> QED
    BY <2>1, <2>2, <2>3
<1>8. PICK old, new : old = Contents /\ new = Contents'
  OBVIOUS
<1>9. /\ old \in Seq(Items \cup {NoItem}) /\ Len(old) = num_items
      /\ new = [k \in 1 .. num_items - 1 |-> new[k]]
      /\ \A k \in 1 .. num_items - 1 : new[k] = old[k + 1]
      /\ old[1] = items[rem]
  BY <1>4, <1>5, <1>6, <1>7, <1>8
<1>10. old # << >> /\ new = Tail(old) /\ items[rem] = Head(old)
  <2>1. PICK S : S = Items \cup {NoItem}
    OBVIOUS
  <2>2. old # << >> /\ items[rem] = Head(old)
    BY <1>1, <1>9
  <2>3. /\ Tail(old) \in Seq(S) /\ Len(Tail(old)) = num_items - 1
        /\ \A k \in 1 .. num_items - 1 : Tail(old)[k] = old[k + 1]
    BY <1>1, <1>9, <2>1, <2>2
  <2>4. \A k \in 1 .. num_items - 1 : new[k] = Tail(old)[k] /\ new[k] \in S
    BY <1>1, <1>9, <2>1, <2>3
  <2>5. new \in [1 .. num_items - 1 -> S]
    BY <1>9, <2>4
  <2>6. new \in Seq(S) /\ Len(new) = num_items - 1
    BY <1>1, <2>5
  <2> QED
    BY <2>2, <2>3, <2>4, <2>6, SeqEqual
<1> QED
  BY <1>8, <1>10

(* Every step of the ring is one of the abstract queue, or none: waiting,   *)
(* waking and the indices are not seen.                                     *)
LEMMA FifoStep ==
  ASSUME QInv, RingInv, QInv', [Next]_vars
  PROVE  [Fifo!Next]_(Fifo!vars)
<1> USE DEF Fifo!Next, Fifo!vars, Fifo!Call, Fifo!Return, Fifo!Add, Fifo!Refuse, Fifo!Take,
            Fifo!TakeNothing, Fifo!Close, Fifo!Idle
<1>1. CASE UNCHANGED <<items, num_items, rem, closed, op, ret>>
  BY <1>1 DEF Contents
<1>2. ASSUME NEW p \in Producers, NEW x \in Items, CallAdd(p, x) PROVE Fifo!Call(p)
  <2>1. UNCHANGED <<Contents, closed, ret>>
    BY <1>2 DEF CallAdd, Contents
  <2>2. AddCall(x) \in Fifo!Calls \ {Idle}
    BY Kinds DEF Fifo!Calls, Fifo!AddCall, AddCall
  <2> QED
    BY <1>2, <2>1, <2>2 DEF CallAdd, Idle
<1>3. ASSUME NEW c \in Consumers, NEW b \in BOOLEAN, CallNext(c, b) PROVE Fifo!Call(c)
  <2>1. UNCHANGED <<Contents, closed, ret>>
    BY <1>3 DEF CallNext, Contents
  <2>2. NextCall(b) \in Fifo!Calls \ {Idle}
    BY Kinds DEF Fifo!Calls, Fifo!NextCall, NextCall
  <2> QED
    BY <1>3, <2>1, <2>2 DEF CallNext, Idle
<1>4. ASSUME NEW p \in Producers, queue_add_closed(p) PROVE Fifo!Refuse(p)
  <2>1. UNCHANGED Contents
    BY <1>4 DEF queue_add_closed, Contents
  <2> QED
    BY <1>4, <2>1 DEF queue_add_closed, Return, Idle
<1>5. ASSUME NEW p \in Producers, queue_add_store(p) PROVE Fifo!Add(p)
  <2>1. Contents' = Append(Contents, op[p].item)
    BY <1>5, StoreAppends DEF QInv
  <2>2. Len(Contents) < QUEUE_SIZE
    BY <1>5, ContentsFacts DEF QInv, queue_add_store
  <2> QED
    BY <1>5, <2>1, <2>2 DEF queue_add_store, Return, Idle
<1>6. ASSUME NEW c \in Consumers, queue_next_nothing(c) PROVE Fifo!TakeNothing(c)
  <2>1. UNCHANGED Contents
    BY <1>6 DEF queue_next_nothing, Contents
  <2>2. Contents = << >>
    BY <1>6, ContentsFacts DEF QInv, queue_next_nothing
  <2> QED
    BY <1>6, <2>1, <2>2 DEF queue_next_nothing, Return, Idle, NextCall, Fifo!NextCall
<1>7. ASSUME NEW c \in Consumers, queue_next_take(c) PROVE Fifo!Take(c)
  <2>1. Contents # << >> /\ Contents' = Tail(Contents) /\ items[rem] = Head(Contents)
    BY <1>7, TakeRemoves
  <2> QED
    BY <1>7, <2>1 DEF queue_next_take, Return, Idle
<1>8. ASSUME NEW c \in Consumers, queue_close(c) PROVE Fifo!Close
  BY <1>8 DEF queue_close, Contents
<1>9. ASSUME NEW t, queue_add_wait(t) \/ queue_next_wait(t) \/ SpuriousWakeup(t)
      PROVE  UNCHANGED <<items, num_items, rem, closed, op, ret>>
  BY <1>9 DEF queue_add_wait, queue_next_wait, SpuriousWakeup
<1>10. CASE UNCHANGED vars
  BY <1>1, <1>10 DEF vars
<1> QED
  <2> HIDE DEF Fifo!vars, Fifo!Call, Fifo!Return, Fifo!Add, Fifo!Refuse, Fifo!Take,
               Fifo!TakeNothing, Fifo!Close, Fifo!Idle
  <2> QED
    BY <1>1, <1>2, <1>3, <1>4, <1>5, <1>6, <1>7, <1>8, <1>9, <1>10
       DEF Next, queue_add_item, queue_next_item, Threads

(* The ring buffer implements the bounded queue of queue.h for any number   *)
(* of threads and any ring size: every call takes effect once, in one step, *)
(* and items leave in the order in which they entered.                      *)
THEOREM RingIsFifo == Spec => ImplementsFifo
<1>1. Init => QInv /\ RingInv /\ Fifo!Init
  <2> SUFFICES ASSUME Init PROVE QInv /\ RingInv /\ Fifo!Init
    OBVIOUS
  <2>1. QInv
    BY QInvInit
  <2>2. RingInv
    <3>1. 0 % QUEUE_SIZE = 0
      BY QueueAssumption
    <3> QED
      BY <3>1 DEF Init, RingInv
  <2>3. Contents = << >>
    BY <2>1, ContentsFacts DEF QInv, Init
  <2> QED
    BY <2>1, <2>2, <2>3 DEF Init, Fifo!Init, Fifo!Idle, Idle
<1>2. QInv /\ RingInv /\ [Next]_vars => QInv' /\ RingInv'
  BY QInvStep, RingInvStep
<1>3. QInv /\ RingInv /\ QInv' /\ [Next]_vars => [Fifo!Next]_(Fifo!vars)
  BY FifoStep
<1> QED
  BY <1>1, <1>2, <1>3, PTL DEF Spec, ImplementsFifo, Fifo!Spec
=============================================================================
