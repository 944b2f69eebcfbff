---------------------------- MODULE BoundedFifo ----------------------------
(***************************************************************************)
(* What c/sharded_ohtable/queue.h promises: a bounded first-in first-out   *)
(* queue shared by threads.  A call is pending in op from its invocation   *)
(* until it takes effect in one indivisible step, which also fixes what it *)
(* returns.  How a caller sleeps and is woken is not visible here.         *)
(***************************************************************************)
EXTENDS Naturals, Sequences

CONSTANTS
    Threads,        \* the callers
    Items,          \* what the queue carries
    Size,           \* its capacity
    NoItem          \* returned by a non-blocking take from an empty queue

VARIABLES
    fifo,           \* the queued items, oldest first
    closed,         \* set once, refuses every later add
    op,             \* op[t]: the pending call of t
    ret             \* ret[t]: what the last finished call of t returned

vars == <<fifo, closed, op, ret>>

Idle       == [kind |-> "idle"]
AddCall(x) == [kind |-> "add", item |-> x]
NextCall(b) == [kind |-> "next", block |-> b]
Calls      == {Idle} \cup {AddCall(x) : x \in Items} \cup {NextCall(b) : b \in BOOLEAN}

Init ==
    /\ fifo = << >>
    /\ closed = FALSE
    /\ op = [t \in Threads |-> Idle]
    /\ ret = [t \in Threads |-> NoItem]

Call(t) ==
    /\ op[t] = Idle
    /\ \E c \in Calls \ {Idle} : op' = [op EXCEPT ![t] = c]
    /\ UNCHANGED <<fifo, closed, ret>>

Return(t, v) ==
    /\ op' = [op EXCEPT ![t] = Idle]
    /\ ret' = [ret EXCEPT ![t] = v]

Add(t) ==
    /\ op[t].kind = "add" /\ ~closed /\ Len(fifo) < Size
    /\ fifo' = Append(fifo, op[t].item)
    /\ Return(t, "ok")
    /\ UNCHANGED closed

Refuse(t) ==
    /\ op[t].kind = "add" /\ closed
    /\ Return(t, "closed")
    /\ UNCHANGED <<fifo, closed>>

Take(t) ==
    /\ op[t].kind = "next" /\ fifo # << >>
    /\ fifo' = Tail(fifo)
    /\ Return(t, Head(fifo))
    /\ UNCHANGED closed

TakeNothing(t) ==
    /\ op[t] = NextCall(FALSE) /\ fifo = << >>
    /\ Return(t, NoItem)
    /\ UNCHANGED <<fifo, closed>>

Close ==
    /\ closed' = TRUE
    /\ UNCHANGED <<fifo, op, ret>>

Next ==
    \/ Close
    \/ \E t \in Threads :
          Call(t) \/ Add(t) \/ Refuse(t) \/ Take(t) \/ TakeNothing(t)

Spec == Init /\ [][Next]_vars
=============================================================================
