------------------------- MODULE ShardedTableProofs -------------------------
(***************************************************************************)
(* What the threads that share the table may rely on, for any number of    *)
(* clients, shards, keys and records. TableInv is the inductive invariant: *)
(* CallsInv, QueryLinearizable and LoadApplied follow from it.  Then what  *)
(* the algorithms compute on words and batches of any size: the divisions  *)
(* are exact, and batches are complete and answered.                       *)
(***************************************************************************)
EXTENDS ShardedTable, Batching, FiniteSetTheorems, SequenceTheorems, NaturalsInduction,
        WellFoundedInduction, TLAPS

Contents == Vals \cup {Absent}
Batches == UNION {[D -> Contents] : D \in SUBSET Keys}
Calling ==
    [pc : {"submit", "wait", "waiting", "collect", "count"},
     type : {"query", "insert", "clear", "statistics"},
     batch : Batches, sh : Shards, answer : Batches, failed : SUBSET Shards]
Request == [from : Threads, type : {"query", "insert", "clear", "wait"}]
Loading ==
    [pc : {"clear", "check", "put", "returned"},
     result : {"none", "REQUEST_PB", "SECRET_TOO_LARGE", "TUPLES_INVALID", "SUCCESS", "ERROR"},
     msg : Loads, before : [Keys -> Contents], failed : SUBSET Shards, done : Nat]

Types ==
    /\ table \in [Keys -> Contents]
    /\ num_items \in [Shards -> Nat]
    /\ requests \in [Shards -> Seq(Request)]
    /\ call \in [Threads -> {Idle} \cup Calling]
    /\ load \in [pc : {"idle"}, done : Nat] \cup Loading
    /\ stats \in [Clients -> [sh : 0 .. NUM_SHARDS, sum : Nat, quiet : BOOLEAN]]
    /\ failures \in Nat
    /\ seen \in [Threads -> [Keys -> SUBSET Contents]]

(* Who makes which calls, and what the load is doing in its own. *)
RolesInv ==
    /\ \A c \in Clients : call[c] # Idle =>
          /\ call[c].type \in {"query", "statistics"}
          /\ call[c].type = "statistics" <=> call[c].pc = "count"
    /\ call[Loader] # Idle =>
          /\ call[Loader].pc # "count"
          /\ \/ /\ call[Loader].type = "clear" /\ load.pc = "clear"
                /\ DOMAIN call[Loader].batch = {}
             \/ /\ call[Loader].type = "insert" /\ load.pc = "put"
                /\ call[Loader].batch = load.msg.records
    /\ load.pc \in {"clear", "put"} => call[Loader] # Idle
    /\ \A t \in Threads : call[t] # Idle =>
          /\ DOMAIN call[t].answer = DOMAIN call[t].batch
          /\ call[t].pc = "collect" => call[t].sh = NUM_SHARDS - 1

(* Where the requests of a thread may be: a batch is at the shards that it  *)
(* was given to and that have not been waited for, a clear at the shard     *)
(* that the thread is at; the wait for a shard is behind the request that   *)
(* is waited for, and there is one of each.                                 *)
Placed(sh, i) ==
    LET t == requests[sh][i].from
    IN  /\ call[t] # Idle /\ call[t].pc \in {"submit", "wait", "waiting"}
        /\ requests[sh][i].type = "wait" => call[t].pc = "waiting" /\ call[t].sh = sh
        /\ requests[sh][i].type # "wait" =>
              /\ requests[sh][i].type = call[t].type
              /\ call[t].pc = "submit" => call[t].type # "clear" /\ sh < call[t].sh
              /\ call[t].pc # "submit" => call[t].sh <= sh
              /\ call[t].type = "clear" => call[t].sh = sh
Ordered(sh, i, j) ==
    i < j /\ requests[sh][i].from = requests[sh][j].from =>
        requests[sh][i].type # "wait" /\ requests[sh][j].type = "wait"
QueueInv ==
    \A sh \in Shards : \A i \in DOMAIN requests[sh] :
        Placed(sh, i) /\ \A j \in DOMAIN requests[sh] : Ordered(sh, i, j)

(* The shard has handled the batch of t, or the clear. *)
Submitted(t, sh) ==
    \/ sh < call[t].sh
    \/ call[t].pc # "submit" /\ (call[t].type = "clear" => sh <= call[t].sh)
Handled(t, sh) ==
    /\ call[t] # Idle /\ Submitted(t, sh)
    /\ \A i \in DOMAIN requests[sh] :
          ~(requests[sh][i].from = t /\ requests[sh][i].type # "wait")

(* A shard that has handled a query has answered what it saw, or failed. *)
AnswerInv ==
    \A c \in Clients : call[c] # Idle /\ call[c].type = "query" =>
        /\ \A k \in Keys : table[k] \in seen[c][k]
        /\ \A k \in DOMAIN call[c].batch : Handled(c, ShardOf[k]) =>
              call[c].answer[k] \in seen[c][k] \/ ShardOf[k] \in call[c].failed

(* What the table holds for a key while a load is under way. *)
Holds(k, v) == table[k] = v \/ (table[k] = Absent /\ failures > 0)
Cleared(k) == IF load.msg.clear_all THEN Absent ELSE load.before[k]
Loaded(k) == IF k \in DOMAIN load.msg.records THEN load.msg.records[k] ELSE Cleared(k)
LoadInv ==
    /\ load.pc \in {"check", "clear", "put"} => load.result = "none" /\ load.failed = {}
    /\ load.pc = "check" => ~load.msg.clear_all /\ \A k \in Keys : Holds(k, Cleared(k))
    /\ load.pc = "clear" =>
          load.msg.clear_all
          /\ \A k \in Keys : Handled(Loader, ShardOf[k]) => Holds(k, Cleared(k))
    /\ load.pc = "put" => \A k \in Keys :
          ShardOf[k] \notin call[Loader].failed =>
              Holds(k, IF Handled(Loader, ShardOf[k]) THEN Loaded(k) ELSE Cleared(k))
    /\ LoadApplied

(* The counter of a shard, and what a sum of the counters has counted. *)
Present(sh) == {k \in Keys : ShardOf[k] = sh /\ table[k] # Absent}
PresentBelow(n) == {k \in Keys : ShardOf[k] < n /\ table[k] # Absent}
StatsInv ==
    /\ failures = 0 => \A sh \in Shards : num_items[sh] = 1 + Cardinality(Present(sh))
    /\ \A c \in Clients :
          /\ stats[c].sh = 0 => stats[c].sum = 0
          /\ stats[c].quiet /\ failures = 0 =>
                stats[c].sum = stats[c].sh + Cardinality(PresentBelow(stats[c].sh))

TableInv ==
    Types /\ RolesInv /\ QueueInv /\ AnswerInv /\ LoadInv /\ SecretKept /\ StatsInv

-----------------------------------------------------------------------------
(* Batches and calls that the operations build. *)
LEMMA BatchType ==
    ASSUME NEW D \in SUBSET Keys, NEW f \in [D -> Contents]
    PROVE  f \in Batches
  BY DEF Batches

LEMMA BatchParts ==
    ASSUME NEW b \in Batches
    PROVE  DOMAIN b \in SUBSET Keys /\ b \in [DOMAIN b -> Contents]
  BY DEF Batches

LEMMA CallType ==
    ASSUME NEW type \in {"query", "insert", "clear", "statistics"}, NEW b \in Batches
    PROVE  /\ Call(type, b) \in Calling
           /\ Call(type, b).pc = "submit" /\ Call(type, b).type = type
           /\ Call(type, b).batch = b /\ Call(type, b).sh = 0
           /\ DOMAIN Call(type, b).answer = DOMAIN b /\ Call(type, b).failed = {}
  <1>1. [k \in DOMAIN b |-> Absent] \in Batches
    BY BatchParts, BatchType DEF Contents
  <1>2. 0 \in Shards
    BY ShardSetAssumption DEF Shards
  <1> QED
    BY <1>1, <1>2 DEF Call, Calling

LEMMA NoKeysType == NoKeys \in Batches
  <1>1. {} \in SUBSET Keys /\ NoKeys \in [{} -> Contents]
    BY DEF NoKeys
  <1> QED
    BY <1>1, BatchType

(* A call that is not idle is a record of a call. *)
LEMMA CallParts ==
    ASSUME Types, NEW t \in Threads, call[t] # Idle
    PROVE  /\ call[t] \in Calling
           /\ call[t].sh \in Shards /\ call[t].failed \in SUBSET Shards
           /\ call[t].batch \in Batches /\ call[t].answer \in Batches
  BY DEF Types, Calling

LEMMA IdleCall ==
    ASSUME NEW c \in Calling
    PROVE  c # Idle
  BY DEF Calling, Idle

LEMMA EmptySum ==
    /\ NoStats = [sh |-> 0, sum |-> 0, quiet |-> TRUE]
    /\ [NoStats EXCEPT !.sh = first_shard] = NoStats
    /\ NoStats \in [sh : 0 .. NUM_SHARDS, sum : Nat, quiet : BOOLEAN]
  <1>1. NoStats = [sh |-> 0, sum |-> 0, quiet |-> TRUE]
    BY DEF NoStats
  <1>2. [NoStats EXCEPT !.sh = first_shard] = NoStats
    BY DEF NoStats, first_shard
  <1>3. 0 \in 0 .. NUM_SHARDS /\ 0 \in Nat /\ TRUE \in BOOLEAN
    BY ShardSetAssumption
  <1>4. NoStats \in [sh : 0 .. NUM_SHARDS, sum : Nat, quiet : BOOLEAN]
    BY <1>1, <1>3, Zenon
  <1> QED
    BY <1>1, <1>2, <1>4

(* The number of records in parts of the table that have no key in common. *)
LEMMA Disjoint ==
    ASSUME NEW S \in SUBSET Keys, NEW T \in SUBSET Keys, S \cap T = {}
    PROVE  /\ Cardinality(S) \in Nat /\ Cardinality(T) \in Nat
           /\ Cardinality(S \cup T) = Cardinality(S) + Cardinality(T)
  <1>1. IsFiniteSet(S) /\ IsFiniteSet(T)
    BY FS_Subset, ShardedTableAssumption
  <1>2. Cardinality(S \cup T) = Cardinality(S) + Cardinality(T) - Cardinality({})
    BY <1>1, FS_Union
  <1> QED
    BY <1>1, <1>2, FS_EmptySet, FS_CardinalityType

LEMMA RequestParts ==
    ASSUME Types, NEW sh \in Shards, NEW i \in DOMAIN requests[sh]
    PROVE  /\ i \in Nat \ {0} /\ requests[sh][i] \in Request /\ requests[sh][i].from \in Threads
           /\ requests[sh][i].type \in {"query", "insert", "clear", "wait"}
  <1>1. i \in Nat \ {0} /\ requests[sh][i] \in Request
    BY DEF Types
  <1> QED
    BY <1>1 DEF Request

-----------------------------------------------------------------------------
(* What leaves a conjunct of the invariant as it is. *)
LEMMA HandledSame ==
    ASSUME NEW t \in Threads, call'[t] = call[t], requests' = requests, NEW sh \in Shards
    PROVE  Handled(t, sh)' <=> Handled(t, sh)
  BY DEF Handled, Submitted

LEMMA QueueApart ==
    ASSUME TableInv, requests' = requests, NEW t,
           call[t] = Idle \/ call[t].pc \in {"collect", "count"},
           \A u \in Threads : u # t => call'[u] = call[u]
    PROVE  QueueInv'
  <1>1. \A sh \in Shards : \A i \in DOMAIN requests[sh] :
           requests[sh][i].from \in Threads /\ requests[sh][i].from # t
    BY RequestParts DEF TableInv, QueueInv, Placed
  <1> QED
    BY <1>1 DEF TableInv, QueueInv, Placed, Ordered

LEMMA AnswerSame ==
    ASSUME AnswerInv, table' = table,
           \A c \in Clients :
              \/ call'[c] = Idle \/ call'[c].type # "query"
              \/ /\ call[c] # Idle /\ call[c].type = "query"
                 /\ call'[c].batch = call[c].batch /\ call'[c].answer = call[c].answer
                 /\ call'[c].failed = call[c].failed /\ seen'[c] = seen[c]
                 /\ \A sh \in Shards : Handled(c, sh)' => Handled(c, sh),
           \A c \in Clients : call[c] # Idle => call[c].batch \in Batches
    PROVE  AnswerInv'
  <1> SUFFICES ASSUME NEW c \in Clients, call'[c] # Idle, call'[c].type = "query"
               PROVE  /\ \A k \in Keys : table'[k] \in seen'[c][k]
                      /\ \A k \in DOMAIN call'[c].batch : Handled(c, ShardOf[k])' =>
                            call'[c].answer[k] \in seen'[c][k] \/ ShardOf[k] \in call'[c].failed
    BY DEF AnswerInv
  <1>1. \A k \in DOMAIN call[c].batch : ShardOf[k] \in Shards
    BY BatchParts, ShardedTableAssumption
  <1> QED
    BY <1>1 DEF AnswerInv

LEMMA LoadSame ==
    ASSUME LoadInv, UNCHANGED <<table, load, failures>>,
           load.pc = "put" => call'[Loader].failed = call[Loader].failed,
           load.pc \in {"clear", "put"} =>
              \A sh \in Shards : Handled(Loader, sh)' <=> Handled(Loader, sh)
    PROVE  LoadInv'
  <1>1. \A k \in Keys : ShardOf[k] \in Shards
    BY ShardedTableAssumption
  <1>2. LoadApplied'
    BY DEF LoadInv, LoadApplied, Expected
  <1> QED
    BY <1>1, <1>2 DEF LoadInv, Holds, Cleared, Loaded

LEMMA StatsSame ==
    ASSUME StatsInv, UNCHANGED <<table, num_items, failures>>,
           \A c \in Clients : stats'[c] = stats[c] \/ (stats'[c].sh = 0 /\ stats'[c].sum = 0)
    PROVE  StatsInv'
  <1>1. \A sh : Present(sh)' = Present(sh)
    BY DEF Present
  <1>2. \A n : PresentBelow(n)' = PresentBelow(n)
    BY DEF PresentBelow
  <1>3. PresentBelow(0) = {}
    BY ShardedTableAssumption DEF PresentBelow, Shards
  <1>4. Cardinality(PresentBelow(0)) = 0
    BY <1>3, FS_EmptySet
  <1>5. ASSUME NEW c \in Clients
        PROVE  /\ stats'[c].sh = 0 => stats'[c].sum = 0
               /\ stats'[c].quiet /\ failures' = 0 =>
                    stats'[c].sum = stats'[c].sh + Cardinality(PresentBelow(stats'[c].sh))
    BY <1>4 DEF StatsInv
  <1> QED
    BY <1>1, <1>2, <1>5 DEF StatsInv

-----------------------------------------------------------------------------
(* Nothing has happened yet. *)
LEMMA InitTableInv == Init => TableInv
  <1> SUFFICES ASSUME Init PROVE TableInv
    OBVIOUS
  <1> USE ShardedTableAssumption, ShardSetAssumption DEF Init
  <1>1. Types
    <2>1. /\ requests \in [Shards -> Seq(Request)] /\ num_items \in [Shards -> Nat]
          /\ call \in [Threads -> {Idle} \cup Calling]
      OBVIOUS
    <2>2. /\ table \in [Keys -> Contents] /\ seen \in [Threads -> [Keys -> SUBSET Contents]]
      BY DEF Contents
    <2>3. stats \in [Clients -> [sh : 0 .. NUM_SHARDS, sum : Nat, quiet : BOOLEAN]]
      BY DEF NoStats
    <2>4. load \in [pc : {"idle"}, done : Nat] /\ failures \in Nat
      OBVIOUS
    <2> QED
      BY <2>1, <2>2, <2>3, <2>4 DEF Types
  <1>2. RolesInv /\ QueueInv /\ AnswerInv
    BY DEF RolesInv, QueueInv, Placed, Ordered, AnswerInv, Threads
  <1>3. LoadInv /\ SecretKept
    BY DEF LoadInv, LoadApplied, SecretKept
  <1>4. StatsInv
    <2>1. \A sh \in Shards : Present(sh) = {}
      BY DEF Present
    <2>2. PresentBelow(0) = {}
      BY DEF PresentBelow, Shards
    <2>3. \A c \in Clients : stats[c] = [sh |-> 0, sum |-> 0, quiet |-> TRUE]
      BY DEF NoStats
    <2>4. /\ \A sh \in Shards : Cardinality(Present(sh)) = 0
          /\ Cardinality(PresentBelow(0)) = 0
      BY <2>1, <2>2, FS_EmptySet
    <2> QED
      BY <2>3, <2>4 DEF StatsInv
  <1> QED
    BY <1>1, <1>2, <1>3, <1>4 DEF TableInv

(* A client begins a query: from here on seen has what the keys are. *)
LEMMA InvGetBatch ==
    ASSUME TableInv, NEW c \in Clients, NEW keys \in Queries, get_batch(c, keys)
    PROVE  TableInv'
  <1> USE DEF get_batch
  <1>0. PICK r \in Calling : /\ call' = [call EXCEPT ![c] = r]
                             /\ r.pc = "submit" /\ r.type = "query" /\ r.sh = 0
                             /\ DOMAIN r.answer = DOMAIN r.batch
    <2>1. [k \in keys |-> Absent] \in Batches
      BY ShardedTableAssumption, BatchType DEF Contents
    <2> DEFINE r0 == Call("query", [k \in keys |-> Absent])
    <2>2. call' = [call EXCEPT ![c] = r0]
      OBVIOUS
    <2>3. /\ r0 \in Calling /\ r0.pc = "submit" /\ r0.type = "query" /\ r0.sh = 0
          /\ DOMAIN r0.answer = DOMAIN r0.batch
      BY <2>1, CallType
    <2> QED
      BY <2>2, <2>3
  <1>1. r # Idle /\ call[c] = Idle /\ c \in Threads /\ Loader \in Threads /\ c # Loader
    BY IdleCall, ShardedTableAssumption DEF Threads
  <1>2. \A t \in Threads : call'[t] = IF t = c THEN r ELSE call[t]
    BY <1>0 DEF TableInv, Types
  <1>3. Types'
    <2>1. seen' \in [Threads -> [Keys -> SUBSET Contents]]
      <3>1. [k \in Keys |-> {table[k]}] \in [Keys -> SUBSET Contents]
        BY DEF TableInv, Types
      <3> QED
        BY <3>1 DEF begins, TableInv, Types
    <2> QED
      BY <1>0, <2>1 DEF TableInv, Types
  <1>4. RolesInv'
    BY <1>0, <1>1, <1>2 DEF TableInv, RolesInv, Threads
  <1>5. QueueInv'
    BY <1>1, <1>2, QueueApart DEF get_batch
  <1>6. AnswerInv'
    <2> SUFFICES ASSUME NEW d \in Clients, call'[d] # Idle, call'[d].type = "query"
                 PROVE  /\ \A k \in Keys : table'[k] \in seen'[d][k]
                        /\ \A k \in DOMAIN call'[d].batch : Handled(d, ShardOf[k])' =>
                              call'[d].answer[k] \in seen'[d][k] \/ ShardOf[k] \in call'[d].failed
      BY DEF AnswerInv
    <2>1. CASE d = c
      <3>1. \A sh \in Shards : ~Handled(c, sh)'
        BY <1>0, <1>1, <1>2 DEF Handled, Submitted, Shards
      <3>2. \A k \in DOMAIN r.batch : ShardOf[k] \in Shards
        BY <1>0, BatchParts, ShardedTableAssumption DEF Calling
      <3>3. \A k \in Keys : table'[k] \in seen'[c][k]
        BY <1>1 DEF begins, TableInv, Types
      <3> QED
        BY <1>1, <1>2, <2>1, <3>1, <3>2, <3>3
    <2>2. CASE d # c
      <3>1. d \in Threads /\ call'[d] = call[d] /\ call[d].batch \in Batches
        BY <1>2, <2>2, CallParts DEF Threads, TableInv
      <3>2. \A sh \in Shards : Handled(d, sh)' <=> Handled(d, sh)
        BY <3>1, HandledSame
      <3>3. \A k \in DOMAIN call[d].batch : ShardOf[k] \in Shards
        BY <3>1, BatchParts, ShardedTableAssumption
      <3>4. seen'[d] = seen[d] /\ table' = table
        BY <2>2, <3>1 DEF begins, TableInv, Types
      <3> QED
        BY <3>1, <3>2, <3>3, <3>4 DEF TableInv, AnswerInv
    <2> QED
      BY <2>1, <2>2
  <1>7. LoadInv'
    BY <1>1, <1>2, HandledSame, LoadSame DEF TableInv
  <1>8. SecretKept' /\ StatsInv'
    BY StatsSame DEF TableInv, SecretKept
  <1> QED
    BY <1>3, <1>4, <1>5, <1>6, <1>7, <1>8 DEF TableInv

(* A query returns: no request of it is queued any more (QueueInv). *)
LEMMA InvGetReturn ==
    ASSUME TableInv, NEW c \in Clients, get_return(c)
    PROVE  TableInv'
  <1> USE DEF get_return
  <1>1. call[c] # Idle /\ c \in Threads /\ Loader \in Threads /\ c # Loader
    BY ShardedTableAssumption DEF Threads, Idle
  <1>2. \A t \in Threads : call'[t] = IF t = c THEN Idle ELSE call[t]
    BY DEF TableInv, Types
  <1>3. Types'
    BY DEF TableInv, Types
  <1>4. RolesInv'
    BY <1>1, <1>2 DEF TableInv, RolesInv, Threads
  <1>5. QueueInv'
    BY <1>1, <1>2, QueueApart DEF get_return
  <1>6. AnswerInv'
    <2>1. \A d \in Clients : call[d] # Idle => call[d].batch \in Batches
      BY CallParts DEF TableInv, Threads
    <2>2. ASSUME NEW d \in Clients, d # c
          PROVE  /\ call'[d] = call[d] /\ seen'[d] = seen[d]
                 /\ \A sh \in Shards : Handled(d, sh)' => Handled(d, sh)
      BY <1>2, <2>2, HandledSame DEF Threads, TableInv, Types
    <2>3. call'[c] = Idle
      BY <1>1, <1>2
    <2> QED
      BY <2>1, <2>2, <2>3, AnswerSame DEF TableInv
  <1>7. LoadInv'
    BY <1>1, <1>2, HandledSame, LoadSame DEF TableInv
  <1>8. SecretKept' /\ StatsInv'
    BY StatsSame DEF TableInv, SecretKept
  <1> QED
    BY <1>3, <1>4, <1>5, <1>6, <1>7, <1>8 DEF TableInv

(* The statistics begin with an empty sum. *)
LEMMA InvTableStatistics ==
    ASSUME TableInv, NEW c \in Clients, table_statistics(c)
    PROVE  TableInv'
  <1> USE DEF table_statistics
  <1>0. PICK r \in Calling : /\ call' = [call EXCEPT ![c] = r]
                             /\ r.pc = "count" /\ r.type = "statistics"
                             /\ DOMAIN r.answer = DOMAIN r.batch
    <2> DEFINE b == Call("statistics", NoKeys)
               r0 == [b EXCEPT !.pc = "count"]
    <2>1. call' = [call EXCEPT ![c] = r0]
      OBVIOUS
    <2>2. b \in Calling /\ b.type = "statistics" /\ DOMAIN b.answer = DOMAIN b.batch
      BY NoKeysType, CallType
    <2> HIDE DEF b
    <2>3. r0 \in Calling /\ r0.pc = "count" /\ r0.type = "statistics"
          /\ DOMAIN r0.answer = DOMAIN r0.batch
      BY <2>2 DEF Calling
    <2> QED
      BY <2>1, <2>3
  <1>1. r # Idle /\ call[c] = Idle /\ c \in Threads /\ Loader \in Threads /\ c # Loader
    BY IdleCall, ShardedTableAssumption DEF Threads
  <1>2. \A t \in Threads : call'[t] = IF t = c THEN r ELSE call[t]
    BY <1>0 DEF TableInv, Types
  <1>3. stats' = [stats EXCEPT ![c] = NoStats]
    BY EmptySum
  <1>4. Types'
    <2>1. stats' \in [Clients -> [sh : 0 .. NUM_SHARDS, sum : Nat, quiet : BOOLEAN]]
      BY <1>3, EmptySum DEF TableInv, Types
    <2> QED
      BY <1>0, <2>1 DEF TableInv, Types
  <1>5. RolesInv'
    <2>1. load' = load /\ call'[Loader] = call[Loader] /\ call'[c] = r
      BY <1>1, <1>2
    <2>2. \A d \in Clients : d = c \/ call'[d] = call[d]
      BY <1>2 DEF Threads
    <2> HIDE DEF table_statistics
    <2> QED
      BY <1>0, <1>2, <2>1, <2>2 DEF TableInv, RolesInv
  <1>6. QueueInv'
    BY <1>1, <1>2, QueueApart DEF table_statistics
  <1>7. AnswerInv'
    <2>1. \A d \in Clients : call[d] # Idle => call[d].batch \in Batches
      BY CallParts DEF TableInv, Threads
    <2>2. ASSUME NEW d \in Clients, d # c
          PROVE  call'[d] = call[d] /\ \A sh \in Shards : Handled(d, sh)' => Handled(d, sh)
      BY <1>2, <2>2, HandledSame DEF Threads
    <2>3. call'[c].type # "query"
      BY <1>0, <1>1, <1>2
    <2> QED
      BY <2>1, <2>2, <2>3, AnswerSame DEF TableInv
  <1>8. LoadInv'
    BY <1>1, <1>2, HandledSame, LoadSame DEF TableInv
  <1>9. SecretKept' /\ StatsInv'
    <2>1. \A d \in Clients : stats'[d] = stats[d] \/ (stats'[d].sh = 0 /\ stats'[d].sum = 0)
      BY <1>3, EmptySum DEF TableInv, Types
    <2> QED
      BY <2>1, StatsSame DEF TableInv, SecretKept
  <1> QED
    BY <1>4, <1>5, <1>6, <1>7, <1>8, <1>9 DEF TableInv

(* The statistics return. *)
LEMMA InvStatisticsReturn ==
    ASSUME TableInv, NEW c \in Clients, statistics_return(c)
    PROVE  TableInv'
  <1> USE DEF statistics_return
  <1>1. call[c] # Idle /\ c \in Threads /\ Loader \in Threads /\ c # Loader
    BY ShardedTableAssumption DEF Threads, Idle
  <1>2. \A t \in Threads : call'[t] = IF t = c THEN Idle ELSE call[t]
    BY DEF TableInv, Types
  <1>3. stats' = [stats EXCEPT ![c] = NoStats]
    OBVIOUS
  <1>4. Types'
    <2>1. stats' \in [Clients -> [sh : 0 .. NUM_SHARDS, sum : Nat, quiet : BOOLEAN]]
      BY <1>3, EmptySum DEF TableInv, Types
    <2> QED
      BY <2>1 DEF TableInv, Types
  <1>5. RolesInv'
    BY <1>1, <1>2 DEF TableInv, RolesInv, Threads
  <1>6. QueueInv'
    BY <1>1, <1>2, QueueApart DEF statistics_return
  <1>7. AnswerInv'
    <2>1. \A d \in Clients : call[d] # Idle => call[d].batch \in Batches
      BY CallParts DEF TableInv, Threads
    <2>2. ASSUME NEW d \in Clients, d # c
          PROVE  call'[d] = call[d] /\ \A sh \in Shards : Handled(d, sh)' => Handled(d, sh)
      BY <1>2, <2>2, HandledSame DEF Threads
    <2>3. call'[c] = Idle
      BY <1>1, <1>2
    <2> QED
      BY <2>1, <2>2, <2>3, AnswerSame DEF TableInv
  <1>8. LoadInv'
    BY <1>1, <1>2, HandledSame, LoadSame DEF TableInv
  <1>9. SecretKept' /\ StatsInv'
    <2>1. \A d \in Clients : stats'[d] = stats[d] \/ (stats'[d].sh = 0 /\ stats'[d].sum = 0)
      BY <1>3, EmptySum DEF TableInv, Types
    <2> QED
      BY <2>1, StatsSame DEF TableInv, SecretKept
  <1> QED
    BY <1>4, <1>5, <1>6, <1>7, <1>8, <1>9 DEF TableInv

(* One more counter is added: the keys of its shard are new in the sum. *)
LEMMA InvReportStatistics ==
    ASSUME TableInv, NEW c \in Clients, report_statistics(c)
    PROVE  TableInv'
  <1> USE DEF report_statistics
  <1> DEFINE n == stats[c].sh
  <1>1. PICK q \in BOOLEAN :
           /\ q <=> stats[c].quiet \/ n = 0
           /\ stats' = [stats EXCEPT ![c] =
                 [sh |-> n + 1, sum |-> stats[c].sum + num_items[n], quiet |-> q]]
    <2>1. (stats[c].quiet \/ n = 0) \in BOOLEAN
      OBVIOUS
    <2> QED
      BY <2>1 DEF first_shard
  <1>2. n \in Shards /\ stats[c].sum \in Nat /\ num_items[n] \in Nat /\ n + 1 \in 0 .. NUM_SHARDS
    BY ShardedTableAssumption, ShardSetAssumption DEF TableInv, Types, Shards
  <1>3. Types'
    <2>1. [sh |-> n + 1, sum |-> stats[c].sum + num_items[n], quiet |-> q]
             \in [sh : 0 .. NUM_SHARDS, sum : Nat, quiet : BOOLEAN]
      <3>1. stats[c].sum + num_items[n] \in Nat
        BY <1>2
      <3> QED
        BY <1>2, <3>1, Zenon
    <2>2. stats' \in [Clients -> [sh : 0 .. NUM_SHARDS, sum : Nat, quiet : BOOLEAN]]
      BY <1>1, <2>1 DEF TableInv, Types
    <2> QED
      BY <2>2 DEF TableInv, Types
  <1>4. RolesInv' /\ QueueInv' /\ SecretKept'
    BY SMTT(30) DEF TableInv, RolesInv, QueueInv, Placed, Ordered, SecretKept
  <1>5. \A t \in Threads, sh \in Shards : Handled(t, sh)' <=> Handled(t, sh)
    BY HandledSame
  <1>6. AnswerInv'
    <2>1. \A d \in Clients : call[d] # Idle => call[d].batch \in Batches
      BY CallParts DEF TableInv, Threads
    <2> QED
      BY <1>5, <2>1, AnswerSame DEF TableInv, Threads
  <1>7. LoadInv'
    BY <1>5, LoadSame DEF TableInv, Threads
  <1>8. StatsInv'
    <2>1. \A m : Present(m)' = Present(m) /\ PresentBelow(m)' = PresentBelow(m)
      BY DEF Present, PresentBelow
    <2>2. PresentBelow(n + 1) = PresentBelow(n) \cup Present(n) /\ PresentBelow(n) \cap Present(n) = {}
      BY <1>2, ShardedTableAssumption DEF Present, PresentBelow, Shards
    <2>3. /\ Cardinality(PresentBelow(n)) \in Nat /\ Cardinality(Present(n)) \in Nat
          /\ Cardinality(PresentBelow(n + 1)) = Cardinality(PresentBelow(n)) + Cardinality(Present(n))
      <3>1. PresentBelow(n) \in SUBSET Keys /\ Present(n) \in SUBSET Keys
        BY DEF Present, PresentBelow
      <3> QED
        BY <2>2, <3>1, Disjoint
    <2>4. n = 0 => Cardinality(PresentBelow(n)) = 0
      <3>1. PresentBelow(0) = {}
        BY ShardedTableAssumption DEF PresentBelow, Shards
      <3> QED
        BY <3>1, FS_EmptySet
    <2>5. ASSUME q, failures = 0
          PROVE  stats[c].sum + num_items[n] = n + 1 + Cardinality(PresentBelow(n + 1))
      <3>1. num_items[n] = 1 + Cardinality(Present(n))
        BY <1>2, <2>5 DEF TableInv, StatsInv
      <3>2. stats[c].sum = n + Cardinality(PresentBelow(n))
        BY <1>1, <1>2, <2>4, <2>5 DEF TableInv, StatsInv
      <3> HIDE DEF n
      <3> QED
        BY <1>2, <2>3, <3>1, <3>2 DEF Shards
    <2>6. ASSUME NEW d \in Clients
          PROVE  /\ stats'[d].sh = 0 => stats'[d].sum = 0
                 /\ stats'[d].quiet /\ failures' = 0 =>
                      stats'[d].sum = stats'[d].sh + Cardinality(PresentBelow(stats'[d].sh))
      <3>1. CASE d = c
        <4>1. /\ stats'[d].sh = n + 1 /\ stats'[d].sum = stats[c].sum + num_items[n]
              /\ stats'[d].quiet <=> q
          BY <1>1, <3>1 DEF TableInv, Types
        <4> QED
          BY <1>2, <2>5, <4>1 DEF Shards
      <3>2. CASE d # c
        <4>1. stats'[d] = stats[d]
          BY <1>1, <3>2 DEF TableInv, Types
        <4> QED
          BY <4>1 DEF TableInv, StatsInv
      <3> QED
        BY <3>1, <3>2
    <2> QED
      BY <2>1, <2>6 DEF TableInv, StatsInv
  <1> QED
    BY <1>3, <1>4, <1>6, <1>7, <1>8 DEF TableInv

-----------------------------------------------------------------------------
(* A request at the end of a queue. *)
LEMMA Enqueued ==
    ASSUME Types, NEW sh \in Shards, NEW q \in Request,
           requests' = [requests EXCEPT ![sh] = Append(@, q)]
    PROVE  /\ requests' \in [Shards -> Seq(Request)]
           /\ \A s \in Shards : \A i \in DOMAIN requests[s] :
                 i \in DOMAIN requests'[s] /\ requests'[s][i] = requests[s][i]
           /\ \A s \in Shards : \A i \in DOMAIN requests'[s] :
                 i \in DOMAIN requests[s] \/ (s = sh /\ requests'[s][i] = q)
           /\ \A i \in DOMAIN requests'[sh] : i \notin DOMAIN requests[sh] =>
                 \A j \in DOMAIN requests'[sh] : j <= i
           /\ \E i \in DOMAIN requests'[sh] : requests'[sh][i] = q
           /\ \A s \in Shards : s # sh => requests'[s] = requests[s]
  <1>1. requests[sh] \in Seq(Request) /\ requests'[sh] = Append(requests[sh], q)
    BY DEF Types
  <1>2. \A s \in Shards : s # sh => requests'[s] = requests[s]
    BY DEF Types
  <1>3. DOMAIN requests[sh] = 1 .. Len(requests[sh]) /\ Len(requests[sh]) \in Nat
    BY <1>1
  <1>4. /\ DOMAIN requests'[sh] = 1 .. Len(requests[sh]) + 1
        /\ requests'[sh][Len(requests[sh]) + 1] = q
        /\ \A i \in 1 .. Len(requests[sh]) : requests'[sh][i] = requests[sh][i]
    BY <1>1
  <1>5. requests' \in [Shards -> Seq(Request)]
    BY DEF Types
  <1> QED
    BY <1>2, <1>3, <1>4, <1>5

(* A thread gives its request to the shard it is at: no other request of it *)
(* is there, and so what the shards have handled is the same.               *)
LEMMA InvSubmit ==
    ASSUME TableInv, NEW t \in Threads, submit(t)
    PROVE  TableInv'
  <1>1. PICK sh \in Shards : sh = call[t].sh /\ call[t] # Idle /\ call[t] \in Calling /\ sh \in Nat
    BY CallParts DEF Idle, TableInv, Shards, submit
  <1>2. call[t].type \in {"query", "insert", "clear"}
    BY <1>1 DEF TableInv, RolesInv, Threads, submit
  <1>3. PICK q \in Request : q = [from |-> t, type |-> call[t].type]
    BY <1>2 DEF Request
  <1>4. q.from = t /\ q.type = call[t].type /\ q.type # "wait"
    BY <1>2, <1>3
  <1>5. PICK r \in Calling :
           /\ call' = [call EXCEPT ![t] = r]
           /\ r.type = call[t].type /\ r.batch = call[t].batch /\ r.answer = call[t].answer
           /\ r.failed = call[t].failed
           /\ \/ r.type # "clear" /\ r.pc = "submit" /\ r.sh = sh + 1
              \/ r.type = "clear" /\ r.pc = "wait" /\ r.sh = sh
              \/ r.type # "clear" /\ r.pc = "wait" /\ r.sh = 0 /\ sh = NUM_SHARDS - 1
    <2>1. CASE call[t].type # "clear" /\ sh < NUM_SHARDS - 1
      <3> DEFINE r0 == [call[t] EXCEPT !.sh = sh + 1]
      <3>1. call' = [call EXCEPT ![t] = r0]
        BY <1>1, <2>1 DEF submit, submitted
      <3>2. sh + 1 \in Shards
        BY <1>1, <2>1, ShardedTableAssumption, ShardSetAssumption DEF Shards
      <3>3. /\ r0 \in Calling /\ r0.pc = "submit" /\ r0.sh = sh + 1
            /\ r0.type = call[t].type /\ r0.batch = call[t].batch
            /\ r0.answer = call[t].answer /\ r0.failed = call[t].failed
        BY <1>1, <3>2 DEF Calling, submit
      <3> QED
        BY <2>1, <3>1, <3>3
    <2>2. CASE ~(call[t].type # "clear" /\ sh < NUM_SHARDS - 1)
      <3>1. PICK w \in Shards : /\ w = wait_first(call[t].type, sh)
                                /\ call[t].type = "clear" => w = sh
                                /\ call[t].type # "clear" => w = 0 /\ sh = NUM_SHARDS - 1
        BY <1>1, <2>2, ShardedTableAssumption, ShardSetAssumption DEF Shards, wait_first
      <3> DEFINE r0 == [call[t] EXCEPT !.pc = "wait", !.sh = w]
      <3>2. call' = [call EXCEPT ![t] = r0]
        BY <1>1, <2>2, <3>1 DEF submit, submitted
      <3>3. /\ r0 \in Calling /\ r0.pc = "wait" /\ r0.sh = w
            /\ r0.type = call[t].type /\ r0.batch = call[t].batch
            /\ r0.answer = call[t].answer /\ r0.failed = call[t].failed
        BY <1>1 DEF Calling
      <3> QED
        BY <3>1, <3>2, <3>3
    <2> QED
      BY <2>1, <2>2
  <1>6. r # Idle /\ \A u \in Threads : call'[u] = IF u = t THEN r ELSE call[u]
    BY <1>5, IdleCall DEF TableInv, Types
  <1>7. UNCHANGED <<table, num_items, secret, load, stats, failures, seen>>
    BY DEF submit
  <1>8. call[t].pc = "submit"
    BY DEF submit
  <1>9. \A i \in DOMAIN requests[sh] : requests[sh][i].from # t
    BY <1>1, <1>8 DEF TableInv, QueueInv, Placed, Ordered
  <1>q. /\ requests' \in [Shards -> Seq(Request)]
        /\ \A s \in Shards : \A i \in DOMAIN requests[s] :
              i \in DOMAIN requests'[s] /\ requests'[s][i] = requests[s][i]
        /\ \A s \in Shards : \A i \in DOMAIN requests'[s] :
              i \in DOMAIN requests[s] \/ (s = sh /\ requests'[s][i] = q)
        /\ \A i \in DOMAIN requests'[sh] : i \notin DOMAIN requests[sh] =>
              \A j \in DOMAIN requests'[sh] : j <= i
        /\ \E i \in DOMAIN requests'[sh] : requests'[sh][i] = q
        /\ \A s \in Shards : s # sh => requests'[s] = requests[s]
    <2>1. requests' = [requests EXCEPT ![sh] = Append(@, q)]
      BY <1>1, <1>3 DEF submit, enqueues
    <2> QED
      BY <2>1, Enqueued DEF TableInv
  <1>10. Types'
    BY <1>q, <1>5, <1>7 DEF TableInv, Types
  <1>11. RolesInv'
    BY <1>1, <1>2, <1>5, <1>6, <1>7, <1>8 DEF TableInv, RolesInv, Threads
  <1>12. QueueInv'
    <2> SUFFICES ASSUME NEW s \in Shards, NEW i \in DOMAIN requests'[s]
                 PROVE  Placed(s, i)' /\ \A j \in DOMAIN requests'[s] : Ordered(s, i, j)'
      BY DEF QueueInv
    <2>1. CASE i \in DOMAIN requests[s]
      <3>1. requests'[s][i] = requests[s][i] /\ requests[s][i].from \in Threads
        BY <1>q, <2>1, RequestParts DEF TableInv
      <3>2. \A j \in DOMAIN requests'[s] : Ordered(s, i, j)'
        <4> SUFFICES ASSUME NEW j \in DOMAIN requests'[s] PROVE Ordered(s, i, j)'
          OBVIOUS
        <4>1. CASE j \in DOMAIN requests[s]
          BY <1>q, <2>1, <3>1, <4>1 DEF TableInv, QueueInv, Placed, Ordered
        <4>2. CASE j \notin DOMAIN requests[s]
          BY <1>q, <1>4, <1>9, <2>1, <3>1, <4>2 DEF Ordered
        <4> QED
          BY <4>1, <4>2
      <3>3. CASE requests[s][i].from = t
        <4>1. /\ requests[s][i].type # "wait" /\ requests[s][i].type = call[t].type
              /\ call[t].type # "clear" /\ s < sh
          BY <1>1, <1>8, <2>1, <3>3 DEF TableInv, QueueInv, Placed, Ordered
        <4> QED
          BY <1>1, <1>5, <1>6, <3>1, <3>2, <3>3, <4>1 DEF Shards, Placed
      <3>4. CASE requests[s][i].from # t
        BY <1>6, <2>1, <3>1, <3>2, <3>4 DEF TableInv, QueueInv, Placed, Ordered
      <3> QED
        BY <3>3, <3>4
    <2>2. CASE i \notin DOMAIN requests[s]
      <3>1. s = sh /\ requests'[s][i] = q /\ \A j \in DOMAIN requests'[s] : j <= i
        BY <1>q, <2>2
      <3>2. i \in Nat /\ \A j \in DOMAIN requests'[s] : j \in Nat
        BY <1>10 DEF Types
      <3> QED
        BY <1>1, <1>4, <1>5, <1>6, <3>1, <3>2 DEF Shards, Placed, Ordered
    <2> QED
      BY <2>1, <2>2
  <1>13. \A u \in Threads, s \in Shards : Handled(u, s)' <=> Handled(u, s)
    <2> SUFFICES ASSUME NEW u \in Threads, NEW s \in Shards
                 PROVE  Handled(u, s)' <=> Handled(u, s)
      OBVIOUS
    <2>1. CASE u # t
      BY <1>q, <1>4, <1>6, <2>1 DEF Handled, Submitted
    <2>2. CASE u = t /\ s # sh
      <3>1. requests'[s] = requests[s]
        BY <1>q, <2>2
      <3>2. Submitted(t, s)' <=> Submitted(t, s)
        BY <1>1, <1>5, <1>6, <1>8, <2>2, ShardedTableAssumption DEF Submitted, Shards
      <3> QED
        BY <1>1, <1>6, <2>2, <3>1, <3>2 DEF Handled
    <2>3. CASE u = t /\ s = sh
      <3>1. ~Handled(t, sh)
        BY <1>1, <1>8 DEF Handled, Submitted
      <3>2. ~Handled(t, sh)'
        <4>1. PICK i \in DOMAIN requests'[sh] : requests'[sh][i] = q
          BY <1>q
        <4> QED
          BY <1>4, <4>1 DEF Handled
      <3> QED
        BY <2>3, <3>1, <3>2
    <2> QED
      BY <2>1, <2>2, <2>3
  <1>14. AnswerInv'
    <2>1. \A d \in Clients : call[d] # Idle => call[d].batch \in Batches
      BY CallParts DEF TableInv, Threads
    <2> QED
      BY <1>1, <1>5, <1>6, <1>7, <1>13, <2>1, AnswerSame DEF TableInv, Threads
  <1>15. LoadInv'
    BY <1>5, <1>6, <1>7, <1>13, LoadSame DEF TableInv, Threads
  <1>16. SecretKept' /\ StatsInv'
    BY <1>7, StatsSame DEF TableInv, SecretKept
  <1> QED
    BY <1>10, <1>11, <1>12, <1>14, <1>15, <1>16 DEF TableInv

(* The wait of t goes behind the request of t that it is for. *)
LEMMA InvShardWait ==
    ASSUME TableInv, NEW t \in Threads, shard_wait(t)
    PROVE  TableInv'
  <1>1. PICK sh \in Shards : sh = call[t].sh /\ call[t] # Idle /\ call[t] \in Calling
    BY CallParts DEF Idle, TableInv, shard_wait
  <1>2. PICK q \in Request : q = [from |-> t, type |-> "wait"]
    BY DEF Request
  <1>3. PICK r \in Calling :
           /\ call' = [call EXCEPT ![t] = r]
           /\ r.type = call[t].type /\ r.batch = call[t].batch /\ r.answer = call[t].answer
           /\ r.failed = call[t].failed /\ r.sh = sh /\ r.pc = "waiting"
    <2> DEFINE r0 == [call[t] EXCEPT !.pc = "waiting"]
    <2>1. call' = [call EXCEPT ![t] = r0]
      BY DEF shard_wait
    <2>2. /\ r0 \in Calling /\ r0.pc = "waiting" /\ r0.sh = sh
          /\ r0.type = call[t].type /\ r0.batch = call[t].batch
          /\ r0.answer = call[t].answer /\ r0.failed = call[t].failed
      BY <1>1 DEF Calling
    <2> QED
      BY <2>1, <2>2
  <1>4. r # Idle /\ \A u \in Threads : call'[u] = IF u = t THEN r ELSE call[u]
    BY <1>3, IdleCall DEF TableInv, Types
  <1>5. UNCHANGED <<table, num_items, secret, load, stats, failures, seen>>
    BY DEF shard_wait
  <1>6. call[t].pc = "wait"
    BY DEF shard_wait
  <1>7. /\ requests' \in [Shards -> Seq(Request)]
        /\ \A s \in Shards : \A i \in DOMAIN requests[s] :
              i \in DOMAIN requests'[s] /\ requests'[s][i] = requests[s][i]
        /\ \A s \in Shards : \A i \in DOMAIN requests'[s] :
              i \in DOMAIN requests[s] \/ (s = sh /\ requests'[s][i] = q)
        /\ \A i \in DOMAIN requests'[sh] : i \notin DOMAIN requests[sh] =>
              \A j \in DOMAIN requests'[sh] : j <= i
        /\ \E i \in DOMAIN requests'[sh] : requests'[sh][i] = q
        /\ \A s \in Shards : s # sh => requests'[s] = requests[s]
    <2>1. requests' = [requests EXCEPT ![sh] = Append(@, q)]
      BY <1>1, <1>2 DEF shard_wait, enqueues
    <2> QED
      BY <2>1, Enqueued DEF TableInv
  <1>8. Types'
    BY <1>3, <1>5, <1>7 DEF TableInv, Types
  <1>9. RolesInv'
    BY <1>1, <1>3, <1>4, <1>5, <1>6 DEF TableInv, RolesInv, Threads
  <1>10. QueueInv'
    <2> SUFFICES ASSUME NEW s \in Shards, NEW i \in DOMAIN requests'[s]
                 PROVE  Placed(s, i)' /\ \A j \in DOMAIN requests'[s] : Ordered(s, i, j)'
      BY DEF QueueInv
    <2>1. CASE i \in DOMAIN requests[s]
      <3>1. requests'[s][i] = requests[s][i] /\ requests[s][i].from \in Threads
        BY <1>7, <2>1, RequestParts DEF TableInv
      <3>2. requests[s][i].from = t =>
               requests[s][i].type # "wait" /\ requests[s][i].type = call[t].type
               /\ sh <= s /\ (call[t].type = "clear" => sh = s)
        BY <1>1, <1>6, <2>1 DEF TableInv, QueueInv, Placed, Ordered
      <3>3. \A j \in DOMAIN requests'[s] : Ordered(s, i, j)'
        BY <1>2, <1>7, <2>1, <3>1, <3>2 DEF TableInv, QueueInv, Placed, Ordered
      <3>4. CASE requests[s][i].from = t
        BY <1>3, <1>4, <3>1, <3>2, <3>3, <3>4 DEF Placed
      <3>5. CASE requests[s][i].from # t
        BY <1>4, <2>1, <3>1, <3>3, <3>5 DEF TableInv, QueueInv, Placed, Ordered
      <3> QED
        BY <3>4, <3>5
    <2>2. CASE i \notin DOMAIN requests[s]
      <3>1. s = sh /\ requests'[s][i] = q /\ \A j \in DOMAIN requests'[s] : j <= i
        BY <1>7, <2>2
      <3>2. i \in Nat /\ \A j \in DOMAIN requests'[s] : j \in Nat
        BY <1>8 DEF Types
      <3> QED
        BY <1>2, <1>3, <1>4, <3>1, <3>2 DEF Placed, Ordered
    <2> QED
      BY <2>1, <2>2
  <1>11. \A u \in Threads, s \in Shards : Handled(u, s)' <=> Handled(u, s)
    <2> SUFFICES ASSUME NEW u \in Threads, NEW s \in Shards
                 PROVE  Handled(u, s)' <=> Handled(u, s)
      OBVIOUS
    <2>1. call'[u] # Idle <=> call[u] # Idle
      BY <1>1, <1>4
    <2>2. Submitted(u, s)' <=> Submitted(u, s)
      BY <1>1, <1>3, <1>4, <1>6 DEF Submitted
    <2> QED
      BY <1>2, <1>7, <2>1, <2>2 DEF Handled
  <1>12. AnswerInv'
    <2>1. \A d \in Clients : call[d] # Idle => call[d].batch \in Batches
      BY CallParts DEF TableInv, Threads
    <2> QED
      BY <1>1, <1>3, <1>4, <1>5, <1>11, <2>1, AnswerSame DEF TableInv, Threads
  <1>13. LoadInv'
    BY <1>3, <1>4, <1>5, <1>11, LoadSame DEF TableInv, Threads
  <1>14. SecretKept' /\ StatsInv'
    BY <1>5, StatsSame DEF TableInv, SecretKept
  <1> QED
    BY <1>8, <1>9, <1>10, <1>12, <1>13, <1>14 DEF TableInv

-----------------------------------------------------------------------------
(* While the loader is between its calls it has no request in a queue, and  *)
(* when it collects all shards have handled what it submitted.              *)
LEMMA LoaderCollects ==
    ASSUME TableInv, call[Loader] # Idle, call[Loader].pc = "collect", NEW sh \in Shards
    PROVE  Handled(Loader, sh)
  <1>1. Submitted(Loader, sh)
    BY DEF Submitted, TableInv, RolesInv, Threads, Shards
  <1>2. \A i \in DOMAIN requests[sh] : requests[sh][i].from # Loader
    BY DEF TableInv, QueueInv, Placed, Ordered
  <1> QED
    BY <1>1, <1>2 DEF Handled

LEMMA LoaderApart ==
    ASSUME TableInv, requests' = requests, table' = table, seen' = seen,
           NEW r, call' = [call EXCEPT ![Loader] = r],
           call[Loader] = Idle \/ call[Loader].pc = "collect"
    PROVE  /\ \A c \in Clients : call'[c] = call[c]
           /\ call'[Loader] = r
           /\ QueueInv' /\ AnswerInv'
  <1>1. Loader \in Threads /\ Clients \subseteq Threads /\ Loader \notin Clients
    BY ShardedTableAssumption DEF Threads
  <1>2. call'[Loader] = r /\ \A t \in Threads : t # Loader => call'[t] = call[t]
    BY <1>1 DEF TableInv, Types
  <1>3. QueueInv'
    BY <1>2, QueueApart
  <1>4. AnswerInv'
    <2>1. \A c \in Clients : call[c] # Idle => call[c].batch \in Batches
      BY <1>1, CallParts DEF TableInv
    <2>2. \A c \in Clients, sh \in Shards : Handled(c, sh)' <=> Handled(c, sh)
      BY <1>1, <1>2, HandledSame
    <2> QED
      BY <1>1, <1>2, <2>1, <2>2, AnswerSame DEF TableInv
  <1> QED
    BY <1>1, <1>2, <1>3, <1>4

(* enclave_load_pb: the table is as it was, and is remembered. *)
LEMMA InvEnclaveLoadPb ==
    ASSUME TableInv, NEW msg \in Loads, NEW decoded \in BOOLEAN, enclave_load_pb(msg, decoded)
    PROVE  TableInv'
  <1> DEFINE res == load_error(msg, decoded)
             p == CASE res # "none" -> "returned"
                    [] res = "none" /\ msg.clear_all -> "clear"
                    [] OTHER -> "check"
  <1>0. res \in {"none", "REQUEST_PB", "SECRET_TOO_LARGE"} /\ (res = "none" => msg.secret # "too_large")
    BY DEF load_error
  <1> HIDE DEF res
  <1>1. Loader \in Threads /\ call[Loader] = Idle /\ load.done \in Nat
    BY DEF TableInv, RolesInv, Types, Loading, Threads, enclave_load_pb
  <1>2. PICK r : /\ call' = [call EXCEPT ![Loader] = r]
                 /\ r \in {Idle} \cup Calling
                 /\ p # "clear" => r = Idle
                 /\ p = "clear" => /\ r # Idle /\ r.type = "clear" /\ r.pc = "submit" /\ r.sh = 0
                                   /\ DOMAIN r.batch = {} /\ DOMAIN r.answer = DOMAIN r.batch
    <2>1. load'.pc = p
      BY DEF enclave_load_pb, res
    <2>2. CASE p = "clear"
      <3> DEFINE r0 == Call("clear", NoKeys)
      <3>1. call' = [call EXCEPT ![Loader] = r0]
        BY <2>1, <2>2 DEF enclave_load_pb
      <3>2. /\ r0 \in Calling /\ r0 # Idle /\ r0.type = "clear" /\ r0.pc = "submit" /\ r0.sh = 0
            /\ DOMAIN r0.batch = {} /\ DOMAIN r0.answer = DOMAIN r0.batch
        BY NoKeysType, CallType, IdleCall DEF NoKeys
      <3> HIDE DEF r0
      <3> QED
        BY <2>2, <3>1, <3>2
    <2>3. CASE p # "clear"
      <3>1. call' = call
        BY <2>1, <2>3 DEF enclave_load_pb
      <3>2. call' = [call EXCEPT ![Loader] = Idle]
        BY <1>1, <3>1 DEF TableInv, Types
      <3> QED
        BY <2>3, <3>2
    <2> QED
      BY <2>2, <2>3
  <1>3. /\ load' \in Loading /\ load'.pc = p /\ load'.result = res /\ load'.msg = msg
        /\ load'.before = table /\ load'.failed = {}
    <2>1. p \in {"clear", "check", "returned"} /\ res \in {"none", "REQUEST_PB", "SECRET_TOO_LARGE"}
      BY <1>0, ShardedTableAssumption
    <2>2. load' = [pc |-> p, result |-> res, msg |-> msg, before |-> table, failed |-> {},
                   done |-> load.done]
      BY DEF enclave_load_pb, res
    <2> HIDE DEF p, res
    <2> QED
      BY <1>1, <2>1, <2>2 DEF Loading, TableInv, Types
  <1>4. UNCHANGED <<table, num_items, requests, stats, failures, seen>>
    BY DEF enclave_load_pb
  <1>5. /\ \A c \in Clients : call'[c] = call[c]
        /\ call'[Loader] = r
        /\ QueueInv' /\ AnswerInv'
    BY <1>1, <1>2, <1>4, LoaderApart
  <1>6. Types'
    BY <1>2, <1>3, <1>4 DEF TableInv, Types
  <1>7. RolesInv'
    <2>1. p # "put"
      OBVIOUS
    <2> HIDE DEF p
    <2> QED
      BY <1>2, <1>3, <1>5, <2>1 DEF TableInv, RolesInv, Threads
  <1>8. LoadInv'
    <2>1. CASE p = "returned"
      <3>1. res \in {"REQUEST_PB", "SECRET_TOO_LARGE"}
        BY <1>0, <2>1, ShardedTableAssumption
      <3> HIDE DEF p, res
      <3> QED
        BY <1>3, <1>4, <2>1, <3>1 DEF LoadInv, LoadApplied, Expected
    <2>2. CASE p = "clear"
      <3>1. res = "none" /\ msg.clear_all
        BY <2>2
      <3>2. \A sh \in Shards : ~Handled(Loader, sh)'
        BY <1>2, <1>5, <2>2 DEF Handled, Submitted, Shards
      <3> HIDE DEF p, res
      <3> QED
        BY <1>3, <2>2, <3>1, <3>2, ShardedTableAssumption DEF LoadInv, LoadApplied
    <2>3. CASE p = "check"
      <3>1. res = "none" /\ ~msg.clear_all
        BY <2>3
      <3> HIDE DEF p, res
      <3> QED
        BY <1>3, <1>4, <2>3, <3>1 DEF LoadInv, LoadApplied, Holds, Cleared
    <2> QED
      BY <2>1, <2>2, <2>3
  <1>9. SecretKept'
    <2>1. secret' = IF res = "none" THEN next_secret(msg.secret) ELSE secret
      BY DEF enclave_load_pb, res
    <2> QED
      BY <1>0, <2>1 DEF next_secret, TableInv, SecretKept
  <1>10. StatsInv'
    BY <1>4, StatsSame DEF TableInv
  <1> QED
    BY <1>5, <1>6, <1>7, <1>8, <1>9, <1>10 DEF TableInv

(* put_batch begins when all shards are cleared, or refuses the tuples. *)
LEMMA InvPutBatch ==
    ASSUME TableInv, put_batch
    PROVE  TableInv'
  <1>1. /\ Loader \in Threads /\ load \in Loading /\ load.msg \in Loads
        /\ load.pc \in {"check", "clear"}
    BY DEF TableInv, Types, Loading, Threads, put_batch
  <1>2. /\ call[Loader] = Idle \/ call[Loader].pc = "collect"
        /\ load.pc = "clear" => call[Loader] # Idle /\ call[Loader].pc = "collect"
    BY DEF TableInv, RolesInv, put_batch
  <1>3. \A k \in Keys : Holds(k, Cleared(k))
    <2>1. CASE load.pc = "check"
      BY <2>1 DEF TableInv, LoadInv
    <2>2. CASE load.pc = "clear"
      BY <1>2, <2>2, LoaderCollects, ShardedTableAssumption DEF TableInv, LoadInv
    <2> QED
      BY <1>1, <2>1, <2>2
  <1>4. UNCHANGED <<table, num_items, requests, secret, stats, failures, seen>>
    BY DEF put_batch
  <1>5. load.result = "none" /\ load.failed = {}
    BY <1>1 DEF TableInv, LoadInv
  <1>6. SecretKept' /\ StatsInv'
    BY <1>4, StatsSame DEF TableInv, SecretKept
  <1>7. CASE load.msg.whole
    <2>1. PICK r \in Calling :
             /\ call' = [call EXCEPT ![Loader] = r]
             /\ r.pc = "submit" /\ r.type = "insert" /\ r.batch = load.msg.records /\ r.sh = 0
             /\ DOMAIN r.answer = DOMAIN r.batch /\ r.failed = {}
      <3> DEFINE b == load.msg.records
                 r0 == Call("insert", b)
      <3>1. b \in Batches
        BY <1>1, ShardedTableAssumption, BatchType DEF Contents
      <3>2. call' = [call EXCEPT ![Loader] = r0]
        BY <1>7 DEF put_batch
      <3> HIDE DEF b
      <3>3. /\ r0 \in Calling /\ r0.type = "insert" /\ r0.pc = "submit" /\ r0.sh = 0
            /\ r0.batch = b /\ DOMAIN r0.answer = DOMAIN r0.batch /\ r0.failed = {}
        BY <3>1, CallType
      <3> HIDE DEF r0
      <3> QED
        BY <3>2, <3>3 DEF b
    <2>2. /\ load' \in Loading /\ load'.pc = "put" /\ load'.result = load.result
          /\ load'.msg = load.msg /\ load'.before = load.before /\ load'.failed = load.failed
      <3>1. load' = [load EXCEPT !.pc = "put"]
        BY <1>7 DEF put_batch
      <3> QED
        BY <1>1, <3>1 DEF Loading
    <2>3. /\ \A c \in Clients : call'[c] = call[c]
          /\ call'[Loader] = r /\ r # Idle
          /\ QueueInv' /\ AnswerInv'
      BY <1>2, <1>4, <2>1, LoaderApart, IdleCall
    <2>4. Types' /\ RolesInv'
      <3>1. Types'
        BY <1>4, <2>1, <2>2 DEF TableInv, Types
      <3>2. RolesInv'
        BY <2>1, <2>2, <2>3 DEF TableInv, RolesInv, Threads
      <3> QED
        BY <3>1, <3>2
    <2>5. LoadInv'
      <3>1. \A sh \in Shards : ~Handled(Loader, sh)'
        BY <2>1, <2>3 DEF Handled, Submitted, Shards
      <3>2. \A k \in Keys : ShardOf[k] \in Shards /\ (Holds(k, Cleared(k)))'
        BY <1>3, <1>4, <2>2, ShardedTableAssumption DEF Holds, Cleared
      <3> QED
        BY <1>5, <2>2, <3>1, <3>2 DEF LoadInv, LoadApplied
    <2> QED
      BY <1>6, <2>3, <2>4, <2>5 DEF TableInv
  <1>8. CASE ~load.msg.whole
    <2>1. call' = [call EXCEPT ![Loader] = Idle]
      BY <1>8 DEF put_batch
    <2>2. /\ load' \in Loading /\ load'.pc = "returned" /\ load'.result = "TUPLES_INVALID"
          /\ load'.msg = load.msg /\ load'.before = load.before /\ load'.failed = load.failed
      <3>1. load' = [load EXCEPT !.pc = "returned", !.result = "TUPLES_INVALID"]
        BY <1>8 DEF put_batch
      <3> QED
        BY <1>1, <3>1 DEF Loading
    <2>3. /\ \A c \in Clients : call'[c] = call[c]
          /\ call'[Loader] = Idle
          /\ QueueInv' /\ AnswerInv'
      BY <1>2, <1>4, <2>1, LoaderApart
    <2>4. Types' /\ RolesInv'
      <3>1. Types'
        BY <1>4, <2>1, <2>2 DEF TableInv, Types
      <3>2. RolesInv'
        BY <2>2, <2>3 DEF TableInv, RolesInv, Threads
      <3> QED
        BY <3>1, <3>2
    <2>5. LoadInv'
      BY <1>3, <1>4, <1>5, <2>2 DEF LoadInv, LoadApplied, Expected, Holds, Cleared
    <2> QED
      BY <1>6, <2>3, <2>4, <2>5 DEF TableInv
  <1> QED
    BY <1>7, <1>8

(* put_batch returns: what the shards that did not fail hold is Expected. *)
LEMMA InvPutReturn ==
    ASSUME TableInv, put_return
    PROVE  TableInv'
  <1>1. /\ Loader \in Threads /\ load \in Loading /\ load.pc = "put"
        /\ call[Loader] # Idle /\ call[Loader].pc = "collect"
        /\ call[Loader].failed \in SUBSET Shards
    <2>1. Loader \in Threads /\ load \in Loading /\ load.pc = "put"
      BY DEF TableInv, Types, Loading, Threads, put_return
    <2>2. call[Loader] # Idle /\ call[Loader].pc = "collect"
      BY DEF put_return, Idle
    <2> QED
      BY <2>1, <2>2, CallParts DEF TableInv
  <1>2. \A k \in Keys : ShardOf[k] \notin call[Loader].failed => Holds(k, Loaded(k))
    BY <1>1, LoaderCollects, ShardedTableAssumption DEF TableInv, LoadInv
  <1>3. UNCHANGED <<table, num_items, requests, secret, stats, failures, seen>>
        /\ call' = [call EXCEPT ![Loader] = Idle]
    BY DEF put_return
  <1>4. /\ load' \in Loading /\ load'.pc = "returned" /\ load'.msg = load.msg
        /\ load'.before = load.before /\ load'.failed = call[Loader].failed
        /\ load'.result \in {"SUCCESS", "ERROR"}
        /\ load'.result = "SUCCESS" => load'.failed = {}
    <2>1. PICK res \in {"SUCCESS", "ERROR"} :
             /\ res = "SUCCESS" => call[Loader].failed = {}
             /\ load' = [load EXCEPT !.pc = "returned", !.failed = call[Loader].failed,
                                     !.result = res]
      BY DEF put_return, put_error
    <2> QED
      BY <1>1, <2>1 DEF Loading
  <1>5. /\ \A c \in Clients : call'[c] = call[c]
        /\ call'[Loader] = Idle
        /\ QueueInv' /\ AnswerInv'
    BY <1>1, <1>3, LoaderApart
  <1>6. Types'
    BY <1>3, <1>4 DEF TableInv, Types
  <1>7. RolesInv'
    BY <1>4, <1>5 DEF TableInv, RolesInv, Threads
  <1>8. LoadInv'
    BY <1>2, <1>3, <1>4 DEF LoadInv, LoadApplied, Expected, Holds, Loaded, Cleared
  <1>9. SecretKept' /\ StatsInv'
    BY <1>3, StatsSame DEF TableInv, SecretKept
  <1> QED
    BY <1>5, <1>6, <1>7, <1>8, <1>9 DEF TableInv

(* The host takes the result. *)
LEMMA InvLoadDone ==
    ASSUME TableInv, load_done
    PROVE  TableInv'
  <1>1. UNCHANGED <<table, num_items, requests, call, secret, stats, failures, seen>>
    BY DEF load_done
  <1>2. load' \in [pc : {"idle"}, done : Nat] /\ load'.pc = "idle"
    BY DEF load_done, TableInv, Types, Loading
  <1>3. Types'
    BY <1>1, <1>2 DEF TableInv, Types
  <1>4. RolesInv'
    BY <1>1, <1>2 DEF TableInv, RolesInv, load_done
  <1>5. QueueInv' /\ SecretKept'
    BY <1>1 DEF TableInv, QueueInv, Placed, Ordered, SecretKept
  <1>6. AnswerInv'
    <2>1. \A c \in Clients : call[c] # Idle => call[c].batch \in Batches
      BY CallParts DEF TableInv, Threads
    <2>2. \A c \in Clients, sh \in Shards : Handled(c, sh)' <=> Handled(c, sh)
      BY <1>1, HandledSame DEF Threads
    <2> QED
      BY <1>1, <2>1, <2>2, AnswerSame DEF TableInv
  <1>7. LoadInv'
    BY <1>2 DEF LoadInv, LoadApplied
  <1>8. StatsInv'
    BY <1>1, StatsSame DEF TableInv
  <1> QED
    BY <1>3, <1>4, <1>5, <1>6, <1>7, <1>8 DEF TableInv

-----------------------------------------------------------------------------
LEMMA TailParts ==
    ASSUME NEW S, NEW q \in Seq(S), q # << >>
    PROVE  /\ Tail(q) \in Seq(S) /\ DOMAIN Tail(q) = 1 .. Len(q) - 1
           /\ \A i \in 1 .. Len(q) - 1 : Tail(q)[i] = q[i + 1]
           /\ DOMAIN q = 1 .. Len(q) /\ Len(q) \in Nat \ {0} /\ Head(q) = q[1]
  <1>1. Tail(q) \in Seq(S) /\ Len(Tail(q)) = Len(q) - 1 /\ Len(q) \in Nat \ {0}
    OBVIOUS
  <1>2. DOMAIN Tail(q) = 1 .. Len(q) - 1
    BY <1>1
  <1> QED
    BY <1>1, <1>2

(* The worker takes the request at the head of a queue. *)
LEMMA Dequeued ==
    ASSUME Types, NEW sh \in Shards, requests[sh] # << >>,
           requests' = [requests EXCEPT ![sh] = Tail(@)]
    PROVE  /\ requests' \in [Shards -> Seq(Request)]
           /\ 1 \in DOMAIN requests[sh] /\ Head(requests[sh]) = requests[sh][1]
           /\ \A s \in Shards : s # sh => requests'[s] = requests[s]
           /\ \A i \in DOMAIN requests'[sh] :
                 i + 1 \in DOMAIN requests[sh] /\ requests'[sh][i] = requests[sh][i + 1] /\ 1 < i + 1
           /\ \A i \in DOMAIN requests[sh] : i # 1 =>
                 i - 1 \in DOMAIN requests'[sh] /\ requests'[sh][i - 1] = requests[sh][i]
           /\ \A i \in DOMAIN requests'[sh] : i \in Int
  <1>1. requests[sh] \in Seq(Request) /\ requests'[sh] = Tail(requests[sh])
    BY DEF Types
  <1>2. /\ DOMAIN requests[sh] = 1 .. Len(requests[sh]) /\ Len(requests[sh]) \in Nat \ {0}
        /\ Head(requests[sh]) = requests[sh][1]
    BY <1>1, TailParts
  <1>3. /\ DOMAIN requests'[sh] = 1 .. Len(requests[sh]) - 1
        /\ \A i \in 1 .. Len(requests[sh]) - 1 : requests'[sh][i] = requests[sh][i + 1]
    BY <1>1, TailParts
  <1>4. requests' \in [Shards -> Seq(Request)]
    BY <1>1 DEF Types
  <1>5. \A s \in Shards : s # sh => requests'[s] = requests[s]
    BY DEF Types
  <1>6. \A i \in DOMAIN requests[sh] : i # 1 =>
           i - 1 \in DOMAIN requests'[sh] /\ requests'[sh][i - 1] = requests[sh][i]
    BY <1>2, <1>3
  <1> QED
    BY <1>2, <1>3, <1>4, <1>5, <1>6

(* A request that is not a wait leaves the place of its thread; the shard   *)
(* has then handled it, and nothing else has changed for any thread.        *)
Serves(sh, t, r) ==
    /\ requests[sh] # << >> /\ requests' = [requests EXCEPT ![sh] = Tail(@)]
    /\ t = Head(requests[sh]).from /\ Head(requests[sh]).type # "wait"
    /\ r \in Calling /\ call' = [call EXCEPT ![t] = r]
    /\ r.pc = call[t].pc /\ r.sh = call[t].sh /\ r.type = call[t].type

LEMMA HandlesOne ==
    ASSUME TableInv, NEW sh \in Shards, NEW t, NEW r, Serves(sh, t, r)
    PROVE  /\ t \in Threads /\ call[t] # Idle /\ call'[t] = r
           /\ \A u \in Threads : u # t => call'[u] = call[u]
           /\ QueueInv'
           /\ ~Handled(t, sh)
           /\ \A u \in Threads, s \in Shards :
                 Handled(u, s)' <=> Handled(u, s) \/ (u = t /\ s = sh)
  <1>0. /\ requests[sh] # << >> /\ requests' = [requests EXCEPT ![sh] = Tail(@)]
        /\ t = Head(requests[sh]).from /\ Head(requests[sh]).type # "wait"
        /\ r \in Calling /\ call' = [call EXCEPT ![t] = r]
        /\ r.pc = call[t].pc /\ r.sh = call[t].sh /\ r.type = call[t].type
    BY DEF Serves
  <1>1. /\ 1 \in DOMAIN requests[sh] /\ Head(requests[sh]) = requests[sh][1]
        /\ \A s \in Shards : s # sh => requests'[s] = requests[s]
        /\ \A i \in DOMAIN requests'[sh] :
              i + 1 \in DOMAIN requests[sh] /\ requests'[sh][i] = requests[sh][i + 1] /\ 1 < i + 1
        /\ \A i \in DOMAIN requests[sh] : i # 1 =>
              i - 1 \in DOMAIN requests'[sh] /\ requests'[sh][i - 1] = requests[sh][i]
        /\ \A i \in DOMAIN requests'[sh] : i \in Int
    BY <1>0, Dequeued DEF TableInv
  <1>2. /\ t \in Threads /\ call[t] # Idle /\ requests[sh][1].from = t
        /\ requests[sh][1].type # "wait" /\ call[t].pc \in {"submit", "wait", "waiting"}
    <2>1. requests[sh][1].from \in Threads /\ Placed(sh, 1)
      BY <1>1, RequestParts DEF TableInv, QueueInv
    <2> QED
      BY <1>0, <1>1, <2>1 DEF Placed
  <1>3. r # Idle /\ call'[t] = r /\ \A u \in Threads : u # t => call'[u] = call[u]
    BY <1>0, <1>2, IdleCall DEF TableInv, Types
  <1>4. \A u \in Threads : /\ call'[u] # Idle <=> call[u] # Idle
                           /\ call'[u].pc = call[u].pc /\ call'[u].sh = call[u].sh
                           /\ call'[u].type = call[u].type
    BY <1>0, <1>2, <1>3
  <1>5. \A s \in Shards : \A i \in DOMAIN requests'[s] :
           \E n \in {0, 1} : i + n \in DOMAIN requests[s] /\ requests'[s][i] = requests[s][i + n]
                             /\ (n = 1 <=> s = sh)
    <2> SUFFICES ASSUME NEW s \in Shards, NEW i \in DOMAIN requests'[s]
                 PROVE  \E n \in {0, 1} : /\ i + n \in DOMAIN requests[s]
                                          /\ requests'[s][i] = requests[s][i + n]
                                          /\ n = 1 <=> s = sh
      OBVIOUS
    <2>1. CASE s = sh
      BY <1>1, <2>1
    <2>2. CASE s # sh
      <3>1. i \in DOMAIN requests[s] /\ requests'[s][i] = requests[s][i]
        BY <1>1, <2>2
      <3>2. i + 0 = i
        BY <3>1, RequestParts DEF TableInv
      <3> QED
        BY <2>2, <3>1, <3>2
    <2> QED
      BY <2>1, <2>2
  <1>6. QueueInv'
    <2> SUFFICES ASSUME NEW s \in Shards, NEW i \in DOMAIN requests'[s]
                 PROVE  Placed(s, i)' /\ \A j \in DOMAIN requests'[s] : Ordered(s, i, j)'
      BY DEF QueueInv
    <2>1. PICK n \in {0, 1} : /\ i + n \in DOMAIN requests[s]
                              /\ requests'[s][i] = requests[s][i + n]
                              /\ n = 1 <=> s = sh
      BY <1>5
    <2>2. requests[s][i + n].from \in Threads
      BY <2>1, RequestParts DEF TableInv
    <2>3. ASSUME NEW j \in DOMAIN requests'[s] PROVE Ordered(s, i, j)'
      <3>1. j + n \in DOMAIN requests[s] /\ requests'[s][j] = requests[s][j + n]
        <4>1. PICK m \in {0, 1} : /\ j + m \in DOMAIN requests[s]
                                  /\ requests'[s][j] = requests[s][j + m]
                                  /\ m = 1 <=> s = sh
          BY <1>5
        <4>2. m = n
          BY <2>1, <4>1
        <4> QED
          BY <4>1, <4>2
      <3>2. i \in Int /\ j \in Int
        BY <1>0, Dequeued DEF TableInv, Types
      <3>3. i < j => i + n < j + n
        BY <3>2
      <3>4. Ordered(s, i + n, j + n)
        BY <2>1, <3>1 DEF TableInv, QueueInv
      <3> QED
        BY <2>1, <3>1, <3>3, <3>4 DEF Ordered
    <2>4. Placed(s, i + n)
      BY <2>1 DEF TableInv, QueueInv
    <2>5. Placed(s, i)'
      <3>1. PICK q : q = requests[s][i + n] /\ requests'[s][i] = q /\ q.from \in Threads
        BY <2>1, <2>2
      <3> QED
        BY <1>4, <2>4, <3>1 DEF Placed
    <2> QED
      BY <2>3, <2>5
  <1>7. ~Handled(t, sh)
    BY <1>1, <1>2 DEF Handled
  <1>8. Submitted(t, sh)
    <2>1. Placed(sh, 1) /\ call[t].sh \in Shards
      BY <1>1, <1>2, CallParts DEF TableInv, QueueInv
    <2> QED
      BY <1>2, <2>1, ShardedTableAssumption DEF Placed, Submitted, Shards
  <1>9. \A i \in DOMAIN requests[sh] : i # 1 /\ requests[sh][i].from = t => requests[sh][i].type = "wait"
    <2>1. \A i \in DOMAIN requests[sh] : i \in Nat \ {0} /\ Ordered(sh, 1, i)
      BY <1>1, RequestParts DEF TableInv, QueueInv
    <2> QED
      BY <1>2, <2>1 DEF Ordered
  <1>10. ASSUME NEW u \in Threads, NEW s \in Shards
         PROVE  Handled(u, s)' <=> Handled(u, s) \/ (u = t /\ s = sh)
    <2>1. Submitted(u, s)' <=> Submitted(u, s)
      BY <1>4 DEF Submitted
    <2>2. CASE s # sh
      BY <1>1, <1>4, <2>1, <2>2 DEF Handled
    <2>3. CASE s = sh /\ u # t
      <3>1. (\A i \in DOMAIN requests'[sh] : ~(requests'[sh][i].from = u /\ requests'[sh][i].type # "wait"))
              <=> (\A i \in DOMAIN requests[sh] : ~(requests[sh][i].from = u /\ requests[sh][i].type # "wait"))
        <4>1. ASSUME NEW i \in DOMAIN requests[sh], requests[sh][i].from = u
              PROVE  \E j \in DOMAIN requests'[sh] : requests'[sh][j] = requests[sh][i]
          BY <1>1, <1>2, <2>3, <4>1
        <4>2. ASSUME NEW i \in DOMAIN requests'[sh]
              PROVE  \E j \in DOMAIN requests[sh] : requests[sh][j] = requests'[sh][i]
          BY <1>1
        <4>3. ASSUME NEW i \in DOMAIN requests[sh], requests[sh][i].from = u,
                     requests[sh][i].type # "wait"
              PROVE  \E j \in DOMAIN requests'[sh] :
                        requests'[sh][j].from = u /\ requests'[sh][j].type # "wait"
          BY <4>1, <4>3
        <4>4. ASSUME NEW i \in DOMAIN requests'[sh], requests'[sh][i].from = u,
                     requests'[sh][i].type # "wait"
              PROVE  \E j \in DOMAIN requests[sh] :
                        requests[sh][j].from = u /\ requests[sh][j].type # "wait"
          BY <4>2, <4>4
        <4> QED
          BY <4>3, <4>4
      <3> QED
        BY <1>4, <2>1, <2>3, <3>1 DEF Handled
    <2>4. CASE s = sh /\ u = t
      <3>1. \A i \in DOMAIN requests'[sh] : ~(requests'[sh][i].from = t /\ requests'[sh][i].type # "wait")
        BY <1>1, <1>9
      <3> QED
        BY <1>2, <1>4, <1>8, <2>1, <2>4, <3>1 DEF Handled
    <2> QED
      BY <2>2, <2>3, <2>4
  <1> QED
    BY <1>2, <1>3, <1>6, <1>7, <1>10

(* A wait is handled: everything else of its thread in this queue was       *)
(* before it, so the thread has nothing left at this shard and goes on.     *)
LEMMA InvHandleWait ==
    ASSUME TableInv, NEW sh \in Shards, requests[sh] # << >>,
           requests' = [requests EXCEPT ![sh] = Tail(@)],
           NEW t, t = Head(requests[sh]).from, Head(requests[sh]).type = "wait",
           call' = [call EXCEPT ![t] = woken(call[t])],
           UNCHANGED <<table, num_items, stats, failures, seen, secret, load>>
    PROVE  TableInv'
  <1>1. /\ requests' \in [Shards -> Seq(Request)]
        /\ 1 \in DOMAIN requests[sh] /\ Head(requests[sh]) = requests[sh][1]
        /\ \A s \in Shards : s # sh => requests'[s] = requests[s]
        /\ \A i \in DOMAIN requests'[sh] :
              i + 1 \in DOMAIN requests[sh] /\ requests'[sh][i] = requests[sh][i + 1] /\ 1 < i + 1
        /\ \A i \in DOMAIN requests[sh] : i # 1 =>
              i - 1 \in DOMAIN requests'[sh] /\ requests'[sh][i - 1] = requests[sh][i]
        /\ \A i \in DOMAIN requests'[sh] : i \in Int
    BY Dequeued DEF TableInv
  <1>2. /\ t \in Threads /\ call[t] # Idle /\ call[t] \in Calling /\ call[t].pc = "waiting"
        /\ call[t].sh = sh /\ sh \in Nat
    BY <1>1, RequestParts, CallParts DEF TableInv, QueueInv, Placed, Shards
  <1>3. PICK r \in Calling :
           /\ call' = [call EXCEPT ![t] = r]
           /\ r.type = call[t].type /\ r.batch = call[t].batch /\ r.answer = call[t].answer
           /\ r.failed = call[t].failed
           /\ \/ r.pc = "collect" /\ r.sh = sh /\ sh = NUM_SHARDS - 1
              \/ r.type = "clear" /\ r.pc = "submit" /\ r.sh = sh + 1
              \/ r.type # "clear" /\ r.pc = "wait" /\ r.sh = sh + 1
    <2>1. CASE sh = NUM_SHARDS - 1
      <3> DEFINE r0 == [call[t] EXCEPT !.pc = "collect"]
      <3>1. call' = [call EXCEPT ![t] = r0]
        BY <1>2, <2>1 DEF woken
      <3>2. /\ r0 \in Calling /\ r0.pc = "collect" /\ r0.sh = sh
            /\ r0.type = call[t].type /\ r0.batch = call[t].batch
            /\ r0.answer = call[t].answer /\ r0.failed = call[t].failed
        BY <1>2 DEF Calling
      <3> QED
        BY <2>1, <3>1, <3>2
    <2>2. CASE sh # NUM_SHARDS - 1
      <3>1. PICK l \in {"submit", "wait"} :
               l = (IF call[t].type = "clear" THEN "submit" ELSE "wait")
        OBVIOUS
      <3> DEFINE r0 == [call[t] EXCEPT !.pc = l, !.sh = sh + 1]
      <3>2. call' = [call EXCEPT ![t] = r0]
        BY <1>2, <2>2, <3>1 DEF woken
      <3>3. sh + 1 \in Shards
        BY <1>2, <2>2, ShardedTableAssumption, ShardSetAssumption DEF Shards
      <3>4. /\ r0 \in Calling /\ r0.pc = l /\ r0.sh = sh + 1
            /\ r0.type = call[t].type /\ r0.batch = call[t].batch
            /\ r0.answer = call[t].answer /\ r0.failed = call[t].failed
        BY <1>2, <3>3 DEF Calling
      <3> QED
        BY <3>1, <3>2, <3>4
    <2> QED
      BY <2>1, <2>2
  <1>4. /\ r # Idle /\ call'[t] = r
        /\ \A u \in Threads : u # t => call'[u] = call[u]
    BY <1>2, <1>3, IdleCall DEF TableInv, Types
  <1>5. \A i \in DOMAIN requests[sh] : i # 1 => requests[sh][i].from # t
    BY <1>1, RequestParts DEF TableInv, QueueInv, Ordered
  <1>6. Types'
    BY <1>1, <1>3 DEF TableInv, Types
  <1>7. RolesInv'
    <2>1. DOMAIN r.answer = DOMAIN r.batch /\ (r.pc = "collect" => r.sh = NUM_SHARDS - 1)
      BY <1>2, <1>3 DEF TableInv, RolesInv
    <2>2. t \in Clients => call[t].type = "query"
      BY <1>2 DEF TableInv, RolesInv
    <2>3. \A c \in Clients : call'[c] # Idle =>
             /\ call'[c].type \in {"query", "statistics"}
             /\ call'[c].type = "statistics" <=> call'[c].pc = "count"
      BY <1>2, <1>3, <1>4, <2>2 DEF TableInv, RolesInv, Threads
    <2>4. call'[Loader] = call[Loader] \/ (t = Loader /\ call'[Loader] = r)
      BY <1>4 DEF Threads
    <2>5. \A u \in Threads : call'[u] = call[u] \/ (u = t /\ call'[u] = r)
      BY <1>4
    <2>6. call'[Loader] # Idle =>
             /\ call'[Loader].pc # "count"
             /\ \/ /\ call'[Loader].type = "clear" /\ load.pc = "clear"
                   /\ DOMAIN call'[Loader].batch = {}
                \/ /\ call'[Loader].type = "insert" /\ load.pc = "put"
                   /\ call'[Loader].batch = load.msg.records
      <3>1. CASE call'[Loader] = call[Loader]
        BY <3>1 DEF TableInv, RolesInv
      <3>2. CASE t = Loader /\ call'[Loader] = r
        BY <1>2, <1>3, <3>2 DEF TableInv, RolesInv
      <3> QED
        BY <2>4, <3>1, <3>2
    <2>7. load.pc \in {"clear", "put"} => call'[Loader] # Idle
      BY <1>4, <2>4 DEF TableInv, RolesInv
    <2>8. \A u \in Threads : call'[u] # Idle =>
             /\ DOMAIN call'[u].answer = DOMAIN call'[u].batch
             /\ call'[u].pc = "collect" => call'[u].sh = NUM_SHARDS - 1
      BY <2>1, <2>5 DEF TableInv, RolesInv
    <2> QED
      BY <2>3, <2>6, <2>7, <2>8 DEF RolesInv
  <1>8. QueueInv'
    <2> SUFFICES ASSUME NEW s \in Shards, NEW i \in DOMAIN requests'[s]
                 PROVE  Placed(s, i)' /\ \A j \in DOMAIN requests'[s] : Ordered(s, i, j)'
      BY DEF QueueInv
    <2>1. CASE s = sh
      <3>1. /\ Placed(s, i + 1) /\ requests'[s][i] = requests[s][i + 1]
            /\ requests[s][i + 1].from \in Threads /\ requests[s][i + 1].from # t
        BY <1>1, <1>5, <2>1, RequestParts DEF TableInv, QueueInv
      <3>2. Placed(s, i)'
        BY <1>4, <3>1 DEF Placed
      <3>3. ASSUME NEW j \in DOMAIN requests'[s] PROVE Ordered(s, i, j)'
        <4>1. Ordered(s, i + 1, j + 1) /\ requests'[s][j] = requests[s][j + 1]
          BY <1>1, <2>1 DEF TableInv, QueueInv
        <4>2. i \in Int /\ j \in Int
          BY <1>1, <2>1
        <4> QED
          BY <3>1, <4>1, <4>2 DEF Ordered
      <3> QED
        BY <3>2, <3>3
    <2>2. CASE s # sh
      <3>1. requests'[s] = requests[s] /\ Placed(s, i) /\ \A j \in DOMAIN requests[s] : Ordered(s, i, j)
        BY <1>1, <2>2 DEF TableInv, QueueInv
      <3>2. requests[s][i].from \in Threads
        BY <3>1, RequestParts DEF TableInv
      <3>3. CASE requests[s][i].from = t
        <4>1. /\ requests[s][i].type # "wait" /\ requests[s][i].type = call[t].type
              /\ sh < s /\ call[t].type # "clear" /\ sh # NUM_SHARDS - 1
          BY <1>2, <2>2, <3>1, <3>3, ShardedTableAssumption DEF Placed, Shards
        <4>2. r.pc = "wait" /\ r.sh = sh + 1 /\ r.type = call[t].type /\ sh + 1 <= s
          BY <1>2, <1>3, <4>1 DEF Shards
        <4>3. Placed(s, i)'
          BY <1>4, <3>1, <3>3, <4>1, <4>2 DEF Placed
        <4> QED
          BY <3>1, <4>3 DEF Ordered
      <3>4. CASE requests[s][i].from # t
        BY <1>4, <3>1, <3>2, <3>4 DEF Placed, Ordered
      <3> QED
        BY <3>3, <3>4
    <2> QED
      BY <2>1, <2>2
  <1>9. ASSUME NEW u \in Threads, NEW s \in Shards
        PROVE  Handled(u, s)' <=> Handled(u, s)
    <2>1. Submitted(u, s)' <=> Submitted(u, s)
      BY <1>2, <1>3, <1>4, ShardedTableAssumption DEF Submitted, Shards
    <2>2. call'[u] # Idle <=> call[u] # Idle
      BY <1>2, <1>4
    <2>3. CASE s # sh
      BY <1>1, <2>1, <2>2, <2>3 DEF Handled
    <2>4. CASE s = sh
      <3>1. ASSUME NEW i \in DOMAIN requests[sh], requests[sh][i].from = u,
                   requests[sh][i].type # "wait"
            PROVE  \E j \in DOMAIN requests'[sh] :
                      requests'[sh][j].from = u /\ requests'[sh][j].type # "wait"
        <4>1. i # 1
          BY <1>1, <3>1
        <4>2. i - 1 \in DOMAIN requests'[sh] /\ requests'[sh][i - 1] = requests[sh][i]
          BY <1>1, <4>1
        <4> QED
          BY <3>1, <4>2
      <3>2. ASSUME NEW i \in DOMAIN requests'[sh], requests'[sh][i].from = u,
                   requests'[sh][i].type # "wait"
            PROVE  \E j \in DOMAIN requests[sh] :
                      requests[sh][j].from = u /\ requests[sh][j].type # "wait"
        BY <1>1, <3>2
      <3> QED
        BY <2>1, <2>2, <2>4, <3>1, <3>2 DEF Handled
    <2> QED
      BY <2>3, <2>4
  <1>10. AnswerInv'
    <2>1. \A d \in Clients : call[d] # Idle => call[d].batch \in Batches
      BY CallParts DEF TableInv, Threads
    <2> QED
      <3>1. \A d \in Clients : call'[d] = call[d] \/ (d = t /\ call'[d] = r)
        BY <1>4 DEF Threads
      <3>2. \A d \in Clients : \A s \in Shards : Handled(d, s)' => Handled(d, s)
        BY <1>9 DEF Threads
      <3>3. \A c \in Clients :
               \/ call'[c] = Idle \/ call'[c].type # "query"
               \/ /\ call[c] # Idle /\ call[c].type = "query"
                  /\ call'[c].batch = call[c].batch /\ call'[c].answer = call[c].answer
                  /\ call'[c].failed = call[c].failed /\ seen'[c] = seen[c]
                  /\ \A s \in Shards : Handled(c, s)' => Handled(c, s)
        BY <1>2, <1>3, <3>1, <3>2
      <3>4. AnswerInv /\ table' = table
        BY DEF TableInv
      <3> QED
        BY <2>1, <3>3, <3>4, AnswerSame
  <1>11. LoadInv'
    BY <1>3, <1>4, <1>9, LoadSame DEF TableInv, Threads
  <1>12. SecretKept' /\ StatsInv'
    BY StatsSame DEF TableInv, SecretKept
  <1> QED
    BY <1>6, <1>7, <1>8, <1>10, <1>11, <1>12 DEF TableInv

(* What an answer for the keys in B does to the call of t. *)
Answers(t, B, r) ==
    /\ r \in Calling /\ r.pc = call[t].pc /\ r.sh = call[t].sh
    /\ r.type = call[t].type /\ r.batch = call[t].batch /\ r.failed = call[t].failed
    /\ DOMAIN r.answer = DOMAIN call[t].batch
    /\ \A k \in DOMAIN call[t].batch :
          r.answer[k] = IF k \in B THEN table[k] ELSE call[t].answer[k]

LEMMA AnsweredParts ==
    ASSUME TableInv, NEW t \in Threads, call[t] # Idle, NEW B, NEW r, r = answered(call[t], B)
    PROVE  Answers(t, B, r)
  <1> DEFINE f == [k \in DOMAIN call[t].answer |-> IF k \in B THEN table[k] ELSE call[t].answer[k]]
             r0 == [call[t] EXCEPT !.answer = f]
  <1>1. /\ call[t] \in Calling /\ DOMAIN call[t].answer = DOMAIN call[t].batch
        /\ call[t].answer \in Batches
    BY CallParts DEF TableInv, RolesInv
  <1>2. f \in Batches
    <2>1. DOMAIN call[t].answer \in SUBSET Keys /\ call[t].answer \in [DOMAIN call[t].answer -> Contents]
      BY <1>1, BatchParts
    <2>2. f \in [DOMAIN call[t].answer -> Contents]
      BY <2>1 DEF TableInv, Types
    <2> QED
      BY <2>1, <2>2, BatchType
  <1>3. /\ DOMAIN f = DOMAIN call[t].batch
        /\ \A k \in DOMAIN call[t].batch : f[k] = IF k \in B THEN table[k] ELSE call[t].answer[k]
    BY <1>1
  <1> HIDE DEF f
  <1>4. /\ r0 \in Calling /\ r0.pc = call[t].pc /\ r0.sh = call[t].sh
        /\ r0.type = call[t].type /\ r0.batch = call[t].batch
        /\ r0.answer = f /\ r0.failed = call[t].failed
    BY <1>1, <1>2 DEF Calling
  <1>5. answered(call[t], B) = r0
    BY DEF answered, f
  <1> HIDE DEF r0
  <1> QED
    BY <1>3, <1>4, <1>5 DEF Answers

(* A query is answered from the table as it is, which its client sees. *)
LEMMA InvHandleQuery ==
    ASSUME TableInv, NEW sh \in Shards, NEW t, NEW r, Serves(sh, t, r),
           Head(requests[sh]).type = "query",
           r.batch = call[t].batch, r.failed = call[t].failed,
           DOMAIN r.answer = DOMAIN call[t].batch,
           \A k \in DOMAIN call[t].batch :
              r.answer[k] = IF ShardOf[k] = sh THEN table[k] ELSE call[t].answer[k],
           UNCHANGED <<table, num_items, stats, failures, seen, secret, load>>
    PROVE  TableInv'
  <1>2. /\ t \in Threads /\ call[t] # Idle /\ call'[t] = r
        /\ \A u \in Threads : u # t => call'[u] = call[u]
        /\ QueueInv'
        /\ ~Handled(t, sh)
        /\ \A u \in Threads, s \in Shards :
              Handled(u, s)' <=> Handled(u, s) \/ (u = t /\ s = sh)
    BY HandlesOne
  <1> USE DEF Serves
  <1>3. /\ requests' \in [Shards -> Seq(Request)]
        /\ 1 \in DOMAIN requests[sh] /\ Head(requests[sh]) = requests[sh][1]
    BY Dequeued DEF TableInv
  <1>4. call[t].type = "query" /\ call[t].batch \in Batches
    <2>1. Placed(sh, 1) /\ requests[sh][1].type = "query" /\ requests[sh][1].from = t
      BY <1>3 DEF TableInv, QueueInv
    <2>2. call[t].type = "query"
      BY <2>1 DEF Placed
    <2> QED
      BY <1>2, <2>2, CallParts DEF TableInv
  <1>5. t \in Clients /\ t # Loader /\ Loader \in Threads
    BY <1>2, <1>4, ShardedTableAssumption DEF TableInv, RolesInv, Threads
  <1>6. Types'
    BY <1>3 DEF TableInv, Types
  <1>7. RolesInv'
    <2>1. \A u \in Threads : \/ call'[u] = call[u]
                             \/ u = t /\ call'[u] = r /\ call[u].type = "query"
      BY <1>2, <1>4
    <2>2. call'[Loader] = call[Loader]
      BY <1>2, <1>5
    <2>3. \A c \in Clients : call'[c] # Idle =>
             /\ call'[c].type \in {"query", "statistics"}
             /\ call'[c].type = "statistics" <=> call'[c].pc = "count"
      BY <1>2, <2>1 DEF TableInv, RolesInv, Threads
    <2>4. \A u \in Threads : call'[u] # Idle =>
             /\ DOMAIN call'[u].answer = DOMAIN call'[u].batch
             /\ call'[u].pc = "collect" => call'[u].sh = NUM_SHARDS - 1
      BY <1>2, <2>1 DEF TableInv, RolesInv
    <2> QED
      BY <2>2, <2>3, <2>4 DEF TableInv, RolesInv
  <1>8. AnswerInv'
    <2> SUFFICES ASSUME NEW d \in Clients, call'[d] # Idle, call'[d].type = "query"
                 PROVE  /\ \A k \in Keys : table'[k] \in seen'[d][k]
                        /\ \A k \in DOMAIN call'[d].batch : Handled(d, ShardOf[k])' =>
                              call'[d].answer[k] \in seen'[d][k] \/ ShardOf[k] \in call'[d].failed
      BY DEF AnswerInv
    <2>1. d \in Threads
      BY DEF Threads
    <2>2. CASE d = t
      <3>1. \A k \in DOMAIN r.batch : k \in Keys /\ ShardOf[k] \in Shards
        BY <1>4, BatchParts, ShardedTableAssumption
      <3>2. \A k \in Keys : table[k] \in seen[t][k]
        BY <1>2, <1>4, <1>5 DEF TableInv, AnswerInv
      <3>3. ASSUME NEW k \in DOMAIN r.batch, Handled(t, ShardOf[k])'
            PROVE  r.answer[k] \in seen[t][k] \/ ShardOf[k] \in r.failed
        <4>1. CASE ShardOf[k] = sh
          BY <3>1, <3>2, <4>1
        <4>2. CASE ShardOf[k] # sh
          BY <1>2, <1>4, <1>5, <3>1, <3>3, <4>2 DEF TableInv, AnswerInv
        <4> QED
          BY <4>1, <4>2
      <3>4. call'[d] = r /\ table' = table /\ seen'[d] = seen[t]
        BY <1>2, <2>2
      <3>5. \A k \in DOMAIN call'[d].batch : Handled(d, ShardOf[k])' =>
               call'[d].answer[k] \in seen'[d][k] \/ ShardOf[k] \in call'[d].failed
        BY <2>2, <3>3, <3>4
      <3> QED
        BY <3>2, <3>4, <3>5
    <2>3. CASE d # t
      <3>1. call'[d] = call[d] /\ call[d].batch \in Batches
        BY <1>2, <2>1, <2>3, CallParts DEF TableInv
      <3>2. \A k \in DOMAIN call[d].batch : ShardOf[k] \in Shards
        BY <3>1, BatchParts, ShardedTableAssumption
      <3> QED
        BY <1>2, <2>1, <2>3, <3>1, <3>2 DEF TableInv, AnswerInv
    <2> QED
      BY <2>2, <2>3
  <1>9. LoadInv'
    BY <1>2, <1>5, LoadSame DEF TableInv
  <1>10. SecretKept' /\ StatsInv'
    BY StatsSame DEF TableInv, SecretKept
  <1> QED
    BY <1>2, <1>6, <1>7, <1>8, <1>9, <1>10 DEF TableInv

(* The records change: everybody in a call has seen it. *)
LEMMA Becoming ==
    ASSUME Types, NEW new \in [Keys -> Contents], NEW counts \in [Shards -> Nat],
           becomes(new, counts)
    PROVE  /\ table' = new /\ num_items' = counts
           /\ seen' \in [Threads -> [Keys -> SUBSET Contents]]
           /\ stats' \in [Clients -> [sh : 0 .. NUM_SHARDS, sum : Nat, quiet : BOOLEAN]]
           /\ \A t \in Threads, k \in Keys : call[t] # Idle =>
                 new[k] \in seen'[t][k] /\ seen[t][k] \subseteq seen'[t][k]
           /\ \A c \in Clients : /\ stats'[c].sh = stats[c].sh /\ stats'[c].sum = stats[c].sum
                                 /\ stats'[c].quiet => stats[c].quiet /\ counts = num_items
  <1>1. table' = new /\ num_items' = counts
    BY DEF becomes
  <1>2. seen' \in [Threads -> [Keys -> SUBSET Contents]]
    <2>1. \A t \in Threads, k \in Keys :
             (IF call[t] = Idle THEN {} ELSE seen[t][k] \cup {new[k]}) \in SUBSET Contents
      BY DEF Types
    <2> QED
      BY <2>1 DEF becomes
  <1>3. \A t \in Threads, k \in Keys : call[t] # Idle =>
           new[k] \in seen'[t][k] /\ seen[t][k] \subseteq seen'[t][k]
    BY DEF becomes
  <1>4. ASSUME NEW c \in Clients
        PROVE  /\ stats'[c] \in [sh : 0 .. NUM_SHARDS, sum : Nat, quiet : BOOLEAN]
               /\ stats'[c].sh = stats[c].sh /\ stats'[c].sum = stats[c].sum
               /\ stats'[c].quiet => stats[c].quiet /\ counts = num_items
    <2>1. PICK q \in BOOLEAN : q <=> (stats[c].quiet /\ counts = num_items)
      OBVIOUS
    <2>2. stats'[c] = [stats[c] EXCEPT !.quiet = q]
      <3>1. stats[c] \in [sh : 0 .. NUM_SHARDS, sum : Nat, quiet : BOOLEAN]
        BY DEF Types
      <3>2. stats'[c] = [stats[c] EXCEPT !.quiet = (stats[c].quiet /\ counts = num_items)]
        BY DEF becomes
      <3>3. (stats[c].quiet /\ counts = num_items) = q
        BY <2>1
      <3> QED
        BY <3>2, <3>3, Zenon
    <2> QED
      BY <2>1, <2>2 DEF Types
  <1>5. stats' \in [Clients -> [sh : 0 .. NUM_SHARDS, sum : Nat, quiet : BOOLEAN]]
    <2>1. stats' = [c \in Clients |-> stats'[c]]
      BY DEF becomes
    <2> QED
      BY <1>4, <2>1
  <1> QED
    BY <1>1, <1>2, <1>3, <1>4, <1>5

(* The counters after a change in one shard: a sum that nobody disturbed    *)
(* has counted as many records as before.                                   *)
LEMMA StatsBecome ==
    ASSUME StatsInv, Types, NEW sh \in Shards,
           table' \in [Keys -> Contents],
           \A k \in Keys : ShardOf[k] # sh => table'[k] = table[k],
           failures' = 0 =>
              /\ failures = 0
              /\ num_items'[sh] = 1 + Cardinality(Present(sh)')
              /\ \A s \in Shards : s # sh => num_items'[s] = num_items[s],
           \A c \in Clients : /\ stats'[c].sh = stats[c].sh /\ stats'[c].sum = stats[c].sum
                              /\ stats'[c].quiet => stats[c].quiet /\ num_items' = num_items
    PROVE  StatsInv'
  <1>1. ASSUME failures' = 0
        PROVE  \A s \in Shards : num_items'[s] = 1 + Cardinality(Present(s)')
    <2> SUFFICES ASSUME NEW s \in Shards, s # sh
                 PROVE  num_items'[s] = 1 + Cardinality(Present(s)')
      BY <1>1
    <2>1. Present(s)' = Present(s)
      BY DEF Present
    <2> QED
      BY <1>1, <2>1 DEF StatsInv
  <1>2. ASSUME NEW c \in Clients, stats'[c].quiet, failures' = 0
        PROVE  (stats[c].sum = stats[c].sh + Cardinality(PresentBelow(stats[c].sh)))'
    <2>1. PICK n \in 0 .. NUM_SHARDS : n = stats[c].sh /\ stats'[c].sh = n
      BY ShardedTableAssumption DEF Types
    <2>2. stats[c].sum = n + Cardinality(PresentBelow(n))
      BY <1>2, <2>1 DEF StatsInv
    <2>3. Cardinality(Present(sh)') = Cardinality(Present(sh))
      <3>1. num_items[sh] = 1 + Cardinality(Present(sh)) /\ num_items[sh] = 1 + Cardinality(Present(sh)')
        BY <1>2 DEF StatsInv
      <3>2. Present(sh) \in SUBSET Keys /\ Present(sh)' \in SUBSET Keys
        BY DEF Present
      <3>3. Cardinality(Present(sh)) \in Nat /\ Cardinality(Present(sh)') \in Nat
        BY <3>2, FS_Subset, FS_CardinalityType, ShardedTableAssumption
      <3> QED
        BY <3>1, <3>3
    <2>4. Cardinality(PresentBelow(n)') = Cardinality(PresentBelow(n))
      <3>1. CASE sh < n
        <4>1. PICK R \in SUBSET Keys :
                 R = {k \in Keys : ShardOf[k] < n /\ ShardOf[k] # sh /\ table[k] # Absent}
          OBVIOUS
        <4>2. PresentBelow(n) = R \cup Present(sh) /\ R \cap Present(sh) = {}
          BY <3>1, <4>1 DEF Present, PresentBelow
        <4>3. PresentBelow(n)' = R \cup Present(sh)' /\ R \cap Present(sh)' = {}
          BY <3>1, <4>1 DEF Present, PresentBelow
        <4>4. Present(sh) \in SUBSET Keys /\ Present(sh)' \in SUBSET Keys
          BY DEF Present
        <4>5. Cardinality(PresentBelow(n)) = Cardinality(R) + Cardinality(Present(sh))
          BY <4>2, <4>4, Disjoint
        <4>6. Cardinality(PresentBelow(n)') = Cardinality(R) + Cardinality(Present(sh)')
          BY <4>3, <4>4, Disjoint
        <4> QED
          BY <2>3, <4>5, <4>6
      <3>2. CASE ~(sh < n)
        <4>1. PresentBelow(n)' = PresentBelow(n)
          BY <3>2, ShardedTableAssumption DEF PresentBelow, Shards
        <4> QED
          BY <4>1
      <3> QED
        BY <3>1, <3>2
    <2>5. PresentBelow(stats[c].sh)' = PresentBelow(n)'
      BY <2>1 DEF PresentBelow
    <2> QED
      BY <2>1, <2>2, <2>4, <2>5
  <1> QED
    BY <1>1, <1>2 DEF StatsInv

(* A request that changes records: threads in a query have seen the change, *)
(* and the query that was handled, if it was one, has failed.               *)
LEMMA ChangesTable ==
    ASSUME TableInv, NEW sh \in Shards, NEW t, NEW r, Serves(sh, t, r),
           r.batch = call[t].batch, r.answer = call[t].answer,
           call[t].failed \subseteq r.failed, t \in Clients => sh \in r.failed,
           NEW new \in [Keys -> Contents], NEW counts \in [Shards -> Nat],
           becomes(new, counts), failures' \in Nat, UNCHANGED <<secret, load>>
    PROVE  Types' /\ RolesInv' /\ QueueInv' /\ AnswerInv' /\ SecretKept'
  <1>1. /\ t \in Threads /\ call[t] # Idle /\ call'[t] = r
        /\ \A u \in Threads : u # t => call'[u] = call[u]
        /\ QueueInv'
        /\ ~Handled(t, sh)
        /\ \A u \in Threads, s \in Shards :
              Handled(u, s)' <=> Handled(u, s) \/ (u = t /\ s = sh)
    BY HandlesOne
  <1>2. /\ table' = new /\ num_items' = counts
        /\ seen' \in [Threads -> [Keys -> SUBSET Contents]]
        /\ stats' \in [Clients -> [sh : 0 .. NUM_SHARDS, sum : Nat, quiet : BOOLEAN]]
        /\ \A u \in Threads, k \in Keys : call[u] # Idle =>
              new[k] \in seen'[u][k] /\ seen[u][k] \subseteq seen'[u][k]
    BY Becoming DEF TableInv
  <1>3. requests' \in [Shards -> Seq(Request)]
    BY Dequeued DEF TableInv, Serves
  <1>4. Types'
    BY <1>2, <1>3 DEF TableInv, Types, Serves
  <1>5. \A u \in Threads : /\ call'[u] # Idle <=> call[u] # Idle
                           /\ call'[u].pc = call[u].pc /\ call'[u].sh = call[u].sh
                           /\ call'[u].type = call[u].type /\ call'[u].batch = call[u].batch
                           /\ call'[u].answer = call[u].answer
    BY <1>1, IdleCall DEF Serves
  <1>6. RolesInv'
    BY <1>5 DEF TableInv, RolesInv, Threads
  <1>7. AnswerInv'
    <2> SUFFICES ASSUME NEW d \in Clients, call'[d] # Idle, call'[d].type = "query"
                 PROVE  /\ \A k \in Keys : table'[k] \in seen'[d][k]
                        /\ \A k \in DOMAIN call'[d].batch : Handled(d, ShardOf[k])' =>
                              call'[d].answer[k] \in seen'[d][k] \/ ShardOf[k] \in call'[d].failed
      BY DEF AnswerInv
    <2>1. d \in Threads /\ call[d] # Idle /\ call[d].type = "query" /\ call[d].batch \in Batches
      BY <1>5, CallParts DEF Threads, TableInv
    <2>2. \A k \in DOMAIN call[d].batch : k \in Keys /\ ShardOf[k] \in Shards
      BY <2>1, BatchParts, ShardedTableAssumption
    <2>3. call[d].failed \subseteq call'[d].failed /\ (d = t => sh \in call'[d].failed)
      BY <1>1, <2>1
    <2>4. ASSUME NEW k \in DOMAIN call[d].batch, Handled(d, ShardOf[k])'
          PROVE  call[d].answer[k] \in seen'[d][k] \/ ShardOf[k] \in call'[d].failed
      <3>1. CASE Handled(d, ShardOf[k])
        BY <1>2, <2>1, <2>2, <2>3, <3>1 DEF TableInv, AnswerInv
      <3>2. CASE ~Handled(d, ShardOf[k])
        BY <1>1, <2>1, <2>2, <2>3, <2>4, <3>2
      <3> QED
        BY <3>1, <3>2
    <2> QED
      BY <1>2, <1>5, <2>1, <2>4
  <1>8. SecretKept'
    BY DEF TableInv, SecretKept
  <1> QED
    BY <1>1, <1>4, <1>6, <1>7, <1>8

(* What an insert or a clear leaves in the table and in the counters. *)
LEMMA CountedParts ==
    ASSUME TableInv, NEW sh \in Shards, NEW c, NEW keys, NEW counts,
           c \in Calling, keys \subseteq DOMAIN c.batch, counts = counted(sh, c, keys)
    PROVE  counts \in [Shards -> Nat]
  <1>1. keys \subseteq Keys
    BY BatchParts DEF Calling
  <1>2. Cardinality({k \in keys : table[k] = Absent}) \in Nat
    <2>1. {k \in keys : table[k] = Absent} \in SUBSET Keys
      BY <1>1
    <2> QED
      BY <2>1, FS_Subset, FS_CardinalityType, ShardedTableAssumption
  <1> QED
    BY <1>2 DEF counted, TableInv, Types

LEMMA AppliedParts ==
    ASSUME TableInv, NEW sh \in Shards, NEW c, NEW keys, NEW lost, NEW new,
           c \in Calling, keys \subseteq DOMAIN c.batch, new = applied(sh, c, keys, lost)
    PROVE  /\ new \in [Keys -> Contents]
           /\ \A k \in Keys : ShardOf[k] # sh => new[k] = table[k]
           /\ \A k \in Keys : ShardOf[k] = sh =>
                 /\ k \in lost => new[k] = Absent
                 /\ k \in keys /\ k \notin lost => new[k] = c.batch[k]
                 /\ k \notin keys /\ k \notin lost =>
                       new[k] = IF c.type = "clear" THEN Absent ELSE table[k]
  <1>1. c.batch \in Batches
    BY DEF Calling
  <1>2. keys \subseteq Keys /\ \A k \in keys : c.batch[k] \in Contents
    BY <1>1, BatchParts
  <1>3. new \in [Keys -> Contents]
    <2>1. ASSUME NEW k \in Keys
          PROVE  (CASE ShardOf[k] # sh -> table[k]
                    [] ShardOf[k] = sh /\ k \in lost -> Absent
                    [] ShardOf[k] = sh /\ k \in keys \ lost -> c.batch[k]
                    [] OTHER -> IF c.type = "clear" THEN Absent ELSE table[k]) \in Contents
      BY <1>2 DEF TableInv, Types, Contents
    <2> QED
      BY <2>1 DEF applied
  <1>4. \A k \in Keys : ShardOf[k] # sh => new[k] = table[k]
    BY DEF applied
  <1>5. ASSUME NEW k \in Keys, ShardOf[k] = sh
        PROVE  /\ k \in lost => new[k] = Absent
               /\ k \in keys /\ k \notin lost => new[k] = c.batch[k]
               /\ k \notin keys /\ k \notin lost =>
                     new[k] = IF c.type = "clear" THEN Absent ELSE table[k]
    BY <1>5 DEF applied
  <1> QED
    BY <1>3, <1>4, <1>5

(* An insert or a clear succeeds in a shard. *)
LEMMA InvHandleApply ==
    ASSUME TableInv, NEW sh \in Shards, NEW t, NEW r, r = call[t], Serves(sh, t, r),
           Head(requests[sh]).type \in {"insert", "clear"},
           NEW B, B = {k \in DOMAIN r.batch : ShardOf[k] = sh},
           becomes(applied(sh, r, B, {}), counted(sh, r, B)),
           UNCHANGED <<failures, secret, load>>
    PROVE  TableInv'
  <1>1. /\ t \in Threads /\ call[t] # Idle /\ call'[t] = r
        /\ \A u \in Threads : u # t => call'[u] = call[u]
        /\ QueueInv'
        /\ ~Handled(t, sh)
        /\ \A u \in Threads, s \in Shards :
              Handled(u, s)' <=> Handled(u, s) \/ (u = t /\ s = sh)
    BY HandlesOne
  <1>2. r.type \in {"insert", "clear"}
    <2>1. 1 \in DOMAIN requests[sh] /\ Head(requests[sh]) = requests[sh][1]
      BY Dequeued DEF TableInv, Serves
    <2>2. Placed(sh, 1) /\ requests[sh][1].from = t /\ requests[sh][1].type \in {"insert", "clear"}
      BY <2>1 DEF TableInv, QueueInv, Serves
    <2> QED
      BY <2>2 DEF Placed
  <1>3. t = Loader /\ t \notin Clients /\ call'[Loader] = r /\ call[Loader] = r
    BY <1>1, <1>2, ShardedTableAssumption DEF TableInv, RolesInv, Threads
  <1>4. r \in Calling /\ B \subseteq DOMAIN r.batch /\ r.batch \in Batches
    BY <1>1, CallParts DEF TableInv
  <1>5. B \subseteq Keys /\ \A k \in B : ShardOf[k] = sh
    BY <1>4, BatchParts
  <1>a. PICK new : new = applied(sh, r, B, {})
    OBVIOUS
  <1>b. PICK counts : counts = counted(sh, r, B)
    OBVIOUS
  <1>6. /\ new \in [Keys -> Contents]
        /\ \A k \in Keys : ShardOf[k] # sh => new[k] = table[k]
        /\ \A k \in Keys : ShardOf[k] = sh =>
              /\ k \in {} => new[k] = Absent
              /\ k \in B /\ k \notin {} => new[k] = r.batch[k]
              /\ k \notin B /\ k \notin {} =>
                    new[k] = IF r.type = "clear" THEN Absent ELSE table[k]
    BY <1>4, <1>a, AppliedParts
  <1>7. counts \in [Shards -> Nat]
    BY <1>4, <1>b, CountedParts
  <1>8. becomes(new, counts)
    BY <1>a, <1>b
  <1>9. failures' \in Nat /\ failures' = failures
    BY DEF TableInv, Types
  <1>10. Types' /\ RolesInv' /\ QueueInv' /\ AnswerInv' /\ SecretKept'
    BY <1>3, <1>6, <1>7, <1>8, <1>9, ChangesTable
  <1>11. /\ table' = new /\ num_items' = counts
         /\ \A c \in Clients : /\ stats'[c].sh = stats[c].sh /\ stats'[c].sum = stats[c].sum
                               /\ stats'[c].quiet => stats[c].quiet /\ counts = num_items
    BY <1>6, <1>7, <1>8, Becoming DEF TableInv
  <1>12. \A k \in Keys : ShardOf[k] \in Shards
    BY ShardedTableAssumption
  <1>13. CASE r.type = "clear"
    <2>1. load.pc = "clear" /\ B = {}
      BY <1>1, <1>3, <1>13 DEF TableInv, RolesInv
    <2>2. LoadInv'
      <3>1. load.result = "none" /\ load.failed = {} /\ load.msg.clear_all
        BY <2>1 DEF TableInv, LoadInv
      <3>2. ASSUME NEW k \in Keys, Handled(Loader, ShardOf[k])'
            PROVE  (Holds(k, Cleared(k)))'
        <4>1. CASE ShardOf[k] = sh
          BY <1>6, <1>11, <1>13, <2>1, <3>1, <4>1 DEF Holds, Cleared
        <4>2. CASE ShardOf[k] # sh
          <5>1. Holds(k, Cleared(k))
            BY <1>1, <1>3, <1>12, <2>1, <3>2, <4>2 DEF TableInv, LoadInv
          <5> QED
            BY <1>6, <1>9, <1>11, <4>2, <5>1 DEF Holds, Cleared
        <4> QED
          BY <4>1, <4>2
      <3> QED
        BY <2>1, <3>1, <3>2 DEF LoadInv, LoadApplied
    <2>3. Present(sh)' = {}
      BY <1>6, <1>11, <1>13, <2>1 DEF Present
    <2>4. counts = [num_items EXCEPT ![sh] = 1]
      BY <1>b, <1>13 DEF counted
    <2>5. counts[sh] = 1 /\ \A s \in Shards : s # sh => counts[s] = num_items[s]
      BY <2>4 DEF TableInv, Types
    <2>6. num_items'[sh] = 1 + Cardinality(Present(sh)')
      BY <1>11, <2>3, <2>5, FS_EmptySet
    <2>7. StatsInv'
      BY <1>6, <1>9, <1>11, <2>5, <2>6, StatsBecome DEF TableInv
    <2> QED
      BY <1>10, <2>2, <2>7 DEF TableInv
  <1>14. CASE r.type = "insert"
    <2>1. load.pc = "put" /\ r.batch = load.msg.records
      BY <1>1, <1>3, <1>14 DEF TableInv, RolesInv
    <2>2. load.msg \in Loads
      BY <2>1 DEF TableInv, Types, Loading
    <2>3. LoadInv'
      <3>1. load.result = "none" /\ load.failed = {}
        BY <2>1 DEF TableInv, LoadInv
      <3>2. ASSUME NEW k \in Keys, ShardOf[k] \notin r.failed
            PROVE  (Holds(k, IF Handled(Loader, ShardOf[k]) THEN Loaded(k) ELSE Cleared(k)))'
        <4>1. Holds(k, IF Handled(Loader, ShardOf[k]) THEN Loaded(k) ELSE Cleared(k))
          BY <1>3, <2>1, <3>2 DEF TableInv, LoadInv
        <4>2. CASE ShardOf[k] = sh
          <5>1. Holds(k, Cleared(k)) /\ Handled(Loader, ShardOf[k])'
            BY <1>1, <1>3, <1>12, <4>1, <4>2
          <5>2. (Holds(k, Loaded(k)))'
            <6>1. CASE k \in B
              BY <1>6, <1>11, <2>1, <4>2, <6>1 DEF Holds, Loaded
            <6>2. CASE k \notin B
              <7>1. table'[k] = table[k] /\ k \notin DOMAIN load.msg.records
                BY <1>6, <1>11, <1>14, <2>1, <4>2, <6>2
              <7> QED
                BY <1>9, <5>1, <7>1 DEF Holds, Loaded, Cleared
            <6> QED
              BY <6>1, <6>2
          <5> QED
            BY <5>1, <5>2
        <4>3. CASE ShardOf[k] # sh
          <5>1. Handled(Loader, ShardOf[k])' <=> Handled(Loader, ShardOf[k])
            BY <1>1, <1>3, <1>12, <4>3
          <5>2. table'[k] = table[k]
            BY <1>6, <1>11, <4>3
          <5> QED
            BY <1>9, <4>1, <5>1, <5>2 DEF Holds, Loaded, Cleared
        <4> QED
          BY <4>2, <4>3
      <3> QED
        BY <1>3, <2>1, <3>1, <3>2 DEF LoadInv, LoadApplied
    <2>4. PICK N \in SUBSET Keys : N = {k \in B : table[k] = Absent}
      BY <1>5
    <2>5. Present(sh)' = Present(sh) \cup N /\ Present(sh) \cap N = {}
      <3>1. \A k \in B : r.batch[k] # Absent
        <4>1. \A k \in DOMAIN load.msg.records : load.msg.records[k] \in Vals
          BY <2>2, ShardedTableAssumption
        <4> QED
          BY <2>1, <4>1, ShardedTableAssumption
      <3> QED
        BY <1>5, <1>6, <1>11, <1>14, <2>4, <3>1 DEF Present
    <2>6. Present(sh) \in SUBSET Keys
      BY DEF Present
    <2>7. /\ Cardinality(Present(sh)') = Cardinality(Present(sh)) + Cardinality(N)
          /\ Cardinality(Present(sh)) \in Nat /\ Cardinality(N) \in Nat
      BY <2>5, <2>6, Disjoint
    <2>8. counts = [num_items EXCEPT ![sh] = num_items[sh] + Cardinality(N)]
      BY <1>b, <1>14, <2>4 DEF counted
    <2>9. /\ counts[sh] = num_items[sh] + Cardinality(N)
          /\ \A s \in Shards : s # sh => counts[s] = num_items[s]
      BY <2>8 DEF TableInv, Types
    <2>10. failures' = 0 => num_items'[sh] = 1 + Cardinality(Present(sh)')
      BY <1>9, <1>11, <2>7, <2>9 DEF TableInv, StatsInv
    <2>11. StatsInv'
      <3>1. failures' = 0 => /\ failures = 0
                             /\ num_items'[sh] = 1 + Cardinality(Present(sh)')
                             /\ \A s \in Shards : s # sh => num_items'[s] = num_items[s]
        BY <1>9, <1>11, <2>9, <2>10
      <3>2. StatsInv /\ Types /\ table' \in [Keys -> Contents]
            /\ \A k \in Keys : ShardOf[k] # sh => table'[k] = table[k]
        BY <1>6, <1>11 DEF TableInv
      <3> QED
        BY <1>11, <3>1, <3>2, StatsBecome
    <2> QED
      BY <1>10, <2>3, <2>11 DEF TableInv
  <1> QED
    BY <1>2, <1>13, <1>14

(* Records that get lost once a request has failed. *)
LEMMA LoadLossy ==
    ASSUME LoadInv, load' = load, failures' > 0,
           \A k \in Keys : table'[k] = table[k] \/ table'[k] = Absent,
           load.pc = "put" => call'[Loader].failed = call[Loader].failed,
           load.pc \in {"clear", "put"} =>
              \A sh \in Shards : Handled(Loader, sh)' <=> Handled(Loader, sh)
    PROVE  LoadInv'
  <1>1. \A k \in Keys : ShardOf[k] \in Shards
    BY ShardedTableAssumption
  <1>2. LoadApplied'
    BY DEF LoadInv, LoadApplied, Expected
  <1>3. ASSUME NEW k \in Keys, NEW v, Holds(k, v)
        PROVE  table'[k] = v \/ (table'[k] = Absent /\ failures' > 0)
    BY <1>3 DEF Holds
  <1> QED
    BY <1>1, <1>2, <1>3 DEF LoadInv, Holds, Cleared, Loaded

(* An insert or a query fails in a shard. *)
LEMMA InvHandleFail ==
    ASSUME TableInv, NEW sh \in Shards, NEW t, NEW r, Serves(sh, t, r),
           Head(requests[sh]).type \in {"insert", "query"},
           r.batch = call[t].batch, r.answer = call[t].answer,
           r.failed = call[t].failed \cup {sh},
           NEW done, NEW lost, NEW last,
           done \subseteq DOMAIN call[t].batch,
           Head(requests[sh]).type = "query" => done = {},
           becomes(applied(sh, call[t], done, lost), counted(sh, call[t], done \ last)),
           failures' = failures + 1, UNCHANGED <<secret, load>>
    PROVE  TableInv'
  <1>1. /\ t \in Threads /\ call[t] # Idle /\ call'[t] = r
        /\ \A u \in Threads : u # t => call'[u] = call[u]
        /\ QueueInv'
        /\ ~Handled(t, sh)
        /\ \A u \in Threads, s \in Shards :
              Handled(u, s)' <=> Handled(u, s) \/ (u = t /\ s = sh)
    BY HandlesOne
  <1>2. call[t].type = Head(requests[sh]).type
    <2>1. 1 \in DOMAIN requests[sh] /\ Head(requests[sh]) = requests[sh][1]
      BY Dequeued DEF TableInv, Serves
    <2>2. Placed(sh, 1) /\ requests[sh][1].from = t /\ requests[sh][1].type # "wait"
      BY <2>1 DEF TableInv, QueueInv, Serves
    <2> QED
      BY <2>1, <2>2 DEF Placed
  <1>3. call[t] \in Calling
    BY <1>1, CallParts DEF TableInv
  <1>a. PICK new : new = applied(sh, call[t], done, lost)
    OBVIOUS
  <1>b. PICK counts : counts = counted(sh, call[t], done \ last)
    OBVIOUS
  <1>4. /\ new \in [Keys -> Contents]
        /\ \A k \in Keys : ShardOf[k] # sh => new[k] = table[k]
        /\ \A k \in Keys : ShardOf[k] = sh =>
              /\ k \in lost => new[k] = Absent
              /\ k \in done /\ k \notin lost => new[k] = call[t].batch[k]
              /\ k \notin done /\ k \notin lost =>
                    new[k] = IF call[t].type = "clear" THEN Absent ELSE table[k]
    BY <1>3, <1>a, AppliedParts
  <1>5. counts \in [Shards -> Nat]
    BY <1>3, <1>b, CountedParts
  <1>6. becomes(new, counts)
    BY <1>a, <1>b
  <1>7. failures' \in Nat /\ failures' > 0
    BY DEF TableInv, Types
  <1>8. Types' /\ RolesInv' /\ QueueInv' /\ AnswerInv' /\ SecretKept'
    BY <1>4, <1>5, <1>6, <1>7, ChangesTable
  <1>9. /\ table' = new /\ num_items' = counts
        /\ \A c \in Clients : /\ stats'[c].sh = stats[c].sh /\ stats'[c].sum = stats[c].sum
                              /\ stats'[c].quiet => stats[c].quiet /\ counts = num_items
    BY <1>4, <1>5, <1>6, Becoming DEF TableInv
  <1>10. StatsInv'
    BY <1>7, <1>9 DEF TableInv, StatsInv
  <1>11. \A k \in Keys : ShardOf[k] \in Shards
    BY ShardedTableAssumption
  <1>12. Loader \in Threads
    BY DEF Threads
  <1>13. LoadInv'
    <2>1. CASE t # Loader
      <3>1. done = {} /\ call[t].type = "query"
        BY <1>1, <1>2, <2>1 DEF TableInv, RolesInv, Threads
      <3>2. \A k \in Keys : table'[k] = table[k] \/ table'[k] = Absent
        BY <1>4, <1>9, <3>1
      <3> QED
        BY <1>1, <1>7, <1>12, <2>1, <3>2, LoadLossy DEF TableInv
    <2>2. CASE t = Loader
      <3>1. load.pc = "put"
        BY <1>1, <1>2, <2>2 DEF TableInv, RolesInv
      <3>2. load.result = "none" /\ load.failed = {}
        BY <3>1 DEF TableInv, LoadInv
      <3>3. ASSUME NEW k \in Keys, ShardOf[k] \notin r.failed
            PROVE  (Holds(k, IF Handled(Loader, ShardOf[k]) THEN Loaded(k) ELSE Cleared(k)))'
        <4>1. ShardOf[k] # sh /\ ShardOf[k] \notin call[Loader].failed
          BY <2>2, <3>3
        <4>2. Holds(k, IF Handled(Loader, ShardOf[k]) THEN Loaded(k) ELSE Cleared(k))
          BY <3>1, <4>1 DEF TableInv, LoadInv
        <4>3. Handled(Loader, ShardOf[k])' <=> Handled(Loader, ShardOf[k])
          BY <1>1, <1>11, <1>12, <2>2, <4>1
        <4>4. table'[k] = table[k]
          BY <1>4, <1>9, <4>1
        <4> QED
          BY <1>7, <4>2, <4>3, <4>4 DEF Holds, Loaded, Cleared
      <3> QED
        BY <1>1, <2>2, <3>1, <3>2, <3>3 DEF LoadInv, LoadApplied
    <2> QED
      BY <2>1, <2>2
  <1> QED
    BY <1>8, <1>10, <1>13 DEF TableInv

LEMMA InvHandleRequest ==
    ASSUME TableInv, NEW sh \in Shards, shard_handle_request(sh)
    PROVE  TableInv'
  <1>1. PICK t : t = Head(requests[sh]).from
    OBVIOUS
  <1>2. PICK type : type = Head(requests[sh]).type
    OBVIOUS
  <1>3. PICK B : B = {k \in DOMAIN call[t].batch : ShardOf[k] = sh}
    OBVIOUS
  <1>4. /\ requests[sh] # << >> /\ requests' = [requests EXCEPT ![sh] = Tail(@)]
        /\ UNCHANGED <<secret, load>>
    BY DEF shard_handle_request
  <1>5. \/ /\ type = "wait"
           /\ call' = [call EXCEPT ![t] = woken(call[t])]
           /\ UNCHANGED <<table, num_items, stats, failures, seen>>
        \/ /\ type = "query"
           /\ call' = [call EXCEPT ![t] = answered(call[t], B)]
           /\ UNCHANGED <<table, num_items, stats, failures, seen>>
        \/ /\ type \in {"insert", "clear"}
           /\ becomes(applied(sh, call[t], B, {}), counted(sh, call[t], B))
           /\ UNCHANGED <<call, failures>>
        \/ /\ type \in {"insert", "query"} /\ failures' = failures + 1
           /\ \E done \in IF type = "insert" THEN SUBSET B ELSE {{}},
                lost \in SUBSET KeysOf(sh), last \in {{}} \cup {{k} : k \in B} :
                 becomes(applied(sh, call[t], done, lost), counted(sh, call[t], done \ last))
           /\ call' = [call EXCEPT ![t] = [call[t] EXCEPT !.failed = call[t].failed \cup {sh}]]
    BY <1>1, <1>2, <1>3 DEF shard_handle_request
  <1>6. t \in Threads /\ call[t] # Idle /\ call[t] \in Calling
    <2>1. 1 \in DOMAIN requests[sh] /\ Head(requests[sh]) = requests[sh][1]
      BY <1>4, Dequeued DEF TableInv
    <2> QED
      BY <1>1, <2>1, RequestParts, CallParts DEF TableInv, QueueInv, Placed
  <1>7. CASE type = "wait" /\ call' = [call EXCEPT ![t] = woken(call[t])]
             /\ UNCHANGED <<table, num_items, stats, failures, seen>>
    BY <1>1, <1>2, <1>4, <1>7, InvHandleWait
  <1>8. CASE type = "query" /\ call' = [call EXCEPT ![t] = answered(call[t], B)]
             /\ UNCHANGED <<table, num_items, stats, failures, seen>>
    <2>1. PICK r : r = answered(call[t], B)
      OBVIOUS
    <2>2. Answers(t, B, r)
      BY <1>6, <2>1, AnsweredParts
    <2> USE DEF Answers
    <2>3. Serves(sh, t, r)
      BY <1>1, <1>2, <1>4, <1>8, <2>1, <2>2 DEF Serves
    <2>4. \A k \in DOMAIN call[t].batch :
             r.answer[k] = IF ShardOf[k] = sh THEN table[k] ELSE call[t].answer[k]
      BY <1>3, <2>2
    <2> QED
      BY <1>2, <1>4, <1>8, <2>2, <2>3, <2>4, InvHandleQuery
  <1>9. CASE type \in {"insert", "clear"} /\ UNCHANGED <<call, failures>>
             /\ becomes(applied(sh, call[t], B, {}), counted(sh, call[t], B))
    <2>1. PICK r : r = call[t]
      OBVIOUS
    <2>2. call' = [call EXCEPT ![t] = r]
      BY <1>6, <1>9, <2>1 DEF TableInv, Types
    <2>3. Serves(sh, t, r)
      BY <1>1, <1>2, <1>4, <1>6, <1>9, <2>1, <2>2 DEF Serves
    <2> QED
      BY <1>2, <1>3, <1>4, <1>9, <2>1, <2>3, InvHandleApply
  <1>10. CASE /\ type \in {"insert", "query"} /\ failures' = failures + 1
              /\ \E done \in IF type = "insert" THEN SUBSET B ELSE {{}},
                   lost \in SUBSET KeysOf(sh), last \in {{}} \cup {{k} : k \in B} :
                    becomes(applied(sh, call[t], done, lost), counted(sh, call[t], done \ last))
              /\ call' = [call EXCEPT ![t] = [call[t] EXCEPT !.failed = call[t].failed \cup {sh}]]
    <2>1. PICK r : r = [call[t] EXCEPT !.failed = call[t].failed \cup {sh}]
      OBVIOUS
    <2>2. /\ r \in Calling /\ r.pc = call[t].pc /\ r.sh = call[t].sh /\ r.type = call[t].type
          /\ r.batch = call[t].batch /\ r.answer = call[t].answer
          /\ r.failed = call[t].failed \cup {sh}
      BY <1>6, <2>1 DEF Calling
    <2>3. PICK done \in IF type = "insert" THEN SUBSET B ELSE {{}},
               lost \in SUBSET KeysOf(sh), last \in {{}} \cup {{k} : k \in B} :
             becomes(applied(sh, call[t], done, lost), counted(sh, call[t], done \ last))
      BY <1>10
    <2>4. Serves(sh, t, r)
      BY <1>1, <1>2, <1>4, <1>10, <2>1, <2>2 DEF Serves
    <2>5. done \subseteq DOMAIN call[t].batch /\ (type = "query" => done = {})
      BY <1>3, <2>3
    <2> QED
      BY <1>2, <1>4, <1>10, <2>2, <2>3, <2>4, <2>5, InvHandleFail
  <1> QED
    BY <1>5, <1>7, <1>8, <1>9, <1>10

(* A step that changes nothing. *)
LEMMA InvStutter ==
    ASSUME TableInv, UNCHANGED vars
    PROVE  TableInv'
  <1> USE DEF vars
  <1>1. Types' /\ RolesInv' /\ SecretKept'
    BY DEF TableInv, Types, RolesInv, SecretKept
  <1>2. \A t \in Threads, sh \in Shards : Handled(t, sh)' <=> Handled(t, sh)
    BY HandledSame
  <1>3. QueueInv'
    BY DEF TableInv, QueueInv, Placed, Ordered
  <1>4. AnswerInv'
    <2>1. \A c \in Clients : call[c] # Idle => call[c].batch \in Batches
      BY CallParts DEF TableInv, Threads
    <2> QED
      BY <1>2, <2>1, AnswerSame DEF TableInv, Threads
  <1>5. LoadInv'
    BY <1>2, LoadSame DEF TableInv, Threads
  <1>6. StatsInv'
    BY StatsSame DEF TableInv
  <1> QED
    BY <1>1, <1>3, <1>4, <1>5, <1>6 DEF TableInv

LEMMA StepTableInv ==
    ASSUME TableInv, [Next]_vars
    PROVE  TableInv'
  <1>1. ASSUME NEW c \in Clients, get_return(c) PROVE TableInv'
    BY <1>1, InvGetReturn
  <1>2. ASSUME NEW c \in Clients, NEW keys \in Queries, get_batch(c, keys) PROVE TableInv'
    BY <1>2, InvGetBatch
  <1>3. ASSUME NEW c \in Clients, table_statistics(c) PROVE TableInv'
    BY <1>3, InvTableStatistics
  <1>4. ASSUME NEW c \in Clients, report_statistics(c) PROVE TableInv'
    BY <1>4, InvReportStatistics
  <1>5. ASSUME NEW c \in Clients, statistics_return(c) PROVE TableInv'
    BY <1>5, InvStatisticsReturn
  <1>6. ASSUME NEW t \in Threads, submit(t) PROVE TableInv'
    BY <1>6, InvSubmit
  <1>7. ASSUME NEW t \in Threads, shard_wait(t) PROVE TableInv'
    BY <1>7, InvShardWait
  <1>8. ASSUME NEW sh \in Shards, shard_handle_request(sh) PROVE TableInv'
    BY <1>8, InvHandleRequest
  <1>9. ASSUME NEW msg \in Loads, NEW decoded \in BOOLEAN, enclave_load_pb(msg, decoded)
        PROVE  TableInv'
    BY <1>9, InvEnclaveLoadPb
  <1>10. CASE put_batch
    BY <1>10, InvPutBatch
  <1>11. CASE put_return
    BY <1>11, InvPutReturn
  <1>12. CASE load_done
    BY <1>12, InvLoadDone
  <1>13. CASE UNCHANGED vars
    BY <1>13, InvStutter
  <1> QED
    BY <1>1, <1>2, <1>3, <1>4, <1>5, <1>6, <1>7, <1>8, <1>9, <1>10, <1>11, <1>12, <1>13 DEF Next

(* TableInv holds in every state that the threads and the workers reach. *)
THEOREM TableInvariance == Spec => []TableInv
  <1>1. Init => TableInv
    BY InitTableInv
  <1>2. TableInv /\ [Next]_vars => TableInv'
    BY StepTableInv
  <1> QED
    BY <1>1, <1>2, PTL DEF Spec

-----------------------------------------------------------------------------
(* No thread has more than two requests in a queue: one and its wait. *)
LEMMA QueueBound ==
    ASSUME TableInv, NEW sh \in Shards
    PROVE  Len(requests[sh]) <= 2 * Cardinality(Threads)
  <1>1. IsFiniteSet(Threads) /\ Cardinality(Threads) \in Nat
    BY FS_AddElement, FS_CardinalityType, ShardedTableAssumption DEF Threads
  <1>2. IsFiniteSet(0 .. 1) /\ Cardinality(0 .. 1) = 2
    <2>1. PICK one \in Int : one = 1
      OBVIOUS
    <2>2. IsFiniteSet(0 .. one) /\ Cardinality(0 .. one) = IF 0 > one THEN 0 ELSE one - 0 + 1
      BY FS_Interval
    <2> QED
      BY <2>1, <2>2
  <1>3. IsFiniteSet(Threads \X (0 .. 1)) /\ Cardinality(Threads \X (0 .. 1)) = Cardinality(Threads) * 2
    BY <1>1, <1>2, FS_Product
  <1>4. PICK n \in Nat : n = Len(requests[sh]) /\ DOMAIN requests[sh] = 1 .. n
    BY DEF TableInv, Types
  <1>5. IsFiniteSet(1 .. n) /\ Cardinality(1 .. n) = n
    BY FS_Interval
  <1> DEFINE f == [i \in 1 .. n |-> <<requests[sh][i].from,
                                      IF requests[sh][i].type = "wait" THEN 1 ELSE 0>>]
  <1>6. f \in [1 .. n -> Threads \X (0 .. 1)]
    BY <1>4, RequestParts DEF TableInv
  <1>7. ASSUME NEW i \in 1 .. n, NEW j \in 1 .. n, i < j
        PROVE  f[i] # f[j]
    <2>1. Ordered(sh, i, j)
      BY <1>4 DEF TableInv, QueueInv
    <2> QED
      BY <1>7, <2>1 DEF Ordered
  <1> HIDE DEF f
  <1>8. ~(Cardinality(Threads \X (0 .. 1)) < Cardinality(1 .. n))
    <2> SUFFICES ASSUME Cardinality(Threads \X (0 .. 1)) < Cardinality(1 .. n) PROVE FALSE
      OBVIOUS
    <2>1. PICK i \in 1 .. n, j \in 1 .. n : i # j /\ f[i] = f[j]
      BY <1>3, <1>5, <1>6, FS_PigeonHole
    <2>2. i < j \/ j < i
      BY <2>1
    <2> QED
      BY <1>7, <2>1, <2>2
  <1> QED
    BY <1>1, <1>3, <1>4, <1>5, <1>8

(* The requests of a batch stay allocated while a shard has them, the       *)
(* queues of the shards are long enough, the secret stays set, and          *)
(* statistics that nobody disturbs are exact.                               *)
THEOREM CallsSound == Spec => []CallsInv
  <1>1. ASSUME TableInv PROVE CallsInv
    <2> USE <1>1
    <2>1. TypeOK
      <3>1. \A t \in Threads : call[t] = Idle \/ call[t].sh \in Shards
        BY CallParts DEF TableInv
      <3>2. \A c \in Clients : stats[c].sh \in 0 .. NUM_SHARDS
        BY DEF TableInv, Types
      <3> QED
        BY <3>1, <3>2, QueueBound DEF TypeOK, TableInv, Types, Contents
    <2>2. RequestsOwned
      BY DEF RequestsOwned, TableInv, QueueInv, Placed
    <2>3. StatisticsExact
      <3> SUFFICES ASSUME NEW c \in Clients, stats[c].sh = NUM_SHARDS, stats[c].quiet, failures = 0
                   PROVE  stats[c].sum = NUM_SHARDS + Cardinality({k \in Keys : table[k] # Absent})
        BY DEF StatisticsExact
      <3>1. PresentBelow(NUM_SHARDS) = {k \in Keys : table[k] # Absent}
        BY ShardedTableAssumption, ShardSetAssumption DEF PresentBelow, Shards
      <3>2. stats[c].sum = stats[c].sh + Cardinality(PresentBelow(stats[c].sh))
        BY DEF TableInv, StatsInv
      <3> QED
        BY <3>1, <3>2
    <2> QED
      BY <2>1, <2>2, <2>3 DEF CallsInv, TableInv
  <1> QED
    BY <1>1, TableInvariance, PTL

(* What a query finds for a key is what the key was during the call, unless *)
(* a shard has failed without the caller being told.                        *)
THEOREM QueriesLinearizable == Spec => []QueryLinearizable
  <1>1. ASSUME TableInv PROVE QueryLinearizable
    <2> USE <1>1
    <2> SUFFICES ASSUME NEW c \in Clients, call[c] # Idle, call[c].pc = "collect",
                        ~get_error(call[c]), NEW k \in DOMAIN call[c].batch
                 PROVE  \/ results(call[c])[k] \in seen[c][k]
                        \/ /\ results(call[c])[k] = Absent
                           /\ ShardOf[k] \in call[c].failed \ {NUM_SHARDS - 1}
      BY DEF QueryLinearizable
    <2>1. c \in Threads /\ call[c].type = "query" /\ call[c].batch \in Batches
      BY CallParts DEF Threads, TableInv, RolesInv
    <2>2. k \in Keys /\ ShardOf[k] \in Shards
      BY <2>1, BatchParts, ShardedTableAssumption
    <2>3. Handled(c, ShardOf[k])
      <3>1. \A i \in DOMAIN requests[ShardOf[k]] : requests[ShardOf[k]][i].from # c
        BY <2>2 DEF TableInv, QueueInv, Placed
      <3> QED
        BY <2>1, <3>1 DEF Handled, Submitted
    <2>4. results(call[c])[k] = IF ShardOf[k] \in call[c].failed THEN Absent ELSE call[c].answer[k]
      BY DEF results
    <2>5. CASE ShardOf[k] \in call[c].failed
      BY <2>4, <2>5 DEF get_error
    <2>6. CASE ShardOf[k] \notin call[c].failed
      BY <2>1, <2>3, <2>4, <2>6 DEF TableInv, AnswerInv
    <2> QED
      BY <2>5, <2>6
  <1> QED
    BY <1>1, TableInvariance, PTL

(* What the table holds when a load has returned. *)
THEOREM LoadsApplied == Spec => []LoadApplied
  <1>1. TableInv => LoadApplied
    BY DEF TableInv, LoadInv
  <1> QED
    BY <1>1, TableInvariance, PTL

(***************************************************************************)
(* The division by which a batch is cut into one range of hashes for each  *)
(* shard, for any width of a word.  A digit of a quotient is estimated     *)
(* from the high digit of a divisor whose top bit is set: the estimate is  *)
(* never too small and at most two too large (FirstEstimate), a correction *)
(* lowers it exactly when it is too large (Lowered, NotLowered), so two    *)
(* corrections suffice (DigitIs).  The multiplier of an invariant divisor  *)
(* d is such that its product with d is a power of two times a word, plus  *)
(* d at most (MultiplierIs): rounding down after it is exact (MultiplyIs). *)
(***************************************************************************)
(* Division with remainder. *)
LEMMA DivMod ==
    ASSUME NEW x \in Nat, NEW d \in Nat \ {0}
    PROVE  \E q, r \in Nat : q = x \div d /\ r = x % d /\ r < d /\ x = d * q + r
<1>1. PICK q \in Nat : q = x \div d
  OBVIOUS
<1>2. PICK r \in Nat : r = x % d /\ r < d
  OBVIOUS
<1>3. r = x - d * q
  <2>1. x % d = x - d * (x \div d)
    OBVIOUS
  <2> QED BY <1>1, <1>2, <2>1
<1>4. x = d * q + r
  BY <1>3
<1> QED BY <1>1, <1>2, <1>4

(* Quotient and remainder are determined. *)
LEMMA DivUnique ==
    ASSUME NEW d \in Nat \ {0}, NEW q \in Int, NEW p \in Int, NEW r \in Nat, NEW s \in Nat,
           r < d, s < d, d * q + r = d * p + s
    PROVE  q = p /\ r = s
<1>1. ASSUME NEW a \in Int, NEW b \in Int, NEW t \in Nat, NEW u \in Nat, t < d, u < d,
             d * a + t = d * b + u, a < b
      PROVE  FALSE
  <2>1. b >= a + 1
    BY <1>1
  <2>2. d * b >= d * (a + 1)
    BY <2>1
  <2>3. d * (a + 1) = d * a + d
    OBVIOUS
  <2> QED BY <1>1, <2>2, <2>3
<1>2. ~(q < p) /\ ~(p < q)
  BY <1>1
<1> QED BY <1>2

(* Quotient and remainder are determined by what they add up to. *)
LEMMA DivModIs ==
    ASSUME NEW d \in Nat \ {0}, NEW q \in Nat, NEW r \in Nat, r < d
    PROVE  /\ (d * q + r) \div d = q
           /\ (d * q + r) % d = r
<1> DEFINE x == d * q + r
<1>1. x \in Nat
  OBVIOUS
<1>2. x = d * q + r
  OBVIOUS
<1> HIDE DEF x
<1>3. PICK p, s \in Nat : p = x \div d /\ s = x % d /\ s < d /\ x = d * p + s
  BY <1>1, DivMod
<1>4. x \div d = q /\ x % d = r
  BY <1>2, <1>3, DivUnique
<1> QED BY <1>4 DEF x

(* The least element of a set of numbers. *)
LEMMA LeastNumber ==
    ASSUME NEW T \in SUBSET Nat, T # {}
    PROVE  \E x \in T : \A y \in T : x <= y
<1> DEFINE R == OpToRel(<, Nat)
<1>1. IsWellFoundedOn(R, Nat)
  BY NatLessThanWellFounded
<1>2. PICK x \in T : \A y \in T : ~(<<y, x>> \in R)
  <2> HIDE DEF R
  <2> QED BY <1>1, WFMin
<1>3. R = {ss \in Nat \X Nat : ss[1] < ss[2]}
  BY DEF OpToRel
<1>4. \A y \in T : x <= y
  <2> HIDE DEF R
  <2> SUFFICES ASSUME NEW y \in T, ~(x <= y) PROVE FALSE
    OBVIOUS
  <2>1. x \in Nat /\ y \in Nat /\ y < x
    OBVIOUS
  <2>2. <<y, x>> \in R
    BY <2>1, <1>3
  <2> QED BY <2>2, <1>2
<1> QED BY <1>4

(* Induction on the naturals, for the members of a set. *)
LEMMA SetInduction ==
    ASSUME NEW S, 0 \in S, \A n \in Nat : n \in S => n + 1 \in S
    PROVE  \A n \in Nat : n \in S
<1> DEFINE T == Nat \ S
<1>1. SUFFICES ASSUME T # {} PROVE FALSE
  OBVIOUS
<1>2. PICK x \in T : \A y \in T : x <= y
  BY <1>1, LeastNumber
<1>3. x \in Nat /\ x # 0 /\ x \notin S
  OBVIOUS
<1>4. x - 1 \in Nat /\ x - 1 \in S
  BY <1>2, <1>3
<1> QED BY <1>3, <1>4

-----------------------------------------------------------------------------
(* The function that pow2 defines is the one its definition describes. *)
LEMMA Pow2Def == pow2 = [n \in Nat |-> IF n = 0 THEN 1 ELSE 2 * pow2[n - 1]]
<1> DEFINE Def(v, n) == 2 * v
           f[n \in Nat] == IF n = 0 THEN 1 ELSE Def(f[n-1], n)
<1>1. NatInductiveDefConclusion(f, 1, Def)
  <2>1. NatInductiveDefHypothesis(f, 1, Def)
    BY DEF NatInductiveDefHypothesis
  <2> QED BY <2>1, NatInductiveDef
<1> QED BY <1>1 DEF NatInductiveDefConclusion, pow2

(* The recursion of pow2, which the provers do not unfold by themselves. *)
LEMMA Pow2Step ==
    /\ pow2[0] = 1
    /\ \A n \in Nat : pow2[n + 1] = 2 * pow2[n]
<1>1. pow2[0] = 1
  BY Pow2Def
<1>2. ASSUME NEW n \in Nat PROVE pow2[n + 1] = 2 * pow2[n]
  <2>1. n + 1 \in Nat /\ n + 1 # 0 /\ (n + 1) - 1 = n
    OBVIOUS
  <2>2. \A m \in Nat : m # 0 => pow2[m] = 2 * pow2[m - 1]
    BY Pow2Def, Zenon
  <2> QED BY <2>1, <2>2
<1> QED BY <1>1, <1>2

(* Powers of two are positive. *)
LEMMA Pow2Type == \A n \in Nat : pow2[n] \in Nat \ {0}
<1> DEFINE S == {n \in Nat : pow2[n] \in Nat \ {0}}
<1>1. 0 \in S /\ \A n \in Nat : n \in S => n + 1 \in S
  BY Pow2Step
<1> HIDE DEF S
<1>2. \A n \in Nat : n \in S
  BY <1>1, SetInduction
<1> QED BY <1>2 DEF S

(* Powers of two multiply by adding up their exponents. *)
LEMMA Pow2Sum == \A a, d \in Nat : pow2[a + d] = pow2[a] * pow2[d]
<1> SUFFICES ASSUME NEW a \in Nat PROVE \A d \in Nat : pow2[a + d] = pow2[a] * pow2[d]
  OBVIOUS
<1> DEFINE S == {d \in Nat : pow2[a + d] = pow2[a] * pow2[d]}
<1>1. 0 \in S
  <2>1. a + 0 = a /\ pow2[a] * 1 = pow2[a]
    BY Pow2Type
  <2> QED BY <2>1, Pow2Step
<1>2. ASSUME NEW d \in Nat, d \in S PROVE d + 1 \in S
  <2>1. a + d \in Nat /\ a + (d + 1) = (a + d) + 1
    OBVIOUS
  <2>2. pow2[a + (d + 1)] = 2 * (pow2[a] * pow2[d])
    BY <1>2, <2>1, Pow2Step
  <2>3. pow2[d + 1] = 2 * pow2[d]
    BY Pow2Step
  <2>4. \A x, y \in Nat : 2 * (x * y) = x * (2 * y)
    OBVIOUS
  <2> QED BY <2>2, <2>3, <2>4, Pow2Type
<1> HIDE DEF S
<1>3. \A d \in Nat : d \in S
  BY <1>1, <1>2, SetInduction
<1> QED BY <1>3 DEF S

(* Powers of two grow with their exponent. *)
LEMMA Pow2Grows ==
    ASSUME NEW a \in Nat, NEW b \in Nat, a <= b
    PROVE  pow2[a] <= pow2[b]
<1>1. b - a \in Nat /\ b = a + (b - a)
  OBVIOUS
<1>2. pow2[b] = pow2[a] * pow2[b - a]
  BY <1>1, Pow2Sum
<1>3. \A x, y \in Nat \ {0} : x <= x * y
  OBVIOUS
<1> QED BY <1>1, <1>2, <1>3, Pow2Type

(* A smaller power of two has a smaller exponent. *)
LEMMA Pow2Less ==
    ASSUME NEW a \in Nat, NEW b \in Nat, pow2[a] < pow2[b]
    PROVE  a < b
  BY Pow2Grows, Pow2Type

(* The number of bits of a word, and the sizes that it gives. *)
LEMMA WordIs ==
    /\ 2 * DIGIT_BITS \in Nat /\ 2 * DIGIT_BITS - 1 \in Nat
    /\ \E H \in Nat \ {0} : Base = 2 * H /\ pow2[2 * DIGIT_BITS - 1] = Base * H
    /\ Base \in Nat \ {0} /\ U64 \in Nat \ {0} /\ U64 = pow2[2 * DIGIT_BITS] /\ U64 = Base * Base
<1>1. PICK D \in Nat \ {0} : D = DIGIT_BITS
  BY DivisionAssumption
<1>2. PICK c \in Nat : D = c + 1
  <2>1. D - 1 \in Nat /\ D = (D - 1) + 1
    OBVIOUS
  <2> QED BY <2>1
<1>3. PICK H \in Nat \ {0} : H = pow2[c]
  BY Pow2Type
<1>4. pow2[D] = 2 * H
  BY <1>2, <1>3, Pow2Step
<1>5. Base = 2 * H /\ Base \in Nat \ {0}
  BY <1>1, <1>4 DEF Base
<1>6. 2 * D - 1 = D + c /\ 2 * D = D + D /\ 2 * D \in Nat /\ 2 * D - 1 \in Nat
  BY <1>2
<1>7. pow2[D + c] = pow2[D] * pow2[c] /\ pow2[D + D] = pow2[D] * pow2[D]
  BY Pow2Sum
<1>8. pow2[2 * DIGIT_BITS - 1] = Base * H /\ pow2[2 * DIGIT_BITS] = Base * Base
  BY <1>1, <1>3, <1>6, <1>7 DEF Base
<1>9. Base * Base \in Nat \ {0}
  BY <1>5
<1> QED BY <1>1, <1>5, <1>6, <1>8, <1>9 DEF U64

(* floor_log2 of a word. *)
LEMMA FloorLog ==
    ASSUME NEW n \in Nat \ {0}, n < U64
    PROVE  /\ floor_log2(n) \in 0 .. 2 * DIGIT_BITS - 1
           /\ pow2[floor_log2(n)] <= n /\ n < pow2[floor_log2(n) + 1]
<1>1. PICK W \in Nat : W = 2 * DIGIT_BITS /\ W - 1 \in Nat /\ U64 = pow2[W]
  BY WordIs
<1> DEFINE T == {l \in Nat : n < pow2[l + 1]}
           Log(l) == pow2[l] <= n /\ n < pow2[l + 1]
<1>2. W - 1 \in T
  <2>1. (W - 1) + 1 = W
    BY <1>1
  <2> QED BY <2>1, <1>1
<1>3. PICK x \in T : \A y \in T : x <= y
  <2>1. T \in SUBSET Nat /\ T # {}
    BY <1>2
  <2> HIDE DEF T
  <2> QED BY <2>1, LeastNumber
<1>4. x \in 0 .. W
  BY <1>1, <1>2, <1>3
<1>5. Log(x)
  <2>1. CASE x = 0
    BY <2>1, <1>3, Pow2Step
  <2>2. CASE x # 0
    <3>1. x - 1 \in Nat /\ (x - 1) + 1 = x
      BY <2>2
    <3>2. x - 1 \notin T
      <4>1. ~(x <= x - 1)
        OBVIOUS
      <4> QED BY <4>1, <1>3
    <3>3. ~(n < pow2[x])
      BY <3>1, <3>2
    <3>4. pow2[x] \in Nat
      BY Pow2Type
    <3> QED BY <3>3, <3>4, <1>3
  <2> QED BY <2>1, <2>2
<1> HIDE DEF Log
<1>6. floor_log2(n) = CHOOSE l \in 0 .. W : Log(l)
  BY <1>1 DEF floor_log2, Log
<1>7. PICK l \in 0 .. W : l = floor_log2(n) /\ Log(l)
  BY <1>4, <1>5, <1>6
<1>8. pow2[l] < pow2[W]
  <2>1. pow2[l] \in Nat /\ pow2[W] \in Nat
    BY Pow2Type
  <2> QED BY <2>1, <1>1, <1>7 DEF Log
<1>9. l < W
  BY <1>8, Pow2Less
<1>10. l \in 0 .. W - 1
  BY <1>1, <1>9
<1> QED BY <1>1, <1>7, <1>10 DEF Log

(* ceil_log2 of a word that is at least two. *)
LEMMA CeilLog ==
    ASSUME NEW d \in Nat, d >= 2, NEW h \in Nat, U64 = 2 * h, d <= h
    PROVE  \E k \in Nat : /\ ceil_log2(d) = k + 1 /\ pow2[k] < d /\ d <= 2 * pow2[k]
                          /\ pow2[k + 1] = 2 * pow2[k]
<1>1. d \in Nat \ {0} /\ d < U64
  OBVIOUS
<1>2. PICK l \in Nat : l = floor_log2(d) /\ pow2[l] <= d /\ d < pow2[l + 1]
  <2>1. 2 * DIGIT_BITS - 1 \in Nat
    BY WordIs
  <2> QED BY <2>1, <1>1, FloorLog
<1>3. pow2[l] \in Nat /\ pow2[l + 1] = 2 * pow2[l]
  BY Pow2Type, Pow2Step
<1>4. CASE d > pow2[l]
  <2>1. ceil_log2(d) = l + 1
    BY <1>2, <1>4 DEF ceil_log2
  <2> QED BY <2>1, <1>2, <1>3, <1>4
<1>5. CASE ~(d > pow2[l])
  <2>1. ceil_log2(d) = l
    BY <1>2, <1>5 DEF ceil_log2
  <2>2. d = pow2[l]
    BY <1>2, <1>3, <1>5
  <2>3. l # 0
    BY <2>2, Pow2Step
  <2>4. PICK k \in Nat : l = k + 1
    <3>1. l - 1 \in Nat /\ l = (l - 1) + 1
      BY <2>3
    <3> QED BY <3>1
  <2>5. pow2[l] = 2 * pow2[k] /\ pow2[k] \in Nat \ {0}
    BY <2>4, Pow2Step, Pow2Type
  <2> QED BY <2>1, <2>2, <2>4, <2>5
<1> QED BY <1>4, <1>5

-----------------------------------------------------------------------------
(* Products grow with their factors. *)
LEMMA TimesGrows ==
    ASSUME NEW a \in Nat, NEW b \in Nat, NEW c \in Nat, a <= b
    PROVE  a * c \in Nat /\ b * c \in Nat /\ a * c <= b * c /\ c * a <= c * b
<1>1. PICK e \in Nat : b = a + e
  <2>1. b - a \in Nat /\ b = a + (b - a)
    OBVIOUS
  <2> QED BY <2>1
<1>2. (a + e) * c = a * c + e * c /\ e * c \in Nat /\ a * c \in Nat
  OBVIOUS
<1>3. c * (a + e) = c * a + c * e /\ c * e \in Nat /\ c * a \in Nat
  OBVIOUS
<1> QED BY <1>1, <1>2, <1>3

(* A digit of a quotient by schoolbook division: u and low are divided by   *)
(* vn, whose digits are v1 and v0, and Q and R are quotient and remainder.  *)
Digits(B, v1, v0, vn, u, low, Q, R) ==
    /\ B \in Nat \ {0} /\ v1 \in Nat /\ v0 \in Nat /\ vn \in Nat /\ u \in Nat /\ low \in Nat
    /\ Q \in Nat /\ R \in Nat
    /\ v1 < B /\ B <= 2 * v1 /\ v0 < B /\ low < B /\ vn = v1 * B + v0 /\ u < vn
    /\ R < vn /\ u * B + low = Q * vn + R

(* A digit is less than the base. *)
LEMMA DigitSmall ==
    ASSUME NEW B, NEW v1, NEW v0, NEW vn, NEW u, NEW low, NEW Q, NEW R,
           Digits(B, v1, v0, vn, u, low, Q, R)
    PROVE  Q < B
<1>1. /\ B \in Nat \ {0} /\ vn \in Nat /\ u \in Nat /\ low \in Nat /\ Q \in Nat /\ R \in Nat
      /\ low < B /\ u < vn /\ u * B + low = Q * vn + R
  BY DEF Digits
<1>2. SUFFICES ASSUME B <= Q PROVE FALSE
  BY <1>1
<1>3. B * vn \in Nat /\ Q * vn \in Nat /\ B * vn <= Q * vn
  BY <1>1, <1>2, TimesGrows
<1>4. u + 1 \in Nat /\ u + 1 <= vn
  BY <1>1
<1>5. (u + 1) * B <= vn * B
  BY <1>1, <1>4, TimesGrows
<1>6. (u + 1) * B = u * B + B /\ vn * B = B * vn /\ u * B \in Nat
  BY <1>1
<1> QED BY <1>1, <1>3, <1>5, <1>6

(* Multiples of the divisor on either side of the dividend. *)
LEMMA DigitMultiple ==
    ASSUME NEW B, NEW v1, NEW v0, NEW vn, NEW u, NEW low, NEW Q, NEW R,
           Digits(B, v1, v0, vn, u, low, Q, R), NEW q \in Nat
    PROVE  /\ q * vn > u * B + low => q > Q
           /\ q * vn <= u * B + low => q <= Q
<1>1. /\ B \in Nat \ {0} /\ vn \in Nat /\ u \in Nat /\ low \in Nat /\ Q \in Nat /\ R \in Nat
      /\ R < vn /\ u * B + low = Q * vn + R
  BY DEF Digits
<1>2. PICK N \in Nat : N = u * B + low
  <2>1. u * B \in Nat
    BY <1>1
  <2> QED BY <2>1, <1>1
<1>3. ASSUME q * vn > N PROVE q > Q
  <2>1. SUFFICES ASSUME q <= Q PROVE FALSE
    BY <1>1
  <2>2. q * vn \in Nat /\ Q * vn \in Nat /\ q * vn <= Q * vn
    BY <2>1, <1>1, TimesGrows
  <2> QED BY <2>2, <1>1, <1>2, <1>3
<1>4. ASSUME q * vn <= N PROVE q <= Q
  <2>1. SUFFICES ASSUME Q + 1 <= q PROVE FALSE
    BY <1>1
  <2>2. Q + 1 \in Nat
    BY <1>1
  <2>3. (Q + 1) * vn \in Nat /\ q * vn \in Nat /\ (Q + 1) * vn <= q * vn
    BY <2>1, <2>2, <1>1, TimesGrows
  <2>4. (Q + 1) * vn = Q * vn + vn /\ Q * vn \in Nat
    BY <1>1
  <2> QED BY <2>3, <2>4, <1>1, <1>2, <1>4
<1> QED BY <1>2, <1>3, <1>4

(* An estimate q of a digit with the remainder r of the high digits. *)
Estimate(B, v1, u, Q, q, r) ==
    /\ q \in Nat /\ r \in Nat /\ q * v1 + r = u /\ Q <= q
    /\ q <= B \/ r < v1

(* What is looked at to lower the estimate. *)
TooLarge(B, v0, low, q, r) == r < B /\ (q >= B \/ q * v0 > r * B + low)

(* The products that a correction compares. *)
LEMMA EstimateIs ==
    ASSUME NEW B, NEW v1, NEW v0, NEW vn, NEW u, NEW low, NEW Q, NEW R,
           Digits(B, v1, v0, vn, u, low, Q, R), NEW q, NEW r, Estimate(B, v1, u, Q, q, r)
    PROVE  /\ q * v0 \in Nat /\ r * B \in Nat /\ u * B \in Nat
           /\ q * vn + r * B = u * B + q * v0
<1>1. /\ B \in Nat \ {0} /\ v1 \in Nat /\ v0 \in Nat /\ u \in Nat /\ q \in Nat /\ r \in Nat
      /\ vn = v1 * B + v0 /\ q * v1 + r = u
  BY DEF Digits, Estimate
<1>2. PICK a \in Nat : a = q * v1
  BY <1>1
<1>3. q * (v1 * B + v0) = a * B + q * v0
  BY <1>1, <1>2
<1>4. (a + r) * B = a * B + r * B /\ a * B \in Nat /\ r * B \in Nat /\ q * v0 \in Nat
  BY <1>1, <1>2
<1> QED BY <1>1, <1>2, <1>3, <1>4

(* An estimate that is too large is lowered, and then still not too small. *)
LEMMA Lowered ==
    ASSUME NEW B, NEW v1, NEW v0, NEW vn, NEW u, NEW low, NEW Q, NEW R,
           Digits(B, v1, v0, vn, u, low, Q, R), NEW q, NEW r, Estimate(B, v1, u, Q, q, r),
           q <= B + 1, TooLarge(B, v0, low, q, r)
    PROVE  q > Q /\ Estimate(B, v1, u, Q, q - 1, r + v1) /\ q - 1 <= B
<1>1. /\ B \in Nat \ {0} /\ v1 \in Nat /\ v0 \in Nat /\ u \in Nat /\ q \in Nat /\ r \in Nat
      /\ q * v1 + r = u /\ Q \in Nat /\ low \in Nat
  BY DEF Digits, Estimate
<1>2. q * v0 \in Nat /\ r * B \in Nat /\ u * B \in Nat /\ q * vn + r * B = u * B + q * v0 /\ q * vn \in Nat
  <2>1. vn \in Nat
    BY DEF Digits
  <2>2. q * vn \in Nat
    BY <1>1, <2>1
  <2> QED BY <2>2, EstimateIs
<1>3. q > Q
  <2>1. CASE q >= B
    BY <2>1, <1>1, DigitSmall
  <2>2. CASE q * v0 > r * B + low
    <3>1. q * vn > u * B + low
      BY <2>2, <1>1, <1>2
    <3> QED BY <3>1, <1>1, DigitMultiple
  <2> QED BY <2>1, <2>2 DEF TooLarge
<1>4. PICK p \in Nat : q = p + 1
  <2>1. q - 1 \in Nat /\ q = (q - 1) + 1
    BY <1>1, <1>3
  <2> QED BY <2>1
<1>5. (p + 1) * v1 = p * v1 + v1 /\ p * v1 \in Nat
  BY <1>1
<1>6. q - 1 = p /\ p * v1 + (r + v1) = u /\ Q <= p /\ p <= B /\ r + v1 \in Nat
  BY <1>1, <1>3, <1>4, <1>5
<1> QED BY <1>3, <1>6 DEF Estimate

(* An estimate that is not lowered is the digit. *)
LEMMA NotLowered ==
    ASSUME NEW B, NEW v1, NEW v0, NEW vn, NEW u, NEW low, NEW Q, NEW R,
           Digits(B, v1, v0, vn, u, low, Q, R), NEW q, NEW r, Estimate(B, v1, u, Q, q, r),
           ~TooLarge(B, v0, low, q, r)
    PROVE  q = Q
<1>1. /\ B \in Nat \ {0} /\ v1 \in Nat /\ v0 \in Nat /\ u \in Nat /\ q \in Nat /\ r \in Nat
      /\ Q \in Nat /\ low \in Nat /\ Q <= q /\ v0 < B /\ v1 < B /\ (q <= B \/ r < v1)
  BY DEF Digits, Estimate
<1>2. q * v0 \in Nat /\ r * B \in Nat /\ u * B \in Nat /\ q * vn + r * B = u * B + q * v0 /\ q * vn \in Nat
  <2>1. vn \in Nat
    BY DEF Digits
  <2>2. q * vn \in Nat
    BY <1>1, <2>1
  <2> QED BY <2>2, EstimateIs
<1>3. q * v0 <= r * B + low
  <2>1. CASE r < B
    BY <2>1, <1>1, <1>2 DEF TooLarge
  <2>2. CASE r >= B
    <3>1. q <= B
      BY <2>2, <1>1
    <3>2. q * v0 <= B * v0
      BY <3>1, <1>1, TimesGrows
    <3>3. v0 <= B
      BY <1>1
    <3>4. v0 * B <= B * B
      BY <3>3, <1>1, TimesGrows
    <3>5. B <= r
      BY <2>2, <1>1
    <3>6. B * B <= r * B /\ B * B \in Nat
      BY <3>5, <1>1, TimesGrows
    <3>7. B * v0 = v0 * B /\ B * v0 \in Nat
      BY <1>1
    <3> QED BY <3>2, <3>4, <3>6, <3>7, <1>1, <1>2
  <2> QED BY <2>1, <2>2, <1>1
<1>4. q * vn <= u * B + low
  BY <1>1, <1>2, <1>3
<1>5. q <= Q
  BY <1>1, <1>4, DigitMultiple
<1> QED BY <1>1, <1>5

(* Knuth: the first estimate is at most two too large. *)
LEMMA FirstEstimate ==
    ASSUME NEW B, NEW v1, NEW v0, NEW vn, NEW u, NEW low, NEW Q, NEW R,
           Digits(B, v1, v0, vn, u, low, Q, R), NEW q \in Nat, NEW r \in Nat,
           q * v1 + r = u, r < v1
    PROVE  Estimate(B, v1, u, Q, q, r) /\ q <= Q + 2 /\ q <= B + 1
<1>1. /\ B \in Nat \ {0} /\ v1 \in Nat /\ v0 \in Nat /\ vn \in Nat /\ u \in Nat /\ low \in Nat
      /\ Q \in Nat /\ R \in Nat
      /\ v1 < B /\ B <= 2 * v1 /\ v0 < B /\ low < B /\ vn = v1 * B + v0
      /\ R < vn /\ u * B + low = Q * vn + R
  BY DEF Digits
<1>2. Q < B
  BY DigitSmall
<1>3. /\ u * B \in Nat /\ Q * vn \in Nat /\ Q * v1 \in Nat /\ q * v1 \in Nat
      /\ (Q * v1) * B \in Nat /\ Q * v0 \in Nat
      /\ Q * vn = (Q * v1) * B + Q * v0
  BY <1>1
<1>4. Q * v1 <= u
  <2>1. SUFFICES ASSUME u + 1 <= Q * v1 PROVE FALSE
    BY <1>1, <1>3
  <2>2. PICK a \in Nat : a = Q * v1
    BY <1>3
  <2>3. u + 1 \in Nat /\ u + 1 <= a
    BY <2>1, <2>2, <1>1
  <2>4. (u + 1) * B <= a * B
    BY <2>3, <1>1, TimesGrows
  <2>5. (u + 1) * B = u * B + B
    BY <1>1
  <2>6. u * B + B <= (Q * v1) * B
    BY <2>2, <2>4, <2>5
  <2>7. u * B + low < u * B + B
    BY <1>1, <1>3
  <2>8. Q * vn + R >= (Q * v1) * B
    BY <1>1, <1>3
  <2> QED BY <2>6, <2>7, <2>8, <1>1, <1>3
<1>5. Q <= q
  <2>1. SUFFICES ASSUME q + 1 <= Q PROVE FALSE
    BY <1>1
  <2>2. q + 1 \in Nat
    OBVIOUS
  <2>3. (q + 1) * v1 <= Q * v1
    BY <2>1, <2>2, <1>1, TimesGrows
  <2>4. (q + 1) * v1 = q * v1 + v1
    BY <1>1
  <2> QED BY <2>3, <2>4, <1>1, <1>3, <1>4
<1>6. q <= Q + 2
  <2>1. SUFFICES ASSUME Q + 3 <= q PROVE FALSE
    BY <1>1
  <2>2. Q + 3 \in Nat /\ Q + 1 \in Nat
    BY <1>1
  <2>3. (Q + 3) * v1 <= q * v1
    BY <2>1, <2>2, <1>1, TimesGrows
  <2>4. PICK a \in Nat : a = (Q + 3) * v1
    BY <1>1
  <2>5. a <= u
    BY <2>3, <2>4, <1>1, <1>3
  <2>6. a * B <= u * B
    BY <2>5, <1>1, TimesGrows
  <2>7. a = Q * v1 + 3 * v1
    BY <2>4, <1>1
  <2>8. a * B = (Q * v1) * B + (3 * v1) * B /\ (3 * v1) * B \in Nat
    BY <2>7, <1>1, <1>3
  <2>9. (3 * v1) * B = (2 * v1) * B + v1 * B /\ (2 * v1) * B \in Nat /\ v1 * B \in Nat
    BY <1>1
  <2>10. (2 * v1) * B >= B * B /\ B * B \in Nat
    BY <1>1, TimesGrows
  <2>11. Q * v0 + v0 <= B * B
    <3>1. (Q + 1) * v0 = Q * v0 + v0
      BY <1>1
    <3>2. Q + 1 <= B
      BY <1>1, <1>2
    <3>3. (Q + 1) * v0 <= B * v0
      BY <3>2, <2>2, <1>1, TimesGrows
    <3>4. v0 <= B
      BY <1>1
    <3>5. B * v0 <= B * B
      BY <3>4, <1>1, TimesGrows
    <3>6. B * v0 \in Nat
      BY <1>1
    <3> QED BY <3>1, <3>3, <3>5, <3>6, <2>10, <1>1, <1>3
  <2>12. u * B < Q * vn + vn
    BY <1>1, <1>3
  <2> QED BY <2>6, <2>8, <2>9, <2>10, <2>11, <2>12, <1>1, <1>3
<1> QED BY <1>1, <1>2, <1>5, <1>6 DEF Estimate

(* A correction. *)
Corrected(d, v1, v0, low) ==
    IF TooLarge(Base, v0, low, d.q, d.rhat) THEN [q |-> d.q - 1, rhat |-> d.rhat + v1] ELSE d

(* The corrections of an estimate as a sequence. *)
LEMMA Adjusted ==
    ASSUME NEW u, NEW v1, NEW v0, NEW low
    PROVE  \E f : /\ quotient_digit(u, v1, v0, low) = f[2].q
                  /\ f[0] = [q |-> u \div v1, rhat |-> u % v1]
                  /\ f[1] = Corrected(f[0], v1, v0, low) /\ f[2] = Corrected(f[1], v1, v0, low)
<1> DEFINE N == corrections
           c == [q |-> u \div v1, rhat |-> u % v1]
           Def(d, n) == IF d.rhat < Base /\ (d.q >= Base \/ d.q * v0 > d.rhat * Base + low)
                        THEN [q |-> d.q - 1, rhat |-> d.rhat + v1] ELSE d
           adjusted[n \in 0 .. corrections] ==
            IF n = 0 THEN [q |-> u \div v1, rhat |-> u % v1]
            ELSE LET d == adjusted[n - 1]
                 IN  IF d.rhat < Base /\ (d.q >= Base \/ d.q * v0 > d.rhat * Base + low)
                     THEN [q |-> d.q - 1, rhat |-> d.rhat + v1] ELSE d
<1>1. FiniteNatInductiveDefConclusion(adjusted, c, Def, 0, N)
  <2>1. FiniteNatInductiveDefHypothesis(adjusted, c, Def, 0, N)
    BY DEF FiniteNatInductiveDefHypothesis
  <2>2. N \in Nat /\ 0 \in Nat
    BY DEF corrections
  <2> HIDE DEF adjusted, c, Def, N
  <2> QED BY <2>1, <2>2, FiniteNatInductiveDef
<1>2. adjusted = [n \in 0 .. N |-> IF n = 0 THEN c ELSE Def(adjusted[n - 1], n)]
  BY <1>1 DEF FiniteNatInductiveDefConclusion
<1>3. quotient_digit(u, v1, v0, low) = adjusted[N].q
  BY DEF quotient_digit
<1>4. N = 2
  BY DEF corrections
<1> HIDE DEF adjusted, N
<1>5. ASSUME NEW n \in {1, 2} PROVE adjusted[n] = Def(adjusted[n - 1], n)
  <2>1. n \in 0 .. N /\ n # 0
    BY <1>4
  <2> HIDE DEF c, Def
  <2> QED BY <1>2, <2>1, Zenon
<1>6. adjusted[0] = c
  <2>1. 0 \in 0 .. N
    BY <1>4
  <2> HIDE DEF c, Def
  <2> QED BY <1>2, <2>1, Zenon
<1>7. quotient_digit(u, v1, v0, low) = adjusted[2].q
  BY <1>3, <1>4
<1>8. \A n : Def(adjusted[n - 1], n) = Corrected(adjusted[n - 1], v1, v0, low)
  BY DEF Corrected, TooLarge
<1> HIDE DEF Def
<1>9. 1 - 1 = 0 /\ 2 - 1 = 1
  OBVIOUS
<1>10. adjusted[1] = Corrected(adjusted[0], v1, v0, low) /\ adjusted[2] = Corrected(adjusted[1], v1, v0, low)
  BY <1>5, <1>8, <1>9
<1> QED BY <1>6, <1>7, <1>10

(* quotient_digit is a digit of the quotient. *)
LEMMA DigitIs ==
    ASSUME NEW v1, NEW v0, NEW vn, NEW u, NEW low, NEW Q, NEW R,
           Digits(Base, v1, v0, vn, u, low, Q, R)
    PROVE  quotient_digit(u, v1, v0, low) = Q
<1>1. PICK B \in Nat \ {0} : B = Base
  BY DEF Digits
<1>2. Digits(B, v1, v0, vn, u, low, Q, R)
  BY <1>1
<1>3. u \in Nat /\ v1 \in Nat \ {0} /\ Q \in Nat /\ v0 \in Nat /\ low \in Nat
  BY <1>1 DEF Digits
<1>4. PICK q0, r0 \in Nat : q0 = u \div v1 /\ r0 = u % v1 /\ r0 < v1 /\ u = v1 * q0 + r0
  BY <1>3, DivMod
<1>5. q0 * v1 + r0 = u
  <2>1. v1 * q0 = q0 * v1
    BY <1>3
  <2> QED BY <2>1, <1>4
<1>6. Estimate(B, v1, u, Q, q0, r0) /\ q0 <= Q + 2 /\ q0 <= B + 1
  BY <1>2, <1>4, <1>5, FirstEstimate
<1>7. PICK f : /\ quotient_digit(u, v1, v0, low) = f[2].q
               /\ f[0] = [q |-> u \div v1, rhat |-> u % v1]
               /\ f[1] = Corrected(f[0], v1, v0, low) /\ f[2] = Corrected(f[1], v1, v0, low)
  BY Adjusted
<1>8. f[0].q = q0 /\ f[0].rhat = r0
  BY <1>4, <1>7
<1>9. /\ f[1] = IF TooLarge(B, v0, low, f[0].q, f[0].rhat)
                THEN [q |-> f[0].q - 1, rhat |-> f[0].rhat + v1] ELSE f[0]
      /\ f[2] = IF TooLarge(B, v0, low, f[1].q, f[1].rhat)
                THEN [q |-> f[1].q - 1, rhat |-> f[1].rhat + v1] ELSE f[1]
  BY <1>1, <1>7 DEF Corrected
<1>10. CASE ~TooLarge(B, v0, low, q0, r0)
  <2>1. f[1] = f[0]
    BY <1>8, <1>9, <1>10
  <2>2. f[2] = f[0]
    BY <2>1, <1>8, <1>9, <1>10
  <2>3. q0 = Q
    BY <1>2, <1>6, <1>10, NotLowered
  <2> QED BY <2>2, <2>3, <1>7, <1>8
<1>11. CASE TooLarge(B, v0, low, q0, r0)
  <2>1. f[1] = [q |-> q0 - 1, rhat |-> r0 + v1]
    BY <1>8, <1>9, <1>11
  <2>2. PICK q1, r1 : q1 = q0 - 1 /\ r1 = r0 + v1
    OBVIOUS
  <2>3. f[1].q = q1 /\ f[1].rhat = r1
    BY <2>1, <2>2
  <2>4. Estimate(B, v1, u, Q, q0 - 1, r0 + v1) /\ q0 - 1 <= B
    BY <1>2, <1>6, <1>11, Lowered
  <2>5. Estimate(B, v1, u, Q, q1, r1) /\ q1 \in Nat /\ q1 <= B + 1
    <3>1. Estimate(B, v1, u, Q, q1, r1) /\ q1 <= B
      BY <2>2, <2>4
    <3>2. q1 \in Nat
      BY <3>1 DEF Estimate
    <3> QED BY <3>1, <3>2
  <2>6. CASE ~TooLarge(B, v0, low, q1, r1)
    <3>1. f[2] = f[1]
      BY <2>3, <2>6, <1>9
    <3>2. q1 = Q
      BY <1>2, <2>5, <2>6, NotLowered
    <3> QED BY <3>1, <3>2, <2>3, <1>7
  <2>7. CASE TooLarge(B, v0, low, q1, r1)
    <3>1. f[2] = [q |-> q1 - 1, rhat |-> r1 + v1]
      BY <2>3, <2>7, <1>9
    <3>2. f[2].q = q1 - 1
      BY <3>1
    <3>3. q1 > Q
      BY <1>2, <2>5, <2>7, Lowered
    <3>4. q1 - 1 = Q
      BY <3>3, <2>2, <2>5, <1>3, <1>6
    <3> QED BY <3>2, <3>4, <1>7
  <2> QED BY <2>6, <2>7
<1> QED BY <1>10, <1>11

(* divmod128by64 from its two digits. *)
LEMMA DivisionIs ==
    ASSUME NEW v \in Nat \ {0}, v < U64, NEW u1 \in Nat, u1 < v, NEW u0 \in Nat, u0 < U64
    PROVE  divmod128by64(u1, u0, v) = (u1 * U64 + u0) \div v
<1>1. PICK B, U, H \in Nat \ {0} : /\ B = Base /\ U = U64 /\ U = B * B /\ B = 2 * H
                                   /\ pow2[2 * DIGIT_BITS - 1] = B * H
                                   /\ pow2[2 * DIGIT_BITS] = U
  BY WordIs
<1>2. PICK l \in Nat : l = floor_log2(v) /\ pow2[l] <= v /\ v < pow2[l + 1] /\ l <= 2 * DIGIT_BITS - 1
  <2>1. 2 * DIGIT_BITS - 1 \in Nat
    BY WordIs
  <2> QED BY <2>1, FloorLog
<1>3. PICK s \in Nat : s = 2 * DIGIT_BITS - 1 - l
  <2>1. 2 * DIGIT_BITS - 1 \in Nat
    BY WordIs
  <2> QED BY <2>1, <1>2
<1>4. PICK P \in Nat \ {0} : P = pow2[s]
  BY Pow2Type
<1>5. PICK vn \in Nat : vn = v * P
  OBVIOUS
<1>6. vn < U /\ B * H <= vn
  <2>1. l + s = 2 * DIGIT_BITS - 1 /\ (l + 1) + s = 2 * DIGIT_BITS /\ l + 1 \in Nat
    <3>1. PICK w \in Nat : w = 2 * DIGIT_BITS
      BY WordIs
    <3> QED BY <3>1, <1>3
  <2>2. pow2[l + s] = pow2[l] * pow2[s] /\ pow2[(l + 1) + s] = pow2[l + 1] * pow2[s]
    BY <2>1, Pow2Sum
  <2>3. PICK a, z \in Nat : a = pow2[l] /\ z = pow2[l + 1]
    BY <2>1, Pow2Type
  <2>4. a * P = B * H /\ z * P = U
    BY <2>1, <2>2, <2>3, <1>1, <1>4
  <2>5. a * P <= v * P
    BY <2>3, <1>2, TimesGrows
  <2>6. v + 1 \in Nat /\ v + 1 <= z
    BY <2>3, <1>2
  <2>7. (v + 1) * P <= z * P
    BY <2>6, <2>3, TimesGrows
  <2>8. (v + 1) * P = v * P + P
    OBVIOUS
  <2> QED BY <2>4, <2>5, <2>7, <2>8, <1>1, <1>5
<1>7. PICK v1, v0 \in Nat : v1 = vn \div B /\ v0 = vn % B /\ v0 < B /\ vn = B * v1 + v0
  BY DivMod
<1>8. v1 < B /\ B <= 2 * v1 /\ vn = v1 * B + v0
  <2>1. B * v1 = v1 * B /\ B * H = H * B /\ v1 * B \in Nat /\ H * B \in Nat
    BY <1>1
  <2>2. v1 < B
    <3>1. SUFFICES ASSUME B <= v1 PROVE FALSE
      BY <1>1
    <3>2. B * B <= v1 * B
      BY <3>1, TimesGrows
    <3> QED BY <3>2, <2>1, <1>1, <1>6, <1>7
  <2>3. H <= v1
    <3>1. SUFFICES ASSUME v1 + 1 <= H PROVE FALSE
      BY <1>1
    <3>2. (v1 + 1) * B <= H * B
      <4>1. v1 + 1 \in Nat
        OBVIOUS
      <4> QED BY <3>1, <4>1, TimesGrows
    <3>3. (v1 + 1) * B = v1 * B + B
      OBVIOUS
    <3> QED BY <3>2, <3>3, <2>1, <1>6, <1>7
  <2> QED BY <2>1, <2>2, <2>3, <1>1, <1>7
<1>9. PICK g, x \in Nat : g = u1 * U /\ x = u1 * U + u0
  <2>1. u1 * U \in Nat
    OBVIOUS
  <2> QED BY <2>1
<1>10. x < v * U
  <2>1. u1 + 1 \in Nat /\ u1 + 1 <= v
    OBVIOUS
  <2>2. (u1 + 1) * U <= v * U /\ v * U \in Nat
    BY <2>1, TimesGrows
  <2>3. (u1 + 1) * U = u1 * U + U
    OBVIOUS
  <2>4. (u1 + 1) * U = g + U /\ x = g + u0
    BY <2>3, <1>9
  <2> QED BY <2>2, <2>4, <1>1
<1>11. PICK u \in Nat : u = x * P
  OBVIOUS
<1>12. u < vn * U
  <2>1. x + 1 \in Nat /\ x + 1 <= v * U /\ v * U \in Nat
    BY <1>10
  <2>2. PICK y \in Nat : y = v * U
    BY <2>1
  <2>3. (x + 1) * P <= y * P
    BY <2>1, <2>2, TimesGrows
  <2>4. (x + 1) * P = x * P + P /\ x * P \in Nat
    OBVIOUS
  <2>5. (v * U) * P = (v * P) * U
    OBVIOUS
  <2> QED BY <2>2, <2>3, <2>4, <2>5, <1>5, <1>11
<1>13. PICK u32, low \in Nat : u32 = u \div U /\ low = u % U /\ low < U /\ u = U * u32 + low
  BY DivMod
<1>14. u32 < vn
  <2>1. SUFFICES ASSUME vn <= u32 PROVE FALSE
    OBVIOUS
  <2>2. vn * U <= u32 * U
    BY <2>1, TimesGrows
  <2>3. u32 * U = U * u32 /\ u32 * U \in Nat
    OBVIOUS
  <2> QED BY <2>2, <2>3, <1>12, <1>13
<1>15. PICK l1, l0 \in Nat : l1 = low \div B /\ l0 = low % B /\ l0 < B /\ low = B * l1 + l0
  BY DivMod
<1>16. l1 < B
  <2>1. SUFFICES ASSUME B <= l1 PROVE FALSE
    OBVIOUS
  <2>2. B * B <= l1 * B
    BY <2>1, TimesGrows
  <2>3. l1 * B = B * l1 /\ l1 * B \in Nat
    OBVIOUS
  <2> QED BY <2>2, <2>3, <1>1, <1>13, <1>15
<1>17. u % B = l0
  <2>1. PICK e \in Nat : e = B * u32 + l1
    <3>1. B * u32 \in Nat
      OBVIOUS
    <3> QED BY <3>1
  <2>2. B * (B * u32 + l1) = (B * B) * u32 + B * l1
    OBVIOUS
  <2>3. u = B * e + l0
    <3>1. B * e = (B * B) * u32 + B * l1
      BY <2>1, <2>2
    <3>2. B * e = U * u32 + B * l1
      BY <3>1, <1>1
    <3>3. PICK f, k \in Nat : f = U * u32 /\ k = B * l1
      OBVIOUS
    <3>4. u = f + low
      BY <3>3, <1>13
    <3>5. low = k + l0
      BY <3>3, <1>15
    <3>6. B * e = f + k
      BY <3>2, <3>3
    <3> QED BY <3>4, <3>5, <3>6
  <2>4. (B * e + l0) % B = l0
    BY <1>15, DivModIs
  <2> QED BY <2>3, <2>4
<1>18. vn \in Nat \ {0}
  BY <1>6, <1>7, <1>8
<1>19. PICK N1 \in Nat : N1 = u32 * B + l1
  <2>1. u32 * B \in Nat
    OBVIOUS
  <2> QED BY <2>1
<1>20. PICK Q1, R1 \in Nat : Q1 = N1 \div vn /\ R1 = N1 % vn /\ R1 < vn /\ N1 = vn * Q1 + R1
  BY <1>18, DivMod, ZenonT(60)
<1>21. Digits(B, v1, v0, vn, u32, l1, Q1, R1)
  <2>1. vn * Q1 = Q1 * vn
    OBVIOUS
  <2> QED BY <2>1, <1>7, <1>8, <1>14, <1>16, <1>19, <1>20 DEF Digits
<1>22. quotient_digit(u32, v1, v0, l1) = Q1 /\ Q1 < B
  BY <1>1, <1>21, DigitIs, DigitSmall
<1>23. u32 * B + (l1 - Q1 * vn) = R1
  <2>1. vn * Q1 = Q1 * vn /\ Q1 * vn \in Nat /\ u32 * B \in Nat
    OBVIOUS
  <2> QED BY <2>1, <1>19, <1>20
<1>24. R1 % U = R1
  <2>1. U * 0 + R1 = R1 /\ R1 < U /\ 0 \in Nat
    BY <1>6, <1>20
  <2>2. (U * 0 + R1) % U = R1
    BY <2>1, DivModIs
  <2> QED BY <2>1, <2>2
<1>25. PICK N0 \in Nat : N0 = R1 * B + l0
  <2>1. R1 * B \in Nat
    OBVIOUS
  <2> QED BY <2>1
<1>26. PICK Q0, R0 \in Nat : Q0 = N0 \div vn /\ R0 = N0 % vn /\ R0 < vn /\ N0 = vn * Q0 + R0
  BY <1>18, DivMod
<1>27. Digits(B, v1, v0, vn, R1, l0, Q0, R0)
  <2>1. vn * Q0 = Q0 * vn
    OBVIOUS
  <2> QED BY <2>1, <1>7, <1>8, <1>15, <1>20, <1>25, <1>26 DEF Digits
<1>28. quotient_digit(R1, v1, v0, l0) = Q0 /\ Q0 < B
  BY <1>1, <1>27, DigitIs, DigitSmall
<1>29. PICK Q \in Nat : Q = Q1 * B + Q0
  <2>1. Q1 * B \in Nat
    OBVIOUS
  <2> QED BY <2>1
<1>30. Q % U = Q
  <2>1. Q < U
    <3>1. Q1 + 1 \in Nat /\ Q1 + 1 <= B
      BY <1>22
    <3>2. (Q1 + 1) * B <= B * B
      BY <3>1, TimesGrows
    <3>3. (Q1 + 1) * B = Q1 * B + B /\ Q1 * B \in Nat
      OBVIOUS
    <3> QED BY <3>2, <3>3, <1>1, <1>28, <1>29
  <2>2. U * 0 + Q = Q /\ 0 \in Nat
    OBVIOUS
  <2>3. (U * 0 + Q) % U = Q
    BY <2>1, <2>2, DivModIs
  <2> QED BY <2>2, <2>3
<1>31. u = Q * vn + R0
  <2>1. (Q1 * B + Q0) * vn = (Q1 * vn) * B + Q0 * vn /\ (Q1 * vn) * B \in Nat /\ Q0 * vn \in Nat
    OBVIOUS
  <2>2. N1 = Q1 * vn + R1 /\ N0 = Q0 * vn + R0 /\ Q1 * vn \in Nat
    <3>1. vn * Q1 = Q1 * vn /\ vn * Q0 = Q0 * vn
      OBVIOUS
    <3> QED BY <3>1, <1>20, <1>26
  <2>3. PICK t \in Nat : t = Q1 * vn
    BY <2>2
  <2>4. (t + R1) * B = t * B + R1 * B /\ t * B \in Nat /\ R1 * B \in Nat
    OBVIOUS
  <2>5. N1 * B = (u32 * B) * B + l1 * B
    BY <1>19
  <2>6. (u32 * B) * B = (B * B) * u32 /\ l1 * B = B * l1
    OBVIOUS
  <2>7. u = N1 * B + l0
    <3>1. PICK f, k \in Nat : f = U * u32 /\ k = B * l1
      OBVIOUS
    <3>2. u = f + k + l0
      <4>1. u = f + low
        BY <3>1, <1>13
      <4>2. low = k + l0
        BY <3>1, <1>15
      <4> QED BY <4>1, <4>2
    <3>3. (B * B) * u32 = f
      BY <3>1, <1>1
    <3>4. N1 * B = f + k
      BY <3>1, <3>3, <2>5, <2>6
    <3> QED BY <3>2, <3>4
  <2>8. u = t * B + R1 * B + l0
    BY <2>2, <2>3, <2>4, <2>7
  <2>9. u = t * B + Q0 * vn + R0
    BY <2>2, <2>8, <1>25, <2>4, <2>1
  <2> QED BY <2>1, <2>3, <2>9, <1>29
<1>32. x \div v = Q
  <2>1. Q * vn = (Q * v) * P /\ Q * v \in Nat
    BY <1>5
  <2>2. PICK y \in Nat : y = Q * v
    BY <2>1
  <2>3. x * P = y * P + R0 /\ x * P \in Nat /\ y * P \in Nat
    BY <2>1, <2>2, <1>11, <1>31
  <2>4. y <= x
    <3>1. SUFFICES ASSUME x + 1 <= y PROVE FALSE
      OBVIOUS
    <3>2. (x + 1) * P <= y * P
      <4>1. x + 1 \in Nat
        OBVIOUS
      <4> QED BY <3>1, <4>1, TimesGrows
    <3>3. (x + 1) * P = x * P + P
      OBVIOUS
    <3> QED BY <3>2, <3>3, <2>3
  <2>5. PICK r \in Nat : x = y + r
    <3>1. x - y \in Nat /\ x = y + (x - y)
      BY <2>4
    <3> QED BY <3>1
  <2>6. r < v
    <3>1. SUFFICES ASSUME v <= r PROVE FALSE
      OBVIOUS
    <3>2. v * P <= r * P
      BY <3>1, TimesGrows
    <3>3. (y + r) * P = y * P + r * P /\ r * P \in Nat
      OBVIOUS
    <3> QED BY <3>2, <3>3, <2>3, <2>5, <1>5, <1>26
  <2>7. x = v * Q + r
    <3>1. Q * v = v * Q
      OBVIOUS
    <3> QED BY <3>1, <2>2, <2>5
  <2>8. (v * Q + r) \div v = Q
    BY <2>6, DivModIs
  <2> QED BY <2>7, <2>8
<1>33. divmod128by64(u1, u0, v) = Q
  <2>1. /\ 2 * DIGIT_BITS - 1 - floor_log2(v) = s /\ v * pow2[s] = vn
        /\ vn \div Base = v1 /\ vn % Base = v0 /\ (u1 * U64 + u0) * pow2[s] = u
        /\ u \div U64 = u32 /\ (u % U64) \div Base = l1 /\ u % Base = l0
    BY <1>1, <1>2, <1>3, <1>4, <1>5, <1>7, <1>9, <1>11, <1>13, <1>15, <1>17
  <2>2. (u32 * Base + (l1 - Q1 * vn)) % U64 = R1
    BY <1>1, <1>23, <1>24
  <2>3. (Q1 * Base + Q0) % U64 = Q
    BY <1>1, <1>29, <1>30
  <2> QED BY <2>1, <2>2, <2>3, <1>22, <1>28, Zenon DEF divmod128by64
<1> QED BY <1>1, <1>9, <1>32, <1>33

-----------------------------------------------------------------------------
(* The multiplier of a divisor: what it is times the divisor, and its size. *)
LEMMA MultiplierIs ==
    ASSUME NEW d \in Nat, d >= 2, NEW h \in Nat, U64 = 2 * h, d <= h,
           NEW L \in Nat, L = pow2[ceil_log2(d)], d <= L, L < 2 * d
    PROVE  /\ m_prime(d) \in Nat /\ m_prime(d) < U64
           /\ \E e \in Nat : e <= d /\ (m_prime(d) + U64) * d = L * U64 + e
<1>1. PICK U \in Nat \ {0} : U = U64
  BY WordIs
<1>2. PICK g \in Nat : L = d + g /\ g < d
  <2>1. L - d \in Nat /\ L = d + (L - d) /\ L - d < d
    OBVIOUS
  <2> QED BY <2>1
<1>3. d \in Nat \ {0} /\ d < U64 /\ 0 < U64 /\ 0 \in Nat
  BY <1>1
<1>4. divmod128by64(g, 0, d) = (g * U64 + 0) \div d
  BY <1>2, <1>3, DivisionIs
<1>5. PICK y \in Nat : y = g * U /\ g * U64 + 0 = y
  <2>1. g * U \in Nat
    OBVIOUS
  <2> QED BY <2>1, <1>1
<1>6. PICK q, r \in Nat : q = y \div d /\ r = y % d /\ r < d /\ y = d * q + r
  BY <1>3, DivMod
<1>7. L - d = g /\ divmod128by64(L - d, 0, d) = q
  <2>1. L - d = g
    BY <1>2
  <2> QED BY <2>1, <1>4, <1>5, <1>6
<1>8. q + 2 <= U
  <2>1. SUFFICES ASSUME U <= q + 1 PROVE FALSE
    OBVIOUS
  <2>2. d * U <= d * (q + 1)
    BY <2>1, TimesGrows
  <2>3. d * (q + 1) = d * q + d /\ d * q \in Nat
    OBVIOUS
  <2>4. g + 1 \in Nat /\ g + 1 <= d
    BY <1>2
  <2>5. (g + 1) * U <= d * U /\ (g + 1) * U \in Nat /\ d * U \in Nat
    BY <2>4, TimesGrows
  <2>6. (g + 1) * U = g * U + U
    OBVIOUS
  <2>7. y + U <= d * q + d
    BY <2>2, <2>3, <2>5, <2>6, <1>5
  <2>8. U >= 2 * d
    BY <1>1
  <2> QED BY <2>3, <2>7, <2>8, <1>3, <1>6
<1>9. (1 + q) % U = 1 + q
  <2>1. 1 + q \in Nat /\ 1 + q < U
    BY <1>8
  <2>2. PICK z \in Nat : z = 1 + q /\ z < U
    BY <2>1
  <2>3. U * 0 + z = z /\ 0 \in Nat
    OBVIOUS
  <2>4. (U * 0 + z) % U = z
    BY <2>2, <2>3, DivModIs
  <2> QED BY <2>2, <2>3, <2>4
<1>10. m_prime(d) = 1 + q
  BY <1>1, <1>7, <1>9 DEF m_prime
<1>11. PICK e \in Nat : e = d - r /\ e <= d
  BY <1>6
<1>12. (m_prime(d) + U64) * d = L * U64 + e
  <2>1. ((1 + q) + U) * d = d + d * q + d * U
    OBVIOUS
  <2>2. (d + g) * U = d * U + g * U
    OBVIOUS
  <2>3. PICK a, b \in Nat : a = d * q /\ b = d * U
    OBVIOUS
  <2>4. ((1 + q) + U) * d = d + a + b
    BY <2>1, <2>3
  <2>5. L * U = b + y
    BY <2>2, <2>3, <1>2, <1>5
  <2>6. y = a + r
    BY <2>3, <1>6
  <2>7. d + a + b = b + y + e
    BY <2>6, <1>6, <1>11
  <2> QED BY <2>4, <2>5, <2>7, <1>1, <1>10
<1> QED BY <1>1, <1>8, <1>10, <1>11, <1>12

(* ct_div is exact: for n of quotient q and remainder r, multiplying with   *)
(* the multiplier comes out between q and q + 1 times the power of two.     *)
LEMMA MultiplyIs ==
    ASSUME NEW U \in Nat \ {0}, NEW n \in Nat, n < U, NEW d \in Nat \ {0}, NEW L \in Nat, d <= L,
           NEW m \in Nat, NEW e \in Nat, e <= d, (m + U) * d = L * U + e,
           NEW q \in Nat, NEW r \in Nat, r < d, n = d * q + r,
           NEW t \in Nat, NEW z \in Nat, z < U, m * n = U * t + z
    PROVE  q * L <= n + t /\ n + t < q * L + L
<1>1. PICK X \in Nat : X = n + t
  OBVIOUS
<1>2. (m + U) * n = X * U + z
  <2>1. (m + U) * n = m * n + U * n
    OBVIOUS
  <2>2. (n + t) * U = U * n + U * t
    OBVIOUS
  <2>3. PICK a, b \in Nat : a = U * n /\ b = U * t
    OBVIOUS
  <2>4. (m + U) * n = b + z + a
    BY <2>1, <2>3
  <2>5. X * U = a + b
    BY <2>2, <2>3, <1>1
  <2> QED BY <2>4, <2>5
<1>3. PICK G \in Nat : G = L * U
  OBVIOUS
<1>4. ((m + U) * n) * d = n * G + n * e
  <2>1. PICK k \in Nat : k = m + U
    OBVIOUS
  <2>2. (k * n) * d = n * (k * d)
    OBVIOUS
  <2>3. k * d = G + e
    BY <2>1, <1>3
  <2>4. n * (G + e) = n * G + n * e
    OBVIOUS
  <2>5. (k * n) * d = n * G + n * e
    BY <2>2, <2>3, <2>4
  <2> QED BY <2>1, <2>5
<1>5. PICK K \in Nat : K = X * U + z
  <2>1. X * U \in Nat
    OBVIOUS
  <2> QED BY <2>1
<1>6. K * d = n * G + n * e
  BY <1>2, <1>4, <1>5
<1>7. PICK p \in Nat : p = q * d /\ n = p + r
  <2>1. d * q = q * d /\ q * d \in Nat
    OBVIOUS
  <2> QED BY <2>1
<1>8. PICK Y, Z \in Nat : Y = q * G /\ Z = Y + G
  <2>1. q * G \in Nat
    OBVIOUS
  <2> QED BY <2>1
<1>9. Y <= K
  <2>1. SUFFICES ASSUME K + 1 <= Y PROVE FALSE
    OBVIOUS
  <2>2. (K + 1) * d <= Y * d
    <3>1. K + 1 \in Nat
      OBVIOUS
    <3> QED BY <2>1, <3>1, TimesGrows
  <2>3. (K + 1) * d = K * d + d
    OBVIOUS
  <2>4. Y * d = p * G
    <3>1. (q * G) * d = (q * d) * G
      OBVIOUS
    <3> QED BY <3>1, <1>7, <1>8
  <2>5. p <= n
    BY <1>7
  <2>6. p * G <= n * G /\ p * G \in Nat /\ n * G \in Nat
    BY <2>5, TimesGrows
  <2>7. PICK f \in Nat : f = n * e
    OBVIOUS
  <2>8. PICK a, b \in Nat : a = p * G /\ b = n * G
    BY <2>6
  <2>9. a <= b
    BY <2>6, <2>8
  <2>10. K * d = b + f
    BY <2>7, <2>8, <1>6
  <2>11. b + f + d <= a
    BY <2>2, <2>3, <2>4, <2>8, <2>10
  <2> QED BY <2>9, <2>11
<1>10. K < Z
  <2>1. SUFFICES ASSUME Z <= K PROVE FALSE
    OBVIOUS
  <2>2. Z * d <= K * d
    BY <2>1, TimesGrows
  <2>3. Z * d = p * G + d * G
    <3>1. (q * G + G) * d = (q * d) * G + d * G
      OBVIOUS
    <3> QED BY <3>1, <1>7, <1>8
  <2>4. PICK s \in Nat \ {0} : d = r + s
    <3>1. d - r \in Nat \ {0} /\ d = r + (d - r)
      OBVIOUS
    <3> QED BY <3>1
  <2>5. (p + d) * G = p * G + d * G
    OBVIOUS
  <2>6. p + d = n + s
    BY <2>4, <1>7
  <2>7. (n + s) * G = n * G + s * G
    OBVIOUS
  <2>8. n * G + s * G <= n * G + n * e
    BY <2>2, <2>3, <2>5, <2>6, <2>7, <1>6
  <2>9. PICK a, b, f \in Nat : a = n * G /\ b = s * G /\ f = n * e
    OBVIOUS
  <2>10. b <= f
    BY <2>8, <2>9
  <2>11. G <= b
    <3>1. 1 <= s
      OBVIOUS
    <3>2. 1 * G <= s * G
      BY <3>1, TimesGrows
    <3>3. 1 * G = G
      OBVIOUS
    <3> QED BY <3>2, <3>3, <2>9
  <2>12. f < G
    <3>1. n * e <= n * d /\ n * d \in Nat
      <4>1. e * n <= d * n /\ n * e <= n * d /\ d * n \in Nat
        BY TimesGrows
      <4>2. n * d \in Nat
        OBVIOUS
      <4> QED BY <4>1, <4>2
    <3>2. n + 1 \in Nat /\ n + 1 <= U
      OBVIOUS
    <3>3. (n + 1) * d <= U * d
      BY <3>2, TimesGrows
    <3>4. (n + 1) * d = n * d + d
      OBVIOUS
    <3>5. U * d <= U * L
      BY TimesGrows
    <3>6. U * L = L * U
      OBVIOUS
    <3>7. PICK i, j, k \in Nat : i = n * d /\ j = U * d /\ k = U * L
      OBVIOUS
    <3>8. f <= i /\ i + d <= j /\ j <= k /\ k = G
      BY <3>1, <3>3, <3>4, <3>5, <3>6, <3>7, <2>9, <1>3
    <3> QED BY <3>8
  <2> QED BY <2>10, <2>11, <2>12
<1>11. PICK W \in Nat : W = q * L
  OBVIOUS
<1>12. Y = W * U /\ Z = (W + L) * U
  <2>1. q * (L * U) = (q * L) * U
    OBVIOUS
  <2>2. (W + L) * U = W * U + L * U
    OBVIOUS
  <2> QED BY <2>1, <2>2, <1>3, <1>8, <1>11
<1>13. W <= X
  <2>1. SUFFICES ASSUME X + 1 <= W PROVE FALSE
    OBVIOUS
  <2>2. (X + 1) * U <= W * U
    <3>1. X + 1 \in Nat
      OBVIOUS
    <3> QED BY <2>1, <3>1, TimesGrows
  <2>3. (X + 1) * U = X * U + U
    OBVIOUS
  <2>4. PICK a \in Nat : a = X * U
    OBVIOUS
  <2>5. a + U <= Y /\ K = a + z
    BY <2>2, <2>3, <2>4, <1>5, <1>12
  <2> QED BY <2>5, <1>9
<1>14. X < W + L
  <2>1. SUFFICES ASSUME W + L <= X PROVE FALSE
    OBVIOUS
  <2>2. (W + L) * U <= X * U
    <3>1. W + L \in Nat
      OBVIOUS
    <3> QED BY <2>1, <3>1, TimesGrows
  <2>3. PICK a \in Nat : a = X * U
    OBVIOUS
  <2>4. Z <= a /\ K = a + z
    BY <2>2, <2>3, <1>5, <1>12
  <2> QED BY <2>4, <1>10
<1> QED BY <1>1, <1>11, <1>13, <1>14

(* ct_div and ct_mod for a divisor that is not more than half of a word. *)
LEMMA ConstantDivision ==
    ASSUME NEW n \in Nat, n < U64, NEW d \in Nat, d >= 2, NEW h \in Nat, U64 = 2 * h, d <= h
    PROVE  ct_div(n, d) = n \div d /\ ct_mod(n, d) = n % d
<1>1. PICK U \in Nat \ {0} : U = U64
  BY WordIs
<1>2. PICK k \in Nat : /\ ceil_log2(d) = k + 1 /\ pow2[k] < d /\ d <= 2 * pow2[k]
                       /\ pow2[k + 1] = 2 * pow2[k]
  BY CeilLog
<1>3. PICK S \in Nat \ {0} : S = pow2[k]
  BY Pow2Type
<1>4. PICK L \in Nat : L = pow2[ceil_log2(d)] /\ d <= L /\ L < 2 * d /\ L = 2 * S
  BY <1>2, <1>3
<1>5. /\ m_prime(d) \in Nat /\ m_prime(d) < U64
      /\ \E e \in Nat : e <= d /\ (m_prime(d) + U64) * d = L * U64 + e
  BY <1>4, MultiplierIs
<1>6. PICK m, e \in Nat : m = m_prime(d) /\ m < U /\ e <= d /\ (m + U) * d = L * U + e
  BY <1>1, <1>5
<1>7. d \in Nat \ {0}
  OBVIOUS
<1>8. PICK q, r \in Nat : q = n \div d /\ r = n % d /\ r < d /\ n = d * q + r
  BY <1>7, DivMod
<1>9. PICK p \in Nat : p = m * n
  OBVIOUS
<1>10. PICK t, z \in Nat : t = p \div U /\ z = p % U /\ z < U /\ p = U * t + z
  BY DivMod
<1>11. q * L <= n + t /\ n + t < q * L + L
  <2>1. m * n = U * t + z
    <3>1. p = U * t + z
      BY <1>10
    <3>2. m * n = p
      BY <1>9
    <3> QED BY ONLY <3>1, <3>2, Zenon
  <2>2. n < U
    BY <1>1
  <2>3. d <= L
    BY <1>4
  <2>4. e <= d /\ (m + U) * d = L * U + e
    BY <1>6
  <2>5. r < d /\ n = d * q + r
    BY <1>8
  <2>6. z < U
    BY <1>10
  <2> QED BY <2>1, <2>2, <2>3, <2>4, <2>5, <2>6, <1>7, MultiplyIs, ZenonT(30)
<1>12. t <= n
  <2>1. SUFFICES ASSUME n + 1 <= t PROVE FALSE
    OBVIOUS
  <2>2. U * (n + 1) <= U * t
    <3>1. n + 1 \in Nat
      OBVIOUS
    <3> QED BY <2>1, <3>1, TimesGrows
  <2>3. U * (n + 1) = U * n + U
    OBVIOUS
  <2>4. m <= U
    BY <1>6
  <2>5. m * n <= U * n
    BY <2>4, TimesGrows
  <2>6. PICK a, b \in Nat : a = U * n /\ b = U * t
    OBVIOUS
  <2>7. a + U <= b /\ p <= a /\ p = b + z
    BY <2>2, <2>3, <2>5, <2>6, <1>9, <1>10
  <2> QED BY <2>7
<1>13. PICK x \in Nat : x = n - t
  BY <1>12
<1>14. PICK a, b \in Nat : a = x \div 2 /\ b = x % 2 /\ b < 2 /\ x = 2 * a + b
  <2>1. 2 \in Nat \ {0}
    OBVIOUS
  <2> QED BY <2>1, DivMod
<1>15. PICK y \in Nat : y = t + a /\ n + t = 2 * y + b
  BY <1>13, <1>14
<1>16. PICK w \in Nat : w = S * q
  OBVIOUS
<1>17. q * L = 2 * w
  <2>1. q * (2 * S) = 2 * (S * q)
    OBVIOUS
  <2> QED BY <2>1, <1>4, <1>16
<1>18. w <= y /\ y < w + S
  BY <1>4, <1>11, <1>14, <1>15, <1>17
<1>19. y \div S = q
  <2>1. PICK c \in Nat : y = w + c /\ c < S
    <3>1. y - w \in Nat /\ y = w + (y - w) /\ y - w < S
      BY <1>18
    <3> QED BY <3>1
  <2>2. y = S * q + c
    BY <2>1, <1>16
  <2>3. (S * q + c) \div S = q
    BY <2>1, DivModIs
  <2> QED BY <2>2, <2>3
<1>20. y % U = y
  <2>1. y < U
    BY <1>1, <1>12, <1>13, <1>14, <1>15
  <2>2. U * 0 + y = y /\ 0 \in Nat
    OBVIOUS
  <2>3. (U * 0 + y) % U = y
    BY <2>1, <2>2, DivModIs
  <2> QED BY <2>2, <2>3
<1>21. ct_div(n, d) = q
  <2>1. (m_prime(d) * n) \div U64 = t
    BY <1>1, <1>6, <1>9, <1>10
  <2>2. shift1(d) = 1 /\ shift2(d) = k
    BY <1>2 DEF shift1, shift2
  <2>3. pow2[1] = 2
    <3>1. 0 + 1 = 1 /\ 0 \in Nat
      OBVIOUS
    <3>2. pow2[0 + 1] = 2 * pow2[0] /\ pow2[0] = 1
      BY <3>1, Pow2Step
    <3> QED BY <3>1, <3>2
  <2>4. ct_div(n, d) = ((t + ((n - t) \div pow2[shift1(d)])) % U64) \div pow2[shift2(d)]
    BY <2>1 DEF ct_div
  <2>5. ct_div(n, d) = ((t + (x \div 2)) % U) \div S
    BY <2>2, <2>3, <2>4, <1>1, <1>3, <1>13
  <2> QED BY <2>5, <1>14, <1>15, <1>19, <1>20
<1>22. ct_mod(n, d) = r
  <2>1. n - q * d = r
    <3>1. PICK c \in Nat : c = d * q
      OBVIOUS
    <3>2. q * d = d * q
      OBVIOUS
    <3> QED BY <3>1, <3>2, <1>8
  <2>2. r < U
    BY <1>1, <1>8
  <2>3. U * 0 + r = r /\ 0 \in Nat
    OBVIOUS
  <2>4. (U * 0 + r) % U = r
    BY <2>2, <2>3, DivModIs
  <2> QED BY <2>1, <2>3, <2>4, <1>1, <1>21 DEF ct_mod
<1> QED BY <1>8, <1>21, <1>22

(* Both divisions by a word. *)
LEMMA ExactFor == ASSUME NEW v \in 1 .. U64 - 1 PROVE Exact(v)
<1>1. PICK U, B, H \in Nat \ {0} : U = U64 /\ U = B * B /\ B = 2 * H
  BY WordIs
<1>2. v \in Nat \ {0} /\ v < U64
  BY <1>1
<1>3. ASSUME NEW u1 \in 0 .. v - 1, NEW u0 \in 0 .. U64 - 1
      PROVE  divmod128by64(u1, u0, v) = (u1 * U64 + u0) \div v
  <2>1. u1 \in Nat /\ u1 < v /\ u0 \in Nat /\ u0 < U64
    BY <1>1, <1>2
  <2> QED BY <2>1, <1>2, DivisionIs
<1>4. PICK h \in Nat : U64 = 2 * h
  <2>1. PICK h \in Nat : h = H * B
    OBVIOUS
  <2>2. (2 * H) * B = 2 * (H * B)
    OBVIOUS
  <2> QED BY <2>1, <2>2, <1>1
<1>5. U64 \div 2 = h
  <2>1. 2 * h + 0 = 2 * h /\ 0 \in Nat /\ 2 \in Nat \ {0} /\ 0 < 2
    OBVIOUS
  <2>2. (2 * h + 0) \div 2 = h
    BY <2>1, DivModIs
  <2> QED BY <2>1, <2>2, <1>4
<1>6. ASSUME v \in 2 .. U64 \div 2, NEW n \in 0 .. U64 - 1
      PROVE  ct_div(n, v) = n \div v /\ ct_mod(n, v) = n % v
  <2>1. n \in Nat /\ n < U64 /\ v \in Nat /\ v >= 2 /\ v <= h
    BY <1>1, <1>2, <1>5, <1>6
  <2> QED BY <2>1, <1>4, ConstantDivision
<1> QED BY <1>3, <1>6 DEF Exact

(* divmod128by64, ct_div and ct_mod are exact for every divisor, whatever   *)
(* the width of a word.                                                     *)
THEOREM DivisionIsExact == []DivisionExact
<1>1. DivisionExact
  <2>1. SUFFICES ASSUME job \in DivisionJobs PROVE Exact(job.v)
    BY DEF DivisionExact
  <2>2. job.v \in 1 .. U64 - 1
    BY <2>1 DEF DivisionJobs
  <2> QED BY <2>2, ExactFor
<1> QED BY <1>1, PTL

-----------------------------------------------------------------------------
(* A function that is a sequence of some length. *)
IsSeq(s, n) == s = [i \in 1 .. n |-> s[i]]

(* Sequences as functions. *)
LEMMA SeqIs ==
    ASSUME NEW n \in Nat, NEW s, IsSeq(s, n)
    PROVE  Len(s) = n /\ DOMAIN s = 1 .. n /\ \A S : (\A i \in 1 .. n : s[i] \in S) => s \in Seq(S)
<1>1. s = [i \in 1 .. n |-> s[i]]
  BY DEF IsSeq
<1>2. DOMAIN s = 1 .. n
  BY <1>1
<1>3. ASSUME NEW S, \A i \in 1 .. n : s[i] \in S PROVE s \in Seq(S) /\ Len(s) = n
  <2>1. s \in [1 .. n -> S]
    BY <1>1, <1>3
  <2> QED BY <2>1
<1>4. Len(s) = n
  <2>1. \A i \in 1 .. n : s[i] \in {s[j] : j \in 1 .. n}
    OBVIOUS
  <2> QED BY <2>1, <1>3
<1> QED BY <1>2, <1>3, <1>4

(* Sequences joined. *)
Join(s, t) == s \o t

(* The length and the elements of joined sequences. *)
LEMMA JoinIs ==
    ASSUME NEW a \in Nat, NEW b \in Nat, NEW s, NEW t, IsSeq(s, a), IsSeq(t, b)
    PROVE  /\ IsSeq(Join(s, t), a + b)
           /\ \A x \in 1 .. a + b : Join(s, t)[x] = IF x <= a THEN s[x] ELSE t[x - a]
<1> DEFINE S == {s[i] : i \in 1 .. a} \cup {t[i] : i \in 1 .. b}
<1>1. (\A i \in 1 .. a : s[i] \in S) /\ (\A i \in 1 .. b : t[i] \in S)
  OBVIOUS
<1> HIDE DEF S
<1>2. s \in Seq(S) /\ Len(s) = a
  BY <1>1, SeqIs
<1>3. t \in Seq(S) /\ Len(t) = b
  BY <1>1, SeqIs
<1>4. PICK u : u = s \o t
  OBVIOUS
<1>5. /\ u \in Seq(S) /\ Len(u) = Len(s) + Len(t)
      /\ \A i \in 1 .. Len(s) + Len(t) : u[i] = IF i <= Len(s) THEN s[i] ELSE t[i - Len(s)]
  BY <1>2, <1>3, <1>4, ConcatProperties
<1>6. u = [i \in 1 .. a + b |-> u[i]]
  <2>1. u \in [1 .. Len(u) -> S]
    BY <1>5
  <2> QED BY <2>1, <1>2, <1>3, <1>5
<1>7. \A i \in 1 .. a + b : u[i] = IF i <= a THEN s[i] ELSE t[i - a]
  BY <1>2, <1>3, <1>5
<1> QED BY <1>4, <1>6, <1>7 DEF IsSeq, Join

(* A sequence with one more element. *)
Added(s, e) == Append(s, e)

(* Its length and its elements. *)
LEMMA AppendIs ==
    ASSUME NEW a \in Nat, NEW s, NEW e, IsSeq(s, a)
    PROVE  /\ IsSeq(Added(s, e), a + 1) /\ Added(s, e)[a + 1] = e
           /\ \A x \in 1 .. a : Added(s, e)[x] = s[x]
<1> DEFINE S == {s[i] : i \in 1 .. a} \cup {e}
<1>1. (\A i \in 1 .. a : s[i] \in S) /\ e \in S
  OBVIOUS
<1> HIDE DEF S
<1>2. s \in Seq(S) /\ Len(s) = a
  BY <1>1, SeqIs
<1>3. PICK u : u = Append(s, e)
  OBVIOUS
<1>4. u \in Seq(S) /\ Len(u) = a + 1 /\ (\A i \in 1 .. a : u[i] = s[i]) /\ u[a + 1] = e
  BY <1>1, <1>2, <1>3, AppendProperties
<1>5. u = [i \in 1 .. a + 1 |-> u[i]]
  <2>1. u \in [1 .. Len(u) -> S]
    BY <1>4
  <2> QED BY <2>1, <1>4
<1> QED BY <1>3, <1>4, <1>5 DEF IsSeq, Added

(* Evaluated is the identity. *)
LEMMA EvaluatedIs ==
    ASSUME NEW a \in Nat, NEW s, IsSeq(s, a)
    PROVE  Evaluated(s) = s
<1>1. PICK t : t = << >>
  OBVIOUS
<1>2. IsSeq(t, 0)
  BY <1>1 DEF IsSeq
<1>3. Evaluated(s) = Join(s, t)
  BY <1>1 DEF Evaluated, Join
<1>4. a + 0 = a
  OBVIOUS
<1>5. IsSeq(Join(s, t), a) /\ \A x \in 1 .. a : Join(s, t)[x] = s[x]
  BY <1>2, <1>4, JoinIs
<1> HIDE DEF Join
<1> QED BY <1>3, <1>5 DEF IsSeq

-----------------------------------------------------------------------------
(* A total order of 1 .. m: as a set of pairs. *)
IsOrder(T, m) ==
    /\ T \in SUBSET ((1 .. m) \X (1 .. m))
    /\ \A i, j \in 1 .. m : i # j => (<<i, j>> \in T <=> ~(<<j, i>> \in T))
    /\ \A i \in 1 .. m : <<i, i>> \in T
    /\ \A i, j, k \in 1 .. m : <<i, j>> \in T /\ <<j, k>> \in T => <<i, k>> \in T
UpTo(T, m, i) == {j \in 1 .. m : <<j, i>> \in T}

(* The place of a member is that among those up to it. *)
Rank(T, m, i) == Cardinality(UpTo(T, m, i))

(* A permutation of 1 .. m. *)
IsPermutation(p, m) ==
    /\ p \in [1 .. m -> 1 .. m]
    /\ \A i, j \in 1 .. m : p[i] = p[j] => i = j
    /\ \A j \in 1 .. m : \E i \in 1 .. m : p[i] = j

(* Ranks are places. *)
LEMMA RankType ==
    ASSUME NEW m \in Nat, NEW T, IsOrder(T, m), NEW i \in 1 .. m
    PROVE  /\ UpTo(T, m, i) \in SUBSET (1 .. m) /\ i \in UpTo(T, m, i)
           /\ IsFiniteSet(UpTo(T, m, i)) /\ Rank(T, m, i) \in 1 .. m
<1>1. UpTo(T, m, i) \in SUBSET (1 .. m) /\ i \in UpTo(T, m, i)
  BY DEF UpTo, IsOrder
<1>2. IsFiniteSet(1 .. m) /\ Cardinality(1 .. m) = m
  <2>1. 1 \in Int /\ m \in Int
    OBVIOUS
  <2>2. IsFiniteSet(1 .. m) /\ Cardinality(1 .. m) = IF 1 > m THEN 0 ELSE m - 1 + 1
    BY <2>1, FS_Interval
  <2> QED BY <2>2
<1>3. IsFiniteSet(UpTo(T, m, i)) /\ Cardinality(UpTo(T, m, i)) <= m
  BY <1>1, <1>2, FS_Subset
<1>4. Cardinality(UpTo(T, m, i)) \in Nat /\ Cardinality(UpTo(T, m, i)) # 0
  BY <1>1, <1>3, FS_CardinalityType, FS_EmptySet
<1> QED BY <1>1, <1>3, <1>4 DEF Rank

(* Ranks grow with the order. *)
LEMMA RankLess ==
    ASSUME NEW m \in Nat, NEW T, IsOrder(T, m), NEW i \in 1 .. m, NEW k \in 1 .. m, i # k, <<i, k>> \in T
    PROVE  Rank(T, m, i) < Rank(T, m, k)
<1>1. UpTo(T, m, i) \in SUBSET UpTo(T, m, k) /\ k \notin UpTo(T, m, i)
  BY DEF UpTo, IsOrder
<1>2. IsFiniteSet(UpTo(T, m, k)) /\ UpTo(T, m, i) # UpTo(T, m, k)
  BY <1>1, RankType
<1>3. Rank(T, m, i) <= Rank(T, m, k) /\ Rank(T, m, i) # Rank(T, m, k)
  BY <1>1, <1>2, FS_Subset DEF Rank
<1>4. Rank(T, m, i) \in Int /\ Rank(T, m, k) \in Int
  BY RankType
<1> QED BY <1>3, <1>4

(* What a sort by rank is: a permutation that follows the order. *)
LEMMA RankSort ==
    ASSUME NEW m \in Nat, NEW T, IsOrder(T, m)
    PROVE  \E p : /\ p = [r \in 1 .. m |-> CHOOSE i \in 1 .. m : Rank(T, m, i) = r]
                  /\ IsPermutation(p, m)
                  /\ \A r \in 1 .. m : Rank(T, m, p[r]) = r
                  /\ \A r, s \in 1 .. m : r <= s => <<p[r], p[s]>> \in T
<1> DEFINE rank == [i \in 1 .. m |-> Rank(T, m, i)]
           p == [r \in 1 .. m |-> CHOOSE i \in 1 .. m : Rank(T, m, i) = r]
<1>1. rank \in [1 .. m -> 1 .. m] /\ \A i \in 1 .. m : rank[i] = Rank(T, m, i)
  BY RankType
<1>2. ASSUME NEW i \in 1 .. m, NEW k \in 1 .. m, Rank(T, m, i) = Rank(T, m, k) PROVE i = k
  <2>1. SUFFICES ASSUME i # k PROVE FALSE
    OBVIOUS
  <2>2. <<i, k>> \in T \/ <<k, i>> \in T
    BY <2>1 DEF IsOrder
  <2>3. Rank(T, m, i) < Rank(T, m, k) \/ Rank(T, m, k) < Rank(T, m, i)
    BY <2>1, <2>2, RankLess
  <2>4. Rank(T, m, i) \in Int /\ Rank(T, m, k) \in Int
    BY RankType
  <2> QED BY <1>2, <2>3, <2>4
<1>3. rank \in Injection(1 .. m, 1 .. m)
  <2>1. \A i, k \in 1 .. m : rank[i] = rank[k] => i = k
    BY <1>1, <1>2
  <2> HIDE DEF rank
  <2> QED BY <1>1, <2>1 DEF Injection, IsInjective
<1>4. IsFiniteSet(1 .. m)
  <2>1. 1 \in Int /\ m \in Int
    OBVIOUS
  <2> QED BY <2>1, FS_Interval
<1>5. rank \in Surjection(1 .. m, 1 .. m)
  <2> HIDE DEF rank
  <2> QED BY <1>3, <1>4, FS_Injection
<1>6. \A r \in 1 .. m : \E i \in 1 .. m : rank[i] = r
  <2> HIDE DEF rank
  <2> QED BY <1>5 DEF Surjection
<1> HIDE DEF rank
<1>7. ASSUME NEW r \in 1 .. m PROVE p[r] \in 1 .. m /\ Rank(T, m, p[r]) = r
  <2>1. \E i \in 1 .. m : Rank(T, m, i) = r
    BY <1>1, <1>6
  <2> QED BY <2>1
<1>8. p \in [1 .. m -> 1 .. m]
  BY <1>7
<1>9. p = [r \in 1 .. m |-> CHOOSE i \in 1 .. m : Rank(T, m, i) = r]
  OBVIOUS
<1> HIDE DEF p
<1>10. \A i, j \in 1 .. m : p[i] = p[j] => i = j
  BY <1>7
<1>11. ASSUME NEW j \in 1 .. m PROVE \E i \in 1 .. m : p[i] = j
  <2>1. rank[j] \in 1 .. m /\ rank[j] = Rank(T, m, j)
    BY <1>1
  <2>2. Rank(T, m, p[rank[j]]) = Rank(T, m, j) /\ p[rank[j]] \in 1 .. m
    BY <1>7, <2>1
  <2>3. p[rank[j]] = j
    BY <2>2, <1>2
  <2> QED BY <2>1, <2>3
<1>12. IsPermutation(p, m)
  BY <1>8, <1>10, <1>11 DEF IsPermutation
<1>13. ASSUME NEW r \in 1 .. m, NEW s \in 1 .. m, r <= s PROVE <<p[r], p[s]>> \in T
  <2>1. p[r] \in 1 .. m /\ p[s] \in 1 .. m /\ Rank(T, m, p[r]) = r /\ Rank(T, m, p[s]) = s
    BY <1>7
  <2>2. CASE p[r] = p[s]
    BY <2>1, <2>2 DEF IsOrder
  <2>3. CASE p[r] # p[s]
    <3>1. SUFFICES ASSUME ~(<<p[r], p[s]>> \in T) PROVE FALSE
      OBVIOUS
    <3>2. <<p[s], p[r]>> \in T
      BY <2>1, <2>3, <3>1 DEF IsOrder
    <3>3. s < r
      BY <2>1, <2>3, <3>2, RankLess
    <3> QED BY <3>3, <1>13
  <2> QED BY <2>2, <2>3
<1> QED BY <1>7, <1>9, <1>12, <1>13

(* Counting the entries after a permutation. *)
LEMMA PermutedCount ==
    ASSUME NEW m \in Nat, NEW p, IsPermutation(p, m), NEW A \in SUBSET (1 .. m)
    PROVE  /\ Cardinality({r \in 1 .. m : p[r] \in A}) = Cardinality(A)
           /\ IsFiniteSet(A) /\ IsFiniteSet({r \in 1 .. m : p[r] \in A})
<1> DEFINE R == {r \in 1 .. m : p[r] \in A}
           f == [r \in R |-> p[r]]
<1>1. IsFiniteSet(1 .. m)
  <2>1. 1 \in Int /\ m \in Int
    OBVIOUS
  <2> QED BY <2>1, FS_Interval
<1>2. IsFiniteSet(A)
  BY <1>1, FS_Subset
<1>3. IsFiniteSet(R)
  <2>1. R \in SUBSET (1 .. m)
    OBVIOUS
  <2> QED BY <1>1, <2>1, FS_Subset
<1>4. f \in Bijection(R, A)
  <2>1. f \in [R -> A]
    OBVIOUS
  <2>2. \A r, s \in R : f[r] = f[s] => r = s
    BY DEF IsPermutation
  <2>3. \A x \in A : \E r \in R : f[r] = x
    BY DEF IsPermutation
  <2> HIDE DEF f, R
  <2> QED BY <2>1, <2>2, <2>3 DEF Bijection, Injection, Surjection, IsInjective
<1>5. ExistsBijection(R, A)
  BY <1>4 DEF ExistsBijection
<1> QED BY <1>2, <1>3, <1>5, FS_Bijection

-----------------------------------------------------------------------------
(* The lexicographic order of three and of four numbers. *)
Less3(a1, a2, a3, b1, b2, b3) == a1 < b1 \/ (a1 = b1 /\ (a2 < b2 \/ (a2 = b2 /\ a3 < b3)))
Less4(a1, a2, a3, a4, b1, b2, b3, b4) ==
    a1 < b1 \/ (a1 = b1 /\ (a2 < b2 \/ (a2 = b2 /\ (a3 < b3 \/ (a3 = b3 /\ a4 < b4)))))

(* Four numbers. *)
LEMMA Lexicographic4 ==
    ASSUME NEW a1 \in Int, NEW a2 \in Int, NEW a3 \in Int, NEW a4 \in Int,
           NEW b1 \in Int, NEW b2 \in Int, NEW b3 \in Int, NEW b4 \in Int
    PROVE  lexicographic(<<a1, a2, a3, a4>>, <<b1, b2, b3, b4>>) <=> Less4(a1, a2, a3, a4, b1, b2, b3, b4)
<1> DEFINE a == <<a1, a2, a3, a4>>
           b == <<b1, b2, b3, b4>>
           L(i) == a[i] < b[i] /\ \A j \in 1 .. i - 1 : a[j] = b[j]
<1>1. /\ a[1] = a1 /\ a[2] = a2 /\ a[3] = a3 /\ a[4] = a4
      /\ b[1] = b1 /\ b[2] = b2 /\ b[3] = b3 /\ b[4] = b4
  OBVIOUS
<1>2. lexicographic(a, b) <=> \E i \in 1 .. 4 : L(i)
  <2>1. DOMAIN a = 1 .. 4
    OBVIOUS
  <2> HIDE DEF a, b
  <2> QED BY <2>1 DEF lexicographic
<1> HIDE DEF a, b
<1>3. L(1) <=> a1 < b1
  BY <1>1
<1>4. L(2) <=> a1 = b1 /\ a2 < b2
  BY <1>1
<1>5. L(3) <=> a1 = b1 /\ a2 = b2 /\ a3 < b3
  <2>1. \A j \in Int : j \in 1 .. 3 - 1 <=> j = 1 \/ j = 2
    OBVIOUS
  <2> QED BY <1>1, <2>1
<1>6. L(4) <=> a1 = b1 /\ a2 = b2 /\ a3 = b3 /\ a4 < b4
  <2>1. \A j \in Int : j \in 1 .. 4 - 1 <=> j = 1 \/ j = 2 \/ j = 3
    OBVIOUS
  <2> QED BY <1>1, <2>1
<1>7. (\E i \in 1 .. 4 : L(i)) <=> L(1) \/ L(2) \/ L(3) \/ L(4)
  <2> HIDE DEF L
  <2>1. \A i \in Int : i \in 1 .. 4 <=> i = 1 \/ i = 2 \/ i = 3 \/ i = 4
    OBVIOUS
  <2> QED BY <2>1
<1> HIDE DEF L
<1>8. lexicographic(a, b) <=> Less4(a1, a2, a3, a4, b1, b2, b3, b4)
  BY <1>2, <1>3, <1>4, <1>5, <1>6, <1>7 DEF Less4
<1> QED BY <1>8 DEF a, b

(* Three numbers. *)
LEMMA Lexicographic3 ==
    ASSUME NEW a1 \in Int, NEW a2 \in Int, NEW a3 \in Int, NEW b1 \in Int, NEW b2 \in Int, NEW b3 \in Int
    PROVE  lexicographic(<<a1, a2, a3>>, <<b1, b2, b3>>) <=> Less3(a1, a2, a3, b1, b2, b3)
<1> DEFINE a == <<a1, a2, a3>>
           b == <<b1, b2, b3>>
           L(i) == a[i] < b[i] /\ \A j \in 1 .. i - 1 : a[j] = b[j]
<1>1. /\ a[1] = a1 /\ a[2] = a2 /\ a[3] = a3 /\ b[1] = b1 /\ b[2] = b2 /\ b[3] = b3
  OBVIOUS
<1>2. lexicographic(a, b) <=> \E i \in 1 .. 3 : L(i)
  <2>1. DOMAIN a = 1 .. 3
    OBVIOUS
  <2> HIDE DEF a, b
  <2> QED BY <2>1 DEF lexicographic
<1> HIDE DEF a, b
<1>3. L(1) <=> a1 < b1
  BY <1>1
<1>4. L(2) <=> a1 = b1 /\ a2 < b2
  BY <1>1
<1>5. L(3) <=> a1 = b1 /\ a2 = b2 /\ a3 < b3
  <2>1. \A j \in Int : j \in 1 .. 3 - 1 <=> j = 1 \/ j = 2
    OBVIOUS
  <2> QED BY <1>1, <2>1
<1>6. (\E i \in 1 .. 3 : L(i)) <=> L(1) \/ L(2) \/ L(3)
  <2> HIDE DEF L
  <2>1. \A i \in Int : i \in 1 .. 3 <=> i = 1 \/ i = 2 \/ i = 3
    OBVIOUS
  <2> QED BY <2>1
<1> HIDE DEF L
<1>7. lexicographic(a, b) <=> Less3(a1, a2, a3, b1, b2, b3)
  BY <1>2, <1>3, <1>4, <1>5, <1>6 DEF Less3
<1> QED BY <1>7 DEF a, b

(* Of two tuples one is less, unless they are the same. *)
LEMMA LessEither ==
    ASSUME NEW a1 \in Int, NEW a2 \in Int, NEW a3 \in Int, NEW a4 \in Int,
           NEW b1 \in Int, NEW b2 \in Int, NEW b3 \in Int, NEW b4 \in Int
    PROVE  /\ Less4(a1, a2, a3, a4, b1, b2, b3, b4) => ~Less4(b1, b2, b3, b4, a1, a2, a3, a4)
           /\ \/ Less4(a1, a2, a3, a4, b1, b2, b3, b4) \/ Less4(b1, b2, b3, b4, a1, a2, a3, a4)
              \/ a1 = b1 /\ a2 = b2 /\ a3 = b3 /\ a4 = b4
           /\ a1 = b1 /\ a2 = b2 /\ a3 = b3 /\ a4 = b4 => ~Less4(a1, a2, a3, a4, b1, b2, b3, b4)
BY DEF Less4

(* The order is transitive. *)
LEMMA LessTransitive ==
    ASSUME NEW a1 \in Int, NEW a2 \in Int, NEW a3 \in Int, NEW a4 \in Int,
           NEW b1 \in Int, NEW b2 \in Int, NEW b3 \in Int, NEW b4 \in Int,
           NEW c1 \in Int, NEW c2 \in Int, NEW c3 \in Int, NEW c4 \in Int,
           Less4(a1, a2, a3, a4, b1, b2, b3, b4), Less4(b1, b2, b3, b4, c1, c2, c3, c4)
    PROVE  Less4(a1, a2, a3, a4, c1, c2, c3, c4)
<1>1. CASE a1 < b1 \/ b1 < c1
  BY <1>1 DEF Less4
<1>2. CASE a1 = b1 /\ b1 = c1 /\ (a2 < b2 \/ b2 < c2)
  BY <1>2 DEF Less4
<1>3. CASE a1 = b1 /\ b1 = c1 /\ a2 = b2 /\ b2 = c2
  BY <1>3 DEF Less4
<1> QED BY <1>1, <1>2, <1>3 DEF Less4

(* Tuples in this order, those that are the same in the order of places. *)
TupleOrder(a, b, c, d, m) ==
    LET Less(i, j) == Less4(a[i], b[i], c[i], d[i], a[j], b[j], c[j], d[j])
    IN  {q \in (1 .. m) \X (1 .. m) : Less(q[1], q[2]) \/ (q[1] <= q[2] /\ ~Less(q[2], q[1]))}

(* It is total. *)
LEMMA LessTotal ==
    ASSUME NEW m \in Nat, NEW a \in [1 .. m -> Int], NEW b \in [1 .. m -> Int],
           NEW c \in [1 .. m -> Int], NEW d \in [1 .. m -> Int]
    PROVE  IsOrder(TupleOrder(a, b, c, d, m), m)
<1> DEFINE Less(i, j) == Less4(a[i], b[i], c[i], d[i], a[j], b[j], c[j], d[j])
           Bef(i, j) == Less(i, j) \/ (i <= j /\ ~Less(j, i))
           T == {q \in (1 .. m) \X (1 .. m) : Less(q[1], q[2]) \/ (q[1] <= q[2] /\ ~Less(q[2], q[1]))}
<1>1. \A i, j \in 1 .. m : <<i, j>> \in T <=> Bef(i, j)
  <2> HIDE DEF Less
  <2> QED OBVIOUS
<1>2. T \in SUBSET ((1 .. m) \X (1 .. m))
  <2> HIDE DEF Less
  <2> QED OBVIOUS
<1>3. ASSUME NEW i \in 1 .. m, NEW j \in 1 .. m
      PROVE  Bef(i, j) <=> \/ Less(i, j)
                           \/ i <= j /\ a[i] = a[j] /\ b[i] = b[j] /\ c[i] = c[j] /\ d[i] = d[j]
  BY DEF Less4
<1>4. ASSUME NEW i \in 1 .. m, NEW j \in 1 .. m, i # j PROVE Bef(i, j) <=> ~Bef(j, i)
  <2>1. /\ a[i] \in Int /\ b[i] \in Int /\ c[i] \in Int /\ d[i] \in Int
        /\ a[j] \in Int /\ b[j] \in Int /\ c[j] \in Int /\ d[j] \in Int
    OBVIOUS
  <2>2. /\ Less(i, j) => ~Less(j, i)
        /\ Less(i, j) \/ Less(j, i) \/ (a[i] = a[j] /\ b[i] = b[j] /\ c[i] = c[j] /\ d[i] = d[j])
    <3>1. Less(i, j) => ~Less(j, i)
      BY <2>1, LessEither DEF Less4
    <3>2. Less(i, j) \/ Less(j, i) \/ (a[i] = a[j] /\ b[i] = b[j] /\ c[i] = c[j] /\ d[i] = d[j])
      BY <2>1, LessEither DEF Less4
    <3> QED BY <3>1, <3>2
  <2> HIDE DEF Less
  <2> QED BY <1>4, <2>2
<1>5. ASSUME NEW i \in 1 .. m PROVE Bef(i, i)
  BY DEF Less4
<1>6. ASSUME NEW i \in 1 .. m, NEW j \in 1 .. m, NEW k \in 1 .. m, Bef(i, j), Bef(j, k) PROVE Bef(i, k)
  <2> DEFINE Same(x, y) == a[x] = a[y] /\ b[x] = b[y] /\ c[x] = c[y] /\ d[x] = d[y]
  <2>1. (Less(i, j) \/ (i <= j /\ Same(i, j))) /\ (Less(j, k) \/ (j <= k /\ Same(j, k)))
    <3> HIDE DEF Bef
    <3> QED BY <1>3, <1>6
  <2>2. Less(i, k) \/ (i <= k /\ Same(i, k))
    <3>1. /\ a[i] \in Int /\ b[i] \in Int /\ c[i] \in Int /\ d[i] \in Int
          /\ a[j] \in Int /\ b[j] \in Int /\ c[j] \in Int /\ d[j] \in Int
          /\ a[k] \in Int /\ b[k] \in Int /\ c[k] \in Int /\ d[k] \in Int
      OBVIOUS
    <3>2. CASE Less(i, j) /\ Less(j, k)
      BY <3>1, <3>2, LessTransitive
    <3>3. CASE ~Less(i, j)
      <4>1. i <= j /\ Same(i, j)
        BY <2>1, <3>3
      <4>2. Less(i, k) <=> Less(j, k)
        BY <4>1
      <4>3. Same(j, k) => Same(i, k)
        BY <4>1
      <4>4. i <= j /\ (j <= k => i <= k)
        BY <4>1
      <4> HIDE DEF Less, Same
      <4> QED BY <2>1, <4>2, <4>3, <4>4
    <3>4. CASE ~Less(j, k)
      <4>1. j <= k /\ Same(j, k)
        BY <2>1, <3>4
      <4>2. Less(i, j) <=> Less(i, k)
        BY <4>1
      <4>3. Same(i, j) => Same(i, k)
        BY <4>1
      <4>4. i <= j => i <= k
        BY <4>1
      <4> HIDE DEF Less, Same
      <4> QED BY <2>1, <4>2, <4>3, <4>4
    <3> QED BY <3>2, <3>3, <3>4
  <2> QED BY <1>3, <2>2
<1> HIDE DEF T, Bef
<1>7. IsOrder(T, m)
  BY <1>1, <1>2, <1>4, <1>5, <1>6 DEF IsOrder
<1> QED BY <1>7 DEF T, TupleOrder

-----------------------------------------------------------------------------
(* The numbers by which requests and answers are sorted. *)
Newest(r, type) == IF type = "insert" THEN -r.pos ELSE 0
NoKeyLast(k) == IF k = 0 THEN 1 ELSE 0

(* A sequence sorted by ranks. *)
AtRank(T, m, r) == CHOOSE i \in 1 .. m : Rank(T, m, i) = r
RankSorted(all, m, T) == [r \in 1 .. m |-> all[AtRank(T, m, r)]]

(* Sorting by ranks permutes. *)
LEMMA RankSortedIs ==
    ASSUME NEW m \in Nat, NEW T, IsOrder(T, m), NEW all
    PROVE  \E p : /\ IsPermutation(p, m) /\ RankSorted(all, m, T) = [r \in 1 .. m |-> all[p[r]]]
                  /\ \A r \in 1 .. m : p[r] \in 1 .. m /\ Rank(T, m, p[r]) = r
                  /\ \A r, s \in 1 .. m : r <= s => <<p[r], p[s]>> \in T
<1>1. PICK p : /\ p = [r \in 1 .. m |-> CHOOSE i \in 1 .. m : Rank(T, m, i) = r]
               /\ IsPermutation(p, m)
               /\ \A r \in 1 .. m : Rank(T, m, p[r]) = r
               /\ \A r, s \in 1 .. m : r <= s => <<p[r], p[s]>> \in T
  BY RankSort
<1>2. \A r \in 1 .. m : p[r] = AtRank(T, m, r)
  BY <1>1 DEF AtRank
<1>3. RankSorted(all, m, T) = [r \in 1 .. m |-> all[p[r]]]
  BY <1>2 DEF RankSorted
<1>4. \A r \in 1 .. m : p[r] \in 1 .. m
  BY <1>1 DEF IsPermutation
<1>5. /\ IsPermutation(p, m)
      /\ \A r \in 1 .. m : p[r] \in 1 .. m /\ Rank(T, m, p[r]) = r
      /\ \A r, s \in 1 .. m : r <= s => <<p[r], p[s]>> \in T
  BY <1>1, <1>4
<1> QED BY <1>3, <1>5, Zenon

(* The entry at a place has that rank. *)
LEMMA RankSortedAt ==
    ASSUME NEW m \in Nat, NEW T, IsOrder(T, m), NEW all, NEW i \in 1 .. m
    PROVE  \E x \in 1 .. m : RankSorted(all, m, T)[i] = all[x] /\ Rank(T, m, x) = i
<1>1. PICK p : /\ IsPermutation(p, m) /\ RankSorted(all, m, T) = [r \in 1 .. m |-> all[p[r]]]
               /\ \A r \in 1 .. m : p[r] \in 1 .. m /\ Rank(T, m, p[r]) = r
               /\ \A r, s \in 1 .. m : r <= s => <<p[r], p[s]>> \in T
  BY RankSortedIs
<1>2. p[i] \in 1 .. m /\ Rank(T, m, p[i]) = i /\ RankSorted(all, m, T)[i] = all[p[i]]
  BY <1>1
<1> QED BY <1>2

(* The two sequences that a sort evaluates. *)
SortedBy(all, m, count) ==
    Evaluated([r \in 1 .. m |-> all[CHOOSE i \in 1 .. m : Evaluated(count)[i] = r]])

(* They are those of a sort by ranks. *)
LEMMA SortIs ==
    ASSUME NEW m \in Nat, NEW T, NEW all, NEW count, IsSeq(count, m),
           \A i \in 1 .. m : count[i] = Rank(T, m, i)
    PROVE  SortedBy(all, m, count) = RankSorted(all, m, T)
<1> DEFINE At(r) == CHOOSE i \in 1 .. m : Evaluated(count)[i] = r
<1>1. Evaluated(count) = count
  BY EvaluatedIs
<1>2. \A r \in 1 .. m : At(r) = AtRank(T, m, r)
  BY <1>1 DEF AtRank
<1>3. SortedBy(all, m, count) = Evaluated([r \in 1 .. m |-> all[At(r)]])
  BY DEF SortedBy
<1> HIDE DEF At
<1>4. [r \in 1 .. m |-> all[At(r)]] = RankSorted(all, m, T)
  BY <1>2 DEF RankSorted
<1>5. IsSeq(RankSorted(all, m, T), m)
  BY DEF RankSorted, IsSeq
<1>6. Evaluated(RankSorted(all, m, T)) = RankSorted(all, m, T)
  BY <1>5, EvaluatedIs
<1> QED BY <1>3, <1>4, <1>6

(* The sort of requests. *)
RequestSort(all, type) == osort(all, LAMBDA r, s : cmp_shard_flag_key(r, s, type))

(* A sequence after a permutation. *)
Permuted(S, all, p, m) == IsPermutation(p, m) /\ S = [r \in 1 .. m |-> all[p[r]]]

(* The order of sorted requests. *)
InRequestOrder(S, m, type) ==
    \A r, s \in 1 .. m : r <= s =>
        /\ S[r].shard <= S[s].shard
        /\ S[r].shard = S[s].shard => S[r].flag <= S[s].flag
        /\ S[r].shard = S[s].shard /\ S[r].flag = S[s].flag => S[r].key <= S[s].key
        /\ S[r].shard = S[s].shard /\ S[r].flag = S[s].flag /\ S[r].key = S[s].key
              /\ type = "insert" => S[s].pos <= S[r].pos

(* Requests are sorted by shard, those with a key first, by their key, and  *)
(* records with one key from the last to the first.                         *)
LEMMA SortedRequests ==
    ASSUME NEW m \in Nat, NEW all, IsSeq(all, m), NEW type,
           \A i \in 1 .. m : all[i].shard \in Nat /\ all[i].flag \in Nat /\ all[i].key \in Nat /\ all[i].pos \in Nat
    PROVE  \E p, S : /\ Permuted(S, all, p, m) /\ S = RequestSort(all, type)
                     /\ InRequestOrder(S, m, type)
<1> DEFINE a == [i \in 1 .. m |-> all[i].shard]
           b == [i \in 1 .. m |-> all[i].flag]
           c == [i \in 1 .. m |-> all[i].key]
           d == [i \in 1 .. m |-> Newest(all[i], type)]
           Less(i, j) == Less4(a[i], b[i], c[i], d[i], a[j], b[j], c[j], d[j])
<1>1. a \in [1 .. m -> Int] /\ b \in [1 .. m -> Int] /\ c \in [1 .. m -> Int] /\ d \in [1 .. m -> Int]
  BY DEF Newest
<1>2. ASSUME NEW i \in 1 .. m, NEW j \in 1 .. m PROVE cmp_shard_flag_key(all[i], all[j], type) <=> Less(i, j)
  <2>1. cmp_shard_flag_key(all[i], all[j], type) =
           lexicographic(<<a[i], b[i], c[i], d[i]>>, <<a[j], b[j], c[j], d[j]>>)
    BY DEF cmp_shard_flag_key, Newest
  <2>2. /\ a[i] \in Int /\ b[i] \in Int /\ c[i] \in Int /\ d[i] \in Int
        /\ a[j] \in Int /\ b[j] \in Int /\ c[j] \in Int /\ d[j] \in Int
    BY <1>1
  <2> HIDE DEF a, b, c, d
  <2> QED BY <2>1, <2>2, Lexicographic4
<1>3. PICK S : S = RequestSort(all, type)
  OBVIOUS
<1>4. DOMAIN all = 1 .. m
  BY SeqIs
<1> DEFINE Cmp(i, j) == cmp_shard_flag_key(all[i], all[j], type)
           count == [i \in 1 .. m |-> Cardinality({j \in 1 .. m : Cmp(j, i) \/ (j <= i /\ ~Cmp(i, j))})]
           T == TupleOrder(a, b, c, d, m)
<1>5. S = SortedBy(all, m, count)
  BY <1>3, <1>4 DEF RequestSort, osort, SortedBy
<1> HIDE DEF a, b, c, d
<1>6. \A i, j \in 1 .. m : <<i, j>> \in T <=> Less(i, j) \/ (i <= j /\ ~Less(j, i))
  BY DEF TupleOrder
<1>7. S = RankSorted(all, m, T)
  <2>1. \A i, j \in 1 .. m : Cmp(i, j) <=> Less(i, j)
    BY <1>2
  <2> HIDE DEF Less, Cmp, T
  <2>2. \A i \in 1 .. m : {j \in 1 .. m : Cmp(j, i) \/ (j <= i /\ ~Cmp(i, j))} = UpTo(T, m, i)
    BY <1>6, <2>1 DEF UpTo
  <2>3. \A i \in 1 .. m : count[i] = Rank(T, m, i)
    BY <2>2 DEF Rank
  <2>4. IsSeq(count, m)
    BY DEF IsSeq
  <2> HIDE DEF count
  <2> QED BY <1>5, <2>3, <2>4, SortIs
<1>8. PICK p : /\ IsPermutation(p, m) /\ S = [r \in 1 .. m |-> all[p[r]]]
               /\ \A r \in 1 .. m : p[r] \in 1 .. m
               /\ \A r, s \in 1 .. m : r <= s => <<p[r], p[s]>> \in T
  <2>1. IsOrder(T, m)
    BY <1>1, LessTotal
  <2> HIDE DEF T
  <2> QED BY <1>7, <2>1, RankSortedIs
<1>9. ASSUME NEW r \in 1 .. m, NEW s \in 1 .. m, r <= s
      PROVE  /\ S[r].shard <= S[s].shard
             /\ S[r].shard = S[s].shard => S[r].flag <= S[s].flag
             /\ S[r].shard = S[s].shard /\ S[r].flag = S[s].flag => S[r].key <= S[s].key
             /\ S[r].shard = S[s].shard /\ S[r].flag = S[s].flag /\ S[r].key = S[s].key
                   /\ type = "insert" => S[s].pos <= S[r].pos
  <2>1. PICK x, y \in 1 .. m : x = p[r] /\ y = p[s] /\ S[r] = all[x] /\ S[s] = all[y]
    BY <1>8
  <2>2. Less(x, y) \/ (x <= y /\ ~Less(y, x))
    <3>1. <<x, y>> \in T
      BY <1>8, <1>9, <2>1
    <3> HIDE DEF Less, T
    <3> QED BY <1>6, <3>1
  <2>3. /\ a[x] \in Int /\ b[x] \in Int /\ c[x] \in Int /\ d[x] \in Int
        /\ a[y] \in Int /\ b[y] \in Int /\ c[y] \in Int /\ d[y] \in Int
    BY <1>1
  <2>4. /\ a[x] <= a[y] /\ (a[x] = a[y] => b[x] <= b[y]) /\ (a[x] = a[y] /\ b[x] = b[y] => c[x] <= c[y])
        /\ a[x] = a[y] /\ b[x] = b[y] /\ c[x] = c[y] => d[x] <= d[y]
    BY <2>2, <2>3 DEF Less4
  <2>5. /\ a[x] = S[r].shard /\ b[x] = S[r].flag /\ c[x] = S[r].key
        /\ a[y] = S[s].shard /\ b[y] = S[s].flag /\ c[y] = S[s].key
        /\ type = "insert" => d[x] = -S[r].pos /\ d[y] = -S[s].pos
    BY <2>1 DEF a, b, c, d, Newest
  <2>6. S[r].pos \in Nat /\ S[s].pos \in Nat
    BY <2>1
  <2> QED BY <2>4, <2>5, <2>6
<1>10. InRequestOrder(S, m, type)
  BY <1>9 DEF InRequestOrder
<1>11. Permuted(S, all, p, m)
  BY <1>8 DEF Permuted
<1> QED BY <1>3, <1>10, <1>11

-----------------------------------------------------------------------------
(* An iteration of the pass over sorted requests. *)
KeptStep(v, prev, r, b) ==
    LET n == IF r.shard # prev.shard THEN 0 ELSE v.count
    IN  IF keep_request(prev, r, n, b) THEN [count |-> n + 1, out |-> Append(v.out, r)]
        ELSE [count |-> n, out |-> v.out]

(* The iterations as a function. *)
LEMMA KeptSteps ==
    ASSUME NEW N \in Nat \ {0}, NEW S, IsSeq(S, N), NEW b
    PROVE  \E f : /\ kept(S, b) = f[N].out /\ f[1] = [count |-> 1, out |-> <<S[1]>>]
                  /\ \A i \in 1 .. N - 1 : f[i + 1] = KeptStep(f[i], S[i], S[i + 1], b)
<1> DEFINE c0 == [count |-> 1, out |-> <<S[1]>>]
           Def(v, i) == LET p == v
                            n == IF S[i].shard # S[i - 1].shard THEN 0 ELSE p.count
                        IN  IF keep_request(S[i - 1], S[i], n, b)
                            THEN [count |-> n + 1, out |-> Append(p.out, S[i])]
                            ELSE [count |-> n, out |-> p.out]
           pass[i \in 1 .. Len(S)] ==
            IF i = 1 THEN [count |-> 1, out |-> <<S[1]>>]
            ELSE LET p == pass[i - 1]
                     n == IF S[i].shard # S[i - 1].shard THEN 0 ELSE p.count
                 IN  IF keep_request(S[i - 1], S[i], n, b)
                     THEN [count |-> n + 1, out |-> Append(p.out, S[i])]
                     ELSE [count |-> n, out |-> p.out]
<1>1. Len(S) = N
  BY SeqIs
<1>2. FiniteNatInductiveDefConclusion(pass, c0, Def, 1, Len(S))
  <2>1. FiniteNatInductiveDefHypothesis(pass, c0, Def, 1, Len(S))
    BY DEF FiniteNatInductiveDefHypothesis
  <2>2. Len(S) \in Nat /\ 1 \in Nat
    BY <1>1
  <2> HIDE DEF pass, c0, Def
  <2> QED BY <2>1, <2>2, FiniteNatInductiveDef
<1>3. pass = [i \in 1 .. Len(S) |-> IF i = 1 THEN c0 ELSE Def(pass[i - 1], i)]
  BY <1>2 DEF FiniteNatInductiveDefConclusion
<1>4. S # << >>
  BY <1>1
<1>5. kept(S, b) = pass[Len(S)].out
  BY <1>4 DEF kept
<1>6. \A v : \A i : Def(v, i) = KeptStep(v, S[i - 1], S[i], b)
  BY DEF KeptStep
<1> HIDE DEF pass, Def
<1>7. pass = [i \in 1 .. N |-> IF i = 1 THEN c0 ELSE Def(pass[i - 1], i)]
  BY <1>1, <1>3
<1>8. pass[1] = c0
  <2>1. 1 \in 1 .. N
    OBVIOUS
  <2> HIDE DEF c0
  <2> QED BY <2>1, <1>7, Zenon
<1>9. ASSUME NEW i \in 1 .. N - 1 PROVE pass[i + 1] = KeptStep(pass[i], S[i], S[i + 1], b)
  <2>1. i + 1 \in 1 .. N /\ i + 1 # 1 /\ (i + 1) - 1 = i
    OBVIOUS
  <2>2. pass[i + 1] = Def(pass[(i + 1) - 1], i + 1)
    BY <2>1, <1>7, Zenon
  <2>3. pass[i + 1] = Def(pass[i], i + 1)
    BY <2>1, <2>2
  <2>4. Def(pass[i], i + 1) = KeptStep(pass[i], S[(i + 1) - 1], S[i + 1], b)
    BY <1>6
  <2> QED BY <2>1, <2>3, <2>4
<1>10. kept(S, b) = pass[N].out
  BY <1>1, <1>5
<1> HIDE DEF c0
<1> QED BY <1>8, <1>9, <1>10 DEF c0

-----------------------------------------------------------------------------
(* The requests with (0) or without (1) a key for a shard. *)
Group(S, i, sh, f) == {j \in 1 .. i : S[j].shard = sh /\ S[j].flag = f}

(* What sorting makes of the requests: each shard's are together, first the *)
(* client's by their keys, at most b, then b without a key.                 *)
Grouped(S, N, b) ==
    /\ \A j \in 1 .. N : /\ S[j].shard \in Nat /\ S[j].flag \in {0, 1} /\ S[j].key \in Nat
                         /\ S[j].flag = 1 => S[j].key = 0 /\ S[j].shard < NUM_SHARDS
    /\ \A r, s \in 1 .. N : r <= s =>
          /\ S[r].shard <= S[s].shard
          /\ S[r].shard = S[s].shard => S[r].flag <= S[s].flag
          /\ S[r].shard = S[s].shard /\ S[r].flag = S[s].flag => S[r].key <= S[s].key
    /\ \A r, s \in 1 .. N : S[r].key = S[s].key /\ S[r].key # 0 => S[r].shard = S[s].shard
    /\ \A sh \in Shards : Cardinality(Group(S, N, sh, 1)) = b /\ Cardinality(Group(S, N, sh, 0)) <= b

(* A request is the first with its key. *)
First(S, j) == \A k \in 1 .. j - 1 : S[k].key = S[j].key => S[j].key = 0

(* The requests with a key are together. *)
LEMMA RunIs ==
    ASSUME NEW N \in Nat, NEW b, NEW S, Grouped(S, N, b), NEW s \in 1 .. N, NEW k \in 1 .. s - 1,
           S[k].key = S[s].key, S[s].key # 0
    PROVE  S[s - 1].key = S[s].key /\ S[s - 1].shard = S[s].shard
<1>1. k \in 1 .. N /\ s - 1 \in 1 .. N /\ k <= s - 1 /\ s - 1 <= s /\ k <= s
  OBVIOUS
<1>2. S[k].shard = S[s].shard
  BY <1>1 DEF Grouped
<1>3. /\ S[k].shard \in Nat /\ S[s - 1].shard \in Nat /\ S[k].flag \in Nat /\ S[s - 1].flag \in Nat
      /\ S[k].key \in Nat /\ S[s - 1].key \in Nat
      /\ S[s].flag = 0 /\ S[k].flag = 0
  BY <1>1 DEF Grouped
<1>4. S[k].shard <= S[s - 1].shard /\ S[s - 1].shard <= S[s].shard
  BY <1>1 DEF Grouped
<1>5. S[s - 1].shard = S[s].shard /\ S[s - 1].shard = S[k].shard
  BY <1>2, <1>3, <1>4
<1>6. S[s - 1].flag <= S[s].flag
  BY <1>1, <1>5 DEF Grouped
<1>7. S[s - 1].flag = 0
  BY <1>3, <1>6
<1>8. S[k].key <= S[s - 1].key /\ S[s - 1].key <= S[s].key
  BY <1>1, <1>3, <1>5, <1>7 DEF Grouped
<1> QED BY <1>3, <1>5, <1>8

(* A group grows by the requests that belong to it. *)
LEMMA GroupStep ==
    ASSUME NEW S, NEW i \in Nat, NEW sh, NEW f
    PROVE  /\ IsFiniteSet(Group(S, i, sh, f)) /\ Cardinality(Group(S, i, sh, f)) \in Nat
           /\ S[i + 1].shard = sh /\ S[i + 1].flag = f =>
                 Cardinality(Group(S, i + 1, sh, f)) = Cardinality(Group(S, i, sh, f)) + 1
           /\ ~(S[i + 1].shard = sh /\ S[i + 1].flag = f) => Group(S, i + 1, sh, f) = Group(S, i, sh, f)
<1>1. IsFiniteSet(1 .. i)
  <2>1. 1 \in Int /\ i \in Int
    OBVIOUS
  <2> QED BY <2>1, FS_Interval
<1>2. Group(S, i, sh, f) \in SUBSET (1 .. i)
  BY DEF Group
<1>3. IsFiniteSet(Group(S, i, sh, f))
  BY <1>1, <1>2, FS_Subset
<1>4. Cardinality(Group(S, i, sh, f)) \in Nat
  BY <1>3, FS_CardinalityType
<1>5. \A j : j \in 1 .. i + 1 <=> j \in 1 .. i \/ j = i + 1
  OBVIOUS
<1>6. ASSUME S[i + 1].shard = sh /\ S[i + 1].flag = f
      PROVE  Cardinality(Group(S, i + 1, sh, f)) = Cardinality(Group(S, i, sh, f)) + 1
  <2>1. Group(S, i + 1, sh, f) = Group(S, i, sh, f) \cup {i + 1}
    BY <1>5, <1>6 DEF Group
  <2>2. i + 1 \notin Group(S, i, sh, f)
    BY DEF Group
  <2> QED BY <1>3, <2>1, <2>2, FS_AddElement
<1>7. ASSUME ~(S[i + 1].shard = sh /\ S[i + 1].flag = f)
      PROVE  Group(S, i + 1, sh, f) = Group(S, i, sh, f)
  BY <1>5, <1>7 DEF Group
<1> QED BY <1>3, <1>4, <1>6, <1>7

(* A group is part of the whole. *)
LEMMA GroupBound ==
    ASSUME NEW S, NEW N \in Nat, NEW i \in 0 .. N, NEW sh, NEW f
    PROVE  Cardinality(Group(S, i, sh, f)) <= Cardinality(Group(S, N, sh, f))
<1>1. Group(S, i, sh, f) \in SUBSET Group(S, N, sh, f)
  BY DEF Group
<1>2. IsFiniteSet(Group(S, N, sh, f))
  BY GroupStep
<1> QED BY <1>1, <1>2, FS_Subset

-----------------------------------------------------------------------------
(* The count of a shard's requests so far, and the length of the output. *)
KeptCount(n, L, S, i, b) ==
    LET sh == S[i].shard
    IN  /\ sh < NUM_SHARDS =>
              /\ n \in 1 .. b /\ L = sh * b + n
              /\ S[i].flag = 0 => n <= Cardinality(Group(S, i, sh, 0))
              /\ S[i].flag = 1 => n = b \/ n >= Cardinality(Group(S, i, sh, 1))
        /\ sh >= NUM_SHARDS => L >= NUM_SHARDS * b

(* The output so far: first requests, each at a place of its shard, and one *)
(* for every key.                                                           *)
KeptOut(out, L, S, i, b) ==
    /\ \A x \in 1 .. L : x <= NUM_SHARDS * b =>
          \E j \in 1 .. i : /\ out[x] = S[j] /\ First(S, j) /\ S[j].shard < NUM_SHARDS
                            /\ S[j].shard * b < x /\ x <= S[j].shard * b + b
    /\ \A x, y \in 1 .. L : x <= NUM_SHARDS * b /\ y <= NUM_SHARDS * b =>
          (out[x].key = out[y].key /\ out[x].key # 0 => x = y)
    /\ \A j \in 1 .. i : S[j].key # 0 /\ S[j].shard < NUM_SHARDS =>
          \E x \in 1 .. L : x <= NUM_SHARDS * b /\ out[x].key = S[j].key
KeptInv(v, S, i, b) ==
    \E L \in Nat : IsSeq(v.out, L) /\ KeptCount(v.count, L, S, i, b) /\ KeptOut(v.out, L, S, i, b)

(* What is kept is the first with its key. *)
LEMMA KeptFirst ==
    ASSUME NEW N \in Nat, NEW b, NEW S, Grouped(S, N, b), NEW i \in 1 .. N - 1, NEW n,
           keep_request(S[i], S[i + 1], n, b)
    PROVE  First(S, i + 1)
<1> SUFFICES ASSUME NEW k \in 1 .. (i + 1) - 1, S[k].key = S[i + 1].key, S[i + 1].key # 0 PROVE FALSE
  BY DEF First
<1>1. i + 1 \in 1 .. N /\ (i + 1) - 1 = i
  OBVIOUS
<1>2. S[(i + 1) - 1].key = S[i + 1].key /\ S[(i + 1) - 1].shard = S[i + 1].shard
  BY <1>1, RunIs
<1> QED BY <1>1, <1>2 DEF keep_request

(* Every shard has requests without a key; the last one of a shard is such. *)
LEMMA GroupEnd ==
    ASSUME NEW N \in Nat, NEW b \in Nat \ {0}, NEW S, Grouped(S, N, b), NEW sh \in Shards
    PROVE  \E j \in 1 .. N : S[j].shard = sh /\ S[j].flag = 1
<1>1. Cardinality(Group(S, N, sh, 1)) = b /\ IsFiniteSet(Group(S, N, sh, 1))
  BY GroupStep DEF Grouped
<1>2. Group(S, N, sh, 1) # {}
  BY <1>1, FS_EmptySet
<1> QED BY <1>2 DEF Group

(* The step to the next shard. *)
LEMMA ShardChange ==
    ASSUME NEW N \in Nat, NEW b \in Nat \ {0}, NEW S, Grouped(S, N, b), NEW i \in 1 .. N - 1,
           NEW n, NEW L \in Nat, KeptCount(n, L, S, i, b), S[i].shard < NUM_SHARDS, S[i].shard # S[i + 1].shard
    PROVE  /\ n = b /\ L = (S[i].shard + 1) * b
           /\ S[i].shard + 1 < NUM_SHARDS => S[i + 1].shard = S[i].shard + 1
           /\ S[i + 1].shard > S[i].shard
<1> DEFINE sh == S[i].shard
<1>1. NUM_SHARDS \in Nat /\ i \in 1 .. N /\ i + 1 \in 1 .. N /\ sh \in Nat /\ S[i + 1].shard \in Nat
  BY ShardSetAssumption DEF Grouped
<1>2. sh \in Shards
  BY <1>1 DEF Shards
<1>3. S[i + 1].shard > sh
  <2>1. sh <= S[i + 1].shard
    BY <1>1 DEF Grouped
  <2> QED BY <2>1, <1>1
<1>4. ASSUME NEW j \in 1 .. N, S[j].shard = sh PROVE j <= i
  <2>1. CASE j >= i + 1
    <3>1. S[i + 1].shard <= S[j].shard
      BY <1>1, <2>1 DEF Grouped
    <3> QED BY <3>1, <1>1, <1>3, <1>4
  <2> QED BY <2>1, <1>1
<1>5. Group(S, N, sh, 1) = Group(S, i, sh, 1)
  BY <1>4, <1>1 DEF Group
<1>6. S[i].flag = 1
  <2>1. PICK j \in 1 .. N : S[j].shard = sh /\ S[j].flag = 1
    BY <1>2, GroupEnd
  <2>2. j <= i
    BY <1>4, <2>1
  <2>3. S[j].flag <= S[i].flag
    BY <2>1, <2>2, <1>1 DEF Grouped
  <2>4. S[i].flag \in {0, 1}
    BY <1>1 DEF Grouped
  <2> QED BY <2>1, <2>3, <2>4
<1>7. Cardinality(Group(S, i, sh, 1)) = b
  BY <1>2, <1>5 DEF Grouped
<1>8. n \in 1 .. b /\ L = sh * b + n /\ (n = b \/ n >= b)
  BY <1>6, <1>7 DEF KeptCount
<1>9. n = b
  BY <1>8
<1>10. (sh + 1) * b = sh * b + b
  BY <1>1
<1>11. ASSUME sh + 1 < NUM_SHARDS PROVE S[i + 1].shard = sh + 1
  <2>1. sh + 1 \in Shards
    BY <1>1, <1>11 DEF Shards
  <2>2. PICK j \in 1 .. N : S[j].shard = sh + 1
    BY <2>1, GroupEnd
  <2>3. j > i
    <3>1. CASE j <= i
      <4>1. S[j].shard <= sh
        BY <3>1, <1>1 DEF Grouped
      <4> QED BY <4>1, <2>2, <1>1
    <3> QED BY <3>1, <1>1
  <2>4. S[i + 1].shard <= S[j].shard
    BY <2>3, <1>1 DEF Grouped
  <2> QED BY <2>2, <2>4, <1>1, <1>3
<1> QED BY <1>3, <1>8, <1>9, <1>10, <1>11

(* No request of a shard, or none without a key, has been seen. *)
LEMMA GroupNone ==
    ASSUME NEW N \in Nat, NEW b, NEW S, Grouped(S, N, b), NEW i \in 1 .. N - 1,
           S[i].shard # S[i + 1].shard \/ S[i].flag = 0
    PROVE  Cardinality(Group(S, i, S[i + 1].shard, 1)) = 0
<1> DEFINE sh == S[i + 1].shard
<1>1. i \in 1 .. N /\ i + 1 \in 1 .. N /\ S[i].shard \in Nat /\ sh \in Nat /\ S[i].shard <= sh
  BY DEF Grouped
<1>2. ASSUME NEW j \in 1 .. i, S[j].shard = sh, S[j].flag = 1 PROVE FALSE
  <2>1. j \in 1 .. N /\ j <= i
    OBVIOUS
  <2>2. S[j].shard <= S[i].shard
    BY <2>1, <1>1 DEF Grouped
  <2>3. S[i].shard = sh
    BY <2>2, <1>1, <1>2
  <2>4. S[j].flag <= S[i].flag
    BY <2>1, <2>3, <1>1, <1>2 DEF Grouped
  <2> QED BY <2>3, <2>4, <1>2
<1>3. Group(S, i, sh, 1) = {}
  BY <1>2 DEF Group
<1> QED BY <1>3, FS_EmptySet

(* The requests for no shard come when the shards have theirs. *)
LEMMA PastEnd ==
    ASSUME NEW N \in Nat, NEW b \in Nat \ {0}, NEW S, Grouped(S, N, b), NEW i \in 1 .. N - 1,
           NEW n, NEW L \in Nat, KeptCount(n, L, S, i, b), S[i + 1].shard >= NUM_SHARDS
    PROVE  L >= NUM_SHARDS * b
<1> DEFINE sh == S[i].shard
           t == S[i + 1].shard
<1>1. NUM_SHARDS \in Nat /\ i \in 1 .. N /\ i + 1 \in 1 .. N /\ sh \in Nat /\ t \in Nat
  BY ShardSetAssumption DEF Grouped
<1>2. CASE sh >= NUM_SHARDS
  BY <1>2 DEF KeptCount
<1>3. CASE sh < NUM_SHARDS
  <2>1. sh # t
    BY <1>3, <1>1
  <2>2. L = (sh + 1) * b
    BY <2>1, <1>3, ShardChange
  <2>3. sh + 1 < NUM_SHARDS => t = sh + 1
    BY <2>1, <1>3, ShardChange
  <2>4. t >= NUM_SHARDS
    OBVIOUS
  <2>5. sh + 1 = NUM_SHARDS
    <3> HIDE DEF sh, t
    <3> QED BY <2>3, <2>4, <1>3, <1>1
  <2>6. NUM_SHARDS * b \in Nat
    BY <1>1
  <2> QED BY <2>2, <2>5, <2>6
<1> QED BY <1>1, <1>2, <1>3

(* How the count goes on. *)
LEMMA CountStep ==
    ASSUME NEW N \in Nat, NEW b \in Nat \ {0}, NEW S, Grouped(S, N, b), NEW i \in 1 .. N - 1,
           NEW n, NEW L \in Nat, KeptCount(n, L, S, i, b), NEW m,
           m = IF S[i + 1].shard # S[i].shard THEN 0 ELSE n
    PROVE  /\ keep_request(S[i], S[i + 1], m, b) => KeptCount(m + 1, L + 1, S, i + 1, b)
           /\ ~keep_request(S[i], S[i + 1], m, b) => KeptCount(m, L, S, i + 1, b)
<1> DEFINE sh == S[i].shard
           t == S[i + 1].shard
           f == S[i + 1].flag
           C(k, g) == Cardinality(Group(S, k, t, g))
<1>1. /\ NUM_SHARDS \in Nat /\ i \in 1 .. N /\ i + 1 \in 1 .. N /\ sh \in Nat /\ t \in Nat
      /\ f \in {0, 1} /\ S[i].flag \in {0, 1} /\ S[i + 1].key \in Nat /\ S[i].key \in Nat
      /\ f = 1 => S[i + 1].key = 0
  BY ShardSetAssumption DEF Grouped
<1>2. /\ sh <= t
      /\ sh = t => S[i].flag <= f
  BY <1>1 DEF Grouped
<1>3. NUM_SHARDS * b \in Nat
  BY <1>1
<1>4. /\ C(i, 0) \in Nat /\ C(i, 1) \in Nat
      /\ f = 0 => C(i + 1, 0) = C(i, 0) + 1
      /\ f = 1 => C(i + 1, 1) = C(i, 1) + 1
      /\ f = 0 => C(i + 1, 1) = C(i, 1)
      /\ f = 1 => C(i + 1, 0) = C(i, 0)
  <2>1. i \in Nat
    OBVIOUS
  <2> QED BY <2>1, GroupStep
<1>5. sh # t \/ S[i].flag = 0 => C(i, 1) = 0
  BY GroupNone
<1>6. CASE t >= NUM_SHARDS
  <2>1. L >= NUM_SHARDS * b
    BY <1>6, PastEnd
  <2>2. L + 1 >= NUM_SHARDS * b
    BY <2>1, <1>3
  <2> QED BY <2>1, <2>2, <1>6, <1>1 DEF KeptCount
<1>7. CASE t < NUM_SHARDS /\ sh # t
  <2>1. sh < NUM_SHARDS
    BY <1>7, <1>1, <1>2
  <2>2. L = (sh + 1) * b /\ (sh + 1 < NUM_SHARDS => t = sh + 1) /\ t > sh
    BY <2>1, <1>7, ShardChange
  <2>3. t = sh + 1 /\ L = t * b
    BY <2>2, <1>7, <1>1
  <2>4. keep_request(S[i], S[i + 1], m, b) /\ m = 0
    BY <1>7 DEF keep_request
  <2>5. C(i, 1) = 0
    BY <1>5, <1>7
  <2>6. 1 \in 1 .. b /\ L + 1 = t * b + 1
    BY <2>3
  <2>7. (f = 0 => 1 <= C(i + 1, 0)) /\ (f = 1 => 1 >= C(i + 1, 1))
    BY <1>4, <2>5
  <2>8. KeptCount(1, L + 1, S, i + 1, b)
    BY <2>6, <2>7, <1>7, <1>1 DEF KeptCount
  <2> QED BY <2>4, <2>8
<1>8. CASE t < NUM_SHARDS /\ sh = t
  <2>1. /\ n \in 1 .. b /\ L = t * b + n /\ m = n
        /\ S[i].flag = 0 => n <= C(i, 0)
        /\ S[i].flag = 1 => n = b \/ n >= C(i, 1)
    BY <1>8 DEF KeptCount
  <2>2. t * b \in Nat
    BY <1>1
  <2>3. f = 0 => S[i].flag = 0
    BY <1>1, <1>2, <1>8
  <2>4. ASSUME keep_request(S[i], S[i + 1], m, b) PROVE KeptCount(m + 1, L + 1, S, i + 1, b)
    <3>1. n < b
      BY <2>4, <2>1, <1>8 DEF keep_request
    <3>2. n + 1 \in 1 .. b /\ L + 1 = t * b + (n + 1)
      BY <3>1, <2>1, <2>2
    <3>3. f = 0 => n + 1 <= C(i + 1, 0)
      BY <2>1, <2>3, <1>4
    <3>4. f = 1 => n + 1 >= C(i + 1, 1)
      BY <2>1, <3>1, <1>1, <1>4, <1>5
    <3> QED BY <3>2, <3>3, <3>4, <2>1, <1>8, <1>1 DEF KeptCount
  <2>5. ASSUME ~keep_request(S[i], S[i + 1], m, b) PROVE KeptCount(m, L, S, i + 1, b)
    <3>1. f = 1 => n = b
      BY <2>5, <2>1, <1>1 DEF keep_request
    <3>2. f = 0 => n <= C(i + 1, 0)
      BY <2>1, <2>3, <1>4
    <3> QED BY <3>1, <3>2, <2>1, <1>8, <1>1 DEF KeptCount
  <2> QED BY <2>4, <2>5
<1> QED BY <1>1, <1>6, <1>7, <1>8

(* A request that is kept. *)
LEMMA OutAppended ==
    ASSUME NEW N \in Nat, NEW b \in Nat \ {0}, NEW S, Grouped(S, N, b), NEW i \in 1 .. N - 1,
           NEW out, NEW L \in Nat, IsSeq(out, L), KeptOut(out, L, S, i, b), First(S, i + 1),
           NEW n, KeptCount(n, L + 1, S, i + 1, b), S[i + 1].shard >= NUM_SHARDS => L >= NUM_SHARDS * b
    PROVE  KeptOut(Added(out, S[i + 1]), L + 1, S, i + 1, b)
<1> DEFINE M == NUM_SHARDS * b
           r == S[i + 1]
           At(j, x) == S[j].shard * b < x /\ x <= S[j].shard * b + b
<1>1. NUM_SHARDS \in Nat /\ M \in Nat /\ i + 1 \in 1 .. N /\ r.shard \in Nat /\ r.shard * b \in Nat
  <2>1. NUM_SHARDS \in Nat /\ i + 1 \in 1 .. N
    BY ShardSetAssumption
  <2>2. r.shard \in Nat
    BY <2>1 DEF Grouped
  <2> QED BY <2>1, <2>2
<1>2. PICK o : o = Added(out, r) /\ IsSeq(o, L + 1) /\ o[L + 1] = r /\ \A x \in 1 .. L : o[x] = out[x]
  <2> HIDE DEF r
  <2>1. IsSeq(Added(out, r), L + 1) /\ Added(out, r)[L + 1] = r /\ \A x \in 1 .. L : Added(out, r)[x] = out[x]
    BY AppendIs
  <2> QED BY <2>1
<1>3. \A x : x \in 1 .. L + 1 <=> x \in 1 .. L \/ x = L + 1
  OBVIOUS
<1>4. \A j : j \in 1 .. i + 1 <=> j \in 1 .. i \/ j = i + 1
  OBVIOUS
<1>5. r.shard < NUM_SHARDS => At(i + 1, L + 1) /\ L + 1 <= M
  <2>1. SUFFICES ASSUME r.shard < NUM_SHARDS PROVE At(i + 1, L + 1) /\ L + 1 <= M
    OBVIOUS
  <2>2. n \in 1 .. b /\ L + 1 = r.shard * b + n
    BY <2>1 DEF KeptCount
  <2>3. (r.shard + 1) * b <= M
    <3>1. r.shard + 1 <= NUM_SHARDS /\ r.shard + 1 \in Int /\ NUM_SHARDS \in Int /\ b \in Nat
      BY <2>1, <1>1
    <3> QED BY <3>1, TimesGrows
  <2>4. (r.shard + 1) * b = r.shard * b + b
    BY <1>1
  <2> HIDE DEF r, M
  <2> QED BY <2>2, <2>3, <2>4, <1>1 DEF r
<1>6. r.shard >= NUM_SHARDS => ~(L + 1 <= M)
  BY <1>1
<1>7. L + 1 <= M => r.shard < NUM_SHARDS /\ At(i + 1, L + 1)
  BY <1>1, <1>5, <1>6
<1>8. /\ \A x \in 1 .. L : x <= M => \E j \in 1 .. i :
                out[x] = S[j] /\ First(S, j) /\ S[j].shard < NUM_SHARDS /\ At(j, x)
      /\ \A x, y \in 1 .. L : x <= M /\ y <= M /\ out[x].key = out[y].key /\ out[x].key # 0 => x = y
      /\ \A j \in 1 .. i : S[j].key # 0 /\ S[j].shard < NUM_SHARDS =>
            \E x \in 1 .. L : x <= M /\ out[x].key = S[j].key
  BY DEF KeptOut
<1>9. ASSUME NEW x \in 1 .. L, x <= M, out[x].key = r.key, r.key # 0 PROVE FALSE
  <2>1. PICK j \in 1 .. i : out[x] = S[j]
    BY <1>8, <1>9
  <2>2. j \in 1 .. (i + 1) - 1
    OBVIOUS
  <2> QED BY <2>1, <2>2, <1>9 DEF First
<1> HIDE DEF r, At, M
<1>10. ASSUME NEW x \in 1 .. L + 1, x <= M
       PROVE  \E j \in 1 .. i + 1 : o[x] = S[j] /\ First(S, j) /\ S[j].shard < NUM_SHARDS /\ At(j, x)
  <2>1. CASE x \in 1 .. L
    BY <2>1, <1>2, <1>4, <1>8, <1>10
  <2>2. CASE x = L + 1
    <3>1. i + 1 \in 1 .. i + 1 /\ o[x] = S[i + 1] /\ S[i + 1].shard < NUM_SHARDS /\ At(i + 1, x)
      BY <2>2, <1>2, <1>4, <1>7, <1>10 DEF r
    <3> QED BY <3>1
  <2> QED BY <2>1, <2>2, <1>3
<1>11. ASSUME NEW x \in 1 .. L + 1, NEW y \in 1 .. L + 1, x <= M, y <= M, o[x].key = o[y].key, o[x].key # 0
       PROVE  x = y
  BY <1>2, <1>3, <1>8, <1>9, <1>11
<1>12. ASSUME NEW j \in 1 .. i + 1, S[j].key # 0, S[j].shard < NUM_SHARDS
       PROVE  \E x \in 1 .. L + 1 : x <= M /\ o[x].key = S[j].key
  <2>1. CASE j \in 1 .. i
    <3>1. PICK x \in 1 .. L : x <= M /\ out[x].key = S[j].key
      BY <2>1, <1>8, <1>12
    <3> QED BY <3>1, <1>2, <1>3
  <2>2. CASE j = i + 1
    <3>1. L + 1 \in 1 .. L + 1 /\ L + 1 <= M /\ o[L + 1].key = S[j].key
      BY <2>2, <1>2, <1>3, <1>5, <1>12 DEF r
    <3> QED BY <3>1
  <2> QED BY <2>1, <2>2, <1>4
<1>13. \A x \in 1 .. L + 1 : x <= NUM_SHARDS * b =>
          \E j \in 1 .. i + 1 : /\ o[x] = S[j] /\ First(S, j) /\ S[j].shard < NUM_SHARDS
                                /\ S[j].shard * b < x /\ x <= S[j].shard * b + b
  BY <1>10 DEF M, At
<1>14. \A x, y \in 1 .. L + 1 : x <= NUM_SHARDS * b /\ y <= NUM_SHARDS * b =>
          (o[x].key = o[y].key /\ o[x].key # 0 => x = y)
  BY <1>11 DEF M
<1>15. \A j \in 1 .. i + 1 : S[j].key # 0 /\ S[j].shard < NUM_SHARDS =>
          \E x \in 1 .. L + 1 : x <= NUM_SHARDS * b /\ o[x].key = S[j].key
  BY <1>12 DEF M
<1>16. KeptOut(o, L + 1, S, i + 1, b)
  BY <1>13, <1>14, <1>15 DEF KeptOut
<1> QED BY <1>2, <1>16 DEF r

(* A request that is not kept. *)
LEMMA OutSkipped ==
    ASSUME NEW N \in Nat, NEW b \in Nat \ {0}, NEW S, Grouped(S, N, b), NEW i \in 1 .. N - 1,
           NEW out, NEW L \in Nat, KeptOut(out, L, S, i, b), NEW n, KeptCount(n, L, S, i, b),
           ~keep_request(S[i], S[i + 1], IF S[i + 1].shard # S[i].shard THEN 0 ELSE n, b)
    PROVE  KeptOut(out, L, S, i + 1, b)
<1> DEFINE r == S[i + 1]
<1>1. /\ NUM_SHARDS \in Nat /\ i \in 1 .. N /\ i + 1 \in 1 .. N /\ r.shard \in Nat /\ S[i].flag \in {0, 1}
      /\ r.flag \in {0, 1} /\ (r.flag = 1 => r.key = 0)
  BY ShardSetAssumption DEF Grouped
<1>2. r.shard = S[i].shard /\ (~(n < b) \/ (r.key # 0 /\ r.key = S[i].key))
  BY DEF keep_request
<1>3. \A j : j \in 1 .. i + 1 <=> j \in 1 .. i \/ j = i + 1
  OBVIOUS
<1>4. ASSUME r.key # 0, r.shard < NUM_SHARDS
      PROVE  \E x \in 1 .. L : x <= NUM_SHARDS * b /\ out[x].key = r.key
  <2>1. r.key = S[i].key
    <3>1. r.flag = 0
      BY <1>1, <1>4
    <3>2. S[i].flag <= r.flag
      BY <1>1, <1>2 DEF Grouped
    <3>3. S[i].flag = 0
      BY <3>1, <3>2, <1>1
    <3>4. n \in 1 .. b /\ n <= Cardinality(Group(S, i, r.shard, 0))
      BY <3>3, <1>2, <1>4 DEF KeptCount
    <3>5. /\ Cardinality(Group(S, i, r.shard, 0)) \in Nat
          /\ Cardinality(Group(S, i + 1, r.shard, 0)) = Cardinality(Group(S, i, r.shard, 0)) + 1
      <4>1. i \in Nat
        OBVIOUS
      <4> QED BY <4>1, <3>1, GroupStep
    <3>6. Cardinality(Group(S, i + 1, r.shard, 0)) <= Cardinality(Group(S, N, r.shard, 0))
      <4>1. i + 1 \in 0 .. N
        OBVIOUS
      <4> QED BY <4>1, GroupBound
    <3>7. r.shard \in Shards
      BY <1>1, <1>4 DEF Shards
    <3>8. Cardinality(Group(S, N, r.shard, 0)) <= b
      BY <3>7 DEF Grouped
    <3>9. Cardinality(Group(S, N, r.shard, 0)) \in Nat
      BY GroupStep
    <3>10. n < b
      BY <3>4, <3>5, <3>6, <3>8, <3>9
    <3> QED BY <3>10, <1>2
  <2>2. i \in 1 .. i
    OBVIOUS
  <2> QED BY <2>1, <2>2, <1>2, <1>4 DEF KeptOut
<1> QED BY <1>3, <1>4 DEF KeptOut

(* An iteration. *)
LEMMA KeptInvStep ==
    ASSUME NEW N \in Nat, NEW b \in Nat \ {0}, NEW S, Grouped(S, N, b), NEW i \in 1 .. N - 1,
           NEW v, KeptInv(v, S, i, b)
    PROVE  KeptInv(KeptStep(v, S[i], S[i + 1], b), S, i + 1, b)
<1>1. PICK L \in Nat : IsSeq(v.out, L) /\ KeptCount(v.count, L, S, i, b) /\ KeptOut(v.out, L, S, i, b)
  BY DEF KeptInv
<1> DEFINE m == IF S[i + 1].shard # S[i].shard THEN 0 ELSE v.count
<1>2. CASE keep_request(S[i], S[i + 1], m, b)
  <2> DEFINE w == [count |-> m + 1, out |-> Added(v.out, S[i + 1])]
  <2>1. KeptStep(v, S[i], S[i + 1], b) = w
    BY <1>2 DEF KeptStep, Added
  <2>2. KeptCount(m + 1, L + 1, S, i + 1, b)
    BY <1>1, <1>2, CountStep
  <2>3. First(S, i + 1)
    BY <1>2, KeptFirst
  <2>4. S[i + 1].shard >= NUM_SHARDS => L >= NUM_SHARDS * b
    BY <1>1, PastEnd
  <2> HIDE DEF m
  <2>5. KeptOut(Added(v.out, S[i + 1]), L + 1, S, i + 1, b)
    BY <1>1, <2>2, <2>3, <2>4, OutAppended
  <2>6. IsSeq(Added(v.out, S[i + 1]), L + 1)
    BY <1>1, AppendIs
  <2>7. w.count = m + 1 /\ w.out = Added(v.out, S[i + 1]) /\ L + 1 \in Nat
    OBVIOUS
  <2> QED BY <2>1, <2>2, <2>5, <2>6, <2>7 DEF KeptInv
<1>3. CASE ~keep_request(S[i], S[i + 1], m, b)
  <2> DEFINE w == [count |-> m, out |-> v.out]
  <2>1. KeptStep(v, S[i], S[i + 1], b) = w
    BY <1>3 DEF KeptStep
  <2>2. KeptCount(m, L, S, i + 1, b)
    BY <1>1, <1>3, CountStep
  <2>3. KeptOut(v.out, L, S, i + 1, b)
    BY <1>1, <1>3, OutSkipped
  <2> HIDE DEF m
  <2>4. w.count = m /\ w.out = v.out
    OBVIOUS
  <2> QED BY <2>1, <2>2, <2>3, <2>4, <1>1 DEF KeptInv
<1> QED BY <1>2, <1>3

(* The first request is for shard 0. *)
LEMMA KeptInvInit ==
    ASSUME NEW N \in Nat, NEW b \in Nat \ {0}, NEW S, Grouped(S, N, b)
    PROVE  N >= 1 /\ KeptInv([count |-> 1, out |-> <<S[1]>>], S, 1, b)
<1> DEFINE v == [count |-> 1, out |-> <<S[1]>>]
           C(k, g) == Cardinality(Group(S, k, 0, g))
<1>1. NUM_SHARDS \in Nat \ {0} /\ 0 \in Shards
  BY ShardSetAssumption DEF Shards
<1>2. PICK j \in 1 .. N : S[j].shard = 0
  BY <1>1, GroupEnd
<1>3. 1 \in 1 .. N /\ N >= 1 /\ 1 <= j
  OBVIOUS
<1>4. S[1].shard \in Nat /\ S[1].flag \in {0, 1} /\ S[1].shard <= S[j].shard
  BY <1>3 DEF Grouped
<1>5. S[1].shard = 0
  BY <1>2, <1>4
<1>6. (S[1].flag = 0 => C(1, 0) = 1) /\ (S[1].flag = 1 => C(1, 1) = 1)
  <2>1. 0 \in Nat /\ 0 + 1 = 1 /\ S[0 + 1] = S[1]
    OBVIOUS
  <2>2. Group(S, 0, 0, 0) = {} /\ Group(S, 0, 0, 1) = {}
    BY DEF Group
  <2>3. C(0, 0) = 0 /\ C(0, 1) = 0
    BY <2>2, FS_EmptySet
  <2>4. S[1].flag = 0 => C(1, 0) = C(0, 0) + 1
    BY <2>1, <1>5, GroupStep
  <2>5. S[1].flag = 1 => C(1, 1) = C(0, 1) + 1
    BY <2>1, <1>5, GroupStep
  <2> QED BY <2>3, <2>4, <2>5
<1>7. KeptCount(1, 1, S, 1, b)
  <2>1. 0 * b = 0 /\ 1 \in 1 .. b
    OBVIOUS
  <2> QED BY <2>1, <1>1, <1>5, <1>6 DEF KeptCount
<1>8. v.out[1] = S[1] /\ IsSeq(v.out, 1) /\ v.count = 1
  <2>1. \A e : <<e>> = [i \in 1 .. 1 |-> <<e>>[i]] /\ <<e>>[1] = e
    OBVIOUS
  <2> QED BY <2>1 DEF IsSeq
<1>9. 1 <= NUM_SHARDS * b
  <2>1. 1 * b <= NUM_SHARDS * b
    BY <1>1, TimesGrows
  <2>2. NUM_SHARDS * b \in Nat
    BY <1>1
  <2> QED BY <2>1, <2>2
<1> HIDE DEF v
<1>10. KeptOut(v.out, 1, S, 1, b)
  <2>1. \A x : x \in 1 .. 1 <=> x = 1
    OBVIOUS
  <2>2. First(S, 1)
    BY DEF First
  <2>3. S[1].shard * b < 1 /\ 1 <= S[1].shard * b + b /\ S[1].shard < NUM_SHARDS
    BY <1>1, <1>5
  <2> QED BY <2>1, <2>2, <2>3, <1>8, <1>9 DEF KeptOut
<1>11. KeptInv(v, S, 1, b)
  BY <1>7, <1>8, <1>10 DEF KeptInv
<1> QED BY <1>3, <1>11 DEF v

(* When the pass ends, every shard has its b requests. *)
LEMMA KeptInvEnd ==
    ASSUME NEW N \in Nat, NEW b \in Nat \ {0}, NEW S, Grouped(S, N, b), N >= 1,
           NEW n, NEW L \in Nat, KeptCount(n, L, S, N, b)
    PROVE  L >= NUM_SHARDS * b
<1> DEFINE sh == S[N].shard
<1>1. /\ NUM_SHARDS \in Nat \ {0} /\ NUM_SHARDS - 1 \in Shards /\ NUM_SHARDS - 1 \in Nat /\ N \in 1 .. N
  BY ShardSetAssumption DEF Shards
<1>2. sh \in Nat /\ S[N].flag \in {0, 1}
  BY <1>1 DEF Grouped
<1>3. PICK j \in 1 .. N : S[j].shard = NUM_SHARDS - 1 /\ S[j].flag = 1
  BY <1>1, GroupEnd
<1>4. S[j].shard <= sh /\ (S[j].shard = sh => S[j].flag <= S[N].flag)
  BY <1>1 DEF Grouped
<1>5. CASE sh >= NUM_SHARDS
  BY <1>5 DEF KeptCount
<1>6. CASE sh < NUM_SHARDS
  <2>1. sh = NUM_SHARDS - 1
    BY <1>1, <1>2, <1>3, <1>4, <1>6
  <2>2. S[N].flag = 1
    BY <2>1, <1>2, <1>3, <1>4
  <2>3. Cardinality(Group(S, N, sh, 1)) = b
    BY <2>1, <1>1 DEF Grouped
  <2>4. n \in 1 .. b /\ L = sh * b + n /\ (n = b \/ n >= b)
    BY <2>2, <2>3, <1>6 DEF KeptCount
  <2>5. n = b
    BY <2>4
  <2>6. (NUM_SHARDS - 1) * b + b = NUM_SHARDS * b /\ NUM_SHARDS * b \in Nat
    BY <1>1
  <2> QED BY <2>1, <2>4, <2>5, <2>6
<1> QED BY <1>1, <1>2, <1>5, <1>6

(* What the pass over grouped requests leaves. *)
LEMMA KeptIs ==
    ASSUME NEW N \in Nat, NEW b \in Nat \ {0}, NEW S, IsSeq(S, N), Grouped(S, N, b)
    PROVE  KeptOut(kept(S, b), NUM_SHARDS * b, S, N, b)
<1>1. N >= 1 /\ KeptInv([count |-> 1, out |-> <<S[1]>>], S, 1, b)
  BY KeptInvInit
<1>2. PICK f : /\ kept(S, b) = f[N].out /\ f[1] = [count |-> 1, out |-> <<S[1]>>]
               /\ \A i \in 1 .. N - 1 : f[i + 1] = KeptStep(f[i], S[i], S[i + 1], b)
  BY <1>1, KeptSteps
<1> DEFINE I == {k \in Nat : k + 1 <= N => KeptInv(f[k + 1], S, k + 1, b)}
<1>3. 0 \in I
  <2>1. f[0 + 1] = f[1] /\ 0 + 1 = 1
    OBVIOUS
  <2> QED BY <2>1, <1>1, <1>2
<1>4. ASSUME NEW k \in Nat, k \in I PROVE k + 1 \in I
  <2>1. SUFFICES ASSUME (k + 1) + 1 <= N PROVE KeptInv(f[(k + 1) + 1], S, (k + 1) + 1, b)
    BY DEF I
  <2>2. KeptInv(f[k + 1], S, k + 1, b) /\ k + 1 \in 1 .. N - 1
    BY <2>1, <1>4
  <2> QED BY <2>2, <1>2, KeptInvStep
<1>5. \A k \in Nat : k \in I
  <2> HIDE DEF I
  <2> QED BY <1>3, <1>4, SetInduction
<1>6. KeptInv(f[N], S, N, b)
  <2>1. N - 1 \in Nat /\ (N - 1) + 1 = N /\ f[(N - 1) + 1] = f[N]
    BY <1>1
  <2> QED BY <2>1, <1>5
<1>7. PICK L \in Nat : KeptCount(f[N].count, L, S, N, b) /\ KeptOut(f[N].out, L, S, N, b)
  BY <1>6 DEF KeptInv
<1>8. L >= NUM_SHARDS * b
  BY <1>1, <1>7, KeptInvEnd
<1>9. NUM_SHARDS * b \in Nat
  BY ShardSetAssumption
<1>10. \A x : x \in 1 .. NUM_SHARDS * b <=> x \in 1 .. L /\ x <= NUM_SHARDS * b
  BY <1>8, <1>9
<1>11. KeptOut(f[N].out, NUM_SHARDS * b, S, N, b)
  BY <1>7, <1>10 DEF KeptOut
<1> QED BY <1>2, <1>11

-----------------------------------------------------------------------------
(* The greatest of some numbers. *)
LEMMA GreatestNumber ==
    ASSUME NEW n \in Nat, NEW T \in SUBSET (0 .. n), T # {}
    PROVE  Max(T) \in T /\ \A y \in T : y <= Max(T)
<1> DEFINE U == {n - x : x \in T}
<1>1. U \in SUBSET Nat /\ U # {}
  <2>1. \A x \in T : n - x \in Nat
    OBVIOUS
  <2>2. PICK x \in T : TRUE
    OBVIOUS
  <2>3. n - x \in U
    BY <2>2
  <2> QED BY <2>1, <2>3
<1>2. PICK u \in U : \A y \in U : u <= y
  <2> HIDE DEF U
  <2> QED BY <1>1, LeastNumber
<1>3. PICK x \in T : u = n - x
  OBVIOUS
<1>4. \A y \in T : n - y \in U
  OBVIOUS
<1> HIDE DEF U
<1>5. \A y \in T : x >= y
  <2> TAKE y \in T
  <2>1. n - x <= n - y /\ x \in 0 .. n /\ y \in 0 .. n
    BY <1>2, <1>3, <1>4
  <2> QED BY <2>1
<1>6. Max(T) \in T /\ \A y \in T : Max(T) >= y
  BY <1>3, <1>5 DEF Max
<1>7. ASSUME NEW y \in T PROVE y <= Max(T)
  <2>1. PICK w : w = Max(T)
    OBVIOUS
  <2>2. w >= y /\ w \in 0 .. n /\ y \in 0 .. n
    BY <2>1, <1>6
  <2> QED BY <2>1, <2>2
<1> QED BY <1>6, <1>7

-----------------------------------------------------------------------------
(* The hash ranges are of size two at least, and end before the last word. *)
LEMMA StepIs ==
    /\ step_size \in 2 .. U64 \div 2 /\ step_size \in Nat \ {0} /\ NUM_SHARDS * step_size <= U64 - 1
    /\ NUM_SHARDS \in Nat \ {0, 1} /\ U64 \in Nat \ {0} /\ NUM_SHARDS * step_size \in Nat
<1>1. U64 \in Nat \ {0} /\ NUM_SHARDS \in Nat \ {0, 1} /\ 2 * NUM_SHARDS <= U64 - 1
  BY WordIs, ShardSetAssumption, BatchingAssumption
<1>2. PICK q, r \in Nat : /\ q = (U64 - 1) \div NUM_SHARDS /\ r < NUM_SHARDS
                          /\ U64 - 1 = NUM_SHARDS * q + r
  <2>1. U64 - 1 \in Nat /\ NUM_SHARDS \in Nat \ {0}
    BY <1>1
  <2> QED BY <2>1, DivMod
<1>3. step_size = q
  BY <1>2 DEF step_size
<1>4. NUM_SHARDS * q <= U64 - 1 /\ NUM_SHARDS * q \in Nat
  BY <1>1, <1>2
<1>5. q >= 2
  <2>1. CASE q <= 1
    <3>1. q * NUM_SHARDS <= 1 * NUM_SHARDS
      BY <2>1, <1>1, TimesGrows
    <3>2. q * NUM_SHARDS = NUM_SHARDS * q
      BY <1>1
    <3>3. 1 * NUM_SHARDS = NUM_SHARDS
      BY <1>1
    <3>4. NUM_SHARDS * q <= NUM_SHARDS
      BY <3>1, <3>2, <3>3
    <3>5. PICK t \in Nat : t = NUM_SHARDS * q
      BY <1>4
    <3> QED BY <3>4, <3>5, <1>1, <1>2
  <2> QED BY <2>1
<1>6. q <= U64 \div 2
  <2>1. 2 * q <= NUM_SHARDS * q
    BY <1>1, TimesGrows
  <2>2. 2 * q <= U64 - 1
    BY <2>1, <1>4, <1>1
  <2>3. PICK d, e \in Nat : d = U64 \div 2 /\ e < 2 /\ U64 = 2 * d + e
    BY <1>1, DivMod
  <2> QED BY <2>2, <2>3
<1>7. U64 \div 2 \in Nat
  BY <1>1
<1> QED BY <1>1, <1>3, <1>4, <1>5, <1>6, <1>7

(* The shard of a hash. *)
LEMMA ShardIs ==
    ASSUME NEW h \in 0 .. U64 - 1
    PROVE  /\ shard_id(h) \in Nat
           /\ shard_id(h) < NUM_SHARDS <=> h < NUM_SHARDS * step_size
           /\ shard_id(h) < NUM_SHARDS => contains(shard_id(h), h)
<1>1. shard_id(h) = h \div step_size
  <2>1. step_size \in 1 .. U64 - 1
    <3>1. U64 \div 2 <= U64 - 1 /\ U64 \div 2 \in Nat
      <4>1. PICK d, e \in Nat : d = U64 \div 2 /\ e < 2 /\ U64 = 2 * d + e
        BY StepIs, DivMod
      <4>2. d >= 2
        BY <4>1, StepIs
      <4> QED BY <4>1, <4>2
    <3> QED BY <3>1, StepIs
  <2> QED BY <2>1, ExactFor, StepIs DEF Exact, shard_id
<1>2. PICK q, r \in Nat : q = h \div step_size /\ r < step_size /\ h = step_size * q + r
  BY StepIs, DivMod
<1>3. q = shard_id(h)
  BY <1>1, <1>2
<1> DEFINE d == step_size
<1>4. d \in Nat \ {0} /\ d * q \in Nat /\ NUM_SHARDS * d \in Nat /\ NUM_SHARDS \in Nat
  BY StepIs
<1>5. ASSUME q < NUM_SHARDS PROVE h < (q + 1) * d /\ (q + 1) * d <= NUM_SHARDS * d /\ (q + 1) * d \in Nat
  <2>1. (q + 1) * d <= NUM_SHARDS * d
    BY <1>4, <1>5, TimesGrows
  <2>2. (q + 1) * d = d * q + d
    BY <1>4
  <2> QED BY <2>1, <2>2, <1>2, <1>4
<1>6. ASSUME ~(q < NUM_SHARDS) PROVE ~(h < NUM_SHARDS * d)
  <2>1. NUM_SHARDS * d <= q * d
    BY <1>4, <1>6, TimesGrows
  <2>2. q * d = d * q
    BY <1>4
  <2> QED BY <2>1, <2>2, <1>2, <1>4
<1>7. ASSUME q < NUM_SHARDS PROVE contains(q, h)
  <2>1. lb(q) <= h
    <3>1. q * d = d * q
      BY <1>4
    <3> QED BY <3>1, <1>2, <1>4 DEF lb
  <2>2. h < ub(q)
    <3>1. h < (q + 1) * d
      BY <1>5, <1>7
    <3>2. h < U64 - 1
      <4>1. NUM_SHARDS * d <= U64 - 1
        BY StepIs
      <4>2. PICK x \in Nat : x = (q + 1) * d
        BY <1>5, <1>7
      <4>3. PICK y \in Nat : y = NUM_SHARDS * d
        BY <1>4
      <4>4. h < x /\ x <= y /\ y <= U64 - 1
        BY <4>1, <4>2, <4>3, <1>5, <1>7
      <4> QED BY <4>4, StepIs
    <3> QED BY <3>1, <3>2 DEF ub
  <2> QED BY <2>1, <2>2 DEF contains
<1>8. q < NUM_SHARDS => h < NUM_SHARDS * d
  <2>1. SUFFICES ASSUME q < NUM_SHARDS PROVE h < NUM_SHARDS * d
    OBVIOUS
  <2>2. PICK x \in Nat : x = (q + 1) * d
    BY <1>5, <2>1
  <2>3. PICK y \in Nat : y = NUM_SHARDS * d
    BY <1>4
  <2>4. h < x /\ x <= y
    BY <2>1, <2>2, <2>3, <1>5
  <2> QED BY <2>3, <2>4
<1> QED BY <1>3, <1>6, <1>7, <1>8

-----------------------------------------------------------------------------
(* A batch of queries and the hashes of its keys. *)
IsBatch(queries, n, hash) ==
    /\ IsSeq(queries, n) /\ \A i \in 1 .. n : queries[i].key \in QueryKeys
    /\ hash \in [QueryKeys -> QueryHashes]

(* Keys and hashes are words. *)
LEMMA BatchIs ==
    ASSUME NEW n \in Nat, NEW queries, NEW hash, IsBatch(queries, n, hash)
    PROVE  /\ DOMAIN queries = 1 .. n
           /\ \A i \in 1 .. n : queries[i].key \in Nat /\ hash[queries[i].key] \in 0 .. U64 - 1
           /\ \A key \in QueryKeys : key \in Nat /\ hash[key] \in 0 .. U64 - 1
<1>1. DOMAIN queries = 1 .. n
  BY SeqIs DEF IsBatch
<1>2. \A key \in QueryKeys : key \in Nat /\ hash[key] \in 0 .. U64 - 1
  <2>1. QueryKeys \in SUBSET (0 .. U64 - 2) /\ QueryHashes \in SUBSET (0 .. U64 - 1)
    BY BatchingAssumption
  <2>2. \A key \in QueryKeys : key \in Nat
    BY <2>1, StepIs
  <2>3. \A key \in QueryKeys : hash[key] \in QueryHashes
    BY DEF IsBatch
  <2> QED BY <2>1, <2>2, <2>3
<1> QED BY <1>1, <1>2 DEF IsBatch

(* No shard is asked more than a batch holds. *)
LEMMA BatchSizeIs ==
    ASSUME NEW n \in Nat, NEW queries, NEW hash, IsBatch(queries, n, hash)
    PROVE  /\ calculate_batch_size(queries, hash) \in Nat
           /\ \A sh \in Shards :
                 Cardinality({i \in 1 .. n : contains(sh, hash[queries[i].key])}) <= calculate_batch_size(queries, hash)
<1> DEFINE A(sh) == {i \in 1 .. n : contains(sh, hash[queries[i].key])}
           T == {0} \cup {Cardinality(A(sh)) : sh \in Shards}
<1>1. DOMAIN queries = 1 .. n
  BY BatchIs
<1>2. ASSUME NEW sh \in Shards PROVE Cardinality(A(sh)) \in 0 .. n
  <2>1. IsFiniteSet(1 .. n) /\ Cardinality(1 .. n) = n
    <3>1. Cardinality(1 .. n) = IF 1 > n THEN 0 ELSE n - 1 + 1
      BY FS_Interval
    <3>2. IsFiniteSet(1 .. n)
      BY FS_Interval
    <3> QED BY <3>1, <3>2
  <2>2. A(sh) \in SUBSET (1 .. n)
    OBVIOUS
  <2> HIDE DEF A
  <2>3. IsFiniteSet(A(sh)) /\ Cardinality(A(sh)) <= n
    BY <2>1, <2>2, FS_Subset
  <2>4. Cardinality(A(sh)) \in Nat
    BY <2>3, FS_CardinalityType
  <2> QED BY <2>3, <2>4
<1>3. calculate_batch_size(queries, hash) = Max(T)
  BY <1>1 DEF calculate_batch_size
<1> HIDE DEF A
<1>4. T \in SUBSET (0 .. n) /\ T # {}
  BY <1>2
<1>5. \A sh \in Shards : Cardinality(A(sh)) \in T
  OBVIOUS
<1> HIDE DEF T
<1>6. Max(T) \in T /\ \A y \in T : y <= Max(T)
  BY <1>4, GreatestNumber
<1>7. Max(T) \in Nat
  <2>1. PICK w : w = Max(T)
    OBVIOUS
  <2>2. w \in T
    BY <2>1, <1>6
  <2>3. w \in 0 .. n
    BY <2>2, <1>4
  <2> QED BY <2>1, <2>3
<1> QED BY <1>3, <1>5, <1>6, <1>7 DEF A

-----------------------------------------------------------------------------
(* The place of a dummy request tells its shard. *)
LEMMA DummyShard ==
    ASSUME NEW b \in Nat \ {0}, NEW y \in Nat \ {0}, NEW sh \in Nat
    PROVE  /\ (y - 1) \div b \in Nat
           /\ (y - 1) \div b = sh <=> sh * b < y /\ y <= sh * b + b
<1>1. PICK q, r \in Nat : q = (y - 1) \div b /\ r < b /\ y - 1 = b * q + r
  <2>1. y - 1 \in Nat
    OBVIOUS
  <2> QED BY <2>1, DivMod
<1>2. q * b = b * q /\ b * q \in Nat /\ sh * b \in Nat /\ sh * b = b * sh
  OBVIOUS
<1>3. ASSUME q = sh PROVE sh * b < y /\ y <= sh * b + b
  BY <1>1, <1>2, <1>3
<1>4. ASSUME sh * b < y, y <= sh * b + b PROVE q = sh
  <2>1. PICK s : s = y - 1 - sh * b
    OBVIOUS
  <2>2. s \in Nat /\ s < b /\ y - 1 = b * sh + s
    BY <2>1, <1>2, <1>4
  <2>3. b * q + r = b * sh + s
    BY <2>2, <1>1
  <2> QED BY <2>2, <2>3, <1>1, DivUnique
<1> QED BY <1>1, <1>3, <1>4

(* A request of the client, and a dummy. *)
IsRequest(r, x, queries, hash) ==
    /\ r.shard = shard_id(hash[queries[x].key]) /\ r.flag = 0 /\ r.pos = x
    /\ r.key = queries[x].key /\ r.data = queries[x].data
IsDummy(r) == r.flag = 1 /\ r.pos = 0 /\ r.key = 0 /\ r.data = NoData

(* The client's requests and the dummies. *)
LEMMA RequestsAre ==
    ASSUME NEW n \in Nat, NEW queries, NEW hash, IsBatch(queries, n, hash), NEW b \in Nat,
           NEW all, all = Join(client_requests(queries, hash), dummies(b))
    PROVE  /\ IsSeq(all, n + b * NUM_SHARDS) /\ b * NUM_SHARDS \in Nat
           /\ \A x \in 1 .. n : IsRequest(all[x], x, queries, hash)
           /\ \A y \in 1 .. b * NUM_SHARDS : IsDummy(all[n + y]) /\ all[n + y].shard = (y - 1) \div b
<1> DEFINE c == client_requests(queries, hash)
           d == dummies(b)
           M == b * NUM_SHARDS
<1>1. M \in Nat
  BY StepIs
<1>2. DOMAIN queries = 1 .. n
  BY BatchIs
<1>3. c = [i \in 1 .. n |-> [shard |-> shard_id(hash[queries[i].key]), flag |-> 0, pos |-> i,
                           key |-> queries[i].key, data |-> queries[i].data]]
  BY <1>2 DEF client_requests
<1>4. d = [i \in 1 .. M |-> [shard |-> (i - 1) \div b, flag |-> 1, pos |-> 0, key |-> 0, data |-> NoData]]
  BY DEF dummies
<1>5. IsSeq(c, n)
  <2>1. \A i \in 1 .. n : c[i] = [shard |-> shard_id(hash[queries[i].key]), flag |-> 0, pos |-> i,
                           key |-> queries[i].key, data |-> queries[i].data]
    BY <1>3, Zenon
  <2> HIDE DEF c
  <2> QED BY <2>1, <1>3, Zenon DEF IsSeq
<1>6. IsSeq(d, M)
  <2>1. \A i \in 1 .. M : d[i] = [shard |-> (i - 1) \div b, flag |-> 1, pos |-> 0, key |-> 0, data |-> NoData]
    BY <1>4, Zenon
  <2> HIDE DEF d, M
  <2> QED BY <2>1, <1>4, Zenon DEF IsSeq
<1> HIDE DEF c, d, M
<1>7. all = Join(c, d)
  BY DEF c, d
<1>8. IsSeq(all, n + M) /\ \A x \in 1 .. n + M : all[x] = IF x <= n THEN c[x] ELSE d[x - n]
  BY <1>1, <1>5, <1>6, <1>7, JoinIs
<1>9. ASSUME NEW x \in 1 .. n PROVE IsRequest(all[x], x, queries, hash)
  <2>1. x \in 1 .. n + M /\ x <= n
    BY <1>1
  <2>2. all[x] = c[x]
    BY <2>1, <1>8
  <2>3. all[x] = [shard |-> shard_id(hash[queries[x].key]), flag |-> 0, pos |-> x,
                  key |-> queries[x].key, data |-> queries[x].data]
    BY <2>2, <1>3, Zenon
  <2> QED BY <2>3 DEF IsRequest
<1>10. ASSUME NEW y \in 1 .. M
       PROVE  IsDummy(all[n + y]) /\ all[n + y].shard = (y - 1) \div b
  <2>1. n + y \in 1 .. n + M /\ ~(n + y <= n) /\ (n + y) - n = y
    BY <1>1
  <2>2. all[n + y] = d[y]
    BY <2>1, <1>8
  <2>3. all[n + y] = [shard |-> (y - 1) \div b, flag |-> 1, pos |-> 0, key |-> 0, data |-> NoData]
    BY <2>2, <1>4, Zenon
  <2> QED BY <2>3 DEF IsDummy
<1> QED BY <1>1, <1>8, <1>9, <1>10 DEF M

-----------------------------------------------------------------------------
(* The requests sorted: where each comes from, and that they are grouped. *)
Sources(S, p, n, queries, hash, m) ==
    /\ IsPermutation(p, m) /\ IsSeq(S, m) /\ m \in Nat /\ n <= m
    /\ \A r \in 1 .. m : p[r] <= n => IsRequest(S[r], p[r], queries, hash)
    /\ \A r \in 1 .. m : ~(p[r] <= n) => IsDummy(S[r])
NewestFirst(S, m) ==
    \A r, s \in 1 .. m : r <= s /\ S[r].shard = S[s].shard /\ S[r].flag = S[s].flag /\ S[r].key = S[s].key
                            => S[s].pos <= S[r].pos

(* Of each kind a shard has as many requests after the sort as before. *)
LEMMA SortedGroups ==
    ASSUME NEW m \in Nat, NEW p, NEW all, NEW S, Permuted(S, all, p, m), NEW sh, NEW f
    PROVE  Cardinality(Group(S, m, sh, f)) = Cardinality(Group(all, m, sh, f))
<1>1. Group(all, m, sh, f) \in SUBSET (1 .. m)
  BY DEF Group
<1>2. Group(S, m, sh, f) = {r \in 1 .. m : p[r] \in Group(all, m, sh, f)}
  <2>1. \A r \in 1 .. m : p[r] \in 1 .. m /\ S[r] = all[p[r]]
    BY DEF Permuted, IsPermutation
  <2> QED BY <2>1 DEF Group
<1>3. IsPermutation(p, m)
  BY DEF Permuted
<1> QED BY <1>1, <1>2, <1>3, PermutedCount

(* A shard has b requests without a key, and at most b with one. *)
LEMMA RequestGroups ==
    ASSUME NEW n \in Nat, NEW queries, NEW hash, IsBatch(queries, n, hash), NEW b \in Nat \ {0},
           b = calculate_batch_size(queries, hash),
           NEW all, all = Join(client_requests(queries, hash), dummies(b)), NEW sh \in Shards
    PROVE  /\ Cardinality(Group(all, n + b * NUM_SHARDS, sh, 1)) = b
           /\ Cardinality(Group(all, n + b * NUM_SHARDS, sh, 0)) <= b
<1> DEFINE M == b * NUM_SHARDS
<1>1. sh \in Nat /\ sh + 1 <= NUM_SHARDS /\ M \in Nat /\ NUM_SHARDS \in Nat
  BY StepIs DEF Shards
<1>2. sh * b + b <= M /\ sh * b \in Nat
  <2>1. (sh + 1) * b <= NUM_SHARDS * b
    BY <1>1, TimesGrows
  <2>2. (sh + 1) * b = sh * b + b /\ NUM_SHARDS * b = b * NUM_SHARDS /\ sh * b \in Nat
    BY <1>1
  <2> QED BY <2>1, <2>2
<1>3. /\ \A x \in 1 .. n : IsRequest(all[x], x, queries, hash)
      /\ \A y \in 1 .. M : IsDummy(all[n + y]) /\ all[n + y].shard = (y - 1) \div b
  BY RequestsAre
<1> HIDE DEF M
<1>4. \A x \in 1 .. n : all[x].flag = 0 /\ all[x].shard = shard_id(hash[queries[x].key])
  BY <1>3 DEF IsRequest
<1>5. \A y \in 1 .. M : all[n + y].flag = 1 /\ all[n + y].shard = (y - 1) \div b
  BY <1>3 DEF IsDummy
<1>6. ASSUME NEW x \in 1 .. n + M, ~(x <= n) PROVE \E y \in 1 .. M : x = n + y
  <2>1. x - n \in 1 .. M /\ x = n + (x - n)
    BY <1>1, <1>6
  <2> QED BY <2>1
<1>7. Group(all, n + M, sh, 1) = (n + sh * b + 1) .. (n + sh * b + b)
  <2>1. ASSUME NEW x \in Group(all, n + M, sh, 1) PROVE x \in (n + sh * b + 1) .. (n + sh * b + b)
    <3>1. x \in 1 .. n + M /\ all[x].shard = sh /\ all[x].flag = 1
      BY <2>1 DEF Group
    <3>2. ~(x <= n)
      BY <3>1, <1>1, <1>4
    <3>3. PICK y \in 1 .. M : x = n + y
      BY <3>1, <3>2, <1>6
    <3>4. (y - 1) \div b = sh /\ y \in Nat \ {0}
      BY <3>1, <3>3, <1>1, <1>5
    <3>5. sh * b < y /\ y <= sh * b + b
      BY <3>4, <1>1, DummyShard
    <3> QED BY <3>3, <3>4, <3>5, <1>2
  <2>2. ASSUME NEW x \in (n + sh * b + 1) .. (n + sh * b + b) PROVE x \in Group(all, n + M, sh, 1)
    <3>1. x \in 1 .. n + M /\ ~(x <= n) /\ x \in Nat
      BY <1>1, <1>2
    <3>2. PICK y \in 1 .. M : x = n + y
      BY <3>1, <1>6
    <3>3. y \in Nat \ {0} /\ sh * b < y /\ y <= sh * b + b
      BY <3>2, <1>1, <1>2
    <3>4. (y - 1) \div b = sh
      BY <3>3, <1>1, DummyShard
    <3> QED BY <3>1, <3>2, <3>4, <1>5 DEF Group
  <2> QED BY <2>1, <2>2
<1>8. Cardinality(Group(all, n + M, sh, 1)) = b
  <2>1. PICK a : a = n + sh * b + 1
    OBVIOUS
  <2>2. a \in Int /\ n + sh * b + b = a + b - 1 /\ a + b - 1 \in Int
    BY <2>1, <1>2
  <2>3. Cardinality(a .. a + b - 1) = IF a > a + b - 1 THEN 0 ELSE (a + b - 1) - a + 1
    BY <2>2, FS_Interval
  <2>4. Cardinality(a .. a + b - 1) = b
    BY <2>2, <2>3
  <2> QED BY <2>1, <2>2, <2>4, <1>7
<1>9. Cardinality(Group(all, n + M, sh, 0)) <= b
  <2> DEFINE A == {i \in 1 .. n : contains(sh, hash[queries[i].key])}
  <2>1. Group(all, n + M, sh, 0) \in SUBSET A
    <3> SUFFICES ASSUME NEW x \in Group(all, n + M, sh, 0) PROVE x \in A
      OBVIOUS
    <3>1. x \in 1 .. n + M /\ all[x].shard = sh /\ all[x].flag = 0
      BY DEF Group
    <3>2. CASE ~(x <= n)
      <4>1. PICK y \in 1 .. M : x = n + y
        BY <3>1, <3>2, <1>6
      <4>2. all[x].flag = 1
        BY <4>1, <1>5
      <4> QED BY <4>2, <3>1
    <3>3. CASE x <= n
      <4>1. x \in 1 .. n
        BY <3>1, <3>3, <1>1
      <4>2. shard_id(hash[queries[x].key]) = sh
        BY <4>1, <3>1, <1>4
      <4>3. hash[queries[x].key] \in 0 .. U64 - 1
        BY <4>1, BatchIs
      <4>4. contains(sh, hash[queries[x].key])
        BY <4>2, <4>3, <1>1, ShardIs
      <4> QED BY <4>1, <4>4
    <3> QED BY <3>2, <3>3
  <2>2. A \in SUBSET (1 .. n)
    OBVIOUS
  <2>3. Cardinality(A) <= b
    BY BatchSizeIs
  <2> HIDE DEF A
  <2>4. IsFiniteSet(1 .. n)
    BY FS_Interval
  <2>5. IsFiniteSet(A)
    BY <2>2, <2>4, FS_Subset
  <2>6. /\ Cardinality(Group(all, n + M, sh, 0)) <= Cardinality(A)
        /\ IsFiniteSet(Group(all, n + M, sh, 0))
    BY <2>1, <2>5, FS_Subset
  <2>7. Cardinality(A) \in Nat /\ Cardinality(Group(all, n + M, sh, 0)) \in Nat
    BY <2>5, <2>6, FS_CardinalityType
  <2> QED BY <2>3, <2>6, <2>7
<1> QED BY <1>8, <1>9 DEF M

(* Every sorted request is the client's or a dummy of a shard. *)
LEMMA RequestKinds ==
    ASSUME NEW n \in Nat, NEW queries, NEW hash, IsBatch(queries, n, hash), NEW b \in Nat \ {0},
           NEW all, all = Join(client_requests(queries, hash), dummies(b)), NEW x \in 1 .. n + b * NUM_SHARDS
    PROVE  /\ x <= n => IsRequest(all[x], x, queries, hash) /\ all[x].key \in QueryKeys
           /\ ~(x <= n) => IsDummy(all[x])
           /\ all[x].shard \in Nat /\ all[x].flag \in {0, 1} /\ all[x].key \in Nat /\ all[x].pos \in Nat
           /\ all[x].flag = 1 => all[x].key = 0 /\ all[x].shard < NUM_SHARDS
<1> DEFINE M == b * NUM_SHARDS
<1>1. M \in Nat /\ NUM_SHARDS \in Nat
  BY StepIs
<1>2. CASE x <= n
  <2>1. x \in 1 .. n
    BY <1>1, <1>2
  <2>2. IsRequest(all[x], x, queries, hash)
    BY <2>1, RequestsAre
  <2>3. queries[x].key \in QueryKeys /\ queries[x].key \in Nat /\ hash[queries[x].key] \in 0 .. U64 - 1
    BY <2>1, BatchIs DEF IsBatch
  <2>4. shard_id(hash[queries[x].key]) \in Nat
    BY <2>3, ShardIs
  <2> QED BY <1>2, <2>1, <2>2, <2>3, <2>4 DEF IsRequest
<1>3. CASE ~(x <= n)
  <2>1. PICK y \in 1 .. M : x = n + y
    <3>1. x - n \in 1 .. M /\ x = n + (x - n)
      BY <1>1, <1>3
    <3> QED BY <3>1
  <2>2. IsDummy(all[x]) /\ all[x].shard = (y - 1) \div b
    BY <2>1, RequestsAre
  <2>3. PICK q : q = (y - 1) \div b
    OBVIOUS
  <2>4. y \in Nat \ {0}
    BY <1>1
  <2>5. q \in Nat
    <3>1. 0 \in Nat
      OBVIOUS
    <3> QED BY <3>1, <2>3, <2>4, DummyShard
  <2>6. q * b < y
    BY <2>3, <2>4, <2>5, DummyShard
  <2>7. q < NUM_SHARDS
    <3>1. CASE NUM_SHARDS <= q
      <4>1. NUM_SHARDS * b <= q * b
        BY <3>1, <2>5, <1>1, TimesGrows
      <4>2. NUM_SHARDS * b = M /\ q * b \in Nat
        BY <1>1, <2>5
      <4> HIDE DEF M
      <4> QED BY <4>1, <4>2, <2>6, <1>1
    <3> QED BY <3>1, <2>5, <1>1
  <2> QED BY <1>3, <2>2, <2>3, <2>5, <2>7 DEF IsDummy
<1> QED BY <1>2, <1>3

(* What prepare_query_batches sorts. *)
LEMMA SortedRequestsAre ==
    ASSUME NEW n \in Nat, NEW queries, NEW hash, IsBatch(queries, n, hash), NEW b \in Nat \ {0},
           b = calculate_batch_size(queries, hash), NEW type
    PROVE  \E p, S, m :
              /\ S = RequestSort(client_requests(queries, hash) \o dummies(b), type)
              /\ Sources(S, p, n, queries, hash, m) /\ Grouped(S, m, b)
              /\ type = "insert" => NewestFirst(S, m)
<1>1. PICK all : all = Join(client_requests(queries, hash), dummies(b))
  OBVIOUS
<1> DEFINE m == n + b * NUM_SHARDS
<1>2. m \in Nat /\ n <= m /\ NUM_SHARDS \in Nat
  <2>1. b * NUM_SHARDS \in Nat /\ NUM_SHARDS \in Nat
    BY StepIs
  <2> QED BY <2>1
<1>3. IsSeq(all, m)
  BY <1>1, RequestsAre
<1>4. \A x \in 1 .. m :
         /\ x <= n => IsRequest(all[x], x, queries, hash) /\ all[x].key \in QueryKeys
         /\ ~(x <= n) => IsDummy(all[x])
         /\ all[x].shard \in Nat /\ all[x].flag \in {0, 1} /\ all[x].key \in Nat /\ all[x].pos \in Nat
         /\ all[x].flag = 1 => all[x].key = 0 /\ all[x].shard < NUM_SHARDS
  BY <1>1, RequestKinds
<1>5. \A sh \in Shards : Cardinality(Group(all, m, sh, 1)) = b /\ Cardinality(Group(all, m, sh, 0)) <= b
  BY <1>1, RequestGroups
<1> HIDE DEF m
<1>6. \A x \in 1 .. m : all[x].shard \in Nat /\ all[x].flag \in Nat /\ all[x].key \in Nat /\ all[x].pos \in Nat
  BY <1>4
<1>7. PICK p, S : Permuted(S, all, p, m) /\ S = RequestSort(all, type) /\ InRequestOrder(S, m, type)
  BY <1>2, <1>3, <1>6, SortedRequests
<1>8. \A r \in 1 .. m : p[r] \in 1 .. m /\ S[r] = all[p[r]]
  BY <1>7 DEF Permuted, IsPermutation
<1>9. S = RequestSort(client_requests(queries, hash) \o dummies(b), type)
  BY <1>1, <1>7 DEF Join
<1>10. Sources(S, p, n, queries, hash, m)
  <2>1. IsSeq(S, m)
    BY <1>7 DEF IsSeq, Permuted
  <2> QED BY <2>1, <1>2, <1>4, <1>7, <1>8 DEF Sources, Permuted
<1>11. type = "insert" => NewestFirst(S, m)
  BY <1>7 DEF NewestFirst, InRequestOrder
<1>12. Grouped(S, m, b)
  <2>1. \A j \in 1 .. m : /\ S[j].shard \in Nat /\ S[j].flag \in {0, 1} /\ S[j].key \in Nat
                          /\ S[j].flag = 1 => S[j].key = 0 /\ S[j].shard < NUM_SHARDS
    BY <1>4, <1>8
  <2>2. ASSUME NEW r \in 1 .. m, NEW s \in 1 .. m, S[r].key = S[s].key, S[r].key # 0
        PROVE  S[r].shard = S[s].shard
    <3>1. p[r] <= n /\ p[s] <= n
      BY <2>2, <1>4, <1>8 DEF IsDummy
    <3> QED BY <3>1, <2>2, <1>4, <1>8 DEF IsRequest
  <2>3. \A sh \in Shards : Cardinality(Group(S, m, sh, 1)) = b /\ Cardinality(Group(S, m, sh, 0)) <= b
    <3>1. \A sh, f : Cardinality(Group(S, m, sh, f)) = Cardinality(Group(all, m, sh, f))
      BY <1>2, <1>7, SortedGroups
    <3> QED BY <3>1, <1>5
  <2>4. \A r, s \in 1 .. m : r <= s =>
          /\ S[r].shard <= S[s].shard
          /\ S[r].shard = S[s].shard => S[r].flag <= S[s].flag
          /\ S[r].shard = S[s].shard /\ S[r].flag = S[s].flag => S[r].key <= S[s].key
    BY <1>7 DEF InRequestOrder
  <2> QED BY <2>1, <2>2, <2>3, <2>4 DEF Grouped
<1> QED BY <1>9, <1>10, <1>11, <1>12

-----------------------------------------------------------------------------
(* What the batches of b requests hold of n queries: nothing but them, in   *)
(* the batch of their shard, none twice and none left out.                  *)
Asked(batches, b) == \A sh \in Shards, i \in 1 .. b : DOMAIN batches[sh] = 1 .. b
FromQueries(batches, b, n, queries, hash, type) ==
    \A sh \in Shards, i \in 1 .. b : batches[sh][i].key # 0 =>
        \E x \in 1 .. n :
            /\ batches[sh][i].key = queries[x].key /\ batches[sh][i].data = queries[x].data
            /\ shard_id(hash[queries[x].key]) = sh
            /\ type = "insert" => \A y \in 1 .. n : queries[y].key = queries[x].key => y <= x
AskedOnce(batches, b) ==
    \A sh, t \in Shards : \A i, j \in 1 .. b :
        batches[sh][i].key = batches[t][j].key /\ batches[sh][i].key # 0 => sh = t /\ i = j
AllAsked(batches, b, n, queries, hash) ==
    \A x \in 1 .. n : queries[x].key # 0 /\ shard_id(hash[queries[x].key]) < NUM_SHARDS =>
        \E sh \in Shards, i \in 1 .. b : batches[sh][i].key = queries[x].key

(* The place in the output of a shard's request. *)
LEMMA PlaceIs ==
    ASSUME NEW b \in Nat \ {0}
    PROVE  /\ \A sh \in Shards, i \in 1 .. b :
                 sh \in Nat /\ sh * b + i \in 1 .. NUM_SHARDS * b /\ (sh * b + i - 1) \div b = sh
           /\ \A x \in 1 .. NUM_SHARDS * b : \E sh \in Shards, i \in 1 .. b : x = sh * b + i
           /\ \A sh, t \in Shards : \A i, j \in 1 .. b : sh * b + i = t * b + j => sh = t /\ i = j
<1>1. NUM_SHARDS \in Nat /\ NUM_SHARDS * b \in Nat
  BY StepIs
<1>2. ASSUME NEW sh \in Shards, NEW i \in 1 .. b
      PROVE  sh \in Nat /\ sh * b \in Nat /\ sh * b + i \in 1 .. NUM_SHARDS * b /\ (sh * b + i - 1) \div b = sh
  <2>1. sh \in Nat /\ sh + 1 <= NUM_SHARDS
    BY <1>1 DEF Shards
  <2>2. sh * b \in Nat /\ (sh + 1) * b = sh * b + b
    BY <2>1
  <2>3. (sh + 1) * b <= NUM_SHARDS * b
    BY <2>1, <1>1, TimesGrows
  <2>4. PICK x : x = sh * b + i
    OBVIOUS
  <2>5. x \in Nat \ {0} /\ sh * b < x /\ x <= sh * b + b /\ x <= NUM_SHARDS * b
    BY <2>2, <2>3, <2>4, <1>1
  <2>6. (x - 1) \div b = sh
    BY <2>1, <2>5, DummyShard
  <2> QED BY <2>1, <2>2, <2>4, <2>5, <2>6
<1>3. ASSUME NEW x \in 1 .. NUM_SHARDS * b PROVE \E sh \in Shards, i \in 1 .. b : x = sh * b + i
  <2>1. x \in Nat \ {0} /\ x <= NUM_SHARDS * b
    BY <1>1
  <2>2. PICK q : q = (x - 1) \div b
    OBVIOUS
  <2>3. q \in Nat
    <3>1. 0 \in Nat
      OBVIOUS
    <3> QED BY <3>1, <2>1, <2>2, DummyShard
  <2>4. q * b < x /\ x <= q * b + b /\ q * b \in Nat
    BY <2>1, <2>2, <2>3, DummyShard
  <2>5. q < NUM_SHARDS
    <3>1. CASE NUM_SHARDS <= q
      <4>1. NUM_SHARDS * b <= q * b
        BY <3>1, <2>3, <1>1, TimesGrows
      <4> QED BY <4>1, <2>1, <2>4, <1>1
    <3> QED BY <3>1, <2>3, <1>1
  <2>6. q \in Shards
    BY <2>3, <2>5, <1>1 DEF Shards
  <2>7. x - q * b \in 1 .. b /\ x = q * b + (x - q * b)
    BY <2>1, <2>4
  <2> QED BY <2>6, <2>7
<1>4. ASSUME NEW sh \in Shards, NEW t \in Shards, NEW i \in 1 .. b, NEW j \in 1 .. b, sh * b + i = t * b + j
      PROVE  sh = t /\ i = j
  <2>1. sh = t
    <3>1. PICK x : x = sh * b + i /\ x = t * b + j
      BY <1>4
    <3>2. (x - 1) \div b = sh /\ (x - 1) \div b = t
      BY <3>1, <1>2
    <3> QED BY <3>2
  <2> QED BY <2>1, <1>2, <1>4
<1> QED BY <1>2, <1>3, <1>4

(* The first of the sorted records with a key is the last of the batch. *)
LEMMA FirstIsNewest ==
    ASSUME NEW n \in Nat, NEW queries, NEW hash, IsBatch(queries, n, hash), NEW b, NEW m, NEW p, NEW S,
           Sources(S, p, n, queries, hash, m), Grouped(S, m, b),
           NEW j \in 1 .. m, First(S, j), S[j].key # 0
    PROVE  /\ p[j] \in 1 .. n /\ S[j].key = queries[p[j]].key /\ S[j].data = queries[p[j]].data
           /\ shard_id(hash[queries[p[j]].key]) = S[j].shard
           /\ NewestFirst(S, m) => \A y \in 1 .. n : queries[y].key = queries[p[j]].key => y <= p[j]
<1>1. p[j] \in 1 .. m /\ m \in Nat /\ n <= m
  BY DEF Sources, IsPermutation
<1>2. p[j] <= n
  BY DEF Sources, IsDummy
<1>3. p[j] \in 1 .. n
  BY <1>1, <1>2
<1>4. IsRequest(S[j], p[j], queries, hash)
  BY <1>2 DEF Sources
<1>5. ASSUME NewestFirst(S, m), NEW y \in 1 .. n, queries[y].key = queries[p[j]].key PROVE y <= p[j]
  <2>1. y \in 1 .. m
    BY <1>1
  <2>2. PICK s \in 1 .. m : p[s] = y
    BY <2>1 DEF Sources, IsPermutation
  <2>3. IsRequest(S[s], y, queries, hash)
    <3>1. p[s] <= n
      BY <2>2
    <3> QED BY <3>1, <2>2 DEF Sources
  <2>4. S[s].key = S[j].key /\ S[s].shard = S[j].shard /\ S[s].flag = S[j].flag /\ S[s].pos = y /\ S[j].pos = p[j]
    BY <2>3, <1>4, <1>5 DEF IsRequest
  <2>5. ~(s \in 1 .. j - 1)
    BY <2>4 DEF First
  <2>6. j <= s
    BY <2>5, <1>1
  <2>7. S[s].pos <= S[j].pos
    BY <2>4, <2>6, <1>5 DEF NewestFirst
  <2> QED BY <2>4, <2>7
<1> QED BY <1>3, <1>4, <1>5 DEF IsRequest

(* The batches are read from the output of the pass. *)
LEMMA BatchesAre ==
    ASSUME NEW n \in Nat, NEW queries, NEW hash, IsBatch(queries, n, hash), NEW b \in Nat \ {0},
           b = calculate_batch_size(queries, hash), NEW type,
           NEW batches, batches = prepare_query_batches(queries, hash, type)
    PROVE  /\ Asked(batches, b) /\ FromQueries(batches, b, n, queries, hash, type)
           /\ AskedOnce(batches, b) /\ AllAsked(batches, b, n, queries, hash)
<1>1. PICK p, S, m : /\ S = RequestSort(client_requests(queries, hash) \o dummies(b), type)
                     /\ Sources(S, p, n, queries, hash, m) /\ Grouped(S, m, b)
                     /\ type = "insert" => NewestFirst(S, m)
  BY SortedRequestsAre
<1>2. PICK out : out = kept(S, b)
  OBVIOUS
<1>3. batches = [sh \in Shards |-> [i \in 1 .. b |-> [key |-> out[sh * b + i].key,
                                                        data |-> out[sh * b + i].data]]]
  BY <1>1, <1>2 DEF prepare_query_batches, RequestSort
<1>4. \A sh \in Shards : DOMAIN batches[sh] = 1 .. b
  BY <1>3
<1>5. \A sh \in Shards, i \in 1 .. b :
         batches[sh][i].key = out[sh * b + i].key /\ batches[sh][i].data = out[sh * b + i].data
  BY <1>3
<1>6. m \in Nat /\ IsSeq(S, m) /\ n <= m
  BY <1>1 DEF Sources
<1>7. KeptOut(out, NUM_SHARDS * b, S, m, b)
  BY <1>1, <1>2, <1>6, KeptIs
<1>8. NUM_SHARDS * b \in Nat /\ NUM_SHARDS \in Nat
  BY StepIs
<1>9. ASSUME NEW sh \in Shards, NEW i \in 1 .. b, batches[sh][i].key # 0
      PROVE  \E x \in 1 .. n :
                /\ batches[sh][i].key = queries[x].key /\ batches[sh][i].data = queries[x].data
                /\ shard_id(hash[queries[x].key]) = sh
                /\ type = "insert" => \A y \in 1 .. n : queries[y].key = queries[x].key => y <= x
  <2>1. PICK x : x = sh * b + i
    OBVIOUS
  <2>2. x \in 1 .. NUM_SHARDS * b /\ (x - 1) \div b = sh /\ sh \in Nat
    BY <2>1, PlaceIs
  <2>3. x <= NUM_SHARDS * b /\ x \in Nat \ {0}
    BY <2>2, <1>8
  <2>4. PICK j \in 1 .. m : /\ out[x] = S[j] /\ First(S, j)
                            /\ S[j].shard * b < x /\ x <= S[j].shard * b + b
    BY <2>2, <2>3, <1>7 DEF KeptOut
  <2>5. S[j].shard \in Nat
    BY <1>1 DEF Grouped
  <2>6. S[j].shard = sh
    BY <2>2, <2>3, <2>4, <2>5, DummyShard
  <2>7. batches[sh][i].key = S[j].key /\ batches[sh][i].data = S[j].data
    BY <2>1, <2>4, <1>5
  <2>8. S[j].key # 0
    BY <2>7, <1>9
  <2>9. /\ p[j] \in 1 .. n /\ S[j].key = queries[p[j]].key /\ S[j].data = queries[p[j]].data
        /\ shard_id(hash[queries[p[j]].key]) = S[j].shard
        /\ NewestFirst(S, m) => \A y \in 1 .. n : queries[y].key = queries[p[j]].key => y <= p[j]
    BY <2>4, <2>8, <1>1, FirstIsNewest
  <2> QED BY <2>6, <2>7, <2>9, <1>1
<1>10. AskedOnce(batches, b)
  <2> SUFFICES ASSUME NEW sh \in Shards, NEW t \in Shards, NEW i \in 1 .. b, NEW j \in 1 .. b,
                      batches[sh][i].key = batches[t][j].key, batches[sh][i].key # 0
               PROVE  sh = t /\ i = j
    BY DEF AskedOnce
  <2>1. PICK x, y : x = sh * b + i /\ y = t * b + j
    OBVIOUS
  <2>2. x \in 1 .. NUM_SHARDS * b /\ y \in 1 .. NUM_SHARDS * b
    BY <2>1, PlaceIs
  <2>3. out[x].key = out[y].key /\ out[x].key # 0
    BY <2>1, <1>5
  <2>4. x <= NUM_SHARDS * b /\ y <= NUM_SHARDS * b
    BY <2>2, <1>8
  <2>5. x = y
    BY <2>2, <2>3, <2>4, <1>7 DEF KeptOut
  <2> QED BY <2>1, <2>5, PlaceIs
<1>11. AllAsked(batches, b, n, queries, hash)
  <2> SUFFICES ASSUME NEW x \in 1 .. n, queries[x].key # 0, shard_id(hash[queries[x].key]) < NUM_SHARDS
               PROVE  \E sh \in Shards, i \in 1 .. b : batches[sh][i].key = queries[x].key
    BY DEF AllAsked
  <2>1. x \in 1 .. m
    BY <1>6
  <2>2. PICK r \in 1 .. m : p[r] = x
    BY <2>1, <1>1 DEF Sources, IsPermutation
  <2>3. IsRequest(S[r], x, queries, hash)
    <3>1. p[r] <= n
      BY <2>2
    <3> QED BY <3>1, <2>2, <1>1 DEF Sources
  <2>4. S[r].key # 0 /\ S[r].shard < NUM_SHARDS /\ S[r].key = queries[x].key
    BY <2>3 DEF IsRequest
  <2>5. PICK y \in 1 .. NUM_SHARDS * b : out[y].key = queries[x].key
    BY <2>4, <1>7 DEF KeptOut
  <2>6. PICK sh \in Shards, i \in 1 .. b : y = sh * b + i
    BY PlaceIs
  <2> QED BY <2>5, <2>6, <1>5
<1> QED BY <1>4, <1>9, <1>10, <1>11 DEF Asked, FromQueries

-----------------------------------------------------------------------------
(* The batches hold what they should, also when they are empty: then no key *)
(* belongs to a shard.                                                      *)
LEMMA BatchesFor ==
    ASSUME NEW n \in Nat, NEW queries, NEW hash, IsBatch(queries, n, hash), NEW type,
           NEW b, b = calculate_batch_size(queries, hash),
           NEW batches, batches = prepare_query_batches(queries, hash, type)
    PROVE  /\ b \in Nat /\ Asked(batches, b) /\ FromQueries(batches, b, n, queries, hash, type)
           /\ AskedOnce(batches, b) /\ AllAsked(batches, b, n, queries, hash)
<1>1. b \in Nat
  BY BatchSizeIs
<1>2. CASE b # 0
  BY <1>1, <1>2, BatchesAre
<1>3. CASE b = 0
  <2>1. \A i : ~(i \in 1 .. b)
    BY <1>3
  <2>2. Asked(batches, b) /\ FromQueries(batches, b, n, queries, hash, type) /\ AskedOnce(batches, b)
    BY <2>1 DEF Asked, FromQueries, AskedOnce
  <2>3. ASSUME NEW x \in 1 .. n, shard_id(hash[queries[x].key]) < NUM_SHARDS PROVE FALSE
    <3>1. hash[queries[x].key] \in 0 .. U64 - 1
      BY BatchIs
    <3>2. PICK sh : sh = shard_id(hash[queries[x].key])
      OBVIOUS
    <3>3. sh \in Nat /\ contains(sh, hash[queries[x].key])
      BY <3>1, <3>2, <2>3, ShardIs
    <3>4. sh \in Shards
      BY <3>2, <3>3, <2>3, StepIs DEF Shards
    <3> DEFINE A == {i \in 1 .. n : contains(sh, hash[queries[i].key])}
    <3>5. x \in A /\ A \in SUBSET (1 .. n)
      BY <3>3
    <3>6. Cardinality(A) <= b
      BY <3>4, BatchSizeIs
    <3> HIDE DEF A
    <3>7. IsFiniteSet(1 .. n)
      BY FS_Interval
    <3>8. IsFiniteSet(A)
      BY <3>5, <3>7, FS_Subset
    <3>9. Cardinality(A) \in Nat /\ Cardinality(A) # 0
      BY <3>5, <3>8, FS_CardinalityType, FS_EmptySet
    <3> QED BY <3>6, <3>9, <1>3
  <2>4. AllAsked(batches, b, n, queries, hash)
    BY <2>3 DEF AllAsked
  <2> QED BY <2>2, <2>4, <1>1
<1> QED BY <1>2, <1>3

(* Where a key is asked for. *)
KeyPlaces(batches, b, key) == {p \in Shards \X (1 .. b) : batches[p[1]][p[2]].key = key}

(* What is asked for a key. *)
KeyAsked(batches, b, queries, hash, type, key) ==
    IF hash[key] >= NUM_SHARDS * step_size THEN KeyPlaces(batches, b, key) = {}
    ELSE /\ contains(shard_id(hash[key]), hash[key])
         /\ Cardinality(KeyPlaces(batches, b, key)) = 1
         /\ \A p \in KeyPlaces(batches, b, key) :
               /\ p[1] = shard_id(hash[key])
               /\ type = "insert" => batches[p[1]][p[2]].data =
                                       queries[Max({i \in DOMAIN queries : queries[i].key = key})].data

(* A key is asked for once, in the batch of its shard, if it has one. *)
LEMMA KeyPlacesAre ==
    ASSUME NEW n \in Nat, NEW queries, NEW hash, IsBatch(queries, n, hash), NEW type,
           NEW b \in Nat, NEW batches, FromQueries(batches, b, n, queries, hash, type),
           AskedOnce(batches, b), AllAsked(batches, b, n, queries, hash),
           NEW k \in 1 .. n, queries[k].key # 0, NEW key, key = queries[k].key
    PROVE  KeyAsked(batches, b, queries, hash, type, key)
<1> DEFINE P == KeyPlaces(batches, b, key)
           own == shard_id(hash[key])
<1>1. hash[key] \in 0 .. U64 - 1 /\ DOMAIN queries = 1 .. n
  BY BatchIs
<1>2. own \in Nat /\ (own < NUM_SHARDS <=> hash[key] < NUM_SHARDS * step_size) /\ (own < NUM_SHARDS => contains(own, hash[key]))
  BY <1>1, ShardIs
<1>3. NUM_SHARDS * step_size \in Nat /\ NUM_SHARDS \in Nat
  BY StepIs
<1>4. ASSUME NEW p \in P
      PROVE  /\ p[1] \in Shards /\ p[2] \in 1 .. b /\ p[1] = own /\ p = <<p[1], p[2]>>
             /\ type = "insert" => batches[p[1]][p[2]].data = queries[Max({i \in DOMAIN queries : queries[i].key = key})].data
  <2>1. p[1] \in Shards /\ p[2] \in 1 .. b /\ p = <<p[1], p[2]>> /\ batches[p[1]][p[2]].key = key
    BY <1>4 DEF KeyPlaces
  <2>2. PICK x \in 1 .. n :
            /\ batches[p[1]][p[2]].key = queries[x].key /\ batches[p[1]][p[2]].data = queries[x].data
            /\ shard_id(hash[queries[x].key]) = p[1]
            /\ type = "insert" => \A y \in 1 .. n : queries[y].key = queries[x].key => y <= x
    BY <2>1 DEF FromQueries
  <2>3. ASSUME type = "insert" PROVE x = Max({i \in DOMAIN queries : queries[i].key = key})
    <3> DEFINE T == {i \in DOMAIN queries : queries[i].key = key}
    <3>1. T \in SUBSET (0 .. n) /\ x \in T /\ T \in SUBSET (1 .. n)
      BY <2>1, <2>2, <1>1
    <3>2. \A y \in T : y <= x
      BY <2>1, <2>2, <2>3, <1>1
    <3> HIDE DEF T
    <3>3. PICK w : w = Max(T)
      OBVIOUS
    <3>4. w \in T /\ \A y \in T : y <= w
      BY <3>1, <3>3, GreatestNumber
    <3>5. w <= x /\ x <= w /\ w \in 1 .. n
      BY <3>1, <3>2, <3>4
    <3>6. w = x
      BY <3>5
    <3> QED BY <3>3, <3>6 DEF T
  <2> QED BY <2>1, <2>2, <2>3
<1>5. CASE hash[key] >= NUM_SHARDS * step_size
  <2>1. ASSUME NEW p \in P PROVE FALSE
    <3>1. own \in Shards
      BY <1>4, <2>1
    <3> QED BY <3>1, <1>1, <1>2, <1>3, <1>5 DEF Shards
  <2> QED BY <2>1, <1>5 DEF KeyAsked
<1>6. CASE ~(hash[key] >= NUM_SHARDS * step_size)
  <2>1. own < NUM_SHARDS
    BY <1>1, <1>2, <1>3, <1>6
  <2>2. PICK sh \in Shards, i \in 1 .. b : batches[sh][i].key = key
    BY <2>1 DEF AllAsked
  <2>3. <<sh, i>> \in P
    BY <2>2 DEF KeyPlaces
  <2>4. ASSUME NEW p \in P PROVE p = <<sh, i>>
    <3>1. batches[p[1]][p[2]].key = key
      BY <2>4 DEF KeyPlaces
    <3>2. p[1] \in Shards /\ p[2] \in 1 .. b /\ key # 0
      BY <1>4, <2>4
    <3>3. p[1] = sh /\ p[2] = i
      BY <3>1, <3>2, <2>2 DEF AskedOnce
    <3> QED BY <3>3, <1>4, <2>4
  <2>5. P = {<<sh, i>>}
    BY <2>3, <2>4
  <2>6. Cardinality(P) = 1
    BY <2>5, FS_Singleton
  <2> QED BY <2>1, <2>6, <1>2, <1>4, <1>6 DEF KeyAsked
<1> QED BY <1>5, <1>6

(* Batches of any queries are complete. *)
LEMMA CompleteFor ==
    ASSUME NEW n \in Nat, NEW queries, NEW hash, IsBatch(queries, n, hash), NEW type
    PROVE  Complete(queries, hash, type)
<1>1. PICK b : b = calculate_batch_size(queries, hash)
  OBVIOUS
<1>2. PICK batches : batches = prepare_query_batches(queries, hash, type)
  OBVIOUS
<1>3. /\ b \in Nat /\ FromQueries(batches, b, n, queries, hash, type)
      /\ AskedOnce(batches, b) /\ AllAsked(batches, b, n, queries, hash)
  BY <1>1, <1>2, BatchesFor
<1>4. DOMAIN queries = 1 .. n
  BY BatchIs
<1> SUFFICES ASSUME NEW key \in {queries[i].key : i \in DOMAIN queries} \ {0}
             PROVE  KeyAsked(batches, b, queries, hash, type, key)
  BY <1>1, <1>2, Zenon DEF Complete, KeyPlaces, KeyAsked
<1>5. PICK k \in 1 .. n : key = queries[k].key /\ queries[k].key # 0
  BY <1>4
<1> QED BY <1>3, <1>5, KeyPlacesAre

(* prepare_query_batches *)
LEMMA AllComplete == BatchesComplete
<1> SUFFICES ASSUME job \in BatchJobs, NEW keys \in KeySeqs(0)
             PROVE  Complete([i \in DOMAIN keys |-> [key |-> keys[i], data |-> i]], job.hash, job.type)
  BY DEF BatchesComplete
<1>1. PICK m \in 0 .. MAX_QUERIES : keys \in [1 .. m -> QueryKeys]
  BY DEF KeySeqs
<1>2. m \in Nat /\ job.hash \in [QueryKeys -> QueryHashes] /\ DOMAIN keys = 1 .. m
  BY <1>1, BatchingAssumption DEF BatchJobs
<1>3. PICK queries : queries = [i \in DOMAIN keys |-> [key |-> keys[i], data |-> i]]
  OBVIOUS
<1>4. IsBatch(queries, m, job.hash)
  BY <1>1, <1>2, <1>3 DEF IsBatch, IsSeq
<1> QED BY <1>2, <1>3, <1>4, CompleteFor

-----------------------------------------------------------------------------
(* The sorts of answers and of keys, and what they compare. *)
AnswerSort(all) == osort(all, cmp_key_flag)
KeySort(keys) == osort(keys, LAMBDA k, l : k # 0 /\ (l = 0 \/ k < l))
KeyBefore(k, l) == k # 0 /\ (l = 0 \/ k < l)
AnswerBefore(a, c) == Less3(NoKeyLast(a.key), a.key, a.flag, NoKeyLast(c.key), c.key, c.flag)

(* An order by one of them, entries that compare as equal in their places. *)
AnswerOrder(T, all, m) ==
    \A i, j \in 1 .. m : <<i, j>> \in T <=> AnswerBefore(all[i], all[j]) \/ (i <= j /\ ~AnswerBefore(all[j], all[i]))
KeyOrder(keys, n) ==
    {q \in (1 .. n) \X (1 .. n) : KeyBefore(keys[q[1]], keys[q[2]]) \/ (q[1] <= q[2] /\ ~KeyBefore(keys[q[2]], keys[q[1]]))}

(* A permutation that follows an order. *)
Follows(p, T, m) == \A r, s \in 1 .. m : r <= s => <<p[r], p[s]>> \in T

(* MergedAnswers and requests are sorted by their keys, answers first. *)
LEMMA SortedAnswers ==
    ASSUME NEW m \in Nat, NEW all, IsSeq(all, m), \A i \in 1 .. m : all[i].flag \in Nat /\ all[i].key \in Nat
    PROVE  \E p, S, T : /\ IsOrder(T, m) /\ AnswerOrder(T, all, m)
                        /\ Permuted(S, all, p, m) /\ Follows(p, T, m) /\ S = AnswerSort(all)
<1> DEFINE a == [i \in 1 .. m |-> NoKeyLast(all[i].key)]
           b == [i \in 1 .. m |-> all[i].key]
           c == [i \in 1 .. m |-> all[i].flag]
           d == [i \in 1 .. m |-> 0]
           Less(i, j) == AnswerBefore(all[i], all[j])
<1>1. a \in [1 .. m -> Int] /\ b \in [1 .. m -> Int] /\ c \in [1 .. m -> Int] /\ d \in [1 .. m -> Int]
  BY DEF NoKeyLast
<1>2. ASSUME NEW i \in 1 .. m, NEW j \in 1 .. m
      PROVE  /\ cmp_key_flag(all[i], all[j]) <=> Less(i, j)
             /\ Less(i, j) <=> Less4(a[i], b[i], c[i], d[i], a[j], b[j], c[j], d[j])
  <2>1. cmp_key_flag(all[i], all[j]) = lexicographic(<<a[i], b[i], c[i]>>, <<a[j], b[j], c[j]>>)
    BY DEF cmp_key_flag, NoKeyLast
  <2>2. /\ a[i] \in Int /\ b[i] \in Int /\ c[i] \in Int /\ d[i] = 0
        /\ a[j] \in Int /\ b[j] \in Int /\ c[j] \in Int /\ d[j] = 0
    BY <1>1
  <2>3. Less(i, j) = Less3(a[i], b[i], c[i], a[j], b[j], c[j])
    BY DEF AnswerBefore
  <2> HIDE DEF a, b, c, d, Less
  <2>4. Less3(a[i], b[i], c[i], a[j], b[j], c[j]) <=> Less4(a[i], b[i], c[i], d[i], a[j], b[j], c[j], d[j])
    BY <2>2 DEF Less3, Less4
  <2> QED BY <2>1, <2>2, <2>3, <2>4, Lexicographic3
<1>3. PICK S : S = AnswerSort(all)
  OBVIOUS
<1>4. DOMAIN all = 1 .. m
  BY SeqIs
<1> DEFINE Cmp(i, j) == cmp_key_flag(all[i], all[j])
           count == [i \in 1 .. m |-> Cardinality({j \in 1 .. m : Cmp(j, i) \/ (j <= i /\ ~Cmp(i, j))})]
           T == TupleOrder(a, b, c, d, m)
<1>5. S = SortedBy(all, m, count)
  BY <1>3, <1>4 DEF AnswerSort, osort, SortedBy
<1> HIDE DEF a, b, c, d
<1>6. \A i, j \in 1 .. m : <<i, j>> \in T <=> Less(i, j) \/ (i <= j /\ ~Less(j, i))
  <2>1. \A i, j \in 1 .. m : Less(i, j) <=> Less4(a[i], b[i], c[i], d[i], a[j], b[j], c[j], d[j])
    BY <1>2
  <2> HIDE DEF Less
  <2> QED BY <2>1 DEF TupleOrder
<1>7. S = RankSorted(all, m, T)
  <2>1. \A i, j \in 1 .. m : Cmp(i, j) <=> Less(i, j)
    BY <1>2
  <2> HIDE DEF Less, Cmp, T
  <2>2. \A i \in 1 .. m : {j \in 1 .. m : Cmp(j, i) \/ (j <= i /\ ~Cmp(i, j))} = UpTo(T, m, i)
    BY <1>6, <2>1 DEF UpTo
  <2>3. \A i \in 1 .. m : count[i] = Rank(T, m, i)
    BY <2>2 DEF Rank
  <2>4. IsSeq(count, m)
    BY DEF IsSeq
  <2> HIDE DEF count
  <2> QED BY <1>5, <2>3, <2>4, SortIs
<1>8. IsOrder(T, m)
  BY <1>1, LessTotal
<1>9. AnswerOrder(T, all, m)
  <2> HIDE DEF T
  <2> QED BY <1>6 DEF AnswerOrder
<1> HIDE DEF T
<1>10. PICK p : /\ IsPermutation(p, m) /\ S = [r \in 1 .. m |-> all[p[r]]]
                /\ \A r, s \in 1 .. m : r <= s => <<p[r], p[s]>> \in T
  BY <1>7, <1>8, RankSortedIs
<1>11. Permuted(S, all, p, m) /\ Follows(p, T, m)
  BY <1>10 DEF Permuted, Follows
<1> QED BY <1>3, <1>8, <1>9, <1>11

(* Keys are sorted as the requests for them are. *)
LEMMA SortedKeys ==
    ASSUME NEW n \in Nat, NEW keys, IsSeq(keys, n), \A i \in 1 .. n : keys[i] \in Nat,
           NEW m \in Nat, n <= m, NEW all, NEW T, IsOrder(T, m), AnswerOrder(T, all, m),
           \A i \in 1 .. n : all[i].key = keys[i] /\ all[i].flag = 1
    PROVE  /\ IsOrder(KeyOrder(keys, n), n) /\ KeySort(keys) = RankSorted(keys, n, KeyOrder(keys, n))
           /\ \A i, j \in 1 .. n : <<i, j>> \in KeyOrder(keys, n) <=> <<i, j>> \in T
<1> DEFINE K == KeyOrder(keys, n)
           Cmp(i, j) == KeyBefore(keys[i], keys[j])
           count == [i \in 1 .. n |-> Cardinality({j \in 1 .. n : Cmp(j, i) \/ (j <= i /\ ~Cmp(i, j))})]
<1>1. DOMAIN keys = 1 .. n
  BY SeqIs
<1>2. KeySort(keys) = SortedBy(keys, n, count)
  BY <1>1 DEF KeySort, osort, SortedBy, KeyBefore
<1>3. \A i, j \in 1 .. n : <<i, j>> \in K <=> Cmp(i, j) \/ (i <= j /\ ~Cmp(j, i))
  BY DEF KeyOrder
<1>4. K \in SUBSET ((1 .. n) \X (1 .. n))
  BY DEF KeyOrder
<1>5. \A i \in 1 .. n : i \in 1 .. m
  OBVIOUS
<1>6. ASSUME NEW i \in 1 .. n, NEW j \in 1 .. n PROVE Cmp(i, j) <=> AnswerBefore(all[i], all[j])
  BY DEF KeyBefore, AnswerBefore, Less3, NoKeyLast
<1>7. \A i, j \in 1 .. n : <<i, j>> \in K <=> <<i, j>> \in T
  <2> HIDE DEF Cmp, K
  <2> QED BY <1>3, <1>5, <1>6 DEF AnswerOrder
<1> HIDE DEF Cmp, K
<1>8. IsOrder(K, n)
  BY <1>4, <1>5, <1>7 DEF IsOrder
<1>9. \A i \in 1 .. n : {j \in 1 .. n : Cmp(j, i) \/ (j <= i /\ ~Cmp(i, j))} = UpTo(K, n, i)
  BY <1>3 DEF UpTo
<1>10. \A i \in 1 .. n : count[i] = Rank(K, n, i)
  BY <1>9 DEF Rank
<1>11. IsSeq(count, n)
  BY DEF IsSeq
<1> HIDE DEF count
<1>12. KeySort(keys) = RankSorted(keys, n, K)
  BY <1>2, <1>10, <1>11, SortIs
<1> QED BY <1>7, <1>8, <1>12 DEF K

(* A request is among the sorted requests where its key is among the sorted *)
(* keys.                                                                    *)
LEMMA RequestRank ==
    ASSUME NEW m \in Nat, NEW n \in Nat, n <= m, NEW T, IsOrder(T, m), NEW K, IsOrder(K, n),
           \A i, j \in 1 .. n : <<i, j>> \in K <=> <<i, j>> \in T,
           NEW p, IsPermutation(p, m), Follows(p, T, m), NEW r \in 1 .. m, p[r] <= n
    PROVE  Cardinality({s \in 1 .. r : p[s] <= n}) = Rank(K, n, p[r])
<1> DEFINE A == UpTo(K, n, p[r])
<1>1. \A s \in 1 .. m : p[s] \in 1 .. m
  BY DEF IsPermutation
<1>2. p[r] \in 1 .. n
  BY <1>1
<1>3. A \in SUBSET (1 .. n) /\ A \in SUBSET (1 .. m)
  BY DEF UpTo
<1>4. ASSUME NEW s \in 1 .. m PROVE p[s] \in A <=> s \in 1 .. r /\ p[s] <= n
  <2>1. CASE ~(p[s] <= n)
    BY <2>1, <1>3
  <2>2. CASE p[s] <= n
    <3>1. p[s] \in 1 .. n
      BY <2>2, <1>1
    <3>2. p[s] \in A <=> <<p[s], p[r]>> \in T
      BY <3>1, <1>2 DEF UpTo
    <3>3. s <= r => <<p[s], p[r]>> \in T
      BY DEF Follows
    <3>4. ASSUME ~(s <= r) PROVE ~(<<p[s], p[r]>> \in T)
      <4>1. r <= s /\ r # s
        BY <3>4
      <4>2. <<p[r], p[s]>> \in T
        BY <4>1 DEF Follows
      <4>3. p[r] # p[s]
        BY <4>1 DEF IsPermutation
      <4>4. p[r] \in 1 .. m /\ p[s] \in 1 .. m
        BY <1>1
      <4> QED BY <4>2, <4>3, <4>4 DEF IsOrder
    <3>5. s \in 1 .. r <=> s <= r
      OBVIOUS
    <3> QED BY <2>2, <3>2, <3>3, <3>4, <3>5
  <2> QED BY <2>1, <2>2
<1>5. {s \in 1 .. m : p[s] \in A} = {s \in 1 .. r : p[s] <= n}
  <2>1. \A s \in 1 .. r : s \in 1 .. m
    OBVIOUS
  <2> HIDE DEF A
  <2> QED BY <1>4, <2>1
<1> HIDE DEF A
<1>6. Cardinality({s \in 1 .. m : p[s] \in A}) = Cardinality(A)
  BY <1>3, PermutedCount
<1> QED BY <1>5, <1>6 DEF A, Rank

-----------------------------------------------------------------------------
(* The requests among the first entries. *)
Requested(S, i) == {t \in 1 .. i : S[t].flag = 1}

(* They grow by the entries that are requests. *)
LEMMA RequestedStep ==
    ASSUME NEW S, NEW i \in Nat
    PROVE  /\ IsFiniteSet(Requested(S, i)) /\ Cardinality(Requested(S, i)) \in Nat
           /\ S[i + 1].flag = 1 => Cardinality(Requested(S, i + 1)) = Cardinality(Requested(S, i)) + 1
           /\ S[i + 1].flag # 1 => Requested(S, i + 1) = Requested(S, i)
<1>1. IsFiniteSet(1 .. i)
  <2>1. 1 \in Int /\ i \in Int
    OBVIOUS
  <2> QED BY <2>1, FS_Interval
<1>2. Requested(S, i) \in SUBSET (1 .. i)
  BY DEF Requested
<1>3. IsFiniteSet(Requested(S, i))
  BY <1>1, <1>2, FS_Subset
<1>4. Cardinality(Requested(S, i)) \in Nat
  BY <1>3, FS_CardinalityType
<1>5. \A j : j \in 1 .. i + 1 <=> j \in 1 .. i \/ j = i + 1
  OBVIOUS
<1>6. ASSUME S[i + 1].flag = 1 PROVE Cardinality(Requested(S, i + 1)) = Cardinality(Requested(S, i)) + 1
  <2>1. Requested(S, i + 1) = Requested(S, i) \cup {i + 1}
    BY <1>5, <1>6 DEF Requested
  <2>2. ~(i + 1 \in Requested(S, i))
    BY <1>2
  <2> QED BY <1>3, <2>1, <2>2, FS_AddElement
<1>7. ASSUME S[i + 1].flag # 1 PROVE Requested(S, i + 1) = Requested(S, i)
  BY <1>5, <1>7 DEF Requested
<1> QED BY <1>3, <1>4, <1>6, <1>7

(* Requests are counted in their order. *)
LEMMA RequestedLess ==
    ASSUME NEW S, NEW i \in Nat, NEW s \in 1 .. i, S[s].flag = 1
    PROVE  Cardinality(Requested(S, s)) \in 1 .. Cardinality(Requested(S, i))
<1>1. Requested(S, s) \in SUBSET Requested(S, i) /\ s \in Requested(S, s) /\ s \in Nat
  BY DEF Requested
<1>2. /\ IsFiniteSet(Requested(S, i)) /\ Cardinality(Requested(S, i)) \in Nat
      /\ IsFiniteSet(Requested(S, s)) /\ Cardinality(Requested(S, s)) \in Nat
  BY <1>1, RequestedStep
<1>3. Cardinality(Requested(S, s)) <= Cardinality(Requested(S, i))
  BY <1>1, <1>2, FS_Subset
<1>4. Cardinality(Requested(S, s)) # 0
  BY <1>1, <1>2, FS_EmptySet
<1> QED BY <1>2, <1>3, <1>4

(* Two requests have different numbers. *)
LEMMA RequestedInjective ==
    ASSUME NEW S, NEW i \in Nat \ {0}, NEW k \in Nat \ {0}, S[i].flag = 1, S[k].flag = 1,
           Cardinality(Requested(S, i)) = Cardinality(Requested(S, k))
    PROVE  i = k
<1>1. ASSUME NEW s \in Nat \ {0}, NEW t \in Nat \ {0}, s < t, S[s].flag = 1, S[t].flag = 1
      PROVE  Cardinality(Requested(S, s)) # Cardinality(Requested(S, t))
  <2>1. t - 1 \in Nat /\ s \in 1 .. t - 1 /\ (t - 1) + 1 = t
    BY <1>1
  <2>2. Cardinality(Requested(S, s)) \in 1 .. Cardinality(Requested(S, t - 1))
    BY <1>1, <2>1, RequestedLess
  <2>3. /\ Cardinality(Requested(S, t - 1)) \in Nat
        /\ Cardinality(Requested(S, t)) = Cardinality(Requested(S, t - 1)) + 1
    BY <1>1, <2>1, RequestedStep
  <2> QED BY <2>2, <2>3
<1> QED BY <1>1

-----------------------------------------------------------------------------
(* An iteration of the pass that copies. *)
CopyStep(v, S, i) ==
    LET c == IF S[i].key # S[i - 1].key THEN S[i] ELSE v.current
    IN  [current |-> c,
         out |-> IF S[i].flag = 0 THEN v.out
                 ELSE Append(v.out, IF do_copy(S, i, c) THEN [key |-> S[i].key, data |-> c.data]
                                    ELSE [key |-> NilKey, data |-> NoData])]
CopyInit(S) ==
    [current |-> S[1], out |-> IF S[1].flag = 1 THEN <<[key |-> NilKey, data |-> NoData]>> ELSE << >>]

(* The iterations as a function. *)
LEMMA CopySteps ==
    ASSUME NEW N \in Nat \ {0}, NEW S, IsSeq(S, N)
    PROVE  \E f : /\ copied(S) = f[N].out /\ f[1] = CopyInit(S)
                  /\ \A i \in 1 .. N - 1 : f[i + 1] = CopyStep(f[i], S, i + 1)
<1> DEFINE c0 == [current |-> S[1],
                  out |-> IF S[1].flag = 1 THEN <<[key |-> NilKey, data |-> NoData]>> ELSE << >>]
           Def(v, i) == LET p == v
                            c == IF S[i].key # S[i - 1].key THEN S[i] ELSE p.current
                        IN  [current |-> c,
                             out |-> IF S[i].flag = 0 THEN p.out
                                     ELSE Append(p.out, IF do_copy(S, i, c)
                                                        THEN [key |-> S[i].key, data |-> c.data]
                                                        ELSE [key |-> NilKey, data |-> NoData])]
           pass[i \in 1 .. Len(S)] ==
            IF i = 1 THEN [current |-> S[1],
                                 out |-> IF S[1].flag = 1
                                         THEN <<[key |-> NilKey, data |-> NoData]>> ELSE << >>]
            ELSE LET p == pass[i - 1]
                     c == IF S[i].key # S[i - 1].key THEN S[i] ELSE p.current
                 IN  [current |-> c,
                      out |-> IF S[i].flag = 0 THEN p.out
                              ELSE Append(p.out, IF do_copy(S, i, c)
                                                 THEN [key |-> S[i].key, data |-> c.data]
                                                 ELSE [key |-> NilKey, data |-> NoData])]
<1>1. Len(S) = N
  BY SeqIs
<1>2. FiniteNatInductiveDefConclusion(pass, c0, Def, 1, Len(S))
  <2>1. FiniteNatInductiveDefHypothesis(pass, c0, Def, 1, Len(S))
    BY DEF FiniteNatInductiveDefHypothesis
  <2>2. 1 \in Nat /\ Len(S) \in Nat
    BY <1>1
  <2> HIDE DEF pass, c0, Def
  <2> QED BY <2>1, <2>2, FiniteNatInductiveDef
<1>3. pass = [i \in 1 .. Len(S) |-> IF i = 1 THEN c0 ELSE Def(pass[i - 1], i)]
  BY <1>2 DEF FiniteNatInductiveDefConclusion
<1>4. copied(S) = pass[Len(S)].out
  BY DEF copied
<1>5. \A v : \A i : Def(v, i) = CopyStep(v, S, i)
  BY DEF CopyStep
<1>6. c0 = CopyInit(S)
  BY DEF CopyInit
<1> HIDE DEF pass, Def, c0
<1>7. pass = [i \in 1 .. N |-> IF i = 1 THEN c0 ELSE Def(pass[i - 1], i)]
  BY <1>1, <1>3
<1>8. pass[1] = c0
  <2>1. 1 \in 1 .. N
    OBVIOUS
  <2>2. pass[1] = IF 1 = 1 THEN c0 ELSE Def(pass[1 - 1], 1)
    BY <2>1, <1>7, Zenon
  <2> QED BY <2>2
<1>9. ASSUME NEW i \in 1 .. N - 1 PROVE pass[i + 1] = CopyStep(pass[i], S, i + 1)
  <2>1. i + 1 \in 1 .. N /\ i + 1 # 1 /\ (i + 1) - 1 = i
    OBVIOUS
  <2>2. pass[i + 1] = IF i + 1 = 1 THEN c0 ELSE Def(pass[(i + 1) - 1], i + 1)
    BY <2>1, <1>7, Zenon
  <2>3. pass[i + 1] = Def(pass[i], i + 1)
    BY <2>1, <2>2
  <2> QED BY <2>3, <1>5
<1>10. copied(S) = pass[N].out
  BY <1>1, <1>4
<1> QED BY <1>6, <1>8, <1>9, <1>10

-----------------------------------------------------------------------------
(* Where the run of equal keys that ends at i begins, and what a request    *)
(* gets: the data at the beginning of its run.                              *)
StartsRun(S, i, j) == S[j].key = S[i].key /\ \A t \in 1 .. i : S[t].key = S[i].key => j <= t
NotFound == [key |-> NilKey, data |-> NoData]
ResultOf(S, s, e) ==
    \E j \in 1 .. s : /\ StartsRun(S, s, j)
                      /\ e = IF j < s /\ S[s].key # 0 THEN [key |-> S[s].key, data |-> S[j].data] ELSE NotFound

(* Equal keys are together. *)
Contiguous(S, N) ==
    /\ \A r \in 1 .. N : S[r].flag \in {0, 1}
    /\ \A r \in 1 .. N, k \in 1 .. N : k < r /\ S[k].key = S[r].key => S[r - 1].key = S[r].key

(* The pass so far. *)
CopyInv(v, S, i) ==
    /\ \E j \in 1 .. i : v.current = S[j] /\ StartsRun(S, i, j)
    /\ IsSeq(v.out, Cardinality(Requested(S, i)))
    /\ \A s \in 1 .. i : S[s].flag = 1 => ResultOf(S, s, v.out[Cardinality(Requested(S, s))])

(* The output with a result more. *)
LEMMA ResultAdded ==
    ASSUME NEW S, NEW i \in Nat, NEW out, IsSeq(out, Cardinality(Requested(S, i))), S[i + 1].flag = 1,
           \A s \in 1 .. i : S[s].flag = 1 => ResultOf(S, s, out[Cardinality(Requested(S, s))]),
           NEW e, ResultOf(S, i + 1, e)
    PROVE  /\ IsSeq(Added(out, e), Cardinality(Requested(S, i + 1)))
           /\ \A s \in 1 .. i + 1 : S[s].flag = 1 => ResultOf(S, s, Added(out, e)[Cardinality(Requested(S, s))])
<1>1. PICK L : L = Cardinality(Requested(S, i))
  OBVIOUS
<1>2. L \in Nat /\ Cardinality(Requested(S, i + 1)) = L + 1
  BY <1>1, RequestedStep
<1>3. PICK o : o = Added(out, e)
  OBVIOUS
<1>4. IsSeq(o, L + 1) /\ o[L + 1] = e /\ \A x \in 1 .. L : o[x] = out[x]
  BY <1>1, <1>2, <1>3, AppendIs
<1>5. ASSUME NEW s \in 1 .. i + 1, S[s].flag = 1 PROVE ResultOf(S, s, o[Cardinality(Requested(S, s))])
  <2>1. CASE s = i + 1
    BY <2>1, <1>2, <1>4
  <2>2. CASE s \in 1 .. i
    <3>1. Cardinality(Requested(S, s)) \in 1 .. L
      BY <2>2, <1>1, <1>5, RequestedLess
    <3>2. o[Cardinality(Requested(S, s))] = out[Cardinality(Requested(S, s))]
      BY <3>1, <1>4
    <3> QED BY <2>2, <3>2, <1>5
  <2> QED BY <2>1, <2>2
<1> QED BY <1>2, <1>3, <1>4, <1>5

(* The current record goes on to be the beginning of the run. *)
LEMMA CurrentStep ==
    ASSUME NEW N \in Nat, NEW S, Contiguous(S, N), NEW i \in 1 .. N - 1,
           NEW j \in 1 .. i, StartsRun(S, i, j), NEW c,
           c = IF S[i + 1].key # S[i].key THEN S[i + 1] ELSE S[j]
    PROVE  \E k \in 1 .. i + 1 : c = S[k] /\ StartsRun(S, i + 1, k) /\ (k < i + 1 <=> S[i + 1].key = S[i].key)
<1>1. i + 1 \in 1 .. N /\ (i + 1) - 1 = i /\ i + 1 \in 1 .. i + 1 /\ j \in 1 .. i + 1 /\ j < i + 1
  OBVIOUS
<1>2. \A t : t \in 1 .. i + 1 <=> t \in 1 .. i \/ t = i + 1
  OBVIOUS
<1>3. CASE S[i + 1].key # S[i].key
  <2>1. ASSUME NEW t \in 1 .. i + 1, S[t].key = S[i + 1].key PROVE i + 1 <= t
    <3>1. CASE t < i + 1
      <4>1. t \in 1 .. N
        BY <1>1
      <4>2. S[(i + 1) - 1].key = S[i + 1].key
        BY <4>1, <3>1, <2>1, <1>1 DEF Contiguous
      <4> QED BY <4>2, <1>1, <1>3
    <3> QED BY <3>1
  <2>2. StartsRun(S, i + 1, i + 1)
    BY <2>1 DEF StartsRun
  <2>3. ~(i + 1 < i + 1)
    OBVIOUS
  <2> QED BY <2>2, <2>3, <1>1, <1>3
<1>4. CASE S[i + 1].key = S[i].key
  <2>1. StartsRun(S, i + 1, j)
    BY <1>1, <1>2, <1>4 DEF StartsRun
  <2> QED BY <2>1, <1>1, <1>4
<1> QED BY <1>3, <1>4

(* An iteration. *)
LEMMA CopyInvStep ==
    ASSUME NEW N \in Nat, NEW S, Contiguous(S, N), NEW i \in 1 .. N - 1, NEW v, CopyInv(v, S, i)
    PROVE  CopyInv(CopyStep(v, S, i + 1), S, i + 1)
<1> DEFINE c == IF S[i + 1].key # S[i].key THEN S[i + 1] ELSE v.current
           e == IF do_copy(S, i + 1, c) THEN [key |-> S[i + 1].key, data |-> c.data] ELSE NotFound
<1>1. i + 1 \in 1 .. N /\ (i + 1) - 1 = i /\ i \in Nat
  OBVIOUS
<1>2. PICK j \in 1 .. i : v.current = S[j] /\ StartsRun(S, i, j)
  BY DEF CopyInv
<1>3. PICK k \in 1 .. i + 1 : c = S[k] /\ StartsRun(S, i + 1, k) /\ (k < i + 1 <=> S[i + 1].key = S[i].key)
  BY <1>2, CurrentStep
<1>4. S[i + 1].flag \in {0, 1}
  BY <1>1 DEF Contiguous
<1>5. /\ CopyStep(v, S, i + 1).current = c
      /\ CopyStep(v, S, i + 1).out = IF S[i + 1].flag = 0 THEN v.out ELSE Added(v.out, e)
  BY <1>1 DEF CopyStep, Added, NotFound
<1>6. S[i + 1].flag = 1 => ResultOf(S, i + 1, e)
  <2>1. c.key = S[i + 1].key
    BY <1>3 DEF StartsRun
  <2>2. S[i + 1].flag = 1 => (do_copy(S, i + 1, c) <=> k < i + 1 /\ S[i + 1].key # 0)
    BY <2>1, <1>1, <1>3 DEF do_copy
  <2>3. S[i + 1].flag = 1 => e = IF k < i + 1 /\ S[i + 1].key # 0 THEN [key |-> S[i + 1].key, data |-> S[k].data]
                                 ELSE NotFound
    BY <2>2, <1>3
  <2> HIDE DEF e, c
  <2> QED BY <2>3, <1>3 DEF ResultOf
<1> HIDE DEF e, c
<1>7. PICK w : w = CopyStep(v, S, i + 1)
  OBVIOUS
<1>8. \E x \in 1 .. i + 1 : w.current = S[x] /\ StartsRun(S, i + 1, x)
  BY <1>3, <1>5, <1>7
<1>9. CASE S[i + 1].flag = 1
  <2>1. w.out = Added(v.out, e)
    BY <1>5, <1>7, <1>9
  <2>2. /\ IsSeq(Added(v.out, e), Cardinality(Requested(S, i + 1)))
        /\ \A s \in 1 .. i + 1 : S[s].flag = 1 => ResultOf(S, s, Added(v.out, e)[Cardinality(Requested(S, s))])
    BY <1>1, <1>6, <1>9, ResultAdded DEF CopyInv
  <2> QED BY <2>1, <2>2, <1>7, <1>8 DEF CopyInv
<1>10. CASE S[i + 1].flag = 0
  <2>1. w.out = v.out
    BY <1>5, <1>7, <1>10
  <2>2. Requested(S, i + 1) = Requested(S, i)
    BY <1>1, <1>10, RequestedStep
  <2>3. \A s \in 1 .. i + 1 : S[s].flag = 1 => s \in 1 .. i
    BY <1>10
  <2> QED BY <2>1, <2>2, <2>3, <1>7, <1>8 DEF CopyInv
<1> QED BY <1>4, <1>9, <1>10

(* The pass begins. *)
LEMMA CopyInvInit ==
    ASSUME NEW N \in Nat \ {0}, NEW S, Contiguous(S, N)
    PROVE  CopyInv(CopyInit(S), S, 1)
<1>1. \A x : x \in 1 .. 1 <=> x = 1
  OBVIOUS
<1>2. S[1].flag \in {0, 1}
  BY DEF Contiguous
<1>3. StartsRun(S, 1, 1)
  BY <1>1 DEF StartsRun
<1>4. ResultOf(S, 1, NotFound)
  <2>1. ~(1 < 1) /\ 1 \in 1 .. 1
    OBVIOUS
  <2> QED BY <2>1, <1>3 DEF ResultOf
<1>5. PICK v : v = CopyInit(S)
  OBVIOUS
<1>6. v.current = S[1] /\ v.out = IF S[1].flag = 1 THEN <<NotFound>> ELSE << >>
  BY <1>5 DEF CopyInit, NotFound
<1>7. Requested(S, 1) = IF S[1].flag = 1 THEN {1} ELSE {}
  BY <1>1 DEF Requested
<1>8. CASE S[1].flag = 1
  <2>1. Cardinality(Requested(S, 1)) = 1
    BY <1>7, <1>8, FS_Singleton
  <2>2. \A x : <<x>> = [i \in 1 .. 1 |-> <<x>>[i]] /\ <<x>>[1] = x
    OBVIOUS
  <2>3. IsSeq(v.out, 1) /\ v.out[1] = NotFound
    <3> HIDE DEF NotFound
    <3> QED BY <2>2, <1>6, <1>8 DEF IsSeq
  <2> QED BY <2>1, <2>3, <1>1, <1>3, <1>4, <1>5, <1>6 DEF CopyInv
<1>9. CASE S[1].flag = 0
  <2>1. Cardinality(Requested(S, 1)) = 0
    BY <1>7, <1>9, FS_EmptySet
  <2>2. << >> = [i \in 1 .. 0 |-> << >>[i]]
    OBVIOUS
  <2>3. IsSeq(v.out, 0)
    BY <2>2, <1>6, <1>9 DEF IsSeq
  <2> QED BY <2>1, <2>3, <1>1, <1>3, <1>5, <1>6, <1>9 DEF CopyInv
<1> QED BY <1>2, <1>8, <1>9

(* What the pass leaves: a result for each request, in their order. *)
LEMMA CopiedIs ==
    ASSUME NEW N \in Nat \ {0}, NEW S, IsSeq(S, N), Contiguous(S, N)
    PROVE  /\ IsSeq(copied(S), Cardinality(Requested(S, N)))
           /\ \A s \in 1 .. N : S[s].flag = 1 => ResultOf(S, s, copied(S)[Cardinality(Requested(S, s))])
<1>1. PICK f : /\ copied(S) = f[N].out /\ f[1] = CopyInit(S)
               /\ \A i \in 1 .. N - 1 : f[i + 1] = CopyStep(f[i], S, i + 1)
  BY CopySteps
<1> DEFINE I == {k \in Nat : k + 1 <= N => CopyInv(f[k + 1], S, k + 1)}
<1>2. 0 \in I
  <2>1. f[0 + 1] = f[1] /\ 0 + 1 = 1
    OBVIOUS
  <2>2. CopyInv(f[1], S, 1)
    BY <1>1, CopyInvInit
  <2> QED BY <2>1, <2>2
<1>3. ASSUME NEW k \in Nat, k \in I PROVE k + 1 \in I
  <2>1. SUFFICES ASSUME (k + 1) + 1 <= N PROVE CopyInv(f[(k + 1) + 1], S, (k + 1) + 1)
    BY DEF I
  <2>2. CopyInv(f[k + 1], S, k + 1) /\ k + 1 \in 1 .. N - 1
    BY <2>1, <1>3
  <2> QED BY <2>2, <1>1, CopyInvStep
<1>4. \A k \in Nat : k \in I
  <2> HIDE DEF I
  <2> QED BY <1>2, <1>3, SetInduction
<1>5. CopyInv(f[N], S, N)
  <2>1. N - 1 \in Nat /\ (N - 1) + 1 = N /\ f[(N - 1) + 1] = f[N]
    OBVIOUS
  <2> QED BY <2>1, <1>4
<1> QED BY <1>1, <1>5 DEF CopyInv

-----------------------------------------------------------------------------
(* The answers of the shards in the merged array: none of a shard that      *)
(* failed, and the records of the keys that are present.                    *)
ShardAnswers(all, n, b, batches, present, failed) ==
    \A sh \in Shards, i \in 1 .. b : \E a :
        /\ a = all[n + (sh * b + i)] /\ a.flag = 0
        /\ IF sh \in failed THEN a.key = 0 /\ a.data = NoData
           ELSE IF batches[sh][i].key \in present
                THEN a.key = batches[sh][i].key /\ a.data = batches[sh][i].key
                ELSE a.key = NilKey /\ a.data = NoData

(* The merged array. *)
LEMMA MergedIs ==
    ASSUME NEW n \in Nat, NEW keys, IsSeq(keys, n), NEW b \in Nat, NEW batches, Asked(batches, b),
           NEW present, NEW failed, NEW all,
           all = merged(keys, [sh \in Shards |-> answers_of(batches[sh], present)], failed, b)
    PROVE  /\ IsSeq(all, n + b * NUM_SHARDS) /\ b * NUM_SHARDS \in Nat
           /\ \A x \in 1 .. n : all[x].key = keys[x] /\ all[x].flag = 1 /\ all[x].data = NoData
           /\ ShardAnswers(all, n, b, batches, present, failed)
<1> DEFINE M == b * NUM_SHARDS
           answers == [sh \in Shards |-> answers_of(batches[sh], present)]
           c == [i \in 1 .. n |-> [key |-> keys[i], flag |-> 1, data |-> NoData]]
           Slot(i) == IF (i - 1) \div b \in failed THEN [key |-> 0, flag |-> 0, data |-> NoData]
                      ELSE [key |-> answers[(i - 1) \div b][((i - 1) % b) + 1].key, flag |-> 0,
                            data |-> answers[(i - 1) \div b][((i - 1) % b) + 1].data]
           d == [i \in 1 .. M |-> Slot(i)]
<1>1. M \in Nat /\ NUM_SHARDS \in Nat
  BY StepIs
<1>2. DOMAIN keys = 1 .. n
  BY SeqIs
<1>3. all = Join(c, d)
  BY <1>2 DEF merged, Join
<1> HIDE DEF answers
<1>4. IsSeq(c, n) /\ \A x \in 1 .. n : c[x].key = keys[x] /\ c[x].flag = 1 /\ c[x].data = NoData
  BY DEF IsSeq
<1> HIDE DEF c, Slot, M
<1>5. IsSeq(d, M) /\ \A y \in 1 .. M : d[y] = Slot(y)
  BY DEF IsSeq
<1> HIDE DEF d
<1>6. IsSeq(all, n + M) /\ \A x \in 1 .. n + M : all[x] = IF x <= n THEN c[x] ELSE d[x - n]
  <2>1. IsSeq(c, n)
    BY <1>4
  <2>2. IsSeq(d, M)
    BY <1>5
  <2>3. /\ IsSeq(Join(c, d), n + M)
        /\ \A x \in 1 .. n + M : Join(c, d)[x] = IF x <= n THEN c[x] ELSE d[x - n]
    BY <1>1, <2>1, <2>2, JoinIs
  <2> QED BY <2>3, <1>3
<1>7. ASSUME NEW x \in 1 .. n PROVE all[x].key = keys[x] /\ all[x].flag = 1 /\ all[x].data = NoData
  <2>1. x \in 1 .. n + M /\ x <= n
    BY <1>1
  <2>2. all[x] = c[x]
    BY <2>1, <1>6
  <2> QED BY <2>2, <1>4
<1>8. ASSUME NEW y \in 1 .. M PROVE all[n + y] = Slot(y)
  <2>1. n + y \in 1 .. n + M /\ ~(n + y <= n) /\ (n + y) - n = y
    BY <1>1
  <2>2. all[n + y] = d[y]
    BY <2>1, <1>6
  <2> QED BY <2>2, <1>5
<1>9. ASSUME NEW sh \in Shards, NEW i \in 1 .. b
      PROVE  \E a : /\ a = all[n + (sh * b + i)] /\ a.flag = 0
                    /\ IF sh \in failed THEN a.key = 0 /\ a.data = NoData
                       ELSE IF batches[sh][i].key \in present
                            THEN a.key = batches[sh][i].key /\ a.data = batches[sh][i].key
                            ELSE a.key = NilKey /\ a.data = NoData
  <2>1. PICK y : y = sh * b + i
    OBVIOUS
  <2>2. b \in Nat \ {0}
    OBVIOUS
  <2>3. sh \in Nat /\ y \in 1 .. NUM_SHARDS * b /\ (y - 1) \div b = sh
    BY <2>1, <2>2, PlaceIs
  <2>4. y \in 1 .. M
    <3>1. M = NUM_SHARDS * b
      BY <1>1 DEF M
    <3> QED BY <3>1, <2>3
  <2>5. ((y - 1) % b) + 1 = i
    <3>1. i - 1 \in Nat /\ i - 1 < b
      OBVIOUS
    <3>2. (b * sh + (i - 1)) % b = i - 1
      BY <3>1, <2>2, <2>3, DivModIs
    <3>3. y - 1 = b * sh + (i - 1)
      <4>1. sh * b = b * sh /\ b * sh \in Nat
        BY <2>2, <2>3
      <4> QED BY <4>1, <2>1
    <3>4. (y - 1) % b = i - 1
      BY <3>2, <3>3
    <3> QED BY <3>4
  <2>6. Slot(y) = IF sh \in failed THEN [key |-> 0, flag |-> 0, data |-> NoData]
                  ELSE [key |-> answers[sh][i].key, flag |-> 0, data |-> answers[sh][i].data]
    BY <2>3, <2>5 DEF Slot
  <2>7. answers[sh][i] = IF batches[sh][i].key \in present
                         THEN [key |-> batches[sh][i].key, data |-> batches[sh][i].key]
                         ELSE [key |-> NilKey, data |-> NoData]
    <3>1. DOMAIN batches[sh] = 1 .. b
      BY DEF Asked
    <3>2. answers[sh] = answers_of(batches[sh], present)
      BY DEF answers
    <3> QED BY <3>1, <3>2 DEF answers_of
  <2>8. PICK a : a = all[n + y]
    OBVIOUS
  <2>9. a = Slot(y)
    BY <2>4, <2>8, <1>8
  <2>10. CASE sh \in failed
    <3>1. a = [key |-> 0, flag |-> 0, data |-> NoData]
      BY <2>6, <2>9, <2>10
    <3> QED BY <3>1, <2>1, <2>8, <2>10
  <2>11. CASE sh \notin failed /\ batches[sh][i].key \in present
    <3>1. a = [key |-> batches[sh][i].key, flag |-> 0, data |-> batches[sh][i].key]
      BY <2>6, <2>7, <2>9, <2>11
    <3> QED BY <3>1, <2>1, <2>8, <2>11
  <2>12. CASE sh \notin failed /\ batches[sh][i].key \notin present
    <3>1. a = [key |-> NilKey, flag |-> 0, data |-> NoData]
      BY <2>6, <2>7, <2>9, <2>12
    <3> QED BY <3>1, <2>1, <2>8, <2>12
  <2> QED BY <2>10, <2>11, <2>12
<1>10. ShardAnswers(all, n, b, batches, present, failed)
  BY <1>9, Zenon DEF ShardAnswers
<1> QED BY <1>1, <1>6, <1>7, <1>10 DEF M

(* An entry of the merged array with a key that is not a request: the       *)
(* record of a key of a shard that did not fail.                            *)
RecordOf(a, hash, present, failed) ==
    a.data = a.key /\ a.key \in present /\ shard_id(hash[a.key]) \in Shards \ failed

MergedAnswers(all, n, m, hash, present, failed) ==
    \A x \in 1 .. m :
        /\ all[x].flag \in {0, 1} /\ all[x].key \in Nat /\ (x <= n <=> all[x].flag = 1)
        /\ all[x].flag = 0 /\ all[x].key \in QueryKeys \ {0} => RecordOf(all[x], hash, present, failed)
        /\ all[x].flag = 1 => all[x].data = NoData
AllAnswers(all, n, m, hash, present, failed) ==
    \A x \in 1 .. n : all[x].key \in present /\ shard_id(hash[all[x].key]) \in Shards \ failed =>
        \E y \in 1 .. m : all[y].flag = 0 /\ all[y].key = all[x].key

(* What a request for a key should get; earlier: there is one for the key   *)
(* before it.                                                               *)
Answer(e, key, earlier, hash, present, failed) ==
    IF key \in present /\ shard_id(hash[key]) \in Shards \ failed
    THEN e = [key |-> key, data |-> key]
    ELSE e = [key |-> IF earlier THEN key ELSE NilKey, data |-> NoData]

(* A request before position r has the key of the one there. *)
AskedBefore(S, r) == S[r].key # 0 /\ \E s \in 1 .. r - 1 : S[s].flag = 1 /\ S[s].key = S[r].key

(* MergedAnswers are such records, and every one that there is. *)
LEMMA AnswersAre ==
    ASSUME NEW n \in Nat, NEW queries, NEW hash, IsBatch(queries, n, hash),
           NEW b \in Nat, NEW batches, FromQueries(batches, b, n, queries, hash, "query"),
           AllAsked(batches, b, n, queries, hash),
           NEW present \in SUBSET (QueryKeys \ {0}), NEW failed, NEW all,
           ShardAnswers(all, n, b, batches, present, failed),
           \A x \in 1 .. n : all[x].key = queries[x].key /\ all[x].flag = 1 /\ all[x].data = NoData
    PROVE  /\ MergedAnswers(all, n, n + b * NUM_SHARDS, hash, present, failed)
           /\ AllAnswers(all, n, n + b * NUM_SHARDS, hash, present, failed)
<1>1. b * NUM_SHARDS \in Nat /\ NUM_SHARDS \in Nat /\ U64 \in Nat \ {0} /\ NilKey \in Nat /\ NilKey = U64 - 1
  <2>1. NUM_SHARDS \in Nat /\ U64 \in Nat \ {0}
    BY StepIs
  <2> QED BY <2>1 DEF NilKey
<1>2. NilKey \notin QueryKeys /\ QueryKeys \in SUBSET Nat
  <2>1. QueryKeys \in SUBSET (0 .. U64 - 2)
    BY BatchingAssumption
  <2> QED BY <2>1, <1>1
<1>3. NUM_SHARDS * b = b * NUM_SHARDS
  BY <1>1
<1>4. ASSUME NEW x \in 1 .. n
      PROVE  all[x].flag \in {0, 1} /\ all[x].key \in Nat /\ all[x].flag = 1
  BY BatchIs
<1>5. ASSUME NEW sh \in Shards, NEW i \in 1 .. b, NEW a, a = all[n + (sh * b + i)]
      PROVE  /\ a.flag = 0 /\ a.key \in Nat
             /\ a.key \in QueryKeys \ {0} => RecordOf(a, hash, present, failed)
  <2>1. /\ a.flag = 0
        /\ IF sh \in failed THEN a.key = 0 /\ a.data = NoData
           ELSE IF batches[sh][i].key \in present
                THEN a.key = batches[sh][i].key /\ a.data = batches[sh][i].key
                ELSE a.key = NilKey /\ a.data = NoData
    BY <1>5 DEF ShardAnswers
  <2>2. a.key \in Nat
    <3>1. \A k \in present : k \in Nat
      BY <1>2
    <3>2. a.key = 0 \/ a.key = NilKey \/ a.key \in present
      BY <2>1
    <3> QED BY <3>1, <3>2, <1>1
  <2>3. ASSUME a.key \in QueryKeys \ {0} PROVE RecordOf(a, hash, present, failed)
    <3>1. sh \notin failed /\ batches[sh][i].key \in present
      BY <2>1, <2>3, <1>2
    <3>2. a.key = batches[sh][i].key /\ a.data = batches[sh][i].key
      BY <2>1, <3>1
    <3>3. PICK x \in 1 .. n : batches[sh][i].key = queries[x].key /\ shard_id(hash[queries[x].key]) = sh
      BY <2>3, <3>2 DEF FromQueries
    <3> QED BY <3>1, <3>2, <3>3 DEF RecordOf
  <2> QED BY <2>1, <2>2, <2>3
<1>6. ASSUME NEW x \in 1 .. n + b * NUM_SHARDS, ~(x <= n)
      PROVE  \E sh \in Shards, i \in 1 .. b : x = n + (sh * b + i)
  <2>1. x - n \in 1 .. b * NUM_SHARDS /\ x = n + (x - n)
    BY <1>1, <1>6
  <2>2. b # 0
    <3>1. CASE b = 0
      <4>1. b * NUM_SHARDS = 0
        BY <3>1, <1>1
      <4> QED BY <4>1, <2>1
    <3> QED BY <3>1
  <2>3. PICK sh \in Shards, i \in 1 .. b : x - n = sh * b + i
    BY <2>1, <2>2, <1>3, PlaceIs
  <2> QED BY <2>1, <2>3
<1>7. ASSUME NEW x \in 1 .. n + b * NUM_SHARDS
      PROVE  /\ all[x].flag \in {0, 1} /\ all[x].key \in Nat /\ (x <= n <=> all[x].flag = 1)
             /\ all[x].flag = 0 /\ all[x].key \in QueryKeys \ {0} => RecordOf(all[x], hash, present, failed)
             /\ all[x].flag = 1 => all[x].data = NoData
  <2>1. CASE x <= n
    <3>1. x \in 1 .. n
      BY <2>1, <1>1
    <3> QED BY <3>1, <2>1, <1>4
  <2>2. CASE ~(x <= n)
    <3>1. PICK sh \in Shards, i \in 1 .. b : x = n + (sh * b + i)
      BY <2>2, <1>6
    <3> QED BY <3>1, <2>2, <1>5
  <2> QED BY <2>1, <2>2
<1>8. ASSUME NEW x \in 1 .. n, queries[x].key \in present, shard_id(hash[queries[x].key]) \in Shards \ failed
      PROVE  \E y \in 1 .. n + b * NUM_SHARDS : all[y].flag = 0 /\ all[y].key = queries[x].key
  <2>1. queries[x].key # 0 /\ shard_id(hash[queries[x].key]) < NUM_SHARDS
    BY <1>1, <1>8 DEF Shards
  <2>2. PICK sh \in Shards, i \in 1 .. b : batches[sh][i].key = queries[x].key
    BY <2>1 DEF AllAsked
  <2>3. PICK z \in 1 .. n : batches[sh][i].key = queries[z].key /\ shard_id(hash[queries[z].key]) = sh
    BY <2>1, <2>2 DEF FromQueries
  <2>4. sh \notin failed
    BY <2>2, <2>3, <1>8
  <2>5. all[n + (sh * b + i)].flag = 0 /\ all[n + (sh * b + i)].key = queries[x].key
    BY <2>2, <2>4, <1>8 DEF ShardAnswers
  <2>6. b \in Nat \ {0}
    OBVIOUS
  <2>7. sh * b + i \in 1 .. NUM_SHARDS * b
    BY <2>6, PlaceIs
  <2>8. n + (sh * b + i) \in 1 .. n + b * NUM_SHARDS
    BY <2>7, <1>1, <1>3
  <2> QED BY <2>5, <2>8
<1>9. MergedAnswers(all, n, n + b * NUM_SHARDS, hash, present, failed)
  BY <1>7 DEF MergedAnswers
<1>10. \A x \in 1 .. n : all[x].key = queries[x].key
  OBVIOUS
<1>11. AllAnswers(all, n, n + b * NUM_SHARDS, hash, present, failed)
  BY <1>8, <1>10 DEF AllAnswers
<1> QED BY <1>9, <1>11

-----------------------------------------------------------------------------
(* In the sorted array, keys and then flags grow. *)
LEMMA AnswersGrow ==
    ASSUME NEW m \in Nat, NEW all, \A x \in 1 .. m : all[x].flag \in {0, 1} /\ all[x].key \in Nat,
           NEW T, AnswerOrder(T, all, m), NEW p, NEW S, Permuted(S, all, p, m), Follows(p, T, m),
           NEW r \in 1 .. m, NEW s \in 1 .. m, r <= s
    PROVE  /\ NoKeyLast(S[r].key) <= NoKeyLast(S[s].key) /\ NoKeyLast(S[r].key) \in Nat /\ NoKeyLast(S[s].key) \in Nat
           /\ NoKeyLast(S[r].key) = NoKeyLast(S[s].key) => S[r].key <= S[s].key
           /\ S[r].key = S[s].key => S[r].flag <= S[s].flag
<1>1. PICK x, y \in 1 .. m : x = p[r] /\ y = p[s] /\ S[r] = all[x] /\ S[s] = all[y]
  BY DEF Permuted, IsPermutation
<1>2. <<x, y>> \in T
  BY <1>1 DEF Follows
<1>3. AnswerBefore(all[x], all[y]) \/ ~AnswerBefore(all[y], all[x])
  BY <1>2 DEF AnswerOrder
<1>4. PICK a1, a2, a3, b1, b2, b3 \in Nat :
         /\ a1 = NoKeyLast(S[r].key) /\ a2 = S[r].key /\ a3 = S[r].flag
         /\ b1 = NoKeyLast(S[s].key) /\ b2 = S[s].key /\ b3 = S[s].flag
  <2>1. \A k : NoKeyLast(k) \in Nat
    BY DEF NoKeyLast
  <2>2. S[r].key \in Nat /\ S[r].flag \in Nat /\ S[s].key \in Nat /\ S[s].flag \in Nat
    BY <1>1
  <2> QED BY <2>1, <2>2
<1>5. Less3(a1, a2, a3, b1, b2, b3) \/ ~Less3(b1, b2, b3, a1, a2, a3)
  BY <1>1, <1>3, <1>4 DEF AnswerBefore
<1>6. a1 <= b1 /\ (a1 = b1 => a2 <= b2) /\ (a1 = b1 /\ a2 = b2 => a3 <= b3)
  BY <1>5 DEF Less3
<1>7. a2 = b2 => a1 = b1
  BY <1>4
<1> QED BY <1>4, <1>6, <1>7

(* Equal keys are together. *)
LEMMA AnswersContiguous ==
    ASSUME NEW m \in Nat, NEW all, \A x \in 1 .. m : all[x].flag \in {0, 1} /\ all[x].key \in Nat,
           NEW T, AnswerOrder(T, all, m), NEW p, NEW S, Permuted(S, all, p, m), Follows(p, T, m)
    PROVE  Contiguous(S, m)
<1>1. \A r \in 1 .. m : S[r].flag \in {0, 1} /\ S[r].key \in Nat
  BY DEF Permuted, IsPermutation
<1>2. ASSUME NEW r \in 1 .. m, NEW k \in 1 .. m, k < r, S[k].key = S[r].key PROVE S[r - 1].key = S[r].key
  <2>1. r - 1 \in 1 .. m /\ k <= r - 1 /\ r - 1 <= r
    BY <1>2
  <2>2. PICK t \in 1 .. m : t = r - 1
    BY <2>1
  <2>3. /\ NoKeyLast(S[k].key) <= NoKeyLast(S[t].key) /\ NoKeyLast(S[k].key) \in Nat /\ NoKeyLast(S[t].key) \in Nat
        /\ NoKeyLast(S[k].key) = NoKeyLast(S[t].key) => S[k].key <= S[t].key
    BY <2>1, <2>2, AnswersGrow
  <2>4. /\ NoKeyLast(S[t].key) <= NoKeyLast(S[r].key)
        /\ NoKeyLast(S[t].key) = NoKeyLast(S[r].key) => S[t].key <= S[r].key
    BY <2>1, <2>2, AnswersGrow
  <2>5. NoKeyLast(S[k].key) = NoKeyLast(S[r].key)
    BY <1>2
  <2>6. S[t].key = S[r].key
    BY <2>3, <2>4, <2>5, <1>1, <1>2
  <2> QED BY <2>2, <2>6
<1> QED BY <1>1, <1>2 DEF Contiguous

(* What a request finds at the beginning of its run. *)
LEMMA ResultIs ==
    ASSUME NEW m \in Nat, NEW n \in Nat, n <= m, NEW all,
           NEW T, AnswerOrder(T, all, m), NEW p, NEW S, Permuted(S, all, p, m), Follows(p, T, m),
           NEW hash, NEW present \in SUBSET (QueryKeys \ {0}), NEW failed,
           MergedAnswers(all, n, m, hash, present, failed), AllAnswers(all, n, m, hash, present, failed),
           NEW r \in 1 .. m, p[r] <= n, S[r].key \in QueryKeys, NEW e, ResultOf(S, r, e)
    PROVE  Answer(e, S[r].key, AskedBefore(S, r), hash, present, failed)
<1>0. /\ \A x \in 1 .. m : all[x].flag \in {0, 1} /\ all[x].key \in Nat
      /\ p[r] \in 1 .. n /\ p[r] \in 1 .. m /\ S[r] = all[p[r]] /\ S[r].flag = 1
  <2>1. p[r] \in 1 .. m /\ S[r] = all[p[r]]
    BY DEF Permuted, IsPermutation
  <2>2. p[r] \in 1 .. n
    BY <2>1
  <2> QED BY <2>1, <2>2 DEF MergedAnswers
<1>1. PICK j \in 1 .. r : /\ StartsRun(S, r, j)
                          /\ e = IF j < r /\ S[r].key # 0 THEN [key |-> S[r].key, data |-> S[j].data] ELSE NotFound
  BY DEF ResultOf
<1>2. j \in 1 .. m /\ S[j].key = S[r].key
  BY <1>1 DEF StartsRun
<1>3. PICK x \in 1 .. m : S[j] = all[x]
  BY <1>2 DEF Permuted, IsPermutation
<1>4. CASE S[r].key \in present /\ shard_id(hash[S[r].key]) \in Shards \ failed
  <2>1. PICK y \in 1 .. m : all[y].flag = 0 /\ all[y].key = S[r].key
    BY <1>0, <1>4 DEF AllAnswers
  <2>2. PICK s \in 1 .. m : S[s] = all[y]
    BY DEF Permuted, IsPermutation
  <2>3. s < r
    <3>1. CASE r <= s
      <4>1. S[r].flag <= S[s].flag
        BY <3>1, <2>1, <2>2, <1>0, AnswersGrow
      <4> QED BY <4>1, <2>1, <2>2, <1>0
    <3> QED BY <3>1
  <2>4. s \in 1 .. r
    BY <2>3
  <2>5. j <= s
    BY <2>1, <2>2, <2>4, <1>1 DEF StartsRun
  <2>6. S[j].flag <= S[s].flag
    BY <2>1, <2>2, <2>5, <1>0, <1>2, AnswersGrow
  <2>7. all[x].flag = 0
    BY <2>1, <2>2, <2>6, <1>0, <1>3
  <2>8. S[r].key \in QueryKeys \ {0}
    BY <1>4
  <2>9. RecordOf(all[x], hash, present, failed)
    BY <2>7, <2>8, <1>2, <1>3 DEF MergedAnswers
  <2>10. S[j].data = S[r].key
    BY <2>9, <1>2, <1>3 DEF RecordOf
  <2>11. j < r /\ S[r].key # 0
    BY <2>3, <2>5, <2>8
  <2> QED BY <2>10, <2>11, <1>1, <1>4 DEF Answer
<1>5. CASE ~(S[r].key \in present /\ shard_id(hash[S[r].key]) \in Shards \ failed)
  <2>1. CASE ~(j < r /\ S[r].key # 0)
    <3>1. e = NotFound
      BY <2>1, <1>1
    <3>2. ~AskedBefore(S, r)
      <4>1. CASE S[r].key # 0
        <5>1. j = r
          BY <4>1, <2>1
        <5>2. \A s \in 1 .. r - 1 : s \in 1 .. r /\ s < r
          OBVIOUS
        <5> QED BY <5>1, <5>2, <1>1 DEF StartsRun, AskedBefore
      <4>2. CASE S[r].key = 0
        BY <4>2 DEF AskedBefore
      <4> QED BY <4>1, <4>2
    <3> QED BY <3>1, <3>2, <1>5 DEF Answer, NotFound
  <2>2. CASE j < r /\ S[r].key # 0
    <3>1. e = [key |-> S[r].key, data |-> S[j].data]
      BY <2>2, <1>1
    <3>2. all[x].flag = 1
      <4>1. CASE all[x].flag = 0
        <5>1. RecordOf(all[x], hash, present, failed)
          BY <4>1, <2>2, <1>2, <1>3 DEF MergedAnswers
        <5> QED BY <5>1, <1>2, <1>3, <1>5 DEF RecordOf
      <4> QED BY <4>1, <1>0
    <3>3. S[j].data = NoData
      BY <3>2, <1>3 DEF MergedAnswers
    <3>4. j \in 1 .. r - 1 /\ S[j].flag = 1
      BY <2>2, <3>2, <1>3
    <3>5. AskedBefore(S, r)
      BY <3>4, <2>2, <1>2 DEF AskedBefore
    <3> QED BY <3>1, <3>3, <3>5, <1>5 DEF Answer
  <2> QED BY <2>1, <2>2
<1> QED BY <1>4, <1>5

-----------------------------------------------------------------------------
(* What a client gets for its keys. *)
Results(keys, res, hash, present, failed) ==
    /\ DOMAIN res = DOMAIN keys
    /\ \A i \in DOMAIN keys :
          Answer(res[i], KeySort(keys)[i], Repeated(KeySort(keys), i), hash, present, failed)

(* The results of a merged array. *)
LEMMA ResultsAre ==
    ASSUME NEW n \in Nat \ {0}, NEW keys, IsSeq(keys, n), \A i \in 1 .. n : keys[i] \in QueryKeys /\ keys[i] \in Nat,
           NEW hash, NEW present \in SUBSET (QueryKeys \ {0}), NEW failed, NEW m \in Nat, n <= m,
           NEW all, IsSeq(all, m), \A x \in 1 .. n : all[x].key = keys[x] /\ all[x].flag = 1 /\ all[x].data = NoData,
           MergedAnswers(all, n, m, hash, present, failed), AllAnswers(all, n, m, hash, present, failed)
    PROVE  Results(keys, copied(AnswerSort(all)), hash, present, failed)
<1>1. \A x \in 1 .. m : all[x].flag \in Nat /\ all[x].flag \in {0, 1} /\ all[x].key \in Nat
  BY DEF MergedAnswers
<1>2. PICK p, S, T : /\ IsOrder(T, m) /\ AnswerOrder(T, all, m)
                     /\ Permuted(S, all, p, m) /\ Follows(p, T, m) /\ S = AnswerSort(all)
  BY <1>1, SortedAnswers
<1> DEFINE K == KeyOrder(keys, n)
           sorted == KeySort(keys)
<1>3. /\ IsOrder(K, n) /\ sorted = RankSorted(keys, n, K)
      /\ \A i, j \in 1 .. n : <<i, j>> \in K <=> <<i, j>> \in T
  BY <1>2, SortedKeys
<1> HIDE DEF K, sorted
<1>4. IsPermutation(p, m) /\ IsSeq(S, m) /\ \A r \in 1 .. m : p[r] \in 1 .. m /\ S[r] = all[p[r]]
  BY <1>2 DEF Permuted, IsPermutation, IsSeq
<1>5. \A r \in 1 .. m : S[r].flag = 1 <=> p[r] <= n
  BY <1>4 DEF MergedAnswers
<1>6. Contiguous(S, m)
  BY <1>1, <1>2, AnswersContiguous
<1>7. PICK res : res = copied(S)
  OBVIOUS
<1>8. /\ IsSeq(res, Cardinality(Requested(S, m)))
      /\ \A s \in 1 .. m : S[s].flag = 1 => ResultOf(S, s, res[Cardinality(Requested(S, s))])
  <2>1. m \in Nat \ {0}
    OBVIOUS
  <2> QED BY <2>1, <1>4, <1>6, <1>7, CopiedIs
<1>9. Cardinality(Requested(S, m)) = n
  <2>1. 1 .. n \in SUBSET (1 .. m)
    OBVIOUS
  <2>2. {r \in 1 .. m : p[r] \in 1 .. n} = Requested(S, m)
    BY <1>4, <1>5 DEF Requested
  <2>3. PICK A : A = 1 .. n
    OBVIOUS
  <2>4. Cardinality({r \in 1 .. m : p[r] \in A}) = Cardinality(A)
    BY <2>1, <2>3, <1>4, PermutedCount
  <2>5. Cardinality(1 .. n) = IF 1 > n THEN 0 ELSE n - 1 + 1
    BY FS_Interval
  <2>6. Cardinality(1 .. n) = n
    BY <2>5
  <2> QED BY <2>2, <2>3, <2>4, <2>6
<1>10. DOMAIN res = 1 .. n /\ DOMAIN keys = 1 .. n
  BY <1>8, <1>9, SeqIs
<1>13. ASSUME NEW i \in 1 .. n
       PROVE  \E r \in 1 .. m : /\ p[r] <= n /\ S[r].flag = 1 /\ S[r].key = sorted[i]
                                /\ Cardinality(Requested(S, r)) = i
  <2>1. PICK x \in 1 .. n : sorted[i] = keys[x] /\ Rank(K, n, x) = i
    BY <1>3, RankSortedAt
  <2>2. PICK r \in 1 .. m : p[r] = x
    <3>1. x \in 1 .. m
      OBVIOUS
    <3> QED BY <3>1, <1>4 DEF IsPermutation
  <2>3. p[r] <= n
    BY <2>2
  <2>4. S[r].flag = 1 /\ S[r].key = keys[x]
    BY <2>2, <2>3, <1>4, <1>5
  <2>5. Requested(S, r) = {s \in 1 .. r : p[s] <= n}
    <3>1. \A s \in 1 .. r : s \in 1 .. m
      OBVIOUS
    <3> QED BY <3>1, <1>5 DEF Requested
  <2>6. Cardinality({s \in 1 .. r : p[s] <= n}) = Rank(K, n, p[r])
    BY <2>3, <1>2, <1>3, <1>4, RequestRank
  <2> QED BY <2>1, <2>2, <2>3, <2>4, <2>5, <2>6
<1>12. ASSUME NEW s \in 1 .. m, S[s].flag = 1
       PROVE  Cardinality(Requested(S, s)) \in 1 .. n /\ S[s].key = sorted[Cardinality(Requested(S, s))]
  <2>1. Cardinality(Requested(S, s)) \in 1 .. n
    BY <1>12, <1>9, RequestedLess
  <2>2. PICK r \in 1 .. m : /\ S[r].flag = 1 /\ S[r].key = sorted[Cardinality(Requested(S, s))]
                            /\ Cardinality(Requested(S, r)) = Cardinality(Requested(S, s))
    BY <2>1, <1>13
  <2>3. r = s
    BY <2>2, <1>12, RequestedInjective
  <2> QED BY <2>1, <2>2, <2>3
<1>11. ASSUME NEW i \in 1 .. n
       PROVE  Answer(res[i], sorted[i], Repeated(sorted, i), hash, present, failed)
  <2>1. PICK r \in 1 .. m : /\ p[r] <= n /\ S[r].flag = 1 /\ S[r].key = sorted[i]
                            /\ Cardinality(Requested(S, r)) = i
    BY <1>13
  <2>3. p[r] <= n
    BY <2>1
  <2>4. S[r].flag = 1
    BY <2>1
  <2>6. Cardinality(Requested(S, r)) = i
    BY <2>1
  <2>7. ResultOf(S, r, res[i])
    BY <2>4, <2>6, <1>8
  <2>8. S[r].key \in QueryKeys
    <3>1. p[r] \in 1 .. n /\ S[r] = all[p[r]]
      BY <2>3, <1>4
    <3> QED BY <3>1
  <2>9. Answer(res[i], S[r].key, AskedBefore(S, r), hash, present, failed)
    BY <2>3, <2>7, <2>8, <1>2, ResultIs
  <2>10. S[r].key = sorted[i]
    BY <2>1
  <2>11. AskedBefore(S, r) <=> Repeated(sorted, i)
    <3>1. ASSUME NEW s \in 1 .. m, S[s].flag = 1
          PROVE  Cardinality(Requested(S, s)) \in 1 .. n /\ S[s].key = sorted[Cardinality(Requested(S, s))]
      BY <3>1, <1>12
    <3>2. ASSUME AskedBefore(S, r) PROVE Repeated(sorted, i)
      <4>1. PICK s \in 1 .. r - 1 : S[s].flag = 1 /\ S[s].key = S[r].key
        BY <3>2 DEF AskedBefore
      <4>2. s \in 1 .. m /\ s \in 1 .. r - 1 /\ r - 1 \in Nat /\ (r - 1) + 1 = r
        OBVIOUS
      <4>3. Cardinality(Requested(S, s)) \in 1 .. Cardinality(Requested(S, r - 1))
        BY <4>1, <4>2, RequestedLess
      <4>4. /\ Cardinality(Requested(S, r - 1)) \in Nat
            /\ Cardinality(Requested(S, r)) = Cardinality(Requested(S, r - 1)) + 1
        BY <4>2, <2>4, RequestedStep
      <4>5. Cardinality(Requested(S, s)) \in 1 .. i - 1
        BY <4>3, <4>4, <2>6
      <4>6. sorted[Cardinality(Requested(S, s))] = sorted[i]
        BY <4>1, <4>2, <3>1, <2>10
      <4> QED BY <4>5, <4>6, <3>2, <2>10 DEF Repeated, AskedBefore
    <3>3. ASSUME Repeated(sorted, i) PROVE AskedBefore(S, r)
      <4>1. PICK h \in 1 .. i - 1 : sorted[h] = sorted[i]
        BY <3>3 DEF Repeated
      <4>2. h \in 1 .. n /\ h < i
        OBVIOUS
      <4>3. PICK s \in 1 .. m : S[s].flag = 1 /\ S[s].key = sorted[h] /\ Cardinality(Requested(S, s)) = h
        BY <4>2, <1>13
      <4>4. CASE r <= s
        <5>1. r \in 1 .. s /\ s \in Nat
          BY <4>4
        <5>2. Cardinality(Requested(S, r)) \in 1 .. Cardinality(Requested(S, s))
          BY <5>1, <2>4, RequestedLess
        <5> QED BY <5>2, <4>2, <4>3, <2>6
      <4>5. CASE s < r
        <5>1. s \in 1 .. r - 1
          BY <4>5
        <5> QED BY <5>1, <4>1, <4>3, <3>3, <2>10 DEF Repeated, AskedBefore
      <4> QED BY <4>4, <4>5
    <3> QED BY <3>2, <3>3
  <2> HIDE DEF Answer
  <2>12. CASE AskedBefore(S, r)
    <3>1. AskedBefore(S, r) = TRUE /\ Repeated(sorted, i) = TRUE
      BY <2>12, <2>11 DEF AskedBefore, Repeated
    <3> QED BY <3>1, <2>9, <2>10
  <2>13. CASE ~AskedBefore(S, r)
    <3>1. AskedBefore(S, r) = FALSE /\ Repeated(sorted, i) = FALSE
      BY <2>13, <2>11 DEF AskedBefore, Repeated
    <3> QED BY <3>1, <2>9, <2>10
  <2> QED BY <2>12, <2>13
<1>14. Results(keys, res, hash, present, failed)
  BY <1>10, <1>11 DEF Results, sorted
<1> QED BY <1>2, <1>7, <1>14

(* Keys that a client asks for are answers_of. *)
LEMMA ExtractedFor ==
    ASSUME NEW n \in Nat \ {0}, NEW keys \in [1 .. n -> QueryKeys], NEW hash \in [QueryKeys -> QueryHashes]
    PROVE  Extracted(keys, hash)
<1>1. PICK queries : queries = [i \in DOMAIN keys |-> [key |-> keys[i], data |-> NoData]]
  OBVIOUS
<1>2. IsBatch(queries, n, hash) /\ \A i \in 1 .. n : queries[i].key = keys[i]
  BY <1>1 DEF IsBatch, IsSeq
<1>3. IsSeq(keys, n) /\ DOMAIN keys = 1 .. n
  BY DEF IsSeq
<1>4. \A i \in 1 .. n : keys[i] \in QueryKeys /\ keys[i] \in Nat
  BY <1>2, BatchIs
<1>5. PICK b : b = calculate_batch_size(queries, hash)
  OBVIOUS
<1>6. PICK batches : batches = prepare_query_batches(queries, hash, "query")
  OBVIOUS
<1>7. /\ b \in Nat /\ Asked(batches, b) /\ FromQueries(batches, b, n, queries, hash, "query")
      /\ AllAsked(batches, b, n, queries, hash)
  BY <1>2, <1>5, <1>6, BatchesFor
<1>8. ASSUME NEW present \in SUBSET (QueryKeys \ {0}), NEW failed \in SUBSET Shards
      PROVE  Results(keys, extract_results_from_batch(keys,
                        [sh \in Shards |-> answers_of(batches[sh], present)], failed, b).results, hash, present, failed)
  <2>1. PICK all : all = merged(keys, [sh \in Shards |-> answers_of(batches[sh], present)], failed, b)
    OBVIOUS
  <2>2. PICK m : m = n + b * NUM_SHARDS
    OBVIOUS
  <2>3. /\ IsSeq(all, m) /\ b * NUM_SHARDS \in Nat
        /\ \A x \in 1 .. n : all[x].key = keys[x] /\ all[x].flag = 1 /\ all[x].data = NoData
        /\ ShardAnswers(all, n, b, batches, present, failed)
    BY <2>1, <2>2, <1>3, <1>7, MergedIs
  <2>4. m \in Nat /\ n <= m
    BY <2>2, <2>3
  <2>5. \A x \in 1 .. n : all[x].key = queries[x].key /\ all[x].flag = 1 /\ all[x].data = NoData
    BY <2>3, <1>2
  <2>6. MergedAnswers(all, n, m, hash, present, failed) /\ AllAnswers(all, n, m, hash, present, failed)
    BY <2>2, <2>3, <2>5, <1>2, <1>7, AnswersAre
  <2>8. Results(keys, copied(AnswerSort(all)), hash, present, failed)
    BY <2>3, <2>4, <2>6, <1>3, <1>4, ResultsAre
  <2>9. extract_results_from_batch(keys, [sh \in Shards |-> answers_of(batches[sh], present)], failed, b).results
          = copied(AnswerSort(all))
    BY <2>1 DEF extract_results_from_batch, AnswerSort
  <2> QED BY <2>8, <2>9
<1>9. \A present \in SUBSET (QueryKeys \ {0}), failed \in SUBSET Shards :
         Results(keys, extract_results_from_batch(keys,
                    [sh \in Shards |-> answers_of(batches[sh], present)], failed, b).results, hash, present, failed)
  BY <1>8
<1> DEFINE ExtractedWith(size, bs) ==
              LET sorted == osort(keys, LAMBDA k, l : k # 0 /\ (l = 0 \/ k < l))
              IN  \A present \in SUBSET (QueryKeys \ {0}), failed \in SUBSET Shards :
                    LET res == extract_results_from_batch(keys,
                           [sh \in Shards |-> answers_of(bs[sh], present)], failed, size).results
                    IN  /\ DOMAIN res = DOMAIN keys
                        /\ \A i \in DOMAIN keys :
                             IF sorted[i] \in present /\ shard_id(hash[sorted[i]]) \in Shards \ failed
                             THEN res[i] = [key |-> sorted[i], data |-> sorted[i]]
                             ELSE res[i] = [key  |-> IF Repeated(sorted, i) THEN sorted[i] ELSE NilKey,
                                            data |-> NoData]
<1>10. ExtractedWith(b, batches)
  BY <1>9, Zenon DEF Results, Answer, KeySort
<1>11. \A q : q = [i \in DOMAIN keys |-> [key |-> keys[i], data |-> NoData]] =>
          ExtractedWith(calculate_batch_size(q, hash), prepare_query_batches(q, hash, "query"))
  <2> HIDE DEF ExtractedWith
  <2> QED BY <1>1, <1>5, <1>6, <1>10
<1>12. ExtractedWith(
          calculate_batch_size([i \in DOMAIN keys |-> [key |-> keys[i], data |-> NoData]], hash),
          prepare_query_batches([i \in DOMAIN keys |-> [key |-> keys[i], data |-> NoData]], hash, "query"))
  <2> HIDE DEF ExtractedWith
  <2> QED BY <1>11
<1> QED BY <1>12, Zenon DEF Extracted

(* From the keys of a query to its answers, for any number of shards and of *)
(* keys and any hash function: every key whose hash belongs to a shard is   *)
(* asked for once, there, and the record of a key that is present in a      *)
(* shard which did not fail comes back to it, and nobody's for any other.   *)
THEOREM BatchesAreAnswered == []BatchesAnswered
<1>1. ExtractSound
  <2> SUFFICES ASSUME job \in BatchJobs, NEW keys \in KeySeqs(1) PROVE Extracted(keys, job.hash)
    BY DEF ExtractSound
  <2>1. PICK m \in 1 .. MAX_QUERIES : keys \in [1 .. m -> QueryKeys]
    BY DEF KeySeqs
  <2>2. m \in Nat \ {0} /\ job.hash \in [QueryKeys -> QueryHashes]
    BY BatchingAssumption DEF BatchJobs
  <2> QED BY <2>1, <2>2, ExtractedFor
<1>2. BatchesAnswered
  BY <1>1, AllComplete DEF BatchesAnswered
<1> QED BY <1>2, PTL
=============================================================================
