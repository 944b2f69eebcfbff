-------------------------- MODULE DiscoveryProofs --------------------------
(***************************************************************************)
(* Proofs about the sessions of an account and its rate limit, for any     *)
(* number of sessions, tokens and requests and any size and rate of the    *)
(* bucket: no charge gets lost, an ended session leaves nothing behind,    *)
(* and what a client was answered is paid.                                 *)
(***************************************************************************)
EXTENDS DiscoverySession, FixedSet, FiniteSetTheorems, SequenceTheorems,
        NaturalsInduction, WellFoundedInduction, TLAPS

(***************************************************************************)
(* The limiter.  A bucket, and the operations that may be under way.       *)
(***************************************************************************)
IsBucket(b) ==
    /\ b = [amount |-> b.amount, ts |-> b.ts, gcts |-> b.gcts]
    /\ b.amount \in 0 .. permits(BUCKET_SIZE) /\ b.ts \in Nat

Ended    == {"idle", "ok", "error"}
Unpriced == {"read", "create", "list", "gc", "cost"}
Prepares == Unpriced \cup {"store"}
Charges  == {"lookup", "charge", "commit"}

Prepared(o) == o.now \in Nat /\ o.delta \in Nat /\ o.new \in Tokens /\ o.old \in Tokens \cup {NoToken}
Priced(o)   == o.now \in Nat /\ o.cost \in Nat /\ o.cost > 0

OpShape(o) ==
    /\ o.pc \in Ended \cup Prepares \cup Charges
    /\ o.pc \in Ended => o = Result(o.pc)
    /\ o.pc \in {"read", "create"} => Prepared(o) /\
          o = [pc |-> o.pc, now |-> o.now, delta |-> o.delta, old |-> o.old, new |-> o.new]
    /\ o.pc = "list" => Prepared(o) /\ IsBucket(o.bucket) /\ o.fresh \in BOOLEAN /\
          o = [pc |-> "list", now |-> o.now, delta |-> o.delta, old |-> o.old, new |-> o.new,
               bucket |-> o.bucket, fresh |-> o.fresh]
    /\ o.pc = "gc" => Prepared(o) /\ IsBucket(o.bucket) /\ o.fresh \in BOOLEAN /\
          o = [pc |-> "gc", now |-> o.now, delta |-> o.delta, old |-> o.old, new |-> o.new,
               bucket |-> o.bucket, fresh |-> o.fresh, batch |-> o.batch]
    /\ o.pc = "cost" => Prepared(o) /\ IsBucket(o.bucket)
    /\ o.pc = "store" => Priced(o) /\ o.new \in Tokens
    /\ o.pc = "charge" => Priced(o) /\ o.token \in Tokens
    /\ o.pc = "commit" => Priced(o) /\ o.token \in Tokens /\ IsBucket(o.bucket) /\ o.fresh \in BOOLEAN /\
          o = [pc |-> "commit", token |-> o.token, now |-> o.now, cost |-> o.cost,
               fresh |-> o.fresh, bucket |-> o.bucket]

(* What was read of the bucket b is still so while the ETag says so. *)
FreshOp(o, b) ==
    /\ o.pc \in {"list", "gc"} /\ o.fresh =>
          b # NoBucket /\ o.bucket.amount = b.amount /\ o.bucket.ts = b.ts
    /\ o.pc = "commit" /\ o.fresh =>
          /\ b # NoBucket /\ o.bucket.ts = o.now
          /\ o.bucket.amount = calculateBucketUtilization(b, o.now, o.cost)

OpsInv == \A s \in Sessions : OpShape(op[s]) /\ FreshOp(op[s], bucket)

LedgerType ==
    /\ ledger = [full |-> ledger.full, settled |-> ledger.settled, refused |-> ledger.refused,
                 includes |-> ledger.includes]
    /\ ledger.full = [amount |-> ledger.full.amount, ts |-> ledger.full.ts]
    /\ ledger.full.amount \in Nat /\ ledger.full.ts \in Nat
    /\ ledger.includes = [t \in Tokens |-> ledger.includes[t]]
    /\ ledger.settled \subseteq Tokens /\ ledger.refused \subseteq Tokens

CostsType ==
    /\ DOMAIN costs \subseteq Tokens
    /\ \A t \in DOMAIN costs : costs[t].cost \in Nat /\ costs[t].cost > 0

LimiterInv ==
    /\ now \in Nat /\ op = [s \in Sessions |-> op[s]] /\ OpsInv
    /\ bucket = NoBucket \/ IsBucket(bucket)
    /\ LedgerType /\ CostsType /\ NoLostCharge

(***************************************************************************)
(* The sessions.                                                           *)
(***************************************************************************)
Kept == {NoRequest} \cup {[prev |-> req.prev, new |-> req.new] : req \in Requests}
Issues == {[prev |-> req.prev, new |-> req.new, parent |-> req.token] : req \in Requests}
Events == {"open", "message", "close"}
Clients == {"none", "UNINITIALIZED", "ATTESTED", "RATELIMIT", "COMPLETE"}
Handlers ==
    [up : BOOLEAN, socket : BOOLEAN, closed : BOOLEAN, client : Clients, keys : BOOLEAN,
     released : BOOLEAN, chain : Seq(Events), ended : BOOLEAN, req : Kept, token : Tokens \cup {NoToken}]

(* A close is the last event of a chain. *)
ClosesLast(c) == \A i \in DOMAIN c : c[i] = "close" => i = Len(c)

HandlerOK(h) ==
    /\ h.closed => ~h.socket
    /\ h.socket => h.up /\ ~h.ended
    /\ ClosesLast(h.chain)
    /\ ~h.ended => \A i \in DOMAIN h.chain : h.chain[i] # "close"
    /\ ~h.up => ~h.ended /\ h.chain = << >> /\ (h.client # "none" => h.released)

(* The operation of a session belongs to the message whose turn it is. *)
Stage(h, o) ==
    /\ o.pc # "idle" => h.up /\ h.chain # << >> /\ h.chain[1] = "message" /\ h.client \in {"RATELIMIT", "COMPLETE"}
    /\ o.pc \in Prepares => h.client = "RATELIMIT" /\ o.new = h.token
    /\ o.pc \in Charges => h.client = "COMPLETE" /\ o.token = h.token

SessionsInv ==
    /\ session \in [Sessions -> Handlers]
    /\ \A s \in Sessions : HandlerOK(session[s]) /\ Stage(session[s], op[s])

(***************************************************************************)
(* The tokens.                                                             *)
(***************************************************************************)
Numbers(t) == issued[t].prev \cup issued[t].new

(* The numbers of a token come from the token before it. *)
IssuedInv ==
    /\ DOMAIN issued \subseteq Tokens /\ received \subseteq DOMAIN issued /\ DOMAIN costs \subseteq DOMAIN issued
    /\ \A t \in DOMAIN issued :
          /\ issued[t] \in Issues
          /\ issued[t].parent = NoToken => issued[t].prev = {}
          /\ issued[t].parent # NoToken =>
                issued[t].parent \in received /\ issued[t].prev \subseteq Numbers(issued[t].parent)

(* What a session knows of its token. *)
TokenOK(h, o) ==
    /\ h.token \in DOMAIN issued \cup {NoToken}
    /\ (h.client = "RATELIMIT" /\ o.pc # "idle") \/ (h.client \in {"RATELIMIT", "COMPLETE"} /\ h.socket) =>
          h.token \in DOMAIN issued /\ h.req = [prev |-> issued[h.token].prev, new |-> issued[h.token].new]
    /\ o.pc \in Unpriced => o.old = issued[h.token].parent /\ o.delta = Cardinality(issued[h.token].new)

TokensInv ==
    /\ IssuedInv
    /\ \A s \in Sessions : TokenOK(session[s], op[s])
    /\ \A r, s \in Sessions : session[r].token = session[s].token /\ session[r].token # NoToken => r = s

(***************************************************************************)
(* What is paid.                                                           *)
(***************************************************************************)
Paid(n, t) == \E u \in lineage(t) : n \in issued[u].new /\ Cleared(u)
Due(n, t) == \E u \in lineage(t) : n \in issued[u].new /\ (Cleared(u) \/ u \in ledger.includes[t])

(* A token whose cost was computed: its numbers are paid once it is         *)
(* settled.                                                                 *)
HasCost(t) == ledger.includes[t] # {}
Ready(t) == HasCost(t) /\ (t \in DOMAIN costs \/ \A n \in Numbers(t) : Paid(n, t))

PaymentOK(h, o) ==
    /\ o.pc \in Unpriced => ~HasCost(h.token)
    /\ o.pc = "store" => HasCost(h.token)
    /\ h.client = "RATELIMIT" /\ (o.pc = "ok" \/ (o.pc = "idle" /\ h.socket)) => Ready(h.token)
    /\ h.client = "COMPLETE" /\ h.socket =>
          /\ o.pc # "idle" /\ HasCost(h.token)
          /\ o.pc = "lookup" => Ready(h.token)
          /\ o.pc = "ok" => \A n \in Numbers(h.token) : Paid(n, h.token)

PaidInv ==
    /\ \A t \in DOMAIN costs : HasCost(t)
    /\ \A t \in Tokens : HasCost(t) => t \in DOMAIN issued /\ \A n \in Numbers(t) : Due(n, t)
    /\ \A t \in received : Ready(t)
    /\ \A s \in Sessions : PaymentOK(session[s], op[s])
    /\ \A a \in answers : a.token \in DOMAIN issued /\ \A n \in a.numbers : Paid(n, a.token)

-----------------------------------------------------------------------------
(* Division with remainder. *)
LEMMA DivMod ==
    ASSUME NEW x \in Nat, NEW d \in Nat \ {0}
    PROVE  \E q, r \in Nat : q = x \div d /\ r = x % d /\ r < d /\ x = d * q + r
<1>1. PICK q \in Nat : q = x \div d
  OBVIOUS
<1>2. PICK r \in Nat : r = x % d /\ r < d
  OBVIOUS
<1>3. r = x - d * q
  <2>1. x % d = x - d * (x \div d)
    OBVIOUS
  <2> QED BY <1>1, <1>2, <2>1
<1>4. x = d * q + r
  BY <1>3
<1> QED BY <1>1, <1>2, <1>4

(* Amounts. *)
LEMMA LimitsType == BUCKET_SIZE \in Nat /\ LEAK_SCALAR \in Nat /\ LEAK_DURATION \in Nat
  BY TokenLimiterAssumption

LEMMA PermitsType == \A n \in Nat : permits(n) \in Nat
<1> SUFFICES ASSUME NEW n \in Nat PROVE n * LEAK_DURATION \in Nat
  BY DEF permits
<1>1. \A d \in Nat : n * d \in Nat
  OBVIOUS
<1> QED BY <1>1, LimitsType

LEMMA LeakedType ==
  ASSUME NEW b, NEW at \in Nat, b.amount \in Nat, b.ts \in Nat
  PROVE  /\ leaked(b, at) \in Nat
         /\ (at - b.ts) * LEAK_SCALAR \in Int
         /\ leaked(b, at) = 0 <=> b.amount <= (at - b.ts) * LEAK_SCALAR
<1> DEFINE x == b.amount - (at - b.ts) * LEAK_SCALAR
<1>1. x \in Int /\ (at - b.ts) * LEAK_SCALAR \in Int
  <2>1. (at - b.ts) \in Int /\ LEAK_SCALAR \in Int
    BY LimitsType
  <2>2. \A i, j \in Int : i * j \in Int
    OBVIOUS
  <2>3. (at - b.ts) * LEAK_SCALAR \in Int
    BY <2>1, <2>2
  <2> HIDE DEF x
  <2> QED BY <2>3 DEF x
<1> HIDE DEF x
<1>2. \E m \in {0, x} : \A y \in {0, x} : m >= y
  <2>1. CASE x >= 0
    BY <2>1, <1>1
  <2>2. CASE ~(x >= 0)
    BY <2>2, <1>1
  <2> QED BY <2>1, <2>2
<1>3. Max({0, x}) \in {0, x} /\ \A y \in {0, x} : Max({0, x}) >= y
  BY <1>2 DEF Max
<1>4. Max({0, x}) \in Nat /\ (Max({0, x}) = 0 <=> x <= 0)
  BY <1>3, <1>1
<1>5. x <= 0 <=> b.amount <= (at - b.ts) * LEAK_SCALAR
  BY <1>1 DEF x
<1>6. leaked(b, at) = Max({0, x})
  BY DEF leaked, x
<1> QED BY <1>1, <1>4, <1>5, <1>6

(* What has leaked stays so. *)
LEMMA LeakedStays ==
  ASSUME NEW b, NEW at \in Nat, b.amount \in Nat, b.ts \in Nat, leaked(b, at) = 0
  PROVE  leaked(b, at + 1) = 0
<1>1. (at + 1 - b.ts) * LEAK_SCALAR = (at - b.ts) * LEAK_SCALAR + LEAK_SCALAR
  BY LimitsType
<1>2. at + 1 \in Nat
  OBVIOUS
<1>3. b.amount <= (at - b.ts) * LEAK_SCALAR /\ (at - b.ts) * LEAK_SCALAR \in Int
  BY LeakedType
<1>4. b.amount <= (at + 1 - b.ts) * LEAK_SCALAR
  BY <1>1, <1>3, LimitsType
<1> QED BY <1>2, <1>4, LeakedType

LEMMA LeakedSame ==
  ASSUME NEW b, NEW c, NEW at, b.amount = c.amount, b.ts = c.ts
  PROVE  leaked(b, at) = leaked(c, at)
  BY DEF leaked

LEMMA BucketFacts ==
  ASSUME NEW b, IsBucket(b)
  PROVE  b # NoBucket /\ b.amount \in Nat /\ b.ts \in Nat
<1>1. b.ts # -1 /\ b.amount \in Nat /\ b.ts \in Nat
  BY PermitsType, LimitsType DEF IsBucket
<1> QED BY <1>1 DEF NoBucket

LEMMA EmptyBucket ==
  ASSUME NEW at \in Nat
  PROVE  IsBucket([amount |-> 0, ts |-> at, gcts |-> at])
<1>1. 0 \in 0 .. permits(BUCKET_SIZE)
  BY PermitsType, LimitsType
<1> QED BY <1>1 DEF IsBucket

(* A bucket that was full has leaked after its time to live. *)
LEMMA TtlLeaks ==
  ASSUME NEW b, IsBucket(b), NEW at \in Nat, b.ts + getTtl <= at
  PROVE  leaked(b, at) = 0
<1> DEFINE S == LEAK_SCALAR  D == LEAK_DURATION  B == BUCKET_SIZE
           q == (B + S - 1) \div S
<1>1. S \in Nat \ {0} /\ D \in Nat \ {0} /\ B \in Nat \ {0}
  BY TokenLimiterAssumption
<1>2. q \in Nat /\ q * S >= B
  <2> HIDE DEF S, D, B
  <2>1. PICK x \in Nat : x = B + S - 1
    BY <1>1
  <2>2. PICK p \in Nat, r \in Nat : p = x \div S /\ r < S /\ x = S * p + r
    BY <1>1, DivMod
  <2>3. S * p \in Nat /\ S * p = p * S /\ q = p
    BY <1>1, <2>1, <2>2
  <2> QED BY <1>1, <2>1, <2>2, <2>3
<1> HIDE DEF q
<1>3. b.amount \in Nat /\ b.ts \in Nat /\ b.amount <= B * D
  BY BucketFacts, PermitsType, LimitsType DEF IsBucket, permits
<1>4. getTtl = q * D
  BY DEF getTtl, q
<1> HIDE DEF S, D, B
<1>5. at - b.ts \in Int /\ at - b.ts >= q * D
  BY <1>1, <1>2, <1>3, <1>4
<1>6. \A x, y, z \in Int : z >= 0 /\ x >= y => x * z >= y * z
  OBVIOUS
<1>7. (at - b.ts) * S >= (q * D) * S
  BY <1>1, <1>2, <1>5, <1>6
<1>8. (q * D) * S = (q * S) * D
  BY <1>1, <1>2
<1>9. (q * S) * D >= B * D
  BY <1>1, <1>2, <1>6
<1>10. b.amount <= (at - b.ts) * S
  BY <1>1, <1>2, <1>3, <1>5, <1>7, <1>8, <1>9
<1> QED BY <1>3, <1>10, LeakedType DEF S

-----------------------------------------------------------------------------
(* What a step does to the operations. *)
LEMMA OneOp ==
  ASSUME LimiterInv, NEW s \in Sessions, NEW o, op' = [op EXCEPT ![s] = o],
         OpShape(o), FreshOp(o, bucket), bucket' = bucket
  PROVE  OpsInv' /\ (op = [r \in Sessions |-> op[r]])'
<1>1. \A r \in Sessions : op'[r] = IF r = s THEN o ELSE op[r]
  BY DEF LimiterInv
<1>2. OpsInv'
  BY <1>1 DEF LimiterInv, OpsInv
<1>3. DOMAIN op' = Sessions
  BY DEF LimiterInv
<1>4. (op = [r \in Sessions |-> op[r]])'
  BY <1>3 DEF LimiterInv
<1> QED BY <1>2, <1>4

(* What was read of the bucket is out of date. *)
LEMMA StaleShape ==
  ASSUME NEW o, OpShape(o)
  PROVE  OpShape(stale(o)) /\ \A b : FreshOp(stale(o), b)
<1>1. CASE o.pc \notin {"list", "gc", "commit"}
  BY <1>1 DEF stale, FreshOp
<1>2. CASE o.pc = "list"
  BY <1>2 DEF stale, OpShape, FreshOp, Prepared, Ended, Prepares, Charges, Unpriced
<1>3. CASE o.pc = "gc"
  BY <1>3 DEF stale, OpShape, FreshOp, Prepared, Ended, Prepares, Charges, Unpriced
<1>4. CASE o.pc = "commit"
  BY <1>4 DEF stale, OpShape, FreshOp, Priced, Ended, Prepares, Charges, Unpriced
<1> QED BY <1>1, <1>2, <1>3, <1>4

(* A write of the bucket makes every other operation stale. *)
LEMMA WroteBucket ==
  ASSUME LimiterInv, NEW s \in Sessions, NEW o, op' = outdated(s, o),
         OpShape(o), o.pc \notin {"list", "gc", "commit"}
  PROVE  OpsInv' /\ (op = [r \in Sessions |-> op[r]])'
<1>1. ASSUME NEW r \in Sessions PROVE OpShape(op'[r]) /\ FreshOp(op'[r], bucket')
  <2>1. CASE r = s
    BY <2>1 DEF outdated, FreshOp
  <2>2. CASE r # s
    BY <2>2, StaleShape DEF outdated, LimiterInv, OpsInv
  <2> QED BY <2>1, <2>2
<1>2. op' = [r \in Sessions |-> op'[r]]
  BY DEF outdated
<1> QED BY <1>1, <1>2 DEF OpsInv

LEMMA ResultShape ==
  \A pc \in Ended : OpShape(Result(pc)) /\ Result(pc).pc = pc /\ \A b : FreshOp(Result(pc), b)
  BY DEF OpShape, Result, FreshOp, Ended, Prepares, Charges, Unpriced

LEMMA IdleIs == Idle = Result("idle")
  BY DEF Idle, Result

LEMMA GoesOnShape ==
  ASSUME NEW o, OpShape(o), o.pc \in {"list", "gc"}
  PROVE  /\ OpShape(goesOn(o)) /\ goesOn(o).pc = "cost" /\ \A b : FreshOp(goesOn(o), b)
         /\ goesOn(o).new = o.new /\ goesOn(o).old = o.old /\ goesOn(o).delta = o.delta
<1>1. Prepared(o) /\ IsBucket(o.bucket)
  BY DEF OpShape
<1> QED BY <1>1 DEF goesOn, OpShape, Prepared, FreshOp, Ended, Prepares, Charges, Unpriced

-----------------------------------------------------------------------------
(* The limiter keeps its invariant. *)
LEMMA LimiterInitial == LimiterInit => LimiterInv
<1> SUFFICES ASSUME LimiterInit PROVE LimiterInv
  OBVIOUS
<1>1. OpsInv
  BY ResultShape, IdleIs DEF LimiterInit, OpsInv, Ended
<1>2. LedgerType /\ CostsType
  BY DEF LimiterInit, LedgerType, CostsType
<1>3. NoLostCharge
  <2>1. ledger.full.amount = 0 /\ ledger.full.ts = 0 /\ now = 0
    BY DEF LimiterInit
  <2>2. (0 - 0) * LEAK_SCALAR = 0
    BY LimitsType
  <2>3. leaked(ledger.full, now) = 0
    BY <2>1, <2>2, LeakedType
  <2> QED BY <2>3 DEF LimiterInit, NoLostCharge
<1> QED BY <1>1, <1>2, <1>3 DEF LimiterInit, LimiterInv

(* A step that only moves one operation on. *)
LEMMA OnlyOp ==
  ASSUME LimiterInv, NEW s \in Sessions, NEW o, op' = [op EXCEPT ![s] = o],
         OpShape(o), FreshOp(o, bucket), UNCHANGED <<now, bucket, costs, ledger>>
  PROVE  LimiterInv'
  BY OneOp DEF LimiterInv, LedgerType, CostsType, NoLostCharge

LEMMA EndsOp ==
  ASSUME LimiterInv, NEW s \in Sessions, NEW pc \in Ended, op' = [op EXCEPT ![s] = Result(pc)],
         UNCHANGED <<now, bucket, costs, ledger>>
  PROVE  LimiterInv'
  BY OnlyOp, ResultShape

LEMMA PrepareLimiter ==
  ASSUME LimiterInv, NEW s \in Sessions, NEW delta \in Nat, NEW old \in Tokens \cup {NoToken},
         NEW new \in Tokens, prepare(s, delta, old, new), UNCHANGED <<now, bucket, costs, ledger>>
  PROVE  LimiterInv'
<1> DEFINE o == [pc |-> "read", now |-> now, delta |-> delta, old |-> old, new |-> new]
<1>1. op' = [op EXCEPT ![s] = o]
  BY DEF prepare
<1>2. OpShape(o) /\ FreshOp(o, bucket)
  BY DEF OpShape, FreshOp, Prepared, Ended, Prepares, Charges, Unpriced, LimiterInv
<1> QED BY <1>1, <1>2, OnlyOp

LEMMA ValidateLimiter ==
  ASSUME LimiterInv, NEW s \in Sessions, NEW token, validate(s, token),
         UNCHANGED <<now, bucket, costs, ledger>>
  PROVE  LimiterInv'
<1> DEFINE o == [pc |-> "lookup", token |-> token]
<1>1. op' = [op EXCEPT ![s] = o]
  BY DEF validate
<1>2. OpShape(o) /\ FreshOp(o, bucket)
  BY DEF OpShape, FreshOp, Ended, Prepares, Charges, Unpriced
<1> QED BY <1>1, <1>2, OnlyOp

LEMMA ReadBucketLimiter ==
  ASSUME LimiterInv, NEW s \in Sessions, readBucket(s)
  PROVE  LimiterInv'
<1>1. OpShape(op[s]) /\ op[s].pc = "read" /\ Prepared(op[s])
  BY DEF readBucket, LimiterInv, OpsInv, OpShape
<1>2. CASE bucket = NoBucket
  <2> DEFINE o == [op[s] EXCEPT !.pc = "create"]
  <2>1. op' = [op EXCEPT ![s] = o]
    BY <1>2 DEF readBucket, LimiterInv
  <2>2. OpShape(o) /\ FreshOp(o, bucket)
    BY <1>1 DEF OpShape, FreshOp, Prepared, Ended, Prepares, Charges, Unpriced
  <2> QED BY <2>1, <2>2, OnlyOp DEF readBucket
<1>3. CASE bucket # NoBucket
  <2> DEFINE o == [pc |-> "list", now |-> op[s].now, delta |-> op[s].delta,
                   old |-> op[s].old, new |-> op[s].new, bucket |-> bucket, fresh |-> TRUE]
  <2>1. op' = [op EXCEPT ![s] = o]
    BY <1>3 DEF readBucket, LimiterInv
  <2>2. IsBucket(bucket)
    BY <1>3 DEF LimiterInv
  <2>3. OpShape(o) /\ FreshOp(o, bucket)
    BY <1>1, <1>3, <2>2 DEF OpShape, FreshOp, Prepared, Ended, Prepares, Charges, Unpriced
  <2> QED BY <2>1, <2>3, OnlyOp DEF readBucket
<1> QED BY <1>2, <1>3

LEMMA CreateBucketLimiter ==
  ASSUME LimiterInv, NEW s \in Sessions, createBucket(s)
  PROVE  LimiterInv'
<1>1. OpShape(op[s]) /\ op[s].pc = "create" /\ Prepared(op[s]) /\ op[s].now \in Nat
  BY DEF createBucket, LimiterInv, OpsInv, OpShape, Prepared
<1>2. CASE bucket # NoBucket
  BY <1>2, EndsOp DEF createBucket, ends, Ended
<1>3. CASE bucket = NoBucket
  <2> DEFINE b == [amount |-> 0, ts |-> op[s].now, gcts |-> op[s].now]
             o == [pc |-> "list", now |-> op[s].now, delta |-> op[s].delta,
                   old |-> op[s].old, new |-> op[s].new, bucket |-> b, fresh |-> TRUE]
  <2>1. op' = [op EXCEPT ![s] = o] /\ bucket' = b
    BY <1>3 DEF createBucket, LimiterInv
  <2>2. IsBucket(b) /\ b # NoBucket
    BY <1>1, EmptyBucket, BucketFacts
  <2>3. OpShape(o) /\ FreshOp(o, b)
    BY <1>1, <2>2 DEF OpShape, FreshOp, Prepared, Ended, Prepares, Charges, Unpriced
  <2> HIDE DEF b, o
  <2>4. ASSUME NEW r \in Sessions PROVE OpShape(op'[r]) /\ FreshOp(op'[r], bucket')
    <3>1. CASE r = s
      BY <3>1, <2>1, <2>3 DEF LimiterInv
    <3>2. CASE r # s
      <4>1. op'[r] = op[r] /\ OpShape(op[r]) /\ FreshOp(op[r], NoBucket)
        BY <3>2, <2>1, <1>3 DEF LimiterInv, OpsInv
      <4> QED BY <4>1 DEF FreshOp
    <3> QED BY <3>1, <3>2
  <2>5. op' = [r \in Sessions |-> op'[r]]
    BY <2>1 DEF LimiterInv
  <2>6. ledger' = [ledger EXCEPT !.full = [amount |-> 0, ts |-> op[s].now]]
    BY <1>3 DEF createBucket
  <2>7. LedgerType' /\ ledger'.full = [amount |-> 0, ts |-> op[s].now]
    BY <1>1, <2>6 DEF LimiterInv, LedgerType
  <2>8. NoLostCharge'
    BY <2>1, <2>2, <2>7 DEF NoLostCharge, b
  <2>9. now' = now /\ costs' = costs
    BY DEF createBucket
  <2> QED BY <2>1, <2>2, <2>4, <2>5, <2>7, <2>8, <2>9 DEF LimiterInv, OpsInv, CostsType
<1> QED BY <1>2, <1>3

LEMMA ListTokensLimiter ==
  ASSUME LimiterInv, NEW s \in Sessions, listTokens(s)
  PROVE  LimiterInv'
<1>1. /\ OpShape(op[s]) /\ op[s].pc = "list" /\ Prepared(op[s]) /\ IsBucket(op[s].bucket)
      /\ op[s].fresh \in BOOLEAN /\ FreshOp(op[s], bucket)
  BY DEF listTokens, LimiterInv, OpsInv, OpShape
<1>2. CASE op' = [op EXCEPT ![s] = goesOn(@)]
  BY <1>1, <1>2, GoesOnShape, OnlyOp DEF listTokens
<1>3. CASE op' # [op EXCEPT ![s] = goesOn(@)]
  <2>1. PICK batch, gcts :
          op' = [op EXCEPT ![s] =
                    [pc |-> "gc", now |-> @.now, delta |-> @.delta, old |-> @.old, new |-> @.new,
                     bucket |-> [@.bucket EXCEPT !.gcts = gcts],
                     fresh |-> @.fresh, batch |-> batch]]
    BY <1>3 DEF listTokens
  <2> DEFINE b == [op[s].bucket EXCEPT !.gcts = gcts]
             o == [pc |-> "gc", now |-> op[s].now, delta |-> op[s].delta, old |-> op[s].old,
                   new |-> op[s].new, bucket |-> b, fresh |-> op[s].fresh, batch |-> batch]
  <2>2. op' = [op EXCEPT ![s] = o]
    BY <2>1 DEF LimiterInv
  <2>3. IsBucket(b) /\ b.amount = op[s].bucket.amount /\ b.ts = op[s].bucket.ts
    BY <1>1 DEF IsBucket
  <2> HIDE DEF b
  <2>4. OpShape(o) /\ FreshOp(o, bucket)
    BY <1>1, <2>3 DEF OpShape, FreshOp, Prepared, Ended, Prepares, Charges, Unpriced
  <2> QED BY <2>2, <2>4, OnlyOp DEF listTokens
<1> QED BY <1>2, <1>3

LEMMA CollectTokensLimiter ==
  ASSUME LimiterInv, NEW s \in Sessions, collectTokens(s)
  PROVE  LimiterInv'
<1>1. /\ OpShape(op[s]) /\ op[s].pc = "gc" /\ IsBucket(op[s].bucket) /\ FreshOp(op[s], bucket)
  BY DEF collectTokens, LimiterInv, OpsInv, OpShape
<1>2. CASE ~gc_applies(s)
  BY <1>1, <1>2, GoesOnShape, OnlyOp DEF collectTokens
<1>3. CASE gc_applies(s)
  <2>1. /\ bucket' = op[s].bucket /\ op' = outdated(s, goesOn(op[s])) /\ now' = now
        /\ costs' = Restrict(costs, DOMAIN costs \ op[s].batch)
        /\ ledger' = [ledger EXCEPT !.settled = @ \cup op[s].batch]
    BY <1>3 DEF collectTokens
  <2>2. OpsInv' /\ op' = [r \in Sessions |-> op'[r]]
    BY <1>1, <2>1, GoesOnShape, WroteBucket
  <2>3. /\ bucket # NoBucket /\ bucket'.amount = bucket.amount /\ bucket'.ts = bucket.ts
    BY <1>1, <1>3, <2>1 DEF FreshOp, gc_applies
  <2>4. LedgerType' /\ ledger'.full = ledger.full
    BY <1>3, <2>1 DEF LimiterInv, LedgerType, CostsType, gc_applies
  <2>5. NoLostCharge'
    BY <1>1, <2>1, <2>3, <2>4, BucketFacts DEF LimiterInv, NoLostCharge
  <2>6. CostsType'
    BY <2>1 DEF LimiterInv, CostsType, Restrict
  <2> QED BY <1>1, <2>1, <2>2, <2>4, <2>5, <2>6 DEF LimiterInv
<1> QED BY <1>2, <1>3

(* The new cost is that of the new numbers, and of the predecessor if that   *)
(* is unpaid.                                                                *)
LEMMA CostType ==
  ASSUME LimiterInv, NEW o, Prepared(o)
  PROVE  /\ getNewTokenCost(o) \in Nat
         /\ getNewTokenCost(o) = 0 => o.delta = 0 /\ o.old \notin DOMAIN costs
  BY DEF LimiterInv, CostsType, getNewTokenCost, Prepared

LEMMA ReadCostLimiter ==
  ASSUME LimiterInv, NEW s \in Sessions, readCost(s)
  PROVE  LimiterInv'
<1>1. OpShape(op[s]) /\ op[s].pc = "cost" /\ Prepared(op[s])
  BY DEF readCost, LimiterInv, OpsInv, OpShape
<1> DEFINE cost == getNewTokenCost(op[s])
           o == [pc |-> "store", new |-> op[s].new, now |-> op[s].now, cost |-> cost]
<1>2. cost \in Nat
  BY <1>1, CostType
<1>3. UNCHANGED <<now, bucket, costs>>
  BY DEF readCost
<1>4. \/ \E pc \in Ended : op' = [op EXCEPT ![s] = Result(pc)]
      \/ cost # 0 /\ op' = [op EXCEPT ![s] = o]
  BY DEF readCost, ends, Ended, LimiterInv
<1> HIDE DEF cost
<1>5. OpsInv' /\ op' = [r \in Sessions |-> op'[r]]
  <2>1. CASE \E pc \in Ended : op' = [op EXCEPT ![s] = Result(pc)]
    BY <2>1, <1>3, ResultShape, OneOp
  <2>2. CASE cost # 0 /\ op' = [op EXCEPT ![s] = o]
    <3>1. OpShape(o) /\ FreshOp(o, bucket)
      BY <1>1, <1>2, <2>2 DEF OpShape, FreshOp, Prepared, Priced, Ended, Prepares, Charges, Unpriced
    <3> QED BY <3>1, <2>2, <1>3, OneOp
  <2> QED BY <1>4, <2>1, <2>2
<1>6. PICK x : ledger' = [ledger EXCEPT !.includes[op[s].new] = x]
  BY DEF readCost
<1>7. LedgerType' /\ ledger'.full = ledger.full
  BY <1>6 DEF LimiterInv, LedgerType
<1> QED BY <1>3, <1>5, <1>7 DEF LimiterInv, NoLostCharge, CostsType

LEMMA StoreCostLimiter ==
  ASSUME LimiterInv, NEW s \in Sessions, storeCost(s)
  PROVE  LimiterInv'
<1>1. OpShape(op[s]) /\ op[s].pc = "store" /\ Priced(op[s]) /\ op[s].new \in Tokens
  BY DEF storeCost, LimiterInv, OpsInv, OpShape
<1>2. PICK pc \in Ended : op' = [op EXCEPT ![s] = Result(pc)]
  BY DEF storeCost, ends, Ended
<1>3. UNCHANGED <<now, bucket, ledger>>
  BY DEF storeCost
<1>4. OpsInv' /\ op' = [r \in Sessions |-> op'[r]]
  BY <1>2, <1>3, ResultShape, OneOp
<1>5. CostsType'
  BY <1>1 DEF storeCost, LimiterInv, CostsType, Priced
<1> QED BY <1>3, <1>4, <1>5 DEF LimiterInv, NoLostCharge, LedgerType

LEMMA LookupLimiter ==
  ASSUME LimiterInv, NEW s \in Sessions, lookup(s)
  PROVE  LimiterInv'
<1>1. CASE op[s].token \notin DOMAIN costs
  BY <1>1, EndsOp DEF lookup, ends, Ended
<1>2. CASE op[s].token \in DOMAIN costs
  <2> DEFINE o == [pc |-> "charge", token |-> op[s].token, now |-> now, cost |-> costs[op[s].token].cost]
  <2>1. op' = [op EXCEPT ![s] = o]
    BY <1>2 DEF lookup, LimiterInv
  <2>2. OpShape(o) /\ FreshOp(o, bucket)
    BY <1>2 DEF OpShape, FreshOp, Priced, Ended, Prepares, Charges, Unpriced, LimiterInv, CostsType
  <2> QED BY <2>1, <2>2, OnlyOp DEF lookup
<1> QED BY <1>1, <1>2

LEMMA BuildBucketUpdateLimiter ==
  ASSUME LimiterInv, NEW s \in Sessions, buildBucketUpdate(s)
  PROVE  LimiterInv'
<1> DEFINE amount == calculateBucketUtilization(bucket, op[s].now, op[s].cost)
           gcts == advanceGcts(bucket.gcts, op[s].cost)
           b == [amount |-> amount, ts |-> op[s].now, gcts |-> gcts]
           o == [pc |-> "commit", token |-> op[s].token, now |-> op[s].now, cost |-> op[s].cost,
                 fresh |-> TRUE, bucket |-> b]
<1>1. OpShape(op[s]) /\ op[s].pc = "charge" /\ Priced(op[s])
  BY DEF buildBucketUpdate, LimiterInv, OpsInv, OpShape
<1>2. CASE bucket = NoBucket \/ exceeds(amount)
  BY <1>2, EndsOp DEF buildBucketUpdate, ends, Ended
<1>3. CASE bucket # NoBucket /\ ~exceeds(amount)
  <2>1. op' = [op EXCEPT ![s] = o]
    BY <1>3 DEF buildBucketUpdate, LimiterInv
  <2>2. bucket.amount \in Nat /\ bucket.ts \in Nat
    BY <1>3, BucketFacts DEF LimiterInv
  <2>3. amount \in Nat
    <3>1. leaked(bucket, op[s].now) \in Nat /\ permits(op[s].cost) \in Nat
      BY <1>1, <2>2, LeakedType, PermitsType DEF Priced
    <3> QED BY <3>1 DEF calculateBucketUtilization
  <2> HIDE DEF amount, gcts
  <2>4. IsBucket(b)
    BY <1>1, <1>3, <2>3, PermitsType, LimitsType DEF IsBucket, exceeds, Priced
  <2>5. b.amount = amount /\ b.ts = op[s].now
    OBVIOUS
  <2> HIDE DEF b
  <2>6. OpShape(o) /\ FreshOp(o, bucket)
    BY <1>1, <1>3, <2>4, <2>5 DEF OpShape, FreshOp, Priced, Ended, Prepares, Charges, Unpriced, amount
  <2> QED BY <2>1, <2>6, OnlyOp DEF buildBucketUpdate
<1> QED BY <1>2, <1>3

(* The charge that is written is the charge of the bucket as it is. *)
LEMMA CommitLimiter ==
  ASSUME LimiterInv, NEW s \in Sessions, commit(s)
  PROVE  LimiterInv'
<1>1. /\ OpShape(op[s]) /\ op[s].pc = "commit" /\ IsBucket(op[s].bucket) /\ FreshOp(op[s], bucket)
  BY DEF commit, LimiterInv, OpsInv, OpShape
<1>2. CASE ~commits(s)
  <2>1. PICK pc \in {"ok", "error"} : op' = [op EXCEPT ![s] = Result(pc)]
    BY <1>2 DEF commit, ends
  <2>2. UNCHANGED <<now, bucket, costs>>
    BY <1>2 DEF commit
  <2>3. OpsInv' /\ op' = [r \in Sessions |-> op'[r]]
    BY <2>1, <2>2, ResultShape, OneOp DEF Ended
  <2>4. LedgerType' /\ ledger'.full = ledger.full
    <3>1. CASE ledger' = ledger
      BY <3>1 DEF LimiterInv, LedgerType
    <3>2. CASE ledger' = [ledger EXCEPT !.refused = @ \cup {op[s].token}]
      BY <1>1, <3>2 DEF LimiterInv, LedgerType, OpShape
    <3> QED BY <1>2, <3>1, <3>2 DEF commit
  <2> QED BY <2>2, <2>3, <2>4 DEF LimiterInv, NoLostCharge, CostsType
<1>3. CASE commits(s)
  <2>0. leaked(ledger.full, op[s].now) + permits(op[s].cost) \in Nat /\ op[s].now \in Nat
    <3>1. op[s].now \in Nat /\ op[s].cost \in Nat /\ ledger.full.amount \in Nat /\ ledger.full.ts \in Nat
      BY <1>1 DEF LimiterInv, LedgerType, OpShape, Priced
    <3>2. leaked(ledger.full, op[s].now) \in Nat /\ permits(op[s].cost) \in Nat
      BY <3>1, LeakedType, PermitsType
    <3> QED BY <3>1, <3>2
  <2>1. /\ bucket' = op[s].bucket /\ now' = now
        /\ costs' = Restrict(costs, DOMAIN costs \ {op[s].token})
        /\ ledger' = [ledger EXCEPT !.settled = @ \cup {op[s].token},
                        !.full = [amount |-> leaked(@, op[s].now) + permits(op[s].cost),
                                  ts |-> op[s].now]]
    BY <1>3 DEF commit
  <2>2. PICK pc \in Ended : op' = outdated(s, Result(pc))
    BY <1>3 DEF commit, Ended
  <2>3. Result(pc).pc \notin {"list", "gc", "commit"}
    BY ResultShape DEF Ended
  <2>4. OpsInv' /\ op' = [r \in Sessions |-> op'[r]]
    BY <2>2, <2>3, ResultShape, WroteBucket
  <2>5. /\ bucket # NoBucket /\ bucket'.ts = op[s].now
        /\ bucket'.amount = leaked(bucket, op[s].now) + permits(op[s].cost)
    BY <1>1, <1>3, <2>1 DEF FreshOp, commits, calculateBucketUtilization
  <2>6. /\ LedgerType' /\ ledger'.full.ts = op[s].now
        /\ ledger'.full.amount = leaked(ledger.full, op[s].now) + permits(op[s].cost)
    BY <1>3, <2>0, <2>1 DEF LimiterInv, LedgerType, CostsType, commits
  <2>7. leaked(bucket, op[s].now) = leaked(ledger.full, op[s].now)
    BY <2>5, LeakedSame DEF LimiterInv, NoLostCharge
  <2>8. NoLostCharge'
    BY <1>1, <2>1, <2>5, <2>6, <2>7, BucketFacts DEF NoLostCharge
  <2>9. CostsType'
    BY <2>1 DEF LimiterInv, CostsType, Restrict
  <2> QED BY <1>1, <2>1, <2>4, <2>6, <2>8, <2>9 DEF LimiterInv
<1> QED BY <1>2, <1>3

LEMMA ContainerErrorLimiter ==
  ASSUME LimiterInv, NEW s \in Sessions, containerError(s)
  PROVE  LimiterInv'
<1>1. OpShape(op[s])
  BY DEF LimiterInv, OpsInv
<1>2. CASE op[s].pc \in {"list", "gc"}
  BY <1>1, <1>2, GoesOnShape, OnlyOp DEF containerError
<1>3. CASE op[s].pc \notin {"list", "gc"}
  BY <1>3, EndsOp DEF containerError, ends, Ended
<1> QED BY <1>2, <1>3

LEMMA ContainerStepLimiter ==
  ASSUME LimiterInv, NEW s \in Sessions, containerStep(s)
  PROVE  LimiterInv'
  BY ReadBucketLimiter, CreateBucketLimiter, ListTokensLimiter, CollectTokensLimiter, ReadCostLimiter,
     StoreCostLimiter, LookupLimiter, BuildBucketUpdateLimiter, CommitLimiter, ContainerErrorLimiter
  DEF containerStep

(* The container's clock and what expires with it. *)
LEMMA TimeLimiter ==
  ASSUME LimiterInv, containerTime
  PROVE  LimiterInv'
<1>0. now \in Nat
  BY DEF LimiterInv
<1>1. CASE tick
  <2>1. now' = now + 1 /\ UNCHANGED <<bucket, costs, op, ledger>>
    BY <1>1 DEF tick
  <2>2. bucket = NoBucket => leaked(ledger.full, now + 1) = 0
    BY <1>0, LeakedStays DEF LimiterInv, LedgerType, NoLostCharge
  <2>3. leaked(ledger.full, now)' = leaked(ledger.full, now + 1)
    BY <2>1 DEF leaked
  <2>4. NoLostCharge'
    BY <2>1, <2>2, <2>3 DEF LimiterInv, NoLostCharge
  <2> QED BY <1>0, <2>1, <2>4 DEF LimiterInv, OpsInv, LedgerType, CostsType
<1>2. ASSUME NEW t \in Tokens, expireCost(t) PROVE LimiterInv'
  <2>1. /\ costs' = Restrict(costs, DOMAIN costs \ {t}) /\ UNCHANGED <<now, bucket, op>>
        /\ ledger' = [ledger EXCEPT !.settled = @ \cup {t}]
    BY <1>2 DEF expireCost
  <2>2. LedgerType' /\ ledger'.full = ledger.full
    BY <2>1 DEF LimiterInv, LedgerType
  <2>3. CostsType'
    BY <2>1 DEF LimiterInv, CostsType, Restrict
  <2> QED BY <2>1, <2>2, <2>3 DEF LimiterInv, OpsInv, NoLostCharge
<1>3. CASE expireBucket
  <2>1. /\ bucket # NoBucket /\ expired(bucket) /\ bucket' = NoBucket /\ UNCHANGED <<now, costs, ledger>>
        /\ op' = [s \in Sessions |-> stale(op[s])]
    BY <1>3 DEF expireBucket
  <2>2. OpsInv' /\ op' = [s \in Sessions |-> op'[s]]
    BY <2>1, StaleShape DEF LimiterInv, OpsInv
  <2>3. leaked(bucket, now) = 0 /\ leaked(bucket, now) = leaked(ledger.full, now)
    BY <1>0, <2>1, TtlLeaks, LeakedSame DEF LimiterInv, expired, NoLostCharge
  <2>4. NoLostCharge'
    BY <2>1, <2>3 DEF NoLostCharge
  <2> QED BY <2>1, <2>2, <2>4 DEF LimiterInv, LedgerType, CostsType
<1> QED BY <1>1, <1>2, <1>3 DEF containerTime

-----------------------------------------------------------------------------
(* How container operations move their own operation on, and that they      *)
(* leave those of other sessions where they are.                            *)
Moved(o, p) ==
    /\ o.pc \in Prepares \cup Charges
    /\ o.pc \in Prepares => p.pc \in Prepares \cup {"ok", "error"}
    /\ o.pc \in Charges => p.pc \in Charges \cup {"ok", "error"}
    /\ p.pc \in Prepares => p.new = o.new
    /\ p.pc \in Unpriced => o.pc \in Unpriced /\ p.old = o.old /\ p.delta = o.delta
    /\ p.pc \in Charges => p.pc # "lookup" /\ p.token = o.token

Waits(o, p) ==
    /\ p.pc = o.pc
    /\ o.pc \in Prepares => p.new = o.new
    /\ o.pc \in Unpriced => p.old = o.old /\ p.delta = o.delta
    /\ o.pc \in Charges => p.token = o.token

LEMMA StaleWaits ==
  ASSUME NEW o, OpShape(o)
  PROVE  Waits(o, stale(o))
<1>1. CASE o.pc \notin {"list", "gc", "commit"}
  BY <1>1 DEF stale, Waits
<1>2. CASE o.pc = "list"
  BY <1>2 DEF stale, OpShape, Waits, Prepares, Charges, Unpriced
<1>3. CASE o.pc = "gc"
  BY <1>3 DEF stale, OpShape, Waits, Prepares, Charges, Unpriced
<1>4. CASE o.pc = "commit"
  BY <1>4 DEF stale, OpShape, Waits, Prepares, Charges, Unpriced
<1> QED BY <1>1, <1>2, <1>3, <1>4

LEMMA WaitsAll ==
  ASSUME LimiterInv, NEW s \in Sessions, NEW o, op' = [op EXCEPT ![s] = o] \/ op' = outdated(s, o)
  PROVE  op'[s] = o /\ \A r \in Sessions \ {s} : Waits(op[r], op'[r])
<1>1. CASE op' = [op EXCEPT ![s] = o]
  BY <1>1 DEF LimiterInv, Waits
<1>2. CASE op' = outdated(s, o)
  <2>1. op'[s] = o
    BY <1>2 DEF outdated
  <2>2. ASSUME NEW r \in Sessions \ {s} PROVE Waits(op[r], op'[r])
    <3>1. OpShape(op[r]) /\ op'[r] = stale(op[r])
      BY <1>2 DEF outdated, LimiterInv, OpsInv
    <3> QED BY <3>1, StaleWaits
  <2> QED BY <2>1, <2>2
<1> QED BY <1>1, <1>2

LEMMA MovedToEnd ==
  ASSUME NEW o, o.pc \in Prepares \cup Charges, NEW pc \in {"ok", "error"}
  PROVE  Moved(o, Result(pc))
  BY ResultShape DEF Moved, Prepares, Charges, Unpriced, Ended

LEMMA MovedOn ==
  ASSUME NEW o, OpShape(o), o.pc \in {"list", "gc"}
  PROVE  Moved(o, goesOn(o))
  BY GoesOnShape DEF Moved, Prepares, Charges, Unpriced

LEMMA ContainerMoves ==
  ASSUME LimiterInv, NEW s \in Sessions, containerStep(s)
  PROVE  Moved(op[s], op'[s]) /\ \A r \in Sessions \ {s} : Waits(op[r], op'[r])
<1> USE DEF Prepares, Charges, Unpriced
<1>0. OpShape(op[s])
  BY DEF LimiterInv, OpsInv
<1> SUFFICES \E o : Moved(op[s], o) /\ (op' = [op EXCEPT ![s] = o] \/ op' = outdated(s, o))
  BY WaitsAll
<1>1. CASE readBucket(s)
  <2> DEFINE x == [op[s] EXCEPT !.pc = "create"]
             y == [pc |-> "list", now |-> op[s].now, delta |-> op[s].delta,
                   old |-> op[s].old, new |-> op[s].new, bucket |-> bucket, fresh |-> TRUE]
  <2>1. op' = [op EXCEPT ![s] = x] \/ op' = [op EXCEPT ![s] = y]
    BY <1>1 DEF readBucket, LimiterInv
  <2>2. Moved(op[s], x) /\ Moved(op[s], y)
    BY <1>0, <1>1 DEF readBucket, OpShape, Moved
  <2> QED BY <2>1, <2>2
<1>2. CASE createBucket(s)
  <2>1. CASE bucket # NoBucket
    BY <1>2, <2>1, MovedToEnd DEF createBucket, ends
  <2>2. CASE bucket = NoBucket
    <3> DEFINE b == [amount |-> 0, ts |-> op[s].now, gcts |-> op[s].now]
               o == [pc |-> "list", now |-> op[s].now, delta |-> op[s].delta,
                     old |-> op[s].old, new |-> op[s].new, bucket |-> b, fresh |-> TRUE]
    <3>1. op' = [op EXCEPT ![s] = o]
      BY <1>2, <2>2 DEF createBucket, LimiterInv
    <3>2. Moved(op[s], o)
      BY <1>2 DEF createBucket, Moved
    <3> QED BY <3>1, <3>2
  <2> QED BY <2>1, <2>2
<1>3. CASE listTokens(s)
  <2>1. CASE op' = [op EXCEPT ![s] = goesOn(@)]
    BY <1>0, <1>3, <2>1, MovedOn DEF listTokens
  <2>2. CASE op' # [op EXCEPT ![s] = goesOn(@)]
    <3>1. PICK batch, b :
            op' = [op EXCEPT ![s] =
                    [pc |-> "gc", now |-> @.now, delta |-> @.delta, old |-> @.old, new |-> @.new,
                     bucket |-> b, fresh |-> @.fresh, batch |-> batch]]
      BY <1>3, <2>2 DEF listTokens
    <3> DEFINE o == [pc |-> "gc", now |-> op[s].now, delta |-> op[s].delta, old |-> op[s].old,
                     new |-> op[s].new, bucket |-> b, fresh |-> op[s].fresh, batch |-> batch]
    <3>2. op' = [op EXCEPT ![s] = o]
      BY <3>1 DEF LimiterInv
    <3>3. Moved(op[s], o)
      BY <1>3 DEF listTokens, Moved
    <3> QED BY <3>2, <3>3
  <2> QED BY <2>1, <2>2
<1>4. CASE collectTokens(s)
  BY <1>0, <1>4, MovedOn DEF collectTokens
<1>5. CASE readCost(s)
  <2> DEFINE o == [pc |-> "store", new |-> op[s].new, now |-> op[s].now, cost |-> getNewTokenCost(op[s])]
  <2>1. op[s].pc = "cost" /\ Moved(op[s], o)
    BY <1>5 DEF readCost, Moved
  <2>2. (\E pc \in {"ok", "error"} : op' = [op EXCEPT ![s] = Result(pc)]) \/ op' = [op EXCEPT ![s] = o]
    BY <1>5 DEF readCost, ends, LimiterInv
  <2> QED BY <2>1, <2>2, MovedToEnd
<1>6. CASE storeCost(s)
  BY <1>6, MovedToEnd DEF storeCost, ends
<1>7. CASE lookup(s)
  <2> DEFINE o == [pc |-> "charge", token |-> op[s].token, now |-> now, cost |-> costs[op[s].token].cost]
  <2>1. op[s].pc = "lookup" /\ Moved(op[s], o)
    BY <1>7 DEF lookup, Moved
  <2>2. op' = [op EXCEPT ![s] = Result("ok")] \/ op' = [op EXCEPT ![s] = o]
    BY <1>7 DEF lookup, ends, LimiterInv
  <2> QED BY <2>1, <2>2, MovedToEnd
<1>8. CASE buildBucketUpdate(s)
  <2>1. op[s].pc = "charge"
    BY <1>8 DEF buildBucketUpdate
  <2>2. CASE op' = [op EXCEPT ![s] = Result("error")]
    BY <2>1, <2>2, MovedToEnd
  <2>3. CASE op' # [op EXCEPT ![s] = Result("error")]
    <3>1. PICK b : op' = [op EXCEPT ![s] =
            [pc |-> "commit", token |-> @.token, now |-> @.now, cost |-> @.cost, fresh |-> TRUE, bucket |-> b]]
      BY <1>8, <2>3 DEF buildBucketUpdate, ends
    <3> DEFINE o == [pc |-> "commit", token |-> op[s].token, now |-> op[s].now, cost |-> op[s].cost,
                     fresh |-> TRUE, bucket |-> b]
    <3>2. op' = [op EXCEPT ![s] = o] /\ Moved(op[s], o)
      BY <3>1, <2>1 DEF LimiterInv, Moved
    <3> QED BY <3>2
  <2> QED BY <2>2, <2>3
<1>9. CASE commit(s)
  BY <1>9, MovedToEnd DEF commit, ends
<1>10. CASE containerError(s)
  <2>1. op[s].pc \in Prepares \cup Charges
    BY <1>0, <1>10 DEF containerError, OpShape, Ended
  <2> QED BY <1>0, <1>10, <2>1, MovedOn, MovedToEnd DEF containerError, ends
<1> QED BY <1>1, <1>2, <1>3, <1>4, <1>5, <1>6, <1>7, <1>8, <1>9, <1>10 DEF containerStep

-----------------------------------------------------------------------------
(* The chain of a session. *)
LEMMA TailChain ==
  ASSUME NEW c \in Seq(Events), c # << >>, ClosesLast(c)
  PROVE  /\ Tail(c) \in Seq(Events) /\ ClosesLast(Tail(c))
         /\ (\A i \in DOMAIN c : c[i] # "close") => \A i \in DOMAIN Tail(c) : Tail(c)[i] # "close"
         /\ c[1] = "close" => Tail(c) = << >>
<1>1. Len(c) \in Nat /\ Len(c) > 0 /\ DOMAIN c = 1 .. Len(c)
  BY EmptySeq
<1>2. Tail(c) \in Seq(Events) /\ Len(Tail(c)) = Len(c) - 1 /\ \A i \in 1 .. Len(c) - 1 : Tail(c)[i] = c[i + 1]
  BY <1>1
<1>3. DOMAIN Tail(c) = 1 .. Len(c) - 1
  BY <1>1, <1>2
<1>4. ClosesLast(Tail(c))
  BY <1>1, <1>2, <1>3 DEF ClosesLast
<1>5. c[1] = "close" => Tail(c) = << >>
  <2>1. c[1] = "close" => Len(c) = 1
    BY <1>1 DEF ClosesLast
  <2> QED BY <2>1, <1>2, EmptySeq
<1> QED BY <1>1, <1>2, <1>3, <1>4, <1>5

LEMMA AppendChain ==
  ASSUME NEW c \in Seq(Events), NEW e \in Events, \A i \in DOMAIN c : c[i] # "close"
  PROVE  /\ Append(c, e) \in Seq(Events) /\ ClosesLast(Append(c, e)) /\ Append(c, e) # << >>
         /\ e # "close" => \A i \in DOMAIN Append(c, e) : Append(c, e)[i] # "close"
         /\ c # << >> => Append(c, e)[1] = c[1]
<1>1. /\ Append(c, e) \in Seq(Events) /\ Len(Append(c, e)) = Len(c) + 1 /\ Len(c) \in Nat
      /\ \A i \in 1 .. Len(c) : Append(c, e)[i] = c[i]
      /\ Append(c, e)[Len(c) + 1] = e
  BY AppendProperties
<1>2. DOMAIN Append(c, e) = 1 .. Len(c) + 1 /\ DOMAIN c = 1 .. Len(c)
  BY <1>1
<1>3. c # << >> => 1 \in 1 .. Len(c)
  BY EmptySeq, <1>1
<1> QED BY <1>1, <1>2, <1>3 DEF ClosesLast

LEMMA FailsFacts ==
  ASSUME NEW h \in Handlers, HandlerOK(h), h.up, h.chain # << >>
  PROVE  /\ fails(h) \in Handlers /\ HandlerOK(fails(h)) /\ fails(h).chain = Tail(h.chain)
         /\ fails(h).up /\ fails(h).client = h.client /\ fails(h).req = h.req /\ fails(h).token = h.token
         /\ fails(h).socket => h.socket /\ h.client = "none"
<1> DEFINE g == closeWithError(h)
<1>1. /\ g \in Handlers /\ g.chain = h.chain /\ g.up /\ g.client = h.client /\ g.req = h.req
      /\ g.token = h.token /\ g.ended = h.ended /\ g.released = h.released
      /\ (g.socket => h.socket /\ h.client = "none") /\ (g.closed => ~g.socket)
  BY DEF closeWithError, Handlers, HandlerOK
<1> HIDE DEF g
<1>2. fails(h) = [g EXCEPT !.chain = Tail(@)]
  BY DEF fails, done, g
<1>3. Tail(g.chain) \in Seq(Events) /\ ClosesLast(Tail(g.chain)) /\ h.chain \in Seq(Events)
      /\ ((\A i \in DOMAIN h.chain : h.chain[i] # "close") => \A i \in DOMAIN Tail(h.chain) : Tail(h.chain)[i] # "close")
  BY <1>1, TailChain DEF HandlerOK, Handlers
<1>4. /\ fails(h) \in Handlers /\ fails(h).chain = Tail(h.chain) /\ fails(h).ended = h.ended
      /\ fails(h).up /\ fails(h).client = h.client /\ fails(h).req = h.req /\ fails(h).token = h.token
      /\ fails(h).socket = g.socket /\ fails(h).closed = g.closed
  BY <1>1, <1>2, <1>3 DEF Handlers
<1>5. HandlerOK(fails(h))
  BY <1>1, <1>3, <1>4 DEF HandlerOK
<1> QED BY <1>1, <1>4, <1>5

LEMMA DoneFacts ==
  ASSUME NEW h \in Handlers, HandlerOK(h), h.up, h.chain # << >>
  PROVE  /\ done(h) \in Handlers /\ HandlerOK(done(h)) /\ done(h).chain = Tail(h.chain)
         /\ done(h).up /\ done(h).client = h.client /\ done(h).req = h.req /\ done(h).token = h.token
         /\ done(h).socket = h.socket /\ done(h).ended = h.ended
<1>1. Tail(h.chain) \in Seq(Events) /\ ClosesLast(Tail(h.chain)) /\ h.chain \in Seq(Events)
      /\ ((\A i \in DOMAIN h.chain : h.chain[i] # "close") => \A i \in DOMAIN Tail(h.chain) : Tail(h.chain)[i] # "close")
  BY TailChain DEF HandlerOK, Handlers
<1>2. /\ done(h) \in Handlers /\ done(h).chain = Tail(h.chain) /\ done(h).ended = h.ended
      /\ done(h).up /\ done(h).client = h.client /\ done(h).req = h.req /\ done(h).token = h.token
      /\ done(h).socket = h.socket /\ done(h).closed = h.closed
  BY <1>1 DEF Handlers, done
<1> QED BY <1>1, <1>2 DEF HandlerOK

(* What the handler of the event whose turn it is is like. *)
LEMMA TurnFacts ==
  ASSUME SessionsInv, NEW s \in Sessions, NEW e, turn(s, e)
  PROVE  /\ session[s] \in Handlers /\ HandlerOK(session[s]) /\ session[s].up
         /\ session[s].chain # << >> /\ session[s].chain[1] = e /\ op[s].pc = "idle"
<1>1. session[s] \in Handlers /\ HandlerOK(session[s]) /\ session[s].chain # << >>
  BY DEF SessionsInv, turn
<1>2. session[s].up
  BY <1>1 DEF HandlerOK, Handlers
<1>3. session[s].chain[1] = e
  BY <1>1 DEF turn, Handlers
<1>4. op[s].pc = "idle"
  BY DEF turn, Idle
<1> QED BY <1>1, <1>2, <1>3, <1>4

LEMMA OpFacts ==
  ASSUME SessionsInv, NEW s \in Sessions, op[s].pc # "idle"
  PROVE  /\ session[s] \in Handlers /\ HandlerOK(session[s]) /\ session[s].up
         /\ session[s].chain # << >> /\ session[s].chain[1] = "message"
  BY DEF SessionsInv, Stage

(* One session changes, and at most its own operation is another one. *)
LEMMA OneSession ==
  ASSUME SessionsInv, NEW s \in Sessions, NEW h \in Handlers, session' = [session EXCEPT ![s] = h],
         HandlerOK(h), Stage(h, op'[s]), \A r \in Sessions \ {s} : Waits(op[r], op'[r])
  PROVE  SessionsInv'
<1>1. session' \in [Sessions -> Handlers] /\ session'[s] = h /\ \A r \in Sessions \ {s} : session'[r] = session[r]
  BY DEF SessionsInv
<1>2. \A r \in Sessions : HandlerOK(session'[r])
  BY <1>1 DEF SessionsInv
<1>3. \A r \in Sessions : Stage(session'[r], op'[r])
  BY <1>1 DEF SessionsInv, Stage, Waits
<1> QED BY <1>1, <1>2, <1>3 DEF SessionsInv

LEMMA SameOps ==
  ASSUME op' = op
  PROVE  \A r \in Sessions : Waits(op[r], op'[r])
  BY DEF Waits

LEMMA IdleStage == ASSUME NEW h, NEW o, o.pc = "idle" PROVE Stage(h, o)
  BY DEF Stage, Prepares, Charges, Unpriced

LEMMA AbsentFacts == Absent \in Handlers /\ HandlerOK(Absent)
<1>1. << >> \in Seq(Events)
  OBVIOUS
<1>2. Absent \in Handlers
  BY <1>1 DEF Absent, Handlers, Kept, Clients
<1> QED BY <1>2 DEF Absent, HandlerOK, ClosesLast

(* The two ways a rate limit request goes. *)
Rejected(s) ==
    /\ op' = op /\ issued' = issued
    /\ \E req \in Kept :
          session' = [session EXCEPT ![s] = fails([session[s] EXCEPT !.client = "RATELIMIT", !.req = req])]

Accepted(s, req, new) ==
    /\ req.token \in received \cup {NoToken} /\ validate_received_rate_limit_token(req)
    /\ session' = [session EXCEPT ![s] =
          [session[s] EXCEPT !.client = "RATELIMIT", !.req = [prev |-> req.prev, new |-> req.new], !.token = new]]
    /\ issued' = [t \in DOMAIN issued \cup {new} |-> IF t = new
          THEN [prev |-> req.prev, new |-> req.new, parent |-> req.token] ELSE issued[t]]
    /\ prepare(s, Cardinality(req.new), req.token, new)

LEMMA RateLimitIs ==
  ASSUME SessionsInv, NEW s \in Sessions, rateLimit(s)
  PROVE  /\ turn(s, "message") /\ session[s].client = "ATTESTED"
         /\ UNCHANGED <<now, bucket, costs, ledger, received, answers, started>>
         /\ Rejected(s) \/ \E req \in Requests : \E new \in Tokens \ DOMAIN issued : Accepted(s, req, new)
<1> DEFINE h == [session[s] EXCEPT !.client = "RATELIMIT"]
           tok == CHOOSE t \in Tokens : t \notin DOMAIN issued
<1>1. session[s] \in Handlers
  BY DEF SessionsInv
<1>2. CASE session' = [session EXCEPT ![s] = fails(h)] /\ UNCHANGED <<op, issued>>
  <2>1. session[s].req \in Kept /\ h = [session[s] EXCEPT !.client = "RATELIMIT", !.req = session[s].req]
    BY <1>1 DEF Handlers
  <2>2. Rejected(s)
    BY <1>2, <2>1 DEF Rejected
  <2> QED BY <2>2 DEF rateLimit
<1>3. CASE \E req \in Requests :
             /\ req.token \in received \cup {NoToken}
             /\ LET kept == [h EXCEPT !.req = [prev |-> req.prev, new |-> req.new]]
                IN  IF validate_received_rate_limit_token(req)
                    THEN /\ Tokens \ DOMAIN issued # {}
                         /\ session' = [session EXCEPT ![s] = [kept EXCEPT !.token = tok]]
                         /\ issued' = [t \in DOMAIN issued \cup {tok} |-> IF t = tok
                               THEN [prev |-> req.prev, new |-> req.new, parent |-> req.token]
                               ELSE issued[t]]
                         /\ prepare(s, Cardinality(req.new), req.token, tok)
                    ELSE /\ session' = [session EXCEPT ![s] = fails(kept)]
                         /\ UNCHANGED <<op, issued>>
  <2>1. PICK req \in Requests :
             /\ req.token \in received \cup {NoToken}
             /\ LET kept == [h EXCEPT !.req = [prev |-> req.prev, new |-> req.new]]
                IN  IF validate_received_rate_limit_token(req)
                    THEN /\ Tokens \ DOMAIN issued # {}
                         /\ session' = [session EXCEPT ![s] = [kept EXCEPT !.token = tok]]
                         /\ issued' = [t \in DOMAIN issued \cup {tok} |-> IF t = tok
                               THEN [prev |-> req.prev, new |-> req.new, parent |-> req.token]
                               ELSE issued[t]]
                         /\ prepare(s, Cardinality(req.new), req.token, tok)
                    ELSE /\ session' = [session EXCEPT ![s] = fails(kept)]
                         /\ UNCHANGED <<op, issued>>
    BY <1>3
  <2> DEFINE q == [prev |-> req.prev, new |-> req.new]
             kept == [session[s] EXCEPT !.client = "RATELIMIT", !.req = q]
  <2>2. [h EXCEPT !.req = q] = kept
    BY <1>1 DEF Handlers
  <2>3. CASE validate_received_rate_limit_token(req)
    <3> HIDE DEF tok
    <3>1. Tokens \ DOMAIN issued # {} /\ session' = [session EXCEPT ![s] = [[h EXCEPT !.req = q] EXCEPT !.token = tok]]
          /\ prepare(s, Cardinality(req.new), req.token, tok)
          /\ issued' = [t \in DOMAIN issued \cup {tok} |-> IF t = tok
                               THEN [prev |-> req.prev, new |-> req.new, parent |-> req.token]
                               ELSE issued[t]]
      BY <2>1, <2>3
    <3>2. tok \in Tokens \ DOMAIN issued
      BY <3>1 DEF tok
    <3>3. [[h EXCEPT !.req = q] EXCEPT !.token = tok] =
              [session[s] EXCEPT !.client = "RATELIMIT", !.req = [prev |-> req.prev, new |-> req.new], !.token = tok]
      BY <1>1 DEF Handlers
    <3>4. Accepted(s, req, tok)
      BY <2>1, <2>3, <3>1, <3>3 DEF Accepted
    <3> QED BY <3>2, <3>4 DEF rateLimit
  <2>4. CASE ~validate_received_rate_limit_token(req)
    <3>1. Rejected(s)
      BY <2>1, <2>2, <2>4 DEF Rejected, Kept
    <3> QED BY <3>1 DEF rateLimit
  <2> QED BY <2>3, <2>4
<1> QED BY <1>2, <1>3 DEF rateLimit

(* The handler whose client has gone one step further. *)
LEMMA ClientFacts ==
  ASSUME NEW h \in Handlers, HandlerOK(h), h.up, NEW c \in Clients
  PROVE  LET g == [h EXCEPT !.client = c]
         IN  /\ g \in Handlers /\ HandlerOK(g) /\ g.up /\ g.chain = h.chain /\ g.socket = h.socket
             /\ g.client = c /\ g.req = h.req /\ g.token = h.token
  BY DEF Handlers, HandlerOK

LEMMA OnOpenSessions ==
  ASSUME SessionsInv, NEW s \in Sessions, onOpen(s)
  PROVE  SessionsInv'
<1> DEFINE h == [Absent EXCEPT !.up = TRUE, !.socket = TRUE, !.chain = <<"open">>]
<1>1. <<"open">> \in Seq(Events) /\ ClosesLast(<<"open">>) /\ \A i \in DOMAIN <<"open">> : <<"open">>[i] # "close"
  BY DEF Events, ClosesLast
<1>2. h \in Handlers /\ HandlerOK(h)
  BY <1>1, AbsentFacts DEF Handlers, HandlerOK, Absent
<1>3. op[s].pc = "idle"
  BY DEF onOpen, SessionsInv, Stage
<1>4. Stage(h, op[s])
  BY <1>3, IdleStage
<1>5. op' = op /\ session' = [session EXCEPT ![s] = h]
  BY DEF onOpen, limiter
<1> HIDE DEF h
<1> QED BY <1>2, <1>4, <1>5, SameOps, OneSession

LEMMA OnMessageSessions ==
  ASSUME SessionsInv, NEW s \in Sessions, onMessage(s)
  PROVE  SessionsInv'
<1> DEFINE c == Append(session[s].chain, "message")
           h == [session[s] EXCEPT !.chain = c]
<1>1. session[s] \in Handlers /\ HandlerOK(session[s]) /\ session[s].socket /\ session[s].chain \in Seq(Events)
  BY DEF onMessage, SessionsInv, Handlers
<1>2. session[s].up /\ ~session[s].ended /\ \A i \in DOMAIN session[s].chain : session[s].chain[i] # "close"
  BY <1>1 DEF HandlerOK
<1>3. /\ c \in Seq(Events) /\ ClosesLast(c) /\ c # << >> /\ \A i \in DOMAIN c : c[i] # "close"
      /\ session[s].chain # << >> => c[1] = session[s].chain[1]
  BY <1>1, <1>2, AppendChain DEF Events
<1> HIDE DEF c
<1>4. h \in Handlers /\ HandlerOK(h) /\ h.up /\ h.chain = c /\ h.client = session[s].client /\ h.token = session[s].token
  BY <1>1, <1>2, <1>3 DEF Handlers, HandlerOK
<1>5. op' = op /\ session' = [session EXCEPT ![s] = h]
  BY DEF onMessage, limiter, c, SessionsInv
<1> HIDE DEF h
<1>6. Stage(h, op[s])
  BY <1>3, <1>4 DEF SessionsInv, Stage
<1> QED BY <1>4, <1>5, <1>6, SameOps, OneSession

LEMMA OnCloseSessions ==
  ASSUME SessionsInv, NEW s \in Sessions, onClose(s)
  PROVE  SessionsInv'
<1> DEFINE c == Append(session[s].chain, "close")
           h == [session[s] EXCEPT !.chain = c, !.ended = TRUE, !.socket = FALSE]
<1>1. session[s] \in Handlers /\ HandlerOK(session[s]) /\ session[s].up /\ ~session[s].ended
      /\ session[s].chain \in Seq(Events)
  BY DEF onClose, SessionsInv, Handlers
<1>2. \A i \in DOMAIN session[s].chain : session[s].chain[i] # "close"
  BY <1>1 DEF HandlerOK
<1>3. /\ c \in Seq(Events) /\ ClosesLast(c) /\ c # << >>
      /\ session[s].chain # << >> => c[1] = session[s].chain[1]
  BY <1>1, <1>2, AppendChain DEF Events
<1> HIDE DEF c
<1>4. h \in Handlers /\ HandlerOK(h) /\ h.up /\ h.chain = c /\ h.client = session[s].client /\ h.token = session[s].token
  BY <1>1, <1>2, <1>3 DEF Handlers, HandlerOK
<1>5. op' = op /\ session' = [session EXCEPT ![s] = h]
  BY DEF onClose, limiter, c, SessionsInv
<1> HIDE DEF h
<1>6. Stage(h, op[s])
  BY <1>3, <1>4 DEF SessionsInv, Stage
<1> QED BY <1>4, <1>5, <1>6, SameOps, OneSession

(* What the stages of onOpen and of the handshake make of the handler. *)
LEMMA NewClientIs ==
  ASSUME SessionsInv, NEW s \in Sessions, newClient(s)
  PROVE  \E h \in Handlers :
            /\ session' = [session EXCEPT ![s] = h] /\ HandlerOK(h) /\ op[s].pc = "idle" /\ op' = op
            /\ h.client \in {session[s].client, "UNINITIALIZED"} /\ h.token = session[s].token
            /\ h.socket => session[s].socket /\ h.client \in {"none", "UNINITIALIZED"}
<1> DEFINE g == [session[s] EXCEPT !.client = "UNINITIALIZED"]
<1>1. /\ session[s] \in Handlers /\ HandlerOK(session[s]) /\ session[s].up
      /\ session[s].chain # << >> /\ op[s].pc = "idle"
  BY TurnFacts DEF newClient
<1>2. /\ g \in Handlers /\ HandlerOK(g) /\ g.up /\ g.chain = session[s].chain /\ g.socket = session[s].socket
      /\ g.client = "UNINITIALIZED" /\ g.token = session[s].token
  BY <1>1, ClientFacts DEF Clients
<1>3. PICK x \in {fails(session[s]), fails(g), done(g)} : session' = [session EXCEPT ![s] = x]
  BY DEF newClient
<1> HIDE DEF g
<1>4. /\ x \in Handlers /\ HandlerOK(x) /\ x.client \in {session[s].client, "UNINITIALIZED"}
      /\ x.token = session[s].token
      /\ x.socket => session[s].socket /\ x.client \in {"none", "UNINITIALIZED"}
  BY <1>1, <1>2, <1>3, FailsFacts, DoneFacts
<1> QED BY <1>1, <1>3, <1>4 DEF newClient, limiter

LEMMA HandshakeIs ==
  ASSUME SessionsInv, NEW s \in Sessions, handshake(s)
  PROVE  \E h \in Handlers :
            /\ session' = [session EXCEPT ![s] = h] /\ HandlerOK(h) /\ op[s].pc = "idle" /\ op' = op
            /\ h.token = session[s].token
            /\ h.socket => session[s].socket /\ h.client \in {"none", "ATTESTED"}
            /\ h.client \in {session[s].client, "ATTESTED"}
            /\ session[s].client \in {"none", "UNINITIALIZED", "COMPLETE"}
<1> DEFINE g == [session[s] EXCEPT !.client = "ATTESTED"]
           k == [g EXCEPT !.keys = TRUE]
<1>1. /\ session[s] \in Handlers /\ HandlerOK(session[s]) /\ session[s].up
      /\ session[s].chain # << >> /\ op[s].pc = "idle"
  BY TurnFacts DEF handshake
<1>2. /\ g \in Handlers /\ HandlerOK(g) /\ g.up /\ g.chain = session[s].chain /\ g.socket = session[s].socket
      /\ g.client = "ATTESTED" /\ g.token = session[s].token
  BY <1>1, ClientFacts DEF Clients
<1> HIDE DEF g
<1>3. /\ k \in Handlers /\ HandlerOK(k) /\ k.up /\ k.chain = session[s].chain /\ k.socket = session[s].socket
      /\ k.client = "ATTESTED" /\ k.token = session[s].token
  BY <1>2 DEF Handlers, HandlerOK
<1>4. PICK x \in {fails(session[s]), fails(g), fails(k), done(k)} : session' = [session EXCEPT ![s] = x]
  BY DEF handshake, g
<1> HIDE DEF k
<1>5. /\ x \in Handlers /\ HandlerOK(x) /\ x.client \in {session[s].client, "ATTESTED"}
      /\ x.token = session[s].token
      /\ x.socket => session[s].socket /\ x.client \in {"none", "ATTESTED"}
  BY <1>1, <1>2, <1>3, <1>4, FailsFacts, DoneFacts
<1> QED BY <1>1, <1>4, <1>5 DEF handshake, limiter

LEMMA NewClientSessions ==
  ASSUME SessionsInv, NEW s \in Sessions, newClient(s)
  PROVE  SessionsInv'
  BY NewClientIs, IdleStage, SameOps, OneSession

LEMMA HandshakeSessions ==
  ASSUME SessionsInv, NEW s \in Sessions, handshake(s)
  PROVE  SessionsInv'
  BY HandshakeIs, IdleStage, SameOps, OneSession

LEMMA RejectedIs ==
  ASSUME SessionsInv, NEW s \in Sessions, turn(s, "message"), Rejected(s)
  PROVE  \E h \in Handlers :
            /\ session' = [session EXCEPT ![s] = h] /\ HandlerOK(h) /\ op[s].pc = "idle" /\ op' = op
            /\ ~h.socket /\ h.token = session[s].token
<1>1. /\ session[s] \in Handlers /\ HandlerOK(session[s]) /\ session[s].up
      /\ session[s].chain # << >> /\ op[s].pc = "idle"
  BY TurnFacts
<1>2. PICK req \in Kept : session' =
          [session EXCEPT ![s] = fails([session[s] EXCEPT !.client = "RATELIMIT", !.req = req])]
  BY DEF Rejected
<1> DEFINE g == [session[s] EXCEPT !.client = "RATELIMIT", !.req = req]
           f == fails(g)
<1>3. /\ g \in Handlers /\ HandlerOK(g) /\ g.up /\ g.chain # << >>
      /\ g.client = "RATELIMIT" /\ g.token = session[s].token
  BY <1>1 DEF Handlers, HandlerOK, Clients
<1>4. session' = [session EXCEPT ![s] = f]
  BY <1>2
<1> HIDE DEF g
<1>5. f \in Handlers /\ HandlerOK(f) /\ f.token = session[s].token /\ ~f.socket
  BY <1>3, FailsFacts
<1> QED BY <1>1, <1>4, <1>5 DEF Rejected

LEMMA RateLimitSessions ==
  ASSUME LimiterInv, SessionsInv, NEW s \in Sessions, rateLimit(s)
  PROVE  SessionsInv'
<1>1. /\ turn(s, "message") /\ session[s] \in Handlers /\ HandlerOK(session[s]) /\ session[s].up
      /\ session[s].chain # << >> /\ session[s].chain[1] = "message" /\ op[s].pc = "idle"
  BY TurnFacts, RateLimitIs
<1>2. CASE Rejected(s)
  BY <1>1, <1>2, RejectedIs, IdleStage, SameOps, OneSession
<1>3. ASSUME NEW req \in Requests, NEW new \in Tokens \ DOMAIN issued, Accepted(s, req, new) PROVE SessionsInv'
  <2> DEFINE q == [prev |-> req.prev, new |-> req.new]
             g == [session[s] EXCEPT !.client = "RATELIMIT", !.req = q, !.token = new]
             o == [pc |-> "read", now |-> now, delta |-> Cardinality(req.new), old |-> req.token, new |-> new]
  <2>1. session' = [session EXCEPT ![s] = g] /\ op' = [op EXCEPT ![s] = o]
    BY <1>3 DEF Accepted, prepare
  <2>2. q \in Kept
    BY DEF Kept
  <2>3. /\ g \in Handlers /\ HandlerOK(g) /\ g.up /\ g.chain = session[s].chain
        /\ g.client = "RATELIMIT" /\ g.token = new
    BY <1>1, <2>2 DEF Handlers, HandlerOK, Clients
  <2>4. Stage(g, o)
    BY <1>1, <2>3 DEF Stage, Prepares, Charges, Unpriced
  <2> HIDE DEF g, o
  <2>5. op'[s] = o /\ \A r \in Sessions \ {s} : Waits(op[r], op'[r])
    BY <2>1, WaitsAll
  <2> QED BY <2>1, <2>3, <2>4, <2>5, OneSession
<1> QED BY <1>2, <1>3, RateLimitIs

(* The end of an operation. *)
LEMMA SendTokenSessions ==
  ASSUME LimiterInv, SessionsInv, NEW s \in Sessions, sendToken(s)
  PROVE  SessionsInv'
<1>1. /\ session[s] \in Handlers /\ HandlerOK(session[s]) /\ session[s].up /\ session[s].chain # << >>
  BY OpFacts DEF sendToken
<1>2. op' = [op EXCEPT ![s] = Idle] /\ Idle.pc = "idle"
  BY DEF sendToken, Idle
<1>3. op'[s] = Idle /\ \A r \in Sessions \ {s} : Waits(op[r], op'[r])
  BY <1>2, WaitsAll
<1>4. PICK x \in {done(session[s]), fails(session[s])} : session' = [session EXCEPT ![s] = x]
  BY DEF sendToken, SessionsInv
<1>5. x \in Handlers /\ HandlerOK(x) /\ Stage(x, op'[s])
  BY <1>1, <1>2, <1>3, <1>4, DoneFacts, FailsFacts, IdleStage
<1> QED BY <1>3, <1>4, <1>5, OneSession

LEMMA CompleteSessions ==
  ASSUME LimiterInv, SessionsInv, NEW s \in Sessions, complete(s)
  PROVE  SessionsInv'
<1> DEFINE g == [session[s] EXCEPT !.client = "COMPLETE"]
           o == [pc |-> "lookup", token |-> session[s].token]
<1>1. /\ session[s] \in Handlers /\ HandlerOK(session[s]) /\ session[s].up
      /\ session[s].chain # << >> /\ session[s].chain[1] = "message" /\ op[s].pc = "idle"
  BY TurnFacts DEF complete
<1>2. session' = [session EXCEPT ![s] = g] /\ op' = [op EXCEPT ![s] = o]
  BY DEF complete, validate, SessionsInv
<1>3. /\ g \in Handlers /\ HandlerOK(g) /\ g.up /\ g.chain = session[s].chain
      /\ g.client = "COMPLETE" /\ g.token = session[s].token
  BY <1>1, ClientFacts DEF Clients
<1>4. Stage(g, o)
  BY <1>1, <1>3 DEF Stage, Prepares, Charges, Unpriced
<1> HIDE DEF g, o
<1>5. op'[s] = o /\ \A r \in Sessions \ {s} : Waits(op[r], op'[r])
  BY <1>2, WaitsAll
<1> QED BY <1>2, <1>3, <1>4, <1>5, OneSession

LEMMA RunIs ==
  ASSUME SessionsInv, NEW s \in Sessions, run(s)
  PROVE  \E h \in Handlers :
            /\ session' = [session EXCEPT ![s] = h] /\ HandlerOK(h)
            /\ ~h.socket /\ h.token = session[s].token /\ h.client = "COMPLETE"
<1>1. /\ session[s] \in Handlers /\ HandlerOK(session[s]) /\ session[s].up /\ session[s].chain # << >>
      /\ session[s].client = "COMPLETE"
  BY OpFacts DEF run
<1> DEFINE d == done(session[s])
           e == [d EXCEPT !.closed = TRUE, !.socket = FALSE]
<1>2. d \in Handlers /\ HandlerOK(d) /\ d.token = session[s].token /\ d.client = "COMPLETE"
  BY <1>1, DoneFacts
<1>3. session' = [session EXCEPT ![s] = fails(session[s])] \/ session' = [session EXCEPT ![s] = e]
  BY DEF run, SessionsInv
<1> HIDE DEF d
<1>4. e \in Handlers /\ HandlerOK(e) /\ e.token = session[s].token /\ e.client = "COMPLETE" /\ ~e.socket
  BY <1>2 DEF Handlers, HandlerOK
<1>5. CASE session' = [session EXCEPT ![s] = fails(session[s])]
  <2> DEFINE f == fails(session[s])
  <2>1. f \in Handlers /\ HandlerOK(f) /\ f.token = session[s].token /\ f.client = "COMPLETE" /\ ~f.socket
    BY <1>1, FailsFacts
  <2> HIDE DEF f
  <2> QED BY <1>5, <2>1 DEF f
<1>6. CASE session' = [session EXCEPT ![s] = e]
  BY <1>4, <1>6
<1> QED BY <1>3, <1>5, <1>6

LEMMA RunSessions ==
  ASSUME LimiterInv, SessionsInv, NEW s \in Sessions, run(s)
  PROVE  SessionsInv'
<1>1. op' = [op EXCEPT ![s] = Idle] /\ Idle.pc = "idle"
  BY DEF run, Idle
<1>2. op'[s] = Idle /\ \A r \in Sessions \ {s} : Waits(op[r], op'[r])
  BY <1>1, WaitsAll
<1> QED BY <1>1, <1>2, RunIs, IdleStage, OneSession

(* The close is the last event, so nothing is left of the chain. *)
LEMMA CloseIs ==
  ASSUME SessionsInv, NEW s \in Sessions, close(s)
  PROVE  \E h \in Handlers :
            /\ session' = [session EXCEPT ![s] = h] /\ HandlerOK(h) /\ op[s].pc = "idle" /\ op' = op
            /\ ~h.socket /\ h.token = NoToken
<1>1. /\ session[s] \in Handlers /\ HandlerOK(session[s]) /\ session[s].up
      /\ session[s].chain # << >> /\ session[s].chain[1] = "close" /\ op[s].pc = "idle"
  BY TurnFacts DEF close
<1>2. fails(session[s]).chain = << >>
  <2>1. fails(session[s]).chain = Tail(session[s].chain) /\ session[s].chain \in Seq(Events)
        /\ ClosesLast(session[s].chain)
    BY <1>1, FailsFacts DEF Handlers, HandlerOK
  <2> QED BY <1>1, <2>1, TailChain
<1> DEFINE h == [Absent EXCEPT !.client = session[s].client, !.released = releases(session[s]), !.chain = << >>]
<1>3. session' = [session EXCEPT ![s] = h] /\ op' = op
  BY <1>2 DEF close, limiter
<1>4. h \in Handlers /\ HandlerOK(h) /\ ~h.socket /\ h.token = NoToken
  <2>1. releases(session[s]) \in BOOLEAN /\ (session[s].client # "none" => releases(session[s])) /\ session[s].client \in Clients
    BY <1>1 DEF releases, Handlers
  <2>2. << >> \in Seq(Events) /\ ClosesLast(<< >>)
    BY DEF ClosesLast
  <2> HIDE DEF releases
  <2> QED BY <2>1, <2>2, AbsentFacts DEF Absent, Handlers, HandlerOK
<1> QED BY <1>1, <1>3, <1>4

LEMMA CloseSessions ==
  ASSUME SessionsInv, NEW s \in Sessions, close(s)
  PROVE  SessionsInv'
  BY CloseIs, IdleStage, SameOps, OneSession

LEMMA ContainerSessions ==
  ASSUME LimiterInv, SessionsInv, NEW s \in Sessions, containerStep(s), session' = session
  PROVE  SessionsInv'
<1>1. Moved(op[s], op'[s]) /\ \A r \in Sessions \ {s} : Waits(op[r], op'[r])
  BY ContainerMoves
<1>2. session[s] \in Handlers /\ HandlerOK(session[s]) /\ Stage(session[s], op[s])
      /\ session' = [session EXCEPT ![s] = session[s]]
  BY DEF SessionsInv
<1>3. Stage(session[s], op'[s])
  BY <1>1, <1>2 DEF Stage, Moved, Prepares, Charges, Unpriced
<1> QED BY <1>1, <1>2, <1>3, OneSession

-----------------------------------------------------------------------------
(* A token stands for its numbers. *)
LEMMA TokenNumbers ==
  ASSUME NEW a, NEW b, NEW c, NEW d, compute_token(a, b) = compute_token(c, d)
  PROVE  a \cup b = c \cup d
<1>1. \A x, y : DOMAIN compute_token(x, y) = x \cup y
  BY DEF compute_token, merge_e164s, SetToBag, (+)
<1> QED BY <1>1

LEMMA EmptyNumbers ==
  ASSUME TokensInv, NEW t \in DOMAIN issued
  PROVE  IsFiniteSet(issued[t].new) /\ Cardinality(issued[t].new) \in Nat
         /\ (Cardinality(issued[t].new) = 0 => issued[t].new = {})
<1>1. PICK req \in Requests : issued[t].new = req.new
  BY DEF TokensInv, IssuedInv, Issues
<1>2. IsFiniteSet(issued[t].new)
  BY <1>1, RequestsAssumption
<1> QED BY <1>2, FS_CardinalityType, FS_EmptySet

LEMMA RequestCost ==
  ASSUME NEW req \in Requests
  PROVE  Cardinality(req.new) \in Nat
  BY RequestsAssumption, FS_CardinalityType

(* No token is issued, and one session changes. *)
LEMMA TokensKept ==
  ASSUME TokensInv, SessionsInv, NEW s \in Sessions, issued' = issued,
         received \subseteq received', received' \subseteq DOMAIN issued, DOMAIN costs' \subseteq DOMAIN issued,
         NEW h, session' = [session EXCEPT ![s] = h], h.token \in {session[s].token, NoToken},
         TokenOK(h, op'[s]), \A r \in Sessions \ {s} : Waits(op[r], op'[r])
  PROVE  TokensInv'
<1>1. session'[s] = h /\ \A r \in Sessions \ {s} : session'[r] = session[r]
  BY DEF SessionsInv
<1>2. IssuedInv'
  BY DEF TokensInv, IssuedInv, Numbers
<1>3. ASSUME NEW r \in Sessions PROVE TokenOK(session[r], op[r])'
  <2>1. CASE r = s
    BY <1>1, <2>1 DEF TokenOK
  <2>2. CASE r # s
    <3>1. TokenOK(session[r], op[r]) /\ session'[r] = session[r] /\ Waits(op[r], op'[r])
      BY <1>1, <2>2 DEF TokensInv
    <3> QED BY <3>1 DEF TokenOK, Waits
  <2> QED BY <2>1, <2>2
<1>4. (\A p, r \in Sessions : session[p].token = session[r].token /\ session[p].token # NoToken => p = r)'
  BY <1>1 DEF TokensInv
<1> QED BY <1>2, <1>3, <1>4 DEF TokensInv

LEMMA SessionFacts ==
  ASSUME TokensInv, SessionsInv, NEW s \in Sessions
  PROVE  /\ TokenOK(session[s], op[s]) /\ session[s] \in Handlers
         /\ received \subseteq DOMAIN issued /\ DOMAIN costs \subseteq DOMAIN issued
  BY DEF TokensInv, SessionsInv, IssuedInv

LEMMA EventTokens ==
  ASSUME TokensInv, SessionsInv, NEW s \in Sessions, onOpen(s) \/ onMessage(s) \/ onClose(s)
  PROVE  TokensInv'
<1>1. TokenOK(session[s], op[s]) /\ session[s] \in Handlers
      /\ received \subseteq DOMAIN issued /\ DOMAIN costs \subseteq DOMAIN issued
  BY SessionFacts
<1>2. op' = op /\ issued' = issued /\ received' = received /\ costs' = costs
  BY DEF onOpen, onMessage, onClose, limiter
<1>3. CASE onOpen(s)
  <2> DEFINE h == [Absent EXCEPT !.up = TRUE, !.socket = TRUE, !.chain = <<"open">>]
  <2>1. session' = [session EXCEPT ![s] = h] /\ h.token = NoToken /\ h.client = "none"
    BY <1>3 DEF onOpen, Absent
  <2>2. op[s].pc = "idle"
    BY <1>3 DEF onOpen, SessionsInv, Stage
  <2> HIDE DEF h
  <2>3. TokenOK(h, op[s])
    BY <2>1, <2>2 DEF TokenOK, Unpriced
  <2> QED BY <1>1, <1>2, <2>1, <2>3, SameOps, TokensKept
<1>4. CASE onMessage(s)
  <2> DEFINE h == [session[s] EXCEPT !.chain = Append(@, "message")]
  <2>1. session' = [session EXCEPT ![s] = h]
    BY <1>4 DEF onMessage, SessionsInv
  <2>2. h.token = session[s].token /\ h.client = session[s].client /\ h.req = session[s].req /\ h.socket = session[s].socket
    BY <1>1 DEF Handlers
  <2> HIDE DEF h
  <2>3. TokenOK(h, op[s])
    BY <1>1, <2>2 DEF TokenOK
  <2> QED BY <1>1, <1>2, <2>1, <2>2, <2>3, SameOps, TokensKept
<1>5. CASE onClose(s)
  <2> DEFINE h == [session[s] EXCEPT !.chain = Append(@, "close"), !.ended = TRUE, !.socket = FALSE]
  <2>1. session' = [session EXCEPT ![s] = h]
    BY <1>5 DEF onClose, SessionsInv
  <2>2. h.token = session[s].token /\ h.client = session[s].client /\ h.req = session[s].req /\ ~h.socket
    BY <1>1 DEF Handlers
  <2> HIDE DEF h
  <2>3. TokenOK(h, op[s])
    BY <1>1, <2>2 DEF TokenOK
  <2> QED BY <1>1, <1>2, <2>1, <2>2, <2>3, SameOps, TokensKept
<1> QED BY <1>3, <1>4, <1>5

(* A session that has no token in use, or cannot answer any more. *)
LEMMA StageTokens ==
  ASSUME TokensInv, SessionsInv, NEW s \in Sessions,
         newClient(s) \/ handshake(s) \/ close(s)
  PROVE  TokensInv'
<1>1. TokenOK(session[s], op[s]) /\ received \subseteq DOMAIN issued /\ DOMAIN costs \subseteq DOMAIN issued
  BY SessionFacts
<1>2. op' = op /\ issued' = issued /\ received' = received /\ costs' = costs
  BY DEF newClient, handshake, close, limiter
<1>3. PICK h \in Handlers :
        /\ session' = [session EXCEPT ![s] = h] /\ h.token \in {session[s].token, NoToken}
        /\ h.socket => h.client \notin {"RATELIMIT", "COMPLETE"}
        /\ op[s].pc = "idle"
  BY NewClientIs, HandshakeIs, CloseIs
<1>4. TokenOK(h, op[s])
  BY <1>1, <1>3 DEF TokenOK, Unpriced
<1> QED BY <1>1, <1>2, <1>3, <1>4, SameOps, TokensKept

LEMMA RejectedTokens ==
  ASSUME TokensInv, SessionsInv, NEW s \in Sessions, rateLimit(s), Rejected(s)
  PROVE  TokensInv'
<1>1. TokenOK(session[s], op[s]) /\ received \subseteq DOMAIN issued /\ DOMAIN costs \subseteq DOMAIN issued
  BY SessionFacts
<1>2. op' = op /\ issued' = issued /\ received' = received /\ costs' = costs /\ turn(s, "message")
  BY DEF Rejected, rateLimit
<1>3. PICK h \in Handlers :
        /\ session' = [session EXCEPT ![s] = h] /\ h.token = session[s].token
        /\ ~h.socket /\ op[s].pc = "idle"
  BY <1>2, RejectedIs
<1>4. TokenOK(h, op[s])
  BY <1>1, <1>3 DEF TokenOK, Unpriced
<1> QED BY <1>1, <1>2, <1>3, <1>4, SameOps, TokensKept

(* The numbers of an accepted request are those of its token. *)
LEMMA AcceptedNumbers ==
  ASSUME NEW req, validate_received_rate_limit_token(req)
  PROVE  /\ req.token = NoToken => req.prev = {}
         /\ req.token # NoToken => req.prev \subseteq Numbers(req.token)
<1>1. req.token = NoToken => req.prev = {}
  BY DEF validate_received_rate_limit_token
<1>2. CASE req.token # NoToken
  <2>1. req.prev \cup req.discard = Numbers(req.token)
    BY <1>2, TokenNumbers DEF validate_received_rate_limit_token, Numbers
  <2> QED BY <2>1, <1>2
<1> QED BY <1>1, <1>2

LEMMA AcceptedTokens ==
  ASSUME LimiterInv, TokensInv, SessionsInv, NEW s \in Sessions, rateLimit(s),
         NEW req \in Requests, NEW new \in Tokens \ DOMAIN issued, Accepted(s, req, new)
  PROVE  TokensInv'
<1> DEFINE q == [prev |-> req.prev, new |-> req.new]
           i == [prev |-> req.prev, new |-> req.new, parent |-> req.token]
           g == [session[s] EXCEPT !.client = "RATELIMIT", !.req = q, !.token = new]
           o == [pc |-> "read", now |-> now, delta |-> Cardinality(req.new), old |-> req.token, new |-> new]
<1>1. received' = received /\ costs' = costs
  BY DEF rateLimit
<1>2. /\ session' = [session EXCEPT ![s] = g] /\ op' = [op EXCEPT ![s] = o]
      /\ issued' = [t \in DOMAIN issued \cup {new} |-> IF t = new THEN i ELSE issued[t]]
      /\ req.token \in received \cup {NoToken}
  BY DEF Accepted, prepare
<1>3. g.token = new /\ g.client = "RATELIMIT" /\ g.req = q
  BY DEF SessionsInv, Handlers
<1>4. i \in Issues /\ i.parent = req.token /\ i.prev = req.prev /\ i.new = req.new
  BY DEF Issues
<1>5. o.pc = "read" /\ o.old = req.token /\ o.delta = Cardinality(req.new)
  OBVIOUS
<1> HIDE DEF g, o, i
<1>6. op'[s] = o /\ \A r \in Sessions \ {s} : Waits(op[r], op'[r])
  BY <1>2, WaitsAll
<1>7. session'[s] = g /\ \A r \in Sessions \ {s} : session'[r] = session[r]
  BY <1>2 DEF SessionsInv
<1>8. /\ DOMAIN issued' = DOMAIN issued \cup {new} /\ issued'[new] = i
      /\ \A t \in DOMAIN issued : issued'[t] = issued[t]
  BY <1>2
<1>9. IssuedInv'
  <2>1. DOMAIN issued' \subseteq Tokens /\ received' \subseteq DOMAIN issued' /\ DOMAIN costs' \subseteq DOMAIN issued'
    BY <1>1, <1>8 DEF TokensInv, IssuedInv
  <2>2. ASSUME NEW t \in DOMAIN issued
        PROVE  /\ issued'[t] \in Issues
               /\ issued'[t].parent = NoToken => issued'[t].prev = {}
               /\ issued'[t].parent # NoToken =>
                     issued'[t].parent \in received' /\ issued'[t].prev \subseteq Numbers(issued[t].parent)'
    BY <1>1, <1>8 DEF TokensInv, IssuedInv, Numbers
  <2>3. /\ issued'[new] \in Issues
        /\ issued'[new].parent = NoToken => issued'[new].prev = {}
        /\ issued'[new].parent # NoToken =>
              issued'[new].parent \in received' /\ issued'[new].prev \subseteq Numbers(issued[new].parent)'
    <3>1. validate_received_rate_limit_token(req)
      BY DEF Accepted
    <3>2. /\ req.token = NoToken => req.prev = {}
          /\ req.token # NoToken => req.prev \subseteq Numbers(req.token) /\ req.token \in received
      BY <1>2, <3>1, AcceptedNumbers
    <3>3. req.token \in DOMAIN issued => issued'[req.token] = issued[req.token]
      BY <1>8
    <3> QED BY <1>1, <1>4, <1>8, <3>2, <3>3 DEF TokensInv, IssuedInv, Numbers
  <2> QED BY <1>8, <2>1, <2>2, <2>3 DEF IssuedInv
<1>10. ASSUME NEW r \in Sessions PROVE TokenOK(session[r], op[r])'
  <2>1. CASE r = s
    <3>1. g.req = [prev |-> issued'[new].prev, new |-> issued'[new].new]
      BY <1>3, <1>4, <1>8
    <3> QED BY <2>1, <1>3, <1>4, <1>5, <1>6, <1>7, <1>8, <3>1 DEF TokenOK
  <2>2. CASE r # s
    <3>1. TokenOK(session[r], op[r]) /\ session'[r] = session[r] /\ Waits(op[r], op'[r])
          /\ Stage(session[r], op[r])
      BY <1>6, <1>7, <2>2 DEF TokensInv, SessionsInv
    <3>2. op[r].pc \in Unpriced => session[r].token \in DOMAIN issued
      BY <3>1 DEF TokenOK, Stage, Unpriced, Prepares
    <3> QED BY <1>8, <3>1, <3>2 DEF TokenOK, Waits
  <2> QED BY <2>1, <2>2
<1>11. (\A p, r \in Sessions : session[p].token = session[r].token /\ session[p].token # NoToken => p = r)'
  <2>1. \A r \in Sessions : session[r].token # new
    BY TokenLimiterAssumption DEF TokensInv, TokenOK
  <2> QED BY <1>3, <1>7, <2>1 DEF TokensInv
<1> QED BY <1>9, <1>10, <1>11 DEF TokensInv

LEMMA SendTokenTokens ==
  ASSUME LimiterInv, TokensInv, SessionsInv, NEW s \in Sessions, sendToken(s)
  PROVE  TokensInv'
<1>1. TokenOK(session[s], op[s]) /\ received \subseteq DOMAIN issued /\ DOMAIN costs \subseteq DOMAIN issued
  BY SessionFacts
<1>2. /\ session[s] \in Handlers /\ HandlerOK(session[s]) /\ session[s].up /\ session[s].chain # << >>
      /\ session[s].client = "RATELIMIT"
  BY OpFacts DEF sendToken
<1>3. op' = [op EXCEPT ![s] = Idle] /\ issued' = issued /\ costs' = costs /\ Idle.pc = "idle"
  BY DEF sendToken, Idle
<1>4. op'[s] = Idle /\ \A r \in Sessions \ {s} : Waits(op[r], op'[r])
  BY <1>3, WaitsAll
<1>5. session[s].token \in DOMAIN issued
      /\ session[s].req = [prev |-> issued[session[s].token].prev, new |-> issued[session[s].token].new]
  BY <1>1, <1>2 DEF sendToken, TokenOK
<1>6. received \subseteq received' /\ received' \subseteq DOMAIN issued
  BY <1>1, <1>5 DEF sendToken
<1>7. PICK h \in {done(session[s]), fails(session[s])} : session' = [session EXCEPT ![s] = h]
  BY DEF sendToken, SessionsInv
<1>8. h.token = session[s].token /\ h.client = session[s].client /\ h.req = session[s].req
  BY <1>2, <1>7, DoneFacts, FailsFacts
<1>9. TokenOK(h, Idle)
  BY <1>3, <1>5, <1>8 DEF TokenOK, Unpriced
<1> QED BY <1>1, <1>3, <1>4, <1>6, <1>7, <1>8, <1>9, TokensKept

LEMMA CompleteTokens ==
  ASSUME LimiterInv, TokensInv, SessionsInv, NEW s \in Sessions, complete(s)
  PROVE  TokensInv'
<1> DEFINE h == [session[s] EXCEPT !.client = "COMPLETE"]
           o == [pc |-> "lookup", token |-> session[s].token]
<1>1. TokenOK(session[s], op[s]) /\ received \subseteq DOMAIN issued /\ DOMAIN costs \subseteq DOMAIN issued
      /\ session[s].client = "RATELIMIT"
  BY SessionFacts DEF complete
<1>2. session' = [session EXCEPT ![s] = h] /\ op' = [op EXCEPT ![s] = o]
      /\ issued' = issued /\ costs' = costs /\ received' = received
  BY DEF complete, validate, SessionsInv
<1>3. h.client = "COMPLETE" /\ h.token = session[s].token /\ h.req = session[s].req /\ h.socket = session[s].socket
  BY DEF SessionsInv, Handlers
<1>4. o.pc = "lookup"
  OBVIOUS
<1> HIDE DEF h, o
<1>5. op'[s] = o /\ \A r \in Sessions \ {s} : Waits(op[r], op'[r])
  BY <1>2, WaitsAll
<1>6. TokenOK(h, o)
  BY <1>1, <1>3, <1>4 DEF TokenOK, Unpriced
<1> QED BY <1>1, <1>2, <1>3, <1>5, <1>6, TokensKept

LEMMA RunTokens ==
  ASSUME LimiterInv, TokensInv, SessionsInv, NEW s \in Sessions, run(s)
  PROVE  TokensInv'
<1>1. TokenOK(session[s], op[s]) /\ received \subseteq DOMAIN issued /\ DOMAIN costs \subseteq DOMAIN issued
  BY SessionFacts
<1>2. op' = [op EXCEPT ![s] = Idle] /\ Idle.pc = "idle" /\ issued' = issued /\ costs' = costs /\ received' = received
  BY DEF run, Idle
<1>3. op'[s] = Idle /\ \A r \in Sessions \ {s} : Waits(op[r], op'[r])
  BY <1>2, WaitsAll
<1>4. PICK h \in Handlers :
        session' = [session EXCEPT ![s] = h] /\ ~h.socket /\ h.token = session[s].token /\ h.client = "COMPLETE"
  BY RunIs
<1>5. TokenOK(h, Idle)
  BY <1>1, <1>2, <1>4 DEF TokenOK, Unpriced
<1> QED BY <1>1, <1>2, <1>3, <1>4, <1>5, TokensKept

(* Only storeCost adds a cost, that of the token of its session. *)
LEMMA ContainerCosts ==
  ASSUME LimiterInv, TokensInv, SessionsInv, NEW s \in Sessions, containerStep(s)
  PROVE  DOMAIN costs' \subseteq DOMAIN issued
<1>1. DOMAIN costs \subseteq DOMAIN issued
  BY SessionFacts
<1>2. CASE storeCost(s)
  <2>1. op[s].new = session[s].token /\ session[s].token \in DOMAIN issued
    BY <1>2 DEF storeCost, SessionsInv, Stage, TokensInv, TokenOK, Prepares
  <2> QED BY <1>1, <1>2, <2>1 DEF storeCost
<1>3. CASE collectTokens(s)
  BY <1>1, <1>3 DEF collectTokens, Restrict
<1>4. CASE commit(s)
  BY <1>1, <1>4 DEF commit, Restrict
<1> QED BY <1>1, <1>2, <1>3, <1>4 DEF containerStep, readBucket, createBucket, listTokens, readCost,
                                      lookup, buildBucketUpdate, containerError

LEMMA ContainerTokens ==
  ASSUME LimiterInv, TokensInv, SessionsInv, NEW s \in Sessions, containerStep(s),
         UNCHANGED <<session, issued, received, answers, started>>
  PROVE  TokensInv'
<1>1. TokenOK(session[s], op[s]) /\ received \subseteq DOMAIN issued
      /\ session' = [session EXCEPT ![s] = session[s]] /\ Stage(session[s], op[s])
  BY SessionFacts DEF SessionsInv
<1>2. Moved(op[s], op'[s]) /\ \A r \in Sessions \ {s} : Waits(op[r], op'[r])
  BY ContainerMoves
<1>3. TokenOK(session[s], op'[s])
  BY <1>1, <1>2 DEF TokenOK, Moved, Prepares, Unpriced, Charges
<1> QED BY <1>1, <1>2, <1>3, ContainerCosts, TokensKept

-----------------------------------------------------------------------------
(* Where a token goes back to. *)
LEMMA LineageSelf ==
  ASSUME NEW t \in DOMAIN issued
  PROVE  t \in lineage(t)
  BY DEF lineage

LEMMA LineageParent ==
  ASSUME NEW t \in DOMAIN issued, NEW p, issued[t].parent = p, p # NoToken
  PROVE  lineage(p) \subseteq lineage(t)
  BY DEF lineage, closed

LEMMA LineageGrows ==
  ASSUME TokensInv, NEW new, new \notin DOMAIN issued, DOMAIN issued' = DOMAIN issued \cup {new},
         \A t \in DOMAIN issued : issued'[t] = issued[t],
         NEW t \in DOMAIN issued
  PROVE  lineage(t) \subseteq lineage(t)'
<1> SUFFICES ASSUME NEW u \in lineage(t), NEW S \in SUBSET DOMAIN issued', t \in S, closed(S)'
             PROVE  u \in S
  BY DEF lineage
<1> DEFINE R == S \cap DOMAIN issued
<1>1. t \in R /\ R \in SUBSET DOMAIN issued
  OBVIOUS
<1>2. closed(R)
  <2> SUFFICES ASSUME NEW v \in R PROVE issued[v].parent \in R \cup {NoToken}
    BY DEF closed
  <2>1. issued[v].parent \in S \cup {NoToken}
    BY DEF closed
  <2>2. issued[v].parent \in DOMAIN issued \cup {NoToken}
    BY DEF TokensInv, IssuedInv
  <2> QED BY <2>1, <2>2
<1> QED BY <1>1, <1>2 DEF lineage

-----------------------------------------------------------------------------
(* What is paid stays paid: tokens are kept as they were issued, costs that  *)
(* are cleared stay cleared, and a cost is computed once.                    *)
Grows ==
    /\ \A t \in DOMAIN issued : t \in DOMAIN issued' /\ issued'[t] = issued[t] /\ lineage(t) \subseteq lineage(t)'
    /\ cleared \subseteq cleared'
    /\ \A u \in Tokens : ledger.includes[u] # {} => ledger'.includes[u] = ledger.includes[u]
    /\ cleared' \subseteq Tokens

(* A token whose cost is no longer kept is settled. *)
Leaves == \A t \in DOMAIN costs : t \in DOMAIN costs' \/ t \in cleared'

LEMMA ClearedKept ==
  ASSUME Grows, NEW u, Cleared(u)
  PROVE  Cleared(u)'
<1>1. PICK v \in cleared : u \in ledger.includes[v]
  BY DEF Cleared
<1>2. v \in Tokens /\ v \in cleared' /\ ledger'.includes[v] = ledger.includes[v]
  BY <1>1 DEF Grows
<1> QED BY <1>1, <1>2 DEF Cleared

LEMMA PaidKept ==
  ASSUME Grows, NEW t \in DOMAIN issued, NEW n, Paid(n, t)
  PROVE  Paid(n, t)'
<1>1. PICK u \in lineage(t) : n \in issued[u].new /\ Cleared(u)
  BY DEF Paid
<1>2. u \in DOMAIN issued
  BY DEF lineage
<1>3. u \in lineage(t)' /\ n \in issued'[u].new /\ Cleared(u)'
  BY <1>1, <1>2, ClearedKept DEF Grows
<1> QED BY <1>3 DEF Paid

LEMMA DueKept ==
  ASSUME Grows, NEW t \in DOMAIN issued, t \in Tokens, HasCost(t), NEW n, Due(n, t)
  PROVE  Due(n, t)'
<1>1. PICK u \in lineage(t) : n \in issued[u].new /\ (Cleared(u) \/ u \in ledger.includes[t])
  BY DEF Due
<1>2. u \in DOMAIN issued
  BY DEF lineage
<1>3. ledger'.includes[t] = ledger.includes[t]
  BY DEF Grows, HasCost
<1>4. u \in lineage(t)' /\ n \in issued'[u].new /\ (Cleared(u)' \/ u \in ledger'.includes[t])
  BY <1>1, <1>2, <1>3, ClearedKept DEF Grows
<1> QED BY <1>4 DEF Due

LEMMA ReadyKept ==
  ASSUME TokensInv, PaidInv, Grows, Leaves, NEW t \in DOMAIN issued
  PROVE  /\ t \in Tokens /\ Numbers(t)' = Numbers(t)
         /\ HasCost(t) => HasCost(t)' /\ \A n \in Numbers(t)' : Due(n, t)'
         /\ Ready(t) => Ready(t)'
<1>1. t \in Tokens /\ Numbers(t)' = Numbers(t)
  BY DEF TokensInv, IssuedInv, Grows, Numbers
<1>2. HasCost(t) => HasCost(t)'
  BY <1>1 DEF HasCost, Grows
<1>3. ASSUME HasCost(t) PROVE \A n \in Numbers(t)' : Due(n, t)'
  BY <1>1, <1>3, DueKept DEF PaidInv
<1>4. ASSUME Ready(t) PROVE Ready(t)'
  <2>1. HasCost(t) /\ HasCost(t)'
    BY <1>2, <1>4 DEF Ready
  <2>2. CASE t \in DOMAIN costs'
    BY <2>1, <2>2 DEF Ready
  <2>3. CASE t \in DOMAIN costs /\ t \notin DOMAIN costs'
    <3>1. t \in cleared'
      BY <2>3 DEF Leaves
    <3>2. (t \in cleared)' => \A n : (Due(n, t) => Paid(n, t))'
      BY DEF Due, Paid, Cleared
    <3> QED BY <1>3, <2>1, <3>1, <3>2 DEF Ready
  <2>4. CASE t \notin DOMAIN costs
    BY <1>1, <1>4, <2>1, <2>4, PaidKept DEF Ready
  <2> QED BY <2>2, <2>3, <2>4
<1> QED BY <1>1, <1>2, <1>3, <1>4

(* A session that the step is not about, and that has a token of its own. *)
LEMMA PaymentOthers ==
  ASSUME TokensInv, SessionsInv, PaidInv, Grows, Leaves, NEW r \in Sessions,
         session'[r] = session[r], Waits(op[r], op'[r]),
         session[r].token \in Tokens =>
            ledger'.includes[session[r].token] = ledger.includes[session[r].token]
  PROVE  PaymentOK(session[r], op[r])'
<1>1. PaymentOK(session[r], op[r]) /\ TokenOK(session[r], op[r]) /\ Stage(session[r], op[r]) /\ op'[r].pc = op[r].pc
  BY DEF PaidInv, TokensInv, SessionsInv, Waits
<1>2. PICK k : k = session[r].token
  OBVIOUS
<1>3. k \in DOMAIN issued =>
         /\ k \in Tokens /\ Numbers(k)' = Numbers(k)
         /\ HasCost(k) => HasCost(k)'
         /\ Ready(k) => Ready(k)'
  BY ReadyKept
<1>4. op[r].pc \in Prepares \/ (session[r].client = "RATELIMIT" /\ op[r].pc # "idle")
        \/ (session[r].client \in {"RATELIMIT", "COMPLETE"} /\ session[r].socket) => k \in DOMAIN issued
  BY <1>1, <1>2 DEF TokenOK, Stage, Prepares, Unpriced
<1>5. op[r].pc \in Unpriced => ~HasCost(k)'
  <2>1. op[r].pc \in Unpriced => ~HasCost(k) /\ k \in Tokens
    BY <1>1, <1>2, <1>3, <1>4 DEF PaymentOK, Prepares
  <2> QED BY <1>2, <2>1 DEF HasCost
<1>6. op[r].pc = "store" => HasCost(k)'
  BY <1>1, <1>2, <1>3, <1>4 DEF PaymentOK, Prepares
<1>7. session[r].client = "RATELIMIT" /\ (op[r].pc = "ok" \/ (op[r].pc = "idle" /\ session[r].socket)) => Ready(k)'
  BY <1>1, <1>2, <1>3, <1>4 DEF PaymentOK
<1>8. session[r].client = "COMPLETE" /\ session[r].socket =>
          /\ op[r].pc # "idle" /\ HasCost(k)'
          /\ op[r].pc = "lookup" => Ready(k)'
          /\ op[r].pc = "ok" => \A n \in Numbers(k)' : Paid(n, k)'
  BY <1>1, <1>2, <1>3, <1>4, PaidKept DEF PaymentOK
<1>9. session'[r].token = k /\ session'[r].client = session[r].client /\ session'[r].socket = session[r].socket
  BY <1>2
<1> QED BY <1>1, <1>5, <1>6, <1>7, <1>8, <1>9 DEF PaymentOK

(* The sessions apart, what was paid or due stays so. *)
LEMMA PaidGrows ==
  ASSUME TokensInv, PaidInv, Grows, Leaves,
         \A r \in Sessions : PaymentOK(session[r], op[r])',
         \A t \in DOMAIN costs' : t \notin DOMAIN costs => HasCost(t)',
         \A t \in Tokens :
            HasCost(t) \/ (HasCost(t)' => t \in DOMAIN issued' /\ \A n \in Numbers(t)' : Due(n, t)'),
         \A t \in received' : t \notin received => Ready(t)',
         \A a \in answers' : a \notin answers =>
            a.token \in DOMAIN issued' /\ \A n \in a.numbers : \E u \in lineage(a.token)' : n \in issued'[u].new /\ Cleared(u)'
  PROVE  PaidInv'
<1>3. ASSUME NEW t \in DOMAIN costs' PROVE HasCost(t)'
  <2>1. t \in DOMAIN costs => t \in DOMAIN issued /\ HasCost(t)
    BY DEF PaidInv, TokensInv, IssuedInv
  <2> QED BY <2>1, ReadyKept
<1>4. ASSUME NEW t \in Tokens, HasCost(t)' PROVE t \in DOMAIN issued' /\ \A n \in Numbers(t)' : Due(n, t)'
  <2>1. HasCost(t) => t \in DOMAIN issued
    BY DEF PaidInv
  <2> QED BY <1>4, <2>1, ReadyKept DEF Grows
<1>5. ASSUME NEW t \in received' PROVE Ready(t)'
  <2>1. t \in received => t \in DOMAIN issued /\ Ready(t)
    BY DEF PaidInv, TokensInv, IssuedInv
  <2> QED BY <2>1, ReadyKept
<1>6. ASSUME NEW a \in answers' PROVE (a.token \in DOMAIN issued /\ \A n \in a.numbers : Paid(n, a.token))'
  <2>1. CASE a \in answers
    <3>1. PICK k : k = a.token
      OBVIOUS
    <3>2. k \in DOMAIN issued /\ \A n \in a.numbers : Paid(n, k)
      BY <2>1, <3>1 DEF PaidInv
    <3>3. k \in DOMAIN issued' /\ \A n \in a.numbers : Paid(n, k)'
      BY <3>2, PaidKept DEF Grows
    <3> QED BY <3>1, <3>3
  <2>2. CASE a \notin answers
    BY <2>2 DEF Paid
  <2> QED BY <2>1, <2>2
<1> QED BY <1>3, <1>4, <1>5, <1>6 DEF PaidInv

(* One session and its token. *)
LEMMA OnePayment ==
  ASSUME TokensInv, TokensInv', SessionsInv, PaidInv, Grows, Leaves, NEW s \in Sessions, NEW h,
         session' = [session EXCEPT ![s] = h], \A r \in Sessions \ {s} : Waits(op[r], op'[r]),
         \A t \in Tokens : t # session[s].token => ledger'.includes[t] = ledger.includes[t],
         PaymentOK(session[s], op[s])',
         \A t \in DOMAIN costs' : t \notin DOMAIN costs => HasCost(t)',
         \A t \in Tokens :
            HasCost(t) \/ (HasCost(t)' => t \in DOMAIN issued' /\ \A n \in Numbers(t)' : Due(n, t)'),
         \A t \in received' : t \notin received => Ready(t)',
         \A a \in answers' : a \notin answers =>
            a.token \in DOMAIN issued' /\ \A n \in a.numbers : \E u \in lineage(a.token)' : n \in issued'[u].new /\ Cleared(u)'
  PROVE  PaidInv'
<1>1. \A r \in Sessions \ {s} : session'[r] = session[r]
  BY DEF SessionsInv
<1>2. ASSUME NEW r \in Sessions PROVE PaymentOK(session[r], op[r])'
  <2>1. CASE r = s
    BY <2>1
  <2>2. CASE r # s
    <3>1. session[r].token \in Tokens => session[r].token # session[s].token
      BY <2>2, TokenLimiterAssumption DEF TokensInv
    <3> QED BY <1>1, <2>2, <3>1, PaymentOthers
  <2> QED BY <2>1, <2>2
<1> QED BY <1>2, PaidGrows

-----------------------------------------------------------------------------
(* Steps that leave tokens, costs and the ledger as they are. *)
Quiet ==
    /\ issued' = issued /\ costs' = costs
    /\ cleared' = cleared /\ ledger'.includes = ledger.includes

LEMMA QuietSame ==
  ASSUME Quiet
  PROVE  /\ \A t : (HasCost(t)' <=> HasCost(t)) /\ Numbers(t)' = Numbers(t) /\ lineage(t)' = lineage(t)
         /\ \A u : Cleared(u)' <=> Cleared(u)
         /\ \A n, t : (Paid(n, t)' <=> Paid(n, t)) /\ (Due(n, t)' <=> Due(n, t))
         /\ \A t : Ready(t)' <=> Ready(t)
<1>1. \A t : (HasCost(t)' <=> HasCost(t)) /\ Numbers(t)' = Numbers(t)
  BY DEF Quiet, HasCost, Numbers
<1>2. \A t : lineage(t)' = lineage(t)
  BY DEF Quiet, lineage, closed
<1>3. \A u : Cleared(u)' <=> Cleared(u)
  BY DEF Quiet, Cleared
<1>4. \A n, t : (Paid(n, t)' <=> Paid(n, t)) /\ (Due(n, t)' <=> Due(n, t))
  BY <1>2, <1>3 DEF Quiet, Paid, Due
<1>5. \A t : Ready(t)' <=> Ready(t)
  BY <1>1, <1>4 DEF Quiet, Ready
<1> QED BY <1>1, <1>2, <1>3, <1>4, <1>5

LEMMA QuietGrows ==
  ASSUME LimiterInv, Quiet
  PROVE  Grows /\ Leaves
  BY QuietSame DEF Quiet, Grows, Leaves, LimiterInv, LedgerType, cleared

LEMMA QuietPayment ==
  ASSUME LimiterInv, TokensInv, TokensInv', SessionsInv, PaidInv, Quiet, NEW s \in Sessions, NEW h,
         session' = [session EXCEPT ![s] = h], \A r \in Sessions \ {s} : Waits(op[r], op'[r]),
         PaymentOK(h, op'[s]),
         \A t \in received' : t \notin received => Ready(t),
         \A a \in answers' : a \notin answers => a.token \in DOMAIN issued /\ \A n \in a.numbers : Paid(n, a.token)
  PROVE  PaidInv'
<1>1. session'[s] = h
  BY DEF SessionsInv
<1>2. PaymentOK(session[s], op[s])'
  <2>1. PICK k : k = h.token
    OBVIOUS
  <2>2. (HasCost(k)' <=> HasCost(k)) /\ (Ready(k)' <=> Ready(k)) /\ Numbers(k)' = Numbers(k)
        /\ \A n : Paid(n, k)' <=> Paid(n, k)
    BY QuietSame
  <2>3. session'[s].token = k
    BY <1>1, <2>1
  <2> QED BY <1>1, <2>1, <2>2, <2>3 DEF PaymentOK
<1>3. \A t \in Tokens :
         HasCost(t) \/ (HasCost(t)' => t \in DOMAIN issued' /\ \A n \in Numbers(t)' : Due(n, t)')
  BY QuietSame
<1>4. \A t \in received' : t \notin received => Ready(t)'
  BY QuietSame
<1>5. \A a \in answers' : a \notin answers =>
          a.token \in DOMAIN issued' /\ \A n \in a.numbers : \E u \in lineage(a.token)' : n \in issued'[u].new /\ Cleared(u)'
  <2> SUFFICES ASSUME NEW a \in answers', a \notin answers, NEW n \in a.numbers
               PROVE  \E u \in lineage(a.token)' : n \in issued'[u].new /\ Cleared(u)'
    BY DEF Quiet
  <2>1. PICK k : k = a.token
    OBVIOUS
  <2>2. Paid(n, k)
    BY <2>1
  <2>3. PICK u \in lineage(k) : n \in issued[u].new /\ Cleared(u)
    BY <2>2 DEF Paid
  <2>4. u \in lineage(k)' /\ Cleared(u)' /\ issued' = issued
    BY <2>3, QuietSame DEF Quiet
  <2> QED BY <2>1, <2>3, <2>4
<1>6. Grows /\ Leaves
  BY QuietGrows
<1>7. \A t \in Tokens : t # session[s].token => ledger'.includes[t] = ledger.includes[t]
  BY DEF Quiet
<1>8. \A t \in DOMAIN costs' : t \notin DOMAIN costs => HasCost(t)'
  BY DEF Quiet
<1> QED BY <1>2, <1>3, <1>4, <1>5, <1>6, <1>7, <1>8, OnePayment

LEMMA PaymentFacts ==
  ASSUME SessionsInv, TokensInv, PaidInv, NEW s \in Sessions
  PROVE  PaymentOK(session[s], op[s]) /\ TokenOK(session[s], op[s]) /\ Stage(session[s], op[s])
         /\ session[s] \in Handlers
  BY DEF PaidInv, TokensInv, SessionsInv

(* A handler that waits for no operation and cannot answer owes nothing. *)
LEMMA NothingOwed ==
  ASSUME NEW h, NEW o, o.pc = "idle", h.socket => h.client \notin {"RATELIMIT", "COMPLETE"}
  PROVE  PaymentOK(h, o)
  BY DEF PaymentOK, Unpriced

LEMMA EventPaid ==
  ASSUME LimiterInv, TokensInv, TokensInv', SessionsInv, PaidInv, NEW s \in Sessions,
         onOpen(s) \/ onMessage(s) \/ onClose(s)
  PROVE  PaidInv'
<1>1. PaymentOK(session[s], op[s]) /\ session[s] \in Handlers
  BY PaymentFacts
<1>2. op' = op /\ Quiet /\ received' = received /\ answers' = answers
  BY DEF onOpen, onMessage, onClose, limiter, Quiet, cleared
<1>3. CASE onOpen(s)
  <2> DEFINE h == [Absent EXCEPT !.up = TRUE, !.socket = TRUE, !.chain = <<"open">>]
  <2>1. session' = [session EXCEPT ![s] = h] /\ h.client = "none"
    BY <1>3 DEF onOpen, Absent
  <2>2. op[s].pc = "idle"
    BY <1>3 DEF onOpen, SessionsInv, Stage
  <2> HIDE DEF h
  <2>3. PaymentOK(h, op[s])
    BY <2>1, <2>2, NothingOwed
  <2> QED BY <1>2, <2>1, <2>3, SameOps, QuietPayment
<1>4. CASE onMessage(s)
  <2> DEFINE h == [session[s] EXCEPT !.chain = Append(@, "message")]
  <2>1. session' = [session EXCEPT ![s] = h]
    BY <1>4 DEF onMessage, SessionsInv
  <2>2. h.token = session[s].token /\ h.client = session[s].client /\ h.socket = session[s].socket
    BY <1>1 DEF Handlers
  <2> HIDE DEF h
  <2>3. PaymentOK(h, op[s])
    BY <1>1, <2>2 DEF PaymentOK
  <2> QED BY <1>2, <2>1, <2>3, SameOps, QuietPayment
<1>5. CASE onClose(s)
  <2> DEFINE h == [session[s] EXCEPT !.chain = Append(@, "close"), !.ended = TRUE, !.socket = FALSE]
  <2>1. session' = [session EXCEPT ![s] = h]
    BY <1>5 DEF onClose, SessionsInv
  <2>2. h.token = session[s].token /\ h.client = session[s].client /\ ~h.socket
    BY <1>1 DEF Handlers
  <2> HIDE DEF h
  <2>3. PaymentOK(h, op[s])
    BY <1>1, <2>2 DEF PaymentOK
  <2> QED BY <1>2, <2>1, <2>3, SameOps, QuietPayment
<1> QED BY <1>3, <1>4, <1>5

LEMMA StagePaid ==
  ASSUME LimiterInv, TokensInv, TokensInv', SessionsInv, PaidInv, NEW s \in Sessions,
         newClient(s) \/ handshake(s) \/ close(s) \/ (rateLimit(s) /\ Rejected(s))
  PROVE  PaidInv'
<1>1. op' = op /\ Quiet /\ received' = received /\ answers' = answers
  BY DEF newClient, handshake, close, rateLimit, Rejected, limiter, Quiet, cleared
<1>2. PICK h \in Handlers :
        /\ session' = [session EXCEPT ![s] = h]
        /\ h.socket => h.client \notin {"RATELIMIT", "COMPLETE"}
        /\ op[s].pc = "idle"
  BY NewClientIs, HandshakeIs, CloseIs, RejectedIs DEF rateLimit
<1>3. PaymentOK(h, op[s])
  BY <1>2, NothingOwed
<1> QED BY <1>1, <1>2, <1>3, SameOps, QuietPayment

(* The client gets a token that it can use. *)
LEMMA SendTokenPaid ==
  ASSUME LimiterInv, TokensInv, TokensInv', SessionsInv, PaidInv, NEW s \in Sessions, sendToken(s)
  PROVE  PaidInv'
<1>1. PaymentOK(session[s], op[s])
  BY PaymentFacts
<1>2. /\ session[s] \in Handlers /\ HandlerOK(session[s]) /\ session[s].up /\ session[s].chain # << >>
      /\ session[s].client = "RATELIMIT"
  BY OpFacts DEF sendToken
<1>3. op' = [op EXCEPT ![s] = Idle] /\ Quiet /\ Idle.pc = "idle" /\ answers' = answers
  BY DEF sendToken, Idle, Quiet, cleared
<1>4. op'[s] = Idle /\ \A r \in Sessions \ {s} : Waits(op[r], op'[r])
  BY <1>3, WaitsAll
<1>5. CASE op[s].pc = "ok" /\ session[s].socket
  <2> DEFINE h == done(session[s])
  <2>1. session' = [session EXCEPT ![s] = h] /\ received' = received \cup {session[s].token}
    BY <1>5 DEF sendToken, SessionsInv
  <2>2. Ready(session[s].token)
    BY <1>1, <1>2, <1>5 DEF PaymentOK
  <2>3. h.token = session[s].token /\ h.client = "RATELIMIT"
    BY <1>2, DoneFacts
  <2> HIDE DEF h
  <2>4. PaymentOK(h, Idle)
    BY <1>3, <2>2, <2>3 DEF PaymentOK, Unpriced
  <2> QED BY <1>3, <1>4, <2>1, <2>2, <2>4, QuietPayment
<1>6. CASE ~(op[s].pc = "ok" /\ session[s].socket)
  <2> DEFINE h == fails(session[s])
  <2>1. session' = [session EXCEPT ![s] = h] /\ received' = received
    BY <1>6 DEF sendToken, SessionsInv
  <2>2. ~h.socket
    BY <1>2, FailsFacts
  <2> HIDE DEF h
  <2>3. PaymentOK(h, Idle)
    BY <1>3, <2>2, NothingOwed
  <2> QED BY <1>3, <1>4, <2>1, <2>3, QuietPayment
<1> QED BY <1>5, <1>6

LEMMA CompletePaid ==
  ASSUME LimiterInv, TokensInv, TokensInv', SessionsInv, PaidInv, NEW s \in Sessions, complete(s)
  PROVE  PaidInv'
<1> DEFINE h == [session[s] EXCEPT !.client = "COMPLETE"]
           o == [pc |-> "lookup", token |-> session[s].token]
<1>1. PaymentOK(session[s], op[s]) /\ session[s].client = "RATELIMIT" /\ op[s].pc = "idle"
  BY PaymentFacts, TurnFacts DEF complete
<1>2. session' = [session EXCEPT ![s] = h] /\ op' = [op EXCEPT ![s] = o]
      /\ Quiet /\ received' = received /\ answers' = answers
  BY DEF complete, validate, SessionsInv, Quiet, cleared
<1>3. h.client = "COMPLETE" /\ h.token = session[s].token /\ h.socket = session[s].socket
  BY DEF SessionsInv, Handlers
<1>4. o.pc = "lookup"
  OBVIOUS
<1> HIDE DEF h, o
<1>5. op'[s] = o /\ \A r \in Sessions \ {s} : Waits(op[r], op'[r])
  BY <1>2, WaitsAll
<1>6. PaymentOK(h, o)
  BY <1>1, <1>3, <1>4 DEF PaymentOK, Unpriced, Ready
<1> QED BY <1>2, <1>5, <1>6, QuietPayment

(* An answer is only given for numbers that are paid. *)
LEMMA RunPaid ==
  ASSUME LimiterInv, TokensInv, TokensInv', SessionsInv, PaidInv, NEW s \in Sessions, run(s)
  PROVE  PaidInv'
<1>1. PaymentOK(session[s], op[s]) /\ TokenOK(session[s], op[s]) /\ session[s].client = "COMPLETE"
  BY PaymentFacts DEF run
<1>2. op' = [op EXCEPT ![s] = Idle] /\ Idle.pc = "idle" /\ Quiet /\ received' = received
  BY DEF run, Idle, Quiet, cleared
<1>3. op'[s] = Idle /\ \A r \in Sessions \ {s} : Waits(op[r], op'[r])
  BY <1>2, WaitsAll
<1>4. PICK h \in Handlers : session' = [session EXCEPT ![s] = h] /\ ~h.socket
  BY RunIs
<1>5. PaymentOK(h, Idle)
  BY <1>2, <1>4, NothingOwed
<1> DEFINE a == [token |-> session[s].token, numbers |-> session[s].req.prev \cup session[s].req.new]
<1>6. \/ answers' = answers
      \/ answers' = answers \cup {a} /\ op[s].pc = "ok" /\ session[s].socket
  BY DEF run
<1>7. op[s].pc = "ok" /\ session[s].socket =>
         a.token \in DOMAIN issued /\ \A n \in a.numbers : Paid(n, a.token)
  BY <1>1 DEF PaymentOK, TokenOK, Numbers
<1> HIDE DEF a
<1> QED BY <1>2, <1>3, <1>4, <1>5, <1>6, <1>7, QuietPayment

(* A token that is issued costs nothing yet. *)
LEMMA AcceptedPaid ==
  ASSUME LimiterInv, TokensInv, TokensInv', SessionsInv, PaidInv, NEW s \in Sessions, rateLimit(s),
         NEW req \in Requests, NEW new \in Tokens \ DOMAIN issued, Accepted(s, req, new)
  PROVE  PaidInv'
<1> DEFINE g == [session[s] EXCEPT !.client = "RATELIMIT", !.req = [prev |-> req.prev, new |-> req.new], !.token = new]
           o == [pc |-> "read", now |-> now, delta |-> Cardinality(req.new), old |-> req.token, new |-> new]
<1>1. received' = received /\ costs' = costs /\ ledger' = ledger /\ answers' = answers
  BY DEF rateLimit
<1>2. session' = [session EXCEPT ![s] = g] /\ op' = [op EXCEPT ![s] = o]
  BY DEF Accepted, prepare
<1>3. g.token = new /\ g.client = "RATELIMIT" /\ o.pc = "read"
  BY DEF SessionsInv, Handlers
<1> HIDE DEF g, o
<1>4. op'[s] = o /\ \A r \in Sessions \ {s} : Waits(op[r], op'[r])
  BY <1>2, WaitsAll
<1>5. session'[s] = g
  BY <1>2 DEF SessionsInv
<1>6. DOMAIN issued' = DOMAIN issued \cup {new} /\ \A t \in DOMAIN issued : issued'[t] = issued[t]
  BY DEF Accepted
<1>7. Grows /\ Leaves
  <2>1. \A t \in DOMAIN issued : lineage(t) \subseteq lineage(t)'
    BY <1>6, LineageGrows
  <2> QED BY <1>1, <1>6, <2>1 DEF Grows, Leaves, LimiterInv, LedgerType, cleared
<1>8. \A t : HasCost(t)' <=> HasCost(t)
  BY <1>1 DEF HasCost
<1>9. PaymentOK(session[s], op[s])'
  <2>1. ~HasCost(new)'
    BY <1>8 DEF PaidInv
  <2>2. session'[s].token = new
    BY <1>3, <1>5
  <2> QED BY <1>3, <1>4, <1>5, <2>1, <2>2 DEF PaymentOK, Unpriced
<1> QED BY <1>1, <1>2, <1>4, <1>7, <1>8, <1>9, OnePayment

-----------------------------------------------------------------------------
(* Container operations. *)
LEMMA QuietContainer ==
  ASSUME LimiterInv, TokensInv, TokensInv', SessionsInv, PaidInv, NEW s \in Sessions, containerStep(s),
         UNCHANGED <<session, issued, received, answers, started>>,
         Quiet, op'[s].pc = "ok" => op[s].pc = "lookup" /\ op[s].token \notin DOMAIN costs,
         op'[s].pc = "store" => op[s].pc = "store"
  PROVE  PaidInv'
<1>1. PaymentOK(session[s], op[s]) /\ TokenOK(session[s], op[s]) /\ Stage(session[s], op[s])
      /\ session' = [session EXCEPT ![s] = session[s]]
  BY PaymentFacts DEF SessionsInv
<1>2. Moved(op[s], op'[s]) /\ \A r \in Sessions \ {s} : Waits(op[r], op'[r])
  BY ContainerMoves
<1>3. PaymentOK(session[s], op'[s])
  <2>1. CASE op'[s].pc = "ok"
    <3>1. op[s].pc = "lookup" /\ session[s].client = "COMPLETE" /\ session[s].token \notin DOMAIN costs
      BY <2>1, <1>1 DEF Stage, Charges
    <3> QED BY <1>1, <2>1, <3>1 DEF PaymentOK, Ready, Unpriced
  <2>2. CASE op'[s].pc # "ok"
    BY <1>1, <1>2, <2>2 DEF PaymentOK, Moved, Stage, Prepares, Charges, Unpriced
  <2> QED BY <2>1, <2>2
<1> QED BY <1>1, <1>2, <1>3, QuietPayment

(* The cost of the new token covers what its numbers still owe. *)
LEMMA ReadCostPaid ==
  ASSUME LimiterInv, TokensInv, TokensInv', SessionsInv, PaidInv, NEW s \in Sessions, readCost(s),
         UNCHANGED <<session, issued, received, answers, started>>
  PROVE  PaidInv'
<1>1. /\ PaymentOK(session[s], op[s]) /\ TokenOK(session[s], op[s]) /\ Stage(session[s], op[s])
      /\ session' = [session EXCEPT ![s] = session[s]]
  BY PaymentFacts DEF SessionsInv
<1>2. Moved(op[s], op'[s]) /\ \A r \in Sessions \ {s} : Waits(op[r], op'[r])
  BY ContainerMoves DEF containerStep
<1>3. op[s].pc = "cost" /\ Prepared(op[s]) /\ costs' = costs /\ issued' = issued
  BY DEF readCost, LimiterInv, OpsInv, OpShape
<1>4. PICK k, old : k = op[s].new /\ old = op[s].old
  OBVIOUS
<1>5. /\ k = session[s].token /\ k \in DOMAIN issued /\ k \in Tokens /\ ~HasCost(k)
      /\ old = issued[k].parent /\ op[s].delta = Cardinality(issued[k].new)
      /\ session[s].client = "RATELIMIT"
  <2>1. k = session[s].token /\ session[s].client = "RATELIMIT" /\ op[s].pc \in Unpriced
    BY <1>1, <1>3, <1>4 DEF Stage, Prepares, Unpriced
  <2>2. k \in DOMAIN issued /\ ~HasCost(k) /\ old = issued[k].parent /\ op[s].delta = Cardinality(issued[k].new)
    BY <1>1, <1>3, <1>4, <2>1 DEF TokenOK, PaymentOK
  <2> QED BY <1>3, <1>4, <2>1, <2>2 DEF Prepared
<1> DEFINE more == {k} \cup IF old \in DOMAIN costs THEN ledger.includes[old] ELSE {}
<1>6. ledger' = [ledger EXCEPT !.includes[k] = more]
  BY <1>4 DEF readCost
<1>7. /\ cleared' = cleared /\ ledger'.includes[k] = more
      /\ \A t \in Tokens : t # k => ledger'.includes[t] = ledger.includes[t]
  BY <1>5, <1>6 DEF LimiterInv, LedgerType, cleared
<1>8. HasCost(k)'
  BY <1>7 DEF HasCost
<1>9. \A t : lineage(t)' = lineage(t)
  BY <1>3 DEF lineage, closed
<1>10. Grows /\ Leaves
  BY <1>3, <1>5, <1>7, <1>9 DEF Grows, Leaves, HasCost, LimiterInv, LedgerType, cleared
<1>11. \A n \in issued[k].prev :
          /\ old \in DOMAIN issued /\ lineage(old) \subseteq lineage(k)
          /\ old \in DOMAIN costs => Due(n, old)
          /\ old \notin DOMAIN costs => Paid(n, old)
  <2> SUFFICES ASSUME NEW n \in issued[k].prev
               PROVE  /\ old \in DOMAIN issued /\ lineage(old) \subseteq lineage(k)
                      /\ old \in DOMAIN costs => Due(n, old)
                      /\ old \notin DOMAIN costs => Paid(n, old)
    OBVIOUS
  <2>1. old # NoToken /\ old \in received /\ old \in DOMAIN issued /\ old \in Tokens /\ n \in Numbers(old)
    BY <1>5 DEF TokensInv, IssuedInv
  <2>2. lineage(old) \subseteq lineage(k)
    BY <1>5, <2>1, LineageParent
  <2>3. Ready(old)
    BY <2>1 DEF PaidInv
  <2> QED BY <2>1, <2>2, <2>3 DEF Ready, PaidInv
<1>12. ASSUME NEW n \in Numbers(k)' PROVE Due(n, k)'
  <2>1. n \in issued[k].prev \/ n \in issued[k].new
    BY <1>3 DEF Numbers
  <2>2. CASE n \in issued[k].new
    <3>1. k \in lineage(k)' /\ n \in issued'[k].new /\ k \in ledger'.includes[k]
      BY <1>3, <1>5, <1>7, <1>9, <2>2, LineageSelf
    <3> QED BY <3>1 DEF Due
  <2>3. CASE n \in issued[k].prev /\ old \in DOMAIN costs
    <3>1. PICK u \in lineage(old) : n \in issued[u].new /\ (Cleared(u) \/ u \in ledger.includes[old])
      BY <1>11, <2>3 DEF Due
    <3>2. u \in lineage(k)' /\ n \in issued'[u].new /\ (Cleared(u)' \/ u \in ledger'.includes[k])
      BY <1>3, <1>7, <1>9, <1>10, <1>11, <2>3, <3>1, ClearedKept
    <3> QED BY <3>2 DEF Due
  <2>4. CASE n \in issued[k].prev /\ old \notin DOMAIN costs
    <3>1. PICK u \in lineage(old) : n \in issued[u].new /\ Cleared(u)
      BY <1>11, <2>4 DEF Paid
    <3>2. u \in lineage(k)' /\ n \in issued'[u].new /\ Cleared(u)'
      BY <1>3, <1>9, <1>10, <1>11, <2>4, <3>1, ClearedKept
    <3> QED BY <3>2 DEF Due
  <2> QED BY <2>1, <2>2, <2>3, <2>4
<1>13. op'[s].pc = "ok" => Ready(k)'
  <2> SUFFICES ASSUME op'[s].pc = "ok", NEW n \in Numbers(k)' PROVE Paid(n, k)'
    BY <1>8 DEF Ready
  <2>1. getNewTokenCost(op[s]) = 0
    <3> DEFINE o == [pc |-> "store", new |-> op[s].new, now |-> op[s].now, cost |-> getNewTokenCost(op[s])]
    <3>1. getNewTokenCost(op[s]) # 0 =>
            op' = [op EXCEPT ![s] = Result("error")] \/ op' = [op EXCEPT ![s] = o]
      BY DEF readCost, ends, LimiterInv
    <3>2. Result("error").pc = "error" /\ o.pc = "store"
      BY DEF Result
    <3> HIDE DEF o
    <3> QED BY <3>1, <3>2 DEF LimiterInv
  <2>2. op[s].delta = 0 /\ old \notin DOMAIN costs
    BY <1>3, <1>4, <2>1, CostType
  <2>3. n \in issued[k].prev
    BY <1>3, <1>5, <2>2, EmptyNumbers DEF Numbers
  <2>4. PICK u \in lineage(old) : n \in issued[u].new /\ Cleared(u)
    BY <1>11, <2>2, <2>3 DEF Paid
  <2>5. u \in lineage(k)' /\ n \in issued'[u].new /\ Cleared(u)'
    BY <1>3, <1>9, <1>10, <1>11, <2>3, <2>4, ClearedKept
  <2> QED BY <2>5 DEF Paid
<1>14. PaymentOK(session[s], op[s])'
  <2>1. session'[s].token = k /\ session'[s].client = "RATELIMIT" /\ op'[s].pc # "idle" /\ op'[s].pc \notin Unpriced
    <3>1. op'[s].pc \in {"ok", "error", "store"}
      BY <1>2 DEF readCost, ends, Result, LimiterInv
    <3> QED BY <1>5, <3>1 DEF Unpriced
  <2> QED BY <1>8, <1>13, <2>1 DEF PaymentOK
<1>15. \A t \in Tokens : HasCost(t) \/ (HasCost(t)' => t \in DOMAIN issued' /\ \A n \in Numbers(t)' : Due(n, t)')
  <2>1. \A t \in Tokens : t # k => (HasCost(t)' <=> HasCost(t))
    BY <1>7 DEF HasCost
  <2> QED BY <1>3, <1>5, <1>12, <2>1
<1>16. \A t \in Tokens : t # session[s].token => ledger'.includes[t] = ledger.includes[t]
  BY <1>5, <1>7
<1> QED BY <1>1, <1>2, <1>3, <1>10, <1>14, <1>15, <1>16, OnePayment

LEMMA StoreCostPaid ==
  ASSUME LimiterInv, TokensInv, TokensInv', SessionsInv, PaidInv, NEW s \in Sessions, storeCost(s),
         UNCHANGED <<session, issued, received, answers, started>>
  PROVE  PaidInv'
<1>1. /\ PaymentOK(session[s], op[s]) /\ TokenOK(session[s], op[s]) /\ Stage(session[s], op[s])
      /\ session' = [session EXCEPT ![s] = session[s]]
  BY PaymentFacts DEF SessionsInv
<1>2. Moved(op[s], op'[s]) /\ \A r \in Sessions \ {s} : Waits(op[r], op'[r])
  BY ContainerMoves DEF containerStep
<1>3. PICK k : k = session[s].token
  OBVIOUS
<1>4. op[s].pc = "store" /\ op[s].new = k /\ HasCost(k) /\ session[s].client = "RATELIMIT"
  BY <1>1, <1>3 DEF storeCost, Stage, PaymentOK, Prepares
<1>5. DOMAIN costs' = DOMAIN costs \cup {k} /\ ledger' = ledger /\ issued' = issued
  BY <1>4 DEF storeCost
<1>6. \A t : (HasCost(t)' <=> HasCost(t)) /\ lineage(t)' = lineage(t)
  BY <1>5 DEF HasCost, lineage, closed
<1>7. Grows /\ Leaves
  BY <1>5, <1>6 DEF Grows, Leaves, LimiterInv, LedgerType, cleared
<1>8. Ready(k)'
  BY <1>4, <1>5, <1>6 DEF Ready
<1>9. PaymentOK(session[s], op[s])'
  <2>1. op'[s].pc \in {"ok", "error"}
    BY DEF storeCost, ends, Result, LimiterInv
  <2>2. session'[s].token = k /\ session'[s].client = "RATELIMIT"
    BY <1>3, <1>4
  <2> QED BY <1>8, <2>1, <2>2 DEF PaymentOK, Unpriced
<1> QED BY <1>1, <1>2, <1>4, <1>5, <1>6, <1>7, <1>9, OnePayment

(* A transaction settles the tokens it deletes, and a response to one that   *)
(* was refused clears the token it was about.                                *)
LEMMA SettlePaid ==
  ASSUME LimiterInv, LimiterInv', TokensInv, TokensInv', SessionsInv, PaidInv, NEW s \in Sessions, containerStep(s),
         UNCHANGED <<session, issued, received, answers, started>>,
         NEW batch, DOMAIN costs \ batch \subseteq DOMAIN costs', DOMAIN costs' \subseteq DOMAIN costs,
         cleared' = cleared \cup batch, ledger'.includes = ledger.includes,
         op'[s].pc = "store" => op[s].pc = "store",
         op'[s].pc = "ok" => op[s].pc = "commit" /\ op[s].token \in batch
  PROVE  PaidInv'
<1>1. /\ PaymentOK(session[s], op[s]) /\ TokenOK(session[s], op[s]) /\ Stage(session[s], op[s])
      /\ session' = [session EXCEPT ![s] = session[s]]
  BY PaymentFacts DEF SessionsInv
<1>2. Moved(op[s], op'[s]) /\ \A r \in Sessions \ {s} : Waits(op[r], op'[r])
  BY ContainerMoves
<1>3. PICK k : k = session[s].token
  OBVIOUS
<1>4. \A t : (HasCost(t)' <=> HasCost(t)) /\ lineage(t)' = lineage(t) /\ Numbers(t)' = Numbers(t)
  BY DEF HasCost, lineage, closed, Numbers
<1>5. Grows /\ Leaves
  BY <1>4 DEF Grows, Leaves, LimiterInv, LedgerType, cleared
<1>6. op'[s].pc = "ok" => /\ op[s].pc = "commit" /\ session[s].client = "COMPLETE"
                          /\ session[s].socket => \A n \in Numbers(k)' : Paid(n, k)'
  <2> SUFFICES ASSUME op'[s].pc = "ok"
               PROVE  /\ op[s].pc = "commit" /\ session[s].client = "COMPLETE"
                      /\ \A n \in Numbers(k)' : session[s].socket => Paid(n, k)'
    OBVIOUS
  <2>1. op[s].pc = "commit" /\ session[s].client = "COMPLETE" /\ k \in batch
    BY <1>1, <1>3 DEF Stage, Charges
  <2> SUFFICES ASSUME NEW n \in Numbers(k)', session[s].socket PROVE Paid(n, k)'
    BY <2>1
  <2>2. k \in DOMAIN issued /\ k \in Tokens /\ HasCost(k) /\ Due(n, k)
    BY <1>1, <1>3, <1>4, <2>1 DEF PaidInv, PaymentOK, TokenOK, TokensInv, IssuedInv
  <2>3. Due(n, k)'
    BY <1>5, <2>2, DueKept
  <2>4. (k \in cleared)' /\ (Due(n, k) => (k \in cleared => Paid(n, k)))'
    BY <2>1 DEF Due, Paid, Cleared
  <2> QED BY <2>3, <2>4
<1>7. PaymentOK(session[s], op[s])'
  <2>1. session'[s].token = k /\ session'[s].client = session[s].client /\ session'[s].socket = session[s].socket
    BY <1>3
  <2>2. op'[s].pc \in Unpriced => ~HasCost(k)'
    BY <1>1, <1>2, <1>3, <1>4 DEF Moved, PaymentOK
  <2>3. op'[s].pc = "store" => HasCost(k)'
    BY <1>1, <1>3, <1>4 DEF PaymentOK
  <2>4. op'[s].pc # "idle" /\ op'[s].pc # "lookup"
    BY <1>2 DEF Moved, Prepares, Charges, Unpriced
  <2>5. session[s].client = "COMPLETE" /\ session[s].socket => HasCost(k)'
    BY <1>1, <1>3, <1>4 DEF PaymentOK
  <2>6. session[s].client = "RATELIMIT" => op'[s].pc # "ok"
    BY <1>6
  <2> QED BY <1>6, <2>1, <2>2, <2>3, <2>4, <2>5, <2>6 DEF PaymentOK
<1>8. \A t \in Tokens : HasCost(t) \/ (HasCost(t)' => t \in DOMAIN issued' /\ \A n \in Numbers(t)' : Due(n, t)')
  BY <1>4
<1> QED BY <1>1, <1>2, <1>5, <1>7, <1>8, OnePayment

LEMMA CollectTokensPaid ==
  ASSUME LimiterInv, LimiterInv', TokensInv, TokensInv', SessionsInv, PaidInv, NEW s \in Sessions, collectTokens(s),
         UNCHANGED <<session, issued, received, answers, started>>
  PROVE  PaidInv'
<1>1. op[s].pc = "gc" /\ OpShape(op[s])
  BY DEF collectTokens, LimiterInv, OpsInv
<1>2. op'[s] = goesOn(op[s]) /\ goesOn(op[s]).pc = "cost"
  BY <1>1, GoesOnShape, WaitsAll DEF collectTokens
<1>3. CASE gc_applies(s)
  <2>1. PICK batch : batch = op[s].batch
    OBVIOUS
  <2>2. /\ batch \in SUBSET DOMAIN costs /\ costs' = Restrict(costs, DOMAIN costs \ batch)
        /\ ledger' = [ledger EXCEPT !.settled = @ \cup batch]
    BY <1>3, <2>1 DEF collectTokens, gc_applies
  <2>3. cleared' = cleared \cup batch /\ ledger'.includes = ledger.includes
    BY <2>2 DEF LimiterInv, LedgerType, cleared
  <2>4. DOMAIN costs' = DOMAIN costs \ batch
    BY <2>2 DEF Restrict
  <2> QED BY <1>2, <2>2, <2>3, <2>4, SettlePaid DEF containerStep
<1>4. CASE ~gc_applies(s)
  <2>1. Quiet
    BY <1>4 DEF collectTokens, Quiet, cleared
  <2> QED BY <1>2, <2>1, QuietContainer DEF containerStep
<1> QED BY <1>3, <1>4

LEMMA CommitPaid ==
  ASSUME LimiterInv, LimiterInv', TokensInv, TokensInv', SessionsInv, PaidInv, NEW s \in Sessions, commit(s),
         UNCHANGED <<session, issued, received, answers, started>>
  PROVE  PaidInv'
<1>1. op[s].pc = "commit"
  BY DEF commit
<1>2. CASE commits(s)
  <2>1. PICK pc \in {"ok", "error"} : op' = outdated(s, Result(pc))
    BY <1>2 DEF commit
  <2>2. op'[s].pc = pc
    BY <2>1, WaitsAll, ResultShape DEF Ended
  <2>3. PICK batch : batch = {op[s].token}
    OBVIOUS
  <2>4. /\ batch \in SUBSET DOMAIN costs /\ costs' = Restrict(costs, DOMAIN costs \ batch)
        /\ \E full : ledger' = [ledger EXCEPT !.settled = @ \cup batch, !.full = full]
    BY <1>2, <2>3 DEF commit, commits
  <2>5. cleared' = cleared \cup batch /\ ledger'.includes = ledger.includes
    BY <2>4 DEF LimiterInv, LedgerType, cleared
  <2>6. DOMAIN costs' = DOMAIN costs \ batch
    BY <2>4 DEF Restrict
  <2> QED BY <1>1, <2>2, <2>3, <2>4, <2>5, <2>6, SettlePaid DEF containerStep
<1>3. CASE ~commits(s) /\ ends(s, "error") /\ ledger' = ledger
  <2>1. Quiet /\ op' = [op EXCEPT ![s] = Result("error")]
    BY <1>3 DEF commit, Quiet, ends, cleared
  <2>2. op'[s].pc = "error"
    BY <2>1, WaitsAll, ResultShape DEF Ended
  <2> QED BY <2>1, <2>2, QuietContainer DEF containerStep
<1>4. CASE ~commits(s) /\ ends(s, "ok") /\ ledger' = [ledger EXCEPT !.refused = @ \cup {op[s].token}]
  <2>1. PICK batch : batch = {op[s].token}
    OBVIOUS
  <2>2. costs' = costs /\ op' = [op EXCEPT ![s] = Result("ok")]
    BY <1>4 DEF commit, ends
  <2>3. op'[s].pc = "ok"
    BY <2>2, WaitsAll, ResultShape DEF Ended
  <2>4. cleared' = cleared \cup batch /\ ledger'.includes = ledger.includes
    BY <1>4, <2>1 DEF LimiterInv, LedgerType, cleared
  <2> QED BY <1>1, <2>1, <2>2, <2>3, <2>4, SettlePaid DEF containerStep
<1> QED BY <1>2, <1>3, <1>4 DEF commit

LEMMA ContainerPaid ==
  ASSUME LimiterInv, LimiterInv', TokensInv, TokensInv', SessionsInv, PaidInv, NEW s \in Sessions, containerStep(s),
         UNCHANGED <<session, issued, received, answers, started>>
  PROVE  PaidInv'
<1>1. CASE readBucket(s) \/ createBucket(s) \/ listTokens(s) \/ lookup(s) \/ buildBucketUpdate(s) \/ containerError(s)
  <2>1. Quiet
    BY <1>1 DEF readBucket, createBucket, listTokens, lookup, buildBucketUpdate, containerError, Quiet,
                LimiterInv, LedgerType, cleared
  <2>2. CASE lookup(s)
    <3>1. op[s].pc = "lookup" /\ op'[s].pc \in {"ok", "charge"} /\ (op'[s].pc = "ok" => op[s].token \notin DOMAIN costs)
      BY <2>2 DEF lookup, ends, Result, LimiterInv
    <3> QED BY <2>1, <3>1, QuietContainer
  <2>3. CASE ~lookup(s)
    <3>1. op'[s].pc \notin {"ok", "store"}
      <4>1. ASSUME NEW pc \in {"error", "ok"}, ends(s, pc) PROVE op'[s].pc = pc
        BY <4>1, ResultShape DEF ends, LimiterInv, Ended
      <4>2. ASSUME op' = [op EXCEPT ![s] = goesOn(@)] PROVE op'[s].pc = "cost"
        BY <4>2 DEF goesOn, LimiterInv
      <4>3. CASE readBucket(s)
        <5>1. OpShape(op[s]) /\ op[s].pc = "read"
          BY <4>3 DEF readBucket, LimiterInv, OpsInv
        <5>2. [op[s] EXCEPT !.pc = "create"].pc = "create"
          BY <5>1 DEF OpShape
        <5>3. op'[s] = [op[s] EXCEPT !.pc = "create"] \/ op'[s].pc = "list"
          <6>1. bucket = NoBucket => op'[s] = [op[s] EXCEPT !.pc = "create"]
            BY <4>3 DEF readBucket, LimiterInv
          <6>2. bucket # NoBucket => op'[s].pc = "list"
            BY <4>3 DEF readBucket, LimiterInv
          <6> QED BY <6>1, <6>2
        <5> QED BY <5>2, <5>3
      <4>4. CASE createBucket(s)
        BY <4>1, <4>4 DEF createBucket, LimiterInv
      <4>5. CASE listTokens(s)
        BY <4>2, <4>5 DEF listTokens, LimiterInv
      <4>6. CASE buildBucketUpdate(s)
        BY <4>1, <4>6 DEF buildBucketUpdate, LimiterInv
      <4>7. CASE containerError(s)
        BY <4>1, <4>2, <4>7 DEF containerError
      <4> QED BY <1>1, <2>3, <4>3, <4>4, <4>5, <4>6, <4>7
    <3> QED BY <2>1, <3>1, QuietContainer
  <2> QED BY <2>2, <2>3
<1> QED BY <1>1, ReadCostPaid, StoreCostPaid, CollectTokensPaid, CommitPaid DEF containerStep

-----------------------------------------------------------------------------
(* The inductive invariant. *)
DiscoveryInv == LimiterInv /\ SessionsInv /\ TokensInv /\ PaidInv

LEMMA DiscoveryInit == Init => DiscoveryInv
<1> SUFFICES ASSUME Init PROVE DiscoveryInv
  OBVIOUS
<1>1. LimiterInv
  BY LimiterInitial DEF Init
<1>2. op = [s \in Sessions |-> Idle] /\ Idle.pc = "idle" /\ session = [s \in Sessions |-> Absent]
  BY DEF Init, LimiterInit, Idle
<1>3. SessionsInv
  BY <1>2, AbsentFacts, IdleStage DEF SessionsInv
<1>4. TokensInv
  BY <1>2 DEF Init, LimiterInit, TokensInv, IssuedInv, TokenOK, Absent, Unpriced
<1>5. PaidInv
  <2>1. \A t \in Tokens : ~HasCost(t)
    BY DEF Init, LimiterInit, HasCost
  <2>2. \A s \in Sessions : PaymentOK(session[s], op[s])
    BY <1>2, NothingOwed DEF Absent
  <2> QED BY <2>1, <2>2 DEF Init, LimiterInit, PaidInv
<1> QED BY <1>1, <1>3, <1>4, <1>5 DEF DiscoveryInv

LEMMA LimiterStep ==
  ASSUME DiscoveryInv, NEW s \in Sessions, onOpen(s) \/ onMessage(s) \/ onClose(s) \/ step(s)
  PROVE  LimiterInv'
<1> USE DEF DiscoveryInv
<1>1. ASSUME UNCHANGED limiter PROVE LimiterInv'
  BY <1>1 DEF limiter, LimiterInv, OpsInv, LedgerType, CostsType, NoLostCharge
<1>2. CASE onOpen(s) \/ onMessage(s) \/ onClose(s) \/ newClient(s) \/ handshake(s) \/ close(s)
  BY <1>1, <1>2 DEF onOpen, onMessage, onClose, newClient, handshake, close
<1>3. CASE rateLimit(s)
  <2>1. UNCHANGED <<now, bucket, costs, ledger>>
    BY <1>3 DEF rateLimit
  <2>2. CASE Rejected(s)
    BY <1>1, <2>1, <2>2 DEF Rejected, limiter
  <2>3. ASSUME NEW req \in Requests, NEW new \in Tokens \ DOMAIN issued, Accepted(s, req, new) PROVE LimiterInv'
    <3>1. Cardinality(req.new) \in Nat
      BY RequestCost
    <3>2. req.token \in Tokens \cup {NoToken}
      BY <2>3 DEF Accepted, TokensInv, IssuedInv
    <3> QED BY <2>1, <2>3, <3>1, <3>2, PrepareLimiter DEF Accepted
  <2> QED BY <1>3, <2>2, <2>3, RateLimitIs
<1>4. CASE sendToken(s) \/ run(s)
  BY <1>4, IdleIs, EndsOp DEF sendToken, run, Ended
<1>5. CASE complete(s)
  BY <1>5, ValidateLimiter DEF complete
<1> QED BY <1>2, <1>3, <1>4, <1>5, ContainerStepLimiter DEF step

LEMMA SessionsStep ==
  ASSUME DiscoveryInv, NEW s \in Sessions, onOpen(s) \/ onMessage(s) \/ onClose(s) \/ step(s)
  PROVE  SessionsInv'
  BY OnOpenSessions, OnMessageSessions, OnCloseSessions, NewClientSessions, HandshakeSessions, RateLimitSessions,
     SendTokenSessions, CompleteSessions, RunSessions, CloseSessions, ContainerSessions
  DEF DiscoveryInv, step

LEMMA TokensStep ==
  ASSUME DiscoveryInv, NEW s \in Sessions, onOpen(s) \/ onMessage(s) \/ onClose(s) \/ step(s)
  PROVE  TokensInv'
<1> USE DEF DiscoveryInv
<1>1. CASE rateLimit(s)
  BY <1>1, RateLimitIs, RejectedTokens, AcceptedTokens
<1> QED BY <1>1, EventTokens, StageTokens, SendTokenTokens, CompleteTokens, RunTokens, ContainerTokens DEF step

LEMMA PaidStep ==
  ASSUME DiscoveryInv, LimiterInv', TokensInv', NEW s \in Sessions,
         onOpen(s) \/ onMessage(s) \/ onClose(s) \/ step(s)
  PROVE  PaidInv'
<1> USE DEF DiscoveryInv
<1>1. CASE rateLimit(s)
  BY <1>1, RateLimitIs, StagePaid, AcceptedPaid
<1> QED BY <1>1, EventPaid, StagePaid, SendTokenPaid, CompletePaid, RunPaid, ContainerPaid DEF step

(* A step of nobody: operations stay where they are, and what expires is     *)
(* settled.                                                                  *)
LEMMA DiscoverySame ==
  ASSUME DiscoveryInv, LimiterInv', UNCHANGED <<session, issued, received, answers>>,
         \A s \in Sessions : Waits(op[s], op'[s]),
         DOMAIN costs' \subseteq DOMAIN costs, Leaves,
         cleared \subseteq cleared', ledger'.includes = ledger.includes
  PROVE  DiscoveryInv'
<1> USE DEF DiscoveryInv
<1>1. SessionsInv'
  <2> SUFFICES ASSUME NEW s \in Sessions PROVE Stage(session[s], op'[s])
    BY DEF SessionsInv
  <2> QED BY DEF SessionsInv, Stage, Waits
<1>2. TokensInv'
  <2>1. IssuedInv'
    BY DEF TokensInv, IssuedInv, Numbers
  <2>2. ASSUME NEW s \in Sessions PROVE TokenOK(session[s], op[s])'
    <3>1. TokenOK(session[s], op[s]) /\ Waits(op[s], op'[s])
      BY DEF TokensInv
    <3> QED BY <3>1 DEF TokenOK, Waits
  <2> QED BY <2>1, <2>2 DEF TokensInv
<1>3. PaidInv'
  <2>1. \A t : (HasCost(t)' <=> HasCost(t)) /\ lineage(t)' = lineage(t)
    BY DEF HasCost, lineage, closed
  <2>2. Grows
    BY <2>1 DEF Grows, LimiterInv, LedgerType, cleared
  <2>3. \A r \in Sessions : PaymentOK(session[r], op[r])'
    BY <2>2, PaymentOthers
  <2> QED BY <2>1, <2>2, <2>3, PaidGrows
<1> QED BY <1>1, <1>2, <1>3

LEMMA DiscoveryTime ==
  ASSUME DiscoveryInv, containerTime \/ UNCHANGED limiter, UNCHANGED <<session, issued, received, answers>>
  PROVE  DiscoveryInv'
<1> USE DEF DiscoveryInv
<1>1. LimiterInv'
  <2>1. CASE UNCHANGED limiter
    BY <2>1 DEF limiter, LimiterInv, OpsInv, LedgerType, CostsType, NoLostCharge
  <2> QED BY <2>1, TimeLimiter
<1>2. CASE tick \/ UNCHANGED limiter
  <2>1. UNCHANGED <<op, costs, ledger>>
    BY <1>2 DEF tick, limiter
  <2>2. \A s \in Sessions : Waits(op[s], op'[s])
    BY <2>1 DEF Waits
  <2> QED BY <1>1, <2>1, <2>2, DiscoverySame DEF Leaves, cleared
<1>3. ASSUME NEW t \in Tokens, expireCost(t) PROVE DiscoveryInv'
  <2>1. /\ op' = op /\ costs' = Restrict(costs, DOMAIN costs \ {t})
        /\ ledger' = [ledger EXCEPT !.settled = @ \cup {t}]
    BY <1>3 DEF expireCost
  <2>2. DOMAIN costs' = DOMAIN costs \ {t}
    BY <2>1 DEF Restrict
  <2>3. ledger'.includes = ledger.includes /\ cleared' = cleared \cup {t}
    BY <2>1 DEF LimiterInv, LedgerType, cleared
  <2>4. \A s \in Sessions : Waits(op[s], op'[s])
    BY <2>1 DEF Waits
  <2> QED BY <1>1, <2>2, <2>3, <2>4, DiscoverySame DEF Leaves
<1>4. CASE expireBucket
  <2>1. costs' = costs /\ ledger' = ledger /\ op' = [s \in Sessions |-> stale(op[s])]
    BY <1>4 DEF expireBucket
  <2>2. \A s \in Sessions : Waits(op[s], op'[s])
    BY <2>1, StaleWaits DEF LimiterInv, OpsInv
  <2> QED BY <1>1, <2>1, <2>2, DiscoverySame DEF Leaves, cleared
<1> QED BY <1>2, <1>3, <1>4 DEF containerTime

LEMMA DiscoveryStep == DiscoveryInv /\ [Next]_vars => DiscoveryInv'
<1> SUFFICES ASSUME DiscoveryInv, [Next]_vars PROVE DiscoveryInv'
  OBVIOUS
<1>1. ASSUME NEW s \in Sessions, onOpen(s) \/ onMessage(s) \/ onClose(s) \/ step(s) PROVE DiscoveryInv'
  <2>1. LimiterInv' /\ SessionsInv' /\ TokensInv'
    BY <1>1, LimiterStep, SessionsStep, TokensStep
  <2> QED BY <1>1, <2>1, PaidStep DEF DiscoveryInv
<1>2. CASE containerTime /\ UNCHANGED <<session, issued, received, answers, started>>
  BY <1>2, DiscoveryTime
<1>3. CASE UNCHANGED vars
  BY <1>3, DiscoveryTime DEF vars
<1> QED BY <1>1, <1>2, <1>3 DEF Next

(***************************************************************************)
(* The sessions of an account and its limiter keep their invariant: what   *)
(* was read of the bucket is still so while its ETag says so, every        *)
(* operation belongs to the message whose turn it is, the numbers of a     *)
(* token come from the token before it, and what they cost is cleared once *)
(* the token is.                                                           *)
(***************************************************************************)
THEOREM DiscoveryInvariance == Spec => []DiscoveryInv
  BY DiscoveryInit, DiscoveryStep, PTL DEF Spec

(* The bucket is as full as all the charges that were committed make it,    *)
(* whatever sessions race in prepare, in validate and in garbage            *)
(* collection; and when the bucket has expired, those have all leaked.      *)
THEOREM ChargesKept == Spec => []NoLostCharge
<1>1. DiscoveryInv => NoLostCharge
  BY DEF DiscoveryInv, LimiterInv
<1> QED BY <1>1, DiscoveryInvariance, PTL

(* A session that has ended has closed its client and left no operation and *)
(* no event behind, and the limiter only holds what the enclave issued.     *)
THEOREM SessionsSound == Spec => []SessionInv
<1>1. DiscoveryInv => SessionInv
  <2> SUFFICES ASSUME DiscoveryInv PROVE SessionInv
    OBVIOUS
  <2>1. \A s \in Sessions : op[s].pc = "idle" => op[s] = Idle
    BY IdleIs DEF DiscoveryInv, LimiterInv, OpsInv, OpShape, Ended
  <2>2. DOMAIN costs \subseteq DOMAIN issued /\ received \subseteq DOMAIN issued
    BY DEF DiscoveryInv, TokensInv, IssuedInv
  <2>3. bucket # NoBucket => bucket.amount \in 0 .. permits(BUCKET_SIZE)
    BY DEF DiscoveryInv, LimiterInv, IsBucket
  <2>4. \A s \in Sessions : op[s] # Idle => session[s].up /\ session[s].chain[1] = "message"
    BY <2>1 DEF DiscoveryInv, SessionsInv, Stage
  <2>5. ClientReleased
    BY <2>1 DEF ClientReleased, DiscoveryInv, SessionsInv, Stage, HandlerOK
  <2> QED BY <2>2, <2>3, <2>4, <2>5 DEF SessionInv, TypeOK
<1> QED BY <1>1, DiscoveryInvariance, PTL

(* Every number that a client got an answer for was new in its request or   *)
(* in one of those that its token goes back to, and what that cost was      *)
(* charged, given up by garbage collection or expired, or a charge of it    *)
(* was refused in a response of the container.                              *)
THEOREM AnswersArePaid == Spec => []AnswersPaid
<1>1. DiscoveryInv => AnswersPaid
  <2> SUFFICES ASSUME DiscoveryInv, NEW a \in answers, NEW n \in a.numbers
               PROVE  a.token # NoToken /\ \E t \in lineage(a.token) : n \in issued[t].new /\ Cleared(t)
    BY DEF AnswersPaid
  <2>1. a.token \in DOMAIN issued /\ Paid(n, a.token)
    BY DEF DiscoveryInv, PaidInv
  <2>2. a.token # NoToken
    BY <2>1, TokenLimiterAssumption DEF DiscoveryInv, TokensInv, IssuedInv
  <2> QED BY <2>1, <2>2 DEF Paid
<1> QED BY <1>1, DiscoveryInvariance, PTL

(***************************************************************************)
(* The fixed set that a session's answers are filtered with, for any       *)
(* capacity, load and growth, and any hash of its keys.                    *)
(*                                                                         *)
(* Where an index is in a block of c entries.                              *)
(***************************************************************************)
At(c, p) == (p % c) + 1

(* Quotient and remainder are determined. *)
LEMMA DivUnique ==
    ASSUME NEW d \in Nat \ {0}, NEW q \in Int, NEW p \in Int, NEW r \in Nat, NEW s \in Nat,
           r < d, s < d, d * q + r = d * p + s
    PROVE  q = p /\ r = s
<1>1. ASSUME NEW a \in Int, NEW b \in Int, NEW t \in Nat, NEW u \in Nat, t < d, u < d,
             d * a + t = d * b + u, a < b
      PROVE  FALSE
  <2>1. b >= a + 1
    BY <1>1
  <2>2. d * b >= d * (a + 1)
    BY <2>1
  <2>3. d * (a + 1) = d * a + d
    OBVIOUS
  <2> QED BY <1>1, <2>2, <2>3
<1>2. ~(q < p) /\ ~(p < q)
  BY <1>1
<1> QED BY <1>2

(* Quotient and remainder are determined by what they add up to. *)
LEMMA DivModIs ==
    ASSUME NEW d \in Nat \ {0}, NEW q \in Nat, NEW r \in Nat, r < d
    PROVE  /\ (d * q + r) \div d = q
           /\ (d * q + r) % d = r
<1> DEFINE x == d * q + r
<1>1. x \in Nat
  OBVIOUS
<1>2. x = d * q + r
  OBVIOUS
<1> HIDE DEF x
<1>3. PICK p, s \in Nat : p = x \div d /\ s = x % d /\ s < d /\ x = d * p + s
  BY <1>1, DivMod
<1>4. x \div d = q /\ x % d = r
  BY <1>2, <1>3, DivUnique
<1> QED BY <1>4 DEF x

(* Entry numbers are those of the block. *)
LEMMA AtType ==
    ASSUME NEW c \in Nat \ {0}, NEW p \in Nat
    PROVE  At(c, p) \in 1 .. c
<1>1. PICK q, r \in Nat : r = p % c /\ r < c
  BY DivMod
<1> QED BY <1>1 DEF At

(* An entry number is that of a remainder. *)
LEMMA AtIs ==
    ASSUME NEW c \in Nat \ {0}, NEW q \in Nat, NEW r \in Nat, r < c
    PROVE  At(c, c * q + r) = r + 1
  BY DivModIs DEF At

(* What an index is made of. *)
LEMMA AtParts ==
    ASSUME NEW c \in Nat \ {0}, NEW p \in Nat
    PROVE  \E q, r \in Nat : r < c /\ p = c * q + r /\ At(c, p) = r + 1
  BY DivMod DEF At

(* Two indices of one entry stay at one entry when both move on. *)
LEMMA AtShift ==
    ASSUME NEW c \in Nat \ {0}, NEW p \in Nat, NEW q \in Nat, At(c, p) = At(c, q), NEW j \in Nat
    PROVE  At(c, p + j) = At(c, q + j)
<1>1. PICK a, r \in Nat : r < c /\ p = c * a + r /\ At(c, p) = r + 1
  BY AtParts
<1>2. PICK b, s \in Nat : s < c /\ q = c * b + s /\ At(c, q) = s + 1
  BY AtParts
<1>3. r = s
  BY <1>1, <1>2
<1>4. PICK z \in Nat : z = r + j
  OBVIOUS
<1>5. PICK d, t \in Nat : t < c /\ z = c * d + t /\ At(c, z) = t + 1
  BY AtParts
<1>6. ASSUME NEW x \in Nat, NEW y \in Nat, y = c * x + r PROVE At(c, y + j) = t + 1
  <2>1. PICK u \in Nat : u = x + d
    OBVIOUS
  <2>2. c * u = c * x + c * d /\ c * x \in Nat /\ c * d \in Nat
    BY <2>1
  <2>3. y + j = c * u + t
    BY <1>4, <1>5, <1>6, <2>2
  <2>4. At(c, c * u + t) = t + 1
    BY ONLY <1>5, AtIs, c \in Nat \ {0}, u \in Nat, t \in Nat
  <2> QED BY <2>3, <2>4
<1> QED BY <1>1, <1>2, <1>3, <1>6

(* After as many steps as there are entries an index is where it was. *)
LEMMA AtAround ==
    ASSUME NEW c \in Nat \ {0}, NEW p \in Nat
    PROVE  At(c, p + c) = At(c, p)
<1>1. PICK a, r \in Nat : r < c /\ p = c * a + r /\ At(c, p) = r + 1
  BY AtParts
<1>2. PICK u \in Nat : u = a + 1
  OBVIOUS
<1>3. c * u = c * a + c /\ c * a \in Nat
  BY <1>2
<1>4. p + c = c * u + r
  BY <1>1, <1>3
<1>5. At(c, c * u + r) = r + 1
  BY <1>1, AtIs
<1> QED BY <1>1, <1>4, <1>5

(* Two indices of one entry were at one entry before both moved on. *)
LEMMA AtBack ==
    ASSUME NEW c \in Nat \ {0}
    PROVE  \A p, q, j \in Nat : At(c, p + j) = At(c, q + j) => At(c, p) = At(c, q)
<1> SUFFICES ASSUME NEW p \in Nat, NEW q \in Nat, NEW j \in Nat, At(c, p + j) = At(c, q + j)
             PROVE  At(c, p) = At(c, q)
  OBVIOUS
<1>1. ASSUME NEW u \in Nat PROVE At(c, u + j + (c * j - j)) = At(c, u)
  <2>1. PICK a, s \in Nat : s < c /\ u = c * a + s /\ At(c, u) = s + 1
    BY AtParts
  <2>2. PICK v \in Nat : v = a + j
    OBVIOUS
  <2>3. c * v = c * a + c * j /\ c * a \in Nat /\ c * j \in Nat
    BY <2>2
  <2>4. u + j + (c * j - j) = c * v + s
    BY <2>1, <2>3
  <2>5. At(c, c * v + s) = s + 1
    BY <2>1, AtIs
  <2> QED BY <2>1, <2>4, <2>5
<1>2. PICK g \in Nat : g = c * j - j
  <2>1. j * 1 <= j * c
    OBVIOUS
  <2> QED BY <2>1
<1>3. PICK x, y \in Nat : x = p + j /\ y = q + j
  OBVIOUS
<1>4. At(c, x) = At(c, y)
  BY <1>3
<1>5. At(c, x + g) = At(c, y + g)
  BY <1>4, AtShift
<1> QED BY <1>1, <1>2, <1>3, <1>5

(* Every entry is among as many consecutive ones as there are. *)
LEMMA AtReach ==
    ASSUME NEW c \in Nat \ {0}, NEW p \in Nat, NEW i \in 1 .. c
    PROVE  \E n \in 0 .. c - 1 : At(c, p + n) = i
<1>1. PICK a, r \in Nat : r < c /\ p = c * a + r /\ At(c, p) = r + 1
  BY AtParts
<1>2. a + 1 \in Nat /\ c * (a + 1) = c * a + c /\ c * a \in Nat /\ i - 1 \in Nat /\ i - 1 < c
  OBVIOUS
<1>3. CASE r <= i - 1
  <2>1. i - 1 - r \in 0 .. c - 1 /\ p + (i - 1 - r) = c * a + (i - 1)
    BY <1>1, <1>2, <1>3
  <2>2. At(c, c * a + (i - 1)) = (i - 1) + 1
    BY <1>2, AtIs
  <2> QED BY <2>1, <2>2
<1>4. CASE r > i - 1
  <2>1. c + i - 1 - r \in 0 .. c - 1 /\ p + (c + i - 1 - r) = c * (a + 1) + (i - 1)
    BY <1>1, <1>2, <1>4
  <2>2. At(c, c * (a + 1) + (i - 1)) = (i - 1) + 1
    BY <1>2, AtIs
  <2> QED BY <2>1, <2>2
<1> QED BY <1>1, <1>3, <1>4

(* Fewer consecutive ones than there are entries are different. *)
LEMMA AtDistinct ==
    ASSUME NEW c \in Nat \ {0}, NEW p \in Nat, NEW m \in 0 .. c - 1, NEW n \in 0 .. c - 1,
           At(c, p + m) = At(c, p + n)
    PROVE  m = n
<1>1. ASSUME NEW x \in 0 .. c - 1, NEW y \in 0 .. c - 1, At(c, p + x) = At(c, p + y), x < y
      PROVE  FALSE
  <2>0. PICK v, w \in Nat : v = p + x /\ w = p + y
    OBVIOUS
  <2>1. PICK a, r \in Nat : r < c /\ v = c * a + r /\ At(c, v) = r + 1
    BY AtParts
  <2>2. y - x \in Nat /\ y - x # 0 /\ y - x < c
    BY <1>1
  <2>3. PICK b, s \in Nat : s < c /\ w = c * b + s /\ At(c, w) = s + 1
    BY AtParts
  <2>4. r = s
    BY <1>1, <2>0, <2>1, <2>3
  <2>5. c * b = c * a + (y - x) /\ c * b \in Nat /\ c * a \in Nat
    BY <2>0, <2>1, <2>3, <2>4
  <2>6. c * b + 0 = c * a + (y - x) /\ 0 < c /\ 0 \in Nat
    BY <2>5
  <2>7. 0 = y - x
    BY <2>2, <2>6, DivUnique
  <2> QED BY <2>2, <2>7
<1> QED BY <1>1

(* The entry after the one of an index. *)
LEMMA AtNext ==
    ASSUME NEW c \in Nat \ {0}, NEW p \in Nat
    PROVE  At(c, At(c, p)) = At(c, p + 1)
<1>1. PICK a, r \in Nat : r < c /\ p = c * a + r /\ At(c, p) = r + 1
  BY AtParts
<1>2. c * 0 + r = r /\ 0 \in Nat
  OBVIOUS
<1>3. At(c, c * 0 + r) = r + 1
  BY <1>1, <1>2, AtIs
<1>4. At(c, r) = At(c, p)
  BY <1>1, <1>2, <1>3
<1>5. At(c, r + 1) = At(c, p + 1)
  BY <1>4, AtShift
<1> QED BY <1>1, <1>5

-----------------------------------------------------------------------------
(* A block, what of it is in use, and its keys. *)
Entry == [jump : Nat, key : Keys \cup {NoKey}]
Used(b) == {i \in DOMAIN b : b[i].jump # 0}
KeysIn(b) == {b[i].key : i \in Used(b)}

(* Every entry is as far from the hash of its key as its jump says. *)
Home(b, c) == \A i \in 1 .. c : b[i].jump # 0 =>
    /\ b[i].key \in Keys /\ b[i].jump <= c
    /\ At(c, khash[b[i].key] + b[i].jump) = i

(* Nobody on the way of a key is closer to home than the key would be. *)
Probes(b, c, k, n) == \A j \in 1 .. n - 1 : b[At(c, khash[k] + j)].jump >= j

Ordered(b, c) == \A i \in 1 .. c : b[i].jump # 0 => Probes(b, c, b[i].key, b[i].jump)

(* A key has one entry. *)
Once(b, c) == \A i, j \in 1 .. c :
    b[i].jump # 0 /\ b[j].jump # 0 /\ b[i].key = b[j].key => i = j

(* A block in which every key is found that is in it. *)
Block(b, c) == b \in [1 .. c -> Entry] /\ Home(b, c) /\ Ordered(b, c) /\ Once(b, c)

(* The fields of an entry. *)
LEMMA EntryIs ==
    ASSUME NEW c \in Nat \ {0}, NEW b \in [1 .. c -> Entry], NEW i \in 1 .. c
    PROVE  b[i].jump \in Nat /\ b[i].key \in Keys \cup {NoKey}
  BY DEF Entry

(* A probe sequence that is not empty has an entry that is. *)
LEMMA JumpBound ==
    ASSUME khash \in [Keys -> Nat], NEW c \in Nat \ {0}, NEW b \in [1 .. c -> Entry],
           NEW k \in Keys, NEW n \in Nat, Probes(b, c, k, n),
           NEW z \in 1 .. c, b[z].jump = 0
    PROVE  n <= c
<1>1. SUFFICES ASSUME n > c PROVE FALSE
  OBVIOUS
<1>2. PICK p \in Nat : p = khash[k] + 1
  OBVIOUS
<1>3. PICK m \in 0 .. c - 1 : At(c, p + m) = z
  BY ONLY AtReach, c \in Nat \ {0}, p \in Nat, z \in 1 .. c
<1>4. m + 1 \in 1 .. n - 1 /\ p + m = khash[k] + (m + 1)
  <2>1. PICK x \in Nat : x = khash[k]
    OBVIOUS
  <2>2. m + 1 \in 1 .. n - 1 /\ p + m = x + (m + 1)
    BY ONLY <1>1, <1>2, <2>1, c \in Nat \ {0}, n \in Nat, m \in 0 .. c - 1, x \in Nat
  <2> QED BY ONLY <2>1, <2>2
<1>5. b[At(c, khash[k] + (m + 1))].jump >= m + 1
  BY <1>4 DEF Probes
<1> QED BY <1>3, <1>4, <1>5

(* A key takes an entry that is empty or whose key is closer to its hash. *)
LEMMA Takes ==
    ASSUME khash \in [Keys -> Nat], NEW c \in Nat \ {0}, NEW b, Block(b, c),
           NEW k \in Keys, NEW n \in 1 .. c, k \notin KeysIn(b), Probes(b, c, k, n),
           NEW i \in 1 .. c, i = At(c, khash[k] + n), b[i].jump < n,
           NEW d, d = [b EXCEPT ![i] = [jump |-> n, key |-> k]]
    PROVE  /\ Block(d, c)
           /\ Used(d) = Used(b) \cup {i}
           /\ b[i].jump = 0 => KeysIn(d) = KeysIn(b) \cup {k}
           /\ b[i].jump # 0 => /\ b[i].key \notin KeysIn(d)
                               /\ b[i].key \in Keys
                               /\ KeysIn(d) \cup {b[i].key} = KeysIn(b) \cup {k}
                               /\ Probes(d, c, b[i].key, b[i].jump + 1)
<1>1. b \in [1 .. c -> Entry] /\ Home(b, c) /\ Ordered(b, c) /\ Once(b, c)
  BY DEF Block
<1>2. /\ d \in [1 .. c -> Entry] /\ d[i].jump = n /\ d[i].key = k /\ n \in Nat /\ n # 0 /\ n <= c
      /\ \A j \in 1 .. c : j # i => d[j] = b[j]
      /\ DOMAIN d = 1 .. c /\ DOMAIN b = 1 .. c
  <2>1. [jump |-> n, key |-> k] \in Entry
    BY DEF Entry
  <2> QED BY <1>1, <2>1
<1>3. \A j \in 1 .. c : b[j].jump \in Nat /\ d[j].jump \in Nat /\ d[j].jump >= b[j].jump
  <2> SUFFICES ASSUME NEW j \in 1 .. c
               PROVE  b[j].jump \in Nat /\ d[j].jump \in Nat /\ d[j].jump >= b[j].jump
    OBVIOUS
  <2>1. b[j].jump \in Nat /\ b[i].jump \in Nat
    BY <1>1, EntryIs
  <2> QED BY <2>1, <1>2
<1>4. \A j \in 1 .. c : b[j].jump # 0 => b[j].key # k
  BY <1>2 DEF KeysIn, Used
<1>5. Home(d, c)
  BY <1>1, <1>2 DEF Home
<1>6. Once(d, c)
  BY <1>1, <1>2, <1>4 DEF Once
<1>7. ASSUME NEW x \in Keys, NEW m \in Nat, Probes(b, c, x, m) PROVE Probes(d, c, x, m)
  <2> SUFFICES ASSUME NEW j \in 1 .. m - 1 PROVE d[At(c, khash[x] + j)].jump >= j
    BY DEF Probes
  <2>1. khash[x] + j \in Nat /\ j \in Nat
    OBVIOUS
  <2>2. At(c, khash[x] + j) \in 1 .. c
    BY <2>1, AtType
  <2>3. b[At(c, khash[x] + j)].jump >= j
    BY <1>7 DEF Probes
  <2> QED BY <2>1, <2>2, <2>3, <1>3
<1>8. Ordered(d, c)
  <2> SUFFICES ASSUME NEW j \in 1 .. c, d[j].jump # 0 PROVE Probes(d, c, d[j].key, d[j].jump)
    BY DEF Ordered
  <2>1. CASE j = i
    BY <2>1, <1>2, <1>7
  <2>2. CASE j # i
    <3>1. b[j].jump # 0 /\ b[j] = d[j]
      BY <2>2, <1>2
    <3>2. Probes(b, c, b[j].key, b[j].jump) /\ b[j].key \in Keys /\ b[j].jump \in Nat
      BY <3>1, <1>1, <1>3 DEF Ordered, Home
    <3> QED BY <3>1, <3>2, <1>7
  <2> QED BY <2>1, <2>2
<1>9. Block(d, c)
  BY <1>2, <1>5, <1>6, <1>8 DEF Block
<1>10. Used(d) = Used(b) \cup {i}
  BY <1>2 DEF Used
<1>11. ASSUME b[i].jump = 0 PROVE KeysIn(d) = KeysIn(b) \cup {k}
  <2>1. i \notin Used(b)
    BY <1>11 DEF Used
  <2>2. \A j \in Used(b) : d[j] = b[j]
    BY <2>1, <1>2 DEF Used
  <2>3. ASSUME NEW x \in KeysIn(d) PROVE x \in KeysIn(b) \cup {k}
    <3>1. PICK j \in Used(d) : x = d[j].key
      BY <2>3 DEF KeysIn
    <3>2. CASE j = i
      BY <3>1, <3>2, <1>2
    <3>3. CASE j # i
      BY <3>1, <3>3, <2>2, <1>10 DEF KeysIn
    <3> QED BY <3>2, <3>3
  <2>4. ASSUME NEW x \in KeysIn(b) PROVE x \in KeysIn(d)
    <3>1. PICK j \in Used(b) : x = b[j].key
      BY <2>4 DEF KeysIn
    <3> QED BY <3>1, <2>2, <1>10 DEF KeysIn
  <2>5. k \in KeysIn(d)
    BY <1>2, <1>10 DEF KeysIn
  <2> QED BY <2>3, <2>4, <2>5
<1>12. ASSUME b[i].jump # 0
       PROVE  /\ b[i].key \notin KeysIn(d) /\ b[i].key \in Keys
              /\ KeysIn(d) \cup {b[i].key} = KeysIn(b) \cup {k}
              /\ Probes(d, c, b[i].key, b[i].jump + 1)
  <2>1. i \in Used(b) /\ b[i].key \in Keys /\ b[i].key # k
    BY <1>12, <1>1, <1>2, <1>4 DEF Used, Home
  <2>2. Used(d) = Used(b)
    BY <2>1, <1>10
  <2>3. \A j \in Used(b) : j # i => d[j] = b[j] /\ b[j].key # b[i].key
    BY <1>1, <1>2, <1>12 DEF Used, Once
  <2>4. b[i].key \notin KeysIn(d)
    <3> SUFFICES ASSUME NEW j \in Used(d), d[j].key = b[i].key PROVE FALSE
      BY DEF KeysIn
    <3>1. CASE j = i
      BY <3>1, <2>1, <1>2
    <3>2. CASE j # i
      BY <3>2, <2>2, <2>3
    <3> QED BY <3>1, <3>2
  <2>5. KeysIn(d) \cup {b[i].key} = KeysIn(b) \cup {k}
    <3>1. ASSUME NEW x \in KeysIn(d) PROVE x \in KeysIn(b) \cup {k}
      <4>1. PICK j \in Used(d) : x = d[j].key
        BY <3>1 DEF KeysIn
      <4>2. CASE j = i
        BY <4>1, <4>2, <1>2
      <4>3. CASE j # i
        BY <4>1, <4>3, <2>2, <2>3 DEF KeysIn
      <4> QED BY <4>2, <4>3
    <3>2. \A x \in KeysIn(b) : x \in KeysIn(d) \cup {b[i].key}
      BY <2>2, <2>3, <1>2 DEF KeysIn
    <3>3. k \in KeysIn(d) /\ b[i].key \in KeysIn(b)
      BY <2>1, <2>2, <1>2 DEF KeysIn
    <3> QED BY <3>1, <3>2, <3>3
  <2>6. Probes(d, c, b[i].key, b[i].jump + 1)
    <3>1. b[i].jump \in Nat
      BY <1>3
    <3> SUFFICES ASSUME NEW j \in 1 .. b[i].jump PROVE d[At(c, khash[b[i].key] + j)].jump >= j
      BY <3>1 DEF Probes
    <3>2. Probes(b, c, b[i].key, b[i].jump) /\ At(c, khash[b[i].key] + b[i].jump) = i
      BY <1>1, <1>12 DEF Ordered, Home
    <3>3. CASE j = b[i].jump
      BY <3>1, <3>2, <3>3, <1>2
    <3>4. CASE j # b[i].jump
      <4>1. j \in 1 .. b[i].jump - 1
        BY <3>1, <3>4
      <4>2. Probes(d, c, b[i].key, b[i].jump)
        BY <3>1, <3>2, <2>1, <1>7
      <4> QED BY <4>1, <4>2 DEF Probes
    <3> QED BY <3>3, <3>4
  <2> QED BY <2>1, <2>4, <2>5, <2>6
<1> QED BY <1>9, <1>10, <1>11, <1>12

-----------------------------------------------------------------------------
(* A set of capacity c whose maxjump bounds the jumps. *)
Sets(c) == [block : [1 .. c -> Entry], size : Nat, maxjump : 0 .. c]
Bounded(h, c) == \A i \in 1 .. c : h.block[i].jump <= h.maxjump

(* The loop of fixedset_upsert after n turns on its way from index p: it    *)
(* holds one key in its hand, which with those of the block are K, has seen *)
(* only entries in use, and is where the key in its hand should be.         *)
Walking(w, h, c, K, p, n) ==
    /\ w \in [h : Sets(c), hash : Nat, jump : Nat \ {0}, key : Keys, done : {FALSE}]
    /\ Block(w.h.block, c) /\ Bounded(w.h, c)
    /\ w.hash + w.jump = p + n /\ At(c, w.hash) = At(c, khash[w.key])
    /\ Probes(w.h.block, c, w.key, w.jump)
    /\ w.key \notin KeysIn(w.h.block) /\ KeysIn(w.h.block) \cup {w.key} = K
    /\ Used(w.h.block) = Used(h.block) /\ w.h.size = h.size
    /\ \A m \in 0 .. n - 1 : At(c, p + m) \in Used(h.block)

(* The loop has ended: the keys are all in the block, one entry is new. *)
Arrived(w, h, c, K) ==
    /\ w \in [h : Sets(c), hash : Nat, jump : Nat \ {0}, key : Keys, done : {TRUE}]
    /\ Block(w.h.block, c) /\ Bounded(w.h, c)
    /\ KeysIn(w.h.block) = K
    /\ w.h.size = h.size + 1
    /\ \E i \in 1 .. c : i \notin Used(h.block) /\ Used(w.h.block) = Used(h.block) \cup {i}

(* The capacity of a set, and where its entries are. *)
LEMMA CapIs ==
    ASSUME NEW c \in Nat \ {0}, NEW h \in Sets(c)
    PROVE  /\ cap(h) = c /\ \A i : entry_n(h, i) = At(c, i)
           /\ h.block \in [1 .. c -> Entry] /\ h.size \in Nat /\ h.maxjump \in 0 .. c
<1>1. h.block \in [1 .. c -> Entry] /\ h.size \in Nat /\ h.maxjump \in 0 .. c
  BY DEF Sets
<1>2. h.block \in Seq(Entry) /\ DOMAIN h.block = 1 .. c
  BY <1>1
<1>3. Len(h.block) = c
  BY <1>2
<1> QED BY <1>1, <1>3 DEF cap, entry_n, At

(* fixedset_maybe_set_max_jump is the larger of the two. *)
LEMMA RaisedIs ==
    ASSUME NEW c \in Nat \ {0}, NEW h \in Sets(c), NEW n \in 1 .. c
    PROVE  /\ raised(h, n) \in 0 .. c
           /\ raised(h, n) >= n /\ raised(h, n) >= h.maxjump
<1>1. PICK a \in 0 .. c : a = h.maxjump
  BY CapIs
<1>2. \E x \in {a, n} : \A y \in {a, n} : x >= y
  <2>1. a >= n \/ n >= a
    OBVIOUS
  <2> QED BY <2>1
<1>3. Max({a, n}) \in {a, n} /\ \A y \in {a, n} : Max({a, n}) >= y
  BY <1>2 DEF Max
<1> QED BY <1>1, <1>3 DEF raised

(* The entry that the walk is at is one after the hash of its key. *)
LEMMA WalkAt ==
    ASSUME khash \in [Keys -> Nat], NEW c \in Nat \ {0}, NEW k \in Keys, NEW x \in Nat, NEW n \in Nat,
           At(c, x) = At(c, khash[k])
    PROVE  At(c, x + n) = At(c, khash[k] + n) /\ At(c, x + n) \in 1 .. c
<1>1. PICK y \in Nat : y = khash[k]
  OBVIOUS
<1>2. At(c, x + n) = At(c, y + n)
  BY <1>1, AtShift
<1>3. x + n \in Nat
  OBVIOUS
<1> QED BY <1>1, <1>2, <1>3, AtType

(* A turn of the loop of fixedset_upsert. *)
LEMMA ProbeKeeps ==
    ASSUME khash \in [Keys -> Nat], NEW c \in Nat \ {0}, NEW h \in Sets(c), NEW K, NEW p \in Nat,
           NEW n \in Nat, NEW w, Walking(w, h, c, K, p, n),
           NEW z \in 1 .. c, z \notin Used(h.block)
    PROVE  Walking(probe(w), h, c, K, p, n + 1) \/ Arrived(probe(w), h, c, K)
<1> DEFINE b == w.h.block
           i == At(c, w.hash + w.jump)
           e == b[i]
           d == [b EXCEPT ![i] = [jump |-> w.jump, key |-> w.key]]
           took(more) == [block |-> d, size |-> w.h.size + more, maxjump |-> raised(w.h, w.jump)]
<1>1. /\ w.h \in Sets(c) /\ w.hash \in Nat /\ w.jump \in Nat \ {0} /\ w.key \in Keys /\ w.done = FALSE
  BY DEF Walking
<1>2. /\ b \in [1 .. c -> Entry] /\ w.h.size \in Nat /\ w.h.maxjump \in 0 .. c
      /\ \A j : entry_n(w.h, j) = At(c, j)
  BY <1>1, CapIs
<1>3. i \in 1 .. c /\ i = At(c, khash[w.key] + w.jump)
  BY <1>1, WalkAt DEF Walking
<1>4. w.jump \in 1 .. c
  <2>1. b[z].jump = 0
    BY <1>2 DEF Walking, Used
  <2>2. Probes(b, c, w.key, w.jump)
    BY DEF Walking
  <2>3. w.jump <= c
    BY <1>1, <1>2, <2>1, <2>2, JumpBound
  <2> QED BY <1>1, <2>3
<1>5. e.jump \in Nat
  BY <1>2, <1>3, EntryIs
<1>6. d \in [1 .. c -> Entry] /\ \A j \in 1 .. c : d[j] = IF j = i THEN [jump |-> w.jump, key |-> w.key] ELSE b[j]
  <2>2. [jump |-> w.jump, key |-> w.key] \in Entry
    BY <1>1 DEF Entry
  <2> QED BY <1>2, <2>2
<1>7. /\ raised(w.h, w.jump) \in 0 .. c /\ raised(w.h, w.jump) >= w.jump
      /\ raised(w.h, w.jump) >= w.h.maxjump
  BY <1>1, <1>4, RaisedIs
<1>8. ASSUME NEW more \in {0, 1}
      PROVE  /\ took(more) \in Sets(c) /\ took(more).block = d
             /\ took(more).size = w.h.size + more /\ Bounded(took(more), c)
  <2>1. took(more) \in Sets(c) /\ took(more).maxjump = raised(w.h, w.jump)
    BY <1>2, <1>6, <1>7 DEF Sets
  <2>2. \A j \in 1 .. c : b[j].jump <= w.h.maxjump /\ b[j].jump \in Nat
    BY <1>2, EntryIs DEF Walking, Bounded
  <2>3. \A j \in 1 .. c : d[j].jump <= raised(w.h, w.jump)
    <3> SUFFICES ASSUME NEW j \in 1 .. c PROVE d[j].jump <= raised(w.h, w.jump)
      OBVIOUS
    <3>1. CASE j = i
      BY <3>1, <1>6, <1>7
    <3>2. CASE j # i
      <4>1. d[j] = b[j]
        BY <3>2, <1>6
      <4> HIDE DEF d
      <4> QED BY <4>1, <2>2, <1>7, <1>2
    <3> QED BY <3>1, <3>2
  <2> HIDE DEF d
  <2> QED BY <2>1, <2>3 DEF Bounded
<1>9. probe(w) = CASE e.jump = 0 -> walker(took(1), w.hash, w.jump, w.key, TRUE)
          [] e.jump # 0 /\ e.jump < w.jump ->
               walker(took(0), w.hash + w.jump - e.jump, e.jump + 1, e.key, FALSE)
          [] OTHER -> walker(w.h, w.hash, w.jump + 1, w.key, FALSE)
  <2>1. entry_n(w.h, w.hash + w.jump) = i
    BY <1>2
  <2>2. probe(w) = CASE w.done -> w
          [] ~w.done /\ e.jump = 0 -> walker(took(1), w.hash, w.jump, w.key, TRUE)
          [] ~w.done /\ displaced(e, w.jump) ->
               walker(took(0), w.hash + w.jump - e.jump, e.jump + 1, e.key, FALSE)
          [] OTHER -> walker(w.h, w.hash, w.jump + 1, w.key, FALSE)
    BY <2>1, Zenon DEF probe
  <2> HIDE DEF e, took
  <2> QED BY <2>2, <1>1 DEF displaced
<1>10. /\ Block(b, c) /\ w.key \notin KeysIn(b) /\ Probes(b, c, w.key, w.jump)
       /\ KeysIn(b) \cup {w.key} = K /\ Used(b) = Used(h.block) /\ w.h.size = h.size
       /\ w.hash + w.jump = p + n /\ At(c, w.hash) = At(c, khash[w.key])
  BY DEF Walking
<1>11. ASSUME NEW x, x \in Used(h.block), x = i
       PROVE  \A m \in 0 .. (n + 1) - 1 : At(c, p + m) \in Used(h.block)
  <2> SUFFICES ASSUME NEW m \in 0 .. (n + 1) - 1 PROVE At(c, p + m) \in Used(h.block)
    OBVIOUS
  <2>1. CASE m = n
    BY <2>1, <1>10, <1>11
  <2>2. CASE m # n
    <3>1. m \in 0 .. n - 1
      BY <2>2
    <3> QED BY <3>1 DEF Walking
  <2> QED BY <2>1, <2>2
<1>12. e.jump # 0 => i \in Used(h.block)
  BY <1>2, <1>3, <1>10 DEF Used
<1>13. CASE e.jump = 0
  <2>1. probe(w) = walker(took(1), w.hash, w.jump, w.key, TRUE)
    BY <1>9, <1>13
  <2>2. PICK t : t = took(1)
    OBVIOUS
  <2>3. /\ Block(d, c) /\ Used(d) = Used(b) \cup {i} /\ KeysIn(d) = KeysIn(b) \cup {w.key}
    BY <1>1, <1>3, <1>4, <1>10, <1>13, Takes
  <2>4. i \notin Used(b)
    BY <1>2, <1>13 DEF Used
  <2>5. t \in Sets(c) /\ t.block = d /\ t.size = w.h.size + 1 /\ Bounded(t, c)
    BY <1>8, <2>2
  <2>6. PICK q : q = probe(w)
    OBVIOUS
  <2> HIDE DEF took, d, e, i
  <2>7. /\ q = [h |-> t, hash |-> w.hash, jump |-> w.jump, key |-> w.key, done |-> TRUE]
    BY <2>1, <2>2, <2>6 DEF walker
  <2>8. /\ q \in [h : Sets(c), hash : Nat, jump : Nat \ {0}, key : Keys, done : {TRUE}]
        /\ q.h = t
    BY <2>7, <2>5, <1>1
  <2>9. Arrived(q, h, c, K)
    BY <2>3, <2>4, <2>5, <2>8, <1>3, <1>10 DEF Arrived
  <2> QED BY <2>6, <2>9
<1>14. CASE e.jump # 0 /\ e.jump < w.jump
  <2>1. probe(w) = walker(took(0), w.hash + w.jump - e.jump, e.jump + 1, e.key, FALSE)
    BY <1>9, <1>14
  <2>2. PICK t : t = took(0)
    OBVIOUS
  <2>3. /\ Block(d, c) /\ Used(d) = Used(b) \cup {i}
        /\ e.key \notin KeysIn(d) /\ e.key \in Keys
        /\ KeysIn(d) \cup {e.key} = KeysIn(b) \cup {w.key}
        /\ Probes(d, c, e.key, e.jump + 1)
    BY <1>1, <1>3, <1>4, <1>10, <1>14, Takes, SMTT(30)
  <2>4. i \in Used(b)
    BY <1>12, <1>14, <1>10
  <2>5. t \in Sets(c) /\ t.block = d /\ t.size = w.h.size /\ Bounded(t, c)
    <3>1. w.h.size + 0 = w.h.size
      BY <1>2
    <3> QED BY <1>8, <2>2, <3>1
  <2>6. PICK q : q = probe(w)
    OBVIOUS
  <2>7. PICK x \in Nat : x = w.hash + w.jump - e.jump
    BY <1>1, <1>5, <1>14
  <2>8. At(c, x) = At(c, khash[e.key])
    <3>1. PICK y \in Nat : y = khash[e.key]
      BY <2>3
    <3>2. At(c, khash[e.key] + e.jump) = i
      BY <1>3, <1>10, <1>14 DEF Block, Home
    <3>3. x + e.jump = w.hash + w.jump
      BY <2>7, <1>1, <1>5
    <3>4. At(c, x + e.jump) = At(c, y + e.jump)
      BY <3>1, <3>2, <3>3
    <3>5. PICK j \in Nat : j = e.jump
      BY <1>5
    <3>6. At(c, x + j) = At(c, y + j)
      BY <3>4, <3>5
    <3> HIDE DEF took, d, e, i, b
    <3>7. \A u, v, g \in Nat : At(c, u + g) = At(c, v + g) => At(c, u) = At(c, v)
      BY AtBack
    <3>8. At(c, x) = At(c, y)
      BY <3>6, <3>7
    <3> QED BY <3>1, <3>8
  <2>9. x + (e.jump + 1) = p + (n + 1)
    BY <2>7, <1>1, <1>5, <1>10
  <2>10. \A m \in 0 .. (n + 1) - 1 : At(c, p + m) \in Used(h.block)
    BY <1>11, <1>12, <1>14
  <2>11. Used(d) = Used(h.block)
    BY <2>3, <2>4, <1>10
  <2>12. e.jump + 1 \in Nat \ {0}
    BY <1>5
  <2> HIDE DEF took, d, e, i
  <2>13. q = [h |-> t, hash |-> x, jump |-> e.jump + 1, key |-> e.key, done |-> FALSE]
    BY <2>1, <2>2, <2>6, <2>7 DEF walker
  <2>14. /\ q \in [h : Sets(c), hash : Nat, jump : Nat \ {0}, key : Keys, done : {FALSE}]
         /\ q.h = t /\ q.hash = x /\ q.jump = e.jump + 1 /\ q.key = e.key
    BY <2>13, <2>3, <2>5, <2>12
  <2>15. Walking(q, h, c, K, p, n + 1)
    BY <2>3, <2>5, <2>8, <2>9, <2>10, <2>11, <2>14, <1>10 DEF Walking
  <2> QED BY <2>6, <2>15
<1>15. CASE e.jump # 0 /\ ~(e.jump < w.jump)
  <2>1. probe(w) = walker(w.h, w.hash, w.jump + 1, w.key, FALSE)
    BY <1>9, <1>15
  <2>2. PICK q : q = probe(w)
    OBVIOUS
  <2>3. w.jump + 1 \in Nat \ {0} /\ w.hash + (w.jump + 1) = p + (n + 1)
    BY <1>1, <1>10
  <2>4. \A m \in 0 .. (n + 1) - 1 : At(c, p + m) \in Used(h.block)
    BY <1>11, <1>12, <1>15
  <2>5. Probes(b, c, w.key, w.jump + 1)
    <3> SUFFICES ASSUME NEW j \in 1 .. (w.jump + 1) - 1 PROVE b[At(c, khash[w.key] + j)].jump >= j
      BY DEF Probes
    <3>1. CASE j = w.jump
      BY <3>1, <1>1, <1>3, <1>5, <1>15
    <3>2. CASE j # w.jump
      <4>1. j \in 1 .. w.jump - 1
        BY <3>2, <1>1
      <4> QED BY <4>1, <1>10 DEF Probes
    <3> QED BY <3>1, <3>2
  <2> HIDE DEF took, d, e, i
  <2>6. q = [h |-> w.h, hash |-> w.hash, jump |-> w.jump + 1, key |-> w.key, done |-> FALSE]
    BY <2>1, <2>2 DEF walker
  <2>7. /\ q \in [h : Sets(c), hash : Nat, jump : Nat \ {0}, key : Keys, done : {FALSE}]
        /\ q.h = w.h /\ q.hash = w.hash /\ q.jump = w.jump + 1 /\ q.key = w.key
    BY <2>6, <2>3, <1>1
  <2>8. Bounded(w.h, c)
    BY DEF Walking
  <2>9. Walking(q, h, c, K, p, n + 1)
    BY <2>3, <2>4, <2>5, <2>7, <2>8, <1>10 DEF Walking
  <2> QED BY <2>2, <2>9
<1> QED BY <1>13, <1>14, <1>15

(* The least element of a set of numbers. *)
LEMMA LeastNumber ==
    ASSUME NEW T \in SUBSET Nat, T # {}
    PROVE  \E x \in T : \A y \in T : x <= y
<1> DEFINE R == OpToRel(<, Nat)
<1>1. IsWellFoundedOn(R, Nat)
  BY NatLessThanWellFounded
<1>2. PICK x \in T : \A y \in T : ~(<<y, x>> \in R)
  <2> HIDE DEF R
  <2> QED BY <1>1, WFMin
<1>3. R = {ss \in Nat \X Nat : ss[1] < ss[2]}
  BY DEF OpToRel
<1>4. \A y \in T : x <= y
  <2> HIDE DEF R
  <2> SUFFICES ASSUME NEW y \in T, ~(x <= y) PROVE FALSE
    OBVIOUS
  <2>1. x \in Nat /\ y \in Nat /\ y < x
    OBVIOUS
  <2>2. <<y, x>> \in R
    BY <2>1, <1>3
  <2> QED BY <2>2, <1>2
<1> QED BY <1>4

(* Induction on the naturals, for the members of a set. *)
LEMMA SetInduction ==
    ASSUME NEW S, 0 \in S, \A n \in Nat : n \in S => n + 1 \in S
    PROVE  \A n \in Nat : n \in S
<1> DEFINE T == Nat \ S
<1>1. SUFFICES ASSUME T # {} PROVE FALSE
  OBVIOUS
<1>2. PICK x \in T : \A y \in T : x <= y
  BY <1>1, LeastNumber
<1>3. x \in Nat /\ x # 0 /\ x \notin S
  OBVIOUS
<1>4. x - 1 \in Nat /\ x - 1 \in S
  BY <1>2, <1>3
<1> QED BY <1>3, <1>4

-----------------------------------------------------------------------------
(* A set with capacity c and the keys M. *)
Table(h, c, M) ==
    /\ h \in Sets(c) /\ Block(h.block, c) /\ Bounded(h, c)
    /\ KeysIn(h.block) = M
    /\ IsFiniteSet(M) /\ Cardinality(M) = h.size /\ Cardinality(Used(h.block)) = h.size

(* The loop of fixedset_upsert as a sequence of turns. *)
LEMMA Walked ==
    ASSUME NEW h, NEW k, cap(h) \in Nat
    PROVE  \E f : /\ place(h, k) = f[cap(h)]
                  /\ f[0] = walker(h, khash[k], 1, k, FALSE)
                  /\ \A n \in 1 .. cap(h) : f[n] = probe(f[n - 1])
<1> DEFINE N == cap(h)
           c == walker(h, khash[k], 1, k, FALSE)
           Def(w, n) == probe(w)
           walk[n \in 0 .. cap(h)] ==
             IF n = 0 THEN walker(h, khash[k], 1, k, FALSE)
             ELSE probe(walk[n - 1])
<1>1. FiniteNatInductiveDefConclusion(walk, c, Def, 0, N)
  <2>1. FiniteNatInductiveDefHypothesis(walk, c, Def, 0, N)
    BY DEF FiniteNatInductiveDefHypothesis
  <2>2. N \in Nat /\ 0 \in Nat
    OBVIOUS
  <2> HIDE DEF walk, c, Def, N
  <2> QED BY <2>1, <2>2, FiniteNatInductiveDef
<1>2. walk = [n \in 0 .. N |-> IF n = 0 THEN c ELSE Def(walk[n - 1], n)]
  BY <1>1 DEF FiniteNatInductiveDefConclusion
<1>3. place(h, k) = walk[N]
  BY DEF place
<1> HIDE DEF walk
<1>4. ASSUME NEW n \in 1 .. N PROVE walk[n] = probe(walk[n - 1])
  <2>1. n \in 0 .. N /\ n # 0
    OBVIOUS
  <2> HIDE DEF c, N
  <2> QED BY <1>2, <2>1, Zenon
<1>5. walk[0] = c
  BY <1>2
<1> QED BY <1>3, <1>4, <1>5

(* A key that is not in a set with an empty entry finds a place. *)
LEMMA PlaceIs ==
    ASSUME khash \in [Keys -> Nat], NEW c \in Nat \ {0}, NEW M, NEW h, Table(h, c, M),
           NEW k \in Keys, k \notin M, NEW z \in 1 .. c, z \notin Used(h.block)
    PROVE  Arrived(place(h, k), h, c, M \cup {k})
<1>1. h \in Sets(c) /\ Block(h.block, c) /\ Bounded(h, c) /\ KeysIn(h.block) = M
  BY DEF Table
<1>2. cap(h) = c
  BY <1>1, CapIs
<1>3. PICK f : /\ place(h, k) = f[c]
               /\ f[0] = walker(h, khash[k], 1, k, FALSE)
               /\ \A n \in 1 .. c : f[n] = probe(f[n - 1])
  <2>1. cap(h) \in Nat
    BY <1>2
  <2>2. \E f : /\ place(h, k) = f[cap(h)]
               /\ f[0] = walker(h, khash[k], 1, k, FALSE)
               /\ \A n \in 1 .. cap(h) : f[n] = probe(f[n - 1])
    BY ONLY <2>1, Walked
  <2> QED BY <1>2, <2>2
<1>4. PICK p \in Nat : p = khash[k] + 1
  OBVIOUS
<1> DEFINE K == M \cup {k}
           S == {n \in Nat : n <= c => Walking(f[n], h, c, K, p, n) \/ Arrived(f[n], h, c, K)}
<1>5. 0 \in S
  <2>1. PICK w : w = f[0]
    OBVIOUS
  <2>2. w = [h |-> h, hash |-> khash[k], jump |-> 1, key |-> k, done |-> FALSE]
    BY <1>3, <2>1 DEF walker
  <2>3. /\ w \in [h : Sets(c), hash : Nat, jump : Nat \ {0}, key : Keys, done : {FALSE}]
        /\ w.h = h /\ w.hash = khash[k] /\ w.jump = 1 /\ w.key = k
    BY <2>2, <1>1
  <2>4. Probes(h.block, c, k, 1)
    BY DEF Probes
  <2>5. /\ khash[k] + 1 = p + 0 /\ k \notin KeysIn(h.block) /\ KeysIn(h.block) \cup {k} = K
        /\ \A m \in 0 .. 0 - 1 : At(c, p + m) \in Used(h.block)
    BY <1>1, <1>4
  <2> HIDE DEF K
  <2>6. Walking(w, h, c, K, p, 0)
    BY <2>3, <2>4, <2>5, <1>1 DEF Walking
  <2> QED BY <2>1, <2>6
<1>6. ASSUME NEW n \in Nat, n \in S PROVE n + 1 \in S
  <2> SUFFICES ASSUME n + 1 <= c
               PROVE  Walking(f[n + 1], h, c, K, p, n + 1) \/ Arrived(f[n + 1], h, c, K)
    BY <1>6
  <2>1. f[n + 1] = probe(f[n])
    <3>1. n + 1 \in 1 .. c /\ (n + 1) - 1 = n
      OBVIOUS
    <3> QED BY <3>1, <1>3
  <2>2. PICK w : w = f[n]
    OBVIOUS
  <2>3. Walking(w, h, c, K, p, n) \/ Arrived(w, h, c, K)
    BY <1>6, <2>2
  <2> HIDE DEF K
  <2>4. CASE Walking(w, h, c, K, p, n)
    BY <2>1, <2>2, <2>4, <1>1, ProbeKeeps
  <2>5. CASE Arrived(w, h, c, K)
    <3>1. w.done = TRUE
      BY <2>5 DEF Arrived
    <3>2. probe(w) = w
      BY <3>1 DEF probe
    <3> QED BY <3>2, <2>1, <2>2, <2>5
  <2> QED BY <2>3, <2>4, <2>5
<1> HIDE DEF S
<1>7. \A n \in Nat : n \in S
  BY <1>5, <1>6, SetInduction
<1>8. Walking(f[c], h, c, K, p, c) \/ Arrived(f[c], h, c, K)
  BY <1>7 DEF S
<1>9. ~Walking(f[c], h, c, K, p, c)
  <2> SUFFICES ASSUME Walking(f[c], h, c, K, p, c) PROVE FALSE
    OBVIOUS
  <2>1. PICK m \in 0 .. c - 1 : At(c, p + m) = z
    BY ONLY AtReach, c \in Nat \ {0}, p \in Nat, z \in 1 .. c
  <2> QED BY <2>1 DEF Walking
<1> QED BY <1>3, <1>8, <1>9

(* What a set with one key more is. *)
LEMMA EndedTable ==
    ASSUME NEW c \in Nat \ {0}, NEW M, NEW h, Table(h, c, M), NEW k, k \notin M,
           NEW w, Arrived(w, h, c, M \cup {k})
    PROVE  Table(w.h, c, M \cup {k}) /\ w.h.size = h.size + 1 /\ w.done = TRUE
<1>1. PICK i \in 1 .. c : i \notin Used(h.block) /\ Used(w.h.block) = Used(h.block) \cup {i}
  BY DEF Arrived
<1>2. IsFiniteSet(Used(h.block))
  <2>1. h.block \in [1 .. c -> Entry]
    BY CapIs DEF Table
  <2>2. 1 \in Int /\ c \in Int
    OBVIOUS
  <2>3. IsFiniteSet(1 .. c)
    BY <2>2, FS_Interval
  <2>4. Used(h.block) \subseteq 1 .. c
    BY <2>1 DEF Used
  <2> QED BY <2>3, <2>4, FS_Subset
<1>3. Cardinality(Used(h.block) \cup {i}) = Cardinality(Used(h.block)) + 1
  BY <1>1, <1>2, FS_AddElement
<1>4. IsFiniteSet(M \cup {k}) /\ Cardinality(M \cup {k}) = Cardinality(M) + 1
  BY FS_AddElement DEF Table
<1> QED BY <1>1, <1>3, <1>4 DEF Arrived, Table

(* fixedset_find: a key is in one place of the set if it is in it. *)
LEMMA FindIs ==
    ASSUME khash \in [Keys -> Nat], NEW c \in Nat \ {0}, NEW M, NEW h, Table(h, c, M), NEW k \in Keys
    PROVE  /\ fixedset_get(h, k) <=> k \in M
           /\ k \in M => \E n \in 1 .. c : /\ fixedset_find(h, k) = {khash[k] + n}
                                           /\ h.block[At(c, khash[k] + n)].jump = n
                                           /\ h.block[At(c, khash[k] + n)].key = k
<1>1. /\ h.block \in [1 .. c -> Entry] /\ h.maxjump \in 0 .. c
      /\ \A j : entry_n(h, j) = At(c, j)
  BY CapIs DEF Table
<1>2. /\ Home(h.block, c) /\ Once(h.block, c) /\ Bounded(h, c) /\ KeysIn(h.block) = M
  BY DEF Table, Block
<1> DEFINE J == {n \in 1 .. h.maxjump : h.block[At(c, khash[k] + n)] = [jump |-> n, key |-> k]}
<1>3. fixedset_find(h, k) = {khash[k] + j : j \in J}
  <2>1. \A n \in 1 .. h.maxjump : entry_n(h, khash[k] + n) = At(c, khash[k] + n)
    BY <1>1
  <2>2. J = {n \in 1 .. h.maxjump : h.block[entry_n(h, khash[k] + n)] = [jump |-> n, key |-> k]}
    BY <2>1
  <2> HIDE DEF J
  <2> QED BY <2>2 DEF fixedset_find
<1>4. ASSUME NEW n \in J
      PROVE  /\ n \in Nat /\ n # 0 /\ At(c, khash[k] + n) \in 1 .. c
             /\ h.block[At(c, khash[k] + n)].jump = n /\ h.block[At(c, khash[k] + n)].key = k
             /\ k \in M
  <2>1. n \in Nat /\ n # 0 /\ khash[k] + n \in Nat
    BY <1>1
  <2>2. At(c, khash[k] + n) \in 1 .. c
    BY <2>1, AtType
  <2>3. h.block[At(c, khash[k] + n)].jump = n /\ h.block[At(c, khash[k] + n)].key = k
    OBVIOUS
  <2>4. At(c, khash[k] + n) \in Used(h.block)
    BY <1>1, <2>1, <2>2, <2>3 DEF Used
  <2>5. k \in KeysIn(h.block)
    BY <2>3, <2>4 DEF KeysIn
  <2> QED BY <2>1, <2>2, <2>3, <2>5, <1>2
<1>5. ASSUME k \in M
      PROVE  \E n \in 1 .. c : J = {n} /\ h.block[At(c, khash[k] + n)].jump = n /\ h.block[At(c, khash[k] + n)].key = k
  <2>1. PICK i \in Used(h.block) : h.block[i].key = k
    BY <1>5, <1>2 DEF KeysIn
  <2>2. i \in 1 .. c /\ h.block[i].jump # 0
    BY <2>1, <1>1 DEF Used
  <2>3. PICK n \in Nat : n = h.block[i].jump
    BY <2>2, <1>1, EntryIs
  <2>4. n # 0 /\ n <= c /\ n <= h.maxjump /\ At(c, khash[k] + n) = i
    BY <2>1, <2>2, <2>3, <1>2 DEF Home, Bounded
  <2>5. h.block[i] = [jump |-> n, key |-> k]
    BY <2>1, <2>2, <2>3, <1>1 DEF Entry
  <2>6. n \in J
    <3>1. n \in 1 .. h.maxjump
      BY <2>4, <1>1
    <3>2. h.block[At(c, khash[k] + n)] = [jump |-> n, key |-> k]
      BY <2>4, <2>5
    <3> QED BY <3>1, <3>2
  <2>7. ASSUME NEW m \in J PROVE m = n
    <3>1. At(c, khash[k] + m) = i
      BY <1>4, <2>1, <2>2, <1>2 DEF Once
    <3> QED BY <1>4, <2>3, <3>1
  <2> HIDE DEF J
  <2>8. J = {n}
    BY <2>6, <2>7
  <2> QED BY <2>1, <2>3, <2>4, <2>8
<1> HIDE DEF J
<1>6. fixedset_get(h, k) <=> J # {}
  BY <1>3 DEF fixedset_get
<1>7. k \in M => \E n \in 1 .. c : /\ fixedset_find(h, k) = {khash[k] + n}
                                  /\ h.block[At(c, khash[k] + n)].jump = n
                                  /\ h.block[At(c, khash[k] + n)].key = k
  BY <1>3, <1>5
<1> QED BY <1>4, <1>5, <1>6, <1>7

(* The entries from index p on move back by one, up to the R-th. *)
MovedBack(d, b, c, p, R) ==
    /\ d \in [1 .. c -> Entry]
    /\ d[At(c, p + R)].jump = 0
    /\ \A m \in 0 .. R - 1 : /\ d[At(c, p + m)].jump = b[At(c, p + (m + 1))].jump - 1
                             /\ d[At(c, p + m)].key = b[At(c, p + (m + 1))].key
    /\ \A i \in 1 .. c : (\A m \in 0 .. R : i # At(c, p + m)) => d[i] = b[i]

(* What is moved back is not at its hash, what comes next is. *)
MayMove(b, c, p, R) ==
    /\ b[At(c, p)].jump # 0
    /\ \A m \in 1 .. R : b[At(c, p + m)].jump >= 2
    /\ b[At(c, p + (R + 1))].jump < 2

(* An entry of the new block comes from one of the old, in place or moved. *)
InPlace(d, b, c, p, R, i) == d[i] = b[i] /\ \A m \in 0 .. R : i # At(c, p + m)
Shifted(d, b, c, p, R, i, s) == \E m \in 0 .. R - 1 :
    /\ i = At(c, p + m) /\ s = At(c, p + (m + 1))
    /\ d[i].jump = b[s].jump - 1 /\ d[i].key = b[s].key /\ b[s].jump >= 2

(* Where the entries of the new block come from. *)
LEMMA Sources ==
    ASSUME NEW c \in Nat \ {0}, NEW b \in [1 .. c -> Entry], NEW p \in Nat, NEW R \in 0 .. c - 1,
           NEW d, MovedBack(d, b, c, p, R), MayMove(b, c, p, R)
    PROVE  /\ \A m \in 0 .. R + 1 : At(c, p + m) \in 1 .. c
           /\ \A i \in 1 .. c : d[i].jump # 0 =>
                \/ InPlace(d, b, c, p, R, i)
                \/ \E s \in 1 .. c : Shifted(d, b, c, p, R, i, s)
<1>1. ASSUME NEW m \in 0 .. R + 1 PROVE At(c, p + m) \in 1 .. c
  <2>1. p + m \in Nat
    OBVIOUS
  <2> QED BY <2>1, AtType
<1>2. ASSUME NEW i \in 1 .. c, d[i].jump # 0
      PROVE  \/ InPlace(d, b, c, p, R, i)
             \/ \E s \in 1 .. c : Shifted(d, b, c, p, R, i, s)
  <2>1. CASE \A m \in 0 .. R : i # At(c, p + m)
    BY <2>1 DEF MovedBack, InPlace
  <2>2. CASE \E m \in 0 .. R : i = At(c, p + m)
    <3>1. PICK m \in 0 .. R : i = At(c, p + m)
      BY <2>2
    <3>2. m # R
      BY <3>1, <1>2 DEF MovedBack
    <3>3. m \in 0 .. R - 1 /\ m + 1 \in 1 .. R /\ m + 1 \in 0 .. R + 1
      BY <3>2
    <3>4. b[At(c, p + (m + 1))].jump >= 2
      BY <3>3 DEF MayMove
    <3>5. /\ d[At(c, p + m)].jump = b[At(c, p + (m + 1))].jump - 1
          /\ d[At(c, p + m)].key = b[At(c, p + (m + 1))].key
      BY <3>3 DEF MovedBack
    <3>6. At(c, p + (m + 1)) \in 1 .. c
      BY <3>3, <1>1
    <3>7. Shifted(d, b, c, p, R, i, At(c, p + (m + 1)))
      BY <3>1, <3>3, <3>4, <3>5 DEF Shifted
    <3> QED BY <3>6, <3>7
  <2> QED BY <2>1, <2>2
<1> QED BY <1>1, <1>2

(* The entry after that of an index. *)
LEMMA NextAt ==
    ASSUME NEW c \in Nat \ {0}
    PROVE  /\ \A p, q \in Nat : At(c, p) = At(c, q) => At(c, p + 1) = At(c, q + 1)
           /\ \A p, q \in Nat : At(c, p + 1) = At(c, q + 1) => At(c, p) = At(c, q)
<1>1. 1 \in Nat
  OBVIOUS
<1>2. \A p, q \in Nat : At(c, p) = At(c, q) => At(c, p + 1) = At(c, q + 1)
  BY <1>1, AtShift
<1>3. \A p, q, j \in Nat : At(c, p + j) = At(c, q + j) => At(c, p) = At(c, q)
  BY AtBack
<1>4. \A p, q \in Nat : At(c, p + 1) = At(c, q + 1) => At(c, p) = At(c, q)
  BY <1>1, <1>3
<1> QED BY <1>2, <1>4

(* fixedset_remove keeps the entries where they can be found. *)
LEMMA MovesBack ==
    ASSUME khash \in [Keys -> Nat], NEW c \in Nat \ {0}, NEW b, Block(b, c), NEW p \in Nat,
           NEW R \in 0 .. c - 1, NEW d, MovedBack(d, b, c, p, R), MayMove(b, c, p, R),
           NEW mj \in Nat, \A i \in 1 .. c : b[i].jump <= mj
    PROVE  /\ Block(d, c)
           /\ KeysIn(d) = KeysIn(b) \ {b[At(c, p)].key}
           /\ At(c, p + R) \in Used(b) /\ Used(d) = Used(b) \ {At(c, p + R)}
           /\ \A i \in 1 .. c : d[i].jump <= mj
<1>1. /\ b \in [1 .. c -> Entry] /\ Home(b, c) /\ Ordered(b, c) /\ Once(b, c)
      /\ d \in [1 .. c -> Entry] /\ DOMAIN b = 1 .. c /\ DOMAIN d = 1 .. c
  BY DEF Block, MovedBack
<1>2. \A i \in 1 .. c : b[i].jump \in Nat /\ d[i].jump \in Nat
  BY <1>1, EntryIs
<1>3. /\ \A m \in 0 .. R + 1 : At(c, p + m) \in 1 .. c
      /\ \A i \in 1 .. c : d[i].jump # 0 =>
           \/ InPlace(d, b, c, p, R, i)
           \/ \E s \in 1 .. c : Shifted(d, b, c, p, R, i, s)
  BY <1>1, Sources
<1>4. p + 0 = p /\ 0 \in 0 .. R /\ 0 \in 0 .. R + 1
  OBVIOUS
<1>5. \A m, n \in 0 .. R : At(c, p + m) = At(c, p + n) => m = n
  <2> SUFFICES ASSUME NEW m \in 0 .. R, NEW n \in 0 .. R, At(c, p + m) = At(c, p + n) PROVE m = n
    OBVIOUS
  <2>1. m \in 0 .. c - 1 /\ n \in 0 .. c - 1
    OBVIOUS
  <2> QED BY <2>1, AtDistinct
<1>6. \A m \in 0 .. R : b[At(c, p + m)].jump # 0
  <2> SUFFICES ASSUME NEW m \in 0 .. R PROVE b[At(c, p + m)].jump # 0
    OBVIOUS
  <2>1. CASE m = 0
    BY <2>1, <1>4 DEF MayMove
  <2>2. CASE m # 0
    <3>1. m \in 1 .. R
      BY <2>2
    <3> QED BY <3>1 DEF MayMove
  <2> QED BY <2>1, <2>2
<1>7. ASSUME NEW i \in 1 .. c, NEW s \in 1 .. c, Shifted(d, b, c, p, R, i, s)
      PROVE  /\ d[i].jump # 0 /\ b[s].jump # 0 /\ b[s].jump = d[i].jump + 1 /\ d[i].key = b[s].key
             /\ \A x \in Nat : At(c, x) = i <=> At(c, x + 1) = s
             /\ \E n \in 1 .. R : s = At(c, p + n)
  <2>1. PICK m \in 0 .. R - 1 : /\ i = At(c, p + m) /\ s = At(c, p + (m + 1))
                                /\ d[i].jump = b[s].jump - 1 /\ d[i].key = b[s].key /\ b[s].jump >= 2
    BY <1>7 DEF Shifted
  <2>2. d[i].jump # 0 /\ b[s].jump # 0 /\ b[s].jump = d[i].jump + 1
    BY <2>1, <1>2
  <2>3. PICK y \in Nat : y = p + m
    OBVIOUS
  <2>4. p + (m + 1) = y + 1 /\ m + 1 \in 1 .. R
    BY <2>3
  <2>5. \A x \in Nat : At(c, x) = At(c, y) <=> At(c, x + 1) = At(c, y + 1)
    BY NextAt
  <2>6. \A x \in Nat : At(c, x) = i <=> At(c, x + 1) = s
    BY <2>1, <2>3, <2>4, <2>5
  <2> QED BY <2>1, <2>2, <2>4, <2>6
<1>8. \A i \in 1 .. c : d[i].jump <= mj
  <2> SUFFICES ASSUME NEW i \in 1 .. c PROVE d[i].jump <= mj
    OBVIOUS
  <2>1. CASE d[i].jump = 0
    BY <2>1
  <2>2. CASE InPlace(d, b, c, p, R, i)
    BY <2>2 DEF InPlace
  <2>3. ASSUME NEW s \in 1 .. c, Shifted(d, b, c, p, R, i, s) PROVE d[i].jump <= mj
    <3>1. b[s].jump = d[i].jump + 1 /\ b[s].jump <= mj
      BY <2>3, <1>7
    <3> QED BY <3>1, <1>2
  <2> QED BY <2>1, <2>2, <2>3, <1>3
<1>9. Home(d, c)
  <2> SUFFICES ASSUME NEW i \in 1 .. c, d[i].jump # 0
               PROVE  /\ d[i].key \in Keys /\ d[i].jump <= c
                      /\ At(c, khash[d[i].key] + d[i].jump) = i
    BY DEF Home
  <2>1. CASE InPlace(d, b, c, p, R, i)
    BY <2>1, <1>1 DEF InPlace, Home
  <2>2. ASSUME NEW s \in 1 .. c, Shifted(d, b, c, p, R, i, s)
        PROVE  /\ d[i].key \in Keys /\ d[i].jump <= c
               /\ At(c, khash[d[i].key] + d[i].jump) = i
    <3>1. /\ b[s].jump # 0 /\ b[s].jump = d[i].jump + 1 /\ d[i].key = b[s].key
          /\ \A x \in Nat : At(c, x) = i <=> At(c, x + 1) = s
      BY <2>2, <1>7
    <3>2. b[s].key \in Keys /\ b[s].jump <= c /\ At(c, khash[b[s].key] + b[s].jump) = s
      BY <3>1, <1>1 DEF Home
    <3>3. PICK x \in Nat : x = khash[d[i].key] + d[i].jump
      BY <3>1, <3>2, <1>2
    <3>4. x + 1 = khash[b[s].key] + b[s].jump
      BY <3>1, <3>2, <3>3, <1>2
    <3>5. At(c, x) = i
      BY <3>1, <3>2, <3>4
    <3>6. d[i].jump <= c
      BY <3>1, <3>2, <1>2
    <3> QED BY <3>1, <3>2, <3>3, <3>5, <3>6
  <2> QED BY <2>1, <2>2, <1>3
<1>10. Once(d, c)
  <2> SUFFICES ASSUME NEW i \in 1 .. c, NEW j \in 1 .. c, d[i].jump # 0, d[j].jump # 0, d[i].key = d[j].key
               PROVE  i = j
    BY DEF Once
  <2>1. CASE InPlace(d, b, c, p, R, i) /\ InPlace(d, b, c, p, R, j)
    BY <2>1, <1>1 DEF InPlace, Once
  <2>2. ASSUME NEW x \in 1 .. c, NEW y \in 1 .. c, d[x].jump # 0, d[y].jump # 0, d[x].key = d[y].key,
               InPlace(d, b, c, p, R, x), NEW s \in 1 .. c, Shifted(d, b, c, p, R, y, s)
        PROVE  FALSE
    <3>1. b[s].jump # 0 /\ d[y].key = b[s].key /\ \E n \in 1 .. R : s = At(c, p + n)
      BY <2>2, <1>7
    <3>2. b[x].jump # 0 /\ b[x].key = d[x].key /\ \A m \in 0 .. R : x # At(c, p + m)
      BY <2>2 DEF InPlace
    <3>3. x = s
      BY <2>2, <3>1, <3>2, <1>1 DEF Once
    <3> QED BY <3>1, <3>2, <3>3
  <2>3. ASSUME NEW s \in 1 .. c, Shifted(d, b, c, p, R, i, s), NEW t \in 1 .. c, Shifted(d, b, c, p, R, j, t)
        PROVE  i = j
    <3>1. b[s].jump # 0 /\ b[t].jump # 0 /\ b[s].key = b[t].key
      BY <2>3, <1>7
    <3>2. s = t
      BY <3>1, <1>1 DEF Once
    <3>3. PICK m \in 0 .. R - 1 : i = At(c, p + m) /\ s = At(c, p + (m + 1))
      BY <2>3 DEF Shifted
    <3>4. PICK n \in 0 .. R - 1 : j = At(c, p + n) /\ t = At(c, p + (n + 1))
      BY <2>3 DEF Shifted
    <3>5. m + 1 \in 0 .. R /\ n + 1 \in 0 .. R
      OBVIOUS
    <3>6. m + 1 = n + 1
      BY <3>2, <3>3, <3>4, <3>5, <1>5
    <3> QED BY <3>3, <3>4, <3>6
  <2> QED BY <2>1, <2>2, <2>3, <1>3
(* What an entry before one of the new block is. *)
<1>11. ASSUME NEW k \in Keys, NEW n \in Nat, Probes(b, c, k, n), NEW j \in Nat, j # 0, j + 1 < n
       PROVE  d[At(c, khash[k] + j)].jump >= j
  <2>1. PICK x \in Nat : x = khash[k] + j
    OBVIOUS
  <2>2. khash[k] + (j + 1) = x + 1 /\ j \in 1 .. n - 1 /\ j + 1 \in 1 .. n - 1
    BY <2>1, <1>11
  <2>3. b[At(c, x)].jump >= j /\ b[At(c, x + 1)].jump >= j + 1
    BY <2>1, <2>2, <1>11 DEF Probes
  <2>4. At(c, x) \in 1 .. c /\ At(c, x + 1) \in 1 .. c
    <3>1. x + 1 \in Nat
      OBVIOUS
    <3> QED BY <3>1, AtType
  <2>5. CASE \A m \in 0 .. R : At(c, x) # At(c, p + m)
    BY <2>1, <2>3, <2>4, <2>5 DEF MovedBack
  <2>6. ASSUME NEW m \in 0 .. R, At(c, x) = At(c, p + m) PROVE d[At(c, x)].jump >= j
    <3>1. PICK y \in Nat : y = p + m
      OBVIOUS
    <3>2. p + (m + 1) = y + 1
      BY <3>1
    <3>3. At(c, x + 1) = At(c, y + 1)
      BY <2>6, <3>1, NextAt
    <3>4. b[At(c, p + (m + 1))].jump >= j + 1
      BY <2>3, <3>2, <3>3
    <3>5. CASE m = R
      <4>1. b[At(c, p + (R + 1))].jump < 2 /\ b[At(c, x + 1)].jump \in Nat
        BY <1>2, <2>4 DEF MayMove
      <4> QED BY <4>1, <3>2, <3>3, <3>4, <3>5, <1>11
    <3>6. CASE m # R
      <4>1. m \in 0 .. R - 1
        BY <3>6
      <4>2. d[At(c, p + m)].jump = b[At(c, p + (m + 1))].jump - 1
        BY <4>1 DEF MovedBack
      <4>3. b[At(c, x + 1)].jump \in Nat
        BY <1>2, <2>4
      <4> QED BY <4>2, <4>3, <3>2, <3>3, <3>4, <2>6
    <3> QED BY <3>5, <3>6
  <2> QED BY <2>1, <2>5, <2>6
<1>12. Ordered(d, c)
  <2> SUFFICES ASSUME NEW i \in 1 .. c, d[i].jump # 0, NEW j \in 1 .. d[i].jump - 1
               PROVE  d[At(c, khash[d[i].key] + j)].jump >= j
    BY DEF Ordered, Probes
  <2>1. ASSUME NEW s \in 1 .. c, Shifted(d, b, c, p, R, i, s)
        PROVE  d[At(c, khash[d[i].key] + j)].jump >= j
    <3>1. b[s].jump # 0 /\ b[s].jump = d[i].jump + 1 /\ d[i].key = b[s].key
      BY <2>1, <1>7
    <3>2. b[s].key \in Keys /\ Probes(b, c, b[s].key, b[s].jump) /\ b[s].jump \in Nat
      BY <3>1, <1>1, <1>2 DEF Home, Ordered
    <3>3. j \in Nat /\ j # 0 /\ j + 1 < b[s].jump
      BY <3>1, <1>2
    <3> QED BY <3>1, <3>2, <3>3, <1>11
  <2>2. CASE InPlace(d, b, c, p, R, i)
    <3>1. b[i] = d[i] /\ \A m \in 0 .. R : i # At(c, p + m)
      BY <2>2 DEF InPlace
    <3>2. /\ b[i].key \in Keys /\ Probes(b, c, b[i].key, b[i].jump) /\ b[i].jump \in Nat
          /\ At(c, khash[b[i].key] + b[i].jump) = i
      BY <3>1, <1>1, <1>2 DEF Home, Ordered
    <3>3. j \in Nat /\ j # 0 /\ j < b[i].jump
      BY <3>1, <1>2
    <3>4. CASE j + 1 < b[i].jump
      BY <3>1, <3>2, <3>3, <3>4, <1>11
    <3>5. CASE j + 1 = b[i].jump
      <4>1. PICK x \in Nat : x = khash[d[i].key] + j
        BY <3>1, <3>2
      <4>2. At(c, x + 1) = i /\ At(c, x) \in 1 .. c
        <5>1. x + 1 = khash[b[i].key] + b[i].jump
          BY <4>1, <3>1, <3>2, <3>5
        <5> QED BY <5>1, <3>2, AtType
      <4>3. b[At(c, x)].jump >= j
        BY <4>1, <3>1, <3>2, <3>3 DEF Probes
      <4>4. ASSUME NEW m \in 0 .. R, At(c, x) = At(c, p + m) PROVE FALSE
        <5>1. PICK y \in Nat : y = p + m
          OBVIOUS
        <5>2. p + (m + 1) = y + 1
          BY <5>1
        <5>3. At(c, x + 1) = At(c, y + 1)
          BY <4>4, <5>1, NextAt
        <5>4. i = At(c, p + (m + 1))
          BY <4>2, <5>2, <5>3
        <5>5. CASE m = R
          <6>1. b[At(c, p + (R + 1))].jump < 2
            BY DEF MayMove
          <6> QED BY <6>1, <5>4, <5>5, <3>3, <3>5
        <5>6. CASE m # R
          <6>1. m + 1 \in 0 .. R
            BY <5>6
          <6> QED BY <6>1, <5>4, <3>1
        <5> QED BY <5>5, <5>6
      <4>5. d[At(c, x)] = b[At(c, x)]
        BY <4>2, <4>4 DEF MovedBack
      <4> QED BY <4>1, <4>3, <4>5
    <3> QED BY <3>2, <3>3, <3>4, <3>5
  <2> QED BY <2>1, <2>2, <1>3
<1>13. Block(d, c)
  BY <1>1, <1>9, <1>10, <1>12 DEF Block
<1>14. At(c, p + R) \in Used(b) /\ Used(d) = Used(b) \ {At(c, p + R)}
  <2>1. R \in 0 .. R /\ R \in 0 .. R + 1
    OBVIOUS
  <2>2. At(c, p + R) \in 1 .. c /\ b[At(c, p + R)].jump # 0 /\ d[At(c, p + R)].jump = 0
    BY <2>1, <1>3, <1>6 DEF MovedBack
  <2>3. ASSUME NEW i \in 1 .. c, i # At(c, p + R) PROVE d[i].jump # 0 <=> b[i].jump # 0
    <3>1. CASE \A m \in 0 .. R : i # At(c, p + m)
      BY <3>1 DEF MovedBack
    <3>2. ASSUME NEW m \in 0 .. R, i = At(c, p + m) PROVE d[i].jump # 0 <=> b[i].jump # 0
      <4>1. m \in 0 .. R - 1 /\ m + 1 \in 1 .. R /\ m + 1 \in 0 .. R + 1
        BY <2>3, <3>2
      <4>2. d[i].jump = b[At(c, p + (m + 1))].jump - 1
        BY <3>2, <4>1 DEF MovedBack
      <4>3. b[At(c, p + (m + 1))].jump >= 2 /\ b[At(c, p + (m + 1))].jump \in Nat
        BY <4>1, <1>2, <1>3 DEF MayMove
      <4> QED BY <3>2, <4>2, <4>3, <1>6
    <3> QED BY <3>1, <3>2
  <2> QED BY <2>2, <2>3, <1>1 DEF Used
<1>15. KeysIn(d) = KeysIn(b) \ {b[At(c, p)].key}
  <2>0. At(c, p) \in 1 .. c /\ b[At(c, p)].jump # 0
    BY <1>3, <1>4, <1>6
  <2>1. ASSUME NEW k \in KeysIn(d) PROVE k \in KeysIn(b) /\ k # b[At(c, p)].key
    <3>1. PICK i \in 1 .. c : d[i].jump # 0 /\ k = d[i].key
      BY <2>1, <1>1 DEF KeysIn, Used
    <3>2. CASE InPlace(d, b, c, p, R, i)
      <4>1. b[i].jump # 0 /\ b[i].key = k /\ i # At(c, p)
        BY <3>1, <3>2, <1>4 DEF InPlace
      <4>2. k \in KeysIn(b)
        BY <4>1, <1>1 DEF KeysIn, Used
      <4> QED BY <4>1, <4>2, <2>0, <1>1 DEF Once
    <3>3. ASSUME NEW s \in 1 .. c, Shifted(d, b, c, p, R, i, s)
          PROVE  k \in KeysIn(b) /\ k # b[At(c, p)].key
      <4>1. b[s].jump # 0 /\ b[s].key = k
        BY <3>1, <3>3, <1>7
      <4>2. PICK n \in 1 .. R : s = At(c, p + n)
        BY <3>3, <1>7
      <4>3. s # At(c, p)
        <5>1. n \in 0 .. R /\ n # 0
          OBVIOUS
        <5> QED BY <4>2, <5>1, <1>4, <1>5
      <4>4. k \in KeysIn(b)
        BY <4>1, <1>1 DEF KeysIn, Used
      <4> QED BY <4>1, <4>3, <4>4, <2>0, <1>1 DEF Once
    <3> QED BY <3>1, <3>2, <3>3, <1>3
  <2>2. ASSUME NEW k \in KeysIn(b), k # b[At(c, p)].key PROVE k \in KeysIn(d)
    <3>1. PICK i \in 1 .. c : b[i].jump # 0 /\ k = b[i].key
      BY <2>2, <1>1 DEF KeysIn, Used
    <3>2. CASE \A m \in 0 .. R : i # At(c, p + m)
      <4>1. d[i] = b[i]
        BY <3>2 DEF MovedBack
      <4> QED BY <4>1, <3>1, <1>1 DEF KeysIn, Used
    <3>3. ASSUME NEW m \in 0 .. R, i = At(c, p + m) PROVE k \in KeysIn(d)
      <4>1. m # 0
        BY <3>1, <3>3, <2>2, <1>4
      <4>2. PICK n \in 0 .. R - 1 : m = n + 1
        <5>1. m - 1 \in 0 .. R - 1 /\ m = (m - 1) + 1
          BY <4>1
        <5> QED BY <5>1
      <4>3. n \in 0 .. R /\ n \in 0 .. R + 1 /\ n + 1 \in 1 .. R
        BY <4>2
      <4>4. /\ At(c, p + n) \in 1 .. c /\ d[At(c, p + n)].key = k
            /\ d[At(c, p + n)].jump = b[i].jump - 1 /\ b[i].jump >= 2
        BY <4>2, <4>3, <3>1, <3>3, <1>3 DEF MovedBack, MayMove
      <4>5. d[At(c, p + n)].jump # 0
        BY <4>4, <1>2
      <4> QED BY <4>4, <4>5, <1>1 DEF KeysIn, Used
    <3> QED BY <3>2, <3>3
  <2> QED BY <2>1, <2>2
<1> QED BY <1>8, <1>13, <1>14, <1>15

(* A quotient grows with the dividend and shrinks as the divisor grows. *)
LEMMA DivGrows ==
    ASSUME NEW x \in Nat, NEW y \in Nat, x <= y, NEW d \in Nat \ {0}, NEW e \in Nat \ {0}, d <= e
    PROVE  x \div e \in Nat /\ y \div d \in Nat /\ x \div e <= y \div d
<1>1. PICK q, r \in Nat : q = x \div e /\ r < e /\ x = e * q + r
  BY DivMod
<1>2. PICK p, s \in Nat : p = y \div d /\ s < d /\ y = d * p + s
  BY DivMod
<1>3. q <= p
  <2>1. SUFFICES ASSUME q > p PROVE FALSE
    OBVIOUS
  <2>2. d * (p + 1) <= d * q
    BY <2>1
  <2>3. d * q <= e * q
    OBVIOUS
  <2>4. d * (p + 1) = d * p + d /\ d * p \in Nat /\ d * q \in Nat /\ e * q \in Nat
    OBVIOUS
  <2> QED BY <1>1, <1>2, <2>2, <2>3, <2>4
<1> QED BY <1>1, <1>2, <1>3

(* The size before the last insertion did not make the set grow. *)
Load(n, c) == n = 0 \/ (n - 1) + (n - 1) \div LOAD <= c

(* The smallest share of the load is two entries. *)
LEMMA NotFull ==
    ASSUME NEW n \in Nat, NEW c \in Nat, c > 2 * LOAD, Load(n, c)
    PROVE  n < c
<1>0. PICK L \in Nat \ {0} : L = LOAD
  BY FixedSetAssumption
<1>1. CASE n = 0
  BY <1>0, <1>1
<1>2. CASE n # 0
  <2>1. PICK t \in Nat : t = n - 1
    BY <1>2
  <2>2. PICK q, r \in Nat : q = t \div L /\ r < L /\ t = L * q + r
    BY DivMod
  <2>3. t + q <= c
    BY <1>0, <1>2, <2>1, <2>2 DEF Load
  <2>4. SUFFICES ASSUME n >= c PROVE FALSE
    OBVIOUS
  <2>5. q < 2
    BY <2>1, <2>3, <2>4
  <2>6. q = 0 \/ q = 1
    BY <2>5
  <2>7. L * q <= L
    BY <2>6
  <2> QED BY <1>0, <2>1, <2>2, <2>4, <2>7
<1> QED BY <1>1, <1>2

(* There is an empty entry when there are fewer keys than entries. *)
LEMMA RoomIs ==
    ASSUME NEW c \in Nat \ {0}, NEW M, NEW h, Table(h, c, M), h.size < c
    PROVE  \E z \in 1 .. c : z \notin Used(h.block)
<1>1. SUFFICES ASSUME \A z \in 1 .. c : z \in Used(h.block) PROVE FALSE
  OBVIOUS
<1>2. h.block \in [1 .. c -> Entry]
  BY CapIs DEF Table
<1>3. Used(h.block) = 1 .. c
  BY <1>1, <1>2 DEF Used
<1>4. 1 \in Int /\ c \in Int
  OBVIOUS
<1>5. Cardinality(1 .. c) = IF 1 > c THEN 0 ELSE c - 1 + 1
  BY <1>4, FS_Interval
<1>6. Cardinality(1 .. c) = c
  BY <1>5
<1> QED BY <1>3, <1>6 DEF Table

(* fixedset_upsert of a key into a set that has room. *)
LEMMA InsertIs ==
    ASSUME khash \in [Keys -> Nat], NEW c \in Nat \ {0}, NEW M, NEW h, Table(h, c, M), h.size < c,
           NEW k \in Keys
    PROVE  /\ insert(h, k).done = TRUE
           /\ Table(insert(h, k).h, c, M \cup {k})
           /\ insert(h, k).h.size \in {h.size, h.size + 1}
<1>1. fixedset_get(h, k) <=> k \in M
  BY FindIs
<1>2. CASE k \in M
  <2>1. insert(h, k) = [h |-> h, done |-> TRUE]
    BY <1>1, <1>2 DEF insert
  <2>2. insert(h, k).h = h /\ insert(h, k).done = TRUE /\ M \cup {k} = M
    BY <2>1, <1>2
  <2> QED BY <2>2, <1>2
<1>3. CASE k \notin M
  <2>1. insert(h, k) = place(h, k)
    BY <1>1, <1>3 DEF insert
  <2>2. PICK z \in 1 .. c : z \notin Used(h.block)
    BY RoomIs
  <2>3. Arrived(place(h, k), h, c, M \cup {k})
    BY <1>3, <2>2, PlaceIs
  <2>4. PICK w : w = place(h, k)
    OBVIOUS
  <2>5. Arrived(w, h, c, M \cup {k})
    BY <2>3, <2>4
  <2>6. Table(w.h, c, M \cup {k}) /\ w.h.size = h.size + 1 /\ w.done = TRUE
    BY <1>3, <2>5, EndedTable
  <2> QED BY <1>3, <2>1, <2>4, <2>6
<1> QED BY <1>2, <1>3

(* The keys of the first entries. *)
KeysUpTo(b, i) == {b[x].key : x \in {y \in Used(b) : y <= i}}

(* fixedset_new and fixedset_clear. *)
LEMMA EmptyTable ==
    ASSUME NEW c \in Nat \ {0}, NEW mj \in 0 .. c, NEW h,
           h = [block |-> empty_set(c).block, size |-> 0, maxjump |-> mj]
    PROVE  Table(h, c, {})
<1>1. h.block = [i \in 1 .. c |-> NoEntry] /\ h.size = 0 /\ h.maxjump = mj
  BY DEF empty_set
<1>2. NoEntry \in Entry /\ NoEntry.jump = 0
  BY DEF NoEntry, Entry
<1>3. h \in Sets(c)
  BY <1>1, <1>2 DEF Sets, empty_set
<1>4. \A i \in 1 .. c : h.block[i].jump = 0
  BY <1>1, <1>2
<1>5. Block(h.block, c) /\ Bounded(h, c)
  BY <1>1, <1>2, <1>4 DEF Block, Home, Ordered, Once, Bounded
<1>6. Used(h.block) = {} /\ KeysIn(h.block) = {}
  BY <1>1, <1>4 DEF Used, KeysIn
<1>7. IsFiniteSet({}) /\ Cardinality({}) = 0
  BY FS_EmptySet
<1> QED BY <1>1, <1>3, <1>5, <1>6, <1>7 DEF Table

(* An entry of the old block in fixedset_resize. *)
ResizeStep(h, m, i) ==
    IF h.block[i].jump = 0 \/ ~m.done THEN m
    ELSE IF over_load(m.h) THEN [h |-> m.h, done |-> FALSE]
    ELSE insert(m.h, h.block[i].key)

(* fixedset_resize as a sequence of upserts. *)
LEMMA Resized ==
    ASSUME NEW h, NEW newcap, cap(h) \in Nat
    PROVE  \E f : /\ fixedset_resize(h, newcap) = f[cap(h)]
                  /\ f[0] = [h |-> empty_set(newcap), done |-> TRUE]
                  /\ \A i \in 1 .. cap(h) : f[i] = ResizeStep(h, f[i - 1], i)
<1> DEFINE N == cap(h)
           c == [h |-> empty_set(newcap), done |-> TRUE]
           Def(m, i) == IF h.block[i].jump = 0 \/ ~m.done THEN m
                        ELSE IF over_load(m.h) THEN [h |-> m.h, done |-> FALSE]
                        ELSE insert(m.h, h.block[i].key)
           moved[i \in 0 .. cap(h)] ==
            IF i = 0 THEN [h |-> empty_set(newcap), done |-> TRUE]
            ELSE LET m == moved[i - 1]
                 IN  IF h.block[i].jump = 0 \/ ~m.done THEN m
                     ELSE IF over_load(m.h) THEN [h |-> m.h, done |-> FALSE]
                     ELSE insert(m.h, h.block[i].key)
<1>1. FiniteNatInductiveDefConclusion(moved, c, Def, 0, N)
  <2>1. FiniteNatInductiveDefHypothesis(moved, c, Def, 0, N)
    BY DEF FiniteNatInductiveDefHypothesis
  <2>2. N \in Nat /\ 0 \in Nat
    OBVIOUS
  <2> HIDE DEF moved, c, Def, N
  <2> QED BY <2>1, <2>2, FiniteNatInductiveDef
<1>2. moved = [i \in 0 .. N |-> IF i = 0 THEN c ELSE Def(moved[i - 1], i)]
  BY <1>1 DEF FiniteNatInductiveDefConclusion
<1>3. fixedset_resize(h, newcap) = moved[N]
  BY DEF fixedset_resize
<1> HIDE DEF moved
<1>4. ASSUME NEW i \in 1 .. N PROVE moved[i] = ResizeStep(h, moved[i - 1], i)
  <2>1. i \in 0 .. N /\ i # 0
    OBVIOUS
  <2>2. Def(moved[i - 1], i) = ResizeStep(h, moved[i - 1], i)
    BY DEF ResizeStep
  <2> HIDE DEF c, N, Def
  <2>3. moved[i] = Def(moved[i - 1], i)
    BY <1>2, <2>1, Zenon
  <2> QED BY <2>2, <2>3
<1>5. moved[0] = c
  BY <1>2
<1> QED BY <1>3, <1>4, <1>5

(* fixedset_resize keeps the keys and ends. *)
LEMMA ResizeIs ==
    ASSUME khash \in [Keys -> Nat], NEW c \in Nat, c > 2 * LOAD, NEW M, NEW h, Table(h, c, M),
           Load(h.size, c), NEW N \in Nat, c <= N
    PROVE  LET r == fixedset_resize(h, N) IN r.done = TRUE /\ Table(r.h, N, M)
<1>0. PICK L \in Nat \ {0} : L = LOAD
  BY FixedSetAssumption
<1>1. c \in Nat \ {0} /\ N \in Nat \ {0}
  BY <1>0
<1>2. /\ cap(h) = c /\ h.block \in [1 .. c -> Entry] /\ h.size \in Nat /\ DOMAIN h.block = 1 .. c
  BY <1>1, CapIs DEF Table
<1>3. /\ Home(h.block, c) /\ Once(h.block, c) /\ KeysIn(h.block) = M
      /\ IsFiniteSet(M) /\ Cardinality(M) = h.size
  BY DEF Table, Block
<1>4. h.size < c
  BY <1>2, NotFull
<1>5. PICK f : /\ fixedset_resize(h, N) = f[c]
               /\ f[0] = [h |-> empty_set(N), done |-> TRUE]
               /\ \A i \in 1 .. c : f[i] = ResizeStep(h, f[i - 1], i)
  <2>1. cap(h) \in Nat
    BY <1>2
  <2>2. \E f : /\ fixedset_resize(h, N) = f[cap(h)]
               /\ f[0] = [h |-> empty_set(N), done |-> TRUE]
               /\ \A i \in 1 .. cap(h) : f[i] = ResizeStep(h, f[i - 1], i)
    BY <2>1, Resized
  <2> QED BY <1>2, <2>2
<1> DEFINE b == h.block
           P(i) == f[i].done = TRUE /\ Table(f[i].h, N, KeysUpTo(b, i))
           S == {i \in Nat : i <= c => P(i)}
<1>6. 0 \in S
  <2>1. KeysUpTo(b, 0) = {}
    BY <1>2 DEF KeysUpTo, Used
  <2>2. PICK e : e = empty_set(N)
    OBVIOUS
  <2>3. e = [block |-> empty_set(N).block, size |-> 0, maxjump |-> 0] /\ 0 \in 0 .. N
    BY <2>2 DEF empty_set
  <2>4. Table(e, N, {})
    BY <2>3, <1>1, EmptyTable
  <2>5. f[0].done = TRUE /\ f[0].h = e
    BY <1>5, <2>2
  <2> QED BY <2>1, <2>4, <2>5
<1>7. ASSUME NEW n \in Nat, n \in S PROVE n + 1 \in S
  <2> HIDE DEF P
  <2> SUFFICES ASSUME n + 1 <= c PROVE P(n + 1)
    BY <1>7
  <2> USE DEF P
  <2>1. PICK m : m = f[n]
    OBVIOUS
  <2>2. m.done = TRUE /\ Table(m.h, N, KeysUpTo(b, n))
    BY <1>7, <2>1
  <2>3. PICK i \in 1 .. c : i = n + 1
    OBVIOUS
  <2>4. f[n + 1] = ResizeStep(h, m, i)
    <3>1. i - 1 = n
      BY <2>3
    <3> QED BY <3>1, <2>1, <2>3, <1>5
  <2>5. CASE b[i].jump = 0
    <3>1. ResizeStep(h, m, i) = m
      BY <2>5 DEF ResizeStep
    <3>2. i \notin Used(b) /\ Used(b) \subseteq Nat
      BY <2>5, <1>2 DEF Used
    <3>3. {y \in Used(b) : y <= n + 1} = {y \in Used(b) : y <= n}
      BY <3>2, <2>3
    <3>4. KeysUpTo(b, n + 1) = KeysUpTo(b, n)
      BY <3>3 DEF KeysUpTo
    <3> QED BY <2>2, <2>4, <3>1, <3>4
  <2>6. CASE b[i].jump # 0
    <3>1. PICK k : k = b[i].key
      OBVIOUS
    <3>2. i \in Used(b) /\ k \in Keys /\ Used(b) \subseteq Nat /\ Used(b) \subseteq 1 .. c
      BY <2>6, <3>1, <1>2, <1>3 DEF Used, Home
    <3>3. k \notin KeysUpTo(b, n)
      <4>1. SUFFICES ASSUME NEW x \in Used(b), x <= n, b[x].key = k PROVE FALSE
        BY DEF KeysUpTo
      <4>2. x = i
        BY <4>1, <3>1, <3>2, <2>6, <1>2, <1>3 DEF Once, Used
      <4> QED BY <4>1, <4>2, <2>3
    <3>4. KeysUpTo(b, n + 1) = KeysUpTo(b, n) \cup {k}
      <4>1. {y \in Used(b) : y <= n + 1} = {y \in Used(b) : y <= n} \cup {i}
        BY <3>2, <2>3
      <4> QED BY <4>1, <3>1 DEF KeysUpTo
    <3>5. KeysUpTo(b, n) \cup {k} \subseteq M
      BY <3>1, <3>2, <1>3 DEF KeysUpTo, KeysIn
    <3>6. /\ IsFiniteSet(KeysUpTo(b, n)) /\ Cardinality(KeysUpTo(b, n)) = m.h.size
          /\ m.h \in Sets(N)
      BY <2>2 DEF Table
    <3>7. m.h.size \in Nat /\ cap(m.h) = N
      BY <3>6, <1>1, CapIs
    <3>8. Cardinality(KeysUpTo(b, n) \cup {k}) = m.h.size + 1
      BY <3>3, <3>6, FS_AddElement
    <3>9. m.h.size + 1 <= h.size
      BY <3>5, <3>8, <1>3, FS_Subset
    <3>10. ~over_load(m.h)
      <4>1. PICK s, t \in Nat : s = m.h.size /\ t = h.size - 1 /\ s <= t
        BY <3>7, <3>9, <1>2
      <4>2. s \div L \in Nat /\ t \div L \in Nat /\ s \div L <= t \div L
        <5>1. L <= L
          OBVIOUS
        <5> QED BY <4>1, <5>1, DivGrows
      <4>3. t + t \div L <= c
        BY <4>1, <3>9, <3>7, <1>0, <1>2 DEF Load
      <4>4. s + s \div L <= N
        BY <4>1, <4>2, <4>3
      <4>5. s + s \div L \in Nat
        BY <4>2
      <4>6. ~(s + s \div L > N)
        BY <4>4, <4>5
      <4> QED BY <4>1, <4>6, <3>7, <1>0 DEF over_load
    <3>11. m.h.size < N
      BY <3>7, <3>9, <1>2, <1>4
    <3>12. ResizeStep(h, m, i) = insert(m.h, k)
      BY <2>2, <2>6, <3>1, <3>10 DEF ResizeStep
    <3>13. insert(m.h, k).done = TRUE /\ Table(insert(m.h, k).h, N, KeysUpTo(b, n) \cup {k})
      BY <2>2, <3>2, <3>11, <1>1, InsertIs
    <3> QED BY <2>4, <3>4, <3>12, <3>13
  <2> QED BY <2>5, <2>6
<1> HIDE DEF S
<1>8. \A i \in Nat : i \in S
  BY <1>6, <1>7, SetInduction
<1>9. f[c].done = TRUE /\ Table(f[c].h, N, KeysUpTo(b, c))
  BY <1>8 DEF S
<1>10. KeysUpTo(b, c) = M
  <2>1. {y \in Used(b) : y <= c} = Used(b)
    BY <1>2 DEF Used
  <2> QED BY <2>1, <1>3 DEF KeysUpTo, KeysIn
<1> QED BY <1>5, <1>9, <1>10

(* The end of the run of entries that move back. *)
LEMMA RunEnds ==
    ASSUME NEW c \in Nat \ {0}, NEW b \in [1 .. c -> Entry], NEW p \in Nat,
           NEW z \in 1 .. c, b[z].jump = 0,
           NEW R, R = CHOOSE n \in 0 .. c :
                        /\ stops(b[At(c, p + n + 1)])
                        /\ \A m \in 1 .. n : ~stops(b[At(c, p + m)])
    PROVE  R \in 0 .. c - 1 /\ b[At(c, p + (R + 1))].jump < 2
           /\ \A m \in 1 .. R : b[At(c, p + m)].jump >= 2
<1> DEFINE T == {n \in Nat : stops(b[At(c, p + n + 1)])}
           Ends(n) == /\ stops(b[At(c, p + n + 1)])
                      /\ \A m \in 1 .. n : ~stops(b[At(c, p + m)])
<1>1. PICK q \in Nat : q = p + 1
  OBVIOUS
<1>2. PICK n \in 0 .. c - 1 : At(c, q + n) = z
  BY ONLY AtReach, c \in Nat \ {0}, q \in Nat, z \in 1 .. c
<1>3. n \in T /\ n \in Nat
  <2>1. p + n + 1 = q + n
    BY <1>1
  <2> QED BY <2>1, <1>2 DEF stops
<1>4. PICK x \in T : \A y \in T : x <= y
  <2>1. T \in SUBSET Nat /\ T # {}
    BY <1>3
  <2> HIDE DEF T
  <2> QED BY <2>1, LeastNumber
<1>5. x \in 0 .. c - 1 /\ x <= n
  BY <1>3, <1>4
<1>6. Ends(x)
  <2>1. ASSUME NEW m \in 1 .. x PROVE ~stops(b[At(c, p + m)])
    <3>1. SUFFICES ASSUME stops(b[At(c, p + m)]) PROVE FALSE
      OBVIOUS
    <3>2. m - 1 \in Nat /\ p + (m - 1) + 1 = p + m
      OBVIOUS
    <3>3. m - 1 \in T
      BY <3>1, <3>2
    <3>4. x <= m - 1
      BY <3>3, <1>4
    <3>5. x \in Nat /\ m \in 1 .. x
      BY <1>5
    <3> HIDE DEF T, Ends
    <3> QED BY <3>4, <3>5
  <2> QED BY <2>1, <1>4
<1>7. x \in 0 .. c
  BY <1>5
<1> HIDE DEF Ends
<1>8. R = CHOOSE y \in 0 .. c : Ends(y)
  BY DEF Ends
<1>9. R \in 0 .. c /\ Ends(R)
  BY <1>6, <1>7, <1>8
<1>10. R # c
  <2>1. SUFFICES ASSUME R = c PROVE FALSE
    OBVIOUS
  <2>2. x + 1 \in 1 .. R /\ p + (x + 1) = p + x + 1
    <3>1. x \in 0 .. c - 1
      BY <1>5
    <3>2. x + 1 \in 1 .. c /\ p + (x + 1) = p + x + 1
      BY <3>1
    <3> QED BY <2>1, <3>2
  <2>3. ~stops(b[At(c, p + (x + 1))])
    BY <2>2, <1>9 DEF Ends
  <2> QED BY <2>2, <2>3, <1>4
<1>11. R \in 0 .. c - 1 /\ p + R + 1 = p + (R + 1)
  BY <1>9, <1>10
<1>12. \A m \in 1 .. R : b[At(c, p + m)].jump >= 2
  <2> SUFFICES ASSUME NEW m \in 1 .. R PROVE b[At(c, p + m)].jump >= 2
    OBVIOUS
  <2>1. p + m \in Nat
    BY <1>9
  <2>2. At(c, p + m) \in 1 .. c
    BY <2>1, AtType
  <2>3. b[At(c, p + m)].jump \in Nat
    BY <2>2, EntryIs
  <2> QED BY <2>3, <1>9 DEF Ends, stops
<1>13. b[At(c, p + (R + 1))].jump < 2
  BY <1>9, <1>11 DEF Ends, stops
<1> QED BY <1>11, <1>12, <1>13

(* The block that fixedset_remove leaves. *)
LEMMA MovedIs ==
    ASSUME NEW c \in Nat \ {0}, NEW h \in Sets(c), NEW p \in Nat, NEW R \in 0 .. c - 1,
           \A m \in 1 .. R : h.block[At(c, p + m)].jump >= 2,
           NEW d, d = [i \in 1 .. cap(h) |->
                         CASE i = entry_n(h, p + R) -> NoEntry
                           [] \E m \in 0 .. R - 1 : i = entry_n(h, p + m) ->
                                [jump |-> h.block[entry_n(h, i)].jump - 1,
                                 key |-> h.block[entry_n(h, i)].key]
                           [] OTHER -> h.block[i]]
    PROVE  MovedBack(d, h.block, c, p, R)
<1>1. /\ cap(h) = c /\ \A i : entry_n(h, i) = At(c, i)
      /\ h.block \in [1 .. c -> Entry]
  BY CapIs
<1>2. NoEntry \in Entry /\ NoEntry.jump = 0
  BY DEF NoEntry, Entry
<1> DEFINE b == h.block
           back(i) == [jump |-> b[At(c, i)].jump - 1, key |-> b[At(c, i)].key]
<1>3. /\ DOMAIN d = 1 .. c
      /\ \A i \in 1 .. c : d[i] = CASE i = At(c, p + R) -> NoEntry
                                    [] \E m \in 0 .. R - 1 : i = At(c, p + m) -> back(i)
                                    [] OTHER -> b[i]
  <2>1. d = [i \in 1 .. c |->
                         CASE i = At(c, p + R) -> NoEntry
                           [] \E m \in 0 .. R - 1 : i = At(c, p + m) -> back(i)
                           [] OTHER -> b[i]]
    BY <1>1
  <2> HIDE DEF back, b
  <2> QED BY <2>1, Zenon
<1>4. d = [i \in 1 .. c |-> d[i]]
  BY <1>1
<1> HIDE DEF back
<1>5. ASSUME NEW m \in 0 .. R - 1
      PROVE  /\ At(c, p + m) \in 1 .. c /\ At(c, p + m) # At(c, p + R)
             /\ d[At(c, p + m)] = back(At(c, p + m))
  <2>1. p + m \in Nat /\ m \in 0 .. c - 1 /\ R \in 0 .. c - 1 /\ m # R
    OBVIOUS
  <2>2. At(c, p + m) \in 1 .. c /\ At(c, p + m) # At(c, p + R)
    BY <2>1, AtType, AtDistinct
  <2> QED BY <2>2, <1>3
<1>6. ASSUME NEW m \in 0 .. R - 1
      PROVE  /\ At(c, At(c, p + m)) = At(c, p + (m + 1))
             /\ b[At(c, p + (m + 1))].jump >= 2 /\ At(c, p + (m + 1)) \in 1 .. c
  <2>1. PICK y \in Nat : y = p + m
    OBVIOUS
  <2>2. p + (m + 1) = y + 1 /\ m + 1 \in 1 .. R /\ y + 1 \in Nat
    BY <2>1
  <2>3. At(c, At(c, y)) = At(c, y + 1) /\ At(c, y + 1) \in 1 .. c
    BY <2>2, AtNext, AtType
  <2> QED BY <2>1, <2>2, <2>3
<1>7. ASSUME NEW m \in 0 .. R - 1
      PROVE  /\ d[At(c, p + m)].jump = b[At(c, p + (m + 1))].jump - 1
             /\ d[At(c, p + m)].key = b[At(c, p + (m + 1))].key
             /\ d[At(c, p + m)] \in Entry
  <2>1. PICK e : e = b[At(c, p + (m + 1))]
    OBVIOUS
  <2>2. e.jump \in Nat /\ e.key \in Keys \cup {NoKey} /\ e.jump >= 2
    BY <2>1, <1>1, <1>6, EntryIs
  <2>3. d[At(c, p + m)] = [jump |-> e.jump - 1, key |-> e.key]
    BY <2>1, <1>5, <1>6 DEF back
  <2>4. e.jump - 1 \in Nat
    BY <2>2
  <2>5. [jump |-> e.jump - 1, key |-> e.key] \in Entry
    BY <2>2, <2>4 DEF Entry
  <2>6. d[At(c, p + m)].jump = e.jump - 1 /\ d[At(c, p + m)].key = e.key
    BY <2>3
  <2> QED BY <2>1, <2>3, <2>5, <2>6
<1>8. At(c, p + R) \in 1 .. c /\ d[At(c, p + R)] = NoEntry
  <2>1. p + R \in Nat
    OBVIOUS
  <2>2. At(c, p + R) \in 1 .. c
    BY <2>1, AtType
  <2>3. ~\E m \in 0 .. R - 1 : At(c, p + R) = At(c, p + m)
    BY <1>5
  <2> QED BY <2>2, <2>3, <1>3
<1>9. ASSUME NEW i \in 1 .. c, \A m \in 0 .. R : i # At(c, p + m) PROVE d[i] = b[i]
  <2>1. R \in 0 .. R /\ \A m \in 0 .. R - 1 : m \in 0 .. R
    OBVIOUS
  <2> QED BY <2>1, <1>3, <1>9
<1>10. ASSUME NEW i \in 1 .. c PROVE d[i] \in Entry
  <2>1. CASE i = At(c, p + R)
    BY <2>1, <1>2, <1>8
  <2>2. ASSUME NEW m \in 0 .. R - 1, i = At(c, p + m) PROVE d[i] \in Entry
    BY <2>2, <1>7
  <2>3. CASE i # At(c, p + R) /\ \A m \in 0 .. R - 1 : i # At(c, p + m)
    <3>1. \A m \in 0 .. R : i # At(c, p + m)
      <4> SUFFICES ASSUME NEW m \in 0 .. R PROVE i # At(c, p + m)
        OBVIOUS
      <4>1. m = R \/ m \in 0 .. R - 1
        OBVIOUS
      <4> QED BY <4>1, <2>3
    <3> QED BY <3>1, <1>1, <1>9
  <2> QED BY <2>1, <2>2, <2>3
<1>11. d \in [1 .. c -> Entry]
  BY <1>4, <1>10
<1> QED BY <1>2, <1>7, <1>8, <1>9, <1>11 DEF MovedBack

(* fixedset_remove of a key that is in the set. *)
LEMMA RemoveIs ==
    ASSUME khash \in [Keys -> Nat], NEW c \in Nat \ {0}, NEW M, NEW h, Table(h, c, M), h.size < c,
           NEW k \in M, NEW p \in Nat, NEW R \in 0 .. c - 1, NEW d,
           MovedBack(d, h.block, c, p, R), MayMove(h.block, c, p, R), h.block[At(c, p)].key = k,
           NEW g, g = [block |-> d, size |-> h.size - 1, maxjump |-> h.maxjump]
    PROVE  Table(g, c, M \ {k}) /\ g.size = h.size - 1
<1>1. /\ h.block \in [1 .. c -> Entry] /\ h.size \in Nat /\ h.maxjump \in 0 .. c /\ h.maxjump \in Nat
  BY CapIs DEF Table
<1>2. /\ Block(h.block, c) /\ \A i \in 1 .. c : h.block[i].jump <= h.maxjump
      /\ KeysIn(h.block) = M /\ IsFiniteSet(M) /\ Cardinality(M) = h.size
      /\ Cardinality(Used(h.block)) = h.size
  BY DEF Table, Bounded
<1>3. /\ Block(d, c) /\ KeysIn(d) = KeysIn(h.block) \ {h.block[At(c, p)].key}
      /\ At(c, p + R) \in Used(h.block) /\ Used(d) = Used(h.block) \ {At(c, p + R)}
      /\ \A i \in 1 .. c : d[i].jump <= h.maxjump
  <2>1. PICK b, mj : b = h.block /\ mj = h.maxjump
    OBVIOUS
  <2>2. /\ Block(b, c) /\ mj \in Nat /\ \A i \in 1 .. c : b[i].jump <= mj
        /\ MovedBack(d, b, c, p, R) /\ MayMove(b, c, p, R)
    BY <2>1, <1>1, <1>2
  <2>3. /\ Block(d, c) /\ KeysIn(d) = KeysIn(b) \ {b[At(c, p)].key}
        /\ At(c, p + R) \in Used(b) /\ Used(d) = Used(b) \ {At(c, p + R)}
        /\ \A i \in 1 .. c : d[i].jump <= mj
    BY <2>2, MovesBack
  <2> QED BY <2>1, <2>3
<1>4. KeysIn(d) = M \ {k}
  BY <1>2, <1>3
<1>5. IsFiniteSet(Used(h.block))
  <2>1. 1 \in Int /\ c \in Int
    OBVIOUS
  <2>2. IsFiniteSet(1 .. c)
    BY <2>1, FS_Interval
  <2>3. Used(h.block) \subseteq 1 .. c
    BY <1>1 DEF Used
  <2> QED BY <2>2, <2>3, FS_Subset
<1>6. Cardinality(Used(d)) = h.size - 1
  <2>1. PICK U, x : U = Used(h.block) /\ x = At(c, p + R)
    OBVIOUS
  <2>2. IsFiniteSet(U) /\ x \in U /\ Cardinality(U) = h.size /\ Used(d) = U \ {x}
    BY <2>1, <1>2, <1>3, <1>5
  <2>3. Cardinality(U \ {x}) = IF x \in U THEN Cardinality(U) - 1 ELSE Cardinality(U)
    BY <2>2, FS_RemoveElement
  <2> QED BY <2>2, <2>3
<1>7. IsFiniteSet(M \ {k}) /\ Cardinality(M \ {k}) = h.size - 1
  <2>1. PICK U, x : U = M /\ x = k
    OBVIOUS
  <2>2. IsFiniteSet(U) /\ x \in U /\ Cardinality(U) = h.size
    BY <2>1, <1>2
  <2>3. /\ IsFiniteSet(U \ {x})
        /\ Cardinality(U \ {x}) = IF x \in U THEN Cardinality(U) - 1 ELSE Cardinality(U)
    BY <2>2, FS_RemoveElement
  <2> QED BY <2>1, <2>2, <2>3
<1>8. h.size - 1 \in Nat
  BY <1>7, FS_CardinalityType
<1>9. d \in [1 .. c -> Entry]
  BY DEF MovedBack
<1>10. g \in Sets(c) /\ g.block = d /\ g.size = h.size - 1 /\ g.maxjump = h.maxjump
  BY <1>1, <1>8, <1>9 DEF Sets
<1> QED BY <1>3, <1>4, <1>6, <1>7, <1>10 DEF Table, Bounded

-----------------------------------------------------------------------------
(* The inductive invariant: the keys that were added and not removed are    *)
(* those of the block, each where a search finds it, and there were never   *)
(* more of them than leave an entry empty, where the loops come to an end.  *)
FInv ==
    /\ khash \in [Keys -> Nat] /\ placed = TRUE
    /\ \E c \in INITIAL_CAP .. MAX_CAP : Table(set, c, members) /\ Load(set.size, c)

(* A set of fewer keys is not over the load either. *)
LEMMA LoadDown ==
    ASSUME NEW n \in Nat, NEW m \in Nat, m <= n, NEW c \in Nat, Load(n, c)
    PROVE  Load(m, c)
<1>0. PICK L \in Nat \ {0} : L = LOAD
  BY FixedSetAssumption
<1>1. SUFFICES ASSUME m # 0 PROVE (m - 1) + (m - 1) \div LOAD <= c
  BY DEF Load
<1>2. PICK x, y \in Nat : x = m - 1 /\ y = n - 1 /\ x <= y
  BY <1>1
<1>3. x \div L \in Nat /\ y \div L \in Nat /\ x \div L <= y \div L
  <2>1. L <= L
    OBVIOUS
  <2> QED BY <1>2, <2>1, DivGrows
<1>4. y + y \div L <= c
  BY <1>0, <1>1, <1>2 DEF Load
<1> QED BY <1>0, <1>2, <1>3, <1>4

(* What the capacity of a set may be. *)
LEMMA CapRange ==
    ASSUME NEW c \in INITIAL_CAP .. MAX_CAP
    PROVE  c \in Nat /\ c \in Nat \ {0} /\ c > 2 * LOAD
<1>1. PICK L \in Nat \ {0} : L = LOAD
  BY FixedSetAssumption
<1>2. PICK a, z \in Nat : a = INITIAL_CAP /\ z = MAX_CAP /\ a > 2 * L
  BY <1>1, FixedSetAssumption
<1> QED BY <1>1, <1>2

(* The table of the next state. *)
LEMMA TableNext ==
    ASSUME khash' = khash, NEW c, NEW t, NEW M, set' = t, members' = M, Table(t, c, M)
    PROVE  Table(set, c, members)'
  BY DEF Table, Block, Home, Ordered, Probes

(* The invariant of the next state. *)
LEMMA NextInv ==
    ASSUME khash \in [Keys -> Nat], khash' = khash, placed' = TRUE,
           NEW c \in INITIAL_CAP .. MAX_CAP, NEW t, NEW M, set' = t, members' = M,
           Table(t, c, M), Load(t.size, c)
    PROVE  FInv'
<1>1. Table(set, c, members)'
  BY TableNext
<1>2. Load(set.size, c)'
  BY DEF Load
<1> QED BY <1>1, <1>2 DEF FInv

(* fixedset_upsert that does not fail. *)
LEMMA UpsertKeeps ==
    ASSUME FInv, NEW k \in Keys, upserted(k)
    PROVE  FInv'
<1>0. PICK L, G \in Nat \ {0} : L = LOAD /\ G = GROWTH /\ G <= L
  BY FixedSetAssumption
<1>1. khash \in [Keys -> Nat] /\ placed = TRUE /\ khash' = khash /\ members' = members \cup {k}
  BY DEF FInv, upserted
<1>2. PICK c \in INITIAL_CAP .. MAX_CAP : Table(set, c, members) /\ Load(set.size, c)
  BY DEF FInv
<1>3. c \in Nat /\ c \in Nat \ {0} /\ c > 2 * LOAD
  BY CapRange
<1>4. /\ cap(set) = c /\ set \in Sets(c) /\ set.size \in Nat
      /\ IsFiniteSet(members) /\ Cardinality(members) = set.size
  BY <1>2, <1>3, CapIs DEF Table
<1>5. PICK s \in Nat : s = set.size
  BY <1>4
<1>6. s < c
  BY <1>2, <1>3, <1>5, NotFull
<1>7. PICK N \in IF over_load(set) THEN new_caps(c) ELSE {c} :
        /\ N <= MAX_CAP
        /\ \E m \in {IF over_load(set) THEN fixedset_resize(set, N) ELSE [h |-> set, done |-> TRUE]} :
           \E r \in {insert(m.h, k)} : set' = r.h /\ placed' = (m.done /\ r.done)
  BY <1>4 DEF upserted
<1>8. PICK m, r : /\ m = IF over_load(set) THEN fixedset_resize(set, N) ELSE [h |-> set, done |-> TRUE]
                  /\ r = insert(m.h, k) /\ set' = r.h /\ placed' = (m.done /\ r.done)
  BY <1>7
<1>9. s \div L \in Nat
  <2>1. PICK q, e \in Nat : q = s \div L
    BY DivMod
  <2> QED BY <2>1
<1>10. /\ N \in Nat /\ N >= c /\ s + s \div L <= N
       /\ m.done = TRUE /\ Table(m.h, N, members)
  <2>1. CASE ~over_load(set)
    <3>1. N = c /\ m = [h |-> set, done |-> TRUE]
      BY <2>1, <1>7, <1>8
    <3>2. m.h = set /\ m.done = TRUE
      BY <3>1
    <3>3. ~(s + s \div L > c)
      BY <2>1, <1>0, <1>4, <1>5 DEF over_load
    <3>4. s + s \div L <= c
      BY <3>3, <1>3, <1>9
    <3> QED BY <3>1, <3>2, <3>4, <1>2, <1>3
  <2>2. CASE over_load(set)
    <3>1. N \in new_caps(c) /\ m = fixedset_resize(set, N)
      BY <2>2, <1>7, <1>8
    <3>2. s \div L \in Nat /\ c \div G \in Nat /\ s \div L <= c \div G
      <4>1. s <= c
        BY <1>3, <1>6
      <4> QED BY <4>1, <1>0, <1>3, DivGrows
    <3>3. PICK g \in Nat : g = c \div G
      BY <3>2
    <3>4. PICK x \in Int : x = c + g + c \div 2 - 1
      BY <1>3
    <3>5. N \in c + g .. x
      BY <3>1, <3>3, <3>4, <1>0 DEF new_caps
    <3>6. N \in Nat /\ N >= c + g
      BY <3>5, <1>3
    <3>7. N >= c /\ s + s \div L <= N
      BY <3>2, <3>3, <3>6, <1>3, <1>6
    <3>8. c <= N
      BY <3>6, <3>7, <1>3
    <3>9. fixedset_resize(set, N).done = TRUE /\ Table(fixedset_resize(set, N).h, N, members)
      BY <3>6, <3>8, <1>1, <1>2, <1>3, ResizeIs
    <3> QED BY <3>1, <3>6, <3>7, <3>9
  <2> QED BY <2>1, <2>2
<1>11. N \in INITIAL_CAP .. MAX_CAP /\ N \in Nat \ {0}
  <2>1. PICK a, z \in Nat : a = INITIAL_CAP /\ z = MAX_CAP
    BY FixedSetAssumption
  <2> QED BY <2>1, <1>3, <1>7, <1>10
<1>12. m.h.size = s
  BY <1>4, <1>5, <1>10 DEF Table
<1>13. PICK h : h = m.h
  OBVIOUS
<1>14. Table(h, N, members) /\ h.size < N /\ h.size = s
  BY <1>3, <1>6, <1>10, <1>12, <1>13
<1>15. /\ insert(h, k).done = TRUE
       /\ Table(insert(h, k).h, N, members \cup {k})
       /\ insert(h, k).h.size \in {h.size, h.size + 1}
  BY <1>1, <1>11, <1>14, InsertIs
<1>16. /\ r.done = TRUE /\ Table(r.h, N, members \cup {k})
       /\ r.h.size = s \/ r.h.size = s + 1
  BY <1>8, <1>13, <1>14, <1>15
<1>17. Load(s + 1, N) /\ Load(s, N)
  <2>1. s + 1 \in Nat /\ (s + 1) - 1 = s /\ s <= s + 1
    OBVIOUS
  <2>2. Load(s + 1, N)
    BY <2>1, <1>0, <1>10 DEF Load
  <2> QED BY <2>1, <2>2, <1>10, LoadDown
<1>18. Load(r.h.size, N)
  BY <1>16, <1>17
<1>19. placed' = TRUE
  BY <1>8, <1>10, <1>16
<1>20. PICK t, M : t = r.h /\ M = members \cup {k}
  OBVIOUS
<1>21. set' = t /\ members' = M /\ Table(t, N, M) /\ Load(t.size, N)
  BY <1>1, <1>8, <1>16, <1>18, <1>20
<1> QED BY <1>1, <1>11, <1>19, <1>21, NextInv

(* fixedset_remove. *)
LEMMA RemoveKeeps ==
    ASSUME FInv, NEW k \in Keys, fixedset_remove(k)
    PROVE  FInv'
<1>1. /\ khash \in [Keys -> Nat] /\ placed' = TRUE /\ khash' = khash /\ members' = members \ {k}
  BY DEF FInv, fixedset_remove
<1>2. PICK c \in INITIAL_CAP .. MAX_CAP : Table(set, c, members) /\ Load(set.size, c)
  BY DEF FInv
<1>3. c \in Nat /\ c \in Nat \ {0} /\ c > 2 * LOAD
  BY CapRange
<1>4. /\ cap(set) = c /\ set \in Sets(c) /\ set.size \in Nat /\ set.block \in [1 .. c -> Entry]
      /\ \A i : entry_n(set, i) = At(c, i)
  BY <1>2, <1>3, CapIs DEF Table
<1>5. fixedset_get(set, k) <=> k \in members
  BY <1>1, <1>2, <1>3, FindIs
<1>6. CASE k \notin members
  <2>1. set' = set
    BY <1>5, <1>6 DEF fixedset_remove
  <2>2. PICK t, M : t = set /\ M = members
    OBVIOUS
  <2>3. set' = t /\ members' = M /\ Table(t, c, M) /\ Load(t.size, c)
    BY <2>1, <2>2, <1>1, <1>2, <1>6
  <2> QED BY <2>3, <1>1, NextInv
<1>7. CASE k \in members
  <2>1. PICK n \in 1 .. c : /\ fixedset_find(set, k) = {khash[k] + n}
                            /\ set.block[At(c, khash[k] + n)].jump = n
                            /\ set.block[At(c, khash[k] + n)].key = k
    BY <1>1, <1>2, <1>3, <1>7, FindIs
  <2>2. PICK p \in Nat : p = khash[k] + n
    BY <1>1
  <2>3. Max(fixedset_find(set, k)) = p
    BY <2>1, <2>2 DEF Max
  <2>4. set.size < c
    BY <1>2, <1>3, <1>4, NotFull
  <2>5. PICK z \in 1 .. c : z \notin Used(set.block)
    BY <2>4, <1>2, <1>3, RoomIs
  <2>6. set.block[z].jump = 0
    BY <2>5, <1>4 DEF Used
  <2>7. PICK R : R = CHOOSE x \in 0 .. c :
                       /\ stops(set.block[At(c, p + x + 1)])
                       /\ \A y \in 1 .. x : ~stops(set.block[At(c, p + y)])
    OBVIOUS
  <2>8. /\ R \in 0 .. c - 1 /\ set.block[At(c, p + (R + 1))].jump < 2
        /\ \A y \in 1 .. R : set.block[At(c, p + y)].jump >= 2
    <3>1. PICK b : b = set.block
      OBVIOUS
    <3>2. /\ b \in [1 .. c -> Entry] /\ b[z].jump = 0
          /\ R = CHOOSE x \in 0 .. c :
                       /\ stops(b[At(c, p + x + 1)])
                       /\ \A y \in 1 .. x : ~stops(b[At(c, p + y)])
      BY <3>1, <2>6, <2>7, <1>4
    <3>3. R \in 0 .. c - 1 /\ b[At(c, p + (R + 1))].jump < 2
          /\ \A y \in 1 .. R : b[At(c, p + y)].jump >= 2
      BY <3>2, <1>3, RunEnds
    <3> QED BY <3>1, <3>3
  <2>9. R = CHOOSE x \in 0 .. cap(set) :
              /\ stops(set.block[entry_n(set, p + x + 1)])
              /\ \A y \in 1 .. x : ~stops(set.block[entry_n(set, p + y)])
    BY <2>7, <1>4
  <2>10. PICK d : d = [i \in 1 .. cap(set) |->
                         CASE i = entry_n(set, p + R) -> NoEntry
                           [] \E m \in 0 .. R - 1 : i = entry_n(set, p + m) ->
                                [jump |-> set.block[entry_n(set, i)].jump - 1,
                                 key |-> set.block[entry_n(set, i)].key]
                           [] OTHER -> set.block[i]]
    OBVIOUS
  <2>11. set' = [block |-> d, size |-> set.size - 1, maxjump |-> set.maxjump]
    BY <2>3, <2>9, <2>10, <1>5, <1>7 DEF fixedset_remove
  <2>12. MovedBack(d, set.block, c, p, R)
    BY <2>8, <2>10, <1>3, <1>4, MovedIs
  <2>13. MayMove(set.block, c, p, R) /\ set.block[At(c, p)].key = k
    <3>1. set.block[At(c, p)].jump # 0
      BY <2>1, <2>2
    <3> QED BY <3>1, <2>1, <2>2, <2>8 DEF MayMove
  <2>14. PICK t : t = [block |-> d, size |-> set.size - 1, maxjump |-> set.maxjump]
    OBVIOUS
  <2>15. Table(t, c, members \ {k}) /\ t.size = set.size - 1
    BY <2>4, <2>8, <2>12, <2>13, <2>14, <1>1, <1>2, <1>3, <1>7, RemoveIs
  <2>16. t.size \in Nat
    BY <2>15, <1>3, CapIs DEF Table
  <2>17. PICK s, v \in Nat : s = set.size /\ v = t.size
    BY <2>16, <1>4
  <2>18. v <= s /\ Load(s, c)
    BY <2>15, <2>17, <1>2
  <2>19. Load(t.size, c)
    BY <2>17, <2>18, <1>3, LoadDown
  <2>20. PICK M : M = members \ {k}
    OBVIOUS
  <2>21. set' = t /\ members' = M /\ Table(t, c, M)
    BY <2>11, <2>14, <2>15, <2>20, <1>1
  <2> QED BY <2>19, <2>21, <1>1, NextInv
<1> QED BY <1>6, <1>7

(* fixedset_clear. *)
LEMMA ClearKeeps ==
    ASSUME FInv, fixedset_clear
    PROVE  FInv'
<1>1. khash \in [Keys -> Nat] /\ placed' = TRUE /\ khash' = khash /\ members' = {}
  BY DEF FInv, fixedset_clear
<1>2. PICK c \in INITIAL_CAP .. MAX_CAP : Table(set, c, members) /\ Load(set.size, c)
  BY DEF FInv
<1>3. c \in Nat \ {0}
  BY CapRange
<1>4. cap(set) = c /\ set.maxjump \in 0 .. c
  BY <1>2, <1>3, CapIs DEF Table
<1>5. PICK t, mj : /\ t = [block |-> empty_set(c).block, size |-> 0, maxjump |-> mj]
                   /\ mj = set.maxjump
  OBVIOUS
<1>6. Table(t, c, {}) /\ set' = t /\ t.size = 0
  <2>1. mj \in 0 .. c
    BY <1>4, <1>5
  <2>2. Table(t, c, {})
    BY <2>1, <1>3, <1>5, EmptyTable
  <2> QED BY <2>2, <1>4, <1>5 DEF fixedset_clear
<1>7. Load(t.size, c)
  BY <1>6 DEF Load
<1>8. PICK M : M = {}
  OBVIOUS
<1> QED BY <1>1, <1>6, <1>7, <1>8, NextInv

(* Every operation of fixedset.c keeps the invariant: upserting, with and   *)
(* without growing, removing and clearing.                                  *)
THEOREM FixedSetInvariant == FSpec => []FInv
<1>1. FInit => FInv
  <2> SUFFICES ASSUME FInit PROVE FInv
    OBVIOUS
  <2>1. khash \in [Keys -> Nat] /\ placed = TRUE /\ members = {}
    BY FixedSetAssumption DEF FInit
  <2>2. INITIAL_CAP \in INITIAL_CAP .. MAX_CAP
    BY FixedSetAssumption
  <2>3. INITIAL_CAP \in Nat \ {0}
    BY <2>2, CapRange
  <2>4. /\ set = [block |-> empty_set(INITIAL_CAP).block, size |-> 0, maxjump |-> 0]
        /\ set.size = 0 /\ 0 \in 0 .. INITIAL_CAP
    BY <2>3 DEF FInit, empty_set
  <2>5. Table(set, INITIAL_CAP, {})
    BY <2>3, <2>4, EmptyTable
  <2>6. Load(set.size, INITIAL_CAP)
    BY <2>4 DEF Load
  <2> QED BY <2>1, <2>2, <2>5, <2>6 DEF FInv
<1>2. FInv /\ [FNext]_fvars => FInv'
  <2> SUFFICES ASSUME FInv, [FNext]_fvars PROVE FInv'
    OBVIOUS
  <2>1. ASSUME NEW k \in Keys, upserted(k) PROVE FInv'
    BY <2>1, UpsertKeeps
  <2>2. ASSUME NEW k \in Keys, fixedset_remove(k) PROVE FInv'
    BY <2>2, RemoveKeeps
  <2>3. CASE fixedset_clear
    BY <2>3, ClearKeeps
  <2>4. CASE UNCHANGED fvars
    <3>1. khash' = khash /\ placed' = placed /\ set' = set /\ members' = members
      BY <2>4 DEF fvars
    <3>2. khash \in [Keys -> Nat] /\ placed' = TRUE
      BY <3>1 DEF FInv
    <3>3. PICK c \in INITIAL_CAP .. MAX_CAP : Table(set, c, members) /\ Load(set.size, c)
      BY DEF FInv
    <3>4. PICK t, M : t = set /\ M = members
      OBVIOUS
    <3>5. set' = t /\ members' = M /\ Table(t, c, M) /\ Load(t.size, c)
      BY <3>1, <3>3, <3>4
    <3> QED BY <3>1, <3>2, <3>5, NextInv
  <2> QED BY <2>1, <2>2, <2>3, <2>4 DEF FNext, fixedset_upsert
<1> QED BY <1>1, <1>2, PTL DEF FSpec

(* The table is a set of the keys upserted and not removed, no insertion    *)
(* goes on for ever, and a search that stops at maxjump misses no key.      *)
THEOREM FixedSetIsASet == FSpec => []SetInv
<1>1. FInv => SetInv
  <2> SUFFICES ASSUME FInv PROVE SetInv
    OBVIOUS
  <2>1. khash \in [Keys -> Nat] /\ placed = TRUE
    BY DEF FInv
  <2>2. PICK c \in INITIAL_CAP .. MAX_CAP : Table(set, c, members)
    BY DEF FInv
  <2>3. c \in Nat \ {0}
    BY CapRange
  <2>4. /\ cap(set) = c /\ \A i : entry_n(set, i) = At(c, i)
        /\ set.block \in [1 .. c -> Entry] /\ set.maxjump \in 0 .. c /\ DOMAIN set.block = 1 .. c
    BY <2>2, <2>3, CapIs DEF Table
  <2>5. 0 .. c \subseteq 0 .. MAX_CAP
    <3>1. PICK a, z \in Nat : a = INITIAL_CAP /\ z = MAX_CAP
      BY FixedSetAssumption
    <3> QED BY <3>1
  <2>6. \A i \in 1 .. c : set.block[i].jump <= set.maxjump /\ set.block[i].jump \in Nat
    BY <2>2, <2>3, <2>4, EntryIs DEF Table, Bounded
  <2>7. FTypeOK
    <3>1. ASSUME NEW i \in 1 .. c
          PROVE  set.block[i] \in [jump : 0 .. MAX_CAP, key : Keys \cup {NoKey}]
      <4>1. set.block[i].jump \in 0 .. c
        BY <2>3, <2>4, <2>6
      <4>2. set.block[i].jump \in 0 .. MAX_CAP /\ set.block[i] \in Entry
        BY <4>1, <2>4, <2>5
      <4> QED BY <4>2 DEF Entry
    <3>2. cap(set) \in INITIAL_CAP .. MAX_CAP /\ set.maxjump \in 0 .. MAX_CAP
      BY <2>4, <2>5
    <3> QED BY <3>1, <3>2, <2>4 DEF FTypeOK
  <2>8. SetIsASet
    <3>1. \A k \in Keys : fixedset_get(set, k) <=> k \in members
      BY <2>1, <2>2, <2>3, FindIs
    <3>2. set.size = Cardinality(members) /\ set.size = Cardinality(Used(set.block))
      BY <2>2 DEF Table
    <3> QED BY <3>1, <3>2, <2>1 DEF SetIsASet, Used
  <2>9. RobinHood
    <3> SUFFICES ASSUME NEW i \in 1 .. c, set.block[i].jump # 0
                 PROVE  /\ entry_n(set, khash[set.block[i].key] + set.block[i].jump) = i
                        /\ set.block[i].jump <= set.maxjump
                        /\ \A j \in 1 .. set.block[i].jump - 1 :
                             set.block[entry_n(set, khash[set.block[i].key] + j)].jump >= j
      BY <2>4 DEF RobinHood
    <3>1. Home(set.block, c) /\ Ordered(set.block, c)
      BY <2>2 DEF Table, Block
    <3> QED BY <3>1, <2>4, <2>6 DEF Home, Ordered, Probes
  <2> QED BY <2>7, <2>8, <2>9 DEF SetInv
<1> QED BY <1>1, FixedSetInvariant, PTL

(* create_e164_pni_aci_triples tells an ACI to the clients that have sent   *)
(* it with its UAK, to all of them and to no others.                        *)
THEOREM TriplesAreFiltered == FSpec => []TriplesFiltered
<1>1. FInv => TriplesFiltered
  <2> SUFFICES ASSUME FInv, NEW r \in Records, NEW i \in {0, 1}
               PROVE  /\ triple(r, i).aci # 0 => r.found /\ r.uak # 0 /\ <<r.aci, r.uak>> \in members
                      /\ r.found /\ r.aci # 0 /\ r.uak # 0 /\ <<r.aci, r.uak>> \in members
                           => triple(r, i).aci = r.aci
                      /\ triple(r, i).pni # 0 => r.found /\ r.aci # 0
    BY DEF TriplesFiltered
  <2>1. khash \in [Keys -> Nat]
    BY DEF FInv
  <2>2. PICK c \in INITIAL_CAP .. MAX_CAP : Table(set, c, members)
    BY DEF FInv
  <2>3. c \in Nat \ {0}
    BY CapRange
  <2>4. \A k \in Keys : fixedset_get(set, k) <=> k \in members
    BY <2>1, <2>2, <2>3, FindIs
  <2>5. members \subseteq Keys
    <3>1. set.block \in [1 .. c -> Entry] /\ Home(set.block, c) /\ KeysIn(set.block) = members
      BY <2>2, <2>3, CapIs DEF Table, Block
    <3> QED BY <3>1 DEF KeysIn, Used, Home
  <2>6. r.found \in BOOLEAN
    BY DEF Records
  <2> DEFINE got == r.found /\ r.aci # 0
             pair == <<r.aci, IF got THEN r.uak ELSE i>>
             tell == got /\ pair \in Keys /\ fixedset_get(set, pair) /\ pair[2] # 0
  <2>7. triple(r, i) = [e164 |-> got, pni |-> IF got THEN r.pni ELSE 0, aci |-> IF tell THEN r.aci ELSE 0]
    BY DEF triple, add_aci
  <2>8. triple(r, i).pni = (IF got THEN r.pni ELSE 0) /\ triple(r, i).aci = (IF tell THEN r.aci ELSE 0)
    BY <2>7
  <2>9. got => pair = <<r.aci, r.uak>> /\ pair[2] = r.uak
    OBVIOUS
  <2>10. tell <=> got /\ <<r.aci, r.uak>> \in members /\ r.uak # 0
    BY <2>4, <2>5, <2>9
  <2> QED BY <2>6, <2>8, <2>10
<1> QED BY <1>1, FixedSetInvariant, PTL
=============================================================================
