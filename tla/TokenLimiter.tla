---------------------------- MODULE TokenLimiter ----------------------------
(***************************************************************************)
(* CosmosTokenRateLimiter: the permits of one account.  Its partition of   *)
(* the container holds a leaky bucket and, for every token that was handed *)
(* out and not yet used, what the token costs.  prepare and validate are   *)
(* chains of container operations; those of concurrent sessions            *)
(* interleave, any of them may fail, and items expire.                     *)
(***************************************************************************)
EXTENDS Integers, FiniteSetsExt, Functions

CONSTANTS
    Sessions, Tokens, NoToken,
    BUCKET_SIZE, LEAK_SCALAR, LEAK_DURATION,    \* RateLimitConfiguration
    MAX_DELETE,         \* MAX_COSMOS_BATCH_SIZE - 1
    MAX_TIME            \* bound on the clock, in seconds

ASSUME TokenLimiterAssumption ==
    /\ NoToken \notin Tokens /\ Tokens \subseteq Nat
    /\ {BUCKET_SIZE, LEAK_SCALAR, LEAK_DURATION} \subseteq Nat \ {0}

VARIABLES
    now,        \* the clock
    bucket,     \* the TokenBucket, or NoBucket
    costs,      \* the TokenCost of each token that has one
    op,         \* op[s]: the prepare or validate of a session
    ledger      \* what was charged and given up (not in the source)

limiter == <<now, bucket, costs, op, ledger>>

NoBucket == [amount |-> 0, ts |-> -1]
Idle     == [pc |-> "idle"]
Result(pc) == [pc |-> pc]

(* The ledger: how full the bucket should be; the tokens whose cost was     *)
(* charged, given up or expired, and those whose charge was refused in a    *)
(* response; and the tokens whose cost a token's cost includes.             *)
LimiterInit ==
    /\ now = 0 /\ bucket = NoBucket /\ costs = [t \in {} |-> 0]
    /\ op = [s \in Sessions |-> Idle]
    /\ ledger = [full |-> [amount |-> 0, ts |-> 0], settled |-> {}, refused |-> {},
                 includes |-> [t \in Tokens |-> {}]]

-----------------------------------------------------------------------------
(* Amounts are doubles in the source; here they are whole numbers, counted  *)
(* in permits / LEAK_DURATION.                                              *)
permits(n) == n * LEAK_DURATION
leaked(b, at) == Max({0, b.amount - (at - b.ts) * LEAK_SCALAR})

(* RateLimits.calculateBucketUtilization and checkOverage. *)
calculateBucketUtilization(b, at, delta) == leaked(b, at) + permits(delta)
(* Mutant: the bucket takes a permit more than it holds. *)
exceeds_late(amount) == amount > permits(BUCKET_SIZE + 1)
exceeds(amount) == amount > permits(BUCKET_SIZE)

(* advanceGcts: by as many seconds as the permits are multiples of the      *)
(* scalar, whatever the duration that the scalar is for.                    *)
advanceGcts(gcts, delta) == gcts + (delta + LEAK_SCALAR - 1) \div LEAK_SCALAR

(* calculateGcPermits and leakSince. *)
calculateGcPermits(b, at) ==
    IF at <= b.gcts THEN 0 ELSE ((at - b.gcts) \div LEAK_DURATION) * LEAK_SCALAR

(* garbageCollect goes through the tokens, oldest first, and takes those    *)
(* that the permits still allow, up to the size of a batch.                 *)
oldest(tokens) ==
    CHOOSE t \in tokens : \A u \in tokens :
        costs[t].ts < costs[u].ts \/ (costs[t].ts = costs[u].ts /\ t <= u)
taken(tokens, free, room) ==
    LET take[left \in SUBSET tokens, f \in 0 .. free, r \in 0 .. room] ==
            LET t == oldest(left)
            IN  IF left = {} \/ r = 0 THEN {}
                ELSE IF costs[t].cost <= f
                THEN {t} \cup take[left \ {t}, f - costs[t].cost, r - 1]
                ELSE take[left \ {t}, f, r]
    IN  take[tokens, free, room]

(* getTtl: how long a full bucket takes to leak. *)
getTtl == ((BUCKET_SIZE + LEAK_SCALAR - 1) \div LEAK_SCALAR) * LEAK_DURATION

sumOf(tokens) == FoldSet(LAMBDA t, sum : sum + costs[t].cost, 0, tokens)

-----------------------------------------------------------------------------
(* Writes of the bucket: every response that was read before is out of      *)
(* date, as its ETag shows.                                                 *)
stale(o) == IF o.pc \in {"list", "gc", "commit"} THEN [o EXCEPT !.fresh = FALSE] ELSE o
outdated(s, result) == [r \in Sessions |-> IF r = s THEN result ELSE stale(op[r])]

ends(s, pc) == op' = [op EXCEPT ![s] = Result(pc)]

(* prepare goes on after garbage collection. *)
goesOn(o) == [pc |-> "cost", now |-> o.now, delta |-> o.delta, old |-> o.old, new |-> o.new,
              bucket |-> o.bucket]

(* prepare *)
prepare(s, delta, old, new) ==
    op' = [op EXCEPT ![s] = [pc |-> "read", now |-> now, delta |-> delta, old |-> old, new |-> new]]

readBucket(s) ==
    /\ op[s].pc = "read"
    /\ IF bucket = NoBucket THEN op' = [op EXCEPT ![s].pc = "create"]
       ELSE op' = [op EXCEPT ![s] = [pc |-> "list", now |-> @.now, delta |-> @.delta,
                       old |-> @.old, new |-> @.new, bucket |-> bucket, fresh |-> TRUE]]
    /\ UNCHANGED <<now, bucket, costs, ledger>>

(* Another session may have created it meanwhile. *)
createBucket(s) ==
    /\ op[s].pc = "create"
    /\ LET b == [amount |-> 0, ts |-> op[s].now, gcts |-> op[s].now]
       IN  IF bucket # NoBucket THEN ends(s, "error") /\ UNCHANGED <<bucket, ledger>>
           ELSE /\ bucket' = b
                /\ ledger' = [ledger EXCEPT !.full = [amount |-> 0, ts |-> op[s].now]]
                /\ op' = [op EXCEPT ![s] = [pc |-> "list", now |-> @.now, delta |-> @.delta,
                              old |-> @.old, new |-> @.new, bucket |-> b, fresh |-> TRUE]]
    /\ UNCHANGED <<now, costs>>

(* tryGarbageCollect reads the tokens, all but the predecessor. *)
listTokens(s) ==
    /\ op[s].pc = "list"
    /\ LET free   == calculateGcPermits(op[s].bucket, op[s].now)
           tokens == DOMAIN costs \ {op[s].old}
           batch  == taken(tokens, free, MAX_DELETE)
       IN  IF batch = {} THEN op' = [op EXCEPT ![s] = goesOn(@)]
           ELSE op' = [op EXCEPT ![s] =
                    [pc |-> "gc", now |-> @.now, delta |-> @.delta, old |-> @.old, new |-> @.new,
                     bucket |-> [@.bucket EXCEPT !.gcts = IF batch = tokens THEN op[s].now
                                                          ELSE advanceGcts(@, sumOf(batch))],
                     fresh |-> @.fresh, batch |-> batch]]
    /\ UNCHANGED <<now, bucket, costs, ledger>>

(* The transaction that deletes the tokens and replaces the bucket. *)
gc_applies(s) == op[s].fresh /\ op[s].batch \subseteq DOMAIN costs

collectTokens(s) ==
    /\ op[s].pc = "gc"
    /\ IF gc_applies(s)
       THEN /\ bucket' = op[s].bucket
            /\ costs' = Restrict(costs, DOMAIN costs \ op[s].batch)
            /\ ledger' = [ledger EXCEPT !.settled = @ \cup op[s].batch]
            /\ op' = outdated(s, goesOn(op[s]))
       ELSE op' = [op EXCEPT ![s] = goesOn(@)] /\ UNCHANGED <<bucket, costs, ledger>>
    /\ UNCHANGED now

(* getNewTokenCost: the cost of the predecessor is added if it is unpaid. *)
getNewTokenCost(o) == o.delta + (IF o.old \in DOMAIN costs THEN costs[o.old].cost ELSE 0)

readCost(s) ==
    /\ op[s].pc = "cost"
    /\ LET cost == getNewTokenCost(op[s])
       IN  /\ IF \/ cost > BUCKET_SIZE
                 \/ cost > 0 /\ exceeds(calculateBucketUtilization(op[s].bucket, now, cost))
              THEN ends(s, "error")
              ELSE IF cost = 0 THEN ends(s, "ok")
              ELSE op' = [op EXCEPT ![s] = [pc |-> "store", new |-> @.new, now |-> @.now, cost |-> cost]]
           /\ ledger' = [ledger EXCEPT !.includes[op[s].new] =
                            {op[s].new} \cup IF op[s].old \in DOMAIN costs THEN ledger.includes[op[s].old] ELSE {}]
    /\ UNCHANGED <<now, bucket, costs>>

(* The answer to createItem may get lost. *)
storeCost(s) ==
    /\ op[s].pc = "store"
    /\ costs' = [t \in DOMAIN costs \cup {op[s].new} |->
                    IF t = op[s].new THEN [cost |-> op[s].cost, ts |-> op[s].now]
                    ELSE costs[t]]
    /\ \E pc \in {"ok", "error"} : ends(s, pc)
    /\ UNCHANGED <<now, bucket, ledger>>

(* validate *)
validate(s, token) == op' = [op EXCEPT ![s] = [pc |-> "lookup", token |-> token]]

lookup(s) ==
    /\ op[s].pc = "lookup"
    /\ IF op[s].token \notin DOMAIN costs THEN ends(s, "ok")
       ELSE op' = [op EXCEPT ![s] = [pc |-> "charge", token |-> @.token, now |-> now,
                                     cost |-> costs[@.token].cost]]
    /\ UNCHANGED <<now, bucket, costs, ledger>>

(* buildBucketUpdate *)
buildBucketUpdate(s) ==
    /\ op[s].pc = "charge"
    /\ LET amount == calculateBucketUtilization(bucket, op[s].now, op[s].cost)
       IN  IF bucket = NoBucket \/ exceeds(amount) THEN ends(s, "error")
           ELSE op' = [op EXCEPT ![s] =
                    [pc |-> "commit", token |-> @.token, now |-> @.now, cost |-> @.cost, fresh |-> TRUE,
                     bucket |-> [amount |-> amount, ts |-> @.now,
                                 gcts |-> advanceGcts(bucket.gcts, @.cost)]]]
    /\ UNCHANGED <<now, bucket, costs, ledger>>

(* Mutant: the bucket is replaced whether or not it has changed. *)
commits_always(s) == op[s].token \in DOMAIN costs
(* Only the bucket that was read is replaced, and the token must be there.  *)
commits(s) == op[s].fresh /\ op[s].token \in DOMAIN costs

(* The transaction of validate.  Its answer may get lost.  Whether a batch  *)
(* that does not apply is an error or a response is up to the container;    *)
(* validate reacts to errors and does not look into the response.           *)
commit(s) ==
    /\ op[s].pc = "commit"
    /\ IF commits(s)
       THEN /\ bucket' = op[s].bucket
            /\ costs' = Restrict(costs, DOMAIN costs \ {op[s].token})
            /\ ledger' = [ledger EXCEPT !.settled = @ \cup {op[s].token},
                            !.full = [amount |-> leaked(@, op[s].now) + permits(op[s].cost),
                                      ts |-> op[s].now]]
            /\ \E pc \in {"ok", "error"} : op' = outdated(s, Result(pc))
       ELSE /\ \/ ends(s, "error") /\ UNCHANGED ledger
               \/ ends(s, "ok") /\ ledger' = [ledger EXCEPT !.refused = @ \cup {op[s].token}]
            /\ UNCHANGED <<bucket, costs>>
    /\ UNCHANGED now

(* A container operation fails; garbage collection ignores that. *)
containerError(s) ==
    /\ op[s].pc \notin {"idle", "ok", "error"}
    /\ IF op[s].pc \in {"list", "gc"} THEN op' = [op EXCEPT ![s] = goesOn(@)] ELSE ends(s, "error")
    /\ UNCHANGED <<now, bucket, costs, ledger>>

tick == now < MAX_TIME /\ now' = now + 1 /\ UNCHANGED <<bucket, costs, op, ledger>>

(* The container deletes what has reached its time to live, counted here    *)
(* from the ts of the item; by its own clock that is the time of the last   *)
(* write or later.                                                          *)
expired(item) == item.ts + getTtl <= now

expireCost(t) ==
    /\ t \in DOMAIN costs /\ expired(costs[t])
    /\ costs' = Restrict(costs, DOMAIN costs \ {t})
    /\ ledger' = [ledger EXCEPT !.settled = @ \cup {t}]
    /\ UNCHANGED <<now, bucket, op>>

expireBucket ==
    /\ bucket # NoBucket /\ expired(bucket)
    /\ bucket' = NoBucket
    /\ op' = [s \in Sessions |-> stale(op[s])]
    /\ UNCHANGED <<now, costs, ledger>>

containerTime == tick \/ (\E t \in Tokens : expireCost(t)) \/ expireBucket

containerStep(s) ==
    \/ readBucket(s) \/ createBucket(s) \/ listTokens(s) \/ collectTokens(s) \/ readCost(s)
    \/ storeCost(s) \/ lookup(s) \/ buildBucketUpdate(s) \/ commit(s) \/ containerError(s)

-----------------------------------------------------------------------------
(* No charge gets lost: the bucket is as full as all charges make it, also  *)
(* when they raced with each other or with garbage collection; and a bucket *)
(* that expires has leaked all of them by then.                             *)
NoLostCharge ==
    /\ bucket # NoBucket => bucket.amount = ledger.full.amount /\ bucket.ts = ledger.full.ts
    /\ bucket = NoBucket => leaked(ledger.full, now) = 0

(* Charges and garbage collection spend one budget, as the comments on      *)
(* advanceGcts and calculateGcPermits have it: each of them leaves garbage  *)
(* collection as many permits less as it takes, or none.  This is so for a  *)
(* leak rate per second only, because advanceGcts counts in seconds.        *)
spent(s, n) ==
    calculateGcPermits(bucket', now) <= Max({0, calculateGcPermits(bucket, now) - n})
=============================================================================
