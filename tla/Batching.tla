------------------------------ MODULE Batching ------------------------------
(***************************************************************************)
(* c/sharded_ohtable: how a batch of records or keys is spread over the    *)
(* shards, and how the answers of the shards are put together.  Each shard *)
(* gets the same number of requests, so that the batches tell nothing of   *)
(* the keys.  The sorting network is a sort, ocompact a filter.            *)
(*                                                                         *)
(* hash is a function from keys to words; key 0 stands for no key.         *)
(***************************************************************************)
EXTENDS Division, ShardSet, Sequences, FiniteSetsExt

CONSTANTS
    NoData,             \* what a request carries besides its key
    QueryKeys,          \* keys in a batch
    QueryHashes,        \* hashes of the keys in a batch
    MAX_QUERIES         \* bound: the keys in a batch

(* A table has several shards, and far fewer of them than there are hashes. *)
ASSUME BatchingAssumption ==
    /\ 2 <= NUM_SHARDS /\ 2 * NUM_SHARDS < U64
    /\ QueryKeys \subseteq 0 .. U64 - 2 /\ QueryHashes \subseteq 0 .. U64 - 1
    /\ MAX_QUERIES \in Nat

NilKey == U64 - 1

(* _create: the hash range of a shard. *)
step_size == (U64 - 1) \div NUM_SHARDS

(* sharded_ohtable_create and Shard::contains: the last shard ends with the *)
(* last word but one.                                                       *)
lb(sh) == sh * step_size
ub(sh) == IF sh = NUM_SHARDS - 1 THEN U64 - 1 ELSE (sh + 1) * step_size
contains(sh, h) == lb(sh) <= h /\ h < ub(sh)

(* batch_queries and the first step of prepare_query_batches. *)
shard_id(h) == ct_div(h, step_size)
client_requests(queries, hash) ==
    [i \in DOMAIN queries |-> [shard |-> shard_id(hash[queries[i].key]), flag |-> 0, pos |-> i,
                               key |-> queries[i].key, data |-> queries[i].data]]

(* calculate_batch_size: what the fullest shard is asked, repeats included. *)
calculate_batch_size(queries, hash) ==
    Max({0} \cup {Cardinality({i \in DOMAIN queries : contains(sh, hash[queries[i].key])}) :
                    sh \in Shards})

(* The second step: b requests without a key for each shard. *)
dummies(b) ==
    [i \in 1 .. b * NUM_SHARDS |-> [shard |-> (i - 1) \div b, flag |-> 1, pos |-> 0,
                                    key |-> 0, data |-> NoData]]

(* A sequence that TLC evaluates once. *)
Evaluated(s) == s \o << >>

(* osort: the r-th entry is the one before which r - 1 belong; entries that *)
(* compare as equal stay in their order.                                    *)
osort(all, cmp(_, _)) ==
    LET rank == Evaluated([i \in DOMAIN all |->
                    Cardinality({j \in DOMAIN all : \/ cmp(all[j], all[i])
                                                    \/ j <= i /\ ~cmp(all[i], all[j])})])
    IN  Evaluated([r \in DOMAIN all |-> all[CHOOSE i \in DOMAIN all : rank[i] = r]])

(* Lexicographic order of tuples. *)
lexicographic(a, b) == \E i \in DOMAIN a : a[i] < b[i] /\ \A j \in 1 .. i - 1 : a[j] = b[j]

(* Mutant: repeats of a key are left in the order of the batch. *)
cmp_unstable(a, b, type) ==
    lexicographic(<<a.shard, a.flag, a.key, a.pos>>, <<b.shard, b.flag, b.key, b.pos>>)
(* cmp_shard_flag_key and cmp_stable_shard_flag_key: of records with one    *)
(* key, the last of the batch comes first.                                  *)
cmp_shard_flag_key(a, b, type) ==
    LET newest(r) == IF type = "insert" THEN -r.pos ELSE 0
    IN  lexicographic(<<a.shard, a.flag, a.key, newest(a)>>, <<b.shard, b.flag, b.key, newest(b)>>)

(* Which of the sorted requests stay: b for each shard, without repeats of  *)
(* a key, and the first for a shard in any case.                            *)
keep_request(prev, r, count, b) ==
    (count < b /\ ~(r.key # 0 /\ r.key = prev.key)) \/ r.shard # prev.shard

(* The pass over the sorted requests, and ocompact. *)
kept(all, b) ==
    LET pass[i \in 1 .. Len(all)] ==
            IF i = 1 THEN [count |-> 1, out |-> <<all[1]>>]
            ELSE LET p == pass[i - 1]
                     n == IF all[i].shard # all[i - 1].shard THEN 0 ELSE p.count
                 IN  IF keep_request(all[i - 1], all[i], n, b)
                     THEN [count |-> n + 1, out |-> Append(p.out, all[i])]
                     ELSE [count |-> n, out |-> p.out]
    IN  IF all = << >> THEN << >> ELSE pass[Len(all)].out

(* prepare_query_batches: the records for each shard. *)
prepare_query_batches(queries, hash, type) ==
    LET b   == calculate_batch_size(queries, hash)
        all == osort(client_requests(queries, hash) \o dummies(b),
                     LAMBDA r, s : cmp_shard_flag_key(r, s, type))
        out == kept(all, b)
    IN  [sh \in Shards |-> [i \in 1 .. b |-> [key |-> out[sh * b + i].key,
                                                data |-> out[sh * b + i].data]]]

-----------------------------------------------------------------------------
(* Mutant: the requests for a key before the answer. *)
cmp_key_request_first(a, b) ==
    LET last(r) == IF r.key = 0 THEN 1 ELSE 0
    IN  lexicographic(<<last(a), a.key, -a.flag>>, <<last(b), b.key, -b.flag>>)
(* cmp_key_flag: no key sorts last, an answer before the requests for it. *)
cmp_key_flag(a, b) ==
    LET last(r) == IF r.key = 0 THEN 1 ELSE 0
    IN  lexicographic(<<last(a), a.key, a.flag>>, <<last(b), b.key, b.flag>>)

(* The client's requests with the answers of the shards that did not fail,  *)
(* b of each; the rest of the array is zero.                                *)
merged(keys, answers, failed, b) ==
    LET sh(i) == (i - 1) \div b
        answer(i) == answers[sh(i)][((i - 1) % b) + 1]
    IN  [i \in DOMAIN keys |-> [key |-> keys[i], flag |-> 1, data |-> NoData]]
        \o [i \in 1 .. b * NUM_SHARDS |->
               IF sh(i) \in failed THEN [key |-> 0, flag |-> 0, data |-> NoData]
               ELSE [key |-> answer(i).key, flag |-> 0, data |-> answer(i).data]]

(* A request takes the record that its run of equal keys began with, which  *)
(* is an answer or, where there is none, the first request itself.          *)
do_copy(all, i, current) ==
    /\ all[i].flag = 1 /\ all[i].key = all[i - 1].key
    /\ current.key = all[i].key /\ current.key # 0

(* The pass that copies, and ocompact: the results in the order of keys. *)
copied(all) ==
    LET pass[i \in 1 .. Len(all)] ==
            IF i = 1 THEN [current |-> all[1],
                                 out |-> IF all[1].flag = 1
                                         THEN <<[key |-> NilKey, data |-> NoData]>> ELSE << >>]
            ELSE LET p == pass[i - 1]
                     c == IF all[i].key # all[i - 1].key THEN all[i] ELSE p.current
                 IN  [current |-> c,
                      out |-> IF all[i].flag = 0 THEN p.out
                              ELSE Append(p.out, IF do_copy(all, i, c)
                                                 THEN [key |-> all[i].key, data |-> c.data]
                                                 ELSE [key |-> NilKey, data |-> NoData])]
    IN  pass[Len(all)].out

(* extract_results_from_batch.  The error is that of the last shard, also   *)
(* when another one has failed.                                             *)
extract_results_from_batch(keys, answers, failed, b) ==
    [results |-> copied(osort(merged(keys, answers, failed, b), cmp_key_flag)),
     error |-> NUM_SHARDS - 1 \in failed]

-----------------------------------------------------------------------------
(* Every shard gets as many requests as any other, though keys repeat; each *)
(* key whose hash belongs to a shard is asked for once, there and nowhere   *)
(* else, and of the records that a batch inserts for it the last one is     *)
(* taken.  The few hashes past NUM_SHARDS * step_size belong to none.       *)
Complete(queries, hash, type) ==
    LET batches == prepare_query_batches(queries, hash, type)
        b       == calculate_batch_size(queries, hash)
        places(key) == {p \in Shards \X (1 .. b) : batches[p[1]][p[2]].key = key}
    IN  \A key \in {queries[i].key : i \in DOMAIN queries} \ {0} :
            LET own  == shard_id(hash[key])
                last == Max({i \in DOMAIN queries : queries[i].key = key})
            IN  IF hash[key] >= NUM_SHARDS * step_size THEN places(key) = {}
                ELSE /\ contains(own, hash[key])
                     /\ Cardinality(places(key)) = 1
                     /\ \A p \in places(key) :
                          /\ p[1] = own
                          /\ type = "insert" => batches[p[1]][p[2]].data = queries[last].data

(* A shard's answers: the record of a key that it has, or none. *)
answers_of(batch, present) ==
    [i \in DOMAIN batch |-> IF batch[i].key \in present
                             THEN [key |-> batch[i].key, data |-> batch[i].key]
                             ELSE [key |-> NilKey, data |-> NoData]]

(* The key of result i is that of an earlier result. *)
Repeated(sorted, i) == sorted[i] # 0 /\ \E h \in 1 .. i - 1 : sorted[h] = sorted[i]

(* A client's results, in the order of its keys: the record of a key that   *)
(* is in a shard which did not fail, also when the key is asked for twice,  *)
(* and nobody's record for any other key.  Of a key that is not found, the  *)
(* first result is the empty record and each later one has the key but no   *)
(* data: it is a copy of the first request.  An error is reported only of   *)
(* the last shard: what another shard could not look up is not found.       *)
Extracted(keys, hash) ==
    LET queries == [i \in DOMAIN keys |-> [key |-> keys[i], data |-> NoData]]
        b       == calculate_batch_size(queries, hash)
        batches == prepare_query_batches(queries, hash, "query")
        sorted  == osort(keys, LAMBDA k, l : k # 0 /\ (l = 0 \/ k < l))
    IN  \A present \in SUBSET (QueryKeys \ {0}), failed \in SUBSET Shards :
            LET results == extract_results_from_batch(keys,
                              [sh \in Shards |-> answers_of(batches[sh], present)], failed, b).results
            IN  /\ DOMAIN results = DOMAIN keys
                /\ \A i \in DOMAIN keys :
                      IF sorted[i] \in present /\ shard_id(hash[sorted[i]]) \in Shards \ failed
                      THEN results[i] = [key |-> sorted[i], data |-> sorted[i]]
                      ELSE results[i] = [key  |-> IF Repeated(sorted, i) THEN sorted[i] ELSE NilKey,
                                         data |-> NoData]

-----------------------------------------------------------------------------
(* The hash functions to check batches with. *)
BatchJobs == [what : {"batch"}, hash : [QueryKeys -> QueryHashes], type : {"insert", "query"}]

(* The keys of a batch. *)
KeySeqs(n) == UNION {[1 .. m -> QueryKeys] : m \in n .. MAX_QUERIES}

(* calculate_batch_size and prepare_query_batches: batches are complete.    *)
(* Batches of records tell their records apart by their data.               *)
BatchesComplete ==
    job \in BatchJobs => \A keys \in KeySeqs(0) :
        Complete([i \in DOMAIN keys |-> [key |-> keys[i], data |-> i]], job.hash, job.type)

(* extract_results_from_batch: answers come back to their keys.  A key that *)
(* is not found has one empty record, whose key is UINT64_MAX, however      *)
(* often it was asked for; for the other copies there is the key without    *)
(* data, although sharded_ohtable.h promises the empty record for each.     *)
ExtractSound ==
    job \in BatchJobs /\ job.type = "query" =>
        \A keys \in KeySeqs(1) : Extracted(keys, job.hash)

(* From the keys of a query to its answers: the batches are complete and of *)
(* one size, and what the shards found for them comes back to its key.      *)
BatchesAnswered == BatchesComplete /\ ExtractSound
=============================================================================
