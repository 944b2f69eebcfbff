-------------------------- MODULE DiscoverySession --------------------------
(***************************************************************************)
(* The sessions of one account: WebSocketHandler, whose events extend one  *)
(* chain of futures, the EnclaveClient it drives, the token that           *)
(* enclave_rate_limit checks and issues (c/ratelimit), and the limiter.    *)
(* Clients may send their next message before the last one is answered,    *)
(* close at any time, and use any token they were given, in any session.   *)
(***************************************************************************)
EXTENDS TokenLimiter, Sequences, Bags

CONSTANTS
    Requests,           \* [prev, new, discard, token] as a client may send them
    MAX_SESSIONS,       \* bounds: sessions in all,
    MAX_PENDING         \* events in a chain

(* A request is a message, and so has no more than so many numbers. *)
ASSUME RequestsAssumption == \A req \in Requests : IsFiniteSet(req.new)

VARIABLES
    session,    \* session[s]: the handler, its client and its socket
    issued,     \* what the enclave put into each token
    received,   \* tokens that the client was sent
    answers,    \* answers that the client was sent
    started

vars == <<limiter, session, issued, received, answers, started>>

(* socket: can the server send; closed: the flag of the handler; client:    *)
(* the state of the EnclaveClient; keys: the enclave has the keys of the    *)
(* client; released: closeAsync was called; chain: events whose turn has    *)
(* not come or not ended, and ended: the close is among them; req, token:   *)
(* c->req and the token that was computed from it.                          *)
NoRequest == [prev |-> {}, new |-> {}]
Absent == [up |-> FALSE, socket |-> FALSE, closed |-> FALSE, client |-> "none",
           keys |-> FALSE, released |-> FALSE, chain |-> << >>, ended |-> FALSE, req |-> NoRequest, token |-> NoToken]

Init ==
    /\ LimiterInit
    /\ session = [s \in Sessions |-> Absent]
    /\ issued = [t \in {} |-> NoRequest] /\ received = {} /\ answers = {} /\ started = 0

-----------------------------------------------------------------------------
(* ratelimit_merge_e164s: both lists, sorted; the order is no matter. *)
merge_e164s(a, b) == SetToBag(a) (+) SetToBag(b)

(* ratelimit_compute_token: a token stands for its numbers; it can be       *)
(* forged by nobody without the secret.                                     *)
compute_token(a, b) == merge_e164s(a, b)

(* ratelimit_validate_received_rate_limit_token *)
validate_received_rate_limit_token(req) ==
    IF req.token = NoToken THEN req.prev = {}
    ELSE compute_token(req.prev, req.discard) = compute_token(issued[req.token].prev, issued[req.token].new)

-----------------------------------------------------------------------------
(* Events of the socket. *)
onOpen(s) ==
    /\ ~session[s].up /\ started < MAX_SESSIONS
    /\ session' = [session EXCEPT ![s] = [Absent EXCEPT !.up = TRUE, !.socket = TRUE, !.chain = <<"open">>]]
    /\ started' = started + 1
    /\ UNCHANGED <<limiter, issued, received, answers>>

onMessage(s) ==
    /\ session[s].socket /\ Len(session[s].chain) < MAX_PENDING
    /\ session' = [session EXCEPT ![s].chain = Append(@, "message")]
    /\ UNCHANGED <<limiter, issued, received, answers, started>>

(* The client goes away, or the server has closed the socket. *)
onClose(s) ==
    /\ session[s].up /\ ~session[s].ended
    /\ session' = [session EXCEPT ![s].chain = Append(@, "close"), ![s].ended = TRUE, ![s].socket = FALSE]
    /\ UNCHANGED <<limiter, issued, received, answers, started>>

(* Mutant: after an error the socket stays open. *)
closeWithError_open(h) == IF h.closed \/ h.client = "none" THEN h ELSE [h EXCEPT !.closed = TRUE]
(* A handler without a client closes nothing. *)
closeWithError(h) ==
    IF h.closed \/ h.client = "none" THEN h ELSE [h EXCEPT !.closed = TRUE, !.socket = FALSE]

done(h) == [h EXCEPT !.chain = Tail(@)]
(* Mutant: a stage that fails keeps those after it from running. *)
fails_for_good(h) == closeWithError(h)
(* exceptionally: the chain goes on after an error. *)
fails(h) == done(closeWithError(h))

(* The turn of an event, when no limiter operation is under way. *)
turn(s, event) == session[s].chain # << >> /\ Head(session[s].chain) = event /\ op[s] = Idle

(* The stage that onOpen has added: Enclave.newClient, and the report is    *)
(* sent; either may fail.                                                   *)
newClient(s) ==
    /\ turn(s, "open")
    /\ LET h == [session[s] EXCEPT !.client = "UNINITIALIZED"]
       IN  session' \in {[session EXCEPT ![s] = x] :
                            x \in {fails(session[s]), fails(h)} \cup IF h.socket THEN {done(h)} ELSE {}}
    /\ UNCHANGED <<limiter, issued, received, answers, started>>

(* A message before there is a client or after the last one, or a handshake *)
(* that fails in the enclave, or whose answer cannot be sent, or succeeds.  *)
handshake(s) ==
    /\ turn(s, "message") /\ session[s].client \in {"none", "UNINITIALIZED", "COMPLETE"}
    /\ LET h == [session[s] EXCEPT !.client = "ATTESTED"]
           k == [h EXCEPT !.keys = TRUE]
       IN  session' \in {[session EXCEPT ![s] = x] : x \in
              IF session[s].client # "UNINITIALIZED" THEN {fails(session[s])}
              ELSE {fails(h), fails(k)} \cup IF h.socket THEN {done(k)} ELSE {}}
    /\ UNCHANGED <<limiter, issued, received, answers, started>>

(* EnclaveClient.rateLimit and enclave_rate_limit.  The request is kept     *)
(* before its token is looked at, and stays if that fails; it is not kept   *)
(* if it cannot be read or there are no keys.  Otherwise the limiter begins *)
(* with a new token.                                                        *)
rateLimit(s) ==
    /\ turn(s, "message") /\ session[s].client = "ATTESTED"
    /\ LET h == [session[s] EXCEPT !.client = "RATELIMIT"]
           new == CHOOSE t \in Tokens : t \notin DOMAIN issued
       IN  \/ /\ session' = [session EXCEPT ![s] = fails(h)]
              /\ UNCHANGED <<op, issued>>
           \/ \E req \in Requests :
              /\ h.keys /\ req.token \in received \cup {NoToken}
              /\ LET kept == [h EXCEPT !.req = [prev |-> req.prev, new |-> req.new]]
                 IN  IF validate_received_rate_limit_token(req)
                     THEN /\ Tokens \ DOMAIN issued # {}
                          /\ session' = [session EXCEPT ![s] = [kept EXCEPT !.token = new]]
                          /\ issued' = [t \in DOMAIN issued \cup {new} |-> IF t = new
                                THEN [prev |-> req.prev, new |-> req.new, parent |-> req.token]
                                ELSE issued[t]]
                          /\ prepare(s, Cardinality(req.new), req.token, new)
                     ELSE /\ session' = [session EXCEPT ![s] = fails(kept)]
                          /\ UNCHANGED <<op, issued>>
    /\ UNCHANGED <<now, bucket, costs, ledger, received, answers, started>>

(* The end of prepare: the client gets its token. *)
sendToken(s) ==
    /\ op[s].pc \in {"ok", "error"} /\ session[s].client = "RATELIMIT"
    /\ op' = [op EXCEPT ![s] = Idle]
    /\ IF op[s].pc = "ok" /\ session[s].socket
       THEN /\ session' = [session EXCEPT ![s] = done(@)]
            /\ received' = received \cup {session[s].token}
       ELSE session' = [session EXCEPT ![s] = fails(@)] /\ UNCHANGED received
    /\ UNCHANGED <<now, bucket, costs, ledger, issued, answers, started>>

(* EnclaveClient.complete first has the limiter validate the token; if      *)
(* none was computed, the hash of no token.                                 *)
complete(s) ==
    /\ turn(s, "message") /\ session[s].client = "RATELIMIT"
    /\ session' = [session EXCEPT ![s].client = "COMPLETE"]
    /\ validate(s, session[s].token)
    /\ UNCHANGED <<now, bucket, costs, ledger, issued, received, answers, started>>

(* enclave_run, and the end of a session that has gone well; the query may  *)
(* fail, and nothing can be sent on a socket that is closed.                *)
run(s) ==
    /\ op[s].pc \in {"ok", "error"} /\ session[s].client = "COMPLETE"
    /\ op' = [op EXCEPT ![s] = Idle]
    /\ \/ /\ session' = [session EXCEPT ![s] = fails(@)] /\ UNCHANGED answers
       \/ /\ op[s].pc = "ok" /\ session[s].socket /\ session[s].req # NoRequest
          /\ answers' = answers \cup
               {[token |-> session[s].token, numbers |-> session[s].req.prev \cup session[s].req.new]}
          /\ session' = [session EXCEPT ![s] = [done(@) EXCEPT !.closed = TRUE, !.socket = FALSE]]
    /\ UNCHANGED <<now, bucket, costs, ledger, issued, received, started>>

(* Mutant: the client is only closed by a session that ended well. *)
releases_well(h) == h.client = "COMPLETE"
(* whenComplete: the client, if there is one, is closed in any case. *)
releases(h) == h.client # "none"

(* The stages that onClose has added. *)
close(s) ==
    /\ turn(s, "close")
    /\ session' = [session EXCEPT ![s] =
                    [Absent EXCEPT !.client = session[s].client, !.released = releases(session[s]),
                                   !.chain = fails(session[s]).chain]]
    /\ UNCHANGED <<limiter, issued, received, answers, started>>

step(s) ==
    \/ newClient(s) \/ handshake(s) \/ rateLimit(s) \/ sendToken(s) \/ complete(s) \/ run(s) \/ close(s)
    \/ containerStep(s) /\ UNCHANGED <<session, issued, received, answers, started>>

Next ==
    \/ \E s \in Sessions : onOpen(s) \/ onMessage(s) \/ onClose(s) \/ step(s)
    \/ containerTime /\ UNCHANGED <<session, issued, received, answers, started>>

(* Futures complete, and a socket that is closed is reported to the handler. *)
Fairness == \A s \in Sessions :
    WF_vars(step(s)) /\ WF_vars(~session[s].socket /\ onClose(s))

Spec == Init /\ [][Next]_vars /\ Fairness

-----------------------------------------------------------------------------
(* The shape of the state. *)
TypeOK ==
    /\ DOMAIN costs \subseteq DOMAIN issued /\ received \subseteq DOMAIN issued
    /\ bucket # NoBucket => bucket.amount \in 0 .. permits(BUCKET_SIZE)
    /\ \A s \in Sessions : op[s] # Idle => session[s].up /\ session[s].chain[1] = "message"

(* Every number in an answer was new in the request or in one of those that *)
(* its token goes back to, and no answer escapes validate: what that token  *)
(* cost, alone or as part of the cost of a later token, has been charged,   *)
(* given up by garbage collection or expired, or a charge of it was tried   *)
(* and refused by the container in its response.                            *)
closed(S) == \A t \in S : issued[t].parent \in S \cup {NoToken}
lineage(t) == {u \in DOMAIN issued : \A S \in SUBSET DOMAIN issued : t \in S /\ closed(S) => u \in S}
Settled(t) == \E u \in ledger.settled : t \in ledger.includes[u]
cleared == ledger.settled \cup ledger.refused
Cleared(t) == \E u \in cleared : t \in ledger.includes[u]
AnswersPaid ==
    \A a \in answers : \A n \in a.numbers :
        a.token # NoToken /\ \E t \in lineage(a.token) : n \in issued[t].new /\ Cleared(t)

(* The client of a session that is over is closed, and no operation of it   *)
(* is under way or still to come.                                           *)
ClientReleased ==
    \A s \in Sessions : ~session[s].up =>
        /\ session[s].client # "none" => session[s].released
        /\ op[s] = Idle /\ session[s].chain = << >>

(* The shape of the state, and that no session leaves anything behind. *)
SessionInv == TypeOK /\ ClientReleased

(* The steps that are left of an operation of the limiter at most, its end  *)
(* included, and of all events in the chain of a session.                   *)
stepsOf(pc) ==
    CASE pc = "idle" -> 8
      [] pc = "read" -> 7
      [] pc = "create" -> 6
      [] pc = "list" -> 5
      [] pc \in {"gc", "lookup"} -> 4
      [] pc \in {"cost", "charge"} -> 3
      [] pc \in {"store", "commit"} -> 2
      [] OTHER -> 1
stepsLeft(s) ==
    IF session[s].chain = << >> THEN 0
    ELSE 8 * (Len(session[s].chain) - 1) + stepsOf(op[s].pc)

(* A session whose socket is closed comes to its end, whatever the other    *)
(* sessions do and whichever stages fail: as long as events are in its      *)
(* chain it can take a step, every step leaves it fewer, and once the close *)
(* is among the events there will be no others.                             *)
SessionsEnd ==
    /\ [](\A s \in Sessions : session[s].chain # << >> => ENABLED step(s))
    /\ [][\A s \in Sessions :
            /\ step(s) => stepsLeft(s)' < stepsLeft(s)
            /\ session[s].ended => stepsLeft(s)' <= stepsLeft(s)]_vars
=============================================================================
