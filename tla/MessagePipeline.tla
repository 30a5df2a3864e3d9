--------------------------- MODULE MessagePipeline ---------------------------
(***************************************************************************)
(* The life of a message from Transmite's SendMessage to the push queue.   *)
(*                                                                         *)
(* Transmite guards each (user, client_msg_id) with an idempotency key in  *)
(* Redis, publishes the message with a publisher confirm and answers the   *)
(* client from the confirm callback.  Message consumes the queue, stores   *)
(* the message under the unique keys message_id and (user, client_msg_id), *)
(* records "persisted" in the idempotency key and hands the message to the *)
(* push queue and, if it is text, to the ES index queue; a failed          *)
(* hand-over goes to PushOutbox or ESOutbox, which a reaper drains.        *)
(*                                                                         *)
(* A request is identified with the Snowflake id it draws: request r       *)
(* publishes message r, if it publishes one.  A message therefore enters   *)
(* the broker at most once.  Every Redis call, RPC, database transaction   *)
(* and publish is a step of its own.                                       *)
(***************************************************************************)
EXTENDS Naturals, FiniteSets

CONSTANTS
    Req,        \* SendMessage requests, and the message ids they draw
    Key,        \* pairs (user, client_msg_id)
    NoKey,      \* an empty client_msg_id: no idempotency, NULL in the index
    Storable,   \* keys whose content type onDBMessage can store
    Text,       \* of those, the keys with text to index
    FaultKinds, \* the faults this instance explores
    MaxFaults,  \* bound: how many faults a behaviour contains
    None        \* no message

AllFaults == {"redis", "rpc", "lost", "db", "crash", "expiry", "corrupt"}

ASSUME ConstantsAssumption ==
    /\ NoKey \notin Key
    /\ None \notin Req \cup Key \cup {NoKey}
    /\ Storable \subseteq Key \cup {NoKey}
    /\ Text \subseteq Storable
    /\ FaultKinds \subseteq AllFaults
    /\ MaxFaults \in Nat

VARIABLES
    pc,       \* where request r is inside SendMessage
    keyOf,    \* its idempotency key
    holds,    \* idem_key_set: requests that created their key
    rid,      \* message id read from the key, then reported to the client
    idem,     \* the idempotency keys in Redis
    broker,   \* message r at the broker
    redel,    \* messages delivered before (the redelivered flag)
    step,     \* where onDBMessage is with message r
    db,       \* stored messages (and, in the same transaction, timelines)
    waiting,  \* per topic, messages whose confirm callback is outstanding
    sent,     \* per topic, messages that reached its queue
    outbox,   \* PushOutbox and ESOutbox
    faults,   \* number of faults so far
    bypassed, \* ghost: keys whose idempotency gate a fault has opened
    cutOff    \* ghost: per topic, stored messages whose hand-over a fault cut off

sendVars == <<pc, keyOf, holds, rid>>
storeVars == <<broker, redel, step, db>>
handVars == <<waiting, sent, outbox, cutOff>>
vars == <<sendVars, idem, storeVars, handVars, faults, bypassed>>

Topic == {"push", "es"}

IdemState == [st : {"absent", "pending", "accepted", "persisted", "corrupt"},
              mid : Req \cup {None}]

Idem(st, m) == [st |-> st, mid |-> m]
Absent == Idem("absent", None)
Pending == Idem("pending", None)

CoreTypes ==
    /\ pc \in [Req -> {"idle", "claim", "probe", "reclaim", "lookup", "admit",
                       "publish", "confirm", "ok", "failed", "crashed"}]
    /\ keyOf \in [Req -> Key \cup {NoKey}]
    /\ holds \subseteq Req
    /\ rid \in [Req -> Req \cup {None}]
    /\ idem \in [Key -> IdemState]
    /\ broker \in [Req -> {"unsent", "dropped", "ready", "delivered",
                           "done", "discarded"}]
    /\ redel \subseteq Req
    /\ step \in [Req -> {"idle", "store", "mark", "push", "es", "ack"}]
    /\ db \subseteq Req
    /\ faults \in Nat
    /\ bypassed \subseteq Key

HandTypes ==
    /\ waiting \in [Topic -> SUBSET Req]
    /\ sent \in [Topic -> SUBSET Req]
    /\ outbox \in [Topic -> SUBSET Req]
    /\ cutOff \in [Topic -> SUBSET Req]

\* The types of the variables.
TypeOK == CoreTypes /\ HandTypes

Init ==
    /\ pc = [r \in Req |-> "idle"]
    /\ keyOf = [r \in Req |-> NoKey]
    /\ holds = {}
    /\ rid = [r \in Req |-> None]
    /\ \E bad \in SUBSET (IF "corrupt" \in FaultKinds THEN Key ELSE {}) :
          /\ idem = [k \in Key |-> IF k \in bad THEN Idem("corrupt", None) ELSE Absent]
          /\ bypassed = bad
    /\ broker = [r \in Req |-> "unsent"]
    /\ redel = {}
    /\ step = [r \in Req |-> "idle"]
    /\ db = {}
    /\ waiting = [t \in Topic |-> {}]
    /\ sent = [t \in Topic |-> {}]
    /\ outbox = [t \in Topic |-> {}]
    /\ faults = 0
    /\ cutOff = [t \in Topic |-> {}]

-----------------------------------------------------------------------------
(* Faults *)

\* One fault of the given kind happens in this step.
Fault(kind) ==
    /\ kind \in FaultKinds
    /\ faults < MaxFaults
    /\ faults' = faults + 1

NoFault == faults' = faults

\* The key of r stays guarded / the guard of r's key is lost.
Guarded == UNCHANGED bypassed
Bypass(r) == bypassed' = bypassed \cup ({keyOf[r]} \cap Key)

-----------------------------------------------------------------------------
(* Transmite: SendMessage *)

Accepted(m) == broker[m] \in {"ready", "delivered", "done", "discarded"}
StoredFor(k) == {m \in db : keyOf[m] = k}

\* Moves r to p and leaves the rest of the request alone.
Goto(r, p) ==
    /\ pc' = [pc EXCEPT ![r] = p]
    /\ UNCHANGED <<keyOf, holds, rid>>

\* Answers r with success, reporting message m.
Succeed(r, m) ==
    /\ pc' = [pc EXCEPT ![r] = "ok"]
    /\ rid' = [rid EXCEPT ![r] = m]
    /\ UNCHANGED <<keyOf, holds>>

\* The key is written, or (for a call whose exception is swallowed) is not.
SetIdem(k, v) ==
    \/ /\ idem' = [idem EXCEPT ![k] = v]
       /\ NoFault
    \/ /\ UNCHANGED idem
       /\ Fault("redis")

\* Deletes the key of r, if it has one; a Redis exception is swallowed.
DelIdem(r) ==
    IF keyOf[r] \in Key THEN SetIdem(keyOf[r], Absent) ELSE UNCHANGED idem /\ NoFault

\* Mutant of ErrResponse: clears the key whoever created it.
ErrResponseAnyKey(r) ==
    /\ Goto(r, "failed")
    /\ DelIdem(r)

\* err_response: releases the key only if this request created it.
ErrResponse(r) ==
    /\ Goto(r, "failed")
    /\ IF r \in holds THEN DelIdem(r) ELSE UNCHANGED idem /\ NoFault

\* A client sends a message, or sends it again.  A media message without its
\* file_id is refused before any state is touched and is not a request here.
Send(r, k) ==
    /\ pc[r] = "idle"
    /\ keyOf' = [keyOf EXCEPT ![r] = k]
    /\ pc' = [pc EXCEPT ![r] = IF k = NoKey THEN "admit" ELSE "claim"]
    /\ UNCHANGED <<holds, rid, idem, storeVars, handVars, faults, bypassed>>

\* Mutant of Claim: SET without NX.
ClaimOverwrites(r) ==
    /\ pc[r] = "claim"
    /\ idem' = [idem EXCEPT ![keyOf[r]] = Pending]
    /\ pc' = [pc EXCEPT ![r] = "admit"]
    /\ holds' = holds \cup {r}
    /\ UNCHANGED <<keyOf, rid, storeVars, handVars, faults, bypassed>>

\* SET key "pending" NX.  If Redis throws the gate fails open; the SET may or
\* may not have been applied.
Claim(r) ==
    /\ pc[r] = "claim"
    /\ \/ /\ idem[keyOf[r]] = Absent
          /\ idem' = [idem EXCEPT ![keyOf[r]] = Pending]
          /\ pc' = [pc EXCEPT ![r] = "admit"]
          /\ holds' = holds \cup {r}
          /\ NoFault /\ Guarded
          /\ UNCHANGED <<keyOf, rid>>
       \/ /\ idem[keyOf[r]] # Absent
          /\ Goto(r, "probe")
          /\ NoFault /\ Guarded
          /\ UNCHANGED idem
       \/ /\ Fault("redis") /\ Bypass(r)
          /\ Goto(r, "admit")
          /\ \/ UNCHANGED idem
             \/ /\ idem[keyOf[r]] = Absent
                /\ idem' = [idem EXCEPT ![keyOf[r]] = Pending]
    /\ UNCHANGED <<storeVars, handVars>>

\* GET key and the dispatch on its state.  A corrupt value is deleted; the
\* other states go on to ask Message for the stored row.
Probe(r) ==
    /\ pc[r] = "probe"
    /\ \/ /\ idem[keyOf[r]].st = "corrupt"
          /\ Goto(r, "reclaim")
          /\ DelIdem(r)
          /\ Guarded
       \/ /\ idem[keyOf[r]].st # "corrupt"
          /\ pc' = [pc EXCEPT ![r] = "lookup"]
          /\ rid' = [rid EXCEPT ![r] = idem[keyOf[r]].mid]
          /\ NoFault /\ Guarded
          /\ UNCHANGED <<keyOf, holds, idem>>
       \/ /\ Fault("redis") /\ Bypass(r)
          /\ Goto(r, "admit")
          /\ UNCHANGED idem
    /\ UNCHANGED <<storeVars, handVars>>

\* The second SET NX, after a corrupt value was deleted.
Reclaim(r) ==
    /\ pc[r] = "reclaim"
    /\ \/ /\ idem[keyOf[r]] = Absent
          /\ idem' = [idem EXCEPT ![keyOf[r]] = Pending]
          /\ pc' = [pc EXCEPT ![r] = "admit"]
          /\ holds' = holds \cup {r}
          /\ NoFault /\ Guarded
          /\ UNCHANGED <<keyOf, rid>>
       \/ /\ idem[keyOf[r]] # Absent
          /\ ErrResponse(r)
          /\ Guarded
       \/ /\ Fault("redis") /\ Bypass(r)
          /\ Goto(r, "admit")
          /\ UNCHANGED idem
    /\ UNCHANGED <<storeVars, handVars>>

\* SelectByClientMsgId on Message.  The stored row wins; without one a known
\* message id is reported, and a pending key means "duplicate in flight".
Lookup(r) ==
    /\ pc[r] = "lookup"
    /\ \/ /\ \E m \in StoredFor(keyOf[r]) : Succeed(r, m)
          /\ UNCHANGED idem /\ NoFault
       \/ /\ StoredFor(keyOf[r]) = {}
          /\ IF rid[r] # None
             THEN Succeed(r, rid[r]) /\ UNCHANGED idem /\ NoFault
             ELSE ErrResponse(r)
       \/ /\ Fault("rpc")
          /\ IF rid[r] # None THEN Succeed(r, rid[r]) ELSE Goto(r, "failed")
          /\ UNCHANGED idem
    /\ UNCHANGED <<storeVars, handVars, bypassed>>

\* Mutant of Admit: writes the message id into the key before publishing.
AdmitEarlyId(r) ==
    /\ pc[r] = "admit"
    /\ Goto(r, "publish")
    /\ IF keyOf[r] \in Key
       THEN SetIdem(keyOf[r], Idem("accepted", r))
       ELSE UNCHANGED idem /\ NoFault
    /\ UNCHANGED <<storeVars, handVars, bypassed>>

\* Rate limits, sender profile, member list, membership and both sequence
\* numbers: each either lets the request through or is an error response.
Admit(r) ==
    /\ pc[r] = "admit"
    /\ \/ Goto(r, "publish") /\ UNCHANGED idem /\ NoFault
       \/ ErrResponse(r)
    /\ UNCHANGED <<storeVars, handVars, bypassed>>

\* publish_confirm posts the message: the broker routes it to the queue or
\* never gets it.
Publish(r) ==
    /\ pc[r] = "publish"
    /\ Goto(r, "confirm")
    /\ \E b \in {"ready", "dropped"} : broker' = [broker EXCEPT ![r] = b]
    /\ UNCHANGED <<idem, redel, step, db, handVars, faults, bypassed>>

\* Mutant of ConfirmAcked: the status of the confirm is not looked at.
ConfirmUnread(r) ==
    /\ pc[r] = "confirm"
    /\ Succeed(r, r)
    /\ IF keyOf[r] \in Key
       THEN SetIdem(keyOf[r], Idem("accepted", r))
       ELSE UNCHANGED idem /\ NoFault
    /\ UNCHANGED <<storeVars, handVars, bypassed>>

\* The confirm callback with Acked.
ConfirmAcked(r) ==
    /\ pc[r] = "confirm"
    /\ Accepted(r)
    /\ Succeed(r, r)
    /\ IF keyOf[r] \in Key
       THEN SetIdem(keyOf[r], Idem("accepted", r))
       ELSE UNCHANGED idem /\ NoFault
    /\ UNCHANGED <<storeVars, handVars, bypassed>>

\* The confirm callback with Nacked or Error, or a synchronous exception: the
\* broker does not have the message.
ConfirmFailed(r) ==
    /\ pc[r] = "confirm"
    /\ ~Accepted(r)
    /\ Goto(r, "failed")
    /\ DelIdem(r)
    /\ UNCHANGED <<storeVars, handVars, bypassed>>

\* The confirm callback with Lost: the outcome at the broker is unknown, and
\* the message may be queued.  It is handled exactly as a failure, and the
\* deletion of the key may fail too.
ConfirmLost(r) ==
    /\ pc[r] = "confirm"
    /\ Accepted(r)
    /\ Goto(r, "failed")
    /\ Fault("lost") /\ Bypass(r)
    /\ \/ UNCHANGED idem
       \/ keyOf[r] \in Key /\ idem' = [idem EXCEPT ![keyOf[r]] = Absent]
    /\ UNCHANGED <<storeVars, handVars>>

\* Transmite dies while serving r: no answer, and nobody clears the key.
TransmiteCrash(r) ==
    /\ pc[r] \notin {"idle", "ok", "failed", "crashed"}
    /\ Goto(r, "crashed")
    /\ Fault("crash")
    /\ UNCHANGED <<idem, storeVars, handVars, bypassed>>

\* The key's TTL of 86400 s runs out; no request lasts that long.
Expire(k) ==
    /\ idem[k] # Absent
    /\ \A r \in Req : keyOf[r] = k => pc[r] \in {"idle", "ok", "failed", "crashed"}
    /\ idem' = [idem EXCEPT ![k] = Absent]
    /\ bypassed' = bypassed \cup {k}
    /\ Fault("expiry")
    /\ UNCHANGED <<sendVars, storeVars, handVars>>

-----------------------------------------------------------------------------
(* Message: onDBMessage, called by the queue consumer *)

\* The broker hands message m to a consumer.
Deliver(m) ==
    /\ broker[m] = "ready"
    /\ broker' = [broker EXCEPT ![m] = "delivered"]
    /\ step' = [step EXCEPT ![m] = "store"]
    /\ UNCHANGED <<sendVars, idem, redel, db, handVars, faults, bypassed>>

Ack(m) ==
    /\ broker' = [broker EXCEPT ![m] = "done"]
    /\ step' = [step EXCEPT ![m] = "idle"]
    /\ UNCHANGED redel

\* The queue is declared without a dead-letter exchange (only a DELAYED
\* exchange gets one), so a rejected message is gone.
Discard(m) ==
    /\ broker' = [broker EXCEPT ![m] = "discarded"]
    /\ step' = [step EXCEPT ![m] = "idle"]
    /\ UNCHANGED redel

Requeue(m) ==
    /\ broker' = [broker EXCEPT ![m] = "ready"]
    /\ step' = [step EXCEPT ![m] = "idle"]
    /\ redel' = redel \cup {m}

\* Mutant of RetryOnce: a first failure is final.
RetryNever(m) == Discard(m)

\* redelivered ? NackDiscard : NackRequeue
RetryOnce(m) == IF m \in redel THEN Discard(m) ELSE Requeue(m)

\* Mutant of KeyTaken: the unique key (user, client_msg_id) is missing.
KeyNeverTaken(m) == FALSE

\* A unique key of the message table is already taken by another row.
KeyTaken(m) == keyOf[m] \in Key /\ StoredFor(keyOf[m]) # {}

\* Mutant of Store: a unique-key conflict is taken for a stored message.
StoreConflictOk(m) ==
    /\ step[m] = "store"
    /\ step' = [step EXCEPT ![m] = "mark"]
    /\ db' = IF KeyTaken(m) THEN db ELSE db \cup {m}
    /\ UNCHANGED <<sendVars, idem, broker, redel, handVars, faults, bypassed>>

\* Content-type check, then the transaction that inserts the message and its
\* timelines.
Store(m) ==
    /\ step[m] = "store"
    /\ \/ /\ keyOf[m] \notin Storable
          /\ Discard(m)
          /\ UNCHANGED db /\ NoFault
       \/ /\ keyOf[m] \in Storable /\ m \in db
          /\ Ack(m)
          /\ UNCHANGED db /\ NoFault
       \/ /\ keyOf[m] \in Storable /\ m \notin db /\ KeyTaken(m)
          /\ RetryOnce(m)
          /\ UNCHANGED db /\ NoFault
       \/ /\ keyOf[m] \in Storable /\ m \notin db /\ ~KeyTaken(m)
          /\ db' = db \cup {m}
          /\ step' = [step EXCEPT ![m] = "mark"]
          /\ UNCHANGED <<broker, redel>> /\ NoFault
    /\ UNCHANGED <<sendVars, idem, handVars, bypassed>>

\* The transaction throws: rolled back, or committed with the reply lost.
\* The second case also stands for select_by_id failing on a stored message.
StoreFault(m) ==
    /\ step[m] = "store"
    /\ keyOf[m] \in Storable
    /\ RetryOnce(m)
    /\ \/ UNCHANGED <<db, cutOff>>
       \/ /\ m \notin db /\ ~KeyTaken(m)
          /\ db' = db \cup {m}
          /\ cutOff' = [t \in Topic |-> cutOff[t] \cup {m}]
    /\ Fault("db")
    /\ UNCHANGED <<sendVars, idem, waiting, sent, outbox, bypassed>>

\* Mutant of MarkPersisted: records a state parse_idempotency_state rejects.
MarkUnknownState(m) ==
    /\ step[m] = "mark"
    /\ step' = [step EXCEPT ![m] = "push"]
    /\ IF keyOf[m] \in Key
       THEN SetIdem(keyOf[m], Idem("stored", m))
       ELSE UNCHANGED idem /\ NoFault
    /\ UNCHANGED <<sendVars, broker, redel, db, handVars, bypassed>>

\* mark_idempotency_persisted_
MarkPersisted(m) ==
    /\ step[m] = "mark"
    /\ step' = [step EXCEPT ![m] = "push"]
    /\ IF keyOf[m] \in Key
       THEN SetIdem(keyOf[m], Idem("persisted", m))
       ELSE UNCHANGED idem /\ NoFault
    /\ UNCHANGED <<sendVars, broker, redel, db, handVars, bypassed>>

\* The topics m is handed to, and the steps of onDBMessage up to each.
Topics(m) == IF keyOf[m] \in Text THEN Topic ELSE {"push"}
Before(t) == IF t = "push" THEN {"mark", "push"} ELSE {"mark", "push", "es"}

\* Publishes m to topic t; the callback comes later.
HandOver(m, t) ==
    /\ step[m] = t
    /\ step' = [step EXCEPT ![m] = IF t = "push" /\ keyOf[m] \in Text THEN "es" ELSE "ack"]
    /\ waiting' = [waiting EXCEPT ![t] = @ \cup {m}]
    /\ sent' \in {sent, [sent EXCEPT ![t] = @ \cup {m}]}
    /\ UNCHANGED <<sendVars, idem, broker, redel, db, outbox, cutOff, faults, bypassed>>

AckDelivery(m) ==
    /\ step[m] = "ack"
    /\ Ack(m)
    /\ UNCHANGED <<sendVars, idem, db, handVars, faults, bypassed>>

\* Mutant of HandOverConfirm: the callback ignores a failed publish.
HandOverConfirmIgnored(m, t) ==
    /\ m \in waiting[t]
    /\ waiting' = [waiting EXCEPT ![t] = @ \ {m}]
    /\ UNCHANGED <<sendVars, idem, storeVars, sent, outbox, cutOff, faults, bypassed>>

\* The confirm callback: Acked, or anything else and the message goes to the
\* outbox.  enqueue swallows a Redis exception.
HandOverConfirm(m, t) ==
    /\ m \in waiting[t]
    /\ waiting' = [waiting EXCEPT ![t] = @ \ {m}]
    /\ \/ /\ m \in sent[t]
          /\ UNCHANGED <<outbox, cutOff>> /\ NoFault
       \/ /\ m \notin sent[t]
          /\ outbox' = [outbox EXCEPT ![t] = @ \cup {m}]
          /\ UNCHANGED cutOff /\ NoFault
       \/ /\ m \in sent[t]
          /\ outbox' = [outbox EXCEPT ![t] = @ \cup {m}]
          /\ UNCHANGED cutOff /\ Fault("lost")
       \/ /\ m \notin sent[t]
          /\ cutOff' = [cutOff EXCEPT ![t] = @ \cup {m}]
          /\ UNCHANGED outbox /\ Fault("redis")
    /\ UNCHANGED <<sendVars, idem, storeVars, sent, bypassed>>

\* The crash of m's instance cuts its hand-over to t off.
CutByCrash(m, t) ==
    \/ t \in Topics(m) /\ step[m] \in Before(t)
    \/ m \in waiting[t] /\ m \notin sent[t]

\* The instance handling m dies: the broker redelivers an unacknowledged
\* message, and an outstanding callback never runs.
MessageCrash(m) ==
    /\ step[m] # "idle" \/ \E t \in Topic : m \in waiting[t]
    /\ IF broker[m] = "delivered" THEN Requeue(m) ELSE UNCHANGED <<broker, redel, step>>
    /\ waiting' = [t \in Topic |-> waiting[t] \ {m}]
    /\ cutOff' = [t \in Topic |-> IF CutByCrash(m, t) THEN cutOff[t] \cup {m} ELSE cutOff[t]]
    /\ Fault("crash")
    /\ UNCHANGED <<sendVars, idem, db, sent, outbox, bypassed>>

-----------------------------------------------------------------------------
(* Message: the outbox reapers of the elected leaders *)

\* One item of a reaper round: published again, and removed when the broker
\* acknowledges it.
Reap(m, t) ==
    /\ m \in outbox[t]
    /\ sent' = [sent EXCEPT ![t] = @ \cup {m}]
    /\ outbox' = [outbox EXCEPT ![t] = @ \ {m}]
    /\ UNCHANGED <<sendVars, idem, storeVars, waiting, cutOff, faults, bypassed>>

\* The publish fails, or its confirm or the removal does: the item stays.
ReapFault(m, t) ==
    /\ m \in outbox[t]
    /\ sent' \in {sent, [sent EXCEPT ![t] = @ \cup {m}]}
    /\ \E kind \in {"lost", "redis"} : Fault(kind)
    /\ UNCHANGED <<sendVars, idem, storeVars, waiting, outbox, cutOff, bypassed>>

-----------------------------------------------------------------------------

SendNext(r) ==
    \/ \E k \in Key \cup {NoKey} : Send(r, k)
    \/ Claim(r) \/ Probe(r) \/ Reclaim(r) \/ Lookup(r) \/ Admit(r)
    \/ Publish(r) \/ ConfirmAcked(r) \/ ConfirmFailed(r) \/ ConfirmLost(r)
    \/ TransmiteCrash(r)

StoreNext(m) ==
    \/ Deliver(m) \/ Store(m) \/ StoreFault(m) \/ MarkPersisted(m)
    \/ AckDelivery(m) \/ MessageCrash(m)
    \/ \E t \in Topic :
          HandOver(m, t) \/ HandOverConfirm(m, t) \/ Reap(m, t) \/ ReapFault(m, t)

Next ==
    \/ \E r \in Req : SendNext(r) \/ StoreNext(r)
    \/ \E k \in Key : Expire(k)

\* The broker keeps delivering, a consumer finishes what it was handed, a
\* posted publish is confirmed and the reapers, woken every 5 s, drain the
\* outboxes.  No fault is ever required to happen.
Fairness ==
    \A m \in Req :
        /\ WF_vars(Deliver(m))
        /\ WF_vars(Store(m))
        /\ WF_vars(MarkPersisted(m))
        /\ WF_vars(AckDelivery(m))
        /\ \A t \in Topic :
              /\ WF_vars(HandOver(m, t))
              /\ WF_vars(HandOverConfirm(m, t))
              /\ WF_vars(Reap(m, t))

Spec == Init /\ [][Next]_vars
FairSpec == Spec /\ Fairness

-----------------------------------------------------------------------------
(* Properties *)

\* A success answer names a message of the same client_msg_id that the broker
\* has taken: no answer, first or repeated, is a "ghost success"
\* (transmite_server.h, steps 3, 10 and 11 of SendMessage).
NoGhostSuccess ==
    \A r \in Req : pc[r] = "ok" =>
        rid[r] \in Req /\ Accepted(rid[r]) /\ keyOf[rid[r]] = keyOf[r]

\* However many retries of one client_msg_id overlap, and whichever Transmite
\* instance dies while serving them, the broker takes at most one message for
\* it, unless a fault opened the gate.
OneMessagePerKey ==
    \A m1, m2 \in Req :
        /\ Accepted(m1) /\ Accepted(m2)
        /\ keyOf[m1] = keyOf[m2]
        /\ keyOf[m1] \in Key \ bypassed
        => m1 = m2

\* All successful requests for one client_msg_id report the same message id
\* (concurrency_test.go, FN-CC-01), unless a fault opened the gate.
SameAnswer ==
    \A r1, r2 \in Req :
        /\ pc[r1] = "ok" /\ pc[r2] = "ok"
        /\ keyOf[r1] = keyOf[r2]
        /\ keyOf[r1] \in Key \ bypassed
        => rid[r1] = rid[r2]

\* Whatever the faults, the table never holds two messages for one
\* client_msg_id, and everything in it went through the broker.
StoredOnce ==
    /\ \A m \in db : Accepted(m)
    /\ \A m1, m2 \in db : keyOf[m1] = keyOf[m2] /\ keyOf[m1] \in Key => m1 = m2

Tracked(m, t) == m \in sent[t] \cup outbox[t] \cup waiting[t] \cup cutOff[t]

\* A stored message is, for each of its topics, on its way to the queue, in it,
\* or in the outbox, unless a fault after the commit cut the hand-over off.
HandOverNotForgotten ==
    \A m \in db : \A t \in Topics(m) : Tracked(m, t) \/ step[m] \in Before(t)

\* Only what is stored is ever handed to Push, to the index or to an outbox.
HandOverOnlyStored == \A m \in Req : \A t \in Topic : Tracked(m, t) => m \in db

KeyKept ==
    \A k \in Key \ bypassed' :
        idem[k].st \in {"accepted", "persisted"} =>
            /\ idem'[k].st \in {"accepted", "persisted"}
            /\ idem'[k].mid = idem[k].mid

\* Once a guarded key names a message it keeps naming that message: no late
\* callback of another request clears it or overwrites it.
KeyNeverForgets == [][KeyKept]_vars

\* A message the broker took is only given up when it cannot be stored: its
\* content type is unknown or its client_msg_id is already stored.  One fault
\* of any kind is survived; RetryOnce does not survive two.
GivenUpOnlyIfUnstorable ==
    \A m \in Req : broker[m] = "discarded" => keyOf[m] \notin Storable \/ KeyTaken(m)

\* A queued message of a storable type ends up in the table or finds its
\* client_msg_id stored already, as long as the database fails at most once
\* (RetryOnce gives every message a second chance).  What is accepted stays so
\* under its key (TakenForGood), so recurrence is as strong as leads-to here and
\* in StoredIsHandedOver.
QueuedIsStored ==
    \A m \in Req :
        []<>(Accepted(m) /\ keyOf[m] \in Storable => m \in db \/ KeyTaken(m))

\* A stored message reaches the queue of each of its topics, through the outbox
\* if need be, unless a fault cut the hand-over off.  What is stored stays so.
StoredIsHandedOver ==
    \A m \in Req : \A t \in Topic :
        []<>(m \in db /\ t \in Topics(m) => m \in sent[t] \cup cutOff[t])

\* The unconditional form of StoredIsHandedOver for the push queue.
StoredIsPushedAlways == \A m \in Req : m \in db ~> m \in sent["push"]
=============================================================================
