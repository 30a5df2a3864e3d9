------------------------ MODULE MessagePipelineProofs ------------------------
(***************************************************************************)
(* Proofs about MessagePipeline, for any number of requests and keys and   *)
(* any number of faults of every kind: its safety properties, and that it  *)
(* implements SendOnce, the promise to clients.                            *)
(***************************************************************************)
EXTENDS PipelinePromise, TLAPS

\* A request that works on an idempotency key has one.
Keyed ==
    \A r \in Req : pc[r] \in {"claim", "probe", "reclaim", "lookup"} => keyOf[r] \in Key

TypeCore == CoreTypes /\ Keyed
TypeInv == TypeCore /\ HandTypes

\* How the phases of a request, of the broker and of onDBMessage fit together.
Shape ==
    \A r \in Req :
        /\ pc[r] \in {"idle", "claim", "probe", "reclaim", "lookup", "admit", "publish"}
               => broker[r] = "unsent"
        /\ step[r] # "idle" => broker[r] = "delivered"
        /\ step[r] \in {"mark", "push", "es", "ack"} => r \in db
        /\ r \in db => Accepted(r)
        /\ r \in holds => pc[r] \notin {"idle", "claim", "probe", "reclaim", "lookup"}

\* r has passed the gate of its key and may yet put, or has put, its message
\* into the broker, or may yet clear the key.
Engaged(r) == pc[r] \in {"admit", "publish", "confirm"} \/ Accepted(r)

\* The gate of every key no fault has opened: one request engaged, and the key
\* present for as long as there is one.
Gate ==
    \A k \in Key \ bypassed :
        /\ idem[k].st # "corrupt"
        /\ \A r \in Req : pc[r] = "reclaim" => keyOf[r] # k
        /\ \A r \in Req : keyOf[r] = k /\ Engaged(r) => idem[k] # Absent
        /\ \A r1, r2 \in Req :
              keyOf[r1] = k /\ keyOf[r2] = k /\ Engaged(r1) /\ Engaged(r2) => r1 = r2

\* m is a message for key k that the broker has taken.
Names(k, m) == m \in Req /\ Accepted(m) /\ keyOf[m] = k

\* What a key names, a request has read from it, or an answer reports, is such
\* a message.
Named ==
    /\ \A k \in Key : IF idem[k].st \in {"accepted", "persisted"}
                      THEN Names(k, idem[k].mid)
                      ELSE idem[k].mid = None
    /\ \A r \in Req :
          /\ pc[r] = "lookup" /\ rid[r] # None => Names(keyOf[r], rid[r])
          /\ pc[r] = "ok" => Names(keyOf[r], rid[r])

IInv == TypeInv /\ Shape /\ Gate /\ Named

\* Writing a key, clearing it and answering with an error keep the types.
LEMMA SetIdemTypes ==
    ASSUME CoreTypes, NEW k \in Key, NEW v \in IdemState, SetIdem(k, v)
    PROVE  idem' \in [Key -> IdemState] /\ faults' \in Nat
  BY SMTT(30) DEF CoreTypes, SetIdem, Fault, NoFault

\* The types after the key of a request is deleted, or not.
LEMMA DelIdemTypes ==
    ASSUME CoreTypes, NEW r \in Req, DelIdem(r)
    PROVE  idem' \in [Key -> IdemState] /\ faults' \in Nat
<1>1. Absent \in IdemState
  BY Zenon DEF Absent, Idem, IdemState
<1> QED
  BY <1>1, SetIdemTypes, Zenon DEF DelIdem, CoreTypes, NoFault

\* The types after an error response.
LEMMA ErrResponseTypes ==
    ASSUME CoreTypes, NEW r \in Req, ErrResponse(r)
    PROVE  /\ idem' \in [Key -> IdemState] /\ faults' \in Nat
           /\ Goto(r, "failed")
  BY DelIdemTypes, Zenon DEF ErrResponse, CoreTypes, NoFault

\* One step keeps the types of the core variables and leaves a request that
\* works on a key with it.
LEMMA CoreTypeStep == TypeCore /\ [Next]_vars => TypeCore'
<1> SUFFICES ASSUME TypeCore, [Next]_vars
             PROVE  TypeCore'
  OBVIOUS
<1> USE ConstantsAssumption
    DEF TypeCore, CoreTypes, Keyed, IdemState, Idem, Absent, Pending, Fault, NoFault, Goto,
        Succeed, Guarded, Bypass, sendVars, storeVars, handVars
<1>1. ASSUME NEW r \in Req, NEW k \in Key \cup {NoKey}, Send(r, k)
      PROVE  TypeCore'
  BY <1>1, Zenon DEF Send
<1>2. ASSUME NEW r \in Req, Claim(r)
      PROVE  TypeCore'
  BY <1>2, SMTT(30) DEF Claim
<1>3. ASSUME NEW r \in Req, Probe(r)
      PROVE  TypeCore'
  <2>1. DelIdem(r) => idem' \in [Key -> IdemState] /\ faults' \in Nat
    BY DelIdemTypes, Zenon
  <2>2. CASE Goto(r, "reclaim") /\ DelIdem(r) /\ Guarded
    BY <1>3, <2>1, <2>2, Zenon DEF Probe
  <2>3. CASE Goto(r, "admit") /\ Fault("redis") /\ Bypass(r) /\ UNCHANGED idem
    BY <1>3, <2>3, SMTT(30) DEF Probe
  <2>4. CASE /\ pc' = [pc EXCEPT ![r] = "lookup"]
             /\ rid' = [rid EXCEPT ![r] = idem[keyOf[r]].mid]
             /\ NoFault /\ Guarded
             /\ UNCHANGED <<keyOf, holds, idem>>
    BY <1>3, <2>4, Zenon DEF Probe
  <2> QED
    BY <1>3, <2>2, <2>3, <2>4, Zenon DEF Probe
<1>4. ASSUME NEW r \in Req, Reclaim(r)
      PROVE  TypeCore'
  <2>1. ErrResponse(r) => /\ idem' \in [Key -> IdemState] /\ faults' \in Nat
                          /\ Goto(r, "failed")
    BY ErrResponseTypes, Zenon
  <2> QED
    BY <1>4, <2>1, SMTT(30) DEF Reclaim
<1>5. ASSUME NEW r \in Req, Lookup(r)
      PROVE  TypeCore'
  <2>1. /\ UNCHANGED <<keyOf, holds, storeVars, handVars, bypassed>>
        /\ faults' \in Nat
        /\ idem' \in [Key -> IdemState]
    BY <1>5, ErrResponseTypes, SMTT(30) DEF Lookup
  <2>2. pc' \in {[pc EXCEPT ![r] = "ok"], [pc EXCEPT ![r] = "failed"]}
    BY <1>5, ErrResponseTypes, Zenon DEF Lookup
  <2>3. rid' \in [Req -> Req \cup {None}]
    BY <1>5, ErrResponseTypes, SMTT(30) DEF Lookup, StoredFor
  <2>4. Keyed'
    BY <2>1, <2>2, SMTT(30)
  <2> QED
    BY <2>1, <2>2, <2>3, <2>4, SMTT(30)
<1>6. ASSUME NEW r \in Req, Admit(r)
      PROVE  TypeCore'
  BY <1>6, ErrResponseTypes, SMTT(30) DEF Admit
<1>7. ASSUME NEW r \in Req, Publish(r)
      PROVE  TypeCore'
  BY <1>7, SMTT(30) DEF Publish
<1>8. ASSUME NEW r \in Req, ConfirmAcked(r)
      PROVE  TypeCore'
  BY <1>8, SMTT(30) DEF ConfirmAcked, SetIdem
<1>9. ASSUME NEW r \in Req, ConfirmFailed(r)
      PROVE  TypeCore'
  BY <1>9, DelIdemTypes, Zenon DEF ConfirmFailed, Accepted
<1>10. ASSUME NEW r \in Req, ConfirmLost(r)
      PROVE  TypeCore'
  BY <1>10, SMTT(30) DEF ConfirmLost
<1>11. ASSUME NEW r \in Req, TransmiteCrash(r)
      PROVE  TypeCore'
  BY <1>11, SMTT(30) DEF TransmiteCrash
<1>12. ASSUME NEW r \in Req, Deliver(r)
      PROVE  TypeCore'
  BY <1>12, Zenon DEF Deliver
<1>13. ASSUME NEW r \in Req, Store(r)
      PROVE  TypeCore'
  BY <1>13, SMTT(30) DEF Store, Ack, Discard, Requeue, RetryOnce
<1>14. ASSUME NEW r \in Req, StoreFault(r)
      PROVE  TypeCore'
  BY <1>14, SMTT(30) DEF StoreFault, Discard, Requeue, RetryOnce
<1>15. ASSUME NEW r \in Req, MarkPersisted(r)
      PROVE  TypeCore'
  BY <1>15, SMTT(30) DEF MarkPersisted, SetIdem
<1>16. ASSUME NEW r \in Req, NEW t \in Topic, HandOver(r, t)
      PROVE  TypeCore'
  BY <1>16, Zenon DEF HandOver, Topic
<1>17. ASSUME NEW r \in Req, AckDelivery(r)
      PROVE  TypeCore'
  BY <1>17, Zenon DEF AckDelivery, Ack
<1>18. ASSUME NEW r \in Req, NEW t \in Topic, HandOverConfirm(r, t)
      PROVE  TypeCore'
  BY <1>18, SMTT(30) DEF HandOverConfirm, Topic
<1>19. ASSUME NEW r \in Req, MessageCrash(r)
      PROVE  TypeCore'
  BY <1>19, SMTT(30) DEF MessageCrash, Requeue
<1>20. ASSUME NEW r \in Req, NEW t \in Topic, Reap(r, t)
      PROVE  TypeCore'
  BY <1>20, Zenon DEF Reap, Topic
<1>21. ASSUME NEW r \in Req, NEW t \in Topic, ReapFault(r, t)
      PROVE  TypeCore'
  BY <1>21, SMTT(30) DEF ReapFault, Topic
<1>22. ASSUME NEW k \in Key, Expire(k)
      PROVE  TypeCore'
  BY <1>22, SMTT(30) DEF Expire
<1>23. CASE UNCHANGED vars
  BY <1>23, Zenon DEF vars
<1> QED
  BY <1>1, <1>2, <1>3, <1>4, <1>5, <1>6, <1>7, <1>8, <1>9, <1>10, <1>11, <1>12, <1>13, <1>14, <1>15, <1>16, <1>17, <1>18, <1>19, <1>20, <1>21, <1>22, <1>23, Zenon
  DEF Next, SendNext, StoreNext

\* One step keeps the types of the hand-over variables.
LEMMA HandTypeStep == HandTypes /\ [Next]_vars => HandTypes'
<1> SUFFICES ASSUME HandTypes, [Next]_vars
             PROVE  HandTypes'
  OBVIOUS
<1> USE DEF HandTypes, handVars
<1>1. ASSUME NEW r \in Req, SendNext(r)
      PROVE  HandTypes'
  BY <1>1, Zenon DEF SendNext, Send, Claim, Probe, Reclaim, Lookup, Admit, Publish,
              ConfirmAcked, ConfirmFailed, ConfirmLost, TransmiteCrash
<1>2. ASSUME NEW r \in Req, Deliver(r) \/ Store(r) \/ StoreFault(r) \/ MarkPersisted(r)
      PROVE  HandTypes'
  BY <1>2, SMTT(30) DEF Deliver, Store, StoreFault, MarkPersisted
<1>3. ASSUME NEW r \in Req, AckDelivery(r) \/ MessageCrash(r)
      PROVE  HandTypes'
  BY <1>3, SMTT(30) DEF AckDelivery, MessageCrash
<1>4. ASSUME NEW r \in Req, NEW t \in Topic, HandOver(r, t) \/ HandOverConfirm(r, t)
      PROVE  HandTypes'
  BY <1>4, SMTT(30) DEF HandOver, HandOverConfirm
<1>5. ASSUME NEW r \in Req, NEW t \in Topic, Reap(r, t) \/ ReapFault(r, t)
      PROVE  HandTypes'
  BY <1>5, SMTT(30) DEF Reap, ReapFault
<1>6. ASSUME NEW k \in Key, Expire(k)
      PROVE  HandTypes'
  BY <1>6, Zenon DEF Expire
<1>7. CASE UNCHANGED vars
  BY <1>7, Zenon DEF vars
<1> QED
  BY <1>1, <1>2, <1>3, <1>4, <1>5, <1>6, <1>7, Zenon DEF Next, StoreNext

\* Every step keeps the types.
LEMMA TypeStep == TypeInv /\ [Next]_vars => TypeInv'
  BY CoreTypeStep, HandTypeStep, Zenon DEF TypeInv

\* The variables of MessagePipeline always have their types.
THEOREM TypeCorrect == Spec => []TypeOK
<1>1. Init => TypeInv
  BY SMTT(30) DEF Init, TypeInv, TypeCore, CoreTypes, HandTypes, Keyed, IdemState, Idem, Absent
<1>2. TypeInv => TypeOK
  BY Zenon DEF TypeInv, TypeCore, TypeOK
<1> QED
  BY <1>1, <1>2, TypeStep, PTL DEF Spec

\* One step keeps the phases in line.
LEMMA ShapeStep == TypeCore /\ Shape /\ [Next]_vars => Shape'
<1> SUFFICES ASSUME TypeCore, Shape, [Next]_vars
             PROVE  Shape'
  OBVIOUS
<1> USE ConstantsAssumption
    DEF TypeCore, CoreTypes, Shape, Accepted, Goto, Succeed, ErrResponse,
        sendVars, storeVars, handVars
<1>1. ASSUME NEW r \in Req, NEW k \in Key \cup {NoKey}, Send(r, k)
      PROVE  Shape'
  BY <1>1, SMTT(30) DEF Send
<1>2. ASSUME NEW r \in Req, Claim(r)
      PROVE  Shape'
  BY <1>2, SMTT(30) DEF Claim
<1>3. ASSUME NEW r \in Req, Probe(r)
      PROVE  Shape'
  BY <1>3, SMTT(30) DEF Probe
<1>4. ASSUME NEW r \in Req, Reclaim(r)
      PROVE  Shape'
  BY <1>4, SMTT(30) DEF Reclaim
<1>5. ASSUME NEW r \in Req, Lookup(r)
      PROVE  Shape'
  BY <1>5, SMTT(30) DEF Lookup, StoredFor
<1>6. ASSUME NEW r \in Req, Admit(r)
      PROVE  Shape'
  BY <1>6, SMTT(30) DEF Admit
<1>7. ASSUME NEW r \in Req, Publish(r)
      PROVE  Shape'
  BY <1>7, SMTT(30) DEF Publish
<1>8. ASSUME NEW r \in Req, ConfirmAcked(r)
      PROVE  Shape'
  BY <1>8, SMTT(30) DEF ConfirmAcked
<1>9. ASSUME NEW r \in Req, ConfirmFailed(r)
      PROVE  Shape'
  BY <1>9, Zenon DEF ConfirmFailed
<1>10. ASSUME NEW r \in Req, ConfirmLost(r)
      PROVE  Shape'
  BY <1>10, Zenon DEF ConfirmLost
<1>11. ASSUME NEW r \in Req, TransmiteCrash(r)
      PROVE  Shape'
  BY <1>11, SMTT(30) DEF TransmiteCrash
<1>12. ASSUME NEW r \in Req, Deliver(r)
      PROVE  Shape'
  BY <1>12, SMTT(30) DEF Deliver
<1>13. ASSUME NEW r \in Req, Store(r)
      PROVE  Shape'
  BY <1>13, SMTT(30) DEF Store, Ack, Discard, Requeue, RetryOnce
<1>14. ASSUME NEW r \in Req, StoreFault(r)
      PROVE  Shape'
  BY <1>14, SMTT(30) DEF StoreFault, Discard, Requeue, RetryOnce
<1>15. ASSUME NEW r \in Req, MarkPersisted(r)
      PROVE  Shape'
  BY <1>15, SMTT(30) DEF MarkPersisted
<1>16. ASSUME NEW r \in Req, NEW t \in Topic, HandOver(r, t)
      PROVE  Shape'
  BY <1>16, SMTT(30) DEF HandOver, Topic
<1>17. ASSUME NEW r \in Req, AckDelivery(r)
      PROVE  Shape'
  BY <1>17, SMTT(30) DEF AckDelivery, Ack
<1>18. ASSUME NEW r \in Req, NEW t \in Topic, HandOverConfirm(r, t)
      PROVE  Shape'
  BY <1>18, Zenon DEF HandOverConfirm, Topic
<1>19. ASSUME NEW r \in Req, MessageCrash(r)
      PROVE  Shape'
  BY <1>19, SMTT(30) DEF MessageCrash, Requeue
<1>20. ASSUME NEW r \in Req, NEW t \in Topic, Reap(r, t)
      PROVE  Shape'
  BY <1>20, Zenon DEF Reap, Topic
<1>21. ASSUME NEW r \in Req, NEW t \in Topic, ReapFault(r, t)
      PROVE  Shape'
  BY <1>21, Zenon DEF ReapFault, Topic
<1>22. ASSUME NEW k \in Key, Expire(k)
      PROVE  Shape'
  BY <1>22, Zenon DEF Expire
<1>23. CASE UNCHANGED vars
  BY <1>23, Zenon DEF vars
<1> QED
  BY <1>1, <1>2, <1>3, <1>4, <1>5, <1>6, <1>7, <1>8, <1>9, <1>10, <1>11, <1>12, <1>13, <1>14, <1>15, <1>16, <1>17, <1>18, <1>19, <1>20, <1>21, <1>22, <1>23, Zenon
  DEF Next, SendNext, StoreNext

\* onDBMessage and the reaper change no request, and neither create nor undo
\* the broker's taking of a message.
LEMMA StoreFrame ==
    ASSUME TypeCore, Shape, NEW r \in Req, StoreNext(r)
    PROVE  /\ UNCHANGED <<pc, keyOf, holds, rid, bypassed>>
           /\ \A m \in Req : Accepted(m)' <=> Accepted(m)
           /\ \/ UNCHANGED idem
              \/ /\ Accepted(r) /\ r \in db /\ keyOf[r] \in Key
                 /\ idem' = [idem EXCEPT ![keyOf[r]] = Idem("persisted", r)]
<1> USE DEF TypeCore, CoreTypes, Shape, Accepted, sendVars, storeVars, handVars
<1>1. CASE Deliver(r)
  BY <1>1, Zenon DEF Deliver
<1>2. CASE Store(r)
  BY <1>2, SMTT(30) DEF Store, Ack, Discard, Requeue, RetryOnce
<1>3. CASE StoreFault(r)
  BY <1>3, SMTT(30) DEF StoreFault, Discard, Requeue, RetryOnce
<1>4. CASE MarkPersisted(r)
  BY <1>4, Zenon DEF MarkPersisted, SetIdem
<1>5. CASE \E t \in Topic :
             HandOver(r, t) \/ HandOverConfirm(r, t) \/ Reap(r, t) \/ ReapFault(r, t)
  BY <1>5, Zenon DEF HandOver, HandOverConfirm, Reap, ReapFault
<1>6. CASE AckDelivery(r)
  BY <1>6, Zenon DEF AckDelivery, Ack
<1>7. CASE MessageCrash(r)
  BY <1>7, SMTT(30) DEF MessageCrash, Requeue
<1> QED
  BY <1>1, <1>2, <1>3, <1>4, <1>5, <1>6, <1>7, Zenon DEF StoreNext

\* One step keeps the gates closed.  Only a request that is engaged can clear a
\* guarded key, and it is no longer engaged when it has.
LEMMA GateStep == TypeCore /\ Shape /\ Gate /\ [Next]_vars => Gate'
<1> SUFFICES ASSUME TypeCore, Shape, Gate, [Next]_vars
             PROVE  Gate'
  OBVIOUS
<1>a. ASSUME NEW r \in Req, StoreNext(r)
      PROVE  Gate'
  BY <1>a, StoreFrame, SMTT(30) DEF TypeCore, CoreTypes, Gate, Engaged, Idem, Absent
<1> USE ConstantsAssumption
    DEF TypeCore, CoreTypes, Keyed, Shape, Gate, Engaged, Accepted, Goto, Succeed, ErrResponse,
        Guarded, Bypass, SetIdem, DelIdem, Idem, Absent, Pending, IdemState,
        sendVars, storeVars, handVars
<1>1. ASSUME NEW r \in Req, NEW k \in Key \cup {NoKey}, Send(r, k)
      PROVE  Gate'
  BY <1>1, SMTT(30) DEF Send
<1>2. ASSUME NEW r \in Req, Claim(r)
      PROVE  Gate'
  BY <1>2, SMTT(30) DEF Claim
<1>3. ASSUME NEW r \in Req, Probe(r)
      PROVE  Gate'
  BY <1>3, SMTT(30) DEF Probe
<1>4. ASSUME NEW r \in Req, Reclaim(r)
      PROVE  Gate'
  BY <1>4, SMTT(30) DEF Reclaim
<1>5. ASSUME NEW r \in Req, Lookup(r)
      PROVE  Gate'
  BY <1>5, SMTT(30) DEF Lookup, StoredFor
<1>6. ASSUME NEW r \in Req, Admit(r)
      PROVE  Gate'
  BY <1>6, SMTT(30) DEF Admit
<1>7. ASSUME NEW r \in Req, Publish(r)
      PROVE  Gate'
  BY <1>7, SMTT(30) DEF Publish
<1>8. ASSUME NEW r \in Req, ConfirmAcked(r)
      PROVE  Gate'
  BY <1>8, SMTT(30) DEF ConfirmAcked
<1>9. ASSUME NEW r \in Req, ConfirmFailed(r)
      PROVE  Gate'
  BY <1>9, SMTT(30) DEF ConfirmFailed
<1>10. ASSUME NEW r \in Req, ConfirmLost(r)
       PROVE  Gate'
  BY <1>10, SMTT(30) DEF ConfirmLost
<1>11. ASSUME NEW r \in Req, TransmiteCrash(r)
       PROVE  Gate'
  BY <1>11, SMTT(30) DEF TransmiteCrash
<1>12. ASSUME NEW k \in Key, Expire(k)
       PROVE  Gate'
  BY <1>12, SMTT(30) DEF Expire
<1>13. CASE UNCHANGED vars
  BY <1>13, SMTT(30) DEF vars
<1> QED
  BY <1>a, <1>1, <1>2, <1>3, <1>4, <1>5, <1>6, <1>7, <1>8, <1>9, <1>10, <1>11, <1>12, <1>13, Zenon
  DEF Next, SendNext

\* One step keeps what is named named.
LEMMA NamedStep == TypeCore /\ Shape /\ Named /\ [Next]_vars => Named'
<1> SUFFICES ASSUME TypeCore, Shape, Named, [Next]_vars
             PROVE  Named'
  OBVIOUS
<1>a. ASSUME NEW r \in Req, StoreNext(r)
      PROVE  Named'
  BY <1>a, StoreFrame, SMTT(30) DEF TypeCore, CoreTypes, Named, Names, Idem
<1> USE ConstantsAssumption
    DEF TypeCore, CoreTypes, Keyed, Shape, Named, Names, Accepted, Goto, Succeed, ErrResponse,
        SetIdem, DelIdem, Idem, Absent, Pending, IdemState, sendVars, storeVars, handVars
<1>1. ASSUME NEW r \in Req, NEW k \in Key \cup {NoKey}, Send(r, k)
      PROVE  Named'
  BY <1>1, SMTT(30) DEF Send
<1>2. ASSUME NEW r \in Req, Claim(r)
      PROVE  Named'
  BY <1>2, SMTT(30) DEF Claim
<1>3. ASSUME NEW r \in Req, Probe(r)
      PROVE  Named'
  BY <1>3, SMTT(30) DEF Probe
<1>4. ASSUME NEW r \in Req, Reclaim(r)
      PROVE  Named'
  <2>1. pc[r] = "reclaim" /\ keyOf[r] \in Key /\ r \notin holds
    BY <1>4, Zenon DEF Reclaim
  <2>2. /\ UNCHANGED <<keyOf, rid, broker>>
        /\ pc' = [pc EXCEPT ![r] = "admit"] \/ pc' = [pc EXCEPT ![r] = "failed"]
        /\ UNCHANGED idem \/ idem' = [idem EXCEPT ![keyOf[r]] = Pending]
    BY <1>4, <2>1, Zenon DEF Reclaim
  <2> QED
    BY <2>1, <2>2, SMTT(30)
<1>5. ASSUME NEW r \in Req, Lookup(r)
      PROVE  Named'
  BY <1>5, SMTT(30) DEF Lookup, StoredFor
<1>6. ASSUME NEW r \in Req, Admit(r)
      PROVE  Named'
  BY <1>6, SMTT(30) DEF Admit
<1>7. ASSUME NEW r \in Req, Publish(r)
      PROVE  Named'
  BY <1>7, SMTT(30) DEF Publish
<1>8. ASSUME NEW r \in Req, ConfirmAcked(r)
      PROVE  Named'
  <2>1. UNCHANGED <<broker, keyOf>> /\ Names(keyOf[r], r)
    BY <1>8, Zenon DEF ConfirmAcked
  <2>2. \/ UNCHANGED idem
        \/ keyOf[r] \in Key /\ idem' = [idem EXCEPT ![keyOf[r]] = Idem("accepted", r)]
    BY <1>8, Zenon DEF ConfirmAcked
  <2>3. pc' = [pc EXCEPT ![r] = "ok"] /\ rid' = [rid EXCEPT ![r] = r]
    BY <1>8, Zenon DEF ConfirmAcked
  <2> QED
    BY <2>1, <2>2, <2>3, SMTT(30)
<1>9. ASSUME NEW r \in Req, ConfirmFailed(r)
      PROVE  Named'
  <2>1. UNCHANGED <<broker, keyOf, rid>> /\ pc' = [pc EXCEPT ![r] = "failed"]
    BY <1>9, Zenon DEF ConfirmFailed
  <2>2. UNCHANGED idem \/ idem' = [idem EXCEPT ![keyOf[r]] = Absent]
    BY <1>9, Zenon DEF ConfirmFailed
  <2> QED
    BY <2>1, <2>2, SMTT(30)
<1>10. ASSUME NEW r \in Req, ConfirmLost(r)
       PROVE  Named'
  BY <1>10, SMTT(30) DEF ConfirmLost
<1>11. ASSUME NEW r \in Req, TransmiteCrash(r)
       PROVE  Named'
  BY <1>11, SMTT(30) DEF TransmiteCrash
<1>12. ASSUME NEW k \in Key, Expire(k)
       PROVE  Named'
  BY <1>12, SMTT(30) DEF Expire
<1>13. CASE UNCHANGED vars
  BY <1>13, Zenon DEF vars
<1> QED
  BY <1>a, <1>1, <1>2, <1>3, <1>4, <1>5, <1>6, <1>7, <1>8, <1>9, <1>10, <1>11, <1>12, <1>13, Zenon
  DEF Next, SendNext

\* The inductive invariant holds throughout.
THEOREM Invariance == Spec => []IInv
<1>1. Init => IInv
  BY ConstantsAssumption, SMTT(30)
  DEF Init, IInv, TypeInv, TypeCore, CoreTypes, HandTypes, Keyed, Shape, Gate, Engaged, Accepted, Named, Names,
      IdemState, Idem, Absent
<1>2. IInv /\ [Next]_vars => IInv'
  BY TypeStep, ShapeStep, GateStep, NamedStep, Zenon DEF IInv, TypeInv
<1> QED
  BY <1>1, <1>2, PTL DEF Spec

\* Every success answer names a message of that client_msg_id which the broker
\* has taken, whatever crashes, lost confirms and Redis failures there were.
THEOREM AnswersAreReal == Spec => []NoGhostSuccess
<1>1. IInv => NoGhostSuccess
  BY Zenon DEF IInv, Named, Names, NoGhostSuccess
<1> QED
  BY <1>1, Invariance, PTL

\* The broker takes at most one message per client_msg_id whose gate no fault
\* has opened, for any number of overlapping retries and Transmite crashes.
THEOREM AtMostOneMessage == Spec => []OneMessagePerKey
<1>1. IInv => OneMessagePerKey
  BY Zenon DEF IInv, Gate, Engaged, OneMessagePerKey
<1> QED
  BY <1>1, Invariance, PTL

\* Retries of one client_msg_id are answered with one message id.
THEOREM AnswersAgree == Spec => []SameAnswer
<1>1. IInv => SameAnswer
  BY SMTT(30) DEF IInv, Gate, Engaged, Named, Names, SameAnswer
<1> QED
  BY <1>1, Invariance, PTL

\* A guarded key that names a message is never cleared or redirected: whoever
\* writes it is engaged, hence is the message the key names.
THEOREM KeysRemember == Spec => KeyNeverForgets
<1>1. IInv /\ [Next]_vars => [KeyKept]_vars
  <2> SUFFICES ASSUME TypeCore, Shape, Gate, Named, Next
               PROVE  KeyKept
    BY Zenon DEF IInv, TypeInv
  <2>1. ASSUME NEW r \in Req, StoreNext(r)
        PROVE  KeyKept
    BY <2>1, StoreFrame, SMTT(30)
    DEF TypeCore, CoreTypes, Gate, Engaged, Named, Names, KeyKept, Idem
  <2> USE ConstantsAssumption
      DEF TypeCore, CoreTypes, Keyed, Shape, Gate, Engaged, Named, Names, Accepted, KeyKept,
          Goto, Succeed, ErrResponse, Guarded, Bypass, SetIdem, DelIdem, Idem, Absent, Pending,
          sendVars, storeVars, handVars
  <2>2. ASSUME NEW r \in Req, NEW k \in Key \cup {NoKey}, Send(r, k)
        PROVE  KeyKept
    BY <2>2, Zenon DEF Send
  <2>3. ASSUME NEW r \in Req, Claim(r)
        PROVE  KeyKept
    BY <2>3, SMTT(30) DEF Claim
  <2>4. ASSUME NEW r \in Req, Probe(r)
        PROVE  KeyKept
    BY <2>4, SMTT(30) DEF Probe
  <2>5. ASSUME NEW r \in Req, Reclaim(r)
        PROVE  KeyKept
    BY <2>5, SMTT(30) DEF Reclaim
  <2>6. ASSUME NEW r \in Req, Lookup(r) \/ Publish(r) \/ TransmiteCrash(r)
        PROVE  KeyKept
    BY <2>6, Zenon DEF Lookup, Publish, TransmiteCrash
  <2>7. ASSUME NEW r \in Req, Admit(r)
        PROVE  KeyKept
    BY <2>7, SMTT(30) DEF Admit
  <2>8. ASSUME NEW r \in Req, ConfirmAcked(r)
        PROVE  KeyKept
    BY <2>8, SMTT(30) DEF ConfirmAcked
  <2>9. ASSUME NEW r \in Req, ConfirmFailed(r)
        PROVE  KeyKept
    BY <2>9, SMTT(30) DEF ConfirmFailed
  <2>10. ASSUME NEW r \in Req, ConfirmLost(r)
         PROVE  KeyKept
    BY <2>10, SMTT(30) DEF ConfirmLost
  <2>11. ASSUME NEW k \in Key, Expire(k)
         PROVE  KeyKept
    BY <2>11, Zenon DEF Expire
  <2> QED
    BY <2>1, <2>2, <2>3, <2>4, <2>5, <2>6, <2>7, <2>8, <2>9, <2>10, <2>11, Zenon DEF Next, SendNext
<1> QED
  BY <1>1, Invariance, PTL DEF Spec, KeyNeverForgets

-----------------------------------------------------------------------------
(* Storage and the hand-over to Push *)

StoreInv == TypeInv /\ Shape /\ StoredOnce /\ HandOverNotForgotten /\ HandOverOnlyStored

\* A request step leaves the table, the push queue and the outbox alone and
\* gives no stored message another key.
LEMMA SendFrame ==
    ASSUME TypeCore, Shape, NEW r \in Req, SendNext(r)
    PROVE  /\ UNCHANGED <<redel, step, db, waiting, sent, outbox, cutOff>>
           /\ \A m \in Req : Accepted(m) => Accepted(m)' /\ keyOf'[m] = keyOf[m]
<1> USE DEF TypeCore, CoreTypes, Shape, Accepted, Goto, Succeed, ErrResponse,
            sendVars, storeVars, handVars
<1>1. ASSUME NEW k \in Key \cup {NoKey}, Send(r, k)
      PROVE  /\ UNCHANGED <<redel, step, db, waiting, sent, outbox, cutOff>>
             /\ \A m \in Req : Accepted(m) => Accepted(m)' /\ keyOf'[m] = keyOf[m]
  BY <1>1, Zenon DEF Send
<1>2. CASE Claim(r) \/ Probe(r) \/ Reclaim(r)
  BY <1>2, Zenon DEF Claim, Probe, Reclaim
<1>3. CASE Lookup(r) \/ Admit(r) \/ Publish(r)
  BY <1>3, SMTT(30) DEF Lookup, Admit, Publish
<1>4. CASE ConfirmAcked(r) \/ ConfirmFailed(r) \/ ConfirmLost(r) \/ TransmiteCrash(r)
  BY <1>4, Zenon DEF ConfirmAcked, ConfirmFailed, ConfirmLost, TransmiteCrash
<1> QED
  BY <1>1, <1>2, <1>3, <1>4, Zenon DEF SendNext

\* One step keeps one row per key in the table, and every row a message the
\* broker took.
LEMMA StoredOnceStep == TypeCore /\ Shape /\ StoredOnce /\ [Next]_vars => StoredOnce'
<1> SUFFICES ASSUME TypeCore, Shape, StoredOnce, [Next]_vars
             PROVE  StoredOnce'
  OBVIOUS
<1> USE DEF StoredOnce, TypeCore, CoreTypes
<1>1. ASSUME NEW r \in Req, SendNext(r)
      PROVE  StoredOnce'
  BY <1>1, SendFrame, Zenon
<1>2. ASSUME NEW r \in Req, StoreNext(r)
      PROVE  StoredOnce'
  <2>1. UNCHANGED keyOf /\ \A m \in Req : Accepted(m)' <=> Accepted(m)
    BY <1>2, StoreFrame, Zenon
  <2>2. CASE UNCHANGED db
    BY <2>1, <2>2, Zenon
  <2>3. CASE Accepted(r) /\ ~KeyTaken(r) /\ db' = db \cup {r}
    BY <2>1, <2>3, Zenon DEF KeyTaken, StoredFor
  <2>4. \/ UNCHANGED db
        \/ Accepted(r) /\ ~KeyTaken(r) /\ db' = db \cup {r}
    BY <1>2, Zenon DEF StoreNext, Deliver, Store, StoreFault, MarkPersisted, AckDelivery,
                MessageCrash, HandOver, HandOverConfirm, Reap, ReapFault, storeVars,
                Shape, Accepted
  <2> QED
    BY <2>2, <2>3, <2>4, Zenon
<1>3. ASSUME NEW k \in Key, Expire(k)
      PROVE  StoredOnce'
  BY <1>3, Zenon DEF Expire, Accepted, sendVars, storeVars
<1>4. CASE UNCHANGED vars
  BY <1>4, Zenon DEF vars, Accepted, sendVars, storeVars
<1> QED
  BY <1>1, <1>2, <1>3, <1>4, Zenon DEF Next

\* What one step does to the whereabouts of message m on topic t.  A step of
\* another message, or of a request, leaves them alone.
LEMMA HandOverStep ==
    ASSUME TypeInv, Shape, [Next]_vars, NEW m \in Req, NEW t \in Topic
    PROVE  /\ Tracked(m, t) => Tracked(m, t)'
           /\ Tracked(m, t)' => Tracked(m, t) \/ m \in db'
           /\ m \in db => m \in db'
           /\ m \in db' /\ t \in Topics(m)' =>
                 \/ m \in db /\ t \in Topics(m) /\ step'[m] = step[m]
                 \/ Tracked(m, t)'
                 \/ step'[m] \in Before(t)
                 \/ m \in db /\ t \in Topics(m) /\ step[m] \notin Before(t)
<1> DEFINE Goal ==
        /\ Tracked(m, t) => Tracked(m, t)'
        /\ Tracked(m, t)' => Tracked(m, t) \/ m \in db'
        /\ m \in db => m \in db'
        /\ m \in db' /\ t \in Topics(m)' =>
              \/ m \in db /\ t \in Topics(m) /\ step'[m] = step[m]
              \/ Tracked(m, t)'
              \/ step'[m] \in Before(t)
              \/ m \in db /\ t \in Topics(m) /\ step[m] \notin Before(t)
<1> SUFFICES Goal
  OBVIOUS
<1> USE DEF TypeInv, TypeCore, CoreTypes, Shape, Topics, Before, Topic
<1>1. CASE UNCHANGED <<step, db, waiting, sent, outbox, cutOff>>
           /\ \A r \in db : keyOf'[r] = keyOf[r]
  BY <1>1, Zenon DEF Tracked
<1>2. ASSUME NEW r \in Req, SendNext(r)
      PROVE  Goal
  BY <1>1, <1>2, SendFrame, Zenon
<1>3. ASSUME NEW r \in Req, StoreNext(r)
      PROVE  Goal
  <2> USE DEF sendVars, storeVars, handVars
  <2>1. UNCHANGED keyOf
    BY <1>3, StoreFrame, Zenon
  <2>2. CASE Deliver(r)
    BY <2>1, <2>2, Zenon DEF Deliver, Tracked
  <2>3. CASE Store(r)
    BY <2>1, <2>3, Zenon DEF Store, Ack, Discard, Requeue, RetryOnce, Tracked
  <2>4. CASE StoreFault(r)
    BY <2>1, <2>4, SMTT(30) DEF StoreFault, Discard, Requeue, RetryOnce, Tracked, HandTypes
  <2>5. CASE MarkPersisted(r)
    <3>1. /\ step' = [step EXCEPT ![r] = "push"]
          /\ UNCHANGED <<db, waiting, sent, outbox, cutOff>>
      BY <2>5, Zenon DEF MarkPersisted
    <3>2. Tracked(m, t)' = Tracked(m, t) /\ Topics(m)' = Topics(m)
      BY <2>1, <3>1, Zenon DEF Tracked
    <3>3. step'[m] = step[m] \/ step'[m] = "push"
      BY <3>1, Zenon
    <3> QED
      BY <3>1, <3>2, <3>3, Zenon
  <2>6. ASSUME NEW u \in Topic, HandOver(r, u)
        PROVE  Goal
    BY <2>1, <2>6, SMTT(30) DEF HandOver, Tracked, HandTypes
  <2>7. CASE AckDelivery(r)
    BY <2>1, <2>7, Zenon DEF AckDelivery, Ack, Tracked
  <2>8. ASSUME NEW u \in Topic, HandOverConfirm(r, u)
        PROVE  Goal
    BY <2>1, <2>8, SMTT(30) DEF HandOverConfirm, Tracked, HandTypes
  <2>9. CASE MessageCrash(r)
    BY <2>1, <2>9, SMTT(30) DEF MessageCrash, Requeue, CutByCrash, Tracked, HandTypes
  <2>10. ASSUME NEW u \in Topic, Reap(r, u) \/ ReapFault(r, u)
         PROVE  Goal
    BY <2>1, <2>10, SMTT(30) DEF Reap, ReapFault, Tracked, HandTypes
  <2> QED
    BY <1>3, <2>2, <2>3, <2>4, <2>5, <2>6, <2>7, <2>8, <2>9, <2>10, Zenon DEF StoreNext
<1>4. ASSUME NEW k \in Key, Expire(k)
      PROVE  Goal
  BY <1>1, <1>4, Zenon DEF Expire, sendVars, storeVars, handVars
<1>5. CASE UNCHANGED vars
  BY <1>1, <1>5, Zenon DEF vars, sendVars, storeVars, handVars
<1> QED
  BY <1>2, <1>3, <1>4, <1>5, Zenon DEF Next

\* One step keeps the table free of duplicates and loses track of no message.
LEMMA StoreStep == StoreInv /\ [Next]_vars => StoreInv'
<1> SUFFICES ASSUME StoreInv, [Next]_vars
             PROVE  StoreInv'
  OBVIOUS
<1>1. TypeInv' /\ Shape' /\ StoredOnce'
  BY TypeStep, ShapeStep, StoredOnceStep, Zenon DEF StoreInv, TypeInv
<1>2. HandOverNotForgotten'
  BY <1>1, HandOverStep, SMTT(30)
  DEF StoreInv, HandOverNotForgotten, TypeInv, TypeCore, CoreTypes, Topics, Topic
<1>3. HandOverOnlyStored'
  BY HandOverStep, Zenon DEF StoreInv, HandOverOnlyStored
<1> QED
  BY <1>1, <1>2, <1>3, Zenon DEF StoreInv

\* The storage invariant holds at first.
LEMMA InitStored == Init => StoreInv
  BY ConstantsAssumption, SMTT(30)
  DEF Init, StoreInv, TypeInv, TypeCore, CoreTypes, HandTypes, Keyed, Shape, Accepted, IdemState, Idem, Absent,
      StoredOnce, HandOverNotForgotten, HandOverOnlyStored, Tracked

\* The storage invariant holds throughout.
THEOREM StoreInvariance == Spec => []StoreInv
  BY InitStored, StoreStep, PTL DEF Spec

\* Whatever the faults, the message table holds one row per client_msg_id: a
\* delivery that comes again is recognised (onDBMessage, insert).
THEOREM StorageSafe == Spec => []StoredOnce
<1>1. StoreInv => StoredOnce
  BY Zenon DEF StoreInv
<1> QED
  BY <1>1, StoreInvariance, PTL

\* A stored message is never lost track of on its way to Push and to the index
\* except by a fault recorded in cutOff: it is being handed over, waits in an
\* outbox, or was handed over (onDBMessage, the two reapers).
THEOREM HandOversRemembered == Spec => []HandOverNotForgotten
<1>1. StoreInv => HandOverNotForgotten
  BY Zenon DEF StoreInv
<1> QED
  BY <1>1, StoreInvariance, PTL

\* Neither Push nor the index is ever given a message that has no row, whatever
\* is retried from an outbox (onDBMessage, the two reapers).
THEOREM HandOversAreStored == Spec => []HandOverOnlyStored
<1>1. StoreInv => HandOverOnlyStored
  BY Zenon DEF StoreInv
<1> QED
  BY <1>1, StoreInvariance, PTL

-----------------------------------------------------------------------------
(* Messages that are given up *)

\* A message that comes again was failed by a fault or finds its client_msg_id
\* stored, and one that is given up cannot be stored or was failed twice.
Chances ==
    /\ redel \subseteq {m \in Req : Accepted(m) /\ (KeyTaken(m) \/ faults >= 1)}
    /\ \A m \in Req : broker[m] = "discarded" =>
          keyOf[m] \notin Storable \/ KeyTaken(m) \/ faults >= 2

GiveInv == StoreInv /\ Chances

\* Faults are counted.
LEMMA FaultCount ==
    ASSUME CoreTypes, NEW kind, Fault(kind) \/ NoFault
    PROVE  /\ faults >= 1 => faults' >= 1
           /\ faults >= 2 => faults' >= 2
           /\ Fault(kind) => faults' >= 1
           /\ Fault(kind) /\ faults >= 1 => faults' >= 2
  BY SMTT(30) DEF CoreTypes, Fault, NoFault

\* Every step counts its fault, or has none.
LEMMA FaultsCounted ==
    ASSUME [Next]_vars
    PROVE  NoFault \/ \E kind : Fault(kind)
<1> USE DEF vars, sendVars, storeVars, handVars
<1>1. ASSUME NEW r \in Req, SendNext(r)
      PROVE  NoFault \/ \E kind : Fault(kind)
  <2>1. CASE \/ \E k \in Key \cup {NoKey} : Send(r, k)
             \/ Claim(r) \/ Probe(r) \/ Reclaim(r) \/ Lookup(r)
    BY <2>1, Zenon DEF Send, Claim, Probe, Reclaim, Lookup, ErrResponse, DelIdem, SetIdem, NoFault
  <2>2. CASE Admit(r) \/ Publish(r) \/ ConfirmAcked(r) \/ ConfirmFailed(r) \/ ConfirmLost(r)
             \/ TransmiteCrash(r)
    BY <2>2, Zenon DEF Admit, Publish, ConfirmAcked, ConfirmFailed, ConfirmLost, TransmiteCrash,
                ErrResponse, DelIdem, SetIdem, NoFault
  <2> QED
    BY <1>1, <2>1, <2>2, Zenon DEF SendNext
<1>2. ASSUME NEW r \in Req, StoreNext(r)
      PROVE  NoFault \/ \E kind : Fault(kind)
  BY <1>2, Zenon DEF StoreNext, Deliver, Store, StoreFault, MarkPersisted, SetIdem, AckDelivery,
              MessageCrash, HandOver, HandOverConfirm, Reap, ReapFault, NoFault
<1> QED
  BY <1>1, <1>2, Zenon DEF Next, Expire, NoFault

\* Whose client_msg_id is stored keeps it stored.
LEMMA TakenStays ==
    ASSUME StoreInv, [Next]_vars, NEW m \in Req, Accepted(m)
    PROVE  /\ Accepted(m)' /\ keyOf'[m] = keyOf[m]
           /\ KeyTaken(m) => KeyTaken(m)'
<1>1. TypeInv /\ TypeCore /\ Shape /\ db \subseteq Req
  BY Zenon DEF StoreInv, TypeInv, TypeCore, CoreTypes
<1>2. \A r \in Req : Accepted(r) => Accepted(r)' /\ keyOf'[r] = keyOf[r]
  <2>1. ASSUME NEW r \in Req, SendNext(r)
        PROVE  \A q \in Req : Accepted(q) => Accepted(q)' /\ keyOf'[q] = keyOf[q]
    BY <1>1, <2>1, SendFrame, Zenon
  <2>2. ASSUME NEW r \in Req, StoreNext(r)
        PROVE  \A q \in Req : Accepted(q) => Accepted(q)' /\ keyOf'[q] = keyOf[q]
    BY <1>1, <2>2, StoreFrame, Zenon
  <2>3. CASE UNCHANGED <<broker, keyOf>>
    BY <2>3, Zenon DEF Accepted
  <2> QED
    BY <2>1, <2>2, <2>3, Zenon DEF Next, Expire, vars, sendVars, storeVars
<1>3. \A r \in db : r \in db'
  BY <1>1, HandOverStep, Zenon DEF Topic
<1>4. \A r \in db : Accepted(r)
  BY <1>1, Zenon DEF Shape
<1> QED
  BY <1>1, <1>2, <1>3, <1>4, Zenon DEF KeyTaken, StoredFor

\* What one step does to the messages that come again and to those given up.
LEMMA GiveUpFrame ==
    ASSUME StoreInv, [Next]_vars
    PROVE  \/ UNCHANGED redel /\ \A m \in Req : broker'[m] = "discarded" => broker[m] = "discarded"
           \/ \E r \in Req :
                 /\ Accepted(r)
                 /\ RetryOnce(r) \/ Discard(r) \/ Requeue(r)
                 /\ \/ keyOf[r] \notin Storable /\ Discard(r)
                    \/ KeyTaken(r) /\ RetryOnce(r)
                    \/ Fault("db") /\ RetryOnce(r)
                    \/ Fault("crash") /\ Requeue(r)
<1> DEFINE Rest == UNCHANGED redel /\ \A m \in Req : broker'[m] = "discarded" => broker[m] = "discarded"
<1>1. broker \in [Req -> {"unsent", "dropped", "ready", "delivered", "done", "discarded"}]
  BY Zenon DEF StoreInv, TypeInv, TypeCore, CoreTypes
<1>2. ASSUME NEW r \in Req, NEW b, b # "discarded", broker' = [broker EXCEPT ![r] = b], redel' = redel
      PROVE  Rest
  BY <1>1, <1>2, Zenon
<1>3. CASE UNCHANGED <<broker, redel>>
  BY <1>3, Zenon
<1>4. ASSUME NEW r \in Req, SendNext(r)
      PROVE  Rest
  <2>1. CASE Publish(r)
    BY <1>2, <2>1, Zenon DEF Publish
  <2> QED
    BY <1>3, <1>4, <2>1, Zenon DEF SendNext, Send, Claim, Probe, Reclaim, Lookup, Admit, ConfirmAcked,
             ConfirmFailed, ConfirmLost, TransmiteCrash, storeVars
<1>5. ASSUME NEW r \in Req, StoreNext(r), ~Rest
      PROVE  /\ Accepted(r)
             /\ \/ keyOf[r] \notin Storable /\ Discard(r)
                \/ KeyTaken(r) /\ RetryOnce(r)
                \/ Fault("db") /\ RetryOnce(r)
                \/ Fault("crash") /\ Requeue(r)
  <2>1. step[r] # "idle" => Accepted(r)
    BY Zenon DEF StoreInv, Shape, Accepted
  <2>2. CASE Deliver(r)
    BY <1>2, <1>5, <2>2, Zenon DEF Deliver
  <2>3. CASE Store(r)
    <3>1. CASE Ack(r)
      BY <1>2, <1>5, <3>1, Zenon DEF Ack
    <3> QED
      BY <1>3, <1>5, <2>1, <2>3, <3>1, Zenon DEF Store
  <2>4. CASE StoreFault(r)
    BY <2>1, <2>4, Zenon DEF StoreFault
  <2>5. CASE AckDelivery(r)
    BY <1>2, <1>5, <2>5, Zenon DEF AckDelivery, Ack
  <2>6. CASE MessageCrash(r)
    <3>1. broker[r] = "delivered" => Accepted(r)
      BY Zenon DEF Accepted
    <3> QED
      BY <1>3, <1>5, <2>6, <3>1, Zenon DEF MessageCrash
  <2>7. CASE UNCHANGED <<broker, redel>>
    BY <1>3, <1>5, <2>7, Zenon
  <2> QED
    BY <1>5, <2>2, <2>3, <2>4, <2>5, <2>6, <2>7, Zenon
    DEF StoreNext, MarkPersisted, HandOver, HandOverConfirm, Reap, ReapFault, storeVars
<1>6. ASSUME NEW k \in Key, Expire(k)
      PROVE  Rest
  BY <1>3, <1>6, Zenon DEF Expire, storeVars
<1>7. CASE UNCHANGED vars
  BY <1>3, <1>7, Zenon DEF vars, storeVars
<1> QED
  BY <1>4, <1>5, <1>6, <1>7, Zenon DEF Next, RetryOnce

\* One step gives every message its second chance.
LEMMA ChancesStep == GiveInv /\ [Next]_vars => Chances'
<1> SUFFICES ASSUME GiveInv, [Next]_vars
             PROVE  Chances'
  OBVIOUS
<1>1. StoreInv /\ CoreTypes
  BY Zenon DEF GiveInv, StoreInv, TypeInv, TypeCore
<1>2. (faults >= 1 => faults' >= 1) /\ (faults >= 2 => faults' >= 2)
  BY <1>1, FaultsCounted, FaultCount, Zenon
<1>3. ASSUME NEW m \in Req, broker[m] = "discarded"
      PROVE  keyOf'[m] \notin Storable \/ KeyTaken(m)' \/ faults' >= 2
  <2>1. Accepted(m)
    BY <1>3, Zenon DEF Accepted
  <2> QED
    BY <1>1, <1>2, <1>3, <2>1, TakenStays, Zenon DEF GiveInv, Chances
<1>4. ASSUME NEW m \in redel
      PROVE  m \in Req /\ Accepted(m)' /\ (KeyTaken(m)' \/ faults' >= 1)
  BY <1>1, <1>2, <1>4, TakenStays, Zenon DEF GiveInv, Chances
<1>5. CASE UNCHANGED redel /\ \A m \in Req : broker'[m] = "discarded" => broker[m] = "discarded"
  BY <1>3, <1>4, <1>5, Zenon DEF Chances
<1>6. ASSUME NEW r \in Req, Accepted(r),
             \/ keyOf[r] \notin Storable /\ Discard(r)
             \/ KeyTaken(r) /\ RetryOnce(r)
             \/ Fault("db") /\ RetryOnce(r)
             \/ Fault("crash") /\ Requeue(r)
      PROVE  Chances'
  <2>1. Accepted(r)' /\ keyOf'[r] = keyOf[r] /\ (KeyTaken(r) => KeyTaken(r)')
    BY <1>1, <1>6, TakenStays, Zenon
  <2>2. \A m \in Req \ {r} : broker'[m] = broker[m]
    BY <1>1, <1>6, Zenon DEF CoreTypes, Discard, Requeue, RetryOnce
  <2>3. CASE Discard(r) /\ (keyOf[r] \notin Storable \/ KeyTaken(r) \/ faults' >= 2)
    BY <1>3, <1>4, <2>1, <2>2, <2>3, Zenon DEF Chances, Discard
  <2>4. CASE Requeue(r) /\ (KeyTaken(r) \/ faults' >= 1)
    <3>1. broker'[r] = "ready"
      BY <1>1, <2>4, Zenon DEF Requeue, CoreTypes
    <3> QED
      BY <1>3, <1>4, <2>1, <2>2, <2>4, <3>1, Zenon DEF Chances, Requeue
  <2>5. Fault("db") \/ Fault("crash") => faults' >= 1 /\ (faults >= 1 => faults' >= 2)
    BY <1>1, FaultCount, Zenon
  <2>6. r \in redel => KeyTaken(r) \/ faults >= 1
    BY Zenon DEF GiveInv, Chances
  <2> QED
    BY <1>6, <2>3, <2>4, <2>5, <2>6, Zenon DEF RetryOnce
<1> QED
  BY <1>1, <1>5, <1>6, GiveUpFrame, Zenon

\* As long as there has been one fault at most, of whatever kind and wherever,
\* a message the broker took is given up only if it cannot be stored: the first
\* failure of its transaction sends it round again (onDBMessage, redelivered).
THEOREM SecondChance == Spec => [](faults < 2 => GivenUpOnlyIfUnstorable)
<1>1. Init => Chances
  BY Zenon DEF Init, Chances
<1>2. Init => StoreInv
  BY InitStored, Zenon
<1>3. GiveInv /\ [Next]_vars => GiveInv'
  BY StoreStep, ChancesStep, Zenon DEF GiveInv
<1>4. GiveInv => (faults < 2 => GivenUpOnlyIfUnstorable)
  <2> SUFFICES ASSUME GiveInv, faults < 2
               PROVE  GivenUpOnlyIfUnstorable
    OBVIOUS
  <2>1. faults \in Nat
    BY Zenon DEF GiveInv, StoreInv, TypeInv, TypeCore, CoreTypes
  <2>2. ~(faults >= 2)
    BY <2>1, SMTT(30)
  <2> QED
    BY <2>2, Zenon DEF GiveInv, Chances, GivenUpOnlyIfUnstorable
<1> QED
  BY <1>1, <1>2, <1>3, <1>4, PTL DEF Spec, GiveInv

-----------------------------------------------------------------------------
(* The promise to clients *)


\* A step of r that stays inside SendMessage, or ends it without success, is a
\* step of the promise if it does no more than open a key.
LEMMA InsideIsHidden ==
    ASSUME TypeCore, NEW r \in Req, NEW p,
           pc[r] \notin {"idle", "ok"}, p \notin {"idle", "ok"},
           pc' = [pc EXCEPT ![r] = p],
           UNCHANGED <<keyOf, broker, db, sent>>,
           rid' = rid \/ \E m : rid' = [rid EXCEPT ![r] = m],
           UNCHANGED bypassed \/ Bypass(r)
    PROVE  [Promise!Next]_Promise!vars
<1> USE DEF TypeCore, CoreTypes
<1>1. [q \in Req |-> IF pc[q] = "idle" THEN None ELSE keyOf[q]]'
        = [q \in Req |-> IF pc[q] = "idle" THEN None ELSE keyOf[q]]
  BY SMTT(30)
<1>2. [q \in Req |-> IF pc[q] = "ok" THEN rid[q] ELSE None]'
        = [q \in Req |-> IF pc[q] = "ok" THEN rid[q] ELSE None]
  BY SMTT(30)
<1>3. {q \in Req : Accepted(q)}' = {q \in Req : Accepted(q)}
  BY SMTT(30) DEF Accepted
<1>4. CASE UNCHANGED bypassed
  BY <1>1, <1>2, <1>3, <1>4, SMTT(30) DEF Promise!vars
<1>5. CASE keyOf[r] \in Key /\ bypassed' = bypassed \cup {keyOf[r]}
  <2>1. Promise!Open(keyOf[r])
    BY <1>1, <1>2, <1>3, <1>5, SMTT(30) DEF Promise!Open
  <2> QED
    BY <1>5, <2>1, SMTT(30) DEF Promise!Next
<1>6. UNCHANGED bypassed \/ (keyOf[r] \in Key /\ bypassed' = bypassed \cup {keyOf[r]})
  BY SMTT(30) DEF Bypass
<1> QED
  BY <1>4, <1>5, <1>6, SMTT(30)

\* A success response that names a message taken for the key of r is an answer
\* of the promise.
LEMMA SuccessIsAnswer ==
    ASSUME TypeCore, NEW r \in Req, NEW m \in Req,
           pc[r] \notin {"idle", "ok"}, Succeed(r, m),
           Accepted(m), pc[m] # "idle", keyOf[m] = keyOf[r],
           UNCHANGED <<broker, db, sent, bypassed>>
    PROVE  [Promise!Next]_Promise!vars
<1> USE DEF TypeCore, CoreTypes, Succeed
<1>1. [q \in Req |-> IF pc[q] = "idle" THEN None ELSE keyOf[q]]'
        = [q \in Req |-> IF pc[q] = "idle" THEN None ELSE keyOf[q]]
  BY SMTT(30)
<1>2. [q \in Req |-> IF pc[q] = "ok" THEN rid[q] ELSE None]'
        = [[q \in Req |-> IF pc[q] = "ok" THEN rid[q] ELSE None] EXCEPT ![r] = m]
  BY Zenon
<1>3. {q \in Req : Accepted(q)}' = {q \in Req : Accepted(q)}
  BY SMTT(30) DEF Accepted
<1>4. Promise!Answer(r, m)
  BY <1>1, <1>2, <1>3, SMTT(30) DEF Promise!Answer
<1> QED
  BY <1>4, SMTT(30) DEF Promise!Next

\* Every step of SendMessage is a step of the promise or hidden.
LEMMA SendKeepsPromise ==
    ASSUME IInv, NEW r \in Req, SendNext(r)
    PROVE  [Promise!Next]_Promise!vars
<1> USE DEF IInv, TypeInv, TypeCore, CoreTypes, Goto, Guarded, storeVars, handVars
<1>1. ASSUME NEW k \in Key \cup {NoKey}, Send(r, k)
      PROVE  [Promise!Next]_Promise!vars
  <2> USE <1>1, ConstantsAssumption DEF Send
  <2>1. [q \in Req |-> IF pc[q] = "idle" THEN None ELSE keyOf[q]]'
          = [[q \in Req |-> IF pc[q] = "idle" THEN None ELSE keyOf[q]] EXCEPT ![r] = k]
    BY Zenon
  <2>2. [q \in Req |-> IF pc[q] = "ok" THEN rid[q] ELSE None]'
          = [q \in Req |-> IF pc[q] = "ok" THEN rid[q] ELSE None]
    BY SMTT(30)
  <2>3. {q \in Req : Accepted(q)}' = {q \in Req : Accepted(q)}
    BY SMTT(30) DEF Accepted
  <2>4. Promise!Ask(r, k)
    BY <2>1, <2>2, <2>3, SMTT(30) DEF Promise!Ask
  <2> QED
    BY <2>4, SMTT(30) DEF Promise!Next
<1>2. CASE Claim(r)
  BY <1>2, InsideIsHidden, SMTT(30) DEF Claim
<1>3. CASE Probe(r)
  BY <1>3, InsideIsHidden, SMTT(30) DEF Probe
<1>4. CASE Reclaim(r)
  BY <1>4, InsideIsHidden, SMTT(30) DEF Reclaim, ErrResponse
<1>5. CASE Lookup(r)
  <2>1. ASSUME NEW m, Names(keyOf[r], m), Succeed(r, m)
        PROVE  [Promise!Next]_Promise!vars
    <3>1. pc[m] # "idle" /\ m \in Req /\ Accepted(m) /\ keyOf[m] = keyOf[r]
      BY <2>1, SMTT(30) DEF Names, Shape, Accepted
    <3> QED
      BY <1>5, <2>1, <3>1, SuccessIsAnswer, SMTT(30) DEF Lookup
  <2>2. \A m \in StoredFor(keyOf[r]) : Names(keyOf[r], m)
    BY SMTT(30) DEF StoredFor, Names, Shape
  <2>3. rid[r] # None => Names(keyOf[r], rid[r])
    BY <1>5, SMTT(30) DEF Named, Lookup
  <2>4. CASE Goto(r, "failed")
    BY <1>5, <2>4, InsideIsHidden, Zenon DEF Lookup
  <2> QED
    BY <1>5, <2>1, <2>2, <2>3, <2>4, SMTT(30) DEF Lookup, ErrResponse
<1>6. CASE Admit(r)
  BY <1>6, InsideIsHidden, SMTT(30) DEF Admit, ErrResponse
<1>7. CASE Publish(r)
  <2> USE <1>7 DEF Publish
  <2>1. CASE broker' = [broker EXCEPT ![r] = "dropped"]
    <3>1. {q \in Req : Accepted(q)}' = {q \in Req : Accepted(q)}
      BY <2>1, SMTT(30) DEF Accepted, Shape
    <3>2. [q \in Req |-> IF pc[q] = "idle" THEN None ELSE keyOf[q]]'
            = [q \in Req |-> IF pc[q] = "idle" THEN None ELSE keyOf[q]]
      BY SMTT(30)
    <3>3. [q \in Req |-> IF pc[q] = "ok" THEN rid[q] ELSE None]'
            = [q \in Req |-> IF pc[q] = "ok" THEN rid[q] ELSE None]
      BY SMTT(30)
    <3> QED
      BY <3>1, <3>2, <3>3, SMTT(30) DEF Promise!vars
  <2>2. CASE broker' = [broker EXCEPT ![r] = "ready"]
    <3>1. {q \in Req : Accepted(q)}' = {q \in Req : Accepted(q)} \cup {r}
      BY <2>2, SMTT(30) DEF Accepted, Shape
    <3>2. [q \in Req |-> IF pc[q] = "idle" THEN None ELSE keyOf[q]]'
            = [q \in Req |-> IF pc[q] = "idle" THEN None ELSE keyOf[q]]
      BY SMTT(30)
    <3>3. [q \in Req |-> IF pc[q] = "ok" THEN rid[q] ELSE None]'
            = [q \in Req |-> IF pc[q] = "ok" THEN rid[q] ELSE None]
      BY SMTT(30)
    <3>4. ~Accepted(r)
      BY SMTT(30) DEF Shape, Accepted
    <3>5. keyOf[r] \in Key \ bypassed
             => \A m \in {q \in Req : Accepted(q)} : keyOf[m] # keyOf[r]
      BY <3>4, SMTT(30) DEF Gate, Engaged
    <3>6. Promise!Take(r)
      BY <3>1, <3>2, <3>3, <3>5, ConstantsAssumption, SMTT(30) DEF Promise!Take
    <3> QED
      BY <3>6, SMTT(30) DEF Promise!Next
  <2> QED
    BY <2>1, <2>2, Zenon
<1>8. CASE ConfirmAcked(r)
  BY <1>8, SuccessIsAnswer, SMTT(30) DEF ConfirmAcked
<1>9. CASE ConfirmFailed(r) \/ ConfirmLost(r) \/ TransmiteCrash(r)
  BY <1>9, InsideIsHidden, SMTT(30) DEF ConfirmFailed, ConfirmLost, TransmiteCrash
<1> QED
  BY <1>1, <1>2, <1>3, <1>4, <1>5, <1>6, <1>7, <1>8, <1>9, SMTT(30) DEF SendNext

\* Every step of the broker, onDBMessage and the reapers is a step of the
\* promise or hidden.
LEMMA StoreKeepsPromise ==
    ASSUME IInv, StoreInv, NEW m \in Req, StoreNext(m)
    PROVE  [Promise!Next]_Promise!vars
<1> USE DEF IInv, TypeInv, TypeCore, CoreTypes
<1>1. /\ UNCHANGED <<pc, keyOf, rid, bypassed>>
      /\ {q \in Req : Accepted(q)}' = {q \in Req : Accepted(q)}
  BY StoreFrame, Zenon
<1>2. CASE UNCHANGED <<db, sent>>
  BY <1>1, <1>2, SMTT(30) DEF Promise!vars
<1>3. CASE step[m] = "store" /\ m \notin db /\ ~KeyTaken(m) /\ db' = db \cup {m} /\ UNCHANGED sent
  <2>1. Accepted(m) /\ pc[m] # "idle"
    BY <1>3, SMTT(30) DEF Shape, Accepted
  <2>2. \A n \in db : pc[n] # "idle"
    BY SMTT(30) DEF Shape, Accepted
  <2>3. Promise!Store(m)
    BY <1>1, <1>3, <2>1, <2>2, SMTT(30) DEF Promise!Store, KeyTaken, StoredFor
  <2> QED
    BY <2>3, SMTT(30) DEF Promise!Next
<1>4. ASSUME NEW t \in Topic, m \in db, UNCHANGED db, sent' = [sent EXCEPT ![t] = @ \cup {m}]
      PROVE  [Promise!Next]_Promise!vars
  <2>1. Promise!Hand(m, t)
    BY <1>1, <1>4, SMTT(30) DEF Promise!Hand
  <2> QED
    BY <1>4, <2>1, SMTT(30) DEF Promise!Next
<1>5. CASE Deliver(m) \/ MarkPersisted(m) \/ AckDelivery(m) \/ MessageCrash(m)
  BY <1>2, <1>5, SMTT(30) DEF Deliver, MarkPersisted, AckDelivery, MessageCrash, handVars
<1>6. CASE Store(m) \/ StoreFault(m)
  BY <1>2, <1>3, <1>6, Zenon DEF Store, StoreFault, handVars
<1>7. ASSUME NEW t \in Topic, HandOver(m, t)
      PROVE  [Promise!Next]_Promise!vars
  <2>1. m \in db
    BY <1>7, SMTT(30) DEF HandOver, Shape, Topic
  <2> QED
    BY <1>2, <1>4, <1>7, <2>1, Zenon DEF HandOver
<1>8. ASSUME NEW t \in Topic, HandOverConfirm(m, t)
      PROVE  [Promise!Next]_Promise!vars
  BY <1>2, <1>8, Zenon DEF HandOverConfirm, storeVars
<1>9. ASSUME NEW t \in Topic, Reap(m, t) \/ ReapFault(m, t)
      PROVE  [Promise!Next]_Promise!vars
  <2>1. m \in db
    BY <1>9, SMTT(30) DEF Reap, ReapFault, StoreInv, HandOverOnlyStored, Tracked
  <2> QED
    BY <1>2, <1>4, <1>9, <2>1, Zenon DEF Reap, ReapFault, storeVars
<1> QED
  BY <1>5, <1>6, <1>7, <1>8, <1>9, SMTT(30) DEF StoreNext

\* The message path implements the promise to clients: one message for each
\* client_msg_id no fault has opened, truthful answers, one row per
\* client_msg_id, and nothing handed on that is not stored.
THEOREM PromiseKept == Spec => KeepsPromise
<1>1. Init => Promise!Init
  <2> SUFFICES ASSUME Init
               PROVE  Promise!Init
    BY SMTT(30)
  <2>1. \A r \in Req : ~Accepted(r) /\ pc[r] = "idle"
    BY SMTT(30) DEF Init, Accepted
  <2>2. bypassed \subseteq Key
    BY SMTT(30) DEF Init
  <2> QED
    BY <2>1, <2>2, SMTT(30) DEF Init, Promise!Init
<1>2. IInv /\ StoreInv /\ [Next]_vars => [Promise!Next]_Promise!vars
  <2> SUFFICES ASSUME IInv, StoreInv, [Next]_vars
               PROVE  [Promise!Next]_Promise!vars
    BY SMTT(30)
  <2>1. ASSUME NEW r \in Req, SendNext(r)
        PROVE  [Promise!Next]_Promise!vars
    BY <2>1, SendKeepsPromise, SMTT(30)
  <2>2. ASSUME NEW m \in Req, StoreNext(m)
        PROVE  [Promise!Next]_Promise!vars
    BY <2>2, StoreKeepsPromise, SMTT(30)
  <2>3. ASSUME NEW k \in Key, Expire(k)
        PROVE  [Promise!Next]_Promise!vars
    <3>1. Promise!Open(k)
      BY <2>3, SMTT(30) DEF Expire, Promise!Open, sendVars, storeVars, handVars, Accepted
    <3> QED
      BY <3>1, SMTT(30) DEF Promise!Next
  <2>4. CASE UNCHANGED vars
    BY <2>4, SMTT(30) DEF vars, sendVars, storeVars, handVars, Promise!vars, Accepted
  <2> QED
    BY <2>1, <2>2, <2>3, <2>4, SMTT(30) DEF Next
<1> QED
  BY <1>1, <1>2, Invariance, StoreInvariance, PTL DEF Spec, KeepsPromise, Promise!Spec

-----------------------------------------------------------------------------
(* Nothing is taken back *)

\* A step leaves accepted messages accepted, under their key, and stored ones
\* stored.
TakesNothingBack ==
    /\ \A m \in Req : Accepted(m) => Accepted(m)' /\ keyOf'[m] = keyOf[m]
    /\ db \subseteq db'

\* What the broker has confirmed is never withdrawn, renamed or unstored, by
\* SendMessage, by requeues and discards, by the reapers or by a crash.  The
\* liveness properties QueuedIsStored and StoredIsHandedOver rest on this: a
\* condition that stays true once it is true need not be tracked from each state
\* on.
THEOREM TakenForGood == Spec => [][TakesNothingBack]_vars
<1>1. IInv /\ StoreInv /\ [Next]_vars => [TakesNothingBack]_vars
  <2> SUFFICES ASSUME IInv, StoreInv, Next
               PROVE  TakesNothingBack
    BY Zenon
  <2>1. ASSUME NEW r \in Req, SendNext(r)
        PROVE  TakesNothingBack
    <3> USE DEF IInv, TypeInv, TypeCore, CoreTypes
    <3>1. db' = db
      BY <2>1, Zenon DEF SendNext, Send, Claim, Probe, Reclaim, Lookup, Admit, Publish, ConfirmAcked,
                         ConfirmFailed, ConfirmLost, TransmiteCrash, storeVars
    <3>2. keyOf' = keyOf \/ (pc[r] = "idle" /\ \E k : keyOf' = [keyOf EXCEPT ![r] = k])
      BY <2>1, Zenon DEF SendNext, Send, Claim, Probe, Reclaim, Lookup, Admit, Publish, ConfirmAcked,
                         ConfirmFailed, ConfirmLost, TransmiteCrash, ErrResponse, Succeed, Goto
    <3>3. broker' = broker \/ (pc[r] = "publish" /\ \E b : broker' = [broker EXCEPT ![r] = b])
      BY <2>1, Zenon DEF SendNext, Send, Claim, Probe, Reclaim, Lookup, Admit, Publish, ConfirmAcked,
                         ConfirmFailed, ConfirmLost, TransmiteCrash, ErrResponse, Succeed, Goto, storeVars
    <3>4. pc[r] \in {"idle", "publish"} => ~Accepted(r)
      BY SMTT(30) DEF Shape, Accepted
    <3>5. \A m \in Req : Accepted(m) => keyOf'[m] = keyOf[m] /\ broker'[m] = broker[m]
      BY <3>2, <3>3, <3>4, SMTT(30)
    <3> QED
      BY <3>1, <3>5, Zenon DEF TakesNothingBack, Accepted
  <2>2. ASSUME NEW m \in Req, StoreNext(m)
        PROVE  TakesNothingBack
    <3>1. keyOf' = keyOf /\ {q \in Req : Accepted(q)}' = {q \in Req : Accepted(q)}
      BY <2>2, StoreFrame, Zenon DEF IInv, TypeInv
    <3>2. db \subseteq db'
      BY <2>2, Zenon DEF StoreNext, Deliver, Store, StoreFault, MarkPersisted, AckDelivery, MessageCrash,
                         HandOver, HandOverConfirm, Reap, ReapFault, storeVars, handVars
    <3> QED
      BY <3>1, <3>2, Zenon DEF TakesNothingBack
  <2>3. ASSUME NEW k \in Key, Expire(k)
        PROVE  TakesNothingBack
    BY <2>3, Zenon DEF Expire, sendVars, storeVars, TakesNothingBack, Accepted
  <2> QED
    BY <2>1, <2>2, <2>3, Zenon DEF Next
<1> QED
  BY <1>1, Invariance, StoreInvariance, PTL DEF Spec
=============================================================================
