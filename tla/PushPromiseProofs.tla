-------------------------- MODULE PushPromiseProofs --------------------------
(***************************************************************************)
(* PushDelivery implements DeviceInbox, for any number of instances,       *)
(* devices, connections and messages and any number of faults of every     *)
(* kind.                                                                   *)
(***************************************************************************)
EXTENDS PushPromise, PushDeliveryProofs

\* What a client may still acknowledge, its device has received.
OweInv ==
    \A c \in Conn :
        owe[c] # {} => /\ conn[c].st # "unused" /\ conn[c].dev \in Device
                       /\ owe[c] \subseteq got[conn[c].dev]

-----------------------------------------------------------------------------
(* What the client may acknowledge *)

\* Connections and what they owe stay, or owe less.
LEMMA OwesLess ==
    ASSUME OweInv, UNCHANGED <<conn, got>>, \A c \in Conn : owe'[c] \subseteq owe[c]
    PROVE  OweInv'
  BY Zenon DEF OweInv

\* Connections that end owe nothing; one that begins owes nothing yet.
LEMMA ConnsEnd ==
    ASSUME OweInv, UNCHANGED got,
           \A c \in Conn : \/ owe'[c] = {}
                           \/ /\ owe'[c] = owe[c] /\ conn'[c].dev = conn[c].dev
                              /\ conn[c].st # "unused" => conn'[c].st # "unused"
    PROVE  OweInv'
  BY Zenon DEF OweInv

\* What is sent is received and owed together.
LEMMA OwesSent ==
    ASSUME OweInv, TypeInv, NEW d \in Device, NEW i, NEW ms \in SUBSET Msg, LocalSend(d, i, ms)
    PROVE  OweInv'
<1>1. conn' = conn
  BY Zenon DEF LocalSend
<1>2. ASSUME NEW c \in Conn, c \notin Registered(d, i) \/ conn[c].st # "open" PROVE owe'[c] = owe[c]
  BY <1>2, Zenon DEF LocalSend
<1>3. ASSUME NEW c \in Conn, c \in Registered(d, i), conn[c].st = "open"
      PROVE  owe'[c] = owe[c] \cup ms /\ Reaches(d, i) /\ conn[c].dev = d
  BY <1>3, Zenon DEF LocalSend, Reaches, Registered
<1>4. got \in [Device -> SUBSET Msg]
  BY Zenon DEF TypeInv, Past
<1>5. \A e \in Device : got[e] \subseteq got'[e]
  BY <1>4, SMTT(30) DEF LocalSend
<1>6. Reaches(d, i) => ms \subseteq got'[d]
  BY <1>4, SMTT(30) DEF LocalSend
<1> SUFFICES ASSUME NEW c \in Conn, owe'[c] # {}
             PROVE  conn[c].st # "unused" /\ conn[c].dev \in Device /\ owe'[c] \subseteq got'[conn[c].dev]
  BY <1>1, Zenon DEF OweInv
<1>7. CASE c \notin Registered(d, i) \/ conn[c].st # "open"
  BY <1>2, <1>5, <1>7, Zenon DEF OweInv
<1>8. CASE c \in Registered(d, i) /\ conn[c].st = "open"
  <2>1. owe'[c] = owe[c] \cup ms /\ ms \subseteq got'[d] /\ conn[c].dev = d
    BY <1>3, <1>6, <1>8, Zenon
  <2>2. owe[c] \subseteq got[d]
    BY <2>1, Zenon DEF OweInv
  <2>3. conn[c].st # "unused"
    BY <1>8, SMTT(30)
  <2> QED
    BY <1>5, <2>1, <2>2, <2>3, Zenon
<1> QED
  BY <1>7, <1>8, Zenon

\* A new connection, at which older ones of the device end.
LEMMA OwesAuth ==
    ASSUME OweInv, TypeInv, NEW k \in Conn, NEW d \in Device, NEW i \in Inst, ClientAuth(k, d, i)
    PROVE  OweInv'
<1>1. got' = got
  BY Zenon DEF ClientAuth
<1>2. ASSUME NEW c \in Conn
      PROVE  \/ owe'[c] = {}
             \/ /\ owe'[c] = owe[c] /\ conn'[c].dev = conn[c].dev
                /\ conn[c].st # "unused" => conn'[c].st # "unused"
  <2>1. owe'[c] = IF conn[c].dev = d THEN {} ELSE owe[c]
    BY Zenon DEF ClientAuth
  <2>2. CASE conn[c].dev = d
    BY <2>1, <2>2, Zenon
  <2>3. CASE conn[c].dev # d /\ c = k
    <3>1. conn[c].st = "unused"
      BY <2>3, Zenon DEF ClientAuth
    <3> QED
      BY <2>1, <2>3, <3>1, Zenon DEF OweInv
  <2>4. CASE conn[c].dev # d /\ c # k
    <3>1. c \notin Registered(d, i)
      BY <2>4, Zenon DEF Registered
    <3>2. conn'[c] = conn[c]
      BY <2>4, <3>1, Zenon DEF ClientAuth
    <3> QED
      BY <2>1, <2>4, <3>2, Zenon
  <2> QED
    BY <2>2, <2>3, <2>4, Zenon
<1> QED
  BY <1>1, <1>2, ConnsEnd, Zenon

\* A connection that is lost or closed, and the death of an instance.
LEMMA OwesEnd ==
    ASSUME OweInv, TypeInv,
           \/ \E c \in Conn : LoseConn(c) \/ Close(c)
           \/ \E i \in Inst : Down(i)
    PROVE  OweInv'
<1>1. got' = got
  BY Zenon DEF LoseConn, Close, Down
<1>2. conn \in [Conn -> ConnState] /\ owe \in [Conn -> SUBSET Msg]
  BY Zenon DEF TypeInv, SockTypes
<1>3. ASSUME NEW k \in Conn, LoseConn(k) \/ Close(k) PROVE OweInv'
  <2>1. owe' = [owe EXCEPT ![k] = {}] /\ \A c \in Conn \ {k} : conn'[c] = conn[c]
    BY <1>2, <1>3, SMTT(30) DEF LoseConn, Close
  <2>2. \A c \in Conn : owe'[c] = {} \/ (owe'[c] = owe[c] /\ conn'[c] = conn[c])
    BY <1>2, <2>1, SMTT(30)
  <2> QED
    BY <1>1, <2>2, ConnsEnd, Zenon
<1>4. ASSUME NEW i \in Inst, Down(i) PROVE OweInv'
  <2>1. \A c \in Conn : owe'[c] = {} \/ (owe'[c] = owe[c] /\ conn'[c] = conn[c])
    BY <1>4, Zenon DEF Down
  <2> QED
    BY <1>1, <2>1, ConnsEnd, Zenon
<1> QED
  BY <1>3, <1>4, Zenon

\* Every step keeps it.
LEMMA OweKeeps == IInv /\ OweInv /\ [Next]_vars => OweInv'
<1> SUFFICES ASSUME IInv, OweInv, [Next]_vars PROVE OweInv'
  BY Zenon
<1>1. TypeInv /\ \A m \in Msg : Sending(m)
  BY Zenon DEF IInv, MsgInv
<1>2. CASE UNCHANGED sockVars
  BY <1>2, OwesLess, Zenon DEF sockVars
<1>3. CASE RouteStep
  BY <1>2, <1>3, Zenon DEF RouteStep, LoadRoute, FillL1, ExpireL1, ExpireRoute
<1>4. CASE SocketStep
  <2>1. ASSUME NEW c \in Conn, NEW m \in Msg, ClientAck(c, m) PROVE OweInv'
    <3>1. UNCHANGED <<conn, got>> /\ owe' = [owe EXCEPT ![c] = owe[c] \ {m}]
      BY <2>1, Zenon DEF ClientAck
    <3>2. \A k \in Conn : owe'[k] \subseteq owe[k]
      BY <1>1, <3>1, SMTT(30) DEF TypeInv, SockTypes
    <3> QED
      BY <3>1, <3>2, OwesLess, Zenon
  <2>2. ASSUME NEW i \in Inst, Bind(i) \/ Unbind(i) PROVE OweInv'
    BY <1>2, <2>2, Zenon DEF Bind, Unbind
  <2>3. ASSUME NEW c \in Conn, Heartbeat(c) PROVE OweInv'
    BY <1>2, <2>3, Zenon DEF Heartbeat
  <2> QED
    BY <1>1, <1>4, <2>1, <2>2, <2>3, OwesAuth, OwesEnd, Zenon DEF SocketStep
<1>5. CASE ResendStep
  <2>1. ASSUME NEW i \in Inst, NEW d \in Device, ResendPeek(i, d) PROVE OweInv'
    <3>1. PeekDue(d) \in SUBSET Msg
      BY Zenon DEF PeekDue
    <3>2. UNCHANGED sockVars \/ LocalSend(d, i, PeekDue(d))
      BY <2>1, Zenon DEF ResendPeek
    <3> QED
      BY <1>1, <1>2, <3>1, <3>2, OwesSent, Zenon
  <2>2. ASSUME NEW i \in Inst, ResendResolve(i) \/ ResendBump(i) PROVE OweInv'
    BY <1>2, <2>2, Zenon DEF ResendResolve, ResendBump
  <2>3. ASSUME NEW d \in Device, ExpireLedger(d) \/ \E m \in Msg : Age(d, m) PROVE OweInv'
    BY <1>2, <2>3, Zenon DEF ExpireLedger, Age
  <2> QED
    BY <1>5, <2>1, <2>2, <2>3, Zenon DEF ResendStep
<1>6. CASE InstanceStep
  <2>1. ASSUME NEW i \in Inst, Crash(i) \/ Shutdown(i) \/ ResendRouteError(i) PROVE OweInv'
    BY <1>1, <2>1, OwesEnd, Zenon DEF Crash, Shutdown, ResendRouteError
  <2>2. ASSUME NEW i \in Inst, ExpireLease(i) \/ Restart(i) PROVE OweInv'
    BY <1>2, <2>2, Zenon DEF ExpireLease, Restart
  <2> QED
    BY <1>6, <2>1, <2>2, Zenon DEF InstanceStep
<1>7. ASSUME NEW m \in Msg, ConsumeStep(m) \/ ConsumeFault(m) \/ BatchStep(m) \/ BatchError(m) PROVE OweInv'
  <2>1. CASE ConsumeSend(m)
    <3>1. LocalSend(cons[m].dev, cons[m].at, {m}) /\ cons[m].pc = "send"
      BY <2>1, Zenon DEF ConsumeSend
    <3>2. cons[m].dev \in Device /\ {m} \in SUBSET Msg
      BY <1>1, <3>1, Zenon DEF Sending
    <3> QED
      BY <1>1, <3>1, <3>2, OwesSent, Zenon
  <2>2. CASE BatchSend(m)
    <3>1. LocalSend(batch[m].dev, batch[m].at, {m}) /\ batch[m].pc = "send"
      BY <2>2, Zenon DEF BatchSend
    <3>2. batch[m].dev \in Device /\ {m} \in SUBSET Msg
      BY <1>1, <3>1, Zenon DEF Sending
    <3> QED
      BY <1>1, <3>1, <3>2, OwesSent, Zenon
  <2>3. CASE \E i \in Inst : Deliver(m, i)
    BY <1>2, <2>3, Zenon DEF Deliver
  <2>4. CASE ConsumeResolve(m) \/ ConsumeGroup(m) \/ ConsumeCall(m) \/ \E d \in Device : ConsumePersist(m, d)
    BY <1>2, <2>4, Zenon DEF ConsumeResolve, ConsumeGroup, ConsumeCall, ConsumePersist
  <2>5. CASE ConsumeFault(m)
    BY <1>2, <2>5, Zenon DEF ConsumeFault, ConsumeRouteError, ConsumeTimeout
  <2>6. CASE BatchError(m) \/ BatchResolve(m) \/ \E d \in Device : BatchPersist(m, d)
    BY <1>2, <2>6, Zenon DEF BatchError, BatchResolve, BatchPersist
  <2> QED
    BY <1>7, <2>1, <2>2, <2>3, <2>4, <2>5, <2>6, Zenon DEF ConsumeStep, BatchStep
<1>8. CASE UNCHANGED vars
  BY <1>2, <1>8, Zenon DEF vars
<1> QED
  BY <1>3, <1>4, <1>5, <1>6, <1>7, <1>8, Zenon DEF Next

\* It holds in every reachable state.
LEMMA OweInvariance == Spec => []OweInv
<1>1. Init => OweInv
  BY Zenon DEF Init, OweInv
<1> QED
  BY <1>1, OweKeeps, PushInvariance, PTL DEF Spec

-----------------------------------------------------------------------------
(* What the handlers do to the inboxes *)

Step == [Inbox!Next]_Inbox!vars

\* The handler of one message touches the queue and the PushBatch record of no
\* other.
Touches(m) ==
    /\ queue' = queue \/ \E q : queue' = [queue EXCEPT ![m] = q]
    /\ batch' = batch \/ \E b : batch' = [batch EXCEPT ![m] = b]

\* A delivery under way stays open or ends.
LEMMA OpenMoves ==
    ASSUME TypeInv, NEW m \in Open, Touches(m) PROVE Open' \in {Open, Open \ {m}}
<1>1. queue \in [Msg -> QueueState] /\ batch \in [Msg -> BatchState] /\ m \in Msg
  BY Zenon DEF TypeInv, WorkShape, Open
<1>2. \A n \in Msg \ {m} : queue'[n] = queue[n] /\ batch'[n] = batch[n]
  BY <1>1, SMTT(30) DEF Touches
<1>3. \A n \in Msg \ {m} : n \in Open' <=> n \in Open
  BY <1>2, Zenon DEF Open
<1>4. Open \subseteq Msg /\ Open' \subseteq Msg
  BY Zenon DEF Open
<1>5. CASE m \in Open'
  <2>1. \A n : n \in Open' <=> n \in Open
    BY <1>3, <1>4, <1>5, Zenon
  <2> QED
    BY <2>1, SMTT(30)
<1>6. CASE m \notin Open'
  <2>1. \A n : n \in Open' <=> n \in Open \ {m}
    BY <1>3, <1>4, <1>6, Zenon
  <2> QED
    BY <2>1, SMTT(30)
<1> QED
  BY <1>5, <1>6, Zenon

\* Ledgers in which the same entries are present are the same inboxes.
LEMMA SameOwed ==
    ASSUME \A d \in Device, m \in Msg : ledger'[d][m] # "none" <=> ledger[d][m] # "none"
    PROVE  Owed' = Owed
<1>1. \A d \in Device : {m \in Msg : ledger'[d][m] # "none"} = {m \in Msg : ledger[d][m] # "none"}
  BY Zenon
<1> QED
  BY <1>1, Zenon DEF Owed

\* A step no device notices.
LEMMA Unseen ==
    ASSUME UNCHANGED <<queue, batch, ledger, got, settled>> PROVE Step
<1>1. Open' = Open /\ Owed' = Owed
  BY Zenon DEF Open, Owed
<1> QED
  BY <1>1, Zenon DEF Step, Inbox!vars

\* A step that only moves or ends a delivery.
LEMMA Moves ==
    ASSUME NEW ms \in SUBSET Msg, Open' \in {Open, Open \ ms}, UNCHANGED <<ledger, got, settled>>
    PROVE  Step
<1>1. Owed' = Owed
  BY Zenon DEF Owed
<1> QED
  BY <1>1, Zenon DEF Step, Inbox!vars, Inbox!Next, Inbox!Close

\* persist_unacked_ enters the message.
LEMMA Enters ==
    ASSUME TypeInv, NEW d \in Device, NEW m \in Open \cap WithSeq, ledger' \in {ledger, Push(d, m)},
           Open' \in {Open, Open \ {m}}, UNCHANGED <<got, settled>>
    PROVE  Step
<1>1. m \in Msg
  BY Zenon DEF Open
<1>2. CASE ledger' = ledger
  BY <1>1, <1>2, Moves, Zenon
<1>3. CASE ledger' = Push(d, m)
  <2>1. ledger \in [Device -> [Msg -> {"none", "fresh", "due"}]]
    BY Zenon DEF TypeInv, LedgerShape
  <2>2. \A e \in Device, n \in Msg :
          ledger'[e][n] # "none" <=> (ledger[e][n] # "none" \/ (e = d /\ n = m))
    BY <1>1, <1>3, <2>1, SMTT(30) DEF Push
  <2>3. \A e \in Device : Owed'[e] = IF e = d THEN Owed[e] \cup {m} ELSE Owed[e]
    <3> SUFFICES ASSUME NEW e \in Device
                 PROVE  \A n : n \in Owed'[e] <=> n \in (IF e = d THEN Owed[e] \cup {m} ELSE Owed[e])
      BY SMTT(30)
    <3>1. \A n : n \in Owed'[e] <=> n \in Msg /\ ledger'[e][n] # "none"
      BY Zenon DEF Owed
    <3>2. \A n : n \in Owed[e] <=> n \in Msg /\ ledger[e][n] # "none"
      BY Zenon DEF Owed
    <3> QED
      BY <1>1, <2>2, <3>1, <3>2, SMTT(30)
  <2>4. Owed' = [Owed EXCEPT ![d] = Owed[d] \cup {m}]
    <3>1. Owed' = [e \in Device |-> Owed'[e]] /\ Owed = [e \in Device |-> Owed[e]]
      BY Zenon DEF Owed
    <3> HIDE DEF Owed
    <3> QED
      BY <2>3, <3>1, SMTT(30)
  <2>5. Inbox!Enter(d, m)
    BY <2>4, Zenon DEF Inbox!Enter
  <2> QED
    BY <1>1, <2>5, Zenon DEF Step, Inbox!Next
<1> QED
  BY <1>2, <1>3, Zenon

\* A send is received, or lost on the way.
LEMMA Receives ==
    ASSUME NEW d \in Device, NEW i, NEW ms \in SUBSET Msg, LocalSend(d, i, ms),
           ms \subseteq Open \cup Owed[d], ms \cap WithSeq \subseteq Owed[d] \cup settled[d],
           Open' \in {Open, Open \ ms}, UNCHANGED <<ledger, settled>>
    PROVE  Step
<1>1. CASE got' = got
  BY <1>1, Moves, Zenon
<1>2. CASE got' = [got EXCEPT ![d] = got[d] \cup ms]
  <2>1. Owed' = Owed
    BY Zenon DEF Owed
  <2>2. Inbox!Receive(d, ms)
    BY <1>2, <2>1, Zenon DEF Inbox!Receive
  <2> QED
    BY <2>2, Zenon DEF Step, Inbox!Next
<1> QED
  BY <1>1, <1>2, Zenon DEF LocalSend

\* Entries that leave the ledger leave the inbox.
LEMMA Settles ==
    ASSUME TypeInv, NEW d \in Device, NEW ms \in SUBSET Msg, Settle(d, ms),
           UNCHANGED <<queue, batch, got>>
    PROVE  Inbox!Settle(d, ms)
<1>1. ledger \in [Device -> [Msg -> {"none", "fresh", "due"}]]
  BY Zenon DEF TypeInv, LedgerShape
<1> DEFINE g == [m \in Msg |-> IF m \in ms THEN "none" ELSE ledger[d][m]]
<1>2. ledger' = [ledger EXCEPT ![d] = g]
  BY Zenon DEF Settle
<1>3. \A n \in Msg : g[n] # "none" <=> ledger[d][n] # "none" /\ n \notin ms
  BY SMTT(30)
<1> HIDE DEF g
<1>4. \A e \in Device, n \in Msg :
        ledger'[e][n] # "none" <=> (ledger[e][n] # "none" /\ ~(e = d /\ n \in ms))
  BY <1>1, <1>2, <1>3, SMTT(30)
<1>5. ASSUME NEW e \in Device
      PROVE  Owed'[e] = IF e = d THEN Owed[e] \ ms ELSE Owed[e]
  <2>1. \A n : n \in Owed'[e] <=> n \in Msg /\ ledger'[e][n] # "none"
    BY Zenon DEF Owed
  <2>2. \A n : n \in Owed[e] <=> n \in Msg /\ ledger[e][n] # "none"
    BY Zenon DEF Owed
  <2>3. CASE e = d
    <3>1. \A n : n \in Owed'[e] <=> n \in Owed[e] \ ms
      BY <1>4, <2>1, <2>2, <2>3, Zenon
    <3> QED
      BY <2>3, <3>1, SMTT(30)
  <2>4. CASE e # d
    <3>1. \A n : n \in Owed'[e] <=> n \in Owed[e]
      BY <1>4, <2>1, <2>2, <2>4, Zenon
    <3> QED
      BY <2>4, <3>1, SMTT(30)
  <2> QED
    BY <2>3, <2>4, Zenon
<1>6. Owed' = [Owed EXCEPT ![d] = Owed[d] \ ms]
  <2>1. Owed' = [e \in Device |-> Owed'[e]] /\ Owed = [e \in Device |-> Owed[e]]
    BY Zenon DEF Owed
  <2> HIDE DEF Owed
  <2> QED
    BY <1>5, <2>1, SMTT(30)
<1>7. Open' = Open
  BY Zenon DEF Open
<1> QED
  BY <1>6, <1>7, Zenon DEF Inbox!Settle, Settle

\* The death of an instance ends the PushBatch handlers left behind there, and
\* opens no delivery that was over.
LEMMA Dies ==
    ASSUME IInv, NEW i \in Inst, Down(i) PROVE Step
<1>1. ASSUME NEW m \in Msg, m \notin Open PROVE m \notin Open'
  <2>1. queue[m] = "done" /\ batch[m].pc = "idle"
    BY <1>1, Zenon DEF Open
  <2>2. cons[m] = ConsIdle
    <3>1. queue[m] # "taken" => cons[m] = ConsIdle
      BY Zenon DEF IInv, MsgInv, Placed
    <3>2. queue[m] # "taken"
      BY <2>1, SMTT(30)
    <3> QED
      BY <3>1, <3>2, Zenon
  <2>3. cons[m].at # i
    <3>1. ConsIdle.at = None
      BY Zenon DEF ConsIdle
    <3>2. None \notin Inst
      BY ConstantsAssumption, Zenon
    <3> QED
      BY <2>2, <3>1, <3>2, Zenon
  <2>4. queue'[m] = queue[m] /\ batch'[m] = batch[m]
    BY <2>1, <2>3, Zenon DEF Down
  <2> QED
    BY <2>1, <2>4, Zenon DEF Open
<1> DEFINE ms == Open \ Open'
<1>2. Open' = Open \ ms /\ ms \in SUBSET Msg
  <2>1. Open \subseteq Msg /\ Open' \subseteq Msg
    BY Zenon DEF Open
  <2> QED
    BY <1>1, <2>1, Zenon
<1> HIDE DEF ms
<1>3. UNCHANGED <<ledger, got, settled>>
  BY Zenon DEF Down, ledgerVars
<1> QED
  BY <1>2, <1>3, Moves, Zenon

-----------------------------------------------------------------------------
(* Every step of Push is a step of the inboxes *)

\* Clients, resends and the ageing of ledgers.
LEMMA SocketRefines ==
    ASSUME IInv, OweInv, SocketStep \/ ResendStep PROVE Step
<1>1. TypeInv
  BY Zenon DEF IInv
<1>2. CASE UNCHANGED <<workVars, ledgerVars, got>>
  BY <1>2, Unseen, Zenon DEF workVars, ledgerVars
<1>3. ASSUME NEW c \in Conn, NEW m \in Msg, ClientAck(c, m) PROVE Step
  <2>1. /\ m \in owe[c] /\ UNCHANGED <<queue, batch, got>>
        /\ Settle(conn[c].dev, {m}) \/ UNCHANGED <<ledger, settled>>
    BY <1>3, Zenon DEF ClientAck, workVars, ledgerVars
  <2>2. conn[c].dev \in Device /\ m \in got[conn[c].dev]
    BY <2>1, Zenon DEF OweInv
  <2>3. CASE Settle(conn[c].dev, {m})
    <3>1. Inbox!Settle(conn[c].dev, {m})
      BY <1>1, <2>1, <2>2, <2>3, Settles, Zenon
    <3>2. Inbox!Acknowledge(conn[c].dev, m)
      BY <2>2, <3>1, Zenon DEF Inbox!Acknowledge
    <3> QED
      BY <2>2, <3>2, Zenon DEF Step, Inbox!Next
  <2>4. CASE UNCHANGED <<ledger, settled>>
    BY <2>1, <2>4, Unseen, Zenon
  <2> QED
    BY <2>1, <2>3, <2>4, Zenon
<1>4. ASSUME NEW i \in Inst, NEW d \in Device, ResendPeek(i, d) PROVE Step
  <2>1. UNCHANGED <<queue, batch, ledger, settled>>
    BY <1>4, Zenon DEF ResendPeek, workVars, ledgerVars
  <2>2. PeekDue(d) \in SUBSET Msg /\ PeekDue(d) \subseteq Owed[d]
    BY SMTT(30) DEF PeekDue, Owed
  <2>3. Open' = Open
    BY <2>1, Zenon DEF Open
  <2>4. CASE LocalSend(d, i, PeekDue(d))
    <3> DEFINE ms == PeekDue(d)
    <3> HIDE DEF ms
    <3>1. /\ LocalSend(d, i, ms) /\ ms \in SUBSET Msg /\ ms \subseteq Open \cup Owed[d]
          /\ ms \cap WithSeq \subseteq Owed[d] \cup settled[d]
      BY <2>2, <2>4, Zenon DEF ms
    <3>2. Open' \in {Open, Open \ ms}
      BY <2>3, Zenon
    <3> QED
      BY <2>1, <3>1, <3>2, Receives, Zenon
  <2>5. CASE UNCHANGED sockVars
    BY <2>1, <2>5, Unseen, Zenon DEF sockVars
  <2> QED
    BY <1>4, <2>4, <2>5, Zenon DEF ResendPeek
<1>5. ASSUME NEW i \in Inst, ResendBump(i) PROVE Step
  <2>1. /\ UNCHANGED <<queue, batch, got, settled>>
        /\ ledger' = BumpScore(ws[i].dev, ws[i].seqs) \/ ledger' = ledger
    BY <1>5, Zenon DEF ResendBump, workVars, sockVars
  <2>2. CASE ledger' = BumpScore(ws[i].dev, ws[i].seqs)
    <3> DEFINE d == ws[i].dev
               ms == ws[i].seqs
               g == [m \in Msg |-> IF m \in ms /\ ledger[d][m] # "none" THEN "fresh" ELSE ledger[d][m]]
    <3>1. ledger' = [ledger EXCEPT ![d] = g]
      BY <2>2, Zenon DEF BumpScore
    <3>2. \A m \in Msg : g[m] = "none" <=> ledger[d][m] = "none"
      BY SMTT(30)
    <3> HIDE DEF g, d
    <3>3. \A e \in Device, m \in Msg : ledger'[e][m] # "none" <=> ledger[e][m] # "none"
      BY <1>1, <3>1, <3>2, SMTT(30) DEF TypeInv, LedgerShape
    <3>4. Owed' = Owed /\ Open' = Open
      BY <2>1, <3>3, SameOwed, Zenon DEF Open
    <3> QED
      BY <2>1, <3>4, Zenon DEF Step, Inbox!vars
  <2>3. CASE ledger' = ledger
    BY <2>1, <2>3, Unseen, Zenon
  <2> QED
    BY <2>1, <2>2, <2>3, Zenon
<1>6. ASSUME NEW d \in Device, NEW m \in Msg, Age(d, m) PROVE Step
  <2>1. UNCHANGED <<queue, batch, got, settled>>
    BY <1>6, Zenon DEF Age, workVars, sockVars
  <2>2. \A e \in Device, n \in Msg : ledger'[e][n] # "none" <=> ledger[e][n] # "none"
    BY <1>1, <1>6, SMTT(30) DEF Age, TypeInv, LedgerShape
  <2>3. Owed' = Owed /\ Open' = Open
    BY <2>1, <2>2, SameOwed, Zenon DEF Open
  <2> QED
    BY <2>1, <2>3, Zenon DEF Step, Inbox!vars
<1>7. ASSUME NEW d \in Device, ExpireLedger(d) PROVE Step
  <2>1. UNCHANGED <<queue, batch, got>> /\ Settle(d, Owed[d]) /\ Owed[d] \in SUBSET Msg
    BY <1>7, Zenon DEF ExpireLedger, Owed, workVars, sockVars
  <2>2. Inbox!Expire(d)
    BY <1>1, <2>1, Settles, Zenon DEF Inbox!Expire
  <2> QED
    BY <2>2, Zenon DEF Step, Inbox!Next
<1>8. ASSUME NEW c \in Conn, NEW d \in Device, NEW i \in Inst, ClientAuth(c, d, i) PROVE Step
  BY <1>2, <1>8, Zenon DEF ClientAuth
<1>9. ASSUME NEW i \in Inst, Bind(i) \/ Unbind(i) \/ ResendResolve(i) PROVE Step
  BY <1>2, <1>9, Zenon DEF Bind, Unbind, ResendResolve, sockVars
<1>10. ASSUME NEW c \in Conn, LoseConn(c) \/ Close(c) \/ Heartbeat(c) PROVE Step
  BY <1>2, <1>10, Zenon DEF LoseConn, Close, Heartbeat, sockVars
<1> QED
  BY <1>3, <1>4, <1>5, <1>6, <1>7, <1>8, <1>9, <1>10, Zenon DEF SocketStep, ResendStep

\* The delivery of a message.
LEMMA HandlerRefines ==
    ASSUME IInv, NEW m \in Msg, ConsumeStep(m) \/ ConsumeFault(m) \/ BatchStep(m) \/ BatchError(m)
    PROVE  Step
<1>1. TypeInv /\ MsgInv(m) /\ {m} \in SUBSET Msg
  BY Zenon DEF IInv
<1>2. ASSUME cons[m].pc # "idle" \/ batch[m].pc # "idle" \/ queue[m] = "ready" PROVE m \in Open
  <2>1. queue[m] = "taken" \/ queue[m] = "ready" \/ batch[m].pc # "idle"
    BY <1>1, <1>2, Taken, Zenon
  <2> QED
    BY <2>1, SMTT(30) DEF Open
<1>3. ASSUME Touches(m), UNCHANGED <<ledger, got, settled>>, m \in Open PROVE Step
  <2>1. Open' \in {Open, Open \ {m}}
    BY <1>1, <1>3, OpenMoves, Zenon
  <2> QED
    BY <1>1, <1>3, <2>1, Moves, Zenon
<1>4. ASSUME NEW d \in Device, Touches(m), m \in WithSeq, ledger' \in {ledger, Push(d, m)},
             UNCHANGED <<got, settled>>, m \in Open
      PROVE  Step
  <2>1. Open' \in {Open, Open \ {m}}
    BY <1>1, <1>4, OpenMoves, Zenon
  <2> QED
    BY <1>1, <1>4, <2>1, Enters, Zenon
<1>5. ASSUME NEW d \in Device, NEW i, LocalSend(d, i, {m}), Touches(m), m \in WithSeq => Held(d, m),
             UNCHANGED <<ledger, settled>>, m \in Open
      PROVE  Step
  <2>1. Open' \in {Open, Open \ {m}}
    BY <1>1, <1>5, OpenMoves, Zenon
  <2>2. m \in WithSeq => m \in Owed[d] \cup settled[d]
    BY <1>5, Zenon DEF Held, Owed
  <2>3. {m} \subseteq Open \cup Owed[d] /\ {m} \cap WithSeq \subseteq Owed[d] \cup settled[d]
    BY <1>5, <2>2, Zenon
  <2> QED
    BY <1>1, <1>5, <2>1, <2>3, Receives, Zenon
<1>6. ASSUME NEW i \in Inst, Deliver(m, i) PROVE Step
  <2>1. Touches(m) /\ UNCHANGED <<ledger, got, settled>> /\ queue[m] = "ready"
    BY <1>6, Zenon DEF Deliver, Touches, ledgerVars, sockVars
  <2> QED
    BY <1>2, <1>3, <2>1, Zenon
<1>7. CASE ConsumeResolve(m) \/ ConsumeGroup(m) \/ ConsumeCall(m) \/ ConsumeFault(m)
  <2>1. UNCHANGED <<ledger, got, settled>>
    BY <1>7, Zenon DEF ConsumeResolve, ConsumeGroup, ConsumeCall, ConsumeFault, ConsumeRouteError,
                       ConsumeTimeout, ledgerVars, sockVars
  <2>2. Touches(m)
    BY <1>7, Zenon DEF ConsumeResolve, ConsumeGroup, ConsumeCall, ConsumeFault, ConsumeRouteError,
                       ConsumeTimeout, LocalLoop, RemoteLoop, Ack, Requeue, Touches
  <2>3. cons[m].pc # "idle"
    <3>1. cons[m].pc \in {"resolve", "group", "call", "wait"}
      BY <1>7, Zenon DEF ConsumeResolve, ConsumeGroup, ConsumeCall, ConsumeFault, ConsumeRouteError,
                         ConsumeTimeout
    <3> QED
      BY <3>1, SMTT(30)
  <2> QED
    BY <1>2, <1>3, <2>1, <2>2, <2>3, Zenon
<1>8. CASE ConsumeSend(m)
  <2>1. LocalSend(cons[m].dev, cons[m].at, {m}) /\ UNCHANGED <<ledger, settled>> /\ cons[m].pc = "send"
    BY <1>8, Zenon DEF ConsumeSend, ledgerVars
  <2>2. Touches(m)
    BY <1>8, Zenon DEF ConsumeSend, LocalLoop, Ack, Touches
  <2>3. cons[m].dev \in Device /\ (m \in WithSeq => Held(cons[m].dev, m))
    BY <1>1, <2>1, Zenon DEF MsgInv, Sending
  <2>4. m \in Open
    BY <1>2, <2>1, SMTT(30)
  <2> QED
    BY <1>5, <2>1, <2>2, <2>3, <2>4, Zenon
<1>9. ASSUME NEW d \in Device, ConsumePersist(m, d) PROVE Step
  <2>1. Touches(m) /\ UNCHANGED <<got, settled>> /\ cons[m].pc = "persist"
    BY <1>9, Zenon DEF ConsumePersist, Requeue, Touches, sockVars
  <2>2. IF m \in WithSeq THEN ledger' \in {ledger, Push(d, m)} ELSE ledger' = ledger
    BY <1>9, Zenon DEF ConsumePersist
  <2>3. m \in Open
    BY <1>2, <2>1, SMTT(30)
  <2> QED
    BY <1>3, <1>4, <2>1, <2>2, <2>3, Zenon
<1>10. CASE BatchResolve(m)
  <2>1. UNCHANGED <<ledger, got, settled>> /\ batch[m].pc = "resolve"
    BY <1>10, Zenon DEF BatchResolve, ledgerVars, sockVars
  <2>2. Touches(m)
    BY <1>10, Zenon DEF BatchResolve, BatchLoop, Ack, Touches
  <2>3. m \in Open
    BY <1>2, <2>1, SMTT(30)
  <2> QED
    BY <1>3, <2>1, <2>2, <2>3, Zenon
<1>11. CASE BatchSend(m)
  <2>1. LocalSend(batch[m].dev, batch[m].at, {m}) /\ UNCHANGED <<ledger, settled>> /\ batch[m].pc = "send"
    BY <1>11, Zenon DEF BatchSend, ledgerVars
  <2>2. Touches(m)
    BY <1>11, Zenon DEF BatchSend, BatchLoop, Ack, Touches
  <2>3. batch[m].dev \in Device /\ (m \in WithSeq => Held(batch[m].dev, m))
    BY <1>1, <2>1, Zenon DEF MsgInv, Sending
  <2>4. m \in Open
    BY <1>2, <2>1, SMTT(30)
  <2> QED
    BY <1>5, <2>1, <2>2, <2>3, <2>4, Zenon
<1>12. ASSUME NEW d \in Device, BatchPersist(m, d) PROVE Step
  <2>1. Touches(m) /\ UNCHANGED <<got, settled>> /\ batch[m].pc = "persist"
    BY <1>12, Zenon DEF BatchPersist, Touches, sockVars
  <2>2. IF m \in WithSeq THEN ledger' \in {ledger, Push(d, m)} ELSE ledger' = ledger
    BY <1>12, Zenon DEF BatchPersist
  <2>3. m \in Open
    BY <1>2, <2>1, SMTT(30)
  <2> QED
    BY <1>3, <1>4, <2>1, <2>2, <2>3, Zenon
<1>13. CASE BatchError(m)
  <2>1. Touches(m) /\ UNCHANGED <<got, settled>>
    BY <1>13, Zenon DEF BatchError, Requeue, Touches, sockVars
  <2>2. m \in Open
    BY <1>2, <1>13, SMTT(30) DEF BatchError
  <2>3. CASE UNCHANGED ledger
    BY <1>3, <2>1, <2>2, <2>3, Zenon
  <2>4. ASSUME m \in WithSeq, NEW d \in batch[m].todo, ledger' \in {ledger, Push(d, m)} PROVE Step
    <3>1. d \in Device
      <4>1. batch[m] \in BatchState
        BY <1>1, Zenon DEF TypeInv, WorkShape
      <4> QED
        BY <2>4, <4>1, Zenon DEF BatchState
    <3> QED
      BY <1>4, <2>1, <2>2, <2>4, <3>1, Zenon
  <2> QED
    BY <1>13, <2>3, <2>4, Zenon DEF BatchError
<1> QED
  BY <1>6, <1>7, <1>8, <1>9, <1>10, <1>11, <1>12, <1>13, Zenon DEF ConsumeStep, BatchStep

\* Push keeps its promise to the devices whatever the order of deliveries,
\* requeues, PushBatch calls left behind by a timeout, acknowledgements, resends,
\* expiries and crashes: its ledgers implement the inboxes of DeviceInbox.
THEOREM PushImplementsInbox == Spec => KeepsInbox
<1>1. Init => Inbox!Init
  <2> SUFFICES ASSUME Init PROVE Inbox!Init
    BY Zenon
  <2>1. \A m \in Msg : queue[m] = "ready" /\ \A d \in Device : ledger[d][m] = "none"
    BY Zenon DEF Init
  <2>2. Open = Msg
    BY <2>1, SMTT(30) DEF Open
  <2>3. \A d \in Device : {m \in Msg : ledger[d][m] # "none"} = {}
    BY <2>1, Zenon
  <2>4. Owed = [d \in Device |-> {}]
    BY <2>3, Zenon DEF Owed
  <2> QED
    BY <2>2, <2>4, Zenon DEF Init, Inbox!Init
<1>2. IInv /\ OweInv /\ [Next]_vars => Step
  <2> SUFFICES ASSUME IInv, OweInv, [Next]_vars PROVE Step
    BY Zenon
  <2>1. CASE UNCHANGED <<workVars, ledgerVars, got>>
    BY <2>1, Unseen, Zenon DEF workVars, ledgerVars
  <2>2. CASE RouteStep
    BY <2>1, <2>2, Zenon DEF RouteStep, LoadRoute, FillL1, ExpireL1, ExpireRoute, sockVars
  <2>3. CASE InstanceStep
    <3>1. ASSUME NEW i \in Inst, Crash(i) \/ Shutdown(i) \/ ResendRouteError(i) PROVE Step
      BY <3>1, Dies, Zenon DEF Crash, Shutdown, ResendRouteError
    <3>2. ASSUME NEW i \in Inst, ExpireLease(i) \/ Restart(i) PROVE Step
      BY <2>1, <3>2, Zenon DEF ExpireLease, Restart, sockVars
    <3> QED
      BY <2>3, <3>1, <3>2, Zenon DEF InstanceStep
  <2>4. CASE UNCHANGED vars
    BY <2>1, <2>4, Zenon DEF vars, sockVars
  <2> QED
    BY <2>2, <2>3, <2>4, SocketRefines, HandlerRefines, Zenon DEF Next
<1> QED
  BY <1>1, <1>2, PushInvariance, OweInvariance, PTL DEF Spec, KeepsInbox, Inbox!Spec, Step
=============================================================================
