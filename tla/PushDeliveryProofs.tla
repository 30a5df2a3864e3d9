-------------------------- MODULE PushDeliveryProofs --------------------------
(***************************************************************************)
(* Proofs about PushDelivery, for any number of instances, devices,        *)
(* connections and messages and any number of faults of every kind.        *)
(***************************************************************************)
EXTENDS PushDelivery, TLAPS

-----------------------------------------------------------------------------
(* Records *)

\* The idle records have their types.
LEMMA Idles == ConsIdle \in ConsState /\ BatchIdle \in BatchState /\ WsIdle \in WsState /\ Gone \in ConnState
  BY Zenon DEF ConsIdle, ConsState, BatchIdle, BatchState, WsIdle, WsState, Gone, ConnState

\* The updates onPushMessage makes to its record.
LEMMA SendMove ==
    ASSUME NEW c \in ConsState, NEW d \in Device
    PROVE  LET e == [c EXCEPT !.pc = "send", !.dev = d]
           IN  e \in ConsState /\ e.pc = "send" /\ e.at = c.at /\ e.todo = c.todo /\ e.dev = d
  BY Zenon DEF ConsState

\* Waiting for the answer of a PushBatch call.
LEMMA WaitMove ==
    ASSUME NEW c \in ConsState, NEW i \in Inst
    PROVE  LET e == [c EXCEPT !.pc = "wait", !.to = i]
           IN  e \in ConsState /\ e.pc = "wait" /\ e.at = c.at
  BY Zenon DEF ConsState

\* Going on to the calls of the peers.
LEMMA CallMove ==
    ASSUME NEW c \in ConsState, NEW ps \in SUBSET Inst
    PROVE  LET e == [c EXCEPT !.pc = "call", !.peers = ps]
           IN  e \in ConsState /\ e.pc = "call" /\ e.at = c.at
  BY Zenon DEF ConsState

\* A call has been answered: the peer is struck off.
LEMMA NextCallMove ==
    ASSUME NEW c \in ConsState, NEW i
    PROVE  LET e == [c EXCEPT !.pc = "call", !.to = None, !.peers = c.peers \ {i}]
           IN  e \in ConsState /\ e.pc = "call" /\ e.at = c.at
<1>1. c.peers \ {i} \in SUBSET Inst
  BY Zenon DEF ConsState
<1> DEFINE ps == c.peers \ {i}
<1> HIDE DEF ps
<1>2. ASSUME ps \in SUBSET Inst
      PROVE  LET e == [c EXCEPT !.pc = "call", !.to = None, !.peers = ps]
             IN  e \in ConsState /\ e.pc = "call" /\ e.at = c.at
  BY <1>2, Zenon DEF ConsState
<1> QED
  BY <1>1, <1>2, Zenon DEF ps

\* The first records of a delivery and of a PushBatch handler.
LEMMA TakeMove ==
    ASSUME NEW i \in Inst
    PROVE  /\ LET e == [ConsIdle EXCEPT !.pc = "resolve", !.at = i]
              IN  e \in ConsState /\ e.pc = "resolve" /\ e.at = i
           /\ LET b == [BatchIdle EXCEPT !.pc = "resolve", !.at = i]
              IN  b \in BatchState /\ b.pc = "resolve" /\ b.at = i
<1>1. LET e == [ConsIdle EXCEPT !.pc = "resolve", !.at = i]
      IN  e \in ConsState /\ e.pc = "resolve" /\ e.at = i
  BY Zenon DEF ConsState, ConsIdle
<1>2. LET b == [BatchIdle EXCEPT !.pc = "resolve", !.at = i]
      IN  b \in BatchState /\ b.pc = "resolve" /\ b.at = i
  BY Zenon DEF BatchState, BatchIdle
<1> QED
  BY <1>1, <1>2, Zenon

\* The updates PushBatch makes to its record.
LEMMA BatchLoopMove ==
    ASSUME NEW b \in BatchState, NEW t \in SUBSET Device
    PROVE  LET e == [b EXCEPT !.pc = "persist", !.todo = t, !.dev = None]
           IN  e \in BatchState /\ e.pc = "persist" /\ e.at = b.at /\ e.todo = t
  BY Zenon DEF BatchState

\* A PushBatch handler goes on to send to a device.
LEMMA BatchSendMove ==
    ASSUME NEW b \in BatchState, NEW d \in Device
    PROVE  LET e == [b EXCEPT !.pc = "send", !.dev = d]
           IN  e \in BatchState /\ e.pc = "send" /\ e.at = b.at /\ e.todo = b.todo /\ e.dev = d
  BY Zenon DEF BatchState

-----------------------------------------------------------------------------
(* What the handlers do to the record of one message *)

QueueState == {"ready", "taken", "done"}

WorkShape ==
    /\ cons \in [Msg -> ConsState]
    /\ batch \in [Msg -> BatchState]
    /\ queue \in [Msg -> QueueState]

Same(n) == cons'[n] = cons[n] /\ batch'[n] = batch[n] /\ queue'[n] = queue[n]
Others(m) == \A n \in Msg \ {m} : Same(n)

\* One record of each kind is replaced.
LEMMA Replaced ==
    ASSUME WorkShape, NEW m \in Msg, NEW c \in ConsState, NEW b \in BatchState, NEW q \in QueueState,
           cons' = [cons EXCEPT ![m] = c], batch' = [batch EXCEPT ![m] = b],
           queue' = [queue EXCEPT ![m] = q]
    PROVE  WorkShape' /\ Others(m) /\ cons'[m] = c /\ batch'[m] = b /\ queue'[m] = q
  BY SMTT(30) DEF WorkShape, Others, Same

\* The record of onPushMessage is replaced, the others stay.
LEMMA ConsReplaced ==
    ASSUME WorkShape, NEW m \in Msg, NEW c \in ConsState, cons' = [cons EXCEPT ![m] = c],
           UNCHANGED <<batch, queue>>
    PROVE  WorkShape' /\ Others(m) /\ cons'[m] = c
  BY SMTT(30) DEF WorkShape, Others, Same

\* A new record for one PushBatch handler leaves the other messages alone.
LEMMA BatchReplaced ==
    ASSUME WorkShape, NEW m \in Msg, NEW b \in BatchState, batch' = [batch EXCEPT ![m] = b],
           UNCHANGED <<cons, queue>>
    PROVE  WorkShape' /\ Others(m) /\ batch'[m] = b
  BY SMTT(30) DEF WorkShape, Others, Same

\* The delivery ends, acknowledged or requeued.
LEMMA EndView ==
    ASSUME WorkShape, NEW m \in Msg, Ack(m) \/ Requeue(m), NEW b \in BatchState,
           (UNCHANGED batch /\ b = batch[m]) \/ batch' = [batch EXCEPT ![m] = b]
    PROVE  WorkShape' /\ Others(m) /\ cons'[m] = ConsIdle /\ batch'[m] = b
<1>1. PICK q \in QueueState : queue' = [queue EXCEPT ![m] = q]
  BY Zenon DEF Ack, Requeue, QueueState
<1>2. cons' = [cons EXCEPT ![m] = ConsIdle]
  BY Zenon DEF Ack, Requeue
<1>3. batch' = [batch EXCEPT ![m] = b]
  BY SMTT(30) DEF WorkShape
<1> QED
  BY <1>1, <1>2, <1>3, Idles, Replaced, Zenon

\* Where the loop over local devices leads.
LEMMA LocalLoopView ==
    ASSUME WorkShape, NEW m \in Msg, NEW todo \in SUBSET Device, NEW local \in BOOLEAN,
           LocalLoop(m, todo, local), UNCHANGED batch
    PROVE  /\ WorkShape' /\ Others(m)
           /\ \/ /\ cons'[m].pc = "persist" /\ todo # {}
                 /\ cons'[m].at = cons[m].at /\ cons'[m].todo = todo
                 /\ UNCHANGED <<queue, promiseVars>>
              \/ /\ cons'[m].pc = "group" /\ todo = {}
                 /\ cons'[m].at = cons[m].at
                 /\ UNCHANGED <<queue, promiseVars>>
              \/ todo = {} /\ local /\ Ack(m) /\ cons'[m] = ConsIdle
<1>1. CASE todo # {}
  <2> DEFINE c == cons[m]
             e == [c EXCEPT !.pc = "persist", !.todo = todo, !.dev = None, !.local = local]
  <2>1. cons' = [cons EXCEPT ![m] = e] /\ UNCHANGED <<queue, promiseVars>>
    BY <1>1, Zenon DEF LocalLoop
  <2>2. c \in ConsState /\ c.at = cons[m].at
    BY Zenon DEF WorkShape
  <2> HIDE DEF c
  <2>3. e \in ConsState /\ e.pc = "persist" /\ e.at = c.at /\ e.todo = todo
    BY <2>2, Zenon DEF ConsState
  <2>4. e.at = cons[m].at
    BY <2>2, <2>3, Zenon
  <2> HIDE DEF e
  <2> QED
    BY <1>1, <2>1, <2>3, <2>4, ConsReplaced, Zenon
<1>3. CASE todo = {} /\ ~local
  <2> DEFINE c == cons[m]
             e == [c EXCEPT !.pc = "group", !.todo = todo, !.dev = None, !.local = local]
  <2>1. cons' = [cons EXCEPT ![m] = e] /\ UNCHANGED <<queue, promiseVars>>
    BY <1>3, Zenon DEF LocalLoop
  <2>2. c \in ConsState /\ c.at = cons[m].at
    BY Zenon DEF WorkShape
  <2> HIDE DEF c
  <2>3. e \in ConsState /\ e.pc = "group" /\ e.at = c.at /\ e.todo = todo
    BY <2>2, Zenon DEF ConsState
  <2>4. e.at = cons[m].at
    BY <2>2, <2>3, Zenon
  <2> HIDE DEF e
  <2> QED
    BY <1>3, <2>1, <2>3, <2>4, ConsReplaced, Zenon
<1>2. CASE todo = {} /\ local
  <2>1. Ack(m) /\ batch[m] \in BatchState
    BY <1>2, Zenon DEF LocalLoop, WorkShape
  <2> QED
    BY <1>2, <2>1, EndView, Zenon
<1> QED
  BY <1>1, <1>2, <1>3, Zenon

\* Where the loop over peers leads.
LEMMA RemoteLoopView ==
    ASSUME WorkShape, NEW m \in Msg, NEW peers \in SUBSET Inst,
           RemoteLoop(m, peers), UNCHANGED batch
    PROVE  /\ WorkShape' /\ Others(m)
           /\ \/ /\ cons'[m].pc = "call" /\ cons'[m].at = cons[m].at
                 /\ UNCHANGED <<queue, promiseVars>>
              \/ peers = {} /\ Ack(m) /\ cons'[m] = ConsIdle
<1>1. CASE peers # {}
  <2> DEFINE e == [cons[m] EXCEPT !.pc = "call", !.peers = peers]
  <2>1. cons' = [cons EXCEPT ![m] = e] /\ UNCHANGED <<queue, promiseVars>>
    BY <1>1, Zenon DEF RemoteLoop
  <2>2. e \in ConsState /\ e.pc = "call" /\ e.at = cons[m].at
    BY CallMove, Zenon DEF WorkShape
  <2> HIDE DEF e
  <2> QED
    BY <2>1, <2>2, ConsReplaced, Zenon
<1>2. CASE peers = {}
  <2>1. Ack(m) /\ batch[m] \in BatchState
    BY <1>2, Zenon DEF RemoteLoop, WorkShape
  <2> QED
    BY <1>2, <2>1, EndView, Zenon
<1> QED
  BY <1>1, <1>2, Zenon

\* Where the loop of PushBatch leads.
LEMMA BatchLoopView ==
    ASSUME WorkShape, NEW m \in Msg, NEW todo \in SUBSET Device, BatchLoop(m, todo)
    PROVE  /\ WorkShape' /\ Others(m)
           /\ \/ /\ batch'[m].pc = "persist" /\ batch'[m].at = batch[m].at
                 /\ batch'[m].todo = todo /\ todo # {}
                 /\ UNCHANGED <<queue, cons, promiseVars>>
              \/ /\ todo = {} /\ batch'[m] = BatchIdle
                 /\ \/ UNCHANGED <<queue, cons, promiseVars>> /\ cons[m].pc # "wait"
                    \/ /\ cons'[m].pc = "call" /\ cons'[m].at = cons[m].at /\ cons[m].pc = "wait"
                       /\ UNCHANGED <<queue, promiseVars>>
                    \/ Ack(m) /\ cons'[m] = ConsIdle /\ cons[m].pc = "wait"
<1>1. CASE todo # {}
  <2> DEFINE e == [batch[m] EXCEPT !.pc = "persist", !.todo = todo, !.dev = None]
  <2>1. batch' = [batch EXCEPT ![m] = e] /\ UNCHANGED <<queue, cons, promiseVars>>
    BY <1>1, Zenon DEF BatchLoop
  <2>2. e \in BatchState /\ e.pc = "persist" /\ e.at = batch[m].at /\ e.todo = todo
    BY BatchLoopMove, Zenon DEF WorkShape
  <2> HIDE DEF e
  <2> QED
    BY <1>1, <2>1, <2>2, BatchReplaced, Zenon
<1>2. CASE todo = {} /\ cons[m].pc # "wait"
  <2>1. batch' = [batch EXCEPT ![m] = BatchIdle] /\ UNCHANGED <<queue, cons, promiseVars>>
    BY <1>2, Zenon DEF BatchLoop
  <2> QED
    BY <1>2, <2>1, Idles, BatchReplaced, Zenon
<1>3. CASE todo = {} /\ cons[m].pc = "wait" /\ cons[m].peers = {cons[m].to}
  <2>1. batch' = [batch EXCEPT ![m] = BatchIdle] /\ Ack(m)
    BY <1>3, Zenon DEF BatchLoop
  <2> QED
    BY <1>3, <2>1, Idles, EndView, Zenon
<1>4. CASE todo = {} /\ cons[m].pc = "wait" /\ cons[m].peers # {cons[m].to}
  <2> DEFINE e == [cons[m] EXCEPT !.pc = "call", !.to = None, !.peers = cons[m].peers \ {cons[m].to}]
  <2>1. /\ batch' = [batch EXCEPT ![m] = BatchIdle] /\ UNCHANGED <<queue, promiseVars>>
        /\ cons' = [cons EXCEPT ![m] = e]
    BY <1>4, Zenon DEF BatchLoop
  <2>2. e \in ConsState /\ e.pc = "call" /\ e.at = cons[m].at
    BY NextCallMove, Zenon DEF WorkShape
  <2> HIDE DEF e
  <2>3. PICK q \in QueueState : queue' = [queue EXCEPT ![m] = q]
    BY <2>1, SMTT(30) DEF WorkShape
  <2>4. batch' = [batch EXCEPT ![m] = BatchIdle] /\ cons' = [cons EXCEPT ![m] = e]
    BY <2>1, Zenon
  <2>5. WorkShape' /\ Others(m) /\ cons'[m] = e /\ batch'[m] = BatchIdle
    BY <2>2, <2>3, <2>4, Idles, Replaced, Zenon
  <2> QED
    BY <1>4, <2>1, <2>2, <2>5, Zenon
<1> QED
  BY <1>1, <1>2, <1>3, <1>4, Zenon

-----------------------------------------------------------------------------
(* What the handlers do to the ledger *)

LedgerShape ==
    /\ ledger \in [Device -> [Msg -> {"none", "fresh", "due"}]]
    /\ settled \in [Device -> SUBSET Msg]

\* No entry is lost that is not settled.
Keeps == LedgerShape' /\ \A d \in Device, n \in Msg : Held(d, n) => Held(d, n)'

\* No message of ms is entered.
Clean(ms) == \A d \in Device : \A n \in ms : ledger[d][n] = "none" => ledger'[d][n] = "none"

\* Ledgers that stay the same keep and resurrect nothing.
LEMMA SameLedger == ASSUME LedgerShape, UNCHANGED ledgerVars PROVE Keeps /\ Clean(Msg)
  BY Zenon DEF LedgerShape, ledgerVars, Keeps, Clean, Held

\* Adding an entry keeps the others.
LEMMA PushKeeps ==
    ASSUME LedgerShape, NEW d \in Device, NEW m \in Msg,
           ledger' \in {ledger, Push(d, m)}, UNCHANGED settled
    PROVE  Keeps /\ Clean(Msg \ {m}) /\ (ledger' = Push(d, m) => Held(d, m)')
<1>1. CASE ledger' = ledger
  <2>1. UNCHANGED ledgerVars
    BY <1>1, Zenon DEF ledgerVars
  <2>2. Keeps /\ Clean(Msg \ {m})
    BY <2>1, SameLedger, Zenon DEF Clean
  <2>3. ledger' = Push(d, m) => ledger'[d][m] = "fresh"
    BY <1>1, SMTT(30) DEF LedgerShape, Push
  <2> QED
    BY <2>2, <2>3, SMTT(30) DEF Held
<1>2. CASE ledger' = Push(d, m)
  BY <1>2, SMTT(30) DEF LedgerShape, Keeps, Clean, Held, Push
<1> QED
  BY <1>1, <1>2, Zenon

\* An entry that gets due is kept.
LEMMA AgeKeeps ==
    ASSUME LedgerShape, NEW d \in Device, NEW m \in Msg, Age(d, m)
    PROVE  Keeps /\ Clean(Msg)
  BY SMTT(30) DEF LedgerShape, Keeps, Clean, Held, Age

\* Postponed entries are kept.
LEMMA BumpKeeps ==
    ASSUME LedgerShape, NEW d, NEW ms, ledger' = BumpScore(d, ms), UNCHANGED settled
    PROVE  Keeps /\ Clean(Msg)
<1>1. CASE d \in Device
  <2> DEFINE g == [m \in Msg |-> IF m \in ms /\ ledger[d][m] # "none" THEN "fresh" ELSE ledger[d][m]]
  <2>1. /\ g \in [Msg -> {"none", "fresh", "due"}]
        /\ \A m \in Msg : g[m] = "none" <=> ledger[d][m] = "none"
    BY <1>1, SMTT(30) DEF LedgerShape
  <2>2. ledger' = [ledger EXCEPT ![d] = g]
    BY Zenon DEF BumpScore
  <2> HIDE DEF g
  <2> QED
    BY <1>1, <2>1, <2>2, SMTT(30) DEF LedgerShape, Keeps, Clean, Held
<1>2. CASE d \notin Device
  <2>1. UNCHANGED ledgerVars
    BY <1>2, SMTT(30) DEF LedgerShape, BumpScore, ledgerVars
  <2> QED
    BY <2>1, SameLedger, Zenon
<1> QED
  BY <1>1, <1>2, Zenon

\* An acknowledgement takes entries out, and settles them.
LEMMA SettleKeeps ==
    ASSUME LedgerShape, NEW d, NEW ms \in SUBSET Msg, Settle(d, ms), promise \in [Msg -> SUBSET Device]
    PROVE  /\ Keeps /\ Clean(Msg)
           /\ promise' \in [Msg -> SUBSET Device] /\ \A n \in Msg : promise'[n] \subseteq promise[n]
<1>1. promise' \in [Msg -> SUBSET Device] /\ \A n \in Msg : promise'[n] \subseteq promise[n]
  BY SMTT(30) DEF Settle
<1>2. CASE d \in Device
  <2> DEFINE g == [m \in Msg |-> IF m \in ms THEN "none" ELSE ledger[d][m]]
             t == settled[d] \cup ms
  <2>1. /\ g \in [Msg -> {"none", "fresh", "due"}] /\ t \in SUBSET Msg
        /\ \A m \in Msg : ledger[d][m] = "none" => g[m] = "none"
        /\ \A m \in Msg : ledger[d][m] # "none" \/ m \in settled[d] => g[m] # "none" \/ m \in t
    BY <1>2, SMTT(30) DEF LedgerShape
  <2>2. ledger' = [ledger EXCEPT ![d] = g] /\ settled' = [settled EXCEPT ![d] = t]
    BY Zenon DEF Settle
  <2> HIDE DEF g, t
  <2> QED
    BY <1>1, <1>2, <2>1, <2>2, SMTT(30) DEF LedgerShape, Keeps, Clean, Held
<1>3. CASE d \notin Device
  <2>1. ledger' = ledger /\ settled' = settled
    BY <1>3, SMTT(30) DEF LedgerShape, Settle
  <2> QED
    BY <1>1, <2>1, SameLedger, Zenon DEF ledgerVars
<1> QED
  BY <1>2, <1>3, Zenon

-----------------------------------------------------------------------------
(* What the handlers do to connections and to the route *)

\* A function updated anywhere with a value of its range.
LEMMA Updated ==
    ASSUME NEW S, NEW T, NEW f \in [S -> T], NEW x, NEW v \in T
    PROVE  [f EXCEPT ![x] = v] \in [S -> T]
  BY Zenon

\* The types after a send to a device.
LEMMA SendTypes ==
    ASSUME SockTypes, got \in [Device -> SUBSET Msg], NEW d, NEW i, NEW ms \in SUBSET Msg,
           LocalSend(d, i, ms)
    PROVE  /\ conn' = conn /\ owe' \in [Conn -> SUBSET Msg]
           /\ got' \in [Device -> SUBSET Msg]
           /\ \A e \in Device : got'[e] \subseteq got[e] \cup (IF e = d THEN ms ELSE {})
<1>1. conn' = conn
  BY Zenon DEF LocalSend
<1>2. owe' \in [Conn -> SUBSET Msg]
  BY SMTT(30) DEF LocalSend, SockTypes
<1>3. CASE got' = got
  BY <1>1, <1>2, <1>3, SMTT(30)
<1>4. CASE got' = [got EXCEPT ![d] = got[d] \cup ms]
  <2> DEFINE t == got[d] \cup ms
  <2>1. CASE d \in Device
    <3>1. t \in SUBSET Msg /\ t \subseteq got[d] \cup ms
      BY <2>1, Zenon
    <3>2. got' = [got EXCEPT ![d] = t]
      BY <1>4, Zenon
    <3> HIDE DEF t
    <3> QED
      BY <1>1, <1>2, <2>1, <3>1, <3>2, SMTT(30)
  <2>2. CASE d \notin Device
    <3>1. got' = got
      BY <1>4, <2>2, SMTT(30)
    <3> QED
      BY <1>1, <1>2, <3>1, SMTT(30)
  <2> QED
    BY <2>1, <2>2, Zenon
<1> QED
  BY <1>3, <1>4, Zenon DEF LocalSend

\* The types after a handler of the web-socket thread goes on.
LEMMA WsTypes ==
    ASSUME ws \in [Inst -> WsState], NEW i, NEW w \in WsState, ws' = [ws EXCEPT ![i] = w]
    PROVE  ws' \in [Inst -> WsState]
  BY Updated, Zenon

\* The types after a handler of the web-socket thread ends.
LEMMA WsDoneTypes ==
    ASSUME ws \in [Inst -> WsState], NEW i, WsDone(i)
    PROVE  ws' \in [Inst -> WsState]
  BY Idles, WsTypes, Zenon DEF WsDone

\* The types after a handler of the web-socket thread begins.
LEMMA WsOpTypes ==
    ASSUME ws \in [Inst -> WsState], NEW i, NEW d \in Device \cup {None},
           Ws(i, "bind", d) \/ Ws(i, "unbind", d) \/ Ws(i, "resolve", d)
    PROVE  ws' \in [Inst -> WsState]
<1>1. ASSUME NEW op \in {"bind", "unbind", "resolve"}
      PROVE  [WsIdle EXCEPT !.op = op, !.dev = d] \in WsState
  BY <1>1, Zenon DEF WsIdle, WsState
<1>2. PICK op \in {"bind", "unbind", "resolve"} : Ws(i, op, d)
  BY Zenon
<1> DEFINE w == [WsIdle EXCEPT !.op = op, !.dev = d]
<1>3. w \in WsState /\ ws' = [ws EXCEPT ![i] = w]
  BY <1>1, <1>2, Zenon DEF Ws
<1> HIDE DEF w
<1> QED
  BY <1>3, WsTypes, Zenon

\* The types after a resend goes on to the next device.
LEMMA WsNextTypes ==
    ASSUME ws \in [Inst -> WsState], NEW i, NEW todo \in SUBSET Device, WsNext(i, todo)
    PROVE  ws' \in [Inst -> WsState]
<1> DEFINE w == [WsIdle EXCEPT !.op = "peek", !.todo = todo]
<1>1. w \in WsState
  BY Zenon DEF WsIdle, WsState
<1>2. ws' = [ws EXCEPT ![i] = WsIdle] \/ ws' = [ws EXCEPT ![i] = w]
  BY Zenon DEF WsNext
<1> HIDE DEF w
<1> QED
  BY <1>1, <1>2, Idles, WsTypes, Zenon

\* A new route ends the quiet of the deliveries, unless it is the old one.
LEMMA SetRouteView ==
    ASSUME NEW r \in Route, SetRoute(r), quiet \subseteq Msg
    PROVE  route' \in Route /\ quiet' \subseteq quiet /\ quiet' \subseteq Msg /\ (quiet' # {} => route' = route)
  BY Zenon DEF SetRoute

\* Binding, unbinding, expiry and shutdown give routes.
LEMMA RouteMoves ==
    ASSUME route \in Route, NEW d, NEW i \in Inst
    PROVE  /\ [route EXCEPT ![d] = i] \in Route /\ Unbound(d, i) \in Route
           /\ [e \in Device |-> None] \in Route
           /\ [e \in Device |-> IF route[e] = i THEN None ELSE route[e]] \in Route
<1>1. [route EXCEPT ![d] = i] \in Route /\ [route EXCEPT ![d] = None] \in Route
  BY Updated, Zenon DEF Route
<1>2. Unbound(d, i) \in Route
  BY <1>1, Zenon DEF Unbound
<1>3. [e \in Device |-> None] \in Route
  BY SMTT(30) DEF Route
<1>4. [e \in Device |-> IF route[e] = i THEN None ELSE route[e]] \in Route
  BY SMTT(30) DEF Route
<1> QED
  BY <1>1, <1>2, <1>3, <1>4, Zenon

-----------------------------------------------------------------------------
(* The inductive invariant *)

Past ==
    /\ got \in [Device -> SUBSET Msg]
    /\ quiet \subseteq Msg
    /\ promise \in [Msg -> SUBSET Device]
    /\ spread \subseteq Msg

TypeInv == RouteTypes /\ SockTypes /\ WorkShape /\ LedgerShape /\ faults \in Nat /\ Past

\* A delivery under way runs at some instance, and only messages taken from the
\* queue are under way.
Placed(m) ==
    /\ cons[m].pc # "idle" => cons[m].at \in Inst
    /\ batch[m].pc # "idle" => batch[m].at \in Inst
    /\ queue[m] # "taken" => cons[m] = ConsIdle

\* A handler about to send has the ledger entry.
Sending(m) ==
    /\ cons[m].pc = "send" => cons[m].dev \in Device /\ (m \in WithSeq => Held(cons[m].dev, m))
    /\ batch[m].pc = "send" => batch[m].dev \in Device /\ (m \in WithSeq => Held(batch[m].dev, m))

\* The devices of the user at instance i.
Here(i) == {d \in Device : route[d] = i}

\* While the route stays the same, the devices a delivery has passed have the
\* ledger entry.
Covered(m) ==
    m \in quiet \cap WithSeq =>
      /\ cons[m].pc \in {"persist", "send"} =>
           /\ cons[m].todo \subseteq Here(cons[m].at)
           /\ \A d \in Here(cons[m].at) \ cons[m].todo : Held(d, m)
      /\ cons[m].pc = "send" => cons[m].dev \in cons[m].todo
      /\ cons[m].pc \in {"group", "call", "wait"} => \A d \in Here(cons[m].at) : Held(d, m)
      /\ cons[m].pc = "wait" /\ batch[m].pc \in {"persist", "send"} =>
           \A d \in Routed(route) \ batch[m].todo : Held(d, m)

MsgInv(m) == Placed(m) /\ Sending(m) /\ Covered(m)

\* The route seen by such deliveries is the one every cache holds.
QuietInv == quiet # {} => RouteKnown

IInv == TypeInv /\ QuietInv /\ (\A m \in Msg : MsgInv(m)) /\ AcknowledgedIsHeld /\ PersistedBeforeSent

\* The number of faults is a number.
LEMMA FaultTypes ==
    ASSUME faults \in Nat, NoFault \/ \E k : Fault(k) PROVE faults' \in Nat
  BY SMTT(30) DEF NoFault, Fault

\* What a step leaves of a message it does not handle, and what it may do to one
\* whose handlers die.
Calm(n) ==
    /\ \/ cons'[n] = cons[n] /\ queue'[n] = queue[n]
       \/ cons'[n] = ConsIdle /\ queue'[n] = "ready"
    /\ batch'[n] = batch[n] \/ batch'[n] = BatchIdle

\* A message that is not handled keeps its invariant.
LEMMA Untouched ==
    ASSUME NEW n \in Msg, TypeInv, MsgInv(n), Calm(n), Keeps,
           n \in quiet' => n \in quiet /\ route' = route
    PROVE  MsgInv(n)'
<1> USE DEF MsgInv
<1>1. ConsIdle.pc = "idle" /\ BatchIdle.pc = "idle"
  BY Zenon DEF ConsIdle, BatchIdle
<1>2. \A d \in Device : Held(d, n) => Held(d, n)'
  BY Zenon DEF Keeps
<1>3. Placed(n)'
  BY <1>1, Zenon DEF Calm, Placed
<1>4. Sending(n)'
  BY <1>1, <1>2, SMTT(30) DEF Calm, Sending
<1>5. ASSUME n \in quiet' \cap WithSeq PROVE Covered(n)'
  <2>1. /\ n \in quiet \cap WithSeq
        /\ \A i : Here(i)' = Here(i) /\ Here(i) \subseteq Device
        /\ Routed(route)' = Routed(route) /\ Routed(route) \subseteq Device
    BY <1>5, Zenon DEF Here, Routed
  <2>2. CASE cons'[n] = ConsIdle
    BY <1>1, <2>2, SMTT(30) DEF Covered
  <2>3. CASE cons'[n] = cons[n]
    <3>1. cons[n].pc \in {"persist", "send"} =>
            /\ cons[n].todo \subseteq Here(cons[n].at)
            /\ \A d \in Here(cons[n].at) \ cons[n].todo : Held(d, n)'
      BY <1>2, <2>1, Zenon DEF Covered
    <3>2. cons[n].pc = "send" => cons[n].dev \in cons[n].todo
      BY <2>1, Zenon DEF Covered
    <3>3. cons[n].pc \in {"group", "call", "wait"} => \A d \in Here(cons[n].at) : Held(d, n)'
      BY <1>2, <2>1, Zenon DEF Covered
    <3>4. cons[n].pc = "wait" /\ batch'[n].pc \in {"persist", "send"} =>
            \A d \in Routed(route) \ batch'[n].todo : Held(d, n)'
      BY <1>1, <1>2, <2>1, SMTT(30) DEF Covered, Calm
    <3> QED
      BY <2>1, <2>3, <3>1, <3>2, <3>3, <3>4, Zenon DEF Covered
  <2> QED
    BY <2>2, <2>3, Zenon DEF Calm
<1>6. ASSUME n \notin quiet' \cap WithSeq PROVE Covered(n)'
  BY <1>6, Zenon DEF Covered
<1> QED
  BY <1>3, <1>4, <1>5, <1>6, Zenon

\* A message whose records do not change is calm.
LEMMA SameIsCalm == \A n : Same(n) => Calm(n)
  BY Zenon DEF Same, Calm

\* A step that handles no message, except that handlers may die.
LEMMA Background ==
    ASSUME IInv, TypeInv', QuietInv', Keeps, Clean(Msg), \A n \in Msg : Calm(n),
           quiet' \subseteq quiet, quiet' # {} => route' = route, UNCHANGED spread,
           \A n \in Msg : promise'[n] \subseteq promise[n],
           \A d \in Device : \A n \in got'[d] \ got[d] : Held(d, n)'
    PROVE  IInv' /\ AckStays
<1>1. \A n \in Msg : MsgInv(n)'
  BY Untouched, Zenon DEF IInv
<1>2. \A d \in Device, n \in Msg : Held(d, n) => Held(d, n)'
  BY Zenon DEF Keeps
<1>3. AcknowledgedIsHeld'
  <2> SUFFICES ASSUME NEW n \in Msg, n \notin spread, NEW d, d \in promise'[n]
               PROVE  Held(d, n)'
    BY Zenon DEF AcknowledgedIsHeld
  <2>1. d \in promise[n] /\ d \in Device
    BY Zenon DEF IInv, TypeInv, Past
  <2> QED
    BY <1>2, <2>1, Zenon DEF IInv, AcknowledgedIsHeld
<1>4. PersistedBeforeSent'
  <2> SUFFICES ASSUME NEW d \in Device, NEW n, n \in got'[d], n \in WithSeq
               PROVE  Held(d, n)'
    BY Zenon DEF PersistedBeforeSent
  <2>1. n \in Msg
    BY Zenon DEF TypeInv, Past
  <2>2. CASE n \in got[d]
    BY <1>2, <2>1, <2>2, Zenon DEF IInv, PersistedBeforeSent
  <2> QED
    BY <2>2, Zenon
<1>5. AckStays
  BY Zenon DEF AckStays, Clean
<1> QED
  BY <1>1, <1>3, <1>4, <1>5, Zenon DEF IInv

\* A step that handles message m.
LEMMA Handling ==
    ASSUME IInv, TypeInv', NEW m \in Msg, Others(m), Keeps, Clean(Msg \ {m}), UNCHANGED routeVars,
           UNCHANGED ledger \/ cons[m].pc # "idle" \/ batch[m].pc # "idle",
           MsgInv(m)',
           quiet' \subseteq quiet \cup {m}, quiet' # {} => RouteKnown,
           \/ UNCHANGED <<promise, spread>>
           \/ Ack(m) /\ (m \in quiet \cap WithSeq /\ OneHome(route) =>
                           \A d \in Routed(route) : Held(d, m)),
           \A d \in Device : \A n \in got'[d] \ got[d] : n \in WithSeq => Held(d, n)'
    PROVE  IInv' /\ AckStays
<1>1. \A n \in Msg : MsgInv(n)'
  <2> SUFFICES ASSUME NEW n \in Msg, n # m PROVE MsgInv(n)'
    BY Zenon
  <2>1. Calm(n) /\ (n \in quiet' => n \in quiet /\ route' = route)
    BY SameIsCalm, Zenon DEF Others, routeVars
  <2> QED
    BY <2>1, Untouched, Zenon DEF IInv
<1>2. \A d \in Device, n \in Msg : Held(d, n) => Held(d, n)'
  BY Zenon DEF Keeps
<1>3. AcknowledgedIsHeld'
  <2> SUFFICES ASSUME NEW n \in Msg, n \notin spread', NEW d, d \in promise'[n]
               PROVE  Held(d, n)'
    BY Zenon DEF AcknowledgedIsHeld
  <2>1. CASE n \notin spread /\ d \in promise[n]
    <3>1. d \in Device
      BY <2>1, Zenon DEF IInv, TypeInv, Past
    <3> QED
      BY <1>2, <2>1, <3>1, Zenon DEF IInv, AcknowledgedIsHeld
  <2>2. CASE Ack(m) /\ (m \in quiet \cap WithSeq /\ OneHome(route) =>
                           \A e \in Routed(route) : Held(e, m))
    <3>1. n \notin spread
      BY <2>2, SMTT(30) DEF Ack
    <3>2. CASE n # m
      <4>1. promise'[n] = promise[n]
        BY <2>2, <3>2, SMTT(30) DEF Ack, IInv, TypeInv, Past
      <4> QED
        BY <2>1, <3>1, <4>1, Zenon
    <3>3. CASE n = m
      <4>1. promise'[m] = IF m \in quiet \cap WithSeq THEN {e \in Routed(route) : m \notin settled[e]} ELSE {}
        BY <2>2, SMTT(30) DEF Ack, IInv, TypeInv, Past
      <4>2. m \in quiet \cap WithSeq /\ d \in Routed(route)
        BY <3>3, <4>1, SMTT(30)
      <4>3. OneHome(route)
        BY <2>2, <3>3, <4>1, SMTT(30) DEF Ack
      <4>4. d \in Device
        BY <4>2, Zenon DEF Routed
      <4> QED
        BY <1>2, <2>2, <3>3, <4>2, <4>3, <4>4, Zenon
    <3> QED
      BY <3>2, <3>3, Zenon
  <2> QED
    BY <2>1, <2>2, Zenon
<1>4. PersistedBeforeSent'
  <2> SUFFICES ASSUME NEW d \in Device, NEW n, n \in got'[d], n \in WithSeq
               PROVE  Held(d, n)'
    BY Zenon DEF PersistedBeforeSent
  <2>1. n \in Msg
    BY Zenon DEF TypeInv, Past
  <2>2. CASE n \in got[d]
    BY <1>2, <2>1, <2>2, Zenon DEF IInv, PersistedBeforeSent
  <2> QED
    BY <2>2, Zenon
<1>5. QuietInv'
  BY Zenon DEF QuietInv, RouteKnown, routeVars
<1>6. AckStays
  <2> SUFFICES ASSUME NEW d \in Device, NEW n \in Msg,
                      queue[n] = "done", batch[n].pc = "idle", ledger[d][n] = "none"
               PROVE  ledger'[d][n] = "none"
    BY Zenon DEF AckStays
  <2>1. CASE n # m
    BY <2>1, Zenon DEF Clean
  <2>2. CASE n = m
    <3>1. cons[n].pc = "idle"
      BY SMTT(30) DEF IInv, MsgInv, Placed, ConsIdle
    <3> QED
      BY <2>2, <3>1, Zenon
  <2> QED
    BY <2>1, <2>2, Zenon
<1> QED
  BY <1>1, <1>3, <1>4, <1>5, <1>6, Zenon DEF IInv


-----------------------------------------------------------------------------
(* Steps that handle no message *)

\* The histories when no message is handled.
PastGoesOn ==
    /\ Past' /\ UNCHANGED spread
    /\ quiet' \subseteq quiet /\ (quiet' # {} => route' = route)
    /\ \A n \in Msg : promise'[n] \subseteq promise[n]
    /\ \A d \in Device : \A n \in got'[d] \ got[d] : Held(d, n)'

\* What was promised and received stays past if route and history do not change.
LEMMA PastFrame == ASSUME IInv, UNCHANGED <<got, promiseVars, route>> PROVE PastGoesOn
  BY Zenon DEF IInv, TypeInv, Past, PastGoesOn, promiseVars

\* A change of the route breaks no promise: it ends the quiet.
LEMMA PastRouted ==
    ASSUME IInv, UNCHANGED <<got, promise, spread>>, NEW r \in Route, SetRoute(r)
    PROVE  PastGoesOn /\ route' \in Route
<1>1. /\ route' \in Route /\ quiet' \subseteq quiet /\ quiet' \subseteq Msg
      /\ quiet' # {} => route' = route
  BY SetRouteView, Zenon DEF IInv, TypeInv, Past
<1>2. got' = got /\ promise' = promise /\ spread' = spread
  BY Zenon
<1>3. Past'
  BY <1>1, <1>2, Zenon DEF IInv, TypeInv, Past
<1> QED
  BY <1>1, <1>2, <1>3, Zenon DEF PastGoesOn

\* Instances that come and go leave the routes their types.
LEMMA RouteFrame ==
    ASSUME IInv, UNCHANGED <<route, l1, fill>>, quiet' \subseteq quiet, alive' \subseteq Inst, listed' \subseteq Inst
    PROVE  RouteTypes' /\ QuietInv'
<1>1. RouteTypes'
  BY Zenon DEF IInv, TypeInv, RouteTypes
<1>2. QuietInv'
  BY Zenon DEF IInv, QuietInv, RouteKnown
<1> QED
  BY <1>1, <1>2, Zenon

\* Routes that stay the same.
LEMMA SameRoutes == ASSUME IInv, UNCHANGED routeVars, quiet' \subseteq quiet PROVE RouteTypes' /\ QuietInv'
<1>1. UNCHANGED <<route, l1, fill>> /\ alive' \subseteq Inst /\ listed' \subseteq Inst
  BY Zenon DEF routeVars, IInv, TypeInv, RouteTypes
<1> QED
  BY <1>1, RouteFrame, Zenon

\* Cached routes are forgotten, or replaced by the route.
LEMMA CachesMove ==
    ASSUME IInv, PastGoesOn, route' \in Route, alive' \subseteq Inst, listed' \subseteq Inst,
           l1' \in [Inst -> Route \cup {NoEntry}], fill' \in [Inst -> Route \cup {NoEntry}],
           \A i \in Inst : l1'[i] \in {NoEntry, l1[i], fill[i]} /\ fill'[i] \in {NoEntry, fill[i], route}
    PROVE  RouteTypes' /\ QuietInv'
<1>1. RouteTypes'
  BY Zenon DEF RouteTypes
<1>2. ASSUME quiet' # {} PROVE RouteKnown'
  <2>1. quiet # {} /\ route' = route
    BY <1>2, Zenon DEF PastGoesOn
  <2>2. \A i \in Inst : l1[i] \in {NoEntry, route} /\ fill[i] \in {NoEntry, route}
    BY <2>1, Zenon DEF IInv, QuietInv, RouteKnown
  <2>3. \A i \in Inst : l1'[i] \in {NoEntry, route} /\ fill'[i] \in {NoEntry, route}
    BY <2>2, SMTT(30)
  <2> QED
    BY <2>1, <2>3, Zenon DEF RouteKnown
<1> QED
  BY <1>1, <1>2, Zenon DEF QuietInv

\* Connections that stay the same.
LEMMA SockFrame == ASSUME IInv, UNCHANGED <<conn, owe, ws>> PROVE SockTypes'
  BY Zenon DEF IInv, TypeInv, SockTypes

\* Ledgers that stay the same, under the invariant.
LEMMA SameLedgers == ASSUME IInv, UNCHANGED ledgerVars PROVE Keeps /\ Clean(Msg)
  BY SameLedger, Zenon DEF IInv, TypeInv

\* Deliveries that stay the same.
LEMMA SameWork == ASSUME IInv, UNCHANGED workVars PROVE WorkShape' /\ \A n \in Msg : Calm(n)
  BY Zenon DEF IInv, TypeInv, WorkShape, workVars, Calm

\* The number of faults, under the invariant.
LEMMA Faults == ASSUME IInv, UNCHANGED faults \/ NoFault \/ \E k : Fault(k) PROVE faults' \in Nat
  BY FaultTypes, Zenon DEF IInv, TypeInv, NoFault

\* A step that handles no message keeps the invariant if its parts are in order.
LEMMA Rest ==
    ASSUME IInv, RouteTypes' /\ QuietInv', SockTypes', faults' \in Nat, Keeps /\ Clean(Msg),
           WorkShape' /\ (\A n \in Msg : Calm(n)), PastGoesOn
    PROVE  IInv' /\ AckStays
<1>1. TypeInv'
  BY Zenon DEF TypeInv, Keeps, PastGoesOn
<1> QED
  BY <1>1, Background, Zenon DEF PastGoesOn

\* The types that the invariant contains.
LEMMA Parts ==
    ASSUME IInv
    PROVE  /\ alive \subseteq Inst /\ listed \subseteq Inst /\ route \in Route
           /\ l1 \in [Inst -> Route \cup {NoEntry}] /\ fill \in [Inst -> Route \cup {NoEntry}]
           /\ conn \in [Conn -> ConnState] /\ owe \in [Conn -> SUBSET Msg] /\ ws \in [Inst -> WsState]
           /\ got \in [Device -> SUBSET Msg] /\ promise \in [Msg -> SUBSET Device] /\ quiet \subseteq Msg
           /\ SockTypes /\ WorkShape /\ LedgerShape
  BY Zenon DEF IInv, TypeInv, RouteTypes, SockTypes, Past

\* LoadRoute keeps the invariant and settled entries.
LEMMA LoadRouteStep ==
    ASSUME IInv, NEW i \in Inst, LoadRoute(i) PROVE IInv' /\ AckStays
<1>1. PastGoesOn
  BY PastFrame, Zenon DEF LoadRoute, routeVars, sockVars, ledgerVars, workVars, promiseVars
<1>2. RouteTypes' /\ QuietInv'
  <2>1. /\ alive' \subseteq Inst /\ listed' \subseteq Inst /\ route' \in Route
        /\ l1' = l1 /\ fill' = [fill EXCEPT ![i] = route]
    BY Parts, Zenon DEF LoadRoute, routeVars, sockVars, ledgerVars, workVars, promiseVars
  <2>2. /\ l1' \in [Inst -> Route \cup {NoEntry}] /\ fill' \in [Inst -> Route \cup {NoEntry}]
        /\ \A j \in Inst : l1'[j] \in {NoEntry, l1[j], fill[j]} /\ fill'[j] \in {NoEntry, fill[j], route}
    BY <2>1, Parts, SMTT(30)
  <2> QED
    BY <1>1, <2>1, <2>2, CachesMove, Zenon
<1>3. SockTypes'
  BY SockFrame, Zenon DEF LoadRoute, routeVars, sockVars, ledgerVars, workVars, promiseVars
<1>4. faults' \in Nat
  BY Faults, Zenon DEF LoadRoute, routeVars, sockVars, ledgerVars, workVars, promiseVars
<1>5. Keeps /\ Clean(Msg)
  BY SameLedgers, Zenon DEF LoadRoute, routeVars, sockVars, ledgerVars, workVars, promiseVars
<1>6. WorkShape' /\ \A n \in Msg : Calm(n)
  BY SameWork, Zenon DEF LoadRoute, routeVars, sockVars, ledgerVars, workVars, promiseVars
<1> QED
  BY <1>1, <1>2, <1>3, <1>4, <1>5, <1>6, Rest, Zenon

\* FillL1 keeps the invariant and settled entries.
LEMMA FillL1Step ==
    ASSUME IInv, NEW i \in Inst, FillL1(i) PROVE IInv' /\ AckStays
<1>1. PastGoesOn
  BY PastFrame, Zenon DEF FillL1, routeVars, sockVars, ledgerVars, workVars, promiseVars
<1>2. RouteTypes' /\ QuietInv'
  <2>1. /\ alive' \subseteq Inst /\ listed' \subseteq Inst /\ route' \in Route
        /\ l1' = [l1 EXCEPT ![i] = fill[i]] /\ fill' = [fill EXCEPT ![i] = NoEntry]
    BY Parts, Zenon DEF FillL1, routeVars, sockVars, ledgerVars, workVars, promiseVars
  <2>2. /\ l1' \in [Inst -> Route \cup {NoEntry}] /\ fill' \in [Inst -> Route \cup {NoEntry}]
        /\ \A j \in Inst : l1'[j] \in {NoEntry, l1[j], fill[j]} /\ fill'[j] \in {NoEntry, fill[j], route}
    BY <2>1, Parts, SMTT(30)
  <2> QED
    BY <1>1, <2>1, <2>2, CachesMove, Zenon
<1>3. SockTypes'
  BY SockFrame, Zenon DEF FillL1, routeVars, sockVars, ledgerVars, workVars, promiseVars
<1>4. faults' \in Nat
  BY Faults, Zenon DEF FillL1, routeVars, sockVars, ledgerVars, workVars, promiseVars
<1>5. Keeps /\ Clean(Msg)
  BY SameLedgers, Zenon DEF FillL1, routeVars, sockVars, ledgerVars, workVars, promiseVars
<1>6. WorkShape' /\ \A n \in Msg : Calm(n)
  BY SameWork, Zenon DEF FillL1, routeVars, sockVars, ledgerVars, workVars, promiseVars
<1> QED
  BY <1>1, <1>2, <1>3, <1>4, <1>5, <1>6, Rest, Zenon

\* ExpireL1 keeps the invariant and settled entries.
LEMMA ExpireL1Step ==
    ASSUME IInv, NEW i \in Inst, ExpireL1(i) PROVE IInv' /\ AckStays
<1>1. PastGoesOn
  BY PastFrame, Zenon DEF ExpireL1, routeVars, sockVars, ledgerVars, workVars, promiseVars
<1>2. RouteTypes' /\ QuietInv'
  <2>1. /\ alive' \subseteq Inst /\ listed' \subseteq Inst /\ route' \in Route
        /\ l1' = [l1 EXCEPT ![i] = NoEntry] /\ fill' = fill
    BY Parts, Zenon DEF ExpireL1, routeVars, sockVars, ledgerVars, workVars, promiseVars
  <2>2. /\ l1' \in [Inst -> Route \cup {NoEntry}] /\ fill' \in [Inst -> Route \cup {NoEntry}]
        /\ \A j \in Inst : l1'[j] \in {NoEntry, l1[j], fill[j]} /\ fill'[j] \in {NoEntry, fill[j], route}
    BY <2>1, Parts, SMTT(30)
  <2> QED
    BY <1>1, <2>1, <2>2, CachesMove, Zenon
<1>3. SockTypes'
  BY SockFrame, Zenon DEF ExpireL1, routeVars, sockVars, ledgerVars, workVars, promiseVars
<1>4. faults' \in Nat
  BY Faults, Zenon DEF ExpireL1, routeVars, sockVars, ledgerVars, workVars, promiseVars
<1>5. Keeps /\ Clean(Msg)
  BY SameLedgers, Zenon DEF ExpireL1, routeVars, sockVars, ledgerVars, workVars, promiseVars
<1>6. WorkShape' /\ \A n \in Msg : Calm(n)
  BY SameWork, Zenon DEF ExpireL1, routeVars, sockVars, ledgerVars, workVars, promiseVars
<1> QED
  BY <1>1, <1>2, <1>3, <1>4, <1>5, <1>6, Rest, Zenon

\* ExpireRoute keeps the invariant and settled entries.
LEMMA ExpireRouteStep ==
    ASSUME IInv, ExpireRoute PROVE IInv' /\ AckStays
<1>0. route' \in Route /\ PastGoesOn
  <2>1. [d \in Device |-> None] \in Route
    BY SMTT(30) DEF Route
  <2> QED
    BY <2>1, PastRouted, Zenon DEF ExpireRoute, routeVars, sockVars, ledgerVars, workVars, promiseVars
<1>1. PastGoesOn
  BY <1>0, Zenon
<1>2. RouteTypes' /\ QuietInv'
  <2>1. /\ alive' \subseteq Inst /\ listed' \subseteq Inst /\ route' \in Route
        /\ l1' = l1 /\ fill' = fill
    BY <1>0, Parts, Zenon DEF ExpireRoute, routeVars, sockVars, ledgerVars, workVars, promiseVars
  <2>2. /\ l1' \in [Inst -> Route \cup {NoEntry}] /\ fill' \in [Inst -> Route \cup {NoEntry}]
        /\ \A j \in Inst : l1'[j] \in {NoEntry, l1[j], fill[j]} /\ fill'[j] \in {NoEntry, fill[j], route}
    BY <2>1, Parts, SMTT(30)
  <2> QED
    BY <1>1, <2>1, <2>2, CachesMove, Zenon
<1>3. SockTypes'
  BY SockFrame, Zenon DEF ExpireRoute, routeVars, sockVars, ledgerVars, workVars, promiseVars
<1>4. faults' \in Nat
  BY Faults, Zenon DEF ExpireRoute, routeVars, sockVars, ledgerVars, workVars, promiseVars
<1>5. Keeps /\ Clean(Msg)
  BY SameLedgers, Zenon DEF ExpireRoute, routeVars, sockVars, ledgerVars, workVars, promiseVars
<1>6. WorkShape' /\ \A n \in Msg : Calm(n)
  BY SameWork, Zenon DEF ExpireRoute, routeVars, sockVars, ledgerVars, workVars, promiseVars
<1> QED
  BY <1>1, <1>2, <1>3, <1>4, <1>5, <1>6, Rest, Zenon

\* Bind keeps the invariant and settled entries.
LEMMA BindStep ==
    ASSUME IInv, NEW i \in Inst, Bind(i) PROVE IInv' /\ AckStays
<1>0. route' \in Route /\ PastGoesOn
  <2>1. CASE UNCHANGED <<route, quiet>>
    BY <2>1, PastFrame, Parts, Zenon DEF Bind, routeVars, sockVars, ledgerVars, workVars, promiseVars
  <2>2. ASSUME NEW r \in Route, SetRoute(r) PROVE route' \in Route /\ PastGoesOn
    BY <2>2, PastRouted, Zenon DEF Bind, routeVars, sockVars, ledgerVars, workVars, promiseVars
  <2>3. [route EXCEPT ![ws[i].dev] = i] \in Route
    BY Parts, RouteMoves, Zenon
  <2> QED
    BY <2>1, <2>2, <2>3, Zenon DEF Bind, routeVars, sockVars, ledgerVars, workVars, promiseVars
<1>1. PastGoesOn
  BY <1>0, Zenon
<1>2. RouteTypes' /\ QuietInv'
  <2>1. /\ alive' \subseteq Inst /\ listed' \subseteq Inst /\ route' \in Route
        /\ l1' = l1 /\ fill' = fill
    BY <1>0, Parts, Zenon DEF Bind, routeVars, sockVars, ledgerVars, workVars, promiseVars
  <2>2. /\ l1' \in [Inst -> Route \cup {NoEntry}] /\ fill' \in [Inst -> Route \cup {NoEntry}]
        /\ \A j \in Inst : l1'[j] \in {NoEntry, l1[j], fill[j]} /\ fill'[j] \in {NoEntry, fill[j], route}
    BY <2>1, Parts, SMTT(30)
  <2> QED
    BY <1>1, <2>1, <2>2, CachesMove, Zenon
<1>3. SockTypes'
  <2>0. ws[i].dev \in Device \cup {None}
    BY Parts, Zenon DEF WsState
  <2>1. UNCHANGED <<conn, owe>>
    BY Zenon DEF Bind, routeVars, sockVars, ledgerVars, workVars, promiseVars
  <2>2. ws' \in [Inst -> WsState]
    BY <2>0, Parts, WsDoneTypes, WsOpTypes, Zenon DEF Bind, routeVars, sockVars, ledgerVars, workVars, promiseVars
  <2> QED
    BY <2>1, <2>2, Parts, Zenon DEF SockTypes
<1>4. faults' \in Nat
  BY Faults, Zenon DEF Bind, routeVars, sockVars, ledgerVars, workVars, promiseVars
<1>5. Keeps /\ Clean(Msg)
  BY SameLedgers, Zenon DEF Bind, routeVars, sockVars, ledgerVars, workVars, promiseVars
<1>6. WorkShape' /\ \A n \in Msg : Calm(n)
  BY SameWork, Zenon DEF Bind, routeVars, sockVars, ledgerVars, workVars, promiseVars
<1> QED
  BY <1>1, <1>2, <1>3, <1>4, <1>5, <1>6, Rest, Zenon

\* Unbind keeps the invariant and settled entries.
LEMMA UnbindStep ==
    ASSUME IInv, NEW i \in Inst, Unbind(i) PROVE IInv' /\ AckStays
<1>0. route' \in Route /\ PastGoesOn
  <2>1. CASE UNCHANGED <<route, quiet>>
    BY <2>1, PastFrame, Parts, Zenon DEF Unbind, routeVars, sockVars, ledgerVars, workVars, promiseVars
  <2>2. ASSUME NEW r \in Route, SetRoute(r) PROVE route' \in Route /\ PastGoesOn
    BY <2>2, PastRouted, Zenon DEF Unbind, routeVars, sockVars, ledgerVars, workVars, promiseVars
  <2>3. Unbound(ws[i].dev, i) \in Route
    BY Parts, RouteMoves, Zenon
  <2> QED
    BY <2>1, <2>2, <2>3, Zenon DEF Unbind, routeVars, sockVars, ledgerVars, workVars, promiseVars
<1>1. PastGoesOn
  BY <1>0, Zenon
<1>2. RouteTypes' /\ QuietInv'
  <2>1. /\ alive' \subseteq Inst /\ listed' \subseteq Inst /\ route' \in Route
        /\ l1' = [l1 EXCEPT ![i] = NoEntry] /\ fill' = fill
    BY <1>0, Parts, Zenon DEF Unbind, routeVars, sockVars, ledgerVars, workVars, promiseVars
  <2>2. /\ l1' \in [Inst -> Route \cup {NoEntry}] /\ fill' \in [Inst -> Route \cup {NoEntry}]
        /\ \A j \in Inst : l1'[j] \in {NoEntry, l1[j], fill[j]} /\ fill'[j] \in {NoEntry, fill[j], route}
    BY <2>1, Parts, SMTT(30)
  <2> QED
    BY <1>1, <2>1, <2>2, CachesMove, Zenon
<1>3. SockTypes'
  <2>1. UNCHANGED <<conn, owe>>
    BY Zenon DEF Unbind, routeVars, sockVars, ledgerVars, workVars, promiseVars
  <2>2. ws' \in [Inst -> WsState]
    BY Parts, WsDoneTypes, Zenon DEF Unbind, routeVars, sockVars, ledgerVars, workVars, promiseVars
  <2> QED
    BY <2>1, <2>2, Parts, Zenon DEF SockTypes
<1>4. faults' \in Nat
  BY Faults, Zenon DEF Unbind, routeVars, sockVars, ledgerVars, workVars, promiseVars
<1>5. Keeps /\ Clean(Msg)
  BY SameLedgers, Zenon DEF Unbind, routeVars, sockVars, ledgerVars, workVars, promiseVars
<1>6. WorkShape' /\ \A n \in Msg : Calm(n)
  BY SameWork, Zenon DEF Unbind, routeVars, sockVars, ledgerVars, workVars, promiseVars
<1> QED
  BY <1>1, <1>2, <1>3, <1>4, <1>5, <1>6, Rest, Zenon

\* ClientAuth keeps the invariant and settled entries.
LEMMA ClientAuthStep ==
    ASSUME IInv, NEW c \in Conn, NEW d \in Device, NEW i \in Inst, ClientAuth(c, d, i) PROVE IInv' /\ AckStays
<1>1. PastGoesOn
  BY PastFrame, Zenon DEF ClientAuth, routeVars, sockVars, ledgerVars, workVars, promiseVars
<1>2. RouteTypes' /\ QuietInv'
  BY <1>1, SameRoutes, Zenon DEF ClientAuth, routeVars, sockVars, ledgerVars, workVars, promiseVars, PastGoesOn
<1>3. SockTypes'
  <2>1. \A e \in ConnState : [e EXCEPT !.st = "half"] \in ConnState
    BY Zenon DEF ConnState
  <2>2. [st |-> "open", dev |-> d, at |-> i] \in ConnState
    BY Zenon DEF ConnState
  <2>3. \A b \in Conn : conn[b] \in ConnState /\ owe[b] \in SUBSET Msg
    BY Parts, Zenon
  <2>4. conn' \in [Conn -> ConnState]
    BY <2>1, <2>2, <2>3, Idles, Zenon DEF ClientAuth
  <2>5. owe' \in [Conn -> SUBSET Msg]
    BY <2>3, SMTT(30) DEF ClientAuth
  <2>6. ws' \in [Inst -> WsState]
    BY Parts, WsOpTypes, Zenon DEF ClientAuth
  <2> QED
    BY <2>4, <2>5, <2>6, Zenon DEF SockTypes
<1>4. faults' \in Nat
  BY Faults, Zenon DEF ClientAuth, routeVars, sockVars, ledgerVars, workVars, promiseVars
<1>5. Keeps /\ Clean(Msg)
  BY SameLedgers, Zenon DEF ClientAuth, routeVars, sockVars, ledgerVars, workVars, promiseVars
<1>6. WorkShape' /\ \A n \in Msg : Calm(n)
  BY SameWork, Zenon DEF ClientAuth, routeVars, sockVars, ledgerVars, workVars, promiseVars
<1> QED
  BY <1>1, <1>2, <1>3, <1>4, <1>5, <1>6, Rest, Zenon

\* LoseConn keeps the invariant and settled entries.
LEMMA LoseConnStep ==
    ASSUME IInv, NEW c \in Conn, LoseConn(c) PROVE IInv' /\ AckStays
<1>1. PastGoesOn
  BY PastFrame, Zenon DEF LoseConn, routeVars, sockVars, ledgerVars, workVars, promiseVars
<1>2. RouteTypes' /\ QuietInv'
  BY <1>1, SameRoutes, Zenon DEF LoseConn, routeVars, sockVars, ledgerVars, workVars, promiseVars, PastGoesOn
<1>3. SockTypes'
  <2>1. [conn[c] EXCEPT !.st = "half"] \in ConnState
    BY Parts, Zenon DEF ConnState
  <2>2. conn' = [conn EXCEPT ![c] = [conn[c] EXCEPT !.st = "half"]] /\ owe' = [owe EXCEPT ![c] = {}] /\ ws' = ws
    BY Zenon DEF LoseConn, routeVars, sockVars, ledgerVars, workVars, promiseVars
  <2>3. conn' \in [Conn -> ConnState]
    BY <2>1, <2>2, Parts, Updated, Zenon
  <2>4. owe' \in [Conn -> SUBSET Msg]
    BY <2>2, Parts, SMTT(30)
  <2> QED
    BY <2>2, <2>3, <2>4, Parts, Zenon DEF SockTypes
<1>4. faults' \in Nat
  BY Faults, Zenon DEF LoseConn, routeVars, sockVars, ledgerVars, workVars, promiseVars
<1>5. Keeps /\ Clean(Msg)
  BY SameLedgers, Zenon DEF LoseConn, routeVars, sockVars, ledgerVars, workVars, promiseVars
<1>6. WorkShape' /\ \A n \in Msg : Calm(n)
  BY SameWork, Zenon DEF LoseConn, routeVars, sockVars, ledgerVars, workVars, promiseVars
<1> QED
  BY <1>1, <1>2, <1>3, <1>4, <1>5, <1>6, Rest, Zenon

\* Close keeps the invariant and settled entries.
LEMMA CloseStep ==
    ASSUME IInv, NEW c \in Conn, Close(c) PROVE IInv' /\ AckStays
<1>1. PastGoesOn
  BY PastFrame, Zenon DEF Close, routeVars, sockVars, ledgerVars, workVars, promiseVars
<1>2. RouteTypes' /\ QuietInv'
  BY <1>1, SameRoutes, Zenon DEF Close, routeVars, sockVars, ledgerVars, workVars, promiseVars, PastGoesOn
<1>3. SockTypes'
  <2>1. conn[c].dev \in Device \cup {None}
    BY Parts, Zenon DEF ConnState
  <2>2. ws' \in [Inst -> WsState]
    BY <2>1, Parts, WsOpTypes, Zenon DEF Close, routeVars, sockVars, ledgerVars, workVars, promiseVars
  <2>3. conn' = [conn EXCEPT ![c] = Gone] /\ owe' = [owe EXCEPT ![c] = {}]
    BY Zenon DEF Close, routeVars, sockVars, ledgerVars, workVars, promiseVars
  <2>4. conn' \in [Conn -> ConnState]
    BY <2>3, Parts, Idles, Updated, Zenon
  <2>5. owe' \in [Conn -> SUBSET Msg]
    BY <2>3, Parts, SMTT(30)
  <2> QED
    BY <2>2, <2>4, <2>5, Zenon DEF SockTypes
<1>4. faults' \in Nat
  BY Faults, Zenon DEF Close, routeVars, sockVars, ledgerVars, workVars, promiseVars
<1>5. Keeps /\ Clean(Msg)
  BY SameLedgers, Zenon DEF Close, routeVars, sockVars, ledgerVars, workVars, promiseVars
<1>6. WorkShape' /\ \A n \in Msg : Calm(n)
  BY SameWork, Zenon DEF Close, routeVars, sockVars, ledgerVars, workVars, promiseVars
<1> QED
  BY <1>1, <1>2, <1>3, <1>4, <1>5, <1>6, Rest, Zenon

\* Heartbeat keeps the invariant and settled entries.
LEMMA HeartbeatStep ==
    ASSUME IInv, NEW c \in Conn, Heartbeat(c) PROVE IInv' /\ AckStays
<1>1. PastGoesOn
  BY PastFrame, Zenon DEF Heartbeat, routeVars, sockVars, ledgerVars, workVars, promiseVars
<1>2. RouteTypes' /\ QuietInv'
  BY <1>1, SameRoutes, Zenon DEF Heartbeat, routeVars, sockVars, ledgerVars, workVars, promiseVars, PastGoesOn
<1>3. SockTypes'
  <2>1. conn[c].dev \in Device \cup {None}
    BY Parts, Zenon DEF ConnState
  <2>2. ws' \in [Inst -> WsState]
    BY <2>1, Parts, WsOpTypes, Zenon DEF Heartbeat, routeVars, sockVars, ledgerVars, workVars, promiseVars
  <2>3. UNCHANGED <<conn, owe>>
    BY Zenon DEF Heartbeat, routeVars, sockVars, ledgerVars, workVars, promiseVars
  <2> QED
    BY <2>2, <2>3, Parts, Zenon DEF SockTypes
<1>4. faults' \in Nat
  BY Faults, Zenon DEF Heartbeat, routeVars, sockVars, ledgerVars, workVars, promiseVars
<1>5. Keeps /\ Clean(Msg)
  BY SameLedgers, Zenon DEF Heartbeat, routeVars, sockVars, ledgerVars, workVars, promiseVars
<1>6. WorkShape' /\ \A n \in Msg : Calm(n)
  BY SameWork, Zenon DEF Heartbeat, routeVars, sockVars, ledgerVars, workVars, promiseVars
<1> QED
  BY <1>1, <1>2, <1>3, <1>4, <1>5, <1>6, Rest, Zenon

\* ClientAck keeps the invariant and settled entries.
LEMMA ClientAckStep ==
    ASSUME IInv, NEW c \in Conn, NEW m \in Msg, ClientAck(c, m) PROVE IInv' /\ AckStays
<1>0. Keeps /\ Clean(Msg) /\ PastGoesOn
  <2>1. UNCHANGED <<got, quiet, spread, route>>
    BY Zenon DEF ClientAck, routeVars, sockVars, ledgerVars, workVars, promiseVars
  <2>2. CASE UNCHANGED <<ledgerVars, promise>>
    BY <2>1, <2>2, PastFrame, SameLedgers, Zenon DEF promiseVars
  <2>3. ASSUME NEW e, NEW ms \in SUBSET Msg, Settle(e, ms)
        PROVE  Keeps /\ Clean(Msg) /\ PastGoesOn
    <3>1. /\ Keeps /\ Clean(Msg)
          /\ promise' \in [Msg -> SUBSET Device] /\ \A n \in Msg : promise'[n] \subseteq promise[n]
      BY <2>3, Parts, SettleKeeps, Zenon
    <3>2. PastGoesOn
      BY <2>1, <3>1, Zenon DEF PastGoesOn, Past, IInv, TypeInv
    <3> QED
      BY <3>1, <3>2, Zenon
  <2> QED
    BY <2>2, <2>3, Zenon DEF ClientAck, routeVars, sockVars, ledgerVars, workVars, promiseVars
<1>1. PastGoesOn
  BY <1>0, Zenon
<1>2. RouteTypes' /\ QuietInv'
  BY <1>1, SameRoutes, Zenon DEF ClientAck, routeVars, sockVars, ledgerVars, workVars, promiseVars, PastGoesOn
<1>3. SockTypes'
  <2>1. UNCHANGED <<conn, ws>> /\ owe' = [owe EXCEPT ![c] = owe[c] \ {m}]
    BY Zenon DEF ClientAck, routeVars, sockVars, ledgerVars, workVars, promiseVars
  <2>2. owe' \in [Conn -> SUBSET Msg]
    BY <2>1, Parts, SMTT(30)
  <2> QED
    BY <2>1, <2>2, Parts, Zenon DEF SockTypes
<1>4. faults' \in Nat
  BY Faults, Zenon DEF ClientAck, routeVars, sockVars, ledgerVars, workVars, promiseVars
<1>5. Keeps /\ Clean(Msg)
  BY <1>0, Zenon
<1>6. WorkShape' /\ \A n \in Msg : Calm(n)
  BY SameWork, Zenon DEF ClientAck, routeVars, sockVars, ledgerVars, workVars, promiseVars
<1> QED
  BY <1>1, <1>2, <1>3, <1>4, <1>5, <1>6, Rest, Zenon

\* ExpireLedger keeps the invariant and settled entries.
LEMMA ExpireLedgerStep ==
    ASSUME IInv, NEW d \in Device, ExpireLedger(d) PROVE IInv' /\ AckStays
<1>0. Keeps /\ Clean(Msg) /\ PastGoesOn
  <2>1. UNCHANGED <<got, quiet, spread, route>>
    BY Zenon DEF ExpireLedger, routeVars, sockVars, ledgerVars, workVars, promiseVars
  <2>2. CASE UNCHANGED <<ledgerVars, promise>>
    BY <2>1, <2>2, PastFrame, SameLedgers, Zenon DEF promiseVars
  <2>3. ASSUME NEW e, NEW ms \in SUBSET Msg, Settle(e, ms)
        PROVE  Keeps /\ Clean(Msg) /\ PastGoesOn
    <3>1. /\ Keeps /\ Clean(Msg)
          /\ promise' \in [Msg -> SUBSET Device] /\ \A n \in Msg : promise'[n] \subseteq promise[n]
      BY <2>3, Parts, SettleKeeps, Zenon
    <3>2. PastGoesOn
      BY <2>1, <3>1, Zenon DEF PastGoesOn, Past, IInv, TypeInv
    <3> QED
      BY <3>1, <3>2, Zenon
  <2> QED
    BY <2>2, <2>3, Zenon DEF ExpireLedger, routeVars, sockVars, ledgerVars, workVars, promiseVars
<1>1. PastGoesOn
  BY <1>0, Zenon
<1>2. RouteTypes' /\ QuietInv'
  BY <1>1, SameRoutes, Zenon DEF ExpireLedger, routeVars, sockVars, ledgerVars, workVars, promiseVars, PastGoesOn
<1>3. SockTypes'
  BY SockFrame, Zenon DEF ExpireLedger, routeVars, sockVars, ledgerVars, workVars, promiseVars
<1>4. faults' \in Nat
  BY Faults, Zenon DEF ExpireLedger, routeVars, sockVars, ledgerVars, workVars, promiseVars
<1>5. Keeps /\ Clean(Msg)
  BY <1>0, Zenon
<1>6. WorkShape' /\ \A n \in Msg : Calm(n)
  BY SameWork, Zenon DEF ExpireLedger, routeVars, sockVars, ledgerVars, workVars, promiseVars
<1> QED
  BY <1>1, <1>2, <1>3, <1>4, <1>5, <1>6, Rest, Zenon

\* Age keeps the invariant and settled entries.
LEMMA AgeStep ==
    ASSUME IInv, NEW d \in Device, NEW m \in Msg, Age(d, m) PROVE IInv' /\ AckStays
<1>1. PastGoesOn
  BY PastFrame, Zenon DEF Age, routeVars, sockVars, ledgerVars, workVars, promiseVars
<1>2. RouteTypes' /\ QuietInv'
  BY <1>1, SameRoutes, Zenon DEF Age, routeVars, sockVars, ledgerVars, workVars, promiseVars, PastGoesOn
<1>3. SockTypes'
  BY SockFrame, Zenon DEF Age, routeVars, sockVars, ledgerVars, workVars, promiseVars
<1>4. faults' \in Nat
  BY Faults, Zenon DEF Age, routeVars, sockVars, ledgerVars, workVars, promiseVars
<1>5. Keeps /\ Clean(Msg)
  BY Parts, AgeKeeps, Zenon
<1>6. WorkShape' /\ \A n \in Msg : Calm(n)
  BY SameWork, Zenon DEF Age, routeVars, sockVars, ledgerVars, workVars, promiseVars
<1> QED
  BY <1>1, <1>2, <1>3, <1>4, <1>5, <1>6, Rest, Zenon

\* ResendResolve keeps the invariant and settled entries.
LEMMA ResendResolveStep ==
    ASSUME IInv, NEW i \in Inst, ResendResolve(i) PROVE IInv' /\ AckStays
<1>1. PastGoesOn
  BY PastFrame, Zenon DEF ResendResolve, routeVars, sockVars, ledgerVars, workVars, promiseVars
<1>2. RouteTypes' /\ QuietInv'
  BY <1>1, SameRoutes, Zenon DEF ResendResolve, routeVars, sockVars, ledgerVars, workVars, promiseVars, PastGoesOn
<1>3. SockTypes'
  <2>1. UNCHANGED <<conn, owe>> /\ Routed(l1[i]) \in SUBSET Device
    BY Zenon DEF ResendResolve, routeVars, sockVars, ledgerVars, workVars, promiseVars, Routed
  <2>2. ws' \in [Inst -> WsState]
    BY <2>1, Parts, WsNextTypes, Zenon DEF ResendResolve
  <2> QED
    BY <2>1, <2>2, Parts, Zenon DEF SockTypes
<1>4. faults' \in Nat
  BY Faults, Zenon DEF ResendResolve, routeVars, sockVars, ledgerVars, workVars, promiseVars
<1>5. Keeps /\ Clean(Msg)
  BY SameLedgers, Zenon DEF ResendResolve, routeVars, sockVars, ledgerVars, workVars, promiseVars
<1>6. WorkShape' /\ \A n \in Msg : Calm(n)
  BY SameWork, Zenon DEF ResendResolve, routeVars, sockVars, ledgerVars, workVars, promiseVars
<1> QED
  BY <1>1, <1>2, <1>3, <1>4, <1>5, <1>6, Rest, Zenon

\* ResendBump keeps the invariant and settled entries.
LEMMA ResendBumpStep ==
    ASSUME IInv, NEW i \in Inst, ResendBump(i) PROVE IInv' /\ AckStays
<1>1. PastGoesOn
  BY PastFrame, Zenon DEF ResendBump, routeVars, sockVars, ledgerVars, workVars, promiseVars
<1>2. RouteTypes' /\ QuietInv'
  BY <1>1, SameRoutes, Zenon DEF ResendBump, routeVars, sockVars, ledgerVars, workVars, promiseVars, PastGoesOn
<1>3. SockTypes'
  <2>1. UNCHANGED <<conn, owe>>
    BY Zenon DEF ResendBump, routeVars, sockVars, ledgerVars, workVars, promiseVars
  <2>2. ws[i].todo \ {ws[i].dev} \in SUBSET Device
    BY Parts, Zenon DEF WsState
  <2>3. ws' \in [Inst -> WsState]
    BY <2>2, Parts, WsNextTypes, Zenon DEF ResendBump
  <2> QED
    BY <2>1, <2>3, Parts, Zenon DEF SockTypes
<1>4. faults' \in Nat
  BY Faults, Zenon DEF ResendBump, routeVars, sockVars, ledgerVars, workVars, promiseVars
<1>5. Keeps /\ Clean(Msg)
  <2>1. CASE UNCHANGED ledger
    BY <2>1, SameLedgers, Zenon DEF ResendBump, routeVars, sockVars, ledgerVars, workVars, promiseVars
  <2>2. CASE ledger' = BumpScore(ws[i].dev, ws[i].seqs)
    BY <2>2, BumpKeeps, Parts, Zenon DEF ResendBump, routeVars, sockVars, ledgerVars, workVars, promiseVars
  <2> QED
    BY <2>1, <2>2, Zenon DEF ResendBump
<1>6. WorkShape' /\ \A n \in Msg : Calm(n)
  BY SameWork, Zenon DEF ResendBump, routeVars, sockVars, ledgerVars, workVars, promiseVars
<1> QED
  BY <1>1, <1>2, <1>3, <1>4, <1>5, <1>6, Rest, Zenon

\* ResendPeek keeps the invariant and settled entries.
LEMMA ResendPeekStep ==
    ASSUME IInv, NEW i \in Inst, NEW d \in Device, ResendPeek(i, d) PROVE IInv' /\ AckStays
<1>0. PastGoesOn /\ SockTypes'
  <2>1. CASE UNCHANGED sockVars /\ WsNext(i, ws[i].todo \ {d})
    <3>1. PastGoesOn
      BY <2>1, PastFrame, Zenon DEF ResendPeek, routeVars, sockVars, ledgerVars, workVars, promiseVars
    <3>2. ws[i].todo \ {d} \in SUBSET Device
      BY Parts, Zenon DEF WsState
    <3>3. ws' \in [Inst -> WsState]
      BY <2>1, <3>2, Parts, WsNextTypes, Zenon
    <3> QED
      BY <2>1, <3>1, <3>3, Parts, Zenon DEF SockTypes, sockVars
  <2>2. CASE /\ LocalSend(d, i, PeekDue(d))
             /\ ws' = [ws EXCEPT ![i] = [ws[i] EXCEPT !.op = "bump", !.dev = d, !.seqs = PeekDue(d)]]
    <3> DEFINE ms == PeekDue(d)
    <3>1. ms \in SUBSET Msg /\ \A n \in ms : Held(d, n)
      BY SMTT(30) DEF PeekDue, Held
    <3>2. UNCHANGED <<ledger, settled, promise, quiet, spread, route>>
      BY Zenon DEF ResendPeek, routeVars, sockVars, ledgerVars, workVars, promiseVars
    <3> DEFINE w == [ws[i] EXCEPT !.op = "bump", !.dev = d, !.seqs = ms]
    <3>3. LocalSend(d, i, ms) /\ ws' = [ws EXCEPT ![i] = w]
      BY <2>2, Zenon
    <3> HIDE DEF ms
    <3>4. w \in WsState
      <4>1. ws[i] \in WsState
        BY Parts, Zenon
      <4> QED
        BY <3>1, <4>1, Zenon DEF WsState
    <3> HIDE DEF w
    <3>5. ws' \in [Inst -> WsState]
      BY <3>3, <3>4, Parts, WsTypes, Zenon
    <3>6. /\ conn' = conn /\ owe' \in [Conn -> SUBSET Msg]
          /\ got' \in [Device -> SUBSET Msg]
          /\ \A e \in Device : got'[e] \subseteq got[e] \cup (IF e = d THEN ms ELSE {})
      BY <3>1, <3>3, Parts, SendTypes, Zenon
    <3>7. SockTypes'
      BY <3>5, <3>6, Parts, Zenon DEF SockTypes
    <3>8. Past'
      BY <3>2, <3>6, Zenon DEF IInv, TypeInv, Past
    <3>9. ASSUME NEW e \in Device, NEW n, n \in got'[e], n \notin got[e] PROVE Held(e, n)'
      <4>1. e = d /\ n \in ms
        BY <3>6, <3>9, Zenon
      <4>2. Held(e, n)
        BY <3>1, <4>1, Zenon
      <4> QED
        BY <3>2, <4>2, Zenon DEF Held
    <3> QED
      BY <3>2, <3>7, <3>8, <3>9, Zenon DEF PastGoesOn
  <2> QED
    BY <2>1, <2>2, Zenon DEF ResendPeek
<1>1. PastGoesOn
  BY <1>0, Zenon
<1>2. RouteTypes' /\ QuietInv'
  BY <1>1, SameRoutes, Zenon DEF ResendPeek, routeVars, sockVars, ledgerVars, workVars, promiseVars, PastGoesOn
<1>3. SockTypes'
  BY <1>0, Zenon
<1>4. faults' \in Nat
  BY Faults, Zenon DEF ResendPeek, routeVars, sockVars, ledgerVars, workVars, promiseVars
<1>5. Keeps /\ Clean(Msg)
  BY SameLedgers, Zenon DEF ResendPeek, routeVars, sockVars, ledgerVars, workVars, promiseVars
<1>6. WorkShape' /\ \A n \in Msg : Calm(n)
  BY SameWork, Zenon DEF ResendPeek, routeVars, sockVars, ledgerVars, workVars, promiseVars
<1> QED
  BY <1>1, <1>2, <1>3, <1>4, <1>5, <1>6, Rest, Zenon

\* ExpireLease keeps the invariant and settled entries.
LEMMA ExpireLeaseStep ==
    ASSUME IInv, NEW i \in Inst, ExpireLease(i) PROVE IInv' /\ AckStays
<1>1. PastGoesOn
  BY PastFrame, Zenon DEF ExpireLease, routeVars, sockVars, ledgerVars, workVars, promiseVars
<1>2. RouteTypes' /\ QuietInv'
  <2>1. alive' \subseteq Inst /\ listed' \subseteq Inst /\ UNCHANGED <<route, l1, fill, quiet>>
    BY Parts, Zenon DEF ExpireLease, routeVars, sockVars, ledgerVars, workVars, promiseVars
  <2> QED
    BY <2>1, RouteFrame, Zenon
<1>3. SockTypes'
  BY SockFrame, Zenon DEF ExpireLease, routeVars, sockVars, ledgerVars, workVars, promiseVars
<1>4. faults' \in Nat
  BY Faults, Zenon DEF ExpireLease, routeVars, sockVars, ledgerVars, workVars, promiseVars
<1>5. Keeps /\ Clean(Msg)
  BY SameLedgers, Zenon DEF ExpireLease, routeVars, sockVars, ledgerVars, workVars, promiseVars
<1>6. WorkShape' /\ \A n \in Msg : Calm(n)
  BY SameWork, Zenon DEF ExpireLease, routeVars, sockVars, ledgerVars, workVars, promiseVars
<1> QED
  BY <1>1, <1>2, <1>3, <1>4, <1>5, <1>6, Rest, Zenon

\* Restart keeps the invariant and settled entries.
LEMMA RestartStep ==
    ASSUME IInv, NEW i \in Inst, Restart(i) PROVE IInv' /\ AckStays
<1>1. PastGoesOn
  BY PastFrame, Zenon DEF Restart, routeVars, sockVars, ledgerVars, workVars, promiseVars
<1>2. RouteTypes' /\ QuietInv'
  <2>1. alive' \subseteq Inst /\ listed' \subseteq Inst /\ UNCHANGED <<route, l1, fill, quiet>>
    BY Parts, Zenon DEF Restart, routeVars, sockVars, ledgerVars, workVars, promiseVars
  <2> QED
    BY <2>1, RouteFrame, Zenon
<1>3. SockTypes'
  BY SockFrame, Zenon DEF Restart, routeVars, sockVars, ledgerVars, workVars, promiseVars
<1>4. faults' \in Nat
  BY Faults, Zenon DEF Restart, routeVars, sockVars, ledgerVars, workVars, promiseVars
<1>5. Keeps /\ Clean(Msg)
  BY SameLedgers, Zenon DEF Restart, routeVars, sockVars, ledgerVars, workVars, promiseVars
<1>6. WorkShape' /\ \A n \in Msg : Calm(n)
  BY SameWork, Zenon DEF Restart, routeVars, sockVars, ledgerVars, workVars, promiseVars
<1> QED
  BY <1>1, <1>2, <1>3, <1>4, <1>5, <1>6, Rest, Zenon

\* What the end of a process leaves.
LEMMA DownView ==
    ASSUME IInv, NEW i \in Inst, Down(i)
    PROVE  /\ alive' \subseteq Inst /\ SockTypes' /\ WorkShape' /\ \A n \in Msg : Calm(n)
           /\ Keeps /\ Clean(Msg)
<1>1. alive' \subseteq Inst /\ Keeps /\ Clean(Msg)
  BY Parts, SameLedgers, Zenon DEF Down
<1>2. conn' \in [Conn -> ConnState]
  <2>1. \A c \in Conn : conn[c] \in ConnState
    BY Parts, Zenon
  <2> QED
    BY <2>1, Idles, Zenon DEF Down
<1>3. owe' \in [Conn -> SUBSET Msg]
  BY Parts, SMTT(30) DEF Down
<1>4. ws' \in [Inst -> WsState]
  BY Parts, WsTypes, Idles, Zenon DEF Down
<1> DEFINE served(m) == batch[m].pc # "idle" /\ batch[m].at = i
           back(m) == cons[m].at = i \/ (served(m) /\ cons[m].pc = "wait")
<1>5. /\ queue' = [m \in Msg |-> IF back(m) THEN "ready" ELSE queue[m]]
      /\ cons' = [m \in Msg |-> IF back(m) THEN ConsIdle ELSE cons[m]]
      /\ batch' = [m \in Msg |-> IF served(m) THEN BatchIdle ELSE batch[m]]
  BY Zenon DEF Down
<1> HIDE DEF served, back
<1>6. \A n \in Msg : Calm(n)
  BY <1>5, SMTT(30) DEF Calm
<1>7. cons' \in [Msg -> ConsState]
  <2>1. \A m \in Msg : cons[m] \in ConsState
    BY Parts, Zenon DEF WorkShape
  <2> QED
    BY <1>5, <2>1, Idles, Zenon
<1>8. batch' \in [Msg -> BatchState]
  <2>1. \A m \in Msg : batch[m] \in BatchState
    BY Parts, Zenon DEF WorkShape
  <2> QED
    BY <1>5, <2>1, Idles, Zenon
<1>9. queue' \in [Msg -> QueueState]
  <2>1. "ready" \in QueueState /\ \A m \in Msg : queue[m] \in QueueState
    BY Parts, Zenon DEF WorkShape, QueueState
  <2> QED
    BY <1>5, <2>1, Zenon
<1> QED
  BY <1>1, <1>2, <1>3, <1>4, <1>6, <1>7, <1>8, <1>9, Zenon DEF SockTypes, WorkShape

\* Crash keeps the invariant and settled entries.
LEMMA CrashStep ==
    ASSUME IInv, NEW i \in Inst, Crash(i) PROVE IInv' /\ AckStays
<1>1. PastGoesOn
  BY PastFrame, Zenon DEF Crash, routeVars, sockVars, ledgerVars, workVars, promiseVars, Down
<1>2. RouteTypes' /\ QuietInv'
  <2>1. /\ alive' \subseteq Inst /\ listed' \subseteq Inst /\ route' \in Route
        /\ l1' = [l1 EXCEPT ![i] = NoEntry] /\ fill' = [fill EXCEPT ![i] = NoEntry]
    BY Parts, DownView, Zenon DEF Crash, routeVars, sockVars, ledgerVars, workVars, promiseVars, Down
  <2>2. /\ l1' \in [Inst -> Route \cup {NoEntry}] /\ fill' \in [Inst -> Route \cup {NoEntry}]
        /\ \A j \in Inst : l1'[j] \in {NoEntry, l1[j], fill[j]} /\ fill'[j] \in {NoEntry, fill[j], route}
    BY <2>1, Parts, SMTT(30)
  <2> QED
    BY <1>1, <2>1, <2>2, CachesMove, Zenon
<1>3. SockTypes'
  BY DownView, Zenon DEF Crash
<1>4. faults' \in Nat
  BY Faults, Zenon DEF Crash, routeVars, sockVars, ledgerVars, workVars, promiseVars
<1>5. Keeps /\ Clean(Msg)
  BY DownView, Zenon DEF Crash
<1>6. WorkShape' /\ \A n \in Msg : Calm(n)
  BY DownView, Zenon DEF Crash
<1> QED
  BY <1>1, <1>2, <1>3, <1>4, <1>5, <1>6, Rest, Zenon

\* ResendRouteError keeps the invariant and settled entries.
LEMMA ResendRouteErrorStep ==
    ASSUME IInv, NEW i \in Inst, ResendRouteError(i) PROVE IInv' /\ AckStays
<1>1. PastGoesOn
  BY PastFrame, Zenon DEF ResendRouteError, routeVars, sockVars, ledgerVars, workVars, promiseVars, Down
<1>2. RouteTypes' /\ QuietInv'
  <2>1. /\ alive' \subseteq Inst /\ listed' \subseteq Inst /\ route' \in Route
        /\ l1' = [l1 EXCEPT ![i] = NoEntry] /\ fill' = [fill EXCEPT ![i] = NoEntry]
    BY Parts, DownView, Zenon DEF ResendRouteError, routeVars, sockVars, ledgerVars, workVars, promiseVars, Down
  <2>2. /\ l1' \in [Inst -> Route \cup {NoEntry}] /\ fill' \in [Inst -> Route \cup {NoEntry}]
        /\ \A j \in Inst : l1'[j] \in {NoEntry, l1[j], fill[j]} /\ fill'[j] \in {NoEntry, fill[j], route}
    BY <2>1, Parts, SMTT(30)
  <2> QED
    BY <1>1, <2>1, <2>2, CachesMove, Zenon
<1>3. SockTypes'
  BY DownView, Zenon DEF ResendRouteError
<1>4. faults' \in Nat
  BY Faults, Zenon DEF ResendRouteError, routeVars, sockVars, ledgerVars, workVars, promiseVars
<1>5. Keeps /\ Clean(Msg)
  BY DownView, Zenon DEF ResendRouteError
<1>6. WorkShape' /\ \A n \in Msg : Calm(n)
  BY DownView, Zenon DEF ResendRouteError
<1> QED
  BY <1>1, <1>2, <1>3, <1>4, <1>5, <1>6, Rest, Zenon

\* Shutdown keeps the invariant and settled entries.
LEMMA ShutdownStep ==
    ASSUME IInv, NEW i \in Inst, Shutdown(i) PROVE IInv' /\ AckStays
<1>0. route' \in Route /\ PastGoesOn
  <2>1. [d \in Device |-> IF route[d] = i THEN None ELSE route[d]] \in Route
    BY Parts, RouteMoves, Zenon
  <2> QED
    BY <2>1, PastRouted, Zenon DEF Shutdown, Down, routeVars, sockVars, ledgerVars, workVars, promiseVars
<1>1. PastGoesOn
  BY <1>0, Zenon
<1>2. RouteTypes' /\ QuietInv'
  <2>1. /\ alive' \subseteq Inst /\ listed' \subseteq Inst /\ route' \in Route
        /\ l1' = [l1 EXCEPT ![i] = NoEntry] /\ fill' = [fill EXCEPT ![i] = NoEntry]
    BY <1>0, Parts, DownView, Zenon DEF Shutdown, routeVars, sockVars, ledgerVars, workVars, promiseVars, Down
  <2>2. /\ l1' \in [Inst -> Route \cup {NoEntry}] /\ fill' \in [Inst -> Route \cup {NoEntry}]
        /\ \A j \in Inst : l1'[j] \in {NoEntry, l1[j], fill[j]} /\ fill'[j] \in {NoEntry, fill[j], route}
    BY <2>1, Parts, SMTT(30)
  <2> QED
    BY <1>1, <2>1, <2>2, CachesMove, Zenon
<1>3. SockTypes'
  BY DownView, Zenon DEF Shutdown
<1>4. faults' \in Nat
  BY Faults, Zenon DEF Shutdown, routeVars, sockVars, ledgerVars, workVars, promiseVars
<1>5. Keeps /\ Clean(Msg)
  BY DownView, Zenon DEF Shutdown
<1>6. WorkShape' /\ \A n \in Msg : Calm(n)
  BY DownView, Zenon DEF Shutdown
<1> QED
  BY <1>1, <1>2, <1>3, <1>4, <1>5, <1>6, Rest, Zenon

\* Every step that handles no message keeps the invariant and settled entries.
LEMMA BackgroundStep ==
    ASSUME IInv, RouteStep \/ SocketStep \/ ResendStep \/ InstanceStep PROVE IInv' /\ AckStays
<1>1. CASE RouteStep
  BY <1>1, LoadRouteStep, FillL1Step, ExpireL1Step, ExpireRouteStep, Zenon DEF RouteStep
<1>2. CASE SocketStep
  BY <1>2, ClientAuthStep, BindStep, UnbindStep, LoseConnStep, CloseStep, HeartbeatStep, ClientAckStep,
     Zenon DEF SocketStep
<1>3. CASE ResendStep
  BY <1>3, ResendResolveStep, ResendBumpStep, ResendPeekStep, AgeStep, ExpireLedgerStep,
     Zenon DEF ResendStep
<1>4. CASE InstanceStep
  BY <1>4, CrashStep, ShutdownStep, ResendRouteErrorStep, ExpireLeaseStep, RestartStep,
     Zenon DEF InstanceStep
<1> QED
  BY <1>1, <1>2, <1>3, <1>4, Zenon

-----------------------------------------------------------------------------
(* Steps that handle a message *)

\* The record of a message that no handler works on, or whose handler has just
\* begun, owes nothing.
LEMMA NothingOwed ==
    ASSUME NEW m \in Msg, cons'[m] = ConsIdle, batch'[m] = batch[m] \/ batch'[m] = BatchIdle,
           MsgInv(m), Keeps
    PROVE  MsgInv(m)'
<1>1. ConsIdle.pc = "idle" /\ BatchIdle.pc = "idle"
  BY Zenon DEF ConsIdle, BatchIdle
<1>2. Placed(m)'
  BY <1>1, Zenon DEF Placed, MsgInv
<1>3. Sending(m)'
  BY <1>1, SMTT(30) DEF Sending, MsgInv, Keeps
<1>4. Covered(m)'
  BY <1>1, SMTT(30) DEF Covered
<1> QED
  BY <1>2, <1>3, <1>4, Zenon DEF MsgInv

\* The histories while message m is handled.
PastHandles(m) ==
    /\ Past' /\ quiet' \subseteq quiet \cup {m} /\ (quiet' # {} => RouteKnown)
    /\ \/ UNCHANGED <<promise, spread>>
       \/ Ack(m) /\ (m \in quiet \cap WithSeq /\ OneHome(route) => \A d \in Routed(route) : Held(d, m))
    /\ \A d \in Device : \A n \in got'[d] \ got[d] : n \in WithSeq => Held(d, n)'

\* Ack changes the histories as long as it may.
LEMMA PastAcks ==
    ASSUME IInv, NEW m \in Msg, Keeps, got' \in [Device -> SUBSET Msg],
           \A d \in Device : \A n \in got'[d] \ got[d] : n \in WithSeq => Held(d, n)',
           \/ UNCHANGED promiseVars
           \/ Ack(m) /\ (m \in quiet \cap WithSeq /\ OneHome(route) => \A d \in Routed(route) : Held(d, m))
    PROVE  PastHandles(m)
<1>1. CASE UNCHANGED promiseVars
  BY <1>1, Zenon DEF promiseVars, PastHandles, IInv, TypeInv, Past, QuietInv
<1>2. CASE Ack(m) /\ (m \in quiet \cap WithSeq /\ OneHome(route) => \A d \in Routed(route) : Held(d, m))
  <2>1. quiet' \subseteq quiet /\ quiet' \subseteq Msg
    BY <1>2, Parts, Zenon DEF Ack
  <2>2. spread' \subseteq Msg
    BY <1>2, SMTT(30) DEF Ack, IInv, TypeInv, Past
  <2>3. promise' \in [Msg -> SUBSET Device]
    <3> DEFINE p == IF m \in quiet \cap WithSeq THEN {d \in Routed(route) : m \notin settled[d]} ELSE {}
    <3>1. p \in SUBSET Device
      BY SMTT(30) DEF Routed
    <3>2. promise' = [promise EXCEPT ![m] = p]
      BY <1>2, Zenon DEF Ack
    <3> HIDE DEF p
    <3> QED
      BY <3>1, <3>2, Parts, Updated, Zenon
  <2> QED
    BY <1>2, <2>1, <2>2, <2>3, Zenon DEF PastHandles, Past, IInv, QuietInv
<1> QED
  BY <1>1, <1>2, Zenon

\* A step that handles message m keeps the invariant if its parts are in order.
LEMMA Work ==
    ASSUME IInv, NEW m \in Msg, UNCHANGED <<routeVars, ws>>, conn' = conn /\ owe' \in [Conn -> SUBSET Msg],
           faults' \in Nat, Keeps /\ Clean(Msg \ {m}),
           UNCHANGED ledger \/ cons[m].pc # "idle" \/ batch[m].pc # "idle",
           WorkShape' /\ Others(m), MsgInv(m)', PastHandles(m)
    PROVE  IInv' /\ AckStays
<1>1. RouteTypes'
  BY Zenon DEF IInv, TypeInv, RouteTypes, routeVars
<1>2. SockTypes'
  BY Parts, Zenon DEF SockTypes
<1>3. TypeInv'
  BY <1>1, <1>2, Zenon DEF TypeInv, Keeps, PastHandles
<1> QED
  BY <1>3, Handling, Zenon DEF PastHandles

\* A step of a handler that leaves ledger and connections alone.
LEMMA Quietly ==
    ASSUME IInv, NEW m \in Msg, UNCHANGED <<routeVars, sockVars, ws, ledgerVars>>,
           UNCHANGED faults \/ NoFault \/ \E k : Fault(k),
           WorkShape' /\ Others(m), MsgInv(m)',
           \/ UNCHANGED promiseVars
           \/ Ack(m) /\ (m \in quiet \cap WithSeq /\ OneHome(route) => \A d \in Routed(route) : Held(d, m))
    PROVE  IInv' /\ AckStays
<1>1. Keeps /\ Clean(Msg)
  BY SameLedgers, Zenon
<1>2. Clean(Msg \ {m})
  BY <1>1, Zenon DEF Clean
<1>3. UNCHANGED <<routeVars, ws>> /\ conn' = conn /\ owe' \in [Conn -> SUBSET Msg] /\ UNCHANGED ledger
  BY Parts, Zenon DEF sockVars, ledgerVars
<1>4. got' = got
  BY Zenon DEF sockVars
<1>5. got' \in [Device -> SUBSET Msg] /\ \A d \in Device : \A n \in got'[d] \ got[d] : n \in WithSeq => Held(d, n)'
  BY <1>4, Parts, Zenon
<1>6. PastHandles(m)
  BY <1>1, <1>5, PastAcks, Zenon
<1>7. faults' \in Nat
  BY Faults, Zenon
<1> QED
  BY <1>1, <1>2, <1>3, <1>6, <1>7, Work, Zenon

\* Deliver keeps the invariant and settled entries.
LEMMA DeliverStep ==
    ASSUME IInv, NEW m \in Msg, NEW i \in Inst, Deliver(m, i) PROVE IInv' /\ AckStays
<1> DEFINE e == [ConsIdle EXCEPT !.pc = "resolve", !.at = i]
<1>1. e \in ConsState /\ e.pc = "resolve" /\ e.at = i
  BY TakeMove, Zenon
<1>2. cons' = [cons EXCEPT ![m] = e] /\ queue' = [queue EXCEPT ![m] = "taken"] /\ UNCHANGED batch
  BY Zenon DEF Deliver
<1> HIDE DEF e
<1>3. PICK q \in QueueState : q = "taken"
  BY Zenon DEF QueueState
<1>4. PICK b \in BatchState : b = batch[m] /\ batch' = [batch EXCEPT ![m] = b]
  BY <1>2, Parts, SMTT(30) DEF WorkShape
<1>5. cons' = [cons EXCEPT ![m] = e] /\ queue' = [queue EXCEPT ![m] = q] /\ batch' = [batch EXCEPT ![m] = b]
  BY <1>2, <1>3, <1>4, Zenon
<1>0. WorkShape' /\ Others(m) /\ cons'[m] = e /\ batch'[m] = b /\ queue'[m] = q
  BY <1>1, <1>5, Parts, Replaced, Zenon
<1>6. WorkShape' /\ Others(m) /\ cons'[m] = e /\ batch'[m] = b /\ queue'[m] = "taken"
  BY <1>3, <1>0, Zenon
<1>7. Keeps /\ Clean(Msg) /\ Clean(Msg \ {m})
  <2>1. Keeps /\ Clean(Msg)
    BY SameLedgers, Zenon DEF Deliver
  <2> QED
    BY <2>1, Zenon DEF Clean
<1>8. MsgInv(m)
  BY Zenon DEF IInv
<1>9. MsgInv(m)'
  <2>1. Placed(m)'
    BY <1>1, <1>4, <1>6, <1>8, Zenon DEF Placed, MsgInv
  <2>2. Sending(m)'
    BY <1>1, <1>4, <1>6, <1>7, <1>8, SMTT(30) DEF Sending, MsgInv, Keeps
  <2>3. Covered(m)'
    BY <1>1, <1>6, SMTT(30) DEF Covered
  <2> QED
    BY <2>1, <2>2, <2>3, Zenon DEF MsgInv
<1>10. PastHandles(m)
  <2>1. UNCHANGED <<got, promise, spread>>
    BY Zenon DEF Deliver, sockVars
  <2>2. quiet' \subseteq quiet \cup {m} /\ quiet' \subseteq Msg /\ (quiet' # {} => RouteKnown)
    <3>1. CASE RouteKnown
      BY <3>1, Parts, Zenon DEF Deliver
    <3>2. CASE ~RouteKnown
      <4>1. quiet = {}
        BY <3>2, Zenon DEF IInv, QuietInv
      <4> QED
        BY <3>2, <4>1, SMTT(30) DEF Deliver
    <3> QED
      BY <3>1, <3>2, Zenon
  <2> QED
    BY <2>1, <2>2, Zenon DEF PastHandles, Past, IInv, TypeInv
<1>11. /\ UNCHANGED <<routeVars, ws>> /\ conn' = conn /\ owe' \in [Conn -> SUBSET Msg]
       /\ UNCHANGED ledger /\ faults' \in Nat
  BY Parts, Faults, Zenon DEF Deliver, sockVars, ledgerVars
<1> QED
  BY <1>6, <1>7, <1>9, <1>10, <1>11, Work, Zenon

\* A message with a handler has been taken from the queue.
LEMMA Taken ==
    ASSUME NEW m \in Msg, MsgInv(m), cons[m].pc # "idle" PROVE queue[m] = "taken" /\ cons[m].at \in Inst
  BY SMTT(30) DEF MsgInv, Placed, ConsIdle

\* What a handler knows of the route it reads from L1.
LEMMA RouteRead ==
    ASSUME IInv, NEW i \in Inst, l1[i] # NoEntry, quiet # {} PROVE l1[i] = route
  BY Zenon DEF IInv, QuietInv, RouteKnown

\* The record of onPushMessage changes while PushBatch is not waited for.
LEMMA ConsMoves ==
    ASSUME NEW m \in Msg, MsgInv(m), Keeps, UNCHANGED <<batch, queue>>, cons[m].pc # "idle",
           cons'[m].at = cons[m].at, cons'[m].pc \in {"persist", "group", "call"}, route' = route,
           m \in quiet' => m \in quiet,
           m \in quiet \cap WithSeq =>
             IF cons'[m].pc = "persist"
             THEN /\ cons'[m].todo \subseteq Here(cons[m].at)
                  /\ \A d \in Here(cons[m].at) \ cons'[m].todo : Held(d, m)
             ELSE \A d \in Here(cons[m].at) : Held(d, m)
    PROVE  MsgInv(m)'
<1>1. queue[m] = "taken" /\ cons[m].at \in Inst
  BY Taken, Zenon
<1>2. \A d \in Device : Held(d, m) => Held(d, m)'
  BY Zenon DEF Keeps
<1>3. Placed(m)'
  BY <1>1, Zenon DEF Placed, MsgInv
<1>4. Sending(m)'
  BY <1>2, SMTT(30) DEF Sending, MsgInv
<1>5. Covered(m)'
  <2>1. CASE m \notin quiet' \cap WithSeq
    BY <2>1, Zenon DEF Covered
  <2>2. CASE m \in quiet' \cap WithSeq
    <3>1. Here(cons[m].at)' = Here(cons[m].at) /\ Here(cons[m].at) \subseteq Device
      BY Zenon DEF Here
    <3>2. m \in quiet \cap WithSeq
      BY <2>2, Zenon
    <3>3. CASE cons'[m].pc = "persist"
      <4>1. /\ cons'[m].todo \subseteq Here(cons[m].at)
            /\ \A d \in Here(cons[m].at) \ cons'[m].todo : Held(d, m)'
        BY <1>2, <3>1, <3>2, <3>3, Zenon
      <4> QED
        BY <3>1, <3>3, <4>1, SMTT(30) DEF Covered
    <3>4. CASE cons'[m].pc \in {"group", "call"}
      <4>1. \A d \in Here(cons[m].at) : Held(d, m)'
        BY <1>2, <3>1, <3>2, <3>4, SMTT(30)
      <4> QED
        BY <3>1, <3>4, <4>1, SMTT(30) DEF Covered
    <3> QED
      BY <3>3, <3>4, Zenon
  <2> QED
    BY <2>1, <2>2, Zenon
<1> QED
  BY <1>3, <1>4, <1>5, Zenon DEF MsgInv

\* The loop over local devices keeps the invariant of its message.
LEMMA LocalLoopKeeps ==
    ASSUME IInv, NEW m \in Msg, NEW todo \in SUBSET Device, NEW local \in BOOLEAN,
           LocalLoop(m, todo, local), UNCHANGED <<batch, route>>, Keeps, cons[m].pc # "idle",
           m \in quiet \cap WithSeq =>
             todo \subseteq Here(cons[m].at) /\ \A d \in Here(cons[m].at) \ todo : Held(d, m)
    PROVE  /\ WorkShape' /\ Others(m) /\ MsgInv(m)'
           /\ UNCHANGED promiseVars \/ (Ack(m) /\ todo = {} /\ local)
<1>1. MsgInv(m) /\ WorkShape
  BY Parts, Zenon DEF IInv
<1>2. /\ WorkShape' /\ Others(m)
      /\ \/ /\ cons'[m].pc = "persist" /\ todo # {}
            /\ cons'[m].at = cons[m].at /\ cons'[m].todo = todo
            /\ UNCHANGED <<queue, promiseVars>>
         \/ /\ cons'[m].pc = "group" /\ todo = {}
            /\ cons'[m].at = cons[m].at
            /\ UNCHANGED <<queue, promiseVars>>
         \/ todo = {} /\ local /\ Ack(m) /\ cons'[m] = ConsIdle
  BY <1>1, LocalLoopView, Zenon
<1>3. CASE /\ cons'[m].pc = "persist" /\ cons'[m].at = cons[m].at /\ cons'[m].todo = todo
           /\ UNCHANGED <<queue, promiseVars>>
  <2>1. quiet' = quiet
    BY <1>3, Zenon DEF promiseVars
  <2>2. MsgInv(m)'
    BY <1>1, <1>3, <2>1, ConsMoves, SMTT(30)
  <2> QED
    BY <1>2, <1>3, <2>2, Zenon
<1>4. CASE /\ cons'[m].pc = "group" /\ todo = {} /\ cons'[m].at = cons[m].at
           /\ UNCHANGED <<queue, promiseVars>>
  <2>1. quiet' = quiet
    BY <1>4, Zenon DEF promiseVars
  <2>2. MsgInv(m)'
    BY <1>1, <1>4, <2>1, ConsMoves, SMTT(30)
  <2> QED
    BY <1>2, <1>4, <2>2, Zenon
<1>5. CASE todo = {} /\ local /\ Ack(m) /\ cons'[m] = ConsIdle
  <2>1. MsgInv(m)'
    BY <1>1, <1>5, NothingOwed, Zenon
  <2> QED
    BY <1>2, <1>5, <2>1, Zenon
<1> QED
  BY <1>2, <1>3, <1>4, <1>5, Zenon

\* ConsumeResolve keeps the invariant and settled entries.
LEMMA ConsumeResolveStep ==
    ASSUME IInv, NEW m \in Msg, ConsumeResolve(m) PROVE IInv' /\ AckStays
<1> DEFINE i == cons[m].at
           todo == {d \in Device : l1[i][d] = i}
<1>1. MsgInv(m) /\ cons[m].pc # "idle"
  BY Zenon DEF IInv, ConsumeResolve
<1>2. i \in Inst /\ l1[i] # NoEntry
  BY <1>1, Taken, Zenon DEF ConsumeResolve
<1>3. m \in quiet \cap WithSeq => todo = Here(i)
  BY <1>2, RouteRead, Zenon DEF Here
<1>4. todo \in SUBSET Device /\ LocalLoop(m, todo, FALSE)
  BY Zenon DEF ConsumeResolve
<1>5. UNCHANGED <<routeVars, sockVars, ws, ledgerVars, batch, faults>>
  BY Zenon DEF ConsumeResolve
<1> HIDE DEF todo
<1>6. Keeps /\ UNCHANGED <<batch, route>>
  BY <1>5, SameLedgers, Zenon DEF routeVars
<1>7. m \in quiet \cap WithSeq =>
        todo \subseteq Here(cons[m].at) /\ \A d \in Here(cons[m].at) \ todo : Held(d, m)
  BY <1>3, Zenon
<1>8. WorkShape' /\ Others(m) /\ MsgInv(m)' /\ UNCHANGED promiseVars
  BY <1>1, <1>4, <1>6, <1>7, LocalLoopKeeps, Zenon
<1> QED
  BY <1>5, <1>8, Quietly, Zenon

\* ConsumeGroup keeps the invariant and settled entries.
LEMMA ConsumeGroupStep ==
    ASSUME IInv, NEW m \in Msg, ConsumeGroup(m) PROVE IInv' /\ AckStays
<1> DEFINE i == cons[m].at
           peers == {l1[i][d] : d \in Device} \ {None, i}
<1>1. MsgInv(m) /\ cons[m].pc = "group" /\ cons[m].pc # "idle" /\ WorkShape
  BY Parts, Zenon DEF IInv, ConsumeGroup
<1>2. i \in Inst /\ l1[i] # NoEntry
  BY <1>1, Taken, Zenon DEF ConsumeGroup
<1>3. l1[i] \in Route
  BY <1>2, Parts, Zenon
<1>4. peers \in SUBSET Inst
  BY <1>3, SMTT(30) DEF Route
<1>5. RemoteLoop(m, peers) /\ UNCHANGED <<routeVars, sockVars, ws, ledgerVars, batch, faults>>
  BY Zenon DEF ConsumeGroup
<1>6. m \in quiet \cap WithSeq => \A d \in Here(i) : Held(d, m)
  BY <1>1, SMTT(30) DEF MsgInv, Covered
<1>7. m \in quiet \cap WithSeq /\ peers = {} => \A d \in Routed(route) : d \in Here(i)
  <2> SUFFICES ASSUME m \in quiet, peers = {}, NEW d \in Device, route[d] # None PROVE route[d] = i
    BY Zenon DEF Routed, Here
  <2>1. l1[i] = route
    BY <1>2, RouteRead, Zenon
  <2> QED
    BY <2>1, SMTT(30)
<1> HIDE DEF peers
<1>8. Keeps /\ UNCHANGED <<batch, route>>
  BY <1>5, SameLedgers, Zenon DEF routeVars
<1>9. /\ WorkShape' /\ Others(m)
      /\ \/ cons'[m].pc = "call" /\ cons'[m].at = cons[m].at /\ UNCHANGED <<queue, promiseVars>>
         \/ peers = {} /\ Ack(m) /\ cons'[m] = ConsIdle
  BY <1>1, <1>4, <1>5, <1>8, RemoteLoopView, Zenon
<1>10. CASE cons'[m].pc = "call" /\ cons'[m].at = cons[m].at /\ UNCHANGED <<queue, promiseVars>>
  <2>1. quiet' = quiet /\ UNCHANGED promiseVars
    BY <1>10, Zenon DEF promiseVars
  <2>2. MsgInv(m)'
    BY <1>1, <1>6, <1>8, <1>10, <2>1, ConsMoves, SMTT(30)
  <2> QED
    BY <1>5, <1>9, <2>1, <2>2, Quietly, Zenon
<1>11. CASE peers = {} /\ Ack(m) /\ cons'[m] = ConsIdle
  <2>1. MsgInv(m)'
    BY <1>1, <1>8, <1>11, NothingOwed, Zenon
  <2>2. m \in quiet \cap WithSeq => \A d \in Routed(route) : Held(d, m)
    BY <1>6, <1>7, <1>11, Zenon
  <2> QED
    BY <1>5, <1>9, <1>11, <2>1, <2>2, Quietly, Zenon
<1> QED
  BY <1>9, <1>10, <1>11, Zenon

\* A step that gives the message back to the queue.
LEMMA RequeueKeeps ==
    ASSUME IInv, NEW m \in Msg, Requeue(m), Keeps, UNCHANGED batch \/ batch' = [batch EXCEPT ![m] = BatchIdle]
    PROVE  WorkShape' /\ Others(m) /\ MsgInv(m)'
<1>1. MsgInv(m) /\ WorkShape
  BY Parts, Zenon DEF IInv
<1>2. CASE UNCHANGED batch
  <2>1. PICK b \in BatchState : b = batch[m]
    BY <1>1, Zenon DEF WorkShape
  <2>2. WorkShape' /\ Others(m) /\ cons'[m] = ConsIdle /\ batch'[m] = b
    BY <1>1, <1>2, <2>1, EndView, Zenon
  <2> QED
    BY <1>1, <2>1, <2>2, NothingOwed, Zenon
<1>3. CASE batch' = [batch EXCEPT ![m] = BatchIdle]
  <2>1. WorkShape' /\ Others(m) /\ cons'[m] = ConsIdle /\ batch'[m] = BatchIdle
    BY <1>1, <1>3, Idles, EndView, Zenon
  <2> QED
    BY <1>1, <2>1, NothingOwed, Zenon
<1> QED
  BY <1>2, <1>3, Zenon

\* ConsumeFault keeps the invariant and settled entries.
LEMMA ConsumeFaultStep ==
    ASSUME IInv, NEW m \in Msg, ConsumeFault(m) PROVE IInv' /\ AckStays
<1>1. /\ Requeue(m) /\ UNCHANGED batch /\ UNCHANGED promiseVars /\ \E k : Fault(k)
      /\ UNCHANGED <<routeVars, sockVars, ws, ledgerVars>>
  BY Zenon DEF ConsumeFault, ConsumeRouteError, ConsumeTimeout
<1>2. Keeps
  BY <1>1, SameLedgers, Zenon
<1>3. WorkShape' /\ Others(m) /\ MsgInv(m)'
  BY <1>1, <1>2, RequeueKeeps, Zenon
<1> QED
  BY <1>1, <1>3, Quietly, Zenon

\* ConsumeCall keeps the invariant and settled entries.
LEMMA ConsumeCallStep ==
    ASSUME IInv, NEW m \in Msg, ConsumeCall(m) PROVE IInv' /\ AckStays
<1>1. MsgInv(m) /\ WorkShape /\ cons[m].pc = "call" /\ cons[m].pc # "idle" /\ cons[m] \in ConsState
  BY Parts, Zenon DEF IInv, ConsumeCall, WorkShape
<1>2. UNCHANGED <<routeVars, sockVars, ws, ledgerVars, faults, promiseVars>>
  BY Zenon DEF ConsumeCall
<1>3. Keeps
  BY <1>2, SameLedgers, Zenon
<1>4. PICK peer \in cons[m].peers :
         \/ \E q \in Choose(peer) \cap alive :
              /\ batch' = [batch EXCEPT ![m] = [BatchIdle EXCEPT !.pc = "resolve", !.at = q]]
              /\ cons' = [cons EXCEPT ![m] = [cons[m] EXCEPT !.pc = "wait", !.to = peer]]
              /\ UNCHANGED queue
         \/ Requeue(m) /\ UNCHANGED batch
  BY Zenon DEF ConsumeCall
<1>5. CASE Requeue(m) /\ UNCHANGED batch
  <2>1. WorkShape' /\ Others(m) /\ MsgInv(m)'
    BY <1>3, <1>5, RequeueKeeps, Zenon
  <2> QED
    BY <1>2, <2>1, Quietly, Zenon
<1>6. ASSUME NEW q \in Choose(peer) \cap alive,
             batch' = [batch EXCEPT ![m] = [BatchIdle EXCEPT !.pc = "resolve", !.at = q]],
             cons' = [cons EXCEPT ![m] = [cons[m] EXCEPT !.pc = "wait", !.to = peer]],
             UNCHANGED queue
      PROVE  IInv' /\ AckStays
  <2>1. q \in Inst /\ peer \in Inst
    <3>1. q \in Inst
      BY Parts, <1>6, Zenon
    <3>2. peer \in Inst
      BY <1>1, Zenon DEF ConsState
    <3> QED
      BY <3>1, <3>2, Zenon
  <2> DEFINE c == cons[m]
             e == [c EXCEPT !.pc = "wait", !.to = peer]
             b == [BatchIdle EXCEPT !.pc = "resolve", !.at = q]
  <2>2. cons' = [cons EXCEPT ![m] = e] /\ batch' = [batch EXCEPT ![m] = b]
    BY <1>6, Zenon
  <2>3. b \in BatchState /\ b.pc = "resolve" /\ b.at = q
    BY <2>1, TakeMove, Zenon
  <2>4. e \in ConsState /\ e.pc = "wait" /\ e.at = cons[m].at
    BY <1>1, <2>1, WaitMove, Zenon
  <2> HIDE DEF e, b
  <2>5. PICK s \in QueueState : s = queue[m] /\ queue' = [queue EXCEPT ![m] = s]
    BY <1>1, <1>6, SMTT(30) DEF WorkShape
  <2>0. queue' = [queue EXCEPT ![m] = s]
    BY <2>5, Zenon
  <2>6. WorkShape' /\ Others(m) /\ cons'[m] = e /\ batch'[m] = b /\ queue'[m] = s
    BY <1>1, <2>0, <2>2, <2>3, <2>4, Replaced, Zenon
  <2>7. queue'[m] = "taken" /\ cons[m].at \in Inst
    BY <1>1, <2>5, <2>6, Taken, Zenon
  <2>8. \A d \in Device : Held(d, m) => Held(d, m)'
    BY <1>3, Zenon DEF Keeps
  <2>9. Placed(m)'
    BY <2>1, <2>3, <2>4, <2>6, <2>7, Zenon DEF Placed
  <2>10. Sending(m)'
    BY <2>3, <2>4, <2>6, SMTT(30) DEF Sending
  <2>11. Covered(m)'
    <3>1. quiet' = quiet /\ route' = route
      BY <1>2, Zenon DEF promiseVars, routeVars
    <3>2. Here(cons[m].at)' = Here(cons[m].at) /\ Here(cons[m].at) \subseteq Device
      BY <2>4, <2>6, <3>1, Zenon DEF Here
    <3>3. m \in quiet \cap WithSeq => \A d \in Here(cons[m].at) : Held(d, m)
      BY <1>1, SMTT(30) DEF MsgInv, Covered
    <3>4. m \in quiet \cap WithSeq => \A d \in Here(cons[m].at) : Held(d, m)'
      BY <2>8, <3>2, <3>3, Zenon
    <3> QED
      BY <2>3, <2>4, <2>6, <3>1, <3>2, <3>4, SMTT(30) DEF Covered
  <2>12. MsgInv(m)'
    BY <2>9, <2>10, <2>11, Zenon DEF MsgInv
  <2> QED
    BY <1>2, <2>6, <2>12, Quietly, Zenon
<1> QED
  BY <1>4, <1>5, <1>6, Zenon

\* What persist_unacked_ does to the ledger.
LEMMA PersistKeeps ==
    ASSUME IInv, NEW m \in Msg, NEW d \in Device, UNCHANGED settled,
           \/ ledger' = IF m \in WithSeq THEN Push(d, m) ELSE ledger
           \/ ledger' \in {ledger, Push(d, m)}
    PROVE  /\ Keeps /\ Clean(Msg \ {m})
           /\ ledger' = (IF m \in WithSeq THEN Push(d, m) ELSE ledger) => (m \in WithSeq => Held(d, m)')
<1>1. ledger' \in {ledger, Push(d, m)}
  BY SMTT(30)
<1>2. Keeps /\ Clean(Msg \ {m}) /\ (ledger' = Push(d, m) => Held(d, m)')
  BY <1>1, Parts, PushKeeps, Zenon
<1> QED
  BY <1>2, Zenon

\* A step of a handler that leaves the connections alone.
LEMMA Persisting ==
    ASSUME IInv, NEW m \in Msg, UNCHANGED <<routeVars, sockVars, ws, promiseVars>>,
           cons[m].pc # "idle" \/ batch[m].pc # "idle",
           UNCHANGED faults \/ NoFault \/ \E k : Fault(k), Keeps, Clean(Msg \ {m}),
           WorkShape' /\ Others(m), MsgInv(m)'
    PROVE  IInv' /\ AckStays
<1>1. UNCHANGED <<routeVars, ws>> /\ conn' = conn /\ owe' \in [Conn -> SUBSET Msg]
  BY Parts, Zenon DEF sockVars
<1>2. got' = got
  BY Zenon DEF sockVars
<1>3. got' \in [Device -> SUBSET Msg] /\ \A d \in Device : \A n \in got'[d] \ got[d] : n \in WithSeq => Held(d, n)'
  BY <1>2, Parts, Zenon
<1>4. PastHandles(m)
  BY <1>3, PastAcks, Zenon
<1>5. faults' \in Nat
  BY Faults, Zenon
<1> QED
  BY <1>1, <1>4, <1>5, Work, Zenon

\* ConsumePersist keeps the invariant and settled entries.
LEMMA ConsumePersistStep ==
    ASSUME IInv, NEW m \in Msg, NEW d \in Device, ConsumePersist(m, d) PROVE IInv' /\ AckStays
<1>1. /\ MsgInv(m) /\ WorkShape /\ cons[m].pc = "persist" /\ cons[m].pc # "idle" /\ cons[m] \in ConsState
      /\ d \in cons[m].todo
  BY Parts, Zenon DEF IInv, ConsumePersist, WorkShape
<1>2. /\ UNCHANGED <<routeVars, sockVars, ws, promiseVars>> /\ UNCHANGED batch /\ UNCHANGED settled
      /\ UNCHANGED faults \/ NoFault \/ \E k : Fault(k)
  BY Zenon DEF ConsumePersist
<1>3. /\ Keeps /\ Clean(Msg \ {m})
      /\ ledger' = (IF m \in WithSeq THEN Push(d, m) ELSE ledger) => (m \in WithSeq => Held(d, m)')
  <2>1. \/ ledger' = IF m \in WithSeq THEN Push(d, m) ELSE ledger
        \/ ledger' \in {ledger, Push(d, m)}
    BY Zenon DEF ConsumePersist
  <2> QED
    BY <1>2, <2>1, PersistKeeps, Zenon
<1>4. CASE Requeue(m)
  <2>1. WorkShape' /\ Others(m) /\ MsgInv(m)'
    BY <1>2, <1>3, <1>4, RequeueKeeps, Zenon
  <2> QED
    BY <1>1, <1>2, <1>3, <2>1, Persisting, Zenon
<1>5. CASE /\ ledger' = IF m \in WithSeq THEN Push(d, m) ELSE ledger
           /\ cons' = [cons EXCEPT ![m] = [cons[m] EXCEPT !.pc = "send", !.dev = d]]
           /\ UNCHANGED queue
  <2> DEFINE c == cons[m]
             e == [c EXCEPT !.pc = "send", !.dev = d]
  <2>1. e \in ConsState /\ e.pc = "send" /\ e.at = cons[m].at /\ e.todo = cons[m].todo /\ e.dev = d
    BY <1>1, SendMove, Zenon
  <2>2. cons' = [cons EXCEPT ![m] = e]
    BY <1>5, Zenon
  <2> HIDE DEF e
  <2>3. WorkShape' /\ Others(m) /\ cons'[m] = e
    BY <1>1, <1>2, <1>5, <2>1, <2>2, ConsReplaced, Zenon
  <2>4. queue'[m] = "taken" /\ cons[m].at \in Inst
    BY <1>1, <1>5, Taken, Zenon
  <2>5. \A x \in Device : Held(x, m) => Held(x, m)'
    BY <1>3, Zenon DEF Keeps
  <2>6. m \in WithSeq => Held(d, m)'
    BY <1>3, <1>5, Zenon
  <2>7. batch'[m] = batch[m]
    BY <1>2, Zenon
  <2>8. Placed(m)'
    BY <1>1, <2>1, <2>3, <2>4, <2>7, Zenon DEF Placed, MsgInv
  <2>9. Sending(m)'
    <3>1. cons'[m].dev = d
      BY <2>1, <2>3, Zenon
    <3>2. \A x : batch[m].pc = "send" /\ x = batch[m].dev => x \in Device /\ (m \in WithSeq => Held(x, m)')
      BY <1>1, <2>5, Zenon DEF Sending, MsgInv
    <3> QED
      BY <2>6, <2>7, <3>1, <3>2, SMTT(30) DEF Sending, Held
  <2>10. Covered(m)'
    <3>1. quiet' = quiet /\ route' = route
      BY <1>2, Zenon DEF promiseVars, routeVars
    <3>2. Here(cons[m].at)' = Here(cons[m].at) /\ Here(cons[m].at) \subseteq Device
      BY <2>1, <2>3, <3>1, Zenon DEF Here
    <3>3. m \in quiet \cap WithSeq => /\ cons[m].todo \subseteq Here(cons[m].at)
                                       /\ \A x \in Here(cons[m].at) \ cons[m].todo : Held(x, m)
      BY <1>1, SMTT(30) DEF MsgInv, Covered
    <3>4. m \in quiet \cap WithSeq => \A x \in Here(cons[m].at) \ cons[m].todo : Held(x, m)'
      BY <2>5, <3>2, <3>3, Zenon
    <3> QED
      BY <1>1, <2>1, <2>3, <3>1, <3>2, <3>3, <3>4, SMTT(30) DEF Covered
  <2>11. MsgInv(m)'
    BY <2>8, <2>9, <2>10, Zenon DEF MsgInv
  <2> QED
    BY <1>1, <1>2, <1>3, <2>3, <2>11, Persisting, Zenon
<1> QED
  BY <1>4, <1>5, Zenon DEF ConsumePersist

\* What _local_send of m to a device that holds it does to the histories.
LEMMA SendGets ==
    ASSUME IInv, NEW m \in Msg, NEW d \in Device, NEW i, LocalSend(d, i, {m}), Keeps,
           m \in WithSeq => Held(d, m)
    PROVE  /\ conn' = conn /\ owe' \in [Conn -> SUBSET Msg] /\ got' \in [Device -> SUBSET Msg]
           /\ \A x \in Device : \A n \in got'[x] \ got[x] : n \in WithSeq => Held(x, n)'
<1>1. {m} \in SUBSET Msg
  BY Zenon
<1>2. /\ conn' = conn /\ owe' \in [Conn -> SUBSET Msg] /\ got' \in [Device -> SUBSET Msg]
      /\ \A x \in Device : got'[x] \subseteq got[x] \cup (IF x = d THEN {m} ELSE {})
  BY <1>1, Parts, SendTypes, Zenon
<1>3. ASSUME NEW x \in Device, NEW n, n \in got'[x], n \notin got[x], n \in WithSeq PROVE Held(x, n)'
  <2>1. x = d /\ n = m
    BY <1>2, <1>3, SMTT(30)
  <2> QED
    BY <1>3, <2>1, Zenon DEF Keeps
<1> QED
  BY <1>2, <1>3, Zenon

\* ConsumeSend keeps the invariant and settled entries.
LEMMA ConsumeSendStep ==
    ASSUME IInv, NEW m \in Msg, ConsumeSend(m) PROVE IInv' /\ AckStays
<1> DEFINE i == cons[m].at
           d == cons[m].dev
           todo == cons[m].todo \ {d}
           local == cons[m].local \/ (m \notin WithSeq \/ Registered(d, i) # {})
<1>1. MsgInv(m) /\ WorkShape /\ cons[m].pc = "send" /\ cons[m].pc # "idle" /\ cons[m] \in ConsState
  BY Parts, Zenon DEF IInv, ConsumeSend, WorkShape
<1>2. UNCHANGED <<routeVars, ws>> /\ UNCHANGED ledgerVars /\ UNCHANGED batch /\ UNCHANGED faults
  BY Zenon DEF ConsumeSend
<1>3. LocalSend(d, i, {m}) /\ LocalLoop(m, todo, local)
  BY Zenon DEF ConsumeSend
<1>4. todo \in SUBSET Device
  BY <1>1, Zenon DEF ConsState
<1>5. local \in BOOLEAN
  BY <1>1, Zenon DEF ConsState
<1>6. Keeps /\ Clean(Msg) /\ Clean(Msg \ {m})
  <2>1. Keeps /\ Clean(Msg)
    BY <1>2, SameLedgers, Zenon
  <2> QED
    BY <2>1, Zenon DEF Clean
<1>7. d \in Device /\ (m \in WithSeq => Held(d, m))
  BY <1>1, Zenon DEF MsgInv, Sending
<1>8. m \in quiet \cap WithSeq => /\ todo \subseteq Here(i) /\ d \in Here(i)
                                   /\ \A x \in Here(i) \ todo : Held(x, m)
  <2>1. m \in quiet \cap WithSeq => /\ cons[m].todo \subseteq Here(i) /\ d \in cons[m].todo
                                     /\ \A x \in Here(i) \ cons[m].todo : Held(x, m)
    BY <1>1, SMTT(30) DEF MsgInv, Covered
  <2> QED
    BY <1>7, <2>1, Zenon
<1> HIDE DEF todo, local
<1>9. /\ WorkShape' /\ Others(m) /\ MsgInv(m)'
      /\ UNCHANGED promiseVars \/ (Ack(m) /\ todo = {})
  <2>1. UNCHANGED <<batch, route>>
    BY <1>2, Zenon DEF routeVars
  <2> QED
    BY <1>1, <1>3, <1>4, <1>5, <1>6, <1>8, <2>1, LocalLoopKeeps, Zenon
<1>10. todo = {} /\ m \in quiet \cap WithSeq /\ OneHome(route) => \A x \in Routed(route) : Held(x, m)
  <2> SUFFICES ASSUME todo = {}, m \in quiet \cap WithSeq, OneHome(route), NEW x \in Routed(route)
               PROVE  Held(x, m)
    BY Zenon
  <2>1. i \in Inst /\ route[d] = i
    BY <1>1, <1>8, Taken, Zenon DEF Here
  <2>2. d \in Routed(route)
    BY <1>7, <2>1, ConstantsAssumption, Zenon DEF Routed
  <2>3. x \in Here(i)
    BY <2>1, <2>2, Zenon DEF OneHome, Here, Routed
  <2> QED
    BY <1>8, <2>3, Zenon
<1>11. /\ conn' = conn /\ owe' \in [Conn -> SUBSET Msg] /\ got' \in [Device -> SUBSET Msg]
       /\ \A x \in Device : \A n \in got'[x] \ got[x] : n \in WithSeq => Held(x, n)'
  BY <1>3, <1>6, <1>7, SendGets, Zenon
<1>12. PastHandles(m)
  <2>1. \/ UNCHANGED promiseVars
        \/ Ack(m) /\ (m \in quiet \cap WithSeq /\ OneHome(route) => \A x \in Routed(route) : Held(x, m))
    BY <1>9, <1>10, Zenon
  <2> QED
    BY <1>6, <1>11, <2>1, PastAcks, Zenon
<1>13. faults' \in Nat
  BY <1>2, Faults, Zenon
<1> QED
  BY <1>1, <1>2, <1>6, <1>9, <1>11, <1>12, <1>13, Work, Zenon

\* The record of PushBatch changes, or PushBatch answers its caller.
LEMMA BatchMoves ==
    ASSUME NEW m \in Msg, MsgInv(m), Keeps, UNCHANGED queue, cons[m].pc # "idle" => queue[m] = "taken",
           quiet' = quiet, route' = route,
           batch'[m].pc = "idle" \/ (batch'[m].at = batch[m].at /\ batch[m].pc # "idle"),
           batch'[m].pc = "send" => batch'[m].dev \in Device,
           \A x : batch'[m].pc = "send" /\ x = batch'[m].dev => (m \in WithSeq => Held(x, m)'),
           \/ cons'[m] = cons[m]
           \/ /\ cons[m].pc = "wait" /\ cons'[m].pc = "call"
              /\ cons'[m].at = cons[m].at /\ batch'[m].pc = "idle",
           m \in quiet \cap WithSeq /\ cons'[m].pc = "wait" /\ batch'[m].pc \in {"persist", "send"} =>
             \A d \in Routed(route) \ batch'[m].todo : Held(d, m)
    PROVE  MsgInv(m)'
<1>1. \A d \in Device : Held(d, m) => Held(d, m)'
  BY Zenon DEF Keeps
<1>2. Placed(m)'
  <2>1. /\ cons[m].pc # "idle" => cons[m].at \in Inst
        /\ batch[m].pc # "idle" => batch[m].at \in Inst
        /\ queue[m] # "taken" => cons[m] = ConsIdle
    BY Zenon DEF MsgInv, Placed
  <2>2. cons[m].pc = "wait" => queue[m] = "taken" /\ cons[m].at \in Inst
    BY <2>1, SMTT(30)
  <2> QED
    BY <2>1, <2>2, SMTT(30) DEF Placed
<1>3. Sending(m)'
  <2>1. \A x : cons[m].pc = "send" /\ x = cons[m].dev => x \in Device /\ (m \in WithSeq => Held(x, m)')
    BY <1>1, Zenon DEF Sending, MsgInv
  <2> QED
    BY <2>1, SMTT(30) DEF Sending, Held
<1>4. Covered(m)'
  <2>1. CASE m \notin quiet \cap WithSeq
    BY <2>1, Zenon DEF Covered
  <2>2. CASE m \in quiet \cap WithSeq
    <3>1. Here(cons[m].at)' = Here(cons[m].at) /\ Here(cons[m].at) \subseteq Device
      BY SMTT(30) DEF Here
    <3>2. Routed(route)' = Routed(route) /\ Routed(route) \subseteq Device
      BY Zenon DEF Routed
    <3>3. cons'[m].pc = "wait" /\ batch'[m].pc \in {"persist", "send"} =>
             \A d \in Routed(route) \ batch'[m].todo : Held(d, m)'
      BY <1>1, <2>2, <3>2, Zenon
    <3>4. /\ cons[m].pc \in {"persist", "send"} =>
               /\ cons[m].todo \subseteq Here(cons[m].at)
               /\ \A d \in Here(cons[m].at) \ cons[m].todo : Held(d, m)'
          /\ cons[m].pc = "send" => cons[m].dev \in cons[m].todo
          /\ cons[m].pc \in {"group", "call", "wait"} => \A d \in Here(cons[m].at) : Held(d, m)'
      BY <1>1, <2>2, <3>1, Zenon DEF MsgInv, Covered
    <3>5. CASE cons'[m] = cons[m]
      BY <3>1, <3>2, <3>3, <3>4, <3>5, Zenon DEF Covered
    <3>6. CASE cons[m].pc = "wait" /\ cons'[m].pc = "call" /\ cons'[m].at = cons[m].at /\ batch'[m].pc = "idle"
      BY <3>1, <3>4, <3>6, SMTT(30) DEF Covered
    <3> QED
      BY <3>5, <3>6, Zenon
  <2> QED
    BY <2>1, <2>2, Zenon
<1> QED
  BY <1>2, <1>3, <1>4, Zenon DEF MsgInv

\* The loop of PushBatch keeps the invariant of its message.
LEMMA BatchLoopKeeps ==
    ASSUME IInv, NEW m \in Msg, NEW todo \in SUBSET Device, BatchLoop(m, todo), route' = route, Keeps,
           batch[m].pc # "idle",
           m \in quiet \cap WithSeq /\ cons[m].pc = "wait" => \A d \in Routed(route) \ todo : Held(d, m)
    PROVE  /\ WorkShape' /\ Others(m) /\ MsgInv(m)'
           /\ \/ UNCHANGED promiseVars
              \/ Ack(m) /\ (m \in quiet \cap WithSeq /\ OneHome(route) => \A d \in Routed(route) : Held(d, m))
<1>1. MsgInv(m) /\ WorkShape
  BY Parts, Zenon DEF IInv
<1>2. cons[m].pc # "idle" => queue[m] = "taken"
  BY <1>1, Taken, Zenon
<1>3. BatchIdle.pc = "idle"
  BY Zenon DEF BatchIdle
<1>4. /\ WorkShape' /\ Others(m)
      /\ \/ /\ batch'[m].pc = "persist" /\ batch'[m].at = batch[m].at
            /\ batch'[m].todo = todo /\ todo # {}
            /\ UNCHANGED <<queue, cons, promiseVars>>
         \/ /\ todo = {} /\ batch'[m] = BatchIdle
            /\ \/ UNCHANGED <<queue, cons, promiseVars>> /\ cons[m].pc # "wait"
               \/ /\ cons'[m].pc = "call" /\ cons'[m].at = cons[m].at /\ cons[m].pc = "wait"
                  /\ UNCHANGED <<queue, promiseVars>>
               \/ Ack(m) /\ cons'[m] = ConsIdle /\ cons[m].pc = "wait"
  BY <1>1, BatchLoopView, Zenon
<1>5. CASE UNCHANGED <<queue, promiseVars>>
  <2>1. quiet' = quiet /\ UNCHANGED queue /\ UNCHANGED promiseVars
    BY <1>5, Zenon DEF promiseVars
  <2>2. CASE /\ batch'[m].pc = "persist" /\ batch'[m].at = batch[m].at /\ batch'[m].todo = todo
             /\ cons'[m] = cons[m]
    <3>1. MsgInv(m)'
      BY <1>1, <1>2, <2>1, <2>2, BatchMoves, SMTT(30)
    <3> QED
      BY <1>4, <2>1, <3>1, Zenon
  <2>3. CASE batch'[m] = BatchIdle /\ (cons'[m] = cons[m] \/ (/\ cons[m].pc = "wait" /\ cons'[m].pc = "call"
                                                              /\ cons'[m].at = cons[m].at))
    <3>1. MsgInv(m)'
      BY <1>1, <1>2, <1>3, <2>1, <2>3, BatchMoves, SMTT(30)
    <3> QED
      BY <1>4, <2>1, <3>1, Zenon
  <2>4. \/ /\ batch'[m].pc = "persist" /\ batch'[m].at = batch[m].at /\ batch'[m].todo = todo
           /\ cons'[m] = cons[m]
        \/ batch'[m] = BatchIdle /\ (cons'[m] = cons[m] \/ (/\ cons[m].pc = "wait" /\ cons'[m].pc = "call"
                                                              /\ cons'[m].at = cons[m].at))
        \/ Ack(m) /\ cons'[m] = ConsIdle /\ cons[m].pc = "wait" /\ batch'[m] = BatchIdle
    BY <1>4, Zenon
  <2>5. CASE Ack(m) /\ cons'[m] = ConsIdle /\ cons[m].pc = "wait" /\ batch'[m] = BatchIdle
    <3>1. MsgInv(m)'
      BY <1>1, <2>5, NothingOwed, Zenon
    <3> QED
      BY <1>4, <2>1, <3>1, Zenon
  <2> QED
    BY <2>2, <2>3, <2>4, <2>5, Zenon
<1>6. CASE todo = {} /\ Ack(m) /\ cons'[m] = ConsIdle /\ cons[m].pc = "wait" /\ batch'[m] = BatchIdle
  <2>1. MsgInv(m)'
    BY <1>1, <1>6, NothingOwed, Zenon
  <2>2. m \in quiet \cap WithSeq => \A d \in Routed(route) : Held(d, m)
    BY <1>6, Zenon
  <2> QED
    BY <1>4, <1>6, <2>1, <2>2, Zenon
<1> QED
  BY <1>4, <1>5, <1>6, Zenon

\* BatchResolve keeps the invariant and settled entries.
LEMMA BatchResolveStep ==
    ASSUME IInv, NEW m \in Msg, BatchResolve(m) PROVE IInv' /\ AckStays
<1> DEFINE q == batch[m].at
           todo == Routed(l1[q])
<1>1. MsgInv(m) /\ batch[m].pc # "idle" /\ BatchLoop(m, todo) /\ l1[q] # NoEntry
  BY Zenon DEF IInv, BatchResolve
<1>2. UNCHANGED <<routeVars, sockVars, ws, ledgerVars>> /\ UNCHANGED faults
  BY Zenon DEF BatchResolve
<1>3. Keeps /\ route' = route
  BY <1>2, SameLedgers, Zenon DEF routeVars
<1>4. todo \in SUBSET Device
  BY Zenon DEF Routed
<1>5. m \in quiet => todo = Routed(route)
  <2>1. q \in Inst
    BY <1>1, Zenon DEF MsgInv, Placed
  <2>2. m \in quiet => l1[q] = route
    BY <1>1, <2>1, RouteRead, Zenon
  <2> QED
    BY <2>2, Zenon
<1> HIDE DEF todo
<1>6. /\ WorkShape' /\ Others(m) /\ MsgInv(m)'
      /\ \/ UNCHANGED promiseVars
         \/ Ack(m) /\ (m \in quiet \cap WithSeq /\ OneHome(route) => \A d \in Routed(route) : Held(d, m))
  <2>1. m \in quiet \cap WithSeq /\ cons[m].pc = "wait" => \A d \in Routed(route) \ todo : Held(d, m)
    BY <1>5, Zenon
  <2> QED
    BY <1>1, <1>3, <1>4, <2>1, BatchLoopKeeps, Zenon
<1> QED
  BY <1>2, <1>6, Quietly, Zenon

\* BatchPersist keeps the invariant and settled entries.
LEMMA BatchPersistStep ==
    ASSUME IInv, NEW m \in Msg, NEW d \in Device, BatchPersist(m, d) PROVE IInv' /\ AckStays
<1>1. /\ MsgInv(m) /\ WorkShape /\ batch[m].pc = "persist" /\ batch[m].pc # "idle" /\ batch[m] \in BatchState
      /\ d \in batch[m].todo
  BY Parts, Zenon DEF IInv, BatchPersist, WorkShape
<1>2. /\ UNCHANGED <<routeVars, sockVars, ws, promiseVars>> /\ UNCHANGED settled /\ UNCHANGED faults
      /\ UNCHANGED <<cons, queue>>
  BY Zenon DEF BatchPersist
<1>3. Keeps /\ Clean(Msg \ {m}) /\ (m \in WithSeq => Held(d, m)')
  <2>1. ledger' = IF m \in WithSeq THEN Push(d, m) ELSE ledger
    BY Zenon DEF BatchPersist
  <2> QED
    BY <1>2, <2>1, PersistKeeps, Zenon
<1> DEFINE b == batch[m]
           e == [b EXCEPT !.pc = "send", !.dev = d]
<1>4. e \in BatchState /\ e.pc = "send" /\ e.at = batch[m].at /\ e.todo = batch[m].todo /\ e.dev = d
  BY <1>1, BatchSendMove, Zenon
<1>5. batch' = [batch EXCEPT ![m] = e]
  BY Zenon DEF BatchPersist
<1> HIDE DEF e
<1>6. WorkShape' /\ Others(m) /\ batch'[m] = e
  BY <1>1, <1>2, <1>4, <1>5, BatchReplaced, Zenon
<1>7. MsgInv(m)'
  <2>1. quiet' = quiet /\ route' = route /\ cons'[m] = cons[m] /\ UNCHANGED queue
    BY <1>2, Zenon DEF promiseVars, routeVars
  <2>2. cons[m].pc # "idle" => queue[m] = "taken"
    BY <1>1, Taken, Zenon
  <2>3. m \in quiet \cap WithSeq /\ cons[m].pc = "wait" => \A x \in Routed(route) \ batch[m].todo : Held(x, m)
    BY <1>1, SMTT(30) DEF MsgInv, Covered
  <2>4. batch'[m].pc = "send" /\ batch'[m].at = batch[m].at /\ batch'[m].todo = batch[m].todo /\ batch'[m].dev = d
    BY <1>4, <1>6, Zenon
  <2>5. \A x : batch'[m].pc = "send" /\ x = batch'[m].dev => (m \in WithSeq => Held(x, m)')
    BY <1>3, <2>4, Zenon
  <2>6. m \in quiet \cap WithSeq /\ cons'[m].pc = "wait" /\ batch'[m].pc \in {"persist", "send"} =>
             \A x \in Routed(route) \ batch'[m].todo : Held(x, m)
    BY <2>1, <2>3, <2>4, Zenon
  <2>7. batch'[m].dev \in Device
    BY <2>4, Zenon
  <2> QED
    BY <1>1, <1>3, <2>1, <2>2, <2>4, <2>5, <2>6, <2>7, BatchMoves, Zenon
<1> QED
  BY <1>1, <1>2, <1>3, <1>6, <1>7, Persisting, Zenon

\* BatchSend keeps the invariant and settled entries.
LEMMA BatchSendStep ==
    ASSUME IInv, NEW m \in Msg, BatchSend(m) PROVE IInv' /\ AckStays
<1> DEFINE d == batch[m].dev
           todo == batch[m].todo \ {d}
<1>1. MsgInv(m) /\ WorkShape /\ batch[m].pc = "send" /\ batch[m].pc # "idle" /\ batch[m] \in BatchState
  BY Parts, Zenon DEF IInv, BatchSend, WorkShape
<1>2. UNCHANGED <<routeVars, ws>> /\ UNCHANGED ledgerVars /\ UNCHANGED faults /\ route' = route
  BY Zenon DEF BatchSend, routeVars
<1>3. LocalSend(d, batch[m].at, {m}) /\ BatchLoop(m, todo)
  BY Zenon DEF BatchSend
<1>4. todo \in SUBSET Device
  BY <1>1, Zenon DEF BatchState
<1>5. Keeps /\ Clean(Msg) /\ Clean(Msg \ {m})
  <2>1. Keeps /\ Clean(Msg)
    BY <1>2, SameLedgers, Zenon
  <2> QED
    BY <2>1, Zenon DEF Clean
<1>6. d \in Device /\ (m \in WithSeq => Held(d, m))
  BY <1>1, Zenon DEF MsgInv, Sending
<1>7. m \in quiet \cap WithSeq /\ cons[m].pc = "wait" => \A x \in Routed(route) \ todo : Held(x, m)
  <2>1. m \in quiet \cap WithSeq /\ cons[m].pc = "wait" => \A x \in Routed(route) \ batch[m].todo : Held(x, m)
    BY <1>1, SMTT(30) DEF MsgInv, Covered
  <2> QED
    BY <1>6, <2>1, Zenon
<1> HIDE DEF todo
<1>8. /\ WorkShape' /\ Others(m) /\ MsgInv(m)'
      /\ \/ UNCHANGED promiseVars
         \/ Ack(m) /\ (m \in quiet \cap WithSeq /\ OneHome(route) => \A x \in Routed(route) : Held(x, m))
  BY <1>1, <1>2, <1>3, <1>4, <1>5, <1>7, BatchLoopKeeps, Zenon
<1>9. /\ conn' = conn /\ owe' \in [Conn -> SUBSET Msg] /\ got' \in [Device -> SUBSET Msg]
      /\ \A x \in Device : \A n \in got'[x] \ got[x] : n \in WithSeq => Held(x, n)'
  BY <1>3, <1>5, <1>6, SendGets, Zenon
<1>10. PastHandles(m)
  BY <1>5, <1>8, <1>9, PastAcks, Zenon
<1>11. faults' \in Nat
  BY <1>2, Faults, Zenon
<1> QED
  BY <1>1, <1>2, <1>5, <1>8, <1>9, <1>10, <1>11, Work, Zenon

\* BatchError keeps the invariant and settled entries.
LEMMA BatchErrorStep ==
    ASSUME IInv, NEW m \in Msg, BatchError(m) PROVE IInv' /\ AckStays
<1>1. MsgInv(m) /\ WorkShape /\ batch[m].pc # "idle" /\ batch[m] \in BatchState
  BY Parts, Zenon DEF IInv, BatchError, WorkShape
<1>2. /\ UNCHANGED <<routeVars, sockVars, ws, promiseVars>> /\ UNCHANGED settled /\ \E k : Fault(k)
      /\ batch' = [batch EXCEPT ![m] = BatchIdle]
  BY Zenon DEF BatchError
<1>3. Keeps /\ Clean(Msg \ {m})
  <2>1. CASE UNCHANGED ledger
    <3>1. UNCHANGED ledgerVars
      BY <1>2, <2>1, Zenon DEF ledgerVars
    <3>2. Keeps /\ Clean(Msg)
      BY <3>1, SameLedgers, Zenon
    <3> QED
      BY <3>2, Zenon DEF Clean
  <2>2. ASSUME NEW d \in batch[m].todo, ledger' \in {ledger, Push(d, m)} PROVE Keeps /\ Clean(Msg \ {m})
    <3>1. d \in Device
      BY <1>1, <2>2, Zenon DEF BatchState
    <3> QED
      BY <1>2, <2>2, <3>1, PersistKeeps, Zenon
  <2> QED
    BY <2>1, <2>2, Zenon DEF BatchError
<1>4. CASE Requeue(m)
  <2>1. WorkShape' /\ Others(m) /\ MsgInv(m)'
    BY <1>2, <1>3, <1>4, RequeueKeeps, Zenon
  <2> QED
    BY <1>1, <1>2, <1>3, <2>1, Persisting, Zenon
<1>5. CASE UNCHANGED <<queue, cons>>
  <2>1. WorkShape' /\ Others(m) /\ batch'[m] = BatchIdle
    BY <1>1, <1>2, <1>5, Idles, BatchReplaced, Zenon
  <2>2. BatchIdle.pc = "idle" /\ quiet' = quiet /\ route' = route /\ cons'[m] = cons[m] /\ UNCHANGED queue
    BY <1>2, <1>5, Zenon DEF promiseVars, routeVars, BatchIdle
  <2>3. cons[m].pc # "idle" => queue[m] = "taken"
    BY <1>1, Taken, Zenon
  <2>4. MsgInv(m)'
    BY <1>1, <1>3, <2>1, <2>2, <2>3, BatchMoves, SMTT(30)
  <2> QED
    BY <1>1, <1>2, <1>3, <2>1, <2>4, Persisting, Zenon
<1> QED
  BY <1>4, <1>5, Zenon DEF BatchError

-----------------------------------------------------------------------------
(* Theorems *)

\* The invariant holds at first.
LEMMA InitHolds == Init => IInv
<1> SUFFICES ASSUME Init PROVE IInv
  BY Zenon
<1>1. RouteTypes
  BY SMTT(30) DEF Init, RouteTypes, Route
<1>2. SockTypes
  <2>1. [st |-> "unused", dev |-> None, at |-> None] \in ConnState
    BY Zenon DEF ConnState
  <2> QED
    BY <2>1, Idles, Zenon DEF Init, SockTypes
<1>3. WorkShape
  <2>1. "ready" \in QueueState
    BY Zenon DEF QueueState
  <2> QED
    BY <2>1, Idles, Zenon DEF Init, WorkShape
<1>4. LedgerShape /\ faults \in Nat /\ Past
  BY SMTT(30) DEF Init, LedgerShape, Past
<1>5. QuietInv
  BY Zenon DEF Init, QuietInv
<1>6. \A m \in Msg : cons[m] = ConsIdle /\ batch[m] = BatchIdle
  BY Zenon DEF Init
<1>7. ConsIdle.pc = "idle" /\ BatchIdle.pc = "idle"
  BY Zenon DEF ConsIdle, BatchIdle
<1>8. ASSUME NEW m \in Msg PROVE MsgInv(m)
  BY <1>6, <1>7, SMTT(30) DEF Init, MsgInv, Placed, Sending, Covered
<1>9. AcknowledgedIsHeld /\ PersistedBeforeSent
  BY SMTT(30) DEF Init, AcknowledgedIsHeld, PersistedBeforeSent
<1> QED
  BY <1>1, <1>2, <1>3, <1>4, <1>5, <1>8, <1>9, Zenon DEF IInv, TypeInv

\* Every step keeps the invariant and settled entries.
LEMMA NextKeeps == IInv /\ [Next]_vars => IInv' /\ AckStays
<1> SUFFICES ASSUME IInv, [Next]_vars PROVE IInv' /\ AckStays
  BY Zenon
<1>1. CASE RouteStep \/ SocketStep \/ ResendStep \/ InstanceStep
  BY <1>1, BackgroundStep, Zenon
<1>2. ASSUME NEW m \in Msg, ConsumeStep(m) PROVE IInv' /\ AckStays
  BY <1>2, DeliverStep, ConsumeResolveStep, ConsumePersistStep, ConsumeSendStep, ConsumeGroupStep,
     ConsumeCallStep, Zenon DEF ConsumeStep
<1>3. ASSUME NEW m \in Msg, BatchStep(m) PROVE IInv' /\ AckStays
  BY <1>3, BatchResolveStep, BatchPersistStep, BatchSendStep, Zenon DEF BatchStep
<1>4. CASE UNCHANGED vars
  <2>1. /\ UNCHANGED routeVars /\ UNCHANGED <<conn, owe, ws>> /\ UNCHANGED faults /\ UNCHANGED ledgerVars
        /\ UNCHANGED workVars /\ UNCHANGED <<got, promiseVars, route>> /\ quiet' \subseteq quiet
    BY <1>4, Zenon DEF vars, routeVars, sockVars, promiseVars
  <2> QED
    BY <2>1, SameRoutes, SockFrame, Faults, SameLedgers, SameWork, PastFrame, Rest, Zenon
<1> QED
  BY <1>1, <1>2, <1>3, <1>4, ConsumeFaultStep, BatchErrorStep, Zenon DEF Next

\* The inductive invariant holds in every reachable state of Push.
THEOREM PushInvariance == Spec => []IInv
  BY InitHolds, NextKeeps, PTL DEF Spec

\* The variables of Push, its queue, sockets and ledgers keep their types.
THEOREM TypeCorrect == Spec => []TypeOK
<1>1. IInv => TypeOK
  BY Zenon DEF IInv, TypeInv, TypeOK, WorkTypes, HistoryTypes, WorkShape, LedgerShape, Past, QueueState
<1> QED
  BY <1>1, PushInvariance, PTL

\* Whatever the order of deliveries, requeues, PushBatch calls, client
\* acknowledgements, resends, expiries and crashes: a message whose push was
\* acknowledged to the queue is held for the devices of its route
\* (onPushMessage returns Ack only after persist_unacked_).
THEOREM PushSafe == Spec => []AcknowledgedIsHeld
<1>1. IInv => AcknowledgedIsHeld
  BY Zenon DEF IInv, WorkShape, LedgerShape, Past, QueueState
<1> QED
  BY <1>1, PushInvariance, PTL

\* Under the same conditions no device receives a numbered message before its
\* ledger holds it (persist_unacked_ before send_to_device, in onPushMessage
\* and in PushBatch).
THEOREM LedgerBeforeDevice == Spec => []PersistedBeforeSent
<1>1. IInv => PersistedBeforeSent
  BY Zenon DEF IInv, WorkShape, LedgerShape, Past
<1> QED
  BY <1>1, PushInvariance, PTL

\* What a client acknowledged stays out of the ledger once the deliveries of the
\* message are over (kAckLua against kPushLua and kBumpScoreLua).
THEOREM AckFinal == Spec => AckIsFinal
<1>1. IInv /\ [Next]_vars => [AckStays]_vars
  BY NextKeeps, Zenon
<1> QED
  BY <1>1, PushInvariance, PTL DEF Spec, AckIsFinal
=============================================================================
