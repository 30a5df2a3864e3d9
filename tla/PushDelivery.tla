----------------------------- MODULE PushDelivery -----------------------------
(***************************************************************************)
(* How Push brings the messages of one user to the user's devices.         *)
(*                                                                         *)
(* Each Push instance keeps the web-socket connections it accepted and an  *)
(* L1 copy of the user's route (device -> instance), whose truth is a hash *)
(* in Redis.  An instance that takes a message from the push queue writes  *)
(* it to the unacked ledger of each device it serves, sends it, and asks   *)
(* the other instances of the route to do the same (PushBatch) before it   *)
(* acknowledges the queue.  A device acknowledges what it received; what   *)
(* stays in its ledger is sent again on a heartbeat.                       *)
(*                                                                         *)
(* The members of a message are handled one after the other and share no   *)
(* state, so the module follows one user.  The web-socket handlers of an   *)
(* instance run on one thread; its queue consumer and PushBatch handlers   *)
(* run beside it.  Every Redis operation and RPC is a step of its own.     *)
(***************************************************************************)
EXTENDS Naturals, FiniteSets

CONSTANTS
    Inst,       \* Push instances; a restarted one keeps its instance id
    Device,     \* devices of the user
    Conn,       \* bound: the connections the devices may open
    Msg,        \* messages for the user
    WithSeq,    \* of those, the ones with a user_seq (not read-diffused)
    FaultKinds, \* the faults this instance explores
    MaxFaults,  \* bound: how many faults a behaviour contains
    None,       \* no instance, no device, no connection
    NoEntry     \* an absent cache entry

\* Redis errors on the delivery path and on the web-socket thread, lost calls,
\* dying processes, keys that expire, and lost connections.
AllFaults == {"redis", "wsredis", "rpc", "crash", "expiry", "net"}

ASSUME ConstantsAssumption ==
    /\ None \notin Inst \cup Device \cup Conn
    /\ NoEntry \notin [Device -> Inst \cup {None}]
    /\ WithSeq \subseteq Msg
    /\ FaultKinds \subseteq AllFaults
    /\ MaxFaults \in Nat

VARIABLES
    alive,    \* instances that run
    route,    \* the route hash in Redis
    l1,       \* per instance, its cached route
    fill,     \* per instance, a route read from Redis and not yet in L1
    conn,     \* the connections: state, device, instance
    owe,      \* per connection, messages received and not yet acknowledged
    ws,       \* per instance, the web-socket handler that runs
    ledger,   \* UnackedPush: per device and message
    queue,    \* the messages in the push queue
    cons,     \* onPushMessage, per message
    batch,    \* PushBatch, per message
    listed,   \* instances registered in etcd, hence in every ServiceManager
    faults,   \* number of faults so far
    got,      \* history: per device, messages received
    settled,  \* history: per device, messages acknowledged or lost by expiry
    quiet,    \* history: messages whose delivery saw one unchanging route
    promise,  \* history: per message, devices on the route of a quiet delivery
              \* that have not settled it since
    spread    \* history: messages promised to devices on several instances

routeVars == <<alive, route, l1, fill, listed>>
sockVars == <<conn, owe, got>>
ledgerVars == <<ledger, settled>>
workVars == <<queue, cons, batch>>
promiseVars == <<promise, spread, quiet>>
vars == <<routeVars, sockVars, ws, ledgerVars, workVars, faults, promiseVars>>

Route == [Device -> Inst \cup {None}]

Gone == [st |-> "gone", dev |-> None, at |-> None]

WsIdle == [op |-> "idle", dev |-> None, todo |-> {}, seqs |-> {}]
ConsIdle == [pc |-> "idle", at |-> None, todo |-> {}, dev |-> None,
             local |-> FALSE, peers |-> {}, to |-> None]
BatchIdle == [pc |-> "idle", at |-> None, todo |-> {}, dev |-> None]

ConnState == [st : {"unused", "open", "half", "gone"},
              dev : Device \cup {None}, at : Inst \cup {None}]
WsState == [op : {"idle", "bind", "unbind", "resolve", "peek", "bump"},
            dev : Device \cup {None}, todo : SUBSET Device, seqs : SUBSET Msg]
ConsState == [pc : {"idle", "resolve", "persist", "send", "group", "call", "wait"},
              at : Inst \cup {None}, todo : SUBSET Device, dev : Device \cup {None},
              local : BOOLEAN, peers : SUBSET Inst, to : Inst \cup {None}]
BatchState == [pc : {"idle", "resolve", "persist", "send"},
               at : Inst \cup {None}, todo : SUBSET Device, dev : Device \cup {None}]

RouteTypes ==
    /\ alive \subseteq Inst
    /\ route \in Route
    /\ l1 \in [Inst -> Route \cup {NoEntry}]
    /\ fill \in [Inst -> Route \cup {NoEntry}]
    /\ listed \subseteq Inst

SockTypes ==
    /\ conn \in [Conn -> ConnState]
    /\ owe \in [Conn -> SUBSET Msg]
    /\ ws \in [Inst -> WsState]

WorkTypes ==
    /\ ledger \in [Device -> [Msg -> {"none", "fresh", "due"}]]
    /\ queue \in [Msg -> {"ready", "taken", "done"}]
    /\ cons \in [Msg -> ConsState]
    /\ batch \in [Msg -> BatchState]
    /\ faults \in Nat

HistoryTypes ==
    /\ got \in [Device -> SUBSET Msg]
    /\ settled \in [Device -> SUBSET Msg]
    /\ quiet \subseteq Msg
    /\ promise \in [Msg -> SUBSET Device]
    /\ spread \subseteq Msg

\* The types of the variables.
TypeOK == RouteTypes /\ SockTypes /\ WorkTypes /\ HistoryTypes

Init ==
    /\ alive = Inst
    /\ route = [d \in Device |-> None]
    /\ l1 = [i \in Inst |-> NoEntry]
    /\ fill = [i \in Inst |-> NoEntry]
    /\ listed = Inst
    /\ conn = [c \in Conn |-> [st |-> "unused", dev |-> None, at |-> None]]
    /\ owe = [c \in Conn |-> {}]
    /\ ws = [i \in Inst |-> WsIdle]
    /\ ledger = [d \in Device |-> [m \in Msg |-> "none"]]
    /\ queue = [m \in Msg |-> "ready"]
    /\ cons = [m \in Msg |-> ConsIdle]
    /\ batch = [m \in Msg |-> BatchIdle]
    /\ faults = 0
    /\ got = [d \in Device |-> {}]
    /\ settled = [d \in Device |-> {}]
    /\ quiet = {}
    /\ promise = [m \in Msg |-> {}]
    /\ spread = {}

-----------------------------------------------------------------------------
(* Faults and history *)

\* One fault of the given kind happens in this step.
Fault(kind) ==
    /\ kind \in FaultKinds
    /\ faults < MaxFaults
    /\ faults' = faults + 1

NoFault == faults' = faults

Routed(r) == {d \in Device : r[d] # None}
OneHome(r) == \A d, e \in Routed(r) : r[d] = r[e]

\* The route hash becomes r; deliveries under way no longer see one route.
SetRoute(r) ==
    /\ route' = r
    /\ quiet' = IF r = route THEN quiet ELSE {}

-----------------------------------------------------------------------------
(* The route: OnlineRoute and resolve_route *)

\* A thread of instance i is in resolve_route.
Resolving(i) ==
    \/ ws[i].op = "resolve"
    \/ \E m \in Msg : cons[m].at = i /\ cons[m].pc \in {"resolve", "group"}
    \/ \E m \in Msg : batch[m].at = i /\ batch[m].pc = "resolve"

\* resolve_route, L1 miss: HGETALL under the in-flight lock of the key, so one
\* thread of an instance reads at a time ...
LoadRoute(i) ==
    /\ Resolving(i) /\ l1[i] = NoEntry /\ fill[i] = NoEntry
    /\ fill' = [fill EXCEPT ![i] = route]
    /\ UNCHANGED <<alive, route, l1, listed, sockVars, ws, ledgerVars, workVars,
                   faults, promiseVars>>

\* ... and the entry is set after it; the callers go on with what L1 then holds.
FillL1(i) ==
    /\ fill[i] # NoEntry
    /\ l1' = [l1 EXCEPT ![i] = fill[i]]
    /\ fill' = [fill EXCEPT ![i] = NoEntry]
    /\ UNCHANGED <<alive, route, listed, sockVars, ws, ledgerVars, workVars,
                   faults, promiseVars>>

\* A lookup finds that the L1 time to live (2 s by default) has run out.
ExpireL1(i) ==
    /\ Resolving(i) /\ l1[i] # NoEntry
    /\ l1' = [l1 EXCEPT ![i] = NoEntry]
    /\ UNCHANGED <<alive, route, fill, listed, sockVars, ws, ledgerVars, workVars,
                   faults, promiseVars>>

\* The route hash expires: no heartbeat came for kOnlineTtl.
ExpireRoute ==
    /\ Routed(route) # {}
    /\ SetRoute([d \in Device |-> None])
    /\ Fault("expiry")
    /\ UNCHANGED <<alive, l1, fill, listed, sockVars, ws, ledgerVars, workVars, promise, spread>>

\* kUnbindLua: HDEL only if the field still names this instance.
Unbound(d, i) == IF route[d] = i THEN [route EXCEPT ![d] = None] ELSE route

-----------------------------------------------------------------------------
(* Connections and the web-socket thread *)

Registered(d, i) == {c \in Conn : conn[c].dev = d /\ conn[c].at = i
                                  /\ conn[c].st \in {"open", "half"}}

Reaches(d, i) == \E c \in Registered(d, i) : conn[c].st = "open"

\* _local_send of the messages ms to device d: a frame written to a connection
\* whose peer has gone is lost.
LocalSend(d, i, ms) ==
    /\ got' = IF Reaches(d, i) THEN [got EXCEPT ![d] = @ \cup ms] ELSE got
    /\ owe' = [c \in Conn |-> IF c \in Registered(d, i) /\ conn[c].st = "open"
                              THEN owe[c] \cup ms ELSE owe[c]]
    /\ UNCHANGED conn

WsReady(i) == i \in alive /\ ws[i].op = "idle"
Ws(i, op, d) == ws' = [ws EXCEPT ![i] = [WsIdle EXCEPT !.op = op, !.dev = d]]
WsDone(i) == ws' = [ws EXCEPT ![i] = WsIdle]

\* CLIENT_AUTH on a new connection c.  Connection::insert closes older
\* connections of the device at this instance and forgets them; one the device
\* left behind at another instance stays registered there.
ClientAuth(c, d, i) ==
    /\ WsReady(i) /\ conn[c].st = "unused"
    /\ conn' = [b \in Conn |->
          IF b = c THEN [st |-> "open", dev |-> d, at |-> i]
          ELSE IF b \in Registered(d, i) THEN Gone
          ELSE IF conn[b].dev = d /\ conn[b].st = "open" THEN [conn[b] EXCEPT !.st = "half"]
          ELSE conn[b]]
    /\ owe' = [b \in Conn |-> IF conn[b].dev = d THEN {} ELSE owe[b]]
    /\ Ws(i, "bind", d)
    /\ UNCHANGED <<routeVars, got, ledgerVars, workVars, faults, promiseVars>>

\* OnlineRoute::bind, whose exceptions are swallowed; with a last_user_seq the
\* handler goes on as for a heartbeat.
Bind(i) ==
    /\ ws[i].op = "bind"
    /\ \/ SetRoute([route EXCEPT ![ws[i].dev] = i]) /\ NoFault
       \/ UNCHANGED <<route, quiet>> /\ Fault("wsredis")
    /\ WsDone(i) \/ Ws(i, "resolve", ws[i].dev)
    /\ UNCHANGED <<alive, l1, fill, listed, sockVars, ledgerVars, workVars, promise, spread>>

\* The network loses an open connection; neither end has noticed.
LoseConn(c) ==
    /\ conn[c].st = "open"
    /\ conn' = [conn EXCEPT ![c].st = "half"]
    /\ owe' = [owe EXCEPT ![c] = {}]
    /\ Fault("net")
    /\ UNCHANGED <<routeVars, got, ws, ledgerVars, workVars, promiseVars>>

\* The close handler of a registered connection: Connection::remove ...
Close(c) ==
    /\ conn[c].st \in {"open", "half"} /\ WsReady(conn[c].at)
    /\ conn' = [conn EXCEPT ![c] = Gone]
    /\ owe' = [owe EXCEPT ![c] = {}]
    /\ Ws(conn[c].at, "unbind", conn[c].dev)
    /\ UNCHANGED <<routeVars, got, ledgerVars, workVars, faults, promiseVars>>

\* ... then OnlineRoute::unbind, whose exceptions are swallowed, and the
\* invalidation of the instance's L1 entry.
Unbind(i) ==
    /\ ws[i].op = "unbind"
    /\ \/ SetRoute(Unbound(ws[i].dev, i)) /\ NoFault
       \/ UNCHANGED <<route, quiet>> /\ Fault("wsredis")
    /\ l1' = [l1 EXCEPT ![i] = NoEntry]
    /\ WsDone(i)
    /\ UNCHANGED <<alive, fill, listed, sockVars, ledgerVars, workVars, promise, spread>>

\* The entries ms leave the ledger of device d for good.
Settle(d, ms) ==
    /\ ledger' = [ledger EXCEPT ![d] = [m \in Msg |-> IF m \in ms THEN "none" ELSE @[m]]]
    /\ settled' = [settled EXCEPT ![d] = @ \cup ms]
    /\ promise' = [m \in Msg |-> IF m \in ms THEN promise[m] \ {d} ELSE promise[m]]

\* MSG_PUSH_ACK from the device of c; kAckLua, whose exceptions are swallowed.
ClientAck(c, m) ==
    /\ m \in owe[c] /\ WsReady(conn[c].at)
    /\ owe' = [owe EXCEPT ![c] = @ \ {m}]
    /\ \/ Settle(conn[c].dev, {m}) /\ NoFault
       \/ UNCHANGED <<ledgerVars, promise>> /\ Fault("wsredis")
    /\ UNCHANGED <<routeVars, conn, got, ws, workVars, quiet, spread>>

\* CLIENT_HEARTBEAT, or the end of an authentication: _on_heartbeat_resend for
\* the whole route of the user.
Heartbeat(c) ==
    /\ conn[c].st = "open" /\ WsReady(conn[c].at)
    /\ Ws(conn[c].at, "resolve", conn[c].dev)
    /\ UNCHANGED <<routeVars, sockVars, ledgerVars, workVars, faults, promiseVars>>

\* The handler at i goes on with the devices left in todo.
WsNext(i, todo) ==
    ws' = [ws EXCEPT ![i] = IF todo = {} THEN WsIdle
                            ELSE [WsIdle EXCEPT !.op = "peek", !.todo = todo]]

ResendResolve(i) ==
    /\ ws[i].op = "resolve" /\ l1[i] # NoEntry
    /\ WsNext(i, Routed(l1[i]))
    /\ UNCHANGED <<routeVars, sockVars, ledgerVars, workVars, faults, promiseVars>>

\* Mutant: the cutoff is compared the wrong way round.
PeekDueYoung(d) == {m \in Msg : ledger[d][m] = "fresh"}

\* kPeekDueLua
PeekDue(d) == {m \in Msg : ledger[d][m] = "due"}

\* The due messages of one device of the route, wherever it is connected, are
\* sent on the connections this instance has; a failed peek returns none.
ResendPeek(i, d) ==
    /\ ws[i].op = "peek" /\ d \in ws[i].todo
    /\ \/ /\ PeekDue(d) # {}
          /\ LocalSend(d, i, PeekDue(d))
          /\ ws' = [ws EXCEPT ![i] = [@ EXCEPT !.op = "bump", !.dev = d, !.seqs = PeekDue(d)]]
          /\ NoFault
       \/ /\ PeekDue(d) = {}
          /\ WsNext(i, ws[i].todo \ {d})
          /\ UNCHANGED sockVars /\ NoFault
       \/ /\ PeekDue(d) # {}
          /\ WsNext(i, ws[i].todo \ {d})
          /\ UNCHANGED sockVars /\ Fault("wsredis")
    /\ UNCHANGED <<routeVars, ledgerVars, workVars, promiseVars>>

\* Mutant: ZADD without XX.
BumpScoreAdds(d, ms) ==
    [ledger EXCEPT ![d] = [m \in Msg |-> IF m \in ms THEN "fresh" ELSE ledger[d][m]]]

\* Mutant: an entry sent again is taken out, as if it had been received.
BumpScoreDrops(d, ms) ==
    [ledger EXCEPT ![d] = [m \in Msg |-> IF m \in ms THEN "none" ELSE ledger[d][m]]]

\* kBumpScoreLua: ZADD XX, so an entry acknowledged meanwhile stays away.
BumpScore(d, ms) ==
    [ledger EXCEPT ![d] = [m \in Msg |->
        IF m \in ms /\ ledger[d][m] # "none" THEN "fresh" ELSE ledger[d][m]]]

\* bump_score, whose exceptions are swallowed.
ResendBump(i) ==
    /\ ws[i].op = "bump"
    /\ \/ ledger' = BumpScore(ws[i].dev, ws[i].seqs) /\ NoFault
       \/ UNCHANGED ledger /\ Fault("wsredis")
    /\ WsNext(i, ws[i].todo \ {ws[i].dev})
    /\ UNCHANGED <<routeVars, sockVars, settled, workVars, promiseVars>>

\* resend_max_age_sec passes for an entry.
Age(d, m) ==
    /\ ledger[d][m] = "fresh"
    /\ ledger' = [ledger EXCEPT ![d][m] = "due"]
    /\ UNCHANGED <<routeVars, sockVars, ws, settled, workVars, faults, promiseVars>>

\* kUnackedTtl passes for the ledger of a device.
ExpireLedger(d) ==
    /\ \E m \in Msg : ledger[d][m] # "none"
    /\ Settle(d, {m \in Msg : ledger[d][m] # "none"})
    /\ Fault("expiry")
    /\ UNCHANGED <<routeVars, sockVars, ws, workVars, quiet, spread>>

-----------------------------------------------------------------------------
(* onPushMessage *)

\* Every cached or half-read route equals the hash.
RouteKnown == \A i \in Inst : l1[i] \in {NoEntry, route} /\ fill[i] \in {NoEntry, route}

\* An instance takes m from the push queue.
Deliver(m, i) ==
    /\ queue[m] = "ready" /\ i \in alive
    /\ queue' = [queue EXCEPT ![m] = "taken"]
    /\ cons' = [cons EXCEPT ![m] = [ConsIdle EXCEPT !.pc = "resolve", !.at = i]]
    /\ quiet' = IF RouteKnown THEN quiet \cup {m} ELSE quiet \ {m}
    /\ UNCHANGED <<routeVars, sockVars, ws, ledgerVars, batch, faults, promise, spread>>

\* Mutant: NackDiscard where NackRequeue is meant.
RequeueDiscards(m) ==
    /\ queue' = [queue EXCEPT ![m] = "discarded"]
    /\ cons' = [cons EXCEPT ![m] = ConsIdle]

\* Mutant: the delivery is neither acknowledged nor rejected.
RequeueForgotten(m) ==
    /\ UNCHANGED queue
    /\ cons' = [cons EXCEPT ![m] = ConsIdle]

\* NackRequeue: the broker offers m again.
Requeue(m) ==
    /\ queue' = [queue EXCEPT ![m] = "ready"]
    /\ cons' = [cons EXCEPT ![m] = ConsIdle]

\* ConsumeAction::Ack
Ack(m) ==
    /\ queue' = [queue EXCEPT ![m] = "done"]
    /\ cons' = [cons EXCEPT ![m] = ConsIdle]
    /\ promise' = [promise EXCEPT ![m] =
          IF m \in quiet \cap WithSeq THEN {d \in Routed(route) : m \notin settled[d]} ELSE {}]
    /\ spread' = IF OneHome(route) \/ promise'[m] = {} THEN spread ELSE spread \cup {m}
    /\ quiet' = quiet \ {m}

\* The loop over the devices of the route, with those in todo left: the user
\* goes to the remote part only if no local send succeeded.
LocalLoop(m, todo, local) ==
    IF todo # {} \/ ~local
    THEN /\ cons' = [cons EXCEPT ![m] = [@ EXCEPT !.pc = IF todo = {} THEN "group" ELSE "persist",
                                               !.todo = todo, !.dev = None, !.local = local]]
         /\ UNCHANGED <<queue, promiseVars>>
    ELSE Ack(m)

ConsumeResolve(m) ==
    LET i == cons[m].at IN
    /\ cons[m].pc = "resolve" /\ l1[i] # NoEntry
    /\ LocalLoop(m, {d \in Device : l1[i][d] = i}, FALSE)
    /\ UNCHANGED <<routeVars, sockVars, ws, ledgerVars, batch, faults>>

\* kPushLua: ZADD and HSET, a repetition replaces the entry.
Push(d, m) == [ledger EXCEPT ![d][m] = "fresh"]

\* Mutant: a failed persist_unacked_ is logged and the send goes on.
ConsumePersistFailsOpen(m, d) ==
    /\ cons[m].pc = "persist" /\ d \in cons[m].todo
    /\ \/ ledger' = (IF m \in WithSeq THEN Push(d, m) ELSE ledger) /\ NoFault
       \/ m \in WithSeq /\ UNCHANGED ledger /\ Fault("redis")
    /\ cons' = [cons EXCEPT ![m] = [@ EXCEPT !.pc = "send", !.dev = d]]
    /\ UNCHANGED <<routeVars, sockVars, ws, settled, queue, batch, promiseVars>>

\* persist_unacked_ for a device of this instance; a message without user_seq
\* has no ledger entry.  On an error, which may come after the write was made,
\* the message is requeued.
ConsumePersist(m, d) ==
    /\ cons[m].pc = "persist" /\ d \in cons[m].todo
    /\ \/ /\ ledger' = IF m \in WithSeq THEN Push(d, m) ELSE ledger
          /\ cons' = [cons EXCEPT ![m] = [@ EXCEPT !.pc = "send", !.dev = d]]
          /\ UNCHANGED queue /\ NoFault
       \/ /\ m \in WithSeq /\ ledger' \in {ledger, Push(d, m)}
          /\ Requeue(m) /\ Fault("redis")
    /\ UNCHANGED <<routeVars, sockVars, ws, settled, batch, promiseVars>>

\* _local_send; without a user_seq the user counts as served in any case.
ConsumeSend(m) ==
    LET i == cons[m].at
        d == cons[m].dev
        sent == m \notin WithSeq \/ Registered(d, i) # {}
    IN
    /\ cons[m].pc = "send"
    /\ LocalSend(d, i, {m})
    /\ LocalLoop(m, cons[m].todo \ {d}, cons[m].local \/ sent)
    /\ UNCHANGED <<routeVars, ws, ledgerVars, batch, faults>>

\* The calls to the instances in peers, one after the other, then the Ack.
RemoteLoop(m, peers) ==
    IF peers # {}
    THEN /\ cons' = [cons EXCEPT ![m] = [@ EXCEPT !.pc = "call", !.peers = peers]]
         /\ UNCHANGED <<queue, promiseVars>>
    ELSE Ack(m)

\* The second resolve_route groups the user's devices by instance.
ConsumeGroup(m) ==
    LET i == cons[m].at IN
    /\ cons[m].pc = "group" /\ l1[i] # NoEntry
    /\ RemoteLoop(m, {l1[i][d] : d \in Device} \ {None, i})
    /\ UNCHANGED <<routeVars, sockVars, ws, ledgerVars, batch, faults>>

\* ServiceManager::choose: onServiceOnline enters the channels of the whole
\* service under every instance path, so any registered instance is picked.
Choose(peer) == listed

\* PushBatch is called for some peer; the call fails if no channel is known or
\* the process behind it is gone.
ConsumeCall(m) ==
    /\ cons[m].pc = "call" /\ batch[m].pc = "idle"
    /\ \E peer \in cons[m].peers :
         \/ \E q \in Choose(peer) \cap alive :
              /\ batch' = [batch EXCEPT ![m] = [BatchIdle EXCEPT !.pc = "resolve", !.at = q]]
              /\ cons' = [cons EXCEPT ![m] = [@ EXCEPT !.pc = "wait", !.to = peer]]
              /\ UNCHANGED queue
         \/ /\ Choose(peer) = {} \/ Choose(peer) \ alive # {}
            /\ Requeue(m) /\ UNCHANGED batch
    /\ UNCHANGED <<routeVars, sockVars, ws, ledgerVars, faults, promiseVars>>

\* The route cannot be read from Redis: requeue.
ConsumeRouteError(m) ==
    /\ cons[m].pc \in {"resolve", "group"} /\ l1[cons[m].at] = NoEntry
    /\ Requeue(m) /\ Fault("redis")
    /\ UNCHANGED <<routeVars, sockVars, ws, ledgerVars, batch, promiseVars>>

\* The call times out: requeue, while the handler may still run.
ConsumeTimeout(m) ==
    /\ cons[m].pc = "wait"
    /\ Requeue(m) /\ Fault("rpc")
    /\ UNCHANGED <<routeVars, sockVars, ws, ledgerVars, batch, promiseVars>>

-----------------------------------------------------------------------------
(* PushBatch *)

\* The handler goes on with the devices in todo, or answers a caller that waits.
BatchLoop(m, todo) ==
    IF todo # {}
    THEN /\ batch' = [batch EXCEPT ![m] = [@ EXCEPT !.pc = "persist", !.todo = todo, !.dev = None]]
         /\ UNCHANGED <<queue, cons, promiseVars>>
    ELSE /\ batch' = [batch EXCEPT ![m] = BatchIdle]
         /\ IF cons[m].pc = "wait"
            THEN IF cons[m].peers = {cons[m].to}
                 THEN Ack(m)
                 ELSE /\ cons' = [cons EXCEPT ![m] = [@ EXCEPT !.pc = "call", !.to = None,
                                                            !.peers = cons[m].peers \ {cons[m].to}]]
                      /\ UNCHANGED <<queue, promiseVars>>
            ELSE UNCHANGED <<queue, cons, promiseVars>>

BatchResolve(m) ==
    LET q == batch[m].at IN
    /\ batch[m].pc = "resolve" /\ l1[q] # NoEntry
    /\ BatchLoop(m, Routed(l1[q]))
    /\ UNCHANGED <<routeVars, sockVars, ws, ledgerVars, faults>>

\* Every device of the route gets a ledger entry, local or not.
BatchPersist(m, d) ==
    /\ batch[m].pc = "persist" /\ d \in batch[m].todo
    /\ ledger' = IF m \in WithSeq THEN Push(d, m) ELSE ledger
    /\ batch' = [batch EXCEPT ![m] = [@ EXCEPT !.pc = "send", !.dev = d]]
    /\ UNCHANGED <<routeVars, sockVars, ws, settled, queue, cons, faults, promiseVars>>

BatchSend(m) ==
    /\ batch[m].pc = "send"
    /\ LocalSend(batch[m].dev, batch[m].at, {m})
    /\ BatchLoop(m, batch[m].todo \ {batch[m].dev})
    /\ UNCHANGED <<routeVars, ws, ledgerVars, faults>>

\* Mutant: the handler answers success after a Redis error.
BatchErrorSwallowed(m) ==
    /\ batch[m].pc = "persist" /\ m \in WithSeq
    /\ BatchLoop(m, {})
    /\ Fault("redis")
    /\ UNCHANGED <<routeVars, sockVars, ws, ledgerVars>>

\* A Redis error in the handler: SetFailed, and a caller that waits requeues.
BatchError(m) ==
    /\ \/ batch[m].pc = "resolve" /\ l1[batch[m].at] = NoEntry /\ UNCHANGED ledger
       \/ /\ batch[m].pc = "persist" /\ m \in WithSeq
          /\ \E d \in batch[m].todo : ledger' \in {ledger, Push(d, m)}
    /\ batch' = [batch EXCEPT ![m] = BatchIdle]
    /\ IF cons[m].pc = "wait" THEN Requeue(m) ELSE UNCHANGED <<queue, cons>>
    /\ Fault("redis")
    /\ UNCHANGED <<routeVars, sockVars, ws, settled, promiseVars>>

-----------------------------------------------------------------------------
(* Instances *)

\* What instance i had in memory is gone; the broker takes back the messages it
\* had not acknowledged, and callers of its handlers see the call fail.
Down(i) ==
    /\ alive' = alive \ {i}
    /\ l1' = [l1 EXCEPT ![i] = NoEntry]
    /\ fill' = [fill EXCEPT ![i] = NoEntry]
    /\ conn' = [c \in Conn |-> IF conn[c].at = i THEN Gone ELSE conn[c]]
    /\ owe' = [c \in Conn |-> IF conn[c].at = i THEN {} ELSE owe[c]]
    /\ ws' = [ws EXCEPT ![i] = WsIdle]
    /\ LET served(m) == batch[m].pc # "idle" /\ batch[m].at = i
           back(m) == cons[m].at = i \/ (served(m) /\ cons[m].pc = "wait")
       IN /\ queue' = [m \in Msg |-> IF back(m) THEN "ready" ELSE queue[m]]
          /\ cons' = [m \in Msg |-> IF back(m) THEN ConsIdle ELSE cons[m]]
          /\ batch' = [m \in Msg |-> IF served(m) THEN BatchIdle ELSE batch[m]]
    /\ UNCHANGED <<got, ledgerVars, promise, spread>>

\* The process dies.
Crash(i) ==
    /\ i \in alive
    /\ Down(i) /\ Fault("crash")
    /\ UNCHANGED <<route, listed, quiet>>

\* An orderly stop: shutdown_cleanup unbinds the routes that name the instance,
\* and the registration is revoked.
Shutdown(i) ==
    /\ i \in alive
    /\ Down(i) /\ Fault("crash")
    /\ listed' = listed \ {i}
    /\ SetRoute([d \in Device |-> IF route[d] = i THEN None ELSE route[d]])

\* A Redis error in the resolve_route of a heartbeat leaves the web-socket
\* thread, whose end stops the server; the clean-up then fails on Redis too.
ResendRouteError(i) ==
    /\ ws[i].op = "resolve" /\ l1[i] = NoEntry
    /\ Down(i) /\ Fault("wsredis")
    /\ UNCHANGED <<route, listed, quiet>>

\* The lease of a dead instance ends; its channel is removed everywhere.
ExpireLease(i) ==
    /\ i \in listed \ alive
    /\ listed' = listed \ {i}
    /\ UNCHANGED <<alive, route, l1, fill, sockVars, ws, ledgerVars, workVars,
                   faults, promiseVars>>

\* The process is started again under the same instance id.
Restart(i) ==
    /\ i \notin alive
    /\ alive' = alive \cup {i}
    /\ listed' = listed \cup {i}
    /\ UNCHANGED <<route, l1, fill, sockVars, ws, ledgerVars, workVars,
                   faults, promiseVars>>

-----------------------------------------------------------------------------
RouteStep == (\E i \in Inst : LoadRoute(i) \/ FillL1(i) \/ ExpireL1(i)) \/ ExpireRoute

SocketStep ==
    \/ \E c \in Conn, d \in Device, i \in Inst : ClientAuth(c, d, i)
    \/ \E i \in Inst : Bind(i) \/ Unbind(i)
    \/ \E c \in Conn : LoseConn(c) \/ Close(c) \/ Heartbeat(c)
    \/ \E c \in Conn, m \in Msg : ClientAck(c, m)

ResendStep ==
    \/ \E i \in Inst : ResendResolve(i) \/ ResendBump(i)
    \/ \E i \in Inst, d \in Device : ResendPeek(i, d)
    \/ \E d \in Device, m \in Msg : Age(d, m)
    \/ \E d \in Device : ExpireLedger(d)

ConsumeStep(m) ==
    \/ \E i \in Inst : Deliver(m, i)
    \/ ConsumeResolve(m) \/ ConsumeSend(m) \/ ConsumeGroup(m) \/ ConsumeCall(m)
    \/ \E d \in Device : ConsumePersist(m, d)

ConsumeFault(m) == ConsumeRouteError(m) \/ ConsumeTimeout(m)

BatchStep(m) ==
    \/ BatchResolve(m) \/ BatchSend(m)
    \/ \E d \in Device : BatchPersist(m, d)

InstanceStep ==
    \E i \in Inst :
        Crash(i) \/ Shutdown(i) \/ ResendRouteError(i) \/ ExpireLease(i) \/ Restart(i)

Next ==
    \/ RouteStep \/ SocketStep \/ ResendStep \/ InstanceStep
    \/ \E m \in Msg : ConsumeStep(m) \/ ConsumeFault(m) \/ BatchStep(m) \/ BatchError(m)

Spec == Init /\ [][Next]_vars

(* Threads that can run do, Redis answers, ages, L1 entries and leases run     *)
(* out, and a client whose connection is open sends its heartbeats and         *)
(* acknowledgements.  What waits for the one web-socket thread of an instance, *)
(* or for an L1 entry that may expire again before it is read, is strongly     *)
(* fair: the thread serves its sockets in turn, resolve_route returns the      *)
(* route it loaded, and lookups after the time to live find it run out.  Dead  *)
(* instances need not come back.                                               *)
Fairness ==
    /\ \A i \in Inst : /\ WF_vars(LoadRoute(i)) /\ WF_vars(FillL1(i)) /\ SF_vars(ExpireL1(i))
                       /\ WF_vars(Bind(i)) /\ WF_vars(Unbind(i))
                       /\ WF_vars(ResendBump(i))
                       /\ SF_vars(ResendResolve(i))
                       /\ WF_vars(\E d \in Device : ResendPeek(i, d))
                       /\ WF_vars(ExpireLease(i))
    /\ \A m \in Msg : SF_vars(ConsumeStep(m)) /\ SF_vars(BatchStep(m))
    /\ \A d \in Device, m \in Msg : WF_vars(Age(d, m))
    /\ \A c \in Conn : SF_vars(Heartbeat(c))
    /\ \A c \in Conn, m \in Msg : SF_vars(ClientAck(c, m))

FairSpec == Spec /\ Fairness

-----------------------------------------------------------------------------
(* Properties *)

Held(d, m) == ledger[d][m] # "none" \/ m \in settled[d]

\* Once the queue acknowledged a message whose delivery saw one route, and all
\* devices of the user were on one instance, every device of that route has the
\* message in its ledger until it acknowledges it: no interleaving of retries,
\* acknowledgements, resends and crashes loses it.
AcknowledgedIsHeld ==
    \A m \in Msg \ spread : \A d \in promise[m] : Held(d, m)

\* The same without the condition that the devices share an instance: the
\* at-least-once semantics onPushMessage states for its Ack.
AtLeastOnce == \A m \in Msg : \A d \in promise[m] : Held(d, m)

\* A client never holds a payload that no ledger remembers: persist_unacked_
\* comes before every send, on each of the paths.
PersistedBeforeSent == \A d \in Device : \A m \in got[d] \cap WithSeq : Held(d, m)

AckStays ==
    \A d \in Device, m \in Msg :
        queue[m] = "done" /\ batch[m].pc = "idle" /\ ledger[d][m] = "none"
        => ledger'[d][m] = "none"

\* After the deliveries of a message are over, an acknowledged message never
\* comes back to the ledger: bump_score of a heartbeat that read it before the
\* acknowledgement does not enter it again.
AckIsFinal == [][AckStays]_vars

\* The device has an open connection at the instance its route names, and all
\* connected devices of the user are there.
Served(d) == route[d] # None /\ Reaches(d, route[d]) /\ OneHome(route)

\* A message in the ledger of a device that stays connected is received in the
\* end: the heartbeat resend finds it however often sends went nowhere.
ResentUntilReceived ==
    \A d \in Device, m \in Msg :
        (ledger[d][m] # "none" /\ Served(d))
        ~> (m \in got[d] \cup settled[d] \/ ~Served(d))

\* Every message taken from the queue is acknowledged in the end: requeueing
\* after faults and calls to dead instances does not go on for ever.
EventuallyConsumed == \A m \in Msg : <>(queue[m] = "done")
=============================================================================
