------------------------------ MODULE WorkerIds ------------------------------
(***************************************************************************)
(* Message ids: the Snowflake generator of a Transmite instance, the lease *)
(* of its worker id in Redis (WorkerIdAllocator) or in etcd                *)
(* (EtcdWorkIdAllocator on LeaderElection), and the watchdog that aborts   *)
(* an instance whose lease is lost.                                        *)
(*                                                                         *)
(* An instance is one run of a process; a restarted process is another     *)
(* one.  Leases are keys with a time to live: a key vanishes only when its *)
(* owner does not refresh it, because it died, cannot reach the store or   *)
(* gave the key up.  Every call of the store is a step.  NextId is one     *)
(* step, as SnowflakeId::Next holds a mutex.                               *)
(***************************************************************************)
EXTENDS Naturals

CONSTANTS
    Inst,       \* runs of Transmite processes
    NSlots,     \* kMaxWorkerId + 1
    MaxSeq,     \* kMaxSequence
    MaxFails,   \* kMaxTtlFailures
    Fallback,   \* the worker_id of the configuration
    Stores,     \* "redis" (one Redis), "etcd" (Redis Cluster): what holds the leases
    MaxTime,    \* bound: highest reading of a clock
    FaultKinds, \* the faults this instance explores
    MaxFaults,  \* bound: how many faults a behaviour contains
    None        \* no owner, no slot

Slot == 0..(NSlots - 1)
Time == 1..MaxTime

ASSUME WorkerIdsAssumption ==
    /\ NSlots \in Nat \ {0}
    /\ MaxSeq \in Nat
    /\ MaxFails \in Nat \ {0}
    /\ Fallback \in Slot
    /\ Stores \subseteq {"redis", "etcd"}
    /\ MaxTime \in Nat
    /\ FaultKinds \subseteq {"cut", "call", "crash", "back"}
    /\ MaxFaults \in Nat
    /\ None \notin Inst /\ None \notin Slot

VARIABLES
    store,    \* what holds the leases in this deployment
    turn,     \* Redis: im:worker:transmite:seq, modulo NSlots
    owner,    \* the lease key of a slot: its owner, None if it does not exist
    pc,       \* "new", "scan" (acquire), "up", "down"
    next,     \* acquire: the candidate slot
    tries,    \* acquire: slots tried so far
    id,       \* worker_id_ of the generator
    leased,   \* instances whose worker id came from a lease
    lost,     \* instances for which lease_lost() holds
    fails,    \* LeaderElection: consecutive_failures
    cut,      \* instances that cannot reach the store
    clock,    \* NowMs() of an instance's host
    lastTs,   \* last_ts_
    sequence, \* sequence_
    issued,   \* ghost: <<timestamp, worker, sequence>> of the ids an instance drew
    faults,   \* number of faults so far
    doubt     \* ghost: instances whose lease or clock cannot be relied on

leaseVars == <<store, turn, owner>>
procVars == <<pc, next, tries, id, leased>>
heldVars == <<lost, fails, cut>>
genVars == <<clock, lastTs, sequence, issued>>
vars == <<leaseVars, procVars, heldVars, genVars, faults, doubt>>

Id == Nat \X Slot \X (0..MaxSeq)

LeaseTypes ==
    /\ store \in Stores
    /\ turn \in Slot
    /\ owner \in [Slot -> Inst \cup {None}]
    /\ leased \subseteq Inst /\ lost \subseteq Inst /\ cut \subseteq Inst
    /\ fails \in [Inst -> 0..MaxFails]
    /\ faults \in Nat
    /\ doubt \subseteq Inst

ProcTypes ==
    /\ pc \in [Inst -> {"new", "scan", "up", "down"}]
    /\ next \in [Inst -> Slot]
    /\ tries \in [Inst -> 0..NSlots]
    /\ id \in [Inst -> Slot \cup {None}]
    /\ clock \in [Inst -> Nat]
    /\ lastTs \in [Inst -> Nat]
    /\ sequence \in [Inst -> 0..MaxSeq]
    /\ issued \in [Inst -> SUBSET Id]

\* The types of the variables.
TypeOK == LeaseTypes /\ ProcTypes

Init ==
    /\ store \in Stores
    /\ turn = 0
    /\ owner = [s \in Slot |-> None]
    /\ pc = [i \in Inst |-> "new"]
    /\ next = [i \in Inst |-> 0]
    /\ tries = [i \in Inst |-> 0]
    /\ id = [i \in Inst |-> None]
    /\ leased = {} /\ lost = {} /\ cut = {}
    /\ fails = [i \in Inst |-> 0]
    /\ clock = [i \in Inst |-> 0]
    /\ lastTs = [i \in Inst |-> 0]
    /\ sequence = [i \in Inst |-> 0]
    /\ issued = [i \in Inst |-> {}]
    /\ faults = 0
    /\ doubt = {}

Fault(kind) ==
    /\ kind \in FaultKinds
    /\ faults < MaxFaults
    /\ faults' = faults + 1

\* Another instance has drawn an id under worker id s that i, whose clock shows
\* t, could draw again.
Behind(i, s, t) == \E j \in Inst \ {i} : \E x \in issued[j] : x[2] = s /\ t <= x[1]

-----------------------------------------------------------------------------
(* acquire() *)

\* Mutant of Start: the counter is not reduced to the range of slots.
StartUnreduced(i, t) ==
    /\ pc[i] = "new"
    /\ pc' = [pc EXCEPT ![i] = "scan"]
    /\ clock' = [clock EXCEPT ![i] = t]
    /\ next' = [next EXCEPT ![i] = turn]
    /\ turn' = turn + 1
    /\ UNCHANGED <<store, owner, tries, id, leased, heldVars, lastTs, sequence, issued, faults, doubt>>

\* A process starts.  With Redis, incr gives the slot to begin with; with etcd
\* it is slot 0.
Start(i, t) ==
    /\ pc[i] = "new"
    /\ pc' = [pc EXCEPT ![i] = "scan"]
    /\ clock' = [clock EXCEPT ![i] = t]
    /\ IF store = "redis"
       THEN /\ next' = [next EXCEPT ![i] = turn]
            /\ turn' = (turn + 1) % NSlots
       ELSE UNCHANGED <<next, turn>>
    /\ UNCHANGED <<store, owner, tries, id, leased, heldVars, lastTs, sequence, issued, faults, doubt>>

\* The configured worker id is used, without a lease.
UseFallback(i) ==
    /\ pc' = [pc EXCEPT ![i] = "up"]
    /\ id' = [id EXCEPT ![i] = Fallback]
    /\ doubt' = doubt \cup {i}
    /\ UNCHANGED <<store, turn, next, tries, leased, heldVars, genVars>>

\* Mutant of Win: set without NX.
WinUnchecked(i) ==
    LET s == next[i]
    IN  /\ pc[i] = "scan" /\ tries[i] < NSlots
        /\ owner' = [owner EXCEPT ![s] = i]
        /\ pc' = [pc EXCEPT ![i] = "up"]
        /\ id' = [id EXCEPT ![i] = s]
        /\ leased' = leased \cup {i}
        /\ doubt' = IF Behind(i, s, clock[i]) THEN doubt \cup {i} ELSE doubt
        /\ UNCHANGED <<store, turn, next, tries, heldVars, genVars, faults>>

\* set NX, or the transaction that compares the version with 0: the key of the
\* candidate did not exist.
Win(i) ==
    LET s == next[i]
    IN  /\ pc[i] = "scan" /\ tries[i] < NSlots
        /\ owner[s] = None
        /\ owner' = [owner EXCEPT ![s] = i]
        /\ pc' = [pc EXCEPT ![i] = "up"]
        /\ id' = [id EXCEPT ![i] = s]
        /\ leased' = leased \cup {i}
        /\ doubt' = IF Behind(i, s, clock[i]) THEN doubt \cup {i} ELSE doubt
        /\ UNCHANGED <<store, turn, next, tries, heldVars, genVars, faults>>

\* The key existed, or, with etcd, the five seconds of the slot are over: the
\* next slot is tried.  The election of this slot may still win after that; it
\* then keeps the key until its lease runs out.
Skip(i) ==
    LET s == next[i]
    IN  /\ pc[i] = "scan" /\ tries[i] < NSlots
        /\ \/ owner[s] # None /\ UNCHANGED owner
           \/ store = "etcd" /\ owner[s] = None /\ owner' = [owner EXCEPT ![s] = i]
        /\ next' = [next EXCEPT ![i] = (s + 1) % NSlots]
        /\ tries' = [tries EXCEPT ![i] = @ + 1]
        /\ UNCHANGED <<store, turn, pc, id, leased, heldVars, genVars, faults, doubt>>

\* All slots are taken, or Redis throws, the call done or not: the configured
\* id is used.  Exceptions of etcd are caught within the election of a slot.
GiveUp(i) ==
    LET s == next[i]
    IN  /\ pc[i] = "scan"
        /\ \/ tries[i] = NSlots /\ UNCHANGED <<owner, faults>>
           \/ store = "redis" /\ Fault("call") /\ UNCHANGED owner
           \/ store = "redis" /\ Fault("call") /\ owner[s] = None /\ owner' = [owner EXCEPT ![s] = i]
        /\ UseFallback(i)

-----------------------------------------------------------------------------
(* Holding the lease *)

\* WorkerIdAllocator, every 60 s: the key is refreshed if it is still owned.
\* An exception leaves everything as it is.
Renew(i) ==
    /\ store = "redis" /\ pc[i] = "up" /\ i \in leased \ (lost \cup cut)
    /\ owner[id[i]] # i
    /\ lost' = lost \cup {i}
    /\ UNCHANGED <<leaseVars, procVars, fails, cut, genVars, faults, doubt>>

\* _hold_leadership_, every second: MaxFails checks in a row that fail or find
\* the lease gone end the leadership.
CheckTtl(i) ==
    /\ store = "etcd" /\ pc[i] = "up" /\ i \in leased \ lost
    /\ IF i \in cut \/ owner[id[i]] # i
       THEN /\ fails' = [fails EXCEPT ![i] = @ + 1]
            /\ lost' = IF fails[i] + 1 = MaxFails THEN lost \cup {i} ELSE lost
       ELSE fails[i] # 0 /\ fails' = [fails EXCEPT ![i] = 0] /\ UNCHANGED lost
    /\ UNCHANGED <<leaseVars, procVars, cut, genVars, faults, doubt>>

\* campaign_loop_: after a third of the lease time the instance competes for
\* its key again.
Campaign(i) ==
    /\ store = "etcd" /\ pc[i] = "up" /\ i \in lost \ cut
    /\ owner[id[i]] = None
    /\ owner' = [owner EXCEPT ![id[i]] = i]
    /\ lost' = lost \ {i}
    /\ fails' = [fails EXCEPT ![i] = 0]
    /\ UNCHANGED <<store, turn, procVars, cut, genVars, faults, doubt>>

\* The process ends: its locals are gone.
Down(i) ==
    /\ pc' = [pc EXCEPT ![i] = "down"]
    /\ lost' = lost \ {i} /\ cut' = cut \ {i}
    /\ fails' = [fails EXCEPT ![i] = 0]
    /\ clock' = [clock EXCEPT ![i] = 0]
    /\ lastTs' = [lastTs EXCEPT ![i] = 0]
    /\ sequence' = [sequence EXCEPT ![i] = 0]
    /\ next' = [next EXCEPT ![i] = 0]
    /\ tries' = [tries EXCEPT ![i] = 0]
    /\ UNCHANGED <<store, turn, id, leased, issued, doubt>>

\* Mutant of Watchdog: nobody looks at lease_lost().
WatchdogAsleep(i) ==
    /\ pc[i] = "up" /\ i \in lost
    /\ UNCHANGED vars

\* TransmiteServer::start, every second: a lost lease aborts the process.
Watchdog(i) ==
    /\ pc[i] = "up" /\ i \in lost
    /\ Down(i)
    /\ UNCHANGED <<owner, faults>>

\* stop(): the slot is freed if it is still owned and the store can be reached.
\* With etcd the lease is left to run out.
Stop(i) ==
    /\ pc[i] = "up"
    /\ Down(i)
    /\ owner' = IF /\ store = "redis" /\ i \notin lost \cup cut
                   /\ owner[id[i]] = i
                THEN [owner EXCEPT ![id[i]] = None]
                ELSE owner
    /\ UNCHANGED faults

Crash(i) ==
    /\ pc[i] \in {"scan", "up"}
    /\ Fault("crash")
    /\ Down(i)
    /\ UNCHANGED owner

\* A key that nobody refreshes runs out.
Expire(s) ==
    LET i == owner[s]
    IN  /\ i # None
        /\ pc[i] = "down" \/ i \in cut \cup lost \/ i \notin leased \/ id[i] # s
        /\ owner' = [owner EXCEPT ![s] = None]
        /\ UNCHANGED <<store, turn, procVars, heldVars, genVars, faults, doubt>>

\* The store cannot be reached for a while, or the renewing thread is held up.
Cut(i) ==
    /\ pc[i] = "up" /\ i \in leased \ cut
    /\ Fault("cut")
    /\ cut' = cut \cup {i}
    /\ doubt' = doubt \cup {i}
    /\ UNCHANGED <<leaseVars, procVars, lost, fails, genVars>>

Heal(i) ==
    /\ i \in cut
    /\ cut' = cut \ {i}
    /\ UNCHANGED <<leaseVars, procVars, lost, fails, genVars, faults, doubt>>

-----------------------------------------------------------------------------
(* SnowflakeId *)

Tick(i) ==
    /\ pc[i] = "up" /\ clock[i] < MaxTime
    /\ clock' = [clock EXCEPT ![i] = @ + 1]
    /\ UNCHANGED <<leaseVars, procVars, heldVars, lastTs, sequence, issued, faults, doubt>>

\* The clock of a host is set back.
SetBack(i, t) ==
    /\ pc[i] = "up" /\ t < clock[i]
    /\ Fault("back")
    /\ clock' = [clock EXCEPT ![i] = t]
    /\ doubt' = IF Behind(i, id[i], t) THEN doubt \cup {i} ELSE doubt
    /\ UNCHANGED <<leaseVars, procVars, heldVars, lastTs, sequence, issued>>

Draw(i, t, n) ==
    /\ lastTs' = [lastTs EXCEPT ![i] = t]
    /\ sequence' = [sequence EXCEPT ![i] = n]
    /\ issued' = [issued EXCEPT ![i] = @ \cup {<<t, id[i], n>>}]
    /\ UNCHANGED <<leaseVars, procVars, heldVars, clock, faults, doubt>>

\* Mutant of NextId: a clock that went back is used as it is.
NextIdTrusting(i) ==
    LET now == clock[i]
    IN  /\ pc[i] = "up"
        /\ \/ now # lastTs[i] /\ Draw(i, now, 0)
           \/ now = lastTs[i] /\ sequence[i] < MaxSeq /\ Draw(i, now, sequence[i] + 1)

\* Next(): a clock behind last_ts_ is waited for, or an exception; a new
\* millisecond starts at 0; within one the sequence counts, and when it would
\* overflow the next millisecond is waited for.
NextId(i) ==
    LET now == clock[i]
    IN  /\ pc[i] = "up"
        /\ \/ now > lastTs[i] /\ Draw(i, now, 0)
           \/ now = lastTs[i] /\ sequence[i] < MaxSeq /\ Draw(i, now, sequence[i] + 1)

\* Compose: timestamp, worker id and sequence in their bit fields.
Compose(x) == (x[1] * NSlots + x[2]) * (MaxSeq + 1) + x[3]

-----------------------------------------------------------------------------

Next ==
    \/ \E i \in Inst :
          \/ \E t \in Time : Start(i, t) \/ SetBack(i, t)
          \/ Win(i) \/ Skip(i) \/ GiveUp(i)
          \/ Renew(i) \/ CheckTtl(i) \/ Campaign(i) \/ Watchdog(i)
          \/ Stop(i) \/ Crash(i) \/ Cut(i) \/ Heal(i)
          \/ Tick(i) \/ NextId(i)
    \/ \E s \in Slot : Expire(s)

Spec == Init /\ [][Next]_vars

\* The renewing thread, the election thread and the watchdog run on, an outage
\* ends, and an unrefreshed key runs out.
Fairness ==
    /\ \A i \in Inst :
          WF_vars(Renew(i)) /\ WF_vars(CheckTtl(i)) /\ WF_vars(Watchdog(i)) /\ WF_vars(Heal(i))
    /\ \A s \in Slot : WF_vars(Expire(s))
FairSpec == Spec /\ Fairness

-----------------------------------------------------------------------------
(* Properties *)

Ids(i) == {Compose(x) : x \in issued[i]}

Holds(i) == \E s \in Slot : id[i] = s /\ owner[s] = i

\* Two instances never draw the same message id, whichever of them start, stop
\* or crash and take over each other's slots, as long as both have kept in touch
\* with the store that holds their lease and neither clock is behind an id
\* already drawn under their worker id (worker_id.hpp, acquire and the renewing
\* thread; snowflake.hpp, Next and EtcdWorkIdAllocator).
IdsUnique == \A i, j \in Inst \ doubt : i # j => Ids(i) \cap Ids(j) = {}

IdsGrow ==
    \A i \in Inst : \A x \in issued'[i] \ issued[i] : \A y \in issued[i] : Compose(y) < Compose(x)

\* The ids of one instance strictly increase, also when its clock is set back
\* and when the sequence of a millisecond is used up (snowflake.hpp, Next).
IdsIncrease == [][IdsGrow]_vars

\* An instance whose slot belongs to somebody else or to nobody does not go on
\* for ever: it is aborted, or gets the slot back (worker_id.hpp, the renewing
\* thread; leader_election.hpp, _hold_leadership_; transmite_server.h, the
\* watchdog).
DeposedStops ==
    \A i \in Inst : []<>~(pc[i] = "up" /\ i \in leased /\ ~Holds(i))
=============================================================================
