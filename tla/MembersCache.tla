---------------------------- MODULE MembersCache ----------------------------
(***************************************************************************)
(* The member list of one conversation: the rows of MySQL, the versioned   *)
(* copy in Redis (L2: the set, the "empty" sentinel and the version       *)
(* counter), the copy in every Transmite process (L1), and the calls that   *)
(* read and write them.                                                    *)
(*   - a Writer is one execution of a ConversationService handler that     *)
(*     changes the members and then invalidates the Redis copy;            *)
(*   - a Call is one execution of Transmite's resolve_members, together    *)
(*     with the GetMemberIds handler it may call on ConversationService.   *)
(* Every Redis command, SQL transaction and RPC is a step of its own.      *)
(***************************************************************************)
EXTENDS Naturals

CONSTANTS Group,       \* TRUE: a GROUP conversation; FALSE: a PRIVATE one
          User,        \* users that may be members
          Owner,       \* its creator, of a group the owner
          Writer,      \* concurrent executions of the mutating handlers
          Call,        \* concurrent executions of resolve_members
          Inst,        \* Transmite processes, each with its own L1
          InstOf,      \* [Call -> Inst]
          SenderOf,    \* [Call -> User], the user whose message is sent
          Unknown,     \* kUnknownCacheVersion; also the version of "no entry"
          None,        \* an unlocked mutex
          MaxChanges,  \* bound: executions of mutating handlers
          MaxFaults    \* bound: failed Redis, MySQL and RPC operations

ASSUME ConstantsAssumption ==
  /\ Group \in BOOLEAN /\ Owner \in User
  /\ InstOf \in [Call -> Inst]
  /\ SenderOf \in [Call -> User]
  /\ Unknown \notin Nat
  /\ None \notin Call
  /\ MaxChanges \in Nat /\ MaxFaults \in Nat

VARIABLES
  exists,    \* the conversation row has been inserted
  db,        \* active members in conversation_member
  job,       \* [Writer -> Job], where each mutating handler is
  todo,      \* [Writer -> SUBSET User], uids its loop has still to handle
  changes,   \* mutating handlers started so far
  closed,    \* DismissConversation has returned
  l2,        \* the Redis set of members; {}: no such key
  sentinel,  \* the Redis "empty" sentinel exists
  ver,       \* the Redis version counter
  mutex,     \* the Redis warm-up mutex: its holder or None
  l1, l1ver, \* per process: the L1 entry and its version (Unknown: no entry)
  inflight,  \* per process: holder of the conversation's in-flight mutex
  pc,        \* [Call -> Step], where resolve_members is
  seen,      \* its version read by the snapshot (or the L1 entry's)
  list,      \* its member list; at "done" the answer
  obs,       \* its observed_version
  sure,      \* calls whose answer has confirmed_empty set
  gpc,       \* [Call -> HStep], where the GetMemberIds handler is
  gseen, glist, \* the handler's version and list
  faults,
  held,      \* history: the lists db has held since the version last moved
  window,    \* history: the lists that were held at some time during the call
  late,      \* history: calls begun after the dismissal had returned
  dirty,     \* history: writers that have committed a change of db, not yet invalidated
  missed     \* history: no invalidation has followed a change that owed one

Version == Nat \cup {Unknown}
Job == {"idle", "create", "add", "remove", "invalidate", "close"}
Step == {"idle", "local", "compare", "lock", "before", "members", "after",
         "sentinel", "confirm", "keep", "mutex", "observe", "rpc", "warm",
         "store", "unlock", "done"}
HStep == {"idle", "before", "members", "after", "sentinel", "observe", "db",
          "warm", "reply"}

dbVars == <<exists, db, job, todo, changes, closed, dirty, missed>>
redis == <<l2, sentinel, ver>>
local == <<l1, l1ver>>
handler == <<gpc, gseen, glist>>
call == <<pc, seen, list, obs, sure>>
history == <<held, window, late>>
vars == <<dbVars, redis, mutex, local, inflight, call, handler, faults, history>>

CacheTypes ==
  /\ exists \in BOOLEAN /\ db \in SUBSET User /\ l2 \in SUBSET User
  /\ sentinel \in BOOLEAN /\ ver \in Nat
  /\ l1 \in [Inst -> SUBSET User] /\ l1ver \in [Inst -> Version]
  /\ seen \in [Call -> Version] /\ list \in [Call -> SUBSET User]
  /\ obs \in [Call -> Version]
  /\ gseen \in [Call -> Version] /\ glist \in [Call -> SUBSET User]
  /\ held \in SUBSET SUBSET User /\ window \in [Call -> SUBSET SUBSET User]

ControlTypes ==
  /\ job \in [Writer -> Job] /\ todo \in [Writer -> SUBSET User]
  /\ changes \in Nat /\ faults \in Nat /\ closed \in BOOLEAN
  /\ mutex \in Call \cup {None} /\ inflight \in [Inst -> Call \cup {None}]
  /\ pc \in [Call -> Step] /\ gpc \in [Call -> HStep]
  /\ sure \in SUBSET Call /\ late \in SUBSET Call
  /\ dirty \in SUBSET Writer /\ missed \in BOOLEAN

\* Every variable has its type.
TypeOK == CacheTypes /\ ControlTypes

Init ==
  /\ exists = FALSE /\ db = {} /\ l2 = {} /\ sentinel = FALSE /\ ver = 0
  /\ job = [w \in Writer |-> "idle"] /\ todo = [w \in Writer |-> {}]
  /\ changes = 0 /\ closed = FALSE /\ faults = 0
  /\ mutex = None /\ inflight = [i \in Inst |-> None]
  /\ l1 = [i \in Inst |-> {}] /\ l1ver = [i \in Inst |-> Unknown]
  /\ pc = [p \in Call |-> "idle"] /\ gpc = [p \in Call |-> "idle"]
  /\ seen = [p \in Call |-> Unknown] /\ list = [p \in Call |-> {}]
  /\ obs = [p \in Call |-> Unknown] /\ sure = {}
  /\ gseen = [p \in Call |-> Unknown] /\ glist = [p \in Call |-> {}]
  /\ held = {{}} /\ window = [p \in Call |-> {}] /\ late = {}
  /\ dirty = {} /\ missed = FALSE

Fault == faults < MaxFaults /\ faults' = faults + 1
-----------------------------------------------------------------------------
(* The mutating handlers of ConversationService.                           *)

\* The rows become S: every open call may from now on answer S.
Commit(w, S) ==
  /\ db' = S
  /\ held' = held \cup {S}
  /\ window' = [p \in Call |-> window[p] \cup {S}]
  /\ dirty' = IF S = db THEN dirty ELSE dirty \cup {w}

Starts(w) == job[w] = "idle" /\ changes < MaxChanges /\ changes' = changes + 1

\* CreateConversation inserts the conversation row. The id of a private
\* conversation is computed from its users: a second request finds the row.
CreateConversation(w, S) ==
  /\ Starts(w) /\ ~exists /\ Owner \in S
  /\ exists' = TRUE
  /\ job' = [job EXCEPT ![w] = "create"]
  /\ todo' = [todo EXCEPT ![w] = S]
  /\ UNCHANGED <<db, closed, dirty, missed, redis, mutex, local, inflight, call, handler, faults, history>>

\* append_after_create inserts all member rows in a second transaction; when
\* it fails the handler throws.
InsertMembers(w) ==
  /\ job[w] = "create"
  /\ todo' = [todo EXCEPT ![w] = {}]
  /\ \/ /\ Commit(w, todo[w])
        /\ job' = [job EXCEPT ![w] = "invalidate"] /\ UNCHANGED faults
     \/ /\ Fault /\ job' = [job EXCEPT ![w] = "idle"]
        /\ UNCHANGED <<db, dirty, held, window>>
  /\ UNCHANGED <<exists, changes, closed, missed, redis, mutex, local, inflight, call, handler, late>>

\* AddMembers and RemoveMembers pass their permission checks (the owner acts)
\* and enter the loop over the requested uids.
StartLoop(w, kind, S) ==
  /\ Starts(w) /\ Group /\ Owner \in db
  /\ job' = [job EXCEPT ![w] = kind]
  /\ todo' = [todo EXCEPT ![w] = S]
  /\ UNCHANGED <<exists, db, closed, dirty, missed, redis, mutex, local, inflight, call, handler, faults, history>>

\* One uid of AddMembers: rejoin or append, each its own transaction; a uid
\* that is already active, or whose row cannot be written, is skipped.
AddOne(w, u) ==
  /\ job[w] = "add" /\ u \in todo[w]
  /\ todo' = [todo EXCEPT ![w] = @ \ {u}]
  /\ \/ Commit(w, db \cup {u}) /\ UNCHANGED faults
     \/ Fault /\ UNCHANGED <<db, dirty, held, window>>
  /\ UNCHANGED <<exists, job, changes, closed, missed, redis, mutex, local, inflight, call, handler, late>>

\* One uid of RemoveMembers: set_quit in its own transaction (its result is
\* not looked at). The owner's own uid makes the handler throw, and what the
\* loop has already committed is then never invalidated.
RemoveOne(w, u) ==
  /\ job[w] = "remove" /\ u \in todo[w]
  /\ IF u = Owner
     THEN /\ job' = [job EXCEPT ![w] = "idle"]
          /\ todo' = [todo EXCEPT ![w] = {}]
          /\ missed' = (missed \/ w \in dirty)
          /\ dirty' = dirty \ {w}
          /\ UNCHANGED <<db, held, window, faults>>
     ELSE /\ todo' = [todo EXCEPT ![w] = @ \ {u}]
          /\ \/ Commit(w, db \ {u}) /\ UNCHANGED faults
             \/ Fault /\ UNCHANGED <<db, dirty, held, window>>
          /\ UNCHANGED <<job, missed>>
  /\ UNCHANGED <<exists, changes, closed, redis, mutex, local, inflight, call, handler, late>>

\* The loop ends. AddMembers always invalidates, RemoveMembers only when it
\* has removed someone.
EndLoop(w) ==
  /\ job[w] \in {"add", "remove"} /\ todo[w] = {}
  /\ job' = [job EXCEPT ![w] = IF job[w] = "add" \/ w \in dirty THEN "invalidate" ELSE "idle"]
  /\ UNCHANGED <<exists, db, todo, changes, closed, dirty, missed, redis, mutex, local, inflight, call, handler, faults, history>>

\* QuitConversation: a member who is not a group's owner sets its row to quit.
QuitConversation(w, u) ==
  /\ Starts(w) /\ u \in db /\ (Group => u # Owner)
  /\ Commit(w, db \ {u})
  /\ job' = [job EXCEPT ![w] = "invalidate"]
  /\ UNCHANGED <<exists, todo, closed, missed, redis, mutex, local, inflight, call, handler, faults, late>>

\* DismissConversation sets conversation.status and invalidates. The member
\* rows stay, and members() does not look at the status.
DismissConversation(w) ==
  /\ Starts(w) /\ Group /\ Owner \in db
  /\ job' = [job EXCEPT ![w] = "close"]
  /\ UNCHANGED <<exists, db, todo, closed, dirty, missed, redis, mutex, local, inflight, call, handler, faults, history>>

\* Mutants of InvalidateLua: the version goes down; the set is left in place.
InvalidateLuaDecr ==
  /\ ver' = ver - 1 /\ l2' = {} /\ sentinel' = FALSE
  /\ held' = {db} /\ missed' = FALSE
InvalidateLuaNoDel ==
  /\ ver' = ver + 1 /\ UNCHANGED <<l2, sentinel>>
  /\ held' = {db} /\ missed' = FALSE

\* Members::invalidate: one script moves the version and deletes the set and
\* the sentinel.
InvalidateLua ==
  /\ ver' = ver + 1 /\ l2' = {} /\ sentinel' = FALSE
  /\ held' = {db} /\ missed' = FALSE

\* A failing invalidation is logged and swallowed.
Invalidate(w) ==
  /\ job[w] \in {"invalidate", "close"}
  /\ \/ InvalidateLua /\ UNCHANGED faults
     \/ Fault /\ missed' = (missed \/ w \in dirty) /\ UNCHANGED <<redis, held>>
  /\ dirty' = dirty \ {w}
  /\ job' = [job EXCEPT ![w] = "idle"]
  /\ closed' = (closed \/ job[w] = "close")
  /\ UNCHANGED <<exists, db, todo, changes, mutex, local, inflight, call, handler, window, late>>
-----------------------------------------------------------------------------
(* Redis and L1 as the calls use them.                                     *)

\* Members::version: the counter, or Unknown when the read fails.
ReadVersion(v) ==
  \/ v = ver /\ UNCHANGED faults
  \/ v = Unknown /\ Fault

\* cache_version.hpp: two known and equal versions.
SameVersion(v, w) == v # Unknown /\ w # Unknown /\ v = w

\* Mutant of L1Matches: an entry is good until its time to live is over.
L1AnyVersion(entry, now) == TRUE

\* cache_l1_version_matches.
L1Matches(entry, now) == SameVersion(entry, now)

\* kWarmIfVersionLua and kSentinelIfVersionLua, after the version test.
WarmLua(S) == l2' = S /\ sentinel' = (S = {}) /\ UNCHANGED ver

\* Mutant of WarmIfVersion: the plain warm() that is not conditional.
WarmAlways(S, v, ok) == ok = TRUE /\ WarmLua(S) /\ UNCHANGED faults

\* warm_if_version / set_sentinel_if_version: ok is their result. A script
\* that fails before it has run, or whose answer is lost, returns false.
WarmIfVersion(S, v, ok) ==
  \/ /\ ok = SameVersion(v, ver) /\ UNCHANGED faults
     /\ IF ok THEN WarmLua(S) ELSE UNCHANGED redis
  \/ /\ Fault /\ ok = FALSE
     /\ \/ UNCHANGED redis
        \/ SameVersion(v, ver) /\ WarmLua(S)

SetLocal(i, S, v) ==
  IF v = Unknown THEN UNCHANGED local
  ELSE l1' = [l1 EXCEPT ![i] = S] /\ l1ver' = [l1ver EXCEPT ![i] = v]

DropLocal(i) ==
  l1ver' = [l1ver EXCEPT ![i] = Unknown] /\ l1' = [l1 EXCEPT ![i] = {}]

Release(p) ==
  inflight' = [inflight EXCEPT ![InstOf[p]] = IF @ = p THEN None ELSE @]

Goto(p, s) == pc' = [pc EXCEPT ![p] = s]

\* The call returns S and its variables go out of scope.
Return(p, S) ==
  /\ Goto(p, "done") /\ Release(p)
  /\ list' = [list EXCEPT ![p] = S]
  /\ seen' = [seen EXCEPT ![p] = Unknown]
  /\ obs' = [obs EXCEPT ![p] = Unknown]

\* return {}: not confirmed; SendMessage tries again.
GiveUp(p) == Return(p, {})
-----------------------------------------------------------------------------
(* Transmite: resolve_members.                                             *)

\* resolve_members is called. A group's id is a fresh uuid, known to senders
\* once CreateConversation has inserted the rows.
Begin(p) ==
  /\ pc[p] \in {"idle", "done"} /\ gpc[p] = "idle"
  /\ Group => db # {}
  /\ Goto(p, "local")
  /\ sure' = sure \ {p} /\ list' = [list EXCEPT ![p] = {}]
  /\ window' = [window EXCEPT ![p] = held]
  /\ late' = IF closed THEN late \cup {p} ELSE late \ {p}
  /\ UNCHANGED <<dbVars, redis, mutex, local, inflight, seen, obs, handler, faults, held>>

\* After a miss in L1: the in-flight mutex, or behind it the Redis snapshot.
AfterLocal(p) == IF inflight[InstOf[p]] = p THEN "before" ELSE "lock"

\* try_local, the L1 lookup.
ReadLocal(p) ==
  LET i == InstOf[p] IN
  /\ pc[p] = "local"
  /\ IF l1ver[i] = Unknown
     THEN Goto(p, AfterLocal(p)) /\ UNCHANGED <<seen, list>>
     ELSE /\ Goto(p, "compare")
          /\ seen' = [seen EXCEPT ![p] = l1ver[i]]
          /\ list' = [list EXCEPT ![p] = l1[i]]
  /\ UNCHANGED <<dbVars, redis, mutex, local, inflight, obs, sure, handler, faults, history>>

\* try_local, the version test of an entry that was found.
Compare(p) ==
  /\ pc[p] = "compare"
  /\ \E v \in {ver, Unknown} :
       /\ ReadVersion(v)
       /\ IF L1Matches(seen[p], v)
          THEN /\ Return(p, list[p])
               /\ sure' = IF list[p] = {} THEN sure \cup {p} ELSE sure
               /\ UNCHANGED local
          ELSE /\ Goto(p, AfterLocal(p)) /\ DropLocal(InstOf[p])
               /\ seen' = [seen EXCEPT ![p] = Unknown]
               /\ list' = [list EXCEPT ![p] = {}]
               /\ UNCHANGED <<inflight, obs, sure>>
  /\ UNCHANGED <<dbVars, redis, mutex, handler, history>>

\* InflightRegistry: one call per process and conversation goes on.
Lock(p) ==
  /\ pc[p] = "lock" /\ inflight[InstOf[p]] = None
  /\ inflight' = [inflight EXCEPT ![InstOf[p]] = p]
  /\ Goto(p, "local")
  /\ UNCHANGED <<dbVars, redis, mutex, local, seen, list, obs, sure, handler, faults, history>>

\* list_snapshot, the version before the read.
SnapBefore(p) ==
  /\ pc[p] = "before"
  /\ \E v \in {ver, Unknown} : ReadVersion(v) /\ seen' = [seen EXCEPT ![p] = v]
  /\ Goto(p, "members")
  /\ UNCHANGED <<dbVars, redis, mutex, local, inflight, list, obs, sure, handler, history>>

\* list_snapshot, SMEMBERS. When it fails the snapshot is unstable.
SnapMembers(p) ==
  /\ pc[p] = "members"
  /\ \/ /\ list' = [list EXCEPT ![p] = l2]
        /\ Goto(p, "after") /\ UNCHANGED <<inflight, seen, obs, faults>>
     \/ Fault /\ GiveUp(p)
  /\ UNCHANGED <<dbVars, redis, mutex, local, sure, handler, history>>

\* list_snapshot, the version after the read, and the three ways on.
SnapAfter(p) ==
  /\ pc[p] = "after"
  /\ \E v \in {ver, Unknown} :
       /\ ReadVersion(v)
       /\ \/ ~SameVersion(seen[p], v) /\ GiveUp(p)
          \/ /\ SameVersion(seen[p], v) /\ list[p] # {}
             /\ Goto(p, "keep") /\ Release(p) /\ UNCHANGED <<seen, list, obs>>
          \/ /\ SameVersion(seen[p], v) /\ list[p] = {}
             /\ Goto(p, "sentinel") /\ seen' = [seen EXCEPT ![p] = Unknown]
             /\ UNCHANGED <<inflight, list, obs>>
  /\ UNCHANGED <<dbVars, redis, mutex, local, sure, handler, history>>

\* is_sentinel; a failed read counts as "no sentinel".
IsSentinel(p) ==
  /\ pc[p] = "sentinel"
  /\ \/ Goto(p, IF sentinel THEN "confirm" ELSE "mutex") /\ UNCHANGED faults
     \/ Fault /\ Goto(p, "mutex")
  /\ UNCHANGED <<dbVars, redis, mutex, local, inflight, seen, list, obs, sure, handler, history>>

\* The sentinel was there: read the version its L1 entry will carry.
Confirm(p) ==
  /\ pc[p] = "confirm"
  /\ \E v \in {ver, Unknown} : ReadVersion(v) /\ seen' = [seen EXCEPT ![p] = v]
  /\ Goto(p, "keep") /\ Release(p)
  /\ UNCHANGED <<dbVars, redis, mutex, local, list, obs, sure, handler, history>>

\* set_local_members / set_local_sentinel after the mutex is released.
Keep(p) ==
  /\ pc[p] = "keep"
  /\ SetLocal(InstOf[p], list[p], seen[p])
  /\ Return(p, list[p])
  /\ sure' = IF list[p] = {} THEN sure \cup {p} ELSE sure
  /\ UNCHANGED <<dbVars, redis, mutex, handler, faults, history>>

\* RedisMutex::try_lock, until it succeeds or 100 ms have passed.
TryLock(p) ==
  /\ pc[p] = "mutex"
  /\ \/ /\ mutex = None /\ mutex' = p
        /\ Goto(p, "observe") /\ UNCHANGED <<inflight, seen, list, obs>>
     \/ mutex # None /\ GiveUp(p) /\ UNCHANGED mutex
  /\ UNCHANGED <<dbVars, redis, local, sure, handler, faults, history>>

\* observed_version, then the GetMemberIds RPC.
Observe(p) ==
  /\ pc[p] = "observe"
  /\ \E v \in {ver, Unknown} : ReadVersion(v) /\ obs' = [obs EXCEPT ![p] = v]
  /\ Goto(p, "rpc")
  /\ gpc' = [gpc EXCEPT ![p] = "before"]
  /\ UNCHANGED <<dbVars, redis, mutex, local, inflight, seen, list, sure, gseen, glist, history>>

\* The RPC fails or times out at the client; the handler may still be running.
RpcFails(p) ==
  /\ pc[p] = "rpc" /\ Fault
  /\ Goto(p, "unlock") /\ list' = [list EXCEPT ![p] = {}]
  /\ UNCHANGED <<dbVars, redis, mutex, local, inflight, seen, obs, sure, handler, history>>

\* The list came back: write it to Redis unless the version has moved.
Warm(p) ==
  /\ pc[p] = "warm"
  /\ \E ok \in BOOLEAN :
       /\ WarmIfVersion(list[p], obs[p], ok)
       /\ Goto(p, IF ok THEN "store" ELSE "unlock")
       /\ list' = IF ok THEN list ELSE [list EXCEPT ![p] = {}]
       /\ sure' = IF ok /\ list[p] = {} THEN sure \cup {p} ELSE sure
  /\ UNCHANGED <<dbVars, mutex, local, inflight, seen, obs, handler, history>>

\* set_local_members / set_local_sentinel under the version of the warm-up.
StoreLocal(p) ==
  /\ pc[p] = "store"
  /\ SetLocal(InstOf[p], list[p], obs[p])
  /\ Goto(p, "unlock")
  /\ UNCHANGED <<dbVars, redis, mutex, inflight, seen, list, obs, sure, handler, faults, history>>

\* RedisMutex::unlock deletes the key only if it still holds this token; then
\* the in-flight mutex is released and the call returns.
Unlock(p) ==
  /\ pc[p] = "unlock"
  /\ \/ mutex' = (IF mutex = p THEN None ELSE mutex) /\ UNCHANGED faults
     \/ Fault /\ UNCHANGED mutex
  /\ Return(p, list[p])
  /\ UNCHANGED <<dbVars, redis, local, sure, handler, history>>
-----------------------------------------------------------------------------
(* ConversationService: GetMemberIds, called by the resolve_members call p. *)

HGoto(p, s) == gpc' = [gpc EXCEPT ![p] = s]

HSnapBefore(p) ==
  /\ gpc[p] = "before"
  /\ \E v \in {ver, Unknown} : ReadVersion(v) /\ gseen' = [gseen EXCEPT ![p] = v]
  /\ HGoto(p, "members")
  /\ UNCHANGED <<dbVars, redis, mutex, local, inflight, call, glist, history>>

\* A failed SMEMBERS makes the snapshot unstable and leads to the database.
HSnapMembers(p) ==
  /\ gpc[p] = "members"
  /\ \/ /\ glist' = [glist EXCEPT ![p] = l2]
        /\ HGoto(p, "after") /\ UNCHANGED faults
     \/ Fault /\ HGoto(p, "observe") /\ UNCHANGED glist
  /\ UNCHANGED <<dbVars, redis, mutex, local, inflight, call, gseen, history>>

HSnapAfter(p) ==
  /\ gpc[p] = "after"
  /\ \E v \in {ver, Unknown} :
       /\ ReadVersion(v)
       /\ HGoto(p, IF ~SameVersion(gseen[p], v) THEN "observe"
                   ELSE IF glist[p] # {} THEN "reply" ELSE "sentinel")
  /\ UNCHANGED <<dbVars, redis, mutex, local, inflight, call, gseen, glist, history>>

HIsSentinel(p) ==
  /\ gpc[p] = "sentinel"
  /\ \/ HGoto(p, IF sentinel THEN "reply" ELSE "observe") /\ UNCHANGED faults
     \/ Fault /\ HGoto(p, "observe")
  /\ UNCHANGED <<dbVars, redis, mutex, local, inflight, call, gseen, glist, history>>

HObserve(p) ==
  /\ gpc[p] = "observe"
  /\ \E v \in {ver, Unknown} : ReadVersion(v) /\ gseen' = [gseen EXCEPT ![p] = v]
  /\ HGoto(p, "db")
  /\ UNCHANGED <<dbVars, redis, mutex, local, inflight, call, glist, history>>

\* ConversationMemberTable::members. It swallows a database error and returns
\* the empty list, which the handler cannot tell from "no members".
HReadDb(p) ==
  /\ gpc[p] = "db"
  /\ \/ /\ glist' = [glist EXCEPT ![p] = db]
        /\ UNCHANGED <<faults, missed, held, window>>
     \/ /\ Fault /\ glist' = [glist EXCEPT ![p] = {}]
        /\ missed' = TRUE /\ held' = held \cup {{}}
        /\ window' = [q \in Call |-> window[q] \cup {{}}]
  /\ HGoto(p, "warm")
  /\ UNCHANGED <<exists, db, job, todo, changes, closed, dirty, redis, mutex, local, inflight, call, gseen, late>>

\* The handler does not look at the result of its conditional write.
HWarm(p) ==
  /\ gpc[p] = "warm"
  /\ \E ok \in BOOLEAN : WarmIfVersion(glist[p], gseen[p], ok)
  /\ HGoto(p, "reply")
  /\ UNCHANGED <<dbVars, mutex, local, inflight, call, gseen, glist, history>>

\* The reply: an error for a sender who is not in the list. It is lost on a
\* client that has stopped waiting.
HReply(p) ==
  /\ gpc[p] = "reply"
  /\ HGoto(p, "idle")
  /\ gseen' = [gseen EXCEPT ![p] = Unknown] /\ glist' = [glist EXCEPT ![p] = {}]
  /\ IF pc[p] # "rpc"
     THEN UNCHANGED <<pc, list>>
     ELSE LET ok == SenderOf[p] \in glist[p] IN
          /\ Goto(p, IF ok THEN "warm" ELSE "unlock")
          /\ list' = [list EXCEPT ![p] = IF ok THEN glist[p] ELSE {}]
  /\ UNCHANGED <<dbVars, redis, mutex, local, inflight, seen, obs, sure, faults, history>>
-----------------------------------------------------------------------------
(* Times to live.                                                          *)

Expire ==
  /\ \/ l2' = {} /\ UNCHANGED <<sentinel, mutex, local>>
     \/ sentinel' = FALSE /\ UNCHANGED <<l2, mutex, local>>
     \/ mutex' = None /\ UNCHANGED <<l2, sentinel, local>>
     \/ \E i \in Inst : DropLocal(i) /\ UNCHANGED <<l2, sentinel, mutex>>
  /\ UNCHANGED <<dbVars, ver, inflight, call, handler, faults, history>>

WriterStep(w) ==
  \/ \E S \in SUBSET User : \/ CreateConversation(w, S)
                            \/ S # {} /\ \E k \in {"add", "remove"} : StartLoop(w, k, S)
  \/ \E u \in User : AddOne(w, u) \/ RemoveOne(w, u) \/ QuitConversation(w, u)
  \/ InsertMembers(w) \/ EndLoop(w) \/ DismissConversation(w) \/ Invalidate(w)

CallStep(p) ==
  \/ ReadLocal(p) \/ Compare(p) \/ Lock(p)
  \/ SnapBefore(p) \/ SnapMembers(p) \/ SnapAfter(p)
  \/ IsSentinel(p) \/ Confirm(p) \/ Keep(p)
  \/ TryLock(p) \/ Observe(p) \/ RpcFails(p) \/ Warm(p) \/ StoreLocal(p) \/ Unlock(p)

HandlerStep(p) ==
  \/ HSnapBefore(p) \/ HSnapMembers(p) \/ HSnapAfter(p) \/ HIsSentinel(p)
  \/ HObserve(p) \/ HReadDb(p) \/ HWarm(p) \/ HReply(p)

Next ==
  \/ \E w \in Writer : WriterStep(w)
  \/ \E p \in Call : Begin(p) \/ CallStep(p) \/ HandlerStep(p)
  \/ Expire

Spec == Init /\ [][Next]_vars
-----------------------------------------------------------------------------
(* Properties.                                                             *)

\* What Redis holds, and what an L1 entry that would still pass the version
\* test holds, is a list the rows have had since the version last moved: the
\* conditional scripts and the snapshot of list_snapshot keep every older read
\* out, however the handlers interleave and whatever fails.
NoStaleWriteBack ==
  /\ l2 # {} => l2 \in held
  /\ sentinel => {} \in held
  /\ \A i \in Inst : l1ver[i] = ver /\ l1[i] # {} => l1[i] \in held

\* Once every handler that changed the rows has invalidated, the Redis copy and
\* every usable L1 list are the rows.
SettledIsExact ==
  dirty = {} /\ ~missed =>
    /\ l2 # {} => l2 = db
    /\ sentinel => db = {}
    /\ \A i \in Inst : l1ver[i] = ver /\ l1[i] # {} => l1[i] = db

\* A list resolve_members returns was the rows' content at some time since the
\* last invalidation that preceded the call, or during the call: a member
\* removed by a handler that had returned before the send began is not in it.
AnswerFresh ==
  \A p \in Call : pc[p] = "done" /\ list[p] # {} => list[p] \in window[p]

\* "哨兵确认会话不存在，不重试" (transmite_server.h:254): confirmed_empty is only
\* returned when the conversation had no members at some time since the last
\* invalidation before the call, or during the call.
ConfirmedEmptyIsTrue ==
  \A p \in Call : pc[p] = "done" /\ p \in sure => {} \in window[p]

\* "向已解散会话发消息应失败" (tests/func/transmite_test.go:477): a call begun after
\* DismissConversation returned yields no list that admits the sender.
DismissedRejects ==
  \A p \in Call : pc[p] = "done" /\ p \in late => SenderOf[p] \notin list[p]
=============================================================================
