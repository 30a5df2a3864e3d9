------------------------------ MODULE UserInfo ------------------------------
(***************************************************************************)
(* The profile of one user and its two caches: UpdateProfile of            *)
(* IdentityService changes the row and invalidates UserInfoCache in Redis  *)
(* before and after it; resolve_user_info of Transmite reads the cache of  *)
(* its process (L1), Redis (L2) and at last the row through GetProfile.    *)
(* Every entry is fenced by a generation that an invalidation advances.    *)
(*                                                                         *)
(* A profile is the number of the commit that wrote it.  Only readable     *)
(* profiles are ever written, so the branches for unreadable bytes are     *)
(* left out.  The generation key lives for a week after its last use and   *)
(* no call lasts that long: its expiry is left out, and so is a Redis that *)
(* comes back without its data.                                            *)
(***************************************************************************)
EXTENDS Naturals, FiniteSets

CONSTANTS
    Absent,     \* no entry, or a generation that could not be read
    Gone,       \* the empty string: the user is confirmed not to exist
    Host,       \* the processes of Transmite, each the set of its threads
    Editor,     \* handler threads of Identity that run UpdateProfile
    InfoFaults, \* the faults this instance explores: "redis", "db", "rpc", "crash"
    MaxRow,     \* bound: commits of the row
    MaxInfoFaults \* bound: how many faults a behaviour contains

Reader == UNION Host
Row == 0..MaxRow

\* What a deployment satisfies: a thread belongs to one process.
ASSUME UserInfoAssumption ==
    /\ \A g, h \in Host : g # h => g \cap h = {}
    /\ Absent \notin Nat /\ Gone \notin Nat /\ Absent # Gone
    /\ MaxRow \in Nat /\ MaxInfoFaults \in Nat /\ IsFiniteSet(Editor)

VARIABLES
    db,      \* the row of the user in MySQL
    entry,   \* im:user:{bucket}:uid, the entry of L2
    gen,     \* im:user-gen:{bucket}:uid, 0 when there is no key
    l1,      \* l1[h], the entry in _local_user_cache of process h
    stage,   \* the next step of a reader
    obs,     \* the generation a reader has observed
    info,    \* what a reader has read
    floor,   \* ghost: settled when the call of a reader began
    edit,    \* the next step of an editor
    settled, \* ghost: the row when an update last ended with its caches invalidated
    infoFaults \* number of faults so far

redis == <<entry, gen>>
readers == <<stage, obs, info, floor>>
infoVars == <<db, redis, l1, readers, edit, settled, infoFaults>>

\* The steps of resolve_after_lock, taken under the mutex of the process.
Locked == {"get", "generation", "fetch", "fill", "publish"}

\* The types of the variables.
InfoTypeOK ==
    /\ db \in Row /\ settled \in Row
    /\ entry \in Row \cup {Absent, Gone}
    /\ gen \in Nat
    /\ l1 \in [Host -> Row \cup {Absent}]
    /\ stage \in [Reader -> Locked \cup {"idle", "lock"}]
    /\ obs \in [Reader -> Nat \cup {Absent}]
    /\ info \in [Reader -> Row \cup {Absent, Gone}]
    /\ floor \in [Reader -> Row]
    /\ edit \in [Editor -> {"idle", "pre", "commit", "post"}]
    /\ infoFaults \in 0..MaxInfoFaults

InfoInit ==
    /\ db = 0 /\ settled = 0
    /\ entry = Absent /\ gen = 0
    /\ l1 = [h \in Host |-> Absent]
    /\ stage = [r \in Reader |-> "idle"]
    /\ obs = [r \in Reader |-> Absent]
    /\ info = [r \in Reader |-> Absent]
    /\ floor = [r \in Reader |-> 0]
    /\ edit = [e \in Editor |-> "idle"]
    /\ infoFaults = 0

HostOf(r) == CHOOSE h \in Host : r \in h

\* A call fails: one more fault.
InfoFault(kind) ==
    /\ kind \in InfoFaults /\ infoFaults < MaxInfoFaults
    /\ infoFaults' = infoFaults + 1

Fine == UNCHANGED infoFaults

-----------------------------------------------------------------------------
(* UserInfoCache *)

\* Mutant: the generation stays, so that a late fill is not fenced.
InvalidateNoFence == entry' = Absent /\ UNCHANGED gen

\* kInvalidateLua: the generation moves on and the entry goes.
Invalidate == entry' = Absent /\ gen' = gen + 1

\* kSetIfGenerationLua: the entry is written unless the generation has moved.
SetIfGeneration(v, g) ==
    /\ entry' = IF gen = g THEN v ELSE entry
    /\ UNCHANGED gen

\* The time to live of an entry ends.
EntryExpire ==
    /\ entry # Absent
    /\ entry' = Absent
    /\ UNCHANGED <<db, gen, l1, readers, edit, settled, infoFaults>>

-----------------------------------------------------------------------------
(* resolve_user_info *)

\* A call ends and releases the mutex.
Leave(r) ==
    /\ stage' = [stage EXCEPT ![r] = "idle"]
    /\ obs' = [obs EXCEPT ![r] = Absent]
    /\ info' = [info EXCEPT ![r] = Absent]
    /\ floor' = [floor EXCEPT ![r] = 0]

Move(r, step) == stage' = [stage EXCEPT ![r] = step]

\* A call begins and finds nothing in L1.  One that finds an entry returns it.
Resolve(r) ==
    /\ stage[r] = "idle"
    /\ l1[HostOf(r)] = Absent
    /\ Move(r, "lock")
    /\ floor' = [floor EXCEPT ![r] = settled]
    /\ UNCHANGED <<db, redis, l1, obs, info, edit, settled, infoFaults>>

\* The mutex of the user in this process is free.  L1 is read again under it;
\* only the holder of the mutex fills L1, so both are one step.
Lock(r) ==
    /\ stage[r] = "lock"
    /\ \A q \in HostOf(r) : stage[q] \notin Locked
    /\ \/ /\ l1[HostOf(r)] # Absent
          /\ Leave(r)
       \/ /\ l1[HostOf(r)] = Absent
          /\ Move(r, "get")
          /\ UNCHANGED <<obs, info, floor>>
    /\ UNCHANGED <<db, redis, l1, edit, settled, infoFaults>>

\* UserInfoCache::get.  A failing call is an absent entry, and the sentinel
\* ends the call without a profile.
Get(r) ==
    /\ stage[r] = "get"
    /\ \/ /\ (entry = Absent /\ Fine) \/ InfoFault("redis")
          /\ Move(r, "generation")
          /\ UNCHANGED <<obs, info, floor>>
       \/ /\ entry = Gone /\ Fine
          /\ Leave(r)
       \/ /\ entry \in Row /\ Fine
          /\ info' = [info EXCEPT ![r] = entry]
          /\ Move(r, "publish")
          /\ UNCHANGED <<obs, floor>>
    /\ UNCHANGED <<db, redis, l1, edit, settled>>

\* UserInfoCache::generation, before the row is read.
Generation(r) ==
    /\ stage[r] = "generation"
    /\ \/ Fine /\ obs' = [obs EXCEPT ![r] = gen]
       \/ InfoFault("redis") /\ UNCHANGED obs
    /\ Move(r, "fetch")
    /\ UNCHANGED <<db, redis, l1, info, floor, edit, settled>>

\* fetch_user_info_from_identity_ and GetProfile.  select_by_id answers a
\* failing database like a missing row, which GetProfile reports as "not found".
Fetch(r) ==
    /\ stage[r] = "fetch"
    /\ \/ /\ Fine
          /\ info' = [info EXCEPT ![r] = db]
          /\ Move(r, IF obs[r] = Absent THEN "publish" ELSE "fill")
          /\ UNCHANGED <<obs, floor>>
       \/ /\ obs[r] # Absent /\ InfoFault("db")
          /\ info' = [info EXCEPT ![r] = Gone]
          /\ Move(r, "fill")
          /\ UNCHANGED <<obs, floor>>
       \/ /\ InfoFault("rpc") \/ (obs[r] = Absent /\ InfoFault("db"))
          /\ Leave(r)
    /\ UNCHANGED <<db, redis, l1, edit, settled>>

\* A profile goes on to L1; the sentinel ends the call.
Keep(r) ==
    IF info[r] = Gone THEN Leave(r) ELSE Move(r, "publish") /\ UNCHANGED <<obs, info, floor>>

\* set_if_generation and publish_user_info_l1.  A conflict keeps the answer from
\* L1; a failing call, done or not, does not.
Fill(r) ==
    /\ stage[r] = "fill"
    /\ \/ /\ Fine
          /\ SetIfGeneration(info[r], obs[r])
          /\ IF gen = obs[r] THEN Keep(r) ELSE Leave(r)
       \/ /\ InfoFault("redis")
          /\ SetIfGeneration(info[r], obs[r]) \/ UNCHANGED redis
          /\ Keep(r)
    /\ UNCHANGED <<db, l1, edit, settled>>

\* The profile is put into L1 and returned.
Publish(r) ==
    /\ stage[r] = "publish"
    /\ l1' = [l1 EXCEPT ![HostOf(r)] = info[r]]
    /\ Leave(r)
    /\ UNCHANGED <<db, redis, edit, settled, infoFaults>>

\* The time to live of an entry of L1 ends.
LocalExpire(h) ==
    /\ l1[h] # Absent
    /\ l1' = [l1 EXCEPT ![h] = Absent]
    /\ UNCHANGED <<db, redis, readers, edit, settled, infoFaults>>

-----------------------------------------------------------------------------
(* UpdateProfile *)

\* The row is read and the request applied to the copy.
BeginUpdate(e) ==
    /\ edit[e] = "idle"
    /\ db + Cardinality({x \in Editor : edit[x] \in {"pre", "commit"}}) < MaxRow
    /\ edit' = [edit EXCEPT ![e] = "pre"]
    /\ UNCHANGED <<db, redis, l1, readers, settled, infoFaults>>

\* The first invalidation; its result is not looked at.
PreInvalidate(e) ==
    /\ edit[e] = "pre"
    /\ \/ Fine /\ Invalidate
       \/ InfoFault("redis") /\ (Invalidate \/ UNCHANGED redis)
    /\ edit' = [edit EXCEPT ![e] = "commit"]
    /\ UNCHANGED <<db, l1, readers, settled>>

\* UserTable::update.  When it fails, with or without a commit, the request ends
\* and the second invalidation is left out.
Commit(e) ==
    /\ edit[e] = "commit"
    /\ \/ /\ Fine
          /\ db' = db + 1
          /\ edit' = [edit EXCEPT ![e] = "post"]
       \/ /\ InfoFault("db")
          /\ db' \in {db, db + 1}
          /\ edit' = [edit EXCEPT ![e] = "idle"]
    /\ UNCHANGED <<redis, l1, readers, settled>>

\* The second invalidation.
PostInvalidate(e) ==
    /\ edit[e] = "post"
    /\ \/ Fine /\ Invalidate /\ settled' = db
       \/ InfoFault("redis") /\ (Invalidate \/ UNCHANGED redis) /\ UNCHANGED settled
    /\ edit' = [edit EXCEPT ![e] = "idle"]
    /\ UNCHANGED <<db, l1, readers>>

-----------------------------------------------------------------------------
\* The process of Transmite ends, with its L1 and its calls.
HostCrash(h) ==
    /\ InfoFault("crash")
    /\ l1' = [l1 EXCEPT ![h] = Absent]
    /\ stage' = [r \in Reader |-> IF r \in h THEN "idle" ELSE stage[r]]
    /\ obs' = [r \in Reader |-> IF r \in h THEN Absent ELSE obs[r]]
    /\ info' = [r \in Reader |-> IF r \in h THEN Absent ELSE info[r]]
    /\ floor' = [r \in Reader |-> IF r \in h THEN 0 ELSE floor[r]]
    /\ UNCHANGED <<db, redis, edit, settled>>

\* The process of Identity ends in the middle of an update.
EditorCrash(e) ==
    /\ edit[e] # "idle"
    /\ InfoFault("crash")
    /\ edit' = [edit EXCEPT ![e] = "idle"]
    /\ UNCHANGED <<db, redis, l1, readers, settled>>

InfoNext ==
    \/ \E r \in Reader :
           Resolve(r) \/ Lock(r) \/ Get(r) \/ Generation(r) \/ Fetch(r) \/ Fill(r) \/ Publish(r)
    \/ \E e \in Editor :
           BeginUpdate(e) \/ PreInvalidate(e) \/ Commit(e) \/ PostInvalidate(e) \/ EditorCrash(e)
    \/ \E h \in Host : LocalExpire(h) \/ HostCrash(h)
    \/ EntryExpire

InfoSpec == InfoInit /\ [][InfoNext]_infoVars

-----------------------------------------------------------------------------
\* No cached profile is behind an update that ended well: once UpdateProfile has
\* committed and its second invalidation was answered, neither Redis nor a call
\* of resolve_user_info that begins after it and gets past L1 has an older
\* profile.  Calls and updates overlap, and other updates may fail half way.
ProfileNotBehind ==
    /\ entry \in Row => entry >= settled
    /\ \A r \in Reader : info[r] \in Row => info[r] >= floor[r]
=============================================================================
