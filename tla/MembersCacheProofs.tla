------------------------- MODULE MembersCacheProofs -------------------------
(***************************************************************************)
(* Proofs about MembersCache for every number of users, writers, calls and *)
(* processes, and every number of faults.                                  *)
(*                                                                         *)
(* The invariant is about versions. Whatever a call or a handler holds was *)
(* read at some version; as long as that version is still the counter's,   *)
(* what it holds is a list the rows have had since the counter last moved. *)
(* So a conditional write that still matches writes a member of "held".    *)
(***************************************************************************)
EXTENDS MembersCache, TLAPS


\* The writers' steps keep the types of the cache variables.
LEMMA WriterCacheTypes ==
  ASSUME TypeOK, NEW w \in Writer, WriterStep(w)
  PROVE  CacheTypes'
<1>1. CASE \E S \in SUBSET User : CreateConversation(w, S)
  BY <1>1, ConstantsAssumption, Zenon DEF TypeOK, CreateConversation, Starts, CacheTypes, Version, dbVars, redis, local, handler, call, history
<1>2. CASE \E S \in SUBSET User : \E k \in {"add", "remove"} : StartLoop(w, k, S)
  BY <1>2, ConstantsAssumption, SMTT(30) DEF TypeOK, StartLoop, Starts, CacheTypes, Version, dbVars, redis, local, handler, call, history
<1>3. CASE \E u \in User : AddOne(w, u)
  BY <1>3, ConstantsAssumption, SMTT(30) DEF TypeOK, AddOne, Commit, Fault, CacheTypes, Version, dbVars, redis, local, handler, call, history
<1>4. CASE \E u \in User : RemoveOne(w, u)
  BY <1>4, ConstantsAssumption, SMTT(30) DEF TypeOK, RemoveOne, Commit, Fault, CacheTypes, Version, dbVars, redis, local, handler, call, history
<1>5. CASE \E u \in User : QuitConversation(w, u)
  BY <1>5, ConstantsAssumption, SMTT(30) DEF TypeOK, QuitConversation, Starts, Commit, CacheTypes, Version, dbVars, redis, local, handler, call, history
<1>6. CASE InsertMembers(w)
  <2>1. CASE Commit(w, todo[w])
    <3>1. todo[w] \in SUBSET User
      BY Zenon DEF TypeOK, ControlTypes
    <3> QED BY <1>6, <2>1, <3>1, Zenon DEF TypeOK, InsertMembers, Commit, CacheTypes, dbVars, redis, local, handler, call, history
  <2>2. CASE UNCHANGED <<db, held, window>>
    BY <1>6, <2>2, Zenon DEF TypeOK, InsertMembers, CacheTypes, dbVars, redis, local, handler, call, history
  <2> QED BY <1>6, <2>1, <2>2, Zenon DEF InsertMembers
<1>7. CASE EndLoop(w)
  BY <1>7, ConstantsAssumption, Zenon DEF TypeOK, EndLoop, CacheTypes, Version, dbVars, redis, local, handler, call, history
<1>8. CASE DismissConversation(w)
  BY <1>8, ConstantsAssumption, Zenon DEF TypeOK, DismissConversation, Starts, CacheTypes, Version, dbVars, redis, local, handler, call, history
<1>9. CASE Invalidate(w)
  <2>1. CASE InvalidateLua
    <3>1. ver' \in Nat /\ l2' \in SUBSET User /\ held' \in SUBSET SUBSET User
      BY <2>1, SMTT(30) DEF TypeOK, CacheTypes, InvalidateLua
    <3>2. sentinel' \in BOOLEAN
      BY <2>1, Zenon DEF InvalidateLua
    <3>3. UNCHANGED <<exists, db, local, seen, list, obs, handler, window>>
      BY <1>9, Zenon DEF Invalidate, call
    <3> QED BY <3>1, <3>2, <3>3, Zenon DEF TypeOK, CacheTypes, local, handler
  <2>2. CASE UNCHANGED <<redis, held>>
    BY <1>9, <2>2, Zenon DEF TypeOK, Invalidate, CacheTypes, dbVars, redis, local, handler, call, history
  <2> QED BY <1>9, <2>1, <2>2, Zenon DEF Invalidate
<1> QED BY <1>1, <1>2, <1>3, <1>4, <1>5, <1>6, <1>7, <1>8, <1>9, Zenon DEF WriterStep

\* The calls' steps keep the types of the cache variables.
LEMMA CallCacheTypes ==
  ASSUME TypeOK, NEW p \in Call, Begin(p) \/ CallStep(p)
  PROVE  CacheTypes'
<1>1. CASE Begin(p)
  BY <1>1, ConstantsAssumption, Zenon DEF TypeOK, Begin, Goto, CacheTypes, Version, dbVars, redis, local, handler, call, history
<1>2. CASE ReadLocal(p)
  BY <1>2, ConstantsAssumption, SMTT(30) DEF TypeOK, ReadLocal, Goto, AfterLocal, CacheTypes, Version, dbVars, redis, local, handler, call, history
<1>3. CASE Compare(p)
  BY <1>3, ConstantsAssumption, SMTT(30) DEF TypeOK, Compare, Goto, AfterLocal, ReadVersion, Fault, L1Matches, SameVersion, Return, Release, DropLocal, CacheTypes, Version, dbVars, redis, local, handler, call, history
<1>4. CASE Lock(p)
  BY <1>4, ConstantsAssumption, Zenon DEF TypeOK, Lock, Goto, CacheTypes, Version, dbVars, redis, local, handler, call, history
<1>5. CASE SnapBefore(p)
  BY <1>5, ConstantsAssumption, SMTT(30) DEF TypeOK, SnapBefore, Goto, ReadVersion, Fault, CacheTypes, Version, dbVars, redis, local, handler, call, history
<1>6. CASE SnapMembers(p)
  BY <1>6, ConstantsAssumption, Zenon DEF TypeOK, SnapMembers, Goto, Fault, GiveUp, Return, Release, CacheTypes, Version, dbVars, redis, local, handler, call, history
<1>7. CASE SnapAfter(p)
  BY <1>7, ConstantsAssumption, Zenon DEF TypeOK, SnapAfter, Goto, ReadVersion, Fault, SameVersion, GiveUp, Return, Release, CacheTypes, Version, dbVars, redis, local, handler, call, history
<1>8. CASE IsSentinel(p)
  BY <1>8, ConstantsAssumption, Zenon DEF TypeOK, IsSentinel, Goto, Fault, CacheTypes, Version, dbVars, redis, local, handler, call, history
<1>9. CASE Confirm(p)
  BY <1>9, ConstantsAssumption, SMTT(30) DEF TypeOK, Confirm, Goto, ReadVersion, Fault, Release, CacheTypes, Version, dbVars, redis, local, handler, call, history
<1>10. CASE Keep(p)
  BY <1>10, ConstantsAssumption, Zenon DEF TypeOK, Keep, Goto, SetLocal, Return, Release, CacheTypes, Version, dbVars, redis, local, handler, call, history
<1>11. CASE TryLock(p)
  BY <1>11, ConstantsAssumption, Zenon DEF TypeOK, TryLock, Goto, GiveUp, Return, Release, CacheTypes, Version, dbVars, redis, local, handler, call, history
<1>12. CASE Observe(p)
  BY <1>12, ConstantsAssumption, SMTT(30) DEF TypeOK, Observe, Goto, ReadVersion, Fault, CacheTypes, Version, dbVars, redis, local, handler, call, history
<1>13. CASE RpcFails(p)
  BY <1>13, ConstantsAssumption, Zenon DEF TypeOK, RpcFails, Goto, Fault, CacheTypes, Version, dbVars, redis, local, handler, call, history
<1>14. CASE Warm(p)
  BY <1>14, ConstantsAssumption, Zenon DEF TypeOK, Warm, Goto, WarmIfVersion, WarmLua, SameVersion, Fault, CacheTypes, Version, dbVars, redis, local, handler, call, history
<1>15. CASE StoreLocal(p)
  BY <1>15, ConstantsAssumption, Zenon DEF TypeOK, StoreLocal, Goto, SetLocal, CacheTypes, Version, dbVars, redis, local, handler, call, history
<1>16. CASE Unlock(p)
  BY <1>16, ConstantsAssumption, Zenon DEF TypeOK, Unlock, Return, Release, Goto, Fault, CacheTypes, Version, dbVars, redis, local, handler, call, history
<1> QED BY <1>1, <1>2, <1>3, <1>4, <1>5, <1>6, <1>7, <1>8, <1>9, <1>10, <1>11, <1>12, <1>13, <1>14, <1>15, <1>16, Zenon DEF CallStep

\* The handlers' steps keep the types of the cache variables.
LEMMA HandlerCacheTypes ==
  ASSUME TypeOK, NEW p \in Call, HandlerStep(p)
  PROVE  CacheTypes'
<1>1. CASE HSnapBefore(p)
  BY <1>1, ConstantsAssumption, SMTT(30) DEF TypeOK, HSnapBefore, HGoto, ReadVersion, Fault, CacheTypes, Version, dbVars, redis, local, handler, call, history
<1>2. CASE HSnapMembers(p)
  BY <1>2, ConstantsAssumption, Zenon DEF TypeOK, HSnapMembers, HGoto, Fault, CacheTypes, Version, dbVars, redis, local, handler, call, history
<1>3. CASE HSnapAfter(p)
  BY <1>3, ConstantsAssumption, Zenon DEF TypeOK, HSnapAfter, HGoto, ReadVersion, Fault, SameVersion, CacheTypes, Version, dbVars, redis, local, handler, call, history
<1>4. CASE HIsSentinel(p)
  BY <1>4, ConstantsAssumption, Zenon DEF TypeOK, HIsSentinel, HGoto, Fault, CacheTypes, Version, dbVars, redis, local, handler, call, history
<1>5. CASE HObserve(p)
  BY <1>5, ConstantsAssumption, SMTT(30) DEF TypeOK, HObserve, HGoto, ReadVersion, Fault, CacheTypes, Version, dbVars, redis, local, handler, call, history
<1>6. CASE HReadDb(p)
  <2>1. CASE UNCHANGED <<held, window>> /\ glist' = [glist EXCEPT ![p] = db]
    BY <1>6, <2>1, Zenon DEF TypeOK, HReadDb, CacheTypes, dbVars, redis, local, call
  <2>2. CASE /\ held' = held \cup {{}} /\ glist' = [glist EXCEPT ![p] = {}]
             /\ window' = [q \in Call |-> window[q] \cup {{}}]
    <3>1. held' \in SUBSET SUBSET User /\ window' \in [Call -> SUBSET SUBSET User]
      BY <2>2, Zenon DEF TypeOK, CacheTypes
    <3> QED BY <1>6, <2>2, <3>1, Zenon DEF TypeOK, HReadDb, CacheTypes, dbVars, redis, local, call
  <2> QED BY <1>6, <2>1, <2>2, Zenon DEF HReadDb
<1>7. CASE HWarm(p)
  BY <1>7, ConstantsAssumption, Zenon DEF TypeOK, HWarm, HGoto, WarmIfVersion, WarmLua, SameVersion, Fault, CacheTypes, Version, dbVars, redis, local, handler, call, history
<1>8. CASE HReply(p)
  BY <1>8, ConstantsAssumption, Zenon DEF TypeOK, HReply, HGoto, Goto, CacheTypes, Version, dbVars, redis, local, handler, call, history
<1> QED BY <1>1, <1>2, <1>3, <1>4, <1>5, <1>6, <1>7, <1>8, Zenon DEF HandlerStep

\* The writers' steps keep the types of the control variables.
LEMMA WriterControlTypes ==
  ASSUME TypeOK, NEW w \in Writer, WriterStep(w)
  PROVE  ControlTypes'
<1>1. CASE \E S \in SUBSET User : CreateConversation(w, S)
  BY <1>1, ConstantsAssumption, SMTT(30) DEF TypeOK, CreateConversation, Starts, ControlTypes, Job, Step, HStep, dbVars, redis, local, handler, call, history
<1>2. CASE \E S \in SUBSET User : \E k \in {"add", "remove"} : StartLoop(w, k, S)
  BY <1>2, ConstantsAssumption, SMTT(30) DEF TypeOK, StartLoop, Starts, ControlTypes, Job, Step, HStep, dbVars, redis, local, handler, call, history
<1>3. CASE \E u \in User : AddOne(w, u)
  BY <1>3, ConstantsAssumption, SMTT(30) DEF TypeOK, AddOne, Commit, Fault, ControlTypes, Job, Step, HStep, dbVars, redis, local, handler, call, history
<1>4. CASE \E u \in User : RemoveOne(w, u)
  <2> PICK u \in User : RemoveOne(w, u)
    BY <1>4, Zenon
  <2>1. missed' \in BOOLEAN
    BY Zenon DEF TypeOK, ControlTypes, RemoveOne
  <2>2. faults' \in Nat
    BY SMTT(30) DEF TypeOK, ControlTypes, RemoveOne, Fault
  <2>3. job' \in [Writer -> Job] /\ todo' \in [Writer -> SUBSET User]
    BY Zenon DEF TypeOK, ControlTypes, RemoveOne, Job
  <2>4. dirty' \in SUBSET Writer
    BY Zenon DEF TypeOK, ControlTypes, RemoveOne, Commit
  <2>5. UNCHANGED <<changes, closed, mutex, inflight, pc, gpc, sure, late>>
    BY Zenon DEF RemoveOne, call, handler
  <2> QED BY <2>1, <2>2, <2>3, <2>4, <2>5, Zenon DEF TypeOK, ControlTypes
<1>5. CASE \E u \in User : QuitConversation(w, u)
  BY <1>5, ConstantsAssumption, SMTT(30) DEF TypeOK, QuitConversation, Starts, Commit, ControlTypes, Job, Step, HStep, dbVars, redis, local, handler, call, history
<1>6. CASE InsertMembers(w)
  BY <1>6, ConstantsAssumption, SMTT(30) DEF TypeOK, InsertMembers, Commit, Fault, ControlTypes, Job, Step, HStep, dbVars, redis, local, handler, call, history
<1>7. CASE EndLoop(w)
  BY <1>7, ConstantsAssumption, Zenon DEF TypeOK, EndLoop, ControlTypes, Job, Step, HStep, dbVars, redis, local, handler, call, history
<1>8. CASE DismissConversation(w)
  BY <1>8, ConstantsAssumption, SMTT(30) DEF TypeOK, DismissConversation, Starts, ControlTypes, Job, Step, HStep, dbVars, redis, local, handler, call, history
<1>9. CASE Invalidate(w)
  <2>1. missed' \in BOOLEAN /\ closed' \in BOOLEAN
    BY <1>9, Zenon DEF TypeOK, ControlTypes, Invalidate, InvalidateLua
  <2>2. faults' \in Nat
    BY <1>9, SMTT(30) DEF TypeOK, ControlTypes, Invalidate, Fault
  <2>3. job' \in [Writer -> Job] /\ dirty' \in SUBSET Writer
    BY <1>9, Zenon DEF TypeOK, ControlTypes, Invalidate, Job
  <2>4. UNCHANGED <<todo, changes, mutex, inflight, pc, gpc, sure, late>>
    BY <1>9, Zenon DEF Invalidate, call, handler
  <2> QED BY <2>1, <2>2, <2>3, <2>4, Zenon DEF TypeOK, ControlTypes
<1> QED BY <1>1, <1>2, <1>3, <1>4, <1>5, <1>6, <1>7, <1>8, <1>9, Zenon DEF WriterStep

\* The calls' steps keep the types of the control variables.
LEMMA CallControlTypes ==
  ASSUME TypeOK, NEW p \in Call, Begin(p) \/ CallStep(p)
  PROVE  ControlTypes'
<1>1. CASE Begin(p)
  BY <1>1, ConstantsAssumption, Zenon DEF TypeOK, Begin, Goto, ControlTypes, Job, Step, HStep, dbVars, redis, local, handler, call, history
<1>2. CASE ReadLocal(p)
  BY <1>2, ConstantsAssumption, SMTT(30) DEF TypeOK, ReadLocal, Goto, AfterLocal, ControlTypes, Job, Step, HStep, dbVars, redis, local, handler, call, history
<1>3. CASE Compare(p)
  BY <1>3, ConstantsAssumption, SMTT(30) DEF TypeOK, Compare, Goto, AfterLocal, ReadVersion, Fault, L1Matches, SameVersion, Return, Release, DropLocal, ControlTypes, Job, Step, HStep, dbVars, redis, local, handler, call, history
<1>4. CASE Lock(p)
  BY <1>4, ConstantsAssumption, Zenon DEF TypeOK, Lock, Goto, ControlTypes, Job, Step, HStep, dbVars, redis, local, handler, call, history
<1>5. CASE SnapBefore(p)
  BY <1>5, ConstantsAssumption, SMTT(30) DEF TypeOK, SnapBefore, Goto, ReadVersion, Fault, ControlTypes, Job, Step, HStep, dbVars, redis, local, handler, call, history
<1>6. CASE SnapMembers(p)
  BY <1>6, ConstantsAssumption, SMTT(30) DEF TypeOK, SnapMembers, Goto, Fault, GiveUp, Return, Release, ControlTypes, Job, Step, HStep, dbVars, redis, local, handler, call, history
<1>7. CASE SnapAfter(p)
  BY <1>7, ConstantsAssumption, SMTT(30) DEF TypeOK, SnapAfter, Goto, ReadVersion, Fault, SameVersion, GiveUp, Return, Release, ControlTypes, Job, Step, HStep, dbVars, redis, local, handler, call, history
<1>8. CASE IsSentinel(p)
  BY <1>8, ConstantsAssumption, SMTT(30) DEF TypeOK, IsSentinel, Goto, Fault, ControlTypes, Job, Step, HStep, dbVars, redis, local, handler, call, history
<1>9. CASE Confirm(p)
  <2>1. inflight' \in [Inst -> Call \cup {None}]
    BY <1>9, ConstantsAssumption, Zenon DEF TypeOK, ControlTypes, Confirm, Release
  <2> QED BY <1>9, <2>1, SMTT(30) DEF TypeOK, ControlTypes, Confirm, Goto, Step, ReadVersion, Fault, dbVars, handler, history
<1>10. CASE Keep(p)
  BY <1>10, ConstantsAssumption, Zenon DEF TypeOK, Keep, Goto, SetLocal, Return, Release, ControlTypes, Job, Step, HStep, dbVars, redis, local, handler, call, history
<1>11. CASE TryLock(p)
  BY <1>11, ConstantsAssumption, SMTT(30) DEF TypeOK, TryLock, Goto, GiveUp, Return, Release, ControlTypes, Job, Step, HStep, dbVars, redis, local, handler, call, history
<1>12. CASE Observe(p)
  BY <1>12, ConstantsAssumption, SMTT(30) DEF TypeOK, Observe, Goto, ReadVersion, Fault, ControlTypes, Job, Step, HStep, dbVars, redis, local, handler, call, history
<1>13. CASE RpcFails(p)
  BY <1>13, ConstantsAssumption, SMTT(30) DEF TypeOK, RpcFails, Goto, Fault, ControlTypes, Job, Step, HStep, dbVars, redis, local, handler, call, history
<1>14. CASE Warm(p)
  BY <1>14, ConstantsAssumption, SMTT(30) DEF TypeOK, Warm, Goto, WarmIfVersion, WarmLua, SameVersion, Fault, ControlTypes, Job, Step, HStep, dbVars, redis, local, handler, call, history
<1>15. CASE StoreLocal(p)
  BY <1>15, ConstantsAssumption, Zenon DEF TypeOK, StoreLocal, Goto, SetLocal, ControlTypes, Job, Step, HStep, dbVars, redis, local, handler, call, history
<1>16. CASE Unlock(p)
  <2>1. inflight' \in [Inst -> Call \cup {None}]
    BY <1>16, ConstantsAssumption, Zenon DEF TypeOK, ControlTypes, Unlock, Return, Release
  <2>2. mutex' \in Call \cup {None} /\ faults' \in Nat
    BY <1>16, SMTT(30) DEF TypeOK, ControlTypes, Unlock, Fault
  <2> QED BY <1>16, <2>1, <2>2, Zenon DEF TypeOK, ControlTypes, Unlock, Return, Goto, Step, dbVars, handler, history
<1> QED BY <1>1, <1>2, <1>3, <1>4, <1>5, <1>6, <1>7, <1>8, <1>9, <1>10, <1>11, <1>12, <1>13, <1>14, <1>15, <1>16, Zenon DEF CallStep

\* The handlers' steps keep the types of the control variables.
LEMMA HandlerControlTypes ==
  ASSUME TypeOK, NEW p \in Call, HandlerStep(p)
  PROVE  ControlTypes'
<1>1. CASE HSnapBefore(p)
  BY <1>1, ConstantsAssumption, SMTT(30) DEF TypeOK, HSnapBefore, HGoto, ReadVersion, Fault, ControlTypes, Job, Step, HStep, dbVars, redis, local, handler, call, history
<1>2. CASE HSnapMembers(p)
  BY <1>2, ConstantsAssumption, SMTT(30) DEF TypeOK, HSnapMembers, HGoto, Fault, ControlTypes, Job, Step, HStep, dbVars, redis, local, handler, call, history
<1>3. CASE HSnapAfter(p)
  BY <1>3, ConstantsAssumption, SMTT(30) DEF TypeOK, HSnapAfter, HGoto, ReadVersion, Fault, SameVersion, ControlTypes, Job, Step, HStep, dbVars, redis, local, handler, call, history
<1>4. CASE HIsSentinel(p)
  BY <1>4, ConstantsAssumption, SMTT(30) DEF TypeOK, HIsSentinel, HGoto, Fault, ControlTypes, Job, Step, HStep, dbVars, redis, local, handler, call, history
<1>5. CASE HObserve(p)
  BY <1>5, ConstantsAssumption, SMTT(30) DEF TypeOK, HObserve, HGoto, ReadVersion, Fault, ControlTypes, Job, Step, HStep, dbVars, redis, local, handler, call, history
<1>6. CASE HReadDb(p)
  <2>1. missed' \in BOOLEAN
    BY <1>6, Zenon DEF TypeOK, ControlTypes, HReadDb
  <2>2. faults' \in Nat /\ gpc' \in [Call -> HStep]
    BY <1>6, SMTT(30) DEF TypeOK, ControlTypes, HReadDb, HGoto, HStep, Fault
  <2> QED BY <1>6, <2>1, <2>2, Zenon DEF TypeOK, ControlTypes, HReadDb, call
<1>7. CASE HWarm(p)
  BY <1>7, ConstantsAssumption, SMTT(30) DEF TypeOK, HWarm, HGoto, WarmIfVersion, WarmLua, SameVersion, Fault, ControlTypes, Job, Step, HStep, dbVars, redis, local, handler, call, history
<1>8. CASE HReply(p)
  BY <1>8, ConstantsAssumption, Zenon DEF TypeOK, HReply, HGoto, Goto, ControlTypes, Job, Step, HStep, dbVars, redis, local, handler, call, history
<1> QED BY <1>1, <1>2, <1>3, <1>4, <1>5, <1>6, <1>7, <1>8, Zenon DEF HandlerStep

\* Every step of Next keeps the types.
LEMMA TypeStep == TypeOK /\ [Next]_vars => TypeOK'
<1> SUFFICES ASSUME TypeOK, [Next]_vars PROVE TypeOK'
  OBVIOUS
<1>1. CASE \E w \in Writer : WriterStep(w)
  BY <1>1, WriterCacheTypes, WriterControlTypes, Zenon DEF TypeOK
<1>2. CASE \E p \in Call : Begin(p) \/ CallStep(p)
  BY <1>2, CallCacheTypes, CallControlTypes, Zenon DEF TypeOK
<1>3. CASE \E p \in Call : HandlerStep(p)
  BY <1>3, HandlerCacheTypes, HandlerControlTypes, Zenon DEF TypeOK
<1>4. CASE Expire
  BY <1>4, Zenon DEF TypeOK, CacheTypes, ControlTypes, Version, Expire, DropLocal, dbVars, call, handler, history, local
<1>5. CASE UNCHANGED vars
  BY <1>5, Zenon DEF TypeOK, CacheTypes, ControlTypes, vars, dbVars, redis, call, handler, history, local
<1> QED BY <1>1, <1>2, <1>3, <1>4, <1>5, Zenon DEF Next

\* Every variable has its type in every reachable state, for any number of
\* users, calls, processes and handlers of the conversation service.
THEOREM TypeCorrect == Spec => []TypeOK
<1>1. ASSUME Init PROVE CacheTypes
  <2>1. /\ exists \in BOOLEAN /\ db \in SUBSET User /\ l2 \in SUBSET User
        /\ sentinel \in BOOLEAN /\ ver \in Nat /\ held \in SUBSET SUBSET User
    BY <1>1, Zenon DEF Init
  <2>2. l1 \in [Inst -> SUBSET User] /\ l1ver \in [Inst -> Version]
    BY <1>1, Zenon DEF Init, Version
  <2>3. /\ seen \in [Call -> Version] /\ list \in [Call -> SUBSET User]
        /\ obs \in [Call -> Version]
    BY <1>1, Zenon DEF Init, Version
  <2>4. /\ gseen \in [Call -> Version] /\ glist \in [Call -> SUBSET User]
        /\ window \in [Call -> SUBSET SUBSET User]
    BY <1>1, Zenon DEF Init, Version
  <2> QED BY <2>1, <2>2, <2>3, <2>4, Zenon DEF CacheTypes
<1>2. ASSUME Init PROVE ControlTypes
  <2>1. job \in [Writer -> Job] /\ todo \in [Writer -> SUBSET User]
    BY <1>2, Zenon DEF Init, Job
  <2>2. pc \in [Call -> Step] /\ gpc \in [Call -> HStep]
    BY <1>2, Zenon DEF Init, Step, HStep
  <2>3. mutex \in Call \cup {None} /\ inflight \in [Inst -> Call \cup {None}]
    BY <1>2, Zenon DEF Init
  <2>4. closed \in BOOLEAN /\ missed \in BOOLEAN
    BY <1>2, Zenon DEF Init
  <2>5. changes \in Nat /\ faults \in Nat /\ sure \in SUBSET Call /\ late \in SUBSET Call /\ dirty \in SUBSET Writer
    BY <1>2, Zenon DEF Init
  <2> QED BY <2>1, <2>2, <2>3, <2>4, <2>5, Zenon DEF ControlTypes
<1>3. Init => TypeOK
  BY <1>1, <1>2, Zenon DEF TypeOK
<1> QED BY <1>3, TypeStep, PTL DEF Spec

-----------------------------------------------------------------------------
(* The caches *)

\* A version that is known is not ahead of the counter.
Behind(v) == v # Unknown => v <= ver

\* No stored version is ahead of the counter, so none matches it again after
\* an invalidation has moved it.
VersionsBehind ==
  /\ \A i \in Inst : Behind(l1ver[i])
  /\ \A p \in Call : Behind(seen[p]) /\ Behind(obs[p]) /\ Behind(gseen[p])

\* What a call holds under a version that is still current.
CallHolds(p) ==
  /\ pc[p] \in {"compare", "after", "keep"} /\ seen[p] = ver /\ list[p] # {}
       => list[p] \in held
  /\ pc[p] \in {"sentinel", "confirm"} => list[p] = {}
  /\ pc[p] \in {"warm", "store"} => list[p] # {}
  /\ pc[p] \in {"warm", "store"} /\ obs[p] = ver => list[p] \in held

\* What a handler holds, under its own version and under its caller's.
HandlerHolds(p) ==
  /\ gpc[p] = "after" /\ gseen[p] = ver /\ glist[p] # {} => glist[p] \in held
  /\ gpc[p] = "sentinel" => glist[p] = {}
  /\ gpc[p] = "warm" /\ gseen[p] = ver => glist[p] \in held
  /\ gpc[p] \in {"after", "warm", "reply"} /\ pc[p] = "rpc" /\ obs[p] = ver /\ glist[p] # {}
       => glist[p] \in held

\* What a call will answer was held during the call.
Answers(p) ==
  /\ pc[p] # "idle" => held \subseteq window[p]
  /\ pc[p] \in {"after", "keep", "warm", "store", "unlock", "done"} /\ list[p] # {}
       => list[p] \in window[p]
  /\ gpc[p] \in {"after", "warm", "reply"} /\ pc[p] = "rpc" /\ glist[p] # {}
       => glist[p] \in window[p]

\* When no invalidation is owed, only the present rows have been held.
Settled == dirty = {} /\ ~missed => held = {db}

CacheInv ==
  /\ db \in held /\ Settled
  /\ VersionsBehind
  /\ NoStaleWriteBack
  /\ \A p \in Call : CallHolds(p) /\ HandlerHolds(p) /\ Answers(p)

\* A step that leaves the rows, Redis, L1, the calls and the handlers alone,
\* and forgives no owed invalidation, keeps the invariant.
LEMMA QuietStep ==
  ASSUME CacheInv, UNCHANGED <<db, held, window, redis, local, call, handler>>,
         dirty' = {} /\ ~missed' => dirty = {} /\ ~missed
  PROVE  CacheInv'
<1>1. (db \in held)' /\ Settled'
  BY Zenon DEF CacheInv, Settled
<1>2. VersionsBehind' /\ NoStaleWriteBack'
  BY Zenon DEF CacheInv, VersionsBehind, Behind, NoStaleWriteBack, redis, local, call, handler
<1>3. ASSUME NEW p \in Call
      PROVE  CallHolds(p)' /\ HandlerHolds(p)' /\ Answers(p)'
  BY Zenon DEF CacheInv, CallHolds, HandlerHolds, Answers, redis, local, call, handler
<1> QED BY <1>1, <1>2, <1>3, Zenon DEF CacheInv

\* A committed change of the rows: everything that was held still is.
LEMMA CommitStep ==
  ASSUME CacheInv, TypeOK, NEW w \in Writer, NEW S \in SUBSET User, Commit(w, S),
         UNCHANGED <<missed, redis, local, call, handler>>
  PROVE  CacheInv'
<1>1. held' = held \cup {S} /\ db' = S
  BY Zenon DEF Commit
<1>2. \A p \in Call : window'[p] = window[p] \cup {S}
  BY Zenon DEF Commit
<1>3. Settled'
  <2>1. CASE S = db
    BY <1>1, <2>1, Zenon DEF CacheInv, Settled, Commit
  <2>2. CASE S # db
    BY <2>2, Zenon DEF Commit, Settled
  <2> QED BY <2>1, <2>2, Zenon
<1>4. VersionsBehind' /\ NoStaleWriteBack'
  BY <1>1, Zenon DEF CacheInv, VersionsBehind, Behind, NoStaleWriteBack, redis, local, call, handler
<1>5. ASSUME NEW p \in Call
      PROVE  CallHolds(p)' /\ HandlerHolds(p)' /\ Answers(p)'
  BY <1>1, <1>2, Zenon DEF CacheInv, CallHolds, HandlerHolds, Answers, redis, local, call, handler
<1> QED BY <1>1, <1>3, <1>4, <1>5, Zenon DEF CacheInv

\* A successful invalidation: every version read before it is behind the
\* counter now, so nothing that was read before it matches any more.
LEMMA InvalidateStep ==
  ASSUME CacheInv, TypeOK, InvalidateLua, UNCHANGED <<db, window, local, call, handler>>
  PROVE  CacheInv'
<1>1. ver' = ver + 1 /\ ver \in Nat /\ held' = {db} /\ l2' = {} /\ sentinel' = FALSE
  BY Zenon DEF InvalidateLua, TypeOK, CacheTypes
<1>2. ASSUME NEW v \in Version, Behind(v)
      PROVE  Behind(v)' /\ v # ver'
  BY <1>1, <1>2, ConstantsAssumption, SMTT(30) DEF Behind, Version
<1>3. \A i \in Inst : l1ver[i] \in Version /\ Behind(l1ver[i])
  BY Zenon DEF CacheInv, VersionsBehind, TypeOK, CacheTypes
<1>4. \A p \in Call : /\ seen[p] \in Version /\ Behind(seen[p])
                      /\ obs[p] \in Version /\ Behind(obs[p])
                      /\ gseen[p] \in Version /\ Behind(gseen[p])
  BY Zenon DEF CacheInv, VersionsBehind, TypeOK, CacheTypes
<1>5. UNCHANGED <<db, window, l1, l1ver, pc, seen, list, obs, gpc, gseen, glist>>
  BY Zenon DEF local, call, handler
<1>6. \A i \in Inst : Behind(l1ver[i])' /\ l1ver'[i] # ver'
  BY <1>2, <1>3, <1>5, Zenon DEF Behind
<1>7. \A p \in Call : /\ Behind(seen[p])' /\ seen'[p] # ver'
                      /\ Behind(obs[p])' /\ obs'[p] # ver'
                      /\ Behind(gseen[p])' /\ gseen'[p] # ver'
  BY <1>2, <1>4, <1>5, Zenon DEF Behind
<1>8. (db \in held)' /\ Settled' /\ VersionsBehind'
  BY <1>1, <1>5, <1>6, <1>7, Zenon DEF Settled, VersionsBehind
<1>9. NoStaleWriteBack'
  BY <1>1, <1>6, Zenon DEF NoStaleWriteBack
<1>10. ASSUME NEW p \in Call
       PROVE  CallHolds(p)' /\ HandlerHolds(p)' /\ Answers(p)'
  <2>1. CallHolds(p) /\ HandlerHolds(p) /\ Answers(p) /\ db \in held
    BY Zenon DEF CacheInv
  <2>2. CallHolds(p)' /\ HandlerHolds(p)'
    BY <1>5, <1>7, <2>1, Zenon DEF CallHolds, HandlerHolds
  <2>3. Answers(p)'
    BY <1>1, <1>5, <2>1, Zenon DEF Answers
  <2> QED BY <2>2, <2>3, Zenon
<1> QED BY <1>8, <1>9, <1>10, Zenon DEF CacheInv

\* The steps of the mutating handlers keep the invariant.
LEMMA WriterInv ==
  ASSUME CacheInv, TypeOK, NEW w \in Writer, WriterStep(w)
  PROVE  CacheInv'
<1>1. CASE \E S \in SUBSET User : CreateConversation(w, S)
  BY <1>1, QuietStep, SMTT(30) DEF CreateConversation, history
<1>2. CASE \E S \in SUBSET User : \E k \in {"add", "remove"} : StartLoop(w, k, S)
  BY <1>2, QuietStep, SMTT(30) DEF StartLoop, history
<1>3. CASE \E u \in User : AddOne(w, u)
  <2> PICK u \in User : AddOne(w, u)
    BY <1>3, Zenon
  <2>1. CASE Commit(w, db \cup {u})
    <3>1. db \cup {u} \in SUBSET User
      BY Zenon DEF TypeOK, CacheTypes
    <3> QED BY <2>1, <3>1, CommitStep, Zenon DEF AddOne
  <2>2. CASE UNCHANGED <<db, dirty, held, window>>
    BY <2>2, QuietStep, Zenon DEF AddOne
  <2> QED BY <2>1, <2>2, Zenon DEF AddOne
<1>4. CASE \E u \in User : RemoveOne(w, u)
  <2> PICK u \in User : RemoveOne(w, u)
    BY <1>4, Zenon
  <2>1. CASE u = Owner
    <3>1. dirty' = dirty \ {w} /\ missed' = (missed \/ w \in dirty)
      BY <2>1, Zenon DEF RemoveOne
    <3>2. dirty' = {} /\ ~missed' => dirty = {} /\ ~missed
      BY <3>1, Zenon
    <3>3. UNCHANGED <<db, held, window, redis, local, call, handler>>
      BY <2>1, Zenon DEF RemoveOne
    <3> QED BY <3>2, <3>3, QuietStep, Zenon
  <2>2. CASE u # Owner /\ Commit(w, db \ {u})
    <3>1. db \ {u} \in SUBSET User
      BY Zenon DEF TypeOK, CacheTypes
    <3> QED BY <2>2, <3>1, CommitStep, Zenon DEF RemoveOne
  <2>3. CASE u # Owner /\ UNCHANGED <<db, dirty, held, window>>
    BY <2>3, QuietStep, Zenon DEF RemoveOne
  <2> QED BY <2>1, <2>2, <2>3, Zenon DEF RemoveOne
<1>5. CASE \E u \in User : QuitConversation(w, u)
  <2> PICK u \in User : QuitConversation(w, u)
    BY <1>5, Zenon
  <2>1. db \ {u} \in SUBSET User
    BY Zenon DEF TypeOK, CacheTypes
  <2> QED BY <2>1, CommitStep, Zenon DEF QuitConversation
<1>6. CASE InsertMembers(w)
  <2>1. CASE Commit(w, todo[w])
    <3>1. todo[w] \in SUBSET User
      BY Zenon DEF TypeOK, ControlTypes
    <3> QED BY <1>6, <2>1, <3>1, CommitStep, Zenon DEF InsertMembers
  <2>2. CASE UNCHANGED <<db, dirty, held, window>>
    BY <1>6, <2>2, QuietStep, Zenon DEF InsertMembers
  <2> QED BY <1>6, <2>1, <2>2, Zenon DEF InsertMembers
<1>7. CASE EndLoop(w)
  BY <1>7, QuietStep, Zenon DEF EndLoop, history
<1>8. CASE DismissConversation(w)
  BY <1>8, QuietStep, Zenon DEF DismissConversation, history
<1>9. CASE Invalidate(w)
  <2>1. CASE InvalidateLua
    BY <1>9, <2>1, InvalidateStep, Zenon DEF Invalidate
  <2>2. CASE missed' = (missed \/ w \in dirty) /\ UNCHANGED <<redis, held>>
    <3>1. dirty' = {} /\ ~missed' => dirty = {} /\ ~missed
      BY <1>9, <2>2, Zenon DEF Invalidate
    <3> QED BY <1>9, <2>2, <3>1, QuietStep, Zenon DEF Invalidate
  <2> QED BY <1>9, <2>1, <2>2, Zenon DEF Invalidate
<1> QED BY <1>1, <1>2, <1>3, <1>4, <1>5, <1>6, <1>7, <1>8, <1>9, Zenon DEF WriterStep

\* What the invariant says of one call and its handler.
Own(p) ==
  /\ Behind(seen[p]) /\ Behind(obs[p]) /\ Behind(gseen[p])
  /\ CallHolds(p) /\ HandlerHolds(p) /\ Answers(p)

\* What it says of Redis and L1.
Caches == (\A i \in Inst : Behind(l1ver[i])) /\ NoStaleWriteBack

\* The step changes nothing of the other calls.
OthersSame(p) ==
  \A q \in Call \ {p} :
    /\ pc'[q] = pc[q] /\ seen'[q] = seen[q] /\ list'[q] = list[q] /\ obs'[q] = obs[q]
    /\ gpc'[q] = gpc[q] /\ gseen'[q] = gseen[q] /\ glist'[q] = glist[q]
    /\ window'[q] = window[q]

\* A step of one call: it is enough to look at that call and at the caches.
LEMMA OneCallStep ==
  ASSUME CacheInv, NEW p \in Call, UNCHANGED <<db, held, ver, dirty, missed>>,
         OthersSame(p), Caches', Own(p)'
  PROVE  CacheInv'
<1>1. ASSUME NEW q \in Call PROVE Own(q)'
  <2>1. CASE q = p
    BY <2>1, Zenon
  <2>2. CASE q # p
    <3>1. Own(q)
      BY Zenon DEF CacheInv, VersionsBehind, Own
    <3>2. UNCHANGED <<pc[q], seen[q], list[q], obs[q], gpc[q], gseen[q], glist[q], window[q]>>
      BY <2>2, Zenon DEF OthersSame
    <3>3. (Behind(seen[q]) /\ Behind(obs[q]) /\ Behind(gseen[q]))'
      BY <3>1, <3>2, Zenon DEF Own, Behind
    <3>4. CallHolds(q)'
      BY <3>1, <3>2, Zenon DEF Own, CallHolds
    <3>5. HandlerHolds(q)'
      BY <3>1, <3>2, Zenon DEF Own, HandlerHolds
    <3>6. Answers(q)'
      BY <3>1, <3>2, Zenon DEF Own, Answers
    <3> QED BY <3>3, <3>4, <3>5, <3>6, Zenon DEF Own
  <2> QED BY <2>1, <2>2, Zenon
<1>2. (db \in held)' /\ Settled'
  BY Zenon DEF CacheInv, Settled
<1> QED BY <1>1, <1>2, Zenon DEF CacheInv, Own, Caches, VersionsBehind

\* The steps of resolve_members keep the invariant.
LEMMA CallInv ==
  ASSUME CacheInv, TypeOK, NEW p \in Call, Begin(p) \/ CallStep(p)
  PROVE  CacheInv'
<1>1. Own(p) /\ Caches
  BY Zenon DEF CacheInv, VersionsBehind, Own, Caches
<1>2. ver \in Nat /\ Unknown \notin Nat /\ ver <= ver
  BY ConstantsAssumption, SMTT(30) DEF TypeOK, CacheTypes
<1>3. CASE Begin(p)
  <2>1. UNCHANGED <<db, held, ver, dirty, missed>> /\ OthersSame(p)
    BY <1>3, Zenon DEF TypeOK, CacheTypes, ControlTypes, OthersSame, Begin, Goto, dbVars, redis, local, handler, call, history
  <2>2. Caches'
    BY <1>1, <1>3, Zenon DEF Caches, NoStaleWriteBack, Behind, Begin, Goto, dbVars, redis, local, handler, call, history
  <2>3. Own(p)'
    <3>1. /\ pc'[p] = "local" /\ list'[p] = {} /\ window'[p] = held /\ gpc[p] = "idle"
          /\ UNCHANGED <<seen[p], obs[p], gpc[p], gseen[p], glist[p]>>
      BY <1>3, <1>2, Zenon DEF TypeOK, CacheTypes, ControlTypes, Begin, Goto, dbVars, redis, local, handler, call, history
    <3>2. (Behind(seen[p]) /\ Behind(obs[p]) /\ Behind(gseen[p]))'
      BY <1>1, <1>2, <2>1, <3>1, Zenon DEF Own, Behind
    <3>3. CallHolds(p)'
      BY <1>1, <1>2, <2>1, <3>1, Zenon DEF Own, CallHolds
    <3>4. HandlerHolds(p)'
      BY <1>1, <1>2, <2>1, <3>1, Zenon DEF Own, HandlerHolds
    <3>5. Answers(p)'
      BY <1>1, <1>2, <2>1, <3>1, Zenon DEF Own, CallHolds, HandlerHolds, Answers
    <3> QED BY <3>2, <3>3, <3>4, <3>5, Zenon DEF Own
  <2> QED BY <2>1, <2>2, <2>3, OneCallStep, Zenon
<1>4. CASE ReadLocal(p)
  <2>1. UNCHANGED <<db, held, ver, dirty, missed>> /\ OthersSame(p)
    BY <1>4, Zenon DEF TypeOK, CacheTypes, ControlTypes, OthersSame, ReadLocal, Goto, AfterLocal, dbVars, redis, local, handler, call, history
  <2>2. Caches'
    BY <1>1, <1>4, Zenon DEF Caches, NoStaleWriteBack, Behind, ReadLocal, Goto, AfterLocal, dbVars, redis, local, handler, call, history
  <2>3. Own(p)'
    <3>1. /\ \/ pc'[p] \in {"before", "lock"} /\ UNCHANGED <<seen[p], list[p]>>
             \/ /\ pc'[p] = "compare" /\ InstOf[p] \in Inst
                /\ seen'[p] = l1ver[InstOf[p]] /\ list'[p] = l1[InstOf[p]]
          /\ pc[p] = "local" /\ UNCHANGED <<obs[p], gpc[p], gseen[p], glist[p], window[p]>>
      BY <1>4, <1>2, ConstantsAssumption, SMTT(30) DEF TypeOK, CacheTypes, ControlTypes, ReadLocal, Goto, AfterLocal, dbVars, redis, local, handler, call, history
    <3>2. (Behind(seen[p]) /\ Behind(obs[p]) /\ Behind(gseen[p]))'
      BY <1>1, <1>2, <2>1, <3>1, Zenon DEF Own, Behind, Caches
    <3>3. CallHolds(p)'
      BY <1>1, <1>2, <2>1, <3>1, Zenon DEF Own, CallHolds, Caches, NoStaleWriteBack
    <3>4. HandlerHolds(p)'
      BY <1>1, <1>2, <2>1, <3>1, Zenon DEF Own, HandlerHolds, Caches, NoStaleWriteBack
    <3>5. Answers(p)'
      BY <1>1, <1>2, <2>1, <3>1, Zenon DEF Own, CallHolds, HandlerHolds, Answers, Caches, NoStaleWriteBack
    <3> QED BY <3>2, <3>3, <3>4, <3>5, Zenon DEF Own
  <2> QED BY <2>1, <2>2, <2>3, OneCallStep, Zenon
<1>5. CASE Compare(p)
  <2>1. UNCHANGED <<db, held, ver, dirty, missed>> /\ OthersSame(p)
    BY <1>5, SMTT(30) DEF TypeOK, CacheTypes, ControlTypes, OthersSame, Compare, Goto, AfterLocal, ReadVersion, L1Matches, SameVersion, Return, DropLocal, dbVars, redis, local, handler, call, history
  <2>2. Caches'
    BY <1>1, <1>2, <1>5, Zenon DEF TypeOK, CacheTypes, Version, Caches, NoStaleWriteBack, Own, CallHolds, HandlerHolds, Behind, Compare, Goto, AfterLocal, ReadVersion, L1Matches, SameVersion, Return, DropLocal, dbVars, redis, local, handler, call, history
  <2>3. Own(p)'
    <3>1. /\ pc[p] = "compare" /\ seen'[p] = Unknown
          /\ \/ pc'[p] = "done" /\ obs'[p] = Unknown /\ list'[p] = list[p] /\ seen[p] = ver
             \/ pc'[p] \in {"before", "lock"} /\ obs'[p] = obs[p] /\ list'[p] = {}
          /\ UNCHANGED <<gpc[p], gseen[p], glist[p], window[p]>>
      BY <1>5, <1>2, SMTT(30) DEF TypeOK, CacheTypes, ControlTypes, Compare, Goto, AfterLocal, ReadVersion, L1Matches, SameVersion, Return, DropLocal, dbVars, redis, local, handler, call, history
    <3>2. (Behind(seen[p]) /\ Behind(obs[p]) /\ Behind(gseen[p]))'
      BY <1>1, <1>2, <2>1, <3>1, Zenon DEF Own, Behind
    <3>3. CallHolds(p)'
      BY <1>1, <1>2, <2>1, <3>1, Zenon DEF Own, CallHolds
    <3>4. HandlerHolds(p)'
      BY <1>1, <1>2, <2>1, <3>1, Zenon DEF Own, HandlerHolds
    <3>5. Answers(p)'
      BY <1>1, <1>2, <2>1, <3>1, Zenon DEF Own, CallHolds, HandlerHolds, Answers
    <3> QED BY <3>2, <3>3, <3>4, <3>5, Zenon DEF Own
  <2> QED BY <2>1, <2>2, <2>3, OneCallStep, Zenon
<1>6. CASE Lock(p)
  <2>1. UNCHANGED <<db, held, ver, dirty, missed>> /\ OthersSame(p)
    BY <1>6, Zenon DEF TypeOK, CacheTypes, ControlTypes, OthersSame, Lock, Goto, dbVars, redis, local, handler, call, history
  <2>2. Caches'
    BY <1>1, <1>6, Zenon DEF Caches, NoStaleWriteBack, Behind, Lock, Goto, dbVars, redis, local, handler, call, history
  <2>3. Own(p)'
    <3>1. /\ pc[p] = "lock" /\ pc'[p] = "local"
          /\ UNCHANGED <<seen[p], list[p], obs[p], gpc[p], gseen[p], glist[p], window[p]>>
      BY <1>6, <1>2, Zenon DEF TypeOK, CacheTypes, ControlTypes, Lock, Goto, dbVars, redis, local, handler, call, history
    <3>2. (Behind(seen[p]) /\ Behind(obs[p]) /\ Behind(gseen[p]))'
      BY <1>1, <1>2, <2>1, <3>1, Zenon DEF Own, Behind
    <3>3. CallHolds(p)'
      BY <1>1, <1>2, <2>1, <3>1, Zenon DEF Own, CallHolds
    <3>4. HandlerHolds(p)'
      BY <1>1, <1>2, <2>1, <3>1, Zenon DEF Own, HandlerHolds
    <3>5. Answers(p)'
      BY <1>1, <1>2, <2>1, <3>1, Zenon DEF Own, CallHolds, HandlerHolds, Answers
    <3> QED BY <3>2, <3>3, <3>4, <3>5, Zenon DEF Own
  <2> QED BY <2>1, <2>2, <2>3, OneCallStep, Zenon
<1>7. CASE SnapBefore(p)
  <2>1. UNCHANGED <<db, held, ver, dirty, missed>> /\ OthersSame(p)
    BY <1>7, Zenon DEF TypeOK, CacheTypes, ControlTypes, OthersSame, SnapBefore, Goto, ReadVersion, dbVars, redis, local, handler, call, history
  <2>2. Caches'
    BY <1>1, <1>7, Zenon DEF Caches, NoStaleWriteBack, Behind, SnapBefore, Goto, ReadVersion, dbVars, redis, local, handler, call, history
  <2>3. Own(p)'
    <3>1. /\ pc[p] = "before" /\ pc'[p] = "members" /\ seen'[p] \in {ver, Unknown}
          /\ UNCHANGED <<list[p], obs[p], gpc[p], gseen[p], glist[p], window[p]>>
      BY <1>7, <1>2, Zenon DEF TypeOK, CacheTypes, ControlTypes, SnapBefore, Goto, ReadVersion, dbVars, redis, local, handler, call, history
    <3>2. (Behind(seen[p]) /\ Behind(obs[p]) /\ Behind(gseen[p]))'
      BY <1>1, <1>2, <2>1, <3>1, Zenon DEF Own, Behind
    <3>3. CallHolds(p)'
      BY <1>1, <1>2, <2>1, <3>1, Zenon DEF Own, CallHolds
    <3>4. HandlerHolds(p)'
      BY <1>1, <1>2, <2>1, <3>1, Zenon DEF Own, HandlerHolds
    <3>5. Answers(p)'
      BY <1>1, <1>2, <2>1, <3>1, Zenon DEF Own, CallHolds, HandlerHolds, Answers
    <3> QED BY <3>2, <3>3, <3>4, <3>5, Zenon DEF Own
  <2> QED BY <2>1, <2>2, <2>3, OneCallStep, Zenon
<1>8. CASE SnapMembers(p)
  <2>1. UNCHANGED <<db, held, ver, dirty, missed>> /\ OthersSame(p)
    BY <1>8, Zenon DEF TypeOK, CacheTypes, ControlTypes, OthersSame, SnapMembers, Goto, GiveUp, Return, dbVars, redis, local, handler, call, history
  <2>2. Caches'
    BY <1>1, <1>8, Zenon DEF Caches, NoStaleWriteBack, Behind, SnapMembers, Goto, GiveUp, Return, dbVars, redis, local, handler, call, history
  <2>3. Own(p)'
    <3>1. /\ pc[p] = "members"
          /\ \/ pc'[p] = "after" /\ list'[p] = l2 /\ UNCHANGED <<seen[p], obs[p]>>
             \/ pc'[p] = "done" /\ list'[p] = {} /\ seen'[p] = Unknown /\ obs'[p] = Unknown
          /\ UNCHANGED <<gpc[p], gseen[p], glist[p], window[p]>>
      BY <1>8, <1>2, Zenon DEF TypeOK, CacheTypes, ControlTypes, SnapMembers, Goto, GiveUp, Return, dbVars, redis, local, handler, call, history
    <3>2. (Behind(seen[p]) /\ Behind(obs[p]) /\ Behind(gseen[p]))'
      BY <1>1, <1>2, <2>1, <3>1, Zenon DEF Own, Behind, Caches
    <3>3. CallHolds(p)'
      BY <1>1, <1>2, <2>1, <3>1, Zenon DEF Own, CallHolds, Caches, NoStaleWriteBack
    <3>4. HandlerHolds(p)'
      BY <1>1, <1>2, <2>1, <3>1, Zenon DEF Own, HandlerHolds, Caches, NoStaleWriteBack
    <3>5. Answers(p)'
      BY <1>1, <1>2, <2>1, <3>1, Zenon DEF Own, CallHolds, HandlerHolds, Answers, Caches, NoStaleWriteBack
    <3> QED BY <3>2, <3>3, <3>4, <3>5, Zenon DEF Own
  <2> QED BY <2>1, <2>2, <2>3, OneCallStep, Zenon
<1>9. CASE SnapAfter(p)
  <2>1. UNCHANGED <<db, held, ver, dirty, missed>> /\ OthersSame(p)
    BY <1>9, SMTT(30) DEF TypeOK, CacheTypes, ControlTypes, OthersSame, SnapAfter, Goto, ReadVersion, SameVersion, GiveUp, Return, dbVars, redis, local, handler, call, history
  <2>2. Caches'
    BY <1>1, <1>9, Zenon DEF Caches, NoStaleWriteBack, Behind, SnapAfter, Goto, ReadVersion, SameVersion, GiveUp, Return, dbVars, redis, local, handler, call, history
  <2>3. Own(p)'
    <3>1. /\ pc[p] = "after"
          /\ \/ pc'[p] = "done" /\ list'[p] = {} /\ seen'[p] = Unknown /\ obs'[p] = Unknown
             \/ pc'[p] = "keep" /\ UNCHANGED <<seen[p], list[p], obs[p]>>
             \/ pc'[p] = "sentinel" /\ list'[p] = {} /\ seen'[p] = Unknown /\ UNCHANGED obs[p]
          /\ UNCHANGED <<gpc[p], gseen[p], glist[p], window[p]>>
      BY <1>9, <1>2, Zenon DEF TypeOK, CacheTypes, ControlTypes, SnapAfter, Goto, ReadVersion, SameVersion, GiveUp, Return, dbVars, redis, local, handler, call, history
    <3>2. (Behind(seen[p]) /\ Behind(obs[p]) /\ Behind(gseen[p]))'
      BY <1>1, <1>2, <2>1, <3>1, Zenon DEF Own, Behind
    <3>3. CallHolds(p)'
      BY <1>1, <1>2, <2>1, <3>1, Zenon DEF Own, CallHolds
    <3>4. HandlerHolds(p)'
      BY <1>1, <1>2, <2>1, <3>1, Zenon DEF Own, HandlerHolds
    <3>5. Answers(p)'
      BY <1>1, <1>2, <2>1, <3>1, Zenon DEF Own, CallHolds, HandlerHolds, Answers
    <3> QED BY <3>2, <3>3, <3>4, <3>5, Zenon DEF Own
  <2> QED BY <2>1, <2>2, <2>3, OneCallStep, Zenon
<1>10. CASE IsSentinel(p)
  <2>1. UNCHANGED <<db, held, ver, dirty, missed>> /\ OthersSame(p)
    BY <1>10, Zenon DEF TypeOK, CacheTypes, ControlTypes, OthersSame, IsSentinel, Goto, dbVars, redis, local, handler, call, history
  <2>2. Caches'
    BY <1>1, <1>10, Zenon DEF Caches, NoStaleWriteBack, Behind, IsSentinel, Goto, dbVars, redis, local, handler, call, history
  <2>3. Own(p)'
    <3>1. /\ pc[p] = "sentinel" /\ pc'[p] \in {"confirm", "mutex"}
          /\ UNCHANGED <<seen[p], list[p], obs[p], gpc[p], gseen[p], glist[p], window[p]>>
      BY <1>10, <1>2, Zenon DEF TypeOK, CacheTypes, ControlTypes, IsSentinel, Goto, dbVars, redis, local, handler, call, history
    <3>2. (Behind(seen[p]) /\ Behind(obs[p]) /\ Behind(gseen[p]))'
      BY <1>1, <1>2, <2>1, <3>1, Zenon DEF Own, Behind
    <3>3. CallHolds(p)'
      BY <1>1, <1>2, <2>1, <3>1, Zenon DEF Own, CallHolds
    <3>4. HandlerHolds(p)'
      BY <1>1, <1>2, <2>1, <3>1, Zenon DEF Own, HandlerHolds
    <3>5. Answers(p)'
      BY <1>1, <1>2, <2>1, <3>1, Zenon DEF Own, CallHolds, HandlerHolds, Answers
    <3> QED BY <3>2, <3>3, <3>4, <3>5, Zenon DEF Own
  <2> QED BY <2>1, <2>2, <2>3, OneCallStep, Zenon
<1>11. CASE Confirm(p)
  <2>1. UNCHANGED <<db, held, ver, dirty, missed>> /\ OthersSame(p)
    BY <1>11, Zenon DEF TypeOK, CacheTypes, ControlTypes, OthersSame, Confirm, Goto, ReadVersion, dbVars, redis, local, handler, call, history
  <2>2. Caches'
    BY <1>1, <1>11, Zenon DEF Caches, NoStaleWriteBack, Behind, Confirm, Goto, ReadVersion, dbVars, redis, local, handler, call, history
  <2>3. Own(p)'
    <3>1. /\ pc[p] = "confirm" /\ pc'[p] = "keep" /\ seen'[p] \in {ver, Unknown}
          /\ UNCHANGED <<list[p], obs[p], gpc[p], gseen[p], glist[p], window[p]>>
      BY <1>11, <1>2, Zenon DEF TypeOK, CacheTypes, ControlTypes, Confirm, Goto, ReadVersion, dbVars, redis, local, handler, call, history
    <3>2. (Behind(seen[p]) /\ Behind(obs[p]) /\ Behind(gseen[p]))'
      BY <1>1, <1>2, <2>1, <3>1, Zenon DEF Own, Behind
    <3>3. CallHolds(p)'
      BY <1>1, <1>2, <2>1, <3>1, Zenon DEF Own, CallHolds
    <3>4. HandlerHolds(p)'
      BY <1>1, <1>2, <2>1, <3>1, Zenon DEF Own, HandlerHolds
    <3>5. Answers(p)'
      BY <1>1, <1>2, <2>1, <3>1, Zenon DEF Own, CallHolds, HandlerHolds, Answers
    <3> QED BY <3>2, <3>3, <3>4, <3>5, Zenon DEF Own
  <2> QED BY <2>1, <2>2, <2>3, OneCallStep, Zenon
<1>12. CASE Keep(p)
  <2>1. UNCHANGED <<db, held, ver, dirty, missed>> /\ OthersSame(p)
    BY <1>12, Zenon DEF TypeOK, CacheTypes, ControlTypes, OthersSame, Keep, Goto, SetLocal, Return, dbVars, redis, local, handler, call, history
  <2>2. Caches'
    BY <1>1, <1>2, <1>12, Zenon DEF TypeOK, CacheTypes, Version, Caches, NoStaleWriteBack, Own, CallHolds, HandlerHolds, Behind, Keep, Goto, SetLocal, Return, dbVars, redis, local, handler, call, history
  <2>3. Own(p)'
    <3>1. /\ pc[p] = "keep" /\ pc'[p] = "done" /\ seen'[p] = Unknown /\ obs'[p] = Unknown
          /\ UNCHANGED <<list[p], gpc[p], gseen[p], glist[p], window[p]>>
      BY <1>12, <1>2, Zenon DEF TypeOK, CacheTypes, ControlTypes, Keep, Goto, SetLocal, Return, dbVars, redis, local, handler, call, history
    <3>2. (Behind(seen[p]) /\ Behind(obs[p]) /\ Behind(gseen[p]))'
      BY <1>1, <1>2, <2>1, <3>1, Zenon DEF Own, Behind
    <3>3. CallHolds(p)'
      BY <1>1, <1>2, <2>1, <3>1, Zenon DEF Own, CallHolds
    <3>4. HandlerHolds(p)'
      BY <1>1, <1>2, <2>1, <3>1, Zenon DEF Own, HandlerHolds
    <3>5. Answers(p)'
      BY <1>1, <1>2, <2>1, <3>1, Zenon DEF Own, CallHolds, HandlerHolds, Answers
    <3> QED BY <3>2, <3>3, <3>4, <3>5, Zenon DEF Own
  <2> QED BY <2>1, <2>2, <2>3, OneCallStep, Zenon
<1>13. CASE TryLock(p)
  <2>1. UNCHANGED <<db, held, ver, dirty, missed>> /\ OthersSame(p)
    BY <1>13, Zenon DEF TypeOK, CacheTypes, ControlTypes, OthersSame, TryLock, Goto, GiveUp, Return, dbVars, redis, local, handler, call, history
  <2>2. Caches'
    BY <1>1, <1>13, Zenon DEF Caches, NoStaleWriteBack, Behind, TryLock, Goto, GiveUp, Return, dbVars, redis, local, handler, call, history
  <2>3. Own(p)'
    <3>1. /\ pc[p] = "mutex"
          /\ \/ pc'[p] = "observe" /\ UNCHANGED <<seen[p], list[p], obs[p]>>
             \/ pc'[p] = "done" /\ list'[p] = {} /\ seen'[p] = Unknown /\ obs'[p] = Unknown
          /\ UNCHANGED <<gpc[p], gseen[p], glist[p], window[p]>>
      BY <1>13, <1>2, Zenon DEF TypeOK, CacheTypes, ControlTypes, TryLock, Goto, GiveUp, Return, dbVars, redis, local, handler, call, history
    <3>2. (Behind(seen[p]) /\ Behind(obs[p]) /\ Behind(gseen[p]))'
      BY <1>1, <1>2, <2>1, <3>1, Zenon DEF Own, Behind
    <3>3. CallHolds(p)'
      BY <1>1, <1>2, <2>1, <3>1, Zenon DEF Own, CallHolds
    <3>4. HandlerHolds(p)'
      BY <1>1, <1>2, <2>1, <3>1, Zenon DEF Own, HandlerHolds
    <3>5. Answers(p)'
      BY <1>1, <1>2, <2>1, <3>1, Zenon DEF Own, CallHolds, HandlerHolds, Answers
    <3> QED BY <3>2, <3>3, <3>4, <3>5, Zenon DEF Own
  <2> QED BY <2>1, <2>2, <2>3, OneCallStep, Zenon
<1>14. CASE Observe(p)
  <2>1. UNCHANGED <<db, held, ver, dirty, missed>> /\ OthersSame(p)
    BY <1>14, Zenon DEF TypeOK, CacheTypes, ControlTypes, OthersSame, Observe, Goto, ReadVersion, dbVars, redis, local, handler, call, history
  <2>2. Caches'
    BY <1>1, <1>14, Zenon DEF Caches, NoStaleWriteBack, Behind, Observe, Goto, ReadVersion, dbVars, redis, local, handler, call, history
  <2>3. Own(p)'
    <3>1. /\ pc[p] = "observe" /\ pc'[p] = "rpc" /\ gpc'[p] = "before" /\ obs'[p] \in {ver, Unknown}
          /\ UNCHANGED <<seen[p], list[p], gseen[p], glist[p], window[p]>>
      BY <1>14, <1>2, Zenon DEF TypeOK, CacheTypes, ControlTypes, Observe, Goto, ReadVersion, dbVars, redis, local, handler, call, history
    <3>2. (Behind(seen[p]) /\ Behind(obs[p]) /\ Behind(gseen[p]))'
      BY <1>1, <1>2, <2>1, <3>1, Zenon DEF Own, Behind
    <3>3. CallHolds(p)'
      BY <1>1, <1>2, <2>1, <3>1, Zenon DEF Own, CallHolds
    <3>4. HandlerHolds(p)'
      BY <1>1, <1>2, <2>1, <3>1, Zenon DEF Own, HandlerHolds
    <3>5. Answers(p)'
      BY <1>1, <1>2, <2>1, <3>1, Zenon DEF Own, CallHolds, HandlerHolds, Answers
    <3> QED BY <3>2, <3>3, <3>4, <3>5, Zenon DEF Own
  <2> QED BY <2>1, <2>2, <2>3, OneCallStep, Zenon
<1>15. CASE RpcFails(p)
  <2>1. UNCHANGED <<db, held, ver, dirty, missed>> /\ OthersSame(p)
    BY <1>15, Zenon DEF TypeOK, CacheTypes, ControlTypes, OthersSame, RpcFails, Goto, dbVars, redis, local, handler, call, history
  <2>2. Caches'
    BY <1>1, <1>15, Zenon DEF Caches, NoStaleWriteBack, Behind, RpcFails, Goto, dbVars, redis, local, handler, call, history
  <2>3. Own(p)'
    <3>1. /\ pc[p] = "rpc" /\ pc'[p] = "unlock" /\ list'[p] = {}
          /\ UNCHANGED <<seen[p], obs[p], gpc[p], gseen[p], glist[p], window[p]>>
      BY <1>15, <1>2, Zenon DEF TypeOK, CacheTypes, ControlTypes, RpcFails, Goto, dbVars, redis, local, handler, call, history
    <3>2. (Behind(seen[p]) /\ Behind(obs[p]) /\ Behind(gseen[p]))'
      BY <1>1, <1>2, <2>1, <3>1, Zenon DEF Own, Behind
    <3>3. CallHolds(p)'
      BY <1>1, <1>2, <2>1, <3>1, Zenon DEF Own, CallHolds
    <3>4. HandlerHolds(p)'
      BY <1>1, <1>2, <2>1, <3>1, Zenon DEF Own, HandlerHolds
    <3>5. Answers(p)'
      BY <1>1, <1>2, <2>1, <3>1, Zenon DEF Own, CallHolds, HandlerHolds, Answers
    <3> QED BY <3>2, <3>3, <3>4, <3>5, Zenon DEF Own
  <2> QED BY <2>1, <2>2, <2>3, OneCallStep, Zenon
<1>16. CASE Warm(p)
  <2>1. UNCHANGED <<db, held, ver, dirty, missed>> /\ OthersSame(p)
    BY <1>16, Zenon DEF TypeOK, CacheTypes, ControlTypes, OthersSame, Warm, Goto, WarmIfVersion, WarmLua, SameVersion, dbVars, redis, local, handler, call, history
  <2>2. Caches'
    <3>1. CASE SameVersion(obs[p], ver) /\ WarmLua(list[p])
      <4>1. list[p] \in held /\ list[p] # {}
        BY <1>1, <1>16, <3>1, Zenon DEF Own, CallHolds, SameVersion, Warm
      <4> QED BY <1>1, <1>16, <2>1, <3>1, <4>1, Zenon DEF Caches, NoStaleWriteBack, Behind, WarmLua, Warm, local
    <3>2. CASE UNCHANGED redis
      BY <1>1, <1>16, <2>1, <3>2, Zenon DEF Caches, NoStaleWriteBack, Behind, Warm, redis, local
    <3> QED BY <1>16, <3>1, <3>2, Zenon DEF Warm, WarmIfVersion
  <2>3. Own(p)'
    <3>1. /\ pc[p] = "warm"
          /\ \/ pc'[p] = "store" /\ UNCHANGED list[p]
             \/ pc'[p] = "unlock" /\ list'[p] = {}
          /\ UNCHANGED <<seen[p], obs[p], gpc[p], gseen[p], glist[p], window[p]>>
      BY <1>16, <1>2, Zenon DEF TypeOK, CacheTypes, ControlTypes, Warm, Goto, WarmIfVersion, WarmLua, SameVersion, dbVars, redis, local, handler, call, history
    <3>2. (Behind(seen[p]) /\ Behind(obs[p]) /\ Behind(gseen[p]))'
      BY <1>1, <1>2, <2>1, <3>1, Zenon DEF Own, Behind
    <3>3. CallHolds(p)'
      BY <1>1, <1>2, <2>1, <3>1, Zenon DEF Own, CallHolds
    <3>4. HandlerHolds(p)'
      BY <1>1, <1>2, <2>1, <3>1, Zenon DEF Own, HandlerHolds
    <3>5. Answers(p)'
      BY <1>1, <1>2, <2>1, <3>1, Zenon DEF Own, CallHolds, HandlerHolds, Answers
    <3> QED BY <3>2, <3>3, <3>4, <3>5, Zenon DEF Own
  <2> QED BY <2>1, <2>2, <2>3, OneCallStep, Zenon
<1>17. CASE StoreLocal(p)
  <2>1. UNCHANGED <<db, held, ver, dirty, missed>> /\ OthersSame(p)
    BY <1>17, Zenon DEF TypeOK, CacheTypes, ControlTypes, OthersSame, StoreLocal, Goto, SetLocal, dbVars, redis, local, handler, call, history
  <2>2. Caches'
    BY <1>1, <1>2, <1>17, Zenon DEF TypeOK, CacheTypes, Version, Caches, NoStaleWriteBack, Own, CallHolds, HandlerHolds, Behind, StoreLocal, Goto, SetLocal, dbVars, redis, local, handler, call, history
  <2>3. Own(p)'
    <3>1. /\ pc[p] = "store" /\ pc'[p] = "unlock"
          /\ UNCHANGED <<seen[p], list[p], obs[p], gpc[p], gseen[p], glist[p], window[p]>>
      BY <1>17, <1>2, Zenon DEF TypeOK, CacheTypes, ControlTypes, StoreLocal, Goto, SetLocal, dbVars, redis, local, handler, call, history
    <3>2. (Behind(seen[p]) /\ Behind(obs[p]) /\ Behind(gseen[p]))'
      BY <1>1, <1>2, <2>1, <3>1, Zenon DEF Own, Behind
    <3>3. CallHolds(p)'
      BY <1>1, <1>2, <2>1, <3>1, Zenon DEF Own, CallHolds
    <3>4. HandlerHolds(p)'
      BY <1>1, <1>2, <2>1, <3>1, Zenon DEF Own, HandlerHolds
    <3>5. Answers(p)'
      BY <1>1, <1>2, <2>1, <3>1, Zenon DEF Own, CallHolds, HandlerHolds, Answers
    <3> QED BY <3>2, <3>3, <3>4, <3>5, Zenon DEF Own
  <2> QED BY <2>1, <2>2, <2>3, OneCallStep, Zenon
<1>18. CASE Unlock(p)
  <2>1. UNCHANGED <<db, held, ver, dirty, missed>> /\ OthersSame(p)
    BY <1>18, Zenon DEF TypeOK, CacheTypes, ControlTypes, OthersSame, Unlock, Return, Goto, dbVars, redis, local, handler, call, history
  <2>2. Caches'
    BY <1>1, <1>18, Zenon DEF Caches, NoStaleWriteBack, Behind, Unlock, Return, Goto, dbVars, redis, local, handler, call, history
  <2>3. Own(p)'
    <3>1. /\ pc[p] = "unlock" /\ pc'[p] = "done" /\ seen'[p] = Unknown /\ obs'[p] = Unknown
          /\ UNCHANGED <<list[p], gpc[p], gseen[p], glist[p], window[p]>>
      BY <1>18, <1>2, Zenon DEF TypeOK, CacheTypes, ControlTypes, Unlock, Return, Goto, dbVars, redis, local, handler, call, history
    <3>2. (Behind(seen[p]) /\ Behind(obs[p]) /\ Behind(gseen[p]))'
      BY <1>1, <1>2, <2>1, <3>1, Zenon DEF Own, Behind
    <3>3. CallHolds(p)'
      BY <1>1, <1>2, <2>1, <3>1, Zenon DEF Own, CallHolds
    <3>4. HandlerHolds(p)'
      BY <1>1, <1>2, <2>1, <3>1, Zenon DEF Own, HandlerHolds
    <3>5. Answers(p)'
      BY <1>1, <1>2, <2>1, <3>1, Zenon DEF Own, CallHolds, HandlerHolds, Answers
    <3> QED BY <3>2, <3>3, <3>4, <3>5, Zenon DEF Own
  <2> QED BY <2>1, <2>2, <2>3, OneCallStep, Zenon
<1> QED BY <1>3, <1>4, <1>5, <1>6, <1>7, <1>8, <1>9, <1>10, <1>11, <1>12, <1>13, <1>14, <1>15, <1>16, <1>17, <1>18, Zenon DEF CallStep

\* The steps of GetMemberIds, but for its database read, keep the invariant.
LEMMA HandlerInv ==
  ASSUME CacheInv, TypeOK, NEW p \in Call, HandlerStep(p), ~HReadDb(p)
  PROVE  CacheInv'
<1>1. Own(p) /\ Caches
  BY Zenon DEF CacheInv, VersionsBehind, Own, Caches
<1>2. ver \in Nat /\ Unknown \notin Nat /\ ver <= ver
  BY ConstantsAssumption, SMTT(30) DEF TypeOK, CacheTypes
<1>3. CASE HSnapBefore(p)
  <2>1. UNCHANGED <<db, held, ver, dirty, missed>> /\ OthersSame(p)
    BY <1>3, Zenon DEF TypeOK, CacheTypes, ControlTypes, OthersSame, HSnapBefore, HGoto, ReadVersion, dbVars, redis, local, handler, call, history
  <2>2. Caches'
    BY <1>1, <1>3, Zenon DEF Caches, NoStaleWriteBack, Behind, HSnapBefore, HGoto, ReadVersion, dbVars, redis, local, handler, call, history
  <2>3. Own(p)'
    <3>1. /\ gpc[p] = "before" /\ gpc'[p] = "members" /\ gseen'[p] \in {ver, Unknown}
          /\ UNCHANGED <<pc[p], seen[p], list[p], obs[p], glist[p], window[p]>>
      BY <1>3, <1>2, Zenon DEF TypeOK, CacheTypes, ControlTypes, HSnapBefore, HGoto, ReadVersion, dbVars, redis, local, handler, call, history
    <3>2. (Behind(seen[p]) /\ Behind(obs[p]) /\ Behind(gseen[p]))'
      BY <1>1, <1>2, <2>1, <3>1, Zenon DEF Own, Behind
    <3>3. CallHolds(p)'
      BY <1>1, <1>2, <2>1, <3>1, Zenon DEF Own, CallHolds
    <3>4. HandlerHolds(p)'
      BY <1>1, <1>2, <2>1, <3>1, Zenon DEF Own, HandlerHolds
    <3>5. Answers(p)'
      BY <1>1, <1>2, <2>1, <3>1, Zenon DEF Own, CallHolds, HandlerHolds, Answers
    <3> QED BY <3>2, <3>3, <3>4, <3>5, Zenon DEF Own
  <2> QED BY <2>1, <2>2, <2>3, OneCallStep, Zenon
<1>4. CASE HSnapMembers(p)
  <2>1. UNCHANGED <<db, held, ver, dirty, missed>> /\ OthersSame(p)
    BY <1>4, Zenon DEF TypeOK, CacheTypes, ControlTypes, OthersSame, HSnapMembers, HGoto, dbVars, redis, local, handler, call, history
  <2>2. Caches'
    BY <1>1, <1>4, Zenon DEF Caches, NoStaleWriteBack, Behind, HSnapMembers, HGoto, dbVars, redis, local, handler, call, history
  <2>3. Own(p)'
    <3>1. /\ gpc[p] = "members"
          /\ \/ gpc'[p] = "after" /\ glist'[p] = l2
             \/ gpc'[p] = "observe" /\ UNCHANGED glist[p]
          /\ UNCHANGED <<pc[p], seen[p], list[p], obs[p], gseen[p], window[p]>>
      BY <1>4, <1>2, Zenon DEF TypeOK, CacheTypes, ControlTypes, HSnapMembers, HGoto, dbVars, redis, local, handler, call, history
    <3>2. (Behind(seen[p]) /\ Behind(obs[p]) /\ Behind(gseen[p]))'
      BY <1>1, <1>2, <2>1, <3>1, Zenon DEF Own, Behind, Caches
    <3>3. CallHolds(p)'
      BY <1>1, <1>2, <2>1, <3>1, Zenon DEF Own, CallHolds, Caches, NoStaleWriteBack
    <3>4. HandlerHolds(p)'
      BY <1>1, <1>2, <2>1, <3>1, Zenon DEF Own, HandlerHolds, Caches, NoStaleWriteBack
    <3>5. Answers(p)'
      BY <1>1, <1>2, <2>1, <3>1, Zenon DEF Own, CallHolds, HandlerHolds, Answers, Caches, NoStaleWriteBack
    <3> QED BY <3>2, <3>3, <3>4, <3>5, Zenon DEF Own
  <2> QED BY <2>1, <2>2, <2>3, OneCallStep, Zenon
<1>5. CASE HSnapAfter(p)
  <2>1. UNCHANGED <<db, held, ver, dirty, missed>> /\ OthersSame(p)
    BY <1>5, Zenon DEF TypeOK, CacheTypes, ControlTypes, OthersSame, HSnapAfter, HGoto, ReadVersion, SameVersion, dbVars, redis, local, handler, call, history
  <2>2. Caches'
    BY <1>1, <1>5, Zenon DEF Caches, NoStaleWriteBack, Behind, HSnapAfter, HGoto, ReadVersion, SameVersion, dbVars, redis, local, handler, call, history
  <2>3. Own(p)'
    <3>1. /\ gpc[p] = "after"
          /\ \/ gpc'[p] \in {"observe", "reply"}
             \/ gpc'[p] = "sentinel" /\ glist[p] = {}
          /\ UNCHANGED <<pc[p], seen[p], list[p], obs[p], gseen[p], glist[p], window[p]>>
      BY <1>5, <1>2, Zenon DEF TypeOK, CacheTypes, ControlTypes, HSnapAfter, HGoto, ReadVersion, SameVersion, dbVars, redis, local, handler, call, history
    <3>2. (Behind(seen[p]) /\ Behind(obs[p]) /\ Behind(gseen[p]))'
      BY <1>1, <1>2, <2>1, <3>1, Zenon DEF Own, Behind
    <3>3. CallHolds(p)'
      BY <1>1, <1>2, <2>1, <3>1, Zenon DEF Own, CallHolds
    <3>4. HandlerHolds(p)'
      BY <1>1, <1>2, <2>1, <3>1, Zenon DEF Own, HandlerHolds
    <3>5. Answers(p)'
      BY <1>1, <1>2, <2>1, <3>1, Zenon DEF Own, CallHolds, HandlerHolds, Answers
    <3> QED BY <3>2, <3>3, <3>4, <3>5, Zenon DEF Own
  <2> QED BY <2>1, <2>2, <2>3, OneCallStep, Zenon
<1>6. CASE HIsSentinel(p)
  <2>1. UNCHANGED <<db, held, ver, dirty, missed>> /\ OthersSame(p)
    BY <1>6, Zenon DEF TypeOK, CacheTypes, ControlTypes, OthersSame, HIsSentinel, HGoto, dbVars, redis, local, handler, call, history
  <2>2. Caches'
    BY <1>1, <1>6, Zenon DEF Caches, NoStaleWriteBack, Behind, HIsSentinel, HGoto, dbVars, redis, local, handler, call, history
  <2>3. Own(p)'
    <3>1. /\ gpc[p] = "sentinel" /\ gpc'[p] \in {"reply", "observe"}
          /\ UNCHANGED <<pc[p], seen[p], list[p], obs[p], gseen[p], glist[p], window[p]>>
      BY <1>6, <1>2, Zenon DEF TypeOK, CacheTypes, ControlTypes, HIsSentinel, HGoto, dbVars, redis, local, handler, call, history
    <3>2. (Behind(seen[p]) /\ Behind(obs[p]) /\ Behind(gseen[p]))'
      BY <1>1, <1>2, <2>1, <3>1, Zenon DEF Own, Behind
    <3>3. CallHolds(p)'
      BY <1>1, <1>2, <2>1, <3>1, Zenon DEF Own, CallHolds
    <3>4. HandlerHolds(p)'
      BY <1>1, <1>2, <2>1, <3>1, Zenon DEF Own, HandlerHolds
    <3>5. Answers(p)'
      BY <1>1, <1>2, <2>1, <3>1, Zenon DEF Own, CallHolds, HandlerHolds, Answers
    <3> QED BY <3>2, <3>3, <3>4, <3>5, Zenon DEF Own
  <2> QED BY <2>1, <2>2, <2>3, OneCallStep, Zenon
<1>7. CASE HObserve(p)
  <2>1. UNCHANGED <<db, held, ver, dirty, missed>> /\ OthersSame(p)
    BY <1>7, Zenon DEF TypeOK, CacheTypes, ControlTypes, OthersSame, HObserve, HGoto, ReadVersion, dbVars, redis, local, handler, call, history
  <2>2. Caches'
    BY <1>1, <1>7, Zenon DEF Caches, NoStaleWriteBack, Behind, HObserve, HGoto, ReadVersion, dbVars, redis, local, handler, call, history
  <2>3. Own(p)'
    <3>1. /\ gpc[p] = "observe" /\ gpc'[p] = "db" /\ gseen'[p] \in {ver, Unknown}
          /\ UNCHANGED <<pc[p], seen[p], list[p], obs[p], glist[p], window[p]>>
      BY <1>7, <1>2, Zenon DEF TypeOK, CacheTypes, ControlTypes, HObserve, HGoto, ReadVersion, dbVars, redis, local, handler, call, history
    <3>2. (Behind(seen[p]) /\ Behind(obs[p]) /\ Behind(gseen[p]))'
      BY <1>1, <1>2, <2>1, <3>1, Zenon DEF Own, Behind
    <3>3. CallHolds(p)'
      BY <1>1, <1>2, <2>1, <3>1, Zenon DEF Own, CallHolds
    <3>4. HandlerHolds(p)'
      BY <1>1, <1>2, <2>1, <3>1, Zenon DEF Own, HandlerHolds
    <3>5. Answers(p)'
      BY <1>1, <1>2, <2>1, <3>1, Zenon DEF Own, CallHolds, HandlerHolds, Answers
    <3> QED BY <3>2, <3>3, <3>4, <3>5, Zenon DEF Own
  <2> QED BY <2>1, <2>2, <2>3, OneCallStep, Zenon
<1>8. CASE HWarm(p)
  <2>1. UNCHANGED <<db, held, ver, dirty, missed>> /\ OthersSame(p)
    BY <1>8, Zenon DEF TypeOK, CacheTypes, ControlTypes, OthersSame, HWarm, HGoto, WarmIfVersion, WarmLua, SameVersion, dbVars, redis, local, handler, call, history
  <2>2. Caches'
    <3>1. CASE SameVersion(gseen[p], ver) /\ WarmLua(glist[p])
      <4>1. glist[p] \in held
        BY <1>1, <1>8, <3>1, Zenon DEF Own, HandlerHolds, SameVersion, HWarm
      <4> QED BY <1>1, <1>8, <2>1, <3>1, <4>1, Zenon DEF Caches, NoStaleWriteBack, Behind, WarmLua, HWarm, local
    <3>2. CASE UNCHANGED redis
      BY <1>1, <1>8, <2>1, <3>2, Zenon DEF Caches, NoStaleWriteBack, Behind, HWarm, redis, local
    <3> QED BY <1>8, <3>1, <3>2, Zenon DEF HWarm, WarmIfVersion
  <2>3. Own(p)'
    <3>1. /\ gpc[p] = "warm" /\ gpc'[p] = "reply"
          /\ UNCHANGED <<pc[p], seen[p], list[p], obs[p], gseen[p], glist[p], window[p]>>
      BY <1>8, <1>2, Zenon DEF TypeOK, CacheTypes, ControlTypes, HWarm, HGoto, WarmIfVersion, WarmLua, SameVersion, dbVars, redis, local, handler, call, history
    <3>2. (Behind(seen[p]) /\ Behind(obs[p]) /\ Behind(gseen[p]))'
      BY <1>1, <1>2, <2>1, <3>1, Zenon DEF Own, Behind
    <3>3. CallHolds(p)'
      BY <1>1, <1>2, <2>1, <3>1, Zenon DEF Own, CallHolds
    <3>4. HandlerHolds(p)'
      BY <1>1, <1>2, <2>1, <3>1, Zenon DEF Own, HandlerHolds
    <3>5. Answers(p)'
      BY <1>1, <1>2, <2>1, <3>1, Zenon DEF Own, CallHolds, HandlerHolds, Answers
    <3> QED BY <3>2, <3>3, <3>4, <3>5, Zenon DEF Own
  <2> QED BY <2>1, <2>2, <2>3, OneCallStep, Zenon
<1>9. CASE HReply(p)
  <2>1. UNCHANGED <<db, held, ver, dirty, missed>> /\ OthersSame(p)
    BY <1>9, Zenon DEF TypeOK, CacheTypes, ControlTypes, OthersSame, HReply, HGoto, Goto, dbVars, redis, local, handler, call, history
  <2>2. Caches'
    BY <1>1, <1>9, Zenon DEF Caches, NoStaleWriteBack, Behind, HReply, HGoto, Goto, dbVars, redis, local, handler, call, history
  <2>3. Own(p)'
    <3>1. /\ gpc[p] = "reply" /\ gpc'[p] = "idle" /\ gseen'[p] = Unknown /\ glist'[p] = {}
          /\ \/ pc[p] # "rpc" /\ UNCHANGED <<pc[p], list[p]>>
             \/ pc[p] = "rpc" /\ pc'[p] = "warm" /\ list'[p] = glist[p] /\ glist[p] # {}
             \/ pc[p] = "rpc" /\ pc'[p] = "unlock" /\ list'[p] = {}
          /\ UNCHANGED <<seen[p], obs[p], window[p]>>
      BY <1>9, <1>2, Zenon DEF TypeOK, CacheTypes, ControlTypes, HReply, HGoto, Goto, dbVars, redis, local, handler, call, history
    <3>2. (Behind(seen[p]) /\ Behind(obs[p]) /\ Behind(gseen[p]))'
      BY <1>1, <1>2, <2>1, <3>1, Zenon DEF Own, Behind
    <3>3. CallHolds(p)'
      BY <1>1, <1>2, <2>1, <3>1, Zenon DEF Own, CallHolds, HandlerHolds
    <3>4. HandlerHolds(p)'
      BY <1>1, <1>2, <2>1, <3>1, Zenon DEF Own, HandlerHolds
    <3>5. Answers(p)'
      BY <1>1, <1>2, <2>1, <3>1, Zenon DEF Own, CallHolds, HandlerHolds, Answers
    <3> QED BY <3>2, <3>3, <3>4, <3>5, Zenon DEF Own
  <2> QED BY <2>1, <2>2, <2>3, OneCallStep, Zenon
<1> QED BY <1>3, <1>4, <1>5, <1>6, <1>7, <1>8, <1>9, Zenon DEF HandlerStep

\* The handler's database read. A swallowed database error counts as a list
\* that was held, and as an invalidation that is owed.
LEMMA ReadDbInv ==
  ASSUME CacheInv, TypeOK, NEW p \in Call, HReadDb(p)
  PROVE  CacheInv'
<1>1. \A q \in Call : Own(q)
  BY Zenon DEF CacheInv, VersionsBehind, Own
<1>2. Caches /\ db \in held
  BY Zenon DEF CacheInv, VersionsBehind, Caches
<1>3. UNCHANGED <<db, dirty, redis, local, call, gseen>> /\ gpc' = [gpc EXCEPT ![p] = "warm"]
  BY Zenon DEF HReadDb, HGoto
<1>4. CASE glist' = [glist EXCEPT ![p] = db] /\ UNCHANGED <<missed, held, window>>
  <2>1. OthersSame(p)
    BY <1>3, <1>4, Zenon DEF TypeOK, CacheTypes, ControlTypes, OthersSame, call
  <2>2. Caches'
    BY <1>2, <1>3, <1>4, Zenon DEF Caches, NoStaleWriteBack, Behind, redis, local
  <2>3. Own(p)'
    <3>1. /\ pc[p] = pc'[p] /\ gpc'[p] = "warm" /\ glist'[p] = db
          /\ UNCHANGED <<seen[p], list[p], obs[p], gseen[p], window[p]>>
      BY <1>3, <1>4, Zenon DEF TypeOK, CacheTypes, ControlTypes, call
    <3>2. (Behind(seen[p]) /\ Behind(obs[p]) /\ Behind(gseen[p]))'
      BY <1>1, <1>2, <1>3, <1>4, <3>1, Zenon DEF Own, Behind, redis
    <3>3. CallHolds(p)'
      BY <1>1, <1>2, <1>3, <1>4, <3>1, Zenon DEF Own, CallHolds, redis
    <3>4. HandlerHolds(p)'
      <4>1. glist'[p] \in held'
        BY <1>2, <1>4, <3>1, SMTT(30)
      <4> QED
        BY <3>1, <4>1, Zenon DEF HandlerHolds
    <3>5. Answers(p)'
      BY <1>1, <1>2, <1>3, <1>4, <3>1, Zenon DEF Own, CallHolds, HandlerHolds, Answers, redis
    <3> QED BY <3>2, <3>3, <3>4, <3>5, Zenon DEF Own
  <2> QED BY <1>3, <1>4, <2>1, <2>2, <2>3, OneCallStep, Zenon DEF redis
<1>5. CASE /\ glist' = [glist EXCEPT ![p] = {}] /\ missed' = TRUE
           /\ held' = held \cup {{}}
           /\ window' = [q \in Call |-> window[q] \cup {{}}]
  <2>1. (db \in held)' /\ Settled'
    BY <1>2, <1>3, <1>5, Zenon DEF Settled
  <2>2. Caches'
    BY <1>2, <1>3, <1>5, Zenon DEF Caches, NoStaleWriteBack, Behind, redis, local
  <2>3. ASSUME NEW q \in Call PROVE Own(q)'
    <3>1. window'[q] = window[q] \cup {{}}
      BY <1>5, Zenon
    <3>2. CASE q = p
      BY <1>1, <1>3, <1>5, <3>1, <3>2, Zenon DEF TypeOK, CacheTypes, ControlTypes, Own, CallHolds, HandlerHolds, Answers, Behind, redis, call
    <3>3. CASE q # p
      BY <1>1, <1>3, <1>5, <3>1, <3>3, Zenon DEF TypeOK, CacheTypes, ControlTypes, Own, CallHolds, HandlerHolds, Answers, Behind, redis, call
    <3> QED BY <3>2, <3>3, Zenon
  <2> QED BY <2>1, <2>2, <2>3, Zenon DEF CacheInv, Own, Caches, VersionsBehind
<1> QED BY <1>4, <1>5, Zenon DEF HReadDb

\* A time to live that runs out only takes something away.
LEMMA ExpireInv == CacheInv /\ TypeOK /\ Expire => CacheInv'
<1> SUFFICES ASSUME CacheInv, TypeOK, Expire PROVE CacheInv'
  OBVIOUS
<1>1. UNCHANGED <<dbVars, ver, call, handler, history>>
  BY Zenon DEF Expire
<1>2. Caches
  BY Zenon DEF CacheInv, VersionsBehind, Caches
<1>3. /\ l2' = {} \/ l2' = l2
      /\ sentinel' = FALSE \/ sentinel' = sentinel
      /\ \A i \in Inst : l1ver'[i] = Unknown \/ (l1ver'[i] = l1ver[i] /\ l1'[i] = l1[i])
  BY Zenon DEF Expire, DropLocal, local, TypeOK, CacheTypes
<1>4. Caches'
  BY <1>1, <1>2, <1>3, ConstantsAssumption, SMTT(30) DEF Caches, NoStaleWriteBack, Behind, history, TypeOK, CacheTypes
<1>5. (db \in held)' /\ Settled'
  BY <1>1, Zenon DEF CacheInv, Settled, dbVars, history
<1>6. ASSUME NEW p \in Call
      PROVE  Own(p)'
  BY <1>1, Zenon DEF CacheInv, VersionsBehind, Own, Behind, CallHolds, HandlerHolds, Answers, call, handler, history
<1> QED BY <1>4, <1>5, <1>6, Zenon DEF CacheInv, Own, Caches, VersionsBehind

\* Every step keeps the invariant.
LEMMA CacheInvStep == CacheInv /\ TypeOK /\ [Next]_vars => CacheInv'
<1> SUFFICES ASSUME CacheInv, TypeOK, [Next]_vars PROVE CacheInv'
  OBVIOUS
<1>1. CASE \E w \in Writer : WriterStep(w)
  BY <1>1, WriterInv, Zenon
<1>2. CASE \E p \in Call : Begin(p) \/ CallStep(p)
  BY <1>2, CallInv, Zenon
<1>3. CASE \E p \in Call : HandlerStep(p)
  BY <1>3, HandlerInv, ReadDbInv, Zenon
<1>4. CASE Expire
  BY <1>4, ExpireInv, Zenon
<1>5. CASE UNCHANGED vars
  BY <1>5, QuietStep, Zenon DEF vars, dbVars, history
<1> QED BY <1>1, <1>2, <1>3, <1>4, <1>5, Zenon DEF Next

\* The inductive invariant holds in every reachable state.
THEOREM CacheInvariance == Spec => [](TypeOK /\ CacheInv)
<1>1. Init => CacheInv
  BY ConstantsAssumption, SMTT(30) DEF Init, CacheInv, Settled, VersionsBehind, Behind, NoStaleWriteBack,
     CallHolds, HandlerHolds, Answers
<1> QED BY <1>1, TypeCorrect, CacheInvStep, PTL DEF Spec

\* However many handlers of ConversationService and calls of Transmite
\* interleave, and whatever Redis, MySQL or RPC operation fails, no list read
\* before an invalidation is written back to Redis, or usable in L1, after it.
THEOREM StaleNeverWrittenBack == Spec => []NoStaleWriteBack
BY CacheInvariance, PTL DEF CacheInv

\* Once no invalidation is owed, Redis and every usable L1 list equal the rows.
THEOREM CachesSettle == Spec => []SettledIsExact
<1>1. CacheInv => SettledIsExact
  BY Zenon DEF CacheInv, Settled, NoStaleWriteBack, SettledIsExact
<1> QED BY <1>1, CacheInvariance, PTL

\* resolve_members never returns a list older than the last invalidation that
\* preceded the call.
THEOREM AnswersAreFresh == Spec => []AnswerFresh
<1>1. CacheInv => AnswerFresh
  BY Zenon DEF CacheInv, Answers, AnswerFresh
<1> QED BY <1>1, CacheInvariance, PTL
=============================================================================
