---------------------------- MODULE IdentityProofs ----------------------------
(***************************************************************************)
(* Proofs about what IdentityService keeps: Tokens, for any number of      *)
(* handlers, tokens and faults, and UserInfo, for any number of processes, *)
(* threads, updates and faults.                                            *)
(***************************************************************************)
EXTENDS Tokens, UserInfo, FiniteSetTheorems, TLAPS

-----------------------------------------------------------------------------
(***************************************************************************)
(* Profiles.  The argument is the fence.  The second invalidation of an    *)
(* update moves the generation in the step that settles it.  A call that   *)
(* has read the row before that observed an older generation, so its fill  *)
(* is refused; one that still matches has read a row that is not behind.   *)
(***************************************************************************)

\* What a reader holds: nothing until it has read, then what it may put into
\* Redis and into L1.
Holding ==
    \A r \in Reader :
        /\ stage[r] \in {"idle", "lock", "get", "generation", "fetch"} => info[r] = Absent
        /\ stage[r] = "fill" => info[r] \in Row \cup {Gone}
        /\ stage[r] = "publish" => info[r] \in Row

\* The updates that may yet commit.
Working == {e \in Editor : edit[e] \in {"pre", "commit"}}

\* There is room for their commits.
Room == db + Cardinality(Working) <= MaxRow

\* No row that is settled is ahead of the database, or behind Redis.
Settles ==
    /\ settled <= db
    /\ entry \in Row => settled <= entry

\* No observed generation is ahead; one that is still current was observed
\* before a read of the row that is not behind.
Fenced ==
    \A r \in Reader :
        /\ obs[r] \in Nat => obs[r] <= gen
        /\ stage[r] = "fill" /\ obs[r] = gen /\ info[r] \in Row => settled <= info[r]

\* What a call has read is not behind what was settled when it began.
Answers ==
    \A r \in Reader :
        /\ floor[r] <= settled
        /\ info[r] \in Row => floor[r] <= info[r]

InfoInv == InfoTypeOK /\ Holding /\ Room /\ Settles /\ Fenced /\ Answers

-----------------------------------------------------------------------------
\* A thread of Transmite runs in a process.
LEMMA HostOfReader == ASSUME NEW r \in Reader PROVE HostOf(r) \in Host
  BY Zenon DEF HostOf, Reader

\* An update more is at most one more that may commit.
LEMMA OneMore ==
    ASSUME NEW e \in Editor, Working' = Working \cup {e}
    PROVE  /\ Cardinality(Working) \in Nat /\ Cardinality(Working') \in Nat
           /\ Cardinality(Working') <= Cardinality(Working) + 1
<1>1. IsFiniteSet(Working)
  BY UserInfoAssumption, FS_Subset, Zenon DEF Working
<1>2. Cardinality(Working) \in Nat /\ Cardinality(Working \cup {e}) \in Nat
  BY <1>1, FS_CardinalityType, FS_AddElement, Zenon
<1>3. Cardinality(Working \cup {e}) = Cardinality(Working) \/ Cardinality(Working \cup {e}) = Cardinality(Working) + 1
  BY <1>1, FS_AddElement, Zenon
<1>4. Cardinality(Working') = Cardinality(Working \cup {e})
  BY Zenon
<1> QED
  BY <1>2, <1>3, <1>4, SMTT(30)

\* An update that has committed, failed or ended is one less, if it was one.
LEMMA OneLess ==
    ASSUME NEW e \in Editor, Working' = Working \ {e}
    PROVE  /\ Cardinality(Working) \in Nat /\ Cardinality(Working') \in Nat
           /\ Cardinality(Working') <= Cardinality(Working)
           /\ e \in Working => Cardinality(Working') <= Cardinality(Working) - 1
<1>1. IsFiniteSet(Working)
  BY UserInfoAssumption, FS_Subset, Zenon DEF Working
<1>2. Cardinality(Working) \in Nat /\ Cardinality(Working \ {e}) \in Nat
  BY <1>1, FS_CardinalityType, FS_RemoveElement, Zenon
<1>3. Cardinality(Working \ {e}) = IF e \in Working THEN Cardinality(Working) - 1 ELSE Cardinality(Working)
  BY <1>1, FS_RemoveElement, Zenon
<1>4. Cardinality(Working') = Cardinality(Working \ {e})
  BY Zenon
<1> QED
  BY <1>2, <1>3, <1>4, SMTT(30)

\* Room is a matter of the row and of the updates alone.
LEMMA RoomKept == ASSUME Room, UNCHANGED <<db, edit>> PROVE Room'
  BY Zenon DEF Room, Working

-----------------------------------------------------------------------------
\* A step of resolve_user_info keeps the invariant.
LEMMA ReaderKeeps ==
    ASSUME InfoInv, NEW r \in Reader,
           Resolve(r) \/ Lock(r) \/ Get(r) \/ Generation(r) \/ Fetch(r) \/ Fill(r) \/ Publish(r)
    PROVE  InfoInv'
<1> USE UserInfoAssumption DEF InfoInv, InfoTypeOK, Holding, Settles, Fenced, Answers, Locked, Row, Move, Leave,
            Fine, InfoFault, redis, readers
<1>1. UNCHANGED <<db, edit>>
  BY Zenon DEF Resolve, Lock, Get, Generation, Fetch, Fill, Publish
<1>2. Room'
  BY <1>1, RoomKept, Zenon
<1>3. HostOf(r) \in Host
  BY HostOfReader, Zenon
<1>4. CASE Resolve(r)
  BY <1>2, <1>4, SMTT(30) DEF Resolve
<1>5. CASE Lock(r)
  BY <1>2, <1>5, SMTT(30) DEF Lock
<1>6. CASE Get(r)
  BY <1>2, <1>6, SMTT(30) DEF Get
<1>7. CASE Generation(r)
  BY <1>2, <1>7, SMTT(30) DEF Generation
<1>8. CASE Fetch(r)
  BY <1>2, <1>8, SMTT(30) DEF Fetch
<1>9. CASE Fill(r)
  BY <1>2, <1>9, SMTT(30) DEF Fill, SetIfGeneration, Keep
<1>10. CASE Publish(r)
  BY <1>2, <1>3, <1>10, SMTT(30) DEF Publish
<1> QED
  BY <1>4, <1>5, <1>6, <1>7, <1>8, <1>9, <1>10, Zenon

\* A step of UpdateProfile keeps the invariant.
LEMMA EditorKeeps ==
    ASSUME InfoInv, NEW e \in Editor,
           BeginUpdate(e) \/ PreInvalidate(e) \/ Commit(e) \/ PostInvalidate(e) \/ EditorCrash(e)
    PROVE  InfoInv'
<1> USE UserInfoAssumption DEF InfoInv, InfoTypeOK, Holding, Settles, Fenced, Answers, Locked, Row,
            Fine, InfoFault, redis, readers
<1>1. CASE BeginUpdate(e)
  <2>1. Working' = Working \cup {e}
    BY <1>1, SMTT(30) DEF BeginUpdate, Working
  <2>2. /\ Cardinality(Working) \in Nat /\ Cardinality(Working') \in Nat
        /\ Cardinality(Working') <= Cardinality(Working) + 1
    BY <2>1, OneMore, Zenon
  <2>3. db + Cardinality(Working) < MaxRow /\ db' = db
    BY <1>1, Zenon DEF BeginUpdate, Working
  <2>4. Room'
    BY <2>2, <2>3, SMTT(30) DEF Room
  <2> QED
    BY <1>1, <2>4, SMTT(30) DEF BeginUpdate
<1>2. CASE PreInvalidate(e)
  <2>1. Working' = Working
    BY <1>2, SMTT(30) DEF PreInvalidate, Working
  <2>2. Room'
    BY <1>2, <2>1, Zenon DEF PreInvalidate, Room
  <2> QED
    BY <1>2, <2>2, SMTT(30) DEF PreInvalidate, Invalidate
<1>3. CASE Commit(e)
  <2>1. Working' = Working \ {e} /\ e \in Working
    BY <1>3, SMTT(30) DEF Commit, Working
  <2>2. /\ Cardinality(Working) \in Nat /\ Cardinality(Working') \in Nat
        /\ Cardinality(Working') <= Cardinality(Working) - 1
    BY <2>1, OneLess, Zenon
  <2>3. db' = db \/ db' = db + 1
    BY <1>3, Zenon DEF Commit
  <2>4. Room' /\ db' \in Row
    BY <2>2, <2>3, SMTT(30) DEF Room
  <2> QED
    BY <1>3, <2>4, SMTT(30) DEF Commit
<1>4. CASE PostInvalidate(e)
  <2>1. Working' = Working \ {e}
    BY <1>4, SMTT(30) DEF PostInvalidate, Working
  <2>2. /\ Cardinality(Working) \in Nat /\ Cardinality(Working') \in Nat
        /\ Cardinality(Working') <= Cardinality(Working)
    BY <2>1, OneLess, Zenon
  <2>3. db' = db
    BY <1>4, Zenon DEF PostInvalidate
  <2>4. Room'
    BY <2>2, <2>3, SMTT(30) DEF Room
  <2> QED
    BY <1>4, <2>4, SMTT(30) DEF PostInvalidate, Invalidate
<1>5. CASE EditorCrash(e)
  <2>1. Working' = Working \ {e}
    BY <1>5, SMTT(30) DEF EditorCrash, Working
  <2>2. /\ Cardinality(Working) \in Nat /\ Cardinality(Working') \in Nat
        /\ Cardinality(Working') <= Cardinality(Working)
    BY <2>1, OneLess, Zenon
  <2>3. db' = db
    BY <1>5, Zenon DEF EditorCrash
  <2>4. Room'
    BY <2>2, <2>3, SMTT(30) DEF Room
  <2> QED
    BY <1>5, <2>4, SMTT(30) DEF EditorCrash
<1> QED
  BY <1>1, <1>2, <1>3, <1>4, <1>5, Zenon

\* The end of a time to live, or of a process of Transmite, keeps the invariant.
LEMMA OthersKeep ==
    ASSUME InfoInv,
           EntryExpire \/ \E h \in Host : LocalExpire(h) \/ HostCrash(h)
    PROVE  InfoInv'
<1> USE UserInfoAssumption DEF InfoInv, InfoTypeOK, Holding, Settles, Fenced, Answers, Locked, Row,
            InfoFault, redis, readers
<1>1. UNCHANGED <<db, edit>>
  BY Zenon DEF EntryExpire, LocalExpire, HostCrash
<1>2. Room'
  BY <1>1, RoomKept, Zenon
<1>3. CASE EntryExpire
  BY <1>2, <1>3, SMTT(30) DEF EntryExpire
<1>4. CASE \E h \in Host : LocalExpire(h)
  BY <1>2, <1>4, SMTT(30) DEF LocalExpire
<1>5. CASE \E h \in Host : HostCrash(h)
  BY <1>2, <1>5, SMTT(30) DEF HostCrash
<1> QED
  BY <1>3, <1>4, <1>5, Zenon

\* The fence holds in every reachable state, with the types of the variables.
THEOREM InfoInvariance == InfoSpec => []InfoInv
<1>1. InfoInit => InfoInv
  <2> SUFFICES ASSUME InfoInit PROVE InfoInv
    OBVIOUS
  <2>1. Working = {}
    BY Zenon DEF InfoInit, Working
  <2>2. Room
    BY UserInfoAssumption, <2>1, FS_EmptySet, SMTT(30) DEF InfoInit, Room
  <2> QED
    BY UserInfoAssumption, <2>2, SMTT(30) DEF InfoInit, InfoInv, InfoTypeOK, Holding, Settles, Fenced, Answers, Locked, Row
<1>2. InfoInv /\ [InfoNext]_infoVars => InfoInv'
  <2>1. ASSUME InfoInv, UNCHANGED infoVars PROVE InfoInv'
    BY <2>1, Zenon DEF InfoInv, InfoTypeOK, Holding, Room, Working, Settles, Fenced, Answers, infoVars, redis, readers
  <2> QED
    BY <2>1, ReaderKeeps, EditorKeeps, OthersKeep, Zenon DEF InfoNext
<1> QED
  BY <1>1, <1>2, PTL DEF InfoSpec

\* However lookups, updates, faults and crashes overlap, no entry in Redis and
\* no answer from past L1 is behind an update of the profile that had ended well
\* (resolve_user_info, kSetIfGenerationLua, kInvalidateLua, UpdateProfile).
THEOREM ProfilesAreFresh == InfoSpec => [](InfoTypeOK /\ ProfileNotBehind)
<1>1. InfoInv => InfoTypeOK /\ ProfileNotBehind
  BY UserInfoAssumption, SMTT(30) DEF InfoInv, InfoTypeOK, Row, Settles, Answers, ProfileNotBehind
<1> QED
  BY <1>1, InfoInvariance, PTL

-----------------------------------------------------------------------------
(* Refresh tokens *)

\* A handler past its first read has the token it works on, and one that
\* signed a token has that.
Filled ==
    \A p \in Handler :
        /\ call[p] \in {"isRevoked", "getActive", "rotate", "put", "revokeOld", "revokeBad",
                      "revokeLogout"} => old[p] \in Tok
        /\ call[p] \in {"login", "put", "revokeOld", "reply"} => new[p] \in Tok

TypeInv == TokensTypeOK /\ Filled

\* A number that was not given out occurs nowhere, and no two handlers have
\* signed the same token.
Fresh ==
    /\ \A t \in Tok : t > signed =>
          /\ t \notin held /\ active # t /\ successor[t] = {}
          /\ \A p \in Handler : old[p] # t /\ new[p] # t
    /\ \A p, q \in Handler : p # q /\ new[p] # NoToken => new[p] # new[q]

\* A signed token that is not active yet is known to its handler only.
Unused ==
    \A p \in Handler : call[p] \in {"login", "put"} =>
        /\ new[p] \notin held /\ active # new[p] /\ successor[new[p]] = {}
        /\ \A q \in Handler : old[q] # new[p]

\* A handler about to replace t, whose rotation no fault disturbed, is the only
\* one: t has its chain entry and has not been exchanged.
Rotating ==
    \A p \in Handler : call[p] = "put" /\ old[p] \notin loose =>
        /\ old[p] \in chain /\ successor[old[p]] = {}
        /\ \A q \in Handler : call[q] = "put" /\ old[q] = old[p] => q = p

\* A token that was exchanged is never active again, and a handler that had
\* found it active before is stopped by the chain entry.
Exchanged ==
    \A t \in Tok \ loose : successor[t] # {} =>
        /\ active # t
        /\ \A p \in Handler : call[p] = "rotate" /\ old[p] = t => t \in chain

TokensInv == TypeInv /\ Fresh /\ Unused /\ Rotating /\ Exchanged /\ ExchangedOnce

\* Neither a number that was not given out nor a token that is still to be made
\* active is on the black list or has a chain entry.
Clean ==
    /\ \A t \in Tok : t > signed => t \notin revoked \cup chain
    /\ \A p \in Handler : call[p] \in {"login", "put"} => new[p] \notin revoked \cup chain

\* No handler but p is under way.
Solo(p) == \A q \in Handler : q # p => call[q] = "idle"

\* What the one handler under way means for the token that should work.
Serves(p) ==
    /\ call[p] = "login" => new[p] = session
    /\ call[p] \in {"isRevoked", "getActive", "rotate", "revokeOld", "reply", "revokeBad"} => Usable(session)
    /\ call[p] \in {"rotate", "put"} => old[p] = session
    /\ call[p] \in {"revokeOld", "revokeBad"} => old[p] # session
    /\ call[p] \notin {"logout", "revokeLogout"}

\* As long as something is known of the session, handlers have not overlapped,
\* or a session that has ended has met refreshes only.
Serial ==
    /\ session \in Tok => /\ Quiet => Usable(session)
                          /\ \A p \in Handler : call[p] # "idle" => Solo(p) /\ Serves(p)
    /\ session = Out => active = NoToken /\ OnlyRefreshes
    /\ session = Leaving => \E p \in Handler : Solo(p) /\ call[p] \in {"logout", "revokeLogout", "clear"}

\* The answer of a device without a token is not a token.
LEMMA NoTokenApart == NoToken \notin Tok
  BY TokensAssumption DEF Tok, NoToken

\* Tokens are numbers.
LEMMA TokensAreNumbers == Tok \subseteq Nat
  BY DEF Tok

\* The next number is a token.
LEMMA NextToken ==
    \A n \in 0..MaxTok : n < MaxTok => n + 1 \in Tok /\ n + 1 \in 0..MaxTok /\ n + 1 > n
  BY TokensAssumption DEF Tok, NoToken

\* One step keeps the types of the handlers.
LEMMA HandlerStep == TypeInv /\ [TokensNext]_tokenVars => (HandlerTypes /\ Filled)'
<1> SUFFICES ASSUME TypeInv, [TokensNext]_tokenVars
             PROVE  (HandlerTypes /\ Filled)'
  OBVIOUS
<1> USE NoTokenApart DEF Call, TokenFault, keys, ghosts,
           TypeInv, TokensTypeOK, StoreTypes, HandlerTypes, Filled, Step
<1>1. ASSUME NEW p \in Handler, LoginBegin(p)
      PROVE  (HandlerTypes /\ Filled)'
  BY <1>1, NextToken, SMTT(30) DEF LoginBegin, Quiet
<1>2. ASSUME NEW p \in Handler, LoginPut(p)
      PROVE  (HandlerTypes /\ Filled)'
  BY <1>2, SMTT(30) DEF LoginPut, Works, Fails
<1>3. ASSUME NEW p \in Handler, Reply(p)
      PROVE  (HandlerTypes /\ Filled)'
  BY <1>3, SMTT(30) DEF Reply, Finish
<1>4. ASSUME NEW p \in Handler, IsRevoked(p)
      PROVE  (HandlerTypes /\ Filled)'
  BY <1>4, SMTT(30) DEF IsRevoked, Works, Fails, Finish
<1>5. ASSUME NEW p \in Handler, GetActive(p)
      PROVE  (HandlerTypes /\ Filled)'
  BY <1>5, SMTT(30) DEF GetActive, Works, Fails
<1>6. ASSUME NEW p \in Handler, Rotate(p)
      PROVE  (HandlerTypes /\ Filled)'
  BY <1>6, NextToken, SMTT(30) DEF Rotate, Works, Fails
<1>7. ASSUME NEW p \in Handler, Put(p)
      PROVE  (HandlerTypes /\ Filled)'
  BY <1>7, SMTT(30) DEF Put, Fails
<1>8. ASSUME NEW p \in Handler, RevokeOld(p)
      PROVE  (HandlerTypes /\ Filled)'
  BY <1>8, SMTT(30) DEF RevokeOld, Works, Fails
<1>9. ASSUME NEW p \in Handler, RevokeBad(p)
      PROVE  (HandlerTypes /\ Filled)'
  BY <1>9, SMTT(30) DEF RevokeBad, Works, Fails
<1>10. ASSUME NEW p \in Handler, Clear(p)
       PROVE  (HandlerTypes /\ Filled)'
  BY <1>10, SMTT(30) DEF Clear, Ends, Fails, Finish
<1>11. ASSUME NEW p \in Handler, LogoutBegin(p)
       PROVE  (HandlerTypes /\ Filled)'
  BY <1>11, SMTT(30) DEF LogoutBegin, Quiet
<1>12. ASSUME NEW p \in Handler, LogoutGet(p)
       PROVE  (HandlerTypes /\ Filled)'
  BY <1>12, SMTT(30) DEF LogoutGet, Works, Fails, Ends, Finish
<1>13. ASSUME NEW p \in Handler, LogoutRevoke(p)
       PROVE  (HandlerTypes /\ Filled)'
  BY <1>13, SMTT(30) DEF LogoutRevoke, Works, Fails
<1>14. ASSUME NEW p \in Handler, IdentityCrash(p)
       PROVE  (HandlerTypes /\ Filled)'
  BY <1>14, SMTT(30) DEF IdentityCrash, Finish
<1>15. ASSUME NEW p \in Handler, NEW t \in Tok, RefreshBegin(p, t)
       PROVE  (HandlerTypes /\ Filled)'
  BY <1>15, SMTT(30) DEF RefreshBegin, Quiet, OnlyRefreshes
<1>16. ASSUME NEW t \in Tok, ChainExpire(t)
       PROVE  (HandlerTypes /\ Filled)'
  BY <1>16, SMTT(30) DEF ChainExpire
<1>17. CASE UNCHANGED tokenVars
  BY <1>17, SMTT(30) DEF tokenVars
<1> QED
  BY <1>1, <1>2, <1>3, <1>4, <1>5, <1>6, <1>7, <1>8, <1>9,
     <1>10, <1>11, <1>12, <1>13, <1>14, <1>15, <1>16, <1>17, Zenon DEF TokensNext

\* One step keeps the other types.
LEMMA StoreStep == TypeInv /\ [TokensNext]_tokenVars => StoreTypes'
<1> SUFFICES ASSUME TypeInv, [TokensNext]_tokenVars
             PROVE  StoreTypes'
  OBVIOUS
<1> USE NoTokenApart DEF Call, TokenFault, keys, ghosts,
           TypeInv, TokensTypeOK, StoreTypes, HandlerTypes, Filled
<1>1. ASSUME NEW p \in Handler, LoginBegin(p)
      PROVE  StoreTypes'
  BY <1>1, NextToken, SMTT(30) DEF LoginBegin, Quiet
<1>2. ASSUME NEW p \in Handler, LoginPut(p)
      PROVE  StoreTypes'
  BY <1>2, SMTT(30) DEF LoginPut, Works, Fails
<1>3. ASSUME NEW p \in Handler, Reply(p)
      PROVE  StoreTypes'
  BY <1>3, SMTT(30) DEF Reply, Finish
<1>4. ASSUME NEW p \in Handler, IsRevoked(p)
      PROVE  StoreTypes'
  BY <1>4, SMTT(30) DEF IsRevoked, Works, Fails, Finish
<1>5. ASSUME NEW p \in Handler, GetActive(p)
      PROVE  StoreTypes'
  BY <1>5, SMTT(30) DEF GetActive, Works, Fails
<1>6. ASSUME NEW p \in Handler, Rotate(p)
      PROVE  StoreTypes'
  BY <1>6, NextToken, SMTT(30) DEF Rotate, Works, Fails
<1>7. ASSUME NEW p \in Handler, Put(p)
      PROVE  StoreTypes'
  BY <1>7, SMTT(30) DEF Put, Fails
<1>8. ASSUME NEW p \in Handler, RevokeOld(p)
      PROVE  StoreTypes'
  BY <1>8, SMTT(30) DEF RevokeOld, Works, Fails
<1>9. ASSUME NEW p \in Handler, RevokeBad(p)
      PROVE  StoreTypes'
  BY <1>9, SMTT(30) DEF RevokeBad, Works, Fails
<1>10. ASSUME NEW p \in Handler, Clear(p)
       PROVE  StoreTypes'
  BY <1>10, SMTT(30) DEF Clear, Ends, Fails, Finish
<1>11. ASSUME NEW p \in Handler, LogoutBegin(p)
       PROVE  StoreTypes'
  BY <1>11, SMTT(30) DEF LogoutBegin, Quiet
<1>12. ASSUME NEW p \in Handler, LogoutGet(p)
       PROVE  StoreTypes'
  BY <1>12, SMTT(30) DEF LogoutGet, Works, Fails, Ends, Finish
<1>13. ASSUME NEW p \in Handler, LogoutRevoke(p)
       PROVE  StoreTypes'
  BY <1>13, SMTT(30) DEF LogoutRevoke, Works, Fails
<1>14. ASSUME NEW p \in Handler, IdentityCrash(p)
       PROVE  StoreTypes'
  BY <1>14, SMTT(30) DEF IdentityCrash, Finish
<1>15. ASSUME NEW p \in Handler, NEW t \in Tok, RefreshBegin(p, t)
       PROVE  StoreTypes'
  BY <1>15, SMTT(30) DEF RefreshBegin, Quiet, OnlyRefreshes
<1>16. ASSUME NEW t \in Tok, ChainExpire(t)
       PROVE  StoreTypes'
  BY <1>16, SMTT(30) DEF ChainExpire
<1>17. CASE UNCHANGED tokenVars
  BY <1>17, SMTT(30) DEF tokenVars
<1> QED
  BY <1>1, <1>2, <1>3, <1>4, <1>5, <1>6, <1>7, <1>8, <1>9,
     <1>10, <1>11, <1>12, <1>13, <1>14, <1>15, <1>16, <1>17, Zenon DEF TokensNext

\* One step gives out the next number.
LEMMA FreshStep == TypeInv /\ Fresh /\ [TokensNext]_tokenVars => Fresh'
<1> SUFFICES ASSUME TypeInv, Fresh, [TokensNext]_tokenVars
             PROVE  Fresh'
  OBVIOUS
<1> USE NoTokenApart DEF Call, TokenFault, keys, ghosts, TypeInv, TokensTypeOK, StoreTypes,
           HandlerTypes, Filled, Fresh
<1>1. ASSUME NEW p \in Handler, LoginBegin(p)
      PROVE  Fresh'
  BY <1>1, NextToken, TokensAreNumbers, SMTT(30) DEF LoginBegin, Quiet
<1>2. ASSUME NEW p \in Handler, LoginPut(p)
      PROVE  Fresh'
  BY <1>2, SMTT(30) DEF LoginPut, Works, Fails
<1>3. ASSUME NEW p \in Handler, Reply(p)
      PROVE  Fresh'
  BY <1>3, SMTT(30) DEF Reply, Finish
<1>4. ASSUME NEW p \in Handler, IsRevoked(p)
      PROVE  Fresh'
  BY <1>4, SMTT(30) DEF IsRevoked, Works, Fails, Finish
<1>5. ASSUME NEW p \in Handler, GetActive(p)
      PROVE  Fresh'
  BY <1>5, SMTT(30) DEF GetActive, Works, Fails
<1>6. ASSUME NEW p \in Handler, Rotate(p)
      PROVE  Fresh'
  BY <1>6, NextToken, TokensAreNumbers, SMTT(30) DEF Rotate, Works, Fails
<1>7. ASSUME NEW p \in Handler, Put(p)
      PROVE  Fresh'
  BY <1>7, SMTT(30) DEF Put, Fails
<1>8. ASSUME NEW p \in Handler, RevokeOld(p)
      PROVE  Fresh'
  BY <1>8, SMTT(30) DEF RevokeOld, Works, Fails
<1>9. ASSUME NEW p \in Handler, RevokeBad(p)
      PROVE  Fresh'
  BY <1>9, SMTT(30) DEF RevokeBad, Works, Fails
<1>10. ASSUME NEW p \in Handler, Clear(p)
       PROVE  Fresh'
  BY <1>10, SMTT(30) DEF Clear, Ends, Fails, Finish
<1>11. ASSUME NEW p \in Handler, LogoutBegin(p)
       PROVE  Fresh'
  BY <1>11, SMTT(30) DEF LogoutBegin, Quiet
<1>12. ASSUME NEW p \in Handler, LogoutGet(p)
       PROVE  Fresh'
  BY <1>12, SMTT(30) DEF LogoutGet, Works, Fails, Ends, Finish
<1>13. ASSUME NEW p \in Handler, LogoutRevoke(p)
       PROVE  Fresh'
  BY <1>13, SMTT(30) DEF LogoutRevoke, Works, Fails
<1>14. ASSUME NEW p \in Handler, IdentityCrash(p)
       PROVE  Fresh'
  BY <1>14, SMTT(30) DEF IdentityCrash, Finish
<1>15. ASSUME NEW p \in Handler, NEW t \in Tok, RefreshBegin(p, t)
       PROVE  Fresh'
  BY <1>15, SMTT(30) DEF RefreshBegin, Quiet, OnlyRefreshes
<1>16. ASSUME NEW t \in Tok, ChainExpire(t)
       PROVE  Fresh'
  BY <1>16, SMTT(30) DEF ChainExpire
<1>17. CASE UNCHANGED tokenVars
  BY <1>17, SMTT(30) DEF tokenVars
<1> QED
  BY <1>1, <1>2, <1>3, <1>4, <1>5, <1>6, <1>7, <1>8, <1>9,
     <1>10, <1>11, <1>12, <1>13, <1>14, <1>15, <1>16, <1>17, Zenon DEF TokensNext

\* One step shows a signed token to nobody else before it is active.
LEMMA UnusedStep == TypeInv /\ Fresh /\ Unused /\ [TokensNext]_tokenVars => Unused'
<1> SUFFICES ASSUME TypeInv, Fresh, Unused, [TokensNext]_tokenVars
             PROVE  Unused'
  OBVIOUS
<1> USE NoTokenApart DEF Call, TokenFault, keys, ghosts, TypeInv, TokensTypeOK, StoreTypes,
           HandlerTypes, Filled,
           Fresh, Unused
<1>1. ASSUME NEW p \in Handler, LoginBegin(p)
      PROVE  Unused'
  BY <1>1, NextToken, SMTT(30) DEF LoginBegin, Quiet
<1>2. ASSUME NEW p \in Handler, LoginPut(p)
      PROVE  Unused'
  BY <1>2, SMTT(30) DEF LoginPut, Works, Fails
<1>3. ASSUME NEW p \in Handler, Reply(p)
      PROVE  Unused'
  BY <1>3, SMTT(30) DEF Reply, Finish
<1>4. ASSUME NEW p \in Handler, IsRevoked(p)
      PROVE  Unused'
  BY <1>4, SMTT(30) DEF IsRevoked, Works, Fails, Finish
<1>5. ASSUME NEW p \in Handler, GetActive(p)
      PROVE  Unused'
  BY <1>5, SMTT(30) DEF GetActive, Works, Fails
<1>6. ASSUME NEW p \in Handler, Rotate(p)
      PROVE  Unused'
  BY <1>6, NextToken, SMTT(30) DEF Rotate, Works, Fails
<1>7. ASSUME NEW p \in Handler, Put(p)
      PROVE  Unused'
  BY <1>7, SMTT(30) DEF Put, Fails
<1>8. ASSUME NEW p \in Handler, RevokeOld(p)
      PROVE  Unused'
  BY <1>8, SMTT(30) DEF RevokeOld, Works, Fails
<1>9. ASSUME NEW p \in Handler, RevokeBad(p)
      PROVE  Unused'
  BY <1>9, SMTT(30) DEF RevokeBad, Works, Fails
<1>10. ASSUME NEW p \in Handler, Clear(p)
       PROVE  Unused'
  BY <1>10, SMTT(30) DEF Clear, Ends, Fails, Finish
<1>11. ASSUME NEW p \in Handler, LogoutBegin(p)
       PROVE  Unused'
  BY <1>11, SMTT(30) DEF LogoutBegin, Quiet
<1>12. ASSUME NEW p \in Handler, LogoutGet(p)
       PROVE  Unused'
  BY <1>12, SMTT(30) DEF LogoutGet, Works, Fails, Ends, Finish
<1>13. ASSUME NEW p \in Handler, LogoutRevoke(p)
       PROVE  Unused'
  BY <1>13, SMTT(30) DEF LogoutRevoke, Works, Fails
<1>14. ASSUME NEW p \in Handler, IdentityCrash(p)
       PROVE  Unused'
  BY <1>14, SMTT(30) DEF IdentityCrash, Finish
<1>15. ASSUME NEW p \in Handler, NEW t \in Tok, RefreshBegin(p, t)
       PROVE  Unused'
  BY <1>15, SMTT(30) DEF RefreshBegin, Quiet, OnlyRefreshes
<1>16. ASSUME NEW t \in Tok, ChainExpire(t)
       PROVE  Unused'
  BY <1>16, SMTT(30) DEF ChainExpire
<1>17. CASE UNCHANGED tokenVars
  BY <1>17, SMTT(30) DEF tokenVars
<1> QED
  BY <1>1, <1>2, <1>3, <1>4, <1>5, <1>6, <1>7, <1>8, <1>9,
     <1>10, <1>11, <1>12, <1>13, <1>14, <1>15, <1>16, <1>17, Zenon DEF TokensNext

\* One step lets one handler at most replace a token.
LEMMA RotatingStep == TypeInv /\ Fresh /\ Unused /\ Rotating /\ Exchanged /\ [TokensNext]_tokenVars => Rotating'
<1> SUFFICES ASSUME TypeInv, Fresh, Unused, Rotating, Exchanged, [TokensNext]_tokenVars
             PROVE  Rotating'
  OBVIOUS
<1> USE NoTokenApart DEF Call, TokenFault, keys, ghosts, TypeInv, TokensTypeOK, StoreTypes,
           HandlerTypes, Filled,
           Fresh, Unused, Rotating, Exchanged
<1>1. ASSUME NEW p \in Handler, LoginBegin(p)
      PROVE  Rotating'
  BY <1>1, NextToken, SMTT(30) DEF LoginBegin, Quiet
<1>2. ASSUME NEW p \in Handler, LoginPut(p)
      PROVE  Rotating'
  BY <1>2, SMTT(30) DEF LoginPut, Works, Fails
<1>3. ASSUME NEW p \in Handler, Reply(p)
      PROVE  Rotating'
  BY <1>3, SMTT(30) DEF Reply, Finish
<1>4. ASSUME NEW p \in Handler, IsRevoked(p)
      PROVE  Rotating'
  BY <1>4, SMTT(30) DEF IsRevoked, Works, Fails, Finish
<1>5. ASSUME NEW p \in Handler, GetActive(p)
      PROVE  Rotating'
  BY <1>5, SMTT(30) DEF GetActive, Works, Fails
<1>6. ASSUME NEW p \in Handler, Rotate(p)
      PROVE  Rotating'
  BY <1>6, NextToken, SMTT(30) DEF Rotate, Works, Fails
<1>7. ASSUME NEW p \in Handler, Put(p)
      PROVE  Rotating'
  BY <1>7, SMTT(30) DEF Put, Fails
<1>8. ASSUME NEW p \in Handler, RevokeOld(p)
      PROVE  Rotating'
  BY <1>8, SMTT(30) DEF RevokeOld, Works, Fails
<1>9. ASSUME NEW p \in Handler, RevokeBad(p)
      PROVE  Rotating'
  BY <1>9, SMTT(30) DEF RevokeBad, Works, Fails
<1>10. ASSUME NEW p \in Handler, Clear(p)
       PROVE  Rotating'
  BY <1>10, SMTT(30) DEF Clear, Ends, Fails, Finish
<1>11. ASSUME NEW p \in Handler, LogoutBegin(p)
       PROVE  Rotating'
  BY <1>11, SMTT(30) DEF LogoutBegin, Quiet
<1>12. ASSUME NEW p \in Handler, LogoutGet(p)
       PROVE  Rotating'
  BY <1>12, SMTT(30) DEF LogoutGet, Works, Fails, Ends, Finish
<1>13. ASSUME NEW p \in Handler, LogoutRevoke(p)
       PROVE  Rotating'
  BY <1>13, SMTT(30) DEF LogoutRevoke, Works, Fails
<1>14. ASSUME NEW p \in Handler, IdentityCrash(p)
       PROVE  Rotating'
  BY <1>14, SMTT(30) DEF IdentityCrash, Finish
<1>15. ASSUME NEW p \in Handler, NEW t \in Tok, RefreshBegin(p, t)
       PROVE  Rotating'
  BY <1>15, SMTT(30) DEF RefreshBegin, Quiet, OnlyRefreshes
<1>16. ASSUME NEW t \in Tok, ChainExpire(t)
       PROVE  Rotating'
  BY <1>16, SMTT(30) DEF ChainExpire
<1>17. CASE UNCHANGED tokenVars
  BY <1>17, SMTT(30) DEF tokenVars
<1> QED
  BY <1>1, <1>2, <1>3, <1>4, <1>5, <1>6, <1>7, <1>8, <1>9,
     <1>10, <1>11, <1>12, <1>13, <1>14, <1>15, <1>16, <1>17, Zenon DEF TokensNext

\* One step makes no exchanged token active.
LEMMA ExchangedStep == TypeInv /\ Fresh /\ Unused /\ Rotating /\ Exchanged /\ [TokensNext]_tokenVars => Exchanged'
<1> SUFFICES ASSUME TypeInv, Fresh, Unused, Rotating, Exchanged, [TokensNext]_tokenVars
             PROVE  Exchanged'
  OBVIOUS
<1> USE NoTokenApart DEF Call, TokenFault, keys, ghosts, TypeInv, TokensTypeOK, StoreTypes,
           HandlerTypes, Filled,
           Fresh, Unused, Rotating, Exchanged
<1>1. ASSUME NEW p \in Handler, LoginBegin(p)
      PROVE  Exchanged'
  BY <1>1, NextToken, SMTT(30) DEF LoginBegin, Quiet
<1>2. ASSUME NEW p \in Handler, LoginPut(p)
      PROVE  Exchanged'
  BY <1>2, SMTT(30) DEF LoginPut, Works, Fails
<1>3. ASSUME NEW p \in Handler, Reply(p)
      PROVE  Exchanged'
  BY <1>3, SMTT(30) DEF Reply, Finish
<1>4. ASSUME NEW p \in Handler, IsRevoked(p)
      PROVE  Exchanged'
  BY <1>4, SMTT(30) DEF IsRevoked, Works, Fails, Finish
<1>5. ASSUME NEW p \in Handler, GetActive(p)
      PROVE  Exchanged'
  BY <1>5, SMTT(30) DEF GetActive, Works, Fails
<1>6. ASSUME NEW p \in Handler, Rotate(p)
      PROVE  Exchanged'
  BY <1>6, NextToken, SMTT(30) DEF Rotate, Works, Fails
<1>7. ASSUME NEW p \in Handler, Put(p)
      PROVE  Exchanged'
  BY <1>7, SMTT(30) DEF Put, Fails
<1>8. ASSUME NEW p \in Handler, RevokeOld(p)
      PROVE  Exchanged'
  BY <1>8, SMTT(30) DEF RevokeOld, Works, Fails
<1>9. ASSUME NEW p \in Handler, RevokeBad(p)
      PROVE  Exchanged'
  BY <1>9, SMTT(30) DEF RevokeBad, Works, Fails
<1>10. ASSUME NEW p \in Handler, Clear(p)
       PROVE  Exchanged'
  BY <1>10, SMTT(30) DEF Clear, Ends, Fails, Finish
<1>11. ASSUME NEW p \in Handler, LogoutBegin(p)
       PROVE  Exchanged'
  BY <1>11, SMTT(30) DEF LogoutBegin, Quiet
<1>12. ASSUME NEW p \in Handler, LogoutGet(p)
       PROVE  Exchanged'
  BY <1>12, SMTT(30) DEF LogoutGet, Works, Fails, Ends, Finish
<1>13. ASSUME NEW p \in Handler, LogoutRevoke(p)
       PROVE  Exchanged'
  BY <1>13, SMTT(30) DEF LogoutRevoke, Works, Fails
<1>14. ASSUME NEW p \in Handler, IdentityCrash(p)
       PROVE  Exchanged'
  BY <1>14, SMTT(30) DEF IdentityCrash, Finish
<1>15. ASSUME NEW p \in Handler, NEW t \in Tok, RefreshBegin(p, t)
       PROVE  Exchanged'
  BY <1>15, SMTT(30) DEF RefreshBegin, Quiet, OnlyRefreshes
<1>16. ASSUME NEW t \in Tok, ChainExpire(t)
       PROVE  Exchanged'
  BY <1>16, SMTT(30) DEF ChainExpire
<1>17. CASE UNCHANGED tokenVars
  BY <1>17, SMTT(30) DEF tokenVars
<1> QED
  BY <1>1, <1>2, <1>3, <1>4, <1>5, <1>6, <1>7, <1>8, <1>9,
     <1>10, <1>11, <1>12, <1>13, <1>14, <1>15, <1>16, <1>17, Zenon DEF TokensNext

\* One step exchanges no token a second time.
LEMMA OnceStep == TypeInv /\ Rotating /\ ExchangedOnce /\ [TokensNext]_tokenVars => ExchangedOnce'
<1> SUFFICES ASSUME TypeInv, Rotating, ExchangedOnce, [TokensNext]_tokenVars
             PROVE  ExchangedOnce'
  OBVIOUS
<1> USE NoTokenApart DEF Call, TokenFault, keys, ghosts, TypeInv, TokensTypeOK, StoreTypes,
           HandlerTypes, Filled,
           Rotating, ExchangedOnce
<1>1. ASSUME NEW p \in Handler, LoginBegin(p)
      PROVE  ExchangedOnce'
  BY <1>1, NextToken, SMTT(30) DEF LoginBegin, Quiet
<1>2. ASSUME NEW p \in Handler, LoginPut(p)
      PROVE  ExchangedOnce'
  BY <1>2, SMTT(30) DEF LoginPut, Works, Fails
<1>3. ASSUME NEW p \in Handler, Reply(p)
      PROVE  ExchangedOnce'
  BY <1>3, SMTT(30) DEF Reply, Finish
<1>4. ASSUME NEW p \in Handler, IsRevoked(p)
      PROVE  ExchangedOnce'
  BY <1>4, SMTT(30) DEF IsRevoked, Works, Fails, Finish
<1>5. ASSUME NEW p \in Handler, GetActive(p)
      PROVE  ExchangedOnce'
  BY <1>5, SMTT(30) DEF GetActive, Works, Fails
<1>6. ASSUME NEW p \in Handler, Rotate(p)
      PROVE  ExchangedOnce'
  BY <1>6, NextToken, SMTT(30) DEF Rotate, Works, Fails
<1>7. ASSUME NEW p \in Handler, Put(p)
      PROVE  ExchangedOnce'
  BY <1>7, SMTT(30) DEF Put, Fails
<1>8. ASSUME NEW p \in Handler, RevokeOld(p)
      PROVE  ExchangedOnce'
  BY <1>8, SMTT(30) DEF RevokeOld, Works, Fails
<1>9. ASSUME NEW p \in Handler, RevokeBad(p)
      PROVE  ExchangedOnce'
  BY <1>9, SMTT(30) DEF RevokeBad, Works, Fails
<1>10. ASSUME NEW p \in Handler, Clear(p)
       PROVE  ExchangedOnce'
  BY <1>10, SMTT(30) DEF Clear, Ends, Fails, Finish
<1>11. ASSUME NEW p \in Handler, LogoutBegin(p)
       PROVE  ExchangedOnce'
  BY <1>11, SMTT(30) DEF LogoutBegin, Quiet
<1>12. ASSUME NEW p \in Handler, LogoutGet(p)
       PROVE  ExchangedOnce'
  BY <1>12, SMTT(30) DEF LogoutGet, Works, Fails, Ends, Finish
<1>13. ASSUME NEW p \in Handler, LogoutRevoke(p)
       PROVE  ExchangedOnce'
  BY <1>13, SMTT(30) DEF LogoutRevoke, Works, Fails
<1>14. ASSUME NEW p \in Handler, IdentityCrash(p)
       PROVE  ExchangedOnce'
  BY <1>14, SMTT(30) DEF IdentityCrash, Finish
<1>15. ASSUME NEW p \in Handler, NEW t \in Tok, RefreshBegin(p, t)
       PROVE  ExchangedOnce'
  BY <1>15, SMTT(30) DEF RefreshBegin, Quiet, OnlyRefreshes
<1>16. ASSUME NEW t \in Tok, ChainExpire(t)
       PROVE  ExchangedOnce'
  BY <1>16, SMTT(30) DEF ChainExpire
<1>17. CASE UNCHANGED tokenVars
  BY <1>17, SMTT(30) DEF tokenVars
<1> QED
  BY <1>1, <1>2, <1>3, <1>4, <1>5, <1>6, <1>7, <1>8, <1>9,
     <1>10, <1>11, <1>12, <1>13, <1>14, <1>15, <1>16, <1>17, Zenon DEF TokensNext

-----------------------------------------------------------------------------
\* One step puts no unused token on the black list.
LEMMA CleanStep == TokensInv /\ Clean /\ [TokensNext]_tokenVars => Clean'
<1> SUFFICES ASSUME TypeInv, Fresh, Unused, Clean, [TokensNext]_tokenVars
             PROVE  Clean'
  BY Zenon DEF TokensInv
<1> USE NoTokenApart DEF Call, TokenFault, keys, ghosts, TypeInv, TokensTypeOK, StoreTypes, HandlerTypes, Filled,
           Fresh, Unused, Clean, NoToken
<1>1. ASSUME NEW p \in Handler, LoginBegin(p)
      PROVE  Clean'
  BY <1>1, NextToken, TokensAreNumbers, SMTT(30) DEF LoginBegin, Quiet
<1>2. ASSUME NEW p \in Handler, LoginPut(p)
      PROVE  Clean'
  BY <1>2, SMTT(30) DEF LoginPut, Works, Fails
<1>3. ASSUME NEW p \in Handler, Reply(p)
      PROVE  Clean'
  BY <1>3, SMTT(30) DEF Reply, Finish
<1>4. ASSUME NEW p \in Handler, IsRevoked(p)
      PROVE  Clean'
  BY <1>4, SMTT(30) DEF IsRevoked, Works, Fails, Finish
<1>5. ASSUME NEW p \in Handler, GetActive(p)
      PROVE  Clean'
  BY <1>5, SMTT(30) DEF GetActive, Works, Fails
<1>6. ASSUME NEW p \in Handler, Rotate(p)
      PROVE  Clean'
  BY <1>6, NextToken, TokensAreNumbers, SMTT(30) DEF Rotate, Works, Fails
<1>7. ASSUME NEW p \in Handler, Put(p)
      PROVE  Clean'
  BY <1>7, SMTT(30) DEF Put, Fails
<1>8. ASSUME NEW p \in Handler, RevokeOld(p)
      PROVE  Clean'
  BY <1>8, SMTT(30) DEF RevokeOld, Works, Fails
<1>9. ASSUME NEW p \in Handler, RevokeBad(p)
      PROVE  Clean'
  BY <1>9, SMTT(30) DEF RevokeBad, Works, Fails
<1>10. ASSUME NEW p \in Handler, Clear(p)
       PROVE  Clean'
  BY <1>10, SMTT(30) DEF Clear, Ends, Fails, Finish
<1>11. ASSUME NEW p \in Handler, LogoutBegin(p)
       PROVE  Clean'
  BY <1>11, SMTT(30) DEF LogoutBegin, Quiet
<1>12. ASSUME NEW p \in Handler, LogoutGet(p)
       PROVE  Clean'
  BY <1>12, SMTT(30) DEF LogoutGet, Works, Fails, Ends, Finish
<1>13. ASSUME NEW p \in Handler, LogoutRevoke(p)
       PROVE  Clean'
  BY <1>13, SMTT(30) DEF LogoutRevoke, Works, Fails
<1>14. ASSUME NEW p \in Handler, IdentityCrash(p)
       PROVE  Clean'
  BY <1>14, SMTT(30) DEF IdentityCrash, Finish
<1>15. ASSUME NEW p \in Handler, NEW t \in Tok, RefreshBegin(p, t)
       PROVE  Clean'
  BY <1>15, SMTT(30) DEF RefreshBegin, Quiet, OnlyRefreshes
<1>16. ASSUME NEW t \in Tok, ChainExpire(t)
       PROVE  Clean'
  BY <1>16, SMTT(30) DEF ChainExpire
<1>17. CASE UNCHANGED tokenVars
  BY <1>17, SMTT(30) DEF tokenVars
<1> QED
  BY <1>1, <1>2, <1>3, <1>4, <1>5, <1>6, <1>7, <1>8, <1>9,
     <1>10, <1>11, <1>12, <1>13, <1>14, <1>15, <1>16, <1>17, Zenon DEF TokensNext

\* One step keeps what is known of the session.
LEMMA SerialStep == TokensInv /\ Clean /\ Serial /\ [TokensNext]_tokenVars => Serial'
<1> SUFFICES ASSUME TypeInv, Fresh, Unused, Clean, Serial, [TokensNext]_tokenVars
             PROVE  Serial'
  BY Zenon DEF TokensInv
<1> USE TokensAssumption, NoTokenApart DEF Call, TokenFault, keys, ghosts, TypeInv, TokensTypeOK, StoreTypes, HandlerTypes, Filled,
           Unused, Clean, Serial, Solo, Serves, Usable, Quiet, OnlyRefreshes, Tok, NoToken, Out, Unknown, Leaving
<1>1. ASSUME NEW p \in Handler, LoginBegin(p)
      PROVE  Serial'
  BY <1>1, NextToken, SMTT(30) DEF LoginBegin, Quiet
<1>2. ASSUME NEW p \in Handler, LoginPut(p)
      PROVE  Serial'
  BY <1>2, SMTT(30) DEF LoginPut, Works, Fails
<1>3. ASSUME NEW p \in Handler, Reply(p)
      PROVE  Serial'
  BY <1>3, SMTT(30) DEF Reply, Finish
<1>4. ASSUME NEW p \in Handler, IsRevoked(p)
      PROVE  Serial'
  BY <1>4, SMTT(30) DEF IsRevoked, Works, Fails, Finish
<1>5. ASSUME NEW p \in Handler, GetActive(p)
      PROVE  Serial'
  BY <1>5, SMTT(30) DEF GetActive, Works, Fails
<1>6. ASSUME NEW p \in Handler, Rotate(p)
      PROVE  Serial'
  BY <1>6, NextToken, SMTT(30) DEF Rotate, Works, Fails
<1>7. ASSUME NEW p \in Handler, Put(p)
      PROVE  Serial'
  BY <1>7, SMTT(30) DEF Put, Fails
<1>8. ASSUME NEW p \in Handler, RevokeOld(p)
      PROVE  Serial'
  BY <1>8, SMTT(30) DEF RevokeOld, Works, Fails
<1>9. ASSUME NEW p \in Handler, RevokeBad(p)
      PROVE  Serial'
  BY <1>9, SMTT(30) DEF RevokeBad, Works, Fails
<1>10. ASSUME NEW p \in Handler, Clear(p)
       PROVE  Serial'
  BY <1>10, SMTT(30) DEF Clear, Ends, Fails, Finish
<1>11. ASSUME NEW p \in Handler, LogoutBegin(p)
       PROVE  Serial'
  BY <1>11, SMTT(30) DEF LogoutBegin, Quiet
<1>12. ASSUME NEW p \in Handler, LogoutGet(p)
       PROVE  Serial'
  BY <1>12, SMTT(30) DEF LogoutGet, Works, Fails, Ends, Finish
<1>13. ASSUME NEW p \in Handler, LogoutRevoke(p)
       PROVE  Serial'
  BY <1>13, SMTT(30) DEF LogoutRevoke, Works, Fails
<1>14. ASSUME NEW p \in Handler, IdentityCrash(p)
       PROVE  Serial'
  BY <1>14, SMTT(30) DEF IdentityCrash, Finish
<1>15. ASSUME NEW p \in Handler, NEW t \in Tok, RefreshBegin(p, t)
       PROVE  Serial'
  BY <1>15, SMTT(30) DEF RefreshBegin, Quiet, OnlyRefreshes
<1>16. ASSUME NEW t \in Tok, ChainExpire(t)
       PROVE  Serial'
  BY <1>16, SMTT(30) DEF ChainExpire
<1>17. CASE UNCHANGED tokenVars
  BY <1>17, SMTT(30) DEF tokenVars
<1> QED
  BY <1>1, <1>2, <1>3, <1>4, <1>5, <1>6, <1>7, <1>8, <1>9,
     <1>10, <1>11, <1>12, <1>13, <1>14, <1>15, <1>16, <1>17, Zenon DEF TokensNext

-----------------------------------------------------------------------------
\* The types, what is known of every token and what is known of the session.
THEOREM TokensInvariance == TokensSpec => [](TokensInv /\ Clean /\ Serial)
<1>1. TokensInit => TokensInv
  BY TokensAssumption, SMTT(30) DEF TokensInit, TokensInv, TypeInv, TokensTypeOK, StoreTypes, HandlerTypes, Filled, Fresh, Unused, Rotating, Exchanged, ExchangedOnce,
         Tok, NoToken, Out, Step
<1>2. TokensInv /\ [TokensNext]_tokenVars => TokensInv'
  BY HandlerStep, StoreStep, FreshStep, UnusedStep, RotatingStep, ExchangedStep, OnceStep, Zenon DEF TokensInv, TypeInv, TokensTypeOK
<1>3. TokensInit => Clean /\ Serial
  BY TokensAssumption, SMTT(30) DEF TokensInit, Clean, Serial, OnlyRefreshes, Tok, NoToken, Out, Leaving
<1>4. TokensInv /\ Clean /\ Serial /\ [TokensNext]_tokenVars => Clean' /\ Serial'
  BY CleanStep, SerialStep, Zenon
<1> QED
  BY <1>1, <1>2, <1>3, <1>4, PTL DEF TokensSpec

\* The variables keep their types.
THEOREM TypeCorrect == TokensSpec => []TokensTypeOK
<1>1. TokensInv => TokensTypeOK
  BY Zenon DEF TokensInv, TypeInv
<1> QED
  BY <1>1, TokensInvariance, PTL

\* A refresh token whose rotation met no failing Redis call is exchanged for at
\* most one token, for any number of overlapping handlers, crashes and failed
\* calls elsewhere (RefreshToken, rotate_refresh_or_detect_reuse).
THEOREM TokensSafe == TokensSpec => []ExchangedOnce
<1>1. TokensInv => ExchangedOnce
  BY Zenon DEF TokensInv
<1> QED
  BY <1>1, TokensInvariance, PTL

\* A device whose handlers have not overlapped since it logged in, and met no
\* failing Redis call, can use the last token it was given; after a logout, or
\* the reuse of an old token, it can use none (Login, Logout, RefreshToken).
THEOREM SessionsAgree == TokensSpec => []SessionAgrees
<1>1. TokensInv /\ Clean /\ Serial => SessionAgrees
  BY TokensAssumption, SMTT(30) DEF TokensInv, TypeInv, TokensTypeOK, StoreTypes, Serial, SessionAgrees, Quiet, Usable,
     Tok, NoToken, Out, Leaving
<1> QED
  BY <1>1, TokensInvariance, PTL
=============================================================================
