------------------------------- MODULE Tokens -------------------------------
(***************************************************************************)
(* Refresh tokens of one device: Login, Logout and RefreshToken of         *)
(* IdentityService over the keys of JwtStore.  A handler is a sequence of  *)
(* Redis calls, each a step, and handlers of the same device overlap.      *)
(*                                                                         *)
(* A token is known by its jti, a number; numbers are given out in order.  *)
(* A call of Redis that throws is caught by JwtStore: a write may have     *)
(* been done or not, and reads answer "not there".  Access tokens are      *)
(* checked by their signature and one key each; they are left out.         *)
(***************************************************************************)
EXTENDS Naturals

CONSTANTS
    Handler,    \* handler threads of Identity
    MaxTok,     \* bound: refresh tokens signed
    TokenFaults, \* the faults this instance explores: "redis", "crash"
    MaxTokenFaults \* bound: how many faults a behaviour contains

Tok == 1..MaxTok
NoToken == 0            \* get_active_refresh: the empty string
Out == 0                \* session: no token should work
Unknown == MaxTok + 1   \* session: nothing is known
Leaving == MaxTok + 2   \* session: a logout is under way

\* What a deployment satisfies.
ASSUME TokensAssumption ==
    /\ MaxTok \in Nat
    /\ TokenFaults \subseteq {"redis", "crash"}
    /\ MaxTokenFaults \in Nat

VARIABLES
    active,    \* im:jwt:rt:{uid}:{did}
    revoked,   \* tokens with a key im:jwt:revoked:{jti}
    chain,     \* tokens with a key im:jwt:rt_chain:{jti}
    signed,    \* number of tokens signed
    held,      \* tokens that reached the client
    call,      \* the next call of a handler
    old,       \* the token a handler was given, or read
    new,       \* the token a handler signed
    successor, \* ghost: successor[t], the tokens issued in exchange for t
    loose,     \* ghost: tokens whose rotation met a failing Redis
    session,   \* ghost: the token that should work, Out, Unknown or Leaving
    tokenFaults \* number of faults so far

keys == <<active, revoked, chain>>
ghosts == <<successor, loose>>
tokenVars == <<keys, signed, held, call, old, new, ghosts, session, tokenFaults>>

Step == {"idle", "login", "isRevoked", "getActive", "rotate", "put", "revokeOld", "reply",
         "revokeBad", "clear", "logout", "revokeLogout"}

StoreTypes ==
    /\ active \in Tok \cup {NoToken}
    /\ revoked \subseteq Tok /\ chain \subseteq Tok
    /\ signed \in 0..MaxTok
    /\ held \subseteq Tok
    /\ successor \in [Tok -> SUBSET Tok]
    /\ loose \subseteq Tok
    /\ session \in Tok \cup {Out, Unknown, Leaving}
    /\ tokenFaults \in Nat

HandlerTypes ==
    /\ call \in [Handler -> Step]
    /\ old \in [Handler -> Tok \cup {NoToken}]
    /\ new \in [Handler -> Tok \cup {NoToken}]

\* The types of the variables.
TokensTypeOK == StoreTypes /\ HandlerTypes

TokensInit ==
    /\ active = NoToken /\ revoked = {} /\ chain = {}
    /\ signed = 0 /\ held = {}
    /\ call = [p \in Handler |-> "idle"]
    /\ old = [p \in Handler |-> NoToken]
    /\ new = [p \in Handler |-> NoToken]
    /\ successor = [t \in Tok |-> {}]
    /\ loose = {}
    /\ session = Out
    /\ tokenFaults = 0

TokenFault(kind) ==
    /\ kind \in TokenFaults
    /\ tokenFaults < MaxTokenFaults
    /\ tokenFaults' = tokenFaults + 1

Call(p, s) == call' = [call EXCEPT ![p] = s]

\* The handler answers: its locals are gone.
Finish(p) ==
    /\ Call(p, "idle")
    /\ old' = [old EXCEPT ![p] = NoToken]
    /\ new' = [new EXCEPT ![p] = NoToken]

\* A call of Redis works, or throws, done or not; what the session is worth is
\* not known then.
Works == UNCHANGED <<tokenFaults, session>>
Fails == TokenFault("redis") /\ session' = Unknown

\* The device has no active token now.
Ends == UNCHANGED tokenFaults /\ session' = IF session = Unknown THEN Unknown ELSE Out

Quiet == \A p \in Handler : call[p] = "idle"
\* Nothing but refreshes under way, of tokens that no longer work.
OnlyRefreshes == \A p \in Handler : call[p] \in {"idle", "isRevoked", "getActive", "revokeBad", "clear"}

-----------------------------------------------------------------------------
(* Login (and Register, which ends the same way) *)

LoginBegin(p) ==
    /\ call[p] = "idle" /\ signed < MaxTok
    /\ signed' = signed + 1
    /\ new' = [new EXCEPT ![p] = signed + 1]
    /\ Call(p, "login")
    /\ session' = IF Quiet THEN signed + 1 ELSE Unknown
    /\ UNCHANGED <<keys, held, old, ghosts, tokenFaults>>

LoginPut(p) ==
    /\ call[p] = "login"
    /\ \/ active' = new[p] /\ Works
       \/ active' \in {active, new[p]} /\ Fails
    /\ Call(p, "reply")
    /\ UNCHANGED <<revoked, chain, signed, held, old, new, ghosts>>

Reply(p) ==
    /\ call[p] = "reply"
    /\ held' = held \cup {new[p]}
    /\ Finish(p)
    /\ UNCHANGED <<keys, signed, ghosts, session, tokenFaults>>

-----------------------------------------------------------------------------
(* RefreshToken *)

\* The client presents a token it holds; it may be one it has used before.
RefreshBegin(p, t) ==
    /\ call[p] = "idle" /\ t \in held
    /\ old' = [old EXCEPT ![p] = t]
    /\ Call(p, "isRevoked")
    /\ session' = IF Quiet \/ (session = Out /\ OnlyRefreshes) THEN session ELSE Unknown
    /\ UNCHANGED <<keys, signed, held, new, ghosts, tokenFaults>>

IsRevoked(p) ==
    /\ call[p] = "isRevoked"
    /\ \/ /\ old[p] \in revoked
          /\ Finish(p) /\ Works
       \/ /\ old[p] \notin revoked
          /\ Call(p, "getActive") /\ Works /\ UNCHANGED <<old, new>>
       \/ /\ old[p] \in revoked
          /\ Call(p, "getActive") /\ Fails /\ UNCHANGED <<old, new>>
    /\ UNCHANGED <<keys, signed, held, ghosts>>

\* A token that is not the active one of the device is revoked, and so is the
\* active one.
GetActive(p) ==
    /\ call[p] = "getActive"
    /\ \/ /\ active = old[p]
          /\ Call(p, "rotate") /\ Works
       \/ /\ active # old[p]
          /\ Call(p, "revokeBad") /\ Works
       \/ Call(p, "revokeBad") /\ Fails
    /\ UNCHANGED <<keys, signed, held, old, new, ghosts>>

\* Mutant of Rotate: set without NX.
RotateUnchecked(p) ==
    /\ call[p] = "rotate" /\ signed < MaxTok
    /\ signed' = signed + 1
    /\ new' = [new EXCEPT ![p] = signed + 1]
    /\ chain' = chain \cup {old[p]}
    /\ Call(p, "put") /\ Works
    /\ UNCHANGED <<active, revoked, held, old, ghosts>>

\* rotate_refresh_or_detect_reuse: the chain entry is set once.  If that call
\* fails the rotation goes on.
Rotate(p) ==
    /\ call[p] = "rotate"
    /\ \/ /\ old[p] \in chain
          /\ Call(p, "revokeBad") /\ Works
          /\ UNCHANGED <<chain, signed, new, loose>>
       \/ /\ signed < MaxTok
          /\ signed' = signed + 1
          /\ new' = [new EXCEPT ![p] = signed + 1]
          /\ \/ old[p] \notin chain /\ chain' = chain \cup {old[p]} /\ Works /\ UNCHANGED loose
             \/ chain' \in {chain, chain \cup {old[p]}} /\ Fails /\ loose' = loose \cup {old[p]}
          /\ Call(p, "put")
    /\ UNCHANGED <<active, revoked, held, old, successor>>

\* put_active_refresh of the new token.
Put(p) ==
    /\ call[p] = "put"
    /\ \/ /\ active' = new[p]
          /\ session' = IF session = old[p] THEN new[p] ELSE session
          /\ UNCHANGED <<loose, tokenFaults>>
       \/ active' \in {active, new[p]} /\ Fails /\ loose' = loose \cup {old[p]}
    /\ successor' = [successor EXCEPT ![old[p]] = @ \cup {new[p]}]
    /\ Call(p, "revokeOld")
    /\ UNCHANGED <<revoked, chain, signed, held, old, new>>

\* The old token is put on the black list for the rest of its life.
RevokeOld(p) ==
    /\ call[p] = "revokeOld"
    /\ \/ revoked' = revoked \cup {old[p]} /\ Works
       \/ revoked' \in {revoked, revoked \cup {old[p]}} /\ Fails
    /\ Call(p, "reply")
    /\ UNCHANGED <<active, chain, signed, held, old, new, ghosts>>

\* A reuse is answered by revoking the token and clearing the device's key.
RevokeBad(p) ==
    /\ call[p] = "revokeBad"
    /\ \/ revoked' = revoked \cup {old[p]} /\ Works
       \/ revoked' \in {revoked, revoked \cup {old[p]}} /\ Fails
    /\ Call(p, "clear")
    /\ UNCHANGED <<active, chain, signed, held, old, new, ghosts>>

\* Mutant of Clear: the device's key stays.
ClearNothing(p) ==
    /\ call[p] = "clear"
    /\ Finish(p)
    /\ UNCHANGED <<keys, signed, held, ghosts, session, tokenFaults>>

\* clear_active_refresh, for a reuse and for a logout.
Clear(p) ==
    /\ call[p] = "clear"
    /\ \/ active' = NoToken /\ Ends
       \/ active' \in {active, NoToken} /\ Fails
    /\ Finish(p)
    /\ UNCHANGED <<revoked, chain, signed, held, ghosts>>

-----------------------------------------------------------------------------
(* Logout *)

LogoutBegin(p) ==
    /\ call[p] = "idle"
    /\ Call(p, "logout")
    /\ session' = IF Quiet THEN Leaving ELSE Unknown
    /\ UNCHANGED <<keys, signed, held, old, new, ghosts, tokenFaults>>

\* The refresh token to revoke is read; without one there is nothing to do.
LogoutGet(p) ==
    /\ call[p] = "logout"
    /\ \/ /\ active # NoToken
          /\ old' = [old EXCEPT ![p] = active]
          /\ Call(p, "revokeLogout") /\ Works /\ UNCHANGED new
       \/ active = NoToken /\ Finish(p) /\ Ends
       \/ active # NoToken /\ Finish(p) /\ Fails
    /\ UNCHANGED <<keys, signed, held, ghosts>>

LogoutRevoke(p) ==
    /\ call[p] = "revokeLogout"
    /\ \/ revoked' = revoked \cup {old[p]} /\ Works
       \/ revoked' \in {revoked, revoked \cup {old[p]}} /\ Fails
    /\ Call(p, "clear")
    /\ UNCHANGED <<active, chain, signed, held, old, new, ghosts>>

-----------------------------------------------------------------------------

\* The service stops in the middle of a handler.
IdentityCrash(p) ==
    /\ call[p] # "idle"
    /\ TokenFault("crash")
    /\ session' = Unknown
    /\ Finish(p)
    /\ UNCHANGED <<keys, signed, held, ghosts>>

\* The chain entry of a token runs out after a day: no handler takes as long.
ChainExpire(t) ==
    /\ t \in chain
    /\ \A p \in Handler : old[p] # t
    /\ chain' = chain \ {t}
    /\ UNCHANGED <<active, revoked, signed, held, call, old, new, ghosts, session, tokenFaults>>

TokensNext ==
    \/ \E p \in Handler :
          \/ LoginBegin(p) \/ LoginPut(p) \/ Reply(p)
          \/ \E t \in Tok : RefreshBegin(p, t)
          \/ IsRevoked(p) \/ GetActive(p) \/ Rotate(p) \/ Put(p) \/ RevokeOld(p)
          \/ RevokeBad(p) \/ Clear(p)
          \/ LogoutBegin(p) \/ LogoutGet(p) \/ LogoutRevoke(p)
          \/ IdentityCrash(p)
    \/ \E t \in Tok : ChainExpire(t)

TokensSpec == TokensInit /\ [][TokensNext]_tokenVars

-----------------------------------------------------------------------------
(* Properties *)

\* A refresh token that would be exchanged.
Usable(t) == active = t /\ t \notin revoked \cup chain

\* A refresh token is exchanged for at most one new token, however its handlers
\* overlap and whenever its chain entry runs out, unless Redis failed during
\* its rotation (identity_server.h, RefreshToken; jwt_store.hpp,
\* rotate_refresh_or_detect_reuse).
ExchangedOnce == \A t \in Tok \ loose : \A a, b \in successor[t] : a = b

\* When handlers of the device have not overlapped and Redis has not failed
\* since it logged in, the last token issued works and the user is not logged
\* out by accident; after such a logout, or the reuse of an old token, no token
\* works (identity_server.h, Login, Logout, RefreshToken).
SessionAgrees ==
    Quiet => /\ session \in Tok => Usable(session)
             /\ session # Leaving
             /\ session = Out => \A t \in Tok : ~Usable(t)
=============================================================================
