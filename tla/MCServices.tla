----------------------------- MODULE MCServices -----------------------------
(***************************************************************************)
(* Four parts beside the message path, for model checking: message ids     *)
(* (WorkerIds), refresh tokens (Tokens), the rows of a group (GroupRows)   *)
(* and the cached profile of a sender (UserInfo).  They share no state, so *)
(* what one of them can do does not depend on the others: a behaviour is   *)
(* one of a part chosen at the start, and the others rest in their initial *)
(* states.                                                                 *)
(***************************************************************************)
EXTENDS WorkerIds, Tokens, GroupRows, UserInfo

VARIABLE part   \* the part whose behaviour this is

ServicesInit ==
    /\ part \in {"ids", "tokens", "group", "info"}
    /\ Init /\ TokensInit /\ GroupInit /\ InfoInit
    /\ part = "ids" \/ store = CHOOSE s \in Stores : TRUE

IdsPart == part = "ids" /\ Next /\ UNCHANGED <<part, tokenVars, groupVars, infoVars>>
TokensPart == part = "tokens" /\ TokensNext /\ UNCHANGED <<part, vars, groupVars, infoVars>>
GroupPart == part = "group" /\ GroupNext /\ UNCHANGED <<part, vars, tokenVars, infoVars>>
InfoPart == part = "info" /\ InfoNext /\ UNCHANGED <<part, vars, tokenVars, groupVars>>

ServicesSpec ==
    /\ ServicesInit
    /\ [][IdsPart \/ TokensPart \/ GroupPart \/ InfoPart]_<<part, vars, tokenVars, groupVars, infoVars>>
=============================================================================
