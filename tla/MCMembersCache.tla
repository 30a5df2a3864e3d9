--------------------------- MODULE MCMembersCache ---------------------------
(* MembersCache on two users, with one call or with two of one process.     *)
EXTENDS MembersCache, TLC

CONSTANTS u1, u2, p1, p2, i1

OneProcess == (p1 :> i1) @@ (p2 :> i1)
OneCall == p1 :> i1
MemberSends == (p1 :> u1) @@ (p2 :> u2)
OwnerSends == p1 :> u1
=============================================================================
