------------------------------ MODULE GroupRows ------------------------------
(***************************************************************************)
(* The rows of one group in MySQL: the conversation row (owner_id,         *)
(* member_count, status), the member rows (role, is_quit, last_ack_seq)    *)
(* and the pinned messages, under the handlers of the Conversation and the *)
(* Message service that change them.                                       *)
(*                                                                         *)
(* A handler checks the role of its caller, then its target, each with a   *)
(* select of its own, and then calls one method of a table class.  Most of *)
(* these methods read a row without a lock and write the whole row back:   *)
(* two steps.  A method that starts with FOR UPDATE, or is one statement,  *)
(* is one step.  Requests about several members are several requests here. *)
(* The member cache and the search index have no effect on the rows.       *)
(***************************************************************************)
EXTENDS Integers, FiniteSets

CONSTANTS
    User,        \* users
    Founder,     \* who created the group
    First,       \* its members at creation
    Msg,         \* messages that may be pinned
    Proc,        \* handler threads
    Ops,         \* the operations this instance explores
    MemberLimit, \* kGroupMemberLimit
    PinLimit,    \* kPinLimit
    MaxAck,      \* bound: acknowledged sequence numbers
    MaxCalls,    \* bound: number of requests
    NoRow        \* no row

Op == {"quit", "remove", "add", "transfer", "role", "rename", "dismiss", "setting",
       "draft", "ack", "pin", "unpin"}
Role == {"NORMAL", "ADMIN", "OWNER"}
Member == [role : Role, quit : BOOLEAN, ack : 0..MaxAck]
Conversation == [owner : User, count : Nat, status : {"NORMAL", "DISMISSED"}]

\* What a group satisfies: its founder is one of its first members.
ASSUME GroupAssumption ==
    /\ IsFiniteSet(User) /\ IsFiniteSet(Proc)
    /\ Founder \in First /\ First \subseteq User
    /\ Ops \subseteq Op
    /\ PinLimit \in Nat \ {0} /\ MemberLimit \in Nat /\ MaxAck \in Nat
    /\ NoRow \notin Member /\ NoRow \notin Conversation

VARIABLES
    row,    \* conversation_member
    conv,   \* the row of the table conversation
    pins,   \* message_pin
    at,     \* the next step of a handler
    job,    \* its request: <<operation, caller, argument>>
    seen,   \* the member row it has read
    cseen,  \* the conversation row it has read
    calls,  \* number of requests so far
    stale   \* ghost: some row was written back after it had changed

rows == <<row, conv, pins>>
groupVars == <<rows, at, job, seen, cseen, calls, stale>>

\* The types of the variables.
GroupTypeOK ==
    /\ row \in [User -> Member \cup {NoRow}]
    /\ conv \in Conversation
    /\ pins \subseteq Msg
    /\ at \in [Proc -> {"idle", "count", "caller", "target", "read", "write"}]
    /\ seen \in [Proc -> Member \cup {NoRow}]
    /\ cseen \in [Proc -> Conversation \cup {NoRow}]
    /\ stale \in BOOLEAN

NewRow(role) == [role |-> role, quit |-> FALSE, ack |-> 0]

\* CreateConversation has written the conversation row, with the count, and the
\* member rows.
GroupInit ==
    /\ row = [u \in User |-> IF u = Founder THEN NewRow("OWNER")
                             ELSE IF u \in First THEN NewRow("NORMAL") ELSE NoRow]
    /\ conv = [owner |-> Founder, count |-> Cardinality(First), status |-> "NORMAL"]
    /\ pins = {}
    /\ at = [p \in Proc |-> "idle"]
    /\ job = [p \in Proc |-> NoRow]
    /\ seen = [p \in Proc |-> NoRow]
    /\ cseen = [p \in Proc |-> NoRow]
    /\ calls = 0
    /\ stale = FALSE

What(p) == job[p][1]
By(p) == job[p][2]
Arg(p) == job[p][3]

Exists(u) == row[u] # NoRow
Active(u) == Exists(u) /\ ~row[u].quit

\* role_of_, conv_role_: somebody who is not a member counts as NORMAL.
RoleOf(u) == IF Active(u) THEN row[u].role ELSE "NORMAL"

Go(p, s) == at' = [at EXCEPT ![p] = s]

Done(p) ==
    /\ Go(p, "idle")
    /\ job' = [job EXCEPT ![p] = NoRow]
    /\ seen' = [seen EXCEPT ![p] = NoRow]
    /\ cseen' = [cseen EXCEPT ![p] = NoRow]

-----------------------------------------------------------------------------
(* Requests *)

\* The arguments of the operations; "quit", "setting" and "draft" are about the
\* caller's own row, "role" also names the role.  Pinning a pinned message, or
\* unpinning another, changes nothing.
Args(op, by) ==
    CASE op \in {"remove", "add", "transfer"} -> User \ {by}
      [] op = "role" -> (User \ {by}) \X {"NORMAL", "ADMIN"}
      [] op = "ack" -> 1..MaxAck
      [] op = "pin" -> Msg \ pins
      [] op = "unpin" -> pins
      [] OTHER -> {NoRow}

\* The user whose row the request is about.
Target(p) ==
    CASE What(p) \in {"remove", "add", "transfer"} -> Arg(p)
      [] What(p) = "role" -> Arg(p)[1]
      [] OTHER -> By(p)

\* A thread takes a request; GroupNext says which thread may (an idle one).
Begin(p, op, by, arg) ==
    /\ job' = [job EXCEPT ![p] = <<op, by, arg>>]
    /\ calls' = calls + 1
    /\ Go(p, CASE op = "add" -> "count"
               [] op \in {"setting", "draft"} -> "read"
               [] op = "ack" -> "target"
               [] OTHER -> "caller")
    /\ UNCHANGED <<rows, seen, cseen, stale>>

\* Mutant of Count: one pin more than the limit passes.
CountOffByOne(p) ==
    /\ at[p] = "count"
    /\ Cardinality(pins) <= PinLimit
    /\ Go(p, IF What(p) = "pin" THEN "write" ELSE "caller")
    /\ UNCHANGED <<rows, job, seen, cseen, calls, stale>>

\* AddMembers: the limit is tested against the count as it is now.  PinMessage:
\* so is the number of pins, after the role.
Count(p) ==
    /\ at[p] = "count"
    /\ \/ /\ What(p) = "add" /\ conv.count + 1 <= MemberLimit
          /\ Go(p, "caller") /\ UNCHANGED <<job, seen, cseen>>
       \/ What(p) = "add" /\ conv.count + 1 > MemberLimit /\ Done(p)
       \/ /\ What(p) = "pin" /\ Cardinality(pins) < PinLimit
          /\ Go(p, "write") /\ UNCHANGED <<job, seen, cseen>>
       \/ What(p) = "pin" /\ Cardinality(pins) >= PinLimit /\ Done(p)
    /\ UNCHANGED <<rows, calls, stale>>

Allowed(op) ==
    CASE op = "quit" -> {"NORMAL", "ADMIN"}
      [] op \in {"transfer", "role", "dismiss"} -> {"OWNER"}
      [] OTHER -> {"ADMIN", "OWNER"}

\* The caller's role is tested.
Caller(p) ==
    /\ at[p] = "caller"
    /\ \/ RoleOf(By(p)) \notin Allowed(What(p)) /\ Done(p)
       \/ /\ RoleOf(By(p)) \in Allowed(What(p))
          /\ Go(p, CASE What(p) \in {"rename", "dismiss"} -> "read"
                     [] What(p) = "pin" -> "count"
                     [] What(p) = "unpin" -> "write"
                     [] OTHER -> "target")
          /\ UNCHANGED <<job, seen, cseen>>
    /\ UNCHANGED <<rows, calls, stale>>

\* The target's row is tested, with a select of its own.
Check(p) ==
    LET u == Target(p)
        ok == CASE What(p) = "add" -> ~Active(u)
                [] What(p) \in {"remove", "role"} -> Active(u) /\ row[u].role # "OWNER"
                [] OTHER -> Active(u)
    IN  /\ at[p] = "target"
        /\ \/ ~ok /\ Done(p)
           \/ /\ ok
              /\ Go(p, IF What(p) \in {"transfer", "ack"} \/ ~Exists(u) THEN "write" ELSE "read")
              /\ UNCHANGED <<job, seen, cseen>>
        /\ UNCHANGED <<rows, calls, stale>>

-----------------------------------------------------------------------------
(* Whole rows: read without a lock, written back *)

\* set_quit returns if the row is marked already; select_self of a setting
\* refuses a row that is marked.
Read(p) ==
    LET u == Target(p)
    IN  /\ at[p] = "read" /\ What(p) \notin {"rename", "dismiss"}
        /\ \/ /\ Exists(u) /\ (What(p) \in {"quit", "remove", "setting"} => ~row[u].quit)
              /\ seen' = [seen EXCEPT ![p] = row[u]]
              /\ Go(p, "write") /\ UNCHANGED <<job, cseen>>
           \/ ~(Exists(u) /\ (What(p) \in {"quit", "remove", "setting"} => ~row[u].quit)) /\ Done(p)
        /\ UNCHANGED <<rows, calls, stale>>

\* What a method writes: all of the row it read, with its own field changed.
Changed(p) ==
    CASE What(p) \in {"quit", "remove"} -> [seen[p] EXCEPT !.quit = TRUE]
      [] What(p) = "add" -> [seen[p] EXCEPT !.quit = FALSE, !.role = "NORMAL"]
      [] What(p) = "role" -> [seen[p] EXCEPT !.role = Arg(p)[2]]
      [] OTHER -> seen[p]

\* _update_session_member_count, in the same transaction, under FOR UPDATE.
AddCount(n) == [conv EXCEPT !.count = IF @ + n < 0 THEN 0 ELSE @ + n]

\* Mutant of Counted: a member who comes back is not counted.
CountedNotBack(p) ==
    IF What(p) \in {"quit", "remove"} THEN AddCount(-1) ELSE conv

\* set_quit counts a member out, rejoin counts one in, whatever the row said.
Counted(p) ==
    CASE What(p) \in {"quit", "remove"} -> AddCount(-1)
      [] What(p) = "add" -> AddCount(1)
      [] OTHER -> conv

Write(p) ==
    /\ at[p] = "write" /\ seen[p] # NoRow
    /\ row' = [row EXCEPT ![Target(p)] = Changed(p)]
    /\ conv' = Counted(p)
    /\ stale' = (stale \/ row[Target(p)] # seen[p])
    /\ Done(p)
    /\ UNCHANGED <<pins, calls>>

\* append: the primary key refuses a second row.
Append(p) ==
    /\ at[p] = "write" /\ What(p) = "add" /\ seen[p] = NoRow
    /\ IF Exists(Arg(p)) THEN UNCHANGED <<row, conv>>
       ELSE row' = [row EXCEPT ![Arg(p)] = NewRow("NORMAL")] /\ conv' = AddCount(1)
    /\ Done(p)
    /\ UNCHANGED <<pins, calls, stale>>

\* UpdateConversation and update_status read the conversation row and write it
\* back.
ConvRead(p) ==
    /\ at[p] = "read" /\ What(p) \in {"rename", "dismiss"}
    /\ cseen' = [cseen EXCEPT ![p] = conv]
    /\ Go(p, "write")
    /\ UNCHANGED <<rows, job, seen, calls, stale>>

ConvWrite(p) ==
    /\ at[p] = "write" /\ cseen[p] # NoRow
    /\ conv' = IF What(p) = "dismiss" THEN [cseen[p] EXCEPT !.status = "DISMISSED"] ELSE cseen[p]
    /\ stale' = (stale \/ conv # cseen[p])
    /\ Done(p)
    /\ UNCHANGED <<row, pins, calls>>

-----------------------------------------------------------------------------
(* Locked rows and single statements *)

\* Mutant of Transfer: the owner is not read under the lock again.
TransferUnchecked(p) ==
    LET a == By(p)
        b == Arg(p)
    IN  /\ at[p] = "write" /\ What(p) = "transfer"
        /\ row' = [row EXCEPT ![a].role = "ADMIN", ![b].role = "OWNER"]
        /\ conv' = [conv EXCEPT !.owner = b]
        /\ Done(p)
        /\ UNCHANGED <<pins, calls, stale>>

\* transfer_owner: both member rows and the conversation row under FOR UPDATE,
\* tested again.
Transfer(p) ==
    LET a == By(p)
        b == Arg(p)
    IN  /\ at[p] = "write" /\ What(p) = "transfer"
        /\ IF Exists(a) /\ Active(b) /\ row[a].role = "OWNER"
           THEN /\ row' = [row EXCEPT ![a].role = "ADMIN", ![b].role = "OWNER"]
                /\ conv' = [conv EXCEPT !.owner = b]
           ELSE UNCHANGED <<row, conv>>
        /\ Done(p)
        /\ UNCHANGED <<pins, calls, stale>>

\* Mutant of Advance: the number is set as it comes.
AdvanceAnyway(p) ==
    /\ at[p] = "write" /\ What(p) = "ack"
    /\ row' = [row EXCEPT ![By(p)].ack = Arg(p)]
    /\ Done(p)
    /\ UNCHANGED <<conv, pins, calls, stale>>

\* _atomic_advance_seq: one UPDATE with GREATEST.
Advance(p) ==
    /\ at[p] = "write" /\ What(p) = "ack"
    /\ row' = [row EXCEPT ![By(p)].ack = IF @ < Arg(p) THEN Arg(p) ELSE @]
    /\ Done(p)
    /\ UNCHANGED <<conv, pins, calls, stale>>

\* MessagePinTable: insert, where a row that exists counts as success, and
\* remove.
Pin(p) ==
    /\ at[p] = "write" /\ What(p) \in {"pin", "unpin"}
    /\ pins' = IF What(p) = "pin" THEN pins \cup {Arg(p)} ELSE pins \ {Arg(p)}
    /\ Done(p)
    /\ UNCHANGED <<row, conv, calls, stale>>

-----------------------------------------------------------------------------

GroupNext ==
    \E p \in Proc :
        \/ /\ at[p] = "idle" /\ calls < MaxCalls
           /\ \E op \in Ops, by \in User : \E arg \in Args(op, by) : Begin(p, op, by, arg)
        \/ Count(p) \/ Caller(p) \/ Check(p)
        \/ Read(p) \/ Write(p) \/ Append(p) \/ ConvRead(p) \/ ConvWrite(p)
        \/ Transfer(p) \/ Advance(p) \/ Pin(p)

GroupSpec == GroupInit /\ [][GroupNext]_groupVars

-----------------------------------------------------------------------------
(* Properties *)

\* As long as no row is written back after it has changed, a group has at most
\* one member with role OWNER, and it is the owner_id of the conversation,
\* however transfers, role changes, removals and returns overlap
\* (mysql_conversation_member.hpp, transfer_owner, update_role, rejoin).
OwnerAgrees == ~stale => \A u \in User : Exists(u) /\ row[u].role = "OWNER" => conv.owner = u

\* Under the same condition member_count, against which the limit of a group is
\* tested, is never below the number of active members (set_quit, rejoin,
\* append and _update_session_member_count).
CountCovers == ~stale => Cardinality({u \in User : Active(u)}) <= conv.count

\* The acknowledged position of a member moves back only by a row written back
\* after it had changed; quitting and coming back keep it (_atomic_advance_seq,
\* rejoin).
AckNotBack == ~stale' => \A u \in User : Exists(u) => row[u].ack <= row'[u].ack
AckKept == [][AckNotBack]_groupVars

\* Requests that pin at the same time exceed the limit by less than one message
\* per thread (message_server.h, PinMessage).
PinsBounded == Cardinality(pins) <= PinLimit + Cardinality(Proc) - 1
=============================================================================
