-------------------------- MODULE GroupRowsProofs --------------------------
(***************************************************************************)
(* Proofs about GroupRows, for any number of users, handlers, requests and *)
(* messages, and any limits.                                               *)
(*                                                                         *)
(* A row that is written back is the row that was read, as long as none is *)
(* stale; so roles and marks change only by the field of the method, and   *)
(* the count changes with the mark.  A pin that has passed the limit is    *)
(* counted with the handler that brings it.                                *)
(***************************************************************************)
EXTENDS GroupRows, FiniteSetTheorems, TLAPS

\* The request of a handler has the form of its operation.
Job(p) ==
    at[p] # "idle" =>
        /\ By(p) \in User
        /\ What(p) \in {"remove", "add", "transfer"} => Arg(p) \in User \ {By(p)}
        /\ What(p) = "role" => Arg(p)[1] \in User /\ Arg(p)[2] \in {"NORMAL", "ADMIN"}
        /\ What(p) = "ack" => Arg(p) \in 1..MaxAck
        /\ What(p) = "pin" => Arg(p) \in Msg

\* What a handler has read, and which operations take which steps.
Phase(p) ==
    /\ at[p] \in {"idle", "caller", "target", "count", "read"} => seen[p] = NoRow /\ cseen[p] = NoRow
    /\ at[p] = "caller" => What(p) \notin {"setting", "draft"}
    /\ at[p] = "target" => What(p) \notin {"pin", "unpin", "rename", "dismiss", "setting", "draft"}
    /\ at[p] = "read" => What(p) \notin {"pin", "unpin", "transfer", "ack"}
    /\ at[p] = "write" /\ What(p) = "ack" => Exists(By(p))
    /\ at[p] = "write" /\ seen[p] # NoRow =>
          /\ What(p) \notin {"pin", "unpin", "transfer", "ack"}
          /\ What(p) \in {"quit", "remove"} => ~seen[p].quit

Handlers == job = [p \in Proc |-> job[p]] /\ \A p \in Proc : Job(p) /\ Phase(p)

\* The pins that have passed the limit and are still to be written.
Pinning == {p \in Proc : at[p] = "write" /\ What(p) = "pin"}
PinRoom ==
    /\ IsFiniteSet(pins)
    /\ Cardinality(pins) + Cardinality(Pinning) <= PinLimit + Cardinality(Proc) - 1

IInv == GroupTypeOK /\ Handlers /\ PinRoom /\ OwnerAgrees /\ CountCovers

-----------------------------------------------------------------------------
(* Counting *)

\* Fewer handlers that are about to pin, and no more pins, stay within the limit.
LEMMA FewerPins ==
    ASSUME PinRoom, pins' \subseteq pins, Pinning' \subseteq Pinning
    PROVE  PinRoom'
<1>1. IsFiniteSet(Pinning)
  BY GroupAssumption, FS_Subset, Zenon DEF Pinning
<1>2. /\ IsFiniteSet(pins') /\ IsFiniteSet(Pinning')
      /\ Cardinality(pins') <= Cardinality(pins) /\ Cardinality(Pinning') <= Cardinality(Pinning)
  BY <1>1, FS_Subset, Zenon DEF PinRoom
<1>3. /\ Cardinality(pins) \in Nat /\ Cardinality(pins') \in Nat
      /\ Cardinality(Pinning) \in Nat /\ Cardinality(Pinning') \in Nat
      /\ Cardinality(Proc) \in Nat /\ PinLimit \in Nat
  BY GroupAssumption, <1>1, <1>2, FS_CardinalityType, Zenon DEF PinRoom
<1> QED
  BY <1>2, <1>3, SMTT(30) DEF PinRoom

\* A handler that finds fewer pins than the limit may go on.
LEMMA OneMorePinning ==
    ASSUME PinRoom, NEW p \in Proc, pins' = pins,
           Cardinality(pins) < PinLimit
    PROVE  PinRoom'
<1>1. Pinning' \subseteq Proc
  BY Zenon DEF Pinning
<1>2. Cardinality(Pinning') <= Cardinality(Proc) /\ IsFiniteSet(Pinning')
  BY GroupAssumption, <1>1, FS_Subset, Zenon
<1>3. /\ Cardinality(pins) \in Nat /\ Cardinality(Pinning') \in Nat
      /\ Cardinality(Proc) \in Nat /\ PinLimit \in Nat
  BY GroupAssumption, <1>2, FS_CardinalityType, Zenon DEF PinRoom
<1> QED
  BY <1>2, <1>3, SMTT(30) DEF PinRoom

\* A handler that writes its pin stops being one that will.
LEMMA PinWritten ==
    ASSUME PinRoom, NEW p \in Pinning, NEW m,
           pins' = pins \cup {m}, Pinning' = Pinning \ {p}
    PROVE  PinRoom'
<1>1. IsFiniteSet(Pinning)
  BY GroupAssumption, FS_Subset, Zenon DEF Pinning
<1>2. /\ IsFiniteSet(pins')
      /\ Cardinality(pins') = Cardinality(pins) \/ Cardinality(pins') = Cardinality(pins) + 1
  BY FS_AddElement, Zenon DEF PinRoom
<1>3. Cardinality(Pinning') = Cardinality(Pinning) - 1
  BY <1>1, FS_RemoveElement, Zenon
<1>4. /\ Cardinality(pins) \in Nat /\ Cardinality(Pinning) \in Nat
      /\ Cardinality(Proc) \in Nat /\ PinLimit \in Nat
  BY GroupAssumption, <1>1, FS_CardinalityType, Zenon DEF PinRoom
<1> QED
  BY <1>2, <1>3, <1>4, SMTT(30) DEF PinRoom

Members == {u \in User : Active(u)}

\* One active member more is at most one more to count.
LEMMA MemberAdded ==
    ASSUME GroupTypeOK, CountCovers, ~stale, NEW u,
           Members' \subseteq Members \cup {u}, conv' = AddCount(1)
    PROVE  Cardinality(Members') <= conv'.count
<1>1. IsFiniteSet(Members)
  BY GroupAssumption, FS_Subset, Zenon DEF Members
<1>2. /\ IsFiniteSet(Members \cup {u})
      /\ Cardinality(Members \cup {u}) = Cardinality(Members) \/ Cardinality(Members \cup {u}) = Cardinality(Members) + 1
  BY <1>1, FS_AddElement, Zenon
<1>3. Cardinality(Members') <= Cardinality(Members \cup {u}) /\ IsFiniteSet(Members')
  BY <1>2, FS_Subset, Zenon
<1>4. Cardinality(Members) \in Nat /\ Cardinality(Members') \in Nat
  BY <1>1, <1>3, FS_CardinalityType, Zenon
<1>5. Cardinality(Members) <= conv.count
  BY Zenon DEF CountCovers, Members
<1>6. conv.count \in Nat /\ conv'.count = conv.count + 1
  BY SMTT(30) DEF GroupTypeOK, Conversation, AddCount
<1> QED
  BY <1>2, <1>3, <1>4, <1>5, <1>6, SMTT(30)

\* One active member less is one less to count.
LEMMA MemberRemoved ==
    ASSUME GroupTypeOK, CountCovers, ~stale, NEW u \in Members,
           Members' \subseteq Members \ {u}, conv' = AddCount(-1)
    PROVE  Cardinality(Members') <= conv'.count
<1>1. IsFiniteSet(Members)
  BY GroupAssumption, FS_Subset, Zenon DEF Members
<1>2. IsFiniteSet(Members \ {u}) /\ Cardinality(Members \ {u}) = Cardinality(Members) - 1
  BY <1>1, FS_RemoveElement, Zenon
<1>3. Cardinality(Members') <= Cardinality(Members \ {u}) /\ IsFiniteSet(Members')
  BY <1>2, FS_Subset, Zenon
<1>4. Cardinality(Members) \in Nat /\ Cardinality(Members') \in Nat /\ Cardinality(Members \ {u}) \in Nat
  BY <1>1, <1>2, <1>3, FS_CardinalityType, Zenon
<1>5. Cardinality(Members) <= conv.count
  BY Zenon DEF CountCovers, Members
<1>6. conv.count \in Nat /\ conv'.count = IF conv.count - 1 < 0 THEN 0 ELSE conv.count - 1
  BY SMTT(30) DEF GroupTypeOK, Conversation, AddCount
<1> QED
  BY <1>2, <1>3, <1>4, <1>5, <1>6, SMTT(30)
-----------------------------------------------------------------------------
(* Handlers *)

\* The types of what a handler knows.
Control ==
    /\ at \in [Proc -> {"idle", "count", "caller", "target", "read", "write"}]
    /\ seen \in [Proc -> Member \cup {NoRow}]
    /\ cseen \in [Proc -> Conversation \cup {NoRow}]

\* A step of p changes nothing that another handler knows, and no row goes.
LEMMA OneHandler ==
    ASSUME Control, Handlers, NEW p \in Proc, NEW a, NEW b, NEW c, NEW d,
           at' = [at EXCEPT ![p] = a], job' = [job EXCEPT ![p] = b],
           seen' = [seen EXCEPT ![p] = c], cseen' = [cseen EXCEPT ![p] = d],
           \A u \in User : Exists(u) => Exists(u)',
           Job(p)', Phase(p)'
    PROVE  Handlers'
<1>1. job' = [q \in Proc |-> job'[q]]
  BY SMTT(30) DEF Handlers
<1>2. ASSUME NEW q \in Proc, q # p
      PROVE  at'[q] = at[q] /\ job'[q] = job[q] /\ seen'[q] = seen[q] /\ cseen'[q] = cseen[q]
  BY <1>2, SMTT(30) DEF Handlers, Control
<1>3. ASSUME NEW q \in Proc, q # p
      PROVE  Job(q)' /\ Phase(q)'
  <2>1. Job(q) /\ Phase(q)
    BY Zenon DEF Handlers
  <2>2. Job(q)'
    BY <1>2, <1>3, <2>1, Zenon DEF Job, What, By, Arg
  <2>3. Phase(q)'
    BY <1>2, <1>3, <2>1, Zenon DEF Job, Phase, What, By
  <2> QED
    BY <2>2, <2>3, Zenon
<1> QED
  BY <1>1, <1>3, Zenon DEF Handlers

\* A handler that has ended knows nothing and is not about to pin.
LEMMA DoneKeeps ==
    ASSUME Control, Handlers, NEW p \in Proc, Done(p),
           \A u \in User : Exists(u) => Exists(u)'
    PROVE  Control' /\ Handlers' /\ Pinning' = Pinning \ {p}
<1>1. at'[p] = "idle" /\ seen'[p] = NoRow /\ cseen'[p] = NoRow
  BY Zenon DEF Control, Done, Go
<1>2. Job(p)' /\ Phase(p)'
  BY <1>1, Zenon DEF Job, Phase
<1>3. Handlers'
  BY <1>2, OneHandler, Zenon DEF Done, Go
<1>4. Control'
  BY SMTT(30) DEF Control, Done, Go
<1>5. ASSUME NEW q \in Proc, q # p
      PROVE  at'[q] = at[q] /\ job'[q] = job[q]
  BY <1>5, SMTT(30) DEF Control, Handlers, Done, Go
<1>6. Pinning' = Pinning \ {p}
  BY <1>1, <1>5, Zenon DEF Pinning, What
<1> QED
  BY <1>3, <1>4, <1>6, Zenon

\* A handler that goes on with its request.
LEMMA GoKeeps ==
    ASSUME Control, Handlers, NEW p \in Proc,
           NEW a \in {"idle", "count", "caller", "target", "read", "write"},
           NEW c \in Member \cup {NoRow}, NEW d \in Conversation \cup {NoRow},
           Go(p, a), UNCHANGED <<job, row>>,
           seen' = [seen EXCEPT ![p] = c], cseen' = [cseen EXCEPT ![p] = d],
           Phase(p)', at[p] # "idle"
    PROVE  /\ Control' /\ Handlers'
           /\ a # "write" \/ What(p) # "pin" => Pinning' \subseteq Pinning
<1>1. Control'
  BY SMTT(30) DEF Control, Go
<1>2. Job(p)'
  BY Zenon DEF Handlers, Job, What, By, Arg
<1>3. job' = [job EXCEPT ![p] = job[p]] /\ at' = [at EXCEPT ![p] = a]
  BY SMTT(30) DEF Handlers, Go
<1>4. Handlers'
  BY <1>2, <1>3, OneHandler, Zenon DEF Exists
<1>5. a # "write" \/ What(p) # "pin" => Pinning' \subseteq Pinning
  BY SMTT(30) DEF Pinning, What, Control, Go
<1> QED
  BY <1>1, <1>4, <1>5, Zenon

-----------------------------------------------------------------------------
(* Steps that leave the rows alone *)

\* What is said of the rows stays true if they and the ghost stay the same.
LEMMA SameRows ==
    ASSUME GroupTypeOK, OwnerAgrees, CountCovers, UNCHANGED <<rows, stale>>, Control'
    PROVE  GroupTypeOK' /\ OwnerAgrees' /\ CountCovers'
BY Zenon DEF GroupTypeOK, Control, OwnerAgrees, CountCovers, Exists, Active, rows

\* A request begins.
LEMMA BeginKeeps ==
    ASSUME IInv, NEW p \in Proc, NEW op \in Ops, NEW by \in User,
           NEW arg \in Args(op, by), at[p] = "idle", Begin(p, op, by, arg)
    PROVE  IInv'
<1> DEFINE a == CASE op = "add" -> "count"
                  [] op \in {"setting", "draft"} -> "read"
                  [] op = "ack" -> "target"
                  [] OTHER -> "caller"
<1>1. op \in Op
  BY GroupAssumption, Zenon
<1>2. Control /\ Handlers /\ pins \subseteq Msg
  BY Zenon DEF IInv, GroupTypeOK, Control
<1>3. /\ at' = [at EXCEPT ![p] = a] /\ job' = [job EXCEPT ![p] = <<op, by, arg>>]
      /\ UNCHANGED <<rows, seen, cseen, stale>> /\ at[p] = "idle"
  BY Zenon DEF Begin, Go
<1>4. a \in {"count", "read", "target", "caller"}
  BY Zenon
<1>5. at'[p] = a /\ job'[p] = <<op, by, arg>> /\ What(p)' = op /\ By(p)' = by /\ Arg(p)' = arg
  BY <1>2, <1>3, SMTT(30) DEF Control, Handlers, What, By, Arg
<1>6. Job(p)'
  <2>1. op \in {"remove", "add", "transfer"} => arg \in User \ {by}
    BY Zenon DEF Args
  <2>2. op = "role" => arg[1] \in User /\ arg[2] \in {"NORMAL", "ADMIN"}
    BY SMTT(30) DEF Args
  <2>3. op = "ack" => arg \in 1..MaxAck
    BY Zenon DEF Args
  <2>4. op = "pin" => arg \in Msg
    BY Zenon DEF Args
  <2> QED
    BY <1>5, <2>1, <2>2, <2>3, <2>4, Zenon DEF Job
<1>7. Phase(p)'
  <2>1. seen'[p] = NoRow /\ cseen'[p] = NoRow
    BY <1>2, <1>3, Zenon DEF Handlers, Phase
  <2>2. a = "read" => op \in {"setting", "draft"}
    BY <1>1, SMTT(30) DEF Op
  <2>3. a = "target" => op = "ack"
    BY <1>1, SMTT(30) DEF Op
  <2>4. a = "caller" => op \notin {"setting", "draft"}
    BY <1>1, SMTT(30) DEF Op
  <2> HIDE DEF a
  <2> QED
    BY <1>4, <1>5, <2>1, <2>2, <2>3, <2>4, SMTT(30) DEF Phase
<1>8. Handlers'
  <2> HIDE DEF a
  <2>1. seen' = [seen EXCEPT ![p] = seen[p]] /\ cseen' = [cseen EXCEPT ![p] = cseen[p]]
    BY <1>2, <1>3, SMTT(30) DEF Control
  <2>2. \A u \in User : Exists(u) => Exists(u)'
    BY <1>3, Zenon DEF Exists, rows
  <2> QED
    BY <1>2, <1>3, <1>6, <1>7, <2>1, <2>2, OneHandler, Zenon
<1>9. Control'
  BY <1>2, <1>3, <1>4, SMTT(30) DEF Control
<1>10. Pinning' \subseteq Pinning
  <2>1. ASSUME NEW q \in Proc, q # p
        PROVE  at'[q] = at[q] /\ job'[q] = job[q]
    BY <1>2, <1>3, <2>1, SMTT(30) DEF Control, Handlers
  <2> QED
    BY <1>4, <1>5, <2>1, SMTT(30) DEF Pinning, What
<1>11. PinRoom'
  BY <1>3, <1>10, FewerPins, Zenon DEF IInv, rows
<1> QED
  BY <1>3, <1>8, <1>9, <1>11, SameRows, Zenon DEF IInv

\* The handler of a refused request ends.
LEMMA RefusedKeeps ==
    ASSUME IInv, NEW p \in Proc, Done(p), UNCHANGED <<rows, stale>>
    PROVE  IInv'
<1>1. \A u \in User : Exists(u) => Exists(u)'
  BY Zenon DEF Exists, rows
<1>2. Control' /\ Handlers' /\ Pinning' = Pinning \ {p}
  BY <1>1, DoneKeeps, Zenon DEF IInv, GroupTypeOK, Control
<1>3. PinRoom'
  BY <1>2, FewerPins, Zenon DEF IInv, rows
<1> QED
  BY <1>2, <1>3, SameRows, Zenon DEF IInv

\* The handler of a request goes on to its next step.
LEMMA ProceedKeeps ==
    ASSUME IInv, NEW p \in Proc,
           NEW a \in {"caller", "target", "count", "read", "write"},
           NEW c \in Member \cup {NoRow}, NEW d \in Conversation \cup {NoRow},
           Go(p, a), UNCHANGED <<rows, job, stale>>,
           seen' = [seen EXCEPT ![p] = c], cseen' = [cseen EXCEPT ![p] = d],
           Phase(p)', at[p] # "idle",
           a = "write" /\ What(p) = "pin" => Cardinality(pins) < PinLimit
    PROVE  IInv'
<1>1. /\ Control' /\ Handlers'
      /\ a # "write" \/ What(p) # "pin" => Pinning' \subseteq Pinning
  <2>1. a \in {"idle", "count", "caller", "target", "read", "write"}
    BY Zenon
  <2>2. Control /\ Handlers /\ UNCHANGED <<job, row>>
    BY Zenon DEF IInv, GroupTypeOK, Control, rows
  <2> QED
    BY <2>1, <2>2, GoKeeps, Zenon
<1>2. PinRoom'
  BY <1>1, FewerPins, OneMorePinning, Zenon DEF IInv, rows
<1> QED
  BY <1>1, <1>2, SameRows, Zenon DEF IInv

\* The limit of members, or of pins, is tested.
LEMMA CountKeeps ==
    ASSUME IInv, NEW p \in Proc, Count(p)
    PROVE  IInv'
<1>1. CASE Done(p)
  BY <1>1, RefusedKeeps, Zenon DEF Count
<1>2. CASE ~Done(p)
  <2>1. PICK a \in {"caller", "write"} :
            /\ Go(p, a) /\ UNCHANGED <<rows, stale, job, seen, cseen>> /\ at[p] = "count"
            /\ a = "write" => What(p) = "pin" /\ Cardinality(pins) < PinLimit
            /\ a = "caller" => What(p) = "add"
    BY <1>2, Zenon DEF Count
  <2>2. Phase(p) /\ Control
    BY Zenon DEF IInv, Handlers, GroupTypeOK, Control
  <2>3. /\ seen[p] = NoRow /\ cseen[p] = NoRow /\ at'[p] = a
        /\ seen' = [seen EXCEPT ![p] = NoRow] /\ cseen' = [cseen EXCEPT ![p] = NoRow]
    BY <2>1, <2>2, SMTT(30) DEF Phase, Control, Go
  <2>4. Phase(p)'
    BY <2>1, <2>3, Zenon DEF Phase, What
  <2>5. a \in {"caller", "target", "count", "read", "write"} /\ at[p] # "idle"
    BY <2>1, Zenon
  <2>6. a = "write" /\ What(p) = "pin" => Cardinality(pins) < PinLimit
    BY <2>1, <2>3, Zenon
  <2>7. Go(p, a) /\ UNCHANGED <<rows, job, stale>>
    BY <2>1, Zenon
  <2>8. NoRow \in Member \cup {NoRow} /\ NoRow \in Conversation \cup {NoRow}
    BY Zenon
  <2> QED
    BY <2>3, <2>4, <2>5, <2>6, <2>7, <2>8, ProceedKeeps, Zenon
<1> QED
  BY <1>1, <1>2, Zenon

\* The role of the caller is tested.
LEMMA CallerKeeps ==
    ASSUME IInv, NEW p \in Proc, Caller(p)
    PROVE  IInv'
<1>1. CASE Done(p)
  BY <1>1, RefusedKeeps, Zenon DEF Caller
<1>2. CASE ~Done(p)
  <2>1. PICK a \in {"read", "count", "write", "target"} :
            /\ Go(p, a) /\ UNCHANGED <<rows, stale, job, seen, cseen>> /\ at[p] = "caller"
            /\ a = "write" => What(p) = "unpin"
            /\ a = "read" => What(p) \in {"rename", "dismiss"}
            /\ a = "target" => What(p) \notin {"rename", "dismiss", "pin", "unpin"}
    BY <1>2, SMTT(30) DEF Caller
  <2>2. Phase(p) /\ Control
    BY Zenon DEF IInv, Handlers, GroupTypeOK, Control
  <2>3. /\ seen[p] = NoRow /\ cseen[p] = NoRow /\ at'[p] = a
        /\ seen' = [seen EXCEPT ![p] = NoRow] /\ cseen' = [cseen EXCEPT ![p] = NoRow]
        /\ What(p) \notin {"setting", "draft"}
    BY <2>1, <2>2, SMTT(30) DEF Phase, Control, Go
  <2>4. Phase(p)'
    BY <2>1, <2>3, SMTT(30) DEF Phase, What
  <2>5. a \in {"caller", "target", "count", "read", "write"} /\ at[p] # "idle"
    BY <2>1, Zenon
  <2>6. a = "write" /\ What(p) = "pin" => Cardinality(pins) < PinLimit
    BY <2>1, <2>3, Zenon
  <2>7. Go(p, a) /\ UNCHANGED <<rows, job, stale>>
    BY <2>1, Zenon
  <2>8. NoRow \in Member \cup {NoRow} /\ NoRow \in Conversation \cup {NoRow}
    BY Zenon
  <2> QED
    BY <2>3, <2>4, <2>5, <2>6, <2>7, <2>8, ProceedKeeps, Zenon
<1> QED
  BY <1>1, <1>2, Zenon

\* The row of the target is tested.
LEMMA CheckKeeps ==
    ASSUME IInv, NEW p \in Proc, Check(p)
    PROVE  IInv'
<1>1. CASE Done(p)
  BY <1>1, RefusedKeeps, Zenon DEF Check
<1>2. CASE ~Done(p)
  <2>1. PICK a \in {"read", "write"} :
            /\ Go(p, a) /\ UNCHANGED <<rows, stale, job, seen, cseen>> /\ at[p] = "target"
            /\ a = "read" => What(p) \notin {"transfer", "ack"}
            /\ What(p) = "ack" => Exists(By(p))
    BY <1>2, SMTT(30) DEF Check, Target, Active
  <2>2. Phase(p) /\ Control
    BY Zenon DEF IInv, Handlers, GroupTypeOK, Control
  <2>3. /\ seen[p] = NoRow /\ cseen[p] = NoRow /\ at'[p] = a
        /\ seen' = [seen EXCEPT ![p] = NoRow] /\ cseen' = [cseen EXCEPT ![p] = NoRow]
        /\ What(p) \notin {"pin", "unpin"}
    BY <2>1, <2>2, SMTT(30) DEF Phase, Control, Go
  <2>4. Phase(p)'
    BY <2>1, <2>3, Zenon DEF Phase, What, By, Exists, rows
  <2>5. a \in {"caller", "target", "count", "read", "write"} /\ at[p] # "idle"
    BY <2>1, Zenon
  <2>6. a = "write" /\ What(p) = "pin" => Cardinality(pins) < PinLimit
    BY <2>1, <2>3, Zenon
  <2>7. Go(p, a) /\ UNCHANGED <<rows, job, stale>>
    BY <2>1, Zenon
  <2>8. NoRow \in Member \cup {NoRow} /\ NoRow \in Conversation \cup {NoRow}
    BY Zenon
  <2> QED
    BY <2>3, <2>4, <2>5, <2>6, <2>7, <2>8, ProceedKeeps, Zenon
<1> QED
  BY <1>1, <1>2, Zenon

\* The row of the target is read.
LEMMA ReadKeeps ==
    ASSUME IInv, NEW p \in Proc, Read(p)
    PROVE  IInv'
<1>1. CASE Done(p)
  BY <1>1, RefusedKeeps, Zenon DEF Read
<1>2. CASE ~Done(p)
  <2>1. /\ Go(p, "write") /\ UNCHANGED <<rows, stale, job, cseen>> /\ at[p] = "read"
        /\ Exists(Target(p)) /\ seen' = [seen EXCEPT ![p] = row[Target(p)]]
        /\ What(p) \in {"quit", "remove"} => ~row[Target(p)].quit
    BY <1>2, Zenon DEF Read
  <2>2. Phase(p) /\ Job(p) /\ Control
    BY Zenon DEF IInv, Handlers, GroupTypeOK, Control
  <2>3. Target(p) \in User
    BY <2>1, <2>2, SMTT(30) DEF Job, Target
  <2>4. row[Target(p)] \in Member \cup {NoRow}
    BY <2>3, Zenon DEF IInv, GroupTypeOK
  <2>5. /\ cseen[p] = NoRow /\ at'[p] = "write" /\ seen'[p] = row[Target(p)]
        /\ cseen' = [cseen EXCEPT ![p] = NoRow]
        /\ What(p) \notin {"pin", "unpin", "transfer", "ack"}
    BY <2>1, <2>2, SMTT(30) DEF Phase, Control, Go
  <2>6. Phase(p)'
    BY <2>1, <2>5, Zenon DEF Phase, What
  <2> QED
    <3>1. at[p] # "idle" /\ NoRow \in Conversation \cup {NoRow}
      BY <2>1, Zenon
    <3> QED
      BY <2>1, <2>4, <2>5, <2>6, <3>1, ProceedKeeps, Zenon
<1> QED
  BY <1>1, <1>2, Zenon

\* The conversation row is read.
LEMMA ConvReadKeeps ==
    ASSUME IInv, NEW p \in Proc, ConvRead(p)
    PROVE  IInv'
<1>1. Phase(p) /\ Control /\ conv \in Conversation
  BY Zenon DEF IInv, Handlers, GroupTypeOK, Control
<1>2. /\ Go(p, "write") /\ UNCHANGED <<rows, stale, job, seen>> /\ at[p] = "read"
      /\ What(p) \in {"rename", "dismiss"} /\ cseen' = [cseen EXCEPT ![p] = conv]
  BY Zenon DEF ConvRead
<1>3. seen[p] = NoRow /\ at'[p] = "write" /\ seen' = [seen EXCEPT ![p] = NoRow]
  BY <1>1, <1>2, SMTT(30) DEF Phase, Control, Go
<1>4. Phase(p)'
  BY <1>2, <1>3, SMTT(30) DEF Phase, What
<1> QED
  <2>1. at[p] # "idle" /\ What(p) # "pin" /\ conv \in Conversation \cup {NoRow}
    BY <1>1, <1>2, Zenon
  <2> QED
    BY <1>2, <1>3, <1>4, <2>1, ProceedKeeps, Zenon

-----------------------------------------------------------------------------
(* Steps that write *)

\* What the end of a writing step leaves to be shown: the rows.
LEMMA WrittenKeeps ==
    ASSUME IInv, NEW p \in Proc, Done(p), UNCHANGED pins,
           row' \in [User -> Member \cup {NoRow}], conv' \in Conversation, stale' \in BOOLEAN,
           \A u \in User : Exists(u) => Exists(u)',
           OwnerAgrees', CountCovers'
    PROVE  IInv'
<1>1. Control' /\ Handlers' /\ Pinning' = Pinning \ {p}
  BY DoneKeeps, Zenon DEF IInv, GroupTypeOK, Control
<1>2. PinRoom'
  BY <1>1, FewerPins, Zenon DEF IInv
<1> QED
  BY <1>1, <1>2, Zenon DEF IInv, GroupTypeOK, Control

\* A member row with another mark.
LEMMA QuitSet ==
    ASSUME NEW m \in Member, NEW b \in BOOLEAN
    PROVE  /\ [m EXCEPT !.quit = b] \in Member
           /\ [m EXCEPT !.quit = b].role = m.role /\ [m EXCEPT !.quit = b].quit = b
BY SMTT(30) DEF Member

\* A member row with another role.
LEMMA RoleSet ==
    ASSUME NEW m \in Member, NEW r \in Role
    PROVE  /\ [m EXCEPT !.role = r] \in Member
           /\ [m EXCEPT !.role = r].role = r /\ [m EXCEPT !.role = r].quit = m.quit
BY SMTT(30) DEF Member

\* A member row with another mark and another role.
LEMMA RejoinSet ==
    ASSUME NEW m \in Member, NEW b \in BOOLEAN, NEW r \in Role
    PROVE  /\ [m EXCEPT !.quit = b, !.role = r] \in Member
           /\ [m EXCEPT !.quit = b, !.role = r].role = r
<1>1. [m EXCEPT !.quit = b, !.role = r] = [[m EXCEPT !.quit = b] EXCEPT !.role = r]
  BY Zenon
<1>2. [m EXCEPT !.quit = b] \in Member
  BY QuitSet, Zenon
<1>3. \A n \in Member : [n EXCEPT !.role = r] \in Member /\ [n EXCEPT !.role = r].role = r
  BY RoleSet, Zenon
<1> QED
  BY <1>1, <1>2, <1>3, Zenon

\* A count that goes up or down is a count.
LEMMA AddCountType ==
    ASSUME GroupTypeOK, NEW n \in Int
    PROVE  /\ AddCount(n) \in Conversation
           /\ AddCount(n).owner = conv.owner
BY SMTT(30) DEF GroupTypeOK, Conversation, AddCount

\* A row is written back.
LEMMA WriteKeeps ==
    ASSUME IInv, NEW p \in Proc, Write(p)
    PROVE  IInv'
<1> DEFINE u == Target(p)
<1>1. GroupTypeOK /\ Job(p) /\ Phase(p) /\ at[p] = "write" /\ seen[p] # NoRow
  BY Zenon DEF IInv, Handlers, Write
<1>2. u \in User /\ seen[p] \in Member
  BY <1>1, SMTT(30) DEF Job, Target, GroupTypeOK
<1>3. What(p) \notin {"pin", "unpin", "transfer", "ack"} /\ (What(p) \in {"quit", "remove"} => ~seen[p].quit)
  BY <1>1, Zenon DEF Phase
<1>4. /\ Changed(p) \in Member
      /\ What(p) \notin {"add", "role"} => Changed(p).role = seen[p].role
      /\ What(p) \in {"add", "role"} => Changed(p).role # "OWNER"
      /\ What(p) \notin {"quit", "remove", "add"} => Changed(p).quit = seen[p].quit
      /\ What(p) \in {"quit", "remove"} => Changed(p).quit
  <2>1. CASE What(p) \in {"quit", "remove"}
    <3>1. Changed(p) = [seen[p] EXCEPT !.quit = TRUE]
      BY <2>1, SMTT(30) DEF Changed
    <3>2. Changed(p) \in Member /\ Changed(p).role = seen[p].role /\ Changed(p).quit = TRUE
      BY <1>2, <3>1, QuitSet, Zenon
    <3> QED
      BY <2>1, <3>2, Zenon
  <2>2. CASE What(p) = "add"
    <3>1. Changed(p) = [seen[p] EXCEPT !.quit = FALSE, !.role = "NORMAL"]
      BY <2>2, SMTT(30) DEF Changed
    <3>2. FALSE \in BOOLEAN /\ "NORMAL" \in Role
      BY Zenon DEF Role
    <3>3. /\ [seen[p] EXCEPT !.quit = FALSE, !.role = "NORMAL"] \in Member
          /\ [seen[p] EXCEPT !.quit = FALSE, !.role = "NORMAL"].role = "NORMAL"
      BY <1>2, <3>2, RejoinSet, Zenon
    <3>4. Changed(p) \in Member /\ Changed(p).role = "NORMAL"
      BY <3>1, <3>3, Zenon
    <3> QED
      BY <2>2, <3>4, Zenon
  <2>3. CASE What(p) = "role"
    <3>1. Changed(p) = [seen[p] EXCEPT !.role = Arg(p)[2]] /\ Arg(p)[2] \in {"NORMAL", "ADMIN"}
      BY <1>1, <2>3, SMTT(30) DEF Changed, Job
    <3> QED
      BY <1>2, <2>3, <3>1, SMTT(30) DEF Member, Role
  <2>4. CASE What(p) \notin {"quit", "remove", "add", "role"}
    <3>1. Changed(p) = seen[p]
      BY <2>4, SMTT(30) DEF Changed
    <3> QED
      BY <1>2, <2>4, <3>1, Zenon
  <2> QED
    BY <2>1, <2>2, <2>3, <2>4, Zenon
<1>5. /\ conv' \in Conversation /\ conv'.owner = conv.owner
      /\ What(p) \in {"quit", "remove"} => conv' = AddCount(-1)
      /\ What(p) = "add" => conv' = AddCount(1)
      /\ What(p) \notin {"quit", "remove", "add"} => conv' = conv
  <2>1. conv' = Counted(p)
    BY Zenon DEF Write
  <2>2. CASE What(p) \in {"quit", "remove"}
    BY <1>1, <2>1, <2>2, AddCountType, SMTT(30) DEF Counted
  <2>3. CASE What(p) = "add"
    BY <1>1, <2>1, <2>3, AddCountType, SMTT(30) DEF Counted
  <2>4. CASE What(p) \notin {"quit", "remove", "add"}
    BY <1>1, <2>1, <2>4, SMTT(30) DEF Counted, GroupTypeOK
  <2> QED
    BY <2>2, <2>3, <2>4, Zenon
<1>6. /\ row' = [row EXCEPT ![u] = Changed(p)] /\ Done(p) /\ UNCHANGED pins
      /\ stale' = (stale \/ row[u] # seen[p])
  BY Zenon DEF Write
<1> HIDE DEF u
<1>7. /\ row' \in [User -> Member \cup {NoRow}] /\ row'[u] = Changed(p)
      /\ \A v \in User \ {u} : row'[v] = row[v]
  BY <1>1, <1>2, <1>4, <1>6, SMTT(30) DEF GroupTypeOK
<1>8. \A v \in User : Exists(v) => Exists(v)'
  BY GroupAssumption, <1>4, <1>7, Zenon DEF Exists
<1>9. OwnerAgrees'
  <2> SUFFICES ASSUME ~stale', NEW v \in User, row'[v] # NoRow, row'[v].role = "OWNER"
               PROVE  conv'.owner = v
    BY Zenon DEF OwnerAgrees, Exists
  <2>1. ~stale /\ row[u] = seen[p]
    BY <1>6, Zenon
  <2>2. row[v] # NoRow /\ row[v].role = "OWNER"
    BY <1>1, <1>4, <1>7, <2>1, Zenon
  <2> QED
    BY <1>5, <2>1, <2>2, Zenon DEF IInv, OwnerAgrees, Exists
<1>10. CountCovers'
  <2> SUFFICES ASSUME ~stale'
               PROVE  Cardinality(Members') <= conv'.count
    BY Zenon DEF CountCovers, Members
  <2>1. ~stale /\ row[u] = seen[p] /\ CountCovers
    BY <1>6, Zenon DEF IInv
  <2>2. CASE What(p) \in {"quit", "remove"}
    <3>1. u \in Members
      BY <1>1, <1>2, <1>3, <2>1, <2>2, Zenon DEF Members, Active, Exists
    <3>2. Members' \subseteq Members \ {u}
      BY <1>4, <1>7, <2>2, Zenon DEF Members, Active, Exists
    <3> QED
      BY <1>1, <1>5, <2>1, <2>2, <3>1, <3>2, MemberRemoved, Zenon
  <2>3. CASE What(p) = "add"
    <3>1. Members' \subseteq Members \cup {u}
      BY <1>7, Zenon DEF Members, Active, Exists
    <3> QED
      BY <1>1, <1>5, <2>1, <2>3, <3>1, MemberAdded, Zenon
  <2>4. CASE What(p) \notin {"quit", "remove", "add"}
    <3>1. Members' = Members
      BY <1>1, <1>2, <1>4, <1>7, <1>8, <2>1, <2>4, Zenon DEF Members, Active, Exists
    <3> QED
      BY <1>5, <2>1, <2>4, <3>1, Zenon DEF CountCovers, Members
  <2> QED
    BY <2>2, <2>3, <2>4, Zenon
<1>11. stale' \in BOOLEAN
  BY <1>6, Zenon
<1> QED
  BY <1>5, <1>6, <1>7, <1>8, <1>9, <1>10, <1>11, WrittenKeeps, Zenon

\* A row is inserted.
LEMMA AppendKeeps ==
    ASSUME IInv, NEW p \in Proc, Append(p)
    PROVE  IInv'
<1> DEFINE u == Arg(p)
<1>1. GroupTypeOK /\ OwnerAgrees /\ CountCovers /\ Job(p)
  BY Zenon DEF IInv, Handlers
<1>2. Done(p) /\ UNCHANGED <<pins, stale>> /\ at[p] = "write" /\ What(p) = "add"
  BY Zenon DEF Append
<1>3. u \in User
  BY <1>1, <1>2, Zenon DEF Job
<1>4. CASE Exists(u)
  BY <1>2, <1>4, RefusedKeeps, Zenon DEF Append, rows
<1>5. CASE ~Exists(u)
  <2>1. row' = [row EXCEPT ![u] = NewRow("NORMAL")] /\ conv' = AddCount(1)
    BY <1>5, Zenon DEF Append
  <2>2. /\ NewRow("NORMAL") \in Member /\ NewRow("NORMAL").role # "OWNER"
    BY GroupAssumption, SMTT(30) DEF NewRow, Member, Role
  <2> HIDE DEF u
  <2>3. /\ row' \in [User -> Member \cup {NoRow}] /\ row'[u] = NewRow("NORMAL")
        /\ \A v \in User \ {u} : row'[v] = row[v]
    BY <1>1, <1>3, <2>1, <2>2, SMTT(30) DEF GroupTypeOK
  <2>4. \A v \in User : Exists(v) => Exists(v)'
    BY GroupAssumption, <2>2, <2>3, Zenon DEF Exists
  <2>5. conv' \in Conversation /\ conv'.owner = conv.owner
    BY <1>1, <2>1, AddCountType, SMTT(30)
  <2>6. OwnerAgrees'
    BY <1>1, <1>2, <2>2, <2>3, <2>5, Zenon DEF OwnerAgrees, Exists
  <2>7. CountCovers'
    <3> SUFFICES ASSUME ~stale'
                 PROVE  Cardinality(Members') <= conv'.count
      BY Zenon DEF CountCovers, Members
    <3>1. Members' \subseteq Members \cup {u} /\ ~stale
      BY <1>2, <2>3, Zenon DEF Members, Active, Exists
    <3> QED
      BY <1>1, <2>1, <3>1, MemberAdded, Zenon
  <2>8. stale' \in BOOLEAN
    BY <1>1, <1>2, Zenon DEF GroupTypeOK
  <2> QED
    BY <1>2, <2>3, <2>4, <2>5, <2>6, <2>7, <2>8, WrittenKeeps, Zenon
<1> QED
  BY <1>4, <1>5, Zenon

\* The conversation row is written back.
LEMMA ConvWriteKeeps ==
    ASSUME IInv, NEW p \in Proc, ConvWrite(p)
    PROVE  IInv'
<1>1. GroupTypeOK /\ OwnerAgrees /\ CountCovers
  BY Zenon DEF IInv
<1>2. /\ Done(p) /\ UNCHANGED <<row, pins>> /\ cseen[p] \in Conversation
      /\ stale' = (stale \/ conv # cseen[p])
  BY <1>1, Zenon DEF ConvWrite, GroupTypeOK
<1>3. conv' = IF What(p) = "dismiss" THEN [cseen[p] EXCEPT !.status = "DISMISSED"] ELSE cseen[p]
  BY Zenon DEF ConvWrite
<1>4. conv' \in Conversation /\ conv'.owner = cseen[p].owner /\ conv'.count = cseen[p].count
  BY <1>2, <1>3, SMTT(30) DEF Conversation
<1>5. ~stale' => ~stale /\ conv'.owner = conv.owner /\ conv'.count = conv.count
  BY <1>2, <1>4, Zenon
<1>6. OwnerAgrees' /\ CountCovers' /\ \A u \in User : Exists(u) => Exists(u)'
  BY <1>1, <1>2, <1>5, Zenon DEF OwnerAgrees, CountCovers, Exists, Active
<1>7. row' \in [User -> Member \cup {NoRow}] /\ stale' \in BOOLEAN /\ UNCHANGED pins
  BY <1>1, <1>2, Zenon DEF GroupTypeOK
<1> QED
  BY <1>2, <1>4, <1>6, <1>7, WrittenKeeps, Zenon

\* A row keeps its mark, and no row goes: what transfer_owner and
\* _atomic_advance_seq have in common.
LEMMA MarksKept ==
    ASSUME GroupTypeOK, CountCovers, UNCHANGED stale, conv'.count = conv.count,
           \A u \in User : Exists(u)' = Exists(u) /\ (Exists(u) => row'[u].quit = row[u].quit)
    PROVE  CountCovers'
<1>1. Members' = Members
  BY Zenon DEF Members, Active
<1> QED
  BY <1>1, Zenon DEF CountCovers, Members

\* The owner changes.
LEMMA TransferKeeps ==
    ASSUME IInv, NEW p \in Proc, Transfer(p)
    PROVE  IInv'
<1> DEFINE a == By(p)
           b == Arg(p)
<1>1. GroupTypeOK /\ OwnerAgrees /\ CountCovers /\ Job(p)
  BY Zenon DEF IInv, Handlers
<1>2. Done(p) /\ UNCHANGED <<pins, stale>> /\ at[p] = "write" /\ What(p) = "transfer"
  BY Zenon DEF Transfer
<1>3. a \in User /\ b \in User /\ a # b
  BY <1>1, <1>2, Zenon DEF Job
<1>4. CASE ~(Exists(a) /\ Active(b) /\ row[a].role = "OWNER")
  BY <1>2, <1>4, RefusedKeeps, Zenon DEF Transfer, rows
<1>5. CASE Exists(a) /\ Active(b) /\ row[a].role = "OWNER"
  <2>1. /\ row' = [row EXCEPT ![a].role = "ADMIN", ![b].role = "OWNER"]
        /\ conv' = [conv EXCEPT !.owner = b]
    BY <1>5, Zenon DEF Transfer
  <2> HIDE DEF a, b
  <2>2. row[a] \in Member /\ row[b] \in Member
    BY <1>1, <1>3, <1>5, Zenon DEF GroupTypeOK, Exists, Active
  <2>3. /\ row'[a] = [row[a] EXCEPT !.role = "ADMIN"] /\ row'[b] = [row[b] EXCEPT !.role = "OWNER"]
        /\ \A v \in User \ {a, b} : row'[v] = row[v]
        /\ row' \in [User -> Member \cup {NoRow}]
    <3>1. [row[a] EXCEPT !.role = "ADMIN"] \in Member /\ [row[b] EXCEPT !.role = "OWNER"] \in Member
      BY <2>2, SMTT(30) DEF Member, Role
    <3> QED
      BY <1>1, <1>3, <2>1, <3>1, SMTT(30) DEF GroupTypeOK
  <2>4. /\ row'[a].role = "ADMIN" /\ row'[a] \in Member /\ row'[b] \in Member
        /\ row'[a].quit = row[a].quit /\ row'[b].quit = row[b].quit
    BY <2>2, <2>3, SMTT(30) DEF Member, Role
  <2>5. conv' \in Conversation /\ conv'.owner = b /\ conv'.count = conv.count
    BY <1>1, <1>3, <2>1, SMTT(30) DEF GroupTypeOK, Conversation
  <2>6. \A v \in User : Exists(v)' = Exists(v) /\ (Exists(v) => row'[v].quit = row[v].quit)
    <3> SUFFICES ASSUME NEW v \in User
                 PROVE  Exists(v)' = Exists(v) /\ (Exists(v) => row'[v].quit = row[v].quit)
      OBVIOUS
    <3>1. CASE v \in {a, b}
      BY GroupAssumption, <2>2, <2>4, <3>1, SMTT(30) DEF Exists
    <3>2. CASE v \notin {a, b}
      BY <2>3, <3>2, Zenon DEF Exists
    <3> QED
      BY <3>1, <3>2, Zenon
  <2>7. OwnerAgrees'
    <3> SUFFICES ASSUME ~stale, NEW v \in User, row'[v] # NoRow, row'[v].role = "OWNER"
                 PROVE  v = b
      BY <1>2, <2>5, Zenon DEF OwnerAgrees, Exists
    <3>1. conv.owner = a
      BY <1>1, <1>3, <1>5, Zenon DEF OwnerAgrees
    <3>2. v # a
      BY <2>4, Zenon
    <3>3. v # b => row[v] # NoRow /\ row[v].role = "OWNER"
      BY <2>3, <3>2, Zenon
    <3> QED
      BY <1>1, <3>1, <3>2, <3>3, Zenon DEF OwnerAgrees, Exists
  <2>8. CountCovers'
    BY <1>1, <1>2, <2>5, <2>6, MarksKept, Zenon
  <2>9. stale' \in BOOLEAN /\ UNCHANGED pins
    BY <1>1, <1>2, Zenon DEF GroupTypeOK
  <2> QED
    BY <1>2, <2>3, <2>5, <2>6, <2>7, <2>8, <2>9, WrittenKeeps, Zenon
<1> QED
  BY <1>4, <1>5, Zenon

\* What an acknowledgement does to the rows.
LEMMA AdvanceRows ==
    ASSUME IInv, NEW p \in Proc, Advance(p)
    PROVE  /\ By(p) \in User /\ row[By(p)] \in Member
           /\ row' \in [User -> Member \cup {NoRow}]
           /\ row'[By(p)] \in Member /\ row'[By(p)].quit = row[By(p)].quit
           /\ row'[By(p)].role = row[By(p)].role /\ row[By(p)].ack <= row'[By(p)].ack
           /\ \A v \in User \ {By(p)} : row'[v] = row[v]
<1> DEFINE u == By(p)
           n == IF row[u].ack < Arg(p) THEN Arg(p) ELSE row[u].ack
<1>1. GroupTypeOK /\ Job(p) /\ Phase(p) /\ at[p] = "write" /\ What(p) = "ack"
  BY Zenon DEF IInv, Handlers, Advance
<1>2. u \in User /\ Arg(p) \in 1..MaxAck /\ row[u] # NoRow
  BY <1>1, Zenon DEF Job, Phase, Exists
<1>3. row[u] \in Member
  BY <1>1, <1>2, Zenon DEF GroupTypeOK
<1>4. row' = [row EXCEPT ![u] = [row[u] EXCEPT !.ack = n]]
  BY <1>1, <1>2, <1>3, SMTT(30) DEF Advance, GroupTypeOK, Member
<1>5. n \in 0..MaxAck /\ row[u].ack <= n
  BY <1>2, <1>3, SMTT(30) DEF Member
<1> HIDE DEF u, n
<1>6. /\ [row[u] EXCEPT !.ack = n] \in Member /\ [row[u] EXCEPT !.ack = n].quit = row[u].quit
      /\ [row[u] EXCEPT !.ack = n].role = row[u].role /\ [row[u] EXCEPT !.ack = n].ack = n
  BY <1>3, <1>5, SMTT(30) DEF Member
<1>7. /\ row' \in [User -> Member \cup {NoRow}] /\ row'[u] = [row[u] EXCEPT !.ack = n]
      /\ \A v \in User \ {u} : row'[v] = row[v]
  BY <1>1, <1>2, <1>4, <1>6, SMTT(30) DEF GroupTypeOK
<1> QED
  BY <1>2, <1>3, <1>5, <1>6, <1>7, SMTT(30) DEF u

\* A position is acknowledged.
LEMMA AdvanceKeeps ==
    ASSUME IInv, NEW p \in Proc, Advance(p)
    PROVE  IInv'
<1> DEFINE u == By(p)
<1>1. /\ u \in User /\ row[u] \in Member
      /\ row' \in [User -> Member \cup {NoRow}]
      /\ row'[u] \in Member /\ row'[u].quit = row[u].quit /\ row'[u].role = row[u].role
      /\ \A v \in User \ {u} : row'[v] = row[v]
  BY AdvanceRows, Zenon
<1>2. Done(p) /\ UNCHANGED <<conv, pins, stale>>
  BY Zenon DEF Advance
<1>3. GroupTypeOK /\ OwnerAgrees /\ CountCovers
  BY Zenon DEF IInv
<1> HIDE DEF u
<1>4. \A v \in User : Exists(v)' = Exists(v) /\ (Exists(v) => row'[v].quit = row[v].quit)
  <2>1. row[u] # NoRow /\ row'[u] # NoRow
    BY GroupAssumption, <1>1, Zenon
  <2> QED
    BY <1>1, <2>1, Zenon DEF Exists
<1>5. OwnerAgrees'
  BY <1>1, <1>2, <1>3, <1>4, Zenon DEF OwnerAgrees, Exists
<1>6. CountCovers'
  BY <1>2, <1>3, <1>4, MarksKept, Zenon
<1>7. conv' \in Conversation /\ stale' \in BOOLEAN /\ UNCHANGED pins
  BY <1>2, <1>3, Zenon DEF GroupTypeOK
<1> QED
  BY <1>1, <1>2, <1>4, <1>5, <1>6, <1>7, WrittenKeeps, Zenon

\* A message is pinned or unpinned.
LEMMA PinKeeps ==
    ASSUME IInv, NEW p \in Proc, Pin(p)
    PROVE  IInv'
<1>1. GroupTypeOK /\ Control /\ Handlers /\ PinRoom /\ OwnerAgrees /\ CountCovers /\ Job(p)
  BY Zenon DEF IInv, GroupTypeOK, Control, Handlers
<1>2. Done(p) /\ UNCHANGED <<row, conv, stale>> /\ at[p] = "write" /\ What(p) \in {"pin", "unpin"}
  BY Zenon DEF Pin
<1>3. Control' /\ Handlers' /\ Pinning' = Pinning \ {p}
  BY <1>1, <1>2, DoneKeeps, Zenon DEF Exists
<1>4. OwnerAgrees' /\ CountCovers'
  BY <1>1, <1>2, Zenon DEF OwnerAgrees, CountCovers, Exists, Active
<1>5. CASE What(p) = "pin"
  <2>1. pins' = pins \cup {Arg(p)} /\ p \in Pinning /\ Arg(p) \in Msg
    BY <1>1, <1>2, <1>5, Zenon DEF Pin, Pinning, Job
  <2>2. PinRoom'
    BY <1>1, <1>3, <2>1, PinWritten, Zenon
  <2> QED
    BY <1>1, <1>2, <1>3, <1>4, <2>1, <2>2, Zenon DEF IInv, GroupTypeOK, Control
<1>6. CASE What(p) # "pin"
  <2>1. pins' \subseteq pins
    BY <1>6, Zenon DEF Pin
  <2>2. PinRoom'
    BY <1>1, <1>3, <2>1, FewerPins, Zenon
  <2> QED
    BY <1>1, <1>2, <1>3, <1>4, <2>1, <2>2, Zenon DEF IInv, GroupTypeOK, Control
<1> QED
  BY <1>5, <1>6, Zenon

-----------------------------------------------------------------------------
(* Theorems *)

\* A step of a handler keeps the invariant.
LEMMA StepKeeps == ASSUME IInv, [GroupNext]_groupVars PROVE IInv'
<1>1. CASE UNCHANGED groupVars
  <2>1. UNCHANGED <<rows, at, job, seen, cseen, stale>>
    BY <1>1, Zenon DEF groupVars
  <2>2. Handlers'
    BY <2>1, Zenon DEF IInv, Handlers, Job, Phase, What, By, Arg, Exists, rows
  <2>3. PinRoom'
    BY <2>1, Zenon DEF IInv, PinRoom, Pinning, What, rows
  <2>4. Control'
    BY <2>1, Zenon DEF IInv, GroupTypeOK, Control
  <2> QED
    BY <2>1, <2>2, <2>3, <2>4, SameRows, Zenon DEF IInv
<1>2. CASE GroupNext
  BY <1>2, BeginKeeps, CountKeeps, CallerKeeps, CheckKeeps, ReadKeeps, WriteKeeps, AppendKeeps,
     ConvReadKeeps, ConvWriteKeeps, TransferKeeps, AdvanceKeeps, PinKeeps, Zenon DEF GroupNext
<1> QED
  BY <1>1, <1>2, Zenon

\* A new group satisfies the invariant.
LEMMA InitKeeps == ASSUME GroupInit PROVE IInv
<1>1. NewRow("OWNER") \in Member /\ NewRow("NORMAL") \in Member
  BY GroupAssumption, SMTT(30) DEF NewRow, Member, Role
<1>2. NewRow("NORMAL").role # "OWNER"
  BY Zenon DEF NewRow
<1>3. Cardinality(First) \in Nat
  BY GroupAssumption, FS_Subset, FS_CardinalityType, Zenon
<1>4. GroupTypeOK
  <2>1. conv \in Conversation
    BY GroupAssumption, <1>3, SMTT(30) DEF GroupInit, Conversation
  <2>2. row \in [User -> Member \cup {NoRow}]
    BY <1>1, Zenon DEF GroupInit
  <2> QED
    BY <2>1, <2>2, Zenon DEF GroupInit, GroupTypeOK
<1>5. Handlers
  BY Zenon DEF GroupInit, Handlers, Job, Phase
<1>6. PinRoom
  <2>1. Pinning = {} /\ pins = {}
    BY Zenon DEF GroupInit, Pinning
  <2>2. /\ IsFiniteSet({}) /\ Cardinality({}) = 0 /\ Cardinality(Proc) \in Nat
        /\ PinLimit \in Nat \ {0}
    BY GroupAssumption, FS_EmptySet, FS_CardinalityType, Zenon
  <2> QED
    BY <2>1, <2>2, SMTT(30) DEF PinRoom
<1>7. OwnerAgrees
  BY <1>2, SMTT(30) DEF GroupInit, OwnerAgrees, Exists
<1>8. CountCovers
  <2>1. {u \in User : Active(u)} = First
    <3>1. NewRow("OWNER").quit = FALSE /\ NewRow("NORMAL").quit = FALSE
      BY Zenon DEF NewRow
    <3>2. NewRow("OWNER") # NoRow /\ NewRow("NORMAL") # NoRow
      BY GroupAssumption, <1>1, Zenon
    <3>3. ASSUME NEW u \in User
          PROVE  Active(u) <=> u \in First
      BY GroupAssumption, <3>1, <3>2, Zenon DEF GroupInit, Active, Exists
    <3> QED
      BY GroupAssumption, <3>3, Zenon
  <2> QED
    BY <1>3, <2>1, SMTT(30) DEF GroupInit, CountCovers
<1> QED
  BY <1>4, <1>5, <1>6, <1>7, <1>8, Zenon DEF IInv

\* Types, the requests of the handlers and the three conditions on the rows
\* hold together in every reachable state.
THEOREM GroupInvariance == GroupSpec => []IInv
<1>1. GroupInit => IInv
  BY InitKeeps, Zenon
<1>2. IInv /\ [GroupNext]_groupVars => IInv'
  BY StepKeeps, Zenon
<1> QED
  BY <1>1, <1>2, PTL DEF GroupSpec

\* However transfers, role changes, removals and returns overlap, as long as no
\* row is written back after it has changed a group has at most one OWNER, the
\* owner_id of its conversation row (transfer_owner, update_role, rejoin).
THEOREM OneOwner == GroupSpec => []OwnerAgrees
<1>1. IInv => OwnerAgrees
  BY Zenon DEF IInv
<1> QED
  BY <1>1, GroupInvariance, PTL

\* Under the same condition member_count covers the active members (set_quit,
\* rejoin, append, _update_session_member_count).
THEOREM CountIsEnough == GroupSpec => []CountCovers
<1>1. IInv => CountCovers
  BY Zenon DEF IInv
<1> QED
  BY <1>1, GroupInvariance, PTL

\* Any number of handlers that pin at the same time exceed the limit by less
\* than one message each (PinMessage).
THEOREM PinsAreBounded == GroupSpec => []PinsBounded
<1>1. IInv => PinsBounded
  <2> SUFFICES ASSUME PinRoom PROVE PinsBounded
    BY Zenon DEF IInv
  <2>1. IsFiniteSet(Pinning)
    BY GroupAssumption, FS_Subset, Zenon DEF Pinning
  <2>2. /\ Cardinality(Pinning) \in Nat /\ Cardinality(pins) \in Nat
        /\ Cardinality(Proc) \in Nat /\ PinLimit \in Nat
    BY GroupAssumption, <2>1, FS_CardinalityType, Zenon DEF PinRoom
  <2> QED
    BY <2>2, SMTT(30) DEF PinRoom, PinsBounded
<1> QED
  BY <1>1, GroupInvariance, PTL

\* An acknowledged position moves back only by a row written back after it had
\* changed, whatever else happens to the group (_atomic_advance_seq, rejoin,
\* set_quit, transfer_owner).
THEOREM AcksStay == GroupSpec => AckKept
<1>1. IInv /\ [GroupNext]_groupVars => [AckNotBack]_groupVars
  <2> SUFFICES ASSUME IInv, GroupNext, ~stale', NEW u \in User, Exists(u)
               PROVE  row[u].ack <= row'[u].ack
    BY Zenon DEF AckNotBack
  <2>1. row[u] \in Member /\ row[u].ack \in Nat /\ row[u].ack <= row[u].ack
    BY GroupAssumption, SMTT(30) DEF IInv, GroupTypeOK, Exists, Member
  <2>2. SUFFICES ASSUME row'[u] # row[u]
                 PROVE  row[u].ack <= row'[u].ack
    BY <2>1, Zenon
  <2>3. PICK p \in Proc : Write(p) \/ Append(p) \/ Transfer(p) \/ Advance(p)
    BY <2>2, Zenon DEF GroupNext, Begin, Count, Caller, Check, Read, ConvRead, ConvWrite, Pin, rows
  <2>4. GroupTypeOK /\ Job(p)
    BY Zenon DEF IInv, Handlers
  <2>5. CASE Write(p)
    <3>1. row' = [row EXCEPT ![Target(p)] = Changed(p)] /\ row[Target(p)] = seen[p]
      BY <2>5, Zenon DEF Write
    <3>2. u = Target(p)
      BY <2>2, <2>4, <3>1, SMTT(30) DEF GroupTypeOK
    <3>3. row'[u] = Changed(p) /\ seen[p] = row[u]
      BY <2>4, <3>1, <3>2, SMTT(30) DEF GroupTypeOK
    <3>4. Changed(p).ack = seen[p].ack
      <4>1. seen[p] \in Member
        BY <2>1, <3>3, Zenon
      <4>2. \A b \in BOOLEAN : \A r : [seen[p] EXCEPT !.quit = b].ack = seen[p].ack
                 /\ [seen[p] EXCEPT !.role = r].ack = seen[p].ack
                 /\ [seen[p] EXCEPT !.quit = b, !.role = r].ack = seen[p].ack
        BY <4>1, SMTT(30) DEF Member
      <4> QED
        BY <4>1, <4>2, Zenon DEF Changed
    <3> QED
      BY <2>1, <3>3, <3>4, Zenon
  <2>6. CASE Append(p)
    <3>1. u # Arg(p) /\ row' = [row EXCEPT ![Arg(p)] = NewRow("NORMAL")]
      BY <2>2, <2>6, Zenon DEF Append
    <3> QED
      BY <2>2, <2>4, <3>1, SMTT(30) DEF GroupTypeOK
  <2>7. CASE Transfer(p)
    <3>1. /\ row' = [row EXCEPT ![By(p)].role = "ADMIN", ![Arg(p)].role = "OWNER"]
          /\ By(p) \in User /\ Arg(p) \in User /\ By(p) # Arg(p)
      BY <2>2, <2>4, <2>7, Zenon DEF Transfer, Job
    <3>2. \E r \in Role : row'[u] = [row[u] EXCEPT !.role = r]
      BY <2>2, <2>4, <3>1, SMTT(30) DEF GroupTypeOK, Role
    <3> QED
      BY <2>1, <3>2, SMTT(30) DEF Member
  <2>8. CASE Advance(p)
    BY <2>1, <2>8, AdvanceRows, Zenon
  <2> QED
    BY <2>3, <2>5, <2>6, <2>7, <2>8, Zenon
<1> QED
  BY <1>1, GroupInvariance, PTL DEF GroupSpec, AckKept
=============================================================================
