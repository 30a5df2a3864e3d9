---------------------------- MODULE WorkerIdsProofs ----------------------------
(***************************************************************************)
(* Proofs about WorkerIds, for any number of instances, slots and faults,  *)
(* any sequence width and any clocks.                                      *)
(***************************************************************************)
EXTENDS WorkerIds, TLAPS

\* Where an instance is in its life says what it has.
Life ==
    \A i \in Inst :
        /\ pc[i] = "up" => id[i] \in Slot
        /\ pc[i] \in {"new", "scan"} => issued[i] = {} /\ i \notin lost \cup cut
        /\ i \notin lost => fails[i] < MaxFails

TypeInv == TypeOK /\ Life

\* The generator of an instance is not behind the ids the instance drew.
Drawn ==
    \A i \in Inst : \A x \in issued[i] :
        /\ x[2] = id[i]
        /\ pc[i] = "up" => x[1] < lastTs[i] \/ (x[1] = lastTs[i] /\ x[3] <= sequence[i])

\* An instance without doubt owns the key of its worker id.
Owning ==
    \A i \in Inst \ doubt : pc[i] = "up" =>
        i \in leased /\ i \notin lost \cup cut /\ owner[id[i]] = i

\* What the others drew under its worker id is older than its clock.
Ahead ==
    \A i, j \in Inst \ doubt : i # j /\ pc[i] = "up" =>
        \A x \in issued[j] : x[2] = id[i] => x[1] < clock[i]

\* Two instances without doubt never used a worker id in one millisecond.
Apart ==
    \A i, j \in Inst \ doubt : i # j =>
        \A x \in issued[i], y \in issued[j] : x[1] # y[1] \/ x[2] # y[2]

IInv == TypeInv /\ Drawn /\ Owning /\ Ahead /\ Apart

-----------------------------------------------------------------------------
(* Bit fields *)

\* A larger digit is worth more than anything below it.
LEMMA Digits ==
    ASSUME NEW M \in Nat \ {0}, NEW a \in Nat, NEW b \in Nat, a < b
    PROVE  a * M \in Nat /\ b * M \in Nat /\ a * M + M <= b * M
<1>1. PICK d \in Nat : b = a + 1 + d
  <2>1. b - a - 1 \in Nat /\ b = a + 1 + (b - a - 1)
    OBVIOUS
  <2> QED
    BY <2>1
<1>2. b * M = a * M + M + d * M
  BY <1>1
<1>3. d * M \in Nat /\ a * M \in Nat /\ b * M \in Nat
  OBVIOUS
<1> QED
  BY <1>2, <1>3

\* An id with a later timestamp, or the same one and a higher sequence number,
\* under the same worker id is larger.
LEMMA ComposeIncreases ==
    ASSUME NEW x \in Id, NEW y \in Id, x[2] = y[2],
           y[1] < x[1] \/ (y[1] = x[1] /\ y[3] < x[3])
    PROVE  Compose(y) < Compose(x)
<1> DEFINE M == MaxSeq + 1
           P == y[1] * NSlots + y[2]
           Q == x[1] * NSlots + x[2]
<1>0. /\ M \in Nat \ {0} /\ NSlots \in Nat \ {0}
      /\ x[1] \in Nat /\ y[1] \in Nat /\ x[2] \in Nat /\ y[2] \in Nat
      /\ x[3] \in Nat /\ y[3] \in Nat /\ y[3] < M
  BY WorkerIdsAssumption DEF Id, Slot
<1>1. P \in Nat /\ Q \in Nat
  BY <1>0
<1>2. Compose(x) = Q * M + x[3] /\ Compose(y) = P * M + y[3]
  BY DEF Compose
<1>3. CASE y[1] < x[1]
  <2>1. P < Q
    BY <1>0, <1>3, Digits
  <2> HIDE DEF P, Q, M
  <2>2. P * M + M <= Q * M /\ P * M \in Nat /\ Q * M \in Nat
    BY <1>0, <1>1, <2>1, Digits
  <2> QED
    BY <1>0, <1>2, <2>2
<1>4. CASE y[1] = x[1] /\ y[3] < x[3]
  <2>1. P = Q /\ Q * M \in Nat
    BY <1>0, <1>1, <1>4
  <2> QED
    BY <1>0, <1>2, <1>4, <2>1
<1> QED
  BY <1>3, <1>4

\* An id determines its bit fields.
LEMMA ComposeInjective ==
    ASSUME NEW x \in Id, NEW y \in Id, Compose(x) = Compose(y)
    PROVE  x[1] = y[1] /\ x[2] = y[2]
<1>1. ASSUME NEW M \in Nat \ {0}, NEW a \in Nat, NEW b \in Nat, NEW u \in Nat, NEW v \in Nat,
             u < M, v < M, a * M + u = b * M + v
      PROVE  a = b /\ u = v
  <2>1. ~(a < b)
    BY <1>1, Digits
  <2>2. ~(b < a)
    BY <1>1, Digits
  <2>3. a = b
    BY <2>1, <2>2
  <2>4. a * M \in Nat
    OBVIOUS
  <2> QED
    BY <1>1, <2>3, <2>4
<1> DEFINE M == MaxSeq + 1
           P == y[1] * NSlots + y[2]
           Q == x[1] * NSlots + x[2]
<1>2. /\ M \in Nat \ {0} /\ NSlots \in Nat \ {0}
      /\ x[1] \in Nat /\ y[1] \in Nat
      /\ x[2] \in Nat /\ y[2] \in Nat /\ x[2] < NSlots /\ y[2] < NSlots
      /\ x[3] \in Nat /\ y[3] \in Nat /\ x[3] < M /\ y[3] < M
  BY WorkerIdsAssumption DEF Id, Slot
<1>3. P \in Nat /\ Q \in Nat
  BY <1>2
<1>4. Q * M + x[3] = P * M + y[3]
  BY DEF Compose
<1>5. Q = P
  <2> HIDE DEF P, Q, M
  <2> QED
    BY <1>1, <1>2, <1>3, <1>4
<1> DEFINE a == x[1]
           b == y[1]
           u == x[2]
           v == y[2]
<1>6. a * NSlots + u = b * NSlots + v
  BY <1>5
<1> HIDE DEF a, b, u, v
<1>7. a \in Nat /\ b \in Nat /\ u \in Nat /\ v \in Nat /\ u < NSlots /\ v < NSlots
  BY <1>2 DEF a, b, u, v
<1>8. a = b /\ u = v
  BY <1>1, <1>2, <1>6, <1>7
<1> QED
  BY <1>8 DEF a, b, u, v

-----------------------------------------------------------------------------
(* Steps *)

\* What the steps use of the arithmetic of slots.
LEMMA SlotFacts ==
    /\ 0 \in Slot /\ Fallback \in Slot /\ None \notin Slot /\ None \notin Inst
    /\ \A s \in Slot : (s + 1) % NSlots \in Slot
    /\ 0 \in 0..NSlots /\ \A n \in 0..NSlots : n < NSlots => n + 1 \in 0..NSlots
    /\ MaxFails \in Nat /\ 0 < MaxFails
    /\ 0 \in 0..MaxSeq /\ \A n \in 0..MaxSeq : n < MaxSeq => n + 1 \in 0..MaxSeq
    /\ Time \subseteq Nat
  BY WorkerIdsAssumption DEF Slot, Time

\* One step keeps the types of the instances.
LEMMA ProcStep == TypeInv /\ [Next]_vars => ProcTypes'
<1> SUFFICES ASSUME TypeInv, [Next]_vars
             PROVE  ProcTypes'
  OBVIOUS
<1> USE SlotFacts DEF Fault, leaseVars, procVars, heldVars, genVars,
           TypeInv, TypeOK, LeaseTypes, ProcTypes, Life, Id
<1>1. ASSUME NEW i \in Inst, Win(i)
      PROVE  ProcTypes'
  BY <1>1, SMTT(30) DEF Win, Behind
<1>2. ASSUME NEW i \in Inst, Skip(i)
      PROVE  ProcTypes'
  BY <1>2, SMTT(30) DEF Skip
<1>3. ASSUME NEW i \in Inst, GiveUp(i)
      PROVE  ProcTypes'
  BY <1>3, SMTT(30) DEF GiveUp, UseFallback
<1>4. ASSUME NEW i \in Inst, Renew(i)
      PROVE  ProcTypes'
  BY <1>4, SMTT(30) DEF Renew
<1>5. ASSUME NEW i \in Inst, CheckTtl(i)
      PROVE  ProcTypes'
  BY <1>5, SMTT(30) DEF CheckTtl
<1>6. ASSUME NEW i \in Inst, Campaign(i)
      PROVE  ProcTypes'
  BY <1>6, SMTT(30) DEF Campaign
<1>7. ASSUME NEW i \in Inst, Watchdog(i)
      PROVE  ProcTypes'
  BY <1>7, SMTT(30) DEF Watchdog, Down
<1>8. ASSUME NEW i \in Inst, Stop(i)
      PROVE  ProcTypes'
  BY <1>8, SMTT(30) DEF Stop, Down
<1>9. ASSUME NEW i \in Inst, Crash(i)
      PROVE  ProcTypes'
  BY <1>9, SMTT(30) DEF Crash, Down
<1>10. ASSUME NEW i \in Inst, Cut(i)
       PROVE  ProcTypes'
  BY <1>10, SMTT(30) DEF Cut
<1>11. ASSUME NEW i \in Inst, Heal(i)
       PROVE  ProcTypes'
  BY <1>11, SMTT(30) DEF Heal
<1>12. ASSUME NEW i \in Inst, Tick(i)
       PROVE  ProcTypes'
  BY <1>12, SMTT(30) DEF Tick
<1>13. ASSUME NEW i \in Inst, NextId(i)
       PROVE  ProcTypes'
  BY <1>13, SMTT(30) DEF NextId, Draw
<1>14. ASSUME NEW i \in Inst, NEW t \in Time, Start(i, t)
       PROVE  ProcTypes'
  BY <1>14, SMTT(30) DEF Start
<1>15. ASSUME NEW i \in Inst, NEW t \in Time, SetBack(i, t)
       PROVE  ProcTypes'
  BY <1>15, SMTT(30) DEF SetBack, Behind
<1>16. ASSUME NEW s \in Slot, Expire(s)
       PROVE  ProcTypes'
  BY <1>16, SMTT(30) DEF Expire
<1>17. CASE UNCHANGED vars
  BY <1>17, SMTT(30) DEF vars
<1> QED
  BY <1>1, <1>2, <1>3, <1>4, <1>5, <1>6, <1>7, <1>8, <1>9,
     <1>10, <1>11, <1>12, <1>13, <1>14, <1>15, <1>16, <1>17, Zenon DEF Next

\* One step keeps the other types and the phases of a life.
LEMMA LeaseStep == TypeInv /\ [Next]_vars => (LeaseTypes /\ Life)'
<1> SUFFICES ASSUME TypeInv, [Next]_vars
             PROVE  (LeaseTypes /\ Life)'
  OBVIOUS
<1> USE SlotFacts DEF Fault, leaseVars, procVars, heldVars, genVars,
           TypeInv, TypeOK, LeaseTypes, ProcTypes, Life
<1>1. ASSUME NEW i \in Inst, Win(i)
      PROVE  (LeaseTypes /\ Life)'
  BY <1>1, SMTT(30) DEF Win, Behind
<1>2. ASSUME NEW i \in Inst, Skip(i)
      PROVE  (LeaseTypes /\ Life)'
  BY <1>2, SMTT(30) DEF Skip
<1>3. ASSUME NEW i \in Inst, GiveUp(i)
      PROVE  (LeaseTypes /\ Life)'
  BY <1>3, SMTT(30) DEF GiveUp, UseFallback
<1>4. ASSUME NEW i \in Inst, Renew(i)
      PROVE  (LeaseTypes /\ Life)'
  BY <1>4, SMTT(30) DEF Renew
<1>5. ASSUME NEW i \in Inst, CheckTtl(i)
      PROVE  (LeaseTypes /\ Life)'
  <2>1. fails[i] \in Nat /\ fails[i] < MaxFails
    BY <1>5 DEF CheckTtl
  <2>2. PICK n \in 0..MaxFails :
           /\ fails' = [fails EXCEPT ![i] = n]
           /\ (lost' = lost /\ n < MaxFails) \/ lost' = lost \cup {i}
    BY <1>5, <2>1, SlotFacts, SMTT(30) DEF CheckTtl
  <2>3. LeaseTypes'
    BY <1>5, <2>2, SMTT(30) DEF CheckTtl
  <2>4. Life'
    BY <1>5, <2>2, SMTT(30) DEF CheckTtl
  <2> QED
    BY <2>3, <2>4
<1>6. ASSUME NEW i \in Inst, Campaign(i)
      PROVE  (LeaseTypes /\ Life)'
  BY <1>6, SMTT(30) DEF Campaign
<1>7. ASSUME NEW i \in Inst, Watchdog(i)
      PROVE  (LeaseTypes /\ Life)'
  BY <1>7, SMTT(30) DEF Watchdog, Down
<1>8. ASSUME NEW i \in Inst, Stop(i)
      PROVE  (LeaseTypes /\ Life)'
  BY <1>8, SMTT(30) DEF Stop, Down
<1>9. ASSUME NEW i \in Inst, Crash(i)
      PROVE  (LeaseTypes /\ Life)'
  BY <1>9, SMTT(30) DEF Crash, Down
<1>10. ASSUME NEW i \in Inst, Cut(i)
       PROVE  (LeaseTypes /\ Life)'
  BY <1>10, SMTT(30) DEF Cut
<1>11. ASSUME NEW i \in Inst, Heal(i)
       PROVE  (LeaseTypes /\ Life)'
  BY <1>11, SMTT(30) DEF Heal
<1>12. ASSUME NEW i \in Inst, Tick(i)
       PROVE  (LeaseTypes /\ Life)'
  BY <1>12, SMTT(30) DEF Tick
<1>13. ASSUME NEW i \in Inst, NextId(i)
       PROVE  (LeaseTypes /\ Life)'
  BY <1>13, SMTT(30) DEF NextId, Draw
<1>14. ASSUME NEW i \in Inst, NEW t \in Time, Start(i, t)
       PROVE  (LeaseTypes /\ Life)'
  BY <1>14, SMTT(30) DEF Start
<1>15. ASSUME NEW i \in Inst, NEW t \in Time, SetBack(i, t)
       PROVE  (LeaseTypes /\ Life)'
  BY <1>15, SMTT(30) DEF SetBack, Behind
<1>16. ASSUME NEW s \in Slot, Expire(s)
       PROVE  (LeaseTypes /\ Life)'
  BY <1>16, SMTT(30) DEF Expire
<1>17. CASE UNCHANGED vars
  BY <1>17, SMTT(30) DEF vars
<1> QED
  BY <1>1, <1>2, <1>3, <1>4, <1>5, <1>6, <1>7, <1>8, <1>9,
     <1>10, <1>11, <1>12, <1>13, <1>14, <1>15, <1>16, <1>17, Zenon DEF Next

\* One step leaves no generator behind.
LEMMA DrawnStep == TypeInv /\ Drawn /\ [Next]_vars => Drawn'
<1> SUFFICES ASSUME TypeInv, Drawn, [Next]_vars
             PROVE  Drawn'
  OBVIOUS
<1> USE SlotFacts DEF Fault, leaseVars, procVars, heldVars, genVars,
           TypeInv, TypeOK, LeaseTypes, ProcTypes, Life, Drawn, Id
<1>1. ASSUME NEW i \in Inst, Win(i)
      PROVE  Drawn'
  BY <1>1, SMTT(30) DEF Win, Behind
<1>2. ASSUME NEW i \in Inst, Skip(i)
      PROVE  Drawn'
  BY <1>2, SMTT(30) DEF Skip
<1>3. ASSUME NEW i \in Inst, GiveUp(i)
      PROVE  Drawn'
  BY <1>3, SMTT(30) DEF GiveUp, UseFallback
<1>4. ASSUME NEW i \in Inst, Renew(i)
      PROVE  Drawn'
  BY <1>4, SMTT(30) DEF Renew
<1>5. ASSUME NEW i \in Inst, CheckTtl(i)
      PROVE  Drawn'
  BY <1>5, SMTT(30) DEF CheckTtl
<1>6. ASSUME NEW i \in Inst, Campaign(i)
      PROVE  Drawn'
  BY <1>6, SMTT(30) DEF Campaign
<1>7. ASSUME NEW i \in Inst, Watchdog(i)
      PROVE  Drawn'
  BY <1>7, SMTT(30) DEF Watchdog, Down
<1>8. ASSUME NEW i \in Inst, Stop(i)
      PROVE  Drawn'
  BY <1>8, SMTT(30) DEF Stop, Down
<1>9. ASSUME NEW i \in Inst, Crash(i)
      PROVE  Drawn'
  BY <1>9, SMTT(30) DEF Crash, Down
<1>10. ASSUME NEW i \in Inst, Cut(i)
       PROVE  Drawn'
  BY <1>10, SMTT(30) DEF Cut
<1>11. ASSUME NEW i \in Inst, Heal(i)
       PROVE  Drawn'
  BY <1>11, SMTT(30) DEF Heal
<1>12. ASSUME NEW i \in Inst, Tick(i)
       PROVE  Drawn'
  BY <1>12, SMTT(30) DEF Tick
<1>13. ASSUME NEW i \in Inst, NextId(i)
       PROVE  Drawn'
  BY <1>13, SMTT(30) DEF NextId, Draw
<1>14. ASSUME NEW i \in Inst, NEW t \in Time, Start(i, t)
       PROVE  Drawn'
  BY <1>14, SMTT(30) DEF Start
<1>15. ASSUME NEW i \in Inst, NEW t \in Time, SetBack(i, t)
       PROVE  Drawn'
  BY <1>15, SMTT(30) DEF SetBack, Behind
<1>16. ASSUME NEW s \in Slot, Expire(s)
       PROVE  Drawn'
  BY <1>16, SMTT(30) DEF Expire
<1>17. CASE UNCHANGED vars
  BY <1>17, SMTT(30) DEF vars
<1> QED
  BY <1>1, <1>2, <1>3, <1>4, <1>5, <1>6, <1>7, <1>8, <1>9,
     <1>10, <1>11, <1>12, <1>13, <1>14, <1>15, <1>16, <1>17, Zenon DEF Next

\* One step takes no key from an instance without doubt.
LEMMA OwningStep == TypeInv /\ Owning /\ [Next]_vars => Owning'
<1> SUFFICES ASSUME TypeInv, Owning, [Next]_vars
             PROVE  Owning'
  OBVIOUS
<1> USE SlotFacts DEF Fault, leaseVars, procVars, heldVars, genVars,
           TypeInv, TypeOK, LeaseTypes, ProcTypes, Life, Owning
<1>1. ASSUME NEW i \in Inst, Win(i)
      PROVE  Owning'
  BY <1>1, SMTT(30) DEF Win, Behind
<1>2. ASSUME NEW i \in Inst, Skip(i)
      PROVE  Owning'
  BY <1>2, SMTT(30) DEF Skip
<1>3. ASSUME NEW i \in Inst, GiveUp(i)
      PROVE  Owning'
  BY <1>3, SMTT(30) DEF GiveUp, UseFallback
<1>4. ASSUME NEW i \in Inst, Renew(i)
      PROVE  Owning'
  BY <1>4, SMTT(30) DEF Renew
<1>5. ASSUME NEW i \in Inst, CheckTtl(i)
      PROVE  Owning'
  BY <1>5, SMTT(30) DEF CheckTtl
<1>6. ASSUME NEW i \in Inst, Campaign(i)
      PROVE  Owning'
  BY <1>6, SMTT(30) DEF Campaign
<1>7. ASSUME NEW i \in Inst, Watchdog(i)
      PROVE  Owning'
  BY <1>7, SMTT(30) DEF Watchdog, Down
<1>8. ASSUME NEW i \in Inst, Stop(i)
      PROVE  Owning'
  BY <1>8, SMTT(30) DEF Stop, Down
<1>9. ASSUME NEW i \in Inst, Crash(i)
      PROVE  Owning'
  BY <1>9, SMTT(30) DEF Crash, Down
<1>10. ASSUME NEW i \in Inst, Cut(i)
       PROVE  Owning'
  BY <1>10, SMTT(30) DEF Cut
<1>11. ASSUME NEW i \in Inst, Heal(i)
       PROVE  Owning'
  BY <1>11, SMTT(30) DEF Heal
<1>12. ASSUME NEW i \in Inst, Tick(i)
       PROVE  Owning'
  BY <1>12, SMTT(30) DEF Tick
<1>13. ASSUME NEW i \in Inst, NextId(i)
       PROVE  Owning'
  BY <1>13, SMTT(30) DEF NextId, Draw
<1>14. ASSUME NEW i \in Inst, NEW t \in Time, Start(i, t)
       PROVE  Owning'
  BY <1>14, SMTT(30) DEF Start
<1>15. ASSUME NEW i \in Inst, NEW t \in Time, SetBack(i, t)
       PROVE  Owning'
  BY <1>15, SMTT(30) DEF SetBack, Behind
<1>16. ASSUME NEW s \in Slot, Expire(s)
       PROVE  Owning'
  BY <1>16, SMTT(30) DEF Expire
<1>17. CASE UNCHANGED vars
  BY <1>17, SMTT(30) DEF vars
<1> QED
  BY <1>1, <1>2, <1>3, <1>4, <1>5, <1>6, <1>7, <1>8, <1>9,
     <1>10, <1>11, <1>12, <1>13, <1>14, <1>15, <1>16, <1>17, Zenon DEF Next

\* One step leaves no instance without doubt behind the ids of others.
LEMMA AheadStep == TypeInv /\ Drawn /\ Owning /\ Ahead /\ [Next]_vars => Ahead'
<1> SUFFICES ASSUME TypeInv, Drawn, Owning, Ahead, [Next]_vars
             PROVE  Ahead'
  OBVIOUS
<1> USE SlotFacts DEF Fault, leaseVars, procVars, heldVars, genVars,
           TypeInv, TypeOK, LeaseTypes, ProcTypes, Life, Drawn, Owning, Ahead, Id
<1>1. ASSUME NEW i \in Inst, Win(i)
      PROVE  Ahead'
  BY <1>1, SMTT(30) DEF Win, Behind
<1>2. ASSUME NEW i \in Inst, Skip(i)
      PROVE  Ahead'
  BY <1>2, SMTT(30) DEF Skip
<1>3. ASSUME NEW i \in Inst, GiveUp(i)
      PROVE  Ahead'
  BY <1>3, SMTT(30) DEF GiveUp, UseFallback
<1>4. ASSUME NEW i \in Inst, Renew(i)
      PROVE  Ahead'
  BY <1>4, SMTT(30) DEF Renew
<1>5. ASSUME NEW i \in Inst, CheckTtl(i)
      PROVE  Ahead'
  BY <1>5, SMTT(30) DEF CheckTtl
<1>6. ASSUME NEW i \in Inst, Campaign(i)
      PROVE  Ahead'
  BY <1>6, SMTT(30) DEF Campaign
<1>7. ASSUME NEW i \in Inst, Watchdog(i)
      PROVE  Ahead'
  BY <1>7, SMTT(30) DEF Watchdog, Down
<1>8. ASSUME NEW i \in Inst, Stop(i)
      PROVE  Ahead'
  BY <1>8, SMTT(30) DEF Stop, Down
<1>9. ASSUME NEW i \in Inst, Crash(i)
      PROVE  Ahead'
  BY <1>9, SMTT(30) DEF Crash, Down
<1>10. ASSUME NEW i \in Inst, Cut(i)
       PROVE  Ahead'
  BY <1>10, SMTT(30) DEF Cut
<1>11. ASSUME NEW i \in Inst, Heal(i)
       PROVE  Ahead'
  BY <1>11, SMTT(30) DEF Heal
<1>12. ASSUME NEW i \in Inst, Tick(i)
       PROVE  Ahead'
  BY <1>12, SMTT(30) DEF Tick
<1>13. ASSUME NEW i \in Inst, NextId(i)
       PROVE  Ahead'
  BY <1>13, SMTT(30) DEF NextId, Draw
<1>14. ASSUME NEW i \in Inst, NEW t \in Time, Start(i, t)
       PROVE  Ahead'
  BY <1>14, SMTT(30) DEF Start
<1>15. ASSUME NEW i \in Inst, NEW t \in Time, SetBack(i, t)
       PROVE  Ahead'
  BY <1>15, SMTT(30) DEF SetBack, Behind
<1>16. ASSUME NEW s \in Slot, Expire(s)
       PROVE  Ahead'
  BY <1>16, SMTT(30) DEF Expire
<1>17. CASE UNCHANGED vars
  BY <1>17, SMTT(30) DEF vars
<1> QED
  BY <1>1, <1>2, <1>3, <1>4, <1>5, <1>6, <1>7, <1>8, <1>9,
     <1>10, <1>11, <1>12, <1>13, <1>14, <1>15, <1>16, <1>17, Zenon DEF Next

\* One step uses no worker id twice in a millisecond.
LEMMA ApartStep == TypeInv /\ Ahead /\ Apart /\ [Next]_vars => Apart'
<1> SUFFICES ASSUME TypeInv, Ahead, Apart, [Next]_vars
             PROVE  Apart'
  OBVIOUS
<1> USE SlotFacts DEF Fault, leaseVars, procVars, heldVars, genVars,
           TypeInv, TypeOK, LeaseTypes, ProcTypes, Life, Ahead, Apart, Id
<1>1. ASSUME NEW i \in Inst, Win(i)
      PROVE  Apart'
  BY <1>1, SMTT(30) DEF Win, Behind
<1>2. ASSUME NEW i \in Inst, Skip(i)
      PROVE  Apart'
  BY <1>2, SMTT(30) DEF Skip
<1>3. ASSUME NEW i \in Inst, GiveUp(i)
      PROVE  Apart'
  BY <1>3, SMTT(30) DEF GiveUp, UseFallback
<1>4. ASSUME NEW i \in Inst, Renew(i)
      PROVE  Apart'
  BY <1>4, SMTT(30) DEF Renew
<1>5. ASSUME NEW i \in Inst, CheckTtl(i)
      PROVE  Apart'
  BY <1>5, SMTT(30) DEF CheckTtl
<1>6. ASSUME NEW i \in Inst, Campaign(i)
      PROVE  Apart'
  BY <1>6, SMTT(30) DEF Campaign
<1>7. ASSUME NEW i \in Inst, Watchdog(i)
      PROVE  Apart'
  BY <1>7, SMTT(30) DEF Watchdog, Down
<1>8. ASSUME NEW i \in Inst, Stop(i)
      PROVE  Apart'
  BY <1>8, SMTT(30) DEF Stop, Down
<1>9. ASSUME NEW i \in Inst, Crash(i)
      PROVE  Apart'
  BY <1>9, SMTT(30) DEF Crash, Down
<1>10. ASSUME NEW i \in Inst, Cut(i)
       PROVE  Apart'
  BY <1>10, SMTT(30) DEF Cut
<1>11. ASSUME NEW i \in Inst, Heal(i)
       PROVE  Apart'
  BY <1>11, SMTT(30) DEF Heal
<1>12. ASSUME NEW i \in Inst, Tick(i)
       PROVE  Apart'
  BY <1>12, SMTT(30) DEF Tick
<1>13. ASSUME NEW i \in Inst, NextId(i)
       PROVE  Apart'
  BY <1>13, SMTT(30) DEF NextId, Draw
<1>14. ASSUME NEW i \in Inst, NEW t \in Time, Start(i, t)
       PROVE  Apart'
  BY <1>14, SMTT(30) DEF Start
<1>15. ASSUME NEW i \in Inst, NEW t \in Time, SetBack(i, t)
       PROVE  Apart'
  BY <1>15, SMTT(30) DEF SetBack, Behind
<1>16. ASSUME NEW s \in Slot, Expire(s)
       PROVE  Apart'
  BY <1>16, SMTT(30) DEF Expire
<1>17. CASE UNCHANGED vars
  BY <1>17, SMTT(30) DEF vars
<1> QED
  BY <1>1, <1>2, <1>3, <1>4, <1>5, <1>6, <1>7, <1>8, <1>9,
     <1>10, <1>11, <1>12, <1>13, <1>14, <1>15, <1>16, <1>17, Zenon DEF Next

\* The inductive invariant holds throughout.
THEOREM IdsInvariance == Spec => []IInv
<1>1. Init => IInv
  BY SlotFacts, SMTT(30) DEF Init, IInv, TypeInv, TypeOK, LeaseTypes, ProcTypes, Life, Drawn, Owning, Ahead, Apart
<1>2. IInv /\ [Next]_vars => IInv'
  BY ProcStep, LeaseStep, DrawnStep, OwningStep, AheadStep, ApartStep, Zenon DEF IInv, TypeInv, TypeOK
<1> QED
  BY <1>1, <1>2, PTL DEF Spec

\* The variables of the leases, the clocks and the generators keep their types.
THEOREM TypeCorrect == Spec => []TypeOK
<1>1. IInv => TypeOK
  BY Zenon DEF IInv, TypeInv
<1> QED
  BY <1>1, IdsInvariance, PTL

\* Message ids are unique across instances that kept in touch with the store of
\* the leases and whose clocks are not behind the ids drawn under their slot,
\* for any number of starts, stops, crashes and expired leases.
THEOREM UniqueIds == Spec => []IdsUnique
<1>1. IInv => IdsUnique
  <2> SUFFICES ASSUME IInv, NEW i \in Inst \ doubt, NEW j \in Inst \ doubt, i # j,
                      NEW x \in issued[i], NEW y \in issued[j], Compose(x) = Compose(y)
               PROVE  FALSE
    BY Zenon DEF IdsUnique, Ids
  <2>1. x \in Id /\ y \in Id
    BY DEF IInv, TypeInv, TypeOK, ProcTypes
  <2>2. x[1] = y[1] /\ x[2] = y[2]
    BY <2>1, ComposeInjective
  <2> QED
    BY <2>2 DEF IInv, Apart
<1> QED
  BY <1>1, IdsInvariance, PTL

\* The ids an instance draws strictly increase, whatever its clock does.
THEOREM IncreasingIds == Spec => IdsIncrease
<1>1. IInv /\ [Next]_vars => [IdsGrow]_vars
  <2> SUFFICES ASSUME IInv, IInv', Next,
                      NEW i \in Inst, NEW x \in issued'[i] \ issued[i], NEW y \in issued[i]
               PROVE  Compose(y) < Compose(x)
    BY ProcStep, LeaseStep, DrawnStep, OwningStep, AheadStep, ApartStep, Zenon
    DEF IInv, TypeInv, TypeOK, IdsGrow
  <2>1. x \in Id /\ y \in Id
    BY DEF IInv, TypeInv, TypeOK, ProcTypes
  <2>2. NextId(i)
    <3>1. ASSUME NEW j \in Inst, NextId(j)
          PROVE  NextId(i)
      BY <3>1, SMTT(30) DEF NextId, Draw, IInv, TypeInv, TypeOK, ProcTypes
    <3> QED
      BY <3>1, Zenon
      DEF Next, Start, SetBack, Win, Skip, GiveUp, UseFallback, Renew, CheckTtl, Campaign,
          Watchdog, Stop, Crash, Cut, Heal, Tick, Expire, Down, genVars
  <2>3. x = <<clock[i], id[i], sequence'[i]>> /\ clock[i] = lastTs'[i]
    BY <2>2, SMTT(30) DEF NextId, Draw, IInv, TypeInv, TypeOK, ProcTypes
  <2>4. y[1] < clock[i] \/ (y[1] = clock[i] /\ y[3] < sequence'[i])
    BY <2>1, <2>2, SMTT(30) DEF NextId, Draw, Drawn, IInv, TypeInv, TypeOK, ProcTypes, Id
  <2>5. y[2] = id[i]
    BY DEF IInv, Drawn
  <2>6. x[1] = clock[i] /\ x[2] = id[i] /\ x[3] = sequence'[i]
    BY <2>3
  <2> QED
    BY <2>1, <2>4, <2>5, <2>6, ComposeIncreases
<1> QED
  BY <1>1, IdsInvariance, PTL DEF Spec, IdsIncrease
=============================================================================
