---------------------------- MODULE MCSendPath ----------------------------
(***************************************************************************)
(* What must happen on the send path, for model checking: MessagePipeline  *)
(* under its fairness, and the lease of the worker id that the instances   *)
(* of Transmite draw message ids with (WorkerIds) under its own.  The two  *)
(* share no state, so a behaviour is one of a part chosen at the start,    *)
(* and the other rests in its initial state, where no action that its      *)
(* fairness is about is enabled.                                           *)
(***************************************************************************)
EXTENDS MessagePipeline

CONSTANTS
    Inst, NSlots, MaxSeq, MaxFails, Fallback, Stores, MaxTime,  \* WorkerIds
    LeaseFaults, MaxLeaseFaults

VARIABLES
    part,   \* the part whose behaviour this is
    store, turn, owner, phase, next, tries, id, leased, lost, fails, cut,
    clock, lastTs, sequence, issued, leaseFaults, doubt

idVars == <<store, turn, owner, phase, next, tries, id, leased, lost, fails, cut,
            clock, lastTs, sequence, issued, leaseFaults, doubt>>

Lease == INSTANCE WorkerIds WITH
    FaultKinds <- LeaseFaults, MaxFaults <- MaxLeaseFaults, pc <- phase, faults <- leaseFaults

PathInit ==
    /\ part \in {"send", "lease"}
    /\ Init /\ Lease!Init
    /\ part = "lease" \/ store = CHOOSE s \in Stores : TRUE

SendPart == part = "send" /\ Next /\ UNCHANGED <<part, idVars>>
LeasePart == part = "lease" /\ Lease!Next /\ UNCHANGED <<part, vars>>

PathSpec ==
    /\ PathInit
    /\ [][SendPart \/ LeasePart]_<<part, vars, idVars>>
    /\ Fairness /\ Lease!Fairness

\* WorkerIds: an instance whose slot is not its own does not go on for ever.
DeposedStops == Lease!DeposedStops
=============================================================================
