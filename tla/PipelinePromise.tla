--------------------------- MODULE PipelinePromise ---------------------------
(***************************************************************************)
(* MessagePipeline as an implementation of SendOnce.  A message is taken   *)
(* when the broker has it, and a request is answered by its success        *)
(* response; the idempotency keys, confirms, deliveries and outboxes are   *)
(* how the promise is kept and do not appear in it.                        *)
(***************************************************************************)
EXTENDS MessagePipeline

Promise == INSTANCE SendOnce WITH
    asked <- [r \in Req |-> IF pc[r] = "idle" THEN None ELSE keyOf[r]],
    taken <- {r \in Req : Accepted(r)},
    answer <- [r \in Req |-> IF pc[r] = "ok" THEN rid[r] ELSE None],
    stored <- db,
    handed <- sent,
    open <- bypassed

\* Every step of SendMessage, the broker, onDBMessage and the reapers, faults
\* included, is a step of the promise to clients or invisible to them.
KeepsPromise == Promise!Spec
=============================================================================
