----------------------------- MODULE PushPromise -----------------------------
(***************************************************************************)
(* PushDelivery as an implementation of DeviceInbox.  The inbox of a       *)
(* device is its ledger in Redis, and the delivery of a message is over    *)
(* when the queue has it acknowledged and no PushBatch handler that was    *)
(* left behind by a timeout is at work on it.  Routes, connections,        *)
(* retries and resends are how the promise is kept and do not appear.      *)
(***************************************************************************)
EXTENDS PushDelivery

Open == {m \in Msg : queue[m] # "done" \/ batch[m].pc # "idle"}
Owed == [d \in Device |-> {m \in Msg : ledger[d][m] # "none"}]

Inbox == INSTANCE DeviceInbox WITH open <- Open, inbox <- Owed

\* Every step of the consumers, the PushBatch handlers, the web-socket threads
\* and of failing instances is a step of the promise to the devices or invisible
\* to them: no device receives a message its ledger does not remember, no entry
\* is lost that the device has not received or that has not expired, and nothing
\* comes back once its delivery is over.
KeepsInbox == Inbox!Spec
=============================================================================
