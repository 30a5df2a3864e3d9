----------------------------- MODULE DeviceInbox -----------------------------
(***************************************************************************)
(* What Push promises to the devices of a user, seen from outside: each    *)
(* device has an inbox of the messages it is owed.  A message with a       *)
(* number of its own (user_seq) is received only after it was entered      *)
(* there, it leaves the inbox only when the device has received it and     *)
(* says so or when the inbox expires, and once its delivery is over it is  *)
(* not entered again.  PushDelivery implements this specification.         *)
(***************************************************************************)
CONSTANTS
    Device,  \* devices of the user
    Msg,     \* messages for the user
    WithSeq  \* of those, the ones an inbox keeps

VARIABLES
    open,    \* messages whose delivery is not over
    inbox,   \* per device, the messages it is owed
    got,     \* per device, messages received
    settled  \* per device, messages acknowledged or expired

vars == <<open, inbox, got, settled>>

Init ==
    /\ open = Msg
    /\ inbox = [d \in Device |-> {}]
    /\ got = [d \in Device |-> {}]
    /\ settled = [d \in Device |-> {}]

\* A message is owed to a device; its delivery may end with that.
Enter(d, m) ==
    /\ m \in open \cap WithSeq
    /\ inbox' = [inbox EXCEPT ![d] = @ \cup {m}]
    /\ open' \in {open, open \ {m}}
    /\ UNCHANGED <<got, settled>>

\* A device receives messages: those of a delivery under way, or those it is
\* owed.  The delivery may end with that.
Receive(d, ms) ==
    /\ ms \subseteq open \cup inbox[d]
    /\ ms \cap WithSeq \subseteq inbox[d] \cup settled[d]
    /\ got' = [got EXCEPT ![d] = @ \cup ms]
    /\ open' \in {open, open \ ms}
    /\ UNCHANGED <<inbox, settled>>

\* The messages ms leave the inbox.
Settle(d, ms) ==
    /\ inbox' = [inbox EXCEPT ![d] = @ \ ms]
    /\ settled' = [settled EXCEPT ![d] = @ \cup ms]
    /\ UNCHANGED <<open, got>>

Acknowledge(d, m) == m \in got[d] /\ Settle(d, {m})
Expire(d) == Settle(d, inbox[d])

\* Deliveries end.
Close(ms) ==
    /\ open' = open \ ms
    /\ UNCHANGED <<inbox, got, settled>>

Next ==
    \/ \E d \in Device, m \in Msg : Enter(d, m) \/ Acknowledge(d, m)
    \/ \E d \in Device, ms \in SUBSET Msg : Receive(d, ms)
    \/ \E d \in Device : Expire(d)
    \/ \E ms \in SUBSET Msg : Close(ms)

Spec == Init /\ [][Next]_vars
=============================================================================
