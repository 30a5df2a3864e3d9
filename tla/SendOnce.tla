------------------------------ MODULE SendOnce ------------------------------
(***************************************************************************)
(* What the path of a message promises to the clients that send, seen from *)
(* outside: requests are made for a client_msg_id and answered with the id *)
(* of a message that was taken for it, a client_msg_id has one message,    *)
(* however often it is sent, and what is handed on has been stored.        *)
(*                                                                         *)
(* A client_msg_id is open when the promise of one message is off, because *)
(* Redis failed or forgot the key.  Even then the table has one message.   *)
(* MessagePipeline implements this specification.                          *)
(***************************************************************************)
CONSTANTS
    Req,    \* requests, and the messages they may become
    Key,    \* client_msg_ids
    NoKey,  \* no client_msg_id
    Topic,  \* the queues a stored message is handed to
    None    \* not asked, not answered

VARIABLES
    asked,  \* the client_msg_id of a request
    taken,  \* messages that were taken
    answer, \* the message a request was answered with
    stored, \* messages in the table
    handed, \* per topic, messages in its queue
    open    \* client_msg_ids the promise is off for

vars == <<asked, taken, answer, stored, handed, open>>

Init ==
    /\ asked = [r \in Req |-> None]
    /\ taken = {}
    /\ answer = [r \in Req |-> None]
    /\ stored = {}
    /\ handed = [t \in Topic |-> {}]
    /\ open \in SUBSET Key

Ask(r, k) ==
    /\ asked[r] = None
    /\ asked' = [asked EXCEPT ![r] = k]
    /\ UNCHANGED <<taken, answer, stored, handed, open>>

Take(r) ==
    /\ asked[r] # None
    /\ asked[r] \in Key \ open => \A m \in taken : asked[m] # asked[r]
    /\ taken' = taken \cup {r}
    /\ UNCHANGED <<asked, answer, stored, handed, open>>

Answer(r, m) ==
    /\ answer[r] = None
    /\ m \in taken /\ asked[m] = asked[r]
    /\ answer' = [answer EXCEPT ![r] = m]
    /\ UNCHANGED <<asked, taken, stored, handed, open>>

Store(m) ==
    /\ m \in taken \ stored
    /\ asked[m] \in Key => \A n \in stored : asked[n] # asked[m]
    /\ stored' = stored \cup {m}
    /\ UNCHANGED <<asked, taken, answer, handed, open>>

Hand(m, t) ==
    /\ m \in stored
    /\ handed' = [handed EXCEPT ![t] = @ \cup {m}]
    /\ UNCHANGED <<asked, taken, answer, stored, open>>

Open(k) ==
    /\ open' = open \cup {k}
    /\ UNCHANGED <<asked, taken, answer, stored, handed>>

Next ==
    \/ \E r \in Req :
          \/ \E k \in Key \cup {NoKey} : Ask(r, k)
          \/ Take(r) \/ Store(r)
          \/ \E m \in Req : Answer(r, m)
          \/ \E t \in Topic : Hand(r, t)
    \/ \E k \in Key : Open(k)

Spec == Init /\ [][Next]_vars
=============================================================================
