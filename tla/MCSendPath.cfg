\* Two requests on one client_msg_id, handed over to Push and to the index, with
\* up to one fault.
\* The leases of two processes with up to two faults; the clocks stand still.
CONSTANTS
    Req = {r1, r2}
    Key = {k1}
    NoKey = NoKey
    Storable = {k1, NoKey}
    Text = {k1}
    FaultKinds = {"redis", "lost", "db", "crash"}
    MaxFaults = 1
    None = None
    Inst = {i1, i2}
    NSlots = 2
    MaxSeq = 0
    MaxFails = 2
    Fallback = 0
    Stores = {"redis", "etcd"}
    MaxTime = 1
    LeaseFaults = {"cut", "call", "crash"}
    MaxLeaseFaults = 2
SPECIFICATION PathSpec
INVARIANTS
    HandOverNotForgotten
    HandOverOnlyStored
PROPERTIES
    QueuedIsStored
    StoredIsHandedOver
    DeposedStops
CHECK_DEADLOCK FALSE
