\* Three overlapping requests on one client_msg_id and one fault of any kind; a
\* message without client_msg_id has a content type that cannot be stored.
CONSTANTS
    Req = {r1, r2, r3}
    Key = {k1}
    NoKey = NoKey
    Storable = {k1}
    Text = {}
    FaultKinds = {"redis", "rpc", "lost", "db", "crash", "expiry", "corrupt"}
    MaxFaults = 1
    None = None
SYMMETRY Symmetry
SPECIFICATION Spec
INVARIANTS
    TypeOK
    NoGhostSuccess
    OneMessagePerKey
    SameAnswer
    StoredOnce
    GivenUpOnlyIfUnstorable
PROPERTIES KeyNeverForgets KeepsPromise
CHECK_DEADLOCK FALSE
