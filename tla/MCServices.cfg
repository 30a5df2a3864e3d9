\* Two processes that draw ids and one fault; three refresh tokens, two handlers
\* and one fault; three requests about a group of up to three users; the profile
\* of a sender read by two threads of one process, under two overlapping updates
\* and two faults.
CONSTANTS
    Inst = {i1, i2}
    NSlots = 2
    MaxSeq = 1
    MaxFails = 2
    Fallback = 0
    Stores = {"redis", "etcd"}
    MaxTime = 2
    FaultKinds = {"cut", "call", "crash", "back"}
    MaxFaults = 1
    None = None
    Handler = {h1, h2}
    MaxTok = 3
    TokenFaults = {"redis", "crash"}
    MaxTokenFaults = 1
    Proc = {p1, p2}
    User = {u1, u2, u3}
    Founder = u1
    First = {u1, u2}
    Msg = {m1, m2, m3}
    Ops = {"quit", "remove", "add", "transfer", "role", "rename", "dismiss", "setting", "draft", "ack", "pin", "unpin"}
    MemberLimit = 3
    PinLimit = 1
    MaxAck = 2
    MaxCalls = 3
    NoRow = NoRow
    Host = {{t1, t2}}
    Editor = {e1, e2}
    InfoFaults = {"redis", "db", "rpc", "crash"}
    MaxInfoFaults = 2
    MaxRow = 2
    Absent = Absent
    Gone = Gone
SPECIFICATION ServicesSpec
INVARIANTS TypeOK IdsUnique
    ExchangedOnce SessionAgrees
    OwnerAgrees CountCovers PinsBounded
    ProfileNotBehind
PROPERTIES IdsIncrease 
CHECK_DEADLOCK FALSE
