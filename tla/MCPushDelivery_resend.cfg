CONSTANTS
    i1 = i1
    i2 = i2
    d1 = d1
    d2 = d2
    c1 = c1
    c2 = c2
    c3 = c3
    m1 = m1
    m2 = m2
    None = None
    NoEntry = NoEntry
    Inst = {i1, i2}
    Device = {d1}
    Conn = {c1}
    Msg = {m1}
    WithSeq = {m1}
    FaultKinds = {"redis", "wsredis", "rpc", "crash", "expiry", "net"}
    MaxFaults = 1
SPECIFICATION FairSpec
CHECK_DEADLOCK FALSE
INVARIANTS AcknowledgedIsHeld
PROPERTIES ResentUntilReceived EventuallyConsumed KeepsInbox
