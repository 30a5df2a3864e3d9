CONSTANTS
    i1 = i1
    i2 = i2
    d1 = d1
    d2 = d2
    c1 = c1
    c2 = c2
    c3 = c3
    m1 = m1
    m2 = m2
    None = None
    NoEntry = NoEntry
    Inst = {i1, i2}
    Device = {d1, d2}
    Conn = {c1, c2}
    Msg = {m1}
    WithSeq = {m1}
    FaultKinds = {"redis"}
    MaxFaults = 0
SPECIFICATION Spec
CHECK_DEADLOCK FALSE
INVARIANT AtLeastOnce
