CONSTANTS
    MaxFiles = 2
    User = {u1}
    Hash = {h1}
    Purpose = {chat, avatar}
    Size = {1}
    Length = {1, 2}
    Multi = {FALSE, TRUE}
    Quota = 1
    Proc = {p1}
    FaultKinds = {"s3", "db", "crash"}
    MaxFaults = 1
    None = None
SPECIFICATION FairSpec
INVARIANTS TypeOK  
PROPERTIES UploadsEnd
CHECK_DEADLOCK FALSE
