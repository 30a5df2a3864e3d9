\* A Message instance dies between the commit and the hand-over to Push.
CONSTANTS
    Req = {r1}
    Key = {k1}
    NoKey = NoKey
    Storable = {k1}
    Text = {}
    FaultKinds = {"crash"}
    MaxFaults = 1
    None = None
SPECIFICATION FairSpec
PROPERTY StoredIsPushedAlways
CHECK_DEADLOCK FALSE
