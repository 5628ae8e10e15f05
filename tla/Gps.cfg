SPECIFICATION GpsFairSpec
CONSTANTS
    Caller = {c1, c2}
    NSlot = 1
    Ind = {i1}
    None = None
    MaxCalls = 2
    Spurious = TRUE
    Client = {t1, t2}
    NoClient = NoClient
    MaxTimers = 3
    MaxTime = 2
    PerSecond = 2
    LocMsg = {m1, m2, m3}
    NoMsg = NoMsg
    Conn = {n1, n2}
    NoConn = NoConn
    AgpsKinds = {"atl", "wifi", "ds"}
    MaxRetries = 1
    MaxLosses = 1
    MaxBusy = 2
INVARIANTS
    GpsTypeOK TimerEndsOnce ArmedForTop MessagesKept
    DelegateOutlivesUsers ReleasedIsEmpty GrantsAreHeld
PROPERTIES
    GpsCallsEnd
CHECK_DEADLOCK FALSE
