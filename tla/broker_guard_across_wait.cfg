SPECIFICATION Spec
CONSTANTS
    Calls = {c1}
    Conns = {k1}
    BackendIds = {b1}
    Kinds = {"info"}
    Replies = {"Metadata"}
    ReceiveBuffer = 1
    SendBuffer = 1
    NoConn = NoConn
    NoCall = NoCall
    NoReply = NoReply
INVARIANTS LocksDroppedBeforeWaiting
CHECK_DEADLOCK FALSE
