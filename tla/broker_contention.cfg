SPECIFICATION Spec
CONSTANTS
    Calls = {c1, c2, c3}
    Conns = {k1, k2}
    BackendIds = {b1}
    Kinds = {"message", "info"}
    Replies = {"Success"}
    ReceiveBuffer = 1
    SendBuffer = 1
    NoConn = NoConn
    NoCall = NoCall
    NoReply = NoReply
SYMMETRY Symmetry
INVARIANTS SendUnderLocks StallShapes
CHECK_DEADLOCK FALSE
