SPECIFICATION Spec
CONSTANTS
    Calls = {c1, c2, c3, c4}
    Conns = {k1}
    BackendIds = {b1}
    Kinds = {"message"}
    Replies = {"Success"}
    ReceiveBuffer = 1
    SendBuffer = 1
    NoConn = NoConn
    NoCall = NoCall
    NoReply = NoReply
SYMMETRY CallSymmetry
INVARIANTS StallShapes
CHECK_DEADLOCK FALSE
