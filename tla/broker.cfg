SPECIFICATION Spec
CONSTANTS
    Calls = {c1, c2}
    Conns = {k1, k2}
    BackendIds = {b1, b2}
    Kinds = {"message", "info"}
    Replies = {"Success", "Failed", "Channel", "Metadata", "Hello"}
    ReceiveBuffer = 1
    SendBuffer = 1
    NoConn = NoConn
    NoCall = NoCall
    NoReply = NoReply
SYMMETRY Symmetry
INVARIANTS TypeOK NoLostWaiter OneOwnerPerBackend HandleCleansUp OkMeansDelivered
    CarriedAsMeant LeftoverIsInert
PROPERTIES ImplementsContract ImplementsRegistry
CHECK_DEADLOCK FALSE
