SPECIFICATION FairSpec
CONSTANTS
    Calls = {c1, c2}
    Conns = {k1, k2}
    BackendIds = {b1}
    Kinds = {"channel"}
    Replies = {"Channel", "Hello"}
    ReceiveBuffer = 2
    SendBuffer = 2
    NoConn = NoConn
    NoCall = NoCall
    NoReply = NoReply
PROPERTIES ServerMakesHeadway EveryCallReturns RegistrationFreed EntryReclaimed
CHECK_DEADLOCK FALSE
