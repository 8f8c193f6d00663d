SPECIFICATION FairSpec
CONSTANTS
    Conns = {k1}
    BackendIds = {b1}
    Channels = {ch1}
    Infos = {i1}
    Queries = {q1, q2}
    Reads = {r1}
    MaxEvents = 2
    NoConn = NoConn
    NoInfo = NoInfo
    NoEvent = NoEvent
    NoDirectory = NoDirectory
    NoAnswer = NoAnswer
INVARIANTS FreshRead
PROPERTIES QueriesReturn DirectorySettles
CHECK_DEADLOCK FALSE
