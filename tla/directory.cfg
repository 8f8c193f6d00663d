SPECIFICATION Spec
CONSTANTS
    Conns = {k1, k2}
    BackendIds = {b1}
    Channels = {ch1, ch2}
    Infos = {i1, i2}
    Queries = {q1}
    Reads = {r1}
    MaxEvents = 2
    NoConn = NoConn
    NoInfo = NoInfo
    NoEvent = NoEvent
    NoDirectory = NoDirectory
    NoAnswer = NoAnswer
SYMMETRY Symmetry
INVARIANTS TypeOK CatchesUp NeverStuck
PROPERTIES ImplementsContract
CHECK_DEADLOCK FALSE
