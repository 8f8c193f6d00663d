SPECIFICATION Spec
CONSTANTS
    Streams = {s1, s2}
    Commands = {n1, n2}
    Listers = {l1}
    BroadcastBuffer = 2
    ReceiveBuffer = 1
    MaxEvents = 4
    NoStream = NoStream
SYMMETRY Symmetry
INVARIANTS TypeOK AllOrNothing ListedIsSubscribed
PROPERTIES ImplementsContract ImplementsRegistry
CHECK_DEADLOCK FALSE
