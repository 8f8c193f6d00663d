SPECIFICATION FairSpec
CONSTANTS
    Streams = {s1, s2}
    Commands = {n1}
    Listers = {}
    BroadcastBuffer = 1
    ReceiveBuffer = 1
    MaxEvents = 3
    NoStream = NoStream
PROPERTIES CommandsFreed EveryEventSeen
CHECK_DEADLOCK FALSE
