-------------------------- MODULE DirectoryContract --------------------------
(***************************************************************************)
(* What list_backends, list_channels and get_channel_info promise, with no *)
(* locks, connections or cleanup: a query is answered from the directory   *)
(* of one moment between its start and its end, whatever happens at the    *)
(* same time.                                                              *)
(***************************************************************************)
CONSTANTS BackendIds, Channels, Infos, Queries, NoDirectory, NoInfo, NoAnswer

VARIABLES
    directory,  \* the channels of each backend, or NoDirectory
    asks,       \* what each query asks for
    target,     \* the backend each query names
    query,      \* "new", "open" or "closed"
    answer      \* what each query was told

contractVars == <<directory, asks, target, query, answer>>

\* What a query is told of the directory dir.
AnswerOf(dir, ask, b) ==
    CASE ask = "backends" -> {x \in BackendIds : dir[x] # NoDirectory}
      [] ask # "backends" /\ dir[b] = NoDirectory -> NoDirectory
      [] ask = "channels" /\ dir[b] # NoDirectory ->
            {<<c, dir[b][c]>> : c \in {x \in Channels : dir[b][x] # NoInfo}}
      [] ask \in Channels /\ dir[b] # NoDirectory -> dir[b][ask]

Init ==
    /\ directory = [b \in BackendIds |-> NoDirectory]
    /\ asks \in [Queries -> {"backends", "channels"} \cup Channels]
    /\ target \in [Queries -> BackendIds]
    /\ query = [q \in Queries |-> "new"]
    /\ answer = [q \in Queries |-> NoAnswer]

Appear(b) ==
    /\ directory[b] = NoDirectory
    /\ directory' = [directory EXCEPT ![b] = [c \in Channels |-> NoInfo]]
    /\ UNCHANGED <<asks, target, query, answer>>

Change(b) ==
    /\ directory[b] # NoDirectory
    /\ \E c \in Channels, i \in Infos \cup {NoInfo} :
          directory' = [directory EXCEPT ![b][c] = i]
    /\ UNCHANGED <<asks, target, query, answer>>

Vanish(b) ==
    /\ directory[b] # NoDirectory
    /\ directory' = [directory EXCEPT ![b] = NoDirectory]
    /\ UNCHANGED <<asks, target, query, answer>>

Ask(q) ==
    /\ query[q] = "new"
    /\ query' = [query EXCEPT ![q] = "open"]
    /\ UNCHANGED <<directory, asks, target, answer>>

Reply(q) ==
    /\ query[q] = "open"
    /\ query' = [query EXCEPT ![q] = "closed"]
    /\ answer' = [answer EXCEPT ![q] = AnswerOf(directory, asks[q], target[q])]
    /\ UNCHANGED <<directory, asks, target>>

GiveUp(q) ==
    /\ query[q] = "open"
    /\ query' = [query EXCEPT ![q] = "closed"]
    /\ UNCHANGED <<directory, asks, target, answer>>

Next ==
    \/ \E b \in BackendIds : Appear(b) \/ Change(b) \/ Vanish(b)
    \/ \E q \in Queries : Ask(q) \/ Reply(q) \/ GiveUp(q)

Spec == Init /\ [][Next]_contractVars
=============================================================================
