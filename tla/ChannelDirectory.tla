-------------------------- MODULE ChannelDirectory --------------------------
(***************************************************************************)
(* The directory of channels that seabird-core keeps for each chat backend *)
(* while it is connected: handle_event updates it with the join, leave and *)
(* change events of the backend, list_channels and get_channel_info read   *)
(* it through the registration of the backend, and list_backends reads the *)
(* registrations.                                                          *)
(*                                                                         *)
(* The tasks of the connections, the queries and cleanup_task share two    *)
(* kinds of RwLocks: the one around Server.backends, and one around the    *)
(* channels of each ChatBackend, which a query asks for while it holds the *)
(* first.  Requests and their locks are in RequestBroker.  Here they are   *)
(* seen from outside: calls that issue requests read backends and may keep *)
(* their guards for any time, and the task of a connection may be held for *)
(* any time by an answer that it delivers or a request that it passes on.  *)
(***************************************************************************)
EXTENDS Naturals, Sequences, FairLock

CONSTANTS
    Conns,          \* ingest_events streams, one per connection ever made
    BackendIds,     \* the ids that connections announce
    Channels,       \* channel ids
    Infos,          \* what is known of a channel: display name and topic
    Queries,        \* list_backends, list_channels, get_channel_info RPCs
    Reads,          \* reads of backends by calls that issue requests
    MaxEvents,      \* a bound of the model: events that a backend sends per connection
    NoConn, NoInfo, NoEvent, NoDirectory, NoAnswer

ASSUME DirectoryAssumption ==
    /\ MaxEvents \in Nat
    /\ NoConn \notin Conns /\ NoInfo \notin Infos
    /\ {"backends", "channels"} \cap Channels = {}
    /\ {"idle", "backends", "done"} \cap Conns = {}
    /\ NoDirectory \notin [Channels -> Infos \cup {NoInfo}]

VARIABLES
    task,           \* where the task of each connection is
    ident,          \* the backend id each connection announced
    backends,       \* Server.backends: the connection registered for each id
    backendsLine,   \* the line of the RwLock around Server.backends
    channels,       \* ChatBackend.channels of each connection
    channelsLine,   \* the line of the RwLock around it
    hand,           \* the event each connection is processing
    inFlight,       \* the events its backend has sent and it has not taken
    told,           \* how many events its backend has sent
    joined,         \* the channels its backend is in, as the backend sees it
    query,          \* where the handler of each query is
    asks,           \* what it asks for: all backends, all channels or a channel
    target,         \* the backend it names
    answer,         \* what it returned
    since,          \* the events that were applied, or about to be, when it began
    cleanups        \* CleanupRequest::Backend messages; the head is being served

connVars == <<task, ident, hand, inFlight, told, joined>>
queryVars == <<query, asks, target, answer, since>>
vars == <<connVars, queryVars, backends, backendsLine, channels, channelsLine, cleanups>>

-----------------------------------------------------------------------------
(* Locks, events and views *)

Register(k) == <<"register_backend", k>>
Look(q)     == <<"query", q>>
Read(r)     == <<"issue_request", r>>
Update(k)   == <<"handle_event", k>>
Clean       == <<"cleanup_task", "cleanup_task">>

BackendsWriters == {Register(k) : k \in Conns} \cup {Clean}
BackendsReaders == {Look(q) : q \in Queries} \cup {Read(r) : r \in Reads}
BackendsUses    == BackendsWriters \cup BackendsReaders
ChannelsUses(k) == {Update(k)} \cup {Look(q) : q \in Queries}

ReadsBackends(q) == HoldsShared(backendsLine, Look(q), BackendsWriters)

\* Faulty variant of ReadsChannels: a lock that lets readers pass.
ReadsChannelsFirst(q, k) ==
    Look(q) \in Queued(channelsLine[k]) /\ ~HoldsAlone(channelsLine[k], Update(k))

ReadsChannels(q, k) == HoldsShared(channelsLine[k], Look(q), {Update(k)})

Event == [type : {"join", "change"}, channel : Channels, info : Infos]
         \cup [type : {"leave"}, channel : Channels]

ASSUME EventAssumption == NoEvent \notin Event

Listing(view) == {<<c, view[c]>> : c \in {x \in Channels : view[x] # NoInfo}}

Empty == [c \in Channels |-> NoInfo]

\* Faulty variant of Updated: a change inserts what it does not find.
Inserted(view, e) ==
    IF e.type = "leave" THEN [view EXCEPT ![e.channel] = NoInfo]
    ELSE [view EXCEPT ![e.channel] = e.info]

\* The directory after event e.
Updated(view, e) ==
    CASE e.type = "join"   -> [view EXCEPT ![e.channel] = e.info]
      [] e.type = "leave"  -> [view EXCEPT ![e.channel] = NoInfo]
      [] e.type = "change" -> IF view[e.channel] = NoInfo THEN view
                              ELSE [view EXCEPT ![e.channel] = e.info]

Init ==
    /\ task = [k \in Conns |-> "hello"]
    /\ ident \in [Conns -> BackendIds]
    /\ backends = [b \in BackendIds |-> NoConn]
    /\ backendsLine = EmptyLine(BackendsUses)
    /\ channels = [k \in Conns |-> Empty]
    /\ channelsLine = [k \in Conns |-> EmptyLine(ChannelsUses(k))]
    /\ hand = [k \in Conns |-> NoEvent]
    /\ inFlight = [k \in Conns |-> <<>>]
    /\ told = [k \in Conns |-> 0]
    /\ joined = [k \in Conns |-> Empty]
    /\ query = [q \in Queries |-> "idle"]
    /\ asks \in [Queries -> {"backends", "channels"} \cup Channels]
    /\ target \in [Queries -> BackendIds]
    /\ answer = [q \in Queries |-> NoAnswer]
    /\ since = [q \in Queries |-> [k \in Conns |-> 0]]
    /\ cleanups = <<>>

-----------------------------------------------------------------------------
(* Connections *)

\* How many events of its backend the connection has applied.
Applied(k) == told[k] - Len(inFlight[k]) - (IF hand[k] = NoEvent THEN 0 ELSE 1)

IsLive(k) == task[k] \in {"running", "occupied", "answering", "updating"}

Hello(k) ==
    /\ task[k] = "hello"
    /\ task' = [task EXCEPT ![k] = "registering"]
    /\ backendsLine' = Enter(backendsLine, Register(k))
    /\ UNCHANGED <<ident, hand, inFlight, told, joined, backends, channels,
                   channelsLine, cleanups, queryVars>>

\* register_backend: a registration comes with an empty directory.
RegisterBackend(k) ==
    /\ task[k] = "registering" /\ HoldsAlone(backendsLine, Register(k))
    /\ \/ /\ backends[ident[k]] = NoConn
          /\ backends' = [backends EXCEPT ![ident[k]] = k]
          /\ task' = [task EXCEPT ![k] = "running"]
       \/ /\ backends[ident[k]] # NoConn
          /\ task' = [task EXCEPT ![k] = "refused"]
          /\ UNCHANGED backends
    /\ backendsLine' = Leave(backendsLine, {Register(k)})
    /\ UNCHANGED <<ident, hand, inFlight, told, joined, channels, channelsLine,
                   cleanups, queryVars>>

\* External: the backend joins, leaves or renames a channel, and tells.  It may
\* tell of the change of a channel that it is not in.
BackendSends(k) ==
    /\ IsLive(k) /\ told[k] < MaxEvents
    /\ \E e \in Event :
          /\ inFlight' = [inFlight EXCEPT ![k] = Append(@, e)]
          /\ joined' = [joined EXCEPT ![k][e.channel] =
                CASE e.type = "leave" -> NoInfo
                  [] e.type = "change" /\ @ = NoInfo -> NoInfo
                  [] OTHER -> e.info]
    /\ told' = [told EXCEPT ![k] = @ + 1]
    /\ UNCHANGED <<task, ident, hand, backends, backendsLine, channels,
                   channelsLine, cleanups, queryVars>>

\* handle_event gets an event.  One that names a request is answered first.
TakeEvent(k) ==
    /\ task[k] = "running" /\ inFlight[k] # <<>>
    /\ hand' = [hand EXCEPT ![k] = Head(inFlight[k])]
    /\ inFlight' = [inFlight EXCEPT ![k] = Tail(@)]
    /\ \/ /\ task' = [task EXCEPT ![k] = "answering"]
          /\ UNCHANGED channelsLine
       \/ /\ task' = [task EXCEPT ![k] = "updating"]
          /\ channelsLine' = [channelsLine EXCEPT ![k] = Enter(@, Update(k))]
    /\ UNCHANGED <<ident, told, joined, backends, backendsLine, channels,
                   cleanups, queryVars>>

\* The loop takes a request, which waits for room in the response stream, or an
\* event about something else, which may answer a request first.
TakeOther(k) ==
    /\ task[k] = "running"
    /\ task' = [task EXCEPT ![k] = "occupied"]
    /\ UNCHANGED <<ident, hand, inFlight, told, joined, backends, backendsLine,
                   channels, channelsLine, cleanups, queryVars>>

OtherDone(k) ==
    /\ task[k] = "occupied"
    /\ task' = [task EXCEPT ![k] = "running"]
    /\ UNCHANGED <<ident, hand, inFlight, told, joined, backends, backendsLine,
                   channels, channelsLine, cleanups, queryVars>>

\* Faulty variant of Answered: an event that names a request is only an answer.
AnsweredOnly(k) ==
    /\ task[k] = "answering"
    /\ task' = [task EXCEPT ![k] = "running"]
    /\ hand' = [hand EXCEPT ![k] = NoEvent]
    /\ UNCHANGED <<ident, inFlight, told, joined, backends, backendsLine,
                   channels, channelsLine, cleanups, queryVars>>

\* respond has returned: the plugin may have its answer before the update.
Answered(k) ==
    /\ task[k] = "answering"
    /\ task' = [task EXCEPT ![k] = "updating"]
    /\ channelsLine' = [channelsLine EXCEPT ![k] = Enter(@, Update(k))]
    /\ UNCHANGED <<ident, hand, inFlight, told, joined, backends, backendsLine,
                   channels, cleanups, queryVars>>

UpdateChannels(k) ==
    /\ task[k] = "updating" /\ HoldsAlone(channelsLine[k], Update(k))
    /\ task' = [task EXCEPT ![k] = "running"]
    /\ channels' = [channels EXCEPT ![k] = Updated(@, hand[k])]
    /\ hand' = [hand EXCEPT ![k] = NoEvent]
    /\ channelsLine' = [channelsLine EXCEPT ![k] = Leave(@, {Update(k)})]
    /\ UNCHANGED <<ident, inFlight, told, joined, backends, backendsLine,
                   cleanups, queryVars>>

\* The stream ends or fails, or its next event or request ends the task: what is
\* in flight is never taken, and the registration stays until it is cleaned.
EndTask(k) ==
    /\ task[k] \in {"running", "occupied"}
    /\ task' = [task EXCEPT ![k] = "ended"]
    /\ cleanups' = Append(cleanups, ident[k])
    /\ UNCHANGED <<ident, hand, inFlight, told, joined, backends, backendsLine, channels,
                   channelsLine, queryVars>>

-----------------------------------------------------------------------------
(* Queries *)

BeginQuery(q) ==
    /\ query[q] = "idle"
    /\ query' = [query EXCEPT ![q] = "backends"]
    /\ backendsLine' = Enter(backendsLine, Look(q))
    /\ since' = [since EXCEPT ![q] =
          [k \in Conns |-> Applied(k) + (IF task[k] = "updating" THEN 1 ELSE 0)]]
    /\ UNCHANGED <<asks, target, answer, connVars, backends, channels,
                   channelsLine, cleanups>>

\* Faulty variant of Finish: the guard on backends outlives the handler.
FinishHolding(q, res) ==
    /\ query' = [query EXCEPT ![q] = "done"]
    /\ answer' = [answer EXCEPT ![q] = res]
    /\ channelsLine' = [k \in Conns |-> Leave(channelsLine[k], {Look(q)})]
    /\ UNCHANGED <<asks, target, since, connVars, backends, backendsLine, channels, cleanups>>

\* The handler returns res and drops its guards.
Finish(q, res) ==
    /\ query' = [query EXCEPT ![q] = "done"]
    /\ answer' = [answer EXCEPT ![q] = res]
    /\ backendsLine' = Leave(backendsLine, {Look(q)})
    /\ channelsLine' = [k \in Conns |-> Leave(channelsLine[k], {Look(q)})]
    /\ UNCHANGED <<asks, target, since, connVars, backends, channels, cleanups>>

ListBackends(q) ==
    /\ query[q] = "backends" /\ ReadsBackends(q) /\ asks[q] = "backends"
    /\ Finish(q, {b \in BackendIds : backends[b] # NoConn})

\* "backend not found"
BackendMissing(q) ==
    /\ query[q] = "backends" /\ ReadsBackends(q) /\ asks[q] # "backends"
    /\ backends[target[q]] = NoConn
    /\ Finish(q, NoDirectory)

\* Faulty variant of FindBackend: the guard on backends ends with the lookup.
FindAndUnlock(q) ==
    LET k == backends[target[q]] IN
    /\ query[q] = "backends" /\ ReadsBackends(q) /\ asks[q] # "backends"
    /\ k # NoConn
    /\ query' = [query EXCEPT ![q] = k]
    /\ backendsLine' = Leave(backendsLine, {Look(q)})
    /\ channelsLine' = [channelsLine EXCEPT ![k] = Enter(@, Look(q))]
    /\ UNCHANGED <<asks, target, answer, since, connVars, backends, channels, cleanups>>

\* The handler goes on to lock the channels of the backend it found.
FindBackend(q) ==
    LET k == backends[target[q]] IN
    /\ query[q] = "backends" /\ ReadsBackends(q) /\ asks[q] # "backends"
    /\ k # NoConn
    /\ query' = [query EXCEPT ![q] = k]
    /\ channelsLine' = [channelsLine EXCEPT ![k] = Enter(@, Look(q))]
    /\ UNCHANGED <<asks, target, answer, since, connVars, backends, backendsLine,
                   channels, cleanups>>

\* All channels, or the one that get_channel_info asks for.
ReadChannels(q) ==
    LET k == query[q] IN
    /\ k \in Conns /\ ReadsChannels(q, k)
    /\ Finish(q, IF asks[q] = "channels" THEN Listing(channels[k]) ELSE channels[k][asks[q]])

\* The client goes away: tonic drops the handler wherever it awaits.
CancelQuery(q) ==
    /\ query[q] \in {"backends"} \cup Conns
    /\ Finish(q, answer[q])

-----------------------------------------------------------------------------
(* Calls that issue requests *)

\* issue_request and get_backend_info ask for backends, the latter twice ...
CallReads(r) ==
    /\ Read(r) \notin Queued(backendsLine)
    /\ backendsLine' = Enter(backendsLine, Read(r))
    /\ UNCHANGED <<connVars, queryVars, backends, channels, channelsLine, cleanups>>

\* ... and drop the guard once the request is sent or answered, or the wait for
\* it when the client goes away.
CallLetsGo(r) ==
    /\ Read(r) \in Queued(backendsLine)
    /\ backendsLine' = Leave(backendsLine, {Read(r)})
    /\ UNCHANGED <<connVars, queryVars, backends, channels, channelsLine, cleanups>>

-----------------------------------------------------------------------------
(* The Backend arm of cleanup_task *)

TakeCleanup ==
    /\ cleanups # <<>> /\ Clean \notin Queued(backendsLine)
    /\ backendsLine' = Enter(backendsLine, Clean)
    /\ UNCHANGED <<connVars, queryVars, backends, channels, channelsLine, cleanups>>

CleanBackend ==
    /\ HoldsAlone(backendsLine, Clean)
    /\ backends' = [backends EXCEPT ![Head(cleanups)] = NoConn]
    /\ backendsLine' = Leave(backendsLine, {Clean})
    /\ cleanups' = Tail(cleanups)
    /\ UNCHANGED <<connVars, queryVars, channels, channelsLine>>

-----------------------------------------------------------------------------
(* The specification *)

ConnStep(k) == RegisterBackend(k) \/ TakeEvent(k) \/ UpdateChannels(k)
Resumes(k) == Answered(k) \/ OtherDone(k)
QueryStep(q) == ListBackends(q) \/ BackendMissing(q) \/ FindBackend(q) \/ ReadChannels(q)
CleanupStep == TakeCleanup \/ CleanBackend
ServerStep ==
    \/ \E k \in Conns : ConnStep(k) \/ Resumes(k)
    \/ \E q \in Queries : QueryStep(q)
    \/ CleanupStep

Next ==
    \/ ServerStep
    \/ \E k \in Conns : Hello(k) \/ BackendSends(k) \/ TakeOther(k) \/ EndTask(k)
    \/ \E q \in Queries : BeginQuery(q) \/ CancelQuery(q)
    \/ \E r \in Reads : CallReads(r) \/ CallLetsGo(r)

Spec == Init /\ [][Next]_vars

\* tokio polls a task that can go on.  It is not said here when requests, which
\* respond waits for, the response stream of a backend, or a guard of a call
\* become free: so nothing is assumed of Resumes, of CallLetsGo and of when
\* cleanup_task, which has other messages to serve, comes to take one.
Fairness ==
    /\ \A k \in Conns : WF_vars(ConnStep(k))
    /\ \A q \in Queries : WF_vars(QueryStep(q))
    /\ WF_vars(CleanBackend)

FairSpec == Spec /\ Fairness

-----------------------------------------------------------------------------
(* Properties *)

\* Types of the variables; a query that is over holds nothing.
TypeOK ==
    /\ task \in [Conns -> {"hello", "registering", "running", "occupied",
                           "answering", "updating", "ended", "refused"}]
    /\ ident \in [Conns -> BackendIds]
    /\ backends \in [BackendIds -> Conns \cup {NoConn}]
    /\ backendsLine \in [BackendsUses -> SUBSET BackendsUses]
    /\ channels \in [Conns -> [Channels -> Infos \cup {NoInfo}]]
    /\ \A k \in Conns : channelsLine[k] \in [ChannelsUses(k) -> SUBSET ChannelsUses(k)]
    /\ hand \in [Conns -> Event \cup {NoEvent}]
    /\ inFlight \in [Conns -> Seq(Event)]
    /\ told \in [Conns -> 0..MaxEvents]
    /\ joined \in [Conns -> [Channels -> Infos \cup {NoInfo}]]
    /\ query \in [Queries -> {"idle", "backends", "done"} \cup Conns]
    /\ asks \in [Queries -> {"backends", "channels"} \cup Channels]
    /\ target \in [Queries -> BackendIds]
    /\ since \in [Queries -> [Conns -> 0..MaxEvents]]
    /\ cleanups \in Seq(BackendIds)
    /\ \A q \in Queries : query[q] \in {"idle", "done"} =>
          /\ Look(q) \notin Queued(backendsLine)
          /\ \A k \in Conns : Look(q) \notin Queued(channelsLine[k])

\* The directory after events, one by one.
Replayed(view, events) ==
    LET after[n \in 0..Len(events)] ==
            IF n = 0 THEN view ELSE Updated(after[n-1], events[n])
    IN  after[Len(events)]

OnTheWay(k) == (IF hand[k] = NoEvent THEN <<>> ELSE <<hand[k]>>) \o inFlight[k]

\* The directory lags behind the backend by the events that are on their way
\* and by no other: once they are applied, in their order, it shows the channels
\* that the backend is in.  This also holds for a directory whose connection
\* has ended, which is out of date by the events it never took.
CatchesUp == \A k \in Conns : joined[k] = Replayed(channels[k], OnTheWay(k))

\* handle_event answers a request before it applies the event that answers it,
\* so a plugin that has its answer may still be shown the directory without
\* that event.  It is never shown less: a query sees every event whose update
\* had asked for the lock when the query began, because it comes later to the
\* same line.
FreshRead ==
    \A q \in Queries, k \in Conns :
        query[q] = k /\ ReadsChannels(q, k) => Applied(k) >= since[q][k]

\* Some use of the channels of k has them, and then waits for nothing.
ChannelsMove(k) ==
    \/ HoldsAlone(channelsLine[k], Update(k)) /\ task[k] = "updating"
    \/ \E q \in Queries : query[q] = k /\ ReadsChannels(q, k)

\* Some use of backends has it, and is not at the channels of a backend.
BackendsMove ==
    \/ HoldsAlone(backendsLine, Clean) /\ cleanups # <<>>
    \/ \E k \in Conns : HoldsAlone(backendsLine, Register(k)) /\ task[k] = "registering"
    \/ \E q \in Queries : query[q] = "backends" /\ ReadsBackends(q)

CallHoldsBackends == \E r \in Reads : HoldsShared(backendsLine, Read(r), BackendsWriters)

\* The nested guards never end in a cycle of waits: queries ask for channels with
\* backends held, but whoever holds channels asks for nothing else.  So wherever
\* somebody waits at these locks, somebody there goes on, unless a call
\* that issues a request has the guard it is waiting for: only from there do the
\* stalls of requests (StallShapes in RequestBroker) reach the directory, and
\* they never reach the channels.
NeverStuck ==
    /\ \A k \in Conns : Queued(channelsLine[k]) # {} => ChannelsMove(k)
    /\ Queued(backendsLine) # {} =>
          BackendsMove \/ CallHoldsBackends \/ \E k \in Conns : ChannelsMove(k)

Directory == [b \in BackendIds |->
    IF backends[b] = NoConn THEN NoDirectory ELSE channels[backends[b]]]

Stage == [q \in Queries |-> CASE query[q] = "idle" -> "new"
                              [] query[q] = "done" -> "closed"
                              [] OTHER -> "open"]

Contract == INSTANCE DirectoryContract WITH directory <- Directory, query <- Stage

\* A query is answered from the directory as it is at one moment of the query.
\* A backend that goes away and comes back meanwhile is not confused with the
\* one before: the registration found is still the registration when its
\* channels are read, because its guard is kept.
ImplementsContract == Contract!Spec

-----------------------------------------------------------------------------
(* What eventually happens *)

\* As long as no call keeps its guard on backends for ever, or waits for it for
\* ever, every query ends: neither a connection that is held up in respond or
\* at its response stream, nor a registration or a cleanup that waits for other
\* queries, can stop it.
CallsLetGo == \A r \in Reads : []<>(Read(r) \notin Queued(backendsLine))
QueriesReturn == CallsLetGo => \A q \in Queries : query[q] = "backends" ~> query[q] = "done"

\* A connection whose task is not held up by requests any more, neither by one it
\* passes on nor by an answer: when its backend falls silent, its directory comes
\* to show the channels the backend is in, and keeps showing them, whatever the
\* queries, the calls and the other connections do.
IsHeldUp(k) == task[k] \in {"occupied", "answering"}
DirectorySettles ==
    \A k \in Conns : <>[]~IsHeldUp(k) => <>[](IsLive(k) => channels[k] = joined[k])
=============================================================================
