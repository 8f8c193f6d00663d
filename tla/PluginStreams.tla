---------------------------- MODULE PluginStreams ----------------------------
(***************************************************************************)
(* The event streams of seabird-core: stream_events registers the commands *)
(* of a plugin, subscribes to the broadcast ring and spawns a task that    *)
(* forwards events to the plugin until the plugin goes away or falls too   *)
(* far behind; dropping the task's CommandsHandle makes cleanup_task       *)
(* remove the commands.                                                    *)
(*                                                                         *)
(* Concurrent here are the handlers and tasks of the streams, whoever      *)
(* broadcasts (handlers of message RPCs and tasks of chat backends),       *)
(* registered_commands and cleanup_task.  They share Server.commands, the  *)
(* ring behind Server.sender and the cleanup channel.  A handler runs from *)
(* the grant of the commands lock to its end without an await, but not     *)
(* alone: broadcasts go on between its steps.                              *)
(***************************************************************************)
EXTENDS Naturals, Sequences, FairLock

CONSTANTS
    Streams,            \* stream_events RPCs
    Commands,           \* names of commands
    Listers,            \* registered_commands RPCs
    BroadcastBuffer,    \* BROADCAST_BUFFER: events the ring keeps
    ReceiveBuffer,      \* CHAT_INGEST_RECEIVE_BUFFER: events queued per stream
    MaxEvents,          \* a bound of the model: how many events are broadcast
    NoStream

ASSUME StreamsAssumption ==
    /\ BroadcastBuffer \in Nat \ {0}
    /\ ReceiveBuffer \in Nat \ {0}
    /\ MaxEvents \in Nat
    /\ NoStream \notin Streams

VARIABLES
    stream,         \* where the handler, then the task, of each stream is
    wants,          \* the commands each plugin brings
    client,         \* whether the plugin reads: "open", "gone" or "ended"
    commands,       \* Server.commands: the stream each command belongs to
    commandsLine,   \* the line of the RwLock around Server.commands
    sent,           \* how many events the ring was given; an event is its number
    start,          \* the last event before each stream subscribed
    next,           \* the broadcast Receiver of each stream: its last event
    hand,           \* the event each task is forwarding, 0 if none
    out,            \* the wrapped channel of each stream
    seen,           \* the events each plugin has read
    cleanups,       \* CleanupRequest::Commands messages; the head is being served
    lister,         \* where each registered_commands call is
    listed,         \* the streams whose commands it returned ...
    listedAt        \* ... and how many events there had been by then

streamVars == <<stream, wants, start, next, hand>>
clientVars == <<client, out, seen>>
listVars == <<lister, listed, listedAt>>
vars == <<streamVars, clientVars, commands, commandsLine, sent, cleanups, listVars>>

-----------------------------------------------------------------------------
(* The uses of the commands lock. *)

Open(s) == <<"stream_events", s>>
List(l) == <<"registered_commands", l>>
Clean   == <<"cleanup_task", "cleanup_task">>

Readers == {List(l) : l \in Listers}
Writers == {Open(s) : s \in Streams} \cup {Clean}
Uses    == Readers \cup Writers

Init ==
    /\ stream = [s \in Streams |-> "idle"]
    /\ wants \in [Streams -> SUBSET Commands]
    /\ client = [s \in Streams |-> "open"]
    /\ commands = [n \in Commands |-> NoStream]
    /\ commandsLine = EmptyLine(Uses)
    /\ sent = 0
    /\ start = [s \in Streams |-> 0]
    /\ next = [s \in Streams |-> 0]
    /\ hand = [s \in Streams |-> 0]
    /\ out = [s \in Streams |-> <<>>]
    /\ seen = [s \in Streams |-> <<>>]
    /\ cleanups = <<>>
    /\ lister = [l \in Listers |-> "idle"]
    /\ listed = [l \in Listers |-> {}]
    /\ listedAt = [l \in Listers |-> 0]

-----------------------------------------------------------------------------
(* The handler of stream_events *)

Call(s) ==
    /\ stream[s] = "idle"
    /\ stream' = [stream EXCEPT ![s] = "registering"]
    /\ commandsLine' = Enter(commandsLine, Open(s))
    /\ UNCHANGED <<wants, start, next, hand, commands, sent, cleanups>>
    /\ UNCHANGED <<clientVars, listVars>>

\* The client gives up while the handler awaits the lock.
CancelCall(s) ==
    /\ stream[s] = "registering"
    /\ stream' = [stream EXCEPT ![s] = "refused"]
    /\ commandsLine' = Leave(commandsLine, {Open(s)})
    /\ UNCHANGED <<wants, start, next, hand, commands, sent, cleanups>>
    /\ UNCHANGED <<clientVars, listVars>>

\* Faulty variant of Collides: only a plugin with nothing new is turned away.
CollidesWhole(s) == wants[s] # {} /\ \A n \in wants[s] : commands[n] # NoStream

\* Some command of the plugin is registered already.
Collides(s) == \E n \in wants[s] : commands[n] # NoStream

Refuse(s) ==
    /\ stream[s] = "registering" /\ HoldsAlone(commandsLine, Open(s))
    /\ Collides(s)
    /\ stream' = [stream EXCEPT ![s] = "refused"]
    /\ commandsLine' = Leave(commandsLine, {Open(s)})
    /\ UNCHANGED <<wants, start, next, hand, commands, sent, cleanups>>
    /\ UNCHANGED <<clientVars, listVars>>

\* Faulty variant of RegisterCommands: the guard ends with the insertions.
RegisterAndUnlock(s) ==
    /\ stream[s] = "registering" /\ HoldsAlone(commandsLine, Open(s))
    /\ ~Collides(s)
    /\ stream' = [stream EXCEPT ![s] = "subscribing"]
    /\ commands' = [n \in Commands |-> IF n \in wants[s] THEN s ELSE commands[n]]
    /\ commandsLine' = Leave(commandsLine, {Open(s)})
    /\ UNCHANGED <<wants, start, next, hand, sent, cleanups>>
    /\ UNCHANGED <<clientVars, listVars>>

RegisterCommands(s) ==
    /\ stream[s] = "registering" /\ HoldsAlone(commandsLine, Open(s))
    /\ ~Collides(s)
    /\ stream' = [stream EXCEPT ![s] = "subscribing"]
    /\ commands' = [n \in Commands |-> IF n \in wants[s] THEN s ELSE commands[n]]
    /\ UNCHANGED <<wants, start, next, hand, commandsLine, sent, cleanups>>
    /\ UNCHANGED <<clientVars, listVars>>

\* The handler subscribes, spawns the task and returns, which drops the guard.
Subscribe(s) ==
    /\ stream[s] = "subscribing"
    /\ stream' = [stream EXCEPT ![s] = "running"]
    /\ start' = [start EXCEPT ![s] = sent]
    /\ next' = [next EXCEPT ![s] = sent]
    /\ commandsLine' = Leave(commandsLine, {Open(s)})
    /\ UNCHANGED <<wants, hand, commands, sent, cleanups>>
    /\ UNCHANGED <<clientVars, listVars>>

-----------------------------------------------------------------------------
(* The task of a stream *)

\* The task owns a Receiver of the ring and the Sender of the channel.
IsLive(s) == stream[s] \in {"running", "sending"}

\* Faulty variant of Lagged: off by one.
LaggedEarly(s) == sent - next[s] >= BroadcastBuffer

\* The next event of s is overwritten.
Lagged(s) == sent - next[s] > BroadcastBuffer

TakeEvent(s) ==
    /\ stream[s] = "running" /\ next[s] < sent /\ ~Lagged(s)
    /\ stream' = [stream EXCEPT ![s] = "sending"]
    /\ next' = [next EXCEPT ![s] = @ + 1]
    /\ hand' = [hand EXCEPT ![s] = next[s] + 1]
    /\ UNCHANGED <<wants, start, commands, commandsLine, sent, cleanups>>
    /\ UNCHANGED <<clientVars, listVars>>

\* Faulty variant of HasRoom: the channel is not bounded.
HasNoBound(s) == TRUE

\* Faulty variant of HasRoom: one place is kept free.
HasRoomToSpare(s) == Len(out[s]) + 1 < ReceiveBuffer

HasRoom(s) == Len(out[s]) < ReceiveBuffer

Forward(s) ==
    /\ stream[s] = "sending" /\ client[s] # "gone" /\ HasRoom(s)
    /\ stream' = [stream EXCEPT ![s] = "running"]
    /\ hand' = [hand EXCEPT ![s] = 0]
    /\ out' = [out EXCEPT ![s] = Append(@, hand[s])]
    /\ UNCHANGED <<wants, start, next, client, seen, commands, commandsLine, sent,
                   cleanups, listVars>>

\* The task ends: its CommandsHandle, its Receiver and its Sender are dropped.
EndTask(s) ==
    /\ stream' = [stream EXCEPT ![s] = "ended"]
    /\ hand' = [hand EXCEPT ![s] = 0]
    /\ cleanups' = Append(cleanups, s)
    /\ UNCHANGED <<wants, start, next, commands, commandsLine, sent>>
    /\ UNCHANGED <<clientVars, listVars>>

\* The Receiver reports that it lagged; the error goes to the log only.
FallBehind(s) ==
    /\ stream[s] = "running" /\ Lagged(s)
    /\ EndTask(s)

\* The plugin is gone while the task awaits room in the channel.
ForwardFails(s) ==
    /\ stream[s] = "sending" /\ client[s] = "gone"
    /\ EndTask(s)

\* The notifier of the wrapped channel fires.
NoticeGone(s) ==
    /\ stream[s] = "running" /\ client[s] = "gone"
    /\ EndTask(s)

-----------------------------------------------------------------------------
(* Events *)

\* broadcast, or the send in handle_event.  With no Receiver the send fails
\* and the ring stays as it is.
Broadcast ==
    /\ sent < MaxEvents /\ \E s \in Streams : IsLive(s)
    /\ sent' = sent + 1
    /\ UNCHANGED <<streamVars, clientVars, commands, commandsLine, cleanups, listVars>>

-----------------------------------------------------------------------------
(* The plugin, through tonic *)

ClientReads(s) ==
    /\ client[s] = "open" /\ out[s] # <<>>
    /\ seen' = [seen EXCEPT ![s] = Append(@, Head(out[s]))]
    /\ out' = [out EXCEPT ![s] = Tail(@)]
    /\ UNCHANGED <<streamVars, client, commands, commandsLine, sent, cleanups, listVars>>

\* The sender is gone and the channel is empty.
ClientSeesEnd(s) ==
    /\ client[s] = "open" /\ out[s] = <<>> /\ stream[s] = "ended"
    /\ client' = [client EXCEPT ![s] = "ended"]
    /\ UNCHANGED <<streamVars, out, seen, commands, commandsLine, sent, cleanups, listVars>>

\* tonic drops the WrappedChannelReceiver with what is in it.
ClientLeaves(s) ==
    /\ client[s] = "open" /\ stream[s] \in {"running", "sending", "ended"}
    /\ client' = [client EXCEPT ![s] = "gone"]
    /\ out' = [out EXCEPT ![s] = <<>>]
    /\ UNCHANGED <<streamVars, seen, commands, commandsLine, sent, cleanups, listVars>>

-----------------------------------------------------------------------------
(* registered_commands *)

BeginList(l) ==
    /\ lister[l] = "idle"
    /\ lister' = [lister EXCEPT ![l] = "waiting"]
    /\ commandsLine' = Enter(commandsLine, List(l))
    /\ UNCHANGED <<streamVars, clientVars, commands, sent, cleanups, listed, listedAt>>

ListCommands(l) ==
    /\ lister[l] = "waiting" /\ HoldsShared(commandsLine, List(l), Writers)
    /\ lister' = [lister EXCEPT ![l] = "done"]
    /\ listed' = [listed EXCEPT ![l] = {commands[n] : n \in Commands} \ {NoStream}]
    /\ listedAt' = [listedAt EXCEPT ![l] = sent]
    /\ commandsLine' = Leave(commandsLine, {List(l)})
    /\ UNCHANGED <<streamVars, clientVars, commands, sent, cleanups>>

CancelList(l) ==
    /\ lister[l] = "waiting"
    /\ lister' = [lister EXCEPT ![l] = "done"]
    /\ commandsLine' = Leave(commandsLine, {List(l)})
    /\ UNCHANGED <<streamVars, clientVars, commands, sent, cleanups, listed, listedAt>>

-----------------------------------------------------------------------------
(* The Commands arm of cleanup_task *)

TakeCleanup ==
    /\ cleanups # <<>> /\ Clean \notin Queued(commandsLine)
    /\ commandsLine' = Enter(commandsLine, Clean)
    /\ UNCHANGED <<streamVars, clientVars, commands, sent, cleanups, listVars>>

\* Faulty variant of Named: the first name only.
NamedFirst(s) == IF wants[s] = {} THEN {} ELSE {CHOOSE n \in wants[s] : TRUE}

\* The names in the message of s: to_cleanup.
Named(s) == wants[s]

CleanCommands ==
    /\ HoldsAlone(commandsLine, Clean)
    /\ commands' = [n \in Commands |-> IF n \in Named(Head(cleanups)) THEN NoStream ELSE commands[n]]
    /\ commandsLine' = Leave(commandsLine, {Clean})
    /\ cleanups' = Tail(cleanups)
    /\ UNCHANGED <<streamVars, clientVars, sent, listVars>>

-----------------------------------------------------------------------------
(* The specification *)

\* Faulty variant of StreamStep: the task selects no notifier.
StreamStepUnnotified(s) ==
    \/ Refuse(s) \/ RegisterCommands(s) \/ Subscribe(s)
    \/ TakeEvent(s) \/ Forward(s) \/ FallBehind(s) \/ ForwardFails(s)

\* What tokio drives by itself.
StreamStep(s) ==
    \/ Refuse(s) \/ RegisterCommands(s) \/ Subscribe(s)
    \/ TakeEvent(s) \/ Forward(s) \/ FallBehind(s) \/ ForwardFails(s) \/ NoticeGone(s)

\* Faulty variant of CleanupStep: the message is dropped.
CleanupStepNever == TakeCleanup

CleanupStep == TakeCleanup \/ CleanCommands

ReadStep(s) == ClientReads(s) \/ ClientSeesEnd(s)

Next ==
    \/ \E s \in Streams : Call(s) \/ CancelCall(s) \/ StreamStep(s)
    \/ \E s \in Streams : ReadStep(s) \/ ClientLeaves(s)
    \/ \E l \in Listers : BeginList(l) \/ ListCommands(l) \/ CancelList(l)
    \/ Broadcast
    \/ CleanupStep

Spec == Init /\ [][Next]_vars

\* tokio polls what can go on.
Fairness ==
    /\ \A s \in Streams : WF_vars(StreamStep(s))
    /\ \A l \in Listers : WF_vars(ListCommands(l))
    /\ WF_vars(CleanupStep)

FairSpec == Spec /\ Fairness

-----------------------------------------------------------------------------
(* Properties *)

Pending(s) == \E i \in 1..Len(cleanups) : cleanups[i] = s

StreamState == {"idle", "registering", "subscribing", "running", "sending",
                "ended", "refused"}

\* Types of the variables, and the bounds of the channel.
TypeOK ==
    /\ stream \in [Streams -> StreamState]
    /\ wants \in [Streams -> SUBSET Commands]
    /\ client \in [Streams -> {"open", "gone", "ended"}]
    /\ commands \in [Commands -> Streams \cup {NoStream}]
    /\ commandsLine \in [Uses -> SUBSET Uses]
    /\ sent \in Nat
    /\ start \in [Streams -> Nat]
    /\ next \in [Streams -> Nat]
    /\ hand \in [Streams -> Nat]
    /\ out \in [Streams -> Seq(Nat)]
    /\ seen \in [Streams -> Seq(Nat)]
    /\ cleanups \in Seq(Streams)
    /\ lister \in [Listers -> {"idle", "waiting", "done"}]
    /\ listed \in [Listers -> SUBSET Streams]
    /\ listedAt \in [Listers -> Nat]
    /\ \A s \in Streams : Len(out[s]) <= ReceiveBuffer

Owned(s) == {n \in Commands : commands[n] = s}

\* "If any command collides with one already in the registry, none of this
\* plugin's commands are inserted" (grpc.rs:26): a stream has all of its
\* commands from its registration to the cleanup that its end asks for, and
\* none before and after.  So a name never goes from one plugin to another
\* while the first is alive, and a late or repeated cleanup cannot take a name
\* away from the plugin that registered it next.
AllOrNothing ==
    /\ \A s \in Streams :
          Owned(s) = IF stream[s] = "subscribing" \/ IsLive(s) \/ Pending(s)
                     THEN wants[s] ELSE {}
    /\ \A s \in Streams : Pending(s) => stream[s] = "ended"
    /\ \A i, j \in 1..Len(cleanups) : cleanups[i] = cleanups[j] => i = j

\* Whoever is told of a command can rely on its plugin being subscribed: every
\* event that is broadcast after registered_commands returned is one for the
\* stream of that plugin.  The guard that stream_events keeps until it returns
\* is what makes it so.
ListedIsSubscribed ==
    \A l \in Listers : \A s \in listed[l] :
        /\ IsLive(s) \/ stream[s] = "ended"
        /\ start[s] <= listedAt[l]

\* The two refinements.  A stream opens for its plugin when it subscribes, and
\* is closed when the plugin has read its end.
Phase == [s \in Streams |->
    CASE stream[s] \in {"idle", "registering", "subscribing"} -> "new"
      [] stream[s] = "refused" \/ client[s] = "ended" -> "closed"
      [] (IsLive(s) \/ stream[s] = "ended") /\ client[s] = "open" -> "open"
      [] OTHER -> "left"]

Delivery == INSTANCE StreamContract WITH Capacity <- BroadcastBuffer, phase <- Phase

\* Events reach each plugin in order and without a gap, and the stream of a
\* plugin that stays ends only when it has fallen behind.
ImplementsContract == Delivery!Spec

Stage == [s \in Streams |->
    CASE stream[s] \in {"idle", "registering"} -> "new"
      [] stream[s] = "subscribing" \/ IsLive(s) -> "holding"
      [] stream[s] = "ended" /\ Pending(s) -> "leaving"
      [] OTHER -> "over"]

Registry == INSTANCE ExclusiveRegistry WITH
    Names <- Commands, Owners <- Streams, NoOwner <- NoStream,
    claims <- wants, owner <- commands, stage <- Stage

\* Commands are handed out as the registry of exclusive names promises.
ImplementsRegistry == Registry!Spec

-----------------------------------------------------------------------------
(* What eventually happens *)

\* A plugin that disconnects is noticed, even when no event comes ("detect
\* when a client has cleanly disconnected", wrapped.rs:9), and its commands
\* become free, as do those of a stream that ended in any other way.
CommandsFreed ==
    \A s \in Streams : (client[s] = "gone" /\ IsLive(s)) \/ stream[s] = "ended"
        ~> stream[s] = "ended" /\ Owned(s) = {}

\* A plugin that reads on, whatever the others do, gets every event broadcast
\* after its subscription, unless its stream ends or it leaves.
EveryEventSeen ==
    \A s \in Streams : WF_vars(ReadStep(s)) =>
        \A e \in 1..MaxEvents :
            IsLive(s) /\ start[s] < e /\ e <= sent ~>
                (\E i \in 1..Len(seen[s]) : seen[s][i] = e) \/ client[s] # "open"
=============================================================================
