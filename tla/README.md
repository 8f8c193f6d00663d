# A TLA+ model of seabird-core

seabird-core is an event broker in Rust: *chat backends* (IRC, Discord, ...)
connect over the gRPC stream `ingest_events`, *plugins* call RPCs and listen to
`stream_events`, and the server routes between them. It keeps no state on disk
except a table of tokens, so everything that can go wrong happens between the
tasks of one process: RPC handlers, one task per backend connection, one task
per plugin stream, and one cleanup task. This directory holds a model of these
tasks, of the pure code between them, the properties they should have, and
machine-checked proofs of the most important ones. Paths below are relative to
the repository; `mod.rs`, `grpc.rs`, `ingest_events.rs` and `auth.rs` are in
`src/server/`.

## Inventory

| Component | State | Operations | What makes it correct |
|---|---|---|---|
| Request path (`src/server/mod.rs`, `grpc.rs`) | `requests`: uuid to `Some(sender)` or the tombstone `None`; per call a `ChatRequestHandle` with a oneshot receiver | eight RPC handlers, `issue_request`, `respond`, drop of the handle | one final outcome per call; success only if the named backend had the request; a waiting call can always be answered; entries go away; no deadlock |
| Backend connections (`ingest_events.rs`, `register_backend`) | `backends`: id to channel sender and channel directory; per connection the task, the channel receiver, the response stream | hello, register, select loop (request or event), end of the task | an id has one owner; a cleanup never removes a successor; an id becomes free again |
| Cleanup task (`cleanup_task`) | unbounded queue of `CleanupRequest` | one arm for requests, backends, commands | every message is served once, in order, and removes what it was sent for |
| Locks (tokio) | one `Mutex`, three kinds of `RwLock`, all fair | lock, read, write, drop | order of the locks, no guard across a wait |
| Command registry (`stream_events`, `CommandsHandle`) | `commands`: name to metadata | register all or nothing, list, clean by name | exclusive, atomic, cleaned after the stream only |
| Event streams (`stream_events`, `wrapped.rs`, `broadcast`) | broadcast ring of 32 events, per plugin a cursor and a channel of 10 | broadcast, forward, lag, client gone | no gap before the end of a stream; commands visible implies subscribed |
| Channel directory (`ChatBackend.channels`) | channel id to display name and topic | join, leave, change, list, info | it is behind the backend by the events on their way and no others; an answer is the directory of one moment; nested guards do not deadlock |
| Identifiers (`id.rs`, `proto.rs`) | none | parse, format, make relative | what a plugin is shown leads back to where it came from |
| Blocks (`utils.rs`) | none | `normalize_block` and rendering | text and blocks read the same at every level; a broken tree is refused as a whole |
| Authentication (`auth.rs`, `db.rs`) | table of tokens | look the token up before each call | a handler gets the name of the presented token and no other |
| Startup (`main.rs`, `Server::run`), build, packaging | none | | not modelled: I/O |

How they interact. A plugin's RPC locks `requests`, inserts an entry, locks
`backends` for reading, finds the backend's channel and sends the request into
it *with both locks held*, then drops them and waits at most `REQUEST_TIMEOUT`
for the oneshot. The connection's task moves requests from that channel to the
gRPC response stream, and takes the backend's events in the same loop: an event
that names a request goes to `respond`, which locks `requests` and sends the
oneshot. Handles that are dropped (end of a call, end of a connection, end of
a plugin stream) send a message to the cleanup task, which takes a lock and
removes the entry. A client that goes away makes tonic drop the handler's
future at whatever `await` it is in. Before each RPC the authentication layer
asks the database for the name of the token. Handlers of message RPCs and
`handle_event` put events into the broadcast ring, from which one task per
plugin stream forwards them; `handle_event` also keeps the backend's directory
of channels, which queries read through the registration.

Hard behaviours, each a hazard of `PROJECT.json` with its line: the lock cycles
through full channels and through the second read in `get_backend_info`;
cleanup by id while the same id reconnects; the timer, the answer and the
cancellation of one call racing each other; answers that are late, repeated or
come over a later connection; registrations that outlive their connection;
what is left behind by calls that end before they have a handle; commands that
are visible before their stream; a plugin that lags, or leaves while nothing
happens; an answer that overtakes the update it speaks of; a directory found
under one lock and read under another; ids with separators in them; blocks whose
parts contradict each other; a table of tokens that changes under a lookup.

## Modules

| Module | What it is |
|---|---|
| `FairLock` | tokio's fair `Mutex` and `RwLock` as a *line*: for each use of the lock, the uses that asked before it, and a first among any that wait. Pure operators. |
| `FairLockProofs` | a line stays a queue and has a first; grants exclude each other. |
| `RequestTypes` | kinds of calls, answers and outcomes. |
| `RequestContract` | what a plugin may rely on, with no locks, queues or connections: five actions per call. |
| `ExclusiveRegistry` | what both registries promise, backends by id and commands by name: all names or none, kept until the owner goes, given back once. |
| `RequestBroker` | the request path, the connections and the cleanup task; its properties and its refinements of `RequestContract` and `ExclusiveRegistry`. |
| `RequestBrokerProofs` | the theorems about `RequestBroker`. |
| `StreamContract` | what a plugin may rely on in `stream_events`: events in order, without a gap, until it leaves or falls behind. |
| `PluginStreams` | the command registry, the broadcast ring, the tasks of the streams and their wrapped channels; its refinements of `StreamContract` and `ExclusiveRegistry`. |
| `PluginStreamsProofs` | the theorems about `PluginStreams`. |
| `DirectoryContract` | what the queries promise: an answer is the directory of one moment of the query. |
| `ChannelDirectory` | `handle_event`'s updates beside `list_backends`, `list_channels` and `get_channel_info`, with nested locks; its refinement of `DirectoryContract`. |
| `ChannelDirectoryProofs` | the theorems about `ChannelDirectory`. |
| `Ids` | formatting and parsing of ids, down to bytes: pure operators. |
| `IdRouting` | ids on their way from a backend to a plugin and back. |
| `IdRoutingProofs` | what any id is written as and read as, and the theorems about `IdRouting`. |
| `Blocks` | `normalize_block` and rendering, with a reference definition: pure operators. |
| `BlockRelay` | a message passing the server hop by hop. |
| `BlockRelayProofs` | what normalizing does to any tree, and the theorems about `BlockRelay`. |
| `Recursion` | induction on a rank and functions defined by recursion on a rank, for any set; `FlattenSeq`. |
| `Auth` | `AuthedService`, the lookup and the table of tokens. |
| `AuthProofs` | the theorems about `Auth`. |
| `MC...` | symmetries, and the trees and names that TLC is given. |

`RequestBroker`, `PluginStreams` and `ChannelDirectory` share `cleanup_task`,
each with the arm it is about, and the last two share `handle_event` with the
first. They are not composed into one module: the state they have in common is
the cleanup queue, whose arms take different locks and touch different maps,
the loop of a connection's task, which passes on requests and takes events, and
the `backends` lock. Each module has the other's use of these in it, as seen
from outside. `ChannelDirectory` has the guards that calls keep on `backends`
while they send or wait, and a task that a request or an answer may hold up for
any time. `RequestBroker` has no queries: they are readers of `backends` that
ask for nothing a request holds but `backends` itself, and always go on
(the first conjunct of `NeverStuck`), so they can delay its writers and readers
but add no wait that ends nowhere.

### RequestBroker and the code

An action is what a task does between two awaits. A lock is asked for at the
end of an action (`Enter`); the next action of that task has the grant as its
guard (`HoldsRequests`, `ReadsBackends`, `WritesBackends`). Dropping a guard, or
a future that still waits for one, is `Leave`.

| In the model | In the code |
|---|---|
| `pc[c]`, `kind`, `target`, `outcome` | where the handler of call `c` is; which of the eight RPCs it is; the backend it names; the `Status` it returns |
| `requests[c]` = absent, pending, responded | no entry, `Some(ChatRequest)`, `None`. `respond` removes whatever it finds (`mod.rs:206`) and puts `None` back only after the first answer: a second one takes the `None` away (`mod.rs:214-216`), a third finds nothing, and then so does the cleanup (`mod.rs:156`) |
| `reply[c]` | the oneshot of the `ChatRequest`: it keeps the answer until the call takes it, whatever becomes of the entry |
| `backends[b]` | the connection whose `ChatBackend` is registered for `b` |
| `chan[k]`, `out[k]` | the mpsc channel of the backend (`CHAT_INGEST_RECEIVE_BUFFER`) and the response stream (`CHAT_INGEST_SEND_BUFFER`) |
| `task[k]`, `hand[k]` | the spawned task of the connection and the request or event it is working on |
| `received[b]` | external: requests that backend `b` has read |
| `cleanups` | the cleanup channel; the message being served stays at its head |
| `BeginRequest`, `BeginInfo`, `CheckBackend`, `Insert`, `Lookup`, `Send`, `Return` | a handler and `issue_request`, from the broadcast to the response |
| `Reject`, `CheckBackendFails`, `LookupFails`, `SendFails`, `Timeout`, `Cancel` | its early returns, its timeout, and the drop of its future |
| `Hello`, `HelloFails`, `RegisterBackend` | `IngestEventsHandle::new` and `register_backend` |
| `TakeRequest`, `Forward`, `ForwardFails`, `TakeAnswer`, `HandleAnswer`, `EndOfStream` | the select loop of `IngestEvents::run`, `handle_event` and `respond`, every exit of the loop with the drop of `ChatBackendHandle` |
| `TakeCleanup`, `CleanRequest`, `CleanBackend` | `cleanup_task` |

Abstracted: a call is its uuid (no collisions); payloads, tags and texts are
left out; an answer is one of five kinds, told apart by what the handlers and
`handle_event` do with it; a backend answers only requests it has received, but
any number of times, in any order and over any later connection of the same
id. Events that name no request touch none of the modelled state and are left
out. `kind`, `target` and `ident` are chosen in `Init`, so a run covers every
combination.

`BeginRequestSilent`, `InsertAndUnlock`, `ReceiverLeaked`, `OutcomeIsReply`, `OutcomeAnySuccess`,
`IdNeverTaken`, `AnyPending`, `AfterRespondLookedUp`, `AfterCleanupUnanswered`,
`CallStepWithoutTimeout`, `CleanRequestAgain` and `CleanupStepRequestsOnly` are faulty variants of
definitions next to them. Nothing uses them; put in the place of the
original, each makes the property that is paired with it in `PROJECT.json`
fail, which shows that the property depends on that piece of code. The other
modules have such variants too, each marked "Faulty variant" where it stands.

### PluginStreams and the code

| In the model | In the code |
|---|---|
| `stream[s]`, `wants[s]` | where the handler, then the spawned task, of a `stream_events` call is; the keys of its `commands` |
| `commands`, `commandsLine` | `Server.commands` and its `RwLock`; a command is mapped to the stream that registered it |
| `sent`, `next[s]`, `BroadcastBuffer` | the ring: an event is its number, a `Receiver` the number of its last event; it lags when more than `BROADCAST_BUFFER` are behind it |
| `hand`, `out`, `ReceiveBuffer`, `client` | the event being forwarded, the wrapped channel, and whether tonic still holds its receiver |
| `cleanups` | the `CommandsHandle`s that were dropped; a message is named by its stream, its content is `Named` |
| `Call`, `Refuse`, `RegisterCommands`, `Subscribe` | `stream_events` from the lock to the return, which drops the guard |
| `TakeEvent`, `Forward`, `FallBehind`, `ForwardFails`, `NoticeGone` | the loop of the task and its three exits (the ring itself is never closed while the server lives) |
| `ClientReads`, `ClientSeesEnd`, `ClientLeaves` | `poll_next` and `Drop` of `WrappedChannelReceiver` |
| `Broadcast` | `Server::broadcast` and the sends of `handle_event`: no effect without a receiver |

Broadcasts are steps of their own, so they fall between any two steps of a
handler, `RegisterCommands` and `Subscribe` among them.

### ChannelDirectory and the code

| In the model | In the code |
|---|---|
| `channels[k]`, `channelsLine[k]` | `ChatBackend.channels` of connection `k` and its `RwLock` |
| `hand`, `inFlight`, `told`, `joined` | the event in `handle_event`, those still in the stream; external: how many the backend sent and what it is in |
| `TakeEvent`, `Answered`, `UpdateChannels` | `handle_event` of a join, leave or change: `respond` first if it names a request, then the lock, then `Updated` |
| `TakeOther`, `OtherDone`, task "occupied" | the loop with anything else: a request that waits for room in the response stream (`ingest_events.rs:197-203`), an event that changes no channel, which may answer a request first |
| `CallReads`, `CallLetsGo` | the reads of `backends` in `issue_request`, kept until the request is sent (`mod.rs:242-263`), and in `get_backend_info`, kept until it is answered (`grpc.rs:397`) |
| `BeginQuery`, `FindBackend`, `ReadChannels`, `ListBackends`, `BackendMissing`, `Finish` | the three queries: the guard on `backends`, the lookup, the guard on `channels`, the end that drops both |
| `since` | a history variable: what had been applied, or had asked for the lock, when the query began |

What `respond` does is in `RequestBroker`; here it is a step that need never
come (`Answered` is not fair, and neither is `OtherDone`), because `requests` may be locked by a call
that waits in its send. Nor need `CallLetsGo` come. `select` looks for a request
before it looks for an event, so a backend that is given requests without end
may not see its events applied: `TakeOther` is always possible. "channel not
found" is the answer `NoInfo`.

### Ids, IdRouting, Blocks, BlockRelay, Auth

Ids are sequences of bytes, because what could go wrong is in the bytes:
`Encode` and `Decode` are `percent_encode` and `percent_decode` of the crate (an
incomplete escape stands for itself), `IsUtf8` is Rust's check, and
`Found` is `splitn(2, ..)`. In `IdRouting` two backends come and go, a plugin
keeps the texts it was shown and sends them back later, as what they are, as
the other kind, or changed.

A block is a record with its kind, its own text, the blocks inside and its
plain text; texts are sequences of words. `AnyBlock` holds the blocks that prost
decodes: it refuses a message nested deeper than a limit, `MaxDepth` here.
`Relabelling`, `Normalized` and `Rendered` follow `utils.rs`; `Reading`, `Parts`,
`Complete` and `Agrees` are the reference, which looks at no plain text. In
`BlockRelay` a message passes up to three handlers, one hop after the other: senders
may put any text beside any blocks, keep or drop blocks, hand on the tags they
were given or put others, also under the server's own key. `Extended` is
`tags.extend(additional_tags)`, which every message handler and `handle_event`
do alike: the later map wins.

In `Auth` a name is of one of three sorts: visible ASCII, opaque (a header can
hold it but `to_str` fails) or unfit (no header can hold it). Clients may send an
`x-auth-username` of their own. Rows are added, removed and renamed at any time.

## Runs

All but one expect no error. Numbers are distinct states.

| Run | Instance | Question | States |
|---|---|---|---|
| `broker` | 2 calls (message, info), 2 connections, 2 ids, 5 kinds of answers, channels of 1 | is the request path safe, does it implement `RequestContract`, and are ids handed out as `ExclusiveRegistry` says, which no cleanup takes from a successor? | 2.0 million |
| `broker_contention` | 3 calls (message, info), 2 connections, channels of 1 | are sends serialised, and in which states can the server stand still? | 4.4 million |
| `broker_backpressure` | 4 messages, 1 connection, channels of 1 | the same when a backend stops reading | 1.8 million |
| `broker_liveness` | 2 calls (channel), 2 connections of 1 id, 2 kinds of answers, one of which ends the connection, channels of 2, fair | do calls return, ids become free, entries go away, and does each step of the server leave it less to do? | 153 thousand |
| `broker_guard_across_wait` | 1 `get_backend_info` | are the locks dropped before the wait? (violated, see below) | |
| `streams` | 2 streams, 2 commands, 1 lister, a ring of 2, a channel of 1, 4 events | are commands exclusive and atomic, is who is listed subscribed, do events come in order and without a gap? | 1.1 million |
| `streams_liveness` | 2 streams, 1 command, a ring of 1, 3 events, fair | is a disconnect noticed, are commands freed, does a reader see everything? | 54 thousand |
| `directory` | 2 connections of 1 id, 2 channels, 2 infos, 1 query, 1 call, 2 events each | does the directory catch up, is an answer the directory of one moment, can nested guards wait for each other? | 4.8 million |
| `directory_queries` | 1 connection, 1 channel, 2 queries, 1 call, 2 events, fair | is a query shown all it should, do queries return, does the directory settle? | 322 thousand |
| `ids` | 2 backends out of 15, 5 paths, 5 texts made up | do ids lead back, are the kinds told apart, is what comes out UTF-8? | 80 thousand |
| `blocks` | some 800 trees up to three deep (`MaxDepth = 3`), 3 hops | do text and blocks agree, does the message survive, is a broken tree refused, do tags arrive and tell the truth? | 835 thousand |
| `auth` | 2 requests, 2 tokens, names of the 3 sorts | whom does a handler take the caller for? | 346 thousand |

Bounds. The hazards are about pairs: two calls for one lock, a connection and
its successor for one id, a call and a cleanup. Two connections per id make a
reconnection, three make one beside another backend. A full channel needs as
many requests as its size plus one that waits, so channels of one place
suffice; `FullChannelCycle` needs three calls (one answered, one in the
channel, one sending) and `BackendNotReading` four (one in the response
stream, one in hand, one in the channel, one sending), which is why those runs
have that many. Two commands make a partial collision, two streams a plugin and
its successor; a ring of two events with four broadcast makes a stream lag after
it forwarded some. A query that is overtaken by a reconnection needs two
connections of one id, a reader that overtakes a waiting writer a second query.
`directory_queries` has one connection only, because TLC's liveness check of two
does not end in reasonable time; its invariant is proved for any number. The
three kinds of calls are spread over the runs of `RequestBroker`, which differ
in the answer a handler takes for success (`Wanted`) and in the guard of
`get_backend_info`; the theorems are about all kinds at once.
Names for `ids` hold each separator, a part of one, a percent sign before hex
digits, nothing, and characters of two and four bytes. Connections and streams
never reconnect in the model: each stream is a
member of `Conns` or `Streams`. Runs ignore deadlock because a finite set of calls,
connections, streams, queries, hops or requests comes to its end and the server
then idles; when it may stand still with work left is what `StallShapes` says
of `RequestBroker`, and that it does not is what `NeverStuck` says of
`ChannelDirectory` and the liveness properties of the others.

Stalls. `StallShapes` is the deadlock property of the server: if work is left
and no task of the server can go on (`CanGoOn`) then it is a cycle through a full
channel (`mod.rs:249` against `mod.rs:204`), a cycle through the second read of
`get_backend_info` (`grpc.rs:397`, `mod.rs:242`), or a backend that does not
read its stream. All three are reachable in the code; `REQUEST_TIMEOUT` bounds
none of them because it starts after the send. They end when a client cancels
or, the third, when the backend reads on. `CanGoOn` names what each task waits
for, a lock, room or its timer: it is `ENABLED ServerStep` spelled out, so that
`StallShapes` can be proved.
The queries of `ChannelDirectory` nest guards too, `channels` within `backends`,
but nobody who has `channels` asks for anything else: `NeverStuck`. The stalls
do reach the queries in one way. A call that is stuck in its send, or a
`get_backend_info` in its wait, has a guard on `backends`; a registration or a
cleanup queues behind it, and every query that comes later queues behind that.
So `NeverStuck` names a call that holds `backends` as the one thing, beside
a step of their own, that those who wait there may be waiting for, and
`QueriesReturn` assumes `CallsLetGo`.

Headway. A server that cannot stand still might still spin. `ServerMakesHeadway`
says that it does not: `CallSteps` and `ConnSteps` count the steps that are left
to do for a call (its handler, its request on the way to the backend, its
cleanup) and for a connection, and every step of the server makes one of them
smaller and none larger. They are never more than 9 and 3 (`StepsAreFew`). So when
plugins and backends do nothing the server comes to rest after that many steps
per call and connection, and it rests with no work left or in one of the shapes of
`StallShapes`. That is a termination argument without fairness and without
bounds on channels, which the prover can check; that what is left at rest is
nothing, in the absence of stalls, is the liveness that TLC checks.

Fairness. `Fairness` is weak fairness of each call, of each connection's task
and of the cleanup task: tokio polls tasks that are woken, its locks are fair
(`FairLock`) and its timer fires. Nothing is assumed of plugins, backends or the
network: `PluginStep` and `BackendStep` are never fair. `broker_liveness` takes
channels that cannot fill up and no `get_backend_info` because the stalls above
make the three properties false otherwise. `PluginStreams` has
weak fairness of the handlers and tasks in the same way, and of the cleanup task;
the latter presumes that `cleanup_task` is not held up by a message of another
arm, which the stalls of `StallShapes` can do, since the queue is shared.
`ChannelDirectory` has weak fairness of the queries, of the registration and
of what a connection's task does with an event of the directory once it takes
it, and of a cleanup that has asked for its lock. Nothing is assumed there of
`respond`, of the response stream, of the guards of calls and of when
`cleanup_task` comes to a message, because the stalls decide that: what a property needs of them is
a premise of the property. `QueriesReturn` needs that no call stays at `backends`
for ever, and `DirectorySettles` that from some time on requests and answers
no longer hold up the task of that one connection. Plugins that read on are an assumption of `EveryEventSeen`
alone, one plugin at a time, and backends that send never are one.

Refinements. `RequestBroker` implements `RequestContract` and
`ExclusiveRegistry` (ids), `PluginStreams` implements `StreamContract` and
`ExclusiveRegistry` (commands), `ChannelDirectory` implements
`DirectoryContract`. The mappings (`Stage`, `ConnStage`, `Phase`, `Directory`)
stand in front of the instances. A subscription is the moment a stream opens
for its plugin, though its handler has not returned; a stream closes for the
plugin when it has read the end.

Finding. `get_backend_info` holds its guard on `backends` across the wait for
the backend's response, where `mod.rs:228` explains that guards are dropped
"before waiting for a response". For up to a second no backend can register or
be cleaned; with a writer in between the two reads the call waits for itself.
`broker_guard_across_wait` is the run that shows it.

## Theorems

For every set of calls, connections, ids and kinds, and all buffer sizes, from
`BrokerAssumption` only (kinds are kinds, buffers hold something, the three null
values are none of the others).

| Theorem | States | Rests on |
|---|---|---|
| `TypeCorrect` | `TypeOK` | `TypeInv`: also, what a task has in hand is a call and an answer, and `cleanup_task` waits for the lock of the map its message is about |
| `OneOwner` | `OneOwnerPerBackend` | inductive together with `TypeInv` |
| `SuccessorKept` | `NoSuccessorEvicted`, which `ImplementsRegistry` implies and no run checks by itself | `OneOwnerPerBackend`: a served message is pending, so its owner has ended |
| `NoWaiterLost`, `HandlesCleanUp` | `NoLostWaiter`: a waiting call has its sender in `requests` just as long as it has no answer; `HandleCleansUp`: after a call with a handle its entry is gone, by the cleanup or by a repeated answer before it, or the message is on its way | `RequestInv`: entry, oneshot and message of a call in each place of its handler |
| `SendsAreSerialised` | `SendUnderLocks` | `LineInv`: both lines are queues, and who is in them is told by `pc` and `task` |
| `SuccessIsDelivered` | `OkMeansDelivered` | `FlowInv`: a request travels only towards the backend its call names, an answer comes only from a backend that was given the request, and an outcome is set at the end |
| `BrokerImplementsContract` | `ImplementsContract` | `RequestInv` and `FlowInv`: each step is a step of `RequestContract` or leaves its variables alone (`ContractStep`) |
| `RequestsAsMeant` | `CarriedAsMeant` | `FlowInv`, and `OnceInv`: a request is in one place at a time on its way, or was received, and not more than once |
| `LeftoversAreInert` | `LeftoverIsInert` | `LeftoverInv`: the entry of a call that ended before it had a handle stays as it was inserted, since `respond` is only called with requests that were sent |
| `BrokerImplementsRegistry` | `ImplementsRegistry` (ids) | `OneOwnerPerBackend`: a connection is registered from its registration until its one message is served |
| `OnlyThreeStalls` | `StallShapes` | `LineInv` with `CallPlaces`, and `OutFits`: a response stream holds no more than `SendBuffer`. If nothing goes on, the first in the line of `requests` is a call in its lookup or in its send (`FirstOfRequests`): in its send, its channel is full and its backend's task waits for `requests` or for room (`SendingStalls`); in its lookup, whoever is first in the line of `backends` is a call with its guard of `get_backend_info`, that very call or one that waits for `requests` behind it (`LookupStalls`). If nobody has asked for `requests`, no work is left (`IdleRequests`) |
| `ServerHeadway` | `ServerMakesHeadway` | `OneOwnerPerBackend`, `RequestInv` and `OnceInv`: a step that takes a request or serves a message leaves none of it behind, so what is counted for a call goes down, and what a step hands to another task was counted already |
| `HeadwayIsBounded` | `StepsAreFew` | `RequestInv` and `FlowInv`: a call that is not over has no cleanup message yet, and one that has sent no request has none on its way; `OneOwnerPerBackend`: a connection that is up has none either |
| `AloneIsAlone`, `SharedExcludesAlone`, `FirstInLine` | the two locks exclude what they should; a line that is not empty has a first | `IsLine` |

None of the properties is inductive alone. `NoLostWaiter`, for one, needs that
no cleanup message of a waiting call is pending, which is part of
`HandleCleansUp`; that in turn needs that the head of the queue goes with the
lock `cleanup_task` holds (`CleanerOK`). Each invariant has an initial lemma
(`...Init`), a step lemma with one case per action or group of actions that
change the same variables (`...Step`), and a frame lemma for steps that
do not concern it. Lines are reasoned about through `LineMoves` alone: entering
and leaving keep a queue and disturb no other use.

About the other modules, again for all values of their constants, from
`StreamsAssumption`, `DirectoryAssumption`, `EventAssumption`,
`AuthAssumption`, `IdAssumption`, `BlocksAssumption` and `RelayAssumption`:

| Theorem | States | Rests on |
|---|---|---|
| `TypeCorrect` (streams) | `TypeOK` | `TypeInv`: also, `cleanup_task` asks for the lock while it serves a message |
| `CommandsAllOrNothing` | `AllOrNothing` | `OwnInv`: the same, command by command, which is inductive once the guard excludes other writers |
| `ListedAreSubscribed` | `ListedIsSubscribed` | `LineInv`: a stream holds the lock alone from `RegisterCommands` until it has subscribed, so a lister reads before both or after both |
| `StreamsImplementRegistry` | `ImplementsRegistry` (commands) | `OwnInv` |
| `PluginsHoldNobodyUp` | `RegistryNeverStuck`: while a handler is at the commands lock or a message is queued, one of them can go on, whatever the plugins read | `LineInv` and `FirstInLine`: who holds the lock waits for no channel |
| `StreamsImplementContract` | `ImplementsContract` | `DeliveryInv`: what a plugin has seen, what waits in its channel, the event in hand and what is left in the ring are, in this order, the events since its subscription |
| `TypeCorrect` (directory) | `TypeOK` | `LineInv`: who is in which line is told by `task` and `query`; `CountOf`: a connection has received no more than was told |
| `ReadsAreFresh` | `FreshRead` | `FreshInv`: the one event a query could miss is being applied, and its update is in front of the query in the line |
| `DirectoryImplementsContract` | `ImplementsContract` | `FoundInv`: the registration a query found stays, because a writer of `backends` excludes the query's guard (`SharedExcludesAlone`) |
| `CallerKnown`, `NameThere` | `CallerIsTokenOwner`, `NameIsThere` | `AuthInv`: what is known of a request in each place of `AuthedService::call` |
| `DirectoryCatchesUp` | `CatchesUp` | inductive together with `TypeInv`: what the events on their way make of the directory (`Replayed`) is what the backend is in, and taking an event from the front or adding one at the end keeps it so |
| `DirectoryNeverStuck` | `NeverStuck` | `LineInv`: the first in a line of `channels` can go on (`ChannelsFree`), so no query waits for one; then so can the first in the line of `backends`, unless it is a call (`BackendsFree`) |
| `DirectoryHeadway` | `ServerMakesHeadway` of the directory: each step of a query, a connection's task or the cleanup leaves less to do, so they never spin. It bounds the steps and does not say that they come | `TypeInv`: each step shortens what it is the step of, and entering and leaving the line of `backends` moves nobody else (`ServingMoves`) |
| `RequestsAreOK`, `KindsAreDifferent`, `TextsComeHome` | `RequestOK`, `KindsDiffer`, `ComesHome` | `IdInv`: a text that is held is one that was written for `home`; `BackendRead` and `FullRead`; whatever `Decode` makes of a text that parses has passed `IsUtf8` |
| `BackendRead`, `FullRead` | a backend id is written so that it is read as itself and as no full id; a full id as itself, and as the id of a backend only with the slash and the path behind its id | `DecodeOfEncode`: decoding undoes encoding, also in front of more text; `FoundBehind`: an encoded text holds no separator, so the first one is ours; `Utf8Join` |
| `ReadersDoAgree`, `MessagesSurvive`, `BrokenAreRefused`, `TagsDoTell` | `ReadersAgree`, `MessageSurvives`, `BrokenIsRefused`, `TagsTell` | `RelayInv`: what is passed on is complete, agrees with itself and reads like the first draft, and its tags are the first ones but for the server's (`ExtendedIs`); `NormalizedIs`: of a complete tree, `Normalized` agrees at every level and reads as before; `BrokenIs`: `Broken` is the negation of `Complete` |
| `NatAll`, `RankInduction`, `RankRecursion` | induction and recursion over any set with a rank | that a set of natural numbers has a least element (`WFMin`) |

`Ids` and `Blocks` recurse over texts and trees. Their operators are recursive
*functions*, and TLA+ takes such a function to be one that its equation
chooses: nothing can be said of it before some function is shown to satisfy the
equation. `RankRecursion` shows this for every equation that looks only at
elements of a lower rank, the length of a text or the depth of a tree, and
`RankInduction` then proves what holds of all. Both speak of sets and functions
instead of operators and rest on the least-number principle, since the provers
cannot instantiate the induction theorems of the library. The proofs are
therefore about texts of any length and trees of any depth up to `MaxDepth`,
whatever it is, where TLC has those of an instance.

What is assumed of the constants: `IdAssumption` says that schemes, names and
paths are UTF-8, as every `String` of Rust is, that what a plugin makes up is
bytes, and that the two null values are no ids; `BlocksAssumption` that the four
words `render_inner_block` writes are words and that `MaxDepth` is a positive
number; `RelayAssumption` that what is sent are blocks and texts.

Model-checked only: `LocksDroppedBeforeWaiting` (it is refuted, see the finding), and all
liveness properties: `EveryCallReturns`, `RegistrationFreed`, `EntryReclaimed`,
`CommandsFreed`, `EveryEventSeen`, `QueriesReturn` and
`DirectorySettles`, which need fairness.

## Bounds and limits

- A call that fails or is cancelled between `Insert` and the end of `Send`
  (`LookupFails`, `SendFails`, an early `Cancel`) leaves its entry in `requests`
  for the life of the process, because the handle that would remove it is built
  later (`mod.rs:240-262`). The model shows it: such calls are `done` with
  `requests[c] = "pending"`. `HandleCleansUp` and `EntryReclaimed` are stated for
  calls that got their handle.
- Dropping `ChatBackendHandle` is one step here; in the code the message is sent
  just before the receiver is closed.
- A full id is also read as the id of *some* backend where a backend id is
  expected, since a slash is decoded as itself (`id.rs:67`); `KindsDiffer` says
  it is never that of the backend it belongs to.
- The token of a stream is looked up once, when it is opened; a token that is
  removed does not end it. `CallerIsTokenOwner` is about each request.
- A plugin that falls behind sees a clean end of its stream: the error goes to
  the log only (`grpc.rs:68-71`, `main.rs:22-33`). `StreamContract.End` says that
  this happens to nobody else who stays.
- Between the end of a connection and its cleanup a query is still answered from
  its last directory; `CatchesUp` says how far that is out of date.
- The models are about one process: a restart loses all of this state, and
  clients start over.

Not modelled: `main.rs`, `Server::run`, `run_grpc_server` and `DB::new` (straight-line
setup whose failures end the process), `get_core_info` (a constant and the
clock), `build.rs`, packaging and the generated protobuf code. There is no state in
them that a property could be about.

## Plan

1. `EveryCallReturns` with channels that can fill up, under the assumption that
   backends read on, would need the stalls to be excluded by the code first.
2. One cleanup queue for all three arms, to show how a stall of the request path
   delays the cleanup of commands and directories.
