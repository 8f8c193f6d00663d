---------------------------- MODULE RequestBroker ----------------------------
(***************************************************************************)
(* The request path of seabird-core: an RPC of a plugin (a call) becomes a *)
(* ChatRequest of a chat backend, and the ChatEvent the backend answers    *)
(* with becomes the outcome of the call.                                   *)
(*                                                                         *)
(* Three kinds of tasks run concurrently, and each action below is what    *)
(* one of them does between two points where it awaits:                    *)
(*   - a call: a handler of src/server/grpc.rs and Server::issue_request;  *)
(*   - a connection: the task that IngestEventsHandle::new spawns for an   *)
(*     ingest_events stream (hello, register_backend, the select loop);    *)
(*   - Server::cleanup_task, which serves the messages of dropped handles. *)
(* They share Server.requests, Server.backends and the cleanup channel.    *)
(* A lock is asked for at the end of one action; the next action of the    *)
(* task is enabled once the lock is granted (see FairLock).                *)
(***************************************************************************)
EXTENDS Naturals, Sequences, FairLock, RequestTypes

CONSTANTS
    Calls,          \* RPCs that issue a request; a call stands for its uuid too
    Conns,          \* ingest_events streams, one per connection ever made
    BackendIds,     \* the BackendIds that connections announce in their hello
    Kinds,          \* the kinds of calls that are made (see RequestTypes)
    Replies,        \* the kinds of ChatEvents that backends answer with
    ReceiveBuffer,  \* CHAT_INGEST_RECEIVE_BUFFER: requests queued per backend
    SendBuffer,     \* CHAT_INGEST_SEND_BUFFER: requests queued per stream
    NoConn, NoCall, NoReply

ASSUME BrokerAssumption ==
    /\ Kinds \subseteq KindOfCall
    /\ Replies \subseteq KindOfReply
    /\ ReceiveBuffer \in Nat \ {0}
    /\ SendBuffer \in Nat \ {0}
    /\ NoConn \notin Conns
    /\ NoCall \notin Calls
    /\ NoReply \notin KindOfReply

VARIABLES
    pc,             \* where each call is
    kind,           \* which handler each call runs
    target,         \* the backend id each call names
    outcome,        \* the Status each finished call returned
    reply,          \* the oneshot channel of each call: its value, if any
    requests,       \* Server.requests: absent, pending (Some), responded (None)
    requestsLine,   \* the line of the Mutex around Server.requests
    backends,       \* Server.backends: the connection registered for each id
    backendsLine,   \* the line of the RwLock around Server.backends
    announced,      \* calls whose event was broadcast to the plugins
    task,           \* where the task of each connection is
    ident,          \* the backend id each connection announced
    chan,           \* ChatBackend.sender / ChatBackendHandle.receiver
    hand,           \* the request or answer each connection is processing
    out,            \* the response stream of each connection
    received,       \* the requests each backend has been given
    cleanups        \* the cleanup channel; its head is kept while being served

callVars == <<pc, kind, target, outcome, reply, announced>>
connVars == <<task, ident, chan, hand, out, received>>
vars == <<callVars, connVars, requests, requestsLine, backends, backendsLine,
          cleanups>>

-----------------------------------------------------------------------------
(* The uses of the two locks. *)

Issue(c)    == <<"issue_request", c>>
Guard(c)    == <<"get_backend_info", c>>
Register(k) == <<"register_backend", k>>
Respond(k)  == <<"respond", k>>
Clean       == <<"cleanup_task", "cleanup_task">>

RequestsUses == {Issue(c) : c \in Calls} \cup {Respond(k) : k \in Conns} \cup {Clean}
BackendsReaders == {Issue(c) : c \in Calls} \cup {Guard(c) : c \in Calls}
BackendsWriters == {Register(k) : k \in Conns} \cup {Clean}
BackendsUses == BackendsReaders \cup BackendsWriters

HoldsRequests(u) == HoldsAlone(requestsLine, u)
ReadsBackends(u) == HoldsShared(backendsLine, u, BackendsWriters)
WritesBackends(u) == HoldsAlone(backendsLine, u)

(* The messages of the cleanup channel. *)

RequestCleanup(c) == [type |-> "Request", id |-> c]
BackendCleanup(b) == [type |-> "Backend", id |-> b]
CleanupRequest == {RequestCleanup(c) : c \in Calls} \cup {BackendCleanup(b) : b \in BackendIds}

(* Types *)

CallState == {"idle", "guarding", "locking", "lookup", "sending", "waiting", "done"}
ConnState == {"hello", "registering", "running", "forwarding", "answering",
              "ended", "refused"}

NothingInHand == [call |-> NoCall, reply |-> NoReply]

Init ==
    /\ pc = [c \in Calls |-> "idle"]
    /\ kind \in [Calls -> Kinds]
    /\ target \in [Calls -> BackendIds]
    /\ outcome = [c \in Calls |-> "none"]
    /\ reply = [c \in Calls |-> NoReply]
    /\ requests = [c \in Calls |-> "absent"]
    /\ requestsLine = EmptyLine(RequestsUses)
    /\ backends = [b \in BackendIds |-> NoConn]
    /\ backendsLine = EmptyLine(BackendsUses)
    /\ announced = {}
    /\ task = [k \in Conns |-> "hello"]
    /\ ident \in [Conns -> BackendIds]
    /\ chan = [k \in Conns |-> <<>>]
    /\ hand = [k \in Conns |-> NothingInHand]
    /\ out = [k \in Conns |-> <<>>]
    /\ received = [b \in BackendIds |-> {}]
    /\ cleanups = <<>>

-----------------------------------------------------------------------------
(* Calls *)

\* The handler returns res from before the ChatRequestHandle exists: the
\* guards are dropped, and an entry already in requests stays there.
Abandon(c, res) ==
    /\ pc' = [pc EXCEPT ![c] = "done"]
    /\ outcome' = [outcome EXCEPT ![c] = res]
    /\ requestsLine' = Leave(requestsLine, {Issue(c)})
    /\ backendsLine' = Leave(backendsLine, {Issue(c), Guard(c)})
    /\ UNCHANGED <<kind, target, reply, requests, backends, announced, cleanups>>
    /\ UNCHANGED connVars

\* The handler returns res and its ChatRequestHandle is dropped with it: the
\* cleanup message is sent, the oneshot receiver is gone, and so is the guard
\* that get_backend_info has held since it looked the backend up.
DropHandle(c, res) ==
    /\ pc' = [pc EXCEPT ![c] = "done"]
    /\ outcome' = [outcome EXCEPT ![c] = res]
    /\ reply' = [reply EXCEPT ![c] = NoReply]
    /\ cleanups' = Append(cleanups, RequestCleanup(c))
    /\ backendsLine' = Leave(backendsLine, {Guard(c)})
    /\ UNCHANGED <<kind, target, requests, requestsLine, backends, announced>>
    /\ UNCHANGED connVars

\* No auth username, an id that does not parse or a malformed block.
Reject(c) ==
    /\ pc[c] = "idle"
    /\ Abandon(c, "invalid")

\* Faulty variant of BeginRequest: the broadcast is left for later.
BeginRequestSilent(c) ==
    /\ pc[c] = "idle" /\ kind[c] # "info"
    /\ pc' = [pc EXCEPT ![c] = "locking"]
    /\ requestsLine' = Enter(requestsLine, Issue(c))
    /\ UNCHANGED <<kind, target, outcome, reply, announced, requests, backends,
                   backendsLine, cleanups>>
    /\ UNCHANGED connVars

\* A "message" handler broadcasts its event, then both it and a "channel"
\* handler call issue_request, which locks requests.
BeginRequest(c) ==
    /\ pc[c] = "idle" /\ kind[c] # "info"
    /\ pc' = [pc EXCEPT ![c] = "locking"]
    /\ announced' = IF kind[c] = "message" THEN announced \cup {c} ELSE announced
    /\ requestsLine' = Enter(requestsLine, Issue(c))
    /\ UNCHANGED <<kind, target, outcome, reply, requests, backends, backendsLine, cleanups>>
    /\ UNCHANGED connVars

\* get_backend_info takes the backends lock for itself first.
BeginInfo(c) ==
    /\ pc[c] = "idle" /\ kind[c] = "info"
    /\ pc' = [pc EXCEPT ![c] = "guarding"]
    /\ backendsLine' = Enter(backendsLine, Guard(c))
    /\ UNCHANGED <<kind, target, outcome, reply, announced, requests, requestsLine,
                   backends, cleanups>>
    /\ UNCHANGED connVars

\* ... and keeps the guard when it goes on to issue_request.
CheckBackend(c) ==
    /\ pc[c] = "guarding" /\ ReadsBackends(Guard(c))
    /\ backends[target[c]] # NoConn
    /\ pc' = [pc EXCEPT ![c] = "locking"]
    /\ requestsLine' = Enter(requestsLine, Issue(c))
    /\ UNCHANGED <<kind, target, outcome, reply, announced, requests, backends,
                   backendsLine, cleanups>>
    /\ UNCHANGED connVars

CheckBackendFails(c) ==
    /\ pc[c] = "guarding" /\ ReadsBackends(Guard(c))
    /\ backends[target[c]] = NoConn
    /\ Abandon(c, "not_found")

\* Faulty variant of Insert: the requests guard ends with the insertion.
InsertAndUnlock(c) ==
    /\ pc[c] = "locking" /\ HoldsRequests(Issue(c))
    /\ pc' = [pc EXCEPT ![c] = "lookup"]
    /\ requests' = [requests EXCEPT ![c] = "pending"]
    /\ requestsLine' = Leave(requestsLine, {Issue(c)})
    /\ backendsLine' = Enter(backendsLine, Issue(c))
    /\ UNCHANGED <<kind, target, outcome, reply, announced, backends, cleanups>>
    /\ UNCHANGED connVars

\* issue_request, requests locked: the entry is inserted, backends is locked.
Insert(c) ==
    /\ pc[c] = "locking" /\ HoldsRequests(Issue(c))
    /\ pc' = [pc EXCEPT ![c] = "lookup"]
    /\ requests' = [requests EXCEPT ![c] = "pending"]
    /\ backendsLine' = Enter(backendsLine, Issue(c))
    /\ UNCHANGED <<kind, target, outcome, reply, announced, requestsLine, backends, cleanups>>
    /\ UNCHANGED connVars

Lookup(c) ==
    /\ pc[c] = "lookup" /\ ReadsBackends(Issue(c))
    /\ backends[target[c]] # NoConn
    /\ pc' = [pc EXCEPT ![c] = "sending"]
    /\ UNCHANGED <<kind, target, outcome, reply, announced, requests, requestsLine,
                   backends, backendsLine, cleanups>>
    /\ UNCHANGED connVars

LookupFails(c) ==
    /\ pc[c] = "lookup" /\ ReadsBackends(Issue(c))
    /\ backends[target[c]] = NoConn
    /\ Abandon(c, "not_found")

\* A registration outlives its connection until cleanup_task serves it.
IsLive(k) == task[k] \in {"running", "forwarding", "answering"}

\* Faulty variant of ReceiverClosed: something keeps the receiver alive.
ReceiverLeaked(k) == FALSE

\* EndTask has dropped the ChatBackendHandle and the receiver with it.
ReceiverClosed(k) == ~IsLive(k)

\* The mpsc send completes once there is room; both locks are held until then.
Send(c) ==
    LET k == backends[target[c]] IN
    /\ pc[c] = "sending" /\ ~ReceiverClosed(k) /\ Len(chan[k]) < ReceiveBuffer
    /\ pc' = [pc EXCEPT ![c] = "waiting"]
    /\ chan' = [chan EXCEPT ![k] = Append(@, c)]
    /\ requestsLine' = Leave(requestsLine, {Issue(c)})
    /\ backendsLine' = Leave(backendsLine, {Issue(c)})
    /\ UNCHANGED <<kind, target, outcome, reply, announced, requests, backends, cleanups>>
    /\ UNCHANGED <<task, ident, hand, out, received>>

\* The receiver was dropped: the backend disconnected and is not cleaned yet.
SendFails(c) ==
    /\ pc[c] = "sending" /\ ReceiverClosed(backends[target[c]])
    /\ Abandon(c, "send_failed")

\* Faulty variants of OutcomeOf: the event itself; Metadata taken for success.
OutcomeIsReply(kd, r) == r
OutcomeAnySuccess(kd, r) ==
    IF r = "Failed" THEN "failed" ELSE IF r = "Hello" THEN "unexpected" ELSE "ok"

\* What each handler makes of the event that answers its request.
OutcomeOf(kd, r) ==
    IF r = "Failed" THEN "failed"
    ELSE IF r \in Wanted[kd] THEN "ok"
    ELSE "unexpected"

Return(c) ==
    /\ pc[c] = "waiting" /\ reply[c] # NoReply
    /\ DropHandle(c, OutcomeOf(kind[c], reply[c]))

\* REQUEST_TIMEOUT expires.  It can do so while the answer is being sent.
Timeout(c) ==
    /\ pc[c] = "waiting"
    /\ DropHandle(c, "deadline_exceeded")

\* The client goes away or its gRPC deadline passes: tonic drops the future
\* of the handler wherever it awaits.
Cancel(c) ==
    \/ /\ pc[c] \in {"guarding", "locking", "lookup", "sending"}
       /\ Abandon(c, "cancelled_early")
    \/ /\ pc[c] = "waiting"
       /\ DropHandle(c, "cancelled")

-----------------------------------------------------------------------------
(* Connections *)

\* The hello arrives and register_backend asks for the backends lock.
Hello(k) ==
    /\ task[k] = "hello"
    /\ task' = [task EXCEPT ![k] = "registering"]
    /\ backendsLine' = Enter(backendsLine, Register(k))
    /\ UNCHANGED <<ident, chan, hand, out, received, requests, requestsLine,
                   backends, cleanups>>
    /\ UNCHANGED callVars

\* The stream fails or ends first, or its first message is not a hello.
HelloFails(k) ==
    /\ task[k] = "hello"
    /\ task' = [task EXCEPT ![k] = "refused"]
    /\ UNCHANGED <<ident, chan, hand, out, received, requests, requestsLine,
                   backends, backendsLine, cleanups>>
    /\ UNCHANGED callVars

\* Faulty variant of IdTaken: no contains_key check.
IdNeverTaken(b) == FALSE

\* register_backend answers already_exists.
IdTaken(b) == backends[b] # NoConn

RegisterBackend(k) ==
    /\ task[k] = "registering" /\ WritesBackends(Register(k))
    /\ \/ /\ ~IdTaken(ident[k])
          /\ backends' = [backends EXCEPT ![ident[k]] = k]
          /\ task' = [task EXCEPT ![k] = "running"]
       \/ /\ IdTaken(ident[k])
          /\ task' = [task EXCEPT ![k] = "refused"]
          /\ UNCHANGED backends
    /\ backendsLine' = Leave(backendsLine, {Register(k)})
    /\ UNCHANGED <<ident, chan, hand, out, received, requests, requestsLine, cleanups>>
    /\ UNCHANGED callVars

\* IngestEvents::run returns: dropping the ChatBackendHandle sends the cleanup
\* message and closes the receiver, with whatever it still holds.
EndTask(k) ==
    /\ task' = [task EXCEPT ![k] = "ended"]
    /\ chan' = [chan EXCEPT ![k] = <<>>]
    /\ hand' = [hand EXCEPT ![k] = NothingInHand]
    /\ cleanups' = Append(cleanups, BackendCleanup(ident[k]))
    /\ UNCHANGED <<ident, out, received>>

\* The select loop takes a request that a call sent.
TakeRequest(k) ==
    /\ task[k] = "running" /\ chan[k] # <<>>
    /\ task' = [task EXCEPT ![k] = "forwarding"]
    /\ hand' = [hand EXCEPT ![k] = [call |-> Head(chan[k]), reply |-> NoReply]]
    /\ chan' = [chan EXCEPT ![k] = Tail(@)]
    /\ UNCHANGED <<ident, out, received, requests, requestsLine, backends,
                   backendsLine, cleanups>>
    /\ UNCHANGED callVars

\* ... and awaits room for it in the response stream.
Forward(k) ==
    /\ task[k] = "forwarding" /\ Len(out[k]) < SendBuffer
    /\ task' = [task EXCEPT ![k] = "running"]
    /\ hand' = [hand EXCEPT ![k] = NothingInHand]
    /\ out' = [out EXCEPT ![k] = Append(@, hand[k].call)]
    /\ UNCHANGED <<ident, chan, received, requests, requestsLine, backends,
                   backendsLine, cleanups>>
    /\ UNCHANGED callVars

\* The backend closed the response stream, which fails the send.
ForwardFails(k) ==
    /\ task[k] = "forwarding"
    /\ EndTask(k)
    /\ UNCHANGED <<requests, requestsLine, backends, backendsLine>>
    /\ UNCHANGED callVars

\* The loop takes a ChatEvent that names request c.  A backend answers what it
\* has received, under whatever connection it has now, as often as it likes.
TakeAnswer(k) ==
    /\ task[k] = "running"
    /\ \E c \in received[ident[k]], r \in Replies :
          hand' = [hand EXCEPT ![k] = [call |-> c, reply |-> r]]
    /\ task' = [task EXCEPT ![k] = "answering"]
    /\ requestsLine' = Enter(requestsLine, Respond(k))
    /\ UNCHANGED <<ident, chan, out, received, requests, backends, backendsLine, cleanups>>
    /\ UNCHANGED callVars

\* The oneshot receiver of c exists from the insertion of its entry on.
ReceiverAlive(c) == pc[c] \in {"lookup", "sending", "waiting"}

\* Faulty variant of Addressee: some request that is still pending.
AnyPending(k) ==
    IF \E c \in Calls : requests[c] = "pending"
    THEN CHOOSE c \in Calls : requests[c] = "pending" ELSE hand[k].call

\* The request that the event in hand names.
Addressee(k) == hand[k].call

\* Faulty variant of AfterRespond: the entry is looked up and not removed.
AfterRespondLookedUp(c) == requests[c]

\* respond removes the entry and puts None in its place, but only if there was
\* a sender: a repeated answer takes the None away for good, and a third finds
\* nothing.
AfterRespond(c) == IF requests[c] = "pending" THEN "responded" ELSE "absent"

\* Server::respond with requests locked, and the rest of handle_event.
HandleAnswer(k) ==
    LET c == Addressee(k)
        r == hand[k].reply
    IN
    /\ task[k] = "answering" /\ HoldsRequests(Respond(k))
    /\ requests' = [requests EXCEPT ![c] = AfterRespond(c)]
    /\ reply' = IF requests[c] = "pending" /\ ReceiverAlive(c)
                THEN [reply EXCEPT ![c] = r] ELSE reply
    /\ requestsLine' = Leave(requestsLine, {Respond(k)})
    /\ \/ /\ r = "Hello"
          /\ EndTask(k)
       \/ /\ r # "Hello"
          /\ task' = [task EXCEPT ![k] = "running"]
          /\ hand' = [hand EXCEPT ![k] = NothingInHand]
          /\ UNCHANGED <<ident, chan, out, received, cleanups>>
    /\ UNCHANGED <<pc, kind, target, outcome, announced, backends, backendsLine>>

\* The event stream fails or ends, or an event without an id ends the task.
EndOfStream(k) ==
    /\ task[k] = "running"
    /\ EndTask(k)
    /\ UNCHANGED <<requests, requestsLine, backends, backendsLine>>
    /\ UNCHANGED callVars

\* External: the backend reads its response stream.
BackendReceives(k) ==
    /\ out[k] # <<>>
    /\ received' = [received EXCEPT ![ident[k]] = @ \cup {Head(out[k])}]
    /\ out' = [out EXCEPT ![k] = Tail(@)]
    /\ UNCHANGED <<task, ident, chan, hand, requests, requestsLine, backends,
                   backendsLine, cleanups>>
    /\ UNCHANGED callVars

-----------------------------------------------------------------------------
(* Server::cleanup_task *)

\* It receives the next message and asks for the lock of the map it is about.
TakeCleanup ==
    /\ cleanups # <<>>
    /\ Clean \notin Queued(requestsLine) /\ Clean \notin Queued(backendsLine)
    /\ \/ /\ Head(cleanups).type = "Request"
          /\ requestsLine' = Enter(requestsLine, Clean)
          /\ UNCHANGED backendsLine
       \/ /\ Head(cleanups).type = "Backend"
          /\ backendsLine' = Enter(backendsLine, Clean)
          /\ UNCHANGED requestsLine
    /\ UNCHANGED <<requests, backends, cleanups>>
    /\ UNCHANGED <<callVars, connVars>>

\* Faulty variant of AfterCleanup: only unanswered requests are removed.
AfterCleanupUnanswered(c) == IF requests[c] = "responded" THEN "responded" ELSE "absent"

\* What is left of a request once it is cleaned.
AfterCleanup(c) == "absent"

\* Faulty variant of CleanRequest: the message stays in the channel.
CleanRequestAgain ==
    /\ HoldsRequests(Clean)
    /\ requests' = [requests EXCEPT ![Head(cleanups).id] = AfterCleanup(Head(cleanups).id)]
    /\ requestsLine' = Leave(requestsLine, {Clean})
    /\ UNCHANGED <<backends, backendsLine, cleanups>>
    /\ UNCHANGED <<callVars, connVars>>

\* A repeated answer may have removed the entry before.
CleanRequest ==
    /\ HoldsRequests(Clean)
    /\ requests' = [requests EXCEPT ![Head(cleanups).id] = AfterCleanup(Head(cleanups).id)]
    /\ requestsLine' = Leave(requestsLine, {Clean})
    /\ cleanups' = Tail(cleanups)
    /\ UNCHANGED <<backends, backendsLine>>
    /\ UNCHANGED <<callVars, connVars>>

CleanBackend ==
    /\ WritesBackends(Clean)
    /\ backends' = [backends EXCEPT ![Head(cleanups).id] = NoConn]
    /\ backendsLine' = Leave(backendsLine, {Clean})
    /\ cleanups' = Tail(cleanups)
    /\ UNCHANGED <<requests, requestsLine>>
    /\ UNCHANGED <<callVars, connVars>>

-----------------------------------------------------------------------------
(* The specification *)

\* Faulty variants of CallStep and CleanupStep: the response is awaited without
\* a timeout; the Backend arm of the match is missing.
CallStepWithoutTimeout(c) ==
    \/ CheckBackend(c) \/ CheckBackendFails(c) \/ Insert(c)
    \/ Lookup(c) \/ LookupFails(c) \/ Send(c) \/ SendFails(c) \/ Return(c)
CleanupStepRequestsOnly == TakeCleanup \/ CleanRequest

\* Steps of the server's own tasks that nothing outside it has to enable.
CallStep(c) ==
    \/ CheckBackend(c) \/ CheckBackendFails(c) \/ Insert(c)
    \/ Lookup(c) \/ LookupFails(c) \/ Send(c) \/ SendFails(c)
    \/ Return(c) \/ Timeout(c)
ConnStep(k) == RegisterBackend(k) \/ TakeRequest(k) \/ Forward(k) \/ HandleAnswer(k)
CleanupStep == TakeCleanup \/ CleanRequest \/ CleanBackend
ServerStep == (\E c \in Calls : CallStep(c)) \/ (\E k \in Conns : ConnStep(k)) \/ CleanupStep

\* What plugins, backends and the network do.
PluginStep(c) == Reject(c) \/ BeginRequest(c) \/ BeginInfo(c) \/ Cancel(c)
BackendStep(k) ==
    \/ Hello(k) \/ HelloFails(k) \/ TakeAnswer(k)
    \/ BackendReceives(k) \/ ForwardFails(k) \/ EndOfStream(k)

Next ==
    \/ ServerStep
    \/ \E c \in Calls : PluginStep(c)
    \/ \E k \in Conns : BackendStep(k)

Spec == Init /\ [][Next]_vars

\* tokio polls a task that can go on, and its timer fires.
Fairness ==
    /\ \A c \in Calls : WF_vars(CallStep(c))
    /\ \A k \in Conns : WF_vars(ConnStep(k))
    /\ WF_vars(CleanupStep)

FairSpec == Spec /\ Fairness

-----------------------------------------------------------------------------
(* Properties *)

Occurs(m, s) == \E i \in 1..Len(s) : s[i] = m
AtMostOnce(m, s) == \A i, j \in 1..Len(s) : s[i] = m /\ s[j] = m => i = j

Pending(m) == Occurs(m, cleanups)

\* Types of the variables.
TypeOK ==
    /\ pc \in [Calls -> CallState]
    /\ kind \in [Calls -> KindOfCall]
    /\ target \in [Calls -> BackendIds]
    /\ outcome \in [Calls -> Outcomes \cup {"none"}]
    /\ reply \in [Calls -> KindOfReply \cup {NoReply}]
    /\ requests \in [Calls -> {"absent", "pending", "responded"}]
    /\ requestsLine \in [RequestsUses -> SUBSET RequestsUses]
    /\ backends \in [BackendIds -> Conns \cup {NoConn}]
    /\ backendsLine \in [BackendsUses -> SUBSET BackendsUses]
    /\ announced \subseteq Calls
    /\ task \in [Conns -> ConnState]
    /\ ident \in [Conns -> BackendIds]
    /\ chan \in [Conns -> Seq(Calls)]
    /\ hand \in [Conns -> [call : Calls \cup {NoCall}, reply : KindOfReply \cup {NoReply}]]
    /\ out \in [Conns -> Seq(Calls)]
    /\ received \in [BackendIds -> SUBSET Calls]
    /\ cleanups \in Seq(CleanupRequest)

\* A call that waits either can still be answered through its entry in
\* requests, or has its answer in the oneshot channel, and only one of the two:
\* whatever becomes of the entry by then (None, or removed by an answer that is
\* repeated), neither a respond nor a cleanup takes the sender away from a
\* waiting call, nor can a second answer replace the first.  So "request
\* channel closed" (mod.rs:270) cannot be returned, which is why no action
\* does.
NoLostWaiter ==
    \A c \in Calls : pc[c] = "waiting" => (requests[c] = "pending" <=> reply[c] = NoReply)

\* A backend id belongs to at most one live connection or to one pending
\* cleanup message, never to both: the message carries the id only, and
\* nobody can register the id between the death of its owner and the removal
\* of the entry.
OneOwnerPerBackend ==
    \A b \in BackendIds :
        /\ \A k \in Conns : ident[k] = b /\ IsLive(k) =>
              backends[b] = k /\ ~Pending(BackendCleanup(b))
        /\ backends[b] # NoConn =>
              /\ ident[backends[b]] = b
              /\ IsLive(backends[b]) \/ (task[backends[b]] = "ended" /\ Pending(BackendCleanup(b)))
        /\ Pending(BackendCleanup(b)) => backends[b] # NoConn
        /\ AtMostOnce(BackendCleanup(b), cleanups)

OnlyEndedOwnersGo ==
    \A b \in BackendIds : backends[b] # NoConn /\ backends'[b] # backends[b] =>
        backends'[b] = NoConn /\ task[backends[b]] = "ended"

\* A registration is only ever removed, never replaced, and only after its
\* own connection has ended: the cleanup of a backend that went away does not
\* hit the backend that reconnected under the same id.
NoSuccessorEvicted == [][OnlyEndedOwnersGo]_vars

\* The entry of a call that had a ChatRequestHandle goes away: once the call is
\* done, the entry is gone, by a repeated answer or a cleanup, or its cleanup
\* message is on the way; and the message comes neither early nor twice.  It may
\* find nothing, which cleanup_task logs (mod.rs:156).  (A call that ends before
\* it has a handle leaves its entry behind for good; see the README.)
HandleCleansUp ==
    \A c \in Calls :
        /\ Pending(RequestCleanup(c)) => pc[c] = "done" /\ outcome[c] \in HandleOutcome
        /\ pc[c] = "done" /\ outcome[c] \in HandleOutcome /\ requests[c] # "absent" =>
              Pending(RequestCleanup(c))
        /\ AtMostOnce(RequestCleanup(c), cleanups)

\* A call reports success only if the backend it named was given the request,
\* and a message only if the plugins were told of it.
OkMeansDelivered ==
    \A c \in Calls : outcome[c] = "ok" =>
        /\ c \in received[target[c]]
        /\ kind[c] = "message" => c \in announced

InHand(c, k) == task[k] = "forwarding" /\ hand[k].call = c

\* Connection k has the request of call c, on its way to the backend.
Carried(c, k) == Occurs(c, chan[k]) \/ InHand(c, k) \/ Occurs(c, out[k])

Delivered == UNION {received[b] : b \in BackendIds}

\* The request of call c is in one place at a time, and there once.
CarriedOnce(c) ==
    \A k \in Conns : Carried(c, k) =>
        /\ c \notin Delivered
        /\ \A j \in Conns : Carried(c, j) => j = k
        /\ AtMostOnce(c, chan[k]) /\ AtMostOnce(c, out[k])
        /\ Occurs(c, chan[k]) => ~InHand(c, k) /\ ~Occurs(c, out[k])
        /\ InHand(c, k) => ~Occurs(c, out[k])

\* A request that is on its way, or has arrived, is one that its call sent: it
\* goes to the backend that the call names, whatever connection that backend
\* has by then, it gets there once at most, so that no message is shown twice,
\* and the plugins were told of a message before its backend was.
\* (The converse fails: a message may be announced and never sent.)
CarriedAsMeant ==
    \A c \in Calls :
        /\ CarriedOnce(c)
        /\ \A k \in Conns : Carried(c, k) => ident[k] = target[c]
        /\ c \in Delivered => c \in received[target[c]]
        /\ c \in Delivered \/ (\E k \in Conns : Carried(c, k)) =>
              /\ pc[c] \in {"waiting", "done"} /\ outcome[c] \notin EarlyOutcome
              /\ kind[c] = "message" => c \in announced

\* The entry that a call leaves behind for good, because it ended before it had
\* a handle, is harmless: nobody can answer it, and nobody was asked to.
LeftoverIsInert ==
    \A c \in Calls : pc[c] = "done" /\ outcome[c] \in EarlyOutcome =>
        /\ requests[c] = "absent" \/ (requests[c] = "pending" /\ outcome[c] # "invalid")
        /\ reply[c] = NoReply /\ c \notin Delivered
        /\ \A k \in Conns : ~Carried(c, k)

\* At most one call at a time awaits room in the channel of a backend (of any
\* backend), and the registration it found cannot go away under it: the two
\* locks are held across the lookup and the send.
SendUnderLocks ==
    /\ \A c \in Calls : pc[c] = "sending" => backends[target[c]] # NoConn
    /\ \A c, d \in Calls :
          pc[c] \in {"lookup", "sending"} /\ pc[d] \in {"lookup", "sending"} => c = d

\* Where each call is for the plugin that made it, and which requests a backend
\* has been given.
Stage == [c \in Calls |-> CASE pc[c] = "idle" -> "new"
                             [] pc[c] = "done" -> "closed"
                             [] OTHER -> "open"]

Contract == INSTANCE RequestContract WITH
    stage <- Stage, delivered <- Delivered, answer <- reply

\* The broker implements the contract: each step of a call, a connection or
\* cleanup_task is a step of the contract or invisible to the plugin.
ImplementsContract == Contract!Spec

ConnStage == [k \in Conns |->
    CASE task[k] \in {"hello", "registering"} -> "new"
      [] IsLive(k) -> "holding"
      [] task[k] = "ended" /\ backends[ident[k]] = k -> "leaving"
      [] OTHER -> "over"]

Registry == INSTANCE ExclusiveRegistry WITH
    Names <- BackendIds, Owners <- Conns, NoOwner <- NoConn,
    claims <- [k \in Conns |-> {ident[k]}], owner <- backends, stage <- ConnStage

\* Backend ids are handed out as the registry of exclusive names promises.
ImplementsRegistry == Registry!Spec

-----------------------------------------------------------------------------
(* When the server can stand still with work left *)

WorkLeft ==
    \/ \E c \in Calls : pc[c] \in {"guarding", "locking", "lookup", "sending"}
    \/ \E k \in Conns : task[k] \in {"registering", "answering"}
    \/ cleanups # <<>>

IsFull(k) == Len(chan[k]) = ReceiveBuffer

\* A call can go on: its lock is granted, the channel has room or is closed, or
\* its timer runs.
CallCanGoOn(c) ==
    \/ pc[c] = "guarding" /\ ReadsBackends(Guard(c))
    \/ pc[c] = "locking" /\ HoldsRequests(Issue(c))
    \/ pc[c] = "lookup" /\ ReadsBackends(Issue(c))
    \/ pc[c] = "sending" /\ (ReceiverClosed(backends[target[c]]) \/ ~IsFull(backends[target[c]]))
    \/ pc[c] = "waiting"

ConnCanGoOn(k) ==
    \/ task[k] = "registering" /\ WritesBackends(Register(k))
    \/ task[k] = "running" /\ chan[k] # <<>>
    \/ task[k] = "forwarding" /\ Len(out[k]) < SendBuffer
    \/ task[k] = "answering" /\ HoldsRequests(Respond(k))

CleanupCanGoOn ==
    \/ cleanups # <<>> /\ Clean \notin Queued(requestsLine) \cup Queued(backendsLine)
    \/ HoldsRequests(Clean)
    \/ WritesBackends(Clean)

CanGoOn ==
    (\E c \in Calls : CallCanGoOn(c)) \/ (\E k \in Conns : ConnCanGoOn(k)) \/ CleanupCanGoOn

\* c holds requests and awaits room in the channel of k, which only the task
\* of k can make; that task waits for requests, to deliver an answer.
FullChannelCycle ==
    \E c \in Calls, k \in Conns :
        /\ pc[c] = "sending" /\ backends[target[c]] = k /\ IsFull(k)
        /\ task[k] = "answering" /\ Issue(c) \in requestsLine[Respond(k)]

\* get_backend_info holds its guard on backends while it, or a call that it
\* waits for, asks to read backends again; a writer that came in between
\* waits for the guard, and the second read for the writer.
ReentrantReadCycle ==
    \E c, d \in Calls, w \in BackendsWriters :
        /\ Guard(c) \in backendsLine[w]
        /\ pc[d] = "lookup" /\ w \in backendsLine[Issue(d)]
        /\ Issue(d) \in requestsLine[Issue(c)]

\* c awaits room in the channel of a backend that does not read its stream.
BackendNotReading ==
    \E c \in Calls, k \in Conns :
        /\ pc[c] = "sending" /\ backends[target[c]] = k /\ IsFull(k)
        /\ task[k] = "forwarding" /\ Len(out[k]) = SendBuffer

\* If work is left and none of the server's tasks can take a step, then it is
\* for one of these three reasons.  None of them is bounded by
\* REQUEST_TIMEOUT, which starts only after the send; they last until a
\* client gives up on its call (Cancel) or, the third, the backend reads on.
StallShapes ==
    ~CanGoOn /\ WorkLeft =>
        FullChannelCycle \/ ReentrantReadCycle \/ BackendNotReading

\* The steps that the server still has to make, at most, for each call: those
\* of its handler, those that carry its request, and those of its cleanup ...
HandlerSteps == [idle |-> 0, guarding |-> 9, locking |-> 8, lookup |-> 7, sending |-> 6,
                 waiting |-> 3, done |-> 0]

CarrierSteps(c) ==
    IF \E k \in Conns : Occurs(c, chan[k]) THEN 2
    ELSE IF \E k \in Conns : InHand(c, k) THEN 1
    ELSE 0

IsServing == Clean \in Queued(requestsLine) \cup Queued(backendsLine)

IsServed(m) == cleanups # <<>> /\ m = Head(cleanups) /\ IsServing

CleanerSteps(m) == IF ~Pending(m) THEN 0 ELSE IF IsServed(m) THEN 1 ELSE 2

CallSteps(c) == HandlerSteps[pc[c]] + CarrierSteps(c) + CleanerSteps(RequestCleanup(c))

\* ... and for each connection, which may end when it has delivered an answer.
TaskSteps(k) == CASE task[k] = "answering" -> 3 [] task[k] = "registering" -> 1 [] OTHER -> 0

LeavingSteps(k) ==
    IF backends[ident[k]] = k THEN CleanerSteps(BackendCleanup(ident[k])) ELSE 0

ConnSteps(k) == TaskSteps(k) + LeavingSteps(k)

Headway ==
    /\ \A c \in Calls : CallSteps(c)' <= CallSteps(c)
    /\ \A k \in Conns : ConnSteps(k)' <= ConnSteps(k)
    /\ \/ \E c \in Calls : CallSteps(c)' < CallSteps(c)
       \/ \E k \in Conns : ConnSteps(k)' < ConnSteps(k)

\* The server never busies itself: each of its steps brings some call or some
\* connection closer to its end and takes none further from it.  So when
\* plugins and backends do nothing it comes to rest after 9 steps per call and
\* 3 per connection at most, with no work left or in a stall (StallShapes).
ServerMakesHeadway == [][ServerStep => Headway]_vars

\* "... to ensure the locks for requests and backends properly get dropped
\* before waiting for a response" (mod.rs:228).  get_backend_info keeps its
\* own guard on backends while its request waits for the response.
LocksDroppedBeforeWaiting ==
    \A c \in Calls : pc[c] = "waiting" =>
        /\ Issue(c) \notin Queued(requestsLine)
        /\ {Issue(c), Guard(c)} \cap Queued(backendsLine) = {}

-----------------------------------------------------------------------------
(* What eventually happens, in FairSpec, when no channel can fill up and    *)
(* nobody calls get_backend_info.                                           *)

\* A call that locks requests comes to an end, by REQUEST_TIMEOUT at worst.
EveryCallReturns == \A c \in Calls : pc[c] = "locking" ~> pc[c] = "done"

\* The id of a connection that ended becomes free, so that the backend can
\* register again.
RegistrationFreed ==
    \A k \in Conns : task[k] = "ended" ~> backends[ident[k]] # k

\* The entry of a call that had a handle is eventually removed.
EntryReclaimed ==
    \A c \in Calls : outcome[c] \in HandleOutcome ~> requests[c] = "absent"
=============================================================================
