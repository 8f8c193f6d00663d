------------------------- MODULE PluginStreamsProofs -------------------------
(***************************************************************************)
(* The safety of the event streams for any number of streams, commands and *)
(* listers, any sizes of the ring and the channels, and any events.        *)
(***************************************************************************)
EXTENDS PluginStreams, FairLockProofs

-----------------------------------------------------------------------------
(* The queue of cleanup messages *)

Among(s, q) == \E i \in 1..Len(q) : q[i] = s
Distinct(q) == \A i, j \in 1..Len(q) : q[i] = q[j] => i = j

LEMMA AmongAppend ==
    ASSUME NEW q \in Seq(Streams), NEW s \in Streams
    PROVE  /\ \A t : Among(t, Append(q, s)) <=> Among(t, q) \/ t = s
           /\ Distinct(q) /\ ~Among(s, q) => Distinct(Append(q, s))
<1>1. /\ Len(Append(q, s)) = Len(q) + 1 /\ Len(q) \in Nat
      /\ \A i \in 1..Len(q) : Append(q, s)[i] = q[i]
      /\ Append(q, s)[Len(q) + 1] = s
  OBVIOUS
<1>2. 1..(Len(q) + 1) = 1..Len(q) \cup {Len(q) + 1}
  BY <1>1
<1> QED  BY <1>1, <1>2, Z3 DEF Among, Distinct

LEMMA AmongTail ==
    ASSUME NEW q \in Seq(Streams), q # <<>>
    PROVE  /\ Head(q) \in Streams /\ Among(Head(q), q)
           /\ \A t : Among(t, Tail(q)) => Among(t, q)
           /\ \A t : Among(t, q) /\ t # Head(q) => Among(t, Tail(q))
           /\ Distinct(q) => Distinct(Tail(q)) /\ ~Among(Head(q), Tail(q))
<1>1. /\ Len(q) \in Nat \ {0} /\ Len(Tail(q)) = Len(q) - 1
      /\ Head(q) = q[1] /\ q[1] \in Streams
      /\ \A i \in 1..Len(Tail(q)) : Tail(q)[i] = q[i + 1]
  OBVIOUS
<1>2. \A i \in 1..Len(q) : i # 1 => i - 1 \in 1..Len(Tail(q)) /\ (i - 1) + 1 = i
  BY <1>1
<1>3. \A i \in 1..Len(Tail(q)) : i + 1 \in 1..Len(q) /\ i + 1 # 1
  BY <1>1
<1>4. 1 \in 1..Len(q)
  BY <1>1
<1>5. Among(Head(q), q)
  BY <1>1, <1>4 DEF Among
<1>6. \A t : Among(t, Tail(q)) => Among(t, q)
  BY <1>1, <1>3 DEF Among
<1>7. \A t : Among(t, q) /\ t # Head(q) => Among(t, Tail(q))
  BY <1>1, <1>2 DEF Among
<1>8. Distinct(q) => Distinct(Tail(q)) /\ ~Among(Head(q), Tail(q))
  BY <1>1, <1>3, <1>4 DEF Among, Distinct
<1> QED  BY <1>1, <1>5, <1>6, <1>7, <1>8

-----------------------------------------------------------------------------
(* Types *)

\* cleanup_task asks for the lock while it serves a message.
CleanerOK == commandsLine[Clean] # {} => cleanups # <<>>

TypeInv == TypeOK /\ CleanerOK

\* The uses of the lock are distinct from each other.
LEMMA UsesAreUses ==
    /\ Clean \in Uses \cap Writers
    /\ \A s \in Streams : /\ Open(s) \in Uses \cap Writers /\ Open(s) # Clean
                          /\ \A t \in Streams : Open(s) = Open(t) => s = t
                          /\ \A l \in Listers : Open(s) # List(l)
    /\ \A l \in Listers : /\ List(l) \in Uses \ Writers /\ List(l) # Clean
                          /\ \A m \in Listers : List(l) = List(m) => l = m
BY Z3 DEF Clean, Open, List, Uses, Readers, Writers

\* What entering and leaving do to the line, and to cleanup_task in it.
LEMMA LineTypes ==
    ASSUME TypeInv
    PROVE  /\ \A u \in Uses : /\ Enter(commandsLine, u) \in [Uses -> SUBSET Uses]
                              /\ u # Clean => Enter(commandsLine, u)[Clean] = commandsLine[Clean]
           /\ \A S : /\ Leave(commandsLine, S) \in [Uses -> SUBSET Uses]
                     /\ commandsLine[Clean] = {} \/ Clean \in S => Leave(commandsLine, S)[Clean] = {}
BY UsesAreUses DEF TypeInv, TypeOK, Enter, Leave, Queued

LEMMA TypeInit == Init => TypeInv
<1> SUFFICES ASSUME Init PROVE TypeInv
  OBVIOUS
<1>1. commandsLine = [u \in Uses |-> {}]
  BY DEF Init, EmptyLine
<1>2. \A s \in Streams : Len(out[s]) = 0
  BY DEF Init
<1>3. TypeOK
  BY <1>1, <1>2, StreamsAssumption DEF Init, TypeOK, StreamState
<1>4. CleanerOK
  BY <1>1, UsesAreUses DEF CleanerOK
<1> QED  BY <1>3, <1>4 DEF TypeInv

LEMMA EndTaskTypes ==
    ASSUME TypeInv, NEW s \in Streams, EndTask(s)
    PROVE  TypeInv'
<1>1. Append(cleanups, s) \in Seq(Streams) /\ Append(cleanups, s) # <<>>
  <2>1. cleanups \in Seq(Streams)
    BY DEF TypeInv, TypeOK
  <2>2. Append(cleanups, s) \in Seq(Streams)
    BY <2>1
  <2>3. Len(Append(cleanups, s)) = Len(cleanups) + 1 /\ Len(cleanups) \in Nat
    BY <2>1
  <2> QED  BY <2>2, <2>3
<1>2. TypeOK'
  BY <1>1 DEF TypeInv, TypeOK, EndTask, clientVars, listVars, StreamState
<1>3. CleanerOK'
  BY <1>1 DEF EndTask, CleanerOK
<1> QED  BY <1>2, <1>3 DEF TypeInv

LEMMA TypeStep == TypeInv /\ [Next]_vars => TypeInv'
<1> SUFFICES ASSUME TypeInv, [Next]_vars PROVE TypeInv'
  OBVIOUS
<1> USE DEF streamVars, clientVars, listVars
<1>1. ASSUME NEW s \in Streams,
             Call(s) \/ CancelCall(s) \/ Refuse(s) \/ RegisterCommands(s) \/ Subscribe(s)
      PROVE  TypeInv'
  <2>1. CleanerOK'
    BY <1>1, UsesAreUses, LineTypes
       DEF TypeInv, CleanerOK, Call, CancelCall, Refuse, RegisterCommands, Subscribe
  <2>2. commandsLine' \in [Uses -> SUBSET Uses]
    BY <1>1, UsesAreUses, LineTypes
       DEF TypeInv, TypeOK, Call, CancelCall, Refuse, RegisterCommands, Subscribe
  <2>3. commands' \in [Commands -> Streams \cup {NoStream}]
    BY <1>1 DEF TypeInv, TypeOK, Call, CancelCall, Refuse, RegisterCommands, Subscribe
  <2>4. stream' \in [Streams -> StreamState]
    <3>1. \/ stream' = [stream EXCEPT ![s] = "registering"]
          \/ stream' = [stream EXCEPT ![s] = "refused"]
          \/ stream' = [stream EXCEPT ![s] = "subscribing"]
          \/ stream' = [stream EXCEPT ![s] = "running"]
      BY <1>1 DEF Call, CancelCall, Refuse, RegisterCommands, Subscribe
    <3> QED  BY <3>1 DEF TypeInv, TypeOK, StreamState
  <2>6. start' \in [Streams -> Nat] /\ next' \in [Streams -> Nat]
    <3>1. \/ start' = start /\ next' = next
          \/ start' = [start EXCEPT ![s] = sent] /\ next' = [next EXCEPT ![s] = sent]
      BY <1>1 DEF Call, CancelCall, Refuse, RegisterCommands, Subscribe
    <3>2. sent \in Nat /\ start \in [Streams -> Nat] /\ next \in [Streams -> Nat]
      BY DEF TypeInv, TypeOK
    <3> QED  BY <3>1, <3>2
  <2>5. UNCHANGED <<wants, hand, sent, cleanups, client, out, seen, lister, listed, listedAt>>
    BY <1>1 DEF Call, CancelCall, Refuse, RegisterCommands, Subscribe
  <2> QED  BY <2>1, <2>2, <2>3, <2>4, <2>5, <2>6 DEF TypeInv, TypeOK
<1>2. ASSUME NEW s \in Streams, TakeEvent(s) PROVE TypeInv'
  <2>1. next[s] + 1 \in Nat
    BY DEF TypeInv, TypeOK
  <2>2. stream' \in [Streams -> StreamState]
    BY <1>2 DEF TypeInv, TypeOK, TakeEvent, StreamState
  <2>3. next' \in [Streams -> Nat] /\ hand' \in [Streams -> Nat]
    BY <1>2, <2>1 DEF TypeInv, TypeOK, TakeEvent
  <2> QED  BY <1>2, <2>2, <2>3 DEF TypeInv, TypeOK, CleanerOK, TakeEvent
<1>3. ASSUME NEW s \in Streams, Forward(s) PROVE TypeInv'
  <2>1. out[s] \in Seq(Nat) /\ hand[s] \in Nat /\ Len(out[s]) < ReceiveBuffer
    BY <1>3 DEF TypeInv, TypeOK, Forward, HasRoom
  <2>2. Append(out[s], hand[s]) \in Seq(Nat) /\ Len(Append(out[s], hand[s])) <= ReceiveBuffer
    BY <2>1, StreamsAssumption
  <2>3. out' \in [Streams -> Seq(Nat)] /\ \A t \in Streams : Len(out'[t]) <= ReceiveBuffer
    BY <1>3, <2>2 DEF TypeInv, TypeOK, Forward
  <2> QED  BY <1>3, <2>3 DEF TypeInv, TypeOK, CleanerOK, Forward, StreamState
<1>4. ASSUME NEW s \in Streams, FallBehind(s) \/ ForwardFails(s) \/ NoticeGone(s) PROVE TypeInv'
  BY <1>4, EndTaskTypes DEF FallBehind, ForwardFails, NoticeGone
<1>5. CASE Broadcast
  <2>1. sent' \in Nat
    BY <1>5 DEF TypeInv, TypeOK, Broadcast
  <2> QED  BY <1>5, <2>1 DEF TypeInv, TypeOK, CleanerOK, Broadcast
<1>6. ASSUME NEW s \in Streams, ClientReads(s) PROVE TypeInv'
  <2>1. out[s] \in Seq(Nat) /\ out[s] # <<>> /\ seen[s] \in Seq(Nat) /\ Len(out[s]) <= ReceiveBuffer
    BY <1>6 DEF TypeInv, TypeOK, ClientReads
  <2>2. /\ Tail(out[s]) \in Seq(Nat) /\ Len(Tail(out[s])) <= ReceiveBuffer
        /\ Append(seen[s], Head(out[s])) \in Seq(Nat)
    BY <2>1, StreamsAssumption
  <2>3. out' \in [Streams -> Seq(Nat)] /\ \A t \in Streams : Len(out'[t]) <= ReceiveBuffer
    BY <1>6, <2>2 DEF TypeInv, TypeOK, ClientReads
  <2>4. seen' \in [Streams -> Seq(Nat)]
    BY <1>6, <2>2 DEF TypeInv, TypeOK, ClientReads
  <2> QED  BY <1>6, <2>3, <2>4 DEF TypeInv, TypeOK, CleanerOK, ClientReads
<1>7. ASSUME NEW s \in Streams, ClientSeesEnd(s) PROVE TypeInv'
  BY <1>7 DEF TypeInv, TypeOK, CleanerOK, ClientSeesEnd
<1>8. ASSUME NEW s \in Streams, ClientLeaves(s) PROVE TypeInv'
  <2>1. out' = [out EXCEPT ![s] = <<>>] /\ <<>> \in Seq(Nat) /\ Len(<<>>) = 0
    BY <1>8 DEF ClientLeaves
  <2>2. out' \in [Streams -> Seq(Nat)] /\ \A t \in Streams : Len(out'[t]) <= ReceiveBuffer
    BY <2>1, StreamsAssumption DEF TypeInv, TypeOK
  <2> QED  BY <1>8, <2>2 DEF TypeInv, TypeOK, CleanerOK, ClientLeaves
<1>9. ASSUME NEW l \in Listers, BeginList(l) \/ ListCommands(l) \/ CancelList(l) PROVE TypeInv'
  <2>1. CleanerOK'
    BY <1>9, UsesAreUses, LineTypes DEF TypeInv, CleanerOK, BeginList, ListCommands, CancelList
  <2>2. commandsLine' \in [Uses -> SUBSET Uses]
    BY <1>9, UsesAreUses, LineTypes DEF TypeInv, BeginList, ListCommands, CancelList
  <2>3. {commands[n] : n \in Commands} \ {NoStream} \subseteq Streams
    BY DEF TypeInv, TypeOK
  <2>4. lister' \in [Listers -> {"idle", "waiting", "done"}]
    <3>1. lister' = [lister EXCEPT ![l] = "waiting"] \/ lister' = [lister EXCEPT ![l] = "done"]
      BY <1>9 DEF BeginList, ListCommands, CancelList
    <3> QED  BY <3>1 DEF TypeInv, TypeOK
  <2>6. listed' \in [Listers -> SUBSET Streams]
    <3>1. \/ listed' = listed
          \/ listed' = [listed EXCEPT ![l] = {commands[n] : n \in Commands} \ {NoStream}]
      BY <1>9 DEF BeginList, ListCommands, CancelList
    <3> QED  BY <2>3, <3>1 DEF TypeInv, TypeOK
  <2>7. listedAt' \in [Listers -> Nat]
    <3>1. listedAt' = listedAt \/ listedAt' = [listedAt EXCEPT ![l] = sent]
      BY <1>9 DEF BeginList, ListCommands, CancelList
    <3> QED  BY <3>1 DEF TypeInv, TypeOK
  <2>5. UNCHANGED <<streamVars, clientVars, commands, sent, cleanups>>
    BY <1>9 DEF BeginList, ListCommands, CancelList
  <2> QED  BY <2>1, <2>2, <2>4, <2>5, <2>6, <2>7 DEF TypeInv, TypeOK
<1>10. CASE TakeCleanup
  <2>1. commandsLine' \in [Uses -> SUBSET Uses] /\ CleanerOK'
    BY <1>10, UsesAreUses, LineTypes DEF TypeInv, CleanerOK, TakeCleanup
  <2> QED  BY <1>10, <2>1 DEF TypeInv, TypeOK, TakeCleanup
<1>11. CASE CleanCommands
  <2>1. commandsLine[Clean] # {} /\ cleanups # <<>> /\ cleanups \in Seq(Streams)
    BY <1>11 DEF CleanCommands, HoldsAlone, TypeInv, TypeOK, CleanerOK
  <2>2. Tail(cleanups) \in Seq(Streams)
    BY <2>1
  <2>3. commandsLine' \in [Uses -> SUBSET Uses] /\ CleanerOK'
    BY <1>11, UsesAreUses, LineTypes DEF TypeInv, CleanerOK, CleanCommands
  <2>4. commands' \in [Commands -> Streams \cup {NoStream}]
    BY <1>11 DEF TypeInv, TypeOK, CleanCommands
  <2> QED  BY <1>11, <2>2, <2>3, <2>4 DEF TypeInv, TypeOK, CleanCommands
<1>12. CASE UNCHANGED vars
  BY <1>12 DEF TypeInv, TypeOK, CleanerOK, vars
<1> QED
  BY <1>1, <1>2, <1>3, <1>4, <1>5, <1>6, <1>7, <1>8, <1>9, <1>10, <1>11, <1>12
     DEF Next, StreamStep, ReadStep, CleanupStep

\* The variables keep their types, and the channels their bounds.
THEOREM TypeCorrect == Spec => []TypeOK
<1>1. TypeInv => TypeOK
  BY DEF TypeInv
<1> QED  BY <1>1, TypeInit, TypeStep, PTL DEF Spec

-----------------------------------------------------------------------------
(* The lock *)

\* Use u keeps its place from line l to line m.
KeepsPlace(l, m, u) ==
    /\ m[u] = {} <=> l[u] = {}
    /\ HoldsAlone(l, u) => HoldsAlone(m, u)

\* Where stream s is in the line: it holds the lock until it has subscribed.
StreamPlace(s) ==
    /\ commandsLine[Open(s)] # {} <=> stream[s] \in {"registering", "subscribing"}
    /\ stream[s] = "subscribing" => HoldsAlone(commandsLine, Open(s))

ListerPlace(l) == commandsLine[List(l)] # {} <=> lister[l] = "waiting"

LineInv ==
    /\ IsLine(commandsLine, Uses)
    /\ \A s \in Streams : StreamPlace(s)
    /\ \A l \in Listers : ListerPlace(l)

\* Entering and leaving disturb no other use.
LEMMA LineMoves ==
    ASSUME IsLine(commandsLine, Uses)
    PROVE  /\ \A u \in Uses : commandsLine[u] = {} =>
                 /\ IsLine(Enter(commandsLine, u), Uses)
                 /\ Enter(commandsLine, u)[u] # {}
                 /\ \A v \in Uses \ {u} : KeepsPlace(commandsLine, Enter(commandsLine, u), v)
           /\ \A u \in Uses :
                 /\ IsLine(Leave(commandsLine, {u}), Uses)
                 /\ Leave(commandsLine, {u})[u] = {}
                 /\ \A v \in Uses \ {u} : KeepsPlace(commandsLine, Leave(commandsLine, {u}), v)
<1>1. commandsLine \in [Uses -> SUBSET Uses] /\ \A v \in Uses : commandsLine[v] # {} => v \in commandsLine[v]
  BY DEF IsLine
<1>2. ASSUME NEW u \in Uses, commandsLine[u] = {}
      PROVE  /\ IsLine(Enter(commandsLine, u), Uses)
             /\ Enter(commandsLine, u)[u] # {}
             /\ \A v \in Uses \ {u} : KeepsPlace(commandsLine, Enter(commandsLine, u), v)
  <2>1. IsLine(Enter(commandsLine, u), Uses)
    BY <1>2, EnterIsLine
  <2>2. /\ Enter(commandsLine, u)[u] # {}
        /\ \A v \in Uses \ {u} : Enter(commandsLine, u)[v] = commandsLine[v]
    BY <1>1, EnterLine
  <2> QED  BY <2>1, <2>2 DEF KeepsPlace, HoldsAlone
<1>3. ASSUME NEW u \in Uses
      PROVE  /\ IsLine(Leave(commandsLine, {u}), Uses)
             /\ Leave(commandsLine, {u})[u] = {}
             /\ \A v \in Uses \ {u} : KeepsPlace(commandsLine, Leave(commandsLine, {u}), v)
  <2>1. IsLine(Leave(commandsLine, {u}), Uses)
    BY LeaveIsLine
  <2>2. /\ Leave(commandsLine, {u})[u] = {}
        /\ \A v \in Uses \ {u} : Leave(commandsLine, {u})[v] = commandsLine[v] \ {u}
    BY <1>1, LeaveLine
  <2>3. ASSUME NEW v \in Uses \ {u} PROVE KeepsPlace(commandsLine, Leave(commandsLine, {u}), v)
    BY <1>1, <2>2 DEF KeepsPlace, HoldsAlone
  <2> QED  BY <2>1, <2>2, <2>3
<1> QED  BY <1>2, <1>3

\* Stream s moves in the line, if anybody.
LEMMA StreamMoves ==
    ASSUME TypeInv, LineInv, NEW s \in Streams, IsLine(commandsLine', Uses),
           \A u \in Uses \ {Open(s)} : KeepsPlace(commandsLine, commandsLine', u),
           \A t \in Streams \ {s} : stream'[t] = stream[t],
           StreamPlace(s)', lister' = lister
    PROVE  LineInv'
BY UsesAreUses DEF LineInv, StreamPlace, ListerPlace, KeepsPlace

LEMMA ListerMoves ==
    ASSUME TypeInv, LineInv, NEW l \in Listers, IsLine(commandsLine', Uses),
           \A u \in Uses \ {List(l)} : KeepsPlace(commandsLine, commandsLine', u),
           \A m \in Listers \ {l} : lister'[m] = lister[m],
           ListerPlace(l)', stream' = stream
    PROVE  LineInv'
BY UsesAreUses DEF LineInv, StreamPlace, ListerPlace, KeepsPlace

LEMMA CleanerMoves ==
    ASSUME TypeInv, LineInv, IsLine(commandsLine', Uses),
           \A u \in Uses \ {Clean} : KeepsPlace(commandsLine, commandsLine', u),
           lister' = lister, stream' = stream
    PROVE  LineInv'
BY UsesAreUses DEF LineInv, StreamPlace, ListerPlace, KeepsPlace

LEMMA LineInit == Init => LineInv
<1> SUFFICES ASSUME Init PROVE LineInv
  OBVIOUS
<1>1. commandsLine = EmptyLine(Uses) /\ IsLine(commandsLine, Uses)
  BY EmptyLineIsLine DEF Init
<1>2. \A s \in Streams : StreamPlace(s)
  BY <1>1, UsesAreUses DEF Init, StreamPlace, EmptyLine
<1>3. \A l \in Listers : ListerPlace(l)
  BY <1>1, UsesAreUses DEF Init, ListerPlace, EmptyLine
<1> QED  BY <1>1, <1>2, <1>3 DEF LineInv

LEMMA LineStep == TypeInv /\ LineInv /\ [Next]_vars => LineInv'
<1> SUFFICES ASSUME TypeInv, LineInv, [Next]_vars PROVE LineInv'
  OBVIOUS
<1>1. IsLine(commandsLine, Uses) /\ stream \in [Streams -> StreamState]
      /\ lister \in [Listers -> {"idle", "waiting", "done"}]
  BY DEF LineInv, TypeInv, TypeOK
<1>2. ASSUME NEW s \in Streams, Call(s) PROVE LineInv'
  <2>1. commandsLine[Open(s)] = {}
    BY <1>2 DEF Call, LineInv, StreamPlace
  <2>2. /\ IsLine(commandsLine', Uses) /\ commandsLine'[Open(s)] # {}
        /\ \A u \in Uses \ {Open(s)} : KeepsPlace(commandsLine, commandsLine', u)
    BY <1>1, <1>2, <2>1, LineMoves, UsesAreUses DEF Call
  <2>3. stream'[s] = "registering" /\ \A t \in Streams \ {s} : stream'[t] = stream[t]
    BY <1>1, <1>2 DEF Call
  <2>4. StreamPlace(s)'
    BY <2>2, <2>3 DEF StreamPlace
  <2> QED  BY <1>2, <2>2, <2>3, <2>4, StreamMoves DEF Call, listVars
<1>3. ASSUME NEW s \in Streams, CancelCall(s) \/ Refuse(s) \/ Subscribe(s) PROVE LineInv'
  <2>1. commandsLine' = Leave(commandsLine, {Open(s)}) /\ lister' = lister
    BY <1>3 DEF CancelCall, Refuse, Subscribe, listVars
  <2>2. /\ IsLine(commandsLine', Uses) /\ commandsLine'[Open(s)] = {}
        /\ \A u \in Uses \ {Open(s)} : KeepsPlace(commandsLine, commandsLine', u)
    BY <1>1, <2>1, LineMoves, UsesAreUses
  <2>3. stream'[s] \in {"refused", "running"} /\ \A t \in Streams \ {s} : stream'[t] = stream[t]
    BY <1>1, <1>3 DEF CancelCall, Refuse, Subscribe
  <2>4. StreamPlace(s)'
    BY <2>2, <2>3 DEF StreamPlace
  <2> QED  BY <2>1, <2>2, <2>3, <2>4, StreamMoves
<1>4. ASSUME NEW s \in Streams, RegisterCommands(s) PROVE LineInv'
  <2>1. HoldsAlone(commandsLine, Open(s)) /\ commandsLine' = commandsLine /\ lister' = lister
    BY <1>4 DEF RegisterCommands, listVars
  <2>2. \A u : KeepsPlace(commandsLine, commandsLine', u)
    BY <2>1 DEF KeepsPlace
  <2>3. stream'[s] = "subscribing" /\ \A t \in Streams \ {s} : stream'[t] = stream[t]
    BY <1>1, <1>4 DEF RegisterCommands
  <2>4. StreamPlace(s)'
    BY <2>1, <2>3 DEF StreamPlace, HoldsAlone
  <2> QED  BY <1>1, <2>1, <2>2, <2>3, <2>4, StreamMoves
<1>5. ASSUME NEW s \in Streams,
             TakeEvent(s) \/ Forward(s) \/ FallBehind(s) \/ ForwardFails(s) \/ NoticeGone(s)
      PROVE  LineInv'
  <2>1. commandsLine' = commandsLine /\ lister' = lister
    BY <1>5 DEF TakeEvent, Forward, FallBehind, ForwardFails, NoticeGone, EndTask, listVars
  <2>2. \A u : KeepsPlace(commandsLine, commandsLine', u)
    BY <2>1 DEF KeepsPlace
  <2>3. /\ stream[s] \in {"running", "sending"} /\ stream'[s] \in {"running", "sending", "ended"}
        /\ \A t \in Streams \ {s} : stream'[t] = stream[t]
    BY <1>1, <1>5 DEF TakeEvent, Forward, FallBehind, ForwardFails, NoticeGone, EndTask
  <2>4. StreamPlace(s)'
    BY <2>1, <2>3 DEF StreamPlace, LineInv
  <2> QED  BY <1>1, <2>1, <2>2, <2>3, <2>4, StreamMoves
<1>6. ASSUME NEW l \in Listers, BeginList(l) PROVE LineInv'
  <2>1. commandsLine[List(l)] = {}
    BY <1>6 DEF BeginList, LineInv, ListerPlace
  <2>2. /\ IsLine(commandsLine', Uses) /\ commandsLine'[List(l)] # {}
        /\ \A u \in Uses \ {List(l)} : KeepsPlace(commandsLine, commandsLine', u)
    BY <1>1, <1>6, <2>1, LineMoves, UsesAreUses DEF BeginList
  <2>3. lister'[l] = "waiting" /\ \A m \in Listers \ {l} : lister'[m] = lister[m]
    BY <1>1, <1>6 DEF BeginList
  <2>4. ListerPlace(l)'
    BY <2>2, <2>3 DEF ListerPlace
  <2> QED  BY <1>6, <2>2, <2>3, <2>4, ListerMoves DEF BeginList, streamVars
<1>7. ASSUME NEW l \in Listers, ListCommands(l) \/ CancelList(l) PROVE LineInv'
  <2>1. commandsLine' = Leave(commandsLine, {List(l)}) /\ stream' = stream
    BY <1>7 DEF ListCommands, CancelList, streamVars
  <2>2. /\ IsLine(commandsLine', Uses) /\ commandsLine'[List(l)] = {}
        /\ \A u \in Uses \ {List(l)} : KeepsPlace(commandsLine, commandsLine', u)
    BY <1>1, <2>1, LineMoves, UsesAreUses
  <2>3. lister'[l] = "done" /\ \A m \in Listers \ {l} : lister'[m] = lister[m]
    BY <1>1, <1>7 DEF ListCommands, CancelList
  <2>4. ListerPlace(l)'
    BY <2>2, <2>3 DEF ListerPlace
  <2> QED  BY <2>1, <2>2, <2>3, <2>4, ListerMoves
<1>8. CASE TakeCleanup
  <2>1. commandsLine[Clean] = {}
    BY <1>1, <1>8, UsesAreUses DEF TakeCleanup, Queued, IsLine
  <2>2. /\ IsLine(commandsLine', Uses)
        /\ \A u \in Uses \ {Clean} : KeepsPlace(commandsLine, commandsLine', u)
    BY <1>1, <1>8, <2>1, LineMoves, UsesAreUses DEF TakeCleanup
  <2> QED  BY <1>8, <2>2, CleanerMoves DEF TakeCleanup, streamVars, listVars
<1>9. CASE CleanCommands
  <2>1. /\ IsLine(commandsLine', Uses)
        /\ \A u \in Uses \ {Clean} : KeepsPlace(commandsLine, commandsLine', u)
    BY <1>1, <1>9, LineMoves, UsesAreUses DEF CleanCommands
  <2> QED  BY <1>9, <2>1, CleanerMoves DEF CleanCommands, streamVars, listVars
<1>10. ASSUME UNCHANGED <<commandsLine, stream, lister>> PROVE LineInv'
  BY <1>10 DEF LineInv, StreamPlace, ListerPlace
<1>11. ASSUME NEW s \in Streams, ClientReads(s) \/ ClientSeesEnd(s) \/ ClientLeaves(s)
       PROVE  LineInv'
  BY <1>10, <1>11 DEF ClientReads, ClientSeesEnd, ClientLeaves, streamVars, listVars
<1>12. CASE Broadcast
  BY <1>10, <1>12 DEF Broadcast, streamVars, listVars
<1>13. CASE UNCHANGED vars
  BY <1>10, <1>13 DEF vars, streamVars, listVars
<1> QED
  BY <1>2, <1>3, <1>4, <1>5, <1>6, <1>7, <1>8, <1>9, <1>11, <1>12, <1>13
     DEF Next, StreamStep, ReadStep, CleanupStep

-----------------------------------------------------------------------------
(* Who has the commands *)

\* Stream s is entitled to its commands.
Has(s) == stream[s] = "subscribing" \/ IsLive(s) \/ Pending(s)

\* AllOrNothing, command by command.
OwnInv ==
    /\ \A s \in Streams : \A n \in Commands : commands[n] = s <=> Has(s) /\ n \in wants[s]
    /\ \A s \in Streams : Pending(s) => stream[s] = "ended"
    /\ Distinct(cleanups)

LEMMA OwnedBy == TypeInv => (AllOrNothing <=> OwnInv)
<1> SUFFICES ASSUME TypeInv PROVE AllOrNothing <=> OwnInv
  OBVIOUS
<1>1. \A s \in Streams : wants[s] \subseteq Commands
  BY DEF TypeInv, TypeOK
<1>2. ASSUME NEW s \in Streams
      PROVE  (Owned(s) = IF Has(s) THEN wants[s] ELSE {})
             <=> (\A n \in Commands : commands[n] = s <=> Has(s) /\ n \in wants[s])
  <2>1. CASE Has(s)
    <3>1. (Owned(s) = wants[s]) <=> (\A n \in Commands : n \in Owned(s) <=> n \in wants[s])
      BY <1>1 DEF Owned
    <3> QED  BY <2>1, <3>1 DEF Owned
  <2>2. CASE ~Has(s)
    <3>1. (Owned(s) = {}) <=> (\A n \in Commands : commands[n] # s)
      BY DEF Owned
    <3> QED  BY <2>2, <3>1
  <2> QED  BY <2>1, <2>2
<1>3. AllOrNothing <=>
        /\ \A s \in Streams : Owned(s) = IF Has(s) THEN wants[s] ELSE {}
        /\ \A s \in Streams : Pending(s) => stream[s] = "ended"
        /\ Distinct(cleanups)
  BY Zenon DEF AllOrNothing, Has, Distinct
<1> QED  BY <1>2, <1>3, Zenon DEF OwnInv

LEMMA OwnFrame ==
    ASSUME OwnInv, UNCHANGED <<wants, commands>>,
           \A s \in Streams : Has(s)' <=> Has(s),
           \A s \in Streams : Pending(s)' => stream'[s] = "ended",
           Distinct(cleanups')
    PROVE  OwnInv'
BY DEF OwnInv

\* Steps that append no message and take none.
LEMMA OwnSameQueue ==
    ASSUME OwnInv, UNCHANGED <<wants, commands, cleanups>>,
           \A s \in Streams : \/ stream'[s] = stream[s]
                              \/ /\ stream[s] \in {"idle", "registering"}
                                 /\ stream'[s] \in {"registering", "refused"}
                              \/ /\ stream[s] \in {"subscribing", "running", "sending"}
                                 /\ stream'[s] \in {"running", "sending"}
    PROVE  OwnInv'
<1>1. \A s \in Streams : Pending(s)' <=> Pending(s)
  BY DEF Pending
<1>2. \A s \in Streams : Has(s)' <=> Has(s)
  BY <1>1 DEF Has, IsLive
<1>3. \A s \in Streams : Pending(s)' => stream'[s] = "ended"
  BY <1>1 DEF OwnInv
<1> QED  BY <1>2, <1>3, OwnFrame DEF OwnInv

LEMMA OwnEndTask ==
    ASSUME TypeInv, OwnInv, NEW s \in Streams, IsLive(s), EndTask(s)
    PROVE  OwnInv'
<1>1. cleanups \in Seq(Streams) /\ stream \in [Streams -> StreamState]
  BY DEF TypeInv, TypeOK
<1>2. \A t \in Streams : Pending(t)' <=> Pending(t) \/ t = s
  <2>1. \A t : (Pending(t) <=> Among(t, cleanups)) /\ (Pending(t)' <=> Among(t, Append(cleanups, s)))
    BY DEF EndTask, Pending, Among
  <2> QED  BY <1>1, <2>1, AmongAppend
<1>3. stream' = [stream EXCEPT ![s] = "ended"]
  BY DEF EndTask
<1>4. \A t \in Streams : Has(t)' <=> Has(t)
  BY <1>1, <1>2, <1>3 DEF Has, IsLive
<1>5. \A t \in Streams : Pending(t)' => stream'[t] = "ended"
  BY <1>1, <1>2, <1>3 DEF OwnInv
<1>6. Distinct(cleanups')
  <2>1. ~Among(s, cleanups)
    BY DEF OwnInv, Pending, Among, IsLive
  <2> QED  BY <1>1, <2>1, AmongAppend DEF EndTask, OwnInv
<1> QED  BY <1>4, <1>5, <1>6, OwnFrame DEF EndTask

LEMMA OwnInit == Init => OwnInv
<1> SUFFICES ASSUME Init PROVE OwnInv
  OBVIOUS
<1>1. \A s \in Streams : ~Pending(s) /\ ~Has(s)
  BY DEF Init, Pending, Has, IsLive
<1>2. \A n \in Commands : commands[n] \notin Streams
  BY StreamsAssumption DEF Init
<1>3. Distinct(cleanups)
  BY DEF Init, Distinct
<1> QED  BY <1>1, <1>2, <1>3 DEF OwnInv

LEMMA OwnStep == TypeInv /\ OwnInv /\ [Next]_vars => OwnInv'
<1> SUFFICES ASSUME TypeInv, OwnInv, [Next]_vars PROVE OwnInv'
  OBVIOUS
<1>1. cleanups \in Seq(Streams) /\ stream \in [Streams -> StreamState]
      /\ commands \in [Commands -> Streams \cup {NoStream}]
  BY DEF TypeInv, TypeOK
<1>2. ASSUME NEW s \in Streams,
             \/ Call(s) \/ CancelCall(s) \/ Refuse(s)
             \/ Subscribe(s) \/ TakeEvent(s) \/ Forward(s)
      PROVE  OwnInv'
  <2>1. UNCHANGED <<wants, commands, cleanups>>
    BY <1>2 DEF Call, CancelCall, Refuse, Subscribe, TakeEvent, Forward
  <2>2. /\ \A t \in Streams \ {s} : stream'[t] = stream[t]
        /\ \/ stream[s] \in {"idle", "registering"} /\ stream'[s] \in {"registering", "refused"}
           \/ stream[s] \in {"subscribing", "running", "sending"} /\ stream'[s] \in {"running", "sending"}
    BY <1>1, <1>2 DEF Call, CancelCall, Refuse, Subscribe, TakeEvent, Forward
  <2> QED  BY <2>1, <2>2, OwnSameQueue
<1>3. ASSUME NEW s \in Streams, RegisterCommands(s) PROVE OwnInv'
  <2>1. /\ stream[s] = "registering" /\ stream' = [stream EXCEPT ![s] = "subscribing"]
        /\ UNCHANGED <<wants, cleanups>>
        /\ \A n \in wants[s] : commands[n] = NoStream
        /\ commands' = [n \in Commands |-> IF n \in wants[s] THEN s ELSE commands[n]]
    BY <1>3 DEF RegisterCommands, Collides
  <2>2. \A t \in Streams : Pending(t)' <=> Pending(t)
    BY <2>1 DEF Pending
  <2>3. \A t \in Streams : Has(t)' <=> Has(t) \/ t = s
    BY <1>1, <2>1, <2>2 DEF Has, IsLive
  <2>4. ~Has(s)
    BY <2>1 DEF Has, IsLive, OwnInv
  <2>5. ASSUME NEW t \in Streams, NEW n \in Commands
        PROVE  commands'[n] = t <=> Has(t)' /\ n \in wants'[t]
    BY <2>1, <2>3, <2>4, StreamsAssumption DEF OwnInv
  <2>6. \A t \in Streams : Pending(t)' => stream'[t] = "ended"
    BY <1>1, <2>1, <2>2 DEF OwnInv
  <2> QED  BY <2>1, <2>5, <2>6 DEF OwnInv
<1>4. ASSUME NEW s \in Streams, FallBehind(s) \/ ForwardFails(s) \/ NoticeGone(s) PROVE OwnInv'
  BY <1>4, OwnEndTask DEF FallBehind, ForwardFails, NoticeGone, IsLive
<1>5. CASE CleanCommands
  <2>1. commandsLine[Clean] # {} /\ cleanups # <<>>
    BY <1>5 DEF CleanCommands, HoldsAlone, TypeInv, CleanerOK
  <2>3. PICK h \in Streams : h = Head(cleanups)
    BY <1>1, <2>1, AmongTail
  <2>2. /\ cleanups' = Tail(cleanups) /\ UNCHANGED <<wants, stream>>
        /\ commands' = [n \in Commands |-> IF n \in wants[h] THEN NoStream ELSE commands[n]]
    BY <1>5, <2>3 DEF CleanCommands, Named, streamVars
  <2>4. \A t : (Pending(t) <=> Among(t, cleanups)) /\ (Pending(t)' <=> Among(t, Tail(cleanups)))
    BY <2>2 DEF Pending, Among
  <2>5. /\ Pending(h) /\ ~Pending(h)' /\ Distinct(cleanups')
        /\ \A t \in Streams \ {h} : Pending(t)' <=> Pending(t)
    BY <1>1, <2>1, <2>2, <2>3, <2>4, AmongTail DEF OwnInv
  <2>6. ~Has(h)' /\ Has(h) /\ \A t \in Streams \ {h} : Has(t)' <=> Has(t)
    BY <2>2, <2>5 DEF Has, IsLive, OwnInv
  <2>7. ASSUME NEW t \in Streams, NEW n \in Commands
        PROVE  commands'[n] = t <=> Has(t)' /\ n \in wants'[t]
    <3>1. CASE t = h
      BY <2>2, <2>3, <2>6, <3>1, StreamsAssumption DEF OwnInv
    <3>2. CASE t # h
      <4>1. n \in wants[h] => commands[n] = h
        BY <2>6 DEF OwnInv
      <4> QED  BY <2>2, <2>6, <3>2, <4>1, StreamsAssumption DEF OwnInv
    <3> QED  BY <3>1, <3>2
  <2>8. \A t \in Streams : Pending(t)' => stream'[t] = "ended"
    BY <2>2, <2>5 DEF OwnInv
  <2> QED  BY <2>5, <2>7, <2>8 DEF OwnInv
<1>6. ASSUME UNCHANGED <<wants, commands, cleanups, stream>> PROVE OwnInv'
  BY <1>6, OwnSameQueue
<1>7. ASSUME NEW s \in Streams, ClientReads(s) \/ ClientSeesEnd(s) \/ ClientLeaves(s) PROVE OwnInv'
  BY <1>6, <1>7 DEF ClientReads, ClientSeesEnd, ClientLeaves, streamVars
<1>8. ASSUME NEW l \in Listers, BeginList(l) \/ ListCommands(l) \/ CancelList(l) PROVE OwnInv'
  BY <1>6, <1>8 DEF BeginList, ListCommands, CancelList, streamVars
<1>9. CASE Broadcast \/ TakeCleanup \/ UNCHANGED vars
  BY <1>6, <1>9 DEF Broadcast, TakeCleanup, vars, streamVars
<1> QED
  BY <1>2, <1>3, <1>4, <1>5, <1>7, <1>8, <1>9 DEF Next, StreamStep, ReadStep, CleanupStep

\* A plugin has all of its commands or none, and no cleanup takes those of
\* another.
THEOREM CommandsAllOrNothing == Spec => []AllOrNothing
BY TypeInit, TypeStep, OwnInit, OwnStep, OwnedBy, PTL DEF Spec

-----------------------------------------------------------------------------
(* The way of an event *)

\* The event that the task of s has in hand counts as on its way.
InHand(s) == IF stream[s] = "sending" THEN 1 ELSE 0

\* What s was sent and has not read yet follows on what it has read, and its
\* Receiver is behind by just that.
OnItsWay(s) ==
    /\ next[s] = start[s] + Len(seen[s]) + Len(out[s]) + InHand(s)
    /\ \A i \in 1..Len(out[s]) : out[s][i] = start[s] + Len(seen[s]) + i
    /\ stream[s] = "sending" => hand[s] = next[s]
    /\ stream[s] = "ended" => sent - next[s] > BroadcastBuffer

DeliveryOf(s) ==
    /\ start[s] <= next[s] /\ next[s] <= sent
    /\ stream[s] \notin {"running", "sending", "ended"} =>
          client[s] = "open" /\ out[s] = <<>> /\ seen[s] = <<>>
    /\ client[s] = "open" => OnItsWay(s)

DeliveryInv == \A s \in Streams : DeliveryOf(s)

LEMMA StreamTypes ==
    ASSUME TypeInv, NEW s \in Streams
    PROVE  /\ sent \in Nat /\ start[s] \in Nat /\ next[s] \in Nat /\ hand[s] \in Nat
           /\ out[s] \in Seq(Nat) /\ seen[s] \in Seq(Nat)
           /\ Len(out[s]) \in Nat /\ Len(seen[s]) \in Nat
           /\ stream[s] \in StreamState /\ client[s] \in {"open", "gone", "ended"}
           /\ BroadcastBuffer \in Nat \ {0}
BY StreamsAssumption DEF TypeInv, TypeOK

\* A stream that a step does not touch, but for more events.
LEMMA DeliveryFrame ==
    ASSUME TypeInv, NEW s \in Streams, DeliveryOf(s),
           start'[s] = start[s], next'[s] = next[s], hand'[s] = hand[s],
           out'[s] = out[s], seen'[s] = seen[s],
           stream'[s] = stream[s], client'[s] = client[s],
           sent' = sent \/ sent' = sent + 1
    PROVE  DeliveryOf(s)'
BY StreamTypes DEF DeliveryOf, OnItsWay, InHand

\* A step of stream s.
LEMMA DeliveryMoves ==
    ASSUME TypeInv, DeliveryInv, NEW s \in Streams, DeliveryOf(s)', sent' = sent,
           \A t \in Streams \ {s} :
               /\ start'[t] = start[t] /\ next'[t] = next[t] /\ hand'[t] = hand[t]
               /\ out'[t] = out[t] /\ seen'[t] = seen[t]
               /\ stream'[t] = stream[t] /\ client'[t] = client[t]
    PROVE  DeliveryInv'
<1>1. ASSUME NEW t \in Streams \ {s} PROVE DeliveryOf(t)'
  BY DeliveryFrame DEF DeliveryInv
<1> QED  BY <1>1 DEF DeliveryInv

\* One event more or less in front of the others.
LEMMA Counting ==
    ASSUME NEW a \in Nat, NEW b \in Nat, NEW c \in Nat
    PROVE  /\ a + b + c + 1 = a + b + (c + 1)
           /\ a + b + (c + 1) = a + (b + 1) + c
           /\ a + b + c + 0 = a + b + c
           /\ a + b + c \in Nat /\ a + b \in Nat
OBVIOUS

LEMMA DeliveryInit == Init => DeliveryInv
<1> SUFFICES ASSUME Init, NEW s \in Streams PROVE DeliveryOf(s)
  BY DEF DeliveryInv
<1>1. /\ start[s] = 0 /\ next[s] = 0 /\ sent = 0 /\ out[s] = <<>> /\ seen[s] = <<>>
      /\ client[s] = "open" /\ stream[s] = "idle"
  BY DEF Init
<1> QED  BY <1>1 DEF DeliveryOf, OnItsWay, InHand

LEMMA DeliveryStep == TypeInv /\ DeliveryInv /\ [Next]_vars => DeliveryInv'
<1> SUFFICES ASSUME TypeInv, DeliveryInv, [Next]_vars PROVE DeliveryInv'
  OBVIOUS
<1> USE DEF streamVars, clientVars, listVars
<1>1. \A s \in Streams : DeliveryOf(s)
  BY DEF DeliveryInv
<1>2. /\ stream \in [Streams -> StreamState] /\ client \in [Streams -> {"open", "gone", "ended"}]
      /\ start \in [Streams -> Nat] /\ next \in [Streams -> Nat] /\ hand \in [Streams -> Nat]
      /\ out \in [Streams -> Seq(Nat)] /\ seen \in [Streams -> Seq(Nat)]
  BY DEF TypeInv, TypeOK
<1>3. ASSUME NEW s \in Streams, Call(s) \/ CancelCall(s) \/ Refuse(s) \/ RegisterCommands(s)
      PROVE  DeliveryInv'
  <2>1. /\ stream[s] \in {"idle", "registering"}
        /\ stream'[s] \in {"registering", "refused", "subscribing"}
        /\ \A t \in Streams \ {s} : stream'[t] = stream[t]
        /\ UNCHANGED <<start, next, hand, out, seen, client, sent>>
    BY <1>2, <1>3 DEF Call, CancelCall, Refuse, RegisterCommands
  <2>2. DeliveryOf(s)'
    BY <1>1, <2>1, StreamTypes DEF DeliveryOf, OnItsWay, InHand
  <2> QED  BY <2>1, <2>2, DeliveryMoves
<1>4. ASSUME NEW s \in Streams, Subscribe(s) PROVE DeliveryInv'
  <2>1. /\ stream[s] = "subscribing" /\ stream'[s] = "running"
        /\ start'[s] = sent /\ next'[s] = sent
        /\ \A t \in Streams \ {s} :
              stream'[t] = stream[t] /\ start'[t] = start[t] /\ next'[t] = next[t]
        /\ UNCHANGED <<hand, out, seen, client, sent>>
    BY <1>2, <1>4 DEF Subscribe
  <2>2. out[s] = <<>> /\ seen[s] = <<>>
    BY <1>1, <2>1 DEF DeliveryOf
  <2>3. DeliveryOf(s)'
    BY <2>1, <2>2, StreamTypes DEF DeliveryOf, OnItsWay, InHand
  <2> QED  BY <2>1, <2>3, DeliveryMoves
<1>5. ASSUME NEW s \in Streams, TakeEvent(s) PROVE DeliveryInv'
  <2>1. /\ stream[s] = "running" /\ stream'[s] = "sending" /\ next[s] < sent
        /\ next'[s] = next[s] + 1 /\ hand'[s] = next[s] + 1
        /\ \A t \in Streams \ {s} :
              stream'[t] = stream[t] /\ next'[t] = next[t] /\ hand'[t] = hand[t]
        /\ UNCHANGED <<start, out, seen, client, sent>>
    BY <1>2, <1>5 DEF TakeEvent
  <2>2. start'[s] <= next'[s] /\ next'[s] <= sent'
    <3>1. start[s] \in Nat /\ next[s] \in Nat /\ sent \in Nat
      BY StreamTypes
    <3>2. start[s] <= next[s]
      BY <1>1 DEF DeliveryOf
    <3> QED  BY <2>1, <3>1, <3>2
  <2>3. ASSUME client[s] = "open" PROVE OnItsWay(s)'
    <3>1. OnItsWay(s)
      BY <1>1, <2>3 DEF DeliveryOf
    <3>2. start[s] \in Nat /\ Len(seen[s]) \in Nat /\ Len(out[s]) \in Nat
      BY StreamTypes
    <3>3. next[s] = start[s] + Len(seen[s]) + Len(out[s]) + 0
      BY <2>1, <3>1 DEF OnItsWay, InHand
    <3>4. next[s] + 1 = start[s] + Len(seen[s]) + Len(out[s]) + 1
      BY <3>2, <3>3, Counting
    <3> QED  BY <2>1, <3>1, <3>4 DEF OnItsWay, InHand
  <2>4. DeliveryOf(s)'
    BY <2>1, <2>2, <2>3 DEF DeliveryOf
  <2> QED  BY <2>1, <2>4, DeliveryMoves
<1>6. ASSUME NEW s \in Streams, Forward(s) PROVE DeliveryInv'
  <2>1. /\ stream[s] = "sending" /\ stream'[s] = "running"
        /\ out'[s] = Append(out[s], hand[s])
        /\ \A t \in Streams \ {s} :
              stream'[t] = stream[t] /\ out'[t] = out[t] /\ hand'[t] = hand[t]
        /\ UNCHANGED <<start, next, seen, client, sent>>
    BY <1>2, <1>6 DEF Forward
  <2>2. /\ Len(out'[s]) = Len(out[s]) + 1
        /\ \A i \in 1..Len(out[s]) : out'[s][i] = out[s][i]
        /\ out'[s][Len(out[s]) + 1] = hand[s]
    BY <2>1, StreamTypes
  <2>3. \A i \in 1..Len(out'[s]) : i \in 1..Len(out[s]) \/ i = Len(out[s]) + 1
    BY <2>2, StreamTypes
  <2>4. ASSUME client[s] = "open" PROVE OnItsWay(s)'
    <3>1. next[s] = start[s] + Len(seen[s]) + Len(out[s]) + 1 /\ hand[s] = next[s]
      BY <1>1, <2>1, <2>4 DEF DeliveryOf, OnItsWay, InHand
    <3>2. \A i \in 1..Len(out[s]) : out[s][i] = start[s] + Len(seen[s]) + i
      BY <1>1, <2>4 DEF DeliveryOf, OnItsWay
    <3>3. next[s] = start[s] + Len(seen[s]) + Len(out'[s])
      <4>1. start[s] \in Nat /\ Len(seen[s]) \in Nat /\ Len(out[s]) \in Nat
        BY StreamTypes
      <4>2. Len(out'[s]) = Len(out[s]) + 1
        BY <2>2
      <4>3. start[s] + Len(seen[s]) + Len(out[s]) + 1 = start[s] + Len(seen[s]) + (Len(out[s]) + 1)
        BY <4>1, Counting
      <4> QED  BY <3>1, <4>2, <4>3
    <3>4. hand[s] = start[s] + Len(seen[s]) + (Len(out[s]) + 1)
      <4>1. start[s] \in Nat /\ Len(seen[s]) \in Nat /\ Len(out[s]) \in Nat
        BY StreamTypes
      <4>2. start[s] + Len(seen[s]) + Len(out[s]) + 1 = start[s] + Len(seen[s]) + (Len(out[s]) + 1)
        BY <4>1, Counting
      <4> QED  BY <3>1, <4>2
    <3>5. \A i \in 1..Len(out'[s]) : out'[s][i] = start[s] + Len(seen[s]) + i
      BY <2>2, <2>3, <3>2, <3>4
    <3>6. start[s] + Len(seen[s]) + Len(out'[s]) + 0 = start[s] + Len(seen[s]) + Len(out'[s])
      BY <2>2, StreamTypes
    <3> QED  BY <2>1, <3>3, <3>5, <3>6 DEF OnItsWay, InHand
  <2>5. DeliveryOf(s)'
    BY <1>1, <2>1, <2>4 DEF DeliveryOf
  <2> QED  BY <2>1, <2>5, DeliveryMoves
<1>7. ASSUME NEW s \in Streams, FallBehind(s) \/ ForwardFails(s) \/ NoticeGone(s) PROVE DeliveryInv'
  <2>1. /\ stream[s] \in {"running", "sending"} /\ stream'[s] = "ended"
        /\ \/ client[s] = "gone"
           \/ stream[s] = "running" /\ sent - next[s] > BroadcastBuffer
        /\ \A t \in Streams \ {s} : stream'[t] = stream[t] /\ hand'[t] = hand[t]
        /\ UNCHANGED <<start, next, out, seen, client, sent>>
    BY <1>2, <1>7 DEF FallBehind, ForwardFails, NoticeGone, EndTask, Lagged
  <2>2. DeliveryOf(s)'
    BY <1>1, <2>1, StreamTypes DEF DeliveryOf, OnItsWay, InHand
  <2> QED  BY <2>1, <2>2, DeliveryMoves
<1>8. ASSUME NEW s \in Streams, ClientReads(s) PROVE DeliveryInv'
  <2>1. /\ client[s] = "open" /\ out[s] # <<>>
        /\ seen'[s] = Append(seen[s], Head(out[s])) /\ out'[s] = Tail(out[s])
        /\ \A t \in Streams \ {s} : seen'[t] = seen[t] /\ out'[t] = out[t]
        /\ UNCHANGED <<start, next, hand, stream, client, sent>>
    BY <1>2, <1>8 DEF ClientReads
  <2>2. /\ Len(seen'[s]) = Len(seen[s]) + 1 /\ Len(out'[s]) = Len(out[s]) - 1
        /\ Len(out[s]) > 0
        /\ \A i \in 1..Len(out'[s]) : out'[s][i] = out[s][i + 1] /\ i + 1 \in 1..Len(out[s])
    BY <2>1, StreamTypes
  <2>3. OnItsWay(s)
    BY <1>1, <2>1 DEF DeliveryOf
  <2>4. next[s] = start[s] + Len(seen'[s]) + Len(out'[s]) + InHand(s)
    <3>1. next[s] = start[s] + Len(seen[s]) + Len(out[s]) + InHand(s)
      BY <2>3 DEF OnItsWay
    <3>2. Len(out'[s]) \in Nat /\ Len(out[s]) = Len(out'[s]) + 1
      BY <2>2, StreamTypes
    <3>3. start[s] + Len(seen[s]) + Len(out[s]) = start[s] + Len(seen'[s]) + Len(out'[s])
      <4>1. start[s] \in Nat /\ Len(seen[s]) \in Nat
        BY StreamTypes
      <4>2. Len(seen'[s]) = Len(seen[s]) + 1
        BY <2>2
      <4>3. start[s] + Len(seen[s]) + (Len(out'[s]) + 1) = start[s] + (Len(seen[s]) + 1) + Len(out'[s])
        BY <3>2, <4>1, Counting
      <4> QED  BY <3>2, <4>2, <4>3
    <3> QED  BY <3>1, <3>3
  <2>5. \A i \in 1..Len(out'[s]) : out'[s][i] = start[s] + Len(seen'[s]) + i
    <3> SUFFICES ASSUME NEW i \in 1..Len(out'[s]) PROVE out'[s][i] = start[s] + Len(seen'[s]) + i
      OBVIOUS
    <3>1. out'[s][i] = start[s] + Len(seen[s]) + (i + 1)
      BY <2>2, <2>3 DEF OnItsWay
    <3>2. start[s] + Len(seen[s]) + (i + 1) = start[s] + (Len(seen[s]) + 1) + i
      <4>1. start[s] \in Nat /\ Len(seen[s]) \in Nat /\ i \in Nat
        BY <2>2, StreamTypes
      <4> QED  BY <4>1, Counting
    <3> QED  BY <2>2, <3>1, <3>2
  <2>6. OnItsWay(s)'
    BY <2>1, <2>3, <2>4, <2>5 DEF OnItsWay, InHand
  <2>7. stream[s] \in {"running", "sending", "ended"}
    BY <1>1, <2>1 DEF DeliveryOf
  <2>8. DeliveryOf(s)'
    BY <1>1, <2>1, <2>6, <2>7 DEF DeliveryOf
  <2> QED  BY <2>1, <2>8, DeliveryMoves
<1>9. ASSUME NEW s \in Streams, ClientSeesEnd(s) \/ ClientLeaves(s) PROVE DeliveryInv'
  <2>1. /\ stream[s] \in {"running", "sending", "ended"} /\ client'[s] # "open"
        /\ \A t \in Streams \ {s} : client'[t] = client[t] /\ out'[t] = out[t]
        /\ UNCHANGED <<start, next, hand, stream, seen, sent>>
    BY <1>2, <1>9 DEF ClientSeesEnd, ClientLeaves
  <2>2. DeliveryOf(s)'
    BY <1>1, <2>1 DEF DeliveryOf
  <2> QED  BY <2>1, <2>2, DeliveryMoves
<1>10. ASSUME UNCHANGED <<start, next, hand, out, seen, stream, client>>,
              sent' = sent \/ sent' = sent + 1
       PROVE  DeliveryInv'
  BY <1>1, <1>10, DeliveryFrame DEF DeliveryInv
<1>11. CASE Broadcast
  BY <1>10, <1>11 DEF Broadcast
<1>12. ASSUME NEW l \in Listers, BeginList(l) \/ ListCommands(l) \/ CancelList(l) PROVE DeliveryInv'
  BY <1>10, <1>12 DEF BeginList, ListCommands, CancelList
<1>13. CASE TakeCleanup \/ CleanCommands \/ UNCHANGED vars
  BY <1>10, <1>13 DEF TakeCleanup, CleanCommands, vars
<1> QED
  BY <1>3, <1>4, <1>5, <1>6, <1>7, <1>8, <1>9, <1>11, <1>12, <1>13
     DEF Next, StreamStep, ReadStep, CleanupStep

-----------------------------------------------------------------------------
(* What registered_commands tells *)

\* Listed streams stay subscribed where they are.
LEMMA ListedFrame ==
    ASSUME ListedIsSubscribed, UNCHANGED <<listed, listedAt>>,
           \A s \in Streams : IsLive(s) \/ stream[s] = "ended" =>
               (IsLive(s) \/ stream[s] = "ended")' /\ start'[s] = start[s],
           TypeInv
    PROVE  ListedIsSubscribed'
BY DEF ListedIsSubscribed, TypeInv, TypeOK

LEMMA ListedInit == Init => ListedIsSubscribed
BY DEF Init, ListedIsSubscribed

LEMMA ListedStep ==
    TypeInv /\ LineInv /\ OwnInv /\ DeliveryInv /\ ListedIsSubscribed /\ [Next]_vars
        => ListedIsSubscribed'
<1> SUFFICES ASSUME TypeInv, LineInv, OwnInv, DeliveryInv, ListedIsSubscribed, [Next]_vars
             PROVE  ListedIsSubscribed'
  OBVIOUS
<1>1. stream \in [Streams -> StreamState] /\ start \in [Streams -> Nat]
      /\ listed \in [Listers -> SUBSET Streams] /\ listedAt \in [Listers -> Nat]
      /\ commands \in [Commands -> Streams \cup {NoStream}]
  BY DEF TypeInv, TypeOK
<1>2. ASSUME NEW s \in Streams,
             \/ Call(s) \/ CancelCall(s) \/ Refuse(s) \/ RegisterCommands(s) \/ Subscribe(s)
      PROVE  ListedIsSubscribed'
  <2>1. /\ stream[s] \in {"idle", "registering", "subscribing"}
        /\ \A t \in Streams \ {s} : stream'[t] = stream[t] /\ start'[t] = start[t]
        /\ UNCHANGED <<listed, listedAt>>
    BY <1>1, <1>2 DEF Call, CancelCall, Refuse, RegisterCommands, Subscribe, listVars
  <2>2. ASSUME NEW t \in Streams, IsLive(t) \/ stream[t] = "ended"
        PROVE  (IsLive(t) \/ stream[t] = "ended")' /\ start'[t] = start[t]
    BY <2>1, <2>2 DEF IsLive
  <2> QED  BY <2>1, <2>2, ListedFrame
<1>3. ASSUME NEW s \in Streams,
             TakeEvent(s) \/ Forward(s) \/ FallBehind(s) \/ ForwardFails(s) \/ NoticeGone(s)
      PROVE  ListedIsSubscribed'
  <2>1. /\ stream'[s] \in {"running", "sending", "ended"}
        /\ \A t \in Streams \ {s} : stream'[t] = stream[t]
        /\ UNCHANGED <<start, listed, listedAt>>
    BY <1>1, <1>3 DEF TakeEvent, Forward, FallBehind, ForwardFails, NoticeGone, EndTask, listVars
  <2>2. ASSUME NEW t \in Streams, IsLive(t) \/ stream[t] = "ended"
        PROVE  (IsLive(t) \/ stream[t] = "ended")' /\ start'[t] = start[t]
    BY <2>1, <2>2 DEF IsLive
  <2> QED  BY <2>1, <2>2, ListedFrame
<1>4. ASSUME NEW l \in Listers, ListCommands(l) PROVE ListedIsSubscribed'
  <2>1. /\ HoldsShared(commandsLine, List(l), Writers)
        /\ listed'[l] = {commands[n] : n \in Commands} \ {NoStream} /\ listedAt'[l] = sent
        /\ \A m \in Listers \ {l} : listed'[m] = listed[m] /\ listedAt'[m] = listedAt[m]
        /\ UNCHANGED <<stream, start>>
    BY <1>1, <1>4 DEF ListCommands, streamVars
  <2>2. \A s \in Streams : stream[s] # "subscribing"
    BY <2>1, SharedExcludesAlone, UsesAreUses DEF LineInv, StreamPlace
  <2>3. ASSUME NEW s \in listed'[l]
        PROVE  (IsLive(s) \/ stream[s] = "ended")' /\ start'[s] <= listedAt'[l]
    <3>1. s \in Streams /\ \E n \in Commands : commands[n] = s
      BY <1>1, <2>1, <2>3
    <3>2. Has(s)
      BY <3>1 DEF OwnInv
    <3>3. IsLive(s) \/ stream[s] = "ended"
      BY <2>2, <3>1, <3>2 DEF Has, OwnInv
    <3>4. start[s] <= sent
      BY <3>1, StreamTypes DEF DeliveryInv, DeliveryOf
    <3> QED  BY <2>1, <3>3, <3>4 DEF IsLive
  <2>4. ASSUME NEW m \in Listers \ {l}, NEW s \in listed'[m]
        PROVE  (IsLive(s) \/ stream[s] = "ended")' /\ start'[s] <= listedAt'[m]
    BY <2>1, <2>4 DEF ListedIsSubscribed, IsLive
  <2> QED  BY <2>3, <2>4 DEF ListedIsSubscribed
<1>5. ASSUME UNCHANGED <<stream, start, listed, listedAt>> PROVE ListedIsSubscribed'
  BY <1>5, ListedFrame DEF IsLive
<1>6. ASSUME NEW l \in Listers, BeginList(l) \/ CancelList(l) PROVE ListedIsSubscribed'
  BY <1>5, <1>6 DEF BeginList, CancelList, streamVars
<1>7. ASSUME NEW s \in Streams, ClientReads(s) \/ ClientSeesEnd(s) \/ ClientLeaves(s)
      PROVE  ListedIsSubscribed'
  BY <1>5, <1>7 DEF ClientReads, ClientSeesEnd, ClientLeaves, streamVars, listVars
<1>8. CASE Broadcast \/ TakeCleanup \/ CleanCommands \/ UNCHANGED vars
  BY <1>5, <1>8 DEF Broadcast, TakeCleanup, CleanCommands, vars, streamVars, listVars
<1> QED
  BY <1>2, <1>3, <1>4, <1>6, <1>7, <1>8 DEF Next, StreamStep, ReadStep, CleanupStep

\* The plugin of a listed command has been subscribed since before the answer.
THEOREM ListedAreSubscribed == Spec => []ListedIsSubscribed
BY TypeInit, TypeStep, LineInit, LineStep, OwnInit, OwnStep, DeliveryInit, DeliveryStep,
   ListedInit, ListedStep, PTL DEF Spec

-----------------------------------------------------------------------------
(* Who waits for whom *)

\* Somebody is at the commands lock, or a message waits for cleanup_task.
RegistryWork ==
    \/ \E s \in Streams : stream[s] \in {"registering", "subscribing"}
    \/ \E l \in Listers : lister[l] = "waiting"
    \/ cleanups # <<>>

\* A handler or cleanup_task has what it waits for; what the plugins read, and
\* which events come, does not matter to them.
RegistryCanGoOn ==
    \/ \E s \in Streams : \/ stream[s] = "registering" /\ HoldsAlone(commandsLine, Open(s))
                          \/ stream[s] = "subscribing"
    \/ \E l \in Listers : lister[l] = "waiting" /\ HoldsShared(commandsLine, List(l), Writers)
    \/ cleanups # <<>> /\ Clean \notin Queued(commandsLine)
    \/ HoldsAlone(commandsLine, Clean)

RegistryNeverStuck == RegistryWork => RegistryCanGoOn

\* A plugin that stops reading its stream holds up nobody else: streams are
\* opened, commands listed and the names of streams that ended freed without
\* waiting for any channel to have room.
THEOREM PluginsHoldNobodyUp == Spec => []RegistryNeverStuck
<1>1. LineInv => RegistryNeverStuck
  <2> SUFFICES ASSUME LineInv, ~RegistryCanGoOn PROVE ~RegistryWork
    BY DEF RegistryNeverStuck
  <2>1. Queued(commandsLine) = {}
    <3> SUFFICES ASSUME Queued(commandsLine) # {} PROVE FALSE
      OBVIOUS
    <3>1. PICK u \in Uses : commandsLine[u] = {u}
      BY FirstInLine DEF LineInv
    <3>2. u # Clean
      BY <3>1 DEF RegistryCanGoOn, HoldsAlone
    <3>3. ASSUME NEW s \in Streams, u = Open(s) PROVE FALSE
      <4>1. stream[s] \in {"registering", "subscribing"}
        BY <3>1, <3>3 DEF LineInv, StreamPlace
      <4> QED  BY <3>1, <3>3, <4>1 DEF RegistryCanGoOn, HoldsAlone
    <3>4. ASSUME NEW l \in Listers, u = List(l) PROVE FALSE
      <4>1. lister[l] = "waiting"
        BY <3>1, <3>4 DEF LineInv, ListerPlace
      <4>2. HoldsShared(commandsLine, List(l), Writers)
        BY <3>1, <3>4, UsesAreUses DEF HoldsShared
      <4> QED  BY <4>1, <4>2 DEF RegistryCanGoOn
    <3> QED  BY <3>2, <3>3, <3>4 DEF Uses, Readers, Writers
  <2>2. /\ \A s \in Streams : stream[s] \notin {"registering", "subscribing"}
        /\ \A l \in Listers : lister[l] # "waiting"
    BY <2>1, UsesAreUses DEF LineInv, StreamPlace, ListerPlace, IsLine, Queued
  <2>3. cleanups = <<>>
    BY <2>1 DEF RegistryCanGoOn
  <2> QED  BY <2>2, <2>3 DEF RegistryWork
<1> QED  BY <1>1, TypeInit, TypeStep, LineInit, LineStep, PTL DEF Spec

-----------------------------------------------------------------------------
(* The registry of commands *)

\* When stream s moves to stage x the others stay where they are.
LEMMA StageMoves ==
    ASSUME NEW s \in Streams, NEW x,
           \A t \in Streams \ {s} : stream'[t] = stream[t] /\ (Pending(t)' <=> Pending(t)),
           Stage'[s] = x
    PROVE  Stage' = [Stage EXCEPT ![s] = x]
<1>1. \A t \in Streams \ {s} : Stage'[t] = Stage[t]
  BY DEF Stage, IsLive
<1>2. DOMAIN Stage = Streams /\ DOMAIN Stage' = Streams
  BY DEF Stage
<1>3. Stage' = [t \in Streams |-> Stage'[t]] /\ Stage = [t \in Streams |-> Stage[t]]
  BY DEF Stage
<1> QED  BY <1>1, <1>2, <1>3

LEMMA StageKept ==
    ASSUME \A t \in Streams :
               /\ Pending(t)' <=> Pending(t)
               /\ \/ stream'[t] = stream[t]
                  \/ stream[t] \in {"idle", "registering"} /\ stream'[t] = "registering"
                  \/ /\ stream[t] \in {"subscribing", "running", "sending"}
                     /\ stream'[t] \in {"subscribing", "running", "sending"}
    PROVE  Stage' = Stage
BY DEF Stage, IsLive

LEMMA RegistryInit == Init => Registry!Init
<1> SUFFICES ASSUME Init PROVE Registry!Init
  OBVIOUS
<1>1. \A s \in Streams : stream[s] = "idle"
  BY DEF Init
<1>2. Stage = [s \in Streams |-> "new"]
  BY <1>1 DEF Stage, IsLive
<1> QED  BY <1>2 DEF Init, Registry!Init

LEMMA RegistryStep ==
    TypeInv /\ OwnInv /\ [Next]_vars => [Registry!Next]_(Registry!registryVars)
<1> SUFFICES ASSUME TypeInv, OwnInv, [Next]_vars
             PROVE  Registry!Next \/ UNCHANGED Registry!registryVars
  OBVIOUS
<1>1. ASSUME NEW s \in Streams,
             \/ Registry!Acquire(s) \/ Registry!Refuse(s)
             \/ Registry!Depart(s) \/ Registry!Release(s)
      PROVE  Registry!Next
  BY <1>1 DEF Registry!Next
<1>2. ASSUME UNCHANGED <<wants, commands, Stage>> PROVE UNCHANGED Registry!registryVars
  BY <1>2 DEF Registry!registryVars
<1>3. /\ stream \in [Streams -> StreamState] /\ cleanups \in Seq(Streams)
      /\ commands \in [Commands -> Streams \cup {NoStream}]
      /\ wants \in [Streams -> SUBSET Commands]
  BY DEF TypeInv, TypeOK
<1>4. ASSUME cleanups' = cleanups PROVE \A t \in Streams : Pending(t)' <=> Pending(t)
  BY <1>4 DEF Pending
<1>5. ASSUME NEW s \in Streams, Call(s) \/ Subscribe(s) \/ TakeEvent(s) \/ Forward(s)
      PROVE  UNCHANGED Registry!registryVars
  <2>1. /\ \A t \in Streams \ {s} : stream'[t] = stream[t]
        /\ \/ stream[s] = "idle" /\ stream'[s] = "registering"
           \/ /\ stream[s] \in {"subscribing", "running", "sending"}
              /\ stream'[s] \in {"running", "sending"}
        /\ UNCHANGED <<wants, commands, cleanups>>
    BY <1>3, <1>5 DEF Call, Subscribe, TakeEvent, Forward
  <2>2. Stage' = Stage
    BY <1>4, <2>1, StageKept
  <2> QED  BY <1>2, <2>1, <2>2
<1>6. ASSUME NEW s \in Streams, CancelCall(s) \/ Refuse(s) PROVE Registry!Refuse(s)
  <2>1. /\ stream[s] = "registering" /\ stream'[s] = "refused"
        /\ \A t \in Streams \ {s} : stream'[t] = stream[t]
        /\ UNCHANGED <<wants, commands, cleanups>>
    BY <1>3, <1>6 DEF CancelCall, Refuse
  <2>2. Stage[s] = "new" /\ Stage'[s] = "over"
    BY <2>1 DEF Stage, IsLive
  <2>3. Stage' = [Stage EXCEPT ![s] = "over"]
    BY <1>4, <2>1, <2>2, StageMoves
  <2> QED  BY <2>1, <2>2, <2>3 DEF Registry!Refuse
<1>7. ASSUME NEW s \in Streams, RegisterCommands(s) PROVE Registry!Acquire(s)
  <2>1. /\ stream[s] = "registering" /\ stream'[s] = "subscribing"
        /\ \A t \in Streams \ {s} : stream'[t] = stream[t]
        /\ \A n \in wants[s] : commands[n] = NoStream
        /\ commands' = [n \in Commands |-> IF n \in wants[s] THEN s ELSE commands[n]]
        /\ UNCHANGED <<wants, cleanups>>
    BY <1>3, <1>7 DEF RegisterCommands, Collides
  <2>2. Stage[s] = "new" /\ Stage'[s] = "holding"
    BY <2>1 DEF Stage, IsLive
  <2>3. Stage' = [Stage EXCEPT ![s] = "holding"]
    BY <1>4, <2>1, <2>2, StageMoves
  <2> QED  BY <2>1, <2>2, <2>3 DEF Registry!Acquire
<1>8. ASSUME NEW s \in Streams, FallBehind(s) \/ ForwardFails(s) \/ NoticeGone(s)
      PROVE  Registry!Depart(s)
  <2>1. /\ IsLive(s) /\ stream'[s] = "ended" /\ cleanups' = Append(cleanups, s)
        /\ \A t \in Streams \ {s} : stream'[t] = stream[t]
        /\ UNCHANGED <<wants, commands>>
    BY <1>3, <1>8 DEF FallBehind, ForwardFails, NoticeGone, EndTask, IsLive
  <2>2. \A t \in Streams : Pending(t)' <=> Pending(t) \/ t = s
    <3>1. \A t : (Pending(t) <=> Among(t, cleanups)) /\ (Pending(t)' <=> Among(t, Append(cleanups, s)))
      BY <2>1 DEF Pending, Among
    <3> QED  BY <1>3, <3>1, AmongAppend
  <2>3. Stage[s] = "holding" /\ Stage'[s] = "leaving"
    BY <2>1, <2>2 DEF Stage, IsLive
  <2>4. Stage' = [Stage EXCEPT ![s] = "leaving"]
    BY <2>1, <2>2, <2>3, StageMoves
  <2> QED  BY <2>1, <2>3, <2>4 DEF Registry!Depart
<1>9. CASE CleanCommands
  <2>1. commandsLine[Clean] # {} /\ cleanups # <<>>
    BY <1>9 DEF CleanCommands, HoldsAlone, TypeInv, CleanerOK
  <2>2. PICK h \in Streams : h = Head(cleanups)
    BY <1>3, <2>1, AmongTail
  <2>3. /\ cleanups' = Tail(cleanups) /\ UNCHANGED <<wants, stream>>
        /\ commands' = [n \in Commands |-> IF n \in wants[h] THEN NoStream ELSE commands[n]]
    BY <1>9, <2>2 DEF CleanCommands, Named, streamVars
  <2>4. \A t : (Pending(t) <=> Among(t, cleanups)) /\ (Pending(t)' <=> Among(t, Tail(cleanups)))
    BY <2>3 DEF Pending, Among
  <2>5. Pending(h) /\ ~Pending(h)' /\ \A t \in Streams \ {h} : Pending(t)' <=> Pending(t)
    BY <1>3, <2>1, <2>2, <2>4, AmongTail DEF OwnInv
  <2>6. stream[h] = "ended" /\ \A n \in Commands : commands[n] = h <=> n \in wants[h]
    BY <2>5 DEF OwnInv, Has
  <2>7. Stage[h] = "leaving" /\ Stage'[h] = "over"
    BY <2>3, <2>5, <2>6 DEF Stage, IsLive
  <2>8. Stage' = [Stage EXCEPT ![h] = "over"]
    BY <2>3, <2>5, <2>7, StageMoves
  <2>9. commands' = [n \in Commands |-> IF commands[n] = h THEN NoStream ELSE commands[n]]
    BY <2>3, <2>6
  <2>10. Registry!Release(h)
    BY <2>3, <2>7, <2>8, <2>9 DEF Registry!Release
  <2> QED  BY <1>1, <2>10
<1>10. ASSUME UNCHANGED <<wants, commands, cleanups, stream>>
       PROVE  UNCHANGED Registry!registryVars
  <2>1. Stage' = Stage
    BY <1>4, <1>10, StageKept
  <2> QED  BY <1>2, <1>10, <2>1
<1>11. ASSUME NEW s \in Streams, ClientReads(s) \/ ClientSeesEnd(s) \/ ClientLeaves(s)
       PROVE  UNCHANGED Registry!registryVars
  BY <1>10, <1>11 DEF ClientReads, ClientSeesEnd, ClientLeaves, streamVars
<1>12. ASSUME NEW l \in Listers, BeginList(l) \/ ListCommands(l) \/ CancelList(l)
       PROVE  UNCHANGED Registry!registryVars
  BY <1>10, <1>12 DEF BeginList, ListCommands, CancelList, streamVars
<1>13. CASE Broadcast \/ TakeCleanup \/ UNCHANGED vars
  BY <1>10, <1>13 DEF Broadcast, TakeCleanup, vars, streamVars
<1> QED
  BY <1>1, <1>5, <1>6, <1>7, <1>8, <1>9, <1>11, <1>12, <1>13
     DEF Next, StreamStep, ReadStep, CleanupStep

\* Commands are handed out as the registry of exclusive names promises.
THEOREM StreamsImplementRegistry == Spec => ImplementsRegistry
BY TypeInit, TypeStep, OwnInit, OwnStep, RegistryInit, RegistryStep, PTL
   DEF Spec, ImplementsRegistry, Registry!Spec

-----------------------------------------------------------------------------
(* The contract of the streams *)

\* When stream s moves to phase x the others stay where they are.
LEMMA PhaseMoves ==
    ASSUME NEW s \in Streams, NEW x,
           \A t \in Streams \ {s} : stream'[t] = stream[t] /\ client'[t] = client[t],
           Phase'[s] = x
    PROVE  Phase' = [Phase EXCEPT ![s] = x]
<1>1. \A t \in Streams \ {s} : Phase'[t] = Phase[t]
  BY DEF Phase, IsLive
<1>2. Phase' = [t \in Streams |-> Phase'[t]] /\ Phase = [t \in Streams |-> Phase[t]]
  BY DEF Phase
<1> QED  BY <1>1, <1>2

LEMMA PhaseKept ==
    ASSUME client' = client,
           \A t \in Streams :
               \/ stream'[t] = stream[t]
               \/ /\ stream[t] \in {"idle", "registering"}
                  /\ stream'[t] \in {"registering", "subscribing"}
               \/ /\ stream[t] \in {"running", "sending"}
                  /\ stream'[t] \in {"running", "sending", "ended"}
    PROVE  Phase' = Phase
BY DEF Phase, IsLive

LEMMA ContractInit == Init => Delivery!Init
<1> SUFFICES ASSUME Init PROVE Delivery!Init
  OBVIOUS
<1>1. \A s \in Streams : stream[s] = "idle" /\ client[s] = "open"
  BY DEF Init
<1>2. Phase = [s \in Streams |-> "new"]
  BY <1>1 DEF Phase, IsLive
<1> QED  BY <1>2 DEF Init, Delivery!Init

LEMMA ContractStep ==
    TypeInv /\ DeliveryInv /\ [Next]_vars => [Delivery!Next]_(Delivery!contractVars)
<1> SUFFICES ASSUME TypeInv, DeliveryInv, [Next]_vars
             PROVE  Delivery!Next \/ UNCHANGED Delivery!contractVars
  OBVIOUS
<1>1. ASSUME NEW s \in Streams,
             \/ Delivery!Open(s) \/ Delivery!Refuse(s) \/ Delivery!Deliver(s)
             \/ Delivery!Leave(s) \/ Delivery!End(s)
      PROVE  Delivery!Next
  BY <1>1 DEF Delivery!Next
<1>2. ASSUME UNCHANGED <<sent, Phase, start, seen>> PROVE UNCHANGED Delivery!contractVars
  BY <1>2 DEF Delivery!contractVars
<1>3. /\ stream \in [Streams -> StreamState] /\ client \in [Streams -> {"open", "gone", "ended"}]
      /\ seen \in [Streams -> Seq(Nat)] /\ start \in [Streams -> Nat]
  BY DEF TypeInv, TypeOK
<1>4. \A s \in Streams : DeliveryOf(s)
  BY DEF DeliveryInv
<1>5. ASSUME NEW s \in Streams,
             \/ Call(s) \/ RegisterCommands(s) \/ TakeEvent(s) \/ Forward(s)
             \/ FallBehind(s) \/ ForwardFails(s) \/ NoticeGone(s)
      PROVE  UNCHANGED Delivery!contractVars
  <2>1. /\ \A t \in Streams \ {s} : stream'[t] = stream[t]
        /\ \/ /\ stream[s] \in {"idle", "registering"}
              /\ stream'[s] \in {"registering", "subscribing"}
           \/ /\ stream[s] \in {"running", "sending"}
              /\ stream'[s] \in {"running", "sending", "ended"}
        /\ UNCHANGED <<client, sent, start, seen>>
    BY <1>3, <1>5 DEF Call, RegisterCommands, TakeEvent, Forward, FallBehind, ForwardFails,
       NoticeGone, EndTask, clientVars
  <2>2. Phase' = Phase
    BY <2>1, PhaseKept
  <2> QED  BY <1>2, <2>1, <2>2
<1>6. ASSUME NEW s \in Streams, CancelCall(s) \/ Refuse(s) PROVE Delivery!Refuse(s)
  <2>1. /\ stream[s] = "registering" /\ stream'[s] = "refused"
        /\ \A t \in Streams \ {s} : stream'[t] = stream[t]
        /\ UNCHANGED <<client, sent, start, seen>>
    BY <1>3, <1>6 DEF CancelCall, Refuse, clientVars
  <2>2. client[s] = "open"
    BY <1>4, <2>1 DEF DeliveryOf
  <2>3. Phase[s] = "new" /\ Phase'[s] = "closed"
    BY <2>1, <2>2 DEF Phase, IsLive
  <2>4. Phase' = [Phase EXCEPT ![s] = "closed"]
    BY <2>1, <2>3, PhaseMoves
  <2> QED  BY <2>1, <2>3, <2>4 DEF Delivery!Refuse
<1>7. ASSUME NEW s \in Streams, Subscribe(s) PROVE Delivery!Open(s)
  <2>1. /\ stream[s] = "subscribing" /\ stream'[s] = "running"
        /\ \A t \in Streams \ {s} : stream'[t] = stream[t]
        /\ start' = [start EXCEPT ![s] = sent]
        /\ UNCHANGED <<client, sent, seen>>
    BY <1>3, <1>7 DEF Subscribe, clientVars
  <2>2. client[s] = "open"
    BY <1>4, <2>1 DEF DeliveryOf
  <2>3. Phase[s] = "new" /\ Phase'[s] = "open"
    BY <2>1, <2>2 DEF Phase, IsLive
  <2>4. Phase' = [Phase EXCEPT ![s] = "open"]
    BY <2>1, <2>3, PhaseMoves
  <2> QED  BY <2>1, <2>3, <2>4 DEF Delivery!Open
<1>8. ASSUME NEW s \in Streams, ClientReads(s) PROVE Delivery!Deliver(s)
  <2>1. /\ client[s] = "open" /\ out[s] # <<>>
        /\ seen' = [seen EXCEPT ![s] = Append(seen[s], Head(out[s]))]
        /\ UNCHANGED <<stream, client, sent, start>>
    BY <1>8 DEF ClientReads, streamVars
  <2>2. stream[s] \in {"running", "sending", "ended"} /\ OnItsWay(s)
    BY <1>4, <2>1 DEF DeliveryOf
  <2>3. Len(out[s]) > 0 /\ 1 \in 1..Len(out[s]) /\ Head(out[s]) = out[s][1]
    BY <2>1, StreamTypes
  <2>4. Head(out[s]) = start[s] + Len(seen[s]) + 1
    BY <2>2, <2>3 DEF OnItsWay
  <2>5. sent - (start[s] + Len(seen[s])) > 0
    <3>1. /\ start[s] \in Nat /\ Len(seen[s]) \in Nat /\ Len(out[s]) \in Nat
          /\ next[s] \in Nat /\ sent \in Nat
      BY StreamTypes
    <3>2. next[s] = start[s] + Len(seen[s]) + Len(out[s]) + InHand(s) /\ next[s] <= sent
      BY <1>4, <2>2 DEF OnItsWay, DeliveryOf
    <3>3. InHand(s) \in {0, 1}
      BY DEF InHand
    <3> QED  BY <2>3, <3>1, <3>2, <3>3
  <2>6. Phase[s] = "open" /\ Phase' = Phase
    BY <2>1, <2>2, PhaseKept DEF Phase, IsLive
  <2> QED  BY <2>1, <2>4, <2>5, <2>6 DEF Delivery!Deliver, Delivery!Behind
<1>9. ASSUME NEW s \in Streams, ClientSeesEnd(s) PROVE Delivery!End(s)
  <2>1. /\ client[s] = "open" /\ out[s] = <<>> /\ stream[s] = "ended"
        /\ client' = [client EXCEPT ![s] = "ended"]
        /\ UNCHANGED <<stream, sent, start, seen>>
    BY <1>9 DEF ClientSeesEnd, streamVars
  <2>2. OnItsWay(s)
    BY <1>4, <2>1 DEF DeliveryOf
  <2>3. sent - (start[s] + Len(seen[s])) > BroadcastBuffer
    <3>1. start[s] \in Nat /\ Len(seen[s]) \in Nat
      BY StreamTypes
    <3>2. next[s] = start[s] + Len(seen[s]) + 0 + 0 /\ sent - next[s] > BroadcastBuffer
      BY <2>1, <2>2 DEF OnItsWay, InHand
    <3>3. start[s] + Len(seen[s]) + 0 + 0 = start[s] + Len(seen[s])
      BY <3>1
    <3> QED  BY <3>2, <3>3
  <2>4. client'[s] = "ended" /\ \A t \in Streams \ {s} : client'[t] = client[t]
    BY <1>3, <2>1
  <2>5. Phase[s] = "open" /\ Phase'[s] = "closed"
    BY <2>1, <2>4 DEF Phase, IsLive
  <2>6. Phase' = [Phase EXCEPT ![s] = "closed"]
    BY <2>1, <2>4, <2>5, PhaseMoves
  <2> QED  BY <2>1, <2>3, <2>5, <2>6 DEF Delivery!End, Delivery!Behind
<1>10. ASSUME NEW s \in Streams, ClientLeaves(s) PROVE Delivery!Leave(s)
  <2>1. /\ client[s] = "open" /\ stream[s] \in {"running", "sending", "ended"}
        /\ client'[s] = "gone" /\ \A t \in Streams \ {s} : client'[t] = client[t]
        /\ UNCHANGED <<stream, sent, start, seen>>
    BY <1>3, <1>10 DEF ClientLeaves, streamVars
  <2>2. Phase[s] = "open" /\ Phase'[s] = "left"
    BY <2>1 DEF Phase, IsLive
  <2>3. Phase' = [Phase EXCEPT ![s] = "left"]
    BY <2>1, <2>2, PhaseMoves
  <2> QED  BY <2>1, <2>2, <2>3 DEF Delivery!Leave
<1>11. ASSUME UNCHANGED <<sent, stream, client, start, seen>>
       PROVE  UNCHANGED Delivery!contractVars
  BY <1>2, <1>11, PhaseKept
<1>12. CASE Broadcast
  <2>1. sent' = sent + 1 /\ UNCHANGED <<stream, client, start, seen>>
    BY <1>12 DEF Broadcast, streamVars, clientVars
  <2>2. Phase' = Phase
    BY <2>1, PhaseKept
  <2>3. Delivery!Publish
    BY <2>1, <2>2 DEF Delivery!Publish
  <2> QED  BY <2>3 DEF Delivery!Next
<1>13. ASSUME NEW l \in Listers, BeginList(l) \/ ListCommands(l) \/ CancelList(l)
       PROVE  UNCHANGED Delivery!contractVars
  BY <1>11, <1>13 DEF BeginList, ListCommands, CancelList, streamVars, clientVars
<1>14. CASE TakeCleanup \/ CleanCommands \/ UNCHANGED vars
  BY <1>11, <1>14 DEF TakeCleanup, CleanCommands, vars, streamVars, clientVars
<1> QED
  BY <1>1, <1>5, <1>6, <1>7, <1>8, <1>9, <1>10, <1>12, <1>13, <1>14
     DEF Next, StreamStep, ReadStep, CleanupStep

\* Every plugin sees every event since its subscription, in order and without
\* a gap, and the stream of one that stays ends only when it fell behind.
THEOREM StreamsImplementContract == Spec => ImplementsContract
BY TypeInit, TypeStep, DeliveryInit, DeliveryStep, ContractInit, ContractStep, PTL
   DEF Spec, ImplementsContract, Delivery!Spec

=============================================================================
