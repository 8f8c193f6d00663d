----------------------- MODULE ChannelDirectoryProofs -----------------------
(***************************************************************************)
(* The safety of the channel directory for any number of connections,      *)
(* queries, channels and events: what a query may be told, and when.       *)
(***************************************************************************)
EXTENDS ChannelDirectory, FairLockProofs, Recursion

-----------------------------------------------------------------------------
(* The locks *)

\* The uses of the locks are distinct from each other.
LEMMA UsesAreUses ==
    /\ Clean \in BackendsUses \cap BackendsWriters
    /\ \A k \in Conns :
          /\ Register(k) \in BackendsUses \cap BackendsWriters /\ Register(k) # Clean
          /\ \A j \in Conns : Register(j) = Register(k) => j = k
          /\ Update(k) \in ChannelsUses(k)
          /\ \A q \in Queries : /\ Register(k) # Look(q) /\ Update(k) # Look(q)
                                /\ Look(q) \in ChannelsUses(k)
    /\ \A q \in Queries :
          /\ Look(q) \in BackendsUses \ BackendsWriters /\ Look(q) # Clean
          /\ \A r \in Queries : Look(r) = Look(q) => r = q
    /\ \A r \in Reads :
          /\ Read(r) \in BackendsUses \ BackendsWriters /\ Read(r) # Clean
          /\ \A k \in Conns : Read(r) # Register(k)
          /\ \A q \in Queries : Read(r) # Look(q)
BY Z3 DEF Clean, Register, Look, Read, Update, BackendsUses, BackendsReaders, BackendsWriters,
          ChannelsUses

\* Use u keeps its place from line l to line m, or moves up.
KeepsPlace(l, m, u) ==
    /\ m[u] \subseteq l[u]
    /\ l[u] # {} => m[u] # {}
    /\ u \in l[u] => u \in m[u]

\* Entering disturbs no other use.
LEMMA EnterMoves ==
    ASSUME NEW Uses, NEW line, IsLine(line, Uses), NEW u \in Uses, line[u] = {}
    PROVE  /\ IsLine(Enter(line, u), Uses)
           /\ Enter(line, u)[u] = Queued(line) \cup {u}
           /\ \A v \in Uses \ {u} : KeepsPlace(line, Enter(line, u), v)
<1>1. line \in [Uses -> SUBSET Uses]
  BY DEF IsLine
<1>2. IsLine(Enter(line, u), Uses)
  BY EnterIsLine
<1>3. \A v \in Uses \ {u} : Enter(line, u)[v] = line[v]
  BY <1>1, EnterLine
<1>4. Enter(line, u)[u] = Queued(line) \cup {u}
  BY <1>1 DEF Enter
<1> QED  BY <1>2, <1>3, <1>4 DEF KeepsPlace

\* ... and leaving lets those behind move up.
LEMMA LeaveMoves ==
    ASSUME NEW Uses, NEW line, IsLine(line, Uses), NEW u \in Uses
    PROVE  /\ IsLine(Leave(line, {u}), Uses)
           /\ Leave(line, {u})[u] = {}
           /\ \A v \in Uses \ {u} : KeepsPlace(line, Leave(line, {u}), v)
<1>1. line \in [Uses -> SUBSET Uses] /\ \A v \in Uses : line[v] # {} => v \in line[v]
  BY DEF IsLine
<1>2. IsLine(Leave(line, {u}), Uses)
  BY LeaveIsLine
<1>3. /\ Leave(line, {u})[u] = {}
      /\ \A v \in Uses \ {u} : Leave(line, {u})[v] = line[v] \ {u}
  BY <1>1, LeaveLine
<1>4. \A v \in Uses \ {u} : KeepsPlace(line, Leave(line, {u}), v)
  BY <1>1, <1>3 DEF KeepsPlace
<1> QED  BY <1>2, <1>3, <1>4

RegisterPlace(k) == backendsLine[Register(k)] # {} <=> task[k] = "registering"

UpdatePlace(k) == channelsLine[k][Update(k)] # {} <=> task[k] = "updating"

\* A query keeps its guard on backends while it is at the channels of one.
QueryPlace(q) ==
    /\ backendsLine[Look(q)] # {} <=> query[q] \in {"backends"} \cup Conns
    /\ query[q] \in Conns => ReadsBackends(q)
    /\ \A k \in Conns : channelsLine[k][Look(q)] # {} <=> query[q] = k

AreLines ==
    /\ IsLine(backendsLine, BackendsUses)
    /\ DOMAIN channelsLine = Conns
    /\ \A k \in Conns : IsLine(channelsLine[k], ChannelsUses(k))

LineInv ==
    /\ AreLines
    /\ \A k \in Conns : RegisterPlace(k) /\ UpdatePlace(k)
    /\ \A q \in Queries : QueryPlace(q)

LEMMA ConnMoves ==
    ASSUME LineInv, NEW k \in Conns, AreLines',
           \A u \in BackendsUses \ {Register(k)} : KeepsPlace(backendsLine, backendsLine', u),
           \A u \in ChannelsUses(k) \ {Update(k)} : KeepsPlace(channelsLine[k], channelsLine'[k], u),
           \A j \in Conns \ {k} : channelsLine'[j] = channelsLine[j] /\ task'[j] = task[j],
           RegisterPlace(k)', UpdatePlace(k)', query' = query
    PROVE  LineInv'
<1>1. \A j \in Conns : RegisterPlace(j)' /\ UpdatePlace(j)'
  BY UsesAreUses DEF LineInv, RegisterPlace, UpdatePlace, KeepsPlace
<1>2. ASSUME NEW q \in Queries PROVE QueryPlace(q)'
  <2>1. KeepsPlace(backendsLine, backendsLine', Look(q)) /\ QueryPlace(q)
    BY UsesAreUses DEF LineInv
  <2>2. \A j \in Conns : channelsLine'[j][Look(q)] = {} <=> channelsLine[j][Look(q)] = {}
    BY UsesAreUses DEF KeepsPlace
  <2> QED  BY <2>1, <2>2 DEF QueryPlace, KeepsPlace, ReadsBackends, HoldsShared
<1> QED  BY <1>1, <1>2 DEF LineInv

LEMMA QueryMoves ==
    ASSUME LineInv, NEW q \in Queries, AreLines',
           \A u \in BackendsUses \ {Look(q)} : KeepsPlace(backendsLine, backendsLine', u),
           \A k \in Conns : \A u \in ChannelsUses(k) \ {Look(q)} :
               KeepsPlace(channelsLine[k], channelsLine'[k], u),
           \A r \in Queries \ {q} : query'[r] = query[r],
           QueryPlace(q)', task' = task
    PROVE  LineInv'
<1>1. \A k \in Conns : RegisterPlace(k)' /\ UpdatePlace(k)'
  BY UsesAreUses DEF LineInv, RegisterPlace, UpdatePlace, KeepsPlace
<1>2. ASSUME NEW r \in Queries \ {q} PROVE QueryPlace(r)'
  <2>1. KeepsPlace(backendsLine, backendsLine', Look(r)) /\ QueryPlace(r)
    BY UsesAreUses DEF LineInv
  <2>2. \A k \in Conns : channelsLine'[k][Look(r)] = {} <=> channelsLine[k][Look(r)] = {}
    BY UsesAreUses DEF KeepsPlace
  <2> QED  BY <2>1, <2>2 DEF QueryPlace, KeepsPlace, ReadsBackends, HoldsShared
<1> QED  BY <1>1, <1>2 DEF LineInv

\* cleanup_task, or a call that issues a request.
LEMMA OthersMove ==
    ASSUME LineInv, AreLines', NEW w \in {Clean} \cup {Read(r) : r \in Reads},
           \A u \in BackendsUses \ {w} : KeepsPlace(backendsLine, backendsLine', u),
           UNCHANGED <<task, query, channelsLine>>
    PROVE  LineInv'
<1> USE UsesAreUses
<1>1. \A k \in Conns : RegisterPlace(k)' /\ UpdatePlace(k)'
  BY DEF LineInv, RegisterPlace, UpdatePlace, KeepsPlace
<1>2. ASSUME NEW q \in Queries PROVE QueryPlace(q)'
  <2>1. KeepsPlace(backendsLine, backendsLine', Look(q)) /\ QueryPlace(q)
    BY DEF LineInv
  <2> QED  BY <2>1 DEF QueryPlace, KeepsPlace, ReadsBackends, HoldsShared
<1> QED  BY <1>1, <1>2 DEF LineInv

LEMMA LineInit == Init => LineInv
<1> SUFFICES ASSUME Init PROVE LineInv
  OBVIOUS
<1>1. AreLines
  BY EmptyLineIsLine DEF Init, AreLines
<1>2. \A k \in Conns : RegisterPlace(k) /\ UpdatePlace(k)
  BY UsesAreUses DEF Init, RegisterPlace, UpdatePlace, EmptyLine
<1>3. \A q \in Queries : QueryPlace(q)
  BY UsesAreUses, DirectoryAssumption DEF Init, QueryPlace, EmptyLine
<1> QED  BY <1>1, <1>2, <1>3 DEF LineInv

\* A handler that is over has dropped its guards.
LEMMA FinishLines ==
    ASSUME TypeOK, LineInv, NEW q \in Queries, NEW res, Finish(q, res)
    PROVE  LineInv'
<1>1. /\ query'[q] = "done" /\ \A r \in Queries \ {q} : query'[r] = query[r]
      /\ backendsLine' = Leave(backendsLine, {Look(q)}) /\ task' = task
      /\ DOMAIN channelsLine' = Conns
      /\ \A k \in Conns : channelsLine'[k] = Leave(channelsLine[k], {Look(q)})
  BY DEF Finish, TypeOK, connVars
<1>2. /\ IsLine(backendsLine', BackendsUses) /\ backendsLine'[Look(q)] = {}
      /\ \A u \in BackendsUses \ {Look(q)} : KeepsPlace(backendsLine, backendsLine', u)
  BY <1>1, LeaveMoves, UsesAreUses DEF LineInv, AreLines
<1>3. ASSUME NEW k \in Conns
      PROVE  /\ IsLine(channelsLine'[k], ChannelsUses(k)) /\ channelsLine'[k][Look(q)] = {}
             /\ \A u \in ChannelsUses(k) \ {Look(q)} : KeepsPlace(channelsLine[k], channelsLine'[k], u)
  <2>1. IsLine(channelsLine[k], ChannelsUses(k)) /\ Look(q) \in ChannelsUses(k)
    BY UsesAreUses DEF LineInv, AreLines
  <2>2. /\ IsLine(Leave(channelsLine[k], {Look(q)}), ChannelsUses(k))
        /\ Leave(channelsLine[k], {Look(q)})[Look(q)] = {}
        /\ \A u \in ChannelsUses(k) \ {Look(q)} :
              KeepsPlace(channelsLine[k], Leave(channelsLine[k], {Look(q)}), u)
    BY <2>1, LeaveMoves
  <2> QED  BY <1>1, <2>2
<1>4. AreLines'
  BY <1>1, <1>2, <1>3 DEF AreLines
<1>5. QueryPlace(q)'
  BY <1>1, <1>2, <1>3, DirectoryAssumption DEF QueryPlace
<1> QED  BY <1>1, <1>2, <1>3, <1>4, <1>5, QueryMoves

LEMMA LineStep == TypeOK /\ LineInv /\ [Next]_vars => LineInv'
<1> SUFFICES ASSUME TypeOK, LineInv, [Next]_vars PROVE LineInv'
  OBVIOUS
<1>1. AreLines /\ IsLine(backendsLine, BackendsUses) /\ DOMAIN channelsLine = Conns
      /\ \A k \in Conns : IsLine(channelsLine[k], ChannelsUses(k))
  BY DEF LineInv, AreLines
<1>2. task = [k \in Conns |-> task[k]] /\ query = [q \in Queries |-> query[q]]
  BY DEF TypeOK
<1>3. ASSUME NEW k \in Conns, Hello(k) PROVE LineInv'
  <2>1. backendsLine[Register(k)] = {}
    BY <1>3 DEF Hello, LineInv, RegisterPlace
  <2>2. /\ IsLine(backendsLine', BackendsUses) /\ backendsLine'[Register(k)] # {}
        /\ \A u \in BackendsUses \ {Register(k)} : KeepsPlace(backendsLine, backendsLine', u)
    <3>1. IsLine(backendsLine, BackendsUses) /\ Register(k) \in BackendsUses
      BY <1>1, UsesAreUses
    <3>2. /\ IsLine(Enter(backendsLine, Register(k)), BackendsUses)
          /\ Enter(backendsLine, Register(k))[Register(k)] = Queued(backendsLine) \cup {Register(k)}
          /\ \A u \in BackendsUses \ {Register(k)} : KeepsPlace(backendsLine, Enter(backendsLine, Register(k)), u)
      BY <3>1, <2>1, EnterMoves
    <3> QED  BY <3>2, <1>3 DEF Hello
  <2>3. /\ task[k] = "hello" /\ task'[k] = "registering"
        /\ \A j \in Conns \ {k} : task'[j] = task[j]
    BY <1>2, <1>3 DEF Hello
  <2>4. channelsLine' = channelsLine /\ query' = query
    BY <1>3 DEF Hello, queryVars
  <2>5. RegisterPlace(k)' /\ UpdatePlace(k)' /\ AreLines'
    BY <1>1, <2>2, <2>3, <2>4 DEF RegisterPlace, UpdatePlace, LineInv, AreLines
  <2>6. \A u : KeepsPlace(channelsLine[k], channelsLine'[k], u)
    BY <2>4 DEF KeepsPlace
  <2> QED  BY <2>2, <2>3, <2>4, <2>5, <2>6, ConnMoves
<1>4. ASSUME NEW k \in Conns, RegisterBackend(k) PROVE LineInv'
  <2>1. backendsLine' = Leave(backendsLine, {Register(k)})
    BY <1>4 DEF RegisterBackend
  <2>2. /\ IsLine(backendsLine', BackendsUses) /\ backendsLine'[Register(k)] = {}
        /\ \A u \in BackendsUses \ {Register(k)} : KeepsPlace(backendsLine, backendsLine', u)
    <3>1. IsLine(backendsLine, BackendsUses) /\ Register(k) \in BackendsUses
      BY <1>1, UsesAreUses
    <3>2. /\ IsLine(Leave(backendsLine, {Register(k)}), BackendsUses)
          /\ Leave(backendsLine, {Register(k)})[Register(k)] = {}
          /\ \A u \in BackendsUses \ {Register(k)} : KeepsPlace(backendsLine, Leave(backendsLine, {Register(k)}), u)
      BY <3>1, LeaveMoves
    <3> QED  BY <3>2, <2>1
  <2>3. /\ task[k] = "registering" /\ task'[k] \in {"running", "refused"}
        /\ \A j \in Conns \ {k} : task'[j] = task[j]
    BY <1>2, <1>4 DEF RegisterBackend
  <2>4. channelsLine' = channelsLine /\ query' = query
    BY <1>4 DEF RegisterBackend, queryVars
  <2>5. RegisterPlace(k)' /\ UpdatePlace(k)' /\ AreLines'
    BY <1>1, <2>2, <2>3, <2>4 DEF RegisterPlace, UpdatePlace, LineInv, AreLines
  <2>6. \A u : KeepsPlace(channelsLine[k], channelsLine'[k], u)
    BY <2>4 DEF KeepsPlace
  <2> QED  BY <2>2, <2>3, <2>4, <2>5, <2>6, ConnMoves
<1>5. ASSUME NEW k \in Conns, task[k] # "updating", task[k] # "registering",
             task' = [task EXCEPT ![k] = "updating"],
             channelsLine' = [channelsLine EXCEPT ![k] = Enter(@, Update(k))],
             UNCHANGED <<backendsLine, query>>
      PROVE  LineInv'
  <2>1. channelsLine[k][Update(k)] = {}
    BY <1>5 DEF LineInv, UpdatePlace
  <2>2. /\ channelsLine'[k] = Enter(channelsLine[k], Update(k)) /\ DOMAIN channelsLine' = Conns
        /\ \A j \in Conns \ {k} : channelsLine'[j] = channelsLine[j] /\ task'[j] = task[j]
        /\ task'[k] = "updating"
    BY <1>1, <1>2, <1>5
  <2>3. /\ IsLine(channelsLine'[k], ChannelsUses(k)) /\ channelsLine'[k][Update(k)] # {}
        /\ \A u \in ChannelsUses(k) \ {Update(k)} : KeepsPlace(channelsLine[k], channelsLine'[k], u)
    <3>1. IsLine(channelsLine[k], ChannelsUses(k)) /\ Update(k) \in ChannelsUses(k)
      BY <1>1, UsesAreUses
    <3>2. /\ IsLine(Enter(channelsLine[k], Update(k)), ChannelsUses(k))
          /\ Enter(channelsLine[k], Update(k))[Update(k)] = Queued(channelsLine[k]) \cup {Update(k)}
          /\ \A u \in ChannelsUses(k) \ {Update(k)} : KeepsPlace(channelsLine[k], Enter(channelsLine[k], Update(k)), u)
      BY <3>1, <2>1, EnterMoves
    <3> QED  BY <3>2, <2>2
  <2>4. AreLines'
    BY <1>1, <1>5, <2>2, <2>3 DEF AreLines
  <2>5. RegisterPlace(k)' /\ UpdatePlace(k)'
    BY <1>5, <2>2, <2>3 DEF RegisterPlace, UpdatePlace, LineInv
  <2>6. \A u : KeepsPlace(backendsLine, backendsLine', u)
    BY <1>5 DEF KeepsPlace
  <2> QED  BY <1>5, <2>2, <2>3, <2>4, <2>5, <2>6, ConnMoves
<1>6. ASSUME NEW k \in Conns, task[k] \in {"running", "occupied"},
             task'[k] \in {"running", "occupied", "answering", "ended"},
             \A j \in Conns \ {k} : task'[j] = task[j],
             UNCHANGED <<backendsLine, channelsLine, query>>
      PROVE  LineInv'
  <2>1. \A u : /\ KeepsPlace(backendsLine, backendsLine', u)
               /\ KeepsPlace(channelsLine[k], channelsLine'[k], u)
    BY <1>6 DEF KeepsPlace
  <2>2. RegisterPlace(k)' /\ UpdatePlace(k)' /\ AreLines'
    BY <1>1, <1>6 DEF RegisterPlace, UpdatePlace, LineInv, AreLines
  <2> QED  BY <1>6, <2>1, <2>2, ConnMoves
<1>7. ASSUME NEW k \in Conns, TakeEvent(k) \/ Answered(k) PROVE LineInv'
  <2>1. UNCHANGED <<backendsLine, query>> /\ task[k] \in {"running", "answering"}
    BY <1>7 DEF TakeEvent, Answered, queryVars
  <2>2. \/ task' = [task EXCEPT ![k] = "answering"] /\ channelsLine' = channelsLine /\ task[k] = "running"
        \/ /\ task' = [task EXCEPT ![k] = "updating"]
           /\ channelsLine' = [channelsLine EXCEPT ![k] = Enter(@, Update(k))]
    BY <1>7 DEF TakeEvent, Answered
  <2> QED  BY <1>2, <1>5, <1>6, <2>1, <2>2
<1>8. ASSUME NEW k \in Conns, UpdateChannels(k) PROVE LineInv'
  <2>1. /\ channelsLine' = [channelsLine EXCEPT ![k] = Leave(@, {Update(k)})]
        /\ task' = [task EXCEPT ![k] = "running"] /\ task[k] = "updating"
        /\ UNCHANGED <<backendsLine, query>>
    BY <1>8 DEF UpdateChannels, queryVars
  <2>2. /\ channelsLine'[k] = Leave(channelsLine[k], {Update(k)}) /\ DOMAIN channelsLine' = Conns
        /\ \A j \in Conns \ {k} : channelsLine'[j] = channelsLine[j] /\ task'[j] = task[j]
        /\ task'[k] = "running"
    BY <1>1, <1>2, <2>1
  <2>3. /\ IsLine(channelsLine'[k], ChannelsUses(k)) /\ channelsLine'[k][Update(k)] = {}
        /\ \A u \in ChannelsUses(k) \ {Update(k)} : KeepsPlace(channelsLine[k], channelsLine'[k], u)
    <3>1. IsLine(channelsLine[k], ChannelsUses(k)) /\ Update(k) \in ChannelsUses(k)
      BY <1>1, UsesAreUses
    <3>2. /\ IsLine(Leave(channelsLine[k], {Update(k)}), ChannelsUses(k))
          /\ Leave(channelsLine[k], {Update(k)})[Update(k)] = {}
          /\ \A u \in ChannelsUses(k) \ {Update(k)} : KeepsPlace(channelsLine[k], Leave(channelsLine[k], {Update(k)}), u)
      BY <3>1, LeaveMoves
    <3> QED  BY <3>2, <2>2
  <2>4. AreLines'
    BY <1>1, <2>1, <2>2, <2>3 DEF AreLines
  <2>5. RegisterPlace(k)' /\ UpdatePlace(k)'
    BY <2>1, <2>2, <2>3 DEF RegisterPlace, UpdatePlace, LineInv
  <2>6. \A u : KeepsPlace(backendsLine, backendsLine', u)
    BY <2>1 DEF KeepsPlace
  <2> QED  BY <2>1, <2>2, <2>3, <2>4, <2>5, <2>6, ConnMoves
<1>9. ASSUME NEW k \in Conns, EndTask(k) PROVE LineInv'
  BY <1>2, <1>6, <1>9 DEF EndTask, queryVars
<1>10. ASSUME NEW k \in Conns, TakeOther(k) \/ OtherDone(k) PROVE LineInv'
  BY <1>2, <1>6, <1>10 DEF TakeOther, OtherDone, queryVars
<1>11. ASSUME NEW q \in Queries, BeginQuery(q) PROVE LineInv'
  <2>1. /\ query[q] = "idle" /\ query'[q] = "backends" /\ UNCHANGED <<task, channelsLine>>
        /\ \A r \in Queries \ {q} : query'[r] = query[r]
        /\ backendsLine' = Enter(backendsLine, Look(q))
    BY <1>2, <1>11 DEF BeginQuery, connVars
  <2>2. backendsLine[Look(q)] = {} /\ \A k \in Conns : channelsLine[k][Look(q)] = {}
    BY <2>1, DirectoryAssumption DEF LineInv, QueryPlace
  <2>3. /\ IsLine(backendsLine', BackendsUses) /\ backendsLine'[Look(q)] # {}
        /\ \A u \in BackendsUses \ {Look(q)} : KeepsPlace(backendsLine, backendsLine', u)
    <3>1. IsLine(backendsLine, BackendsUses) /\ Look(q) \in BackendsUses
      BY <1>1, UsesAreUses
    <3>2. /\ IsLine(Enter(backendsLine, Look(q)), BackendsUses)
          /\ Enter(backendsLine, Look(q))[Look(q)] = Queued(backendsLine) \cup {Look(q)}
          /\ \A u \in BackendsUses \ {Look(q)} : KeepsPlace(backendsLine, Enter(backendsLine, Look(q)), u)
      BY <3>1, <2>2, EnterMoves
    <3> QED  BY <3>2, <2>1
  <2>4. AreLines'
    BY <1>1, <2>1, <2>3 DEF AreLines
  <2>5. QueryPlace(q)'
    BY <2>1, <2>2, <2>3, DirectoryAssumption DEF QueryPlace
  <2>6. \A k \in Conns : \A u : KeepsPlace(channelsLine[k], channelsLine'[k], u)
    BY <2>1 DEF KeepsPlace
  <2> QED  BY <2>1, <2>3, <2>4, <2>5, <2>6, QueryMoves
<1>12. ASSUME NEW q \in Queries, FindBackend(q) PROVE LineInv'
  <2> DEFINE k == backends[target[q]]
  <2>1. /\ query[q] = "backends" /\ k \in Conns /\ ReadsBackends(q)
        /\ UNCHANGED <<task, backendsLine>>
        /\ query' = [query EXCEPT ![q] = k]
        /\ channelsLine' = [channelsLine EXCEPT ![k] = Enter(@, Look(q))]
    BY <1>12 DEF FindBackend, TypeOK, connVars
  <2> HIDE DEF k
  <2>2. PICK j \in Conns : j = k
    BY <2>1
  <2>3. /\ query'[q] = j /\ \A r \in Queries \ {q} : query'[r] = query[r]
        /\ channelsLine'[j] = Enter(channelsLine[j], Look(q)) /\ DOMAIN channelsLine' = Conns
        /\ \A i \in Conns \ {j} : channelsLine'[i] = channelsLine[i]
    BY <1>1, <1>2, <2>1, <2>2
  <2>4. backendsLine[Look(q)] # {} /\ \A i \in Conns : channelsLine[i][Look(q)] = {}
    BY <2>1, DirectoryAssumption DEF LineInv, QueryPlace
  <2>5. /\ IsLine(channelsLine'[j], ChannelsUses(j)) /\ channelsLine'[j][Look(q)] # {}
        /\ \A u \in ChannelsUses(j) \ {Look(q)} : KeepsPlace(channelsLine[j], channelsLine'[j], u)
    <3>1. IsLine(channelsLine[j], ChannelsUses(j)) /\ Look(q) \in ChannelsUses(j)
      BY <1>1, UsesAreUses
    <3>2. /\ IsLine(Enter(channelsLine[j], Look(q)), ChannelsUses(j))
          /\ Enter(channelsLine[j], Look(q))[Look(q)] = Queued(channelsLine[j]) \cup {Look(q)}
          /\ \A u \in ChannelsUses(j) \ {Look(q)} : KeepsPlace(channelsLine[j], Enter(channelsLine[j], Look(q)), u)
      BY <3>1, <2>4, EnterMoves
    <3> QED  BY <3>2, <2>3
  <2>6. AreLines'
    BY <1>1, <2>1, <2>3, <2>5 DEF AreLines
  <2>7. QueryPlace(q)'
    BY <2>1, <2>3, <2>4, <2>5 DEF QueryPlace, ReadsBackends
  <2>8. \A i \in Conns : \A u \in ChannelsUses(i) \ {Look(q)} :
            KeepsPlace(channelsLine[i], channelsLine'[i], u)
    BY <2>3, <2>5 DEF KeepsPlace
  <2>9. \A u : KeepsPlace(backendsLine, backendsLine', u)
    BY <2>1 DEF KeepsPlace
  <2> QED  BY <2>1, <2>3, <2>6, <2>7, <2>8, <2>9, QueryMoves
<1>13. ASSUME NEW q \in Queries,
              ListBackends(q) \/ BackendMissing(q) \/ ReadChannels(q) \/ CancelQuery(q)
       PROVE  LineInv'
  BY <1>13, FinishLines DEF ListBackends, BackendMissing, ReadChannels, CancelQuery
<1>14. CASE TakeCleanup
  <2>1. backendsLine[Clean] = {}
    BY <1>1, <1>14, UsesAreUses DEF TakeCleanup, Queued, IsLine
  <2>2. /\ IsLine(backendsLine', BackendsUses)
        /\ \A u \in BackendsUses \ {Clean} : KeepsPlace(backendsLine, backendsLine', u)
    BY <1>1, <1>14, <2>1, EnterMoves, UsesAreUses DEF TakeCleanup
  <2>3. UNCHANGED <<task, query, channelsLine>>
    BY <1>14 DEF TakeCleanup, connVars, queryVars
  <2>4. AreLines'
    BY <1>1, <2>2, <2>3 DEF AreLines
  <2> QED  BY <2>2, <2>3, <2>4, OthersMove
<1>15. CASE CleanBackend
  <2>1. /\ IsLine(backendsLine', BackendsUses)
        /\ \A u \in BackendsUses \ {Clean} : KeepsPlace(backendsLine, backendsLine', u)
    BY <1>1, <1>15, LeaveMoves, UsesAreUses DEF CleanBackend
  <2>2. UNCHANGED <<task, query, channelsLine>>
    BY <1>15 DEF CleanBackend, connVars, queryVars
  <2>3. AreLines'
    BY <1>1, <2>1, <2>2 DEF AreLines
  <2> QED  BY <2>1, <2>2, <2>3, OthersMove
<1>16. ASSUME NEW r \in Reads, CallReads(r) \/ CallLetsGo(r) PROVE LineInv'
  <2>1. UNCHANGED <<task, query, channelsLine>> /\ Read(r) \in BackendsUses
    BY <1>16, UsesAreUses DEF CallReads, CallLetsGo, connVars, queryVars
  <2>2. /\ IsLine(backendsLine', BackendsUses)
        /\ \A u \in BackendsUses \ {Read(r)} : KeepsPlace(backendsLine, backendsLine', u)
    <3>1. CASE CallReads(r)
      <4>1. backendsLine[Read(r)] = {}
        BY <1>1, <2>1, <3>1 DEF CallReads, Queued, IsLine
      <4> QED  BY <1>1, <2>1, <3>1, <4>1, EnterMoves DEF CallReads
    <3>2. CASE CallLetsGo(r)
      BY <1>1, <2>1, <3>2, LeaveMoves DEF CallLetsGo
    <3> QED  BY <1>16, <3>1, <3>2
  <2>3. AreLines'
    BY <1>1, <2>1, <2>2 DEF AreLines
  <2> QED  BY <2>1, <2>2, <2>3, OthersMove
<1>17. ASSUME UNCHANGED <<task, query, backendsLine, channelsLine>> PROVE LineInv'
  BY <1>17 DEF LineInv, AreLines, RegisterPlace, UpdatePlace, QueryPlace, ReadsBackends
<1>18. ASSUME NEW k \in Conns, BackendSends(k) PROVE LineInv'
  BY <1>17, <1>18 DEF BackendSends, queryVars
<1>19. CASE UNCHANGED vars
  BY <1>17, <1>19 DEF vars, connVars, queryVars
<1> QED
  BY <1>3, <1>4, <1>7, <1>8, <1>9, <1>10, <1>11, <1>12, <1>13, <1>14, <1>15, <1>16,
     <1>18, <1>19 DEF Next, ServerStep, ConnStep, Resumes, QueryStep, CleanupStep

-----------------------------------------------------------------------------
(* Types and counts *)

Views == [Channels -> Infos \cup {NoInfo}]

\* cleanup_task asks for the lock while it serves a message.
CleanerOK == backendsLine[Clean] # {} => cleanups # <<>>

\* A connection has an event in hand while it answers and updates, and has
\* received no more events than its backend has told.
CountOf(k) ==
    /\ hand[k] = NoEvent <=> task[k] \notin {"answering", "updating"}
    /\ hand[k] = NoEvent => Len(inFlight[k]) <= told[k]
    /\ hand[k] # NoEvent => Len(inFlight[k]) + 1 <= told[k]

TypeInv ==
    /\ TypeOK /\ CleanerOK
    /\ answer = [q \in Queries |-> answer[q]]
    /\ \A k \in Conns : CountOf(k)

\* The part of the state that a step of connection k, or of its backend, changes.
LEMMA AppliedIs ==
    ASSUME TypeInv, NEW k \in Conns
    PROVE  /\ Len(inFlight[k]) \in Nat /\ told[k] \in Nat /\ told[k] <= MaxEvents
           /\ Applied(k) \in Nat
           /\ hand[k] = NoEvent => Applied(k) = told[k] - Len(inFlight[k])
           /\ hand[k] # NoEvent => Applied(k) = told[k] - Len(inFlight[k]) - 1
           /\ Applied(k) + (IF task[k] = "updating" THEN 1 ELSE 0) \in 0..MaxEvents
<1>1. inFlight[k] \in Seq(Event) /\ told[k] \in 0..MaxEvents
  BY DEF TypeInv, TypeOK
<1>2. Len(inFlight[k]) \in Nat /\ told[k] \in Nat /\ told[k] <= MaxEvents
  BY <1>1, DirectoryAssumption
<1>3. CountOf(k)
  BY DEF TypeInv
<1>4. CASE hand[k] = NoEvent
  <2>1. Applied(k) = told[k] - Len(inFlight[k]) /\ task[k] # "updating" /\ Len(inFlight[k]) <= told[k]
    BY <1>2, <1>3, <1>4 DEF Applied, CountOf
  <2> QED  BY <1>2, <1>4, <2>1, DirectoryAssumption
<1>5. CASE hand[k] # NoEvent
  <2>1. Applied(k) = told[k] - Len(inFlight[k]) - 1 /\ Len(inFlight[k]) + 1 <= told[k]
    BY <1>2, <1>3, <1>5 DEF Applied, CountOf
  <2> QED  BY <1>2, <1>5, <2>1, DirectoryAssumption
<1> QED  BY <1>2, <1>4, <1>5

\* An event sets one channel of the directory, if anything.
LEMMA UpdatedSets ==
    ASSUME NEW view \in Views, NEW e \in Event
    PROVE  \E c \in Channels, i \in Infos \cup {NoInfo} : Updated(view, e) = [view EXCEPT ![c] = i]
<1>1. e.type \in {"join", "change", "leave"} /\ e.channel \in Channels
  BY DEF Event
<1>2. e.type # "leave" => e.info \in Infos
  BY DEF Event
<1>3. CASE e.type = "join" \/ (e.type = "change" /\ view[e.channel] # NoInfo)
  <2>1. Updated(view, e) = [view EXCEPT ![e.channel] = e.info]
    BY <1>3 DEF Updated
  <2> QED  BY <1>1, <1>2, <1>3, <2>1
<1>4. CASE e.type = "leave"
  <2>1. Updated(view, e) = [view EXCEPT ![e.channel] = NoInfo]
    BY <1>4 DEF Updated
  <2> QED  BY <1>1, <2>1
<1>5. CASE e.type = "change" /\ view[e.channel] = NoInfo
  <2>1. Updated(view, e) = view /\ view = [view EXCEPT ![e.channel] = NoInfo]
    BY <1>5 DEF Updated, Views
  <2> QED  BY <1>1, <2>1
<1> QED  BY <1>1, <1>3, <1>4, <1>5

LEMMA TypeInit == Init => TypeInv
<1> SUFFICES ASSUME Init PROVE TypeInv
  OBVIOUS
<1>1. /\ backendsLine = [u \in BackendsUses |-> {}]
      /\ \A k \in Conns : channelsLine[k] = [u \in ChannelsUses(k) |-> {}]
  BY DEF Init, EmptyLine
<1>2. TypeOK
  BY <1>1, DirectoryAssumption DEF Init, TypeOK, Empty, Queued
<1>3. CleanerOK
  BY <1>1, UsesAreUses DEF CleanerOK
<1>4. \A k \in Conns : CountOf(k)
  BY DEF Init, CountOf
<1> QED  BY <1>2, <1>3, <1>4 DEF Init, TypeInv

\* TypeOK, with what it says of the locks left to LineInv.
LEMMA TypesAndLines ==
    ASSUME LineInv',
           task' \in [Conns -> {"hello", "registering", "running", "occupied", "answering",
                               "updating", "ended", "refused"}],
           ident' \in [Conns -> BackendIds],
           backends' \in [BackendIds -> Conns \cup {NoConn}],
           channels' \in [Conns -> Views],
           hand' \in [Conns -> Event \cup {NoEvent}],
           inFlight' \in [Conns -> Seq(Event)],
           told' \in [Conns -> 0..MaxEvents],
           joined' \in [Conns -> Views],
           query' \in [Queries -> {"idle", "backends", "done"} \cup Conns],
           asks' \in [Queries -> {"backends", "channels"} \cup Channels],
           target' \in [Queries -> BackendIds],
           since' \in [Queries -> [Conns -> 0..MaxEvents]],
           cleanups' \in Seq(BackendIds)
    PROVE  TypeOK'
<1>1. backendsLine' \in [BackendsUses -> SUBSET BackendsUses]
  BY DEF LineInv, AreLines, IsLine
<1>2. \A k \in Conns : channelsLine'[k] \in [ChannelsUses(k) -> SUBSET ChannelsUses(k)]
  BY DEF LineInv, AreLines, IsLine
<1>3. ASSUME NEW q \in Queries, query'[q] \in {"idle", "done"}
      PROVE  /\ Look(q) \notin Queued(backendsLine')
             /\ \A k \in Conns : Look(q) \notin Queued(channelsLine'[k])
  BY <1>3, DirectoryAssumption DEF LineInv, QueryPlace, Queued
<1> QED  BY <1>1, <1>2, <1>3 DEF TypeOK, Views

\* What cleanup_task waits for, while others enter and leave.
LEMMA CleanerKept ==
    ASSUME TypeInv, cleanups' # <<>> \/ cleanups' = cleanups,
           \/ backendsLine' = backendsLine
           \/ \E u \in BackendsUses \ {Clean} :
                 backendsLine' = Enter(backendsLine, u) \/ backendsLine' = Leave(backendsLine, {u})
    PROVE  CleanerOK'
<1>1. backendsLine \in [BackendsUses -> SUBSET BackendsUses]
  BY DEF TypeInv, TypeOK
<1>2. backendsLine[Clean] = {} => backendsLine'[Clean] = {}
  BY <1>1, UsesAreUses DEF Enter, Leave
<1> QED  BY <1>2 DEF TypeInv, CleanerOK

LEMMA FinishTypes ==
    ASSUME TypeInv, LineInv', NEW q \in Queries, NEW res, Finish(q, res)
    PROVE  TypeInv'
<1> USE DEF connVars
<1>1. query' \in [Queries -> {"idle", "backends", "done"} \cup Conns]
  BY DEF Finish, TypeInv, TypeOK
<1>2. TypeOK'
  BY <1>1, TypesAndLines DEF Finish, TypeInv, TypeOK, Views
<1>3. CleanerOK'
  BY CleanerKept, UsesAreUses DEF Finish
<1>4. answer' = [r \in Queries |-> answer'[r]]
  BY DEF Finish, TypeInv
<1> QED  BY <1>2, <1>3, <1>4 DEF TypeInv, CountOf, Finish

LEMMA TypeStep == TypeInv /\ LineInv' /\ [Next]_vars => TypeInv'
<1> SUFFICES ASSUME TypeInv, LineInv', [Next]_vars PROVE TypeInv'
  OBVIOUS
<1> USE DEF connVars, queryVars
<1>1. ASSUME NEW k \in Conns, Hello(k) PROVE TypeInv'
  <2>1. /\ UNCHANGED <<ident, hand, inFlight, told, joined, backends, channels, cleanups, queryVars>>
        /\ task' = [task EXCEPT ![k] = "registering"] /\ task[k] = "hello"
        /\ backendsLine' = Enter(backendsLine, Register(k))
    BY <1>1 DEF Hello
  <2>2. TypeOK'
    BY <2>1, TypesAndLines DEF TypeInv, TypeOK, Views
  <2>3. CleanerOK'
    BY <2>1, CleanerKept, UsesAreUses
  <2>4. \A j \in Conns : CountOf(j)'
    BY <2>1 DEF TypeInv, TypeOK, CountOf
  <2> QED  BY <2>1, <2>2, <2>3, <2>4 DEF TypeInv
<1>2. ASSUME NEW k \in Conns, RegisterBackend(k) PROVE TypeInv'
  <2>1. /\ UNCHANGED <<ident, hand, inFlight, told, joined, channels, cleanups, queryVars>>
        /\ task[k] = "registering"
        /\ task' = [task EXCEPT ![k] = "running"] \/ task' = [task EXCEPT ![k] = "refused"]
        /\ backends' = [backends EXCEPT ![ident[k]] = k] \/ backends' = backends
        /\ backendsLine' = Leave(backendsLine, {Register(k)})
    BY <1>2 DEF RegisterBackend
  <2>2. TypeOK'
    <3>1. task' \in [Conns -> {"hello", "registering", "running", "occupied", "answering",
                               "updating", "ended", "refused"}]
      BY <2>1 DEF TypeInv, TypeOK
    <3>2. backends' \in [BackendIds -> Conns \cup {NoConn}]
      BY <2>1 DEF TypeInv, TypeOK
    <3> QED  BY <2>1, <3>1, <3>2, TypesAndLines DEF TypeInv, TypeOK, Views
  <2>3. CleanerOK'
    BY <2>1, CleanerKept, UsesAreUses
  <2>4. \A j \in Conns : CountOf(j)'
    BY <2>1 DEF TypeInv, TypeOK, CountOf
  <2> QED  BY <2>1, <2>2, <2>3, <2>4 DEF TypeInv
<1>3. ASSUME NEW k \in Conns, BackendSends(k) PROVE TypeInv'
  <2>1. /\ UNCHANGED <<task, ident, hand, backends, backendsLine, channels, cleanups, queryVars>>
        /\ told[k] < MaxEvents /\ told' = [told EXCEPT ![k] = @ + 1]
    BY <1>3 DEF BackendSends
  <2>2. told[k] \in 0..MaxEvents /\ inFlight[k] \in Seq(Event) /\ joined[k] \in Views
    BY DEF TypeInv, TypeOK, Views
  <2>3. told[k] \in Nat /\ told[k] + 1 \in 0..MaxEvents
    BY <2>1, <2>2, DirectoryAssumption
  <2>4. PICK e \in Event :
          /\ inFlight' = [inFlight EXCEPT ![k] = Append(@, e)]
          /\ \E i \in {NoInfo, e.info} : joined' = [joined EXCEPT ![k][e.channel] = i]
          /\ e.type = "leave" => joined' = [joined EXCEPT ![k][e.channel] = NoInfo]
    BY <1>3 DEF BackendSends
  <2>5. e.channel \in Channels /\ (e.type # "leave" => e.info \in Infos)
    BY DEF Event
  <2>6. joined' \in [Conns -> Views]
    <3>1. PICK i \in Infos \cup {NoInfo} : joined' = [joined EXCEPT ![k][e.channel] = i]
      BY <2>4, <2>5
    <3> QED  BY <2>5, <3>1 DEF TypeInv, TypeOK, Views
  <2>7. Append(inFlight[k], e) \in Seq(Event) /\ Len(Append(inFlight[k], e)) = Len(inFlight[k]) + 1
    BY <2>2
  <2>8. inFlight' \in [Conns -> Seq(Event)] /\ inFlight'[k] = Append(inFlight[k], e)
        /\ \A j \in Conns \ {k} : inFlight'[j] = inFlight[j]
    BY <2>4, <2>7 DEF TypeInv, TypeOK
  <2>9. told' \in [Conns -> 0..MaxEvents] /\ told'[k] = told[k] + 1
        /\ \A j \in Conns \ {k} : told'[j] = told[j]
    BY <2>1, <2>3 DEF TypeInv, TypeOK
  <2>10. TypeOK'
    BY <2>1, <2>6, <2>8, <2>9, TypesAndLines DEF TypeInv, TypeOK, Views
  <2>11. CountOf(k)'
    <3>1. Len(inFlight[k]) \in Nat /\ CountOf(k)
      BY <2>2 DEF TypeInv
    <3> QED  BY <2>1, <2>3, <2>7, <2>8, <2>9, <3>1 DEF CountOf
  <2>12. \A j \in Conns \ {k} : CountOf(j)'
    BY <2>1, <2>8, <2>9 DEF TypeInv, CountOf
  <2> QED  BY <2>1, <2>10, <2>11, <2>12 DEF TypeInv, CleanerOK
<1>4. ASSUME NEW k \in Conns, TakeEvent(k) PROVE TypeInv'
  <2>1. /\ UNCHANGED <<ident, told, joined, backends, backendsLine, channels, cleanups, queryVars>>
        /\ inFlight[k] # <<>> /\ task[k] = "running"
        /\ hand' = [hand EXCEPT ![k] = Head(inFlight[k])]
        /\ inFlight' = [inFlight EXCEPT ![k] = Tail(@)]
        /\ task' = [task EXCEPT ![k] = "answering"] \/ task' = [task EXCEPT ![k] = "updating"]
    BY <1>4 DEF TakeEvent
  <2>2. inFlight[k] \in Seq(Event)
    BY DEF TypeInv, TypeOK
  <2>3. /\ Head(inFlight[k]) \in Event /\ Tail(inFlight[k]) \in Seq(Event)
        /\ Len(inFlight[k]) \in Nat /\ Len(Tail(inFlight[k])) + 1 = Len(inFlight[k])
    BY <2>1, <2>2
  <2>4. /\ task' \in [Conns -> {"hello", "registering", "running", "occupied", "answering",
                                "updating", "ended", "refused"}]
        /\ task'[k] \in {"answering", "updating"}
        /\ \A j \in Conns \ {k} : task'[j] = task[j]
    <3>1. PICK x \in {"answering", "updating"} : task' = [task EXCEPT ![k] = x]
      BY <2>1
    <3> QED  BY <3>1 DEF TypeInv, TypeOK
  <2>5. /\ hand' \in [Conns -> Event \cup {NoEvent}] /\ hand'[k] = Head(inFlight[k])
        /\ \A j \in Conns \ {k} : hand'[j] = hand[j]
    BY <2>1, <2>3 DEF TypeInv, TypeOK
  <2>6. /\ inFlight' \in [Conns -> Seq(Event)] /\ inFlight'[k] = Tail(inFlight[k])
        /\ \A j \in Conns \ {k} : inFlight'[j] = inFlight[j]
    BY <2>1, <2>3 DEF TypeInv, TypeOK
  <2>7. TypeOK'
    BY <2>1, <2>4, <2>5, <2>6, TypesAndLines DEF TypeInv, TypeOK, Views
  <2>8. CountOf(k)'
    <3>1. CountOf(k) /\ hand[k] = NoEvent /\ Head(inFlight[k]) # NoEvent
      BY <2>1, <2>3, EventAssumption DEF TypeInv, CountOf
    <3> QED  BY <2>1, <2>3, <2>4, <2>5, <2>6, <3>1 DEF CountOf
  <2>9. \A j \in Conns \ {k} : CountOf(j)'
    BY <2>1, <2>4, <2>5, <2>6 DEF TypeInv, CountOf
  <2> QED  BY <2>1, <2>7, <2>8, <2>9 DEF TypeInv, CleanerOK
<1>5. ASSUME NEW k \in Conns, Answered(k) PROVE TypeInv'
  <2>1. /\ UNCHANGED <<ident, hand, inFlight, told, joined, backends, backendsLine,
                       channels, cleanups, queryVars>>
        /\ task[k] = "answering" /\ task' = [task EXCEPT ![k] = "updating"]
    BY <1>5 DEF Answered
  <2>2. TypeOK'
    BY <2>1, TypesAndLines DEF TypeInv, TypeOK, Views
  <2>3. \A j \in Conns : CountOf(j)'
    BY <2>1 DEF TypeInv, TypeOK, CountOf
  <2> QED  BY <2>1, <2>2, <2>3 DEF TypeInv, CleanerOK
<1>6. ASSUME NEW k \in Conns, UpdateChannels(k) PROVE TypeInv'
  <2>1. /\ UNCHANGED <<ident, inFlight, told, joined, backends, backendsLine, cleanups, queryVars>>
        /\ task[k] = "updating" /\ task' = [task EXCEPT ![k] = "running"]
        /\ channels' = [channels EXCEPT ![k] = Updated(@, hand[k])]
        /\ hand' = [hand EXCEPT ![k] = NoEvent]
    BY <1>6 DEF UpdateChannels
  <2>2. hand[k] \in Event /\ channels[k] \in Views
    BY <2>1 DEF TypeInv, TypeOK, CountOf, Views
  <2>3. Updated(channels[k], hand[k]) \in Views
    BY <2>2, UpdatedSets DEF Views
  <2>4. channels' \in [Conns -> Views]
    BY <2>1, <2>3 DEF TypeInv, TypeOK, Views
  <2>5. TypeOK'
    BY <2>1, <2>4, TypesAndLines DEF TypeInv, TypeOK, Views
  <2>6. \A j \in Conns \ {k} : CountOf(j)'
    BY <2>1 DEF TypeInv, TypeOK, CountOf
  <2>7. CountOf(k)'
    <3>1. CountOf(k) /\ hand[k] # NoEvent /\ Len(inFlight[k]) + 1 <= told[k]
      BY <2>1 DEF TypeInv, CountOf
    <3>2. Len(inFlight[k]) \in Nat /\ told[k] \in Nat
      BY AppliedIs
    <3>3. hand'[k] = NoEvent /\ task'[k] = "running"
      BY <2>1 DEF TypeInv, TypeOK
    <3> QED  BY <2>1, <3>1, <3>2, <3>3 DEF CountOf
  <2> QED  BY <2>1, <2>5, <2>6, <2>7 DEF TypeInv, CleanerOK
<1>7. ASSUME NEW k \in Conns, TakeOther(k) \/ OtherDone(k) PROVE TypeInv'
  <2>1. /\ UNCHANGED <<ident, hand, inFlight, told, joined, backends, backendsLine,
                       channels, cleanups, queryVars>>
        /\ task[k] \in {"running", "occupied"}
        /\ task' = [task EXCEPT ![k] = "running"] \/ task' = [task EXCEPT ![k] = "occupied"]
    BY <1>7 DEF TakeOther, OtherDone
  <2>2. /\ task' \in [Conns -> {"hello", "registering", "running", "occupied", "answering",
                                "updating", "ended", "refused"}]
        /\ task'[k] \in {"running", "occupied"}
        /\ \A j \in Conns \ {k} : task'[j] = task[j]
    <3>1. PICK x \in {"running", "occupied"} : task' = [task EXCEPT ![k] = x]
      BY <2>1
    <3>2. task \in [Conns -> {"hello", "registering", "running", "occupied", "answering",
                              "updating", "ended", "refused"}]
      BY DEF TypeInv, TypeOK
    <3> QED  BY <3>1, <3>2
  <2>3. TypeOK'
    BY <2>1, <2>2, TypesAndLines DEF TypeInv, TypeOK, Views
  <2>4. \A j \in Conns : CountOf(j)'
    BY <2>1, <2>2 DEF TypeInv, CountOf
  <2> QED  BY <2>1, <2>3, <2>4 DEF TypeInv, CleanerOK
<1>8. ASSUME NEW r \in Reads, CallReads(r) \/ CallLetsGo(r) PROVE TypeInv'
  <2>1. /\ UNCHANGED <<connVars, queryVars, backends, channels, cleanups>>
        /\ \/ backendsLine' = Enter(backendsLine, Read(r))
           \/ backendsLine' = Leave(backendsLine, {Read(r)})
    BY <1>8 DEF CallReads, CallLetsGo
  <2>2. TypeOK'
    BY <2>1, TypesAndLines DEF TypeInv, TypeOK, Views
  <2>3. CleanerOK'
    BY <2>1, CleanerKept, UsesAreUses
  <2> QED  BY <2>1, <2>2, <2>3 DEF TypeInv, CountOf
<1>9. ASSUME NEW k \in Conns, EndTask(k) PROVE TypeInv'
  <2>1. /\ UNCHANGED <<ident, hand, inFlight, told, joined, backends, backendsLine, channels, queryVars>>
        /\ task[k] \in {"running", "occupied"} /\ task' = [task EXCEPT ![k] = "ended"]
        /\ cleanups' = Append(cleanups, ident[k])
    BY <1>9 DEF EndTask
  <2>2. cleanups \in Seq(BackendIds) /\ ident[k] \in BackendIds
    BY DEF TypeInv, TypeOK
  <2>3. Append(cleanups, ident[k]) \in Seq(BackendIds) /\ Append(cleanups, ident[k]) # <<>>
    <3>1. Append(cleanups, ident[k]) \in Seq(BackendIds)
      BY <2>2
    <3>2. Len(Append(cleanups, ident[k])) = Len(cleanups) + 1 /\ Len(cleanups) \in Nat
      BY <2>2
    <3> QED  BY <3>1, <3>2
  <2>4. TypeOK'
    BY <2>1, <2>3, TypesAndLines DEF TypeInv, TypeOK, Views
  <2>5. \A j \in Conns : CountOf(j)'
    BY <2>1 DEF TypeInv, TypeOK, CountOf
  <2> QED  BY <2>1, <2>3, <2>4, <2>5 DEF TypeInv, CleanerOK
<1>10. ASSUME NEW q \in Queries, BeginQuery(q) PROVE TypeInv'
  <2>1. /\ UNCHANGED <<asks, target, answer, connVars, backends, channels, cleanups>>
        /\ query' = [query EXCEPT ![q] = "backends"]
        /\ backendsLine' = Enter(backendsLine, Look(q))
        /\ since' = [since EXCEPT ![q] =
             [k \in Conns |-> Applied(k) + (IF task[k] = "updating" THEN 1 ELSE 0)]]
    BY <1>10 DEF BeginQuery
  <2>2. [k \in Conns |-> Applied(k) + (IF task[k] = "updating" THEN 1 ELSE 0)] \in [Conns -> 0..MaxEvents]
    BY AppliedIs
  <2>3. since' \in [Queries -> [Conns -> 0..MaxEvents]]
    BY <2>1, <2>2 DEF TypeInv, TypeOK
  <2>4. TypeOK'
    BY <2>1, <2>3, TypesAndLines DEF TypeInv, TypeOK, Views
  <2>5. CleanerOK'
    BY <2>1, CleanerKept, UsesAreUses
  <2> QED  BY <2>1, <2>4, <2>5 DEF TypeInv, CountOf
<1>11. ASSUME NEW q \in Queries, FindBackend(q) PROVE TypeInv'
  <2>1. /\ UNCHANGED <<asks, target, answer, since, connVars, backends, backendsLine, channels, cleanups>>
        /\ query' = [query EXCEPT ![q] = backends[target[q]]]
        /\ backends[target[q]] # NoConn
    BY <1>11 DEF FindBackend
  <2>2. backends[target[q]] \in Conns
    BY <2>1 DEF TypeInv, TypeOK
  <2>3. TypeOK'
    BY <2>1, <2>2, TypesAndLines DEF TypeInv, TypeOK, Views
  <2> QED  BY <2>1, <2>3 DEF TypeInv, CountOf, CleanerOK
<1>12. ASSUME NEW q \in Queries,
              ListBackends(q) \/ BackendMissing(q) \/ ReadChannels(q) \/ CancelQuery(q)
       PROVE  TypeInv'
  BY <1>12, FinishTypes DEF ListBackends, BackendMissing, ReadChannels, CancelQuery
<1>13. CASE TakeCleanup
  <2>1. UNCHANGED <<connVars, queryVars, backends, channels, cleanups>> /\ cleanups # <<>>
    BY <1>13 DEF TakeCleanup
  <2>2. TypeOK'
    BY <2>1, TypesAndLines DEF TypeInv, TypeOK, Views
  <2> QED  BY <2>1, <2>2 DEF TypeInv, CountOf, CleanerOK
<1>14. CASE CleanBackend
  <2>1. /\ UNCHANGED <<connVars, queryVars, channels>>
        /\ backendsLine' = Leave(backendsLine, {Clean}) /\ cleanups' = Tail(cleanups)
        /\ backends' = [backends EXCEPT ![Head(cleanups)] = NoConn]
    BY <1>14 DEF CleanBackend
  <2>2. cleanups # <<>> /\ cleanups \in Seq(BackendIds)
    BY <1>14 DEF CleanBackend, HoldsAlone, TypeInv, TypeOK, CleanerOK
  <2>3. Tail(cleanups) \in Seq(BackendIds)
    BY <2>2
  <2>4. TypeOK'
    BY <2>1, <2>3, TypesAndLines DEF TypeInv, TypeOK, Views
  <2>5. backendsLine'[Clean] = {}
    BY <2>1, UsesAreUses DEF Leave, TypeInv, TypeOK
  <2> QED  BY <2>1, <2>4, <2>5 DEF TypeInv, CountOf, CleanerOK
<1>15. CASE UNCHANGED vars
  <2>1. UNCHANGED <<connVars, queryVars, backends, backendsLine, channels, cleanups>>
    BY <1>15 DEF vars
  <2>2. TypeOK'
    BY <2>1, TypesAndLines DEF TypeInv, TypeOK, Views
  <2> QED  BY <2>1, <2>2 DEF TypeInv, CountOf, CleanerOK
<1> QED
  BY <1>1, <1>2, <1>3, <1>4, <1>5, <1>6, <1>7, <1>8, <1>9, <1>10, <1>11, <1>12, <1>13,
     <1>14, <1>15 DEF Next, ServerStep, ConnStep, Resumes, QueryStep, CleanupStep

\* The variables keep their types, and a query that is over holds no guard.
THEOREM TypeCorrect == Spec => []TypeOK
<1>1. TypeInv => TypeOK
  BY DEF TypeInv
<1>2. TypeInv /\ LineInv /\ [Next]_vars => (TypeInv /\ LineInv)'
  BY <1>1, LineStep, TypeStep
<1> QED  BY <1>1, <1>2, TypeInit, LineInit, PTL DEF Spec

-----------------------------------------------------------------------------
(* Freshness *)

\* Query q either sees what had to be applied when it began, or the one event
\* that it misses is being applied and is in front of it.
FreshOf(q, k) ==
    query[q] \in {"backends"} \cup Conns =>
        \/ since[q][k] <= Applied(k)
        \/ /\ since[q][k] <= Applied(k) + 1 /\ task[k] = "updating"
           /\ query[q] = k => Update(k) \in channelsLine[k][Look(q)]

FreshInv == \A q \in Queries, k \in Conns : FreshOf(q, k)

\* Applied(k) only depends on connection k.
LEMMA AppliedKept ==
    ASSUME NEW k \in Conns,
           told'[k] = told[k], inFlight'[k] = inFlight[k], hand'[k] = hand[k]
    PROVE  Applied(k)' = Applied(k)
BY DEF Applied

\* A step of connection k that applies no event, while its lock is not asked for.
LEMMA FreshConn ==
    ASSUME TypeInv, FreshInv, NEW k \in Conns, UNCHANGED <<query, since>>,
           Applied(k)' = Applied(k),
           task[k] # "updating" \/ (task'[k] = task[k] /\ channelsLine'[k] = channelsLine[k]),
           \A j \in Conns \ {k} : /\ told'[j] = told[j] /\ inFlight'[j] = inFlight[j]
                                  /\ hand'[j] = hand[j] /\ task'[j] = task[j]
                                  /\ channelsLine'[j] = channelsLine[j]
    PROVE  FreshInv'
<1> SUFFICES ASSUME NEW q \in Queries, NEW j \in Conns PROVE FreshOf(q, j)'
  BY DEF FreshInv
<1>1. FreshOf(q, j)
  BY DEF FreshInv
<1>2. Applied(j)' = Applied(j)
  BY AppliedKept
<1>3. CASE j = k
  BY <1>1, <1>2, <1>3 DEF FreshOf
<1>4. CASE j # k
  BY <1>1, <1>2, <1>4 DEF FreshOf
<1> QED  BY <1>3, <1>4

\* A step of query q: the others keep their places.
LEMMA FreshQuery ==
    ASSUME FreshInv, NEW q \in Queries, UNCHANGED <<told, inFlight, hand, task>>,
           \A r \in Queries \ {q} :
              /\ query'[r] = query[r] /\ since'[r] = since[r]
              /\ \A k \in Conns : Update(k) \in channelsLine[k][Look(r)] =>
                                  Update(k) \in channelsLine'[k][Look(r)],
           \A k \in Conns : FreshOf(q, k)'
    PROVE  FreshInv'
<1> SUFFICES ASSUME NEW r \in Queries \ {q}, NEW k \in Conns PROVE FreshOf(r, k)'
  BY DEF FreshInv
<1>1. FreshOf(r, k) /\ Applied(k)' = Applied(k)
  BY AppliedKept DEF FreshInv
<1> QED  BY <1>1 DEF FreshOf

LEMMA FreshFinish ==
    ASSUME TypeInv, LineInv, FreshInv, NEW q \in Queries, NEW res, Finish(q, res)
    PROVE  FreshInv'
<1>1. /\ UNCHANGED <<told, inFlight, hand, task, since>> /\ query' = [query EXCEPT ![q] = "done"]
      /\ channelsLine' = [k \in Conns |-> Leave(channelsLine[k], {Look(q)})]
  BY DEF Finish, connVars
<1>2. query'[q] = "done" /\ \A r \in Queries \ {q} : query'[r] = query[r]
  BY <1>1 DEF TypeInv, TypeOK
<1>3. ASSUME NEW r \in Queries \ {q}, NEW k \in Conns, Update(k) \in channelsLine[k][Look(r)]
      PROVE  Update(k) \in channelsLine'[k][Look(r)]
  <2>1. /\ channelsLine[k] \in [ChannelsUses(k) -> SUBSET ChannelsUses(k)]
        /\ channelsLine'[k] = Leave(channelsLine[k], {Look(q)})
    BY <1>1 DEF TypeInv, TypeOK
  <2>2. channelsLine'[k][Look(r)] = channelsLine[k][Look(r)] \ {Look(q)}
    BY <2>1, UsesAreUses DEF Leave
  <2> QED  BY <1>3, <2>2, UsesAreUses
<1>4. \A k \in Conns : FreshOf(q, k)'
  BY <1>2, DirectoryAssumption DEF FreshOf
<1> QED  BY <1>1, <1>2, <1>3, <1>4, FreshQuery

LEMMA FreshInit == Init => FreshInv
BY DirectoryAssumption DEF Init, FreshInv, FreshOf

LEMMA FreshStep == TypeInv /\ LineInv /\ FreshInv /\ TypeInv' /\ [Next]_vars => FreshInv'
<1> SUFFICES ASSUME TypeInv, LineInv, FreshInv, TypeInv', [Next]_vars PROVE FreshInv'
  OBVIOUS
<1> USE DEF connVars, queryVars
<1>1. ASSUME NEW k \in Conns,
             Hello(k) \/ RegisterBackend(k) \/ TakeOther(k) \/ OtherDone(k) \/ EndTask(k)
      PROVE  FreshInv'
  <2>1. /\ UNCHANGED <<query, since, told, inFlight, hand, channelsLine>>
        /\ task[k] # "updating" /\ \A j \in Conns \ {k} : task'[j] = task[j]
    BY <1>1 DEF Hello, RegisterBackend, TakeOther, OtherDone, EndTask, TypeInv, TypeOK
  <2>2. Applied(k)' = Applied(k)
    BY <2>1, AppliedKept
  <2> QED  BY <2>1, <2>2, FreshConn
<1>2. ASSUME NEW k \in Conns, BackendSends(k) PROVE FreshInv'
  <2>1. /\ UNCHANGED <<query, since, hand, channelsLine, task>>
        /\ told' = [told EXCEPT ![k] = @ + 1]
        /\ \E e \in Event : inFlight' = [inFlight EXCEPT ![k] = Append(@, e)]
    BY <1>2 DEF BackendSends
  <2>2. PICK e \in Event : inFlight' = [inFlight EXCEPT ![k] = Append(@, e)]
    BY <2>1
  <2>3. /\ told'[k] = told[k] + 1 /\ inFlight'[k] = Append(inFlight[k], e) /\ hand'[k] = hand[k]
        /\ \A j \in Conns \ {k} : told'[j] = told[j] /\ inFlight'[j] = inFlight[j]
    BY <2>1, <2>2 DEF TypeInv, TypeOK
  <2>4. Len(inFlight'[k]) = Len(inFlight[k]) + 1
    BY <2>3 DEF TypeInv, TypeOK
  <2>5. Applied(k)' = Applied(k)
    <3>1. Len(inFlight[k]) \in Nat /\ told[k] \in Nat
      BY AppliedIs
    <3>2. \A t, n \in Nat : (t + 1) - (n + 1) = t - n
      OBVIOUS
    <3>3. told'[k] - Len(inFlight'[k]) = told[k] - Len(inFlight[k])
      <4>1. told'[k] - Len(inFlight'[k]) = (told[k] + 1) - (Len(inFlight[k]) + 1)
        BY <2>3, <2>4
      <4> QED  BY <3>1, <3>2, <4>1
    <3>4. CASE hand[k] = NoEvent
      BY <2>3, <3>3, <3>4 DEF Applied
    <3>5. CASE hand[k] # NoEvent
      BY <2>3, <3>3, <3>5 DEF Applied
    <3> QED  BY <3>4, <3>5
  <2> QED  BY <2>1, <2>3, <2>5, FreshConn
<1>3. ASSUME NEW k \in Conns, TakeEvent(k) PROVE FreshInv'
  <2>1. /\ UNCHANGED <<query, since, told>> /\ task[k] = "running" /\ inFlight[k] # <<>>
        /\ \A j \in Conns \ {k} : /\ inFlight'[j] = inFlight[j] /\ hand'[j] = hand[j]
                                  /\ task'[j] = task[j] /\ channelsLine'[j] = channelsLine[j]
    BY <1>3 DEF TakeEvent, TypeInv, TypeOK, LineInv, AreLines
  <2>2. inFlight'[k] = Tail(inFlight[k]) /\ task'[k] \in {"answering", "updating"}
    BY <1>3 DEF TakeEvent, TypeInv, TypeOK
  <2>3. hand[k] = NoEvent /\ hand'[k] # NoEvent
    BY <2>1, <2>2 DEF TypeInv, CountOf
  <2>4. Len(inFlight[k]) \in Nat /\ Len(inFlight'[k]) = Len(inFlight[k]) - 1 /\ told[k] \in Nat
    BY <2>1, <2>2, AppliedIs DEF TypeInv, TypeOK
  <2>5. Applied(k)' = Applied(k)
    BY <2>1, <2>3, <2>4 DEF Applied
  <2> QED  BY <2>1, <2>5, FreshConn
<1>4. ASSUME NEW k \in Conns, Answered(k) PROVE FreshInv'
  <2>1. /\ UNCHANGED <<query, since, told, inFlight, hand>> /\ task[k] = "answering"
        /\ \A j \in Conns \ {k} : task'[j] = task[j] /\ channelsLine'[j] = channelsLine[j]
    BY <1>4 DEF Answered, TypeInv, TypeOK, LineInv, AreLines
  <2>2. Applied(k)' = Applied(k)
    BY <2>1, AppliedKept
  <2> QED  BY <2>1, <2>2, FreshConn
<1>5. ASSUME NEW k \in Conns, UpdateChannels(k) PROVE FreshInv'
  <2>1. /\ UNCHANGED <<query, since, told, inFlight>> /\ task[k] = "updating" /\ hand'[k] = NoEvent
        /\ \A j \in Conns \ {k} : /\ hand'[j] = hand[j] /\ task'[j] = task[j]
                                  /\ channelsLine'[j] = channelsLine[j]
    BY <1>5 DEF UpdateChannels, TypeInv, TypeOK, LineInv, AreLines
  <2>2. hand[k] # NoEvent
    BY <2>1 DEF TypeInv, CountOf
  <2>3. Applied(k)' = Applied(k) + 1 /\ Applied(k) \in Nat
    <3>1. Len(inFlight[k]) \in Nat /\ told[k] \in Nat /\ Applied(k) \in Nat
      BY AppliedIs
    <3> QED  BY <2>1, <2>2, <3>1 DEF Applied
  <2> SUFFICES ASSUME NEW q \in Queries, NEW j \in Conns PROVE FreshOf(q, j)'
    BY DEF FreshInv
  <2>4. FreshOf(q, j) /\ since[q][j] \in Nat
    BY DirectoryAssumption DEF FreshInv, TypeInv, TypeOK
  <2>5. CASE j = k
    BY <2>1, <2>3, <2>4, <2>5 DEF FreshOf
  <2>6. CASE j # k
    <3>1. Applied(j)' = Applied(j)
      BY <2>1, <2>6, AppliedKept
    <3> QED  BY <2>1, <2>4, <2>6, <3>1 DEF FreshOf
  <2> QED  BY <2>5, <2>6
<1>6. ASSUME NEW q \in Queries, BeginQuery(q) PROVE FreshInv'
  <2>1. /\ UNCHANGED <<told, inFlight, hand, task, channelsLine>>
        /\ query'[q] = "backends"
        /\ \A k \in Conns : since'[q][k] = Applied(k) + (IF task[k] = "updating" THEN 1 ELSE 0)
        /\ \A r \in Queries \ {q} : query'[r] = query[r] /\ since'[r] = since[r]
    BY <1>6 DEF BeginQuery, TypeInv, TypeOK
  <2>2. ASSUME NEW k \in Conns PROVE FreshOf(q, k)'
    <3>1. Applied(k)' = Applied(k) /\ Applied(k) \in Nat
      BY <2>1, AppliedKept, AppliedIs
    <3>2. query'[q] # k
      BY <2>1, DirectoryAssumption
    <3> QED  BY <2>1, <3>1, <3>2 DEF FreshOf
  <2> QED  BY <2>1, <2>2, FreshQuery
<1>7. ASSUME NEW q \in Queries, FindBackend(q) PROVE FreshInv'
  <2>1. PICK j \in Conns : j = backends[target[q]]
    BY <1>7 DEF FindBackend, TypeInv, TypeOK
  <2>2. /\ UNCHANGED <<told, inFlight, hand, task, since>> /\ query[q] = "backends"
        /\ query'[q] = j /\ \A r \in Queries \ {q} : query'[r] = query[r]
        /\ channelsLine'[j] = Enter(channelsLine[j], Look(q))
        /\ \A k \in Conns \ {j} : channelsLine'[k] = channelsLine[k]
    BY <1>7, <2>1 DEF FindBackend, TypeInv, TypeOK, LineInv, AreLines
  <2>3. channelsLine[j] \in [ChannelsUses(j) -> SUBSET ChannelsUses(j)]
    BY DEF TypeInv, TypeOK
  <2>4. ASSUME NEW r \in Queries \ {q}, NEW k \in Conns
        PROVE  channelsLine'[k][Look(r)] = channelsLine[k][Look(r)]
    <3>1. Look(r) \in ChannelsUses(j) \ {Look(q)} /\ Look(q) \in ChannelsUses(j)
      BY UsesAreUses
    <3>2. Enter(channelsLine[j], Look(q))[Look(r)] = channelsLine[j][Look(r)]
      BY <2>3, <3>1 DEF Enter
    <3> QED  BY <2>2, <3>2
  <2>5. ASSUME NEW k \in Conns PROVE FreshOf(q, k)'
    <3>1. Applied(k)' = Applied(k) /\ FreshOf(q, k)
      BY <2>2, AppliedKept DEF FreshInv
    <3>2. CASE k # j
      BY <2>2, <3>1, <3>2 DEF FreshOf
    <3>3. ASSUME k = j, task[k] = "updating" PROVE Update(k) \in channelsLine'[k][Look(q)]
      <4>1. Update(j) \in ChannelsUses(j) /\ Look(q) \in ChannelsUses(j)
        BY UsesAreUses
      <4>2. Update(j) \in channelsLine[j][Update(j)]
        BY <3>3, <4>1 DEF LineInv, UpdatePlace, AreLines, IsLine
      <4>3. Update(j) \in Queued(channelsLine[j])
        BY <2>3, <4>1, <4>2 DEF Queued
      <4>4. Enter(channelsLine[j], Look(q))[Look(q)] = Queued(channelsLine[j]) \cup {Look(q)}
        BY <2>3, <4>1 DEF Enter
      <4> QED  BY <2>2, <3>3, <4>3, <4>4
    <3> QED  BY <2>2, <3>1, <3>2, <3>3 DEF FreshOf
  <2> QED  BY <2>2, <2>4, <2>5, FreshQuery
<1>8. ASSUME NEW q \in Queries,
             ListBackends(q) \/ BackendMissing(q) \/ ReadChannels(q) \/ CancelQuery(q)
      PROVE  FreshInv'
  BY <1>8, FreshFinish DEF ListBackends, BackendMissing, ReadChannels, CancelQuery
<1>9. ASSUME UNCHANGED <<query, since, told, inFlight, hand, task, channelsLine>> PROVE FreshInv'
  BY <1>9 DEF FreshInv, FreshOf, Applied
<1>10. CASE TakeCleanup \/ CleanBackend \/ UNCHANGED vars
  BY <1>9, <1>10 DEF TakeCleanup, CleanBackend, vars
<1>11. ASSUME NEW r \in Reads, CallReads(r) \/ CallLetsGo(r) PROVE FreshInv'
  BY <1>9, <1>11 DEF CallReads, CallLetsGo
<1> QED
  BY <1>1, <1>2, <1>3, <1>4, <1>5, <1>6, <1>7, <1>8, <1>10, <1>11
     DEF Next, ServerStep, ConnStep, Resumes, QueryStep, CleanupStep

\* A query never misses an event whose update had asked for the lock when the
\* query began.
THEOREM ReadsAreFresh == Spec => []FreshRead
<1>1. TypeInv /\ FreshInv => FreshRead
  <2> SUFFICES ASSUME TypeInv, FreshInv, NEW q \in Queries, NEW k \in Conns,
                      query[q] = k, ReadsChannels(q, k)
               PROVE  Applied(k) >= since[q][k]
    BY DEF FreshRead
  <2>1. FreshOf(q, k) /\ Update(k) \notin channelsLine[k][Look(q)]
    BY DEF FreshInv, ReadsChannels, HoldsShared
  <2>2. Applied(k) \in Nat /\ since[q][k] \in Nat
    BY AppliedIs, DirectoryAssumption DEF TypeInv, TypeOK
  <2> QED  BY <2>1, <2>2 DEF FreshOf
<1>2. TypeInv => TypeOK
  BY DEF TypeInv
<1>3. TypeInv /\ LineInv /\ FreshInv /\ [Next]_vars => (TypeInv /\ LineInv /\ FreshInv)'
  BY <1>2, LineStep, TypeStep, FreshStep
<1> QED  BY <1>1, <1>3, TypeInit, LineInit, FreshInit, PTL DEF Spec

-----------------------------------------------------------------------------
(* The contract *)

\* What is registered for an id has announced it, and a connection that is not
\* registered yet has an empty directory.
OwnerOf(b) ==
    backends[b] # NoConn =>
        /\ ident[backends[b]] = b
        /\ task[backends[b]] \notin {"hello", "registering", "refused"}

BlankOf(k) == task[k] \in {"hello", "registering", "refused"} => channels[k] = Empty

\* What a query has found stays registered until it has read it.
FoundOf(q) == query[q] \in Conns => backends[target[q]] = query[q] /\ asks[q] # "backends"

FoundInv ==
    /\ \A b \in BackendIds : OwnerOf(b)
    /\ \A k \in Conns : BlankOf(k)
    /\ \A q \in Queries : FoundOf(q)

\* While backends has a writer no query is at the channels of one.
LEMMA WriterAlone ==
    ASSUME LineInv, NEW w \in BackendsUses \cap BackendsWriters, HoldsAlone(backendsLine, w)
    PROVE  \A q \in Queries : query[q] \notin Conns
<1> SUFFICES ASSUME NEW q \in Queries, query[q] \in Conns PROVE FALSE
  OBVIOUS
<1>1. HoldsShared(backendsLine, Look(q), BackendsWriters)
  BY DEF LineInv, QueryPlace, ReadsBackends
<1>2. IsLine(backendsLine, BackendsUses)
  BY DEF LineInv, AreLines
<1>3. Look(q) \in BackendsUses \ BackendsWriters
  BY UsesAreUses
<1> QED  BY <1>1, <1>2, <1>3, SharedExcludesAlone

LEMMA FoundInit == Init => FoundInv
BY DirectoryAssumption DEF Init, FoundInv, OwnerOf, BlankOf, FoundOf

LEMMA FoundStep == TypeInv /\ LineInv /\ FoundInv /\ [Next]_vars => FoundInv'
<1> SUFFICES ASSUME TypeInv, LineInv, FoundInv, [Next]_vars PROVE FoundInv'
  OBVIOUS
<1> USE DEF connVars, queryVars
<1>1. ASSUME NEW k \in Conns, RegisterBackend(k) PROVE FoundInv'
  <2>1. /\ task[k] = "registering" /\ HoldsAlone(backendsLine, Register(k))
        /\ UNCHANGED <<ident, channels, query, target, asks>> /\ ident[k] \in BackendIds
        /\ \A j \in Conns \ {k} : task'[j] = task[j]
    BY <1>1 DEF RegisterBackend, TypeInv, TypeOK
  <2>2. \A q \in Queries : query[q] \notin Conns
    BY <2>1, WriterAlone, UsesAreUses
  <2>3. \/ /\ task'[k] = "running" /\ backends'[ident[k]] = k
           /\ \A b \in BackendIds \ {ident[k]} : backends'[b] = backends[b]
        \/ task'[k] = "refused" /\ backends' = backends
    BY <1>1 DEF RegisterBackend, TypeInv, TypeOK
  <2>4. \A b \in BackendIds : OwnerOf(b) /\ backends[b] \in Conns \cup {NoConn}
    BY DEF FoundInv, TypeInv, TypeOK
  <2>5. \A b \in BackendIds : OwnerOf(b)'
    BY <2>1, <2>3, <2>4 DEF OwnerOf
  <2>6. \A j \in Conns : BlankOf(j)'
    BY <2>1, <2>3 DEF FoundInv, BlankOf
  <2>7. \A q \in Queries : FoundOf(q)'
    BY <2>1, <2>2 DEF FoundOf
  <2> QED  BY <2>5, <2>6, <2>7 DEF FoundInv
<1>2. ASSUME NEW k \in Conns, UNCHANGED <<ident, backends, query, target, asks>>,
             \A j \in Conns \ {k} : task'[j] = task[j] /\ channels'[j] = channels[j],
             \/ /\ task[k] = "hello" /\ task'[k] = "registering" /\ channels' = channels
             \/ /\ task[k] \notin {"hello", "registering", "refused"}
                /\ task'[k] \notin {"hello", "registering", "refused"}
      PROVE  FoundInv'
  <2>1. \A b \in BackendIds : OwnerOf(b) /\ backends[b] \in Conns \cup {NoConn}
    BY DEF FoundInv, TypeInv, TypeOK
  <2>2. \A b \in BackendIds : OwnerOf(b)'
    BY <1>2, <2>1 DEF OwnerOf
  <2>3. \A j \in Conns : BlankOf(j)'
    BY <1>2 DEF FoundInv, BlankOf
  <2> QED  BY <1>2, <2>2, <2>3 DEF FoundInv, FoundOf
<1>3. ASSUME NEW k \in Conns, Hello(k) PROVE FoundInv'
  BY <1>2, <1>3 DEF Hello, TypeInv, TypeOK
<1>4. ASSUME NEW k \in Conns, TakeEvent(k) PROVE FoundInv'
  <2>1. /\ UNCHANGED <<ident, backends, channels, query, target, asks>> /\ task[k] = "running"
        /\ task'[k] \in {"answering", "updating"}
        /\ \A j \in Conns \ {k} : task'[j] = task[j]
    BY <1>4 DEF TakeEvent, TypeInv, TypeOK
  <2> QED  BY <1>2, <2>1
<1>5. ASSUME NEW k \in Conns, Answered(k) \/ TakeOther(k) \/ OtherDone(k) \/ EndTask(k)
      PROVE  FoundInv'
  <2>1. /\ UNCHANGED <<ident, backends, channels, query, target, asks>>
        /\ task[k] \in {"answering", "running", "occupied"}
        /\ task'[k] \in {"updating", "running", "occupied", "ended"}
        /\ \A j \in Conns \ {k} : task'[j] = task[j]
    BY <1>5 DEF Answered, TakeOther, OtherDone, EndTask, TypeInv, TypeOK
  <2> QED  BY <1>2, <2>1
<1>6. ASSUME NEW k \in Conns, UpdateChannels(k) PROVE FoundInv'
  <2>1. /\ UNCHANGED <<ident, backends, query, target, asks>>
        /\ task[k] = "updating" /\ task'[k] = "running"
        /\ \A j \in Conns \ {k} : task'[j] = task[j] /\ channels'[j] = channels[j]
    BY <1>6 DEF UpdateChannels, TypeInv, TypeOK
  <2> QED  BY <1>2, <2>1
<1>7. ASSUME UNCHANGED <<task, ident, backends, channels, target, asks>>,
             \A q \in Queries : query'[q] = query[q] \/ query'[q] \notin Conns
      PROVE  FoundInv'
  BY <1>7 DEF FoundInv, OwnerOf, BlankOf, FoundOf
<1>8. ASSUME NEW k \in Conns, BackendSends(k) PROVE FoundInv'
  BY <1>7, <1>8 DEF BackendSends
<1>9. ASSUME NEW q \in Queries, BeginQuery(q) PROVE FoundInv'
  <2>1. UNCHANGED <<connVars, backends, channels, target, asks>> /\ query' = [query EXCEPT ![q] = "backends"]
    BY <1>9 DEF BeginQuery
  <2>2. \A r \in Queries : query'[r] = query[r] \/ query'[r] \notin Conns
    BY <2>1, DirectoryAssumption DEF TypeInv, TypeOK
  <2> QED  BY <1>7, <2>1, <2>2
<1>10. ASSUME NEW q \in Queries, NEW res, Finish(q, res) PROVE FoundInv'
  <2>1. UNCHANGED <<connVars, backends, channels, target, asks>> /\ query' = [query EXCEPT ![q] = "done"]
    BY <1>10 DEF Finish
  <2>2. \A r \in Queries : query'[r] = query[r] \/ query'[r] \notin Conns
    BY <2>1, DirectoryAssumption DEF TypeInv, TypeOK
  <2> QED  BY <1>7, <2>1, <2>2
<1>11. ASSUME NEW q \in Queries,
              ListBackends(q) \/ BackendMissing(q) \/ ReadChannels(q) \/ CancelQuery(q)
       PROVE  FoundInv'
  BY <1>10, <1>11 DEF ListBackends, BackendMissing, ReadChannels, CancelQuery
<1>12. ASSUME NEW q \in Queries, FindBackend(q) PROVE FoundInv'
  <2>1. /\ UNCHANGED <<connVars, backends, channels, target, asks>> /\ asks[q] # "backends"
        /\ query'[q] = backends[target[q]] /\ \A r \in Queries \ {q} : query'[r] = query[r]
    BY <1>12 DEF FindBackend, TypeInv, TypeOK
  <2>2. \A r \in Queries : FoundOf(r)'
    BY <2>1 DEF FoundInv, FoundOf
  <2> QED  BY <2>1, <2>2 DEF FoundInv, OwnerOf, BlankOf
<1>13. CASE CleanBackend
  <2>1. /\ HoldsAlone(backendsLine, Clean) /\ UNCHANGED <<connVars, queryVars, channels>>
        /\ \A b \in BackendIds : backends'[b] \in {backends[b], NoConn}
    BY <1>13 DEF CleanBackend, TypeInv, TypeOK
  <2>2. \A q \in Queries : query[q] \notin Conns
    BY <2>1, WriterAlone, UsesAreUses
  <2> QED  BY <2>1, <2>2 DEF FoundInv, OwnerOf, BlankOf, FoundOf
<1>14. CASE TakeCleanup \/ UNCHANGED vars
  BY <1>7, <1>14 DEF TakeCleanup, vars
<1>15. ASSUME NEW r \in Reads, CallReads(r) \/ CallLetsGo(r) PROVE FoundInv'
  BY <1>7, <1>15 DEF CallReads, CallLetsGo
<1> QED
  BY <1>1, <1>3, <1>4, <1>5, <1>6, <1>8, <1>9, <1>11, <1>12, <1>13, <1>14, <1>15
     DEF Next, ServerStep, ConnStep, Resumes, QueryStep, CleanupStep

\* What the directory shows of backend b.
LEMMA DirectoryIs ==
    ASSUME TypeInv, NEW b \in BackendIds
    PROVE  /\ backends[b] = NoConn => Directory[b] = NoDirectory
           /\ backends[b] # NoConn => /\ Directory[b] = channels[backends[b]]
                                      /\ Directory[b] \in Views /\ Directory[b] # NoDirectory
BY DirectoryAssumption DEF TypeInv, TypeOK, Directory, Views

\* A query that is at work is answered from the directory as it is.
LEMMA AnswerIs ==
    ASSUME TypeInv, FoundInv, NEW q \in Queries
    PROVE  /\ asks[q] = "backends" =>
                 Contract!AnswerOf(Directory, asks[q], target[q]) = {b \in BackendIds : backends[b] # NoConn}
           /\ asks[q] # "backends" /\ backends[target[q]] = NoConn =>
                 Contract!AnswerOf(Directory, asks[q], target[q]) = NoDirectory
           /\ query[q] \in Conns =>
                 Contract!AnswerOf(Directory, asks[q], target[q])
                 = IF asks[q] = "channels" THEN Listing(channels[query[q]])
                   ELSE channels[query[q]][asks[q]]
<1>1. asks[q] \in {"backends", "channels"} \cup Channels /\ target[q] \in BackendIds
  BY DEF TypeInv, TypeOK
<1>2. ASSUME asks[q] = "backends"
      PROVE  Contract!AnswerOf(Directory, asks[q], target[q]) = {b \in BackendIds : backends[b] # NoConn}
  <2>1. Contract!AnswerOf(Directory, asks[q], target[q]) = {b \in BackendIds : Directory[b] # NoDirectory}
    BY <1>2, DirectoryAssumption DEF Contract!AnswerOf
  <2>2. \A b \in BackendIds : Directory[b] # NoDirectory <=> backends[b] # NoConn
    BY DirectoryIs
  <2> QED  BY <2>1, <2>2
<1>3. ASSUME asks[q] # "backends", backends[target[q]] = NoConn
      PROVE  Contract!AnswerOf(Directory, asks[q], target[q]) = NoDirectory
  <2>1. Directory[target[q]] = NoDirectory
    BY <1>1, <1>3, DirectoryIs
  <2> QED  BY <1>3, <2>1 DEF Contract!AnswerOf
<1>4. ASSUME query[q] \in Conns
      PROVE  Contract!AnswerOf(Directory, asks[q], target[q])
             = IF asks[q] = "channels" THEN Listing(channels[query[q]])
               ELSE channels[query[q]][asks[q]]
  <2>1. asks[q] # "backends" /\ backends[target[q]] = query[q] /\ query[q] # NoConn
    BY <1>4, DirectoryAssumption DEF FoundInv, FoundOf
  <2>2. Directory[target[q]] = channels[query[q]] /\ Directory[target[q]] # NoDirectory
    BY <1>1, <2>1, DirectoryIs
  <2>3. CASE asks[q] = "channels"
    BY <2>1, <2>2, <2>3, DirectoryAssumption DEF Contract!AnswerOf, Listing
  <2>4. CASE asks[q] # "channels"
    <3>1. asks[q] \in Channels
      BY <1>1, <2>1, <2>4
    <3> QED  BY <2>1, <2>2, <2>4, <3>1 DEF Contract!AnswerOf
  <2> QED  BY <2>3, <2>4
<1> QED  BY <1>2, <1>3, <1>4

\* Query q moves to stage x and the others stay where they are.
LEMMA StageMoves ==
    ASSUME NEW q \in Queries, NEW x,
           \A r \in Queries \ {q} : query'[r] = query[r],
           Stage'[q] = x
    PROVE  Stage' = [Stage EXCEPT ![q] = x]
<1>1. \A r \in Queries \ {q} : Stage'[r] = Stage[r]
  BY DEF Stage
<1>2. Stage' = [r \in Queries |-> Stage'[r]] /\ Stage = [r \in Queries |-> Stage[r]]
  BY DEF Stage
<1> QED  BY <1>1, <1>2

\* The registration of b alone changes, to view v.
LEMMA DirectoryMoves ==
    ASSUME NEW b \in BackendIds, NEW v,
           \A a \in BackendIds \ {b} : Directory'[a] = Directory[a],
           Directory'[b] = v
    PROVE  Directory' = [Directory EXCEPT ![b] = v]
<1>1. Directory' = [a \in BackendIds |-> Directory'[a]] /\ Directory = [a \in BackendIds |-> Directory[a]]
  BY DEF Directory
<1> QED  BY <1>1

\* A handler that is at work ends.
LEMMA FinishStage ==
    ASSUME TypeInv, NEW q \in Queries, NEW res, Finish(q, res),
           query[q] \in {"backends"} \cup Conns
    PROVE  /\ Stage[q] = "open" /\ Stage' = [Stage EXCEPT ![q] = "closed"]
           /\ UNCHANGED <<Directory, asks, target>>
           /\ answer' = [answer EXCEPT ![q] = res]
<1>1. /\ query' = [query EXCEPT ![q] = "done"] /\ UNCHANGED <<asks, target, connVars, backends, channels>>
      /\ answer' = [answer EXCEPT ![q] = res]
  BY DEF Finish
<1>2. query'[q] = "done" /\ \A r \in Queries \ {q} : query'[r] = query[r]
  BY <1>1 DEF TypeInv, TypeOK
<1>3. Stage[q] = "open" /\ Stage'[q] = "closed"
  BY <1>2, DirectoryAssumption DEF Stage
<1>4. Stage' = [Stage EXCEPT ![q] = "closed"]
  BY <1>2, <1>3, StageMoves
<1>5. Directory' = Directory
  BY <1>1 DEF Directory
<1> QED  BY <1>1, <1>3, <1>4, <1>5

LEMMA ContractInit == Init => Contract!Init
<1> SUFFICES ASSUME Init PROVE Contract!Init
  OBVIOUS
<1>1. Directory = [b \in BackendIds |-> NoDirectory]
  BY DEF Init, Directory
<1>2. Stage = [q \in Queries |-> "new"]
  BY DEF Init, Stage
<1> QED  BY <1>1, <1>2 DEF Init, Contract!Init

LEMMA ContractStep ==
    TypeInv /\ LineInv /\ FoundInv /\ TypeInv' /\ [Next]_vars
    => [Contract!Next]_(Contract!contractVars)
<1> SUFFICES ASSUME TypeInv, LineInv, FoundInv, TypeInv', [Next]_vars
             PROVE  Contract!Next \/ UNCHANGED Contract!contractVars
  OBVIOUS
<1> USE DEF connVars
<1>1. ASSUME UNCHANGED <<backends, channels, query, asks, target, answer>>
      PROVE  UNCHANGED Contract!contractVars
  <2>1. Directory' = Directory /\ Stage' = Stage
    BY <1>1 DEF Directory, Stage
  <2> QED  BY <1>1, <2>1 DEF Contract!contractVars
<1>2. ASSUME NEW k \in Conns,
             \/ Hello(k) \/ BackendSends(k) \/ TakeEvent(k) \/ Answered(k)
             \/ TakeOther(k) \/ OtherDone(k) \/ EndTask(k)
      PROVE  UNCHANGED Contract!contractVars
  BY <1>1, <1>2 DEF Hello, BackendSends, TakeEvent, Answered, TakeOther, OtherDone, EndTask, queryVars
<1>3. ASSUME NEW k \in Conns, RegisterBackend(k)
      PROVE  Contract!Next \/ UNCHANGED Contract!contractVars
  <2>1. UNCHANGED <<channels, query, asks, target, answer>> /\ task[k] = "registering"
    BY <1>3 DEF RegisterBackend, queryVars
  <2>2. CASE backends' = backends
    BY <1>1, <2>1, <2>2
  <2>3. CASE backends' # backends
    <3>1. PICK b \in BackendIds : b = ident[k]
      BY DEF TypeInv, TypeOK
    <3>2. /\ backends[b] = NoConn /\ backends'[b] = k
          /\ \A a \in BackendIds \ {b} : backends'[a] = backends[a]
      BY <1>3, <2>3, <3>1 DEF RegisterBackend, TypeInv, TypeOK
    <3>3. channels[k] = [c \in Channels |-> NoInfo]
      BY <2>1 DEF FoundInv, BlankOf, Empty
    <3>4. Directory[b] = NoDirectory /\ Directory'[b] = [c \in Channels |-> NoInfo]
      BY <2>1, <3>2, <3>3, DirectoryAssumption DEF Directory
    <3>5. \A a \in BackendIds \ {b} : Directory'[a] = Directory[a]
      BY <2>1, <3>2 DEF Directory
    <3>6. Directory' = [Directory EXCEPT ![b] = [c \in Channels |-> NoInfo]]
      BY <3>4, <3>5, DirectoryMoves
    <3>7. Stage' = Stage
      BY <2>1 DEF Stage
    <3>8. Contract!Appear(b)
      BY <2>1, <3>4, <3>6, <3>7 DEF Contract!Appear
    <3> QED  BY <3>8 DEF Contract!Next
  <2> QED  BY <2>2, <2>3
<1>4. ASSUME NEW k \in Conns, UpdateChannels(k)
      PROVE  Contract!Next \/ UNCHANGED Contract!contractVars
  <2>1. /\ UNCHANGED <<backends, query, asks, target, answer>> /\ task[k] = "updating"
        /\ channels'[k] = Updated(channels[k], hand[k])
        /\ \A j \in Conns \ {k} : channels'[j] = channels[j]
    BY <1>4 DEF UpdateChannels, queryVars, TypeInv, TypeOK
  <2>2. hand[k] \in Event /\ channels[k] \in Views
    BY <2>1 DEF TypeInv, TypeOK, CountOf, Views
  <2>3. PICK c \in Channels, i \in Infos \cup {NoInfo} :
          Updated(channels[k], hand[k]) = [channels[k] EXCEPT ![c] = i]
    BY <2>2, UpdatedSets
  <2>4. Stage' = Stage
    BY <2>1 DEF Stage
  <2>5. PICK b \in BackendIds : b = ident[k]
    BY DEF TypeInv, TypeOK
  <2>6. ASSUME NEW a \in BackendIds, backends[a] # k PROVE Directory'[a] = Directory[a]
    <3>1. backends[a] = NoConn \/ channels'[backends[a]] = channels[backends[a]]
      BY <2>1, <2>6 DEF TypeInv, TypeOK
    <3> QED  BY <2>1, <3>1 DEF Directory
  <2>7. \A a \in BackendIds \ {b} : backends[a] # k
    BY <2>5, DirectoryAssumption DEF FoundInv, OwnerOf
  <2>8. CASE backends[b] # k
    <3>1. \A a \in BackendIds : Directory'[a] = Directory[a]
      BY <2>6, <2>7, <2>8
    <3>2. Directory' = Directory
      BY <3>1 DEF Directory
    <3> QED  BY <2>1, <2>4, <3>2 DEF Contract!contractVars
  <2>9. CASE backends[b] = k
    <3>1. /\ Directory[b] = channels[k] /\ Directory[b] # NoDirectory
          /\ Directory'[b] = [Directory[b] EXCEPT ![c] = i]
      BY <2>1, <2>2, <2>3, <2>9, DirectoryAssumption DEF Directory, Views
    <3>2. Directory' = [Directory EXCEPT ![b] = [Directory[b] EXCEPT ![c] = i]]
      BY <2>6, <2>7, <3>1, DirectoryMoves
    <3>3. Directory' = [Directory EXCEPT ![b][c] = i]
      BY <3>2
    <3>4. Contract!Change(b)
      BY <2>1, <2>4, <3>1, <3>3 DEF Contract!Change
    <3> QED  BY <3>4 DEF Contract!Next
  <2> QED  BY <2>8, <2>9
<1>5. ASSUME NEW q \in Queries, BeginQuery(q) PROVE Contract!Next
  <2>1. /\ UNCHANGED <<backends, channels, asks, target, answer>>
        /\ query[q] = "idle" /\ query'[q] = "backends"
        /\ \A r \in Queries \ {q} : query'[r] = query[r]
    BY <1>5 DEF BeginQuery, TypeInv, TypeOK
  <2>2. Stage[q] = "new" /\ Stage'[q] = "open"
    BY <2>1 DEF Stage
  <2>3. Stage' = [Stage EXCEPT ![q] = "open"] /\ Directory' = Directory
    BY <2>1, <2>2, StageMoves DEF Directory
  <2>4. Contract!Ask(q)
    BY <2>1, <2>2, <2>3 DEF Contract!Ask
  <2> QED  BY <2>4 DEF Contract!Next
<1>6. ASSUME NEW q \in Queries, NEW res, Finish(q, res), query[q] \in {"backends"} \cup Conns,
             res = Contract!AnswerOf(Directory, asks[q], target[q])
      PROVE  Contract!Next
  <2>1. Contract!Reply(q)
    BY <1>6, FinishStage DEF Contract!Reply
  <2> QED  BY <2>1 DEF Contract!Next
<1>7. ASSUME NEW q \in Queries, ListBackends(q) PROVE Contract!Next
  BY <1>6, <1>7, AnswerIs DEF ListBackends
<1>8. ASSUME NEW q \in Queries, BackendMissing(q) PROVE Contract!Next
  BY <1>6, <1>8, AnswerIs DEF BackendMissing
<1>9. ASSUME NEW q \in Queries, ReadChannels(q) PROVE Contract!Next
  BY <1>6, <1>9, AnswerIs DEF ReadChannels
<1>10. ASSUME NEW q \in Queries, CancelQuery(q) PROVE Contract!Next
  <2>1. query[q] \in {"backends"} \cup Conns /\ Finish(q, answer[q])
    BY <1>10 DEF CancelQuery
  <2>2. answer' = answer
    BY <2>1, FinishStage DEF TypeInv
  <2>3. Contract!GiveUp(q)
    BY <2>1, <2>2, FinishStage DEF Contract!GiveUp
  <2> QED  BY <2>3 DEF Contract!Next
<1>11. ASSUME NEW q \in Queries, FindBackend(q) PROVE UNCHANGED Contract!contractVars
  <2>1. /\ UNCHANGED <<backends, channels, asks, target, answer>> /\ query[q] = "backends"
        /\ query'[q] \in Conns /\ \A r \in Queries \ {q} : query'[r] = query[r]
    BY <1>11 DEF FindBackend, TypeInv, TypeOK
  <2>2. Stage[q] = "open" /\ Stage'[q] = "open"
    BY <2>1, DirectoryAssumption DEF Stage
  <2>3. Directory' = Directory /\ Stage' = Stage
    <3>1. \A r \in Queries : Stage'[r] = Stage[r]
      BY <2>1, <2>2 DEF Stage
    <3> QED  BY <2>1, <3>1 DEF Directory, Stage
  <2> QED  BY <2>1, <2>3 DEF Contract!contractVars
<1>12. CASE CleanBackend
  <2>1. /\ UNCHANGED <<connVars, queryVars, channels>> /\ cleanups # <<>> /\ cleanups \in Seq(BackendIds)
        /\ backends' = [backends EXCEPT ![Head(cleanups)] = NoConn]
    BY <1>12 DEF CleanBackend, HoldsAlone, TypeInv, TypeOK, CleanerOK
  <2>2. PICK b \in BackendIds : b = Head(cleanups)
    BY <2>1
  <2>3. backends'[b] = NoConn /\ \A a \in BackendIds \ {b} : backends'[a] = backends[a]
    BY <2>1, <2>2 DEF TypeInv, TypeOK
  <2>4. UNCHANGED <<query, asks, target, answer>> /\ Stage' = Stage
    BY <2>1 DEF queryVars, Stage
  <2>5. Directory'[b] = NoDirectory /\ \A a \in BackendIds \ {b} : Directory'[a] = Directory[a]
    BY <2>1, <2>3 DEF Directory
  <2>6. Directory' = [Directory EXCEPT ![b] = NoDirectory]
    BY <2>5, DirectoryMoves
  <2>7. CASE Directory[b] = NoDirectory
    <3>1. Directory' = Directory
      BY <2>6, <2>7 DEF Directory
    <3> QED  BY <2>4, <3>1 DEF Contract!contractVars
  <2>8. CASE Directory[b] # NoDirectory
    <3>1. Contract!Vanish(b)
      BY <2>4, <2>6, <2>8 DEF Contract!Vanish
    <3> QED  BY <3>1 DEF Contract!Next
  <2> QED  BY <2>7, <2>8
<1>13. CASE TakeCleanup \/ UNCHANGED vars
  BY <1>1, <1>13 DEF TakeCleanup, vars, queryVars
<1>14. ASSUME NEW r \in Reads, CallReads(r) \/ CallLetsGo(r) PROVE UNCHANGED Contract!contractVars
  BY <1>1, <1>14 DEF CallReads, CallLetsGo, queryVars
<1> QED
  BY <1>2, <1>3, <1>4, <1>5, <1>7, <1>8, <1>9, <1>10, <1>11, <1>12, <1>13, <1>14
     DEF Next, ServerStep, ConnStep, Resumes, QueryStep, CleanupStep

\* A query is answered from the directory of one moment between its start and
\* its end, and never from a registration that is gone.
THEOREM DirectoryImplementsContract == Spec => ImplementsContract
<1>1. TypeInv => TypeOK
  BY DEF TypeInv
<1>2. TypeInv /\ LineInv /\ FoundInv /\ [Next]_vars => (TypeInv /\ LineInv /\ FoundInv)'
  BY <1>1, LineStep, TypeStep, FoundStep
<1>3. TypeInv /\ LineInv /\ FoundInv /\ TypeInv' /\ [Next]_vars
      => [Contract!Next]_(Contract!contractVars)
  BY ContractStep
<1> QED
  BY <1>2, <1>3, TypeInit, LineInit, FoundInit, ContractInit, PTL
     DEF Spec, ImplementsContract, Contract!Spec


-----------------------------------------------------------------------------
(* Events on their way *)

\* after is what the directory goes through when events are applied to view.
AppliesAll(after, view, events) ==
    after = [n \in 0..Len(events) |-> IF n = 0 THEN view ELSE Updated(after[n-1], events[n])]

LEMMA UpdatedIsView ==
    ASSUME NEW view \in Views, NEW e \in Event
    PROVE  Updated(view, e) \in Views
<1>1. PICK c \in Channels, i \in Infos \cup {NoInfo} : Updated(view, e) = [view EXCEPT ![c] = i]
  BY UpdatedSets
<1> QED  BY <1>1 DEF Views

LEMMA AfterExists ==
    ASSUME NEW view \in Views, NEW events \in Seq(Event)
    PROVE  \E after \in [0..Len(events) -> Views] : AppliesAll(after, view, events)
<1> DEFINE S == 0..Len(events)
           rank == [n \in S |-> n]
           at(n, f) == IF n = 0 THEN view ELSE Updated(f[n-1], events[n])
           step == [p \in S \X [S -> Views] |-> at(p[1], p[2])]
<1>1. /\ Len(events) \in Nat /\ 0 \in S
      /\ \A n \in S : n # 0 => n-1 \in S /\ n-1 < n /\ n \in 1..Len(events) /\ events[n] \in Event
  OBVIOUS
<1>2. rank \in [S -> Nat]
  OBVIOUS
<1>3. \A n \in S : \A f \in [S -> Views] : at(n, f) \in Views
  BY <1>1, UpdatedIsView
<1>4. step \in [S \X [S -> Views] -> Views]
  BY <1>3
<1>5. \A n \in S : \A f \in [S -> Views] : step[<<n, f>>] = at(n, f)
  OBVIOUS
<1>6. \A n \in S : \A f, g \in [S -> Views] :
         (\A m \in S : rank[m] < rank[n] => f[m] = g[m]) => step[<<n, f>>] = step[<<n, g>>]
  BY <1>1, <1>5
<1> HIDE DEF rank, step, at, S
<1>7. Views # {}
  OBVIOUS
<1>8. \E f \in [S -> Views] : \A n \in S : f[n] = step[<<n, f>>]
  <2>1. IsRecursive(step, S, Views, rank)
    BY <1>2, <1>4, <1>6, <1>7 DEF IsRecursive
  <2> QED  BY <2>1, RankRecursion
<1>9. PICK f \in [S -> Views] : \A n \in S : f[n] = step[<<n, f>>]
  BY <1>8
<1>10. f = [n \in S |-> at(n, f)]
  BY <1>5, <1>9
<1> QED  BY <1>10 DEF at, S, AppliesAll

LEMMA AfterUnique ==
    ASSUME NEW view \in Views, NEW events \in Seq(Event), NEW f, NEW g,
           AppliesAll(f, view, events), AppliesAll(g, view, events)
    PROVE  f = g
<1> DEFINE T == {n \in Nat : n <= Len(events) => f[n] = g[n]}
<1>1. 0 \in T
  BY DEF AppliesAll
<1>2. ASSUME NEW n \in Nat, n \in T PROVE n + 1 \in T
  <2> SUFFICES ASSUME n + 1 <= Len(events) PROVE f[n+1] = g[n+1]
    OBVIOUS
  <2>1. n + 1 \in 0..Len(events) /\ n + 1 # 0 /\ n <= Len(events) /\ (n + 1) - 1 = n
    OBVIOUS
  <2>2. f[n+1] = Updated(f[n], events[n+1]) /\ g[n+1] = Updated(g[n], events[n+1])
    BY <2>1 DEF AppliesAll
  <2> QED  BY <1>2, <2>1, <2>2
<1> HIDE DEF T
<1>3. \A n \in Nat : n \in T
  BY <1>1, <1>2, NatAll
<1>4. \A n \in 0..Len(events) : f[n] = g[n]
  BY <1>3 DEF T
<1> QED  BY <1>4 DEF AppliesAll

\* Replayed is where it ends.
LEMMA ReplayedIs ==
    ASSUME NEW view \in Views, NEW events \in Seq(Event), NEW after,
           AppliesAll(after, view, events)
    PROVE  Replayed(view, events) = after[Len(events)] /\ Replayed(view, events) \in Views
<1> DEFINE c == CHOOSE f : AppliesAll(f, view, events)
<1>1. AppliesAll(c, view, events)
  OBVIOUS
<1>2. PICK f \in [0..Len(events) -> Views] : AppliesAll(f, view, events)
  BY AfterExists
<1>3. Replayed(view, events) = c[Len(events)]
  BY DEF Replayed, AppliesAll
<1> HIDE DEF c
<1>4. c = after /\ c = f
  BY <1>1, <1>2, AfterUnique
<1>5. Len(events) \in 0..Len(events)
  OBVIOUS
<1> QED  BY <1>2, <1>3, <1>4, <1>5

\* Nothing to apply, one event more, one event applied.
LEMMA ReplayedEmpty ==
    ASSUME NEW view \in Views
    PROVE  Replayed(view, <<>>) = view
<1>1. <<>> \in Seq(Event) /\ Len(<<>>) = 0
  OBVIOUS
<1>2. PICK f : AppliesAll(f, view, <<>>)
  BY <1>1, AfterExists
<1>3. f[0] = view
  BY <1>1, <1>2 DEF AppliesAll
<1>4. Replayed(view, <<>>) = f[Len(<<>>)]
  BY <1>1, <1>2, ReplayedIs
<1> QED  BY <1>1, <1>3, <1>4

LEMMA ReplayedAppend ==
    ASSUME NEW view \in Views, NEW events \in Seq(Event), NEW e \in Event
    PROVE  Replayed(view, Append(events, e)) = Updated(Replayed(view, events), e)
<1> DEFINE more == Append(events, e)
           N == Len(events)
<1>1. /\ more \in Seq(Event) /\ N \in Nat /\ Len(more) = N + 1 /\ more[N+1] = e
      /\ \A n \in 1..N : more[n] = events[n]
  BY AppendProperties
<1> HIDE DEF more
<1>2. PICK f : AppliesAll(f, view, more)
  BY <1>1, AfterExists
<1>3. \A n \in 0..N+1 : f[n] = IF n = 0 THEN view ELSE Updated(f[n-1], more[n])
  BY <1>1, <1>2 DEF AppliesAll
<1> DEFINE g == [n \in 0..N |-> f[n]]
<1>4. AppliesAll(g, view, events)
  <2>1. \A n \in 0..N : g[n] = IF n = 0 THEN view ELSE Updated(g[n-1], events[n])
    BY <1>1, <1>3
  <2> QED  BY <2>1 DEF AppliesAll
<1>5. Replayed(view, events) = f[N]
  <2>1. g[N] = f[N]
    BY <1>1
  <2> HIDE DEF g
  <2> QED  BY <1>4, <2>1, ReplayedIs
<1>6. Replayed(view, more) = f[N+1]
  BY <1>1, <1>2, ReplayedIs
<1>7. f[N+1] = Updated(f[N], e)
  <2>1. N + 1 \in 0..N+1 /\ N + 1 # 0 /\ (N + 1) - 1 = N
    BY <1>1
  <2> QED  BY <1>1, <1>3, <2>1
<1> QED  BY <1>5, <1>6, <1>7 DEF more

LEMMA ReplayedFirst ==
    ASSUME NEW view \in Views, NEW e \in Event, NEW events \in Seq(Event)
    PROVE  Replayed(view, <<e>> \o events) = Replayed(Updated(view, e), events)
<1> DEFINE more == <<e>> \o events
           N == Len(events)
<1>1. /\ more \in Seq(Event) /\ N \in Nat /\ Len(more) = N + 1 /\ more[1] = e
      /\ \A n \in 1..N : more[n+1] = events[n]
  BY FirstOfMore, LenProperties
<1> HIDE DEF more
<1>2. PICK f : AppliesAll(f, view, more)
  BY <1>1, AfterExists
<1>3. \A n \in 0..N+1 : f[n] = IF n = 0 THEN view ELSE Updated(f[n-1], more[n])
  BY <1>1, <1>2 DEF AppliesAll
<1> DEFINE g == [n \in 0..N |-> f[n+1]]
<1>4. AppliesAll(g, Updated(view, e), events)
  <2>1. f[1] = Updated(view, e)
    BY <1>1, <1>3
  <2>2. \A n \in 1..N : f[n+1] = Updated(f[n], events[n])
    <3> TAKE n \in 1..N
    <3>1. n + 1 \in 0..N+1 /\ n + 1 # 0 /\ (n + 1) - 1 = n
      BY <1>1
    <3> QED  BY <1>1, <1>3, <3>1
  <2>3. \A n \in 0..N : g[n] = IF n = 0 THEN Updated(view, e) ELSE Updated(g[n-1], events[n])
    <3> TAKE n \in 0..N
    <3>1. CASE n = 0
      BY <1>1, <2>1, <3>1
    <3>2. CASE n # 0
      <4>1. n \in 1..N /\ n - 1 \in 0..N /\ (n - 1) + 1 = n
        BY <1>1, <3>2
      <4>2. g[n] = f[n+1] /\ g[n-1] = f[n]
        BY <4>1
      <4> QED  BY <2>2, <3>2, <4>1, <4>2
    <3> QED  BY <3>1, <3>2
  <2> QED  BY <2>3 DEF AppliesAll
<1>5. Replayed(Updated(view, e), events) = f[N+1]
  <2>1. g[N] = f[N+1]
    BY <1>1
  <2> HIDE DEF g
  <2> QED  BY <1>4, <2>1, ReplayedIs, UpdatedIsView
<1>6. Replayed(view, more) = f[N+1]
  BY <1>1, <1>2, ReplayedIs
<1> QED  BY <1>5, <1>6 DEF more

LEMMA CatchUpInit == Init => CatchesUp
<1> SUFFICES ASSUME Init, NEW k \in Conns PROVE joined[k] = Replayed(channels[k], OnTheWay(k))
  BY DEF CatchesUp
<1>1. joined[k] = Empty /\ channels[k] = Empty /\ OnTheWay(k) = <<>>
  BY DEF Init, OnTheWay
<1>2. Empty \in Views
  BY DEF Empty, Views
<1> QED  BY <1>1, <1>2, ReplayedEmpty

\* A step that changes the events and the directory of connection k only.
LEMMA CatchUpConn ==
    ASSUME CatchesUp, NEW k \in Conns,
           \A j \in Conns \ {k} : /\ joined'[j] = joined[j] /\ channels'[j] = channels[j]
                                  /\ hand'[j] = hand[j] /\ inFlight'[j] = inFlight[j],
           joined'[k] = Replayed(channels'[k], OnTheWay(k)')
    PROVE  CatchesUp'
<1> SUFFICES ASSUME NEW j \in Conns \ {k} PROVE joined'[j] = Replayed(channels'[j], OnTheWay(j)')
  BY DEF CatchesUp
<1>1. OnTheWay(j)' = OnTheWay(j)
  BY DEF OnTheWay
<1> QED  BY <1>1 DEF CatchesUp

LEMMA CatchUpStep == TypeInv /\ CatchesUp /\ [Next]_vars => CatchesUp'
<1> SUFFICES ASSUME TypeInv, CatchesUp, [Next]_vars PROVE CatchesUp'
  OBVIOUS
<1> USE DEF connVars, queryVars
<1>1. ASSUME UNCHANGED <<joined, channels, hand, inFlight>> PROVE CatchesUp'
  BY <1>1 DEF CatchesUp, OnTheWay
<1>2. ASSUME NEW k \in Conns, BackendSends(k) PROVE CatchesUp'
  <2>1. PICK e \in Event :
          /\ inFlight' = [inFlight EXCEPT ![k] = Append(@, e)]
          /\ joined' = [joined EXCEPT ![k][e.channel] =
                CASE e.type = "leave" -> NoInfo
                  [] e.type = "change" /\ @ = NoInfo -> NoInfo
                  [] OTHER -> e.info]
    BY <1>2 DEF BackendSends
  <2>2. UNCHANGED <<hand, channels>>
    BY <1>2 DEF BackendSends
  <2>3. /\ joined \in [Conns -> Views] /\ inFlight \in [Conns -> Seq(Event)]
        /\ channels[k] \in Views /\ hand[k] \in Event \cup {NoEvent}
    BY DEF TypeInv, TypeOK, Views
  <2>4. joined'[k] = Updated(joined[k], e)
    <3>1. joined'[k] = [joined[k] EXCEPT ![e.channel] =
             CASE e.type = "leave" -> NoInfo
               [] e.type = "change" /\ @ = NoInfo -> NoInfo
               [] OTHER -> e.info]
      BY <2>1, <2>3
    <3>2. e.type \in {"join", "change", "leave"} /\ e.channel \in Channels
      BY DEF Event
    <3>3. CASE e.type = "leave"
      BY <3>1, <3>3 DEF Updated
    <3>4. CASE e.type = "join"
      BY <3>1, <3>4 DEF Updated
    <3>5. CASE e.type = "change" /\ joined[k][e.channel] = NoInfo
      <4>1. joined'[k] = [joined[k] EXCEPT ![e.channel] = NoInfo]
        BY <3>1, <3>5
      <4> QED  BY <2>3, <3>2, <3>5, <4>1 DEF Updated, Views
    <3>6. CASE e.type = "change" /\ joined[k][e.channel] # NoInfo
      BY <3>1, <3>6 DEF Updated
    <3> QED  BY <3>2, <3>3, <3>4, <3>5, <3>6
  <2>5. OnTheWay(k)' = Append(OnTheWay(k), e) /\ OnTheWay(k) \in Seq(Event)
    <3>1. inFlight[k] \in Seq(Event) /\ inFlight'[k] = Append(inFlight[k], e)
      BY <2>1, <2>3
    <3>2. CASE hand[k] = NoEvent
      BY <2>2, <3>1, <3>2 DEF OnTheWay
    <3>3. CASE hand[k] # NoEvent
      <4>1. PICK h \in Seq(Event) : h = <<hand[k]>>
        BY <2>3, <3>3, OneElement
      <4>2. OnTheWay(k) = h \o inFlight[k] /\ OnTheWay(k)' = h \o Append(inFlight[k], e)
        BY <2>2, <3>1, <3>3, <4>1 DEF OnTheWay
      <4>3. h \o Append(inFlight[k], e) = Append(h \o inFlight[k], e)
        BY <3>1, <4>1
      <4> QED  BY <3>1, <4>1, <4>2, <4>3
    <3> QED  BY <3>2, <3>3
  <2>6. joined[k] = Replayed(channels[k], OnTheWay(k))
    BY DEF CatchesUp
  <2>7. joined'[k] = Replayed(channels'[k], OnTheWay(k)')
    BY <2>2, <2>3, <2>4, <2>5, <2>6, ReplayedAppend
  <2> QED  BY <2>1, <2>2, <2>3, <2>7, CatchUpConn
<1>3. ASSUME NEW k \in Conns, TakeEvent(k) PROVE CatchesUp'
  <2>1. /\ hand' = [hand EXCEPT ![k] = Head(inFlight[k])]
        /\ inFlight' = [inFlight EXCEPT ![k] = Tail(@)]
        /\ task[k] = "running" /\ inFlight[k] # <<>> /\ UNCHANGED <<joined, channels>>
    BY <1>3 DEF TakeEvent
  <2>2. /\ hand \in [Conns -> Event \cup {NoEvent}] /\ inFlight \in [Conns -> Seq(Event)]
        /\ hand[k] = NoEvent
    BY <2>1 DEF TypeInv, TypeOK, CountOf
  <2>3. PICK e \in Event, rest \in Seq(Event) :
           /\ e = Head(inFlight[k]) /\ rest = Tail(inFlight[k]) /\ inFlight[k] = <<e>> \o rest
    <3>1. PICK line \in Seq(Event) : line = inFlight[k] /\ line # <<>>
      BY <2>1, <2>2
    <3>2. Head(line) \in Event /\ Tail(line) \in Seq(Event) /\ line = <<Head(line)>> \o Tail(line)
      BY <3>1, FirstAndRest
    <3> QED  BY <3>1, <3>2
  <2>4. hand'[k] = e /\ inFlight'[k] = rest /\ e # NoEvent
    BY <2>1, <2>2, <2>3, EventAssumption
  <2>5. OnTheWay(k) = inFlight[k]
    BY <2>2 DEF OnTheWay
  <2>6. OnTheWay(k)' = <<e>> \o rest
    BY <2>4 DEF OnTheWay
  <2>7. joined[k] = Replayed(channels[k], OnTheWay(k))
    BY DEF CatchesUp
  <2> QED  BY <2>1, <2>2, <2>3, <2>5, <2>6, <2>7, CatchUpConn
<1>4. ASSUME NEW k \in Conns, UpdateChannels(k) PROVE CatchesUp'
  <2>1. /\ channels' = [channels EXCEPT ![k] = Updated(@, hand[k])]
        /\ hand' = [hand EXCEPT ![k] = NoEvent]
        /\ task[k] = "updating" /\ UNCHANGED <<joined, inFlight>>
    BY <1>4 DEF UpdateChannels
  <2>2. /\ hand \in [Conns -> Event \cup {NoEvent}] /\ channels \in [Conns -> Views]
        /\ inFlight[k] \in Seq(Event) /\ hand[k] # NoEvent
    BY <2>1 DEF TypeInv, TypeOK, CountOf, Views
  <2>3. PICK e \in Event : e = hand[k]
    BY <2>2
  <2>4. channels'[k] = Updated(channels[k], e) /\ hand'[k] = NoEvent
    BY <2>1, <2>2, <2>3
  <2>5. OnTheWay(k) = <<e>> \o inFlight[k]
    BY <2>2, <2>3 DEF OnTheWay
  <2>6. OnTheWay(k)' = inFlight[k]
    BY <2>1, <2>2, <2>4 DEF OnTheWay
  <2>7. joined[k] = Replayed(channels[k], OnTheWay(k))
    BY DEF CatchesUp
  <2>8. Replayed(channels[k], <<e>> \o inFlight[k]) = Replayed(Updated(channels[k], e), inFlight[k])
    BY <2>2, ReplayedFirst
  <2> QED  BY <2>1, <2>2, <2>4, <2>5, <2>6, <2>7, <2>8, CatchUpConn
<1>5. ASSUME NEW k \in Conns,
             \/ Hello(k) \/ RegisterBackend(k) \/ Answered(k)
             \/ TakeOther(k) \/ OtherDone(k) \/ EndTask(k)
      PROVE  CatchesUp'
  BY <1>1, <1>5 DEF Hello, RegisterBackend, Answered, TakeOther, OtherDone, EndTask
<1>6. ASSUME NEW q \in Queries, BeginQuery(q) \/ FindBackend(q) PROVE CatchesUp'
  BY <1>1, <1>6 DEF BeginQuery, FindBackend
<1>7. ASSUME NEW q \in Queries, NEW res, Finish(q, res) PROVE CatchesUp'
  BY <1>1, <1>7 DEF Finish
<1>8. ASSUME NEW q \in Queries, QueryStep(q) \/ CancelQuery(q) PROVE CatchesUp'
  BY <1>6, <1>7, <1>8 DEF QueryStep, ListBackends, BackendMissing, ReadChannels, CancelQuery
<1>9. ASSUME CleanupStep \/ UNCHANGED vars PROVE CatchesUp'
  BY <1>1, <1>9 DEF CleanupStep, TakeCleanup, CleanBackend, vars
<1>10. ASSUME NEW r \in Reads, CallReads(r) \/ CallLetsGo(r) PROVE CatchesUp'
  BY <1>1, <1>10 DEF CallReads, CallLetsGo
<1> QED
  BY <1>2, <1>3, <1>4, <1>5, <1>6, <1>8, <1>9, <1>10 DEF Next, ServerStep, ConnStep, Resumes

\* The directory of a connection is what its backend is in, but for the events
\* on their way, and these in their order make up for the difference.
THEOREM DirectoryCatchesUp == Spec => []CatchesUp
<1>1. TypeInv => TypeOK
  BY DEF TypeInv
<1>2. TypeInv /\ LineInv /\ CatchesUp /\ [Next]_vars => (TypeInv /\ LineInv /\ CatchesUp)'
  BY <1>1, LineStep, TypeStep, CatchUpStep
<1> QED  BY <1>2, TypeInit, LineInit, CatchUpInit, PTL DEF Spec

-----------------------------------------------------------------------------
(* Nested guards *)

\* Whoever is first at the channels of a connection waits for nothing else.
LEMMA ChannelsFree ==
    ASSUME LineInv, NEW k \in Conns, Queued(channelsLine[k]) # {}
    PROVE  ChannelsMove(k)
<1>1. PICK u \in ChannelsUses(k) : channelsLine[k][u] = {u}
  BY FirstInLine DEF LineInv, AreLines
<1>2. CASE u = Update(k)
  <2>1. task[k] = "updating" /\ HoldsAlone(channelsLine[k], Update(k))
    BY <1>1, <1>2 DEF LineInv, UpdatePlace, HoldsAlone
  <2> QED  BY <2>1 DEF ChannelsMove
<1>3. ASSUME NEW q \in Queries, u = Look(q) PROVE ChannelsMove(k)
  <2>1. query[q] = k
    BY <1>1, <1>3 DEF LineInv, QueryPlace
  <2>2. ReadsChannels(q, k)
    BY <1>1, <1>3, UsesAreUses DEF ReadsChannels, HoldsShared
  <2> QED  BY <2>1, <2>2 DEF ChannelsMove
<1> QED  BY <1>2, <1>3 DEF ChannelsUses

\* Whoever is first at backends has it, and if it is a query that went on to the
\* channels of a connection, somebody there goes on.
LEMMA BackendsFree ==
    ASSUME TypeInv, LineInv, Queued(backendsLine) # {}
    PROVE  BackendsMove \/ CallHoldsBackends \/ \E k \in Conns : ChannelsMove(k)
<1>1. PICK u \in BackendsUses : backendsLine[u] = {u}
  BY FirstInLine DEF LineInv, AreLines
<1>2. CASE u = Clean
  BY <1>1, <1>2 DEF TypeInv, CleanerOK, BackendsMove, HoldsAlone
<1>3. ASSUME NEW k \in Conns, u = Register(k) PROVE BackendsMove
  <2>1. task[k] = "registering" /\ HoldsAlone(backendsLine, Register(k))
    BY <1>1, <1>3 DEF LineInv, RegisterPlace, HoldsAlone
  <2> QED  BY <2>1 DEF BackendsMove
<1>4. ASSUME NEW q \in Queries, u = Look(q)
      PROVE  BackendsMove \/ \E k \in Conns : ChannelsMove(k)
  <2>1. query[q] \in {"backends"} \cup Conns
    BY <1>1, <1>4 DEF LineInv, QueryPlace
  <2>2. CASE query[q] = "backends"
    <3>1. ReadsBackends(q)
      BY <1>1, <1>4, UsesAreUses DEF ReadsBackends, HoldsShared
    <3> QED  BY <2>2, <3>1 DEF BackendsMove
  <2>3. CASE query[q] \in Conns
    <3>1. PICK k \in Conns : query[q] = k
      BY <2>3
    <3>2. channelsLine[k][Look(q)] # {} /\ Look(q) \in ChannelsUses(k)
      BY <3>1, UsesAreUses DEF LineInv, QueryPlace
    <3>3. Queued(channelsLine[k]) # {}
      BY <3>2 DEF LineInv, AreLines, IsLine, Queued
    <3> QED  BY <3>3, ChannelsFree
  <2> QED  BY <2>1, <2>2, <2>3
<1>5. ASSUME NEW r \in Reads, u = Read(r) PROVE CallHoldsBackends
  BY <1>1, <1>5, UsesAreUses DEF CallHoldsBackends, HoldsShared
<1> QED  BY <1>2, <1>3, <1>4, <1>5 DEF BackendsUses, BackendsReaders, BackendsWriters

\* However many queries, connections, cleanups and calls contend for the locks,
\* somebody goes on wherever somebody waits, unless it is for a call that has
\* backends and waits elsewhere; and nobody waits at channels for such a call.
THEOREM DirectoryNeverStuck == Spec => []NeverStuck
<1>1. TypeInv /\ LineInv => NeverStuck
  BY ChannelsFree, BackendsFree DEF NeverStuck
<1>2. TypeInv => TypeOK
  BY DEF TypeInv
<1>3. TypeInv /\ LineInv /\ [Next]_vars => (TypeInv /\ LineInv)'
  BY <1>2, LineStep, TypeStep
<1> QED  BY <1>1, <1>3, TypeInit, LineInit, PTL DEF Spec
-----------------------------------------------------------------------------
(* Headway *)

\* The steps that the server still has to make for each query, for each
\* connection with the events that its backend has sent, and for the cleanup.
QuerySteps(q) == IF query[q] = "backends" THEN 2 ELSE IF query[q] \in Conns THEN 1 ELSE 0

TaskSteps(k) ==
    CASE task[k] \in {"registering", "occupied", "updating"} -> 1
      [] task[k] = "answering" -> 2
      [] OTHER -> 0

ConnSteps(k) == TaskSteps(k) + 3 * Len(inFlight[k])

IsServing == Clean \in Queued(backendsLine)

CleanerSteps == 2 * Len(cleanups) - (IF IsServing THEN 1 ELSE 0)

Headway ==
    /\ \A q \in Queries : QuerySteps(q)' <= QuerySteps(q)
    /\ \A k \in Conns : ConnSteps(k)' <= ConnSteps(k)
    /\ CleanerSteps' <= CleanerSteps
    /\ \/ \E q \in Queries : QuerySteps(q)' < QuerySteps(q)
       \/ \E k \in Conns : ConnSteps(k)' < ConnSteps(k)
       \/ CleanerSteps' < CleanerSteps

\* Each step of a query, a task or the cleanup leaves less to do for one of them,
\* and more for none.
ServerMakesHeadway == [][ServerStep => Headway]_vars

\* cleanup_task keeps its place in the line when others enter and leave it.
LEMMA ServingMoves ==
    ASSUME TypeInv
    PROVE  /\ \A u \in BackendsUses \ {Clean} :
                 Clean \in Queued(Leave(backendsLine, {u})) <=> IsServing
           /\ Clean \in Queued(Enter(backendsLine, Clean))
           /\ Clean \notin Queued(Leave(backendsLine, {Clean}))
<1>1. backendsLine \in [BackendsUses -> SUBSET BackendsUses] /\ Clean \in BackendsUses
  BY UsesAreUses DEF TypeInv, TypeOK
<1> QED  BY <1>1 DEF IsServing, Queued, Enter, Leave

LEMMA StepCounts ==
    ASSUME TypeInv, TypeInv'
    PROVE  /\ \A q \in Queries : QuerySteps(q) \in Nat /\ QuerySteps(q)' \in Nat
           /\ \A k \in Conns : /\ ConnSteps(k) \in Nat /\ ConnSteps(k)' \in Nat
                               /\ Len(inFlight[k]) \in Nat /\ Len(inFlight'[k]) \in Nat
                               /\ TaskSteps(k) \in Nat /\ TaskSteps(k)' \in Nat
           /\ CleanerSteps \in Nat /\ CleanerSteps' \in Nat
<1>1. \A k \in Conns : inFlight[k] \in Seq(Event) /\ inFlight'[k] \in Seq(Event)
  BY DEF TypeInv, TypeOK
<1>2. \A k \in Conns : Len(inFlight[k]) \in Nat /\ Len(inFlight'[k]) \in Nat
  BY <1>1
<1>3. \A k \in Conns : TaskSteps(k) \in Nat /\ TaskSteps(k)' \in Nat
  BY DEF TaskSteps
<1>4. \A k \in Conns : ConnSteps(k) \in Nat /\ ConnSteps(k)' \in Nat
  BY <1>2, <1>3 DEF ConnSteps
<1>5. \A q \in Queries : QuerySteps(q) \in Nat /\ QuerySteps(q)' \in Nat
  BY DEF QuerySteps
<1>6. /\ Len(cleanups) \in Nat /\ (IsServing => Len(cleanups) # 0)
      /\ Len(cleanups)' \in Nat /\ (IsServing' => Len(cleanups)' # 0)
  <2>1. cleanups \in Seq(BackendIds) /\ cleanups' \in Seq(BackendIds)
    BY DEF TypeInv, TypeOK
  <2>2. (IsServing => cleanups # <<>>) /\ (IsServing' => cleanups' # <<>>)
    BY DEF IsServing, Queued, TypeInv, CleanerOK
  <2> QED  BY <2>1, <2>2
<1>7. CleanerSteps \in Nat /\ CleanerSteps' \in Nat
  BY <1>6 DEF CleanerSteps
<1> QED  BY <1>2, <1>3, <1>4, <1>5, <1>7

\* A step of connection k, and only of its task.
LEMMA ConnHeadway ==
    ASSUME TypeInv, TypeInv', NEW k \in Conns, ConnStep(k) \/ Resumes(k)
    PROVE  Headway
<1>1. /\ UNCHANGED <<query, cleanups>>
      /\ \A j \in Conns \ {k} : task'[j] = task[j] /\ inFlight'[j] = inFlight[j]
      /\ backendsLine' = backendsLine \/ backendsLine' = Leave(backendsLine, {Register(k)})
  BY DEF ConnStep, RegisterBackend, TakeEvent, UpdateChannels, Resumes, Answered, OtherDone,
     queryVars, TypeInv, TypeOK
<1>2. IsServing' <=> IsServing
  BY <1>1, ServingMoves, UsesAreUses DEF IsServing
<1>3. CleanerSteps' = CleanerSteps /\ \A q \in Queries : QuerySteps(q)' = QuerySteps(q)
  BY <1>1, <1>2 DEF CleanerSteps, QuerySteps
<1>4. \A j \in Conns \ {k} : ConnSteps(j)' = ConnSteps(j)
  BY <1>1 DEF ConnSteps, TaskSteps
<1>5. ConnSteps(k)' < ConnSteps(k)
  <2>1. CASE RegisterBackend(k) \/ Answered(k) \/ OtherDone(k) \/ UpdateChannels(k)
    <3>1. /\ inFlight' = inFlight
          /\ \/ /\ task[k] \in {"registering", "occupied", "updating"}
                /\ task'[k] \in {"running", "refused"}
             \/ task[k] = "answering" /\ task'[k] = "updating"
      BY <2>1 DEF RegisterBackend, Answered, OtherDone, UpdateChannels, TypeInv, TypeOK
    <3>2. TaskSteps(k)' < TaskSteps(k)
      BY <3>1 DEF TaskSteps
    <3> QED  BY <3>1, <3>2, StepCounts DEF ConnSteps
  <2>2. CASE TakeEvent(k)
    <3>1. /\ inFlight[k] \in Seq(Event) /\ inFlight[k] # <<>> /\ inFlight'[k] = Tail(inFlight[k])
          /\ task[k] = "running" /\ task'[k] \in {"answering", "updating"}
      BY <2>2 DEF TakeEvent, TypeInv, TypeOK
    <3>2. Len(inFlight'[k]) = Len(inFlight[k]) - 1
      BY <3>1
    <3>3. TaskSteps(k) = 0 /\ TaskSteps(k)' \in 1..2
      BY <3>1 DEF TaskSteps
    <3> QED  BY <3>2, <3>3, StepCounts DEF ConnSteps
  <2> QED  BY <2>1, <2>2 DEF ConnStep, Resumes
<1> QED  BY <1>3, <1>4, <1>5, StepCounts DEF Headway

LEMMA QueryHeadway ==
    ASSUME TypeInv, TypeInv', NEW q \in Queries, QueryStep(q)
    PROVE  Headway
<1>1. /\ UNCHANGED <<task, inFlight, cleanups>>
      /\ \A r \in Queries \ {q} : query'[r] = query[r]
      /\ backendsLine' = backendsLine \/ backendsLine' = Leave(backendsLine, {Look(q)})
  BY DEF QueryStep, ListBackends, BackendMissing, FindBackend, ReadChannels, Finish, connVars,
     TypeInv, TypeOK
<1>2. IsServing' <=> IsServing
  BY <1>1, ServingMoves, UsesAreUses DEF IsServing
<1>3. CleanerSteps' = CleanerSteps /\ \A k \in Conns : ConnSteps(k)' = ConnSteps(k)
  BY <1>1, <1>2 DEF CleanerSteps, ConnSteps, TaskSteps
<1>4. \A r \in Queries \ {q} : QuerySteps(r)' = QuerySteps(r)
  BY <1>1 DEF QuerySteps
<1>5. \/ query[q] = "backends" /\ query'[q] \in {"done"} \cup Conns
      \/ query[q] \in Conns /\ query'[q] = "done"
  BY DEF QueryStep, ListBackends, BackendMissing, FindBackend, ReadChannels, Finish,
     TypeInv, TypeOK
<1>6. QuerySteps(q)' < QuerySteps(q)
  BY <1>5, DirectoryAssumption DEF QuerySteps
<1> QED  BY <1>3, <1>4, <1>6, StepCounts DEF Headway

LEMMA CleanerHeadway ==
    ASSUME TypeInv, TypeInv', CleanupStep
    PROVE  Headway
<1>1. UNCHANGED <<task, inFlight, query>>
  BY DEF CleanupStep, TakeCleanup, CleanBackend, connVars, queryVars
<1>2. /\ \A k \in Conns : ConnSteps(k)' = ConnSteps(k)
      /\ \A q \in Queries : QuerySteps(q)' = QuerySteps(q)
  BY <1>1 DEF ConnSteps, TaskSteps, QuerySteps
<1>3. cleanups \in Seq(BackendIds)
  BY DEF TypeInv, TypeOK
<1>4. CASE TakeCleanup
  <2>1. ~IsServing /\ IsServing' /\ cleanups' = cleanups
    BY <1>4, ServingMoves DEF TakeCleanup, IsServing
  <2>2. CleanerSteps' < CleanerSteps
    BY <1>3, <2>1 DEF CleanerSteps
  <2> QED  BY <1>2, <2>2, StepCounts DEF Headway
<1>5. CASE CleanBackend
  <2>1. backendsLine[Clean] = {Clean} /\ cleanups' = Tail(cleanups)
    BY <1>5 DEF CleanBackend, HoldsAlone
  <2>2. IsServing /\ ~IsServing' /\ cleanups # <<>>
    BY <1>5, <2>1, ServingMoves, UsesAreUses DEF CleanBackend, IsServing, Queued, TypeInv, TypeOK,
       CleanerOK
  <2>3. Len(cleanups') = Len(cleanups) - 1 /\ Len(cleanups) \in Nat
    BY <1>3, <2>1, <2>2
  <2>4. CleanerSteps' < CleanerSteps
    BY <2>2, <2>3 DEF CleanerSteps
  <2> QED  BY <1>2, <2>4, StepCounts DEF Headway
<1> QED  BY <1>4, <1>5 DEF CleanupStep

\* No part of the directory busies itself: of its own steps a query has at most
\* two, an event three, a request or an event about something else one, a
\* registration one and a cleanup two.  This bounds the steps, it does not say
\* that they come: a task may be held up by requests (IsHeldUp), cleanup_task by
\* other messages, and the lock of backends by a call that keeps its guard.
THEOREM DirectoryHeadway == Spec => ServerMakesHeadway
<1>1. TypeInv /\ LineInv /\ [Next]_vars => (TypeInv /\ LineInv)'
  <2>1. TypeInv => TypeOK
    BY DEF TypeInv
  <2> QED  BY <2>1, LineStep, TypeStep
<1>2. TypeInv /\ LineInv /\ [Next]_vars => [ServerStep => Headway]_vars
  BY <1>1, ConnHeadway, QueryHeadway, CleanerHeadway DEF ServerStep
<1> QED  BY <1>1, <1>2, TypeInit, LineInit, PTL DEF Spec, ServerMakesHeadway
=============================================================================
