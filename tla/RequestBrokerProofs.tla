------------------------- MODULE RequestBrokerProofs -------------------------
(***************************************************************************)
(* The safety of the request path for any number of calls, connections and *)
(* backends and any size of the buffers: types, owners, waiters, locks,    *)
(* answers and the contract that these keep; and what follows from them,   *)
(* requests go where their calls meant them to go, what a failed call      *)
(* leaves behind is inert, the ids of backends are handed out like names   *)
(* in a registry, and the server never busies itself.                      *)
(***************************************************************************)
EXTENDS RequestBroker, FairLockProofs

-----------------------------------------------------------------------------
(* Messages in a queue *)

LEMMA OccursAppend ==
    ASSUME NEW T, NEW s \in Seq(T), NEW n \in T, NEW m
    PROVE  /\ Occurs(m, Append(s, n)) <=> Occurs(m, s) \/ m = n
           /\ AtMostOnce(m, s) /\ ~(m = n /\ Occurs(m, s)) => AtMostOnce(m, Append(s, n))
<1>1. /\ Len(Append(s, n)) = Len(s) + 1 /\ Len(s) \in Nat
      /\ \A i \in 1..Len(s) : Append(s, n)[i] = s[i]
      /\ Append(s, n)[Len(s) + 1] = n
  OBVIOUS
<1>2. 1..(Len(s) + 1) = 1..Len(s) \cup {Len(s) + 1}
  BY <1>1
<1> QED  BY <1>1, <1>2, Z3 DEF Occurs, AtMostOnce

LEMMA OccursTail ==
    ASSUME NEW T, NEW s \in Seq(T), s # <<>>, NEW m
    PROVE  /\ Occurs(Head(s), s)
           /\ Occurs(m, Tail(s)) => Occurs(m, s)
           /\ Occurs(m, s) /\ m # Head(s) => Occurs(m, Tail(s))
           /\ AtMostOnce(m, s) => AtMostOnce(m, Tail(s))
           /\ AtMostOnce(m, s) /\ m = Head(s) => ~Occurs(m, Tail(s))
<1>1. /\ Len(s) \in Nat \ {0} /\ Len(Tail(s)) = Len(s) - 1
      /\ Head(s) = s[1]
      /\ \A i \in 1..Len(Tail(s)) : Tail(s)[i] = s[i + 1]
  OBVIOUS
<1>2. \A i \in 1..Len(s) : i # 1 => i - 1 \in 1..Len(Tail(s)) /\ (i - 1) + 1 = i
  BY <1>1
<1>3. \A i \in 1..Len(Tail(s)) : i + 1 \in 1..Len(s) /\ i + 1 # 1
  BY <1>1
<1>4. 1 \in 1..Len(s)
  BY <1>1
<1>5. Occurs(Head(s), s)
  BY <1>1, <1>4 DEF Occurs
<1>6. Occurs(m, Tail(s)) => Occurs(m, s)
  BY <1>1, <1>3 DEF Occurs
<1>7. Occurs(m, s) /\ m # Head(s) => Occurs(m, Tail(s))
  BY <1>1, <1>2 DEF Occurs
<1>8. AtMostOnce(m, s) => AtMostOnce(m, Tail(s))
  BY <1>1, <1>3 DEF AtMostOnce
<1>9. AtMostOnce(m, s) /\ m = Head(s) => ~Occurs(m, Tail(s))
  BY <1>1, <1>3, <1>4 DEF AtMostOnce, Occurs
<1> QED  BY <1>5, <1>6, <1>7, <1>8, <1>9
-----------------------------------------------------------------------------
(* Types *)

\* What a connection that works on a request or an answer has in hand.
HandOK ==
    \A k \in Conns :
        /\ task[k] = "forwarding" => hand[k].call \in Calls
        /\ task[k] = "answering" => hand[k].call \in Calls /\ hand[k].reply \in KindOfReply

\* cleanup_task asks for the lock of the map that the head message is about.
CleanerOK ==
    /\ requestsLine[Clean] # {} => cleanups # <<>> /\ Head(cleanups).type = "Request"
    /\ backendsLine[Clean] # {} => cleanups # <<>> /\ Head(cleanups).type = "Backend"

TypeInv == TypeOK /\ HandOK /\ CleanerOK

\* The uses of a lock are distinct from each other and in the line.
LEMMA UsesAreUses ==
    /\ Clean \in RequestsUses /\ Clean \in BackendsUses
    /\ \A c \in Calls : /\ Issue(c) \in RequestsUses
                        /\ Issue(c) \in BackendsUses \ BackendsWriters
                        /\ Guard(c) \in BackendsUses \ BackendsWriters
                        /\ Issue(c) # Clean /\ Guard(c) # Clean
                        /\ \A d \in Calls : Issue(c) # Guard(d)
                        /\ \A d \in Calls : Issue(c) = Issue(d) => c = d
                        /\ \A d \in Calls : Guard(c) = Guard(d) => c = d
    /\ \A k \in Conns : /\ Respond(k) \in RequestsUses /\ Register(k) \in BackendsUses
                        /\ Respond(k) # Clean /\ Register(k) # Clean
                        /\ \A j \in Conns : Respond(j) = Respond(k) => j = k
                        /\ \A j \in Conns : Register(j) = Register(k) => j = k
                        /\ \A c \in Calls : Respond(k) # Issue(c)
                        /\ \A c \in Calls : Register(k) # Issue(c) /\ Register(k) # Guard(c)
    /\ Clean \in BackendsWriters
BY Z3 DEF Clean, Issue, Guard, Respond, Register, RequestsUses, BackendsUses,
          BackendsReaders, BackendsWriters

\* A message appended to a queue leaves its head alone.
LEMMA AppendKeepsHead ==
    ASSUME NEW T, NEW s \in Seq(T), s # <<>>, NEW n \in T
    PROVE  Append(s, n) \in Seq(T) /\ Append(s, n) # <<>> /\ Head(Append(s, n)) = Head(s)
OBVIOUS

\* What entering and leaving do to the two lines, and to the place that
\* cleanup_task has in them.
LEMMA LineTypes ==
    ASSUME TypeInv
    PROVE  /\ \A u \in RequestsUses :
                 /\ Enter(requestsLine, u) \in [RequestsUses -> SUBSET RequestsUses]
                 /\ u # Clean => Enter(requestsLine, u)[Clean] = requestsLine[Clean]
           /\ \A S : /\ Leave(requestsLine, S) \in [RequestsUses -> SUBSET RequestsUses]
                     /\ requestsLine[Clean] = {} \/ Clean \in S => Leave(requestsLine, S)[Clean] = {}
           /\ \A u \in BackendsUses :
                 /\ Enter(backendsLine, u) \in [BackendsUses -> SUBSET BackendsUses]
                 /\ u # Clean => Enter(backendsLine, u)[Clean] = backendsLine[Clean]
           /\ \A S : /\ Leave(backendsLine, S) \in [BackendsUses -> SUBSET BackendsUses]
                     /\ backendsLine[Clean] = {} \/ Clean \in S => Leave(backendsLine, S)[Clean] = {}
BY UsesAreUses DEF TypeInv, TypeOK, Enter, Leave, Queued

\* While the queue only grows and cleanup_task stays where it is, the lock it
\* asked for still goes with the message it serves.
LEMMA CleanerKept ==
    ASSUME TypeInv,
           requestsLine[Clean] = {} => requestsLine'[Clean] = {},
           backendsLine[Clean] = {} => backendsLine'[Clean] = {},
           cleanups' = cleanups \/ \E m \in CleanupRequest : cleanups' = Append(cleanups, m)
    PROVE  CleanerOK'
<1>1. cleanups \in Seq(CleanupRequest)
  BY DEF TypeInv, TypeOK
<1>2. cleanups # <<>> => cleanups' # <<>> /\ Head(cleanups') = Head(cleanups)
  BY <1>1, AppendKeepsHead
<1> QED  BY <1>2 DEF TypeInv, CleanerOK

LEMMA AbandonTypes ==
    ASSUME TypeInv, NEW c \in Calls, NEW res \in Outcomes, Abandon(c, res)
    PROVE  TypeInv'
<1> USE UsesAreUses, LineTypes DEF Abandon, connVars
<1>1. TypeOK'
  BY DEF TypeInv, TypeOK, CallState
<1>2. HandOK'
  BY DEF TypeInv, HandOK
<1>3. CleanerOK'
  BY CleanerKept
<1> QED  BY <1>1, <1>2, <1>3 DEF TypeInv

LEMMA DropHandleTypes ==
    ASSUME TypeInv, NEW c \in Calls, NEW res \in Outcomes, DropHandle(c, res)
    PROVE  TypeInv'
<1> USE UsesAreUses, LineTypes DEF DropHandle, connVars
<1>1. RequestCleanup(c) \in CleanupRequest
  BY DEF CleanupRequest
<1>2. TypeOK'
  BY <1>1 DEF TypeInv, TypeOK, CallState
<1>3. HandOK'
  BY DEF TypeInv, HandOK
<1>4. CleanerOK'
  BY <1>1, CleanerKept
<1> QED  BY <1>2, <1>3, <1>4 DEF TypeInv

LEMMA EndTaskTypes ==
    ASSUME TypeInv, NEW k \in Conns, EndTask(k)
    PROVE  /\ UNCHANGED <<ident, out, received>>
           /\ task' \in [Conns -> ConnState]
           /\ chan' \in [Conns -> Seq(Calls)]
           /\ hand' \in [Conns -> [call : Calls \cup {NoCall}, reply : KindOfReply \cup {NoReply}]]
           /\ \E m \in CleanupRequest : cleanups' = Append(cleanups, m)
           /\ cleanups' \in Seq(CleanupRequest)
           /\ HandOK'
<1>1. BackendCleanup(ident[k]) \in CleanupRequest
  BY DEF TypeInv, TypeOK, CleanupRequest
<1>2. HandOK'
  BY DEF EndTask, TypeInv, TypeOK, HandOK
<1> QED  BY <1>1, <1>2 DEF EndTask, TypeInv, TypeOK, ConnState, NothingInHand

\* Every step keeps the types.

LEMMA TypeStep == TypeInv /\ [Next]_vars => TypeInv'
<1> SUFFICES ASSUME TypeInv, [Next]_vars PROVE TypeInv'
  OBVIOUS
<1> USE UsesAreUses, LineTypes DEF callVars, connVars
<1>1. ASSUME NEW c \in Calls, Reject(c) PROVE TypeInv'
  BY <1>1, AbandonTypes DEF Reject, Outcomes, EarlyOutcome
<1>2. ASSUME NEW c \in Calls, BeginRequest(c) PROVE TypeInv'
  <2>1. TypeOK'
    BY <1>2 DEF BeginRequest, TypeInv, TypeOK, CallState
  <2>2. HandOK'
    BY <1>2 DEF BeginRequest, TypeInv, HandOK
  <2>3. CleanerOK'
    BY <1>2, CleanerKept DEF BeginRequest, TypeInv, TypeOK
  <2> QED  BY <2>1, <2>2, <2>3 DEF TypeInv
<1>3. ASSUME NEW c \in Calls, BeginInfo(c) PROVE TypeInv'
  <2>1. TypeOK'
    BY <1>3 DEF BeginInfo, TypeInv, TypeOK, CallState
  <2>2. HandOK'
    BY <1>3 DEF BeginInfo, TypeInv, HandOK
  <2>3. CleanerOK'
    BY <1>3, CleanerKept DEF BeginInfo, TypeInv, TypeOK
  <2> QED  BY <2>1, <2>2, <2>3 DEF TypeInv
<1>4. ASSUME NEW c \in Calls, CheckBackend(c) PROVE TypeInv'
  <2>1. TypeOK'
    BY <1>4 DEF CheckBackend, TypeInv, TypeOK, CallState
  <2>2. HandOK'
    BY <1>4 DEF CheckBackend, TypeInv, HandOK
  <2>3. CleanerOK'
    BY <1>4, CleanerKept DEF CheckBackend, TypeInv, TypeOK
  <2> QED  BY <2>1, <2>2, <2>3 DEF TypeInv
<1>5. ASSUME NEW c \in Calls, CheckBackendFails(c) PROVE TypeInv'
  BY <1>5, AbandonTypes DEF CheckBackendFails, Outcomes, EarlyOutcome
<1>6. ASSUME NEW c \in Calls, Insert(c) PROVE TypeInv'
  <2>1. TypeOK'
    BY <1>6 DEF Insert, TypeInv, TypeOK, CallState
  <2>2. HandOK'
    BY <1>6 DEF Insert, TypeInv, HandOK
  <2>3. CleanerOK'
    BY <1>6, CleanerKept DEF Insert, TypeInv, TypeOK
  <2> QED  BY <2>1, <2>2, <2>3 DEF TypeInv
<1>7. ASSUME NEW c \in Calls, Lookup(c) PROVE TypeInv'
  <2>1. TypeOK'
    BY <1>7 DEF Lookup, TypeInv, TypeOK, CallState
  <2>2. HandOK'
    BY <1>7 DEF Lookup, TypeInv, HandOK
  <2>3. CleanerOK'
    BY <1>7, CleanerKept DEF Lookup, TypeInv, TypeOK
  <2> QED  BY <2>1, <2>2, <2>3 DEF TypeInv
<1>8. ASSUME NEW c \in Calls, LookupFails(c) PROVE TypeInv'
  BY <1>8, AbandonTypes DEF LookupFails, Outcomes, EarlyOutcome
<1>9. ASSUME NEW c \in Calls, Send(c) PROVE TypeInv'
  <2> DEFINE k == backends[target[c]]
  <2>1. TypeOK'
    <3>1. \A j \in Conns : Append(chan[j], c) \in Seq(Calls)
      BY DEF TypeInv, TypeOK
    <3>2. chan' \in [Conns -> Seq(Calls)]
      BY <1>9, <3>1 DEF Send, TypeInv, TypeOK
    <3> QED  BY <1>9, <3>2 DEF Send, TypeInv, TypeOK, CallState
  <2>2. HandOK'
    BY <1>9 DEF Send, TypeInv, HandOK
  <2>3. CleanerOK'
    BY <1>9, CleanerKept DEF Send, TypeInv, TypeOK
  <2> QED  BY <2>1, <2>2, <2>3 DEF TypeInv
<1>10. ASSUME NEW c \in Calls, SendFails(c) PROVE TypeInv'
  BY <1>10, AbandonTypes DEF SendFails, Outcomes, EarlyOutcome
<1>11. ASSUME NEW c \in Calls, Return(c) PROVE TypeInv'
  BY <1>11, DropHandleTypes DEF Return, Outcomes, HandleOutcome, OutcomeOf
<1>12. ASSUME NEW c \in Calls, Timeout(c) PROVE TypeInv'
  BY <1>12, DropHandleTypes DEF Timeout, Outcomes, HandleOutcome
<1>13. ASSUME NEW c \in Calls, Cancel(c) PROVE TypeInv'
  BY <1>13, AbandonTypes, DropHandleTypes DEF Cancel, Outcomes, EarlyOutcome, HandleOutcome
<1>14. ASSUME NEW k \in Conns, Hello(k) PROVE TypeInv'
  <2>1. TypeOK'
    BY <1>14 DEF Hello, TypeInv, TypeOK, HandOK, ConnState, NothingInHand
  <2>2. HandOK'
    BY <1>14 DEF Hello, TypeInv, TypeOK, HandOK
  <2>3. CleanerOK'
    BY <1>14, CleanerKept DEF Hello, TypeInv, TypeOK
  <2> QED  BY <2>1, <2>2, <2>3 DEF TypeInv
<1>15. ASSUME NEW k \in Conns, HelloFails(k) PROVE TypeInv'
  <2>1. TypeOK'
    BY <1>15 DEF HelloFails, TypeInv, TypeOK, HandOK, ConnState,
       NothingInHand
  <2>2. HandOK'
    BY <1>15 DEF HelloFails, TypeInv, TypeOK, HandOK
  <2>3. CleanerOK'
    BY <1>15, CleanerKept DEF HelloFails, TypeInv, TypeOK
  <2> QED  BY <2>1, <2>2, <2>3 DEF TypeInv
<1>16. ASSUME NEW k \in Conns, RegisterBackend(k) PROVE TypeInv'
  <2>1. TypeOK'
    <3>1. backends' \in [BackendIds -> Conns \cup {NoConn}]
      <4>1. CASE backends' = [backends EXCEPT ![ident[k]] = k]
        BY <4>1 DEF TypeInv, TypeOK
      <4>2. CASE UNCHANGED backends
        BY <4>2 DEF TypeInv, TypeOK
      <4> QED  BY <1>16, <4>1, <4>2 DEF RegisterBackend
    <3>2. task' \in [Conns -> ConnState]
      BY <1>16 DEF RegisterBackend, TypeInv, TypeOK, ConnState
    <3> QED  BY <1>16, <3>1, <3>2 DEF RegisterBackend, TypeInv, TypeOK
  <2>2. HandOK'
    BY <1>16 DEF RegisterBackend, TypeInv, TypeOK, HandOK
  <2>3. CleanerOK'
    BY <1>16, CleanerKept DEF RegisterBackend, TypeInv, TypeOK
  <2> QED  BY <2>1, <2>2, <2>3 DEF TypeInv
<1>17. ASSUME NEW k \in Conns, TakeRequest(k) PROVE TypeInv'
  <2>1. TypeOK'
    BY <1>17 DEF TakeRequest, TypeInv, TypeOK, HandOK, ConnState,
       NothingInHand
  <2>2. HandOK'
    BY <1>17 DEF TakeRequest, TypeInv, TypeOK, HandOK
  <2>3. CleanerOK'
    BY <1>17, CleanerKept DEF TakeRequest, TypeInv, TypeOK
  <2> QED  BY <2>1, <2>2, <2>3 DEF TypeInv
<1>18. ASSUME NEW k \in Conns, Forward(k) PROVE TypeInv'
  <2>1. TypeOK'
    BY <1>18 DEF Forward, TypeInv, TypeOK, HandOK, ConnState, NothingInHand
  <2>2. HandOK'
    BY <1>18 DEF Forward, TypeInv, TypeOK, HandOK
  <2>3. CleanerOK'
    BY <1>18, CleanerKept DEF Forward, TypeInv, TypeOK
  <2> QED  BY <2>1, <2>2, <2>3 DEF TypeInv
<1>19. ASSUME NEW k \in Conns, ForwardFails(k) PROVE TypeInv'
  <2>1. TypeOK'
    BY <1>19, EndTaskTypes DEF ForwardFails, TypeInv, TypeOK
  <2>2. HandOK'
    BY <1>19, EndTaskTypes DEF ForwardFails, TypeInv
  <2>3. CleanerOK'
    BY <1>19, CleanerKept, EndTaskTypes DEF ForwardFails, TypeInv, TypeOK
  <2> QED  BY <2>1, <2>2, <2>3 DEF TypeInv
<1>20. ASSUME NEW k \in Conns, TakeAnswer(k) PROVE TypeInv'
  <2>1. TypeOK'
    BY <1>20, BrokerAssumption DEF TakeAnswer, TypeInv, TypeOK, HandOK,
       ConnState, NothingInHand
  <2>2. HandOK'
    BY <1>20, BrokerAssumption DEF TakeAnswer, TypeInv, TypeOK, HandOK
  <2>3. CleanerOK'
    BY <1>20, CleanerKept DEF TakeAnswer, TypeInv, TypeOK
  <2> QED  BY <2>1, <2>2, <2>3 DEF TypeInv
<1>21. ASSUME NEW k \in Conns, HandleAnswer(k) PROVE TypeInv'
  <2> DEFINE c == Addressee(k)
             r == hand[k].reply
  <2>1. /\ requests' \in [Calls -> {"absent", "pending", "responded"}]
        /\ reply' \in [Calls -> KindOfReply \cup {NoReply}]
        /\ requestsLine' = Leave(requestsLine, {Respond(k)})
        /\ UNCHANGED <<pc, kind, target, outcome, announced, backends, backendsLine>>
    BY <1>21 DEF HandleAnswer, AfterRespond, TypeInv, TypeOK
  <2>2. CASE EndTask(k)
    BY <2>1, <2>2, EndTaskTypes, CleanerKept DEF TypeInv, TypeOK
  <2>3. CASE /\ task' = [task EXCEPT ![k] = "running"]
             /\ hand' = [hand EXCEPT ![k] = NothingInHand]
             /\ UNCHANGED <<ident, chan, out, received, cleanups>>
    <3>1. TypeOK'
      BY <2>1, <2>3 DEF TypeInv, TypeOK, ConnState, NothingInHand
    <3>2. HandOK'
      BY <2>3 DEF TypeInv, TypeOK, HandOK
    <3>3. CleanerOK'
      BY <2>1, <2>3, CleanerKept DEF TypeInv, TypeOK
    <3> QED  BY <3>1, <3>2, <3>3 DEF TypeInv
  <2> QED  BY <1>21, <2>2, <2>3 DEF HandleAnswer
<1>22. ASSUME NEW k \in Conns, EndOfStream(k) PROVE TypeInv'
  <2>1. TypeOK'
    BY <1>22, EndTaskTypes DEF EndOfStream, TypeInv, TypeOK
  <2>2. HandOK'
    BY <1>22, EndTaskTypes DEF EndOfStream, TypeInv
  <2>3. CleanerOK'
    BY <1>22, CleanerKept, EndTaskTypes DEF EndOfStream, TypeInv, TypeOK
  <2> QED  BY <2>1, <2>2, <2>3 DEF TypeInv
<1>23. ASSUME NEW k \in Conns, BackendReceives(k) PROVE TypeInv'
  <2>1. TypeOK'
    BY <1>23 DEF BackendReceives, TypeInv, TypeOK, HandOK, ConnState,
       NothingInHand
  <2>2. HandOK'
    BY <1>23 DEF BackendReceives, TypeInv, TypeOK, HandOK
  <2>3. CleanerOK'
    BY <1>23, CleanerKept DEF BackendReceives, TypeInv, TypeOK
  <2> QED  BY <2>1, <2>2, <2>3 DEF TypeInv
<1>24. ASSUME TakeCleanup PROVE TypeInv'
  <2>1. TypeOK'
    BY <1>24 DEF TakeCleanup, TypeInv, TypeOK
  <2>2. HandOK'
    BY <1>24 DEF TakeCleanup, TypeInv, HandOK
  <2>3. CleanerOK'
    BY <1>24 DEF TakeCleanup, TypeInv, TypeOK, CleanerOK, Queued
  <2> QED  BY <2>1, <2>2, <2>3 DEF TypeInv
<1>25. ASSUME CleanRequest PROVE TypeInv'
  <2>1. cleanups # <<>> /\ Clean \in RequestsUses /\ Clean \in BackendsUses
    BY <1>25 DEF CleanRequest, HoldsRequests, HoldsAlone, TypeInv, CleanerOK
  <2>2. Tail(cleanups) \in Seq(CleanupRequest)
    BY <2>1 DEF TypeInv, TypeOK
  <2>3. requests' \in [Calls -> {"absent", "pending", "responded"}]
    BY <1>25 DEF CleanRequest, AfterCleanup, TypeInv, TypeOK
  <2>4. TypeOK'
    BY <1>25, <2>1, <2>2, <2>3 DEF CleanRequest, AfterCleanup, TypeInv,
       TypeOK
  <2>5. HandOK'
    BY <1>25 DEF CleanRequest, TypeInv, HandOK
  <2>6. CleanerOK'
    BY <1>25 DEF CleanRequest, HoldsRequests, HoldsAlone, TypeInv, TypeOK,
       CleanerOK
  <2> QED  BY <2>4, <2>5, <2>6 DEF TypeInv
<1>26. ASSUME CleanBackend PROVE TypeInv'
  <2>1. cleanups # <<>> /\ Clean \in RequestsUses /\ Clean \in BackendsUses
    BY <1>26 DEF CleanBackend, WritesBackends, HoldsAlone, TypeInv,
       CleanerOK
  <2>2. Tail(cleanups) \in Seq(CleanupRequest)
    BY <2>1 DEF TypeInv, TypeOK
  <2>3. backends' \in [BackendIds -> Conns \cup {NoConn}]
    BY <1>26 DEF CleanBackend, TypeInv, TypeOK
  <2>4. TypeOK'
    BY <1>26, <2>1, <2>2, <2>3 DEF CleanBackend, TypeInv, TypeOK
  <2>5. HandOK'
    BY <1>26 DEF CleanBackend, TypeInv, HandOK
  <2>6. CleanerOK'
    BY <1>26 DEF CleanBackend, WritesBackends, HoldsAlone, TypeInv, TypeOK,
       CleanerOK
  <2> QED  BY <2>4, <2>5, <2>6 DEF TypeInv
<1>27. CASE UNCHANGED vars
  BY <1>27 DEF TypeInv, TypeOK, HandOK, CleanerOK, vars
<1> QED
  BY <1>1, <1>2, <1>3, <1>4, <1>5, <1>6, <1>7, <1>8, <1>9, <1>10, <1>11,
     <1>12, <1>13, <1>14, <1>15, <1>16, <1>17, <1>18, <1>19, <1>20, <1>21,
     <1>22, <1>23, <1>24, <1>25, <1>26, <1>27 DEF Next, ServerStep,
     PluginStep, BackendStep, CallStep, ConnStep, CleanupStep

LEMMA TypeInit == Init => TypeInv
<1> SUFFICES ASSUME Init PROVE TypeInv
  OBVIOUS
<1>1. TypeOK
  BY BrokerAssumption, Z3 DEF Init, TypeOK, CallState, ConnState, EmptyLine, NothingInHand, Outcomes
<1>2. HandOK /\ CleanerOK
  BY UsesAreUses DEF Init, HandOK, CleanerOK, EmptyLine
<1> QED  BY <1>1, <1>2 DEF TypeInv

\* The variables always have their types, whatever the parameters are.
THEOREM TypeCorrect == Spec => []TypeOK
<1>1. TypeInv => TypeOK
  BY DEF TypeInv
<1> QED  BY <1>1, TypeInit, TypeStep, PTL DEF Spec


-----------------------------------------------------------------------------
(* Registrations *)

\* A cleanup message is determined by its type and its id.
LEMMA CleanupMessages ==
    /\ \A c \in Calls, b \in BackendIds : RequestCleanup(c) # BackendCleanup(b)
    /\ \A c, d \in Calls : RequestCleanup(c) = RequestCleanup(d) => c = d
    /\ \A a, b \in BackendIds : BackendCleanup(a) = BackendCleanup(b) => a = b
    /\ \A m \in CleanupRequest :
          /\ m.type = "Request" => m.id \in Calls /\ m = RequestCleanup(m.id)
          /\ m.type = "Backend" => m.id \in BackendIds /\ m = BackendCleanup(m.id)
    /\ \A c \in Calls : RequestCleanup(c) \in CleanupRequest
    /\ \A b \in BackendIds : BackendCleanup(b) \in CleanupRequest
<1>1. /\ \A c : RequestCleanup(c).type = "Request" /\ RequestCleanup(c).id = c
      /\ \A b : BackendCleanup(b).type = "Backend" /\ BackendCleanup(b).id = b
  BY DEF RequestCleanup, BackendCleanup
<1>2. \A m \in CleanupRequest : \/ \E c \in Calls : m = RequestCleanup(c)
                                \/ \E b \in BackendIds : m = BackendCleanup(b)
  BY DEF CleanupRequest
<1> QED  BY <1>1, <1>2 DEF CleanupRequest

\* What becomes of the messages when one is sent, and when one is served.
LEMMA Queueing ==
    ASSUME TypeInv
    PROVE  /\ \A n \in CleanupRequest, m \in CleanupRequest :
                 /\ Occurs(m, Append(cleanups, n)) <=> Pending(m) \/ m = n
                 /\ AtMostOnce(m, cleanups) /\ ~(m = n /\ Pending(m)) =>
                       AtMostOnce(m, Append(cleanups, n))
           /\ cleanups # <<>> =>
                 /\ Head(cleanups) \in CleanupRequest
                 /\ Pending(Head(cleanups))
                 /\ \A m \in CleanupRequest :
                       /\ Occurs(m, Tail(cleanups)) => Pending(m)
                       /\ Pending(m) /\ m # Head(cleanups) => Occurs(m, Tail(cleanups))
                       /\ AtMostOnce(m, cleanups) => AtMostOnce(m, Tail(cleanups))
                       /\ AtMostOnce(m, cleanups) /\ m = Head(cleanups) =>
                             ~Occurs(m, Tail(cleanups))
<1>1. cleanups \in Seq(CleanupRequest)
  BY DEF TypeInv, TypeOK
<1> QED  BY <1>1, OccursAppend, OccursTail DEF Pending

\* The message that cleanup_task serves while it holds a lock.
LEMMA Served ==
    ASSUME TypeInv
    PROVE  /\ CleanRequest => /\ cleanups # <<>>
                              /\ Head(cleanups).id \in Calls
                              /\ Head(cleanups) = RequestCleanup(Head(cleanups).id)
           /\ CleanBackend => /\ cleanups # <<>>
                              /\ Head(cleanups).id \in BackendIds
                              /\ Head(cleanups) = BackendCleanup(Head(cleanups).id)
<1>1. cleanups # <<>> => Head(cleanups) \in CleanupRequest
  BY Queueing
<1>2. CleanRequest => cleanups # <<>> /\ Head(cleanups).type = "Request"
  BY DEF CleanRequest, HoldsRequests, HoldsAlone, TypeInv, CleanerOK
<1>3. CleanBackend => cleanups # <<>> /\ Head(cleanups).type = "Backend"
  BY DEF CleanBackend, WritesBackends, HoldsAlone, TypeInv, CleanerOK
<1> QED  BY <1>1, <1>2, <1>3, CleanupMessages

\* The conjuncts of OneOwnerPerBackend, for the id b.
OwnerOf(b) ==
    /\ \A k \in Conns : ident[k] = b /\ IsLive(k) => backends[b] = k /\ ~Pending(BackendCleanup(b))
    /\ backends[b] # NoConn =>
          /\ ident[backends[b]] = b
          /\ IsLive(backends[b]) \/ (task[backends[b]] = "ended" /\ Pending(BackendCleanup(b)))
    /\ Pending(BackendCleanup(b)) => backends[b] # NoConn
    /\ AtMostOnce(BackendCleanup(b), cleanups)

\* A step that starts and ends no task, registers nobody and leaves the
\* messages about b alone keeps the owner of b.
LEMMA OwnerFrame ==
    ASSUME TypeInv, NEW b \in BackendIds, OwnerOf(b),
           UNCHANGED <<ident, backends>>,
           \A k \in Conns : IsLive(k)' <=> IsLive(k),
           \A k \in Conns : task[k] = "ended" => task'[k] = "ended",
           Pending(BackendCleanup(b))' <=> Pending(BackendCleanup(b)),
           AtMostOnce(BackendCleanup(b), cleanups)'
    PROVE  OwnerOf(b)'
BY DEF OwnerOf, TypeInv, TypeOK

\* Every step keeps the owner of every id.
LEMMA OwnerStep == TypeInv /\ OneOwnerPerBackend /\ [Next]_vars => OneOwnerPerBackend'
<1> SUFFICES ASSUME TypeInv, [Next]_vars, NEW b \in BackendIds,
                    \A a \in BackendIds : OwnerOf(a)
             PROVE  OwnerOf(b)'
  BY DEF OneOwnerPerBackend, OwnerOf
<1> DEFINE m == BackendCleanup(b)
<1>1. m \in CleanupRequest /\ \A c \in Calls : m # RequestCleanup(c)
  BY CleanupMessages
<1>2. AtMostOnce(m, cleanups)
  BY DEF OwnerOf
<1>3. ASSUME UNCHANGED <<ident, backends, task>>,
             cleanups' = cleanups \/ \E c \in Calls : cleanups' = Append(cleanups, RequestCleanup(c))
      PROVE  OwnerOf(b)'
  <2>1. (Pending(m)' <=> Pending(m)) /\ AtMostOnce(m, cleanups)'
    <3>1. CASE cleanups' = cleanups
      BY <1>2, <3>1 DEF Pending
    <3>2. ASSUME NEW c \in Calls, cleanups' = Append(cleanups, RequestCleanup(c))
          PROVE  (Pending(m)' <=> Pending(m)) /\ AtMostOnce(m, cleanups)'
      BY <1>1, <1>2, <3>2, Queueing, CleanupMessages DEF Pending
    <3> QED  BY <1>3, <3>1, <3>2
  <2> QED  BY <1>3, <2>1, OwnerFrame DEF IsLive
<1>4. ASSUME NEW c \in Calls, CallStep(c) \/ PluginStep(c) PROVE OwnerOf(b)'
  <2>1. /\ UNCHANGED <<ident, backends, task>>
        /\ cleanups' = cleanups \/ cleanups' = Append(cleanups, RequestCleanup(c))
    BY <1>4 DEF CallStep, PluginStep, Reject, BeginRequest, BeginInfo,
       CheckBackend, CheckBackendFails, Insert, Lookup, LookupFails, Send,
       SendFails, Return, Timeout, Cancel, Abandon, DropHandle, connVars
  <2> QED  BY <2>1, <1>3
<1>5. ASSUME NEW k \in Conns,
             \/ Hello(k) \/ HelloFails(k) \/ TakeRequest(k) \/ Forward(k)
             \/ TakeAnswer(k) \/ BackendReceives(k)
      PROVE  OwnerOf(b)'
  <2>1. /\ UNCHANGED <<ident, backends, cleanups>>
        /\ \A j \in Conns : IsLive(j)' <=> IsLive(j)
        /\ \A j \in Conns : task[j] = "ended" => task'[j] = "ended"
    BY <1>5 DEF Hello, HelloFails, TakeRequest, Forward, TakeAnswer,
       BackendReceives, callVars, IsLive, TypeInv, TypeOK
  <2> QED  BY <2>1, <1>2, OwnerFrame DEF Pending
<1>6. ASSUME NEW k \in Conns, RegisterBackend(k) PROVE OwnerOf(b)'
  <2>1. CASE ident[k] = b /\ ~IdTaken(b)
    <3>1. /\ backends[b] = NoConn /\ backends'[b] = k /\ task'[k] = "running"
          /\ UNCHANGED <<ident, cleanups>>
          /\ \A j \in Conns : j # k => task'[j] = task[j]
      BY <1>6, <2>1 DEF RegisterBackend, IdTaken, TypeInv, TypeOK
    <3>2. ~Pending(m)' /\ AtMostOnce(m, cleanups)'
      BY <1>2, <3>1 DEF OwnerOf, Pending
    <3>3. \A j \in Conns : ident[j] = b => ~IsLive(j)
      BY <3>1, BrokerAssumption DEF OwnerOf
    <3> QED  BY <2>1, <3>1, <3>2, <3>3 DEF OwnerOf, IsLive
  <2>2. CASE ~(ident[k] = b /\ ~IdTaken(b))
    BY <1>6, <2>2 DEF RegisterBackend, IdTaken, OwnerOf, IsLive, Pending, TypeInv, TypeOK
  <2> QED  BY <2>1, <2>2
<1>7. ASSUME NEW k \in Conns, EndTask(k), IsLive(k), UNCHANGED backends
      PROVE  OwnerOf(b)'
  <2>1. CASE ident[k] = b
    <3>1. backends[b] = k /\ ~Pending(m)
      BY <1>7, <2>1 DEF OwnerOf
    <3>2. Pending(m)' /\ AtMostOnce(m, cleanups)'
      BY <1>1, <1>2, <1>7, <2>1, <3>1, Queueing DEF EndTask, Pending
    <3>3. UNCHANGED <<ident, backends>> /\ task' = [task EXCEPT ![k] = "ended"]
      BY <1>7 DEF EndTask
    <3>4. \A j \in Conns : ident[j] = b => ~IsLive(j)'
      BY <3>1, <3>3 DEF OwnerOf, IsLive, TypeInv, TypeOK
    <3>5. backends'[b] = k /\ ident'[k] = b /\ task'[k] = "ended" /\ k # NoConn
      BY <2>1, <3>1, <3>3, BrokerAssumption DEF TypeInv, TypeOK
    <3> QED  BY <3>2, <3>3, <3>4, <3>5 DEF OwnerOf, IsLive
  <2>2. CASE ident[k] # b
    <3>1. m # BackendCleanup(ident[k]) /\ BackendCleanup(ident[k]) \in CleanupRequest
      BY <2>2, CleanupMessages DEF TypeInv, TypeOK
    <3>2. (Pending(m)' <=> Pending(m)) /\ AtMostOnce(m, cleanups)'
      BY <1>1, <1>2, <1>7, <3>1, Queueing DEF EndTask, Pending
    <3>3. UNCHANGED <<ident, backends>> /\ task' = [task EXCEPT ![k] = "ended"]
      BY <1>7 DEF EndTask
    <3> QED  BY <2>2, <3>2, <3>3 DEF OwnerOf, IsLive, TypeInv, TypeOK
  <2> QED  BY <2>1, <2>2
<1>8. ASSUME NEW k \in Conns, ForwardFails(k) \/ EndOfStream(k) PROVE OwnerOf(b)'
  BY <1>7, <1>8 DEF ForwardFails, EndOfStream, IsLive
<1>9. ASSUME NEW k \in Conns, HandleAnswer(k) PROVE OwnerOf(b)'
  <2>1. CASE EndTask(k)
    BY <1>7, <1>9, <2>1 DEF HandleAnswer, IsLive
  <2>2. CASE /\ task' = [task EXCEPT ![k] = "running"]
             /\ UNCHANGED <<ident, cleanups>>
    <3>1. \A j \in Conns : (IsLive(j)' <=> IsLive(j)) /\ (task[j] = "ended" => task'[j] = "ended")
      BY <1>9, <2>2 DEF HandleAnswer, IsLive, TypeInv, TypeOK
    <3> QED  BY <1>2, <1>9, <2>2, <3>1, OwnerFrame DEF HandleAnswer, Pending
  <2> QED  BY <1>9, <2>1, <2>2 DEF HandleAnswer
<1>10. CASE TakeCleanup
  BY <1>3, <1>10 DEF TakeCleanup, connVars
<1>11. CASE CleanRequest
  <2>1. (Pending(m)' <=> Pending(m)) /\ AtMostOnce(m, cleanups)'
    BY <1>1, <1>2, <1>11, Served, Queueing DEF CleanRequest, Pending
  <2> QED  BY <1>11, <2>1, OwnerFrame DEF CleanRequest, connVars, IsLive
<1>12. CASE CleanBackend
  <2> DEFINE h == Head(cleanups)
  <2>1. cleanups # <<>> /\ h.id \in BackendIds /\ h = BackendCleanup(h.id)
    BY <1>12, Served
  <2>2. /\ cleanups' = Tail(cleanups)
        /\ backends' = [backends EXCEPT ![h.id] = NoConn]
        /\ UNCHANGED <<task, ident>>
    BY <1>12 DEF CleanBackend, connVars
  <2>3. AtMostOnce(m, cleanups)'
    BY <1>1, <1>2, <2>1, <2>2, Queueing
  <2>4. CASE h.id = b
    <3>1. Pending(m) /\ ~Pending(m)'
      BY <1>1, <1>2, <2>1, <2>2, <2>4, Queueing DEF Pending
    <3>2. backends'[b] = NoConn
      BY <2>2, <2>4 DEF TypeInv, TypeOK
    <3> QED  BY <2>2, <2>3, <3>1, <3>2 DEF OwnerOf, IsLive
  <2>5. CASE h.id # b
    <3>1. m # h
      BY <2>1, <2>5, CleanupMessages
    <3>2. (Pending(m)' <=> Pending(m))
      BY <1>1, <2>1, <2>2, <3>1, Queueing DEF Pending
    <3>3. backends'[b] = backends[b]
      BY <2>2, <2>5 DEF TypeInv, TypeOK
    <3> QED  BY <2>2, <2>3, <3>2, <3>3 DEF OwnerOf, IsLive
  <2> QED  BY <2>4, <2>5
<1>13. CASE UNCHANGED vars
  BY <1>3, <1>13 DEF vars, connVars
<1> QED
  BY <1>4, <1>5, <1>6, <1>8, <1>9, <1>10, <1>11, <1>12, <1>13
     DEF Next, ServerStep, BackendStep, ConnStep, CleanupStep

LEMMA OwnerInit == Init => OneOwnerPerBackend
<1> SUFFICES ASSUME Init, NEW b \in BackendIds PROVE OwnerOf(b)
  BY DEF OneOwnerPerBackend, OwnerOf
<1>1. \A m : ~Pending(m) /\ AtMostOnce(m, cleanups)
  BY DEF Init, Pending, Occurs, AtMostOnce
<1> QED  BY <1>1 DEF Init, OwnerOf, IsLive

\* A backend id always belongs to at most one live connection or one pending
\* cleanup message, never to both.
THEOREM OneOwner == Spec => []OneOwnerPerBackend
BY TypeInit, TypeStep, OwnerInit, OwnerStep, PTL DEF Spec


LEMMA OwnersGoStep ==
    TypeInv /\ OneOwnerPerBackend /\ [Next]_vars => [OnlyEndedOwnersGo]_vars
<1> SUFFICES ASSUME TypeInv, OneOwnerPerBackend, Next, NEW b \in BackendIds,
                    backends[b] # NoConn, backends'[b] # backends[b]
             PROVE  backends'[b] = NoConn /\ task[backends[b]] = "ended"
  BY DEF OnlyEndedOwnersGo
<1>1. ASSUME NEW k \in Conns, RegisterBackend(k) PROVE backends'[b] = backends[b]
  BY <1>1 DEF RegisterBackend, IdTaken, TypeInv, TypeOK
<1>2. CASE CleanBackend
  <2>1. /\ cleanups # <<>> /\ Head(cleanups).id = b
        /\ Head(cleanups) = BackendCleanup(b) /\ backends'[b] = NoConn
    BY <1>2, Served DEF CleanBackend, TypeInv, TypeOK
  <2>2. Pending(BackendCleanup(b))
    BY <2>1, Queueing
  <2>3. backends[b] \in Conns /\ ident[backends[b]] = b
    BY DEF OneOwnerPerBackend, TypeInv, TypeOK
  <2> QED  BY <2>1, <2>2, <2>3 DEF OneOwnerPerBackend
<1>3. CASE UNCHANGED backends
  BY <1>3
<1>4. ASSUME NEW c \in Calls, CallStep(c) \/ PluginStep(c) PROVE UNCHANGED backends
  BY <1>4 DEF CallStep, PluginStep, Reject, BeginRequest, BeginInfo,
     CheckBackend, CheckBackendFails, Insert, Lookup, LookupFails, Send,
     SendFails, Return, Timeout, Cancel, Abandon, DropHandle
<1>5. ASSUME NEW k \in Conns,
             BackendStep(k) \/ TakeRequest(k) \/ Forward(k) \/ HandleAnswer(k)
      PROVE  UNCHANGED backends
  BY <1>5 DEF BackendStep, Hello, HelloFails, TakeAnswer, BackendReceives,
     ForwardFails, EndOfStream, TakeRequest, Forward, HandleAnswer
<1>6. CASE TakeCleanup \/ CleanRequest
  BY <1>3, <1>6 DEF TakeCleanup, CleanRequest
<1> QED
  BY <1>1, <1>2, <1>3, <1>4, <1>5, <1>6 DEF Next, ServerStep, ConnStep, CleanupStep

\* A registration is only ever removed, and only after its connection ended.
THEOREM SuccessorKept == Spec => NoSuccessorEvicted
BY TypeInit, TypeStep, OwnerInit, OwnerStep, OwnersGoStep, PTL
   DEF Spec, NoSuccessorEvicted


-----------------------------------------------------------------------------
(* Requests *)

\* Where the entry, the answer and the cleanup message of call c are: before
\* Insert there is none of them; from then on the entry is pending or the oneshot
\* has an answer; the message exists once, from the end of the call until it is
\* served, and an entry that is still there does not outlast it.
RequestOf(c) ==
    /\ pc[c] \in {"idle", "guarding", "locking"} => requests[c] = "absent" /\ reply[c] = NoReply
    /\ pc[c] \in {"lookup", "sending", "waiting"} =>
          (requests[c] = "pending" <=> reply[c] = NoReply)
    /\ Pending(RequestCleanup(c)) => pc[c] = "done" /\ outcome[c] \in HandleOutcome
    /\ pc[c] = "done" /\ outcome[c] \in HandleOutcome /\ requests[c] # "absent" =>
          Pending(RequestCleanup(c))
    /\ AtMostOnce(RequestCleanup(c), cleanups)

RequestInv == \A c \in Calls : RequestOf(c)

\* What is left to show for a step that leaves call c alone.
LEMMA RequestFrame ==
    ASSUME NEW c \in Calls, RequestOf(c),
           pc'[c] = pc[c], outcome'[c] = outcome[c], reply'[c] = reply[c],
           requests'[c] = requests[c],
           Pending(RequestCleanup(c))' <=> Pending(RequestCleanup(c)),
           AtMostOnce(RequestCleanup(c), cleanups)'
    PROVE  RequestOf(c)'
BY DEF RequestOf

\* The message of call c is not disturbed by a message about something else.
LEMMA OtherMessage ==
    ASSUME TypeInv, NEW c \in Calls, RequestOf(c),
           NEW n \in CleanupRequest, n # RequestCleanup(c),
           cleanups' = cleanups \/ cleanups' = Append(cleanups, n)
    PROVE  /\ Pending(RequestCleanup(c))' <=> Pending(RequestCleanup(c))
           /\ AtMostOnce(RequestCleanup(c), cleanups)'
<1>1. RequestCleanup(c) \in CleanupRequest /\ AtMostOnce(RequestCleanup(c), cleanups)
  BY CleanupMessages DEF RequestOf
<1>2. CASE cleanups' = cleanups
  BY <1>1, <1>2 DEF Pending
<1>3. CASE cleanups' = Append(cleanups, n)
  BY <1>1, <1>3, Queueing DEF Pending
<1> QED  BY <1>2, <1>3

LEMMA RequestAbandon ==
    ASSUME TypeInv, RequestInv, NEW c \in Calls, NEW d \in Calls,
           pc[d] # "done", NEW res \in EarlyOutcome, Abandon(d, res)
    PROVE  RequestOf(c)'
<1> USE DEF RequestInv
<1>1. /\ Pending(RequestCleanup(c))' <=> Pending(RequestCleanup(c))
      /\ AtMostOnce(RequestCleanup(c), cleanups)'
  BY DEF Abandon, Pending, RequestOf
<1>2. CASE c = d
  <2>1. pc'[c] = "done" /\ outcome'[c] \notin HandleOutcome /\ ~Pending(RequestCleanup(c))
    BY <1>2 DEF Abandon, RequestOf, TypeInv, TypeOK, EarlyOutcome, HandleOutcome
  <2> QED  BY <1>1, <2>1 DEF RequestOf
<1>3. CASE c # d
  BY <1>1, <1>3, RequestFrame DEF Abandon, TypeInv, TypeOK
<1> QED  BY <1>2, <1>3

LEMMA RequestDropHandle ==
    ASSUME TypeInv, RequestInv, NEW c \in Calls, NEW d \in Calls,
           pc[d] = "waiting", NEW res \in HandleOutcome, DropHandle(d, res)
    PROVE  RequestOf(c)'
<1> USE DEF RequestInv
<1>1. RequestCleanup(d) \in CleanupRequest
  BY CleanupMessages
<1>2. CASE c = d
  <2>1. pc'[c] = "done" /\ outcome'[c] \in HandleOutcome
    BY <1>2 DEF DropHandle, RequestOf, TypeInv, TypeOK
  <2>2. Pending(RequestCleanup(c))' /\ AtMostOnce(RequestCleanup(c), cleanups)'
    BY <1>1, <1>2, Queueing DEF DropHandle, RequestOf, Pending
  <2> QED  BY <2>1, <2>2 DEF RequestOf
<1>3. CASE c # d
  <2>1. RequestCleanup(d) # RequestCleanup(c)
    BY <1>3, CleanupMessages
  <2>2. /\ Pending(RequestCleanup(c))' <=> Pending(RequestCleanup(c))
        /\ AtMostOnce(RequestCleanup(c), cleanups)'
    BY <1>1, <2>1, OtherMessage DEF DropHandle
  <2> QED  BY <1>3, <2>2, RequestFrame DEF DropHandle, TypeInv, TypeOK
<1> QED  BY <1>2, <1>3

\* Every step keeps the requests in order.
LEMMA RequestStep == TypeInv /\ RequestInv /\ [Next]_vars => RequestInv'
<1> SUFFICES ASSUME TypeInv, RequestInv, [Next]_vars, NEW c \in Calls
             PROVE  RequestOf(c)'
  BY DEF RequestInv
<1> DEFINE m == RequestCleanup(c)
<1>1. RequestOf(c) /\ m \in CleanupRequest /\ \A b \in BackendIds : m # BackendCleanup(b)
  BY CleanupMessages DEF RequestInv
<1>2. ASSUME UNCHANGED <<pc, outcome, reply, requests, cleanups>>
      PROVE  RequestOf(c)'
  BY <1>1, <1>2 DEF RequestOf, Pending
<1>3. ASSUME NEW d \in Calls,
             Reject(d) \/ CheckBackendFails(d) \/ LookupFails(d) \/ SendFails(d)
      PROVE  RequestOf(c)'
  BY <1>3, RequestAbandon DEF Reject, CheckBackendFails, LookupFails, SendFails, EarlyOutcome
<1>4. ASSUME NEW d \in Calls, Return(d) \/ Timeout(d) PROVE RequestOf(c)'
  BY <1>4, RequestDropHandle DEF Return, Timeout, OutcomeOf, HandleOutcome
<1>5. ASSUME NEW d \in Calls, Cancel(d) PROVE RequestOf(c)'
  BY <1>5, RequestAbandon, RequestDropHandle DEF Cancel, EarlyOutcome, HandleOutcome
<1>6. ASSUME NEW d \in Calls,
             \/ BeginRequest(d) \/ BeginInfo(d) \/ CheckBackend(d)
             \/ Insert(d) \/ Lookup(d) \/ Send(d)
      PROVE  RequestOf(c)'
  <2>1. UNCHANGED <<outcome, reply, cleanups>>
    BY <1>6 DEF BeginRequest, BeginInfo, CheckBackend, Insert, Lookup, Send
  <2>2. CASE c # d
    <3>1. pc'[c] = pc[c] /\ requests'[c] = requests[c]
      BY <1>6, <2>2 DEF BeginRequest, BeginInfo, CheckBackend, Insert, Lookup, Send,
         TypeInv, TypeOK
    <3> QED  BY <1>1, <2>1, <3>1 DEF RequestOf, Pending
  <2>3. CASE c = d /\ Insert(d)
    <3>1. pc[c] = "locking" /\ pc'[c] = "lookup" /\ requests'[c] = "pending"
      BY <2>3 DEF Insert, TypeInv, TypeOK
    <3> QED  BY <1>1, <2>1, <3>1 DEF RequestOf, Pending
  <2>4. CASE c = d /\ ~Insert(d)
    <3>1. /\ requests'[c] = requests[c]
          /\ \/ /\ pc[c] \in {"idle", "guarding"} /\ pc'[c] \in {"guarding", "locking"}
             \/ /\ pc[c] \in {"lookup", "sending"} /\ pc'[c] \in {"sending", "waiting"}
      BY <1>6, <2>4 DEF BeginRequest, BeginInfo, CheckBackend, Lookup, Send,
         TypeInv, TypeOK
    <3> QED  BY <1>1, <2>1, <3>1 DEF RequestOf, Pending
  <2> QED  BY <2>2, <2>3, <2>4
<1>7. ASSUME NEW k \in Conns,
             \/ Hello(k) \/ HelloFails(k) \/ RegisterBackend(k) \/ TakeRequest(k)
             \/ Forward(k) \/ TakeAnswer(k) \/ BackendReceives(k)
      PROVE  RequestOf(c)'
  BY <1>2, <1>7 DEF Hello, HelloFails, RegisterBackend, TakeRequest, Forward,
     TakeAnswer, BackendReceives, callVars
<1>8. ASSUME NEW k \in Conns, EndTask(k)
      PROVE  (Pending(m)' <=> Pending(m)) /\ AtMostOnce(m, cleanups)'
  <2>1. ident[k] \in BackendIds
    BY DEF TypeInv, TypeOK
  <2> QED  BY <1>1, <1>8, <2>1, CleanupMessages, OtherMessage DEF EndTask
<1>9. ASSUME NEW k \in Conns, ForwardFails(k) \/ EndOfStream(k) PROVE RequestOf(c)'
  <2>1. EndTask(k) /\ UNCHANGED <<pc, outcome, reply, requests>>
    BY <1>9 DEF ForwardFails, EndOfStream, callVars
  <2> QED  BY <1>1, <1>8, <2>1, RequestFrame
<1>10. ASSUME NEW k \in Conns, HandleAnswer(k) PROVE RequestOf(c)'
  <2>1. (Pending(m)' <=> Pending(m)) /\ AtMostOnce(m, cleanups)'
    <3>1. CASE EndTask(k)
      BY <1>8, <3>1
    <3>2. CASE UNCHANGED cleanups
      BY <1>1, <3>2 DEF RequestOf, Pending
    <3> QED  BY <1>10, <3>1, <3>2 DEF HandleAnswer
  <2>2. UNCHANGED <<pc, outcome>>
    BY <1>10 DEF HandleAnswer
  <2>3. hand[k].call \in Calls /\ hand[k].reply # NoReply
    BY <1>10, BrokerAssumption DEF HandleAnswer, TypeInv, HandOK
  <2>4. CASE hand[k].call = c /\ requests[c] = "pending"
    <3>1. requests'[c] = "responded"
      BY <1>10, <2>4 DEF HandleAnswer, Addressee, AfterRespond, TypeInv, TypeOK
    <3>2. reply'[c] = IF ReceiverAlive(c) THEN hand[k].reply ELSE reply[c]
      BY <1>10, <2>4 DEF HandleAnswer, Addressee, TypeInv, TypeOK
    <3> QED  BY <1>1, <2>1, <2>2, <2>3, <2>4, <3>1, <3>2 DEF RequestOf, ReceiverAlive
  <2>5. CASE hand[k].call = c /\ requests[c] # "pending"
    <3>1. requests'[c] = "absent" /\ reply'[c] = reply[c]
      BY <1>10, <2>5 DEF HandleAnswer, Addressee, AfterRespond, TypeInv, TypeOK
    <3> QED  BY <1>1, <2>1, <2>2, <2>5, <3>1 DEF RequestOf
  <2>6. CASE hand[k].call # c
    <3>1. requests'[c] = requests[c] /\ reply'[c] = reply[c]
      BY <1>10, <2>3, <2>6 DEF HandleAnswer, Addressee, TypeInv, TypeOK
    <3> QED  BY <1>1, <2>1, <2>2, <3>1, RequestFrame
  <2> QED  BY <2>4, <2>5, <2>6
<1>11. CASE TakeCleanup
  BY <1>2, <1>11 DEF TakeCleanup, callVars
<1>12. CASE CleanRequest
  <2> DEFINE h == Head(cleanups)
  <2>1. cleanups # <<>> /\ h.id \in Calls /\ h = RequestCleanup(h.id)
    BY <1>12, Served
  <2>2. /\ cleanups' = Tail(cleanups)
        /\ requests' = [requests EXCEPT ![h.id] = "absent"]
        /\ UNCHANGED <<pc, outcome, reply>>
    BY <1>12 DEF CleanRequest, AfterCleanup, callVars
  <2>3. AtMostOnce(m, cleanups)'
    BY <1>1, <2>1, <2>2, Queueing DEF RequestOf
  <2>4. CASE h.id = c
    <3>1. Pending(m) /\ ~Pending(m)'
      BY <1>1, <2>1, <2>2, <2>4, Queueing DEF RequestOf, Pending
    <3>2. pc[c] = "done" /\ requests'[c] = "absent"
      BY <1>1, <2>2, <2>4, <3>1 DEF RequestOf, TypeInv, TypeOK
    <3> QED  BY <2>2, <2>3, <3>1, <3>2 DEF RequestOf
  <2>5. CASE h.id # c
    <3>1. m # h
      BY <2>1, <2>5, CleanupMessages
    <3>2. Pending(m)' <=> Pending(m)
      BY <1>1, <2>1, <2>2, <3>1, Queueing DEF Pending
    <3>3. requests'[c] = requests[c]
      BY <2>2, <2>5 DEF TypeInv, TypeOK
    <3> QED  BY <1>1, <2>2, <2>3, <3>2, <3>3, RequestFrame
  <2> QED  BY <2>4, <2>5
<1>13. CASE CleanBackend
  <2>1. (Pending(m)' <=> Pending(m)) /\ AtMostOnce(m, cleanups)'
    BY <1>1, <1>13, Served, Queueing DEF CleanBackend, RequestOf, Pending
  <2> QED  BY <1>1, <1>13, <2>1, RequestFrame DEF CleanBackend, callVars
<1>14. CASE UNCHANGED vars
  BY <1>2, <1>14 DEF vars, callVars
<1> QED
  BY <1>3, <1>4, <1>5, <1>6, <1>7, <1>9, <1>10, <1>11, <1>12, <1>13, <1>14
     DEF Next, ServerStep, PluginStep, BackendStep, CallStep, ConnStep, CleanupStep

LEMMA RequestInit == Init => RequestInv
<1> SUFFICES ASSUME Init, NEW c \in Calls PROVE RequestOf(c)
  BY DEF RequestInv
<1>1. ~Pending(RequestCleanup(c)) /\ AtMostOnce(RequestCleanup(c), cleanups)
  BY DEF Init, Pending, Occurs, AtMostOnce
<1> QED  BY <1>1 DEF Init, RequestOf

\* However often and over whatever connections a backend answers, a waiting call
\* either can still be answered or has its answer, which no other replaces.
THEOREM NoWaiterLost == Spec => []NoLostWaiter
<1>1. RequestInv => NoLostWaiter
  BY DEF RequestInv, RequestOf, NoLostWaiter
<1> QED  BY <1>1, TypeInit, TypeStep, RequestInit, RequestStep, PTL DEF Spec

\* A call that had a handle sends one cleanup message when it ends, and its entry
\* is gone by the time that message is served, if not before.
THEOREM HandlesCleanUp == Spec => []HandleCleansUp
<1>1. RequestInv => HandleCleansUp
  BY DEF RequestInv, RequestOf, HandleCleansUp
<1> QED  BY <1>1, TypeInit, TypeStep, RequestInit, RequestStep, PTL DEF Spec


-----------------------------------------------------------------------------
(* Locks *)

\* The place of use u in line l carries over to line m.
KeepsPlace(l, m, u) ==
    /\ m[u] = {} <=> l[u] = {}
    /\ HoldsAlone(l, u) => HoldsAlone(m, u)
    /\ HoldsShared(l, u, BackendsWriters) => HoldsShared(m, u, BackendsWriters)

\* Where call c is in the lines: it holds requests from Insert to the end of
\* Send, and backends with it from Lookup on.
CallPlaces(c) ==
    /\ requestsLine[Issue(c)] # {} <=> pc[c] \in {"locking", "lookup", "sending"}
    /\ backendsLine[Issue(c)] # {} <=> pc[c] \in {"lookup", "sending"}
    /\ backendsLine[Guard(c)] # {} => pc[c] \notin {"idle", "done"}
    /\ pc[c] = "guarding" => backendsLine[Guard(c)] # {}
    /\ pc[c] \in {"lookup", "sending"} => HoldsRequests(Issue(c))
    /\ pc[c] = "sending" => ReadsBackends(Issue(c)) /\ backends[target[c]] # NoConn

\* Where the task of connection k is in the lines.
ConnPlaces(k) ==
    /\ requestsLine[Respond(k)] # {} <=> task[k] = "answering"
    /\ backendsLine[Register(k)] # {} <=> task[k] = "registering"

LineInv ==
    /\ IsLine(requestsLine, RequestsUses)
    /\ IsLine(backendsLine, BackendsUses)
    /\ \A c \in Calls : CallPlaces(c)
    /\ \A k \in Conns : ConnPlaces(k)

\* Entering and leaving disturb no other use.
LEMMA LineMoves ==
    ASSUME NEW Uses, NEW line, IsLine(line, Uses)
    PROVE  /\ \A u \in Uses : line[u] = {} =>
                 /\ IsLine(Enter(line, u), Uses)
                 /\ Enter(line, u)[u] # {}
                 /\ \A v \in Uses \ {u} : KeepsPlace(line, Enter(line, u), v)
           /\ \A S : /\ IsLine(Leave(line, S), Uses)
                     /\ \A v \in Uses \cap S : Leave(line, S)[v] = {}
                     /\ \A v \in Uses \ S : KeepsPlace(line, Leave(line, S), v)
           /\ \A v : KeepsPlace(line, line, v)
<1>1. line \in [Uses -> SUBSET Uses] /\ \A v \in Uses : line[v] # {} => v \in line[v]
  BY DEF IsLine
<1>2. ASSUME NEW u \in Uses, line[u] = {}
      PROVE  /\ IsLine(Enter(line, u), Uses)
             /\ Enter(line, u)[u] # {}
             /\ \A v \in Uses \ {u} : KeepsPlace(line, Enter(line, u), v)
  <2>1. IsLine(Enter(line, u), Uses)
    BY <1>2, EnterIsLine
  <2>2. Enter(line, u)[u] # {} /\ \A v \in Uses \ {u} : Enter(line, u)[v] = line[v]
    BY <1>1, EnterLine
  <2> QED  BY <2>1, <2>2 DEF KeepsPlace, HoldsAlone, HoldsShared
<1>3. ASSUME NEW S
      PROVE  /\ IsLine(Leave(line, S), Uses)
             /\ \A v \in Uses \cap S : Leave(line, S)[v] = {}
             /\ \A v \in Uses \ S : KeepsPlace(line, Leave(line, S), v)
  <2>1. IsLine(Leave(line, S), Uses)
    BY LeaveIsLine
  <2>2. /\ \A v \in Uses \cap S : Leave(line, S)[v] = {}
        /\ \A v \in Uses \ S : Leave(line, S)[v] = line[v] \ S
    BY <1>1, LeaveLine
  <2>3. ASSUME NEW v \in Uses \ S PROVE KeepsPlace(line, Leave(line, S), v)
    BY <1>1, <2>2 DEF KeepsPlace, HoldsAlone, HoldsShared
  <2> QED  BY <2>1, <2>2, <2>3
<1>4. \A v : KeepsPlace(line, line, v)
  BY DEF KeepsPlace
<1> QED  BY <1>2, <1>3, <1>4

\* Call c keeps its places when nobody disturbs them.
LEMMA CallPlacesFrame ==
    ASSUME NEW c \in Calls, CallPlaces(c), pc'[c] = pc[c], target' = target,
           KeepsPlace(requestsLine, requestsLine', Issue(c)),
           KeepsPlace(backendsLine, backendsLine', Issue(c)),
           KeepsPlace(backendsLine, backendsLine', Guard(c)),
           pc[c] = "sending" => backends'[target[c]] # NoConn
    PROVE  CallPlaces(c)'
BY DEF CallPlaces, KeepsPlace, HoldsRequests, ReadsBackends

LEMMA ConnPlacesFrame ==
    ASSUME NEW k \in Conns, ConnPlaces(k), task'[k] = task[k],
           KeepsPlace(requestsLine, requestsLine', Respond(k)),
           KeepsPlace(backendsLine, backendsLine', Register(k))
    PROVE  ConnPlaces(k)'
BY DEF ConnPlaces, KeepsPlace

\* A step of call d only moves the uses of call d.
LEMMA CallMoves ==
    ASSUME LineInv, NEW d \in Calls,
           IsLine(requestsLine', RequestsUses), IsLine(backendsLine', BackendsUses),
           \A u \in RequestsUses \ {Issue(d)} : KeepsPlace(requestsLine, requestsLine', u),
           \A u \in BackendsUses \ {Issue(d), Guard(d)} : KeepsPlace(backendsLine, backendsLine', u),
           UNCHANGED <<target, backends, task>>,
           \A c \in Calls \ {d} : pc'[c] = pc[c],
           CallPlaces(d)'
    PROVE  LineInv'
<1>1. ASSUME NEW c \in Calls, c # d PROVE CallPlaces(c)'
  <2>1. /\ Issue(c) \in RequestsUses \ {Issue(d)}
        /\ Issue(c) \in BackendsUses \ {Issue(d), Guard(d)}
        /\ Guard(c) \in BackendsUses \ {Issue(d), Guard(d)}
    BY <1>1, UsesAreUses
  <2>2. CallPlaces(c) /\ (pc[c] = "sending" => backends'[target[c]] # NoConn)
    BY DEF LineInv, CallPlaces
  <2> QED  BY <1>1, <2>1, <2>2, CallPlacesFrame
<1>2. ASSUME NEW k \in Conns PROVE ConnPlaces(k)'
  <2>1. /\ Respond(k) \in RequestsUses \ {Issue(d)}
        /\ Register(k) \in BackendsUses \ {Issue(d), Guard(d)}
    BY UsesAreUses
  <2> QED  BY <2>1, ConnPlacesFrame DEF LineInv
<1> QED  BY <1>1, <1>2 DEF LineInv

\* A step of connection k only moves the uses of connection k.
LEMMA ConnMoves ==
    ASSUME LineInv, NEW k \in Conns,
           IsLine(requestsLine', RequestsUses), IsLine(backendsLine', BackendsUses),
           \A u \in RequestsUses \ {Respond(k)} : KeepsPlace(requestsLine, requestsLine', u),
           \A u \in BackendsUses \ {Register(k)} : KeepsPlace(backendsLine, backendsLine', u),
           UNCHANGED <<pc, target>>,
           \A c \in Calls : pc[c] = "sending" => backends'[target[c]] # NoConn,
           \A j \in Conns \ {k} : task'[j] = task[j],
           ConnPlaces(k)'
    PROVE  LineInv'
<1>1. ASSUME NEW c \in Calls PROVE CallPlaces(c)'
  <2>1. /\ Issue(c) \in RequestsUses \ {Respond(k)}
        /\ Issue(c) \in BackendsUses \ {Register(k)}
        /\ Guard(c) \in BackendsUses \ {Register(k)}
    BY UsesAreUses
  <2> QED  BY <2>1, CallPlacesFrame DEF LineInv
<1>2. ASSUME NEW j \in Conns, j # k PROVE ConnPlaces(j)'
  <2>1. /\ Respond(j) \in RequestsUses \ {Respond(k)}
        /\ Register(j) \in BackendsUses \ {Register(k)}
    BY <1>2, UsesAreUses
  <2> QED  BY <1>2, <2>1, ConnPlacesFrame DEF LineInv
<1> QED  BY <1>1, <1>2 DEF LineInv

\* A step of cleanup_task only moves its own uses.
LEMMA CleanerMoves ==
    ASSUME LineInv,
           IsLine(requestsLine', RequestsUses), IsLine(backendsLine', BackendsUses),
           \A u \in RequestsUses \ {Clean} : KeepsPlace(requestsLine, requestsLine', u),
           \A u \in BackendsUses \ {Clean} : KeepsPlace(backendsLine, backendsLine', u),
           UNCHANGED <<pc, target, task>>,
           \A c \in Calls : pc[c] = "sending" => backends'[target[c]] # NoConn
    PROVE  LineInv'
<1>1. ASSUME NEW c \in Calls PROVE CallPlaces(c)'
  <2>1. /\ Issue(c) \in RequestsUses \ {Clean}
        /\ Issue(c) \in BackendsUses \ {Clean}
        /\ Guard(c) \in BackendsUses \ {Clean}
    BY UsesAreUses
  <2> QED  BY <2>1, CallPlacesFrame DEF LineInv
<1>2. ASSUME NEW k \in Conns PROVE ConnPlaces(k)'
  <2>1. Respond(k) \in RequestsUses \ {Clean} /\ Register(k) \in BackendsUses \ {Clean}
    BY UsesAreUses
  <2> QED  BY <2>1, ConnPlacesFrame DEF LineInv
<1> QED  BY <1>1, <1>2 DEF LineInv


LEMMA AbandonLines ==
    ASSUME TypeInv, LineInv, NEW d \in Calls, NEW res, Abandon(d, res)
    PROVE  LineInv'
<1>1. IsLine(requestsLine, RequestsUses) /\ IsLine(backendsLine, BackendsUses)
  BY DEF LineInv
<1>2. /\ IsLine(requestsLine', RequestsUses)
      /\ requestsLine'[Issue(d)] = {}
      /\ \A u \in RequestsUses \ {Issue(d)} : KeepsPlace(requestsLine, requestsLine', u)
  BY <1>1, LineMoves, UsesAreUses DEF Abandon
<1>3. /\ IsLine(backendsLine', BackendsUses)
      /\ backendsLine'[Issue(d)] = {} /\ backendsLine'[Guard(d)] = {}
      /\ \A u \in BackendsUses \ {Issue(d), Guard(d)} : KeepsPlace(backendsLine, backendsLine', u)
  BY <1>1, LineMoves, UsesAreUses DEF Abandon
<1>4. pc'[d] = "done" /\ \A c \in Calls \ {d} : pc'[c] = pc[c]
  BY DEF Abandon, TypeInv, TypeOK
<1>5. CallPlaces(d)'
  BY <1>2, <1>3, <1>4 DEF CallPlaces
<1> QED  BY <1>2, <1>3, <1>4, <1>5, CallMoves DEF Abandon, connVars

LEMMA DropHandleLines ==
    ASSUME TypeInv, LineInv, NEW d \in Calls, pc[d] = "waiting", NEW res, DropHandle(d, res)
    PROVE  LineInv'
<1>1. IsLine(requestsLine, RequestsUses) /\ IsLine(backendsLine, BackendsUses)
  BY DEF LineInv
<1>2. /\ IsLine(requestsLine', RequestsUses)
      /\ \A u \in RequestsUses : KeepsPlace(requestsLine, requestsLine', u)
  BY <1>1, LineMoves DEF DropHandle
<1>3. /\ IsLine(backendsLine', BackendsUses)
      /\ backendsLine'[Guard(d)] = {}
      /\ \A u \in BackendsUses \ {Guard(d)} : KeepsPlace(backendsLine, backendsLine', u)
  BY <1>1, LineMoves, UsesAreUses DEF DropHandle
<1>4. pc'[d] = "done" /\ \A c \in Calls \ {d} : pc'[c] = pc[c]
  BY DEF DropHandle, TypeInv, TypeOK
<1>5. CallPlaces(d)'
  <2>1. requestsLine[Issue(d)] = {} /\ backendsLine[Issue(d)] = {}
    BY DEF LineInv, CallPlaces
  <2>2. requestsLine'[Issue(d)] = {} /\ backendsLine'[Issue(d)] = {}
    BY <1>2, <1>3, <2>1, UsesAreUses DEF KeepsPlace
  <2> QED  BY <1>3, <1>4, <2>2 DEF CallPlaces
<1> QED  BY <1>2, <1>3, <1>4, <1>5, CallMoves DEF DropHandle, connVars

\* Every step keeps the lines in order.
LEMMA LineStep == TypeInv /\ LineInv /\ [Next]_vars => LineInv'
<1> SUFFICES ASSUME TypeInv, LineInv, [Next]_vars PROVE LineInv'
  OBVIOUS
<1> USE DEF callVars, connVars
<1>1. /\ IsLine(requestsLine, RequestsUses) /\ IsLine(backendsLine, BackendsUses)
      /\ \A u : KeepsPlace(requestsLine, requestsLine, u)
      /\ \A u : KeepsPlace(backendsLine, backendsLine, u)
  BY DEF LineInv, KeepsPlace
<1>2. ASSUME NEW d \in Calls,
             Reject(d) \/ CheckBackendFails(d) \/ LookupFails(d) \/ SendFails(d)
      PROVE  LineInv'
  BY <1>2, AbandonLines DEF Reject, CheckBackendFails, LookupFails, SendFails
<1>3. ASSUME NEW d \in Calls, Return(d) \/ Timeout(d) PROVE LineInv'
  BY <1>3, DropHandleLines DEF Return, Timeout
<1>4. ASSUME NEW d \in Calls, Cancel(d) PROVE LineInv'
  BY <1>4, AbandonLines, DropHandleLines DEF Cancel
<1>5. ASSUME NEW d \in Calls, BeginRequest(d) \/ CheckBackend(d) PROVE LineInv'
  <2>1. /\ pc[d] \in {"idle", "guarding"} /\ pc'[d] = "locking"
        /\ \A c \in Calls \ {d} : pc'[c] = pc[c]
        /\ requestsLine' = Enter(requestsLine, Issue(d))
        /\ UNCHANGED <<target, backends, task, backendsLine>>
    BY <1>5 DEF BeginRequest, CheckBackend, TypeInv, TypeOK
  <2>2. requestsLine[Issue(d)] = {} /\ backendsLine[Issue(d)] = {}
    BY <2>1 DEF LineInv, CallPlaces
  <2>3. /\ IsLine(requestsLine', RequestsUses) /\ requestsLine'[Issue(d)] # {}
        /\ \A u \in RequestsUses \ {Issue(d)} : KeepsPlace(requestsLine, requestsLine', u)
    BY <1>1, <2>1, <2>2, LineMoves, UsesAreUses
  <2>4. CallPlaces(d)'
    BY <2>1, <2>2, <2>3 DEF CallPlaces
  <2> QED  BY <1>1, <2>1, <2>3, <2>4, CallMoves
<1>6. ASSUME NEW d \in Calls, BeginInfo(d) PROVE LineInv'
  <2>1. /\ pc[d] = "idle" /\ pc'[d] = "guarding"
        /\ \A c \in Calls \ {d} : pc'[c] = pc[c]
        /\ backendsLine' = Enter(backendsLine, Guard(d))
        /\ UNCHANGED <<target, backends, task, requestsLine>>
    BY <1>6 DEF BeginInfo, TypeInv, TypeOK
  <2>2. /\ requestsLine[Issue(d)] = {} /\ backendsLine[Issue(d)] = {}
        /\ backendsLine[Guard(d)] = {}
    BY <2>1 DEF LineInv, CallPlaces
  <2>3. /\ IsLine(backendsLine', BackendsUses) /\ backendsLine'[Guard(d)] # {}
        /\ \A u \in BackendsUses \ {Guard(d)} : KeepsPlace(backendsLine, backendsLine', u)
    BY <1>1, <2>1, <2>2, LineMoves, UsesAreUses
  <2>4. requestsLine'[Issue(d)] = {} /\ backendsLine'[Issue(d)] = {}
    BY <2>1, <2>2, <2>3, UsesAreUses DEF KeepsPlace
  <2>5. CallPlaces(d)'
    BY <2>1, <2>3, <2>4 DEF CallPlaces
  <2> QED  BY <1>1, <2>1, <2>3, <2>5, CallMoves
<1>7. ASSUME NEW d \in Calls, Insert(d) PROVE LineInv'
  <2>1. /\ pc[d] = "locking" /\ pc'[d] = "lookup" /\ HoldsRequests(Issue(d))
        /\ \A c \in Calls \ {d} : pc'[c] = pc[c]
        /\ backendsLine' = Enter(backendsLine, Issue(d))
        /\ UNCHANGED <<target, backends, task, requestsLine>>
    BY <1>7 DEF Insert, TypeInv, TypeOK
  <2>2. requestsLine[Issue(d)] # {} /\ backendsLine[Issue(d)] = {}
    BY <2>1 DEF LineInv, CallPlaces
  <2>3. /\ IsLine(backendsLine', BackendsUses) /\ backendsLine'[Issue(d)] # {}
        /\ \A u \in BackendsUses \ {Issue(d)} : KeepsPlace(backendsLine, backendsLine', u)
    BY <1>1, <2>1, <2>2, LineMoves, UsesAreUses
  <2>4. CallPlaces(d)'
    BY <2>1, <2>2, <2>3 DEF CallPlaces, HoldsRequests
  <2> QED  BY <1>1, <2>1, <2>3, <2>4, CallMoves
<1>8. ASSUME NEW d \in Calls, Lookup(d) PROVE LineInv'
  <2>1. /\ pc[d] = "lookup" /\ pc'[d] = "sending"
        /\ ReadsBackends(Issue(d)) /\ backends[target[d]] # NoConn
        /\ \A c \in Calls \ {d} : pc'[c] = pc[c]
        /\ UNCHANGED <<target, backends, task, requestsLine, backendsLine>>
    BY <1>8 DEF Lookup, TypeInv, TypeOK
  <2>2. CallPlaces(d)'
    BY <2>1 DEF LineInv, CallPlaces, HoldsRequests, ReadsBackends
  <2> QED  BY <1>1, <2>1, <2>2, CallMoves
<1>9. ASSUME NEW d \in Calls, Send(d) PROVE LineInv'
  <2>1. /\ pc[d] = "sending" /\ pc'[d] = "waiting"
        /\ \A c \in Calls \ {d} : pc'[c] = pc[c]
        /\ requestsLine' = Leave(requestsLine, {Issue(d)})
        /\ backendsLine' = Leave(backendsLine, {Issue(d)})
        /\ UNCHANGED <<target, backends, task>>
    BY <1>9 DEF Send, TypeInv, TypeOK
  <2>2. /\ IsLine(requestsLine', RequestsUses) /\ requestsLine'[Issue(d)] = {}
        /\ \A u \in RequestsUses \ {Issue(d)} : KeepsPlace(requestsLine, requestsLine', u)
    BY <1>1, <2>1, LineMoves, UsesAreUses
  <2>3. /\ IsLine(backendsLine', BackendsUses) /\ backendsLine'[Issue(d)] = {}
        /\ \A u \in BackendsUses \ {Issue(d)} : KeepsPlace(backendsLine, backendsLine', u)
    BY <1>1, <2>1, LineMoves, UsesAreUses
  <2>4. CallPlaces(d)'
    BY <2>1, <2>2, <2>3 DEF CallPlaces
  <2> QED  BY <2>1, <2>2, <2>3, <2>4, CallMoves
<1>10. ASSUME NEW k \in Conns, Hello(k) PROVE LineInv'
  <2>1. /\ task[k] = "hello" /\ task'[k] = "registering"
        /\ \A j \in Conns \ {k} : task'[j] = task[j]
        /\ backendsLine' = Enter(backendsLine, Register(k))
        /\ UNCHANGED <<pc, target, backends, requestsLine>>
    BY <1>10 DEF Hello, TypeInv, TypeOK
  <2>2. requestsLine[Respond(k)] = {} /\ backendsLine[Register(k)] = {}
    BY <2>1 DEF LineInv, ConnPlaces
  <2>3. /\ IsLine(backendsLine', BackendsUses) /\ backendsLine'[Register(k)] # {}
        /\ \A u \in BackendsUses \ {Register(k)} : KeepsPlace(backendsLine, backendsLine', u)
    BY <1>1, <2>1, <2>2, LineMoves, UsesAreUses
  <2>4. ConnPlaces(k)' /\ \A c \in Calls : pc[c] = "sending" => backends'[target[c]] # NoConn
    BY <2>1, <2>2, <2>3 DEF ConnPlaces, LineInv, CallPlaces
  <2> QED  BY <1>1, <2>1, <2>3, <2>4, ConnMoves
<1>11. ASSUME NEW k \in Conns, RegisterBackend(k) PROVE LineInv'
  <2>1. /\ task[k] = "registering" /\ task'[k] \in {"running", "refused"}
        /\ \A j \in Conns \ {k} : task'[j] = task[j]
        /\ backendsLine' = Leave(backendsLine, {Register(k)})
        /\ UNCHANGED <<pc, target, requestsLine>>
    BY <1>11 DEF RegisterBackend, TypeInv, TypeOK
  <2>2. requestsLine[Respond(k)] = {}
    BY <2>1 DEF LineInv, ConnPlaces
  <2>3. /\ IsLine(backendsLine', BackendsUses) /\ backendsLine'[Register(k)] = {}
        /\ \A u \in BackendsUses \ {Register(k)} : KeepsPlace(backendsLine, backendsLine', u)
    BY <1>1, <2>1, LineMoves, UsesAreUses
  <2>4. ConnPlaces(k)'
    BY <2>1, <2>2, <2>3 DEF ConnPlaces
  <2>5. \A b \in BackendIds : backends[b] # NoConn => backends'[b] # NoConn
    BY <1>11, BrokerAssumption DEF RegisterBackend, TypeInv, TypeOK
  <2>6. \A c \in Calls : pc[c] = "sending" => backends'[target[c]] # NoConn
    BY <2>5 DEF LineInv, CallPlaces, TypeInv, TypeOK
  <2> QED  BY <1>1, <2>1, <2>3, <2>4, <2>6, ConnMoves
<1>12. ASSUME NEW k \in Conns,
              \/ HelloFails(k) \/ TakeRequest(k) \/ Forward(k) \/ ForwardFails(k)
              \/ EndOfStream(k) \/ BackendReceives(k)
       PROVE  LineInv'
  <2>1. /\ task'[k] # task[k] => /\ task[k] \notin {"answering", "registering"}
                                 /\ task'[k] \notin {"answering", "registering"}
        /\ \A j \in Conns \ {k} : task'[j] = task[j]
        /\ UNCHANGED <<pc, target, backends, requestsLine, backendsLine>>
    BY <1>12 DEF HelloFails, TakeRequest, Forward, ForwardFails, EndOfStream,
       BackendReceives, EndTask, TypeInv, TypeOK
  <2>2. ConnPlaces(k)' /\ \A c \in Calls : pc[c] = "sending" => backends'[target[c]] # NoConn
    BY <2>1 DEF LineInv, ConnPlaces, CallPlaces
  <2> QED  BY <1>1, <2>1, <2>2, ConnMoves
<1>13. ASSUME NEW k \in Conns, TakeAnswer(k) PROVE LineInv'
  <2>1. /\ task[k] = "running" /\ task'[k] = "answering"
        /\ \A j \in Conns \ {k} : task'[j] = task[j]
        /\ requestsLine' = Enter(requestsLine, Respond(k))
        /\ UNCHANGED <<pc, target, backends, backendsLine>>
    BY <1>13 DEF TakeAnswer, TypeInv, TypeOK
  <2>2. requestsLine[Respond(k)] = {} /\ backendsLine[Register(k)] = {}
    BY <2>1 DEF LineInv, ConnPlaces
  <2>3. /\ IsLine(requestsLine', RequestsUses) /\ requestsLine'[Respond(k)] # {}
        /\ \A u \in RequestsUses \ {Respond(k)} : KeepsPlace(requestsLine, requestsLine', u)
    BY <1>1, <2>1, <2>2, LineMoves, UsesAreUses
  <2>4. ConnPlaces(k)' /\ \A c \in Calls : pc[c] = "sending" => backends'[target[c]] # NoConn
    BY <2>1, <2>2, <2>3 DEF ConnPlaces, LineInv, CallPlaces
  <2> QED  BY <1>1, <2>1, <2>3, <2>4, ConnMoves
<1>14. ASSUME NEW k \in Conns, HandleAnswer(k) PROVE LineInv'
  <2>1. /\ task[k] = "answering" /\ task'[k] \in {"running", "ended"}
        /\ \A j \in Conns \ {k} : task'[j] = task[j]
        /\ requestsLine' = Leave(requestsLine, {Respond(k)})
        /\ UNCHANGED <<pc, target, backends, backendsLine>>
    BY <1>14 DEF HandleAnswer, EndTask, TypeInv, TypeOK
  <2>2. backendsLine[Register(k)] = {}
    BY <2>1 DEF LineInv, ConnPlaces
  <2>3. /\ IsLine(requestsLine', RequestsUses) /\ requestsLine'[Respond(k)] = {}
        /\ \A u \in RequestsUses \ {Respond(k)} : KeepsPlace(requestsLine, requestsLine', u)
    BY <1>1, <2>1, LineMoves, UsesAreUses
  <2>4. ConnPlaces(k)' /\ \A c \in Calls : pc[c] = "sending" => backends'[target[c]] # NoConn
    BY <2>1, <2>2, <2>3 DEF ConnPlaces, LineInv, CallPlaces
  <2> QED  BY <1>1, <2>1, <2>3, <2>4, ConnMoves
<1>15. CASE TakeCleanup
  <2>1. requestsLine[Clean] = {} /\ backendsLine[Clean] = {}
    BY <1>1, <1>15, UsesAreUses DEF TakeCleanup, IsLine, Queued
  <2>2. /\ IsLine(requestsLine', RequestsUses)
        /\ \A u \in RequestsUses \ {Clean} : KeepsPlace(requestsLine, requestsLine', u)
    BY <1>1, <1>15, <2>1, LineMoves, UsesAreUses DEF TakeCleanup
  <2>3. /\ IsLine(backendsLine', BackendsUses)
        /\ \A u \in BackendsUses \ {Clean} : KeepsPlace(backendsLine, backendsLine', u)
    BY <1>1, <1>15, <2>1, LineMoves, UsesAreUses DEF TakeCleanup
  <2>4. \A c \in Calls : pc[c] = "sending" => backends'[target[c]] # NoConn
    BY <1>15 DEF TakeCleanup, LineInv, CallPlaces
  <2> QED  BY <1>15, <2>2, <2>3, <2>4, CleanerMoves DEF TakeCleanup
<1>16. CASE CleanRequest
  <2>1. /\ IsLine(requestsLine', RequestsUses)
        /\ \A u \in RequestsUses \ {Clean} : KeepsPlace(requestsLine, requestsLine', u)
    BY <1>1, <1>16, LineMoves DEF CleanRequest
  <2>2. \A c \in Calls : pc[c] = "sending" => backends'[target[c]] # NoConn
    BY <1>16 DEF CleanRequest, LineInv, CallPlaces
  <2> QED  BY <1>1, <1>16, <2>1, <2>2, CleanerMoves DEF CleanRequest
<1>17. CASE CleanBackend
  <2>1. /\ IsLine(backendsLine', BackendsUses)
        /\ \A u \in BackendsUses \ {Clean} : KeepsPlace(backendsLine, backendsLine', u)
    BY <1>1, <1>17, LineMoves DEF CleanBackend
  <2>2. \A c \in Calls : pc[c] # "sending"
    <3> SUFFICES ASSUME NEW c \in Calls, pc[c] = "sending" PROVE FALSE
      OBVIOUS
    <3>1. HoldsShared(backendsLine, Issue(c), BackendsWriters)
      BY DEF LineInv, CallPlaces, ReadsBackends
    <3>2. HoldsAlone(backendsLine, Clean)
      BY <1>17 DEF CleanBackend, WritesBackends
    <3> QED  BY <1>1, <3>1, <3>2, UsesAreUses, SharedExcludesAlone
  <2> QED  BY <1>1, <1>17, <2>1, <2>2, CleanerMoves DEF CleanBackend
<1>18. CASE UNCHANGED vars
  BY <1>1, <1>18, CleanerMoves DEF vars, LineInv, CallPlaces
<1> QED
  BY <1>2, <1>3, <1>4, <1>5, <1>6, <1>7, <1>8, <1>9, <1>10, <1>11, <1>12, <1>13,
     <1>14, <1>15, <1>16, <1>17, <1>18
     DEF Next, ServerStep, PluginStep, BackendStep, CallStep, ConnStep, CleanupStep

LEMMA LineInit == Init => LineInv
<1> SUFFICES ASSUME Init PROVE LineInv
  OBVIOUS
<1>1. IsLine(requestsLine, RequestsUses) /\ IsLine(backendsLine, BackendsUses)
  BY EmptyLineIsLine DEF Init
<1>2. /\ \A u \in RequestsUses : requestsLine[u] = {}
      /\ \A u \in BackendsUses : backendsLine[u] = {}
  BY DEF Init, EmptyLine
<1>3. \A c \in Calls : CallPlaces(c)
  BY <1>2, UsesAreUses DEF Init, CallPlaces
<1>4. \A k \in Conns : ConnPlaces(k)
  BY <1>2, UsesAreUses DEF Init, ConnPlaces
<1> QED  BY <1>1, <1>3, <1>4 DEF LineInv

\* Lookups and sends are serialised, and the registration that a send goes to
\* stays where it is.
THEOREM SendsAreSerialised == Spec => []SendUnderLocks
<1>1. LineInv => SendUnderLocks
  <2> SUFFICES ASSUME LineInv PROVE SendUnderLocks
    OBVIOUS
  <2>1. ASSUME NEW c \in Calls, NEW d \in Calls,
               pc[c] \in {"lookup", "sending"}, pc[d] \in {"lookup", "sending"}
        PROVE  c = d
    <3>1. HoldsAlone(requestsLine, Issue(c)) /\ HoldsAlone(requestsLine, Issue(d))
      BY <2>1 DEF LineInv, CallPlaces, HoldsRequests
    <3>2. Issue(c) = Issue(d)
      BY <3>1, AloneIsAlone, UsesAreUses DEF LineInv
    <3> QED  BY <3>2, UsesAreUses
  <2> QED  BY <2>1 DEF LineInv, CallPlaces, SendUnderLocks
<1> QED  BY <1>1, TypeInit, TypeStep, LineInit, LineStep, PTL DEF Spec

-----------------------------------------------------------------------------
(* Standstill *)

\* No response stream holds more than it has room for.
OutFits == \A k \in Conns : Len(out[k]) <= SendBuffer

LEMMA OutStep == TypeInv /\ OutFits /\ [Next]_vars => OutFits'
<1> SUFFICES ASSUME TypeInv, OutFits, [Next]_vars, NEW k \in Conns PROVE Len(out'[k]) <= SendBuffer
  BY DEF OutFits
<1>1. out \in [Conns -> Seq(Calls)] /\ hand[k].call \in Calls \cup {NoCall} /\ SendBuffer \in Nat
  BY BrokerAssumption DEF TypeInv, TypeOK
<1>2. CASE out'[k] = out[k]
  BY <1>2 DEF OutFits
<1>3. CASE Forward(k)
  <2>1. out'[k] = Append(out[k], hand[k].call) /\ Len(out[k]) < SendBuffer
    BY <1>1, <1>3 DEF Forward
  <2>2. Len(out'[k]) = Len(out[k]) + 1
    BY <1>1, <2>1
  <2> QED  BY <1>1, <2>1, <2>2
<1>4. CASE BackendReceives(k)
  <2>1. out'[k] = Tail(out[k]) /\ out[k] # <<>>
    BY <1>1, <1>4 DEF BackendReceives
  <2>2. Len(out'[k]) = Len(out[k]) - 1
    BY <1>1, <2>1
  <2> QED  BY <1>1, <2>2 DEF OutFits
<1>5. out'[k] = out[k] \/ Forward(k) \/ BackendReceives(k)
  <2> USE <1>1 DEF Abandon, DropHandle, EndTask, connVars, callVars
  <2>1. ASSUME NEW c \in Calls, CallStep(c) \/ PluginStep(c) PROVE out' = out
    BY <2>1 DEF CallStep, PluginStep, Reject, BeginRequest, BeginInfo, CheckBackend, CheckBackendFails,
       Insert, Lookup, LookupFails, Send, SendFails, Return, Timeout, Cancel
  <2>2. ASSUME NEW j \in Conns, ConnStep(j) \/ BackendStep(j)
        PROVE  out'[k] = out[k] \/ Forward(k) \/ BackendReceives(k)
    BY <2>2 DEF ConnStep, BackendStep, RegisterBackend, TakeRequest, Forward, HandleAnswer, Hello,
       HelloFails, TakeAnswer, BackendReceives, ForwardFails, EndOfStream
  <2>3. CASE CleanupStep
    BY <2>3 DEF CleanupStep, TakeCleanup, CleanRequest, CleanBackend
  <2>4. CASE UNCHANGED vars
    BY <2>4 DEF vars
  <2> QED  BY <2>1, <2>2, <2>3, <2>4 DEF Next, ServerStep
<1> QED  BY <1>2, <1>3, <1>4, <1>5

LEMMA OutInit == Init => OutFits
BY BrokerAssumption DEF Init, OutFits

\* Nobody but a call that has its entry holds requests when no task can go on.
LEMMA FirstOfRequests ==
    ASSUME TypeInv, LineInv, ~CanGoOn, Queued(requestsLine) # {}
    PROVE  \E c \in Calls : /\ pc[c] \in {"lookup", "sending"}
                            /\ \A v \in Queued(requestsLine) : Issue(c) \in requestsLine[v]
<1>1. PICK u \in RequestsUses : /\ HoldsRequests(u) /\ requestsLine[u] # {}
                                /\ \A v \in Queued(requestsLine) : u \in requestsLine[v]
  BY FirstInLine DEF LineInv, HoldsRequests, HoldsAlone
<1>2. u # Clean
  BY <1>1 DEF CanGoOn, CleanupCanGoOn
<1>3. ASSUME NEW k \in Conns, u = Respond(k) PROVE FALSE
  <2>1. task[k] = "answering"
    BY <1>1, <1>3 DEF LineInv, ConnPlaces
  <2> QED  BY <1>1, <1>3, <2>1 DEF CanGoOn, ConnCanGoOn
<1>4. PICK c \in Calls : u = Issue(c)
  BY <1>2, <1>3 DEF RequestsUses
<1>5. pc[c] \in {"locking", "lookup", "sending"}
  BY <1>1, <1>4 DEF LineInv, CallPlaces
<1>6. pc[c] # "locking"
  BY <1>1, <1>4 DEF CanGoOn, CallCanGoOn
<1> QED  BY <1>1, <1>4, <1>5, <1>6

\* Nobody but a call with a guard that it goes on to use holds backends, or one
\* that sends.
LEMMA FirstOfBackends ==
    ASSUME TypeInv, LineInv, ~CanGoOn, Queued(backendsLine) # {}
    PROVE  \E c \in Calls :
              \/ /\ pc[c] \in {"locking", "lookup", "sending"}
                 /\ \A v \in Queued(backendsLine) : Guard(c) \in backendsLine[v]
              \/ pc[c] = "sending"
<1>1. PICK u \in BackendsUses : /\ backendsLine[u] = {u}
                                /\ \A v \in Queued(backendsLine) : u \in backendsLine[v]
  BY FirstInLine DEF LineInv
<1>2. u # Clean
  BY <1>1 DEF CanGoOn, CleanupCanGoOn, WritesBackends, HoldsAlone
<1>3. ASSUME NEW k \in Conns, u = Register(k) PROVE FALSE
  <2>1. task[k] = "registering" /\ WritesBackends(Register(k))
    BY <1>1, <1>3 DEF LineInv, ConnPlaces, WritesBackends, HoldsAlone
  <2> QED  BY <2>1 DEF CanGoOn, ConnCanGoOn
<1>4. PICK c \in Calls : u = Issue(c) \/ u = Guard(c)
  BY <1>2, <1>3 DEF BackendsUses, BackendsReaders, BackendsWriters
<1>5. ReadsBackends(u)
  BY <1>1, <1>4, UsesAreUses DEF ReadsBackends, HoldsShared
<1>6. CASE u = Issue(c)
  <2>1. pc[c] \in {"lookup", "sending"}
    BY <1>1, <1>6 DEF LineInv, CallPlaces
  <2>2. pc[c] # "lookup"
    BY <1>5, <1>6 DEF CanGoOn, CallCanGoOn
  <2> QED  BY <2>1, <2>2
<1>7. CASE u = Guard(c)
  <2>1. pc[c] \in CallState \ {"idle", "done"}
    BY <1>1, <1>7 DEF LineInv, CallPlaces, TypeInv, TypeOK
  <2>2. pc[c] \notin {"guarding", "waiting"}
    BY <1>5, <1>7 DEF CanGoOn, CallCanGoOn
  <2> QED  BY <1>1, <1>7, <2>1, <2>2 DEF CallState
<1> QED  BY <1>4, <1>6, <1>7

\* A call awaits room: its backend does not read, or wants requests itself.
LEMMA SendingStalls ==
    ASSUME TypeInv, LineInv, OutFits, ~CanGoOn, NEW c \in Calls, pc[c] = "sending",
           \A v \in Queued(requestsLine) : Issue(c) \in requestsLine[v]
    PROVE  FullChannelCycle \/ BackendNotReading
<1>1. PICK k : k = backends[target[c]]
  OBVIOUS
<1>2. ~ReceiverClosed(k) /\ IsFull(k)
  BY <1>1 DEF CanGoOn, CallCanGoOn
<1>3. k \in Conns /\ IsLive(k)
  BY <1>1, <1>2 DEF ReceiverClosed, LineInv, CallPlaces, TypeInv, TypeOK
<1>4. task[k] # "running"
  <2>1. Len(chan[k]) # 0
    BY <1>2, BrokerAssumption DEF IsFull
  <2>2. chan[k] # <<>>
    BY <2>1
  <2> QED  BY <1>3, <2>2 DEF CanGoOn, ConnCanGoOn
<1>5. CASE task[k] = "forwarding"
  <2>1. Len(out[k]) = SendBuffer
    <3>1. Len(out[k]) \in Nat /\ Len(out[k]) <= SendBuffer
      BY <1>3 DEF OutFits, TypeInv, TypeOK
    <3>2. ~(Len(out[k]) < SendBuffer)
      BY <1>3, <1>5 DEF CanGoOn, ConnCanGoOn
    <3> QED  BY <3>1, <3>2, BrokerAssumption
  <2> QED  BY <1>1, <1>2, <1>3, <1>5, <2>1 DEF BackendNotReading
<1>6. CASE task[k] = "answering"
  <2>1. Respond(k) \in Queued(requestsLine)
    BY <1>3, <1>6, UsesAreUses DEF LineInv, ConnPlaces, IsLine, Queued
  <2> QED  BY <1>1, <1>2, <1>3, <1>6, <2>1 DEF FullChannelCycle
<1> QED  BY <1>3, <1>4, <1>5, <1>6 DEF IsLive

\* A call with requests waits to read backends: behind a guard whose call wants
\* requests, or is that call itself, and behind a writer.
LEMMA LookupStalls ==
    ASSUME TypeInv, LineInv, SendUnderLocks, ~CanGoOn, NEW c \in Calls, pc[c] = "lookup",
           \A v \in Queued(requestsLine) : Issue(c) \in requestsLine[v]
    PROVE  ReentrantReadCycle
<1>1. Issue(c) \in backendsLine[Issue(c)] /\ ~ReadsBackends(Issue(c))
  <2>1. backendsLine[Issue(c)] # {}
    BY DEF LineInv, CallPlaces
  <2> QED  BY <2>1, UsesAreUses DEF LineInv, IsLine, CanGoOn, CallCanGoOn
<1>2. PICK w \in BackendsWriters : w \in backendsLine[Issue(c)]
  BY <1>1 DEF ReadsBackends, HoldsShared
<1>3. w \in Queued(backendsLine)
  BY <1>1, <1>2, UsesAreUses DEF LineInv, IsLine, Queued
<1>4. \A e \in Calls : pc[e] # "sending"
  BY DEF SendUnderLocks
<1>5. PICK d \in Calls : pc[d] \in {"locking", "lookup"} /\ Guard(d) \in backendsLine[w]
  BY <1>3, <1>4, FirstOfBackends
<1>6. Issue(d) \in Queued(requestsLine)
  BY <1>5, UsesAreUses DEF LineInv, CallPlaces, IsLine, Queued
<1> QED  BY <1>2, <1>5, <1>6 DEF ReentrantReadCycle

\* While requests is not asked for, work is left only where a task can go on.
LEMMA IdleRequests ==
    ASSUME TypeInv, LineInv, ~CanGoOn, Queued(requestsLine) = {}
    PROVE  ~WorkLeft
<1>1. /\ \A c \in Calls : pc[c] \notin {"locking", "lookup", "sending"}
      /\ \A k \in Conns : task[k] # "answering"
  BY UsesAreUses DEF LineInv, CallPlaces, ConnPlaces, IsLine, Queued
<1>2. Queued(backendsLine) = {}
  BY <1>1, FirstOfBackends
<1>3. \A c \in Calls : pc[c] # "guarding"
  BY <1>2, UsesAreUses DEF LineInv, CallPlaces, IsLine, Queued
<1>4. \A k \in Conns : task[k] # "registering"
  BY <1>2, UsesAreUses DEF LineInv, ConnPlaces, IsLine, Queued
<1>5. cleanups = <<>>
  BY <1>2 DEF CanGoOn, CleanupCanGoOn
<1> QED  BY <1>1, <1>3, <1>4, <1>5 DEF WorkLeft

\* The server stands still with work left for one of three reasons only, however
\* many calls and connections there are.
THEOREM OnlyThreeStalls == Spec => []StallShapes
<1>1. TypeInv /\ LineInv /\ OutFits /\ SendUnderLocks => StallShapes
  <2> SUFFICES ASSUME TypeInv, LineInv, OutFits, SendUnderLocks, ~CanGoOn, WorkLeft
               PROVE  FullChannelCycle \/ ReentrantReadCycle \/ BackendNotReading
    BY DEF StallShapes
  <2>1. Queued(requestsLine) # {}
    BY IdleRequests
  <2>2. PICK c \in Calls : /\ pc[c] \in {"lookup", "sending"}
                           /\ \A v \in Queued(requestsLine) : Issue(c) \in requestsLine[v]
    BY <2>1, FirstOfRequests
  <2> QED  BY <2>2, SendingStalls, LookupStalls
<1> QED
  BY <1>1, TypeInit, TypeStep, LineInit, LineStep, OutInit, OutStep, SendsAreSerialised, PTL DEF Spec



-----------------------------------------------------------------------------
(* The way of a request *)

\* Call c has sent its request.
Sent(c) == pc[c] \in {"waiting", "done"} /\ outcome[c] \notin EarlyOutcome

\* Only sent requests are under way, and only to the backend they name.
RouteInv ==
    /\ \A c \in Calls, k \in Conns : Carried(c, k) => Sent(c) /\ target[c] = ident[k]
    /\ \A b \in BackendIds : \A c \in received[b] : Sent(c) /\ target[c] = b

\* Only a backend that was given a request answers it.
AnswerInv ==
    /\ \A k \in Conns : task[k] = "answering" =>
          hand[k].call \in received[ident[k]] /\ hand[k].reply \in Replies
    /\ \A c \in Calls : reply[c] # NoReply =>
          c \in received[target[c]] /\ reply[c] \in Replies

\* Outcomes come at the end, and success only after an answer.
OutcomeInv ==
    \A c \in Calls :
        /\ pc[c] # "done" => outcome[c] = "none"
        /\ pc[c] # "idle" /\ outcome[c] # "invalid" /\ kind[c] = "message" => c \in announced
        /\ outcome[c] = "ok" => c \in received[target[c]]

FlowInv == RouteInv /\ AnswerInv /\ OutcomeInv

\* A step of a call that sends nothing.
LEMMA CallFlow ==
    ASSUME TypeInv, FlowInv, NEW d \in Calls,
           UNCHANGED <<kind, target, connVars>>,
           \A c \in Calls \ {d} : pc'[c] = pc[c] /\ outcome'[c] = outcome[c],
           \A c \in Calls : reply'[c] = reply[c] \/ reply'[c] = NoReply,
           announced \subseteq announced',
           Sent(d) => Sent(d)',
           pc'[d] # "done" => outcome'[d] = "none",
           pc'[d] # "idle" /\ outcome'[d] # "invalid" /\ kind[d] = "message" => d \in announced',
           outcome'[d] = "ok" => d \in received[target[d]]
    PROVE  FlowInv'
<1> USE DEF connVars, FlowInv
<1>1. \A c \in Calls : Sent(c) => Sent(c)'
  BY DEF Sent
<1>2. RouteInv'
  BY <1>1 DEF RouteInv, Carried, InHand, TypeInv, TypeOK
<1>3. AnswerInv'
  BY DEF AnswerInv
<1>4. OutcomeInv'
  BY DEF OutcomeInv
<1> QED  BY <1>2, <1>3, <1>4

LEMMA AbandonFlow ==
    ASSUME TypeInv, FlowInv, NEW d \in Calls, NEW res \in EarlyOutcome, Abandon(d, res),
           pc[d] \notin {"waiting", "done"},
           pc[d] = "idle" => res = "invalid"
    PROVE  FlowInv'
<1>1. ~Sent(d) /\ res # "ok"
  BY DEF Sent, EarlyOutcome
<1>2. /\ pc'[d] = "done" /\ outcome'[d] = res
      /\ \A c \in Calls \ {d} : pc'[c] = pc[c] /\ outcome'[c] = outcome[c]
  BY DEF Abandon, TypeInv, TypeOK
<1>3. UNCHANGED <<kind, target, connVars, reply, announced>>
  BY DEF Abandon
<1>4. pc[d] # "idle" /\ kind[d] = "message" => d \in announced
  BY DEF FlowInv, OutcomeInv
<1> QED  BY <1>1, <1>2, <1>3, <1>4, CallFlow

LEMMA DropHandleFlow ==
    ASSUME TypeInv, FlowInv, NEW d \in Calls, NEW res \in HandleOutcome, DropHandle(d, res),
           pc[d] = "waiting",
           res = "ok" => reply[d] # NoReply
    PROVE  FlowInv'
<1>1. Sent(d)'
  BY DEF DropHandle, Sent, HandleOutcome, EarlyOutcome, TypeInv, TypeOK
<1>2. /\ pc'[d] = "done" /\ outcome'[d] = res
      /\ \A c \in Calls \ {d} : pc'[c] = pc[c] /\ outcome'[c] = outcome[c]
      /\ \A c \in Calls : reply'[c] = reply[c] \/ reply'[c] = NoReply
  BY DEF DropHandle, TypeInv, TypeOK
<1>3. UNCHANGED <<kind, target, connVars, announced>>
  BY DEF DropHandle
<1>4. kind[d] = "message" => d \in announced
  BY DEF FlowInv, OutcomeInv
<1>5. res = "ok" => d \in received[target[d]]
  BY DEF FlowInv, AnswerInv
<1> QED  BY <1>1, <1>2, <1>3, <1>4, <1>5, CallFlow

\* A step of connection k that gives no request and no answer away.
LEMMA ConnFlow ==
    ASSUME TypeInv, FlowInv, NEW k \in Conns,
           UNCHANGED <<pc, kind, target, outcome, announced, ident, received>>,
           \A c \in Calls, j \in Conns : Carried(c, j)' => Carried(c, j),
           \A j \in Conns : task'[j] = "answering" => task[j] = "answering" /\ hand'[j] = hand[j],
           \A c \in Calls : reply'[c] # NoReply =>
               c \in received[target[c]] /\ reply'[c] \in Replies
    PROVE  FlowInv'
<1>1. RouteInv'
  BY DEF FlowInv, RouteInv, Sent, TypeInv, TypeOK
<1>2. AnswerInv'
  BY DEF FlowInv, AnswerInv
<1>3. OutcomeInv'
  BY DEF FlowInv, OutcomeInv
<1> QED  BY <1>1, <1>2, <1>3 DEF FlowInv

\* Every step keeps requests and answers on their way.
LEMMA FlowStep ==
    TypeInv /\ OneOwnerPerBackend /\ LineInv /\ FlowInv /\ [Next]_vars => FlowInv'
<1> SUFFICES ASSUME TypeInv, OneOwnerPerBackend, LineInv, FlowInv, [Next]_vars
             PROVE  FlowInv'
  OBVIOUS
<1>1. /\ \A k \in Conns : chan[k] \in Seq(Calls) /\ out[k] \in Seq(Calls)
      /\ \A k \in Conns : ident[k] \in BackendIds
      /\ \A b \in BackendIds : received[b] \subseteq Calls
  BY DEF TypeInv, TypeOK
<1>2. ASSUME NEW d \in Calls,
             Reject(d) \/ CheckBackendFails(d) \/ LookupFails(d) \/ SendFails(d)
      PROVE  FlowInv'
  BY <1>2, AbandonFlow DEF Reject, CheckBackendFails, LookupFails, SendFails, EarlyOutcome
<1>3. ASSUME NEW d \in Calls, Return(d) PROVE FlowInv'
  BY <1>3, DropHandleFlow DEF Return, OutcomeOf, HandleOutcome
<1>4. ASSUME NEW d \in Calls, Timeout(d) PROVE FlowInv'
  BY <1>4, DropHandleFlow DEF Timeout, HandleOutcome
<1>5. ASSUME NEW d \in Calls, Cancel(d) PROVE FlowInv'
  BY <1>5, AbandonFlow, DropHandleFlow DEF Cancel, EarlyOutcome, HandleOutcome
<1>6. ASSUME NEW d \in Calls,
             \/ BeginRequest(d) \/ BeginInfo(d) \/ CheckBackend(d)
             \/ Insert(d) \/ Lookup(d)
      PROVE  FlowInv'
  <2>1. /\ UNCHANGED <<kind, target, outcome, reply, connVars>>
        /\ \A c \in Calls \ {d} : pc'[c] = pc[c]
        /\ pc[d] \notin {"waiting", "done"} /\ pc'[d] # "done"
        /\ announced \subseteq announced'
        /\ pc[d] = "idle" /\ kind[d] = "message" => d \in announced'
    BY <1>6 DEF BeginRequest, BeginInfo, CheckBackend, Insert, Lookup, TypeInv, TypeOK
  <2>2. /\ outcome[d] = "none" /\ ~Sent(d)
        /\ pc[d] # "idle" /\ kind[d] = "message" => d \in announced
    BY <2>1 DEF FlowInv, OutcomeInv, Sent
  <2> QED  BY <2>1, <2>2, CallFlow
<1>7. ASSUME NEW d \in Calls, Send(d) PROVE FlowInv'
  <2> DEFINE k == backends[target[d]]
  <2>1. k \in Conns /\ ident[k] = target[d] /\ pc[d] = "sending"
    BY <1>7 DEF Send, LineInv, CallPlaces, OneOwnerPerBackend, TypeInv, TypeOK
  <2>2. /\ pc' = [pc EXCEPT ![d] = "waiting"]
        /\ chan' = [chan EXCEPT ![k] = Append(@, d)]
        /\ UNCHANGED <<kind, target, outcome, reply, announced, task, ident, hand, out, received>>
    BY <1>7 DEF Send
  <2>3. outcome[d] = "none" /\ ~Sent(d) /\ Sent(d)'
    BY <2>1, <2>2 DEF FlowInv, OutcomeInv, Sent, EarlyOutcome, TypeInv, TypeOK
  <2>4. \A c \in Calls : Sent(c) => Sent(c)'
    BY <2>2, <2>3 DEF Sent, TypeInv, TypeOK
  <2>5. ASSUME NEW c \in Calls, NEW j \in Conns, Carried(c, j)'
        PROVE  Sent(c)' /\ target'[c] = ident'[j]
    <3>1. CASE Carried(c, j)
      BY <2>2, <2>4, <3>1 DEF FlowInv, RouteInv
    <3>2. CASE ~Carried(c, j)
      <4>1. Occurs(c, chan'[j]) /\ ~Occurs(c, chan[j])
        BY <2>2, <2>5, <3>2 DEF Carried, InHand
      <4>2. j = k /\ chan'[j] = Append(chan[j], d)
        BY <2>1, <2>2, <4>1 DEF TypeInv, TypeOK
      <4>3. c = d
        BY <1>1, <4>1, <4>2, OccursAppend
      <4> QED  BY <2>1, <2>2, <2>3, <4>2, <4>3
    <3> QED  BY <3>1, <3>2
  <2>6. RouteInv'
    BY <1>1, <2>2, <2>4, <2>5 DEF FlowInv, RouteInv
  <2>7. AnswerInv' /\ OutcomeInv'
    BY <2>1, <2>2, <2>3 DEF FlowInv, AnswerInv, OutcomeInv, TypeInv, TypeOK
  <2> QED  BY <2>6, <2>7 DEF FlowInv
<1>8. ASSUME NEW k \in Conns, Hello(k) \/ HelloFails(k) \/ RegisterBackend(k)
      PROVE  FlowInv'
  <2>1. /\ UNCHANGED <<ident, chan, hand, out, received, callVars>>
        /\ \A j \in Conns : task'[j] = "answering" => task[j] = "answering"
        /\ \A j \in Conns : task'[j] = "forwarding" => task[j] = "forwarding"
    BY <1>8 DEF Hello, HelloFails, RegisterBackend, TypeInv, TypeOK
  <2>2. \A c \in Calls, j \in Conns : Carried(c, j)' => Carried(c, j)
    BY <2>1 DEF Carried, InHand
  <2> QED  BY <2>1, <2>2, ConnFlow DEF callVars, FlowInv, AnswerInv
<1>9. ASSUME NEW k \in Conns, TakeRequest(k) PROVE FlowInv'
  <2>1. /\ chan[k] # <<>>
        /\ task' = [task EXCEPT ![k] = "forwarding"]
        /\ hand'[k].call = Head(chan[k])
        /\ chan' = [chan EXCEPT ![k] = Tail(@)]
        /\ \A j \in Conns \ {k} : hand'[j] = hand[j]
        /\ UNCHANGED <<ident, out, received, callVars>>
    BY <1>9 DEF TakeRequest, TypeInv, TypeOK
  <2>2. \A c \in Calls : Carried(c, k)' => Carried(c, k)
    BY <1>1, <2>1, OccursTail DEF Carried, InHand, TypeInv, TypeOK
  <2>3. \A c \in Calls, j \in Conns \ {k} : Carried(c, j)' => Carried(c, j)
    BY <2>1 DEF Carried, InHand, TypeInv, TypeOK
  <2>4. \A j \in Conns : task'[j] = "answering" => task[j] = "answering" /\ hand'[j] = hand[j]
    BY <2>1 DEF TypeInv, TypeOK
  <2> QED  BY <2>1, <2>2, <2>3, <2>4, ConnFlow DEF callVars, FlowInv, AnswerInv
<1>10. ASSUME NEW k \in Conns, Forward(k) PROVE FlowInv'
  <2>1. /\ task[k] = "forwarding" /\ hand[k].call \in Calls
        /\ task' = [task EXCEPT ![k] = "running"]
        /\ out' = [out EXCEPT ![k] = Append(@, hand[k].call)]
        /\ \A j \in Conns \ {k} : hand'[j] = hand[j]
        /\ UNCHANGED <<ident, chan, received, callVars>>
    BY <1>10 DEF Forward, TypeInv, TypeOK, HandOK
  <2>2. \A c \in Calls : Carried(c, k)' => Carried(c, k)
    BY <1>1, <2>1, OccursAppend DEF Carried, InHand, TypeInv, TypeOK
  <2>3. \A c \in Calls, j \in Conns \ {k} : Carried(c, j)' => Carried(c, j)
    BY <2>1 DEF Carried, InHand, TypeInv, TypeOK
  <2>4. \A j \in Conns : task'[j] = "answering" => task[j] = "answering" /\ hand'[j] = hand[j]
    BY <2>1 DEF TypeInv, TypeOK
  <2> QED  BY <2>1, <2>2, <2>3, <2>4, ConnFlow DEF callVars, FlowInv, AnswerInv
<1>11. ASSUME NEW k \in Conns, EndTask(k),
              UNCHANGED <<pc, kind, target, outcome, announced>>,
              \A c \in Calls : reply'[c] # NoReply =>
                  c \in received[target[c]] /\ reply'[c] \in Replies
       PROVE  FlowInv'
  <2>1. /\ task' = [task EXCEPT ![k] = "ended"]
        /\ chan' = [chan EXCEPT ![k] = <<>>]
        /\ \A j \in Conns \ {k} : hand'[j] = hand[j]
        /\ UNCHANGED <<ident, out, received>>
    BY <1>11 DEF EndTask, TypeInv, TypeOK
  <2>2. \A c \in Calls : ~Occurs(c, <<>>)
    BY DEF Occurs
  <2>3. \A c \in Calls, j \in Conns : Carried(c, j)' => Carried(c, j)
    BY <2>1, <2>2 DEF Carried, InHand, TypeInv, TypeOK
  <2>4. \A j \in Conns : task'[j] = "answering" => task[j] = "answering" /\ hand'[j] = hand[j]
    BY <2>1 DEF TypeInv, TypeOK
  <2> QED  BY <1>11, <2>1, <2>3, <2>4, ConnFlow
<1>12. ASSUME NEW k \in Conns, ForwardFails(k) \/ EndOfStream(k) PROVE FlowInv'
  BY <1>11, <1>12 DEF ForwardFails, EndOfStream, callVars, FlowInv, AnswerInv
<1>13. ASSUME NEW k \in Conns, TakeAnswer(k) PROVE FlowInv'
  <2>1. PICK c \in received[ident[k]], r \in Replies :
               hand' = [hand EXCEPT ![k] = [call |-> c, reply |-> r]]
    BY <1>13 DEF TakeAnswer
  <2>2. /\ task' = [task EXCEPT ![k] = "answering"]
        /\ UNCHANGED <<ident, chan, out, received, callVars>>
    BY <1>13 DEF TakeAnswer
  <2>3. \A d \in Calls, j \in Conns : Carried(d, j)' => Carried(d, j)
    BY <2>1, <2>2 DEF Carried, InHand, TypeInv, TypeOK
  <2>4. RouteInv'
    BY <1>1, <2>2, <2>3 DEF FlowInv, RouteInv, Sent, callVars
  <2>5. AnswerInv'
    BY <2>1, <2>2 DEF FlowInv, AnswerInv, callVars, TypeInv, TypeOK
  <2>6. OutcomeInv'
    BY <2>2 DEF FlowInv, OutcomeInv, callVars
  <2> QED  BY <2>4, <2>5, <2>6 DEF FlowInv
<1>14. ASSUME NEW k \in Conns, HandleAnswer(k) PROVE FlowInv'
  <2> DEFINE c == hand[k].call
             r == hand[k].reply
  <2>1. /\ c \in received[ident[k]] /\ r \in Replies /\ c \in Calls
        /\ target[c] = ident[k]
    BY <1>1, <1>14 DEF HandleAnswer, FlowInv, AnswerInv, RouteInv
  <2>2. UNCHANGED <<pc, kind, target, outcome, announced>>
    BY <1>14 DEF HandleAnswer
  <2>3. \A d \in Calls : reply'[d] = reply[d] \/ (d = c /\ reply'[d] = r)
    BY <1>14 DEF HandleAnswer, Addressee, TypeInv, TypeOK
  <2>4. \A d \in Calls : reply'[d] # NoReply =>
            d \in received[target[d]] /\ reply'[d] \in Replies
    BY <2>1, <2>3 DEF FlowInv, AnswerInv
  <2>5. CASE EndTask(k)
    BY <1>11, <2>2, <2>4, <2>5
  <2>6. CASE /\ task' = [task EXCEPT ![k] = "running"]
             /\ hand' = [hand EXCEPT ![k] = NothingInHand]
             /\ UNCHANGED <<ident, chan, out, received, cleanups>>
    <3>1. \A d \in Calls, j \in Conns : Carried(d, j)' => Carried(d, j)
      BY <2>6 DEF Carried, InHand, TypeInv, TypeOK
    <3>2. \A j \in Conns : task'[j] = "answering" => task[j] = "answering" /\ hand'[j] = hand[j]
      BY <2>6 DEF TypeInv, TypeOK
    <3> QED  BY <2>2, <2>4, <2>6, <3>1, <3>2, ConnFlow
  <2> QED  BY <1>14, <2>5, <2>6 DEF HandleAnswer
<1>15. ASSUME NEW k \in Conns, BackendReceives(k) PROVE FlowInv'
  <2> DEFINE h == Head(out[k])
  <2>1. /\ out[k] # <<>>
        /\ received' = [received EXCEPT ![ident[k]] = @ \cup {h}]
        /\ out' = [out EXCEPT ![k] = Tail(@)]
        /\ UNCHANGED <<task, ident, chan, hand, callVars>>
    BY <1>15 DEF BackendReceives
  <2>2. h \in Calls /\ Carried(h, k)
    BY <1>1, <2>1, OccursTail DEF Carried, InHand
  <2>3. Sent(h) /\ target[h] = ident[k]
    BY <2>2 DEF FlowInv, RouteInv
  <2>4. \A d \in Calls : Carried(d, k)' => Carried(d, k)
    BY <1>1, <2>1, OccursTail DEF Carried, InHand, TypeInv, TypeOK
  <2>5. \A d \in Calls, j \in Conns \ {k} : Carried(d, j)' => Carried(d, j)
    BY <2>1 DEF Carried, InHand, TypeInv, TypeOK
  <2>6. \A b \in BackendIds : /\ received[b] \subseteq received'[b]
                              /\ \A d \in received'[b] : d \in received[b] \/ (d = h /\ b = ident[k])
    BY <1>1, <2>1 DEF TypeInv, TypeOK
  <2>7. RouteInv'
    BY <1>1, <2>1, <2>3, <2>4, <2>5, <2>6 DEF FlowInv, RouteInv, Sent, callVars
  <2>8. \A d \in Calls : target[d] \in BackendIds
    BY DEF TypeInv, TypeOK
  <2>9. AnswerInv' /\ OutcomeInv'
    BY <1>1, <2>1, <2>6, <2>8 DEF FlowInv, AnswerInv, OutcomeInv, callVars
  <2> QED  BY <2>7, <2>9 DEF FlowInv
<1>16. CASE UNCHANGED <<callVars, connVars>>
  <2>1. \A c \in Calls, j \in Conns : Carried(c, j)' <=> Carried(c, j)
    BY <1>16 DEF Carried, InHand, connVars
  <2>2. RouteInv'
    BY <1>1, <1>16, <2>1 DEF FlowInv, RouteInv, Sent, callVars, connVars
  <2>3. AnswerInv' /\ OutcomeInv'
    BY <1>16 DEF FlowInv, AnswerInv, OutcomeInv, callVars, connVars
  <2> QED  BY <2>2, <2>3 DEF FlowInv
<1>17. CASE CleanupStep
  BY <1>16, <1>17 DEF CleanupStep, TakeCleanup, CleanRequest, CleanBackend
<1>18. CASE UNCHANGED vars
  BY <1>16, <1>18 DEF vars
<1> QED
  BY <1>2, <1>3, <1>4, <1>5, <1>6, <1>7, <1>8, <1>9, <1>10, <1>12, <1>13, <1>14,
     <1>15, <1>17, <1>18
     DEF Next, ServerStep, PluginStep, BackendStep, CallStep, ConnStep

LEMMA FlowInit == Init => FlowInv
<1> SUFFICES ASSUME Init PROVE FlowInv
  OBVIOUS
<1>1. \A c : ~Occurs(c, <<>>)
  BY DEF Occurs
<1>2. RouteInv
  BY <1>1 DEF Init, RouteInv, Carried, InHand
<1>3. AnswerInv /\ OutcomeInv
  BY DEF Init, AnswerInv, OutcomeInv
<1> QED  BY <1>2, <1>3 DEF FlowInv

\* A call that succeeds was given to the backend it named, and a message was
\* announced to the plugins.
THEOREM SuccessIsDelivered == Spec => []OkMeansDelivered
<1>1. TypeInv /\ FlowInv => OkMeansDelivered
  BY DEF TypeInv, TypeOK, FlowInv, OutcomeInv, OkMeansDelivered
<1> QED
  BY <1>1, TypeInit, TypeStep, OwnerInit, OwnerStep, LineInit, LineStep,
     FlowInit, FlowStep, PTL DEF Spec

-----------------------------------------------------------------------------
(* The contract *)

\* When call d moves on, and the others stay, so do their stages.
LEMMA StageMoves ==
    ASSUME TypeInv, NEW d \in Calls, NEW p \in CallState, pc' = [pc EXCEPT ![d] = p]
    PROVE  Stage' = [Stage EXCEPT ![d] = IF p = "idle" THEN "new"
                                         ELSE IF p = "done" THEN "closed" ELSE "open"]
<1>1. \A c \in Calls : pc'[c] = IF c = d THEN p ELSE pc[c]
  BY DEF TypeInv, TypeOK
<1> QED  BY <1>1 DEF Stage

\* The contract names the same outcomes.
LEMMA SameTypes ==
    /\ Contract!Outcomes = Outcomes
    /\ Contract!EarlyOutcome = EarlyOutcome
    /\ Contract!Wanted = Wanted
BY DEF Outcomes, EarlyOutcome, Wanted, HandleOutcome, Contract!Outcomes,
   Contract!EarlyOutcome, Contract!Wanted, Contract!HandleOutcome

\* The stage of a call tells where it is.
LEMMA StageOf ==
    \A c \in Calls : /\ Stage[c] = "new" <=> pc[c] = "idle"
                     /\ Stage[c] = "closed" <=> pc[c] = "done"
                     /\ Stage[c] = "open" <=> pc[c] \notin {"idle", "done"}
BY DEF Stage

\* Only the backend that a call names is ever given its request.
LEMMA DeliveredOf ==
    ASSUME TypeInv, FlowInv, NEW c \in Calls
    PROVE  c \in Delivered <=> c \in received[target[c]]
BY DEF TypeInv, TypeOK, FlowInv, RouteInv, Delivered

\* A call that has not sent its request has no answer and is not delivered.
LEMMA Unsent ==
    ASSUME TypeInv, FlowInv, NEW c \in Calls, ~Sent(c)
    PROVE  reply[c] = NoReply /\ c \notin Delivered
BY DeliveredOf DEF TypeInv, TypeOK, FlowInv, AnswerInv, RouteInv

\* A call that ends before its handle exists closes with an early outcome.
LEMMA AbandonCloses ==
    ASSUME TypeInv, FlowInv, NEW d \in Calls, NEW res \in EarlyOutcome, Abandon(d, res),
           pc[d] \notin {"idle", "waiting", "done"}
    PROVE  Contract!Close(d)
<1>1. reply[d] = NoReply /\ d \notin Delivered
  BY Unsent DEF Sent
<1>2. Stage[d] = "open" /\ Stage' = [Stage EXCEPT ![d] = "closed"]
  BY StageOf, StageMoves DEF Abandon, CallState
<1>3. reply' = [reply EXCEPT ![d] = NoReply] /\ outcome' = [outcome EXCEPT ![d] = res]
  BY <1>1 DEF Abandon, TypeInv, TypeOK
<1>4. UNCHANGED <<kind, Delivered>>
  BY DEF Abandon, connVars, Delivered
<1>5. /\ res \in Outcomes
      /\ res # "ok" /\ res # "failed" /\ res # "unexpected"
  BY DEF Outcomes, EarlyOutcome
<1>6. \E o \in Outcomes :
         /\ outcome' = [outcome EXCEPT ![d] = o]
         /\ o = "ok" => reply[d] \in Wanted[kind[d]]
         /\ o = "failed" => reply[d] = "Failed"
         /\ o = "unexpected" => reply[d] \notin {"Failed", NoReply} \cup Wanted[kind[d]]
         /\ o \in EarlyOutcome => d \notin Delivered
  <2> res \in Outcomes
    BY <1>5
  <2> WITNESS res \in Outcomes
  <2> QED  BY <1>1, <1>3, <1>5
<1> QED  BY <1>2, <1>3, <1>4, <1>6, SameTypes, Zenon DEF Contract!Close

\* A call that had a handle closes with what its answer says.
LEMMA DropHandleCloses ==
    ASSUME TypeInv, NEW d \in Calls, NEW res \in HandleOutcome, DropHandle(d, res),
           pc[d] = "waiting",
           res \in {"ok", "failed", "unexpected"} =>
               reply[d] # NoReply /\ res = OutcomeOf(kind[d], reply[d])
    PROVE  Contract!Close(d)
<1>1. Stage[d] = "open" /\ Stage' = [Stage EXCEPT ![d] = "closed"]
  BY StageOf, StageMoves DEF DropHandle, CallState
<1>2. reply' = [reply EXCEPT ![d] = NoReply] /\ outcome' = [outcome EXCEPT ![d] = res]
  BY DEF DropHandle
<1>3. UNCHANGED <<kind, Delivered>>
  BY DEF DropHandle, connVars, Delivered
<1>4. res \in Outcomes /\ res \notin EarlyOutcome
  BY DEF Outcomes, HandleOutcome, EarlyOutcome
<1>5. /\ res = "ok" => reply[d] \in Wanted[kind[d]]
      /\ res = "failed" => reply[d] = "Failed"
      /\ res = "unexpected" => reply[d] \notin {"Failed", NoReply} \cup Wanted[kind[d]]
  BY DEF OutcomeOf
<1>6. \E o \in Outcomes :
         /\ outcome' = [outcome EXCEPT ![d] = o]
         /\ o = "ok" => reply[d] \in Wanted[kind[d]]
         /\ o = "failed" => reply[d] = "Failed"
         /\ o = "unexpected" => reply[d] \notin {"Failed", NoReply} \cup Wanted[kind[d]]
         /\ o \in EarlyOutcome => d \notin Delivered
  <2> res \in Outcomes
    BY <1>4
  <2> WITNESS res \in Outcomes
  <2> QED  BY <1>2, <1>4, <1>5
<1> QED  BY <1>1, <1>2, <1>3, <1>6, SameTypes, Zenon DEF Contract!Close

\* The broker starts as the contract does.
LEMMA ContractInit == Init => Contract!Init
<1> SUFFICES ASSUME Init PROVE Contract!Init
  OBVIOUS
<1>1. Stage = [c \in Calls |-> "new"]
  BY DEF Init, Stage
<1>2. Delivered = {}
  BY DEF Init, Delivered
<1> QED  BY <1>1, <1>2 DEF Init, Contract!Init

\* Every step is a step of the contract, or none for it.
LEMMA ContractStep ==
    TypeInv /\ RequestInv /\ FlowInv /\ [Next]_vars => [Contract!Next]_(Contract!contractVars)
<1> SUFFICES ASSUME TypeInv, RequestInv, FlowInv, [Next]_vars
             PROVE  Contract!Next \/ UNCHANGED Contract!contractVars
  OBVIOUS
<1>1. ASSUME NEW d \in Calls,
             \/ Contract!Refuse(d) \/ Contract!Open(d) \/ Contract!Deliver(d)
             \/ Contract!Answer(d) \/ Contract!Close(d)
      PROVE  Contract!Next
  BY <1>1 DEF Contract!Next
<1>2. ASSUME UNCHANGED <<kind, Stage, received, reply, outcome>>
      PROVE  UNCHANGED Contract!contractVars
  BY <1>2 DEF Contract!contractVars, Delivered
<1>3. ASSUME NEW d \in Calls, Reject(d) PROVE Contract!Refuse(d)
  <2>1. Stage[d] = "new" /\ Stage' = [Stage EXCEPT ![d] = "closed"]
    BY <1>3, StageOf, StageMoves DEF Reject, Abandon, CallState
  <2> QED  BY <1>3, <2>1 DEF Reject, Abandon, connVars, Delivered, Contract!Refuse
<1>4. ASSUME NEW d \in Calls, CheckBackendFails(d) \/ LookupFails(d) \/ SendFails(d)
      PROVE  Contract!Close(d)
  BY <1>4, AbandonCloses DEF CheckBackendFails, LookupFails, SendFails, EarlyOutcome
<1>5. ASSUME NEW d \in Calls, Return(d) PROVE Contract!Close(d)
  BY <1>5, DropHandleCloses DEF Return, OutcomeOf, HandleOutcome
<1>6. ASSUME NEW d \in Calls, Timeout(d) PROVE Contract!Close(d)
  BY <1>6, DropHandleCloses DEF Timeout, HandleOutcome
<1>7. ASSUME NEW d \in Calls, Cancel(d) PROVE Contract!Close(d)
  BY <1>7, AbandonCloses, DropHandleCloses DEF Cancel, EarlyOutcome, HandleOutcome
<1>8. ASSUME NEW d \in Calls, BeginRequest(d) \/ BeginInfo(d) PROVE Contract!Open(d)
  <2>1. Stage[d] = "new" /\ Stage' = [Stage EXCEPT ![d] = "open"]
    BY <1>8, StageOf, StageMoves DEF BeginRequest, BeginInfo, CallState
  <2> QED  BY <1>8, <2>1 DEF BeginRequest, BeginInfo, connVars, Delivered, Contract!Open
<1>9. ASSUME NEW d \in Calls, CheckBackend(d) \/ Insert(d) \/ Lookup(d) \/ Send(d)
      PROVE  UNCHANGED Contract!contractVars
  <2>1. PICK p \in CallState \ {"idle", "done"} : pc' = [pc EXCEPT ![d] = p]
    BY <1>9 DEF CheckBackend, Insert, Lookup, Send, CallState
  <2>2. Stage[d] = "open" /\ Stage' = [Stage EXCEPT ![d] = "open"]
    BY <1>9, <2>1, StageOf, StageMoves DEF CheckBackend, Insert, Lookup, Send
  <2>3. UNCHANGED Stage
    BY <2>2 DEF Stage
  <2> QED  BY <1>2, <1>9, <2>3 DEF CheckBackend, Insert, Lookup, Send, connVars
<1>10. ASSUME NEW k \in Conns,
              \/ Hello(k) \/ HelloFails(k) \/ RegisterBackend(k) \/ TakeRequest(k)
              \/ Forward(k) \/ ForwardFails(k) \/ TakeAnswer(k) \/ EndOfStream(k)
       PROVE  UNCHANGED Contract!contractVars
  BY <1>2, <1>10 DEF Hello, HelloFails, RegisterBackend, TakeRequest, Forward,
     ForwardFails, TakeAnswer, EndOfStream, EndTask, callVars, Stage
<1>11. ASSUME NEW k \in Conns, HandleAnswer(k)
       PROVE  Contract!Next \/ UNCHANGED Contract!contractVars
  <2> DEFINE c == hand[k].call
             r == hand[k].reply
  <2>1. c \in Calls /\ c \in received[ident[k]] /\ ident[k] \in BackendIds /\ r \in Replies
    BY <1>11 DEF HandleAnswer, TypeInv, TypeOK, HandOK, FlowInv, AnswerInv
  <2>2. UNCHANGED <<pc, kind, outcome, received, Stage>>
    BY <1>11 DEF HandleAnswer, EndTask, Stage
  <2>3. CASE requests[c] = "pending" /\ ReceiverAlive(c)
    <3>1. reply[c] = NoReply /\ pc[c] \notin {"idle", "done"}
      BY <2>1, <2>3, BrokerAssumption DEF RequestInv, RequestOf, ReceiverAlive
    <3>2. reply' = [reply EXCEPT ![c] = r]
      BY <1>11, <2>3 DEF HandleAnswer, Addressee
    <3>3. c \in Delivered
      BY <2>1 DEF Delivered
    <3>4. Stage[c] = "open"
      BY <2>1, <3>1, StageOf
    <3>5. Delivered' = Delivered
      BY <2>2 DEF Delivered
    <3>6. \E rep \in Replies : reply' = [reply EXCEPT ![c] = rep]
      BY <2>1, <3>2
    <3>7. Contract!Answer(c)
      BY <2>2, <3>1, <3>3, <3>4, <3>5, <3>6, Zenon DEF Contract!Answer
    <3> QED  BY <1>1, <2>1, <3>7
  <2>4. CASE ~(requests[c] = "pending" /\ ReceiverAlive(c))
    BY <1>2, <1>11, <2>2, <2>4 DEF HandleAnswer, Addressee
  <2> QED  BY <2>3, <2>4
<1>12. ASSUME NEW k \in Conns, BackendReceives(k) PROVE Contract!Next
  <2> DEFINE h == Head(out[k])
  <2>1. out[k] \in Seq(Calls) /\ out[k] # <<>> /\ ident[k] \in BackendIds
    BY <1>12 DEF BackendReceives, TypeInv, TypeOK
  <2>2. h \in Calls /\ Carried(h, k)
    BY <2>1, OccursTail DEF Carried, InHand
  <2>3. pc[h] # "idle" /\ outcome[h] \notin EarlyOutcome
    BY <2>2 DEF FlowInv, RouteInv, Sent
  <2>4. received' = [received EXCEPT ![ident[k]] = @ \cup {h}]
    BY <1>12 DEF BackendReceives
  <2>5. Delivered' = Delivered \cup {h}
    <3>1. \A b \in BackendIds : received'[b] = IF b = ident[k] THEN received[b] \cup {h} ELSE received[b]
      BY <2>4 DEF TypeInv, TypeOK
    <3>2. Delivered' = UNION {received'[b] : b \in BackendIds}
      BY DEF Delivered
    <3>3. ASSUME NEW x PROVE x \in Delivered' <=> x \in Delivered \/ x = h
      <4>1. x \in Delivered' <=> \E b \in BackendIds : x \in received'[b]
        BY <3>2
      <4>2. x \in Delivered <=> \E b \in BackendIds : x \in received[b]
        BY DEF Delivered
      <4> QED  BY <2>1, <3>1, <4>1, <4>2
    <3> QED  BY <3>3
  <2>6. UNCHANGED <<kind, Stage, reply, outcome>>
    BY <1>12 DEF BackendReceives, callVars, Stage
  <2>7. Contract!Deliver(h)
    <3>1. Stage[h] # "new"
      BY <2>2, <2>3, StageOf
    <3> QED  BY <2>3, <2>5, <2>6, <3>1, SameTypes DEF Contract!Deliver
  <2> QED  BY <1>1, <2>2, <2>7
<1>13. CASE CleanupStep
  BY <1>2, <1>13 DEF CleanupStep, TakeCleanup, CleanRequest, CleanBackend,
     callVars, connVars, Stage
<1>14. CASE UNCHANGED vars
  BY <1>2, <1>14 DEF vars, callVars, connVars, Stage
<1> QED
  BY <1>1, <1>3, <1>4, <1>5, <1>6, <1>7, <1>8, <1>9, <1>10, <1>11, <1>12, <1>13, <1>14
     DEF Next, ServerStep, PluginStep, BackendStep, CallStep, ConnStep

\* The broker implements the contract, for any number of calls, connections
\* and backends.
THEOREM BrokerImplementsContract == Spec => ImplementsContract
BY TypeInit, TypeStep, OwnerInit, OwnerStep, LineInit, LineStep, RequestInit,
   RequestStep, FlowInit, FlowStep, ContractInit, ContractStep, PTL
   DEF Spec, ImplementsContract, Contract!Spec

-----------------------------------------------------------------------------
(* Requests under way *)

\* A call that has not sent its request is not answered.
LEMMA NotSentNoReply ==
    ASSUME TypeInv, FlowInv, NEW c \in Calls, ~Sent(c)
    PROVE  reply[c] = NoReply /\ c \notin Delivered /\ \A k \in Conns : ~Carried(c, k)
<1>1. c \notin received[target[c]]
  BY DEF FlowInv, RouteInv, TypeInv, TypeOK
<1> QED  BY <1>1, DeliveredOf DEF FlowInv, RouteInv, AnswerInv

\* No request is under way twice.
OnceInv == \A c \in Calls : CarriedOnce(c)

\* A request stays where it is, or is thrown away, when nothing moves it on.
LEMMA OnceFrame ==
    ASSUME NEW c \in Calls, CarriedOnce(c),
           \A j \in Conns :
               /\ Occurs(c, chan'[j]) => Occurs(c, chan[j])
               /\ Occurs(c, out'[j]) => Occurs(c, out[j])
               /\ AtMostOnce(c, chan[j]) => AtMostOnce(c, chan'[j])
               /\ AtMostOnce(c, out[j]) => AtMostOnce(c, out'[j])
               /\ InHand(c, j)' => InHand(c, j),
           c \in Delivered' => c \in Delivered
    PROVE  CarriedOnce(c)'
<1>1. \A j \in Conns : Carried(c, j)' => Carried(c, j)
  BY DEF Carried
<1> QED  BY <1>1 DEF CarriedOnce

LEMMA OnceInit == Init => OnceInv
<1>1. \A c : ~Occurs(c, <<>>)
  BY DEF Occurs
<1> QED  BY <1>1 DEF Init, OnceInv, CarriedOnce, Carried, InHand

\* A request that is not under way yet is put into a channel.
LEMMA OnceSend ==
    ASSUME TypeInv, OneOwnerPerBackend, LineInv, FlowInv, OnceInv, NEW d \in Calls, Send(d),
           NEW c \in Calls
    PROVE  CarriedOnce(c)'
<1> DEFINE k == backends[target[d]]
<1>1. k \in Conns /\ pc[d] = "sending"
  BY DEF Send, LineInv, CallPlaces, TypeInv, TypeOK
<1>2. /\ chan' = [chan EXCEPT ![k] = Append(@, d)]
      /\ UNCHANGED <<task, hand, out, received>>
  BY DEF Send
<1>3. Delivered' = Delivered
  BY <1>2 DEF Delivered
<1>4. ~Sent(d)
  BY <1>1 DEF Sent
<1>5. d \notin Delivered /\ \A j \in Conns : ~Carried(d, j)
  BY <1>4, NotSentNoReply
<1>6. /\ chan[k] \in Seq(Calls) /\ chan'[k] = Append(chan[k], d)
      /\ \A j \in Conns \ {k} : chan'[j] = chan[j]
  BY <1>1, <1>2 DEF TypeInv, TypeOK
<1>7. /\ Occurs(c, chan'[k]) <=> Occurs(c, chan[k]) \/ c = d
      /\ AtMostOnce(c, chan[k]) /\ ~(c = d /\ Occurs(c, chan[k])) => AtMostOnce(c, chan'[k])
  BY <1>6, OccursAppend
<1>8. \A j \in Conns : InHand(c, j)' <=> InHand(c, j)
  BY <1>2 DEF InHand
<1>9. CASE c # d
  BY <1>2, <1>3, <1>6, <1>7, <1>8, <1>9, OnceFrame DEF OnceInv
<1>10. CASE c = d
  <2>1. \A j \in Conns : ~Occurs(c, chan[j]) /\ ~InHand(c, j) /\ ~Occurs(c, out[j])
    BY <1>5, <1>10 DEF Carried
  <2>2. \A j \in Conns : Carried(c, j)' => j = k
    BY <1>2, <1>6, <1>8, <2>1 DEF Carried
  <2>3. AtMostOnce(c, chan[k]) /\ AtMostOnce(c, out[k])
    BY <1>1, <2>1 DEF AtMostOnce, Occurs
  <2> QED  BY <1>1, <1>2, <1>3, <1>5, <1>7, <1>8, <1>10, <2>1, <2>2, <2>3 DEF CarriedOnce
<1> QED  BY <1>9, <1>10

\* The task of connection k takes a request out of its channel.
LEMMA OnceTake ==
    ASSUME TypeInv, OnceInv, NEW k \in Conns, TakeRequest(k), NEW c \in Calls
    PROVE  CarriedOnce(c)'
<1> DEFINE h == Head(chan[k])
<1>1. /\ task[k] = "running" /\ chan[k] # <<>> /\ chan[k] \in Seq(Calls)
      /\ task' = [task EXCEPT ![k] = "forwarding"]
      /\ hand'[k].call = h
      /\ chan' = [chan EXCEPT ![k] = Tail(@)]
      /\ \A j \in Conns \ {k} : hand'[j] = hand[j]
      /\ UNCHANGED <<out, received>>
  BY DEF TakeRequest, TypeInv, TypeOK
<1>2. Delivered' = Delivered
  BY <1>1 DEF Delivered
<1>3. /\ Occurs(h, chan[k])
      /\ Occurs(c, Tail(chan[k])) => Occurs(c, chan[k])
      /\ AtMostOnce(c, chan[k]) => AtMostOnce(c, Tail(chan[k]))
      /\ AtMostOnce(c, chan[k]) /\ c = h => ~Occurs(c, Tail(chan[k]))
  BY <1>1, OccursTail
<1>4. chan'[k] = Tail(chan[k]) /\ \A j \in Conns \ {k} : chan'[j] = chan[j]
  BY <1>1 DEF TypeInv, TypeOK
<1>5. InHand(c, k)' <=> c = h
  BY <1>1 DEF InHand, TypeInv, TypeOK
<1>6. \A j \in Conns \ {k} : InHand(c, j)' <=> InHand(c, j)
  BY <1>1 DEF InHand, TypeInv, TypeOK
<1>7. CASE c # h
  BY <1>1, <1>2, <1>3, <1>4, <1>5, <1>6, <1>7, OnceFrame DEF OnceInv
<1>8. CASE c = h
  <2>1. Carried(c, k) /\ CarriedOnce(c) /\ Occurs(c, chan[k])
    BY <1>3, <1>8 DEF Carried, OnceInv
  <2>2. /\ c \notin Delivered
        /\ \A j \in Conns : Carried(c, j) => j = k
        /\ AtMostOnce(c, chan[k]) /\ AtMostOnce(c, out[k])
        /\ ~Occurs(c, out[k])
    BY <2>1 DEF CarriedOnce
  <2>3. \A j \in Conns : Carried(c, j)' => j = k
    BY <1>1, <1>4, <1>6, <2>2 DEF Carried
  <2> QED  BY <1>1, <1>2, <1>3, <1>4, <1>8, <2>2, <2>3 DEF CarriedOnce
<1> QED  BY <1>7, <1>8

\* ... and puts it into the response stream.
LEMMA OnceForward ==
    ASSUME TypeInv, OnceInv, NEW k \in Conns, Forward(k), NEW c \in Calls
    PROVE  CarriedOnce(c)'
<1> DEFINE h == hand[k].call
<1>1. /\ task[k] = "forwarding" /\ h \in Calls /\ out[k] \in Seq(Calls)
      /\ task' = [task EXCEPT ![k] = "running"]
      /\ out' = [out EXCEPT ![k] = Append(@, h)]
      /\ \A j \in Conns \ {k} : hand'[j] = hand[j]
      /\ UNCHANGED <<chan, received>>
  BY DEF Forward, TypeInv, TypeOK, HandOK
<1>2. Delivered' = Delivered
  BY <1>1 DEF Delivered
<1>3. /\ Occurs(c, Append(out[k], h)) <=> Occurs(c, out[k]) \/ c = h
      /\ AtMostOnce(c, out[k]) /\ ~(c = h /\ Occurs(c, out[k])) => AtMostOnce(c, Append(out[k], h))
  BY <1>1, OccursAppend
<1>4. out'[k] = Append(out[k], h) /\ \A j \in Conns \ {k} : out'[j] = out[j]
  BY <1>1 DEF TypeInv, TypeOK
<1>5. ~InHand(c, k)' /\ InHand(h, k)
  BY <1>1 DEF InHand, TypeInv, TypeOK
<1>6. \A j \in Conns \ {k} : InHand(c, j)' <=> InHand(c, j)
  BY <1>1 DEF InHand, TypeInv, TypeOK
<1>7. CASE c # h
  BY <1>1, <1>2, <1>3, <1>4, <1>5, <1>6, <1>7, OnceFrame DEF OnceInv
<1>8. CASE c = h
  <2>1. Carried(c, k) /\ CarriedOnce(c) /\ InHand(c, k)
    BY <1>5, <1>8 DEF Carried, OnceInv
  <2>2. /\ c \notin Delivered
        /\ \A j \in Conns : Carried(c, j) => j = k
        /\ AtMostOnce(c, chan[k]) /\ AtMostOnce(c, out[k])
        /\ ~Occurs(c, out[k]) /\ ~Occurs(c, chan[k])
    BY <2>1 DEF CarriedOnce
  <2>3. \A j \in Conns : Carried(c, j)' => j = k
    BY <1>1, <1>4, <1>6, <2>2 DEF Carried
  <2> QED  BY <1>1, <1>2, <1>3, <1>4, <1>5, <2>2, <2>3 DEF CarriedOnce
<1> QED  BY <1>7, <1>8

\* The backend reads a request from the response stream: it is delivered.
LEMMA OnceReceive ==
    ASSUME TypeInv, OnceInv, NEW k \in Conns, BackendReceives(k), NEW c \in Calls
    PROVE  CarriedOnce(c)'
<1> DEFINE h == Head(out[k])
<1>1. /\ out[k] # <<>> /\ out[k] \in Seq(Calls) /\ ident[k] \in BackendIds
      /\ received' = [received EXCEPT ![ident[k]] = @ \cup {h}]
      /\ out' = [out EXCEPT ![k] = Tail(@)]
      /\ UNCHANGED <<task, chan, hand>>
  BY DEF BackendReceives, TypeInv, TypeOK
<1>2. c \in Delivered' => c \in Delivered \/ c = h
  BY <1>1 DEF Delivered, TypeInv, TypeOK
<1>3. /\ Occurs(h, out[k])
      /\ Occurs(c, Tail(out[k])) => Occurs(c, out[k])
      /\ AtMostOnce(c, out[k]) => AtMostOnce(c, Tail(out[k]))
      /\ AtMostOnce(c, out[k]) /\ c = h => ~Occurs(c, Tail(out[k]))
  BY <1>1, OccursTail
<1>4. out'[k] = Tail(out[k]) /\ \A j \in Conns \ {k} : out'[j] = out[j]
  BY <1>1 DEF TypeInv, TypeOK
<1>5. \A j \in Conns : InHand(c, j)' <=> InHand(c, j)
  BY <1>1 DEF InHand
<1>6. CASE c # h
  BY <1>1, <1>2, <1>3, <1>4, <1>5, <1>6, OnceFrame DEF OnceInv
<1>7. CASE c = h
  <2>1. Carried(c, k) /\ CarriedOnce(c) /\ Occurs(c, out[k])
    BY <1>3, <1>7 DEF Carried, OnceInv
  <2>2. /\ \A j \in Conns : Carried(c, j) => j = k
        /\ AtMostOnce(c, out[k]) /\ ~InHand(c, k) /\ ~Occurs(c, chan[k])
    BY <2>1 DEF CarriedOnce
  <2>3. \A j \in Conns : ~Carried(c, j)'
    BY <1>1, <1>3, <1>4, <1>5, <1>7, <2>2 DEF Carried
  <2> QED  BY <2>3 DEF CarriedOnce
<1> QED  BY <1>6, <1>7

\* Every step keeps each request in one place.
LEMMA OnceStep ==
    TypeInv /\ OneOwnerPerBackend /\ LineInv /\ FlowInv /\ OnceInv /\ [Next]_vars => OnceInv'
<1> SUFFICES ASSUME TypeInv, OneOwnerPerBackend, LineInv, FlowInv, OnceInv, [Next]_vars,
                    NEW c \in Calls
             PROVE  CarriedOnce(c)'
  BY DEF OnceInv
<1>1. ASSUME \A j \in Conns : chan'[j] \in {chan[j], <<>>},
             \A j \in Conns : InHand(c, j)' => InHand(c, j),
             UNCHANGED <<out, received>>
      PROVE  CarriedOnce(c)'
  <2>1. ~Occurs(c, <<>>) /\ AtMostOnce(c, <<>>)
    BY DEF Occurs, AtMostOnce
  <2>2. Delivered' = Delivered
    BY <1>1 DEF Delivered
  <2> QED  BY <1>1, <2>1, <2>2, OnceFrame DEF OnceInv
<1>2. CASE UNCHANGED connVars
  BY <1>1, <1>2 DEF connVars, InHand
<1>3. ASSUME NEW d \in Calls, CallStep(d) \/ PluginStep(d) PROVE CarriedOnce(c)'
  <2>1. CASE Send(d)
    BY <2>1, OnceSend
  <2>2. CASE ~Send(d)
    BY <1>2, <1>3, <2>2 DEF CallStep, PluginStep, Reject, BeginRequest, BeginInfo,
       CheckBackend, CheckBackendFails, Insert, Lookup, LookupFails,
       SendFails, Return, Timeout, Cancel, Abandon, DropHandle
  <2> QED  BY <2>1, <2>2
<1>4. ASSUME NEW k \in Conns, Hello(k) \/ HelloFails(k) \/ RegisterBackend(k)
      PROVE  CarriedOnce(c)'
  <2>1. /\ UNCHANGED <<chan, hand, out, received>>
        /\ \A j \in Conns : task'[j] = "forwarding" => task[j] = "forwarding"
    BY <1>4 DEF Hello, HelloFails, RegisterBackend, TypeInv, TypeOK
  <2> QED  BY <1>1, <2>1 DEF InHand
<1>5. ASSUME NEW k \in Conns, TakeAnswer(k) PROVE CarriedOnce(c)'
  <2>1. /\ UNCHANGED <<chan, out, received>>
        /\ task' = [task EXCEPT ![k] = "answering"]
        /\ \A j \in Conns \ {k} : hand'[j] = hand[j]
    BY <1>5 DEF TakeAnswer, TypeInv, TypeOK
  <2>2. \A j \in Conns : InHand(c, j)' => InHand(c, j)
    BY <2>1 DEF InHand, TypeInv, TypeOK
  <2> QED  BY <1>1, <2>1, <2>2
<1>6. ASSUME NEW k \in Conns, EndTask(k) PROVE CarriedOnce(c)'
  <2>1. /\ UNCHANGED <<out, received>>
        /\ \A j \in Conns : chan'[j] \in {chan[j], <<>>}
        /\ task' = [task EXCEPT ![k] = "ended"]
        /\ \A j \in Conns \ {k} : hand'[j] = hand[j]
    BY <1>6 DEF EndTask, TypeInv, TypeOK
  <2>2. \A j \in Conns : InHand(c, j)' => InHand(c, j)
    BY <2>1 DEF InHand, TypeInv, TypeOK
  <2> QED  BY <1>1, <2>1, <2>2
<1>7. ASSUME NEW k \in Conns, ForwardFails(k) \/ EndOfStream(k) PROVE CarriedOnce(c)'
  BY <1>6, <1>7 DEF ForwardFails, EndOfStream
<1>8. ASSUME NEW k \in Conns, HandleAnswer(k) PROVE CarriedOnce(c)'
  <2>1. CASE EndTask(k)
    BY <1>6, <2>1
  <2>2. CASE /\ task' = [task EXCEPT ![k] = "running"]
             /\ hand' = [hand EXCEPT ![k] = NothingInHand]
             /\ UNCHANGED <<ident, chan, out, received, cleanups>>
    <3>1. \A j \in Conns : InHand(c, j)' => InHand(c, j)
      BY <2>2 DEF InHand, TypeInv, TypeOK
    <3> QED  BY <1>1, <2>2, <3>1
  <2> QED  BY <1>8, <2>1, <2>2 DEF HandleAnswer
<1>9. CASE CleanupStep \/ UNCHANGED vars
  BY <1>2, <1>9 DEF CleanupStep, TakeCleanup, CleanRequest, CleanBackend, vars
<1> QED
  BY <1>3, <1>4, <1>5, <1>7, <1>8, <1>9, OnceTake, OnceForward, OnceReceive
     DEF Next, ServerStep, BackendStep, ConnStep

\* Every request under way is one that its call sent, for the backend that the
\* call names, and reaches it once at most.
THEOREM RequestsAsMeant == Spec => []CarriedAsMeant
<1>1. TypeInv /\ FlowInv /\ OnceInv => CarriedAsMeant
  <2> SUFFICES ASSUME TypeInv, FlowInv, NEW c \in Calls
               PROVE  /\ \A k \in Conns : Carried(c, k) => ident[k] = target[c]
                      /\ c \in Delivered => c \in received[target[c]]
                      /\ c \in Delivered \/ (\E k \in Conns : Carried(c, k)) =>
                            /\ pc[c] \in {"waiting", "done"} /\ outcome[c] \notin EarlyOutcome
                            /\ kind[c] = "message" => c \in announced
    BY DEF CarriedAsMeant, OnceInv
  <2>1. \A k \in Conns : Carried(c, k) => ident[k] = target[c] /\ Sent(c)
    BY DEF FlowInv, RouteInv
  <2>2. c \in Delivered => c \in received[target[c]]
    BY DeliveredOf
  <2>3. c \in received[target[c]] => Sent(c)
    BY DEF FlowInv, RouteInv, TypeInv, TypeOK
  <2>4. Sent(c) => /\ pc[c] \in {"waiting", "done"} /\ outcome[c] \notin EarlyOutcome
                   /\ kind[c] = "message" => c \in announced
    BY DEF Sent, FlowInv, OutcomeInv, EarlyOutcome
  <2> QED  BY <2>1, <2>2, <2>3, <2>4
<1> QED
  BY <1>1, TypeInit, TypeStep, OwnerInit, OwnerStep, LineInit, LineStep,
     FlowInit, FlowStep, OnceInit, OnceStep, PTL DEF Spec

-----------------------------------------------------------------------------
(* Entries left behind *)

\* The entry of a call that ended before it had a handle is as it was inserted.
LeftoverOf(c) ==
    pc[c] = "done" /\ outcome[c] \in EarlyOutcome =>
        requests[c] = "absent" \/ (requests[c] = "pending" /\ outcome[c] # "invalid")

LeftoverInv == \A c \in Calls : LeftoverOf(c)

LEMMA LeftoverAbandon ==
    ASSUME TypeInv, RequestInv, FlowInv, LeftoverInv,
           NEW d \in Calls, NEW res \in EarlyOutcome, Abandon(d, res),
           pc[d] \in {"idle", "guarding", "locking", "lookup", "sending"},
           res = "invalid" => pc[d] = "idle"
    PROVE  LeftoverInv'
<1>1. /\ pc'[d] = "done" /\ outcome'[d] = res /\ requests' = requests
      /\ \A c \in Calls \ {d} : pc'[c] = pc[c] /\ outcome'[c] = outcome[c]
  BY DEF Abandon, TypeInv, TypeOK
<1>2. reply[d] = NoReply
  BY NotSentNoReply DEF Sent
<1>3. requests[d] = "absent" \/ (requests[d] = "pending" /\ pc[d] # "idle")
  BY <1>2 DEF RequestInv, RequestOf
<1>4. LeftoverOf(d)'
  BY <1>1, <1>3 DEF LeftoverOf
<1>5. ASSUME NEW c \in Calls \ {d} PROVE LeftoverOf(c)'
  BY <1>1 DEF LeftoverInv, LeftoverOf
<1> QED  BY <1>4, <1>5 DEF LeftoverInv

LEMMA LeftoverInit == Init => LeftoverInv
BY DEF Init, LeftoverInv, LeftoverOf

LEMMA LeftoverStep ==
    TypeInv /\ RequestInv /\ FlowInv /\ LeftoverInv /\ [Next]_vars => LeftoverInv'
<1> SUFFICES ASSUME TypeInv, RequestInv, FlowInv, LeftoverInv, [Next]_vars
             PROVE  LeftoverInv'
  OBVIOUS
<1>1. ASSUME NEW d \in Calls,
             Reject(d) \/ CheckBackendFails(d) \/ LookupFails(d) \/ SendFails(d)
      PROVE  LeftoverInv'
  BY <1>1, LeftoverAbandon DEF Reject, CheckBackendFails, LookupFails, SendFails, EarlyOutcome
<1>2. ASSUME NEW d \in Calls, NEW res \in HandleOutcome, DropHandle(d, res) PROVE LeftoverInv'
  <2>1. /\ outcome'[d] \notin EarlyOutcome /\ requests' = requests
        /\ \A c \in Calls \ {d} : pc'[c] = pc[c] /\ outcome'[c] = outcome[c]
    BY <1>2 DEF DropHandle, HandleOutcome, EarlyOutcome, TypeInv, TypeOK
  <2> QED  BY <2>1 DEF LeftoverInv, LeftoverOf
<1>3. ASSUME NEW d \in Calls, Return(d) \/ Timeout(d) PROVE LeftoverInv'
  BY <1>2, <1>3 DEF Return, Timeout, OutcomeOf, HandleOutcome
<1>4. ASSUME NEW d \in Calls, Cancel(d) PROVE LeftoverInv'
  BY <1>2, <1>4, LeftoverAbandon DEF Cancel, HandleOutcome, EarlyOutcome
<1>5. ASSUME NEW d \in Calls,
             \/ BeginRequest(d) \/ BeginInfo(d) \/ CheckBackend(d)
             \/ Insert(d) \/ Lookup(d) \/ Send(d)
      PROVE  LeftoverInv'
  <2>1. /\ pc'[d] # "done" /\ outcome' = outcome
        /\ \A c \in Calls \ {d} : pc'[c] = pc[c] /\ requests'[c] = requests[c]
    BY <1>5 DEF BeginRequest, BeginInfo, CheckBackend, Insert, Lookup, Send, TypeInv, TypeOK
  <2> QED  BY <2>1 DEF LeftoverInv, LeftoverOf
<1>6. ASSUME UNCHANGED <<pc, outcome, requests>> PROVE LeftoverInv'
  BY <1>6 DEF LeftoverInv, LeftoverOf
<1>7. ASSUME NEW k \in Conns,
             \/ Hello(k) \/ HelloFails(k) \/ RegisterBackend(k) \/ TakeRequest(k)
             \/ Forward(k) \/ ForwardFails(k) \/ TakeAnswer(k) \/ EndOfStream(k) \/ BackendReceives(k)
      PROVE  LeftoverInv'
  BY <1>6, <1>7 DEF Hello, HelloFails, RegisterBackend, TakeRequest, Forward, ForwardFails,
     TakeAnswer, EndOfStream, BackendReceives, callVars
<1>8. ASSUME NEW k \in Conns, HandleAnswer(k) PROVE LeftoverInv'
  <2>1. PICK h \in Calls : h = hand[k].call
    BY <1>8 DEF HandleAnswer, TypeInv, HandOK
  <2>2. h \in received[ident[k]] /\ ident[k] \in BackendIds
    BY <1>8, <2>1 DEF HandleAnswer, FlowInv, AnswerInv, TypeInv, TypeOK
  <2>3. Sent(h)
    BY <2>2 DEF FlowInv, RouteInv
  <2>4. UNCHANGED <<pc, outcome>> /\ \A c \in Calls \ {h} : requests'[c] = requests[c]
    BY <1>8, <2>1 DEF HandleAnswer, Addressee, TypeInv, TypeOK
  <2> QED  BY <2>3, <2>4 DEF LeftoverInv, LeftoverOf, Sent
<1>9. CASE CleanRequest
  <2>1. PICK h \in Calls : h = Head(cleanups).id
    BY <1>9, Served
  <2>2. /\ UNCHANGED <<pc, outcome>> /\ requests'[h] = "absent"
        /\ \A c \in Calls \ {h} : requests'[c] = requests[c]
    BY <1>9, <2>1 DEF CleanRequest, AfterCleanup, callVars, TypeInv, TypeOK
  <2> QED  BY <2>2 DEF LeftoverInv, LeftoverOf
<1>10. CASE TakeCleanup \/ CleanBackend \/ UNCHANGED vars
  BY <1>6, <1>10 DEF TakeCleanup, CleanBackend, vars, callVars
<1> QED
  BY <1>1, <1>3, <1>4, <1>5, <1>7, <1>8, <1>9, <1>10
     DEF Next, ServerStep, PluginStep, BackendStep, CallStep, ConnStep, CleanupStep

\* Whatever a call that failed early leaves in requests is never answered, and
\* no backend was asked to.
THEOREM LeftoversAreInert == Spec => []LeftoverIsInert
<1>1. TypeInv /\ FlowInv /\ LeftoverInv => LeftoverIsInert
  <2> SUFFICES ASSUME TypeInv, FlowInv, LeftoverInv, NEW c \in Calls,
                      pc[c] = "done", outcome[c] \in EarlyOutcome
               PROVE  /\ requests[c] = "absent" \/ (requests[c] = "pending" /\ outcome[c] # "invalid")
                      /\ reply[c] = NoReply /\ c \notin Delivered
                      /\ \A k \in Conns : ~Carried(c, k)
    BY DEF LeftoverIsInert
  <2>1. ~Sent(c)
    BY DEF Sent
  <2> QED  BY <2>1, NotSentNoReply DEF LeftoverInv, LeftoverOf
<1> QED
  BY <1>1, TypeInit, TypeStep, OwnerInit, OwnerStep, LineInit, LineStep, RequestInit,
     RequestStep, FlowInit, FlowStep, LeftoverInit, LeftoverStep, PTL DEF Spec

-----------------------------------------------------------------------------
(* The registry of backend ids *)

\* When connection k moves to stage x the others stay where they are.
LEMMA ConnStageMoves ==
    ASSUME NEW k \in Conns, NEW x,
           \A j \in Conns \ {k} : /\ task'[j] = task[j]
                                  /\ backends'[ident'[j]] = j <=> backends[ident[j]] = j,
           ConnStage'[k] = x
    PROVE  ConnStage' = [ConnStage EXCEPT ![k] = x]
<1>1. \A j \in Conns \ {k} : ConnStage'[j] = ConnStage[j]
  BY DEF ConnStage, IsLive
<1>2. ConnStage' = [j \in Conns |-> ConnStage'[j]] /\ ConnStage = [j \in Conns |-> ConnStage[j]]
  BY DEF ConnStage
<1> QED  BY <1>1, <1>2

LEMMA ConnStageKept ==
    ASSUME UNCHANGED <<ident, backends>>,
           \A k \in Conns : \/ task'[k] = task[k]
                            \/ task[k] = "hello" /\ task'[k] = "registering"
                            \/ IsLive(k) /\ IsLive(k)'
    PROVE  ConnStage' = ConnStage
BY DEF ConnStage, IsLive

LEMMA RegistryInit == Init => Registry!Init
<1> SUFFICES ASSUME Init PROVE Registry!Init
  OBVIOUS
<1>1. \A k \in Conns : task[k] = "hello"
  BY DEF Init
<1>2. ConnStage = [k \in Conns |-> "new"]
  BY <1>1 DEF ConnStage, IsLive
<1>3. [k \in Conns |-> {ident[k]}] \in [Conns -> SUBSET BackendIds]
  BY DEF Init
<1> QED  BY <1>2, <1>3 DEF Init, Registry!Init

LEMMA EndTaskDeparts ==
    ASSUME TypeInv, OneOwnerPerBackend, NEW k \in Conns, IsLive(k), EndTask(k), UNCHANGED backends
    PROVE  Registry!Depart(k)
<1>1. /\ ident' = ident /\ task'[k] = "ended"
      /\ \A j \in Conns \ {k} : task'[j] = task[j]
  BY DEF EndTask, TypeInv, TypeOK
<1>2. backends[ident[k]] = k
  BY DEF OneOwnerPerBackend, TypeInv, TypeOK
<1>3. ConnStage[k] = "holding" /\ ConnStage'[k] = "leaving"
  BY <1>1, <1>2 DEF ConnStage, IsLive
<1>4. ConnStage' = [ConnStage EXCEPT ![k] = "leaving"]
  BY <1>1, <1>3, ConnStageMoves
<1>5. UNCHANGED <<[j \in Conns |-> {ident[j]}], backends>>
  BY <1>1
<1> QED  BY <1>3, <1>4, <1>5 DEF Registry!Depart

LEMMA RegistryStep ==
    TypeInv /\ OneOwnerPerBackend /\ [Next]_vars => [Registry!Next]_(Registry!registryVars)
<1> SUFFICES ASSUME TypeInv, OneOwnerPerBackend, [Next]_vars
             PROVE  Registry!Next \/ UNCHANGED Registry!registryVars
  OBVIOUS
<1>1. ASSUME NEW k \in Conns,
             \/ Registry!Acquire(k) \/ Registry!Refuse(k)
             \/ Registry!Depart(k) \/ Registry!Release(k)
      PROVE  Registry!Next
  BY <1>1 DEF Registry!Next
<1>2. /\ task \in [Conns -> ConnState] /\ ident \in [Conns -> BackendIds]
      /\ backends \in [BackendIds -> Conns \cup {NoConn}]
  BY DEF TypeInv, TypeOK
<1>3. ASSUME UNCHANGED <<ident, backends>>,
             \A k \in Conns : \/ task'[k] = task[k]
                              \/ task[k] = "hello" /\ task'[k] = "registering"
                              \/ IsLive(k) /\ IsLive(k)'
      PROVE  UNCHANGED Registry!registryVars
  <2>1. ConnStage' = ConnStage
    BY <1>3, ConnStageKept
  <2> QED  BY <1>3, <2>1 DEF Registry!registryVars
<1>4. ASSUME NEW k \in Conns, Hello(k) \/ TakeRequest(k) \/ Forward(k) \/ TakeAnswer(k)
      PROVE  UNCHANGED Registry!registryVars
  <2>1. /\ UNCHANGED <<ident, backends>>
        /\ \A j \in Conns \ {k} : task'[j] = task[j]
        /\ \/ task[k] = "hello" /\ task'[k] = "registering"
           \/ IsLive(k) /\ IsLive(k)'
    BY <1>2, <1>4 DEF Hello, TakeRequest, Forward, TakeAnswer, IsLive
  <2> QED  BY <1>3, <2>1
<1>5. ASSUME NEW k \in Conns, task[k] \in {"hello", "registering"},
             task' = [task EXCEPT ![k] = "refused"], UNCHANGED <<ident, backends>>,
             backends[ident[k]] # k
      PROVE  Registry!Refuse(k)
  <2>1. task'[k] = "refused" /\ \A j \in Conns \ {k} : task'[j] = task[j]
    BY <1>2, <1>5
  <2>2. ConnStage[k] = "new" /\ ConnStage'[k] = "over"
    BY <1>5, <2>1 DEF ConnStage, IsLive
  <2>3. ConnStage' = [ConnStage EXCEPT ![k] = "over"]
    BY <1>5, <2>1, <2>2, ConnStageMoves
  <2> QED  BY <1>5, <2>2, <2>3 DEF Registry!Refuse
<1>6. ASSUME NEW k \in Conns, task[k] \in {"hello", "registering"} PROVE backends[ident[k]] # k
  BY <1>2, <1>6, BrokerAssumption DEF OneOwnerPerBackend, IsLive
<1>7. ASSUME NEW k \in Conns, HelloFails(k) PROVE Registry!Refuse(k)
  BY <1>5, <1>6, <1>7 DEF HelloFails
<1>8. ASSUME NEW k \in Conns, RegisterBackend(k) PROVE Registry!Next
  <2>1. CASE IdTaken(ident[k])
    <3>1. Registry!Refuse(k)
      BY <1>5, <1>6, <1>8, <2>1 DEF RegisterBackend
    <3> QED  BY <1>1, <3>1
  <2>2. CASE ~IdTaken(ident[k])
    <3>1. /\ task[k] = "registering" /\ task'[k] = "running"
          /\ \A j \in Conns \ {k} : task'[j] = task[j]
          /\ backends[ident[k]] = NoConn /\ backends' = [backends EXCEPT ![ident[k]] = k]
          /\ ident' = ident
      BY <1>2, <1>8, <2>2 DEF RegisterBackend, IdTaken
    <3>2. \A j \in Conns \ {k} : backends'[ident[j]] = j <=> backends[ident[j]] = j
      BY <1>2, <3>1, BrokerAssumption
    <3>3. ConnStage[k] = "new" /\ ConnStage'[k] = "holding"
      BY <3>1 DEF ConnStage, IsLive
    <3>4. ConnStage' = [ConnStage EXCEPT ![k] = "holding"]
      BY <3>1, <3>2, <3>3, ConnStageMoves
    <3>5. backends' = [b \in BackendIds |-> IF b \in {ident[k]} THEN k ELSE backends[b]]
      BY <1>2, <3>1
    <3>6. Registry!Acquire(k)
      BY <3>1, <3>3, <3>4, <3>5 DEF Registry!Acquire
    <3> QED  BY <1>1, <3>6
  <2> QED  BY <2>1, <2>2
<1>9. ASSUME NEW k \in Conns, ForwardFails(k) \/ EndOfStream(k) PROVE Registry!Depart(k)
  BY <1>9, EndTaskDeparts DEF ForwardFails, EndOfStream, IsLive
<1>10. ASSUME NEW k \in Conns, HandleAnswer(k)
       PROVE  Registry!Next \/ UNCHANGED Registry!registryVars
  <2>1. CASE EndTask(k)
    <3>1. Registry!Depart(k)
      BY <1>10, <2>1, EndTaskDeparts DEF HandleAnswer, IsLive
    <3> QED  BY <1>1, <3>1
  <2>2. CASE task' = [task EXCEPT ![k] = "running"] /\ UNCHANGED ident
    <3>1. /\ \A j \in Conns \ {k} : task'[j] = task[j]
          /\ IsLive(k) /\ IsLive(k)' /\ UNCHANGED <<ident, backends>>
      BY <1>2, <1>10, <2>2 DEF HandleAnswer, IsLive
    <3> QED  BY <1>3, <3>1
  <2> QED  BY <1>10, <2>1, <2>2 DEF HandleAnswer
<1>11. CASE CleanBackend
  <2>1. PICK b \in BackendIds : b = Head(cleanups).id /\ Head(cleanups) = BackendCleanup(b)
    BY <1>11, Served
  <2>2. Pending(BackendCleanup(b))
    BY <1>11, <2>1, Served, Queueing
  <2>3. PICK k \in Conns : backends[b] = k
    BY <1>2, <2>2 DEF OneOwnerPerBackend
  <2>4. ident[k] = b /\ task[k] = "ended"
    BY <2>2, <2>3, BrokerAssumption DEF OneOwnerPerBackend
  <2>5. backends' = [backends EXCEPT ![b] = NoConn] /\ UNCHANGED <<task, ident>>
    BY <1>11, <2>1 DEF CleanBackend, connVars
  <2>6. \A a \in BackendIds : backends[a] = k => a = b
    BY <2>4, BrokerAssumption DEF OneOwnerPerBackend
  <2>7. backends' = [a \in BackendIds |-> IF backends[a] = k THEN NoConn ELSE backends[a]]
    BY <1>2, <2>3, <2>5, <2>6
  <2>8. \A j \in Conns \ {k} : backends'[ident[j]] = j <=> backends[ident[j]] = j
    BY <1>2, <2>3, <2>7, BrokerAssumption
  <2>9. ConnStage[k] = "leaving" /\ ConnStage'[k] = "over"
    BY <1>2, <2>3, <2>4, <2>5, BrokerAssumption DEF ConnStage, IsLive
  <2>10. ConnStage' = [ConnStage EXCEPT ![k] = "over"]
    BY <2>5, <2>8, <2>9, ConnStageMoves
  <2>11. Registry!Release(k)
    BY <2>5, <2>7, <2>9, <2>10 DEF Registry!Release
  <2> QED  BY <1>1, <2>11
<1>12. ASSUME NEW k \in Conns, BackendReceives(k) PROVE UNCHANGED Registry!registryVars
  BY <1>3, <1>12 DEF BackendReceives
<1>13. ASSUME NEW c \in Calls, CallStep(c) \/ PluginStep(c) PROVE UNCHANGED Registry!registryVars
  <2>1. UNCHANGED <<ident, backends, task>>
    BY <1>13 DEF CallStep, PluginStep, Reject, BeginRequest, BeginInfo,
       CheckBackend, CheckBackendFails, Insert, Lookup, LookupFails, Send,
       SendFails, Return, Timeout, Cancel, Abandon, DropHandle, connVars
  <2> QED  BY <1>3, <2>1
<1>14. CASE TakeCleanup \/ CleanRequest \/ UNCHANGED vars
  BY <1>3, <1>14 DEF TakeCleanup, CleanRequest, vars, connVars
<1> QED
  BY <1>1, <1>4, <1>7, <1>8, <1>9, <1>10, <1>11, <1>12, <1>13, <1>14
     DEF Next, ServerStep, BackendStep, ConnStep, CleanupStep

\* Backend ids are handed out as the registry of exclusive names promises.
THEOREM BrokerImplementsRegistry == Spec => ImplementsRegistry
BY TypeInit, TypeStep, OwnerInit, OwnerStep, RegistryInit, RegistryStep, PTL
   DEF Spec, ImplementsRegistry, Registry!Spec

-----------------------------------------------------------------------------
(* Headway *)

\* What is left to do is never a negative number of steps, and bounded.
LEMMA StepCounts ==
    ASSUME TypeInv, TypeInv'
    PROVE  /\ \A c \in Calls : /\ HandlerSteps[pc[c]] \in Nat /\ HandlerSteps[pc'[c]] \in Nat
                               /\ CarrierSteps(c) \in 0..2 /\ CarrierSteps(c)' \in 0..2
           /\ \A m : CleanerSteps(m) \in 0..2 /\ CleanerSteps(m)' \in 0..2
           /\ \A k \in Conns : /\ TaskSteps(k) \in 0..3 /\ TaskSteps(k)' \in 0..3
                               /\ LeavingSteps(k) \in 0..2 /\ LeavingSteps(k)' \in 0..2
<1>1. \A p \in CallState : HandlerSteps[p] \in Nat
  BY DEF HandlerSteps, CallState
<1>2. \A c \in Calls : pc[c] \in CallState /\ pc'[c] \in CallState
  BY DEF TypeInv, TypeOK
<1>3. \A c \in Calls : CarrierSteps(c) \in 0..2 /\ CarrierSteps(c)' \in 0..2
  BY DEF CarrierSteps
<1>4. \A m : CleanerSteps(m) \in 0..2 /\ CleanerSteps(m)' \in 0..2
  BY DEF CleanerSteps
<1>5. \A k \in Conns : TaskSteps(k) \in 0..3 /\ TaskSteps(k)' \in 0..3
  BY DEF TaskSteps
<1>6. \A k \in Conns : LeavingSteps(k) \in 0..2 /\ LeavingSteps(k)' \in 0..2
  BY <1>4 DEF LeavingSteps
<1> QED  BY <1>1, <1>2, <1>3, <1>4, <1>5, <1>6

\* A request that is not moved needs no more steps, and fewer if it is lost.
LEMMA CarrierKept ==
    ASSUME NEW c \in Calls,
           \A j \in Conns : /\ Occurs(c, chan'[j]) => Occurs(c, chan[j])
                            /\ InHand(c, j)' => InHand(c, j)
    PROVE  CarrierSteps(c)' <= CarrierSteps(c)
BY DEF CarrierSteps

\* cleanup_task keeps its place in a line when others enter and leave it.
LEMMA ServingMoves ==
    ASSUME TypeInv
    PROVE  /\ \A u \in RequestsUses \ {Clean} :
                 Clean \in Queued(Enter(requestsLine, u)) <=> Clean \in Queued(requestsLine)
           /\ \A u \in BackendsUses \ {Clean} :
                 Clean \in Queued(Enter(backendsLine, u)) <=> Clean \in Queued(backendsLine)
           /\ \A S : Clean \notin S =>
                 /\ Clean \in Queued(Leave(requestsLine, S)) <=> Clean \in Queued(requestsLine)
                 /\ Clean \in Queued(Leave(backendsLine, S)) <=> Clean \in Queued(backendsLine)
           /\ Clean \in Queued(Enter(requestsLine, Clean))
           /\ Clean \in Queued(Enter(backendsLine, Clean))
           /\ Clean \notin Queued(Leave(requestsLine, {Clean}))
           /\ Clean \notin Queued(Leave(backendsLine, {Clean}))
<1>1. /\ requestsLine \in [RequestsUses -> SUBSET RequestsUses] /\ Clean \in RequestsUses
      /\ backendsLine \in [BackendsUses -> SUBSET BackendsUses] /\ Clean \in BackendsUses
  BY UsesAreUses DEF TypeInv, TypeOK
<1> QED  BY <1>1 DEF Queued, Enter, Leave

\* No message comes or goes, and the one in service stays in service.
LEMMA CleanerSame ==
    ASSUME cleanups' = cleanups, IsServing' <=> IsServing
    PROVE  \A m : CleanerSteps(m)' = CleanerSteps(m)
BY DEF CleanerSteps, IsServed, Pending

\* A message is sent.
LEMMA CleanerAppend ==
    ASSUME TypeInv, NEW n \in CleanupRequest, cleanups' = Append(cleanups, n),
           IsServing' <=> IsServing
    PROVE  \A m \in CleanupRequest \ {n} : CleanerSteps(m)' = CleanerSteps(m)
<1> TAKE m \in CleanupRequest \ {n}
<1>1. Pending(m)' <=> Pending(m)
  BY Queueing DEF Pending
<1>2. cleanups # <<>> => cleanups' # <<>> /\ Head(cleanups') = Head(cleanups)
  BY AppendKeepsHead DEF TypeInv, TypeOK
<1>3. cleanups = <<>> => ~Pending(m)
  BY DEF Pending, Occurs
<1> QED  BY <1>1, <1>2, <1>3 DEF CleanerSteps, IsServed

\* cleanup_task takes a message up: one step less to go.
LEMMA CleanerTakes ==
    ASSUME TypeInv, cleanups # <<>>, cleanups' = cleanups, ~IsServing, IsServing'
    PROVE  /\ CleanerSteps(Head(cleanups))' < CleanerSteps(Head(cleanups))
           /\ \A m \in CleanupRequest : CleanerSteps(m)' <= CleanerSteps(m)
<1> DEFINE h == Head(cleanups)
<1>1. Pending(h) /\ Pending(h)'
  BY Queueing DEF Pending
<1>2. \A m : Pending(m)' <=> Pending(m)
  BY DEF Pending
<1>3. CleanerSteps(h) = 2 /\ CleanerSteps(h)' = 1
  BY <1>1 DEF CleanerSteps, IsServed
<1>4. \A m \in CleanupRequest : CleanerSteps(m)' <= CleanerSteps(m)
  BY <1>2 DEF CleanerSteps, IsServed
<1> QED  BY <1>3, <1>4

\* cleanup_task is done with a message.
LEMMA CleanerDrops ==
    ASSUME TypeInv, NEW h \in CleanupRequest, cleanups # <<>>, h = Head(cleanups),
           AtMostOnce(h, cleanups), cleanups' = Tail(cleanups), IsServing, ~IsServing'
    PROVE  /\ CleanerSteps(h) = 1 /\ CleanerSteps(h)' = 0
           /\ \A m \in CleanupRequest \ {h} : CleanerSteps(m)' = CleanerSteps(m)
<1>1. Pending(h) /\ ~Pending(h)'
  BY Queueing DEF Pending
<1>2. CleanerSteps(h) = 1 /\ CleanerSteps(h)' = 0
  BY <1>1 DEF CleanerSteps, IsServed
<1>3. ASSUME NEW m \in CleanupRequest \ {h} PROVE CleanerSteps(m)' = CleanerSteps(m)
  <2>1. Pending(m)' <=> Pending(m)
    BY Queueing DEF Pending
  <2> QED  BY <2>1 DEF CleanerSteps, IsServed
<1> QED  BY <1>2, <1>3

\* A step is headway for call d when it leaves every other call, and every
\* connection, no more to do than before ...
LEMMA CallHeadway ==
    ASSUME TypeInv, TypeInv', NEW d \in Calls, CallSteps(d)' < CallSteps(d),
           \A c \in Calls \ {d} : /\ pc'[c] = pc[c]
                                  /\ CarrierSteps(c)' <= CarrierSteps(c)
                                  /\ CleanerSteps(RequestCleanup(c))' = CleanerSteps(RequestCleanup(c)),
           UNCHANGED <<task, ident, backends>>,
           \A b \in BackendIds : CleanerSteps(BackendCleanup(b))' = CleanerSteps(BackendCleanup(b))
    PROVE  Headway
<1>1. ASSUME NEW c \in Calls PROVE CallSteps(c)' <= CallSteps(c)
  <2>1. CASE c = d
    <3>1. CallSteps(d) \in Nat /\ CallSteps(d)' \in Nat
      BY StepCounts DEF CallSteps
    <3> QED  BY <2>1, <3>1
  <2>2. CASE c # d
    BY <2>2, StepCounts DEF CallSteps
  <2> QED  BY <2>1, <2>2
<1>2. ASSUME NEW k \in Conns PROVE ConnSteps(k)' <= ConnSteps(k)
  <2>1. TaskSteps(k)' = TaskSteps(k)
    BY DEF TaskSteps
  <2>2. ident[k] \in BackendIds /\ ident'[k] = ident[k]
    BY DEF TypeInv, TypeOK
  <2>3. LeavingSteps(k)' = LeavingSteps(k)
    BY <2>2 DEF LeavingSteps
  <2> QED  BY <2>1, <2>3, StepCounts DEF ConnSteps
<1> QED  BY <1>1, <1>2 DEF Headway

\* ... and so for connection k.
LEMMA ConnHeadway ==
    ASSUME TypeInv, TypeInv', NEW k \in Conns, ConnSteps(k)' < ConnSteps(k),
           UNCHANGED pc,
           \A c \in Calls : /\ CarrierSteps(c)' <= CarrierSteps(c)
                            /\ CleanerSteps(RequestCleanup(c))' = CleanerSteps(RequestCleanup(c)),
           \A j \in Conns \ {k} : task'[j] = task[j] /\ LeavingSteps(j)' = LeavingSteps(j)
    PROVE  Headway
<1>1. \A c \in Calls : CallSteps(c)' <= CallSteps(c)
  BY StepCounts DEF CallSteps
<1>2. ASSUME NEW j \in Conns PROVE ConnSteps(j)' <= ConnSteps(j)
  <2>1. CASE j = k
    <3>1. ConnSteps(k) \in Nat /\ ConnSteps(k)' \in Nat
      BY StepCounts DEF ConnSteps
    <3> QED  BY <2>1, <3>1
  <2>2. CASE j # k
    <3>1. TaskSteps(j)' = TaskSteps(j)
      BY <2>2 DEF TaskSteps
    <3> QED  BY <2>2, <3>1, StepCounts DEF ConnSteps
  <2> QED  BY <2>1, <2>2
<1> QED  BY <1>1, <1>2 DEF Headway

\* The steps of a call before it waits for its answer.
LEMMA HeadwayBeforeSend ==
    ASSUME TypeInv, TypeInv', NEW d \in Calls,
           \/ CheckBackend(d) \/ CheckBackendFails(d) \/ Insert(d)
           \/ Lookup(d) \/ LookupFails(d) \/ SendFails(d)
    PROVE  Headway
<1>1. /\ UNCHANGED <<connVars, backends, cleanups>>
      /\ \A c \in Calls \ {d} : pc'[c] = pc[c]
      /\ HandlerSteps[pc'[d]] < HandlerSteps[pc[d]]
  BY DEF CheckBackend, CheckBackendFails, Insert, Lookup, LookupFails, SendFails, Abandon,
     HandlerSteps, TypeInv, TypeOK
<1>2. IsServing' <=> IsServing
  BY ServingMoves, UsesAreUses DEF IsServing, CheckBackend, CheckBackendFails, Insert,
     Lookup, LookupFails, SendFails, Abandon
<1>3. \A m : CleanerSteps(m)' = CleanerSteps(m)
  BY <1>1, <1>2, CleanerSame
<1>4. \A c \in Calls : CarrierSteps(c)' = CarrierSteps(c)
  BY <1>1 DEF CarrierSteps, InHand, connVars
<1>5. CallSteps(d)' < CallSteps(d)
  BY <1>1, <1>3, <1>4, StepCounts DEF CallSteps
<1> QED  BY <1>1, <1>3, <1>4, <1>5, CallHeadway, StepCounts DEF connVars

\* Send trades the steps of the lookup for those that carry the request.
LEMMA HeadwaySend ==
    ASSUME TypeInv, TypeInv', LineInv, NEW d \in Calls, Send(d)
    PROVE  Headway
<1> DEFINE k == backends[target[d]]
<1>1. k \in Conns /\ pc[d] = "sending" /\ pc' = [pc EXCEPT ![d] = "waiting"]
  BY DEF Send, LineInv, CallPlaces, TypeInv, TypeOK
<1>2. /\ chan[k] \in Seq(Calls) /\ chan'[k] = Append(chan[k], d)
      /\ \A j \in Conns \ {k} : chan'[j] = chan[j]
      /\ UNCHANGED <<task, ident, hand, backends, cleanups>>
  BY <1>1 DEF Send, TypeInv, TypeOK
<1>3. IsServing' <=> IsServing
  BY ServingMoves, UsesAreUses DEF IsServing, Send
<1>4. \A m : CleanerSteps(m)' = CleanerSteps(m)
  BY <1>2, <1>3, CleanerSame
<1>5. ASSUME NEW c \in Calls \ {d} PROVE pc'[c] = pc[c] /\ CarrierSteps(c)' <= CarrierSteps(c)
  <2>1. Occurs(c, chan'[k]) => Occurs(c, chan[k])
    BY <1>2, <1>5, OccursAppend
  <2>2. \A j \in Conns : Occurs(c, chan'[j]) => Occurs(c, chan[j])
    BY <1>2, <2>1
  <2>3. \A j \in Conns : InHand(c, j)' => InHand(c, j)
    BY <1>2 DEF InHand
  <2> QED  BY <1>1, <2>2, <2>3, CarrierKept DEF TypeInv, TypeOK
<1>6. HandlerSteps[pc[d]] = 6 /\ HandlerSteps[pc'[d]] = 3
  BY <1>1 DEF HandlerSteps, TypeInv, TypeOK
<1>7. CallSteps(d)' < CallSteps(d)
  BY <1>4, <1>6, StepCounts DEF CallSteps
<1> QED  BY <1>2, <1>4, <1>5, <1>7, CallHeadway

\* The end of a waiting call trades its last step for those of the cleanup.
LEMMA HeadwayDropHandle ==
    ASSUME TypeInv, TypeInv', RequestInv, NEW d \in Calls, NEW res, DropHandle(d, res),
           pc[d] = "waiting"
    PROVE  Headway
<1>1. /\ UNCHANGED <<connVars, backends>>
      /\ pc' = [pc EXCEPT ![d] = "done"]
      /\ cleanups' = Append(cleanups, RequestCleanup(d))
  BY DEF DropHandle
<1>2. IsServing' <=> IsServing
  BY ServingMoves, UsesAreUses DEF IsServing, DropHandle
<1>3. \A m \in CleanupRequest \ {RequestCleanup(d)} : CleanerSteps(m)' = CleanerSteps(m)
  BY <1>1, <1>2, CleanerAppend, CleanupMessages
<1>4. CleanerSteps(RequestCleanup(d)) = 0
  BY DEF RequestInv, RequestOf, CleanerSteps
<1>5. \A c \in Calls : CarrierSteps(c)' = CarrierSteps(c)
  BY <1>1 DEF CarrierSteps, InHand, connVars
<1>6. HandlerSteps[pc[d]] = 3 /\ HandlerSteps[pc'[d]] = 0
  BY <1>1 DEF HandlerSteps, TypeInv, TypeOK
<1>7. CallSteps(d)' < CallSteps(d)
  BY <1>4, <1>5, <1>6, StepCounts DEF CallSteps
<1>8. \A c \in Calls \ {d} : pc'[c] = pc[c] /\ RequestCleanup(c) \in CleanupRequest \ {RequestCleanup(d)}
  BY <1>1, CleanupMessages DEF TypeInv, TypeOK
<1>9. \A b \in BackendIds : BackendCleanup(b) \in CleanupRequest \ {RequestCleanup(d)}
  BY CleanupMessages
<1> QED  BY <1>1, <1>3, <1>5, <1>7, <1>8, <1>9, CallHeadway, StepCounts DEF connVars

\* The registration of a connection: no cleanup is due for the id it takes.
LEMMA HeadwayRegister ==
    ASSUME TypeInv, TypeInv', OneOwnerPerBackend, NEW k \in Conns, RegisterBackend(k)
    PROVE  Headway
<1> DEFINE b == ident[k]
<1>1. /\ UNCHANGED <<ident, chan, hand, pc, cleanups, requestsLine>> /\ b \in BackendIds
      /\ task[k] = "registering" /\ task'[k] \in {"running", "refused"}
      /\ \A j \in Conns \ {k} : task'[j] = task[j]
      /\ \A a \in BackendIds \ {b} : backends'[a] = backends[a]
      /\ backends'[b] = backends[b] \/ (backends[b] = NoConn /\ backends'[b] = k)
  BY DEF RegisterBackend, IdTaken, callVars, TypeInv, TypeOK
<1>2. IsServing' <=> IsServing
  BY <1>1, ServingMoves, UsesAreUses DEF IsServing, RegisterBackend
<1>3. \A m : CleanerSteps(m)' = CleanerSteps(m)
  BY <1>1, <1>2, CleanerSame
<1>4. \A c \in Calls : CarrierSteps(c)' <= CarrierSteps(c)
  <2>1. \A c \in Calls, j \in Conns : InHand(c, j)' => InHand(c, j)
    BY <1>1 DEF InHand
  <2> QED  BY <1>1, <2>1, CarrierKept
<1>5. ASSUME NEW j \in Conns PROVE LeavingSteps(j)' = LeavingSteps(j)
  <2>1. ident[j] \in BackendIds /\ ident'[j] = ident[j]
    BY <1>1 DEF TypeInv, TypeOK
  <2>2. CASE backends'[ident[j]] = backends[ident[j]]
    BY <1>3, <2>1, <2>2 DEF LeavingSteps
  <2>3. CASE backends'[ident[j]] # backends[ident[j]]
    <3>1. ident[j] = b /\ backends[b] = NoConn /\ NoConn \notin Conns
      BY <1>1, <2>1, <2>3, BrokerAssumption
    <3>2. CleanerSteps(BackendCleanup(ident[j])) = 0
      BY <2>1, <3>1 DEF CleanerSteps, OneOwnerPerBackend
    <3> QED  BY <1>3, <2>1, <3>1, <3>2 DEF LeavingSteps
  <2> QED  BY <2>2, <2>3
<1>6. TaskSteps(k) = 1 /\ TaskSteps(k)' = 0
  BY <1>1 DEF TaskSteps
<1>7. ConnSteps(k)' < ConnSteps(k)
  BY <1>5, <1>6, StepCounts DEF ConnSteps
<1> QED  BY <1>1, <1>3, <1>4, <1>5, <1>7, ConnHeadway

\* The steps that carry a request on: it was only where it is taken from.
LEMMA HeadwayCarry ==
    ASSUME TypeInv, TypeInv', OnceInv, NEW k \in Conns, TakeRequest(k) \/ Forward(k)
    PROVE  Headway
<1>1. /\ UNCHANGED <<ident, backends, pc, cleanups, requestsLine, backendsLine>>
      /\ task[k] \in {"running", "forwarding"} /\ task'[k] \in {"running", "forwarding"}
      /\ \A j \in Conns \ {k} : task'[j] = task[j] /\ hand'[j] = hand[j] /\ chan'[j] = chan[j]
  BY DEF TakeRequest, Forward, callVars, TypeInv, TypeOK
<1>2. \A m : CleanerSteps(m)' = CleanerSteps(m)
  BY <1>1, CleanerSame DEF IsServing
<1>3. ASSUME NEW j \in Conns PROVE ConnSteps(j)' <= ConnSteps(j)
  <2>1. TaskSteps(j)' = TaskSteps(j)
    BY <1>1 DEF TaskSteps
  <2>2. LeavingSteps(j)' = LeavingSteps(j)
    BY <1>1, <1>2 DEF LeavingSteps
  <2> QED  BY <2>1, <2>2, StepCounts DEF ConnSteps
<1>4. \A c \in Calls, j \in Conns \ {k} :
          (InHand(c, j)' <=> InHand(c, j)) /\ (Occurs(c, chan'[j]) <=> Occurs(c, chan[j]))
  BY <1>1 DEF InHand
<1>5. ASSUME NEW h \in Calls, CarrierSteps(h)' < CarrierSteps(h),
             \A c \in Calls \ {h} : CarrierSteps(c)' <= CarrierSteps(c)
      PROVE  Headway
  <2>1. CallSteps(h)' < CallSteps(h)
    BY <1>1, <1>2, <1>5, StepCounts DEF CallSteps
  <2>2. \A c \in Calls : CallSteps(c)' <= CallSteps(c)
    BY <1>1, <1>2, <1>5, StepCounts DEF CallSteps
  <2> QED  BY <1>3, <2>1, <2>2 DEF Headway
<1>6. CASE TakeRequest(k)
  <2> PICK h \in Calls : h = Head(chan[k])
    BY <1>6 DEF TakeRequest, TypeInv, TypeOK
  <2>1. /\ chan[k] \in Seq(Calls) /\ chan[k] # <<>> /\ h = Head(chan[k])
        /\ task[k] = "running" /\ task'[k] = "forwarding"
        /\ hand'[k].call = h /\ chan'[k] = Tail(chan[k])
    BY <1>6 DEF TakeRequest, TypeInv, TypeOK
  <2>2. Occurs(h, chan[k]) /\ AtMostOnce(h, chan[k])
        /\ \A j \in Conns : Carried(h, j) => j = k
    BY <2>1, OccursTail DEF OnceInv, CarriedOnce, Carried
  <2>3. /\ ~Occurs(h, Tail(chan[k]))
        /\ \A c \in Calls : Occurs(c, Tail(chan[k])) => Occurs(c, chan[k])
    BY <2>1, <2>2, OccursTail
  <2>4. \A j \in Conns : ~Occurs(h, chan'[j])
    BY <1>4, <2>1, <2>2, <2>3 DEF Carried
  <2>5. CarrierSteps(h)' < CarrierSteps(h)
    <3>1. CarrierSteps(h) = 2
      BY <2>2 DEF CarrierSteps
    <3>2. CarrierSteps(h)' \in 0..1
      BY <2>4 DEF CarrierSteps
    <3> QED  BY <3>1, <3>2
  <2>6. ASSUME NEW c \in Calls \ {h} PROVE CarrierSteps(c)' <= CarrierSteps(c)
    <3>1. ~InHand(c, k)'
      BY <2>1 DEF InHand
    <3> QED  BY <1>4, <2>1, <2>3, <3>1, CarrierKept
  <2> QED  BY <1>5, <2>5, <2>6
<1>7. CASE Forward(k)
  <2> PICK h \in Calls : h = hand[k].call
    BY <1>7 DEF Forward, TypeInv, HandOK
  <2>1. /\ h = hand[k].call /\ task[k] = "forwarding" /\ task'[k] = "running" /\ chan' = chan
    BY <1>7 DEF Forward, TypeInv, TypeOK
  <2>2. InHand(h, k) /\ ~Occurs(h, chan[k]) /\ \A j \in Conns : Carried(h, j) => j = k
    BY <2>1 DEF OnceInv, CarriedOnce, Carried, InHand
  <2>3. \A c \in Calls : ~InHand(c, k)'
    BY <2>1 DEF InHand
  <2>4. \A j \in Conns : ~Occurs(h, chan[j]) /\ ~InHand(h, j)'
    BY <1>4, <2>2, <2>3 DEF Carried
  <2>5. CarrierSteps(h)' < CarrierSteps(h)
    <3>1. CarrierSteps(h) = 1
      BY <2>2, <2>4 DEF CarrierSteps
    <3>2. CarrierSteps(h)' = 0
      BY <2>1, <2>4 DEF CarrierSteps
    <3> QED  BY <3>1, <3>2
  <2>6. \A c \in Calls \ {h} : CarrierSteps(c)' <= CarrierSteps(c)
    BY <1>4, <2>1, <2>3, CarrierKept
  <2> QED  BY <1>5, <2>5, <2>6
<1> QED  BY <1>6, <1>7

\* The answer: it may end the connection, which leaves its cleanup to do.
LEMMA HeadwayAnswer ==
    ASSUME TypeInv, TypeInv', OneOwnerPerBackend, NEW k \in Conns, HandleAnswer(k)
    PROVE  Headway
<1>1. /\ task[k] = "answering" /\ UNCHANGED <<pc, ident, backends, backendsLine>>
      /\ \A j \in Conns \ {k} : task'[j] = task[j] /\ hand'[j] = hand[j]
      /\ \A j \in Conns : chan'[j] \in {chan[j], <<>>}
      /\ task'[k] \in {"ended", "running"}
      /\ ident[k] \in BackendIds
  BY DEF HandleAnswer, EndTask, TypeInv, TypeOK
<1>2. IsServing' <=> IsServing
  BY <1>1, ServingMoves, UsesAreUses DEF IsServing, HandleAnswer
<1>3. \A c \in Calls : CarrierSteps(c)' <= CarrierSteps(c)
  <2>1. \A c \in Calls : ~Occurs(c, <<>>)
    BY DEF Occurs
  <2>2. \A c \in Calls, j \in Conns : InHand(c, j)' => InHand(c, j)
    BY <1>1 DEF InHand
  <2> QED  BY <1>1, <2>1, <2>2, CarrierKept
<1>4. TaskSteps(k) = 3 /\ TaskSteps(k)' = 0
  BY <1>1 DEF TaskSteps
<1>5. CASE EndTask(k)
  <2> DEFINE n == BackendCleanup(ident[k])
  <2>1. n \in CleanupRequest /\ cleanups' = Append(cleanups, n)
    BY <1>1, <1>5, CleanupMessages DEF EndTask
  <2>2. backends[ident[k]] = k /\ ~Pending(n)
    BY <1>1 DEF OneOwnerPerBackend, IsLive
  <2>3. \A m \in CleanupRequest \ {n} : CleanerSteps(m)' = CleanerSteps(m)
    BY <1>2, <2>1, CleanerAppend
  <2>4. LeavingSteps(k) = 0
    BY <2>2 DEF LeavingSteps, CleanerSteps
  <2>5. ConnSteps(k)' < ConnSteps(k)
    BY <1>4, <2>4, StepCounts DEF ConnSteps
  <2>6. ASSUME NEW j \in Conns \ {k} PROVE LeavingSteps(j)' = LeavingSteps(j)
    <3>1. ident[j] \in BackendIds /\ ident'[j] = ident[j]
      BY <1>1 DEF TypeInv, TypeOK
    <3>2. CASE backends[ident[j]] = j
      <4>1. ident[j] # ident[k]
        BY <2>2, <3>2
      <4>2. BackendCleanup(ident[j]) \in CleanupRequest \ {n}
        BY <1>1, <3>1, <4>1, CleanupMessages
      <4> QED  BY <1>1, <2>3, <3>1, <4>2 DEF LeavingSteps
    <3>3. CASE backends[ident[j]] # j
      BY <1>1, <3>3 DEF LeavingSteps
    <3> QED  BY <3>2, <3>3
  <2>7. \A c \in Calls : CleanerSteps(RequestCleanup(c))' = CleanerSteps(RequestCleanup(c))
    BY <1>1, <2>3, CleanupMessages
  <2> QED  BY <1>1, <1>3, <2>5, <2>6, <2>7, ConnHeadway
<1>6. CASE cleanups' = cleanups
  <2>1. \A m : CleanerSteps(m)' = CleanerSteps(m)
    BY <1>2, <1>6, CleanerSame
  <2>2. \A j \in Conns : LeavingSteps(j)' = LeavingSteps(j)
    BY <1>1, <2>1 DEF LeavingSteps
  <2>3. ConnSteps(k)' < ConnSteps(k)
    BY <1>4, <2>2, StepCounts DEF ConnSteps
  <2> QED  BY <1>1, <1>3, <2>1, <2>2, <2>3, ConnHeadway
<1> QED  BY <1>5, <1>6 DEF HandleAnswer

\* The steps of cleanup_task: the message that it takes up, or is done with, is
\* that of a call or of the owner of an id.
LEMMA HeadwayCleanup ==
    ASSUME TypeInv, TypeInv', OneOwnerPerBackend, RequestInv, CleanupStep
    PROVE  Headway
<1>1. UNCHANGED <<pc, task, ident, chan, hand>>
  BY DEF CleanupStep, TakeCleanup, CleanRequest, CleanBackend, callVars, connVars
<1>2. \A c \in Calls : CarrierSteps(c)' = CarrierSteps(c)
  BY <1>1 DEF CarrierSteps, InHand
<1>3. \A k \in Conns : TaskSteps(k)' = TaskSteps(k)
  BY <1>1 DEF TaskSteps
<1>4. \A k \in Conns : ident[k] \in BackendIds
  BY DEF TypeInv, TypeOK
<1>5. ASSUME \A m \in CleanupRequest : CleanerSteps(m)' <= CleanerSteps(m)
      PROVE  \A c \in Calls : /\ CallSteps(c)' <= CallSteps(c)
                              /\ CleanerSteps(RequestCleanup(c))' < CleanerSteps(RequestCleanup(c))
                                    => CallSteps(c)' < CallSteps(c)
  BY <1>1, <1>2, <1>5, StepCounts, CleanupMessages DEF CallSteps
<1>6. ASSUME NEW k \in Conns, LeavingSteps(k)' <= LeavingSteps(k)
      PROVE  /\ ConnSteps(k)' <= ConnSteps(k)
             /\ LeavingSteps(k)' < LeavingSteps(k) => ConnSteps(k)' < ConnSteps(k)
  BY <1>3, <1>6, StepCounts DEF ConnSteps
<1>7. ASSUME UNCHANGED backends, \A m \in CleanupRequest : CleanerSteps(m)' <= CleanerSteps(m),
             NEW k \in Conns
      PROVE  LeavingSteps(k)' <= LeavingSteps(k)
  BY <1>1, <1>4, <1>7, CleanupMessages DEF LeavingSteps
<1>8. CASE TakeCleanup
  <2>1. cleanups # <<>> /\ UNCHANGED <<cleanups, backends>>
    BY <1>8 DEF TakeCleanup
  <2> PICK h \in CleanupRequest : h = Head(cleanups)
    BY <2>1, Queueing
  <2>2. ~IsServing /\ IsServing'
    BY <1>8, ServingMoves DEF TakeCleanup, IsServing
  <2>3. /\ CleanerSteps(h)' < CleanerSteps(h)
        /\ \A m \in CleanupRequest : CleanerSteps(m)' <= CleanerSteps(m)
    BY <2>1, <2>2, CleanerTakes
  <2>4. Pending(h)
    BY <2>1, Queueing
  <2>5. \A k \in Conns : LeavingSteps(k)' <= LeavingSteps(k)
    BY <1>7, <2>1, <2>3
  <2>6. ASSUME NEW c \in Calls, h = RequestCleanup(c) PROVE Headway
    BY <1>5, <1>6, <2>3, <2>5, <2>6 DEF Headway
  <2>7. ASSUME NEW b \in BackendIds, h = BackendCleanup(b) PROVE Headway
    <3>1. PICK k \in Conns : backends[b] = k /\ ident[k] = b
      BY <2>4, <2>7 DEF OneOwnerPerBackend, TypeInv, TypeOK
    <3>2. LeavingSteps(k)' < LeavingSteps(k)
      BY <1>1, <2>1, <2>3, <2>7, <3>1 DEF LeavingSteps
    <3> QED  BY <1>5, <1>6, <2>3, <2>5, <3>2 DEF Headway
  <2> QED  BY <2>4, <2>6, <2>7 DEF CleanupRequest
<1>9. CASE CleanRequest
  <2>1. PICK c \in Calls : cleanups # <<>> /\ Head(cleanups) = RequestCleanup(c)
    BY <1>9, Served
  <2> DEFINE h == RequestCleanup(c)
  <2>2. cleanups' = Tail(cleanups) /\ UNCHANGED backends /\ h \in CleanupRequest
    BY <1>9, <2>1, CleanupMessages DEF CleanRequest
  <2>3. IsServing /\ ~IsServing'
    <3>1. requestsLine[Clean] = {Clean} /\ backendsLine[Clean] = {}
      BY <1>9, <2>1, Served DEF CleanRequest, HoldsRequests, HoldsAlone, TypeInv, CleanerOK,
         RequestCleanup
    <3> QED  BY <1>9, <3>1, ServingMoves, UsesAreUses DEF CleanRequest, IsServing, Queued,
             TypeInv, TypeOK
  <2>4. AtMostOnce(h, cleanups)
    BY <2>1 DEF RequestInv, RequestOf
  <2>5. /\ CleanerSteps(h)' < CleanerSteps(h)
        /\ \A m \in CleanupRequest : CleanerSteps(m)' <= CleanerSteps(m)
    BY <2>1, <2>2, <2>3, <2>4, CleanerDrops, StepCounts
  <2>6. \A k \in Conns : LeavingSteps(k)' <= LeavingSteps(k)
    BY <1>7, <2>2, <2>5
  <2> QED  BY <1>5, <1>6, <2>1, <2>5, <2>6 DEF Headway
<1>10. CASE CleanBackend
  <2>1. PICK b \in BackendIds : /\ cleanups # <<>>
                              /\ Head(cleanups) = BackendCleanup(b) /\ Head(cleanups).id = b
    BY <1>10, Served
  <2> DEFINE h == BackendCleanup(b)
  <2>2. /\ cleanups' = Tail(cleanups) /\ h \in CleanupRequest
        /\ backends'[b] = NoConn
        /\ \A a \in BackendIds \ {b} : backends'[a] = backends[a]
    BY <1>10, <2>1, CleanupMessages DEF CleanBackend, TypeInv, TypeOK
  <2>3. IsServing /\ ~IsServing'
    <3>1. backendsLine[Clean] = {Clean} /\ requestsLine[Clean] = {}
      BY <1>10, <2>1 DEF CleanBackend, WritesBackends, HoldsAlone, TypeInv, CleanerOK,
         BackendCleanup
    <3> QED  BY <1>10, <3>1, ServingMoves, UsesAreUses DEF CleanBackend, IsServing, Queued,
             TypeInv, TypeOK
  <2>4. AtMostOnce(h, cleanups) /\ Pending(h)
    BY <2>1, Queueing DEF OneOwnerPerBackend
  <2>5. /\ CleanerSteps(h) = 1
        /\ \A m \in CleanupRequest \ {h} : CleanerSteps(m)' = CleanerSteps(m)
        /\ \A m \in CleanupRequest : CleanerSteps(m)' <= CleanerSteps(m)
    BY <2>1, <2>2, <2>3, <2>4, CleanerDrops, StepCounts
  <2>6. PICK k \in Conns : backends[b] = k /\ ident[k] = b
    BY <2>1, <2>4 DEF OneOwnerPerBackend, TypeInv, TypeOK
  <2>7. LeavingSteps(k) = 1 /\ LeavingSteps(k)' = 0
    BY <1>1, <2>1, <2>2, <2>5, <2>6, BrokerAssumption DEF LeavingSteps
  <2>8. ASSUME NEW j \in Conns PROVE LeavingSteps(j)' <= LeavingSteps(j)
    <3>1. CASE ident[j] = b
      BY <1>1, <2>2, <3>1, BrokerAssumption, StepCounts DEF LeavingSteps
    <3>2. CASE ident[j] # b
      <4>1. BackendCleanup(ident[j]) \in CleanupRequest /\ ident'[j] = ident[j]
        BY <1>1, <1>4, CleanupMessages
      <4> QED  BY <1>4, <2>2, <2>5, <3>2, <4>1, StepCounts DEF LeavingSteps
    <3> QED  BY <3>1, <3>2
  <2>9. ConnSteps(k)' < ConnSteps(k)
    BY <1>6, <2>7
  <2> QED  BY <1>5, <1>6, <2>5, <2>8, <2>9 DEF Headway
<1> QED  BY <1>8, <1>9, <1>10 DEF CleanupStep

\* Every step of the server is headway.
LEMMA HeadwayStep ==
    TypeInv /\ TypeInv' /\ OneOwnerPerBackend /\ RequestInv /\ LineInv /\ OnceInv
        => [ServerStep => Headway]_vars
<1> SUFFICES ASSUME TypeInv, TypeInv', OneOwnerPerBackend, RequestInv, LineInv, OnceInv, ServerStep
             PROVE  Headway
  OBVIOUS
<1>1. ASSUME NEW c \in Calls, CallStep(c) PROVE Headway
  <2>1. CASE Return(c) \/ Timeout(c)
    BY <2>1, HeadwayDropHandle DEF Return, Timeout
  <2> QED  BY <1>1, <2>1, HeadwayBeforeSend, HeadwaySend DEF CallStep
<1>2. ASSUME NEW k \in Conns, ConnStep(k) PROVE Headway
  BY <1>2, HeadwayRegister, HeadwayCarry, HeadwayAnswer DEF ConnStep
<1> QED  BY <1>1, <1>2, HeadwayCleanup DEF ServerStep

\* Each step of the server leaves less to do, for some call or connection, and
\* for none more.
THEOREM ServerHeadway == Spec => ServerMakesHeadway
<1>1. TypeInv /\ OneOwnerPerBackend /\ RequestInv /\ LineInv /\ OnceInv /\ [Next]_vars
          => [ServerStep => Headway]_vars
  BY TypeStep, HeadwayStep
<1> QED
  BY <1>1, TypeInit, TypeStep, OwnerInit, OwnerStep, RequestInit, RequestStep, LineInit, LineStep,
     FlowInit, FlowStep, OnceInit, OnceStep, PTL DEF Spec, ServerMakesHeadway

\* The steps left are few, wherever the call or the connection is.
StepsAreFew ==
    /\ \A c \in Calls : CallSteps(c) \in 0..9
    /\ \A k \in Conns : ConnSteps(k) \in 0..3

\* Together with ServerHeadway: left alone, the server rests after 9 steps per
\* call and 3 per connection at most, however many messages are queued.
THEOREM HeadwayIsBounded == Spec => []StepsAreFew
<1>1. TypeInv /\ OneOwnerPerBackend /\ RequestInv /\ FlowInv => StepsAreFew
  <2> SUFFICES ASSUME TypeInv, OneOwnerPerBackend, RequestInv, FlowInv PROVE StepsAreFew
    OBVIOUS
  <2>1. ASSUME NEW c \in Calls PROVE CallSteps(c) \in 0..9
    <3>1. CarrierSteps(c) \in 0..2 /\ CleanerSteps(RequestCleanup(c)) \in 0..2
      BY DEF CarrierSteps, CleanerSteps
    <3>2. pc[c] # "done" => CleanerSteps(RequestCleanup(c)) = 0
      BY DEF RequestInv, RequestOf, CleanerSteps
    <3>3. pc[c] \notin {"waiting", "done"} => CarrierSteps(c) = 0
      <4>1. ASSUME ~Sent(c) PROVE CarrierSteps(c) = 0
        BY <4>1, NotSentNoReply DEF CarrierSteps, Carried
      <4> QED  BY <4>1 DEF Sent
    <3>4. pc[c] \in CallState
      BY DEF TypeInv, TypeOK
    <3> QED  BY <3>1, <3>2, <3>3, <3>4 DEF CallSteps, HandlerSteps, CallState
  <2>2. ASSUME NEW k \in Conns PROVE ConnSteps(k) \in 0..3
    <3>1. CleanerSteps(BackendCleanup(ident[k])) \in 0..2 /\ ident[k] \in BackendIds
      BY DEF CleanerSteps, TypeInv, TypeOK
    <3>2. LeavingSteps(k) \in 0..2
      BY <3>1 DEF LeavingSteps
    <3>3. task[k] = "answering" => LeavingSteps(k) = 0
      BY <3>1 DEF OneOwnerPerBackend, IsLive, LeavingSteps, CleanerSteps
    <3>4. /\ TaskSteps(k) \in {0, 1, 3}
          /\ TaskSteps(k) = 3 => task[k] = "answering"
      BY DEF TaskSteps
    <3> QED  BY <3>2, <3>3, <3>4 DEF ConnSteps
  <2> QED  BY <2>1, <2>2 DEF StepsAreFew
<1> QED
  BY <1>1, TypeInit, TypeStep, OwnerInit, OwnerStep, RequestInit, RequestStep, LineInit, LineStep,
     FlowInit, FlowStep, PTL DEF Spec
=============================================================================
