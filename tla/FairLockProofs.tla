--------------------------- MODULE FairLockProofs ---------------------------
(***************************************************************************)
(* What a fair line guarantees for every set of uses: it stays a queue     *)
(* when a use enters or leaves, and the grants exclude each other.         *)
(***************************************************************************)
EXTENDS FairLock, TLAPS

\* An unused lock has a well-formed line.
LEMMA EmptyLineIsLine ==
    ASSUME NEW Uses
    PROVE  IsLine(EmptyLine(Uses), Uses)
<1>1. Queued(EmptyLine(Uses)) = {}
  BY DEF Queued, EmptyLine
<1>2. HasFirst(EmptyLine(Uses))
  BY <1>1 DEF HasFirst
<1> QED  BY <1>2 DEF IsLine, EmptyLine, Queued

\* A use that is not queued yet may enter.
LEMMA EnterIsLine ==
    ASSUME NEW Uses, NEW line, IsLine(line, Uses),
           NEW u \in Uses, line[u] = {}
    PROVE  IsLine(Enter(line, u), Uses)
<1> DEFINE new == Enter(line, u)
           Q == Queued(line)
<1>1. /\ line \in [Uses -> SUBSET Uses]
      /\ Q = {v \in Uses : v \in line[v]}
      /\ u \notin Q
  BY DEF IsLine, Queued
<1>2. /\ new \in [Uses -> SUBSET Uses]
      /\ new[u] = Q \cup {u}
      /\ \A v \in Uses : v # u => new[v] = line[v]
  BY <1>1 DEF Enter
<1>3. \A v \in Uses : u \notin line[v]
  BY <1>1 DEF IsLine
<1>4. \A v \in Uses : new[v] # {} => v \in new[v]
  BY <1>2 DEF IsLine
<1>5. \A v, w \in Uses : w \in new[v] => w \in new[w] /\ new[w] \subseteq new[v]
  <2> SUFFICES ASSUME NEW v \in Uses, NEW w \in Uses, w \in new[v]
               PROVE  w \in new[w] /\ new[w] \subseteq new[v]
    OBVIOUS
  <2>1. CASE v = u
    <3>1. CASE w = u  BY <2>1, <3>1, <1>2
    <3>2. CASE w # u
      <4>1. w \in line[w]  BY <2>1, <3>2, <1>1, <1>2
      <4>2. line[w] \subseteq Q  BY <1>1 DEF IsLine
      <4> QED  BY <4>1, <4>2, <2>1, <3>2, <1>2
    <3> QED  BY <3>1, <3>2
  <2>2. CASE v # u
    <3>1. w # u /\ w \in line[v]  BY <2>2, <1>2, <1>3
    <3> QED  BY <3>1, <2>2, <1>2 DEF IsLine
  <2> QED  BY <2>1, <2>2
<1>6. Queued(new) = Q \cup {u}
  BY <1>1, <1>2 DEF Queued
<1>7. \A v, w \in Queued(new) : v # w => (v \in new[w] <=> w \notin new[v])
  BY <1>1, <1>2, <1>3, <1>6 DEF IsLine
<1>8. HasFirst(new)
  <2> SUFFICES ASSUME NEW S \in SUBSET Queued(new), S # {}
               PROVE  \E v \in S : new[v] \cap S = {v}
    BY DEF HasFirst
  <2>1. CASE S = {u}
    BY <2>1, <1>2
  <2>2. CASE S # {u}
    <3> DEFINE T == S \ {u}
    <3>1. T \in SUBSET Q /\ T # {}
      BY <2>2, <1>6
    <3>2. PICK v \in T : line[v] \cap T = {v}
      BY <3>1 DEF IsLine, HasFirst
    <3>3. v \in Uses /\ v # u /\ new[v] = line[v] /\ u \notin line[v]
      BY <1>1, <1>2, <1>3, <3>1
    <3> QED  BY <3>2, <3>3
  <2> QED  BY <2>1, <2>2
<1> HIDE DEF new, Q
<1> QED  BY <1>2, <1>4, <1>5, <1>7, <1>8 DEF IsLine, new

\* Any set of uses may leave.
LEMMA LeaveIsLine ==
    ASSUME NEW Uses, NEW line, IsLine(line, Uses), NEW S
    PROVE  IsLine(Leave(line, S), Uses)
<1> DEFINE new == Leave(line, S)
<1>1. line \in [Uses -> SUBSET Uses]
  BY DEF IsLine
<1>2. /\ new \in [Uses -> SUBSET Uses]
      /\ \A v \in Uses : v \in S => new[v] = {}
      /\ \A v \in Uses : v \notin S => new[v] = line[v] \ S
  BY <1>1 DEF Leave
<1>3. \A v \in Uses : new[v] # {} => v \in new[v]
  BY <1>1, <1>2 DEF IsLine
<1>4. \A v, w \in Uses : w \in new[v] => w \in new[w] /\ new[w] \subseteq new[v]
  <2> SUFFICES ASSUME NEW v \in Uses, NEW w \in Uses, w \in new[v]
               PROVE  w \in new[w] /\ new[w] \subseteq new[v]
    OBVIOUS
  <2>1. v \notin S /\ w \notin S /\ w \in line[v]
    BY <1>2
  <2>2. w \in line[w] /\ line[w] \subseteq line[v]
    BY <2>1 DEF IsLine
  <2> QED  BY <2>1, <2>2, <1>2
<1>5. \A v \in Queued(new) : v \in Uses /\ v \notin S /\ v \in Queued(line)
  BY <1>1, <1>2 DEF Queued
<1>6. \A v, w \in Queued(new) : v # w => (v \in new[w] <=> w \notin new[v])
  BY <1>1, <1>2, <1>5 DEF IsLine
<1>7. HasFirst(new)
  <2> SUFFICES ASSUME NEW T \in SUBSET Queued(new), T # {}
               PROVE  \E v \in T : new[v] \cap T = {v}
    BY DEF HasFirst
  <2>1. T \in SUBSET Queued(line)
    BY <1>5
  <2>2. PICK v \in T : line[v] \cap T = {v}
    BY <2>1 DEF IsLine, HasFirst
  <2>3. T \cap S = {} /\ new[v] = line[v] \ S
    BY <1>2, <1>5
  <2> QED  BY <2>2, <2>3
<1> HIDE DEF new
<1> QED  BY <1>2, <1>3, <1>4, <1>6, <1>7 DEF IsLine, new

\* Who is queued, and in front of whom, after u enters.
LEMMA EnterLine ==
    ASSUME NEW Uses, NEW line \in [Uses -> SUBSET Uses], NEW u \in Uses
    PROVE  /\ Enter(line, u) \in [Uses -> SUBSET Uses]
           /\ u \in Enter(line, u)[u]
           /\ \A v \in Uses \ {u} : Enter(line, u)[v] = line[v]
BY DEF Enter, Queued

\* ... and after S leaves.
LEMMA LeaveLine ==
    ASSUME NEW Uses, NEW line \in [Uses -> SUBSET Uses], NEW S
    PROVE  /\ Leave(line, S) \in [Uses -> SUBSET Uses]
           /\ \A v \in Uses \cap S : Leave(line, S)[v] = {}
           /\ \A v \in Uses \ S : Leave(line, S)[v] = line[v] \ S
BY DEF Leave

\* A lock that is asked for has a first in line, which has been granted it and
\* is in front of all others.
THEOREM FirstInLine ==
    ASSUME NEW Uses, NEW line, IsLine(line, Uses), Queued(line) # {}
    PROVE  \E u \in Queued(line) : /\ u \in Uses /\ line[u] = {u}
                                   /\ \A v \in Queued(line) : u \in line[v]
<1>1. PICK u \in Queued(line) : line[u] \cap Queued(line) = {u}
  BY DEF IsLine, HasFirst
<1>2. u \in Uses /\ \A v \in line[u] : v \in Queued(line)
  BY DEF IsLine, Queued
<1>3. line[u] = {u}
  BY <1>1, <1>2
<1>4. ASSUME NEW v \in Queued(line) PROVE u \in line[v]
  <2>1. CASE v = u
    BY <1>3, <2>1
  <2>2. CASE v # u
    BY <1>3, <2>2 DEF IsLine
  <2> QED  BY <2>1, <2>2
<1> QED  BY <1>2, <1>3, <1>4

\* A Mutex, or a RwLock among its writers, has at most one holder.
THEOREM AloneIsAlone ==
    ASSUME NEW Uses, NEW line, IsLine(line, Uses),
           NEW u \in Uses, NEW v \in Uses,
           HoldsAlone(line, u), HoldsAlone(line, v)
    PROVE  u = v
BY DEF IsLine, Queued, HoldsAlone

\* A RwLock is never held by a reader and a writer at once.
THEOREM SharedExcludesAlone ==
    ASSUME NEW Uses, NEW Writers, NEW line, IsLine(line, Uses),
           NEW u \in Uses \ Writers, NEW w \in Uses \cap Writers,
           HoldsShared(line, u, Writers)
    PROVE  ~HoldsAlone(line, w)
BY DEF IsLine, Queued, HoldsShared, HoldsAlone
=============================================================================
