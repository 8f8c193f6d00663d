------------------------------ MODULE FairLock ------------------------------
(***************************************************************************)
(* The two locks of tokio::sync that seabird-core uses, Mutex and RwLock,  *)
(* are built on one fair semaphore: a waiter is granted the lock when the  *)
(* uses that asked before it, and that it conflicts with, have left.       *)
(* Dropping a guard and dropping a lock future that still waits are the    *)
(* same thing here: the use leaves the line.                               *)
(*                                                                         *)
(* The line of a lock maps every possible use u of it to the set of uses   *)
(* queued when u asked, u itself included, that have not left since; the   *)
(* set is empty while u is not queued.  This order is all of the FIFO that *)
(* the grants depend on.                                                   *)
(***************************************************************************)

\* Nobody holds or awaits the lock whose possible uses are Uses.
EmptyLine(Uses) == [u \in Uses |-> {}]

\* The uses that hold the lock or wait for it.
Queued(line) == {u \in DOMAIN line : u \in line[u]}

\* lock(), read() or write() is called: u goes to the end of the line.
Enter(line, u) == [line EXCEPT ![u] = Queued(line) \cup {u}]

\* The guards and lock futures in S are dropped.
Leave(line, S) == [v \in DOMAIN line |-> IF v \in S THEN {} ELSE line[v] \ S]

\* u, a use of a Mutex or a writer of a RwLock, holds the lock.
HoldsAlone(line, u) == line[u] = {u}

\* u, a reader, holds the lock: no use in Writers is in front of it.
HoldsShared(line, u, Writers) == u \in line[u] /\ line[u] \cap Writers = {}

-----------------------------------------------------------------------------
\* Of any queued uses there is one that none of the others is in front of.
HasFirst(line) == \A S \in SUBSET Queued(line) : S # {} => \E u \in S : line[u] \cap S = {u}

(***************************************************************************)
(* What makes a line a queue: only queued uses are in front of a use, of   *)
(* two queued uses exactly one is in front of the other, being in front is *)
(* transitive, and no use has endlessly many others in front of it.        *)
(***************************************************************************)
IsLine(line, Uses) ==
    /\ line \in [Uses -> SUBSET Uses]
    /\ \A u \in Uses : line[u] # {} => u \in line[u]
    /\ \A u, v \in Uses : v \in line[u] => v \in line[v] /\ line[v] \subseteq line[u]
    /\ \A u, v \in Queued(line) : u # v => (u \in line[v] <=> v \notin line[u])
    /\ HasFirst(line)
=============================================================================
