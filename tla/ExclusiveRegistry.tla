-------------------------- MODULE ExclusiveRegistry --------------------------
(***************************************************************************)
(* What the two registries of seabird-core promise, the backends by id and *)
(* the commands by name, with no locks, handles or cleanup messages: an    *)
(* owner gets all the names it claims or none, keeps them until it goes,   *)
(* and only then, and only once, they are given back.                      *)
(***************************************************************************)
CONSTANTS Names, Owners, NoOwner

VARIABLES
    claims,     \* the names each owner asks for
    owner,      \* who has each name
    stage       \* "new", "holding", "leaving" or "over"

registryVars == <<claims, owner, stage>>

Init ==
    /\ claims \in [Owners -> SUBSET Names]
    /\ owner = [n \in Names |-> NoOwner]
    /\ stage = [o \in Owners |-> "new"]

Acquire(o) ==
    /\ stage[o] = "new" /\ \A n \in claims[o] : owner[n] = NoOwner
    /\ stage' = [stage EXCEPT ![o] = "holding"]
    /\ owner' = [n \in Names |-> IF n \in claims[o] THEN o ELSE owner[n]]
    /\ UNCHANGED claims

\* A collision, or the owner gives up before it is served.
Refuse(o) ==
    /\ stage[o] = "new"
    /\ stage' = [stage EXCEPT ![o] = "over"]
    /\ UNCHANGED <<claims, owner>>

\* The owner is gone; its names are not free yet.
Depart(o) ==
    /\ stage[o] = "holding"
    /\ stage' = [stage EXCEPT ![o] = "leaving"]
    /\ UNCHANGED <<claims, owner>>

Release(o) ==
    /\ stage[o] = "leaving"
    /\ stage' = [stage EXCEPT ![o] = "over"]
    /\ owner' = [n \in Names |-> IF owner[n] = o THEN NoOwner ELSE owner[n]]
    /\ UNCHANGED claims

Next == \E o \in Owners : Acquire(o) \/ Refuse(o) \/ Depart(o) \/ Release(o)

Spec == Init /\ [][Next]_registryVars
=============================================================================
