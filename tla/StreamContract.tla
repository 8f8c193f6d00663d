--------------------------- MODULE StreamContract ---------------------------
(***************************************************************************)
(* What a plugin may rely on when it calls stream_events, with no ring,    *)
(* tasks, channels or locks: from the moment its stream opens it sees      *)
(* every event, in order and without a gap, and as long as it stays, its   *)
(* stream ends only when it has fallen more than Capacity events behind.   *)
(***************************************************************************)
EXTENDS Naturals, Sequences

CONSTANTS Streams, Capacity

VARIABLES
    sent,       \* how many events there have been; an event is its number
    phase,      \* "new", "open", "left" or "closed"
    start,      \* the last event before each stream opened
    seen        \* the events each plugin has been given

contractVars == <<sent, phase, start, seen>>

Init ==
    /\ sent = 0
    /\ phase = [s \in Streams |-> "new"]
    /\ start = [s \in Streams |-> 0]
    /\ seen = [s \in Streams |-> <<>>]

Behind(s) == sent - (start[s] + Len(seen[s]))

Publish ==
    /\ sent' = sent + 1
    /\ UNCHANGED <<phase, start, seen>>

Open(s) ==
    /\ phase[s] = "new"
    /\ phase' = [phase EXCEPT ![s] = "open"]
    /\ start' = [start EXCEPT ![s] = sent]
    /\ UNCHANGED <<sent, seen>>

Refuse(s) ==
    /\ phase[s] = "new"
    /\ phase' = [phase EXCEPT ![s] = "closed"]
    /\ UNCHANGED <<sent, start, seen>>

Deliver(s) ==
    /\ phase[s] = "open" /\ Behind(s) > 0
    /\ seen' = [seen EXCEPT ![s] = Append(@, start[s] + Len(@) + 1)]
    /\ UNCHANGED <<sent, phase, start>>

Leave(s) ==
    /\ phase[s] = "open"
    /\ phase' = [phase EXCEPT ![s] = "left"]
    /\ UNCHANGED <<sent, start, seen>>

End(s) ==
    /\ phase[s] = "open" /\ Behind(s) > Capacity
    /\ phase' = [phase EXCEPT ![s] = "closed"]
    /\ UNCHANGED <<sent, start, seen>>

Next ==
    \/ Publish
    \/ \E s \in Streams : Open(s) \/ Refuse(s) \/ Deliver(s) \/ Leave(s) \/ End(s)

Spec == Init /\ [][Next]_contractVars
=============================================================================
