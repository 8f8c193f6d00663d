--------------------------- MODULE RequestContract ---------------------------
(***************************************************************************)
(* What seabird-core promises to a plugin that makes a call, with no       *)
(* locks, queues, connections or cleanup:                                  *)
(*   - a call has one outcome, and it is final;                            *)
(*   - only a backend that was given the request can answer it, the first  *)
(*     answer counts and later ones are ignored;                           *)
(*   - success, failure and an unexpected answer are reported as what the  *)
(*     backend answered;                                                   *)
(*   - a call that ends before its request is sent (unknown backend,       *)
(*     failed send, early cancellation) never reaches a backend, so that   *)
(*     it can be repeated safely.                                          *)
(***************************************************************************)
EXTENDS RequestTypes

CONSTANTS Calls, Kinds, Replies, NoReply

VARIABLES
    kind,       \* what each call asks for
    stage,      \* "new", "open" or "closed"
    delivered,  \* the calls whose request a backend has been given
    answer,     \* the answer an open call has been given, if any
    outcome     \* what a closed call reported

contractVars == <<kind, stage, delivered, answer, outcome>>

Init ==
    /\ kind \in [Calls -> Kinds]
    /\ stage = [c \in Calls |-> "new"]
    /\ delivered = {}
    /\ answer = [c \in Calls |-> NoReply]
    /\ outcome = [c \in Calls |-> "none"]

Refuse(c) ==
    /\ stage[c] = "new"
    /\ stage' = [stage EXCEPT ![c] = "closed"]
    /\ outcome' = [outcome EXCEPT ![c] = "invalid"]
    /\ UNCHANGED <<kind, delivered, answer>>

Open(c) ==
    /\ stage[c] = "new"
    /\ stage' = [stage EXCEPT ![c] = "open"]
    /\ UNCHANGED <<kind, delivered, answer, outcome>>

\* A backend may get a request late, when the call has given up waiting.
Deliver(c) ==
    /\ stage[c] # "new" /\ outcome[c] \notin EarlyOutcome
    /\ delivered' = delivered \cup {c}
    /\ UNCHANGED <<kind, stage, answer, outcome>>

Answer(c) ==
    /\ stage[c] = "open" /\ c \in delivered /\ answer[c] = NoReply
    /\ \E r \in Replies : answer' = [answer EXCEPT ![c] = r]
    /\ UNCHANGED <<kind, stage, delivered, outcome>>

Close(c) ==
    /\ stage[c] = "open"
    /\ stage' = [stage EXCEPT ![c] = "closed"]
    /\ answer' = [answer EXCEPT ![c] = NoReply]
    /\ \E res \in Outcomes :
          /\ outcome' = [outcome EXCEPT ![c] = res]
          /\ res = "ok" => answer[c] \in Wanted[kind[c]]
          /\ res = "failed" => answer[c] = "Failed"
          /\ res = "unexpected" => answer[c] \notin {"Failed", NoReply} \cup Wanted[kind[c]]
          /\ res \in EarlyOutcome => c \notin delivered
    /\ UNCHANGED <<kind, delivered>>

Next == \E c \in Calls : Refuse(c) \/ Open(c) \/ Deliver(c) \/ Answer(c) \/ Close(c)

Spec == Init /\ [][Next]_contractVars
=============================================================================
