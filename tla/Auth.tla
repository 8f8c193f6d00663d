-------------------------------- MODULE Auth --------------------------------
(***************************************************************************)
(* AuthedService, the layer in front of both gRPC services: it reads the   *)
(* token from the authorization header, looks its name up in the database  *)
(* and hands the request to the service inside with the name in the header *)
(* x-auth-username, where handlers read it (extract_auth_username).        *)
(*                                                                         *)
(* The lookup is awaited: other requests are handled meanwhile, and an     *)
(* administrator may edit the table of tokens from outside.                *)
(***************************************************************************)
CONSTANTS
    Requests,   \* HTTP requests of clients
    Tokens,     \* keys that clients present
    Names,      \* names in the table, of three sorts:
    Opaque,     \* those with characters beyond visible ASCII,
    Unfit,      \* and those that no header can hold (control characters)
    NoToken, NoName

ASSUME AuthAssumption ==
    /\ Opaque \subseteq Names /\ Unfit \subseteq Names /\ Opaque \cap Unfit = {}
    /\ NoToken \notin Tokens /\ NoName \notin Names

VARIABLES
    table,      \* seabird_auth_tokens: the name of each key, which is unique
    state,      \* where each request is
    header,     \* its authorization header
    claimed,    \* the x-auth-username header that its client sent, if any
    name,       \* the name that the database answered
    username,   \* the values of x-auth-username when the service is called
    status,     \* what became of it
    owners      \* the names its token has had since it arrived

vars == <<table, state, header, claimed, name, username, status, owners>>

\* An authorization header: missing, not visible ASCII, or a method and a token.
Header == [method : {"missing", "opaque", "Basic"}, token : {NoToken}]
          \cup [method : {"Bearer"}, token : Tokens \cup {NoToken}]

Init ==
    /\ table \in [Tokens -> Names \cup {NoName}]
    /\ state = [r \in Requests |-> "new"]
    /\ header \in [Requests -> Header]
    /\ claimed \in [Requests -> (Names \ Unfit) \cup {NoName}]
    /\ name = [r \in Requests |-> NoName]
    /\ username = [r \in Requests |-> <<>>]
    /\ status = [r \in Requests |-> "none"]
    /\ owners = [r \in Requests |-> {}]

-----------------------------------------------------------------------------
(* AuthedService::call *)

\* The request is over, and what was known of it is dropped.
Finish(r, res) ==
    /\ state' = [state EXCEPT ![r] = "done"]
    /\ status' = [status EXCEPT ![r] = res]
    /\ name' = [name EXCEPT ![r] = NoName]
    /\ username' = [username EXCEPT ![r] = <<>>]
    /\ owners' = [owners EXCEPT ![r] = {}]
    /\ UNCHANGED <<table, header, claimed>>

\* The header has no token to look up.
RefuseHeader(r) ==
    /\ state[r] = "new" /\ header[r].token = NoToken
    /\ Finish(r, "unauthenticated")

\* The token is handed to the database.
AskDatabase(r) ==
    /\ state[r] = "new" /\ header[r].token # NoToken
    /\ state' = [state EXCEPT ![r] = "asking"]
    /\ owners' = [owners EXCEPT ![r] = {table[header[r].token]}]
    /\ UNCHANGED <<table, header, claimed, name, username, status>>

\* get_auth_token finds a row.
FindRow(r) ==
    /\ state[r] = "asking" /\ table[header[r].token] # NoName
    /\ state' = [state EXCEPT ![r] = "found"]
    /\ name' = [name EXCEPT ![r] = table[header[r].token]]
    /\ UNCHANGED <<table, header, claimed, username, status, owners>>

\* There is none, or the query fails.
FindNoRow(r) ==
    /\ state[r] = "asking" /\ table[header[r].token] = NoName
    /\ Finish(r, "unauthenticated")

LookupFails(r) ==
    /\ state[r] = "asking"
    /\ Finish(r, "unauthenticated")

\* row.name.parse() fails.
RefuseUnfit(r) ==
    /\ state[r] = "found" /\ name[r] \in Unfit
    /\ Finish(r, "unauthenticated")

\* Faulty variant of IsReadable: every name that a header can hold.
IsHeaderValue(n) == n \notin Unfit

\* The name can be read back from a header: to_str.
IsReadable(n) == n \notin Unfit \cup Opaque

RefuseUnreadable(r) ==
    /\ state[r] = "found" /\ name[r] \notin Unfit /\ ~IsReadable(name[r])
    /\ Finish(r, "internal")

\* Faulty variant of Inserted: append.
Appended(c, n) == IF c = NoName THEN <<n>> ELSE <<c, n>>

\* headers_mut().insert replaces what the client sent.
Inserted(c, n) == <<n>>

\* The service inside is called.
CallService(r) ==
    /\ state[r] = "found" /\ IsReadable(name[r])
    /\ state' = [state EXCEPT ![r] = "handling"]
    /\ username' = [username EXCEPT ![r] = Inserted(claimed[r], name[r])]
    /\ UNCHANGED <<table, header, claimed, name, status, owners>>

-----------------------------------------------------------------------------
(* The handlers, and the rest of the world *)

\* extract_auth_username takes the first value of the header.
Extracted(r) == IF username[r] = <<>> THEN NoName ELSE username[r][1]

CanExtract(r) == Extracted(r) # NoName /\ Extracted(r) \notin Opaque \cup Unfit

\* A handler that announces its sender fails without a name, any other does not.
Handle(r) ==
    /\ state[r] = "handling"
    /\ Finish(r, IF CanExtract(r) THEN "handled" ELSE "no_username")

\* The client goes away.
Cancel(r) ==
    /\ state[r] \in {"asking", "found", "handling"}
    /\ Finish(r, "cancelled")

\* External: a row is added, removed or renamed.
EditTable(t) ==
    /\ table' \in {[table EXCEPT ![t] = n] : n \in Names \cup {NoName}}
    /\ owners' = [r \in Requests |->
          IF state[r] = "asking" /\ header[r].token = t THEN owners[r] \cup {table'[t]} ELSE owners[r]]
    /\ UNCHANGED <<state, header, claimed, name, username, status>>

Next ==
    \/ \E r \in Requests :
          \/ RefuseHeader(r) \/ AskDatabase(r) \/ FindRow(r) \/ FindNoRow(r)
          \/ LookupFails(r) \/ RefuseUnfit(r) \/ RefuseUnreadable(r)
          \/ CallService(r) \/ Handle(r) \/ Cancel(r)
    \/ \E t \in Tokens : EditTable(t)

Spec == Init /\ [][Next]_vars

-----------------------------------------------------------------------------
(* Properties *)

\* Whoever a handler takes the caller for is who the presented token belonged
\* to at some moment of this request: not what the client calls itself in
\* x-auth-username, and not the owner of the token of another request.  A token
\* removed before the request arrived opens nothing.
CallerIsTokenOwner ==
    \A r \in Requests : username[r] # <<>> =>
        header[r].method = "Bearer" /\ Extracted(r) \in owners[r] \ {NoName}

\* A handler behind the layer always gets a name: "missing auth username" and
\* "failed to decode auth username" (auth.rs:13) are never returned.
NameIsThere == \A r \in Requests : status[r] # "no_username"
=============================================================================
