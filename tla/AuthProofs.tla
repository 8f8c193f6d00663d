----------------------------- MODULE AuthProofs -----------------------------
(***************************************************************************)
(* The two properties of the authentication layer, for any requests,       *)
(* tokens and names, and any editing of the table.                         *)
(***************************************************************************)
EXTENDS Auth, TLAPS

Status == {"none", "unauthenticated", "internal", "handled", "no_username", "cancelled"}

TypeInv ==
    /\ table \in [Tokens -> Names \cup {NoName}]
    /\ state \in [Requests -> {"new", "asking", "found", "handling", "done"}]
    /\ header \in [Requests -> Header]
    /\ claimed \in [Requests -> Names \cup {NoName}]
    /\ name \in [Requests -> Names \cup {NoName}]
    /\ username \in [Requests -> {<<>>} \cup {<<n>> : n \in Names}]
    /\ status \in [Requests -> Status]
    /\ owners \in [Requests -> SUBSET (Names \cup {NoName})]

\* What is known of a request in each place: while the database is asked, the
\* name it may answer now is an owner; later, the name it answered is one.
Known(r) ==
    /\ state[r] = "asking" =>
          /\ header[r].method = "Bearer" /\ header[r].token \in Tokens
          /\ table[header[r].token] \in owners[r]
    /\ state[r] \in {"found", "handling"} =>
          header[r].method = "Bearer" /\ name[r] \in owners[r] /\ name[r] \in Names
    /\ IF state[r] = "handling" THEN username[r] = <<name[r]>> /\ IsReadable(name[r])
       ELSE username[r] = <<>>
    /\ status[r] # "no_username"

AuthInv == TypeInv /\ \A r \in Requests : Known(r)

-----------------------------------------------------------------------------

LEMMA AuthInit == Init => AuthInv
BY DEF Init, AuthInv, TypeInv, Known, Header, Status

\* A header with a token is one of method Bearer.
LEMMA BearerHasToken ==
    ASSUME NEW h \in Header, h.token # NoToken
    PROVE  h.method = "Bearer" /\ h.token \in Tokens
BY DEF Header

\* A request that is over is known to be so, and no other request changes.
LEMMA FinishStep ==
    ASSUME AuthInv, NEW r \in Requests, NEW res \in Status \ {"no_username"},
           Finish(r, res)
    PROVE  AuthInv'
BY DEF AuthInv, TypeInv, Known, Finish, IsReadable, Status

LEMMA AuthStep == AuthInv /\ [Next]_vars => AuthInv'
<1> SUFFICES ASSUME AuthInv, [Next]_vars PROVE AuthInv'
  OBVIOUS
<1> USE DEF Status
<1>1. ASSUME NEW r \in Requests, RefuseHeader(r) PROVE AuthInv'
  BY <1>1, FinishStep DEF RefuseHeader
<1>2. ASSUME NEW r \in Requests, AskDatabase(r) PROVE AuthInv'
  <2>1. header[r].method = "Bearer" /\ header[r].token \in Tokens
    BY <1>2, BearerHasToken DEF AskDatabase, AuthInv, TypeInv
  <2>2. TypeInv'
    BY <1>2, <2>1 DEF AskDatabase, AuthInv, TypeInv
  <2>3. \A q \in Requests : Known(q)'
    BY <1>2, <2>1 DEF AskDatabase, AuthInv, TypeInv, Known, IsReadable
  <2> QED  BY <2>2, <2>3 DEF AuthInv
<1>3. ASSUME NEW r \in Requests, FindRow(r) PROVE AuthInv'
  <2>1. header[r].method = "Bearer" /\ header[r].token \in Tokens
        /\ table[header[r].token] \in owners[r] /\ table[header[r].token] \in Names
    BY <1>3 DEF FindRow, AuthInv, TypeInv, Known
  <2>2. TypeInv'
    BY <1>3, <2>1 DEF FindRow, AuthInv, TypeInv
  <2>3. \A q \in Requests : Known(q)'
    BY <1>3, <2>1 DEF FindRow, AuthInv, TypeInv, Known, IsReadable
  <2> QED  BY <2>2, <2>3 DEF AuthInv
<1>4. ASSUME NEW r \in Requests,
             FindNoRow(r) \/ LookupFails(r) \/ RefuseUnfit(r) \/ RefuseUnreadable(r) \/ Cancel(r)
      PROVE AuthInv'
  BY <1>4, FinishStep DEF FindNoRow, LookupFails, RefuseUnfit, RefuseUnreadable, Cancel
<1>5. ASSUME NEW r \in Requests, CallService(r) PROVE AuthInv'
  <2>1. name[r] \in Names /\ name[r] \in owners[r] /\ IsReadable(name[r])
    BY <1>5 DEF CallService, AuthInv, Known
  <2>2. TypeInv'
    BY <1>5, <2>1 DEF CallService, Inserted, AuthInv, TypeInv
  <2>3. \A q \in Requests : Known(q)'
    BY <1>5, <2>1 DEF CallService, Inserted, AuthInv, TypeInv, Known, IsReadable
  <2> QED  BY <2>2, <2>3 DEF AuthInv
<1>6. ASSUME NEW r \in Requests, Handle(r) PROVE AuthInv'
  <2>1. username[r] = <<name[r]>> /\ name[r] \in Names /\ IsReadable(name[r])
    BY <1>6 DEF Handle, AuthInv, Known
  <2>2. CanExtract(r)
    BY <2>1, AuthAssumption DEF CanExtract, Extracted, IsReadable
  <2> QED  BY <1>6, <2>2, FinishStep DEF Handle
<1>7. ASSUME NEW t \in Tokens, EditTable(t) PROVE AuthInv'
  <2>1. PICK n \in Names \cup {NoName} : table' = [table EXCEPT ![t] = n]
    BY <1>7 DEF EditTable
  <2>2. TypeInv'
    BY <1>7, <2>1 DEF EditTable, AuthInv, TypeInv
  <2>3. \A q \in Requests : Known(q)'
    BY <1>7, <2>1 DEF EditTable, AuthInv, TypeInv, Known, IsReadable
  <2> QED  BY <2>2, <2>3 DEF AuthInv
<1>8. CASE UNCHANGED vars
  BY <1>8 DEF vars, AuthInv, TypeInv, Known, IsReadable
<1> QED  BY <1>1, <1>2, <1>3, <1>4, <1>5, <1>6, <1>7, <1>8 DEF Next

LEMMA AuthInvariant == Spec => []AuthInv
BY AuthInit, AuthStep, PTL DEF Spec

-----------------------------------------------------------------------------

\* Whatever the client sends and however the table is edited, a handler takes
\* the caller for an owner of the token that came with this very request.
THEOREM CallerKnown == Spec => []CallerIsTokenOwner
<1>1. AuthInv => CallerIsTokenOwner
  BY AuthAssumption DEF AuthInv, Known, CallerIsTokenOwner, Extracted
<1> QED  BY <1>1, AuthInvariant, PTL

\* No handler behind the layer misses its name.
THEOREM NameThere == Spec => []NameIsThere
<1>1. AuthInv => NameIsThere
  BY DEF AuthInv, Known, NameIsThere
<1> QED  BY <1>1, AuthInvariant, PTL
=============================================================================
