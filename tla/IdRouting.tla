----------------------------- MODULE IdRouting -----------------------------
(***************************************************************************)
(* How an id comes back to where it came from.  A backend announces itself *)
(* with a scheme and an id of its choice and names its channels and users  *)
(* as it likes; the server shows plugins texts made of these names, in     *)
(* events and in the answers of list_backends and list_channels; a plugin  *)
(* sends such a text back in an RPC, perhaps much later, and the server    *)
(* must find the same backend and give it the name it knows.  Meanwhile    *)
(* backends come and go.                                                   *)
(***************************************************************************)
EXTENDS Ids

CONSTANTS
    Schemes,    \* the schemes that backends announce
    Names,      \* ... and their ids
    Paths,      \* ids of channels and users, as the backends know them
    Typed,      \* texts that a plugin makes up
    Nobody

Text == Seq(Byte)

\* What an id is read as.
AnyBackendId == [scheme : Text, id : Text]
AnyId == [backend : AnyBackendId, path : Text \cup {Invalid}]

\* A String of Rust is UTF-8.
ASSUME IdAssumption ==
    /\ \A s \in Schemes \cup Names \cup Paths : s \in Text /\ IsUtf8[s]
    /\ Typed \subseteq Text
    /\ Invalid \notin Text \cup AnyBackendId \cup AnyId
    /\ Nobody \notin AnyId

VARIABLES
    home,       \* the backend that the plugin hears from
    other,      \* a second backend
    path,       \* the channel or user that the plugin hears of
    up,         \* the keys of Server.backends
    held,       \* the texts that the plugin holds, by what they are
    answer,     \* the Status of the last RPC
    reached     \* who was given its request, and the path in it

vars == <<home, other, path, up, held, answer, reached>>

BackendId == [scheme : Schemes, id : Names]

Init ==
    /\ home \in BackendId
    /\ other \in BackendId \ {home}
    /\ path \in Paths
    /\ up = {}
    /\ held = [full |-> Invalid, backend |-> Invalid]
    /\ answer = "none"
    /\ reached = Nobody

-----------------------------------------------------------------------------
(* Backends *)

Register(b) ==
    /\ b \notin up
    /\ up' = up \cup {b}
    /\ UNCHANGED <<home, other, path, held, answer, reached>>

Vanish(b) ==
    /\ b \in up
    /\ up' = up \ {b}
    /\ UNCHANGED <<home, other, path, held, answer, reached>>

\* An event with a source, or list_channels: into_relative.
ShowPath ==
    /\ home \in up
    /\ held' = [held EXCEPT !.full = FullText(home, path)]
    /\ UNCHANGED <<home, other, path, up, answer, reached>>

\* list_backends
ShowBackend ==
    /\ home \in up
    /\ held' = [held EXCEPT !.backend = BackendText(home)]
    /\ UNCHANGED <<home, other, path, up, answer, reached>>

-----------------------------------------------------------------------------
(* RPCs of a plugin *)

Answer(res, to) ==
    /\ answer' = res
    /\ reached' = to
    /\ UNCHANGED <<home, other, path, up, held>>

\* An RPC that takes the id of a channel or a user.
AddressPath(t) ==
    LET id == ParseFull(t) IN
    \/ id = Invalid /\ Answer("invalid_argument", Nobody)
    \/ id # Invalid /\ id.backend \notin up /\ Answer("not_found", Nobody)
    \/ id # Invalid /\ id.backend \in up /\ Answer("sent", id)

\* An RPC that takes the id of a backend.
AddressBackend(t) ==
    LET b == ParseBackend(t) IN
    \/ b = Invalid /\ Answer("invalid_argument", Nobody)
    \/ b # Invalid /\ b \notin up /\ Answer("not_found", Nobody)
    \/ b # Invalid /\ b \in up /\ Answer("sent", [backend |-> b, path |-> Invalid])

\* The plugin sends back what it holds, as what it is.
ReplyToPath == held.full # Invalid /\ AddressPath(held.full)
ReplyToBackend == held.backend # Invalid /\ AddressBackend(held.backend)

\* It mistakes the one for the other.
Mistake ==
    \/ held.full # Invalid /\ AddressBackend(held.full)
    \/ held.backend # Invalid /\ AddressPath(held.backend)

\* It makes up the part behind the backend, or all of the text.
MakeUp ==
    \E t \in Typed :
        \/ AddressPath(t)
        \/ held.backend # Invalid /\ AddressPath(held.backend \o <<Slash>> \o t)

Next ==
    \/ \E b \in {home, other} : Register(b) \/ Vanish(b)
    \/ ShowPath \/ ShowBackend
    \/ ReplyToPath \/ ReplyToBackend \/ Mistake \/ MakeUp

Spec == Init /\ [][Next]_vars

-----------------------------------------------------------------------------
(* Properties *)

\* A request goes to nobody or to a registered backend, and what the backend is
\* given is UTF-8, as protobuf demands of every string: whatever bytes a plugin
\* writes with percent signs, it cannot make the server send anything else.
RequestOK ==
    /\ home \in BackendId /\ other \in BackendId /\ up \subseteq {home, other}
    /\ answer \in {"none", "invalid_argument", "not_found", "sent"}
    /\ reached # Nobody <=> answer = "sent"
    /\ reached # Nobody =>
          /\ reached.backend \in {home, other}
          /\ reached.path # Invalid => IsUtf8[reached.path]

\* What a plugin was shown leads back: while the backend is registered the
\* plugin reaches that very backend, and the channel or user it was shown, and
\* when it is not, nobody, least of all a backend whose names look similar.
RepliesComeHome ==
    /\ ReplyToPath => IF home \in up THEN reached' = [backend |-> home, path |-> path]
                      ELSE answer' = "not_found"
    /\ ReplyToBackend => IF home \in up THEN reached' = [backend |-> home, path |-> Invalid]
                         ELSE answer' = "not_found"

ComesHome == [][RepliesComeHome]_vars

\* An id of the one kind is not taken for one of the other: the id of a backend
\* is no id of a channel, and the id of a channel is not that of its backend.
\* (It parses as the id of some backend, since "/" in it is decoded as itself.)
KindsDiffer ==
    /\ held.backend # Invalid => ParseFull(held.backend) = Invalid
    /\ held.full # Invalid => ParseBackend(held.full) \notin {home, Invalid}
=============================================================================
