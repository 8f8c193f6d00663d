----------------------------- MODULE BlockRelay -----------------------------
(***************************************************************************)
(* A message on its way through seabird-core, hop by hop: a plugin sends   *)
(* it in an RPC, its event goes to the plugins and its request to a        *)
(* backend; the backend posts it and reports what it posted, or a plugin   *)
(* relays it to another backend, and so on; or it starts with what a user  *)
(* wrote and a backend reports.  Senders come in two kinds,                *)
(* those that know blocks and those that know plain text only, and what a  *)
(* sender puts beside its blocks need not agree with them: the server      *)
(* normalizes at every hop.  A message has tags too: what senders agreed   *)
(* on, which the server hands on, and the one it puts there itself.        *)
(***************************************************************************)
EXTENDS Blocks

CONSTANTS
    Trees,      \* the root blocks that are sent
    Texts,      \* plain texts, of messages without blocks or beside them
    Taggings,   \* the tags that senders put: functions of keys
    OriginalFormat,     \* ORIGINAL_FORMAT_TAG, a key that senders may use too
    MaxHops,    \* a bound of the model: how often a message is handed over
    Nothing

ASSUME RelayAssumption ==
    /\ Trees \subseteq AnyBlock
    /\ Texts \subseteq Text
    /\ MaxHops \in Nat

VARIABLES
    sender,     \* who hands over the draft: "plugin" or "backend"
    draft,      \* the text, the optional root_block and the tags of the sender
    answer,     \* what became of the draft: "none", "ok", "invalid", "ended"
    event,      \* the last event that was broadcast
    request,    \* the last request that a backend was given
    first,      \* the first draft
    flat,       \* whether some sender has dropped the blocks
    kept,       \* whether every sender has handed on the tags it was given
    hops

vars == <<sender, draft, answer, event, request, first, flat, kept, hops>>

Message(text, block, tags) == [text |-> text, block |-> block, tags |-> tags]

Init ==
    /\ sender \in {"plugin", "backend"}
    /\ \E t \in Texts, tags \in Taggings : \/ draft = Message(t, <<>>, tags)
                                           \/ \E b \in Trees : draft = Message(t, <<b>>, tags)
    /\ answer = "none"
    /\ event = Nothing /\ request = Nothing
    /\ first = draft
    /\ flat = (draft.block = <<>>)
    /\ kept = TRUE
    /\ hops = 0

-----------------------------------------------------------------------------
(* normalize_block *)

IsBlock(m) == m.block # <<>>

\* A message without blocks is one of a text block.
RootOf(m) == IF IsBlock(m) THEN m.block[1] ELSE Block("text", m.text, <<>>)

Additional(m) == [k \in {OriginalFormat} |-> IF IsBlock(m) THEN "blocks" ELSE "text"]

\* Faulty variant of Extended: the other way round, the sender's tags come last.
ExtendedBySender(m) ==
    [k \in DOMAIN m.tags \cup {OriginalFormat} |->
        IF k \in DOMAIN m.tags THEN m.tags[k] ELSE Additional(m)[k]]

\* let mut tags = req.tags; tags.extend(additional_tags)
Extended(m) ==
    [k \in DOMAIN m.tags \cup {OriginalFormat} |->
        IF k = OriginalFormat THEN Additional(m)[k] ELSE m.tags[k]]

\* Faulty variant of Passed: the text of the sender stays.
PassedWithText(m) ==
    LET root == Normalized(RootOf(m))
    IN  Message(IF m.text = <<>> THEN root.plain ELSE m.text, <<root>>, Extended(m))

\* What the server makes of message m.
Passed(m) ==
    LET root == Normalized(RootOf(m))
    IN  Message(root.plain, <<root>>, Extended(m))

-----------------------------------------------------------------------------
(* The server *)

\* send_message, send_private_message, perform_action, perform_private_action
HandleRpc ==
    /\ sender = "plugin" /\ answer = "none"
    /\ \/ /\ Broken(RootOf(draft))
          /\ answer' = "invalid"
          /\ UNCHANGED <<event, request>>
       \/ /\ ~Broken(RootOf(draft))
          /\ answer' = "ok"
          /\ event' = Passed(draft)
          /\ request' = Passed(draft)
    /\ UNCHANGED <<sender, draft, first, flat, kept, hops>>

\* handle_event, of a message, action or mention.  An error ends the stream.
HandleEvent ==
    /\ sender = "backend" /\ answer = "none"
    /\ \/ /\ Broken(RootOf(draft))
          /\ answer' = "ended"
          /\ UNCHANGED <<event, request>>
       \/ /\ ~Broken(RootOf(draft))
          /\ answer' = "ok"
          /\ event' = Passed(draft)
          /\ UNCHANGED request
    /\ UNCHANGED <<sender, draft, first, flat, kept, hops>>

-----------------------------------------------------------------------------
(* The others *)

\* Who hands m on keeps its blocks, with the plain texts in them or with others
\* and beside any text, or keeps its text only; and its tags or others.
HandOn(m) ==
    /\ answer = "ok" /\ hops < MaxHops
    /\ \E tags \in {m.tags} \cup Taggings :
          /\ \/ /\ draft' = Message(m.text, <<>>, tags)
                /\ flat' = TRUE
             \/ /\ \E t \in Texts, b \in {m.block[1]} \cup {Relabelled(m.block[1], p) : p \in Texts} :
                      draft' = Message(t, <<b>>, tags)
                /\ UNCHANGED flat
          /\ kept' = (kept /\ tags = m.tags)
    /\ answer' = "none"
    /\ hops' = hops + 1
    /\ UNCHANGED <<event, request, first>>

BackendReports == request # Nothing /\ sender' = "backend" /\ HandOn(request)
PluginRelays   == event # Nothing /\ sender' = "plugin" /\ HandOn(event)

Next == HandleRpc \/ HandleEvent \/ BackendReports \/ PluginRelays

Spec == Init /\ [][Next]_vars

-----------------------------------------------------------------------------
(* Properties *)

PassedOn == {event, request} \ {Nothing}

\* Who reads the text of what the server passes on and who reads its blocks
\* read the same, at every level of the tree, whatever the sender wrote.
ReadersAgree ==
    \A m \in PassedOn : Agrees(m.block[1]) /\ m.text = m.block[1].plain

\* No hop changes what the message says: its text stays what the first sender
\* meant, and its blocks stay as they were until a sender drops them.
MessageSurvives ==
    \A m \in PassedOn :
        /\ m.text = Reading[RootOf(first)]
        /\ ~flat => Shape(m.block[1]) = Shape(RootOf(first))

\* A tree that lacks something, however deep, is refused as a whole: it is
\* neither broadcast nor given to a backend.
BrokenIsRefused ==
    /\ \A m \in PassedOn : Complete(m.block[1])
    /\ answer \in {"invalid", "ended"} <=> answer # "none" /\ ~Complete(RootOf(draft))

\* The tags but the one of the server.
Others(tags) == [k \in DOMAIN tags \ {OriginalFormat} |-> tags[k]]

\* Who reads the tags can rely on them, over all hops: "core/original-format" is
\* there and says "blocks" of a message that no sender has flattened and "text"
\* of no message but one of a single text block, whatever senders put under that
\* key; and no other tag is lost, changed or added between the first sender and
\* the last reader unless a sender did that.
TagsTell ==
    \A m \in PassedOn :
        /\ OriginalFormat \in DOMAIN m.tags
        /\ m.tags[OriginalFormat] \in {"blocks"} \cup (IF flat THEN {"text"} ELSE {})
        /\ m.tags[OriginalFormat] = "text" => m.block[1].kind = "text"
        /\ kept => Others(m.tags) = Others(first.tags)
=============================================================================
