------------------------------- MODULE Blocks -------------------------------
(***************************************************************************)
(* The blocks of a message and normalize_block (src/utils.rs), which fills *)
(* in the plain text of every block in a tree from what is inside it.      *)
(*                                                                         *)
(* A block is a record: its kind, the text it has itself (the seconds of a *)
(* timestamp, the url of a link), the blocks inside it and its plain text. *)
(* An optional inner block is a sequence of at most one; a block without   *)
(* the inner field is of kind "unknown".  Texts are sequences of words.    *)
(***************************************************************************)
EXTENDS Naturals, Sequences, SequencesExt

CONSTANTS
    Word,       \* what texts are made of
    MaxDepth    \* how deep prost decodes messages in messages

ASSUME BlocksAssumption ==
    /\ {"0", ", ", " (", ")"} \subseteq Word
    /\ MaxDepth \in Nat \ {0}

Leaves   == {"text", "inline_code", "fenced_code", "timestamp"}
Wrappers == {"italics", "bold", "underline", "strikethrough", "spoiler",
             "blockquote", "heading", "link"}
Lists    == {"list", "container"}

Text == Seq(Word)

\* A block over blocks of S.
BlockOver(S) ==
    {b \in [kind : Leaves \cup Wrappers \cup Lists \cup {"unknown"}, text : Text,
            inner : Seq(S), plain : Text] :
        /\ b.kind \in Wrappers => Len(b.inner) <= 1
        /\ b.kind \in Leaves \cup {"unknown"} => b.inner = <<>>}

Tree[depth \in Nat] == IF depth = 0 THEN {} ELSE BlockOver(Tree[depth-1])

AnyBlock == Tree[MaxDepth]

Block(kind, text, inner) == [kind |-> kind, text |-> text, inner |-> inner, plain |-> <<>>]

\* render_inner_block: what a block reads like, given the plain text inside it.
Rendered(b) ==
    LET parts == [i \in DOMAIN b.inner |-> b.inner[i].plain]
    IN  CASE b.kind = "timestamp" -> IF b.text = <<>> THEN <<"0">> ELSE b.text
          [] b.kind \in Leaves \ {"timestamp"} -> b.text
          [] b.kind = "list" -> FlattenSeq([i \in DOMAIN parts |->
                IF i = 1 THEN parts[i] ELSE <<", ">> \o parts[i]])
          [] b.kind = "link" -> FlattenSeq(parts) \o <<" (">> \o b.text \o <<")">>
          [] OTHER -> FlattenSeq(parts)

\* Faulty variant of Broken: what is inside a list or container goes unchecked.
BrokenOutside(b) ==
    LET broken[c \in AnyBlock] ==
            \/ c.kind = "unknown"
            \/ c.kind \in Wrappers /\ c.inner = <<>>
            \/ c.kind \in Wrappers /\ \E i \in DOMAIN c.inner : broken[c.inner[i]]
    IN  broken[b]

\* Somewhere the inner field is missing, of a block or of what wraps a block.
Broken(b) ==
    LET broken[c \in AnyBlock] ==
            \/ c.kind = "unknown"
            \/ c.kind \in Wrappers /\ c.inner = <<>>
            \/ \E i \in DOMAIN c.inner : broken[c.inner[i]]
    IN  broken[b]

\* Every plain text in a tree replaced, from the inside out, by what label gives
\* for the block with the new texts inside it.
Relabelling(label) ==
    LET new[b \in AnyBlock] ==
            LET inside == [b EXCEPT !.inner = [i \in DOMAIN b.inner |-> new[b.inner[i]]]]
            IN  [inside EXCEPT !.plain = label[inside]]
    IN  new

\* Faulty variant of Normalized: a block is rendered before what is inside it.
NormalizedOutsideIn(b) ==
    LET new[c \in AnyBlock] ==
            [c EXCEPT !.plain = Rendered(c),
                      !.inner = [i \in DOMAIN c.inner |-> new[c.inner[i]]]]
    IN  new[b]

\* normalize_block_inner, of a block that is not broken.
Normalized(b) == Relabelling([c \in AnyBlock |-> Rendered(c)])[b]

-----------------------------------------------------------------------------
(* The reference: what a tree reads like, whatever plain texts are in it. *)

Reading[b \in AnyBlock] ==
    LET Joined(sep) == FlattenSeq([i \in DOMAIN b.inner |->
                           (IF i = 1 THEN <<>> ELSE sep) \o Reading[b.inner[i]]])
    IN  CASE b.kind \in Leaves -> IF b.kind = "timestamp" /\ b.text = <<>> THEN <<"0">> ELSE b.text
          [] b.kind = "list"   -> Joined(<<", ">>)
          [] b.kind = "link"   -> Joined(<<>>) \o <<" (">> \o b.text \o <<")">>
          [] OTHER             -> Joined(<<>>)

\* A block and what is inside it, however deep.
Parts[b \in AnyBlock] == {b} \cup UNION {Parts[b.inner[i]] : i \in DOMAIN b.inner}

\* Every block in the tree is there, with what it wraps.
Complete(b) ==
    \A c \in Parts[b] : /\ c.kind \in Leaves \cup Wrappers \cup Lists
                        /\ c.kind \in Wrappers => Len(c.inner) = 1

\* Every plain text in the tree is what its block reads like.
Agrees(b) == \A c \in Parts[b] : c.plain = Reading[c]

\* The tree with p for every plain text; the shape of the tree is that with none.
Relabelled(b, p) == Relabelling([c \in AnyBlock |-> p])[b]

Shape(b) == Relabelled(b, <<>>)
=============================================================================
