-------------------------------- MODULE Ids --------------------------------
(***************************************************************************)
(* How seabird-core writes and reads the ids of backends, channels and     *)
(* users (src/id.rs).  A string is the sequence of the bytes of its UTF-8  *)
(* form.  The parts of an id are percent-encoded where they are written    *)
(* and decoded where they are read.                                        *)
(***************************************************************************)
EXTENDS Integers, Sequences, SequencesExt

CONSTANT Invalid    \* what a text that is no id parses to

Byte == 0..255

Percent == 37
Slash   == 47
Scheme  == <<58, 47, 47>>    \* "://"

Digit == 48..57
Alphanumeric == Digit \cup (65..90) \cup (97..122)

-----------------------------------------------------------------------------
(* percent_encode with NON_ALPHANUMERIC, percent_decode and decode_utf8 *)

HexOf(n) == IF n < 10 THEN 48 + n ELSE 55 + n

\* Either case is read, upper case is written.
HexValue == [c \in Digit \cup (65..70) \cup (97..102) |->
    CASE c \in Digit -> c - 48 [] c \in 65..70 -> c - 55 [] OTHER -> c - 87]

EncodeByte(b) ==
    IF b \in Alphanumeric THEN <<b>> ELSE <<Percent, HexOf(b \div 16), HexOf(b % 16)>>

\* Faulty variant of Encode: a slash is left as it is.
EncodeButSlash(s) ==
    FlattenSeq([i \in 1..Len(s) |-> IF s[i] = Slash THEN <<Slash>> ELSE EncodeByte(s[i])])

Encode(s) == FlattenSeq([i \in 1..Len(s) |-> EncodeByte(s[i])])

\* A percent sign that no two hex digits follow stands for itself.
Decode[s \in Seq(Byte)] ==
    CASE s = <<>> -> <<>>
      [] Len(s) > 2 /\ s[1] = Percent /\ {s[2], s[3]} \subseteq DOMAIN HexValue ->
            <<16 * HexValue[s[2]] + HexValue[s[3]]>> \o Decode[SubSeq(s, 4, Len(s))]
      [] OTHER -> <<Head(s)>> \o Decode[Tail(s)]

\* How many bytes the character that starts with byte b has.
Width(b) == CASE b < 128 -> 1 [] b \in 194..223 -> 2 [] b \in 224..239 -> 3
              [] b \in 240..244 -> 4 [] OTHER -> 0

\* The ranges of the second byte that rule out overlong forms, surrogates and
\* what is above U+10FFFF.
Second(b) == CASE b = 224 -> 160..191 [] b = 237 -> 128..159
               [] b = 240 -> 144..191 [] b = 244 -> 128..143 [] OTHER -> 128..191

IsUtf8[s \in Seq(Byte)] ==
    s = <<>> \/ LET w == Width(s[1]) IN
        /\ w \in 1..Len(s)
        /\ w > 1 => s[2] \in Second(s[1])
        /\ \A i \in 3..w : s[i] \in 128..191
        /\ IsUtf8[SubSeq(s, w + 1, Len(s))]

-----------------------------------------------------------------------------
(* Display *)

BackendText(b) == Encode(b.scheme) \o Scheme \o Encode(b.id)

\* Faulty variant of FullText: nothing is written for an empty path.
FullTextShort(b, path) ==
    BackendText(b) \o (IF path = <<>> THEN <<>> ELSE <<Slash>> \o Encode(path))

FullText(b, path) == BackendText(b) \o <<Slash>> \o Encode(path)

-----------------------------------------------------------------------------
(* FromStr *)

\* Where sep first occurs in s: one position or none.
Found(s, sep) ==
    {i \in 1..Len(s) : /\ IsPrefix(sep, SubSeq(s, i, Len(s)))
                       /\ \A j \in 1..i-1 : ~IsPrefix(sep, SubSeq(s, j, Len(s)))}

Before(s, i) == SubSeq(s, 1, i - 1)
After(s, i, sep) == SubSeq(s, i + Len(sep), Len(s))

\* Faulty variant of AllUtf8: a lossy decoder takes anything.
AllDecoded(parts) == TRUE

\* The parts are decoded, and each must be UTF-8.
AllUtf8(parts) == \A p \in parts : IsUtf8[Decode[p]]

ParseBackend(t) ==
    IF Found(t, Scheme) = {} THEN Invalid
    ELSE LET i == CHOOSE i \in Found(t, Scheme) : TRUE
             scheme == Before(t, i)
             id == After(t, i, Scheme)
         IN  IF AllUtf8({scheme, id}) THEN [scheme |-> Decode[scheme], id |-> Decode[id]]
             ELSE Invalid

ParseFull(t) ==
    IF Found(t, Scheme) = {} THEN Invalid
    ELSE LET i == CHOOSE i \in Found(t, Scheme) : TRUE
             scheme == Before(t, i)
             rest == After(t, i, Scheme)
         IN  IF Found(rest, <<Slash>>) = {} THEN Invalid
             ELSE LET j == CHOOSE j \in Found(rest, <<Slash>>) : TRUE
                      id == Before(rest, j)
                      path == After(rest, j, <<Slash>>)
                  IN  IF AllUtf8({scheme, id, path})
                      THEN [backend |-> [scheme |-> Decode[scheme], id |-> Decode[id]],
                            path |-> Decode[path]]
                      ELSE Invalid
=============================================================================
