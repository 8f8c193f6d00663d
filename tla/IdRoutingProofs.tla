-------------------------- MODULE IdRoutingProofs --------------------------
(***************************************************************************)
(* Ids lead back to where they came from, whatever bytes the names that    *)
(* backends choose are made of.                                            *)
(***************************************************************************)
EXTENDS IdRouting, Recursion

-----------------------------------------------------------------------------
(* Recursion over texts *)

Length == [s \in Text |-> Len(s)]

LEMMA TextLength ==
    /\ Length \in [Text -> Nat]
    /\ \A s \in Text : Length[s] = Len(s)
BY DEF Length, Text

\* (Names that the provers can match.)
Joins(s, t, u) == (s \o t) \o u = s \o (t \o u)
JoinsAll(s, t, u, v, w) == (((s \o t) \o u) \o v) \o w = s \o (t \o (u \o (v \o w)))

LEMMA JoinThree ==
    ASSUME NEW s \in Text, NEW t \in Text, NEW u \in Text
    PROVE  Joins(s, t, u)
<1>1. s \in Seq(Byte) /\ t \in Seq(Byte) /\ u \in Seq(Byte)
  BY DEF Text
<1> QED  BY <1>1, ConcatAssociative DEF Joins

LEMMA JoinFive ==
    ASSUME NEW s \in Text, NEW t \in Text, NEW u \in Text, NEW v \in Text, NEW w \in Text
    PROVE  JoinsAll(s, t, u, v, w)
<1>1. s \o t \in Text /\ v \o w \in Text /\ t \o u \in Text
  BY ConcatProperties DEF Text
<1>2. u \o (v \o w) \in Text /\ (s \o t) \o u \in Text
  BY <1>1, ConcatProperties DEF Text
<1>3. Joins((s \o t) \o u, v, w) /\ Joins(s \o t, u, v \o w) /\ Joins(s, t, u \o (v \o w))
  BY <1>1, <1>2, JoinThree
<1> QED  BY <1>3 DEF Joins, JoinsAll

\* What is left of a text behind its first n bytes.
LEMMA Behind ==
    ASSUME NEW s \in Text, NEW n \in 1..Len(s)
    PROVE  /\ SubSeq(s, n + 1, Len(s)) \in Text
           /\ Len(SubSeq(s, n + 1, Len(s))) = Len(s) - n
           /\ \A i \in 1..Len(s) - n : SubSeq(s, n + 1, Len(s))[i] = s[n + i]
<1>1. Len(s) \in Nat /\ \A i \in n + 1 .. Len(s) : s[i] \in Byte
  BY DEF Text
<1>2. /\ SubSeq(s, n + 1, Len(s)) \in Seq(Byte)
      /\ Len(SubSeq(s, n + 1, Len(s))) = IF n + 1 <= Len(s) THEN Len(s) - (n + 1) + 1 ELSE 0
      /\ \A i \in 1 .. Len(s) - (n + 1) + 1 : SubSeq(s, n + 1, Len(s))[i] = s[(n + 1) + i - 1]
  BY <1>1, SubSeqProperties
<1>3. (IF n + 1 <= Len(s) THEN Len(s) - (n + 1) + 1 ELSE 0) = Len(s) - n
  BY <1>1
<1>4. \A i \in 1..Len(s) - n : /\ i \in 1 .. Len(s) - (n + 1) + 1
                               /\ (n + 1) + i - 1 = n + i
  BY <1>1
<1> QED  BY <1>2, <1>3, <1>4 DEF Text

\* An escape begins the text.
Escaped(s) == Len(s) > 2 /\ s[1] = Percent /\ {s[2], s[3]} \subseteq DOMAIN HexValue

Unescaped(s) == 16 * HexValue[s[2]] + HexValue[s[3]]

LEMMA UnescapedIsByte ==
    ASSUME NEW s \in Text, Escaped(s)
    PROVE  Unescaped(s) \in Byte
<1>1. \A c \in DOMAIN HexValue : HexValue[c] \in 0..15
  <2> SUFFICES ASSUME NEW c \in DOMAIN HexValue PROVE HexValue[c] \in 0..15
    OBVIOUS
  <2>1. c \in Digit \cup (65..70) \cup (97..102)
    BY DEF HexValue
  <2>2. HexValue[c] = CASE c \in Digit -> c - 48 [] c \in 65..70 -> c - 55 [] OTHER -> c - 87
    BY <2>1 DEF HexValue
  <2>3. CASE c \in Digit
    BY <2>2, <2>3 DEF Digit
  <2>4. CASE c \in 65..70
    BY <2>2, <2>4 DEF Digit
  <2>5. CASE c \in 97..102
    BY <2>2, <2>5 DEF Digit
  <2> QED  BY <2>1, <2>3, <2>4, <2>5
<1>2. PICK a \in 0..15, b \in 0..15 : Unescaped(s) = 16 * a + b
  BY <1>1 DEF Escaped, Unescaped
<1> QED  BY <1>2 DEF Byte

Decoded(s, f) ==
    CASE s = <<>> -> <<>>
      [] Escaped(s) -> <<Unescaped(s)>> \o f[SubSeq(s, 4, Len(s))]
      [] OTHER -> <<Head(s)>> \o f[Tail(s)]

\* The first byte that s is decoded to, and what is left then.
FirstByte(s) == IF Escaped(s) THEN Unescaped(s) ELSE Head(s)
Rest(s) == IF Escaped(s) THEN SubSeq(s, 4, Len(s)) ELSE Tail(s)

LEMMA RestIsShorter ==
    ASSUME NEW s \in Text, s # <<>>
    PROVE  FirstByte(s) \in Byte /\ Rest(s) \in Text /\ Len(Rest(s)) < Len(s)
<1>1. CASE Escaped(s)
  <2>1. 3 \in 1..Len(s) /\ 3 + 1 = 4 /\ Len(s) - 3 < Len(s)
    BY <1>1, LenProperties DEF Escaped, Text
  <2>2. SubSeq(s, 4, Len(s)) \in Text /\ Len(SubSeq(s, 4, Len(s))) < Len(s)
    BY <2>1, Behind
  <2> QED  BY <1>1, <2>2, UnescapedIsByte DEF FirstByte, Rest
<1>2. CASE ~Escaped(s)
  <2>1. Head(s) \in Byte /\ Tail(s) \in Text /\ Len(Tail(s)) < Len(s)
    BY FirstAndRest DEF Text
  <2> QED  BY <1>2, <2>1 DEF FirstByte, Rest
<1> QED  BY <1>1, <1>2

LEMMA DecodedIs ==
    ASSUME NEW s \in Text, NEW f
    PROVE  Decoded(s, f) = IF s = <<>> THEN <<>> ELSE <<FirstByte(s)>> \o f[Rest(s)]
<1>1. s = <<>> => ~Escaped(s)
  BY DEF Escaped
<1> QED  BY <1>1 DEF Decoded, FirstByte, Rest

LEMMA DecodedIsText ==
    ASSUME NEW s \in Text, NEW f, \A u \in Text : Len(u) < Len(s) => f[u] \in Text
    PROVE  Decoded(s, f) \in Text
<1>1. CASE s = <<>>
  BY <1>1, DecodedIs DEF Text
<1>2. CASE s # <<>>
  <2>1. PICK b \in Byte, t \in Text : Decoded(s, f) = <<b>> \o t
    BY <1>2, DecodedIs, RestIsShorter
  <2> QED  BY <2>1, FirstOfMore DEF Text
<1> QED  BY <1>1, <1>2

\* Decode is defined for every text.
LEMMA DecodeIs ==
    /\ \A s \in Text : Decode[s] \in Text
    /\ \A s \in Text : Decode[s] = Decoded(s, Decode)
<1> DEFINE step == [p \in Text \X [Text -> Text] |-> Decoded(p[1], p[2])]
<1>1. step \in [Text \X [Text -> Text] -> Text]
  <2>1. \A s \in Text : \A f \in [Text -> Text] : Decoded(s, f) \in Text
    BY DecodedIsText
  <2> QED  BY <2>1
<1>2. \A s \in Text : \A f \in [Text -> Text] : step[<<s, f>>] = Decoded(s, f)
  OBVIOUS
<1>3. \A s \in Text : \A f, g \in [Text -> Text] :
         (\A u \in Text : Length[u] < Length[s] => f[u] = g[u]) => step[<<s, f>>] = step[<<s, g>>]
  <2> SUFFICES ASSUME NEW s \in Text, NEW f \in [Text -> Text], NEW g \in [Text -> Text],
                      \A u \in Text : Length[u] < Length[s] => f[u] = g[u]
               PROVE  Decoded(s, f) = Decoded(s, g)
    BY <1>2
  <2>1. CASE s = <<>>
    BY <2>1, DecodedIs
  <2>2. CASE s # <<>>
    <3>1. f[Rest(s)] = g[Rest(s)]
      BY <2>2, TextLength, RestIsShorter
    <3> QED  BY <3>1, DecodedIs
  <2> QED  BY <2>1, <2>2
<1>4. Text # {}
  BY EmptySeq DEF Text
<1> HIDE DEF step
<1>5. IsRecursive(step, Text, Text, Length)
  BY <1>1, <1>3, <1>4, TextLength DEF IsRecursive
<1>6. PICK f \in [Text -> Text] : \A s \in Text : f[s] = step[<<s, f>>]
  BY <1>5, RankRecursion
<1>7. f = [s \in Text |-> Decoded(s, f)]
  BY <1>2, <1>6
<1>8. Decode = CHOOSE d : d = [s \in Text |-> Decoded(s, d)]
  BY DEF Decode, Decoded, Escaped, Unescaped, Text
<1>9. Decode = [s \in Text |-> Decoded(s, Decode)]
  BY <1>7, <1>8
<1>10. \A s \in Text : Decode[s] = Decoded(s, Decode)
  BY <1>9
<1> DEFINE T == {s \in Text : Decode[s] \in Text}
<1>11. IsInductive(T, Text, Length)
  <2> SUFFICES ASSUME NEW s \in Text, \A u \in Text : Length[u] < Length[s] => u \in T
               PROVE  Decode[s] \in Text
    BY TextLength DEF IsInductive
  <2> QED  BY <1>10, TextLength, DecodedIsText
<1> HIDE DEF T
<1>12. \A s \in Text : s \in T
  BY <1>11, RankInduction
<1> QED  BY <1>10, <1>12 DEF T

\* s starts with a whole character.
StartsWell(s) ==
    /\ Width(s[1]) \in 1..Len(s)
    /\ Width(s[1]) > 1 => s[2] \in Second(s[1])
    /\ \A i \in 3..Width(s[1]) : s[i] \in 128..191

RestOfUtf8(s) == SubSeq(s, Width(s[1]) + 1, Len(s))

Utf8(s, f) == s = <<>> \/ (StartsWell(s) /\ f[RestOfUtf8(s)])

LEMMA Utf8RestIsShorter ==
    ASSUME NEW s \in Text, StartsWell(s)
    PROVE  RestOfUtf8(s) \in Text /\ Len(RestOfUtf8(s)) < Len(s)
<1>1. PICK w \in 1..Len(s) : w = Width(s[1])
  BY DEF StartsWell
<1>2. RestOfUtf8(s) = SubSeq(s, w + 1, Len(s)) /\ Len(s) \in Nat /\ Len(s) - w < Len(s)
  BY <1>1, LenProperties DEF RestOfUtf8, Text
<1> QED  BY <1>2, Behind

\* IsUtf8 is defined for every text.
LEMMA Utf8Is == \A s \in Text : IsUtf8[s] = Utf8(s, IsUtf8)
<1> DEFINE step == [p \in Text \X [Text -> BOOLEAN] |-> Utf8(p[1], p[2])]
<1>1. step \in [Text \X [Text -> BOOLEAN] -> BOOLEAN]
  <2>1. \A s \in Text : \A f \in [Text -> BOOLEAN] : Utf8(s, f) \in BOOLEAN
    BY DEF Utf8
  <2> QED  BY <2>1
<1>2. \A s \in Text : \A f \in [Text -> BOOLEAN] : step[<<s, f>>] = Utf8(s, f)
  OBVIOUS
<1>3. \A s \in Text : \A f, g \in [Text -> BOOLEAN] :
         (\A u \in Text : Length[u] < Length[s] => f[u] = g[u]) => step[<<s, f>>] = step[<<s, g>>]
  <2> SUFFICES ASSUME NEW s \in Text, NEW f \in [Text -> BOOLEAN], NEW g \in [Text -> BOOLEAN],
                      \A u \in Text : Length[u] < Length[s] => f[u] = g[u]
               PROVE  Utf8(s, f) = Utf8(s, g)
    BY <1>2
  <2>1. CASE ~StartsWell(s)
    BY <2>1 DEF Utf8
  <2>2. CASE StartsWell(s)
    <3>1. f[RestOfUtf8(s)] = g[RestOfUtf8(s)]
      BY <2>2, TextLength, Utf8RestIsShorter
    <3> QED  BY <3>1 DEF Utf8
  <2> QED  BY <2>1, <2>2
<1> HIDE DEF step
<1>4. Text # {}
  BY EmptySeq DEF Text
<1>5. IsRecursive(step, Text, BOOLEAN, Length)
  BY <1>1, <1>3, TextLength DEF IsRecursive
<1>6. PICK f \in [Text -> BOOLEAN] : \A s \in Text : f[s] = step[<<s, f>>]
  BY <1>5, RankRecursion
<1>7. f = [s \in Text |-> Utf8(s, f)]
  BY <1>2, <1>6
<1>8. IsUtf8 = CHOOSE d : d = [s \in Text |-> Utf8(s, d)]
  BY DEF IsUtf8, Utf8, StartsWell, RestOfUtf8, Text
<1>9. IsUtf8 = [s \in Text |-> Utf8(s, IsUtf8)]
  BY <1>7, <1>8
<1> QED  BY <1>9

-----------------------------------------------------------------------------
(* Encoding *)

\* The bytes that Encode writes: none of a separator is among them.
Plain == Alphanumeric \cup {Percent}

LEMMA PlainIs ==
    /\ Plain \subseteq Byte
    /\ Scheme[1] \notin Plain /\ Slash \notin Plain
BY DEF Plain, Alphanumeric, Digit, Percent, Byte, Scheme, Slash

LEMMA HexIs ==
    ASSUME NEW n \in 0..15
    PROVE  HexOf(n) \in Alphanumeric /\ HexOf(n) \in DOMAIN HexValue /\ HexValue[HexOf(n)] = n
<1>1. DOMAIN HexValue = Digit \cup (65..70) \cup (97..102)
  BY DEF HexValue
<1>2. CASE n < 10
  <2>1. HexOf(n) = 48 + n /\ HexOf(n) \in Digit
    BY <1>2 DEF HexOf, Digit
  <2>2. ~(HexOf(n) \in 65..70)
    BY <2>1 DEF Digit
  <2>3. HexValue[HexOf(n)] = HexOf(n) - 48
    BY <1>1, <2>1, <2>2 DEF HexValue
  <2> QED  BY <1>1, <2>1, <2>3 DEF Alphanumeric
<1>3. CASE ~(n < 10)
  <2>1. HexOf(n) = 55 + n /\ HexOf(n) \in 65..70
    BY <1>3 DEF HexOf
  <2>2. HexOf(n) \notin Digit
    BY <2>1 DEF Digit
  <2>3. HexValue[HexOf(n)] = HexOf(n) - 55
    BY <1>1, <2>1, <2>2 DEF HexValue
  <2>4. HexOf(n) \in 65..90
    BY <2>1
  <2> QED  BY <1>1, <2>1, <2>3, <2>4 DEF Alphanumeric
<1> QED  BY <1>2, <1>3

\* What is written for a byte is plain, and read as that byte whatever follows.
LEMMA EncodedByte ==
    ASSUME NEW b \in Byte, NEW t \in Text
    PROVE  /\ EncodeByte(b) \in Seq(Plain)
           /\ Decode[EncodeByte(b) \o t] = <<b>> \o Decode[t]
<1>1. CASE b \in Alphanumeric
  <2>1. EncodeByte(b) = <<b>> /\ b \in Plain /\ b # Percent
    BY <1>1 DEF EncodeByte, Plain, Alphanumeric, Digit, Percent
  <2>2. PICK s \in Text : /\ s = <<b>> \o t /\ s # <<>> /\ s[1] = b
                          /\ Head(s) = b /\ Tail(s) = t
    BY FirstOfMore DEF Text
  <2>3. ~Escaped(s)
    BY <2>1, <2>2 DEF Escaped
  <2>4. Decode[s] = <<b>> \o Decode[t]
    BY <2>2, <2>3, DecodeIs, DecodedIs DEF FirstByte, Rest
  <2> QED  BY <2>1, <2>2, <2>4, OneElement
<1>2. CASE b \notin Alphanumeric
  <2>1. PICK h \in 0..15, l \in 0..15 : h = b \div 16 /\ l = b % 16 /\ 16 * h + l = b
    BY DEF Byte
  <2>2. PICK p, q : /\ p = HexOf(h) /\ q = HexOf(l) /\ p \in Plain /\ q \in Plain
                    /\ p \in DOMAIN HexValue /\ q \in DOMAIN HexValue
                    /\ HexValue[p] = h /\ HexValue[q] = l
    BY HexIs DEF Plain
  <2>3. EncodeByte(b) = <<Percent, p, q>> /\ Percent \in Plain
    BY <1>2, <2>1, <2>2 DEF EncodeByte, Plain
  <2>4. PICK e \in Seq(Plain) : /\ e = <<Percent, p, q>> /\ Len(e) = 3
                                /\ e[1] = Percent /\ e[2] = p /\ e[3] = q
    <3>1. p \in Plain /\ q \in Plain /\ Percent \in Plain
      BY <2>2, <2>3
    <3>2. /\ <<Percent, p, q>> \in Seq(Plain) /\ Len(<<Percent, p, q>>) = 3
          /\ <<Percent, p, q>>[1] = Percent /\ <<Percent, p, q>>[2] = p /\ <<Percent, p, q>>[3] = q
      BY <3>1
    <3> QED  BY <3>2
  <2>5. e \in Text
    BY PlainIs, SeqMonotonic DEF Text
  <2>6. PICK s \in Text : /\ s = e \o t /\ Len(s) = 3 + Len(t) /\ Len(t) \in Nat
                          /\ \A i \in 1..3 + Len(t) : s[i] = IF i <= 3 THEN e[i] ELSE t[i-3]
    <3>1. e \in Seq(Byte) /\ t \in Seq(Byte)
      BY <2>5 DEF Text
    <3>2. /\ e \o t \in Seq(Byte) /\ Len(e \o t) = Len(e) + Len(t) /\ Len(t) \in Nat
          /\ \A i \in 1..Len(e) + Len(t) : (e \o t)[i] = IF i <= Len(e) THEN e[i] ELSE t[i-Len(e)]
      BY <3>1, ConcatProperties, LenProperties
    <3> QED  BY <2>4, <3>2 DEF Text
  <2>7. s[1] = Percent /\ s[2] = p /\ s[3] = q /\ Len(s) > 2
    BY <2>4, <2>6
  <2>8. Escaped(s) /\ s # <<>> /\ FirstByte(s) = b
    BY <2>1, <2>2, <2>7 DEF Escaped, FirstByte, Unescaped
  <2>9. SubSeq(s, 4, Len(s)) = t
    <3>1. 3 \in 1..Len(s) /\ 3 + 1 = 4 /\ Len(s) - 3 = Len(t)
      BY <2>6
    <3>2. PICK u \in Text : /\ u = SubSeq(s, 4, Len(s)) /\ Len(u) = Len(t)
                            /\ \A i \in 1..Len(t) : u[i] = s[3+i]
      <4>1. PICK n \in 1..Len(s) : n = 3 /\ n + 1 = 4 /\ Len(s) - n = Len(t)
        BY <3>1
      <4>2. /\ SubSeq(s, n + 1, Len(s)) \in Text /\ Len(SubSeq(s, n + 1, Len(s))) = Len(s) - n
            /\ \A i \in 1..Len(s) - n : SubSeq(s, n + 1, Len(s))[i] = s[n + i]
        BY Behind
      <4>3. PICK u \in Text : /\ u = SubSeq(s, n + 1, Len(s)) /\ Len(u) = Len(s) - n
                              /\ \A i \in 1..Len(s) - n : u[i] = s[n + i]
        BY <4>2
      <4> QED  BY <4>1, <4>3
    <3>3. \A i \in 1..Len(t) : u[i] = t[i]
      <4> TAKE i \in 1..Len(t)
      <4>1. 3 + i \in 1..3 + Len(t) /\ ~(3 + i <= 3) /\ (3 + i) - 3 = i
        BY <2>6
      <4> QED  BY <2>6, <3>2, <4>1
    <3> QED  BY <3>2, <3>3, SeqEqual DEF Text
  <2>10. Decode[s] = <<b>> \o Decode[t]
    BY <2>8, <2>9, DecodeIs, DecodedIs DEF Rest
  <2> QED  BY <2>3, <2>4, <2>6, <2>10
<1> QED  BY <1>1, <1>2

PlainText == Seq(Plain)

LEMMA PlainIsText == \A s \in PlainText : s \in Text
BY PlainIs, SeqMonotonic DEF PlainText, Text

LEMMA EncodedByteIsPlain ==
    ASSUME NEW b \in Byte
    PROVE  EncodeByte(b) \in PlainText
<1>1. <<>> \in Text
  BY EmptySeq DEF Text
<1> QED  BY <1>1, EncodedByte DEF PlainText

LEMMA EncodeEmpty == Encode(<<>>) = <<>>
<1>1. [i \in 1..Len(<<>>) |-> EncodeByte(<<>>[i])] = <<>>
  OBVIOUS
<1> QED  BY <1>1, FlattenEmpty DEF Encode

LEMMA EncodeIsPlain ==
    ASSUME NEW s \in Text
    PROVE  Encode(s) \in PlainText
<1>1. \A i \in 1..Len(s) : EncodeByte(s[i]) \in PlainText
  BY EncodedByteIsPlain, ElementOfSeq DEF Text
<1>2. [i \in 1..Len(s) |-> EncodeByte(s[i])] \in Seq(PlainText)
  BY <1>1, LenProperties DEF Text
<1> QED  BY <1>2, FlattenType DEF Encode, PlainText

LEMMA EncodeAppend ==
    ASSUME NEW s \in Text, NEW b \in Byte
    PROVE  Encode(Append(s, b)) = Encode(s) \o EncodeByte(b)
<1> DEFINE N == Len(s)
           parts == [i \in 1..N |-> EncodeByte(s[i])]
           more == [i \in 1..N+1 |-> EncodeByte(Append(s, b)[i])]
           x == EncodeByte(b)
<1>1. /\ N \in Nat /\ Len(Append(s, b)) = N + 1 /\ Append(s, b)[N+1] = b
      /\ \A i \in 1..N : Append(s, b)[i] = s[i] /\ s[i] \in Byte
  BY AppendProperties, LenProperties, ElementOfSeq DEF Text
<1>2. x \in PlainText /\ \A i \in 1..N : EncodeByte(s[i]) \in PlainText
  BY <1>1, EncodedByteIsPlain
<1>3. parts \in Seq(PlainText) /\ Len(parts) = N /\ \A i \in 1..N : parts[i] = EncodeByte(s[i])
  BY <1>1, <1>2
<1>4. more \in Seq(PlainText) /\ Len(more) = N + 1
  <2>1. \A i \in 1..N+1 : EncodeByte(Append(s, b)[i]) \in PlainText
    <3> TAKE i \in 1..N+1
    <3>1. i = N + 1 \/ i \in 1..N
      BY <1>1
    <3> QED  BY <1>1, <1>2, <3>1
  <2> QED  BY <1>1, <2>1
<1>5. more[N+1] = x /\ \A i \in 1..N : more[i] = EncodeByte(s[i])
  BY <1>1
<1>6. Encode(s) = FlattenSeq(parts) /\ Encode(Append(s, b)) = FlattenSeq(more)
  BY <1>1 DEF Encode
<1> HIDE DEF parts, more, x
<1>7. /\ Append(parts, x) \in Seq(PlainText) /\ Len(Append(parts, x)) = N + 1
      /\ Append(parts, x)[N+1] = x /\ \A i \in 1..N : Append(parts, x)[i] = parts[i]
  BY <1>2, <1>3, AppendProperties
<1>8. \A i \in 1..N+1 : Append(parts, x)[i] = more[i]
  <2> TAKE i \in 1..N+1
  <2>1. i = N + 1 \/ i \in 1..N
    BY <1>1
  <2> QED  BY <1>3, <1>5, <1>7, <2>1
<1>9. more = Append(parts, x)
  BY <1>4, <1>7, <1>8, SeqEqual
<1> QED  BY <1>2, <1>3, <1>6, <1>9, FlattenAppend DEF x, PlainText

\* What was encoded is decoded again, whatever follows.
LEMMA DecodeOfEncode ==
    ASSUME NEW s \in Text, NEW t \in Text
    PROVE  Decode[Encode(s) \o t] = s \o Decode[t]
<1> DEFINE T == {u \in Text : \A v \in Text : Decode[Encode(u) \o v] = u \o Decode[v]}
<1>1. ASSUME NEW u \in Text, \A w \in Text : Length[w] < Length[u] => w \in T, NEW v \in Text
      PROVE  Decode[Encode(u) \o v] = u \o Decode[v]
  <2>1. CASE u = <<>>
    <3>1. <<>> \o v = v /\ <<>> \o Decode[v] = Decode[v]
      BY DecodeIs, ConcatEmptySeq DEF Text
    <3> QED  BY <2>1, <3>1, EncodeEmpty
  <2>2. CASE u # <<>>
    <3>1. PICK w \in Text, b \in Byte : u = Append(w, b)
      BY <2>2, SequenceEmptyOrAppend DEF Text
    <3>2. Len(u) = Len(w) + 1 /\ Len(w) \in Nat /\ u = w \o <<b>>
      <4>1. w \in Seq(Byte)
        BY DEF Text
      <4>2. Len(Append(w, b)) = Len(w) + 1 /\ Len(w) \in Nat
        BY <4>1, AppendProperties, LenProperties
      <4>3. Append(w, b) = w \o <<b>>
        BY <4>1, AppendIsConcat
      <4> QED  BY <3>1, <4>2, <4>3
    <3>3. w \in T
      <4>1. Len(u) = Len(w) + 1 /\ Len(w) \in Nat
        BY <3>2
      <4>2. Length[w] = Len(w) /\ Length[u] = Len(u)
        BY TextLength
      <4>3. Length[w] < Length[u]
        BY <4>1, <4>2
      <4> QED  BY <1>1, <4>3
    <3>4. PICK e \in Text, x \in Text, d \in Text, o \in Text :
             e = Encode(w) /\ x = EncodeByte(b) /\ d = Decode[v] /\ o = <<b>>
      <4>1. Encode(w) \in Text /\ EncodeByte(b) \in Text
        BY EncodeIsPlain, EncodedByteIsPlain, PlainIsText
      <4>2. Decode[v] \in Text /\ <<b>> \in Text
        BY DecodeIs, OneElement DEF Text
      <4> QED  BY <4>1, <4>2
    <3>5. x \o v \in Text /\ (e \o x) \o v = e \o (x \o v) /\ (w \o o) \o d = w \o (o \o d)
      <4>1. /\ e \in Seq(Byte) /\ x \in Seq(Byte) /\ v \in Seq(Byte)
            /\ w \in Seq(Byte) /\ o \in Seq(Byte) /\ d \in Seq(Byte)
        BY DEF Text
      <4>2. x \o v \in Text
        BY <4>1, ConcatProperties DEF Text
      <4>3. Joins(e, x, v) /\ Joins(w, o, d)
        BY <3>2, <3>4, JoinThree
      <4> QED  BY <4>2, <4>3 DEF Joins
    <3>6. Decode[x \o v] = o \o d
      BY <3>4, EncodedByte
    <3>7. Decode[e \o (x \o v)] = w \o Decode[x \o v]
      BY <3>3, <3>4, <3>5
    <3>8. Encode(u) = e \o x
      BY <3>1, <3>4, EncodeAppend
    <3> QED  BY <3>2, <3>4, <3>5, <3>6, <3>7, <3>8
  <2> QED  BY <2>1, <2>2
<1>2. IsInductive(T, Text, Length)
  BY <1>1, TextLength DEF IsInductive
<1> HIDE DEF T
<1>3. \A u \in Text : u \in T
  BY <1>2, RankInduction
<1> QED  BY <1>3 DEF T

-----------------------------------------------------------------------------
(* Taking texts apart *)

LEMMA JoinText ==
    ASSUME NEW s \in Text, NEW t \in Text
    PROVE  /\ s \o t \in Text /\ Len(s) \in Nat /\ Len(t) \in Nat
           /\ Len(s \o t) = Len(s) + Len(t)
           /\ \A i \in 1..Len(s) : (s \o t)[i] = s[i]
           /\ \A i \in 1..Len(t) : (s \o t)[Len(s) + i] = t[i]
<1>1. s \in Seq(Byte) /\ t \in Seq(Byte)
  BY DEF Text
<1>2. Len(s) \in Nat /\ Len(t) \in Nat
  BY <1>1, LenProperties
<1>3. /\ s \o t \in Seq(Byte) /\ Len(s \o t) = Len(s) + Len(t)
      /\ \A i \in 1..Len(s) + Len(t) : (s \o t)[i] = IF i <= Len(s) THEN s[i] ELSE t[i-Len(s)]
  BY <1>1, ConcatProperties
<1>4. \A i \in 1..Len(s) : i \in 1..Len(s) + Len(t) /\ i <= Len(s)
  BY <1>2
<1>5. \A i \in 1..Len(t) : /\ Len(s) + i \in 1..Len(s) + Len(t)
                           /\ ~(Len(s) + i <= Len(s)) /\ (Len(s) + i) - Len(s) = i
  BY <1>2
<1> QED  BY <1>2, <1>3, <1>4, <1>5 DEF Text

\* What is left of two texts behind n bytes of the first.
LEMMA BehindJoin ==
    ASSUME NEW s \in Text, NEW t \in Text, NEW n \in 1..Len(s)
    PROVE  SubSeq(s \o t, n + 1, Len(s \o t)) = SubSeq(s, n + 1, Len(s)) \o t
<1>1. PICK x \in Text : /\ x = s \o t /\ Len(x) = Len(s) + Len(t)
                        /\ Len(s) \in Nat /\ Len(t) \in Nat
                        /\ \A i \in 1..Len(s) : x[i] = s[i]
                        /\ \A i \in 1..Len(t) : x[Len(s) + i] = t[i]
  BY JoinText
<1>2. n \in 1..Len(x)
  BY <1>1
<1>3. PICK l \in Text : /\ l = SubSeq(x, n + 1, Len(x)) /\ Len(l) = Len(x) - n
                        /\ \A i \in 1..Len(x) - n : l[i] = x[n + i]
  BY <1>2, Behind
<1>4. PICK u \in Text : /\ u = SubSeq(s, n + 1, Len(s)) /\ Len(u) = Len(s) - n
                        /\ \A i \in 1..Len(s) - n : u[i] = s[n + i]
  BY Behind
<1>5. PICK r \in Text : /\ r = u \o t /\ Len(r) = Len(u) + Len(t)
                        /\ \A i \in 1..Len(u) : r[i] = u[i]
                        /\ \A i \in 1..Len(t) : r[Len(u) + i] = t[i]
  BY JoinText
<1>6. Len(l) = Len(r)
  BY <1>1, <1>3, <1>4, <1>5
<1>7. \A i \in 1..Len(l) : l[i] = r[i]
  <2> TAKE i \in 1..Len(l)
  <2>1. CASE i <= Len(u)
    <3>1. i \in 1..Len(u) /\ i \in 1..Len(x) - n /\ i \in 1..Len(s) - n /\ n + i \in 1..Len(s)
      BY <1>1, <1>3, <1>4, <2>1
    <3> QED  BY <1>1, <1>3, <1>4, <1>5, <3>1
  <2>2. CASE ~(i <= Len(u))
    <3>1. PICK m \in 1..Len(t) : i = Len(u) + m /\ n + i = Len(s) + m
      BY <1>1, <1>3, <1>4, <2>2
    <3>2. i \in 1..Len(x) - n
      BY <1>3
    <3>3. l[i] = x[Len(s) + m] /\ r[i] = t[m]
      BY <1>3, <1>5, <3>1, <3>2
    <3> QED  BY <1>1, <3>3
  <2> QED  BY <2>1, <2>2
<1>8. l = r
  BY <1>6, <1>7, SeqEqual DEF Text
<1> QED  BY <1>1, <1>3, <1>4, <1>5, <1>8

\* Two texts are found again in the two together.
LEMMA SplitJoin ==
    ASSUME NEW s \in Text, NEW t \in Text
    PROVE  /\ SubSeq(s \o t, 1, Len(s)) = s
           /\ SubSeq(s \o t, Len(s) + 1, Len(s \o t)) = t
<1>1. PICK x \in Text : /\ x = s \o t /\ Len(x) = Len(s) + Len(t)
                        /\ Len(s) \in Nat /\ Len(t) \in Nat
                        /\ \A i \in 1..Len(s) : x[i] = s[i]
                        /\ \A i \in 1..Len(t) : x[Len(s) + i] = t[i]
  BY JoinText
<1>2. s \in Seq(Byte) /\ t \in Seq(Byte) /\ \A i \in 1..Len(x) : x[i] \in Byte
  BY DEF Text
<1>3. SubSeq(x, 1, Len(s)) = s
  <2>1. \A i \in 1..Len(s) : x[i] \in Byte
    BY <1>1, <1>2
  <2>2. PICK l : l = SubSeq(x, 1, Len(s))
    OBVIOUS
  <2>3. /\ l \in Seq(Byte) /\ Len(l) = IF 1 <= Len(s) THEN Len(s) - 1 + 1 ELSE 0
        /\ \A i \in 1..Len(s) - 1 + 1 : l[i] = x[1 + i - 1]
    BY <1>1, <2>1, <2>2, SubSeqProperties
  <2>4. Len(l) = Len(s) /\ \A i \in 1..Len(s) : l[i] = s[i]
    BY <1>1, <2>3
  <2> QED  BY <1>2, <2>2, <2>3, <2>4, SeqEqual
<1>4. SubSeq(x, Len(s) + 1, Len(x)) = t
  <2>1. \A i \in Len(s) + 1 .. Len(x) : x[i] \in Byte
    BY <1>1, <1>2
  <2>2. PICK l : l = SubSeq(x, Len(s) + 1, Len(x))
    OBVIOUS
  <2>3. /\ l \in Seq(Byte)
        /\ Len(l) = IF Len(s) + 1 <= Len(x) THEN Len(x) - (Len(s) + 1) + 1 ELSE 0
        /\ \A i \in 1..Len(x) - (Len(s) + 1) + 1 : l[i] = x[(Len(s) + 1) + i - 1]
    BY <1>1, <2>1, <2>2, SubSeqProperties
  <2>4. Len(l) = Len(t)
    BY <1>1, <2>3
  <2>5. \A i \in 1..Len(t) : l[i] = t[i]
    <3> TAKE i \in 1..Len(t)
    <3>1. i \in 1..Len(x) - (Len(s) + 1) + 1 /\ (Len(s) + 1) + i - 1 = Len(s) + i
      BY <1>1
    <3> QED  BY <1>1, <2>3, <3>1
  <2> QED  BY <1>2, <2>2, <2>3, <2>4, <2>5, SeqEqual
<1> QED  BY <1>1, <1>3, <1>4

\* Two texts in UTF-8 together are in UTF-8.
LEMMA Utf8Join ==
    ASSUME NEW s \in Text, NEW t \in Text, IsUtf8[s], IsUtf8[t]
    PROVE  IsUtf8[s \o t]
<1> DEFINE T == {u \in Text : IsUtf8[u] => IsUtf8[u \o t]}
<1>1. ASSUME NEW u \in Text, \A v \in Text : Length[v] < Length[u] => v \in T, IsUtf8[u]
      PROVE  IsUtf8[u \o t]
  <2>1. CASE u = <<>>
    BY <2>1, ConcatEmptySeq DEF Text
  <2>2. CASE u # <<>>
    <3>1. StartsWell(u) /\ IsUtf8[RestOfUtf8(u)]
      BY <1>1, <2>2, Utf8Is DEF Utf8
    <3>2. PICK v \in Text : v = RestOfUtf8(u) /\ Len(v) < Len(u)
      BY <3>1, Utf8RestIsShorter
    <3>3. IsUtf8[v \o t]
      <4>1. Length[v] < Length[u]
        BY <3>2, TextLength
      <4> QED  BY <1>1, <3>1, <3>2, <4>1
    <3>4. PICK x \in Text : /\ x = u \o t /\ Len(x) = Len(u) + Len(t)
                            /\ Len(u) \in Nat /\ Len(t) \in Nat
                            /\ \A i \in 1..Len(u) : x[i] = u[i]
      <4>1. /\ u \o t \in Text /\ Len(u \o t) = Len(u) + Len(t)
            /\ Len(u) \in Nat /\ Len(t) \in Nat
            /\ \A i \in 1..Len(u) : (u \o t)[i] = u[i]
        BY JoinText
      <4> QED  BY <4>1
    <3>5. PICK w \in 1..Len(u) : /\ w = Width(u[1])
                                 /\ w > 1 => u[2] \in Second(u[1])
                                 /\ \A i \in 3..w : u[i] \in 128..191
      BY <3>1 DEF StartsWell
    <3>6. x[1] = u[1] /\ (w > 1 => x[2] = u[2]) /\ \A i \in 3..w : x[i] = u[i]
      BY <3>4, <3>5
    <3>7. w \in 1..Len(x)
      BY <3>4, <3>5
    <3>8. StartsWell(x)
      BY <3>5, <3>6, <3>7 DEF StartsWell
    <3>9. RestOfUtf8(x) = v \o t
      <4>1. RestOfUtf8(x) = SubSeq(x, w + 1, Len(x)) /\ v = SubSeq(u, w + 1, Len(u))
        BY <3>2, <3>5, <3>6 DEF RestOfUtf8
      <4> QED  BY <3>4, <4>1, BehindJoin
    <3>10. Utf8(x, IsUtf8)
      BY <3>3, <3>8, <3>9 DEF Utf8
    <3> QED  BY <3>4, <3>10, Utf8Is
  <2> QED  BY <2>1, <2>2
<1>2. IsInductive(T, Text, Length)
  BY <1>1, TextLength DEF IsInductive
<1> HIDE DEF T
<1>3. \A u \in Text : u \in T
  BY <1>2, RankInduction
<1> QED  BY <1>3 DEF T

-----------------------------------------------------------------------------
(* Finding separators *)

SuffixAt(s, i) == SubSeq(s, i, Len(s))

LEMMA SuffixIs ==
    ASSUME NEW s \in Text, NEW i \in 1..Len(s)
    PROVE  SuffixAt(s, i) \in Text /\ Len(SuffixAt(s, i)) \in Nat \ {0} /\ SuffixAt(s, i)[1] = s[i]
<1>1. Len(s) \in Nat /\ \A k \in i..Len(s) : s[k] \in Byte
  BY DEF Text
<1>2. /\ SuffixAt(s, i) \in Seq(Byte)
      /\ Len(SuffixAt(s, i)) = IF i <= Len(s) THEN Len(s) - i + 1 ELSE 0
      /\ \A k \in 1 .. Len(s) - i + 1 : SuffixAt(s, i)[k] = s[i+k-1]
  BY <1>1, SubSeqProperties DEF SuffixAt
<1>3. Len(SuffixAt(s, i)) \in Nat \ {0}
  BY <1>1, <1>2
<1>4. 1 \in 1 .. Len(s) - i + 1 /\ i + 1 - 1 = i
  BY <1>1
<1> QED  BY <1>2, <1>3, <1>4 DEF Text

\* A separator is only found where its first byte is.
LEMMA PrefixStarts ==
    ASSUME NEW s \in Text, NEW sep \in Text, sep # <<>>, NEW i \in 1..Len(s),
           IsPrefix(sep, SubSeq(s, i, Len(s)))
    PROVE  s[i] = sep[1]
<1>1. PICK u \in Text : u = SubSeq(s, i, Len(s)) /\ Len(u) \in Nat \ {0} /\ u[1] = s[i]
  BY SuffixIs DEF SuffixAt
<1>2. Len(sep) \in Nat \ {0} /\ \A k \in 1..Len(sep) : sep[k] \in Byte
  BY EmptySeq DEF Text
<1>3. Len(sep) <= Len(u) /\ SubSeq(sep, 1, Len(sep)) = SubSeq(u, 1, Len(sep))
  BY <1>1 DEF IsPrefix
<1>4. \A k \in 1..Len(sep) : u[k] \in Byte
  BY <1>1, <1>2, <1>3 DEF Text
<1>5. SubSeq(sep, 1, Len(sep))[1] = sep[1]
  <2>1. \A k \in 1 .. Len(sep) - 1 + 1 : SubSeq(sep, 1, Len(sep))[k] = sep[1+k-1]
    BY <1>2, SubSeqProperties
  <2> QED  BY <1>2, <2>1
<1>6. SubSeq(u, 1, Len(sep))[1] = u[1]
  <2>1. \A k \in 1 .. Len(sep) - 1 + 1 : SubSeq(u, 1, Len(sep))[k] = u[1+k-1]
    BY <1>2, <1>4, SubSeqProperties
  <2> QED  BY <1>2, <2>1
<1> QED  BY <1>1, <1>3, <1>5, <1>6

\* Nothing in s can start a separator.
Lacks(s, sep) == sep # <<>> /\ \A i \in 1..Len(s) : s[i] # sep[1]

LEMMA FoundNowhere ==
    ASSUME NEW s \in Text, NEW sep \in Text, Lacks(s, sep)
    PROVE  Found(s, sep) = {}
BY PrefixStarts DEF Found, Lacks

\* A separator is found behind a text that has nothing of it, and what is before
\* and after it are what was put there.
LEMMA FoundBehind ==
    ASSUME NEW a \in Text, NEW sep \in Text, NEW c \in Text, Lacks(a, sep)
    PROVE  /\ Found(a \o (sep \o c), sep) = {Len(a) + 1}
           /\ Before(a \o (sep \o c), Len(a) + 1) = a
           /\ After(a \o (sep \o c), Len(a) + 1, sep) = c
<1>1. PICK d \in Text : d = sep \o c /\ Len(d) = Len(sep) + Len(c)
  BY JoinText
<1>2. PICK s \in Text : /\ s = a \o d /\ Len(s) = Len(a) + Len(d)
                        /\ \A i \in 1..Len(a) : s[i] = a[i]
  <2>1. /\ a \o d \in Text /\ Len(a \o d) = Len(a) + Len(d)
        /\ \A i \in 1..Len(a) : (a \o d)[i] = a[i]
    BY JoinText
  <2> QED  BY <2>1
<1>3. Len(a) \in Nat /\ Len(c) \in Nat /\ Len(sep) \in Nat \ {0}
  BY EmptySeq, LenProperties DEF Text, Lacks
<1> DEFINE n == Len(a) + 1
<1>4. n \in 1..Len(s)
  BY <1>1, <1>2, <1>3
<1>5. SubSeq(s, n, Len(s)) = d /\ SubSeq(s, 1, Len(a)) = a
  BY <1>2, SplitJoin
<1>6. IsPrefix(sep, d)
  <2>1. SubSeq(d, 1, Len(sep)) = sep
    BY <1>1, SplitJoin
  <2>2. SubSeq(sep, 1, Len(sep)) = sep
    BY SubSeqFull DEF Text
  <2> QED  BY <1>1, <1>3, <2>1, <2>2 DEF IsPrefix
<1>7. ASSUME NEW k \in 1..n-1 PROVE ~IsPrefix(sep, SubSeq(s, k, Len(s)))
  <2>1. k \in 1..Len(a) /\ k \in 1..Len(s)
    BY <1>3, <1>4
  <2>2. s[k] # sep[1]
    BY <1>2, <2>1 DEF Lacks
  <2> QED  BY <2>1, <2>2, PrefixStarts DEF Lacks
<1>8. Found(s, sep) = {n}
  <2>1. n \in Found(s, sep)
    BY <1>4, <1>5, <1>6, <1>7 DEF Found
  <2>2. ASSUME NEW k \in Found(s, sep) PROVE k = n
    <3>1. /\ k \in 1..Len(s) /\ IsPrefix(sep, SubSeq(s, k, Len(s)))
          /\ \A m \in 1..k-1 : ~IsPrefix(sep, SubSeq(s, m, Len(s)))
      BY <2>2 DEF Found
    <3>2. k \notin 1..n-1
      BY <1>7, <3>1
    <3>3. n \notin 1..k-1
      BY <1>5, <1>6, <3>1
    <3> QED  BY <1>2, <1>3, <1>4, <3>1, <3>2, <3>3
  <2> QED  BY <2>1, <2>2
<1>9. Before(s, n) = a
  <2>1. n - 1 = Len(a)
    BY <1>3
  <2> QED  BY <1>5, <2>1 DEF Before
<1>10. After(s, n, sep) = c
  <2>1. PICK h \in Text : h = a \o sep /\ Len(h) = Len(a) + Len(sep)
    BY JoinText
  <2>2. s = h \o c
    <3>1. Joins(a, sep, c)
      BY JoinThree
    <3> QED  BY <1>1, <1>2, <2>1, <3>1 DEF Joins
  <2>3. SubSeq(s, Len(h) + 1, Len(s)) = c
    BY <2>2, SplitJoin
  <2>4. n + Len(sep) = Len(h) + 1
    BY <1>3, <2>1
  <2> QED  BY <2>3, <2>4 DEF After
<1> QED  BY <1>1, <1>2, <1>8, <1>9, <1>10

-----------------------------------------------------------------------------
(* Reading what was written *)

IsString(s) == s \in Text /\ IsUtf8[s]

SlashText == <<Slash>>

LEMMA SeparatorsAre ==
    /\ Scheme \in Text /\ Scheme # <<>> /\ Scheme[1] \notin Plain
    /\ SlashText \in Text /\ SlashText # <<>> /\ SlashText[1] \notin Plain
    /\ IsUtf8[SlashText]
<1>1. 58 \in Byte /\ 47 \in Byte
  BY DEF Byte
<1>2. Scheme \in Text /\ Scheme # <<>> /\ Scheme[1] = 58
  BY <1>1 DEF Scheme, Text
<1>3. SlashText \in Text /\ SlashText # <<>> /\ SlashText[1] = 47 /\ Len(SlashText) = 1
  BY <1>1, OneElement DEF SlashText, Slash, Text
<1>4. 58 \notin Plain /\ 47 \notin Plain
  BY DEF Plain, Alphanumeric, Digit, Percent
<1>5. IsUtf8[SlashText]
  <2>1. Width(SlashText[1]) = 1
    BY <1>3 DEF Width
  <2>2. StartsWell(SlashText)
    BY <1>3, <2>1 DEF StartsWell
  <2>3. RestOfUtf8(SlashText) = <<>>
    BY <1>3, <2>1, SubSeqEmpty DEF RestOfUtf8
  <2>4. IsUtf8[<<>>]
    BY EmptySeq, Utf8Is DEF Text, Utf8
  <2> QED  BY <1>3, <2>2, <2>3, <2>4, Utf8Is DEF Utf8
<1> QED  BY <1>2, <1>3, <1>4, <1>5

\* A slash that is not encoded is read as it is.
LEMMA DecodeSlash ==
    ASSUME NEW t \in Text
    PROVE  Decode[SlashText \o t] = SlashText \o Decode[t]
<1>1. Slash \in Byte /\ Slash # Percent
  BY DEF Slash, Byte, Percent
<1>2. PICK s \in Text : /\ s = <<Slash>> \o t /\ s # <<>> /\ s[1] = Slash
                        /\ Head(s) = Slash /\ Tail(s) = t
  BY <1>1, FirstOfMore DEF Text
<1>3. ~Escaped(s)
  BY <1>1, <1>2 DEF Escaped
<1>4. Decode[s] = <<Slash>> \o Decode[t]
  BY <1>2, <1>3, DecodeIs, DecodedIs DEF FirstByte, Rest
<1> QED  BY <1>2, <1>4 DEF SlashText

LEMMA DecodeEncode ==
    ASSUME NEW s \in Text
    PROVE  Decode[Encode(s)] = s
<1>1. <<>> \in Text /\ Encode(s) \in Text
  BY EmptySeq, EncodeIsPlain, PlainIsText DEF Text
<1>2. Decode[<<>>] = <<>>
  BY <1>1, DecodeIs, DecodedIs
<1>3. Encode(s) \o <<>> = Encode(s) /\ s \o <<>> = s
  BY <1>1, ConcatEmptySeq DEF Text
<1> QED  BY <1>1, <1>2, <1>3, DecodeOfEncode

\* What is written between and behind the separators is in its place again.
LEMMA EncodedBefore ==
    ASSUME NEW a \in Text, NEW sep \in {Scheme, SlashText}, NEW c \in Text
    PROVE  /\ Found(Encode(a) \o (sep \o c), sep) = {Len(Encode(a)) + 1}
           /\ Before(Encode(a) \o (sep \o c), Len(Encode(a)) + 1) = Encode(a)
           /\ After(Encode(a) \o (sep \o c), Len(Encode(a)) + 1, sep) = c
<1>1. PICK e \in PlainText : e = Encode(a) /\ e \in Text
  BY EncodeIsPlain, PlainIsText
<1>2. sep \in Text /\ sep # <<>> /\ sep[1] \notin Plain
  BY SeparatorsAre
<1>3. Lacks(e, sep)
  BY <1>1, <1>2, ElementOfSeq DEF PlainText, Lacks
<1>4. /\ Found(e \o (sep \o c), sep) = {Len(e) + 1}
      /\ Before(e \o (sep \o c), Len(e) + 1) = e
      /\ After(e \o (sep \o c), Len(e) + 1, sep) = c
  BY <1>1, <1>2, <1>3, FoundBehind
<1> QED  BY <1>1, <1>4

\* The texts of ids, from their first separator on.
LEMMA TextsAre ==
    ASSUME NEW b \in AnyBackendId, NEW p \in Text
    PROVE  /\ Encode(b.scheme) \in Text /\ Encode(b.id) \in Text /\ Encode(p) \in Text
           /\ Scheme \o Encode(b.id) \in Text
           /\ SlashText \o Encode(p) \in Text
           /\ Encode(b.id) \o (SlashText \o Encode(p)) \in Text
           /\ BackendText(b) \in Text
           /\ FullText(b, p) \in Text
           /\ BackendText(b) = Encode(b.scheme) \o (Scheme \o Encode(b.id))
           /\ FullText(b, p) = Encode(b.scheme) \o (Scheme \o (Encode(b.id) \o (SlashText \o Encode(p))))
<1>1. b.scheme \in Text /\ b.id \in Text
  BY DEF AnyBackendId
<1>2. PICK s \in Text, i \in Text, q \in Text : s = Encode(b.scheme) /\ i = Encode(b.id) /\ q = Encode(p)
  <2>1. Encode(b.scheme) \in Text /\ Encode(b.id) \in Text /\ Encode(p) \in Text
    BY <1>1, EncodeIsPlain, PlainIsText
  <2> QED  BY <2>1
<1>3. Scheme \in Text /\ SlashText \in Text
  BY SeparatorsAre
<1>4. Scheme \o i \in Text /\ SlashText \o q \in Text /\ s \o Scheme \in Text
  BY <1>2, <1>3, JoinText
<1>5. i \o (SlashText \o q) \in Text /\ (s \o Scheme) \o i \in Text
  BY <1>2, <1>4, JoinText
<1>6. ((s \o Scheme) \o i) \o SlashText \in Text
  BY <1>3, <1>5, JoinText
<1>7. (((s \o Scheme) \o i) \o SlashText) \o q \in Text
  BY <1>2, <1>6, JoinText
<1>8. (s \o Scheme) \o i = s \o (Scheme \o i)
  <2>1. Joins(s, Scheme, i)
    BY <1>2, <1>3, JoinThree
  <2> QED  BY <2>1 DEF Joins
<1>9. (((s \o Scheme) \o i) \o SlashText) \o q = s \o (Scheme \o (i \o (SlashText \o q)))
  <2>1. JoinsAll(s, Scheme, i, SlashText, q)
    BY <1>2, <1>3, JoinFive
  <2> QED  BY <2>1 DEF JoinsAll
<1>10. /\ BackendText(b) = (s \o Scheme) \o i
       /\ FullText(b, p) = (((s \o Scheme) \o i) \o SlashText) \o q
  BY <1>2 DEF BackendText, FullText, SlashText
<1> QED  BY <1>2, <1>4, <1>5, <1>7, <1>8, <1>9, <1>10

\* A backend whose scheme and id are strings.
IsBackend(b) == b \in AnyBackendId /\ IsUtf8[b.scheme] /\ IsUtf8[b.id]

\* The text of a backend is read as that backend, and not as a channel or user.
THEOREM BackendRead ==
    ASSUME NEW b, IsBackend(b)
    PROVE  ParseBackend(BackendText(b)) = b /\ ParseFull(BackendText(b)) = Invalid
<1>1. b \in AnyBackendId /\ b.scheme \in Text /\ b.id \in Text /\ <<>> \in Text
  BY EmptySeq DEF IsBackend, AnyBackendId, Text
<1>2. PICK s, i, t, n : /\ s = Encode(b.scheme) /\ i = Encode(b.id) /\ t = BackendText(b)
                        /\ n = Len(Encode(b.scheme)) + 1
  OBVIOUS
<1>3. i \in Text /\ t = s \o (Scheme \o i)
  BY <1>1, <1>2, TextsAre
<1>4. Found(t, Scheme) = {n} /\ Before(t, n) = s /\ After(t, n, Scheme) = i
  BY <1>1, <1>2, <1>3, EncodedBefore
<1>5. Decode[s] = b.scheme /\ Decode[i] = b.id
  BY <1>1, <1>2, DecodeEncode
<1>6. (CHOOSE k \in Found(t, Scheme) : TRUE) = n /\ Found(t, Scheme) # {}
  BY <1>4
<1>7. AllUtf8({s, i})
  BY <1>5 DEF AllUtf8, IsBackend
<1>8. ParseBackend(t) = [scheme |-> b.scheme, id |-> b.id]
  BY <1>4, <1>5, <1>6, <1>7 DEF ParseBackend
<1>9. b = [scheme |-> b.scheme, id |-> b.id]
  BY <1>1 DEF AnyBackendId
<1>10. Found(i, SlashText) = {}
  <2>1. i \in PlainText
    BY <1>1, <1>2, EncodeIsPlain
  <2>2. Lacks(i, SlashText)
    BY <2>1, SeparatorsAre, ElementOfSeq DEF PlainText, Lacks
  <2> QED  BY <1>3, <2>2, SeparatorsAre, FoundNowhere
<1>11. ParseFull(t) = Invalid
  BY <1>4, <1>6, <1>10 DEF ParseFull, SlashText
<1> QED  BY <1>2, <1>8, <1>9, <1>11

\* The text of a channel or user is read as what it was made of, and as the id
\* of a backend only as that of one whose id goes on.
THEOREM FullRead ==
    ASSUME NEW b, NEW p, IsBackend(b), IsString(p)
    PROVE  /\ ParseFull(FullText(b, p)) = [backend |-> b, path |-> p]
           /\ ParseBackend(FullText(b, p)) = [scheme |-> b.scheme, id |-> b.id \o (SlashText \o p)]
<1>1. b \in AnyBackendId /\ b.scheme \in Text /\ b.id \in Text /\ p \in Text
  BY DEF IsBackend, IsString, AnyBackendId
<1>2. PICK s, i, q, t, n, m : /\ s = Encode(b.scheme) /\ i = Encode(b.id) /\ q = Encode(p)
                              /\ t = FullText(b, p)
                              /\ n = Len(Encode(b.scheme)) + 1 /\ m = Len(Encode(b.id)) + 1
  OBVIOUS
<1>3. PICK r \in Text : r = i \o (SlashText \o q) /\ t = s \o (Scheme \o r)
  <2>1. i \o (SlashText \o q) \in Text /\ t = s \o (Scheme \o (i \o (SlashText \o q)))
    BY <1>1, <1>2, TextsAre
  <2> QED  BY <2>1
<1>4. q \in Text
  BY <1>1, <1>2, TextsAre
<1>5. Found(t, Scheme) = {n} /\ Before(t, n) = s /\ After(t, n, Scheme) = r
  <2>1. t = Encode(b.scheme) \o (Scheme \o r) /\ n = Len(Encode(b.scheme)) + 1
    BY <1>2, <1>3
  <2> QED  BY <1>1, <1>2, <2>1, EncodedBefore
<1>6. Found(r, SlashText) = {m} /\ Before(r, m) = i /\ After(r, m, SlashText) = q
  BY <1>1, <1>2, <1>3, <1>4, EncodedBefore
<1>7. Decode[s] = b.scheme /\ Decode[i] = b.id /\ Decode[q] = p
  BY <1>1, <1>2, DecodeEncode
<1>8. (CHOOSE k \in Found(t, Scheme) : TRUE) = n /\ Found(t, Scheme) # {}
  BY <1>5
<1>9. (CHOOSE k \in Found(r, SlashText) : TRUE) = m /\ Found(r, SlashText) # {}
  BY <1>6
<1>10. AllUtf8({s, i, q})
  BY <1>7 DEF AllUtf8, IsBackend, IsString
<1>11. ParseFull(t) = [backend |-> [scheme |-> b.scheme, id |-> b.id], path |-> p]
  BY <1>5, <1>6, <1>7, <1>8, <1>9, <1>10 DEF ParseFull, SlashText
<1>12. b = [scheme |-> b.scheme, id |-> b.id]
  BY <1>1 DEF AnyBackendId
<1>13. Decode[r] = b.id \o (SlashText \o p)
  <2>1. SlashText \o q \in Text
    BY <1>4, SeparatorsAre, JoinText
  <2>2. Decode[r] = b.id \o Decode[SlashText \o q]
    BY <1>1, <1>2, <1>3, <2>1, DecodeOfEncode
  <2> QED  BY <1>4, <1>7, <2>2, DecodeSlash
<1>14. IsUtf8[b.id \o (SlashText \o p)]
  <2>1. SlashText \o p \in Text /\ IsUtf8[SlashText \o p]
    BY <1>1, SeparatorsAre, JoinText, Utf8Join DEF IsString
  <2> QED  BY <1>1, <2>1, Utf8Join DEF IsBackend
<1>15. AllUtf8({s, r})
  BY <1>7, <1>13, <1>14 DEF AllUtf8, IsBackend
<1>16. ParseBackend(t) = [scheme |-> b.scheme, id |-> b.id \o (SlashText \o p)]
  BY <1>5, <1>7, <1>8, <1>13, <1>15 DEF ParseBackend
<1> QED  BY <1>2, <1>11, <1>12, <1>16

-----------------------------------------------------------------------------
(* What any text can be read as *)

\* The parts of a text are texts.
LEMMA PartsAre ==
    ASSUME NEW t \in Text, NEW i \in 1..Len(t), NEW n \in Nat
    PROVE  SubSeq(t, 1, i - 1) \in Text /\ SubSeq(t, i + n, Len(t)) \in Text
<1>1. Len(t) \in Nat /\ i \in Nat /\ i >= 1 /\ \A k \in 1..Len(t) : t[k] \in Byte
  BY DEF Text
<1>2. /\ 1 \in Int /\ i - 1 \in Int /\ i + n \in Int /\ Len(t) \in Int
      /\ \A k \in 1..i-1 : t[k] \in Byte
      /\ \A k \in i+n..Len(t) : t[k] \in Byte
  BY <1>1
<1>3. SubSeq(t, 1, i - 1) \in Seq(Byte)
  BY <1>2, SubSeqProperties
<1>4. SubSeq(t, i + n, Len(t)) \in Seq(Byte)
  BY <1>2, SubSeqProperties
<1> QED  BY <1>3, <1>4 DEF Text

LEMMA SeparatedAre ==
    ASSUME NEW t \in Text, NEW sep \in {Scheme, SlashText}, NEW i \in Found(t, sep)
    PROVE  /\ Before(t, i) \in Text /\ After(t, i, sep) \in Text
           /\ Decode[Before(t, i)] \in Text /\ Decode[After(t, i, sep)] \in Text
<1>1. i \in 1..Len(t)
  BY DEF Found
<1>2. Len(sep) \in Nat
  BY SeparatorsAre, LenProperties DEF Text
<1>3. SubSeq(t, 1, i - 1) \in Text /\ SubSeq(t, i + Len(sep), Len(t)) \in Text
  BY <1>1, <1>2, PartsAre
<1> QED  BY <1>3, DecodeIs DEF Before, After

\* A text is read as the id of a backend or as none.
LEMMA BackendIsRead ==
    ASSUME NEW t \in Text, ParseBackend(t) # Invalid
    PROVE  ParseBackend(t) \in AnyBackendId
<1>1. PICK i \in Found(t, Scheme) : i = CHOOSE k \in Found(t, Scheme) : TRUE
  <2>1. Found(t, Scheme) # {}
    BY DEF ParseBackend
  <2> QED  BY <2>1
<1>2. PICK s, d : s = Before(t, i) /\ d = After(t, i, Scheme)
  OBVIOUS
<1>3. Decode[s] \in Text /\ Decode[d] \in Text
  BY <1>2, SeparatedAre
<1>4. ParseBackend(t) = [scheme |-> Decode[s], id |-> Decode[d]]
  BY <1>1, <1>2 DEF ParseBackend
<1> QED  BY <1>3, <1>4 DEF AnyBackendId

\* A text is read as the id of a channel or user whose path is a string, or as
\* none.
LEMMA FullIsRead ==
    ASSUME NEW t \in Text, ParseFull(t) # Invalid
    PROVE  ParseFull(t) \in AnyId /\ ParseFull(t).path \in Text /\ IsUtf8[ParseFull(t).path]
<1>1. PICK i \in Found(t, Scheme) : i = CHOOSE k \in Found(t, Scheme) : TRUE
  <2>1. Found(t, Scheme) # {}
    BY DEF ParseFull
  <2> QED  BY <2>1
<1>2. PICK s, r : s = Before(t, i) /\ r = After(t, i, Scheme)
  OBVIOUS
<1>3. r \in Text /\ Decode[s] \in Text
  BY <1>2, SeparatedAre
<1>4. PICK j \in Found(r, SlashText) : j = CHOOSE k \in Found(r, SlashText) : TRUE
  <2>1. Found(r, SlashText) # {}
    BY <1>1, <1>2 DEF ParseFull, SlashText
  <2> QED  BY <2>1
<1>5. PICK d, p : d = Before(r, j) /\ p = After(r, j, SlashText)
  OBVIOUS
<1>6. Decode[d] \in Text /\ Decode[p] \in Text
  BY <1>3, <1>5, SeparatedAre
<1>7. /\ AllUtf8({s, d, p})
      /\ ParseFull(t) = [backend |-> [scheme |-> Decode[s], id |-> Decode[d]], path |-> Decode[p]]
  BY <1>1, <1>2, <1>4, <1>5 DEF ParseFull, SlashText
<1>8. [scheme |-> Decode[s], id |-> Decode[d]] \in AnyBackendId
  BY <1>3, <1>6 DEF AnyBackendId
<1> QED  BY <1>6, <1>7, <1>8 DEF AnyId, AllUtf8

-----------------------------------------------------------------------------
(* The invariant *)

\* What the plugin holds is what the server wrote of the backend and its path.
\* Both stay as they are, since nobody changes its names once registered.
HeldOK ==
    /\ path \in Paths
    /\ held = [full |-> held.full, backend |-> held.backend]
    /\ held.full # Invalid => held.full = FullText(home, path)
    /\ held.backend # Invalid => held.backend = BackendText(home)

IdInv == RequestOK /\ HeldOK

\* The names of backends are strings.
LEMMA NamesAre ==
    ASSUME IdInv
    PROVE  /\ IsBackend(home) /\ IsString(path)
           /\ FullText(home, path) \in Text /\ BackendText(home) \in Text
           /\ held.full # Invalid => held.full \in Text
           /\ held.backend # Invalid => held.backend \in Text
<1>1. /\ home.scheme \in Schemes /\ home.id \in Names /\ path \in Paths
      /\ home = [scheme |-> home.scheme, id |-> home.id]
  BY DEF IdInv, RequestOK, HeldOK, BackendId
<1>2. home.scheme \in Text /\ home.id \in Text /\ path \in Text
  BY <1>1, IdAssumption
<1>3. home \in AnyBackendId
  BY <1>1, <1>2 DEF AnyBackendId
<1>4. IsBackend(home) /\ IsString(path)
  BY <1>1, <1>2, <1>3, IdAssumption DEF IsBackend, IsString
<1>5. FullText(home, path) \in Text /\ BackendText(home) \in Text
  BY <1>2, <1>3, TextsAre
<1> QED  BY <1>4, <1>5 DEF IdInv, HeldOK

LEMMA IdInit == Init => IdInv
<1> SUFFICES ASSUME Init PROVE IdInv
  OBVIOUS
<1>1. HeldOK
  BY DEF Init, HeldOK
<1>2. RequestOK
  BY DEF Init, RequestOK
<1> QED  BY <1>1, <1>2 DEF IdInv

\* An RPC with a text leaves the request with a registered backend, or nobody.
LEMMA PathIsAddressed ==
    ASSUME IdInv, NEW t \in Text, AddressPath(t)
    PROVE  IdInv'
<1>1. UNCHANGED <<home, other, path, up, held>>
  BY DEF AddressPath, Answer
<1>2. HeldOK'
  BY <1>1 DEF IdInv, HeldOK
<1>3. CASE reached' = Nobody /\ answer' \in {"invalid_argument", "not_found"}
  BY <1>1, <1>2, <1>3 DEF IdInv, RequestOK
<1>4. CASE /\ ParseFull(t) # Invalid /\ ParseFull(t).backend \in up
           /\ reached' = ParseFull(t) /\ answer' = "sent"
  <2>1. ParseFull(t) \in AnyId /\ IsUtf8[ParseFull(t).path]
    BY <1>4, FullIsRead
  <2>2. reached' # Nobody
    BY <1>4, <2>1, IdAssumption
  <2> QED  BY <1>1, <1>2, <1>4, <2>1, <2>2 DEF IdInv, RequestOK
<1> QED  BY <1>3, <1>4 DEF AddressPath, Answer

LEMMA BackendIsAddressed ==
    ASSUME IdInv, NEW t \in Text, AddressBackend(t)
    PROVE  IdInv'
<1>1. UNCHANGED <<home, other, path, up, held>>
  BY DEF AddressBackend, Answer
<1>2. HeldOK'
  BY <1>1 DEF IdInv, HeldOK
<1>3. CASE reached' = Nobody /\ answer' \in {"invalid_argument", "not_found"}
  BY <1>1, <1>2, <1>3 DEF IdInv, RequestOK
<1>4. CASE /\ ParseBackend(t) # Invalid /\ ParseBackend(t) \in up
           /\ reached' = [backend |-> ParseBackend(t), path |-> Invalid] /\ answer' = "sent"
  <2>1. ParseBackend(t) \in AnyBackendId
    BY <1>4, BackendIsRead
  <2>2. [backend |-> ParseBackend(t), path |-> Invalid] \in AnyId
    BY <2>1 DEF AnyId
  <2>3. reached' # Nobody
    BY <1>4, <2>2, IdAssumption
  <2> QED  BY <1>1, <1>2, <1>4, <2>3 DEF IdInv, RequestOK
<1> QED  BY <1>3, <1>4 DEF AddressBackend, Answer

LEMMA IdStep == IdInv /\ [Next]_vars => IdInv'
<1> SUFFICES ASSUME IdInv, [Next]_vars PROVE IdInv'
  OBVIOUS
<1>1. CASE \E b \in {home, other} : Register(b) \/ Vanish(b)
  <2>1. /\ UNCHANGED <<home, other, path, held, answer, reached>>
        /\ up' \subseteq {home, other}
    BY <1>1 DEF IdInv, RequestOK, Register, Vanish
  <2> QED  BY <2>1 DEF IdInv, RequestOK, HeldOK
<1>2. CASE ShowPath
  <2>1. /\ UNCHANGED <<home, other, path, up, answer, reached>>
        /\ held' = [full |-> FullText(home, path), backend |-> held.backend]
    BY <1>2 DEF ShowPath, IdInv, HeldOK
  <2>2. RequestOK'
    BY <2>1 DEF IdInv, RequestOK
  <2>3. HeldOK'
    BY <2>1 DEF IdInv, HeldOK, FullText, BackendText
  <2> QED  BY <2>2, <2>3 DEF IdInv
<1>3. CASE ShowBackend
  <2>1. /\ UNCHANGED <<home, other, path, up, answer, reached>>
        /\ held' = [full |-> held.full, backend |-> BackendText(home)]
    BY <1>3 DEF ShowBackend, IdInv, HeldOK
  <2>2. RequestOK'
    BY <2>1 DEF IdInv, RequestOK
  <2>3. HeldOK'
    BY <2>1 DEF IdInv, HeldOK, FullText, BackendText
  <2> QED  BY <2>2, <2>3 DEF IdInv
<1>4. CASE ReplyToPath
  BY <1>4, NamesAre, PathIsAddressed DEF ReplyToPath
<1>5. CASE ReplyToBackend
  BY <1>5, NamesAre, BackendIsAddressed DEF ReplyToBackend
<1>6. CASE Mistake
  BY <1>6, NamesAre, PathIsAddressed, BackendIsAddressed DEF Mistake
<1>7. CASE MakeUp
  <2>1. PICK t \in Typed : \/ AddressPath(t)
                           \/ held.backend # Invalid /\ AddressPath(held.backend \o SlashText \o t)
    BY <1>7 DEF MakeUp, SlashText
  <2>2. t \in Text
    BY IdAssumption
  <2>3. held.backend # Invalid => held.backend \o SlashText \o t \in Text
    <3>1. ASSUME held.backend # Invalid PROVE held.backend \o SlashText \in Text
      BY <3>1, NamesAre, SeparatorsAre, JoinText
    <3> QED  BY <2>2, <3>1, JoinText
  <2> QED  BY <2>1, <2>2, <2>3, PathIsAddressed
<1>8. CASE UNCHANGED vars
  BY <1>8 DEF vars, IdInv, RequestOK, HeldOK
<1> QED  BY <1>1, <1>2, <1>3, <1>4, <1>5, <1>6, <1>7, <1>8 DEF Next

LEMMA IdInvHolds == Spec => []IdInv
BY IdInit, IdStep, PTL DEF Spec

-----------------------------------------------------------------------------
(* What follows *)

\* Whatever texts a plugin sends, a request goes to nobody or to a registered
\* backend, which is given UTF-8.
THEOREM RequestsAreOK == Spec => []RequestOK
<1>1. IdInv => RequestOK
  BY DEF IdInv
<1> QED  BY <1>1, IdInvHolds, PTL

\* Whatever names the backends choose, the id of a backend is not taken for one
\* of a channel, nor the id of a channel for that of its backend.
THEOREM KindsAreDifferent == Spec => []KindsDiffer
<1>1. ASSUME IdInv PROVE KindsDiffer
  <2>1. ASSUME held.backend # Invalid PROVE ParseFull(held.backend) = Invalid
    BY <1>1, <2>1, NamesAre, BackendRead DEF IdInv, HeldOK
  <2>2. ASSUME held.full # Invalid PROVE ParseBackend(held.full) \notin {home, Invalid}
    <3>1. home.id \in Text /\ path \in Text /\ home.scheme \in Text
      BY <1>1, NamesAre DEF IsBackend, IsString, AnyBackendId
    <3>2. PICK id : id = home.id \o (SlashText \o path)
      OBVIOUS
    <3>3. ParseBackend(held.full) = [scheme |-> home.scheme, id |-> id]
      BY <1>1, <2>2, <3>2, NamesAre, FullRead DEF IdInv, HeldOK
    <3>4. id \in Text /\ Len(id) # Len(home.id)
      <4>1. SlashText \o path \in Text /\ Len(SlashText \o path) > 0
        <5>1. Len(SlashText) = 1
          BY OneElement DEF SlashText
        <5> QED  BY <3>1, <5>1, SeparatorsAre, JoinText
      <4>2. PICK u \in Text : u = SlashText \o path /\ Len(u) > 0
        BY <4>1
      <4>3. /\ home.id \o u \in Text /\ Len(home.id) \in Nat /\ Len(u) \in Nat
            /\ Len(home.id \o u) = Len(home.id) + Len(u)
        BY <3>1, JoinText
      <4>4. id = home.id \o u
        BY <3>2, <4>2
      <4>5. id \in Text
        BY <4>3, <4>4
      <4>6. PICK n \in Nat, m \in Nat : n = Len(home.id) /\ m = Len(u)
        BY <4>3
      <4>7. Len(id) = n + m
        BY <4>3, <4>4, <4>6
      <4>8. m > 0
        BY <4>2, <4>6
      <4>9. Len(id) # n
        BY <4>6, <4>7, <4>8
      <4> QED  BY <4>5, <4>6, <4>9
    <3>5. [scheme |-> home.scheme, id |-> id] # home
      BY <3>4
    <3>6. [scheme |-> home.scheme, id |-> id] # Invalid
      BY <3>1, <3>4, IdAssumption DEF AnyBackendId
    <3> QED  BY <3>3, <3>5, <3>6
  <2> QED  BY <2>1, <2>2 DEF KindsDiffer
<1> QED  BY <1>1, IdInvHolds, PTL

\* What a plugin was shown leads back to the very backend and path it was made
\* of, or to nobody while that backend is gone.
THEOREM TextsComeHome == Spec => ComesHome
<1>1. ASSUME IdInv, [Next]_vars PROVE [RepliesComeHome]_vars
  <2>1. ASSUME ReplyToPath
        PROVE  IF home \in up THEN reached' = [backend |-> home, path |-> path]
               ELSE answer' = "not_found"
    <3>1. ParseFull(held.full) = [backend |-> home, path |-> path]
      BY <1>1, <2>1, NamesAre, FullRead DEF ReplyToPath, IdInv, HeldOK
    <3>2. ParseFull(held.full) # Invalid
      <4>1. ParseFull(held.full) \in AnyId
        BY <1>1, <3>1, NamesAre DEF AnyId, IsBackend, IsString
      <4> QED  BY <4>1, IdAssumption
    <3> QED  BY <2>1, <3>1, <3>2 DEF ReplyToPath, AddressPath, Answer
  <2>2. ASSUME ReplyToBackend
        PROVE  IF home \in up THEN reached' = [backend |-> home, path |-> Invalid]
               ELSE answer' = "not_found"
    <3>1. ParseBackend(held.backend) = home
      BY <1>1, <2>2, NamesAre, BackendRead DEF ReplyToBackend, IdInv, HeldOK
    <3>2. home # Invalid
      BY <1>1, NamesAre, IdAssumption DEF IsBackend
    <3> QED  BY <2>2, <3>1, <3>2 DEF ReplyToBackend, AddressBackend, Answer
  <2> QED  BY <2>1, <2>2 DEF RepliesComeHome
<1> QED  BY <1>1, IdInvHolds, PTL DEF Spec, ComesHome
=============================================================================
