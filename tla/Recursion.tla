----------------------------- MODULE Recursion -----------------------------
(***************************************************************************)
(* Induction over the natural numbers, and functions defined by recursion, *)
(* stated with sets and functions in place of operators.                   *)
(***************************************************************************)
EXTENDS Integers, Sequences, SequencesExt, WellFoundedInduction, SequenceTheorems, TLAPS

\* A set of natural numbers that is not empty has a least element.
LEMMA NatMin ==
    ASSUME NEW T \in SUBSET Nat, T # {}
    PROVE  \E n \in T : \A m \in T : n <= m
<1> DEFINE R == OpToRel(<, Nat)
<1>1. IsWellFoundedOn(R, Nat)
  BY NatLessThanWellFounded
<1>2. \A x, y \in Nat : y < x => <<y, x>> \in R
  BY DEF OpToRel
<1> HIDE DEF R
<1>3. \E x \in T : \A y \in T : <<y, x>> \notin R
  BY <1>1, WFMin
<1>4. PICK x \in T : \A y \in T : <<y, x>> \notin R
  BY <1>3
<1>5. \A y \in T : x <= y
  <2> TAKE y \in T
  <2>1. x \in Nat /\ y \in Nat
    OBVIOUS
  <2>2. ~(y < x)
    BY <2>1, <1>2, <1>4
  <2> QED  BY <2>1, <2>2
<1> QED BY <1>4, <1>5

\* Induction: what holds of 0, and of n + 1 when it holds of n, holds of all.
THEOREM NatAll ==
    ASSUME NEW T, 0 \in T, \A n \in Nat : n \in T => n + 1 \in T
    PROVE  \A n \in Nat : n \in T
<1>1. SUFFICES ASSUME NEW k \in Nat, k \notin T PROVE FALSE
  OBVIOUS
<1> DEFINE U == Nat \ T
<1>2. PICK n \in U : \A m \in U : n <= m
  BY <1>1, NatMin
<1>3. n # 0 /\ n - 1 \in Nat /\ n - 1 \in T
  <2>1. n \in Nat /\ n # 0
    OBVIOUS
  <2>2. n - 1 \in Nat /\ ~(n <= n - 1)
    BY <2>1
  <2> QED  BY <1>2, <2>1, <2>2
<1>4. (n - 1) + 1 = n
  BY <1>2
<1> QED  BY <1>2, <1>3, <1>4

\* s is in T when all of a lower rank are.
IsInductive(T, S, rank) ==
    /\ rank \in [S -> Nat]
    /\ \A s \in S : (\A u \in S : rank[u] < rank[s] => u \in T) => s \in T

\* Induction on a rank.
THEOREM RankInduction ==
    ASSUME NEW S, NEW rank, NEW T, IsInductive(T, S, rank)
    PROVE  \A s \in S : s \in T
<1> USE DEF IsInductive
<1> DEFINE U == {n \in Nat : \A s \in S : rank[s] < n => s \in T}
<1>1. \A s \in S : rank[s] \in Nat
  OBVIOUS
<1>2. 0 \in U
  BY <1>1
<1>3. ASSUME NEW n \in Nat, n \in U PROVE n + 1 \in U
  <2>1. \A s \in S : rank[s] < n => s \in T
    BY <1>3
  <2>2. ASSUME NEW s \in S, rank[s] < n + 1 PROVE s \in T
    <3>1. \A u \in S : rank[u] < rank[s] => rank[u] < n
      BY <1>1, <2>2
    <3> QED  BY <2>1, <3>1
  <2> QED  BY <2>2
<1> HIDE DEF U
<1>4. \A n \in Nat : n \in U
  BY <1>2, <1>3, NatAll
<1> SUFFICES ASSUME NEW s \in S PROVE s \in T
  OBVIOUS
<1>5. rank[s] + 1 \in U /\ rank[s] < rank[s] + 1
  BY <1>1, <1>4
<1> QED  BY <1>5 DEF U

\* step gives the value at s of a function on S, from its values at what has a
\* lower rank.
IsRecursive(step, S, X, rank) ==
    /\ X # {}
    /\ rank \in [S -> Nat]
    /\ step \in [S \X [S -> X] -> X]
    /\ \A s \in S : \A f, g \in [S -> X] :
          (\A u \in S : rank[u] < rank[s] => f[u] = g[u]) => step[<<s, f>>] = step[<<s, g>>]

\* Recursion: there is a function that step defines.
THEOREM RankRecursion ==
    ASSUME NEW S, NEW X, NEW rank, NEW step, IsRecursive(step, S, X, rank)
    PROVE  \E f \in [S -> X] : \A s \in S : f[s] = step[<<s, f>>]
<1> USE DEF IsRecursive
<1> DEFINE F == [S -> X]
           Right(f, s) == f[s] = step[<<s, f>>]
           Upto(n) == {f \in F : \A s \in S : rank[s] < n => Right(f, s)}
<1>1. \A s \in S : rank[s] \in Nat
  OBVIOUS
<1>2. \A n \in Nat : Upto(n) # {}
  <2> DEFINE T == {n \in Nat : Upto(n) # {}}
  <2>1. 0 \in T
    <3>1. PICK x \in X : TRUE
      OBVIOUS
    <3>2. [s \in S |-> x] \in Upto(0)
      BY <1>1, <3>1
    <3> QED  BY <3>2
  <2>2. ASSUME NEW n \in Nat, n \in T PROVE n + 1 \in T
    <3>1. PICK f \in F : \A s \in S : rank[s] < n => Right(f, s)
      BY <2>2
    <3> DEFINE g == [s \in S |-> step[<<s, f>>]]
    <3>2. g \in F
      BY <3>1
    <3>3. ASSUME NEW s \in S, rank[s] < n + 1 PROVE Right(g, s)
      <4>1. \A u \in S : rank[u] < rank[s] => f[u] = g[u]
        <5> TAKE u \in S
        <5> HAVE rank[u] < rank[s]
        <5>1. rank[u] < n
          BY <1>1, <3>3
        <5> QED  BY <3>1, <5>1
      <4>2. step[<<s, f>>] = step[<<s, g>>]
        BY <3>1, <3>2, <4>1
      <4> QED  BY <4>2
    <3> HIDE DEF g
    <3>4. g \in Upto(n + 1)
      BY <3>2, <3>3
    <3> QED  BY <3>4
  <2> HIDE DEF T
  <2>3. \A n \in Nat : n \in T
    BY <2>1, <2>2, NatAll
  <2> QED  BY <2>3 DEF T
<1>3. ASSUME NEW n \in Nat, NEW m \in Nat, NEW f \in Upto(n), NEW g \in Upto(m),
             NEW s \in S, rank[s] < n, rank[s] < m
      PROVE  f[s] = g[s]
  <2> DEFINE T == {k \in Nat : \E u \in S : k = rank[u] /\ k < n /\ k < m /\ f[u] # g[u]}
  <2>1. SUFFICES ASSUME T # {} PROVE FALSE
    BY <1>1, <1>3
  <2>2. PICK k \in T : \A j \in T : k <= j
    <3> HIDE DEF T
    <3>1. T \in SUBSET Nat
      BY DEF T
    <3> QED  BY <2>1, <3>1, NatMin
  <2>3. PICK u \in S : k = rank[u] /\ k < n /\ k < m /\ f[u] # g[u]
    OBVIOUS
  <2>4. \A v \in S : rank[v] < rank[u] => f[v] = g[v]
    <3> TAKE v \in S
    <3> HAVE rank[v] < rank[u]
    <3>1. rank[v] < n /\ rank[v] < m
      BY <1>1, <2>3
    <3>2. ~(k <= rank[v])
      BY <1>1, <2>3
    <3>3. rank[v] \notin T
      BY <2>2, <3>2
    <3> QED  BY <1>1, <3>1, <3>3
  <2>5. f \in F /\ g \in F /\ Right(f, u) /\ Right(g, u)
    BY <2>3
  <2>6. step[<<u, f>>] = step[<<u, g>>]
    BY <2>4, <2>5
  <2> QED  BY <2>3, <2>5, <2>6
<1> DEFINE att == [n \in Nat |-> CHOOSE f \in Upto(n) : TRUE]
           h == [s \in S |-> att[rank[s] + 1][s]]
<1>4. \A n \in Nat : att[n] \in Upto(n)
  BY <1>2
<1>5. \A n \in Nat : \A s \in S : rank[s] < n => h[s] = att[n][s]
  <2> TAKE n \in Nat
  <2> TAKE s \in S
  <2> HAVE rank[s] < n
  <2>1. rank[s] + 1 \in Nat /\ rank[s] < rank[s] + 1
    BY <1>1
  <2>2. att[rank[s] + 1] \in Upto(rank[s] + 1) /\ att[n] \in Upto(n)
    BY <1>4, <2>1
  <2> HIDE DEF att, Upto
  <2> QED  BY <1>3, <2>1, <2>2
<1>6. h \in F
  <2> SUFFICES ASSUME NEW s \in S PROVE att[rank[s] + 1][s] \in X
    OBVIOUS
  <2> HIDE DEF att, h
  <2>1. rank[s] + 1 \in Nat
    BY <1>1
  <2>2. att[rank[s] + 1] \in Upto(rank[s] + 1)
    BY <1>4, <2>1
  <2> QED  BY <2>2
<1>7. ASSUME NEW s \in S PROVE h[s] = step[<<s, h>>]
  <2> HIDE DEF att, h
  <2>1. PICK n \in Nat : n = rank[s] + 1
    BY <1>1
  <2>2. rank[s] < n /\ att[n] \in Upto(n)
    <3>1. rank[s] < n
      BY <1>1, <2>1
    <3>2. att[n] \in Upto(n)
      BY <1>4
    <3> QED  BY <3>1, <3>2
  <2>3. att[n] \in F /\ att[n][s] = step[<<s, att[n]>>]
    BY <2>2
  <2> HIDE DEF Upto
  <2>4. \A u \in S : rank[u] < rank[s] => h[u] = att[n][u]
    <3> TAKE u \in S
    <3> HAVE rank[u] < rank[s]
    <3>1. rank[u] < n
      BY <1>1, <2>2
    <3> QED  BY <1>5, <3>1
  <2>5. step[<<s, h>>] = step[<<s, att[n]>>]
    BY <1>6, <2>3, <2>4
  <2>6. h[s] = att[n][s]
    BY <1>5, <2>2
  <2> QED  BY <2>3, <2>5, <2>6
<1> HIDE DEF h
<1> QED  BY <1>6, <1>7

-----------------------------------------------------------------------------
(* Sequences *)

\* One element.
LEMMA OneElement ==
    ASSUME NEW S, NEW e \in S
    PROVE  <<e>> \in Seq(S) /\ Len(<<e>>) = 1 /\ <<e>>[1] = e /\ <<e>> # <<>>
OBVIOUS

\* A sequence from its first element on.
LEMMA FirstAndRest ==
    ASSUME NEW S, NEW s \in Seq(S), s # <<>>
    PROVE  /\ Head(s) \in S /\ Head(s) = s[1] /\ Tail(s) \in Seq(S)
           /\ Len(s) \in Nat \ {0} /\ Len(Tail(s)) = Len(s) - 1
           /\ s = <<Head(s)>> \o Tail(s)
<1>1. /\ Head(s) \in S /\ Tail(s) \in Seq(S) /\ Len(Tail(s)) = Len(s) - 1
      /\ \A i \in 1..Len(Tail(s)) : Tail(s)[i] = s[i+1]
  BY HeadTailProperties
<1>2. Head(s) = s[1] /\ Len(s) \in Nat \ {0}
  BY EmptySeq
<1>3. PICK h \in Seq(S), t \in Seq(S) : h = <<Head(s)>> /\ t = Tail(s) /\ Len(h) = 1 /\ h[1] = s[1]
  BY <1>1, <1>2, OneElement
<1>4. /\ h \o t \in Seq(S) /\ Len(h \o t) = 1 + Len(t)
      /\ \A i \in 1..1 + Len(t) : (h \o t)[i] = IF i <= 1 THEN h[i] ELSE t[i-1]
  BY <1>3, ConcatProperties
<1>5. Len(h \o t) = Len(s)
  BY <1>1, <1>2, <1>3, <1>4
<1>6. \A i \in 1..Len(s) : s[i] = (h \o t)[i]
  <2> TAKE i \in 1..Len(s)
  <2>1. i \in 1..1 + Len(t)
    BY <1>4, <1>5
  <2>2. CASE i = 1
    BY <1>3, <1>4, <2>1, <2>2
  <2>3. CASE i # 1
    <3>1. i - 1 \in 1..Len(t) /\ (i - 1) + 1 = i /\ ~(i <= 1)
      BY <1>2, <1>4, <1>5, <2>3
    <3> QED  BY <1>1, <1>3, <1>4, <2>1, <3>1
  <2> QED  BY <2>2, <2>3
<1>7. s = h \o t
  BY <1>4, <1>5, <1>6, SeqEqual
<1> QED  BY <1>1, <1>2, <1>3, <1>7

\* A sequence from its first element on, put together.
LEMMA FirstOfMore ==
    ASSUME NEW S, NEW e \in S, NEW s \in Seq(S)
    PROVE  /\ <<e>> \o s \in Seq(S) /\ Len(<<e>> \o s) = Len(s) + 1 /\ <<e>> \o s # <<>>
           /\ (<<e>> \o s)[1] = e
           /\ \A i \in 1..Len(s) : (<<e>> \o s)[i+1] = s[i]
           /\ Head(<<e>> \o s) = e /\ Tail(<<e>> \o s) = s
<1>1. PICK h \in Seq(S) : h = <<e>> /\ Len(h) = 1 /\ h[1] = e
  BY OneElement
<1>2. PICK t : t = h \o s
  OBVIOUS
<1>3. /\ t \in Seq(S) /\ Len(t) = 1 + Len(s)
      /\ \A i \in 1..1 + Len(s) : t[i] = IF i <= 1 THEN h[i] ELSE s[i-1]
  BY <1>1, <1>2, ConcatProperties
<1>4. Len(s) \in Nat /\ Len(t) = Len(s) + 1 /\ t # <<>>
  BY <1>3, EmptySeq, LenProperties
<1>5. t[1] = e
  BY <1>1, <1>3, <1>4
<1>6. \A i \in 1..Len(s) : t[i+1] = s[i]
  <2> TAKE i \in 1..Len(s)
  <2>1. i + 1 \in 1..1 + Len(s) /\ ~(i + 1 <= 1) /\ (i + 1) - 1 = i
    BY <1>4
  <2> QED  BY <1>3, <2>1
<1>7. Head(t) = e
  BY <1>3, <1>4, <1>5
<1>8. Tail(t) = s
  <2>1. /\ Tail(t) \in Seq(S) /\ Len(Tail(t)) = Len(t) - 1
        /\ \A i \in 1..Len(Tail(t)) : Tail(t)[i] = t[i+1]
    BY <1>3, <1>4, HeadTailProperties
  <2>2. Len(Tail(t)) = Len(s)
    BY <1>4, <2>1
  <2>3. \A i \in 1..Len(s) : Tail(t)[i] = s[i]
    BY <1>6, <2>1, <2>2
  <2> QED  BY <2>1, <2>2, <2>3, SeqEqual
<1> QED  BY <1>1, <1>2, <1>3, <1>4, <1>5, <1>6, <1>7, <1>8

\* f[i] is what the first i sequences of seqs are together.
Flattens(f, seqs) == f = [i \in 1..Len(seqs) |-> IF i = 1 THEN seqs[i] ELSE f[i-1] \o seqs[i]]

LEMMA FlattenExists ==
    ASSUME NEW S, NEW seqs \in Seq(Seq(S))
    PROVE  \E f \in [1..Len(seqs) -> Seq(S)] : Flattens(f, seqs)
<1> DEFINE D == 1..Len(seqs)
           X == Seq(S)
           rank == [i \in D |-> i]
           at(i, f) == IF i = 1 THEN seqs[i] ELSE f[i-1] \o seqs[i]
           step == [p \in D \X [D -> X] |-> at(p[1], p[2])]
<1>1. \A i \in D : seqs[i] \in X /\ i \in Nat /\ (i # 1 => i-1 \in D /\ i-1 < i)
  BY LenProperties
<1>2. rank \in [D -> Nat]
  BY <1>1
<1>3. \A i \in D : \A f \in [D -> X] : at(i, f) \in X
  <2> SUFFICES ASSUME NEW i \in D, NEW f \in [D -> X], i # 1 PROVE f[i-1] \o seqs[i] \in X
    BY <1>1
  <2>1. f[i-1] \in X /\ seqs[i] \in X
    BY <1>1
  <2> QED  BY <2>1, ConcatProperties
<1>4. step \in [D \X [D -> X] -> X]
  BY <1>3
<1>5. \A i \in D : \A f \in [D -> X] : step[<<i, f>>] = at(i, f)
  OBVIOUS
<1>6. \A i \in D : \A f, g \in [D -> X] :
         (\A u \in D : rank[u] < rank[i] => f[u] = g[u]) => step[<<i, f>>] = step[<<i, g>>]
  BY <1>1, <1>5
<1>7. X # {}
  BY EmptySeq
<1> HIDE DEF rank, step, at, D, X
<1>8. IsRecursive(step, D, X, rank)
  BY <1>2, <1>4, <1>6, <1>7 DEF IsRecursive
<1>9. PICK f \in [D -> X] : \A i \in D : f[i] = step[<<i, f>>]
  BY <1>8, RankRecursion
<1>10. f = [i \in D |-> at(i, f)]
  BY <1>5, <1>9
<1> QED  BY <1>10 DEF at, D, X, Flattens

LEMMA FlattenUnique ==
    ASSUME NEW S, NEW seqs \in Seq(Seq(S)), NEW f, NEW g, Flattens(f, seqs), Flattens(g, seqs)
    PROVE  f = g
<1> DEFINE T == {n \in Nat : n \in 1..Len(seqs) => f[n] = g[n]}
<1>1. 0 \in T
  OBVIOUS
<1>2. ASSUME NEW n \in Nat, n \in T PROVE n + 1 \in T
  <2> SUFFICES ASSUME n + 1 \in 1..Len(seqs) PROVE f[n+1] = g[n+1]
    OBVIOUS
  <2>1. CASE n = 0
    BY <2>1 DEF Flattens
  <2>2. CASE n # 0
    <3>1. n \in 1..Len(seqs) /\ n + 1 # 1 /\ (n + 1) - 1 = n
      BY <2>2, LenProperties
    <3>2. f[n+1] = f[n] \o seqs[n+1] /\ g[n+1] = g[n] \o seqs[n+1]
      BY <3>1 DEF Flattens
    <3> QED  BY <1>2, <3>1, <3>2
  <2> QED  BY <2>1, <2>2
<1> HIDE DEF T
<1>3. \A n \in Nat : n \in T
  BY <1>1, <1>2, NatAll
<1>4. \A n \in 1..Len(seqs) : f[n] = g[n]
  BY <1>3 DEF T
<1> QED  BY <1>4 DEF Flattens

LEMMA FlattenIs ==
    ASSUME NEW S, NEW seqs \in Seq(Seq(S)), seqs # <<>>, NEW f, Flattens(f, seqs)
    PROVE  FlattenSeq(seqs) = f[Len(seqs)] /\ FlattenSeq(seqs) \in Seq(S)
<1> DEFINE c == CHOOSE g : Flattens(g, seqs)
<1>1. Flattens(c, seqs)
  OBVIOUS
<1>2. PICK g \in [1..Len(seqs) -> Seq(S)] : Flattens(g, seqs)
  BY FlattenExists
<1>3. Len(seqs) \in 1..Len(seqs) /\ Len(seqs) # 0
  BY EmptySeq
<1>4. FlattenSeq(seqs) = c[Len(seqs)]
  BY <1>3 DEF FlattenSeq, Flattens
<1> HIDE DEF c
<1>5. c = f /\ c = g
  BY <1>1, <1>2, FlattenUnique
<1> QED  BY <1>2, <1>3, <1>4, <1>5

\* FlattenSeq of no sequences, and of one sequence more.
LEMMA FlattenEmpty == FlattenSeq(<<>>) = <<>>
BY DEF FlattenSeq

LEMMA FlattenType ==
    ASSUME NEW S, NEW seqs \in Seq(Seq(S))
    PROVE  FlattenSeq(seqs) \in Seq(S)
<1>1. CASE seqs = <<>>
  BY <1>1, FlattenEmpty, EmptySeq
<1>2. CASE seqs # <<>>
  BY <1>2, FlattenExists, FlattenIs
<1> QED  BY <1>1, <1>2

LEMMA FlattenAppend ==
    ASSUME NEW S, NEW seqs \in Seq(Seq(S)), NEW x \in Seq(S)
    PROVE  FlattenSeq(Append(seqs, x)) = FlattenSeq(seqs) \o x
<1> DEFINE N == Len(seqs)
<1>1. PICK more \in Seq(Seq(S)) : /\ more = Append(seqs, x) /\ more # <<>> /\ Len(more) = N + 1
                                  /\ more[N+1] = x /\ \A i \in 1..N : more[i] = seqs[i]
  <2>1. /\ Append(seqs, x) \in Seq(Seq(S)) /\ Append(seqs, x) # <<>> /\ Len(Append(seqs, x)) = N + 1
        /\ Append(seqs, x)[N+1] = x /\ \A i \in 1..N : Append(seqs, x)[i] = seqs[i]
    BY AppendProperties
  <2> QED  BY <2>1
<1>2. N \in Nat
  BY LenProperties
<1>3. PICK f \in [1..Len(more) -> Seq(S)] : Flattens(f, more)
  BY FlattenExists
<1>4. \A i \in 1..N+1 : f[i] = IF i = 1 THEN more[i] ELSE f[i-1] \o more[i]
  BY <1>1, <1>3 DEF Flattens
<1>5. FlattenSeq(more) = f[N+1]
  BY <1>1, <1>3, FlattenIs
<1>6. CASE N = 0
  <2>1. f[N+1] = x
    BY <1>1, <1>4, <1>6
  <2>2. seqs = <<>>
    BY <1>6, EmptySeq
  <2> QED  BY <1>1, <1>5, <2>1, <2>2, FlattenEmpty, ConcatEmptySeq
<1>7. CASE N # 0
  <2> DEFINE g == [i \in 1..N |-> f[i]]
  <2>1. \A i \in 1..N : g[i] = IF i = 1 THEN seqs[i] ELSE g[i-1] \o seqs[i]
    <3> TAKE i \in 1..N
    <3>1. i \in 1..N+1 /\ (i # 1 => i-1 \in 1..N)
      BY <1>2
    <3>2. f[i] = IF i = 1 THEN seqs[i] ELSE f[i-1] \o seqs[i]
      BY <1>1, <1>4, <3>1
    <3> QED  BY <3>1, <3>2
  <2>2. g[N] = f[N]
    BY <1>2, <1>7
  <2>3. Flattens(g, seqs)
    BY <2>1 DEF Flattens
  <2> HIDE DEF g
  <2>4. seqs # <<>>
    BY <1>7
  <2>5. FlattenSeq(seqs) = f[N]
    BY <2>2, <2>3, <2>4, FlattenIs
  <2>6. f[N+1] = f[N] \o x
    <3>1. N + 1 \in 1..N+1 /\ N + 1 # 1 /\ (N + 1) - 1 = N
      BY <1>2, <1>7
    <3> QED  BY <1>1, <1>4, <3>1
  <2> QED  BY <1>1, <1>5, <2>5, <2>6
<1> QED  BY <1>6, <1>7
=============================================================================
