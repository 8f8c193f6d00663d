-------------------------- MODULE BlockRelayProofs --------------------------
(***************************************************************************)
(* What readers of a message see is the same everywhere and stays what the *)
(* first sender meant, for trees of blocks of any shape and any number of  *)
(* hops.                                                                   *)
(***************************************************************************)
EXTENDS BlockRelay, Recursion

-----------------------------------------------------------------------------
(* Trees *)

LEMMA MaxDepthIs == MaxDepth \in Nat /\ MaxDepth # 0
BY BlocksAssumption

TreeAt(n, f) == IF n = 0 THEN {} ELSE BlockOver(f[n-1])

\* The trees up to depth n.
Upto(f, n) == f = [k \in 0..n |-> TreeAt(k, f)]

LEMMA UptoExists == \A n \in Nat : \E f : Upto(f, n)
<1> DEFINE T == {n \in Nat : \E f : Upto(f, n)}
<1>1. 0 \in T
  <2> DEFINE f == [k \in 0..0 |-> {}]
  <2>1. \A k \in 0..0 : TreeAt(k, f) = {}
    BY DEF TreeAt
  <2>2. Upto(f, 0)
    BY <2>1 DEF Upto
  <2> QED  BY <2>2
<1>2. ASSUME NEW n \in Nat, n \in T PROVE n + 1 \in T
  <2>1. PICK f : Upto(f, n)
    BY <1>2
  <2>2. \A k \in 0..n : f[k] = TreeAt(k, f)
    BY <2>1 DEF Upto
  <2> DEFINE g == [k \in 0..n+1 |-> TreeAt(k, f)]
  <2>3. \A k \in 0..n : g[k] = f[k]
    BY <2>2
  <2>4. \A k \in 0..n+1 : g[k] = TreeAt(k, f)
    OBVIOUS
  <2>5. g = [k \in 0..n+1 |-> g[k]]
    OBVIOUS
  <2> HIDE DEF g
  <2>6. \A k \in 0..n+1 : TreeAt(k, f) = TreeAt(k, g)
    <3> TAKE k \in 0..n+1
    <3>1. k # 0 => k - 1 \in 0..n
      OBVIOUS
    <3> QED  BY <2>3, <3>1 DEF TreeAt
  <2>7. Upto(g, n + 1)
    BY <2>4, <2>5, <2>6 DEF Upto
  <2> QED  BY <2>7
<1> HIDE DEF T
<1>3. \A n \in Nat : n \in T
  BY <1>1, <1>2, NatAll
<1> QED  BY <1>3 DEF T

LEMMA UptoUnique ==
    ASSUME NEW f, NEW n \in Nat, Upto(f, n), NEW g, NEW m \in Nat, Upto(g, m)
    PROVE  \A k \in Nat : k <= n /\ k <= m => f[k] = g[k]
<1> DEFINE T == {k \in Nat : k <= n /\ k <= m => f[k] = g[k]}
<1>1. \A k \in 0..n : f[k] = TreeAt(k, f)
  BY DEF Upto
<1>2. \A k \in 0..m : g[k] = TreeAt(k, g)
  BY DEF Upto
<1>3. 0 \in T
  BY <1>1, <1>2 DEF TreeAt
<1>4. ASSUME NEW k \in Nat, k \in T PROVE k + 1 \in T
  <2> SUFFICES ASSUME k + 1 <= n, k + 1 <= m PROVE f[k+1] = g[k+1]
    OBVIOUS
  <2>1. f[k] = g[k]
    BY <1>4
  <2>2. k + 1 \in 0..n /\ k + 1 \in 0..m /\ k + 1 # 0 /\ (k + 1) - 1 = k
    OBVIOUS
  <2>3. TreeAt(k + 1, f) = TreeAt(k + 1, g)
    BY <2>1, <2>2 DEF TreeAt
  <2> QED  BY <1>1, <1>2, <2>2, <2>3
<1> HIDE DEF T
<1>5. \A k \in Nat : k \in T
  BY <1>3, <1>4, NatAll
<1> QED  BY <1>5 DEF T

AreTrees(f) == f = [n \in Nat |-> IF n = 0 THEN {} ELSE BlockOver(f[n-1])]

\* Tree is defined for every depth.
LEMMA TreeIs == Tree[0] = {} /\ \A n \in Nat : Tree[n+1] = BlockOver(Tree[n])
<1> DEFINE upto == [n \in Nat |-> CHOOSE f : Upto(f, n)]
           tree == [n \in Nat |-> upto[n][n]]
<1>1. \A n \in Nat : Upto(upto[n], n)
  BY UptoExists
<1>2. \A n \in Nat : tree[n] = upto[n][n]
  OBVIOUS
<1>3. tree = [n \in Nat |-> tree[n]]
  OBVIOUS
<1> HIDE DEF upto, tree
<1>4. \A n \in Nat : \A k \in 0..n : upto[n][k] = tree[k]
  BY <1>1, <1>2, UptoUnique
<1>5. \A n \in Nat : tree[n] = TreeAt(n, tree)
  <2> TAKE n \in Nat
  <2>1. upto[n][n] = TreeAt(n, upto[n])
    <3>1. \A f : Upto(f, n) => \A k \in 0..n : f[k] = TreeAt(k, f)
      BY DEF Upto
    <3> QED  BY <1>1, <3>1
  <2>2. n # 0 => upto[n][n-1] = tree[n-1]
    BY <1>4
  <2>3. TreeAt(n, upto[n]) = TreeAt(n, tree)
    BY <2>2 DEF TreeAt
  <2> QED  BY <1>2, <2>1, <2>3
<1>6. AreTrees(tree)
  BY <1>3, <1>5 DEF AreTrees, TreeAt
<1>7. Tree = CHOOSE f : AreTrees(f)
  BY DEF Tree, AreTrees
<1>8. AreTrees(Tree)
  BY <1>6, <1>7
<1>9. \A n \in Nat : Tree[n] = IF n = 0 THEN {} ELSE BlockOver(Tree[n-1])
  BY <1>8 DEF AreTrees
<1> QED  BY <1>9

Kinds == Leaves \cup Wrappers \cup Lists \cup {"unknown"}

\* What a block is made of.
Node(kind, text, inner, plain) == [kind |-> kind, text |-> text, inner |-> inner, plain |-> plain]

Fits(kind, inner) ==
    /\ kind \in Wrappers => Len(inner) <= 1
    /\ kind \in Leaves \cup {"unknown"} => inner = <<>>

LEMMA BlockOverIs ==
    ASSUME NEW S
    PROVE  /\ \A b \in BlockOver(S) : /\ b.kind \in Kinds /\ b.text \in Text /\ b.inner \in Seq(S)
                                      /\ b.plain \in Text /\ Fits(b.kind, b.inner)
                                      /\ b = Node(b.kind, b.text, b.inner, b.plain)
           /\ \A kind \in Kinds, text \in Text, inner \in Seq(S), plain \in Text :
                 Fits(kind, inner) => Node(kind, text, inner, plain) \in BlockOver(S)
BY DEF BlockOver, Kinds, Fits, Node

LEMMA TreeGrows == \A m \in Nat : \A n \in 0..m : Tree[n] \subseteq Tree[m]
<1>1. \A n \in Nat : Tree[n] \subseteq Tree[n+1]
  <2> DEFINE T == {n \in Nat : Tree[n] \subseteq Tree[n+1]}
  <2>1. 0 \in T
    BY TreeIs
  <2>2. ASSUME NEW n \in Nat, n \in T PROVE n + 1 \in T
    <3>1. Seq(Tree[n]) \subseteq Seq(Tree[n+1])
      BY <2>2, SeqMonotonic
    <3>2. BlockOver(Tree[n]) \subseteq BlockOver(Tree[n+1])
      BY <3>1 DEF BlockOver
    <3>3. Tree[n+1] = BlockOver(Tree[n]) /\ Tree[(n+1)+1] = BlockOver(Tree[n+1])
      BY TreeIs
    <3> QED  BY <3>2, <3>3
  <2> HIDE DEF T
  <2>3. \A n \in Nat : n \in T
    BY <2>1, <2>2, NatAll
  <2> QED  BY <2>3 DEF T
<1> DEFINE T == {m \in Nat : \A n \in 0..m : Tree[n] \subseteq Tree[m]}
<1>2. 0 \in T
  OBVIOUS
<1>3. ASSUME NEW m \in Nat, m \in T PROVE m + 1 \in T
  <2> SUFFICES ASSUME NEW n \in 0..m+1 PROVE Tree[n] \subseteq Tree[m+1]
    OBVIOUS
  <2>1. CASE n = m + 1
    BY <2>1
  <2>2. CASE n \in 0..m
    BY <1>1, <1>3, <2>2
  <2> QED  BY <2>1, <2>2
<1> HIDE DEF T
<1>4. \A m \in Nat : m \in T
  BY <1>2, <1>3, NatAll
<1> QED  BY <1>4 DEF T

\* How deep a block is.
Depth == [b \in AnyBlock |-> CHOOSE n \in Nat : b \in Tree[n] /\ \A m \in Nat : b \in Tree[m] => n <= m]

LEMMA DepthIs ==
    /\ Depth \in [AnyBlock -> Nat]
    /\ \A b \in AnyBlock :
          /\ Depth[b] \in 1..MaxDepth
          /\ b \in Tree[Depth[b]]
          /\ \A m \in Nat : b \in Tree[m] => Depth[b] <= m
<1>1. MaxDepth \in Nat
  BY MaxDepthIs
<1>2. ASSUME NEW b \in AnyBlock
      PROVE  \E n \in Nat : b \in Tree[n] /\ \A m \in Nat : b \in Tree[m] => n <= m
  <2> DEFINE T == {n \in Nat : b \in Tree[n]}
  <2>1. T \in SUBSET Nat /\ T # {}
    BY <1>1, <1>2 DEF AnyBlock
  <2>2. PICK n \in T : \A m \in T : n <= m
    BY <2>1, NatMin
  <2> QED  BY <2>2
<1>3. \A b \in AnyBlock : Depth[b] = CHOOSE n \in Nat : b \in Tree[n] /\ \A m \in Nat : b \in Tree[m] => n <= m
  BY DEF Depth
<1>4. \A b \in AnyBlock : /\ Depth[b] \in Nat /\ b \in Tree[Depth[b]]
                          /\ \A m \in Nat : b \in Tree[m] => Depth[b] <= m
  BY <1>2, <1>3
<1>5. \A b \in AnyBlock : Depth[b] <= MaxDepth /\ Depth[b] # 0
  BY <1>1, <1>4, TreeIs DEF AnyBlock
<1>6. \A b \in AnyBlock : Depth[b] \in 1..MaxDepth
  BY <1>1, <1>4, <1>5
<1>7. Depth \in [AnyBlock -> Nat]
  <2>1. Depth = [b \in AnyBlock |-> Depth[b]]
    BY DEF Depth
  <2> QED  BY <1>4, <2>1
<1> QED  BY <1>4, <1>6, <1>7

LEMMA TreeIsBlock == \A n \in 0..MaxDepth : Tree[n] \subseteq AnyBlock
BY MaxDepthIs, TreeGrows DEF AnyBlock

\* A block over blocks of a set of which it needs to know nothing else.
LEMMA BlockIs ==
    ASSUME NEW b \in AnyBlock
    PROVE  /\ b.kind \in Kinds /\ b.text \in Text /\ b.plain \in Text /\ b.inner \in Seq(AnyBlock)
           /\ Fits(b.kind, b.inner) /\ b = Node(b.kind, b.text, b.inner, b.plain)
           /\ Len(b.inner) \in Nat /\ DOMAIN b.inner = 1..Len(b.inner)
           /\ \A i \in DOMAIN b.inner : b.inner[i] \in AnyBlock /\ Depth[b.inner[i]] < Depth[b]
<1>1. PICK n \in Nat : n + 1 = Depth[b] /\ n \in 0..MaxDepth
  <2>1. Depth[b] \in 1..MaxDepth /\ MaxDepth \in Nat
    BY DepthIs, MaxDepthIs
  <2>2. Depth[b] - 1 \in Nat /\ (Depth[b] - 1) + 1 = Depth[b] /\ Depth[b] - 1 \in 0..MaxDepth
    BY <2>1
  <2> QED  BY <2>2
<1>2. b \in BlockOver(Tree[n])
  BY <1>1, DepthIs, TreeIs
<1>3. /\ b.kind \in Kinds /\ b.text \in Text /\ b.plain \in Text /\ b.inner \in Seq(Tree[n])
      /\ Fits(b.kind, b.inner) /\ b = Node(b.kind, b.text, b.inner, b.plain)
  BY <1>2, BlockOverIs
<1>4. Tree[n] \subseteq AnyBlock
  BY <1>1, TreeIsBlock
<1>5. b.inner \in Seq(AnyBlock)
  BY <1>3, <1>4, SeqMonotonic
<1>6. Len(b.inner) \in Nat /\ DOMAIN b.inner = 1..Len(b.inner)
  BY <1>3, LenProperties
<1>7. ASSUME NEW i \in DOMAIN b.inner PROVE b.inner[i] \in AnyBlock /\ Depth[b.inner[i]] < Depth[b]
  <2>1. b.inner[i] \in Tree[n]
    BY <1>3, <1>6, <1>7, ElementOfSeq
  <2>2. b.inner[i] \in AnyBlock
    BY <1>4, <2>1
  <2>3. Depth[b.inner[i]] <= n /\ Depth[b.inner[i]] \in Nat
    BY <2>1, <2>2, DepthIs
  <2> QED  BY <1>1, <2>2, <2>3
<1> QED  BY <1>3, <1>5, <1>6, <1>7

\* A block with others inside it that are no deeper.
NoDeeper(inner, b) ==
    /\ inner = [i \in DOMAIN b.inner |-> inner[i]]
    /\ \A i \in DOMAIN b.inner : inner[i] \in AnyBlock /\ Depth[inner[i]] <= Depth[b.inner[i]]

LEMMA Rebuilt ==
    ASSUME NEW b \in AnyBlock, NEW inner, NoDeeper(inner, b), NEW p \in Text
    PROVE  /\ Node(b.kind, b.text, inner, p) \in AnyBlock
           /\ Depth[Node(b.kind, b.text, inner, p)] <= Depth[b]
           /\ Len(inner) = Len(b.inner) /\ DOMAIN inner = DOMAIN b.inner
<1>1. PICK n \in Nat : n + 1 = Depth[b] /\ n + 1 \in 0..MaxDepth
  <2>1. Depth[b] \in 1..MaxDepth /\ MaxDepth \in Nat
    BY DepthIs, MaxDepthIs
  <2>2. Depth[b] - 1 \in Nat /\ (Depth[b] - 1) + 1 = Depth[b] /\ Depth[b] \in 0..MaxDepth
    BY <2>1
  <2> QED  BY <2>2
<1>2. ASSUME NEW i \in DOMAIN b.inner PROVE inner[i] \in Tree[n]
  <2>1. /\ inner[i] \in AnyBlock /\ Depth[inner[i]] <= Depth[b.inner[i]]
        /\ Depth[b.inner[i]] < Depth[b] /\ b.inner[i] \in AnyBlock
    BY <1>2, BlockIs DEF NoDeeper
  <2>2. Depth[inner[i]] \in Nat /\ Depth[b.inner[i]] \in Nat /\ inner[i] \in Tree[Depth[inner[i]]]
    BY <2>1, DepthIs
  <2>3. Depth[inner[i]] \in 0..n
    BY <1>1, <2>1, <2>2
  <2> QED  BY <2>2, <2>3, TreeGrows
<1>3. PICK N \in Nat : N = Len(b.inner) /\ DOMAIN b.inner = 1..N
  BY BlockIs
<1>4. inner \in [1..N -> Tree[n]]
  BY <1>2, <1>3 DEF NoDeeper
<1>5. inner \in Seq(Tree[n]) /\ Len(inner) = N /\ DOMAIN inner = 1..N
  <2>1. inner \in Seq(Tree[n])
    BY <1>4, SeqDef
  <2>2. DOMAIN inner = 1..N /\ Len(inner) \in Nat /\ DOMAIN inner = 1..Len(inner)
    BY <1>4, <2>1, LenProperties
  <2> QED  BY <2>1, <2>2
<1>6. Fits(b.kind, inner)
  <2>1. Fits(b.kind, b.inner)
    BY BlockIs
  <2>2. b.inner = <<>> => inner = <<>>
    BY <1>3, <1>5, EmptySeq
  <2> QED  BY <1>3, <1>5, <2>1, <2>2 DEF Fits
<1>7. Node(b.kind, b.text, inner, p) \in BlockOver(Tree[n])
  BY <1>5, <1>6, BlockIs, BlockOverIs
<1>8. Node(b.kind, b.text, inner, p) \in Tree[n+1]
  BY <1>7, TreeIs
<1>9. Node(b.kind, b.text, inner, p) \in AnyBlock
  BY <1>1, <1>8, TreeIsBlock
<1>10. Depth[Node(b.kind, b.text, inner, p)] <= n + 1
  BY <1>8, <1>9, DepthIs
<1> QED  BY <1>1, <1>3, <1>5, <1>9, <1>10

\* A text is a block.
LEMMA TextIsBlock ==
    ASSUME NEW t \in Text
    PROVE  /\ Block("text", t, <<>>) = Node("text", t, <<>>, <<>>)
           /\ Block("text", t, <<>>) \in AnyBlock
<1>1. <<>> \in Text /\ \A S : <<>> \in Seq(S) /\ Len(<<>>) = 0
  BY DEF Text
<1>2. Block("text", t, <<>>) = Node("text", t, <<>>, <<>>)
  BY DEF Block, Node
<1>3. "text" \in Kinds /\ Fits("text", <<>>)
  BY <1>1 DEF Kinds, Fits, Leaves, Wrappers
<1>4. Node("text", t, <<>>, <<>>) \in BlockOver(Tree[0])
  BY <1>1, <1>3, BlockOverIs
<1>5. Tree[0+1] \subseteq AnyBlock /\ Tree[0+1] = BlockOver(Tree[0])
  <2>1. 1 \in 0..MaxDepth /\ 0 \in Nat /\ 0 + 1 = 1
    BY MaxDepthIs
  <2> QED  BY <2>1, TreeIs, TreeIsBlock
<1> QED  BY <1>2, <1>4, <1>5

LEMMA BlocksAre ==
    ASSUME NEW T, IsInductive(T, AnyBlock, Depth)
    PROVE  \A b \in AnyBlock : b \in T
BY RankInduction

-----------------------------------------------------------------------------
(* Plain texts replaced *)

Labels == [AnyBlock -> Text]

Inside(b, f) == [i \in DOMAIN b.inner |-> f[b.inner[i]]]

Anew(b, f, label) ==
    LET inside == [b EXCEPT !.inner = Inside(b, f)]
    IN  [inside EXCEPT !.plain = label[inside]]

\* f keeps the blocks in b as deep as they are.
Keeps(f, b) ==
    \A u \in AnyBlock : Depth[u] < Depth[b] => f[u] \in AnyBlock /\ Depth[f[u]] <= Depth[u]

LEMMA AnewIs ==
    ASSUME NEW b \in AnyBlock, NEW f, NEW label \in Labels, Keeps(f, b)
    PROVE  /\ NoDeeper(Inside(b, f), b)
           /\ Node(b.kind, b.text, Inside(b, f), b.plain) \in AnyBlock
           /\ Anew(b, f, label) =
                 Node(b.kind, b.text, Inside(b, f), label[Node(b.kind, b.text, Inside(b, f), b.plain)])
           /\ Anew(b, f, label) \in AnyBlock /\ Depth[Anew(b, f, label)] <= Depth[b]
<1>1. NoDeeper(Inside(b, f), b)
  BY BlockIs DEF NoDeeper, Inside, Keeps
<1> DEFINE inside == Node(b.kind, b.text, Inside(b, f), b.plain)
<1>2. inside \in AnyBlock
  BY <1>1, BlockIs, Rebuilt
<1>3. label[inside] \in Text
  BY <1>2 DEF Labels
<1>4. [b EXCEPT !.inner = Inside(b, f)] = inside
  BY BlockIs DEF Node
<1>5. Anew(b, f, label) = [inside EXCEPT !.plain = label[inside]]
  BY <1>4 DEF Anew
<1>6. Anew(b, f, label) = Node(b.kind, b.text, Inside(b, f), label[inside])
  BY <1>5 DEF Node
<1>7. /\ Node(b.kind, b.text, Inside(b, f), label[inside]) \in AnyBlock
      /\ Depth[Node(b.kind, b.text, Inside(b, f), label[inside])] <= Depth[b]
  BY <1>1, <1>3, Rebuilt
<1> QED  BY <1>1, <1>2, <1>6, <1>7

Relabels(f, label) == f = [b \in AnyBlock |-> Anew(b, f, label)]

\* There is such a relabelling.
LEMMA RelabelsExists ==
    ASSUME NEW label \in Labels
    PROVE  \E f : Relabels(f, label)
<1> DEFINE F == [AnyBlock -> AnyBlock]
           at(b, f) == IF Anew(b, f, label) \in AnyBlock THEN Anew(b, f, label) ELSE b
           step == [p \in AnyBlock \X F |-> at(p[1], p[2])]
<1>1. \A b \in AnyBlock : \A f \in F : step[<<b, f>>] = at(b, f)
  OBVIOUS
<1>2. IsRecursive(step, AnyBlock, AnyBlock, Depth)
  <2>1. AnyBlock # {}
    <3>1. <<>> \in Text
      BY DEF Text
    <3> QED  BY <3>1, TextIsBlock
  <2>2. Depth \in [AnyBlock -> Nat]
    BY DepthIs
  <2>3. step \in [AnyBlock \X F -> AnyBlock]
    OBVIOUS
  <2>4. \A b \in AnyBlock : \A f, g \in F :
           (\A u \in AnyBlock : Depth[u] < Depth[b] => f[u] = g[u]) => step[<<b, f>>] = step[<<b, g>>]
    <3> SUFFICES ASSUME NEW b \in AnyBlock, NEW f \in F, NEW g \in F,
                        \A u \in AnyBlock : Depth[u] < Depth[b] => f[u] = g[u]
                 PROVE  at(b, f) = at(b, g)
      BY <1>1
    <3>1. Inside(b, f) = Inside(b, g)
      BY BlockIs DEF Inside
    <3>2. Anew(b, f, label) = Anew(b, g, label)
      BY <3>1 DEF Anew
    <3> QED  BY <3>2
  <2> HIDE DEF step
  <2> QED  BY <2>1, <2>2, <2>3, <2>4 DEF IsRecursive
<1> HIDE DEF step
<1>3. PICK f \in F : \A b \in AnyBlock : f[b] = step[<<b, f>>]
  BY <1>2, RankRecursion
<1>4. \A b \in AnyBlock : f[b] \in AnyBlock /\ f[b] = at(b, f)
  BY <1>1, <1>3
<1> DEFINE T == {b \in AnyBlock : f[b] = Anew(b, f, label) /\ Depth[f[b]] <= Depth[b]}
<1>5. ASSUME NEW b \in AnyBlock, \A u \in AnyBlock : Depth[u] < Depth[b] => u \in T
      PROVE  b \in T
  <2>1. Keeps(f, b)
    BY <1>4, <1>5 DEF Keeps
  <2>2. Anew(b, f, label) \in AnyBlock /\ Depth[Anew(b, f, label)] <= Depth[b]
    BY <2>1, AnewIs
  <2> QED  BY <1>4, <2>2
<1> HIDE DEF T
<1>6. IsInductive(T, AnyBlock, Depth)
  BY <1>5, DepthIs DEF IsInductive
<1>7. \A b \in AnyBlock : f[b] = Anew(b, f, label)
  BY <1>6, BlocksAre DEF T
<1>8. f = [b \in AnyBlock |-> Anew(b, f, label)]
  <2>1. f = [b \in AnyBlock |-> f[b]]
    BY <1>3
  <2> QED  BY <1>7, <2>1
<1> QED  BY <1>8 DEF Relabels

\* What it makes of a block.
LEMMA RelabellingIs ==
    ASSUME NEW label \in Labels, NEW new, new = Relabelling(label), NEW b \in AnyBlock
    PROVE  /\ new[b] \in AnyBlock /\ Depth[new[b]] <= Depth[b]
           /\ NoDeeper(Inside(b, new), b)
           /\ Node(b.kind, b.text, Inside(b, new), b.plain) \in AnyBlock
           /\ new[b] = Node(b.kind, b.text, Inside(b, new),
                            label[Node(b.kind, b.text, Inside(b, new), b.plain)])
<1>1. Relabelling(label) = CHOOSE f : Relabels(f, label)
  BY DEF Relabelling, Relabels, Anew, Inside
<1>2. Relabels(new, label)
  BY <1>1, RelabelsExists
<1>3. \A c \in AnyBlock : new[c] = Anew(c, new, label)
  BY <1>2 DEF Relabels
<1> DEFINE T == {c \in AnyBlock : new[c] \in AnyBlock /\ Depth[new[c]] <= Depth[c]}
<1>4. ASSUME NEW c \in AnyBlock, \A u \in AnyBlock : Depth[u] < Depth[c] => u \in T
      PROVE  c \in T
  <2>1. Keeps(new, c)
    BY <1>4 DEF Keeps
  <2> QED  BY <1>3, <2>1, AnewIs
<1> HIDE DEF T
<1>5. IsInductive(T, AnyBlock, Depth)
  BY <1>4, DepthIs DEF IsInductive
<1>6. \A c \in AnyBlock : new[c] \in AnyBlock /\ Depth[new[c]] <= Depth[c]
  BY <1>5, BlocksAre DEF T
<1>7. Keeps(new, b)
  BY <1>6 DEF Keeps
<1> QED  BY <1>3, <1>6, <1>7, AnewIs

-----------------------------------------------------------------------------
(* What a block reads like *)

Own(b) == IF b.kind = "timestamp" /\ b.text = <<>> THEN <<"0">> ELSE b.text

Pieces(b, f, sep) == [i \in DOMAIN b.inner |-> (IF i = 1 THEN <<>> ELSE sep) \o f[b.inner[i]]]

ReadAt(b, f) ==
    LET Joined(sep) == FlattenSeq(Pieces(b, f, sep))
    IN  CASE b.kind \in Leaves -> IF b.kind = "timestamp" /\ b.text = <<>> THEN <<"0">> ELSE b.text
          [] b.kind = "list"   -> Joined(<<", ">>)
          [] b.kind = "link"   -> Joined(<<>>) \o <<" (">> \o b.text \o <<")">>
          [] OTHER             -> Joined(<<>>)

LEMMA ReadAtIs ==
    ASSUME NEW b, NEW f
    PROVE  /\ b.kind \in Leaves => ReadAt(b, f) = Own(b)
           /\ b.kind = "list" => ReadAt(b, f) = FlattenSeq(Pieces(b, f, <<", ">>))
           /\ b.kind = "link" =>
                 ReadAt(b, f) = FlattenSeq(Pieces(b, f, <<>>)) \o <<" (">> \o b.text \o <<")">>
           /\ b.kind \notin Leaves \cup {"list", "link"} =>
                 ReadAt(b, f) = FlattenSeq(Pieces(b, f, <<>>))
<1>1. b.kind \in Leaves => b.kind # "list" /\ b.kind # "link"
  BY DEF Leaves
<1> QED  BY <1>1 DEF ReadAt, Own

LEMMA JoinText ==
    ASSUME NEW s \in Text, NEW t \in Text
    PROVE  s \o t \in Text /\ <<>> \o s = s
<1>1. s \in Seq(Word) /\ t \in Seq(Word)
  BY DEF Text
<1> QED  BY <1>1, ConcatProperties, ConcatEmptySeq DEF Text

LEMMA PiecesAre ==
    ASSUME NEW b \in AnyBlock, NEW f, NEW sep \in Text,
           \A i \in DOMAIN b.inner : f[b.inner[i]] \in Text
    PROVE  Pieces(b, f, sep) \in Seq(Text) /\ FlattenSeq(Pieces(b, f, sep)) \in Text
<1>1. PICK n \in Nat : DOMAIN b.inner = 1..n
  BY BlockIs
<1>2. <<>> \in Text
  BY DEF Text
<1>3. \A i \in 1..n : (IF i = 1 THEN <<>> ELSE sep) \o f[b.inner[i]] \in Text
  BY <1>1, <1>2, JoinText
<1>4. Pieces(b, f, sep) \in [1..n -> Text]
  BY <1>1, <1>3 DEF Pieces
<1>5. Pieces(b, f, sep) \in Seq(Text)
  BY <1>4, SeqDef
<1> QED  BY <1>5, FlattenType DEF Text

LEMMA ReadAtIsText ==
    ASSUME NEW b \in AnyBlock, NEW f, \A i \in DOMAIN b.inner : f[b.inner[i]] \in Text
    PROVE  ReadAt(b, f) \in Text
<1>1. /\ <<>> \in Text /\ <<", ">> \in Text /\ <<" (">> \in Text /\ <<")">> \in Text
      /\ <<"0">> \in Text
  <2>1. ", " \in Word /\ " (" \in Word /\ ")" \in Word /\ "0" \in Word
    BY BlocksAssumption
  <2>2. \A w \in Word : <<w>> \in Text
    BY OneElement DEF Text
  <2>3. <<>> \in Text
    BY DEF Text
  <2> QED  BY <2>1, <2>2, <2>3
<1>2. b.text \in Text
  BY BlockIs
<1>3. FlattenSeq(Pieces(b, f, <<>>)) \in Text /\ FlattenSeq(Pieces(b, f, <<", ">>)) \in Text
  BY <1>1, PiecesAre
<1>4. FlattenSeq(Pieces(b, f, <<>>)) \o <<" (">> \o b.text \o <<")">> \in Text
  <2>1. FlattenSeq(Pieces(b, f, <<>>)) \o <<" (">> \in Text
    BY <1>1, <1>3, JoinText
  <2>2. FlattenSeq(Pieces(b, f, <<>>)) \o <<" (">> \o b.text \in Text
    BY <1>2, <2>1, JoinText
  <2> QED  BY <1>1, <2>2, JoinText
<1>5. Own(b) \in Text
  BY <1>1, <1>2 DEF Own
<1> QED  BY <1>3, <1>4, <1>5, ReadAtIs

\* What a block reads like depends on its kind, its text and what is inside it.
LEMMA ReadAtSame ==
    ASSUME NEW b, NEW c, NEW f, NEW g, b.kind = c.kind, b.text = c.text,
           DOMAIN b.inner = DOMAIN c.inner,
           \A i \in DOMAIN b.inner : f[b.inner[i]] = g[c.inner[i]]
    PROVE  ReadAt(b, f) = ReadAt(c, g)
<1>1. \A sep : Pieces(b, f, sep) = Pieces(c, g, sep)
  BY DEF Pieces
<1>2. Own(b) = Own(c)
  BY DEF Own
<1>3. /\ FlattenSeq(Pieces(b, f, <<", ">>)) = FlattenSeq(Pieces(c, g, <<", ">>))
      /\ FlattenSeq(Pieces(b, f, <<>>)) = FlattenSeq(Pieces(c, g, <<>>))
  BY <1>1
<1>4. CASE b.kind \in Leaves
  BY <1>2, <1>4, ReadAtIs
<1>5. CASE b.kind = "list"
  BY <1>3, <1>5, ReadAtIs
<1>6. CASE b.kind = "link"
  BY <1>3, <1>6, ReadAtIs
<1>7. CASE b.kind \notin Leaves \cup {"list", "link"}
  <2>1. ReadAt(b, f) = FlattenSeq(Pieces(b, f, <<>>))
    BY <1>7, ReadAtIs
  <2>2. ReadAt(c, g) = FlattenSeq(Pieces(c, g, <<>>))
    <3>1. c.kind \notin Leaves \cup {"list", "link"}
      BY <1>7
    <3> QED  BY <3>1, ReadAtIs
  <2> QED  BY <1>3, <2>1, <2>2
<1> QED  BY <1>4, <1>5, <1>6, <1>7

Reads(f) == f = [b \in AnyBlock |-> ReadAt(b, f)]

LEMMA ReadingIs ==
    ASSUME NEW b \in AnyBlock
    PROVE  Reading[b] \in Text /\ Reading[b] = ReadAt(b, Reading)
<1> DEFINE F == [AnyBlock -> Text]
           step == [p \in AnyBlock \X F |-> ReadAt(p[1], p[2])]
<1>1. \A c \in AnyBlock : \A f \in F : step[<<c, f>>] = ReadAt(c, f)
  OBVIOUS
<1>2. IsRecursive(step, AnyBlock, Text, Depth)
  <2>1. Text # {}
    <3>1. <<>> \in Text
      BY DEF Text
    <3> QED  BY <3>1
  <2>2. Depth \in [AnyBlock -> Nat]
    BY DepthIs
  <2>3. step \in [AnyBlock \X F -> Text]
    <3>1. \A c \in AnyBlock : \A f \in F : ReadAt(c, f) \in Text
      BY BlockIs, ReadAtIsText
    <3> QED  BY <3>1
  <2>4. \A c \in AnyBlock : \A f, g \in F :
           (\A u \in AnyBlock : Depth[u] < Depth[c] => f[u] = g[u]) => step[<<c, f>>] = step[<<c, g>>]
    <3> SUFFICES ASSUME NEW c \in AnyBlock, NEW f \in F, NEW g \in F,
                        \A u \in AnyBlock : Depth[u] < Depth[c] => f[u] = g[u]
                 PROVE  ReadAt(c, f) = ReadAt(c, g)
      BY <1>1
    <3>1. \A i \in DOMAIN c.inner : f[c.inner[i]] = g[c.inner[i]]
      BY BlockIs
    <3> QED  BY <3>1, ReadAtSame
  <2> HIDE DEF step
  <2> QED  BY <2>1, <2>2, <2>3, <2>4 DEF IsRecursive
<1> HIDE DEF step
<1>3. PICK f \in F : \A c \in AnyBlock : f[c] = step[<<c, f>>]
  BY <1>2, RankRecursion
<1>4. Reads(f)
  <2>1. f = [c \in AnyBlock |-> f[c]]
    BY <1>3
  <2>2. \A c \in AnyBlock : f[c] = ReadAt(c, f)
    BY <1>1, <1>3
  <2> QED  BY <2>1, <2>2 DEF Reads
<1>5. Reading = CHOOSE g : Reads(g)
  BY DEF Reading, Reads, ReadAt, Pieces
<1>6. Reads(Reading)
  BY <1>4, <1>5
<1>7. \A c \in AnyBlock : Reading[c] = ReadAt(c, Reading)
  BY <1>6 DEF Reads
<1> DEFINE T == {c \in AnyBlock : Reading[c] \in Text}
<1>8. ASSUME NEW c \in AnyBlock, \A u \in AnyBlock : Depth[u] < Depth[c] => u \in T
      PROVE  c \in T
  <2>1. \A i \in DOMAIN c.inner : Reading[c.inner[i]] \in Text
    BY <1>8, BlockIs
  <2> QED  BY <1>7, <2>1, ReadAtIsText
<1> HIDE DEF T
<1>9. IsInductive(T, AnyBlock, Depth)
  BY <1>8, DepthIs DEF IsInductive
<1>10. \A c \in AnyBlock : Reading[c] \in Text
  BY <1>9, BlocksAre DEF T
<1> QED  BY <1>7, <1>10

\* A text reads like itself.
LEMMA TextReads ==
    ASSUME NEW t \in Text
    PROVE  Reading[Block("text", t, <<>>)] = t
<1>1. PICK b \in AnyBlock : b = Block("text", t, <<>>)
  BY TextIsBlock
<1>2. b.kind = "text" /\ b.text = t
  BY <1>1 DEF Block
<1>3. Own(b) = t /\ b.kind \in Leaves
  BY <1>2 DEF Own, Leaves
<1> QED  BY <1>1, <1>3, ReadingIs, ReadAtIs

Plain == [b \in AnyBlock |-> b.plain]

\* A block is rendered from the plain texts inside it.
LEMMA RenderedIs ==
    ASSUME NEW b \in AnyBlock
    PROVE  Rendered(b) = ReadAt(b, Plain) /\ Rendered(b) \in Text
<1> DEFINE parts == [i \in DOMAIN b.inner |-> b.inner[i].plain]
           Listed == FlattenSeq([i \in DOMAIN parts |->
                         IF i = 1 THEN parts[i] ELSE <<", ">> \o parts[i]])
<1>1. \A i \in DOMAIN b.inner : Plain[b.inner[i]] = b.inner[i].plain /\ Plain[b.inner[i]] \in Text
  BY BlockIs DEF Plain
<1>2. \A i \in DOMAIN b.inner : <<>> \o Plain[b.inner[i]] = b.inner[i].plain
  BY <1>1, JoinText
<1>3. Pieces(b, Plain, <<>>) = parts
  BY <1>2 DEF Pieces
<1>4. Pieces(b, Plain, <<", ">>) = [i \in DOMAIN parts |-> IF i = 1 THEN parts[i] ELSE <<", ">> \o parts[i]]
  BY <1>1, <1>2 DEF Pieces
<1>5. Rendered(b) = CASE b.kind = "timestamp" -> IF b.text = <<>> THEN <<"0">> ELSE b.text
                      [] b.kind \in Leaves \ {"timestamp"} -> b.text
                      [] b.kind = "list" -> Listed
                      [] b.kind = "link" -> FlattenSeq(parts) \o <<" (">> \o b.text \o <<")">>
                      [] OTHER -> FlattenSeq(parts)
  BY DEF Rendered
<1>6. "list" \notin Leaves /\ "link" \notin Leaves /\ "timestamp" \in Leaves
  BY DEF Leaves
<1>7. Listed = FlattenSeq(Pieces(b, Plain, <<", ">>))
  BY <1>4
<1> HIDE DEF Listed
<1>8. FlattenSeq(parts) = FlattenSeq(Pieces(b, Plain, <<>>))
  BY <1>3
<1> HIDE DEF parts
<1>9. ReadAt(b, Plain) \in Text
  BY <1>1, ReadAtIsText
<1>10. CASE b.kind \in Leaves
  <2>1. Rendered(b) = Own(b)
    BY <1>5, <1>6, <1>10 DEF Own
  <2> QED  BY <1>10, <1>9, <2>1, ReadAtIs
<1>11. CASE b.kind = "list"
  <2>1. Rendered(b) = Listed
    BY <1>5, <1>6, <1>11
  <2> QED  BY <1>7, <1>11, <1>9, <2>1, ReadAtIs
<1>12. CASE b.kind = "link"
  <2>1. Rendered(b) = FlattenSeq(parts) \o <<" (">> \o b.text \o <<")">>
    BY <1>5, <1>6, <1>12
  <2> QED  BY <1>8, <1>12, <1>9, <2>1, ReadAtIs
<1>13. CASE b.kind \notin Leaves \cup {"list", "link"}
  <2>1. Rendered(b) = FlattenSeq(parts)
    BY <1>5, <1>6, <1>13
  <2> QED  BY <1>8, <1>13, <1>9, <2>1, ReadAtIs
<1> QED  BY <1>10, <1>11, <1>12, <1>13

\* A block is rendered as it reads once the plain texts inside it are right.
LEMMA RenderedIsReading ==
    ASSUME NEW b \in AnyBlock, \A i \in DOMAIN b.inner : b.inner[i].plain = Reading[b.inner[i]]
    PROVE  Rendered(b) = Reading[b]
<1>1. \A i \in DOMAIN b.inner : Plain[b.inner[i]] = Reading[b.inner[i]]
  BY BlockIs DEF Plain
<1>2. ReadAt(b, Plain) = ReadAt(b, Reading)
  BY <1>1, ReadAtSame
<1> QED  BY <1>2, RenderedIs, ReadingIs

\* Two blocks read alike that have the same kind, text and readings inside.
LEMMA ReadingSame ==
    ASSUME NEW b \in AnyBlock, NEW c \in AnyBlock, b.kind = c.kind, b.text = c.text,
           DOMAIN b.inner = DOMAIN c.inner,
           \A i \in DOMAIN b.inner : Reading[b.inner[i]] = Reading[c.inner[i]]
    PROVE  Reading[b] = Reading[c]
BY ReadingIs, ReadAtSame

\* Plain texts do not matter to what a block reads like.
LEMMA RelabelledReads ==
    ASSUME NEW label \in Labels, NEW new, new = Relabelling(label)
    PROVE  \A b \in AnyBlock : Reading[new[b]] = Reading[b]
<1> DEFINE T == {b \in AnyBlock : Reading[new[b]] = Reading[b]}
<1>1. ASSUME NEW b \in AnyBlock, \A u \in AnyBlock : Depth[u] < Depth[b] => u \in T
      PROVE  b \in T
  <2>1. \A i \in DOMAIN b.inner : Reading[new[b.inner[i]]] = Reading[b.inner[i]]
    BY <1>1, BlockIs
  <2>2. PICK p : new[b] = Node(b.kind, b.text, Inside(b, new), p)
    BY RelabellingIs
  <2>3. new[b] \in AnyBlock
    BY RelabellingIs
  <2>4. /\ new[b].kind = b.kind /\ new[b].text = b.text /\ DOMAIN new[b].inner = DOMAIN b.inner
        /\ \A i \in DOMAIN b.inner : new[b].inner[i] = new[b.inner[i]]
    BY <2>2 DEF Node, Inside
  <2>5. Reading[new[b]] = Reading[b]
    BY <2>1, <2>3, <2>4, ReadingSame
  <2> QED  BY <2>5
<1> HIDE DEF T
<1>2. IsInductive(T, AnyBlock, Depth)
  BY <1>1, DepthIs DEF IsInductive
<1> QED  BY <1>2, BlocksAre DEF T

-----------------------------------------------------------------------------
(* What is in a tree *)

PartsAt(b, f) == {b} \cup UNION {f[b.inner[i]] : i \in DOMAIN b.inner}

HasParts(f) == f = [b \in AnyBlock |-> PartsAt(b, f)]

LEMMA PartsIs ==
    ASSUME NEW b \in AnyBlock
    PROVE  Parts[b] = PartsAt(b, Parts)
<1> DEFINE X == SUBSET AnyBlock
           F == [AnyBlock -> X]
           step == [p \in AnyBlock \X F |-> PartsAt(p[1], p[2])]
<1>1. \A c \in AnyBlock : \A f \in F : step[<<c, f>>] = PartsAt(c, f)
  OBVIOUS
<1>2. IsRecursive(step, AnyBlock, X, Depth)
  <2>1. X # {}
    OBVIOUS
  <2>2. Depth \in [AnyBlock -> Nat]
    BY DepthIs
  <2>3. step \in [AnyBlock \X F -> X]
    <3>1. ASSUME NEW c \in AnyBlock, NEW f \in F PROVE PartsAt(c, f) \in X
      <4>1. \A i \in DOMAIN c.inner : f[c.inner[i]] \subseteq AnyBlock
        BY BlockIs
      <4> QED  BY <4>1 DEF PartsAt
    <3> QED  BY <3>1
  <2>4. \A c \in AnyBlock : \A f, g \in F :
           (\A u \in AnyBlock : Depth[u] < Depth[c] => f[u] = g[u]) => step[<<c, f>>] = step[<<c, g>>]
    <3> SUFFICES ASSUME NEW c \in AnyBlock, NEW f \in F, NEW g \in F,
                        \A u \in AnyBlock : Depth[u] < Depth[c] => f[u] = g[u]
                 PROVE  PartsAt(c, f) = PartsAt(c, g)
      BY <1>1
    <3>1. \A i \in DOMAIN c.inner : f[c.inner[i]] = g[c.inner[i]]
      BY BlockIs
    <3> QED  BY <3>1 DEF PartsAt
  <2> HIDE DEF step
  <2> QED  BY <2>1, <2>2, <2>3, <2>4 DEF IsRecursive
<1> HIDE DEF step
<1>3. PICK f \in F : \A c \in AnyBlock : f[c] = step[<<c, f>>]
  BY <1>2, RankRecursion
<1>4. HasParts(f)
  <2>1. f = [c \in AnyBlock |-> f[c]]
    BY <1>3
  <2>2. \A c \in AnyBlock : f[c] = PartsAt(c, f)
    BY <1>1, <1>3
  <2> QED  BY <2>1, <2>2 DEF HasParts
<1>5. Parts = CHOOSE g : HasParts(g)
  BY DEF Parts, HasParts, PartsAt
<1>6. HasParts(Parts)
  BY <1>4, <1>5
<1> QED  BY <1>6 DEF HasParts

LEMMA AgreesIs ==
    ASSUME NEW b \in AnyBlock
    PROVE  Agrees(b) <=> b.plain = Reading[b] /\ \A i \in DOMAIN b.inner : Agrees(b.inner[i])
BY PartsIs DEF Agrees, PartsAt

\* There is something in the block.
Whole(b) == b.kind \in Leaves \cup Wrappers \cup Lists /\ (b.kind \in Wrappers => Len(b.inner) = 1)

LEMMA CompleteIs ==
    ASSUME NEW b \in AnyBlock
    PROVE  Complete(b) <=> Whole(b) /\ \A i \in DOMAIN b.inner : Complete(b.inner[i])
BY PartsIs DEF Complete, Whole, PartsAt

LEMMA RelabelledIsComplete ==
    ASSUME NEW label \in Labels, NEW new, new = Relabelling(label)
    PROVE  \A b \in AnyBlock : Complete(b) => Complete(new[b])
<1> DEFINE T == {b \in AnyBlock : Complete(b) => Complete(new[b])}
<1>1. ASSUME NEW b \in AnyBlock, \A u \in AnyBlock : Depth[u] < Depth[b] => u \in T
      PROVE  b \in T
  <2> SUFFICES ASSUME Complete(b) PROVE Complete(new[b])
    OBVIOUS
  <2>1. Whole(b) /\ \A i \in DOMAIN b.inner : Complete(b.inner[i])
    BY CompleteIs
  <2>2. \A i \in DOMAIN b.inner : Complete(new[b.inner[i]])
    BY <1>1, <2>1, BlockIs
  <2>3. PICK p : new[b] = Node(b.kind, b.text, Inside(b, new), p)
    BY RelabellingIs
  <2>4. new[b] \in AnyBlock /\ Len(Inside(b, new)) = Len(b.inner)
    BY BlockIs, RelabellingIs, Rebuilt
  <2>5. /\ new[b].kind = b.kind /\ new[b].inner = Inside(b, new) /\ DOMAIN new[b].inner = DOMAIN b.inner
        /\ \A i \in DOMAIN b.inner : new[b].inner[i] = new[b.inner[i]]
    BY <2>3 DEF Node, Inside
  <2>6. Whole(new[b])
    BY <2>1, <2>4, <2>5 DEF Whole
  <2> QED  BY <2>2, <2>4, <2>5, <2>6, CompleteIs
<1> HIDE DEF T
<1>2. IsInductive(T, AnyBlock, Depth)
  BY <1>1, DepthIs DEF IsInductive
<1> QED  BY <1>2, BlocksAre DEF T


\* Every plain text of a normalized block is what it reads like.
LEMMA NormalizedIs ==
    ASSUME NEW b \in AnyBlock
    PROVE  /\ Normalized(b) \in AnyBlock /\ Agrees(Normalized(b))
           /\ Reading[Normalized(b)] = Reading[b]
           /\ Complete(b) => Complete(Normalized(b))
<1> DEFINE label == [c \in AnyBlock |-> Rendered(c)]
<1>1. label \in Labels
  BY RenderedIs DEF Labels
<1>2. \A c \in AnyBlock : label[c] = Rendered(c)
  OBVIOUS
<1>3. PICK new : new = Relabelling(label) /\ \A c : Normalized(c) = new[c]
  BY DEF Normalized
<1> HIDE DEF label
<1>4. \A c \in AnyBlock : new[c] \in AnyBlock /\ Reading[new[c]] = Reading[c]
  BY <1>1, <1>3, RelabellingIs, RelabelledReads
<1> DEFINE T == {c \in AnyBlock : Agrees(new[c])}
<1>5. ASSUME NEW c \in AnyBlock, \A u \in AnyBlock : Depth[u] < Depth[c] => u \in T
      PROVE  c \in T
  <2>1. \A i \in DOMAIN c.inner : c.inner[i] \in AnyBlock /\ Agrees(new[c.inner[i]])
    BY <1>5, BlockIs
  <2>2. PICK inside \in AnyBlock : /\ inside = Node(c.kind, c.text, Inside(c, new), c.plain)
                                   /\ new[c] = Node(c.kind, c.text, Inside(c, new), label[inside])
    BY <1>1, <1>3, RelabellingIs
  <2>3. /\ inside.kind = c.kind /\ inside.text = c.text /\ DOMAIN inside.inner = DOMAIN c.inner
        /\ \A i \in DOMAIN c.inner : inside.inner[i] = new[c.inner[i]]
    BY <2>2 DEF Node, Inside
  <2>4. /\ new[c].plain = Rendered(inside) /\ DOMAIN new[c].inner = DOMAIN c.inner
        /\ \A i \in DOMAIN c.inner : new[c].inner[i] = new[c.inner[i]]
    BY <1>2, <2>2 DEF Node, Inside
  <2>5. \A i \in DOMAIN c.inner : /\ inside.inner[i].plain = Reading[inside.inner[i]]
                                  /\ Reading[c.inner[i]] = Reading[inside.inner[i]]
    BY <1>4, <2>1, <2>3, AgreesIs
  <2>6. Rendered(inside) = Reading[inside]
    BY <2>3, <2>5, RenderedIsReading
  <2>7. Reading[c] = Reading[inside]
    BY <2>3, <2>5, ReadingSame
  <2>8. new[c].plain = Reading[new[c]]
    BY <1>4, <2>4, <2>6, <2>7
  <2>9. Agrees(new[c])
    BY <1>4, <2>1, <2>4, <2>8, AgreesIs
  <2> QED  BY <2>9
<1> HIDE DEF T
<1>6. IsInductive(T, AnyBlock, Depth)
  BY <1>5, DepthIs DEF IsInductive
<1>7. b \in T
  BY <1>6, BlocksAre
<1>8. Complete(b) => Complete(new[b])
  BY <1>1, <1>3, RelabelledIsComplete
<1> QED  BY <1>3, <1>4, <1>7, <1>8 DEF T

\* The shape of a tree with other plain texts is its own.
LEMMA ShapeKept ==
    ASSUME NEW label \in Labels, NEW new, new = Relabelling(label)
    PROVE  \A b \in AnyBlock : Shape(new[b]) = Shape(b)
<1> DEFINE none == [c \in AnyBlock |-> <<>>]
<1>1. none \in Labels
  <2>1. <<>> \in Text
    BY DEF Text
  <2> QED  BY <2>1 DEF Labels
<1>2. \A c \in AnyBlock : none[c] = <<>>
  OBVIOUS
<1>3. PICK blank : blank = Relabelling(none) /\ \A c : Shape(c) = blank[c]
  BY DEF Shape, Relabelled
<1> HIDE DEF none
<1>4. \A c \in AnyBlock : blank[c] = Node(c.kind, c.text, Inside(c, blank), <<>>)
  BY <1>1, <1>2, <1>3, RelabellingIs
<1>5. \A c \in AnyBlock : new[c] \in AnyBlock
  BY RelabellingIs
<1> DEFINE T == {c \in AnyBlock : blank[new[c]] = blank[c]}
<1>6. ASSUME NEW c \in AnyBlock, \A u \in AnyBlock : Depth[u] < Depth[c] => u \in T
      PROVE  c \in T
  <2>1. \A i \in DOMAIN c.inner : blank[new[c.inner[i]]] = blank[c.inner[i]]
    BY <1>6, BlockIs
  <2>2. PICK p : new[c] = Node(c.kind, c.text, Inside(c, new), p)
    BY RelabellingIs
  <2>3. /\ new[c].kind = c.kind /\ new[c].text = c.text /\ DOMAIN new[c].inner = DOMAIN c.inner
        /\ \A i \in DOMAIN c.inner : new[c].inner[i] = new[c.inner[i]]
    BY <2>2 DEF Node, Inside
  <2>4. Inside(new[c], blank) = Inside(c, blank)
    BY <2>1, <2>3 DEF Inside
  <2>5. blank[new[c]] = Node(c.kind, c.text, Inside(c, blank), <<>>)
    BY <1>4, <1>5, <2>3, <2>4
  <2> QED  BY <1>4, <2>5
<1> HIDE DEF T
<1>7. IsInductive(T, AnyBlock, Depth)
  BY <1>6, DepthIs DEF IsInductive
<1>8. \A c \in AnyBlock : blank[new[c]] = blank[c]
  BY <1>7, BlocksAre DEF T
<1> QED  BY <1>3, <1>8

-----------------------------------------------------------------------------
(* What is refused *)

BrokenAt(b, f) ==
    \/ b.kind = "unknown"
    \/ b.kind \in Wrappers /\ b.inner = <<>>
    \/ \E i \in DOMAIN b.inner : f[b.inner[i]]

Breaks(f) == f = [b \in AnyBlock |-> BrokenAt(b, f)]

\* Just the trees in which something is missing are broken.
LEMMA BrokenIs ==
    ASSUME NEW b \in AnyBlock
    PROVE  Broken(b) <=> ~Complete(b)
<1>1. ASSUME NEW c \in AnyBlock, NEW f, \A i \in DOMAIN c.inner : f[c.inner[i]] = ~Complete(c.inner[i])
      PROVE  BrokenAt(c, f) = ~Complete(c)
  <2>1. Whole(c) <=> ~(c.kind = "unknown" \/ (c.kind \in Wrappers /\ c.inner = <<>>))
    <3>1. /\ c.kind \in Kinds /\ Len(c.inner) \in Nat /\ (c.kind \in Wrappers => Len(c.inner) <= 1)
          /\ (Len(c.inner) = 0 <=> c.inner = <<>>)
      BY BlockIs, EmptySeq DEF Fits
    <3>2. "unknown" \notin Leaves \cup Wrappers \cup Lists
      BY DEF Leaves, Wrappers, Lists
    <3>3. c.kind \in Wrappers => (Len(c.inner) = 1 <=> c.inner # <<>>)
      <4>1. PICK n \in Nat : n = Len(c.inner)
        BY <3>1
      <4>2. (c.kind \in Wrappers => n <= 1) /\ (n = 0 <=> c.inner = <<>>)
        BY <3>1, <4>1
      <4>3. c.kind \in Wrappers => (n = 1 <=> c.inner # <<>>)
        BY <4>2
      <4> QED  BY <4>1, <4>3
    <3>4. c.kind \in Leaves \cup Wrappers \cup Lists <=> c.kind # "unknown"
      <4>1. c.kind \in Leaves \cup Wrappers \cup Lists \/ c.kind = "unknown"
        BY <3>1 DEF Kinds
      <4> QED  BY <3>2, <4>1
    <3> QED  BY <3>3, <3>4 DEF Whole
  <2>2. (\E i \in DOMAIN c.inner : f[c.inner[i]]) <=> ~\A i \in DOMAIN c.inner : Complete(c.inner[i])
    BY <1>1
  <2>3. BrokenAt(c, f) <=> ~Complete(c)
    BY <2>1, <2>2, CompleteIs DEF BrokenAt
  <2> QED  BY <2>3 DEF BrokenAt
<1> DEFINE f == [c \in AnyBlock |-> ~Complete(c)]
<1>2. \A c \in AnyBlock : f[c] = ~Complete(c)
  OBVIOUS
<1>3. Breaks(f)
  <2>1. f = [c \in AnyBlock |-> f[c]]
    OBVIOUS
  <2> HIDE DEF f
  <2>2. \A c \in AnyBlock : f[c] = BrokenAt(c, f)
    BY <1>1, <1>2, BlockIs
  <2> QED  BY <2>1, <2>2 DEF Breaks
<1> HIDE DEF f
<1>4. PICK g : Breaks(g) /\ \A c : Broken(c) = g[c]
  <2>1. \A c : Broken(c) = (CHOOSE g : Breaks(g))[c]
    BY DEF Broken, Breaks, BrokenAt
  <2> QED  BY <1>3, <2>1
<1>5. \A c \in AnyBlock : g[c] = BrokenAt(c, g)
  BY <1>4 DEF Breaks
<1> DEFINE T == {c \in AnyBlock : g[c] = ~Complete(c)}
<1>6. ASSUME NEW c \in AnyBlock, \A u \in AnyBlock : Depth[u] < Depth[c] => u \in T
      PROVE  c \in T
  <2>1. \A i \in DOMAIN c.inner : g[c.inner[i]] = ~Complete(c.inner[i])
    BY <1>6, BlockIs
  <2> QED  BY <1>1, <1>5, <2>1
<1> HIDE DEF T
<1>7. IsInductive(T, AnyBlock, Depth)
  BY <1>6, DepthIs DEF IsInductive
<1>8. b \in T
  BY <1>7, BlocksAre
<1> QED  BY <1>4, <1>8 DEF T

-----------------------------------------------------------------------------
(* The invariant *)

IsMessage(m) ==
    /\ m.text \in Text
    /\ m.block = <<>> \/ \E b \in AnyBlock : m.block = <<b>>

\* A block reads like the root, and is shaped like it unless it may not be.
Says(b, root, loose) == Reading[b] = Reading[root] /\ (~loose => Shape(b) = Shape(root))

\* What the first sender meant by what it sent, and how it was shaped while no
\* sender has dropped the blocks.
Meant(b) == Says(b, RootOf(first), flat)

\* What the server passes on.
IsRight(m) ==
    \E b \in AnyBlock : /\ m = Message(m.text, <<b>>, m.tags)
                        /\ m.text = b.plain /\ Agrees(b) /\ Complete(b) /\ Meant(b)

\* The tags are those of the first sender while every sender has kept them.
Kept(tags) == kept => Others(tags) = Others(first.tags)

\* What the tags of a message over block b say, which the server has passed on.
Tells(tags, b) ==
    /\ OriginalFormat \in DOMAIN tags
    /\ tags[OriginalFormat] \in {"blocks"} \cup (IF flat THEN {"text"} ELSE {})
    /\ tags[OriginalFormat] = "text" => b.kind = "text"
    /\ Kept(tags)

RelayInv ==
    /\ IsMessage(draft) /\ IsMessage(first)
    /\ Meant(RootOf(draft))
    /\ \A m \in PassedOn : IsRight(m) /\ Tells(m.tags, m.block[1])
    /\ draft.block = <<>> => flat
    /\ Kept(draft.tags)
    /\ answer \in {"none", "ok", "invalid", "ended"}
    /\ answer \in {"invalid", "ended"} <=> answer # "none" /\ ~Complete(RootOf(draft))

\* A message has a root block, whose text it is if it came without blocks.
LEMMA RootIs ==
    ASSUME NEW m, IsMessage(m)
    PROVE  /\ RootOf(m) \in AnyBlock
           /\ m.block = <<>> => Reading[RootOf(m)] = m.text
           /\ \A b : m.block = <<b>> => RootOf(m) = b
<1>1. \A b : <<b>> # <<>> /\ <<b>>[1] = b
  OBVIOUS
<1>2. m.block = <<>> => RootOf(m) = Block("text", m.text, <<>>)
  BY DEF RootOf, IsBlock
<1>3. \A b : m.block = <<b>> => RootOf(m) = b
  BY <1>1 DEF RootOf, IsBlock
<1>4. m.block = <<>> => RootOf(m) \in AnyBlock /\ Reading[RootOf(m)] = m.text
  BY <1>2, TextIsBlock, TextReads DEF IsMessage
<1>5. RootOf(m) \in AnyBlock
  BY <1>3, <1>4 DEF IsMessage
<1> QED  BY <1>3, <1>4, <1>5

\* The tags of the sender stay, beside the one of the server.
LEMMA ExtendedIs ==
    ASSUME NEW m
    PROVE  /\ OriginalFormat \in DOMAIN Extended(m)
           /\ Extended(m)[OriginalFormat] = (IF m.block = <<>> THEN "text" ELSE "blocks")
           /\ Others(Extended(m)) = Others(m.tags)
<1>1. DOMAIN Extended(m) = DOMAIN m.tags \cup {OriginalFormat}
  BY DEF Extended
<1>2. Extended(m)[OriginalFormat] = (IF m.block = <<>> THEN "text" ELSE "blocks")
  BY DEF Extended, Additional, IsBlock
<1>3. DOMAIN Extended(m) \ {OriginalFormat} = DOMAIN m.tags \ {OriginalFormat}
  BY <1>1
<1>4. \A k \in DOMAIN m.tags \ {OriginalFormat} : Extended(m)[k] = m.tags[k]
  BY DEF Extended
<1>5. Others(Extended(m)) = Others(m.tags)
  BY <1>3, <1>4 DEF Others
<1> QED  BY <1>1, <1>2, <1>5

\* A message that is not broken comes out right.
LEMMA PassedIs ==
    ASSUME IsMessage(draft), Meant(RootOf(draft)), ~Broken(RootOf(draft)),
           draft.block = <<>> => flat, Kept(draft.tags)
    PROVE  IsRight(Passed(draft)) /\ Tells(Passed(draft).tags, Passed(draft).block[1])
<1>1. PICK r \in AnyBlock : r = RootOf(draft) /\ Complete(r) /\ Meant(r)
  BY RootIs, BrokenIs
<1>2. PICK b : b = Normalized(r)
  OBVIOUS
<1>3. b \in AnyBlock /\ Agrees(b) /\ Complete(b) /\ Reading[b] = Reading[r]
  BY <1>1, <1>2, NormalizedIs
<1>4. Shape(b) = Shape(r) /\ b.kind = r.kind
  <2> DEFINE label == [c \in AnyBlock |-> Rendered(c)]
  <2>1. label \in Labels
    BY RenderedIs DEF Labels
  <2>2. b = Relabelling(label)[r]
    BY <1>2 DEF Normalized
  <2> HIDE DEF label
  <2>3. Shape(b) = Shape(r)
    BY <2>1, <2>2, ShapeKept
  <2>4. PICK inner, p : b = Node(r.kind, r.text, inner, p)
    BY <2>1, <2>2, RelabellingIs
  <2> QED  BY <2>3, <2>4 DEF Node
<1>5. Meant(b)
  BY <1>1, <1>3, <1>4 DEF Meant, Says
<1>6. Passed(draft) = Message(b.plain, <<b>>, Extended(draft))
  BY <1>1, <1>2 DEF Passed
<1>7. PICK m : /\ m = Passed(draft) /\ m.text = b.plain /\ m.tags = Extended(draft) /\ m.block[1] = b
               /\ m = Message(m.text, <<b>>, m.tags)
  <2>1. <<b>>[1] = b
    OBVIOUS
  <2> QED  BY <1>6, <2>1 DEF Message
<1>8. IsRight(m)
  BY <1>3, <1>5, <1>7 DEF IsRight
<1>9. draft.block = <<>> => b.kind = "text"
  BY <1>1, <1>4 DEF RootOf, IsBlock, Block
<1>10. Tells(m.tags, m.block[1])
  BY <1>7, <1>9, ExtendedIs DEF Tells, Kept
<1> QED  BY <1>7, <1>8, <1>10

LEMMA RelayInit == Init => RelayInv
<1> SUFFICES ASSUME Init PROVE RelayInv
  OBVIOUS
<1>1. IsMessage(draft)
  <2>1. PICK t \in Texts, tags \in Taggings : \/ draft = Message(t, <<>>, tags)
                                              \/ \E b \in Trees : draft = Message(t, <<b>>, tags)
    BY DEF Init
  <2>2. draft.text = t /\ (draft.block = <<>> \/ \E b \in Trees : draft.block = <<b>>)
    BY <2>1 DEF Message
  <2> QED  BY <2>2, RelayAssumption DEF IsMessage
<1>2. first = draft /\ answer = "none" /\ PassedOn = {}
  BY DEF Init, PassedOn
<1>3. Meant(RootOf(draft))
  BY <1>2 DEF Meant, Says
<1>4. (draft.block = <<>> => flat) /\ Kept(draft.tags)
  BY <1>2 DEF Init, Kept
<1> QED  BY <1>1, <1>2, <1>3, <1>4 DEF RelayInv

\* The server takes a draft.
LEMMA HandleStep ==
    ASSUME RelayInv, HandleRpc \/ HandleEvent
    PROVE  RelayInv'
<1>1. /\ UNCHANGED <<sender, draft, first, flat, kept, hops>> /\ answer = "none"
      /\ RootOf(draft)' = RootOf(draft) /\ RootOf(first)' = RootOf(first)
  BY DEF HandleRpc, HandleEvent, RootOf, IsBlock
<1>2. /\ IsMessage(draft) /\ RootOf(draft) \in AnyBlock /\ Meant(RootOf(draft))
      /\ (draft.block = <<>> => flat) /\ Kept(draft.tags)
  BY RootIs DEF RelayInv
<1>3. /\ IsMessage(draft)' /\ IsMessage(first)' /\ Meant(RootOf(draft))'
      /\ (draft.block = <<>> => flat)' /\ Kept(draft.tags)'
      /\ \A m : IsRight(m) => IsRight(m)'
      /\ \A tags, b : Tells(tags, b) => Tells(tags, b)'
  BY <1>1 DEF RelayInv, IsMessage, Meant, IsRight, Kept, Tells
<1>4. CASE Broken(RootOf(draft))
  <2>1. answer' \in {"invalid", "ended"} /\ UNCHANGED <<event, request>>
    BY <1>4 DEF HandleRpc, HandleEvent
  <2>2. \A m \in PassedOn' : IsRight(m)' /\ Tells(m.tags, m.block[1])'
    BY <1>3, <2>1 DEF PassedOn, RelayInv
  <2>3. ~Complete(RootOf(draft))
    BY <1>2, <1>4, BrokenIs
  <2>4. (answer \in {"invalid", "ended"} <=> answer # "none" /\ ~Complete(RootOf(draft)))'
    BY <1>1, <2>1, <2>3
  <2> QED  BY <1>3, <2>1, <2>2, <2>4 DEF RelayInv
<1>5. CASE ~Broken(RootOf(draft))
  <2>1. answer' = "ok" /\ event' = Passed(draft) /\ request' \in {request, Passed(draft)}
    BY <1>5 DEF HandleRpc, HandleEvent
  <2>2. IsRight(Passed(draft)) /\ Tells(Passed(draft).tags, Passed(draft).block[1])
    BY <1>2, <1>5, PassedIs
  <2>3. ASSUME NEW m \in PassedOn' PROVE IsRight(m)' /\ Tells(m.tags, m.block[1])'
    <3>1. m = Passed(draft) \/ m \in PassedOn
      BY <2>1, <2>3 DEF PassedOn
    <3>2. IsRight(m) /\ Tells(m.tags, m.block[1])
      BY <2>2, <3>1 DEF RelayInv
    <3> QED  BY <1>3, <3>2
  <2>4. Complete(RootOf(draft))
    BY <1>2, <1>5, BrokenIs
  <2>5. (answer \in {"invalid", "ended"} <=> answer # "none" /\ ~Complete(RootOf(draft)))'
    BY <1>1, <2>1, <2>4
  <2> QED  BY <1>3, <2>1, <2>3, <2>5 DEF RelayInv
<1> QED  BY <1>4, <1>5

\* Another sender hands on what the server has passed on.
LEMMA HandOnStep ==
    ASSUME RelayInv, NEW m \in PassedOn, HandOn(m)
    PROVE  RelayInv'
<1>1. UNCHANGED <<event, request, first>> /\ answer' = "none" /\ PassedOn' = PassedOn /\ RootOf(first)' = RootOf(first)
  BY DEF HandOn, PassedOn, RootOf, IsBlock
<1>2. PICK b \in AnyBlock : /\ m = Message(m.text, <<b>>, m.tags)
                            /\ m.text = b.plain /\ Agrees(b) /\ Complete(b) /\ Meant(b)
  BY DEF RelayInv, IsRight
<1>3. m.block = <<b>> /\ m.block[1] = b
  BY <1>2 DEF Message
<1>4. PICK root : root = RootOf(first) /\ Says(b, root, flat)
  BY <1>2 DEF Meant
<1>5. m.text \in Text /\ m.text = Reading[root]
  BY <1>2, <1>4, BlockIs, AgreesIs DEF Says
<1>6. flat => flat'
  BY DEF HandOn
<1>7. \A c : Says(c, root, flat) => Says(c, root, flat')
  BY <1>6 DEF Says
<1>8. \A c : Meant(c)' <=> Says(c, root, flat')
  BY <1>1, <1>4 DEF Meant
<1>9. \A n \in PassedOn' : IsRight(n)'
  BY <1>1, <1>4, <1>7, <1>8 DEF IsRight, RelayInv, Meant
<1>10. PICK d : d = draft'
  OBVIOUS
<1>11. IsMessage(d) /\ Says(RootOf(d), root, flat')
  <2>1. ASSUME NEW tags, d = Message(m.text, <<>>, tags), flat' = TRUE
        PROVE  IsMessage(d) /\ Says(RootOf(d), root, flat')
    <3>1. d.text = m.text /\ d.block = <<>>
      BY <2>1 DEF Message
    <3>2. IsMessage(d)
      BY <1>5, <3>1 DEF IsMessage
    <3>3. Reading[RootOf(d)] = Reading[root]
      BY <1>5, <3>1, <3>2, RootIs
    <3> QED  BY <2>1, <3>2, <3>3 DEF Says
  <2>2. ASSUME NEW tags, NEW t \in Texts, d = Message(t, <<b>>, tags)
        PROVE  IsMessage(d) /\ Says(RootOf(d), root, flat')
    <3>1. d.text \in Text /\ d.block = <<b>>
      BY <2>2, RelayAssumption DEF Message
    <3>2. IsMessage(d)
      BY <3>1 DEF IsMessage
    <3>3. RootOf(d) = b
      BY <3>1, <3>2, RootIs
    <3> QED  BY <1>4, <1>7, <3>2, <3>3
  <2>3. ASSUME NEW tags, NEW t \in Texts, NEW p \in Texts, d = Message(t, <<Relabelled(b, p)>>, tags)
        PROVE  IsMessage(d) /\ Says(RootOf(d), root, flat')
    <3> DEFINE label == [c \in AnyBlock |-> p]
    <3>1. label \in Labels
      BY RelayAssumption DEF Labels
    <3>2. PICK c : c = Relabelled(b, p) /\ c = Relabelling(label)[b]
      BY DEF Relabelled
    <3> HIDE DEF label
    <3>3. c \in AnyBlock /\ Reading[c] = Reading[b] /\ Shape(c) = Shape(b)
      BY <3>1, <3>2, RelabellingIs, RelabelledReads, ShapeKept
    <3>4. d.text \in Text /\ d.block = <<c>>
      BY <2>3, <3>2, RelayAssumption DEF Message
    <3>5. IsMessage(d)
      BY <3>3, <3>4 DEF IsMessage
    <3>6. RootOf(d) = c
      BY <3>4, <3>5, RootIs
    <3>7. Says(c, root, flat)
      BY <1>4, <3>3 DEF Says
    <3> QED  BY <1>7, <3>5, <3>6, <3>7
  <2>4. \E tags : \/ d = Message(m.text, <<>>, tags) /\ flat' = TRUE
                  \/ \E t \in Texts, c \in {b} \cup {Relabelled(b, p) : p \in Texts} :
                        d = Message(t, <<c>>, tags)
    BY <1>3, <1>10 DEF HandOn
  <2> QED  BY <2>1, <2>2, <2>3, <2>4
<1>12. IsMessage(draft)' /\ IsMessage(first)' /\ Meant(RootOf(draft))'
  <2>1. RootOf(draft)' = RootOf(d) /\ IsMessage(draft)'
    BY <1>10, <1>11 DEF RootOf, IsBlock, IsMessage
  <2>2. IsMessage(first)'
    BY <1>1 DEF RelayInv, IsMessage
  <2> QED  BY <1>1, <1>4, <1>11, <2>1, <2>2 DEF Meant
<1>13. (kept' => kept /\ d.tags = m.tags) /\ (d.block = <<>> => flat')
  <2>1. PICK tags : /\ \/ d = Message(m.text, <<>>, tags) /\ flat' = TRUE
                       \/ \E t \in Texts, c \in {b} \cup {Relabelled(b, p) : p \in Texts} :
                             d = Message(t, <<c>>, tags)
                    /\ kept' = (kept /\ tags = m.tags)
    BY <1>3, <1>10, Zenon DEF HandOn
  <2>2. \A c : <<c>> # <<>>
    OBVIOUS
  <2>3. d.tags = tags /\ (d.block = <<>> => flat' = TRUE)
    <3>1. \A text, block : Message(text, block, tags).tags = tags /\ Message(text, block, tags).block = block
      BY DEF Message
    <3> HIDE DEF Message
    <3> QED  BY <2>1, <2>2, <3>1
  <2>4. kept' => kept /\ tags = m.tags
    BY <2>1, Zenon
  <2> QED  BY <2>3, <2>4
<1>14. \A tags : Kept(tags) => Kept(tags)'
  BY <1>1, <1>13 DEF Kept
<1>15. \A n \in PassedOn' : Tells(n.tags, n.block[1])'
  <2>1. \A n \in PassedOn : Tells(n.tags, n.block[1])
    BY DEF RelayInv
  <2> QED  BY <1>1, <1>6, <1>14, <2>1 DEF Tells
<1>16. Kept(draft.tags)'
  <2>1. Kept(m.tags)
    BY DEF RelayInv, Tells
  <2> QED  BY <1>10, <1>13, <1>14, <2>1 DEF Kept
<1>17. (draft.block = <<>> => flat)'
  BY <1>10, <1>13
<1> QED  BY <1>1, <1>9, <1>12, <1>15, <1>16, <1>17 DEF RelayInv

LEMMA RelayStep == RelayInv /\ [Next]_vars => RelayInv'
<1> SUFFICES ASSUME RelayInv, [Next]_vars PROVE RelayInv'
  OBVIOUS
<1>1. CASE HandleRpc \/ HandleEvent
  BY <1>1, HandleStep
<1>2. CASE BackendReports
  BY <1>2, HandOnStep DEF BackendReports, PassedOn
<1>3. CASE PluginRelays
  BY <1>3, HandOnStep DEF PluginRelays, PassedOn
<1>4. CASE UNCHANGED vars
  BY <1>4 DEF vars, RelayInv, IsMessage, Meant, RootOf, IsBlock, PassedOn, IsRight, Kept, Tells
<1> QED  BY <1>1, <1>2, <1>3, <1>4 DEF Next

LEMMA RelayInvHolds == Spec => []RelayInv
BY RelayInit, RelayStep, PTL DEF Spec

-----------------------------------------------------------------------------
(* What follows *)

\* In what the server passes on the text and the plain texts of the blocks say
\* the same at every level, whatever the sender wrote beside its blocks or in
\* them.
THEOREM ReadersDoAgree == Spec => []ReadersAgree
<1>1. ASSUME RelayInv, NEW m \in PassedOn PROVE Agrees(m.block[1]) /\ m.text = m.block[1].plain
  <2>1. PICK b \in AnyBlock : m.block = <<b>> /\ m.text = b.plain /\ Agrees(b)
    BY <1>1 DEF RelayInv, IsRight, Message
  <2>2. m.block[1] = b
    BY <2>1
  <2> QED  BY <2>1, <2>2
<1>2. RelayInv => ReadersAgree
  BY <1>1 DEF ReadersAgree
<1> QED  BY <1>2, RelayInvHolds, PTL

\* After any number of hops the text is what the first sender meant, and so are
\* the blocks until a sender drops them.
THEOREM MessagesSurvive == Spec => []MessageSurvives
<1>1. ASSUME RelayInv, NEW m \in PassedOn
      PROVE  /\ m.text = Reading[RootOf(first)]
             /\ ~flat => Shape(m.block[1]) = Shape(RootOf(first))
  <2>1. PICK b \in AnyBlock : m.block = <<b>> /\ m.text = b.plain /\ Agrees(b) /\ Meant(b)
    BY <1>1 DEF RelayInv, IsRight, Message
  <2>2. m.block[1] = b
    BY <2>1
  <2>3. b.plain = Reading[b]
    BY <2>1, AgreesIs
  <2> QED  BY <2>1, <2>2, <2>3 DEF Meant, Says
<1>2. RelayInv => MessageSurvives
  BY <1>1 DEF MessageSurvives
<1> QED  BY <1>2, RelayInvHolds, PTL

\* A tree that lacks something, however deep, is refused, and no other is.
THEOREM BrokenAreRefused == Spec => []BrokenIsRefused
<1>1. ASSUME RelayInv, NEW m \in PassedOn PROVE Complete(m.block[1])
  <2>1. PICK b \in AnyBlock : m.block = <<b>> /\ Complete(b)
    BY <1>1 DEF RelayInv, IsRight, Message
  <2>2. m.block[1] = b
    BY <2>1
  <2> QED  BY <2>1, <2>2
<1>2. RelayInv => BrokenIsRefused
  BY <1>1 DEF RelayInv, BrokenIsRefused
<1> QED  BY <1>2, RelayInvHolds, PTL

\* Over any number of hops, and whatever senders put under the server's key,
\* "core/original-format" does not call a message text that still has the blocks
\* of its first sender, and the tags of the first sender reach the last reader
\* unless a sender in between changed them.
THEOREM TagsDoTell == Spec => []TagsTell
<1>1. RelayInv => TagsTell
  BY DEF RelayInv, Tells, Kept, TagsTell
<1> QED  BY <1>1, RelayInvHolds, PTL
=============================================================================
