--------------------------- MODULE FormulaProofs ---------------------------
(***************************************************************************)
(* Theorems about the formula compiler, for formulas of any length.  The   *)
(* parser and the reference are recursive functions, on the positions of   *)
(* the tokens, on segments of them and on trees; first, that they are      *)
(* defined.                                                                *)
(***************************************************************************)
EXTENDS Formula, WellFoundedInduction, TLAPS

-----------------------------------------------------------------------------
(* Induction.                                                               *)

\* Whatever holds of some number holds of a least one.
LEMMA LeastNat ==
    ASSUME NEW T, T \subseteq Nat, T # {}
    PROVE  \E n \in T : \A k \in T : n <= k
<1> DEFINE R == OpToRel(<, Nat)
<1>1. \A k, n \in Nat : k < n => <<k, n>> \in R
  BY DEF OpToRel
<1>2. PICK n \in T : \A k \in T : ~ (<<k, n>> \in R)
  <2> HIDE DEF R
  <2>1. IsWellFoundedOn(R, Nat)
    BY NatLessThanWellFounded DEF R
  <2> QED BY <2>1, WFMin
<1> HIDE DEF R
<1>3. \A k \in T : ~ (k < n)
  BY <1>1, <1>2
<1>4. \A k \in T : n <= k
  BY <1>3
<1> QED BY <1>4

\* What holds of 0, and of n + 1 if of n, holds of every number.
LEMMA EveryNat ==
    ASSUME NEW T, 0 \in T, \A n \in Nat : n \in T => n + 1 \in T
    PROVE  Nat \subseteq T
<1> DEFINE Bad == Nat \ T
<1>1. ASSUME NEW n \in Bad, \A k \in Bad : n <= k PROVE FALSE
  <2>1. n \in Nat /\ n # 0 /\ n - 1 \in Nat
    OBVIOUS
  <2>2. n - 1 \notin Bad
    <3> HIDE DEF Bad
    <3> QED BY <1>1, <2>1
  <2>3. n - 1 + 1 \in T
    BY <2>1, <2>2
  <2> QED BY <2>1, <2>3
<1>2. Bad = {}
  <2>1. Bad \subseteq Nat
    OBVIOUS
  <2> HIDE DEF Bad
  <2> QED BY <1>1, <2>1, LeastNat
<1> QED BY <1>2

-----------------------------------------------------------------------------
(* Trees.                                                                   *)

\* The heights follow each other.
LEMMA TreesDef ==
    \A h \in 0 .. MaxTokens : Trees[h] = IF h = 0 THEN {} ELSE NodesOver(Trees[h - 1])
<1> DEFINE Good(n, g) == g = [h \in 0 .. n |-> IF h = 0 THEN {} ELSE NodesOver(g[h - 1])]
           Done == {n \in Nat : \E g : Good(n, g)}
<1>1. 0 \in Done
  <2>1. Good(0, [h \in 0 .. 0 |-> {}])
    OBVIOUS
  <2> QED BY <2>1
<1>2. ASSUME NEW n \in Nat, n \in Done PROVE n + 1 \in Done
  <2>1. PICK g : Good(n, g)
    BY <1>2
  <2> DEFINE f == [h \in 0 .. n + 1 |-> IF h = n + 1 THEN NodesOver(g[h - 1]) ELSE g[h]]
  <2>2. \A h \in 0 .. n + 1 : f[h] = IF h = 0 THEN {} ELSE NodesOver(f[h - 1])
    <3>1. \A h \in 0 .. n : g[h] = IF h = 0 THEN {} ELSE NodesOver(g[h - 1])
      BY <2>1
    <3>2. \A h \in 0 .. n : f[h] = g[h]
      OBVIOUS
    <3>3. f[n + 1] = NodesOver(g[n])
      OBVIOUS
    <3> HIDE DEF f
    <3> QED BY <3>1, <3>2, <3>3
  <2>3. Good(n + 1, f)
    BY <2>2
  <2>4. \E e : Good(n + 1, e)
    BY <2>3
  <2> QED BY <2>4
<1>3. PICK g : Good(MaxTokens, g)
  <2>1. MaxTokens \in Done
    <3> HIDE DEF Done
    <3> QED BY <1>1, <1>2, EveryNat, TokensAssumption
  <2> QED BY <2>1
<1>4. Trees = [h \in 0 .. MaxTokens |-> IF h = 0 THEN {} ELSE NodesOver(Trees[h - 1])]
  BY <1>3, Zenon DEF Trees
<1> QED BY <1>4

\* A higher bound has all nodes of a lower one.
LEMMA TreesGrow ==
    ASSUME NEW h \in 0 .. MaxTokens, NEW k \in h .. MaxTokens
    PROVE  Trees[h] \subseteq Trees[k]
<1>1. ASSUME NEW S, NEW T, S \subseteq T PROVE NodesOver(S) \subseteq NodesOver(T)
  BY <1>1 DEF NodesOver
<1> DEFINE Up == {n \in Nat : n + 1 <= MaxTokens => Trees[n] \subseteq Trees[n + 1]}
           Far == {n \in Nat : h + n <= MaxTokens => Trees[h] \subseteq Trees[h + n]}
<1> USE TokensAssumption
<1>2. 0 \in Up
  BY TreesDef
<1>3. ASSUME NEW n \in Nat, n \in Up PROVE n + 1 \in Up
  <2> SUFFICES ASSUME n + 1 + 1 <= MaxTokens PROVE Trees[n + 1] \subseteq Trees[n + 1 + 1]
    OBVIOUS
  <2>1. Trees[n] \subseteq Trees[n + 1]
    BY <1>3
  <2>2. Trees[n + 1] = NodesOver(Trees[n]) /\ Trees[n + 1 + 1] = NodesOver(Trees[n + 1])
    BY TreesDef
  <2> QED BY <1>1, <2>1, <2>2
<1>4. Nat \subseteq Up
  <2> HIDE DEF Up
  <2> QED BY <1>2, <1>3, EveryNat
<1>5. 0 \in Far
  OBVIOUS
<1>6. ASSUME NEW n \in Nat, n \in Far PROVE n + 1 \in Far
  <2> SUFFICES ASSUME h + (n + 1) <= MaxTokens PROVE Trees[h] \subseteq Trees[h + (n + 1)]
    OBVIOUS
  <2>1. Trees[h] \subseteq Trees[h + n]
    BY <1>6
  <2>2. h + n \in Nat /\ h + (n + 1) = (h + n) + 1
    OBVIOUS
  <2>3. Trees[h + n] \subseteq Trees[(h + n) + 1]
    BY <1>4, <2>2
  <2> QED BY <2>1, <2>2, <2>3
<1>7. k - h \in Nat /\ h + (k - h) = k
  OBVIOUS
<1>8. k - h \in Far
  <2> HIDE DEF Far
  <2> QED BY <1>5, <1>6, <1>7, EveryNat
<1> QED BY <1>7, <1>8

\* What a node is, with nodes under it.
LEMMA NodeShapes ==
    \A node \in Nodes :
        \/ node = Leaf(node.value) /\ node.op = "" /\ node.value \in Words
        \/ /\ node = Call(node.value, node.left)
           /\ node.op = "func" /\ node.value \in Words /\ node.left \in Nodes
        \/ /\ node = Node(node.op, node.left, node.right)
           /\ node.op \in Operators /\ node.left \in Nodes /\ node.right \in Nodes
<1> SUFFICES ASSUME NEW node \in Nodes
    PROVE   \/ node = Leaf(node.value) /\ node.op = "" /\ node.value \in Words
        \/ /\ node = Call(node.value, node.left)
           /\ node.op = "func" /\ node.value \in Words /\ node.left \in Nodes
        \/ /\ node = Node(node.op, node.left, node.right)
           /\ node.op \in Operators /\ node.left \in Nodes /\ node.right \in Nodes
  OBVIOUS
<1>1. MaxTokens # 0 /\ node \in NodesOver(Trees[MaxTokens - 1])
  BY TreesDef, TokensAssumption DEF Nodes
<1>2. Trees[MaxTokens - 1] \subseteq Nodes
  <2>1. MaxTokens - 1 \in 0 .. MaxTokens /\ MaxTokens \in MaxTokens - 1 .. MaxTokens
    BY <1>1, TokensAssumption
  <2> QED BY <2>1, TreesGrow DEF Nodes
<1> HIDE DEF Nodes
<1> QED BY <1>1, <1>2 DEF NodesOver, Leaf, Call, Node

\* The ops of a leaf and of a call are no operators.
LEMMA NodeNames == "" \notin Operators /\ "func" \notin Operators
BY DEF Operators, Additive, Multiplicative

\* The same without the records.
LEMMA NodeParts ==
    ASSUME NEW node \in Nodes
    PROVE  /\ node.op = "" \/ node.op = "func" \/ node.op \in Operators
           /\ "" \notin Operators /\ "func" \notin Operators
           /\ node.op \notin Operators => node.value \in Words
           /\ node.op # "" => node.left \in Nodes
           /\ node.op \in Operators => node.right \in Nodes
BY NodeNames, NodeShapes

\* What holds of leaves, and of a node if of the nodes under it, holds of all.
Inductive(S) ==
    \A node \in Nodes :
        \/ node.op = ""
        \/ node.op = "func" /\ node.left \in S
        \/ node.op \in Operators /\ node.left \in S /\ node.right \in S
        => node \in S

\* Whatever holds of leaves, and of a node if of its children, holds of every node.
LEMMA TreeInduction ==
    ASSUME NEW S, Inductive(S)
    PROVE  Nodes \subseteq S
<1> DEFINE Done == {h \in Nat : h <= MaxTokens => Trees[h] \subseteq S}
<1> USE TokensAssumption
<1>1. 0 \in Done
  BY TreesDef
<1>2. ASSUME NEW h \in Nat, h \in Done PROVE h + 1 \in Done
  <2> SUFFICES ASSUME h + 1 <= MaxTokens, NEW node \in Trees[h + 1] PROVE node \in S
    OBVIOUS
  <2>1. node \in NodesOver(Trees[h]) /\ Trees[h] \subseteq S
    BY <1>2, TreesDef
  <2>2. node \in Nodes
    <3>1. h + 1 \in 0 .. MaxTokens /\ MaxTokens \in h + 1 .. MaxTokens
      OBVIOUS
    <3> QED BY <3>1, TreesGrow DEF Nodes
  <2>3. \/ node.op = ""
        \/ node.op = "func" /\ node.left \in S
        \/ node.op \in Operators /\ node.left \in S /\ node.right \in S
    BY <2>1 DEF NodesOver
  <2> QED BY <2>2, <2>3 DEF Inductive
<1>3. MaxTokens \in Done
  <2> HIDE DEF Done
  <2> QED BY <1>1, <1>2, EveryNat
<1> QED BY <1>3 DEF Nodes

\* What a function says of the nodes under a node, if there are any.
OfLeft(f, node, none) == IF node.op = "" THEN none ELSE f[node.left]
OfRight(f, node, none) == IF node.op \in Operators THEN f[node.right] ELSE none

\* A node whose subnodes are in T.
LEMMA OverShapes ==
    ASSUME NEW T, NEW node \in NodesOver(T)
    PROVE  /\ node.op = "" \/ node.op = "func" \/ node.op \in Operators
           /\ node.op # "" => node.left \in T
           /\ node.op \in Operators => node.right \in T
BY NodeNames DEF NodesOver

\* A function on trees may be defined from what it says of the nodes below.
LEMMA TreeRecursion ==
    ASSUME NEW V, NEW none \in V, NEW step \in [Nodes \X V \X V -> V]
    PROVE  \E f \in [Nodes -> V] :
             \A node \in Nodes :
                 f[node] = step[<<node, OfLeft(f, node, none), OfRight(f, node, none)>>]
<1> DEFINE Value1(f, node) == step[<<node, OfLeft(f, node, none), OfRight(f, node, none)>>]
           Good(h, f) == /\ f \in [Trees[h] -> V]
                         /\ \A node \in Trees[h] : f[node] = Value1(f, node)
           Done == {h \in Nat : h <= MaxTokens => \E f : Good(h, f)}
<1>1. 0 \in Done
  <2>1. Good(0, [node \in {} |-> none])
    BY TreesDef, TokensAssumption
  <2> QED BY <2>1
<1>2. ASSUME NEW h \in Nat, h \in Done PROVE h + 1 \in Done
  <2> SUFFICES ASSUME h + 1 <= MaxTokens PROVE \E f : Good(h + 1, f)
    OBVIOUS
  <2>1. PICK f : Good(h, f)
    BY <1>2, TokensAssumption
  <2>2. /\ Trees[h + 1] = NodesOver(Trees[h])
        /\ Trees[h] \subseteq Trees[h + 1]
        /\ Trees[h + 1] \subseteq Nodes
    BY TreesDef, TreesGrow, TokensAssumption DEF Nodes
  <2>3. ASSUME NEW node \in Trees[h + 1] PROVE Value1(f, node) \in V
    <3>1. OfLeft(f, node, none) \in V /\ OfRight(f, node, none) \in V
      BY <2>1, <2>2, OverShapes DEF OfLeft, OfRight
    <3> QED BY <2>2, <3>1
  <2> DEFINE g == [node \in Trees[h + 1] |-> Value1(f, node)]
  <2>4. g \in [Trees[h + 1] -> V]
    BY <2>3
  <2>5. \A node \in Trees[h] : g[node] = f[node]
    BY <2>1, <2>2
  <2>6. ASSUME NEW node \in Trees[h + 1] PROVE g[node] = Value1(g, node)
    <3>1. /\ node.op # "" => node.left \in Trees[h]
          /\ node.op \in Operators => node.right \in Trees[h]
      BY <2>2, OverShapes
    <3> HIDE DEF g
    <3>2. OfLeft(f, node, none) = OfLeft(g, node, none) /\ OfRight(f, node, none) = OfRight(g, node, none)
      BY <2>5, <3>1 DEF OfLeft, OfRight
    <3>3. Value1(f, node) = Value1(g, node)
      BY <3>2
    <3> QED BY <3>3 DEF g
  <2>7. Good(h + 1, g)
    <3> HIDE DEF g
    <3> QED BY <2>4, <2>6
  <2> QED BY <2>7
<1>3. MaxTokens \in Done
  <2> HIDE DEF Done
  <2> QED BY <1>1, <1>2, EveryNat, TokensAssumption
<1>4. PICK f : Good(MaxTokens, f)
  BY <1>3, TokensAssumption
<1> QED BY <1>4 DEF Nodes

-----------------------------------------------------------------------------
(* What the compiler makes of a tree.                                       *)

\* Sequences of a set, by their elements.
LEMMA Sequences1 ==
    ASSUME NEW S
    PROVE  /\ <<>> \in Seq(S)
           /\ \A x \in S : <<x>> \in Seq(S)
           /\ \A s, t \in Seq(S) : s \o t \in Seq(S)
OBVIOUS

\* The fields of a tree, by that definition.
LEMMA CollectDef ==
    \A node \in Nodes :
        /\ CollectLeafFields(node) \in Seq(Words)
        /\ CollectLeafFields(node) =
             IF node.op = "" THEN (IF node.value \in Numbers THEN <<>> ELSE <<node.value>>)
             ELSE IF node.op = "func" THEN CollectLeafFields(node.left)
             ELSE CollectLeafFields(node.left) \o CollectLeafFields(node.right)
<1> DEFINE V == Seq(Words)
           Own(node) == IF node.value \in Numbers THEN <<>> ELSE <<node.value>>
           Body(f, node) == IF node.op = "" THEN Own(node)
                            ELSE IF node.op = "func" THEN f[node.left]
                            ELSE f[node.left] \o f[node.right]
           step == [a \in Nodes \X V \X V |->
                      IF a[1].op = "" THEN Own(a[1])
                      ELSE IF a[1].op = "func" THEN a[2] ELSE a[2] \o a[3]]
           leaves == CHOOSE f : f = [node \in Nodes |-> Body(f, node)]
<1>1. \A node \in Nodes : node.op = "" => Own(node) \in V
  BY NodeParts, Sequences1
<1>2. step \in [Nodes \X V \X V -> V]
  <2>1. <<>> \in V /\ \A s, t \in V : s \o t \in V
    OBVIOUS
  <2> HIDE DEF V, Own
  <2> QED BY <1>1, <2>1
<1>3. PICK f \in [Nodes -> V] :
         \A node \in Nodes : f[node] = step[<<node, OfLeft(f, node, <<>>), OfRight(f, node, <<>>)>>]
  <2>1. <<>> \in V
    OBVIOUS
  <2> HIDE DEF step, V
  <2> QED BY <1>2, <2>1, TreeRecursion, ZenonT(40)
<1>4. ASSUME NEW node \in Nodes PROVE f[node] = Body(f, node)
  <2>1. /\ OfLeft(f, node, <<>>) \in V /\ OfRight(f, node, <<>>) \in V
        /\ node.op # "" => OfLeft(f, node, <<>>) = f[node.left]
        /\ node.op # "" /\ node.op # "func" => OfRight(f, node, <<>>) = f[node.right]
    <3>1. <<>> \in V
      BY Sequences1
    <3> HIDE DEF V, step
    <3> QED BY <1>3, <3>1, NodeParts DEF OfLeft, OfRight
  <2> HIDE DEF V, Own
  <2> QED BY <1>3, <2>1
<1>5. f = [node \in Nodes |-> Body(f, node)]
  <2> HIDE DEF Body
  <2> QED BY <1>3, <1>4
<1>6. leaves = [node \in Nodes |-> Body(leaves, node)]
  BY <1>5, Zenon
<1>7. \A tree : CollectLeafFields(tree) = leaves[tree]
  BY Zenon DEF CollectLeafFields
<1> HIDE DEF leaves
<1>8. \A node \in Nodes : leaves[node] \in V
  <2> DEFINE S == {node \in Nodes : leaves[node] \in V}
  <2>1. Inductive(S)
    <3> SUFFICES ASSUME NEW node \in Nodes,
                        \/ node.op = ""
                        \/ node.op = "func" /\ node.left \in S
                        \/ node.op \in Operators /\ node.left \in S /\ node.right \in S
                 PROVE  leaves[node] \in V
      BY DEF Inductive
    <3>1. leaves[node] = Body(leaves, node)
      <4> HIDE DEF Body
      <4> QED BY <1>6
    <3>2. \A s, t \in V : s \o t \in V
      BY Sequences1
    <3> HIDE DEF V, Own
    <3> QED BY <1>1, <3>1, <3>2, NodeParts
  <2> HIDE DEF S
  <2>2. Nodes \subseteq S
    BY <2>1, TreeInduction
  <2> QED BY <2>2 DEF S
<1> QED BY <1>6, <1>7, <1>8

\* What panics, by that definition.
LEMMA PanicsDef ==
    \A node \in Nodes :
        Panics(node) = IF node.op = "" THEN FALSE
                       ELSE IF node.op = "func" THEN node.value # "sum"
                       ELSE Panics(node.left) \/ Panics(node.right)
<1> DEFINE Body(f, node) == IF node.op = "" THEN FALSE
                            ELSE IF node.op = "func" THEN node.value # "sum"
                            ELSE f[node.left] \/ f[node.right]
           step == [a \in Nodes \X BOOLEAN \X BOOLEAN |->
                      IF a[1].op = "" THEN FALSE
                      ELSE IF a[1].op = "func" THEN a[1].value # "sum" ELSE a[2] \/ a[3]]
           panics == CHOOSE f : f = [node \in Nodes |-> Body(f, node)]
<1>1. step \in [Nodes \X BOOLEAN \X BOOLEAN -> BOOLEAN]
  OBVIOUS
<1>2. PICK f \in [Nodes -> BOOLEAN] :
         \A node \in Nodes :
             f[node] = step[<<node, OfLeft(f, node, FALSE), OfRight(f, node, FALSE)>>]
  <2>1. FALSE \in BOOLEAN
    OBVIOUS
  <2> HIDE DEF step
  <2> QED BY <1>1, <2>1, TreeRecursion
<1>3. ASSUME NEW node \in Nodes PROVE f[node] = Body(f, node)
  <2>1. /\ OfLeft(f, node, FALSE) \in BOOLEAN /\ OfRight(f, node, FALSE) \in BOOLEAN
        /\ node.op # "" => OfLeft(f, node, FALSE) = f[node.left]
        /\ node.op # "" /\ node.op # "func" => OfRight(f, node, FALSE) = f[node.right]
    <3> HIDE DEF step
    <3> QED BY <1>2, NodeParts DEF OfLeft, OfRight
  <2> QED BY <1>2, <2>1
<1>4. f = [node \in Nodes |-> Body(f, node)]
  <2> HIDE DEF Body
  <2> QED BY <1>2, <1>3
<1>5. panics = [node \in Nodes |-> Body(panics, node)]
  BY <1>4, Zenon
<1>6. \A tree : Panics(tree) = panics[tree]
  BY Zenon DEF Panics
<1> HIDE DEF panics
<1>7. \A node \in Nodes : panics[node] = Body(panics, node)
  <2> HIDE DEF Body
  <2> QED BY <1>5
<1> QED BY <1>6, <1>7, Zenon

\* What is a formula over sums, by that definition.
LEMMA SumsOnlyDef ==
    \A node \in Nodes :
        SumsOnly(node) = IF node.op = "" THEN node.value \in Numbers
                       ELSE IF node.op = "func" THEN Alone(node.left)
                       ELSE SumsOnly(node.left) /\ SumsOnly(node.right)
<1> DEFINE Body(f, node) == IF node.op = "" THEN node.value \in Numbers
                            ELSE IF node.op = "func" THEN Alone(node.left)
                            ELSE f[node.left] /\ f[node.right]
           step == [a \in Nodes \X BOOLEAN \X BOOLEAN |->
                      IF a[1].op = "" THEN a[1].value \in Numbers
                      ELSE IF a[1].op = "func" THEN Alone(a[1].left) ELSE a[2] /\ a[3]]
           sums == CHOOSE f : f = [node \in Nodes |-> Body(f, node)]
<1>1. step \in [Nodes \X BOOLEAN \X BOOLEAN -> BOOLEAN]
  <2>1. \A x : Alone(x) \in BOOLEAN /\ (x \in Numbers) \in BOOLEAN
    BY DEF Alone
  <2> QED BY <2>1
<1>2. PICK f \in [Nodes -> BOOLEAN] :
         \A node \in Nodes :
             f[node] = step[<<node, OfLeft(f, node, FALSE), OfRight(f, node, FALSE)>>]
  <2>1. FALSE \in BOOLEAN
    OBVIOUS
  <2> HIDE DEF step
  <2> QED BY <1>1, <2>1, TreeRecursion
<1>3. ASSUME NEW node \in Nodes PROVE f[node] = Body(f, node)
  <2>1. /\ OfLeft(f, node, FALSE) \in BOOLEAN /\ OfRight(f, node, FALSE) \in BOOLEAN
        /\ node.op # "" => OfLeft(f, node, FALSE) = f[node.left]
        /\ node.op # "" /\ node.op # "func" => OfRight(f, node, FALSE) = f[node.right]
    <3> HIDE DEF step
    <3> QED BY <1>2, NodeParts DEF OfLeft, OfRight
  <2> QED BY <1>2, <2>1
<1>4. f = [node \in Nodes |-> Body(f, node)]
  <2> HIDE DEF Body
  <2> QED BY <1>2, <1>3
<1>5. sums = [node \in Nodes |-> Body(sums, node)]
  BY <1>4, Zenon
<1>6. \A tree : SumsOnly(tree) = sums[tree]
  BY Zenon DEF SumsOnly
<1> HIDE DEF sums
<1>7. \A node \in Nodes : sums[node] = Body(sums, node)
  <2> HIDE DEF Body
  <2> QED BY <1>5
<1> QED BY <1>6, <1>7, Zenon

\* The same of post-aggregations.
LEMMA PostAggsDef ==
    \A h \in 0 .. MaxTokens : PostAggs[h] = IF h = 0 THEN {} ELSE PostAggsOver(PostAggs[h - 1])
<1> DEFINE Good(n, g) == g = [h \in 0 .. n |-> IF h = 0 THEN {} ELSE PostAggsOver(g[h - 1])]
           Done == {n \in Nat : \E g : Good(n, g)}
<1>1. 0 \in Done
  <2>1. Good(0, [h \in 0 .. 0 |-> {}])
    OBVIOUS
  <2> QED BY <2>1
<1>2. ASSUME NEW n \in Nat, n \in Done PROVE n + 1 \in Done
  <2>1. PICK g : Good(n, g)
    BY <1>2
  <2> DEFINE f == [h \in 0 .. n + 1 |-> IF h = n + 1 THEN PostAggsOver(g[h - 1]) ELSE g[h]]
  <2>2. \A h \in 0 .. n + 1 : f[h] = IF h = 0 THEN {} ELSE PostAggsOver(f[h - 1])
    <3>1. \A h \in 0 .. n : g[h] = IF h = 0 THEN {} ELSE PostAggsOver(g[h - 1])
      BY <2>1
    <3>2. \A h \in 0 .. n : f[h] = g[h]
      OBVIOUS
    <3>3. f[n + 1] = PostAggsOver(g[n])
      OBVIOUS
    <3> HIDE DEF f
    <3> QED BY <3>1, <3>2, <3>3
  <2>3. Good(n + 1, f)
    BY <2>2
  <2>4. \E e : Good(n + 1, e)
    BY <2>3
  <2> QED BY <2>4
<1>3. PICK g : Good(MaxTokens, g)
  <2>1. MaxTokens \in Done
    <3> HIDE DEF Done
    <3> QED BY <1>1, <1>2, EveryNat, TokensAssumption
  <2> QED BY <2>1
<1>4. PostAggs = [h \in 0 .. MaxTokens |-> IF h = 0 THEN {} ELSE PostAggsOver(PostAggs[h - 1])]
  BY <1>3, Zenon DEF PostAggs
<1> QED BY <1>4

\* And of theirs.
LEMMA PostAggsGrow ==
    ASSUME NEW h \in 0 .. MaxTokens, NEW k \in h .. MaxTokens
    PROVE  PostAggs[h] \subseteq PostAggs[k]
<1>1. ASSUME NEW S, NEW T, S \subseteq T PROVE PostAggsOver(S) \subseteq PostAggsOver(T)
  BY <1>1 DEF PostAggsOver
<1> DEFINE Up == {n \in Nat : n + 1 <= MaxTokens => PostAggs[n] \subseteq PostAggs[n + 1]}
           Far == {n \in Nat : h + n <= MaxTokens => PostAggs[h] \subseteq PostAggs[h + n]}
<1> USE TokensAssumption
<1>2. 0 \in Up
  BY PostAggsDef
<1>3. ASSUME NEW n \in Nat, n \in Up PROVE n + 1 \in Up
  <2> SUFFICES ASSUME n + 1 + 1 <= MaxTokens PROVE PostAggs[n + 1] \subseteq PostAggs[n + 1 + 1]
    OBVIOUS
  <2>1. PostAggs[n] \subseteq PostAggs[n + 1]
    BY <1>3
  <2>2. PostAggs[n + 1] = PostAggsOver(PostAggs[n]) /\ PostAggs[n + 1 + 1] = PostAggsOver(PostAggs[n + 1])
    BY PostAggsDef
  <2> QED BY <1>1, <2>1, <2>2
<1>4. Nat \subseteq Up
  <2> HIDE DEF Up
  <2> QED BY <1>2, <1>3, EveryNat
<1>5. 0 \in Far
  OBVIOUS
<1>6. ASSUME NEW n \in Nat, n \in Far PROVE n + 1 \in Far
  <2> SUFFICES ASSUME h + (n + 1) <= MaxTokens PROVE PostAggs[h] \subseteq PostAggs[h + (n + 1)]
    OBVIOUS
  <2>1. PostAggs[h] \subseteq PostAggs[h + n]
    BY <1>6
  <2>2. h + n \in Nat /\ h + (n + 1) = (h + n) + 1
    OBVIOUS
  <2>3. PostAggs[h + n] \subseteq PostAggs[(h + n) + 1]
    BY <1>4, <2>2
  <2> QED BY <2>1, <2>2, <2>3
<1>7. k - h \in Nat /\ h + (k - h) = k
  OBVIOUS
<1>8. k - h \in Far
  <2> HIDE DEF Far
  <2> QED BY <1>5, <1>6, <1>7, EveryNat
<1> QED BY <1>7, <1>8

\* A post-aggregation is made of those of the nodes below.
LEMMA PostAggDef ==
    \A node \in Nodes :
        NodeToDruidPostAgg(node) =
            IF node.op = "" /\ node.value \in Numbers THEN [type |-> "constant"]
            ELSE IF node.op = "" THEN [type |-> "fieldAccess", fieldName |-> node.value]
            ELSE IF node.op = "func"
            THEN [type |-> "fieldAccess", fieldName |-> SumName(Value(node.left))]
            ELSE [type |-> "arithmetic", fn |-> node.op,
                  fields |-> <<NodeToDruidPostAgg(node.left), NodeToDruidPostAgg(node.right)>>]
<1> DEFINE Body(f, node) ==
             IF node.op = "" /\ node.value \in Numbers THEN [type |-> "constant"]
             ELSE IF node.op = "" THEN [type |-> "fieldAccess", fieldName |-> node.value]
             ELSE IF node.op = "func"
             THEN [type |-> "fieldAccess", fieldName |-> SumName(Value(node.left))]
             ELSE [type |-> "arithmetic", fn |-> node.op,
                   fields |-> <<f[node.left], f[node.right]>>]
           Good(h, f) == f = [node \in Trees[h] |-> Body(f, node)]
           Done == {h \in Nat : h <= MaxTokens => \E f : Good(h, f)}
           agg == CHOOSE f : f = [node \in Nodes |-> Body(f, node)]
<1> HIDE DEF Body
<1>1. 0 \in Done
  <2>1. Good(0, [node \in {} |-> 0])
    BY TreesDef, TokensAssumption
  <2> QED BY <2>1
<1>2. ASSUME NEW h \in Nat, h \in Done PROVE h + 1 \in Done
  <2> SUFFICES ASSUME h + 1 <= MaxTokens PROVE \E f : Good(h + 1, f)
    OBVIOUS
  <2>1. PICK f : Good(h, f)
    BY <1>2, TokensAssumption
  <2>2. Trees[h + 1] = NodesOver(Trees[h]) /\ Trees[h] \subseteq Trees[h + 1]
    BY TreesDef, TreesGrow, TokensAssumption
  <2> DEFINE g == [node \in Trees[h + 1] |-> Body(f, node)]
  <2>3. \A node \in Trees[h] : g[node] = f[node]
    <3> QED BY <2>1, <2>2
  <2>4. ASSUME NEW node \in Trees[h + 1] PROVE g[node] = Body(g, node)
    <3>1. /\ node.op = "" \/ node.op = "func" \/ node.op \in Operators
          /\ node.op \in Operators => node.left \in Trees[h] /\ node.right \in Trees[h]
      BY <2>2, OverShapes, NodeNames
    <3>2. g[node] = Body(f, node)
      OBVIOUS
    <3> HIDE DEF g
    <3> QED BY <2>3, <3>1, <3>2, NodeNames DEF Body
  <2>5. Good(h + 1, g)
    <3>1. g = [node \in Trees[h + 1] |-> g[node]]
      OBVIOUS
    <3> HIDE DEF g
    <3> QED BY <2>4, <3>1
  <2> QED BY <2>5
<1>3. MaxTokens \in Done
  <2> HIDE DEF Done
  <2> QED BY <1>1, <1>2, EveryNat, TokensAssumption
<1>4. PICK f : f = [node \in Nodes |-> Body(f, node)]
  BY <1>3, TokensAssumption DEF Nodes
<1>5. agg = [node \in Nodes |-> Body(agg, node)]
  BY <1>4, Zenon DEF Body
<1>6. \A tree : NodeToDruidPostAgg(tree) = agg[tree]
  BY Zenon DEF NodeToDruidPostAgg, Body
<1> HIDE DEF agg
<1>7. \A node \in Nodes : agg[node] = Body(agg, node)
  BY <1>5
<1> QED BY <1>6, <1>7 DEF Body

\* What a post-aggregation reads are the names of its fields.
LEMMA ReferencesDef ==
    \A agg \in PostAggs[MaxTokens] :
        References(agg) = IF agg.type = "constant" THEN {}
                          ELSE IF agg.type = "fieldAccess" THEN {agg.fieldName}
                          ELSE References(agg.fields[1]) \cup References(agg.fields[2])
<1> DEFINE Body(f, agg) == IF agg.type = "constant" THEN {}
                           ELSE IF agg.type = "fieldAccess" THEN {agg.fieldName}
                           ELSE f[agg.fields[1]] \cup f[agg.fields[2]]
           Good(h, f) == f = [agg \in PostAggs[h] |-> Body(f, agg)]
           Done == {h \in Nat : h <= MaxTokens => \E f : Good(h, f)}
           reads == CHOOSE f : f = [agg \in PostAggs[MaxTokens] |-> Body(f, agg)]
<1> HIDE DEF Body
<1>1. 0 \in Done
  <2>1. Good(0, [agg \in {} |-> 0])
    BY PostAggsDef, TokensAssumption
  <2> QED BY <2>1
<1>2. ASSUME NEW h \in Nat, h \in Done PROVE h + 1 \in Done
  <2> SUFFICES ASSUME h + 1 <= MaxTokens PROVE \E f : Good(h + 1, f)
    OBVIOUS
  <2>1. PICK f : Good(h, f)
    BY <1>2, TokensAssumption
  <2>2. PostAggs[h + 1] = PostAggsOver(PostAggs[h]) /\ PostAggs[h] \subseteq PostAggs[h + 1]
    BY PostAggsDef, PostAggsGrow, TokensAssumption
  <2> DEFINE g == [agg \in PostAggs[h + 1] |-> Body(f, agg)]
  <2>3. \A agg \in PostAggs[h] : g[agg] = f[agg]
    <3> QED BY <2>1, <2>2
  <2>4. ASSUME NEW agg \in PostAggs[h + 1] PROVE g[agg] = Body(g, agg)
    <3>1. \/ agg.type = "constant" \/ agg.type = "fieldAccess"
          \/ agg.fields[1] \in PostAggs[h] /\ agg.fields[2] \in PostAggs[h]
      BY <2>2 DEF PostAggsOver
    <3>2. g[agg] = Body(f, agg)
      OBVIOUS
    <3> HIDE DEF g
    <3> QED BY <2>3, <3>1, <3>2 DEF Body
  <2>5. Good(h + 1, g)
    <3>1. g = [agg \in PostAggs[h + 1] |-> g[agg]]
      OBVIOUS
    <3> HIDE DEF g
    <3> QED BY <2>4, <3>1
  <2> QED BY <2>5
<1>3. MaxTokens \in Done
  <2> HIDE DEF Done
  <2> QED BY <1>1, <1>2, EveryNat, TokensAssumption
<1>4. PICK f : f = [agg \in PostAggs[MaxTokens] |-> Body(f, agg)]
  BY <1>3, TokensAssumption
<1>5. reads = [agg \in PostAggs[MaxTokens] |-> Body(reads, agg)]
  BY <1>4, Zenon DEF Body
<1>6. \A tree : References(tree) = reads[tree]
  BY Zenon DEF References, Body
<1> HIDE DEF reads
<1>7. \A agg \in PostAggs[MaxTokens] : reads[agg] = Body(reads, agg)
  BY <1>5
<1> QED BY <1>6, <1>7 DEF Body

\* A post-aggregation is no higher than its node.
LEMMA PostAggType ==
    \A h \in 0 .. MaxTokens : \A node \in Trees[h] : NodeToDruidPostAgg(node) \in PostAggs[h]
<1> DEFINE Done == {h \in Nat : h <= MaxTokens =>
                        \A node \in Trees[h] : NodeToDruidPostAgg(node) \in PostAggs[h]}
<1>1. 0 \in Done
  BY TreesDef, TokensAssumption
<1>2. ASSUME NEW h \in Nat, h \in Done PROVE h + 1 \in Done
  <2> SUFFICES ASSUME h + 1 <= MaxTokens, NEW node \in Trees[h + 1]
               PROVE  NodeToDruidPostAgg(node) \in PostAggs[h + 1]
    OBVIOUS
  <2>1. /\ Trees[h + 1] = NodesOver(Trees[h]) /\ Trees[h + 1] \subseteq Nodes
        /\ PostAggs[h + 1] = PostAggsOver(PostAggs[h])
    BY TreesDef, TreesGrow, PostAggsDef, TokensAssumption DEF Nodes
  <2>2. /\ node.op = "" \/ node.op = "func" \/ node.op \in Operators
        /\ node \in Nodes
        /\ node.op # "" => node.left \in Trees[h]
        /\ node.op \in Operators => node.right \in Trees[h]
    BY <2>1, OverShapes
  <2>3. \A x \in Trees[h] : NodeToDruidPostAgg(x) \in PostAggs[h]
    BY <1>2, TokensAssumption
  <2> DEFINE agg == NodeToDruidPostAgg(node)
  <2>4. CASE node.op = ""
    <3>1. node.value \in FieldNames
      BY <2>2, <2>4, NodeParts DEF FieldNames
    <3>2. agg = IF node.value \in Numbers THEN [type |-> "constant"]
                ELSE [type |-> "fieldAccess", fieldName |-> node.value]
      BY <2>2, <2>4, PostAggDef
    <3> QED BY <2>1, <3>1, <3>2 DEF PostAggsOver
  <2>5. CASE node.op = "func"
    <3>1. node.left \in Nodes
      BY <2>2, <2>5, NodeParts
    <3>2. Value(node.left) \in Words \cup {""}
      BY <3>1, NodeParts DEF Value
    <3>3. SumName(Value(node.left)) \in FieldNames
      BY <3>2 DEF FieldNames
    <3>4. agg = [type |-> "fieldAccess", fieldName |-> SumName(Value(node.left))]
      BY <2>2, <2>5, PostAggDef
    <3> QED BY <2>1, <3>3, <3>4 DEF PostAggsOver
  <2>6. CASE node.op \in Operators
    <3>1. agg = [type |-> "arithmetic", fn |-> node.op,
                 fields |-> <<NodeToDruidPostAgg(node.left), NodeToDruidPostAgg(node.right)>>]
      BY <2>2, <2>6, PostAggDef, NodeNames
    <3>2. NodeToDruidPostAgg(node.left) \in PostAggs[h] /\ NodeToDruidPostAgg(node.right) \in PostAggs[h]
      BY <2>2, <2>3, <2>6, NodeNames
    <3> QED BY <2>1, <2>6, <3>1, <3>2 DEF PostAggsOver
  <2> QED BY <2>2, <2>4, <2>5, <2>6
<1> QED
  <2> HIDE DEF Done
  <2>1. Nat \subseteq Done
    BY <1>1, <1>2, EveryNat
  <2> QED BY <2>1, TokensAssumption DEF Done

\* The elements of a sequence of one.
LEMMA OneElement == \A x : ToSet(<<x>>) = {x}
BY DEF ToSet

\* The elements of two sequences in a row.
LEMMA ConcatSet ==
    ASSUME NEW s \in Seq(Words), NEW t \in Seq(Words)
    PROVE  ToSet(s \o t) = ToSet(s) \cup ToSet(t)
<1>1. /\ Len(s) \in Nat /\ Len(t) \in Nat /\ Len(s \o t) = Len(s) + Len(t)
      /\ DOMAIN s = 1 .. Len(s) /\ DOMAIN t = 1 .. Len(t) /\ DOMAIN (s \o t) = 1 .. Len(s) + Len(t)
      /\ \A i \in 1 .. Len(s) : (s \o t)[i] = s[i]
      /\ \A i \in 1 .. Len(t) : (s \o t)[Len(s) + i] = t[i]
  OBVIOUS
<1> DEFINE u == s \o t
<1> HIDE DEF u
<1>2. \A i \in 1 .. Len(s) + Len(t) :
         i \in 1 .. Len(s) \/ (i - Len(s) \in 1 .. Len(t) /\ i = Len(s) + (i - Len(s)))
  BY <1>1
<1>3. ASSUME NEW x \in ToSet(u) PROVE x \in ToSet(s) \cup ToSet(t)
  <2>1. PICK i \in 1 .. Len(s) + Len(t) : x = u[i]
    BY <1>1 DEF ToSet, u
  <2> QED BY <1>1, <1>2, <2>1 DEF ToSet, u
<1>4. ASSUME NEW x \in ToSet(s) PROVE x \in ToSet(u)
  BY <1>1 DEF ToSet, u
<1>5. ASSUME NEW x \in ToSet(t) PROVE x \in ToSet(u)
  <2>1. PICK i \in 1 .. Len(t) : x = t[i]
    BY <1>1 DEF ToSet
  <2>2. Len(s) + i \in 1 .. Len(s) + Len(t) /\ u[Len(s) + i] = x
    BY <1>1, <2>1 DEF u
  <2> QED BY <1>1, <2>2 DEF ToSet, u
<1> QED BY <1>3, <1>4, <1>5 DEF u

\* The post-aggregation of a tree over sums reads the sums of its fields.
LEMMA ReadsSums ==
    ASSUME NEW tree \in Nodes, SumsOnly(tree)
    PROVE  References(NodeToDruidPostAgg(tree)) \subseteq
               {SumName(f) : f \in ToSet(CollectLeafFields(tree))}
<1> DEFINE Sums(node) == {SumName(f) : f \in ToSet(CollectLeafFields(node))}
           Reads(node) == References(NodeToDruidPostAgg(node))
           S == {node \in Nodes : SumsOnly(node) => Reads(node) \subseteq Sums(node)}
<1>1. \A node \in Nodes : NodeToDruidPostAgg(node) \in PostAggs[MaxTokens]
  BY PostAggType, TokensAssumption DEF Nodes
<1>2. Inductive(S)
  <2> SUFFICES ASSUME NEW node \in Nodes,
                      \/ node.op = ""
                      \/ node.op = "func" /\ node.left \in S
                      \/ node.op \in Operators /\ node.left \in S /\ node.right \in S,
                      SumsOnly(node)
               PROVE  Reads(node) \subseteq Sums(node)
    BY DEF Inductive
  <2> DEFINE agg == NodeToDruidPostAgg(node)
  <2>1. Reads(node) = IF agg.type = "constant" THEN {}
                      ELSE IF agg.type = "fieldAccess" THEN {agg.fieldName}
                      ELSE References(agg.fields[1]) \cup References(agg.fields[2])
    BY <1>1, ReferencesDef
  <2> HIDE DEF agg, Reads, Sums
  <2>2. CASE node.op = ""
    <3>1. node.value \in Numbers
      BY <2>2, SumsOnlyDef
    <3>2. agg = [type |-> "constant"]
      BY <2>2, <3>1, PostAggDef DEF agg
    <3>3. agg.type = "constant"
      BY <3>2
    <3> QED BY <2>1, <3>3
  <2>3. CASE node.op = "func"
    <3>1. node.left \in Nodes /\ Alone(node.left)
      BY <2>3, SumsOnlyDef, NodeParts
    <3>2. agg = [type |-> "fieldAccess", fieldName |-> SumName(node.left.value)]
      BY <2>3, <3>1, PostAggDef DEF Alone, Value, agg
    <3>3. CollectLeafFields(node) = <<node.left.value>>
      BY <2>3, <3>1, CollectDef DEF Alone
    <3>4. SumName(node.left.value) \in Sums(node)
      BY <3>3, OneElement DEF Sums
    <3>5. Reads(node) = {SumName(node.left.value)}
      <4>1. agg.type = "fieldAccess" /\ agg.fieldName = SumName(node.left.value)
        BY <3>2
      <4> QED BY <2>1, <4>1
    <3> QED BY <3>4, <3>5
  <2>4. CASE node.op \in Operators
    <3>1. /\ node.left \in S /\ node.right \in S
          /\ node.op # "" /\ node.op # "func"
      BY <2>4, NodeNames
    <3>2. SumsOnly(node.left) /\ SumsOnly(node.right)
      BY <3>1, SumsOnlyDef
    <3>3. Reads(node.left) \subseteq Sums(node.left) /\ Reads(node.right) \subseteq Sums(node.right)
      BY <3>1, <3>2
    <3>4. agg = [type |-> "arithmetic", fn |-> node.op,
                 fields |-> <<NodeToDruidPostAgg(node.left), NodeToDruidPostAgg(node.right)>>]
      BY <3>1, PostAggDef DEF agg
    <3>5. Reads(node) = Reads(node.left) \cup Reads(node.right)
      <4>1. /\ agg.type = "arithmetic"
            /\ agg.fields[1] = NodeToDruidPostAgg(node.left)
            /\ agg.fields[2] = NodeToDruidPostAgg(node.right)
        BY <3>4
      <4> QED BY <2>1, <4>1 DEF Reads
    <3>6. /\ CollectLeafFields(node) = CollectLeafFields(node.left) \o CollectLeafFields(node.right)
          /\ CollectLeafFields(node.left) \in Seq(Words) /\ CollectLeafFields(node.right) \in Seq(Words)
      BY <3>1, CollectDef
    <3>7. ToSet(CollectLeafFields(node)) =
              ToSet(CollectLeafFields(node.left)) \cup ToSet(CollectLeafFields(node.right))
      <4>1. ToSet(CollectLeafFields(node.left) \o CollectLeafFields(node.right)) =
                ToSet(CollectLeafFields(node.left)) \cup ToSet(CollectLeafFields(node.right))
        <5> DEFINE l == CollectLeafFields(node.left)
                   r == CollectLeafFields(node.right)
        <5>1. l \in Seq(Words) /\ r \in Seq(Words)
          BY <3>6
        <5> HIDE DEF l, r
        <5>2. ToSet(l \o r) = ToSet(l) \cup ToSet(r)
          BY <5>1, ConcatSet
        <5> QED BY <5>2 DEF l, r
      <4> QED BY <3>6, <4>1
    <3>8. Sums(node.left) \subseteq Sums(node) /\ Sums(node.right) \subseteq Sums(node)
      BY <3>7 DEF Sums
    <3> QED BY <3>3, <3>5, <3>8
  <2> QED BY <2>2, <2>3, <2>4
<1>3. tree \in S
  <2> HIDE DEF S
  <2> QED BY <1>2, TreeInduction
<1> QED BY <1>3

-----------------------------------------------------------------------------
(* What the recursive functions on tokens return.                           *)

\* The turns of a loop, by that definition.
LEMMA TurnsDef ==
    ASSUME NEW ts, Len(ts) \in Nat, NEW ops, NEW first, NEW operand
    PROVE  /\ Turns(ts, ops, first, operand)[0] = first
           /\ \A k \in 1 .. Len(ts) :
                Turns(ts, ops, first, operand)[k] =
                    Turn(ts, ops, Turns(ts, ops, first, operand)[k - 1], operand)
<1> DEFINE size == Len(ts)
           Step(acc) == Turn(ts, ops, acc, operand)
           Good(n, g) == g = [k \in 0 .. n |-> IF k = 0 THEN first ELSE Step(g[k - 1])]
           Done == {n \in Nat : \E g : Good(n, g)}
           turn == CHOOSE f : f = [k \in 0 .. size |-> IF k = 0 THEN first ELSE Step(f[k - 1])]
<1> HIDE DEF Step
<1>1. 0 \in Done
  <2>1. Good(0, [k \in 0 .. 0 |-> first])
    OBVIOUS
  <2> QED BY <2>1
<1>2. ASSUME NEW n \in Nat, n \in Done PROVE n + 1 \in Done
  <2>1. PICK g : Good(n, g)
    BY <1>2
  <2> DEFINE f == [k \in 0 .. n + 1 |-> IF k = n + 1 THEN Step(g[k - 1]) ELSE g[k]]
  <2>2. \A k \in 0 .. n + 1 : f[k] = IF k = 0 THEN first ELSE Step(f[k - 1])
    <3>1. \A k \in 0 .. n : g[k] = IF k = 0 THEN first ELSE Step(g[k - 1])
      BY <2>1
    <3>2. /\ \A k \in 0 .. n : f[k] = g[k]
          /\ f[n + 1] = Step(g[n])
      OBVIOUS
    <3> HIDE DEF f
    <3> QED BY <3>1, <3>2
  <2>3. Good(n + 1, f)
    BY <2>2
  <2>4. \E e : Good(n + 1, e)
    BY <2>3
  <2> QED BY <2>4
<1>3. PICK g : Good(size, g)
  <2>1. size \in Done
    <3> HIDE DEF Done
    <3> QED BY <1>1, <1>2, EveryNat
  <2> QED BY <2>1
<1>4. turn = [k \in 0 .. size |-> IF k = 0 THEN first ELSE Step(turn[k - 1])]
  BY <1>3, Zenon
<1>5. Turns(ts, ops, first, operand) = turn
  BY Zenon DEF Turns, Step
<1> HIDE DEF turn
<1>6. turn[0] = first /\ \A k \in 1 .. size : turn[k] = Step(turn[k - 1])
  BY <1>4
<1> QED BY <1>5, <1>6 DEF Step

\* The open parentheses, by that definition.
LEMMA DepthDef ==
    ASSUME NEW ts, Len(ts) \in Nat
    PROVE  /\ Depth(ts)[0] = 0
           /\ \A k \in 1 .. Len(ts) :
                /\ Depth(ts)[k - 1] \in Int
                /\ Depth(ts)[k] = Depth(ts)[k - 1] + IF ts[k] = "(" THEN 1
                                                     ELSE IF ts[k] = ")" THEN -1 ELSE 0
<1> DEFINE size == Len(ts)
           Step(k, d) == IF ts[k] = "(" THEN d + 1 ELSE IF ts[k] = ")" THEN d - 1 ELSE d
           Good(n, g) == g = [k \in 0 .. n |-> IF k = 0 THEN 0 ELSE Step(k, g[k - 1])]
           Done == {n \in Nat : \E g : Good(n, g)}
           depth == CHOOSE f : f = [k \in 0 .. size |-> IF k = 0 THEN 0 ELSE Step(k, f[k - 1])]
           Whole1 == {n \in Nat : n <= size => depth[n] \in Int}
<1> HIDE DEF Step
<1>1. 0 \in Done
  <2>1. Good(0, [k \in 0 .. 0 |-> 0])
    OBVIOUS
  <2> QED BY <2>1
<1>2. ASSUME NEW n \in Nat, n \in Done PROVE n + 1 \in Done
  <2>1. PICK g : Good(n, g)
    BY <1>2
  <2> DEFINE f == [k \in 0 .. n + 1 |-> IF k = n + 1 THEN Step(k, g[k - 1]) ELSE g[k]]
  <2>2. \A k \in 0 .. n + 1 : f[k] = IF k = 0 THEN 0 ELSE Step(k, f[k - 1])
    <3>1. \A k \in 0 .. n : g[k] = IF k = 0 THEN 0 ELSE Step(k, g[k - 1])
      BY <2>1
    <3>2. /\ \A k \in 0 .. n : f[k] = g[k]
          /\ f[n + 1] = Step(n + 1, g[n])
      OBVIOUS
    <3> HIDE DEF f
    <3> QED BY <3>1, <3>2
  <2>3. Good(n + 1, f)
    BY <2>2
  <2>4. \E e : Good(n + 1, e)
    BY <2>3
  <2> QED BY <2>4
<1>3. PICK g : Good(size, g)
  <2>1. size \in Done
    <3> HIDE DEF Done
    <3> QED BY <1>1, <1>2, EveryNat
  <2> QED BY <2>1
<1>4. depth = [k \in 0 .. size |-> IF k = 0 THEN 0 ELSE Step(k, depth[k - 1])]
  BY <1>3, Zenon
<1>5. Depth(ts) = depth
  BY Zenon DEF Depth, Step
<1> HIDE DEF depth
<1>6. depth[0] = 0 /\ \A k \in 1 .. size : depth[k] = Step(k, depth[k - 1])
  BY <1>4
<1>7. 0 \in Whole1
  BY <1>6
<1>8. ASSUME NEW n \in Nat, n \in Whole1 PROVE n + 1 \in Whole1
  <2> SUFFICES ASSUME n + 1 <= size PROVE depth[n + 1] \in Int
    OBVIOUS
  <2>1. depth[n + 1] = Step(n + 1, depth[n]) /\ depth[n] \in Int
    BY <1>6, <1>8
  <2> QED BY <2>1 DEF Step
<1>9. \A k \in 0 .. size : depth[k] \in Int
  <2>1. Nat \subseteq Whole1
    <3> HIDE DEF Whole1
    <3> QED BY <1>7, <1>8, EveryNat
  <2> QED BY <2>1
<1>10. ASSUME NEW k \in 1 .. size
       PROVE  /\ depth[k - 1] \in Int
              /\ depth[k] = depth[k - 1] + IF ts[k] = "(" THEN 1
                                           ELSE IF ts[k] = ")" THEN -1 ELSE 0
  <2>1. depth[k - 1] \in Int /\ depth[k] = Step(k, depth[k - 1])
    BY <1>6, <1>9
  <2> QED BY <2>1 DEF Step
<1> QED BY <1>5, <1>6, <1>10

\* A set of positions that is not empty has a last one.
LEMMA LastOne ==
    ASSUME NEW i \in Nat, NEW j \in Nat, NEW S, S \subseteq i .. j, S # {}
    PROVE  Last1(S) \in S /\ \A k \in S : k <= Last1(S)
<1> DEFINE Gaps == {j - k : k \in S}
<1>1. Gaps \subseteq Nat /\ Gaps # {}
  <2>1. \A k \in S : k \in i .. j
    OBVIOUS
  <2>2. \A k \in i .. j : j - k \in Nat
    OBVIOUS
  <2>3. \A k \in S : j - k \in Nat
    BY <2>1, <2>2
  <2>4. PICK k \in S : TRUE
    OBVIOUS
  <2> QED BY <2>3, <2>4
<1>2. PICK g \in Gaps : \A h \in Gaps : g <= h
  <2> HIDE DEF Gaps
  <2> QED BY <1>1, LeastNat
<1>3. PICK m \in S : g = j - m
  BY <1>2
<1>4. \A k \in S : k <= m
  <2> SUFFICES ASSUME NEW k \in S PROVE k <= m
    OBVIOUS
  <2>1. j - m <= j - k
    BY <1>2, <1>3
  <2>2. m \in Int /\ k \in Int
    OBVIOUS
  <2> QED BY <2>1, <2>2
<1>5. \E m1 \in S : \A k \in S : k <= m1
  BY <1>4
<1> QED BY <1>5, Zenon DEF Last1

\* What a segment is depends on the shorter ones only.
LEMMA SegmentLocal ==
    ASSUME NEW ts, Len(ts) \in Nat, NEW i \in 1 .. Len(ts) + 1, NEW j \in 0 .. Len(ts),
           NEW f, NEW g,
           \A a \in 1 .. Len(ts) + 1, b \in 0 .. Len(ts) :
               b - a < j - i /\ i <= j => f[<<a, b>>] = g[<<a, b>>]
    PROVE  Segment(ts, i, j, f) = Segment(ts, i, j, g)
<1> DEFINE n == Len(ts)
           Same(a, b) == f[<<a, b>>] = g[<<a, b>>]
<1>1. CASE j < i
  BY <1>1 DEF Segment
<1>2. CASE i <= j
  <2>1. ASSUME NEW a \in 1 .. n + 1, NEW b \in 0 .. n, b - a < j - i PROVE Same(a, b)
    BY <1>2, <2>1
  <2> HIDE DEF Same
  <2>2. ASSUME NEW ops, Outside(ts, i, j, ops) # {}
        PROVE  /\ Same(i, Last1(Outside(ts, i, j, ops)) - 1)
               /\ Same(Last1(Outside(ts, i, j, ops)) + 1, j)
    <3> DEFINE k == Last1(Outside(ts, i, j, ops))
    <3>1. Outside(ts, i, j, ops) \subseteq i .. j
      BY DEF Outside
    <3>2. k \in i .. j
      BY <2>2, <3>1, LastOne
    <3> HIDE DEF k
    <3>3. /\ k - 1 \in 0 .. n /\ (k - 1) - i < j - i
          /\ k + 1 \in 1 .. n + 1 /\ j - (k + 1) < j - i
      BY <1>2, <3>2
    <3>4. Same(i, k - 1) /\ Same(k + 1, j)
      BY <2>1, <3>3
    <3> QED BY <3>4 DEF k
  <2>3. i # j => Same(i + 1, j - 1)
    BY <1>2, <2>1
  <2>4. i + 2 <= n + 1 => Same(i + 2, j - 1)
    BY <1>2, <2>1
  <2>5. i # j /\ ts[j] = ")" /\ ts[i + 1] = "(" => i + 2 <= n + 1
    BY <1>2
  <2> HIDE DEF n
  <2> QED BY <1>2, <2>2, <2>3, <2>4, <2>5 DEF Segment, Same
<1> QED BY <1>1, <1>2

\* The tree of every segment, by that definition.
LEMMA SegmentsDef ==
    ASSUME NEW ts, Len(ts) \in Nat
    PROVE  \A i \in 1 .. Len(ts) + 1, j \in 0 .. Len(ts) :
               Segments(ts)[<<i, j>>] = Segment(ts, i, j, Segments(ts))
<1> DEFINE n == Len(ts)
           All == (1 .. n + 1) \X (0 .. n)
           Short(m) == {s \in All : s[2] - s[1] < m}
           Body(f, s) == Segment(ts, s[1], s[2], f)
           Good(m, f) == f = [s \in Short(m) |-> Body(f, s)]
           Done == {m \in Nat : \E f : Good(m, f)}
           tree == CHOOSE f : f = [s \in All |-> Body(f, s)]
<1> HIDE DEF Body
<1>1. 0 \in Done
  <2>1. \A s \in Short(0) : \A f : Body(f, s) = IllFormed
    BY DEF Body, Segment
  <2>2. Good(0, [s \in Short(0) |-> IllFormed])
    BY <2>1
  <2> QED BY <2>2
<1>2. ASSUME NEW m \in Nat, m \in Done PROVE m + 1 \in Done
  <2>1. PICK f : Good(m, f)
    BY <1>2
  <2> DEFINE g == [s \in Short(m + 1) |-> Body(f, s)]
  <2>2. \A s \in Short(m) : g[s] = f[s]
    BY <2>1
  <2>3. ASSUME NEW s \in Short(m + 1) PROVE Body(f, s) = Body(g, s)
    <3>1. s[1] \in 1 .. n + 1 /\ s[2] \in 0 .. n /\ s[2] - s[1] < m + 1
      OBVIOUS
    <3>2. ASSUME NEW a \in 1 .. n + 1, NEW b \in 0 .. n, b - a < s[2] - s[1]
          PROVE  f[<<a, b>>] = g[<<a, b>>]
      <4>1. <<a, b>> \in Short(m)
        BY <3>1, <3>2
      <4> HIDE DEF g
      <4> QED BY <2>2, <4>1
    <3> HIDE DEF g
    <3> QED BY <3>1, <3>2, SegmentLocal DEF Body
  <2>4. g = [s \in Short(m + 1) |-> Body(g, s)]
    BY <2>3
  <2>5. \E e : Good(m + 1, e)
    BY <2>4
  <2> HIDE DEF Good
  <2> QED BY <2>5
<1>3. Short(n) = All
  OBVIOUS
<1>4. PICK f : f = [s \in All |-> Body(f, s)]
  <2>1. n \in Done
    <3> HIDE DEF Done
    <3> QED BY <1>1, <1>2, EveryNat
  <2> QED BY <1>3, <2>1
<1>5. tree = [s \in All |-> Body(tree, s)]
  BY <1>4, Zenon
<1>6. Segments(ts) = tree
  BY Zenon DEF Segments, Body
<1> HIDE DEF tree
<1>7. ASSUME NEW i \in 1 .. n + 1, NEW j \in 0 .. n PROVE tree[<<i, j>>] = Segment(ts, i, j, tree)
  BY <1>5 DEF Body
<1> QED BY <1>6, <1>7

-----------------------------------------------------------------------------
(* The parser.                                                              *)

Rules == {"factor", "term", "expr"}

\* Where a parse stands in the order they are made in, last tokens first.
Rank(ts, i, rule) ==
    3 * (Len(ts) + 1 - i) + IF rule = "factor" THEN 0 ELSE IF rule = "term" THEN 1 ELSE 2

\* A parse depends on earlier ones only.
LEMMA RuleLocal ==
    ASSUME NEW ts, Len(ts) \in Nat, NEW i \in 1 .. Len(ts) + 1, NEW rule \in Rules,
           NEW f, NEW g,
           \A a \in 1 .. Len(ts) + 1, r \in Rules :
               Rank(ts, a, r) < Rank(ts, i, rule) => f[<<a, r>>] = g[<<a, r>>]
    PROVE  ParseRule(ts, i, rule, f) = ParseRule(ts, i, rule, g)
<1> DEFINE n == Len(ts)
           After(h, r) == [j \in i + 1 .. n + 1 |-> h[<<j, r>>]]
<1>1. ASSUME NEW r \in Rules PROVE After(f, r) = After(g, r)
  <2>1. ASSUME NEW j \in i + 1 .. n + 1 PROVE f[<<j, r>>] = g[<<j, r>>]
    <3>1. j \in 1 .. n + 1 /\ Rank(ts, j, r) < Rank(ts, i, rule)
      BY DEF Rank, Rules
    <3> QED BY <3>1
  <2> QED BY <2>1
<1>2. rule = "term" => f[<<i, "factor">>] = g[<<i, "factor">>]
  <2>1. Rank(ts, i, "factor") < Rank(ts, i, "term") /\ "factor" \in Rules
    BY DEF Rank, Rules
  <2> QED BY <2>1
<1>3. rule = "expr" => f[<<i, "term">>] = g[<<i, "term">>]
  <2>1. Rank(ts, i, "term") < Rank(ts, i, "expr") /\ "term" \in Rules
    BY DEF Rank, Rules
  <2> QED BY <2>1
<1>4. ASSUME NEW h
      PROVE  ParseRule(ts, i, rule, h) =
               IF rule = "factor" THEN ParseFactor(ts, i, After(h, "expr"))
               ELSE IF rule = "term"
               THEN Loop(ts, Multiplicative, h[<<i, "factor">>], After(h, "factor"))
               ELSE Loop(ts, Additive, h[<<i, "term">>], After(h, "term"))
  BY DEF ParseRule
<1> HIDE DEF After
<1>5. "factor" \in Rules /\ "term" \in Rules /\ "expr" \in Rules
  BY DEF Rules
<1>6. CASE rule = "factor"
  BY <1>1, <1>4, <1>5, <1>6
<1>7. CASE rule = "term"
  BY <1>1, <1>2, <1>4, <1>5, <1>7
<1>8. CASE rule = "expr"
  BY <1>1, <1>3, <1>4, <1>5, <1>8
<1> QED BY <1>6, <1>7, <1>8 DEF Rules

\* Every parse, by that definition.
LEMMA ParsesDef ==
    ASSUME NEW ts, Len(ts) \in Nat
    PROVE  \A i \in 1 .. Len(ts) + 1, rule \in Rules :
               Parses(ts)[<<i, rule>>] = ParseRule(ts, i, rule, Parses(ts))
<1> DEFINE n == Len(ts)
           All == (1 .. n + 1) \X Rules
           Early(m) == {s \in All : Rank(ts, s[1], s[2]) < m}
           Body(f, s) == ParseRule(ts, s[1], s[2], f)
           Good(m, f) == f = [s \in Early(m) |-> Body(f, s)]
           Done == {m \in Nat : \E f : Good(m, f)}
           parse == CHOOSE f : f = [s \in All |-> Body(f, s)]
<1>0. \A s \in All : Rank(ts, s[1], s[2]) \in Nat /\ Rank(ts, s[1], s[2]) < 3 * (n + 1)
  BY DEF Rank, Rules
<1> HIDE DEF Body
<1>1. 0 \in Done
  <2>1. Early(0) = {}
    BY <1>0
  <2>2. Good(0, [s \in Early(0) |-> Failure])
    BY <2>1
  <2> HIDE DEF Good
  <2> QED BY <2>2
<1>2. ASSUME NEW m \in Nat, m \in Done PROVE m + 1 \in Done
  <2>1. PICK f : Good(m, f)
    BY <1>2
  <2> DEFINE g == [s \in Early(m + 1) |-> Body(f, s)]
  <2>2. \A s \in Early(m) : g[s] = f[s]
    BY <2>1, <1>0
  <2>3. ASSUME NEW s \in Early(m + 1) PROVE Body(f, s) = Body(g, s)
    <3>1. /\ s[1] \in 1 .. n + 1 /\ s[2] \in Rules
          /\ Rank(ts, s[1], s[2]) < m + 1 /\ Rank(ts, s[1], s[2]) \in Nat
      BY <1>0
    <3>2. ASSUME NEW a \in 1 .. n + 1, NEW r \in Rules, Rank(ts, a, r) < Rank(ts, s[1], s[2])
          PROVE  f[<<a, r>>] = g[<<a, r>>]
      <4>1. <<a, r>> \in All
        OBVIOUS
      <4>2. Rank(ts, a, r) \in Nat
        BY <1>0, <4>1
      <4>3. <<a, r>> \in Early(m)
        BY <3>1, <3>2, <4>1, <4>2
      <4> HIDE DEF g
      <4> QED BY <2>2, <4>3
    <3> HIDE DEF g
    <3> QED BY <3>1, <3>2, RuleLocal DEF Body
  <2>4. g = [s \in Early(m + 1) |-> Body(g, s)]
    BY <2>3
  <2>5. \E e : Good(m + 1, e)
    BY <2>4
  <2> HIDE DEF Good
  <2> QED BY <2>5
<1>3. Early(3 * (n + 1)) = All
  BY <1>0
<1>4. PICK f : f = [s \in All |-> Body(f, s)]
  <2>1. 3 * (n + 1) \in Done
    <3> HIDE DEF Done
    <3> QED BY <1>1, <1>2, EveryNat
  <2> QED BY <1>3, <2>1
<1>5. parse = [s \in All |-> Body(parse, s)]
  BY <1>4, Zenon
<1>6. Parses(ts) = parse
  BY Zenon DEF Parses, Body, Rules
<1> HIDE DEF parse
<1>7. ASSUME NEW i \in 1 .. n + 1, NEW rule \in Rules
      PROVE  parse[<<i, rule>>] = ParseRule(ts, i, rule, parse)
  BY <1>5 DEF Body
<1> QED BY <1>6, <1>7

-----------------------------------------------------------------------------
(* The parser, one rule at a time.                                          *)

Chains == {"term", "expr"}
OpsOf(rule) == IF rule = "expr" THEN Additive ELSE Multiplicative
Under(rule) == IF rule = "expr" THEN "term" ELSE "factor"

Result(ts, i, rule) == Parses(ts)[<<i, rule>>]
Rest(ts, i, rule) == [j \in i + 1 .. Len(ts) + 1 |-> Result(ts, j, rule)]
Chain(ts, i, rule) ==
    Turns(ts, OpsOf(rule), Result(ts, i, Under(rule)), Rest(ts, i, Under(rule)))

\* What parseFactor returns.
LEMMA FactorDef ==
    ASSUME NEW ts, Len(ts) \in Nat, NEW i \in 1 .. Len(ts) + 1
    PROVE  Result(ts, i, "factor") = ParseFactor(ts, i, Rest(ts, i, "expr"))
<1>1. "factor" \in Rules
  BY DEF Rules
<1>2. Parses(ts)[<<i, "factor">>] = ParseRule(ts, i, "factor", Parses(ts))
  BY <1>1, ParsesDef
<1> QED BY <1>2 DEF ParseRule, Result, Rest

\* What the loops of parseTerm and parseFormulaExpr return, turn by turn.
LEMMA ChainDef ==
    ASSUME NEW ts, Len(ts) \in Nat, NEW i \in 1 .. Len(ts) + 1, NEW rule \in Chains
    PROVE  /\ Result(ts, i, rule) = Chain(ts, i, rule)[Len(ts)]
           /\ Chain(ts, i, rule)[0] = Result(ts, i, Under(rule))
           /\ \A k \in 1 .. Len(ts) :
                Chain(ts, i, rule)[k] =
                    Turn(ts, OpsOf(rule), Chain(ts, i, rule)[k - 1], Rest(ts, i, Under(rule)))
<1>1. rule \in Rules
  BY DEF Rules, Chains
<1>2. Parses(ts)[<<i, rule>>] = ParseRule(ts, i, rule, Parses(ts))
  BY <1>1, ParsesDef
<1>3. Result(ts, i, rule) = Chain(ts, i, rule)[Len(ts)]
  <2>1. CASE rule = "term"
    BY <1>2, <2>1 DEF ParseRule, Result, Rest, Chain, Loop, OpsOf, Under
  <2>2. CASE rule = "expr"
    BY <1>2, <2>2 DEF ParseRule, Result, Rest, Chain, Loop, OpsOf, Under
  <2> QED BY <2>1, <2>2 DEF Chains
<1> QED BY <1>3, TurnsDef DEF Chain

\* The operand of a turn is a parse of the rule below.
LEMMA ChainTurn ==
    ASSUME NEW ts, Len(ts) \in Nat, NEW i \in 1 .. Len(ts) + 1, NEW rule \in Chains,
           NEW k \in 1 .. Len(ts), NEW node, NEW a \in i .. Len(ts),
           Chain(ts, i, rule)[k - 1] = Parsed(node, a), ts[a] \in OpsOf(rule)
    PROVE  LET right == Result(ts, a + 1, Under(rule))
           IN Chain(ts, i, rule)[k] =
                IF right.ok THEN Parsed(Node(ts[a], node, right.node), right.next) ELSE Failure
<1> DEFINE rest == Rest(ts, i, Under(rule))
<1>1. Chain(ts, i, rule)[k] = Turn(ts, OpsOf(rule), Parsed(node, a), rest)
  BY ChainDef
<1>2. rest[a + 1] = Result(ts, a + 1, Under(rule))
  <2>1. a + 1 \in i + 1 .. Len(ts) + 1
    OBVIOUS
  <2> QED BY <2>1 DEF Rest
<1> DEFINE acc == Parsed(node, a)
<1>3. acc.ok /\ acc.next = a /\ acc.node = node
  BY DEF Parsed
<1>4. At(ts, a, OpsOf(rule))
  BY DEF At
<1> HIDE DEF rest, acc
<1>5. Turn(ts, OpsOf(rule), acc, rest) =
        IF ~rest[a + 1].ok THEN Failure
        ELSE Parsed(Node(ts[a], node, rest[a + 1].node), rest[a + 1].next)
  BY <1>3, <1>4 DEF Turn
<1>6. Chain(ts, i, rule)[k] = Turn(ts, OpsOf(rule), acc, rest)
  BY <1>1 DEF acc
<1> QED BY <1>2, <1>5, <1>6

\* A turn that finds no operator is the last one.
LEMMA ChainStops ==
    ASSUME NEW ts, Len(ts) \in Nat, NEW i \in 1 .. Len(ts) + 1, NEW rule \in Chains,
           NEW m \in 0 .. Len(ts),
           ~Chain(ts, i, rule)[m].ok \/ ~At(ts, Chain(ts, i, rule)[m].next, OpsOf(rule))
    PROVE  Result(ts, i, rule) = Chain(ts, i, rule)[m]
<1> DEFINE turn == Chain(ts, i, rule)
           Same == {k \in Nat : m + k <= Len(ts) => turn[m + k] = turn[m]}
<1>1. 0 \in Same
  OBVIOUS
<1>2. ASSUME NEW k \in Nat, k \in Same PROVE k + 1 \in Same
  <2> SUFFICES ASSUME m + (k + 1) <= Len(ts) PROVE turn[m + (k + 1)] = turn[m]
    OBVIOUS
  <2>1. m + k \in 0 .. Len(ts) /\ m + (k + 1) \in 1 .. Len(ts) /\ (m + (k + 1)) - 1 = m + k
    OBVIOUS
  <2>2. turn[m + k] = turn[m]
    BY <1>2, <2>1
  <2>3. turn[m + (k + 1)] = Turn(ts, OpsOf(rule), turn[m + k], Rest(ts, i, Under(rule)))
    BY <2>1, ChainDef
  <2> HIDE DEF turn
  <2> QED BY <2>2, <2>3 DEF Turn, turn
<1>3. Len(ts) - m \in Same
  <2> HIDE DEF Same
  <2> QED BY <1>1, <1>2, EveryNat
<1>4. turn[Len(ts)] = turn[m]
  BY <1>3
<1> QED BY <1>4, ChainDef

-----------------------------------------------------------------------------
(* What a segment is made of.                                               *)

\* The tokens with a meaning of their own are told apart.
LEMMA Marks ==
    /\ Additive \cap Multiplicative = {} /\ Operators = Additive \cup Multiplicative
    /\ "(" \notin Operators /\ ")" \notin Operators /\ "(" # ")"
    /\ "(" \in Punctuation /\ ")" \in Punctuation /\ Operators \subseteq Punctuation
    /\ BadToken \notin Punctuation
BY TokensAssumption DEF Additive, Multiplicative, Operators, Punctuation

\* Where the last operator of a segment stands, and what is around it.
Splits(ts, i, j, ops, k) ==
    /\ k \in Outside(ts, i, j, ops)
    /\ \A h \in Outside(ts, i, j, ops) : h <= k
    /\ LET tree == Segments(ts)
       IN tree[<<i, j>>] = Join(ts[k], tree[<<i, k - 1>>], tree[<<k + 1, j>>])

\* A segment with an operator outside of parentheses.
LEMMA SplitAt ==
    ASSUME NEW ts, Len(ts) \in Nat, NEW i \in 1 .. Len(ts), NEW j \in i .. Len(ts),
           NEW ops, Outside(ts, i, j, ops) # {},
           ops = Additive \/ (ops = Multiplicative /\ Outside(ts, i, j, Additive) = {})
    PROVE  \E k \in i .. j : Splits(ts, i, j, ops, k)
<1> DEFINE tree == Segments(ts)
           k == Last1(Outside(ts, i, j, ops))
<1>1. Outside(ts, i, j, ops) \subseteq i .. j
  BY DEF Outside
<1>2. k \in Outside(ts, i, j, ops) /\ \A h \in Outside(ts, i, j, ops) : h <= k
  BY <1>1, LastOne
<1>3. tree[<<i, j>>] = Segment(ts, i, j, tree)
  BY SegmentsDef
<1> HIDE DEF tree, k
<1>4. Segment(ts, i, j, tree) = Join(ts[k], tree[<<i, k - 1>>], tree[<<k + 1, j>>])
  BY DEF Segment, k
<1>5. Splits(ts, i, j, ops, k)
  BY <1>2, <1>3, <1>4 DEF Splits, tree
<1> QED BY <1>1, <1>2, <1>5

IsName(tok) == tok \notin Punctuation \cup {BadToken}

\* A segment without one.
LEMMA Unsplit ==
    ASSUME NEW ts, Len(ts) \in Nat, NEW i \in 1 .. Len(ts), NEW j \in i .. Len(ts),
           Outside(ts, i, j, Operators) = {}
    PROVE  LET tree == Segments(ts)
           IN tree[<<i, j>>] =
                IF i = j THEN (IF IsName(ts[i]) THEN Leaf(ts[i]) ELSE IllFormed)
                ELSE IF ts[j] # ")" THEN IllFormed
                ELSE IF ts[i] = "(" THEN tree[<<i + 1, j - 1>>]
                ELSE IF IsName(ts[i]) /\ ts[i + 1] = "(" /\ tree[<<i + 2, j - 1>>] # IllFormed
                THEN Call(ts[i], tree[<<i + 2, j - 1>>])
                ELSE IllFormed
<1>1. Outside(ts, i, j, Additive) = {} /\ Outside(ts, i, j, Multiplicative) = {}
  BY Marks DEF Outside
<1> DEFINE tree == Segments(ts)
<1>2. tree[<<i, j>>] = Segment(ts, i, j, tree)
  BY SegmentsDef
<1> HIDE DEF tree
<1>3. ~(j < i)
  OBVIOUS
<1> QED BY <1>1, <1>2, <1>3 DEF Segment, tree, IsName

\* A segment of no tokens means nothing.
LEMMA EmptySegment ==
    ASSUME NEW ts, Len(ts) \in Nat, NEW i \in 1 .. Len(ts) + 1, NEW j \in 0 .. Len(ts),
           Segments(ts)[<<i, j>>] # IllFormed
    PROVE  i <= j /\ i \in 1 .. Len(ts) /\ j \in i .. Len(ts)
<1>1. Segments(ts)[<<i, j>>] = Segment(ts, i, j, Segments(ts))
  BY SegmentsDef
<1>2. ~(j < i)
  BY <1>1 DEF Segment
<1> QED BY <1>2

-----------------------------------------------------------------------------
(* The parser finds what a segment means.                                   *)

Followed(ts, j, toks) == j = Len(ts) \/ ts[j + 1] \in toks

\* Each rule reads segments of its own kind, and expr all of them, if something
\* follows that ends them.
Reads(ts, i, j) ==
    LET t == Segments(ts)[<<i, j>>]
    IN t # IllFormed =>
        /\ Followed(ts, j, Operators \cup {")"}) =>
            /\ Outside(ts, i, j, Operators) = {} => Result(ts, i, "factor") = Parsed(t, j + 1)
            /\ Outside(ts, i, j, Additive) = {} =>
                   \E m \in 0 .. j - i : Chain(ts, i, "term")[m] = Parsed(t, j + 1)
        /\ Followed(ts, j, Additive \cup {")"}) =>
               \E m \in 0 .. j - i : Chain(ts, i, "expr")[m] = Parsed(t, j + 1)

\* The parts of a parse.
LEMMA ParsedParts ==
    \A node, next : /\ Parsed(node, next).ok
                    /\ Parsed(node, next).node = node
                    /\ Parsed(node, next).next = next
BY DEF Parsed

\* A chain that has read up to j stops there if something follows that ends it.
LEMMA ChainEnds ==
    ASSUME NEW ts, Len(ts) \in Nat, NEW i \in 1 .. Len(ts), NEW j \in i .. Len(ts),
           NEW rule \in Chains, NEW t,
           \E m \in 0 .. j - i : Chain(ts, i, rule)[m] = Parsed(t, j + 1),
           NEW toks, Followed(ts, j, toks), toks \cap OpsOf(rule) = {}
    PROVE  Result(ts, i, rule) = Parsed(t, j + 1)
<1>1. PICK m \in 0 .. j - i : Chain(ts, i, rule)[m] = Parsed(t, j + 1)
  OBVIOUS
<1>2. m \in 0 .. Len(ts)
  OBVIOUS
<1>3. ~At(ts, j + 1, OpsOf(rule))
  BY DEF At, Followed
<1>4. ~At(ts, Chain(ts, i, rule)[m].next, OpsOf(rule))
  BY <1>1, <1>3, ParsedParts
<1> QED BY <1>1, <1>2, <1>4, ChainStops

\* Token k stands outside of the parentheses of tokens i to j.
AtLevel(ts, i, j, k) ==
    /\ Len(ts) \in Nat /\ i \in 1 .. Len(ts) /\ j \in i .. Len(ts) /\ k \in i .. j
    /\ Depth(ts)[k] = Depth(ts)[i - 1]

\* What stands outside of the parentheses of a part does so in the whole.
LEMMA OutsideParts ==
    ASSUME NEW ts, NEW i, NEW j, NEW k, AtLevel(ts, i, j, k)
    PROVE  \A toks : /\ Outside(ts, i, k - 1, toks) \subseteq Outside(ts, i, j, toks)
                     /\ Outside(ts, k + 1, j, toks) =
                          {h \in Outside(ts, i, j, toks) : k < h}
<1>1. \A h \in i .. k - 1 : h \in i .. j
  BY DEF AtLevel
<1>2. \A h : h \in k + 1 .. j <=> h \in i .. j /\ k < h
  BY DEF AtLevel
<1>3. (k + 1) - 1 = k
  BY DEF AtLevel
<1> QED BY <1>1, <1>2, <1>3 DEF Outside, AtLevel

\* A step of a chain: what stands left of the last operator has been read, and
\* what stands right of it is read by the rule below.
Joins(ts, i, j, rule, k, l, r) ==
    /\ Len(ts) \in Nat /\ i \in 1 .. Len(ts) /\ j \in i .. Len(ts)
    /\ rule \in Chains /\ k \in i .. j /\ ts[k] \in OpsOf(rule)
    /\ \E m \in 0 .. (k - 1) - i : Chain(ts, i, rule)[m] = Parsed(l, k)
    /\ Result(ts, k + 1, Under(rule)) = Parsed(r, j + 1)

\* A loop that has the tree to the left of an operator makes that of both sides.
LEMMA ChainJoins ==
    ASSUME NEW ts, NEW i, NEW j, NEW rule, NEW k, NEW l, NEW r,
           Joins(ts, i, j, rule, k, l, r)
    PROVE  \E q \in 0 .. j - i : Chain(ts, i, rule)[q] = Parsed(Node(ts[k], l, r), j + 1)
<1> USE DEF Joins
<1>1. PICK m \in 0 .. (k - 1) - i : Chain(ts, i, rule)[m] = Parsed(l, k)
  OBVIOUS
<1>2. PICK q \in 1 .. Len(ts) : q - 1 = m /\ q \in 0 .. j - i
  <2>1. m + 1 \in 1 .. Len(ts) /\ (m + 1) - 1 = m /\ m + 1 \in 0 .. j - i
    OBVIOUS
  <2> QED BY <2>1
<1>3. Chain(ts, i, rule)[q] =
        IF Result(ts, k + 1, Under(rule)).ok
        THEN Parsed(Node(ts[k], l, Result(ts, k + 1, Under(rule)).node),
                    Result(ts, k + 1, Under(rule)).next)
        ELSE Failure
  <2>1. Chain(ts, i, rule)[q - 1] = Parsed(l, k) /\ k \in i .. Len(ts) /\ i \in 1 .. Len(ts) + 1
    BY <1>1, <1>2
  <2> QED BY <2>1, ChainTurn
<1>4. Chain(ts, i, rule)[q] = Parsed(Node(ts[k], l, r), j + 1)
  BY <1>3, ParsedParts
<1> QED BY <1>2, <1>4

\* A segment before a parenthesis is a whole expression.
LEMMA ReadsExpr ==
    ASSUME NEW ts, Len(ts) \in Nat, NEW a \in 1 .. Len(ts), NEW b \in a .. Len(ts),
           Reads(ts, a, b), Segments(ts)[<<a, b>>] # IllFormed, Followed(ts, b, {")"})
    PROVE  Result(ts, a, "expr") = Parsed(Segments(ts)[<<a, b>>], b + 1)
<1>1. Followed(ts, b, Additive \cup {")"})
  BY DEF Followed
<1>2. {")"} \cap OpsOf("expr") = {} /\ "expr" \in Chains
  BY Marks DEF OpsOf, Chains
<1>3. \E m \in 0 .. b - a : Chain(ts, a, "expr")[m] = Parsed(Segments(ts)[<<a, b>>], b + 1)
  BY <1>1 DEF Reads
<1> QED BY <1>2, <1>3, ChainEnds

\* A segment that a term has read in some turn is what the term returns.
LEMMA ReadsTerm ==
    ASSUME NEW ts, Len(ts) \in Nat, NEW a \in 1 .. Len(ts), NEW b \in a .. Len(ts),
           \E m \in 0 .. b - a : Chain(ts, a, "term")[m] = Parsed(Segments(ts)[<<a, b>>], b + 1),
           Followed(ts, b, Additive \cup {")"})
    PROVE  Result(ts, a, "term") = Parsed(Segments(ts)[<<a, b>>], b + 1)
<1>1. (Additive \cup {")"}) \cap OpsOf("term") = {} /\ "term" \in Chains
  BY Marks DEF OpsOf, Chains
<1> DEFINE t == Segments(ts)[<<a, b>>]
           toks == Additive \cup {")"}
<1>2. /\ \E m \in 0 .. b - a : Chain(ts, a, "term")[m] = Parsed(t, b + 1)
      /\ Followed(ts, b, toks)
  OBVIOUS
<1> HIDE DEF t, toks
<1>3. toks \cap OpsOf("term") = {}
  BY <1>1 DEF toks
<1>4. Result(ts, a, "term") = Parsed(t, b + 1)
  BY <1>1, <1>2, <1>3, ChainEnds
<1> QED BY <1>4 DEF t

\* A name, a number, a formula in parentheses or a call.
LEMMA ReadFactor ==
    ASSUME NEW ts, Len(ts) \in Nat, NEW i \in 1 .. Len(ts), NEW j \in i .. Len(ts),
           \A a \in 1 .. Len(ts), b \in 1 .. Len(ts) :
               a <= b /\ b - a < j - i => Reads(ts, a, b),
           Segments(ts)[<<i, j>>] # IllFormed, Outside(ts, i, j, Operators) = {},
           Followed(ts, j, Operators \cup {")"})
    PROVE  Result(ts, i, "factor") = Parsed(Segments(ts)[<<i, j>>], j + 1)
<1> DEFINE tree == Segments(ts)
           rest == Rest(ts, i, "expr")
<1> HIDE DEF tree, rest
<1>1. Result(ts, i, "factor") = ParseFactor(ts, i, rest)
  BY FactorDef DEF rest
<1>2. tree[<<i, j>>] # IllFormed
  BY DEF tree
<1>3. tree[<<i, j>>] =
        IF i = j THEN (IF IsName(ts[i]) THEN Leaf(ts[i]) ELSE IllFormed)
        ELSE IF ts[j] # ")" THEN IllFormed
        ELSE IF ts[i] = "(" THEN tree[<<i + 1, j - 1>>]
        ELSE IF IsName(ts[i]) /\ ts[i + 1] = "(" /\ tree[<<i + 2, j - 1>>] # IllFormed
        THEN Call(ts[i], tree[<<i + 2, j - 1>>])
        ELSE IllFormed
  BY Unsplit DEF tree
<1>4. ASSUME NEW a \in i + 1 .. Len(ts) + 1, i < j, ts[j] = ")", tree[<<a, j - 1>>] # IllFormed
      PROVE  a < j /\ Closed(ts, rest[a]) /\ rest[a] = Parsed(tree[<<a, j - 1>>], j)
  <2>1. j - 1 \in 0 .. Len(ts) /\ a \in 1 .. Len(ts) + 1
    BY <1>4
  <2>2. a <= j - 1 /\ a \in 1 .. Len(ts) /\ j - 1 \in a .. Len(ts)
    BY <1>4, <2>1, EmptySegment DEF tree
  <2>3. j - 1 \in 1 .. Len(ts) /\ (j - 1) - a < j - i /\ (j - 1) + 1 = j /\ j \in 1 .. Len(ts)
    BY <1>4, <2>2
  <2>4. Reads(ts, a, j - 1)
    BY <2>2, <2>3
  <2>5. Followed(ts, j - 1, {")"})
    BY <1>4, <2>3 DEF Followed
  <2>6. Result(ts, a, "expr") = Parsed(tree[<<a, j - 1>>], j)
    BY <1>4, <2>2, <2>3, <2>4, <2>5, ReadsExpr DEF tree
  <2>7. rest[a] = Parsed(tree[<<a, j - 1>>], j)
    BY <2>6 DEF rest, Rest
  <2>8. Closed(ts, Parsed(tree[<<a, j - 1>>], j))
    BY <1>4, <2>3, ParsedParts DEF Closed, At
  <2> QED BY <2>2, <2>7, <2>8
<1>5. CASE i = j
  <2>1. IsName(ts[i]) /\ tree[<<i, j>>] = Leaf(ts[i])
    BY <1>2, <1>3, <1>5
  <2>2. ts[i] # "("
    BY <2>1, Marks DEF IsName
  <2>3. i + 1 <= Len(ts) => ts[i + 1] # "("
    BY <1>5, Marks DEF Followed
  <2> QED BY <1>1, <1>5, <2>1, <2>2, <2>3 DEF ParseFactor, At, tree
<1>6. CASE i < j /\ ts[i] = "("
  <2>1. ts[j] = ")" /\ tree[<<i, j>>] = tree[<<i + 1, j - 1>>]
    BY <1>2, <1>3, <1>6
  <2>2. i + 1 \in i + 1 .. Len(ts) + 1
    OBVIOUS
  <2>3. Closed(ts, rest[i + 1]) /\ rest[i + 1] = Parsed(tree[<<i, j>>], j)
    BY <1>2, <1>4, <1>6, <2>1, <2>2
  <2>4. ParseFactor(ts, i, rest) =
          IF ~Closed(ts, rest[i + 1]) THEN Failure ELSE Parsed(rest[i + 1].node, rest[i + 1].next + 1)
    BY <1>6 DEF ParseFactor, At
  <2> QED BY <1>1, <2>3, <2>4, ParsedParts DEF tree
<1>7. CASE i < j /\ ts[i] # "("
  <2>1. /\ ts[j] = ")" /\ IsName(ts[i]) /\ ts[i + 1] = "(" /\ tree[<<i + 2, j - 1>>] # IllFormed
        /\ tree[<<i, j>>] = Call(ts[i], tree[<<i + 2, j - 1>>])
    BY <1>2, <1>3, <1>7
  <2>2. i + 1 # j
    BY <2>1, Marks
  <2>3. i + 2 \in i + 1 .. Len(ts) + 1
    BY <1>7
  <2>4. i + 2 < j /\ Closed(ts, rest[i + 2]) /\ rest[i + 2] = Parsed(tree[<<i + 2, j - 1>>], j)
    BY <1>4, <1>7, <2>1, <2>3
  <2>5. ParseFactor(ts, i, rest) =
          IF ~Closed(ts, rest[i + 2]) THEN Failure
          ELSE Parsed(Call(ts[i], rest[i + 2].node), rest[i + 2].next + 1)
    BY <1>7, <2>1, <2>4 DEF ParseFactor, At
  <2> QED BY <1>1, <2>1, <2>4, <2>5, ParsedParts DEF tree
<1> QED BY <1>5, <1>6, <1>7

\* Left and right of the last operator.
LEMMA SplitParts ==
    ASSUME NEW ts, Len(ts) \in Nat, NEW i \in 1 .. Len(ts), NEW j \in i .. Len(ts),
           NEW ops, NEW k, Splits(ts, i, j, ops, k), Segments(ts)[<<i, j>>] # IllFormed
    PROVE  /\ k \in i + 1 .. j - 1 /\ ts[k] \in ops
           /\ Segments(ts)[<<i, k - 1>>] # IllFormed
           /\ Segments(ts)[<<k + 1, j>>] # IllFormed
           /\ Segments(ts)[<<i, j>>] =
                 Node(ts[k], Segments(ts)[<<i, k - 1>>], Segments(ts)[<<k + 1, j>>])
           /\ Outside(ts, k + 1, j, ops) = {}
           /\ \A toks : /\ Outside(ts, i, k - 1, toks) \subseteq Outside(ts, i, j, toks)
                        /\ Outside(ts, k + 1, j, toks) \subseteq Outside(ts, i, j, toks)
<1> DEFINE tree == Segments(ts)
<1>1. /\ k \in i .. j /\ ts[k] \in ops /\ Depth(ts)[k] = Depth(ts)[i - 1]
      /\ \A h \in Outside(ts, i, j, ops) : h <= k
  BY DEF Splits, Outside
<1>2. tree[<<i, j>>] = Join(ts[k], tree[<<i, k - 1>>], tree[<<k + 1, j>>])
  BY DEF Splits
<1> HIDE DEF tree
<1>3. /\ tree[<<i, k - 1>>] # IllFormed /\ tree[<<k + 1, j>>] # IllFormed
      /\ tree[<<i, j>>] = Node(ts[k], tree[<<i, k - 1>>], tree[<<k + 1, j>>])
  <2>1. tree[<<i, j>>] # IllFormed
    BY DEF tree
  <2> QED BY <1>2, <2>1 DEF Join
<1>4. i <= k - 1 /\ k + 1 <= j
  <2>1. /\ i \in 1 .. Len(ts) + 1 /\ k - 1 \in 0 .. Len(ts)
        /\ k + 1 \in 1 .. Len(ts) + 1 /\ j \in 0 .. Len(ts)
    BY <1>1
  <2> QED BY <1>3, <2>1, EmptySegment DEF tree
<1>5. k \in i + 1 .. j - 1
  BY <1>1, <1>4
<1>6. \A toks : /\ Outside(ts, i, k - 1, toks) \subseteq Outside(ts, i, j, toks)
                /\ Outside(ts, k + 1, j, toks) = {h \in Outside(ts, i, j, toks) : k < h}
  <2>1. AtLevel(ts, i, j, k)
    BY <1>1 DEF AtLevel
  <2> QED BY <2>1, OutsideParts
<1>7. Outside(ts, k + 1, j, ops) = {}
  <2>1. \A h \in Outside(ts, i, j, ops) : h \in Int /\ k \in Int
    BY <1>1 DEF Outside
  <2> QED BY <1>1, <1>6, <2>1
<1> QED BY <1>1, <1>3, <1>5, <1>6, <1>7 DEF tree

\* Operands that are multiplied and divided.
LEMMA ReadTerm ==
    ASSUME NEW ts, Len(ts) \in Nat, NEW i \in 1 .. Len(ts), NEW j \in i .. Len(ts),
           \A a \in 1 .. Len(ts), b \in 1 .. Len(ts) :
               a <= b /\ b - a < j - i => Reads(ts, a, b),
           Segments(ts)[<<i, j>>] # IllFormed, Outside(ts, i, j, Additive) = {},
           Followed(ts, j, Operators \cup {")"})
    PROVE  \E m \in 0 .. j - i :
               Chain(ts, i, "term")[m] = Parsed(Segments(ts)[<<i, j>>], j + 1)
<1>1. "term" \in Chains /\ OpsOf("term") = Multiplicative /\ Under("term") = "factor"
  BY DEF Chains, OpsOf, Under
<1>2. CASE Outside(ts, i, j, Multiplicative) = {}
  <2>1. Outside(ts, i, j, Operators) = {}
    BY <1>2, Marks DEF Outside
  <2>2. Result(ts, i, "factor") = Parsed(Segments(ts)[<<i, j>>], j + 1)
    BY <2>1, ReadFactor
  <2>3. Chain(ts, i, "term")[0] = Result(ts, i, "factor")
    BY <1>1, ChainDef
  <2>4. 0 \in 0 .. j - i
    OBVIOUS
  <2> QED BY <2>2, <2>3, <2>4
<1>3. CASE Outside(ts, i, j, Multiplicative) # {}
  <2> DEFINE tree == Segments(ts)
  <2>1. PICK k : Splits(ts, i, j, Multiplicative, k)
    BY <1>3, SplitAt
  <2> DEFINE l == tree[<<i, k - 1>>]
             r == tree[<<k + 1, j>>]
  <2>2. /\ k \in i + 1 .. j - 1 /\ ts[k] \in Multiplicative
        /\ l # IllFormed /\ r # IllFormed /\ tree[<<i, j>>] = Node(ts[k], l, r)
        /\ Outside(ts, k + 1, j, Multiplicative) = {}
        /\ Outside(ts, i, k - 1, Additive) = {} /\ Outside(ts, k + 1, j, Additive) = {}
    <3>1. /\ Outside(ts, i, k - 1, Additive) \subseteq Outside(ts, i, j, Additive)
          /\ Outside(ts, k + 1, j, Additive) \subseteq Outside(ts, i, j, Additive)
      BY <2>1, SplitParts
    <3>2. /\ k \in i + 1 .. j - 1 /\ ts[k] \in Multiplicative
          /\ l # IllFormed /\ r # IllFormed /\ tree[<<i, j>>] = Node(ts[k], l, r)
          /\ Outside(ts, k + 1, j, Multiplicative) = {}
      BY <2>1, SplitParts
    <3> QED BY <3>1, <3>2
  <2>3. Outside(ts, k + 1, j, Operators) = {}
    BY <2>2, Marks DEF Outside
  <2>4. /\ k \in i .. j /\ k - 1 \in 1 .. Len(ts) /\ i <= k - 1 /\ (k - 1) - i < j - i
        /\ k + 1 \in 1 .. Len(ts) /\ j \in 1 .. Len(ts) /\ k + 1 <= j /\ j - (k + 1) < j - i
        /\ (k - 1) + 1 = k
    BY <2>2
  <2>5. Reads(ts, i, k - 1) /\ Reads(ts, k + 1, j)
    BY <2>4
  <2>6. Followed(ts, k - 1, Operators \cup {")"})
    BY <2>2, <2>4, Marks DEF Followed
  <2>7. \E m \in 0 .. (k - 1) - i : Chain(ts, i, "term")[m] = Parsed(l, k)
    BY <2>2, <2>4, <2>5, <2>6 DEF Reads
  <2>8. Result(ts, k + 1, "factor") = Parsed(r, j + 1)
    BY <2>2, <2>3, <2>5 DEF Reads
  <2> HIDE DEF l, r
  <2>9. Result(ts, k + 1, Under("term")) = Parsed(r, j + 1) /\ ts[k] \in OpsOf("term")
    BY <1>1, <2>2, <2>8
  <2>10. \E m \in 0 .. j - i : Chain(ts, i, "term")[m] = Parsed(Node(ts[k], l, r), j + 1)
    <3>1. Joins(ts, i, j, "term", k, l, r)
      BY <1>1, <2>4, <2>7, <2>9 DEF Joins
    <3> QED BY <3>1, ChainJoins
  <2> QED BY <2>2, <2>10
<1> QED BY <1>2, <1>3

\* Operands that are added and subtracted.
LEMMA ReadExpr ==
    ASSUME NEW ts, Len(ts) \in Nat, NEW i \in 1 .. Len(ts), NEW j \in i .. Len(ts),
           \A a \in 1 .. Len(ts), b \in 1 .. Len(ts) :
               a <= b /\ b - a < j - i => Reads(ts, a, b),
           Segments(ts)[<<i, j>>] # IllFormed, Followed(ts, j, Additive \cup {")"})
    PROVE  \E m \in 0 .. j - i :
               Chain(ts, i, "expr")[m] = Parsed(Segments(ts)[<<i, j>>], j + 1)
<1>1. "expr" \in Chains /\ OpsOf("expr") = Additive /\ Under("expr") = "term"
  BY DEF Chains, OpsOf, Under
<1>2. Followed(ts, j, Operators \cup {")"})
  BY Marks DEF Followed
<1>3. CASE Outside(ts, i, j, Additive) = {}
  <2>1. Result(ts, i, "term") = Parsed(Segments(ts)[<<i, j>>], j + 1)
    BY <1>2, <1>3, ReadTerm, ReadsTerm, ZenonT(40)
  <2>2. Chain(ts, i, "expr")[0] = Result(ts, i, "term")
    <3>1. i \in 1 .. Len(ts) + 1
      OBVIOUS
    <3>2. Chain(ts, i, "expr")[0] = Result(ts, i, Under("expr"))
      BY <1>1, <3>1, ChainDef
    <3> QED BY <1>1, <3>2
  <2>3. 0 \in 0 .. j - i
    OBVIOUS
  <2> QED BY <2>1, <2>2, <2>3
<1>4. CASE Outside(ts, i, j, Additive) # {}
  <2> DEFINE tree == Segments(ts)
  <2>1. PICK k : Splits(ts, i, j, Additive, k)
    BY <1>4, SplitAt
  <2> DEFINE l == tree[<<i, k - 1>>]
             r == tree[<<k + 1, j>>]
  <2>2. /\ k \in i + 1 .. j - 1 /\ ts[k] \in Additive
        /\ l # IllFormed /\ r # IllFormed /\ tree[<<i, j>>] = Node(ts[k], l, r)
        /\ Outside(ts, k + 1, j, Additive) = {}
    BY <2>1, SplitParts
  <2>3. /\ k \in i .. j /\ k - 1 \in 1 .. Len(ts) /\ i <= k - 1 /\ (k - 1) - i < j - i
        /\ k + 1 \in 1 .. Len(ts) /\ j \in 1 .. Len(ts) /\ k + 1 <= j /\ j - (k + 1) < j - i
        /\ (k - 1) + 1 = k
    BY <2>2
  <2>4. Reads(ts, i, k - 1) /\ Reads(ts, k + 1, j)
    BY <2>3
  <2>5. Followed(ts, k - 1, Additive \cup {")"})
    BY <2>2, <2>3 DEF Followed
  <2>6. \E m \in 0 .. (k - 1) - i : Chain(ts, i, "expr")[m] = Parsed(l, k)
    BY <2>2, <2>3, <2>4, <2>5 DEF Reads
  <2>7. \E m \in 0 .. j - (k + 1) : Chain(ts, k + 1, "term")[m] = Parsed(r, j + 1)
    BY <1>2, <2>2, <2>4 DEF Reads
  <2>8. Result(ts, k + 1, "term") = Parsed(r, j + 1)
    <3>1. j \in k + 1 .. Len(ts)
      BY <2>3
    <3> QED BY <2>3, <2>7, <3>1, ReadsTerm
  <2> HIDE DEF l, r
  <2>9. Result(ts, k + 1, Under("expr")) = Parsed(r, j + 1) /\ ts[k] \in OpsOf("expr")
    BY <1>1, <2>2, <2>8
  <2>10. \E m \in 0 .. j - i : Chain(ts, i, "expr")[m] = Parsed(Node(ts[k], l, r), j + 1)
    <3>1. Joins(ts, i, j, "expr", k, l, r)
      BY <1>1, <2>3, <2>6, <2>9 DEF Joins
    <3> QED BY <3>1, ChainJoins
  <2> QED BY <2>2, <2>10
<1> QED BY <1>3, <1>4

\* The parser finds the tree of every segment that means something.
LEMMA ReadsAll ==
    ASSUME NEW ts, Len(ts) \in Nat
    PROVE  \A i \in 1 .. Len(ts), j \in 1 .. Len(ts) : i <= j => Reads(ts, i, j)
<1> DEFINE Done == {m \in Nat : \A i \in 1 .. Len(ts), j \in 1 .. Len(ts) :
                                   i <= j /\ j - i < m => Reads(ts, i, j)}
<1>1. 0 \in Done
  OBVIOUS
<1>2. ASSUME NEW size \in Nat, size \in Done PROVE size + 1 \in Done
  <2> SUFFICES ASSUME NEW i \in 1 .. Len(ts), NEW j \in 1 .. Len(ts), i <= j, j - i < size + 1
               PROVE  Reads(ts, i, j)
    OBVIOUS
  <2>1. j \in i .. Len(ts)
    OBVIOUS
  <2>2. \A a \in 1 .. Len(ts), b \in 1 .. Len(ts) : a <= b /\ b - a < j - i => Reads(ts, a, b)
    <3>1. \A a \in 1 .. Len(ts), b \in 1 .. Len(ts) : b - a < j - i => b - a < size
      OBVIOUS
    <3> QED BY <1>2, <3>1
  <2> DEFINE t == Segments(ts)[<<i, j>>]
  <2>3. ASSUME t # IllFormed, Followed(ts, j, Operators \cup {")"}), Outside(ts, i, j, Operators) = {}
        PROVE  Result(ts, i, "factor") = Parsed(t, j + 1)
    BY <2>1, <2>2, <2>3, ReadFactor
  <2>4. ASSUME t # IllFormed, Followed(ts, j, Operators \cup {")"}), Outside(ts, i, j, Additive) = {}
        PROVE  \E m \in 0 .. j - i : Chain(ts, i, "term")[m] = Parsed(t, j + 1)
    BY <2>1, <2>2, <2>4, ReadTerm
  <2>5. ASSUME t # IllFormed, Followed(ts, j, Additive \cup {")"})
        PROVE  \E m \in 0 .. j - i : Chain(ts, i, "expr")[m] = Parsed(t, j + 1)
    BY <2>1, <2>2, <2>5, ReadExpr
  <2> QED BY <2>3, <2>4, <2>5 DEF Reads
<1>3. Nat \subseteq Done
  <2> HIDE DEF Done
  <2> QED BY <1>1, <1>2, EveryNat
<1>4. Len(ts) \in Done
  BY <1>3
<1> QED BY <1>4

\* A segment that means something has no token the lexer cannot form.
LEMMA NoBadToken ==
    ASSUME NEW ts, Len(ts) \in Nat
    PROVE  \A i \in 1 .. Len(ts), j \in 1 .. Len(ts) :
               i <= j /\ Segments(ts)[<<i, j>>] # IllFormed =>
                   \A h \in i .. j : ts[h] # BadToken
<1> DEFINE Means(i, j) == Segments(ts)[<<i, j>>] # IllFormed
           Formed(i, j) == \A h \in i .. j : ts[h] # BadToken
           Done == {m \in Nat : \A i \in 1 .. Len(ts), j \in 1 .. Len(ts) :
                                   i <= j /\ j - i < m /\ Means(i, j) => Formed(i, j)}
<1>1. 0 \in Done
  OBVIOUS
<1>2. ASSUME NEW m \in Nat, m \in Done PROVE m + 1 \in Done
  <2> SUFFICES ASSUME NEW i \in 1 .. Len(ts), NEW j \in 1 .. Len(ts), i <= j, j - i < m + 1,
                      Means(i, j)
               PROVE  Formed(i, j)
    OBVIOUS
  <2>1. j \in i .. Len(ts)
    OBVIOUS
  <2>2. ASSUME NEW a \in 1 .. Len(ts), NEW b \in 1 .. Len(ts), a <= b, b - a < j - i, Means(a, b)
        PROVE  Formed(a, b)
    <3>1. b - a < m
      BY <2>2
    <3> QED BY <1>2, <2>2, <3>1
  <2>3. ASSUME NEW ops, ops \subseteq Operators, NEW k, Splits(ts, i, j, ops, k)
        PROVE  Formed(i, j)
    <3>1. /\ k \in i + 1 .. j - 1 /\ ts[k] \in ops
          /\ Means(i, k - 1) /\ Means(k + 1, j)
      <4> DEFINE l == Segments(ts)[<<i, k - 1>>]
                 r == Segments(ts)[<<k + 1, j>>]
      <4>1. /\ k \in i + 1 .. j - 1 /\ ts[k] \in ops
            /\ l # IllFormed /\ r # IllFormed
            /\ Segments(ts)[<<i, j>>] = Node(ts[k], l, r)
        BY <2>1, <2>3, SplitParts, SMTT(40)
      <4> QED BY <4>1
    <3>2. /\ k - 1 \in 1 .. Len(ts) /\ i <= k - 1 /\ (k - 1) - i < j - i
          /\ k + 1 \in 1 .. Len(ts) /\ k + 1 <= j /\ j - (k + 1) < j - i
      <4>1. k \in Int /\ i + 1 <= k /\ k <= j - 1
        BY <3>1
      <4> HIDE DEF Done, Means, Formed
      <4> QED BY <4>1
    <3>3. Formed(i, k - 1) /\ Formed(k + 1, j)
      BY <2>2, <3>1, <3>2
    <3>4. ts[k] # BadToken
      BY <2>3, <3>1, Marks
    <3>5. \A h \in i .. j : h \in i .. k - 1 \/ h = k \/ h \in k + 1 .. j
      BY <3>1
    <3> QED BY <3>3, <3>4, <3>5
  <2>4. CASE Outside(ts, i, j, Operators) = {}
    <3> DEFINE tree == Segments(ts)
    <3>1. tree[<<i, j>>] =
            IF i = j THEN (IF IsName(ts[i]) THEN Leaf(ts[i]) ELSE IllFormed)
            ELSE IF ts[j] # ")" THEN IllFormed
            ELSE IF ts[i] = "(" THEN tree[<<i + 1, j - 1>>]
            ELSE IF IsName(ts[i]) /\ ts[i + 1] = "(" /\ tree[<<i + 2, j - 1>>] # IllFormed
            THEN Call(ts[i], tree[<<i + 2, j - 1>>])
            ELSE IllFormed
      BY <2>1, <2>4, Unsplit
    <3> HIDE DEF tree
    <3>2. tree[<<i, j>>] # IllFormed
      BY DEF tree
    <3>3. ASSUME NEW a \in i + 1 .. Len(ts) + 1, i < j, tree[<<a, j - 1>>] # IllFormed
          PROVE  Formed(a, j - 1)
      <4>1. a \in 1 .. Len(ts) + 1 /\ j - 1 \in 0 .. Len(ts)
        BY <3>3
      <4>2. a <= j - 1
        BY <3>3, <4>1, EmptySegment DEF tree
      <4>3. /\ a \in 1 .. Len(ts) /\ j - 1 \in 1 .. Len(ts) /\ (j - 1) - a < j - i
            /\ Means(a, j - 1)
        BY <3>3, <4>1, <4>2 DEF tree
      <4> QED BY <2>2, <4>2, <4>3
    <3>4. CASE i = j
      <4>1. ts[i] # BadToken
        BY <3>1, <3>2, <3>4 DEF IsName
      <4> QED BY <3>4, <4>1
    <3>5. CASE i < j /\ ts[i] = "("
      <4>1. ts[j] = ")" /\ tree[<<i + 1, j - 1>>] # IllFormed
        BY <3>1, <3>2, <3>5
      <4>2. i + 1 \in i + 1 .. Len(ts) + 1
        OBVIOUS
      <4>3. Formed(i + 1, j - 1)
        BY <3>3, <3>5, <4>1, <4>2
      <4>4. \A h \in i .. j : h = i \/ h \in i + 1 .. j - 1 \/ h = j
        OBVIOUS
      <4> QED BY <3>5, <4>1, <4>3, <4>4, Marks
    <3>6. CASE i < j /\ ts[i] # "("
      <4>1. /\ ts[j] = ")" /\ IsName(ts[i]) /\ ts[i + 1] = "("
            /\ tree[<<i + 2, j - 1>>] # IllFormed
        BY <3>1, <3>2, <3>6
      <4>2. i + 2 \in i + 1 .. Len(ts) + 1
        BY <3>6
      <4>3. Formed(i + 2, j - 1)
        BY <3>3, <3>6, <4>1, <4>2
      <4>4. \A h \in i .. j : h = i \/ h = i + 1 \/ h \in i + 2 .. j - 1 \/ h = j
        OBVIOUS
      <4> QED BY <4>1, <4>3, <4>4, Marks DEF IsName
    <3> QED BY <3>4, <3>5, <3>6
  <2>5. CASE Outside(ts, i, j, Additive) # {}
    <3>1. PICK k : Splits(ts, i, j, Additive, k)
      BY <2>1, <2>5, SplitAt
    <3> QED BY <2>3, <3>1, Marks
  <2>6. CASE Outside(ts, i, j, Additive) = {} /\ Outside(ts, i, j, Multiplicative) # {}
    <3>1. PICK k : Splits(ts, i, j, Multiplicative, k)
      BY <2>1, <2>6, SplitAt
    <3> QED BY <2>3, <3>1, Marks
  <2>7. Outside(ts, i, j, Additive) = {} /\ Outside(ts, i, j, Multiplicative) = {}
           => Outside(ts, i, j, Operators) = {}
    BY Marks DEF Outside
  <2> QED BY <2>4, <2>5, <2>6, <2>7
<1>3. Len(ts) \in Done
  <2> HIDE DEF Done
  <2> QED BY <1>1, <1>2, EveryNat
<1>4. \A i \in 1 .. Len(ts), j \in 1 .. Len(ts) : j - i < Len(ts)
  OBVIOUS
<1> QED BY <1>3, <1>4

\* A formula that means something is read as what it means.
THEOREM FormulaRead ==
    ASSUME NEW Toks, NEW ts \in Seq(Toks), Tree(ts) # IllFormed
    PROVE  ParseFormula(ts) = Parsed(Tree(ts), Len(ts) + 1)
<1> DEFINE n == Len(ts)
           t == Tree(ts)
<1>1. n \in Nat /\ DOMAIN ts = 1 .. n
  OBVIOUS
<1>2. t = Segments(ts)[<<1, n>>] /\ t # IllFormed
  BY DEF Tree
<1>3. 1 \in 1 .. n /\ n \in 1 .. n
  <2>1. 1 \in 1 .. n + 1 /\ n \in 0 .. n
    BY <1>1
  <2> QED BY <1>1, <1>2, <2>1, EmptySegment
<1>4. Result(ts, 1, "expr") = Parsed(t, n + 1)
  <2>1. Reads(ts, 1, n)
    BY <1>1, <1>3, ReadsAll
  <2>2. Followed(ts, n, {")"})
    BY DEF Followed
  <2> QED BY <1>1, <1>2, <1>3, <2>1, <2>2, ReadsExpr
<1>5. BadToken \notin ToSet(ts)
  <2>1. \A h \in 1 .. n : ts[h] # BadToken
    BY <1>1, <1>2, <1>3, NoBadToken
  <2> QED BY <1>1, <2>1 DEF ToSet
<1> HIDE DEF t
<1> QED BY <1>4, <1>5, ParsedParts DEF ParseFormula, Whole, Result, t

\* What names its calls well, by that definition.
LEMMA NamesDef ==
    \A node \in Nodes :
        NamesCalls(node) = IF node.op = "" THEN TRUE
                           ELSE IF node.op = "func"
                           THEN node.value \notin Punctuation /\ NamesCalls(node.left)
                           ELSE NamesCalls(node.left) /\ NamesCalls(node.right)
<1> DEFINE Body(f, node) == IF node.op = "" THEN TRUE
                            ELSE IF node.op = "func"
                            THEN node.value \notin Punctuation /\ f[node.left]
                            ELSE f[node.left] /\ f[node.right]
           step == [a \in Nodes \X BOOLEAN \X BOOLEAN |->
                      IF a[1].op = "" THEN TRUE
                      ELSE IF a[1].op = "func" THEN a[1].value \notin Punctuation /\ a[2]
                      ELSE a[2] /\ a[3]]
           names == CHOOSE f : f = [node \in Nodes |-> Body(f, node)]
<1>1. step \in [Nodes \X BOOLEAN \X BOOLEAN -> BOOLEAN]
  <2>1. \A x : (x \notin Punctuation) \in BOOLEAN
    OBVIOUS
  <2> QED BY <2>1
<1>2. PICK f \in [Nodes -> BOOLEAN] :
         \A node \in Nodes :
             f[node] = step[<<node, OfLeft(f, node, FALSE), OfRight(f, node, FALSE)>>]
  <2>1. FALSE \in BOOLEAN
    OBVIOUS
  <2> HIDE DEF step
  <2> QED BY <1>1, <2>1, TreeRecursion
<1>3. ASSUME NEW node \in Nodes PROVE f[node] = Body(f, node)
  <2>1. /\ OfLeft(f, node, FALSE) \in BOOLEAN /\ OfRight(f, node, FALSE) \in BOOLEAN
        /\ node.op # "" => OfLeft(f, node, FALSE) = f[node.left]
        /\ node.op # "" /\ node.op # "func" => OfRight(f, node, FALSE) = f[node.right]
    <3> HIDE DEF step
    <3> QED BY <1>2, NodeParts DEF OfLeft, OfRight
  <2> QED BY <1>2, <2>1
<1>4. f = [node \in Nodes |-> Body(f, node)]
  <2> HIDE DEF Body
  <2> QED BY <1>2, <1>3
<1>5. names = [node \in Nodes |-> Body(names, node)]
  BY <1>4, Zenon
<1>6. \A tree : NamesCalls(tree) = names[tree]
  BY Zenon DEF NamesCalls
<1> HIDE DEF names
<1>7. \A node \in Nodes : names[node] = Body(names, node)
  <2> HIDE DEF Body
  <2> QED BY <1>5
<1> QED BY <1>6, <1>7, Zenon

-----------------------------------------------------------------------------
(* What the parser accepts means something.                                 *)

\* No leaf and no call is named by an operator or a parenthesis.
Clean(node) == ToSet(CollectLeafFields(node)) \cap Punctuation = {} /\ NamesCalls(node)

\* The children of a clean tree are clean.
LEMMA CleanParts ==
    ASSUME NEW node \in Nodes, Clean(node)
    PROVE  /\ node.op = "" => node.value \notin Punctuation
           /\ node.op = "func" => node.value \notin Punctuation /\ Clean(node.left)
           /\ node.op \in Operators => Clean(node.left) /\ Clean(node.right)
<1>1. ASSUME node.op = "" PROVE node.value \notin Punctuation
  <2>1. node.value \notin Numbers => CollectLeafFields(node) = <<node.value>>
    BY <1>1, CollectDef
  <2>2. node.value \notin Numbers => node.value \in ToSet(CollectLeafFields(node))
    BY <2>1, OneElement
  <2> QED BY <2>2, TokensAssumption DEF Clean
<1>2. ASSUME node.op = "func" PROVE node.value \notin Punctuation /\ Clean(node.left)
  <2>1. CollectLeafFields(node) = CollectLeafFields(node.left)
    BY <1>2, CollectDef
  <2>2. node.value \notin Punctuation /\ NamesCalls(node.left)
    BY <1>2, NamesDef DEF Clean
  <2> QED BY <2>1, <2>2 DEF Clean
<1>3. ASSUME node.op \in Operators PROVE Clean(node.left) /\ Clean(node.right)
  <2>1. node.op # "" /\ node.op # "func" /\ node.left \in Nodes /\ node.right \in Nodes
    BY <1>3, NodeParts
  <2> DEFINE l == CollectLeafFields(node.left)
             r == CollectLeafFields(node.right)
  <2>2. CollectLeafFields(node) = l \o r /\ l \in Seq(Words) /\ r \in Seq(Words)
    BY <2>1, CollectDef
  <2>3. NamesCalls(node.left) /\ NamesCalls(node.right)
    BY <2>1, NamesDef DEF Clean
  <2> HIDE DEF l, r
  <2>4. ToSet(CollectLeafFields(node)) = ToSet(l) \cup ToSet(r)
    BY <2>2, ConcatSet
  <2>5. ToSet(l) \cap Punctuation = {} /\ ToSet(r) \cap Punctuation = {}
    BY <2>4 DEF Clean
  <2> QED BY <2>3, <2>5 DEF Clean, l, r
<1> QED BY <1>1, <1>2, <1>3

\* No tree is the mark of an ill-formed formula.
LEMMA IllFormedNode == IllFormed \notin Nodes
<1>1. IllFormed.op = "ill-formed"
  BY DEF IllFormed
<1>2. "ill-formed" # "" /\ "ill-formed" # "func" /\ "ill-formed" \notin Operators
  BY DEF Operators, Additive, Multiplicative
<1> QED BY <1>1, <1>2, NodeParts

\* What each token does to the open parentheses.
LEMMA DepthSteps ==
    ASSUME NEW ts, Len(ts) \in Nat
    PROVE  /\ \A k \in 0 .. Len(ts) : Depth(ts)[k] \in Int
           /\ \A k \in 1 .. Len(ts) :
                /\ ts[k] = "(" => Depth(ts)[k] = Depth(ts)[k - 1] + 1
                /\ ts[k] = ")" => Depth(ts)[k] = Depth(ts)[k - 1] - 1
                /\ ts[k] # "(" /\ ts[k] # ")" => Depth(ts)[k] = Depth(ts)[k - 1]
<1>1. \A k \in 1 .. Len(ts) :
        /\ Depth(ts)[k - 1] \in Int
        /\ ts[k] = "(" => Depth(ts)[k] = Depth(ts)[k - 1] + 1
        /\ ts[k] = ")" => Depth(ts)[k] = Depth(ts)[k - 1] - 1
        /\ ts[k] # "(" /\ ts[k] # ")" => Depth(ts)[k] = Depth(ts)[k - 1]
  <2> DEFINE d == Depth(ts)
  <2>1. \A k \in 1 .. Len(ts) :
          /\ d[k - 1] \in Int
          /\ d[k] = d[k - 1] + IF ts[k] = "(" THEN 1 ELSE IF ts[k] = ")" THEN -1 ELSE 0
    BY DepthDef
  <2> HIDE DEF d
  <2>2. "(" # ")"
    OBVIOUS
  <2>3. \A k \in 1 .. Len(ts) :
          /\ d[k - 1] \in Int
          /\ ts[k] = "(" => d[k] = d[k - 1] + 1
          /\ ts[k] = ")" => d[k] = d[k - 1] - 1
          /\ ts[k] # "(" /\ ts[k] # ")" => d[k] = d[k - 1]
    BY <2>1, <2>2
  <2> QED BY <2>3 DEF d
<1>2. Depth(ts)[0] \in Int
  BY DepthDef
<1>3. \A k \in 1 .. Len(ts) : Depth(ts)[k] \in Int
  BY <1>1
<1>4. \A k \in 0 .. Len(ts) : k = 0 \/ k \in 1 .. Len(ts)
  OBVIOUS
<1> QED BY <1>1, <1>2, <1>3, <1>4

\* The parentheses of tokens i to j pair up.
Balanced(ts, i, j) ==
    /\ Depth(ts)[j] = Depth(ts)[i - 1]
    /\ \A k \in i .. j : Depth(ts)[k] >= Depth(ts)[i - 1]

\* Tokens o and b are the parentheses around what is between them.
Wraps(ts, o, b) ==
    /\ Len(ts) \in Nat /\ o \in 1 .. Len(ts) /\ b \in o + 2 .. Len(ts)
    /\ ts[o] = "(" /\ ts[b] = ")"
    /\ Balanced(ts, o + 1, b - 1)

\* Nothing in parentheses stands outside of them.
LEMMA Wrapped ==
    ASSUME NEW ts, NEW o, NEW b, Wraps(ts, o, b)
    PROVE  Balanced(ts, o, b) /\ Outside(ts, o, b, Operators) = {}
<1> DEFINE d == Depth(ts)
<1>1. /\ Len(ts) \in Nat /\ o \in 1 .. Len(ts) /\ b \in o + 2 .. Len(ts)
      /\ ts[o] = "(" /\ ts[b] = ")" /\ (o + 1) - 1 = o
      /\ b - 1 \in 0 .. Len(ts) /\ o - 1 \in 0 .. Len(ts) /\ b \in 1 .. Len(ts)
  BY DEF Wraps
<1>2. d[b - 1] = d[o] /\ \A k \in o + 1 .. b - 1 : d[k] >= d[o]
  BY <1>1 DEF Wraps, Balanced
<1>3. d[o] = d[o - 1] + 1 /\ d[b] = d[b - 1] - 1
  BY <1>1, DepthSteps
<1>4. \A k \in o .. b : d[k] \in Int
  <2>1. \A k \in o .. b : k \in 0 .. Len(ts)
    BY <1>1
  <2> QED BY <1>1, <2>1, DepthSteps
<1>5. d[o - 1] \in Int /\ d[b - 1] \in Int
  BY <1>1, DepthSteps
<1>6. \A k \in o .. b : k = o \/ k = b \/ k \in o + 1 .. b - 1
  BY <1>1
<1>7. o \in o .. b /\ b \in o .. b
  BY <1>1
<1> HIDE DEF d
<1>8. d[b] = d[o - 1]
  BY <1>2, <1>3, <1>5
<1>9. \A k \in o + 1 .. b - 1 : d[k] > d[o - 1]
  <2>1. \A k \in o + 1 .. b - 1 : k \in o .. b
    BY <1>1
  <2> QED BY <1>2, <1>3, <1>4, <1>5, <2>1
<1>10. d[o] > d[o - 1]
  BY <1>3, <1>5
<1>11. \A k \in o .. b : d[k] >= d[o - 1]
  BY <1>4, <1>5, <1>6, <1>8, <1>9, <1>10
<1>12. ASSUME NEW k \in Outside(ts, o, b, Operators) PROVE FALSE
  <2>1. k \in o .. b /\ ts[k] \in Operators /\ d[k] = d[o - 1]
    BY <1>12 DEF Outside, d
  <2>2. k # o /\ k # b
    BY <1>1, <2>1, Marks
  <2>3. d[k] > d[o - 1] /\ d[k] \in Int
    BY <1>4, <1>6, <1>9, <2>1, <2>2
  <2> QED BY <1>5, <2>1, <2>3
<1> QED BY <1>8, <1>11, <1>12 DEF Balanced, d

\* The operators that do not stand outside of the parentheses of a parse.
Absent(rule) ==
    IF rule = "factor" THEN Operators ELSE IF rule = "term" THEN Additive ELSE {}

\* Tokens i to j mean the node, and are what the rule is for.
Says(ts, i, j, rule, node) ==
    /\ Segments(ts)[<<i, j>>] = node
    /\ Balanced(ts, i, j)
    /\ Outside(ts, i, j, Absent(rule)) = {}

\* A result of the parse from i on: no higher than it is long, and what the tokens
\* it took mean.
Sound(ts, i, rule, r) ==
    \/ r = Failure
    \/ \E node, next :
        /\ r = Parsed(node, next)
        /\ next \in i + 1 .. Len(ts) + 1
        /\ node \in Trees[next - i]
        /\ Clean(node) => Says(ts, i, next - 1, rule, node)

Readable(ts) == ts \in Seq(Words) /\ Len(ts) <= MaxTokens /\ BadToken \notin ToSet(ts)

\* The tokens that the lexer let through.
LEMMA ReadableTokens ==
    ASSUME NEW ts, Readable(ts)
    PROVE  /\ Len(ts) \in Nat /\ Len(ts) <= MaxTokens /\ MaxTokens \in Nat
           /\ \A k \in 1 .. Len(ts) : ts[k] \in Words /\ ts[k] # BadToken
<1>1. /\ ts \in Seq(Words) /\ Len(ts) <= MaxTokens /\ BadToken \notin ToSet(ts)
  BY DEF Readable
<1>2. DOMAIN ts = 1 .. Len(ts) /\ Len(ts) \in Nat /\ \A k \in 1 .. Len(ts) : ts[k] \in Words
  BY <1>1
<1> QED BY <1>1, <1>2, TokensAssumption DEF ToSet

\* Nodes of a certain height.
LEMMA HeightBounds ==
    ASSUME NEW h \in Nat, NEW k \in Nat, h <= k, k <= MaxTokens
    PROVE  Trees[h] \subseteq Trees[k] /\ Trees[h] \subseteq Nodes
<1>1. /\ h \in 0 .. MaxTokens /\ k \in h .. MaxTokens /\ MaxTokens \in h .. MaxTokens
  BY TokensAssumption
<1> QED BY <1>1, TreesGrow DEF Nodes

\* A leaf, a call and an operation are one higher than what they are made of.
LEMMA Heights ==
    ASSUME NEW h \in Nat, h < MaxTokens
    PROVE  /\ \A v \in Words : Leaf(v) \in Trees[h + 1]
           /\ \A v \in Words, x \in Trees[h] : Call(v, x) \in Trees[h + 1]
           /\ \A o \in Operators, l \in Trees[h], r \in Trees[h] : Node(o, l, r) \in Trees[h + 1]
<1>1. h + 1 \in 0 .. MaxTokens /\ h + 1 # 0 /\ (h + 1) - 1 = h
  BY TokensAssumption
<1>2. Trees[h + 1] = NodesOver(Trees[h])
  BY <1>1, TreesDef
<1> QED BY <1>2 DEF NodesOver, Leaf, Call, Node

\* Tokens o to b: a formula that was read inside of parentheses, and its node.
Inside(ts, o, b, x) ==
    /\ o \in 1 .. Len(ts) /\ b \in o + 2 .. Len(ts) /\ ts[b] = ")"
    /\ Result(ts, o + 1, "expr") = Parsed(x, b)
    /\ x \in Trees[b - (o + 1)]
    /\ Clean(x) => Says(ts, o + 1, b - 1, "expr", x)

\* The expression a factor closes.
LEMMA InsideParentheses ==
    ASSUME NEW ts, Readable(ts), NEW o \in 1 .. Len(ts),
           Sound(ts, o + 1, "expr", Result(ts, o + 1, "expr")),
           Closed(ts, Result(ts, o + 1, "expr"))
    PROVE  \E b, x : Inside(ts, o, b, x)
<1> DEFINE r == Result(ts, o + 1, "expr")
<1>1. r # Failure
  BY DEF Closed, Failure
<1> HIDE DEF r
<1>2. PICK x, b : /\ r = Parsed(x, b) /\ b \in o + 1 + 1 .. Len(ts) + 1
                  /\ x \in Trees[b - (o + 1)]
                  /\ Clean(x) => Says(ts, o + 1, b - 1, "expr", x)
  BY <1>1 DEF Sound, r
<1>3. b <= Len(ts) /\ ts[b] = ")"
  BY <1>2, ParsedParts DEF Closed, At, r
<1>4. b \in o + 2 .. Len(ts)
  BY <1>2, <1>3, ReadableTokens
<1>5. Inside(ts, o, b, x)
  BY <1>2, <1>3, <1>4 DEF Inside, r
<1> QED BY <1>5

\* What holds of the tokens inside holds of the parentheses around them.
LEMMA InsideSays ==
    ASSUME NEW ts, Readable(ts), NEW o, NEW b, NEW x, Inside(ts, o, b, x)
    PROVE  /\ x \in Nodes /\ x \in Trees[b - (o + 1)] /\ b - (o + 1) \in Nat
           /\ b - o \in Nat /\ b - o < MaxTokens /\ b \in 1 .. Len(ts) /\ o < b
           /\ x # IllFormed
           /\ ts[o] = "(" /\ Clean(x) =>
                /\ Segments(ts)[<<o + 1, b - 1>>] = x
                /\ Balanced(ts, o, b) /\ Outside(ts, o, b, Operators) = {}
<1>1. /\ Len(ts) \in Nat /\ Len(ts) <= MaxTokens /\ MaxTokens \in Nat
      /\ o \in 1 .. Len(ts) /\ b \in o + 2 .. Len(ts) /\ ts[b] = ")"
      /\ x \in Trees[b - (o + 1)]
  BY ReadableTokens DEF Inside
<1>2. /\ b - (o + 1) \in Nat /\ b - o \in Nat /\ b - o < MaxTokens /\ b \in 1 .. Len(ts) /\ o < b
      /\ b - (o + 1) <= MaxTokens
  BY <1>1
<1>3. x \in Nodes
  BY <1>1, <1>2, HeightBounds
<1>4. ASSUME ts[o] = "(", Clean(x)
      PROVE  /\ Segments(ts)[<<o + 1, b - 1>>] = x
             /\ Balanced(ts, o, b) /\ Outside(ts, o, b, Operators) = {}
  <2>1. Says(ts, o + 1, b - 1, "expr", x)
    BY <1>4 DEF Inside
  <2>2. Wraps(ts, o, b)
    BY <1>1, <1>4, <2>1 DEF Wraps, Says
  <2> QED BY <2>1, <2>2, Wrapped DEF Says
<1> QED BY <1>1, <1>2, <1>3, <1>4, IllFormedNode

\* A token that is no parenthesis changes nothing of what is outside.
LEMMA NameBefore ==
    ASSUME NEW ts, Len(ts) \in Nat, NEW i \in 1 .. Len(ts), ts[i] \notin Punctuation
    PROVE  Depth(ts)[i] = Depth(ts)[i - 1] /\ ts[i] \notin Operators
BY DepthSteps, Marks

\* A token that is taken for a leaf means that leaf.
LEMMA SoundLeaf ==
    ASSUME NEW ts, Readable(ts), NEW i \in 1 .. Len(ts)
    PROVE  Sound(ts, i, "factor", Parsed(Leaf(ts[i]), i + 1))
<1> DEFINE node == Leaf(ts[i])
<1>1. Len(ts) \in Nat /\ ts[i] \in Words /\ ts[i] # BadToken /\ Len(ts) <= MaxTokens /\ MaxTokens \in Nat
  BY ReadableTokens
<1>2. node \in Trees[(i + 1) - i] /\ node \in Nodes
  <2>1. 0 \in Nat /\ 0 < MaxTokens /\ 0 + 1 = 1 /\ 1 \in Nat /\ 1 <= MaxTokens /\ (i + 1) - i = 1
    BY <1>1
  <2>2. node \in Trees[1]
    BY <1>1, <2>1, Heights
  <2>3. Trees[1] \subseteq Nodes
    BY <1>1, <2>1, HeightBounds
  <2> QED BY <2>1, <2>2, <2>3
<1>3. ASSUME Clean(node) PROVE Says(ts, i, i, "factor", node)
  <2>1. ts[i] \notin Punctuation
    <3>1. node.op = "" /\ node.value = ts[i]
      BY DEF Leaf
    <3> HIDE DEF node
    <3> QED BY <1>2, <1>3, <3>1, CleanParts
  <2>2. Depth(ts)[i] = Depth(ts)[i - 1] /\ ts[i] \notin Operators
    BY <1>1, <2>1, NameBefore
  <2>3. \A k \in i .. i : k = i
    OBVIOUS
  <2>4. Depth(ts)[i - 1] \in Int
    BY <1>1, DepthSteps
  <2>5. Balanced(ts, i, i)
    BY <2>2, <2>3, <2>4 DEF Balanced
  <2>6. Outside(ts, i, i, Operators) = {}
    BY <2>2, <2>3 DEF Outside
  <2>7. Segments(ts)[<<i, i>>] = node
    <3>1. IsName(ts[i])
      BY <1>1, <2>1 DEF IsName
    <3>2. i \in i .. Len(ts)
      BY <1>1
    <3> HIDE DEF node
    <3>3. Segments(ts)[<<i, i>>] = IF IsName(ts[i]) THEN Leaf(ts[i]) ELSE IllFormed
      BY <1>1, <2>6, <3>2, Unsplit
    <3> QED BY <3>1, <3>3 DEF node
  <2> QED BY <2>5, <2>6, <2>7 DEF Says, Absent
<1>4. i + 1 \in i + 1 .. Len(ts) + 1 /\ (i + 1) - 1 = i
  BY <1>1
<1> HIDE DEF node
<1>5. Clean(node) => Says(ts, i, (i + 1) - 1, "factor", node)
  BY <1>3, <1>4
<1>6. \E x, next : /\ Parsed(node, i + 1) = Parsed(x, next)
                   /\ next \in i + 1 .. Len(ts) + 1
                   /\ x \in Trees[next - i]
                   /\ Clean(x) => Says(ts, i, next - 1, "factor", x)
  BY <1>2, <1>4, <1>5
<1> QED BY <1>6 DEF Sound, node

\* What was read inside of parentheses is what they mean.
LEMMA SoundParentheses ==
    ASSUME NEW ts, Readable(ts), NEW i, NEW b, NEW x, Inside(ts, i, b, x), ts[i] = "("
    PROVE  Sound(ts, i, "factor", Parsed(x, b + 1))
<1>1. /\ Len(ts) \in Nat /\ Len(ts) <= MaxTokens /\ MaxTokens \in Nat
      /\ i \in 1 .. Len(ts) /\ b \in i + 2 .. Len(ts) /\ ts[b] = ")"
  BY ReadableTokens DEF Inside
<1>2. /\ x \in Nodes /\ x \in Trees[b - (i + 1)] /\ b - (i + 1) \in Nat /\ x # IllFormed
      /\ Clean(x) => /\ Segments(ts)[<<i + 1, b - 1>>] = x
                     /\ Balanced(ts, i, b) /\ Outside(ts, i, b, Operators) = {}
  BY InsideSays
<1>3. x \in Trees[(b + 1) - i]
  <2>1. (b + 1) - i \in Nat /\ b - (i + 1) <= (b + 1) - i /\ (b + 1) - i <= MaxTokens
    BY <1>1
  <2> QED BY <1>2, <2>1, HeightBounds
<1>4. ASSUME Clean(x) PROVE Says(ts, i, b, "factor", x)
  <2>1. Outside(ts, i, b, Operators) = {} /\ Balanced(ts, i, b)
    BY <1>2, <1>4
  <2>2. i # b /\ b \in i .. Len(ts)
    BY <1>1
  <2> DEFINE tree == Segments(ts)
  <2>3. tree[<<i, b>>] =
          IF i = b THEN (IF IsName(ts[i]) THEN Leaf(ts[i]) ELSE IllFormed)
          ELSE IF ts[b] # ")" THEN IllFormed
          ELSE IF ts[i] = "(" THEN tree[<<i + 1, b - 1>>]
          ELSE IF IsName(ts[i]) /\ ts[i + 1] = "(" /\ tree[<<i + 2, b - 1>>] # IllFormed
          THEN Call(ts[i], tree[<<i + 2, b - 1>>])
          ELSE IllFormed
    BY <1>1, <2>1, <2>2, Unsplit
  <2>4. tree[<<i + 1, b - 1>>] = x
    BY <1>2, <1>4
  <2> HIDE DEF tree
  <2>5. tree[<<i, b>>] = x
    BY <1>1, <2>2, <2>3, <2>4
  <2> QED BY <2>1, <2>5 DEF Says, Absent, tree
<1>5. b + 1 \in i + 1 .. Len(ts) + 1 /\ (b + 1) - 1 = b
  BY <1>1
<1>6. Clean(x) => Says(ts, i, (b + 1) - 1, "factor", x)
  BY <1>4, <1>5
<1>7. \E node, next : /\ Parsed(x, b + 1) = Parsed(node, next)
                      /\ next \in i + 1 .. Len(ts) + 1
                      /\ node \in Trees[next - i]
                      /\ Clean(node) => Says(ts, i, next - 1, "factor", node)
  BY <1>3, <1>5, <1>6
<1> QED BY <1>7 DEF Sound

\* So is what was read inside of a call, of the call.
LEMMA SoundCall ==
    ASSUME NEW ts, Readable(ts), NEW i \in 1 .. Len(ts), NEW b, NEW x,
           Inside(ts, i + 1, b, x), ts[i] # "(", ts[i + 1] = "("
    PROVE  Sound(ts, i, "factor", Parsed(Call(ts[i], x), b + 1))
<1> DEFINE node == Call(ts[i], x)
<1>1. /\ Len(ts) \in Nat /\ Len(ts) <= MaxTokens /\ MaxTokens \in Nat /\ ts[i] \in Words
      /\ ts[i] # BadToken /\ i + 1 \in 1 .. Len(ts) /\ b \in i + 1 + 2 .. Len(ts) /\ ts[b] = ")"
  BY ReadableTokens DEF Inside
<1>2. /\ x \in Nodes /\ x \in Trees[b - (i + 1 + 1)] /\ b - (i + 1 + 1) \in Nat /\ x # IllFormed
      /\ Clean(x) => /\ Segments(ts)[<<i + 1 + 1, b - 1>>] = x
                     /\ Balanced(ts, i + 1, b) /\ Outside(ts, i + 1, b, Operators) = {}
  BY InsideSays
<1>3. node \in Trees[(b + 1) - i] /\ node \in Nodes
  <2>1. /\ b - i \in Nat /\ b - (i + 1 + 1) <= b - i /\ b - i < MaxTokens /\ b - i <= MaxTokens
        /\ (b + 1) - i = (b - i) + 1 /\ (b + 1) - i \in Nat /\ (b + 1) - i <= MaxTokens
    BY <1>1
  <2>2. x \in Trees[b - i]
    BY <1>2, <2>1, HeightBounds
  <2>3. node \in Trees[(b - i) + 1]
    BY <1>1, <2>1, <2>2, Heights
  <2>4. Trees[(b + 1) - i] \subseteq Nodes
    BY <2>1, HeightBounds
  <2> HIDE DEF node
  <2> QED BY <2>1, <2>3, <2>4
<1>4. ASSUME Clean(node) PROVE Says(ts, i, b, "factor", node)
  <2>1. ts[i] \notin Punctuation /\ Clean(x)
    <3>1. node.op = "func" /\ node.value = ts[i] /\ node.left = x
      BY DEF Call
    <3> HIDE DEF node
    <3> QED BY <1>3, <1>4, <3>1, CleanParts
  <2>2. Depth(ts)[i] = Depth(ts)[i - 1] /\ ts[i] \notin Operators
    BY <1>1, <2>1, NameBefore
  <2>3. Balanced(ts, i + 1, b) /\ Outside(ts, i + 1, b, Operators) = {}
    BY <1>2, <2>1
  <2>4. /\ (i + 1) - 1 = i /\ b # i /\ i < b /\ b \in i .. Len(ts) /\ i + 1 + 1 = i + 2
        /\ \A k \in i .. b : k = i \/ k \in i + 1 .. b
    BY <1>1
  <2>5. Depth(ts)[i - 1] \in Int
    BY <1>1, DepthSteps
  <2>6. Balanced(ts, i, b)
    BY <2>2, <2>3, <2>4, <2>5 DEF Balanced
  <2>7. Outside(ts, i, b, Operators) = {}
    BY <2>2, <2>3, <2>4 DEF Outside
  <2>8. Segments(ts)[<<i, b>>] = node
    <3> DEFINE tree == Segments(ts)
    <3>1. tree[<<i, b>>] =
            IF i = b THEN (IF IsName(ts[i]) THEN Leaf(ts[i]) ELSE IllFormed)
            ELSE IF ts[b] # ")" THEN IllFormed
            ELSE IF ts[i] = "(" THEN tree[<<i + 1, b - 1>>]
            ELSE IF IsName(ts[i]) /\ ts[i + 1] = "(" /\ tree[<<i + 2, b - 1>>] # IllFormed
            THEN Call(ts[i], tree[<<i + 2, b - 1>>])
            ELSE IllFormed
      BY <1>1, <2>4, <2>7, Unsplit
    <3>2. IsName(ts[i])
      BY <1>1, <2>1 DEF IsName
    <3>3. tree[<<i + 2, b - 1>>] = x
      BY <1>2, <2>1, <2>4
    <3> HIDE DEF tree
    <3> QED BY <1>1, <1>2, <2>4, <3>1, <3>2, <3>3 DEF tree
  <2> QED BY <2>6, <2>7, <2>8 DEF Says, Absent
<1>5. b + 1 \in i + 1 .. Len(ts) + 1 /\ (b + 1) - 1 = b
  BY <1>1
<1> HIDE DEF node
<1>6. Clean(node) => Says(ts, i, (b + 1) - 1, "factor", node)
  BY <1>4, <1>5
<1>7. \E y, next : /\ Parsed(node, b + 1) = Parsed(y, next)
                   /\ next \in i + 1 .. Len(ts) + 1
                   /\ y \in Trees[next - i]
                   /\ Clean(y) => Says(ts, i, next - 1, "factor", y)
  BY <1>3, <1>5, <1>6
<1> QED BY <1>7 DEF Sound, node

\* parseFactor is sound if expressions further on are.
LEMMA SoundFactor ==
    ASSUME NEW ts, Readable(ts), NEW i \in 1 .. Len(ts) + 1,
           \A a \in i + 1 .. Len(ts) + 1 : Sound(ts, a, "expr", Result(ts, a, "expr"))
    PROVE  Sound(ts, i, "factor", Result(ts, i, "factor"))
<1> DEFINE rest == Rest(ts, i, "expr")
           result == ParseFactor(ts, i, rest)
<1>1. Len(ts) \in Nat
  BY ReadableTokens
<1>2. Result(ts, i, "factor") = result
  BY <1>1, FactorDef
<1>3. \A a \in i + 1 .. Len(ts) + 1 : rest[a] = Result(ts, a, "expr")
  BY DEF Rest
<1>4. Sound(ts, i, "factor", Failure)
  BY DEF Sound
<1> HIDE DEF rest
<1>5. CASE i > Len(ts)
  <2>1. result = Failure
    BY <1>5 DEF ParseFactor
  <2> QED BY <1>2, <1>4, <2>1
<1>6. CASE i <= Len(ts) /\ ts[i] = "("
  <2>1. result = IF ~Closed(ts, rest[i + 1]) THEN Failure
                 ELSE Parsed(rest[i + 1].node, rest[i + 1].next + 1)
    BY <1>6 DEF ParseFactor, At
  <2>2. i \in 1 .. Len(ts) /\ i + 1 \in i + 1 .. Len(ts) + 1
    BY <1>1, <1>6
  <2>3. rest[i + 1] = Result(ts, i + 1, "expr") /\ Sound(ts, i + 1, "expr", Result(ts, i + 1, "expr"))
    BY <1>3, <2>2
  <2>4. CASE Closed(ts, rest[i + 1])
    <3>1. PICK b, x : Inside(ts, i, b, x)
      BY <2>2, <2>3, <2>4, InsideParentheses
    <3>2. rest[i + 1] = Parsed(x, b)
      BY <2>3, <3>1 DEF Inside
    <3>3. result = Parsed(x, b + 1)
      BY <2>1, <2>4, <3>2, ParsedParts
    <3> QED BY <1>2, <1>6, <3>1, <3>3, SoundParentheses
  <2>5. CASE ~Closed(ts, rest[i + 1])
    BY <1>2, <1>4, <2>1, <2>5
  <2> QED BY <2>4, <2>5
<1>7. CASE i + 2 <= Len(ts) /\ ts[i] # "(" /\ ts[i + 1] = "("
  <2>1. result = IF ~Closed(ts, rest[i + 2]) THEN Failure
                 ELSE Parsed(Call(ts[i], rest[i + 2].node), rest[i + 2].next + 1)
    BY <1>1, <1>7 DEF ParseFactor, At
  <2>2. /\ i \in 1 .. Len(ts) /\ i + 1 \in 1 .. Len(ts) /\ i + 1 + 1 = i + 2
        /\ i + 2 \in i + 1 .. Len(ts) + 1
    BY <1>1, <1>7
  <2>3. rest[i + 2] = Result(ts, i + 2, "expr") /\ Sound(ts, i + 2, "expr", Result(ts, i + 2, "expr"))
    BY <1>3, <2>2
  <2>4. CASE Closed(ts, rest[i + 2])
    <3>1. PICK b, x : Inside(ts, i + 1, b, x)
      <4>1. /\ Sound(ts, i + 1 + 1, "expr", Result(ts, i + 1 + 1, "expr"))
            /\ Closed(ts, Result(ts, i + 1 + 1, "expr"))
        BY <2>2, <2>3, <2>4
      <4> QED BY <2>2, <4>1, InsideParentheses
    <3>2. rest[i + 2] = Parsed(x, b)
      BY <2>2, <2>3, <3>1 DEF Inside
    <3>3. result = Parsed(Call(ts[i], x), b + 1)
      BY <2>1, <2>4, <3>2, ParsedParts
    <3>4. Sound(ts, i, "factor", Parsed(Call(ts[i], x), b + 1))
      BY <1>7, <2>2, <3>1, SoundCall
    <3> QED BY <1>2, <3>3, <3>4
  <2>5. CASE ~Closed(ts, rest[i + 2])
    BY <1>2, <1>4, <2>1, <2>5
  <2> QED BY <2>4, <2>5
<1>8. CASE i <= Len(ts) /\ ts[i] # "(" /\ ~(i + 2 <= Len(ts) /\ ts[i + 1] = "(")
  <2>1. i \in 1 .. Len(ts)
    BY <1>1, <1>8
  <2>2. result = Parsed(Leaf(ts[i]), i + 1)
    BY <1>1, <1>8 DEF ParseFactor, At
  <2>3. Sound(ts, i, "factor", Parsed(Leaf(ts[i]), i + 1))
    BY <2>1, SoundLeaf
  <2> QED BY <1>2, <2>2, <2>3
<1> QED BY <1>1, <1>5, <1>6, <1>7, <1>8

\* A chain has read l, the operator at a, and r up to b.
Halves(ts, i, a, b, rule, l, r) ==
    /\ rule \in Chains /\ i \in 1 .. Len(ts)
    /\ a \in i + 1 .. Len(ts) /\ b \in a + 2 .. Len(ts) + 1 /\ ts[a] \in OpsOf(rule)
    /\ l \in Trees[a - i] /\ r \in Trees[b - (a + 1)]
    /\ Clean(l) => Says(ts, i, a - 1, rule, l)
    /\ Clean(r) => Says(ts, a + 1, b - 1, Under(rule), r)

\* Which operators the loop of each rule looks for, and which its operands may have.
LEMMA LevelRules ==
    ASSUME NEW rule \in Chains
    PROVE  /\ OpsOf(rule) \subseteq Absent(Under(rule)) /\ Absent(rule) \subseteq Absent(Under(rule))
           /\ OpsOf(rule) \cap Absent(rule) = {} /\ OpsOf(rule) \subseteq Operators
           /\ OpsOf(rule) = Additive \/ (OpsOf(rule) = Multiplicative /\ Absent(rule) = Additive)
BY Marks DEF Chains, OpsOf, Under, Absent

\* The operator is the last of its level, and the tokens mean the operation.
LEMMA HalvesSay ==
    ASSUME NEW ts, Readable(ts), NEW i, NEW a, NEW b, NEW rule, NEW l, NEW r,
           Halves(ts, i, a, b, rule, l, r), l \in Nodes, r \in Nodes, Clean(l), Clean(r)
    PROVE  Says(ts, i, b - 1, rule, Node(ts[a], l, r))
<1> DEFINE d == Depth(ts)
           j == b - 1
           ops == OpsOf(rule)
<1>1. /\ Len(ts) \in Nat /\ i \in 1 .. Len(ts) /\ a \in i + 1 .. j /\ j \in i .. Len(ts)
      /\ j \in a + 1 .. Len(ts) /\ (a + 1) - 1 = a /\ a \in 1 .. Len(ts) /\ a - 1 \in 0 .. Len(ts)
      /\ i - 1 \in 0 .. Len(ts) /\ j \in 0 .. Len(ts) /\ a \in i .. j
  BY ReadableTokens DEF Halves
<1>2. Says(ts, i, a - 1, rule, l) /\ Says(ts, a + 1, j, Under(rule), r)
  BY DEF Halves
<1>3. rule \in Chains /\ ts[a] \in ops
  BY DEF Halves
<1> HIDE DEF j, ops
<1>4. /\ ops \subseteq Absent(Under(rule)) /\ Absent(rule) \subseteq Absent(Under(rule))
      /\ ops \cap Absent(rule) = {} /\ ops \subseteq Operators
      /\ ops = Additive \/ (ops = Multiplicative /\ Absent(rule) = Additive)
  BY <1>3, LevelRules DEF ops
<1>5. d[a] = d[i - 1] /\ d[j] = d[i - 1]
  <2>1. ts[a] # "(" /\ ts[a] # ")"
    BY <1>3, <1>4, Marks
  <2>2. d[a] = d[a - 1]
    BY <1>1, <2>1, DepthSteps
  <2> QED BY <1>1, <1>2, <2>2 DEF Says, Balanced
<1>6. Balanced(ts, i, j)
  <2>1. \A k \in i .. j : k \in i .. a - 1 \/ k = a \/ k \in a + 1 .. j
    BY <1>1
  <2>2. d[i - 1] \in Int
    BY <1>1, DepthSteps
  <2>3. \A k \in i .. a - 1 : d[k] >= d[i - 1]
    BY <1>2 DEF Says, Balanced
  <2>4. \A k \in a + 1 .. j : d[k] >= d[i - 1]
    BY <1>1, <1>2, <1>5 DEF Says, Balanced
  <2> HIDE DEF d
  <2>5. \A k \in i .. j : d[k] >= d[i - 1]
    BY <1>5, <2>1, <2>2, <2>3, <2>4
  <2> QED BY <1>5, <2>5 DEF Balanced, d
<1>7. \A toks : /\ Outside(ts, i, a - 1, toks) \subseteq Outside(ts, i, j, toks)
                /\ Outside(ts, a + 1, j, toks) = {h \in Outside(ts, i, j, toks) : a < h}
  <2>1. AtLevel(ts, i, j, a)
    BY <1>1, <1>5 DEF AtLevel
  <2> QED BY <2>1, OutsideParts
<1>8. ASSUME NEW toks, toks \subseteq Absent(Under(rule))
      PROVE  \A h \in Outside(ts, i, j, toks) : h <= a
  <2>1. Outside(ts, a + 1, j, toks) = {}
    <3>1. Outside(ts, a + 1, j, Absent(Under(rule))) = {}
      BY <1>2 DEF Says
    <3> QED BY <1>8, <3>1 DEF Outside
  <2>2. \A h \in Outside(ts, i, j, toks) : h \in Int
    BY <1>1 DEF Outside
  <2>3. \A h \in Outside(ts, i, j, toks) : ~(a < h)
    BY <1>7, <2>1
  <2> QED BY <1>1, <2>2, <2>3
<1>9. Outside(ts, i, j, Absent(rule)) = {}
  <2> SUFFICES ASSUME NEW h \in Outside(ts, i, j, Absent(rule)) PROVE FALSE
    OBVIOUS
  <2>1. h <= a
    BY <1>4, <1>8
  <2>2. h \in i .. j /\ ts[h] \in Absent(rule) /\ d[h] = d[i - 1]
    BY DEF Outside
  <2>3. h # a
    BY <1>3, <1>4, <2>2
  <2>4. h \in i .. a - 1
    BY <1>1, <2>1, <2>2, <2>3
  <2>5. h \in Outside(ts, i, a - 1, Absent(rule))
    BY <2>2, <2>4 DEF Outside
  <2> QED BY <1>2, <2>5 DEF Says
<1>10. a \in Outside(ts, i, j, ops)
  BY <1>1, <1>3, <1>5 DEF Outside
<1>11. Splits(ts, i, j, ops, a)
  <2>1. PICK k \in i .. j : Splits(ts, i, j, ops, k)
    BY <1>1, <1>4, <1>9, <1>10, SplitAt
  <2>2. k <= a /\ a <= k
    BY <1>4, <1>8, <1>10, <2>1 DEF Splits
  <2>3. k = a
    BY <1>1, <2>2
  <2> QED BY <2>1, <2>3
<1>12. Segments(ts)[<<i, j>>] = Node(ts[a], l, r)
  <2>1. Segments(ts)[<<i, a - 1>>] = l /\ Segments(ts)[<<a + 1, j>>] = r
    BY <1>2 DEF Says
  <2>2. Segments(ts)[<<i, j>>] = Join(ts[a], l, r)
    BY <1>11, <2>1 DEF Splits
  <2>3. l # IllFormed /\ r # IllFormed
    BY IllFormedNode
  <2> QED BY <2>2, <2>3 DEF Join
<1> QED BY <1>6, <1>9, <1>12 DEF Says, j

\* A turn of a loop joins two halves that are sound to one that is.
LEMMA SoundJoin ==
    ASSUME NEW ts, Readable(ts), NEW i, NEW a, NEW b, NEW rule, NEW l, NEW r,
           Halves(ts, i, a, b, rule, l, r)
    PROVE  Sound(ts, i, rule, Parsed(Node(ts[a], l, r), b))
<1> DEFINE node == Node(ts[a], l, r)
<1>1. /\ Len(ts) \in Nat /\ Len(ts) <= MaxTokens /\ MaxTokens \in Nat
      /\ rule \in Chains /\ i \in 1 .. Len(ts)
      /\ a \in i + 1 .. Len(ts) /\ b \in a + 2 .. Len(ts) + 1 /\ ts[a] \in OpsOf(rule)
      /\ l \in Trees[a - i] /\ r \in Trees[b - (a + 1)]
  BY ReadableTokens DEF Halves
<1> DEFINE h == (b - i) - 1
<1>2. /\ h \in Nat /\ h < MaxTokens /\ h <= MaxTokens /\ h + 1 = b - i /\ h + 1 \in Nat
      /\ h + 1 <= MaxTokens
      /\ a - i \in Nat /\ a - i <= h /\ b - (a + 1) \in Nat /\ b - (a + 1) <= h
  BY <1>1
<1> HIDE DEF h
<1>3. l \in Trees[h] /\ r \in Trees[h] /\ l \in Nodes /\ r \in Nodes
  BY <1>1, <1>2, HeightBounds
<1>4. ts[a] \in Operators
  BY <1>1, LevelRules
<1>5. node \in Trees[h + 1]
  BY <1>2, <1>3, <1>4, Heights
<1>6. node \in Nodes
  <2>1. Trees[h + 1] \subseteq Nodes
    BY <1>2, HeightBounds
  <2> HIDE DEF node
  <2> QED BY <1>5, <2>1
<1>7. Clean(node) => Clean(l) /\ Clean(r)
  <2>1. node.op = ts[a] /\ node.left = l /\ node.right = r
    BY DEF Node
  <2> HIDE DEF node
  <2> QED BY <1>4, <1>6, <2>1, CleanParts
<1>8. Clean(node) => Says(ts, i, b - 1, rule, node)
  <2>1. Clean(l) /\ Clean(r) => Says(ts, i, b - 1, rule, node)
    BY <1>3, HalvesSay
  <2> HIDE DEF node
  <2> QED BY <1>7, <2>1
<1>9. b \in i + 1 .. Len(ts) + 1
  BY <1>1
<1> HIDE DEF node
<1>10. \E x, next : /\ Parsed(node, b) = Parsed(x, next)
                    /\ next \in i + 1 .. Len(ts) + 1
                    /\ x \in Trees[next - i]
                    /\ Clean(x) => Says(ts, i, next - 1, rule, x)
  BY <1>2, <1>5, <1>8, <1>9
<1> QED BY <1>10 DEF Sound, node

\* What a lower rule reads, the one above it takes over.
LEMMA SoundAbove ==
    ASSUME NEW ts, NEW i, NEW rule \in Chains, NEW r, Sound(ts, i, Under(rule), r)
    PROVE  Sound(ts, i, rule, r)
<1>1. \A j, node : Says(ts, i, j, Under(rule), node) => Says(ts, i, j, rule, node)
  BY LevelRules DEF Says, Outside
<1> QED BY <1>1 DEF Sound

\* Every turn of a chain is sound, as long as its operands are.
LEMMA SoundChain ==
    ASSUME NEW ts, Readable(ts), NEW i \in 1 .. Len(ts) + 1, NEW rule \in Chains,
           Sound(ts, i, Under(rule), Result(ts, i, Under(rule))),
           \A a \in i + 1 .. Len(ts) + 1 : Sound(ts, a, Under(rule), Result(ts, a, Under(rule)))
    PROVE  Sound(ts, i, rule, Result(ts, i, rule))
<1> DEFINE turn == Chain(ts, i, rule)
           rest == Rest(ts, i, Under(rule))
           Done == {k \in Nat : k <= Len(ts) => Sound(ts, i, rule, turn[k])}
<1>1. Len(ts) \in Nat
  BY ReadableTokens
<1>2. /\ Result(ts, i, rule) = turn[Len(ts)]
      /\ turn[0] = Result(ts, i, Under(rule))
      /\ \A k \in 1 .. Len(ts) : turn[k] = Turn(ts, OpsOf(rule), turn[k - 1], rest)
  BY <1>1, ChainDef
<1>3. \A a \in i + 1 .. Len(ts) + 1 : rest[a] = Result(ts, a, Under(rule))
  BY DEF Rest
<1> HIDE DEF turn, rest
<1>4. 0 \in Done
  BY <1>2, SoundAbove
<1>5. ASSUME NEW k \in Nat, k \in Done PROVE k + 1 \in Done
  <2> SUFFICES ASSUME k + 1 <= Len(ts) PROVE Sound(ts, i, rule, turn[k + 1])
    OBVIOUS
  <2> DEFINE acc == turn[k]
             right == rest[acc.next + 1]
  <2>1. Sound(ts, i, rule, acc)
    BY <1>1, <1>5
  <2>2. turn[k + 1] = Turn(ts, OpsOf(rule), acc, rest)
    <3>1. k + 1 \in 1 .. Len(ts) /\ (k + 1) - 1 = k
      BY <1>1
    <3> QED BY <1>2, <3>1
  <2> HIDE DEF acc
  <2>3. CASE ~acc.ok \/ ~At(ts, acc.next, OpsOf(rule))
    BY <2>1, <2>2, <2>3 DEF Turn
  <2>4. CASE acc.ok /\ At(ts, acc.next, OpsOf(rule)) /\ ~right.ok
    <3>1. turn[k + 1] = Failure
      BY <2>2, <2>4 DEF Turn
    <3> QED BY <3>1 DEF Sound
  <2>5. CASE acc.ok /\ At(ts, acc.next, OpsOf(rule)) /\ right.ok
    <3>1. acc # Failure
      BY <2>5 DEF Failure
    <3>2. PICK l, a : /\ acc = Parsed(l, a) /\ a \in i + 1 .. Len(ts) + 1 /\ l \in Trees[a - i]
                      /\ Clean(l) => Says(ts, i, a - 1, rule, l)
      BY <2>1, <3>1 DEF Sound
    <3>3. acc.node = l /\ acc.next = a
      BY <3>2, ParsedParts
    <3>4. a <= Len(ts) /\ ts[a] \in OpsOf(rule)
      BY <2>5, <3>3 DEF At
    <3>5. a \in i + 1 .. Len(ts) /\ a + 1 \in i + 1 .. Len(ts) + 1 /\ i \in 1 .. Len(ts)
      BY <1>1, <3>2, <3>4
    <3>6. right = Result(ts, a + 1, Under(rule)) /\ Sound(ts, a + 1, Under(rule), right)
      BY <1>3, <3>3, <3>5
    <3> HIDE DEF right
    <3>7. right # Failure
      BY <2>5 DEF Failure
    <3>8. PICK r, b : /\ right = Parsed(r, b) /\ b \in a + 1 + 1 .. Len(ts) + 1
                      /\ r \in Trees[b - (a + 1)]
                      /\ Clean(r) => Says(ts, a + 1, b - 1, Under(rule), r)
      BY <3>6, <3>7 DEF Sound
    <3>9. b \in a + 2 .. Len(ts) + 1
      BY <1>1, <3>5, <3>8
    <3>10. Halves(ts, i, a, b, rule, l, r)
      BY <3>2, <3>4, <3>5, <3>8, <3>9 DEF Halves
    <3>11. turn[k + 1] = Parsed(Node(ts[a], l, right.node), right.next)
      BY <2>2, <2>5, <3>3 DEF Turn, right
    <3>12. turn[k + 1] = Parsed(Node(ts[a], l, r), b)
      BY <3>8, <3>11, ParsedParts
    <3> QED BY <3>10, <3>12, SoundJoin
  <2> QED BY <2>3, <2>4, <2>5
<1>6. Len(ts) \in Done
  <2> HIDE DEF Done
  <2> QED BY <1>1, <1>4, <1>5, EveryNat
<1> QED BY <1>1, <1>2, <1>6

\* From the last token to the first, every result of every rule is sound.
LEMMA SoundAll ==
    ASSUME NEW ts, Readable(ts)
    PROVE  \A i \in 1 .. Len(ts) + 1, rule \in Rules : Sound(ts, i, rule, Result(ts, i, rule))
<1> DEFINE Done == {m \in Nat : \A i \in 1 .. Len(ts) + 1, rule \in Rules :
                                   i + m > Len(ts) + 1 => Sound(ts, i, rule, Result(ts, i, rule))}
<1>0. Len(ts) \in Nat
  BY ReadableTokens
<1>1. 0 \in Done
  BY <1>0
<1>2. ASSUME NEW m \in Nat, m \in Done PROVE m + 1 \in Done
  <2> SUFFICES ASSUME NEW i \in 1 .. Len(ts) + 1, i + (m + 1) > Len(ts) + 1
               PROVE  \A rule \in Rules : Sound(ts, i, rule, Result(ts, i, rule))
    OBVIOUS
  <2>1. \A a \in i + 1 .. Len(ts) + 1 : \A rule \in Rules : Sound(ts, a, rule, Result(ts, a, rule))
    <3>1. \A a \in i + 1 .. Len(ts) + 1 : a \in 1 .. Len(ts) + 1 /\ a + m > Len(ts) + 1
      BY <1>0
    <3> QED BY <1>2, <3>1
  <2>2. "factor" \in Rules /\ "term" \in Rules /\ "expr" \in Rules
    BY DEF Rules
  <2>3. Sound(ts, i, "factor", Result(ts, i, "factor"))
    BY <2>1, <2>2, SoundFactor
  <2>4. Sound(ts, i, "term", Result(ts, i, "term"))
    <3>1. "term" \in Chains /\ Under("term") = "factor"
      BY DEF Chains, Under
    <3>2. /\ Sound(ts, i, Under("term"), Result(ts, i, Under("term")))
          /\ \A a \in i + 1 .. Len(ts) + 1 :
                Sound(ts, a, Under("term"), Result(ts, a, Under("term")))
      BY <2>1, <2>2, <2>3, <3>1
    <3> QED BY <3>1, <3>2, SoundChain
  <2>5. Sound(ts, i, "expr", Result(ts, i, "expr"))
    <3>1. "expr" \in Chains /\ Under("expr") = "term"
      BY DEF Chains, Under
    <3>2. /\ Sound(ts, i, Under("expr"), Result(ts, i, Under("expr")))
          /\ \A a \in i + 1 .. Len(ts) + 1 :
                Sound(ts, a, Under("expr"), Result(ts, a, Under("expr")))
      BY <2>1, <2>2, <2>4, <3>1
    <3> QED BY <3>1, <3>2, SoundChain
  <2> QED BY <2>3, <2>4, <2>5 DEF Rules
<1>3. Len(ts) + 1 \in Done
  <2>1. Nat \subseteq Done
    <3> HIDE DEF Done
    <3> QED BY <1>1, <1>2, EveryNat
  <2>2. Len(ts) + 1 \in Nat
    BY <1>0
  <2> HIDE DEF Done
  <2> QED BY <2>1, <2>2
<1>4. \A i \in 1 .. Len(ts) + 1 : i + (Len(ts) + 1) > Len(ts) + 1
  BY <1>0
<1> QED BY <1>3, <1>4

\* What the parser accepts is a tree no deeper than the formula is long; if no
\* operator or parenthesis is a name in it, it is what the formula means.
THEOREM FormulaSound ==
    ASSUME NEW ts \in Seq(Words), Len(ts) <= MaxTokens, ParseFormula(ts).ok
    PROVE  LET node == ParseFormula(ts).node
           IN node \in Nodes /\ (Clean(node) => Tree(ts) = node /\ Tree(ts) # IllFormed)
<1> DEFINE p == Parses(ts)[<<1, "expr">>]
<1>1. BadToken \notin ToSet(ts) /\ p.ok /\ p.next = Len(ts) + 1 /\ ParseFormula(ts) = p
  <2>1. ParseFormula(ts) =
          IF BadToken \notin ToSet(ts) /\ p.ok /\ p.next = Len(ts) + 1 THEN p ELSE Failure
    BY DEF ParseFormula, Whole
  <2>2. ~Failure.ok
    BY DEF Failure
  <2> HIDE DEF p
  <2> QED BY <2>1, <2>2
<1>2. Readable(ts)
  BY <1>1 DEF Readable
<1>3. /\ Len(ts) \in Nat /\ MaxTokens \in Nat /\ 1 \in 1 .. Len(ts) + 1 /\ (Len(ts) + 1) - 1 = Len(ts)
      /\ Len(ts) <= MaxTokens
  BY <1>2, ReadableTokens
<1>4. Sound(ts, 1, "expr", p)
  <2>1. "expr" \in Rules
    BY DEF Rules
  <2> QED BY <1>2, <1>3, <2>1, SoundAll DEF Result
<1> HIDE DEF p
<1>5. p # Failure
  BY <1>1 DEF Failure
<1>6. PICK x, next : /\ p = Parsed(x, next)
                     /\ x \in Trees[next - 1]
                     /\ Clean(x) => Says(ts, 1, next - 1, "expr", x)
  BY <1>4, <1>5 DEF Sound
<1>7. p.node = x /\ next = Len(ts) + 1
  BY <1>1, <1>6, ParsedParts
<1>8. x \in Nodes
  BY <1>3, <1>6, <1>7, HeightBounds
<1>9. ASSUME Clean(x) PROVE Tree(ts) = x
  BY <1>3, <1>6, <1>7, <1>9 DEF Says, Tree
<1> QED BY <1>1, <1>7, <1>8, <1>9, IllFormedNode
=============================================================================
