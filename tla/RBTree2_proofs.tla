--------------------------- MODULE RBTree2_proofs ---------------------------
(***************************************************************************)
(* The theorems about RBTrees for a program that is linked with either     *)
(* file: what RBTree_proofs and RedBlack_proofs show of rbtree.c holds of  *)
(* rbtree2.c, too, for every finite set of nodes and every choice of keys. *)
(* The erasure of rbtree2.c moves its key down to a leaf; in between the   *)
(* tree is not in order.  The invariant says that there is a key with      *)
(* which it would be, and speaks of the tree that has that key and in      *)
(* which the leaf does not count: every turn and paint of the tree is one  *)
(* of this hidden tree, so that the lemmas about rbtree.c apply to it.     *)
(***************************************************************************)
EXTENDS RedBlack_proofs

-----------------------------------------------------------------------------
(* The recursive functions of rbtree2.c.                                   *)
\* What in_order makes of the child of m on side d, and of m, with f for its calls.
ArmOf(f, d, m) == IF t.child[d][m] = nil THEN <<>> ELSE f[t.child[d][m]]
InOf(f, m) == ArmOf(f, "left", m) \o <<m>> \o ArmOf(f, "right", m)

LEMMA InDefined ==
    ASSUME t \in Tree, NEW rank, NEW N, Ranked(rank, N)
    PROVE  in_order = [m \in Node |-> InOf(in_order, m)]
  <1> DEFINE Solves(f, k) == /\ f \in [Node -> Seq(Node)]
                             /\ \A m \in Node : rank[m] < k => f[m] = InOf(f, m)
  <1>1. /\ N \in Nat /\ \A x \in Address : rank[x] \in Nat /\ rank[x] <= N
        /\ \A x \in Address : x # nil => x \in Node
        /\ \A x \in Address, d \in Side : t.child[d][x] \in Address
        /\ "left" \in Side /\ "right" \in Side
    BY DEF Ranked, Address, Tree, Side
  <1>2. \A k \in Nat : \E f : Solves(f, k)
    <2> DEFINE Bad == {k \in Nat : ~ \E f : Solves(f, k)}
    <2>1. SUFFICES Bad = {}
      OBVIOUS
    <2>2. SUFFICES ASSUME Bad # {} PROVE FALSE
      OBVIOUS
    <2>3. PICK k \in Bad : \A j \in Bad : k <= j
      <3>1. Bad \in SUBSET Nat
        OBVIOUS
      <3> HIDE DEF Bad
      <3> QED
        BY <2>2, <3>1, Least
    <2>4. k # 0
      <3>1. Solves([m \in Node |-> <<>>], 0)
        BY <1>1 DEF Address
      <3> HIDE DEF Solves
      <3> QED
        BY <3>1
    <2>5. k - 1 \in Nat /\ k - 1 \notin Bad
      <3>1. k \in Nat
        BY <2>3
      <3>2. k - 1 \in Nat /\ ~(k <= k - 1)
        BY <2>4, <3>1
      <3> HIDE DEF Bad
      <3> QED
        BY <2>3, <3>2
    <2>6. PICK f : Solves(f, k - 1)
      <3> HIDE DEF Solves
      <3> QED
        BY <2>5
    <2> DEFINE g == [m \in Node |-> InOf(f, m)]
    <2>7. g \in [Node -> Seq(Node)]
      <3> SUFFICES ASSUME NEW m \in Node PROVE InOf(f, m) \in Seq(Node)
        OBVIOUS
      <3>1. \A d \in Side : t.child[d][m] # nil => f[t.child[d][m]] \in Seq(Node)
        BY <1>1, <2>6 DEF Address
      <3>2. /\ ArmOf(f, "left", m) \in Seq(Node) /\ ArmOf(f, "right", m) \in Seq(Node)
            /\ <<m>> \in Seq(Node)
        BY <1>1, <3>1 DEF ArmOf
      <3> QED
        BY <3>2 DEF InOf
    <2>8. ASSUME NEW m \in Node, rank[m] < k
          PROVE  g[m] = InOf(g, m)
      <3>1. ASSUME NEW d \in Side, t.child[d][m] # nil
            PROVE  g[t.child[d][m]] = f[t.child[d][m]]
        <4>1. t.child[d][m] \in Node /\ rank[t.child[d][m]] < rank[m]
          BY <1>1, <3>1 DEF Ranked, Address
        <4>2. rank[t.child[d][m]] \in Int /\ rank[m] \in Int /\ k \in Int
          BY <1>1, <2>3, <4>1 DEF Address
        <4>3. rank[t.child[d][m]] < k - 1
          BY <2>8, <4>1, <4>2
        <4> QED
          BY <2>6, <4>1, <4>3
      <3>2. g[m] = InOf(f, m)
        OBVIOUS
      <3> HIDE DEF g
      <3>3. ArmOf(g, "left", m) = ArmOf(f, "left", m) /\ ArmOf(g, "right", m) = ArmOf(f, "right", m)
        BY <1>1, <3>1 DEF ArmOf
      <3> QED
        BY <3>2, <3>3 DEF InOf
    <2>9. Solves(g, k)
      <3> HIDE DEF g
      <3> QED
        BY <2>7, <2>8
    <2> HIDE DEF Solves
    <2> QED
      BY <2>3, <2>9
  <1>3. PICK f : Solves(f, N + 1)
    <2>1. N + 1 \in Nat
      BY <1>1
    <2> HIDE DEF Solves
    <2> QED
      BY <1>2, <2>1
  <1>4. f = [m \in Node |-> InOf(f, m)]
    BY <1>1, <1>3 DEF Address
  <1>5. in_order = CHOOSE g : g = [m \in Node |-> InOf(g, m)]
    BY DEF in_order, InOf, ArmOf
  <1> HIDE DEF Solves
  <1>6. \E g : g = [m \in Node |-> InOf(g, m)]
    BY <1>4
  <1> QED
    BY <1>5, <1>6

\* A node has two subtrees below it, apart from one another.
LEMMA BelowBoth ==
    ASSUME NEW s \in Tree, NEW S, NEW under, Shape(s, S, under), NEW m \in S,
           NEW l, l = s.child["left"][m], NEW r, r = s.child["right"][m]
    PROVE  /\ under[m] = {m} \cup under[l] \cup under[r] /\ under[l] \cap under[r] = {}
           /\ m \notin under[l] /\ m \notin under[r]
  <1>1. "left" \in Side /\ "right" \in Side /\ Other("left") = "right" /\ Other("right") = "left"
    BY DEF Side, Other
  <1>2. /\ under[m] = {m} \cup under[l] \cup under[r] /\ under[l] \cap under[r] = {}
        /\ m \notin under[l]
    BY <1>1, Below
  <1>3. m \notin under[r]
    BY <1>1, Below
  <1> QED
    BY <1>2, <1>3

\* The nodes of a tree from left to right, where f gives the keys.
LEMMA InLists ==
    ASSUME NEW under, t \in Tree, Shape(t, Linked, under), NEW rank, NEW N, Ranked(rank, N),
           NEW f \in [Address -> Int],
           \A n, x \in Linked, d \in Side : x \in under[t.child[d][n]] => Before(d, f[x], f[n])
    PROVE  \A m \in Linked : Lists(in_order[m], under[m]) /\ Rising(f, in_order[m])
  <1>1. /\ N \in Nat /\ \A x \in Address : rank[x] \in Nat
        /\ Linked \subseteq Node /\ Linked \subseteq Address /\ nil \notin Linked /\ nil \in Address
        /\ under[nil] = {} /\ \A n \in Linked : under[n] \subseteq Linked
    <2>1. N \in Nat /\ \A x \in Address : rank[x] \in Nat
      BY DEF Ranked
    <2>2. /\ Linked \subseteq Node /\ Linked \subseteq Address /\ nil \notin Linked /\ nil \in Address
          /\ under[nil] = {} /\ \A n \in Linked : under[n] \subseteq Linked
      BY Inside DEF Shape, Rooted
    <2> QED
      BY <2>1, <2>2
  <1>2. \A m \in Node : in_order[m] = InOf(in_order, m)
    <2>1. in_order = [m \in Node |-> InOf(in_order, m)]
      BY InDefined
    <2> QED
      BY <2>1
  <1> DEFINE Fine(m) == Lists(in_order[m], under[m]) /\ Rising(f, in_order[m])
             Bad == {k \in Nat : \E m \in Linked : rank[m] = k /\ ~Fine(m)}
  <1>3. SUFFICES ASSUME Bad # {} PROVE FALSE
    BY <1>1
  <1>4. PICK k \in Bad : \A j \in Bad : k <= j
    <2>1. Bad \in SUBSET Nat
      OBVIOUS
    <2> HIDE DEF Bad
    <2> QED
      BY <1>3, <2>1, Least
  <1>5. PICK m \in Linked : rank[m] = k /\ ~Fine(m)
    BY <1>4
  <1>6. ASSUME NEW d \in Side
        PROVE  /\ Lists(ArmOf(in_order, d, m), under[t.child[d][m]])
               /\ Rising(f, ArmOf(in_order, d, m))
    <2>1. t.child[d][m] \in Linked \cup {nil}
      BY DEF Shape, Parted
    <2>2. CASE t.child[d][m] = nil
      BY <1>1, <2>2, ListEmpty DEF ArmOf
    <2>3. CASE t.child[d][m] # nil
      <3>1. rank[t.child[d][m]] < k /\ rank[t.child[d][m]] \in Nat /\ k \in Nat
        BY <1>1, <1>5, <2>1, <2>3 DEF Ranked
      <3>2. ~(k <= rank[t.child[d][m]])
        BY <3>1
      <3>3. rank[t.child[d][m]] \notin Bad
        <4> HIDE DEF Bad
        <4> QED
          BY <1>4, <3>2
      <3>4. Fine(t.child[d][m])
        BY <2>1, <2>3, <3>1, <3>3
      <3> QED
        BY <2>3, <3>4 DEF ArmOf
    <2> QED
      BY <2>2, <2>3
  <1>7. PICK a, b, A, B : /\ a = ArmOf(in_order, "left", m) /\ b = ArmOf(in_order, "right", m)
                          /\ A = under[t.child["left"][m]] /\ B = under[t.child["right"][m]]
    OBVIOUS
  <1>8. Lists(a, A) /\ Lists(b, B) /\ Rising(f, a) /\ Rising(f, b)
    BY <1>6, <1>7 DEF Side
  <1>9. "left" \in Side /\ "right" \in Side /\ Other("left") = "right" /\ Other("right") = "left"
    BY DEF Side, Other
  <1>10. /\ under[m] = {m} \cup A \cup B /\ A \cap B = {} /\ m \notin A /\ m \notin B
         /\ A \subseteq Linked /\ B \subseteq Linked
    <2>1. /\ under[m] = {m} \cup A \cup B /\ A \cap B = {} /\ m \notin A /\ m \notin B
      <3>1. PICK l, r : l = t.child["left"][m] /\ r = t.child["right"][m]
        OBVIOUS
      <3>2. /\ under[m] = {m} \cup under[l] \cup under[r] /\ under[l] \cap under[r] = {}
            /\ m \notin under[l] /\ m \notin under[r]
        BY <3>1, BelowBoth
      <3> QED
        BY <1>7, <3>1, <3>2
    <2>2. t.child["left"][m] \in Linked \cup {nil} /\ t.child["right"][m] \in Linked \cup {nil}
      BY <1>9 DEF Shape, Parted
    <2> QED
      BY <1>1, <1>7, <2>1, <2>2
  <1>11. /\ \A x \in A : f[x] <= f[m]
         /\ \A x \in B : f[m] <= f[x]
    <2>1. \A x \in A : Before("left", f[x], f[m])
      BY <1>7, <1>9, <1>10
    <2>2. \A x \in B : Before("right", f[x], f[m])
      BY <1>7, <1>9, <1>10
    <2> QED
      BY <2>1, <2>2 DEF Before
  <1>12. \A x \in Linked : f[x] \in Int
    BY <1>1
  <1>13. Lists(<<m>>, {m}) /\ Rising(f, <<m>>)
    BY <1>1, ListOne
  <1>14. Lists(a \o <<m>>, A \cup {m}) /\ Rising(f, a \o <<m>>)
    <2>1. A \cap {m} = {}
      BY <1>10
    <2> QED
      BY <1>8, <1>11, <1>13, <2>1, ListJoin, RisingJoin
  <1>15. Lists((a \o <<m>>) \o b, (A \cup {m}) \cup B) /\ Rising(f, (a \o <<m>>) \o b)
    <2>1. (A \cup {m}) \cap B = {}
      BY <1>10
    <2>2. \A x \in A \cup {m}, y \in B : f[x] <= f[y]
      <3> SUFFICES ASSUME NEW x \in A \cup {m}, NEW y \in B PROVE f[x] <= f[y]
        OBVIOUS
      <3>1. f[x] \in Int /\ f[y] \in Int /\ f[m] \in Int
        BY <1>10, <1>12
      <3>2. f[x] <= f[m] /\ f[m] <= f[y]
        BY <1>11, <3>1
      <3> QED
        BY <3>1, <3>2
    <2> QED
      BY <1>8, <1>14, <2>1, <2>2, ListJoin, RisingJoin
  <1>16. in_order[m] = (a \o <<m>>) \o b
    BY <1>1, <1>2, <1>7 DEF InOf
  <1>17. (A \cup {m}) \cup B = under[m]
    BY <1>10
  <1> QED
    BY <1>5, <1>15, <1>16, <1>17

SubOf(f, m) == ArmOf(f, "left", m) \o ArmOf(f, "right", m) \o <<m>>

\* delete_subtree frees the nodes in the order of the other file.
LEMMA SubtreeIsDfs ==
    ASSUME t \in Tree, NEW rank, NEW N, Ranked(rank, N)
    PROVE  \A m \in Node : delete_subtree[m] = delete_dfs[m]
  <1>1. /\ \A x \in Address : rank[x] \in Nat
        /\ \A x \in Node : x \in Address /\ x # nil
        /\ \A x \in Node, d \in Side : t.child[d][x] \in Address
        /\ nil \in Address /\ "left" \in Side /\ "right" \in Side
        /\ \A x \in Address : x # nil => x \in Node
    BY KeyAssumption DEF Ranked, Address, Tree, Side
  <1>2. \A m \in Address : delete_dfs[m] = DfsOf(delete_dfs, m)
    <2>1. delete_dfs = [m \in Address |-> DfsOf(delete_dfs, m)]
      BY DfsDefined
    <2> QED
      BY <2>1
  <1>3. delete_dfs[nil] = <<>>
    BY <1>1, <1>2 DEF DfsOf
  <1>4. delete_subtree = CHOOSE g : g = [m \in Node |-> SubOf(g, m)]
    BY DEF delete_subtree, SubOf, ArmOf
  <1> DEFINE f == [m \in Node |-> delete_dfs[m]]
  <1>5. f = [m \in Node |-> SubOf(f, m)]
    <2> SUFFICES ASSUME NEW m \in Node PROVE f[m] = SubOf(f, m)
      OBVIOUS
    <2>1. ASSUME NEW d \in Side PROVE ArmOf(f, d, m) = delete_dfs[t.child[d][m]]
      BY <1>1, <1>3 DEF ArmOf
    <2>2. f[m] = DfsOf(delete_dfs, m)
      BY <1>1, <1>2
    <2> HIDE DEF f
    <2> QED
      BY <1>1, <2>1, <2>2 DEF DfsOf, SubOf
  <1>6. delete_subtree = [m \in Node |-> SubOf(delete_subtree, m)]
    <2> HIDE DEF f
    <2>1. \E g : g = [m \in Node |-> SubOf(g, m)]
      BY <1>5
    <2> QED
      BY <1>4, <2>1
  <1>7. \A m \in Node : delete_subtree[m] = SubOf(delete_subtree, m)
    BY <1>6
  <1> HIDE DEF f
  <1> DEFINE Bad == {k \in Nat : \E m \in Node : rank[m] = k /\ delete_subtree[m] # delete_dfs[m]}
  <1>8. SUFFICES ASSUME Bad # {} PROVE FALSE
    BY <1>1
  <1>9. PICK k \in Bad : \A j \in Bad : k <= j
    <2>1. Bad \in SUBSET Nat
      OBVIOUS
    <2> HIDE DEF Bad
    <2> QED
      BY <1>8, <2>1, Least
  <1>10. PICK m \in Node : rank[m] = k /\ delete_subtree[m] # delete_dfs[m]
    BY <1>9
  <1>11. ASSUME NEW d \in Side
         PROVE  ArmOf(delete_subtree, d, m) = delete_dfs[t.child[d][m]]
    <2>1. CASE t.child[d][m] = nil
      BY <1>3, <2>1 DEF ArmOf
    <2>2. CASE t.child[d][m] # nil
      <3>1. t.child[d][m] \in Node /\ rank[t.child[d][m]] \in Nat /\ k \in Nat
        BY <1>1, <1>10, <2>2
      <3>2. rank[t.child[d][m]] < k
        BY <1>10 DEF Ranked
      <3>3. ~(k <= rank[t.child[d][m]])
        BY <3>1, <3>2
      <3>4. rank[t.child[d][m]] \notin Bad
        <4> HIDE DEF Bad
        <4> QED
          BY <1>9, <3>3
      <3> QED
        BY <2>2, <3>1, <3>4 DEF ArmOf
    <2> QED
      BY <2>1, <2>2
  <1>12. delete_subtree[m] = delete_dfs[m]
    <2>1. delete_dfs[m] = DfsOf(delete_dfs, m) /\ m # nil
      BY <1>1, <1>2
    <2> QED
      BY <1>1, <1>7, <1>11, <2>1 DEF DfsOf, SubOf
  <1> QED
    BY <1>10, <1>12

LeftOf(f, m) == IF t.child["left"][m] = nil THEN m ELSE f[t.child["left"][m]]

LEMMA LeftDefined ==
    ASSUME t \in Tree, NEW rank, NEW N, Ranked(rank, N)
    PROVE  Leftmost = [m \in Node |-> LeftOf(Leftmost, m)]
  <1> DEFINE Solves(f, k) == /\ f \in [Node -> Node]
                             /\ \A m \in Node : rank[m] < k => f[m] = LeftOf(f, m)
  <1>1. /\ N \in Nat /\ \A x \in Address : rank[x] \in Nat /\ rank[x] <= N
        /\ \A x \in Address : x # nil => x \in Node
        /\ \A x \in Address, d \in Side : t.child[d][x] \in Address
        /\ "left" \in Side /\ "right" \in Side
    BY DEF Ranked, Address, Tree, Side
  <1>2. \A k \in Nat : \E f : Solves(f, k)
    <2> DEFINE Bad == {k \in Nat : ~ \E f : Solves(f, k)}
    <2>1. SUFFICES Bad = {}
      OBVIOUS
    <2>2. SUFFICES ASSUME Bad # {} PROVE FALSE
      OBVIOUS
    <2>3. PICK k \in Bad : \A j \in Bad : k <= j
      <3>1. Bad \in SUBSET Nat
        OBVIOUS
      <3> HIDE DEF Bad
      <3> QED
        BY <2>2, <3>1, Least
    <2>4. k # 0
      <3>1. Solves([m \in Node |-> m], 0)
        BY <1>1 DEF Address
      <3> HIDE DEF Solves
      <3> QED
        BY <3>1
    <2>5. k - 1 \in Nat /\ k - 1 \notin Bad
      <3>1. k \in Nat
        BY <2>3
      <3>2. k - 1 \in Nat /\ ~(k <= k - 1)
        BY <2>4, <3>1
      <3> HIDE DEF Bad
      <3> QED
        BY <2>3, <3>2
    <2>6. PICK f : Solves(f, k - 1)
      <3> HIDE DEF Solves
      <3> QED
        BY <2>5
    <2> DEFINE g == [m \in Node |-> LeftOf(f, m)]
    <2>7. g \in [Node -> Node]
      <3> SUFFICES ASSUME NEW m \in Node PROVE LeftOf(f, m) \in Node
        OBVIOUS
      <3>1. t.child["left"][m] # nil => f[t.child["left"][m]] \in Node
        BY <1>1, <2>6 DEF Address
      <3> QED
        BY <3>1 DEF LeftOf
    <2>8. ASSUME NEW m \in Node, rank[m] < k
          PROVE  g[m] = LeftOf(g, m)
      <3>1. ASSUME NEW d \in Side, t.child[d][m] # nil
            PROVE  g[t.child[d][m]] = f[t.child[d][m]]
        <4>1. t.child[d][m] \in Node /\ rank[t.child[d][m]] < rank[m]
          BY <1>1, <3>1 DEF Ranked, Address
        <4>2. rank[t.child[d][m]] \in Int /\ rank[m] \in Int /\ k \in Int
          BY <1>1, <2>3, <4>1 DEF Address
        <4>3. rank[t.child[d][m]] < k - 1
          BY <2>8, <4>1, <4>2
        <4> QED
          BY <2>6, <4>1, <4>3
      <3>2. g[m] = LeftOf(f, m)
        OBVIOUS
      <3> HIDE DEF g
      <3> QED
        BY <1>1, <3>1, <3>2 DEF LeftOf
    <2>9. Solves(g, k)
      <3> HIDE DEF g
      <3> QED
        BY <2>7, <2>8
    <2> HIDE DEF Solves
    <2> QED
      BY <2>3, <2>9
  <1>3. PICK f : Solves(f, N + 1)
    <2>1. N + 1 \in Nat
      BY <1>1
    <2> HIDE DEF Solves
    <2> QED
      BY <1>2, <2>1
  <1>4. f = [m \in Node |-> LeftOf(f, m)]
    BY <1>1, <1>3 DEF Address
  <1>5. Leftmost = CHOOSE g : g = [m \in Node |-> LeftOf(g, m)]
    BY DEF Leftmost, LeftOf
  <1> HIDE DEF Solves
  <1>6. \E g : g = [m \in Node |-> LeftOf(g, m)]
    BY <1>4
  <1> QED
    BY <1>5, <1>6

\* Leftmost finds the node with the least key, which has no left child.
LEMMA LeftmostIs ==
    ASSUME NEW under, t \in Tree, Shape(t, Linked, under), NEW rank, NEW N, Ranked(rank, N),
           NEW f \in [Address -> Int],
           \A n, x \in Linked, d \in Side : x \in under[t.child[d][n]] => Before(d, f[x], f[n])
    PROVE  \A m \in Linked : /\ Leftmost[m] \in under[m] /\ t.child["left"][Leftmost[m]] = nil
                              /\ \A x \in under[m] : f[Leftmost[m]] <= f[x]
  <1>1. /\ N \in Nat /\ \A x \in Address : rank[x] \in Nat
        /\ Linked \subseteq Node /\ Linked \subseteq Address /\ nil \notin Linked /\ nil \in Address
        /\ under[nil] = {} /\ \A n \in Linked : n \in under[n] /\ under[n] \subseteq Linked
    <2>1. N \in Nat /\ \A x \in Address : rank[x] \in Nat
      BY DEF Ranked
    <2>2. /\ Linked \subseteq Node /\ Linked \subseteq Address /\ nil \notin Linked /\ nil \in Address
          /\ under[nil] = {} /\ \A n \in Linked : n \in under[n] /\ under[n] \subseteq Linked
      BY Inside DEF Shape, Rooted
    <2> QED
      BY <2>1, <2>2
  <1>2. \A m \in Node : Leftmost[m] = LeftOf(Leftmost, m)
    <2>1. Leftmost = [m \in Node |-> LeftOf(Leftmost, m)]
      BY LeftDefined
    <2> QED
      BY <2>1
  <1> DEFINE Fine(m) == /\ Leftmost[m] \in under[m] /\ t.child["left"][Leftmost[m]] = nil
                        /\ \A x \in under[m] : f[Leftmost[m]] <= f[x]
             Bad == {k \in Nat : \E m \in Linked : rank[m] = k /\ ~Fine(m)}
  <1>3. SUFFICES ASSUME Bad # {} PROVE FALSE
    BY <1>1
  <1>4. PICK k \in Bad : \A j \in Bad : k <= j
    <2>1. Bad \in SUBSET Nat
      OBVIOUS
    <2> HIDE DEF Bad
    <2> QED
      BY <1>3, <2>1, Least
  <1>5. PICK m \in Linked : rank[m] = k /\ ~Fine(m)
    BY <1>4
  <1>6. PICK l, r : l = t.child["left"][m] /\ r = t.child["right"][m]
    OBVIOUS
  <1>7. "left" \in Side /\ "right" \in Side /\ Other("left") = "right" /\ Other("right") = "left"
    BY DEF Side, Other
  <1>8. /\ under[m] = {m} \cup under[l] \cup under[r] /\ under[l] \subseteq Linked
        /\ under[r] \subseteq Linked /\ l \in Linked \cup {nil} /\ r \in Linked \cup {nil}
    <2>1. under[m] = {m} \cup under[l] \cup under[r]
      BY <1>6, <1>7 DEF Shape, Parted
    <2>2. l \in Linked \cup {nil} /\ r \in Linked \cup {nil}
      BY <1>6, <1>7 DEF Shape, Parted
    <2> QED
      BY <1>1, <2>1, <2>2
  <1>9. /\ \A x \in under[l] : f[x] <= f[m]
        /\ \A x \in under[r] : f[m] <= f[x]
    <2>1. \A x \in under[l] : Before("left", f[x], f[m])
      BY <1>6, <1>7, <1>8
    <2>2. \A x \in under[r] : Before("right", f[x], f[m])
      BY <1>6, <1>7, <1>8
    <2> QED
      BY <2>1, <2>2 DEF Before
  <1>10. \A x \in Linked : f[x] \in Int
    BY <1>1
  <1>11. CASE l = nil
    <2>1. Leftmost[m] = m
      BY <1>1, <1>2, <1>6, <1>11 DEF LeftOf
    <2>2. \A x \in under[m] : f[m] <= f[x]
      BY <1>1, <1>8, <1>9, <1>10, <1>11
    <2> QED
      BY <1>1, <1>5, <1>6, <1>11, <2>1, <2>2
  <1>12. CASE l # nil
    <2>1. Leftmost[m] = Leftmost[l] /\ l \in Linked
      BY <1>1, <1>2, <1>6, <1>8, <1>12 DEF LeftOf
    <2>2. rank[l] < k /\ rank[l] \in Nat /\ k \in Nat
      BY <1>1, <1>5, <1>6, <1>7, <2>1 DEF Ranked
    <2>3. ~(k <= rank[l])
      BY <2>2
    <2>4. rank[l] \notin Bad
      <3> HIDE DEF Bad
      <3> QED
        BY <1>4, <2>3
    <2>5. Fine(l)
      BY <2>1, <2>2, <2>4
    <2>6. PICK w : w = Leftmost[l]
      OBVIOUS
    <2>7. w \in under[l] /\ f[w] \in Int /\ f[m] \in Int /\ f[w] <= f[m]
      BY <1>8, <1>9, <1>10, <2>5, <2>6
    <2>8. ASSUME NEW x \in under[m] PROVE f[w] <= f[x]
      <3>1. CASE x = m
        BY <2>7, <3>1
      <3>2. CASE x \in under[l]
        BY <2>5, <2>6, <3>2
      <3>3. CASE x \in under[r]
        <4>1. f[x] \in Int /\ f[m] <= f[x]
          BY <1>8, <1>9, <1>10, <3>3
        <4> QED
          BY <2>7, <4>1
      <3> QED
        BY <1>8, <3>1, <3>2, <3>3
    <2> QED
      BY <1>5, <1>8, <2>1, <2>5, <2>6, <2>7, <2>8
  <1> QED
    BY <1>11, <1>12

-----------------------------------------------------------------------------
(* Tree s as it would be without the key that rbtree2.c has moved to node  *)
(* v and without the black of v: v has key k, which is in order there, and *)
(* is red, so that it does not count.                                      *)
Hidden(s, v, k) == [s EXCEPT !.key[v] = k, !.color[v] = RED]

IsHidden(s, y, v, k) ==
    /\ y \in Tree /\ Relinked(s, y)
    /\ \A x \in Address : /\ y.key[x] = IF x = v THEN k ELSE s.key[x]
                          /\ y.color[x] = IF x = v THEN RED ELSE s.color[x]

LEMMA HiddenIs ==
    ASSUME NEW s \in Tree, NEW v \in Address, NEW k \in Int
    PROVE  IsHidden(s, Hidden(s, v, k), v, k)
  <1> DEFINE y == Hidden(s, v, k)
  <1>1. /\ y.root = s.root /\ y.parent = s.parent /\ y.child = s.child
        /\ y.key = [s.key EXCEPT ![v] = k] /\ y.color = [s.color EXCEPT ![v] = RED]
    BY DEF Hidden, Tree
  <1>2. y \in Tree
    BY DEF Hidden, Tree
  <1> HIDE DEF y
  <1>3. s.key \in [Address -> Int] /\ s.color \in [Address -> {RED, BLACK}]
    BY DEF Tree
  <1>4. IsHidden(s, y, v, k)
    BY <1>1, <1>2, <1>3 DEF IsHidden, Relinked
  <1> QED
    BY <1>4 DEF y

\* The keys and colors of the hidden tree follow from those of the tree.
LEMMA HiddenSame ==
    ASSUME NEW s \in Tree, NEW z \in Tree, NEW v, NEW k
    PROVE  /\ z.key = s.key => Hidden(z, v, k).key = Hidden(s, v, k).key
           /\ z.color = s.color => Hidden(z, v, k).color = Hidden(s, v, k).color
  BY DEF Hidden, Tree

\* A turn of the tree is one of the hidden tree.
LEMMA HiddenRotated ==
    ASSUME NEW s \in Tree, NEW S, NEW n, NEW d, NEW z, Rotated(s, z, S, n, d),
           NEW v \in Address, NEW k \in Int
    PROVE  Rotated(Hidden(s, v, k), Hidden(z, v, k), S, n, d)
  <1>1. z \in Tree /\ z.key = s.key /\ z.color = s.color
    BY DEF Rotated
  <1>2. PICK y, w : y = Hidden(s, v, k) /\ w = Hidden(z, v, k)
    OBVIOUS
  <1>3. w.key = y.key /\ w.color = y.color
    BY <1>1, <1>2, HiddenSame
  <1>4. w \in Tree /\ Relinked(s, y) /\ Relinked(z, w)
    BY <1>1, <1>2, HiddenIs DEF IsHidden
  <1>5. /\ y.root = s.root /\ y.parent = s.parent /\ y.child = s.child
        /\ w.root = z.root /\ w.parent = z.parent /\ w.child = z.child
    BY <1>4 DEF Relinked
  <1>6. Rotated(y, w, S, n, d)
    BY <1>3, <1>4, <1>5 DEF Rotated
  <1> QED
    BY <1>2, <1>6

\* So are the paints of other nodes.
LEMMA HiddenPaints ==
    ASSUME NEW s \in Tree, NEW z \in Tree, NEW v \in Address, NEW k \in Int
    PROVE  /\ \A n, up \in Address \ {v} :
                 Exchanged(s, z, n, up) => Exchanged(Hidden(s, v, k), Hidden(z, v, k), n, up)
           /\ \A n, up, outer \in Address \ {v} :
                 Lent(s, z, n, up, outer) => Lent(Hidden(s, v, k), Hidden(z, v, k), n, up, outer)
           /\ \A r \in Address \ {v}, c \in {RED, BLACK} :
                 Repainted(s, z, r, c) => Repainted(Hidden(s, v, k), Hidden(z, v, k), r, c)
  <1>1. PICK y, w : y = Hidden(s, v, k) /\ w = Hidden(z, v, k)
    OBVIOUS
  <1>2. IsHidden(s, y, v, k) /\ IsHidden(z, w, v, k)
    BY <1>1, HiddenIs
  <1>3. /\ w \in Tree
        /\ y.root = s.root /\ y.parent = s.parent /\ y.child = s.child
        /\ w.root = z.root /\ w.parent = z.parent /\ w.child = z.child
        /\ \A x \in Address : /\ y.color[x] = IF x = v THEN RED ELSE s.color[x]
                              /\ w.color[x] = IF x = v THEN RED ELSE z.color[x]
    BY <1>2 DEF IsHidden, Relinked
  <1>4. z.key = s.key => w.key = y.key
    BY <1>1, HiddenSame
  <1>5. ASSUME NEW n \in Address \ {v}, NEW up \in Address \ {v}, Exchanged(s, z, n, up)
        PROVE  Exchanged(y, w, n, up)
    BY <1>3, <1>4, <1>5 DEF Exchanged, Relinked
  <1>6. ASSUME NEW n \in Address \ {v}, NEW up \in Address \ {v}, NEW outer \in Address \ {v},
               Lent(s, z, n, up, outer)
        PROVE  Lent(y, w, n, up, outer)
    BY <1>3, <1>4, <1>6 DEF Lent, Relinked
  <1>7. ASSUME NEW r \in Address \ {v}, NEW c \in {RED, BLACK}, Repainted(s, z, r, c)
        PROVE  Repainted(y, w, r, c)
    BY <1>3, <1>7 DEF Repainted, Relinked
  <1> QED
    BY <1>1, <1>5, <1>6, <1>7

\* Node p is free in z.
Blanked(s, z, p) ==
    /\ z \in Tree /\ z.root = s.root
    /\ \A x \in Address \ {p} : /\ z.key[x] = s.key[x] /\ z.color[x] = s.color[x]
                                /\ z.parent[x] = s.parent[x]
    /\ \A x \in Address, d \in Side : z.child[d][x] = IF x = p THEN nil ELSE s.child[d][x]

LEMMA BlankIs ==
    ASSUME NEW s \in Tree, NEW p \in Node
    PROVE  Blanked(s, Blank(s, p), p)
  <1> DEFINE z == Blank(s, p)
  <1>1. p \in Address /\ p # nil /\ nil \in Address /\ BLACK \in {RED, BLACK}
    BY KeyAssumption DEF Address
  <1>2. /\ s.key \in [Address -> Int] /\ s.parent \in [Address -> Address] /\ s.root \in Address
        /\ s.color \in [Address -> {RED, BLACK}] /\ s.child \in [Side -> [Address -> Address]]
    BY DEF Tree
  <1>3. s = [root |-> s.root, key |-> s.key, color |-> s.color, parent |-> s.parent,
             child |-> s.child]
    BY DEF Tree
  <1> DEFINE ke == [s.key EXCEPT ![p] = 0]
             co == [s.color EXCEPT ![p] = BLACK]
             pa == [s.parent EXCEPT ![p] = nil]
             ch == [d \in Side |-> [s.child[d] EXCEPT ![p] = nil]]
  <1>4. z = [s EXCEPT !.key = ke, !.color = co, !.parent = pa, !.child = ch]
    BY DEF Blank
  <1>5. /\ ke \in [Address -> Int] /\ pa \in [Address -> Address]
        /\ co \in [Address -> {RED, BLACK}]
    BY <1>1, <1>2
  <1>6. ch \in [Side -> [Address -> Address]]
    BY <1>1, <1>2
  <1>7. /\ \A x \in Address \ {p} : ke[x] = s.key[x] /\ co[x] = s.color[x] /\ pa[x] = s.parent[x]
        /\ \A x \in Address, d \in Side : ch[d][x] = IF x = p THEN nil ELSE s.child[d][x]
    BY <1>1, <1>2
  <1> HIDE DEF ke, co, pa, ch, z
  <1>8. z \in Tree
    BY <1>2, <1>3, <1>4, <1>5, <1>6 DEF Tree
  <1>9. z.root = s.root /\ z.key = ke /\ z.color = co /\ z.parent = pa /\ z.child = ch
    BY <1>3, <1>4
  <1>10. Blanked(s, z, p)
    BY <1>7, <1>8, <1>9 DEF Blanked
  <1> QED
    BY <1>10 DEF z

\* What has become of the other nodes of s when leaf v is unlinked.
Unlinked(s, u, S, v) ==
    /\ \A x \in (S \ {v}) \cup {nil} : u.key[x] = s.key[x]
    /\ \A d \in Side : u.child[d][v] = nil
    /\ \A x \in Address \ S, d \in Side : u.child[d][x] = s.child[d][x]

SameColors(s, u, S) == \A x \in S \cup {nil} : u.color[x] = s.color[x]

\* The tree after a leaf is unlinked is, but for what a freed node and the
\* sentinel hold, the hidden tree after the leaf is taken out.
LEMMA UnlinkIs ==
    ASSUME NEW s \in Tree, NEW S, NEW under, Shape(s, S, under), NEW v \in S, v # s.root,
           \A d \in Side : s.child[d][v] = nil, NEW k \in Int,
           NEW y, Excised(Hidden(s, v, k), y, S, v, nil)
    PROVE  /\ Unlink(s, v) \in Tree /\ Alike(y, Unlink(s, v), S \ {v})
           /\ SameColors(y, Unlink(s, v), S \ {v}) /\ Unlinked(s, Unlink(s, v), S, v)
  <1>1. /\ nil \notin S /\ S \subseteq Node /\ S \subseteq Address /\ nil \in Address
        /\ v \in Address /\ v \in Node /\ v # nil
    BY Inside
  <1>2. PICK p : p = s.parent[v]
    OBVIOUS
  <1>3. PICK e \in Side : /\ s.child[e][p] = v /\ p \in S /\ p # v
                          /\ Unlink(s, v) = Blank(SetChild(s, e, p, nil), v)
    <2>1. PICK e \in Side : s.child[e][p] = v /\ p \in S /\ p # v
      BY <1>2, SideIs
    <2>2. CASE s.child["right"][p] = v
      <3>1. "right" \in Side
        BY DEF Side
      <3>2. Unlink(s, v) = Blank(SetChild(s, "right", p, nil), v)
        BY <1>2, <2>2 DEF Unlink
      <3> QED
        BY <2>1, <2>2, <3>1, <3>2
    <2>3. CASE s.child["right"][p] # v
      <3>1. e = "left"
        BY <2>1, <2>3 DEF Side
      <3>2. Unlink(s, v) = Blank(SetChild(s, "left", p, nil), v)
        BY <1>2, <2>3 DEF Unlink
      <3> QED
        BY <2>1, <3>1, <3>2
    <2> QED
      BY <2>2, <2>3
  <1>4. PICK a : a = SetChild(s, e, p, nil)
    OBVIOUS
  <1>5. ChildSet(s, a, e, p, nil)
    BY <1>1, <1>3, <1>4, SetChildIs
  <1>6. PICK z : z = Unlink(s, v)
    OBVIOUS
  <1>7. Blanked(a, z, v)
    <2>1. a \in Tree
      BY <1>5 DEF ChildSet
    <2> QED
      BY <1>1, <1>3, <1>4, <1>6, <2>1, BlankIs
  <1>8. PICK g : g = Hidden(s, v, k)
    OBVIOUS
  <1>9. IsHidden(s, g, v, k) /\ Excised(g, y, S, v, nil)
    BY <1>1, <1>8, HiddenIs
  <1>10. /\ g.root = s.root /\ g.parent = s.parent /\ g.child = s.child
         /\ \A x \in Address \ {v} : g.key[x] = s.key[x] /\ g.color[x] = s.color[x]
    BY <1>9 DEF IsHidden, Relinked
  <1>11. /\ y.root = s.root /\ y.key = g.key /\ y.color = g.color
         /\ \A x \in S : y.parent[x] = s.parent[x]
         /\ \A f \in Side, x \in Address :
               y.child[f][x] = IF x \in S /\ s.child[f][x] = v THEN nil ELSE s.child[f][x]
    BY <1>1, <1>9, <1>10 DEF Excised
  <1>12. /\ z \in Tree /\ z.root = s.root
         /\ \A x \in Address \ {v} : /\ z.key[x] = s.key[x] /\ z.color[x] = s.color[x]
                                     /\ z.parent[x] = s.parent[x]
         /\ \A x \in Address, f \in Side :
               z.child[f][x] = IF x = v \/ (f = e /\ x = p) THEN nil ELSE s.child[f][x]
    BY <1>5, <1>7 DEF ChildSet, Blanked
  <1>13. \A x \in S, f \in Side : s.child[f][x] = v => x = p /\ f = e
    <2> SUFFICES ASSUME NEW x \in S, NEW f \in Side, s.child[f][x] = v PROVE x = p /\ f = e
      OBVIOUS
    <2>1. s.parent[v] = x
      BY <1>1 DEF Shape, Parted
    <2> QED
      BY <1>1, <1>2, <1>3, <2>1, OneSide
  <1>14. \A x \in S \ {v}, f \in Side : z.child[f][x] = y.child[f][x]
    BY <1>1, <1>3, <1>11, <1>12, <1>13
  <1>15. \A f \in Side : z.child[f][nil] = y.child[f][nil]
    BY <1>1, <1>3, <1>11, <1>12
  <1>16. \A x \in S \ {v} : z.key[x] = y.key[x] /\ z.parent[x] = y.parent[x]
    BY <1>1, <1>10, <1>11, <1>12
  <1>17. Alike(y, z, S \ {v})
    BY <1>11, <1>12, <1>14, <1>15, <1>16 DEF Alike
  <1>18. \A x \in (S \ {v}) \cup {nil} : z.color[x] = y.color[x] /\ z.key[x] = s.key[x]
    BY <1>1, <1>10, <1>11, <1>12
  <1>19. /\ \A d \in Side : z.child[d][v] = nil
         /\ \A x \in Address \ S, d \in Side : z.child[d][x] = s.child[d][x]
    BY <1>1, <1>3, <1>12
  <1> QED
    BY <1>6, <1>12, <1>17, <1>18, <1>19 DEF SameColors, Unlinked

-----------------------------------------------------------------------------
(* The inductive invariant, for rbtree2.c: one part for each place where a *)
(* call may be.                                                            *)
\* The colors of a red-black tree of the nodes S.
Colored(s, S) ==
    /\ RedBut(s, S, nil) /\ s.color[s.root] = BLACK /\ s.color[nil] = BLACK
    /\ \E h : Balanced(s, S, h, nil, "left")

Typed2 ==
    /\ live \subseteq Node /\ arg \in Int
    /\ node \in Address /\ cur \in Address /\ res \in Address

Childless(s, n) == \A d \in Side : s.child[d][n] = nil

\* Where the two files do the same.
Resting == pc \in {"idle", "left", "right", "deleted"} /\ TreeInv /\ ColorInv

Finding2 ==
    /\ pc = "find2" /\ Colored(t, live)
    /\ cur \in live \cup {nil}
    /\ \E under : /\ Good(t, live, under)
                  /\ \A x \in live : t.key[x] = arg => x \in under[cur]

\* The key of the new node fits wherever the cursor can go.
Sinking ==
    /\ pc = "sink" /\ Colored(t, live \ {node})
    /\ node \in live /\ t.key[node] = arg /\ t.color[node] = RED
    /\ t.parent[node] = nil /\ Childless(t, node)
    /\ cur \in live \ {node}
    /\ \E under : /\ Good(t, live \ {node}, under)
                  /\ \A n \in live \ {node}, d \in Side :
                        cur \in under[t.child[d][n]] => Before(d, arg, t.key[n])

\* A red node has a red parent only at the cursor.
Recoloring ==
    /\ pc = "color_fix" /\ cur \in live
    /\ t.color[cur] = RED \/ cur = t.root
    /\ RedBut(t, live, cur) /\ t.color[t.root] = BLACK /\ t.color[nil] = BLACK
    /\ \E h : Balanced(t, live, h, nil, "left")
    /\ \E under : Good(t, live, under)

\* All keys but the one that goes down are in order.
Swapping ==
    /\ pc = "swap" /\ Colored(t, live)
    /\ cur \in live /\ t.key[cur] = arg /\ t \in Tree
    /\ \E k \in Int : \E under : Good(Hidden(t, cur, k), live, under)

\* Leaf v of tree s is to go, with its black and its key.  The paths through
\* node n, child on side d of p, lack the black that the others have.
Lacking(s, S, under, v, k, n, p, d, h) ==
    /\ s \in Tree /\ k \in Int /\ d \in Side
    /\ v \in S /\ Childless(s, v) /\ s.color[v] = BLACK
    /\ n \in S /\ v \in under[n] /\ s.color[n] = BLACK
    /\ p \in S /\ s.parent[n] = p /\ s.child[d][p] = n
    /\ RedBut(s, S, nil) /\ s.color[s.root] = BLACK /\ s.color[nil] = BLACK
    /\ Good(Hidden(s, v, k), S, under)
    /\ Balanced(Hidden(s, v, k), S, h, p, d)

Leaving ==
    /\ pc = "erase_node" /\ t.key[node] = arg
    /\ \E under, k, d, h : Lacking(t, live, under, node, k, cur, t.parent[cur], d, h)

Tree2Inv ==
    /\ Typed2 /\ Vacant
    /\ Resting \/ Finding2 \/ Sinking \/ Recoloring \/ Swapping \/ Leaving

-----------------------------------------------------------------------------
(* What all the steps need.                                                *)
LEMMA Typed2Is ==
    ASSUME Typed2
    PROVE  /\ live \subseteq Node /\ live \subseteq Address /\ nil \notin live /\ nil \in Address
           /\ arg \in Int /\ node \in Address /\ cur \in Address /\ res \in Address
           /\ nil \notin Node
  BY KeyAssumption DEF Typed2, Address

\* A call is over.
LEMMA Rested ==
    ASSUME Typed2', Vacant', pc' = "idle", NEW under, Good(t', live', under),
           Colored(t', live')
    PROVE  Tree2Inv'
  <1>1. Typed'
    BY DEF Typed, Typed2, Calls
  <1>2. TreeInv'
    BY <1>1, Settled
  <1>3. Linked' = live'
    BY DEF Linked
  <1>4. PICK h : Balanced(t', live', h, nil, "left")
    BY DEF Colored
  <1>5. nil \notin live'
    BY Inside DEF Good
  <1>6. /\ RedBut(t', Linked', nil) /\ t'.color[t'.root] = BLACK /\ t'.color[nil] = BLACK
        /\ Balanced(t', Linked', h, nil, "left") /\ nil \notin Linked'
    BY <1>3, <1>4, <1>5 DEF Colored
  <1>7. pc' \notin {"insert_fixup", "erase_fixup"} /\ pc' # "descend"
    OBVIOUS
  <1>8. ColorInv'
    BY <1>6, <1>7, Calmed
  <1> QED
    BY <1>2, <1>8 DEF Tree2Inv, Resting

\* Between two calls, and in those that leave the tree alone.
LEMMA RestIs ==
    ASSUME Resting
    PROVE  /\ TreeInv /\ ColorInv /\ Linked = live /\ Colored(t, live) /\ Typed2
           /\ \E under : Good(t, live, under) /\ Fits(under)
  <1>1. TreeInv /\ ColorInv /\ pc \in {"idle", "left", "right", "deleted"}
    BY DEF Resting
  <1>2. Linked = live
    BY <1>1 DEF Linked
  <1>3. PICK under : Fits(under)
    BY <1>1 DEF TreeInv
  <1>4. Good(t, live, under)
    BY <1>2, <1>3 DEF Fits
  <1>5. Colored(t, live)
    BY <1>1, <1>2, Calm DEF Colored
  <1>6. Typed2
    BY <1>1 DEF TreeInv, Typed, Typed2
  <1> QED
    BY <1>1, <1>2, <1>3, <1>4, <1>5, <1>6

\* Nothing is left of the tree.
LEMMA BareRests ==
    ASSUME Typed2', Vacant', pc' = "idle", t' \in Tree, live' = {}, t'.root = nil,
           \A d \in Side : t'.child[d][nil] = nil, t'.color[nil] = BLACK
    PROVE  Tree2Inv'
  <1> DEFINE none == [x \in Address |-> {}]
             h == [x \in Address |-> 0]
  <1>1. nil \in Address
    BY DEF Address
  <1>2. none \in [Address -> SUBSET Node] /\ none[nil] = {}
    BY <1>1
  <1>3. h \in [Address -> Nat] /\ h[nil] = 0
    BY <1>1
  <1> HIDE DEF none, h
  <1>4. Shape(t', {}, none)
    BY <1>2 DEF Shape, Rooted, Parted, Hung, Closed
  <1>5. Ordered(t', {}, none)
    BY DEF Ordered
  <1>6. Good(t', live', none)
    BY <1>4, <1>5 DEF Good
  <1>7. Balanced(t', live', h, nil, "left") /\ RedBut(t', live', nil)
    BY <1>3 DEF Balanced, RedBut
  <1>8. Colored(t', live')
    BY <1>7 DEF Colored
  <1> QED
    BY <1>6, <1>8, Rested

\* A tree z, from which leaf v is freed.
Ripe(z, S, v, k, under) ==
    /\ z \in Tree /\ v \in S /\ v # z.root /\ Childless(z, v)
    /\ Good(Hidden(z, v, k), S, under)
    /\ RedBut(z, S, nil) /\ z.color[z.root] = BLACK /\ z.color[nil] = BLACK
    /\ \E h, e : Balanced(Hidden(z, v, k), S, h, nil, e)

LEMMA UnlinkGood ==
    ASSUME NEW z, NEW S, NEW v, NEW k \in Int, NEW under, Ripe(z, S, v, k, under)
    PROVE  /\ Good(Unlink(z, v), S \ {v}, Without(under, v))
           /\ Colored(Unlink(z, v), S \ {v})
           /\ Unlinked(z, Unlink(z, v), S, v)
  <1>1. PICK g : g = Hidden(z, v, k)
    OBVIOUS
  <1>2. Good(g, S, under) /\ z \in Tree /\ v \in S /\ v # z.root /\ Childless(z, v)
    BY <1>1 DEF Ripe
  <1>3. /\ nil \notin S /\ S \subseteq Address /\ nil \in Address /\ S \subseteq Node
        /\ "left" \in Side /\ Other("left") \in Side
    BY <1>2, Inside, Sides DEF Good, Side
  <1>4. IsHidden(z, g, v, k)
    BY <1>1, <1>2, <1>3, HiddenIs
  <1>5. g \in Tree /\ g.root = z.root /\ g.child = z.child /\ g.parent = z.parent /\ g.color[v] = RED
    BY <1>2, <1>3, <1>4 DEF IsHidden, Relinked
  <1>6. Shape(z, S, under) /\ Shape(g, S, under)
    BY <1>2, <1>5, SameShape DEF Good, Relinked
  <1>7. PICK y : y = Transplant(g, v, nil)
    OBVIOUS
  <1>8. Excised(g, y, S, v, nil)
    BY <1>2, <1>3, <1>5, <1>6, <1>7, TransplantIs
  <1>9. /\ g.child["left"][v] = nil /\ nil = g.child[Other("left")][v]
    BY <1>2, <1>3, <1>5 DEF Childless
  <1>10. Good(y, S \ {v}, Without(under, v))
    <2>1. PICK c, d : c = nil /\ d = "left"
      OBVIOUS
    <2>2. d \in Side /\ g.child[d][v] = nil /\ c = g.child[Other(d)][v]
      BY <1>3, <1>9, <2>1
    <2>3. Good(Transplant(g, v, c), S \ {v}, Without(under, v))
      BY <1>2, <2>2, TransplantGood
    <2> QED
      BY <1>7, <2>1, <2>3
  <1>11. PICK u : u = Unlink(z, v)
    OBVIOUS
  <1>12. /\ u \in Tree /\ Alike(y, u, S \ {v})
         /\ SameColors(y, u, S \ {v}) /\ Unlinked(z, u, S, v)
    <2>1. Excised(Hidden(z, v, k), y, S, v, nil) /\ \A d \in Side : z.child[d][v] = nil
      BY <1>1, <1>2, <1>8 DEF Childless
    <2>2. /\ Unlink(z, v) \in Tree /\ Alike(y, Unlink(z, v), S \ {v})
          /\ SameColors(y, Unlink(z, v), S \ {v}) /\ Unlinked(z, Unlink(z, v), S, v)
      BY <1>2, <1>6, <2>1, UnlinkIs
    <2> QED
      BY <1>11, <2>2
  <1>13. y \in Tree /\ Shape(y, S \ {v}, Without(under, v)) /\ Ordered(y, S \ {v}, Without(under, v))
    BY <1>10 DEF Good
  <1>14. Good(u, S \ {v}, Without(under, v))
    BY <1>12, <1>13, Reframe DEF Good
  <1>15. PICK h, e : Balanced(g, S, h, nil, e)
    BY <1>1 DEF Ripe
  <1>16. Balanced(y, S \ {v}, h, nil, e)
    BY <1>2, <1>3, <1>5, <1>6, <1>8, <1>9, <1>15, ExciseBalanced
  <1>17. Balanced(u, S \ {v}, h, nil, "left")
    <2>1. Balanced(u, S \ {v}, h, nil, e)
      BY <1>12, <1>13, <1>16, Unseen DEF SameColors
    <2> QED
      BY <1>3, <2>1, NothingLacks
  <1>18. u.root = z.root /\ \A n \in S \ {v} : u.parent[n] = z.parent[n]
    BY <1>2, <1>3, <1>5, <1>8, <1>12 DEF Alike, Excised
  <1>19. \A x \in (S \ {v}) \cup {nil} : u.color[x] = z.color[x]
    <2>1. \A x \in Address \ {v} : g.color[x] = z.color[x]
      BY <1>4 DEF IsHidden
    <2>2. y.color = g.color
      BY <1>8 DEF Excised
    <2>3. \A x \in (S \ {v}) \cup {nil} : x \in Address \ {v} /\ u.color[x] = y.color[x]
      BY <1>2, <1>3, <1>12 DEF SameColors
    <2> QED
      BY <2>1, <2>2, <2>3
  <1>20. ASSUME NEW n \in S \ {v}
         PROVE  z.parent[n] \in (S \ {v}) \cup {nil}
    <2>1. CASE n = z.root
      BY <1>3, <1>6, <2>1 DEF Shape, Rooted
    <2>2. CASE n # z.root
      <3>1. z.parent[n] \in S /\ \E d \in Side : z.child[d][z.parent[n]] = n
        BY <1>6, <2>2 DEF Shape, Hung
      <3> QED
        BY <1>2, <1>3, <3>1 DEF Childless
    <2> QED
      BY <2>1, <2>2
  <1>21. RedBut(u, S \ {v}, nil)
    BY <1>18, <1>19, <1>20 DEF Ripe, RedBut
  <1>22. z.root \in (S \ {v}) \cup {nil}
    BY <1>2, <1>6 DEF Shape, Rooted
  <1>23. Colored(u, S \ {v})
    BY <1>17, <1>18, <1>19, <1>21, <1>22 DEF Colored, Ripe
  <1> QED
    BY <1>11, <1>12, <1>14, <1>23

LEMMA FreeLeafRests ==
    ASSUME Typed2, Vacant, NEW z, NEW v, NEW k \in Int, NEW under, Ripe(z, live, v, k, under),
           Kept(t, z, live), FreeLeaf(z, v)
    PROVE  Tree2Inv'
  <1>1. /\ t' = Unlink(z, v) /\ live' = live \ {v}
        /\ pc' = "idle" /\ arg' = 0 /\ node' = nil /\ cur' = nil /\ res' = nil
    BY DEF FreeLeaf, Return
  <1>2. /\ Good(t', live', Without(under, v)) /\ Colored(t', live')
        /\ \A d \in Side : t'.child[d][v] = nil
        /\ \A x \in Address \ live, d \in Side : t'.child[d][x] = t.child[d][x]
    <2>1. /\ Good(Unlink(z, v), live \ {v}, Without(under, v))
          /\ Colored(Unlink(z, v), live \ {v}) /\ Unlinked(z, Unlink(z, v), live, v)
      BY UnlinkGood
    <2>2. Unlinked(z, t', live, v)
      BY <1>1, <2>1
    <2>3. /\ \A d \in Side : t'.child[d][v] = nil
          /\ \A x \in Address \ live, d \in Side : t'.child[d][x] = z.child[d][x]
      BY <2>2 DEF Unlinked
    <2>4. \A x \in Address \ live, d \in Side : t'.child[d][x] = t.child[d][x]
      BY <2>3 DEF Kept
    <2> QED
      BY <1>1, <2>1, <2>3, <2>4
  <1>3. Typed2'
    BY <1>1, Typed2Is DEF Typed2
  <1>4. Vacant'
    BY <1>1, <1>2, Typed2Is DEF Vacant, Address
  <1> QED
    BY <1>1, <1>2, <1>3, <1>4, Rested

-----------------------------------------------------------------------------
(* The steps that the two files share, and the look-ups.                   *)
LEMMA Rests ==
    ASSUME TreeInv, ColorInv, pc \in {"idle", "left", "right", "deleted"}
    PROVE  Tree2Inv
  BY DEF Tree2Inv, Resting, TreeInv, Typed, Typed2

LEMMA InitKeeps2 ==
    ASSUME Init
    PROVE  Tree2Inv
  <1>1. pc = "idle"
    BY DEF Init
  <1> QED
    BY <1>1, InitKeeps, InitColors, Rests

LEMMA OutmostKeeps2 ==
    ASSUME Tree2Inv, NEW d \in Side, Outmost2(d)
    PROVE  Tree2Inv'
  <1>1. pc = "idle" /\ pc' = d /\ Outmost(d) /\ UNCHANGED <<t, live>>
    BY DEF Outmost2, Outmost
  <1>2. TreeInv /\ ColorInv
    BY <1>1 DEF Tree2Inv, Resting, Finding2, Sinking, Recoloring, Swapping, Leaving
  <1>3. TreeInv'
    BY <1>1, <1>2, OutmostKeeps
  <1>4. ColorInv'
    BY <1>1, <1>2, QuietColors DEF Side
  <1> QED
    BY <1>1, <1>3, <1>4 DEF Tree2Inv, Resting, TreeInv, Typed, Typed2, Side

LEMMA OutmostNextKeeps2 ==
    ASSUME Tree2Inv, OutmostNext \/ OutmostDone
    PROVE  Tree2Inv'
  <1>1. pc \in Side /\ UNCHANGED <<t, live>>
    BY DEF OutmostNext, OutmostDone
  <1>2. TreeInv /\ ColorInv
    BY <1>1 DEF Tree2Inv, Resting, Finding2, Sinking, Recoloring, Swapping, Leaving, Side
  <1>3. CASE OutmostNext
    <2>1. pc' = pc
      BY <1>3 DEF OutmostNext
    <2>2. TreeInv'
      BY <1>2, <1>3, OutmostNextKeeps
    <2>3. ColorInv'
      BY <1>1, <1>2, <2>1, QuietColors DEF Side
    <2> QED
      BY <1>1, <2>1, <2>2, <2>3 DEF Tree2Inv, Resting, TreeInv, Typed, Typed2, Side
  <1>4. CASE OutmostDone
    <2>1. Return /\ pc' = "idle" /\ pc \in {"left", "right"}
      BY <1>1, <1>4 DEF OutmostDone, Return, Side
    <2>2. TreeInv'
      BY <1>1, <1>2, <2>1, ReturnKeeps
    <2>3. ColorInv'
      BY <1>1, <1>2, <2>1, QuietColors
    <2> QED
      BY <2>1, <2>2, <2>3 DEF Tree2Inv, Resting, TreeInv, Typed, Typed2
  <1> QED
    BY <1>3, <1>4

\* Whatever the place, an idle program is at rest.
LEMMA IdleIs ==
    ASSUME Tree2Inv, pc \in {"idle", "left", "right", "deleted"}
    PROVE  Resting
  BY DEF Tree2Inv, Finding2, Sinking, Recoloring, Swapping, Leaving

LEMMA NewKeeps2 ==
    ASSUME Tree2Inv, new_rbtree
    PROVE  Tree2Inv'
  <1>1. pc = "deleted" /\ pc' = "idle" /\ UNCHANGED <<t, live>>
    BY DEF new_rbtree
  <1>2. TreeInv /\ ColorInv
    BY <1>1, IdleIs DEF Resting
  <1>3. TreeInv'
    BY <1>2, NewKeeps
  <1>4. ColorInv'
    BY <1>1, <1>2, QuietColors
  <1> QED
    BY <1>1, <1>3, <1>4 DEF Tree2Inv, Resting, TreeInv, Typed, Typed2

\* The nodes that delete_rbtree frees are those of the other file.
LEMMA DeletedIs ==
    ASSUME Resting
    PROVE  Deleted2 = delete_dfs[t.root]
  <1>1. TreeInv
    BY DEF Resting
  <1>2. PICK under : Good(t, Linked, under)
    BY <1>1 DEF TreeInv, Fits
  <1>3. t \in Tree /\ Shape(t, Linked, under) /\ t.root \in Linked \cup {nil}
    BY <1>2 DEF Good, Shape, Rooted
  <1>4. PICK rank : Ranked(rank, Cardinality(Node) + 1)
    BY <1>1, <1>3, Loose, Ranks
  <1>5. CASE t.root = nil
    <2>1. delete_dfs = [m \in Address |-> DfsOf(delete_dfs, m)]
      BY <1>3, <1>4, DfsDefined
    <2>2. delete_dfs[nil] = DfsOf(delete_dfs, nil)
      BY <2>1 DEF Address
    <2>3. delete_dfs[nil] = <<>>
      BY <2>2 DEF DfsOf
    <2> QED
      BY <1>5, <2>3 DEF Deleted2
  <1>6. CASE t.root # nil
    <2>1. t.root \in Node
      BY <1>1, <1>3, <1>6, Loose
    <2>2. delete_subtree[t.root] = delete_dfs[t.root]
      BY <1>3, <1>4, <2>1, SubtreeIsDfs
    <2> QED
      BY <1>6, <2>2 DEF Deleted2
  <1> QED
    BY <1>5, <1>6

LEMMA DeleteKeeps2 ==
    ASSUME Tree2Inv, delete_rbtree2
    PROVE  Tree2Inv'
  <1>1. pc = "idle" /\ pc' = "deleted"
    BY DEF delete_rbtree2
  <1>2. Resting /\ TreeInv /\ ColorInv
    BY <1>1, IdleIs DEF Resting
  <1>3. delete_rbtree
    BY <1>2, DeletedIs DEF delete_rbtree, delete_rbtree2
  <1>4. TreeInv'
    BY <1>2, <1>3, DeleteKeeps
  <1>5. ColorInv'
    BY <1>2, <1>3, <1>4, DeleteColors
  <1> QED
    BY <1>1, <1>4, <1>5 DEF Tree2Inv, Resting, TreeInv, Typed, Typed2

LEMMA Find2Keeps ==
    ASSUME Tree2Inv, NEW k \in Key \cup {0}, Find2(k)
    PROVE  Tree2Inv'
  <1>1. /\ pc = "idle" /\ pc' = "find2" /\ arg' = k /\ cur' = t.root
        /\ t' = t /\ live' = live /\ node' = node /\ res' = res
    BY DEF Find2
  <1>2. Resting /\ Colored(t, live) /\ Typed2
    BY <1>1, IdleIs, RestIs
  <1>3. PICK under : Good(t, live, under)
    BY <1>2, RestIs
  <1>4. t.root \in live \cup {nil} /\ under[t.root] = live
    BY <1>3 DEF Good, Shape, Rooted
  <1>5. k \in Int
    BY KeyAssumption DEF Key
  <1>6. Finding2'
    BY <1>1, <1>2, <1>3, <1>4 DEF Finding2
  <1>7. Typed2' /\ Vacant'
    BY <1>1, <1>2, <1>4, <1>5, Typed2Is DEF Typed2, Tree2Inv, Vacant
  <1> QED
    BY <1>6, <1>7 DEF Tree2Inv

LEMMA Find2Is ==
    ASSUME Tree2Inv, pc = "find2"
    PROVE  Finding2
  BY DEF Tree2Inv, Resting, Sinking, Recoloring, Swapping, Leaving

\* The side that the loop follows, and the keys on the other one.
LEMMA TowardIs ==
    ASSUME t \in Tree, NEW S, NEW under, Shape(t, S, under), Ordered(t, S, under), cur \in S,
           arg \in Int
    PROVE  /\ Toward \in Side /\ Before(Toward, arg, t.key[cur]) /\ t.key[cur] \in Int
           /\ t.child[Toward][cur] \in S \cup {nil}
           /\ arg # t.key[cur] =>
                 \A x \in under[cur] : t.key[x] = arg => x \in under[t.child[Toward][cur]]
  <1>1. S \subseteq Address /\ under[cur] \subseteq S /\ \A x \in S : t.key[x] \in Int
    <2>1. S \subseteq Address /\ under[cur] \subseteq S
      BY Inside
    <2> QED
      BY <2>1 DEF Tree
  <1>2. PICK d : d = Toward
    OBVIOUS
  <1>3. d \in Side /\ Other(d) \in Side /\ Before(d, arg, t.key[cur])
    BY <1>1, <1>2 DEF Toward, Side, Other, Before
  <1>4. /\ t.child[d][cur] \in S \cup {nil}
        /\ under[cur] = {cur} \cup under[t.child[d][cur]] \cup under[t.child[Other(d)][cur]]
    BY <1>3 DEF Shape, Parted
  <1>5. ASSUME arg # t.key[cur], NEW x \in under[cur], t.key[x] = arg
        PROVE  x \in under[t.child[d][cur]]
    <2>1. x # cur /\ x \in S
      BY <1>1, <1>5
    <2>2. CASE x \in under[t.child[Other(d)][cur]]
      <3>1. Before(Other(d), arg, t.key[cur])
        BY <1>3, <1>5, <2>1, <2>2 DEF Ordered
      <3>2. arg = t.key[cur]
        BY <1>1, <1>3, <3>1 DEF Before, Other, Side
      <3> QED
        BY <1>5, <3>2
    <2> QED
      BY <1>4, <1>5, <2>1, <2>2
  <1> QED
    BY <1>1, <1>2, <1>3, <1>4, <1>5

LEMMA Find2NextKeeps ==
    ASSUME Tree2Inv, Find2Next
    PROVE  Tree2Inv'
  <1>1. /\ pc = "find2" /\ cur # nil /\ arg # t.key[cur] /\ cur' = t.child[Toward][cur]
        /\ t' = t /\ live' = live /\ node' = node /\ res' = res /\ arg' = arg /\ pc' = pc
    BY DEF Find2Next
  <1>2. Finding2 /\ Typed2 /\ Vacant
    BY <1>1, Find2Is DEF Tree2Inv
  <1>3. PICK under : /\ Good(t, live, under)
                     /\ \A x \in live : t.key[x] = arg => x \in under[cur]
    BY <1>2 DEF Finding2
  <1>4. cur \in live /\ arg \in Int
    BY <1>1, <1>2, Typed2Is DEF Finding2
  <1>5. /\ cur' \in live \cup {nil}
        /\ \A x \in under[cur] : t.key[x] = arg => x \in under[cur']
    <2>1. /\ t.child[Toward][cur] \in live \cup {nil}
          /\ \A x \in under[cur] : t.key[x] = arg => x \in under[t.child[Toward][cur]]
      BY <1>1, <1>3, <1>4, TowardIs DEF Good
    <2> QED
      BY <1>1, <2>1
  <1>6. Finding2'
    BY <1>1, <1>2, <1>3, <1>5 DEF Finding2
  <1>7. Typed2' /\ Vacant'
    BY <1>1, <1>2, <1>5, Typed2Is DEF Typed2, Vacant
  <1> QED
    BY <1>6, <1>7 DEF Tree2Inv

LEMMA Find2EndKeeps ==
    ASSUME Tree2Inv, Find2Hit \/ Find2Miss
    PROVE  Tree2Inv'
  <1>1. pc = "find2" /\ t' = t /\ live' = live /\ Return
    BY DEF Find2Hit, Find2Miss
  <1>2. Finding2 /\ Typed2 /\ Vacant
    BY <1>1, Find2Is DEF Tree2Inv
  <1>3. PICK under : Good(t, live, under)
    BY <1>2 DEF Finding2
  <1>4. Colored(t, live)'
    BY <1>1, <1>2 DEF Finding2
  <1>5. Typed2' /\ Vacant' /\ pc' = "idle"
    BY <1>1, <1>2, Typed2Is DEF Typed2, Vacant, Return
  <1> QED
    BY <1>1, <1>3, <1>4, <1>5, Rested

-----------------------------------------------------------------------------
(* An insertion, until its node hangs in the tree.                         *)
\* Tree z is s with an unused node n, red and with key k.
Made(s, z, n, k) ==
    /\ z \in Tree /\ z.root = s.root
    /\ z.key[n] = k /\ z.color[n] = RED /\ z.parent[n] = nil
    /\ \A x \in Address \ {n} : /\ z.key[x] = s.key[x] /\ z.color[x] = s.color[x]
                                /\ z.parent[x] = s.parent[x]
    /\ \A x \in Address, d \in Side : z.child[d][x] = IF x = n THEN nil ELSE s.child[d][x]

LEMMA MadeIs ==
    ASSUME NEW s \in Tree, NEW n \in Node, NEW k \in Int, NEW z,
           z = [s EXCEPT !.key[n] = k, !.color[n] = RED, !.parent[n] = nil,
                         !.child["left"][n] = nil, !.child["right"][n] = nil]
    PROVE  Made(s, z, n, k)
  <1>1. n \in Address /\ nil \in Address /\ "left" \in Side /\ "right" \in Side
    BY DEF Address, Side
  <1>2. PICK a : a = [s EXCEPT !.key[n] = k, !.color[n] = RED, !.parent[n] = nil]
    OBVIOUS
  <1>3. PICK b : b = SetChild(a, "left", n, nil)
    OBVIOUS
  <1>4. z = SetChild(b, "right", n, nil)
    BY <1>2, <1>3 DEF SetChild
  <1>5. a \in Tree
    BY <1>2 DEF Tree, Address
  <1>6. /\ a.root = s.root /\ a.child = s.child
        /\ a.key = [s.key EXCEPT ![n] = k] /\ a.color = [s.color EXCEPT ![n] = RED]
        /\ a.parent = [s.parent EXCEPT ![n] = nil]
    BY <1>2 DEF Tree
  <1>7. /\ s.key \in [Address -> Int] /\ s.parent \in [Address -> Address]
        /\ s.color \in [Address -> {RED, BLACK}]
    BY DEF Tree
  <1>8. ChildSet(a, b, "left", n, nil)
    BY <1>1, <1>3, <1>5, SetChildIs
  <1>9. ChildSet(b, z, "right", n, nil)
    <2>1. b \in Tree
      BY <1>8 DEF ChildSet
    <2> QED
      BY <1>1, <1>4, <2>1, SetChildIs
  <1>10. /\ z \in Tree /\ z.root = s.root
         /\ z.key = a.key /\ z.color = a.color /\ z.parent = a.parent
    BY <1>6, <1>8, <1>9 DEF ChildSet
  <1>11. \A x \in Address, d \in Side : z.child[d][x] = IF x = n THEN nil ELSE s.child[d][x]
    BY <1>6, <1>8, <1>9 DEF ChildSet, Side
  <1>12. /\ z.key[n] = k /\ z.color[n] = RED /\ z.parent[n] = nil
         /\ \A x \in Address \ {n} : /\ z.key[x] = s.key[x] /\ z.color[x] = s.color[x]
                                     /\ z.parent[x] = s.parent[x]
    BY <1>1, <1>6, <1>7, <1>10
  <1> QED
    BY <1>10, <1>11, <1>12 DEF Made

\* A black root is all.
LEMMA SingleRests ==
    ASSUME Typed2', Vacant', pc' = "idle", NEW n \in Node, live' = {n}, t' \in Tree,
           t'.root = n, t'.parent[n] = nil, t'.color[n] = BLACK, t'.color[nil] = BLACK,
           \A d \in Side : t'.child[d][nil] = nil /\ t'.child[d][n] = nil
    PROVE  Tree2Inv'
  <1> DEFINE one == [x \in Address |-> IF x = n THEN {n} ELSE {}]
             h == [x \in Address |-> IF x = n THEN 1 ELSE 0]
  <1>1. nil \in Address /\ n \in Address /\ n # nil
    BY KeyAssumption DEF Address
  <1>2. one \in [Address -> SUBSET Node] /\ one[nil] = {} /\ one[n] = {n}
    BY <1>1
  <1>3. h \in [Address -> Nat] /\ h[nil] = 0 /\ h[n] = 1
    BY <1>1
  <1> HIDE DEF one, h
  <1>4. Shape(t', {n}, one)
    <2>1. Rooted(t', {n}, one)
      BY <1>1, <1>2 DEF Rooted
    <2>2. Parted(t', {n}, one)
      BY <1>1, <1>2, Sides DEF Parted
    <2>3. Hung(t', {n}) /\ Closed(t', {n}, one)
      BY <1>1, <1>2 DEF Hung, Closed
    <2> QED
      BY <2>1, <2>2, <2>3 DEF Shape
  <1>5. Ordered(t', {n}, one)
    BY <1>2 DEF Ordered
  <1>6. Good(t', live', one)
    BY <1>4, <1>5 DEF Good
  <1>7. Balanced(t', live', h, nil, "left")
    BY <1>1, <1>3 DEF Balanced, Lacks, Blacks
  <1>8. Colored(t', live')
    BY <1>7 DEF Colored, RedBut
  <1> QED
    BY <1>6, <1>8, Rested

LEMMA Insert2Keeps ==
    ASSUME Tree2Inv, NEW n \in Node, NEW k \in Key, Insert2(n, k)
    PROVE  Tree2Inv'
  <1>1. pc = "idle" /\ n \notin live /\ live' = live \cup {n}
    BY DEF Insert2
  <1>2. Resting /\ Colored(t, live) /\ Typed2 /\ Vacant
    BY <1>1, IdleIs, RestIs DEF Tree2Inv
  <1>3. PICK under : Good(t, live, under)
    BY <1>2, RestIs
  <1>4. t \in Tree /\ Shape(t, live, under) /\ Ordered(t, live, under)
    BY <1>3 DEF Good
  <1>5. /\ nil \notin live /\ live \subseteq Node /\ live \subseteq Address /\ nil \in Address
        /\ \A x \in live : x \in under[x]
        /\ \A x \in live, d \in Side : x \notin under[t.child[d][x]]
    BY <1>4, Inside
  <1>6. k \in Int /\ n \in Address /\ n # nil
    BY KeyAssumption DEF Key, Address
  <1>7. PICK s : /\ s = [t EXCEPT !.key[n] = k, !.color[n] = RED, !.parent[n] = nil,
                                  !.child["left"][n] = nil, !.child["right"][n] = nil]
                 /\ \/ /\ t.root = nil
                       /\ t' = Paint([s EXCEPT !.root = n], n, BLACK)
                       /\ Return
                    \/ /\ t.root # nil
                       /\ t' = s
                       /\ arg' = k /\ node' = n /\ res' = nil /\ cur' = t.root
                       /\ pc' = "sink"
    BY DEF Insert2
  <1>8. Made(t, s, n, k)
    BY <1>4, <1>6, <1>7, MadeIs
  <1>9. /\ s \in Tree /\ s.root = t.root
        /\ s.key[n] = k /\ s.color[n] = RED /\ s.parent[n] = nil
        /\ \A x \in Address \ {n} : /\ s.key[x] = t.key[x] /\ s.color[x] = t.color[x]
                                    /\ s.parent[x] = t.parent[x]
        /\ \A x \in Address, d \in Side : s.child[d][x] = IF x = n THEN nil ELSE t.child[d][x]
    BY <1>8 DEF Made
  <1>10. \A d \in Side : t.child[d][nil] = nil
    BY <1>4 DEF Shape, Rooted
  <1>11. CASE t.root = nil
    <2>1. live = {}
      BY <1>4, <1>11 DEF Shape, Rooted
    <2>2. t' = Paint([s EXCEPT !.root = n], n, BLACK) /\ Return
      BY <1>7, <1>11
    <2>3. PICK a : a = [s EXCEPT !.root = n]
      OBVIOUS
    <2>4. RootSet(s, a, n)
      BY <1>6, <1>9, <2>3, SetRootIs
    <2>5. a \in Tree
      BY <2>4 DEF RootSet
    <2>6. Painted(a, t', n, BLACK)
      BY <1>6, <2>2, <2>3, <2>5, PaintIs
    <2>7. /\ t' \in Tree /\ t'.root = n /\ t'.parent[n] = nil
          /\ t'.color[n] = BLACK /\ t'.color[nil] = BLACK
          /\ t'.child = s.child
      <3>1. t.color[nil] = BLACK
        BY <1>2 DEF Colored
      <3> QED
        BY <1>5, <1>6, <1>9, <2>4, <2>6, <3>1 DEF RootSet, Painted
    <2>8. \A x \in Node \ {n}, d \in Side : t'.child[d][x] = nil
      BY <1>2, <1>9, <2>1, <2>7 DEF Vacant, Address
    <2>9. Typed2' /\ Vacant' /\ pc' = "idle" /\ live' = {n}
      BY <1>1, <1>5, <2>1, <2>2, <2>8 DEF Typed2, Vacant, Return
    <2>10. \A d \in Side : t'.child[d][nil] = nil /\ t'.child[d][n] = nil
      BY <1>5, <1>6, <1>9, <1>10, <2>7
    <2> QED
      BY <2>7, <2>9, <2>10, SingleRests
  <1>12. CASE t.root # nil
    <2>1. /\ t' = s /\ arg' = k /\ node' = n /\ res' = nil /\ cur' = t.root /\ pc' = "sink"
          /\ t.root \in live /\ under[t.root] = live
      BY <1>4, <1>7, <1>12 DEF Shape, Rooted
    <2>2. live' \ {n} = live
      BY <1>1
    <2>3. Alike(t, s, live)
      BY <1>1, <1>5, <1>6, <1>9 DEF Alike
    <2>4. Good(s, live, under)
      BY <1>4, <1>9, <2>3, Reframe DEF Good
    <2>5. \A x \in live \cup {nil} : s.color[x] = t.color[x]
      BY <1>1, <1>5, <1>6, <1>9
    <2>6. Colored(s, live)
      <3>1. PICK h : Balanced(t, live, h, nil, "left")
        BY <1>2 DEF Colored
      <3>2. RedBut(t, live, nil) /\ t.color[t.root] = BLACK /\ t.color[nil] = BLACK
        BY <1>2 DEF Colored
      <3>3. /\ RedBut(s, live, nil) /\ Balanced(s, live, h, nil, "left")
        BY <1>4, <1>9, <2>3, <2>5, <3>1, <3>2, Unseen
      <3> QED
        BY <1>9, <2>1, <2>5, <3>2, <3>3 DEF Colored
    <2>7. ASSUME NEW x \in live, NEW d \in Side, t.root \in under[t.child[d][x]]
          PROVE  FALSE
      <3>1. t.child[d][x] \in live
        BY <1>4, <2>7 DEF Shape, Rooted, Parted
      <3>2. under[t.root] \subseteq under[t.child[d][x]]
        BY <1>4, <2>1, <2>7, <3>1 DEF Shape, Closed
      <3> QED
        BY <1>5, <2>1, <3>2
    <2>8. \A x \in live, d \in Side : s.child[d][x] = t.child[d][x]
      BY <1>1, <1>5, <1>9
    <2>9. \A x \in live, d \in Side :
             t.root \in under[s.child[d][x]] => Before(d, k, s.key[x])
      BY <2>7, <2>8
    <2>10. Childless(s, n)
      BY <1>6, <1>9 DEF Childless
    <2>11. Sinking'
      <3>1. /\ pc' = "sink" /\ Colored(t', live' \ {node'})
            /\ node' \in live' /\ t'.key[node'] = arg' /\ t'.color[node'] = RED
            /\ t'.parent[node'] = nil /\ Childless(t', node')
            /\ cur' \in live' \ {node'}
        BY <1>1, <1>9, <2>1, <2>2, <2>6, <2>10
      <3>2. /\ Good(t', live' \ {node'}, under)
            /\ \A x \in live' \ {node'}, d \in Side :
                  cur' \in under[t'.child[d][x]] => Before(d, arg', t'.key[x])
        BY <2>1, <2>2, <2>4, <2>9
      <3> QED
        BY <3>1, <3>2 DEF Sinking
    <2>12. Typed2'
      BY <1>1, <1>2, <1>5, <1>6, <2>1, Typed2Is DEF Typed2
    <2>13. Vacant'
      BY <1>1, <1>2, <1>9, <2>1 DEF Vacant, Address
    <2> QED
      BY <2>11, <2>12, <2>13 DEF Tree2Inv
  <1> QED
    BY <1>11, <1>12

LEMMA SinkIs ==
    ASSUME Tree2Inv, pc = "sink"
    PROVE  Sinking
  BY DEF Tree2Inv, Resting, Finding2, Recoloring, Swapping, Leaving

LEMMA SinkKeeps ==
    ASSUME Tree2Inv, Sink
    PROVE  Tree2Inv'
  <1>1. /\ pc = "sink" /\ t.child[Toward][cur] # nil /\ cur' = t.child[Toward][cur]
        /\ t' = t /\ live' = live /\ node' = node /\ res' = res /\ arg' = arg /\ pc' = pc
    BY DEF Sink
  <1>2. Sinking /\ Typed2 /\ Vacant
    BY <1>1, SinkIs DEF Tree2Inv
  <1>3. PICK S : S = live \ {node}
    OBVIOUS
  <1>4. PICK under : /\ Good(t, S, under)
                     /\ \A n \in S, d \in Side :
                           cur \in under[t.child[d][n]] => Before(d, arg, t.key[n])
    BY <1>2, <1>3 DEF Sinking
  <1>5. t \in Tree /\ Shape(t, S, under) /\ Ordered(t, S, under) /\ cur \in S /\ arg \in Int
    BY <1>2, <1>3, <1>4, Typed2Is DEF Good, Sinking
  <1>6. nil \notin S /\ under[nil] = {} /\ S \subseteq Address
    BY <1>5, Inside DEF Shape, Rooted
  <1>7. PICK f : f = Toward
    OBVIOUS
  <1>8. f \in Side /\ Before(f, arg, t.key[cur]) /\ cur' \in S
    BY <1>1, <1>5, <1>7, TowardIs
  <1>9. t.parent[cur'] = cur /\ under[cur'] \cap under[t.child[Other(f)][cur]] = {}
    BY <1>1, <1>5, <1>7, <1>8 DEF Shape, Parted
  <1>10. ASSUME NEW n \in S, NEW d \in Side, cur' \in under[t.child[d][n]]
         PROVE  Before(d, arg, t.key[n])
    <2>1. PICK c : c = t.child[d][n]
      OBVIOUS
    <2>2. c \in S /\ t.parent[c] = n
      BY <1>5, <1>6, <1>10, <2>1 DEF Shape, Parted
    <2>3. CASE cur' = c
      <3>1. n = cur
        BY <1>9, <2>2, <2>3
      <3>2. d = f
        <4>1. t.child[d][cur] = t.child[f][cur] /\ t.child[d][cur] # nil /\ cur \in S
        BY <1>1, <1>5, <1>6, <1>7, <1>8, <2>1, <2>3, <3>1
      <4>2. d \in Side /\ f \in Side
        BY <1>8
      <4> QED
        BY <1>5, <4>1, <4>2, OneSide
      <3> QED
        BY <1>8, <3>1, <3>2
    <2>4. CASE cur' # c
      <3>1. t.parent[cur'] \in under[c]
        BY <1>5, <1>10, <2>1, <2>2, <2>4, Within
      <3> QED
        BY <1>4, <1>9, <2>1, <3>1
    <2> QED
      BY <2>3, <2>4
  <1>11. Sinking'
    BY <1>1, <1>2, <1>3, <1>4, <1>8, <1>10 DEF Sinking
  <1>12. Typed2' /\ Vacant'
    BY <1>1, <1>2, <1>6, <1>8, Typed2Is DEF Typed2, Vacant
  <1> QED
    BY <1>11, <1>12 DEF Tree2Inv

LEMMA SinkEndKeeps ==
    ASSUME Tree2Inv, SinkEnd
    PROVE  Tree2Inv'
  <1>1. /\ pc = "sink" /\ t.child[Toward][cur] = nil
        /\ t' = SetParent(SetChild(t, Toward, cur, node), node, cur)
        /\ cur' = node /\ pc' = "color_fix"
        /\ live' = live /\ node' = node /\ res' = res /\ arg' = arg
    BY DEF SinkEnd
  <1>2. Sinking /\ Typed2 /\ Vacant
    BY <1>1, SinkIs DEF Tree2Inv
  <1>3. PICK S : S = live \ {node}
    OBVIOUS
  <1>4. PICK under : /\ Good(t, S, under)
                     /\ \A n \in S, d \in Side :
                           cur \in under[t.child[d][n]] => Before(d, arg, t.key[n])
    BY <1>2, <1>3 DEF Sinking
  <1>5. t \in Tree /\ Shape(t, S, under) /\ Ordered(t, S, under) /\ cur \in S /\ arg \in Int
    BY <1>2, <1>3, <1>4, Typed2Is DEF Good, Sinking
  <1>6. nil \notin S /\ S \subseteq Address /\ nil \in Address
    BY <1>5, Inside
  <1>7. PICK f : f = Toward
    OBVIOUS
  <1>8. f \in Side /\ Before(f, arg, t.key[cur])
    BY <1>5, <1>7, TowardIs
  <1>9. /\ node \in live /\ node \in Node \ S /\ node \in Address /\ node # nil
        /\ S \cup {node} = live
        /\ t.key[node] = arg /\ t.color[node] = RED
        /\ \A d \in Side : t.child[d][node] = nil
    BY <1>2, <1>3, Typed2Is DEF Sinking, Childless
  <1>10. PICK a : a = SetChild(t, f, cur, node)
    OBVIOUS
  <1>11. ChildSet(t, a, f, cur, node)
    BY <1>5, <1>6, <1>8, <1>9, <1>10, SetChildIs
  <1>12. ParentSet(a, t', node, cur)
    BY <1>1, <1>5, <1>6, <1>7, <1>9, <1>10, <1>11, SetParentIs DEF ChildSet
  <1>13. Hooked(t, t', node, cur, f) /\ t'.color = t.color /\ t' \in Tree
    BY <1>5, <1>6, <1>9, <1>11, <1>12 DEF ChildSet, ParentSet, Hooked
  <1>14. t.child[f][cur] = nil /\ cur \in S \cup {nil} /\ cur # nil
    BY <1>1, <1>5, <1>6, <1>7
  <1>15. PICK v : v = With(under, S, node, cur)
    OBVIOUS
  <1>16. Shape(t', S \cup {node}, v)
    BY <1>5, <1>8, <1>9, <1>13, <1>14, <1>15, HookShape
  <1>17. Ordered(t', S \cup {node}, v)
    BY <1>4, <1>5, <1>8, <1>9, <1>13, <1>14, <1>15, HookOrder
  <1>18. Good(t', live, v)
    BY <1>9, <1>13, <1>16, <1>17 DEF Good
  <1>19. PICK h : Balanced(t, S, h, nil, "left")
    BY <1>2, <1>3 DEF Sinking, Colored
  <1>20. PICK g : Balanced(t', S \cup {node}, g, nil, "left")
    BY <1>5, <1>8, <1>9, <1>13, <1>14, <1>19, HookBalanced
  <1>21. RedBut(t, S, nil) /\ t.color[nil] = BLACK /\ t.color[t.root] = BLACK
    BY <1>2, <1>3 DEF Sinking, Colored
  <1>22. RedBut(t', S \cup {node}, node)
    BY <1>5, <1>9, <1>13, <1>21, HookRed
  <1>23. t'.root = t.root
    BY <1>13, <1>14 DEF Hooked
  <1>24. Recoloring'
    BY <1>1, <1>9, <1>13, <1>18, <1>20, <1>21, <1>22, <1>23 DEF Recoloring
  <1>25. Typed2'
    BY <1>1, <1>2, Typed2Is DEF Typed2
  <1>26. Vacant'
    <2>1. \A x \in Node \ live, e \in Side : t'.child[e][x] = t.child[e][x]
      BY <1>9, <1>5, <1>13 DEF Hooked, Address
    <2> QED
      BY <1>1, <1>2, <2>1 DEF Vacant
  <1> QED
    BY <1>24, <1>25, <1>26 DEF Tree2Inv

LEMMA RecolorIs ==
    ASSUME Tree2Inv, pc = "color_fix"
    PROVE  Recoloring
  BY DEF Tree2Inv, Resting, Finding2, Sinking, Swapping, Leaving

LEMMA ColorFixEndKeeps ==
    ASSUME Tree2Inv, ColorFixEnd
    PROVE  Tree2Inv'
  <1>1. /\ pc = "color_fix" /\ t.color[t.parent[cur]] # RED /\ Return /\ t' = t /\ live' = live
    BY DEF ColorFixEnd
  <1>2. Recoloring /\ Typed2 /\ Vacant
    BY <1>1, RecolorIs DEF Tree2Inv
  <1>3. PICK under : Good(t, live, under)
    BY <1>2 DEF Recoloring
  <1>4. t.color[t.parent[cur]] = BLACK
    <2>1. t \in Tree /\ cur \in Address
      BY <1>2, <1>3, Typed2Is DEF Good
    <2> QED
      BY <1>1, <2>1 DEF Tree
  <1>5. RedBut(t, live, nil)
    BY <1>2, <1>4 DEF Recoloring, RedBut
  <1>6. Colored(t', live') /\ Good(t', live', under)
    BY <1>1, <1>2, <1>3, <1>5 DEF Colored, Recoloring
  <1>7. Typed2' /\ Vacant' /\ pc' = "idle"
    BY <1>1, <1>2, Typed2Is DEF Typed2, Vacant, Return
  <1> QED
    BY <1>6, <1>7, Rested

-----------------------------------------------------------------------------
(* An erasure, until its key is in a leaf.                                 *)
\* Only the key and the color of one node tell the hidden tree from the tree.
LEMMA Unhide ==
    ASSUME NEW s \in Tree, NEW v \in Address, NEW k \in Int, NEW S, NEW under
    PROVE  Shape(Hidden(s, v, k), S, under) <=> Shape(s, S, under)
  <1>1. PICK y : y = Hidden(s, v, k)
    OBVIOUS
  <1>2. Relinked(s, y)
    BY <1>1, HiddenIs DEF IsHidden
  <1>3. Relinked(y, s)
    BY <1>2 DEF Relinked
  <1> QED
    BY <1>1, <1>2, <1>3, SameShape

\* A node that has the key it should have hides nothing but its color.
LEMMA HiddenOrder ==
    ASSUME NEW s, NEW S, NEW under, Good(s, S, under), NEW v \in S
    PROVE  s.key[v] \in Int /\ Good(Hidden(s, v, s.key[v]), S, under)
  <1>1. s \in Tree /\ Shape(s, S, under) /\ Ordered(s, S, under)
    BY DEF Good
  <1>2. S \subseteq Address
    BY <1>1, Inside
  <1>3. s.key[v] \in Int /\ v \in Address
    BY <1>1, <1>2 DEF Tree
  <1>4. PICK y : y = Hidden(s, v, s.key[v])
    OBVIOUS
  <1>5. IsHidden(s, y, v, s.key[v])
    BY <1>1, <1>3, <1>4, HiddenIs
  <1>6. y \in Tree /\ Shape(y, S, under)
    BY <1>1, <1>3, <1>4, <1>5, Unhide DEF IsHidden
  <1>7. y.child = s.child /\ \A x \in S : y.key[x] = s.key[x]
    BY <1>2, <1>5 DEF IsHidden, Relinked
  <1>8. Ordered(y, S, under)
    BY <1>1, <1>7 DEF Ordered
  <1> QED
    BY <1>3, <1>4, <1>6, <1>8 DEF Good

LEMMA Erase2Keeps ==
    ASSUME Tree2Inv, NEW p \in Node, Erase2(p)
    PROVE  Tree2Inv'
  <1>1. /\ pc = "idle" /\ p \in live /\ pc' = "swap" /\ arg' = t.key[p] /\ cur' = p /\ res' = p
        /\ t' = t /\ live' = live /\ node' = node
    BY DEF Erase2
  <1>2. Resting /\ Colored(t, live) /\ Typed2 /\ Vacant
    BY <1>1, IdleIs, RestIs DEF Tree2Inv
  <1>3. PICK under : Good(t, live, under)
    BY <1>2, RestIs
  <1>4. t.key[p] \in Int /\ Good(Hidden(t, p, t.key[p]), live, under)
    BY <1>1, <1>3, HiddenOrder
  <1>5. PICK k : k = t.key[p]
    OBVIOUS
  <1>6. k \in Int /\ Good(Hidden(t', cur', k), live', under) /\ t \in Tree
    BY <1>1, <1>3, <1>4, <1>5 DEF Good
  <1>7. Swapping'
    BY <1>1, <1>2, <1>6 DEF Swapping
  <1>8. Typed2' /\ Vacant'
    BY <1>1, <1>2, <1>4, Typed2Is DEF Typed2, Vacant
  <1> QED
    BY <1>7, <1>8 DEF Tree2Inv

LEMMA SwapIs ==
    ASSUME Tree2Inv, pc = "swap"
    PROVE  Swapping /\ Typed2 /\ Vacant /\ Linked = live
  BY DEF Tree2Inv, Resting, Finding2, Sinking, Recoloring, Leaving, Linked

\* Node c takes the key of w, which is next to its own among those below it.
LEMMA RekeyOrder ==
    ASSUME NEW y \in Tree, NEW S, NEW under, Shape(y, S, under), Ordered(y, S, under),
           NEW c \in S, NEW w \in under[c], w # c,
           \A d \in Side : \A x \in under[y.child[d][c]] : Before(d, y.key[x], y.key[w]),
           NEW z, Relinked(y, z),
           \A x \in S : z.key[x] = IF x = c THEN y.key[w] ELSE y.key[x]
    PROVE  Ordered(z, S, under)
  <1>1. /\ nil \notin S /\ S \subseteq Address /\ under[nil] = {} /\ z.child = y.child
        /\ \A x \in S : y.key[x] \in Int
    <2>1. under[nil] = {}
      BY DEF Shape, Rooted
    <2>2. y.key \in [Address -> Int]
      BY DEF Tree
    <2> QED
      BY <2>1, <2>2, Inside DEF Relinked
  <1>2. w \in S
    BY Within
  <1>3. ASSUME NEW n \in S, NEW x \in S, NEW d \in Side, x \in under[y.child[d][n]]
        PROVE  Before(d, z.key[x], z.key[n])
    <2>1. y.child[d][n] \in S /\ n \notin under[y.child[d][n]]
      BY <1>1, <1>3 DEF Shape, Parted
    <2>2. x # n
      BY <1>3, <2>1
    <2>3. Before(d, y.key[x], y.key[n])
      BY <1>3 DEF Ordered
    <2>4. CASE n = c
      <3>1. Before(d, y.key[x], y.key[w])
        BY <1>3, <2>4
      <3> QED
        BY <2>2, <2>4, <3>1
    <2>5. CASE x = c
      <3>1. under[c] \subseteq under[y.child[d][n]]
        BY <1>3, <2>1, <2>5, Within
      <3>2. Before(d, y.key[w], y.key[n])
        BY <1>2, <3>1 DEF Ordered
      <3> QED
        BY <2>2, <2>5, <3>2
    <2>6. CASE n # c /\ x # c
      BY <2>3, <2>6
    <2> QED
      BY <2>4, <2>5, <2>6
  <1> QED
    BY <1>1, <1>3 DEF Ordered

\* A node without one child has at most a red leaf for the other.
LEMMA LastChild ==
    ASSUME NEW s \in Tree, NEW S, NEW under, Shape(s, S, under), Colored(s, S), NEW n \in S,
           NEW d \in Side, s.child[Other(d)][n] = nil, NEW c, c = s.child[d][n], c # nil
    PROVE  c \in S /\ Childless(s, c) /\ under[c] = {c}
  <1>1. PICK h : Balanced(s, S, h, nil, "left")
    BY DEF Colored
  <1>2. /\ nil \notin S /\ S \subseteq Address /\ RED # BLACK
        /\ h \in [Address -> Nat] /\ h[nil] = 0 /\ under[nil] = {}
        /\ Other(d) \in Side /\ "left" \in Side
    BY <1>1, Inside, Sides DEF Balanced, RED, BLACK, Shape, Rooted
  <1>3. c \in S /\ c \in Address
    BY <1>2 DEF Shape, Parted
  <1>4. \A m \in S, f \in Side : h[m] = h[s.child[f][m]] + Blacks(s, m)
    <2> SUFFICES ASSUME NEW m \in S, NEW f \in Side
                 PROVE  h[m] = h[s.child[f][m]] + Blacks(s, m)
      OBVIOUS
    <2>1. Lacks(m, f, nil, "left") = 0
      BY <1>2 DEF Lacks
    <2>2. h[m] = h[s.child[f][m]] + Lacks(m, f, nil, "left") + Blacks(s, m)
      BY <1>1 DEF Balanced
    <2>3. h[s.child[f][m]] \in Nat /\ Blacks(s, m) \in Nat
      BY <1>2, Inside DEF Blacks
    <2> QED
      BY <2>1, <2>2, <2>3
  <1>5. h[c] = 0
    <2>1. h[n] = h[nil] + Blacks(s, n) /\ h[n] = h[c] + Blacks(s, n)
      BY <1>2, <1>4
    <2>2. h[c] \in Nat /\ Blacks(s, n) \in Nat
      BY <1>2, <1>3 DEF Blacks
    <2> QED
      BY <1>2, <2>1, <2>2
  <1>6. s.color[c] = RED
    <2>1. h[c] = h[s.child["left"][c]] + Blacks(s, c) /\ h[s.child["left"][c]] \in Nat
      BY <1>2, <1>3, <1>4, Inside
    <2>2. Blacks(s, c) \in Nat
      BY DEF Blacks
    <2>3. Blacks(s, c) = 0
      BY <1>5, <2>1, <2>2
    <2>4. s.color[c] \in {RED, BLACK}
      BY <1>3 DEF Tree
    <2> QED
      BY <2>3, <2>4 DEF Blacks
  <1>7. ASSUME NEW f \in Side
        PROVE  s.child[f][c] = nil
    <2>1. PICK b : b = s.child[f][c]
      OBVIOUS
    <2>2. s.color[b] = BLACK
      BY <1>2, <1>3, <1>6, <2>1, RedParent, Below DEF Colored, RedBut
    <2>3. CASE b \in S
      <3>1. h[c] = h[b] + Blacks(s, c)
        BY <1>3, <1>4, <2>1
      <3>2. h[b] = h[s.child["left"][b]] + Blacks(s, b) /\ h[s.child["left"][b]] \in Nat
        BY <1>2, <1>4, <2>3, Inside
      <3>3. Blacks(s, b) = 1 /\ Blacks(s, c) \in Nat
        BY <2>2 DEF Blacks
      <3> QED
        BY <1>5, <3>1, <3>2, <3>3
    <2>4. b \in S \cup {nil}
      BY <1>3, <2>1 DEF Shape, Parted
    <2> QED
      BY <2>1, <2>3, <2>4
  <1>8. under[c] = {c} \cup under[s.child["left"][c]] \cup under[s.child[Other("left")][c]]
    BY <1>2, <1>3 DEF Shape, Parted
  <1>9. s.child["left"][c] = nil /\ s.child[Other("left")][c] = nil
    BY <1>2, <1>7, Sides
  <1> QED
    BY <1>2, <1>3, <1>7, <1>8, <1>9 DEF Childless

\* Which node Swap takes, f being the keys in order.
LEMMA SwapWithIs ==
    ASSUME Tree2Inv, pc = "swap", ~IsLeaf(cur), NEW k \in Int, NEW under,
           NEW y, y = Hidden(t, cur, k), Good(y, live, under), NEW w, w = SwapWith
    PROVE  /\ w \in live /\ w \in under[cur] /\ w # cur
           /\ \A d \in Side : \A x \in under[t.child[d][cur]] : Before(d, y.key[x], y.key[w])
  <1>1. Swapping /\ Typed2 /\ Vacant /\ Linked = live
    BY SwapIs
  <1>2. t \in Tree /\ cur \in live /\ Colored(t, live)
    BY <1>1 DEF Swapping
  <1>3. cur \in Address /\ live \subseteq Address /\ nil \notin live /\ live \subseteq Node
    BY <1>1, Typed2Is
  <1>4. y \in Tree /\ Shape(y, live, under) /\ Ordered(y, live, under) /\ Shape(t, live, under)
    BY <1>2, <1>3, Unhide DEF Good
  <1>5. y.child = t.child
    BY <1>2, <1>3, HiddenIs DEF IsHidden, Relinked
  <1>6. "left" \in Side /\ "right" \in Side /\ Other("left") = "right" /\ Other("right") = "left"
    BY DEF Side, Other
  <1>7. under[nil] = {} /\ y.key \in [Address -> Int]
    BY <1>4 DEF Shape, Rooted, Tree
  <1>8. CASE t.child["right"][cur] = nil
    <2>1. w = t.child["left"][cur] /\ w # nil
      BY <1>8 DEF SwapWith, IsLeaf
    <2>2. w \in live /\ under[w] = {w}
      BY <1>2, <1>4, <1>6, <1>8, <2>1, LastChild
    <2>3. w \in under[cur] /\ w # cur
      BY <1>2, <1>4, <1>6, <2>1, <2>2, Inside
    <2>4. \A x \in under[t.child["left"][cur]] : Before("left", y.key[x], y.key[w])
      <3>1. Before("left", y.key[w], y.key[w])
        BY <1>3, <1>6, <1>7, <2>2, BeforeIs
      <3> QED
        BY <2>1, <2>2, <3>1
    <2>5. \A d \in Side : \A x \in under[t.child[d][cur]] : Before(d, y.key[x], y.key[w])
      BY <1>7, <1>8, <2>4 DEF Side
    <2> QED
      BY <2>2, <2>3, <2>5
  <1>9. CASE t.child["right"][cur] # nil
    <2>1. PICK r : r = t.child["right"][cur]
      OBVIOUS
    <2>2. r \in live /\ w = Leftmost[r]
      BY <1>2, <1>4, <1>6, <1>9, <2>1 DEF SwapWith, Shape, Parted
    <2>3. PICK rank : Ranked(rank, Cardinality(Node) + 1)
      <3>1. \A x \in Node \ Linked, d \in Side : t.child[d][x] \in Linked \cup {nil}
        BY <1>1 DEF Vacant
      <3> QED
        BY <1>1, <1>2, <1>3, <1>4, <3>1, Ranks
    <2>4. /\ Leftmost[r] \in under[r] /\ \A x \in under[r] : y.key[Leftmost[r]] <= y.key[x]
      <3>1. \A n, x \in Linked, d \in Side :
               x \in under[t.child[d][n]] => Before(d, y.key[x], y.key[n])
        BY <1>1, <1>4, <1>5 DEF Ordered
      <3> QED
        BY <1>1, <1>2, <1>4, <1>7, <2>2, <2>3, <3>1, LeftmostIs
    <2>5. w \in under[r] /\ w \in live /\ w \in under[cur] /\ w # cur
      <3>1. w \in under[r]
        BY <2>2, <2>4
      <3>2. under[r] \subseteq under[cur] /\ cur \notin under[r] /\ under[r] \subseteq live
        BY <1>2, <1>4, <1>6, <2>1, <2>2, Inside
      <3> QED
        BY <3>1, <3>2
    <2>6. \A x \in under[t.child["right"][cur]] : Before("right", y.key[x], y.key[w])
      BY <2>1, <2>2, <2>4 DEF Before
    <2>7. \A x \in under[t.child["left"][cur]] : Before("left", y.key[x], y.key[w])
      <3> SUFFICES ASSUME NEW x \in under[t.child["left"][cur]]
                   PROVE  y.key[x] <= y.key[w]
        BY DEF Before
      <3>1. x \in live
        <4>1. t.child["left"][cur] \in live
          BY <1>2, <1>4, <1>6, <1>7 DEF Shape, Parted
        <4> QED
          BY <1>4, <4>1, Inside
      <3>2. Before("left", y.key[x], y.key[cur])
        BY <1>2, <1>4, <1>5, <1>6, <3>1 DEF Ordered
      <3>3. Before("right", y.key[w], y.key[cur])
        BY <1>2, <1>4, <1>5, <1>6, <2>1, <2>5 DEF Ordered
      <3>4. y.key[x] <= y.key[cur] /\ y.key[cur] <= y.key[w]
        BY <3>2, <3>3 DEF Before
      <3>5. y.key[x] \in Int /\ y.key[cur] \in Int /\ y.key[w] \in Int
        BY <1>3, <1>7, <2>5, <3>1
      <3> QED
        BY <3>4, <3>5
    <2> QED
      BY <2>5, <2>6, <2>7 DEF Side
  <1> QED
    BY <1>8, <1>9

\* Nodes c and w exchange their keys.
Swapped(s, z, c, w) ==
    /\ z \in Tree /\ Relinked(s, z) /\ z.color = s.color
    /\ \A x \in Address : z.key[x] = IF x = w THEN s.key[c]
                                     ELSE IF x = c THEN s.key[w] ELSE s.key[x]

LEMMA SwappedIs ==
    ASSUME NEW s \in Tree, NEW c \in Address, NEW w \in Address, NEW z,
           z = [s EXCEPT !.key[c] = s.key[w], !.key[w] = s.key[c]]
    PROVE  Swapped(s, z, c, w)
  <1>1. PICK ke : ke = [s.key EXCEPT ![c] = s.key[w], ![w] = s.key[c]]
    OBVIOUS
  <1>2. s.key \in [Address -> Int]
    BY DEF Tree
  <1>3. /\ ke \in [Address -> Int]
        /\ \A x \in Address : ke[x] = IF x = w THEN s.key[c] ELSE IF x = c THEN s.key[w] ELSE s.key[x]
    BY <1>1, <1>2
  <1>4. z = [s EXCEPT !.key = ke]
    BY <1>1 DEF Tree
  <1>5. z \in Tree
    BY <1>3, <1>4 DEF Tree
  <1>6. z.key = ke /\ Relinked(s, z) /\ z.color = s.color
    BY <1>4 DEF Tree, Relinked
  <1> QED
    BY <1>3, <1>5, <1>6 DEF Swapped

LEMMA SwapKeeps ==
    ASSUME Tree2Inv, Swap
    PROVE  Tree2Inv'
  <1>1. /\ pc = "swap" /\ ~IsLeaf(cur)
        /\ t' = [t EXCEPT !.key[cur] = t.key[SwapWith], !.key[SwapWith] = t.key[cur]]
        /\ cur' = SwapWith
        /\ live' = live /\ pc' = pc /\ arg' = arg /\ node' = node /\ res' = res
    BY DEF Swap
  <1>2. Swapping /\ Typed2 /\ Vacant
    BY <1>1, SwapIs
  <1>3. t \in Tree /\ cur \in live /\ Colored(t, live) /\ t.key[cur] = arg
    BY <1>2 DEF Swapping
  <1>4. cur \in Address /\ live \subseteq Address /\ nil \notin live /\ live \subseteq Node
    BY <1>2, Typed2Is
  <1>5. PICK k \in Int : \E under : Good(Hidden(t, cur, k), live, under)
    BY <1>2 DEF Swapping
  <1>6. PICK under : Good(Hidden(t, cur, k), live, under)
    BY <1>5
  <1>7. PICK y, w : y = Hidden(t, cur, k) /\ w = SwapWith
    OBVIOUS
  <1>8. /\ w \in live /\ w \in under[cur] /\ w # cur
        /\ \A d \in Side : \A x \in under[t.child[d][cur]] : Before(d, y.key[x], y.key[w])
    BY <1>1, <1>6, <1>7, SwapWithIs
  <1>9. Swapped(t, t', cur, w)
    BY <1>1, <1>3, <1>4, <1>7, <1>8, SwappedIs
  <1>10. /\ t' \in Tree /\ Relinked(t, t') /\ t'.color = t.color
         /\ t'.key[w] = arg /\ t.key[w] \in Int
         /\ \A x \in Address : t'.key[x] = IF x = w THEN t.key[cur]
                                           ELSE IF x = cur THEN t.key[w] ELSE t.key[x]
    BY <1>3, <1>4, <1>8, <1>9 DEF Swapped, Tree
  <1>11. IsHidden(t, y, cur, k) /\ y \in Tree /\ Shape(y, live, under) /\ Ordered(y, live, under)
    BY <1>3, <1>4, <1>6, <1>7, HiddenIs DEF Good
  <1>12. PICK z : z = Hidden(t', w, t.key[w])
    OBVIOUS
  <1>13. IsHidden(t', z, w, t.key[w])
    BY <1>4, <1>8, <1>10, <1>12, HiddenIs
  <1>14. z \in Tree /\ Relinked(y, z) /\ t.child = y.child
    BY <1>10, <1>11, <1>13 DEF IsHidden, Relinked
  <1>15. \A x \in live : z.key[x] = IF x = cur THEN y.key[w] ELSE y.key[x]
    BY <1>4, <1>8, <1>10, <1>11, <1>13 DEF IsHidden
  <1>16. Ordered(z, live, under)
    BY <1>3, <1>8, <1>11, <1>14, <1>15, RekeyOrder
  <1>17. Shape(z, live, under)
    BY <1>11, <1>14, SameShape
  <1>18. Good(Hidden(t', cur', t.key[w]), live', under)
    BY <1>1, <1>7, <1>12, <1>14, <1>16, <1>17 DEF Good
  <1>19. Colored(t', live')
    BY <1>1, <1>3, <1>10 DEF Colored, RedBut, Balanced, Blacks, Relinked
  <1>20. Swapping'
    BY <1>1, <1>7, <1>8, <1>10, <1>18, <1>19 DEF Swapping
  <1>21. Typed2' /\ Vacant'
    BY <1>1, <1>2, <1>4, <1>7, <1>8, <1>10, Typed2Is DEF Typed2, Vacant, Relinked
  <1> QED
    BY <1>20, <1>21 DEF Tree2Inv

\* A black leaf that no longer counts leaves a black lacking below its parent.
LEMMA LeafOwed ==
    ASSUME NEW s \in Tree, NEW S, NEW under, Shape(s, S, under), NEW v \in S, v # s.root,
           Childless(s, v), s.color[v] = BLACK, NEW d \in Side, s.child[d][s.parent[v]] = v,
           NEW h, NEW e, Balanced(s, S, h, nil, e), NEW z, Repainted(s, z, v, RED)
    PROVE  Balanced(z, S, [h EXCEPT ![v] = 0], s.parent[v], d)
  <1> DEFINE g == [h EXCEPT ![v] = 0]
  <1>1. /\ nil \notin S /\ S \subseteq Address /\ RED # BLACK
        /\ h \in [Address -> Nat] /\ h[nil] = 0
    BY Inside DEF Balanced, RED, BLACK
  <1>2. PICK p : p = s.parent[v]
    OBVIOUS
  <1>3. p \in S /\ p # v
    BY <1>2, SideIs
  <1>4. /\ g \in [Address -> Nat] /\ g[v] = 0 /\ \A x \in Address : x # v => g[x] = h[x]
    BY <1>1
  <1> HIDE DEF g
  <1>5. ASSUME NEW n \in S, NEW f \in Side
        PROVE  g[n] = g[z.child[f][n]] + Lacks(n, f, p, d) + Blacks(z, n)
    <2>1. PICK m : m = s.child[f][n]
      OBVIOUS
    <2>2. /\ h[n] = h[m] + Lacks(n, f, nil, e) + Blacks(s, n)
          /\ z.child[f][n] = m /\ m \in Address /\ n \in Address /\ m # n
          /\ h[m] \in Nat /\ h[n] \in Nat
      BY <1>1, <2>1, Inside DEF Balanced, Repainted, Relinked
    <2>3. Lacks(n, f, nil, e) = 0
      BY <1>1 DEF Lacks
    <2>4. Lacks(n, f, p, d) = IF m = v THEN 1 ELSE 0
      <3>1. m = v => n = p /\ f = d
        <4> SUFFICES ASSUME m = v PROVE n = p /\ f = d
          OBVIOUS
        <4>1. v # nil /\ s.child[f][n] = v
          BY <1>1, <2>1
        <4>2. s.parent[v] = n
          BY <4>1 DEF Shape, Parted
        <4>3. n = p /\ s.child[f][n] = s.child[d][n] /\ s.child[f][n] # nil
          BY <1>2, <4>1, <4>2
        <4> QED
          BY <4>3, OneSide
      <3>2. n = p /\ f = d => m = v
        BY <1>2, <2>1
      <3> QED
        BY <3>1, <3>2 DEF Lacks
    <2>5. Blacks(s, n) \in Nat
      BY DEF Blacks
    <2>6. CASE n = v
      <3>1. m = nil /\ m # v /\ g[m] = 0
        BY <1>1, <1>4, <2>1, <2>2, <2>6 DEF Childless
      <3>2. Blacks(z, n) = 0
        BY <1>1, <2>6 DEF Blacks, Repainted
      <3> QED
        BY <1>4, <2>2, <2>4, <2>6, <3>1, <3>2
    <2>7. CASE n # v
      <3>1. Blacks(z, n) = Blacks(s, n) /\ g[n] = h[n]
        BY <1>4, <2>2, <2>7 DEF Blacks, Repainted
      <3>2. CASE m # v
        BY <1>4, <2>2, <2>3, <2>4, <2>5, <3>1, <3>2
      <3>3. CASE m = v
        <4>1. h[v] = h[s.child[f][v]] + Lacks(v, f, nil, e) + Blacks(s, v)
          BY DEF Balanced
        <4>2. s.child[f][v] = nil /\ Lacks(v, f, nil, e) = 0 /\ Blacks(s, v) = 1
          BY <1>1 DEF Childless, Lacks, Blacks
        <4>3. h[v] = 1
          BY <1>1, <4>1, <4>2
        <4> QED
          BY <1>4, <2>2, <2>3, <2>4, <2>5, <3>1, <3>3, <4>3
      <3> QED
        BY <3>2, <3>3
    <2> QED
      BY <2>6, <2>7
  <1>6. g[nil] = 0
    BY <1>1, <1>4 DEF Address
  <1>7. Balanced(z, S, g, p, d)
    BY <1>4, <1>5, <1>6 DEF Balanced
  <1> QED
    BY <1>2, <1>7 DEF g

LEMMA EraseLeafKeeps ==
    ASSUME Tree2Inv, EraseLeaf
    PROVE  Tree2Inv'
  <1>1. pc = "swap" /\ IsLeaf(cur)
    BY DEF EraseLeaf
  <1>2. Swapping /\ Typed2 /\ Vacant
    BY <1>1, SwapIs
  <1>3. t \in Tree /\ cur \in live /\ Colored(t, live) /\ t.key[cur] = arg
    BY <1>2 DEF Swapping
  <1>4. /\ cur \in Address /\ live \subseteq Address /\ nil \notin live /\ live \subseteq Node
        /\ nil \in Address /\ cur \in Node
    BY <1>2, <1>3, Typed2Is
  <1>5. Childless(t, cur)
    BY <1>1 DEF IsLeaf, Childless, Side
  <1>6. PICK k \in Int : \E under : Good(Hidden(t, cur, k), live, under)
    BY <1>2 DEF Swapping
  <1>7. PICK under : Good(Hidden(t, cur, k), live, under)
    BY <1>6
  <1>8. PICK y : y = Hidden(t, cur, k)
    OBVIOUS
  <1>9. y \in Tree /\ Shape(y, live, under) /\ Shape(t, live, under) /\ IsHidden(t, y, cur, k)
    BY <1>3, <1>4, <1>7, <1>8, Unhide, HiddenIs DEF Good
  <1>10. /\ RedBut(t, live, nil) /\ t.color[t.root] = BLACK /\ t.color[nil] = BLACK
         /\ \E h : Balanced(t, live, h, nil, "left")
    BY <1>3 DEF Colored
  <1>11. PICK h : Balanced(t, live, h, nil, "left")
    BY <1>10
  <1>12. CASE cur = t.root
    <2>1. t' = Blank([t EXCEPT !.root = nil], cur) /\ live' = live \ {cur} /\ Return
      BY <1>12 DEF EraseLeaf
    <2>2. live = {cur}
      <3>1. under[cur] = live /\ under[nil] = {}
        BY <1>9, <1>12 DEF Shape, Rooted
      <3>2. "left" \in Side /\ Other("left") \in Side
        BY Sides DEF Side
      <3>3. under[cur] = {cur} \cup under[t.child["left"][cur]] \cup under[t.child[Other("left")][cur]]
        BY <1>3, <1>9, <3>2 DEF Shape, Parted
      <3> QED
        BY <1>5, <3>1, <3>2, <3>3 DEF Childless
    <2>3. PICK a : a = [t EXCEPT !.root = nil]
      OBVIOUS
    <2>4. RootSet(t, a, nil)
      BY <1>3, <1>4, <2>3, SetRootIs
    <2>5. a \in Tree
      BY <2>4 DEF RootSet
    <2>6. Blanked(a, t', cur)
      BY <1>4, <2>1, <2>3, <2>5, BlankIs
    <2>7. t' \in Tree /\ t'.root = nil /\ t'.color[nil] = BLACK
      BY <1>3, <1>4, <1>10, <2>4, <2>6 DEF RootSet, Blanked
    <2>8. \A x \in Address, d \in Side : t'.child[d][x] = IF x = cur THEN nil ELSE t.child[d][x]
      BY <2>4, <2>6 DEF RootSet, Blanked
    <2>9. \A d \in Side : t'.child[d][nil] = nil
      BY <1>4, <1>9, <2>8 DEF Shape, Rooted
    <2>10. Vacant'
      BY <1>2, <2>1, <2>2, <2>8 DEF Vacant, Address
    <2>11. Typed2' /\ pc' = "idle" /\ live' = {}
      BY <1>4, <2>1, <2>2 DEF Typed2, Return
    <2> QED
      BY <2>7, <2>9, <2>10, <2>11, BareRests
  <1>13. CASE cur # t.root /\ t.color[cur] = RED
    <2>1. FreeLeaf(t, cur)
      BY <1>13 DEF EraseLeaf
    <2>2. \A x \in Address : y.color[x] = t.color[x]
      BY <1>9, <1>13 DEF IsHidden
    <2>3. Balanced(y, live, h, nil, "left")
      BY <1>4, <1>9, <1>11, <2>2 DEF Balanced, Blacks, IsHidden, Relinked
    <2>4. Ripe(t, live, cur, k, under)
      BY <1>3, <1>5, <1>7, <1>8, <1>10, <1>13, <2>3 DEF Ripe
    <2>5. Kept(t, t, live)
      BY DEF Kept
    <2> QED
      BY <1>2, <2>1, <2>4, <2>5, FreeLeafRests
  <1>14. CASE cur # t.root /\ t.color[cur] # RED
    <2>1. /\ pc' = "erase_node" /\ node' = cur
          /\ t' = t /\ live' = live /\ arg' = arg /\ cur' = cur /\ res' = res
      BY <1>14 DEF EraseLeaf
    <2>2. t.color[cur] = BLACK
      BY <1>3, <1>4, <1>14 DEF Tree
    <2>3. PICK d : d = SideOf(t, cur)
      OBVIOUS
    <2>4. d \in Side /\ t.child[d][t.parent[cur]] = cur
      BY <1>3, <1>9, <1>14, <2>3, SideIs
    <2>5. Repainted(t, y, cur, RED)
      BY <1>4, <1>9 DEF IsHidden, Repainted
    <2>6. PICK g : Balanced(y, live, g, t.parent[cur], d)
      BY <1>3, <1>5, <1>9, <1>11, <1>14, <2>2, <2>4, <2>5, LeafOwed
    <2>7. cur \in under[cur]
      BY <1>3, <1>9, Inside
    <2>8. t.parent[cur] \in live
      BY <1>3, <1>9, <1>14, SideIs
    <2>9. Leaving'
      <3>1. Lacking(t, live, under, cur, k, cur, t.parent[cur], d, g)
        BY <1>3, <1>5, <1>7, <1>8, <1>10, <2>2, <2>4, <2>6, <2>7, <2>8 DEF Lacking
      <3>2. Lacking(t', live', under, node', k, cur', t'.parent[cur'], d, g)
        BY <2>1, <3>1
      <3>3. pc' = "erase_node" /\ t'.key[node'] = arg'
        BY <1>3, <2>1
      <3> QED
        BY <3>2, <3>3 DEF Leaving
    <2>10. Typed2' /\ Vacant'
      BY <1>2, <1>4, <2>1, Typed2Is DEF Typed2, Vacant
    <2> QED
      BY <2>9, <2>10 DEF Tree2Inv
  <1> QED
    BY <1>12, <1>13, <1>14

-----------------------------------------------------------------------------
(* An iteration of the loop of an insertion.                               *)
\* Nothing tells tree y from tree z.
SameTree(z, y, S) == z \in Tree /\ y \in Tree /\ Alike(z, y, S) /\ SameColors(z, y, S)

\* The paints after the last turn, where rbtree.c has them before it.
LEMMA PaintLast ==
    ASSUME NEW s \in Tree, NEW S, NEW under, Shape(s, S, under), NEW g \in S, NEW top \in S,
           top # g, NEW d \in Side, s.child[Other(d)][g] # nil
    PROVE  SameTree(Rotate(Paint(Paint(s, top, BLACK), g, RED), g, d),
                    Paint(Paint(Rotate(s, g, d), g, RED), top, BLACK), S)
  <1>1. /\ g \in Address /\ top \in Address /\ S \subseteq Address /\ nil \in Address
        /\ RED \in {RED, BLACK} /\ BLACK \in {RED, BLACK}
    BY Inside
  <1>2. PICK a, b, c, e : /\ a = Paint(s, top, BLACK) /\ b = Paint(a, g, RED)
                          /\ c = Rotate(s, g, d) /\ e = Paint(c, g, RED)
    OBVIOUS
  <1>3. Painted(s, a, top, BLACK)
    BY <1>1, <1>2, PaintIs
  <1>4. Painted(a, b, g, RED)
    <2>1. a \in Tree
      BY <1>3 DEF Painted
    <2> QED
      BY <1>1, <1>2, <2>1, PaintIs
  <1>5. /\ b \in Tree /\ Relinked(s, b) /\ b.key = s.key
        /\ \A x \in Address : b.color[x] = IF x = g THEN RED
                                           ELSE IF x = top THEN BLACK ELSE s.color[x]
    BY <1>3, <1>4 DEF Painted, Relinked
  <1>6. Shape(b, S, under) /\ b.child = s.child
    BY <1>5, SameShape DEF Relinked
  <1>7. PICK z, y : z = Rotate(b, g, d) /\ y = Paint(e, top, BLACK)
    OBVIOUS
  <1>8. Rotated(b, z, S, g, d)
    BY <1>5, <1>6, <1>7, RotateIs
  <1>9. Rotated(s, c, S, g, d)
    BY <1>2, RotateIs
  <1>10. Painted(c, e, g, RED)
    <2>1. c \in Tree
      BY <1>9 DEF Rotated
    <2> QED
      BY <1>1, <1>2, <2>1, PaintIs
  <1>11. Painted(e, y, top, BLACK)
    <2>1. e \in Tree
      BY <1>10 DEF Painted
    <2> QED
      BY <1>1, <1>7, <2>1, PaintIs
  <1>12. /\ y \in Tree /\ y.root = c.root /\ y.key = s.key /\ y.parent = c.parent
         /\ y.child = c.child
         /\ \A x \in Address : y.color[x] = IF x = top THEN BLACK
                                            ELSE IF x = g THEN RED ELSE s.color[x]
    BY <1>9, <1>10, <1>11 DEF Painted, Rotated
  <1>13. /\ z \in Tree /\ z.root = c.root /\ z.key = s.key
         /\ \A x \in Address : z.parent[x] = c.parent[x]
         /\ \A f \in Side, x \in Address : z.child[f][x] = c.child[f][x]
         /\ z.color = b.color
    BY <1>5, <1>6, <1>8, <1>9 DEF Rotated, Relinked
  <1>14. Alike(z, y, S)
    BY <1>1, <1>12, <1>13 DEF Alike
  <1>15. SameTree(z, y, S)
    BY <1>1, <1>5, <1>12, <1>13, <1>14 DEF SameTree, SameColors
  <1> QED
    BY <1>2, <1>7, <1>15

\* A tree painted three times.
Dyed(s, z, S, under) == Good(z, S, under) /\ z.child = s.child /\ z.root = s.root

LEMMA PaintsGood ==
    ASSUME NEW s, NEW S, NEW under, Good(s, S, under), NEW a \in Address, NEW b \in Address,
           NEW g \in Address
    PROVE  Dyed(s, Paint(Paint(Paint(s, a, BLACK), b, BLACK), g, RED), S, under)
  <1>1. RED \in {RED, BLACK} /\ BLACK \in {RED, BLACK}
    OBVIOUS
  <1>2. PICK x : x = Paint(s, a, BLACK)
    OBVIOUS
  <1>3. Good(x, S, under) /\ x.child = s.child /\ x.root = s.root
    BY <1>1, <1>2, PaintGood
  <1>4. PICK y : y = Paint(x, b, BLACK)
    OBVIOUS
  <1>5. Good(y, S, under) /\ y.child = x.child /\ y.root = x.root
    BY <1>1, <1>3, <1>4, PaintGood
  <1>6. PICK z : z = Paint(y, g, RED)
    OBVIOUS
  <1>7. Good(z, S, under) /\ z.child = y.child /\ z.root = y.root
    BY <1>1, <1>5, <1>6, PaintGood
  <1>8. Dyed(s, z, S, under)
    BY <1>3, <1>5, <1>7 DEF Dyed
  <1> QED
    BY <1>2, <1>4, <1>6, <1>8

\* Two red children of g have passed their color on to it.
PassedOn(s, z, S, g) ==
    /\ RedBut(z, S, g) /\ z.color[nil] = BLACK /\ z.color[g] = RED
    /\ g # s.root => z.color[s.root] = BLACK
    /\ \E k : Balanced(z, S, k, nil, "left")

LEMMA PassedUp ==
    ASSUME NEW s \in Tree, NEW S, NEW under, Shape(s, S, under), NEW c \in S, NEW p \in S,
           NEW g \in S, NEW u \in S, s.parent[c] = p, NEW d \in Side,
           p = s.child[d][g], u = s.child[Other(d)][g], p # g, u # g,
           s.color[p] = RED, s.color[u] = RED, s.color[g] = BLACK, s.color[nil] = BLACK,
           s.color[s.root] = BLACK, RedBut(s, S, c), NEW h, Balanced(s, S, h, nil, "left"),
           NEW z, Passed(s, z, g, p, u)
    PROVE  PassedOn(s, z, S, g)
  <1>1. S \subseteq Address /\ nil \notin S /\ nil \in Address
    BY Inside
  <1>2. Balanced(z, S, [h EXCEPT ![p] = h[p] + 1, ![u] = h[u] + 1], nil, "left")
    BY PassBalanced
  <1>3. RedBut(z, S, g)
    BY PassRed
  <1>4. z.color[nil] = BLACK /\ z.color[g] = RED
    BY <1>1 DEF Passed
  <1>5. g # s.root => z.color[s.root] = BLACK
    <2>1. s.root \in Address
      BY DEF Tree
    <2> QED
      BY <2>1 DEF Passed
  <1> QED
    BY <1>2, <1>3, <1>4, <1>5 DEF PassedOn

\* The red node at the cursor, its red parent, and those next to it.
Kin(parent, grand, uncle, d) ==
    /\ cur \in live /\ parent \in live /\ grand \in live /\ parent # cur /\ grand # parent
    /\ parent = t.parent[cur] /\ grand = t.parent[parent]
    /\ t.child[d][grand] = parent /\ uncle = t.child[Other(d)][grand]
    /\ t.color[cur] = RED /\ t.color[parent] = RED /\ t.color[grand] = BLACK

LEMMA UncleRedKeeps ==
    ASSUME Tree2Inv, pc = "color_fix", NEW d \in Side, NEW parent, NEW grand, NEW uncle,
           Kin(parent, grand, uncle, d), t.color[uncle] = RED, UncleRed(parent, grand, uncle)
    PROVE  Tree2Inv'
  <1>a. cur \in live /\ parent \in live /\ grand \in live /\ parent # cur /\ grand # parent
    BY DEF Kin
  <1>b. t.child[d][grand] = parent /\ uncle = t.child[Other(d)][grand]
    BY DEF Kin
  <1>1. Recoloring /\ Typed2 /\ Vacant
    BY RecolorIs DEF Tree2Inv
  <1>2. /\ RedBut(t, live, cur) /\ t.color[t.root] = BLACK /\ t.color[nil] = BLACK
        /\ \E h : Balanced(t, live, h, nil, "left")
        /\ \E under : Good(t, live, under)
    BY <1>1 DEF Recoloring
  <1>3. PICK under : Good(t, live, under)
    BY <1>2
  <1>4. PICK h : Balanced(t, live, h, nil, "left")
    BY <1>2
  <1>5. t \in Tree /\ Shape(t, live, under)
    BY <1>3 DEF Good
  <1>6. /\ live \subseteq Address /\ nil \notin live /\ nil \in Address /\ RED # BLACK
        /\ Other(d) \in Side /\ Other(d) # d
    BY <1>1, Typed2Is, Sides DEF RED, BLACK
  <1>7. uncle \in live /\ uncle # grand /\ uncle # parent
    <2>1. uncle \in live /\ uncle # grand
      <3>1. uncle \in live \cup {nil} /\ uncle # grand
        BY <1>a, <1>b, <1>5, <1>6, Inside DEF Shape, Parted
      <3> QED
        BY <1>2, <1>6, <3>1
    <2>2. uncle # parent
      BY <1>a, <1>b, <1>5, <1>6, <2>1, OneSide
    <2> QED
      BY <2>1, <2>2
  <1>8. PICK s : s = Paint(Paint(Paint(t, parent, BLACK), uncle, BLACK), grand, RED)
    OBVIOUS
  <1>9. Passed(t, s, grand, parent, uncle)
    BY <1>a, <1>5, <1>6, <1>7, <1>8, Passing
  <1>10. /\ t' = IF grand = t.root THEN Paint(s, grand, BLACK) ELSE s
         /\ cur' = grand /\ live' = live /\ pc' = pc /\ arg' = arg /\ node' = node /\ res' = res
    BY <1>8 DEF UncleRed
  <1>11. Good(s, live, under) /\ s.child = t.child /\ s.root = t.root
    <2>1. parent \in Address /\ uncle \in Address /\ grand \in Address
      BY <1>a, <1>6, <1>7
    <2> QED
      <3>1. Dyed(t, Paint(Paint(Paint(t, parent, BLACK), uncle, BLACK), grand, RED), live, under)
        BY <1>3, <2>1, PaintsGood
      <3> QED
        BY <1>8, <3>1 DEF Dyed
  <1>12. PassedOn(t, s, live, grand)
    BY <1>2, <1>4, <1>5, <1>6, <1>7, <1>9, PassedUp DEF Kin
  <1>13. RedBut(s, live, grand) /\ s.color[nil] = BLACK /\ s.color[grand] = RED
    BY <1>12 DEF PassedOn
  <1>14. PICK l : Balanced(s, live, l, nil, "left")
    BY <1>12 DEF PassedOn
  <1>15. s \in Tree /\ Shape(s, live, under)
    BY <1>11 DEF Good
  <1>16. /\ Good(t', live, under) /\ t'.child = t.child
         /\ t'.color[grand] = RED \/ grand = t'.root
         /\ RedBut(t', live, grand) /\ t'.color[t'.root] = BLACK /\ t'.color[nil] = BLACK
         /\ \E k : Balanced(t', live, k, nil, "left")
    <2>1. CASE grand # t.root
      <3>1. t' = s
        BY <1>10, <2>1
      <3>2. s.color[t.root] = BLACK
        BY <1>12, <2>1 DEF PassedOn
      <3> QED
        BY <1>11, <1>13, <1>14, <3>1, <3>2
    <2>2. CASE grand = t.root
      <3>1. t' = Paint(s, grand, BLACK) /\ grand = s.root /\ grand \in Address
        BY <1>a, <1>6, <1>10, <1>11, <2>2
      <3>2. Repainted(s, t', grand, BLACK)
        BY <1>15, <3>1, Repaint
      <3>3. Good(t', live, under) /\ t'.child = s.child /\ t'.root = s.root
        BY <1>11, <3>1, PaintGood
      <3>4. \E k : Balanced(t', live, k, nil, "left")
        BY <1>14, <1>15, <3>1, <3>2, RootBalanced
      <3>5. \A n \in live : \/ s.color[n] = BLACK \/ s.color[s.parent[n]] = BLACK
                            \/ n = grand \/ n = grand \/ s.parent[n] = grand
        BY <1>13 DEF RedBut
      <3>6. RedBut(t', live, grand)
        BY <1>a, <1>6, <1>15, <3>2, <3>5, BlackenRed
      <3>7. t'.color[grand] = BLACK /\ t'.color[nil] = BLACK
        BY <1>a, <1>6, <1>13, <3>2 DEF Repainted
      <3> QED
        BY <1>11, <3>1, <3>3, <3>4, <3>6, <3>7
    <2> QED
      BY <2>1, <2>2
  <1>17. Recoloring'
    BY <1>a, <1>10, <1>16 DEF Recoloring
  <1>18. Typed2'
    BY <1>a, <1>1, <1>6, <1>10, Typed2Is DEF Typed2
  <1>19. Vacant'
    <2>1. t'.child = t.child
      BY <1>16
    <2> QED
      BY <1>1, <1>10, <2>1 DEF Vacant
  <1> QED
    BY <1>17, <1>18, <1>19 DEF Tree2Inv

\* A tree turned, so that top takes the place of g, and then painted.
Topped(s, z, S, g, top) ==
    /\ \E v : Good(z, S, v)
    /\ Kept(s, z, S)
    /\ z.root = IF g = s.root THEN top ELSE s.root
    /\ \A n \in Address : z.color[n] = IF n = top THEN BLACK
                                       ELSE IF n = g THEN RED ELSE s.color[n]

LEMMA TurnThenPaint ==
    ASSUME NEW s, NEW S, NEW under, Good(s, S, under), NEW g \in S, NEW d \in Side,
           NEW top \in S, top = s.child[Other(d)][g], top # nil
    PROVE  Topped(s, Paint(Paint(Rotate(s, g, d), g, RED), top, BLACK), S, g, top)
  <1>1. s \in Tree /\ Shape(s, S, under)
    BY DEF Good
  <1>2. /\ g \in Address /\ top \in Address /\ RED \in {RED, BLACK} /\ BLACK \in {RED, BLACK}
    BY <1>1, Inside
  <1>3. PICK x, y : x = Rotate(s, g, d) /\ y = Paint(x, g, RED)
    OBVIOUS
  <1>4. (\E v : Good(x, S, v)) /\ Kept(s, x, S)
    BY <1>3, RotateGood
  <1>5. PICK v : Good(x, S, v)
    BY <1>4
  <1>6. Good(y, S, v) /\ y.child = x.child /\ y.root = x.root
    BY <1>2, <1>3, <1>5, PaintGood
  <1>7. PICK z : z = Paint(y, top, BLACK)
    OBVIOUS
  <1>8. Good(z, S, v) /\ z.child = y.child /\ z.root = y.root
    BY <1>2, <1>6, <1>7, PaintGood
  <1>9. x \in Tree /\ y \in Tree
    BY <1>5, <1>6 DEF Good
  <1>10. Painted(x, y, g, RED)
    BY <1>2, <1>3, <1>9, PaintIs
  <1>11. Painted(y, z, top, BLACK)
    BY <1>2, <1>7, <1>9, PaintIs
  <1>12. Rotated(s, x, S, g, d)
    BY <1>1, <1>3, RotateIs
  <1>13. \A n \in Address : z.color[n] = IF n = top THEN BLACK
                                         ELSE IF n = g THEN RED ELSE s.color[n]
    BY <1>10, <1>11, <1>12 DEF Painted, Rotated
  <1>14. z.root = IF g = s.root THEN top ELSE s.root
    BY <1>6, <1>8, <1>12 DEF Rotated
  <1>15. Kept(s, z, S)
    BY <1>4, <1>6, <1>8 DEF Kept
  <1>16. Topped(s, z, S, g, top)
    BY <1>8, <1>13, <1>14, <1>15 DEF Topped
  <1> QED
    BY <1>3, <1>7, <1>16

LEMMA UncleBlackKeeps ==
    ASSUME Tree2Inv, pc = "color_fix", NEW d \in Side, NEW parent, NEW grand, NEW uncle,
           Kin(parent, grand, uncle, d), t.color[uncle] = BLACK, UncleBlack(parent, grand, d)
    PROVE  Tree2Inv'
  <1>a. /\ cur \in live /\ parent \in live /\ grand \in live /\ parent # cur /\ grand # parent
        /\ t.color[parent] = RED
    BY DEF Kin
  <1>1. Recoloring /\ Typed2 /\ Vacant
    BY RecolorIs DEF Tree2Inv
  <1>2. /\ RedBut(t, live, cur) /\ t.color[t.root] = BLACK /\ t.color[nil] = BLACK
        /\ \E h : Balanced(t, live, h, nil, "left")
        /\ \E under : Good(t, live, under)
    BY <1>1 DEF Recoloring
  <1>3. PICK under : Good(t, live, under)
    BY <1>2
  <1>4. PICK h : Balanced(t, live, h, nil, "left")
    BY <1>2
  <1>5. t \in Tree /\ Shape(t, live, under)
    BY <1>3 DEF Good
  <1>6. /\ live \subseteq Address /\ nil \notin live /\ nil \in Address /\ RED # BLACK
        /\ Other(d) \in Side /\ Other(d) # d /\ Other(Other(d)) = d
    BY <1>1, Typed2Is, Sides DEF RED, BLACK
  <1>7. PICK z, top, bottom :
           /\ z = IF cur = t.child[Other(d)][parent] THEN Rotate(t, parent, d) ELSE t
           /\ top = IF cur = t.child[Other(d)][parent] THEN cur ELSE parent
           /\ bottom = IF cur = t.child[Other(d)][parent] THEN parent ELSE cur
    OBVIOUS
  <1>8. /\ t' = Paint(Paint(Rotate(z, grand, Other(d)), grand, RED), top, BLACK)
        /\ Return /\ live' = live
    BY <1>7 DEF UncleBlack, TurnDown
  <1>9. PICK w, k : Shape(z, live, w) /\ Lined(z, live, k, grand, d, top, bottom)
    <2>1. /\ t.parent[cur] = parent /\ t.parent[parent] = grand /\ parent = t.child[d][grand]
          /\ t.color[cur] = RED /\ t.color[parent] = RED /\ t.color[grand] = BLACK
          /\ t.color[t.child[Other(d)][grand]] = BLACK
      BY DEF Kin
    <2> QED
      BY <1>a, <1>2, <1>4, <1>5, <1>7, <2>1, LinedUp
  <1>10. /\ z \in Tree /\ top = z.child[d][grand] /\ top \in live
         /\ z.color[grand] = BLACK /\ z.color[top] = RED
    BY <1>9 DEF Lined
  <1>11. PICK u : u = Rotate(Paint(Paint(z, top, BLACK), grand, RED), grand, Other(d))
    OBVIOUS
  <1>12. /\ RedBut(u, live, nil) /\ u.color[nil] = BLACK
         /\ \E l : Balanced(u, live, l, nil, "left")
    BY <1>a, <1>9, <1>11, TurnUp
  <1>13. SameTree(u, t', live)
    <2>1. /\ top # grand /\ Other(d) \in Side /\ z.child[Other(Other(d))][grand] # nil
          /\ Shape(z, live, w) /\ z \in Tree /\ top \in live
      BY <1>a, <1>6, <1>9, <1>10
    <2>2. t' = Paint(Paint(Rotate(z, grand, Other(d)), grand, RED), top, BLACK)
      BY <1>8
    <2> QED
      BY <1>a, <1>11, <2>1, <2>2, PaintLast
  <1>14. \E v : Good(z, live, v)
    BY <1>a, <1>3, <1>6, <1>7, RotateGood
  <1>15. Kept(t, z, live)
    <2>1. Kept(t, t, live)
      BY DEF Kept
    <2> QED
      BY <1>a, <1>3, <1>6, <1>7, <2>1, RotateGood
  <1>16. z.color = t.color /\ z.root = t.root
    <2>1. CASE cur = t.child[Other(d)][parent]
      <3>1. z = Rotate(t, parent, d) /\ t.child[Other(d)][parent] # nil
        BY <1>a, <1>6, <1>7, <2>1
      <3>2. Rotated(t, z, live, parent, d)
        BY <1>a, <1>5, <1>6, <3>1, RotateIs
      <3>3. parent # t.root
        BY <1>a, <1>2, <1>6
      <3> QED
        BY <3>2, <3>3 DEF Rotated
    <2> QED
      BY <1>7, <2>1
  <1>17. PICK v : Good(z, live, v)
    BY <1>14
  <1>18. /\ \E l : Good(t', live, l)
         /\ Kept(z, t', live)
         /\ t'.root = IF grand = z.root THEN top ELSE z.root
         /\ \A n \in Address : t'.color[n] = IF n = top THEN BLACK
                                             ELSE IF n = grand THEN RED ELSE z.color[n]
    <2>1. top = z.child[Other(Other(d))][grand] /\ top # nil
      BY <1>6, <1>10
    <2> QED
      <3>1. Topped(z, Paint(Paint(Rotate(z, grand, Other(d)), grand, RED), top, BLACK),
                   live, grand, top)
        BY <1>a, <1>6, <1>10, <1>17, <2>1, TurnThenPaint
      <3>2. Topped(z, t', live, grand, top)
        BY <1>8, <3>1
      <3> QED
        BY <3>2 DEF Topped
  <1>19. PICK l : Good(t', live, l)
    BY <1>18
  <1>20. \A n \in Address \ live, e \in Side : t'.child[e][n] = t.child[e][n]
    BY <1>15, <1>18 DEF Kept
  <1>21. t'.color[t'.root] = BLACK
    <2>1. t.root \in Address /\ top \in Address
      BY <1>5, <1>6, <1>10 DEF Tree
    <2> QED
      BY <1>2, <1>16, <1>18, <2>1
  <1>22. PICK g : Balanced(u, live, g, nil, "left")
    BY <1>12
  <1>23. Shape(u, live, l)
    <2>1. Alike(t', u, live) /\ Shape(t', live, l) /\ Ordered(t', live, l)
      BY <1>13, <1>19 DEF SameTree, Alike, Good
    <2> QED
      BY <1>13, <2>1, Reframe DEF SameTree
  <1>24. RedBut(t', live, nil) /\ Balanced(t', live, g, nil, "left")
    BY <1>12, <1>13, <1>22, <1>23, Unseen DEF SameTree, SameColors
  <1>25. Colored(t', live')
    BY <1>8, <1>12, <1>13, <1>21, <1>24 DEF SameTree, SameColors, Colored
  <1>26. Typed2' /\ pc' = "idle"
    BY <1>1, <1>8, Typed2Is DEF Typed2, Return, Address
  <1>27. Vacant'
    BY <1>1, <1>8, <1>20 DEF Vacant, Address
  <1> QED
    BY <1>8, <1>19, <1>25, <1>26, <1>27, Rested

LEMMA ColorFixKeeps ==
    ASSUME Tree2Inv, ColorFix
    PROVE  Tree2Inv'
  <1>1. pc = "color_fix" /\ t.color[t.parent[cur]] = RED
    BY DEF ColorFix
  <1>2. Recoloring /\ Typed2
    BY <1>1, RecolorIs DEF Tree2Inv
  <1>3. PICK parent, grand : parent = t.parent[cur] /\ grand = t.parent[parent]
    OBVIOUS
  <1>4. PICK d \in Side : /\ t.child[d][grand] = parent
                          /\ \/ /\ t.color[t.child[Other(d)][grand]] = RED
                                /\ UncleRed(parent, grand, t.child[Other(d)][grand])
                             \/ /\ t.color[t.child[Other(d)][grand]] # RED
                                /\ UncleBlack(parent, grand, d)
    BY <1>3 DEF ColorFix
  <1>5. /\ cur \in live /\ (t.color[cur] = RED \/ cur = t.root)
        /\ RedBut(t, live, cur) /\ t.color[t.root] = BLACK /\ t.color[nil] = BLACK
        /\ \E under : Good(t, live, under)
    BY <1>2 DEF Recoloring
  <1>6. PICK under : Good(t, live, under)
    BY <1>5
  <1>7. t \in Tree /\ Shape(t, live, under)
    BY <1>6 DEF Good
  <1>8. RED # BLACK /\ nil \notin live /\ live \subseteq Address /\ nil \in Address
    BY <1>2, Typed2Is DEF RED, BLACK
  <1>9. cur # t.root /\ t.color[cur] = RED
    <2>1. cur = t.root => parent = nil
      BY <1>3, <1>5, <1>7, RootIs
    <2> QED
      BY <1>1, <1>3, <1>5, <1>8, <2>1
  <1>10. parent \in live /\ parent # cur
    BY <1>3, <1>5, <1>7, <1>9, SideIs
  <1>11. parent # t.root
    BY <1>1, <1>3, <1>5, <1>8
  <1>12. grand \in live /\ grand # parent
    BY <1>3, <1>7, <1>10, <1>11, SideIs
  <1>13. t.color[grand] = BLACK
    BY <1>1, <1>3, <1>5, <1>8, <1>10 DEF RedBut
  <1>a. Kin(parent, grand, t.child[Other(d)][grand], d)
    BY <1>1, <1>3, <1>4, <1>5, <1>9, <1>10, <1>12, <1>13 DEF Kin
  <1>14. CASE t.color[t.child[Other(d)][grand]] = RED
    BY <1>1, <1>4, <1>a, <1>14, UncleRedKeeps
  <1>15. CASE t.color[t.child[Other(d)][grand]] # RED
    <2>1. t.color[t.child[Other(d)][grand]] = BLACK
      <3>1. Other(d) \in Side
        BY Sides
      <3>2. t.child[Other(d)][grand] \in Address
        BY <1>7, <1>12, <3>1, Inside
      <3> QED
        BY <1>7, <1>15, <3>2 DEF Tree
    <2> QED
      BY <1>1, <1>4, <1>a, <1>15, <2>1, UncleBlackKeeps
  <1> QED
    BY <1>14, <1>15

-----------------------------------------------------------------------------
(* An iteration of the loop of an erasure.                                 *)
\* The parts of Lacking, and what follows at once.
LackingFacts(s, y, S, under, v, k, n, p, d, h) ==
    /\ s \in Tree /\ k \in Int /\ d \in Side /\ Other(d) \in Side
    /\ Other(d) # d /\ Other(Other(d)) = d
    /\ v \in S /\ Childless(s, v) /\ s.color[v] = BLACK
    /\ n \in S /\ v \in under[n] /\ s.color[n] = BLACK
    /\ p \in S /\ s.parent[n] = p /\ s.child[d][p] = n /\ p # n
    /\ RedBut(s, S, nil) /\ s.color[s.root] = BLACK /\ s.color[nil] = BLACK
    /\ y \in Tree /\ Relinked(s, y) /\ IsHidden(s, y, v, k)
    /\ Shape(s, S, under) /\ Shape(y, S, under) /\ Ordered(y, S, under)
    /\ Balanced(y, S, h, p, d)
    /\ nil \notin S /\ S \subseteq Address /\ nil \in Address /\ RED # BLACK
    /\ RED \in {RED, BLACK} /\ BLACK \in {RED, BLACK}

LEMMA LackingIs ==
    ASSUME NEW s, NEW S, NEW under, NEW v, NEW k, NEW n, NEW p, NEW d, NEW h,
           Lacking(s, S, under, v, k, n, p, d, h)
    PROVE  LackingFacts(s, Hidden(s, v, k), S, under, v, k, n, p, d, h)
  <1>1. PICK y : y = Hidden(s, v, k)
    OBVIOUS
  <1>2. /\ s \in Tree /\ k \in Int /\ d \in Side
        /\ v \in S /\ Childless(s, v) /\ s.color[v] = BLACK
        /\ n \in S /\ v \in under[n] /\ s.color[n] = BLACK
        /\ p \in S /\ s.parent[n] = p /\ s.child[d][p] = n
        /\ RedBut(s, S, nil) /\ s.color[s.root] = BLACK /\ s.color[nil] = BLACK
        /\ Good(y, S, under) /\ Balanced(y, S, h, p, d)
    BY <1>1 DEF Lacking
  <1>3. y \in Tree /\ Shape(y, S, under) /\ Ordered(y, S, under)
    BY <1>2 DEF Good
  <1>4. nil \notin S /\ S \subseteq Address /\ nil \in Address
    BY <1>3, Inside
  <1>5. v \in Address
    BY <1>2, <1>4
  <1>6. IsHidden(s, y, v, k)
    BY <1>1, <1>2, <1>5, HiddenIs
  <1>7. Relinked(s, y)
    BY <1>6 DEF IsHidden
  <1>8. Shape(s, S, under)
    BY <1>1, <1>2, <1>3, <1>5, Unhide
  <1>9. /\ RED # BLACK /\ RED \in {RED, BLACK} /\ BLACK \in {RED, BLACK}
    BY DEF RED, BLACK
  <1>10. Other(d) \in Side /\ Other(d) # d /\ Other(Other(d)) = d
    BY <1>2, Sides
  <1>11. p # n
    BY <1>2, <1>8, Inside
  <1>12. LackingFacts(s, y, S, under, v, k, n, p, d, h)
    BY <1>2, <1>3, <1>4, <1>6, <1>7, <1>8, <1>9, <1>10, <1>11 DEF LackingFacts
  <1> QED
    BY <1>1, <1>12

\* What is known of the sibling of the node that lacks a black.
Sibling(s, S, v, n, p, d, b) ==
    /\ b \in S /\ b # nil /\ s.parent[b] = p /\ b # n /\ b # p /\ b # s.root
    /\ v \notin {p, b, s.root} /\ n # s.root /\ SideOf(s, n) = d
    /\ \A e \in Side : /\ s.child[e][b] \in S \cup {nil}
                       /\ s.child[e][b] \notin {v, p, b, n, s.root}

\* The leaf is neither the root nor any of the nodes on the other side.
LEMMA SiblingIs ==
    ASSUME NEW s, NEW S, NEW under, NEW v, NEW k, NEW n, NEW p, NEW d, NEW h,
           Lacking(s, S, under, v, k, n, p, d, h), NEW b, b = s.child[Other(d)][p]
    PROVE  Sibling(s, S, v, n, p, d, b)
  <1>1. PICK y : y = Hidden(s, v, k)
    OBVIOUS
  <1>2. LackingFacts(s, y, S, under, v, k, n, p, d, h)
    BY <1>1, LackingIs
  <1>3. /\ s \in Tree /\ Shape(s, S, under) /\ d \in Side /\ Other(d) \in Side
        /\ Other(d) # d /\ Other(Other(d)) = d
        /\ v \in S /\ n \in S /\ v \in under[n] /\ p \in S
        /\ s.parent[n] = p /\ s.child[d][p] = n /\ p # n
        /\ Relinked(s, y) /\ Balanced(y, S, h, p, d)
        /\ nil \notin S /\ S \subseteq Address /\ nil \in Address
    BY <1>2 DEF LackingFacts
  <1>4. y.child = s.child
    BY <1>3 DEF Relinked
  <1>5. b \in S \cup {nil} /\ b # p /\ (b # nil => s.parent[b] = p)
        /\ p \notin under[n] /\ under[n] \cap under[b] = {}
    <2>1. n = s.child[d][p] /\ b = s.child[Other(d)][p] /\ n = s.child[Other(Other(d))][p]
      BY <1>3
    <2>2. p \notin under[n] /\ under[n] \cap under[b] = {}
      BY <1>3, <2>1, Below
    <2>3. b \in S \cup {nil} /\ b # p /\ (b # nil => s.parent[b] = p)
      BY <1>3, <2>1, Below
    <2> QED
      BY <2>2, <2>3
  <1>6. b # nil
    <2>1. /\ h[p] = h[n] + Lacks(p, d, p, d) + Blacks(y, p)
          /\ h[p] = h[b] + Lacks(p, Other(d), p, d) + Blacks(y, p)
          /\ h[nil] = 0 /\ h \in [Address -> Nat]
      BY <1>3, <1>4 DEF Balanced
    <2>2. /\ Lacks(p, d, p, d) = 1 /\ Lacks(p, Other(d), p, d) = 0
          /\ Blacks(y, p) \in Nat
      BY <1>3 DEF Lacks, Blacks
    <2>3. h[n] \in Nat /\ h[b] \in Nat
      BY <1>3, <1>5, <2>1
    <2>4. h[b] = h[n] + 1
      BY <2>1, <2>2, <2>3
    <2> QED
      BY <2>1, <2>3, <2>4
  <1>7. b \in S /\ s.parent[b] = p /\ b \in under[b] /\ n \in under[n]
    BY <1>3, <1>5, <1>6, Inside
  <1>8. b # n /\ v \notin {p, b}
    BY <1>3, <1>5, <1>7
  <1>9. b # s.root /\ n # s.root
    BY <1>3, <1>7, NotRoot
  <1>10. v # s.root
    <2>1. under[s.root] = S
      BY <1>3 DEF Shape, Rooted
    <2>2. under[v] \subseteq under[n]
      BY <1>3, Within
    <2> QED
      BY <1>3, <1>5, <2>1, <2>2
  <1>11. SideOf(s, n) = d
    <2>1. SideOf(s, n) \in Side /\ s.child[SideOf(s, n)][p] = n
      BY <1>3, <1>9, SideIs
    <2> QED
      BY <1>3, <2>1, OneSide
  <1>12. ASSUME NEW e \in Side
         PROVE  /\ s.child[e][b] \in S \cup {nil}
                /\ s.child[e][b] \notin {v, p, b, n, s.root}
    <2> DEFINE Apart(m) == m \in S \cup {nil} /\ m \notin {v, p, b, n, s.root}
    <2>1. PICK c : c = s.child[e][b]
      OBVIOUS
    <2>2. c \in S \cup {nil} /\ c # b /\ (c # nil => s.parent[c] = b)
      BY <1>3, <1>7, <2>1, Below
    <2>3. c = nil => Apart(c)
      <3> SUFFICES ASSUME c = nil PROVE Apart(c)
        OBVIOUS
      <3>1. s.root # nil
        BY <1>3 DEF Shape, Rooted
      <3> QED
        BY <1>3, <1>6, <2>2, <3>1
    <2>4. c # nil => Apart(c)
      <3> SUFFICES ASSUME c # nil PROVE Apart(c)
        OBVIOUS
      <3>1. c \in S /\ s.parent[c] = b /\ c \in under[c] /\ under[c] \subseteq under[b]
        <4>1. c \in S /\ s.parent[c] = b
          BY <2>2
        <4>2. under[c] \subseteq under[b]
          BY <1>3, <1>7, <2>1, Inside
        <4> QED
          BY <1>3, <4>1, <4>2, Inside
      <3>2. c # n /\ c # v /\ c # s.root
        BY <1>3, <1>5, <1>7, <3>1, NotRoot
      <3>3. c # p
        <4>1. p \notin under[b]
          BY <1>3, <1>5, <1>7, Inside
        <4> QED
          BY <3>1, <4>1
      <3> QED
        BY <2>2, <3>1, <3>2, <3>3
    <2> QED
      BY <2>1, <2>3, <2>4
  <1> QED
    BY <1>5, <1>6, <1>7, <1>8, <1>9, <1>10, <1>11, <1>12 DEF Sibling

\* The paints of an exchange, in the order of rbtree2.c.
LEMMA ExchangeBack ==
    ASSUME NEW s \in Tree, NEW n \in Address, NEW up \in Address, up # n,
           s.color[n] = BLACK, s.color[up] = RED
    PROVE  Exchanged(s, Paint(Paint(s, n, RED), up, BLACK), n, up)
  <1>1. RED \in {RED, BLACK} /\ BLACK \in {RED, BLACK}
    OBVIOUS
  <1>2. PICK y, z : y = Paint(s, n, RED) /\ z = Paint(y, up, BLACK)
    OBVIOUS
  <1>3. Painted(s, y, n, RED)
    BY <1>1, <1>2, PaintIs
  <1>4. Painted(y, z, up, BLACK)
    <2>1. y \in Tree
      BY <1>3 DEF Painted
    <2> QED
      BY <1>1, <1>2, <2>1, PaintIs
  <1>5. Exchanged(s, z, n, up)
    BY <1>3, <1>4 DEF Painted, Exchanged, Relinked
  <1> QED
    BY <1>2, <1>5

\* A turn elsewhere leaves the black lacking where it is.
LEMMA TurnLacking ==
    ASSUME NEW s, NEW S, NEW under, NEW v, NEW k, NEW n, NEW p, NEW d, NEW h,
           Lacking(s, S, under, v, k, n, p, d, h),
           NEW q \in S, NEW e \in Side, NEW up, up = s.child[Other(e)][q], up # nil,
           s.color[q] = BLACK, s.color[up] = RED, s.color[s.child[e][q]] = BLACK,
           s.color[s.child[e][up]] = BLACK,
           q # v, up # v, q # n, up # n, p # up, ~(p = q /\ d = Other(e)),
           NEW x, Exchanged(s, x, q, up), NEW z, Rotated(x, z, S, q, e)
    PROVE  \E w, g : Lacking(z, S, w, v, k, n, p, d, g)
  <1>1. PICK y : y = Hidden(s, v, k)
    OBVIOUS
  <1>2. LackingFacts(s, y, S, under, v, k, n, p, d, h)
    BY <1>1, LackingIs
  <1>3. /\ s \in Tree /\ Shape(s, S, under) /\ d \in Side /\ Other(d) \in Side /\ k \in Int
        /\ Other(d) # d /\ Other(Other(d)) = d
        /\ v \in S /\ n \in S /\ v \in under[n] /\ p \in S
        /\ s.parent[n] = p /\ s.child[d][p] = n /\ p # n
        /\ s.color[v] = BLACK /\ s.color[n] = BLACK
        /\ RedBut(s, S, nil) /\ s.color[s.root] = BLACK /\ s.color[nil] = BLACK
        /\ nil \notin S /\ S \subseteq Address /\ nil \in Address /\ RED # BLACK
    BY <1>2 DEF LackingFacts
  <1>4. /\ y \in Tree /\ Shape(y, S, under) /\ Ordered(y, S, under) /\ IsHidden(s, y, v, k)
        /\ Relinked(s, y) /\ Balanced(y, S, h, p, d) /\ Childless(s, v)
    BY <1>2 DEF LackingFacts
  <1>5. /\ Other(e) \in Side /\ Other(e) # e /\ Other(Other(e)) = e /\ Side = {e, Other(e)}
        /\ q \in Address /\ v \in Address /\ v # nil
    BY <1>3, Sides
  <1>6. PICK inner : inner = s.child[e][up]
    OBVIOUS
  <1>7. up \in S /\ up # q /\ s.parent[up] = q /\ up \in Address
        /\ (inner # nil => s.parent[inner] = up)
    <2>1. up \in S /\ up # q /\ s.parent[up] = q
      BY <1>3, <1>5, Below
    <2>2. inner # nil => s.parent[inner] = up
      BY <1>3, <1>6, <2>1, Below
    <2> QED
      BY <1>3, <2>1, <2>2
  <1>8. x \in Tree /\ Relinked(s, x) /\ x.key = s.key /\ x.child = s.child
        /\ x.parent = s.parent /\ x.root = s.root
    BY DEF Exchanged, Relinked
  <1>9. /\ z \in Tree /\ z.key = s.key /\ z.color = x.color
        /\ z.root = IF q = s.root THEN up ELSE s.root
        /\ z.parent[n] = IF n = inner THEN q ELSE s.parent[n]
        /\ \A f \in Side : z.child[f][v] = IF s.child[f][v] = q THEN up ELSE s.child[f][v]
        /\ z.child[d][p] = IF p = q THEN (IF d = e THEN s.child[e][q] ELSE inner)
                           ELSE IF s.child[d][p] = q THEN up ELSE s.child[d][p]
    <2>1. x.child[Other(e)][q] = up /\ x.child[e][up] = inner
      BY <1>3, <1>6, <1>8
    <2>2. z \in Tree /\ z.key = x.key /\ z.color = x.color
      BY DEF Rotated
    <2>3. z.root = IF q = x.root THEN up ELSE x.root
      BY <2>1 DEF Rotated
    <2>4. z.parent[n] = IF n = inner THEN q ELSE x.parent[n]
      BY <1>3, <1>5, <1>7, <2>1 DEF Rotated
    <2>5. \A f \in Side : z.child[f][v] = IF x.child[f][v] = q THEN up ELSE x.child[f][v]
      BY <1>3, <1>5, <2>1 DEF Rotated
    <2>6. z.child[d][p] = IF p = q THEN (IF d = e THEN x.child[e][q] ELSE inner)
                          ELSE IF x.child[d][p] = q THEN up ELSE x.child[d][p]
      BY <1>3, <1>5, <2>1 DEF Rotated
    <2> QED
      BY <1>8, <2>2, <2>3, <2>4, <2>5, <2>6
  <1>10. n # inner
    BY <1>3, <1>7
  <1>11. z.parent[n] = p /\ z.child[d][p] = n /\ Childless(z, v)
    <2>1. p = q => d = e
      BY <1>3, <1>5
    <2>2. \A f \in Side : s.child[f][v] = nil
      BY <1>4 DEF Childless
    <2>3. q # nil
      BY <1>3
    <2> QED
      BY <1>3, <1>9, <1>10, <2>1, <2>2, <2>3 DEF Childless
  <1>12. /\ x.color[q] = s.color[up] /\ x.color[up] = s.color[q]
         /\ \A a \in Address \ {q, up} : x.color[a] = s.color[a]
    BY DEF Exchanged
  <1>13. z.color[v] = BLACK /\ z.color[n] = BLACK /\ z.color[nil] = BLACK
    BY <1>3, <1>5, <1>7, <1>9, <1>12
  <1>14. z.color[z.root] = BLACK
    <2>1. s.root \in Address
      BY <1>3 DEF Tree
    <2> QED
      BY <1>3, <1>7, <1>9, <1>12, <2>1
  <1>15. RedBut(z, S, nil)
    <2>1. \A m \in S : \/ s.color[m] = BLACK \/ s.color[s.parent[m]] = BLACK
                       \/ s.parent[m] = up
      BY <1>3 DEF RedBut
    <2> QED
      BY <1>3, <2>1, TurnRed
  <1>16. PICK a, u : a = Hidden(x, v, k) /\ u = Hidden(z, v, k)
    OBVIOUS
  <1>17. Exchanged(y, a, q, up)
    <2>1. q \in Address \ {v} /\ up \in Address \ {v}
      BY <1>5, <1>7
    <2> QED
      BY <1>1, <1>3, <1>5, <1>8, <1>16, <2>1, HiddenPaints
  <1>18. Rotated(a, u, S, q, e)
    BY <1>3, <1>5, <1>8, <1>16, HiddenRotated
  <1>19. /\ y.child = s.child /\ y.color[q] = BLACK /\ y.color[up] = RED
    BY <1>4, <1>5, <1>7 DEF IsHidden, Relinked
  <1>20. Balanced(u, S, [h EXCEPT ![q] = h[up], ![up] = h[q]], p, d)
    BY <1>4, <1>17, <1>18, <1>19, TurnBalanced
  <1>21. Shape(a, S, under) /\ Ordered(a, S, under) /\ a \in Tree /\ a.child = s.child
    BY <1>4, <1>17, <1>19, SameShape DEF Exchanged, Relinked
  <1>22. PICK w : w = Turned(a, under, q, e)
    OBVIOUS
  <1>23. Shape(u, S, w) /\ Ordered(u, S, w) /\ u \in Tree
    <2>1. a.child[Other(e)][q] # nil
      BY <1>21
    <2>2. Shape(u, S, w)
      BY <1>18, <1>21, <1>22, <2>1, RotateShape
    <2>3. Ordered(u, S, w)
      BY <1>18, <1>21, <1>22, <2>1, RotateOrder
    <2> QED
      BY <1>18, <2>2, <2>3 DEF Rotated
  <1>24. v \in w[n]
    BY <1>3, <1>21, <1>22 DEF Turned
  <1>25. Good(u, S, w)
    BY <1>23 DEF Good
  <1>26. Lacking(z, S, w, v, k, n, p, d, [h EXCEPT ![q] = h[up], ![up] = h[q]])
    BY <1>3, <1>9, <1>11, <1>13, <1>14, <1>15, <1>16, <1>20, <1>24, <1>25 DEF Lacking
  <1> QED
    BY <1>26

\* A turn moves no node that is not in the tree.
LEMMA TurnKept ==
    ASSUME NEW s \in Tree, NEW S, NEW under, Shape(s, S, under), NEW q \in S, NEW e \in Side,
           s.child[Other(e)][q] # nil, NEW x, Relinked(s, x), NEW z, Rotated(x, z, S, q, e)
    PROVE  Kept(s, z, S)
  <1>1. PICK up : up = s.child[Other(e)][q]
    OBVIOUS
  <1>2. Other(e) \in Side /\ up \in S /\ x.child = s.child
    BY <1>1, Sides, Below DEF Relinked
  <1>3. \A f \in Side, a \in Address : a # q /\ a # up /\ a \notin S => z.child[f][a] = s.child[f][a]
    BY <1>1, <1>2 DEF Rotated
  <1> QED
    BY <1>2, <1>3 DEF Kept

\* The paints of the last turn, in the order of rbtree2.c.
LEMMA LentBack ==
    ASSUME NEW s \in Tree, NEW p \in Address, NEW b \in Address, NEW outer \in Address,
           p # b, p # outer, b # outer
    PROVE  Lent(s, Paint(Paint(Paint(s, b, s.color[p]), p, BLACK), outer, BLACK), p, b, outer)
  <1>1. BLACK \in {RED, BLACK} /\ s.color[p] \in {RED, BLACK}
    BY DEF Tree
  <1>2. PICK x, y, z : /\ x = Paint(s, b, s.color[p]) /\ y = Paint(x, p, BLACK)
                       /\ z = Paint(y, outer, BLACK)
    OBVIOUS
  <1>3. Painted(s, x, b, s.color[p])
    BY <1>1, <1>2, PaintIs
  <1>4. x \in Tree
    BY <1>3 DEF Painted
  <1>5. Painted(x, y, p, BLACK)
    BY <1>1, <1>2, <1>4, PaintIs
  <1>6. y \in Tree
    BY <1>5 DEF Painted
  <1>7. Painted(y, z, outer, BLACK)
    BY <1>1, <1>2, <1>6, PaintIs
  <1>8. Lent(s, z, p, b, outer)
    BY <1>3, <1>5, <1>7 DEF Painted, Lent, Relinked
  <1> QED
    BY <1>2, <1>8

\* A brother with a red far child makes up for the black that the leaf takes.
LEMMA LentRipe ==
    ASSUME NEW s, NEW S, NEW under, NEW v, NEW k, NEW n, NEW p, NEW d, NEW h,
           Lacking(s, S, under, v, k, n, p, d, h),
           NEW b, b = s.child[Other(d)][p], s.color[b] = BLACK,
           NEW outer, outer = s.child[Other(d)][b], s.color[outer] = RED,
           NEW x, Lent(s, x, p, b, outer), NEW z, Rotated(x, z, S, p, d)
    PROVE  (\E w : Ripe(z, S, v, k, w)) /\ Kept(s, z, S)
  <1>1. PICK y : y = Hidden(s, v, k)
    OBVIOUS
  <1>2. LackingFacts(s, y, S, under, v, k, n, p, d, h)
    BY <1>1, LackingIs
  <1>3. /\ s \in Tree /\ Shape(s, S, under) /\ d \in Side /\ Other(d) \in Side /\ k \in Int
        /\ Other(d) # d /\ Other(Other(d)) = d
        /\ v \in S /\ p \in S /\ s.child[d][p] = n /\ s.color[n] = BLACK
        /\ RedBut(s, S, nil) /\ s.color[s.root] = BLACK /\ s.color[nil] = BLACK
        /\ nil \notin S /\ S \subseteq Address /\ nil \in Address /\ RED # BLACK
    BY <1>2 DEF LackingFacts
  <1>4. /\ y \in Tree /\ Shape(y, S, under) /\ Ordered(y, S, under) /\ IsHidden(s, y, v, k)
        /\ Relinked(s, y) /\ Balanced(y, S, h, p, d) /\ Childless(s, v)
    BY <1>2 DEF LackingFacts
  <1>5. /\ b \in S /\ b # nil /\ b # p /\ b # s.root /\ v \notin {p, b, s.root}
        /\ outer \in S \cup {nil} /\ outer \notin {v, p, b, s.root}
    BY <1>3, SiblingIs DEF Sibling
  <1>6. outer # nil
    BY <1>3
  <1>7. /\ p \in Address \ {v} /\ b \in Address \ {v} /\ outer \in Address \ {v}
        /\ v \in Address /\ v # nil
    BY <1>3, <1>5
  <1>8. x \in Tree /\ Relinked(s, x) /\ x.key = s.key /\ x.child = s.child /\ x.root = s.root
    BY DEF Lent, Relinked
  <1>10. /\ z \in Tree /\ z.key = s.key /\ z.color = x.color
         /\ z.root = IF p = s.root THEN b ELSE s.root
         /\ \A f \in Side : z.child[f][v] = IF s.child[f][v] = p THEN b ELSE s.child[f][v]
    <2>1. x.child[Other(d)][p] = b /\ v # p /\ v # b
      BY <1>3, <1>5, <1>8
    <2>2. z \in Tree /\ z.key = x.key /\ z.color = x.color
      BY DEF Rotated
    <2>3. z.root = IF p = x.root THEN b ELSE x.root
      BY <2>1 DEF Rotated
    <2>4. \A f \in Side : z.child[f][v] = IF x.child[f][v] = p THEN b ELSE x.child[f][v]
      BY <1>3, <1>7, <2>1 DEF Rotated
    <2> QED
      BY <1>8, <2>2, <2>3, <2>4
  <1>11. v # z.root /\ Childless(z, v)
    <2>1. \A f \in Side : s.child[f][v] = nil
      BY <1>4 DEF Childless
    <2>2. p # nil
      BY <1>3
    <2> QED
      BY <1>5, <1>10, <2>1, <2>2 DEF Childless
  <1>12. /\ x.color[p] = BLACK /\ x.color[outer] = BLACK /\ x.color[b] = s.color[p]
         /\ \A a \in Address \ {p, b, outer} : x.color[a] = s.color[a]
    BY DEF Lent
  <1>13. z.color[nil] = BLACK
    BY <1>3, <1>5, <1>6, <1>10, <1>12
  <1>14. z.color[z.root] = BLACK
    <2>1. s.root \in Address
      BY <1>3 DEF Tree
    <2> QED
      BY <1>3, <1>5, <1>10, <1>12, <2>1
  <1>15. RedBut(z, S, nil)
    BY <1>3, <1>5, <1>6, LentRed
  <1>16. PICK a, u : a = Hidden(x, v, k) /\ u = Hidden(z, v, k)
    OBVIOUS
  <1>17. Lent(y, a, p, b, outer)
    BY <1>1, <1>3, <1>7, <1>8, <1>16, HiddenPaints
  <1>18. Rotated(a, u, S, p, d)
    BY <1>3, <1>7, <1>8, <1>16, HiddenRotated
  <1>19. y.child = s.child /\ y.color[b] = BLACK /\ y.color[outer] = RED
    BY <1>4, <1>7 DEF IsHidden, Relinked
  <1>20. \A e : Balanced(u, S, [h EXCEPT ![p] = h[b], ![b] = h[p], ![outer] = h[outer] + 1], nil, e)
    BY <1>3, <1>4, <1>5, <1>6, <1>17, <1>18, <1>19, LentBalanced
  <1>21. Shape(a, S, under) /\ Ordered(a, S, under) /\ a \in Tree /\ a.child = s.child
    BY <1>4, <1>17, <1>19, SameShape DEF Lent, Relinked
  <1>22. PICK w : w = Turned(a, under, p, d)
    OBVIOUS
  <1>23. Shape(u, S, w) /\ Ordered(u, S, w) /\ u \in Tree
    <2>1. a.child[Other(d)][p] # nil
      BY <1>5, <1>21
    <2>2. Shape(u, S, w)
      BY <1>3, <1>18, <1>21, <1>22, <2>1, RotateShape
    <2>3. Ordered(u, S, w)
      BY <1>3, <1>18, <1>21, <1>22, <2>1, RotateOrder
    <2> QED
      BY <1>18, <2>2, <2>3 DEF Rotated
  <1>24. Ripe(z, S, v, k, w)
    <2>1. \E g, e : Balanced(Hidden(z, v, k), S, g, nil, e)
      BY <1>16, <1>20
    <2> QED
      BY <1>3, <1>10, <1>11, <1>13, <1>14, <1>15, <1>16, <1>23, <2>1 DEF Ripe, Good
  <1>25. Kept(s, z, S)
    BY <1>3, <1>5, <1>8, TurnKept
  <1> QED
    BY <1>24, <1>25

\* Tree z has the black sibling b of Lacking painted red.
SunkFacts(s, z, S, under, v, k, p, b) ==
    /\ Repainted(s, z, b, RED) /\ z.key = s.key /\ Good(Hidden(z, v, k), S, under)
    /\ \A m \in S : \/ z.color[m] = BLACK \/ z.color[z.parent[m]] = BLACK
                    \/ z.parent[m] = p
    /\ \E g : /\ p = s.root => Balanced(Hidden(z, v, k), S, g, nil, "left")
              /\ p # s.root => Balanced(Hidden(z, v, k), S, g, s.parent[p], SideOf(s, p))

LEMMA SunkIs ==
    ASSUME NEW s, NEW S, NEW under, NEW v, NEW k, NEW n, NEW p, NEW d, NEW h,
           Lacking(s, S, under, v, k, n, p, d, h),
           NEW b, b = s.child[Other(d)][p], s.color[b] = BLACK,
           \A e \in Side : s.color[s.child[e][b]] = BLACK
    PROVE  SunkFacts(s, Paint(s, b, RED), S, under, v, k, p, b)
  <1>1. PICK y, z, a : y = Hidden(s, v, k) /\ z = Paint(s, b, RED) /\ a = Hidden(z, v, k)
    OBVIOUS
  <1>2. LackingFacts(s, y, S, under, v, k, n, p, d, h)
    BY <1>1, LackingIs
  <1>3. /\ s \in Tree /\ Shape(s, S, under) /\ d \in Side /\ k \in Int
        /\ v \in S /\ p \in S /\ RedBut(s, S, nil)
        /\ nil \notin S /\ S \subseteq Address /\ nil \in Address /\ RED # BLACK
        /\ RED \in {RED, BLACK}
    BY <1>2 DEF LackingFacts
  <1>4. /\ y \in Tree /\ Shape(y, S, under) /\ Ordered(y, S, under) /\ IsHidden(s, y, v, k)
        /\ Relinked(s, y) /\ Balanced(y, S, h, p, d)
    BY <1>2 DEF LackingFacts
  <1>5. b \in S /\ b # p /\ s.parent[b] = p /\ v # b
    BY <1>3, SiblingIs DEF Sibling
  <1>6. Repainted(s, z, b, RED) /\ z.key = s.key
    BY <1>1, <1>3, <1>5, Repaint
  <1>7. z \in Tree /\ Relinked(s, z) /\ b \in Address \ {v} /\ v \in Address
    BY <1>3, <1>5, <1>6 DEF Repainted
  <1>8. Repainted(y, a, b, RED) /\ a.key = y.key
    BY <1>1, <1>3, <1>6, <1>7, HiddenPaints, HiddenSame
  <1>9. Good(a, S, under)
    <2>1. a \in Tree /\ Relinked(y, a)
      BY <1>8 DEF Repainted
    <2> QED
      BY <1>4, <1>8, <2>1, SameShape DEF Good
  <1>10. y.root = s.root /\ y.parent = s.parent /\ y.child = s.child
    BY <1>4 DEF Relinked
  <1>11. y.color[b] = BLACK
    BY <1>4, <1>7 DEF IsHidden
  <1>12. PICK g : /\ p = s.root => Balanced(a, S, g, nil, "left")
                  /\ \A f \in Side : p # s.root /\ s.child[f][s.parent[p]] = p
                        => Balanced(a, S, g, s.parent[p], f)
    BY <1>3, <1>4, <1>5, <1>8, <1>10, <1>11, SinkBalanced
  <1>13. p # s.root => Balanced(a, S, g, s.parent[p], SideOf(s, p))
    BY <1>3, <1>12, SideIs
  <1>14. ASSUME NEW m \in S, z.color[m] # BLACK, z.color[z.parent[m]] # BLACK
         PROVE  z.parent[m] = p
    <2>1. z.parent[m] = s.parent[m] /\ s.parent[m] \in Address /\ m \in Address
      BY <1>3, <1>7 DEF Relinked, Tree
    <2>2. \A x \in Address : x # b => z.color[x] = s.color[x]
      BY <1>6 DEF Repainted
    <2>3. CASE m = b
      BY <1>5, <2>1, <2>3
    <2>4. CASE m # b
      <3>1. s.color[m] # BLACK
        BY <1>14, <2>1, <2>2, <2>4
      <3>2. s.color[s.parent[m]] = BLACK
        BY <1>3, <3>1 DEF RedBut
      <3>3. s.parent[m] = b
        BY <1>14, <2>1, <2>2, <3>2
      <3>4. PICK e \in Side : m = s.child[e][b]
        BY <1>3, <1>5, <3>3, ChildOf, Sides
      <3> QED
        BY <3>1, <3>4
    <2> QED
      BY <2>3, <2>4
  <1>15. SunkFacts(s, z, S, under, v, k, p, b)
    BY <1>1, <1>6, <1>9, <1>12, <1>13, <1>14 DEF SunkFacts
  <1> QED
    BY <1>1, <1>15

\* Now the paths through the parent lack a black,
LEMMA SunkLacking ==
    ASSUME NEW s, NEW S, NEW under, NEW v, NEW k, NEW n, NEW p, NEW d, NEW h,
           Lacking(s, S, under, v, k, n, p, d, h),
           NEW b, b = s.child[Other(d)][p], s.color[b] = BLACK,
           \A e \in Side : s.color[s.child[e][b]] = BLACK,
           s.color[p] = BLACK, p # s.root
    PROVE  \E e, g : Lacking(Paint(s, b, RED), S, under, v, k, p, s.parent[p], e, g)
  <1>1. PICK y, z : y = Hidden(s, v, k) /\ z = Paint(s, b, RED)
    OBVIOUS
  <1>2. LackingFacts(s, y, S, under, v, k, n, p, d, h)
    BY <1>1, LackingIs
  <1>3. /\ s \in Tree /\ Shape(s, S, under) /\ d \in Side /\ k \in Int
        /\ v \in S /\ Childless(s, v) /\ s.color[v] = BLACK
        /\ v \in under[n] /\ p \in S /\ s.child[d][p] = n
        /\ s.color[s.root] = BLACK /\ s.color[nil] = BLACK
        /\ nil \notin S /\ S \subseteq Address /\ nil \in Address
    BY <1>2 DEF LackingFacts
  <1>4. b \in S /\ b # p /\ b # s.root /\ v # b
    BY <1>3, SiblingIs DEF Sibling
  <1>5. SunkFacts(s, z, S, under, v, k, p, b)
    BY <1>1, SunkIs
  <1>6. PICK g : Balanced(Hidden(z, v, k), S, g, s.parent[p], SideOf(s, p))
    BY <1>5 DEF SunkFacts
  <1>7. z \in Tree /\ Relinked(s, z) /\ \A x \in Address \ {b} : z.color[x] = s.color[x]
    BY <1>5 DEF SunkFacts, Repainted
  <1>8. z.root = s.root /\ z.parent = s.parent /\ z.child = s.child
    BY <1>7 DEF Relinked
  <1>9. /\ SideOf(s, p) \in Side /\ s.parent[p] \in S
        /\ z.child[SideOf(s, p)][s.parent[p]] = p
    BY <1>3, <1>8, SideIs
  <1>10. v \in under[p]
    BY <1>3, Inside
  <1>11. /\ z.color[v] = BLACK /\ z.color[p] = BLACK /\ z.color[nil] = BLACK
         /\ z.color[z.root] = BLACK
    <2>1. s.root \in Address
      BY <1>3 DEF Tree
    <2> QED
      BY <1>3, <1>4, <1>7, <1>8, <2>1
  <1>12. RedBut(z, S, nil)
    BY <1>5, <1>11 DEF SunkFacts, RedBut
  <1>13. Childless(z, v) /\ Good(Hidden(z, v, k), S, under)
    BY <1>3, <1>5, <1>8 DEF Childless, SunkFacts
  <1>14. Lacking(z, S, under, v, k, p, s.parent[p], SideOf(s, p), g)
    BY <1>3, <1>6, <1>7, <1>8, <1>9, <1>10, <1>11, <1>12, <1>13 DEF Lacking
  <1> QED
    BY <1>1, <1>14

\* or it makes up for it.
LEMMA SunkRipe ==
    ASSUME NEW s, NEW S, NEW under, NEW v, NEW k, NEW n, NEW p, NEW d, NEW h,
           Lacking(s, S, under, v, k, n, p, d, h),
           NEW b, b = s.child[Other(d)][p], s.color[b] = BLACK,
           \A e \in Side : s.color[s.child[e][b]] = BLACK,
           s.color[p] = RED \/ p = s.root
    PROVE  /\ Ripe(Paint(Paint(s, b, RED), p, BLACK), S, v, k, under)
           /\ Kept(s, Paint(Paint(s, b, RED), p, BLACK), S)
  <1>1. PICK y, z, x : /\ y = Hidden(s, v, k) /\ z = Paint(s, b, RED)
                       /\ x = Paint(z, p, BLACK)
    OBVIOUS
  <1>2. LackingFacts(s, y, S, under, v, k, n, p, d, h)
    BY <1>1, LackingIs
  <1>3. /\ s \in Tree /\ Shape(s, S, under) /\ d \in Side /\ k \in Int
        /\ v \in S /\ Childless(s, v) /\ p \in S
        /\ s.color[s.root] = BLACK /\ s.color[nil] = BLACK
        /\ nil \notin S /\ S \subseteq Address /\ nil \in Address /\ BLACK \in {RED, BLACK}
    BY <1>2 DEF LackingFacts
  <1>4. b \in S /\ b # p /\ b # s.root /\ v \notin {b, p, s.root}
    BY <1>3, SiblingIs DEF Sibling
  <1>5. SunkFacts(s, z, S, under, v, k, p, b)
    BY <1>1, SunkIs
  <1>6. PICK g : /\ p = s.root => Balanced(Hidden(z, v, k), S, g, nil, "left")
                 /\ p # s.root => Balanced(Hidden(z, v, k), S, g, s.parent[p], SideOf(s, p))
    BY <1>5 DEF SunkFacts
  <1>7. z \in Tree /\ Relinked(s, z) /\ \A m \in Address \ {b} : z.color[m] = s.color[m]
    BY <1>5 DEF SunkFacts, Repainted
  <1>8. Repainted(z, x, p, BLACK) /\ x.key = z.key
    BY <1>1, <1>3, <1>7, Repaint
  <1>9. x \in Tree /\ Relinked(z, x) /\ p \in Address \ {v} /\ v \in Address
    BY <1>3, <1>4, <1>8 DEF Repainted
  <1>10. x.root = s.root /\ x.parent = s.parent /\ x.child = s.child /\ z.root = s.root
    BY <1>7, <1>9 DEF Relinked
  <1>11. x.color[p] = BLACK /\ \A m \in Address \ {p} : x.color[m] = z.color[m]
    BY <1>8 DEF Repainted
  <1>12. x.color[nil] = BLACK /\ x.color[x.root] = BLACK
    <2>1. s.root \in Address
      BY <1>3 DEF Tree
    <2> QED
      BY <1>3, <1>4, <1>7, <1>10, <1>11, <2>1
  <1>13. RedBut(x, S, nil)
    <2>1. ASSUME NEW m \in S
          PROVE  x.color[m] = BLACK \/ x.color[x.parent[m]] = BLACK
      <3>1. /\ x.parent[m] = s.parent[m] /\ z.parent[m] = s.parent[m]
            /\ s.parent[m] \in Address /\ m \in Address
        BY <1>3, <1>7, <1>10 DEF Relinked, Tree
      <3>2. \/ z.color[m] = BLACK \/ z.color[s.parent[m]] = BLACK \/ s.parent[m] = p
        BY <1>5, <3>1 DEF SunkFacts
      <3> QED
        BY <1>11, <3>1, <3>2
    <2> QED
      BY <2>1 DEF RedBut
  <1>14. PICK a, u : a = Hidden(z, v, k) /\ u = Hidden(x, v, k)
    OBVIOUS
  <1>15. Repainted(a, u, p, BLACK) /\ u.key = a.key
    BY <1>3, <1>7, <1>8, <1>9, <1>14, HiddenPaints, HiddenSame
  <1>16. Good(a, S, under)
    BY <1>5, <1>14 DEF SunkFacts
  <1>17. u \in Tree /\ Relinked(a, u) /\ a \in Tree /\ Shape(a, S, under) /\ Ordered(a, S, under)
    BY <1>15, <1>16 DEF Repainted, Good
  <1>18. Good(u, S, under)
    BY <1>15, <1>17, SameShape DEF Good
  <1>19. a.root = s.root /\ a.child = s.child /\ a.color[p] = z.color[p]
    <2>1. IsHidden(z, a, v, k)
      BY <1>3, <1>7, <1>9, <1>14, HiddenIs
    <2> QED
      BY <1>7, <1>9, <2>1 DEF IsHidden, Relinked
  <1>20. \E f, e : Balanced(u, S, f, nil, e)
    <2>1. CASE p = s.root
      BY <1>6, <1>14, <1>15, <1>17, <1>19, <2>1, RootBalanced
    <2>2. CASE p # s.root
      <3>1. s.color[p] = RED /\ a.color[p] = RED
        BY <1>4, <1>7, <1>9, <1>19, <2>2
      <3>2. /\ SideOf(s, p) \in Side /\ s.parent[p] \in S
            /\ a.child[SideOf(s, p)][s.parent[p]] = p
        BY <1>3, <1>19, <2>2, SideIs
      <3>3. Balanced(a, S, g, s.parent[p], SideOf(s, p))
        BY <1>6, <1>14, <2>2
      <3>4. \A e : Balanced(u, S, [g EXCEPT ![p] = g[p] + 1], nil, e)
        BY <1>3, <1>15, <1>17, <3>1, <3>2, <3>3, OwedBalanced
      <3> QED
        BY <3>4
    <2> QED
      BY <2>1, <2>2
  <1>21. v # x.root /\ Childless(x, v)
    BY <1>3, <1>4, <1>10 DEF Childless
  <1>22. Ripe(x, S, v, k, under)
    BY <1>3, <1>9, <1>12, <1>13, <1>14, <1>18, <1>20, <1>21 DEF Ripe
  <1>23. Kept(s, x, S)
    BY <1>10 DEF Kept
  <1> QED
    BY <1>1, <1>22, <1>23

\* A turn and the paints before it, in the order of rbtree2.c.
Repositioned(s, x, z, S, q, e, up) ==
    /\ Exchanged(s, x, q, up) /\ Rotated(x, z, S, q, e) /\ Kept(s, z, S)
    /\ z.key = s.key /\ z.color = x.color

LEMMA TurnPainted ==
    ASSUME NEW s \in Tree, NEW S, NEW under, Shape(s, S, under), NEW q \in S, NEW e \in Side,
           NEW up \in S, up = s.child[Other(e)][q], s.color[q] = BLACK, s.color[up] = RED,
           NEW x, x = Paint(Paint(s, q, RED), up, BLACK), NEW z, z = Rotate(x, q, e)
    PROVE  Repositioned(s, x, z, S, q, e, up)
  <1>1. up # nil /\ up # q /\ q \in Address /\ up \in Address /\ Other(e) \in Side
    BY Inside, Sides
  <1>2. Exchanged(s, x, q, up)
    BY <1>1, ExchangeBack
  <1>3. x \in Tree /\ Relinked(s, x) /\ x.key = s.key
    BY <1>2 DEF Exchanged
  <1>4. Shape(x, S, under) /\ x.child = s.child
    BY <1>3, SameShape DEF Relinked
  <1>5. Rotated(x, z, S, q, e)
    BY <1>1, <1>3, <1>4, RotateIs
  <1>6. Kept(s, z, S)
    BY <1>1, <1>3, <1>5, TurnKept
  <1>7. z.key = x.key /\ z.color = x.color
    BY <1>5 DEF Rotated
  <1> QED
    BY <1>2, <1>3, <1>5, <1>6, <1>7 DEF Repositioned

\* A red sibling is turned up.
LEMMA RedSibling ==
    ASSUME NEW s, NEW S, NEW under, NEW v, NEW k, NEW n, NEW p, NEW d, NEW h,
           Lacking(s, S, under, v, k, n, p, d, h),
           NEW b, b = s.child[Other(d)][p], s.color[b] = RED,
           NEW z, z = Rotate(Paint(Paint(s, p, RED), b, BLACK), p, d)
    PROVE  /\ \E w, g : Lacking(z, S, w, v, k, n, p, d, g)
           /\ z.key = s.key /\ z.parent[n] = p /\ Kept(s, z, S)
  <1>1. PICK y : y = Hidden(s, v, k)
    OBVIOUS
  <1>2. LackingFacts(s, y, S, under, v, k, n, p, d, h)
    BY <1>1, LackingIs
  <1>3. /\ s \in Tree /\ Shape(s, S, under) /\ d \in Side /\ Other(d) # d
        /\ p \in S /\ p # n /\ s.child[d][p] = n /\ s.color[n] = BLACK
        /\ RedBut(s, S, nil) /\ s.color[nil] = BLACK /\ RED # BLACK
    BY <1>2 DEF LackingFacts
  <1>4. b \in S /\ b # nil /\ s.parent[b] = p /\ b # n /\ b # p /\ v \notin {p, b}
    BY <1>3, SiblingIs DEF Sibling
  <1>5. s.color[p] = BLACK /\ s.color[s.child[d][b]] = BLACK
    <2>1. s.color[p] = BLACK
      BY <1>3, <1>4 DEF RedBut
    <2>2. CASE s.child[d][b] = nil
      BY <1>3, <2>1, <2>2
    <2>3. CASE s.child[d][b] # nil
      BY <1>3, <1>4, <2>1, <2>3, RedParent
    <2> QED
      BY <2>2, <2>3
  <1>6. PICK x : x = Paint(Paint(s, p, RED), b, BLACK)
    OBVIOUS
  <1>7. /\ Exchanged(s, x, p, b) /\ Rotated(x, z, S, p, d) /\ Kept(s, z, S)
        /\ z.key = s.key
    BY <1>3, <1>4, <1>5, <1>6, TurnPainted DEF Repositioned
  <1>8. PICK w, g : Lacking(z, S, w, v, k, n, p, d, g)
    BY <1>3, <1>4, <1>5, <1>7, TurnLacking
  <1>9. z.parent[n] = p
    BY <1>8 DEF Lacking
  <1> QED
    BY <1>7, <1>8, <1>9

\* The last turn.
LEMMA LastTurn ==
    ASSUME NEW s, NEW S, NEW under, NEW v, NEW k, NEW n, NEW p, NEW d, NEW h,
           Lacking(s, S, under, v, k, n, p, d, h),
           NEW b, b = s.child[Other(d)][p], s.color[b] = BLACK,
           NEW outer, outer = s.child[Other(d)][b], s.color[outer] = RED,
           NEW z, z = Rotate(Paint(Paint(Paint(s, b, s.color[p]), p, BLACK), outer, BLACK), p, d)
    PROVE  (\E w : Ripe(z, S, v, k, w)) /\ Kept(s, z, S)
  <1>1. PICK y : y = Hidden(s, v, k)
    OBVIOUS
  <1>2. LackingFacts(s, y, S, under, v, k, n, p, d, h)
    BY <1>1, LackingIs
  <1>3. /\ s \in Tree /\ Shape(s, S, under) /\ d \in Side /\ Other(d) \in Side
        /\ p \in S /\ s.color[nil] = BLACK /\ RED # BLACK /\ S \subseteq Address
    BY <1>2 DEF LackingFacts
  <1>4. /\ b \in S /\ b # nil /\ b # p
        /\ outer \in S \cup {nil} /\ outer # p /\ outer # b
    BY <1>3, SiblingIs DEF Sibling
  <1>5. outer \in S
    BY <1>3, <1>4
  <1>6. PICK x : x = Paint(Paint(Paint(s, b, s.color[p]), p, BLACK), outer, BLACK)
    OBVIOUS
  <1>7. Lent(s, x, p, b, outer)
    BY <1>3, <1>4, <1>5, <1>6, LentBack
  <1>8. x \in Tree /\ Shape(x, S, under) /\ x.child = s.child
    BY <1>3, <1>7, SameShape DEF Lent, Relinked
  <1>9. Rotated(x, z, S, p, d)
    BY <1>3, <1>4, <1>6, <1>8, RotateIs
  <1> QED
    BY <1>7, <1>9, LentRipe

Lifted(z, e, a, q, up) == z.child[e][a] = up /\ z.child[e][up] = q

\* The child on side e of a comes up from side Other(e) of its own.
LEMMA TurnBelow ==
    ASSUME NEW s \in Tree, NEW S, NEW under, Shape(s, S, under), NEW q \in S, NEW e \in Side,
           NEW up \in S, up = s.child[Other(e)][q], s.color[q] = BLACK, s.color[up] = RED,
           NEW a \in S, a # q, a # up, s.child[e][a] = q,
           NEW z, z = Rotate(Paint(Paint(s, q, RED), up, BLACK), q, e)
    PROVE  Lifted(z, e, a, q, up)
  <1>1. PICK x : x = Paint(Paint(s, q, RED), up, BLACK)
    OBVIOUS
  <1>2. Exchanged(s, x, q, up) /\ Rotated(x, z, S, q, e)
    BY <1>1, TurnPainted DEF Repositioned
  <1>3. x.child = s.child /\ a \in Address /\ up \in Address /\ up # q
    BY <1>2, Inside, Sides DEF Exchanged, Relinked
  <1>4. x.child[e][a] = q /\ x.child[Other(e)][q] = up
    BY <1>3
  <1>5. z.child[e][a] = up
    BY <1>2, <1>3, <1>4 DEF Rotated
  <1>6. z.child[e][up] = q
    BY <1>2, <1>3, <1>4 DEF Rotated
  <1> QED
    BY <1>5, <1>6 DEF Lifted

\* Where no two reds meet, the children of a red node are black.
LEMMA RedChildren ==
    ASSUME NEW s \in Tree, NEW S, NEW under, Shape(s, S, under), RedBut(s, S, nil),
           s.color[nil] = BLACK
    PROVE  \A m \in S, e \in Side :
              s.color[m] = RED /\ s.child[e][m] # nil => s.color[s.child[e][m]] = BLACK
  BY RedParent

\* A red child on the near side of a black sibling is turned up first.
Straightened(s, z, S, v, k, n, p, d, b, tmp) ==
    /\ \E w, g : Lacking(z, S, w, v, k, n, p, d, g)
    /\ z.child[Other(d)][p] = tmp /\ z.color[tmp] = BLACK
    /\ z.child[Other(d)][tmp] = b /\ z.color[b] = RED
    /\ z \in Tree /\ p \in Address /\ tmp \in Address /\ Kept(s, z, S)

LEMMA InnerTurn ==
    ASSUME NEW s, NEW S, NEW under, NEW v, NEW k, NEW n, NEW p, NEW d, NEW h,
           Lacking(s, S, under, v, k, n, p, d, h),
           NEW b, b = s.child[Other(d)][p], s.color[b] = BLACK,
           s.color[s.child[Other(d)][b]] = BLACK,
           NEW tmp, tmp = s.child[d][b], s.color[tmp] = RED,
           NEW z, z = Rotate(Paint(Paint(s, b, RED), tmp, BLACK), b, Other(d))
    PROVE  Straightened(s, z, S, v, k, n, p, d, b, tmp)
  <1>1. PICK y : y = Hidden(s, v, k)
    OBVIOUS
  <1>2. LackingFacts(s, y, S, under, v, k, n, p, d, h)
    BY <1>1, LackingIs
  <1>3. /\ s \in Tree /\ Shape(s, S, under) /\ d \in Side /\ Other(d) \in Side
        /\ Other(d) # d /\ Other(Other(d)) = d
        /\ p \in S /\ s.color[nil] = BLACK /\ RED # BLACK /\ S \subseteq Address
        /\ RedBut(s, S, nil) /\ nil \notin S
    BY <1>2 DEF LackingFacts
  <1>4. /\ b \in S /\ b # nil /\ b # p /\ b # n /\ v \notin {p, b}
        /\ tmp \in S \cup {nil} /\ tmp \notin {v, p, b, n}
    <2>1. Sibling(s, S, v, n, p, d, b)
      BY SiblingIs
    <2>2. b \in S /\ b # nil /\ b # p /\ b # n /\ v \notin {p, b}
      BY <2>1 DEF Sibling
    <2>3. s.child[d][b] \in S \cup {nil} /\ s.child[d][b] \notin {v, p, b, n}
      BY <1>3, <2>1 DEF Sibling
    <2> QED
      BY <2>2, <2>3
  <1>5. tmp \in S /\ tmp # nil
    BY <1>3, <1>4
  <1>6. s.color[s.child[Other(d)][tmp]] = BLACK
    <2>1. CASE s.child[Other(d)][tmp] = nil
      BY <1>3, <2>1
    <2>2. CASE s.child[Other(d)][tmp] # nil
      <3>1. \A m \in S, e \in Side :
               s.color[m] = RED /\ s.child[e][m] # nil => s.color[s.child[e][m]] = BLACK
        BY <1>3, RedChildren
      <3> QED
        BY <1>3, <1>5, <2>2, <3>1
    <2> QED
      BY <2>1, <2>2
  <1>7. PICK e : e = Other(d)
    OBVIOUS
  <1>8. PICK x : x = Paint(Paint(s, b, RED), tmp, BLACK)
    OBVIOUS
  <1>9. /\ e \in Side /\ tmp = s.child[Other(e)][b] /\ s.child[e][p] = b
        /\ z = Rotate(Paint(Paint(s, b, RED), tmp, BLACK), b, e)
    BY <1>3, <1>7
  <1>10. /\ Exchanged(s, x, b, tmp) /\ Rotated(x, z, S, b, e) /\ Kept(s, z, S)
         /\ z.color = x.color
    <2>1. z = Rotate(x, b, e)
      BY <1>8, <1>9
    <2>2. Repositioned(s, x, z, S, b, e, tmp)
      BY <1>3, <1>4, <1>5, <1>8, <1>9, <2>1, TurnPainted
    <2> QED
      BY <2>2 DEF Repositioned
  <1>11. z.child[e][p] = tmp /\ z.child[e][tmp] = b
    <2>1. Lifted(z, e, p, b, tmp)
      BY <1>3, <1>4, <1>5, <1>9, TurnBelow
    <2> QED
      BY <2>1 DEF Lifted
  <1>12. \E w, g : Lacking(z, S, w, v, k, n, p, d, g)
    BY <1>3, <1>4, <1>5, <1>6, <1>7, <1>9, <1>10, TurnLacking
  <1>13. z \in Tree /\ z.color[tmp] = BLACK /\ z.color[b] = RED
    BY <1>10 DEF Exchanged, Rotated
  <1>14. p \in Address /\ tmp \in Address
    BY <1>3, <1>5
  <1> QED
    BY <1>7, <1>10, <1>11, <1>12, <1>13, <1>14 DEF Straightened

LEMMA LeaveIs ==
    ASSUME Tree2Inv, pc = "erase_node"
    PROVE  Leaving /\ Typed2 /\ Vacant /\ Linked = live
  BY DEF Tree2Inv, Resting, Finding2, Sinking, Recoloring, Swapping, Linked

\* The loop goes round once more.
LEMMA StillLeaving ==
    ASSUME Typed2, Vacant, pc = "erase_node", t.key[node] = arg,
           UNCHANGED <<live, pc, arg, node, res>>,
           NEW under, NEW k, NEW d, NEW h,
           Lacking(t', live, under, node, k, cur', t'.parent[cur'], d, h),
           t'.key = t.key, Kept(t, t', live)
    PROVE  Tree2Inv'
  <1>1. cur' \in live
    BY DEF Lacking
  <1>2. Typed2'
    BY <1>1 DEF Typed2, Address
  <1>3. Vacant'
    BY Typed2Is DEF Vacant, Kept, Address
  <1>4. k \in Int
    BY DEF Lacking
  <1>5. Leaving'
    BY DEF Leaving
  <1> QED
    BY <1>2, <1>3, <1>5 DEF Tree2Inv

LEMMA SiblingRedKeeps ==
    ASSUME Tree2Inv, pc = "erase_node", NEW under, NEW k, NEW d, NEW h, NEW parent,
           Lacking(t, live, under, node, k, cur, parent, d, h),
           NEW sibling, sibling = t.child[Other(d)][parent], t.color[sibling] = RED,
           SiblingRed(sibling, parent, d)
    PROVE  Tree2Inv'
  <1>1. Typed2 /\ Vacant /\ t.key[node] = arg
    BY LeaveIs DEF Leaving
  <1>2. /\ t' = Rotate(Paint(Paint(t, parent, RED), sibling, BLACK), parent, d)
        /\ UNCHANGED <<live, pc, arg, node, res>> /\ cur' = cur
    BY DEF SiblingRed, TurnDown
  <1>3. PICK z : z = Rotate(Paint(Paint(t, parent, RED), sibling, BLACK), parent, d)
    OBVIOUS
  <1>4. /\ \E w, g : Lacking(z, live, w, node, k, cur, parent, d, g)
        /\ z.key = t.key /\ z.parent[cur] = parent /\ Kept(t, z, live)
    BY <1>3, RedSibling
  <1>5. PICK w, g : Lacking(t', live, w, node, k, cur', t'.parent[cur'], d, g)
    BY <1>2, <1>3, <1>4
  <1>6. t'.key = t.key /\ Kept(t, t', live)
    BY <1>2, <1>3, <1>4
  <1> QED
    BY <1>1, <1>2, <1>5, <1>6, StillLeaving

LEMMA NephewsBlackKeeps ==
    ASSUME Tree2Inv, pc = "erase_node", NEW under, NEW k, NEW d, NEW h, NEW parent,
           Lacking(t, live, under, node, k, cur, parent, d, h),
           NEW sibling, sibling = t.child[Other(d)][parent], t.color[sibling] = BLACK,
           \A e \in Side : t.color[t.child[e][sibling]] = BLACK,
           NephewsBlack(sibling, parent)
    PROVE  Tree2Inv'
  <1>1. Typed2 /\ Vacant /\ t.key[node] = arg
    BY LeaveIs DEF Leaving
  <1>2. k \in Int /\ t \in Tree /\ parent \in live
    BY DEF Lacking
  <1>3. CASE t.color[parent] = RED \/ parent = t.root
    <2>1. FreeLeaf(Paint(Paint(t, sibling, RED), parent, BLACK), node)
      <3>1. t.color[t.root] = BLACK /\ RED # BLACK
        BY DEF Lacking, RED, BLACK
      <3> QED
        BY <1>3, <3>1 DEF NephewsBlack
    <2>2. PICK z : z = Paint(Paint(t, sibling, RED), parent, BLACK)
      OBVIOUS
    <2>3. Ripe(z, live, node, k, under) /\ Kept(t, z, live)
      BY <1>3, <2>2, SunkRipe
    <2>4. FreeLeaf(z, node)
      BY <2>1, <2>2
    <2> QED
      BY <1>1, <1>2, <2>3, <2>4, FreeLeafRests
  <1>4. CASE ~(t.color[parent] = RED \/ parent = t.root)
    <2>1. /\ t' = Paint(t, sibling, RED) /\ cur' = parent
          /\ UNCHANGED <<live, pc, arg, node, res>>
      BY <1>4 DEF NephewsBlack
    <2>2. t.color[parent] = BLACK /\ parent # t.root
      BY <1>1, <1>2, <1>4, Typed2Is DEF Tree
    <2>3. PICK z : z = Paint(t, sibling, RED)
      OBVIOUS
    <2>4. PICK e, g : Lacking(z, live, under, node, k, parent, t.parent[parent], e, g)
      BY <2>2, <2>3, SunkLacking
    <2>5. sibling \in live
      BY SiblingIs DEF Sibling
    <2>6. sibling \in Address
      BY <1>1, <2>5, Typed2Is
    <2>7. RED \in {RED, BLACK}
      OBVIOUS
    <2>8. Painted(t, z, sibling, RED)
      BY <1>2, <2>3, <2>6, <2>7, PaintIs
    <2>9. z.key = t.key /\ z.parent = t.parent /\ Kept(t, z, live)
      BY <2>8 DEF Painted, Kept
    <2>10. Lacking(t', live, under, node, k, cur', t'.parent[cur'], e, g)
      BY <2>1, <2>3, <2>4, <2>9
    <2>11. t'.key = t.key /\ Kept(t, t', live)
      BY <2>1, <2>3, <2>9
    <2> QED
      BY <1>1, <2>1, <2>10, <2>11, StillLeaving
  <1> QED
    BY <1>3, <1>4

LEMMA NephewOuterKeeps ==
    ASSUME Tree2Inv, pc = "erase_node", NEW under, NEW k, NEW d, NEW h, NEW parent,
           Lacking(t, live, under, node, k, cur, parent, d, h),
           NEW sibling, sibling = t.child[Other(d)][parent], t.color[sibling] = BLACK,
           t.color[t.child[Other(d)][sibling]] = RED,
           NephewOuter(sibling, parent, d)
    PROVE  Tree2Inv'
  <1>1. Typed2 /\ Vacant /\ k \in Int
    BY LeaveIs DEF Lacking
  <1>2. PICK outer, z : /\ outer = t.child[Other(d)][sibling]
                        /\ z = Rotate(Paint(Paint(Paint(t, sibling, t.color[parent]),
                                                  parent, BLACK), outer, BLACK), parent, d)
    OBVIOUS
  <1>3. FreeLeaf(z, node)
    BY <1>2 DEF NephewOuter, TurnDown
  <1>4. (\E w : Ripe(z, live, node, k, w)) /\ Kept(t, z, live)
    BY <1>2, LastTurn
  <1> QED
    BY <1>1, <1>3, <1>4, FreeLeafRests

LEMMA NephewInnerKeeps ==
    ASSUME Tree2Inv, pc = "erase_node", NEW under, NEW k, NEW d, NEW h, NEW parent,
           Lacking(t, live, under, node, k, cur, parent, d, h),
           NEW sibling, sibling = t.child[Other(d)][parent], t.color[sibling] = BLACK,
           t.color[t.child[Other(d)][sibling]] = BLACK, t.color[t.child[d][sibling]] = RED,
           NephewInner(sibling, parent, d)
    PROVE  Tree2Inv'
  <1>1. Typed2 /\ Vacant /\ k \in Int
    BY LeaveIs DEF Lacking
  <1>2. PICK tmp, s : /\ tmp = t.child[d][sibling]
                      /\ s = Rotate(Paint(Paint(t, sibling, RED), tmp, BLACK), sibling, Other(d))
    OBVIOUS
  <1>3. /\ \E w, g : Lacking(s, live, w, node, k, cur, parent, d, g)
        /\ s.child[Other(d)][parent] = tmp /\ s.color[tmp] = BLACK
        /\ s.child[Other(d)][tmp] = sibling /\ s.color[sibling] = RED
        /\ s \in Tree /\ parent \in Address /\ tmp \in Address /\ Kept(t, s, live)
    <2>1. Straightened(t, s, live, node, k, cur, parent, d, sibling, tmp)
      BY <1>2, InnerTurn
    <2> QED
      BY <2>1 DEF Straightened
  <1>4. PICK u : u = Paint(Paint(s, tmp, s.color[parent]), parent, BLACK)
    OBVIOUS
  <1>5. u.child = s.child
    <2>1. PICK x : x = Paint(s, tmp, s.color[parent])
      OBVIOUS
    <2>2. s.color[parent] \in {RED, BLACK} /\ BLACK \in {RED, BLACK}
      BY <1>3 DEF Tree
    <2>3. Painted(s, x, tmp, s.color[parent])
      BY <1>3, <2>1, <2>2, PaintIs
    <2>4. x \in Tree /\ x.child = s.child
      BY <2>3 DEF Painted
    <2>5. Painted(x, u, parent, BLACK)
      BY <1>3, <1>4, <2>1, <2>2, <2>4, PaintIs
    <2> QED
      BY <2>4, <2>5 DEF Painted
  <1>6. PICK z : z = Rotate(Paint(u, sibling, BLACK), parent, d)
    OBVIOUS
  <1>7. FreeLeaf(z, node)
    <2>1. sibling = u.child[Other(d)][tmp]
      BY <1>3, <1>5
    <2>2. FreeLeaf(Rotate(Paint(u, u.child[Other(d)][tmp], BLACK), parent, d), node)
      BY <1>2, <1>4 DEF NephewInner, TurnDown
    <2> QED
      BY <1>6, <2>1, <2>2
  <1>8. PICK w, g : Lacking(s, live, w, node, k, cur, parent, d, g)
    BY <1>3
  <1>9. (\E a : Ripe(z, live, node, k, a)) /\ Kept(s, z, live)
    BY <1>3, <1>4, <1>6, <1>8, LastTurn
  <1>10. Kept(t, z, live)
    BY <1>3, <1>9 DEF Kept
  <1> QED
    BY <1>1, <1>7, <1>9, <1>10, FreeLeafRests

LEMMA EraseNodeKeeps ==
    ASSUME Tree2Inv, EraseNode
    PROVE  Tree2Inv'
  <1>1. pc = "erase_node"
    BY DEF EraseNode
  <1>2. PICK parent : parent = t.parent[cur]
    OBVIOUS
  <1>3. \E under, k, d, h : Lacking(t, live, under, node, k, cur, parent, d, h)
    BY <1>1, <1>2, LeaveIs DEF Leaving
  <1>4. PICK under, k, d, h : Lacking(t, live, under, node, k, cur, parent, d, h)
    BY <1>3
  <1>5. PICK sibling : sibling = t.child[Other(d)][parent]
    OBVIOUS
  <1>6. /\ sibling \in live /\ SideOf(t, cur) = d
        /\ \A e \in Side : t.child[e][sibling] \in live \cup {nil}
    BY <1>4, <1>5, SiblingIs DEF Sibling
  <1>7. t \in Tree /\ d \in Side
    BY <1>4 DEF Lacking
  <1>8. /\ Other(d) \in Side /\ Side = {d, Other(d)} /\ RED # BLACK
        /\ t.color[sibling] \in {RED, BLACK}
        /\ \A e \in Side : t.color[t.child[e][sibling]] \in {RED, BLACK}
    BY <1>1, <1>6, <1>7, LeaveIs, Typed2Is, Sides DEF Tree, RED, BLACK
  <1>9. \/ t.color[sibling] = RED /\ SiblingRed(sibling, parent, d)
        \/ /\ t.color[sibling] # RED
           /\ \/ /\ t.color[t.child[Other(d)][sibling]] = BLACK
                 /\ t.color[t.child[d][sibling]] = BLACK
                 /\ NephewsBlack(sibling, parent)
              \/ t.color[t.child[Other(d)][sibling]] = RED /\ NephewOuter(sibling, parent, d)
              \/ /\ t.color[t.child[Other(d)][sibling]] # RED
                 /\ t.color[t.child[d][sibling]] = RED
                 /\ NephewInner(sibling, parent, d)
    <2>1. PICK b, q, e :
             /\ e = SideOf(t, cur) /\ q = t.parent[cur] /\ b = t.child[Other(e)][q]
             /\ \/ t.color[b] = RED /\ SiblingRed(b, q, e)
                \/ /\ t.color[b] # RED
                   /\ \/ /\ t.color[t.child[Other(e)][b]] = BLACK
                         /\ t.color[t.child[e][b]] = BLACK
                         /\ NephewsBlack(b, q)
                      \/ t.color[t.child[Other(e)][b]] = RED /\ NephewOuter(b, q, e)
                      \/ /\ t.color[t.child[Other(e)][b]] # RED
                         /\ t.color[t.child[e][b]] = RED
                         /\ NephewInner(b, q, e)
      BY ZenonT(30) DEF EraseNode
    <2>2. e = d /\ q = parent /\ b = sibling
      BY <1>2, <1>5, <1>6, <2>1
    <2> QED
      BY <2>1, <2>2
  <1>10. CASE t.color[sibling] = RED /\ SiblingRed(sibling, parent, d)
    BY <1>1, <1>4, <1>5, <1>10, SiblingRedKeeps
  <1>11. CASE /\ t.color[sibling] = BLACK
              /\ t.color[t.child[Other(d)][sibling]] = BLACK
              /\ t.color[t.child[d][sibling]] = BLACK /\ NephewsBlack(sibling, parent)
    <2>1. \A e \in Side : t.color[t.child[e][sibling]] = BLACK
      BY <1>8, <1>11
    <2> QED
      BY <1>1, <1>4, <1>5, <1>11, <2>1, NephewsBlackKeeps
  <1>12. CASE /\ t.color[sibling] = BLACK
              /\ t.color[t.child[Other(d)][sibling]] = RED /\ NephewOuter(sibling, parent, d)
    BY <1>1, <1>4, <1>5, <1>12, NephewOuterKeeps
  <1>13. CASE /\ t.color[sibling] = BLACK
              /\ t.color[t.child[Other(d)][sibling]] = BLACK
              /\ t.color[t.child[d][sibling]] = RED /\ NephewInner(sibling, parent, d)
    BY <1>1, <1>4, <1>5, <1>13, NephewInnerKeeps
  <1> QED
    BY <1>7, <1>8, <1>9, <1>10, <1>11, <1>12, <1>13

-----------------------------------------------------------------------------
(* What the invariant gives.                                               *)
\* The tree, and the keys that are in order, which are its own but for one.
Sorted(under, f) ==
    /\ t \in Tree /\ Shape(t, Linked, under) /\ f \in [Address -> Int]
    /\ \A n, x \in Linked, d \in Side : x \in under[t.child[d][n]] => Before(d, f[x], f[n])
    /\ \A x \in Linked : x # Displaced => f[x] = t.key[x]

LEMMA GoodSorted ==
    ASSUME NEW under, Good(t, Linked, under)
    PROVE  \E f : Sorted(under, f)
  <1>1. Sorted(under, t.key)
    BY DEF Sorted, Good, Ordered, Tree
  <1> QED
    BY <1>1

LEMMA HiddenSorted ==
    ASSUME NEW under, NEW v \in Address, NEW k \in Int, t \in Tree,
           Good(Hidden(t, v, k), Linked, under), v = Displaced
    PROVE  \E f : Sorted(under, f)
  <1>1. PICK y : y = Hidden(t, v, k)
    OBVIOUS
  <1>2. IsHidden(t, y, v, k)
    BY <1>1, HiddenIs
  <1>3. y \in Tree /\ Ordered(y, Linked, under) /\ y.child = t.child
    BY <1>1, <1>2 DEF Good, IsHidden, Relinked
  <1>4. Shape(t, Linked, under) /\ Linked \subseteq Address
    <2>1. Shape(t, Linked, under)
      BY Unhide DEF Good
    <2> QED
      BY <2>1, Inside
  <1>5. \A x \in Linked : x # v => y.key[x] = t.key[x]
    BY <1>2, <1>4 DEF IsHidden
  <1>6. y.key \in [Address -> Int]
    BY <1>3 DEF Tree
  <1>7. Sorted(under, y.key)
    BY <1>3, <1>4, <1>5, <1>6 DEF Sorted, Ordered
  <1> QED
    BY <1>7

LEMMA SortedIs ==
    ASSUME Tree2Inv
    PROVE  \E under, f : Sorted(under, f)
  <1>1. CASE Resting
    <2>1. PICK under : Good(t, Linked, under)
      BY <1>1, RestIs
    <2> QED
      BY <2>1, GoodSorted
  <1>2. CASE Finding2 \/ Sinking \/ Recoloring
    <2>1. PICK under : Good(t, Linked, under)
      BY <1>2 DEF Finding2, Sinking, Recoloring, Linked
    <2> QED
      BY <2>1, GoodSorted
  <1>3. CASE Swapping
    <2>1. pc = "swap" /\ Linked = live /\ cur \in live /\ t \in Tree /\ cur = Displaced
      BY <1>3 DEF Swapping, Linked, Displaced
    <2>2. cur \in Address
      BY Typed2Is DEF Tree2Inv
    <2>3. \E k \in Int : \E under : Good(Hidden(t, cur, k), live, under)
      BY <1>3 DEF Swapping
    <2>4. PICK k \in Int : \E under : Good(Hidden(t, cur, k), live, under)
      BY <2>3
    <2> QED
      BY <2>1, <2>2, <2>4, HiddenSorted
  <1>4. CASE Leaving
    <2>1. pc = "erase_node" /\ Linked = live /\ node = Displaced
      BY <1>4 DEF Leaving, Linked, Displaced
    <2>2. node \in Address
      BY Typed2Is DEF Tree2Inv
    <2>3. PICK under, k : k \in Int /\ t \in Tree /\ Good(Hidden(t, node, k), live, under)
      BY <1>4 DEF Leaving, Lacking
    <2> QED
      BY <2>1, <2>2, <2>3, HiddenSorted
  <1> QED
    BY <1>1, <1>2, <1>3, <1>4 DEF Tree2Inv

\* The nodes that are not in the tree have no children.
LEMMA Loose2 ==
    ASSUME Tree2Inv
    PROVE  /\ Linked \subseteq Node
           /\ \A x \in Node \ Linked, d \in Side : t.child[d][x] \in Linked \cup {nil}
  <1>1. Linked \subseteq live /\ live \subseteq Node /\ Vacant
    BY DEF Linked, Tree2Inv, Typed2
  <1>2. CASE Resting
    BY <1>1, <1>2, RestIs DEF Vacant
  <1>3. CASE Sinking
    <2>1. Linked = live \ {node} /\ \A d \in Side : t.child[d][node] = nil
      BY <1>3 DEF Sinking, Linked, Childless
    <2> QED
      BY <1>1, <2>1 DEF Vacant
  <1>4. CASE Finding2 \/ Recoloring \/ Swapping \/ Leaving
    <2>1. Linked = live
      BY <1>4 DEF Finding2, Recoloring, Swapping, Leaving, Linked
    <2> QED
      BY <1>1, <2>1 DEF Vacant
  <1> QED
    BY <1>2, <1>3, <1>4 DEF Tree2Inv

LEMMA SearchTree2Holds ==
    ASSUME Tree2Inv, file = "rbtree2.c"
    PROVE  SearchTree
  <1>1. PICK under, f : Sorted(under, f)
    BY SortedIs
  <1>2. /\ t \in Tree /\ Shape(t, Linked, under) /\ f \in [Address -> Int]
        /\ \A n, x \in Linked, d \in Side : x \in under[t.child[d][n]] => Before(d, f[x], f[n])
        /\ \A x \in Linked : x # Displaced => f[x] = t.key[x]
    BY <1>1 DEF Sorted
  <1>3. PICK rank : Ranked(rank, Cardinality(Node) + 1)
    BY <1>2, Loose2, Ranks
  <1>4. t.root \in Linked \cup {nil} /\ under[t.root] = Linked /\ under[nil] = {}
    BY <1>2 DEF Shape, Rooted
  <1>5. PICK w : w = InOrder
    OBVIOUS
  <1>6. Lists(w, Linked) /\ Rising(f, w)
    <2>1. w = IF t.root = nil THEN <<>> ELSE in_order[t.root]
      BY <1>5 DEF InOrder, to_array2
    <2>2. CASE t.root = nil
      BY <1>4, <2>1, <2>2, ListEmpty
    <2>3. CASE t.root # nil
      BY <1>2, <1>3, <1>4, <2>1, <2>3, InLists
    <2> QED
      BY <2>2, <2>3
  <1>7. DOMAIN w = 1 .. Len(w)
    BY <1>6 DEF Lists
  <1>8. IsInjective(w)
    BY <1>6, <1>7 DEF IsInjective, Lists
  <1>9. ToSet(w) = Linked
    BY <1>6, <1>7 DEF ToSet, Lists
  <1>10. \A i, j \in DOMAIN w :
            i < j /\ Displaced \notin {w[i], w[j]} => t.key[w[i]] <= t.key[w[j]]
    <2>1. \A i \in DOMAIN w : w[i] \in Linked
      BY <1>6, <1>7 DEF Lists
    <2>2. \A i, j \in DOMAIN w : i < j => f[w[i]] <= f[w[j]]
      BY <1>6, <1>7 DEF Rising
    <2>3. \A i \in DOMAIN w : w[i] # Displaced => f[w[i]] = t.key[w[i]]
      BY <1>2, <2>1
    <2>4. ASSUME NEW i \in DOMAIN w, NEW j \in DOMAIN w, i < j,
                 Displaced # w[i], Displaced # w[j]
          PROVE  t.key[w[i]] <= t.key[w[j]]
      <3>1. f[w[i]] = t.key[w[i]] /\ f[w[j]] = t.key[w[j]] /\ f[w[i]] <= f[w[j]]
        BY <2>2, <2>3, <2>4
      <3> QED
        BY <3>1
    <2> QED
      BY <2>4
  <1>11. /\ t.root # nil => t.parent[t.root] = nil
         /\ \A n \in Linked, d \in Side : t.child[d][n] # nil => t.parent[t.child[d][n]] = n
    BY <1>2 DEF Shape, Rooted, Parted
  <1> QED
    BY <1>5, <1>8, <1>9, <1>10, <1>11 DEF SearchTree

LEMMA Delete2Holds ==
    ASSUME Tree2Inv, file = "rbtree2.c"
    PROVE  DeleteFreesAll
  <1>1. ASSUME pc = "idle" PROVE IsInjective(Deleted2)
    <2>1. Resting /\ TreeInv
      BY <1>1, IdleIs DEF Resting
    <2>2. PICK under : Good(t, Linked, under)
      BY <2>1 DEF TreeInv, Fits
    <2>3. t \in Tree /\ Shape(t, Linked, under) /\ t.root \in Linked \cup {nil}
      BY <2>2 DEF Good, Shape, Rooted
    <2>4. PICK rank : Ranked(rank, Cardinality(Node) + 1)
      BY <2>1, <2>3, Loose, Ranks
    <2>5. PICK w : w = delete_dfs[t.root]
      OBVIOUS
    <2>6. Lists(w, under[t.root])
      BY <2>2, <2>3, <2>4, <2>5, DfsLists
    <2>7. DOMAIN w = 1 .. Len(w)
      BY <2>6 DEF Lists
    <2>8. IsInjective(w)
      BY <2>6, <2>7 DEF IsInjective, Lists
    <2> QED
      BY <2>1, <2>5, <2>8, DeletedIs
  <1>2. ASSUME pc = "deleted" PROVE live = {}
    <2>1. TreeInv
      BY <1>2, IdleIs DEF Resting
    <2> QED
      BY <1>2, <2>1 DEF TreeInv, Fits
  <1> QED
    BY <1>1, <1>2 DEF DeleteFreesAll

LEMMA Heights2 ==
    ASSUME Tree2Inv
    PROVE  BlackHeight[t.root] # -1
  <1>1. PICK under, f : Sorted(under, f)
    BY SortedIs
  <1>2. t \in Tree /\ Shape(t, Linked, under) /\ nil \notin Linked
    BY <1>1, Inside DEF Sorted
  <1>3. CASE pc # "erase_node"
    <2>1. PICK h : Balanced(t, Linked, h, nil, "left")
      <3>1. CASE Resting
        BY <3>1, RestIs DEF Colored
      <3>2. CASE Finding2 \/ Sinking \/ Recoloring \/ Swapping
        BY <3>2 DEF Finding2, Sinking, Recoloring, Swapping, Colored, Linked
      <3>3. CASE Leaving
        BY <1>3, <3>3 DEF Leaving
      <3> QED
        BY <3>1, <3>2, <3>3 DEF Tree2Inv
    <2>2. pc # "erase_fixup"
      BY DEF Tree2Inv, Resting, Finding2, Sinking, Recoloring, Swapping, Leaving
    <2>3. \A m \in Linked, d \in Side : Extra(m, d) = Lacks(m, d, nil, "left")
      BY <1>2, <1>3, <2>2 DEF Extra, Lacks
    <2>4. \A m \in Linked : Counts(m) <=> t.color[m] = BLACK
      BY <1>3 DEF Counts
    <2> QED
      BY <1>2, <2>1, <2>3, <2>4, Loose2, HeightsAgree
  <1>4. CASE pc = "erase_node"
    <2>1. Linked = live
      BY <1>4, LeaveIs
    <2>2. PICK p : p = t.parent[cur]
      OBVIOUS
    <2>3. \E w, k, d, h : Lacking(t, Linked, w, node, k, cur, p, d, h)
      BY <1>4, <2>1, <2>2, LeaveIs DEF Leaving
    <2>4. PICK w, k, d, h : Lacking(t, Linked, w, node, k, cur, p, d, h)
      BY <2>3
    <2>5. PICK y : y = Hidden(t, node, k)
      OBVIOUS
    <2>6. LackingFacts(t, y, Linked, w, node, k, cur, p, d, h)
      BY <2>4, <2>5, LackingIs
    <2>7. /\ Relinked(t, y) /\ IsHidden(t, y, node, k) /\ Balanced(y, Linked, h, p, d)
          /\ p \in Linked /\ d \in Side /\ t.child[d][p] = cur /\ cur \in Linked
          /\ Linked \subseteq Address /\ RED # BLACK
      BY <2>6 DEF LackingFacts
    <2>8. cur # nil
      BY <1>2, <2>7
    <2>9. \A e \in Side : t.child[e][p] = cur => e = d
      BY <1>2, <2>7, <2>8, OneSide
    <2>10. \A m \in Linked, e \in Side : Extra(m, e) = Lacks(m, e, p, d)
      BY <1>4, <2>2, <2>7, <2>9 DEF Extra, Lacks
    <2>11. \A m \in Linked : Counts(m) <=> y.color[m] = BLACK
      BY <1>4, <2>7 DEF Counts, IsHidden
    <2>12. y.child = t.child
      BY <2>7 DEF Relinked
    <2> QED
      BY <1>2, <2>7, <2>10, <2>11, <2>12, Loose2, HeightsAgree
  <1> QED
    BY <1>3, <1>4

LEMMA RedBlack2Holds ==
    ASSUME Tree2Inv
    PROVE  RedBlack
  <1>1. t.color[nil] = BLACK /\ t.color[t.root] = BLACK
    <2>1. CASE Resting
      BY <2>1, RestIs DEF Colored
    <2>2. CASE Finding2 \/ Sinking \/ Recoloring \/ Swapping \/ Leaving
      BY <2>2 DEF Finding2, Sinking, Recoloring, Swapping, Leaving, Lacking, Colored
    <2> QED
      BY <2>1, <2>2 DEF Tree2Inv
  <1>2. \A n \in Linked : \/ t.color[n] = BLACK \/ t.color[t.parent[n]] = BLACK
                          \/ pc = "color_fix" /\ n = cur
    <2>1. nil \notin Linked
      BY Loose2, Typed2Is DEF Tree2Inv
    <2>2. CASE Resting
      BY <2>1, <2>2, RestIs DEF Colored, RedBut
    <2>3. CASE Finding2 \/ Sinking \/ Recoloring \/ Swapping \/ Leaving
      BY <2>1, <2>3 DEF Finding2, Sinking, Recoloring, Swapping, Leaving, Lacking, Colored,
                        Linked, RedBut
    <2> QED
      BY <2>2, <2>3 DEF Tree2Inv
  <1> QED
    BY <1>1, <1>2, Heights2 DEF RedBlack

LEMMA Lookup2Holds ==
    ASSUME Tree2Inv
    PROVE  /\ FindMiss \/ Find2Miss => \A n \in live : t.key[n] # arg
           /\ FindHit \/ Find2Hit => cur \in live /\ t.key[cur] = arg
           /\ OutmostDone /\ live # {} => IsOutmost(cur, pc)
  <1>1. ~FindMiss /\ ~FindHit
    BY DEF Tree2Inv, Resting, Finding2, Sinking, Recoloring, Swapping, Leaving, FindMiss, FindHit
  <1>2. ASSUME Find2Miss PROVE \A n \in live : t.key[n] # arg
    <2>1. /\ pc = "find2"
          /\ cur = nil \/ (arg # t.key[cur] /\ t.child[Toward][cur] = nil)
      BY <1>2 DEF Find2Miss
    <2>2. PICK under : /\ Good(t, live, under)
                       /\ \A x \in live : t.key[x] = arg => x \in under[cur]
      BY <2>1, Find2Is DEF Finding2
    <2>3. under[nil] = {} /\ cur \in live \cup {nil} /\ arg \in Int
      BY <2>1, <2>2, Find2Is, Typed2Is DEF Good, Shape, Rooted, Finding2, Tree2Inv
    <2>4. CASE cur = nil
      BY <2>2, <2>3, <2>4
    <2>5. CASE cur # nil
      BY <2>1, <2>2, <2>3, <2>5, TowardIs DEF Good
    <2> QED
      BY <2>4, <2>5
  <1>3. ASSUME Find2Hit PROVE cur \in live /\ t.key[cur] = arg
    BY <1>3, Find2Is DEF Find2Hit, Finding2
  <1>4. ASSUME OutmostDone PROVE live # {} => IsOutmost(cur, pc)
    <2>1. pc \in {"left", "right"}
      BY <1>4 DEF OutmostDone, Side
    <2>2. TreeInv
      BY <2>1, IdleIs DEF Resting
    <2> QED
      BY <1>4, <2>2, LookupHolds
  <1> QED
    BY <1>1, <1>2, <1>3, <1>4

-----------------------------------------------------------------------------
(* The keys that an erasure leaves.                                        *)
\* A tree with the keys of s.
SameKeys(s, z) == z \in Tree /\ z.key = s.key

LEMMA PaintKeys ==
    ASSUME NEW s \in Tree, NEW n \in Address, NEW c \in {RED, BLACK}
    PROVE  SameKeys(s, Paint(s, n, c))
  BY PaintIs DEF SameKeys, Painted

LEMMA SetChildKeys ==
    ASSUME NEW s \in Tree, NEW d \in Side, NEW n \in Address, NEW m \in Address
    PROVE  SameKeys(s, SetChild(s, d, n, m))
  BY SetChildIs DEF SameKeys, ChildSet

LEMMA SetParentKeys ==
    ASSUME NEW s \in Tree, NEW n \in Address, NEW p \in Address
    PROVE  SameKeys(s, SetParent(s, n, p))
  BY SetParentIs DEF SameKeys, ParentSet

LEMMA ReplaceKeys ==
    ASSUME NEW s \in Tree, NEW n \in Address, NEW m \in Address
    PROVE  SameKeys(s, Replace(s, n, m))
  <1>1. CASE n = s.root
    <2>1. RootSet(s, [s EXCEPT !.root = m], m)
      BY SetRootIs
    <2> QED
      BY <1>1, <2>1 DEF Replace, SameKeys, RootSet
  <1>2. CASE n # s.root
    <2>1. SideOf(s, n) \in Side /\ s.parent[n] \in Address
      BY DEF SideOf, Side, Tree
    <2> QED
      BY <1>2, <2>1, SetChildKeys DEF Replace
  <1> QED
    BY <1>1, <1>2

LEMMA RotateKeys ==
    ASSUME NEW s \in Tree, NEW n \in Address, NEW d \in Side
    PROVE  SameKeys(s, Rotate(s, n, d))
  <1>1. PICK up, inner, p : up = s.child[Other(d)][n] /\ inner = s.child[d][up] /\ p = s.parent[n]
    OBVIOUS
  <1>2. Other(d) \in Side /\ up \in Address /\ inner \in Address /\ p \in Address
    BY <1>1, Sides DEF Tree
  <1>3. PICK a : a = Replace(s, n, up)
    OBVIOUS
  <1>4. a \in Tree /\ a.key = s.key
    BY <1>2, <1>3, ReplaceKeys DEF SameKeys
  <1>5. PICK b : b = SetParent(a, up, p)
    OBVIOUS
  <1>6. b \in Tree /\ b.key = s.key
    BY <1>2, <1>4, <1>5, SetParentKeys DEF SameKeys
  <1>7. PICK c : c = IF inner = nil THEN b ELSE SetParent(b, inner, n)
    OBVIOUS
  <1>8. c \in Tree /\ c.key = s.key
    BY <1>2, <1>6, <1>7, SetParentKeys DEF SameKeys
  <1>9. PICK e : e = SetChild(c, Other(d), n, inner)
    OBVIOUS
  <1>10. e \in Tree /\ e.key = s.key
    <2>1. SameKeys(c, SetChild(c, Other(d), n, inner))
      BY <1>2, <1>8, SetChildKeys
    <2> QED
      BY <1>8, <1>9, <2>1 DEF SameKeys
  <1>11. PICK f : f = SetParent(e, n, up)
    OBVIOUS
  <1>12. f \in Tree /\ f.key = s.key
    BY <1>2, <1>10, <1>11, SetParentKeys DEF SameKeys
  <1>13. SameKeys(f, SetChild(f, d, up, n))
    BY <1>2, <1>12, SetChildKeys
  <1>14. Rotate(s, n, d) = IF up = nil THEN s ELSE SetChild(f, d, up, n)
    BY <1>1, <1>3, <1>5, <1>7, <1>9, <1>11 DEF Rotate
  <1> QED
    BY <1>12, <1>13, <1>14 DEF SameKeys

LEMMA UnlinkKeys ==
    ASSUME NEW s \in Tree, NEW v \in Node
    PROVE  \A x \in Address \ {v} : Unlink(s, v).key[x] = s.key[x]
  <1>1. PICK z : z = IF s.child["right"][s.parent[v]] = v THEN SetChild(s, "right", s.parent[v], nil)
                                                        ELSE SetChild(s, "left", s.parent[v], nil)
    OBVIOUS
  <1>2. z \in Tree /\ z.key = s.key
    <2>1. s.parent[v] \in Address /\ nil \in Address /\ "left" \in Side /\ "right" \in Side
      BY DEF Tree, Address, Side
    <2>2. \A d \in Side : SameKeys(s, SetChild(s, d, s.parent[v], nil))
      BY <2>1, SetChildKeys
    <2> QED
      BY <1>1, <2>1, <2>2 DEF SameKeys
  <1>3. Blanked(z, Blank(z, v), v)
    BY <1>2, BlankIs
  <1>4. Unlink(s, v) = Blank(z, v)
    BY <1>1 DEF Unlink
  <1> QED
    BY <1>2, <1>3, <1>4 DEF Blanked

\* Node v is gone, and the others have their keys.
OneGone(v) == live' = live \ {v} /\ pc' = "idle" /\ \A x \in live \ {v} : t'.key[x] = t.key[x]

LEMMA FreeLeafKeys ==
    ASSUME Typed2, NEW z, SameKeys(t, z), NEW v \in live, FreeLeaf(z, v)
    PROVE  OneGone(v)
  <1>1. v \in Node /\ live \subseteq Address
    BY Typed2Is
  <1>2. t' = Unlink(z, v) /\ live' = live \ {v} /\ pc' = "idle"
    BY DEF FreeLeaf, Return
  <1>3. \A x \in Address \ {v} : Unlink(z, v).key[x] = z.key[x]
    BY <1>1, UnlinkKeys DEF SameKeys
  <1> QED
    BY <1>1, <1>2, <1>3 DEF OneGone, SameKeys

\* An iteration of erase_node's loop moves no key.
LEMMA EraseNodeKeys ==
    ASSUME Tree2Inv, EraseNode
    PROVE  \/ live' = live /\ pc' = "erase_node" /\ t'.key = t.key
           \/ OneGone(node)
  <1>1. pc = "erase_node"
    BY DEF EraseNode
  <1>2. Typed2 /\ t \in Tree /\ node \in live /\ cur \in Address
    <2>1. Leaving /\ Typed2
      BY <1>1, LeaveIs
    <2> QED
      BY <2>1 DEF Leaving, Lacking, Typed2
  <1>3. PICK d, p, b :
             /\ d = SideOf(t, cur) /\ p = t.parent[cur] /\ b = t.child[Other(d)][p]
             /\ \/ t.color[b] = RED /\ SiblingRed(b, p, d)
                \/ /\ t.color[b] # RED
                   /\ \/ /\ t.color[t.child[Other(d)][b]] = BLACK
                         /\ t.color[t.child[d][b]] = BLACK
                         /\ NephewsBlack(b, p)
                      \/ t.color[t.child[Other(d)][b]] = RED /\ NephewOuter(b, p, d)
                      \/ /\ t.color[t.child[Other(d)][b]] # RED
                         /\ t.color[t.child[d][b]] = RED
                         /\ NephewInner(b, p, d)
    BY ZenonT(30) DEF EraseNode
  <1>a. d = SideOf(t, cur) /\ p = t.parent[cur] /\ b = t.child[Other(d)][p]
    BY <1>3
  <1>4. d \in Side
    BY <1>a DEF SideOf, Side
  <1>5. Other(d) \in Side
    BY <1>4, Sides
  <1>6. p \in Address /\ b \in Address
    <2>1. p \in Address
      BY <1>2, <1>a DEF Tree
    <2>2. b \in Address
      BY <1>2, <1>a, <1>5, <2>1 DEF Tree
    <2> QED
      BY <2>1, <2>2
  <1>7. /\ RED \in {RED, BLACK} /\ BLACK \in {RED, BLACK}
        /\ \A s \in Tree : s.color[p] \in {RED, BLACK}
    BY <1>6 DEF Tree
  <1>8. PICK x : x = Paint(t, b, RED)
    OBVIOUS
  <1>9. x \in Tree /\ x.key = t.key
    BY <1>2, <1>6, <1>7, <1>8, PaintKeys DEF SameKeys
  <1>10. CASE SiblingRed(b, p, d)
    <2>1. PICK u, w : u = Paint(t, p, RED) /\ w = Paint(u, b, BLACK)
      OBVIOUS
    <2>2. u \in Tree /\ u.key = t.key
      BY <1>2, <1>6, <1>7, <2>1, PaintKeys DEF SameKeys
    <2>3. w \in Tree /\ w.key = t.key
      BY <1>6, <1>7, <2>1, <2>2, PaintKeys DEF SameKeys
    <2>4. Rotate(w, p, d).key = t.key
      BY <1>4, <1>6, <2>3, RotateKeys DEF SameKeys
    <2> QED
      BY <1>1, <1>10, <2>1, <2>4 DEF SiblingRed, TurnDown
  <1>11. CASE NephewsBlack(b, p)
    <2>1. CASE FreeLeaf(Paint(x, p, BLACK), node)
      <3>1. SameKeys(t, Paint(x, p, BLACK))
        BY <1>6, <1>7, <1>9, PaintKeys DEF SameKeys
      <3> QED
        BY <1>2, <2>1, <3>1, FreeLeafKeys
    <2>2. CASE t' = x /\ live' = live /\ pc' = pc
      BY <1>1, <1>9, <2>2
    <2> QED
      BY <1>8, <1>11, <2>1, <2>2 DEF NephewsBlack
  <1>12. CASE NephewOuter(b, p, d)
    <2>1. PICK o, u, w, y : /\ o = t.child[Other(d)][b] /\ u = Paint(t, b, t.color[p])
                            /\ w = Paint(u, p, BLACK) /\ y = Paint(w, o, BLACK)
      OBVIOUS
    <2>2. o \in Address
      BY <1>2, <1>5, <1>6, <2>1 DEF Tree
    <2>3. u \in Tree /\ u.key = t.key
      BY <1>2, <1>6, <1>7, <2>1, PaintKeys DEF SameKeys
    <2>4. w \in Tree /\ w.key = t.key
      BY <1>6, <1>7, <2>1, <2>3, PaintKeys DEF SameKeys
    <2>5. y \in Tree /\ y.key = t.key
      BY <1>7, <2>1, <2>2, <2>4, PaintKeys DEF SameKeys
    <2>6. SameKeys(t, Rotate(y, p, d))
      BY <1>4, <1>6, <2>5, RotateKeys DEF SameKeys
    <2>7. FreeLeaf(Rotate(y, p, d), node)
      BY <1>12, <2>1 DEF NephewOuter, TurnDown
    <2> QED
      BY <1>2, <2>6, <2>7, FreeLeafKeys
  <1>13. CASE NephewInner(b, p, d)
    <2>1. PICK c, u, w : c = t.child[d][b] /\ u = Paint(x, c, BLACK) /\ w = Rotate(u, b, Other(d))
      OBVIOUS
    <2>2. c \in Address
      BY <1>2, <1>4, <1>6, <2>1 DEF Tree
    <2>3. u \in Tree /\ u.key = t.key
      BY <1>7, <1>9, <2>1, <2>2, PaintKeys DEF SameKeys
    <2>4. w \in Tree /\ w.key = t.key
      BY <1>5, <1>6, <2>1, <2>3, RotateKeys DEF SameKeys
    <2>5. PICK y, z : y = Paint(w, c, w.color[p]) /\ z = Paint(y, p, BLACK)
      OBVIOUS
    <2>6. y \in Tree /\ y.key = t.key
      BY <1>7, <2>2, <2>4, <2>5, PaintKeys DEF SameKeys
    <2>7. z \in Tree /\ z.key = t.key
      BY <1>6, <1>7, <2>5, <2>6, PaintKeys DEF SameKeys
    <2>8. PICK o, v : o = z.child[Other(d)][c] /\ v = Paint(z, o, BLACK)
      OBVIOUS
    <2>9. o \in Address
      BY <1>5, <2>2, <2>7, <2>8 DEF Tree
    <2>10. v \in Tree /\ v.key = t.key
      BY <1>7, <2>7, <2>8, <2>9, PaintKeys DEF SameKeys
    <2>11. SameKeys(t, Rotate(v, p, d))
      BY <1>4, <1>6, <2>10, RotateKeys DEF SameKeys
    <2>12. FreeLeaf(Rotate(v, p, d), node)
      BY <1>8, <1>13, <2>1, <2>5, <2>8 DEF NephewInner, TurnDown
    <2> QED
      BY <1>2, <2>11, <2>12, FreeLeafKeys
  <1> QED
    BY <1>3, <1>10, <1>11, <1>12, <1>13

\* A leaf is freed here, or left to the loop.
LEMMA EraseLeafKeys ==
    ASSUME Tree2Inv, EraseLeaf
    PROVE  \/ live' = live /\ pc' = "erase_node" /\ t'.key = t.key
           \/ OneGone(cur)
  <1>1. pc = "swap"
    BY DEF EraseLeaf
  <1>2. Typed2 /\ t \in Tree /\ cur \in live /\ cur \in Node
    BY <1>1, SwapIs, Typed2Is DEF Swapping
  <1>3. CASE t' = Blank([t EXCEPT !.root = nil], cur) /\ live' = live \ {cur} /\ Return
    <2>1. PICK s : s = [t EXCEPT !.root = nil]
      OBVIOUS
    <2>2. RootSet(t, s, nil)
      <3>1. nil \in Address
        BY DEF Address
      <3> QED
        BY <1>2, <2>1, <3>1, SetRootIs
    <2>3. s \in Tree /\ s.key = t.key
      BY <2>2 DEF RootSet
    <2>4. Blanked(s, Blank(s, cur), cur)
      BY <1>2, <2>3, BlankIs
    <2>5. live \subseteq Address
      BY <1>2, Typed2Is
    <2> QED
      BY <1>3, <2>1, <2>3, <2>4, <2>5 DEF Blanked, OneGone, Return
  <1>4. CASE FreeLeaf(t, cur)
    BY <1>2, <1>4, FreeLeafKeys DEF SameKeys
  <1>5. CASE pc' = "erase_node" /\ UNCHANGED <<t, live>>
    BY <1>5
  <1> QED
    BY <1>3, <1>4, <1>5 DEF EraseLeaf

\* The nodes with key k.
LEMMA HeldSame ==
    ASSUME live' = live, \A n \in live : t'.key[n] = t.key[n]
    PROVE  \A k : Held(k)' = Held(k)
  <1>1. \A k : {n \in live' : t'.key[n] = k} = {n \in live : t.key[n] = k}
    OBVIOUS
  <1> QED
    BY <1>1 DEF Held

LEMMA HeldLess ==
    ASSUME IsFiniteSet(live), NEW v \in live, OneGone(v)
    PROVE  \A k : Held(k)' = IF k = t.key[v] THEN Held(k) - 1 ELSE Held(k)
  <1> SUFFICES ASSUME NEW k
               PROVE  Held(k)' = IF k = t.key[v] THEN Held(k) - 1 ELSE Held(k)
    OBVIOUS
  <1>1. PICK old : old = {n \in live : t.key[n] = k}
    OBVIOUS
  <1>2. IsFiniteSet(old)
    BY <1>1, FS_Subset
  <1>3. {n \in live' : t'.key[n] = k} = old \ {v}
    BY <1>1 DEF OneGone
  <1>4. Held(k) = Cardinality(old)
    BY <1>1 DEF Held
  <1>5. Held(k)' = Cardinality(old \ {v})
    BY <1>3 DEF Held
  <1>6. Cardinality(old \ {v}) = IF v \in old THEN Cardinality(old) - 1 ELSE Cardinality(old)
    BY <1>2, FS_RemoveElement
  <1>7. v \in old <=> k = t.key[v]
    BY <1>1
  <1> QED
    BY <1>4, <1>5, <1>6, <1>7

\* One element of a set makes way for another.
LEMMA Traded ==
    ASSUME NEW A, IsFiniteSet(A), NEW c \in A, NEW w, w \notin A
    PROVE  Cardinality((A \ {c}) \cup {w}) = Cardinality(A)
  <1>1. IsFiniteSet(A \ {c}) /\ Cardinality(A \ {c}) = Cardinality(A) - 1
    BY FS_RemoveElement
  <1>2. Cardinality((A \ {c}) \cup {w}) = Cardinality(A \ {c}) + 1
    BY <1>1, FS_AddElement
  <1>3. Cardinality(A) \in Nat
    BY FS_CardinalityType
  <1> QED
    BY <1>1, <1>2, <1>3

LEMMA HeldSwapped ==
    ASSUME IsFiniteSet(live), live \subseteq Address, live' = live, NEW c \in live, NEW w \in live,
           Swapped(t, t', c, w)
    PROVE  \A k : Held(k)' = Held(k)
  <1> SUFFICES ASSUME NEW k PROVE Held(k)' = Held(k)
    OBVIOUS
  <1>1. \A x \in live : t'.key[x] = IF x = w THEN t.key[c] ELSE IF x = c THEN t.key[w] ELSE t.key[x]
    BY DEF Swapped
  <1>2. PICK old, new : old = {n \in live : t.key[n] = k} /\ new = {n \in live : t'.key[n] = k}
    OBVIOUS
  <1>3. Held(k) = Cardinality(old) /\ Held(k)' = Cardinality(new)
    BY <1>2 DEF Held
  <1>4. IsFiniteSet(old)
    BY <1>2, FS_Subset
  <1>5. CASE c \in old /\ w \notin old
    <2>1. new = (old \ {c}) \cup {w}
      BY <1>1, <1>2, <1>5
    <2> QED
      BY <1>3, <1>4, <1>5, <2>1, Traded
  <1>6. CASE w \in old /\ c \notin old
    <2>1. new = (old \ {w}) \cup {c}
      BY <1>1, <1>2, <1>6
    <2> QED
      BY <1>3, <1>4, <1>6, <2>1, Traded
  <1>7. CASE c \in old <=> w \in old
    <2>1. new = old
      BY <1>1, <1>2, <1>7
    <2> QED
      BY <1>3, <2>1
  <1> QED
    BY <1>5, <1>6, <1>7

\* The step that EraseTakesItsKey is about.
Taken == pc = "swap" \/ pc = "erase_node" =>
            \A k \in Key : Held(k)' = IF pc' = "idle" /\ k = arg THEN Held(k) - 1 ELSE Held(k)

LEMMA EraseTakes ==
    ASSUME Tree2Inv, Swap \/ EraseLeaf \/ EraseNode
    PROVE  Taken
  <1>1. Typed2 /\ live \subseteq Address /\ IsFiniteSet(live)
    BY Typed2Is, KeyAssumption, FS_Subset DEF Tree2Inv, Typed2
  <1>2. CASE Swap
    <2>1. pc = "swap" /\ ~IsLeaf(cur) /\ live' = live /\ pc' = pc
      BY <1>2 DEF Swap
    <2>2. cur \in live /\ t \in Tree
      BY <2>1, SwapIs DEF Swapping
    <2>3. \E k \in Int : \E under : Good(Hidden(t, cur, k), live, under)
      BY <2>1, SwapIs DEF Swapping
    <2>4. PICK k \in Int : \E under : Good(Hidden(t, cur, k), live, under)
      BY <2>3
    <2>5. PICK under : Good(Hidden(t, cur, k), live, under)
      BY <2>4
    <2>6. PICK w : w = SwapWith
      OBVIOUS
    <2>7. w \in live
      BY <2>1, <2>5, <2>6, SwapWithIs
    <2>8. Swapped(t, t', cur, w)
      <3>1. t' = [t EXCEPT !.key[cur] = t.key[w], !.key[w] = t.key[cur]]
        BY <1>2, <2>6 DEF Swap
      <3> QED
        BY <1>1, <2>2, <2>7, <3>1, SwappedIs
    <2>9. \A a : Held(a)' = Held(a)
      BY <1>1, <2>1, <2>2, <2>7, <2>8, HeldSwapped
    <2> QED
      BY <2>1, <2>9 DEF Taken
  <1>3. ASSUME live' = live /\ pc' = "erase_node" /\ t'.key = t.key
        PROVE  Taken
    <2>1. \A a : Held(a)' = Held(a)
      BY <1>3, HeldSame
    <2> QED
      BY <1>3, <2>1 DEF Taken
  <1>4. ASSUME NEW v \in live, t.key[v] = arg, OneGone(v)
        PROVE  Taken
    <2>1. \A k : Held(k)' = IF k = t.key[v] THEN Held(k) - 1 ELSE Held(k)
      BY <1>1, <1>4, HeldLess
    <2> QED
      BY <1>4, <2>1 DEF Taken, OneGone
  <1>5. CASE EraseLeaf
    <2>1. cur \in live /\ t.key[cur] = arg
      BY <1>5, SwapIs DEF EraseLeaf, Swapping
    <2> QED
      BY <1>3, <1>4, <1>5, <2>1, EraseLeafKeys
  <1>6. CASE EraseNode
    <2>1. node \in live /\ t.key[node] = arg
      BY <1>6, LeaveIs DEF EraseNode, Leaving, Lacking
    <2> QED
      BY <1>3, <1>4, <1>6, <2>1, EraseNodeKeys
  <1> QED
    BY <1>2, <1>5, <1>6

-----------------------------------------------------------------------------
(* The theorems.                                                           *)
File2Inv == file = "rbtree2.c" /\ Tree2Inv

LEMMA CallKeeps2 ==
    ASSUME Tree2Inv, CallStep2
    PROVE  Tree2Inv'
  BY SinkKeeps, SinkEndKeeps, ColorFixKeeps, ColorFixEndKeeps, SwapKeeps, EraseLeafKeeps,
     EraseNodeKeeps, Find2NextKeeps, Find2EndKeeps, OutmostNextKeeps2 DEF CallStep2

LEMMA NextKeeps2 ==
    ASSUME File2Inv, [Next]_allvars
    PROVE  File2Inv'
  <1>1. file = "rbtree2.c" /\ file' = file /\ Tree2Inv
    BY DEF File2Inv, Next, Running, allvars
  <1>2. CASE Running
    BY <1>1, <1>2, CallKeeps2 DEF File2Inv, Running
  <1>3. ASSUME NEW n \in Node, Erase2(n) \/ \E k \in Key : Insert2(n, k)
        PROVE  File2Inv'
    BY <1>1, <1>3, Insert2Keeps, Erase2Keeps DEF File2Inv
  <1>4. CASE LookUp2
    BY <1>1, <1>4, Find2Keeps, OutmostKeeps2 DEF LookUp2, File2Inv
  <1>5. CASE delete_rbtree2
    BY <1>1, <1>5, DeleteKeeps2 DEF File2Inv
  <1>6. CASE new_rbtree
    BY <1>1, <1>6, NewKeeps2 DEF File2Inv
  <1>7. CASE UNCHANGED allvars
    <2>1. UNCHANGED <<t, live, pc, arg, node, cur, res>>
      BY <1>7 DEF allvars
    <2>2. Typed2' /\ Vacant'
      BY <1>1, <2>1 DEF Tree2Inv, Typed2, Vacant
    <2>3. CASE Resting
      <3>1. TreeInv'
        BY <2>1, <2>3 DEF Resting, TreeInv, Typed, Vacant, Fits, Descending, Seeking, Fixing,
                          Looking, Linked
      <3>2. ColorInv'
        BY <2>1, <2>3, QuietColors DEF Resting
      <3> QED
        BY <1>1, <2>1, <2>2, <2>3, <3>1, <3>2 DEF File2Inv, Tree2Inv, Resting
    <2>4. CASE Finding2 \/ Sinking \/ Recoloring \/ Swapping \/ Leaving
      <3>1. (Finding2 \/ Sinking \/ Recoloring \/ Swapping \/ Leaving)'
        BY <2>1, <2>4 DEF Finding2, Sinking, Recoloring, Swapping, Leaving
      <3> QED
        BY <1>1, <2>2, <3>1 DEF File2Inv, Tree2Inv
    <2> QED
      BY <1>1, <2>3, <2>4 DEF Tree2Inv
  <1> QED
    BY <1>1, <1>2, <1>3, <1>4, <1>5, <1>6, <1>7 DEF Next

LEMMA Inv2Holds == Spec /\ file = "rbtree2.c" => []File2Inv
  <1>1. Begin /\ file = "rbtree2.c" => File2Inv
    BY InitKeeps2 DEF Begin, File2Inv
  <1>2. File2Inv /\ [Next]_allvars => File2Inv'
    BY NextKeeps2
  <1> QED
    BY <1>1, <1>2, PTL DEF Spec

\* The program is linked with one of the files.
LEMMA LinkedWith == Begin => file = "rbtree.c" \/ file = "rbtree2.c"
  BY FilesAssumption DEF Begin

(* For any nodes and keys, whatever is inserted and erased, with either    *)
(* file: the tree is a search tree of the nodes that are allocated, in the *)
(* middle of every rotation, transplant, swap of keys and fix-up too; only *)
(* the key that rbtree2.c erases is out of order.                          *)
THEOREM TreesStaySearchTrees == Spec => []SearchTree
  <1>1. File2Inv => SearchTree
    BY SearchTree2Holds DEF File2Inv
  <1> QED
    BY <1>1, Inv2Holds, TreeStaysSearchTree, LinkedWith, PTL DEF Spec

(* With either file, the tree is red-black between calls, and within them  *)
(* but for the cursor; in the loop of rbtree2.c's erase_node, where the    *)
(* leaf to be freed counts no more, one black is missing at the cursor.    *)
THEOREM TreesStayRedBlack == Spec => []RedBlack
  <1>1. File2Inv => RedBlack
    BY RedBlack2Holds DEF File2Inv
  <1> QED
    BY <1>1, Inv2Holds, TreeStaysRedBlack, LinkedWith, PTL DEF Spec

(* With either file, delete_rbtree frees every node, and none twice.       *)
THEOREM EveryNodeIsFreed == Spec => []DeleteFreesAll
  <1>1. File2Inv => DeleteFreesAll
    BY Delete2Holds DEF File2Inv
  <1> QED
    BY <1>1, Inv2Holds, EveryNodeFreed, LinkedWith, PTL DEF Spec

(* With either file, rbtree_find answers NULL only when no node has the    *)
(* key, and its node has it; rbtree_min and rbtree_max return a node with  *)
(* the outmost key.                                                        *)
THEOREM LookupsStayRight == Spec => LookupsAreRight
  <1>1. File2Inv => /\ FindMiss \/ Find2Miss => \A n \in live : t.key[n] # arg
                    /\ FindHit \/ Find2Hit => cur \in live /\ t.key[cur] = arg
                    /\ OutmostDone /\ live # {} => IsOutmost(cur, pc)
    BY Lookup2Holds DEF File2Inv
  <1>2. File2Inv /\ [Next]_allvars =>
           [/\ FindMiss \/ Find2Miss => \A n \in live : t.key[n] # arg
            /\ FindHit \/ Find2Hit => cur \in live /\ t.key[cur] = arg
            /\ OutmostDone /\ live # {} => IsOutmost(cur, pc)]_allvars
    BY <1>1
  <1>3. Spec /\ file = "rbtree2.c" => LookupsAreRight
    BY <1>2, Inv2Holds, PTL DEF Spec, LookupsAreRight
  <1> QED
    BY <1>3, LookupsFindTheirKey, LinkedWith, PTL DEF Spec

(* The erasure of rbtree2.c, which moves keys from node to node on its way *)
(* to a leaf, takes away one node with the key of the node it was given    *)
(* and no other key; nothing else runs while the keys move.                *)
THEOREM ErasureTakesItsKey == Spec => EraseTakesItsKey
  <1>1. FileInv => Taken
    BY DEF FileInv, TreeInv, Typed, Calls, Taken
  <1>2. File2Inv /\ [Next]_allvars => Taken \/ UNCHANGED allvars
    <2> SUFFICES ASSUME File2Inv, Next, pc = "swap" \/ pc = "erase_node" PROVE Taken
      BY DEF Taken
    <2>1. CallStep2
      <3>1. pc # "idle" /\ pc # "deleted"
        OBVIOUS
      <3>2. ~LookUp2
        BY <3>1 DEF LookUp2, Find2, Outmost2, Outmost
      <3>3. ~delete_rbtree2 /\ ~new_rbtree
        BY <3>1 DEF delete_rbtree2, new_rbtree
      <3>4. ~\E n \in Node : Erase2(n) \/ \E k \in Key : Insert2(n, k)
        <4>1. ASSUME NEW n, Erase2(n) PROVE FALSE
          BY <3>1, <4>1 DEF Erase2
        <4>2. ASSUME NEW n, NEW k, Insert2(n, k) PROVE FALSE
          <5>1. pc = "idle"
            BY <4>2 DEF Insert2
          <5> QED
            BY <3>1, <5>1
        <4> QED
          BY <4>1, <4>2
      <3>5. file = "rbtree2.c" /\ file # "rbtree.c"
        BY DEF File2Inv
      <3>6. CASE Running
        BY <3>5, <3>6 DEF Running
      <3>7. CASE ~Running
        <4>1. \/ \E n \in Node : Erase2(n) \/ \E k \in Key : Insert2(n, k)
              \/ LookUp2 \/ delete_rbtree2 \/ new_rbtree
          BY <3>5, <3>7 DEF Next
        <4> QED
          BY <3>2, <3>3, <3>4, <4>1
      <3> QED
        BY <3>6, <3>7
    <2>2. Swap \/ EraseLeaf \/ EraseNode
      BY <2>1 DEF CallStep2, Sink, SinkEnd, ColorFix, ColorFixEnd, Find2Next, Find2Hit,
                  Find2Miss, OutmostNext, OutmostDone, Side
    <2> QED
      BY <2>2, EraseTakes DEF File2Inv
  <1>3. Spec => (Spec /\ file = "rbtree.c") \/ (Spec /\ file = "rbtree2.c")
    BY LinkedWith, PTL DEF Spec
  <1>4. Spec /\ file = "rbtree.c" => [][Taken]_allvars
    BY <1>1, InvHolds, PTL DEF Spec
  <1>5. Spec /\ file = "rbtree2.c" => [][Taken]_allvars
    BY <1>2, Inv2Holds, PTL DEF Spec
  <1>6. [][Taken]_allvars => EraseTakesItsKey
    BY PTL DEF EraseTakesItsKey, Taken
  <1> QED
    BY <1>3, <1>4, <1>5, <1>6, PTL

=============================================================================
