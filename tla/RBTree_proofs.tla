---------------------------- MODULE RBTree_proofs ----------------------------
(***************************************************************************)
(* Theorems about RBTrees for a program that is linked with rbtree.c: for  *)
(* every finite set of nodes and every choice of keys, the tree stays a    *)
(* search tree of the nodes that are allocated, delete_rbtree frees each   *)
(* of them once, and a look-up finds what is there.  A tree comes with a   *)
(* function under, from a node to the set of nodes in its subtree, which   *)
(* every operation on the tree changes in a way that is given outright;    *)
(* the invariant says that there is such a function.                       *)
(***************************************************************************)
EXTENDS RBTrees, FiniteSetTheorems, WellFoundedInduction, TLAPS

-----------------------------------------------------------------------------
(* Sets of natural numbers have a least element.                           *)
LEMMA Least ==
    ASSUME NEW T \in SUBSET Nat, T # {}
    PROVE  \E x \in T : \A y \in T : x <= y
  <1>1. IsWellFoundedOn(OpToRel(<, Nat), Nat)
    BY NatLessThanWellFounded
  <1>2. PICK x \in T : \A y \in T : ~ (<<y, x>> \in OpToRel(<, Nat))
    BY <1>1, WFMin
  <1>3. \A y \in T : ~(y < x)
    BY <1>2 DEF OpToRel
  <1> QED
    BY <1>3

Address == Node \cup {nil}

\* What the fields of a tree hold.
Tree == [root   : Address,
         key    : [Address -> Int],
         color  : [Address -> {RED, BLACK}],
         parent : [Address -> Address],
         child  : [Side -> [Address -> Address]]]

(* What the primitive operations change, z being the tree that results.    *)
Painted(s, z, n, c) ==
    /\ z \in Tree
    /\ z.root = s.root /\ z.key = s.key /\ z.parent = s.parent /\ z.child = s.child
    /\ \A x \in Address : z.color[x] = IF x = n THEN c ELSE s.color[x]

ParentSet(s, z, n, p) ==
    /\ z \in Tree
    /\ z.root = s.root /\ z.key = s.key /\ z.color = s.color /\ z.child = s.child
    /\ \A x \in Address : z.parent[x] = IF x = n THEN p ELSE s.parent[x]

ChildSet(s, z, d, n, m) ==
    /\ z \in Tree
    /\ z.root = s.root /\ z.key = s.key /\ z.color = s.color /\ z.parent = s.parent
    /\ \A x \in Address, e \in Side :
          z.child[e][x] = IF e = d /\ x = n THEN m ELSE s.child[e][x]

RootSet(s, z, m) ==
    /\ z \in Tree
    /\ z.root = m /\ z.key = s.key /\ z.color = s.color
    /\ z.parent = s.parent /\ z.child = s.child

LEMMA PaintIs ==
    ASSUME NEW s \in Tree, NEW n \in Address, NEW c \in {RED, BLACK}
    PROVE  Painted(s, Paint(s, n, c), n, c)
  BY DEF Painted, Paint, Tree

LEMMA SetParentIs ==
    ASSUME NEW s \in Tree, NEW n \in Address, NEW p \in Address
    PROVE  ParentSet(s, SetParent(s, n, p), n, p)
  BY DEF ParentSet, SetParent, Tree

LEMMA SetChildIs ==
    ASSUME NEW s \in Tree, NEW d \in Side, NEW n \in Address, NEW m \in Address
    PROVE  ChildSet(s, SetChild(s, d, n, m), d, n, m)
  BY DEF ChildSet, SetChild, Tree

LEMMA SetRootIs ==
    ASSUME NEW s \in Tree, NEW m \in Address
    PROVE  RootSet(s, [s EXCEPT !.root = m], m)
  BY DEF RootSet, Tree

LEMMA Sides ==
    ASSUME NEW d \in Side
    PROVE  /\ Other(d) \in Side /\ Other(d) # d /\ Other(Other(d)) = d
           /\ Side = {d, Other(d)}
           /\ "left" \in Side /\ "right" \in Side
  BY DEF Side, Other

-----------------------------------------------------------------------------
(* The shape of a tree.  S is the set of its nodes, and under[n] the set   *)
(* of those in the subtree of n.                                           *)
Rooted(s, S, under) ==
    /\ S \subseteq Node
    /\ under \in [Address -> SUBSET Node]
    /\ under[nil] = {} /\ under[s.root] = S
    /\ s.root \in S \cup {nil}
    /\ s.root # nil => s.parent[s.root] = nil
    /\ \A d \in Side : s.child[d][nil] = nil

Parted(s, S, under) ==
    \A n \in S, d \in Side :
       /\ s.child[d][n] \in S \cup {nil}
       /\ s.child[d][n] # nil => s.parent[s.child[d][n]] = n
       /\ n \notin under[s.child[d][n]]
       /\ under[n] = {n} \cup under[s.child[d][n]] \cup under[s.child[Other(d)][n]]
       /\ under[s.child[d][n]] \cap under[s.child[Other(d)][n]] = {}

Hung(s, S) ==
    \A n \in S \ {s.root} : /\ s.parent[n] \in S
                           /\ \E d \in Side : s.child[d][s.parent[n]] = n

Closed(s, S, under) ==
    /\ \A y \in S : under[y] \subseteq S
    /\ \A y, n \in S : n \in under[y] => under[n] \subseteq under[y]
    /\ \A y, n \in S : n \in under[y] /\ n # y => s.parent[n] \in under[y]

Shape(s, S, under) ==
    Rooted(s, S, under) /\ Parted(s, S, under) /\ Hung(s, S) /\ Closed(s, S, under)

LEMMA Inside ==
    ASSUME NEW s \in Tree, NEW S, NEW under, Shape(s, S, under)
    PROVE  /\ nil \notin S /\ S \subseteq Node /\ S \subseteq Address /\ nil \in Address
           /\ \A n \in S : n \in under[n] /\ under[n] \subseteq S
           /\ \A n \in S, d \in Side : /\ under[s.child[d][n]] \subseteq under[n]
                                      /\ n \notin under[s.child[d][n]]
                                      /\ s.child[d][n] # n
                                      /\ s.child[d][n] \in Address
           /\ under \in [Address -> SUBSET Node]
  <1>1. nil \notin S /\ S \subseteq Node /\ S \subseteq Address /\ nil \in Address
    BY KeyAssumption DEF Shape, Rooted, Address
  <1>2. ASSUME NEW n \in S PROVE n \in under[n] /\ under[n] \subseteq S
    <2>1. s.root \in S /\ under[s.root] = S
      BY <1>1 DEF Shape, Rooted
    <2>2. under[n] \subseteq S
      BY <2>1 DEF Shape, Closed
    <2>3. n \in under[n]
      <3>1. "left" \in Side
        BY DEF Side
      <3> QED
        BY <3>1 DEF Shape, Parted
    <2> QED
      BY <2>2, <2>3
  <1>3. ASSUME NEW n \in S, NEW d \in Side
        PROVE  /\ under[s.child[d][n]] \subseteq under[n]
               /\ n \notin under[s.child[d][n]]
               /\ s.child[d][n] \in S \cup {nil}
    BY DEF Shape, Parted
  <1>4. under \in [Address -> SUBSET Node]
    BY DEF Shape, Rooted
  <1> QED
    BY <1>1, <1>2, <1>3, <1>4

\* What the shape says of a node and its child on one side.
LEMMA Below ==
    ASSUME NEW s \in Tree, NEW S, NEW under, Shape(s, S, under), NEW n \in S, NEW d \in Side,
           NEW c, c = s.child[d][n], NEW e, e = s.child[Other(d)][n]
    PROVE  /\ c \in S \cup {nil} /\ c # n
           /\ c # nil => s.parent[c] = n
           /\ n \notin under[c]
           /\ under[n] = {n} \cup under[c] \cup under[e]
           /\ under[c] \cap under[e] = {}
  <1>1. /\ s.child[d][n] \in S \cup {nil}
        /\ s.child[d][n] # nil => s.parent[s.child[d][n]] = n
        /\ n \notin under[s.child[d][n]]
        /\ under[n] = {n} \cup under[s.child[d][n]] \cup under[s.child[Other(d)][n]]
        /\ under[s.child[d][n]] \cap under[s.child[Other(d)][n]] = {}
    BY DEF Shape, Parted
  <1> QED
    BY <1>1, Inside

\* A subtree is closed downwards, and upwards to its root.
LEMMA Within ==
    ASSUME NEW s \in Tree, NEW S, NEW under, Shape(s, S, under), NEW y \in S
    PROVE  /\ \A x \in under[y] : x \in S /\ under[x] \subseteq under[y]
           /\ \A x \in under[y] \ {y} : s.parent[x] \in under[y]
  BY DEF Shape, Closed

\* The side of a node that is not the root is found.
LEMMA SideIs ==
    ASSUME NEW s \in Tree, NEW S, NEW under, Shape(s, S, under),
           NEW n \in S, n # s.root
    PROVE  /\ SideOf(s, n) \in Side
           /\ s.parent[n] \in S /\ s.parent[n] # n
           /\ s.child[SideOf(s, n)][s.parent[n]] = n
           /\ s.child[Other(SideOf(s, n))][s.parent[n]] # n
  <1> DEFINE p == s.parent[n]
  <1>1. p \in S /\ n \in Node /\ nil \notin Node
    BY KeyAssumption DEF Shape, Hung, Rooted
  <1>2. PICK d \in Side : s.child[d][p] = n
    BY DEF Shape, Hung
  <1>3. n \in under[n] /\ p \notin under[n]
    BY <1>1, <1>2 DEF Shape, Parted
  <1>4. s.child[Other(d)][p] # n
    BY <1>1, <1>2, <1>3 DEF Shape, Parted
  <1>5. SideOf(s, n) = d
    BY <1>2, <1>4 DEF SideOf, Side, Other
  <1> QED
    BY <1>1, <1>2, <1>3, <1>4, <1>5

\* Whatever points down to n points to m.
Replaced(s, z, S, n, m) ==
    /\ z \in Tree /\ z.key = s.key /\ z.color = s.color /\ z.parent = s.parent
    /\ z.root = IF n = s.root THEN m ELSE s.root
    /\ \A e \in Side, x \in Address :
          z.child[e][x] = IF x \in S /\ s.child[e][x] = n THEN m ELSE s.child[e][x]

LEMMA ReplaceIs ==
    ASSUME NEW s \in Tree, NEW S, NEW under, Shape(s, S, under), NEW n \in S, NEW m \in Address
    PROVE  Replaced(s, Replace(s, n, m), S, n, m)
  <1> DEFINE z == Replace(s, n, m)
  <1>1. nil \notin S /\ S \subseteq Address
    BY Inside
  <1>2. CASE n = s.root
    <2>1. \A e \in Side, x \in S : s.child[e][x] # n
      BY <1>1, <1>2 DEF Shape, Rooted, Parted
    <2>2. RootSet(s, z, m)
      BY <1>2, SetRootIs DEF Replace
    <2> HIDE DEF z
    <2>3. Replaced(s, z, S, n, m)
      BY <1>2, <2>1, <2>2 DEF RootSet, Replaced
    <2> QED
      BY <2>3 DEF z
  <1>3. CASE n # s.root
    <2>1. /\ SideOf(s, n) \in Side /\ s.parent[n] \in S
          /\ s.child[SideOf(s, n)][s.parent[n]] = n
          /\ s.child[Other(SideOf(s, n))][s.parent[n]] # n
      BY <1>3, SideIs
    <2>2. ChildSet(s, z, SideOf(s, n), s.parent[n], m)
      BY <1>1, <1>3, <2>1, SetChildIs DEF Replace
    <2>3. \A e \in Side : e = SideOf(s, n) \/ e = Other(SideOf(s, n))
      BY <2>1, Sides
    <2>4. \A e \in Side, x \in S : s.child[e][x] = n => x = s.parent[n]
      BY <1>1 DEF Shape, Parted
    <2>5. \A e \in Side, x \in Address : (x \in S /\ s.child[e][x] = n)
                                        <=> (e = SideOf(s, n) /\ x = s.parent[n])
      BY <2>1, <2>3, <2>4
    <2> HIDE DEF z
    <2>6. Replaced(s, z, S, n, m)
      BY <1>3, <2>2, <2>5 DEF ChildSet, Replaced
    <2> QED
      BY <2>6 DEF z
  <1> QED
    BY <1>2, <1>3

\* Tree z is tree s after n has gone down on side d.
Rotated(s, z, S, n, d) ==
    LET up    == s.child[Other(d)][n]
        inner == s.child[d][up]
    IN  /\ z \in Tree /\ z.key = s.key /\ z.color = s.color
        /\ z.root = IF n = s.root THEN up ELSE s.root
        /\ \A x \in Address :
              z.parent[x] = IF x = n THEN up
                            ELSE IF x = up THEN s.parent[n]
                            ELSE IF x = inner /\ x # nil THEN n ELSE s.parent[x]
        /\ \A e \in Side, x \in Address :
              z.child[e][x] = IF x = n THEN (IF e = d THEN s.child[d][n] ELSE inner)
                              ELSE IF x = up THEN (IF e = d THEN n ELSE s.child[e][up])
                              ELSE IF x \in S /\ s.child[e][x] = n THEN up
                              ELSE s.child[e][x]

LEMMA RotateIs ==
    ASSUME NEW s \in Tree, NEW S, NEW under, Shape(s, S, under), NEW n \in S, NEW d \in Side,
           s.child[Other(d)][n] # nil
    PROVE  Rotated(s, Rotate(s, n, d), S, n, d)
  <1> DEFINE up    == s.child[Other(d)][n]
             inner == s.child[d][up]
             s1    == Replace(s, n, up)
             s2    == SetParent(s1, up, s.parent[n])
             s3    == IF inner = nil THEN s2 ELSE SetParent(s2, inner, n)
             s4    == SetChild(s3, Other(d), n, inner)
             s5    == SetParent(s4, n, up)
             s6    == SetChild(s5, d, up, n)
  <1>0. Rotate(s, n, d) = s6
    BY DEF Rotate
  <1>1. /\ Other(d) \in Side /\ Other(d) # d /\ Other(Other(d)) = d /\ Side = {d, Other(d)}
        /\ n \in Address /\ S \subseteq Address /\ nil \in Address /\ nil \notin S
    BY Sides, KeyAssumption DEF Shape, Rooted, Address
  <1>2. up \in S /\ inner \in S \cup {nil} /\ s.parent[up] = n /\ inner \in Address /\ up # n
        /\ s.parent[n] \in Address /\ inner # n /\ inner # up
    <2>1. up \in S /\ s.parent[up] = n
      BY <1>1 DEF Shape, Parted
    <2>2. inner \in S \cup {nil} /\ inner # up
      BY <1>1, <2>1, Inside DEF Shape, Parted
    <2>3. inner # n
      <3>1. n \notin under[up] /\ under[inner] \subseteq under[up]
        BY <1>1, <2>1, Inside
      <3>2. n \in under[n]
        BY Inside
      <3> QED
        BY <3>1, <3>2
    <2>4. up # n
      BY <1>1, Inside
    <2> QED
      BY <1>1, <2>1, <2>2, <2>3, <2>4 DEF Tree
  <1> HIDE DEF inner, up
  <1>3. /\ s1 \in Tree /\ s1.key = s.key /\ s1.color = s.color /\ s1.parent = s.parent
        /\ s1.root = IF n = s.root THEN up ELSE s.root
        /\ \A e \in Side, x \in Address :
              s1.child[e][x] = IF x \in S /\ s.child[e][x] = n THEN up ELSE s.child[e][x]
    BY <1>1, <1>2, ReplaceIs DEF Replaced
  <1>4. /\ s3 \in Tree /\ s3.key = s.key /\ s3.color = s.color /\ s3.root = s1.root
        /\ s3.child = s1.child
        /\ \A x \in Address : s3.parent[x] = IF x = up THEN s.parent[n]
                                             ELSE IF x = inner /\ x # nil THEN n ELSE s.parent[x]
    <2> HIDE DEF s1
    <2>1. ParentSet(s1, s2, up, s.parent[n])
      BY <1>1, <1>2, <1>3, SetParentIs
    <2> HIDE DEF s2
    <2>2. CASE inner = nil
      BY <1>2, <1>3, <2>1, <2>2 DEF ParentSet
    <2>3. CASE inner # nil
      <3>1. ParentSet(s2, s3, inner, n)
        BY <1>1, <1>2, <2>1, <2>3, SetParentIs DEF ParentSet
      <3> QED
        BY <1>1, <1>2, <1>3, <2>1, <2>3, <3>1 DEF ParentSet
    <2> QED
      BY <2>2, <2>3
  <1> HIDE DEF s3
  <1>5. ChildSet(s3, s4, Other(d), n, inner)
    BY <1>1, <1>2, <1>4, SetChildIs
  <1> HIDE DEF s4
  <1>6. ParentSet(s4, s5, n, up)
    BY <1>1, <1>2, <1>5, SetParentIs DEF ChildSet
  <1> HIDE DEF s5
  <1>7. ChildSet(s5, s6, d, up, n)
    BY <1>1, <1>2, <1>6, SetChildIs DEF ParentSet
  <1> HIDE DEF s6, s1
  <1>8. \A x \in Address :
          s6.parent[x] = IF x = n THEN up
                         ELSE IF x = up THEN s.parent[n]
                         ELSE IF x = inner /\ x # nil THEN n ELSE s.parent[x]
    BY <1>4, <1>5, <1>6, <1>7 DEF ParentSet, ChildSet
  <1>9. s.child[d][n] # n /\ \A e \in Side : s.child[e][up] # n
    <2>1. n \in under[n] /\ n \notin under[up]
      BY <1>1, Inside DEF up
    <2>2. \A e \in Side : under[s.child[e][up]] \subseteq under[up]
      BY <1>1, <1>2, Inside
    <2>3. s.child[d][n] # n
      BY Inside
    <2> QED
      BY <2>1, <2>2, <2>3
  <1>10. \A e \in Side, x \in Address :
          s6.child[e][x] = IF x = n THEN (IF e = d THEN s.child[d][n] ELSE inner)
                           ELSE IF x = up THEN (IF e = d THEN n ELSE s.child[e][up])
                           ELSE IF x \in S /\ s.child[e][x] = n THEN up
                           ELSE s.child[e][x]
    <2> SUFFICES ASSUME NEW e \in Side, NEW x \in Address
                 PROVE  s6.child[e][x] = IF x = n THEN (IF e = d THEN s.child[d][n] ELSE inner)
                           ELSE IF x = up THEN (IF e = d THEN n ELSE s.child[e][up])
                           ELSE IF x \in S /\ s.child[e][x] = n THEN up
                           ELSE s.child[e][x]
      OBVIOUS
    <2>1. e = d \/ e = Other(d)
      BY <1>1
    <2>2. s6.child[e][x] = IF e = d /\ x = up THEN n
                           ELSE IF e = Other(d) /\ x = n THEN inner
                           ELSE IF x \in S /\ s.child[e][x] = n THEN up ELSE s.child[e][x]
      BY <1>3, <1>4, <1>5, <1>6, <1>7 DEF ParentSet, ChildSet
    <2> QED
      BY <1>1, <1>2, <1>9, <2>1, <2>2
  <1>11. s6.root = IF n = s.root THEN up ELSE s.root
    BY <1>3, <1>4, <1>5, <1>6, <1>7 DEF ParentSet, ChildSet
  <1>12. Rotated(s, s6, S, n, d)
    <2>1. s6 \in Tree /\ s6.key = s.key /\ s6.color = s.color
      BY <1>4, <1>5, <1>6, <1>7 DEF ParentSet, ChildSet
    <2> QED
      BY <2>1, <1>8, <1>10, <1>11 DEF Rotated, up, inner
  <1> QED
    BY <1>0, <1>12

\* The subtrees after n has gone down on side d.
Turned(s, under, n, d) ==
    LET up    == s.child[Other(d)][n]
        inner == s.child[d][up]
    IN  [x \in Address |-> IF x = n THEN {n} \cup under[s.child[d][n]] \cup under[inner]
                           ELSE IF x = up THEN under[n] ELSE under[x]]

\* Who is who when n goes down on side d and up comes up.
Family(S, under, s, n, up, inner, outer, low) ==
    /\ up \in S /\ up # n /\ s.parent[up] = n
    /\ inner \in (S \cup {nil}) \ {n, up} /\ outer \in (S \cup {nil}) \ {n, up}
    /\ low \in (S \cup {nil}) \ {n, up}
    /\ inner # nil => s.parent[inner] = up
    /\ outer # nil => s.parent[outer] = up
    /\ low # nil => s.parent[low] = n
    /\ under[n] = {n} \cup under[low] \cup under[up]
    /\ under[up] = {up} \cup under[inner] \cup under[outer]
    /\ n \notin under[low] /\ n \notin under[up]
    /\ up \notin under[inner] /\ up \notin under[outer]
    /\ under[low] \cap under[up] = {} /\ under[inner] \cap under[outer] = {}

LEMMA Turning ==
    ASSUME NEW s \in Tree, NEW S, NEW under, Shape(s, S, under), NEW n \in S, NEW d \in Side,
           NEW up, up = s.child[Other(d)][n], up # nil,
           NEW inner, inner = s.child[d][up],
           NEW outer, outer = s.child[Other(d)][up],
           NEW low, low = s.child[d][n]
    PROVE  Family(S, under, s, n, up, inner, outer, low)
  <1>1. Other(d) \in Side /\ Other(Other(d)) = d
    BY Sides
  <1>2. /\ up \in S /\ s.parent[up] = n /\ up # n
        /\ n \notin under[up] /\ under[up] \cap under[low] = {}
        /\ under[n] = {n} \cup under[up] \cup under[low]
    BY <1>1, Below
  <1>3. /\ low \in S \cup {nil} /\ n \notin under[low] /\ low # n
        /\ low # nil => s.parent[low] = n
    BY Below
  <1>4. /\ inner \in S \cup {nil} /\ up \notin under[inner] /\ inner # up
        /\ inner # nil => s.parent[inner] = up
        /\ under[up] = {up} \cup under[inner] \cup under[outer]
        /\ under[inner] \cap under[outer] = {}
    <2>1. /\ up \in S /\ Other(d) \in Side /\ inner = s.child[d][up]
          /\ outer = s.child[Other(d)][up]
      BY <1>1, <1>2
    <2>2. /\ s.child[d][up] \in S \cup {nil} /\ up \notin under[s.child[d][up]]
          /\ s.child[d][up] # nil => s.parent[s.child[d][up]] = up
          /\ under[up] = {up} \cup under[s.child[d][up]] \cup under[s.child[Other(d)][up]]
          /\ under[s.child[d][up]] \cap under[s.child[Other(d)][up]] = {}
      BY <2>1 DEF Shape, Parted
    <2>3. up \in under[up]
      BY <2>1, Inside
    <2> QED
      BY <2>1, <2>2, <2>3
  <1>5. /\ outer \in S \cup {nil} /\ up \notin under[outer] /\ outer # up
        /\ outer # nil => s.parent[outer] = up
    BY <1>1, <1>2, Below
  <1>6. n \in under[n] /\ up \in under[up]
    BY <1>2, Inside
  <1>7. inner # n /\ outer # n /\ low # up
    BY <1>2, <1>3, <1>4, <1>5, <1>6
  <1> QED
    BY <1>2, <1>3, <1>4, <1>5, <1>7 DEF Family

\* A rotation keeps the shape.
LEMMA RotateShape ==
    ASSUME NEW s \in Tree, NEW S, NEW under, Shape(s, S, under), NEW n \in S, NEW d \in Side,
           s.child[Other(d)][n] # nil, NEW z, Rotated(s, z, S, n, d)
    PROVE  Shape(z, S, Turned(s, under, n, d))
  <1> DEFINE o     == Other(d)
             up    == s.child[o][n]
             inner == s.child[d][up]
             outer == s.child[o][up]
             low   == s.child[d][n]
             v     == Turned(s, under, n, d)
  <1>1. o \in Side /\ o # d /\ Other(o) = d /\ Side = {d, o}
    BY Sides
  <1>2. /\ up \in S /\ up # n /\ s.parent[up] = n
        /\ inner \in (S \cup {nil}) \ {n, up} /\ outer \in (S \cup {nil}) \ {n, up}
        /\ low \in (S \cup {nil}) \ {n, up}
        /\ inner # nil => s.parent[inner] = up
        /\ outer # nil => s.parent[outer] = up
        /\ low # nil => s.parent[low] = n
        /\ under[n] = {n} \cup under[low] \cup under[up]
        /\ under[up] = {up} \cup under[inner] \cup under[outer]
        /\ n \notin under[low] /\ n \notin under[up]
        /\ up \notin under[inner] /\ up \notin under[outer]
        /\ under[low] \cap under[up] = {} /\ under[inner] \cap under[outer] = {}
    <2>1. Family(S, under, s, n, up, inner, outer, low)
      BY Turning
    <2> QED
      BY <2>1 DEF Family
  <1>3. /\ nil \notin S /\ S \subseteq Node /\ S \subseteq Address /\ nil \in Address
        /\ \A x \in S : x \in under[x] /\ under[x] \subseteq S
        /\ under \in [Address -> SUBSET Node]
    BY Inside
  <1>4. /\ v \in [Address -> SUBSET Node]
        /\ v[n] = {n} \cup under[low] \cup under[inner]
        /\ v[up] = under[n]
        /\ \A x \in Address \ {n, up} : v[x] = under[x]
    <2> HIDE DEF up, inner, low, outer
    <2>1. v = [x \in Address |-> IF x = n THEN {n} \cup under[low] \cup under[inner]
                                 ELSE IF x = up THEN under[n] ELSE under[x]]
      BY DEF Turned, up, inner, low
    <2>2. n \in Address /\ up \in Address /\ low \in Address /\ inner \in Address /\ n \in Node
      BY <1>2, <1>3
    <2>3. {n} \cup under[low] \cup under[inner] \in SUBSET Node
      BY <1>3, <2>2
    <2> HIDE DEF v
    <2>4. ASSUME NEW x \in Address PROVE v[x] \in SUBSET Node
      BY <1>3, <2>1, <2>2, <2>3
    <2>5. v \in [Address -> SUBSET Node]
      BY <2>1, <2>4
    <2> QED
      BY <1>2, <2>1, <2>2, <2>5
  <1> HIDE DEF v
  <1>5. /\ z.root = IF n = s.root THEN up ELSE s.root
        /\ \A x \in Address :
              z.parent[x] = IF x = n THEN up
                            ELSE IF x = up THEN s.parent[n]
                            ELSE IF x = inner /\ x # nil THEN n ELSE s.parent[x]
        /\ \A e \in Side, x \in Address :
              z.child[e][x] = IF x = n THEN (IF e = d THEN low ELSE inner)
                              ELSE IF x = up THEN (IF e = d THEN n ELSE s.child[e][up])
                              ELSE IF x \in S /\ s.child[e][x] = n THEN up
                              ELSE s.child[e][x]
    BY DEF Rotated
  <1> HIDE DEF o, up, inner, outer, low
  <1>6. /\ z.child[d][n] = low /\ z.child[o][n] = inner
        /\ z.child[d][up] = n /\ z.child[o][up] = outer
    BY <1>1, <1>2, <1>3, <1>5 DEF outer
  <1>7. /\ v[low] = under[low] /\ v[inner] = under[inner] /\ v[outer] = under[outer]
    BY <1>2, <1>3, <1>4
  <1>8. ASSUME NEW m \in S \ {n, up}, NEW e \in Side
        PROVE  /\ z.child[e][m] = IF s.child[e][m] = n THEN up ELSE s.child[e][m]
               /\ s.child[e][m] \in S \cup {nil} /\ s.child[e][m] # up
               /\ s.child[e][m] # nil => s.parent[s.child[e][m]] = m
               /\ v[m] = under[m] /\ v[z.child[e][m]] = under[s.child[e][m]]
    <2>1. /\ s.child[e][m] \in S \cup {nil}
          /\ s.child[e][m] # nil => s.parent[s.child[e][m]] = m
      BY DEF Shape, Parted
    <2>2. s.child[e][m] # up
      BY <1>2, <1>3, <2>1
    <2>3. z.child[e][m] = IF s.child[e][m] = n THEN up ELSE s.child[e][m]
      BY <1>3, <1>5
    <2> QED
      BY <1>3, <1>4, <2>1, <2>2, <2>3
  <1>9. v[nil] = {} /\ v[z.root] = S /\ z.root \in S \cup {nil} /\ (z.root # nil => z.parent[z.root] = nil)
    <2>1. under[nil] = {} /\ under[s.root] = S /\ s.root \in S \cup {nil}
          /\ (s.root # nil => s.parent[s.root] = nil)
      BY DEF Shape, Rooted
    <2>2. s.root # up
      BY <1>2, <1>3, <2>1
    <2>3. CASE n = s.root
      <3>1. z.root = up
        BY <1>5, <2>3
      <3>2. v[up] = S /\ v[nil] = {}
        BY <1>2, <1>3, <1>4, <2>1, <2>3
      <3>3. z.parent[up] = nil
        BY <1>2, <1>3, <1>5, <2>1, <2>3
      <3> QED
        BY <1>2, <3>1, <3>2, <3>3
    <2>4. CASE n # s.root
      <3>1. z.root = s.root /\ v[s.root] = under[s.root] /\ v[nil] = under[nil]
        BY <1>2, <1>3, <1>4, <1>5, <2>1, <2>2, <2>4
      <3>2. s.root # nil => s.root # inner
        BY <1>2, <1>3, <2>1
      <3> QED
        BY <1>3, <1>5, <2>1, <2>2, <2>4, <3>1, <3>2
    <2> QED
      BY <2>3, <2>4
  <1>10. \A e \in Side : z.child[e][nil] = nil
    BY <1>2, <1>3, <1>5 DEF Shape, Rooted
  <1>11. ASSUME NEW m \in S, NEW e \in Side
         PROVE  /\ z.child[e][m] \in S \cup {nil}
                /\ z.child[e][m] # nil => z.parent[z.child[e][m]] = m
                /\ m \notin v[z.child[e][m]]
                /\ v[m] = {m} \cup v[z.child[e][m]] \cup v[z.child[Other(e)][m]]
                /\ v[z.child[e][m]] \cap v[z.child[Other(e)][m]] = {}
    <2>1. (e = d /\ Other(e) = o) \/ (e = o /\ Other(e) = d)
      BY <1>1 DEF o
    <2>2. CASE m = n
      <3>1. /\ n \notin under[low] /\ n \notin under[inner]
            /\ under[low] \cap under[inner] = {}
        BY <1>2
      <3>2. /\ low # nil => z.parent[low] = n
            /\ inner # nil => z.parent[inner] = n
        BY <1>2, <1>3, <1>5
      <3> QED
        BY <1>2, <1>4, <1>6, <1>7, <2>1, <2>2, <3>1, <3>2
    <2>3. CASE m = up
      <3>1. /\ up \notin v[n] /\ up \notin v[outer]
            /\ v[n] \cap v[outer] = {}
            /\ v[up] = {up} \cup v[n] \cup v[outer]
        BY <1>2, <1>3, <1>4, <1>7
      <3>2. /\ z.parent[n] = up
            /\ outer # nil => z.parent[outer] = up
        <4>1. outer # nil => outer # inner
          BY <1>2, <1>3
        <4> QED
          BY <1>2, <1>3, <1>5, <4>1
      <3> QED
        BY <1>2, <1>6, <2>1, <2>3, <3>1, <3>2
    <2>4. CASE m \notin {n, up}
      <3>1. Other(e) \in Side
        BY Sides
      <3>2. /\ m \notin under[s.child[e][m]]
            /\ under[m] = {m} \cup under[s.child[e][m]] \cup under[s.child[Other(e)][m]]
            /\ under[s.child[e][m]] \cap under[s.child[Other(e)][m]] = {}
        BY DEF Shape, Parted
      <3>3. z.child[e][m] # nil => z.parent[z.child[e][m]] = m
        <4>1. CASE s.child[e][m] = n
          BY <1>2, <1>3, <1>5, <1>8, <2>4, <4>1
        <4>2. CASE s.child[e][m] # n
          BY <1>2, <1>3, <1>5, <1>8, <2>4, <4>2
        <4> QED
          BY <4>1, <4>2
      <3> QED
        BY <1>2, <1>8, <2>4, <3>1, <3>2, <3>3
    <2> QED
      BY <2>2, <2>3, <2>4
  <1>12. ASSUME NEW m \in S \ {z.root}
         PROVE  z.parent[m] \in S /\ \E e \in Side : z.child[e][z.parent[m]] = m
    <2>1. CASE m = n
      BY <1>1, <1>2, <1>3, <1>5, <1>6, <2>1
    <2>2. CASE m = up
      <3>0. n # s.root /\ s.parent[n] \in S
        BY <1>5, <2>2 DEF Shape, Hung
      <3>1. PICK e \in Side : s.child[e][s.parent[n]] = n
        BY <3>0 DEF Shape, Hung
      <3>2. s.parent[n] \notin {n, up}
        BY <1>2, <1>3, <3>0, <3>1, Inside
      <3> QED
        BY <1>2, <1>3, <1>5, <1>8, <2>2, <3>0, <3>1, <3>2
    <2>3. CASE m = inner
      BY <1>1, <1>2, <1>3, <1>5, <1>6, <2>3
    <2>4. CASE m \notin {n, up, inner}
      <3>1. m # s.root
        BY <1>5, <2>4
      <3>0. s.parent[m] \in S
        BY <3>1 DEF Shape, Hung
      <3>2. PICK e \in Side : s.child[e][s.parent[m]] = m
        BY <3>1 DEF Shape, Hung
      <3>3. z.parent[m] = s.parent[m]
        BY <1>3, <1>5, <2>4
      <3>4. CASE s.parent[m] = n
        <4>1. m = low
          BY <1>1, <2>4, <3>2, <3>4 DEF low, up
        <4> QED
          BY <1>6, <3>0, <3>2, <3>3, <3>4, <4>1
      <3>5. CASE s.parent[m] = up
        <4>1. m = outer
          BY <1>1, <2>4, <3>2, <3>5 DEF inner, outer
        <4> QED
          BY <1>1, <1>6, <3>0, <3>2, <3>3, <3>5, <4>1
      <3>6. CASE s.parent[m] \notin {n, up}
        BY <1>8, <2>4, <3>0, <3>2, <3>3, <3>6
      <3> QED
        BY <3>4, <3>5, <3>6
    <2> QED
      BY <2>1, <2>2, <2>3, <2>4
  <1>13. ASSUME NEW y \in S, NEW x \in v[y]
         PROVE  v[x] \subseteq v[y] /\ (x # y => z.parent[x] \in v[y])
    <2>0. \A w \in S : /\ \A x1 \in under[w] : x1 \in S /\ under[x1] \subseteq under[w]
                       /\ \A x1 \in under[w] \ {w} : s.parent[x1] \in under[w]
      BY Within
    <2>1. v[n] \subseteq under[n] /\ v[y] \subseteq S /\ x \in S
      BY <1>2, <1>3, <1>4
    <2>2. CASE y = up
      <3>1. x \in under[n] /\ v[y] = under[n]
        BY <1>4, <2>2
      <3>2. v[x] \subseteq under[n]
        BY <1>3, <1>4, <2>0, <2>1, <3>1
      <3>3. x # up => z.parent[x] \in under[n]
        BY <1>2, <1>3, <1>5, <2>0, <2>1, <3>1
      <3> QED
        BY <2>2, <3>1, <3>2, <3>3
    <2>3. CASE y = n
      <3>1. CASE x = n
        BY <2>3, <3>1
      <3>2. CASE x \in under[low]
        <4>1. low \in S /\ x \notin {n, up, inner}
          <5>1. low # nil
            BY <3>2 DEF Shape, Rooted
          <5> QED
            BY <1>2, <1>3, <3>2, <5>1
        <4>2. under[x] \subseteq under[low] /\ (x # low => s.parent[x] \in under[low])
          BY <2>0, <3>2, <4>1
        <4> QED
          BY <1>2, <1>3, <1>4, <1>5, <2>1, <2>3, <4>1, <4>2
      <3>3. CASE x \in under[inner]
        <4>1. inner \in S /\ x \notin {n, up}
          <5>1. inner # nil
            BY <3>3 DEF Shape, Rooted
          <5> QED
            BY <1>2, <1>3, <3>3, <5>1
        <4>2. under[x] \subseteq under[inner] /\ (x # inner => s.parent[x] \in under[inner])
          BY <2>0, <3>3, <4>1
        <4> QED
          BY <1>2, <1>3, <1>4, <1>5, <2>1, <2>3, <4>1, <4>2
      <3> QED
        BY <1>4, <2>3, <3>1, <3>2, <3>3
    <2>4. CASE y \notin {n, up}
      <3>1. v[y] = under[y] /\ x \in under[y]
        BY <1>3, <1>4, <2>4
      <3>2. up \in under[y] => n \in under[y]
        BY <1>2, <2>0, <2>4
      <3>3. n \in under[y] => under[n] \subseteq under[y] /\ s.parent[n] \in under[y]
        BY <2>0, <2>4
      <3>4. CASE x = n
        BY <1>2, <1>3, <1>5, <2>1, <3>1, <3>3, <3>4
      <3>5. CASE x = up
        BY <1>2, <1>3, <1>4, <1>5, <2>1, <3>1, <3>2, <3>3, <3>5
      <3>6. CASE x = inner
        <4>1. x # y => up \in under[y]
          BY <1>2, <1>3, <2>0, <2>1, <3>1, <3>6
        <4> QED
          BY <1>2, <1>3, <1>4, <1>5, <2>0, <2>1, <3>1, <3>2, <3>6, <4>1
      <3>7. CASE x \notin {n, up, inner}
        BY <1>3, <1>4, <1>5, <2>0, <2>1, <3>1, <3>7
      <3> QED
        BY <3>4, <3>5, <3>6, <3>7
    <2> QED
      BY <2>2, <2>3, <2>4
  <1>14. Shape(z, S, v)
    <2>1. Rooted(z, S, v)
      BY <1>3, <1>4, <1>9, <1>10 DEF Rooted
    <2>2. Parted(z, S, v)
      BY <1>11 DEF Parted
    <2>3. Hung(z, S)
      BY <1>12 DEF Hung
    <2>4. Closed(z, S, v)
      <3>1. \A y \in S : v[y] \subseteq S
        BY <1>2, <1>3, <1>4
      <3>2. \A y, x \in S : x \in v[y] => v[x] \subseteq v[y] /\ (x # y => z.parent[x] \in v[y])
        BY <1>13
      <3> QED
        BY <3>1, <3>2 DEF Closed
    <2> QED
      BY <2>1, <2>2, <2>3, <2>4 DEF Shape
  <1> QED
    BY <1>14 DEF v

-----------------------------------------------------------------------------
(* The order of the keys.                                                  *)
\* a comes on side d of b.
Before(d, a, b) == IF d = "left" THEN a <= b ELSE b <= a

Ordered(s, S, under) ==
    \A n, x \in S, d \in Side : x \in under[s.child[d][n]] => Before(d, s.key[x], s.key[n])

LEMMA BeforeIs ==
    ASSUME NEW d \in Side, NEW a \in Int, NEW b \in Int, NEW c \in Int
    PROVE  /\ Before(d, a, b) <=> Before(Other(d), b, a)
           /\ Before(d, a, b) /\ Before(d, b, c) => Before(d, a, c)
           /\ Before(d, a, a)
  BY DEF Before, Other, Side

\* A rotation keeps the order.
LEMMA RotateOrder ==
    ASSUME NEW s \in Tree, NEW S, NEW under, Shape(s, S, under), NEW n \in S, NEW d \in Side,
           s.child[Other(d)][n] # nil, NEW z, Rotated(s, z, S, n, d), Ordered(s, S, under)
    PROVE  Ordered(z, S, Turned(s, under, n, d))
  <1> DEFINE o     == Other(d)
             up    == s.child[o][n]
             inner == s.child[d][up]
             outer == s.child[o][up]
             low   == s.child[d][n]
             v     == Turned(s, under, n, d)
  <1>1. o \in Side /\ o # d /\ Other(o) = d /\ Side = {d, o}
    BY Sides
  <1>2. /\ up \in S /\ up # n /\ s.parent[up] = n
        /\ inner \in (S \cup {nil}) \ {n, up} /\ outer \in (S \cup {nil}) \ {n, up}
        /\ low \in (S \cup {nil}) \ {n, up}
        /\ inner # nil => s.parent[inner] = up
        /\ outer # nil => s.parent[outer] = up
        /\ low # nil => s.parent[low] = n
        /\ under[n] = {n} \cup under[low] \cup under[up]
        /\ under[up] = {up} \cup under[inner] \cup under[outer]
        /\ n \notin under[low] /\ n \notin under[up]
        /\ up \notin under[inner] /\ up \notin under[outer]
        /\ under[low] \cap under[up] = {} /\ under[inner] \cap under[outer] = {}
    <2>1. Family(S, under, s, n, up, inner, outer, low)
      BY Turning
    <2> QED
      BY <2>1 DEF Family
  <1>3. /\ nil \notin S /\ S \subseteq Address /\ nil \in Address
        /\ \A x \in S : x \in under[x] /\ under[x] \subseteq S
        /\ under \in [Address -> SUBSET Node]
        /\ \A x \in S : s.key[x] \in Int
    <2>1. \A x \in Address : s.key[x] \in Int
      BY DEF Tree
    <2> QED
      BY <2>1, Inside
  <1>4. /\ v[n] = {n} \cup under[low] \cup under[inner]
        /\ v[up] = under[n]
        /\ \A x \in Address \ {n, up} : v[x] = under[x]
    <2> HIDE DEF up, inner, low, outer
    <2>1. v = [x \in Address |-> IF x = n THEN {n} \cup under[low] \cup under[inner]
                                 ELSE IF x = up THEN under[n] ELSE under[x]]
      BY DEF Turned, up, inner, low
    <2> HIDE DEF v
    <2> QED
      BY <1>2, <1>3, <2>1
  <1> HIDE DEF v
  <1>5. /\ z.key = s.key
        /\ \A e \in Side, x \in Address :
              z.child[e][x] = IF x = n THEN (IF e = d THEN low ELSE inner)
                              ELSE IF x = up THEN (IF e = d THEN n ELSE s.child[e][up])
                              ELSE IF x \in S /\ s.child[e][x] = n THEN up
                              ELSE s.child[e][x]
    BY DEF Rotated
  <1>6. /\ \A x \in S : x \in under[low] => Before(d, s.key[x], s.key[n])
        /\ \A x \in S : x \in under[up] => Before(o, s.key[x], s.key[n])
        /\ \A x \in S : x \in under[inner] => Before(d, s.key[x], s.key[up])
        /\ \A x \in S : x \in under[outer] => Before(o, s.key[x], s.key[up])
    BY <1>1, <1>2 DEF Ordered
  <1> HIDE DEF o, up, inner, outer, low
  <1>7. ASSUME NEW m \in S, NEW x \in S, NEW e \in Side, x \in v[z.child[e][m]]
        PROVE  Before(e, s.key[x], s.key[m])
    <2>1. CASE m = n
      <3>1. CASE e = d
        BY <1>2, <1>3, <1>4, <1>5, <1>6, <1>7, <2>1, <3>1
      <3>2. CASE e = o
        BY <1>1, <1>2, <1>3, <1>4, <1>5, <1>6, <1>7, <2>1, <3>2
      <3> QED
        BY <1>1, <3>1, <3>2
    <2>2. CASE m = up
      <3>1. CASE e = d
        <4>1. x = n \/ x \in under[low] \/ x \in under[inner]
          BY <1>2, <1>3, <1>4, <1>5, <1>7, <2>2, <3>1
        <4>2. Before(d, s.key[n], s.key[up])
          BY <1>1, <1>2, <1>3, <1>6, BeforeIs
        <4> QED
          BY <1>2, <1>3, <1>6, <2>2, <3>1, <4>1, <4>2, BeforeIs
      <3>2. CASE e = o
        <4>1. x \in under[outer]
          BY <1>1, <1>2, <1>3, <1>4, <1>5, <1>7, <2>2, <3>2 DEF outer
        <4> QED
          BY <1>6, <2>2, <3>2, <4>1
      <3> QED
        BY <1>1, <3>1, <3>2
    <2>3. CASE m \notin {n, up}
      <3>1. s.child[e][m] # up /\ s.child[e][m] \in Address
        <4>1. s.child[e][m] # nil => s.parent[s.child[e][m]] = m
          BY DEF Shape, Parted
        <4> QED
          BY <1>2, <1>3, <2>3, <4>1, Inside
      <3>3. z.child[e][m] = IF s.child[e][m] = n THEN up ELSE s.child[e][m]
        BY <1>3, <1>5, <2>3
      <3>2. v[z.child[e][m]] = under[s.child[e][m]]
        BY <1>2, <1>3, <1>4, <3>1, <3>3
      <3> QED
        BY <1>7, <3>2 DEF Ordered
    <2> QED
      BY <2>1, <2>2, <2>3
  <1>8. Ordered(z, S, v)
    BY <1>5, <1>7 DEF Ordered
  <1> QED
    BY <1>8 DEF v

\* The same links.
Relinked(s, z) == z.root = s.root /\ z.parent = s.parent /\ z.child = s.child

LEMMA SameShape ==
    ASSUME NEW s, NEW z, Relinked(s, z), NEW S, NEW under
    PROVE  /\ Shape(s, S, under) => Shape(z, S, under)
           /\ Ordered(s, S, under) /\ z.key = s.key => Ordered(z, S, under)
  BY DEF Relinked, Shape, Rooted, Parted, Hung, Closed, Ordered

\* Whose child a node is.
LEMMA ChildOf ==
    ASSUME NEW s \in Tree, NEW S, NEW under, Shape(s, S, under), NEW m \in S, NEW n \in S,
           s.parent[m] = n, NEW d \in Side
    PROVE  m = s.child[d][n] \/ m = s.child[Other(d)][n]
  <1>1. nil \notin S
    BY Inside
  <1>2. m # s.root
    BY <1>1 DEF Shape, Rooted
  <1> QED
    BY <1>2, Sides DEF Shape, Hung

-----------------------------------------------------------------------------
(* A node with one child at most is taken out, and the child takes its     *)
(* place.                                                                  *)
Excised(s, z, S, r, c) ==
    /\ z \in Tree /\ z.key = s.key /\ z.color = s.color
    /\ z.root = IF r = s.root THEN c ELSE s.root
    /\ \A x \in Address : z.parent[x] = IF x = c THEN s.parent[r] ELSE s.parent[x]
    /\ \A e \in Side, x \in Address :
          z.child[e][x] = IF x \in S /\ s.child[e][x] = r THEN c ELSE s.child[e][x]

\* The node is the root exactly when it has no parent.
LEMMA RootIs ==
    ASSUME NEW s \in Tree, NEW S, NEW under, Shape(s, S, under), NEW n \in S
    PROVE  n = s.root <=> s.parent[n] = nil
  <1>1. nil \notin S
    BY Inside
  <1> QED
    BY <1>1 DEF Shape, Rooted, Hung

LEMMA TransplantIs ==
    ASSUME NEW s \in Tree, NEW S, NEW under, Shape(s, S, under), NEW r \in S, NEW c \in Address
    PROVE  Excised(s, Transplant(s, r, c), S, r, c)
  <1> DEFINE y == Replace(s, r, c)
             z == SetParent(y, c, s.parent[r])
  <1>1. Transplant(s, r, c) = z
    BY RootIs DEF Transplant, Replace
  <1>2. s.parent[r] \in Address
    BY Inside DEF Tree
  <1>3. Replaced(s, y, S, r, c)
    BY ReplaceIs
  <1> HIDE DEF y
  <1>4. ParentSet(y, z, c, s.parent[r])
    BY <1>2, <1>3, SetParentIs DEF Replaced
  <1> HIDE DEF z
  <1>5. Excised(s, z, S, r, c)
    BY <1>3, <1>4 DEF Replaced, ParentSet, Excised
  <1> QED
    BY <1>1, <1>5

Without(under, r) == [x \in Address |-> under[x] \ {r}]

LEMMA ExciseShape ==
    ASSUME NEW s \in Tree, NEW S, NEW under, Shape(s, S, under), NEW r \in S,
           NEW d \in Side, s.child[d][r] = nil, NEW c, c = s.child[Other(d)][r],
           NEW z, Excised(s, z, S, r, c)
    PROVE  Shape(z, S \ {r}, Without(under, r))
  <1> DEFINE v == Without(under, r)
  <1>1. /\ nil \notin S /\ S \subseteq Node /\ S \subseteq Address /\ nil \in Address
        /\ under \in [Address -> SUBSET Node] /\ under[nil] = {}
        /\ \A x \in S : x \in under[x] /\ under[x] \subseteq S
    BY Inside DEF Shape, Rooted
  <1>2. /\ c \in (S \cup {nil}) \ {r} /\ (c # nil => s.parent[c] = r)
        /\ under[r] = {r} \cup under[c] /\ r \notin under[c]
    <2>1. Other(d) \in Side /\ Other(Other(d)) = d
      BY Sides
    <2>2. /\ c \in S \cup {nil} /\ c # r /\ (c # nil => s.parent[c] = r) /\ r \notin under[c]
          /\ under[r] = {r} \cup under[c] \cup under[nil]
      BY <2>1, Below
    <2> QED
      BY <1>1, <2>2
  <1>3. /\ v \in [Address -> SUBSET Node] /\ v[nil] = {} /\ v[c] = under[c]
        /\ \A x \in Address : v[x] = under[x] \ {r}
    <2>1. \A x \in Address : v[x] = under[x] \ {r}
      BY DEF Without
    <2>2. v \in [Address -> SUBSET Node]
      BY <1>1 DEF Without
    <2>3. nil \in Address /\ c \in Address
      BY <1>1, <1>2
    <2> HIDE DEF v
    <2>4. v[nil] = under[nil] \ {r} /\ v[c] = under[c] \ {r}
      BY <2>1, <2>3
    <2>5. under[nil] \ {r} = {} /\ under[c] \ {r} = under[c]
      BY <1>1, <1>2
    <2> QED
      BY <2>1, <2>2, <2>4, <2>5
  <1> HIDE DEF v
  <1>4. /\ z.root = IF r = s.root THEN c ELSE s.root
        /\ \A x \in Address : z.parent[x] = IF x = c THEN s.parent[r] ELSE s.parent[x]
        /\ \A e \in Side, x \in Address :
              z.child[e][x] = IF x \in S /\ s.child[e][x] = r THEN c ELSE s.child[e][x]
    BY DEF Excised
  <1>5. Rooted(z, S \ {r}, v)
    <2>1. /\ under[s.root] = S /\ s.root \in S \cup {nil}
          /\ (s.root # nil => s.parent[s.root] = nil)
          /\ \A e \in Side : s.child[e][nil] = nil
      BY DEF Shape, Rooted
    <2>2. v[z.root] = S \ {r} /\ z.root \in (S \ {r}) \cup {nil}
          /\ (z.root # nil => z.parent[z.root] = nil)
      <3>1. CASE r = s.root
        <4>1. z.root = c /\ v[c] = under[c] /\ S = {r} \cup under[c] /\ r \notin under[c]
          BY <1>2, <1>3, <1>4, <2>1, <3>1
        <4>2. c \in Address /\ z.parent[c] = nil
          BY <1>1, <1>2, <1>4, <2>1, <3>1
        <4> QED
          BY <1>2, <4>1, <4>2
      <3>2. CASE r # s.root
        BY <1>1, <1>2, <1>3, <1>4, <2>1, <3>2
      <3> QED
        BY <3>1, <3>2
    <2>3. \A e \in Side : z.child[e][nil] = nil
      BY <1>1, <1>4, <2>1
    <2> QED
      BY <1>1, <1>3, <2>2, <2>3 DEF Rooted
  <1>6. ASSUME NEW m \in S \ {r}, NEW e \in Side
        PROVE  /\ s.child[e][m] \in S \cup {nil}
               /\ s.child[e][m] # nil => s.parent[s.child[e][m]] = m
               /\ z.child[e][m] = IF s.child[e][m] = r THEN c ELSE s.child[e][m]
               /\ v[z.child[e][m]] = under[s.child[e][m]] \ {r}
    <2>1. /\ s.child[e][m] \in S \cup {nil}
          /\ s.child[e][m] # nil => s.parent[s.child[e][m]] = m
      BY DEF Shape, Parted
    <2>2. z.child[e][m] = IF s.child[e][m] = r THEN c ELSE s.child[e][m]
      BY <1>1, <1>4
    <2> QED
      BY <1>1, <1>2, <1>3, <2>1, <2>2
  <1>7. Parted(z, S \ {r}, v)
    <2> SUFFICES ASSUME NEW m \in S \ {r}, NEW e \in Side
                 PROVE  /\ z.child[e][m] \in (S \ {r}) \cup {nil}
                        /\ z.child[e][m] # nil => z.parent[z.child[e][m]] = m
                        /\ m \notin v[z.child[e][m]]
                        /\ v[m] = {m} \cup v[z.child[e][m]] \cup v[z.child[Other(e)][m]]
                        /\ v[z.child[e][m]] \cap v[z.child[Other(e)][m]] = {}
      BY DEF Parted
    <2>1. Other(e) \in Side
      BY Sides
    <2>2. /\ m \notin under[s.child[e][m]]
          /\ under[m] = {m} \cup under[s.child[e][m]] \cup under[s.child[Other(e)][m]]
          /\ under[s.child[e][m]] \cap under[s.child[Other(e)][m]] = {}
      BY DEF Shape, Parted
    <2>3. z.child[e][m] # nil => z.parent[z.child[e][m]] = m
      <3>1. CASE s.child[e][m] = r
        BY <1>1, <1>2, <1>4, <1>6, <3>1
      <3>2. CASE s.child[e][m] # r
        BY <1>1, <1>2, <1>4, <1>6, <3>2
      <3> QED
        BY <3>1, <3>2
    <2>4. v[m] = under[m] \ {r}
      BY <1>1, <1>3
    <2>5. /\ v[z.child[e][m]] = under[s.child[e][m]] \ {r}
          /\ v[z.child[Other(e)][m]] = under[s.child[Other(e)][m]] \ {r}
      BY <1>6, <2>1
    <2> QED
      BY <1>2, <1>6, <2>2, <2>3, <2>4, <2>5
  <1>8. Hung(z, S \ {r})
    <2> SUFFICES ASSUME NEW m \in S \ {r}, m # z.root
                 PROVE  z.parent[m] \in S \ {r} /\ \E e \in Side : z.child[e][z.parent[m]] = m
      BY DEF Hung
    <2>1. CASE m = c
      <3>1. r # s.root
        BY <1>4, <2>1
      <3>2. /\ SideOf(s, r) \in Side /\ s.parent[r] \in S /\ s.parent[r] # r
            /\ s.child[SideOf(s, r)][s.parent[r]] = r
        BY <3>1, SideIs
      <3> QED
        BY <1>1, <1>4, <2>1, <3>2
    <2>2. CASE m # c
      <3>1. m # s.root
        BY <1>4, <2>2
      <3>2. /\ SideOf(s, m) \in Side /\ s.parent[m] \in S
            /\ s.child[SideOf(s, m)][s.parent[m]] = m
        BY <3>1, SideIs
      <3>3. s.parent[m] # r
        <4>1. s.parent[m] = r => m = nil \/ m = c
          BY ChildOf
        <4> QED
          BY <1>1, <2>2, <4>1
      <3> QED
        BY <1>1, <1>4, <2>2, <3>2, <3>3
    <2> QED
      BY <2>1, <2>2
  <1>9. Closed(z, S \ {r}, v)
    <2>1. \A y \in S \ {r} : v[y] \subseteq S \ {r}
      BY <1>1, <1>3
    <2>2. ASSUME NEW y \in S \ {r}, NEW x \in S \ {r}, x \in v[y]
          PROVE  v[x] \subseteq v[y] /\ (x # y => z.parent[x] \in v[y])
      <3>0. v[x] = under[x] \ {r} /\ v[y] = under[y] \ {r} /\ x \in under[y]
        BY <1>1, <1>3, <2>2
      <3>1. under[x] \subseteq under[y] /\ (x # y => s.parent[x] \in under[y])
        BY <3>0 DEF Shape, Closed
      <3>2. CASE x = c
        <4>1. r \in under[y] => s.parent[r] \in under[y]
          BY DEF Shape, Closed
        <4>2. s.parent[r] # r
          <5>1. r # s.root => s.parent[r] # r
            BY SideIs
          <5> QED
            BY <1>1, <5>1 DEF Shape, Rooted
        <4> QED
          BY <1>1, <1>2, <1>4, <3>0, <3>1, <3>2, <4>1, <4>2
      <3>3. CASE x # c
        <4>1. s.parent[x] # r
          <5>1. s.parent[x] = r => x = nil \/ x = c
            BY ChildOf
          <5> QED
            BY <1>1, <3>3, <5>1
        <4> QED
          BY <1>1, <1>4, <3>0, <3>1, <3>3, <4>1
      <3> QED
        BY <3>2, <3>3
    <2> QED
      BY <2>1, <2>2 DEF Closed
  <1>10. Shape(z, S \ {r}, v)
    BY <1>5, <1>7, <1>8, <1>9 DEF Shape
  <1> QED
    BY <1>10 DEF v

\* Tree z has the links and the keys of s in S.
Alike(s, z, S) ==
    /\ z.root = s.root
    /\ \A d \in Side : z.child[d][nil] = s.child[d][nil]
    /\ \A n \in S : /\ z.key[n] = s.key[n] /\ z.parent[n] = s.parent[n]
                    /\ \A d \in Side : z.child[d][n] = s.child[d][n]

LEMMA Reframe ==
    ASSUME NEW s \in Tree, NEW z \in Tree, NEW S, NEW under, Alike(s, z, S),
           Shape(s, S, under), Ordered(s, S, under)
    PROVE  Shape(z, S, under) /\ Ordered(z, S, under)
  <1>1. \A n \in S, d \in Side : s.child[d][n] \in S \cup {nil} /\ Other(d) \in Side
    BY Sides DEF Shape, Parted
  <1>2. \A n \in S : n # s.root => s.parent[n] \in S
    BY DEF Shape, Hung
  <1>3. Rooted(z, S, under)
    BY DEF Alike, Shape, Rooted
  <1>4. Parted(z, S, under)
    <2> SUFFICES ASSUME NEW n \in S, NEW d \in Side
                 PROVE  /\ z.child[d][n] \in S \cup {nil}
                        /\ z.child[d][n] # nil => z.parent[z.child[d][n]] = n
                        /\ n \notin under[z.child[d][n]]
                        /\ under[n] = {n} \cup under[z.child[d][n]] \cup under[z.child[Other(d)][n]]
                        /\ under[z.child[d][n]] \cap under[z.child[Other(d)][n]] = {}
      BY DEF Parted
    <2>1. z.child[d][n] = s.child[d][n] /\ z.child[Other(d)][n] = s.child[Other(d)][n]
      BY <1>1 DEF Alike
    <2>2. /\ s.child[d][n] # nil => s.parent[s.child[d][n]] = n
          /\ n \notin under[s.child[d][n]]
          /\ under[n] = {n} \cup under[s.child[d][n]] \cup under[s.child[Other(d)][n]]
          /\ under[s.child[d][n]] \cap under[s.child[Other(d)][n]] = {}
      BY DEF Shape, Parted
    <2>3. s.child[d][n] # nil => z.parent[s.child[d][n]] = s.parent[s.child[d][n]]
      BY <1>1 DEF Alike
    <2> QED
      BY <1>1, <2>1, <2>2, <2>3
  <1>5. Hung(z, S)
    <2> SUFFICES ASSUME NEW n \in S, n # z.root
                 PROVE  z.parent[n] \in S /\ \E d \in Side : z.child[d][z.parent[n]] = n
      BY DEF Hung
    <2>1. n # s.root /\ z.parent[n] = s.parent[n]
      BY DEF Alike
    <2>2. PICK d \in Side : s.child[d][s.parent[n]] = n
      BY <2>1 DEF Shape, Hung
    <2>3. z.child[d][s.parent[n]] = s.child[d][s.parent[n]]
      BY <1>2, <2>1 DEF Alike
    <2> QED
      BY <1>2, <2>1, <2>2, <2>3
  <1>6. Closed(z, S, under)
    <2>1. \A n \in S : z.parent[n] = s.parent[n]
      BY DEF Alike
    <2> QED
      BY <2>1 DEF Shape, Closed
  <1>7. Ordered(z, S, under)
    <2>1. \A n \in S, d \in Side : z.child[d][n] = s.child[d][n] /\ z.key[n] = s.key[n]
      BY DEF Alike
    <2> QED
      BY <2>1 DEF Ordered
  <1> QED
    BY <1>3, <1>4, <1>5, <1>6, <1>7 DEF Shape

LEMMA ExciseOrder ==
    ASSUME NEW s \in Tree, NEW S, NEW under, Shape(s, S, under), Ordered(s, S, under),
           NEW r \in S, NEW d \in Side, s.child[d][r] = nil, NEW c, c = s.child[Other(d)][r],
           NEW z, Excised(s, z, S, r, c)
    PROVE  Ordered(z, S \ {r}, Without(under, r))
  <1> SUFFICES ASSUME NEW n \in S \ {r}, NEW x \in S \ {r}, NEW e \in Side,
                      x \in Without(under, r)[z.child[e][n]]
               PROVE  Before(e, z.key[x], z.key[n])
    BY DEF Ordered
  <1>1. /\ S \subseteq Address /\ under[c] \subseteq under[r] /\ s.child[e][n] \in Address
        /\ c \in Address
    <2>1. Other(d) \in Side
      BY Sides
    <2> QED
      BY <2>1, Inside
  <1>2. z.key = s.key /\ z.child[e][n] = IF s.child[e][n] = r THEN c ELSE s.child[e][n]
    BY <1>1 DEF Excised
  <1>3. x \in under[s.child[e][n]]
    BY <1>1, <1>2 DEF Without
  <1> QED
    BY <1>2, <1>3 DEF Ordered

-----------------------------------------------------------------------------
(* A new leaf r hangs on side d of p, or is the root when p is nil.        *)
Hooked(s, z, r, p, d) ==
    /\ z \in Tree /\ z.key = s.key
    /\ z.root = IF p = nil THEN r ELSE s.root
    /\ \A x \in Address : z.parent[x] = IF x = r THEN p ELSE s.parent[x]
    /\ \A e \in Side, x \in Address :
          z.child[e][x] = IF x = p /\ p # nil /\ e = d THEN r ELSE s.child[e][x]

With(under, S, r, p) ==
    [x \in Address |-> IF x = r THEN {r}
                       ELSE IF x \in S /\ p \in under[x] THEN under[x] \cup {r} ELSE under[x]]

LEMMA HookShape ==
    ASSUME NEW s \in Tree, NEW S, NEW under, Shape(s, S, under),
           NEW r \in Node \ S, \A e \in Side : s.child[e][r] = nil,
           NEW p \in S \cup {nil}, NEW d \in Side,
           p = nil => s.root = nil, s.child[d][p] = nil,
           NEW z, Hooked(s, z, r, p, d)
    PROVE  Shape(z, S \cup {r}, With(under, S, r, p))
  <1> DEFINE v == With(under, S, r, p)
             T == S \cup {r}
  <1>1. /\ nil \notin S /\ S \subseteq Node /\ S \subseteq Address /\ nil \in Address
        /\ under \in [Address -> SUBSET Node] /\ under[nil] = {}
        /\ \A x \in S : x \in under[x] /\ under[x] \subseteq S
        /\ r \in Address /\ r # nil /\ r \notin S
    <2>1. r \in Address /\ r # nil /\ r \notin S
      BY KeyAssumption DEF Address
    <2> QED
      BY <2>1, Inside DEF Shape, Rooted
  <1>2. /\ \A x \in Address : v[x] = IF x = r THEN {r}
                     ELSE IF x \in S /\ p \in under[x] THEN under[x] \cup {r} ELSE under[x]
        /\ v[nil] = {} /\ v[r] = {r}
        /\ v \in [Address -> SUBSET Node]
    BY <1>1 DEF With
  <1> HIDE DEF v
  <1>3. /\ z.root = IF p = nil THEN r ELSE s.root
        /\ \A x \in Address : z.parent[x] = IF x = r THEN p ELSE s.parent[x]
        /\ \A e \in Side, x \in Address :
              z.child[e][x] = IF x = p /\ p # nil /\ e = d THEN r ELSE s.child[e][x]
    BY DEF Hooked
  <1>4. p = nil => S = {}
    BY <1>1 DEF Shape, Rooted
  <1>5. Rooted(z, T, v)
    <2>1. /\ under[s.root] = S /\ s.root \in S \cup {nil}
          /\ (s.root # nil => s.parent[s.root] = nil)
          /\ \A e \in Side : s.child[e][nil] = nil
      BY DEF Shape, Rooted
    <2>2. v[z.root] = T /\ z.root \in T \cup {nil} /\ (z.root # nil => z.parent[z.root] = nil)
      <3>1. CASE p = nil
        BY <1>1, <1>2, <1>3, <1>4, <3>1
      <3>2. CASE p # nil
        <4>1. p \in S /\ s.root \in S /\ s.root # r
          BY <1>1, <2>1, <3>2
        <4>2. v[s.root] = S \cup {r}
          BY <1>1, <1>2, <2>1, <4>1
        <4> QED
          BY <1>1, <1>3, <2>1, <3>2, <4>1, <4>2
      <3> QED
        BY <3>1, <3>2
    <2>3. \A e \in Side : z.child[e][nil] = nil
      BY <1>1, <1>3, <2>1
    <2> QED
      BY <1>1, <1>2, <2>2, <2>3 DEF Rooted
  <1>6. Parted(z, T, v)
    <2> SUFFICES ASSUME NEW m \in T, NEW e \in Side
                 PROVE  /\ z.child[e][m] \in T \cup {nil}
                        /\ z.child[e][m] # nil => z.parent[z.child[e][m]] = m
                        /\ m \notin v[z.child[e][m]]
                        /\ v[m] = {m} \cup v[z.child[e][m]] \cup v[z.child[Other(e)][m]]
                        /\ v[z.child[e][m]] \cap v[z.child[Other(e)][m]] = {}
      BY DEF Parted
    <2>0. Other(e) \in Side /\ Other(Other(e)) = e /\ Other(e) # e
      BY Sides
    <2>1. CASE m = r
      <3>1. z.child[e][r] = nil /\ z.child[Other(e)][r] = nil
        BY <1>1, <1>3, <2>0
      <3> QED
        BY <1>1, <1>2, <2>1, <3>1
    <2>2. CASE m \in S
      <3> DEFINE a == s.child[e][m]
                 b == s.child[Other(e)][m]
      <3>1. /\ a \in S \cup {nil} /\ b \in S \cup {nil}
            /\ (a # nil => s.parent[a] = m) /\ (b # nil => s.parent[b] = m)
            /\ m \notin under[a] /\ under[m] = {m} \cup under[a] \cup under[b]
            /\ under[a] \cap under[b] = {} /\ m \notin under[b]
        BY <2>0, <2>2 DEF Shape, Parted
      <3>2. /\ z.child[e][m] = IF m = p /\ e = d THEN r ELSE a
            /\ z.child[Other(e)][m] = IF m = p /\ Other(e) = d THEN r ELSE b
        BY <1>1, <1>3, <2>0, <2>2
      <3>3. (m = p /\ e = d => a = nil) /\ (m = p /\ Other(e) = d => b = nil)
        OBVIOUS
      <3> HIDE DEF a, b
      <3>4. v[m] = IF p \in under[m] THEN under[m] \cup {r} ELSE under[m]
        BY <1>1, <1>2, <2>2
      <3>5. v[a] = IF p \in under[a] THEN under[a] \cup {r} ELSE under[a]
        BY <1>1, <1>2, <3>1
      <3>6. v[b] = IF p \in under[b] THEN under[b] \cup {r} ELSE under[b]
        BY <1>1, <1>2, <3>1
      <3>7. r \notin under[a] /\ r \notin under[b] /\ r \notin under[m]
        BY <1>1, <2>2, <3>1
      <3>9. d = e \/ d = Other(e)
        BY <2>0, Sides
      <3>8. CASE m = p
        <4>1. v[m] = under[m] \cup {r} /\ v[a] = under[a] /\ v[b] = under[b]
          BY <1>1, <2>2, <3>1, <3>4, <3>5, <3>6, <3>8
        <4>2. CASE d = e
          BY <1>1, <1>2, <1>3, <2>0, <2>2, <3>1, <3>2, <3>3, <3>7, <3>8, <4>1, <4>2
        <4>3. CASE d = Other(e)
          BY <1>1, <1>2, <1>3, <2>0, <2>2, <3>1, <3>2, <3>3, <3>7, <3>8, <4>1, <4>3
        <4> QED
          BY <3>9, <4>2, <4>3
      <3>10. CASE m # p
        <4>1. z.child[e][m] = a /\ z.child[Other(e)][m] = b
          BY <3>2, <3>10
        <4>2. (a # nil => z.parent[a] = m)
          BY <1>1, <1>3, <3>1
        <4> QED
          BY <1>1, <2>2, <3>1, <3>4, <3>5, <3>6, <3>7, <3>10, <4>1, <4>2
      <3> QED
        BY <3>8, <3>10
    <2> QED
      BY <2>1, <2>2
  <1>7. Hung(z, T)
    <2> SUFFICES ASSUME NEW m \in T, m # z.root
                 PROVE  z.parent[m] \in T /\ \E e \in Side : z.child[e][z.parent[m]] = m
      BY DEF Hung
    <2>1. CASE m = r
      BY <1>1, <1>3, <2>1
    <2>2. CASE m # r
      <3>1. m \in S /\ p # nil /\ m # s.root
        BY <1>3, <1>4, <2>2
      <3>2. s.parent[m] \in S
        BY <3>1 DEF Shape, Hung
      <3>3. PICK e \in Side : s.child[e][s.parent[m]] = m
        BY <3>1 DEF Shape, Hung
      <3>4. z.parent[m] = s.parent[m] /\ z.child[e][s.parent[m]] = m
        BY <1>1, <1>3, <2>2, <3>1, <3>2, <3>3
      <3> QED
        BY <3>2, <3>4
    <2> QED
      BY <2>1, <2>2
  <1>8. Closed(z, T, v)
    <2>1. \A y \in T : v[y] \subseteq T
      BY <1>1, <1>2
    <2>2. ASSUME NEW y \in T, NEW x \in T, x \in v[y]
          PROVE  v[x] \subseteq v[y] /\ (x # y => z.parent[x] \in v[y])
      <3>1. CASE y = r
        BY <1>1, <1>2, <2>2, <3>1
      <3>2. CASE y # r
        <4>1. y \in S /\ v[y] = IF p \in under[y] THEN under[y] \cup {r} ELSE under[y]
          BY <1>1, <1>2, <3>2
        <4>2. CASE x = r
          <5>1. p \in under[y]
            BY <1>1, <2>2, <4>1, <4>2
          <5> QED
            BY <1>1, <1>2, <1>3, <4>1, <4>2, <5>1
        <4>3. CASE x # r
          <5>1. x \in S /\ x \in under[y]
            BY <2>2, <4>1, <4>3
          <5>2. under[x] \subseteq under[y] /\ (x # y => s.parent[x] \in under[y])
            BY <4>1, <5>1 DEF Shape, Closed
          <5>3. z.parent[x] = s.parent[x]
            BY <1>1, <1>3, <5>1
          <5>4. v[x] = IF p \in under[x] THEN under[x] \cup {r} ELSE under[x]
            BY <1>1, <1>2, <5>1
          <5> QED
            BY <4>1, <5>2, <5>3, <5>4
        <4> QED
          BY <4>2, <4>3
      <3> QED
        BY <3>1, <3>2
    <2> QED
      BY <2>1, <2>2 DEF Closed
  <1>9. Shape(z, T, v)
    BY <1>5, <1>6, <1>7, <1>8 DEF Shape
  <1> QED
    BY <1>9 DEF v, T

\* The leaf fits where it hangs.
LEMMA HookOrder ==
    ASSUME NEW s \in Tree, NEW S, NEW under, Shape(s, S, under), Ordered(s, S, under),
           NEW r \in Node \ S, \A e \in Side : s.child[e][r] = nil,
           NEW p \in S \cup {nil}, NEW d \in Side,
           p = nil => s.root = nil, s.child[d][p] = nil,
           NEW z, Hooked(s, z, r, p, d),
           p # nil => Before(d, s.key[r], s.key[p]),
           \A n \in S, e \in Side : p \in under[s.child[e][n]] => Before(e, s.key[r], s.key[n])
    PROVE  Ordered(z, S \cup {r}, With(under, S, r, p))
  <1> DEFINE v == With(under, S, r, p)
  <1>1. /\ nil \notin S /\ S \subseteq Address /\ nil \in Address
        /\ under \in [Address -> SUBSET Node] /\ under[nil] = {}
        /\ r \in Address /\ r # nil /\ r \notin S
        /\ \A x \in S : x \in under[x] /\ under[x] \subseteq S
    <2>1. r \in Address /\ r # nil /\ r \notin S
      BY KeyAssumption DEF Address
    <2> QED
      BY <2>1, Inside DEF Shape, Rooted
  <1>2. /\ \A x \in Address : v[x] = IF x = r THEN {r}
                     ELSE IF x \in S /\ p \in under[x] THEN under[x] \cup {r} ELSE under[x]
        /\ v[nil] = {} /\ v[r] = {r}
    BY <1>1 DEF With
  <1> HIDE DEF v
  <1>3. /\ z.key = s.key
        /\ \A e \in Side, x \in Address :
              z.child[e][x] = IF x = p /\ p # nil /\ e = d THEN r ELSE s.child[e][x]
    BY DEF Hooked
  <1>4. ASSUME NEW n \in S \cup {r}, NEW x \in S \cup {r}, NEW e \in Side, x \in v[z.child[e][n]]
        PROVE  Before(e, z.key[x], z.key[n])
    <2>1. n \in S
      <3>1. n = r => z.child[e][n] = nil
        BY <1>1, <1>3
      <3> QED
        BY <1>2, <1>4, <3>1
    <2>2. s.child[e][n] \in S \cup {nil}
      BY <2>1 DEF Shape, Parted
    <2>3. CASE n = p /\ e = d
      BY <1>1, <1>2, <1>3, <1>4, <2>1, <2>3
    <2>4. CASE ~(n = p /\ e = d)
      <3>1. x \in v[s.child[e][n]]
        BY <1>1, <1>3, <1>4, <2>1, <2>4
      <3>2. v[s.child[e][n]] = IF p \in under[s.child[e][n]] THEN under[s.child[e][n]] \cup {r}
                               ELSE under[s.child[e][n]]
        BY <1>1, <1>2, <2>2
      <3>3. CASE x = r
        <4>1. r \notin under[s.child[e][n]]
          BY <1>1, <2>2
        <4> QED
          BY <1>3, <2>1, <3>1, <3>2, <3>3, <4>1
      <3>4. CASE x # r
        BY <1>3, <2>1, <3>1, <3>2, <3>4 DEF Ordered
      <3> QED
        BY <3>3, <3>4
    <2> QED
      BY <2>3, <2>4
  <1> QED
    BY <1>4 DEF Ordered, v

-----------------------------------------------------------------------------
(* A node r from outside takes the place of node p.                        *)
Named(x, p, r) == IF x = p THEN r ELSE x
NamedIn(X, p, r) == IF p \in X THEN (X \ {p}) \cup {r} ELSE X

Renamed(s, z, S, p, r) ==
    /\ z \in Tree /\ z.root = Named(s.root, p, r)
    /\ \A e \in Side : z.child[e][nil] = nil /\ z.child[e][r] = s.child[e][p]
    /\ z.parent[r] = s.parent[p]
    /\ \A x \in S \ {p} : /\ z.key[x] = s.key[x]
                          /\ z.parent[x] = Named(s.parent[x], p, r)
                          /\ \A e \in Side : z.child[e][x] = Named(s.child[e][x], p, r)

Moved(under, p, r) ==
    [x \in Address |-> NamedIn(under[IF x = r THEN p ELSE x], p, r)]

LEMMA RenameShape ==
    ASSUME NEW s \in Tree, NEW S, NEW under, Shape(s, S, under), NEW p \in S,
           NEW r \in Node \ S, NEW z, Renamed(s, z, S, p, r)
    PROVE  Shape(z, (S \ {p}) \cup {r}, Moved(under, p, r))
  <1> DEFINE v == Moved(under, p, r)
             T == (S \ {p}) \cup {r}
  <1>0. r \in Address /\ r # nil /\ r \notin S
    BY KeyAssumption DEF Address
  <1>1. /\ nil \notin S /\ S \subseteq Node /\ S \subseteq Address /\ nil \in Address
        /\ under \in [Address -> SUBSET Node] /\ under[nil] = {}
        /\ \A x \in S : x \in under[x] /\ under[x] \subseteq S
    BY Inside DEF Shape, Rooted
  <1>2. /\ v[r] = (under[p] \ {p}) \cup {r}
        /\ \A x \in S \ {p} : v[x] = NamedIn(under[x], p, r)
        /\ v[nil] = {}
        /\ v \in [Address -> SUBSET Node]
    <2>1. v[r] = (under[p] \ {p}) \cup {r}
      BY <1>0, <1>1 DEF Moved, NamedIn
    <2>2. \A x \in S \ {p} : v[x] = NamedIn(under[x], p, r)
      BY <1>0, <1>1 DEF Moved
    <2>3. v[nil] = {}
      BY <1>0, <1>1 DEF Moved, NamedIn
    <2>4. v \in [Address -> SUBSET Node]
      BY <1>0, <1>1 DEF Moved, NamedIn
    <2> QED
      BY <2>1, <2>2, <2>3, <2>4
  <1> HIDE DEF v
  <1>3. /\ z.root = Named(s.root, p, r)
        /\ \A e \in Side : z.child[e][nil] = nil /\ z.child[e][r] = s.child[e][p]
        /\ z.parent[r] = s.parent[p]
        /\ \A x \in S \ {p} : z.parent[x] = Named(s.parent[x], p, r)
        /\ \A x \in S \ {p}, e \in Side : z.child[e][x] = Named(s.child[e][x], p, r)
    BY DEF Renamed
  <1>4. \A x \in S \cup {nil} : /\ v[Named(x, p, r)] = NamedIn(under[x], p, r)
                                /\ Named(x, p, r) \in T \cup {nil}
                                /\ Named(x, p, r) = nil => x = nil
    BY <1>0, <1>1, <1>2 DEF Named, NamedIn
  <1>5. Rooted(z, T, v)
    <2>1. /\ under[s.root] = S /\ s.root \in S \cup {nil}
          /\ (s.root # nil => s.parent[s.root] = nil)
      BY DEF Shape, Rooted
    <2>2. v[z.root] = T
      BY <1>3, <1>4, <2>1 DEF NamedIn
    <2>3. z.root # nil => z.parent[z.root] = nil
      <3>1. CASE s.root = p
        BY <1>1, <1>3, <2>1, <3>1 DEF Named
      <3>2. CASE s.root # p
        BY <1>1, <1>3, <2>1, <3>2 DEF Named
      <3> QED
        BY <3>1, <3>2
    <2> QED
      BY <1>0, <1>1, <1>2, <1>3, <1>4, <2>1, <2>2, <2>3 DEF Rooted
  <1>6. Parted(z, T, v)
    <2> SUFFICES ASSUME NEW m \in T, NEW e \in Side
                 PROVE  /\ z.child[e][m] \in T \cup {nil}
                        /\ z.child[e][m] # nil => z.parent[z.child[e][m]] = m
                        /\ m \notin v[z.child[e][m]]
                        /\ v[m] = {m} \cup v[z.child[e][m]] \cup v[z.child[Other(e)][m]]
                        /\ v[z.child[e][m]] \cap v[z.child[Other(e)][m]] = {}
      BY DEF Parted
    <2>0. Other(e) \in Side
      BY Sides
    <2>1. CASE m = r
      <3> DEFINE a == s.child[e][p]
                 b == s.child[Other(e)][p]
      <3>1. /\ a \in S \cup {nil} /\ b \in S \cup {nil}
            /\ (a # nil => s.parent[a] = p)
            /\ p \notin under[a] /\ under[p] = {p} \cup under[a] \cup under[b]
            /\ under[a] \cap under[b] = {} /\ p \notin under[b] /\ a # p /\ b # p
        <4>1. /\ a \in S \cup {nil} /\ b \in S \cup {nil}
              /\ (a # nil => s.parent[a] = p)
              /\ p \notin under[a] /\ under[p] = {p} \cup under[a] \cup under[b]
              /\ under[a] \cap under[b] = {} /\ p \notin under[b]
          BY <2>0 DEF Shape, Parted
        <4> QED
          BY <1>1, <4>1
      <3>2. z.child[e][m] = a /\ z.child[Other(e)][m] = b
        BY <1>3, <2>0, <2>1
      <3> HIDE DEF a, b
      <3>3. v[a] = under[a] /\ v[b] = under[b]
        BY <1>4, <3>1 DEF Named, NamedIn
      <3>4. a # nil => z.parent[a] = r
        BY <1>1, <1>3, <3>1 DEF Named
      <3>5. r \notin under[a]
        BY <1>0, <1>1, <3>1
      <3> QED
        BY <1>0, <1>2, <2>1, <3>1, <3>2, <3>3, <3>4, <3>5
    <2>2. CASE m \in S \ {p}
      <3> DEFINE a == s.child[e][m]
                 b == s.child[Other(e)][m]
      <3>1. /\ a \in S \cup {nil} /\ b \in S \cup {nil}
            /\ (a # nil => s.parent[a] = m)
            /\ m \notin under[a] /\ under[m] = {m} \cup under[a] \cup under[b]
            /\ under[a] \cap under[b] = {}
        BY <2>0, <2>2 DEF Shape, Parted
      <3>2. z.child[e][m] = Named(a, p, r) /\ z.child[Other(e)][m] = Named(b, p, r)
        BY <1>3, <2>0, <2>2
      <3> HIDE DEF a, b
      <3>3. /\ v[z.child[e][m]] = NamedIn(under[a], p, r)
            /\ v[z.child[Other(e)][m]] = NamedIn(under[b], p, r)
            /\ v[m] = NamedIn(under[m], p, r)
        BY <1>2, <1>4, <2>2, <3>1, <3>2
      <3>4. z.child[e][m] # nil => z.parent[z.child[e][m]] = m
        <4>1. CASE a = p
          BY <1>1, <1>3, <3>1, <3>2, <4>1 DEF Named
        <4>2. CASE a # p
          BY <1>1, <1>3, <2>2, <3>1, <3>2, <4>2 DEF Named
        <4> QED
          BY <4>1, <4>2
      <3>5. r \notin under[a] /\ r \notin under[b] /\ m # r /\ m # p
        BY <1>0, <1>1, <2>2, <3>1
      <3>6. /\ m \notin NamedIn(under[a], p, r)
            /\ NamedIn(under[m], p, r) = {m} \cup NamedIn(under[a], p, r) \cup NamedIn(under[b], p, r)
            /\ NamedIn(under[a], p, r) \cap NamedIn(under[b], p, r) = {}
        <4>1. CASE p \in under[a]
          <5>1. p \notin under[b] /\ p \in under[m]
            BY <3>1, <4>1
          <5> QED
            BY <3>1, <3>5, <4>1, <5>1 DEF NamedIn
        <4>2. CASE p \in under[b]
          <5>1. p \notin under[a] /\ p \in under[m]
            BY <3>1, <4>2
          <5> QED
            BY <3>1, <3>5, <4>2, <5>1 DEF NamedIn
        <4>3. CASE p \notin under[a] /\ p \notin under[b]
          <5>1. p \notin under[m]
            BY <3>1, <3>5, <4>3
          <5> QED
            BY <3>1, <3>5, <4>3, <5>1 DEF NamedIn
        <4> QED
          BY <4>1, <4>2, <4>3
      <3>7. z.child[e][m] \in T \cup {nil}
        BY <1>4, <3>1, <3>2
      <3> QED
        BY <3>3, <3>4, <3>6, <3>7
    <2> QED
      BY <2>1, <2>2
  <1>7. Hung(z, T)
    <2> SUFFICES ASSUME NEW m \in T, m # z.root
                 PROVE  z.parent[m] \in T /\ \E e \in Side : z.child[e][z.parent[m]] = m
      BY DEF Hung
    <2>1. CASE m = r
      <3>1. p # s.root
        BY <1>3, <2>1 DEF Named
      <3>2. /\ SideOf(s, p) \in Side /\ s.parent[p] \in S /\ s.parent[p] # p
            /\ s.child[SideOf(s, p)][s.parent[p]] = p
        BY <3>1, SideIs
      <3> QED
        BY <1>3, <2>1, <3>2 DEF Named
    <2>2. CASE m \in S \ {p}
      <3>1. m # s.root
        BY <1>3, <2>2 DEF Named
      <3>2. /\ SideOf(s, m) \in Side /\ s.parent[m] \in S /\ s.parent[m] # m
            /\ s.child[SideOf(s, m)][s.parent[m]] = m
        BY <2>2, <3>1, SideIs
      <3>3. z.parent[m] = Named(s.parent[m], p, r)
        BY <1>3, <2>2
      <3>4. CASE s.parent[m] = p
        BY <1>3, <2>2, <3>2, <3>3, <3>4 DEF Named
      <3>5. CASE s.parent[m] # p
        BY <1>3, <2>2, <3>2, <3>3, <3>5 DEF Named
      <3> QED
        BY <3>4, <3>5
    <2> QED
      BY <2>1, <2>2
  <1>8. Closed(z, T, v)
    <2>1. \A y \in T : v[y] \subseteq T
      <3>1. v[r] \subseteq T
        BY <1>1, <1>2
      <3>2. \A y \in S \ {p} : v[y] \subseteq T
        BY <1>1, <1>2 DEF NamedIn
      <3> QED
        BY <3>1, <3>2
    <2>2. ASSUME NEW y \in S, NEW x \in S, x \in under[y]
          PROVE  /\ NamedIn(under[x], p, r) \subseteq NamedIn(under[y], p, r)
                 /\ Named(x, p, r) # Named(y, p, r) =>
                       z.parent[Named(x, p, r)] \in NamedIn(under[y], p, r)
      <3>1. under[x] \subseteq under[y] /\ (x # y => s.parent[x] \in under[y])
        BY <2>2 DEF Shape, Closed
      <3>2. NamedIn(under[x], p, r) \subseteq NamedIn(under[y], p, r)
        BY <3>1 DEF NamedIn
      <3>3. x # s.root => s.parent[x] # x
        BY SideIs
      <3>5. s.parent[x] # x
        BY <1>1, <3>3 DEF Shape, Rooted
      <3>4. x # y => z.parent[Named(x, p, r)] = Named(s.parent[x], p, r)
        <4>1. CASE x = p
          BY <1>3, <3>5, <4>1 DEF Named
        <4>2. CASE x # p
          BY <1>3, <4>2 DEF Named
        <4> QED
          BY <4>1, <4>2
      <3> QED
        BY <3>1, <3>2, <3>4 DEF Named, NamedIn
    <2>3. \A x \in T : \E x0 \in S : x = Named(x0, p, r)
      BY DEF Named
    <2>4. \A x, y \in S : Named(x, p, r) \in NamedIn(under[y], p, r) => x \in under[y]
      BY <1>0, <1>1 DEF Named, NamedIn
    <2>5. ASSUME NEW y \in T, NEW x \in T, x \in v[y]
          PROVE  v[x] \subseteq v[y] /\ (x # y => z.parent[x] \in v[y])
      <3>1. PICK x0 \in S : x = Named(x0, p, r)
        BY <2>3
      <3>2. PICK y0 \in S : y = Named(y0, p, r)
        BY <2>3
      <3>3. v[x] = NamedIn(under[x0], p, r) /\ v[y] = NamedIn(under[y0], p, r)
        BY <1>4, <3>1, <3>2
      <3>4. x0 \in under[y0]
        BY <2>4, <2>5, <3>1, <3>3
      <3> QED
        BY <2>2, <3>1, <3>2, <3>3, <3>4
    <2> QED
      BY <2>1, <2>5 DEF Closed
  <1>9. Shape(z, T, v)
    BY <1>5, <1>6, <1>7, <1>8 DEF Shape
  <1> QED
    BY <1>9 DEF v, T

\* The order remains when the key of r fits where p was.
LEMMA RenameOrder ==
    ASSUME NEW s \in Tree, NEW S, NEW under, Shape(s, S, under), Ordered(s, S, under),
           NEW p \in S, NEW r \in Node \ S, NEW z, Renamed(s, z, S, p, r),
           \A x \in S, e \in Side : x \in under[s.child[e][p]] => Before(e, s.key[x], z.key[r]),
           \A n \in S, e \in Side : p \in under[s.child[e][n]] => Before(e, z.key[r], s.key[n])
    PROVE  Ordered(z, (S \ {p}) \cup {r}, Moved(under, p, r))
  <1> DEFINE v == Moved(under, p, r)
             T == (S \ {p}) \cup {r}
  <1>0. r \in Address /\ r # nil /\ r \notin S
    BY KeyAssumption DEF Address
  <1>1. /\ nil \notin S /\ S \subseteq Address /\ nil \in Address
        /\ under \in [Address -> SUBSET Node] /\ under[nil] = {}
        /\ \A x \in S : x \in under[x] /\ under[x] \subseteq S
    BY Inside DEF Shape, Rooted
  <1>2. \A x \in S \cup {nil} : v[Named(x, p, r)] = NamedIn(under[x], p, r)
    BY <1>0, <1>1 DEF Moved, Named, NamedIn
  <1> HIDE DEF v
  <1>3. /\ \A e \in Side : z.child[e][r] = s.child[e][p]
        /\ \A x \in S \ {p} : z.key[x] = s.key[x]
        /\ \A x \in S \ {p}, e \in Side : z.child[e][x] = Named(s.child[e][x], p, r)
    BY DEF Renamed
  <1>4. ASSUME NEW n \in T, NEW x \in T, NEW e \in Side, x \in v[z.child[e][n]]
        PROVE  Before(e, z.key[x], z.key[n])
    <2>1. CASE n = r
      <3>1. s.child[e][p] \in S \cup {nil} /\ p \notin under[s.child[e][p]]
        BY DEF Shape, Parted
      <3>2. v[s.child[e][p]] = under[s.child[e][p]]
        <4>1. s.child[e][p] # p
          BY <1>1, <3>1
        <4> QED
          BY <1>2, <3>1, <4>1 DEF Named, NamedIn
      <3>3. x \in under[s.child[e][p]] /\ x \in S /\ x # p
        BY <1>1, <1>3, <1>4, <2>1, <3>1, <3>2
      <3> QED
        BY <1>3, <2>1, <3>3
    <2>2. CASE n \in S \ {p}
      <3>1. s.child[e][n] \in S \cup {nil}
        BY <2>2 DEF Shape, Parted
      <3>2. x \in NamedIn(under[s.child[e][n]], p, r)
        BY <1>2, <1>3, <1>4, <2>2, <3>1
      <3>3. CASE x = r
        <4>1. p \in under[s.child[e][n]]
          BY <1>0, <1>1, <3>1, <3>2, <3>3 DEF NamedIn
        <4> QED
          BY <1>3, <2>2, <3>3, <4>1
      <3>4. CASE x # r
        <4>1. x \in under[s.child[e][n]]
          BY <3>2, <3>4 DEF NamedIn
        <4> QED
          BY <1>3, <2>2, <3>4, <4>1 DEF Ordered
      <3> QED
        BY <3>3, <3>4
    <2> QED
      BY <2>1, <2>2
  <1> QED
    BY <1>4 DEF Ordered, v, T

-----------------------------------------------------------------------------
(* The successor takes the place of the erased node.                       *)
\* The nodes at hand: rp is the right child of the node that is erased, and
\* the successor is on the left edge of its subtree.
LEMMA Heir ==
    ASSUME NEW s \in Tree, NEW S, NEW under, Shape(s, S, under), NEW p \in S,
           NEW l, l = s.child["left"][p], NEW rp, rp = s.child["right"][p],
           NEW r \in under[rp], s.child["left"][r] = nil, l # nil,
           NEW c, c = s.child["right"][r]
    PROVE  /\ r \in S /\ r # p /\ rp \in S /\ rp # p /\ l \in S /\ l # p /\ l # rp /\ l # r
           /\ c \in S \cup {nil} /\ c # r /\ c # p /\ c # l /\ c # rp
           /\ s.parent[rp] = p /\ s.parent[l] = p /\ (c # nil => s.parent[c] = r)
           /\ s.parent[r] = p <=> r = rp
           /\ s.parent[r] \in S /\ s.parent[r] # r
           /\ s.parent[p] \in (S \cup {nil}) \ {p, r, l, rp}
           /\ s.parent[p] # s.parent[r]
           /\ r # s.root
  <1>0. "left" \in Side /\ "right" \in Side /\ Other("left") = "right" /\ Other("right") = "left"
    BY DEF Side, Other
  <1>1. /\ nil \notin S /\ S \subseteq Address /\ under[nil] = {}
        /\ \A n \in S : n \in under[n] /\ under[n] \subseteq S
    BY Inside DEF Shape, Rooted
  <1>2. /\ l \in S \cup {nil} /\ rp \in S \cup {nil}
        /\ l # p /\ rp # p
        /\ (l # nil => s.parent[l] = p) /\ (rp # nil => s.parent[rp] = p)
        /\ p \notin under[l] /\ p \notin under[rp] /\ under[l] \cap under[rp] = {}
        /\ under[p] = {p} \cup under[l] \cup under[rp]
    <2>1. /\ l \in S \cup {nil} /\ l # p /\ (l # nil => s.parent[l] = p) /\ p \notin under[l]
          /\ under[p] = {p} \cup under[l] \cup under[rp] /\ under[l] \cap under[rp] = {}
      BY <1>0, Below
    <2>2. /\ rp \in S \cup {nil} /\ rp # p /\ (rp # nil => s.parent[rp] = p) /\ p \notin under[rp]
      BY <1>0, Below
    <2> QED
      BY <2>1, <2>2
  <1>3. rp \in S /\ r \in S /\ r # p /\ l \in S /\ l # rp /\ l # r
    BY <1>1, <1>2
  <1>4. /\ c \in S \cup {nil} /\ c # r /\ (c # nil => s.parent[c] = r)
        /\ under[c] \subseteq under[r] /\ r \notin under[c]
    BY <1>0, <1>3, Below, Inside
  <1>5. under[r] \subseteq under[rp]
    BY <1>3, Within
  <1>6. c # p /\ c # l
    BY <1>1, <1>2, <1>3, <1>4, <1>5
  <1>7. c # rp
    <2>1. c = rp => r \in under[c]
      OBVIOUS
    <2> QED
      BY <1>4, <2>1
  <1>8. s.parent[r] \in under[rp] \/ r = rp
    BY <1>3, Within
  <1>9. /\ s.parent[r] = p <=> r = rp
        /\ s.parent[r] \in S
    BY <1>1, <1>2, <1>3, <1>8
  <1>10. s.parent[r] # r /\ r # s.root
    <2>1. r # s.root
      BY <1>1, <1>9 DEF Shape, Rooted
    <2> QED
      BY <1>3, <2>1, SideIs
  <1>11. s.parent[p] \in (S \cup {nil}) /\ s.parent[p] \notin under[p]
    <2>1. CASE p = s.root
      BY <1>1, <2>1 DEF Shape, Rooted
    <2>2. CASE p # s.root
      <3>1. /\ SideOf(s, p) \in Side /\ s.parent[p] \in S
            /\ s.child[SideOf(s, p)][s.parent[p]] = p
        BY <2>2, SideIs
      <3>2. s.parent[p] \notin under[p]
        BY <3>1, Inside
      <3> QED
        BY <3>1, <3>2
    <2> QED
      BY <2>1, <2>2
  <1>12. s.parent[p] \notin {p, r, l, rp} /\ s.parent[p] # s.parent[r]
    BY <1>1, <1>2, <1>3, <1>8, <1>11
  <1>13. s.parent[rp] = p /\ s.parent[l] = p
    BY <1>1, <1>2, <1>3
  <1>14. s.parent[p] \in (S \cup {nil}) \ {p, r, l, rp} /\ s.parent[p] # s.parent[r]
    BY <1>11, <1>12
  <1>15. /\ r \in S /\ r # p /\ rp \in S /\ rp # p /\ l \in S /\ l # p /\ l # rp /\ l # r
         /\ c \in S \cup {nil} /\ c # r /\ c # p /\ c # l /\ c # rp
    BY <1>2, <1>3, <1>4, <1>6, <1>7
  <1> QED
    BY <1>4, <1>9, <1>10, <1>13, <1>14, <1>15

\* What TakeOut has changed.
TakenOut(s, z, S, r, c, rp, direct) ==
    /\ z \in Tree /\ z.root = s.root /\ z.key = s.key /\ z.color = s.color
    /\ \A x \in Address :
          (x \in S \/ x = c) =>
             z.parent[x] = IF x = c THEN (IF direct THEN r ELSE s.parent[r])
                           ELSE IF ~direct /\ x = rp THEN r ELSE s.parent[x]
    /\ \A e \in Side, x \in Address :
          z.child[e][x] = IF ~direct /\ x = r /\ e = "right" THEN rp
                          ELSE IF ~direct /\ x \in S /\ s.child[e][x] = r THEN c
                          ELSE s.child[e][x]

LEMMA TakeOutIs ==
    ASSUME t \in Tree, NEW S, NEW under, Shape(t, S, under), node \in S,
           NEW l, l = t.child["left"][node], NEW rp, rp = t.child["right"][node],
           NEW r \in under[rp], t.child["left"][r] = nil, l # nil,
           NEW c, c = t.child["right"][r]
    PROVE  TakenOut(t, TakeOut(r, c), S, r, c, rp, r = rp)
  <1>1. /\ r \in S /\ r # node /\ rp \in S /\ c \in S \cup {nil} /\ c # r /\ c # rp
        /\ t.parent[r] = node <=> r = rp
        /\ t.parent[r] \in S
    BY Heir
  <1>2. /\ "left" \in Side /\ "right" \in Side /\ S \subseteq Address /\ nil \in Address
        /\ nil \notin S
    BY Inside DEF Side
  <1>3. CASE r = rp
    <2>1. TakeOut(r, c) = SetParent(t, c, r)
      BY <1>1, <1>3 DEF TakeOut
    <2>2. ParentSet(t, TakeOut(r, c), c, r)
      BY <1>1, <1>2, <2>1, SetParentIs
    <2> QED
      BY <1>3, <2>2 DEF ParentSet, TakenOut
  <1>4. CASE r # rp
    <2> DEFINE gone  == Transplant(t, r, c)
               right == SetChild(gone, "right", r, t.child["right"][node])
               below == SetParent(right, t.child["right"][node], r)
               left  == SetParent(below, below.child["left"][r], r)
               z     == SetParent(left, c, left.parent[r])
    <2>1. TakeOut(r, c) = z
      BY <1>1, <1>4 DEF TakeOut
    <2>2. Excised(t, gone, S, r, c)
      BY <1>1, <1>2, TransplantIs
    <2> HIDE DEF gone
    <2>3. ChildSet(gone, right, "right", r, rp)
      BY <1>1, <1>2, <2>2, SetChildIs DEF Excised
    <2> HIDE DEF right
    <2>4. ParentSet(right, below, rp, r)
      BY <1>1, <1>2, <2>3, SetParentIs DEF ChildSet
    <2> HIDE DEF below
    <2>5. below.child["left"][r] = nil
      <3>1. gone.child["left"][r] = nil
        BY <1>1, <1>2, <2>2 DEF Excised
      <3>2. right.child["left"][r] = nil
        BY <1>1, <1>2, <2>3, <3>1 DEF ChildSet
      <3> QED
        BY <2>4, <3>2 DEF ParentSet
    <2>6. ParentSet(below, left, nil, r)
      BY <1>1, <1>2, <2>4, <2>5, SetParentIs DEF ParentSet
    <2> HIDE DEF left
    <2>7. left.parent[r] = t.parent[r]
      <3>1. right.parent[r] = t.parent[r]
        BY <1>1, <1>2, <2>2, <2>3 DEF ChildSet, Excised
      <3> QED
        BY <1>1, <1>2, <1>4, <2>4, <2>6, <3>1 DEF ParentSet
    <2>8. ParentSet(left, z, c, t.parent[r])
      <3>1. left \in Tree /\ c \in Address /\ t.parent[r] \in Address
        BY <1>1, <1>2, <2>6 DEF ParentSet
      <3>2. z = SetParent(left, c, t.parent[r])
        BY <2>7
      <3> HIDE DEF z
      <3> QED
        BY <3>1, <3>2, SetParentIs
    <2> HIDE DEF z
    <2>9. z \in Tree /\ z.root = t.root /\ z.key = t.key /\ z.color = t.color
      <3>1. r # t.root
        BY Heir
      <3>2. gone \in Tree /\ gone.root = t.root /\ gone.key = t.key /\ gone.color = t.color
        BY <2>2, <3>1 DEF Excised
      <3> QED
        BY <2>3, <2>4, <2>6, <2>8, <3>2 DEF ChildSet, ParentSet
    <2>10. \A x \in Address : x \in S \/ x = c =>
             z.parent[x] = IF x = c THEN t.parent[r] ELSE IF x = rp THEN r ELSE t.parent[x]
      <3> SUFFICES ASSUME NEW x \in Address, x \in S \/ x = c
                   PROVE z.parent[x] = IF x = c THEN t.parent[r]
                                       ELSE IF x = rp THEN r ELSE t.parent[x]
        OBVIOUS
      <3>1. z.parent[x] = IF x = c THEN t.parent[r] ELSE left.parent[x]
        BY <2>8 DEF ParentSet
      <3>2. x # c => left.parent[x] = below.parent[x]
        BY <1>2, <2>6 DEF ParentSet
      <3>3. below.parent[x] = IF x = rp THEN r ELSE right.parent[x]
        BY <2>4 DEF ParentSet
      <3>4. x # c => right.parent[x] = t.parent[x]
        BY <2>2, <2>3 DEF ChildSet, Excised
      <3> QED
        BY <3>1, <3>2, <3>3, <3>4
    <2>11. \A e \in Side, x \in Address :
             z.child[e][x] = IF x = r /\ e = "right" THEN rp
                             ELSE IF x \in S /\ t.child[e][x] = r THEN c ELSE t.child[e][x]
      <3>1. z.child = right.child
        BY <2>4, <2>6, <2>8 DEF ParentSet
      <3>2. \A e \in Side, x \in Address :
               right.child[e][x] = IF e = "right" /\ x = r THEN rp ELSE gone.child[e][x]
        BY <2>3 DEF ChildSet
      <3>3. \A e \in Side, x \in Address :
               gone.child[e][x] = IF x \in S /\ t.child[e][x] = r THEN c ELSE t.child[e][x]
        BY <2>2 DEF Excised
      <3> QED
        BY <3>1, <3>2, <3>3
    <2> QED
      BY <1>4, <2>1, <2>9, <2>10, <2>11 DEF TakenOut
  <1> QED
    BY <1>3, <1>4

\* The tree after EraseSuccessor, before the erased node is freed.
Succeeded(r, c) ==
    LET s == Transplant(TakeOut(r, c), node, r)
        l == s.child["left"][node]
    IN  Paint(SetParent(SetChild(s, "left", r, l), l, r), r, s.color[node])

Inherited(s, z, S, p, r, c, rp) ==
    /\ z \in Tree /\ z.key = s.key
    /\ \A x \in Address : z.color[x] = IF x = r THEN s.color[p] ELSE s.color[x]
    /\ z.root = IF p = s.root THEN r ELSE s.root
    /\ \A x \in Address :
          (x \in S \/ x = c) =>
             z.parent[x] = IF x = r THEN s.parent[p]
                           ELSE IF x = c THEN (IF r = rp THEN r ELSE s.parent[r])
                           ELSE IF s.parent[x] = p THEN r
                           ELSE s.parent[x]
    /\ \A e \in Side, x \in Address :
          z.child[e][x] = IF x = r THEN (IF e = "left" THEN s.child["left"][p]
                                         ELSE IF r = rp THEN c ELSE rp)
                          ELSE IF x \in S /\ s.child[e][x] = p THEN r
                          ELSE IF r # rp /\ x \in S /\ s.child[e][x] = r THEN c
                          ELSE s.child[e][x]

LEMMA SucceededIs ==
    ASSUME t \in Tree, NEW S, NEW under, Shape(t, S, under), node \in S,
           NEW l, l = t.child["left"][node], NEW rp, rp = t.child["right"][node],
           NEW r \in under[rp], t.child["left"][r] = nil, l # nil,
           NEW c, c = t.child["right"][r]
    PROVE  Inherited(t, Succeeded(r, c), S, node, r, c, rp)
  <1> DEFINE A  == TakeOut(r, c)
             s  == Transplant(A, node, r)
             s1 == SetChild(s, "left", r, l)
             s2 == SetParent(s1, l, r)
             z  == Paint(s2, r, t.color[node])
             q  == t.parent[node]
  <1>1. /\ r \in S /\ r # node /\ rp \in S /\ rp # node /\ l \in S /\ l # node /\ l # rp /\ l # r
        /\ c \in S \cup {nil} /\ c # r /\ c # node /\ c # l /\ c # rp
        /\ t.parent[rp] = node /\ t.parent[l] = node /\ (c # nil => t.parent[c] = r)
        /\ t.parent[r] = node <=> r = rp
        /\ t.parent[r] \in S /\ t.parent[r] # r
        /\ t.parent[node] \in (S \cup {nil}) \ {node, r, l, rp}
        /\ t.parent[node] # t.parent[r]
        /\ r # t.root
    BY Heir
  <1>2. /\ "left" \in Side /\ "right" \in Side /\ S \subseteq Address /\ nil \in Address
        /\ nil \notin S
    BY Inside DEF Side
  <1>3. TakenOut(t, A, S, r, c, rp, r = rp)
    BY TakeOutIs
  <1> HIDE DEF A
  <1>4. /\ A \in Tree /\ A.root = t.root /\ A.key = t.key /\ A.color = t.color
        /\ A.parent[node] = q
    BY <1>1, <1>2, <1>3 DEF TakenOut
  <1>5. /\ s \in Tree /\ s.key = t.key /\ s.color = t.color
        /\ s.root = IF node = t.root THEN r ELSE t.root
        /\ \A x \in Address : s.parent[x] = IF x = r THEN q ELSE A.parent[x]
        /\ \A e \in Side, x \in Address :
              s.child[e][x] = IF x \in S /\ t.child[e][x] = node THEN r ELSE A.child[e][x]
    <2> DEFINE B == IF A.parent[node] = nil
                      THEN [A EXCEPT !.root = r]
                      ELSE SetChild(A, SideOf(A, node), A.parent[node], r)
    <2>1. s = SetParent(B, r, q)
      BY <1>4 DEF Transplant
    <2>2. node = t.root <=> q = nil
      BY RootIs
    <2>3. /\ B \in Tree /\ B.key = t.key /\ B.color = t.color /\ B.parent = A.parent
          /\ B.root = IF node = t.root THEN r ELSE t.root
          /\ \A e \in Side, x \in Address :
                B.child[e][x] = IF x \in S /\ t.child[e][x] = node THEN r ELSE A.child[e][x]
      <3>1. CASE q = nil
        <4>1. \A e \in Side, x \in S : t.child[e][x] # node
          BY <1>2, <2>2, <3>1 DEF Shape, Parted
        <4>2. RootSet(A, B, r)
          BY <1>1, <1>2, <1>4, <3>1, SetRootIs
        <4> HIDE DEF B
        <4> QED
          BY <1>4, <2>2, <3>1, <4>1, <4>2 DEF RootSet
      <3>2. CASE q # nil
        <4>1. /\ SideOf(t, node) \in Side /\ q \in S
              /\ t.child[SideOf(t, node)][q] = node
              /\ t.child[Other(SideOf(t, node))][q] # node
          BY <2>2, <3>2, SideIs
        <4>2. t.child["left"][q] # r
          BY <1>1, <1>2, <4>1 DEF Shape, Parted
        <4>3. A.child["left"][q] = t.child["left"][q]
          BY <1>1, <1>2, <1>3, <4>1, <4>2 DEF TakenOut
        <4>4. SideOf(A, node) = SideOf(t, node)
          BY <1>4, <4>3 DEF SideOf
        <4>5. ChildSet(A, B, SideOf(t, node), q, r)
          BY <1>1, <1>2, <1>4, <3>2, <4>1, <4>4, SetChildIs
        <4>6. \A e \in Side, x \in Address : (x \in S /\ t.child[e][x] = node)
                                            <=> (e = SideOf(t, node) /\ x = q)
          <5>1. \A e \in Side : e = SideOf(t, node) \/ e = Other(SideOf(t, node))
            BY <4>1, Sides
          <5>2. \A e \in Side, x \in S : t.child[e][x] = node => x = q
            BY <1>2 DEF Shape, Parted
          <5> QED
            BY <4>1, <5>1, <5>2
        <4> HIDE DEF B
        <4> QED
          BY <1>4, <2>2, <3>2, <4>5, <4>6 DEF ChildSet
      <3> QED
        BY <3>1, <3>2
    <2> HIDE DEF B, s
    <2>4. q \in Address /\ r \in Address
      BY <1>1, <1>2
    <2>5. ParentSet(B, s, r, q)
      BY <2>1, <2>3, <2>4, SetParentIs
    <2> QED
      BY <2>3, <2>5 DEF ParentSet
  <1> HIDE DEF s
  <1>6. s.child["left"][node] = l
    BY <1>1, <1>2, <1>3, <1>5 DEF TakenOut
  <1>7. Succeeded(r, c) = z
    BY <1>5, <1>6 DEF Succeeded, s, A
  <1>8. ChildSet(s, s1, "left", r, l)
    BY <1>1, <1>2, <1>5, SetChildIs
  <1> HIDE DEF s1
  <1>9. ParentSet(s1, s2, l, r)
    BY <1>1, <1>2, <1>8, SetParentIs DEF ChildSet
  <1> HIDE DEF s2
  <1>10. Painted(s2, z, r, t.color[node])
    <2>1. t.color[node] \in {RED, BLACK} /\ s2 \in Tree /\ r \in Address
      BY <1>1, <1>2, <1>9 DEF Tree, ParentSet
    <2> QED
      BY <2>1, PaintIs
  <1> HIDE DEF z
  <1>11. /\ z \in Tree /\ z.key = t.key /\ z.root = IF node = t.root THEN r ELSE t.root
         /\ \A x \in Address : z.color[x] = IF x = r THEN t.color[node] ELSE t.color[x]
    BY <1>5, <1>8, <1>9, <1>10 DEF Painted, ParentSet, ChildSet
  <1>12. ASSUME NEW x \in Address, x \in S \/ x = c
         PROVE  z.parent[x] = IF x = r THEN q
                              ELSE IF x = c THEN (IF r = rp THEN r ELSE t.parent[r])
                              ELSE IF t.parent[x] = node THEN r
                              ELSE t.parent[x]
    <2>1. z.parent[x] = IF x = l THEN r ELSE s.parent[x]
      BY <1>8, <1>9, <1>10 DEF Painted, ParentSet, ChildSet
    <2>2. A.parent[x] = IF x = c THEN (IF r = rp THEN r ELSE t.parent[r])
                        ELSE IF r # rp /\ x = rp THEN r ELSE t.parent[x]
      BY <1>3, <1>12 DEF TakenOut
    <2>3. x \in S /\ t.parent[x] = node => x = l \/ x = rp
      <3>1. Other("left") = "right"
        BY DEF Other
      <3> QED
        BY <1>2, <3>1, ChildOf
    <2> QED
      BY <1>1, <1>5, <1>12, <2>1, <2>2, <2>3
  <1>13. ASSUME NEW e \in Side, NEW x \in Address
         PROVE  z.child[e][x] = IF x = r THEN (IF e = "left" THEN l
                                         ELSE IF r = rp THEN c ELSE rp)
                          ELSE IF x \in S /\ t.child[e][x] = node THEN r
                          ELSE IF r # rp /\ x \in S /\ t.child[e][x] = r THEN c
                          ELSE t.child[e][x]
    <2>1. z.child[e][x] = IF e = "left" /\ x = r THEN l ELSE s.child[e][x]
      BY <1>8, <1>9, <1>10 DEF Painted, ParentSet, ChildSet
    <2>2. A.child[e][x] = IF r # rp /\ x = r /\ e = "right" THEN rp
                          ELSE IF r # rp /\ x \in S /\ t.child[e][x] = r THEN c
                          ELSE t.child[e][x]
      BY <1>3 DEF TakenOut
    <2>3. t.child[e][r] # node
      BY <1>1, <1>2 DEF Shape, Parted
    <2>4. e = "left" \/ e = "right"
      BY DEF Side
    <2> QED
      BY <1>1, <1>5, <2>1, <2>2, <2>3, <2>4
  <1>14. Inherited(t, z, S, node, r, c, rp)
    BY <1>11, <1>12, <1>13 DEF Inherited
  <1> QED
    BY <1>7, <1>14

\* It is the tree without the successor, in which the successor has taken the
\* place of the erased node.
LEMMA InheritedIs ==
    ASSUME NEW s \in Tree, NEW S, NEW under, Shape(s, S, under), NEW p \in S,
           NEW l, l = s.child["left"][p], NEW rp, rp = s.child["right"][p],
           NEW r \in under[rp], s.child["left"][r] = nil, l # nil,
           NEW c, c = s.child["right"][r], NEW z, Inherited(s, z, S, p, r, c, rp),
           NEW y, Excised(s, y, S, r, c)
    PROVE  Renamed(y, z, S \ {r}, p, r)
  <1>1. /\ r \in S /\ r # p /\ rp \in S /\ rp # p /\ l \in S /\ l # p /\ l # rp /\ l # r
        /\ c \in S \cup {nil} /\ c # r /\ c # p /\ c # l /\ c # rp
        /\ s.parent[rp] = p /\ s.parent[l] = p /\ (c # nil => s.parent[c] = r)
        /\ s.parent[r] = p <=> r = rp
        /\ s.parent[r] \in S /\ s.parent[r] # r
        /\ s.parent[p] \in (S \cup {nil}) \ {p, r, l, rp}
        /\ s.parent[p] # s.parent[r]
        /\ r # s.root
    BY Heir
  <1>2. /\ S \subseteq Address /\ nil \in Address /\ nil \notin S
    BY Inside
  <1>3. /\ \A x \in Address : y.parent[x] = IF x = c THEN s.parent[r] ELSE s.parent[x]
        /\ \A e \in Side, x \in Address :
              y.child[e][x] = IF x \in S /\ s.child[e][x] = r THEN c ELSE s.child[e][x]
        /\ y.root = s.root /\ y.key = s.key
    BY <1>1 DEF Excised
  <1>4. z \in Tree /\ z.root = Named(y.root, p, r)
    BY <1>3 DEF Inherited, Named
  <1>5. ASSUME NEW e \in Side
        PROVE  z.child[e][nil] = nil /\ z.child[e][r] = y.child[e][p]
    <2>1. s.child[e][nil] = nil
      BY DEF Shape, Rooted
    <2>2. z.child[e][nil] = nil
      BY <1>1, <1>2, <2>1 DEF Inherited
    <2>3. z.child[e][r] = IF e = "left" THEN l ELSE IF r = rp THEN c ELSE rp
      BY <1>1, <1>2 DEF Inherited
    <2>4. e = "left" \/ e = "right"
      BY DEF Side
    <2>5. y.child[e][p] = IF s.child[e][p] = r THEN c ELSE s.child[e][p]
      BY <1>2, <1>3
    <2> QED
      BY <1>1, <2>2, <2>3, <2>4, <2>5
  <1>6. z.parent[r] = y.parent[p]
    BY <1>1, <1>2, <1>3 DEF Inherited
  <1>7. ASSUME NEW x \in (S \ {r}) \ {p}
        PROVE  z.parent[x] = Named(y.parent[x], p, r)
    <2>1. z.parent[x] = IF x = c THEN (IF r = rp THEN r ELSE s.parent[r])
                        ELSE IF s.parent[x] = p THEN r ELSE s.parent[x]
      BY <1>2 DEF Inherited
    <2> QED
      BY <1>1, <1>2, <1>3, <2>1 DEF Named
  <1>8. ASSUME NEW x \in (S \ {r}) \ {p}, NEW e \in Side
        PROVE  z.child[e][x] = Named(y.child[e][x], p, r)
    <2>1. z.child[e][x] = IF s.child[e][x] = p THEN r
                          ELSE IF r # rp /\ s.child[e][x] = r THEN c
                          ELSE s.child[e][x]
      BY <1>2 DEF Inherited
    <2>2. s.child[e][x] = r => s.parent[r] = x
      BY <1>1, <1>2 DEF Shape, Parted
    <2> QED
      BY <1>1, <1>2, <1>3, <2>1, <2>2 DEF Named
  <1>9. \A x \in S : z.key[x] = y.key[x]
    BY <1>3 DEF Inherited
  <1> QED
    BY <1>4, <1>5, <1>6, <1>7, <1>8, <1>9 DEF Renamed

-----------------------------------------------------------------------------
(* The operations on a good tree.                                          *)
\* A search tree of the nodes S.
Good(s, S, under) == s \in Tree /\ Shape(s, S, under) /\ Ordered(s, S, under)

\* The nodes outside S still have the children they had.
Kept(s, z, S) == \A x \in Address \ S, d \in Side : z.child[d][x] = s.child[d][x]

LEMMA PaintGood ==
    ASSUME NEW s, NEW S, NEW under, Good(s, S, under), NEW n \in Address, NEW c \in {RED, BLACK}
    PROVE  Good(Paint(s, n, c), S, under) /\ Kept(s, Paint(s, n, c), S)
           /\ Paint(s, n, c).parent = s.parent /\ Paint(s, n, c).child = s.child
           /\ Paint(s, n, c).root = s.root
  <1> DEFINE z == Paint(s, n, c)
  <1>1. Painted(s, z, n, c)
    BY PaintIs DEF Good
  <1> HIDE DEF z
  <1>2. Relinked(s, z) /\ z.key = s.key /\ z \in Tree
    BY <1>1 DEF Painted, Relinked
  <1>3. Shape(z, S, under) /\ Ordered(z, S, under)
    BY <1>2, SameShape DEF Good
  <1>4. /\ Good(z, S, under) /\ Kept(s, z, S) /\ z.parent = s.parent /\ z.child = s.child
        /\ z.root = s.root
    BY <1>2, <1>3 DEF Good, Kept, Relinked
  <1> QED
    BY <1>4 DEF z

LEMMA BlankGood ==
    ASSUME NEW s, NEW S, NEW under, Good(s, S, under), NEW p \in Node \ S
    PROVE  /\ Good(Blank(s, p), S, under)
           /\ \A d \in Side : Blank(s, p).child[d][p] = nil
           /\ \A x \in Address \ {p}, d \in Side : Blank(s, p).child[d][x] = s.child[d][x]
  <1> DEFINE z == Blank(s, p)
  <1>1. p \in Address /\ p # nil /\ nil \in Address /\ BLACK \in {RED, BLACK} /\ s \in Tree
    BY KeyAssumption DEF Address, Good
  <1>2. /\ z.root = s.root
        /\ z.key = [s.key EXCEPT ![p] = 0]
        /\ z.parent = [s.parent EXCEPT ![p] = nil]
        /\ z.child = [d \in Side |-> [s.child[d] EXCEPT ![p] = nil]]
    BY <1>1 DEF Blank, Tree
  <1>3. z \in Tree
    <2>1. s.key \in [Address -> Int] /\ s.parent \in [Address -> Address] /\ s.root \in Address
      BY <1>1 DEF Tree
    <2>2. s.color \in [Address -> {RED, BLACK}] /\ s.child \in [Side -> [Address -> Address]]
      BY <1>1 DEF Tree
    <2>3. s = [root |-> s.root, key |-> s.key, color |-> s.color, parent |-> s.parent,
               child |-> s.child]
      BY <1>1 DEF Tree
    <2> DEFINE ke == [s.key EXCEPT ![p] = 0]
               co == [s.color EXCEPT ![p] = BLACK]
               pa == [s.parent EXCEPT ![p] = nil]
               ch == [d \in Side |-> [s.child[d] EXCEPT ![p] = nil]]
    <2>4. z = [s EXCEPT !.key = ke, !.color = co, !.parent = pa, !.child = ch]
      BY DEF Blank
    <2>5. /\ ke \in [Address -> Int] /\ pa \in [Address -> Address]
          /\ co \in [Address -> {RED, BLACK}]
      BY <1>1, <2>1, <2>2
    <2>6. ch \in [Side -> [Address -> Address]]
      BY <1>1, <2>2
    <2> HIDE DEF ke, co, pa, ch, z
    <2> QED
      BY <2>1, <2>3, <2>4, <2>5, <2>6 DEF Tree
  <1>11. \A x \in Address, d \in Side : z.child[d][x] = IF x = p THEN nil ELSE s.child[d][x]
    BY <1>1, <1>2 DEF Tree
  <1>14. \A x \in Address \ {p} : z.key[x] = s.key[x] /\ z.parent[x] = s.parent[x]
    BY <1>1, <1>2 DEF Tree
  <1> HIDE DEF z
  <1>4. Alike(s, z, S)
    <2>1. S \subseteq Address
      BY Inside DEF Good
    <2> QED
      BY <1>1, <1>2, <1>11, <1>14, <2>1 DEF Alike
  <1>5. Good(z, S, under)
    BY <1>3, <1>4, Reframe DEF Good
  <1> QED
    BY <1>1, <1>5, <1>11 DEF z

LEMMA RotateGood ==
    ASSUME NEW s, NEW S, NEW under, Good(s, S, under), NEW n \in S \cup {nil}, NEW d \in Side
    PROVE  /\ \E v : Good(Rotate(s, n, d), S, v)
           /\ Kept(s, Rotate(s, n, d), S)
  <1> DEFINE z == Rotate(s, n, d)
  <1>1. Other(d) \in Side /\ s.child[Other(d)][nil] = nil
    BY Sides DEF Good, Shape, Rooted
  <1>2. CASE s.child[Other(d)][n] = nil
    <2>1. z = s
      BY <1>2 DEF Rotate
    <2> QED
      BY <2>1 DEF Kept
  <1>3. CASE s.child[Other(d)][n] # nil
    <2>1. n \in S
      BY <1>1, <1>3
    <2>2. Rotated(s, z, S, n, d)
      BY <1>3, <2>1, RotateIs DEF Good
    <2> HIDE DEF z
    <2>3. Shape(z, S, Turned(s, under, n, d)) /\ Ordered(z, S, Turned(s, under, n, d))
      BY <1>3, <2>1, <2>2, RotateShape, RotateOrder DEF Good
    <2>4. z \in Tree
      BY <2>2 DEF Rotated
    <2>5. s.child[Other(d)][n] \in S
      BY <1>1, <1>3, <2>1 DEF Good, Shape, Parted
    <2>6. Kept(s, z, S)
      BY <2>1, <2>2, <2>5 DEF Rotated, Kept
    <2>7. \E v : Good(z, S, v)
      BY <2>3, <2>4 DEF Good
    <2> QED
      BY <2>6, <2>7 DEF z
  <1> QED
    BY <1>2, <1>3

LEMMA TransplantGood ==
    ASSUME NEW s, NEW S, NEW under, Good(s, S, under), NEW r \in S,
           NEW d \in Side, s.child[d][r] = nil, NEW c, c = s.child[Other(d)][r]
    PROVE  /\ Good(Transplant(s, r, c), S \ {r}, Without(under, r))
           /\ Kept(s, Transplant(s, r, c), S)
           /\ c \in (S \ {r}) \cup {nil}
           /\ c # Transplant(s, r, c).root =>
                 Transplant(s, r, c).parent[c] \in S \ {r}
           /\ \A e \in Side : Transplant(s, r, c).child[e][r] \in (S \ {r}) \cup {nil}
  <1> DEFINE z == Transplant(s, r, c)
  <1>0. Other(d) \in Side /\ Other(Other(d)) = d /\ Side = {d, Other(d)}
    BY Sides
  <1>1. c \in (S \cup {nil}) \ {r} /\ c \in Address
    BY <1>0, Below, Inside DEF Good
  <1>2. Excised(s, z, S, r, c)
    BY <1>1, TransplantIs DEF Good
  <1> HIDE DEF z
  <1>3. Shape(z, S \ {r}, Without(under, r)) /\ Ordered(z, S \ {r}, Without(under, r))
    BY <1>2, ExciseShape, ExciseOrder DEF Good
  <1>4. Good(z, S \ {r}, Without(under, r))
    BY <1>2, <1>3 DEF Good, Excised
  <1>5. Kept(s, z, S)
    BY <1>2 DEF Excised, Kept
  <1>6. c # z.root => z.parent[c] \in S \ {r}
    <2> SUFFICES ASSUME c # z.root PROVE z.parent[c] \in S \ {r}
      OBVIOUS
    <2>1. r # s.root /\ z.parent[c] = s.parent[r]
      BY <1>1, <1>2 DEF Excised
    <2> QED
      BY <2>1, SideIs DEF Good
  <1>7. \A e \in Side : z.child[e][r] \in (S \ {r}) \cup {nil}
    <2>1. S \subseteq Address
      BY Inside DEF Good
    <2>2. \A e \in Side : s.child[e][r] \in {nil, c} /\ s.child[e][r] # r
      BY <1>0, Inside DEF Good
    <2> QED
      BY <1>1, <1>2, <2>1, <2>2 DEF Excised
  <1> QED
    BY <1>1, <1>4, <1>5, <1>6, <1>7 DEF z

\* r is on the left edge of the subtree of rp.
OnEdge(s, under, rp, r) ==
    /\ r \in under[rp]
    /\ \A x, y \in under[rp] : y \in under[r] /\ x \notin under[r] => s.key[y] <= s.key[x]

\* What EraseSuccessor leaves is a search tree without the erased node.
LEMMA SucceedGood ==
    ASSUME NEW S, NEW under, Good(t, S, under), node \in S,
           t.child["left"][node] # nil,
           NEW r, OnEdge(t, under, t.child["right"][node], r), t.child["left"][r] = nil,
           NEW c, c = t.child["right"][r]
    PROVE  /\ \E v : Good(Succeeded(r, c), S \ {node}, v)
           /\ Kept(t, Succeeded(r, c), S)
           /\ c \in (S \ {node}) \cup {nil}
           /\ Succeeded(r, c).parent[c] \in S \ {node}
           /\ \A e \in Side : Succeeded(r, c).child[e][node] \in (S \ {node}) \cup {nil}
  <1> DEFINE z == Succeeded(r, c)
             y == Transplant(t, r, c)
             u == Without(under, r)
             l == t.child["left"][node]
             rp == t.child["right"][node]
  <1>20. /\ r \in under[rp] /\ t.child["left"][r] = nil /\ l # nil
         /\ \A x, y1 \in under[rp] : y1 \in under[r] /\ x \notin under[r] => t.key[y1] <= t.key[x]
    BY DEF OnEdge
  <1>0. /\ "left" \in Side /\ "right" \in Side /\ Other("left") = "right" /\ Side = {"left", "right"}
        /\ Shape(t, S, under) /\ Ordered(t, S, under) /\ t \in Tree
    BY DEF Side, Other, Good
  <1>1. /\ r \in S /\ r # node /\ rp \in S /\ rp # node /\ l \in S /\ l # node /\ l # rp /\ l # r
        /\ c \in S \cup {nil} /\ c # r /\ c # node /\ c # l /\ c # rp
        /\ t.parent[rp] = node /\ t.parent[l] = node /\ (c # nil => t.parent[c] = r)
        /\ t.parent[r] = node <=> r = rp
        /\ t.parent[r] \in S /\ t.parent[r] # r
        /\ t.parent[node] \in (S \cup {nil}) \ {node, r, l, rp}
        /\ t.parent[node] # t.parent[r]
        /\ r # t.root
    BY <1>0, <1>20, Heir
  <1>2. /\ S \subseteq Address /\ nil \in Address /\ nil \notin S /\ S \subseteq Node
        /\ under \in [Address -> SUBSET Node]
        /\ \A x \in S : x \in under[x] /\ under[x] \subseteq S
    BY <1>0, Inside
  <1>3. Inherited(t, z, S, node, r, c, rp)
    BY <1>0, <1>20, SucceededIs
  <1>4. Excised(t, y, S, r, c)
    BY <1>0, <1>1, <1>2, TransplantIs
  <1>5. Good(y, S \ {r}, u)
    <2> HIDE DEF y, u
    <2>1. c = t.child[Other("left")][r] /\ t.child["left"][r] = nil
      BY <1>0, <1>20
    <2>2. /\ Good(Transplant(t, r, c), S \ {r}, Without(under, r))
          /\ Kept(t, Transplant(t, r, c), S)
          /\ c \in (S \ {r}) \cup {nil}
          /\ c # Transplant(t, r, c).root => Transplant(t, r, c).parent[c] \in S \ {r}
          /\ \A e \in Side : Transplant(t, r, c).child[e][r] \in (S \ {r}) \cup {nil}
      <3>1. r \in S /\ "left" \in Side
        BY <1>0, <1>1
      <3> HIDE DEF z, l, rp
      <3> QED
        BY <2>1, <3>1, TransplantGood
    <2> QED
      BY <2>2 DEF y, u
  <1> HIDE DEF y, z
  <1>6. Renamed(y, z, S \ {r}, node, r)
    BY <1>0, <1>3, <1>4, <1>20, InheritedIs
  <1>7. /\ z.key = t.key /\ y.key = t.key
        /\ \A e \in Side, x \in Address :
              y.child[e][x] = IF x \in S /\ t.child[e][x] = r THEN c ELSE t.child[e][x]
    BY <1>3, <1>4 DEF Inherited, Excised
  <1>8. \A n \in S \ {r}, e \in Side : u[y.child[e][n]] \subseteq under[t.child[e][n]]
    <2>1. under[c] \subseteq under[r]
      BY <1>0, <1>1, Inside
    <2>2. \A n \in S, e \in Side : t.child[e][n] \in Address
      BY <1>0, Inside
    <2> QED
      BY <1>1, <1>2, <1>7, <2>1, <2>2 DEF Without
  <1>9. ASSUME NEW x \in S \ {r}, NEW e \in Side, x \in u[y.child[e][node]]
        PROVE  Before(e, y.key[x], z.key[r])
    <2>1. x \in under[t.child[e][node]]
      BY <1>1, <1>8, <1>9
    <2>2. t.key[x] \in Int /\ t.key[r] \in Int /\ t.key[node] \in Int
      BY <1>0, <1>1, <1>2 DEF Tree
    <2>3. CASE e = "left"
      <3>1. Before("left", t.key[x], t.key[node]) /\ Before("right", t.key[r], t.key[node])
        BY <1>0, <1>1, <1>20, <2>1, <2>3 DEF Ordered
      <3>2. t.key[x] <= t.key[node] /\ t.key[node] <= t.key[r]
        BY <3>1 DEF Before
      <3> QED
        BY <1>7, <2>2, <2>3, <3>2 DEF Before
    <2>4. CASE e = "right"
      <3>1. x \in under[rp]
        BY <2>1, <2>4
      <3>2. t.key[r] <= t.key[x]
        <4>1. CASE x \in under[r]
          <5>1. under[r] = {r} \cup under[t.child["left"][r]] \cup under[c]
            <6>1. Other("right") = "left"
              BY DEF Other
            <6> QED
              BY <1>0, <1>1, <6>1, Below
          <5>2. under[nil] = {}
            BY <1>0 DEF Shape, Rooted
          <5>3. x \in under[t.child["right"][r]]
            BY <4>1, <5>1, <5>2
          <5>4. Before("right", t.key[x], t.key[r])
            BY <1>0, <1>1, <5>3 DEF Ordered
          <5> QED
            BY <5>4 DEF Before
        <4>2. CASE x \notin under[r]
          BY <1>1, <1>2, <1>20, <3>1, <4>2
        <4> QED
          BY <4>1, <4>2
      <3> QED
        BY <1>7, <2>4, <3>2 DEF Before
    <2> QED
      BY <1>0, <2>3, <2>4
  <1>10. ASSUME NEW n \in S \ {r}, NEW e \in Side, node \in u[y.child[e][n]]
         PROVE  Before(e, z.key[r], y.key[n])
    <2>1. node \in under[t.child[e][n]] /\ t.child[e][n] \in S \cup {nil}
      BY <1>0, <1>8, <1>10 DEF Shape, Parted
    <2>2. t.child[e][n] \in S
      BY <1>0, <2>1 DEF Shape, Rooted
    <2>3. under[node] \subseteq under[t.child[e][n]]
      BY <1>0, <2>1, <2>2, Within
    <2>4. under[rp] \subseteq under[node]
      BY <1>0, Inside
    <2> QED
      BY <1>0, <1>1, <1>7, <1>20, <2>3, <2>4 DEF Ordered
  <1>11. (((S \ {r}) \ {node}) \cup {r}) = S \ {node}
    BY <1>1
  <1>12. Shape(y, S \ {r}, u) /\ Ordered(y, S \ {r}, u) /\ y \in Tree
         /\ node \in S \ {r} /\ r \in Node \ (S \ {r})
    BY <1>1, <1>2, <1>5 DEF Good
  <1> HIDE DEF u
  <1>13. Shape(z, S \ {node}, Moved(u, node, r))
    <2>1. Shape(z, ((S \ {r}) \ {node}) \cup {r}, Moved(u, node, r))
      BY <1>6, <1>12, RenameShape
    <2> QED
      BY <1>11, <2>1
  <1>14. Ordered(z, S \ {node}, Moved(u, node, r))
    <2>1. Ordered(z, ((S \ {r}) \ {node}) \cup {r}, Moved(u, node, r))
      BY <1>6, <1>9, <1>10, <1>12, RenameOrder
    <2> QED
      BY <1>11, <2>1
  <1>15. Good(z, S \ {node}, Moved(u, node, r))
    BY <1>3, <1>13, <1>14 DEF Good, Inherited
  <1>16. Kept(t, z, S)
    BY <1>1, <1>3 DEF Inherited, Kept
  <1>17. z.parent[c] \in S \ {node}
    BY <1>1, <1>2, <1>3 DEF Inherited
  <1>18. ASSUME NEW e \in Side PROVE z.child[e][node] \in (S \ {node}) \cup {nil}
    <2>1. t.child[e][node] \in S \cup {nil} /\ t.child[e][node] # node
      BY <1>0, Inside DEF Shape, Parted
    <2> QED
      BY <1>1, <1>2, <1>3, <2>1 DEF Inherited
  <1> QED
    BY <1>1, <1>15, <1>16, <1>17, <1>18 DEF z

-----------------------------------------------------------------------------
(* The inductive invariant, for rbtree.c.                                  *)
Calls == {"idle", "descend", "insert_fixup", "successor", "erase_fixup",
          "find", "left", "right", "deleted"}

Typed ==
    /\ live \subseteq Node
    /\ pc \in Calls /\ arg \in Int
    /\ node \in Address /\ cur \in Address /\ res \in Address

\* The node to insert is a leaf; its key fits wherever the cursor can go.
Descending(under) ==
    pc = "descend" =>
       /\ node \in live /\ t.key[node] = arg
       /\ t.parent[node] = nil /\ \A d \in Side : t.child[d][node] = nil
       /\ IF res = nil
            THEN cur = t.root
            ELSE /\ res \in Linked
                 /\ cur = t.child[IF arg < t.key[res] THEN "left" ELSE "right"][res]
       /\ \A n \in Linked, d \in Side :
             res \in under[t.child[d][n]] => Before(d, arg, t.key[n])

\* The cursor is on the left edge of the right subtree of the node to erase.
Seeking(under) ==
    pc = "successor" =>
       /\ node \in live /\ t.child["left"][node] # nil
       /\ OnEdge(t, under, t.child["right"][node], cur)

Fixing ==
    /\ pc = "insert_fixup" => cur \in live
    /\ pc = "erase_fixup" =>
          /\ node \in live
          /\ cur \in Linked \cup {nil}
          /\ cur # t.root => t.parent[cur] \in Linked
          /\ \A d \in Side : t.child[d][node] \in Linked \cup {nil}

\* A free node holds nothing.
Vacant == \A x \in Node \ live, d \in Side : t.child[d][x] = nil

\* What is looked for is below the cursor.
Looking(under) ==
    /\ pc = "find" =>
          /\ cur \in live \cup {nil}
          /\ \A x \in live : t.key[x] = arg => x \in under[cur]
    /\ pc \in Side =>
          /\ cur \in live \cup {nil}
          /\ live # {} => cur # nil
          /\ \A x \in live, y \in under[cur] :
                x \notin under[cur] => Before(pc, t.key[y], t.key[x])

Fits(under) ==
    /\ Good(t, Linked, under)
    /\ Descending(under) /\ Seeking(under) /\ Fixing /\ Looking(under)
    /\ pc = "deleted" => live = {}

TreeInv == Typed /\ Vacant /\ \E under : Fits(under)

-----------------------------------------------------------------------------
(* The invariant holds initially, and is kept by every step.               *)
LEMMA TypedIs ==
    ASSUME Typed
    PROVE  /\ live \subseteq Node /\ live \subseteq Address /\ nil \notin live /\ nil \in Address
           /\ pc \in Calls /\ arg \in Int
           /\ node \in Address /\ cur \in Address /\ res \in Address
  BY KeyAssumption DEF Typed, Address

\* A call has returned.
LEMMA Settled ==
    ASSUME Typed', Vacant', pc' = "idle", NEW under, Good(t', live', under)
    PROVE  TreeInv'
  <1>1. Linked' = live'
    BY DEF Linked
  <1>2. Fits(under)'
    BY <1>1 DEF Fits, Descending, Seeking, Fixing, Looking, Side
  <1> QED
    BY <1>2 DEF TreeInv

\* A call is over that has left the tree alone.
LEMMA ReturnKeeps ==
    ASSUME TreeInv, Return, UNCHANGED <<t, live>>,
           pc \in {"find", "left", "right"}
    PROVE  TreeInv'
  <1>1. PICK under : Fits(under)
    BY DEF TreeInv
  <1>2. Linked = live
    BY DEF Linked
  <1>3. Good(t', live', under)
    BY <1>1, <1>2 DEF Fits
  <1>4. Typed' /\ Vacant'
    BY DEF TreeInv, Typed, Vacant, Return, Address, Calls
  <1> QED
    BY <1>3, <1>4, Settled DEF Return

LEMMA InitKeeps ==
    ASSUME Init
    PROVE  TreeInv
  <1> DEFINE under == [x \in Address |-> {}]
  <1>1. t = Empty /\ live = {} /\ pc = "idle" /\ arg = 0 /\ node = nil /\ cur = nil /\ res = nil
    BY DEF Init
  <1>2. /\ nil \in Address /\ Empty.root = nil
        /\ \A x \in Address, d \in Side : Empty.child[d][x] = nil
    BY DEF Empty, Address
  <1>3. Empty \in Tree
    BY <1>2 DEF Empty, Address, Tree
  <1>4. under \in [Address -> SUBSET Node] /\ under[nil] = {}
    BY <1>2
  <1> HIDE DEF under
  <1>5. Shape(Empty, {}, under)
    BY <1>2, <1>4 DEF Shape, Rooted, Parted, Hung, Closed
  <1>6. Ordered(Empty, {}, under)
    BY DEF Ordered
  <1>7. Linked = {}
    BY <1>1 DEF Linked
  <1>8. Typed /\ Vacant
    BY <1>1, <1>2 DEF Typed, Vacant, Calls, Address
  <1>9. Good(t, Linked, under)
    BY <1>1, <1>3, <1>5, <1>6, <1>7 DEF Good
  <1>10. Fits(under)
    BY <1>1, <1>9 DEF Fits, Descending, Seeking, Fixing, Looking, Side
  <1> QED
    BY <1>8, <1>10 DEF TreeInv

LEMMA InsertKeeps ==
    ASSUME TreeInv, NEW n \in Node, Insert(n)
    PROVE  TreeInv'
  <1>1. PICK under : Fits(under)
    BY DEF TreeInv
  <1>2. /\ pc = "idle" /\ n \notin live /\ live' = live \cup {n}
        /\ arg' = KeyOf[n] /\ node' = n /\ res' = nil /\ cur' = t.root /\ pc' = "descend"
        /\ t' = [t EXCEPT !.key[n] = KeyOf[n], !.color[n] = RED, !.parent[n] = nil,
                          !.child = [d \in Side |-> [@[d] EXCEPT ![n] = nil]]]
    BY DEF Insert
  <1>3. Linked = live /\ Linked' = live
    BY <1>2 DEF Linked
  <1>4. /\ live \subseteq Node /\ live \subseteq Address /\ nil \notin live /\ nil \in Address
        /\ n \in Address /\ n # nil /\ KeyOf[n] \in Int
    BY TypedIs, KeyAssumption DEF TreeInv, Address
  <1>5. Good(t, live, under) /\ t \in Tree
    BY <1>1, <1>3 DEF Fits, Good
  <1>6. /\ t'.root = t.root
        /\ t'.key = [t.key EXCEPT ![n] = KeyOf[n]]
        /\ t'.parent = [t.parent EXCEPT ![n] = nil]
        /\ t'.child = [d \in Side |-> [t.child[d] EXCEPT ![n] = nil]]
    BY <1>2, <1>5 DEF Tree
  <1>7. t' \in Tree
    <2>1. t.key \in [Address -> Int] /\ t.parent \in [Address -> Address] /\ t.root \in Address
      BY <1>5 DEF Tree
    <2>2. t.color \in [Address -> {RED, BLACK}] /\ t.child \in [Side -> [Address -> Address]]
      BY <1>5 DEF Tree
    <2>3. t = [root |-> t.root, key |-> t.key, color |-> t.color, parent |-> t.parent,
               child |-> t.child]
      BY <1>5 DEF Tree
    <2> DEFINE ke == [t.key EXCEPT ![n] = KeyOf[n]]
               co == [t.color EXCEPT ![n] = RED]
               pa == [t.parent EXCEPT ![n] = nil]
               ch == [d \in Side |-> [t.child[d] EXCEPT ![n] = nil]]
    <2>4. t' = [t EXCEPT !.key = ke, !.color = co, !.parent = pa, !.child = ch]
      BY <1>2
    <2>5. /\ ke \in [Address -> Int] /\ pa \in [Address -> Address]
          /\ co \in [Address -> {RED, BLACK}]
      BY <1>4, <2>1, <2>2
    <2>6. ch \in [Side -> [Address -> Address]]
      BY <1>4, <2>2
    <2> HIDE DEF ke, co, pa, ch
    <2> QED
      BY <2>1, <2>3, <2>4, <2>5, <2>6 DEF Tree
  <1>8. /\ \A x \in Address \ {n} : t'.key[x] = t.key[x] /\ t'.parent[x] = t.parent[x]
        /\ \A x \in Address, d \in Side : t'.child[d][x] = IF x = n THEN nil ELSE t.child[d][x]
        /\ t'.key[n] = KeyOf[n] /\ t'.parent[n] = nil
    BY <1>4, <1>5, <1>6 DEF Tree
  <1>9. Good(t', live, under)
    <2>1. Alike(t, t', live)
      BY <1>2, <1>4, <1>6, <1>8 DEF Alike
    <2> QED
      BY <1>5, <1>7, <2>1, Reframe DEF Good
  <1>10. Typed'
    <2>1. t.root \in Address
      BY <1>5 DEF Tree
    <2> QED
      BY <1>2, <1>4, <2>1 DEF Typed, Calls
  <1>11. Vacant'
    BY <1>2, <1>4, <1>8 DEF TreeInv, Vacant, Address
  <1>12. Descending(under)'
    <2>1. \A m \in live, d \in Side : nil \notin under[t'.child[d][m]]
      <3>1. \A m \in live, d \in Side : under[t'.child[d][m]] \subseteq under[m] /\ under[m] \subseteq live
        BY <1>9, Inside DEF Good
      <3> QED
        BY <1>4, <3>1
    <2> QED
      BY <1>2, <1>3, <1>4, <1>6, <1>8, <2>1 DEF Descending
  <1>13. Fits(under)'
    BY <1>2, <1>3, <1>9, <1>12 DEF Fits, Seeking, Fixing, Looking, Side
  <1> QED
    BY <1>10, <1>11, <1>13 DEF TreeInv

LEMMA DescendKeeps ==
    ASSUME TreeInv, Descend
    PROVE  TreeInv'
  <1>1. PICK under : Fits(under)
    BY DEF TreeInv
  <1> DEFINE d == IF arg < t.key[cur] THEN "left" ELSE "right"
  <1>2. /\ pc = "descend" /\ pc' = pc /\ cur # nil /\ res' = cur /\ cur' = t.child[d][cur]
        /\ t' = t /\ live' = live /\ arg' = arg /\ node' = node
    BY DEF Descend
  <1>3. Linked' = Linked
    BY <1>2 DEF Linked
  <1>4. /\ t \in Tree /\ Shape(t, Linked, under)
    BY <1>1 DEF Fits, Good
  <1>5. /\ node \in live /\ t.key[node] = arg
        /\ t.parent[node] = nil /\ (\A e \in Side : t.child[e][node] = nil)
        /\ IF res = nil
             THEN cur = t.root
             ELSE /\ res \in Linked
                  /\ cur = t.child[IF arg < t.key[res] THEN "left" ELSE "right"][res]
        /\ \A n \in Linked, e \in Side :
              res \in under[t.child[e][n]] => Before(e, arg, t.key[n])
    BY <1>1, <1>2 DEF Fits, Descending
  <1>6. /\ nil \notin Linked /\ Linked \subseteq Address
        /\ \A n \in Linked : under[n] \subseteq Linked
    BY <1>4, Inside
  <1>7. d \in Side /\ "left" \in Side /\ "right" \in Side
    BY DEF Side
  <1>8. cur \in Linked
    <2>1. CASE res = nil
      BY <1>2, <1>4, <1>5, <2>1 DEF Shape, Rooted
    <2>2. CASE res # nil
      BY <1>2, <1>4, <1>5, <1>7, <2>2 DEF Shape, Parted
    <2> QED
      BY <2>1, <2>2
  <1>9. arg \in Int /\ \A n \in Linked : t.key[n] \in Int
    BY <1>4, <1>6 DEF TreeInv, Typed, Tree
  <1>10. ASSUME NEW n \in Linked, NEW e \in Side, cur \in under[t.child[e][n]]
         PROVE  Before(e, arg, t.key[n])
    <2>1. t.child[e][n] \in Linked
      <3>1. t.child[e][n] \in Linked \cup {nil} /\ under[nil] = {}
        BY <1>4 DEF Shape, Parted, Rooted
      <3> QED
        BY <1>10, <3>1
    <2>2. t.parent[t.child[e][n]] = n
      BY <1>4, <1>6, <2>1 DEF Shape, Parted
    <2>3. CASE res = nil
      <3>1. t.parent[cur] = nil
        BY <1>2, <1>4, <1>5, <2>3 DEF Shape, Rooted
      <3>2. cur # t.child[e][n]
        BY <1>6, <2>2, <3>1
      <3>3. t.parent[cur] \in under[t.child[e][n]]
        BY <1>4, <1>10, <2>1, <3>2, Within
      <3> QED
        BY <1>6, <2>1, <3>1, <3>3
    <2>4. CASE res # nil
      <3> DEFINE f == IF arg < t.key[res] THEN "left" ELSE "right"
      <3>1. res \in Linked /\ cur = t.child[f][res] /\ f \in Side /\ t.parent[cur] = res
        BY <1>2, <1>4, <1>5, <1>7, <2>4 DEF Shape, Parted
      <3>2. CASE cur = t.child[e][n]
        <4>1. n = res
          BY <2>2, <3>1, <3>2
        <4>2. e = f
          <5>1. e = Other(f) => cur \in under[t.child[f][res]] \cap under[t.child[Other(f)][res]]
            BY <1>10, <3>1, <3>2, <4>1
          <5>2. under[t.child[f][res]] \cap under[t.child[Other(f)][res]] = {}
            BY <1>4, <3>1 DEF Shape, Parted
          <5> QED
            BY <3>1, <5>1, <5>2, Sides
        <4> QED
          BY <1>9, <3>1, <4>1, <4>2 DEF Before
      <3>3. CASE cur # t.child[e][n]
        <4>1. t.parent[cur] \in under[t.child[e][n]]
          BY <1>4, <1>10, <2>1, <3>3, Within
        <4> QED
          BY <1>5, <3>1, <4>1
      <3> QED
        BY <3>2, <3>3
    <2> QED
      BY <2>3, <2>4
  <1>11. Descending(under)'
    BY <1>2, <1>3, <1>5, <1>6, <1>8, <1>10 DEF Descending
  <1>12. Fits(under)'
    BY <1>1, <1>2, <1>3, <1>11 DEF Fits, Seeking, Fixing, Looking, Side
  <1>13. Typed' /\ Vacant'
    <2>1. cur' \in Address
      BY <1>2, <1>4, <1>6, <1>7, <1>8 DEF Tree
    <2> QED
      BY <1>2, <2>1 DEF TreeInv, Typed, Vacant
  <1> QED
    BY <1>12, <1>13 DEF TreeInv

\* The node becomes a leaf where its key fits.
LEMMA LinkHooks ==
    ASSUME TreeInv, Link, NEW under, Fits(under)
    PROVE  /\ node \in Node \ (live \ {node}) /\ (live \ {node}) \cup {node} = live
           /\ t \in Tree /\ Shape(t, live \ {node}, under)
           /\ res \in (live \ {node}) \cup {nil} /\ (res = nil => t.root = nil)
           /\ \A x \in Side : t.child[x][node] = nil
           /\ t'.color = t.color
           /\ \E d \in Side : /\ t.child[d][res] = nil /\ Hooked(t, t', node, res, d)
                              /\ res # nil => Before(d, t.key[node], t.key[res])
  <1> DEFINE s == SetParent(t, node, res)
             d == IF arg < t.key[res] THEN "left" ELSE "right"
             S == live \ {node}
  <1>2. /\ pc = "descend" /\ cur = nil
        /\ t' = IF res = nil THEN [s EXCEPT !.root = node] ELSE SetChild(s, d, res, node)
    BY DEF Link
  <1>3. Linked = S
    BY <1>2 DEF Linked
  <1>4. t \in Tree /\ Shape(t, S, under) /\ Ordered(t, S, under)
    BY <1>3 DEF Fits, Good
  <1>5. /\ node \in live /\ t.key[node] = arg
        /\ \A e \in Side : t.child[e][node] = nil
        /\ IF res = nil
             THEN cur = t.root
             ELSE res \in S /\ cur = t.child[d][res]
    BY <1>2, <1>3 DEF Fits, Descending
  <1>6. /\ live \subseteq Address /\ nil \notin live /\ nil \in Address
        /\ node \in Node \ S /\ res \in Address /\ node # nil /\ node \in Address
        /\ arg \in Int /\ S \cup {node} = live /\ d \in Side
    BY <1>5, TypedIs DEF TreeInv, Side
  <1>7. res \in S \cup {nil} /\ t.child[d][res] = nil /\ (res = nil => t.root = nil)
    BY <1>2, <1>4, <1>5, <1>6 DEF Shape, Rooted
  <1> HIDE DEF d, S
  <1>8. ParentSet(t, s, node, res)
    BY <1>4, <1>6, SetParentIs
  <1> HIDE DEF s
  <1>9. Hooked(t, t', node, res, d) /\ t'.color = t.color
    <2>1. CASE res = nil
      <3>1. RootSet(s, t', node)
        BY <1>2, <1>6, <1>8, <2>1, SetRootIs DEF ParentSet
      <3> QED
        BY <1>8, <2>1, <3>1 DEF ParentSet, RootSet, Hooked
    <2>2. CASE res # nil
      <3>1. ChildSet(s, t', d, res, node)
        BY <1>2, <1>6, <1>8, <2>2, SetChildIs DEF ParentSet
      <3> QED
        BY <1>8, <2>2, <3>1 DEF ParentSet, ChildSet, Hooked
    <2> QED
      BY <2>1, <2>2
  <1>10. res # nil => Before(d, t.key[node], t.key[res])
    <2>1. t.key[res] \in Int
      BY <1>4, <1>6 DEF Tree
    <2> QED
      BY <1>5, <1>6, <2>1 DEF Before, d
  <1> QED
    BY <1>4, <1>5, <1>6, <1>7, <1>9, <1>10 DEF S

LEMMA LinkKeeps ==
    ASSUME TreeInv, Link
    PROVE  TreeInv'
  <1>1. PICK under : Fits(under)
    BY DEF TreeInv
  <1> DEFINE S == live \ {node}
  <1>2. /\ pc = "descend" /\ pc' = "insert_fixup" /\ cur = nil /\ cur' = node
        /\ live' = live /\ arg' = arg /\ node' = node /\ res' = res
    BY DEF Link
  <1>3. Linked = S /\ Linked' = live
    BY <1>2 DEF Linked
  <1>4. Ordered(t, S, under)
    BY <1>1, <1>3 DEF Fits, Good
  <1>5. /\ node \in live /\ t.key[node] = arg
        /\ \A n \in S, e \in Side :
              res \in under[t.child[e][n]] => Before(e, arg, t.key[n])
    BY <1>1, <1>2, <1>3 DEF Fits, Descending
  <1>6. /\ node \in Node \ S /\ S \cup {node} = live
        /\ t \in Tree /\ Shape(t, S, under)
        /\ res \in S \cup {nil} /\ (res = nil => t.root = nil)
        /\ \A x \in Side : t.child[x][node] = nil
    BY <1>1, LinkHooks
  <1>7. PICK d \in Side : /\ t.child[d][res] = nil /\ Hooked(t, t', node, res, d)
                          /\ res # nil => Before(d, t.key[node], t.key[res])
    BY <1>1, LinkHooks
  <1>8. live \subseteq Address /\ nil \notin live
    BY TypedIs DEF TreeInv
  <1>9. PICK v : v = With(under, S, node, res)
    OBVIOUS
  <1>10. Shape(t', S \cup {node}, v)
    BY <1>6, <1>7, <1>9, HookShape
  <1>11. Ordered(t', S \cup {node}, v)
    BY <1>4, <1>5, <1>6, <1>7, <1>9, HookOrder
  <1>12. Good(t', live, v)
    BY <1>6, <1>7, <1>10, <1>11 DEF Good, Hooked
  <1>13. Fits(v)'
    BY <1>2, <1>3, <1>5, <1>12 DEF Fits, Descending, Seeking, Fixing, Looking, Side
  <1>14. Typed'
    BY <1>2 DEF TreeInv, Typed, Calls
  <1>15. Vacant'
    <2>1. \A x \in Node \ live, e \in Side : t'.child[e][x] = t.child[e][x]
      <3>1. \A x \in Node \ live : x # res \/ res = nil
        BY <1>6
      <3> QED
        BY <1>7, <1>8, <3>1 DEF Hooked, Address
    <2> QED
      BY <1>2, <2>1 DEF TreeInv, Vacant
  <1> QED
    BY <1>13, <1>14, <1>15 DEF TreeInv

\* The loops of the fix-ups rotate and paint: the nodes remain.
LEMMA StillVacant ==
    ASSUME TreeInv, live' = live, Kept(t, t', Linked)
    PROVE  Vacant'
  <1>1. Linked \subseteq live
    BY DEF Linked
  <1>2. \A x \in Node \ live : x \in Address \ Linked
    BY <1>1 DEF Address
  <1> QED
    BY <1>2 DEF TreeInv, Vacant, Kept

LEMMA InsertFixupKeeps ==
    ASSUME TreeInv, InsertFixup
    PROVE  TreeInv'
  <1>1. PICK under : Fits(under)
    BY DEF TreeInv
  <1> DEFINE parent == t.parent[cur]
             grandparent == t.parent[parent]
             d == SideOf(t, parent)
             uncle == t.child[Other(d)][grandparent]
             inner == cur = t.child[Other(d)][parent]
             straight == IF inner THEN Rotate(t, parent, d) ELSE t
             bottom == IF inner THEN parent ELSE cur
             top == straight.parent[bottom]
  <1>2. /\ pc = "insert_fixup" /\ pc' = pc /\ live' = live /\ arg' = arg /\ node' = node /\ res' = res
        /\ parent # nil /\ grandparent # nil
        /\ \/ /\ t' = Paint(Paint(Paint(t, parent, BLACK), uncle, BLACK), grandparent, RED)
              /\ cur' = grandparent
           \/ /\ t' = Rotate(Paint(Paint(straight, top, BLACK), grandparent, RED),
                             grandparent, Other(d))
              /\ cur' = bottom
    BY DEF InsertFixup, RedRed
  <1>3. Linked = live /\ Linked' = live
    BY <1>2 DEF Linked
  <1>4. Good(t, live, under) /\ t \in Tree /\ Shape(t, live, under)
    BY <1>1, <1>3 DEF Fits, Good
  <1>5. /\ live \subseteq Address /\ nil \notin live /\ nil \in Address
    BY TypedIs DEF TreeInv
  <1>6. cur \in live /\ parent \in live /\ grandparent \in live
    <2>1. cur \in live
      BY <1>1, <1>2 DEF Fits, Fixing
    <2>2. parent \in live
      BY <1>2, <1>4, <2>1 DEF Shape, Rooted, Hung
    <2>3. grandparent \in live
      BY <1>2, <1>4, <2>2 DEF Shape, Rooted, Hung
    <2> QED
      BY <2>1, <2>2, <2>3
  <1>7. d \in Side /\ Other(d) \in Side /\ uncle \in Address
    <2>1. d \in Side
      BY DEF SideOf, Side
    <2> QED
      BY <1>4, <1>5, <1>6, <2>1, Sides DEF Tree
  <1>8. BLACK \in {RED, BLACK} /\ RED \in {RED, BLACK}
    OBVIOUS
  <1>9. \E v : Good(straight, live, v)
    BY <1>4, <1>6, <1>7, RotateGood
  <1>10. Kept(t, straight, live)
    BY <1>4, <1>6, <1>7, RotateGood DEF Kept
  <1>11. bottom \in live
    BY <1>6
  <1> HIDE DEF straight, bottom, d, uncle, grandparent, parent
  <1>12. (\E v : Good(t', live, v)) /\ Kept(t, t', live) /\ cur' \in live
    <2>1. CASE /\ t' = Paint(Paint(Paint(t, parent, BLACK), uncle, BLACK), grandparent, RED)
               /\ cur' = grandparent
      <3> DEFINE s1 == Paint(t, parent, BLACK)
                 s2 == Paint(s1, uncle, BLACK)
      <3>1. Good(s1, live, under) /\ Kept(t, s1, live)
        BY <1>4, <1>5, <1>6, <1>8, PaintGood
      <3> HIDE DEF s1
      <3>2. Good(s2, live, under) /\ Kept(s1, s2, live)
        BY <1>7, <1>8, <3>1, PaintGood
      <3> HIDE DEF s2
      <3>3. Good(Paint(s2, grandparent, RED), live, under) /\ Kept(s2, Paint(s2, grandparent, RED), live)
        BY <1>5, <1>6, <1>8, <3>2, PaintGood
      <3>4. t' = Paint(s2, grandparent, RED)
        BY <2>1 DEF s1, s2
      <3> QED
        BY <1>6, <2>1, <3>1, <3>2, <3>3, <3>4 DEF Kept
    <2>2. CASE /\ t' = Rotate(Paint(Paint(straight, top, BLACK), grandparent, RED),
                              grandparent, Other(d))
               /\ cur' = bottom
      <3> DEFINE s1 == Paint(straight, top, BLACK)
                 s2 == Paint(s1, grandparent, RED)
      <3>0. PICK w : Good(straight, live, w)
        BY <1>9
      <3>9. top \in Address
        BY <1>5, <1>11, <3>0 DEF Good, Tree
      <3> HIDE DEF top
      <3>1. Good(s1, live, w) /\ Kept(straight, s1, live)
        BY <1>8, <3>0, <3>9, PaintGood
      <3> HIDE DEF s1
      <3>2. Good(s2, live, w) /\ Kept(s1, s2, live)
        BY <1>5, <1>6, <1>8, <3>1, PaintGood
      <3> HIDE DEF s2
      <3>3. /\ \E v : Good(Rotate(s2, grandparent, Other(d)), live, v)
            /\ Kept(s2, Rotate(s2, grandparent, Other(d)), live)
        BY <1>6, <1>7, <3>2, RotateGood
      <3>4. t' = Rotate(s2, grandparent, Other(d))
        BY <2>2 DEF s1, s2
      <3> QED
        BY <1>10, <1>11, <2>2, <3>1, <3>2, <3>3, <3>4 DEF Kept
    <2> QED
      BY <1>2, <2>1, <2>2
  <1>13. PICK v : Good(t', live, v)
    BY <1>12
  <1>14. Fits(v)'
    BY <1>2, <1>3, <1>12, <1>13 DEF Fits, Descending, Seeking, Fixing, Looking, Side
  <1>15. Typed' /\ Vacant'
    BY <1>2, <1>3, <1>5, <1>12, StillVacant DEF TreeInv, Typed
  <1> QED
    BY <1>14, <1>15 DEF TreeInv

LEMMA InsertDoneKeeps ==
    ASSUME TreeInv, InsertDone
    PROVE  TreeInv'
  <1>1. PICK under : Fits(under)
    BY DEF TreeInv
  <1>2. /\ pc = "insert_fixup" /\ t' = Paint(t, t.root, BLACK) /\ live' = live
        /\ pc' = "idle" /\ arg' = 0 /\ node' = nil /\ cur' = nil /\ res' = nil
    BY DEF InsertDone, Return
  <1>3. Linked = live
    BY <1>2 DEF Linked
  <1>4. Good(t, live, under) /\ t.root \in Address /\ BLACK \in {RED, BLACK}
    BY <1>1, <1>3 DEF Fits, Good, Tree
  <1>5. Good(t', live, under) /\ Kept(t, t', live)
    BY <1>2, <1>4, PaintGood
  <1>6. Typed' /\ Vacant'
    BY <1>2, <1>3, <1>5, StillVacant DEF TreeInv, Typed, Calls, Address
  <1> QED
    BY <1>2, <1>5, <1>6, Settled

\* p is out of tree s, which is what is left of t without p.
LEMMA RemovedKeeps ==
    ASSUME TreeInv, NEW p \in live, NEW s, NEW v, Good(s, live \ {p}, v), Kept(t, s, live),
           NEW c \in (live \ {p}) \cup {nil}, c # s.root => s.parent[c] \in live \ {p},
           \A e \in Side : s.child[e][p] \in (live \ {p}) \cup {nil},
           NEW original, Removed(p, s, original, c)
    PROVE  TreeInv'
  <1>0. /\ live \subseteq Address /\ live \subseteq Node /\ nil \notin live /\ nil \in Address
        /\ \A x \in Node \ live : x \in Address
    BY TypedIs DEF TreeInv, Address
  <1>1. CASE original = BLACK
    <2>1. /\ t' = s /\ node' = p /\ cur' = c /\ pc' = "erase_fixup"
          /\ live' = live /\ arg' = arg /\ res' = res
      BY <1>1 DEF Removed
    <2>2. Linked' = live \ {p}
      BY <2>1 DEF Linked
    <2>3. Fits(v)'
      BY <2>1, <2>2 DEF Fits, Descending, Seeking, Fixing, Looking, Side
    <2>4. Typed' /\ Vacant'
      <3>1. Typed'
        BY <1>0, <2>1 DEF TreeInv, Typed, Calls
      <3>2. Vacant'
        BY <1>0, <2>1 DEF TreeInv, Vacant, Kept
      <3> QED
        BY <3>1, <3>2
    <2> QED
      BY <2>3, <2>4 DEF TreeInv
  <1>2. CASE original # BLACK
    <2>1. /\ t' = Blank(s, p) /\ live' = live \ {p}
          /\ pc' = "idle" /\ arg' = 0 /\ node' = nil /\ cur' = nil /\ res' = nil
      BY <1>2 DEF Removed, Free, Return
    <2>2. /\ Good(t', live \ {p}, v)
          /\ \A d \in Side : t'.child[d][p] = nil
          /\ \A x \in Address \ {p}, d \in Side : t'.child[d][x] = s.child[d][x]
      BY <1>0, <2>1, BlankGood
    <2>3. Typed'
      BY <1>0, <2>1 DEF TreeInv, Typed, Calls
    <2>4. Vacant'
      BY <1>0, <2>1, <2>2 DEF TreeInv, Vacant, Kept
    <2> QED
      BY <2>1, <2>2, <2>3, <2>4, Settled
  <1> QED
    BY <1>1, <1>2

LEMMA EraseOneChildKeeps ==
    ASSUME TreeInv, NEW p \in Node, EraseOneChild(p)
    PROVE  TreeInv'
  <1>1. PICK under : Fits(under)
    BY DEF TreeInv
  <1>2. PICK d \in Side :
          /\ t.child[d][p] = nil
          /\ Removed(p, Transplant(t, p, t.child[Other(d)][p]), t.color[p], t.child[Other(d)][p])
    BY DEF EraseOneChild
  <1>3. pc = "idle" /\ p \in live
    BY DEF EraseOneChild
  <1>4. Good(t, live, under)
    BY <1>1, <1>3 DEF Fits, Linked
  <1> DEFINE c == t.child[Other(d)][p]
             z == Transplant(t, p, c)
  <1>5. /\ Good(z, live \ {p}, Without(under, p))
        /\ Kept(t, z, live)
        /\ c \in (live \ {p}) \cup {nil}
        /\ c # z.root => z.parent[c] \in live \ {p}
        /\ \A e \in Side : z.child[e][p] \in (live \ {p}) \cup {nil}
    BY <1>2, <1>3, <1>4, TransplantGood
  <1>6. Removed(p, z, t.color[p], c)
    BY <1>2
  <1> HIDE DEF z, c
  <1> QED
    BY <1>3, <1>5, <1>6, RemovedKeeps

LEMMA EraseTwoChildrenKeeps ==
    ASSUME TreeInv, NEW p \in Node, EraseTwoChildren(p)
    PROVE  TreeInv'
  <1>1. PICK under : Fits(under)
    BY DEF TreeInv
  <1>2. /\ pc = "idle" /\ p \in live /\ t.child["left"][p] # nil /\ t.child["right"][p] # nil
        /\ node' = p /\ cur' = t.child["right"][p] /\ pc' = "successor"
        /\ t' = t /\ live' = live /\ arg' = arg /\ res' = res
    BY DEF EraseTwoChildren
  <1>3. Linked = live /\ Linked' = live
    BY <1>2 DEF Linked
  <1>4. t \in Tree /\ Shape(t, live, under)
    BY <1>1, <1>3 DEF Fits, Good
  <1>5. cur' \in live /\ cur' \in under[cur']
    <2>1. "right" \in Side
      BY DEF Side
    <2>2. cur' \in live
      BY <1>2, <1>4, <2>1 DEF Shape, Parted
    <2> QED
      BY <1>4, <2>2, Inside
  <1>6. Seeking(under)'
    BY <1>2, <1>5 DEF Seeking, OnEdge
  <1>7. Fits(under)'
    BY <1>1, <1>2, <1>3, <1>6 DEF Fits, Descending, Fixing, Looking, Side
  <1>8. Typed' /\ Vacant'
    BY <1>2, <1>5, TypedIs DEF TreeInv, Typed, Vacant, Calls, Address
  <1> QED
    BY <1>7, <1>8 DEF TreeInv

LEMMA SuccessorKeeps ==
    ASSUME TreeInv, Successor
    PROVE  TreeInv'
  <1>1. PICK under : Fits(under)
    BY DEF TreeInv
  <1>2. /\ pc = "successor" /\ t.child["left"][cur] # nil /\ cur' = t.child["left"][cur]
        /\ t' = t /\ live' = live /\ pc' = pc /\ arg' = arg /\ node' = node /\ res' = res
    BY DEF Successor
  <1>3. Linked = live /\ Linked' = live
    BY <1>2 DEF Linked
  <1>4. t \in Tree /\ Shape(t, live, under) /\ Ordered(t, live, under)
    BY <1>1, <1>3 DEF Fits, Good
  <1> DEFINE rp == t.child["right"][node]
  <1>5. /\ node \in live /\ t.child["left"][node] # nil /\ cur \in under[rp]
        /\ \A x, y \in under[rp] : y \in under[cur] /\ x \notin under[cur] => t.key[y] <= t.key[x]
    BY <1>1, <1>2 DEF Fits, Seeking, OnEdge
  <1>6. "left" \in Side /\ "right" \in Side /\ Other("left") = "right"
    BY DEF Side, Other
  <1>7. /\ live \subseteq Address /\ nil \notin live /\ under[nil] = {}
        /\ \A n \in live : n \in under[n] /\ under[n] \subseteq live
    BY <1>4, Inside DEF Shape, Rooted
  <1>8. rp \in live /\ cur \in live /\ under[cur] \subseteq under[rp]
    <2>1. rp \in live
      BY <1>4, <1>5, <1>6, <1>7 DEF Shape, Parted
    <2> QED
      BY <1>4, <1>5, <2>1, Within
  <1>9. cur' \in live /\ cur' \in under[cur'] /\ under[cur'] \subseteq under[cur]
    BY <1>2, <1>4, <1>6, <1>7, <1>8, Inside DEF Shape, Parted
  <1>10. under[cur] = {cur} \cup under[cur'] \cup under[t.child["right"][cur]]
    BY <1>2, <1>4, <1>6, <1>8, Below
  <1>11. ASSUME NEW x \in under[rp], NEW y \in under[rp], y \in under[cur'], x \notin under[cur']
         PROVE  t.key[y] <= t.key[x]
    <2>0. x \in live /\ y \in live /\ \A n \in live : t.key[n] \in Int
      BY <1>4, <1>7, <1>8 DEF Tree
    <2>1. t.key[y] <= t.key[cur]
      <3>1. Before("left", t.key[y], t.key[cur])
        BY <1>2, <1>4, <1>6, <1>8, <1>11, <2>0 DEF Ordered
      <3> QED
        BY <3>1 DEF Before
    <2>2. CASE x \notin under[cur]
      BY <1>5, <1>9, <1>11, <2>2
    <2>3. CASE x = cur
      BY <2>1, <2>3
    <2>4. CASE x \in under[t.child["right"][cur]]
      <3>1. Before("right", t.key[x], t.key[cur])
        BY <1>4, <1>6, <1>8, <2>0, <2>4 DEF Ordered
      <3>2. t.key[cur] <= t.key[x]
        BY <3>1 DEF Before
      <3> QED
        BY <1>8, <2>0, <2>1, <3>2
    <2> QED
      BY <1>10, <1>11, <2>2, <2>3, <2>4
  <1>12. Seeking(under)'
    BY <1>2, <1>5, <1>8, <1>9, <1>11 DEF Seeking, OnEdge
  <1>13. Fits(under)'
    BY <1>1, <1>2, <1>3, <1>12 DEF Fits, Descending, Fixing, Looking, Side
  <1>14. Typed' /\ Vacant'
    BY <1>2, <1>7, <1>9 DEF TreeInv, Typed, Vacant
  <1> QED
    BY <1>13, <1>14 DEF TreeInv

LEMMA EraseSuccessorKeeps ==
    ASSUME TreeInv, EraseSuccessor
    PROVE  TreeInv'
  <1>1. PICK under : Fits(under)
    BY DEF TreeInv
  <1> DEFINE c == t.child["right"][cur]
             rp == t.child["right"][node]
             l == t.child["left"][node]
             z == Succeeded(cur, c)
  <1>2. pc = "successor" /\ t.child["left"][cur] = nil /\ Removed(node, z, t.color[cur], c)
    BY DEF EraseSuccessor, Succeeded
  <1>3. Linked = live
    BY <1>2 DEF Linked
  <1>4. Good(t, live, under)
    BY <1>1, <1>3 DEF Fits
  <1>5. node \in live /\ l # nil /\ OnEdge(t, under, rp, cur)
    BY <1>1, <1>2 DEF Fits, Seeking
  <1>6. /\ \E v : Good(z, live \ {node}, v)
        /\ Kept(t, z, live)
        /\ c \in (live \ {node}) \cup {nil}
        /\ z.parent[c] \in live \ {node}
        /\ \A e \in Side : z.child[e][node] \in (live \ {node}) \cup {nil}
    <2> HIDE DEF z
    <2>1. /\ \E v : Good(Succeeded(cur, c), live \ {node}, v)
          /\ Kept(t, Succeeded(cur, c), live)
          /\ c \in (live \ {node}) \cup {nil}
          /\ Succeeded(cur, c).parent[c] \in live \ {node}
          /\ \A e \in Side : Succeeded(cur, c).child[e][node] \in (live \ {node}) \cup {nil}
      BY <1>2, <1>4, <1>5, SucceedGood
    <2> QED
      BY <2>1 DEF z
  <1>7. PICK v : Good(z, live \ {node}, v)
    BY <1>6
  <1> HIDE DEF z, c
  <1> QED
    BY <1>2, <1>5, <1>6, <1>7, RemovedKeeps

\* A rotation leaves the parent of the sentinel alone.
LEMMA NilParent ==
    ASSUME NEW s, NEW S, NEW under, Good(s, S, under), NEW n \in S \cup {nil}, NEW d \in Side
    PROVE  Rotate(s, n, d).parent[nil] = s.parent[nil]
  <1>1. Other(d) \in Side /\ s.child[Other(d)][nil] = nil
    BY Sides DEF Good, Shape, Rooted
  <1>2. CASE s.child[Other(d)][n] = nil
    BY <1>2 DEF Rotate
  <1>3. CASE s.child[Other(d)][n] # nil
    <2>1. n \in S /\ nil \notin S /\ nil \in Address
      BY <1>1, <1>3, Inside DEF Good
    <2>2. Rotated(s, Rotate(s, n, d), S, n, d)
      BY <1>3, <2>1, RotateIs DEF Good
    <2> QED
      BY <1>3, <2>1, <2>2 DEF Rotated
  <1> QED
    BY <1>2, <1>3

\* The child on side d stays below the node that goes down there.
LEMMA StaysBelow ==
    ASSUME NEW s, NEW S, NEW under, Good(s, S, under), NEW p \in S, NEW d \in Side,
           NEW n \in S, s.child[d][p] = n
    PROVE  Rotate(s, p, d).parent[n] = p
  <1>0. nil \notin S /\ n \in Address
    BY Inside DEF Good
  <1>1. s.parent[n] = p /\ n # p
    BY <1>0, Inside DEF Good, Shape, Parted
  <1>2. CASE s.child[Other(d)][p] = nil
    BY <1>1, <1>2 DEF Rotate
  <1>3. CASE s.child[Other(d)][p] # nil
    <2>1. Rotated(s, Rotate(s, p, d), S, p, d)
      BY <1>3, RotateIs DEF Good
    <2> DEFINE up == s.child[Other(d)][p]
               inner == s.child[d][up]
    <2>2. /\ up \in S /\ inner # n /\ n # up
      <3>1. Shape(s, S, under) /\ s \in Tree
        BY DEF Good
      <3>2. up # nil /\ n = s.child[d][p]
        BY <1>3
      <3> DEFINE outer == s.child[Other(d)][up]
      <3>3. /\ up \in S /\ s.parent[up] = p
            /\ inner # nil => s.parent[inner] = up
            /\ n \in (S \cup {nil}) \ {p, up} /\ up # p
        <4>1. Family(S, under, s, p, up, inner, outer, n)
          BY <3>1, <3>2, Turning
        <4> QED
          BY <4>1 DEF Family
      <3> QED
        BY <1>0, <1>1, <3>3
    <2> QED
      BY <1>0, <1>1, <2>1, <2>2 DEF Rotated
  <1> QED
    BY <1>2, <1>3

LEMMA EraseFixupKeeps ==
    ASSUME TreeInv, EraseFixup
    PROVE  TreeInv'
  <1>1. PICK under : Fits(under)
    BY DEF TreeInv
  <1> DEFINE S == live \ {node}
             p == t.parent[cur]
             d == SideOf(t, cur)
             o == Other(d)
             s == BlackBrother(t, cur, d)
             bro == Brother(s, cur, d)
             u == StraightenBrother(s, cur, d)
  <1>2. /\ pc = "erase_fixup" /\ pc' = pc /\ live' = live /\ arg' = arg /\ node' = node /\ res' = res
        /\ cur # t.root
        /\ \/ t' = Paint(s, bro, RED) /\ cur' = s.parent[cur]
           \/ t' = TurnBrother(u, cur, d) /\ cur' = t'.root
    BY DEF EraseFixup
  <1>3. Linked = S /\ Linked' = S
    BY <1>2 DEF Linked
  <1>4. /\ Good(t, S, under) /\ t \in Tree /\ node \in live
        /\ cur \in S \cup {nil} /\ p \in S
        /\ \A e \in Side : t.child[e][node] \in S \cup {nil}
    BY <1>1, <1>2, <1>3 DEF Fits, Fixing, Good
  <1>5. /\ S \subseteq Address /\ nil \notin S /\ nil \in Address
        /\ BLACK \in {RED, BLACK} /\ RED \in {RED, BLACK} /\ cur \in Address /\ node \in Address \ S
    BY TypedIs DEF TreeInv
  <1>6. d \in Side /\ o \in Side /\ (cur \in S => t.child[d][p] = cur)
    <2>1. d \in Side
      BY DEF SideOf, Side
    <2>2. o \in Side
      BY <2>1, Sides
    <2>3. cur \in S => t.child[d][p] = cur
      BY <1>2, <1>4, SideIs DEF Good
    <2> QED
      BY <2>1, <2>2, <2>3
  <1> HIDE DEF d, S
  <1>7. (\E v : Good(s, S, v)) /\ Kept(t, s, S) /\ s.parent[cur] \in S
    <2> DEFINE b == Brother(t, cur, d)
               s1 == Paint(t, b, BLACK)
               s2 == Paint(s1, p, RED)
               z == Rotate(s2, p, d)
    <2>1. s = t \/ s = z
      BY DEF BlackBrother
    <2>2. CASE s = t
      BY <1>4, <2>2 DEF Kept
    <2>3. CASE s = z
      <3>1. b \in Address
        BY <1>4, <1>5, <1>6 DEF Brother, Tree
      <3> HIDE DEF b
      <3>2. Good(s1, S, under) /\ Kept(t, s1, S) /\ s1.parent = t.parent /\ s1.child = t.child
        BY <1>4, <1>5, <3>1, PaintGood
      <3> HIDE DEF s1
      <3>3. Good(s2, S, under) /\ Kept(s1, s2, S) /\ s2.parent = s1.parent /\ s2.child = s1.child
        BY <1>4, <1>5, <3>2, PaintGood
      <3> HIDE DEF s2
      <3>4. (\E v : Good(z, S, v)) /\ Kept(s2, z, S)
        BY <1>4, <1>6, <3>3, RotateGood
      <3>5. z.parent[cur] = p
        <4>1. CASE cur = nil
          BY <1>4, <1>6, <3>2, <3>3, <4>1, NilParent
        <4>2. CASE cur \in S
          BY <1>4, <1>6, <3>2, <3>3, <4>2, StaysBelow
        <4> QED
          BY <1>4, <4>1, <4>2
      <3> HIDE DEF z, s
      <3> QED
        BY <1>4, <2>3, <3>2, <3>3, <3>4, <3>5 DEF Kept
    <2> QED
      BY <2>1, <2>2, <2>3
  <1>8. PICK w : Good(s, S, w)
    BY <1>7
  <1> HIDE DEF s
  <1>9. bro \in S \cup {nil} /\ bro \in Address /\ s.child[d][bro] \in Address
    <2>1. bro \in S \cup {nil}
      BY <1>6, <1>7, <1>8 DEF Brother, Good, Shape, Parted
    <2> QED
      BY <1>5, <1>6, <1>8, <2>1 DEF Good, Tree
  <1>10. (\E v : Good(u, S, v)) /\ Kept(s, u, S) /\ u.parent[nil] = s.parent[nil]
    <2> DEFINE s1 == Paint(s, s.child[d][bro], BLACK)
               s2 == Paint(s1, bro, RED)
               z == Rotate(s2, bro, Other(d))
    <2>1. u = s \/ u = z
      BY DEF StraightenBrother
    <2>2. CASE u = s
      BY <1>8, <2>2 DEF Kept
    <2>3. CASE u = z
      <3> HIDE DEF bro
      <3>2. Good(s1, S, w) /\ Kept(s, s1, S) /\ s1.parent = s.parent
        BY <1>5, <1>8, <1>9, PaintGood
      <3> HIDE DEF s1
      <3>3. Good(s2, S, w) /\ Kept(s1, s2, S) /\ s2.parent = s1.parent
        BY <1>5, <1>9, <3>2, PaintGood
      <3> HIDE DEF s2
      <3>4. (\E v : Good(z, S, v)) /\ Kept(s2, z, S)
        BY <1>6, <1>9, <3>3, RotateGood
      <3>5. z.parent[nil] = s2.parent[nil]
        BY <1>6, <1>9, <3>3, NilParent
      <3> HIDE DEF z, u
      <3> QED
        BY <2>3, <3>2, <3>3, <3>4, <3>5 DEF Kept
    <2> QED
      BY <2>1, <2>2, <2>3
  <1>11. PICK x : Good(u, S, x)
    BY <1>10
  <1> HIDE DEF u
  <1>12. (\E v : Good(TurnBrother(u, cur, d), S, v)) /\ Kept(u, TurnBrother(u, cur, d), S)
    <2> DEFINE b == Brother(u, cur, d)
               q == u.parent[cur]
               u1 == Paint(u, b, u.color[q])
               u2 == Paint(u1, q, BLACK)
               u3 == Paint(u2, u.child[Other(d)][b], BLACK)
    <2>1. q \in S \cup {nil}
      <3>1. CASE cur = nil
        BY <1>7, <1>10, <3>1
      <3>2. CASE cur \in S
        BY <1>11, <3>2 DEF Good, Shape, Rooted, Hung
      <3> QED
        BY <1>4, <3>1, <3>2
    <2>2. /\ q \in Address /\ b \in Address /\ u.color[q] \in {RED, BLACK}
          /\ u.child[Other(d)][b] \in Address
      <3>1. q \in Address /\ u \in Tree
        BY <1>5, <1>11, <2>1 DEF Good
      <3>2. b \in Address
        BY <1>6, <3>1 DEF Brother, Tree
      <3> QED
        BY <1>6, <3>1, <3>2 DEF Tree
    <2>3. TurnBrother(u, cur, d) = Rotate(u3, q, d)
      BY DEF TurnBrother
    <2> HIDE DEF b, q
    <2>4. Good(u1, S, x) /\ Kept(u, u1, S)
      BY <1>11, <2>2, PaintGood
    <2> HIDE DEF u1
    <2>5. Good(u2, S, x) /\ Kept(u1, u2, S)
      BY <1>5, <2>2, <2>4, PaintGood
    <2> HIDE DEF u2
    <2>6. Good(u3, S, x) /\ Kept(u2, u3, S)
      BY <1>5, <2>2, <2>5, PaintGood
    <2> HIDE DEF u3
    <2>7. (\E v : Good(Rotate(u3, q, d), S, v)) /\ Kept(u3, Rotate(u3, q, d), S)
      BY <1>6, <2>1, <2>6, RotateGood
    <2> QED
      BY <2>3, <2>4, <2>5, <2>6, <2>7 DEF Kept
  <1>13. /\ \E v : Good(t', S, v)
         /\ Kept(t, t', S)
         /\ cur' \in S \cup {nil}
         /\ cur' # t'.root => t'.parent[cur'] \in S
    <2>1. CASE t' = Paint(s, bro, RED) /\ cur' = s.parent[cur]
      <3>1. Good(t', S, w) /\ Kept(s, t', S)
        BY <1>5, <1>8, <1>9, <2>1, PaintGood
      <3>2. cur' \in S
        BY <1>7, <2>1
      <3>3. cur' # t'.root => t'.parent[cur'] \in S
        BY <3>1, <3>2 DEF Good, Shape, Hung
      <3> QED
        BY <1>7, <3>1, <3>2, <3>3 DEF Kept
    <2>2. CASE t' = TurnBrother(u, cur, d) /\ cur' = t'.root
      <3>1. PICK v : Good(t', S, v)
        BY <1>12, <2>2
      <3>2. cur' \in S \cup {nil}
        BY <2>2, <3>1 DEF Good, Shape, Rooted
      <3> QED
        BY <1>7, <1>10, <1>12, <2>2, <3>1, <3>2 DEF Kept
    <2> QED
      BY <1>2, <2>1, <2>2
  <1>14. PICK v : Good(t', S, v)
    BY <1>13
  <1>15. Fixing'
    <2>1. \A e \in Side : t'.child[e][node] = t.child[e][node]
      BY <1>5, <1>13 DEF Kept
    <2> QED
      BY <1>2, <1>3, <1>4, <1>13, <2>1 DEF Fixing
  <1>16. Fits(v)'
    BY <1>2, <1>3, <1>14, <1>15 DEF Fits, Descending, Seeking, Looking, Side
  <1>17. Typed' /\ Vacant'
    <2>1. cur' \in Address
      BY <1>5, <1>13
    <2> QED
      BY <1>2, <1>3, <1>13, <2>1, StillVacant DEF TreeInv, Typed
  <1> QED
    BY <1>16, <1>17 DEF TreeInv

LEMMA EraseDoneKeeps ==
    ASSUME TreeInv, EraseDone
    PROVE  TreeInv'
  <1>1. PICK under : Fits(under)
    BY DEF TreeInv
  <1> DEFINE s1 == Paint(t, cur, BLACK)
             s2 == Paint(s1, t.root, BLACK)
  <1>2. /\ pc = "erase_fixup" /\ t' = Blank(s2, node) /\ live' = live \ {node}
        /\ pc' = "idle" /\ arg' = 0 /\ node' = nil /\ cur' = nil /\ res' = nil
    BY DEF EraseDone, Free, Return
  <1>3. Linked = live \ {node}
    BY <1>2 DEF Linked
  <1>4. /\ Good(t, live \ {node}, under) /\ t.root \in Address /\ node \in live
        /\ BLACK \in {RED, BLACK}
    BY <1>1, <1>2, <1>3 DEF Fits, Fixing, Good, Tree
  <1>5. /\ live \subseteq Address /\ live \subseteq Node /\ nil \in Address /\ cur \in Address
        /\ node \in Node \ (live \ {node})
        /\ \A x \in Node \ live : x \in Address
    BY <1>4, TypedIs DEF TreeInv, Address
  <1>6. Good(s1, live \ {node}, under) /\ s1.child = t.child
    BY <1>4, <1>5, PaintGood
  <1> HIDE DEF s1
  <1>7. Good(s2, live \ {node}, under) /\ s2.child = s1.child
    BY <1>4, <1>5, <1>6, PaintGood
  <1> HIDE DEF s2
  <1>8. /\ Good(t', live \ {node}, under)
        /\ \A d \in Side : t'.child[d][node] = nil
        /\ \A x \in Address \ {node}, d \in Side : t'.child[d][x] = s2.child[d][x]
    BY <1>2, <1>5, <1>7, BlankGood
  <1>9. Typed'
    BY <1>2, <1>5 DEF Typed, Calls
  <1>10. Vacant'
    BY <1>2, <1>5, <1>6, <1>7, <1>8 DEF TreeInv, Vacant
  <1> QED
    BY <1>2, <1>8, <1>9, <1>10, Settled

LEMMA FindKeeps ==
    ASSUME TreeInv, NEW k \in Key \cup {0}, Find(k)
    PROVE  TreeInv'
  <1>1. PICK under : Fits(under)
    BY DEF TreeInv
  <1>2. /\ pc = "idle" /\ pc' = "find" /\ arg' = k /\ cur' = t.root
        /\ t' = t /\ live' = live /\ node' = node /\ res' = res
    BY DEF Find
  <1>3. Linked = live /\ Linked' = live
    BY <1>2 DEF Linked
  <1>4. t.root \in live \cup {nil} /\ under[t.root] = live
    BY <1>1, <1>3 DEF Fits, Good, Shape, Rooted
  <1>5. Fits(under)'
    BY <1>1, <1>2, <1>3, <1>4 DEF Fits, Descending, Seeking, Fixing, Looking, Side
  <1>6. k \in Int
    BY KeyAssumption DEF Key
  <1>7. Typed' /\ Vacant'
    BY <1>2, <1>4, <1>6, TypedIs DEF TreeInv, Typed, Vacant, Calls
  <1> QED
    BY <1>5, <1>7 DEF TreeInv

LEMMA FindNextKeeps ==
    ASSUME TreeInv, FindNext
    PROVE  TreeInv'
  <1>1. PICK under : Fits(under)
    BY DEF TreeInv
  <1> DEFINE d == IF arg < t.key[cur] THEN "left" ELSE "right"
  <1>2. /\ pc = "find" /\ cur # nil /\ arg # t.key[cur] /\ cur' = t.child[d][cur]
        /\ t' = t /\ live' = live /\ node' = node /\ res' = res /\ arg' = arg /\ pc' = pc
    BY DEF FindNext
  <1>3. Linked = live /\ Linked' = live
    BY <1>2 DEF Linked
  <1>4. t \in Tree /\ Shape(t, live, under) /\ Ordered(t, live, under)
    BY <1>1, <1>3 DEF Fits, Good
  <1>5. cur \in live /\ \A x \in live : t.key[x] = arg => x \in under[cur]
    BY <1>1, <1>2 DEF Fits, Looking, Side
  <1>6. d \in Side /\ "left" \in Side /\ "right" \in Side /\ Other("left") = "right"
    BY DEF Side, Other
  <1>7. /\ live \subseteq Address /\ arg \in Int /\ \A x \in live : t.key[x] \in Int
    BY <1>4, TypedIs DEF TreeInv, Tree
  <1>8. cur' \in live \cup {nil}
    BY <1>2, <1>4, <1>5, <1>6 DEF Shape, Parted
  <1>9. ASSUME NEW x \in live, t.key[x] = arg
        PROVE  x \in under[cur']
    <2>1. under[cur] = {cur} \cup under[t.child["left"][cur]] \cup under[t.child["right"][cur]]
      BY <1>4, <1>5, <1>6, Below
    <2>2. x \in under[cur] /\ x # cur
      BY <1>2, <1>5, <1>9
    <2>3. x \in under[t.child["left"][cur]] => t.key[x] <= t.key[cur]
      BY <1>4, <1>5, <1>6 DEF Ordered, Before
    <2>4. x \in under[t.child["right"][cur]] => t.key[cur] <= t.key[x]
      <3>1. x \in under[t.child["right"][cur]] => Before("right", t.key[x], t.key[cur])
        BY <1>4, <1>5, <1>6 DEF Ordered
      <3> QED
        BY <3>1 DEF Before
    <2>5. t.key[cur] \in Int /\ arg # t.key[cur]
      BY <1>2, <1>5, <1>7
    <2> QED
      BY <1>2, <1>7, <1>9, <2>1, <2>2, <2>3, <2>4, <2>5
  <1>10. Fits(under)'
    BY <1>1, <1>2, <1>3, <1>8, <1>9 DEF Fits, Descending, Seeking, Fixing, Looking, Side
  <1>11. Typed' /\ Vacant'
    BY <1>2, <1>8, TypedIs DEF TreeInv, Typed, Vacant
  <1> QED
    BY <1>10, <1>11 DEF TreeInv

LEMMA OutmostKeeps ==
    ASSUME TreeInv, NEW d \in Side, Outmost(d)
    PROVE  TreeInv'
  <1>1. PICK under : Fits(under)
    BY DEF TreeInv
  <1>2. /\ pc = "idle" /\ pc' = d /\ cur' = t.root
        /\ t' = t /\ live' = live /\ node' = node /\ res' = res /\ arg' = arg
    BY DEF Outmost
  <1>3. Linked = live /\ Linked' = live
    BY <1>2 DEF Linked, Side
  <1>4. t.root \in live \cup {nil} /\ under[t.root] = live /\ under[nil] = {}
    BY <1>1, <1>3 DEF Fits, Good, Shape, Rooted
  <1>5. Looking(under)'
    BY <1>2, <1>4 DEF Looking, Side
  <1>6. Fits(under)'
    BY <1>1, <1>2, <1>3, <1>5 DEF Fits, Descending, Seeking, Fixing, Side
  <1>7. Typed' /\ Vacant'
    BY <1>2, <1>4, TypedIs DEF TreeInv, Typed, Vacant, Calls, Side
  <1> QED
    BY <1>6, <1>7 DEF TreeInv

LEMMA OutmostNextKeeps ==
    ASSUME TreeInv, OutmostNext
    PROVE  TreeInv'
  <1>1. PICK under : Fits(under)
    BY DEF TreeInv
  <1>2. /\ pc \in Side /\ t.child[pc][cur] # nil /\ cur' = t.child[pc][cur]
        /\ t' = t /\ live' = live /\ node' = node /\ res' = res /\ arg' = arg /\ pc' = pc
    BY DEF OutmostNext
  <1>3. Linked = live /\ Linked' = live
    BY <1>2 DEF Linked, Side
  <1>4. t \in Tree /\ Shape(t, live, under) /\ Ordered(t, live, under)
    BY <1>1, <1>3 DEF Fits, Good
  <1>5. /\ cur \in live
        /\ \A x \in live, y \in under[cur] :
              x \notin under[cur] => Before(pc, t.key[y], t.key[x])
    <2>1. cur # nil
      BY <1>2, <1>4 DEF Shape, Rooted
    <2> QED
      BY <1>1, <1>2, <2>1 DEF Fits, Looking
  <1>6. /\ live \subseteq Address /\ \A x \in live : t.key[x] \in Int
        /\ under[cur] \subseteq live
    BY <1>4, <1>5, Inside DEF Tree
  <1>7. Other(pc) \in Side
    BY <1>2, Sides
  <1>8. /\ cur' \in live
        /\ under[cur] = {cur} \cup under[cur'] \cup under[t.child[Other(pc)][cur]]
    <2>1. cur' \in live
      BY <1>2, <1>4, <1>5 DEF Shape, Parted
    <2> QED
      BY <1>2, <1>4, <1>5, <2>1, Below
  <1>9. ASSUME NEW x \in live, NEW y \in under[cur'], x \notin under[cur']
        PROVE  Before(pc, t.key[y], t.key[x])
    <2>0. y \in under[cur] /\ y \in live /\ t.key[y] \in Int /\ t.key[x] \in Int /\ t.key[cur] \in Int
      BY <1>5, <1>6, <1>8
    <2>1. Before(pc, t.key[y], t.key[cur])
      BY <1>2, <1>4, <1>5, <1>9, <2>0 DEF Ordered
    <2>2. CASE x \notin under[cur]
      BY <1>5, <2>0, <2>2
    <2>3. CASE x = cur
      BY <2>1, <2>3
    <2>4. CASE x \in under[t.child[Other(pc)][cur]]
      <3>1. Before(Other(pc), t.key[x], t.key[cur])
        BY <1>4, <1>5, <1>7, <2>4 DEF Ordered
      <3>2. Before(pc, t.key[cur], t.key[x])
        BY <1>2, <2>0, <3>1, BeforeIs
      <3> QED
        BY <1>2, <2>0, <2>1, <3>2, BeforeIs
    <2> QED
      BY <1>8, <1>9, <2>2, <2>3, <2>4
  <1>10. Looking(under)'
    BY <1>2, <1>8, <1>9, TypedIs DEF TreeInv, Looking, Side
  <1>11. Fits(under)'
    BY <1>1, <1>2, <1>3, <1>10 DEF Fits, Descending, Seeking, Fixing, Side
  <1>12. Typed' /\ Vacant'
    BY <1>2, <1>6, <1>8 DEF TreeInv, Typed, Vacant
  <1> QED
    BY <1>11, <1>12 DEF TreeInv

LEMMA NewKeeps ==
    ASSUME TreeInv, new_rbtree
    PROVE  TreeInv'
  <1>1. PICK under : Fits(under)
    BY DEF TreeInv
  <1>2. /\ pc = "deleted" /\ pc' = "idle"
        /\ t' = t /\ live' = live /\ node' = node /\ res' = res /\ arg' = arg /\ cur' = cur
    BY DEF new_rbtree
  <1>3. Good(t', live', under)
    BY <1>1, <1>2 DEF Fits, Linked
  <1>4. Typed' /\ Vacant'
    BY <1>2 DEF TreeInv, Typed, Vacant, Calls
  <1> QED
    BY <1>2, <1>3, <1>4, Settled

-----------------------------------------------------------------------------
(* Lists of nodes: each node of U once.                                    *)
Lists(w, U) ==
    /\ w \in Seq(Node) /\ U \subseteq Node
    /\ \A i \in 1 .. Len(w) : w[i] \in U
    /\ \A x \in U : \E i \in 1 .. Len(w) : w[i] = x
    /\ \A i, j \in 1 .. Len(w) : w[i] = w[j] => i = j
    /\ Len(w) = Cardinality(U)

\* The values f has along w do not fall.
Rising(f, w) == \A i, j \in 1 .. Len(w) : i < j => f[w[i]] <= f[w[j]]

InKeyOrder(w) == Rising(t.key, w)

LEMMA ListEmpty == Lists(<<>>, {}) /\ \A f : Rising(f, <<>>)
  <1>1. Cardinality({}) = 0
    BY FS_EmptySet
  <1>2. <<>> \in Seq(Node) /\ Len(<<>>) = 0 /\ 1 .. 0 = {}
    OBVIOUS
  <1> QED
    BY <1>1, <1>2 DEF Lists, Rising

LEMMA ListOne ==
    ASSUME NEW m \in Node
    PROVE  Lists(<<m>>, {m}) /\ \A f : Rising(f, <<m>>)
  <1>1. Cardinality({m}) = 1
    BY FS_Singleton
  <1>2. <<m>> \in Seq(Node) /\ Len(<<m>>) = 1 /\ 1 .. 1 = {1} /\ <<m>>[1] = m
    OBVIOUS
  <1>3. Lists(<<m>>, {m})
    BY <1>1, <1>2 DEF Lists
  <1>4. \A f : Rising(f, <<m>>)
    BY <1>2 DEF Rising
  <1> QED
    BY <1>3, <1>4

LEMMA Associative ==
    ASSUME NEW a \in Seq(Node), NEW b \in Seq(Node), NEW c \in Seq(Node)
    PROVE  (a \o b) \o c = a \o (b \o c)
  OBVIOUS

LEMMA ListJoin ==
    ASSUME NEW a, NEW A, NEW b, NEW B, Lists(a, A), Lists(b, B), A \cap B = {}
    PROVE  Lists(a \o b, A \cup B)
  <1> DEFINE w == a \o b
  <1>1. /\ a \in Seq(Node) /\ b \in Seq(Node) /\ Len(a) \in Nat /\ Len(b) \in Nat
        /\ A \subseteq Node /\ B \subseteq Node
    BY DEF Lists
  <1>2. /\ w \in Seq(Node) /\ Len(w) = Len(a) + Len(b)
        /\ \A i \in 1 .. Len(w) : w[i] = IF i <= Len(a) THEN a[i] ELSE b[i - Len(a)]
    BY <1>1
  <1> HIDE DEF w
  <1>3. \A i \in 1 .. Len(w) : IF i <= Len(a) THEN i \in 1 .. Len(a) /\ w[i] \in A
                               ELSE i - Len(a) \in 1 .. Len(b) /\ w[i] \in B
    BY <1>1, <1>2 DEF Lists
  <1>4. \A x \in A \cup B : \E i \in 1 .. Len(w) : w[i] = x
    <2>1. ASSUME NEW x \in A PROVE \E i \in 1 .. Len(w) : w[i] = x
      <3>1. PICK i \in 1 .. Len(a) : a[i] = x
        BY DEF Lists
      <3>2. i \in 1 .. Len(w) /\ w[i] = x
        BY <1>1, <1>2, <3>1
      <3> QED
        BY <3>2
    <2>2. ASSUME NEW x \in B PROVE \E i \in 1 .. Len(w) : w[i] = x
      <3>1. PICK i \in 1 .. Len(b) : b[i] = x
        BY DEF Lists
      <3>2. /\ Len(a) + i \in 1 .. Len(w) /\ ~(Len(a) + i <= Len(a))
            /\ Len(a) + i - Len(a) = i
        BY <1>1, <1>2
      <3>3. w[Len(a) + i] = b[i]
        BY <1>2, <3>2
      <3> QED
        BY <3>1, <3>2, <3>3
    <2> QED
      BY <2>1, <2>2
  <1>5. ASSUME NEW i \in 1 .. Len(w), NEW j \in 1 .. Len(w), w[i] = w[j]
        PROVE  i = j
    <2>1. CASE i <= Len(a) /\ j <= Len(a)
      <3>1. i \in 1 .. Len(a) /\ j \in 1 .. Len(a) /\ a[i] = a[j]
        BY <1>2, <1>3, <1>5, <2>1
      <3> QED
        BY <3>1 DEF Lists
    <2>2. CASE ~(i <= Len(a)) /\ ~(j <= Len(a))
      <3>1. i - Len(a) \in 1 .. Len(b) /\ j - Len(a) \in 1 .. Len(b) /\ b[i - Len(a)] = b[j - Len(a)]
        BY <1>2, <1>3, <1>5, <2>2
      <3>2. i - Len(a) = j - Len(a)
        BY <3>1 DEF Lists
      <3> QED
        BY <1>1, <1>2, <3>2
    <2>3. (i <= Len(a)) <=> (j <= Len(a))
      BY <1>3, <1>5
    <2> QED
      BY <2>1, <2>2, <2>3
  <1>6. Len(w) = Cardinality(A \cup B)
    <2>1. IsFiniteSet(A) /\ IsFiniteSet(B)
      BY <1>1, KeyAssumption, FS_Subset
    <2>2. Cardinality(A \cup B) = Cardinality(A) + Cardinality(B) - Cardinality(A \cap B)
      BY <2>1, FS_Union
    <2>3. Cardinality(A \cap B) = 0
      BY FS_EmptySet
    <2>4. Cardinality(A) = Len(a) /\ Cardinality(B) = Len(b)
      BY DEF Lists
    <2> QED
      BY <1>1, <1>2, <2>2, <2>3, <2>4
  <1>7. Lists(w, A \cup B)
    BY <1>1, <1>2, <1>3, <1>4, <1>5, <1>6 DEF Lists
  <1> QED
    BY <1>7 DEF w

LEMMA RisingJoin ==
    ASSUME NEW a, NEW A, NEW b, NEW B, NEW f, Lists(a, A), Lists(b, B),
           Rising(f, a), Rising(f, b), \A x \in A, y \in B : f[x] <= f[y]
    PROVE  Rising(f, a \o b)
  <1> DEFINE w == a \o b
  <1>1. a \in Seq(Node) /\ b \in Seq(Node) /\ Len(a) \in Nat /\ Len(b) \in Nat
    BY DEF Lists
  <1>2. /\ w \in Seq(Node) /\ Len(w) = Len(a) + Len(b)
        /\ \A i \in 1 .. Len(w) : w[i] = IF i <= Len(a) THEN a[i] ELSE b[i - Len(a)]
    BY <1>1
  <1> HIDE DEF w
  <1>3. ASSUME NEW i \in 1 .. Len(w), NEW j \in 1 .. Len(w), i < j
        PROVE  f[w[i]] <= f[w[j]]
    <2>1. CASE j <= Len(a)
      <3>1. i \in 1 .. Len(a) /\ j \in 1 .. Len(a) /\ w[i] = a[i] /\ w[j] = a[j]
        BY <1>1, <1>2, <1>3, <2>1
      <3> QED
        BY <1>3, <3>1 DEF Rising
    <2>2. CASE ~(i <= Len(a))
      <3>1. /\ i - Len(a) \in 1 .. Len(b) /\ j - Len(a) \in 1 .. Len(b) /\ i - Len(a) < j - Len(a)
            /\ w[i] = b[i - Len(a)] /\ w[j] = b[j - Len(a)]
        <4>1. /\ i \in Int /\ j \in Int /\ 1 <= i /\ j <= Len(a) + Len(b)
              /\ Len(a) < i /\ i < j /\ Len(a) < j
          BY <1>1, <1>2, <1>3, <2>2
        <4>2. /\ i - Len(a) \in 1 .. Len(b) /\ j - Len(a) \in 1 .. Len(b)
              /\ i - Len(a) < j - Len(a)
          BY <1>1, <4>1
        <4>3. ~(i <= Len(a)) /\ ~(j <= Len(a))
          BY <1>1, <4>1
        <4> QED
          BY <1>2, <4>2, <4>3
      <3> QED
        BY <3>1 DEF Rising
    <2>3. CASE i <= Len(a) /\ ~(j <= Len(a))
      <3>1. i \in 1 .. Len(a) /\ w[i] = a[i] /\ j - Len(a) \in 1 .. Len(b) /\ w[j] = b[j - Len(a)]
        BY <1>1, <1>2, <2>3
      <3> QED
        BY <3>1 DEF Lists
    <2> QED
      BY <1>1, <1>2, <1>3, <2>1, <2>2, <2>3
  <1>4. Rising(f, w)
    BY <1>3 DEF Rising
  <1> QED
    BY <1>4 DEF w

-----------------------------------------------------------------------------
(* The recursive functions.  A node is of a higher rank than its children, *)
(* the nodes that are not in the tree included, so that the equations of   *)
(* the functions have solutions.                                           *)
Ranked(rank, N) ==
    /\ rank \in [Address -> 0 .. N] /\ N \in Nat
    /\ \A x \in Node, d \in Side : rank[t.child[d][x]] < rank[x]

LEMMA CardBelow ==
    ASSUME NEW U \in SUBSET Node, NEW V \in SUBSET U, NEW x \in U \ V
    PROVE  /\ Cardinality(U) \in Nat /\ Cardinality(V) \in Nat
           /\ Cardinality(V) < Cardinality(U) /\ Cardinality(U) <= Cardinality(Node)
           /\ Cardinality(Node) \in Nat
  <1>1. IsFiniteSet(Node) /\ IsFiniteSet(U) /\ IsFiniteSet(V)
    BY KeyAssumption, FS_Subset
  <1>2. Cardinality(U) \in Nat /\ Cardinality(V) \in Nat /\ Cardinality(Node) \in Nat
    BY <1>1, FS_CardinalityType
  <1>3. Cardinality(U) <= Cardinality(Node)
    BY <1>1, FS_Subset
  <1>4. Cardinality(V) <= Cardinality(U) /\ (Cardinality(U) = Cardinality(V) => U = V)
    BY <1>1, FS_Subset
  <1>5. Cardinality(V) # Cardinality(U)
    BY <1>4
  <1> QED
    BY <1>2, <1>3, <1>4, <1>5

LEMMA Ranks ==
    ASSUME NEW under, t \in Tree, Shape(t, Linked, under), Linked \subseteq Node,
           \A x \in Node \ Linked, d \in Side : t.child[d][x] \in Linked \cup {nil}
    PROVE  \E rank : Ranked(rank, Cardinality(Node) + 1)
  <1> DEFINE N == Cardinality(Node)
             rank == [x \in Address |-> IF x = nil THEN 0
                                        ELSE IF x \in Linked THEN Cardinality(under[x]) ELSE N + 1]
  <1>1. /\ nil \notin Linked /\ nil \in Address /\ nil \notin Node /\ Linked \subseteq Address
        /\ \A x \in Node : x \in Address /\ x # nil
        /\ \A x \in Address : x \in Node \/ x = nil
    BY KeyAssumption DEF Address
  <1>2. \A x \in Linked : x \in under[x] /\ under[x] \subseteq Linked
    BY Inside
  <1>3. N \in Nat
    BY KeyAssumption, FS_CardinalityType
  <1>4. \A x \in Linked : /\ Cardinality(under[x]) \in Nat
                          /\ 0 < Cardinality(under[x]) /\ Cardinality(under[x]) <= N
    <2> SUFFICES ASSUME NEW x \in Linked
                 PROVE  /\ Cardinality(under[x]) \in Nat
                        /\ 0 < Cardinality(under[x]) /\ Cardinality(under[x]) <= N
      OBVIOUS
    <2>1. under[x] \in SUBSET Node /\ {} \in SUBSET under[x] /\ x \in under[x] \ {}
      BY <1>2
    <2>2. Cardinality({}) = 0
      BY FS_EmptySet
    <2> QED
      BY <2>1, <2>2, CardBelow
  <1>5. /\ \A x \in Linked : rank[x] = Cardinality(under[x])
        /\ rank[nil] = 0 /\ \A x \in Node \ Linked : rank[x] = N + 1
    BY <1>1
  <1>6. rank \in [Address -> 0 .. (N + 1)]
    BY <1>1, <1>3, <1>4
  <1> HIDE DEF rank, N
  <1>7. ASSUME NEW x \in Node, NEW d \in Side
        PROVE  rank[t.child[d][x]] < rank[x]
    <2>1. CASE x \in Linked
      <3> DEFINE c == t.child[d][x]
      <3>1. c \in Linked \cup {nil} /\ under[c] \subseteq under[x] /\ x \notin under[c]
        BY <2>1, Inside DEF Shape, Parted
      <3>2. CASE c = nil
        BY <1>4, <1>5, <2>1, <3>2
      <3>3. CASE c \in Linked
        <4>1. Cardinality(under[c]) < Cardinality(under[x])
          <5>1. under[x] \in SUBSET Node /\ under[c] \in SUBSET under[x] /\ x \in under[x] \ under[c]
            BY <1>2, <2>1, <3>1
          <5> QED
            BY <5>1, CardBelow
        <4> QED
          BY <1>5, <2>1, <3>3, <4>1
      <3> QED
        BY <3>1, <3>2, <3>3
    <2>2. CASE x \notin Linked
      <3>1. t.child[d][x] \in Linked \cup {nil} /\ rank[x] = N + 1
        BY <1>5, <2>2
      <3>2. rank[t.child[d][x]] <= N /\ rank[t.child[d][x]] \in Int
        BY <1>3, <1>4, <1>5, <3>1
      <3> QED
        BY <1>3, <3>1, <3>2
    <2> QED
      BY <2>1, <2>2
  <1>8. Ranked(rank, N + 1)
    BY <1>3, <1>6, <1>7 DEF Ranked
  <1> QED
    BY <1>8 DEF N

DfsOf(f, m) ==
    IF m = nil THEN <<>> ELSE f[t.child["left"][m]] \o f[t.child["right"][m]] \o <<m>>

LEMMA DfsDefined ==
    ASSUME t \in Tree, NEW rank, NEW N, Ranked(rank, N)
    PROVE  delete_dfs = [m \in Address |-> DfsOf(delete_dfs, m)]
  <1> DEFINE Solves(f, k) == /\ f \in [Address -> Seq(Node)]
                             /\ \A m \in Address : rank[m] < k => f[m] = DfsOf(f, m)
  <1>1. /\ N \in Nat /\ \A x \in Address : rank[x] \in Nat /\ rank[x] <= N
        /\ \A x \in Address : x # nil => x \in Node
        /\ \A x \in Address, d \in Side : t.child[d][x] \in Address
        /\ "left" \in Side /\ "right" \in Side
    BY DEF Ranked, Address, Tree, Side
  <1>2. \A k \in Nat : \E f : Solves(f, k)
    <2> DEFINE Bad == {k \in Nat : ~ \E f : Solves(f, k)}
    <2>1. SUFFICES Bad = {}
      OBVIOUS
    <2>2. SUFFICES ASSUME Bad # {} PROVE FALSE
      OBVIOUS
    <2>3. PICK k \in Bad : \A j \in Bad : k <= j
      <3>1. Bad \in SUBSET Nat
        OBVIOUS
      <3> HIDE DEF Bad
      <3> QED
        BY <2>2, <3>1, Least
    <2>4. k # 0
      <3>1. Solves([m \in Address |-> <<>>], 0)
        BY <1>1
      <3> HIDE DEF Solves
      <3> QED
        BY <3>1
    <2>5. k - 1 \in Nat /\ k - 1 \notin Bad
      <3>1. k \in Nat
        BY <2>3
      <3>2. k - 1 \in Nat /\ ~(k <= k - 1)
        BY <2>4, <3>1
      <3> HIDE DEF Bad
      <3> QED
        BY <2>3, <3>2
    <2>6. PICK f : Solves(f, k - 1)
      <3> HIDE DEF Solves
      <3> QED
        BY <2>5
    <2> DEFINE g == [m \in Address |-> DfsOf(f, m)]
    <2>7. g \in [Address -> Seq(Node)]
      <3> SUFFICES ASSUME NEW m \in Address PROVE DfsOf(f, m) \in Seq(Node)
        OBVIOUS
      <3>1. CASE m = nil
        BY <3>1 DEF DfsOf
      <3>2. CASE m # nil
        <4>1. /\ f[t.child["left"][m]] \in Seq(Node) /\ f[t.child["right"][m]] \in Seq(Node)
              /\ <<m>> \in Seq(Node)
          BY <1>1, <2>6, <3>2
        <4> QED
          BY <3>2, <4>1 DEF DfsOf
      <3> QED
        BY <3>1, <3>2
    <2>8. ASSUME NEW m \in Address, rank[m] < k
          PROVE  g[m] = DfsOf(g, m)
      <3>1. CASE m = nil
        BY <3>1 DEF DfsOf
      <3>2. CASE m # nil
        <4>1. ASSUME NEW d \in Side
              PROVE  g[t.child[d][m]] = f[t.child[d][m]]
          <5>1. t.child[d][m] \in Address /\ rank[t.child[d][m]] < rank[m]
            BY <1>1, <3>2 DEF Ranked
          <5>3. rank[t.child[d][m]] \in Int /\ rank[m] \in Int /\ k \in Int
            BY <1>1, <2>3, <5>1
          <5>2. rank[t.child[d][m]] < k - 1
            BY <2>8, <5>1, <5>3
          <5> QED
            BY <2>6, <5>1, <5>2
        <4>2. g[m] = DfsOf(f, m)
          OBVIOUS
        <4> HIDE DEF g
        <4> QED
          BY <1>1, <3>2, <4>1, <4>2 DEF DfsOf
      <3> QED
        BY <3>1, <3>2
    <2>9. Solves(g, k)
      <3> HIDE DEF g
      <3> QED
        BY <2>7, <2>8
    <2> HIDE DEF Solves
    <2> QED
      BY <2>3, <2>9
  <1>3. PICK f : Solves(f, N + 1)
    <2>1. N + 1 \in Nat
      BY <1>1
    <2> HIDE DEF Solves
    <2> QED
      BY <1>2, <2>1
  <1>4. f = [m \in Address |-> DfsOf(f, m)]
    BY <1>1, <1>3
  <1>5. delete_dfs = CHOOSE g : g = [m \in Address |-> DfsOf(g, m)]
    BY DEF delete_dfs, DfsOf, Address
  <1> HIDE DEF Solves
  <1>6. \E g : g = [m \in Address |-> DfsOf(g, m)]
    BY <1>4
  <1> QED
    BY <1>5, <1>6

\* The nodes of a tree in the order in which they are freed.
LEMMA DfsLists ==
    ASSUME NEW under, Good(t, Linked, under), NEW rank, NEW N, Ranked(rank, N)
    PROVE  \A m \in Linked \cup {nil} : Lists(delete_dfs[m], under[m])
  <1>1. /\ N \in Nat /\ \A x \in Address : rank[x] \in Nat
        /\ Linked \subseteq Node /\ Linked \subseteq Address /\ nil \notin Linked /\ nil \in Address
        /\ under[nil] = {}
    <2>1. N \in Nat /\ \A x \in Address : rank[x] \in Nat
      BY DEF Ranked
    <2>2. /\ Linked \subseteq Node /\ Linked \subseteq Address /\ nil \notin Linked /\ nil \in Address
          /\ under[nil] = {}
      BY Inside DEF Good, Shape, Rooted
    <2> QED
      BY <2>1, <2>2
  <1>2. \A m \in Address : delete_dfs[m] = DfsOf(delete_dfs, m)
    <2>1. delete_dfs = [m \in Address |-> DfsOf(delete_dfs, m)]
      BY DfsDefined DEF Good
    <2> QED
      BY <2>1
  <1> DEFINE Bad == {k \in Nat : \E m \in Linked \cup {nil} :
                                    rank[m] = k /\ ~Lists(delete_dfs[m], under[m])}
  <1>3. SUFFICES ASSUME Bad # {} PROVE FALSE
    BY <1>1
  <1>4. PICK k \in Bad : \A j \in Bad : k <= j
    <2>1. Bad \in SUBSET Nat
      OBVIOUS
    <2> HIDE DEF Bad
    <2> QED
      BY <1>3, <2>1, Least
  <1>5. PICK m \in Linked \cup {nil} : rank[m] = k /\ ~Lists(delete_dfs[m], under[m])
    BY <1>4
  <1>6. CASE m = nil
    <2>1. delete_dfs[m] = <<>>
      BY <1>1, <1>2, <1>6 DEF DfsOf
    <2> QED
      BY <1>1, <1>5, <1>6, <2>1, ListEmpty
  <1>7. CASE m \in Linked
    <2> DEFINE a == t.child["left"][m]
               b == t.child["right"][m]
    <2>1. "left" \in Side /\ "right" \in Side /\ Other("left") = "right"
      BY DEF Side, Other
    <2>2. /\ a \in Linked \cup {nil} /\ b \in Linked \cup {nil}
          /\ under[m] = {m} \cup under[a] \cup under[b] /\ under[a] \cap under[b] = {}
          /\ m \notin under[a] /\ m \notin under[b]
      BY <1>7, <2>1 DEF Good, Shape, Parted
    <2>3. rank[a] < k /\ rank[b] < k
      BY <1>1, <1>5, <1>7, <2>1 DEF Ranked
    <2>4. delete_dfs[m] = delete_dfs[a] \o delete_dfs[b] \o <<m>>
      BY <1>1, <1>2, <1>7 DEF DfsOf
    <2> HIDE DEF a, b
    <2>5. ASSUME NEW c \in Linked \cup {nil}, rank[c] < k
          PROVE  Lists(delete_dfs[c], under[c])
      <3>1. rank[c] \in Nat /\ k \in Nat
        BY <1>1
      <3>2. rank[c] \notin Bad
        BY <1>4, <2>5, <3>1
      <3> QED
        BY <3>1, <3>2
    <2>6. Lists(delete_dfs[a] \o delete_dfs[b], under[a] \cup under[b])
      BY <2>2, <2>3, <2>5, ListJoin
    <2>7. Lists((delete_dfs[a] \o delete_dfs[b]) \o <<m>>, (under[a] \cup under[b]) \cup {m})
      <3>1. Lists(<<m>>, {m}) /\ (under[a] \cup under[b]) \cap {m} = {}
        BY <1>1, <1>7, <2>2, ListOne
      <3> QED
        BY <2>6, <3>1, ListJoin
    <2>8. (under[a] \cup under[b]) \cup {m} = under[m]
      BY <2>2
    <2> QED
      BY <1>5, <2>4, <2>7, <2>8
  <1> QED
    BY <1>5, <1>6, <1>7

\* What inorder_fill(n) makes of <<m, arr>>, with f for its calls.
FillOf(f, n, m, arr) ==
    IF m = nil \/ Len(arr) >= n THEN arr
    ELSE f[<<t.child["right"][m], Append(f[<<t.child["left"][m], arr>>], m)>>]

LEMMA FillDefined ==
    ASSUME t \in Tree, NEW rank, NEW N, Ranked(rank, N), NEW n \in Nat
    PROVE  \A m \in Address, arr \in Seq(Node) :
              inorder_fill(n)[<<m, arr>>] = FillOf(inorder_fill(n), n, m, arr)
  <1> DEFINE D == Address \X Seq(Node)
             Solves(f, k) == /\ f \in [D -> Seq(Node)]
                             /\ \A m \in Address, arr \in Seq(Node) :
                                   rank[m] < k => f[<<m, arr>>] = FillOf(f, n, m, arr)
  <1>1. /\ N \in Nat /\ \A x \in Address : rank[x] \in Nat /\ rank[x] <= N
        /\ \A x \in Address : x # nil => x \in Node
        /\ \A x \in Address, d \in Side : t.child[d][x] \in Address
        /\ "left" \in Side /\ "right" \in Side
    BY DEF Ranked, Address, Tree, Side
  <1>0. ASSUME NEW f \in [D -> Seq(Node)], NEW m \in Address, NEW arr \in Seq(Node)
        PROVE  /\ FillOf(f, n, m, arr) \in Seq(Node)
               /\ m # nil => /\ f[<<t.child["left"][m], arr>>] \in Seq(Node)
                             /\ Append(f[<<t.child["left"][m], arr>>], m) \in Seq(Node)
    <2>1. CASE m = nil
      BY <2>1 DEF FillOf
    <2>2. CASE m # nil
      <3>1. t.child["left"][m] \in Address /\ t.child["right"][m] \in Address /\ m \in Node
        BY <1>1, <2>2
      <3>2. f[<<t.child["left"][m], arr>>] \in Seq(Node)
        BY <3>1
      <3>3. Append(f[<<t.child["left"][m], arr>>], m) \in Seq(Node)
        BY <3>1, <3>2
      <3>4. f[<<t.child["right"][m], Append(f[<<t.child["left"][m], arr>>], m)>>] \in Seq(Node)
        BY <3>1, <3>3
      <3> QED
        BY <3>2, <3>3, <3>4 DEF FillOf
    <2> QED
      BY <2>1, <2>2
  <1>2. \A k \in Nat : \E f : Solves(f, k)
    <2> DEFINE Bad == {k \in Nat : ~ \E f : Solves(f, k)}
    <2>1. SUFFICES Bad = {}
      OBVIOUS
    <2>2. SUFFICES ASSUME Bad # {} PROVE FALSE
      OBVIOUS
    <2>3. PICK k \in Bad : \A j \in Bad : k <= j
      <3>1. Bad \in SUBSET Nat
        OBVIOUS
      <3> HIDE DEF Bad
      <3> QED
        BY <2>2, <3>1, Least
    <2>4. k # 0
      <3>1. Solves([at \in D |-> <<>>], 0)
        BY <1>1
      <3> HIDE DEF Solves
      <3> QED
        BY <3>1
    <2>5. k - 1 \in Nat /\ k - 1 \notin Bad
      <3>1. k \in Nat
        BY <2>3
      <3>2. k - 1 \in Nat /\ ~(k <= k - 1)
        BY <2>4, <3>1
      <3> HIDE DEF Bad
      <3> QED
        BY <2>3, <3>2
    <2>6. PICK f : Solves(f, k - 1)
      <3> HIDE DEF Solves
      <3> QED
        BY <2>5
    <2>10. f \in [D -> Seq(Node)]
      BY <2>6
    <2> DEFINE g == [at \in D |-> FillOf(f, n, at[1], at[2])]
    <2>11. \A m \in Address, arr \in Seq(Node) : g[<<m, arr>>] = FillOf(f, n, m, arr)
      OBVIOUS
    <2>7. g \in [D -> Seq(Node)]
      <3> SUFFICES ASSUME NEW at \in D PROVE FillOf(f, n, at[1], at[2]) \in Seq(Node)
        OBVIOUS
      <3>1. at[1] \in Address /\ at[2] \in Seq(Node)
        OBVIOUS
      <3> QED
        BY <1>0, <2>10, <3>1
    <2> HIDE DEF g
    <2>8. ASSUME NEW m \in Address, NEW arr \in Seq(Node), rank[m] < k
          PROVE  g[<<m, arr>>] = FillOf(g, n, m, arr)
      <3>1. CASE m = nil
        BY <2>11, <3>1 DEF FillOf
      <3>2. CASE m # nil
        <4>1. ASSUME NEW d \in Side, NEW ar \in Seq(Node)
              PROVE  g[<<t.child[d][m], ar>>] = f[<<t.child[d][m], ar>>]
          <5>1. t.child[d][m] \in Address /\ rank[t.child[d][m]] < rank[m]
            BY <1>1, <3>2 DEF Ranked
          <5>3. /\ rank[t.child[d][m]] \in Int /\ rank[m] \in Int /\ k \in Int
            BY <1>1, <2>3, <5>1
          <5>2. rank[t.child[d][m]] < k - 1
            BY <2>8, <5>1, <5>3
          <5>4. f[<<t.child[d][m], ar>>] = FillOf(f, n, t.child[d][m], ar)
            BY <2>6, <5>1, <5>2
          <5> QED
            BY <2>11, <5>1, <5>4
        <4>2. g[<<m, arr>>] = FillOf(f, n, m, arr)
          BY <2>11
        <4> DEFINE ar == Append(f[<<t.child["left"][m], arr>>], m)
        <4>3. ar \in Seq(Node)
          BY <1>0, <2>10, <3>2
        <4>4. g[<<t.child["left"][m], arr>>] = f[<<t.child["left"][m], arr>>]
          BY <1>1, <4>1
        <4>5. g[<<t.child["right"][m], ar>>] = f[<<t.child["right"][m], ar>>]
          BY <1>1, <4>1, <4>3
        <4> QED
          BY <4>2, <4>4, <4>5 DEF FillOf
      <3> QED
        BY <3>1, <3>2
    <2>9. Solves(g, k)
      BY <2>7, <2>8
    <2> HIDE DEF Solves
    <2> QED
      BY <2>3, <2>9
  <1>3. PICK f : Solves(f, N + 1)
    <2>1. N + 1 \in Nat
      BY <1>1
    <2> HIDE DEF Solves
    <2> QED
      BY <1>2, <2>1
  <1>4. f = [at \in D |-> FillOf(f, n, at[1], at[2])]
    <2>1. \A at \in D : f[at] = FillOf(f, n, at[1], at[2])
      <3> SUFFICES ASSUME NEW at \in D PROVE f[at] = FillOf(f, n, at[1], at[2])
        OBVIOUS
      <3>1. PICK m \in Address, arr \in Seq(Node) : at = <<m, arr>>
        OBVIOUS
      <3>2. rank[m] < N + 1
        BY <1>1
      <3> QED
        BY <1>3, <3>1, <3>2
    <2> QED
      BY <1>3, <2>1
  <1>5. inorder_fill(n) = CHOOSE g : g = [at \in D |-> FillOf(g, n, at[1], at[2])]
    BY DEF inorder_fill, FillOf, Address
  <1> HIDE DEF Solves
  <1>6. \E g : g = [at \in D |-> FillOf(g, n, at[1], at[2])]
    BY <1>4
  <1>7. inorder_fill(n) = [at \in D |-> FillOf(inorder_fill(n), n, at[1], at[2])]
    BY <1>5, <1>6
  <1> QED
    <2> SUFFICES ASSUME NEW m \in Address, NEW arr \in Seq(Node)
                 PROVE inorder_fill(n)[<<m, arr>>] = FillOf(inorder_fill(n), n, m, arr)
      OBVIOUS
    <2>1. PICK F : F = inorder_fill(n)
      OBVIOUS
    <2>2. F = [at \in D |-> FillOf(F, n, at[1], at[2])]
      BY <1>7, <2>1
    <2>3. F[<<m, arr>>] = FillOf(F, n, m, arr)
      BY <2>2
    <2> QED
      BY <2>1, <2>3

\* The nodes of a tree from left to right, if n is more than they are.
Filled(under, n) ==
    \A m \in Linked \cup {nil}, arr \in Seq(Node) :
       Len(arr) + Cardinality(under[m]) < n =>
          \E w : /\ Lists(w, under[m]) /\ InKeyOrder(w)
                 /\ inorder_fill(n)[<<m, arr>>] = arr \o w

LEMMA FillLists ==
    ASSUME NEW under, Good(t, Linked, under), NEW rank, NEW N, Ranked(rank, N), NEW n \in Nat
    PROVE  Filled(under, n)
  <1>1. /\ N \in Nat /\ \A x \in Address : rank[x] \in Nat
        /\ Linked \subseteq Node /\ Linked \subseteq Address /\ nil \notin Linked /\ nil \in Address
        /\ under[nil] = {} /\ \A x \in Linked : under[x] \subseteq Linked /\ t.key[x] \in Int
        /\ t \in Tree
    <2>1. N \in Nat /\ \A x \in Address : rank[x] \in Nat
      BY DEF Ranked
    <2>2. /\ Linked \subseteq Node /\ Linked \subseteq Address /\ nil \notin Linked /\ nil \in Address
          /\ under[nil] = {} /\ \A x \in Linked : under[x] \subseteq Linked
          /\ t \in Tree
      BY Inside DEF Good, Shape, Rooted
    <2>3. \A x \in Linked : t.key[x] \in Int
      BY <2>2 DEF Tree
    <2> QED
      BY <2>1, <2>2, <2>3
  <1>2. PICK F : F = inorder_fill(n)
    OBVIOUS
  <1>3. \A m \in Address, arr \in Seq(Node) : F[<<m, arr>>] = FillOf(F, n, m, arr)
    BY <1>1, <1>2, FillDefined
  <1> DEFINE Fills(m, arr) == \E w : /\ Lists(w, under[m]) /\ InKeyOrder(w)
                                     /\ F[<<m, arr>>] = arr \o w
             Right(m) == \A arr \in Seq(Node) :
                            Len(arr) + Cardinality(under[m]) < n => Fills(m, arr)
             Bad == {k \in Nat : \E m \in Linked \cup {nil} : rank[m] = k /\ ~Right(m)}
  <1>4. SUFFICES ASSUME Bad # {} PROVE FALSE
    BY <1>1, <1>2 DEF Filled
  <1>5. PICK k \in Bad : \A j \in Bad : k <= j
    <2>1. Bad \in SUBSET Nat
      OBVIOUS
    <2> HIDE DEF Bad
    <2> QED
      BY <1>4, <2>1, Least
  <1>6. PICK m \in Linked \cup {nil} : rank[m] = k /\ ~Right(m)
    BY <1>5
  <1>7. PICK arr \in Seq(Node) : Len(arr) + Cardinality(under[m]) < n /\ ~Fills(m, arr)
    BY <1>6
  <1>8. ASSUME NEW c \in Linked \cup {nil}, rank[c] < k
        PROVE  Right(c)
    <2>1. rank[c] \in Nat /\ k \in Nat
      BY <1>1
    <2>2. rank[c] \notin Bad
      <3> HIDE DEF Bad, Right
      <3>1. ~(k <= rank[c])
        BY <1>8, <2>1
      <3> QED
        BY <1>5, <3>1
    <2> HIDE DEF Right
    <2> QED
      BY <2>1, <2>2
  <1> HIDE DEF Bad
  <1>11. F[<<m, arr>>] = FillOf(F, n, m, arr)
    BY <1>1, <1>3
  <1>9. CASE m = nil
    <2>1. F[<<m, arr>>] = arr \o <<>>
      <3>1. F[<<m, arr>>] = arr
        BY <1>9, <1>11 DEF FillOf
      <3>2. arr \o <<>> = arr
        OBVIOUS
      <3> QED
        BY <3>1, <3>2
    <2>2. Lists(<<>>, under[m]) /\ InKeyOrder(<<>>)
      BY <1>1, <1>9, ListEmpty DEF InKeyOrder
    <2> QED
      BY <1>7, <2>1, <2>2
  <1>10. CASE m \in Linked
    <2> DEFINE a == t.child["left"][m]
               b == t.child["right"][m]
    <2>1. "left" \in Side /\ "right" \in Side /\ Other("left") = "right"
      BY DEF Side, Other
    <2>2. /\ a \in Linked \cup {nil} /\ b \in Linked \cup {nil}
          /\ under[m] = {m} \cup under[a] \cup under[b] /\ under[a] \cap under[b] = {}
          /\ m \notin under[a] /\ m \notin under[b]
      BY <1>10, <2>1 DEF Good, Shape, Parted
    <2>3. rank[a] < k /\ rank[b] < k
      BY <1>1, <1>6, <1>10, <2>1 DEF Ranked
    <2>4. /\ \A x \in under[a] : t.key[x] <= t.key[m]
          /\ \A x \in under[b] : t.key[m] <= t.key[x]
      <3>1. \A x \in under[a] : x \in Linked /\ Before("left", t.key[x], t.key[m])
        BY <1>1, <1>10, <2>1, <2>2 DEF Good, Ordered
      <3>2. \A x \in under[b] : x \in Linked /\ Before("right", t.key[x], t.key[m])
        BY <1>1, <1>10, <2>1, <2>2 DEF Good, Ordered
      <3> QED
        BY <3>1, <3>2 DEF Before
    <2>5. /\ Cardinality(under[a]) \in Nat /\ Cardinality(under[b]) \in Nat
          /\ Cardinality(under[m]) = Cardinality(under[a]) + Cardinality(under[b]) + 1
      <3>1. IsFiniteSet(under[a]) /\ IsFiniteSet(under[b]) /\ IsFiniteSet({m})
        <4>1. under[a] \in SUBSET Node /\ under[b] \in SUBSET Node
          BY <1>1, <2>2
        <4> QED
          BY <4>1, KeyAssumption, FS_Subset, FS_Singleton
      <3>2. /\ IsFiniteSet(under[a] \cup under[b])
            /\ Cardinality(under[a] \cup under[b]) = Cardinality(under[a]) + Cardinality(under[b])
                                                        - Cardinality(under[a] \cap under[b])
        BY <3>1, FS_Union
      <3>3. Cardinality((under[a] \cup under[b]) \cup {m})
              = Cardinality(under[a] \cup under[b]) + Cardinality({m})
                   - Cardinality((under[a] \cup under[b]) \cap {m})
        BY <3>1, <3>2, FS_Union
      <3>4. under[m] = (under[a] \cup under[b]) \cup {m} /\ (under[a] \cup under[b]) \cap {m} = {}
        BY <2>2
      <3>5. Cardinality({}) = 0 /\ Cardinality({m}) = 1
        BY FS_EmptySet, FS_Singleton
      <3>6. /\ Cardinality(under[a]) \in Nat /\ Cardinality(under[b]) \in Nat
        BY <3>1, FS_CardinalityType
      <3>7. Cardinality(under[a] \cup under[b]) = Cardinality(under[a]) + Cardinality(under[b])
        <4>1. under[a] \cap under[b] = {}
          BY <2>2
        <4>2. Cardinality(under[a] \cap under[b]) = 0
          BY <3>5, <4>1
        <4> QED
          BY <3>2, <3>6, <4>2
      <3>8. Cardinality(under[m]) = Cardinality(under[a] \cup under[b]) + 1 - 0
        BY <3>3, <3>4, <3>5
      <3> QED
        BY <3>6, <3>7, <3>8
    <2>6. Len(arr) \in Nat /\ Len(arr) < n
      BY <1>7, <2>5
    <2>7. F[<<m, arr>>] = F[<<b, Append(F[<<a, arr>>], m)>>]
      <3>1. m # nil /\ ~(Len(arr) >= n)
        BY <1>1, <1>10, <2>6
      <3> QED
        BY <1>11, <3>1 DEF FillOf
    <2> HIDE DEF a, b
    <2>8. PICK u : Lists(u, under[a]) /\ InKeyOrder(u) /\ F[<<a, arr>>] = arr \o u
      <3>1. Len(arr) + Cardinality(under[a]) < n
        BY <1>7, <2>5, <2>6
      <3>2. Right(a)
        BY <1>8, <2>2, <2>3
      <3> QED
        BY <3>1, <3>2
    <2> DEFINE ar == Append(arr \o u, m)
    <2>9. /\ u \in Seq(Node) /\ Len(u) = Cardinality(under[a])
          /\ ar \in Seq(Node) /\ Len(ar) = Len(arr) + Len(u) + 1
          /\ ar = arr \o (u \o <<m>>) /\ m \in Node
      <3>1. u \in Seq(Node) /\ Len(u) = Cardinality(under[a]) /\ m \in Node
        BY <1>1, <1>10, <2>8 DEF Lists
      <3>2. arr \o u \in Seq(Node) /\ Len(arr \o u) = Len(arr) + Len(u)
        BY <3>1
      <3>3. ar \in Seq(Node) /\ Len(ar) = Len(arr) + Len(u) + 1
        BY <3>1, <3>2
      <3>4. ar = arr \o (u \o <<m>>)
        BY <3>1
      <3> QED
        BY <3>1, <3>3, <3>4
    <2>10. PICK v : Lists(v, under[b]) /\ InKeyOrder(v) /\ F[<<b, ar>>] = ar \o v
      <3>1. Len(ar) + Cardinality(under[b]) < n
        BY <1>7, <2>5, <2>6, <2>9
      <3>2. Right(b)
        BY <1>8, <2>2, <2>3
      <3> HIDE DEF ar
      <3> QED
        BY <2>9, <3>1, <3>2
    <2> DEFINE w == (u \o <<m>>) \o v
    <2>11. Lists(u \o <<m>>, under[a] \cup {m}) /\ InKeyOrder(u \o <<m>>)
      <3>1. Lists(<<m>>, {m}) /\ InKeyOrder(<<m>>)
        BY <2>9, ListOne DEF InKeyOrder
      <3>2. under[a] \cap {m} = {} /\ \A x \in under[a], y \in {m} : t.key[x] <= t.key[y]
        BY <2>2, <2>4
      <3> QED
        BY <2>8, <3>1, <3>2, ListJoin, RisingJoin DEF InKeyOrder
    <2>12. Lists(w, under[m]) /\ InKeyOrder(w)
      <3>1. /\ (under[a] \cup {m}) \cap under[b] = {}
            /\ (under[a] \cup {m}) \cup under[b] = under[m]
        BY <2>2
      <3>2. \A x \in under[a] \cup {m}, y \in under[b] : t.key[x] <= t.key[y]
        <4>1. \A x \in under[a] \cup under[b] \cup {m} : t.key[x] \in Int
          BY <1>1, <1>10, <2>2
        <4>2. \A x \in under[a] \cup {m} : t.key[x] <= t.key[m]
          BY <1>1, <1>10, <2>4
        <4> QED
          BY <1>1, <1>10, <2>4, <4>1, <4>2
      <3>3. Lists(w, (under[a] \cup {m}) \cup under[b])
        BY <2>10, <2>11, <3>1, ListJoin
      <3>4. InKeyOrder(w)
        BY <2>10, <2>11, <3>2, RisingJoin DEF InKeyOrder
      <3> QED
        BY <3>1, <3>3, <3>4
    <2>13. F[<<m, arr>>] = arr \o w
      <3>1. F[<<m, arr>>] = (arr \o (u \o <<m>>)) \o v
        BY <2>7, <2>8, <2>9, <2>10
      <3>2. v \in Seq(Node) /\ u \o <<m>> \in Seq(Node)
        BY <2>10, <2>11 DEF Lists
      <3>3. (arr \o (u \o <<m>>)) \o v = arr \o w
        BY <3>2, Associative
      <3> QED
        BY <3>1, <3>3
    <2> HIDE DEF w
    <2> QED
      BY <1>7, <2>12, <2>13
  <1> QED
    BY <1>6, <1>9, <1>10

-----------------------------------------------------------------------------
(* The last operation, and what the invariant gives.                       *)
\* A node that is not in the tree is no parent of others than those in it.
LEMMA Loose ==
    ASSUME TreeInv
    PROVE  /\ Linked \subseteq Node
           /\ \A x \in Node \ Linked, d \in Side : t.child[d][x] \in Linked \cup {nil}
  <1>1. Linked \subseteq live /\ live \subseteq Node
    BY TypedIs DEF TreeInv, Linked
  <1>2. ASSUME NEW x \in Node \ Linked, NEW d \in Side
        PROVE  t.child[d][x] \in Linked \cup {nil}
    <2>1. CASE x \notin live
      BY <2>1 DEF TreeInv, Vacant
    <2>2. CASE x \in live
      <3>1. x = node /\ pc \in {"descend", "erase_fixup"}
        BY <1>2, <2>2 DEF Linked, TreeInv, Typed, Calls
      <3>2. PICK under : Descending(under) /\ Fixing
        BY DEF TreeInv, Fits
      <3> QED
        BY <3>1, <3>2 DEF Descending, Fixing
    <2> QED
      BY <2>1, <2>2
  <1> QED
    BY <1>1, <1>2

LEMMA DeleteKeeps ==
    ASSUME TreeInv, delete_rbtree
    PROVE  TreeInv'
  <1>1. PICK under : Fits(under)
    BY DEF TreeInv
  <1>2. PICK rank : Ranked(rank, Cardinality(Node) + 1)
    BY <1>1, Loose, Ranks DEF Fits, Good
  <1>3. /\ pc = "idle" /\ live' = live \ ToSet(delete_dfs[t.root])
        /\ t' = Empty /\ pc' = "deleted" /\ UNCHANGED <<arg, node, cur, res>>
    BY DEF delete_rbtree
  <1>4. Linked = live
    BY <1>3 DEF Linked
  <1>5. Good(t, Linked, under) /\ t.root \in Linked \cup {nil} /\ under[t.root] = live
    BY <1>1, <1>4 DEF Fits, Good, Shape, Rooted
  <1>6. Lists(delete_dfs[t.root], live)
    BY <1>2, <1>5, DfsLists
  <1>7. ToSet(delete_dfs[t.root]) = live
    BY <1>6 DEF Lists, ToSet
  <1>8. live' = {}
    BY <1>3, <1>7
  <1>9. Typed'
    BY <1>3, <1>8 DEF TreeInv, Typed, Calls
  <1> DEFINE none == [x \in Address |-> {}]
  <1>10. /\ nil \in Address /\ Empty.root = nil
         /\ \A x \in Address, d \in Side : Empty.child[d][x] = nil
    BY DEF Empty, Address
  <1>11. Empty \in Tree
    BY <1>10 DEF Empty, Address, Tree
  <1>12. none \in [Address -> SUBSET Node] /\ none[nil] = {}
    BY <1>10
  <1> HIDE DEF none
  <1>13. Shape(Empty, {}, none)
    BY <1>10, <1>12 DEF Shape, Rooted, Parted, Hung, Closed
  <1>14. Ordered(Empty, {}, none)
    BY DEF Ordered
  <1>15. Linked' = {}
    BY <1>8 DEF Linked
  <1>16. Good(t', Linked', none)
    BY <1>3, <1>11, <1>13, <1>14, <1>15 DEF Good
  <1>17. Fits(none)'
    BY <1>3, <1>8, <1>16 DEF Fits, Descending, Seeking, Fixing, Looking, Side
  <1>18. Vacant'
    BY <1>3, <1>10 DEF Vacant, Address
  <1> QED
    BY <1>9, <1>17, <1>18 DEF TreeInv

\* What inorder_fill writes into an array for all the nodes.
LEMMA InOrderIs ==
    ASSUME TreeInv, file = "rbtree.c"
    PROVE  Lists(InOrder, Linked) /\ InKeyOrder(InOrder)
  <1>1. PICK under : Fits(under)
    BY DEF TreeInv
  <1>0. PICK n : n = Cardinality(Node) + 1
    OBVIOUS
  <1>2. PICK rank : Ranked(rank, n)
    BY <1>0, <1>1, Loose, Ranks DEF Fits, Good
  <1>3. Good(t, Linked, under) /\ t.root \in Linked \cup {nil} /\ under[t.root] = Linked
    BY <1>1 DEF Fits, Good, Shape, Rooted
  <1>4. /\ Cardinality(Linked) \in Nat /\ n \in Nat /\ Cardinality(Linked) < n
    <2>1. IsFiniteSet(Node) /\ IsFiniteSet(Linked) /\ Cardinality(Linked) <= Cardinality(Node)
      BY Loose, KeyAssumption, FS_Subset
    <2>2. Cardinality(Node) \in Nat /\ Cardinality(Linked) \in Nat
      BY <2>1, FS_CardinalityType
    <2> QED
      BY <1>0, <2>1, <2>2
  <1>5. <<>> \in Seq(Node) /\ Len(<<>>) + Cardinality(under[t.root]) < n
    BY <1>3, <1>4
  <1>6. PICK w : /\ Lists(w, under[t.root]) /\ InKeyOrder(w)
                 /\ inorder_fill(n)[<<t.root, <<>>>>] = <<>> \o w
    <2>1. Filled(under, n)
      BY <1>2, <1>3, <1>4, FillLists
    <2>2. PICK arr \in Seq(Node) : arr = <<>>
      BY <1>5
    <2>3. Len(arr) + Cardinality(under[t.root]) < n
      BY <1>5, <2>2
    <2>4. \E w : /\ Lists(w, under[t.root]) /\ InKeyOrder(w)
                 /\ inorder_fill(n)[<<t.root, arr>>] = arr \o w
      BY <1>3, <2>1, <2>3 DEF Filled
    <2> QED
      BY <2>2, <2>4
  <1>7. <<>> \o w = w
    BY <1>6 DEF Lists
  <1>8. InOrder = w
    BY <1>0, <1>6, <1>7 DEF InOrder, to_array
  <1> QED
    BY <1>3, <1>6, <1>8

LEMMA SearchTreeHolds ==
    ASSUME TreeInv, file = "rbtree.c"
    PROVE  SearchTree
  <1>1. Lists(InOrder, Linked) /\ InKeyOrder(InOrder)
    BY InOrderIs
  <1>2. PICK w : w = InOrder
    OBVIOUS
  <1>3. Lists(w, Linked) /\ InKeyOrder(w)
    BY <1>1, <1>2
  <1>4. DOMAIN w = 1 .. Len(w)
    BY <1>3 DEF Lists
  <1>5. IsInjective(w)
    BY <1>3, <1>4 DEF IsInjective, Lists
  <1>6. ToSet(w) = Linked
    BY <1>3, <1>4 DEF ToSet, Lists
  <1>7. \A i, j \in DOMAIN w : i < j => t.key[w[i]] <= t.key[w[j]]
    BY <1>3, <1>4 DEF InKeyOrder, Rising
  <1>8. /\ t.root # nil => t.parent[t.root] = nil
        /\ \A n \in Linked, d \in Side : t.child[d][n] # nil => t.parent[t.child[d][n]] = n
    <2>1. PICK under : Shape(t, Linked, under)
      BY DEF TreeInv, Fits, Good
    <2> QED
      BY <2>1 DEF Shape, Rooted, Parted
  <1> QED
    BY <1>2, <1>5, <1>6, <1>7, <1>8 DEF SearchTree

LEMMA DeleteHolds ==
    ASSUME TreeInv, file = "rbtree.c"
    PROVE  DeleteFreesAll
  <1>1. PICK under : Fits(under)
    BY DEF TreeInv
  <1>2. PICK rank : Ranked(rank, Cardinality(Node) + 1)
    BY <1>1, Loose, Ranks DEF Fits, Good
  <1>3. Good(t, Linked, under) /\ t.root \in Linked \cup {nil}
    BY <1>1 DEF Fits, Good, Shape, Rooted
  <1>4. PICK w : w = delete_dfs[t.root]
    OBVIOUS
  <1>5. Lists(w, under[t.root])
    BY <1>2, <1>3, <1>4, DfsLists
  <1>6. DOMAIN w = 1 .. Len(w)
    BY <1>5 DEF Lists
  <1>7. IsInjective(w)
    BY <1>5, <1>6 DEF IsInjective, Lists
  <1>8. pc = "deleted" => live = {}
    BY <1>1 DEF Fits
  <1> QED
    BY <1>4, <1>7, <1>8 DEF DeleteFreesAll

LEMMA LookupHolds ==
    ASSUME TreeInv
    PROVE  /\ FindMiss \/ Find2Miss => \A n \in live : t.key[n] # arg
           /\ FindHit \/ Find2Hit => cur \in live /\ t.key[cur] = arg
           /\ OutmostDone /\ live # {} => IsOutmost(cur, pc)
  <1>1. PICK under : Fits(under)
    BY DEF TreeInv
  <1>2. ~Find2Miss /\ ~Find2Hit
    BY DEF TreeInv, Typed, Calls, Find2Miss, Find2Hit
  <1>3. ASSUME FindMiss PROVE \A n \in live : t.key[n] # arg
    <2>1. pc = "find" /\ cur = nil /\ under[nil] = {}
      BY <1>1, <1>3 DEF FindMiss, Fits, Good, Shape, Rooted
    <2> QED
      BY <1>1, <2>1 DEF Fits, Looking
  <1>4. ASSUME FindHit PROVE cur \in live /\ t.key[cur] = arg
    BY <1>1, <1>4 DEF FindHit, Fits, Looking
  <1>5. ASSUME OutmostDone, live # {} PROVE IsOutmost(cur, pc)
    <2>1. pc \in Side /\ t.child[pc][cur] = nil /\ Linked = live
      BY <1>5 DEF OutmostDone, Linked, Side
    <2>2. cur \in live
      BY <1>1, <1>5, <2>1 DEF Fits, Looking
    <2>3. Good(t, live, under) /\ under[nil] = {} /\ cur \in under[cur]
      BY <1>1, <2>1, <2>2, Inside DEF Fits, Good, Shape, Rooted
    <2>4. under[cur] = {cur} \cup under[t.child[Other(pc)][cur]]
      BY <2>1, <2>2, <2>3 DEF Good, Shape, Parted
    <2>5. \A n \in live : t.key[n] \in Int
      BY <2>3, TypedIs DEF Good, Tree, TreeInv
    <2>6. ASSUME NEW n \in live
          PROVE  IF pc = "left" THEN t.key[cur] <= t.key[n] ELSE t.key[cur] >= t.key[n]
      <3>1. CASE n \notin under[cur]
        <4>1. Before(pc, t.key[cur], t.key[n])
          BY <1>1, <2>1, <2>3, <3>1 DEF Fits, Looking
        <4> QED
          BY <2>1, <2>2, <2>5, <4>1 DEF Before, Side
      <3>2. CASE n \in under[cur] /\ n # cur
        <4>1. Other(pc) \in Side /\ n \in under[t.child[Other(pc)][cur]]
          BY <2>1, <2>4, <3>2, Sides
        <4>2. Before(Other(pc), t.key[n], t.key[cur])
          BY <2>2, <2>3, <4>1 DEF Good, Ordered
        <4> QED
          BY <2>1, <2>2, <2>5, <4>2 DEF Before, Side, Other
      <3>3. CASE n = cur
        BY <2>2, <2>5, <3>3
      <3> QED
        BY <3>1, <3>2, <3>3
    <2> QED
      BY <2>2, <2>6 DEF IsOutmost
  <1> QED
    BY <1>2, <1>3, <1>4, <1>5

-----------------------------------------------------------------------------
(* The theorems.                                                           *)
FileInv == file = "rbtree.c" /\ TreeInv

LEMMA CallKeeps ==
    ASSUME TreeInv, CallStep
    PROVE  TreeInv'
  <1>1. ASSUME FindHit \/ FindMiss \/ OutmostDone PROVE TreeInv'
    BY <1>1, ReturnKeeps DEF FindHit, FindMiss, OutmostDone, Side
  <1> QED
    BY <1>1, DescendKeeps, LinkKeeps, InsertFixupKeeps, InsertDoneKeeps, SuccessorKeeps,
       EraseSuccessorKeeps, EraseFixupKeeps, EraseDoneKeeps, FindNextKeeps, OutmostNextKeeps
       DEF CallStep

LEMMA NextKeeps ==
    ASSUME FileInv, [Next]_allvars
    PROVE  FileInv'
  <1>1. file = "rbtree.c" /\ file' = file /\ TreeInv
    BY DEF FileInv, Next, Running, allvars
  <1>2. CASE Running
    BY <1>1, <1>2, CallKeeps DEF FileInv, Running
  <1>3. ASSUME NEW n \in Node, Insert(n) \/ EraseOneChild(n) \/ EraseTwoChildren(n)
        PROVE  FileInv'
    BY <1>1, <1>3, InsertKeeps, EraseOneChildKeeps, EraseTwoChildrenKeeps DEF FileInv
  <1>4. CASE LookUp
    BY <1>1, <1>4, FindKeeps, OutmostKeeps DEF LookUp, FileInv
  <1>5. CASE delete_rbtree
    BY <1>1, <1>5, DeleteKeeps DEF FileInv
  <1>6. CASE new_rbtree
    BY <1>1, <1>6, NewKeeps DEF FileInv
  <1>7. CASE UNCHANGED allvars
    <2>1. UNCHANGED <<t, live, pc, arg, node, cur, res, file>>
      BY <1>7 DEF allvars
    <2> QED
      BY <1>1, <2>1 DEF FileInv, TreeInv, Typed, Vacant, Fits, Descending, Seeking, Fixing,
                        Looking, Linked
  <1> QED
    BY <1>1, <1>2, <1>3, <1>4, <1>5, <1>6, <1>7 DEF Next

LEMMA InvHolds == Spec /\ file = "rbtree.c" => []FileInv
  <1>1. Begin /\ file = "rbtree.c" => FileInv
    BY InitKeeps DEF Begin, FileInv
  <1>2. FileInv /\ [Next]_allvars => FileInv'
    BY NextKeeps
  <1> QED
    BY <1>1, <1>2, PTL DEF Spec

(* For any nodes and keys, whatever is inserted and erased: the tree of    *)
(* rbtree.c is a search tree of the nodes that are allocated, in the       *)
(* middle of every rotation, transplant and fix-up too.                    *)
THEOREM TreeStaysSearchTree == Spec /\ file = "rbtree.c" => []SearchTree
  <1>1. FileInv => SearchTree
    BY SearchTreeHolds DEF FileInv
  <1> QED
    BY <1>1, InvHolds, PTL

(* delete_rbtree of rbtree.c frees every node of the tree, and none twice. *)
THEOREM EveryNodeFreed == Spec /\ file = "rbtree.c" => []DeleteFreesAll
  <1>1. FileInv => DeleteFreesAll
    BY DeleteHolds DEF FileInv
  <1> QED
    BY <1>1, InvHolds, PTL

(* rbtree_find of rbtree.c answers NULL only when no node has the key, and *)
(* its node has it, equal keys on both sides of one another included;      *)
(* rbtree_min and rbtree_max return a node with the outmost key.           *)
THEOREM LookupsFindTheirKey == Spec /\ file = "rbtree.c" => LookupsAreRight
  <1>1. FileInv => /\ FindMiss \/ Find2Miss => \A n \in live : t.key[n] # arg
                   /\ FindHit \/ Find2Hit => cur \in live /\ t.key[cur] = arg
                   /\ OutmostDone /\ live # {} => IsOutmost(cur, pc)
    BY LookupHolds DEF FileInv
  <1> QED
    BY <1>1, InvHolds, PTL DEF LookupsAreRight

=============================================================================
