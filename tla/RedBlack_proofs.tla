--------------------------- MODULE RedBlack_proofs ---------------------------
(***************************************************************************)
(* The tree of rbtree.c stays a red-black tree: a theorem about RBTrees,   *)
(* for every finite set of nodes and every choice of keys.  The invariant  *)
(* is TreeInv of RBTree_proofs with one about the colors, ColorInv, which  *)
(* says that there is a function h from the nodes to the number of black   *)
(* nodes below them; every turn and every paint changes it in a way that   *)
(* is given outright.                                                      *)
(***************************************************************************)
EXTENDS RBTree_proofs

-----------------------------------------------------------------------------
(* The colors.  h[n] is the number of black nodes on a path from n down,   *)
(* where one counts that is lacking on side e of node p (for p = nil, none *)
(* is).                                                                    *)
Lacks(n, d, p, e) == IF n = p /\ d = e THEN 1 ELSE 0
Blacks(s, n) == IF s.color[n] = BLACK THEN 1 ELSE 0

Balanced(s, S, h, p, e) ==
    /\ h \in [Address -> Nat]
    /\ h[nil] = 0
    /\ \A n \in S, d \in Side : h[n] = h[s.child[d][n]] + Lacks(n, d, p, e) + Blacks(s, n)

\* No red node but x has a red parent.
RedBut(s, S, x) ==
    \A n \in S : s.color[n] = BLACK \/ s.color[s.parent[n]] = BLACK \/ n = x

\* Nodes n and up have exchanged their colors.
Exchanged(s, z, n, up) ==
    /\ z \in Tree /\ Relinked(s, z) /\ z.key = s.key
    /\ z.color[n] = s.color[up] /\ z.color[up] = s.color[n]
    /\ \A x \in Address \ {n, up} : z.color[x] = s.color[x]

\* The node that goes down and the one that comes up exchange their colors,
\* the first being black and the second red: the heights remain.
LEMMA TurnBalanced ==
    ASSUME NEW s \in Tree, NEW S, NEW under, Shape(s, S, under), NEW n \in S, NEW d \in Side,
           NEW up, up = s.child[Other(d)][n], up # nil, s.color[n] = BLACK, s.color[up] = RED,
           NEW y, Exchanged(s, y, n, up), NEW z, Rotated(y, z, S, n, d),
           NEW h, NEW p, NEW e, Balanced(s, S, h, p, e),
           p # up, ~(p = n /\ e = Other(d))
    PROVE  Balanced(z, S, [h EXCEPT ![n] = h[up], ![up] = h[n]], p, e)
  <1> DEFINE o     == Other(d)
             inner == s.child[d][up]
             outer == s.child[o][up]
             low   == s.child[d][n]
             g     == [h EXCEPT ![n] = h[up], ![up] = h[n]]
  <1>1. o \in Side /\ o # d /\ Other(o) = d /\ Side = {d, o}
    BY Sides
  <1>2. /\ up \in S /\ up # n /\ s.parent[up] = n
        /\ inner \in (S \cup {nil}) \ {n, up} /\ outer \in (S \cup {nil}) \ {n, up}
        /\ low \in (S \cup {nil}) \ {n, up}
    <2>1. Family(S, under, s, n, up, inner, outer, low)
      BY Turning
    <2> QED
      BY <2>1 DEF Family
  <1>3. nil \notin S /\ S \subseteq Address /\ nil \in Address
    BY Inside
  <1>4. /\ h \in [Address -> Nat] /\ h[nil] = 0
        /\ \A m \in S, c \in Side : h[m] = h[s.child[c][m]] + Lacks(m, c, p, e) + Blacks(s, m)
    BY DEF Balanced
  <1>5. /\ g \in [Address -> Nat] /\ g[n] = h[up] /\ g[up] = h[n]
        /\ \A x \in Address \ {n, up} : g[x] = h[x]
    BY <1>2, <1>3, <1>4
  <1> HIDE DEF g
  <1>6. /\ \A c \in Side, x \in Address :
              z.child[c][x] = IF x = n THEN (IF c = d THEN low ELSE inner)
                              ELSE IF x = up THEN (IF c = d THEN n ELSE s.child[c][up])
                              ELSE IF x \in S /\ s.child[c][x] = n THEN up
                              ELSE s.child[c][x]
        /\ z.color[n] = RED /\ z.color[up] = BLACK
        /\ \A x \in Address \ {n, up} : z.color[x] = s.color[x]
    BY DEF Rotated, Exchanged, Relinked
  <1> HIDE DEF o, inner, outer, low
  <1>7. /\ Blacks(z, n) = 0 /\ Blacks(z, up) = 1 /\ Blacks(s, n) = 1 /\ Blacks(s, up) = 0
        /\ \A x \in Address \ {n, up} : Blacks(z, x) = Blacks(s, x)
    BY <1>6 DEF Blacks, RED, BLACK
  <1>8. /\ h[n] = h[low] + Lacks(n, d, p, e) + 1
        /\ h[n] = h[up] + 1
        /\ h[up] = h[inner] /\ h[up] = h[outer]
    <2>1. Lacks(n, o, p, e) = 0 /\ Lacks(up, o, p, e) = 0 /\ Lacks(up, d, p, e) = 0
      BY DEF Lacks, o
    <2>2. /\ h[n] = h[s.child[d][n]] + Lacks(n, d, p, e) + Blacks(s, n)
          /\ h[n] = h[s.child[o][n]] + Lacks(n, o, p, e) + Blacks(s, n)
          /\ h[up] = h[s.child[d][up]] + Lacks(up, d, p, e) + Blacks(s, up)
          /\ h[up] = h[s.child[o][up]] + Lacks(up, o, p, e) + Blacks(s, up)
      BY <1>1, <1>2, <1>4
    <2>3. /\ s.child[d][n] = low /\ s.child[o][n] = up
          /\ s.child[d][up] = inner /\ s.child[o][up] = outer
      BY DEF low, inner, outer, o
    <2>4. h[n] \in Nat /\ h[up] \in Nat /\ h[low] \in Nat /\ h[inner] \in Nat /\ h[outer] \in Nat
      BY <1>2, <1>3, <1>4
    <2> QED
      BY <1>7, <2>1, <2>2, <2>3, <2>4
  <1>9. ASSUME NEW m \in S, NEW c \in Side
        PROVE  g[m] = g[z.child[c][m]] + Lacks(m, c, p, e) + Blacks(z, m)
    <2>0. /\ \A x \in Address : h[x] \in Nat /\ g[x] \in Nat
          /\ g[low] = h[low] /\ g[inner] = h[inner] /\ g[outer] = h[outer]
      BY <1>2, <1>3, <1>4, <1>5
    <2>1. CASE m = n
      <3>1. CASE c = d
        <4>1. z.child[c][m] = low /\ Lacks(n, d, p, e) \in Nat
          BY <1>3, <1>6, <2>1, <3>1 DEF Lacks
        <4> QED
          BY <1>2, <1>3, <1>5, <1>7, <1>8, <2>0, <2>1, <3>1, <4>1
      <3>2. CASE c = o
        <4>1. z.child[c][m] = inner /\ Lacks(m, c, p, e) = 0
          BY <1>1, <1>3, <1>6, <2>1, <3>2 DEF Lacks, o
        <4> QED
          BY <1>2, <1>3, <1>5, <1>7, <1>8, <2>0, <2>1, <4>1
      <3> QED
        BY <1>1, <3>1, <3>2
    <2>2. CASE m = up
      <3>1. Lacks(m, c, p, e) = 0
        BY <2>2 DEF Lacks
      <3>2. CASE c = d
        <4>1. z.child[c][m] = n
          BY <1>2, <1>3, <1>6, <2>2, <3>2
        <4> QED
          BY <1>2, <1>3, <1>5, <1>7, <1>8, <2>0, <2>2, <3>1, <4>1
      <3>3. CASE c = o
        <4>1. z.child[c][m] = outer
          BY <1>1, <1>2, <1>3, <1>6, <2>2, <3>3 DEF outer
        <4> QED
          BY <1>2, <1>3, <1>5, <1>7, <1>8, <2>0, <2>2, <3>1, <4>1
      <3> QED
        BY <1>1, <3>2, <3>3
    <2>3. CASE m \notin {n, up}
      <3>1. s.child[c][m] # up /\ s.child[c][m] \in Address
        <4>1. s.child[c][m] # nil => s.parent[s.child[c][m]] = m
          BY DEF Shape, Parted
        <4> QED
          BY <1>2, <1>3, <2>3, <4>1, Inside
      <3>2. g[z.child[c][m]] = h[s.child[c][m]]
        BY <1>2, <1>3, <1>5, <1>6, <2>3, <3>1
      <3> QED
        BY <1>3, <1>4, <1>5, <1>7, <2>3, <3>2
    <2> QED
      BY <2>1, <2>2, <2>3
  <1>10. g[nil] = 0
    BY <1>2, <1>3, <1>4, <1>5
  <1>11. Balanced(z, S, g, p, e)
    BY <1>5, <1>9, <1>10 DEF Balanced
  <1> QED
    BY <1>11 DEF g

\* Two red nodes: the heights remain, too.
LEMMA RedTurnBalanced ==
    ASSUME NEW s \in Tree, NEW S, NEW under, Shape(s, S, under), NEW n \in S, NEW d \in Side,
           NEW up, up = s.child[Other(d)][n], up # nil, s.color[n] = RED, s.color[up] = RED,
           NEW z, Rotated(s, z, S, n, d), NEW h, NEW e, Balanced(s, S, h, nil, e)
    PROVE  Balanced(z, S, h, nil, e)
  <1> DEFINE o     == Other(d)
             inner == s.child[d][up]
             outer == s.child[o][up]
             low   == s.child[d][n]
  <1>1. o \in Side /\ o # d /\ Other(o) = d /\ Side = {d, o}
    BY Sides
  <1>2. /\ up \in S /\ up # n /\ s.parent[up] = n
        /\ inner \in (S \cup {nil}) \ {n, up} /\ outer \in (S \cup {nil}) \ {n, up}
        /\ low \in (S \cup {nil}) \ {n, up}
    <2>1. Family(S, under, s, n, up, inner, outer, low)
      BY Turning
    <2> QED
      BY <2>1 DEF Family
  <1>3. nil \notin S /\ S \subseteq Address /\ nil \in Address
    BY Inside
  <1>4. /\ h \in [Address -> Nat] /\ h[nil] = 0
        /\ \A m \in S, c \in Side : h[m] = h[s.child[c][m]] + Blacks(s, m)
    <2>1. \A m \in S, c \in Side : Lacks(m, c, nil, e) = 0
      BY <1>3 DEF Lacks
    <2>2. \A m \in S, c \in Side : s.child[c][m] \in Address
      BY Inside
    <2>3. /\ h \in [Address -> Nat] /\ h[nil] = 0
          /\ \A m \in S, c \in Side : h[m] = h[s.child[c][m]] + Lacks(m, c, nil, e) + Blacks(s, m)
      BY DEF Balanced
    <2> QED
      BY <2>1, <2>2, <2>3
  <1>5. /\ \A c \in Side, x \in Address :
              z.child[c][x] = IF x = n THEN (IF c = d THEN low ELSE inner)
                              ELSE IF x = up THEN (IF c = d THEN n ELSE s.child[c][up])
                              ELSE IF x \in S /\ s.child[c][x] = n THEN up
                              ELSE s.child[c][x]
        /\ z.color = s.color
    BY DEF Rotated
  <1>6. /\ Blacks(s, n) = 0 /\ Blacks(s, up) = 0
        /\ \A x \in Address : Blacks(z, x) = Blacks(s, x)
    BY <1>5 DEF Blacks, RED, BLACK
  <1>7. /\ s.child[d][n] = low /\ s.child[o][n] = up
        /\ s.child[d][up] = inner /\ s.child[o][up] = outer
    OBVIOUS
  <1> HIDE DEF o, inner, outer, low
  <1>8. /\ h[n] = h[low] /\ h[n] = h[up] /\ h[up] = h[inner] /\ h[up] = h[outer]
    <2>1. /\ h[n] = h[low] + 0 /\ h[n] = h[up] + 0 /\ h[up] = h[inner] + 0 /\ h[up] = h[outer] + 0
      BY <1>1, <1>2, <1>4, <1>6, <1>7
    <2> QED
      BY <1>2, <1>3, <1>4, <2>1
  <1>9. ASSUME NEW m \in S, NEW c \in Side
        PROVE  h[m] = h[z.child[c][m]] + Lacks(m, c, nil, e) + Blacks(z, m)
    <2>0. Lacks(m, c, nil, e) = 0
      BY <1>3 DEF Lacks
    <2>1. CASE m \in {n, up}
      <3>1. h[z.child[c][m]] = h[m] /\ Blacks(z, m) = 0 /\ h[m] \in Nat
        BY <1>1, <1>2, <1>3, <1>4, <1>5, <1>6, <1>7, <1>8, <2>1
      <3> QED
        BY <2>0, <3>1
    <2>2. CASE m \notin {n, up}
      <3>1. h[z.child[c][m]] = h[s.child[c][m]]
        BY <1>3, <1>5, <1>8, <2>2
      <3>2. h[m] = h[s.child[c][m]] + Blacks(s, m) /\ h[s.child[c][m]] \in Nat
        BY <1>4, Inside
      <3> QED
        BY <1>3, <1>6, <2>0, <3>1, <3>2 DEF Blacks
    <2> QED
      BY <2>1, <2>2
  <1> QED
    BY <1>4, <1>9 DEF Balanced

\* The children of a red node are black.
LEMMA RedParent ==
    ASSUME NEW s \in Tree, NEW S, NEW under, Shape(s, S, under), NEW x, RedBut(s, S, x),
           s.color[nil] = BLACK, NEW n \in S, s.color[n] = RED, NEW d \in Side,
           s.child[d][n] # x
    PROVE  s.color[s.child[d][n]] = BLACK
  <1>1. s.child[d][n] = nil \/ (s.child[d][n] \in S /\ s.parent[s.child[d][n]] = n)
    BY DEF Shape, Parted
  <1>2. RED # BLACK
    BY DEF RED, BLACK
  <1> QED
    BY <1>1, <1>2 DEF RedBut

\* The turn leaves no red node with a red parent, if there was one at most
\* below the node that comes up.
LEMMA TurnRed ==
    ASSUME NEW s \in Tree, NEW S, NEW under, Shape(s, S, under), NEW n \in S, NEW d \in Side,
           NEW up, up = s.child[Other(d)][n], up # nil, s.color[n] = BLACK, s.color[up] = RED,
           s.color[s.child[d][n]] = BLACK, s.color[s.child[d][up]] = BLACK,
           \A m \in S : \/ s.color[m] = BLACK \/ s.color[s.parent[m]] = BLACK
                        \/ s.parent[m] = up,
           NEW y, Exchanged(s, y, n, up), NEW z, Rotated(y, z, S, n, d)
    PROVE  RedBut(z, S, nil)
  <1> DEFINE inner == s.child[d][up]
             outer == s.child[Other(d)][up]
             low   == s.child[d][n]
  <1>2. /\ up \in S /\ up # n /\ s.parent[up] = n
        /\ inner \in (S \cup {nil}) \ {n, up} /\ outer \in (S \cup {nil}) \ {n, up}
        /\ low \in (S \cup {nil}) \ {n, up}
    <2>1. Family(S, under, s, n, up, inner, outer, low)
      BY Turning
    <2> QED
      BY <2>1 DEF Family
  <1>3. nil \notin S /\ S \subseteq Address /\ nil \in Address
    BY Inside
  <1>4. /\ z.color[n] = RED /\ z.color[up] = BLACK
        /\ \A x \in Address \ {n, up} : z.color[x] = s.color[x]
        /\ \A x \in Address :
              z.parent[x] = IF x = n THEN up
                            ELSE IF x = up THEN s.parent[n]
                            ELSE IF x = inner /\ x # nil THEN n ELSE s.parent[x]
    BY DEF Rotated, Exchanged, Relinked
  <1> HIDE DEF inner, outer, low
  <1>5. ASSUME NEW m \in S PROVE z.color[m] = BLACK \/ z.color[z.parent[m]] = BLACK
    <2>1. CASE m \in {n, up, inner, low}
      BY <1>2, <1>3, <1>4, <2>1 DEF inner, low
    <2>2. CASE m \notin {n, up, inner, low} /\ s.parent[m] = up
      BY <1>2, <1>3, <1>4, <2>2
    <2>3. CASE m \notin {n, up, inner, low} /\ s.parent[m] # up
      <3>1. s.parent[m] # n
        BY <2>3, ChildOf DEF low
      <3>2. z.parent[m] = s.parent[m] /\ z.color[m] = s.color[m] /\ s.parent[m] \in Address
        BY <1>3, <1>4, <2>3 DEF Tree
      <3> QED
        BY <1>4, <2>3, <3>1, <3>2
    <2> QED
      BY <2>1, <2>2, <2>3
  <1> QED
    BY <1>5 DEF RedBut

\* The last turn of an erasure: the brother up takes the color of the parent n,
\* which goes down to the side that lacks a black, and turns black itself; so
\* does the brother's far child.
Lent(s, z, n, up, outer) ==
    /\ z \in Tree /\ Relinked(s, z) /\ z.key = s.key
    /\ z.color[n] = BLACK /\ z.color[outer] = BLACK /\ z.color[up] = s.color[n]
    /\ \A x \in Address \ {n, up, outer} : z.color[x] = s.color[x]

LEMMA LentBalanced ==
    ASSUME NEW s \in Tree, NEW S, NEW under, Shape(s, S, under), NEW n \in S, NEW d \in Side,
           NEW up, up = s.child[Other(d)][n], up # nil, s.color[up] = BLACK,
           NEW outer, outer = s.child[Other(d)][up], s.color[outer] = RED, outer # nil,
           NEW y, Lent(s, y, n, up, outer), NEW z, Rotated(y, z, S, n, d),
           NEW h, Balanced(s, S, h, n, d), NEW e
    PROVE  Balanced(z, S, [h EXCEPT ![n] = h[up], ![up] = h[n], ![outer] = h[outer] + 1], nil, e)
  <1> DEFINE o     == Other(d)
             inner == s.child[d][up]
             low   == s.child[d][n]
             g     == [h EXCEPT ![n] = h[up], ![up] = h[n], ![outer] = h[outer] + 1]
  <1>1. o \in Side /\ o # d /\ Other(o) = d /\ Side = {d, o}
    BY Sides
  <1>2. /\ up \in S /\ up # n /\ s.parent[up] = n
        /\ inner \in (S \cup {nil}) \ {n, up} /\ outer \in (S \cup {nil}) \ {n, up}
        /\ low \in (S \cup {nil}) \ {n, up}
    <2>1. Family(S, under, s, n, up, inner, outer, low)
      BY Turning
    <2> QED
      BY <2>1 DEF Family
  <1>3. /\ nil \notin S /\ S \subseteq Address /\ nil \in Address
        /\ \A x \in S : x \in under[x]
    BY Inside
  <1>4. /\ h \in [Address -> Nat] /\ h[nil] = 0
        /\ \A m \in S, c \in Side : h[m] = h[s.child[c][m]] + Lacks(m, c, n, d) + Blacks(s, m)
    BY DEF Balanced
  <1>5. outer \in S /\ outer \notin {n, up, low, inner} /\ s.parent[outer] = up
    <2>0. \A m \in S, c \in Side : /\ s.child[c][m] \in S \cup {nil}
                                   /\ s.child[c][m] # nil => s.parent[s.child[c][m]] = m
                                   /\ under[s.child[c][m]] \cap under[s.child[Other(c)][m]] = {}
      BY DEF Shape, Parted
    <2>1. outer \in S /\ s.parent[outer] = up
      BY <1>1, <1>2, <2>0
    <2>2. under[inner] \cap under[outer] = {}
      BY <1>2, <2>0
    <2>3. low # nil => s.parent[low] = n
      <3>1. d \in Side /\ n \in S /\ low = s.child[d][n]
        OBVIOUS
      <3> QED
        BY <2>0, <3>1
    <2>4. outer \in under[outer]
      BY <1>3, <2>1
    <2> QED
      BY <1>2, <1>3, <2>1, <2>2, <2>3, <2>4
  <1>6. /\ g \in [Address -> Nat] /\ g[n] = h[up] /\ g[up] = h[n] /\ g[outer] = h[outer] + 1
        /\ \A x \in Address \ {n, up, outer} : g[x] = h[x]
    <2>1. outer \in Address /\ n \in Address /\ up \in Address
      BY <1>2, <1>3, <1>5
    <2>2. h[outer] + 1 \in Nat /\ h[up] \in Nat /\ h[n] \in Nat
      BY <1>4, <2>1
    <2> QED
      BY <1>2, <1>4, <1>5, <2>1, <2>2
  <1> HIDE DEF g
  <1>7. /\ \A c \in Side, x \in Address :
              z.child[c][x] = IF x = n THEN (IF c = d THEN low ELSE inner)
                              ELSE IF x = up THEN (IF c = d THEN n ELSE s.child[c][up])
                              ELSE IF x \in S /\ s.child[c][x] = n THEN up
                              ELSE s.child[c][x]
        /\ z.color[n] = BLACK /\ z.color[outer] = BLACK /\ z.color[up] = s.color[n]
        /\ \A x \in Address \ {n, up, outer} : z.color[x] = s.color[x]
    BY DEF Rotated, Lent, Relinked
  <1>8. /\ s.child[d][n] = low /\ s.child[o][n] = up
        /\ s.child[d][up] = inner /\ s.child[o][up] = outer
    OBVIOUS
  <1> HIDE DEF o, inner, low
  <1>9. /\ Blacks(z, n) = 1 /\ Blacks(z, up) = Blacks(s, n) /\ Blacks(z, outer) = 1
        /\ Blacks(s, up) = 1 /\ Blacks(s, outer) = 0 /\ Blacks(s, n) \in Nat
        /\ \A x \in Address \ {n, up, outer} : Blacks(z, x) = Blacks(s, x)
    BY <1>7 DEF Blacks, RED, BLACK
  <1>10. /\ h[n] = h[low] + 1 + Blacks(s, n)
         /\ h[n] = h[up] + Blacks(s, n)
         /\ h[up] = h[inner] + 1 /\ h[up] = h[outer] + 1
         /\ h[n] \in Nat /\ h[low] \in Nat /\ h[up] \in Nat /\ h[inner] \in Nat /\ h[outer] \in Nat
    <2>1. /\ Lacks(n, o, n, d) = 0 /\ Lacks(up, o, n, d) = 0 /\ Lacks(up, d, n, d) = 0
          /\ Lacks(n, d, n, d) = 1
      BY <1>1, <1>2 DEF Lacks
    <2>2. /\ h[n] = h[low] + 1 + Blacks(s, n)
          /\ h[n] = h[up] + 0 + Blacks(s, n)
          /\ h[up] = h[inner] + 0 + 1
          /\ h[up] = h[outer] + 0 + 1
      BY <1>1, <1>2, <1>4, <1>8, <1>9, <2>1
    <2>3. h[n] \in Nat /\ h[up] \in Nat /\ h[low] \in Nat /\ h[inner] \in Nat /\ h[outer] \in Nat
      BY <1>2, <1>3, <1>4, <1>5
    <2> QED
      BY <1>9, <2>2, <2>3
  <1>11. ASSUME NEW m \in S, NEW c \in Side
         PROVE  g[m] = g[z.child[c][m]] + Lacks(m, c, nil, e) + Blacks(z, m)
    <2>0. Lacks(m, c, nil, e) = 0
      BY <1>3 DEF Lacks
    <2>a. /\ g[low] = h[low] /\ g[inner] = h[inner]
          /\ \A x \in Address : h[x] \in Nat /\ g[x] \in Nat
      BY <1>2, <1>3, <1>4, <1>5, <1>6
    <2>1. CASE m = n
      <3>1. z.child[c][m] = low \/ z.child[c][m] = inner
        BY <1>3, <1>7, <2>1
      <3>2. g[z.child[c][m]] = h[up] - 1
        <4>1. h[inner] = h[up] - 1 /\ h[low] = h[up] - 1
          BY <1>9, <1>10
        <4> QED
          BY <2>a, <3>1, <4>1
      <3>3. g[m] = h[up] /\ Blacks(z, m) = 1 /\ h[up] \in Nat
        BY <1>6, <1>9, <1>10, <2>1
      <3> QED
        BY <2>0, <3>2, <3>3
    <2>2. CASE m = up
      <3>1. z.child[c][m] = n \/ z.child[c][m] = outer
        BY <1>1, <1>2, <1>3, <1>7, <1>8, <2>2
      <3>2. g[z.child[c][m]] = h[up]
        BY <1>6, <1>10, <3>1
      <3>3. g[m] = h[n] /\ Blacks(z, m) = Blacks(s, n)
        BY <1>6, <1>9, <2>2
      <3>4. h[n] = h[up] + Blacks(s, n) /\ h[up] \in Nat /\ Blacks(s, n) \in Nat
        BY <1>9, <1>10
      <3> QED
        BY <2>0, <3>2, <3>3, <3>4
    <2>3. CASE m = outer
      <3>1. s.child[c][m] \in (S \cup {nil}) \ {n, up, outer}
        <4>0. m \in S /\ c \in Side
          BY <1>5, <2>3
        <4>1. s.child[c][m] # nil => s.parent[s.child[c][m]] = m
          BY <4>0, Below
        <4>2. s.child[c][m] \in S \cup {nil} /\ s.child[c][m] # m
          BY <4>0, Below
        <4>3. s.child[c][m] # n
          <5>0. under[s.child[c][m]] \subseteq under[m]
            BY Inside
          <5>1. under[m] \subseteq under[up]
            <6>1. m = s.child[o][up] /\ o \in Side /\ up \in S
              BY <1>1, <1>2, <1>8, <2>3
            <6> QED
              BY <6>1, Inside
          <5>2. n \in under[n] /\ n \notin under[up]
            BY <1>1, <1>8, Inside
          <5> QED
            BY <5>0, <5>1, <5>2
        <4> QED
          BY <1>2, <1>3, <1>5, <2>3, <4>1, <4>2, <4>3
      <3>2. z.child[c][m] = s.child[c][m]
        BY <1>3, <1>5, <1>7, <2>3, <3>1
      <3>3. h[outer] = h[s.child[c][m]] + 0 + 0
        <4>1. Lacks(m, c, n, d) = 0
          BY <1>5, <2>3 DEF Lacks
        <4> QED
          BY <1>4, <1>9, <2>3, <4>1
      <3>4. g[z.child[c][m]] = h[s.child[c][m]] /\ h[s.child[c][m]] \in Nat
        BY <1>3, <1>6, <2>a, <3>1, <3>2
      <3>5. g[z.child[c][m]] = h[outer]
        BY <3>3, <3>4
      <3>6. g[m] = h[outer] + 1 /\ Blacks(z, m) = 1
        BY <1>6, <1>9, <2>3
      <3> QED
        BY <1>10, <2>0, <3>5, <3>6
    <2>4. CASE m \notin {n, up, outer}
      <3>1. s.child[c][m] \notin {up, outer} /\ s.child[c][m] \in Address
        <4>1. s.child[c][m] # nil => s.parent[s.child[c][m]] = m
          BY DEF Shape, Parted
        <4> QED
          BY <1>2, <1>3, <1>5, <2>4, <4>1, Inside
      <3>2. z.child[c][m] = IF s.child[c][m] = n THEN up ELSE s.child[c][m]
        BY <1>3, <1>7, <2>4
      <3>3. g[z.child[c][m]] = h[s.child[c][m]]
        BY <1>2, <1>3, <1>5, <1>6, <3>1, <3>2
      <3>4. Lacks(m, c, n, d) = 0
        BY <2>4 DEF Lacks
      <3>5. g[m] = h[m] /\ Blacks(z, m) = Blacks(s, m)
        BY <1>3, <1>6, <1>9, <2>4
      <3>6. h[m] = h[s.child[c][m]] + 0 + Blacks(s, m)
        BY <1>4, <3>4
      <3> QED
        BY <2>0, <3>3, <3>5, <3>6
    <2> QED
      BY <2>1, <2>2, <2>3, <2>4
  <1>12. g[nil] = 0
    BY <1>2, <1>3, <1>4, <1>5, <1>6
  <1>13. Balanced(z, S, g, nil, e)
    BY <1>6, <1>11, <1>12 DEF Balanced
  <1> QED
    BY <1>13 DEF g

LEMMA LentRed ==
    ASSUME NEW s \in Tree, NEW S, NEW under, Shape(s, S, under), NEW n \in S, NEW d \in Side,
           NEW up, up = s.child[Other(d)][n], up # nil,
           NEW outer, outer = s.child[Other(d)][up], outer # nil,
           s.color[s.child[d][n]] = BLACK, RedBut(s, S, nil), s.color[nil] = BLACK,
           NEW y, Lent(s, y, n, up, outer), NEW z, Rotated(y, z, S, n, d)
    PROVE  RedBut(z, S, nil)
  <1> DEFINE inner == s.child[d][up]
             low   == s.child[d][n]
  <1>2. /\ up \in S /\ up # n /\ s.parent[up] = n
        /\ inner \in (S \cup {nil}) \ {n, up} /\ outer \in (S \cup {nil}) \ {n, up}
        /\ low \in (S \cup {nil}) \ {n, up}
    <2>1. Family(S, under, s, n, up, inner, outer, low)
      BY Turning
    <2> QED
      BY <2>1 DEF Family
  <1>3. nil \notin S /\ S \subseteq Address /\ nil \in Address
    BY Inside
  <1>4. /\ z.color[n] = BLACK /\ z.color[outer] = BLACK /\ z.color[up] = s.color[n]
        /\ \A x \in Address \ {n, up, outer} : z.color[x] = s.color[x]
        /\ \A x \in Address :
              z.parent[x] = IF x = n THEN up
                            ELSE IF x = up THEN s.parent[n]
                            ELSE IF x = inner /\ x # nil THEN n ELSE s.parent[x]
    BY DEF Rotated, Lent, Relinked
  <1> HIDE DEF inner, low
  <1>5. ASSUME NEW m \in S PROVE z.color[m] = BLACK \/ z.color[z.parent[m]] = BLACK
    <2>0. /\ s.parent[n] \in Address /\ s.parent[m] \in Address
          /\ \A x \in S : s.color[x] = BLACK \/ s.color[s.parent[x]] = BLACK
      BY <1>3 DEF Tree, RedBut
    <2>1. CASE m \in {n, outer, inner}
      BY <1>2, <1>3, <1>4, <2>1
    <2>2. CASE m = up
      <3>1. s.parent[n] # up
        <4>1. s.parent[n] \in under[n] => n = s.root \/ s.parent[n] = n
          BY SideIs, Below, Inside
        <4>2. ASSUME s.parent[n] = up PROVE FALSE
          <5>1. n # s.root
            BY <1>2, <1>3, <4>2 DEF Shape, Rooted
          <5>2. \E c \in Side : s.child[c][up] = n
            BY <4>2, <5>1 DEF Shape, Hung
          <5>3. n \notin under[up]
            BY Sides, Below
          <5>4. n \in under[n] /\ under[n] \subseteq under[up]
            BY <1>2, <5>2, Inside
          <5> QED
            BY <5>3, <5>4
        <4> QED
          BY <4>2
      <3>2. s.parent[n] # n
        <4>1. n # s.root => s.parent[n] # n
          BY SideIs
        <4> QED
          BY <1>3, <4>1 DEF Shape, Rooted
      <3>3. z.color[s.parent[n]] = BLACK \/ z.color[s.parent[n]] = s.color[s.parent[n]]
        BY <1>4, <2>0, <3>1, <3>2
      <3> QED
        BY <1>2, <1>3, <1>4, <2>0, <2>2, <3>3
    <2>3. CASE m \notin {n, up, outer, inner}
      <3>1. s.parent[m] # up
        BY <1>2, <2>3, ChildOf DEF inner
      <3>2. s.parent[m] = n => m = low
        BY <2>3, ChildOf DEF low
      <3>3. z.parent[m] = s.parent[m] /\ z.color[m] = s.color[m]
        BY <1>3, <1>4, <2>3
      <3>4. CASE m = low
        BY <3>3, <3>4 DEF low
      <3>5. CASE m # low
        <4>1. s.parent[m] # n /\ s.parent[m] # up
          BY <3>1, <3>2, <3>5
        <4>2. z.color[s.parent[m]] = BLACK \/ z.color[s.parent[m]] = s.color[s.parent[m]]
          BY <1>4, <2>0, <4>1
        <4> QED
          BY <2>0, <3>3, <4>2
      <3> QED
        BY <3>4, <3>5
    <2> QED
      BY <2>1, <2>2, <2>3
  <1> QED
    BY <1>5 DEF RedBut

-----------------------------------------------------------------------------
(* Heights and red nodes when a node is taken out, replaced or linked.     *)
\* A node is a child on one side only.
LEMMA OneSide ==
    ASSUME NEW s \in Tree, NEW S, NEW under, Shape(s, S, under), NEW n \in S, NEW d \in Side,
           NEW e \in Side, s.child[d][n] = s.child[e][n], s.child[d][n] # nil
    PROVE  d = e
  <1>1. SUFFICES ASSUME d # e PROVE FALSE
    OBVIOUS
  <1>2. e = Other(d)
    BY <1>1, Sides
  <1>3. s.child[d][n] \in S /\ under[s.child[d][n]] \cap under[s.child[e][n]] = {}
    BY <1>2 DEF Shape, Parted
  <1>4. s.child[d][n] \in under[s.child[d][n]]
    BY <1>3, Inside
  <1> QED
    BY <1>3, <1>4

LEMMA ExciseBalanced ==
    ASSUME NEW s \in Tree, NEW S, NEW under, Shape(s, S, under), NEW r \in S,
           NEW d \in Side, s.child[d][r] = nil, NEW c, c = s.child[Other(d)][r],
           NEW z, Excised(s, z, S, r, c), NEW h, NEW e, Balanced(s, S, h, nil, e)
    PROVE  /\ s.color[r] = RED => Balanced(z, S \ {r}, h, nil, e)
           /\ r = s.root => Balanced(z, S \ {r}, h, nil, e)
           /\ \A f \in Side :
                 s.color[r] = BLACK /\ r # s.root /\ s.child[f][s.parent[r]] = r
                    => Balanced(z, S \ {r}, h, s.parent[r], f)
  <1>1. /\ nil \notin S /\ S \subseteq Address /\ Other(d) \in Side
        /\ RED # BLACK
    BY Inside, Sides DEF RED, BLACK
  <1>2. h \in [Address -> Nat] /\ h[nil] = 0 /\ h[r] = h[c] + Blacks(s, r)
    <2>1. h \in [Address -> Nat] /\ h[nil] = 0
      BY DEF Balanced
    <2>2. h[r] = h[c] + Lacks(r, Other(d), nil, e) + Blacks(s, r)
      BY <1>1 DEF Balanced
    <2>3. Lacks(r, Other(d), nil, e) = 0
      BY <1>1 DEF Lacks
    <2>4. h[c] \in Nat /\ Blacks(s, r) \in Nat
      BY <1>1, <2>1 DEF Tree, Blacks
    <2> QED
      BY <2>1, <2>2, <2>3, <2>4
  <1>3. ASSUME NEW n \in S \ {r}, NEW f \in Side
        PROVE  /\ Blacks(z, n) = Blacks(s, n) /\ Blacks(s, n) \in Nat
               /\ h[n] = h[s.child[f][n]] + Blacks(s, n)
               /\ h[s.child[f][n]] \in Nat /\ h[c] \in Nat /\ h[n] \in Nat
               /\ z.child[f][n] = IF s.child[f][n] = r THEN c ELSE s.child[f][n]
               /\ s.child[f][n] = r => s.parent[r] = n /\ r # s.root
    <2>1. Blacks(z, n) = Blacks(s, n) /\ Blacks(s, n) \in Nat
      BY DEF Excised, Blacks
    <2>2. h[s.child[f][n]] \in Nat /\ h[c] \in Nat /\ h[n] \in Nat
      BY <1>1, <1>2 DEF Tree
    <2>3. h[n] = h[s.child[f][n]] + Blacks(s, n)
      <3>1. h[n] = h[s.child[f][n]] + Lacks(n, f, nil, e) + Blacks(s, n)
        BY DEF Balanced
      <3>2. Lacks(n, f, nil, e) = 0
        BY <1>1 DEF Lacks
      <3> QED
        BY <2>1, <2>2, <3>1, <3>2
    <2>4. z.child[f][n] = IF s.child[f][n] = r THEN c ELSE s.child[f][n]
      BY <1>1 DEF Excised
    <2>5. s.child[f][n] = r => s.parent[r] = n /\ r # s.root
      BY <1>1 DEF Shape, Parted, Rooted
    <2> QED
      BY <2>1, <2>2, <2>3, <2>4, <2>5
  <1>4. ASSUME s.color[r] = RED \/ r = s.root
        PROVE  Balanced(z, S \ {r}, h, nil, e)
    <2>1. ASSUME NEW n \in S \ {r}, NEW f \in Side
          PROVE  h[n] = h[z.child[f][n]] + Lacks(n, f, nil, e) + Blacks(z, n)
      <3>1. Lacks(n, f, nil, e) = 0
        BY <1>1 DEF Lacks
      <3>2. CASE s.child[f][n] = r
        <4>1. Blacks(s, r) = 0
          BY <1>1, <1>3, <1>4, <3>2 DEF Blacks
        <4> QED
          BY <1>2, <1>3, <3>1, <3>2, <4>1
      <3> QED
        BY <1>3, <3>1, <3>2
    <2> QED
      BY <1>2, <2>1 DEF Balanced
  <1>5. ASSUME NEW f \in Side, s.color[r] = BLACK, r # s.root, s.child[f][s.parent[r]] = r
        PROVE  Balanced(z, S \ {r}, h, s.parent[r], f)
    <2>1. ASSUME NEW n \in S \ {r}, NEW g \in Side
          PROVE  h[n] = h[z.child[g][n]] + Lacks(n, g, s.parent[r], f) + Blacks(z, n)
      <3>1. CASE s.child[g][n] = r
        <4>1. s.parent[r] = n /\ g = f
          BY <1>1, <1>3, <1>5, <3>1, OneSide
        <4>2. Lacks(n, g, s.parent[r], f) = 1 /\ Blacks(s, r) = 1
          BY <1>5, <4>1 DEF Lacks, Blacks
        <4> QED
          BY <1>2, <1>3, <3>1, <4>2
      <3>2. CASE s.child[g][n] # r
        <4>1. Lacks(n, g, s.parent[r], f) = 0
          BY <1>5, <3>2 DEF Lacks
        <4> QED
          BY <1>3, <3>2, <4>1
      <3> QED
        BY <3>1, <3>2
    <2> QED
      BY <1>2, <2>1 DEF Balanced
  <1> QED
    BY <1>4, <1>5

LEMMA ExciseRed ==
    ASSUME NEW s \in Tree, NEW S, NEW under, Shape(s, S, under), NEW r \in S,
           NEW d \in Side, s.child[d][r] = nil, NEW c, c = s.child[Other(d)][r],
           NEW z, Excised(s, z, S, r, c), RedBut(s, S, nil), s.color[nil] = BLACK
    PROVE  /\ RedBut(z, S \ {r}, c)
           /\ s.color[r] = RED => RedBut(z, S \ {r}, nil)
  <1>1. nil \notin S /\ S \subseteq Address
    BY Inside
  <1>2. ASSUME NEW x \in S \ {r}, x # c
        PROVE  z.color[x] = BLACK \/ z.color[z.parent[x]] = BLACK
    <2>1. z.color = s.color /\ z.parent[x] = s.parent[x]
      BY <1>1, <1>2 DEF Excised
    <2> QED
      BY <1>1, <2>1 DEF RedBut
  <1>3. ASSUME s.color[r] = RED PROVE z.color[c] = BLACK
    <2>1. c = nil \/ (c \in S /\ s.parent[c] = r)
      BY Sides DEF Shape, Parted
    <2>2. z.color = s.color /\ RED # BLACK
      BY DEF Excised, RED, BLACK
    <2> QED
      BY <1>1, <1>3, <2>1, <2>2 DEF RedBut
  <1> QED
    BY <1>2, <1>3 DEF RedBut

LEMMA RenameBalanced ==
    ASSUME NEW s \in Tree, NEW S, NEW under, Shape(s, S, under), NEW p \in S,
           NEW r \in Node \ S, NEW z, Renamed(s, z, S, p, r),
           z.color[r] = s.color[p], \A x \in S \ {p} : z.color[x] = s.color[x],
           NEW h, NEW q, NEW f, q # r, Balanced(s, S, h, q, f)
    PROVE  Balanced(z, (S \ {p}) \cup {r}, [h EXCEPT ![r] = h[p]], Named(q, p, r), f)
  <1> DEFINE g == [h EXCEPT ![r] = h[p]]
  <1>1. nil \notin S /\ S \subseteq Address /\ r \in Address /\ r # nil /\ r \notin S
    BY Inside, KeyAssumption DEF Address
  <1>2. h \in [Address -> Nat] /\ h[nil] = 0
    BY DEF Balanced
  <1>3. /\ g \in [Address -> Nat] /\ g[r] = h[p] /\ \A x \in Address : x # r => g[x] = h[x]
    BY <1>1, <1>2
  <1> HIDE DEF g
  <1>4. ASSUME NEW x \in S, NEW d \in Side
        PROVE  /\ g[Named(s.child[d][x], p, r)] = h[s.child[d][x]]
               /\ h[x] = h[s.child[d][x]] + Lacks(x, d, q, f) + Blacks(s, x)
    <2>1. s.child[d][x] \in S \cup {nil}
      BY DEF Shape, Parted
    <2>2. g[Named(s.child[d][x], p, r)] = h[s.child[d][x]]
      <3>1. CASE s.child[d][x] = p
        BY <1>3, <3>1 DEF Named
      <3>2. CASE s.child[d][x] # p
        <4>1. s.child[d][x] \in Address /\ s.child[d][x] # r
          BY <1>1, <2>1 DEF Address
        <4> QED
          BY <1>3, <3>2, <4>1 DEF Named
      <3> QED
        BY <3>1, <3>2
    <2> QED
      BY <2>2 DEF Balanced
  <1>5. ASSUME NEW n \in (S \ {p}) \cup {r}, NEW d \in Side
        PROVE  g[n] = g[z.child[d][n]] + Lacks(n, d, Named(q, p, r), f) + Blacks(z, n)
    <2>1. CASE n = r
      <3>1. z.child[d][n] = s.child[d][p] /\ s.child[d][p] # p
        BY <2>1, Inside DEF Renamed
      <3>2. g[s.child[d][p]] = h[s.child[d][p]]
        BY <1>4, <3>1 DEF Named
      <3>3. Blacks(z, n) = Blacks(s, p) /\ Lacks(n, d, Named(q, p, r), f) = Lacks(p, d, q, f)
        BY <2>1 DEF Blacks, Lacks, Named
      <3> QED
        BY <1>3, <1>4, <2>1, <3>1, <3>2, <3>3
    <2>2. CASE n # r
      <3>1. n \in S \ {p}
        BY <2>2
      <3>2. z.child[d][n] = Named(s.child[d][n], p, r)
        BY <3>1 DEF Renamed
      <3>3. Blacks(z, n) = Blacks(s, n) /\ Lacks(n, d, Named(q, p, r), f) = Lacks(n, d, q, f)
        BY <2>2, <3>1 DEF Blacks, Lacks, Named
      <3>4. g[n] = h[n]
        BY <1>1, <1>3, <3>1
      <3> QED
        BY <1>4, <3>1, <3>2, <3>3, <3>4
    <2> QED
      BY <2>1, <2>2
  <1>6. Balanced(z, (S \ {p}) \cup {r}, g, Named(q, p, r), f)
    <2>1. g[nil] = 0
      BY <1>1, <1>2, <1>3 DEF Address
    <2> QED
      BY <1>3, <1>5, <2>1 DEF Balanced
  <1> QED
    BY <1>6 DEF g

LEMMA RenameRed ==
    ASSUME NEW s \in Tree, NEW S, NEW under, Shape(s, S, under), NEW p \in S,
           NEW r \in Node \ S, NEW z, Renamed(s, z, S, p, r), z.color[nil] = BLACK,
           z.color[r] = s.color[p], \A x \in S \ {p} : z.color[x] = s.color[x],
           NEW c, c # p, RedBut(s, S, c)
    PROVE  RedBut(z, (S \ {p}) \cup {r}, c)
  <1>1. /\ nil \notin S /\ r # nil /\ nil # p
        /\ s.parent[s.root] = nil \/ s.root = nil
        /\ \A n \in S : n = s.root \/ s.parent[n] \in S
    BY Inside, KeyAssumption DEF Shape, Rooted, Hung
  <1>2. \A x \in S : z.color[Named(s.parent[x], p, r)] = s.color[s.parent[x]] \/ x = s.root
    BY <1>1 DEF Named
  <1>3. s.root \in S => z.color[Named(s.parent[s.root], p, r)] = BLACK
    BY <1>1 DEF Named
  <1>4. ASSUME NEW n \in (S \ {p}) \cup {r}, n # c
        PROVE  z.color[n] = BLACK \/ z.color[z.parent[n]] = BLACK
    <2>1. CASE n = r
      <3>1. z.parent[n] = s.parent[p] /\ s.parent[p] # p
        <4>1. s.parent[p] # p
          BY <1>1, Inside DEF Shape, Hung
        <4> QED
          BY <2>1, <4>1 DEF Renamed
      <3>2. Named(s.parent[p], p, r) = s.parent[p]
        BY <3>1 DEF Named
      <3> QED
        BY <1>2, <1>3, <2>1, <3>1, <3>2 DEF RedBut
    <2>2. CASE n # r
      <3>1. n \in S /\ z.parent[n] = Named(s.parent[n], p, r) /\ z.color[n] = s.color[n]
        BY <2>2 DEF Renamed
      <3> QED
        BY <1>2, <1>3, <1>4, <3>1 DEF RedBut
    <2> QED
      BY <2>1, <2>2
  <1> QED
    BY <1>4 DEF RedBut

LEMMA HookBalanced ==
    ASSUME NEW s \in Tree, NEW S, NEW under, Shape(s, S, under), NEW r \in Node \ S,
           NEW p \in S \cup {nil}, NEW d \in Side, p # nil => s.child[d][p] = nil,
           \A x \in Side : s.child[x][r] = nil,
           NEW z, Hooked(s, z, r, p, d), z.color = s.color, s.color[r] = RED,
           NEW h, NEW e, Balanced(s, S, h, nil, e)
    PROVE  Balanced(z, S \cup {r}, [h EXCEPT ![r] = 0], nil, e)
  <1> DEFINE g == [h EXCEPT ![r] = 0]
  <1>1. /\ nil \notin S /\ S \subseteq Address /\ r \in Address /\ r # nil /\ r \notin S /\ p # r
        /\ RED # BLACK
    BY Inside, KeyAssumption DEF Address, RED, BLACK
  <1>2. h \in [Address -> Nat] /\ h[nil] = 0
    BY DEF Balanced
  <1>3. g \in [Address -> Nat] /\ g[r] = 0 /\ \A x \in Address : x # r => g[x] = h[x]
    BY <1>1, <1>2
  <1> HIDE DEF g
  <1>4. ASSUME NEW n \in S \cup {r}, NEW f \in Side
        PROVE  g[n] = g[z.child[f][n]] + Lacks(n, f, nil, e) + Blacks(z, n)
    <2>1. Lacks(n, f, nil, e) = 0
      BY <1>1 DEF Lacks
    <2>2. CASE n = r
      <3>1. z.child[f][n] = nil /\ nil \in Address
        BY <1>1, <2>2 DEF Hooked, Address
      <3>2. Blacks(z, n) = 0
        BY <1>1, <2>2 DEF Blacks
      <3> QED
        BY <1>1, <1>2, <1>3, <2>1, <2>2, <3>1, <3>2
    <2>3. CASE n \in S
      <3> DEFINE m == s.child[f][n]
      <3>1. /\ h[n] = h[m] + Lacks(n, f, nil, e) + Blacks(s, n)
            /\ Blacks(z, n) = Blacks(s, n) /\ m \in S \cup {nil}
        BY <2>3 DEF Balanced, Blacks, Shape, Parted
      <3>2. g[n] = h[n] /\ g[m] = h[m] /\ g[nil] = 0
        <4>1. n \in Address /\ n # r /\ m \in Address /\ m # r /\ nil \in Address
          BY <1>1, <2>3, <3>1 DEF Address
        <4> HIDE DEF m
        <4> QED
          BY <1>1, <1>2, <1>3, <4>1
      <3>3. CASE n = p /\ f = d
        <4>1. z.child[f][n] = r /\ m = nil
          BY <1>1, <2>3, <3>3 DEF Hooked
        <4> HIDE DEF m
        <4> QED
          BY <1>2, <1>3, <3>1, <3>2, <4>1
      <3>4. CASE ~(n = p /\ f = d)
        <4>1. z.child[f][n] = m
          BY <1>1, <2>3, <3>4 DEF Hooked
        <4> HIDE DEF m
        <4> QED
          BY <3>1, <3>2, <4>1
      <3> QED
        BY <3>3, <3>4
    <2> QED
      BY <2>2, <2>3
  <1>5. Balanced(z, S \cup {r}, g, nil, e)
    <2>1. g[nil] = 0
      BY <1>1, <1>2, <1>3 DEF Address
    <2> QED
      BY <1>3, <1>4, <2>1 DEF Balanced
  <1> QED
    BY <1>5 DEF g

LEMMA HookRed ==
    ASSUME NEW s \in Tree, NEW S, NEW under, Shape(s, S, under), NEW r \in Node \ S,
           NEW p, NEW d, NEW z, Hooked(s, z, r, p, d), z.color = s.color, RedBut(s, S, nil)
    PROVE  RedBut(z, S \cup {r}, r)
  <1>1. nil \notin S /\ S \subseteq Address
    BY Inside
  <1>2. ASSUME NEW n \in S \cup {r}, n # r
        PROVE  z.color[n] = BLACK \/ z.color[z.parent[n]] = BLACK
    <2>1. n \in S /\ z.parent[n] = s.parent[n]
      BY <1>1, <1>2 DEF Hooked
    <2> QED
      BY <1>1, <2>1 DEF RedBut
  <1> QED
    BY <1>2 DEF RedBut

\* Tree z is s with node r painted.
Repainted(s, z, r, c) ==
    /\ z \in Tree /\ Relinked(s, z) /\ z.color[r] = c
    /\ \A x \in Address \ {r} : z.color[x] = s.color[x]

\* The root is painted black.
LEMMA RootBalanced ==
    ASSUME NEW s \in Tree, NEW S, NEW under, Shape(s, S, under),
           NEW z, Repainted(s, z, s.root, BLACK), NEW h, NEW e, Balanced(s, S, h, nil, e)
    PROVE  \E g : Balanced(z, S, g, nil, e)
  <1> DEFINE r == s.root
             k == IF s.color[r] = BLACK THEN h[r] ELSE h[r] + 1
             g == [h EXCEPT ![r] = k]
  <1>1. /\ nil \notin S /\ S \subseteq Address /\ r \in Address /\ r \in S \cup {nil}
        /\ h \in [Address -> Nat] /\ h[nil] = 0
    BY Inside DEF Tree, Shape, Rooted, Balanced
  <1>2. CASE r = nil
    <2>1. S = {}
      BY <1>2 DEF Shape, Rooted
    <2> QED
      BY <1>1, <2>1 DEF Balanced
  <1>3. CASE r # nil
    <2>1. r \in S /\ k \in Nat /\ g \in [Address -> Nat] /\ g[r] = k
          /\ \A x \in Address : x # r => g[x] = h[x]
      BY <1>1, <1>3
    <2>2. \A n \in S, f \in Side : s.child[f][n] # r /\ s.child[f][n] \in Address
      <3>1. \A n \in S, f \in Side : s.child[f][n] # nil => s.parent[s.child[f][n]] = n
        BY DEF Shape, Parted
      <3>2. s.parent[r] = nil
        BY <1>3 DEF Shape, Rooted
      <3>3. \A n \in S, f \in Side : s.child[f][n] \in Address
        BY Inside
      <3> QED
        BY <1>1, <1>3, <3>1, <3>2, <3>3
    <2> HIDE DEF g
    <2>3. ASSUME NEW n \in S, NEW f \in Side
          PROVE  g[n] = g[z.child[f][n]] + Lacks(n, f, nil, e) + Blacks(z, n)
      <3>1. /\ h[n] = h[s.child[f][n]] + Lacks(n, f, nil, e) + Blacks(s, n)
            /\ z.child[f][n] = s.child[f][n] /\ g[s.child[f][n]] = h[s.child[f][n]]
            /\ h[s.child[f][n]] \in Nat /\ n \in Address
        BY <1>1, <2>1, <2>2 DEF Balanced, Repainted, Relinked
      <3>2. Lacks(n, f, nil, e) = 0
        BY <1>1 DEF Lacks
      <3>3. CASE n = r
        <4>1. Blacks(z, n) = 1 /\ g[n] = k
          BY <2>1, <3>3 DEF Repainted, Blacks
        <4>2. k = h[s.child[f][n]] + 1
          BY <3>1, <3>2, <3>3 DEF Blacks
        <4> HIDE DEF k
        <4> QED
          BY <3>1, <3>2, <4>1, <4>2
      <3>4. CASE n # r
        <4>1. Blacks(z, n) = Blacks(s, n) /\ g[n] = h[n]
          BY <2>1, <3>1, <3>4 DEF Repainted, Blacks
        <4> QED
          BY <3>1, <3>2, <4>1
      <3> QED
        BY <3>3, <3>4
    <2>4. g[nil] = 0
      BY <1>1, <1>3, <2>1 DEF Address
    <2>5. Balanced(z, S, g, nil, e)
      <3> HIDE DEF k
      <3> QED
        BY <2>1, <2>3, <2>4 DEF Balanced
    <2> QED
      BY <2>5
  <1> QED
    BY <1>2, <1>3

\* The red node where a black is lacking is painted black.
LEMMA OwedBalanced ==
    ASSUME NEW s \in Tree, NEW S, NEW under, Shape(s, S, under), NEW p \in S, NEW d \in Side,
           NEW c \in S, c = s.child[d][p], s.color[c] = RED,
           NEW z, Repainted(s, z, c, BLACK), NEW h, Balanced(s, S, h, p, d), NEW e
    PROVE  Balanced(z, S, [h EXCEPT ![c] = h[c] + 1], nil, e)
  <1> DEFINE g == [h EXCEPT ![c] = h[c] + 1]
  <1>1. /\ nil \notin S /\ S \subseteq Address /\ RED # BLACK
        /\ h \in [Address -> Nat] /\ h[nil] = 0
    BY Inside DEF Balanced, RED, BLACK
  <1>2. /\ g \in [Address -> Nat] /\ g[c] = h[c] + 1 /\ \A x \in Address : x # c => g[x] = h[x]
    BY <1>1
  <1> HIDE DEF g
  <1>3. ASSUME NEW n \in S, NEW f \in Side
        PROVE  g[n] = g[z.child[f][n]] + Lacks(n, f, nil, e) + Blacks(z, n)
    <2> DEFINE m == s.child[f][n]
    <2>1. /\ h[n] = h[m] + Lacks(n, f, p, d) + Blacks(s, n)
          /\ z.child[f][n] = m /\ m \in Address /\ n \in Address /\ m # n
          /\ h[m] \in Nat /\ h[n] \in Nat
      BY <1>1, Inside DEF Balanced, Repainted, Relinked
    <2>2. Lacks(n, f, nil, e) = 0
      BY <1>1 DEF Lacks
    <2>3. Lacks(n, f, p, d) = IF m = c THEN 1 ELSE 0
      <3>1. m = c => n = p /\ f = d
        <4>1. m = c => s.parent[c] = n
          BY <1>1 DEF Shape, Parted
        <4>2. s.parent[c] = p
          BY <1>1 DEF Shape, Parted
        <4> QED
          BY <1>1, <4>1, <4>2, OneSide
      <3>2. n = p /\ f = d => m = c
        OBVIOUS
      <3> QED
        BY <3>1, <3>2 DEF Lacks
    <2>4. Blacks(s, n) = IF n = c THEN 0 ELSE Blacks(z, n)
      BY <1>1, <2>1 DEF Blacks, Repainted
    <2>5. Blacks(z, n) = IF n = c THEN 1 ELSE Blacks(s, n)
      BY <1>1, <2>1 DEF Blacks, Repainted
    <2>6. Blacks(s, n) \in Nat
      BY DEF Blacks
    <2> HIDE DEF m
    <2> QED
      BY <1>2, <2>1, <2>2, <2>3, <2>4, <2>5, <2>6
  <1>4. Balanced(z, S, g, nil, e)
    <2>1. g[nil] = 0
      BY <1>1, <1>2 DEF Address
    <2> QED
      BY <1>2, <1>3, <2>1 DEF Balanced
  <1> QED
    BY <1>4 DEF g

\* After a node is painted black, neither it nor its children make a red pair.
LEMMA BlackenRed ==
    ASSUME NEW s \in Tree, NEW S \in SUBSET Address, NEW c,
           NEW z, Repainted(s, z, c, BLACK), NEW x,
           \A n \in S : \/ s.color[n] = BLACK \/ s.color[s.parent[n]] = BLACK
                        \/ n = x \/ n = c \/ s.parent[n] = c
    PROVE  RedBut(z, S, x)
  <1>1. \A y \in Address : s.color[y] = BLACK \/ y = c => z.color[y] = BLACK
    BY DEF Repainted
  <1>2. \A n \in S : n \in Address /\ s.parent[n] \in Address /\ z.parent[n] = s.parent[n]
    BY DEF Tree, Repainted, Relinked
  <1> QED
    BY <1>1, <1>2 DEF RedBut

\* Two red children of a black node g take its black.
Passed(s, z, g, a, b) ==
    /\ z \in Tree /\ Relinked(s, z)
    /\ z.color[g] = RED /\ z.color[a] = BLACK /\ z.color[b] = BLACK
    /\ \A x \in Address \ {g, a, b} : z.color[x] = s.color[x]

LEMMA PassBalanced ==
    ASSUME NEW s \in Tree, NEW S, NEW under, Shape(s, S, under), NEW g \in S, NEW d \in Side,
           NEW a \in S, a = s.child[d][g], NEW b \in S, b = s.child[Other(d)][g],
           s.color[g] = BLACK, s.color[a] = RED, s.color[b] = RED,
           NEW z, Passed(s, z, g, a, b), NEW h, NEW e, Balanced(s, S, h, nil, e)
    PROVE  Balanced(z, S, [h EXCEPT ![a] = h[a] + 1, ![b] = h[b] + 1], nil, e)
  <1> DEFINE k == [h EXCEPT ![a] = h[a] + 1, ![b] = h[b] + 1]
  <1>1. /\ nil \notin S /\ S \subseteq Address /\ RED # BLACK /\ a # b /\ a # g /\ b # g
        /\ h \in [Address -> Nat] /\ h[nil] = 0 /\ Other(d) \in Side /\ Side = {d, Other(d)}
        /\ s.parent[a] = g /\ s.parent[b] = g
    <2>1. /\ nil \notin S /\ S \subseteq Address /\ Other(d) \in Side /\ Side = {d, Other(d)}
          /\ RED # BLACK /\ a # g /\ b # g
      BY Inside, Sides DEF RED, BLACK
    <2>2. a # b
      BY <2>1, OneSide, Sides
    <2>3. s.parent[a] = g /\ s.parent[b] = g
      BY <2>1 DEF Shape, Parted
    <2> QED
      BY <2>1, <2>2, <2>3 DEF Balanced
  <1>2. /\ k \in [Address -> Nat] /\ k[a] = h[a] + 1 /\ k[b] = h[b] + 1
        /\ \A x \in Address \ {a, b} : k[x] = h[x]
    BY <1>1
  <1> HIDE DEF k
  <1>3. ASSUME NEW n \in S, NEW f \in Side
        PROVE  k[n] = k[z.child[f][n]] + Lacks(n, f, nil, e) + Blacks(z, n)
    <2> DEFINE m == s.child[f][n]
    <2>1. /\ h[n] = h[m] + Lacks(n, f, nil, e) + Blacks(s, n)
          /\ z.child[f][n] = m /\ m \in Address /\ n \in Address
          /\ h[m] \in Nat /\ h[n] \in Nat
      BY <1>1, Inside DEF Balanced, Passed, Relinked
    <2>2. Lacks(n, f, nil, e) = 0
      BY <1>1 DEF Lacks
    <2>3. m \in {a, b} <=> n = g
      <3>1. m \in {a, b} => s.parent[m] = n
        BY <1>1 DEF Shape, Parted
      <3>2. n = g => m \in {a, b}
        BY <1>1
      <3> QED
        BY <1>1, <3>1, <3>2
    <2> HIDE DEF m
    <2>4. CASE n = g
      <3>1. Blacks(s, n) = 1 /\ Blacks(z, n) = 0
        BY <1>1, <2>4 DEF Blacks, Passed
      <3>2. k[n] = h[n] /\ k[m] = h[m] + 1
        BY <1>1, <1>2, <2>1, <2>3, <2>4
      <3> QED
        BY <2>1, <2>2, <3>1, <3>2
    <2>5. CASE n \in {a, b}
      <3>1. Blacks(s, n) = 0 /\ Blacks(z, n) = 1
        BY <1>1, <2>5 DEF Blacks, Passed
      <3>2. k[n] = h[n] + 1 /\ k[m] = h[m]
        BY <1>1, <1>2, <2>1, <2>3, <2>5
      <3> QED
        BY <2>1, <2>2, <3>1, <3>2
    <2>6. CASE n \notin {g, a, b}
      <3>1. Blacks(s, n) = Blacks(z, n) /\ Blacks(z, n) \in Nat
        BY <1>1, <2>1, <2>6 DEF Blacks, Passed
      <3>2. k[n] = h[n] /\ k[m] = h[m]
        BY <1>1, <1>2, <2>1, <2>3, <2>6
      <3> QED
        BY <2>1, <2>2, <3>1, <3>2
    <2> QED
      BY <2>4, <2>5, <2>6
  <1>4. Balanced(z, S, k, nil, e)
    <2>1. k[nil] = 0
      BY <1>1, <1>2 DEF Address
    <2> QED
      BY <1>2, <1>3, <2>1 DEF Balanced
  <1> QED
    BY <1>4 DEF k

LEMMA PassRed ==
    ASSUME NEW s \in Tree, NEW S, NEW under, Shape(s, S, under), NEW g \in S, NEW d \in Side,
           NEW a \in S, a = s.child[d][g], NEW b \in S, b = s.child[Other(d)][g],
           NEW z, Passed(s, z, g, a, b), NEW x, x \in S => s.parent[x] \in {a, b}, RedBut(s, S, x)
    PROVE  RedBut(z, S, g)
  <1>1. nil \notin S /\ S \subseteq Address /\ \A n \in S : s.parent[n] \in Address
    BY Inside DEF Tree
  <1>2. ASSUME NEW n \in S, n # g
        PROVE  z.color[n] = BLACK \/ z.color[z.parent[n]] = BLACK
    <2>1. CASE n \in {a, b}
      BY <2>1 DEF Passed
    <2>2. CASE n \notin {a, b}
      <3>1. z.color[n] = s.color[n] /\ z.parent[n] = s.parent[n] /\ s.parent[n] # g
        <4>1. z.color[n] = s.color[n] /\ z.parent[n] = s.parent[n]
          BY <1>1, <1>2, <2>2 DEF Passed, Relinked
        <4>2. s.parent[n] # g
          BY <2>2, ChildOf
        <4> QED
          BY <4>1, <4>2
      <3>2. s.color[s.parent[n]] = BLACK => z.color[s.parent[n]] = BLACK
        BY <1>1, <3>1 DEF Passed
      <3>3. s.parent[n] \in {a, b} => z.color[s.parent[n]] = BLACK
        BY DEF Passed
      <3> QED
        BY <3>1, <3>2, <3>3 DEF RedBut
    <2> QED
      BY <2>1, <2>2
  <1> QED
    BY <1>2 DEF RedBut

\* The black brother b of the side that lacks a black gives up its own: now one
\* is lacking above their parent p.
LEMMA SinkBalanced ==
    ASSUME NEW s \in Tree, NEW S, NEW under, Shape(s, S, under), NEW p \in S, NEW d \in Side,
           NEW b \in S, b = s.child[Other(d)][p], s.color[b] = BLACK,
           NEW z, Repainted(s, z, b, RED), NEW h, Balanced(s, S, h, p, d)
    PROVE  \E g : /\ p = s.root => Balanced(z, S, g, nil, "left")
                  /\ \A f \in Side : p # s.root /\ s.child[f][s.parent[p]] = p
                        => Balanced(z, S, g, s.parent[p], f)
  <1> DEFINE g == [h EXCEPT ![b] = h[b] - 1, ![p] = h[p] - 1]
  <1>1. /\ nil \notin S /\ S \subseteq Address /\ RED # BLACK /\ b # p
        /\ h \in [Address -> Nat] /\ h[nil] = 0 /\ Other(d) \in Side /\ Other(d) # d
        /\ Side = {d, Other(d)} /\ s.parent[b] = p
    <2>1. /\ nil \notin S /\ S \subseteq Address /\ Other(d) \in Side /\ Other(d) # d
          /\ Side = {d, Other(d)} /\ RED # BLACK /\ b # p
      BY Inside, Sides DEF RED, BLACK
    <2>2. s.parent[b] = p
      BY <2>1 DEF Shape, Parted
    <2> QED
      BY <2>1, <2>2 DEF Balanced
  <1>2. \A n \in S, f \in Side : /\ h[n] = h[s.child[f][n]] + Lacks(n, f, p, d) + Blacks(s, n)
                                 /\ h[n] \in Nat /\ h[s.child[f][n]] \in Nat
                                 /\ s.child[f][n] \in Address
    BY <1>1, Inside DEF Balanced
  <1>3. h[b] - 1 \in Nat /\ h[p] - 1 \in Nat
    <2>1. h[b] = h[s.child[d][b]] + Lacks(b, d, p, d) + Blacks(s, b) /\ Blacks(s, b) = 1
          /\ Lacks(b, d, p, d) = 0
      BY <1>1, <1>2 DEF Blacks, Lacks
    <2>2. h[p] = h[s.child[d][p]] + Lacks(p, d, p, d) + Blacks(s, p) /\ Lacks(p, d, p, d) = 1
          /\ Blacks(s, p) \in Nat
      BY <1>2 DEF Blacks, Lacks
    <2> QED
      BY <1>2, <2>1, <2>2
  <1>4. /\ g \in [Address -> Nat] /\ g[b] = h[b] - 1 /\ g[p] = h[p] - 1
        /\ \A x \in Address \ {b, p} : g[x] = h[x]
    BY <1>1, <1>3
  <1>5. PICK k : k = g
    OBVIOUS
  <1>6. /\ k \in [Address -> Nat] /\ k[b] = h[b] - 1 /\ k[p] = h[p] - 1
        /\ \A x \in Address \ {b, p} : k[x] = h[x]
    BY <1>4, <1>5
  <1> HIDE DEF g
  <1>7. ASSUME NEW n \in S, NEW f \in Side, NEW q, NEW e,
               Lacks(n, f, q, e) = IF s.child[f][n] = p THEN 1 ELSE 0
        PROVE  k[n] = k[z.child[f][n]] + Lacks(n, f, q, e) + Blacks(z, n)
    <2> DEFINE m == s.child[f][n]
    <2>1. /\ h[n] = h[m] + Lacks(n, f, p, d) + Blacks(s, n)
          /\ z.child[f][n] = m /\ m \in Address /\ n \in Address
          /\ h[m] \in Nat /\ h[n] \in Nat /\ m # n
      BY <1>1, <1>2, Inside DEF Repainted, Relinked
    <2>2. m = b <=> n = p /\ f # d
      <3>1. m = b => s.parent[b] = n
        BY <1>1 DEF Shape, Parted
      <3>2. m = b => f = Other(d)
        BY <1>1, <3>1, OneSide
      <3> QED
        BY <1>1, <3>1, <3>2
    <2>3. Lacks(n, f, p, d) = IF n = p /\ f = d THEN 1 ELSE 0
      BY DEF Lacks
    <2>4. Blacks(s, n) = (IF n = b THEN 1 ELSE Blacks(z, n))
      BY <1>1, <2>1 DEF Blacks, Repainted
    <2>5. Blacks(z, n) = (IF n = b THEN 0 ELSE Blacks(s, n)) /\ Blacks(z, n) \in Nat
      BY <1>1, <2>1 DEF Blacks, Repainted
    <2>6. Lacks(n, f, q, e) = IF m = p THEN 1 ELSE 0
      BY <1>7
    <2> HIDE DEF m
    <2>7. CASE n = p
      <3>1. k[n] = h[n] - 1 /\ Lacks(n, f, q, e) = 0 /\ Blacks(s, n) = Blacks(z, n)
        BY <1>1, <1>6, <2>1, <2>4, <2>6, <2>7
      <3>2. CASE f = d
        <4>1. k[m] = h[m] /\ Lacks(n, f, p, d) = 1
          BY <1>6, <2>1, <2>2, <2>3, <2>7, <3>2
        <4> QED
          BY <2>1, <2>5, <3>1, <4>1
      <3>3. CASE f # d
        <4>1. k[m] = h[m] - 1 /\ Lacks(n, f, p, d) = 0
          BY <1>6, <2>2, <2>3, <2>7, <3>3
        <4> QED
          BY <2>1, <2>5, <3>1, <4>1
      <3> QED
        BY <3>2, <3>3
    <2>8. CASE n = b
      <3>1. k[n] = h[n] - 1 /\ k[m] = h[m] /\ m # p
        <4>1. m # p
          <5>1. m = p => s.parent[p] = b
            BY <1>1, <2>8 DEF Shape, Parted, m
          <5>2. p \in under[s.child[f][b]] /\ b \in under[s.child[Other(d)][p]] => FALSE
            <6>1. under[s.child[f][b]] \subseteq under[b] /\ p \notin under[s.child[Other(d)][p]]
              BY <1>1, Inside
            <6> QED
              BY <6>1
          <5>3. b \in under[b] /\ p \in under[p]
            BY Inside
          <5> QED
            BY <2>8, <5>2, <5>3 DEF m
        <4> QED
          BY <1>1, <1>6, <2>1, <2>2, <2>8, <4>1
      <3>2. Lacks(n, f, p, d) = 0 /\ Lacks(n, f, q, e) = 0 /\ Blacks(s, n) = 1 /\ Blacks(z, n) = 0
        BY <1>1, <2>3, <2>4, <2>5, <2>6, <2>8, <3>1
      <3> QED
        BY <2>1, <3>1, <3>2
    <2>9. CASE n \notin {p, b}
      <3>1. k[n] = h[n] /\ Lacks(n, f, p, d) = 0 /\ Blacks(s, n) = Blacks(z, n) /\ m # b
        BY <1>6, <2>1, <2>2, <2>3, <2>4, <2>9
      <3>2. CASE m = p
        <4>1. k[m] = h[m] - 1 /\ Lacks(n, f, q, e) = 1
          BY <1>6, <2>6, <3>2
        <4> QED
          BY <2>1, <2>5, <3>1, <4>1
      <3>3. CASE m # p
        <4>1. k[m] = h[m] /\ Lacks(n, f, q, e) = 0
          BY <1>6, <2>1, <2>6, <3>1, <3>3
        <4> QED
          BY <2>1, <2>5, <3>1, <4>1
      <3> QED
        BY <3>2, <3>3
    <2> QED
      BY <2>7, <2>8, <2>9
  <1>8. k[nil] = 0
    BY <1>1, <1>6 DEF Address
  <1>9. ASSUME p = s.root PROVE Balanced(z, S, k, nil, "left")
    <2>1. ASSUME NEW n \in S, NEW f \in Side
          PROVE  Lacks(n, f, nil, "left") = IF s.child[f][n] = p THEN 1 ELSE 0
      <3>1. s.child[f][n] # p
        <4>1. s.child[f][n] # nil => s.parent[s.child[f][n]] = n
          BY <1>1 DEF Shape, Parted
        <4>2. p # nil => s.parent[p] = nil
          BY <1>1, <1>9 DEF Shape, Rooted
        <4> QED
          BY <1>1, <4>1, <4>2
      <3> QED
        BY <1>1, <3>1 DEF Lacks
    <2> QED
      BY <1>6, <1>7, <1>8, <2>1 DEF Balanced
  <1>10. ASSUME NEW f \in Side, p # s.root, s.child[f][s.parent[p]] = p
         PROVE  Balanced(z, S, k, s.parent[p], f)
    <2>1. ASSUME NEW n \in S, NEW e \in Side
          PROVE  Lacks(n, e, s.parent[p], f) = IF s.child[e][n] = p THEN 1 ELSE 0
      <3>1. s.child[e][n] = p => s.parent[p] = n
        BY <1>1 DEF Shape, Parted
      <3>2. s.child[e][n] = p => e = f
        BY <1>1, <1>10, <3>1, OneSide
      <3> QED
        BY <1>10, <3>1, <3>2 DEF Lacks
    <2> QED
      BY <1>6, <1>7, <1>8, <2>1 DEF Balanced
  <1> QED
    BY <1>9, <1>10

\* A red node takes the place of its red parent: they have changed roles.
LEMMA RedTurnRed ==
    ASSUME NEW s \in Tree, NEW S, NEW under, Shape(s, S, under), NEW n \in S, NEW d \in Side,
           NEW up, up = s.child[Other(d)][n], up # nil, s.color[n] = RED, s.color[up] = RED,
           s.color[s.parent[n]] = BLACK, s.color[nil] = BLACK,
           NEW z, Rotated(s, z, S, n, d), RedBut(s, S, up)
    PROVE  RedBut(z, S, n)
  <1> DEFINE inner == s.child[d][up]
             outer == s.child[Other(d)][up]
             low   == s.child[d][n]
  <1>1. RED # BLACK /\ S \subseteq Address /\ nil \notin S
    BY Inside DEF RED, BLACK
  <1>2. up \in S /\ up # n /\ inner \in (S \cup {nil}) \ {n, up}
    <2>1. Family(S, under, s, n, up, inner, outer, low)
      BY Turning
    <2> QED
      BY <2>1 DEF Family
  <1>3. s.color[inner] = BLACK
    <2>1. inner # up
      BY <1>2
    <2> QED
      BY <1>2, <2>1, RedParent
  <1>4. ASSUME NEW m \in S, m # n
        PROVE  z.color[m] = BLACK \/ z.color[z.parent[m]] = BLACK
    <2>1. z.color = s.color
      BY DEF Rotated
    <2>2. CASE m = up
      <3>1. z.parent[up] = s.parent[n]
        BY <1>1, <1>2 DEF Rotated
      <3> QED
        BY <2>1, <2>2, <3>1
    <2>3. CASE m = inner
      BY <1>3, <2>1, <2>3
    <2>4. CASE m \notin {up, inner}
      <3>1. z.parent[m] = s.parent[m]
        BY <1>1, <1>4, <2>4 DEF Rotated
      <3> QED
        BY <2>1, <2>4, <3>1 DEF RedBut
    <2> QED
      BY <2>2, <2>3, <2>4
  <1> QED
    BY <1>4 DEF RedBut

-----------------------------------------------------------------------------
(* The inductive invariant, on top of TreeInv.                             *)
\* The node that is inserted is red, and so is the cursor of the fix-up.
Fresh ==
    /\ pc = "descend" => t.color[node] = RED
    /\ pc = "insert_fixup" => t.color[cur] = RED

RootBlack == pc \notin {"insert_fixup", "erase_fixup"} => t.color[t.root] = BLACK

RedApart ==
    \A n \in Linked :
       \/ t.color[n] = BLACK \/ t.color[t.parent[n]] = BLACK
       \/ pc \in {"insert_fixup", "erase_fixup"} /\ n = cur
       \/ pc = "erase_fixup" /\ t.parent[n] = cur

\* The heights agree, but for the black that node n may lack.
OwedAt(s, S, h, n) ==
    IF n = s.root THEN Balanced(s, S, h, nil, "left")
    ELSE \E d \in Side : n = s.child[d][s.parent[n]] /\ Balanced(s, S, h, s.parent[n], d)

Owed(h) == IF pc = "erase_fixup" THEN OwedAt(t, Linked, h, cur)
                                 ELSE Balanced(t, Linked, h, nil, "left")

ColorInv == t.color[nil] = BLACK /\ Fresh /\ RootBlack /\ RedApart /\ \E h : Owed(h)

-----------------------------------------------------------------------------
(* BlackHeight is h.                                                       *)
BhOf(f, m) ==
    IF m = nil THEN 0
    ELSE LET left  == f[t.child["left"][m]]
             right == f[t.child["right"][m]]
         IN  IF left = -1 \/ right = -1
                  \/ left + Extra(m, "left") # right + Extra(m, "right") THEN -1
             ELSE left + Extra(m, "left") + (IF Counts(m) THEN 1 ELSE 0)

LEMMA BhDefined ==
    ASSUME t \in Tree, NEW rank, NEW N, Ranked(rank, N)
    PROVE  BlackHeight = [m \in Address |-> BhOf(BlackHeight, m)]
  <1> DEFINE Solves(f, k) == /\ f \in [Address -> Int]
                             /\ \A m \in Address : rank[m] < k => f[m] = BhOf(f, m)
  <1>1. /\ N \in Nat /\ \A x \in Address : rank[x] \in Nat /\ rank[x] <= N
        /\ \A x \in Address, d \in Side : t.child[d][x] \in Address
        /\ "left" \in Side /\ "right" \in Side
    BY DEF Ranked, Address, Tree, Side
  <1>2. \A k \in Nat : \E f : Solves(f, k)
    <2> DEFINE Bad == {k \in Nat : ~ \E f : Solves(f, k)}
    <2>1. SUFFICES Bad = {}
      OBVIOUS
    <2>2. SUFFICES ASSUME Bad # {} PROVE FALSE
      OBVIOUS
    <2>3. PICK k \in Bad : \A j \in Bad : k <= j
      <3>1. Bad \in SUBSET Nat
        OBVIOUS
      <3> HIDE DEF Bad
      <3> QED
        BY <2>2, <3>1, Least
    <2>4. k # 0
      <3>1. Solves([m \in Address |-> 0], 0)
        BY <1>1
      <3> HIDE DEF Solves
      <3> QED
        BY <3>1
    <2>5. k - 1 \in Nat /\ k - 1 \notin Bad
      <3>1. k \in Nat
        BY <2>3
      <3>2. k - 1 \in Nat /\ ~(k <= k - 1)
        BY <2>4, <3>1
      <3> HIDE DEF Bad
      <3> QED
        BY <2>3, <3>2
    <2>6. PICK f : Solves(f, k - 1)
      <3> HIDE DEF Solves
      <3> QED
        BY <2>5
    <2> DEFINE g == [m \in Address |-> BhOf(f, m)]
    <2>7. g \in [Address -> Int]
      <3> SUFFICES ASSUME NEW m \in Address PROVE BhOf(f, m) \in Int
        OBVIOUS
      <3>1. /\ f[t.child["left"][m]] \in Int /\ f[t.child["right"][m]] \in Int
            /\ Extra(m, "left") \in Int /\ (IF Counts(m) THEN 1 ELSE 0) \in Int
        BY <1>1, <2>6 DEF Extra
      <3> QED
        BY <3>1 DEF BhOf
    <2>8. ASSUME NEW m \in Address, rank[m] < k
          PROVE  g[m] = BhOf(g, m)
      <3>1. CASE m = nil
        BY <3>1 DEF BhOf
      <3>2. CASE m # nil
        <4>1. ASSUME NEW d \in Side
              PROVE  g[t.child[d][m]] = f[t.child[d][m]]
          <5>0. m \in Node
            BY <3>2 DEF Address
          <5>1. t.child[d][m] \in Address /\ rank[t.child[d][m]] < rank[m]
            BY <1>1, <5>0 DEF Ranked
          <5>3. rank[t.child[d][m]] \in Int /\ rank[m] \in Int /\ k \in Int
            BY <1>1, <2>3, <5>1
          <5>2. rank[t.child[d][m]] < k - 1
            BY <2>8, <5>1, <5>3
          <5> QED
            BY <2>6, <5>1, <5>2
        <4>2. g[m] = BhOf(f, m)
          OBVIOUS
        <4> HIDE DEF g
        <4> QED
          BY <1>1, <3>2, <4>1, <4>2 DEF BhOf
      <3> QED
        BY <3>1, <3>2
    <2>9. Solves(g, k)
      <3> HIDE DEF g
      <3> QED
        BY <2>7, <2>8
    <2> HIDE DEF Solves
    <2> QED
      BY <2>3, <2>9
  <1>3. PICK f : Solves(f, N + 1)
    <2>1. N + 1 \in Nat
      BY <1>1
    <2> HIDE DEF Solves
    <2> QED
      BY <1>2, <2>1
  <1>4. f = [m \in Address |-> BhOf(f, m)]
    BY <1>1, <1>3
  <1>5. BlackHeight = CHOOSE g : g = [m \in Address |-> BhOf(g, m)]
    BY DEF BlackHeight, BhOf, Address
  <1> HIDE DEF Solves
  <1>6. \E g : g = [m \in Address |-> BhOf(g, m)]
    BY <1>4
  <1> QED
    BY <1>5, <1>6

\* One black more counts exactly where one is lacking.
LEMMA ExtraIs ==
    ASSUME TreeInv, ColorInv
    PROVE  \E h, p, e : /\ Balanced(t, Linked, h, p, e)
                        /\ \A m \in Linked, d \in Side : Extra(m, d) = Lacks(m, d, p, e)
  <1>1. PICK under : Fits(under)
    BY DEF TreeInv
  <1>2. PICK h : Owed(h)
    BY DEF ColorInv
  <1>3. t \in Tree /\ Shape(t, Linked, under) /\ nil \notin Linked
    BY <1>1, Inside DEF Fits, Good
  <1>4. pc # "erase_node"
    BY DEF TreeInv, Typed, Calls
  <1>5. CASE pc # "erase_fixup"
    <2>1. \A m \in Linked, d \in Side : Extra(m, d) = 0 /\ Lacks(m, d, nil, "left") = 0
      BY <1>3, <1>4, <1>5 DEF Extra, Lacks
    <2> QED
      BY <1>2, <1>5, <2>1 DEF Owed
  <1>6. CASE pc = "erase_fixup" /\ cur = t.root
    <2>1. \A m \in Linked : t.root # nil => t.parent[t.root] # m
      BY <1>3 DEF Shape, Rooted
    <2>2. t.root = nil => Linked = {}
      BY <1>3 DEF Shape, Rooted
    <2>3. \A m \in Linked, d \in Side : Extra(m, d) = 0 /\ Lacks(m, d, nil, "left") = 0
      BY <1>3, <1>6, <2>1, <2>2 DEF Extra, Lacks
    <2> QED
      BY <1>2, <1>6, <2>3 DEF Owed, OwedAt
  <1>7. CASE pc = "erase_fixup" /\ cur # t.root
    <2> DEFINE p == t.parent[cur]
    <2>1. PICK d \in Side : cur = t.child[d][p] /\ Balanced(t, Linked, h, p, d)
      BY <1>2, <1>7 DEF Owed, OwedAt
    <2>2. p \in Linked
      BY <1>1, <1>7 DEF Fits, Fixing
    <2> HIDE DEF p
    <2>3. ASSUME NEW e \in Side, cur = t.child[e][p] PROVE e = d
      <3>1. CASE cur # nil
        BY <1>3, <2>1, <2>2, <2>3, <3>1, OneSide
      <3>2. CASE cur = nil
        <4>1. SUFFICES ASSUME e # d PROVE FALSE
          OBVIOUS
        <4>2. /\ h[p] = h[nil] + Lacks(p, d, p, d) + Blacks(t, p)
              /\ h[p] = h[nil] + Lacks(p, e, p, d) + Blacks(t, p)
              /\ h[nil] = 0
          BY <2>1, <2>2, <2>3, <3>2 DEF Balanced
        <4>3. /\ Lacks(p, d, p, d) = 1 /\ Lacks(p, e, p, d) = 0
              /\ Blacks(t, p) \in Nat
          BY <4>1 DEF Lacks, Blacks
        <4> QED
          BY <4>2, <4>3
      <3> QED
        BY <3>1, <3>2
    <2>4. \A m \in Linked, e \in Side : Extra(m, e) = Lacks(m, e, p, d)
      BY <1>7, <2>1, <2>3 DEF Extra, Lacks, p
    <2> QED
      BY <2>1, <2>4
  <1> QED
    BY <1>5, <1>6, <1>7

\* Where the heights agree, in the tree or in one with the same links in which
\* some nodes do not count, BlackHeight finds that they do.
LEMMA HeightsAgree ==
    ASSUME t \in Tree, NEW under, Shape(t, Linked, under),
           \A x \in Node \ Linked, d \in Side : t.child[d][x] \in Linked \cup {nil},
           NEW y, y.child = t.child, \A m \in Linked : Counts(m) <=> y.color[m] = BLACK,
           NEW h, NEW p, NEW e, Balanced(y, Linked, h, p, e),
           \A m \in Linked, d \in Side : Extra(m, d) = Lacks(m, d, p, e)
    PROVE  BlackHeight[t.root] # -1
  <1>2. t \in Tree /\ Shape(t, Linked, under) /\ nil \notin Linked /\ Linked \subseteq Address
    BY Inside
  <1>3. PICK rank : Ranked(rank, Cardinality(Node) + 1)
    BY Inside, Ranks
  <1>5. BlackHeight = [m \in Address |-> BhOf(BlackHeight, m)]
    BY <1>2, <1>3, BhDefined
  <1>6. /\ h \in [Address -> Nat] /\ h[nil] = 0
        /\ \A m \in Linked, d \in Side :
              h[m] = h[t.child[d][m]] + Extra(m, d) + Blacks(y, m)
    BY DEF Balanced
  <1>7. \A m \in Linked : BlackHeight[m] = h[m]
    <2> DEFINE Bad == {rank[m] : m \in {x \in Linked : BlackHeight[x] # h[x]}}
    <2>1. SUFFICES ASSUME Bad # {} PROVE FALSE
      OBVIOUS
    <2>2. PICK k \in Bad : \A j \in Bad : k <= j
      <3>1. Bad \in SUBSET Nat
        BY <1>2, <1>3 DEF Ranked
      <3> HIDE DEF Bad
      <3> QED
        BY <2>1, <3>1, Least
    <2>3. PICK m \in Linked : BlackHeight[m] # h[m] /\ rank[m] = k
      OBVIOUS
    <2>4. ASSUME NEW d \in Side PROVE BlackHeight[t.child[d][m]] = h[t.child[d][m]]
      <3>1. t.child[d][m] \in Linked \cup {nil}
        BY <1>2 DEF Shape, Parted
      <3>2. CASE t.child[d][m] = nil
        <4>1. BlackHeight[nil] = 0
          BY <1>2, <1>5, Inside DEF BhOf
        <4> QED
          BY <1>6, <3>2, <4>1
      <3>3. CASE t.child[d][m] \in Linked
        <4>1. m \in Node
          BY <1>2, Inside
        <4>2. /\ rank[t.child[d][m]] < rank[m]
              /\ rank[t.child[d][m]] \in Nat /\ rank[m] \in Nat
          BY <1>2, <1>3, <3>3, <4>1 DEF Ranked
        <4>3. rank[t.child[d][m]] \notin Bad
          <5>1. ~(k <= rank[t.child[d][m]])
            BY <2>3, <4>2
          <5> HIDE DEF Bad
          <5> QED
            BY <2>2, <5>1
        <4> QED
          BY <3>3, <4>3
      <3> QED
        BY <3>1, <3>2, <3>3
    <2> DEFINE l == t.child["left"][m]
               r == t.child["right"][m]
    <2>5. /\ BlackHeight[l] = h[l] /\ BlackHeight[r] = h[r]
          /\ h[m] = h[l] + Extra(m, "left") + Blacks(y, m)
          /\ h[m] = h[r] + Extra(m, "right") + Blacks(y, m)
      BY <1>6, <2>4 DEF Side
    <2>6. /\ h[l] \in Nat /\ h[r] \in Nat /\ Blacks(y, m) \in Nat
          /\ Extra(m, "left") \in Nat /\ Extra(m, "right") \in Nat
      <3>1. l \in Address /\ r \in Address
        BY <1>2 DEF Tree, Side
      <3> QED
        BY <1>6, <3>1 DEF Extra, Blacks
    <2>7. (IF Counts(m) THEN 1 ELSE 0) = Blacks(y, m)
      BY DEF Blacks
    <2>8. BlackHeight[m] = IF h[l] = -1 \/ h[r] = -1
                                \/ h[l] + Extra(m, "left") # h[r] + Extra(m, "right") THEN -1
                           ELSE h[l] + Extra(m, "left") + Blacks(y, m)
      <3>1. BlackHeight[m] = BhOf(BlackHeight, m)
        BY <1>2, <1>5
      <3>2. m # nil
        BY <1>2
      <3> QED
        BY <2>5, <2>7, <3>1, <3>2 DEF BhOf
    <2> HIDE DEF l, r
    <2>9. h[l] + Extra(m, "left") = h[r] + Extra(m, "right") /\ h[l] # -1 /\ h[r] # -1
      BY <2>5, <2>6
    <2> QED
      BY <2>3, <2>5, <2>8, <2>9
  <1>8. t.root \in Linked \cup {nil}
    BY <1>2 DEF Shape, Rooted
  <1>9. BlackHeight[nil] = 0
    BY <1>2, <1>5, Inside DEF BhOf
  <1>10. BlackHeight[t.root] \in Nat
    BY <1>2, <1>6, <1>7, <1>8, <1>9
  <1> QED
    BY <1>10

LEMMA BlackHeightIs ==
    ASSUME TreeInv, ColorInv
    PROVE  BlackHeight[t.root] # -1
  <1>1. PICK under : t \in Tree /\ Shape(t, Linked, under)
    BY DEF TreeInv, Fits, Good
  <1>2. PICK h, p, e : /\ Balanced(t, Linked, h, p, e)
                       /\ \A m \in Linked, d \in Side : Extra(m, d) = Lacks(m, d, p, e)
    BY ExtraIs
  <1>3. \A m \in Linked : Counts(m) <=> t.color[m] = BLACK
    BY DEF Counts, TreeInv, Typed, Calls
  <1> QED
    BY <1>1, <1>2, <1>3, Loose, HeightsAgree

LEMMA RedBlackHolds ==
    ASSUME TreeInv, ColorInv
    PROVE  RedBlack
  <1>1. BlackHeight[t.root] # -1
    BY BlackHeightIs
  <1>2. /\ t.color[nil] = BLACK
        /\ pc \notin {"insert_fixup", "erase_fixup"} => t.color[t.root] = BLACK
    BY DEF ColorInv, RootBlack
  <1>3. \A n \in Linked :
          \/ t.color[n] = BLACK \/ t.color[t.parent[n]] = BLACK
          \/ pc \in {"insert_fixup", "color_fix", "erase_fixup"} /\ n = cur
          \/ pc = "erase_fixup" /\ t.parent[n] = cur
    BY DEF ColorInv, RedApart
  <1> QED
    BY <1>1, <1>2, <1>3 DEF RedBlack

-----------------------------------------------------------------------------
(* The steps outside the loops.                                            *)
\* A tree that is the same in S is colored the same.
LEMMA Unseen ==
    ASSUME NEW s \in Tree, NEW z \in Tree, NEW S, NEW under, Shape(s, S, under), Alike(s, z, S),
           \A x \in S \cup {nil} : z.color[x] = s.color[x]
    PROVE  /\ \A x : RedBut(s, S, x) => RedBut(z, S, x)
           /\ \A h, p, e : Balanced(s, S, h, p, e) => Balanced(z, S, h, p, e)
           /\ z.root = s.root /\ z.color[z.root] = s.color[s.root]
  <1>1. s.root \in S \cup {nil} /\ z.root = s.root
    BY DEF Shape, Rooted, Alike
  <1>2. ASSUME NEW n \in S
        PROVE  /\ s.parent[n] \in S \cup {nil} /\ z.parent[n] = s.parent[n]
               /\ z.color[n] = s.color[n] /\ z.color[z.parent[n]] = s.color[s.parent[n]]
               /\ \A d \in Side : z.child[d][n] = s.child[d][n]
    <2>1. s.parent[n] \in S \cup {nil}
      <3>1. CASE n = s.root
        BY <3>1, RootIs
      <3>2. CASE n # s.root
        BY <3>2, SideIs
      <3> QED
        BY <3>1, <3>2
    <2> QED
      BY <2>1 DEF Alike
  <1>3. ASSUME NEW x, RedBut(s, S, x) PROVE RedBut(z, S, x)
    BY <1>2, <1>3 DEF RedBut
  <1>4. ASSUME NEW h, NEW p, NEW e, Balanced(s, S, h, p, e) PROVE Balanced(z, S, h, p, e)
    BY <1>2, <1>4 DEF Balanced, Blacks
  <1>5. z.color[z.root] = s.color[s.root]
    BY <1>1
  <1> QED
    BY <1>1, <1>3, <1>4, <1>5

\* Nothing is lacking on either side of no node.
LEMMA NothingLacks ==
    ASSUME NEW s, NEW S, nil \notin S, NEW h, NEW e, NEW f, Balanced(s, S, h, nil, e)
    PROVE  Balanced(s, S, h, nil, f)
  <1>1. \A n \in S : \A d : Lacks(n, d, nil, e) = 0 /\ Lacks(n, d, nil, f) = 0
    BY DEF Lacks
  <1> QED
    BY <1>1 DEF Balanced

\* What the invariants say between calls and in the calls that leave the tree
\* alone.
LEMMA Calm ==
    ASSUME TreeInv, ColorInv, pc \notin {"insert_fixup", "erase_fixup"}
    PROVE  /\ \E under : t \in Tree /\ Shape(t, Linked, under)
           /\ RedBut(t, Linked, nil) /\ t.color[t.root] = BLACK /\ t.color[nil] = BLACK
           /\ \E h : Balanced(t, Linked, h, nil, "left")
  <1>1. \E under : t \in Tree /\ Shape(t, Linked, under)
    BY DEF TreeInv, Fits, Good
  <1>2. RedBut(t, Linked, nil)
    BY DEF ColorInv, RedApart, RedBut
  <1>3. t.color[t.root] = BLACK /\ t.color[nil] = BLACK
    BY DEF ColorInv, RootBlack
  <1>4. \E h : Balanced(t, Linked, h, nil, "left")
    BY DEF ColorInv, Owed
  <1> QED
    BY <1>1, <1>2, <1>3, <1>4

\* A red-black tree between two calls, or in one that leaves it alone.
LEMMA Calmed ==
    ASSUME pc' \notin {"insert_fixup", "erase_fixup"},
           pc' = "descend" => t'.color[node'] = RED,
           RedBut(t', Linked', nil), t'.color[t'.root] = BLACK, t'.color[nil] = BLACK,
           NEW h, Balanced(t', Linked', h, nil, "left"), nil \notin Linked'
    PROVE  ColorInv'
  <1>1. RedApart'
    <2>1. \A n \in Linked' : t'.color[n] = BLACK \/ t'.color[t'.parent[n]] = BLACK
      BY DEF RedBut
    <2> QED
      BY <2>1 DEF RedApart
  <1>2. Fresh' /\ RootBlack'
    BY DEF Fresh, RootBlack
  <1>3. Owed(h)'
    BY DEF Owed
  <1> QED
    BY <1>1, <1>2, <1>3 DEF ColorInv

LEMMA QuietColors ==
    ASSUME TreeInv, ColorInv, UNCHANGED <<t, live>>,
           pc \notin {"descend", "insert_fixup", "erase_fixup"},
           pc' \notin {"descend", "insert_fixup", "erase_fixup", "sink"}
    PROVE  ColorInv'
  <1>1. Linked = live /\ Linked' = live
    BY DEF Linked, TreeInv, Typed, Calls
  <1>2. nil \notin live
    BY TypedIs DEF TreeInv
  <1> QED
    BY <1>1, <1>2, Calm, Calmed

LEMMA DescendColors ==
    ASSUME TreeInv, ColorInv, Descend
    PROVE  ColorInv'
  <1>1. UNCHANGED <<t, live, pc, node>> /\ pc = "descend"
    BY DEF Descend
  <1>2. Linked' = Linked /\ nil \notin Linked
    BY <1>1, TypedIs DEF Linked, TreeInv
  <1>3. t.color[node] = RED
    BY <1>1 DEF ColorInv, Fresh
  <1> QED
    BY <1>1, <1>2, <1>3, Calm, Calmed

\* The empty tree.
LEMMA EmptyColors ==
    /\ Empty.root = nil /\ Empty.color[nil] = BLACK
    /\ RedBut(Empty, {}, nil) /\ \E h : Balanced(Empty, {}, h, nil, "left")
  <1>1. Empty.root = nil /\ Empty.color[nil] = BLACK /\ RedBut(Empty, {}, nil)
    BY DEF Empty, RedBut
  <1>2. Balanced(Empty, {}, [x \in Address |-> 0], nil, "left")
    BY DEF Balanced, Address
  <1> QED
    BY <1>1, <1>2

LEMMA InitColors ==
    ASSUME Init
    PROVE  ColorInv
  <1>1. t = Empty /\ live = {} /\ pc = "idle"
    BY DEF Init
  <1>2. Linked = {}
    BY <1>1 DEF Linked
  <1>3. Fresh /\ RootBlack /\ RedApart /\ t.color[nil] = BLACK
    BY <1>1, <1>2, EmptyColors DEF Fresh, RootBlack, RedApart
  <1>4. \E h : Owed(h)
    BY <1>1, <1>2, EmptyColors DEF Owed
  <1> QED
    BY <1>3, <1>4 DEF ColorInv

LEMMA DeleteColors ==
    ASSUME TreeInv, TreeInv', delete_rbtree
    PROVE  ColorInv'
  <1>1. t' = Empty /\ pc' = "deleted"
    BY DEF delete_rbtree
  <1>2. Linked' = {}
    BY <1>1 DEF Linked, TreeInv, Fits
  <1> QED
    BY <1>1, <1>2, EmptyColors, Calmed

LEMMA InsertColors ==
    ASSUME TreeInv, TreeInv', ColorInv, NEW n \in Node, Insert(n)
    PROVE  ColorInv'
  <1>1. /\ pc = "idle" /\ n \notin live /\ live' = live \cup {n} /\ node' = n /\ pc' = "descend"
        /\ t' = [t EXCEPT !.key[n] = KeyOf[n], !.color[n] = RED, !.parent[n] = nil,
                          !.child = [d \in Side |-> [@[d] EXCEPT ![n] = nil]]]
    BY DEF Insert
  <1>2. Linked = live /\ Linked' = live
    BY <1>1 DEF Linked
  <1>3. /\ live \subseteq Address /\ nil \notin live /\ nil \in Address
        /\ n \in Address /\ n # nil
    BY TypedIs, KeyAssumption DEF TreeInv, Address
  <1>4. PICK under : t \in Tree /\ Shape(t, live, under)
    BY <1>1, <1>2, Calm
  <1>5. PICK h : Balanced(t, live, h, nil, "left")
    BY <1>1, <1>2, Calm
  <1>6. t' \in Tree
    BY DEF TreeInv, Fits, Good
  <1>7. /\ t'.root = t.root
        /\ t'.key = [t.key EXCEPT ![n] = KeyOf[n]]
        /\ t'.color = [t.color EXCEPT ![n] = RED]
        /\ t'.parent = [t.parent EXCEPT ![n] = nil]
        /\ t'.child = [d \in Side |-> [t.child[d] EXCEPT ![n] = nil]]
    BY <1>1, <1>4 DEF Tree
  <1>8. /\ \A x \in Address \ {n} : /\ t'.key[x] = t.key[x] /\ t'.parent[x] = t.parent[x]
                                    /\ t'.color[x] = t.color[x]
        /\ \A x \in Address \ {n}, d \in Side : t'.child[d][x] = t.child[d][x]
        /\ t'.color[n] = RED
    BY <1>3, <1>4, <1>7 DEF Tree
  <1>9. Alike(t, t', live) /\ \A x \in live \cup {nil} : t'.color[x] = t.color[x]
    BY <1>1, <1>3, <1>7, <1>8 DEF Alike
  <1>10. /\ RedBut(t, live, nil) => RedBut(t', live, nil)
         /\ Balanced(t', live, h, nil, "left")
         /\ t'.color[t'.root] = t.color[t.root]
    BY <1>4, <1>5, <1>6, <1>9, Unseen
  <1> QED
    BY <1>1, <1>2, <1>3, <1>8, <1>9, <1>10, Calm, Calmed

\* The tree of a freed node.
LEMMA BlankColors ==
    ASSUME NEW s \in Tree, NEW S, NEW under, Shape(s, S, under), Ordered(s, S, under),
           NEW p \in Node \ S
    PROVE  /\ \A x : RedBut(s, S, x) => RedBut(Blank(s, p), S, x)
           /\ \A h, q, e : Balanced(s, S, h, q, e) => Balanced(Blank(s, p), S, h, q, e)
           /\ Blank(s, p).root = s.root
           /\ Blank(s, p).color[Blank(s, p).root] = s.color[s.root]
           /\ Blank(s, p).color[nil] = s.color[nil]
  <1> DEFINE z == Blank(s, p)
  <1>1. p \in Address /\ p # nil /\ nil \in Address /\ S \subseteq Address
    BY KeyAssumption, Inside DEF Address
  <1>2. z \in Tree
    BY BlankGood DEF Good
  <1>3. /\ z.root = s.root
        /\ z.key = [s.key EXCEPT ![p] = 0]
        /\ z.color = [s.color EXCEPT ![p] = BLACK]
        /\ z.parent = [s.parent EXCEPT ![p] = nil]
        /\ z.child = [d \in Side |-> [s.child[d] EXCEPT ![p] = nil]]
    BY <1>1 DEF Blank, Tree
  <1>4. /\ \A x \in Address \ {p} : /\ z.key[x] = s.key[x] /\ z.parent[x] = s.parent[x]
                                    /\ z.color[x] = s.color[x]
        /\ \A x \in Address \ {p}, d \in Side : z.child[d][x] = s.child[d][x]
    BY <1>1, <1>3 DEF Tree
  <1>5. z.root = s.root
    BY <1>3
  <1> HIDE DEF z
  <1>6. Alike(s, z, S) /\ \A x \in S \cup {nil} : z.color[x] = s.color[x]
    BY <1>1, <1>4, <1>5 DEF Alike
  <1>7. /\ \A x : RedBut(s, S, x) => RedBut(z, S, x)
        /\ \A h, q, e : Balanced(s, S, h, q, e) => Balanced(z, S, h, q, e)
        /\ z.color[z.root] = s.color[s.root]
    BY <1>2, <1>6, Unseen
  <1> QED
    BY <1>5, <1>6, <1>7 DEF z

LEMMA LinkColors ==
    ASSUME TreeInv, ColorInv, Link
    PROVE  ColorInv'
  <1>1. PICK under : Fits(under)
    BY DEF TreeInv
  <1>2. /\ pc = "descend" /\ pc' = "insert_fixup" /\ live' = live /\ cur' = node
    BY DEF Link
  <1>3. Linked = live \ {node} /\ Linked' = live /\ t.color[node] = RED
    BY <1>2 DEF Linked, ColorInv, Fresh
  <1> DEFINE S == live \ {node}
  <1>4. /\ node \in Node \ S /\ S \cup {node} = live
        /\ t \in Tree /\ Shape(t, S, under)
        /\ res \in S \cup {nil}
        /\ \A x \in Side : t.child[x][node] = nil
        /\ t'.color = t.color
    BY <1>1, LinkHooks
  <1>5. PICK d \in Side : t.child[d][res] = nil /\ Hooked(t, t', node, res, d)
    BY <1>1, LinkHooks
  <1>6. PICK h : Balanced(t, S, h, nil, "left")
    BY <1>2, <1>3, Calm
  <1>7. RedBut(t, S, nil) /\ t.color[nil] = BLACK
    BY <1>2, <1>3, Calm
  <1> HIDE DEF S
  <1>8. PICK g : Balanced(t', S \cup {node}, g, nil, "left")
    BY <1>3, <1>4, <1>5, <1>6, HookBalanced
  <1>9. RedBut(t', S \cup {node}, node)
    BY <1>4, <1>5, <1>7, HookRed
  <1>10. t'.color[nil] = BLACK /\ Fresh' /\ RootBlack'
    BY <1>2, <1>3, <1>4, <1>7 DEF Fresh, RootBlack
  <1>11. RedApart'
    BY <1>2, <1>3, <1>4, <1>9 DEF RedApart, RedBut
  <1>12. Owed(g)'
    BY <1>2, <1>3, <1>4, <1>8 DEF Owed
  <1> QED
    BY <1>10, <1>11, <1>12 DEF ColorInv

\* Paint only paints.
LEMMA Repaint ==
    ASSUME NEW s \in Tree, NEW r \in Address, NEW c \in {RED, BLACK}
    PROVE  Repainted(s, Paint(s, r, c), r, c) /\ Paint(s, r, c).key = s.key
  <1>1. Painted(s, Paint(s, r, c), r, c)
    BY PaintIs
  <1> QED
    BY <1>1 DEF Painted, Repainted, Relinked

LEMMA InsertDoneColors ==
    ASSUME TreeInv, ColorInv, InsertDone
    PROVE  ColorInv'
  <1>1. PICK under : Fits(under)
    BY DEF TreeInv
  <1>2. /\ pc = "insert_fixup" /\ ~RedRed /\ t' = Paint(t, t.root, BLACK) /\ live' = live
        /\ pc' = "idle"
    BY DEF InsertDone, Return
  <1>3. Linked = live /\ Linked' = live
    BY <1>2 DEF Linked
  <1>4. /\ t \in Tree /\ Shape(t, live, under) /\ t.root \in live \cup {nil}
        /\ nil \notin live /\ nil \in Address /\ t.root \in Address /\ live \in SUBSET Address
    BY <1>1, <1>3, TypedIs DEF TreeInv, Fits, Good, Shape, Rooted
  <1>5. Repainted(t, t', t.root, BLACK)
    BY <1>2, <1>4, Repaint
  <1>6. PICK h : Balanced(t, live, h, nil, "left")
    BY <1>2, <1>3 DEF ColorInv, Owed
  <1>7. PICK g : Balanced(t', live, g, nil, "left")
    BY <1>4, <1>5, <1>6, RootBalanced
  <1>8. \A n \in live : t.color[n] = BLACK \/ t.color[t.parent[n]] = BLACK \/ n = cur
    BY <1>2, <1>3 DEF ColorInv, RedApart
  <1>9. cur \in live /\ t.color[nil] = BLACK
    BY <1>1, <1>2 DEF Fits, Fixing, ColorInv
  <1>10. t.color[t.parent[cur]] = BLACK \/ cur = t.root \/ t.parent[cur] = t.root
    <2>1. CASE t.parent[cur] = nil
      BY <1>9, <2>1
    <2>2. CASE t.color[t.parent[cur]] # RED
      <3>1. t.parent[cur] \in Address
        BY <1>4, <1>9 DEF Tree
      <3> QED
        BY <1>4, <2>2, <3>1 DEF Tree
    <2>3. CASE t.parent[cur] # nil /\ t.parent[t.parent[cur]] = nil
      <3>1. t.parent[cur] \in live
        BY <1>4, <1>9, <2>3, RootIs, SideIs
      <3> QED
        BY <1>4, <2>3, <3>1, RootIs
    <2> QED
      BY <1>2, <2>1, <2>2, <2>3 DEF RedRed
  <1>11. RedBut(t', live, nil)
    <2>1. \A n \in live : \/ t.color[n] = BLACK \/ t.color[t.parent[n]] = BLACK
                          \/ n = nil \/ n = t.root \/ t.parent[n] = t.root
      BY <1>8, <1>10
    <2> QED
      BY <1>4, <1>5, <2>1, BlackenRed
  <1>12. t'.color[t'.root] = BLACK /\ t'.color[nil] = BLACK
    BY <1>4, <1>5, <1>9 DEF Repainted, Relinked
  <1> QED
    BY <1>2, <1>3, <1>4, <1>7, <1>11, <1>12, Calmed

-----------------------------------------------------------------------------
(* An iteration of the loop of an insertion.                               *)
\* bottom is the red child of a red node top, on the same side as top itself.
Lined(s, S, h, g, d, top, bottom) ==
    /\ s \in Tree /\ g \in S /\ d \in Side
    /\ top = s.child[d][g] /\ top \in S /\ bottom = s.child[d][top] /\ bottom \in S
    /\ s.parent[bottom] = top
    /\ s.color[g] = BLACK /\ s.color[top] = RED /\ s.color[bottom] = RED /\ s.color[nil] = BLACK
    /\ s.color[s.child[Other(d)][g]] = BLACK
    /\ RedBut(s, S, bottom) /\ Balanced(s, S, h, nil, "left")

\* The paints before the last turn.
LEMMA Exchange ==
    ASSUME NEW s \in Tree, NEW S, NEW under, Shape(s, S, under), NEW n \in S, NEW up \in S,
           up # n, s.color[n] = BLACK, s.color[up] = RED
    PROVE  /\ Exchanged(s, Paint(Paint(s, up, BLACK), n, RED), n, up)
           /\ Shape(Paint(Paint(s, up, BLACK), n, RED), S, under)
  <1>1. n \in Address /\ up \in Address /\ RED \in {RED, BLACK} /\ BLACK \in {RED, BLACK}
    BY Inside
  <1> DEFINE y == Paint(s, up, BLACK)
             z == Paint(y, n, RED)
  <1>2. Painted(s, y, up, BLACK)
    BY <1>1, PaintIs
  <1> HIDE DEF y
  <1>3. Painted(y, z, n, RED)
    BY <1>1, <1>2, PaintIs DEF Painted
  <1> HIDE DEF z
  <1>4. Exchanged(s, z, n, up) /\ Relinked(s, z)
    BY <1>1, <1>2, <1>3 DEF Painted, Exchanged, Relinked
  <1>5. Shape(z, S, under)
    BY <1>4, SameShape
  <1> QED
    BY <1>4, <1>5 DEF y, z

LEMMA TurnUp ==
    ASSUME NEW s, NEW S, NEW under, Shape(s, S, under), NEW h, NEW g, NEW d, NEW top, NEW bottom,
           Lined(s, S, h, g, d, top, bottom),
           NEW z, z = Rotate(Paint(Paint(s, top, BLACK), g, RED), g, Other(d))
    PROVE  /\ RedBut(z, S, nil) /\ z.color[bottom] = RED /\ z.color[nil] = BLACK
           /\ \E k : Balanced(z, S, k, nil, "left")
  <1>1. /\ s \in Tree /\ g \in S /\ d \in Side
        /\ top = s.child[d][g] /\ top \in S /\ bottom = s.child[d][top] /\ bottom \in S
        /\ s.parent[bottom] = top
        /\ s.color[g] = BLACK /\ s.color[top] = RED /\ s.color[bottom] = RED /\ s.color[nil] = BLACK
        /\ s.color[s.child[Other(d)][g]] = BLACK
        /\ RedBut(s, S, bottom) /\ Balanced(s, S, h, nil, "left")
    BY DEF Lined
  <1>2. /\ Other(d) \in Side /\ Other(Other(d)) = d /\ RED # BLACK
        /\ nil \notin S /\ S \subseteq Address /\ nil \in Address
    BY <1>1, Sides, Inside DEF RED, BLACK
  <1> DEFINE y == Paint(Paint(s, top, BLACK), g, RED)
             inner == s.child[Other(d)][top]
  <1>3. top # g /\ top # nil
    BY <1>1, <1>2
  <1>4. Exchanged(s, y, g, top) /\ Shape(y, S, under)
    BY <1>1, <1>3, Exchange
  <1> HIDE DEF y
  <1>5. Rotated(y, z, S, g, Other(d))
    <2>1. y \in Tree /\ y.child = s.child
      BY <1>4 DEF Exchanged, Relinked
    <2> QED
      BY <1>1, <1>2, <1>3, <1>4, <2>1, RotateIs DEF y
  <1>6. \E k : Balanced(z, S, k, nil, "left")
    <2>1. nil # top /\ ~(nil = g /\ "left" = Other(Other(d))) /\ top = s.child[Other(Other(d))][g]
      BY <1>1, <1>2, <1>3
    <2>2. Balanced(z, S, [h EXCEPT ![g] = h[top], ![top] = h[g]], nil, "left")
      BY <1>1, <1>2, <1>3, <1>4, <1>5, <2>1, TurnBalanced
    <2> QED
      BY <2>2
  <1>7. s.color[inner] = BLACK
    <2>1. inner # bottom
      <3>1. s.child[d][top] # nil /\ d # Other(d)
        BY <1>1, <1>2, Sides
      <3> QED
        BY <1>1, <1>2, <3>1, OneSide
    <2>2. s.color[top] = RED /\ top \in S /\ Other(d) \in Side
      BY <1>1, <1>2
    <2>3. s \in Tree /\ Shape(s, S, under) /\ RedBut(s, S, bottom) /\ s.color[nil] = BLACK
      BY <1>1
    <2> QED
      BY <2>1, <2>2, <2>3, RedParent
  <1>8. RedBut(z, S, nil)
    <2>1. \A m \in S : \/ s.color[m] = BLACK \/ s.color[s.parent[m]] = BLACK
                       \/ s.parent[m] = top
      BY <1>1 DEF RedBut
    <2> QED
      BY <1>1, <1>2, <1>3, <1>4, <1>5, <1>7, <2>1, TurnRed
  <1>9. bottom # g /\ bottom # top
    <2>1. s.child[d][top] # top
      BY <1>1, Inside
    <2> QED
      BY <1>1, <1>2, <2>1
  <1>10. z.color = y.color
    BY <1>5 DEF Rotated
  <1>11. z.color[bottom] = RED /\ z.color[nil] = BLACK
    BY <1>1, <1>2, <1>4, <1>9, <1>10 DEF Exchanged
  <1> QED
    BY <1>6, <1>8, <1>11

\* Both red children of a black node pass their color on to it.
LEMMA Passing ==
    ASSUME NEW s \in Tree, NEW S \in SUBSET Address, NEW g \in S, NEW a \in S, NEW b \in S,
           a # b, a # g, b # g
    PROVE  Passed(s, Paint(Paint(Paint(s, a, BLACK), b, BLACK), g, RED), g, a, b)
  <1>1. /\ RED \in {RED, BLACK} /\ BLACK \in {RED, BLACK}
        /\ g \in Address /\ a \in Address /\ b \in Address
    OBVIOUS
  <1> DEFINE x == Paint(s, a, BLACK)
             y == Paint(x, b, BLACK)
             z == Paint(y, g, RED)
  <1>2. Painted(s, x, a, BLACK)
    BY <1>1, PaintIs
  <1> HIDE DEF x
  <1>3. Painted(x, y, b, BLACK)
    BY <1>1, <1>2, PaintIs DEF Painted
  <1> HIDE DEF y
  <1>4. Painted(y, z, g, RED)
    BY <1>1, <1>3, PaintIs DEF Painted
  <1> HIDE DEF z
  <1>5. Passed(s, z, g, a, b)
    BY <1>1, <1>2, <1>3, <1>4 DEF Painted, Passed, Relinked
  <1> QED
    BY <1>5 DEF x, y, z

\* What the first turn, where there is one, makes of a red node c with a red
\* parent p, child on side d of g, whose other child is black.
LEMMA LinedUp ==
    ASSUME NEW s \in Tree, NEW S, NEW under, Shape(s, S, under), NEW c \in S, NEW p \in S,
           NEW g \in S, s.parent[c] = p, s.parent[p] = g, NEW d \in Side, p = s.child[d][g],
           s.color[c] = RED, s.color[p] = RED, s.color[g] = BLACK, s.color[nil] = BLACK,
           s.color[s.child[Other(d)][g]] = BLACK,
           RedBut(s, S, c), NEW h, Balanced(s, S, h, nil, "left"),
           NEW z, z = IF c = s.child[Other(d)][p] THEN Rotate(s, p, d) ELSE s,
           NEW top, top = IF c = s.child[Other(d)][p] THEN c ELSE p,
           NEW bottom, bottom = IF c = s.child[Other(d)][p] THEN p ELSE c
    PROVE  \E w, k : Shape(z, S, w) /\ Lined(z, S, k, g, d, top, bottom)
  <1>1. /\ S \subseteq Address /\ nil \notin S /\ nil \in Address /\ RED # BLACK
        /\ Other(d) \in Side /\ Other(Other(d)) = d /\ Other(d) # d
    BY Inside, Sides DEF RED, BLACK
  <1>2. p # c /\ g # p /\ g # c
    <2>1. p # s.root /\ c # s.root
      BY <1>1, RootIs
    <2> QED
      BY <2>1, <1>1, SideIs
  <1>3. CASE c = s.child[Other(d)][p]
    <2>1. z = Rotate(s, p, d) /\ bottom = p /\ top = c /\ c # nil
      BY <1>1, <1>3
    <2>2. Rotated(s, z, S, p, d)
      BY <1>1, <1>3, <2>1, RotateIs
    <2>3. Shape(z, S, Turned(s, under, p, d))
      BY <1>1, <1>3, <2>1, <2>2, RotateShape
    <2>4. Balanced(z, S, h, nil, "left")
      BY <1>1, <1>3, <2>1, <2>2, RedTurnBalanced
    <2>5. RedBut(z, S, p)
      BY <1>3, <2>1, <2>2, RedTurnRed
    <2>6. s.child[Other(d)][g] # p
      BY <1>1, OneSide
    <2>7. /\ z \in Tree /\ z.color = s.color /\ z.parent[p] = c
          /\ z.child[d][c] = p /\ z.child[d][g] = c
          /\ z.child[Other(d)][g] = s.child[Other(d)][g]
      BY <1>1, <1>2, <1>3, <2>1, <2>2, <2>6 DEF Rotated
    <2>8. Lined(z, S, h, g, d, c, p)
      BY <1>3, <2>4, <2>5, <2>7 DEF Lined
    <2> QED
      BY <2>1, <2>3, <2>8
  <1>4. CASE c # s.child[Other(d)][p]
    <2>1. z = s /\ bottom = c /\ top = p
      BY <1>4
    <2>2. c = s.child[d][p]
      BY <1>4, ChildOf
    <2>3. Lined(s, S, h, g, d, p, c)
      BY <2>2 DEF Lined
    <2> QED
      BY <2>1, <2>3
  <1> QED
    BY <1>3, <1>4

LEMMA InsertFixupColors ==
    ASSUME TreeInv, ColorInv, InsertFixup
    PROVE  ColorInv'
  <1>1. PICK under : Fits(under)
    BY DEF TreeInv
  <1> DEFINE parent == t.parent[cur]
             grandparent == t.parent[parent]
             d == SideOf(t, parent)
             uncle == t.child[Other(d)][grandparent]
             inner == cur = t.child[Other(d)][parent]
             straight == IF inner THEN Rotate(t, parent, d) ELSE t
             bottom == IF inner THEN parent ELSE cur
             top == straight.parent[bottom]
  <1>2. /\ pc = "insert_fixup" /\ pc' = pc /\ live' = live
        /\ parent # nil /\ t.color[parent] = RED /\ grandparent # nil
        /\ \/ /\ t.color[uncle] = RED
              /\ t' = Paint(Paint(Paint(t, parent, BLACK), uncle, BLACK), grandparent, RED)
              /\ cur' = grandparent
           \/ /\ t.color[uncle] # RED
              /\ t' = Rotate(Paint(Paint(straight, top, BLACK), grandparent, RED),
                             grandparent, Other(d))
              /\ cur' = bottom
    BY DEF InsertFixup, RedRed
  <1>3. Linked = live /\ Linked' = live
    BY <1>2 DEF Linked
  <1>4. t \in Tree /\ Shape(t, live, under)
    BY <1>1, <1>3 DEF Fits, Good
  <1>5. /\ live \subseteq Address /\ nil \notin live /\ nil \in Address /\ RED # BLACK
    BY TypedIs DEF TreeInv, RED, BLACK
  <1>6. cur \in live /\ parent \in live /\ grandparent \in live
    <2>1. cur \in live
      BY <1>1, <1>2 DEF Fits, Fixing
    <2>2. parent \in live
      BY <1>2, <1>4, <2>1 DEF Shape, Rooted, Hung
    <2>3. grandparent \in live
      BY <1>2, <1>4, <2>2 DEF Shape, Rooted, Hung
    <2> QED
      BY <2>1, <2>2, <2>3
  <1>7. /\ d \in Side /\ Other(d) \in Side /\ Other(Other(d)) = d /\ Other(d) # d
        /\ parent = t.child[d][grandparent]
        /\ parent # cur /\ grandparent # parent
    <2>1. parent # t.root
      BY <1>2, <1>4, <1>6, RootIs
    <2>2. d \in Side /\ t.child[d][grandparent] = parent /\ grandparent # parent
      BY <1>4, <1>6, <2>1, SideIs
    <2>3. cur # t.root
      BY <1>2, <1>4, <1>6, RootIs
    <2>4. parent # cur
      BY <1>4, <1>6, <2>3, SideIs
    <2> QED
      BY <2>2, <2>4, Sides
  <1>8. PICK h : Balanced(t, live, h, nil, "left")
    BY <1>2, <1>3 DEF ColorInv, Owed
  <1>9. RedBut(t, live, cur) /\ t.color[nil] = BLACK /\ t.color[cur] = RED
    BY <1>2, <1>3 DEF ColorInv, RedApart, RedBut, Fresh
  <1>10. t.color[grandparent] = BLACK
    BY <1>2, <1>5, <1>6, <1>7, <1>9 DEF RedBut
  <1>b. PICK new : new = cur'
    OBVIOUS
  <1> DEFINE Safe(c) == /\ RedBut(t', live, c) /\ t'.color[c] = RED /\ t'.color[nil] = BLACK
                        /\ \E k : Balanced(t', live, k, nil, "left")
  <1> HIDE DEF parent, grandparent, d
  <1>11. ASSUME t.color[uncle] = RED,
                t' = Paint(Paint(Paint(t, parent, BLACK), uncle, BLACK), grandparent, RED),
                cur' = grandparent
         PROVE  Safe(new)
    <2>1. uncle \in live /\ uncle # grandparent /\ uncle # parent
      <3>1. uncle \in live /\ uncle # grandparent
        BY <1>4, <1>5, <1>6, <1>7, <1>9, <1>11, Below
      <3>2. uncle # parent
        BY <1>4, <1>6, <1>7, <3>1, <1>5, OneSide
      <3> QED
        BY <3>1, <3>2
    <2>2. Passed(t, t', grandparent, parent, uncle)
      BY <1>4, <1>5, <1>6, <1>7, <1>11, <2>1, Passing
    <2>3. Balanced(t', live, [h EXCEPT ![parent] = h[parent] + 1, ![uncle] = h[uncle] + 1],
                   nil, "left")
      BY <1>2, <1>4, <1>6, <1>7, <1>8, <1>10, <1>11, <2>1, <2>2, PassBalanced
    <2>4. RedBut(t', live, grandparent)
      <3>1. t.parent[cur] = parent
        BY DEF parent
      <3> QED
        BY <1>4, <1>6, <1>7, <1>9, <2>1, <2>2, <3>1, PassRed
    <2>5. t'.color[grandparent] = RED /\ t'.color[nil] = BLACK
      BY <1>5, <1>6, <1>9, <2>1, <2>2 DEF Passed
    <2>6. Safe(grandparent)
      BY <2>3, <2>4, <2>5
    <2> QED
      BY <1>b, <1>11, <2>6
  <1>12. ASSUME t.color[uncle] # RED,
                t' = Rotate(Paint(Paint(straight, top, BLACK), grandparent, RED),
                            grandparent, Other(d)),
                cur' = bottom
         PROVE  Safe(new)
    <2>0. t.color[uncle] = BLACK
      <3>1. uncle \in Address
        BY <1>4, <1>5, <1>6, <1>7 DEF Tree
      <3> QED
        BY <1>4, <1>12, <3>1 DEF Tree
    <2>1. \E w, k : Shape(straight, live, w)
                       /\ Lined(straight, live, k, grandparent, d, top, bottom)
      <3>1. PICK z, m, b : /\ z = straight /\ b = bottom
                           /\ m = IF inner THEN cur ELSE parent
        OBVIOUS
      <3>2. t.parent[cur] = parent /\ t.parent[parent] = grandparent
        BY DEF parent, grandparent
      <3>3. \E w, k : Shape(z, live, w) /\ Lined(z, live, k, grandparent, d, m, b)
        <4> HIDE DEF straight, top, bottom
        <4>1. /\ z = IF cur = t.child[Other(d)][parent] THEN Rotate(t, parent, d) ELSE t
              /\ m = IF cur = t.child[Other(d)][parent] THEN cur ELSE parent
              /\ b = IF cur = t.child[Other(d)][parent] THEN parent ELSE cur
          BY <3>1 DEF straight, bottom
        <4> QED
          BY <1>2, <1>4, <1>6, <1>7, <1>8, <1>9, <1>10, <2>0, <3>2, <4>1, LinedUp
      <3>4. z.parent[b] = m
        BY <3>3 DEF Lined
      <3> QED
        BY <3>1, <3>3, <3>4
    <2> HIDE DEF straight, top, bottom, uncle
    <2>2. PICK w, k : Shape(straight, live, w)
                       /\ Lined(straight, live, k, grandparent, d, top, bottom)
      BY <2>1
    <2>3. /\ RedBut(t', live, nil) /\ t'.color[bottom] = RED /\ t'.color[nil] = BLACK
          /\ \E l : Balanced(t', live, l, nil, "left")
      BY <1>12, <2>2, TurnUp
    <2>4. RedBut(t', live, bottom)
      BY <1>5, <2>3 DEF RedBut
    <2>5. Safe(bottom)
      BY <2>3, <2>4
    <2> QED
      BY <1>b, <1>12, <2>5
  <1>13. Safe(new)
    <2> HIDE DEF Safe, straight, top, bottom, uncle
    <2> QED
      BY <1>2, <1>11, <1>12
  <1>14. PICK k : Balanced(t', live, k, nil, "left")
    BY <1>13
  <1>15. t'.color[nil] = BLACK /\ Fresh' /\ RootBlack'
    BY <1>2, <1>b, <1>13 DEF Fresh, RootBlack
  <1>16. RedApart'
    BY <1>2, <1>3, <1>b, <1>13 DEF RedApart, RedBut
  <1>17. Owed(k)'
    BY <1>2, <1>3, <1>14 DEF Owed
  <1> QED
    BY <1>15, <1>16, <1>17 DEF ColorInv

-----------------------------------------------------------------------------
(* A node is taken out.                                                    *)
\* A node whose parent is in the tree is not the root.
LEMMA NotRoot ==
    ASSUME NEW s \in Tree, NEW S, NEW under, Shape(s, S, under), NEW c, s.parent[c] \in S
    PROVE  c # s.root
  <1>1. nil \notin S
    BY Inside
  <1> QED
    BY <1>1 DEF Shape, Rooted

LEMMA RemovedColors ==
    ASSUME TreeInv, NEW p \in live, NEW s, NEW v, Good(s, live \ {p}, v),
           NEW c, NEW original, Removed(p, s, original, c), s.color[nil] = BLACK,
           original = BLACK => /\ RedBut(s, live \ {p}, c)
                               /\ \E h : OwedAt(s, live \ {p}, h, c),
           original # BLACK => /\ RedBut(s, live \ {p}, nil) /\ s.color[s.root] = BLACK
                               /\ \E h : Balanced(s, live \ {p}, h, nil, "left")
    PROVE  ColorInv'
  <1>0. nil \notin live /\ p \in Node \ (live \ {p})
    BY TypedIs DEF TreeInv
  <1>1. CASE original = BLACK
    <2>1. /\ t' = s /\ cur' = c /\ pc' = "erase_fixup" /\ node' = p /\ live' = live
      BY <1>1 DEF Removed
    <2>2. Linked' = live \ {p}
      BY <2>1 DEF Linked
    <2>3. PICK h : OwedAt(s, live \ {p}, h, c)
      BY <1>1
    <2>4. Owed(h)'
      BY <2>1, <2>2, <2>3 DEF Owed
    <2>5. Fresh' /\ RootBlack' /\ RedApart'
      BY <1>1, <2>1, <2>2 DEF Fresh, RootBlack, RedApart, RedBut
    <2> QED
      BY <2>1, <2>4, <2>5 DEF ColorInv
  <1>2. CASE original # BLACK
    <2>1. t' = Blank(s, p) /\ live' = live \ {p} /\ pc' = "idle"
      BY <1>2 DEF Removed, Free, Return
    <2>2. Linked' = live \ {p}
      BY <2>1 DEF Linked
    <2>3. PICK h : Balanced(s, live \ {p}, h, nil, "left")
      BY <1>2
    <2>4. /\ RedBut(s, live \ {p}, nil) => RedBut(t', live \ {p}, nil)
          /\ Balanced(t', live \ {p}, h, nil, "left")
          /\ t'.color[t'.root] = s.color[s.root] /\ t'.color[nil] = s.color[nil]
      BY <1>0, <2>1, <2>3, BlankColors DEF Good
    <2> QED
      BY <1>0, <1>2, <2>1, <2>2, <2>4, Calmed
  <1> QED
    BY <1>1, <1>2

LEMMA EraseOneChildColors ==
    ASSUME TreeInv, ColorInv, NEW p \in Node, EraseOneChild(p)
    PROVE  ColorInv'
  <1>1. PICK under : Fits(under)
    BY DEF TreeInv
  <1>2. PICK d \in Side :
          /\ t.child[d][p] = nil
          /\ Removed(p, Transplant(t, p, t.child[Other(d)][p]), t.color[p], t.child[Other(d)][p])
    BY DEF EraseOneChild
  <1>3. pc = "idle" /\ p \in live
    BY DEF EraseOneChild
  <1>a. Good(t, live, under) /\ Linked = live
    BY <1>1, <1>3 DEF Fits, Linked
  <1>4. t \in Tree /\ Shape(t, live, under) /\ Linked = live
    BY <1>a DEF Good
  <1> DEFINE c == t.child[Other(d)][p]
             z == Transplant(t, p, c)
             S == live \ {p}
  <1>5. /\ Good(z, S, Without(under, p)) /\ c \in S \cup {nil}
    BY <1>2, <1>3, <1>a, TransplantGood
  <1>6. Removed(p, z, t.color[p], c)
    BY <1>2
  <1>7. nil \notin live /\ live \subseteq Address /\ c \in Address /\ RED # BLACK /\ p # nil
    <2>1. live \subseteq Address /\ nil \notin live /\ nil \in Address
      BY TypedIs DEF TreeInv
    <2> QED
      BY <1>3, <1>5, <2>1 DEF RED, BLACK
  <1>8. Excised(t, z, live, p, c)
    BY <1>3, <1>4, <1>7, TransplantIs
  <1>9. c = t.child[Other(d)][p]
    OBVIOUS
  <1> HIDE DEF z, c, S
  <1>10. z \in Tree /\ Shape(z, S, Without(under, p)) /\ z.color = t.color
    BY <1>5, <1>8 DEF Good, Excised
  <1>11. PICK h : Balanced(t, live, h, nil, "left")
    BY <1>3, <1>4, Calm
  <1>12. RedBut(t, live, nil) /\ t.color[nil] = BLACK /\ t.color[t.root] = BLACK
    BY <1>3, <1>4, Calm
  <1>13. /\ RedBut(z, S, c)
         /\ t.color[p] = RED => RedBut(z, S, nil)
    BY <1>2, <1>3, <1>4, <1>8, <1>9, <1>12, ExciseRed DEF S
  <1>14. /\ t.color[p] = RED => Balanced(z, S, h, nil, "left")
         /\ p = t.root => Balanced(z, S, h, nil, "left")
         /\ \A f \in Side :
               t.color[p] = BLACK /\ p # t.root /\ t.child[f][t.parent[p]] = p
                  => Balanced(z, S, h, t.parent[p], f)
    BY <1>2, <1>3, <1>4, <1>8, <1>9, <1>11, ExciseBalanced DEF S
  <1>15. t.color[p] # BLACK => t.color[p] = RED
    BY <1>3, <1>4, <1>7 DEF Tree
  <1>16. ASSUME t.color[p] = BLACK PROVE OwedAt(z, S, h, c)
    <2>1. CASE p = t.root
      BY <1>8, <1>14, <2>1 DEF OwedAt, Excised
    <2>2. CASE p # t.root
      <3> DEFINE f == SideOf(t, p)
                 q == t.parent[p]
      <3>1. f \in Side /\ q \in live /\ q # p /\ t.child[f][q] = p
        BY <1>3, <1>4, <2>2, SideIs
      <3>2. z.parent[c] = q /\ z.child[f][q] = c
        BY <1>7, <1>8, <3>1 DEF Excised
      <3>3. Balanced(z, S, h, q, f)
        BY <1>14, <1>16, <2>2, <3>1
      <3>4. q \in S
        BY <3>1 DEF S
      <3> HIDE DEF q, f
      <3>5. c # z.root
        BY <1>10, <3>2, <3>4, NotRoot
      <3> QED
        BY <3>1, <3>2, <3>3, <3>5 DEF OwedAt
    <2> QED
      BY <2>1, <2>2
  <1>17. ASSUME t.color[p] # BLACK
         PROVE  z.color[z.root] = BLACK
    <2>1. p # t.root
      BY <1>12, <1>17
    <2> QED
      BY <1>8, <1>12, <2>1 DEF Excised
  <1> QED
    BY <1>3, <1>5, <1>6, <1>10, <1>12, <1>13, <1>14, <1>15, <1>16, <1>17, RemovedColors DEF S

LEMMA EraseSuccessorColors ==
    ASSUME TreeInv, ColorInv, EraseSuccessor
    PROVE  ColorInv'
  <1>1. PICK under : Fits(under)
    BY DEF TreeInv
  <1> DEFINE c == t.child["right"][cur]
             rp == t.child["right"][node]
             l == t.child["left"][node]
             y == Transplant(t, cur, c)
             z == Succeeded(cur, c)
             S == live \ {node}
             R == live \ {cur}
  <1>2. pc = "successor" /\ t.child["left"][cur] = nil /\ Removed(node, z, t.color[cur], c)
    BY DEF EraseSuccessor, Succeeded
  <1>3. Linked = live
    BY <1>2 DEF Linked
  <1>4. Good(t, live, under) /\ t \in Tree /\ Shape(t, live, under)
    BY <1>1, <1>3 DEF Fits, Good
  <1>5. node \in live /\ l # nil /\ OnEdge(t, under, rp, cur) /\ cur \in under[rp]
    BY <1>1, <1>2 DEF Fits, Seeking, OnEdge
  <1>6. /\ nil \notin live /\ live \subseteq Address
        /\ live \subseteq Node /\ nil \in Address /\ RED # BLACK
    BY TypedIs DEF TreeInv, RED, BLACK
  <1>7. /\ cur \in live /\ cur # node /\ rp \in live /\ l \in live /\ l # rp
        /\ c \in live \cup {nil} /\ c # cur /\ c # node
        /\ t.parent[cur] = node <=> cur = rp
        /\ t.parent[cur] \in live /\ t.parent[cur] # cur /\ cur # t.root
        /\ l # cur
    BY <1>2, <1>4, <1>5, Heir
  <1>8. PICK v : Good(z, S, v)
    <2> HIDE DEF z
    <2>1. \E v : Good(Succeeded(cur, c), S, v)
      BY <1>2, <1>4, <1>5, SucceedGood
    <2> QED
      BY <2>1 DEF z
  <1>9. Succeeded(cur, c) = z
    OBVIOUS
  <1>10. Inherited(t, z, live, node, cur, c, rp)
    BY <1>2, <1>4, <1>5, <1>9, SucceededIs
  <1> HIDE DEF z
  <1>a. "left" \in Side /\ "right" \in Side /\ Other("left") = "right"
    BY DEF Side, Other
  <1>11. Excised(t, y, live, cur, c) /\ c \in Address
    <2>1. c \in Address
      BY <1>6, <1>7
    <2> QED
      BY <1>4, <1>7, <2>1, TransplantIs
  <1> HIDE DEF y
  <1>12. Renamed(y, z, R, node, cur)
    BY <1>2, <1>4, <1>5, <1>10, <1>11, InheritedIs
  <1>13. c = t.child[Other("left")][cur]
    BY <1>a
  <1> DEFINE low == Without(under, cur)
  <1>14. Shape(y, R, low) /\ y \in Tree /\ y.color = t.color
    <2>1. Shape(y, R, low)
      BY <1>2, <1>4, <1>7, <1>a, <1>11, <1>13, ExciseShape
    <2> QED
      BY <1>11, <2>1 DEF Excised
  <1> HIDE DEF low
  <1>15. node \in R /\ cur \in Node \ R /\ (R \ {node}) \cup {cur} = S
    BY <1>5, <1>6, <1>7
  <1>16. /\ \A x \in Address : z.color[x] = IF x = cur THEN t.color[node] ELSE t.color[x]
    BY <1>10 DEF Inherited
  <1>17. /\ z.color[cur] = y.color[node] /\ z.color[nil] = t.color[nil]
         /\ \A x \in R \ {node} : z.color[x] = y.color[x]
    BY <1>6, <1>7, <1>14, <1>16
  <1>18. PICK h : Balanced(t, live, h, nil, "left")
    BY <1>2, <1>3, Calm
  <1>19. RedBut(t, live, nil) /\ t.color[nil] = BLACK /\ t.color[t.root] = BLACK
    BY <1>2, <1>3, Calm
  <1>20. /\ RedBut(y, R, c)
         /\ t.color[cur] = RED => RedBut(y, R, nil)
    BY <1>2, <1>4, <1>7, <1>a, <1>11, <1>13, <1>19, ExciseRed
  <1> DEFINE q == t.parent[cur]
             f == SideOf(t, cur)
  <1>21. f \in Side /\ t.child[f][q] = cur /\ q \in live /\ q # cur
    BY <1>4, <1>7, SideIs
  <1>22. /\ t.color[cur] = RED => Balanced(y, R, h, nil, "left")
         /\ t.color[cur] = BLACK => Balanced(y, R, h, q, f)
    <2>1. /\ t.color[cur] = RED => Balanced(y, R, h, nil, "left")
          /\ \A g \in Side :
                t.color[cur] = BLACK /\ cur # t.root /\ t.child[g][t.parent[cur]] = cur
                   => Balanced(y, R, h, t.parent[cur], g)
      BY <1>2, <1>4, <1>7, <1>a, <1>11, <1>13, <1>18, ExciseBalanced
    <2> QED
      BY <1>7, <1>21, <2>1
  <1> DEFINE k == [h EXCEPT ![cur] = h[node]]
  <1>23. /\ RedBut(z, S, c)
         /\ t.color[cur] = RED => RedBut(z, S, nil)
    <2>1. z.color[nil] = BLACK /\ c # node /\ nil # node
      BY <1>6, <1>7, <1>15, <1>17, <1>19
    <2>2. RedBut(z, (R \ {node}) \cup {cur}, c)
      BY <1>12, <1>14, <1>15, <1>17, <1>20, <2>1, RenameRed
    <2>3. t.color[cur] = RED => RedBut(z, (R \ {node}) \cup {cur}, nil)
      BY <1>12, <1>14, <1>15, <1>17, <1>20, <2>1, RenameRed
    <2> QED
      BY <1>15, <2>2, <2>3
  <1>24. /\ t.color[cur] = RED => Balanced(z, S, k, nil, "left")
         /\ t.color[cur] = BLACK => Balanced(z, S, k, Named(q, node, cur), f)
    <2> HIDE DEF q, f, S, R
    <2>0. nil # cur /\ Named(nil, node, cur) = nil
      BY <1>6, <1>7, <1>5 DEF Named
    <2>1. ASSUME t.color[cur] = RED PROVE Balanced(z, S, k, nil, "left")
      <3>1. Balanced(z, (R \ {node}) \cup {cur}, k, Named(nil, node, cur), "left")
        BY <1>12, <1>14, <1>15, <1>17, <1>22, <2>0, <2>1, RenameBalanced
      <3> QED
        BY <1>15, <2>0, <3>1
    <2>2. ASSUME t.color[cur] = BLACK PROVE Balanced(z, S, k, Named(q, node, cur), f)
      <3>1. Balanced(z, (R \ {node}) \cup {cur}, k, Named(q, node, cur), f)
        BY <1>12, <1>14, <1>15, <1>17, <1>21, <1>22, <2>2, RenameBalanced
      <3> QED
        BY <1>15, <3>1
    <2> QED
      BY <2>1, <2>2
  <1> HIDE DEF k
  <1>25. t.color[cur] # BLACK => t.color[cur] = RED
    BY <1>4, <1>6, <1>7 DEF Tree
  <1>26. ASSUME t.color[cur] = BLACK PROVE OwedAt(z, S, k, c)
    <2>1. z.parent[c] = Named(q, node, cur)
      BY <1>5, <1>7, <1>10, <1>11 DEF Inherited, Named
    <2>2. z.child[f][Named(q, node, cur)] = c
      <3>1. CASE cur = rp
        <4>1. q = node /\ Named(q, node, cur) = cur
          BY <1>7, <3>1 DEF Named
        <4>2. f = "right"
          BY <1>7, <1>21, <4>1 DEF Side
        <4> QED
          BY <1>6, <1>7, <1>10, <3>1, <4>1, <4>2, <1>a DEF Inherited
      <3>2. CASE cur # rp
        <4>1. q # node /\ Named(q, node, cur) = q
          BY <1>7, <3>2 DEF Named
        <4> QED
          BY <1>6, <1>7, <1>10, <1>21, <3>2, <4>1 DEF Inherited
      <3> QED
        BY <3>1, <3>2
    <2>3. Named(q, node, cur) \in S
      BY <1>7, <1>21 DEF Named
    <2>4. c # z.root
      BY <1>8, <2>1, <2>3, NotRoot DEF Good
    <2>5. Balanced(z, S, k, Named(q, node, cur), f)
      BY <1>24, <1>26
    <2> HIDE DEF q, f
    <2> QED
      BY <1>21, <2>1, <2>2, <2>4, <2>5 DEF OwedAt
  <1>27. ASSUME t.color[cur] # BLACK PROVE z.color[z.root] = BLACK
    <2>1. z.root = IF node = t.root THEN cur ELSE t.root
      BY <1>10 DEF Inherited
    <2>2. t.root \in Address
      BY <1>4 DEF Tree
    <2> QED
      BY <1>6, <1>7, <1>16, <1>19, <2>1, <2>2
  <1>28. z.color[nil] = BLACK
    BY <1>17, <1>19
  <1> HIDE DEF c
  <1> QED
    BY <1>2, <1>5, <1>8, <1>23, <1>24, <1>25, <1>26, <1>27, <1>28, RemovedColors

-----------------------------------------------------------------------------
(* An iteration of the loop of an erasure.                                 *)
\* Node n on side d of p lacks a black, and is black.
Debt(s, S, under, h, n, p, d) ==
    /\ s \in Tree /\ Shape(s, S, under) /\ s.color[nil] = BLACK
    /\ p \in S /\ d \in Side /\ n = s.child[d][p] /\ s.parent[n] = p
    /\ s.color[n] = BLACK /\ RedBut(s, S, nil)
    /\ Balanced(s, S, h, p, d)

\* Its brother is a node, and SideOf finds the side.
LEMMA DebtIs ==
    ASSUME NEW s, NEW S, NEW under, NEW h, NEW n, NEW p, NEW d, Debt(s, S, under, h, n, p, d),
           NEW bro, bro = s.child[Other(d)][p]
    PROVE  /\ s \in Tree /\ Shape(s, S, under) /\ s.color[nil] = BLACK
           /\ p \in S /\ d \in Side /\ n = s.child[d][p] /\ s.parent[n] = p
           /\ s.color[n] = BLACK /\ RedBut(s, S, nil) /\ Balanced(s, S, h, p, d)
           /\ bro \in S /\ bro # nil /\ bro # p /\ bro # n /\ n # p /\ s.parent[bro] = p
           /\ n \in S \cup {nil} /\ n \in Address
           /\ SideOf(s, n) = d
           /\ Other(d) \in Side /\ Other(Other(d)) = d /\ Other(d) # d
           /\ nil \notin S /\ S \subseteq Address /\ nil \in Address /\ RED # BLACK
           /\ Brother(s, n, d) = bro
  <1>1. /\ s \in Tree /\ Shape(s, S, under) /\ s.color[nil] = BLACK
        /\ p \in S /\ d \in Side /\ n = s.child[d][p] /\ s.parent[n] = p
        /\ s.color[n] = BLACK /\ RedBut(s, S, nil) /\ Balanced(s, S, h, p, d)
    BY DEF Debt
  <1>2. /\ Other(d) \in Side /\ Other(Other(d)) = d /\ Other(d) # d /\ Side = {d, Other(d)}
        /\ nil \notin S /\ S \subseteq Address /\ nil \in Address /\ RED # BLACK
    BY <1>1, Sides, Inside DEF RED, BLACK
  <1>3. bro \in S \cup {nil} /\ (bro # nil => s.parent[bro] = p) /\ bro # p
    BY <1>1, <1>2, Below
  <1>4. n \in S \cup {nil} /\ n # p
    BY <1>1, <1>2, Below
  <1>5. bro # nil
    <2>1. /\ h[p] = h[n] + Lacks(p, d, p, d) + Blacks(s, p)
          /\ h[p] = h[bro] + Lacks(p, Other(d), p, d) + Blacks(s, p)
          /\ h[nil] = 0 /\ h \in [Address -> Nat]
      BY <1>1, <1>2 DEF Balanced
    <2>2. /\ Lacks(p, d, p, d) = 1 /\ Lacks(p, Other(d), p, d) = 0
          /\ Blacks(s, p) \in Nat
      BY <1>2 DEF Lacks, Blacks
    <2>3. h[n] \in Nat /\ h[bro] \in Nat
      BY <1>2, <1>3, <1>4, <2>1
    <2>4. h[bro] = h[n] + 1
      BY <2>1, <2>2, <2>3
    <2> QED
      BY <2>1, <2>3, <2>4
  <1>6. bro # n
    BY <1>1, <1>2, <1>5, OneSide
  <1>7. SideOf(s, n) = d
    <2>1. CASE d = "left"
      BY <1>1, <2>1 DEF SideOf
    <2>2. CASE d = "right"
      <3>1. Other(d) = "left"
        BY <2>2 DEF Other
      <3> QED
        BY <1>1, <1>6, <2>2, <3>1 DEF SideOf
    <2> QED
      BY <1>1, <2>1, <2>2 DEF Side
  <1>8. Brother(s, n, d) = bro
    BY <1>1 DEF Brother
  <1> QED
    BY <1>1, <1>2, <1>3, <1>4, <1>5, <1>6, <1>7, <1>8

\* Case 1 leaves n with a black brother.
LEMMA BlackBrotherDebt ==
    ASSUME NEW s, NEW S, NEW under, NEW h, NEW n, NEW p, NEW d, Debt(s, S, under, h, n, p, d)
    PROVE  \E w, g : /\ Debt(BlackBrother(s, n, d), S, w, g, n, p, d)
                     /\ BlackBrother(s, n, d).color[
                           BlackBrother(s, n, d).child[Other(d)][p]] = BLACK
  <1> DEFINE bro == s.child[Other(d)][p]
  <1>1. /\ s \in Tree /\ Shape(s, S, under) /\ s.color[nil] = BLACK
        /\ p \in S /\ d \in Side /\ n = s.child[d][p] /\ s.parent[n] = p
        /\ s.color[n] = BLACK /\ RedBut(s, S, nil) /\ Balanced(s, S, h, p, d)
    BY DebtIs
  <1>2. /\ bro \in S /\ bro # nil /\ bro # p /\ bro # n /\ n # p /\ s.parent[bro] = p
        /\ n \in S \cup {nil} /\ n \in Address
        /\ Other(d) \in Side /\ Other(Other(d)) = d /\ Other(d) # d
        /\ nil \notin S /\ S \subseteq Address /\ nil \in Address /\ RED # BLACK
        /\ Brother(s, n, d) = bro
    BY DebtIs
  <1>3. CASE s.color[bro] # RED
    <2>1. BlackBrother(s, n, d) = s
      BY <1>2, <1>3 DEF BlackBrother
    <2>2. s.color[bro] = BLACK
      BY <1>1, <1>2, <1>3 DEF Tree
    <2> QED
      BY <2>1, <2>2
  <1>4. CASE s.color[bro] = RED
    <2> DEFINE y == Paint(Paint(s, bro, BLACK), p, RED)
               z == Rotate(y, p, d)
               inner == s.child[d][bro]
    <2>1. BlackBrother(s, n, d) = z
      BY <1>1, <1>2, <1>4 DEF BlackBrother
    <2>2. s.color[p] = BLACK
      BY <1>1, <1>2, <1>4 DEF RedBut
    <2> HIDE DEF bro
    <2>3. Exchanged(s, y, p, bro) /\ Shape(y, S, under)
      BY <1>1, <1>2, <1>4, <2>2, Exchange
    <2> HIDE DEF y
    <2>4. y \in Tree /\ y.child = s.child /\ y.parent = s.parent
      BY <2>3 DEF Exchanged, Relinked
    <2>b. bro = s.child[Other(d)][p]
      BY DEF bro
    <2>5. Rotated(y, z, S, p, d)
      BY <1>1, <1>2, <2>3, <2>4, <2>b, RotateIs
    <2> HIDE DEF z
    <2>6. Balanced(z, S, [h EXCEPT ![p] = h[bro], ![bro] = h[p]], p, d)
      BY <1>1, <1>2, <1>4, <2>2, <2>3, <2>5, <2>b, TurnBalanced
    <2>7. s.color[inner] = BLACK
      <3>1. RedBut(s, S, bro) /\ inner # bro
        BY <1>1, <1>2, Inside DEF RedBut
      <3> QED
        BY <1>1, <1>2, <1>4, <3>1, RedParent
    <2>8. RedBut(z, S, nil)
      <3>1. \A m \in S : \/ s.color[m] = BLACK \/ s.color[s.parent[m]] = BLACK
                         \/ s.parent[m] = bro
        BY <1>1, <1>2 DEF RedBut
      <3> QED
        BY <1>1, <1>2, <1>4, <2>2, <2>3, <2>5, <2>7, <2>b, <3>1, TurnRed
    <2>9. inner \in (S \cup {nil}) \ {p, bro}
      <3>1. Family(S, under, s, p, bro, inner, s.child[Other(d)][bro], n)
        BY <1>1, <1>2, <2>b, Turning
      <3> QED
        BY <3>1 DEF Family
    <2>10. z \in Tree /\ Shape(z, S, Turned(y, under, p, d))
      <3>1. y.child[Other(d)][p] # nil /\ y \in Tree
        BY <1>1, <1>2, <2>4, <2>b
      <3>2. Shape(z, S, Turned(y, under, p, d))
        BY <1>1, <1>2, <2>3, <2>5, <3>1, RotateShape
      <3> QED
        BY <2>5, <3>2 DEF Rotated
    <2>11. z.child[d][p] = n /\ z.child[Other(d)][p] = inner
      BY <1>1, <1>2, <2>4, <2>5, <2>b DEF Rotated
    <2>12. z.parent[n] = p
      BY <1>1, <1>2, <2>4, <2>5, <2>b DEF Rotated
    <2>13. z.color[n] = BLACK /\ z.color[inner] = BLACK /\ z.color[nil] = BLACK
      <3>1. z.color = y.color /\ inner \in Address
        BY <1>2, <2>5, <2>9 DEF Rotated
      <3>2. \A x \in Address \ {p, bro} : z.color[x] = s.color[x]
        BY <2>3, <3>1 DEF Exchanged
      <3> QED
        BY <1>1, <1>2, <2>7, <2>9, <3>1, <3>2
    <2> HIDE DEF inner
    <2>14. \E w, g : Debt(z, S, w, g, n, p, d)
      <3>1. Debt(z, S, Turned(y, under, p, d), [h EXCEPT ![p] = h[bro], ![bro] = h[p]], n, p, d)
        BY <1>1, <2>6, <2>8, <2>10, <2>11, <2>12, <2>13 DEF Debt
      <3> QED
        BY <3>1
    <2> QED
      BY <2>1, <2>11, <2>13, <2>14
  <1> QED
    BY <1>3, <1>4

\* A debt whose brother is black and has a red far child: a last turn pays it.
Straight(u, S, n, p, d) ==
    \E w, g : /\ Debt(u, S, w, g, n, p, d)
              /\ u.color[u.child[Other(d)][p]] = BLACK
              /\ u.color[u.child[Other(d)][u.child[Other(d)][p]]] = RED

\* Case 3 leaves n with a black brother whose far child is red.
LEMMA StraightenDebt ==
    ASSUME NEW s, NEW S, NEW under, NEW h, NEW n, NEW p, NEW d, Debt(s, S, under, h, n, p, d),
           NEW b, b = s.child[Other(d)][p], s.color[b] = BLACK,
           \E e \in Side : s.color[s.child[e][b]] # BLACK,
           NEW u, u = StraightenBrother(s, n, d)
    PROVE  Straight(u, S, n, p, d)
  <1> SUFFICES \E w, g : /\ Debt(u, S, w, g, n, p, d)
                         /\ u.color[u.child[Other(d)][p]] = BLACK
                         /\ u.color[u.child[Other(d)][u.child[Other(d)][p]]] = RED
    BY DEF Straight
  <1> DEFINE o == Other(d)
  <1>1. /\ s \in Tree /\ Shape(s, S, under) /\ s.color[nil] = BLACK
        /\ p \in S /\ d \in Side /\ n = s.child[d][p] /\ s.parent[n] = p
        /\ s.color[n] = BLACK /\ RedBut(s, S, nil) /\ Balanced(s, S, h, p, d)
    BY DebtIs
  <1>2. /\ b \in S /\ b # nil /\ b # p /\ b # n /\ n # p /\ s.parent[b] = p
        /\ n \in S \cup {nil} /\ n \in Address
        /\ o \in Side /\ Other(o) = d /\ o # d
        /\ nil \notin S /\ S \subseteq Address /\ nil \in Address /\ RED # BLACK
        /\ Brother(s, n, d) = b
    BY DebtIs
  <1>3. s.child[o][b] \in S \cup {nil} /\ s.child[d][b] \in S \cup {nil}
    BY <1>1, <1>2, Below
  <1>b. b = s.child[o][p]
    OBVIOUS
  <1>c. /\ \A x \in S : x \in under[x]
        /\ \A x \in S, e \in Side : /\ under[s.child[e][x]] \subseteq under[x]
                                    /\ x \notin under[s.child[e][x]]
    BY <1>1, Inside
  <1>4. CASE s.color[s.child[o][b]] # BLACK
    <2>1. u = s
      BY <1>2, <1>4 DEF StraightenBrother
    <2>2. s.color[s.child[o][b]] = RED
      BY <1>1, <1>2, <1>3, <1>4 DEF Tree
    <2> QED
      BY <2>1, <2>2
  <1>5. CASE s.color[s.child[o][b]] = BLACK
    <2> DEFINE near == s.child[d][b]
               y == Paint(Paint(s, near, BLACK), b, RED)
               inner == s.child[o][near]
    <2>1. u = Rotate(y, b, o)
      BY <1>2, <1>5 DEF StraightenBrother
    <2>2. near \in S /\ s.color[near] = RED
      <3>1. s.color[near] # BLACK
        BY <1>1, <1>2, <1>5, Sides
      <3>2. near \in Address
        BY <1>2, <1>3
      <3> QED
        BY <1>1, <1>3, <3>1, <3>2 DEF Tree
    <2>3. near # nil /\ near # b /\ s.parent[near] = b /\ near # p
      <3>1. near # nil /\ near # b /\ s.parent[near] = b
        BY <1>1, <1>2, <2>2, Below
      <3>2. near # p
        <4>1. b \in under[b] /\ near \in under[near]
          BY <1>2, <1>c, <2>2
        <4>2. p \notin under[b]
          BY <1>1, <1>2, <1>b, <1>c
        <4>3. under[near] \subseteq under[b]
          BY <1>1, <1>2, <1>c
        <4> QED
          BY <4>1, <4>2, <4>3
      <3> QED
        BY <3>1, <3>2
    <2>n. near = s.child[Other(o)][b]
      BY <1>2
    <2> HIDE DEF near, o
    <2>4. Exchanged(s, y, b, near) /\ Shape(y, S, under)
      BY <1>1, <1>2, <2>2, <2>3, Exchange
    <2> HIDE DEF y
    <2>5. y \in Tree /\ y.child = s.child /\ y.parent = s.parent
      BY <2>4 DEF Exchanged, Relinked
    <2>6. Rotated(y, u, S, b, o)
      BY <1>1, <1>2, <2>1, <2>3, <2>4, <2>5, <2>n, RotateIs
    <2>7. Balanced(u, S, [h EXCEPT ![b] = h[near], ![near] = h[b]], p, d)
      BY <1>1, <1>2, <2>2, <2>3, <2>4, <2>6, <2>n, TurnBalanced
    <2>8. s.color[inner] = BLACK
      <3>1. RedBut(s, S, near) /\ inner # near
        BY <1>1, <1>2, <2>2, Inside DEF RedBut
      <3> QED
        BY <1>1, <1>2, <2>2, <3>1, RedParent
    <2>9. RedBut(u, S, nil)
      <3>1. \A m \in S : \/ s.color[m] = BLACK \/ s.color[s.parent[m]] = BLACK
                         \/ s.parent[m] = near
        BY <1>1, <1>2 DEF RedBut
      <3> QED
        BY <1>1, <1>2, <1>5, <2>2, <2>3, <2>4, <2>6, <2>8, <2>n, <3>1, TurnRed
    <2>m. near = y.child[Other(o)][b] /\ inner = y.child[o][near]
      BY <2>5, <2>n
    <2> HIDE DEF inner
    <2>r. /\ u \in Tree /\ u.color = y.color
          /\ \A x \in Address :
                u.parent[x] = IF x = b THEN near
                              ELSE IF x = near THEN y.parent[b]
                              ELSE IF x = inner /\ x # nil THEN b ELSE y.parent[x]
          /\ \A e \in Side, x \in Address :
                u.child[e][x] = IF x = b THEN (IF e = o THEN y.child[o][b] ELSE inner)
                                ELSE IF x = near THEN (IF e = o THEN b ELSE y.child[e][near])
                                ELSE IF x \in S /\ y.child[e][x] = b THEN near
                                ELSE y.child[e][x]
      <3>1. /\ u \in Tree /\ u.color = y.color
            /\ \A x \in Address :
                  u.parent[x] = IF x = b THEN y.child[Other(o)][b]
                                ELSE IF x = y.child[Other(o)][b] THEN y.parent[b]
                                ELSE IF x = y.child[o][y.child[Other(o)][b]] /\ x # nil THEN b
                                ELSE y.parent[x]
            /\ \A e \in Side, x \in Address :
                  u.child[e][x] = IF x = b THEN (IF e = o THEN y.child[o][b]
                                                 ELSE y.child[o][y.child[Other(o)][b]])
                                  ELSE IF x = y.child[Other(o)][b]
                                       THEN (IF e = o THEN b
                                             ELSE y.child[e][y.child[Other(o)][b]])
                                  ELSE IF x \in S /\ y.child[e][x] = b THEN y.child[Other(o)][b]
                                  ELSE y.child[e][x]
        BY <2>6 DEF Rotated
      <3>2. y.child[o][near] = inner /\ y.child[Other(o)][b] = near
        BY <2>m
      <3>3. ASSUME NEW x \in Address
            PROVE  u.parent[x] = IF x = b THEN near
                                 ELSE IF x = near THEN y.parent[b]
                                 ELSE IF x = inner /\ x # nil THEN b ELSE y.parent[x]
        BY <3>1, <3>2
      <3>4. ASSUME NEW e \in Side, NEW x \in Address
            PROVE  u.child[e][x] = IF x = b THEN (IF e = o THEN y.child[o][b] ELSE inner)
                                   ELSE IF x = near THEN (IF e = o THEN b ELSE y.child[e][near])
                                   ELSE IF x \in S /\ y.child[e][x] = b THEN near
                                   ELSE y.child[e][x]
        BY <3>1, <3>2
      <3> QED
        BY <3>1, <3>3, <3>4
    <2>10. Shape(u, S, Turned(y, under, b, o))
      <3>1. y.child[Other(o)][b] # nil
        BY <2>3, <2>m
      <3> QED
        BY <1>2, <2>4, <2>5, <2>6, <3>1, RotateShape
    <2>11. n # near
      BY <1>1, <1>2, <2>3
    <2>12. u.child[d][p] = n /\ u.child[o][p] = near /\ u.child[o][near] = b
      <3>1. /\ p \in Address /\ near \in Address /\ p \in S
            /\ y.child[d][p] = n /\ y.child[o][p] = b /\ y.child = s.child
        BY <1>1, <1>2, <1>b, <2>2, <2>5
      <3>2. u.child[o][near] = b
        BY <1>2, <2>3, <2>r, <3>1
      <3>3. u.child[d][p] = n
        BY <1>1, <1>2, <2>3, <2>r, <3>1
      <3>4. u.child[o][p] = near
        BY <1>2, <2>3, <2>r, <3>1
      <3> QED
        BY <3>2, <3>3, <3>4
    <2>13. u.parent[n] = p
      <3>1. inner # nil => s.parent[inner] = near
        BY <1>1, <1>2, <2>2, Below DEF inner
      <3>2. n = inner => n = nil
        BY <1>1, <2>3, <3>1
      <3>3. u.parent[n] = IF n = b THEN near
                          ELSE IF n = near THEN y.parent[b]
                          ELSE IF n = inner /\ n # nil THEN b ELSE y.parent[n]
        BY <1>2, <2>r
      <3> QED
        BY <1>1, <1>2, <2>5, <2>11, <3>2, <3>3
    <2>14. u.color[n] = BLACK /\ u.color[near] = BLACK /\ u.color[nil] = BLACK /\ u.color[b] = RED
      <3>1. u.color = y.color
        BY <2>r
      <3> QED
        BY <1>1, <1>2, <2>2, <2>3, <2>4, <2>11, <3>1 DEF Exchanged
    <2>15. Debt(u, S, Turned(y, under, b, o), [h EXCEPT ![b] = h[near], ![near] = h[b]], n, p, d)
      BY <1>1, <2>7, <2>9, <2>r, <2>10, <2>12, <2>13, <2>14 DEF Debt
    <2> QED
      BY <2>12, <2>14, <2>15 DEF o
  <1> QED
    BY <1>4, <1>5

\* Case 4 pays the debt.
LEMMA TurnBrotherPays ==
    ASSUME NEW s, NEW S, NEW under, NEW h, NEW n, NEW p, NEW d, Debt(s, S, under, h, n, p, d),
           s.color[s.child[Other(d)][p]] = BLACK,
           s.color[s.child[Other(d)][s.child[Other(d)][p]]] = RED,
           NEW z, z = TurnBrother(s, n, d)
    PROVE  /\ RedBut(z, S, nil) /\ z.color[nil] = BLACK
           /\ \E g : Balanced(z, S, g, nil, "left")
  <1> DEFINE b == s.child[Other(d)][p]
             far == s.child[Other(d)][b]
             x == Paint(s, b, s.color[p])
             y == Paint(x, p, BLACK)
             w == Paint(y, far, BLACK)
  <1>1. /\ s \in Tree /\ Shape(s, S, under) /\ s.color[nil] = BLACK
        /\ p \in S /\ d \in Side /\ n = s.child[d][p] /\ s.parent[n] = p
        /\ s.color[n] = BLACK /\ RedBut(s, S, nil) /\ Balanced(s, S, h, p, d)
    BY DebtIs
  <1>2. /\ b \in S /\ b # nil /\ b # p
        /\ Other(d) \in Side /\ Other(Other(d)) = d
        /\ nil \notin S /\ S \subseteq Address /\ nil \in Address /\ RED # BLACK
        /\ Brother(s, n, d) = b
    BY DebtIs
  <1>3. z = Rotate(w, p, d)
    BY <1>1, <1>2 DEF TurnBrother
  <1>b. /\ b = s.child[Other(d)][p] /\ far = s.child[Other(d)][b]
        /\ s.color[b] = BLACK /\ s.color[far] = RED
    OBVIOUS
  <1> HIDE DEF b, far
  <1>4. far \in S /\ far # nil /\ far # b /\ far # p
    <2>1. far \in (S \cup {nil}) \ {p, b}
      <3>1. Family(S, under, s, p, b, s.child[d][b], far, n)
        BY <1>1, <1>2, <1>b, Turning
      <3> QED
        BY <3>1 DEF Family
    <2> QED
      BY <1>1, <1>2, <1>b, <2>1
  <1>5. p \in Address /\ b \in Address /\ far \in Address /\ s.color[p] \in {RED, BLACK}
        /\ BLACK \in {RED, BLACK}
    BY <1>1, <1>2, <1>4 DEF Tree
  <1>6. Painted(s, x, b, s.color[p])
    BY <1>1, <1>5, PaintIs
  <1> HIDE DEF x
  <1>7. Painted(x, y, p, BLACK)
    BY <1>5, <1>6, PaintIs DEF Painted
  <1> HIDE DEF y
  <1>8. Painted(y, w, far, BLACK)
    BY <1>5, <1>7, PaintIs DEF Painted
  <1> HIDE DEF w
  <1>9. Lent(s, w, p, b, far)
    BY <1>1, <1>2, <1>4, <1>5, <1>6, <1>7, <1>8 DEF Painted, Lent, Relinked
  <1>10. Shape(w, S, under) /\ w \in Tree /\ w.child = s.child /\ w.color[nil] = BLACK
    BY <1>1, <1>2, <1>4, <1>9, SameShape DEF Lent, Relinked
  <1>11. Rotated(w, z, S, p, d)
    BY <1>1, <1>2, <1>3, <1>b, <1>10, RotateIs
  <1>12. Balanced(z, S, [h EXCEPT ![p] = h[b], ![b] = h[p], ![far] = h[far] + 1], nil, "left")
    BY <1>1, <1>2, <1>b, <1>4, <1>9, <1>11, LentBalanced
  <1>13. RedBut(z, S, nil)
    BY <1>1, <1>2, <1>b, <1>4, <1>9, <1>11, LentRed
  <1>14. z.color[nil] = BLACK
    BY <1>10, <1>11 DEF Rotated
  <1> QED
    BY <1>12, <1>13, <1>14

\* Case 2 passes the debt on to the parent.
LEMMA SinkPasses ==
    ASSUME NEW s, NEW S, NEW under, NEW h, NEW n, NEW p, NEW d, Debt(s, S, under, h, n, p, d),
           NEW b, b = s.child[Other(d)][p], s.color[b] = BLACK,
           \A e \in Side : s.color[s.child[e][b]] = BLACK,
           NEW z, z = Paint(s, b, RED)
    PROVE  /\ \A m \in S : z.color[m] = BLACK \/ z.color[z.parent[m]] = BLACK \/ z.parent[m] = p
           /\ z.color[nil] = BLACK
           /\ \E g : OwedAt(z, S, g, p)
  <1>1. /\ s \in Tree /\ Shape(s, S, under) /\ s.color[nil] = BLACK
        /\ p \in S /\ d \in Side /\ RedBut(s, S, nil) /\ Balanced(s, S, h, p, d)
    BY DebtIs
  <1>2. /\ b \in S /\ b # nil /\ b # p /\ s.parent[b] = p
        /\ nil \notin S /\ S \subseteq Address /\ nil \in Address /\ RED # BLACK
    BY DebtIs
  <1>3. Repainted(s, z, b, RED)
    BY <1>1, <1>2, Repaint
  <1>4. z.parent = s.parent /\ z.child = s.child /\ z.root = s.root
        /\ \A x \in Address \ {b} : z.color[x] = s.color[x]
    BY <1>3 DEF Repainted, Relinked
  <1>5. ASSUME NEW m \in S
        PROVE  z.color[m] = BLACK \/ z.color[z.parent[m]] = BLACK \/ z.parent[m] = p
    <2>1. s.parent[m] \in Address
      BY <1>1, <1>2 DEF Tree
    <2>2. CASE m = b
      BY <1>2, <1>4, <2>2
    <2>3. CASE m # b /\ s.parent[m] = b
      <3>1. s.color[m] = BLACK
        BY <1>1, <1>2, <2>3, ChildOf, Sides
      <3> QED
        BY <1>2, <1>4, <2>3, <3>1
    <2>4. CASE m # b /\ s.parent[m] # b
      <3>1. s.color[m] = BLACK \/ s.color[s.parent[m]] = BLACK
        BY <1>1, <1>2 DEF RedBut
      <3> QED
        BY <1>2, <1>4, <2>1, <2>4, <3>1
    <2> QED
      BY <2>2, <2>3, <2>4
  <1>6. PICK g : /\ p = s.root => Balanced(z, S, g, nil, "left")
                 /\ \A f \in Side : p # s.root /\ s.child[f][s.parent[p]] = p
                       => Balanced(z, S, g, s.parent[p], f)
    BY <1>1, <1>2, <1>3, SinkBalanced
  <1>7. OwedAt(z, S, g, p)
    <2>1. CASE p = s.root
      BY <1>4, <1>6, <2>1 DEF OwedAt
    <2>2. CASE p # s.root
      <3>1. SideOf(s, p) \in Side /\ s.child[SideOf(s, p)][s.parent[p]] = p
        BY <1>1, <2>2, SideIs
      <3>2. Balanced(z, S, g, s.parent[p], SideOf(s, p))
        BY <1>6, <2>2, <3>1
      <3> QED
        BY <1>4, <2>2, <3>1, <3>2 DEF OwedAt
    <2> QED
      BY <2>1, <2>2
  <1>8. z.color[nil] = BLACK
    BY <1>1, <1>2, <1>4
  <1> QED
    BY <1>5, <1>7, <1>8

LEMMA EraseFixupColors ==
    ASSUME TreeInv, ColorInv, EraseFixup
    PROVE  ColorInv'
  <1>1. PICK under : Fits(under)
    BY DEF TreeInv
  <1> DEFINE S == live \ {node}
             p == t.parent[cur]
  <1>2. /\ pc = "erase_fixup" /\ pc' = pc /\ live' = live /\ node' = node
        /\ cur # t.root /\ t.color[cur] = BLACK
    BY DEF EraseFixup
  <1>3. Linked = S /\ Linked' = S
    BY <1>2 DEF Linked
  <1>4. t \in Tree /\ Shape(t, S, under) /\ p \in S
    BY <1>1, <1>2, <1>3 DEF Fits, Fixing, Good
  <1>5. PICK h : Owed(h)
    BY DEF ColorInv
  <1>6. PICK d \in Side : cur = t.child[d][p] /\ Balanced(t, S, h, p, d)
    BY <1>2, <1>3, <1>5 DEF Owed, OwedAt
  <1>7. Debt(t, S, under, h, cur, p, d)
    <2>1. RedBut(t, S, nil)
      BY <1>2, <1>3 DEF ColorInv, RedApart, RedBut
    <2> QED
      BY <1>2, <1>4, <1>6, <2>1 DEF Debt, ColorInv
  <1>8. SideOf(t, cur) = d
    BY <1>7, DebtIs
  <1> HIDE DEF p, S
  <1> DEFINE s == BlackBrother(t, cur, d)
             b == s.child[Other(d)][p]
             u == StraightenBrother(s, cur, d)
  <1>9. /\ \/ /\ \A e \in Side : s.color[s.child[e][Brother(s, cur, d)]] = BLACK
              /\ t' = Paint(s, Brother(s, cur, d), RED) /\ cur' = s.parent[cur]
           \/ /\ \E e \in Side : s.color[s.child[e][Brother(s, cur, d)]] # BLACK
              /\ t' = TurnBrother(u, cur, d) /\ cur' = t'.root
    BY <1>8 DEF EraseFixup
  <1>10. PICK w, g : Debt(s, S, w, g, cur, p, d) /\ s.color[b] = BLACK
    BY <1>7, BlackBrotherDebt
  <1> HIDE DEF s
  <1>11. Brother(s, cur, d) = b /\ s.parent[cur] = p
    BY <1>10, DebtIs
  <1>12. CASE /\ \A e \in Side : s.color[s.child[e][b]] = BLACK
              /\ t' = Paint(s, b, RED) /\ cur' = p
    <2>0. b = s.child[Other(d)][p]
      OBVIOUS
    <2> HIDE DEF b
    <2>1. /\ \A m \in S : t'.color[m] = BLACK \/ t'.color[t'.parent[m]] = BLACK \/ t'.parent[m] = p
          /\ t'.color[nil] = BLACK
          /\ \E k : OwedAt(t', S, k, p)
      BY <1>10, <1>12, <2>0, SinkPasses
    <2>2. PICK k : OwedAt(t', S, k, p)
      BY <2>1
    <2>3. Fresh' /\ RootBlack'
      BY <1>2 DEF Fresh, RootBlack
    <2>4. RedApart'
      BY <1>2, <1>3, <1>12, <2>1 DEF RedApart
    <2>5. Owed(k)'
      BY <1>2, <1>3, <1>12, <2>2 DEF Owed
    <2> QED
      BY <2>1, <2>3, <2>4, <2>5 DEF ColorInv
  <1>13. CASE /\ \E e \in Side : s.color[s.child[e][b]] # BLACK
              /\ t' = TurnBrother(u, cur, d) /\ cur' = t'.root
    <2>0. b = s.child[Other(d)][p] /\ u = StraightenBrother(s, cur, d)
      OBVIOUS
    <2> HIDE DEF b, u
    <2>1. PICK x, k : /\ Debt(u, S, x, k, cur, p, d)
                      /\ u.color[u.child[Other(d)][p]] = BLACK
                      /\ u.color[u.child[Other(d)][u.child[Other(d)][p]]] = RED
      <3>1. Debt(s, S, w, g, cur, p, d) /\ s.color[b] = BLACK
        BY <1>10
      <3>2. \E e \in Side : s.color[s.child[e][b]] # BLACK
        BY <1>13
      <3>3. Straight(u, S, cur, p, d)
        BY <2>0, <3>1, <3>2, StraightenDebt
      <3> QED
        BY <3>3 DEF Straight
    <2>2. /\ RedBut(t', S, nil) /\ t'.color[nil] = BLACK
          /\ \E l : Balanced(t', S, l, nil, "left")
      BY <1>13, <2>1, TurnBrotherPays
    <2>3. PICK l : Balanced(t', S, l, nil, "left")
      BY <2>2
    <2>4. Fresh' /\ RootBlack'
      BY <1>2 DEF Fresh, RootBlack
    <2>5. RedApart'
      <3>1. \A m \in S : t'.color[m] = BLACK \/ t'.color[t'.parent[m]] = BLACK
                            \/ m = nil
        BY <2>2 DEF RedBut
      <3>2. nil \notin S
        BY <1>10, DebtIs
      <3> QED
        BY <1>2, <1>3, <3>1, <3>2 DEF RedApart
    <2>6. Owed(l)'
      BY <1>2, <1>3, <1>13, <2>3 DEF Owed, OwedAt
    <2> QED
      BY <2>2, <2>4, <2>5, <2>6 DEF ColorInv
  <1> QED
    BY <1>9, <1>11, <1>12, <1>13

LEMMA EraseDoneColors ==
    ASSUME TreeInv, ColorInv, EraseDone
    PROVE  ColorInv'
  <1>1. PICK under : Fits(under)
    BY DEF TreeInv
  <1> DEFINE S == live \ {node}
             s == Paint(t, cur, BLACK)
             z == Paint(s, t.root, BLACK)
  <1>2. /\ pc = "erase_fixup" /\ (cur = t.root \/ t.color[cur] # BLACK)
        /\ t' = Blank(z, node) /\ live' = S /\ pc' = "idle"
    BY DEF EraseDone, Free, Return
  <1>3. Linked = S /\ Linked' = S
    BY <1>2 DEF Linked
  <1>4. /\ Good(t, S, under) /\ t \in Tree /\ Shape(t, S, under) /\ node \in live
        /\ cur \in S \cup {nil} /\ (cur # t.root => t.parent[cur] \in S)
    BY <1>1, <1>2, <1>3 DEF Fits, Fixing, Good
  <1>5. /\ nil \notin S /\ S \subseteq Address
        /\ nil \in Address /\ node \in Node \ S /\ cur \in Address
        /\ t.root \in Address /\ S \in SUBSET Address
    BY <1>4, TypedIs DEF TreeInv, Tree
  <1>6. BLACK \in {RED, BLACK} /\ t.color[nil] = BLACK
    BY DEF ColorInv
  <1>7. Repainted(t, s, cur, BLACK) /\ Good(s, S, under)
    BY <1>4, <1>5, <1>6, Repaint, PaintGood
  <1> HIDE DEF S, s
  <1>8. s \in Tree /\ s.root = t.root /\ Shape(s, S, under)
    BY <1>7 DEF Repainted, Relinked, Good
  <1>9. Repainted(s, z, s.root, BLACK) /\ Good(z, S, under)
    BY <1>5, <1>6, <1>7, <1>8, Repaint, PaintGood
  <1> HIDE DEF z
  <1>10. RedBut(s, S, nil)
    <2>1. \A m \in S : \/ t.color[m] = BLACK \/ t.color[t.parent[m]] = BLACK
                       \/ m = nil \/ m = cur \/ t.parent[m] = cur
      BY <1>2, <1>3 DEF ColorInv, RedApart
    <2> QED
      BY <1>4, <1>5, <1>7, <2>1, BlackenRed
  <1>11. RedBut(z, S, nil)
    <2>1. \A m \in S : \/ s.color[m] = BLACK \/ s.color[s.parent[m]] = BLACK
                       \/ m = nil \/ m = s.root \/ s.parent[m] = s.root
      BY <1>10 DEF RedBut
    <2> QED
      BY <1>5, <1>8, <1>9, <2>1, BlackenRed
  <1>12. PICK h : Owed(h)
    BY DEF ColorInv
  <1>13. \E g : Balanced(s, S, g, nil, "left")
    <2>1. CASE cur = t.root
      <3>1. Balanced(t, S, h, nil, "left")
        BY <1>2, <1>3, <1>12, <2>1 DEF Owed, OwedAt
      <3> QED
        BY <1>4, <1>7, <2>1, <3>1, RootBalanced
    <2>2. CASE cur # t.root
      <3> DEFINE p == t.parent[cur]
      <3>1. PICK d \in Side : cur = t.child[d][p] /\ Balanced(t, S, h, p, d)
        BY <1>2, <1>3, <1>12, <2>2 DEF Owed, OwedAt
      <3>2. cur \in S /\ t.color[cur] = RED
        <4>1. cur # nil
          BY <1>2, <1>6, <2>2
        <4> QED
          BY <1>2, <1>4, <1>5, <2>2, <4>1 DEF Tree
      <3>3. p \in S
        BY <1>4, <2>2
      <3> HIDE DEF p
      <3>4. Balanced(s, S, [h EXCEPT ![cur] = h[cur] + 1], nil, "left")
        BY <1>4, <1>7, <3>1, <3>2, <3>3, OwedBalanced
      <3> QED
        BY <3>4
    <2> QED
      BY <2>1, <2>2
  <1>14. PICK g : Balanced(z, S, g, nil, "left")
    BY <1>8, <1>9, <1>13, RootBalanced
  <1>15. z.color[z.root] = BLACK /\ z.color[nil] = BLACK
    <2>1. s.color[nil] = BLACK
      BY <1>5, <1>6, <1>7 DEF Repainted
    <2> QED
      BY <1>5, <1>9, <2>1 DEF Repainted, Relinked
  <1>16. /\ RedBut(z, S, nil) => RedBut(t', S, nil)
         /\ Balanced(t', S, g, nil, "left")
         /\ t'.color[t'.root] = z.color[z.root] /\ t'.color[nil] = z.color[nil]
    BY <1>2, <1>5, <1>9, <1>14, BlankColors DEF Good
  <1> QED
    BY <1>2, <1>3, <1>5, <1>11, <1>15, <1>16, Calmed

-----------------------------------------------------------------------------
(* The theorem.                                                            *)
LEMMA CallColors ==
    ASSUME TreeInv, ColorInv, CallStep
    PROVE  ColorInv'
  <1>1. ASSUME Successor \/ FindNext \/ FindHit \/ FindMiss \/ OutmostNext \/ OutmostDone
        PROVE  ColorInv'
    BY <1>1, QuietColors
       DEF Successor, FindNext, FindHit, FindMiss, OutmostNext, OutmostDone, Return, Side
  <1> QED
    BY <1>1, DescendColors, LinkColors, InsertFixupColors, InsertDoneColors,
       EraseSuccessorColors, EraseFixupColors, EraseDoneColors DEF CallStep

LEMMA NextColors ==
    ASSUME FileInv, FileInv', ColorInv, [Next]_allvars
    PROVE  ColorInv'
  <1>1. file = "rbtree.c" /\ TreeInv /\ TreeInv'
    BY DEF FileInv
  <1>2. CASE Running
    BY <1>1, <1>2, CallColors DEF Running
  <1>3. ASSUME NEW n \in Node, Insert(n) \/ EraseOneChild(n) \/ EraseTwoChildren(n)
        PROVE  ColorInv'
    <2>1. CASE EraseTwoChildren(n)
      BY <1>1, <2>1, QuietColors DEF EraseTwoChildren
    <2> QED
      BY <1>1, <1>3, <2>1, InsertColors, EraseOneChildColors
  <1>4. CASE LookUp
    BY <1>1, <1>4, QuietColors DEF LookUp, Find, Outmost, Side
  <1>5. CASE delete_rbtree
    BY <1>1, <1>5, DeleteColors
  <1>6. CASE new_rbtree
    BY <1>1, <1>6, QuietColors DEF new_rbtree
  <1>7. CASE UNCHANGED allvars
    <2>1. UNCHANGED <<t, live, pc, arg, node, cur, res, file>>
      BY <1>7 DEF allvars
    <2>2. Linked' = Linked
      BY <2>1 DEF Linked
    <2>3. Fresh' /\ RootBlack' /\ RedApart' /\ t'.color[nil] = BLACK
      BY <2>1, <2>2 DEF ColorInv, Fresh, RootBlack, RedApart
    <2>4. PICK h : Owed(h)
      BY DEF ColorInv
    <2>5. Owed(h)'
      BY <2>1, <2>2, <2>4 DEF Owed
    <2> QED
      BY <2>3, <2>5 DEF ColorInv
  <1> QED
    BY <1>1, <1>2, <1>3, <1>4, <1>5, <1>6, <1>7 DEF Next

(* For any nodes and keys, after every step of rbtree.c: between calls the *)
(* tree is red-black; in the loop of insert_fixup a red node has a red     *)
(* parent only at the cursor, and in the loop of erase_fixup exactly one   *)
(* black is missing, at the cursor.                                        *)
THEOREM TreeStaysRedBlack == Spec /\ file = "rbtree.c" => []RedBlack
  <1>1. Begin => ColorInv
    BY InitColors DEF Begin
  <1>2. FileInv /\ FileInv' /\ ColorInv /\ [Next]_allvars => ColorInv'
    BY NextColors
  <1>3. FileInv /\ ColorInv => RedBlack
    BY RedBlackHolds DEF FileInv
  <1> QED
    BY <1>1, <1>2, <1>3, InvHolds, PTL DEF Spec

=============================================================================
