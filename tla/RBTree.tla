------------------------------- MODULE RBTree -------------------------------
(***************************************************************************)
(* The red-black tree of rbtree-lab-main/src/rbtree.c, with its sentinel   *)
(* nil, at the level of its pointers.  An iteration of a loop is a step of *)
(* its own; the rotations and transplant are operators on the tree.  What  *)
(* the code writes out once for the left and once for the right is written *)
(* once, for a side d.                                                     *)
(***************************************************************************)
EXTENDS Integers, FiniteSets, Sequences, SequencesExt

CONSTANTS
    Node,       \* the addresses calloc has for nodes
    KeyOf,      \* the key a node is used for (see Insert)
    nil         \* the address of the sentinel

ASSUME KeyAssumption ==
    /\ KeyOf \in [Node -> Int]
    /\ nil \notin Node
    /\ IsFiniteSet(Node)

Key == {KeyOf[n] : n \in Node}

RED   == "red"
BLACK == "black"
Side == {"left", "right"}
Other(d) == IF d = "left" THEN "right" ELSE "left"

VARIABLES
    t,      \* the tree: its root and the fields of its nodes
    live,   \* the nodes that are allocated
    pc,     \* where the call is; "idle" between two calls
    arg,    \* the key of rbtree_insert or rbtree_find
    node,   \* the node that is inserted or erased
    cur,    \* the cursor of the loop at hand
    res     \* the node before the cursor; the result of a look-up

vars == <<t, live, pc, arg, node, cur, res>>

-----------------------------------------------------------------------------
(* new_rbtree.                                                             *)
Empty == [root   |-> nil,
          key    |-> [n \in Node \cup {nil} |-> 0],
          color  |-> [n \in Node \cup {nil} |-> BLACK],
          parent |-> [n \in Node \cup {nil} |-> nil],
          child  |-> [d \in Side |-> [n \in Node \cup {nil} |-> nil]]]

Init ==
    /\ t = Empty
    /\ live = {}
    /\ pc = "idle"
    /\ arg = 0
    /\ node = nil /\ cur = nil /\ res = nil

(* The operators take a tree s and return the tree that results.           *)
Paint(s, n, c) == [s EXCEPT !.color[n] = c]
SetParent(s, n, p) == [s EXCEPT !.parent[n] = p]
SetChild(s, d, n, m) == [s EXCEPT !.child[d][n] = m]

\* The side of its parent that n is on.
SideOf(s, n) == IF n = s.child["left"][s.parent[n]] THEN "left" ELSE "right"

\* Whatever points down to n points to m instead.
Replace(s, n, m) ==
    IF n = s.root THEN [s EXCEPT !.root = m]
                  ELSE SetChild(s, SideOf(s, n), s.parent[n], m)

\* Mutated form of Rotate: the subtree that changes sides keeps its parent.
Rotate_Inner(s, n, d) ==
    LET up    == s.child[Other(d)][n]
        inner == s.child[d][up]
        above == SetParent(Replace(s, n, up), up, s.parent[n])
        down  == SetChild(above, Other(d), n, inner)
    IN  IF up = nil THEN s ELSE SetChild(SetParent(down, n, up), d, up, n)

(* left_rotate (d = "left") and right_rotate: n goes down on side d, its   *)
(* child on the other side takes its place.                                *)
Rotate(s, n, d) ==
    LET up    == s.child[Other(d)][n]
        inner == s.child[d][up]
        above == SetParent(Replace(s, n, up), up, s.parent[n])
        moved == IF inner = nil THEN above ELSE SetParent(above, inner, n)
        down  == SetChild(moved, Other(d), n, inner)
    IN  IF up = nil THEN s ELSE SetChild(SetParent(down, n, up), d, up, n)

(* transplant: v takes the place of u, the sentinel too.                   *)
Transplant(s, u, v) ==
    SetParent(IF s.parent[u] = nil
                THEN [s EXCEPT !.root = v]
                ELSE SetChild(s, SideOf(s, u), s.parent[u], v),
              v, s.parent[u])

\* The call returns: its variables are gone.
Return == pc' = "idle" /\ arg' = 0 /\ node' = nil /\ cur' = nil /\ res' = nil

-----------------------------------------------------------------------------
(* rbtree_insert: calloc returns an unused node.  Which one makes no       *)
(* difference, so that a node can be named after the key it is used for.   *)
Insert(n) ==
    /\ pc = "idle"
    /\ n \notin live
    /\ live' = live \cup {n}
    /\ t' = [t EXCEPT !.key[n] = KeyOf[n], !.color[n] = RED, !.parent[n] = nil,
                      !.child = [d \in Side |-> [@[d] EXCEPT ![n] = nil]]]
    /\ arg' = KeyOf[n] /\ node' = n
    /\ res' = nil /\ cur' = t.root
    /\ pc' = "descend"

Descend ==
    /\ pc = "descend"
    /\ cur # nil
    /\ res' = cur
    /\ cur' = t.child[IF arg < t.key[cur] THEN "left" ELSE "right"][cur]
    /\ UNCHANGED <<t, live, pc, arg, node>>

\* Mutated form of Link: an equal key is linked on the left.
Link_Leq ==
    /\ pc = "descend"
    /\ cur = nil
    /\ LET s == SetParent(t, node, res)
           d == IF arg <= t.key[res] THEN "left" ELSE "right"
       IN  t' = IF res = nil THEN [s EXCEPT !.root = node]
                             ELSE SetChild(s, d, res, node)
    /\ cur' = node
    /\ pc' = "insert_fixup"
    /\ UNCHANGED <<live, arg, node, res>>

Link ==
    /\ pc = "descend"
    /\ cur = nil
    /\ LET s == SetParent(t, node, res)
           d == IF arg < t.key[res] THEN "left" ELSE "right"
       IN  t' = IF res = nil THEN [s EXCEPT !.root = node]
                             ELSE SetChild(s, d, res, node)
    /\ cur' = node
    /\ pc' = "insert_fixup"
    /\ UNCHANGED <<live, arg, node, res>>

\* The condition of insert_fixup's loop, with its break.
RedRed ==
    /\ t.parent[cur] # nil
    /\ t.color[t.parent[cur]] = RED
    /\ t.parent[t.parent[cur]] # nil

\* An iteration of insert_fixup's loop.
InsertFixup ==
    /\ pc = "insert_fixup"
    /\ RedRed
    /\ LET parent == t.parent[cur]
           grandparent == t.parent[parent]
           d == SideOf(t, parent)
           uncle == t.child[Other(d)][grandparent]
           inner == cur = t.child[Other(d)][parent]
           straight == IF inner THEN Rotate(t, parent, d) ELSE t
           bottom == IF inner THEN parent ELSE cur
           top == straight.parent[bottom]
       IN  \/ /\ t.color[uncle] = RED
              /\ t' = Paint(Paint(Paint(t, parent, BLACK), uncle, BLACK),
                            grandparent, RED)
              /\ cur' = grandparent
           \/ /\ t.color[uncle] # RED
              /\ t' = Rotate(Paint(Paint(straight, top, BLACK), grandparent, RED),
                             grandparent, Other(d))
              /\ cur' = bottom
    /\ UNCHANGED <<live, pc, arg, node, res>>

InsertDone ==
    /\ pc = "insert_fixup"
    /\ ~RedRed
    /\ t' = Paint(t, t.root, BLACK)
    /\ Return
    /\ UNCHANGED live

-----------------------------------------------------------------------------
\* Free node p, in tree s; what a freed node holds is forgotten.
Blank(s, p) ==
    [s EXCEPT !.key[p] = 0, !.color[p] = BLACK, !.parent[p] = nil,
              !.child = [d \in Side |-> [@[d] EXCEPT ![p] = nil]]]
Free(s, p) == t' = Blank(s, p) /\ live' = live \ {p} /\ Return

(* p is out of tree s, and c has taken the place of a node that had color  *)
(* original: erase_fixup is called, or p is freed.                         *)
Removed(p, s, original, c) ==
    \/ /\ original = BLACK
       /\ t' = s
       /\ node' = p /\ cur' = c
       /\ pc' = "erase_fixup"
       /\ UNCHANGED <<live, arg, res>>
    \/ /\ original # BLACK
       /\ Free(s, p)

(* rbtree_erase of a node without a left child, or without a right one.    *)
EraseOneChild(p) ==
    /\ pc = "idle"
    /\ p \in live
    /\ \E d \in Side :
          /\ t.child[d][p] = nil
          /\ d = "right" => t.child["left"][p] # nil
          /\ LET c == t.child[Other(d)][p]
             IN  Removed(p, Transplant(t, p, c), t.color[p], c)

\* Of a node with two: the search for its successor begins.
EraseTwoChildren(p) ==
    /\ pc = "idle"
    /\ p \in live
    /\ t.child["left"][p] # nil /\ t.child["right"][p] # nil
    /\ node' = p
    /\ cur' = t.child["right"][p]
    /\ pc' = "successor"
    /\ UNCHANGED <<t, live, arg, res>>

Successor ==
    /\ pc = "successor"
    /\ t.child["left"][cur] # nil
    /\ cur' = t.child["left"][cur]
    /\ UNCHANGED <<t, live, pc, arg, node, res>>

\* Mutated form of TakeOut: the successor keeps its own right subtree.
TakeOut_KeepsRight(r, c) ==
    IF t.parent[r] = node THEN SetParent(t, c, r) ELSE Transplant(t, r, c)

\* The successor r is taken out of the right subtree, its child c moves up.
TakeOut(r, c) ==
    LET gone  == Transplant(t, r, c)
        right == SetChild(gone, "right", r, t.child["right"][node])
        below == SetParent(right, t.child["right"][node], r)
        left  == SetParent(below, below.child["left"][r], r)
    IN  IF t.parent[r] = node THEN SetParent(t, c, r)
                              ELSE SetParent(left, c, left.parent[r])

\* The successor takes the place and the color of the erased node.
EraseSuccessor ==
    /\ pc = "successor"
    /\ t.child["left"][cur] = nil
    /\ LET c == t.child["right"][cur]
           s == Transplant(TakeOut(cur, c), node, cur)
           l == s.child["left"][node]
       IN  Removed(node,
                   Paint(SetParent(SetChild(s, "left", cur, l), l, cur),
                         cur, s.color[node]),
                   t.color[cur], c)

\* The brother of n, which is on side d.
Brother(s, n, d) == s.child[Other(d)][s.parent[n]]

\* Case 1: a red brother is turned up, so that n has a black one.
BlackBrother(s, n, d) ==
    LET bro == Brother(s, n, d)
    IN  IF s.color[bro] = RED
          THEN Rotate(Paint(Paint(s, bro, BLACK), s.parent[n], RED), s.parent[n], d)
          ELSE s

\* Case 3: the brother's red child is the near one, and is turned outside.
StraightenBrother(s, n, d) ==
    LET bro == Brother(s, n, d)
    IN  IF s.color[s.child[Other(d)][bro]] = BLACK
          THEN Rotate(Paint(Paint(s, s.child[d][bro], BLACK), bro, RED), bro, Other(d))
          ELSE s

\* Case 4: the brother is turned up in place of the parent.
TurnBrother(s, n, d) ==
    LET bro == Brother(s, n, d)
        parent == s.parent[n]
    IN  Rotate(Paint(Paint(Paint(s, bro, s.color[parent]), parent, BLACK),
                     s.child[Other(d)][bro], BLACK),
               parent, d)

\* An iteration of erase_fixup's loop: cur lacks one black on its side.
EraseFixup ==
    /\ pc = "erase_fixup"
    /\ cur # t.root /\ t.color[cur] = BLACK
    /\ LET d == SideOf(t, cur) IN
       \E s \in {BlackBrother(t, cur, d)} :
          LET bro == Brother(s, cur, d) IN
          \* Case 2: both children of the brother are black.
          \/ /\ \A e \in Side : s.color[s.child[e][bro]] = BLACK
             /\ t' = Paint(s, bro, RED)
             /\ cur' = s.parent[cur]
          \/ /\ \E e \in Side : s.color[s.child[e][bro]] # BLACK
             /\ \E u \in {StraightenBrother(s, cur, d)} : t' = TurnBrother(u, cur, d)
             /\ cur' = t'.root
    /\ UNCHANGED <<live, pc, arg, node, res>>

\* Mutated form of EraseDone: the node that took the place is not painted.
EraseDone_NoPaint ==
    /\ pc = "erase_fixup"
    /\ cur = t.root \/ t.color[cur] # BLACK
    /\ Free(Paint(t, t.root, BLACK), node)

EraseDone ==
    /\ pc = "erase_fixup"
    /\ cur = t.root \/ t.color[cur] # BLACK
    /\ Free(Paint(Paint(t, cur, BLACK), t.root, BLACK), node)

-----------------------------------------------------------------------------
(* rbtree_find.                                                            *)
Find(k) ==
    /\ pc = "idle"
    /\ pc' = "find"
    /\ arg' = k
    /\ cur' = t.root
    /\ UNCHANGED <<t, live, node, res>>

FindNext ==
    /\ pc = "find"
    /\ cur # nil /\ arg # t.key[cur]
    /\ cur' = t.child[IF arg < t.key[cur] THEN "left" ELSE "right"][cur]
    /\ UNCHANGED <<t, live, pc, arg, node, res>>

FindHit ==
    /\ pc = "find"
    /\ cur # nil /\ arg = t.key[cur]
    /\ Return
    /\ UNCHANGED <<t, live>>

FindMiss ==
    /\ pc = "find"
    /\ cur = nil
    /\ Return
    /\ UNCHANGED <<t, live>>

(* rbtree_min (d = "left") and rbtree_max.                                 *)
Outmost(d) ==
    /\ pc = "idle"
    /\ pc' = d
    /\ cur' = t.root
    /\ UNCHANGED <<t, live, arg, node, res>>

\* Mutated form of OutmostNext: the cursor does not advance.
OutmostNext_Stuck ==
    /\ pc \in Side
    /\ t.child[pc][cur] # nil
    /\ UNCHANGED vars

OutmostNext ==
    /\ pc \in Side
    /\ t.child[pc][cur] # nil
    /\ cur' = t.child[pc][cur]
    /\ UNCHANGED <<t, live, pc, arg, node, res>>

OutmostDone ==
    /\ pc \in Side
    /\ t.child[pc][cur] = nil
    /\ Return
    /\ UNCHANGED <<t, live>>

(* rbtree_to_array: what inorder_fill has written when n is the size of    *)
(* the array.                                                              *)
inorder_fill(n) ==
    LET fill[at \in (Node \cup {nil}) \X Seq(Node)] ==
          LET m == at[1]  arr == at[2] IN
          IF m = nil \/ Len(arr) >= n THEN arr
          ELSE fill[<<t.child["right"][m], Append(fill[<<t.child["left"][m], arr>>], m)>>]
    IN  fill

to_array(n) == inorder_fill(n)[<<t.root, <<>>>>]

(* delete_rbtree: the nodes in the order in which they are freed.          *)
delete_dfs[m \in Node \cup {nil}] ==
    IF m = nil THEN <<>>
    ELSE delete_dfs[t.child["left"][m]] \o delete_dfs[t.child["right"][m]] \o <<m>>

delete_rbtree ==
    /\ pc = "idle"
    /\ live' = live \ ToSet(delete_dfs[t.root])
    /\ t' = Empty
    /\ pc' = "deleted"
    /\ UNCHANGED <<arg, node, cur, res>>

\* Another tree is made.
new_rbtree ==
    /\ pc = "deleted"
    /\ pc' = "idle"
    /\ UNCHANGED <<t, live, arg, node, cur, res>>

-----------------------------------------------------------------------------
\* A step of a call.
CallStep ==
    \/ Descend \/ Link \/ InsertFixup \/ InsertDone
    \/ Successor \/ EraseSuccessor \/ EraseFixup \/ EraseDone
    \/ FindNext \/ FindHit \/ FindMiss
    \/ OutmostNext \/ OutmostDone

=============================================================================
