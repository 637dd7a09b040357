------------------------------ MODULE RBTree2 ------------------------------
(***************************************************************************)
(* The red-black tree of rbtree-lab-main/src/rbtree2.c: the data structure *)
(* of rbtree.h, and so the variables of RBTree, with operations of its     *)
(* own.  An insertion repairs the colors where it can while it climbs; an  *)
(* erasure moves keys, not nodes: the key goes down to a leaf, and the     *)
(* leaf is freed, once the black that it will take with it is made up for. *)
(***************************************************************************)
EXTENDS RBTree

-----------------------------------------------------------------------------
(* rotate_L (d = "left") and rotate_R.  They test for the root where it is *)
(* the node, left_rotate of rbtree.c where it has no parent: in a tree     *)
(* these are the same nodes.                                               *)
TurnDown(s, n, d) == Rotate(s, n, d)

(* rbtree_insert: malloc returns n; into an empty tree, it is all.         *)
Insert2(n, k) ==
    /\ pc = "idle"
    /\ n \notin live
    /\ live' = live \cup {n}
    /\ \E s \in {[t EXCEPT !.key[n] = k, !.color[n] = RED, !.parent[n] = nil,
                           !.child["left"][n] = nil, !.child["right"][n] = nil]} :
          \/ /\ t.root = nil
             /\ t' = Paint([s EXCEPT !.root = n], n, BLACK)
             /\ Return
          \/ /\ t.root # nil
             /\ t' = s
             /\ arg' = k /\ node' = n /\ res' = nil /\ cur' = t.root
             /\ pc' = "sink"

\* The side of cur on which arg belongs.
Toward == IF arg < t.key[cur] THEN "left" ELSE "right"

Sink ==
    /\ pc = "sink"
    /\ t.child[Toward][cur] # nil
    /\ cur' = t.child[Toward][cur]
    /\ UNCHANGED <<t, live, pc, arg, node, res>>

SinkEnd ==
    /\ pc = "sink"
    /\ t.child[Toward][cur] = nil
    /\ t' = SetParent(SetChild(t, Toward, cur, node), node, cur)
    /\ cur' = node
    /\ pc' = "color_fix"
    /\ UNCHANGED <<live, arg, node, res>>

UncleRed(parent, grand, uncle) ==
    /\ \E s \in {Paint(Paint(Paint(t, parent, BLACK), uncle, BLACK), grand, RED)} :
          t' = IF grand = t.root THEN Paint(s, grand, BLACK) ELSE s
    /\ cur' = grand
    /\ UNCHANGED <<live, pc, arg, node, res>>

\* LL and RR turn grand only, LR and RL parent first: top comes up.
UncleBlack(parent, grand, d) ==
    LET inner == cur = t.child[Other(d)][parent]
        s     == TurnDown(IF inner THEN TurnDown(t, parent, d) ELSE t, grand, Other(d))
        top   == IF inner THEN cur ELSE parent
    IN  /\ t' = Paint(Paint(s, grand, RED), top, BLACK)
        /\ Return
        /\ UNCHANGED live

(* An iteration of the loop below "Color Fix".  The call would stop in the *)
(* branch "Edge Error" if a red parent had no parent; there is no action   *)
(* for that, so that a run would deadlock.                                 *)
ColorFix ==
    /\ pc = "color_fix"
    /\ t.color[t.parent[cur]] = RED
    /\ \E parent \in {t.parent[cur]}, d \in Side :
       \E grand \in {t.parent[parent]} :
       \E uncle \in {t.child[Other(d)][grand]} :
          /\ t.child[d][grand] = parent
          /\ \/ t.color[uncle] = RED /\ UncleRed(parent, grand, uncle)
             \/ t.color[uncle] # RED /\ UncleBlack(parent, grand, d)

ColorFixEnd ==
    /\ pc = "color_fix"
    /\ t.color[t.parent[cur]] # RED
    /\ Return
    /\ UNCHANGED <<t, live>>

-----------------------------------------------------------------------------
(* rbtree_erase of the node p points to.                                   *)
Erase2(p) ==
    /\ pc = "idle"
    /\ p \in live
    /\ pc' = "swap"
    /\ arg' = t.key[p] /\ cur' = p /\ res' = p
    /\ UNCHANGED <<t, live, node>>

Leftmost[m \in Node] == IF t.child["left"][m] = nil THEN m ELSE Leftmost[t.child["left"][m]]

\* Whose key cur takes, in exchange for its own.
SwapWith == IF t.child["right"][cur] = nil THEN t.child["left"][cur]
                                           ELSE Leftmost[t.child["right"][cur]]

IsLeaf(n) == t.child["left"][n] = nil /\ t.child["right"][n] = nil

\* Mutated form of Swap: the key that goes down is the one that came up.
Swap_NoTmp ==
    /\ pc = "swap"
    /\ ~IsLeaf(cur)
    /\ t' = [t EXCEPT !.key[cur] = t.key[SwapWith]]
    /\ cur' = SwapWith
    /\ UNCHANGED <<live, pc, arg, node, res>>

Swap ==
    /\ pc = "swap"
    /\ ~IsLeaf(cur)
    /\ t' = [t EXCEPT !.key[cur] = t.key[SwapWith], !.key[SwapWith] = t.key[cur]]
    /\ cur' = SwapWith
    /\ UNCHANGED <<live, pc, arg, node, res>>

\* The victim v leaves tree s: its parent forgets it.
Unlink(s, v) ==
    Blank(IF s.child["right"][s.parent[v]] = v THEN SetChild(s, "right", s.parent[v], nil)
                                               ELSE SetChild(s, "left", s.parent[v], nil),
          v)

FreeLeaf(s, v) == t' = Unlink(s, v) /\ live' = live \ {v} /\ Return

(* erase_node: the root, a red leaf, or a black one, which takes the loop. *)
EraseLeaf ==
    /\ pc = "swap"
    /\ IsLeaf(cur)
    /\ \/ /\ cur = t.root
          /\ t' = Blank([t EXCEPT !.root = nil], cur)
          /\ live' = live \ {cur}
          /\ Return
       \/ /\ cur # t.root
          /\ t.color[cur] = RED
          /\ FreeLeaf(t, cur)
       \/ /\ cur # t.root
          /\ t.color[cur] # RED
          /\ pc' = "erase_node"
          /\ node' = cur
          /\ UNCHANGED <<t, live, arg, cur, res>>

\* A red sibling is turned up; the loop goes round with the next one.
SiblingRed(sibling, parent, d) ==
    /\ t' = TurnDown(Paint(Paint(t, parent, RED), sibling, BLACK), parent, d)
    /\ UNCHANGED <<live, pc, arg, node, cur, res>>

\* Two black nephews: the sibling gives up its black, too.
NephewsBlack(sibling, parent) ==
    \/ /\ t.color[parent] = RED \/ parent = t.root
       /\ FreeLeaf(Paint(Paint(t, sibling, RED), parent, BLACK), node)
    \/ /\ t.color[parent] # RED /\ parent # t.root
       /\ t' = Paint(t, sibling, RED)
       /\ cur' = parent
       /\ UNCHANGED <<live, pc, arg, node, res>>

\* The nephew on the far side is red: LL and RR.
NephewOuter(sibling, parent, d) ==
    LET s == Paint(Paint(t, sibling, t.color[parent]), parent, BLACK)
    IN  FreeLeaf(TurnDown(Paint(s, t.child[Other(d)][sibling], BLACK), parent, d), node)

\* Only the one on the near side: LR and RL.
NephewInner(sibling, parent, d) ==
    LET tmp == t.child[d][sibling]
        s   == TurnDown(Paint(Paint(t, sibling, RED), tmp, BLACK), sibling, Other(d))
        u   == Paint(Paint(s, tmp, s.color[parent]), parent, BLACK)
    IN  FreeLeaf(TurnDown(Paint(u, u.child[Other(d)][tmp], BLACK), parent, d), node)

(* An iteration of erase_node's loop: the paths through cur, child in the  *)
(* code, are to lose a black.                                              *)
EraseNode ==
    /\ pc = "erase_node"
    /\ \E d \in {SideOf(t, cur)}, parent \in {t.parent[cur]} :
       \E sibling \in {t.child[Other(d)][parent]} :
          LET outer == t.color[t.child[Other(d)][sibling]]
              inner == t.color[t.child[d][sibling]]
          IN  \/ t.color[sibling] = RED /\ SiblingRed(sibling, parent, d)
              \/ /\ t.color[sibling] # RED
                 /\ \/ outer = BLACK /\ inner = BLACK /\ NephewsBlack(sibling, parent)
                    \/ outer = RED /\ NephewOuter(sibling, parent, d)
                    \/ outer # RED /\ inner = RED /\ NephewInner(sibling, parent, d)

-----------------------------------------------------------------------------
(* rbtree_find: NULL as soon as the child to follow is missing.            *)
Find2(k) ==
    /\ pc = "idle"
    /\ pc' = "find2"
    /\ arg' = k
    /\ cur' = t.root
    /\ UNCHANGED <<t, live, node, res>>

Find2Next ==
    /\ pc = "find2"
    /\ cur # nil /\ arg # t.key[cur]
    /\ t.child[Toward][cur] # nil
    /\ cur' = t.child[Toward][cur]
    /\ UNCHANGED <<t, live, pc, arg, node, res>>

Find2Hit ==
    /\ pc = "find2"
    /\ cur # nil /\ arg = t.key[cur]
    /\ Return
    /\ UNCHANGED <<t, live>>

Find2Miss ==
    /\ pc = "find2"
    /\ \/ cur = nil
       \/ arg # t.key[cur] /\ t.child[Toward][cur] = nil
    /\ Return
    /\ UNCHANGED <<t, live>>

(* rbtree_min and rbtree_max: NULL for an empty tree; else the loop that   *)
(* rbtree.c has.                                                           *)
Outmost2(d) == t.root # nil /\ Outmost(d)

(* in_order: every node, whatever the size of the array.                   *)
in_order[m \in Node] ==
    LET below(d) == IF t.child[d][m] = nil THEN <<>> ELSE in_order[t.child[d][m]]
    IN  below("left") \o <<m>> \o below("right")

(* rbtree_to_array: what it writes.                                        *)
to_array2 == IF t.root = nil THEN <<>> ELSE in_order[t.root]

(* delete_rbtree: the nodes in the order in which delete_subtree frees them.*)
delete_subtree[m \in Node] ==
    LET below(d) == IF t.child[d][m] = nil THEN <<>> ELSE delete_subtree[t.child[d][m]]
    IN  below("left") \o below("right") \o <<m>>

Deleted2 == IF t.root = nil THEN <<>> ELSE delete_subtree[t.root]

delete_rbtree2 ==
    /\ pc = "idle"
    /\ live' = live \ ToSet(Deleted2)
    /\ t' = Empty
    /\ pc' = "deleted"
    /\ UNCHANGED <<arg, node, cur, res>>

-----------------------------------------------------------------------------
\* A step of a call.
CallStep2 ==
    \/ Sink \/ SinkEnd \/ ColorFix \/ ColorFixEnd
    \/ Swap \/ EraseLeaf \/ EraseNode
    \/ Find2Next \/ Find2Hit \/ Find2Miss
    \/ OutmostNext \/ OutmostDone

=============================================================================
