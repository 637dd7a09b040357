------------------------------ MODULE MCRBTree ------------------------------
(* An instance of RBTrees for TLC.  Nodes are numbered by their keys; the  *)
(* first Few come and go in any order, and three of them share a key.  A   *)
(* deep tree is built by inserting the others in order on top of any tree  *)
(* of the first Few, and then loses these in any order, so that the loop   *)
(* of an erasure climbs and meets each of its cases above the bottom,      *)
(* which takes ten nodes and more.  In rbtree2.c keys move: a key comes to *)
(* the first free node, and a deep tree is built only on a tree whose keys *)
(* are still where they came.                                              *)
EXTENDS RBTrees

CONSTANTS
    Size,   \* the number of nodes
    Few     \* those of them that come and go in any order

MCNode == 1 .. Size
MCKeyOf == [n \in MCNode |-> IF n \in {3, 4, 5} THEN 4 ELSE n]

IsSmall == \A n \in live : t.key[n] <= Few

\* Key number m may be inserted: the small ones into a small tree, the others
\* in order on top of it.
Inserting(m) ==
    /\ Held(KeyOf[m]) < Cardinality({n \in Node : KeyOf[n] = KeyOf[m]})
    /\ \/ m <= Few /\ IsSmall /\ Cardinality(live) < Few
       \/ /\ m > Few
          /\ Cardinality(live) = m - 1
          /\ \A n \in live : t.key[n] = KeyOf[n]

Erasing(n) == IsSmall \/ (Cardinality(live) > Few /\ t.key[n] <= Few
                              /\ \E m \in live : t.key[m] = Size)

IsFirst(n) == \A m \in Node \ live : n <= m

MCNext ==
    \/ Running
    \/ /\ file' = file
       /\ \/ /\ file = "rbtree.c"
             /\ \/ \E n \in Node : Inserting(n) /\ Insert(n)
                \/ \E n \in live : Erasing(n) /\ (EraseOneChild(n) \/ EraseTwoChildren(n))
                \/ IsSmall /\ LookUp
                \/ delete_rbtree
          \/ /\ file = "rbtree2.c"
             /\ \/ \E n \in Node \ live, m \in Node :
                      IsFirst(n) /\ Inserting(m) /\ Insert2(n, KeyOf[m])
                \/ \E n \in live : Erasing(n) /\ Erase2(n)
                \/ IsSmall /\ LookUp2
                \/ delete_rbtree2
          \/ new_rbtree

MCSpec == Begin /\ [][MCNext]_allvars /\ WF_allvars(Running)

=============================================================================
