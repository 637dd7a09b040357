------------------------------ MODULE RBTrees ------------------------------
(***************************************************************************)
(* What a caller of rbtree.h gets from either file that implements it.  A  *)
(* program is linked with one of the two, which makes and erases every     *)
(* node of its tree.                                                       *)
(***************************************************************************)
EXTENDS RBTree2

CONSTANT Files      \* the files to look at

ASSUME FilesAssumption == Files \subseteq {"rbtree.c", "rbtree2.c"}

VARIABLE file       \* the one the program is linked with

allvars == <<t, live, pc, arg, node, cur, res, file>>

\* The program begins with new_rbtree.
Begin == Init /\ file \in Files

\* The look-ups.
LookUp ==
    \/ \E k \in Key \cup {0} : Find(k)
    \/ \E d \in Side : Outmost(d)

LookUp2 ==
    \/ \E k \in Key \cup {0} : Find2(k)
    \/ \E d \in Side : Outmost2(d)

Running ==
    /\ file' = file
    /\ \/ file = "rbtree.c" /\ CallStep
       \/ file = "rbtree2.c" /\ CallStep2

Next ==
    \/ Running
    \/ /\ file' = file
       /\ \/ /\ file = "rbtree.c"
             /\ \/ \E n \in Node : Insert(n) \/ EraseOneChild(n) \/ EraseTwoChildren(n)
                \/ LookUp \/ delete_rbtree
          \/ /\ file = "rbtree2.c"
             /\ \/ \E n \in Node : Erase2(n) \/ \E k \in Key : Insert2(n, k)
                \/ LookUp2 \/ delete_rbtree2
          \/ new_rbtree

Spec == Begin /\ [][Next]_allvars

\* The nodes the tree should consist of: those that are allocated, but for
\* the one that is not linked yet or no longer.
Linked == live \ (IF pc \in {"descend", "sink", "erase_fixup"} THEN {node} ELSE {})

InOrder == IF file = "rbtree.c" THEN to_array(Cardinality(Node) + 1) ELSE to_array2

\* Where rbtree2.c has put the key it erases, which is out of order there.
Displaced == IF pc = "swap" THEN cur ELSE IF pc = "erase_node" THEN node ELSE nil

(* Whatever is inserted and erased, in the middle of a fix-up too, the     *)
(* nodes from left to right are those in the tree, each once and with the  *)
(* keys in order; parents and children agree.  None of the rotations,      *)
(* transplants and swaps of keys loses a node, or follows one that is      *)
(* freed.                                                                  *)
SearchTree ==
    /\ IsInjective(InOrder)
    /\ ToSet(InOrder) = Linked
    /\ \A i, j \in DOMAIN InOrder :
          i < j /\ Displaced \notin {InOrder[i], InOrder[j]}
             => t.key[InOrder[i]] <= t.key[InOrder[j]]
    /\ t.root # nil => t.parent[t.root] = nil
    /\ \A n \in Linked, d \in Side :
          t.child[d][n] # nil => t.parent[t.child[d][n]] = n

\* cur, on side d of m, counts for one black more while the loop of an
\* erasure climbs.
Extra(m, d) ==
    IF pc \in {"erase_fixup", "erase_node"} /\ cur = t.child[d][m] /\ t.parent[cur] = m
      THEN 1 ELSE 0

\* The leaf that erase_node frees in the end does not count any more.
Counts(m) == t.color[m] = BLACK /\ ~(pc = "erase_node" /\ m = node)

\* The black nodes on a path from m down, or -1 if the paths differ.
BlackHeight[m \in Node \cup {nil}] ==
    IF m = nil THEN 0
    ELSE LET left  == BlackHeight[t.child["left"][m]]
             right == BlackHeight[t.child["right"][m]]
         IN  IF left = -1 \/ right = -1
                  \/ left + Extra(m, "left") # right + Extra(m, "right") THEN -1
             ELSE left + Extra(m, "left") + (IF Counts(m) THEN 1 ELSE 0)

(* Between calls the tree is red-black.  In the loop of an insertion a red *)
(* node has a red parent only at cur; in the loop of an erasure one black  *)
(* is missing only at cur, which in rbtree.c may be red between red nodes. *)
RedBlack ==
    /\ t.color[nil] = BLACK
    /\ pc \notin {"insert_fixup", "erase_fixup"} => t.color[t.root] = BLACK
    /\ \A n \in Linked :
          \/ t.color[n] = BLACK \/ t.color[t.parent[n]] = BLACK
          \/ pc \in {"insert_fixup", "color_fix", "erase_fixup"} /\ n = cur
          \/ pc = "erase_fixup" /\ t.parent[n] = cur
    /\ BlackHeight[t.root] # -1

Held(k) == Cardinality({n \in live : t.key[n] = k})

(* rbtree2.c moves keys between the nodes while it erases; what is gone in *)
(* the end is one node with the key of the node that was named, and every  *)
(* other key is still there.                                               *)
EraseTakesItsKey ==
    [][pc = "swap" \/ pc = "erase_node" =>
          \A k \in Key :
             Held(k)' = IF pc' = "idle" /\ k = arg THEN Held(k) - 1 ELSE Held(k)]_allvars

(* README.md:19 of rbtree-lab-main: tree_erase(tree, ptr) takes the node   *)
(* out that ptr points to, and gives back its memory.  In rbtree2.c that   *)
(* is the leaf its key has come to; whoever has a pointer to that leaf is  *)
(* left with a freed node, and whoever has one to a node on the way to it  *)
(* finds another key there.  No run has this property: TLC refutes it in    *)
(* place of those of RBTree.cfg.                                           *)
ErasesNamedNode ==
    [][(pc = "swap" \/ pc = "erase_node") /\ pc' = "idle" => live' = live \ {res}]_allvars

\* No node is further out on side d than m.
IsOutmost(m, d) ==
    /\ m \in live
    /\ \A n \in live : IF d = "left" THEN t.key[m] <= t.key[n]
                                     ELSE t.key[m] >= t.key[n]

(* rbtree_find misses only what is not there, also among equal keys that   *)
(* rotations have moved to the left of one another; rbtree_min and         *)
(* rbtree_max find the outmost key of a tree that is not empty.            *)
LookupsAreRight ==
    [][/\ FindMiss \/ Find2Miss => \A n \in live : t.key[n] # arg
       /\ FindHit \/ Find2Hit => cur \in live /\ t.key[cur] = arg
       /\ OutmostDone /\ live # {} => IsOutmost(cur, pc)]_allvars

(* delete_rbtree frees every node, and none twice.                         *)
DeleteFreesAll ==
    /\ pc = "idle" => IsInjective(IF file = "rbtree.c" THEN delete_dfs[t.root]
                                                       ELSE Deleted2)
    /\ pc = "deleted" => live = {}

(* No loop runs for ever.                                                  *)
CallsReturn == pc # "idle" ~> pc \in {"idle", "deleted"}

=============================================================================
