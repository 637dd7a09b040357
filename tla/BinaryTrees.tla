---------------------------- MODULE BinaryTrees ----------------------------
(***************************************************************************)
(* The programs of Data-Structures-master/Binary_Tree: a tree is typed in  *)
(* node by node, a function of the exercise looks at it or turns it, and   *)
(* it is freed.  t is the memory of the trees.  A stack is a sequence: the *)
(* functions pop what they push, and with it free its StackNode, but for   *)
(* identical, whose forgotten StackNodes are counted.                      *)
(***************************************************************************)
EXTENDS Menus, SequencesExt

CONSTANTS
    TreeNode,   \* the addresses malloc has for the nodes of trees
    TreeValue,  \* the integers that are typed in
    MaxTree,    \* bound: how many nodes are typed in at most
    MaxStacked  \* bound: how many StackNodes identical leaves behind at most

ASSUME TreeNodeAssumption == TreeNode \subseteq Nat /\ NULL \notin TreeNode

VARIABLES
    tree,       \* the nodes, and what root, or root1 and root2, point to
    frame       \* createTree's root and stk, and the root it is called for

NoFrame == [of |-> "none", root |-> NULL, stk |-> <<>>]

InitTrees ==
    /\ tree = [item |-> [n \in TreeNode |-> 0],
               left |-> [n \in TreeNode |-> NULL],
               right |-> [n \in TreeNode |-> NULL],
               live |-> {},
               stacked |-> 0,
               root |-> [root |-> NULL, root1 |-> NULL, root2 |-> NULL]]
    /\ frame = NoFrame

-----------------------------------------------------------------------------
\* Which unused address malloc returns makes no difference.
createBTNode(t, n, item) ==
    [t EXCEPT !.live = @ \cup {n}, !.item[n] = item, !.left[n] = NULL, !.right[n] = NULL]

Lowest(S) == CHOOSE n \in S : \A m \in S : n <= m
Unused(t) == TreeNode \ t.live

RECURSIVE printTree(_, _)
printTree(t, node) ==
    IF node = NULL THEN <<>>
    ELSE printTree(t, t.left[node]) \o <<t.item[node]>> \o printTree(t, t.right[node])

free(t, node) ==
    [t EXCEPT !.live = @ \ {node}, !.item[node] = 0, !.left[node] = NULL, !.right[node] = NULL]

RECURSIVE FreeTree(_, _)
FreeTree(t, node) ==
    IF node = NULL THEN t
    ELSE free(FreeTree(FreeTree(t, t.left[node]), t.right[node]), node)

removeAll(t, r) == [FreeTree(t, t.root[r]) EXCEPT !.root[r] = NULL]

ItemsOf(t, nodes) == [i \in DOMAIN nodes |-> t.item[nodes[i]]]

\* The nodes of a sequence that are there.
Present(nodes) == SelectSeq(nodes, LAMBDA n : n # NULL)

\* The order in which a stack that starts with node gives up the tree when
\* the left child is pushed before the right one.
RECURSIVE Popped(_, _)
Popped(t, s) ==
    IF s = <<>> THEN <<>>
    ELSE <<Head(s)>> \o Popped(t, Present(<<t.right[Head(s)], t.left[Head(s)]>>) \o Tail(s))

-----------------------------------------------------------------------------
\* Q1: where the roots' items are the same, each child of the first root is
\* pushed with its counterpart, there or not, in two StackNodes; count is not
\* increased for them, so that they are neither looked at nor popped.
identical(t, tree1, tree2) ==
    IF t.item[tree1] # t.item[tree2] THEN [same |-> 0, stacked |-> 0]
    ELSE [same |-> 1, stacked |-> 2 * Len(Present(<<t.left[tree1], t.right[tree1]>>))]

\* Q2.
RECURSIVE maxHeight(_, _)
maxHeight(t, node) ==
    IF node = NULL THEN -1
    ELSE LET leftHeight == maxHeight(t, t.left[node])
             rightHeight == maxHeight(t, t.right[node])
         IN  IF leftHeight > rightHeight THEN leftHeight + 1 ELSE rightHeight + 1

CountIf(nodes, Test(_)) == Len(SelectSeq(nodes, Test))

\* Q3.
countOneChildNodes(t, node) ==
    CountIf(Popped(t, <<node>>), LAMBDA n : Len(Present(<<t.left[n], t.right[n]>>)) = 1)

\* Q4: it counts the odd values, and those below 0 are not odd to it.
sumOfOddNodes(t, node) ==
    CountIf(Popped(t, <<node>>), LAMBDA n : t.item[n] > 0 /\ t.item[n] % 2 = 1)

\* Q5.
RECURSIVE MirrorFrom(_, _)
MirrorFrom(t, s) ==
    IF s = <<>> THEN t
    ELSE MirrorFrom([t EXCEPT !.left[Head(s)] = t.right[Head(s)],
                              !.right[Head(s)] = t.left[Head(s)]],
                    Present(<<t.left[Head(s)], t.right[Head(s)]>>) \o Tail(s))

mirrorTree(t, node) == MirrorFrom(t, <<node>>)

\* Q6.
printSmallerValues(t, node, m) ==
    ItemsOf(t, SelectSeq(Popped(t, <<node>>), LAMBDA n : t.item[n] < m))

\* Q7.
smallestValue(t, node) ==
    FoldLeft(LAMBDA minVal, n : IF t.item[n] < minVal THEN t.item[n] ELSE minVal,
             t.item[node], Popped(t, <<node>>))

\* Q8: the height, counted in nodes, and what is printed on the way.
RECURSIVE hasGreatGrandchild(_, _)
hasGreatGrandchild(t, node) ==
    IF node = NULL THEN [height |-> 0, printed |-> <<>>]
    ELSE LET left == hasGreatGrandchild(t, t.left[node])
             right == hasGreatGrandchild(t, t.right[node])
         IN  [height |-> 1 + (IF left.height > right.height THEN left.height ELSE right.height),
              printed |-> left.printed \o right.printed \o
                          (IF left.height >= 2 \/ right.height >= 2
                           THEN <<t.item[node]>> ELSE <<>>)]

-----------------------------------------------------------------------------
Asks(f) == Runs(f) /\ frame.of = "none"

Typed(t, v) == IF v = <<>> THEN t ELSE createBTNode(t, Lowest(Unused(t)), v[1])

\* An integer, or a letter for no node.
Input == {<<>>} \cup {<<v>> : v \in TreeValue}
RoomFor(k) == Cardinality(tree.live) + k <= MaxTree

\* createTree for root r, as far as the question for the root.
CreateRoot(choice, r) ==
    /\ frame.of = "none"
    /\ \E t \in {removeAll(tree, r)} :
          \/ /\ tree' = t
             /\ frame' = frame
             /\ Says(choice, <<>>, <<printTree(t, NULL)>>)
          \/ \E v \in TreeValue, n \in {Lowest(Unused(t))} :
                /\ Cardinality(t.live) < MaxTree
                /\ tree' = createBTNode(t, n, v)
                /\ frame' = [of |-> r, root |-> n, stk |-> <<n>>]
                /\ Says(choice, <<>>, <<>>)

\* Node temp is popped and given its children v and w; where the stack is
\* then empty, createTree returns and the tree is printed.
CreateChildren(choice, r) ==
    /\ frame.of = r
    /\ \E v \in Input, w \in Input, temp \in {Head(frame.stk)} :
          /\ RoomFor(Len(v) + Len(w))
          /\ \E l \in {IF v = <<>> THEN NULL ELSE Lowest(Unused(tree))} :
             \E t \in {[Typed(tree, v) EXCEPT !.left[temp] = l]} :
             \E m \in {IF w = <<>> THEN NULL ELSE Lowest(Unused(t))} :
             \E u \in {[Typed(t, w) EXCEPT !.right[temp] = m]} :
             \E stk \in {Present(<<l, m>>) \o Tail(frame.stk)} :
                \/ /\ stk # <<>>
                   /\ tree' = u
                   /\ frame' = [frame EXCEPT !.stk = stk]
                   /\ UNCHANGED <<status, console>>
                \/ /\ stk = <<>>
                   /\ tree' = [u EXCEPT !.root[r] = frame.root]
                   /\ frame' = NoFrame
                   /\ Says(choice, <<>>, <<printTree(u, frame.root)>>)

Create(f, choice, r) ==
    /\ Runs(f)
    /\ CreateRoot(choice, r) \/ CreateChildren(choice, r)

Root == tree.root["root"]

\* The exercise's choice: the answer is printed and the tree is freed.
Answered(typed, printed) ==
    /\ Says(2, typed, <<printed>>)
    /\ tree' = removeAll(tree, "root")
    /\ frame' = frame

\* The functions with a stack read the root's fields before they look
\* whether there is a root.
Crashes == Ends("crashed") /\ UNCHANGED <<tree, frame>>

QuitTree == tree' = removeAll(tree, "root") /\ frame' = frame /\ Ends("quit")

Q1_E_BT ==
    \/ Create("Q1_E_BT", 1, "root1")
    \/ Create("Q1_E_BT", 2, "root2")
    \/ /\ Asks("Q1_E_BT")
       /\ IF NULL \in {tree.root["root1"], tree.root["root2"]} THEN Crashes
          ELSE \E s \in {identical(tree, tree.root["root1"], tree.root["root2"])} :
                 /\ tree.stacked + s.stacked <= MaxStacked
                 /\ Says(3, <<>>, <<<<s.same>>>>)
                 /\ tree' = [removeAll(removeAll(tree, "root1"), "root2")
                               EXCEPT !.stacked = @ + s.stacked]
                 /\ frame' = frame
    \/ /\ Asks("Q1_E_BT")
       /\ tree' = removeAll(removeAll(tree, "root1"), "root2")
       /\ frame' = frame
       /\ Ends("quit")

\* The height takes the place of the choice: 0 is taken for "quit".
Q2_E_BT ==
    \/ Create("Q2_E_BT", 1, "root")
    \/ /\ Asks("Q2_E_BT")
       /\ \E c \in {maxHeight(tree, Root)} :
             /\ console' = [choice |-> 2, typed |-> <<>>, printed |-> <<<<c>>>>]
             /\ status' = IF c = 0 THEN "quit" ELSE "menu"
       /\ tree' = removeAll(tree, "root")
       /\ frame' = frame
    \/ Asks("Q2_E_BT") /\ QuitTree

Q3_E_BT ==
    \/ Create("Q3_E_BT", 1, "root")
    \/ /\ Asks("Q3_E_BT")
       /\ IF Root = NULL THEN Crashes ELSE Answered(<<>>, <<countOneChildNodes(tree, Root)>>)
    \/ Asks("Q3_E_BT") /\ QuitTree

Q4_E_BT ==
    \/ Create("Q4_E_BT", 1, "root")
    \/ /\ Asks("Q4_E_BT")
       /\ IF Root = NULL THEN Crashes ELSE Answered(<<>>, <<sumOfOddNodes(tree, Root)>>)
    \/ Asks("Q4_E_BT") /\ QuitTree

Q5_E_BT ==
    \/ Create("Q5_E_BT", 1, "root")
    \/ /\ Asks("Q5_E_BT")
       /\ IF Root = NULL THEN Crashes
          ELSE \E t \in {mirrorTree(tree, Root)} :
                 /\ Says(2, <<>>, <<printTree(t, Root)>>)
                 /\ tree' = removeAll(t, "root")
                 /\ frame' = frame
    \/ Asks("Q5_E_BT") /\ QuitTree

Q6_E_BT ==
    \/ Create("Q6_E_BT", 1, "root")
    \/ /\ Asks("Q6_E_BT")
       /\ \E value \in TreeValue :
             IF Root = NULL THEN Crashes
             ELSE Answered(<<value>>, printSmallerValues(tree, Root, value))
    \/ Asks("Q6_E_BT") /\ QuitTree

Q7_E_BT ==
    \/ Create("Q7_E_BT", 1, "root")
    \/ /\ Asks("Q7_E_BT")
       /\ IF Root = NULL THEN Crashes ELSE Answered(<<>>, <<smallestValue(tree, Root)>>)
    \/ Asks("Q7_E_BT") /\ QuitTree

Q8_E_BT ==
    \/ Create("Q8_E_BT", 1, "root")
    \/ /\ Asks("Q8_E_BT")
       /\ Answered(<<>>, hasGreatGrandchild(tree, Root).printed)
    \/ Asks("Q8_E_BT") /\ QuitTree

BinaryTreeStep ==
    \/ Q1_E_BT \/ Q2_E_BT \/ Q3_E_BT \/ Q4_E_BT \/ Q5_E_BT \/ Q6_E_BT \/ Q7_E_BT \/ Q8_E_BT

=============================================================================
