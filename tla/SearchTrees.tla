---------------------------- MODULE SearchTrees ----------------------------
(***************************************************************************)
(* The programs of Data-Structures-master/Binary_Search_Tree: keys are     *)
(* inserted into a search tree, and each program prints it in its order,   *)
(* with loops over a stack or a queue.                                     *)
(***************************************************************************)
EXTENDS BinaryTrees

CONSTANT Key    \* the integers that are typed in

Child(t, node, value) == IF value < t.item[node] THEN t.left[node] ELSE t.right[node]

Linked(t, node, n) ==
    IF t.item[n] < t.item[node] THEN [t EXCEPT !.left[node] = n]
    ELSE [t EXCEPT !.right[node] = n]

RECURSIVE InsertBelow(_, _, _)
InsertBelow(t, node, value) ==
    IF value = t.item[node] THEN t
    ELSE IF Child(t, node, value) # NULL THEN InsertBelow(t, Child(t, node, value), value)
    ELSE LET n == Lowest(Unused(t)) IN Linked(createBTNode(t, n, value), node, n)

insertBSTNode(t, value) ==
    IF t.root.root # NULL THEN InsertBelow(t, t.root.root, value)
    ELSE LET n == Lowest(Unused(t)) IN [createBTNode(t, n, value) EXCEPT !.root.root = n]

-----------------------------------------------------------------------------
(* Q1: q is the queue.                                                     *)
enqueueNode(q, node) == IF node = NULL THEN q ELSE Append(q, node)

RECURSIVE LevelsFrom(_, _)
LevelsFrom(t, q) ==
    IF q = <<>> THEN <<>>
    ELSE <<t.item[Head(q)]>> \o
         LevelsFrom(t, enqueueNode(enqueueNode(Tail(q), t.left[Head(q)]), t.right[Head(q)]))

levelOrderTraversal(t, root) == LevelsFrom(t, enqueueNode(<<>>, root))

(* Q2: the stack holds the nodes whose left subtree is being printed.      *)
RECURSIVE inOrderTraversal(_, _, _)
inOrderTraversal(t, stack, node) ==
    IF node # NULL THEN inOrderTraversal(t, <<node>> \o stack, t.left[node])
    ELSE IF stack = <<>> THEN <<>>
    ELSE <<t.item[Head(stack)]>> \o inOrderTraversal(t, Tail(stack), t.right[Head(stack)])

(* Q3: the right child is pushed first.                                    *)
RECURSIVE preOrderIterative(_, _)
preOrderIterative(t, stack) ==
    IF stack = <<>> THEN <<>>
    ELSE <<t.item[Head(stack)]>> \o
         preOrderIterative(t, Present(<<t.left[Head(stack)], t.right[Head(stack)]>>) \o Tail(stack))

(* Q4: prev is the node printed last; where it is the right child of the   *)
(* node on top, that one is next.                                          *)
RECURSIVE postOrderIterativeS1(_, _, _, _)
postOrderIterativeS1(t, stack, node, prev) ==
    IF node # NULL THEN postOrderIterativeS1(t, <<node>> \o stack, t.left[node], prev)
    ELSE IF stack = <<>> THEN <<>>
    ELSE IF t.right[Head(stack)] \in {NULL, prev}
    THEN <<t.item[Head(stack)]>> \o postOrderIterativeS1(t, Tail(stack), NULL, Head(stack))
    ELSE postOrderIterativeS1(t, stack, t.right[Head(stack)], prev)

(* Q5: the second stack gives up in reverse what the first one gave it.    *)
postOrderIterativeS2(t, root) ==
    IF root = NULL THEN <<>> ELSE Reverse(ItemsOf(t, Popped(t, <<root>>)))

-----------------------------------------------------------------------------
Insert(i) ==
    /\ tree' = insertBSTNode(tree, i)
    /\ frame' = frame
    /\ Says(1, <<i>>, <<>>)

Prints(printed) == Says(2, <<>>, <<printed>>) /\ UNCHANGED <<tree, frame>>

Q1_F_BST ==
    /\ Runs("Q1_F_BST")
    /\ \/ \E i \in Key : Insert(i)
       \/ Prints(levelOrderTraversal(tree, Root))
       \/ QuitTree

Q2_F_BST ==
    /\ Runs("Q2_F_BST")
    /\ \/ \E i \in Key : Insert(i)
       \/ Prints(inOrderTraversal(tree, <<>>, Root))
       \/ QuitTree

\* The root is pushed whether there is one or not.
Q3_F_BST ==
    /\ Runs("Q3_F_BST")
    /\ \/ \E i \in Key : Insert(i)
       \/ Root # NULL /\ Prints(preOrderIterative(tree, <<Root>>))
       \/ Root = NULL /\ Crashes
       \/ QuitTree

Q4_F_BST ==
    /\ Runs("Q4_F_BST")
    /\ \/ \E i \in Key : Insert(i)
       \/ Prints(postOrderIterativeS1(tree, <<>>, Root, NULL))
       \/ QuitTree

Q5_F_BST ==
    /\ Runs("Q5_F_BST")
    /\ \/ \E i \in Key : Insert(i)
       \/ Prints(postOrderIterativeS2(tree, Root))
       \/ QuitTree

SearchTreeStep == \/ Q1_F_BST \/ Q2_F_BST \/ Q3_F_BST \/ Q4_F_BST \/ Q5_F_BST

=============================================================================
