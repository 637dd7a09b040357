----------------------------- MODULE Exercises -----------------------------
(***************************************************************************)
(* Every program of Data-Structures-master, one at a time, and what is     *)
(* asked of them: that their memory is exact but for three that leak, and  *)
(* that they print what their menus say but for four that do something     *)
(* else.  The references below know nothing of nodes: they read lists and  *)
(* trees once and say in terms of their items what must be printed.        *)
(***************************************************************************)
EXTENDS StacksQueues, SearchTrees

CONSTANT Programs

vars == <<file, status, console, mem, tree, frame>>

Init == file \in Programs /\ InitMenu /\ InitLists /\ InitTrees

Next ==
    \/ LinkedListStep /\ UNCHANGED <<tree, frame>>
    \/ StackQueueStep /\ UNCHANGED <<tree, frame>>
    \/ BinaryTreeStep /\ UNCHANGED mem
    \/ SearchTreeStep /\ UNCHANGED mem

Spec == Init /\ [][Next]_vars

-----------------------------------------------------------------------------
(* The nodes of a list, in order, and of a tree, the root first.  A walk   *)
(* that is longer than there are nodes is cut: it would never end.         *)
RECURSIVE Chain(_, _, _)
Chain(s, n, k) ==
    IF n \notin Node \/ k = 0 THEN <<>> ELSE <<n>> \o Chain(s, s.next[n], k - 1)

NodesOf(s, l) == Chain(s, s.list[l].head, 2 * MaxItems + 1)
ListItems(l) == [i \in DOMAIN NodesOf(mem, l) |-> mem.item[NodesOf(mem, l)[i]]]

RECURSIVE PreOrder(_, _, _)
PreOrder(t, n, k) ==
    IF n \notin TreeNode \/ k = 0 THEN <<>>
    ELSE <<n>> \o PreOrder(t, t.left[n], k - 1) \o PreOrder(t, t.right[n], k - 1)

TreeNodes(t, n) == PreOrder(t, n, Cardinality(TreeNode) + 1)
Nodes(n) == ToSet(TreeNodes(tree, n))

\* The programs that lose nodes of lists, in removeEvenValues and in balanced.
Lossy == {"Q2_C_SQ", "Q7_C_SQ"}

ListsExact ==
    LET chains == FlattenSeq([i \in DOMAIN ListNames |-> NodesOf(mem, ListNames[i])])
    IN  /\ IsInjective(chains)
        /\ ToSet(chains) \subseteq mem.live
        /\ file \notin Lossy => ToSet(chains) = mem.live
        /\ \A l \in ListName : Len(NodesOf(mem, l)) = mem.list[l].size
        /\ mem.list["local"].size = 0 /\ mem.list["tmp"].size = 0

TreesExact ==
    LET nodes == TreeNodes(tree, tree.root.root) \o TreeNodes(tree, tree.root.root1) \o
                 TreeNodes(tree, tree.root.root2) \o TreeNodes(tree, frame.root)
    IN  IsInjective(nodes) /\ ToSet(nodes) = tree.live

\* Between any two choices, every node that was allocated and not freed is on
\* one list or in one tree, and only once: lists end and trees have no node
\* twice, size counts the nodes of a list, and a program that quits has freed
\* everything.  Three programs do not: Q2_C_SQ and Q7_C_SQ leak nodes of lists,
\* and identical of Q1_E_BT leaks the StackNodes of the children it pushes.
\* They leak only: what they still reach is as exact as the others'.
NothingLost ==
    /\ ListsExact
    /\ TreesExact
    /\ tree.stacked # 0 => file = "Q1_E_BT"
    /\ status = "quit" => tree.live = {} /\ (mem.live # {} => file \in Lossy)

-----------------------------------------------------------------------------
Printing(first) == console'.printed[1] = first

Sorted(S) ==
    [i \in 1 .. Cardinality(S) |-> CHOOSE x \in S : Cardinality({y \in S : y <= x}) = i]

IsEven(v) == v % 2 = 0
Evens(s) == SelectSeq(s, IsEven)
Odds(s) == SelectSeq(s, LAMBDA v : ~IsEven(v))
FirstIndex(s, v) == CHOOSE i \in DOMAIN s : s[i] = v /\ \A j \in 1 .. (i - 1) : s[j] # v

\* Programs that append what is typed, and the list they append it to.
ListOf ==
    [Q2_A_LL |-> "ll", Q3_A_LL |-> "ll", Q4_A_LL |-> "ll", Q5_A_LL |-> "ll",
     Q6_A_LL |-> "ll", Q7_A_LL |-> "ll", Q1_C_SQ |-> "ll", Q2_C_SQ |-> "ll",
     Q4_C_SQ |-> "q", Q5_C_SQ |-> "q"]

SortedInsert(s, v) ==
    /\ Printing(Sorted(ToSet(s) \cup {v}))
    /\ console'.printed[2][1] = IF Contains(s, v) THEN -1
                                ELSE Cardinality({x \in ToSet(s) : x < v})

\* Of a and b alternately, as long as there are both.
Alternate(a, b) ==
    LET k == IF Len(a) < Len(b) THEN Len(a) ELSE Len(b)
    IN  /\ Printing([i \in 1 .. (Len(a) + k) |->
                       IF i > 2 * k THEN a[i - k]
                       ELSE IF IsEven(i) THEN b[i \div 2] ELSE a[(i + 1) \div 2]])
        /\ console'.printed[2] = SubSeq(b, k + 1, Len(b))

Halves(s) ==
    /\ Printing(SubSeq(s, 1, (Len(s) + 1) \div 2))
    /\ console'.printed[2] = SubSeq(s, (Len(s) + 3) \div 2, Len(s))

LargestFirst(s) ==
    LET largest == CHOOSE v \in ToSet(s) : \A w \in ToSet(s) : w <= v
    IN  Printing(IF s = <<>> THEN s
                 ELSE <<largest>> \o RemoveAt(s, FirstIndex(s, largest)))

LinkedListAnswer(choice) ==
    LET ll == ListItems("ll")
    IN  CASE file = "Q1_A_LL" -> IF choice = 1 THEN SortedInsert(ll, console'.typed[1])
                                 ELSE Printing(ll)
          [] file = "Q2_A_LL" ->
                IF choice = 2 THEN Printing(Append(ListItems("ll2"), console'.typed[1]))
                ELSE Alternate(ll, ListItems("ll2"))
          [] file = "Q3_A_LL" -> Printing(Evens(ll) \o Odds(ll))
          [] file = "Q4_A_LL" -> Printing(Odds(ll) \o Evens(ll))
          [] file = "Q5_A_LL" -> Halves(ll)
          [] file = "Q6_A_LL" -> LargestFirst(ll)
          [] OTHER -> Printing(Reverse(ll))

-----------------------------------------------------------------------------
PairwiseConsecutive(s) ==
    \A i \in DOMAIN s : (~IsEven(i) /\ i < Len(s)) => s[i] - s[i + 1] \in {1, -1}

Pairs == {<<40, 41>>, <<91, 93>>, <<123, 125>>}

\* The grammar of balanced strings.
RECURSIVE InGrammar(_)
InGrammar(str) ==
    \/ str = <<>>
    \/ \E i \in 2 .. Len(str) :
          /\ <<str[1], str[i]>> \in Pairs
          /\ InGrammar(SubSeq(str, 2, i - 1))
          /\ InGrammar(SubSeq(str, i + 1, Len(str)))

StackQueueAnswer(choice) ==
    LET s == ListItems("s")
    IN  CASE file = "Q1_C_SQ" -> Printing(IF choice = 2 THEN ListItems("ll")
                                          ELSE Evens(ListItems("q")))
          [] file = "Q2_C_SQ" ->
                Printing(IF choice = 2 THEN Reverse(ListItems("ll")) ELSE Odds(s))
          [] file = "Q3_C_SQ" ->
                Printing(IF choice = 1 THEN console'.typed \o s
                         ELSE <<IF PairwiseConsecutive(s) THEN 1 ELSE 0>>)
          [] file \in {"Q4_C_SQ", "Q5_C_SQ"} -> Printing(Reverse(ListItems("q")))
          [] file = "Q6_C_SQ" ->
                Printing(IF choice = 1 THEN console'.typed \o s
                         ELSE SubSeq(s, FirstIndex(s, console'.typed[1]), Len(s)))
          [] OTHER -> Printing(<<IF InGrammar(console'.typed) THEN 0 ELSE 1>>)

-----------------------------------------------------------------------------
(* Trees.  The nodes k levels below a node:                                *)
RECURSIVE Level(_, _)
Level(n, k) ==
    IF n = NULL THEN {} ELSE IF k = 0 THEN {n}
    ELSE Level(tree.left[n], k - 1) \cup Level(tree.right[n], k - 1)

HasDescendant(n, k) == Level(n, k) # {}
Values(nodes) == [i \in DOMAIN nodes |-> tree.item[nodes[i]]]

RECURSIVE InOrder(_), PostOrder(_), RightFirst(_)
InOrder(n) ==
    IF n = NULL THEN <<>> ELSE InOrder(tree.left[n]) \o <<n>> \o InOrder(tree.right[n])
PostOrder(n) ==
    IF n = NULL THEN <<>> ELSE PostOrder(tree.left[n]) \o PostOrder(tree.right[n]) \o <<n>>
RightFirst(n) ==
    IF n = NULL THEN <<>> ELSE <<n>> \o RightFirst(tree.right[n]) \o RightFirst(tree.left[n])

PrintingNumber(k) == Printing(<<k>>)

RECURSIVE SameShape(_, _)
SameShape(n, m) ==
    IF NULL \in {n, m} THEN n = m
    ELSE SameShape(tree.left[n], tree.left[m]) /\ SameShape(tree.right[n], tree.right[m])

\* Of the same shape and with the same items.
RECURSIVE SameTree(_, _)
SameTree(n, m) ==
    IF NULL \in {n, m} THEN n = m
    ELSE /\ tree.item[n] = tree.item[m]
         /\ SameTree(tree.left[n], tree.left[m])
         /\ SameTree(tree.right[n], tree.right[m])

\* Trees said to be identical have the same shape at least.
BinaryTreeAnswer ==
    CASE file = "Q1_E_BT" ->
            console'.printed[1] = <<1>> => SameShape(tree.root.root1, tree.root.root2)
      [] file = "Q2_E_BT" ->
            LET height == console'.printed[1][1]
            IN  IF Root = NULL THEN height = -1
                ELSE HasDescendant(Root, height) /\ ~HasDescendant(Root, height + 1)
      [] file = "Q3_E_BT" ->
            PrintingNumber(Cardinality({n \in Nodes(Root) :
                                          (tree.left[n] = NULL) # (tree.right[n] = NULL)}))
      [] file = "Q4_E_BT" ->
            PrintingNumber(FoldLeft(LAMBDA sum, v : sum + v, 0,
                                    Odds(Values(TreeNodes(tree, Root)))))
      [] file = "Q5_E_BT" -> Printing(Reverse(Values(InOrder(Root))))
      [] file = "Q6_E_BT" ->
            Printing(SelectSeq(Values(RightFirst(Root)), LAMBDA v : v < console'.typed[1]))
      [] file = "Q7_E_BT" ->
            LET v == console'.printed[1][1]
            IN  /\ \E n \in Nodes(Root) : tree.item[n] = v
                /\ \A n \in Nodes(Root) : v <= tree.item[n]
      [] OTHER -> Printing(Values(SelectSeq(PostOrder(Root), LAMBDA n : HasDescendant(n, 3))))

Keys == {tree.item[n] : n \in Nodes(Root)}

InLevels ==
    FlattenSeq([k \in 1 .. Cardinality(TreeNode) |->
                  Sorted({tree.item[n] : n \in Level(Root, k - 1)})])

\* In order means sorted, and within a level too.
SearchTreeAnswer ==
    Printing(CASE file = "Q1_F_BST" -> InLevels
               [] file = "Q2_F_BST" -> Sorted(Keys)
               [] file = "Q3_F_BST" -> Values(TreeNodes(tree, Root))
               [] OTHER -> Values(PostOrder(Root)))

Family(f) ==
    CASE f \in {"Q1_A_LL", "Q2_A_LL", "Q3_A_LL", "Q4_A_LL", "Q5_A_LL", "Q6_A_LL", "Q7_A_LL"} -> "LL"
      [] f \in {"Q1_C_SQ", "Q2_C_SQ", "Q3_C_SQ", "Q4_C_SQ", "Q5_C_SQ", "Q6_C_SQ", "Q7_C_SQ"} -> "SQ"
      [] f \in {"Q1_F_BST", "Q2_F_BST", "Q3_F_BST", "Q4_F_BST", "Q5_F_BST"} -> "BST"
      [] OTHER -> "BT"

\* The last choice of a program on trees is the exercise's.
Question == IF file = "Q1_E_BT" THEN 3 ELSE 2

Answer ==
    LET choice == console'.choice
    IN  CASE Family(file) \in {"LL", "SQ"} ->
               IF choice = 1 /\ file \in DOMAIN ListOf
               THEN Printing(Append(ListItems(ListOf[file]), console'.typed[1]))
               ELSE IF Family(file) = "LL" THEN LinkedListAnswer(choice)
               ELSE StackQueueAnswer(choice)
          [] Family(file) = "BT" -> choice = Question => BinaryTreeAnswer
          [] OTHER -> choice = 2 => SearchTreeAnswer

\* A step that prints.
Speaks ==
    /\ frame' = frame
    /\ <<mem, tree, console>>' # <<mem, tree, console>>
    /\ status' = "menu" \/ console' # console

\* A choice of a program that does something else than its menu says.
Misleading ==
    \/ file \in {"Q1_E_BT", "Q4_E_BT", "Q8_E_BT"} /\ console'.choice = Question
    \/ file = "Q2_C_SQ" /\ console'.choice = 3

\* What can be relied on of such a choice all the same: trees that are
\* the same are not said to differ, no node with a
\* great-grandchild is missed, and no even number stays in the stack, nor does
\* a positive odd one go.  Of the number that Q4_E_BT prints nothing is said.
PartlyRight ==
    LET printed == console'.printed[1]
        Count(s, v) == Len(SelectSeq(s, LAMBDA x : x = v))
    IN  CASE file = "Q1_E_BT" ->
               printed = <<0>> => ~SameTree(tree.root.root1, tree.root.root2)
          [] file = "Q8_E_BT" ->
               \A n \in Nodes(Root) : HasDescendant(n, 3) => tree.item[n] \in ToSet(printed)
          [] file = "Q2_C_SQ" ->
               /\ Evens(printed) = <<>>
               /\ \A v \in ToSet(ListItems("s")) :
                     v > 0 /\ ~IsEven(v) => Count(printed, v) = Count(ListItems("s"), v)
          [] OTHER -> TRUE

\* There is no tree for the exercise's function to look at.
NoTree ==
    NULL \in (IF file = "Q1_E_BT" THEN {tree.root.root1, tree.root.root2} ELSE {Root})

\* Whatever was typed in before, a program prints what the function of its
\* exercise is for: the item's index and the sorted list, the lists merged,
\* regrouped, split and reversed, the queue and the stack rearranged, whether
\* brackets balance, a number that the tree determines, or the tree in the
\* order asked for.  It crashes instead only when there is no tree.  Four choices
\* do something else than their menu says (see below), and of these only the
\* part is claimed that does hold.
AnswersRight ==
    [][/\ Speaks => IF Misleading THEN PartlyRight ELSE Answer
       /\ status' = "crashed" => NoTree]_vars

-----------------------------------------------------------------------------
(* What the menus and the comments say and the code does not do.  No run   *)
(* has these: TLC refutes each in place of AnswersRight in Exercises.cfg.  *)

Answers(f) == file = f /\ Speaks => Answer

\* Q1_E_BT.c:58, 120: trees that are said to be identical have one structure.
IdenticalTrees == [][Answers("Q1_E_BT")]_vars

\* Q4_E_BT.c:81: the number printed is the sum of all odd numbers.
SumOfOdd == [][Answers("Q4_E_BT")]_vars

\* Q8_E_BT.c:80, 106: what is printed are the nodes with a great-grandchild.
GreatGrandchildren == [][Answers("Q8_E_BT")]_vars

\* Q2_C_SQ.c:68, 92: the even numbers are removed, and they only.
EvenRemoved == [][Answers("Q2_C_SQ")]_vars

=============================================================================
