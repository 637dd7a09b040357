---------------------------- MODULE LinkedLists ----------------------------
(***************************************************************************)
(* The programs of Data-Structures-master/Linked_List, at the level of     *)
(* their pointers: an operator on the memory s for each function, and an   *)
(* action for each program, one step of which is one choice.  They all     *)
(* have the same functions on lists and differ in the one of the exercise. *)
(***************************************************************************)
EXTENDS Menus, SequencesExt

CONSTANTS
    Node,       \* the addresses malloc has for the nodes of lists
    Value,      \* the integers that are typed in
    MaxItems    \* how many of them a list is given

ASSUME NodeAssumption == Node \subseteq Nat /\ NULL \notin Node

VARIABLE mem    \* the program's lists and their nodes

\* The lists of the programs, and two that are local to functions.
ListNames == <<"ll", "ll2", "front", "back", "q", "s", "local", "tmp">>
ListName == ToSet(ListNames)

EmptyList == [head |-> NULL, size |-> 0]

InitLists ==
    mem = [item |-> [n \in Node |-> 0],
           next |-> [n \in Node |-> NULL],
           live |-> {},
           list |-> [l \in ListName |-> EmptyList]]

-----------------------------------------------------------------------------
(* malloc: which unused address it is makes no difference.                 *)
Fresh(s) == CHOOSE n \in Node \ s.live : \A m \in Node \ s.live : n <= m

NewNode(s, n, value, next) ==
    [s EXCEPT !.live = @ \cup {n}, !.item[n] = value, !.next[n] = next]

\* What a freed node holds is forgotten.
FreeNode(s, n) == [s EXCEPT !.live = @ \ {n}, !.item[n] = 0, !.next[n] = NULL]

Size(s, l) == s.list[l].size
Head1(s, l) == s.list[l].head

RECURSIVE Walk(_, _, _)
Walk(s, temp, index) ==
    IF temp = NULL \/ index = 0 THEN temp ELSE Walk(s, s.next[temp], index - 1)

findNode(s, l, index) ==
    IF index \notin 0 .. (Size(s, l) - 1) THEN NULL ELSE Walk(s, Head1(s, l), index)

InsertFirst(s, l, n, value) ==
    [NewNode(s, n, value, Head1(s, l)) EXCEPT !.list[l] = [head |-> n, size |-> @.size + 1]]

InsertAfter(s, l, pre, n, value) ==
    IF pre = NULL THEN s
    ELSE [NewNode(s, n, value, s.next[pre]) EXCEPT !.next[pre] = n, !.list[l].size = @ + 1]

(* insertNode; where the list is too short for the index, nothing is done. *)
insertNode(s, l, index, value) ==
    IF index \notin 0 .. (Size(s, l) + 1) THEN s
    ELSE IF Head1(s, l) = NULL \/ index = 0 THEN InsertFirst(s, l, Fresh(s), value)
    ELSE InsertAfter(s, l, findNode(s, l, index - 1), Fresh(s), value)

\* Mutated form of UnlinkFirst: the node is not freed.
UnlinkFirst_NoFree(s, l, n) ==
    [s EXCEPT !.list[l] = [head |-> s.next[n], size |-> @.size - 1]]

UnlinkFirst(s, l, n) ==
    [FreeNode(s, n) EXCEPT !.list[l] = [head |-> s.next[n], size |-> @.size - 1]]

UnlinkAfter(s, l, pre) ==
    IF pre = NULL \/ s.next[pre] = NULL THEN s
    ELSE [FreeNode(s, s.next[pre]) EXCEPT !.next[pre] = s.next[s.next[pre]],
                                          !.list[l].size = @ - 1]

removeNode(s, l, index) ==
    IF index \notin 0 .. (Size(s, l) - 1) THEN s
    ELSE IF index = 0 THEN UnlinkFirst(s, l, Head1(s, l))
    ELSE UnlinkAfter(s, l, findNode(s, l, index - 1))

RECURSIVE FreeFrom(_, _)
FreeFrom(s, cur) == IF cur = NULL THEN s ELSE FreeFrom(FreeNode(s, cur), s.next[cur])

removeAllItems(s, l) == [FreeFrom(s, Head1(s, l)) EXCEPT !.list[l] = EmptyList]

RECURSIVE printFrom(_, _)
printFrom(s, cur) ==
    IF cur = NULL THEN <<>> ELSE <<s.item[cur]>> \o printFrom(s, s.next[cur])

printList(s, l) == printFrom(s, Head1(s, l))

-----------------------------------------------------------------------------
(* Q1: the sorted list is searched for the item's place.                   *)
RECURSIVE SortedIndex(_, _, _, _)
SortedIndex(s, cur, idx, item) ==
    IF cur = NULL THEN idx
    ELSE IF s.item[cur] < item THEN SortedIndex(s, s.next[cur], idx + 1, item)
    ELSE IF s.item[cur] > item THEN idx
    ELSE -1

insertSortedLL(s, l, item, idx) == IF idx = -1 THEN s ELSE insertNode(s, l, idx, item)

(* Q2: the head of the second list goes behind every node of the first.    *)
\* Mutated form of MergeFrom: the next item goes right behind the last one.
RECURSIVE MergeFrom_ByOne(_, _)
MergeFrom_ByOne(s, idx) ==
    IF Head1(s, "ll2") = NULL \/ findNode(s, "ll", idx - 1) = NULL THEN s
    ELSE MergeFrom_ByOne(removeNode(insertNode(s, "ll", idx, s.item[Head1(s, "ll2")]),
                                    "ll2", 0), idx + 1)

RECURSIVE MergeFrom(_, _)
MergeFrom(s, idx) ==
    IF Head1(s, "ll2") = NULL \/ findNode(s, "ll", idx - 1) = NULL THEN s
    ELSE MergeFrom(removeNode(insertNode(s, "ll", idx, s.item[Head1(s, "ll2")]), "ll2", 0),
                   idx + 2)

alternateMergeLinkedList(s) == MergeFrom(s, 1)

(* Q3 and Q4: the nodes are linked into one chain of the even and one of   *)
(* the odd ones, c.even and c.odd, each with its head and tail.            *)
NoChain == [head |-> NULL, tail |-> NULL]

Link1(s, chain, n) == IF chain.tail = NULL THEN s ELSE [s EXCEPT !.next[chain.tail] = n]
Extended(chain, n) == [head |-> IF chain.tail = NULL THEN n ELSE chain.head, tail |-> n]

Parity(v) == IF v % 2 = 0 THEN "even" ELSE "odd"

RECURSIVE Chains(_, _, _)
Chains(s, c, temp) ==
    IF temp = NULL THEN [s |-> s, c |-> c]
    ELSE LET p == Parity(s.item[temp])
         IN  Chains(Link1(s, c[p], temp), [c EXCEPT ![p] = Extended(@, temp)], s.next[temp])

\* The chain first goes before the chain last.
Joined(s, l, first, last) ==
    LET t == IF first.head = NULL THEN s
             ELSE [s EXCEPT !.list[l].head = first.head, !.next[first.tail] = last.head]
    IN  IF last.head = NULL THEN t ELSE [t EXCEPT !.next[last.tail] = NULL]

Split(s, l) == Chains(s, [even |-> NoChain, odd |-> NoChain], Head1(s, l))

moveOddItemsToBack(s, l) == Joined(Split(s, l).s, l, Split(s, l).c.even, Split(s, l).c.odd)
moveEvenItemsToBack(s, l) == Joined(Split(s, l).s, l, Split(s, l).c.odd, Split(s, l).c.even)

(* Q5: copies, the larger half in front.                                   *)
RECURSIVE CopyTo(_, _, _, _)
CopyTo(s, l, idx, range) ==
    IF range = <<>> THEN s
    ELSE CopyTo(insertNode(s, l, idx, s.item[findNode(s, "ll", Head(range))]), l, idx + 1,
                Tail(range))

Indices(a, b) == [i \in 1 .. (b - a) |-> a + i - 1]

frontBackSplitLinkedList(s, size) ==
    CopyTo(CopyTo(s, "front", 0, Indices(0, (size + 1) \div 2)),
           "back", 0, Indices((size + 1) \div 2, size))

(* Q6: temp walks, with prev behind it; max and maxPrev are the largest    *)
(* node so far and the one before it.                                      *)
RECURSIVE MaxFrom(_, _, _, _)
MaxFrom(s, m, prev, temp) ==
    IF temp = NULL THEN m
    ELSE MaxFrom(s,
                 IF s.item[temp] > s.item[m.node] THEN [node |-> temp, prev |-> prev] ELSE m,
                 temp, s.next[temp])

ToFront(s, l, m) ==
    IF m.node = Head1(s, l) THEN s
    ELSE [s EXCEPT !.next[m.prev] = s.next[m.node], !.next[m.node] = Head1(s, l),
                   !.list[l].head = m.node]

moveMaxToFront(s, l) ==
    ToFront(s, l, MaxFrom(s, [node |-> Head1(s, l), prev |-> NULL], NULL, Head1(s, l)))

(* Q7: the last node is cut off, the rest is reversed, and the node goes   *)
(* in front of it.                                                         *)
RECURSIVE LastTwo(_, _, _)
LastTwo(s, prev, temp) ==
    IF s.next[temp] = NULL THEN <<prev, temp>> ELSE LastTwo(s, temp, s.next[temp])

InFront(s, l, temp) ==
    [s EXCEPT !.next[temp] = Head1(s, l), !.list[l].head = temp]

RECURSIVE RecursiveReverse(_, _)
RecursiveReverse(s, l) ==
    IF Head1(s, l) = NULL \/ s.next[Head1(s, l)] = NULL THEN s
    ELSE LET ends == LastTwo(s, Head1(s, l), Head1(s, l))
         IN  InFront(RecursiveReverse([s EXCEPT !.next[ends[1]] = NULL], l), l, ends[2])

-----------------------------------------------------------------------------
\* Lists are printed, and the ones that are named are emptied.
Printed(s, names) == [i \in DOMAIN names |-> printList(s, names[i])]
Emptied(s, names) == FoldLeft(removeAllItems, s, names)

Room(k) == Cardinality(Node \ mem.live) >= k

\* A value is put into list l, at its end or, of a stack, at its top.
Enter(choice, l, index, v) ==
    /\ Size(mem, l) < MaxItems /\ Room(1)
    /\ mem' = insertNode(mem, l, index, v)
    /\ Says(choice, <<v>>, <<printList(mem', l)>>)

EnterLast(choice, l) == \E v \in Value : Enter(choice, l, Size(mem, l), v)

\* The exercise's function leaves the memory s: the lists in names are
\* printed, then those in gone are emptied.
Solved(choice, s, names, gone) ==
    /\ Says(choice, <<>>, Printed(s, names))
    /\ mem' = Emptied(s, gone)

Quit(gone) == mem' = Emptied(mem, gone) /\ Ends("quit")

\* Choice 2 prints i and j again, which choice 1 prints here.
Q1_A_LL ==
    /\ Runs("Q1_A_LL")
    /\ \/ /\ Size(mem, "ll") < MaxItems
          /\ \E i \in Value : \E j \in {SortedIndex(mem, Head1(mem, "ll"), 0, i)} :
                /\ mem' = insertSortedLL(mem, "ll", i, j)
                /\ Says(1, <<i>>, <<printList(mem', "ll"), <<j>>>>)
       \/ Solved(3, mem, <<"ll">>, <<"ll">>)
       \/ Quit(<<"ll">>)

Q2_A_LL ==
    /\ Runs("Q2_A_LL")
    /\ \/ EnterLast(1, "ll")
       \/ EnterLast(2, "ll2")
       \/ Solved(3, alternateMergeLinkedList(mem), <<"ll", "ll2">>, <<"ll", "ll2">>)
       \/ Quit(<<"ll", "ll2">>)

Q3_A_LL ==
    /\ Runs("Q3_A_LL")
    /\ \/ EnterLast(1, "ll")
       \/ Solved(2, moveOddItemsToBack(mem, "ll"), <<"ll">>, <<"ll">>)
       \/ Quit(<<"ll">>)

Q4_A_LL ==
    /\ Runs("Q4_A_LL")
    /\ \/ EnterLast(1, "ll")
       \/ Solved(2, moveEvenItemsToBack(mem, "ll"), <<"ll">>, <<"ll">>)
       \/ Quit(<<"ll">>)

\* c is not initialized: where it happens to be 0 the program ends before it
\* asks, with the empty lists that Quit would leave.
Q5_A_LL ==
    /\ Runs("Q5_A_LL")
    /\ \/ EnterLast(1, "ll")
       \/ Solved(2, frontBackSplitLinkedList(mem, Size(mem, "ll")), <<"front", "back">>,
                 <<"ll", "front", "back">>)
       \/ Quit(<<"ll", "front", "back">>)

Q6_A_LL ==
    /\ Runs("Q6_A_LL")
    /\ \/ EnterLast(1, "ll")
       \/ Solved(2, moveMaxToFront(mem, "ll"), <<"ll">>, <<"ll">>)
       \/ Quit(<<"ll">>)

Q7_A_LL ==
    /\ Runs("Q7_A_LL")
    /\ \/ EnterLast(1, "ll")
       \/ Solved(2, RecursiveReverse(mem, "ll"), <<"ll">>, <<"ll">>)
       \/ Quit(<<"ll">>)

LinkedListStep ==
    \/ Q1_A_LL \/ Q2_A_LL \/ Q3_A_LL \/ Q4_A_LL \/ Q5_A_LL \/ Q6_A_LL \/ Q7_A_LL

=============================================================================
