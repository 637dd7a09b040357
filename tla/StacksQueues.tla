---------------------------- MODULE StacksQueues ----------------------------
(***************************************************************************)
(* The programs of Data-Structures-master/Stack_and_Queue.  A stack and a  *)
(* queue are lists: both are taken from the front, a stack is added to     *)
(* there and a queue at its end.                                           *)
(***************************************************************************)
EXTENDS LinkedLists

CONSTANT Expression     \* the strings typed into Q7, as ASCII codes

push(s, l, item) == insertNode(s, l, 0, item)
enqueue(s, l, item) == insertNode(s, l, Size(s, l), item)

\* What pop, dequeue and peek return of a list that is not empty, ...
peek(s, l) == s.item[Head1(s, l)]

\* ... and the list after it; of an empty list they take nothing.
pop(s, l) == removeNode(s, l, 0)
dequeue(s, l) == removeNode(s, l, 0)

isEmpty1(s, l) == Size(s, l) = 0

removeAllItemsFromQueue(s, l) == FoldLeft(LAMBDA u, i : dequeue(u, l), s, Indices(0, Size(s, l)))

RECURSIVE removeAllItemsFromStack(_, _)
removeAllItemsFromStack(s, l) ==
    IF Head1(s, l) = NULL THEN s ELSE removeAllItemsFromStack(pop(s, l), l)

\* A list that is local to a function is forgotten, not freed, at its end.
Forgotten(s, l) == [s EXCEPT !.list[l] = EmptyList]

-----------------------------------------------------------------------------
(* Q1: what is in q is dropped for the items of ll; later every item is    *)
(* dequeued once and the even ones are enqueued again.                     *)
createQueueFromLinkedList(s) ==
    FoldLeft(LAMBDA u, item : enqueue(u, "q", item),
             removeAllItemsFromQueue(s, "q"), printList(s, "ll"))

RemoveOddValue(s, item) ==
    IF item % 2 = 0 THEN enqueue(dequeue(s, "q"), "q", item) ELSE dequeue(s, "q")

removeOddValues(s) ==
    FoldLeft(LAMBDA u, i : RemoveOddValue(u, peek(u, "q")), s, Indices(0, Size(s, "q")))

(* Q2.  The remainder in C has the sign of its dividend.                   *)
Rem2(v) == IF v < 0 THEN -((-v) % 2) ELSE v % 2

createStackFromLinkedList(s, from, to) ==
    FoldLeft(LAMBDA u, item : push(u, to, item),
             removeAllItemsFromStack(s, to), printList(s, from))

RemoveEvenValue(s, item) ==
    IF Rem2(item) = 1 THEN insertNode(pop(s, "s"), "local", 0, item) ELSE pop(s, "s")

PushBack(s) ==
    FoldLeft(LAMBDA u, i : push(pop(u, "tmp"), "s", peek(u, "tmp")), s,
             Indices(0, Size(s, "tmp")))

\* The nodes of the local list are not freed.
removeEvenValues(s) ==
    LET kept == FoldLeft(LAMBDA u, i : RemoveEvenValue(u, peek(u, "s")), s,
                         Indices(0, Size(s, "s")))
    IN  Forgotten(PushBack(createStackFromLinkedList(kept, "local", "tmp")), "local")

(* Q3: two are taken at a time.                                            *)
RECURSIVE isStackPairwiseConsecutive(_, _)
isStackPairwiseConsecutive(s, sSize) ==
    IF sSize < 2 THEN 1
    ELSE IF peek(s, "s") - peek(pop(s, "s"), "s") \notin {1, -1} THEN 0
    ELSE isStackPairwiseConsecutive(pop(pop(s, "s"), "s"), sSize - 2)

(* Q4: through a stack.                                                    *)
reverse(s) ==
    LET pushed == FoldLeft(LAMBDA u, i : push(dequeue(u, "q"), "tmp", peek(u, "q")), s,
                           Indices(0, Size(s, "q")))
    IN  FoldLeft(LAMBDA u, i : enqueue(pop(u, "tmp"), "q", peek(u, "tmp")), pushed,
                 Indices(0, Size(pushed, "tmp")))

(* Q5.                                                                     *)
RECURSIVE recursiveReverseQueue(_)
recursiveReverseQueue(s) ==
    IF isEmpty1(s, "q") THEN s
    ELSE enqueue(IF Size(s, "q") = 1 THEN dequeue(s, "q")
                 ELSE recursiveReverseQueue(dequeue(s, "q")), "q", peek(s, "q"))

(* Q6: it does not end where the value is not in the stack.                *)
RECURSIVE removeUntil(_, _)
removeUntil(s, value) ==
    IF peek(s, "s") = value THEN s ELSE removeUntil(pop(s, "s"), value)

(* Q7: the stack holds what is open.  1 is "not balanced"; the stack is    *)
(* then left as it is.                                                     *)
Opening == {40, 91, 123}
Match(ch) == CASE ch = 41 -> 40 [] ch = 93 -> 91 [] ch = 125 -> 123 [] OTHER -> 0

RECURSIVE balanced(_, _)
balanced(s, expression) ==
    IF expression = <<>>
    THEN [mem |-> Forgotten(s, "tmp"), ret |-> IF isEmpty1(s, "tmp") THEN 0 ELSE 1]
    ELSE IF Head(expression) \in Opening
    THEN balanced(push(s, "tmp", Head(expression)), Tail(expression))
    ELSE IF isEmpty1(s, "tmp")
    THEN [mem |-> Forgotten(s, "tmp"), ret |-> 1]
    ELSE IF Match(Head(expression)) # peek(s, "tmp")
    THEN [mem |-> Forgotten(pop(s, "tmp"), "tmp"), ret |-> 1]
    ELSE balanced(pop(s, "tmp"), Tail(expression))

-----------------------------------------------------------------------------
Q1_C_SQ ==
    /\ Runs("Q1_C_SQ")
    /\ \/ EnterLast(1, "ll")
       \/ /\ mem' = createQueueFromLinkedList(mem)
          /\ Says(2, <<>>, <<printList(mem', "q")>>)
       \/ Solved(3, removeOddValues(mem), <<"q">>, <<"q", "ll">>)
       \/ Quit(<<"q", "ll">>)

\* What removeEvenValues loses takes room: see Room in its guards.
Q2_C_SQ ==
    /\ Runs("Q2_C_SQ")
    /\ \/ EnterLast(1, "ll")
       \/ /\ Room(Size(mem, "ll"))
          /\ mem' = createStackFromLinkedList(mem, "ll", "s")
          /\ Says(2, <<>>, <<printList(mem', "s")>>)
       \/ Room(Size(mem, "s")) /\ Solved(3, removeEvenValues(mem), <<"s">>, <<"s", "ll">>)
       \/ Quit(<<"s", "ll">>)

Q3_C_SQ ==
    /\ Runs("Q3_C_SQ")
    /\ \/ \E v \in Value : Enter(1, "s", 0, v)
       \/ /\ mem' = removeAllItems(mem, "s")
          /\ Says(2, <<>>, <<<<isStackPairwiseConsecutive(mem, Size(mem, "s"))>>>>)
       \/ Quit(<<"s">>)

Q4_C_SQ ==
    /\ Runs("Q4_C_SQ")
    /\ \/ EnterLast(1, "q")
       \/ Solved(2, reverse(mem), <<"q">>, <<"q">>)
       \/ Quit(<<"q">>)

Q5_C_SQ ==
    /\ Runs("Q5_C_SQ")
    /\ \/ EnterLast(1, "q")
       \/ Solved(2, recursiveReverseQueue(mem), <<"q">>, <<"q">>)
       \/ Quit(<<"q">>)

Q6_C_SQ ==
    /\ Runs("Q6_C_SQ")
    /\ \/ \E v \in Value : Enter(1, "s", 0, v)
       \/ \E value \in Value :
             /\ \E i \in 1 .. Size(mem, "s") : printList(mem, "s")[i] = value
             /\ \E s \in {removeUntil(mem, value)} :
                   /\ mem' = removeAllItemsFromStack(s, "s")
                   /\ Says(2, <<value>>, <<printList(s, "s")>>)
       \/ Quit(<<"s">>)

\* Choices 1 and 2, a string and the answer for it.
Q7_C_SQ ==
    /\ Runs("Q7_C_SQ")
    /\ \/ /\ Room(2 * MaxItems)
          /\ \E str \in Expression : \E b \in {balanced(mem, str)} :
                mem' = b.mem /\ Says(2, str, <<<<b.ret>>>>)
       \/ mem' = mem /\ Ends("quit")

StackQueueStep ==
    \/ Q1_C_SQ \/ Q2_C_SQ \/ Q3_C_SQ \/ Q4_C_SQ \/ Q5_C_SQ \/ Q6_C_SQ \/ Q7_C_SQ

=============================================================================
