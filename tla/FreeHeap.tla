------------------------------ MODULE FreeHeap ------------------------------
(***************************************************************************)
(* The six allocators of malloc-lab-main that link their free blocks       *)
(* (SegHeap, TreeHeap) under a trace as eval_mm_valid of mdriver.c runs    *)
(* it: the caller names its blocks, fills each with its own data, frees    *)
(* and reallocs them in any order.  A call is one step, as nothing else    *)
(* runs meanwhile; a trace ends at the first call that returns NULL.       *)
(***************************************************************************)
EXTENDS HeapWords, Functions

CONSTANTS
    Id,             \* the blocks of a trace
    Trace,          \* the traces: see below
    ClassBounds, Reserved, Trigger, Rounded,        \* see SegHeap
    MINIMUM_TREE_BLOCK_SIZE, BackAsize, BackRest,   \* see TreeHeap
    LeaveTaken      \* whether mm_realloc may be called where it gives up
                    \* free blocks it has taken off their lists

Seg == INSTANCE SegHeap
Tree == INSTANCE TreeHeap

(* A trace is for one of the files and a heap of max words; it begins with *)
(* a malloc of each of the sizes first, and goes on with any calls for the *)
(* blocks in ids and for the sizes, reallocs only if realloc is true.      *)
ASSUME TraceAssumption ==
    /\ Id \subseteq Nat \ {0}
    /\ \A t \in Trace :
          /\ t.file \in Seg!SegFiles \cup Tree!TreeFiles
          /\ t.max \in Nat /\ t.max <= MaxHeap
          /\ \A k \in DOMAIN t.first : k \in Id /\ t.first[k] \in Nat \ {0}
          /\ t.ids \subseteq Id
          /\ t.sizes \subseteq Nat \ {0}
          /\ t.realloc \in BOOLEAN
    /\ LeaveTaken \in BOOLEAN

VARIABLES
    trace,          \* the trace that runs, first being what is left of that
    h,              \* the heap and the allocator's static variables
    block, bsize,   \* the caller's blocks: address and size
    pc              \* Idle, the block that is filled next, or Stopped

vars == <<trace, h, block, bsize, pc>>

-----------------------------------------------------------------------------
Idle == 0
Stopped == -1

IsTree(x) == x.file \in Tree!TreeFiles

mm_init(file, max) ==
    IF file \in Tree!TreeFiles THEN Tree!TreeInit(file, max) ELSE Seg!SegInit(file, max)
mm_malloc(x, n) == IF IsTree(x) THEN Tree!TreeMalloc(x, n) ELSE Seg!SegMalloc(x, n)
mm_free(p) == IF IsTree(h) THEN Tree!TreeFree(h, p) ELSE Seg!SegFree(h, p)
mm_realloc(p, n) ==
    IF IsTree(h) THEN Tree!TreeRealloc(h, p, n) ELSE Seg!SegRealloc(h, p, n)

\* What the caller writes into block i.
Data(i) == -(8 * i) - 1

\* memset: the block's n words, and what is behind them in the block is
\* forgotten.
Fill(x, p, n, i) ==
    LET end == p + SizeAt(x, p) - DSIZE
    IN  [x EXCEPT !.mem = [w \in Words(x) |->
            IF w \in p .. (p + n - 1) THEN Data(i)
            ELSE IF w \in (p + n) .. (end - 1) THEN Junk ELSE x.mem[w]]]

Init ==
    /\ trace \in Trace
    /\ h = mm_init(trace.file, trace.max)
    /\ block = [i \in Id |-> NULL]
    /\ bsize = [i \in Id |-> 0]
    /\ pc = Idle

Holds(i, p, n) ==
    /\ block' = [block EXCEPT ![i] = p]
    /\ bsize' = [bsize EXCEPT ![i] = n]

Begun == trace.first = <<>>

\* The next name for a block: which one is all the same to the allocator.
Names == IF Begun THEN trace.ids ELSE Id
Unused(i) == block[i] = NULL /\ \A j \in Names : block[j] = NULL => i <= j

Requests == IF Begun THEN trace.sizes ELSE {trace.first[1]}
Continue == trace' = [trace EXCEPT !.first = IF Begun THEN @ ELSE Tail(@)]

\* The free blocks mm_realloc takes off their lists are not enough, and it
\* allocates another block, or extends the heap by one that does not merge
\* with them.
LeavesTaken(p, n) ==
    /\ ~IsTree(h)
    /\ Seg!SegAsize(h, n) > SizeAt(h, p)
    /\ \E taken \in {Seg!Taken(h, p, Seg!SegAsize(h, n))} :
          /\ taken # <<>>
          /\ \E end \in {NEXT_BLKP(h, taken[Len(taken)])} :
                /\ end - p < Seg!SegAsize(h, n)
                /\ SizeAt(h, end) # 0 \/ (Seg!Footless(h) /\ GET_PREV_ALLOC(h, end))

MayRealloc(p, n) == Begun /\ trace.realloc /\ (LeaveTaken \/ ~LeavesTaken(p, n))

\* What the call of mm_malloc or mm_realloc for block i returns.
Call(i, n) == IF block[i] = NULL THEN mm_malloc(h, n) ELSE mm_realloc(block[i], n)

Malloc(i, n, r) ==
    /\ block[i] = NULL /\ r.p # NULL
    /\ h' = Fill(r.h, r.p, n, i)
    /\ Holds(i, r.p, n)
    /\ Continue
    /\ UNCHANGED pc

Realloc(i, n, r) ==
    /\ block[i] # NULL /\ r.p # NULL
    /\ h' = r.h
    /\ Holds(i, r.p, n)
    /\ pc' = i
    /\ UNCHANGED trace

\* There is no memory: the trace ends.
OutOfMemory(r) ==
    /\ r.p = NULL
    /\ h' = r.h
    /\ pc' = Stopped
    /\ UNCHANGED <<trace, block, bsize>>

Allocate(i, n) ==
    /\ pc = Idle
    /\ IF block[i] = NULL THEN Unused(i) ELSE MayRealloc(block[i], n)
    /\ \E r \in {Call(i, n)} : Malloc(i, n, r) \/ Realloc(i, n, r) \/ OutOfMemory(r)

\* After a realloc the caller checks its data, then fills the block again.
Refill(i) ==
    /\ pc = i
    /\ h' = Fill(h, block[i], bsize[i], i)
    /\ pc' = Idle
    /\ UNCHANGED <<trace, block, bsize>>

Free(i) ==
    /\ pc = Idle /\ Begun /\ block[i] # NULL
    /\ h' = mm_free(block[i])
    /\ Holds(i, NULL, 0)
    /\ UNCHANGED <<trace, pc>>

Next ==
    \E i \in Names :
        \/ Free(i) \/ Refill(i)
        \/ \E n \in Requests : Allocate(i, n)

Spec == Init /\ [][Next]_vars

-----------------------------------------------------------------------------
Sizes == UNION {t.sizes \cup Range(t.first) : t \in Trace}

\* The blocks from the first one to the epilogue, as the headers say.
FirstBlock(x) == IF IsTree(x) THEN 6 ELSE Seg!reserved_48_block(x)
BlocksOf(x) ==
    LET walk[p \in 0 .. MaxHeap] ==
            IF p >= x.brk THEN {p}
            ELSE IF SizeAt(x, p) \notin 2 .. (MaxHeap - p) THEN {p}
            ELSE {p} \cup walk[p + SizeAt(x, p)]
    IN  walk[FirstBlock(x)]
FreeOf(x) == {p \in BlocksOf(x) \ {x.brk} : ~GET_ALLOC(x, p)}

\* Whether an allocated block has no footer.
NoFooter(x) == IsTree(x) \/ Seg!Footless(x)

Footed(p) == ~GET_ALLOC(h, p) \/ ~NoFooter(h)

\* mm_seg_no_footer.c does not tell the next block when it cuts off an end.
PrevBitRight(p) ==
    IF IsTree(h) THEN GET_PREV_ALLOC(h, NEXT_BLKP(h, p)) = GET_ALLOC(h, p)
    ELSE GET_ALLOC(h, p) => GET_PREV_ALLOC(h, NEXT_BLKP(h, p))

(* The headers tile the heap up to the epilogue; the footers there are say *)
(* what the headers say; where there are none, a header says of the block  *)
(* before it that it is free only if it is.  So NEXT_BLKP and PREV_BLKP    *)
(* land on blocks, in memory the caller, the links and the data a realloc  *)
(* moves are written to.  A block is allocated iff it is the caller's.     *)
HeapTiled ==
    pc # Stopped =>
    \E bs \in {BlocksOf(h)} :
      /\ h.brk \in bs
      /\ SizeAt(h, h.brk) = 0 /\ GET_ALLOC(h, h.brk)
      /\ \A p \in bs \ {h.brk} :
            /\ p < h.brk /\ SizeAt(h, p) >= 2 * DSIZE
            /\ p + SizeAt(h, p) \in bs
            /\ Footed(p) => /\ GET_SIZE(h, FTRP(h, p)) = SizeAt(h, p)
                            /\ Bit(GET(h, FTRP(h, p)), 1) = GET_ALLOC(h, p)
            /\ NoFooter(h) => PrevBitRight(p)
      /\ {p \in bs \ {h.brk} : GET_ALLOC(h, p)} =
            ({block[i] : i \in Id} \ {NULL})
               \cup (IF IsTree(h) \/ h.freed_48 THEN {} ELSE {FirstBlock(h)})

-----------------------------------------------------------------------------
\* The classes as they are kept apart: the same index for no two sizes on
\* either side of a bound.
OnList(x, i) ==
    {p \in FreeOf(x) : /\ i > 0 => SizeAt(x, p) > ClassBounds[i]
                       /\ i < Len(ClassBounds) => SizeAt(x, p) <= ClassBounds[i + 1]}

\* What follows p on a doubly linked list that ends with end, where next
\* and prev read its links: the set of what is met, or {} if the links do
\* not agree or go round.
Met(start, end, next(_), prev(_), before) ==
    LET walk[p \in 0 .. MaxHeap, from \in 0 .. MaxHeap, left \in 0 .. 8] ==
            IF p = end THEN {end}
            ELSE IF left = 0 \/ prev(p) # from \/ next(p) \notin 0 .. MaxHeap THEN {}
            ELSE {p} \cup walk[next(p), p, left - 1]
    IN  walk[start, before, 8]

SegListsRight(x) ==
    \A i \in 0 .. Len(ClassBounds) :
        \E list \in {Met(Seg!SegHead(x, i), NULL, LAMBDA p : x.mem[p + 1],
                         LAMBDA p : x.mem[p], NULL)} :
            /\ list = OnList(x, i) \cup {NULL}
            /\ x.file = "descend" =>
                  \A p \in list \ {NULL} :
                     x.mem[p + 1] # NULL => SizeAt(x, x.mem[p + 1]) <= SizeAt(x, p)

\* The nodes below p whose parent is q and whose sizes are from lo to hi;
\* {} where the links or the order are wrong.
Large(x) == {p \in FreeOf(x) : SizeAt(x, p) >= MINIMUM_TREE_BLOCK_SIZE}
Nodes(x) ==
    LET below[p \in 0 .. MaxHeap, q \in 0 .. MaxHeap, lo \in 0 .. MaxHeap, hi \in 0 .. MaxHeap] ==
            IF p = 1 THEN {1}
            ELSE IF 1 + x.mem[p + 2] # q \/ SizeAt(x, p) \notin lo .. hi THEN {}
            ELSE {p} \cup below[1 + x.mem[p], p, lo, SizeAt(x, p)]
                     \cup below[1 + x.mem[p + 1], p, SizeAt(x, p), hi]
    IN  below[x.root, 1, 0, MaxHeap]

\* The numbers of black nodes on the ways down from p; {-1} joins where a
\* red node has a red child.
IsRed(x, p) == p # 1 /\ (x.mem[p - 1] \div 4) % 2 = 0
Heights(x) ==
    LET height[p \in 0 .. MaxHeap, under \in BOOLEAN] ==
            IF p = 1 THEN {0}
            ELSE (IF under /\ IsRed(x, p) THEN {-1} ELSE {})
                 \cup {k + (IF IsRed(x, p) THEN 0 ELSE 1) :
                          k \in height[1 + x.mem[p], IsRed(x, p)]
                                \cup height[1 + x.mem[p + 1], IsRed(x, p)]}
    IN  height[x.root, TRUE]

TreeRight(x) ==
    /\ Met(1 + x.mem[2], 1, LAMBDA p : 1 + x.mem[p + 1], LAMBDA p : 1 + x.mem[p], 1)
          = (FreeOf(x) \ Large(x)) \cup {1}
    /\ Nodes(x) = Large(x) \cup {1}
    /\ x.file = "rbtree" => Cardinality(Heights(x)) = 1

(* Every free block can be found again: it is on the list of its class, in *)
(* the order mm_seg_descend.c keeps, or in the search tree (in             *)
(* mm_tree_rbtree.c a red-black tree); and nothing else is.  The links     *)
(* agree in both directions, after any splits, merges and reallocs, each   *)
(* of which takes out and puts back blocks of its own.                     *)
FreeBlocksListed ==
    pc # Stopped => IF IsTree(h) THEN TreeRight(h) ELSE SegListsRight(h)

(* Two neighbours are never both free, so that no request fails for want   *)
(* of a merge: but for the reserved block and the ends that                *)
(* mm_seg_no_footer.c cuts off, which merge when a neighbour is freed.     *)
Coalesced ==
    pc # Stopped /\ h.file # "no_footer" =>
        \E free \in {FreeOf(h)} :
            \A p \in free : NEXT_BLKP(h, p) \in free => p = FirstBlock(h) /\ h.freed_48

(* mm_malloc takes the smallest free block that is large enough, though    *)
(* it looks at one class or one path of the tree only, and extends the     *)
(* heap only if there is none.  Small blocks of the tree allocators are    *)
(* taken as they come.                                                     *)
Needed(n) ==
    LET words == IF NoFooter(h) THEN 2 * ((n + 2) \div 2) ELSE 2 * ((n + 3) \div 2)
    IN  Larger(words, 2 * DSIZE)
Request(n) == IF ~IsTree(h) /\ n \in DOMAIN Rounded THEN Rounded[n] ELSE n
TakesSmallest(i) ==
    \E fitting \in {{p \in FreeOf(h) : SizeAt(h, p) >= Needed(Request(bsize'[i]))}} :
        /\ fitting = {} <=> h'.brk > h.brk
        /\ fitting # {} =>
              \E p \in fitting :
                 /\ block'[i] \in p .. (p + SizeAt(h, p) - 1)
                 /\ \/ \A q \in fitting : SizeAt(h, p) <= SizeAt(h, q)
                    \/ IsTree(h) /\ SizeAt(h, p) < MINIMUM_TREE_BLOCK_SIZE

BestFit ==
    [][\A i \in Id : block[i] = NULL /\ block'[i] # NULL => TakesSmallest(i)]_vars

(* A realloc that returns keeps the data both blocks have room for: what   *)
(* mdriver.c checks of every realloc ("mm_realloc did not preserve the     *)
(* data from old block").                                                  *)
ReallocKeepsData ==
    [][\A i \in Id : pc' = i =>
         \A k \in 0 .. (Smaller(bsize[i], bsize'[i]) - 1) :
             h'.mem[block'[i] + k] = Data(i)]_vars

(* Malloc's contract: Allocator is implemented.                            *)
Contract == INSTANCE Allocator WITH
    Word <- 0 .. MaxHeap,
    Size <- Sizes,
    Mark <- [i \in Id |-> Data(i)],
    brk <- h.brk,
    data <- [i \in Id |-> [k \in 0 .. (bsize[i] - 1) |-> h.mem[block[i] + k]]]

KeepsContract == Contract!Spec

=============================================================================
