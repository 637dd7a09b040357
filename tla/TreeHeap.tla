------------------------------ MODULE TreeHeap ------------------------------
(***************************************************************************)
(* The two tree allocators of malloc-lab-main as operators on a heap:      *)
(*   "bst"     mm_tree_bst.c     large free blocks in a binary search tree *)
(*   "rbtree"  mm_tree_rbtree.c  the same tree kept balanced by colors,    *)
(*                               which are bits of the headers             *)
(* Small free blocks are on one circular list.  Its head, the tree's NIL   *)
(* and the second word of the heap are the same address, so that a link    *)
(* written through NIL would end up on the list.  Allocated blocks have no *)
(* footer; a bit of the next header says whether a block is allocated.     *)
(***************************************************************************)
EXTENDS HeapWords

CONSTANTS
    MINIMUM_TREE_BLOCK_SIZE,    \* smaller free blocks are on the list
    BackAsize, BackRest         \* SPLIT_BACK: 96 and 48 bytes

TreeFiles == {"bst", "rbtree"}

free_list_head == 1
NIL == free_list_head

\* Links are kept as offsets from the list's head.
LinkAt(h, w) == free_list_head + GET(h, w)
OFFSET(p) == p - free_list_head
PRED(h, p) == LinkAt(h, p)
SUCC(h, p) == LinkAt(h, p + WSIZE)
SET_PRED(h, p, q) == PUT(h, p, OFFSET(q))
SET_SUCC(h, p, q) == PUT(h, p + WSIZE, OFFSET(q))

\* LINK, ERASE and INSERT.
LinkBlocks(h, p, q) == SET_PRED(SET_SUCC(h, p, q), q, p)
EraseFromList(h, p) == LinkBlocks(h, PRED(h, p), SUCC(h, p))
InsertAfter(h, p, q) == LinkBlocks(LinkBlocks(h, q, SUCC(h, p)), p, q)

\* SET_SIZE keeps the bits of the word; SET_TAG and CLR_TAG the rest of it.
SetSize(h, w, n) == PUT(h, w, 4 * n + (GET(h, w) % 8))
SetBitAt(h, w, b) == PUT(h, w, SetBit(GET(h, w), b))
ClearBitAt(h, w, b) == PUT(h, w, ClearBit(GET(h, w), b))
SET_ALLOC(h, p) == SetBitAt(h, HDRP(p), 1)
CLR_ALLOC(h, p) == ClearBitAt(h, HDRP(p), 1)
SET_TAG(h, p) == SetBitAt(h, HDRP(p), 2)
CLR_TAG(h, p) == ClearBitAt(h, HDRP(p), 2)
TagNext(h, p) == SET_TAG(h, NEXT_BLKP(h, p))
UntagNext(h, p) == CLR_TAG(h, NEXT_BLKP(h, p))

-----------------------------------------------------------------------------
(* The tree.  A node has its left child where a list node has its          *)
(* predecessor, its right child where that has its successor.              *)
Sides == {"L", "R"}
Other(s) == IF s = "L" THEN "R" ELSE "L"
Child(h, p, s) == IF s = "L" THEN PRED(h, p) ELSE SUCC(h, p)
SetChild(h, p, s, q) == IF s = "L" THEN SET_PRED(h, p, q) ELSE SET_SUCC(h, p, q)
PARENT(h, p) == LinkAt(h, p + 2 * WSIZE)
SET_PARENT(h, p, q) == PUT(h, p + 2 * WSIZE, OFFSET(q))
\* Guards of the form if (v != NIL).
SetParentOf(h, v, q) == IF v = NIL THEN h ELSE SET_PARENT(h, v, q)

\* The side of its parent that u is on, tested on side s.
SideOf(h, u, s) == IF u = Child(h, PARENT(h, u), s) THEN s ELSE Other(s)

\* v in the place of u.
Replace(h, u, v) ==
    IF PARENT(h, u) = NIL THEN [h EXCEPT !.root = v]
    ELSE SetChild(h, PARENT(h, u), SideOf(h, u, "L"), v)
TRANSPLANT(h, u, v) == SetParentOf(Replace(h, u, v), v, PARENT(h, u))

RECURSIVE LowerBound(_, _, _, _)
\* The descent of tree_lower_bound from p, with r the best so far.
LowerBound(h, p, r, size) ==
    CASE p = NIL -> r
      [] p # NIL /\ SizeAt(h, p) = size -> p
      [] p # NIL /\ SizeAt(h, p) < size -> LowerBound(h, SUCC(h, p), r, size)
      [] p # NIL /\ SizeAt(h, p) > size -> LowerBound(h, PRED(h, p), p, size)

tree_lower_bound(h, size) == LowerBound(h, h.root, NIL, size)

\* Where a block of this size goes below p: right of smaller ones.
SideFor(h, p, size) == IF SizeAt(h, p) < size THEN "R" ELSE "L"
RECURSIVE LeafFor(_, _, _)
LeafFor(h, p, size) ==
    LET q == Child(h, p, SideFor(h, p, size))
    IN  IF q = NIL THEN p ELSE LeafFor(h, q, size)

\* tree_insert of mm_tree_bst.c.
BstInsert(h, p) ==
    LET size == SizeAt(h, p)
        y    == IF h.root = NIL THEN NIL ELSE LeafFor(h, h.root, size)
        leaf == SET_PARENT(SET_SUCC(SET_PRED(h, p, NIL), p, NIL), p, y)
    IN  IF y = NIL THEN [leaf EXCEPT !.root = p]
        ELSE SetChild(leaf, y, SideFor(h, y, size), p)

RECURSIVE Leftmost(_, _)
Leftmost(h, p) == IF PRED(h, p) = NIL THEN p ELSE Leftmost(h, PRED(h, p))

\* y, which has no left child, gets the right or the left subtree of p.
AdoptRight(h, p, y) == SET_PARENT(SET_SUCC(h, y, SUCC(h, p)), SUCC(h, p), y)
AdoptLeft(h, p, y) == SET_PARENT(SET_PRED(h, y, PRED(h, p)), PRED(h, p), y)
PutInPlace(h, p, y) ==
    AdoptLeft(TRANSPLANT(IF PARENT(h, y) = p THEN h
                         ELSE AdoptRight(TRANSPLANT(h, y, SUCC(h, y)), p, y), p, y), p, y)

\* What both tree_erase do to the links: with two children, the least node
\* of the right subtree takes the place of p.
Unlink(h, p) ==
    IF PRED(h, p) = NIL THEN TRANSPLANT(h, p, SUCC(h, p))
    ELSE IF SUCC(h, p) = NIL THEN TRANSPLANT(h, p, PRED(h, p))
    ELSE PutInPlace(h, p, Leftmost(h, SUCC(h, p)))

\* tree_erase of mm_tree_bst.c.
BstErase(h, p) == Unlink(h, p)

-----------------------------------------------------------------------------
(* Colors, in bit 4 of the headers (mm_tree_rbtree.c).                     *)
Red(h, p) == p # NIL /\ ~Bit(GET(h, HDRP(p)), 4)
SET_RED(h, p) == ClearBitAt(h, HDRP(p), 4)
SET_BLACK(h, p) == SetBitAt(h, HDRP(p), 4)
BlackenIf(h, p) == IF p = NIL THEN h ELSE SET_BLACK(h, p)
SetColorOf(h, p, q) == IF Red(h, q) THEN SET_RED(h, p) ELSE SET_BLACK(h, p)

\* rb_left_rotate for s = "L", rb_right_rotate for s = "R": x goes down on
\* side s, its child y on the other side up.
Rotate(h, x, s) ==
    LET y == Child(h, x, Other(s))
        b == Child(h, y, s)
        lowered == SetParentOf(SetChild(h, x, Other(s), b), b, x)
    IN  SET_PARENT(SetChild(TRANSPLANT(lowered, x, y), y, s, x), x, y)

BlackenRoot(h) == BlackenIf(h, h.root)

\* Cases 2 and 3 of rb_insert_fixup: z's parent is on side s.
Colored(h, p, top) == SET_RED(SET_BLACK(h, p), top)
TurnTop(h, low, s) ==
    LET top == PARENT(h, PARENT(h, low))
    IN  [h |-> Rotate(Colored(h, PARENT(h, low), top), top, Other(s)), z |-> low]
TurnUp(h, z, s) ==
    IF z = Child(h, PARENT(h, z), Other(s))
    THEN TurnTop(Rotate(h, PARENT(h, z), s), PARENT(h, z), s)
    ELSE TurnTop(h, z, s)

RECURSIVE rb_insert_fixup(_, _)
FixAgain(r) == rb_insert_fixup(r.h, r.z)
FixParent(h, z, parent, top, uncle, s) ==
    FixAgain(IF Red(h, uncle)
             THEN [h |-> Colored(SET_BLACK(h, uncle), parent, top), z |-> top]
             ELSE TurnUp(h, z, s))
rb_insert_fixup(h, z) ==
    LET parent == PARENT(h, z)
        top == PARENT(h, parent)
        s == SideOf(h, parent, "L")
    IN  IF parent = NIL \/ top = NIL \/ ~Red(h, parent) THEN BlackenRoot(h)
        ELSE FixParent(h, z, parent, top, Child(h, top, Other(s)), s)

RbInsert(h, p) == rb_insert_fixup(BstInsert(SET_RED(h, p), p), p)

\* Cases 3 and 4 of rb_delete_fixup: w, the sibling of x, is black and has
\* a red child; x is on side s of its parent.
TurnFar(h, xp, w, s) ==
    LET colored == SET_BLACK(SetColorOf(h, w, xp), xp)
    IN  Rotate(BlackenIf(colored, Child(h, w, Other(s))), xp, s)
TurnNear(h, w, s) ==
    IF Red(h, Child(h, w, Other(s))) THEN h
    ELSE Rotate(SET_RED(BlackenIf(h, Child(h, w, s)), w), w, Other(s))
TurnSibling(h, xp, s) == TurnFar(h, xp, Child(h, xp, Other(s)), s)
TurnDown(h, xp, w, s) == TurnSibling(TurnNear(h, w, s), xp, s)

RECURSIVE rb_delete_fixup(_, _, _)

\* Cases 2 to 4: the sibling w is not red.
FixBlackSibling(h, xp, w, s) ==
    IF ~Red(h, Child(h, w, "L")) /\ ~Red(h, Child(h, w, "R"))
    THEN rb_delete_fixup(IF w = NIL THEN h ELSE SET_RED(h, w), xp, PARENT(h, xp))
    ELSE BlackenRoot(TurnDown(h, xp, w, s))
FixSibling(h, xp, s) == FixBlackSibling(h, xp, Child(h, xp, Other(s)), s)

\* Case 1: a red sibling is turned up first.
TurnRed(h, xp, w, s) ==
    IF Red(h, w) THEN Rotate(SET_RED(SET_BLACK(h, w), xp), xp, s) ELSE h

rb_delete_fixup(h, x, xp) ==
    LET s == IF x = Child(h, xp, "L") THEN "L" ELSE "R"
    IN  IF x = h.root \/ Red(h, x) THEN BlackenIf(h, x)
        ELSE FixSibling(TurnRed(h, xp, Child(h, xp, Other(s)), s), xp, s)

\* The fix-up starts at the node that took the place of y, the node whose
\* color is lost: z itself, or the one that takes z's place and color.
Lost(h, z) ==
    IF PRED(h, z) # NIL /\ SUCC(h, z) # NIL THEN Leftmost(h, SUCC(h, z)) ELSE z
TakeColor(h, y, z) == IF y = z THEN h ELSE SetColorOf(h, y, z)
FixErased(h, black, x, xp) == IF black THEN rb_delete_fixup(h, x, xp) ELSE h
EraseLosing(h, z, y) ==
    FixErased(TakeColor(Unlink(h, z), y, z), ~Red(h, y),
              IF PRED(h, y) = NIL THEN SUCC(h, y) ELSE PRED(h, y),
              IF y # z /\ PARENT(h, y) = z THEN y ELSE PARENT(h, y))
RbErase(h, z) == EraseLosing(h, z, Lost(h, z))

-----------------------------------------------------------------------------
(* The list or the tree, by size.                                          *)
InsertFree(h, p) ==
    LET b == Forget(h, p)
    IN  CASE SizeAt(h, p) < MINIMUM_TREE_BLOCK_SIZE -> InsertAfter(b, free_list_head, p)
          [] OTHER -> IF h.file = "bst" THEN BstInsert(b, p) ELSE RbInsert(b, p)

EraseFree(h, p) ==
    CASE SizeAt(h, p) < MINIMUM_TREE_BLOCK_SIZE -> EraseFromList(h, p)
      [] OTHER -> IF h.file = "bst" THEN BstErase(h, p) ELSE RbErase(h, p)

EraseIf(h, p, taken) == IF taken THEN EraseFree(h, p) ELSE h

\* size_in_need: a header and an odd number of words, at least three.
size_in_need(n) == Larger(2 * DSIZE, IF n % 2 = 1 THEN n + 1 ELSE n + 2)

(* coalesce: p is in neither, and neither is what it becomes.              *)
coalesce(h, p) ==
    LET next == NEXT_BLKP(h, p)
        takesPrev == ~GET_PREV_ALLOC(h, p)
        takesNext == ~GET_ALLOC(h, next)
        prev == PREV_BLKP(h, p)
        start == IF takesPrev THEN prev ELSE p
        size == SizeAt(h, p) + (IF takesNext THEN SizeAt(h, next) ELSE 0)
                             + (IF takesPrev THEN SizeAt(h, prev) ELSE 0)
    IN  IF takesPrev \/ takesNext
        THEN Result(PUT(SetSize(EraseIf(EraseIf(h, next, takesNext), prev, takesPrev),
                                HDRP(start), size),
                        start + size - DSIZE, PACK(size, 0)), start)
        ELSE Result(h, p)

(* extend_heap; an odd number of words is rounded up.                      *)
extend_heap(h, words) ==
    LET n == words + (words % 2)
        p == h.brk
        headed == CLR_ALLOC(SetSize(h, HDRP(p), n), p)
        grown == [PUT(headed, p + n - DSIZE, PACK(n, 0)) EXCEPT
                    !.brk = p + n,
                    !.epilogue = HDRP(p + n),
                    !.mem[HDRP(p + n)] = PACK(0, 1)]
    IN  IF CanExtend(h, n) THEN coalesce(grown, p) ELSE Result(h, NULL)

\* find_fit: the first on the list.
RECURSIVE FirstFit(_, _, _)
FirstFit(h, p, asize) ==
    CASE p = free_list_head -> NULL
      [] p # free_list_head /\ SizeAt(h, p) >= asize -> p
      [] OTHER -> FirstFit(h, SUCC(h, p), asize)
find_fit(h, asize) == FirstFit(h, SUCC(h, free_list_head), asize)

(* place: p is in neither.  Of a large block a large request is given the  *)
(* back, whose header keeps bits that happened to be in that word.         *)
SPLIT_BACK(asize, rest) == asize < BackAsize \/ rest < BackRest

PlaceFront(h, p, asize, rest) ==
    LET next == p + asize
    IN  PUT(PUT(SetSize(h, HDRP(p), asize), HDRP(next), PACK(rest, 0)),
            next + rest - DSIZE, PACK(rest, 0))

PlaceBack(h, p, asize, rest) ==
    LET q == p + rest
        front == PUT(SetSize(h, HDRP(p), rest), q - DSIZE, PACK(rest, 0))
    IN  SetSize(SET_ALLOC(front, q), HDRP(q), asize)

\* What coalesce returned is marked free and put into the list or the tree.
FreeRest(r) ==
    InsertFree(UntagNext(CLR_ALLOC(SET_TAG(r.h, r.p), r.p), r.p), r.p)

place(h0, p, asize) ==
    LET h    == SET_ALLOC(h0, p)
        rest == SizeAt(h, p) - asize
        front == SPLIT_BACK(asize, rest)
        cut  == IF front THEN PlaceFront(h, p, asize, rest) ELSE PlaceBack(h, p, asize, rest)
        bp   == IF front THEN p ELSE p + rest
        next == IF front THEN p + asize ELSE p
    IN  IF rest >= 2 * DSIZE
        THEN Result(TagNext(FreeRest(coalesce(TagNext(cut, bp), next)), bp), bp)
        ELSE Result(TagNext(h, p), p)

-----------------------------------------------------------------------------
(* mm_init.                                                                *)
ListFirst(r) == InsertFree(SET_TAG(r.h, r.p), r.p)
TreeInit(file, max) ==
    LET blank == [file |-> file, max |-> max,
                  mem |-> [w \in 0 .. (max - 1) |-> IF w <= 2 THEN 0 ELSE Junk],
                  brk |-> 6, epilogue |-> 5, lists |-> <<>>, freed_48 |-> FALSE, root |-> NIL]
        prologue == PUT(PUT(blank, 3, PACK(DSIZE, 1)), 4, PACK(DSIZE, 1))
    IN  ListFirst(extend_heap(PUT(prologue, 5, PACK(0, 3)), CHUNKSIZE))

(* mm_malloc_wrapped.  When it is called from mm_realloc it asks for a     *)
(* whole new block even if the last one is free.                           *)
RoomFor(h, asize, realloc) ==
    LET small == find_fit(h, asize)
        large == tree_lower_bound(h, asize)
        last  == IF realloc \/ Bit(GET(h, h.epilogue), 2) THEN 0
                 ELSE GET_SIZE(h, h.epilogue - WSIZE)
    IN  IF asize < MINIMUM_TREE_BLOCK_SIZE /\ small # NULL
        THEN Result(EraseFromList(h, small), small)
        ELSE IF large # NIL THEN Result(EraseFree(h, large), large)
        ELSE extend_heap(h, Larger(asize, CHUNKSIZE) - last)
PlaceIn(r, asize) == IF r.p = NULL THEN r ELSE place(r.h, r.p, asize)
MallocWrapped(h, n, realloc) ==
    IF n = 0 THEN Result(h, NULL)
    ELSE PlaceIn(RoomFor(h, size_in_need(n), realloc), size_in_need(n))

TreeMalloc(h, n) == MallocWrapped(h, n, FALSE)

InsertResult(r) == InsertFree(r.h, r.p)

\* Mutated form of TreeFree: the next block is not told.
TreeFree_NoTag(h, p) ==
    LET h1 == CLR_ALLOC(h, p)
    IN  InsertResult(coalesce(PUT(h1, FTRP(h1, p), PACK(SizeAt(h, p), 0)), p))

TreeFree(h, p) ==
    LET h1 == UntagNext(CLR_ALLOC(h, p), p)
    IN  InsertResult(coalesce(PUT(h1, FTRP(h1, p), PACK(SizeAt(h, p), 0)), p))

-----------------------------------------------------------------------------
(* mm_realloc.                                                             *)

\* The header and the footer of the block at p.
SetSizes(h, p, n) == SetSize(SetSize(h, HDRP(p), n), p + n - DSIZE, n)

\* COALESCE_NEXT and COALESCE_PREV: the block p takes in a free neighbour.
\* The contents move to the front; the header there stays marked free.
CoalesceNext(h, p) ==
    LET size == SizeAt(h, p) + SizeAt(h, NEXT_BLKP(h, p))
    IN  Result(SET_TAG(SetSizes(EraseFree(h, NEXT_BLKP(h, p)), p, size), p + size), p)

\* Mutated form of CoalescePrev: the contents stay where they were.
CoalescePrev_NoMove(h, p) ==
    LET q == PREV_BLKP(h, p)
    IN  Result(SetSizes(EraseFree(h, q), q, SizeAt(h, p) + SizeAt(h, q)), q)

CoalescePrev(h, p) ==
    LET q == PREV_BLKP(h, p)
    IN  Result(SetSizes(Copy(EraseFree(h, q), q, p, SizeAt(h, p) - WSIZE), q,
                        SizeAt(h, p) + SizeAt(h, q)), q)

TrivialPlace(r) == Result(TagNext(SET_ALLOC(r.h, r.p), r.p), r.p)

\* Neither neighbour is enough: both are taken in all the same.
TakePrev(r) == CoalescePrev(r.h, r.p)
TakeNextIf(r, taken) == IF taken THEN CoalesceNext(r.h, r.p) ELSE r
TakeBoth(h, p, prev, next) ==
    TakeNextIf(IF prev = 0 THEN Result(h, p) ELSE CoalescePrev(h, p), next # 0)

\* The block is then the last one: the heap is extended by what is missing.
Join(h, p, size) == Result(SET_TAG(SetSizes(h, p, size), p + size), p)
JoinNew(more, p) ==
    IF more.p = NULL THEN more
    ELSE Join(more.h, p, SizeAt(more.h, p) + SizeAt(more.h, NEXT_BLKP(more.h, p)))
ReallocExtend(r, asize) ==
    JoinNew(extend_heap(TrivialPlace(r).h, asize - SizeAt(r.h, r.p)), r.p)

\* Or a new block is allocated, and everything there is copied to it.
MoveTo(new, p, size) ==
    IF new.p = NULL THEN new
    ELSE Result(TreeFree(Copy(new.h, new.p, p, size - WSIZE), p), new.p)
ReallocMove(r, n) == MoveTo(MallocWrapped(r.h, n, TRUE), r.p, SizeAt(r.h, r.p))

TakeNeighbours(h, p, asize, prev, next) ==
    LET size == SizeAt(h, p)
    IN  IF size >= asize THEN Result(h, p)
        ELSE IF size + next >= asize THEN CoalesceNext(h, p)
        ELSE IF size + prev >= asize THEN CoalescePrev(h, p)
        ELSE IF size + next + prev >= asize THEN TakePrev(CoalesceNext(h, p))
        ELSE TakeBoth(h, p, prev, next)
AfterNeighbours(r, enough, n) ==
    IF enough THEN TrivialPlace(r)
    ELSE IF HDRP(NEXT_BLKP(r.h, r.p)) = r.h.epilogue THEN ReallocExtend(r, size_in_need(n))
    ELSE ReallocMove(r, n)

TreeRealloc(h, p, n) ==
    LET asize == size_in_need(n)
        next == IF GET_ALLOC(h, NEXT_BLKP(h, p)) THEN 0 ELSE SizeAt(h, NEXT_BLKP(h, p))
        prev == IF GET_PREV_ALLOC(h, p) THEN 0 ELSE SizeAt(h, PREV_BLKP(h, p))
    IN  AfterNeighbours(TakeNeighbours(h, p, asize, prev, next),
                        SizeAt(h, p) + next + prev >= asize, n)

=============================================================================
