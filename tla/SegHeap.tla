------------------------------- MODULE SegHeap ------------------------------
(***************************************************************************)
(* The four segregated list allocators of malloc-lab-main as operators on  *)
(* a heap:                                                                 *)
(*   "bestfit"    mm_seg_bestfit.c    list heads in a static array         *)
(*   "inheap"     mm_seg_inheap.c     list heads in the heap               *)
(*   "descend"    mm_seg_descend.c    the same, lists in descending order  *)
(*   "no_footer"  mm_seg_no_footer.c  allocated blocks have no footer; a   *)
(*                                    bit of the next header replaces it   *)
(* A free block is on the doubly linked list of its size class; its first  *)
(* two words are the links.                                                *)
(*                                                                         *)
(* That is so where a pointer has the WSIZE (4) bytes of a word: PRED and  *)
(* SUCC are pointers that are stored WSIZE bytes apart, as are the list    *)
(* heads in the heap.  Where a pointer has 8 bytes each of them overwrites *)
(* half of the next one, which is not modelled; the Makefile sets neither. *)
(***************************************************************************)
EXTENDS HeapWords

CONSTANTS
    ClassBounds,    \* the largest size of each class but the last
    Reserved,       \* the size of the reserved block (48 bytes)
    Trigger,        \* the request that frees the reserved block (4092 bytes)
    Rounded         \* the requests that are rounded up, and to what

SegFiles == {"bestfit", "inheap", "descend", "no_footer"}

SEGREGATED_SIZE == Len(ClassBounds) + 1

get_seg_index(size) == Cardinality({k \in DOMAIN ClassBounds : ClassBounds[k] < size})

Footless(h) == h.file = "no_footer"

\* The heads are in the heap, after the padding word.
HeadsInHeap(h) == h.file \in {"inheap", "descend"}
SegHead(h, i) == IF HeadsInHeap(h) THEN GET(h, 1 + i) ELSE h.lists[i]
SetSegHead(h, i, p) ==
    IF HeadsInHeap(h) THEN PUT(h, 1 + i, p) ELSE [h EXCEPT !.lists[i] = p]

\* In mm_seg_no_footer.c a block is the header and an odd number of words,
\* elsewhere a header, an even number of words and a footer.
SegAlign(h, size) ==
    IF Footless(h) THEN size + ((size + 1) % 2) ELSE size + (size % 2)
Overhead(h) == IF Footless(h) THEN WSIZE ELSE DSIZE
SegAsize(h, size) == Overhead(h) + SegAlign(h, size)

\* The tags of the block of n words at p: a header and, unless an allocated
\* block has none, a footer.
PutTags(h, p, n, bits) ==
    LET headed == PUT(h, HDRP(p), PACK(n, bits))
    IN  IF Footless(h) /\ bits % 2 = 1 THEN headed
        ELSE PUT(headed, p + n - DSIZE, PACK(n, bits % 2))

\* The bit for the block before, which only mm_seg_no_footer.c keeps.
PrevBit(h, p) == IF Footless(h) /\ GET_PREV_ALLOC(h, p) THEN 2 ELSE 0

\* Mutated form of TellNext: the next header is left as it was.
TellNext_Not(h, p, alloc) == h

TellNext(h, p, alloc) ==
    LET w == HDRP(NEXT_BLKP(h, p))
    IN  CASE ~Footless(h) -> h
          [] alloc  -> PUT(h, w, SetBit(GET(h, w), 2))
          [] ~alloc -> PUT(h, w, ClearBit(GET(h, w), 2))

-----------------------------------------------------------------------------
PRED(h, p) == GET(h, p)
SUCC(h, p) == GET(h, p + WSIZE)

\* The blocks from p on along SUCC, in order.
Chain(h, p) ==
    LET walk[q \in 0 .. MaxHeap, left \in 0 .. MaxHeap] ==
            IF q = NULL \/ left = 0 THEN <<>>
            ELSE <<q>> \o walk[SUCC(h, q), left - 1]
    IN  walk[p, MaxHeap]

ClassList(h, i) == Chain(h, SegHead(h, i))

\* Mutated form of remove_free_block: the successor keeps its PRED.
remove_free_block_KeepsPred(h, p) ==
    LET i == get_seg_index(SizeAt(h, p))
    IN  IF PRED(h, p) = NULL THEN SetSegHead(h, i, SUCC(h, p))
        ELSE PUT(h, PRED(h, p) + WSIZE, SUCC(h, p))

(* remove_free_block trusts the links and the size it finds in the block.  *)
remove_free_block(h, p) ==
    LET i == get_seg_index(SizeAt(h, p))
        pred == PRED(h, p)
        succ == SUCC(h, p)
        unlinked == IF pred = NULL THEN SetSegHead(h, i, succ)
                    ELSE PUT(h, pred + WSIZE, succ)
    IN  IF succ = NULL THEN unlinked ELSE PUT(unlinked, succ, pred)

\* The block p between pred and succ on list i.
Link(h, i, pred, p, succ) ==
    LET linked == PUT(PUT(h, p, pred), p + WSIZE, succ)
        after  == IF pred = NULL THEN SetSegHead(linked, i, p)
                  ELSE PUT(linked, pred + WSIZE, p)
    IN  IF succ = NULL THEN after ELSE PUT(after, succ, p)

\* At the head of its list ...
InsertFirst(h, p) ==
    LET i == get_seg_index(SizeAt(h, p))
    IN  Link(h, i, NULL, p, SegHead(h, i))

\* ... or, in mm_seg_descend.c, after the blocks that are at least as large.
LinkBehind(h, p, list, n) ==
    Link(h, get_seg_index(SizeAt(h, p)), IF n = 0 THEN NULL ELSE list[n], p,
         IF n = Len(list) THEN NULL ELSE list[n + 1])
InsertInto(h, p, list) ==
    LinkBehind(h, p, list,
        Cardinality({k \in DOMAIN list : \A j \in 1 .. k : SizeAt(h, list[j]) >= SizeAt(h, p)}))
InsertDescending(h, p) == InsertInto(h, p, ClassList(h, get_seg_index(SizeAt(h, p))))

insert_free_block(h, p) ==
    IF h.file = "descend" THEN InsertDescending(Forget(h, p), p)
    ELSE InsertFirst(Forget(h, p), p)

RemoveIf(h, p, taken) == IF taken THEN remove_free_block(h, p) ELSE h
InsertResult(r) == Result(insert_free_block(r.h, r.p), r.p)

-----------------------------------------------------------------------------
(* coalesce: p is free and on no list; what it becomes is on its list.     *)
(* mm_seg_no_footer.c knows from a bit of p whether the block before is    *)
(* free, the others from its footer.                                       *)
PrevFree(h, p) ==
    IF Footless(h) THEN ~GET_PREV_ALLOC(h, p)
    ELSE ~Bit(GET(h, HDRP(PREV_BLKP(h, p))), 1)

coalesce(h, p) ==
    LET prev == PREV_BLKP(h, p)
        next == NEXT_BLKP(h, p)
        takesPrev == PrevFree(h, p)
        takesNext == ~GET_ALLOC(h, next)
        start == IF takesPrev THEN prev ELSE p
        size  == SizeAt(h, p) + (IF takesPrev THEN SizeAt(h, prev) ELSE 0)
                              + (IF takesNext THEN SizeAt(h, next) ELSE 0)
    IN  InsertResult(Result(
            PutTags(RemoveIf(RemoveIf(h, prev, takesPrev), next, takesNext),
                    start, size, PrevBit(h, start)), start))

(* extend_heap.  The header of the new block is the old epilogue.          *)
extend_heap(h, n) ==
    LET p == h.brk
        grown == [PutTags(h, p, n, PrevBit(h, p)) EXCEPT
                    !.brk = p + n,
                    !.epilogue = HDRP(p + n),
                    !.mem[HDRP(p + n)] = PACK(0, 1)]
    IN  IF CanExtend(h, n) THEN coalesce(grown, p) ELSE Result(h, NULL)

(* best_fit: in the first class that has a large enough block, the first   *)
(* of the smallest such.  mm_seg_descend.c stops at the first block that   *)
(* is too small.                                                           *)
Fitting(h, list, asize) ==
    {k \in DOMAIN list :
        IF h.file = "descend" THEN \A j \in 1 .. k : SizeAt(h, list[j]) >= asize
        ELSE SizeAt(h, list[k]) >= asize}
Better(h, list, j, k) ==
    \/ SizeAt(h, list[j]) < SizeAt(h, list[k])
    \/ SizeAt(h, list[j]) = SizeAt(h, list[k]) /\ j <= k
\* Mutated form of SmallestOf: the first that fits.
SmallestOf_First(h, list, fitting) ==
    list[CHOOSE k \in fitting : \A j \in fitting : k <= j]

SmallestOf(h, list, fitting) ==
    list[CHOOSE k \in fitting : \A j \in fitting : Better(h, list, k, j)]
FitOn(h, list, asize) == SmallestOf(h, list, Fitting(h, list, asize))

FitIn(h, classes, asize) ==
    IF classes = {} THEN NULL
    ELSE FitOn(h, ClassList(h, CHOOSE i \in classes : \A j \in classes : i <= j), asize)

ClassesFor(h, asize) ==
    {i \in get_seg_index(asize) .. (SEGREGATED_SIZE - 1) :
        Fitting(h, ClassList(h, i), asize) # {}}

best_fit(h, asize) == FitIn(h, ClassesFor(h, asize), asize)

(* place: p is a block that is free and on its list, or allocated.  The    *)
(* subtraction is unsigned.                                                *)
place(h, p, asize) ==
    LET csize == SizeAt(h, p)
        rest  == csize - asize
        taken == IF GET_ALLOC(h, p) THEN h ELSE remove_free_block(h, p)
        split == PutTags(taken, p, asize, 1 + PrevBit(h, p))
        next  == p + asize
    IN  IF rest \notin 0 .. (2 * DSIZE - 1)
        THEN insert_free_block(
                PutTags(split, next, rest, IF Footless(h) THEN 2 ELSE 0), next)
        ELSE TellNext(PutTags(taken, p, csize, 1 + PrevBit(h, p)), p, TRUE)

-----------------------------------------------------------------------------
(* mm_init.                                                                *)
FirstWord(file) == IF file \in {"inheap", "descend"} THEN SEGREGATED_SIZE ELSE 0
reserved_48_block(h) == FirstWord(h.file) + 4

SegInit(file, max) ==
    LET s == FirstWord(file)
        p == s + 4
        prev == IF file = "no_footer" THEN 2 ELSE 0
        blank == [file |-> file, max |-> max, mem |-> [w \in 0 .. (max - 1) |-> Junk],
                  brk |-> p + Reserved, epilogue |-> HDRP(p + Reserved),
                  lists |-> [i \in 0 .. (SEGREGATED_SIZE - 1) |-> NULL],
                  freed_48 |-> FALSE, root |-> NULL]
        heads == [blank EXCEPT !.mem = [w \in 0 .. (max - 1) |-> IF w <= s THEN NULL ELSE Junk]]
        prologue == PUT(PUT(heads, s + 1, PACK(DSIZE, 1)), s + 2, PACK(DSIZE, 1))
        whole == PUT(PutTags(prologue, p, Reserved, 1 + prev), p + Reserved - WSIZE, PACK(0, 1 + prev))
    IN  extend_heap(whole, CHUNKSIZE).h

\* The space of the last block, if it is free, need not be asked for again.
LastFree(h) ==
    LET last == h.brk - GET_SIZE(h, h.brk - DSIZE)
    IN  IF Footless(h)
        THEN IF Bit(GET(h, h.epilogue), 2) THEN 0 ELSE SizeAt(h, last)
        ELSE IF GET_ALLOC(h, last) THEN 0 ELSE SizeAt(h, last)

\* The reserved block is freed once, and not merged with its neighbour: at
\* the first extension, or at one for a request of a certain size.
FreeReserved(h, size) ==
    LET p == reserved_48_block(h)
    IN  IF /\ Footless(h) \/ size = Trigger
           /\ ~h.freed_48 /\ GET_ALLOC(h, p)
        THEN [insert_free_block(
                TellNext(PutTags(h, p, Reserved, IF Footless(h) THEN 2 ELSE 0), p, FALSE), p)
              EXCEPT !.freed_48 = TRUE]
        ELSE h

PlaceExtended(r, asize, size) ==
    IF r.p = NULL THEN r ELSE Result(FreeReserved(place(r.h, r.p, asize), size), r.p)
PlaceAt(h, fit, asize, size) ==
    IF fit # NULL THEN Result(place(h, fit, asize), fit)
    ELSE PlaceExtended(extend_heap(h, Larger(asize, CHUNKSIZE) - LastFree(h)), asize, size)

SegMalloc(h, n) ==
    LET size  == IF n \in DOMAIN Rounded THEN Rounded[n] ELSE n
        asize == SegAsize(h, size)
    IN  IF size = 0 THEN Result(h, NULL) ELSE PlaceAt(h, best_fit(h, asize), asize, size)

SegFree(h, p) ==
    coalesce(TellNext(PutTags(h, p, SizeAt(h, p), PrevBit(h, p)), p, FALSE), p).h

-----------------------------------------------------------------------------
(* mm_realloc.                                                             *)

\* The loop takes the free blocks after p off their lists until there is
\* room.  What it has taken stays marked free and keeps its links.

\* Mutated form of Taken: the blocks after p need not be free.
Taken_Any(h, p, asize) ==
    LET walk[q \in 0 .. MaxHeap, room \in 0 .. MaxHeap] ==
            IF SizeAt(h, q) = 0 \/ room >= asize THEN <<>>
            ELSE <<q>> \o walk[NEXT_BLKP(h, q), room + SizeAt(h, q)]
    IN  walk[NEXT_BLKP(h, p), SizeAt(h, p)]

Taken(h, p, asize) ==
    LET walk[q \in 0 .. MaxHeap, room \in 0 .. MaxHeap] ==
            IF GET_ALLOC(h, q) \/ SizeAt(h, q) = 0 \/ room >= asize THEN <<>>
            ELSE <<q>> \o walk[NEXT_BLKP(h, q), room + SizeAt(h, q)]
    IN  walk[NEXT_BLKP(h, p), SizeAt(h, p)]

RemoveAll(h, blocks) ==
    LET without[k \in 0 .. Len(blocks)] ==
            IF k = 0 THEN h ELSE remove_free_block(without[k - 1], blocks[k])
    IN  without[Len(blocks)]

\* The block p takes in everything before q.
Grow(h, p, q) ==
    TellNext(PutTags(h, p, q - p, 1 + PrevBit(h, p)), p, TRUE)

\* With the new space.
GrowInto(h, p, next, asize) ==
    place(Grow(remove_free_block(h, next), p, NEXT_BLKP(h, next)), p, asize)
ReallocExtend(r, p, asize) ==
    IF r.p = NULL THEN r ELSE Result(GrowInto(r.h, p, NEXT_BLKP(r.h, p), asize), p)

\* In a new block, to which n words are copied.
ReallocMove(new, p, n) ==
    IF new.p = NULL THEN new ELSE Result(SegFree(Copy(new.h, new.p, p, n), p), new.p)

\* The free blocks up to end are taken.
ReallocUpTo(h, p, csize, end, asize, n) ==
    IF end - p >= asize THEN Result(Grow(h, p, end), p)
    ELSE IF SizeAt(h, end) = 0
    THEN ReallocExtend(extend_heap(h, Larger(asize - csize, CHUNKSIZE)), p, asize)
    ELSE ReallocMove(SegMalloc(h, n), p, Smaller(n, csize - Overhead(h)))
ReallocTaking(h, p, taken, asize, n) ==
    ReallocUpTo(RemoveAll(h, taken), p, SizeAt(h, p),
                NEXT_BLKP(h, IF taken = <<>> THEN p ELSE taken[Len(taken)]), asize, n)

SegRealloc(h, p, n) ==
    LET csize == SizeAt(h, p)
        asize == SegAsize(h, n)
    IN  IF asize > csize THEN ReallocTaking(h, p, Taken(h, p, asize), asize, n)
        \* only mm_seg_no_footer.c gives back what is too much
        ELSE Result(IF Footless(h) /\ csize - asize >= 2 * DSIZE
                    THEN place(h, p, asize) ELSE h, p)

=============================================================================
