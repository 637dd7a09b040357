------------------------------ MODULE HeapWords -----------------------------
(***************************************************************************)
(* The heap of memlib.c as the allocators of malloc-lab-main that link     *)
(* their free blocks through the free memory itself see it (mm_seg_*.c,    *)
(* mm_tree_*.c): words of WSIZE bytes that hold integers, whatever they    *)
(* mean.  A tag, a link and the caller's data share the memory, so that a  *)
(* stale link or an overwritten tag is read back as what was written.      *)
(*                                                                         *)
(* Addresses and sizes are in words.  A heap h is a record:                *)
(*   file      which of the source files is linked                         *)
(*   mem       the words                                                   *)
(*   max       MAX_HEAP: the words the heap can have                       *)
(*   brk       memlib's mem_brk                                            *)
(*   epilogue  the header of the epilogue                                  *)
(*   lists     the static array segregated_lists (mm_seg_*.c)              *)
(*   freed_48  the flag freed_48_block (mm_seg_*.c)                        *)
(*   root      tree_root (mm_tree_*.c)                                     *)
(***************************************************************************)
EXTENDS Integers, Sequences, FiniteSets

CONSTANTS
    MaxHeap,    \* bound: the largest heap
    CHUNKSIZE   \* the least amount the heap is extended by

Words(h) == 0 .. (h.max - 1)

WSIZE == 1
DSIZE == 2

\* A word nobody relies on: all its bits are set.
Junk == -1

\* GET and PUT.
GET(h, w) == h.mem[w]
PUT(h, w, v) == [h EXCEPT !.mem[w] = v]

\* A tag is a size in bytes with bits below it: 1 allocated, 2 the block
\* before is allocated, 4 black.  Two words are eight bytes.
PACK(size, bits) == 4 * size + bits
SizeOf(tag) == 2 * (tag \div 8)
Bit(tag, b) == (tag \div b) % 2 = 1
SetBit(tag, b) == IF Bit(tag, b) THEN tag ELSE tag + b
ClearBit(tag, b) == IF Bit(tag, b) THEN tag - b ELSE tag

HDRP(p) == p - WSIZE
GET_SIZE(h, w) == SizeOf(GET(h, w))
SizeAt(h, p) == GET_SIZE(h, HDRP(p))
GET_ALLOC(h, p) == Bit(GET(h, HDRP(p)), 1)
GET_PREV_ALLOC(h, p) == Bit(GET(h, HDRP(p)), 2)
FTRP(h, p) == p + SizeAt(h, p) - DSIZE
NEXT_BLKP(h, p) == p + SizeAt(h, p)
PREV_BLKP(h, p) == p - GET_SIZE(h, p - DSIZE)

Larger(x, y) == IF x > y THEN x ELSE y
Smaller(x, y) == IF x < y THEN x ELSE y

\* mem_sbrk takes an int and refuses a negative one.
CanExtend(h, n) == n >= 0 /\ h.brk + n <= h.max

\* What the words of the free block at p up to its footer hold is forgotten.
Forget(h, p) ==
    [h EXCEPT !.mem = [w \in Words(h) |-> IF p <= w /\ w < FTRP(h, p) THEN Junk ELSE h.mem[w]]]

\* memcpy and memmove of n words from p to q.
Copy(h, q, p, n) ==
    [h EXCEPT !.mem = [w \in Words(h) |-> IF q <= w /\ w < q + n THEN h.mem[p + w - q] ELSE h.mem[w]]]

\* What a call returns: the heap it leaves, and an address, 0 being NULL.
Result(h, p) == [h |-> h, p |-> p]
NULL == 0

=============================================================================
