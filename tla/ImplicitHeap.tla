---------------------------- MODULE ImplicitHeap ----------------------------
(***************************************************************************)
(* The three implicit free list allocators of malloc-lab-main, which       *)
(* differ in how they look for a free block (mm_linkedlist_firstfit.c,     *)
(* mm_linkedlist_nextfit.c, mm_linkedlist_bestfit.c), on the heap of       *)
(* memlib.c, called the way eval_mm_valid of mdriver.c calls them.         *)
(*                                                                         *)
(* The heap is modelled word by word (WSIZE bytes): a word holds a tag,    *)
(* the header or footer of a block, or what the caller wrote.  Addresses   *)
(* and sizes are in words.  Reading as a tag a word that holds none is an  *)
(* error of the run.  An iteration of a search and a call of coalesce are  *)
(* steps of their own.                                                     *)
(***************************************************************************)
EXTENDS Integers, FiniteSets

CONSTANTS
    Id,         \* the blocks of a trace
    MaxHeap,    \* MAX_HEAP
    CHUNKSIZE,  \* the least amount the heap is extended by
    Size,       \* bound: the sizes that are asked for
    NULL

ASSUME SizeAssumption ==
    /\ MaxHeap \in Nat
    /\ Size \subseteq Nat \ {0}
    /\ CHUNKSIZE \in Nat /\ CHUNKSIZE % 2 = 0 /\ CHUNKSIZE >= 4
    /\ 4 + CHUNKSIZE <= MaxHeap

ASSUME NullAssumption == NULL \notin Nat

Word == 0 .. (MaxHeap - 1)

WSIZE == 1
DSIZE == 2
heap_listp == 2

VARIABLES
    fit,            \* which of the three files is linked
    mem,            \* the heap
    brk,            \* memlib's mem_brk: the end of the heap
    epilogue,       \* the header of the epilogue
    last_fit_ptr,   \* where next_fit begins
    blocks,         \* auxiliary: the blocks between prologue and epilogue
    pc,             \* where the call is; "idle" between two calls
    after,          \* where coalesce returns to
    call,           \* the block of the trace and the size it asks for
    ptr,            \* the block at hand
    best_ptr,       \* the best block best_fit has seen
    res,            \* the block that is returned
    block, bsize    \* the caller's blocks: address and size

heap   == <<mem, brk, epilogue, last_fit_ptr, blocks>>
client == <<block, bsize>>
vars   == <<fit, heap, pc, after, call, ptr, best_ptr, res, client>>

-----------------------------------------------------------------------------
(* The macros.                                                             *)
PACK(size, alloc) == [size |-> size, alloc |-> alloc]
GET_SIZE(p)  == mem[p].size
GET_ALLOC(p) == mem[p].alloc = 1
HDRP(p) == p - WSIZE
FTRP(p) == p + GET_SIZE(HDRP(p)) - DSIZE
NEXT_BLKP(p) == p + GET_SIZE(HDRP(p))
PREV_BLKP(p) == p - GET_SIZE(p - DSIZE)
HEADER_TO_PREV(p) == p - GET_SIZE(p - WSIZE) + WSIZE

\* A multiple of two words.
ALIGN(size) == size + (size % 2)
Asize(size) == DSIZE + ALIGN(size)

Larger(x, y) == IF x > y THEN x ELSE y

\* Mutated form of PutTags: the footer is forgotten.
PutTags_NoFooter(m, p, n, alloc) == [m EXCEPT ![HDRP(p)] = PACK(n, alloc)]

\* Memory m with the header and the footer of the block of size n at p.
PutTags(m, p, n, alloc) ==
    [m EXCEPT ![HDRP(p)] = PACK(n, alloc), ![p + n - DSIZE] = PACK(n, alloc)]

\* The same for a free block.  What its other words hold is forgotten: the
\* caller may not read them, and the allocator does not.
PutFree(m, p, n) ==
    PutTags([w \in Word |-> IF w \in p .. (p + n - DSIZE) THEN NULL ELSE m[w]],
            p, n, 0)

\* Only mm_linkedlist_nextfit.c has the variable.
SetLastFit(p) == last_fit_ptr' = IF fit = "next" THEN p ELSE last_fit_ptr

\* mem_sbrk succeeds (its argument is an int).
CanExtend(n) == n >= 0 /\ brk + n <= MaxHeap

\* Mutated form of Place: last_fit_ptr is set as if the block had been split.
Place_FitInside(m, bs, p, asize) ==
    LET csize == m[HDRP(p)].size
        rest  == csize - asize
        split == rest \notin 0 .. (2 * DSIZE - 1)
    IN  /\ mem' = IF split
                     THEN PutFree(PutTags(m, p, asize, 1), p + asize, rest)
                     ELSE PutTags(m, p, csize, 1)
        /\ blocks' = IF split THEN bs \cup {p + asize} ELSE bs
        /\ SetLastFit(p + asize)

(* place, in memory m with the blocks bs.  The subtraction is unsigned.    *)
Place(m, bs, p, asize) ==
    LET csize == m[HDRP(p)].size
        rest  == csize - asize
    IN  \/ /\ rest \notin 0 .. (2 * DSIZE - 1)
           /\ mem' = PutFree(PutTags(m, p, asize, 1), p + asize, rest)
           /\ blocks' = bs \cup {p + asize}
           /\ SetLastFit(p + asize)
        \/ /\ rest \in 0 .. (2 * DSIZE - 1)
           /\ mem' = PutTags(m, p, csize, 1)
           /\ blocks' = bs
           /\ SetLastFit(p + csize)

(* extend_heap up to its call of coalesce.                                 *)
ExtendHeap(n, then) ==
    /\ mem' = [PutFree(mem, brk, n) EXCEPT ![brk + n - WSIZE] = PACK(0, 1)]
    /\ brk' = brk + n
    /\ epilogue' = brk + n - WSIZE
    /\ blocks' = blocks \cup {brk}
    /\ ptr' = brk
    /\ pc' = "coalesce" /\ after' = then
    /\ UNCHANGED last_fit_ptr

\* What is left to ask for when the last block is free.
LessLastFree(n) ==
    LET last_free == HEADER_TO_PREV(epilogue)
    IN  IF GET_ALLOC(HDRP(last_free)) THEN n ELSE n - GET_SIZE(HDRP(last_free))

-----------------------------------------------------------------------------
(* mm_init has run.                                                        *)
Init ==
    /\ fit \in {"first", "next", "best"}
    /\ mem = [w \in Word |->
                CASE w \in {1, 2} -> PACK(DSIZE, 1)
                  [] w \in {3, 2 + CHUNKSIZE} -> PACK(CHUNKSIZE, 0)
                  [] w = 3 + CHUNKSIZE -> PACK(0, 1)
                  [] OTHER -> NULL]
    /\ brk = 4 + CHUNKSIZE
    /\ epilogue = 3 + CHUNKSIZE
    /\ last_fit_ptr = IF fit = "next" THEN 4 ELSE NULL
    /\ blocks = {4}
    /\ pc = "idle" /\ after = "idle"
    /\ call = [id |-> NULL, size |-> 0]
    /\ ptr = NULL /\ best_ptr = NULL /\ res = NULL
    /\ block = [i \in Id |-> NULL]
    /\ bsize = [i \in Id |-> 0]

(* mm_malloc begins: the search for a block.                               *)
StartSearch(i, n) ==
    /\ call' = [id |-> i, size |-> n]
    /\ pc' = "search"
    /\ ptr' = IF fit = "next" THEN last_fit_ptr ELSE heap_listp
    /\ best_ptr' = NULL
    /\ UNCHANGED <<fit, heap, after, res, client>>

Malloc(i, n) ==
    /\ pc = "idle"
    /\ block[i] = NULL
    /\ StartSearch(i, n)

\* Mutated form of Fits: a block of just the right size is passed over.
Fits_Strict(p) == ~GET_ALLOC(HDRP(p)) /\ Asize(call.size) < GET_SIZE(HDRP(p))

Fits(p) == ~GET_ALLOC(HDRP(p)) /\ Asize(call.size) <= GET_SIZE(HDRP(p))

\* Mutated form of AtEnd: the epilogue is not recognised.
AtEnd_Never == GET_SIZE(HDRP(ptr)) < 0

AtEnd == GET_SIZE(HDRP(ptr)) = 0

\* An iteration of first_fit's or next_fit's loop that goes on.
SearchNext ==
    /\ pc = "search" /\ fit # "best"
    /\ ~AtEnd /\ ~Fits(ptr)
    /\ ptr' = NEXT_BLKP(ptr)
    /\ UNCHANGED <<fit, heap, pc, after, call, best_ptr, res, client>>

\* An iteration of best_fit's loop.
SearchBest ==
    /\ pc = "search" /\ fit = "best"
    /\ ~AtEnd
    /\ ptr' = NEXT_BLKP(ptr)
    /\ LET better == /\ Fits(ptr)
                     /\ best_ptr # NULL =>
                           GET_SIZE(HDRP(ptr)) < GET_SIZE(HDRP(best_ptr))
       IN  best_ptr' = IF better THEN ptr ELSE best_ptr
    /\ UNCHANGED <<fit, heap, pc, after, call, res, client>>

SearchHit ==
    /\ pc = "search" /\ fit # "best"
    /\ ~AtEnd /\ Fits(ptr)
    /\ SetLastFit(ptr)
    /\ pc' = "place"
    /\ UNCHANGED <<fit, mem, brk, epilogue, blocks, after, call, ptr, best_ptr,
                   res, client>>

\* The loop has reached the epilogue.
SearchEnd ==
    /\ pc = "search"
    /\ AtEnd
    /\ \/ /\ fit = "first"
          /\ pc' = "extend" /\ UNCHANGED ptr
       \/ /\ fit = "next"
          /\ pc' = "wrap" /\ ptr' = heap_listp
       \/ /\ fit = "best" /\ best_ptr = NULL
          /\ pc' = "extend" /\ UNCHANGED ptr
       \/ /\ fit = "best" /\ best_ptr # NULL
          /\ pc' = "place" /\ ptr' = best_ptr
    /\ UNCHANGED <<fit, heap, after, call, best_ptr, res, client>>

(* next_fit's second loop, from the prologue to where the first one began. *)
WrapNext ==
    /\ pc = "wrap"
    /\ ptr < last_fit_ptr /\ ~Fits(ptr)
    /\ ptr' = NEXT_BLKP(ptr)
    /\ UNCHANGED <<fit, heap, pc, after, call, best_ptr, res, client>>

WrapHit ==
    /\ pc = "wrap"
    /\ ptr < last_fit_ptr /\ Fits(ptr)
    /\ SetLastFit(ptr)
    /\ pc' = "place"
    /\ UNCHANGED <<fit, mem, brk, epilogue, blocks, after, call, ptr, best_ptr,
                   res, client>>

WrapEnd ==
    /\ pc = "wrap"
    /\ ptr >= last_fit_ptr
    /\ pc' = "extend"
    /\ UNCHANGED <<fit, heap, after, call, ptr, best_ptr, res, client>>

(* No block fits: the heap is extended, or mm_malloc returns NULL.         *)
ExtendSize == LessLastFree(Larger(Asize(call.size), CHUNKSIZE))

MallocExtend ==
    /\ pc = "extend"
    /\ CanExtend(ExtendSize)
    /\ ExtendHeap(ExtendSize, "place")
    /\ UNCHANGED <<fit, call, best_ptr, res, client>>

MallocFails ==
    /\ pc = "extend"
    /\ ~CanExtend(ExtendSize)
    /\ pc' = "idle"
    /\ UNCHANGED <<fit, heap, after, call, ptr, best_ptr, res, client>>

(* A call of coalesce.                                                     *)
PrevAlloc == GET_ALLOC(FTRP(PREV_BLKP(ptr)))
NextAlloc == GET_ALLOC(HDRP(NEXT_BLKP(ptr)))

CoalesceDone ==
    /\ pc = "coalesce"
    /\ PrevAlloc /\ NextAlloc
    /\ SetLastFit(ptr)
    /\ pc' = after
    /\ UNCHANGED <<fit, mem, brk, epilogue, blocks, after, call, ptr, best_ptr,
                   res, client>>

CoalesceMerge ==
    /\ pc = "coalesce"
    /\ ~(PrevAlloc /\ NextAlloc)
    /\ LET first == IF PrevAlloc THEN ptr ELSE PREV_BLKP(ptr)
           size  == GET_SIZE(HDRP(ptr))
                      + (IF PrevAlloc THEN 0 ELSE GET_SIZE(HDRP(PREV_BLKP(ptr))))
                      + (IF NextAlloc THEN 0 ELSE GET_SIZE(HDRP(NEXT_BLKP(ptr))))
       IN  /\ mem' = PutFree(mem, first, size)
           /\ ptr' = first
           /\ SetLastFit(first)
           /\ blocks' = (blocks \ {ptr, IF NextAlloc THEN ptr ELSE NEXT_BLKP(ptr)})
                          \cup {first}
    /\ UNCHANGED <<fit, brk, epilogue, pc, after, call, best_ptr, res, client>>

(* mm_malloc has a block.  mm_realloc, when it called mm_malloc, copies.   *)
MallocPlace ==
    /\ pc = "place"
    /\ Place(mem, blocks, ptr, Asize(call.size))
    /\ res' = ptr
    /\ pc' = IF block[call.id] = NULL THEN "return" ELSE "copy"
    /\ UNCHANGED <<fit, brk, epilogue, after, call, ptr, best_ptr, client>>

\* Mutated form of FreeTags: the block is not marked free.
FreeTags_None(m, p) == mem' = m /\ ptr' = p /\ pc' = "coalesce"

(* mm_free up to its call of coalesce, in memory m.                        *)
FreeTags(m, p) ==
    /\ mem' = PutFree(m, p, GET_SIZE(HDRP(p)))
    /\ ptr' = p
    /\ pc' = "coalesce"

\* mm_free, or mm_realloc with a size of 0.
Free(i) ==
    /\ pc = "idle"
    /\ block[i] # NULL
    /\ FreeTags(mem, block[i])
    /\ after' = "idle"
    /\ block' = [block EXCEPT ![i] = NULL]
    /\ bsize' = [bsize EXCEPT ![i] = 0]
    /\ UNCHANGED <<fit, brk, epilogue, last_fit_ptr, blocks, call, best_ptr, res>>

-----------------------------------------------------------------------------
(* mm_realloc with a block p and a size n that is not 0.                   *)
ReallocStart(i, n) ==
    /\ pc = "idle"
    /\ block[i] # NULL
    /\ call' = [id |-> i, size |-> n]

\* Mutated form of Merges: the next block need not be free.
Merges_AnyNext(p, n) ==
    GET_SIZE(HDRP(p)) + GET_SIZE(HDRP(NEXT_BLKP(p))) >= Asize(n)

\* The block, with the next one if that is free, is large enough.
Shrinks(p, n) == Asize(n) <= GET_SIZE(HDRP(p))
Merges(p, n) ==
    /\ ~GET_ALLOC(HDRP(NEXT_BLKP(p)))
    /\ GET_SIZE(HDRP(p)) + GET_SIZE(HDRP(NEXT_BLKP(p))) >= Asize(n)

\* The block is the last one, and the heap can be extended.
NeedSize(p, n) == Larger(LessLastFree(Asize(n) - GET_SIZE(HDRP(p))), CHUNKSIZE)
Extends(p, n) ==
    /\ GET_SIZE(HDRP(NEXT_BLKP(p))) = 0
    /\ CanExtend(NeedSize(p, n))

ReallocShrink(i, n) ==
    /\ ReallocStart(i, n)
    /\ Shrinks(block[i], n)
    /\ Place(mem, blocks, block[i], Asize(n))
    /\ res' = block[i]
    /\ pc' = "return"
    /\ UNCHANGED <<fit, brk, epilogue, after, ptr, best_ptr, client>>

\* The block takes in the one after it, then gives back what is too much.
TakeNext(p, n) ==
    LET next_ptr == NEXT_BLKP(p)
        combined_size == GET_SIZE(HDRP(p)) + GET_SIZE(HDRP(next_ptr))
    IN  Place(PutTags(mem, p, combined_size, 1), blocks \ {next_ptr}, p, Asize(n))

ReallocMerge(i, n) ==
    /\ ReallocStart(i, n)
    /\ ~Shrinks(block[i], n) /\ Merges(block[i], n)
    /\ TakeNext(block[i], n)
    /\ res' = block[i]
    /\ pc' = "return"
    /\ UNCHANGED <<fit, brk, epilogue, after, ptr, best_ptr, client>>

ReallocExtend(i, n) ==
    /\ ReallocStart(i, n)
    /\ ~Shrinks(block[i], n) /\ ~Merges(block[i], n) /\ Extends(block[i], n)
    /\ ExtendHeap(NeedSize(block[i], n), "grow")
    /\ UNCHANGED <<fit, best_ptr, res, client>>

ReallocGrow ==
    /\ pc = "grow"
    /\ TakeNext(block[call.id], call.size)
    /\ res' = block[call.id]
    /\ pc' = "return"
    /\ UNCHANGED <<fit, brk, epilogue, after, call, ptr, best_ptr, client>>

\* A new block is allocated ...
ReallocMove(i, n) ==
    /\ pc = "idle"
    /\ block[i] # NULL
    /\ ~Shrinks(block[i], n) /\ ~Merges(block[i], n) /\ ~Extends(block[i], n)
    /\ StartSearch(i, n)

\* ... the old block's csize bytes, tags included, are copied to it (or as
\* many as are asked for, if that is less), and the old block is freed.
ReallocCopy ==
    /\ pc = "copy"
    /\ LET p     == block[call.id]
           csize == GET_SIZE(HDRP(p))
           n     == IF call.size < csize THEN call.size ELSE csize
           memcpy == [w \in Word |->
                        IF w \in res .. (res + n - 1) THEN mem[p + (w - res)] ELSE mem[w]]
       IN  FreeTags(memcpy, p)
    /\ after' = "return"
    /\ UNCHANGED <<fit, brk, epilogue, last_fit_ptr, blocks, call, best_ptr, res, client>>

-----------------------------------------------------------------------------
(* The caller has its block, and fills it.                                 *)
Return ==
    /\ pc = "return"
    /\ block' = [block EXCEPT ![call.id] = res]
    /\ bsize' = [bsize EXCEPT ![call.id] = call.size]
    /\ pc' = "fill"
    /\ UNCHANGED <<fit, heap, after, call, ptr, best_ptr, res>>

Fill ==
    /\ pc = "fill"
    /\ mem' = [w \in Word |->
                 IF w \in res .. (res + call.size - 1) THEN call.id ELSE mem[w]]
    /\ pc' = "idle"
    /\ UNCHANGED <<fit, brk, epilogue, last_fit_ptr, blocks, after, call, ptr,
                   best_ptr, res, client>>

Realloc(i, n) ==
    \/ ReallocShrink(i, n) \/ ReallocMerge(i, n)
    \/ ReallocExtend(i, n) \/ ReallocMove(i, n)

\* A step of a call.
CallStep ==
    \/ SearchNext \/ SearchBest \/ SearchHit \/ SearchEnd
    \/ WrapNext \/ WrapHit \/ WrapEnd
    \/ MallocExtend \/ MallocFails \/ CoalesceDone \/ CoalesceMerge
    \/ MallocPlace \/ ReallocGrow \/ ReallocCopy \/ Return \/ Fill

Next ==
    \/ \E i \in Id : Free(i) \/ \E n \in Size : Malloc(i, n) \/ Realloc(i, n)
    \/ CallStep

Spec == Init /\ [][Next]_vars

(* A call that was made runs; the caller need not make another.            *)
FairSpec == Spec /\ WF_vars(CallStep)

-----------------------------------------------------------------------------
Tag == [size : 0 .. MaxHeap, alloc : {0, 1}]

Even(p) == p % 2 = 0
\* Block b is made of the words from its header to its footer.
Tagged(b) ==
    /\ mem[HDRP(b)] \in Tag /\ mem[FTRP(b)] = mem[HDRP(b)]
    /\ GET_SIZE(HDRP(b)) >= DSIZE /\ Even(GET_SIZE(HDRP(b)))

(* The blocks tile the heap from the prologue to the epilogue: each has a  *)
(* header and an equal footer and is followed by another block or by the   *)
(* epilogue, and none begins inside another.  So NEXT_BLKP and PREV_BLKP,  *)
(* computed from tags in memory that callers write to, always land on a    *)
(* block, whatever was split, merged or extended.                          *)
HeapTiled ==
    /\ mem[1] = PACK(DSIZE, 1) /\ mem[2] = PACK(DSIZE, 1)
    /\ epilogue = HDRP(brk) /\ mem[epilogue] = PACK(0, 1)
    /\ \A b \in blocks :
          /\ Tagged(b)
          /\ b >= 4 /\ b < brk
          /\ NEXT_BLKP(b) \in blocks \cup {brk}
          /\ \A c \in blocks : c > b => c >= NEXT_BLKP(b)
    /\ \E b \in blocks : b = 4

(* The pointers the allocator keeps between its steps are blocks: the      *)
(* cursor of a search, next_fit's last_fit_ptr, which outlives the block   *)
(* it pointed to being merged, and the result.                             *)
PointersAreBlocks ==
    /\ fit = "next" => last_fit_ptr \in blocks \cup {brk}
    /\ pc \in {"search", "wrap"} => ptr \in blocks \cup {heap_listp, brk}
    /\ pc \in {"coalesce", "place"} => ptr \in blocks /\ ~GET_ALLOC(HDRP(ptr))
    /\ pc \in {"copy", "return", "fill"} =>
          res \in blocks /\ GET_SIZE(HDRP(res)) >= DSIZE + call.size

\* The call at hand has decided on its result: from there on the block it
\* is for is at res, though the caller will only learn it at the end.
Granted == pc = "return" \/ (pc = "coalesce" /\ after = "return")
At(i)    == IF Granted /\ i = call.id THEN res ELSE block[i]
Asked(i) == IF Granted /\ i = call.id THEN call.size ELSE bsize[i]

\* The blocks in use: the caller's, and the one mm_realloc is copying to.
InUse == ({At(i) : i \in Id} \ {NULL}) \cup (IF pc = "copy" THEN {res} ELSE {})

(* A block is marked allocated exactly when it is in use: nothing in use   *)
(* is free, and nothing leaks, also when mm_realloc moves a block.         *)
AllocatedIffInUse == {b \in blocks : GET_ALLOC(HDRP(b))} = InUse

(* mm_malloc returns the block its policy stands for: the first that fits, *)
(* the first from last_fit_ptr on and around, the smallest; and it extends *)
(* the heap only when there is none.                                       *)
FitRight ==
    LET needed  == DSIZE + ALIGN(call.size)
        fitting == {b \in blocks : /\ mem[b - 1].alloc = 0
                                   /\ mem[b - 1].size >= needed}
        from(b) == IF fit = "next" /\ b < last_fit_ptr THEN b + MaxHeap ELSE b
        first(b) == \A c \in fitting : from(b) <= from(c)
        best(b) == \A c \in fitting :
                     \/ GET_SIZE(HDRP(b)) < GET_SIZE(HDRP(c))
                     \/ GET_SIZE(HDRP(b)) = GET_SIZE(HDRP(c)) /\ b <= c
    IN  pc \in {"search", "wrap"} =>
            /\ pc' = "extend" => fitting = {}
            /\ pc' = "place" => /\ ptr' \in fitting
                                /\ IF fit = "best" THEN best(ptr') ELSE first(ptr')

FitIsRight == [][FitRight]_vars

(* The allocator keeps malloc's contract: Allocator is implemented.  Its    *)
(* malloc or realloc is the step at which a call decides on its result, and *)
(* nothing but the caller's memset changes what is in a block after that.   *)
Contract == INSTANCE Allocator WITH
    Word  <- 0 .. MaxHeap,
    Mark  <- [i \in Id |-> i],
    block <- [i \in Id |-> At(i)],
    bsize <- [i \in Id |-> Asked(i)],
    data  <- [i \in Id |-> [k \in 0 .. (Asked(i) - 1) |-> mem[At(i) + k]]]

KeepsContract == Contract!Spec

(* Every call returns: no search runs past the epilogue or round and       *)
(* round, and coalesce's recursion ends.                                   *)
CallsReturn == pc # "idle" ~> pc = "idle"

=============================================================================
