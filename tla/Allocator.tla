------------------------------ MODULE Allocator -----------------------------
(***************************************************************************)
(* What malloc, free and realloc promise their caller: the contract that   *)
(* eval_mm_valid of malloc-lab-main/mdriver.c checks of every allocator    *)
(* (mm_*.c) on a trace.  Addresses and sizes are in words of WSIZE bytes.  *)
(***************************************************************************)
EXTENDS Integers

CONSTANTS
    Id,         \* the caller's names for its blocks, as in a trace
    Word,       \* the addresses
    Size,       \* bound: the sizes that are asked for
    Mark,       \* what the caller fills each of its blocks with
    NULL

VARIABLES
    brk,        \* the end of the heap
    block,      \* the address of each block, or NULL
    bsize,      \* the size each block was asked with
    data        \* the contents of each block

vars == <<brk, block, bsize, data>>

Payload(i) == IF block[i] = NULL THEN {} ELSE block[i] .. (block[i] + bsize[i] - 1)

\* An address for a block of n words: aligned to two words (ALIGNMENT bytes)
\* and inside a heap that ends at end.
Fits(p, n, end) == p % 2 = 0 /\ p >= 0 /\ p + n <= end

\* The caller may have blocks already.
Init ==
    /\ brk \in Word
    /\ \A i \in Id :
          block[i] # NULL => /\ Fits(block[i], bsize[i], brk)
                             /\ \A j \in Id \ {i} : Payload(i) \cap Payload(j) = {}

\* The other blocks are left alone, with their contents.
Others(i) ==
    \A j \in Id \ {i} :
        block'[j] = block[j] /\ bsize'[j] = bsize[j] /\ data'[j] = data[j]

\* Block i is now at p, n words long, in a heap that may have grown, and
\* apart from every other block.
Granted(i, p, n) ==
    /\ block'[i] = p /\ bsize'[i] = n
    /\ Fits(p, n, brk')
    /\ brk' \in Word /\ brk' >= brk
    /\ \A j \in Id \ {i} : Payload(j) \cap (p .. (p + n - 1)) = {}
    /\ Others(i)

Malloc(i) ==
    /\ block[i] = NULL
    /\ \E p \in Word, n \in Size : Granted(i, p, n)

\* What both the old and the new block have room for is kept.
Realloc(i) ==
    /\ block[i] # NULL
    /\ \E p \in Word, n \in Size : Granted(i, p, n)
    /\ \A k \in 0 .. (bsize[i] - 1) :
          k < bsize'[i] => data'[i][k] = data[i][k]

Free(i) ==
    /\ block[i] # NULL
    /\ block'[i] = NULL /\ bsize'[i] = 0
    /\ Others(i)
    /\ UNCHANGED brk

\* The caller fills its block.  Nothing else changes what is in a block, so
\* that what a call leaves behind is what the caller wrote.
Write(i) ==
    /\ block[i] # NULL
    /\ data'[i] = [k \in 0 .. (bsize[i] - 1) |-> Mark[i]]
    /\ Others(i)
    /\ UNCHANGED <<brk, block, bsize>>

\* The heap grows, and never shrinks.
Extend == brk' \in Word /\ brk' >= brk /\ UNCHANGED <<block, bsize, data>>

Next ==
    \/ \E i \in Id : Malloc(i) \/ Realloc(i) \/ Free(i) \/ Write(i)
    \/ Extend

Spec == Init /\ [][Next]_vars

=============================================================================
