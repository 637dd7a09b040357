----------------------------- MODULE MCFreeHeap -----------------------------
(* A small instance of FreeHeap for TLC.                                   *)
EXTENDS FreeHeap

MCClassBounds == <<4, 16, 24>>
MCRounded == [n \in {3} |-> 4]

\* From the empty heap, small heaps: the lists in the heap take four words.
Fresh(file, max, sizes) ==
    [file |-> file, max |-> max, first |-> <<>>, ids |-> 1 .. 3, sizes |-> sizes,
     realloc |-> TRUE]

\* Blocks of several sizes between blocks that stay: trees of several nodes.
Grown(file) ==
    [file |-> file, max |-> 74, first |-> <<5, 3, 7, 3, 5, 3, 9, 3, 7, 3>>,
     ids |-> {1, 3, 5, 7, 9}, sizes |-> {7}, realloc |-> FALSE]

MCTrace ==
    {Fresh("bestfit", 28, {2, 8}), Fresh("inheap", 30, {3, 8}),
     Fresh("descend", 32, {2, 8}), Fresh("no_footer", 24, {2, 8}),
     Fresh("bst", 26, {3, 6}), Fresh("rbtree", 26, {2, 8}),
     Grown("bst"), Grown("rbtree")}

\* A free block behind the block that is reallocated is not enough.
MCReallocTrace ==
    {[file |-> "bestfit", max |-> 36, first |-> <<2, 4, 2>>, ids |-> 1 .. 3,
      sizes |-> {2, 10}, realloc |-> TRUE]}

=============================================================================
