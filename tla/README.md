# TLA+ models and proofs of KraftonJungle_5to8

The repository collects four weeks of C course work: a caching web proxy on
csapp's robust I/O and a small web server (`src/webproxy-lab-main`), a family of
`malloc` implementations with their test driver (`src/malloc-lab-main`), two
red-black trees (`src/rbtree-lab-main`) and a set of data structure exercises
(`src/Data-Structures-master`).  This directory models its core logic in TLA+,
checks it with TLC on small instances and proves part of it with TLAPS for all
instances.

## 1. Inventory

| Part | State | Operations | What is hard | What makes it correct |
|---|---|---|---|---|
| Response cache (`cache.c`) | a doubly linked list between two sentinels, the counter `cache_left`, one semaphore | `read_cache`, `push_cache`, `pop_cache`, `write_cache`, called by `doit` of every thread between `P` and `V` | a hit takes its node off the list and sends it outside the semaphore, while others evict, store and hit; the eviction loop frees an address; every pointer is shared | exclusion; a linked list of live nodes; a node being sent is nobody else's; exact accounting; oldest first; no call hangs |
| Accept loop and threads (`proxy.c: main, thread`) | a heap cell per connection, the process's descriptor table | `accept`, `Pthread_create`, read and free the cell, `doit`, `close` | the hand-over of a descriptor through memory; descriptor numbers are reused at once; descriptors to servers are never closed; a wrapper's error exits the process | one owner for each cell and descriptor; an accepted connection is served whatever others do |
| Relaying (`handle_client_headers`, `handle_response`) | a line buffer, the copy for the cache, its length, `content_len` | read a line, drop or forward it, copy it, read and send the body | both loops go round on a buffer that a read at the end of input leaves alone; the buffer is uninitialised at first; peers may close early | what is cached is what was sent; a complete response arrives as it is; the loops end |
| Request parsing (`doit`, `parse_uri`, `get_numeric_addr`) | none | split a request line | default ports, missing parts | agrees with a reference on bounded inputs |
| Robust I/O (`csapp.c: rio_*`) | a buffer, a pointer into it, a count | `rio_read`, `rio_readnb`, `rio_readlineb`, `rio_readn`, `rio_writen` | short reads, interrupted calls, lines across refills | the bytes of the descriptor, each once and in order |
| Tiny server (`tiny/tiny.c`) | none across requests | serve a file, run a CGI program | the header loop at the end of input, child processes, clients that leave, system calls that fail, one connection at a time | each request is answered once and completely; the server gets to the next connection |
| Implicit list allocators (`mm_linkedlist_*.c`) | the heap with a tag at each end of a block; `last_fit_ptr` | `mm_init`, `mm_malloc`, `mm_free`, `mm_realloc` | structure stored in the memory that callers write to; split, merge and extension in any order; a rover that outlives its block | the tags tile the heap; the contract that `mdriver.c` checks; the policy chosen; every search ends |
| Segregated list allocators (`mm_seg_*.c`), tree allocators (`mm_tree_*.c`) | the same, with links (and colors) in free blocks | the same | links that a merge overwrites, blocks lost from every list | the same contract, and every free block is on exactly one list or in the tree |
| Heap of the lab (`memlib.c`) | `mem_brk` | `mem_sbrk` | failure at the limit | the heap only grows |
| Malloc driver (`mdriver.c`) | the blocks of a trace | `eval_mm_valid`, `add_range` | which overlaps it can miss | (it is the specification of the others) |
| Red-black tree (`rbtree.c`) | nodes and one shared sentinel | `rbtree_insert`, `_erase`, `_find`, `_min`, `_max`, `_to_array`, `delete_rbtree` | the sentinel's parent during a removal; the cases of the fix-ups depend on long histories; equal keys move | search order, red-black properties, fix-up loop invariants, all freed once, loops end |
| Second tree (`rbtree2.c`) | the same | the same | an erasure swaps keys along a path and frees a leaf: the node the caller named may hold another key then | the same, and the key that goes is the one that was named |
| Exercises (27 programs) | lists, stacks, queues, trees that a menu builds and changes | list and tree algorithms | relinking in place, iterative traversals, what is freed when; none runs concurrently | memory is exact between choices; the answers agree with a reference |

The proxy's parts share one process: `main` (Acceptor) starts a thread per
connection; a thread runs `doit`, which uses the cache (ProxyCache) and, on a
miss, relays (Relay).  The models meet at these seams: `Acceptor` reduces `doit`
to the descriptor it opens, `ProxyCache` reduces the relay to its result (a
length or nothing), and `Relay` reduces the peers to what they send.  The
implicit list allocators, the driver and `memlib.c` meet in `ImplicitHeap`, the other
six allocators, the driver and `memlib.c` in `FreeHeap`; both are shown to implement `Allocator`.
`Network` composes the Rio package with its users: arbitrary calls, Tiny, and the
proxy's parsing of a target.  `RBTrees` and `Exercises` put programs that use
the same data structure side by side.

`PROJECT.json` lists every component with its status and every hazard with the
properties that would catch it.

## 2. Modules

| Module | Models | Level |
|---|---|---|
| `ProxyCache` | `cache.c` and the cache part of `doit` | every pointer assignment; one iteration of a loop is one step |
| `ResponseCache` | what `doit` is promised of the cache (abstract) | a look-up, a push, an eviction, a store is one step |
| `ProxyCache_proofs` | | theorems of `ProxyCache`, with the refinement of `ResponseCache` |
| `Acceptor` | `main`, `thread`, the descriptors of `doit` | one call is one step |
| `Acceptor_proofs` | | theorems of `Acceptor` |
| `Relay` | `handle_client_headers`, `handle_response`, `rio_readlineb` as used there | one line is one step |
| `Relay_proofs` | | theorems of `Relay` |
| `Rio` | `rio_readn`, `rio_writen`, `rio_read`, `rio_readnb`, `rio_readlineb` | one system call, or the copying of a byte or of a run of bytes, is one step |
| `Tiny` | `tiny.c`, with a client and the CGI process | one call is one step |
| `Uri` | `parse_uri` of the proxy | operators |
| `Network` | users of `Rio` | composition |
| `Network_proofs` | | theorems of `Network` |
| `Allocator` | the contract checked by `eval_mm_valid` | abstract specification |
| `ImplicitHeap` | first, next and best fit on `memlib.c`, called as by the driver | the heap word by word; one iteration of a search, one call of `coalesce` is one step |
| `ImplicitHeap_proofs` | | theorems of `ImplicitHeap`, and that it implements `Allocator` |
| `HeapWords` | the macros for words and tags, `mem_sbrk` | operators on a heap |
| `SegHeap` | `mm_seg_bestfit.c`, `mm_seg_inheap.c`, `mm_seg_descend.c`, `mm_seg_no_footer.c` | operators on a heap, word by word |
| `TreeHeap` | `mm_tree_bst.c`, `mm_tree_rbtree.c` | the same |
| `FreeHeap` | these six under the driver | one call of the allocator is one step |
| `RBTree` | `rbtree.c` | pointers; one iteration of a loop is one step |
| `RBTree2` | `rbtree2.c` | the same |
| `RBTrees` | a program linked with either | composition |
| `RBTree_proofs` | | lemmas about trees, and the theorems of `RBTrees` for `rbtree.c` |
| `RedBlack_proofs` | | the red-black property, for `rbtree.c` |
| `RBTree2_proofs` | | the theorems of `RBTrees`, for either file |
| `Menus` | what the exercises' `main` functions share | one choice is one step |
| `LinkedLists`, `StacksQueues`, `BinaryTrees`, `SearchTrees` | the exercises | pointers; one choice of the menu is one step |
| `Exercises` | all of them, and the references for their answers | composition |
| `MC*` | | instances for TLC |

Operators whose name continues the name of another after an underscore
(`Evict_NoCredit`) are mutated forms of it that no specification uses; each
property of a passing run is violated when one of them takes the place of the
original.

### ProxyCache

`pc[t]` is the point thread `t` has reached in `doit`: `ReadRequest`, then
`ReadLock` .. `ReadUnlock` (P, the loop of `read_cache`, V), then for a hit
`SendCached`, `PushLock`, `Push`, `PushUnlock`, and for a miss `Relay`,
`WriteLock`, `WriteEnter`, the eviction loop, `Store`, `WriteUnlock`.  The nodes'
fields are functions from addresses: `next`, `prev`, `nkey`, `reslen`,
`response`; `live` is the set of addresses malloc has handed out.

* A node's four key fields (`ip`, `port`, `parsed_method`, `path`) are one `Key`, of which only equality
  matters.  A response is its length, and a buffer that is `held` or `freed`.
* `malloc` returns any free address, the freed tail's included (a block of the
  same size is what malloc reuses; its reuse by buffers of other sizes is not
  modelled), and NULL when there is none, after which the unchecked store ends
  the process.
* Line 70 frees `lru->next`.  `pop_cache` has relinked `lru->prev` to it, so this
  is the tail sentinel whenever the evicted node was not the only one.  What
  then happens is undefined behaviour; the model takes both outcomes a build can
  show: the step sees what the memory still holds (the ordinary action), or
  faults (`Fault`); freeing it again aborts (`EvictAbort`).
* `ResponseCache` is a set of responses (`cached`), of which each has the set of those
  that were used after it (`newer`); no pointers, no semaphore.  `KeepsPromise` maps
  to it the nodes that following `next` visits (`Listed`) and for each node those that
  following `prev` visits (`Ahead`).  P, V and the iterations of the search are
  stutters; `SearchHit` and `SearchMiss` are the look-up, `Push` gives back, and an
  iteration of the eviction loop drops one response.  The promise covers every
  interleaving until the address of the freed tail comes back from malloc as a
  node: what is on the list then is lost, and anything may follow (`Break`).
* An error of a peer exits the process, because every wrapper of `csapp.c` calls
  `exit` (`PeerFails`).
* `CacheLeftExact` has two parts.  What `cache_left` promises and the bytes of all responses
  that are cached or being sent are never more than the capacity together, through any
  reuse of addresses; they are exactly the capacity until the freed tail's address is
  stored to.  That store empties the list, and the bytes of the nodes that were on it are never
  credited again: the cache has less room than it could have, never more.

### Acceptor

`mpc` is where `main` is in its loop, `pc[t]` where a thread is.  `file` is the
descriptor table: each number refers to a connection, to a server, or is free;
`accept` and `socket` return the lowest free number (that is the kernel's rule,
and what makes reuse immediate).  `DoitServer` opens a descriptor that is never
closed, as `proxyfd` in `doit` is not.  A thread identity is used once.
`ConnectionsServed` says nothing of an `accept` that fails; that it need not fail
for want of descriptors is `DescriptorsComeBack`, which the code does not keep (see "Promises without a run").

### Relay

An input is a sequence of lines and bytes that ends where the peer closes.
`request` and `response` are the whole inputs of a run and never change;
`fromClient` and `fromServer` are what is left of them.  `ItemsInOrder` compares what the client got with
`response`: what was sent and what is left are the response together, item by item, as long as
there is something left, and afterwards the response comes first.  `ResponseRelayed` adds that at
the end a complete response is all that was sent.
`buf` is the line buffer; a read at the end of the input leaves it alone, and
the loop processes the old line again.  `handle_response`'s `buf` is
uninitialised: it holds a blank line (left on the stack by the loop that ran
before) or something else.  A body longer than what there is to read ends in
uninitialised bytes (`Junk`).  A negative or too long array on the stack ends
the process (`BodyFault`), and so does a header without a space (`HeaderFault`).

### ImplicitHeap and Allocator

`mem` maps a word to a tag `[size, alloc]`, to the identity of the block whose
caller wrote it, or to NULL (nothing known).  Reading a word as a tag when it is
none is an evaluation error that stops TLC.  Everything is in words: `ALIGN`
rounds to two, a block has one header and one footer word.  `fit` is chosen once
in the initial state and stands for which of the three files is linked; they
share `extend_heap`, `coalesce`, `mm_realloc` and the placement, up to what
`fit` selects.  `Place` keeps the unsigned subtraction: a block that is too small
would give a huge remainder, not a negative one.  `CanExtend` keeps that
`mem_sbrk` takes an `int` and refuses a negative one.  `blocks` is an auxiliary
variable (the block addresses), which no guard reads.  A freed block's payload is
forgotten: the driver does not read it, nor do these allocators.

The caller is `eval_mm_valid`: it allocates, frees and reallocates blocks by
identity, fills a block after `malloc` and after `realloc`, and expects the
prefix to survive `realloc`.  `Allocator` says just that: aligned, inside the
heap, disjoint, other blocks untouched, prefix kept.  Its `Write` puts the mark of
the owner (`Mark`) in every word of a block, and is the only way contents change
besides a grant: were any new contents allowed, a `realloc` that loses the prefix
would pass as one that was followed by a write.

`Contract` maps `ImplicitHeap` to it.  A call of the contract takes place when the
code has decided on its result (`Granted`); from there to the return the block is
the caller's though it is still only in `res`, so `At` and `Asked` give the block
and size the contract speaks of.  `data` is what lies in the heap at that address.

### SegHeap, TreeHeap and FreeHeap

A heap `h` is a record: the words (`mem`), the break, and the static variables of
the file it belongs to.  A word is a number, as in C: a tag packs a size and
bits, a link is an address or an offset, so that a tag that is read as a link
or the other way round is not noticed by the code and only shows in the
properties.  The caller's data are negative numbers.  As an allocator's call is
not interrupted by anything, it is one operator on `h`; the loops inside are
recursive functions.  `FreeHeap` is the driver: it allocates, frees and
reallocates under a trace, which names the file and the size of the heap and may
begin with a fixed list of blocks.

* In the four `mm_seg` files a link is a `char *` and the two links of a block lie 4 bytes apart.
  The model takes a link for one word, which is right in a build with pointers of 4
  bytes (`-m32`).  The Makefile does not ask for one; where a pointer has 8 bytes the second
  link overwrites half of the first, which is not modelled.  The tree files store offsets of
  4 bytes and do not depend on it.
* `ClassBounds`, `Reserved`, `Trigger` and `BackAsize` are the code's numbers scaled down to
  a heap of a few dozen words.
* `LeaveTaken` says whether the trace may call `mm_realloc` in the situation of
  the finding `seg_realloc` below.  The other run shows what holds as long as it
  is not met.
* In `mm_seg_no_footer.c` a `mm_realloc` that cuts off the end of a block does not set the
  bit for the block before in the header that follows (lines 319-342).  The bit then says "allocated" of a free block,
  never the reverse, so that a merge is missed and nothing worse; `HeapTiled`
  states exactly this and `Coalesced` leaves this file out.

### RBTree, RBTree2 and RBTrees

`t` is the tree (root, and a function for each field, the sentinel included);
rotations and `transplant` are operators that take a tree and return one.  What
the code writes once for the left and once for the right is an operator with a
side.  `calloc` may return any address; a node is named after the key it is used
for, which loses nothing because addresses are never compared but for equality.
A freed node's fields are blanked, so that following a dangling pointer shows.

`RBTree2` uses the same tree.  There `rbtree_erase` swaps the key with the
successor's or the child's until it is at a leaf, and frees that leaf: the
pointer a caller keeps to another node may name another key afterwards, or be
dangling (`ErasesNamedNode`, see "Promises without a run").  `EraseTakesItsKey` is about the keys therefore.  `rbtree_to_array` of
`rbtree2.c` does not look at `n` at all, and the one of `rbtree.c` (lines 356-359)
looks at it after a store; both are right when the array has room for the tree, and
`InOrder` is checked for these.  `rbtree_min` and `rbtree_max` of an empty tree
return the sentinel.

### Rio, Tiny, Uri and Network

A connection is `unsent` (what the peer's `rio_writen` has left), `kernel` and
`rio_buf`; each transfer moves any number of bytes that fits.  A call is a record with what it has got so far;
`received` is all that calls have returned.  `Network`'s variable `user` says who
reads: a process that calls `rio_readlineb` and `rio_readnb` in any order, one
that calls `rio_readn`, Tiny, or the proxy's `doit` with a target.  `rio_readn`
reads past what the other two have buffered, which is why it has a user of its own.

A read fails (`ReadError`) when the peer has gone, with everything that a reset may take away:
the call returns -1, leaves what it has got in the caller's buffer, and the wrapper exits.

Tiny's requests are chosen by what `stat` will say of the file: its first word is
the whole request line.  `buf` holds what was on the stack until a line is read.
Every system call that may fail is allowed to: `accept`, a read or a write on a connection
whose client has gone (the latter by SIGPIPE too), `open` (the code looks at the
owner's permission only, and the file may have gone since), `mmap`, `fork`.  `pc` is then
the message the wrapper prints before it exits.  An empty file is one that `mmap` always refuses.
Three more behaviours are modelled as they are:

* `read_requesthdrs` goes round for ever when the client closes before the blank
  line, and the server serves nobody else meanwhile;
* in `parse_uri`, a target without a slash behind host and port makes `index`
  return NULL, and the store through it ends the proxy (`Killed`);
* `parse_uri` takes the first colon of the target, in the path too, for the one before the port.

`CallsEnd` is about clients that stay: Tiny gets to its next connection after each,
unless the system refuses it the file, the mapping or the process.  `UriRight` is about targets with a path
whose first colon, if there is one, stands before a port.  What these two leave out is
stated by `HeadersEnd`, `OutlivesClients`, `EmptyFileServed`, `DefaultPath` and `ColonInPath`, which the
code does not keep (see "Promises without a run").

A target that does not begin with `http://` makes `parse_uri` return 1 (`sscanf`
finds nothing), or, if it is shorter than that, go on with an
uninitialised array; neither is modelled.

### The exercises

Each program is a menu: `console` is the last choice, what was typed in for it
and what was printed.  Lists and trees are records of functions from nodes, and a
node that is allocated is `live`.  `createTree` takes one node per step; every
other choice is one step, its loops being recursive operators.  What a program prints is
compared with a definition that reads the list or the tree as a sequence or a set.
The reference says what the program's menu promises.  Four choices do something
else (`Misleading`).  Of these `AnswersRight` asks only for the part of the promise that holds
(`PartlyRight`), and the promise itself has a definition of its own, which TLC refutes
(see "Promises without a run"):

* `identical` (`Q1_E_BT.c`) looks at the roots' values only (`IdenticalTrees`; the same trees are at least
  never told apart), and leaves the `StackNode`s of
  their children behind, four for a root with two children.  They are counted (`tree.stacked`), and
  `NothingLost` names the program as one of the three that leak.
* `sumOfOddNodes` (`Q4_E_BT.c`) counts the odd values above 0 (`SumOfOdd`; nothing is left to be claimed of the number).
* `hasGreatGrandchild` (`Q8_E_BT.c`) prints the nodes that have a grandchild (`GreatGrandchildren`; none
  with a great-grandchild is missed).
* `removeEvenValues` (`Q2_C_SQ.c`) also drops odd values below 0 and turns the
  stack upside down (`EvenRemoved`; no even value stays, no positive odd one goes).  It leaks the nodes of two local lists; so does
  `balanced` (`Q7_C_SQ.c`) with its stack.

Programs that crash or do not end say nothing that could be compared:

* The functions with a stack of their own read the root's fields first, so that an
  empty tree ends `Q1_E_BT`, `Q3_E_BT` to `Q7_E_BT` and `Q3_F_BST`
  (`Ends("crashed")`).  In `Q2_E_BT.c` the height is stored where the choice was, and a height of 0
  ends the program.
* `removeUntil` (`Q6_C_SQ.c`) does not end when the value is not in the stack, so it is
  called for values that are.

## 3. Runs

| Run | Instance | Question |
|---|---|---|
| `cache` | 4 threads, 2 keys (one thread asks for another key than the rest), 3 addresses, capacity 3, responses of 0 and 1 | type, `MutualExclusion`, `CheckedOutIntact`, `ListIntact`, `NoResponseLost`, `CacheLeftExact`, `KeepsPromise`, `CacheCallsReturn` |
| `cache_capacity` | 3 threads, any requests | `CapacityRespected` is violated |
| `cache_free` | 3 threads, 3 keys, any requests | `FreesEvictedNode` is violated |
| `acceptor` | 3 connections, 2 cells, 3 descriptors | type, `CellsExclusive`, `ConnectionsExclusive`, `ConnectionsServed` |
| `relay` | clients of up to two lines and a blank one, servers of up to two headers, with or without a blank line and up to two bytes | `CopyIsWhatWasSent`, `RequestWellFormed`, `ResponseRelayed`, `RelayReturns` |
| `relay_short_body` | the same | `OnlyServerBytes` is violated |
| `network` | messages of up to 4 bytes of two kinds, a buffer and a connection of 2, calls for 1 to 3 bytes, one signal; 2 clients of Tiny with any of six requests and up to one header; targets of up to 5 characters of three kinds | `CallsRight`, `CallsEnd`, `AnswersComplete`, `UriRight` |
| `heap` | three policies, 3 blocks of sizes 1 and 7 words, a heap of 22 words that starts with 12 | `HeapTiled`, `PointersAreBlocks`, `AllocatedIffInUse`, `FitIsRight`, `KeepsContract`, `CallsReturn` |
| `free_heap` | six files; small heaps of 24 to 32 words with 3 blocks of two sizes each, from the start and with `realloc`; and, for the tree allocators, heaps of 74 words with ten blocks, five of which come and go | `HeapTiled`, `FreeBlocksListed`, `Coalesced`, `BestFit`, `ReallocKeepsData`, `KeepsContract` |
| `seg_realloc` | `mm_seg_bestfit.c`, a heap of 36 words that begins with blocks of 2, 4 and 2 words | `ReallocKeepsData` is violated |
| `rbtree` | two files, 12 nodes; the first 5, three with equal keys, in any order, the rest on top in ascending order | `SearchTree`, `RedBlack`, `DeleteFreesAll`, `LookupsAreRight`, `EraseTakesItsKey`, `CallsReturn` |
| `exercises` | 27 programs, lists of up to 3 items of three values, trees of up to 4 nodes, some thirty bracket expressions | `NothingLost`, `AnswersRight` |

Why the bounds are enough:

* Cache: responses of length 0 and 1 and a capacity of 3 let a store evict
  nothing, one entry, several or all; an eviction with two entries frees the
  tail; the fourth thread then searches, stores at the tail's address or frees it
  again.  Three addresses let the pool run dry while entries are checked out.
  One key that several threads share and one that only one uses give every
  pattern of hits and misses of four threads but those with a second pair.
* Acceptor: two cells for three connections force the reuse of a cell, and three
  descriptors for three clients and up to three servers both the reuse and the
  exhaustion of descriptors.
* Relay: two lines before the blank one are enough for a line that follows a
  dropped or a length line; lengths from -1 to 3 lie below, at and above the
  bytes there are and the stack bound `MaxBody`; `MaxObjectSize` 4 lies within
  the total.  `MaxSent` cuts off the loops that spin at the end of the input;
  `Spin` stands for the rest.
* Heap: the smallest block is 4 words, so that 22 words hold up to four blocks
  and every neighbourhood of `coalesce`; sizes 1 and 7 make requests that fit exactly,
  that leave a splittable rest and that leave one of two words, that is not split off; the heap can be
  extended in some orders and not in others, from within `mm_realloc` too.
* Free-list heaps: a reserved block, three blocks and the rest give every
  neighbourhood of a merge; two sizes per file lie in two classes or in the list and in
  the tree, and `mm_seg_inheap.c` gets one that it rounds up.  Five free blocks between blocks that
  stay make a tree of five nodes of three sizes, two of them twice, in any
  shape that frees and allocations lead to.
* Network: a line of up to three bytes that ends in a newline, or does not, starts at
  any place in a buffer of two, so lines straddle refills and calls of
  different kinds find what the other left; four bytes allow three calls.
  Two clients show what the first leaves to the second.  A target of five
  characters has room for a host, a colon, a port, a slash and a path, or for
  two of the separators in any order.
* Red-black trees: below ten nodes the loop of `erase_fixup` never climbs to a node above
  the bottom and goes on from there.  Twelve nodes, seven of them inserted in ascending order,
  and the erasure of the smallest reach each of its four cases there.  Among the
  first five every order of insertions and erasures occurs.  Look-ups are made in
  these small trees only.
* Exercises: lists of three items with even, odd and negative values, among them
  equal ones, of odd and even length and empty; trees of every shape with four nodes, that include chains
  with a great-grandchild and nodes with one child on either side.  `MaxStacked` bounds the
  `StackNode`s that `identical` leaves behind at four, those of two children.

### Fairness

`CacheCallsReturn` assumes weak fairness of the steps a thread takes by itself
once it wants the semaphore: the threads are the kernel's and it runs them
all.  The semaphore itself is only weakly fair, which suffices because a thread
asks for it finitely often.  Nothing is assumed of the steps that wait for a
peer.  `CallsEnd` assumes that a peer that has bytes to send sends them and
then closes, that Tiny's client sends its request, and that the server and its child run; no
client of Tiny has to leave, and no system call has to succeed.  `HeadersEnd` and `EmptyFileServed` are
stated under the same assumption.  `ConnectionsServed` assumes the same of `main` and of a thread outside
`doit`.  `RelayReturns` assumes that the peers have sent what they are going to
send, so that no read blocks.  `CallsReturn` of the heap and of the tree assumes
that a call that was made runs (there is one thread) and not that the caller
makes another.

### What the violations say

* `cache_capacity`: a hit takes the only entry off the list; a store meanwhile
  finds the list empty, evicts nothing and subtracts its length: `cache_left` is
  negative.  `cache.c:4` calls MAX_CACHE_SIZE the maximum size of the whole cache.
* `cache_free`: `cache.c:70` frees the tail sentinel instead of the evicted node,
  which leaks.  The list survives this (`ListIntact`) as long as the memory of
  the tail can still be read, for a reason the theorem `NodesNeverFreed` makes
  precise: no other node is ever freed.
* `relay_short_body`: `proxy.c:246` sends `content_len` bytes of an uninitialised
  array when the server sent fewer.
* `seg_realloc`: `mm_seg_bestfit.c:267` takes free blocks behind the reallocated one off
  their lists before it knows whether they are enough.  If they are not, they stay off
  the list but marked free; the next `mm_free` beside them takes them off a
  second time and writes their stale links into blocks that are in use by then.  The
  other three `mm_seg` files have the same loop.

### Promises without a run

These properties state what a document or a comment says, and TLC refutes each of them when it takes
the place of the properties in the cfg that is named; they are not among the project's
runs.  The passing properties exclude exactly the cases they are refuted by, and each says so.

| Property | In place of those of | What is said | What the code does |
|---|---|---|---|
| `DescriptorsComeBack` | `Acceptor.cfg` | `proxy.c:55`, 66: an infinite loop accepts connections | `proxyfd` (line 162) is never closed: each miss takes a descriptor for good, until `accept` finds none and its wrapper exits |
| `OriginalHeaders` | `Relay.cfg` | `proxy.c:283`: the client's original headers are sent on | when the client closes before its blank line, `buf` keeps the last line (287), which is sent again and again |
| `HeadersEnd` | `Network.cfg` | `tiny.c:3`: an iterative server | a client that closes within its headers keeps `read_requesthdrs` going (`tiny.c:107`), and nobody else is served |
| `OutlivesClients` | `Network.cfg` | the same | a client that closes before the answer is written ends the server (`tiny.c:149`) |
| `EmptyFileServed` | `Network.cfg` | `tiny/README:7`: static content is served | a file without bytes ends the server: `mmap` refuses it (`tiny.c:155`) |
| `DefaultPath` | `Network.cfg` | `proxy.c:305`, 337: 0 or 1 is returned, the path is "/" by default | without a slash, `index` returns NULL and the store through it (325, 331) kills the proxy before `if (q)` (338) |
| `ColonInPath` | `Network.cfg` | `proxy.c:319`: the colon of a port is looked for | the first colon of the target is taken, in the path too |
| `ErasesNamedNode` | `RBTree.cfg` | `rbtree-lab-main/README.md:19`: the node of the pointer is deleted and its memory returned | `rbtree2.c:404` exchanges keys and frees a leaf |
| `IdenticalTrees` | `Exercises.cfg` | `Q1_E_BT.c:58`, 120: the structures are compared | the roots' items are, as `count` is not raised (132) |
| `SumOfOdd` | `Exercises.cfg` | `Q4_E_BT.c:62`, 81: the sum of all odd numbers | their number is counted, of those above 0 (113-114) |
| `GreatGrandchildren` | `Exercises.cfg` | `Q8_E_BT.c:80`, 106: nodes with a great-grandchild | nodes with a grandchild (112) |
| `EvenRemoved` | `Exercises.cfg` | `Q2_C_SQ.c:68`, 92: even numbers are removed | odd numbers below 0 are too (136), and the rest is reversed |

Where a line of `add_range` (`mdriver.c:409`) looks for overlapping payloads, it asks whether an end of the new
one lies in an old one, and misses an old one inside the new one, although line 407 says
"must not overlap".  The driver's list of ranges is not modelled; `Allocator`
asks that no two payloads overlap at all, and so is stronger than the driver.

Some things no document denies, and they are therefore not findings: without a
Content-Length the body is not relayed; the loop over the server's headers spins like that over the
client's when the server closes before its blank line (`RelayReturns` assumes that neither
peer does), and `proxy.c:214` tests `buf` before anything was read into it; `write_cache` gives
up after evicting the last entry even when the response then fits
(`cache.c:66`), and ends the process when memory runs out (`cache.c:74`); `rbtree_to_array` of either file writes behind an array
that is shorter than the tree.

## 4. Proofs

The theorems hold for all values of the constants that satisfy the modules'
assumptions: the sentinels, the addresses and NULL differ, sizes are natural
numbers (`AddrAssumption`, `SizeAssumption`), threads ask for keys
(`RequestsAssumption`), and likewise for `Acceptor` (`FdAssumption`,
`NameAssumption`); what peers send to `Relay` are sequences of its items
(`InputAssumption`), and what they send to `Network` are sequences, over a
connection and into a buffer that hold at least one byte (`RioAssumption`); a line
buffer holds more than that, and a colon is not a slash (`NetworkAssumption`).

**ProxyCache_proofs.**  The inductive invariant `Inv` is `TypeOK /\ MutualExclusion
/\ CheckedOutIntact /\ ListIntact`.

* `MutualExclusion` couples the semaphore to the threads' positions (zero exactly
  when one is between P and V); without the equivalence it is not inductive.
* `CheckedOutIntact` needs the list (a hit must find a live node that owns its
  response) and `ListIntact` needs the checked-out nodes to be off the list (a
  push links a node that must not be there already).
* `ListIntact` has the witness set `S` of the nodes on the list.  It
  is chained both ways between the sentinels, owned by nobody, and holds the
  cursors: an eviction is at the last node, which is why only the oldest is freed
  and why `lru->next` is the tail.  `PopChained` and `PushChained` say what
  unlinking and linking do to `S`.  The case of a store at the address of the
  freed tail is `PushTail`: the walk from the head then ends at once, and the
  list is empty again (what was on it is lost, see `NoResponseLost`).
* `FreesOldest` and `NodesNeverFreed` are action properties that follow from
  `Inv` in the state before the step.
* `NothingLost` needs more than links: that the list is all there is.  `Reached(S)`
  says that no smaller set than `S` is closed under `next` from the head, so that the
  `S` of `ListIntact` is what a walk visits (`WalkListed`), and `Walk(S)` that the
  allocated responses are those of `S` and those being sent.  Until the freed tail's
  address is stored to (`Kept`; afterwards the list is empty with nodes still held),
  a pop, a push, a hit, an eviction and a store each lead from such a set to one.
* `BytesExact` follows the same steps: the set of cached bytes, one pair for each, loses
  or gains exactly what `cache_left` does (`EvictBytes`, `StoreBytes`), and stays
  finite, without which a cardinality means nothing (`Accounted`).  From the store at the freed tail's
  address on, only that it is not too many is kept: bytes may leave the set without a credit.
* `PromiseKept` is the refinement of `ResponseCache`.  What the links say of the order is stated
  for two functions `nx` and `pv`, so that it holds before and after a step.  The nodes ahead of
  the next node are those ahead of this one, and this one (`AheadNext`); a function with
  this property is the only one (`AheadOnly`), so `PopLeaves` and `PushEnters` give
  the order after a pop and a push.  `AheadOrder` says that the list goes round nowhere,
  `AheadLast` that all other nodes are ahead of the last, which makes the evicted
  response the one used the longest ago, and that all are ahead of the tail, which makes a miss a
  miss.  A search is many steps: `Searched` says that it has passed no response to
  its request, and holds because nobody else changes the list meanwhile.

**Acceptor_proofs.**  `Inv` is the conjunction of `TypeOK`, `CellsExclusive` and
`ConnectionsExclusive`; the last two need each other, because the
descriptor of a thread that has not started is in its cell.

**ImplicitHeap_proofs.**  `Inv` is `TypeCorrect /\ HeapRight /\ Clients /\ Searched /\
Progress`, and holds for every heap of at least a prologue and a chunk, every
set of request sizes and every even chunk (`SizeAssumption`); an address is not NULL
(`NullAssumption`).

* `HeapRight` states `HeapTiled` of any memory `m`, set of blocks and end
  (`Tiled(m, bs, end)`), so that the heaps in the middle of a step can be spoken of.
  Besides what `HeapTiled` says, it says that every block but the first is preceded by
  one that ends there: `coalesce` reads the footer in front of a block.
* `Recut` is the lemma all the changes rest on: the blocks from p to q are
  replaced by others that tile the same words, and nothing else is written.
  A split, a merge of up to three blocks, and an in-place growth are instances of it;
  `ExtendRight` is the one change that moves the end.
* `Clients` says that each caller's block has room for what was asked, that no two
  callers share one, and that each allocated block is somebody's.
* `Searched` is what a search knows: nothing it has passed fits, best fit's
  candidate is the smallest so far, and next fit has come round to its rover.
* `Progress` says for each place in a call what is true of the block it works on:
  that it is large enough, or will be after the merge that is to come
  (`Enough` with the block in front), and that what `mm_realloc` has extended the heap by
  follows the block that is to grow (`Grows`), so that `coalesce` finds it allocated in
  front.
* The four ways a call decides on its result (`MallocPlace`, and `mm_realloc` by
  shrinking, merging, or growing at the end) are one predicate,
  `Decision(p, q, asize)`: words from p to q are cut anew, an allocated block of
  `asize` first.  `DecisionKeeps` shows the invariant for all of them.
* `FitAlwaysRight` is an action property that follows from `Searched` before the step.
* `ContractKept` is the refinement of `Allocator`: the initial
  states map to the contract's, and every step is one of `Malloc`, `Free`, `Realloc`, `Write`,
  `Extend`, or leaves all that is mapped unchanged.  That blocks in use are apart comes from the
  tiling (`Apart`); that a step leaves the contents of the other blocks alone
  from `Preserved` and from where it writes (`KeptSame`).  A `mm_realloc` that moves
  its block is the only long case: the new block is written, the old one
  marked free, and both together are one `Realloc` of the contract (`MapsCopy`).

**Relay_proofs.**  `CopyComplete` and `RequestComplete` hold for clients and
servers that send anything.  The copy is a prefix of what the client was sent
because it grows by the same items at the same steps, until one does not fit
and it never grows again; that it is whole whenever `too_long` is 0 is the
inductive part.  `ResponseInOrder` compares with the whole response, which does not change:
each step moves the items it takes from what is left to what was sent, and adds anything
else only when nothing is left.  `RequestWellFormed` needs that the blank line is sent exactly
when the loop over the client's headers is left.

**Network_proofs.**  `Inv` is `TypeCorrect /\ Intact /\ CallOpen /\ Unmixed`.  A
read that fails ends it: `Stopped` says that a process whose call has failed makes no other call, and
`Broken` that what calls have returned and what the failing one left in the caller's
buffer are the beginning of the message.  The theorems rest on one or the other.

* `Intact` says that the message is divided, in this order, into what calls have returned, what
  the open call has got, the buffer, the kernel, and what is not sent: `At(message, part, k)`
  gives each part its place.  Places and lengths are all that the
  proof computes with; stated as an equation between concatenations, the same fact
  is out of the provers' reach.
* `CallOpen` says that a call that has not returned is still short of what it was
  asked for and has no end of a line; without it a line that a step completes
  need not be the first one.
* `Unmixed` keeps `rio_readn` away from a buffer that is not empty: the proof of
  `ReadSomeRight` fails without it, and so would the code.
* `StepRight` is what every step does: it keeps these, and a call that returns
  returns what comes next.  One lemma per step of the reader shows it by way of
  `Moved`, which only asks where the bytes went.
* `CallsReturnNext` states `CallsRight` for Tiny's calls too, and `NothingLost`
  is `Intact`, or `Broken` once a call has failed.
* `AnswersStayComplete` rests on `Told`, what the server knows at each `pc`: before the
  first line is in, nothing has been received on the connection, so that the line's
  first word is the message's first word unless the client has closed
  (`FirstLine`); afterwards the status and the body are those of the branch that
  this word leads to, and a child exists only while the server waits for it
  (`Answering`).  With a line buffer of one byte `rio_readlineb` would return
  lines without a byte in them, which is why the assumption excludes it.
* `TargetsRight` computes with places too: the first colon and the first slash
  behind it are where the definition of the parts puts them (`FirstAt`,
  `PortParsed`, `NoPortParsed`).

**RBTree_proofs.**  The theorems are about a program linked with `rbtree.c`: their
hypothesis is `Spec /\ file = "rbtree.c"`, which `Init` allows and no step changes.  They
hold for any keys and any finite set of nodes (`KeyAssumption`; a program allocates
finitely many).  The inductive invariant is `FileInv`, that is `TreeInv` in that
program.

* A tree is described by a function `under` that gives each node the set of nodes
  in its subtree.  `Shape(s, S, under)` says of any tree value `s` and set `S`
  that children and parents agree, that `under` of a node is the node and its children's,
  which are apart, and that the root's is `S`; `Ordered` that smaller keys
  are under the left child and larger ones under the right.  Keys may be equal, on both sides: a
  rotation moves them.
* What an operation does to `under` can be written down: `Turned` for a rotation,
  `Without` and `With` for cutting a node out and hooking one on, `Moved` for the successor that
  takes a node's place.  `RotateShape`, `ExciseShape`, `HookShape` and `RenameShape` show that
  this function fits the new tree, and each has a lemma for the order beside it.
  Every step of the program is one of them or a composition.
* `Descending` says that the new key is on the right side of every node the search
  has passed, which makes the place it is linked at right; `Seeking` that the cursor of the
  search for a successor is on the left edge of the right subtree, so that nothing
  in that subtree precedes it; `Looking` that what `rbtree_find`, `rbtree_min` and `rbtree_max`
  look for is still below their cursor; `Fixing` what the two fix-ups may follow.
* `to_array` and `delete_rbtree` are recursive functions over nodes.  They are defined on a tree because
  the set under a node shrinks: `Ranks` numbers the nodes by the size of that set, and
  `DfsDefined` and `FillDefined` are inductions over the numbers (`Least`), not over data.
  `DfsLists` and `FillLists` say what they return, and `Vacant`, that free nodes have no
  children, is needed where the functions are applied outside the tree.

**RedBlack_proofs.**  `ColorInv` on top of `TreeInv`.

* The black heights are a function `h`: `Balanced(s, S, h, p, e)` says that `h` of a node is `h` of
  its child, and one more if the node is black, on both sides; on side `e` of `p` one
  black is owed.  `Owed` places that debt: in the loop of `erase_fixup` above the
  cursor, nowhere otherwise.
* A rotation with its repainting changes `h` at two or three nodes, and the lemmas say which
  (`TurnBalanced`, `RedTurnBalanced`, `LentBalanced`); `PassBalanced` and `SinkBalanced` are the
  steps that move the red or the debt up.  `Debt` is what the cases of `erase_fixup` have
  in common: case 1 leads to it again with a black brother (`BlackBrotherDebt`), case 3 to it with a
  red far child (`StraightenDebt`), case 2 moves it to the parent (`SinkPasses`) and case 4 pays it
  (`TurnBrotherPays`).
* `RedApart` says where a red node may have a red parent: at the cursor of a fix-up, and
  in `erase_fixup` also just below it: case 2 paints the brother red before it
  knows the color of the parent, which becomes the cursor and is painted black when the
  loop ends.
* `RedBlack` itself computes heights by the recursive function `BlackHeight`, which is -1 where two
  sides differ; `BlackHeightIs` shows by the ranks that it is `h`.

**RBTree2_proofs.**  The invariant for `rbtree2.c`, `Tree2Inv`, and the theorems about
`Spec` for either file: the five properties of the run, `EraseTakesItsKey` included.

* `Tree2Inv` has one part for each place where a call may be (`Finding2`, `Sinking`,
  `Recoloring`, `Swapping`, `Leaving`); where the two files do the same (`Resting`)
  it is `TreeInv` and `ColorInv`.
* An erasure takes a key out of the order of the tree and a black out of its heights,
  long before it takes the node.  `Swapping` says that there is a key `k` with which
  node `cur` would be in order; `Hidden(t, v, k)` is the tree in which it has that key and is
  red.  No variable of the program holds `k`: `SwapKeeps` takes for the next node the key it had
  before the exchange (`RekeyOrder`), since the exchange is with the neighbor in the order
  (`SwapWithIs`, which needs the heights: where `cur` has one child, that child is a leaf,
  `LastChild`).
* `Lacking` is the loop invariant of `erase_node`: the hidden tree is a balanced search tree
  in which one black is owed at the cursor, and the leaf is black and below the cursor.
  A turn or a paint of the tree is one of the hidden tree (`HiddenRotated`, `HiddenPaints`),
  so that the lemmas of `RedBlack_proofs` apply to it; what they need is that the leaf is none of
  the nodes turned or painted (`SiblingIs`).  `rbtree2.c` paints in another order than
  `rbtree.c`; `PaintLast`, `LentBack` and `ExchangeBack` say that this does not matter.
  A leaf that is not needed any more is `Ripe`, and `UnlinkGood` takes it out.
* `ErasureTakesItsKey` counts: `HeldSwapped` says that an exchange keeps the number of nodes with each
  key, and `HeldLess` that the last step takes away one.

Only model-checked: everything under fairness (`CallsReturn` among it); the other six
allocators, their refinement of `Allocator` included, so the tiling and the links of
`FreeHeap` (`HeapTiled`, `FreeBlocksListed`, `Coalesced`); the exercises (`NothingLost`), whose
definitions or reference definitions are recursive.

## 5. Not modelled

* Timers and scoring, trace files and their generators, the test scripts, the CGI
  example, the echo pair, and the copies of `csapp.c` and `tiny.c`: they hold no
  logic of their own or duplicate what is modelled.  The wrappers of `csapp.c`
  appear as what they do on an error.
* `mm_default.c`: it moves the break and never reuses memory.  `rbtree_noNil.c`
  is a fragment that does not compile by itself.  `removeNodeFromTree` of `Q5_F_BST.c` is
  not called by anything, and two of its paths return no value.
* `mem_reset_brk` and the start of a second trace: every allocator sets all its
  state in `mm_init`, but for what is in the heap, which `mm_init` writes.
* `get_numeric_addr` asks the resolver.  That the method is part of the cache key only as
  a number that tells GET from the rest (`proxy.c:134`), so that a POST can be
  answered from the cache, is a fact of `doit` that `ProxyCache` takes as given:
  keys are abstract there.
* Builds with pointers of 8 bytes of the four `mm_seg` files (see SegHeap).
* Sizes near the limits of `size_t` are not among the requests of the heaps' runs:
  the traces' sizes are far from them.  Numbers of the C code are otherwise
  integers; no counter modelled here can reach its width within a run of the
  program the models allow.
* Requests of up to four bytes to `mm_seg_no_footer.c` are not among those of the run.
  They get a block of 8 bytes, although line 188 says that a block has 16 at
  least, and the links and the footer of a free block need all 16.

## 6. Plan

1. `FreeHeap`: the tiling of `ImplicitHeap_proofs` again, with the links of the free
   lists.
2. The composition of `Relay` with `Rio`: the line buffer over refills.
