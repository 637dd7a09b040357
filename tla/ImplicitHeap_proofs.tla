-------------------------- MODULE ImplicitHeap_proofs --------------------------
(*****************************************************************************)
(* The implicit list allocators, for every size of heap, chunk and request,  *)
(* and under each search: the heap stays tiled by its blocks, the blocks     *)
(* marked allocated are the caller's, and the searches find what they        *)
(* promise; and each step is one the contract of an allocator, Allocator,    *)
(* allows. One inductive invariant carries all of it.                        *)
(*****************************************************************************)
EXTENDS ImplicitHeap, TLAPS

\* What a word holds: a tag, what a caller wrote, or nothing known.
Value == Tag \cup Id \cup {NULL}
\* The size in the header of block b.
Sz(m, b) == m[b - 1].size

TypeCorrect ==
    /\ fit \in {"first", "next", "best"}
    /\ mem \in [Word -> Value]
    /\ brk \in 0 .. MaxHeap /\ Even(brk)
    /\ pc \in {"idle", "search", "wrap", "extend", "place", "coalesce", "grow",
               "copy", "return", "fill"}
    /\ call \in [id : Id \cup {NULL}, size : Nat]
    /\ pc # "idle" /\ ~(pc = "coalesce" /\ after = "idle") =>
          call.id \in Id /\ call.size \in Size
    /\ block \in [Id -> Nat \cup {NULL}]
    /\ bsize \in [Id -> Nat]

\* The blocks bs tile m from the prologue to end: tags agree, each block ends where
\* the next one begins, and each but the first begins where one ends.
Tiled(m, bs, end) ==
    /\ bs \subseteq 4 .. (end - 1) /\ 4 \in bs
    /\ \A b \in bs :
          /\ Even(b) /\ Even(Sz(m, b)) /\ Sz(m, b) >= DSIZE
          /\ m[b - 1] \in Tag /\ m[b + Sz(m, b) - DSIZE] = m[b - 1]
          /\ b + Sz(m, b) \in bs \cup {end}
          /\ \A c \in bs : c > b => c >= b + Sz(m, b)
    /\ \A q \in bs \cup {end} : q # 4 => \E c \in bs : c + Sz(m, c) = q

\* The prologue and the epilogue.
Ends(m) ==
    /\ m[1] = PACK(DSIZE, 1) /\ m[2] = PACK(DSIZE, 1) /\ m[brk - 1] = PACK(0, 1)
    /\ epilogue = brk - 1

HeapRight == Tiled(mem, blocks, brk) /\ Ends(mem)

\* The caller's blocks have room, are apart, and are the allocated ones.
Clients ==
    /\ \A i \in Id :
          /\ At(i) = NULL => Asked(i) = 0
          /\ At(i) # NULL => /\ At(i) \in blocks
                             /\ mem[At(i) - 1].alloc = 1
                             /\ DSIZE + Asked(i) <= Sz(mem, At(i))
    /\ \A i, j \in Id : At(i) = At(j) /\ At(i) # NULL => i = j
    /\ \A b \in blocks : mem[b - 1].alloc = 1 => b \in InUse

\* What a search knows of the blocks it has passed.
Searched ==
    /\ pc \in {"search", "wrap"} => ptr \in blocks \cup {heap_listp, brk}
    /\ pc = "search" /\ fit = "first" => \A b \in blocks : b < ptr => ~Fits(b)
    /\ pc = "search" /\ fit = "next" =>
          /\ last_fit_ptr <= ptr
          /\ \A b \in blocks : last_fit_ptr <= b /\ b < ptr => ~Fits(b)
    /\ pc = "wrap" =>
          /\ fit = "next"
          /\ \A b \in blocks : b < ptr \/ last_fit_ptr <= b => ~Fits(b)
    /\ pc = "search" /\ fit = "best" =>
          IF best_ptr = NULL THEN \A b \in blocks : b < ptr => ~Fits(b)
          ELSE /\ best_ptr \in blocks /\ Fits(best_ptr) /\ best_ptr < ptr
               /\ \A b \in blocks : b < ptr /\ Fits(b) =>
                     \/ Sz(mem, best_ptr) < Sz(mem, b)
                     \/ Sz(mem, best_ptr) = Sz(mem, b) /\ best_ptr <= b
    /\ pc = "extend" => \A b \in blocks : ~Fits(b)
    /\ fit = "next" => last_fit_ptr \in blocks \cup {brk}

\* The block is large enough, or will be once merged with the free one in front.
Enough ==
    \/ Asize(call.size) <= Sz(mem, ptr)
    \/ \E c \in blocks : /\ c + Sz(mem, c) = ptr /\ mem[c - 1].alloc = 0
                         /\ Asize(call.size) <= Sz(mem, c) + Sz(mem, ptr)

\* The extension of the heap follows the block that mm_realloc is to grow.
Grows ==
    LET p == block[call.id]
    IN  /\ p # NULL /\ ptr = p + Sz(mem, p) /\ ptr + Sz(mem, ptr) = brk
        /\ Asize(call.size) <= Sz(mem, p) + Sz(mem, ptr)

\* What holds at each place of a call of the block it works on.
Progress ==
    /\ pc = "place" => ptr \in blocks /\ Fits(ptr)
    /\ pc = "coalesce" => /\ ptr \in blocks /\ mem[ptr - 1].alloc = 0
                          /\ after \in {"idle", "place", "grow", "return"}
                          /\ after = "place" => Enough
    /\ pc = "grow" \/ (pc = "coalesce" /\ after = "grow") =>
          ptr \in blocks /\ mem[ptr - 1].alloc = 0 /\ Grows
    /\ Granted => res \in blocks
    /\ pc = "copy" => /\ res \in blocks /\ mem[res - 1].alloc = 1
                      /\ DSIZE + call.size <= Sz(mem, res)
                      /\ \A i \in Id : block[i] # res
                      /\ block[call.id] # NULL
    /\ pc = "fill" => res \in blocks /\ block[call.id] = res /\ bsize[call.id] = call.size

\* Sums and differences of even sizes are even.
LEMMA Evens ==
    ASSUME NEW a \in Int, NEW b \in Int, Even(a), Even(b)
    PROVE  Even(a + b) /\ Even(a - b)
  BY DEF Even

\* The adjusted size of a request has room for the tags and the payload, and is even.
LEMMA AsizeRight ==
    ASSUME NEW n \in Nat \ {0}
    PROVE  Asize(n) \in Nat /\ Asize(n) >= 4 /\ Asize(n) >= n + 2 /\ Even(Asize(n))
  BY DEF Asize, ALIGN, DSIZE, Even

\* The words that two heaps may differ in.
OnlyIn(m, m2, p, q) == \A w \in Word : w \notin (p - 1) .. (q - 2) => m2[w] = m[w]

\* The heap has a size (from SizeAssumption, of the simulated memory of memlib.c).
LEMMA MaxNat == MaxHeap \in Nat
  BY SizeAssumption

\* Where a block of a tiled heap lies, with its tags and its neighbours.
LEMMA Shape ==
    ASSUME NEW m, NEW bs, NEW end \in 0 .. MaxHeap, Tiled(m, bs, end), NEW b \in bs
    PROVE  /\ b \in Nat /\ b >= 4 /\ b < end
           /\ Sz(m, b) \in Nat /\ Sz(m, b) >= 2
           /\ b + Sz(m, b) <= end
           /\ b - 1 \in Word /\ b + Sz(m, b) - 2 \in Word
           /\ \A c \in bs : c < b => c + Sz(m, c) <= b
           /\ \A c \in bs : c > b => c >= b + Sz(m, b)
           /\ Even(b) /\ Even(Sz(m, b)) /\ Sz(m, b) <= MaxHeap
           /\ m[b - 1] \in Tag /\ m[b + Sz(m, b) - 2] = m[b - 1]
           /\ b + Sz(m, b) \in bs \cup {end}
  <1>1. \A c \in bs : c \in 4 .. (end - 1) /\ Sz(m, c) \in 0 .. MaxHeap /\ Sz(m, c) >= 2
    BY SizeAssumption DEF Tiled, Tag, Sz, DSIZE
  <1>2. \A c \in bs : c + Sz(m, c) \in bs \cup {end}
    BY DEF Tiled
  <1>3. b + Sz(m, b) <= end
    BY <1>1, <1>2
  <1>4. \A c \in bs : c < b => c + Sz(m, c) <= b
    BY <1>1 DEF Tiled
  <1>5. /\ \A c \in bs : c > b => c >= b + Sz(m, b)
        /\ Even(b) /\ Even(Sz(m, b)) /\ Sz(m, b) <= MaxHeap
        /\ m[b - 1] \in Tag /\ m[b + Sz(m, b) - 2] = m[b - 1]
    BY <1>1, MaxNat DEF Tiled, DSIZE
  <1> QED
    BY <1>1, <1>2, <1>3, <1>4, <1>5, MaxNat DEF Word

\* The blocks from p to q are cut anew, into those of ns: the heap stays tiled.
LEMMA Recut ==
    ASSUME NEW m, NEW m2, NEW bs, NEW end \in 0 .. MaxHeap, Tiled(m, bs, end),
           NEW p \in bs, NEW q \in bs \cup {end}, p < q,
           NEW ns \in SUBSET (p .. (q - 1)), p \in ns,
           \A b \in ns :
              /\ Even(b) /\ Even(Sz(m2, b)) /\ Sz(m2, b) >= DSIZE
              /\ m2[b - 1] \in Tag /\ m2[b + Sz(m2, b) - DSIZE] = m2[b - 1]
              /\ b + Sz(m2, b) \in ns \cup {q}
              /\ \A c \in ns : c > b => c >= b + Sz(m2, b),
           \A b \in ns \cup {q} : b # p => \E c \in ns : c + Sz(m2, c) = b,
           OnlyIn(m, m2, p, q)
    PROVE  Tiled(m2, (bs \ (p .. (q - 1))) \cup ns, end)
  <1> DEFINE rest == bs \ (p .. (q - 1))
             bs2  == rest \cup ns
  <1>1. p \in 4 .. (end - 1) /\ q \in 5 .. end
    BY DEF Tiled
  <1>0. \A c \in ns \cup {q} : c \in Int /\ c <= q
    BY <1>1
  <1>2. ASSUME NEW b \in rest
        PROVE  /\ b \in 4 .. (end - 1) /\ Sz(m, b) \in Nat /\ Sz(m, b) >= 2
               /\ b + Sz(m, b) <= p \/ b >= q
               /\ b + Sz(m, b) \in rest \cup {p, end}
    <2>1. b \in 4 .. (end - 1) /\ Sz(m, b) \in Nat /\ Sz(m, b) >= 2 /\ b + Sz(m, b) <= end
      <3>1. /\ b \in Nat /\ b >= 4 /\ b < end /\ Sz(m, b) \in Nat /\ Sz(m, b) >= 2
            /\ b + Sz(m, b) <= end
        BY <1>2, Shape
      <3> QED
        BY <3>1
    <2>2. b < p \/ b >= q
      BY <1>1, <1>2, <2>1
    <2>3. b < p => b + Sz(m, b) <= p
      BY <1>2, Shape
    <2>4. b + Sz(m, b) \in bs \cup {end}
      BY <1>2 DEF Tiled
    <2> QED
      BY <1>1, <2>1, <2>2, <2>3, <2>4
  <1>3. ASSUME NEW b \in rest
        PROVE  m2[b - 1] = m[b - 1] /\ m2[b + Sz(m, b) - 2] = m[b + Sz(m, b) - 2]
    <2>1. b - 1 \in Word /\ b + Sz(m, b) - 2 \in Word
      BY <1>3, Shape
    <2>2. b - 1 \notin (p - 1) .. (q - 2) /\ b + Sz(m, b) - 2 \notin (p - 1) .. (q - 2)
      BY <1>1, <1>2
    <2> QED
      BY <2>1, <2>2 DEF OnlyIn
  <1>4. \A b \in rest : Sz(m2, b) = Sz(m, b)
    BY <1>3 DEF Sz
  <1>5. bs2 \subseteq 4 .. (end - 1) /\ 4 \in bs2
    BY <1>1, <1>2 DEF Tiled
  <1>6. ASSUME NEW b \in bs2
        PROVE  /\ Even(b) /\ Even(Sz(m2, b)) /\ Sz(m2, b) >= DSIZE
               /\ m2[b - 1] \in Tag /\ m2[b + Sz(m2, b) - DSIZE] = m2[b - 1]
               /\ b + Sz(m2, b) \in bs2 \cup {end}
               /\ \A c \in bs2 : c > b => c >= b + Sz(m2, b)
    <2>1. CASE b \in rest
      <3>1. /\ Even(b) /\ Even(Sz(m2, b)) /\ Sz(m2, b) >= DSIZE
            /\ m2[b - 1] \in Tag /\ m2[b + Sz(m2, b) - DSIZE] = m2[b - 1]
        BY <2>1, <1>3, <1>4 DEF Tiled, DSIZE
      <3>2. b + Sz(m2, b) \in bs2 \cup {end}
        BY <2>1, <1>2, <1>4
      <3>3. ASSUME NEW c \in bs2, c > b PROVE c >= b + Sz(m2, b)
        <4>1. c \in rest => c >= b + Sz(m, b)
          BY <2>1, <3>3 DEF Tiled
        <4>2. c \in ns => c >= b + Sz(m, b)
          BY <1>1, <1>2, <2>1, <3>3
        <4> QED
          BY <4>1, <4>2, <1>4, <2>1
      <3> QED
        BY <3>1, <3>2, <3>3
    <2>2. CASE b \in ns
      <3>1. b + Sz(m2, b) \in bs2 \cup {end}
        BY <2>2, <1>1
      <3>2. b + Sz(m2, b) <= q
        <4>1. b + Sz(m2, b) \in ns \cup {q}
          BY <2>2
        <4> QED
          BY <4>1, <1>0
      <3>3. ASSUME NEW c \in bs2, c > b PROVE c >= b + Sz(m2, b)
        <4>1. c \in rest => c >= q
          BY <1>2, <2>2, <1>1, <3>3
        <4>2. c \in ns => c >= b + Sz(m2, b)
          BY <2>2, <3>3
        <4>3. b + Sz(m2, b) \in Int
          BY <2>2, <1>0
        <4> QED
          BY <4>1, <4>2, <4>3, <3>2, <3>3, <1>1
      <3> QED
        BY <2>2, <3>1, <3>3
    <2> QED
      BY <2>1, <2>2
  <1>7. ASSUME NEW b \in bs2 \cup {end}, b # 4
        PROVE  \E c \in bs2 : c + Sz(m2, c) = b
    <2>1. CASE b \in ns \cup {q} /\ b # p
      BY <2>1
    <2>2. CASE b = p \/ b \notin ns \cup {q}
      <3>1. PICK c \in bs : c + Sz(m, c) = b
        BY <1>7, <2>2 DEF Tiled
      <3>2. c \in Nat /\ Sz(m, c) \in Nat /\ Sz(m, c) >= 2
        BY Shape
      <3>3. c \notin p .. (q - 1)
        <4>1. b < p \/ b = p \/ b > q
          BY <1>1, <2>2, <1>5
        <4>2. c < q => c + Sz(m, c) <= q
          BY Shape, <1>1, <3>2
        <4> QED
          BY <1>1, <3>1, <3>2, <4>1, <4>2
      <3> QED
        BY <3>1, <3>3, <1>4
    <2> QED
      BY <2>1, <2>2
  <1> QED
    BY <1>5, <1>6, <1>7 DEF Tiled

\* What the two PUTs of a header and a footer write, and what they leave alone.
LEMMA PutTagsRight ==
    ASSUME NEW m \in [Word -> Value], NEW p \in Nat, NEW n \in 2 .. MaxHeap,
           NEW alloc \in {0, 1}, p >= 1, p + n - 2 \in Word
    PROVE  LET m2 == PutTags(m, p, n, alloc)
           IN  /\ m2 \in [Word -> Value]
               /\ m2[p - 1] = PACK(n, alloc) /\ m2[p + n - 2] = PACK(n, alloc)
               /\ \A w \in Word : w # p - 1 /\ w # p + n - 2 => m2[w] = m[w]
  <1>1. p - 1 \in Word
    BY SizeAssumption DEF Word
  <1>2. PACK(n, alloc) \in Value
    BY SizeAssumption DEF PACK, Value, Tag
  <1> QED
    BY <1>1, <1>2 DEF PutTags, HDRP, WSIZE, DSIZE

\* The same, of a block marked free.
LEMMA PutFreeRight ==
    ASSUME NEW m \in [Word -> Value], NEW p \in Nat, NEW n \in 2 .. MaxHeap,
           p >= 1, p + n - 2 \in Word
    PROVE  LET m2 == PutFree(m, p, n)
           IN  /\ m2 \in [Word -> Value]
               /\ m2[p - 1] = PACK(n, 0) /\ m2[p + n - 2] = PACK(n, 0)
               /\ OnlyIn(m, m2, p, p + n)
  <1> DEFINE blank == [w \in Word |-> IF w \in p .. (p + n - 2) THEN NULL ELSE m[w]]
  <1>1. blank \in [Word -> Value]
    BY DEF Value
  <1>2. PutFree(m, p, n) = PutTags(blank, p, n, 0)
    BY DEF PutFree, DSIZE
  <1>3. \A w \in Word : w \notin (p - 1) .. (p + n - 2) => blank[w] = m[w]
    OBVIOUS
  <1> HIDE DEF blank
  <1>4. /\ PutTags(blank, p, n, 0) \in [Word -> Value]
        /\ PutTags(blank, p, n, 0)[p - 1] = PACK(n, 0)
        /\ PutTags(blank, p, n, 0)[p + n - 2] = PACK(n, 0)
        /\ \A w \in Word : w # p - 1 /\ w # p + n - 2 => PutTags(blank, p, n, 0)[w] = blank[w]
    BY <1>1, PutTagsRight
  <1> QED
    BY <1>2, <1>3, <1>4 DEF OnlyIn, Word

\* The blocks from p to q become one.
LEMMA JoinRight ==
    ASSUME NEW m, NEW m2, NEW bs, NEW end \in 0 .. MaxHeap, Tiled(m, bs, end),
           NEW p \in bs, NEW q \in bs \cup {end}, p < q, OnlyIn(m, m2, p, q),
           NEW alloc \in {0, 1},
           m2[p - 1] = PACK(q - p, alloc), m2[q - 2] = PACK(q - p, alloc)
    PROVE  Tiled(m2, (bs \ (p .. (q - 1))) \cup {p}, end)
  <1> DEFINE ns == {p}
  <1>1. /\ p \in Nat /\ p >= 4 /\ Even(p) /\ q \in Nat /\ q <= end /\ q >= p + 2
        /\ Even(q)
    <2>1. p \in Nat /\ p >= 4 /\ Even(p) /\ q \in Nat /\ q <= end
      BY Shape
    <2>2. PICK c \in bs : c + Sz(m, c) = q
      BY <2>1 DEF Tiled
    <2>3. Even(c) /\ Even(Sz(m, c)) /\ c \in Nat /\ Sz(m, c) \in Nat
      BY Shape
    <2>4. Even(q)
      BY <2>2, <2>3, Evens
    <2>5. q >= p + 2
      BY <2>1, <2>4, Evens DEF Even
    <2> QED
      BY <2>1, <2>4, <2>5
  <1>2. Sz(m2, p) = q - p
    BY DEF Sz, PACK
  <1>3. Even(q - p) /\ PACK(q - p, alloc) \in Tag
    <2>1. Even(q - p)
      BY <1>1, Evens
    <2> QED
      BY <1>1, <2>1, MaxNat DEF PACK, Tag
  <1>4. /\ Even(p) /\ Even(Sz(m2, p)) /\ Sz(m2, p) >= DSIZE
        /\ m2[p - 1] \in Tag /\ m2[p + Sz(m2, p) - DSIZE] = m2[p - 1]
        /\ p + Sz(m2, p) = q
    BY <1>1, <1>2, <1>3 DEF DSIZE
  <1>5. /\ \A b \in ns : /\ Even(b) /\ Even(Sz(m2, b)) /\ Sz(m2, b) >= DSIZE
                          /\ m2[b - 1] \in Tag
                          /\ m2[b + Sz(m2, b) - DSIZE] = m2[b - 1]
                          /\ b + Sz(m2, b) \in ns \cup {q}
                          /\ \A c \in ns : c > b => c >= b + Sz(m2, b)
        /\ \A b \in ns \cup {q} : b # p => \E c \in ns : c + Sz(m2, c) = b
    BY <1>1, <1>4
  <1>6. ns \in SUBSET (p .. (q - 1)) /\ p \in ns
    BY <1>1
  <1> HIDE DEF ns
  <1>7. Tiled(m2, (bs \ (p .. (q - 1))) \cup ns, end)
    BY <1>5, <1>6, Recut
  <1> QED
    BY <1>7 DEF ns

\* A block outside what has changed.
LEMMA Untouched ==
    ASSUME NEW m, NEW m2, NEW bs, NEW end \in 0 .. MaxHeap, Tiled(m, bs, end),
           NEW p \in bs, NEW q \in bs \cup {end}, OnlyIn(m, m2, p, q),
           NEW b \in bs, b \notin p .. (q - 1)
    PROVE  /\ m2[b - 1] = m[b - 1] /\ Sz(m2, b) = Sz(m, b)
           /\ \A w \in b .. (b + Sz(m, b) - 3) : m2[w] = m[w]
  <1>1. /\ b \in Nat /\ b >= 4 /\ Sz(m, b) \in Nat /\ Sz(m, b) >= 2
        /\ p \in Nat /\ q \in Nat /\ b + Sz(m, b) <= end
    BY Shape
  <1>2. b < p => b + Sz(m, b) <= p
    BY Shape
  <1>3. \A w \in (b - 1) .. (b + Sz(m, b) - 2) : w \in Word /\ w \notin (p - 1) .. (q - 2)
    BY <1>1, <1>2, MaxNat DEF Word
  <1>4. \A w \in (b - 1) .. (b + Sz(m, b) - 2) : m2[w] = m[w]
    BY <1>3 DEF OnlyIn
  <1>5. \A w \in b .. (b + Sz(m, b) - 3) : w \in (b - 1) .. (b + Sz(m, b) - 2)
    BY <1>1
  <1>6. b - 1 \in (b - 1) .. (b + Sz(m, b) - 2)
    BY <1>1
  <1> QED
    BY <1>4, <1>5, <1>6 DEF Sz

\* Block p is marked free.
LEMMA FreedRight ==
    ASSUME NEW m \in [Word -> Value], NEW bs, NEW end \in 0 .. MaxHeap, Tiled(m, bs, end),
           NEW p \in bs
    PROVE  LET m2 == PutFree(m, p, Sz(m, p))
           IN  /\ m2 \in [Word -> Value]
               /\ Tiled(m2, bs, end)
               /\ OnlyIn(m, m2, p, p + Sz(m, p))
               /\ m2[p - 1].alloc = 0 /\ Sz(m2, p) = Sz(m, p)
  <1> DEFINE n == Sz(m, p)
             q == p + n
             m2 == PutFree(m, p, n)
  <1>1. /\ p \in Nat /\ p >= 4 /\ n \in Nat /\ n >= 2 /\ n <= MaxHeap
        /\ q \in bs \cup {end} /\ q <= end /\ p + n - 2 \in Word
    BY Shape
  <1>2. /\ m2 \in [Word -> Value] /\ OnlyIn(m, m2, p, q)
        /\ m2[p - 1] = PACK(n, 0) /\ m2[q - 2] = PACK(n, 0)
    BY <1>1, PutFreeRight
  <1> HIDE DEF m2
  <1>3. m2[p - 1] = PACK(q - p, 0) /\ m2[q - 2] = PACK(q - p, 0) /\ p < q
    BY <1>1, <1>2
  <1>4. Tiled(m2, (bs \ (p .. (q - 1))) \cup {p}, end)
    BY <1>1, <1>2, <1>3, JoinRight
  <1>5. bs = (bs \ (p .. (q - 1))) \cup {p}
    BY <1>1, Shape
  <1>6. m2[p - 1].alloc = 0 /\ Sz(m2, p) = n
    BY <1>2 DEF PACK, Sz
  <1> QED
    BY <1>2, <1>4, <1>5, <1>6 DEF m2

\* A free block of n words is put behind the last one.
Extended(m, end, n) == [PutFree(m, end, n) EXCEPT ![end + n - 1] = PACK(0, 1)]
\* What the proofs need of such a heap.
ExtendedRight(m, bs, end, n, m2) ==
    /\ m2 \in [Word -> Value]
    /\ Tiled(m2, bs \cup {end}, end + n)
    /\ m2[end - 1] = PACK(n, 0) /\ m2[end + n - 1] = PACK(0, 1)
    /\ \A w \in Word : w < end - 1 => m2[w] = m[w]
    /\ \A b \in bs : /\ m2[b - 1] = m[b - 1] /\ Sz(m2, b) = Sz(m, b)
                     /\ \A w \in b .. (b + Sz(m, b) - 3) : m2[w] = m[w]

\* extend_heap makes a block of the new words, its header where the epilogue was.
LEMMA ExtendRight ==
    ASSUME NEW m \in [Word -> Value], NEW bs, NEW end \in 4 .. MaxHeap, Tiled(m, bs, end),
           NEW n \in Nat, n >= 2, Even(n), end + n <= MaxHeap,
           NEW m2, m2 = Extended(m, end, n)
    PROVE  ExtendedRight(m, bs, end, n, m2)
  <1> DEFINE m1 == PutFree(m, end, n)
  <1>1. /\ m1 \in [Word -> Value] /\ OnlyIn(m, m1, end, end + n)
        /\ m1[end - 1] = PACK(n, 0) /\ m1[end + n - 2] = PACK(n, 0)
    <2>1. end \in Nat /\ end >= 1 /\ n \in 2 .. MaxHeap /\ end + n - 2 \in Word
      BY MaxNat DEF Word
    <2> QED
      BY <2>1, PutFreeRight
  <1>0. m2 = [m1 EXCEPT ![end + n - 1] = PACK(0, 1)]
    BY DEF Extended
  <1> HIDE DEF m1
  <1>2. end + n - 1 \in Word /\ PACK(0, 1) \in Tag /\ PACK(n, 0) \in Tag
    BY MaxNat DEF Word, PACK, Tag
  <1>3. /\ m2 \in [Word -> Value] /\ m2[end + n - 1] = PACK(0, 1)
        /\ \A w \in Word : w # end + n - 1 => m2[w] = m1[w]
    BY <1>0, <1>1, <1>2 DEF Value
  <1>4. m2[end - 1] = PACK(n, 0) /\ m2[end + n - 2] = PACK(n, 0)
    BY <1>1, <1>3, MaxNat DEF Word
  <1>5. \A w \in Word : w < end - 1 => m2[w] = m[w]
    BY <1>1, <1>3, MaxNat DEF OnlyIn, Word
  <1>6. ASSUME NEW b \in bs
        PROVE  /\ m2[b - 1] = m[b - 1] /\ Sz(m2, b) = Sz(m, b)
               /\ m2[b + Sz(m, b) - 2] = m[b + Sz(m, b) - 2]
               /\ \A w \in b .. (b + Sz(m, b) - 3) : m2[w] = m[w]
    <2>1. /\ b \in Nat /\ b >= 4 /\ Sz(m, b) \in Nat /\ Sz(m, b) >= 2
          /\ b + Sz(m, b) <= end
      BY <1>6, Shape
    <2>2. \A w \in (b - 1) .. (b + Sz(m, b) - 2) : w \in Word /\ w < end - 1
      BY <2>1, MaxNat DEF Word
    <2>3. \A w \in (b - 1) .. (b + Sz(m, b) - 2) : m2[w] = m[w]
      BY <1>5, <2>2
    <2>4. /\ \A w \in b .. (b + Sz(m, b) - 3) : w \in (b - 1) .. (b + Sz(m, b) - 2)
          /\ b - 1 \in (b - 1) .. (b + Sz(m, b) - 2)
          /\ b + Sz(m, b) - 2 \in (b - 1) .. (b + Sz(m, b) - 2)
      BY <2>1
    <2> QED
      BY <2>3, <2>4 DEF Sz
  <1>7. Sz(m2, end) = n
    BY <1>4 DEF Sz, PACK
  <1>8. Even(end)
    <2>1. PICK c \in bs : c + Sz(m, c) = end
      BY MaxNat DEF Tiled
    <2>2. Even(c) /\ Even(Sz(m, c)) /\ c \in Nat /\ Sz(m, c) \in Nat
      BY Shape
    <2> QED
      BY <2>1, <2>2, Evens
  <1>9. bs \cup {end} \subseteq 4 .. ((end + n) - 1) /\ 4 \in bs \cup {end}
    BY Shape, MaxNat DEF Tiled
  <1>10. ASSUME NEW b \in bs \cup {end}
         PROVE  /\ Even(b) /\ Even(Sz(m2, b)) /\ Sz(m2, b) >= DSIZE
                /\ m2[b - 1] \in Tag /\ m2[b + Sz(m2, b) - DSIZE] = m2[b - 1]
                /\ b + Sz(m2, b) \in (bs \cup {end}) \cup {end + n}
                /\ \A c \in bs \cup {end} : c > b => c >= b + Sz(m2, b)
    <2>1. CASE b \in bs
      <3>1. /\ Even(b) /\ Even(Sz(m, b)) /\ Sz(m, b) >= 2
            /\ m[b - 1] \in Tag /\ m[b + Sz(m, b) - 2] = m[b - 1]
            /\ b + Sz(m, b) \in bs \cup {end} /\ b + Sz(m, b) <= end
            /\ \A c \in bs : c > b => c >= b + Sz(m, b)
        BY <2>1, Shape
      <3> QED
        BY <1>6, <2>1, <3>1 DEF DSIZE
    <2>2. CASE b = end
      <3>1. \A c \in bs : c \in Nat /\ c < end
        BY Shape
      <3> QED
        BY <1>2, <1>4, <1>7, <1>8, <2>2, <3>1 DEF DSIZE
    <2> QED
      BY <2>1, <2>2
  <1>11. ASSUME NEW b \in (bs \cup {end}) \cup {end + n}, b # 4
         PROVE  \E c \in bs \cup {end} : c + Sz(m2, c) = b
    <2>1. CASE b = end + n
      BY <1>7, <2>1
    <2>2. CASE b \in bs \cup {end}
      <3>1. PICK c \in bs : c + Sz(m, c) = b
        BY <1>11, <2>2 DEF Tiled
      <3> QED
        BY <1>6, <3>1
    <2> QED
      BY <2>1, <2>2
  <1>12. Tiled(m2, bs \cup {end}, end + n)
    BY <1>9, <1>10, <1>11 DEF Tiled
  <1> QED
    BY <1>3, <1>4, <1>5, <1>6, <1>12 DEF ExtendedRight

\* place marks the block and splits off what is left when it is large enough.
LEMMA PlaceRight ==
    ASSUME NEW m \in [Word -> Value], NEW bs, NEW end \in 0 .. MaxHeap, Tiled(m, bs, end),
           NEW p \in bs, NEW asize \in Nat, asize >= 4, Even(asize), asize <= Sz(m, p),
           Place(m, bs, p, asize)
    PROVE  /\ mem' \in [Word -> Value]
           /\ Tiled(mem', blocks', end)
           /\ bs \subseteq blocks'
           /\ \A b \in blocks' \ bs : mem'[b - 1].alloc = 0
           /\ OnlyIn(m, mem', p, p + Sz(m, p))
           /\ mem'[p - 1].alloc = 1 /\ asize <= Sz(mem', p)
           /\ \A w \in p .. (p + asize - 3) : mem'[w] = m[w]
           /\ fit = "next" => last_fit_ptr' \in blocks' \cup {end}
  <1> DEFINE csize == Sz(m, p)
             rest  == csize - asize
             q     == p + csize
  <1>1. /\ p \in Nat /\ p >= 4 /\ csize \in Nat /\ q <= end /\ csize <= MaxHeap
        /\ q \in bs \cup {end} /\ Even(p) /\ Even(csize)
        /\ \A c \in bs : c \notin (p + 1) .. (q - 1)
    <2>1. p \in Nat /\ p >= 4 /\ csize \in Nat /\ q <= end /\ csize <= MaxHeap
      BY Shape
    <2>2. q \in bs \cup {end} /\ Even(p) /\ Even(csize)
      BY Shape
    <2>3. \A c \in bs : c \in Nat /\ (c > p => c >= q)
      BY Shape
    <2> QED
      BY <2>1, <2>2, <2>3
  <1>2. Even(rest) /\ rest \in Nat
    <2>1. asize \in Int /\ csize \in Int /\ Even(asize) /\ Even(csize)
      BY <1>1
    <2>2. Even(rest)
      BY <2>1, Evens
    <2> QED
      BY <1>1, <2>2
  <1>3. m[HDRP(p)].size = csize
    BY DEF HDRP, WSIZE, Sz
  <1>4. CASE rest \notin 0 .. (2 * DSIZE - 1)
    <2> DEFINE m1 == PutTags(m, p, asize, 1)
               ns == {p, p + asize}
    <2>1. /\ mem' = PutFree(m1, p + asize, rest)
          /\ blocks' = bs \cup {p + asize}
          /\ SetLastFit(p + asize)
      BY <1>3, <1>4 DEF Place
    <2>2. rest >= 4
      BY <1>2, <1>4 DEF DSIZE
    <2>3. /\ m1 \in [Word -> Value]
          /\ m1[p - 1] = PACK(asize, 1) /\ m1[p + asize - 2] = PACK(asize, 1)
          /\ \A w \in Word : w # p - 1 /\ w # p + asize - 2 => m1[w] = m[w]
      <3>1. p + asize - 2 \in Word /\ asize \in 2 .. MaxHeap
        BY <1>1, <2>2, MaxNat DEF Word
      <3> QED
        BY <1>1, <3>1, PutTagsRight
    <2> HIDE DEF m1
    <2>4. /\ mem' \in [Word -> Value]
          /\ mem'[p + asize - 1] = PACK(rest, 0)
          /\ mem'[q - 2] = PACK(rest, 0)
          /\ OnlyIn(m1, mem', p + asize, q)
      <3>1. p + asize + rest = q /\ q - 2 \in Word /\ rest \in 2 .. MaxHeap
        BY <1>1, <2>2, MaxNat DEF Word
      <3> QED
        BY <1>1, <2>1, <2>3, <3>1, PutFreeRight
    <2>5. /\ mem'[p - 1] = PACK(asize, 1) /\ mem'[p + asize - 2] = PACK(asize, 1)
          /\ OnlyIn(m, mem', p, q)
          /\ \A w \in p .. (p + asize - 3) : mem'[w] = m[w]
      BY <1>1, <2>2, <2>3, <2>4, MaxNat DEF OnlyIn, Word
    <2>6. Sz(mem', p) = asize /\ Sz(mem', p + asize) = rest
      BY <1>1, <2>4, <2>5 DEF Sz, PACK
    <2>7. ns \in SUBSET (p .. (q - 1)) /\ p \in ns /\ p < q
      BY <1>1, <2>2
    <2>8. \A b \in ns :
              /\ Even(b) /\ Even(Sz(mem', b)) /\ Sz(mem', b) >= DSIZE
              /\ mem'[b - 1] \in Tag /\ mem'[b + Sz(mem', b) - DSIZE] = mem'[b - 1]
              /\ b + Sz(mem', b) \in ns \cup {q}
              /\ \A c \in ns : c > b => c >= b + Sz(mem', b)
      <3>1. PACK(asize, 1) \in Tag /\ PACK(rest, 0) \in Tag
        BY <1>1, <1>2, MaxNat DEF PACK, Tag
      <3>2. Even(p + asize)
        BY <1>1, Evens
      <3> QED
        BY <1>1, <1>2, <2>2, <2>4, <2>5, <2>6, <3>1, <3>2 DEF DSIZE
    <2>9. \A b \in ns \cup {q} : b # p => \E c \in ns : c + Sz(mem', c) = b
      BY <1>1, <2>6
    <2>10. blocks' = (bs \ (p .. (q - 1))) \cup ns
      BY <1>1, <2>1, <2>2, Shape
    <2>11. Tiled(mem', blocks', end)
      BY <1>1, <2>5, <2>7, <2>8, <2>9, <2>10, Recut
    <2>12. fit = "next" => last_fit_ptr' \in blocks' \cup {end}
      BY <2>1 DEF SetLastFit
    <2>13. /\ bs \subseteq blocks'
           /\ \A b \in blocks' \ bs : mem'[b - 1].alloc = 0
      <3>1. \A b \in blocks' \ bs : b - 1 = p + asize - 1
        BY <1>1, <2>1
      <3> QED
        BY <2>1, <2>4, <3>1 DEF PACK
    <2>14. mem'[p - 1].alloc = 1 /\ asize <= Sz(mem', p)
      BY <2>5, <2>6 DEF PACK
    <2> QED
      BY <2>4, <2>5, <2>11, <2>12, <2>13, <2>14
  <1>5. CASE rest \in 0 .. (2 * DSIZE - 1)
    <2>1. /\ mem' = PutTags(m, p, csize, 1)
          /\ blocks' = bs
          /\ SetLastFit(q)
      BY <1>3, <1>5 DEF Place
    <2>2. /\ mem' \in [Word -> Value]
          /\ mem'[p - 1] = PACK(csize, 1) /\ mem'[q - 2] = PACK(csize, 1)
          /\ \A w \in Word : w # p - 1 /\ w # q - 2 => mem'[w] = m[w]
      <3>1. q - 2 \in Word /\ csize \in 2 .. MaxHeap
        BY <1>1, MaxNat DEF Word
      <3> QED
        BY <1>1, <2>1, <3>1, PutTagsRight
    <2>3. /\ OnlyIn(m, mem', p, q)
          /\ \A w \in p .. (p + asize - 3) : mem'[w] = m[w]
      BY <1>1, <1>2, <2>2, MaxNat DEF OnlyIn, Word
    <2>4. Sz(mem', p) = csize
      BY <2>2 DEF Sz, PACK
    <2>5. Tiled(mem', (bs \ (p .. (q - 1))) \cup {p}, end)
      <3>1. mem'[p - 1] = PACK(q - p, 1) /\ mem'[q - 2] = PACK(q - p, 1) /\ p < q
        BY <1>1, <1>2, <2>2
      <3> QED
        BY <1>1, <2>3, <3>1, JoinRight
    <2>6. bs = (bs \ (p .. (q - 1))) \cup {p}
      BY <1>1, Shape
    <2>7. fit = "next" => last_fit_ptr' \in blocks' \cup {end}
      BY <1>1, <2>1 DEF SetLastFit
    <2>8. mem'[p - 1].alloc = 1 /\ asize <= Sz(mem', p)
      BY <1>1, <2>2, <2>4 DEF PACK
    <2>9. Tiled(mem', blocks', end)
      BY <2>1, <2>5, <2>6
    <2> QED
      BY <2>1, <2>2, <2>3, <2>7, <2>8, <2>9
  <1> QED
    BY <1>4, <1>5

\* The inductive invariant.
Inv == TypeCorrect /\ HeapRight /\ Clients /\ Searched /\ Progress

\* What the walks over the heap meet.
LEMMA Walk ==
    ASSUME HeapRight, TypeCorrect
    PROVE  /\ brk \in 5 .. MaxHeap /\ blocks \subseteq 4 .. (brk - 1) /\ 4 \in blocks
           /\ \A b \in blocks :
                 /\ b + Sz(mem, b) \in blocks \cup {brk}
                 /\ Sz(mem, b) \in 2 .. MaxHeap
                 /\ mem[b - 1].alloc \in {0, 1}
                 /\ \A c \in blocks : c > b <=> c >= b + Sz(mem, b)
           /\ Sz(mem, brk) = 0 /\ mem[brk - 1].alloc = 1
           /\ Sz(mem, heap_listp) = 2 /\ mem[heap_listp - 1].alloc = 1
  <1>1. Tiled(mem, blocks, brk) /\ Ends(mem) /\ brk \in 0 .. MaxHeap
    BY DEF HeapRight, TypeCorrect
  <1>2. blocks \subseteq 4 .. (brk - 1) /\ 4 \in blocks
    BY <1>1 DEF Tiled
  <1>3. brk \in 5 .. MaxHeap
    BY <1>1, <1>2, MaxNat
  <1>4. ASSUME NEW b \in blocks
        PROVE  /\ b + Sz(mem, b) \in blocks \cup {brk}
               /\ Sz(mem, b) \in 2 .. MaxHeap
               /\ mem[b - 1].alloc \in {0, 1}
               /\ \A c \in blocks : c > b <=> c >= b + Sz(mem, b)
    <2>1. /\ b + Sz(mem, b) \in blocks \cup {brk} /\ b \in Nat
          /\ Sz(mem, b) \in Nat /\ Sz(mem, b) >= 2 /\ Sz(mem, b) <= MaxHeap
          /\ mem[b - 1] \in Tag
          /\ \A c \in blocks : c > b => c >= b + Sz(mem, b)
      BY <1>1, <1>4, Shape
    <2>2. mem[b - 1].alloc \in {0, 1}
      BY <2>1 DEF Tag
    <2> QED
      BY <1>2, <2>1, <2>2
  <1>5. /\ Sz(mem, brk) = 0 /\ mem[brk - 1].alloc = 1
        /\ Sz(mem, heap_listp) = 2 /\ mem[heap_listp - 1].alloc = 1
    BY <1>1 DEF Ends, Sz, PACK, heap_listp, DSIZE
  <1> QED
    BY <1>2, <1>3, <1>4, <1>5

\* Fits, read as the proofs need it.
LEMMA FitsRight ==
    \A b : Fits(b) <=> mem[b - 1].alloc # 1 /\ Asize(call.size) <= Sz(mem, b)
  BY DEF Fits, GET_ALLOC, GET_SIZE, HDRP, WSIZE, Sz

\* mm_malloc, up to its call of find_fit.
LEMMA StartSearchKeeps ==
    ASSUME Inv, NEW i \in Id, NEW n \in Size, pc = "idle", StartSearch(i, n)
    PROVE  Inv'
  <1>1. TypeCorrect'
    BY SizeAssumption DEF Inv, TypeCorrect, StartSearch, heap, client
  <1>2. HeapRight'
    BY DEF Inv, StartSearch, heap, HeapRight, Ends
  <1>3. Clients'
    BY DEF Inv, StartSearch, heap, client, Clients, At, Asked, Granted, InUse
  <1>4. Searched'
    BY Walk DEF Inv, StartSearch, heap, Searched, heap_listp
  <1>5. Progress'
    BY DEF Inv, StartSearch, Progress, Granted
  <1> QED
    BY <1>1, <1>2, <1>3, <1>4, <1>5 DEF Inv

\* A step that only looks.
LEMMA LookingKeeps ==
    ASSUME Inv, UNCHANGED <<fit, mem, brk, epilogue, blocks, call, res, client>>,
           pc # "idle", ~(pc = "coalesce" /\ after = "idle") \/ pc' = "idle",
           pc' \in {"idle", "search", "wrap", "extend", "place", "grow", "return"},
           pc # "copy", Granted' = Granted
    PROVE  TypeCorrect' /\ HeapRight' /\ Clients'
  <1>1. TypeCorrect'
    BY DEF Inv, TypeCorrect, client
  <1>2. HeapRight'
    BY DEF Inv, HeapRight, Ends
  <1>3. Clients'
    <2>1. \A i \in Id : At(i)' = At(i) /\ Asked(i)' = Asked(i)
      BY DEF At, Asked, client
    <2>2. InUse' = InUse
      BY <2>1 DEF InUse
    <2> QED
      BY <2>1, <2>2 DEF Inv, Clients
  <1> QED
    BY <1>1, <1>2, <1>3

\* What is known of the blocks behind the cursor goes on to the next one.
LEMMA Passed ==
    ASSUME HeapRight, TypeCorrect, ptr \in blocks \cup {heap_listp}
    PROVE  /\ NEXT_BLKP(ptr) \in blocks \cup {brk}
           /\ NEXT_BLKP(ptr) > ptr
           /\ \A b \in blocks : b < NEXT_BLKP(ptr) => b < ptr \/ b = ptr
  <1>1. NEXT_BLKP(ptr) = ptr + Sz(mem, ptr)
    BY DEF NEXT_BLKP, GET_SIZE, HDRP, WSIZE, Sz
  <1> QED
    BY <1>1, Walk DEF heap_listp

\* The loop has not reached the epilogue, or it has.
LEMMA AtEndRight ==
    ASSUME HeapRight, TypeCorrect, ptr \in blocks \cup {heap_listp, brk}
    PROVE  AtEnd <=> ptr = brk
  <1>1. AtEnd <=> Sz(mem, ptr) = 0
    BY DEF AtEnd, GET_SIZE, HDRP, WSIZE, Sz
  <1> QED
    BY <1>1, Walk DEF heap_listp

\* first_fit and next_fit pass a block that does not fit.
LEMMA SearchNextKeeps ==
    ASSUME Inv, SearchNext
    PROVE  Inv'
  <1>1. TypeCorrect' /\ HeapRight' /\ Clients'
    BY LookingKeeps DEF SearchNext, heap, Granted
  <1>2. ptr \in blocks \cup {heap_listp} /\ ~Fits(ptr)
    BY AtEndRight DEF Inv, Searched, SearchNext
  <1>3. /\ ptr' \in blocks \cup {brk} /\ ptr' > ptr
        /\ \A b \in blocks : b < ptr' => b < ptr \/ b = ptr
    BY <1>2, Passed DEF Inv, SearchNext
  <1>4. \A b : Fits(b)' <=> Fits(b)
    BY DEF SearchNext, heap, Fits, GET_ALLOC, GET_SIZE
  <1>5. ptr \in Int /\ ptr' \in Int /\ (fit = "next" => last_fit_ptr \in Int)
    BY <1>2, <1>3, Walk DEF Inv, Searched, heap_listp
  <1>6. Searched'
    BY <1>2, <1>3, <1>4, <1>5 DEF Inv, Searched, SearchNext, heap
  <1>7. Progress'
    BY DEF Progress, SearchNext, Granted
  <1> QED
    BY <1>1, <1>6, <1>7 DEF Inv

\* next_fit, from the front of the heap, passes a block that does not fit.
LEMMA WrapNextKeeps ==
    ASSUME Inv, WrapNext
    PROVE  Inv'
  <1>1. TypeCorrect' /\ HeapRight' /\ Clients'
    BY LookingKeeps DEF WrapNext, heap, Granted
  <1>2. ptr \in blocks \cup {heap_listp} /\ ~Fits(ptr)
    BY Walk DEF Inv, Searched, WrapNext, heap_listp
  <1>3. /\ ptr' \in blocks \cup {brk} /\ ptr' > ptr
        /\ \A b \in blocks : b < ptr' => b < ptr \/ b = ptr
    BY <1>2, Passed DEF Inv, WrapNext
  <1>4. \A b : Fits(b)' <=> Fits(b)
    BY DEF WrapNext, heap, Fits, GET_ALLOC, GET_SIZE
  <1>5. Searched'
    BY <1>2, <1>3, <1>4 DEF Inv, Searched, WrapNext, heap
  <1>6. Progress'
    BY DEF Progress, WrapNext, Granted
  <1> QED
    BY <1>1, <1>5, <1>6 DEF Inv

\* best_fit looks at one block, and keeps the smallest that fits.
LEMMA SearchBestKeeps ==
    ASSUME Inv, SearchBest
    PROVE  Inv'
  <1>1. TypeCorrect' /\ HeapRight' /\ Clients'
    BY LookingKeeps DEF SearchBest, heap, Granted
  <1>2. ptr \in blocks \cup {heap_listp}
    BY AtEndRight DEF Inv, Searched, SearchBest
  <1>3. /\ ptr' \in blocks \cup {brk} /\ ptr' > ptr
        /\ \A b \in blocks : b < ptr' => b < ptr \/ b = ptr
    BY <1>2, Passed DEF Inv, SearchBest
  <1>4. \A b : Fits(b)' <=> Fits(b)
    BY DEF SearchBest, heap, Fits, GET_ALLOC, GET_SIZE
  <1>5. ~Fits(heap_listp)
    BY Walk, FitsRight DEF Inv
  <1>6. /\ ptr \in Nat /\ ptr' \in Nat /\ blocks \subseteq Nat
        /\ \A b \in blocks : Sz(mem, b) \in Nat
    BY <1>2, <1>3, Walk DEF Inv, heap_listp
  <1>7. /\ Fits(ptr) /\ (best_ptr # NULL => Sz(mem, ptr) < Sz(mem, best_ptr)) =>
              best_ptr' = ptr
        /\ ~(Fits(ptr) /\ (best_ptr # NULL => Sz(mem, ptr) < Sz(mem, best_ptr))) =>
              best_ptr' = best_ptr
        /\ UNCHANGED <<fit, mem, blocks, brk, pc, last_fit_ptr>> /\ pc = "search" /\ fit = "best"
    BY DEF SearchBest, GET_SIZE, HDRP, WSIZE, Sz, heap
  <1>8. IF best_ptr' = NULL THEN \A b \in blocks : b < ptr' => ~Fits(b)
        ELSE /\ best_ptr' \in blocks /\ Fits(best_ptr') /\ best_ptr' < ptr'
             /\ \A b \in blocks : b < ptr' /\ Fits(b) =>
                   \/ Sz(mem, best_ptr') < Sz(mem, b)
                   \/ Sz(mem, best_ptr') = Sz(mem, b) /\ best_ptr' <= b
    <2>1. CASE ~Fits(ptr)
      <3>1. best_ptr' = best_ptr
        BY <1>7, <2>1
      <3>2. best_ptr # NULL => best_ptr \in blocks /\ best_ptr < ptr
        BY <1>7 DEF Inv, Searched
      <3>3. \A b \in blocks : b < ptr' /\ Fits(b) => b < ptr
        BY <1>3, <2>1
      <3>4. ASSUME best_ptr # NULL PROVE best_ptr < ptr'
        <4>1. best_ptr \in Nat
          BY <1>6, <3>2, <3>4
        <4>2. best_ptr < ptr /\ ptr < ptr'
          BY <1>3, <3>2, <3>4
        <4> QED
          BY <1>6, <4>1, <4>2
      <3> QED
        BY <1>7, <3>1, <3>2, <3>3, <3>4 DEF Inv, Searched
    <2>2. CASE Fits(ptr) /\ best_ptr = NULL
      <3>1. best_ptr' = ptr /\ ptr \in blocks /\ ptr # NULL
        BY <1>2, <1>5, <1>6, <1>7, <2>2, NullAssumption
      <3> QED
        BY <1>3, <1>6, <1>7, <2>2, <3>1 DEF Inv, Searched
    <2>3. CASE Fits(ptr) /\ best_ptr # NULL
      <3>1. /\ ptr \in blocks /\ ptr # NULL
            /\ best_ptr \in blocks /\ Fits(best_ptr) /\ best_ptr < ptr
            /\ \A b \in blocks : b < ptr /\ Fits(b) =>
                  \/ Sz(mem, best_ptr) < Sz(mem, b)
                  \/ Sz(mem, best_ptr) = Sz(mem, b) /\ best_ptr <= b
        BY <1>2, <1>5, <1>6, <1>7, <2>3, NullAssumption DEF Inv, Searched
      <3>2. CASE Sz(mem, ptr) < Sz(mem, best_ptr)
        BY <1>3, <1>6, <1>7, <2>3, <3>1, <3>2
      <3>3. CASE ~(Sz(mem, ptr) < Sz(mem, best_ptr))
        BY <1>3, <1>6, <1>7, <2>3, <3>1, <3>3
      <3> QED
        BY <3>2, <3>3
    <2> QED
      BY <2>1, <2>2, <2>3
  <1>9. Searched'
    BY <1>3, <1>4, <1>7, <1>8 DEF Searched
  <1>10. Progress'
    BY DEF Progress, SearchBest, Granted
  <1> QED
    BY <1>1, <1>9, <1>10 DEF Inv

\* A search that ends: with a block, or to look elsewhere or extend the heap.
LEMMA SearchHitKeeps ==
    ASSUME Inv, SearchHit \/ WrapHit
    PROVE  Inv'
  <1>1. TypeCorrect' /\ HeapRight' /\ Clients'
    BY LookingKeeps DEF SearchHit, WrapHit, Granted
  <1>2. ptr \in blocks /\ Fits(ptr)
    BY Walk, FitsRight DEF Inv, Searched, SearchHit, WrapHit
  <1>3. Fits(ptr)' /\ ptr' \in blocks' /\ pc' = "place"
    BY <1>2 DEF SearchHit, WrapHit, Fits, GET_ALLOC, GET_SIZE
  <1>4. Searched'
    BY <1>2, <1>3 DEF Inv, Searched, SearchHit, WrapHit, SetLastFit
  <1>5. Progress'
    BY <1>3 DEF Progress, Granted
  <1> QED
    BY <1>1, <1>4, <1>5 DEF Inv

\* A search that has reached the epilogue.
LEMMA SearchEndKeeps ==
    ASSUME Inv, SearchEnd
    PROVE  Inv'
  <1>1. TypeCorrect' /\ HeapRight' /\ Clients'
    BY LookingKeeps DEF SearchEnd, heap, Granted
  <1>2. ptr = brk
    BY AtEndRight DEF Inv, Searched, SearchEnd
  <1>3. \A b : Fits(b)' <=> Fits(b)
    BY DEF SearchEnd, heap, Fits, GET_ALLOC, GET_SIZE
  <1>4. \A b \in blocks : b \in Nat /\ b >= 4 /\ b < brk
    BY Walk DEF Inv
  <1>5. Searched'
    BY <1>2, <1>3, <1>4 DEF Inv, Searched, SearchEnd, heap, heap_listp
  <1>6. Progress'
    BY <1>3 DEF Inv, Searched, Progress, SearchEnd, heap, Granted
  <1> QED
    BY <1>1, <1>5, <1>6 DEF Inv

\* next_fit has come round to where it began.
LEMMA WrapEndKeeps ==
    ASSUME Inv, WrapEnd
    PROVE  Inv'
  <1>1. TypeCorrect' /\ HeapRight' /\ Clients'
    BY LookingKeeps DEF WrapEnd, heap, Granted
  <1>2. \A b : Fits(b)' <=> Fits(b)
    BY DEF WrapEnd, heap, Fits, GET_ALLOC, GET_SIZE
  <1>3. \A b \in blocks : b \in Nat
    BY Walk DEF Inv
  <1>4. ptr \in Nat /\ last_fit_ptr \in Nat /\ fit = "next"
    BY Walk DEF Inv, Searched, WrapEnd, heap_listp
  <1>5. Searched'
    BY <1>2, <1>3, <1>4 DEF Inv, Searched, WrapEnd, heap
  <1>6. Progress'
    BY DEF Progress, WrapEnd, Granted
  <1> QED
    BY <1>1, <1>5, <1>6 DEF Inv

\* mem_sbrk has no room: mm_malloc returns NULL.
LEMMA MallocFailsKeeps ==
    ASSUME Inv, MallocFails
    PROVE  Inv'
  <1>1. TypeCorrect' /\ HeapRight' /\ Clients'
    BY LookingKeeps DEF MallocFails, heap, Granted
  <1>2. Searched' /\ Progress'
    BY DEF Inv, Searched, MallocFails, Progress, heap, Granted
  <1> QED
    BY <1>1, <1>2 DEF Inv

\* The block before q.
LEMMA Before ==
    ASSUME HeapRight, TypeCorrect, NEW q \in blocks \cup {brk},
           NEW c \in blocks, c + Sz(mem, c) = q
    PROVE  mem[q - 2] = mem[c - 1] /\ q - mem[q - 2].size = c
  <1>1. Tiled(mem, blocks, brk) /\ brk \in 0 .. MaxHeap
    BY DEF HeapRight, TypeCorrect
  <1>2. c \in Nat /\ Sz(mem, c) \in Nat /\ mem[c + Sz(mem, c) - 2] = mem[c - 1]
    BY <1>1, Shape
  <1>3. q - 2 = c + Sz(mem, c) - 2 /\ q - Sz(mem, c) = c
    BY <1>2
  <1>4. mem[q - 2] = mem[c - 1]
    BY <1>2, <1>3
  <1> QED
    BY <1>3, <1>4 DEF Sz

\* What coalesce reads of the neighbours in the tags is what the heap holds there.
LEMMA Neighbours ==
    ASSUME HeapRight, TypeCorrect, ptr \in blocks
    PROVE  /\ NEXT_BLKP(ptr) = ptr + Sz(mem, ptr)
           /\ NextAlloc <=> mem[ptr + Sz(mem, ptr) - 1].alloc = 1
           /\ ptr = 4 => PrevAlloc
           /\ \A c \in blocks : c + Sz(mem, c) = ptr =>
                 PREV_BLKP(ptr) = c /\ (PrevAlloc <=> mem[c - 1].alloc = 1)
  <1>1. NEXT_BLKP(ptr) = ptr + Sz(mem, ptr)
    BY DEF NEXT_BLKP, GET_SIZE, HDRP, WSIZE, Sz
  <1>2. NextAlloc <=> mem[ptr + Sz(mem, ptr) - 1].alloc = 1
    <2>1. ptr \in Int /\ Sz(mem, ptr) \in Int
      BY Walk
    <2> QED
      BY <2>1 DEF NextAlloc, GET_ALLOC, NEXT_BLKP, GET_SIZE, HDRP, WSIZE, Sz
  <1>3. ptr = 4 => PrevAlloc
    <2>1. mem[1] = PACK(2, 1) /\ mem[2] = PACK(2, 1)
      BY DEF HeapRight, Ends, DSIZE
    <2>2. ptr = 4 => PREV_BLKP(ptr) = 2
      BY <2>1 DEF PREV_BLKP, GET_SIZE, DSIZE, PACK
    <2>3. FTRP(2) = 2
      BY <2>1 DEF FTRP, GET_SIZE, HDRP, WSIZE, DSIZE, PACK
    <2> QED
      BY <2>1, <2>2, <2>3 DEF PrevAlloc, GET_ALLOC, PACK
  <1>4. ASSUME NEW c \in blocks, c + Sz(mem, c) = ptr
        PROVE  PREV_BLKP(ptr) = c /\ (PrevAlloc <=> mem[c - 1].alloc = 1)
    <2>1. mem[ptr - 2] = mem[c - 1] /\ ptr - mem[ptr - 2].size = c
      BY <1>4, Before
    <2>2. PREV_BLKP(ptr) = c
      BY <2>1 DEF PREV_BLKP, GET_SIZE, DSIZE
    <2>3. FTRP(c) = c + Sz(mem, c) - 2
      BY DEF FTRP, GET_SIZE, HDRP, WSIZE, DSIZE, Sz
    <2>4. FTRP(c) = ptr - 2
      <3>1. c \in Nat /\ Sz(mem, c) \in Nat /\ ptr \in Nat
        BY <1>4, Walk
      <3> QED
        BY <1>4, <2>3, <3>1
    <2> QED
      BY <2>1, <2>2, <2>4 DEF PrevAlloc, GET_ALLOC
  <1> QED
    BY <1>1, <1>2, <1>3, <1>4

\* coalesce finds both neighbours allocated.
LEMMA CoalesceDoneKeeps ==
    ASSUME Inv, CoalesceDone
    PROVE  Inv'
  <1>1. ptr \in blocks /\ mem[ptr - 1].alloc = 0 /\ after \in {"idle", "place", "grow", "return"}
    BY DEF Inv, Progress, CoalesceDone
  <1>2. TypeCorrect' /\ HeapRight' /\ Clients'
    BY <1>1, LookingKeeps DEF CoalesceDone, Granted
  <1>3. Searched'
    BY <1>1 DEF Inv, Searched, CoalesceDone, SetLastFit
  <1>4. after = "place" => Fits(ptr)
    BY <1>1, Neighbours, FitsRight DEF Inv, Progress, Enough, CoalesceDone
  <1>5. Fits(ptr)' <=> Fits(ptr)
    BY DEF CoalesceDone, Fits, GET_ALLOC, GET_SIZE
  <1>6. Progress'
    BY <1>1, <1>4, <1>5 DEF Inv, Progress, Enough, Grows, CoalesceDone, Granted, client
  <1> QED
    BY <1>2, <1>3, <1>6 DEF Inv

\* What a block in use holds is left as it is.
Preserved ==
    \A b \in blocks : mem[b - 1].alloc = 1 =>
       \A w \in b .. (b + Sz(mem, b) - 3) : mem'[w] = mem[w]

\* What a step may do to the heap without disturbing the caller's blocks.
LEMMA ClientsKept ==
    ASSUME Inv, \A i \in Id : At(i)' = At(i) /\ Asked(i)' = Asked(i), InUse' = InUse,
           \A b \in blocks : mem[b - 1].alloc = 1 => b \in blocks' /\ mem'[b - 1] = mem[b - 1],
           \A b \in blocks' : mem'[b - 1].alloc = 1 => b \in blocks /\ mem[b - 1].alloc = 1
    PROVE  Clients'
  BY DEF Inv, Clients, Sz

\* coalesce joins a free block with its free neighbours, whichever they are.
LEMMA MergeRight ==
    ASSUME Inv, CoalesceMerge
    PROVE  \E first \in blocks, q \in blocks \cup {brk} :
              /\ first < q /\ ptr \in first .. (q - 1)
              /\ mem' \in [Word -> Value] /\ OnlyIn(mem, mem', first, q)
              /\ mem'[first - 1] = PACK(q - first, 0) /\ mem'[q - 2] = PACK(q - first, 0)
              /\ blocks' = (blocks \ (first .. (q - 1))) \cup {first}
              /\ ptr' = first /\ SetLastFit(first)
              /\ \A b \in blocks : b \in first .. (q - 1) => mem[b - 1].alloc = 0
              /\ Sz(mem, ptr) <= q - first
              /\ ~PrevAlloc => /\ first + Sz(mem, first) = ptr
                               /\ Sz(mem, first) + Sz(mem, ptr) <= q - first
  <1> DEFINE first == IF PrevAlloc THEN ptr ELSE PREV_BLKP(ptr)
             next  == ptr + Sz(mem, ptr)
             q     == IF NextAlloc THEN next ELSE next + Sz(mem, next)
  <1>1. ptr \in blocks /\ mem[ptr - 1].alloc = 0
    BY DEF Inv, Progress, CoalesceMerge
  <1>2. /\ brk \in 5 .. MaxHeap /\ blocks \subseteq 4 .. (brk - 1)
        /\ mem[brk - 1].alloc = 1
        /\ Tiled(mem, blocks, brk) /\ mem \in [Word -> Value] /\ brk \in 0 .. MaxHeap
    BY Walk DEF Inv, HeapRight, TypeCorrect
  <1>3. /\ NEXT_BLKP(ptr) = next /\ (NextAlloc <=> mem[next - 1].alloc = 1)
        /\ next \in blocks \cup {brk} /\ Sz(mem, ptr) \in 2 .. MaxHeap
        /\ \A c \in blocks : c > ptr <=> c >= next
    BY <1>1, Neighbours, Walk DEF Inv
  <1>4. ~NextAlloc => /\ next \in blocks /\ mem[next - 1].alloc = 0
                      /\ q \in blocks \cup {brk} /\ Sz(mem, next) \in 2 .. MaxHeap
                      /\ \A c \in blocks : c > next <=> c >= q
    BY <1>2, <1>3, Walk DEF Inv
  <1>0. ptr \in Nat /\ ptr >= 4 /\ next \in Nat /\ next > ptr
    BY <1>1, <1>2, <1>3
  <1>5. q \in blocks \cup {brk} /\ q \in Nat /\ q >= next
    <2>1. CASE NextAlloc
      BY <1>0, <1>3, <2>1
    <2>2. CASE ~NextAlloc
      <3>1. q = next + Sz(mem, next) /\ q \in blocks \cup {brk}
        BY <1>4, <2>2
      <3> QED
        BY <1>0, <1>2, <1>4, <2>2, <3>1
    <2> QED
      BY <2>1, <2>2
  <1>6. ~PrevAlloc => /\ first \in blocks /\ first + Sz(mem, first) = ptr
                      /\ mem[first - 1].alloc = 0 /\ Sz(mem, first) \in 2 .. MaxHeap
                      /\ \A c \in blocks : c > first <=> c >= ptr
    <2> SUFFICES ASSUME ~PrevAlloc
                 PROVE  /\ first \in blocks /\ first + Sz(mem, first) = ptr
                        /\ mem[first - 1].alloc = 0 /\ Sz(mem, first) \in 2 .. MaxHeap
                        /\ \A c \in blocks : c > first <=> c >= ptr
      OBVIOUS
    <2>1. ptr # 4
      BY <1>1, Neighbours DEF Inv
    <2>2. PICK c \in blocks : c + Sz(mem, c) = ptr
      BY <1>1, <1>2, <2>1 DEF Tiled
    <2>3. first = c /\ mem[c - 1].alloc # 1
      BY <1>1, <2>2, Neighbours DEF Inv
    <2> QED
      BY <2>2, <2>3, Walk DEF Inv
  <1> HIDE DEF q
  <1>7. /\ first \in blocks /\ first \in Nat /\ first >= 4 /\ first <= ptr /\ ptr < q
        /\ Sz(mem, ptr) <= q - first
    <2>1. first \in blocks /\ first \in Nat /\ first >= 4
      <3>1. first \in blocks
        BY <1>1, <1>6
      <3> HIDE DEF first
      <3> QED
        BY <1>2, <3>1
    <2>2. first <= ptr
      <3>1. PrevAlloc => first = ptr
        OBVIOUS
      <3>2. ~PrevAlloc => first + Sz(mem, first) = ptr /\ Sz(mem, first) \in Nat
        BY <1>6
      <3> HIDE DEF first
      <3> QED
        BY <1>0, <2>1, <3>1, <3>2
    <2>3. ptr < q /\ Sz(mem, ptr) <= q - ptr
      BY <1>0, <1>3, <1>5
    <2> HIDE DEF first
    <2> QED
      BY <1>0, <1>3, <1>5, <2>1, <2>2, <2>3
  <1>8. \A b \in blocks : b \in first .. (q - 1) =>
           b \in {first, ptr} \/ (~NextAlloc /\ b = next)
    <2> SUFFICES ASSUME NEW b \in blocks, b \in first .. (q - 1), b # first, b # ptr
                 PROVE  ~NextAlloc /\ b = next
      OBVIOUS
    <2>1. b \in Nat /\ b > ptr
      BY <1>1, <1>2, <1>6, <1>7
    <2>2. b >= next /\ b < q
      BY <1>3, <1>5, <1>7, <2>1
    <2>3. ~NextAlloc
      <3>1. NextAlloc => q = next
        BY DEF q
      <3> QED
        BY <1>0, <2>1, <2>2, <3>1
    <2>4. ~(b > next)
      BY <1>4, <1>5, <2>1, <2>2, <2>3
    <2> QED
      BY <1>0, <2>1, <2>2, <2>3, <2>4
  <1>9. /\ mem' = PutFree(mem, first, q - first)
        /\ ptr' = first /\ SetLastFit(first)
        /\ blocks' = (blocks \ {ptr, IF NextAlloc THEN ptr ELSE next}) \cup {first}
    <2> DEFINE size == GET_SIZE(HDRP(ptr))
                         + (IF PrevAlloc THEN 0 ELSE GET_SIZE(HDRP(PREV_BLKP(ptr))))
                         + (IF NextAlloc THEN 0 ELSE GET_SIZE(HDRP(NEXT_BLKP(ptr))))
    <2> DEFINE before == IF PrevAlloc THEN 0 ELSE Sz(mem, PREV_BLKP(ptr))
               behind == IF NextAlloc THEN 0 ELSE Sz(mem, next)
    <2>3. size = Sz(mem, ptr) + before + behind
      <3>1. NEXT_BLKP(ptr) = next
        BY <1>3
      <3> QED
        BY <3>1 DEF GET_SIZE, HDRP, WSIZE, Sz
    <2>4. before \in Nat /\ ptr - first = before
      <3>1. CASE PrevAlloc
        BY <1>0, <3>1
      <3>2. CASE ~PrevAlloc
        <4>1. first = PREV_BLKP(ptr) /\ before = Sz(mem, first)
          BY <3>2
        <4> HIDE DEF first, before
        <4> QED
          BY <1>0, <1>6, <1>7, <3>2, <4>1
      <3> QED
        BY <3>1, <3>2
    <2>5. behind \in Nat /\ q = next + behind
      BY <1>0, <1>4 DEF q
    <2>6. Sz(mem, ptr) \in Nat
      BY <1>3
    <2>1. size = q - first
      <3> HIDE DEF size, before, behind, first, q
      <3> QED
        BY <1>0, <1>5, <1>7, <2>3, <2>4, <2>5, <2>6
    <2>2. /\ mem' = PutFree(mem, first, size)
          /\ ptr' = first /\ SetLastFit(first)
          /\ blocks' = (blocks \ {ptr, IF NextAlloc THEN ptr ELSE NEXT_BLKP(ptr)}) \cup {first}
      BY DEF CoalesceMerge
    <2> QED
      BY <1>3, <2>1, <2>2
  <1>10. \A b \in {ptr, IF NextAlloc THEN ptr ELSE next} : b \in first .. (q - 1)
    <2>1. ptr \in first .. (q - 1)
      <3> HIDE DEF first
      <3> QED
        BY <1>0, <1>5, <1>7
    <2>2. ~NextAlloc => next \in first .. (q - 1)
      <3>1. ~NextAlloc => q = next + Sz(mem, next) /\ Sz(mem, next) \in Nat /\ Sz(mem, next) >= 2
        BY <1>4 DEF q
      <3> HIDE DEF first, next
      <3> QED
        BY <1>0, <1>5, <1>7, <3>1
    <2> QED
      BY <2>1, <2>2
  <1>11. blocks' = (blocks \ (first .. (q - 1))) \cup {first}
    BY <1>8, <1>9, <1>10
  <1>12. /\ mem' \in [Word -> Value] /\ OnlyIn(mem, mem', first, q)
         /\ mem'[first - 1] = PACK(q - first, 0) /\ mem'[q - 2] = PACK(q - first, 0)
    <2>1. /\ first + (q - first) = q /\ q - first \in 2 .. MaxHeap /\ q - 2 \in Word
          /\ first + (q - first) - 2 = q - 2
      <3>1. q <= brk /\ brk \in Nat /\ brk <= MaxHeap /\ Sz(mem, ptr) \in Nat /\ Sz(mem, ptr) >= 2
        BY <1>2, <1>3, <1>5
      <3> HIDE DEF first
      <3> QED
        BY <1>0, <1>5, <1>7, <3>1, MaxNat DEF Word
    <2> QED
      BY <1>2, <1>7, <1>9, <2>1, PutFreeRight
  <1>13. \A b \in blocks : b \in first .. (q - 1) => mem[b - 1].alloc = 0
    BY <1>1, <1>4, <1>6, <1>8
  <1>14. ~PrevAlloc => /\ first + Sz(mem, first) = ptr
                       /\ Sz(mem, first) + Sz(mem, ptr) <= q - first
    BY <1>1, <1>2, <1>3, <1>5, <1>6, <1>7
  <1>15. first < q /\ ptr \in first .. (q - 1)
    <2> HIDE DEF first
    <2> QED
      BY <1>0, <1>5, <1>7
  <1> HIDE DEF first, next
  <1> QED
    BY <1>5, <1>7, <1>9, <1>11, <1>12, <1>13, <1>14, <1>15

\* coalesce keeps the invariant, and the blocks of the caller with what they hold.
LEMMA CoalesceMergeKeeps ==
    ASSUME Inv, CoalesceMerge
    PROVE  Inv' /\ Preserved
  <1>1. PICK first \in blocks, q \in blocks \cup {brk} :
              /\ first < q /\ ptr \in first .. (q - 1)
              /\ mem' \in [Word -> Value] /\ OnlyIn(mem, mem', first, q)
              /\ mem'[first - 1] = PACK(q - first, 0) /\ mem'[q - 2] = PACK(q - first, 0)
              /\ blocks' = (blocks \ (first .. (q - 1))) \cup {first}
              /\ ptr' = first /\ SetLastFit(first)
              /\ \A b \in blocks : b \in first .. (q - 1) => mem[b - 1].alloc = 0
              /\ Sz(mem, ptr) <= q - first
              /\ ~PrevAlloc => /\ first + Sz(mem, first) = ptr
                               /\ Sz(mem, first) + Sz(mem, ptr) <= q - first
    BY MergeRight
  <1>2. UNCHANGED <<fit, brk, epilogue, pc, after, call, res, client>> /\ pc = "coalesce"
    BY DEF CoalesceMerge
  <1>3. Tiled(mem, blocks, brk) /\ Ends(mem) /\ brk \in 5 .. MaxHeap /\ brk \in 0 .. MaxHeap
    BY Walk DEF Inv, HeapRight, TypeCorrect
  <1>4. TypeCorrect'
    BY <1>1, <1>2 DEF Inv, TypeCorrect, client
  <1>5. Tiled(mem', blocks', brk)
    BY <1>1, <1>3, JoinRight
  <1>6. Ends(mem)'
    <2>1. first \in Nat /\ first >= 4 /\ q \in Nat /\ q <= brk
      BY <1>3, Shape
    <2>2. \A w \in {1, 2, brk - 1} : w \in Word /\ w \notin (first - 1) .. (q - 2)
      BY <1>3, <2>1, MaxNat DEF Word
    <2> QED
      BY <1>1, <1>2, <1>3, <2>2 DEF Ends, OnlyIn
  <1>7. \A i \in Id : At(i)' = At(i) /\ Asked(i)' = Asked(i)
    BY <1>2 DEF At, Asked, Granted, client
  <1>8. mem'[first - 1].alloc = 0 /\ Sz(mem', first) = q - first
    BY <1>1 DEF PACK, Sz
  <1>9. /\ \A b \in blocks : mem[b - 1].alloc = 1 => b \in blocks' /\ mem'[b - 1] = mem[b - 1]
        /\ \A b \in blocks' : mem'[b - 1].alloc = 1 => b \in blocks /\ mem[b - 1].alloc = 1
    <2>1. \A b \in blocks : b \notin first .. (q - 1) => mem'[b - 1] = mem[b - 1]
      BY <1>1, <1>3, Untouched
    <2> QED
      BY <1>1, <1>8, <2>1
  <1>10. Clients'
    <2>1. InUse' = InUse
      BY <1>2, <1>7 DEF InUse
    <2> QED
      BY <1>7, <1>9, <2>1, ClientsKept
  <1>11. Searched'
    BY <1>1, <1>2 DEF Inv, Searched, SetLastFit
  <1>12. ~Grows \/ after # "grow"
    <2> SUFFICES ASSUME Grows, after = "grow" PROVE FALSE
      OBVIOUS
    <2> DEFINE p == block[call.id]
    <2>1. call.id \in Id /\ At(call.id) = p /\ p # NULL
      BY <1>2 DEF Inv, TypeCorrect, At, Granted, Grows
    <2>2. p \in blocks /\ mem[p - 1].alloc = 1
      BY <2>1 DEF Inv, Clients
    <2>3. ptr \in blocks /\ p + Sz(mem, p) = ptr /\ ptr + Sz(mem, ptr) = brk
      BY <1>2 DEF Inv, Progress, Grows
    <2>4. PrevAlloc /\ NextAlloc
      BY <2>2, <2>3, Neighbours, Walk DEF Inv
    <2> QED
      BY <2>4 DEF CoalesceMerge
  <1>13. after = "place" => Asize(call.size) <= Sz(mem', first)
    <2> SUFFICES ASSUME after = "place" PROVE Asize(call.size) <= q - first
      BY <1>8
    <2>1. call.size \in Size /\ ptr \in blocks
      BY <1>2 DEF Inv, TypeCorrect, Progress
    <2>2. Asize(call.size) \in Nat
      BY <2>1, AsizeRight, SizeAssumption
    <2>3. first \in Nat /\ q \in Nat /\ Sz(mem, ptr) \in Nat /\ ptr \in Nat
      BY <1>3, <2>1, Shape
    <2>4. CASE Asize(call.size) <= Sz(mem, ptr)
      BY <1>1, <2>2, <2>3, <2>4
    <2>5. CASE \E c \in blocks : /\ c + Sz(mem, c) = ptr /\ mem[c - 1].alloc = 0
                                 /\ Asize(call.size) <= Sz(mem, c) + Sz(mem, ptr)
      <3>1. PICK c \in blocks : /\ c + Sz(mem, c) = ptr /\ mem[c - 1].alloc = 0
                                /\ Asize(call.size) <= Sz(mem, c) + Sz(mem, ptr)
        BY <2>5
      <3>2. ~PrevAlloc
        BY <2>1, <3>1, Neighbours DEF Inv
      <3>3. c = first
        <4>1. first + Sz(mem, first) = ptr
          BY <1>1, <3>2
        <4> QED
          BY <2>1, <3>1, <4>1, Neighbours DEF Inv
      <3>4. Sz(mem, c) \in Nat
        BY <1>3, Shape
      <3> QED
        BY <1>1, <2>2, <2>3, <3>1, <3>2, <3>3, <3>4
    <2> QED
      BY <1>2, <2>4, <2>5 DEF Inv, Progress, Enough
  <1>14. Granted => res \in blocks'
    BY <1>2, <1>9, NullAssumption, Walk DEF Inv, Progress, Clients, TypeCorrect, At, Granted
  <1>15. Progress'
    <2>1. ptr' \in blocks' /\ mem'[ptr' - 1].alloc = 0
      BY <1>1, <1>8
    <2>2. after = "place" => Enough'
      BY <1>1, <1>2, <1>13 DEF Enough
    <2>3. after # "grow"
      BY <1>2, <1>12 DEF Inv, Progress
    <2>4. Granted' = Granted
      BY <1>2 DEF Granted
    <2> QED
      BY <1>2, <1>14, <2>1, <2>2, <2>3, <2>4 DEF Inv, Progress
  <1>16. HeapRight'
    BY <1>2, <1>5, <1>6 DEF HeapRight
  <1>17. Preserved
    <2>1. \A b \in blocks : b \notin first .. (q - 1) =>
             \A w \in b .. (b + Sz(mem, b) - 3) : mem'[w] = mem[w]
      BY <1>1, <1>3, Untouched
    <2> QED
      BY <1>1, <2>1 DEF Preserved
  <1> QED
    BY <1>4, <1>10, <1>11, <1>15, <1>16, <1>17 DEF Inv

\* What is left to ask for when c is the last block.
LEMMA LastFree ==
    ASSUME HeapRight, TypeCorrect, NEW c \in blocks, c + Sz(mem, c) = brk
    PROVE  \A n : LessLastFree(n) = IF mem[c - 1].alloc = 1 THEN n ELSE n - Sz(mem, c)
  <1>1. mem[brk - 2] = mem[c - 1] /\ brk - mem[brk - 2].size = c
    BY Before
  <1>2. c \in Nat /\ Sz(mem, c) \in Nat /\ brk \in Nat /\ epilogue = brk - 1
    BY Walk DEF HeapRight, Ends
  <1>3. epilogue - WSIZE = brk - 2
    BY <1>2 DEF WSIZE
  <1>4. mem[brk - 2].size = Sz(mem, c)
    BY <1>1 DEF Sz
  <1>5. HEADER_TO_PREV(epilogue) = c
    <2>1. HEADER_TO_PREV(epilogue) = epilogue - Sz(mem, c) + 1
      BY <1>3, <1>4 DEF HEADER_TO_PREV, GET_SIZE, WSIZE
    <2> QED
      BY <1>2, <2>1
  <1> QED
    BY <1>5 DEF LessLastFree, GET_ALLOC, GET_SIZE, HDRP, WSIZE, Sz

\* extend_heap, up to its call of coalesce.
LEMMA ExtendHeapRight ==
    ASSUME Inv, NEW n \in Nat, n >= 2, Even(n), CanExtend(n),
           NEW then \in {"place", "grow"}, ExtendHeap(n, then),
           UNCHANGED <<fit, res, client>>, pc \in {"idle", "extend"},
           call' \in [id : Id \cup {NULL}, size : Nat], call'.id \in Id, call'.size \in Size
    PROVE  /\ TypeCorrect' /\ HeapRight' /\ Clients' /\ Searched'
           /\ ptr' = brk /\ brk \in blocks' /\ brk' = brk + n
           /\ mem'[brk - 1].alloc = 0 /\ Sz(mem', brk) = n
           /\ \A b \in blocks : /\ b \in blocks' /\ mem'[b - 1] = mem[b - 1]
                                /\ Sz(mem', b) = Sz(mem, b)
           /\ Preserved
  <1>1. /\ brk \in 4 .. MaxHeap /\ brk \in 0 .. MaxHeap /\ brk \in Nat /\ Even(brk)
        /\ Tiled(mem, blocks, brk) /\ Ends(mem) /\ mem \in [Word -> Value]
        /\ brk + n <= MaxHeap
    BY Walk DEF Inv, HeapRight, TypeCorrect, CanExtend
  <1>2. /\ mem' = Extended(mem, brk, n)
        /\ brk' = brk + n /\ epilogue' = brk + n - 1
        /\ blocks' = blocks \cup {brk} /\ ptr' = brk
        /\ pc' = "coalesce" /\ after' = then /\ last_fit_ptr' = last_fit_ptr
    BY DEF ExtendHeap, Extended, WSIZE
  <1>3. /\ mem' \in [Word -> Value] /\ Tiled(mem', blocks', brk + n)
        /\ mem'[brk - 1] = PACK(n, 0) /\ mem'[brk + n - 1] = PACK(0, 1)
        /\ \A w \in Word : w < brk - 1 => mem'[w] = mem[w]
        /\ \A b \in blocks : mem'[b - 1] = mem[b - 1] /\ Sz(mem', b) = Sz(mem, b)
        /\ Preserved
    <2>1. ExtendedRight(mem, blocks, brk, n, mem')
      BY <1>1, <1>2, ExtendRight
    <2> QED
      BY <1>2, <2>1 DEF ExtendedRight, Preserved
  <1>4. Even(brk + n)
    BY <1>1, Evens
  <1>5. TypeCorrect'
    BY <1>1, <1>2, <1>3, <1>4 DEF Inv, TypeCorrect, client
  <1>6. HeapRight'
    <2>1. brk \in 5 .. MaxHeap /\ 1 \in Word /\ 2 \in Word
      BY Walk, MaxNat DEF Inv, Word
    <2>2. mem'[1] = PACK(DSIZE, 1) /\ mem'[2] = PACK(DSIZE, 1)
      BY <1>1, <1>3, <2>1 DEF Ends
    <2>3. brk' - 1 = brk + n - 1
      BY <1>1, <1>2
    <2>4. Ends(mem)'
      BY <1>2, <1>3, <2>2, <2>3 DEF Ends
    <2> QED
      BY <1>2, <1>3, <2>4 DEF HeapRight
  <1>7. mem'[brk - 1].alloc = 0 /\ Sz(mem', brk) = n
    BY <1>3 DEF PACK, Sz
  <1>8. Clients'
    <2>1. ~Granted /\ ~Granted' /\ pc # "copy" /\ pc' # "copy"
      BY <1>2 DEF Granted
    <2>2. \A i \in Id : At(i)' = At(i) /\ Asked(i)' = Asked(i)
      BY <2>1 DEF At, Asked, client
    <2>3. InUse' = InUse
      BY <2>1, <2>2 DEF InUse
    <2> QED
      BY <1>2, <1>3, <1>7, <2>2, <2>3, ClientsKept
  <1>9. Searched'
    BY <1>1, <1>2 DEF Inv, Searched
  <1> QED
    BY <1>2, <1>3, <1>5, <1>6, <1>7, <1>8, <1>9

\* Some block ends where the heap ends.
LEMMA LastBlock ==
    ASSUME HeapRight, TypeCorrect
    PROVE  \E c \in blocks : c + Sz(mem, c) = brk
  BY Walk DEF HeapRight, Tiled

\* mm_malloc's call of extend_heap.
LEMMA MallocExtendKeeps ==
    ASSUME Inv, MallocExtend
    PROVE  Inv' /\ Preserved
  <1> DEFINE n == ExtendSize
             asize == Asize(call.size)
  <1>1. PICK c \in blocks : c + Sz(mem, c) = brk
    BY LastBlock DEF Inv
  <1>2. /\ Sz(mem, c) \in Nat /\ Even(Sz(mem, c)) /\ mem[c - 1].alloc \in {0, 1}
        /\ mem[c - 1].alloc = 1 \/ asize > Sz(mem, c)
    <2>1. Sz(mem, c) \in Nat /\ Even(Sz(mem, c)) /\ mem[c - 1].alloc \in {0, 1}
      BY Walk DEF Inv, HeapRight, Tiled
    <2>2. ~Fits(c)
      BY DEF MallocExtend, Inv, Searched
    <2>3. asize \in Nat
      BY SizeAssumption, AsizeRight DEF Inv, TypeCorrect, MallocExtend
    <2> QED
      BY <2>1, <2>2, <2>3, FitsRight
  <1>3. asize \in Nat /\ asize >= 4 /\ Even(asize) /\ CHUNKSIZE \in Nat /\ Even(CHUNKSIZE)
    BY SizeAssumption, AsizeRight DEF Inv, TypeCorrect, MallocExtend, Even
  <1> DEFINE l == Larger(asize, CHUNKSIZE)
  <1>4. l \in Nat /\ l >= 4 /\ l >= asize /\ Even(l)
    BY <1>3 DEF Larger
  <1>5. n = IF mem[c - 1].alloc = 1 THEN l ELSE l - Sz(mem, c)
    BY <1>1, LastFree DEF Inv, ExtendSize
  <1> HIDE DEF asize, l, n
  <1>6. /\ n \in Nat /\ n >= 2 /\ Even(n)
        /\ mem[c - 1].alloc = 1 => asize <= n
        /\ mem[c - 1].alloc = 0 => asize <= Sz(mem, c) + n
    <2>1. CASE mem[c - 1].alloc = 1
      BY <1>3, <1>4, <1>5, <2>1
    <2>2. CASE mem[c - 1].alloc = 0
      <3>1. n = l - Sz(mem, c)
        BY <1>5, <2>2
      <3>2. Even(n) /\ n \in Int
        <4>1. l \in Int /\ Sz(mem, c) \in Int /\ Even(l) /\ Even(Sz(mem, c))
          BY <1>2, <1>4
        <4>2. Even(l - Sz(mem, c))
          BY <4>1, Evens
        <4> QED
          BY <3>1, <4>1, <4>2
      <3>3. n > 0
        BY <1>2, <1>3, <1>4, <2>2, <3>1
      <3> QED
        BY <1>2, <1>3, <1>4, <2>2, <3>1, <3>2, <3>3 DEF Even
    <2> QED
      BY <1>2, <2>1, <2>2
  <1>7. /\ CanExtend(n) /\ ExtendHeap(n, "place") /\ UNCHANGED <<fit, call, best_ptr, res, client>>
        /\ pc = "extend"
    BY DEF MallocExtend, n
  <1>8. call' \in [id : Id \cup {NULL}, size : Nat] /\ call'.id \in Id /\ call'.size \in Size
    BY <1>7 DEF Inv, TypeCorrect
  <1>9. /\ TypeCorrect' /\ HeapRight' /\ Clients' /\ Searched'
        /\ ptr' = brk /\ brk \in blocks' /\ mem'[brk - 1].alloc = 0 /\ Sz(mem', brk) = n
        /\ \A b \in blocks : /\ b \in blocks' /\ mem'[b - 1] = mem[b - 1]
                             /\ Sz(mem', b) = Sz(mem, b)
        /\ Preserved
    BY <1>6, <1>7, <1>8, ExtendHeapRight
  <1>10. Enough'
    <2>1. CASE mem[c - 1].alloc = 1
      BY <1>6, <1>7, <1>9, <2>1 DEF Enough, asize
    <2>2. CASE mem[c - 1].alloc = 0
      BY <1>1, <1>6, <1>7, <1>9, <2>2 DEF Enough, asize
    <2> QED
      BY <1>2, <2>1, <2>2
  <1>11. Progress'
    BY <1>7, <1>9, <1>10 DEF Progress, ExtendHeap, Granted
  <1> QED
    BY <1>9, <1>11 DEF Inv

\* The block after p is the epilogue.
LEMMA IsLast ==
    ASSUME HeapRight, TypeCorrect, NEW p \in blocks, GET_SIZE(HDRP(NEXT_BLKP(p))) = 0
    PROVE  p + Sz(mem, p) = brk
  <1>1. NEXT_BLKP(p) = p + Sz(mem, p)
    BY DEF NEXT_BLKP, GET_SIZE, HDRP, WSIZE, Sz
  <1>2. NEXT_BLKP(p) \in blocks \cup {brk}
    BY <1>1, Walk
  <1>3. Sz(mem, NEXT_BLKP(p)) = 0
    BY DEF GET_SIZE, HDRP, WSIZE, Sz
  <1> QED
    BY <1>1, <1>2, <1>3, Walk

\* mm_realloc's call of extend_heap, for the last block.
LEMMA ReallocExtendKeeps ==
    ASSUME Inv, NEW i \in Id, NEW size \in Size, ReallocExtend(i, size)
    PROVE  Inv' /\ Preserved
  <1> DEFINE p == block[i]
             n == NeedSize(p, size)
             asize == Asize(size)
             more == asize - Sz(mem, p)
  <1>1. /\ pc = "idle" /\ p # NULL /\ call' = [id |-> i, size |-> size]
        /\ GET_SIZE(HDRP(NEXT_BLKP(p))) = 0 /\ CanExtend(n)
        /\ ExtendHeap(n, "grow") /\ UNCHANGED <<fit, best_ptr, res, client>>
    BY DEF ReallocExtend, ReallocStart, Extends
  <1>2. p \in blocks /\ mem[p - 1].alloc = 1
    BY <1>1 DEF Inv, Clients, At, Granted
  <1>3. p + Sz(mem, p) = brk
    BY <1>1, <1>2, IsLast DEF Inv
  <1>4. Sz(mem, p) \in Nat /\ Even(Sz(mem, p))
    <2>1. Sz(mem, p) \in 2 .. MaxHeap
      BY <1>2, Walk DEF Inv
    <2>2. Even(Sz(mem, p))
      BY <1>2 DEF Inv, HeapRight, Tiled
    <2> QED
      BY <2>1, <2>2, MaxNat
  <1>5. /\ asize \in Nat /\ Even(asize)
        /\ CHUNKSIZE \in Nat /\ CHUNKSIZE >= 4 /\ Even(CHUNKSIZE)
    BY SizeAssumption, AsizeRight DEF Even
  <1>6. n = Larger(more, CHUNKSIZE)
    <2>1. GET_SIZE(HDRP(p)) = Sz(mem, p)
      BY DEF GET_SIZE, HDRP, WSIZE, Sz
    <2>2. LessLastFree(more) = more
      BY <1>2, <1>3, LastFree DEF Inv
    <2> QED
      BY <2>1, <2>2 DEF NeedSize
  <1> HIDE DEF n, asize
  <1>7. n \in Nat /\ n >= 2 /\ Even(n) /\ asize <= Sz(mem, p) + n
    <2>1. more \in Int /\ Even(more)
      <3>1. asize \in Int /\ Sz(mem, p) \in Int /\ Even(asize) /\ Even(Sz(mem, p))
        BY <1>4, <1>5
      <3>2. Even(asize - Sz(mem, p))
        BY <3>1, Evens
      <3>3. asize - Sz(mem, p) \in Int
        BY <3>1
      <3> QED
        BY <3>2, <3>3
    <2> QED
      BY <1>4, <1>5, <1>6, <2>1 DEF Larger
  <1>8. call' \in [id : Id \cup {NULL}, size : Nat] /\ call'.id = i /\ call'.size = size
    BY <1>1, SizeAssumption
  <1>9. /\ TypeCorrect' /\ HeapRight' /\ Clients' /\ Searched'
        /\ ptr' = brk /\ brk \in blocks' /\ brk' = brk + n
        /\ mem'[brk - 1].alloc = 0 /\ Sz(mem', brk) = n
        /\ \A b \in blocks : /\ b \in blocks' /\ mem'[b - 1] = mem[b - 1]
                             /\ Sz(mem', b) = Sz(mem, b)
        /\ Preserved
    BY <1>1, <1>7, <1>8, ExtendHeapRight
  <1>10. block[call.id]' = p
    BY <1>1, <1>8 DEF client
  <1>11. Grows'
    BY <1>1, <1>2, <1>3, <1>7, <1>8, <1>9, <1>10 DEF Grows, asize
  <1>12. Progress'
    BY <1>1, <1>9, <1>11 DEF Progress, ExtendHeap, Granted
  <1> QED
    BY <1>9, <1>12 DEF Inv

\* The prologue and the epilogue lie outside what changes.
LEMMA EndsKept ==
    ASSUME HeapRight, TypeCorrect, NEW p \in blocks, NEW q \in blocks \cup {brk},
           OnlyIn(mem, mem', p, q), UNCHANGED <<brk, epilogue>>
    PROVE  Ends(mem)'
  <1>1. /\ p \in Nat /\ p >= 4 /\ q \in Nat /\ q <= brk /\ brk \in Nat /\ brk >= 5
        /\ brk <= MaxHeap /\ Ends(mem)
    BY Walk DEF HeapRight
  <1>2. \A w \in {1, 2, brk - 1} : w \in Word /\ w \notin (p - 1) .. (q - 2)
    BY <1>1, MaxNat DEF Word
  <1>3. mem'[1] = mem[1] /\ mem'[2] = mem[2] /\ mem'[brk - 1] = mem[brk - 1]
    BY <1>2 DEF OnlyIn
  <1> QED
    BY <1>1, <1>3 DEF Ends

\* The words up to q become a block in use at p, of asize words or more, with
\* perhaps a free one after it.
Granting(p, q, asize) ==
    /\ mem' \in [Word -> Value] /\ Tiled(mem', blocks', brk)
    /\ OnlyIn(mem, mem', p, q)
    /\ p \in blocks' /\ mem'[p - 1].alloc = 1 /\ asize <= Sz(mem', p)
    /\ \A b \in blocks : b \notin p .. (q - 1) => b \in blocks'
    /\ \A b \in blocks' : b # p /\ mem'[b - 1].alloc = 1 => b \in blocks /\ b \notin p .. (q - 1)
    /\ fit = "next" => last_fit_ptr' \in blocks' \cup {brk}
    /\ \A w \in p .. (p + asize - 3) :
          w \in p .. (p + Sz(mem, p) - 3) => mem'[w] = mem[w]

\* A call decides on the block at p: to return it, or to copy to it first.
Decision(p, q, asize) ==
    /\ p \in blocks /\ q \in blocks \cup {brk} /\ p < q /\ asize \in Nat
    /\ Granting(p, q, asize)
    /\ UNCHANGED <<fit, brk, epilogue, client>>
    /\ call' \in [id : Id \cup {NULL}, size : Nat] /\ call'.id \in Id /\ call'.size \in Size
    /\ DSIZE + call'.size <= asize
    /\ res' = p /\ ~Granted /\ pc # "copy"
    /\ \A b \in blocks : b \in p .. (q - 1) =>
          mem[b - 1].alloc = 0 \/ (b = p /\ block[call'.id] = p)
    /\ \/ pc' = "return" /\ block[call'.id] \in {NULL, p}
       \/ pc' = "copy" /\ block[call'.id] # NULL /\ mem[p - 1].alloc = 0

\* Whatever block a call decides to return, the invariant holds once it is granted.
LEMMA DecisionKeeps ==
    ASSUME Inv, NEW p, NEW q, NEW asize, Decision(p, q, asize)
    PROVE  Inv'
  <1> DEFINE i == call'.id
  <1> USE DEF Decision
  <1>1. /\ Tiled(mem, blocks, brk) /\ brk \in 0 .. MaxHeap /\ p \in Nat /\ q \in Nat
        /\ blocks \subseteq Nat /\ mem' \in [Word -> Value] /\ Tiled(mem', blocks', brk)
        /\ OnlyIn(mem, mem', p, q)
    BY Walk DEF Inv, HeapRight, TypeCorrect, Granting
  <1>2. \A j \in Id :
           /\ At(j) = block[j] /\ Asked(j) = bsize[j]
           /\ At(j)' = IF pc' = "return" /\ j = i THEN p ELSE block[j]
           /\ Asked(j)' = IF pc' = "return" /\ j = i THEN call'.size ELSE bsize[j]
    BY DEF At, Asked, Granted, client
  <1>3. /\ InUse = {block[j] : j \in Id} \ {NULL}
        /\ InUse' = ({At(j)' : j \in Id} \ {NULL}) \cup (IF pc' = "copy" THEN {p} ELSE {})
    BY <1>2 DEF InUse
  <1>4. \A b \in blocks : b \notin p .. (q - 1) =>
           b \in blocks' /\ mem'[b - 1] = mem[b - 1] /\ Sz(mem', b) = Sz(mem, b)
    BY <1>1, Untouched DEF Granting
  <1>5. p # NULL /\ p \in p .. (q - 1)
    BY <1>1, NullAssumption
  <1>6. /\ p \in blocks' /\ mem'[p - 1].alloc = 1 /\ asize <= Sz(mem', p)
        /\ DSIZE + call'.size <= Sz(mem', p)
    <2>1. p \in blocks' /\ mem'[p - 1].alloc = 1 /\ asize <= Sz(mem', p)
      BY DEF Granting
    <2>2. Sz(mem', p) \in Nat /\ call'.size \in Nat
      BY <1>1, <2>1, Shape, SizeAssumption
    <2> QED
      BY <2>1, <2>2 DEF DSIZE
  <1>7. ASSUME NEW j \in Id, block[j] # NULL, j # i \/ pc' = "copy"
        PROVE  /\ block[j] \in blocks' /\ block[j] # p
               /\ mem'[block[j] - 1].alloc = 1
               /\ DSIZE + bsize[j] <= Sz(mem', block[j])
    <2>1. /\ block[j] \in blocks /\ mem[block[j] - 1].alloc = 1
          /\ DSIZE + bsize[j] <= Sz(mem, block[j])
      BY <1>2, <1>7 DEF Inv, Clients
    <2>2. block[j] \notin p .. (q - 1)
      <3>1. j # i => block[j] # block[i]
        BY <1>2, <1>7 DEF Inv, Clients
      <3> QED
        BY <1>7, <2>1, <3>1
    <2> QED
      BY <1>4, <1>5, <2>1, <2>2
  <1>8. TypeCorrect'
    BY <1>1 DEF Inv, TypeCorrect, client
  <1>9. HeapRight'
    BY <1>1, EndsKept DEF Inv, HeapRight
  <1>10. Clients'
    <2>1. ASSUME NEW j \in Id
          PROVE  /\ At(j)' = NULL => Asked(j)' = 0
                 /\ At(j)' # NULL => /\ At(j)' \in blocks'
                                     /\ mem'[At(j)' - 1].alloc = 1
                                     /\ DSIZE + Asked(j)' <= Sz(mem', At(j)')
      <3>1. CASE j = i /\ pc' = "return"
        BY <1>2, <1>5, <1>6, <3>1
      <3>2. CASE ~(j = i /\ pc' = "return")
        <4>1. At(j)' = block[j] /\ Asked(j)' = bsize[j]
          BY <1>2, <3>2
        <4>2. block[j] = NULL => bsize[j] = 0
          BY <1>2 DEF Inv, Clients
        <4> QED
          BY <1>7, <3>2, <4>1, <4>2
      <3> QED
        BY <3>1, <3>2
    <2>2. \A j, k \in Id : At(j)' = At(k)' /\ At(j)' # NULL => j = k
      <3>1. \A j, k \in Id : block[j] = block[k] /\ block[j] # NULL => j = k
        BY <1>2 DEF Inv, Clients
      <3>2. \A j \in Id : j # i /\ block[j] # NULL => block[j] # p
        BY <1>7
      <3> QED
        BY <1>2, <3>1, <3>2
    <2>3. ASSUME NEW b \in blocks', mem'[b - 1].alloc = 1
          PROVE  b \in InUse'
      <3>1. CASE b = p
        BY <1>2, <1>3, <1>5, <3>1
      <3>2. CASE b # p
        <4>1. b \in blocks /\ b \notin p .. (q - 1)
          BY <2>3, <3>2 DEF Granting
        <4>2. b \in InUse
          BY <1>4, <2>3, <4>1 DEF Inv, Clients
        <4>3. PICK j \in Id : b = block[j] /\ b # NULL
          BY <1>3, <4>2
        <4>4. At(j)' = b
          BY <1>2, <3>2, <4>3
        <4> QED
          BY <1>3, <4>3, <4>4
      <3> QED
        BY <3>1, <3>2
    <2> QED
      BY <2>1, <2>2, <2>3 DEF Clients
  <1>11. Searched'
    BY DEF Searched, Granting
  <1>12. Progress'
    <2>1. pc' = "copy" => /\ \A j \in Id : block[j] # p
                          /\ block[i] # NULL
      BY <1>5, <1>7
    <2> QED
      BY <1>6, <2>1 DEF Progress, client, Granted
  <1> QED
    BY <1>8, <1>9, <1>10, <1>11, <1>12 DEF Inv

\* place, in the heap as it is.
LEMMA PlaceGrants ==
    ASSUME Inv, NEW p \in blocks, NEW asize \in Nat, asize >= 4, Even(asize),
           asize <= Sz(mem, p), Place(mem, blocks, p, asize)
    PROVE  Granting(p, p + Sz(mem, p), asize)
  <1>1. Tiled(mem, blocks, brk) /\ brk \in 0 .. MaxHeap /\ mem \in [Word -> Value]
    BY DEF Inv, HeapRight, TypeCorrect
  <1>2. /\ mem' \in [Word -> Value] /\ Tiled(mem', blocks', brk) /\ blocks \subseteq blocks'
        /\ \A b \in blocks' \ blocks : mem'[b - 1].alloc = 0
        /\ OnlyIn(mem, mem', p, p + Sz(mem, p))
        /\ mem'[p - 1].alloc = 1 /\ asize <= Sz(mem', p)
        /\ fit = "next" => last_fit_ptr' \in blocks' \cup {brk}
        /\ \A w \in p .. (p + asize - 3) : mem'[w] = mem[w]
    BY <1>1, PlaceRight
  <1>3. \A b \in blocks : b # p => b \notin p .. ((p + Sz(mem, p)) - 1)
    BY <1>1, Shape
  <1> QED
    BY <1>2, <1>3 DEF Granting

\* The size a call asks for, in a block.
LEMMA AskedRight ==
    ASSUME NEW n \in Size
    PROVE  /\ n \in Nat /\ Asize(n) \in Nat /\ Asize(n) >= 4 /\ Even(Asize(n))
           /\ DSIZE + n <= Asize(n)
  <1>1. n \in Nat \ {0}
    BY SizeAssumption
  <1> QED
    BY <1>1, AsizeRight DEF DSIZE

\* mm_malloc places the request in the block it found, or in the extended one.
LEMMA MallocPlaceDecides ==
    ASSUME Inv, MallocPlace
    PROVE  \E p, q, asize : Decision(p, q, asize)
  <1> DEFINE asize == Asize(call.size)
             q == ptr + Sz(mem, ptr)
  <1>1. /\ ptr \in blocks /\ Fits(ptr) /\ call.id \in Id /\ call.size \in Size
        /\ call \in [id : Id \cup {NULL}, size : Nat]
        /\ block[call.id] = NULL \/ block[call.id] # NULL
    BY DEF MallocPlace, Inv, Progress, TypeCorrect
  <1>2. /\ asize \in Nat /\ asize >= 4 /\ Even(asize) /\ DSIZE + call.size <= asize
    BY <1>1, AskedRight
  <1>3. mem[ptr - 1].alloc = 0 /\ asize <= Sz(mem, ptr)
    BY <1>1, FitsRight, Walk DEF Inv
  <1>4. /\ Place(mem, blocks, ptr, asize) /\ res' = ptr
        /\ pc' = IF block[call.id] = NULL THEN "return" ELSE "copy"
        /\ UNCHANGED <<fit, brk, epilogue, call, client>> /\ pc = "place"
    BY DEF MallocPlace
  <1>5. q \in blocks \cup {brk} /\ ptr < q /\ \A b \in blocks : b \in ptr .. (q - 1) => b = ptr
    BY <1>1, Walk DEF Inv
  <1> HIDE DEF asize
  <1>6. Granting(ptr, q, asize)
    BY <1>1, <1>2, <1>3, <1>4, PlaceGrants
  <1>7. ~Granted /\ pc # "copy"
    BY <1>4 DEF Granted
  <1>8. call' = call
    BY <1>4
  <1>9. \A b \in blocks : b \in ptr .. (q - 1) => mem[b - 1].alloc = 0
    BY <1>3, <1>5
  <1> HIDE DEF q
  <1> QED
    BY <1>1, <1>2, <1>3, <1>4, <1>5, <1>6, <1>7, <1>8, <1>9 DEF Decision

\* A block of the caller's.
LEMMA Mine ==
    ASSUME Inv, NEW i \in Id, block[i] # NULL, ~Granted
    PROVE  block[i] \in blocks /\ mem[block[i] - 1].alloc = 1
  BY DEF Inv, Clients, At

\* mm_realloc in place, when the block is large enough.
LEMMA ReallocShrinkDecides ==
    ASSUME Inv, NEW i \in Id, NEW n \in Size, ReallocShrink(i, n)
    PROVE  \E p, q, asize : Decision(p, q, asize)
  <1> DEFINE p == block[i]
             asize == Asize(n)
             q == p + Sz(mem, p)
  <1>1. /\ pc = "idle" /\ p # NULL /\ call' = [id |-> i, size |-> n]
        /\ Shrinks(p, n) /\ Place(mem, blocks, p, asize) /\ res' = p /\ pc' = "return"
        /\ UNCHANGED <<fit, brk, epilogue, client>>
    BY DEF ReallocShrink, ReallocStart
  <1>2. ~Granted /\ pc # "copy"
    BY <1>1 DEF Granted
  <1>3. p \in blocks /\ mem[p - 1].alloc = 1
    BY <1>1, <1>2, Mine
  <1>4. /\ asize \in Nat /\ asize >= 4 /\ Even(asize) /\ DSIZE + n <= asize /\ n \in Nat
    BY AskedRight
  <1>5. asize <= Sz(mem, p)
    BY <1>1 DEF Shrinks, GET_SIZE, HDRP, WSIZE, Sz
  <1>6. q \in blocks \cup {brk} /\ p < q /\ \A b \in blocks : b \in p .. (q - 1) => b = p
    BY <1>3, Walk DEF Inv
  <1> HIDE DEF asize
  <1>7. Granting(p, q, asize)
    BY <1>1, <1>3, <1>4, <1>5, PlaceGrants
  <1>8. /\ call' \in [id : Id \cup {NULL}, size : Nat] /\ call'.id = i /\ call'.size = n
    BY <1>1, <1>4
  <1>9. \A b \in blocks : b \in p .. (q - 1) => b = p /\ block[call'.id] = p
    BY <1>6, <1>8
  <1>10. pc' = "return" /\ block[call'.id] \in {NULL, p}
    BY <1>1, <1>8
  <1> HIDE DEF q, p
  <1> QED
    BY <1>1, <1>2, <1>3, <1>4, <1>6, <1>7, <1>8, <1>9, <1>10 DEF Decision

\* The block takes in the next one, then place.
LEMMA TakeNextGrants ==
    ASSUME Inv, NEW p \in blocks, mem[p + Sz(mem, p) - 1].alloc = 0, NEW n \in Size,
           p + Sz(mem, p) \in blocks,
           Asize(n) <= Sz(mem, p) + Sz(mem, p + Sz(mem, p)), TakeNext(p, n)
    PROVE  \E q \in blocks \cup {brk} :
              /\ p < q /\ Granting(p, q, Asize(n))
              /\ \A b \in blocks : b \in p .. (q - 1) => b = p \/ mem[b - 1].alloc = 0
  <1> DEFINE asize == Asize(n)
             next  == p + Sz(mem, p)
             size  == Sz(mem, p) + Sz(mem, next)
             q     == p + size
             m     == PutTags(mem, p, size, 1)
             bs    == blocks \ {next}
  <1>1. /\ Tiled(mem, blocks, brk) /\ brk \in 0 .. MaxHeap /\ mem \in [Word -> Value]
        /\ next \in blocks
    BY DEF Inv, HeapRight, TypeCorrect
  <1>2. /\ p \in Nat /\ p >= 4 /\ Sz(mem, p) \in Nat /\ Sz(mem, p) >= 2 /\ next \in Nat
        /\ \A b \in blocks : b \in Nat /\ (b > p => b >= next)
    BY <1>1, Shape
  <1>3. /\ Sz(mem, next) \in Nat /\ Sz(mem, next) >= 2
        /\ next + Sz(mem, next) \in blocks \cup {brk}
        /\ next + Sz(mem, next) <= brk
        /\ \A b \in blocks : b > next => b >= next + Sz(mem, next)
    BY <1>1, Shape
  <1>4. q = next + Sz(mem, next)
    BY <1>2, <1>3
  <1>5. TakeNext(p, n) <=> Place(m, bs, p, asize)
    <2>1. NEXT_BLKP(p) = next
      BY DEF NEXT_BLKP, GET_SIZE, HDRP, WSIZE, Sz
    <2>2. GET_SIZE(HDRP(p)) = Sz(mem, p) /\ GET_SIZE(HDRP(next)) = Sz(mem, next)
      BY DEF GET_SIZE, HDRP, WSIZE, Sz
    <2> HIDE DEF next
    <2> QED
      BY <2>1, <2>2 DEF TakeNext
  <1>6. asize \in Nat /\ asize >= 4 /\ Even(asize) /\ asize <= size
    BY <1>1, AskedRight
  <1>7. /\ size \in 2 .. MaxHeap /\ p + size - 2 \in Word /\ q \in Nat /\ p < q /\ next < q
        /\ p + size - 2 = q - 2 /\ q - p = size
    <2>1. q = p + size /\ size = Sz(mem, p) + Sz(mem, next) /\ next = p + Sz(mem, p)
      OBVIOUS
    <2> HIDE DEF q, size, next
    <2>2. /\ size \in Nat /\ size >= 4 /\ q \in Nat /\ q <= brk /\ p < q /\ next < q
      BY <1>1, <1>2, <1>3, <1>4, <2>1
    <2>3. p + size - 2 = q - 2 /\ q - p = size
      BY <1>2, <2>1, <2>2
    <2>4. brk \in Nat /\ brk <= MaxHeap
      BY <1>1, MaxNat
    <2> QED
      BY <1>2, <2>1, <2>2, <2>3, <2>4, MaxNat DEF Word
  <1>8. /\ m \in [Word -> Value]
        /\ m[p - 1] = PACK(size, 1) /\ m[p + size - 2] = PACK(size, 1)
        /\ \A w \in Word : w # p - 1 /\ w # p + size - 2 => m[w] = mem[w]
    BY <1>1, <1>2, <1>7, PutTagsRight
  <1> HIDE DEF asize, m, size, next
  <1>9. \A b \in blocks : b \in p .. (q - 1) => b \in {p, next}
    <2> HIDE DEF q
    <2> QED
      BY <1>2, <1>3, <1>4
  <1>10. bs = (blocks \ (p .. (q - 1))) \cup {p}
    <2>1. next \in p .. (q - 1) /\ p # next
      BY <1>2, <1>7 DEF next
    <2> QED
      BY <1>9, <2>1
  <1> HIDE DEF q
  <1>11. OnlyIn(mem, m, p, q)
    BY <1>2, <1>7, <1>8 DEF OnlyIn
  <1>12. Tiled(m, bs, brk)
    BY <1>1, <1>3, <1>4, <1>7, <1>8, <1>10, <1>11, JoinRight
  <1>13. Sz(m, p) = size /\ p \in bs /\ p + Sz(m, p) = q
    BY <1>2, <1>7, <1>8, <1>10 DEF Sz, PACK, q
  <1>14. /\ mem' \in [Word -> Value] /\ Tiled(mem', blocks', brk) /\ bs \subseteq blocks'
         /\ \A b \in blocks' \ bs : mem'[b - 1].alloc = 0
         /\ OnlyIn(m, mem', p, q)
         /\ mem'[p - 1].alloc = 1 /\ asize <= Sz(mem', p)
         /\ fit = "next" => last_fit_ptr' \in blocks' \cup {brk}
         /\ \A w \in p .. (p + asize - 3) : mem'[w] = m[w]
    <2>1. Place(m, bs, p, asize)
      BY <1>5
    <2> QED
      BY <1>1, <1>6, <1>8, <1>12, <1>13, <2>1, PlaceRight
  <1>15. OnlyIn(mem, mem', p, q)
    BY <1>11, <1>14 DEF OnlyIn
  <1>16. \A w \in p .. (p + Sz(mem, p) - 3) : m[w] = mem[w]
    <2>1. \A w \in p .. (p + Sz(mem, p) - 3) : w \in Word /\ w # p - 1 /\ w # p + size - 2
      <3>1. next = p + Sz(mem, p) /\ brk \in Nat /\ brk <= MaxHeap /\ q <= brk
        BY <1>1, <1>3, <1>4, MaxNat DEF next
      <3> QED
        BY <1>2, <1>7, <3>1, MaxNat DEF Word
    <2> QED
      BY <1>8, <2>1
  <1>17. Granting(p, q, asize)
    BY <1>10, <1>13, <1>14, <1>15, <1>16 DEF Granting
  <1>18. \A b \in blocks : b \in p .. (q - 1) => b = p \/ mem[b - 1].alloc = 0
    <2>1. next - 1 = p + Sz(mem, p) - 1
      BY <1>2 DEF next
    <2> QED
      BY <1>9, <2>1
  <1>19. q \in blocks \cup {brk}
    BY <1>3, <1>4
  <1> QED
    BY <1>7, <1>17, <1>18, <1>19 DEF asize

\* The next block of p, read from its header, is free.
LEMMA MergesRight ==
    ASSUME HeapRight, TypeCorrect, NEW p \in blocks, NEW n, Merges(p, n)
    PROVE  /\ p + Sz(mem, p) \in blocks /\ mem[p + Sz(mem, p) - 1].alloc = 0
           /\ Asize(n) <= Sz(mem, p) + Sz(mem, p + Sz(mem, p))
  <1> DEFINE next == p + Sz(mem, p)
  <1>1. NEXT_BLKP(p) = next
    BY DEF NEXT_BLKP, GET_SIZE, HDRP, WSIZE, Sz
  <1>2. GET_SIZE(HDRP(p)) = Sz(mem, p) /\ GET_SIZE(HDRP(next)) = Sz(mem, next)
    BY DEF GET_SIZE, HDRP, WSIZE, Sz
  <1>3. mem[next - 1].alloc # 1 /\ Sz(mem, p) + Sz(mem, next) >= Asize(n)
    BY <1>1, <1>2 DEF Merges, GET_ALLOC, HDRP, WSIZE
  <1>4. p \in Nat /\ Sz(mem, p) \in Nat /\ next \in blocks \cup {brk}
    BY Walk
  <1>5. next \in blocks
    BY <1>3, <1>4, Walk
  <1>6. mem[next - 1].alloc = 0
    BY <1>3, <1>5, Walk
  <1>7. next - 1 = p + Sz(mem, p) - 1
    BY <1>4
  <1>8. Asize(n) <= Sz(mem, p) + Sz(mem, next)
    BY <1>3
  <1> QED
    BY <1>5, <1>6, <1>7, <1>8

\* mm_realloc into the free block that follows.
LEMMA ReallocMergeDecides ==
    ASSUME Inv, NEW i \in Id, NEW n \in Size, ReallocMerge(i, n)
    PROVE  \E p, q, asize : Decision(p, q, asize)
  <1> DEFINE p == block[i]
  <1>1. /\ pc = "idle" /\ p # NULL /\ call' = [id |-> i, size |-> n]
        /\ Merges(p, n) /\ TakeNext(p, n) /\ res' = p /\ pc' = "return"
        /\ UNCHANGED <<fit, brk, epilogue, client>>
    BY DEF ReallocMerge, ReallocStart
  <1>2. ~Granted /\ pc # "copy"
    BY <1>1 DEF Granted
  <1>3. p \in blocks /\ mem[p - 1].alloc = 1
    BY <1>1, <1>2, Mine
  <1>4. /\ Asize(n) \in Nat /\ DSIZE + n <= Asize(n) /\ n \in Nat
    BY AskedRight
  <1>5. /\ p + Sz(mem, p) \in blocks /\ mem[p + Sz(mem, p) - 1].alloc = 0
        /\ Asize(n) <= Sz(mem, p) + Sz(mem, p + Sz(mem, p))
    BY <1>1, <1>3, MergesRight DEF Inv
  <1>6. PICK q \in blocks \cup {brk} :
              /\ p < q /\ Granting(p, q, Asize(n))
              /\ \A b \in blocks : b \in p .. (q - 1) => b = p \/ mem[b - 1].alloc = 0
    BY <1>1, <1>3, <1>5, TakeNextGrants
  <1>7. call' \in [id : Id \cup {NULL}, size : Nat] /\ call'.id = i /\ call'.size = n
    BY <1>1, <1>4
  <1>8. pc' = "return" /\ block[call'.id] \in {NULL, p}
    BY <1>1, <1>7
  <1>9. \A b \in blocks : b \in p .. (q - 1) =>
           mem[b - 1].alloc = 0 \/ (b = p /\ block[call'.id] = p)
    BY <1>6, <1>7
  <1> HIDE DEF p
  <1> QED
    BY <1>1, <1>2, <1>3, <1>4, <1>6, <1>7, <1>8, <1>9 DEF Decision

\* mm_realloc into the extension of the heap.
LEMMA ReallocGrowDecides ==
    ASSUME Inv, ReallocGrow
    PROVE  \E p, q, asize : Decision(p, q, asize)
  <1> DEFINE p == block[call.id]
             n == call.size
  <1>1. /\ pc = "grow" /\ TakeNext(p, n) /\ res' = p /\ pc' = "return"
        /\ UNCHANGED <<fit, brk, epilogue, call, client>>
    BY DEF ReallocGrow
  <1>2. ~Granted /\ pc # "copy"
    BY <1>1 DEF Granted
  <1>3. call.id \in Id /\ n \in Size /\ call \in [id : Id \cup {NULL}, size : Nat]
    BY <1>1 DEF Inv, TypeCorrect
  <1>4. /\ p # NULL /\ ptr \in blocks /\ mem[ptr - 1].alloc = 0
        /\ ptr = p + Sz(mem, p) /\ Asize(n) <= Sz(mem, p) + Sz(mem, ptr)
    BY <1>1 DEF Inv, Progress, Grows
  <1>5. p \in blocks /\ mem[p - 1].alloc = 1
    BY <1>2, <1>3, <1>4, Mine
  <1>6. mem[p + Sz(mem, p) - 1].alloc = 0
    <2>1. p \in Nat /\ Sz(mem, p) \in Nat
      BY <1>5, Walk DEF Inv
    <2>2. ptr - 1 = p + Sz(mem, p) - 1
      BY <1>4, <2>1
    <2> QED
      BY <1>4, <2>2
  <1>7. PICK q \in blocks \cup {brk} :
              /\ p < q /\ Granting(p, q, Asize(n))
              /\ \A b \in blocks : b \in p .. (q - 1) => b = p \/ mem[b - 1].alloc = 0
    BY <1>1, <1>3, <1>4, <1>5, <1>6, TakeNextGrants
  <1>8. /\ Asize(n) \in Nat /\ DSIZE + n <= Asize(n) /\ n \in Nat
    BY <1>3, AskedRight
  <1>9. call' = call
    BY <1>1
  <1>10. pc' = "return" /\ block[call'.id] \in {NULL, p}
    BY <1>1
  <1>11. \A b \in blocks : b \in p .. (q - 1) =>
           mem[b - 1].alloc = 0 \/ (b = p /\ block[call'.id] = p)
    BY <1>7, <1>9
  <1>12. /\ call' \in [id : Id \cup {NULL}, size : Nat] /\ call'.id \in Id /\ call'.size \in Size
         /\ DSIZE + call'.size <= Asize(n)
    BY <1>3, <1>8, <1>9
  <1> HIDE DEF p, n
  <1> QED
    BY <1>1, <1>2, <1>5, <1>7, <1>8, <1>10, <1>11, <1>12 DEF Decision

\* The boundary tags of the blocks bs, of the prologue and of the epilogue are the same.
SameTags(m, m2, bs, end) == /\ \A b \in bs : m2[b - 1] = m[b - 1] /\ Sz(m2, b) = Sz(m, b)
                            /\ \A w \in {1, 2, end - 1} : m2[w] = m[w]

\* Only words of a block's payload change.
LEMMA FillRight ==
    ASSUME NEW m \in [Word -> Value], NEW m2, NEW bs, NEW end \in 0 .. MaxHeap, Tiled(m, bs, end),
           NEW p \in bs, \A w \in Word : w \notin p .. (p + Sz(m, p) - 3) => m2[w] = m[w]
    PROVE  Tiled(m2, bs, end) /\ SameTags(m, m2, bs, end)
  <1>1. /\ p \in Nat /\ p >= 4 /\ Sz(m, p) \in Nat /\ Sz(m, p) >= 2 /\ p + Sz(m, p) <= end
    BY Shape
  <1>2. ASSUME NEW b \in bs
        PROVE  m2[b - 1] = m[b - 1] /\ m2[b + Sz(m, b) - 2] = m[b + Sz(m, b) - 2]
    <2>1. /\ b \in Nat /\ Sz(m, b) \in Nat /\ Sz(m, b) >= 2
          /\ b - 1 \in Word /\ b + Sz(m, b) - 2 \in Word
          /\ b < p => b + Sz(m, b) <= p
          /\ b > p => b >= p + Sz(m, p)
      BY Shape
    <2>2. /\ b - 1 \notin p .. (p + Sz(m, p) - 3)
          /\ b + Sz(m, b) - 2 \notin p .. (p + Sz(m, p) - 3)
      <3>1. CASE b < p
        BY <1>1, <2>1, <3>1
      <3>2. CASE b > p
        BY <1>1, <2>1, <3>2
      <3>3. CASE b = p
        BY <1>1, <3>3
      <3> QED
        BY <1>1, <2>1, <3>1, <3>2, <3>3
    <2> QED
      BY <2>1, <2>2
  <1>3. \A b \in bs : Sz(m2, b) = Sz(m, b)
    BY <1>2 DEF Sz
  <1>4. \A w \in {1, 2, end - 1} : m2[w] = m[w]
    <2>1. end \in Nat /\ end <= MaxHeap
      BY MaxNat
    <2>2. \A w \in {1, 2, end - 1} : w \in Word /\ w \notin p .. (p + Sz(m, p) - 3)
      BY <1>1, <2>1, MaxNat DEF Word
    <2> QED
      BY <2>2
  <1>5. Tiled(m2, bs, end)
    BY <1>2, <1>3 DEF Tiled, DSIZE
  <1> QED
    BY <1>2, <1>3, <1>4, <1>5 DEF SameTags

\* The caller writes its block.
LEMMA FillKeeps ==
    ASSUME Inv, Fill
    PROVE  Inv'
  <1>1. /\ pc = "fill" /\ pc' = "idle"
        /\ mem' = [w \in Word |-> IF w \in res .. (res + call.size - 1) THEN call.id ELSE mem[w]]
        /\ UNCHANGED <<fit, brk, epilogue, last_fit_ptr, blocks, after, call, client>>
    BY DEF Fill
  <1>2. /\ res \in blocks /\ block[call.id] = res /\ bsize[call.id] = call.size
        /\ call.id \in Id /\ call.size \in Nat
    BY <1>1, SizeAssumption DEF Inv, Progress, TypeCorrect
  <1>3. /\ Tiled(mem, blocks, brk) /\ brk \in 0 .. MaxHeap /\ mem \in [Word -> Value]
        /\ res \in Nat /\ Sz(mem, res) \in Nat
    BY <1>2, Walk DEF Inv, HeapRight, TypeCorrect
  <1>4. \A i \in Id : /\ At(i) = block[i] /\ Asked(i) = bsize[i]
                      /\ At(i)' = At(i) /\ Asked(i)' = Asked(i)
    BY <1>1 DEF At, Asked, Granted, client
  <1>5. call.size + 2 <= Sz(mem, res)
    <2>1. At(call.id) = res /\ Asked(call.id) = call.size /\ res # NULL
      BY <1>2, <1>3, <1>4, NullAssumption
    <2>2. DSIZE + call.size <= Sz(mem, res)
      BY <1>2, <2>1 DEF Inv, Clients
    <2> QED
      BY <1>2, <1>3, <2>2 DEF DSIZE
  <1>6. mem' \in [Word -> Value]
    BY <1>1, <1>2, <1>3 DEF Value
  <1>7. \A w \in Word : w \notin res .. (res + Sz(mem, res) - 3) => mem'[w] = mem[w]
    <2>1. \A w \in Word : w \notin res .. (res + Sz(mem, res) - 3) =>
             w \notin res .. (res + call.size - 1)
      BY <1>2, <1>3, <1>5, MaxNat DEF Word
    <2> QED
      BY <1>1, <2>1
  <1>8. /\ Tiled(mem', blocks, brk)
        /\ \A b \in blocks : mem'[b - 1] = mem[b - 1] /\ Sz(mem', b) = Sz(mem, b)
        /\ \A w \in {1, 2, brk - 1} : mem'[w] = mem[w]
    <2>1. Tiled(mem', blocks, brk) /\ SameTags(mem, mem', blocks, brk)
      BY <1>2, <1>3, <1>7, FillRight
    <2> QED
      BY <2>1 DEF SameTags
  <1>9. TypeCorrect'
    BY <1>1, <1>6 DEF Inv, TypeCorrect, client
  <1>10. HeapRight'
    <2>1. Ends(mem)'
      BY <1>1, <1>8 DEF Inv, HeapRight, Ends
    <2> QED
      BY <1>1, <1>8, <2>1 DEF HeapRight
  <1>11. Clients'
    <2>1. InUse' = InUse
      BY <1>1, <1>4 DEF InUse
    <2> QED
      BY <1>1, <1>4, <1>8, <2>1, ClientsKept
  <1>12. Searched' /\ Progress'
    BY <1>1 DEF Inv, Searched, Progress, Granted
  <1> QED
    BY <1>9, <1>10, <1>11, <1>12 DEF Inv

\* The call returns.
LEMMA ReturnKeeps ==
    ASSUME Inv, Return
    PROVE  Inv'
  <1>1. /\ pc = "return" /\ pc' = "fill"
        /\ block' = [block EXCEPT ![call.id] = res]
        /\ bsize' = [bsize EXCEPT ![call.id] = call.size]
        /\ UNCHANGED <<fit, mem, brk, epilogue, last_fit_ptr, blocks, after, call, ptr, res>>
    BY DEF Return, heap
  <1>2. /\ res \in blocks /\ call.id \in Id /\ call.size \in Nat /\ call.size \in Size
        /\ block \in [Id -> Nat \cup {NULL}] /\ bsize \in [Id -> Nat]
    BY <1>1, SizeAssumption DEF Inv, Progress, TypeCorrect, Granted
  <1>3. res \in Nat
    BY <1>2, Walk DEF Inv
  <1>4. /\ block'[call.id] = res /\ bsize'[call.id] = call.size
        /\ \A i \in Id : i # call.id => block'[i] = block[i] /\ bsize'[i] = bsize[i]
    BY <1>1, <1>2
  <1>5. \A i \in Id : At(i)' = At(i) /\ Asked(i)' = Asked(i)
    BY <1>1, <1>2, <1>4 DEF At, Asked, Granted
  <1>6. TypeCorrect'
    BY <1>1, <1>2, <1>3 DEF Inv, TypeCorrect
  <1>7. HeapRight'
    BY <1>1 DEF Inv, HeapRight, Ends
  <1>8. Clients'
    <2>1. InUse' = InUse
      BY <1>1, <1>5 DEF InUse
    <2> QED
      BY <1>1, <1>5, <2>1, ClientsKept
  <1>9. Searched' /\ Progress'
    BY <1>1, <1>2, <1>4 DEF Inv, Searched, Progress, Granted
  <1> QED
    BY <1>6, <1>7, <1>8, <1>9 DEF Inv

\* mm_free's marking of block p, in a heap m with the tags of mem.
LEMMA FreeTagsRight ==
    ASSUME HeapRight, TypeCorrect, NEW m \in [Word -> Value], Tiled(m, blocks, brk),
           \A b \in blocks : m[b - 1] = mem[b - 1] /\ Sz(m, b) = Sz(mem, b),
           \A w \in {1, 2, brk - 1} : m[w] = mem[w],
           NEW p \in blocks, FreeTags(m, p), UNCHANGED <<brk, epilogue, blocks>>
    PROVE  /\ mem' \in [Word -> Value] /\ HeapRight'
           /\ OnlyIn(m, mem', p, p + Sz(mem, p))
           /\ ptr' = p /\ pc' = "coalesce" /\ mem'[p - 1].alloc = 0
           /\ \A b \in blocks : b # p => mem'[b - 1] = mem[b - 1] /\ Sz(mem', b) = Sz(mem, b)
  <1>1. brk \in 0 .. MaxHeap /\ Ends(mem) /\ brk \in Nat /\ brk <= MaxHeap /\ brk >= 5
    BY Walk, MaxNat DEF HeapRight, TypeCorrect
  <1>2. /\ p \in Nat /\ p >= 4 /\ Sz(mem, p) \in Nat /\ p + Sz(mem, p) <= brk
        /\ p + Sz(mem, p) \in blocks \cup {brk}
        /\ \A b \in blocks : b \in Nat /\ (b > p => b >= p + Sz(mem, p))
    BY <1>1, Shape
  <1>3. mem' = PutFree(m, p, Sz(m, p)) /\ ptr' = p /\ pc' = "coalesce"
    BY DEF FreeTags, GET_SIZE, HDRP, WSIZE, Sz
  <1>4. /\ mem' \in [Word -> Value] /\ Tiled(mem', blocks, brk)
        /\ OnlyIn(m, mem', p, p + Sz(mem, p)) /\ mem'[p - 1].alloc = 0
    BY <1>1, <1>3, FreedRight
  <1>5. \A b \in blocks : b # p => mem'[b - 1] = mem[b - 1] /\ Sz(mem', b) = Sz(mem, b)
    <2>1. \A b \in blocks : b # p => b \notin p .. ((p + Sz(mem, p)) - 1)
      BY <1>2
    <2> QED
      BY <1>1, <1>2, <1>4, <2>1, Untouched
  <1>6. HeapRight'
    <2>1. \A w \in {1, 2, brk - 1} : w \in Word /\ w \notin (p - 1) .. ((p + Sz(mem, p)) - 2)
      BY <1>1, <1>2, MaxNat DEF Word
    <2>2. mem'[1] = mem[1] /\ mem'[2] = mem[2] /\ mem'[brk - 1] = mem[brk - 1]
      BY <1>4, <2>1 DEF OnlyIn
    <2>3. Ends(mem)'
      BY <1>1, <2>2 DEF Ends
    <2> QED
      BY <1>4, <2>3 DEF HeapRight
  <1> QED
    BY <1>3, <1>4, <1>5, <1>6

\* mm_free, up to its call of coalesce.
LEMMA FreeKeeps ==
    ASSUME Inv, NEW i \in Id, Free(i)
    PROVE  Inv'
  <1> DEFINE p == block[i]
  <1>1. /\ pc = "idle" /\ p # NULL /\ FreeTags(mem, p) /\ after' = "idle"
        /\ block' = [block EXCEPT ![i] = NULL] /\ bsize' = [bsize EXCEPT ![i] = 0]
        /\ UNCHANGED <<fit, brk, epilogue, last_fit_ptr, blocks, call, best_ptr, res>>
    BY DEF Free
  <1>2. ~Granted /\ pc # "copy"
    BY <1>1 DEF Granted
  <1>3. p \in blocks /\ mem[p - 1].alloc = 1
    BY <1>1, <1>2, Mine
  <1>4. /\ Tiled(mem, blocks, brk) /\ mem \in [Word -> Value]
        /\ block \in [Id -> Nat \cup {NULL}] /\ bsize \in [Id -> Nat]
    BY DEF Inv, HeapRight, TypeCorrect
  <1>5. /\ mem' \in [Word -> Value] /\ HeapRight'
        /\ ptr' = p /\ pc' = "coalesce" /\ mem'[p - 1].alloc = 0
        /\ \A b \in blocks : b # p => mem'[b - 1] = mem[b - 1] /\ Sz(mem', b) = Sz(mem, b)
    BY <1>1, <1>3, <1>4, FreeTagsRight DEF Inv
  <1>6. TypeCorrect'
    BY <1>1, <1>4, <1>5 DEF Inv, TypeCorrect
  <1>7. ~Granted'
    BY <1>1, <1>5 DEF Granted
  <1>8. \A j \in Id : /\ At(j) = block[j] /\ Asked(j) = bsize[j]
                      /\ At(j)' = IF j = i THEN NULL ELSE block[j]
                      /\ Asked(j)' = IF j = i THEN 0 ELSE bsize[j]
    BY <1>1, <1>2, <1>4, <1>7 DEF At, Asked
  <1>9. Clients'
    <2>1. \A j \in Id : j # i /\ block[j] # NULL =>
             /\ block[j] \in blocks /\ block[j] # p
             /\ mem[block[j] - 1].alloc = 1 /\ DSIZE + bsize[j] <= Sz(mem, block[j])
      BY <1>1, <1>8 DEF Inv, Clients
    <2>2. \A j \in Id :
             /\ At(j)' = NULL => Asked(j)' = 0
             /\ At(j)' # NULL => /\ At(j)' \in blocks'
                                 /\ mem'[At(j)' - 1].alloc = 1
                                 /\ DSIZE + Asked(j)' <= Sz(mem', At(j)')
      <3>1. \A j \in Id : block[j] = NULL => bsize[j] = 0
        BY <1>8 DEF Inv, Clients
      <3> QED
        BY <1>1, <1>5, <1>8, <2>1, <3>1
    <2>3. \A j, k \in Id : At(j)' = At(k)' /\ At(j)' # NULL => j = k
      <3>1. \A j, k \in Id : block[j] = block[k] /\ block[j] # NULL => j = k
        BY <1>8 DEF Inv, Clients
      <3> QED
        BY <1>8, <3>1
    <2>4. ASSUME NEW b \in blocks', mem'[b - 1].alloc = 1
          PROVE  b \in InUse'
      <3>1. b \in blocks /\ b # p /\ mem[b - 1].alloc = 1
        BY <1>1, <1>5, <2>4
      <3>2. b \in InUse
        BY <3>1 DEF Inv, Clients
      <3>3. PICK j \in Id : b = block[j] /\ b # NULL
        BY <1>2, <1>8, <3>2 DEF InUse
      <3>4. At(j)' = b
        BY <1>8, <3>1, <3>3
      <3> QED
        BY <3>3, <3>4 DEF InUse
    <2> QED
      BY <2>2, <2>3, <2>4 DEF Clients
  <1>10. Searched'
    BY <1>1, <1>5 DEF Inv, Searched
  <1>11. Progress'
    BY <1>1, <1>3, <1>5, <1>7 DEF Progress
  <1> QED
    BY <1>5, <1>6, <1>9, <1>10, <1>11 DEF Inv

\* mm_realloc copies to the new block and frees the old one.
LEMMA ReallocCopyKeeps ==
    ASSUME Inv, ReallocCopy
    PROVE  Inv'
  <1> DEFINE i == call.id
             p == block[i]
             csize == GET_SIZE(HDRP(p))
             n == IF call.size < csize THEN call.size ELSE csize
             m == [w \in Word |-> IF w \in res .. (res + n - 1) THEN mem[p + (w - res)] ELSE mem[w]]
  <1>1. /\ pc = "copy" /\ FreeTags(m, p) /\ after' = "return"
        /\ UNCHANGED <<fit, brk, epilogue, last_fit_ptr, blocks, call, best_ptr, res, client>>
    BY DEF ReallocCopy
  <1>2. /\ i \in Id /\ call.size \in Nat /\ call.size \in Size
        /\ res \in blocks /\ mem[res - 1].alloc = 1 /\ DSIZE + call.size <= Sz(mem, res)
        /\ \A j \in Id : block[j] # res
        /\ p # NULL
    BY <1>1, SizeAssumption DEF Inv, Progress, TypeCorrect
  <1>3. ~Granted
    BY <1>1 DEF Granted
  <1>4. p \in blocks /\ mem[p - 1].alloc = 1
    BY <1>2, <1>3, Mine
  <1>5. /\ Tiled(mem, blocks, brk) /\ mem \in [Word -> Value] /\ brk \in 0 .. MaxHeap
        /\ res \in Nat /\ Sz(mem, res) \in Nat
    BY <1>2, Walk DEF Inv, HeapRight, TypeCorrect
  <1>6. csize = Sz(mem, p) /\ p \in Nat /\ Sz(mem, p) \in Nat /\ p + Sz(mem, p) <= brk
    <2>1. csize = Sz(mem, p)
      BY DEF GET_SIZE, HDRP, WSIZE, Sz
    <2> QED
      BY <1>4, <1>5, <2>1, Shape
  <1>7. n \in Nat /\ n <= call.size /\ n <= Sz(mem, p)
    BY <1>2, <1>6
  <1> HIDE DEF csize, n
  <1>8. m \in [Word -> Value]
    <2>1. \A w \in Word : w \in res .. (res + n - 1) => p + (w - res) \in Word
      BY <1>5, <1>6, <1>7, MaxNat DEF Word
    <2> QED
      BY <1>5, <2>1
  <1>9. \A w \in Word : w \notin res .. (res + Sz(mem, res) - 3) => m[w] = mem[w]
    <2>1. call.size + 2 <= Sz(mem, res)
      BY <1>2, <1>5 DEF DSIZE
    <2>2. \A w \in Word : w \notin res .. (res + Sz(mem, res) - 3) =>
             w \notin res .. (res + n - 1)
      BY <1>2, <1>5, <1>7, <2>1, MaxNat DEF Word
    <2> QED
      BY <2>2
  <1> HIDE DEF m
  <1>10. /\ Tiled(m, blocks, brk)
         /\ \A b \in blocks : m[b - 1] = mem[b - 1] /\ Sz(m, b) = Sz(mem, b)
         /\ \A w \in {1, 2, brk - 1} : m[w] = mem[w]
    <2>1. Tiled(m, blocks, brk) /\ SameTags(mem, m, blocks, brk)
      BY <1>2, <1>5, <1>9, FillRight
    <2> QED
      BY <2>1 DEF SameTags
  <1>11. /\ mem' \in [Word -> Value] /\ HeapRight'
         /\ ptr' = p /\ pc' = "coalesce" /\ mem'[p - 1].alloc = 0
         /\ \A b \in blocks : b # p => mem'[b - 1] = mem[b - 1] /\ Sz(mem', b) = Sz(mem, b)
    BY <1>1, <1>4, <1>8, <1>10, FreeTagsRight DEF Inv
  <1>12. TypeCorrect'
    BY <1>1, <1>2, <1>11 DEF Inv, TypeCorrect, client
  <1>13. \A j \in Id : /\ At(j) = block[j] /\ Asked(j) = bsize[j]
                       /\ At(j)' = IF j = i THEN res ELSE block[j]
                       /\ Asked(j)' = IF j = i THEN call.size ELSE bsize[j]
    BY <1>1, <1>3, <1>11 DEF At, Asked, Granted, client
  <1>14. p # res /\ res # NULL
    BY <1>2, <1>5, NullAssumption
  <1>15. Clients'
    <2>1. \A j \in Id : j # i /\ block[j] # NULL =>
             /\ block[j] \in blocks /\ block[j] # p
             /\ mem[block[j] - 1].alloc = 1 /\ DSIZE + bsize[j] <= Sz(mem, block[j])
      BY <1>2, <1>13 DEF Inv, Clients
    <2>2. \A j \in Id :
             /\ At(j)' = NULL => Asked(j)' = 0
             /\ At(j)' # NULL => /\ At(j)' \in blocks'
                                 /\ mem'[At(j)' - 1].alloc = 1
                                 /\ DSIZE + Asked(j)' <= Sz(mem', At(j)')
      <3>1. \A j \in Id : block[j] = NULL => bsize[j] = 0
        BY <1>13 DEF Inv, Clients
      <3>2. mem'[res - 1].alloc = 1 /\ DSIZE + call.size <= Sz(mem', res) /\ res \in blocks'
        BY <1>1, <1>2, <1>11, <1>14
      <3> HIDE DEF p
      <3> QED
        BY <1>1, <1>11, <1>13, <1>14, <2>1, <3>1, <3>2
    <2>3. \A j, k \in Id : At(j)' = At(k)' /\ At(j)' # NULL => j = k
      <3>1. \A j, k \in Id : block[j] = block[k] /\ block[j] # NULL => j = k
        BY <1>13 DEF Inv, Clients
      <3> QED
        BY <1>2, <1>13, <3>1
    <2>4. ASSUME NEW b \in blocks', mem'[b - 1].alloc = 1
          PROVE  b \in InUse'
      <3>1. b \in blocks /\ b # p /\ mem[b - 1].alloc = 1
        BY <1>1, <1>11, <2>4
      <3>2. b \in InUse
        BY <3>1 DEF Inv, Clients
      <3>3. CASE b = res
        <4>1. PICK j \in Id : j = i
          BY <1>2
        <4>2. At(j)' = b
          BY <1>13, <3>3, <4>1
        <4> QED
          BY <1>14, <3>3, <4>2 DEF InUse
      <3>4. CASE b # res
        <4>1. PICK j \in Id : b = block[j] /\ b # NULL
          BY <1>1, <1>13, <3>2, <3>4 DEF InUse
        <4>2. At(j)' = b
          BY <1>13, <3>1, <4>1
        <4> QED
          BY <4>1, <4>2 DEF InUse
      <3> QED
        BY <3>3, <3>4
    <2> QED
      BY <2>2, <2>3, <2>4 DEF Clients
  <1>16. Searched'
    BY <1>1, <1>11 DEF Inv, Searched
  <1>17. Progress'
    BY <1>1, <1>2, <1>4, <1>11 DEF Progress, Granted
  <1> QED
    BY <1>11, <1>12, <1>15, <1>16, <1>17 DEF Inv

\* mm_init: the prologue, the epilogue and the first free block.
LEMMA InitRight == Init => Inv
  <1> SUFFICES ASSUME Init PROVE Inv
    OBVIOUS
  <1>1. /\ CHUNKSIZE \in Nat /\ CHUNKSIZE >= 4 /\ 4 + CHUNKSIZE <= MaxHeap /\ MaxHeap \in Nat
        /\ Even(CHUNKSIZE)
    BY SizeAssumption DEF Even
  <1>2. /\ brk = 4 + CHUNKSIZE /\ epilogue = 3 + CHUNKSIZE /\ blocks = {4}
        /\ pc = "idle" /\ after = "idle" /\ call = [id |-> NULL, size |-> 0]
        /\ block = [i \in Id |-> NULL] /\ bsize = [i \in Id |-> 0]
        /\ fit \in {"first", "next", "best"}
        /\ last_fit_ptr = IF fit = "next" THEN 4 ELSE NULL
    BY DEF Init
  <1>3. /\ mem[1] = PACK(2, 1) /\ mem[2] = PACK(2, 1)
        /\ mem[3] = PACK(CHUNKSIZE, 0) /\ mem[2 + CHUNKSIZE] = PACK(CHUNKSIZE, 0)
        /\ mem[3 + CHUNKSIZE] = PACK(0, 1)
        /\ mem \in [Word -> Value]
    <2>1. /\ 1 \in Word /\ 2 \in Word /\ 3 \in Word
          /\ 2 + CHUNKSIZE \in Word /\ 3 + CHUNKSIZE \in Word
      BY <1>1 DEF Word
    <2>2. PACK(2, 1) \in Value /\ PACK(CHUNKSIZE, 0) \in Value /\ PACK(0, 1) \in Value
      BY <1>1 DEF PACK, Value, Tag
    <2>3. NULL \in Value
      BY DEF Value
    <2>4. \A w \in Word : mem[w] = CASE w \in {1, 2} -> PACK(2, 1)
                                     [] w \in {3, 2 + CHUNKSIZE} -> PACK(CHUNKSIZE, 0)
                                     [] w = 3 + CHUNKSIZE -> PACK(0, 1)
                                     [] OTHER -> NULL
      BY DEF Init, DSIZE
    <2>5. /\ mem[1] = PACK(2, 1) /\ mem[2] = PACK(2, 1) /\ mem[3] = PACK(CHUNKSIZE, 0)
          /\ mem[2 + CHUNKSIZE] = PACK(CHUNKSIZE, 0) /\ mem[3 + CHUNKSIZE] = PACK(0, 1)
      BY <1>1, <2>1, <2>4
    <2>6. \A w \in Word : mem[w] \in Value
      BY <2>2, <2>3, <2>4
    <2>7. mem = [w \in Word |-> mem[w]]
      BY DEF Init
    <2> QED
      BY <2>5, <2>6, <2>7
  <1>4. Sz(mem, 4) = CHUNKSIZE /\ mem[4 - 1].alloc = 0
    BY <1>3 DEF Sz, PACK
  <1>5. TypeCorrect
    <2>1. Even(4 + CHUNKSIZE)
      BY <1>1, Evens DEF Even
    <2> QED
      BY <1>1, <1>2, <1>3, <2>1 DEF TypeCorrect
  <1>6. HeapRight
    <2>1. PACK(CHUNKSIZE, 0) \in Tag /\ Even(4)
      BY <1>1 DEF PACK, Tag, Even
    <2>2. brk - 1 = 3 + CHUNKSIZE /\ 4 + Sz(mem, 4) - 2 = 2 + CHUNKSIZE
      BY <1>1, <1>2, <1>4
    <2>3. Ends(mem)
      BY <1>2, <1>3, <2>2 DEF Ends, DSIZE
    <2>4. Tiled(mem, blocks, brk)
      BY <1>1, <1>2, <1>3, <1>4, <2>1, <2>2 DEF Tiled, DSIZE
    <2> QED
      BY <2>3, <2>4 DEF HeapRight
  <1>7. Clients
    BY <1>2, <1>4 DEF Clients, At, Asked, Granted
  <1>8. Searched /\ Progress
    BY <1>2 DEF Searched, Progress, Granted
  <1> QED
    BY <1>5, <1>6, <1>7, <1>8 DEF Inv

\* Every step keeps the invariant, one lemma per action.
LEMMA NextKeeps == Inv /\ [Next]_vars => Inv'
  <1> SUFFICES ASSUME Inv, [Next]_vars PROVE Inv'
    OBVIOUS
  <1>1. CASE \E i \in Id : Free(i)
    BY <1>1, FreeKeeps
  <1>2. CASE \E i \in Id, n \in Size : Malloc(i, n)
    BY <1>2, StartSearchKeeps DEF Malloc
  <1>3. CASE \E i \in Id, n \in Size : Realloc(i, n)
    BY <1>3, ReallocShrinkDecides, ReallocMergeDecides, DecisionKeeps, ReallocExtendKeeps,
       StartSearchKeeps
       DEF Realloc, ReallocMove
  <1>4. CASE CallStep
    BY <1>4, SearchNextKeeps, SearchBestKeeps, SearchHitKeeps, SearchEndKeeps, WrapNextKeeps,
       WrapEndKeeps, MallocExtendKeeps, MallocFailsKeeps, CoalesceDoneKeeps, CoalesceMergeKeeps,
       MallocPlaceDecides, ReallocGrowDecides, DecisionKeeps, ReallocCopyKeeps, ReturnKeeps,
       FillKeeps
       DEF CallStep
  <1>5. CASE UNCHANGED vars
    <2>1. UNCHANGED <<fit, mem, brk, epilogue, last_fit_ptr, blocks, pc, after, call, ptr,
                      best_ptr, res, block, bsize>>
      BY <1>5 DEF vars, heap, client
    <2>2. TypeCorrect'
      BY <2>1 DEF Inv, TypeCorrect
    <2>3. HeapRight'
      BY <2>1 DEF Inv, HeapRight, Ends
    <2>4. \A i \in Id : At(i)' = At(i) /\ Asked(i)' = Asked(i)
      BY <2>1 DEF At, Asked, Granted
    <2>5. Clients'
      <3>1. InUse' = InUse
        BY <2>1, <2>4 DEF InUse
      <3> QED
        BY <2>1, <2>4, <3>1, ClientsKept
    <2>6. \A b : Fits(b)' <=> Fits(b)
      BY <2>1 DEF Fits, GET_ALLOC, GET_SIZE
    <2>7. Searched'
      BY <2>1, <2>6 DEF Inv, Searched
    <2>8. Progress'
      BY <2>1, <2>6 DEF Inv, Progress, Enough, Grows, Granted
    <2> QED
      BY <2>2, <2>3, <2>5, <2>7, <2>8 DEF Inv
  <1> QED
    BY <1>1, <1>2, <1>3, <1>4, <1>5 DEF Next

\* For every size of the heap, of the requests and of the chunks, under each search:
\* between any two steps of mm_malloc, mm_free and mm_realloc the blocks tile the
\* heap, the caller's blocks are allocated ones of their size, and a search
\* knows what it has passed.
THEOREM Invariant == Spec => []Inv
  BY InitRight, NextKeeps, PTL DEF Spec

-----------------------------------------------------------------------------
(* What follows from the invariant. *)

\* The parts of the invariant that HeapTiled states in the code's macros.
LEMMA TiledRight == Inv => HeapTiled
  <1> SUFFICES ASSUME Inv PROVE HeapTiled
    OBVIOUS
  <1>1. /\ Tiled(mem, blocks, brk) /\ Ends(mem) /\ brk \in 0 .. MaxHeap
    BY DEF Inv, HeapRight, TypeCorrect
  <1>2. ASSUME NEW b \in blocks
        PROVE  /\ Tagged(b) /\ b >= 4 /\ b < brk
               /\ NEXT_BLKP(b) \in blocks \cup {brk}
               /\ \A c \in blocks : c > b => c >= NEXT_BLKP(b)
    <2>1. /\ b \in Nat /\ b >= 4 /\ b < brk /\ Sz(mem, b) \in Nat /\ Sz(mem, b) >= 2
          /\ b + Sz(mem, b) \in blocks \cup {brk}
          /\ \A c \in blocks : c > b => c >= b + Sz(mem, b)
          /\ Even(Sz(mem, b)) /\ mem[b - 1] \in Tag /\ mem[b + Sz(mem, b) - 2] = mem[b - 1]
      BY <1>1, Shape
    <2>2. HDRP(b) = b - 1 /\ GET_SIZE(HDRP(b)) = Sz(mem, b) /\ NEXT_BLKP(b) = b + Sz(mem, b)
      BY DEF HDRP, WSIZE, GET_SIZE, Sz, NEXT_BLKP
    <2>3. FTRP(b) = b + Sz(mem, b) - 2
      BY <2>1, <2>2 DEF FTRP, DSIZE
    <2>4. Tagged(b)
      BY <2>1, <2>2, <2>3 DEF Tagged, DSIZE
    <2> QED
      BY <2>1, <2>2, <2>4
  <1>3. 4 \in blocks
    BY <1>1 DEF Tiled
  <1>4. /\ mem[1] = PACK(DSIZE, 1) /\ mem[2] = PACK(DSIZE, 1)
        /\ epilogue = HDRP(brk) /\ mem[epilogue] = PACK(0, 1)
    BY <1>1 DEF Ends, HDRP, WSIZE
  <1> QED
    BY <1>2, <1>3, <1>4 DEF HeapTiled

\* For every heap, every size and every sequence of calls: the blocks tile
\* the heap from the prologue to the epilogue, each with a footer like its header
\* (what the walks of first_fit, next_fit, best_fit and coalesce rely on).
THEOREM HeapStaysTiled == Spec => []HeapTiled
  BY Invariant, TiledRight, PTL

\* The caller's pointers, and the roving pointer, in the invariant.
LEMMA PointersRight == Inv => PointersAreBlocks
  <1> SUFFICES ASSUME Inv PROVE PointersAreBlocks
    OBVIOUS
  <1>1. \A b : GET_ALLOC(HDRP(b)) <=> mem[b - 1].alloc = 1
    BY DEF GET_ALLOC, HDRP, WSIZE
  <1>2. \A b : GET_SIZE(HDRP(b)) = Sz(mem, b)
    BY DEF GET_SIZE, HDRP, WSIZE, Sz
  <1>3. /\ fit = "next" => last_fit_ptr \in blocks \cup {brk}
        /\ pc \in {"search", "wrap"} => ptr \in blocks \cup {heap_listp, brk}
    BY DEF Inv, Searched
  <1>4. pc \in {"coalesce", "place"} => ptr \in blocks /\ ~GET_ALLOC(HDRP(ptr))
    BY <1>1, FitsRight DEF Inv, Progress
  <1>5. pc \in {"copy", "return", "fill"} =>
           res \in blocks /\ GET_SIZE(HDRP(res)) >= DSIZE + call.size
    <2> SUFFICES ASSUME pc \in {"copy", "return", "fill"}
                 PROVE  res \in blocks /\ DSIZE + call.size <= Sz(mem, res)
      <3>1. /\ res \in blocks /\ DSIZE + call.size <= Sz(mem, res) =>
                  Sz(mem, res) >= DSIZE + call.size
        OBVIOUS
      <3> QED
        BY <1>2, <3>1
    <2>1. call.id \in Id /\ res \in blocks
      BY DEF Inv, TypeCorrect, Progress, Granted
    <2>2. res # NULL
      BY <2>1, Walk, NullAssumption DEF Inv
    <2>3. pc # "copy" => At(call.id) = res /\ Asked(call.id) = call.size
      BY DEF Inv, Progress, At, Asked, Granted
    <2> QED
      BY <2>1, <2>2, <2>3 DEF Inv, Clients, Progress
  <1> QED
    BY <1>3, <1>4, <1>5 DEF PointersAreBlocks

\* The pointers the code keeps never point into the middle of a block, whatever
\* coalesce merges under them: the roving pointer of next_fit, the cursor of a search,
\* the block being placed or coalesced, and the block a call is about to return,
\* which has room for what was asked.
THEOREM PointersStayBlocks == Spec => []PointersAreBlocks
  BY Invariant, PointersRight, PTL

\* The allocated blocks are those in use, in the invariant.
LEMMA AllocatedRight == Inv => AllocatedIffInUse
  <1> SUFFICES ASSUME Inv PROVE {b \in blocks : GET_ALLOC(HDRP(b))} = InUse
    BY DEF AllocatedIffInUse
  <1>1. \A b \in blocks : GET_ALLOC(HDRP(b)) => b \in InUse
    BY DEF GET_ALLOC, HDRP, WSIZE, Inv, Clients
  <1>2. \A b \in InUse : b \in blocks /\ mem[b - 1].alloc = 1
    BY DEF InUse, Inv, Clients, Progress
  <1> QED
    BY <1>1, <1>2 DEF GET_ALLOC, HDRP, WSIZE

\* The blocks marked allocated are those a caller holds or the call at hand is
\* about to return or to copy to: mm_free and mm_realloc leave no allocated block
\* behind, and mm_malloc hands out no block that is in use.
THEOREM AllocatedExactlyInUse == Spec => []AllocatedIffInUse
  BY Invariant, AllocatedRight, PTL

\* A search that ends does so with the block it promised.
LEMMA FitRightStep == Inv /\ [Next]_vars => [FitRight]_vars
  <1> SUFFICES ASSUME Inv, Next, pc \in {"search", "wrap"} PROVE FitRight
    BY DEF FitRight
  <1> DEFINE needed  == DSIZE + ALIGN(call.size)
             fitting == {b \in blocks : mem[b - 1].alloc = 0 /\ mem[b - 1].size >= needed}
             from(b) == IF fit = "next" /\ b < last_fit_ptr THEN b + MaxHeap ELSE b
             first(b) == \A c \in fitting : from(b) <= from(c)
             best(b) == \A c \in fitting :
                          \/ GET_SIZE(HDRP(b)) < GET_SIZE(HDRP(c))
                          \/ GET_SIZE(HDRP(b)) = GET_SIZE(HDRP(c)) /\ b <= c
  <1>1. /\ needed = Asize(call.size) /\ Asize(call.size) \in Nat
    BY AskedRight DEF Asize, Inv, TypeCorrect
  <1>2. /\ brk \in 5 .. MaxHeap /\ blocks \subseteq 4 .. (brk - 1)
        /\ \A b \in blocks : Sz(mem, b) \in 2 .. MaxHeap /\ mem[b - 1].alloc \in {0, 1}
    BY Walk DEF Inv
  <1>3. fitting = {b \in blocks : Fits(b)}
    <2>1. \A b \in blocks : Fits(b) <=> mem[b - 1].alloc = 0 /\ mem[b - 1].size >= needed
      BY <1>1, <1>2, FitsRight DEF Sz
    <2> QED
      BY <2>1
  <1> HIDE DEF needed, fitting
  <1> SUFFICES /\ pc' = "extend" => fitting = {}
               /\ pc' = "place" => /\ ptr' \in fitting
                                   /\ IF fit = "best" THEN best(ptr') ELSE first(ptr')
    BY DEF FitRight, needed, fitting
  <1>4. CASE SearchNext \/ SearchBest \/ WrapNext
    BY <1>4 DEF SearchNext, SearchBest, WrapNext
  <1>5. CASE SearchHit
    <2>1. ptr \in blocks /\ Fits(ptr) /\ pc = "search" /\ fit # "best" /\ ptr' = ptr /\ pc' = "place"
      BY <1>5, FitsRight, Walk DEF SearchHit, Inv, Searched
    <2>2. first(ptr)
      <3>1. CASE fit = "first"
        BY <1>2, <1>3, <2>1, <3>1 DEF Inv, Searched
      <3>2. CASE fit = "next"
        <4>1. /\ last_fit_ptr \in Nat /\ last_fit_ptr <= ptr /\ ptr <= MaxHeap /\ ptr \in Nat
              /\ \A b \in blocks : last_fit_ptr <= b /\ b < ptr => ~Fits(b)
          BY <1>2, <2>1, <3>2, MaxNat DEF Inv, Searched
        <4>2. from(ptr) = ptr
          BY <4>1
        <4>3. \A c \in fitting : c \in Nat /\ (c < last_fit_ptr \/ c >= ptr)
          BY <1>2, <1>3, <4>1
        <4> QED
          BY <3>2, <4>1, <4>2, <4>3, MaxNat
      <3> QED
        BY <2>1, <3>1, <3>2 DEF Inv, TypeCorrect
    <2> QED
      BY <1>3, <2>1, <2>2
  <1>6. CASE WrapHit
    <2>1. /\ fit = "next" /\ ptr < last_fit_ptr /\ ptr' = ptr /\ pc' = "place" /\ Fits(ptr)
          /\ \A b \in blocks : b < ptr \/ last_fit_ptr <= b => ~Fits(b)
      BY <1>6 DEF WrapHit, Inv, Searched
    <2>2. ptr \in blocks /\ last_fit_ptr \in Nat
      <3>1. last_fit_ptr \in blocks \cup {brk} /\ ptr \in blocks \cup {heap_listp, brk}
        BY <1>6, <2>1 DEF WrapHit, Inv, Searched
      <3>2. mem[ptr - 1].alloc # 1
        BY <2>1, FitsRight
      <3> QED
        BY <1>2, <3>1, <3>2, Walk DEF Inv
    <2>3. \A c \in fitting : c \in Nat /\ ptr <= c /\ c < last_fit_ptr
      BY <1>2, <1>3, <2>1, <2>2
    <2>4. first(ptr)
      BY <1>2, <2>1, <2>2, <2>3, MaxNat
    <2> QED
      BY <1>3, <2>1, <2>2, <2>4
  <1>7. CASE SearchEnd
    <2>1. /\ pc = "search" /\ ptr = brk
      BY <1>7, AtEndRight DEF SearchEnd, Inv, Searched
    <2>2. \A b \in blocks : b < ptr
      BY <1>2, <2>1
    <2>3. CASE fit = "first" \/ (fit = "best" /\ best_ptr = NULL)
      BY <1>3, <1>7, <2>1, <2>2, <2>3 DEF SearchEnd, Inv, Searched
    <2>4. CASE fit = "next"
      BY <1>7, <2>4 DEF SearchEnd
    <2>5. CASE fit = "best" /\ best_ptr # NULL
      <3>1. ptr' = best_ptr /\ pc' = "place"
        BY <1>7, <2>5 DEF SearchEnd
      <3>2. /\ best_ptr \in blocks /\ Fits(best_ptr)
            /\ \A b \in blocks : Fits(b) =>
                  \/ Sz(mem, best_ptr) < Sz(mem, b)
                  \/ Sz(mem, best_ptr) = Sz(mem, b) /\ best_ptr <= b
        BY <2>1, <2>2, <2>5 DEF Inv, Searched
      <3>3. best(best_ptr)
        BY <1>3, <3>2 DEF GET_SIZE, HDRP, WSIZE, Sz
      <3> QED
        BY <1>3, <2>5, <3>1, <3>2, <3>3
    <2> QED
      BY <2>3, <2>4, <2>5 DEF Inv, TypeCorrect
  <1>8. CASE WrapEnd
    <2>1. /\ fit = "next" /\ pc' = "extend" /\ ptr >= last_fit_ptr
          /\ \A b \in blocks : b < ptr \/ last_fit_ptr <= b => ~Fits(b)
          /\ last_fit_ptr \in blocks \cup {brk} /\ ptr \in blocks \cup {2, brk}
      BY <1>8 DEF WrapEnd, Inv, Searched, heap_listp
    <2>3. ptr \in Nat /\ last_fit_ptr \in Nat
      BY <1>2, <2>1
    <2>2. \A b \in blocks : ~Fits(b)
      BY <1>2, <2>1, <2>3
    <2> QED
      BY <1>3, <2>1, <2>2
  <1> QED
    BY <1>4, <1>5, <1>6, <1>7, <1>8
       DEF Next, CallStep, Free, Malloc, Realloc, ReallocShrink, ReallocMerge, ReallocExtend,
           ReallocMove, ReallocStart, MallocExtend, MallocFails, CoalesceDone, CoalesceMerge,
           MallocPlace, ReallocGrow, ReallocCopy, Return, Fill

\* first_fit returns the lowest block that fits, best_fit the smallest, next_fit
\* the first from its roving pointer on; and none gives up while a block fits.
THEOREM FitAlwaysRight == Spec => FitIsRight
  BY Invariant, FitRightStep, PTL DEF Spec, FitIsRight

-----------------------------------------------------------------------------
(* The refinement: each step is a step of Allocator, or leaves all that it *)
(* speaks of unchanged.                                                    *)
\* What block i of the contract holds.
DataOf(i) == [k \in 0 .. (Asked(i) - 1) |-> mem[At(i) + k]]

Same(i) == At(i)' = At(i) /\ Asked(i)' = Asked(i) /\ DataOf(i)' = DataOf(i)

\* Nothing the contract speaks of has changed.
LEMMA MapsStutter ==
    ASSUME \A i \in Id : Same(i), brk' = brk
    PROVE  UNCHANGED Contract!vars
  BY DEF Contract!vars, Same, DataOf

\* Only the break has moved.
LEMMA MapsExtend ==
    ASSUME \A i \in Id : Same(i), brk' \in 0 .. MaxHeap, brk' >= brk
    PROVE  Contract!Next
  BY DEF Contract!Next, Contract!Extend, Same, DataOf

\* The heap after mm_init is one of the contract's first states.
LEMMA MapsInit == Init => Contract!Init
  <1> SUFFICES ASSUME Init PROVE Contract!Init
    OBVIOUS
  <1>1. \A i \in Id : At(i) = NULL
    BY DEF Init, At, Granted
  <1>2. brk \in 0 .. MaxHeap
    BY SizeAssumption DEF Init
  <1> QED
    BY <1>1, <1>2 DEF Contract!Init

\* A block has been given up.
LEMMA MapsFree ==
    ASSUME NEW i \in Id, At(i) # NULL, At(i)' = NULL, Asked(i)' = 0,
           \A j \in Id \ {i} : Same(j), brk' = brk
    PROVE  Contract!Next
  BY DEF Contract!Next, Contract!Free, Contract!Others, Same, DataOf

\* A block has been written.
LEMMA MapsWrite ==
    ASSUME NEW i \in Id, At(i) # NULL, At(i)' = At(i), Asked(i)' = Asked(i),
           DataOf(i)' = [k \in 0 .. (Asked(i) - 1) |-> i],
           \A j \in Id \ {i} : Same(j), brk' = brk
    PROVE  Contract!Next
  <1>1. Contract!Write(i)
    BY DEF Contract!Write, Contract!Others, Same, DataOf
  <1> QED
    BY <1>1 DEF Contract!Next

\* A block is given to i, apart from the others.
LEMMA MapsGranted ==
    ASSUME NEW i \in Id, NEW p \in 0 .. MaxHeap, NEW n \in Nat, At(i)' = p, Asked(i)' = n,
           Even(p), p + n <= brk', brk' \in 0 .. MaxHeap, brk' >= brk,
           \A j \in Id \ {i} : Same(j),
           \A j \in Id \ {i} : At(j) # NULL =>
              (At(j) .. (At(j) + Asked(j) - 1)) \cap (p .. (p + n - 1)) = {}
    PROVE  Contract!Granted(i, p, n)
  BY DEF Contract!Granted, Contract!Fits, Contract!Payload, Contract!Others, Same, DataOf, Even

\* A new block is one the contract lets mm_malloc return.
LEMMA MapsMalloc ==
    ASSUME NEW i \in Id, NEW p \in 0 .. MaxHeap, NEW n \in Size, Contract!Granted(i, p, n),
           At(i) = NULL
    PROVE  Contract!Next
  <1>1. Contract!Malloc(i)
    BY DEF Contract!Malloc
  <1> QED
    BY <1>1 DEF Contract!Next

\* A new block with the old contents is one it lets mm_realloc return.
LEMMA MapsRealloc ==
    ASSUME NEW i \in Id, NEW p \in 0 .. MaxHeap, NEW n \in Size, Contract!Granted(i, p, n),
           At(i) # NULL, At(i)' = p, Asked(i)' = n,
           \A k \in 0 .. (Asked(i) - 1) : k < n => mem'[p + k] = mem[At(i) + k]
    PROVE  Contract!Next
  <1>1. /\ [j \in Id |-> At(j)][i] = At(i) /\ [j \in Id |-> Asked(j)'][i] = n
    OBVIOUS
  <1>2. n \in Nat
    BY SizeAssumption
  <1>3. \A k \in 0 .. (Asked(i) - 1) : k < n =>
           [j \in Id |-> [l \in 0 .. (Asked(j)' - 1) |-> mem'[At(j)' + l]]][i][k] =
           [j \in Id |-> [l \in 0 .. (Asked(j) - 1) |-> mem[At(j) + l]]][i][k]
    BY <1>2
  <1>4. Contract!Realloc(i)
    BY <1>1, <1>3 DEF Contract!Realloc
  <1> QED
    BY <1>4 DEF Contract!Next

\* Two blocks in use have room for what they hold, apart from each other.
LEMMA Apart ==
    ASSUME NEW m, NEW bs, NEW end \in 0 .. MaxHeap, Tiled(m, bs, end),
           NEW b \in bs, NEW c \in bs, b # c, NEW x \in Nat, NEW y \in Nat,
           DSIZE + x <= Sz(m, b), DSIZE + y <= Sz(m, c)
    PROVE  (b .. (b + x - 1)) \cap (c .. (c + y - 1)) = {}
  <1>1. /\ b \in Nat /\ c \in Nat /\ Sz(m, b) \in Nat /\ Sz(m, c) \in Nat
        /\ c < b => c + Sz(m, c) <= b
        /\ c > b => c >= b + Sz(m, b)
    BY Shape
  <1>2. b + x - 1 < b + Sz(m, b) /\ c + y - 1 < c + Sz(m, c)
    BY <1>1 DEF DSIZE
  <1>3. CASE c < b
    BY <1>1, <1>2, <1>3
  <1>4. CASE c > b
    BY <1>1, <1>2, <1>4
  <1> QED
    BY <1>1, <1>3, <1>4

\* What the invariant says of a block in use.
LEMMA Holds ==
    ASSUME Inv, NEW i \in Id, At(i) # NULL
    PROVE  /\ At(i) \in blocks /\ mem[At(i) - 1].alloc = 1 /\ At(i) \in Nat /\ Asked(i) \in Nat
           /\ DSIZE + Asked(i) <= Sz(mem, At(i)) /\ Sz(mem, At(i)) \in Nat
           /\ At(i) + Sz(mem, At(i)) <= brk /\ Even(At(i))
  <1>1. /\ At(i) \in blocks /\ mem[At(i) - 1].alloc = 1
        /\ DSIZE + Asked(i) <= Sz(mem, At(i))
    BY DEF Inv, Clients
  <1>2. Tiled(mem, blocks, brk) /\ brk \in 0 .. MaxHeap
    BY DEF Inv, HeapRight, TypeCorrect
  <1>3. Asked(i) \in Nat
    BY DEF Asked, Inv, TypeCorrect
  <1> QED
    BY <1>1, <1>2, <1>3, Shape

\* A block that stays where it is and is not written to holds what it held.
LEMMA KeptSame ==
    ASSUME Inv, NEW i \in Id, At(i)' = At(i), Asked(i)' = Asked(i),
           At(i) # NULL => \A w \in At(i) .. (At(i) + Sz(mem, At(i)) - 3) : mem'[w] = mem[w]
    PROVE  Same(i)
  <1>1. CASE At(i) = NULL
    <2>1. Asked(i) = 0
      BY <1>1 DEF Inv, Clients
    <2>2. \A k \in 0 .. (Asked(i) - 1) : mem'[At(i) + k] = mem[At(i) + k]
      BY <2>1
    <2> QED
      BY <2>2 DEF Same, DataOf
  <1>2. CASE At(i) # NULL
    <2>1. /\ At(i) \in Nat /\ Asked(i) \in Nat
          /\ DSIZE + Asked(i) <= Sz(mem, At(i)) /\ Sz(mem, At(i)) \in Nat
      BY <1>2, Holds
    <2>2. \A k \in 0 .. (Asked(i) - 1) :
             At(i) + k \in At(i) .. (At(i) + Sz(mem, At(i)) - 3)
      BY <2>1 DEF DSIZE
    <2>3. \A k \in 0 .. (Asked(i) - 1) : mem'[At(i) + k] = mem[At(i) + k]
      BY <1>2, <2>2
    <2> QED
      BY <2>3 DEF Same, DataOf
  <1> QED
    BY <1>1, <1>2

\* Where a step preserves the blocks in use, their contents are the same.
LEMMA PreservedSame ==
    ASSUME Inv, Preserved, NEW i \in Id, At(i)' = At(i), Asked(i)' = Asked(i)
    PROVE  Same(i)
  <1>1. At(i) # NULL => At(i) \in blocks /\ mem[At(i) - 1].alloc = 1
    BY DEF Inv, Clients
  <1> QED
    BY <1>1, KeptSame DEF Preserved

\* A block is given to i: the contract's condition, from the invariant of the
\* state that is reached.
LEMMA GivenRight ==
    ASSUME Inv, Inv', NEW i \in Id, NEW p, NEW n \in Nat, At(i)' = p, Asked(i)' = n, p # NULL,
           brk' = brk, \A j \in Id \ {i} : Same(j)
    PROVE  Contract!Granted(i, p, n) /\ p \in 0 .. MaxHeap
  <1>1. /\ Tiled(mem', blocks', brk') /\ brk' \in 0 .. MaxHeap /\ brk' \in Nat /\ brk' <= MaxHeap
    BY MaxNat DEF Inv, HeapRight, TypeCorrect
  <1>2. p \in blocks' /\ DSIZE + n <= Sz(mem', p)
    BY DEF Inv, Clients
  <1>3. /\ p \in Nat /\ Sz(mem', p) \in Nat /\ p + Sz(mem', p) <= brk' /\ Even(p)
    BY <1>1, <1>2, Shape
  <1>4. p \in 0 .. MaxHeap /\ p + n <= brk'
    BY <1>1, <1>2, <1>3, MaxNat DEF DSIZE
  <1>5. ASSUME NEW j \in Id \ {i}, At(j) # NULL
        PROVE  (At(j) .. (At(j) + Asked(j) - 1)) \cap (p .. (p + n - 1)) = {}
    <2>1. At(j)' = At(j) /\ Asked(j)' = Asked(j)
      BY DEF Same
    <2>2. /\ At(j) \in blocks' /\ DSIZE + Asked(j) <= Sz(mem', At(j)) /\ At(j) # p
      BY <1>5, <2>1 DEF Inv, Clients
    <2>3. Asked(j) \in Nat
      BY DEF Asked, Inv, TypeCorrect
    <2> QED
      BY <1>1, <1>2, <2>2, <2>3, Apart
  <1>6. brk' >= brk
    BY <1>1
  <1> QED
    BY <1>1, <1>3, <1>4, <1>5, <1>6, MapsGranted

\* A call that decides on a block grants it as the contract asks.
LEMMA MapsDecision ==
    ASSUME Inv, NEW p, NEW q, NEW asize, Decision(p, q, asize)
    PROVE  Contract!Next \/ UNCHANGED Contract!vars
  <1>1. PICK i \in Id : i = call'.id
    BY DEF Decision
  <1>2. PICK n \in Size : n = call'.size
    BY DEF Decision
  <1>3. /\ p \in blocks /\ q \in blocks \cup {brk} /\ p < q /\ asize \in Nat
        /\ OnlyIn(mem, mem', p, q) /\ mem'[p - 1].alloc = 1
        /\ \A w \in p .. (p + asize - 3) : w \in p .. (p + Sz(mem, p) - 3) => mem'[w] = mem[w]
        /\ UNCHANGED <<brk, client>>
        /\ DSIZE + n <= asize /\ res' = p /\ ~Granted /\ pc # "copy"
        /\ \A b \in blocks : b \in p .. (q - 1) =>
              mem[b - 1].alloc = 0 \/ (b = p /\ block[i] = p)
        /\ \/ pc' = "return" /\ block[i] \in {NULL, p}
           \/ pc' = "copy" /\ block[i] # NULL /\ mem[p - 1].alloc = 0
    BY <1>1, <1>2 DEF Decision, Granting
  <1>4. Inv'
    BY DecisionKeeps
  <1>5. /\ Tiled(mem, blocks, brk) /\ brk \in 0 .. MaxHeap /\ p \in Nat /\ q \in Nat
        /\ n \in Nat /\ Sz(mem, p) \in Nat /\ Sz(mem, p) >= 2
    BY <1>3, Walk, SizeAssumption DEF Inv, HeapRight, TypeCorrect
  <1>6. \A j \in Id :
           /\ At(j) = block[j] /\ Asked(j) = bsize[j]
           /\ At(j)' = IF pc' = "return" /\ j = i THEN p ELSE block[j]
           /\ Asked(j)' = IF pc' = "return" /\ j = i THEN n ELSE bsize[j]
    BY <1>1, <1>2, <1>3 DEF At, Asked, Granted, client
  <1>7. ASSUME NEW j \in Id, j # i \/ pc' = "copy"
        PROVE  Same(j)
    <2>1. At(j)' = At(j) /\ Asked(j)' = Asked(j)
      BY <1>6, <1>7
    <2>2. ASSUME At(j) # NULL
          PROVE  \A w \in At(j) .. (At(j) + Sz(mem, At(j)) - 3) : mem'[w] = mem[w]
      <3>1. At(j) \in blocks /\ mem[At(j) - 1].alloc = 1
        BY <2>2 DEF Inv, Clients
      <3>2. At(j) \notin p .. (q - 1)
        <4>1. j # i => At(j) # At(i)
          BY <2>2 DEF Inv, Clients
        <4>2. At(i) = block[i] /\ At(j) = block[j]
          BY <1>6
        <4> QED
          BY <1>3, <1>7, <3>1, <4>1, <4>2
      <3> QED
        BY <1>3, <1>5, <3>1, <3>2, Untouched
    <2> QED
      BY <2>1, <2>2, KeptSame
  <1>8. CASE pc' = "copy"
    <2>1. \A j \in Id : Same(j)
      BY <1>7, <1>8
    <2> QED
      BY <1>3, <2>1, MapsStutter
  <1>9. CASE pc' = "return"
    <2>1. p # NULL
      BY <1>5, NullAssumption
    <2>2. At(i)' = p /\ Asked(i)' = n
      BY <1>6, <1>9
    <2>3. Contract!Granted(i, p, n) /\ p \in 0 .. MaxHeap
      BY <1>3, <1>4, <1>5, <1>7, <2>1, <2>2, GivenRight
    <2>4. CASE block[i] = NULL
      BY <1>6, <2>3, <2>4, MapsMalloc
    <2>5. CASE block[i] = p
      <3>1. At(i) = p
        BY <1>6, <2>5
      <3>2. Asked(i) \in Nat /\ DSIZE + Asked(i) <= Sz(mem, p)
        BY <2>1, <3>1, Holds
      <3>3. \A k \in 0 .. (Asked(i) - 1) : k < n =>
               p + k \in p .. (p + asize - 3) /\ p + k \in p .. (p + Sz(mem, p) - 3)
        BY <1>3, <1>5, <3>2 DEF DSIZE
      <3>4. \A k \in 0 .. (Asked(i) - 1) : k < n => mem'[p + k] = mem[At(i) + k]
        BY <1>3, <3>1, <3>3
      <3> QED
        BY <2>1, <2>2, <2>3, <3>1, <3>4, MapsRealloc
    <2> QED
      BY <1>3, <1>9, <2>4, <2>5
  <1> QED
    BY <1>3, <1>8, <1>9

\* A step of a search changes nothing the contract speaks of.
LEMMA MapsLook ==
    ASSUME Inv, UNCHANGED <<mem, brk, call, res, client>>, Granted' = Granted
    PROVE  UNCHANGED Contract!vars
  <1>1. \A i \in Id : At(i)' = At(i) /\ Asked(i)' = Asked(i)
    BY DEF At, Asked, client
  <1>2. Preserved
    BY DEF Preserved
  <1>3. \A i \in Id : Same(i)
    BY <1>1, <1>2, PreservedSame
  <1> QED
    BY <1>3, MapsStutter

\* Nor does the return of a call: its block was granted when it was placed.
LEMMA MapsReturn ==
    ASSUME Inv, Return
    PROVE  UNCHANGED Contract!vars
  <1>1. \A i \in Id : At(i)' = At(i) /\ Asked(i)' = Asked(i)
    BY DEF Return, At, Asked, Granted, Inv, TypeCorrect
  <1>2. Preserved /\ brk' = brk
    BY DEF Preserved, Return, heap
  <1>3. \A i \in Id : Same(i)
    BY <1>1, <1>2, PreservedSame
  <1> QED
    BY <1>2, <1>3, MapsStutter

\* Nor does coalesce.
LEMMA MapsMerge ==
    ASSUME Inv, CoalesceMerge
    PROVE  UNCHANGED Contract!vars
  <1>1. \A i \in Id : At(i)' = At(i) /\ Asked(i)' = Asked(i)
    BY DEF CoalesceMerge, At, Asked, Granted, client
  <1>2. \A i \in Id : Same(i)
    BY <1>1, CoalesceMergeKeeps, PreservedSame
  <1> QED
    BY <1>2, MapsStutter DEF CoalesceMerge

\* A member of a range is below its end.
LEMMA InRange ==
    ASSUME NEW lo \in Int, NEW a \in Int, NEW b \in Int, a \in lo .. (b - 1)
    PROVE  b >= a
  <1> QED
    OBVIOUS

\* extend_heap only moves the break.
LEMMA MapsGrowth ==
    ASSUME Inv, MallocExtend \/ \E i \in Id, n \in Size : ReallocExtend(i, n)
    PROVE  Contract!Next
  <1>1. /\ ~Granted /\ ~Granted' /\ UNCHANGED client
        /\ brk \in blocks'
    BY DEF MallocExtend, ReallocExtend, ReallocStart, Extends, ExtendHeap, Granted
  <1>2. \A i \in Id : At(i)' = At(i) /\ Asked(i)' = Asked(i)
    BY <1>1 DEF At, Asked, client
  <1>3. Inv' /\ Preserved
    BY MallocExtendKeeps, ReallocExtendKeeps
  <1>4. \A i \in Id : Same(i)
    BY <1>2, <1>3, PreservedSame
  <1>5. brk' \in 0 .. MaxHeap /\ brk \in 0 .. MaxHeap
    BY <1>3 DEF Inv, TypeCorrect
  <1>6. brk' >= brk
    <2>1. brk \in 4 .. (brk' - 1)
      BY <1>1, <1>3 DEF Inv, HeapRight, Tiled
    <2>2. brk \in Int /\ brk' \in Int
      BY <1>5
    <2>3. PICK new : new = brk'
      OBVIOUS
    <2>4. new \in Int /\ brk \in 4 .. (new - 1)
      BY <2>1, <2>2, <2>3
    <2>5. new >= brk
      BY <2>2, <2>4
    <2> QED
      BY <2>3, <2>5
  <1> QED
    BY <1>4, <1>5, <1>6, MapsExtend

\* mm_free gives up one block.
LEMMA MapsFreed ==
    ASSUME Inv, NEW i \in Id, Free(i)
    PROVE  Contract!Next
  <1> DEFINE p == block[i]
  <1>1. /\ pc = "idle" /\ p # NULL /\ FreeTags(mem, p) /\ after' = "idle"
        /\ block' = [block EXCEPT ![i] = NULL] /\ bsize' = [bsize EXCEPT ![i] = 0]
        /\ UNCHANGED <<brk, epilogue, blocks, call, res>>
    BY DEF Free
  <1>2. ~Granted
    BY <1>1 DEF Granted
  <1>3. /\ Tiled(mem, blocks, brk) /\ mem \in [Word -> Value] /\ brk \in 0 .. MaxHeap
        /\ block \in [Id -> Nat \cup {NULL}] /\ bsize \in [Id -> Nat] /\ p \in blocks
    BY <1>1, <1>2, Mine DEF Inv, HeapRight, TypeCorrect
  <1>4. /\ OnlyIn(mem, mem', p, p + Sz(mem, p)) /\ pc' = "coalesce"
    BY <1>1, <1>3, FreeTagsRight DEF Inv
  <1>5. \A j \in Id : /\ At(j) = block[j] /\ Asked(j) = bsize[j]
                      /\ At(j)' = IF j = i THEN NULL ELSE block[j]
                      /\ Asked(j)' = IF j = i THEN 0 ELSE bsize[j]
    BY <1>1, <1>2, <1>3, <1>4 DEF At, Asked, Granted
  <1>6. /\ p + Sz(mem, p) \in blocks \cup {brk}
        /\ \A b \in blocks : b # p => b \notin p .. ((p + Sz(mem, p)) - 1)
    <2>1. /\ p \in Nat /\ Sz(mem, p) \in Nat /\ p + Sz(mem, p) \in blocks \cup {brk}
          /\ \A b \in blocks : b \in Nat /\ (b > p => b >= p + Sz(mem, p))
      <3>1. Tiled(mem, blocks, brk) /\ brk \in 0 .. MaxHeap /\ p \in blocks
        BY <1>3
      <3> HIDE DEF p
      <3> QED
        BY <3>1, Shape
    <2> QED
      BY <2>1
  <1>7. ASSUME NEW j \in Id \ {i}
        PROVE  Same(j)
    <2>1. At(j)' = At(j) /\ Asked(j)' = Asked(j)
      BY <1>5
    <2>2. ASSUME At(j) # NULL
          PROVE  \A w \in At(j) .. (At(j) + Sz(mem, At(j)) - 3) : mem'[w] = mem[w]
      <3>1. At(j) \in blocks /\ At(j) # p
        BY <1>1, <1>5, <2>2 DEF Inv, Clients
      <3> QED
        BY <1>3, <1>4, <1>6, <3>1, Untouched
    <2> QED
      BY <2>1, <2>2, KeptSame
  <1>8. At(i) # NULL /\ At(i)' = NULL /\ Asked(i)' = 0
    BY <1>1, <1>5
  <1> QED
    BY <1>1, <1>7, <1>8, MapsFree

\* The caller's writes change its block alone.
LEMMA MapsFill ==
    ASSUME Inv, Fill
    PROVE  Contract!Next
  <1>1. PICK i \in Id : i = call.id
    BY DEF Fill, Inv, TypeCorrect
  <1>2. PICK n \in Size : n = call.size
    BY DEF Fill, Inv, TypeCorrect
  <1>3. /\ pc = "fill" /\ pc' = "idle"
        /\ mem' = [w \in Word |-> IF w \in res .. (res + n - 1) THEN i ELSE mem[w]]
        /\ UNCHANGED <<brk, call, client>>
    BY <1>1, <1>2 DEF Fill
  <1>4. /\ res \in blocks /\ block[i] = res /\ bsize[i] = n /\ n \in Nat /\ res \in Nat
        /\ res # NULL /\ Tiled(mem, blocks, brk) /\ brk \in 0 .. MaxHeap /\ brk <= MaxHeap
        /\ brk \in Nat
    BY <1>1, <1>2, <1>3, SizeAssumption, NullAssumption, Walk
       DEF Inv, Progress, TypeCorrect, HeapRight
  <1>5. \A j \in Id : /\ At(j) = block[j] /\ Asked(j) = bsize[j]
                      /\ At(j)' = At(j) /\ Asked(j)' = Asked(j)
    BY <1>3 DEF At, Asked, Granted, client
  <1>6. At(i) = res /\ Asked(i) = n
    BY <1>4, <1>5
  <1>7. /\ DSIZE + n <= Sz(mem, res) /\ Sz(mem, res) \in Nat /\ res + Sz(mem, res) <= brk
    BY <1>4, <1>6, Holds
  <1>8. \A j \in Id \ {i} : Same(j)
    <2> SUFFICES ASSUME NEW j \in Id \ {i} PROVE Same(j)
      OBVIOUS
    <2>1. ASSUME At(j) # NULL
          PROVE  \A w \in At(j) .. (At(j) + Sz(mem, At(j)) - 3) : mem'[w] = mem[w]
      <3> DEFINE b == At(j)
      <3>1. b \in blocks /\ b # res
        BY <1>4, <1>6, <2>1 DEF Inv, Clients
      <3>2. /\ b \in Nat /\ b >= 4 /\ Sz(mem, b) \in Nat /\ b + Sz(mem, b) <= brk
            /\ b < res => b + Sz(mem, b) <= res
            /\ b > res => b >= res + Sz(mem, res)
        BY <1>4, <3>1, Shape
      <3> HIDE DEF b
      <3>3. \A w \in b .. (b + Sz(mem, b) - 3) : w \in Word /\ w \notin res .. (res + n - 1)
        <4>1. CASE b < res
          BY <1>4, <1>7, <3>2, <4>1, MaxNat DEF Word, DSIZE
        <4>2. CASE b > res
          BY <1>4, <1>7, <3>2, <4>2, MaxNat DEF Word, DSIZE
        <4> QED
          BY <1>4, <3>1, <3>2, <4>1, <4>2
      <3>4. \A w \in b .. (b + Sz(mem, b) - 3) : mem'[w] = mem[w]
        BY <1>3, <3>3
      <3> QED
        BY <3>4 DEF b
    <2> QED
      BY <1>5, <2>1, KeptSame
  <1>9. DataOf(i)' = [k \in 0 .. (Asked(i) - 1) |-> i]
    <2>1. \A k \in 0 .. (n - 1) : res + k \in Word /\ res + k \in res .. (res + n - 1)
      BY <1>4, <1>7, MaxNat DEF Word, DSIZE
    <2>2. \A k \in 0 .. (n - 1) : mem'[res + k] = i
      BY <1>3, <2>1
    <2> QED
      BY <1>5, <1>6, <2>2 DEF DataOf
  <1> QED
    BY <1>3, <1>4, <1>5, <1>6, <1>8, <1>9, MapsWrite

\* mm_realloc, by a new block: the contents are copied and the old block given up,
\* in one step of the contract.
LEMMA MapsCopy ==
    ASSUME Inv, ReallocCopy
    PROVE  Contract!Next
  <1>1. PICK i \in Id : i = call.id
    BY DEF ReallocCopy, Inv, TypeCorrect
  <1>2. PICK size \in Size : size = call.size
    BY DEF ReallocCopy, Inv, TypeCorrect
  <1> DEFINE p == block[i]
             csize == GET_SIZE(HDRP(p))
             n == IF size < csize THEN size ELSE csize
             m == [w \in Word |-> IF w \in res .. (res + n - 1) THEN mem[p + (w - res)] ELSE mem[w]]
  <1>3. /\ pc = "copy" /\ FreeTags(m, p) /\ after' = "return"
        /\ UNCHANGED <<brk, epilogue, blocks, call, res, client>>
    BY <1>1, <1>2 DEF ReallocCopy
  <1>4. /\ res \in blocks /\ mem[res - 1].alloc = 1 /\ DSIZE + size <= Sz(mem, res)
        /\ \A j \in Id : block[j] # res
        /\ p # NULL /\ size \in Nat /\ ~Granted
    BY <1>1, <1>2, <1>3, SizeAssumption DEF Inv, Progress, TypeCorrect, Granted
  <1>5. p \in blocks /\ p # res
    BY <1>4, Mine
  <1>6. /\ Tiled(mem, blocks, brk) /\ mem \in [Word -> Value] /\ brk \in 0 .. MaxHeap
        /\ brk \in Nat /\ brk <= MaxHeap
    BY MaxNat DEF Inv, HeapRight, TypeCorrect
  <1>7. /\ res \in Nat /\ res >= 4 /\ Sz(mem, res) \in Nat /\ res + Sz(mem, res) <= brk
        /\ p \in Nat /\ Sz(mem, p) \in Nat /\ p + Sz(mem, p) <= brk
        /\ p + Sz(mem, p) \in blocks \cup {brk}
    BY <1>4, <1>5, <1>6, Shape
  <1>8. csize = Sz(mem, p)
    BY DEF GET_SIZE, HDRP, WSIZE, Sz
  <1>9. /\ n \in Nat /\ n <= size /\ n <= Sz(mem, p)
        /\ \A k \in Nat : k < size /\ k < Sz(mem, p) => k < n
    BY <1>4, <1>7, <1>8
  <1> HIDE DEF csize, n
  <1>10. m \in [Word -> Value]
    <2>1. \A w \in Word : w \in res .. (res + n - 1) => p + (w - res) \in Word
      BY <1>6, <1>7, <1>9, MaxNat DEF Word
    <2> QED
      BY <1>6, <2>1
  <1>11. /\ \A w \in Word : w \notin res .. (res + Sz(mem, res) - 3) => m[w] = mem[w]
         /\ \A k \in 0 .. (n - 1) : m[res + k] = mem[p + k]
    <2>1. size + 2 <= Sz(mem, res)
      BY <1>4, <1>7 DEF DSIZE
    <2>2. \A w \in Word : w \notin res .. (res + Sz(mem, res) - 3) =>
             w \notin res .. (res + n - 1)
      BY <1>4, <1>7, <1>9, <2>1, MaxNat DEF Word
    <2>3. \A k \in 0 .. (n - 1) : /\ res + k \in Word /\ res + k \in res .. (res + n - 1)
                                  /\ p + ((res + k) - res) = p + k
      BY <1>4, <1>6, <1>7, <1>9, <2>1, MaxNat DEF Word
    <2>4. \A k \in 0 .. (n - 1) : m[res + k] = mem[p + ((res + k) - res)]
      BY <2>3
    <2> QED
      BY <2>2, <2>3, <2>4
  <1> HIDE DEF m
  <1>12. /\ Tiled(m, blocks, brk)
         /\ \A b \in blocks : m[b - 1] = mem[b - 1] /\ Sz(m, b) = Sz(mem, b)
         /\ \A w \in {1, 2, brk - 1} : m[w] = mem[w]
    <2>1. \A w \in Word : w \notin res .. (res + Sz(mem, res) - 3) => m[w] = mem[w]
      BY <1>11
    <2>2. /\ res \in blocks /\ Tiled(mem, blocks, brk) /\ mem \in [Word -> Value]
          /\ brk \in 0 .. MaxHeap
      BY <1>4, <1>6
    <2>3. Tiled(m, blocks, brk) /\ SameTags(mem, m, blocks, brk)
      BY <2>1, <2>2, FillRight
    <2> QED
      BY <2>3 DEF SameTags
  <1>13. OnlyIn(m, mem', p, p + Sz(mem, p)) /\ pc' = "coalesce"
    BY <1>3, <1>5, <1>10, <1>12, FreeTagsRight DEF Inv
  <1>14. \A b \in blocks : b # p =>
            \A w \in b .. (b + Sz(mem, b) - 3) : mem'[w] = m[w]
    <2>1. \A b \in blocks : b # p => b \notin p .. ((p + Sz(mem, p)) - 1)
      <3>1. \A b \in blocks : b \in Nat /\ (b > p => b >= p + Sz(mem, p))
        BY <1>5, <1>6, Shape
      <3> QED
        BY <1>7, <3>1
    <2> QED
      BY <1>5, <1>6, <1>7, <1>12, <1>13, <2>1, Untouched
  <1>15. \A j \in Id : /\ At(j) = block[j] /\ Asked(j) = bsize[j]
                       /\ At(j)' = IF j = i THEN res ELSE block[j]
                       /\ Asked(j)' = IF j = i THEN size ELSE bsize[j]
    BY <1>1, <1>2, <1>3, <1>4, <1>13 DEF At, Asked, Granted, client
  <1>16. ASSUME NEW j \in Id \ {i}
         PROVE  Same(j)
    <2>1. At(j)' = At(j) /\ Asked(j)' = Asked(j)
      BY <1>15
    <2>2. ASSUME At(j) # NULL
          PROVE  \A w \in At(j) .. (At(j) + Sz(mem, At(j)) - 3) : mem'[w] = mem[w]
      <3> DEFINE b == At(j)
      <3>1. b \in blocks /\ b # p /\ b # res
        BY <1>4, <1>15, <2>2 DEF Inv, Clients
      <3>2. /\ b \in Nat /\ b >= 4 /\ Sz(mem, b) \in Nat /\ b + Sz(mem, b) <= brk
            /\ b < res => b + Sz(mem, b) <= res
            /\ b > res => b >= res + Sz(mem, res)
        BY <1>4, <1>6, <3>1, Shape
      <3> HIDE DEF b
      <3>3. \A w \in b .. (b + Sz(mem, b) - 3) :
               w \in Word /\ w \notin res .. (res + Sz(mem, res) - 3)
        <4>1. CASE b < res
          BY <1>6, <1>7, <3>2, <4>1, MaxNat DEF Word
        <4>2. CASE b > res
          BY <1>6, <1>7, <3>2, <4>2, MaxNat DEF Word
        <4> QED
          BY <1>7, <3>1, <3>2, <4>1, <4>2
      <3>4. \A w \in b .. (b + Sz(mem, b) - 3) : mem'[w] = mem[w]
        BY <1>11, <1>14, <3>1, <3>3
      <3> QED
        BY <3>4 DEF b
    <2> QED
      BY <2>1, <2>2, KeptSame
  <1>17. /\ At(i) = p /\ At(i)' = res /\ Asked(i)' = size /\ res # NULL
    BY <1>7, <1>15, NullAssumption
  <1>18. Contract!Granted(i, res, size) /\ res \in 0 .. MaxHeap
    BY <1>3, <1>4, <1>16, <1>17, ReallocCopyKeeps, GivenRight
  <1>19. \A k \in 0 .. (Asked(i) - 1) : k < size => mem'[res + k] = mem[At(i) + k]
    <2>1. Asked(i) \in Nat /\ DSIZE + Asked(i) <= Sz(mem, p)
      BY <1>4, <1>17, Holds
    <2>2. \A k \in 0 .. (Asked(i) - 1) : k < size =>
             k \in 0 .. (n - 1) /\ res + k \in res .. (res + Sz(mem, res) - 3)
      BY <1>4, <1>7, <1>9, <2>1 DEF DSIZE
    <2> QED
      BY <1>4, <1>5, <1>11, <1>14, <1>17, <2>2
  <1> QED
    BY <1>4, <1>17, <1>18, <1>19, MapsRealloc

\* Every step of the allocator is one of the contract, or changes nothing of it.
LEMMA MapsNext == Inv /\ [Next]_vars => [Contract!Next]_Contract!vars
  <1> SUFFICES ASSUME Inv, [Next]_vars PROVE Contract!Next \/ UNCHANGED Contract!vars
    OBVIOUS
  <1>1. CASE \E i \in Id : Free(i)
    BY <1>1, MapsFreed
  <1>2. CASE \E i \in Id, n \in Size : Malloc(i, n) \/ ReallocMove(i, n)
    <2>1. PICK i \in Id, n \in Size : pc = "idle" /\ StartSearch(i, n)
      BY <1>2 DEF Malloc, ReallocMove
    <2>2. UNCHANGED <<mem, brk, res, client>> /\ ~Granted /\ ~Granted'
      BY <2>1 DEF StartSearch, heap, Granted
    <2>3. \A j \in Id : At(j)' = At(j) /\ Asked(j)' = Asked(j)
      BY <2>2 DEF At, Asked, client
    <2>4. Preserved
      BY <2>2 DEF Preserved
    <2>5. \A j \in Id : Same(j)
      BY <2>3, <2>4, PreservedSame
    <2> QED
      BY <2>2, <2>5, MapsStutter
  <1>3. CASE \/ MallocPlace \/ ReallocGrow
             \/ \E i \in Id, n \in Size : ReallocShrink(i, n) \/ ReallocMerge(i, n)
    BY <1>3, MallocPlaceDecides, ReallocGrowDecides, ReallocShrinkDecides,
       ReallocMergeDecides, MapsDecision
  <1>4. CASE MallocExtend \/ \E i \in Id, n \in Size : ReallocExtend(i, n)
    BY <1>4, MapsGrowth
  <1>5. CASE \/ SearchNext \/ SearchBest \/ SearchHit \/ SearchEnd
             \/ WrapNext \/ WrapHit \/ WrapEnd \/ MallocFails \/ CoalesceDone
    <2>1. UNCHANGED <<mem, brk, call, res, client>> /\ Granted' = Granted
      BY <1>5 DEF SearchNext, SearchBest, SearchHit, SearchEnd, WrapNext, WrapHit, WrapEnd,
                  MallocFails, CoalesceDone, heap, Granted, Inv, Progress
    <2> QED
      BY <2>1, MapsLook
  <1>6. CASE CoalesceMerge \/ Return
    BY <1>6, MapsMerge, MapsReturn
  <1>7. CASE Fill \/ ReallocCopy
    BY <1>7, MapsFill, MapsCopy
  <1>8. CASE UNCHANGED vars
    <2>1. UNCHANGED <<mem, brk, call, res, client>> /\ Granted' = Granted
      BY <1>8 DEF vars, heap, client, Granted
    <2> QED
      BY <2>1, MapsLook
  <1> QED
    BY <1>1, <1>2, <1>3, <1>4, <1>5, <1>6, <1>7, <1>8 DEF Next, Realloc, CallStep

\* Under each search, and for every size: what the allocator does with its blocks is
\* what the contract allows. Blocks in use are even, apart from each other
\* and inside the heap, no call touches what another holds, and mm_realloc keeps the prefix
\* of the contents both sizes share.
THEOREM ContractKept == Spec => KeepsContract
  <1>1. Init => Contract!Init
    BY MapsInit
  <1>2. Inv /\ [Next]_vars => [Contract!Next]_Contract!vars
    BY MapsNext
  <1> QED
    BY <1>1, <1>2, Invariant, PTL DEF Spec, KeepsContract, Contract!Spec
========================================================================================
