----------------------------- MODULE ProxyCache -----------------------------
(***************************************************************************)
(* The response cache of the web proxy (webproxy-lab-main/cache.c) and the *)
(* threads that use it (doit in webproxy-lab-main/proxy.c).                *)
(*                                                                         *)
(* The cache is the C program's doubly linked list of cache_t nodes        *)
(* between two sentinels, at the level of its pointers: addresses, a set   *)
(* of allocated addresses, the next and prev fields.  One binary semaphore *)
(* guards it.  A loop iteration, a semaphore operation and a socket        *)
(* operation are separate steps, so that every interleaving of the threads *)
(* that the semaphore allows is a behaviour.                               *)
(*                                                                         *)
(* Undefined behaviour is a choice: a step that touches a freed node sees  *)
(* its stale contents or faults, a double free aborts, malloc may return   *)
(* any address that is not allocated, and a NULL from malloc is stored     *)
(* through, which ends the process.                                        *)
(***************************************************************************)
EXTENDS Integers, FiniteSets

CONSTANTS
    Thread,         \* the connections' threads: each runs doit once
    Key,            \* what a request is looked up by: ip, port, method, path
    Requests,       \* which thread may be asked for which key
    Addr,           \* the addresses malloc has for cache_t nodes
    Head, Tail,     \* the addresses of the two sentinels, allocated by main
    NULL,
    MaxCacheSize,   \* MAX_CACHE_SIZE, in units of the instance
    MaxObjectSize   \* MAX_OBJECT_SIZE

ASSUME AddrAssumption ==
    /\ Head \notin Addr \cup {Tail, NULL}
    /\ Tail \notin Addr \cup {NULL}
    /\ NULL \notin Addr

ASSUME RequestsAssumption == Requests \subseteq [Thread -> Key]

ASSUME SizeAssumption ==
    /\ MaxCacheSize \in Nat
    /\ MaxObjectSize \in Nat

Node == Addr \cup {Head, Tail}

\* A response is stored only if it is shorter than MAX_OBJECT_SIZE.
Length == 0 .. (MaxObjectSize - 1)

VARIABLES
    up,         \* the process runs
    sem,        \* the semaphore
    pc,         \* where each thread is
    key,        \* the key of each thread's request
    length,     \* the length of the response each thread relayed
    meta,       \* the node read_cache returned to each thread
    curr,       \* read_cache's curr and write_cache's lru
    live,       \* the allocated nodes
    next, prev, \* the links of each node
    nkey,       \* the key fields of each node
    reslen,     \* the reslen field of each node
    response,   \* the response buffer of each node
    cache_left  \* the bytes left

threadVars == <<key, length, meta, curr>>
links      == <<next, prev>>
fields     == <<nkey, reslen, response>>
vars == <<up, sem, pc, key, length, meta, curr, live, next, prev,
          nkey, reslen, response, cache_left>>

PC == {"idle", "readP", "search", "readV", "send", "pushP", "push", "pushV",
       "fetch", "writeP", "enter", "evict", "writeV", "done"}

\* Between P and V.
InCache == {"search", "readV", "push", "pushV", "enter", "evict", "writeV"}

-----------------------------------------------------------------------------
Init ==
    /\ up = TRUE
    /\ sem = 1
    /\ pc = [t \in Thread |-> "idle"]
    /\ key \in Requests
    /\ length = [t \in Thread |-> 0]
    /\ meta = [t \in Thread |-> NULL]
    /\ curr = [t \in Thread |-> NULL]
    /\ live = {Head, Tail}
    /\ next = [n \in Node |-> IF n = Head THEN Tail ELSE NULL]
    /\ prev = [n \in Node |-> IF n = Tail THEN Head ELSE NULL]
    /\ nkey = [n \in Node |-> NULL]
    /\ reslen = [n \in Node |-> 0]
    /\ response = [n \in Node |-> "none"]
    /\ cache_left = MaxCacheSize

\* The thread's control moves from one point of the code to another.
Goto(t, from, to) ==
    /\ up
    /\ pc[t] = from
    /\ pc' = [pc EXCEPT ![t] = to]
    /\ up' = up

\* The process ends: exit(0) in a csapp wrapper, an abort or a fault.
Exit ==
    /\ up' = FALSE
    /\ UNCHANGED <<sem, pc, threadVars, live, links, fields, cache_left>>

\* Mutated form of P: the decrement does not wait.
P_NoWait(t, from, to) ==
    /\ Goto(t, from, to)
    /\ sem' = IF sem > 0 THEN sem - 1 ELSE 0

P(t, from, to) ==
    /\ Goto(t, from, to)
    /\ sem > 0
    /\ sem' = sem - 1

V(t, from, to) ==
    /\ Goto(t, from, to)
    /\ sem' = sem + 1

\* Unlink node n from its neighbours.
pop_cache(n) ==
    /\ next' = [next EXCEPT ![prev[n]] = next[n]]
    /\ prev' = [prev EXCEPT ![next[n]] = prev[n]]

\* Mutated form of push_cache: the old first node's prev is not set.
push_cache_OneWay(n) ==
    /\ next' = [next EXCEPT ![n] = next[Head], ![Head] = n]
    /\ prev' = [prev EXCEPT ![n] = Head]

\* Mutated form of push_cache: the node becomes the last.
push_cache_Last(n) ==
    /\ next' = [next EXCEPT ![n] = Tail, ![prev[Tail]] = n]
    /\ prev' = [prev EXCEPT ![n] = prev[Tail], ![Tail] = n]

\* Link node n right after the head.
push_cache(n) ==
    /\ next' = [next EXCEPT ![n] = next[Head], ![Head] = n]
    /\ prev' = [prev EXCEPT ![next[Head]] = n, ![n] = Head]

-----------------------------------------------------------------------------
(* doit up to the look-up: the request line is read and parsed.  A request *)
(* parse_uri rejects ends the connection.                                  *)
ReadRequest(t) ==
    /\ \/ Goto(t, "idle", "readP")
       \/ Goto(t, "idle", "done")
    /\ UNCHANGED <<sem, threadVars, live, links, fields, cache_left>>

(* read_cache, under the semaphore.                                        *)
ReadLock(t) ==
    /\ P(t, "readP", "search")
    /\ curr' = [curr EXCEPT ![t] = next[Head]]
    /\ UNCHANGED <<key, length, meta, live, links, fields, cache_left>>

\* Mutated form of SearchNext: curr does not advance.
SearchNext_Stuck(t) ==
    /\ Goto(t, "search", "search")
    /\ curr[t] # Tail
    /\ nkey[curr[t]] # key[t]
    /\ UNCHANGED <<sem, threadVars, live, links, fields, cache_left>>

SearchNext(t) ==
    /\ Goto(t, "search", "search")
    /\ curr[t] # Tail
    /\ nkey[curr[t]] # key[t]
    /\ curr' = [curr EXCEPT ![t] = next[curr[t]]]
    /\ UNCHANGED <<sem, key, length, meta, live, links, fields, cache_left>>

\* Mutated form of SearchHit: the node stays on the list.
SearchHit_NoPop(t) ==
    /\ Goto(t, "search", "readV")
    /\ curr[t] # Tail
    /\ nkey[curr[t]] = key[t]
    /\ meta' = [meta EXCEPT ![t] = curr[t]]
    /\ UNCHANGED <<sem, key, length, curr, live, links, fields, cache_left>>

SearchHit(t) ==
    /\ Goto(t, "search", "readV")
    /\ curr[t] # Tail
    /\ nkey[curr[t]] = key[t]
    /\ pop_cache(curr[t])
    /\ meta' = [meta EXCEPT ![t] = curr[t]]
    /\ UNCHANGED <<sem, key, length, curr, live, fields, cache_left>>

SearchMiss(t) ==
    /\ Goto(t, "search", "readV")
    /\ curr[t] = Tail
    /\ meta' = [meta EXCEPT ![t] = NULL]
    /\ UNCHANGED <<sem, key, length, curr, live, links, fields, cache_left>>

ReadUnlock(t) ==
    /\ V(t, "readV", IF meta[t] # NULL THEN "send" ELSE "fetch")
    /\ UNCHANGED <<threadVars, live, links, fields, cache_left>>

(* A hit: the cached response is sent outside the semaphore, from a node   *)
(* that is off the list, and the node is then pushed to the front.         *)
SendCached(t) ==
    /\ Goto(t, "send", "pushP")
    /\ UNCHANGED <<sem, threadVars, live, links, fields, cache_left>>

\* Mutated form of PushLock: the node is pushed back without the semaphore.
PushLock_None(t) ==
    /\ Goto(t, "pushP", "push")
    /\ UNCHANGED <<sem, threadVars, live, links, fields, cache_left>>

PushLock(t) ==
    /\ P(t, "pushP", "push")
    /\ UNCHANGED <<threadVars, live, links, fields, cache_left>>

\* Mutated form of Push: the node is not pushed back.
Push_None(t) ==
    /\ Goto(t, "push", "pushV")
    /\ UNCHANGED <<sem, threadVars, live, links, fields, cache_left>>

Push(t) ==
    /\ Goto(t, "push", "pushV")
    /\ push_cache(meta[t])
    /\ UNCHANGED <<sem, threadVars, live, fields, cache_left>>

PushUnlock(t) ==
    /\ V(t, "pushV", "done")
    /\ UNCHANGED <<threadVars, live, links, fields, cache_left>>

(* A miss: the server's response is relayed (handle_response).  It is      *)
(* cached when it is short enough, and otherwise the connection is over.   *)
Relay(t) ==
    /\ \/ /\ Goto(t, "fetch", "writeP")
          /\ \E len \in Length : length' = [length EXCEPT ![t] = len]
       \/ /\ Goto(t, "fetch", "done")
          /\ UNCHANGED length
    /\ UNCHANGED <<sem, key, meta, curr, live, links, fields, cache_left>>

(* write_cache, under the semaphore.                                       *)
WriteLock(t) ==
    /\ P(t, "writeP", "enter")
    /\ UNCHANGED <<threadVars, live, links, fields, cache_left>>

WriteEnter(t) ==
    /\ Goto(t, "enter", "evict")
    /\ curr' = [curr EXCEPT ![t] = prev[Tail]]
    /\ UNCHANGED <<sem, key, length, meta, live, links, fields, cache_left>>

\* The condition of write_cache's loop.
MustEvict(t) == length[t] >= cache_left /\ curr[t] # Head

\* Mutated form of Evict: the space of the evicted response is not returned.
Evict_NoCredit(t) ==
    LET lru == curr[t] IN
    /\ pop_cache(lru)
    /\ response' = [response EXCEPT ![lru] = "freed"]
    /\ curr' = [curr EXCEPT ![t] = prev[lru]]
    /\ UNCHANGED <<sem, key, length, meta, nkey, reslen, cache_left>>

\* What every iteration does: unlink the node, free its response, step to
\* the node before it.
Evict(t) ==
    LET lru == curr[t] IN
    /\ pop_cache(lru)
    /\ response' = [response EXCEPT ![lru] = "freed"]
    /\ cache_left' = cache_left + reslen[lru]
    /\ curr' = [curr EXCEPT ![t] = prev[lru]]
    /\ UNCHANGED <<sem, key, length, meta, nkey, reslen>>

\* The iteration that reached the head: "Cache overflow", nothing is stored.
EvictOverflow(t) ==
    /\ Goto(t, "evict", "writeV")
    /\ MustEvict(t)
    /\ prev[curr[t]] = Head
    /\ Evict(t)
    /\ UNCHANGED live

\* The address the iteration frees: lru->next of the node stepped to, which
\* the unlinking has set to the successor of the evicted node.
Victim(t) == next[curr[t]]

EvictFree(t) ==
    /\ Goto(t, "evict", "evict")
    /\ MustEvict(t)
    /\ prev[curr[t]] # Head
    /\ Evict(t)
    /\ Victim(t) \in live
    /\ live' = live \ {Victim(t)}

\* The same iteration when lru->next was freed before: a double free.
EvictAbort(t) ==
    /\ up
    /\ pc[t] = "evict"
    /\ MustEvict(t)
    /\ prev[curr[t]] # Head
    /\ Victim(t) \notin live
    /\ Exit

\* What malloc may return: any address that was freed, or one never used;
\* which of those is all the same.
Unused == {n \in Addr : n \notin live /\ nkey[n] = NULL}
FreeAddr ==
    {n \in (Addr \cup {Tail}) \ live : n \in Unused => n = CHOOSE m \in Unused : TRUE}

\* The loop is over: a new node at a free address becomes the first.
Store(t) ==
    /\ Goto(t, "evict", "writeV")
    /\ ~MustEvict(t)
    /\ \E n \in FreeAddr :
          /\ live' = live \cup {n}
          /\ nkey' = [nkey EXCEPT ![n] = key[t]]
          /\ reslen' = [reslen EXCEPT ![n] = length[t]]
          /\ response' = [response EXCEPT ![n] = "held"]
          /\ push_cache(n)
    /\ cache_left' = cache_left - length[t]
    /\ UNCHANGED <<sem, threadVars>>

\* malloc returned NULL and its result is used unchecked.
StoreOutOfMemory(t) ==
    /\ up
    /\ pc[t] = "evict"
    /\ ~MustEvict(t)
    /\ Addr \cup {Tail} \subseteq live
    /\ Exit

WriteUnlock(t) ==
    /\ V(t, "writeV", "done")
    /\ UNCHANGED <<threadVars, live, links, fields, cache_left>>

-----------------------------------------------------------------------------
\* The nodes whose fields thread t's next step reads or writes.
Touched(t) ==
    CASE pc[t] = "search" /\ curr[t] # Tail ->
            {curr[t]} \cup (IF nkey[curr[t]] = key[t]
                              THEN {next[curr[t]], prev[curr[t]]} ELSE {})
      [] pc[t] = "send"  -> {meta[t]}
      [] pc[t] = "push"  -> {meta[t], next[Head]}
      [] pc[t] = "enter" -> {Tail}
      [] pc[t] = "evict" /\ MustEvict(t) ->
            {curr[t], next[curr[t]], prev[curr[t]]}
      [] pc[t] = "evict" /\ ~MustEvict(t) -> {next[Head]}
      [] OTHER -> {}

\* A step that touches a freed node faults instead of seeing stale contents.
Fault(t) ==
    /\ up
    /\ ~(Touched(t) \subseteq live)
    /\ Exit

(* A client or a server fails (a reset, a write to a connection the peer   *)
(* has closed, a name that does not resolve): the csapp wrapper reports it *)
(* and exits the process.                                                  *)
PeerFails(t) ==
    /\ up
    /\ pc[t] \in {"idle", "send", "fetch"}
    /\ Exit

\* The steps a thread takes by itself once it has asked for the semaphore.
CacheStep(t) ==
    \/ ReadLock(t) \/ SearchNext(t) \/ SearchHit(t) \/ SearchMiss(t)
    \/ ReadUnlock(t)
    \/ PushLock(t) \/ Push(t) \/ PushUnlock(t)
    \/ WriteLock(t) \/ WriteEnter(t)
    \/ EvictOverflow(t) \/ EvictFree(t) \/ EvictAbort(t)
    \/ Store(t) \/ StoreOutOfMemory(t) \/ WriteUnlock(t)

\* The steps that wait for a peer.
PeerStep(t) ==
    \/ ReadRequest(t) \/ SendCached(t) \/ Relay(t) \/ PeerFails(t)

\* Nothing is left to do.
Stopped ==
    /\ ~up \/ \A t \in Thread : pc[t] = "done"
    /\ UNCHANGED vars

Next ==
    \/ \E t \in Thread : CacheStep(t) \/ PeerStep(t) \/ Fault(t)
    \/ Stopped

Spec == Init /\ [][Next]_vars

(* The scheduler runs every thread that can run.  Nothing is assumed of    *)
(* the peers: a client or a server may stall for ever.                     *)
Fairness == \A t \in Thread : WF_vars(CacheStep(t))

FairSpec == Spec /\ Fairness

-----------------------------------------------------------------------------
TypeOK ==
    /\ up \in BOOLEAN
    /\ sem \in {0, 1}
    /\ pc \in [Thread -> PC]
    /\ key \in [Thread -> Key]
    /\ length \in [Thread -> Nat]
    /\ meta \in [Thread -> Node \cup {NULL}]
    /\ curr \in [Thread -> Node \cup {NULL}]
    /\ live \subseteq Node
    /\ next \in [Node -> Node \cup {NULL}]
    /\ prev \in [Node -> Node \cup {NULL}]
    /\ nkey \in [Node -> Key \cup {NULL}]
    /\ reslen \in [Node -> Nat]
    /\ response \in [Node -> {"none", "held", "freed"}]
    /\ cache_left \in Int

(* The semaphore admits one thread at a time to the list: it is zero while *)
(* a thread is between its P and its V, and then only one thread is.       *)
MutualExclusion ==
    /\ \A t, u \in Thread : pc[t] \in InCache /\ pc[u] \in InCache => t = u
    /\ sem = 0 <=> \E t \in Thread : pc[t] \in InCache

\* Thread t has taken a node off the list and not pushed it back yet.
Holds(t) ==
    \/ pc[t] = "readV" /\ meta[t] # NULL
    \/ pc[t] \in {"send", "pushP", "push"}

(* A node that a hit took off the list stays the thread's own until it is  *)
(* pushed back: it holds the response to the request at hand, neither the  *)
(* node nor its response is freed by an eviction, and no other thread has  *)
(* taken the same node.  This is what makes sending outside the semaphore  *)
(* sound (proxy.c:147-158).                                                *)
CheckedOutIntact ==
    \A t \in Thread : Holds(t) =>
        /\ meta[t] \in Addr \cap live
        /\ nkey[meta[t]] = key[t]
        /\ response[meta[t]] = "held"
        /\ \A u \in Thread \ {t} : Holds(u) => meta[u] # meta[t]

\* S is the set of the nodes between the sentinels: both ways round, the
\* links of S and the sentinels stay inside and are inverse to each other.
Chained(S) ==
    /\ \A n \in S \cup {Head} : next[n] \in S \cup {Tail} /\ prev[next[n]] = n
    /\ \A n \in S \cup {Tail} : prev[n] \in S \cup {Head} /\ next[prev[n]] = n

\* Every node of S is allocated, owns its response and is nobody's.
Owned(S) ==
    /\ \A n \in S : n \in live /\ response[n] = "held"
    /\ \A t \in Thread : Holds(t) => meta[t] \notin S

\* A search is at a node of S or at the end; an eviction is at the last node.
CursorsOn(S) ==
    \A t \in Thread :
        /\ pc[t] = "search" => curr[t] \in S \cup {Tail}
        /\ pc[t] = "evict" => curr[t] = prev[Tail]

(* The list is a doubly linked list of nodes with their responses, none of *)
(* them checked out by a thread, and the loops that walk it are on it,     *)
(* whatever the threads are doing, even when an eviction has freed the     *)
(* tail and malloc has handed its address out.                             *)
ListIntact == \E S \in SUBSET Addr : Chained(S) /\ Owned(S) /\ CursorsOn(S)

\* S has the first node of the list, and with each node the next one.
Follows(S) == /\ next[Head] \in Addr => next[Head] \in S
              /\ \A n \in S : next[n] \in Addr => next[n] \in S

\* The nodes that following next from the head visits.
Listed == {n \in Addr : \A S \in SUBSET Addr : Follows(S) => n \in S}

Responses == {n \in Node : response[n] = "held"}

(* No cached response is lost: until the address of the freed tail comes   *)
(* back from malloc as a node, every response buffer that is allocated is  *)
(* on the list, or with the thread that sends it.                          *)
NoResponseLost ==
    response[Tail] = "none" =>
        Responses = Listed \cup {meta[t] : t \in {u \in Thread : Holds(u)}}

\* One pair for every byte of every response that is cached.
Bytes == UNION {{n} \X (1 .. reslen[n]) : n \in Responses}

(* cache_left accounts for the cached responses, those being sent          *)
(* included, through every hit, store and eviction.  Until malloc hands    *)
(* the freed tail's address out as a node, it is exactly the capacity less *)
(* their bytes.  From then on the list may have lost nodes with their      *)
(* responses (NoResponseLost), and what is left to say, and said always,   *)
(* is that no byte is given back twice: what is cached and what is left    *)
(* never exceed the capacity together.                                     *)
CacheLeftExact ==
    /\ cache_left + Cardinality(Bytes) <= MaxCacheSize
    /\ response[Tail] = "none" => cache_left + Cardinality(Bytes) = MaxCacheSize

\* S has the node before n, and with each node the one before it.
Leads(S, n) == /\ prev[n] \in Addr => prev[n] \in S
               /\ \A m \in S : prev[m] \in Addr => prev[m] \in S

\* The nodes of the list from the head to n, which were used after n.
Ahead(n) == {m \in Addr : \A S \in SUBSET Addr : Leads(S, n) => m \in S}

\* What a thread is doing, as the cache's user sees it.
Phase(t) ==
    CASE pc[t] \in {"idle", "readP", "search"}       -> "asking"
      [] Holds(t)                                    -> "sending"
      [] pc[t] \in {"readV", "fetch"} /\ ~Holds(t)   -> "missed"
      [] pc[t] \in {"writeP", "enter", "evict"}      -> "storing"
      [] OTHER                                       -> "over"

(* ResponseCache is implemented, until the address of the freed tail comes *)
(* back: whatever the threads do between P and V and outside, each look-up *)
(* and each push is as if done at once, a hit is the response used last,   *)
(* a miss means there is none, and evictions go by the last use.           *)
Cache == INSTANCE ResponseCache WITH
    Id       <- Addr,
    Capacity <- MaxCacheSize,
    intact   <- response[Tail] = "none",
    phase    <- [t \in Thread |-> Phase(t)],
    sent     <- [t \in Thread |-> IF Holds(t) THEN meta[t] ELSE NULL],
    cached   <- Listed,
    newer    <- [n \in Listed |-> Ahead(n)],
    what     <- [n \in Responses |-> [key |-> nkey[n], length |-> reslen[n]]],
    left     <- cache_left

KeepsPromise == Cache!Spec

(* A thread that asks for the semaphore comes out of the cache: neither    *)
(* the search nor the eviction loop runs for ever, no thread keeps the     *)
(* semaphore, and a peer that stalls another thread blocks nobody.         *)
CacheCallsReturn ==
    \A t \in Thread :
        /\ up /\ pc[t] = "readP" ~> ~up \/ pc[t] \in {"send", "fetch"}
        /\ up /\ pc[t] \in {"pushP", "writeP"} ~> ~up \/ pc[t] = "done"

-----------------------------------------------------------------------------
(* What the comments say and the code does not do.                         *)

(* cache.c:4: MAX_CACHE_SIZE is the maximum size of the whole cache.       *)
CapacityRespected == cache_left >= 0

(* cache.c:70: the eviction loop frees the node it took off the list.      *)
FreesEvictedNode ==
    [][\A n \in live \ live' : n \in Addr /\ response'[n] = "freed"]_vars

=============================================================================
