-------------------------- MODULE ProxyCache_proofs -------------------------
(***************************************************************************)
(* The safety of the proxy's cache for any number of threads, any pool of  *)
(* addresses and any sizes: the semaphore excludes, the list stays linked, *)
(* a node that a hit took off the list stays the thread's own, no response *)
(* is lost and the free bytes are counted right.  The inductive invariant  *)
(* is the conjunction of four of the invariants, none of whose last three  *)
(* is inductive without the others; what is lost and what is counted rests *)
(* on it, with a strengthening of its own, and so does the refinement: the *)
(* threads and their list implement ResponseCache.                         *)
(***************************************************************************)
EXTENDS ProxyCache, FiniteSetTheorems, TLAPS

Inv ==
    /\ TypeOK
    /\ MutualExclusion
    /\ CheckedOutIntact
    /\ ListIntact

LEMMA PopChained ==
    ASSUME next \in [Node -> Node \cup {NULL}], prev \in [Node -> Node \cup {NULL}],
           NEW S \in SUBSET Addr, Chained(S), NEW n \in S, pop_cache(n)
    PROVE  /\ Chained(S \ {n})'
           /\ n = prev[Tail] => prev'[Tail] = prev[n]
  <1> USE AddrAssumption DEF Node
  <1>1. /\ n \in Node /\ prev[n] \in Node /\ next[n] \in Node
        /\ prev[n] # Tail /\ next[n] # Head
    BY DEF Chained
  <1>2. \A m \in Node : next'[m] = IF m = prev[n] THEN next[n] ELSE next[m]
    BY <1>1 DEF pop_cache
  <1>3. \A m \in Node : prev'[m] = IF m = next[n] THEN prev[n] ELSE prev[m]
    BY <1>1 DEF pop_cache
  <1> QED
    BY <1>1, <1>2, <1>3 DEF Chained

LEMMA PushChained ==
    ASSUME next \in [Node -> Node \cup {NULL}], prev \in [Node -> Node \cup {NULL}],
           NEW S \in SUBSET Addr, Chained(S), NEW n \in Addr, n \notin S, push_cache(n)
    PROVE  Chained(S \cup {n})'
  <1> USE AddrAssumption DEF Node
  <1>1. next[Head] \in S \cup {Tail}
    BY DEF Chained
  <1>2. \A m \in Node : next'[m] = IF m = Head THEN n ELSE IF m = n THEN next[Head] ELSE next[m]
    BY DEF push_cache
  <1>3. \A m \in Node : prev'[m] = IF m = n THEN Head ELSE IF m = next[Head] THEN n ELSE prev[m]
    BY <1>1 DEF push_cache
  <1> QED
    BY <1>1, <1>2, <1>3 DEF Chained

LEMMA PushTail ==
    ASSUME next \in [Node -> Node \cup {NULL}], prev \in [Node -> Node \cup {NULL}],
           push_cache(Tail)
    PROVE  Chained({})'
  BY AddrAssumption DEF Node, Chained, push_cache


LEMMA QuietList ==
    ASSUME NEW S \in SUBSET Addr, Chained(S), Owned(S), CursorsOn(S)',
           UNCHANGED <<live, next, prev, response>>,
           \A u \in Thread : Holds(u)' => Holds(u) /\ meta'[u] = meta[u]
    PROVE  ListIntact'
  <1>1. Chained(S)'
    BY DEF Chained
  <1>2. Owned(S)'
    BY DEF Owned
  <1> QED
    BY <1>1, <1>2 DEF ListIntact

LEMMA Step == Inv /\ [Next]_vars => Inv'
  <1> SUFFICES ASSUME Inv, [Next]_vars PROVE Inv'
    OBVIOUS
  <1> USE AddrAssumption, SizeAssumption DEF Inv
  <1>0. PICK S \in SUBSET Addr : Chained(S) /\ Owned(S) /\ CursorsOn(S)
    BY DEF ListIntact
  <1>1. ASSUME NEW t \in Thread, ReadRequest(t) PROVE Inv'
    <2> USE <1>1 DEF ReadRequest, Goto, threadVars, links, fields
    <2>1. TypeOK'
      BY DEF TypeOK, PC, Node, Length, MutualExclusion, InCache, Chained
    <2>2. MutualExclusion'
      BY DEF MutualExclusion, TypeOK, InCache
    <2>3. CheckedOutIntact'
      BY DEF CheckedOutIntact, TypeOK, Holds
    <2>4. CursorsOn(S)'
      BY <1>0, <2>2 DEF CursorsOn, TypeOK, MutualExclusion, InCache, Chained
    <2>5. \A u \in Thread : Holds(u)' => Holds(u) /\ meta'[u] = meta[u]
      BY DEF Holds, TypeOK
    <2>6. ListIntact'
      BY <1>0, <2>4, <2>5, QuietList
    <2> QED BY <2>1, <2>2, <2>3, <2>6
  <1>2. ASSUME NEW t \in Thread, ReadLock(t) PROVE Inv'
    <2> USE <1>2 DEF ReadLock, P, Goto, links, fields
    <2>1. TypeOK'
      BY DEF TypeOK, PC, Node, Length, MutualExclusion, InCache, Chained
    <2>2. MutualExclusion'
      BY DEF MutualExclusion, TypeOK, InCache
    <2>3. CheckedOutIntact'
      BY DEF CheckedOutIntact, TypeOK, Holds
    <2>4. CursorsOn(S)'
      BY <1>0, <2>2 DEF CursorsOn, TypeOK, MutualExclusion, InCache, Chained
    <2>5. \A u \in Thread : Holds(u)' => Holds(u) /\ meta'[u] = meta[u]
      BY DEF Holds, TypeOK
    <2>6. ListIntact'
      BY <1>0, <2>4, <2>5, QuietList
    <2> QED BY <2>1, <2>2, <2>3, <2>6
  <1>3. ASSUME NEW t \in Thread, SearchNext(t) PROVE Inv'
    <2> USE <1>3 DEF SearchNext, Goto, links, fields
    <2>0. curr[t] \in S
      BY <1>0 DEF CursorsOn
    <2>1. TypeOK'
      BY <1>0, <2>0 DEF TypeOK, PC, Node, Length, MutualExclusion, InCache, Chained
    <2>2. MutualExclusion'
      BY DEF MutualExclusion, TypeOK, InCache
    <2>3. CheckedOutIntact'
      BY DEF CheckedOutIntact, TypeOK, Holds
    <2>4. CursorsOn(S)'
      BY <1>0, <2>2 DEF CursorsOn, TypeOK, MutualExclusion, InCache, Chained
    <2>5. \A u \in Thread : Holds(u)' => Holds(u) /\ meta'[u] = meta[u]
      BY DEF Holds, TypeOK
    <2>6. ListIntact'
      BY <1>0, <2>4, <2>5, QuietList
    <2> QED BY <2>1, <2>2, <2>3, <2>6
  <1>4. ASSUME NEW t \in Thread, SearchHit(t) PROVE Inv'
    <2> USE <1>4 DEF SearchHit, Goto, fields
    <2>1. PICK c \in S :
            /\ c = curr[t] /\ c \in Node
            /\ next[c] \in Node /\ prev[c] \in Node
      BY <1>0 DEF CursorsOn, Chained, Node
    <2>2. TypeOK'
      BY <2>1 DEF TypeOK, PC, pop_cache
    <2>3. MutualExclusion'
      BY DEF MutualExclusion, TypeOK, InCache
    <2>4. \A u \in Thread : Holds(u)' <=> Holds(u) \/ u = t
      BY <2>1 DEF Holds, TypeOK, Node
    <2>5. CheckedOutIntact'
      BY <1>0, <2>1, <2>4 DEF CheckedOutIntact, TypeOK, Owned
    <2>6. Chained(S \ {c})'
      BY <1>0, <2>1, PopChained DEF TypeOK
    <2>7. Owned(S \ {c})'
      BY <1>0, <2>1, <2>4 DEF Owned, TypeOK
    <2>8. CursorsOn(S \ {c})'
      BY DEF CursorsOn, TypeOK, MutualExclusion, InCache
    <2> QED
      BY <2>2, <2>3, <2>5, <2>6, <2>7, <2>8 DEF ListIntact
  <1>5. ASSUME NEW t \in Thread, SearchMiss(t) PROVE Inv'
    <2> USE <1>5 DEF SearchMiss, Goto, links, fields
    <2>1. TypeOK'
      BY DEF TypeOK, PC, Node, Length, MutualExclusion, InCache, Chained
    <2>2. MutualExclusion'
      BY DEF MutualExclusion, TypeOK, InCache
    <2>3. CheckedOutIntact'
      BY DEF CheckedOutIntact, TypeOK, Holds
    <2>4. CursorsOn(S)'
      BY <1>0, <2>2 DEF CursorsOn, TypeOK, MutualExclusion, InCache, Chained
    <2>5. \A u \in Thread : Holds(u)' => Holds(u) /\ meta'[u] = meta[u]
      BY DEF Holds, TypeOK
    <2>6. ListIntact'
      BY <1>0, <2>4, <2>5, QuietList
    <2> QED BY <2>1, <2>2, <2>3, <2>6
  <1>6. ASSUME NEW t \in Thread, ReadUnlock(t) PROVE Inv'
    <2> USE <1>6 DEF ReadUnlock, V, Goto, threadVars, links, fields
    <2>1. TypeOK'
      BY DEF TypeOK, PC, Node, Length, MutualExclusion, InCache, Chained
    <2>2. MutualExclusion'
      BY DEF MutualExclusion, TypeOK, InCache
    <2>3. CheckedOutIntact'
      BY DEF CheckedOutIntact, TypeOK, Holds
    <2>4. CursorsOn(S)'
      BY <1>0, <2>2 DEF CursorsOn, TypeOK, MutualExclusion, InCache, Chained
    <2>5. \A u \in Thread : Holds(u)' => Holds(u) /\ meta'[u] = meta[u]
      BY DEF Holds, TypeOK
    <2>6. ListIntact'
      BY <1>0, <2>4, <2>5, QuietList
    <2> QED BY <2>1, <2>2, <2>3, <2>6
  <1>7. ASSUME NEW t \in Thread, SendCached(t) PROVE Inv'
    <2> USE <1>7 DEF SendCached, Goto, threadVars, links, fields
    <2>1. TypeOK'
      BY DEF TypeOK, PC, Node, Length, MutualExclusion, InCache, Chained
    <2>2. MutualExclusion'
      BY DEF MutualExclusion, TypeOK, InCache
    <2>3. CheckedOutIntact'
      BY DEF CheckedOutIntact, TypeOK, Holds
    <2>4. CursorsOn(S)'
      BY <1>0, <2>2 DEF CursorsOn, TypeOK, MutualExclusion, InCache, Chained
    <2>5. \A u \in Thread : Holds(u)' => Holds(u) /\ meta'[u] = meta[u]
      BY DEF Holds, TypeOK
    <2>6. ListIntact'
      BY <1>0, <2>4, <2>5, QuietList
    <2> QED BY <2>1, <2>2, <2>3, <2>6
  <1>8. ASSUME NEW t \in Thread, PushLock(t) PROVE Inv'
    <2> USE <1>8 DEF PushLock, P, Goto, threadVars, links, fields
    <2>1. TypeOK'
      BY DEF TypeOK, PC, Node, Length, MutualExclusion, InCache, Chained
    <2>2. MutualExclusion'
      BY DEF MutualExclusion, TypeOK, InCache
    <2>3. CheckedOutIntact'
      BY DEF CheckedOutIntact, TypeOK, Holds
    <2>4. CursorsOn(S)'
      BY <1>0, <2>2 DEF CursorsOn, TypeOK, MutualExclusion, InCache, Chained
    <2>5. \A u \in Thread : Holds(u)' => Holds(u) /\ meta'[u] = meta[u]
      BY DEF Holds, TypeOK
    <2>6. ListIntact'
      BY <1>0, <2>4, <2>5, QuietList
    <2> QED BY <2>1, <2>2, <2>3, <2>6
  <1>9. ASSUME NEW t \in Thread, Push(t) PROVE Inv'
    <2> USE <1>9 DEF Push, Goto, threadVars, fields
    <2>1. PICK n \in Addr :
            /\ Holds(t) /\ n = meta[t] /\ n \in live /\ n \notin S /\ response[n] = "held"
      BY <1>0 DEF Holds, CheckedOutIntact, Owned
    <2>2. TypeOK'
      BY <2>1 DEF TypeOK, PC, Node, push_cache
    <2>3. MutualExclusion'
      BY DEF MutualExclusion, TypeOK, InCache
    <2>4. \A u \in Thread : Holds(u)' <=> Holds(u) /\ u # t
      BY DEF Holds, TypeOK
    <2>5. CheckedOutIntact'
      BY <2>4 DEF CheckedOutIntact, TypeOK
    <2>6. Chained(S \cup {n})'
      BY <1>0, <2>1, PushChained DEF TypeOK
    <2>7. Owned(S \cup {n})'
      BY <1>0, <2>1, <2>4 DEF Owned, TypeOK, CheckedOutIntact
    <2>8. CursorsOn(S \cup {n})'
      BY DEF CursorsOn, TypeOK, MutualExclusion, InCache
    <2> QED
      BY <2>1, <2>2, <2>3, <2>5, <2>6, <2>7, <2>8 DEF ListIntact
  <1>10. ASSUME NEW t \in Thread, PushUnlock(t) PROVE Inv'
    <2> USE <1>10 DEF PushUnlock, V, Goto, threadVars, links, fields
    <2>1. TypeOK'
      BY DEF TypeOK, PC, Node, Length, MutualExclusion, InCache, Chained
    <2>2. MutualExclusion'
      BY DEF MutualExclusion, TypeOK, InCache
    <2>3. CheckedOutIntact'
      BY DEF CheckedOutIntact, TypeOK, Holds
    <2>4. CursorsOn(S)'
      BY <1>0, <2>2 DEF CursorsOn, TypeOK, MutualExclusion, InCache, Chained
    <2>5. \A u \in Thread : Holds(u)' => Holds(u) /\ meta'[u] = meta[u]
      BY DEF Holds, TypeOK
    <2>6. ListIntact'
      BY <1>0, <2>4, <2>5, QuietList
    <2> QED BY <2>1, <2>2, <2>3, <2>6
  <1>11. ASSUME NEW t \in Thread, Relay(t) PROVE Inv'
    <2> USE <1>11 DEF Relay, Goto, links, fields
    <2>1. TypeOK'
      BY DEF TypeOK, PC, Node, Length, MutualExclusion, InCache, Chained
    <2>2. MutualExclusion'
      BY DEF MutualExclusion, TypeOK, InCache
    <2>3. CheckedOutIntact'
      BY DEF CheckedOutIntact, TypeOK, Holds
    <2>4. CursorsOn(S)'
      BY <1>0, <2>2 DEF CursorsOn, TypeOK, MutualExclusion, InCache, Chained
    <2>5. \A u \in Thread : Holds(u)' => Holds(u) /\ meta'[u] = meta[u]
      BY DEF Holds, TypeOK
    <2>6. ListIntact'
      BY <1>0, <2>4, <2>5, QuietList
    <2> QED BY <2>1, <2>2, <2>3, <2>6
  <1>12. ASSUME NEW t \in Thread, WriteLock(t) PROVE Inv'
    <2> USE <1>12 DEF WriteLock, P, Goto, threadVars, links, fields
    <2>1. TypeOK'
      BY DEF TypeOK, PC, Node, Length, MutualExclusion, InCache, Chained
    <2>2. MutualExclusion'
      BY DEF MutualExclusion, TypeOK, InCache
    <2>3. CheckedOutIntact'
      BY DEF CheckedOutIntact, TypeOK, Holds
    <2>4. CursorsOn(S)'
      BY <1>0, <2>2 DEF CursorsOn, TypeOK, MutualExclusion, InCache, Chained
    <2>5. \A u \in Thread : Holds(u)' => Holds(u) /\ meta'[u] = meta[u]
      BY DEF Holds, TypeOK
    <2>6. ListIntact'
      BY <1>0, <2>4, <2>5, QuietList
    <2> QED BY <2>1, <2>2, <2>3, <2>6
  <1>13. ASSUME NEW t \in Thread, WriteEnter(t) PROVE Inv'
    <2> USE <1>13 DEF WriteEnter, Goto, links, fields
    <2>1. TypeOK'
      BY DEF TypeOK, PC, Node, Length, MutualExclusion, InCache, Chained
    <2>2. MutualExclusion'
      BY DEF MutualExclusion, TypeOK, InCache
    <2>3. CheckedOutIntact'
      BY DEF CheckedOutIntact, TypeOK, Holds
    <2>4. CursorsOn(S)'
      BY <1>0, <2>2 DEF CursorsOn, TypeOK, MutualExclusion, InCache, Chained
    <2>5. \A u \in Thread : Holds(u)' => Holds(u) /\ meta'[u] = meta[u]
      BY DEF Holds, TypeOK
    <2>6. ListIntact'
      BY <1>0, <2>4, <2>5, QuietList
    <2> QED BY <2>1, <2>2, <2>3, <2>6
  <1>14. ASSUME NEW t \in Thread, EvictOverflow(t) PROVE Inv'
    <2> USE <1>14 DEF EvictOverflow, Goto, Evict
    <2>1. PICK c \in S :
            /\ c = curr[t] /\ c \in Node /\ prev[c] \in Node
            /\ c = prev[Tail] /\ next[c] = Tail
      BY <1>0 DEF MustEvict, CursorsOn, Chained, Node
    <2>2. TypeOK'
      BY <2>1 DEF TypeOK, PC, Node, pop_cache
    <2>3. MutualExclusion'
      BY DEF MutualExclusion, TypeOK, InCache
    <2>4. \A u \in Thread : Holds(u)' <=> Holds(u)
      BY DEF Holds, TypeOK
    <2>5. CheckedOutIntact'
      BY <1>0, <2>1, <2>4 DEF CheckedOutIntact, TypeOK, Owned
    <2>6. Chained(S \ {c})' /\ prev'[Tail] = prev[c]
      BY <1>0, <2>1, PopChained DEF TypeOK
    <2>7. Owned(S \ {c})'
      BY <1>0, <2>1, <2>4 DEF Owned, TypeOK, Node
    <2>8. CursorsOn(S \ {c})'
      BY <2>1, <2>6 DEF CursorsOn, TypeOK, MutualExclusion, InCache
    <2> QED
      BY <2>2, <2>3, <2>5, <2>6, <2>7, <2>8 DEF ListIntact
  <1>15. ASSUME NEW t \in Thread, EvictFree(t) PROVE Inv'
    <2> USE <1>15 DEF EvictFree, Goto, Evict
    <2>1. PICK c \in S :
            /\ c = curr[t] /\ c \in Node /\ prev[c] \in Node
            /\ c = prev[Tail] /\ next[c] = Tail
      BY <1>0 DEF MustEvict, CursorsOn, Chained, Node
    <2>2. TypeOK'
      BY <2>1 DEF TypeOK, PC, Node, pop_cache, Victim
    <2>3. MutualExclusion'
      BY DEF MutualExclusion, TypeOK, InCache
    <2>4. \A u \in Thread : Holds(u)' <=> Holds(u)
      BY DEF Holds, TypeOK
    <2>5. CheckedOutIntact'
      BY <1>0, <2>1, <2>4 DEF CheckedOutIntact, TypeOK, Owned, Victim
    <2>6. Chained(S \ {c})' /\ prev'[Tail] = prev[c]
      BY <1>0, <2>1, PopChained DEF TypeOK
    <2>7. Owned(S \ {c})'
      BY <1>0, <2>1, <2>4 DEF Owned, TypeOK, Node, Victim
    <2>8. CursorsOn(S \ {c})'
      BY <2>1, <2>6 DEF CursorsOn, TypeOK, MutualExclusion, InCache
    <2> QED
      BY <2>2, <2>3, <2>5, <2>6, <2>7, <2>8 DEF ListIntact
  <1>16. ASSUME NEW t \in Thread, EvictAbort(t) PROVE Inv'
    <2> USE <1>16 DEF EvictAbort, Exit, threadVars, links, fields
    <2>1. TypeOK'
      BY DEF TypeOK, PC, Node, Length, MutualExclusion, InCache, Chained
    <2>2. MutualExclusion'
      BY DEF MutualExclusion, TypeOK, InCache
    <2>3. CheckedOutIntact'
      BY DEF CheckedOutIntact, TypeOK, Holds
    <2>4. CursorsOn(S)'
      BY <1>0, <2>2 DEF CursorsOn, TypeOK, MutualExclusion, InCache, Chained
    <2>5. \A u \in Thread : Holds(u)' => Holds(u) /\ meta'[u] = meta[u]
      BY DEF Holds, TypeOK
    <2>6. ListIntact'
      BY <1>0, <2>4, <2>5, QuietList
    <2> QED BY <2>1, <2>2, <2>3, <2>6
  <1>17. ASSUME NEW t \in Thread, Store(t) PROVE Inv'
    <2> USE <1>17 DEF Store, FreeAddr, Goto, threadVars
    <2>1. PICK n \in (Addr \cup {Tail}) \ live :
            /\ live' = live \cup {n}
            /\ nkey' = [nkey EXCEPT ![n] = key[t]]
            /\ reslen' = [reslen EXCEPT ![n] = length[t]]
            /\ response' = [response EXCEPT ![n] = "held"]
            /\ push_cache(n)
      OBVIOUS
    <2>2. TypeOK'
      BY <2>1 DEF TypeOK, PC, Node, push_cache
    <2>3. MutualExclusion'
      BY DEF MutualExclusion, TypeOK, InCache
    <2>4. \A u \in Thread : Holds(u)' <=> Holds(u)
      BY DEF Holds, TypeOK
    <2>5. CheckedOutIntact'
      BY <2>1, <2>4 DEF CheckedOutIntact, TypeOK
    <2>6. CASE n = Tail
      <3>1. Chained({})'
        BY <2>1, <2>6, PushTail DEF TypeOK
      <3>2. Owned({})' /\ CursorsOn({})'
        BY DEF Owned, CursorsOn, TypeOK, MutualExclusion, InCache
      <3> QED
        BY <2>2, <2>3, <2>5, <3>1, <3>2 DEF ListIntact
    <2>7. CASE n \in Addr
      <3>1. n \notin S
        BY <1>0, <2>1 DEF Owned
      <3>2. Chained(S \cup {n})'
        BY <1>0, <2>1, <2>7, <3>1, PushChained DEF TypeOK
      <3>3. Owned(S \cup {n})'
        BY <1>0, <2>1, <2>4, <2>7 DEF Owned, TypeOK, CheckedOutIntact, Node
      <3>4. CursorsOn(S \cup {n})'
        BY DEF CursorsOn, TypeOK, MutualExclusion, InCache
      <3> QED
        BY <2>2, <2>3, <2>5, <2>7, <3>2, <3>3, <3>4 DEF ListIntact
    <2> QED
      BY <2>1, <2>6, <2>7
  <1>18. ASSUME NEW t \in Thread, StoreOutOfMemory(t) PROVE Inv'
    <2> USE <1>18 DEF StoreOutOfMemory, Exit, threadVars, links, fields
    <2>1. TypeOK'
      BY DEF TypeOK, PC, Node, Length, MutualExclusion, InCache, Chained
    <2>2. MutualExclusion'
      BY DEF MutualExclusion, TypeOK, InCache
    <2>3. CheckedOutIntact'
      BY DEF CheckedOutIntact, TypeOK, Holds
    <2>4. CursorsOn(S)'
      BY <1>0, <2>2 DEF CursorsOn, TypeOK, MutualExclusion, InCache, Chained
    <2>5. \A u \in Thread : Holds(u)' => Holds(u) /\ meta'[u] = meta[u]
      BY DEF Holds, TypeOK
    <2>6. ListIntact'
      BY <1>0, <2>4, <2>5, QuietList
    <2> QED BY <2>1, <2>2, <2>3, <2>6
  <1>19. ASSUME NEW t \in Thread, WriteUnlock(t) PROVE Inv'
    <2> USE <1>19 DEF WriteUnlock, V, Goto, threadVars, links, fields
    <2>1. TypeOK'
      BY DEF TypeOK, PC, Node, Length, MutualExclusion, InCache, Chained
    <2>2. MutualExclusion'
      BY DEF MutualExclusion, TypeOK, InCache
    <2>3. CheckedOutIntact'
      BY DEF CheckedOutIntact, TypeOK, Holds
    <2>4. CursorsOn(S)'
      BY <1>0, <2>2 DEF CursorsOn, TypeOK, MutualExclusion, InCache, Chained
    <2>5. \A u \in Thread : Holds(u)' => Holds(u) /\ meta'[u] = meta[u]
      BY DEF Holds, TypeOK
    <2>6. ListIntact'
      BY <1>0, <2>4, <2>5, QuietList
    <2> QED BY <2>1, <2>2, <2>3, <2>6
  <1>20. ASSUME NEW t \in Thread, Fault(t) PROVE Inv'
    <2> USE <1>20 DEF Fault, Exit, threadVars, links, fields
    <2>1. TypeOK'
      BY DEF TypeOK, PC, Node, Length, MutualExclusion, InCache, Chained
    <2>2. MutualExclusion'
      BY DEF MutualExclusion, TypeOK, InCache
    <2>3. CheckedOutIntact'
      BY DEF CheckedOutIntact, TypeOK, Holds
    <2>4. CursorsOn(S)'
      BY <1>0, <2>2 DEF CursorsOn, TypeOK, MutualExclusion, InCache, Chained
    <2>5. \A u \in Thread : Holds(u)' => Holds(u) /\ meta'[u] = meta[u]
      BY DEF Holds, TypeOK
    <2>6. ListIntact'
      BY <1>0, <2>4, <2>5, QuietList
    <2> QED BY <2>1, <2>2, <2>3, <2>6
  <1>21. ASSUME NEW t \in Thread, PeerFails(t) PROVE Inv'
    <2> USE <1>21 DEF PeerFails, Exit, threadVars, links, fields
    <2>1. TypeOK'
      BY DEF TypeOK, PC, Node, Length, MutualExclusion, InCache, Chained
    <2>2. MutualExclusion'
      BY DEF MutualExclusion, TypeOK, InCache
    <2>3. CheckedOutIntact'
      BY DEF CheckedOutIntact, TypeOK, Holds
    <2>4. CursorsOn(S)'
      BY <1>0, <2>2 DEF CursorsOn, TypeOK, MutualExclusion, InCache, Chained
    <2>5. \A u \in Thread : Holds(u)' => Holds(u) /\ meta'[u] = meta[u]
      BY DEF Holds, TypeOK
    <2>6. ListIntact'
      BY <1>0, <2>4, <2>5, QuietList
    <2> QED BY <2>1, <2>2, <2>3, <2>6
  <1>22. CASE UNCHANGED vars
    <2> USE <1>22 DEF vars
    <2>1. TypeOK' /\ MutualExclusion' /\ CheckedOutIntact'
      BY DEF TypeOK, MutualExclusion, CheckedOutIntact, Holds
    <2>2. ListIntact'
      BY DEF ListIntact, Chained, Owned, CursorsOn, Holds
    <2> QED
      BY <2>1, <2>2
  <1> QED
    BY <1>1, <1>2, <1>3, <1>4, <1>5, <1>6, <1>7, <1>8, <1>9, <1>10, <1>11, <1>12, <1>13, <1>14, <1>15, <1>16, <1>17, <1>18, <1>19, <1>20, <1>21, <1>22
    DEF Next, CacheStep, PeerStep, Stopped

LEMMA Initial == Init => Inv
  <1> SUFFICES ASSUME Init PROVE Inv
    OBVIOUS
  <1> USE AddrAssumption, RequestsAssumption, SizeAssumption DEF Init
  <1>1. TypeOK
    BY DEF TypeOK, PC, Node
  <1>2. MutualExclusion /\ CheckedOutIntact
    BY DEF MutualExclusion, CheckedOutIntact, InCache, Holds
  <1>3. Chained({}) /\ Owned({}) /\ CursorsOn({})
    BY DEF Chained, Owned, CursorsOn, Node
  <1> QED
    BY <1>1, <1>2, <1>3 DEF Inv, ListIntact

LEMMA Invariance == Spec => []Inv
  BY Initial, Step, PTL DEF Spec

(* Every variable has its type in every reachable state, for every set of  *)
(* threads, keys and addresses and all sizes.                              *)
THEOREM TypeCorrect == Spec => []TypeOK
  BY Invariance, PTL DEF Inv

(* The semaphore admits one thread at a time to the list.                  *)
THEOREM Exclusion == Spec => []MutualExclusion
  BY Invariance, PTL DEF Inv

(* The node of a hit is the thread's own while its response is being sent. *)
THEOREM CheckedOut == Spec => []CheckedOutIntact
  BY Invariance, PTL DEF Inv

(* The list stays a doubly linked list of nodes that own their responses.  *)
THEOREM ListLinked == Spec => []ListIntact
  BY Invariance, PTL DEF Inv

(* An eviction frees the response of the last node of the list, and never  *)
(* one that a thread is sending.                                           *)
THEOREM FreesOldest ==
    Spec => [][\A n \in Responses \ Responses' :
                  /\ n = prev[Tail]
                  /\ \A t \in Thread : Holds(t) => meta[t] # n]_vars
  <1>1. Inv /\ [Next]_vars =>
           [\A n \in Responses \ Responses' :
               /\ n = prev[Tail]
               /\ \A t \in Thread : Holds(t) => meta[t] # n]_vars
    <2> SUFFICES ASSUME Inv, Next, NEW n \in Responses \ Responses'
                 PROVE  /\ n = prev[Tail]
                        /\ \A t \in Thread : Holds(t) => meta[t] # n
      BY DEF vars, Responses
    <2>1. PICK S \in SUBSET Addr : Chained(S) /\ Owned(S) /\ CursorsOn(S)
      BY DEF Inv, ListIntact
    <2>2. n \in Node /\ response[n] = "held" /\ response'[n] # "held"
      BY DEF Responses
    <2>3. PICK t \in Thread : EvictOverflow(t) \/ EvictFree(t)
      BY <2>2 DEF Next, CacheStep, PeerStep, Stopped, vars, fields, Exit, Inv, TypeOK,
         ReadRequest, ReadLock, SearchNext, SearchHit, SearchMiss, ReadUnlock,
         SendCached, PushLock, Push, PushUnlock, Relay, WriteLock, WriteEnter,
         EvictAbort, Store, StoreOutOfMemory, WriteUnlock, Fault, PeerFails
    <2>4. n = curr[t] /\ pc[t] = "evict" /\ MustEvict(t)
      BY <2>2, <2>3 DEF EvictOverflow, EvictFree, Evict, Goto, Inv, TypeOK
    <2>5. n = prev[Tail] /\ n \in S
      BY <2>1, <2>4 DEF CursorsOn, Chained, MustEvict
    <2> QED
      BY <2>1, <2>5 DEF Owned
  <1> QED
    BY <1>1, Invariance, PTL DEF Spec

(* The free at the end of an eviction (cache.c:70) only ever frees the     *)
(* tail: no cache node is freed in any run, whatever is evicted.           *)
THEOREM NodesNeverFreed == Spec => [][live \ live' \subseteq {Tail}]_vars
  <1>1. Inv /\ [Next]_vars => [live \ live' \subseteq {Tail}]_vars
    <2> SUFFICES ASSUME Inv, Next, NEW n \in live \ live'
                 PROVE  n = Tail
      BY DEF vars
    <2>1. PICK S \in SUBSET Addr : Chained(S) /\ Owned(S) /\ CursorsOn(S)
      BY DEF Inv, ListIntact
    <2>2. PICK t \in Thread : EvictFree(t)
      BY DEF Next, CacheStep, PeerStep, Stopped, vars, Exit,
         ReadRequest, ReadLock, SearchNext, SearchHit, SearchMiss, ReadUnlock,
         SendCached, PushLock, Push, PushUnlock, Relay, WriteLock, WriteEnter,
         EvictOverflow, EvictAbort, Store, StoreOutOfMemory, WriteUnlock,
         Fault, PeerFails
    <2>3. n = next[curr[t]] /\ curr[t] = prev[Tail]
      BY <2>1, <2>2 DEF EvictFree, Victim, Goto, CursorsOn
    <2> QED
      BY <2>1, <2>3 DEF Chained
  <1> QED
    BY <1>1, Invariance, PTL DEF Spec

-----------------------------------------------------------------------------
(* What the links alone do not say: that the list is all there is.         *)
(* ListIntact speaks of some set of linked nodes; Walk speaks of the set   *)
(* that following next from the head visits, and counts the responses.     *)

\* The nodes that are with a thread.
Sent == {meta[t] : t \in {u \in Thread : Holds(u)}}

\* Following next from the head comes by every node of S.
Reached(S) == \A T \in SUBSET Addr : Follows(T) => S \subseteq T

\* S is the list and all of the list: its nodes are linked, owned and reached,
\* and no response is allocated but theirs and those being sent.
Walk(S) ==
    /\ Chained(S)
    /\ Owned(S)
    /\ CursorsOn(S)
    /\ Reached(S)
    /\ Responses = S \cup Sent

\* The strengthening of NoResponseLost that is inductive, given Inv.
Kept == response[Tail] = "none" => \E S \in SUBSET Addr : Walk(S)

\* The set that Walk speaks of is the one that the property defines.
LEMMA WalkListed ==
    ASSUME NEW S \in SUBSET Addr, Walk(S)
    PROVE  Listed = S
  <1>1. Follows(S)
    BY AddrAssumption DEF Walk, Chained, Follows
  <1> QED
    BY <1>1 DEF Walk, Listed, Reached

\* push_cache keeps every node reachable, and adds its own.
LEMMA PushReached ==
    ASSUME next \in [Node -> Node \cup {NULL}], prev \in [Node -> Node \cup {NULL}],
           NEW S \in SUBSET Addr, Chained(S), Reached(S),
           NEW n \in Addr, n \notin S, push_cache(n)
    PROVE  Reached(S \cup {n})'
  <1> USE AddrAssumption DEF Node
  <1>1. \A m \in Node :
          next'[m] = IF m = Head THEN n ELSE IF m = n THEN next[Head] ELSE next[m]
    BY DEF push_cache
  <1> SUFFICES ASSUME NEW T \in SUBSET Addr, Follows(T)' PROVE S \cup {n} \subseteq T
    BY DEF Reached
  <1>2. n \in T
    BY <1>1 DEF Follows
  <1>3. next[Head] \in Addr => next[Head] \in T
    BY <1>1, <1>2 DEF Follows
  <1>4. ASSUME NEW m \in T \cap S, next[m] \in Addr PROVE next[m] \in T
    BY <1>1, <1>4 DEF Follows
  <1>5. Follows(T \cap S)
    BY <1>3, <1>4 DEF Follows, Chained
  <1> QED
    BY <1>2, <1>5 DEF Reached

\* pop_cache loses no node but its own.
LEMMA PopReached ==
    ASSUME next \in [Node -> Node \cup {NULL}], prev \in [Node -> Node \cup {NULL}],
           NEW S \in SUBSET Addr, Chained(S), Reached(S), NEW n \in S, pop_cache(n)
    PROVE  Reached(S \ {n})'
  <1> USE AddrAssumption DEF Node
  <1>1. /\ n \in Node /\ prev[n] \in S \cup {Head} /\ next[n] \in S \cup {Tail}
        /\ next[prev[n]] = n
    BY DEF Chained
  <1>2. \A m \in Node : next'[m] = IF m = prev[n] THEN next[n] ELSE next[m]
    BY <1>1 DEF pop_cache
  <1> SUFFICES ASSUME NEW T \in SUBSET Addr, Follows(T)' PROVE S \ {n} \subseteq T
    BY DEF Reached
  <1>3. CASE prev[n] = Head \/ prev[n] \in T
    <2>1. next[n] \in Addr => next[n] \in T
      BY <1>1, <1>2, <1>3 DEF Follows
    <2>2. next[Head] \in Addr => next[Head] \in T \cup {n}
      BY <1>1, <1>2 DEF Follows
    <2>3. ASSUME NEW m \in T \cup {n}, next[m] \in Addr PROVE next[m] \in T \cup {n}
      BY <1>1, <1>2, <2>1, <2>3 DEF Follows
    <2>4. Follows(T \cup {n})
      BY <2>2, <2>3 DEF Follows
    <2> QED
      BY <2>4 DEF Reached
  <1>4. CASE prev[n] \in S /\ prev[n] \notin T
    <2>1. ASSUME NEW m \in S \cup {Head}, m # prev[n] PROVE next[m] # n
      BY <1>1, <2>1 DEF Chained
    <2>2. next[Head] \in Addr => next[Head] \in (T \cap S) \ {n}
      BY <1>1, <1>2, <1>4, <2>1 DEF Follows, Chained
    <2>3. ASSUME NEW m \in (T \cap S) \ {n}, next[m] \in Addr
          PROVE  next[m] \in (T \cap S) \ {n}
      BY <1>1, <1>2, <1>4, <2>1, <2>3 DEF Follows, Chained
    <2>4. Follows((T \cap S) \ {n})
      BY <2>2, <2>3 DEF Follows
    <2> QED
      BY <1>4, <2>4 DEF Reached
  <1> QED
    BY <1>1, <1>3, <1>4

\* The steps that leave the links, the fields and cache_left alone.
Quiet(t) ==
    \/ ReadRequest(t) \/ ReadLock(t) \/ SearchNext(t) \/ SearchMiss(t) \/ ReadUnlock(t)
    \/ SendCached(t) \/ PushLock(t) \/ PushUnlock(t) \/ Relay(t) \/ WriteLock(t)
    \/ WriteEnter(t) \/ EvictAbort(t) \/ StoreOutOfMemory(t) \/ WriteUnlock(t)
    \/ Fault(t) \/ PeerFails(t)

\* No thread takes a node or gives one back.
SameHolders == \A u \in Thread : (Holds(u)' <=> Holds(u)) /\ (Holds(u) => meta'[u] = meta[u])

\* A quiet step leaves every cursor on the list and every node where it was.
LEMMA QuietCursors ==
    ASSUME Inv, Inv', NEW S \in SUBSET Addr, Chained(S), CursorsOn(S),
           NEW t \in Thread, Quiet(t)
    PROVE  CursorsOn(S)' /\ SameHolders
  <1> USE AddrAssumption DEF Inv, SameHolders, CursorsOn, TypeOK, MutualExclusion, InCache,
          Chained, Holds, links, fields
  <1>1. CASE ReadRequest(t)
    BY <1>1 DEF ReadRequest, Goto, threadVars
  <1>2. CASE ReadLock(t)
    BY <1>2 DEF ReadLock, P, Goto
  <1>3. CASE SearchNext(t)
    BY <1>3 DEF SearchNext, Goto
  <1>4. CASE SearchMiss(t)
    BY <1>4 DEF SearchMiss, Goto
  <1>5. CASE ReadUnlock(t)
    BY <1>5 DEF ReadUnlock, V, Goto, threadVars
  <1>6. CASE SendCached(t)
    BY <1>6 DEF SendCached, Goto, threadVars
  <1>7. CASE PushLock(t)
    BY <1>7 DEF PushLock, P, Goto, threadVars
  <1>8. CASE PushUnlock(t)
    BY <1>8 DEF PushUnlock, V, Goto, threadVars
  <1>9. CASE Relay(t)
    BY <1>9 DEF Relay, Goto
  <1>10. CASE WriteLock(t)
    BY <1>10 DEF WriteLock, P, Goto, threadVars
  <1>11. CASE WriteEnter(t)
    BY <1>11 DEF WriteEnter, Goto
  <1>12. CASE EvictAbort(t)
    BY <1>12 DEF EvictAbort, Exit, threadVars
  <1>13. CASE StoreOutOfMemory(t)
    BY <1>13 DEF StoreOutOfMemory, Exit, threadVars
  <1>14. CASE WriteUnlock(t)
    BY <1>14 DEF WriteUnlock, V, Goto, threadVars
  <1>15. CASE Fault(t)
    BY <1>15 DEF Fault, Exit, threadVars
  <1>16. CASE PeerFails(t)
    BY <1>16 DEF PeerFails, Exit, threadVars
  <1> QED
    BY <1>1, <1>2, <1>3, <1>4, <1>5, <1>6, <1>7, <1>8, <1>9, <1>10, <1>11, <1>12, <1>13,
       <1>14, <1>15, <1>16 DEF Quiet

\* So the list of a quiet step is still all there is.
LEMMA QuietWalk ==
    ASSUME Inv, Inv', NEW S \in SUBSET Addr, Walk(S), NEW t \in Thread, Quiet(t)
    PROVE  Walk(S)' /\ UNCHANGED <<links, fields, cache_left>>
  <1>1. CursorsOn(S)' /\ SameHolders
    BY QuietCursors DEF Walk
  <1>2. UNCHANGED <<live, next, prev, nkey, reslen, response, cache_left>>
    BY DEF Quiet, ReadRequest, ReadLock, SearchNext, SearchMiss, ReadUnlock, SendCached,
       PushLock, PushUnlock, Relay, WriteLock, WriteEnter, EvictAbort, StoreOutOfMemory,
       WriteUnlock, Fault, PeerFails, Exit, links, fields
  <1>3. Sent' = Sent
    BY <1>1 DEF Sent, SameHolders
  <1>4. Chained(S)' /\ Owned(S)' /\ Reached(S)' /\ (Responses = S \cup Sent)'
    BY <1>1, <1>2, <1>3 DEF Walk, Chained, Owned, Reached, Follows, Responses, SameHolders
  <1> QED
    BY <1>1, <1>2, <1>4 DEF Walk, links, fields

\* A hit moves one node from the list to the thread.
LEMMA HitWalk ==
    ASSUME Inv, Inv', NEW S \in SUBSET Addr, Walk(S), NEW t \in Thread, SearchHit(t)
    PROVE  (\E Z \in SUBSET Addr : Walk(Z)') /\ Responses' = Responses
  <1> USE AddrAssumption DEF Inv, Walk
  <1>1. PICK c \in S :
          /\ c = curr[t] /\ c \in Node
          /\ next[c] \in Node /\ prev[c] \in Node
    BY DEF CursorsOn, Chained, Node, SearchHit, Goto
  <1>2. \A u \in Thread : Holds(u)' <=> Holds(u) \/ u = t
    BY <1>1 DEF SearchHit, Goto, Holds, TypeOK, Node
  <1>3. ~Holds(t)
    BY DEF SearchHit, Goto, Holds
  <1>4. \A u \in Thread : meta'[u] = IF u = t THEN c ELSE meta[u]
    BY <1>1 DEF SearchHit, TypeOK
  <1>5. Sent' = Sent \cup {c}
    BY <1>2, <1>3, <1>4 DEF Sent
  <1>6. Responses' = Responses
    BY DEF SearchHit, Responses, fields
  <1>7. Chained(S \ {c})' /\ Reached(S \ {c})'
    BY <1>1, PopChained, PopReached DEF TypeOK, SearchHit
  <1>8. Owned(S \ {c})'
    BY <1>2, <1>4 DEF Owned, SearchHit, fields
  <1>9. CursorsOn(S \ {c})'
    BY DEF SearchHit, Goto, CursorsOn, TypeOK, MutualExclusion, InCache
  <1>10. Responses' = (S \ {c}) \cup Sent'
    BY <1>5, <1>6
  <1> QED
    BY <1>6, <1>7, <1>8, <1>9, <1>10

\* Pushing moves it back.
LEMMA PushWalk ==
    ASSUME Inv, Inv', NEW S \in SUBSET Addr, Walk(S), NEW t \in Thread, Push(t)
    PROVE  (\E Z \in SUBSET Addr : Walk(Z)') /\ Responses' = Responses
  <1> USE AddrAssumption DEF Inv, Walk
  <1>1. PICK n \in Addr :
          /\ Holds(t) /\ n = meta[t] /\ n \in live /\ n \notin S /\ response[n] = "held"
    BY DEF Push, Goto, Holds, CheckedOutIntact, Owned
  <1>2. \A u \in Thread : Holds(u)' <=> Holds(u) /\ u # t
    BY DEF Push, Goto, Holds, TypeOK, threadVars
  <1>3. \A u \in Thread : meta'[u] = meta[u]
    BY DEF Push, threadVars
  <1>4. Sent = Sent' \cup {n}
    BY <1>1, <1>2, <1>3 DEF Sent
  <1>5. Responses' = Responses
    BY DEF Push, Responses, fields
  <1>6. Chained(S \cup {n})' /\ Reached(S \cup {n})'
    BY <1>1, PushChained, PushReached DEF TypeOK, Push
  <1>7. Owned(S \cup {n})'
    BY <1>1, <1>2, <1>3 DEF Owned, CheckedOutIntact, Push, fields
  <1>8. CursorsOn(S \cup {n})'
    BY DEF Push, Goto, CursorsOn, TypeOK, MutualExclusion, InCache
  <1>9. Responses' = (S \cup {n}) \cup Sent'
    BY <1>4, <1>5
  <1> QED
    BY <1>5, <1>6, <1>7, <1>8, <1>9

\* An eviction frees one response of the list, never one being sent, and
\* returns its bytes.
LEMMA EvictWalk ==
    ASSUME Inv, Inv', NEW S \in SUBSET Addr, Walk(S), NEW t \in Thread,
           EvictOverflow(t) \/ EvictFree(t)
    PROVE  /\ \E Z \in SUBSET Addr : Walk(Z)'
           /\ \E c \in Responses : /\ Responses' = Responses \ {c}
                                   /\ cache_left' = cache_left + reslen[c]
                                   /\ reslen' = reslen
  <1> USE AddrAssumption DEF Inv, Walk
  <1>0. Goto(t, "evict", pc'[t]) /\ MustEvict(t) /\ Evict(t)
    BY DEF EvictOverflow, EvictFree, Goto, TypeOK
  <1>a. pc'[t] \in {"evict", "writeV"}
    BY DEF EvictOverflow, EvictFree, Goto, TypeOK
  <1>1. PICK c \in S :
          /\ c = curr[t] /\ c \in Node /\ prev[c] \in Node
          /\ c = prev[Tail] /\ next[c] = Tail
    BY <1>0 DEF Goto, MustEvict, CursorsOn, Chained, Node
  <1>2. live' \in {live, live \ {Tail}}
    BY <1>1 DEF EvictOverflow, EvictFree, Victim
  <1>3. \A u \in Thread : (Holds(u)' <=> Holds(u)) /\ meta'[u] = meta[u]
    BY <1>0, <1>a DEF Goto, Holds, TypeOK, Evict
  <1>4. Sent' = Sent /\ c \notin Sent
    BY <1>1, <1>3 DEF Sent, Owned
  <1>5. Responses' = Responses \ {c}
    BY <1>0, <1>1 DEF Responses, Evict, TypeOK
  <1>6. Chained(S \ {c})' /\ Reached(S \ {c})' /\ prev'[Tail] = prev[c]
    <2>1. pop_cache(c) /\ c = prev[Tail]
      BY <1>0, <1>1 DEF Evict
    <2>2. /\ next \in [Node -> Node \cup {NULL}] /\ prev \in [Node -> Node \cup {NULL}]
          /\ Chained(S) /\ Reached(S)
      BY DEF TypeOK
    <2>3. Chained(S \ {c})' /\ prev'[Tail] = prev[c]
      BY <2>1, <2>2, PopChained
    <2>4. Reached(S \ {c})'
      BY <2>1, <2>2, PopReached
    <2> QED
      BY <2>3, <2>4
  <1>7. Owned(S \ {c})'
    BY <1>0, <1>1, <1>2, <1>3 DEF Owned, Evict, TypeOK, Node
  <1>8. CursorsOn(S \ {c})'
    BY <1>0, <1>1, <1>6, <1>a DEF Goto, CursorsOn, TypeOK, MutualExclusion, InCache, Evict
  <1>9. Responses' = (S \ {c}) \cup Sent'
    BY <1>4, <1>5
  <1>10. c \in Responses /\ cache_left' = cache_left + reslen[c] /\ reslen' = reslen
    BY <1>0, <1>1 DEF Evict
  <1> QED
    BY <1>5, <1>6, <1>7, <1>8, <1>9, <1>10

\* A store adds one response at an address that had none.
LEMMA StoreWalk ==
    ASSUME Inv, Inv', NEW S \in SUBSET Addr, Walk(S), NEW t \in Thread, Store(t),
           response'[Tail] = "none"
    PROVE  /\ \E Z \in SUBSET Addr : Walk(Z)'
           /\ \E n \in Addr \ Responses :
                 /\ Responses' = Responses \cup {n}
                 /\ cache_left' = cache_left - length[t]
                 /\ reslen' = [reslen EXCEPT ![n] = length[t]]
  <1> USE AddrAssumption DEF Inv, Walk
  <1>1. PICK n \in (Addr \cup {Tail}) \ live :
          /\ live' = live \cup {n}
          /\ nkey' = [nkey EXCEPT ![n] = key[t]]
          /\ reslen' = [reslen EXCEPT ![n] = length[t]]
          /\ response' = [response EXCEPT ![n] = "held"]
          /\ push_cache(n)
    BY DEF Store, FreeAddr
  <1>2. n \in Addr
    BY <1>1 DEF TypeOK, Node
  <1>3. \A u \in Thread : (Holds(u)' <=> Holds(u)) /\ meta'[u] = meta[u]
    BY DEF Store, Goto, Holds, TypeOK, threadVars
  <1>4. Sent' = Sent
    BY <1>3 DEF Sent
  <1>5. n \notin S /\ n \notin Sent
    BY <1>1 DEF Owned, CheckedOutIntact, Sent
  <1>6. Responses' = Responses \cup {n}
    BY <1>1, <1>2 DEF Responses, TypeOK, Node
  <1>7. Chained(S \cup {n})' /\ Reached(S \cup {n})'
    BY <1>1, <1>2, <1>5, PushChained, PushReached DEF TypeOK
  <1>8. Owned(S \cup {n})'
    BY <1>1, <1>2, <1>3, <1>5 DEF Owned, TypeOK, CheckedOutIntact, Node
  <1>9. CursorsOn(S \cup {n})'
    BY DEF Store, Goto, CursorsOn, TypeOK, MutualExclusion, InCache
  <1>10. Responses' = (S \cup {n}) \cup Sent'
    BY <1>4, <1>6
  <1>11. n \notin Responses
    BY <1>5
  <1>12. cache_left' = cache_left - length[t]
    BY DEF Store
  <1> QED
    BY <1>1, <1>2, <1>6, <1>7, <1>8, <1>9, <1>10, <1>11, <1>12

\* Once the address of the tail has held a response, it never again has none.
LEMMA TailOnce ==
    ASSUME Inv, [Next]_vars, response'[Tail] = "none"
    PROVE  response[Tail] = "none"
  <1> SUFFICES ASSUME response' # response PROVE response[Tail] = "none"
    OBVIOUS
  <1>1. PICK t \in Thread : EvictOverflow(t) \/ EvictFree(t) \/ Store(t)
    BY DEF Next, CacheStep, PeerStep, Stopped, vars, fields, Exit,
       ReadRequest, ReadLock, SearchNext, SearchHit, SearchMiss, ReadUnlock,
       SendCached, PushLock, Push, PushUnlock, Relay, WriteLock, WriteEnter,
       EvictAbort, StoreOutOfMemory, WriteUnlock, Fault, PeerFails
  <1> QED
    BY <1>1, AddrAssumption
    DEF EvictOverflow, EvictFree, Evict, Store, FreeAddr, Inv, TypeOK, Node

\* Every step keeps the list complete.
LEMMA KeptStep == Inv /\ Inv' /\ Kept /\ [Next]_vars => Kept'
  <1> SUFFICES ASSUME Inv, Inv', Kept, [Next]_vars, response'[Tail] = "none"
               PROVE  \E Z \in SUBSET Addr : Walk(Z)'
    BY DEF Kept
  <1>1. response[Tail] = "none"
    BY TailOnce
  <1>2. PICK S \in SUBSET Addr : Walk(S)
    BY <1>1 DEF Kept
  <1>3. ASSUME NEW t \in Thread, Quiet(t) PROVE Walk(S)'
    BY <1>2, <1>3, QuietWalk
  <1>4. CASE UNCHANGED vars
    BY <1>2, <1>4
    DEF vars, Walk, Chained, Owned, CursorsOn, Reached, Follows, Responses, Sent, Holds
  <1> QED
    BY <1>2, <1>3, <1>4, HitWalk, PushWalk, EvictWalk, StoreWalk
    DEF Next, CacheStep, PeerStep, Stopped, Quiet

\* At the start there is nothing to lose.
LEMMA KeptInitial == Init => Kept
  <1> SUFFICES ASSUME Init PROVE Walk({})
    BY DEF Kept
  <1> USE AddrAssumption DEF Init
  <1>1. Chained({}) /\ Owned({}) /\ CursorsOn({}) /\ Reached({})
    BY DEF Chained, Owned, CursorsOn, Node, Reached
  <1>2. Responses = {} /\ Sent = {}
    BY DEF Responses, Sent, Holds
  <1> QED
    BY <1>1, <1>2 DEF Walk

\* Until the address of the tail comes back from malloc, the list is complete.
LEMMA KeptInvariance == Spec => []Kept
  BY KeptInitial, KeptStep, Invariance, PTL DEF Spec

(* No response is lost: what is allocated is on the list or being sent,    *)
(* until the address of the freed tail comes back from malloc.             *)
THEOREM NothingLost == Spec => []NoResponseLost
  <1>1. Kept => NoResponseLost
    BY WalkListed DEF Kept, Walk, NoResponseLost, Sent
  <1> QED
    BY <1>1, KeptInvariance, PTL


\* The strengthening of CacheLeftExact: the bytes are also finitely many.
Accounted ==
    response[Tail] = "none" =>
        IsFiniteSet(Bytes) /\ cache_left = MaxCacheSize - Cardinality(Bytes)

\* A response of len bytes counts for len.
LEMMA BytesOf ==
    ASSUME NEW n, NEW len \in Nat
    PROVE  /\ IsFiniteSet({n} \X (1 .. len))
           /\ Cardinality({n} \X (1 .. len)) = len
  <1>1. IsFiniteSet({n}) /\ Cardinality({n}) = 1
    BY FS_Singleton
  <1>2. IsFiniteSet(1 .. len) /\ Cardinality(1 .. len) = len
    BY FS_Interval
  <1>3. /\ IsFiniteSet({n} \X (1 .. len))
        /\ Cardinality({n} \X (1 .. len)) = Cardinality({n}) * Cardinality(1 .. len)
    BY <1>1, <1>2, FS_Product
  <1> QED
    BY <1>1, <1>2, <1>3

\* Freeing a response returns its bytes.
LEMMA EvictBytes ==
    ASSUME reslen \in [Node -> Nat], reslen' = reslen, cache_left \in Int,
           NEW c \in Responses, Responses' = Responses \ {c},
           cache_left' = cache_left + reslen[c],
           IsFiniteSet(Bytes), cache_left = MaxCacheSize - Cardinality(Bytes)
    PROVE  IsFiniteSet(Bytes)' /\ cache_left' = MaxCacheSize - Cardinality(Bytes')
  <1>0. reslen[c] \in Nat
    BY DEF Responses
  <1> DEFINE Own == {c} \X (1 .. reslen[c])
  <1>1. Own \subseteq Bytes
    BY DEF Bytes
  <1>2. Bytes' = Bytes \ Own
    BY DEF Bytes
  <1>3. Cardinality(Own) = reslen[c]
    BY <1>0, BytesOf
  <1>4. Bytes \cap Own = Own
    BY <1>1
  <1> HIDE DEF Own
  <1>5. IsFiniteSet(Bytes') /\ Cardinality(Bytes') = Cardinality(Bytes) - Cardinality(Own)
    <2>1. IsFiniteSet(Bytes)
      OBVIOUS
    <2>2. /\ IsFiniteSet(Bytes \ Own)
          /\ Cardinality(Bytes \ Own) = Cardinality(Bytes) - Cardinality(Bytes \cap Own)
      BY <2>1, FS_Difference
    <2> QED
      BY <1>2, <1>4, <2>2
  <1>6. Cardinality(Bytes) \in Nat /\ MaxCacheSize \in Nat
    BY FS_CardinalityType, SizeAssumption
  <1> QED
    BY <1>0, <1>3, <1>5, <1>6

\* Storing a response takes its bytes.
LEMMA StoreBytes ==
    ASSUME reslen \in [Node -> Nat], cache_left \in Int, NEW len \in Nat,
           NEW n \in Node \ Responses, Responses' = Responses \cup {n},
           reslen' = [reslen EXCEPT ![n] = len], cache_left' = cache_left - len,
           IsFiniteSet(Bytes), cache_left = MaxCacheSize - Cardinality(Bytes)
    PROVE  IsFiniteSet(Bytes)' /\ cache_left' = MaxCacheSize - Cardinality(Bytes')
  <1> DEFINE Own == {n} \X (1 .. len)
  <1>1. \A m \in Node : reslen'[m] = IF m = n THEN len ELSE reslen[m]
    OBVIOUS
  <1>2. Bytes' = Bytes \cup Own
    BY <1>1 DEF Bytes, Responses
  <1>3. IsFiniteSet(Own) /\ Cardinality(Own) = len
    BY BytesOf
  <1>4. Bytes \cap Own = {}
    BY DEF Bytes
  <1> HIDE DEF Own
  <1>5. /\ IsFiniteSet(Bytes')
        /\ Cardinality(Bytes') = Cardinality(Bytes) + Cardinality(Own)
                                   - Cardinality(Bytes \cap Own)
    BY <1>2, <1>3, FS_Union
  <1>6. Cardinality({}) = 0
    BY FS_EmptySet
  <1>7. Cardinality(Bytes) \in Nat /\ MaxCacheSize \in Nat
    BY FS_CardinalityType, SizeAssumption
  <1> QED
    BY <1>3, <1>4, <1>5, <1>6, <1>7

\* Every step accounts for the bytes it frees or stores.
LEMMA AccountedStep == Inv /\ Inv' /\ Kept /\ Accounted /\ [Next]_vars => Accounted'
  <1> SUFFICES ASSUME Inv, Inv', Kept, Accounted, [Next]_vars, response'[Tail] = "none"
               PROVE  IsFiniteSet(Bytes)' /\ cache_left' = MaxCacheSize - Cardinality(Bytes')
    BY DEF Accounted
  <1>1. response[Tail] = "none"
    BY TailOnce
  <1>2. PICK S \in SUBSET Addr : Walk(S)
    BY <1>1 DEF Kept
  <1>3. /\ IsFiniteSet(Bytes) /\ cache_left = MaxCacheSize - Cardinality(Bytes)
        /\ reslen \in [Node -> Nat] /\ cache_left \in Int
    BY <1>1 DEF Accounted, Inv, TypeOK
  <1>4. ASSUME Responses' = Responses, UNCHANGED <<reslen, cache_left>>
        PROVE  IsFiniteSet(Bytes)' /\ cache_left' = MaxCacheSize - Cardinality(Bytes')
    BY <1>3, <1>4 DEF Bytes
  <1>5. ASSUME NEW t \in Thread, Quiet(t)
        PROVE  Responses' = Responses /\ UNCHANGED <<reslen, cache_left>>
    BY <1>2, <1>5, QuietWalk DEF fields, Responses
  <1>6. ASSUME NEW t \in Thread, SearchHit(t) \/ Push(t)
        PROVE  Responses' = Responses /\ UNCHANGED <<reslen, cache_left>>
    BY <1>6 DEF SearchHit, Push, fields, Responses
  <1>7. CASE UNCHANGED vars
    BY <1>4, <1>7 DEF vars, Responses
  <1>8. ASSUME NEW t \in Thread, EvictOverflow(t) \/ EvictFree(t)
        PROVE  IsFiniteSet(Bytes)' /\ cache_left' = MaxCacheSize - Cardinality(Bytes')
    BY <1>2, <1>3, <1>8, EvictWalk, EvictBytes
  <1>9. ASSUME NEW t \in Thread, Store(t)
        PROVE  IsFiniteSet(Bytes)' /\ cache_left' = MaxCacheSize - Cardinality(Bytes')
    <2>1. length[t] \in Nat
      BY DEF Inv, TypeOK
    <2>2. PICK n \in Addr \ Responses :
             /\ Responses' = Responses \cup {n}
             /\ cache_left' = cache_left - length[t]
             /\ reslen' = [reslen EXCEPT ![n] = length[t]]
      BY <1>2, <1>9, StoreWalk
    <2> QED
      BY <1>3, <2>1, <2>2, StoreBytes DEF Node
  <1> QED
    BY <1>4, <1>5, <1>6, <1>7, <1>8, <1>9 DEF Next, CacheStep, PeerStep, Stopped, Quiet

\* The empty cache has all of its capacity left.
LEMMA AccountedInitial == Init => Accounted
  <1> SUFFICES ASSUME Init
               PROVE  IsFiniteSet(Bytes) /\ cache_left = MaxCacheSize - Cardinality(Bytes)
    BY DEF Accounted
  <1>1. Bytes = {}
    BY DEF Init, Bytes, Responses
  <1>2. IsFiniteSet({}) /\ Cardinality({}) = 0
    BY FS_EmptySet
  <1> QED
    BY <1>1, <1>2, SizeAssumption DEF Init

\* What holds also when the freed tail is a node: nothing is credited twice.
NoneTwice == IsFiniteSet(Bytes) /\ cache_left + Cardinality(Bytes) <= MaxCacheSize

\* A response stored at any address, over another one perhaps, takes its bytes.
LEMMA StoreTakes ==
    ASSUME reslen \in [Node -> Nat], cache_left \in Int, NEW len \in Nat,
           NEW n \in Node, Responses' = Responses \cup {n},
           reslen' = [reslen EXCEPT ![n] = len], cache_left' = cache_left - len,
           NoneTwice
    PROVE  NoneTwice'
  <1> DEFINE Own  == {n} \X (1 .. len)
             Rest == Bytes \ ({n} \X (1 .. reslen[n]))
  <1>1. \A m \in Node : reslen'[m] = IF m = n THEN len ELSE reslen[m]
    OBVIOUS
  <1>2. Bytes' = Rest \cup Own
    BY <1>1 DEF Bytes, Responses
  <1>3. IsFiniteSet(Own) /\ Cardinality(Own) = len
    BY BytesOf
  <1>4. IsFiniteSet(Bytes) /\ Rest \subseteq Bytes
    BY DEF NoneTwice
  <1> HIDE DEF Own, Rest
  <1>5. IsFiniteSet(Rest) /\ Cardinality(Rest) <= Cardinality(Bytes)
    BY <1>4, FS_Subset
  <1>6. /\ IsFiniteSet(Rest \cup Own)
        /\ Cardinality(Rest \cup Own) = Cardinality(Rest) + Cardinality(Own)
                                          - Cardinality(Rest \cap Own)
    BY <1>3, <1>5, FS_Union
  <1>7. IsFiniteSet(Rest \cap Own)
    BY <1>3, FS_Subset
  <1>8. /\ Cardinality(Bytes) \in Nat /\ Cardinality(Rest) \in Nat
        /\ Cardinality(Rest \cap Own) \in Nat /\ MaxCacheSize \in Nat
    BY <1>4, <1>5, <1>7, FS_CardinalityType, SizeAssumption
  <1>9. Cardinality(Rest \cup Own) <= Cardinality(Bytes) + len
    BY <1>3, <1>5, <1>6, <1>8
  <1>10. cache_left + Cardinality(Bytes) <= MaxCacheSize
    BY DEF NoneTwice
  <1>11. IsFiniteSet(Bytes') /\ Cardinality(Bytes') = Cardinality(Rest \cup Own)
    BY <1>2, <1>6
  <1>12. Cardinality(Bytes') \in Nat
    BY <1>11, FS_CardinalityType
  <1>13. cache_left' + Cardinality(Bytes') <= MaxCacheSize
    BY <1>8, <1>9, <1>10, <1>11, <1>12
  <1> QED
    BY <1>11, <1>13 DEF NoneTwice

\* An eviction gives back the bytes of one response and forgets them.
LEMMA EvictGives ==
    ASSUME reslen \in [Node -> Nat], reslen' = reslen, cache_left \in Int,
           NEW c \in Responses, Responses' = Responses \ {c},
           cache_left' = cache_left + reslen[c], NoneTwice
    PROVE  NoneTwice'
  <1>0. reslen[c] \in Nat
    BY DEF Responses
  <1> DEFINE Own == {c} \X (1 .. reslen[c])
  <1>1. Own \subseteq Bytes /\ Bytes' = Bytes \ Own
    BY DEF Bytes
  <1>2. Cardinality(Own) = reslen[c]
    BY <1>0, BytesOf
  <1>3. Bytes \cap Own = Own
    BY <1>1
  <1> HIDE DEF Own
  <1>4. IsFiniteSet(Bytes)
    BY DEF NoneTwice
  <1>5. /\ IsFiniteSet(Bytes \ Own)
        /\ Cardinality(Bytes \ Own) = Cardinality(Bytes) - Cardinality(Bytes \cap Own)
    BY <1>4, FS_Difference
  <1>6. Cardinality(Bytes) \in Nat /\ MaxCacheSize \in Nat
    BY <1>4, FS_CardinalityType, SizeAssumption
  <1>7. IsFiniteSet(Bytes') /\ Cardinality(Bytes') = Cardinality(Bytes) - reslen[c]
    BY <1>1, <1>2, <1>3, <1>5
  <1>8. cache_left' + Cardinality(Bytes') <= MaxCacheSize
    BY <1>0, <1>6, <1>7 DEF NoneTwice
  <1> QED
    BY <1>7, <1>8 DEF NoneTwice

\* Every step keeps it: what is evicted is a node of the list, with its response.
LEMMA NoneTwiceStep == Inv /\ NoneTwice /\ [Next]_vars => NoneTwice'
  <1> SUFFICES ASSUME Inv, NoneTwice, [Next]_vars PROVE NoneTwice'
    OBVIOUS
  <1>1. TypeOK /\ ListIntact
    BY DEF Inv
  <1>2. /\ reslen \in [Node -> Nat] /\ cache_left \in Int /\ length \in [Thread -> Nat]
        /\ response \in [Node -> {"none", "held", "freed"}]
    BY <1>1 DEF TypeOK
  <1>3. ASSUME UNCHANGED <<response, reslen, cache_left>>
        PROVE  NoneTwice'
    BY <1>3 DEF NoneTwice, Bytes, Responses
  <1>4. ASSUME NEW t \in Thread,
               \/ ReadLock(t) \/ SearchNext(t) \/ SearchMiss(t) \/ ReadUnlock(t)
               \/ PushLock(t) \/ PushUnlock(t) \/ WriteLock(t) \/ WriteEnter(t)
               \/ EvictAbort(t) \/ StoreOutOfMemory(t) \/ WriteUnlock(t)
               \/ PeerStep(t) \/ Fault(t) \/ SearchHit(t) \/ Push(t)
        PROVE  UNCHANGED <<response, reslen, cache_left>>
    BY <1>4 DEF ReadLock, SearchNext, SearchMiss, ReadUnlock, PushLock, PushUnlock,
       WriteLock, WriteEnter, EvictAbort, StoreOutOfMemory, WriteUnlock, PeerStep,
       ReadRequest, SendCached, Relay, PeerFails, Fault, Exit, SearchHit, Push, fields
  <1>5. CASE UNCHANGED vars
    BY <1>3, <1>5 DEF vars
  <1>6. ASSUME NEW t \in Thread, EvictOverflow(t) \/ EvictFree(t)
        PROVE  NoneTwice'
    <2> DEFINE c == curr[t]
    <2>1. Evict(t) /\ pc[t] = "evict" /\ c # Head
      BY <1>6 DEF EvictOverflow, EvictFree, Goto, MustEvict
    <2>2. c \in Responses
      BY <1>1, <2>1 DEF ListIntact, Chained, Owned, CursorsOn, Responses, Node
    <2>3. /\ reslen' = reslen /\ cache_left' = cache_left + reslen[c]
          /\ response' = [response EXCEPT ![c] = "freed"]
      BY <2>1 DEF Evict
    <2>4. Responses' = Responses \ {c}
      BY <1>2, <2>2, <2>3 DEF Responses
    <2> QED
      BY <1>2, <2>2, <2>3, <2>4, EvictGives
  <1>7. ASSUME NEW t \in Thread, Store(t)
        PROVE  NoneTwice'
    <2>1. PICK n \in FreeAddr : /\ reslen' = [reslen EXCEPT ![n] = length[t]]
                                /\ response' = [response EXCEPT ![n] = "held"]
                                /\ cache_left' = cache_left - length[t]
      BY <1>7 DEF Store
    <2>2. n \in Node /\ length[t] \in Nat
      BY <1>2 DEF FreeAddr, Node
    <2>3. Responses' = Responses \cup {n}
      BY <1>2, <2>1, <2>2 DEF Responses
    <2> QED
      BY <1>2, <2>1, <2>2, <2>3, StoreTakes
  <1> QED
    BY <1>3, <1>4, <1>5, <1>6, <1>7 DEF Next, CacheStep, Stopped

\* The empty cache has nothing to give back.
LEMMA NoneTwiceInitial == Init => NoneTwice
  <1>1. Init => Bytes = {} /\ cache_left = MaxCacheSize
    BY DEF Init, Bytes, Responses
  <1>2. IsFiniteSet({}) /\ Cardinality({}) = 0
    BY FS_EmptySet
  <1> QED
    BY <1>1, <1>2, SizeAssumption DEF NoneTwice

(* cache_left is the capacity less the bytes of every cached response,     *)
(* those being sent included, until the freed tail is stored to; whatever  *)
(* becomes of the tail, no byte is given back twice.                       *)
THEOREM BytesExact == Spec => []CacheLeftExact
  <1>1. Inv /\ Accounted /\ NoneTwice => CacheLeftExact
    <2> SUFFICES ASSUME Inv, Accounted, NoneTwice, response[Tail] = "none"
                 PROVE  cache_left + Cardinality(Bytes) = MaxCacheSize
      BY DEF CacheLeftExact, NoneTwice
    <2>1. Cardinality(Bytes) \in Nat /\ cache_left = MaxCacheSize - Cardinality(Bytes)
      BY FS_CardinalityType DEF Accounted
    <2> QED
      BY <2>1, SizeAssumption
  <1>2. Spec => []Accounted
    BY AccountedInitial, AccountedStep, Invariance, KeptInvariance, PTL DEF Spec
  <1>3. Spec => []NoneTwice
    BY NoneTwiceInitial, NoneTwiceStep, Invariance, PTL DEF Spec
  <1> QED
    BY <1>1, <1>2, <1>3, Invariance, PTL

-----------------------------------------------------------------------------
(* The cache keeps the promise of ResponseCache: each step that changes    *)
(* the list is one of its steps, any other changes nothing it speaks of.   *)
(* What the links say of the order of uses is stated for any two functions *)
(* nx and pv, so that it holds of the links before and after a step.       *)

Links == [Node -> Node \cup {NULL}]

ChainedBy(nx, pv, S) ==
    /\ \A n \in S \cup {Head} : nx[n] \in S \cup {Tail} /\ pv[nx[n]] = n
    /\ \A n \in S \cup {Tail} : pv[n] \in S \cup {Head} /\ nx[pv[n]] = n

FollowsBy(nx, S) == /\ nx[Head] \in Addr => nx[Head] \in S
                    /\ \A n \in S : nx[n] \in Addr => nx[n] \in S

ReachedBy(nx, S) == \A T \in SUBSET Addr : FollowsBy(nx, T) => S \subseteq T

ListedBy(nx) == {n \in Addr : \A S \in SUBSET Addr : FollowsBy(nx, S) => n \in S}

LeadsBy(pv, S, n) == /\ pv[n] \in Addr => pv[n] \in S
                     /\ \A m \in S : pv[m] \in Addr => pv[m] \in S

AheadBy(pv, n) == {m \in Addr : \A S \in SUBSET Addr : LeadsBy(pv, S, n) => m \in S}

\* S is the list that the links make up.
List(nx, pv, S) == ChainedBy(nx, pv, S) /\ ReachedBy(nx, S)

LEMMA ListIs ==
    ASSUME NEW S
    PROVE  /\ Chained(S) /\ Reached(S) => List(next, prev, S)
           /\ Chained(S)' /\ Reached(S)' => List(next', prev', S)
  BY DEF Chained, Reached, Follows, List, ChainedBy, ReachedBy, FollowsBy

LEMMA ListedIs ==
    ASSUME NEW nx, NEW pv, NEW S \in SUBSET Addr, List(nx, pv, S)
    PROVE  ListedBy(nx) = S
  <1>1. FollowsBy(nx, S)
    BY AddrAssumption DEF List, ChainedBy, FollowsBy
  <1> QED
    BY <1>1 DEF List, ListedBy, ReachedBy

\* What holds of the first node and, with a node, of the next one.
LEMMA AlongList ==
    ASSUME NEW nx, NEW pv, NEW S \in SUBSET Addr, List(nx, pv, S), NEW Q \in SUBSET S,
           nx[Head] \in S => nx[Head] \in Q,
           \A m \in Q : nx[m] \in S => nx[m] \in Q
    PROVE  Q = S
  <1>1. FollowsBy(nx, Q)
    BY AddrAssumption DEF List, ChainedBy, FollowsBy
  <1> QED
    BY <1>1 DEF List, ReachedBy

\* The nodes ahead are the least set that the steps back stay in.
LEMMA AheadLeast ==
    ASSUME NEW pv, NEW n
    PROVE  /\ AheadBy(pv, n) \in SUBSET Addr
           /\ LeadsBy(pv, AheadBy(pv, n), n)
           /\ \A S \in SUBSET Addr : LeadsBy(pv, S, n) => AheadBy(pv, n) \subseteq S
  BY DEF AheadBy, LeadsBy

LEMMA AheadNext ==
    ASSUME NEW nx, NEW pv, NEW S \in SUBSET Addr, ChainedBy(nx, pv, S)
    PROVE  /\ AheadBy(pv, nx[Head]) = {}
           /\ \A m \in S : AheadBy(pv, nx[m]) = AheadBy(pv, m) \cup {m}
  <1> USE AddrAssumption
  <1>1. AheadBy(pv, nx[Head]) = {}
    <2>1. pv[nx[Head]] = Head
      BY DEF ChainedBy
    <2>2. LeadsBy(pv, {}, nx[Head])
      BY <2>1 DEF LeadsBy
    <2> QED
      BY <2>2, AheadLeast
  <1>2. ASSUME NEW m \in S
        PROVE  AheadBy(pv, nx[m]) = AheadBy(pv, m) \cup {m}
    <2>1. pv[nx[m]] = m /\ m \in Addr
      BY DEF ChainedBy
    <2> DEFINE A == AheadBy(pv, m)
               B == AheadBy(pv, nx[m])
    <2>2. /\ A \in SUBSET Addr /\ LeadsBy(pv, A, m)
          /\ \A T \in SUBSET Addr : LeadsBy(pv, T, m) => A \subseteq T
      BY AheadLeast
    <2>3. /\ B \in SUBSET Addr /\ LeadsBy(pv, B, nx[m])
          /\ \A T \in SUBSET Addr : LeadsBy(pv, T, nx[m]) => B \subseteq T
      BY AheadLeast
    <2> HIDE DEF A, B
    <2>4. LeadsBy(pv, A \cup {m}, nx[m])
      BY <2>1, <2>2 DEF LeadsBy
    <2>5. LeadsBy(pv, B, m) /\ m \in B
      BY <2>1, <2>3 DEF LeadsBy
    <2>6. B \subseteq A \cup {m}
      BY <2>1, <2>2, <2>3, <2>4
    <2>7. A \subseteq B
      BY <2>2, <2>3, <2>5
    <2>8. B = A \cup {m}
      BY <2>5, <2>6, <2>7
    <2> QED
      BY <2>8 DEF A, B
  <1> QED
    BY <1>1, <1>2

\* Any function that grows by each node along the list gives the nodes ahead.
LEMMA AheadOnly ==
    ASSUME NEW nx, NEW pv, NEW S \in SUBSET Addr, List(nx, pv, S), NEW A,
           nx[Head] \in S => A[nx[Head]] = {},
           \A m \in S : nx[m] \in S => A[nx[m]] = A[m] \cup {m}
    PROVE  \A m \in S : AheadBy(pv, m) = A[m]
  <1> DEFINE Q == {m \in S : AheadBy(pv, m) = A[m]}
  <1>1. /\ AheadBy(pv, nx[Head]) = {}
        /\ \A m \in S : AheadBy(pv, nx[m]) = AheadBy(pv, m) \cup {m}
    BY AheadNext DEF List
  <1>2. nx[Head] \in S => nx[Head] \in Q
    BY <1>1
  <1>3. \A m \in Q : nx[m] \in S => nx[m] \in Q
    BY <1>1
  <1>4. Q \in SUBSET S
    OBVIOUS
  <1> HIDE DEF Q
  <1>5. Q = S
    BY <1>2, <1>3, <1>4, AlongList
  <1> QED
    BY <1>5 DEF Q

\* The list goes round nowhere, and the nodes ahead are of the list.
LEMMA AheadOrder ==
    ASSUME NEW nx, NEW pv, NEW S \in SUBSET Addr, List(nx, pv, S), NEW n \in S
    PROVE  /\ n \notin AheadBy(pv, n)
           /\ AheadBy(pv, n) \subseteq S
  <1> USE AddrAssumption
  <1> DEFINE Q == {m \in S : m \notin AheadBy(pv, m)}
  <1>1. /\ AheadBy(pv, nx[Head]) = {}
        /\ \A m \in S : AheadBy(pv, nx[m]) = AheadBy(pv, m) \cup {m}
    BY AheadNext DEF List
  <1>2. nx[Head] \in S => nx[Head] \in Q
    BY <1>1
  <1>3. ASSUME NEW m \in Q, nx[m] \in S PROVE nx[m] \in Q
    <2>1. pv[nx[m]] = m /\ m \in Addr
      BY DEF List, ChainedBy
    <2>2. LeadsBy(pv, AheadBy(pv, m), m)
      BY AheadLeast
    <2>3. nx[m] \notin AheadBy(pv, m)
      BY <2>1, <2>2 DEF LeadsBy
    <2>4. nx[m] # m
      BY <2>1, <2>2 DEF LeadsBy
    <2> QED
      BY <1>1, <1>3, <2>3, <2>4
  <1>4. Q \in SUBSET S
    OBVIOUS
  <1>5. LeadsBy(pv, S, n)
    BY DEF List, ChainedBy, LeadsBy
  <1>6. AheadBy(pv, n) \subseteq S
    BY <1>5, AheadLeast
  <1> HIDE DEF Q
  <1>7. Q = S
    BY <1>2, <1>3, <1>4, AlongList
  <1> QED
    BY <1>6, <1>7 DEF Q

\* All the other nodes are ahead of the last one, and all of them of the tail.
LEMMA AheadLast ==
    ASSUME NEW nx, NEW pv, NEW S \in SUBSET Addr, List(nx, pv, S)
    PROVE  /\ AheadBy(pv, Tail) = S
           /\ pv[Tail] \in S => AheadBy(pv, pv[Tail]) = S \ {pv[Tail]}
  <1> USE AddrAssumption
  <1> DEFINE Upto(m) == AheadBy(pv, m) \cup {m}
             Q == {m \in S : /\ nx[Head] \in Upto(m)
                             /\ \A x \in AheadBy(pv, m) : nx[x] \in Upto(m)}
  <1>1. /\ AheadBy(pv, nx[Head]) = {}
        /\ \A m \in S : AheadBy(pv, nx[m]) = AheadBy(pv, m) \cup {m}
    BY AheadNext DEF List
  <1>2. nx[Head] \in S => nx[Head] \in Q
    BY <1>1
  <1>3. ASSUME NEW m \in Q, nx[m] \in S PROVE nx[m] \in Q
    <2>1. m \in S /\ AheadBy(pv, nx[m]) = Upto(m)
      BY <1>1
    <2>2. nx[Head] \in Upto(nx[m])
      BY <2>1
    <2>3. ASSUME NEW x \in AheadBy(pv, nx[m]) PROVE nx[x] \in Upto(nx[m])
      BY <2>1
    <2> QED
      BY <1>3, <2>2, <2>3
  <1>4. Q \in SUBSET S
    OBVIOUS
  <1>5. Q = S
    <2> HIDE DEF Q
    <2> QED
      BY <1>2, <1>3, <1>4, AlongList
  <1>6. CASE pv[Tail] \in S
    <2>1. PICK z : z = pv[Tail]
      OBVIOUS
    <2>2. nx[z] = Tail /\ z \in S
      BY <1>6, <2>1 DEF List, ChainedBy
    <2>3. nx[Head] \in Upto(z) /\ \A x \in AheadBy(pv, z) : nx[x] \in Upto(z)
      BY <1>5, <2>2
    <2>4. z \notin AheadBy(pv, z) /\ AheadBy(pv, z) \subseteq S
      BY <2>2, AheadOrder
    <2>5. FollowsBy(nx, Upto(z))
      BY <2>2, <2>3 DEF FollowsBy
    <2>6. Upto(z) \in SUBSET S
      BY <2>2, <2>4
    <2>7. S \subseteq Upto(z)
      BY <2>5, <2>6 DEF List, ReachedBy
    <2>8. AheadBy(pv, Tail) = Upto(z)
      BY <1>1, <2>2
    <2> QED
      BY <2>1, <2>4, <2>6, <2>7, <2>8
  <1>7. CASE pv[Tail] \notin S
    <2>1. pv[Tail] = Head /\ nx[Head] = Tail
      BY <1>7 DEF List, ChainedBy
    <2>2. FollowsBy(nx, {})
      BY <2>1 DEF FollowsBy
    <2>3. S = {}
      BY <2>2 DEF List, ReachedBy
    <2> QED
      BY <1>1, <1>7, <2>1, <2>3
  <1> QED
    BY <1>6, <1>7

LEMMA BarsAre ==
    /\ Listed = ListedBy(next) /\ Listed' = ListedBy(next')
    /\ \A n : Ahead(n) = AheadBy(prev, n) /\ Ahead(n)' = AheadBy(prev', n)
  BY DEF Listed, Follows, ListedBy, FollowsBy, Ahead, Leads, AheadBy, LeadsBy

\* pop_cache takes its node out of the order.
LEMMA PopLeaves ==
    ASSUME next \in Links, prev \in Links, NEW S \in SUBSET Addr, Chained(S), Reached(S),
           NEW n \in S, pop_cache(n)
    PROVE  Listed = S /\ Listed' = S \ {n} /\ Cache!Leave(n)
  <1> USE AddrAssumption DEF Node, Links
  <1>1. /\ n \in Node /\ prev[n] \in S \cup {Head} /\ next[n] \in S \cup {Tail}
        /\ next[prev[n]] = n /\ prev[next[n]] = n
    BY DEF Chained
  <1>2. \A m \in Node : next'[m] = IF m = prev[n] THEN next[n] ELSE next[m]
    BY <1>1 DEF pop_cache
  <1>3. List(next, prev, S)
    BY ListIs
  <1>4. List(next', prev', S \ {n})
    BY PopChained, PopReached, ListIs
  <1>5. /\ AheadBy(prev, next[Head]) = {}
        /\ \A m \in S : AheadBy(prev, next[m]) = AheadBy(prev, m) \cup {m}
    BY <1>3, AheadNext DEF List
  <1> DEFINE A == [m \in S \ {n} |-> AheadBy(prev, m) \ {n}]
  <1>6. next'[Head] \in S \ {n} => A[next'[Head]] = {}
    <2>1. CASE next[Head] = n
      BY <1>1, <1>2, <1>5, <2>1 DEF Chained
    <2>2. CASE next[Head] # n
      BY <1>1, <1>2, <1>5, <2>2
    <2> QED
      BY <2>1, <2>2
  <1>7. ASSUME NEW m \in S \ {n}, next'[m] \in S \ {n}
        PROVE  A[next'[m]] = A[m] \cup {m}
    <2>1. CASE m = prev[n]
      <3>1. next[m] = n /\ next'[m] = next[n]
        BY <1>1, <1>2, <2>1
      <3>2. AheadBy(prev, next[n]) = AheadBy(prev, m) \cup {m} \cup {n}
        BY <1>5, <3>1
      <3> QED
        BY <1>7, <3>1, <3>2
    <2>2. CASE m # prev[n]
      <3>1. next'[m] = next[m]
        BY <1>2, <2>2
      <3> QED
        BY <1>5, <1>7, <3>1
    <2> QED
      BY <2>1, <2>2
  <1>8. \A m \in S \ {n} : AheadBy(prev', m) = A[m]
    <2> HIDE DEF A
    <2> QED
      BY <1>4, <1>6, <1>7, AheadOnly
  <1>9. Listed = S /\ Listed' = S \ {n}
    BY <1>3, <1>4, ListedIs, BarsAre
  <1>10. \A m \in S : Ahead(m) = AheadBy(prev, m)
    BY BarsAre
  <1>11. [m \in Listed |-> Ahead(m)]' = [m \in S \ {n} |-> [k \in Listed |-> Ahead(k)][m] \ {n}]
    <2>1. \A m \in S \ {n} : Ahead(m)' = Ahead(m) \ {n}
      BY <1>8, BarsAre
    <2> QED
      BY <1>9, <2>1
  <1> QED
    BY <1>9, <1>11 DEF Cache!Leave

\* push_cache makes its node the last used.
LEMMA PushEnters ==
    ASSUME next \in Links, prev \in Links, NEW S \in SUBSET Addr, Chained(S), Reached(S),
           NEW n \in Addr, n \notin S, push_cache(n)
    PROVE  Listed = S /\ Listed' = S \cup {n} /\ Cache!Enter(n)
  <1> USE AddrAssumption DEF Node, Links
  <1>1. next[Head] \in S \cup {Tail}
    BY DEF Chained
  <1>2. \A m \in Node : next'[m] = IF m = Head THEN n ELSE IF m = n THEN next[Head] ELSE next[m]
    BY DEF push_cache
  <1>3. List(next, prev, S)
    BY ListIs
  <1>4. List(next', prev', S \cup {n})
    BY PushChained, PushReached, ListIs
  <1>5. /\ AheadBy(prev, next[Head]) = {}
        /\ \A m \in S : AheadBy(prev, next[m]) = AheadBy(prev, m) \cup {m}
    BY <1>3, AheadNext DEF List
  <1> DEFINE A == [m \in S \cup {n} |-> IF m = n THEN {} ELSE AheadBy(prev, m) \cup {n}]
  <1>6. next'[Head] \in S \cup {n} => A[next'[Head]] = {}
    BY <1>2
  <1>7. ASSUME NEW m \in S \cup {n}, next'[m] \in S \cup {n}
        PROVE  A[next'[m]] = A[m] \cup {m}
    <2>1. CASE m = n
      BY <1>1, <1>2, <1>5, <1>7, <2>1
    <2>2. CASE m # n
      <3>1. next'[m] = next[m] /\ m \in S /\ next[m] \in S
        BY <1>2, <1>7, <2>2 DEF Chained
      <3> QED
        BY <1>5, <2>2, <3>1
    <2> QED
      BY <2>1, <2>2
  <1>8. \A m \in S \cup {n} : AheadBy(prev', m) = A[m]
    <2> HIDE DEF A
    <2> QED
      BY <1>4, <1>6, <1>7, AheadOnly
  <1>9. Listed = S /\ Listed' = S \cup {n}
    BY <1>3, <1>4, ListedIs, BarsAre
  <1>10. [m \in Listed |-> Ahead(m)]'
            = [m \in S \cup {n} |-> IF m = n THEN {} ELSE [k \in Listed |-> Ahead(k)][m] \cup {n}]
    <2>1. \A m \in S \cup {n} : Ahead(m)' = IF m = n THEN {} ELSE Ahead(m) \cup {n}
      BY <1>8, BarsAre
    <2> QED
      BY <1>9, <2>1
  <1> QED
    BY <1>9, <1>10 DEF Cache!Enter

\* What a thread is doing, from where it is and whether it has a node.
PhaseOf(p, h) ==
    CASE p \in {"idle", "readP", "search"}       -> "asking"
      [] h                                       -> "sending"
      [] p \in {"readV", "fetch"} /\ ~h          -> "missed"
      [] p \in {"writeP", "enter", "evict"}      -> "storing"
      [] OTHER                                   -> "over"

LEMMA PhaseIs ==
    \A u : Phase(u) = PhaseOf(pc[u], Holds(u)) /\ Phase(u)' = PhaseOf(pc'[u], Holds(u)')
  BY DEF Phase, PhaseOf

LEMMA PhaseCases ==
    /\ \A p \in {"idle", "readP", "search"} : PhaseOf(p, FALSE) = "asking"
    /\ \A p \in {"readV", "send", "pushP", "push"} : PhaseOf(p, TRUE) = "sending"
    /\ \A p \in {"readV", "fetch"} : PhaseOf(p, FALSE) = "missed"
    /\ \A p \in {"writeP", "enter", "evict"} : PhaseOf(p, FALSE) = "storing"
    /\ \A p \in {"pushV", "writeV", "done"} : PhaseOf(p, FALSE) = "over"
  BY DEF PhaseOf

\* One thread moves, and the others have what they had.
Moves(t, p, h) ==
    /\ pc'[t] = p /\ (Holds(t)' <=> h)
    /\ \A u \in Thread \ {t} : pc'[u] = pc[u] /\ (Holds(u)' <=> Holds(u))
    /\ key' = key /\ response[Tail] = "none" /\ response'[Tail] = "none"

\* A step of the threads is a call of ResponseCache from one phase to another.
LEMMA CallIs ==
    ASSUME NEW t \in Thread, NEW p, NEW h \in BOOLEAN, Moves(t, p, h),
           NEW from, from = PhaseOf(pc[t], Holds(t)), NEW to, to = PhaseOf(p, h)
    PROVE  Cache!Call(t, from, to)
  <1> DEFINE phases == [u \in Thread |-> Phase(u)]
  <1>1. phases[t] = from
    BY PhaseIs
  <1>2. Phase(t)' = to
    <2>1. Holds(t)' = h
      BY DEF Moves, Holds
    <2> QED
      BY <2>1, PhaseIs DEF Moves
  <1>3. ASSUME NEW u \in Thread \ {t} PROVE Phase(u)' = Phase(u)
    <2>1. Holds(u)' = Holds(u) /\ pc'[u] = pc[u]
      BY DEF Moves, Holds
    <2> QED
      BY <2>1, PhaseIs
  <1>4. phases' = [phases EXCEPT ![t] = to]
    BY <1>2, <1>3
  <1> QED
    BY <1>1, <1>4 DEF Moves, Cache!Call

\* Where the links, the fields and the nodes of the threads stay, so does all
\* that ResponseCache speaks of.
LEMMA SameCache ==
    ASSUME UNCHANGED <<links, fields, cache_left>>, SameHolders
    PROVE  Cache!Unchanged
  <1>1. next' = next /\ prev' = prev /\ UNCHANGED <<nkey, reslen, response, cache_left>>
    BY DEF links, fields
  <1>2. Listed' = Listed
    BY <1>1, BarsAre
  <1>3. \A n : Ahead(n)' = Ahead(n)
    BY <1>1, BarsAre
  <1>4. Responses' = Responses
    BY <1>1 DEF Responses
  <1>5. \A u \in Thread : (IF Holds(u) THEN meta[u] ELSE NULL)' = IF Holds(u) THEN meta[u] ELSE NULL
    BY DEF SameHolders
  <1> QED
    BY <1>1, <1>2, <1>3, <1>4, <1>5 DEF Cache!Unchanged

\* A step within a phase.
LEMMA Stutters ==
    ASSUME Cache!Unchanged, UNCHANGED <<key, length>>, response[Tail] = "none",
           response'[Tail] = "none", \A u \in Thread : Phase(u)' = Phase(u)
    PROVE  UNCHANGED Cache!vars
  BY DEF Cache!Unchanged, Cache!vars

LEMMA QuietMoves ==
    ASSUME TypeOK, SameHolders, NEW t \in Thread, NEW p, pc' = [pc EXCEPT ![t] = p],
           key' = key, response[Tail] = "none", response' = response
    PROVE  Moves(t, p, Holds(t))
  BY DEF TypeOK, SameHolders, Moves

\* A step from one point of a phase to another.
LEMMA Within ==
    ASSUME TypeOK, SameHolders, Cache!Unchanged, NEW t \in Thread, NEW p,
           pc' = [pc EXCEPT ![t] = p],
           PhaseOf(p, Holds(t)) = PhaseOf(pc[t], Holds(t)),
           UNCHANGED <<key, length, response>>, response[Tail] = "none"
    PROVE  UNCHANGED Cache!vars
  <1>1. ASSUME NEW u \in Thread PROVE Phase(u)' = Phase(u)
    <2>1. Holds(u)' = Holds(u)
      BY DEF SameHolders, Holds
    <2>2. pc'[u] = IF u = t THEN p ELSE pc[u]
      BY DEF TypeOK
    <2>3. Phase(u)' = PhaseOf(pc'[u], Holds(u)) /\ Phase(u) = PhaseOf(pc[u], Holds(u))
      BY <2>1, PhaseIs
    <2> QED
      BY <2>2, <2>3
  <1> QED
    BY <1>1, Stutters

\* The steps that leave the list alone: those that end a phase do what
\* ResponseCache allows, the others nothing.
LEMMA QuietMaps ==
    ASSUME Inv, Inv', NEW S \in SUBSET Addr, Walk(S), NEW t \in Thread, Quiet(t),
           response[Tail] = "none", response'[Tail] = "none",
           pc[t] = "search" => \A m \in Ahead(curr[t]) : nkey[m] # key[t]
    PROVE  Cache!Next \/ UNCHANGED Cache!vars
  <1>1. SameHolders /\ UNCHANGED <<links, fields, cache_left>>
    BY QuietCursors, QuietWalk DEF Walk
  <1>2. Cache!Unchanged /\ UNCHANGED <<response>> /\ TypeOK
    BY <1>1, SameCache DEF fields, Inv
  <1>3. ASSUME NEW p, pc' = [pc EXCEPT ![t] = p], UNCHANGED <<key, length>>,
               PhaseOf(p, Holds(t)) = PhaseOf(pc[t], Holds(t))
        PROVE  UNCHANGED Cache!vars
    BY <1>1, <1>2, <1>3, Within
  <1>4. ASSUME UNCHANGED <<pc, key, length>>
        PROVE  UNCHANGED Cache!vars
    <2>1. pc' = [pc EXCEPT ![t] = pc[t]]
      BY <1>2, <1>4 DEF TypeOK
    <2> QED
      BY <1>3, <1>4, <2>1
  <1>5. CASE ReadRequest(t)
    <2>1. pc[t] = "idle" /\ UNCHANGED <<key, length>> /\ Holds(t) = FALSE
      BY <1>5 DEF ReadRequest, Goto, threadVars, Holds
    <2>2. CASE pc' = [pc EXCEPT ![t] = "readP"]
      BY <1>3, <2>1, <2>2, PhaseCases
    <2>3. CASE pc' = [pc EXCEPT ![t] = "done"]
      <3>1. Moves(t, "done", FALSE)
        BY <1>1, <1>2, <2>1, <2>3, QuietMoves
      <3>2. Cache!Call(t, "asking", "over")
        BY <2>1, <3>1, CallIs, PhaseCases
      <3>3. Cache!Reject(t)
        BY <1>2, <2>1, <3>2 DEF Cache!Reject
      <3> QED
        BY <3>3 DEF Cache!Next
    <2> QED
      BY <1>5, <2>2, <2>3 DEF ReadRequest, Goto
  <1>6. CASE ReadLock(t)
    <2>1. /\ pc[t] = "readP" /\ pc' = [pc EXCEPT ![t] = "search"] /\ Holds(t) = FALSE
          /\ UNCHANGED <<key, length>>
      BY <1>6 DEF ReadLock, P, Goto, Holds
    <2> QED
      BY <1>3, <2>1, PhaseCases
  <1>7. CASE SearchNext(t)
    <2>1. /\ pc[t] = "search" /\ pc' = [pc EXCEPT ![t] = "search"] /\ Holds(t) = FALSE
          /\ UNCHANGED <<key, length>>
      BY <1>7 DEF SearchNext, Goto, Holds
    <2> QED
      BY <1>3, <2>1, PhaseCases
  <1>8. CASE SearchMiss(t)
    <2>1. /\ pc[t] = "search" /\ pc' = [pc EXCEPT ![t] = "readV"] /\ Holds(t) = FALSE
          /\ UNCHANGED <<key, length>> /\ curr[t] = Tail
      BY <1>8 DEF SearchMiss, Goto, Holds
    <2>2. Moves(t, "readV", FALSE)
      BY <1>1, <1>2, <2>1, QuietMoves
    <2>3. Cache!Call(t, "asking", "missed")
      BY <2>1, <2>2, CallIs, PhaseCases
    <2>4. List(next, prev, S) /\ Listed = S /\ S \subseteq Responses
      BY ListIs, WalkListed DEF Walk
    <2>5. \A m \in S : nkey[m] # key[t]
      BY <2>1, <2>4, AheadLast, BarsAre
    <2>6. Cache!NoneIn(Listed, t)
      BY <2>4, <2>5 DEF Cache!NoneIn
    <2>7. Cache!Miss(t)
      BY <1>2, <2>1, <2>3, <2>6 DEF Cache!Miss
    <2> QED
      BY <2>7 DEF Cache!Next
  <1>9. CASE ReadUnlock(t)
    <2>1. /\ pc[t] = "readV" /\ UNCHANGED <<key, length>>
          /\ pc' = [pc EXCEPT ![t] = IF Holds(t) THEN "send" ELSE "fetch"]
      BY <1>9 DEF ReadUnlock, V, Goto, Holds, threadVars
    <2>2. Holds(t) \in BOOLEAN
      BY DEF Holds
    <2> QED
      BY <1>3, <2>1, <2>2, PhaseCases
  <1>10. CASE SendCached(t)
    <2>1. /\ pc[t] = "send" /\ pc' = [pc EXCEPT ![t] = "pushP"] /\ Holds(t) = TRUE
          /\ UNCHANGED <<key, length>>
      BY <1>10 DEF SendCached, Goto, Holds, threadVars
    <2> QED
      BY <1>3, <2>1, PhaseCases
  <1>11. CASE PushLock(t)
    <2>1. /\ pc[t] = "pushP" /\ pc' = [pc EXCEPT ![t] = "push"] /\ Holds(t) = TRUE
          /\ UNCHANGED <<key, length>>
      BY <1>11 DEF PushLock, P, Goto, Holds, threadVars
    <2> QED
      BY <1>3, <2>1, PhaseCases
  <1>12. CASE PushUnlock(t)
    <2>1. /\ pc[t] = "pushV" /\ pc' = [pc EXCEPT ![t] = "done"] /\ Holds(t) = FALSE
          /\ UNCHANGED <<key, length>>
      BY <1>12 DEF PushUnlock, V, Goto, Holds, threadVars
    <2> QED
      BY <1>3, <2>1, PhaseCases
  <1>13. CASE Relay(t)
    <2>1. pc[t] = "fetch" /\ key' = key /\ Holds(t) = FALSE
      BY <1>13 DEF Relay, Goto, Holds
    <2>2. ASSUME NEW p \in {"writeP", "done"}, pc' = [pc EXCEPT ![t] = p]
          PROVE  Cache!Call(t, "missed", IF p = "done" THEN "over" ELSE "storing")
      <3>1. Moves(t, p, FALSE)
        BY <1>1, <1>2, <2>1, <2>2, QuietMoves
      <3> QED
        BY <2>1, <3>1, CallIs, PhaseCases
    <2>3. Cache!Fetch(t)
      BY <1>2, <1>13, <2>2 DEF Relay, Goto, Cache!Fetch
    <2> QED
      BY <2>3 DEF Cache!Next
  <1>14. CASE WriteLock(t)
    <2>1. /\ pc[t] = "writeP" /\ pc' = [pc EXCEPT ![t] = "enter"] /\ Holds(t) = FALSE
          /\ UNCHANGED <<key, length>>
      BY <1>14 DEF WriteLock, P, Goto, Holds, threadVars
    <2> QED
      BY <1>3, <2>1, PhaseCases
  <1>15. CASE WriteEnter(t)
    <2>1. /\ pc[t] = "enter" /\ pc' = [pc EXCEPT ![t] = "evict"] /\ Holds(t) = FALSE
          /\ UNCHANGED <<key, length>>
      BY <1>15 DEF WriteEnter, Goto, Holds
    <2> QED
      BY <1>3, <2>1, PhaseCases
  <1>16. CASE WriteUnlock(t)
    <2>1. /\ pc[t] = "writeV" /\ pc' = [pc EXCEPT ![t] = "done"] /\ Holds(t) = FALSE
          /\ UNCHANGED <<key, length>>
      BY <1>16 DEF WriteUnlock, V, Goto, Holds, threadVars
    <2> QED
      BY <1>3, <2>1, PhaseCases
  <1>17. CASE EvictAbort(t) \/ StoreOutOfMemory(t) \/ Fault(t) \/ PeerFails(t)
    <2>1. UNCHANGED <<pc, key, length>>
      BY <1>17 DEF EvictAbort, StoreOutOfMemory, Fault, PeerFails, Exit, threadVars
    <2> QED
      BY <1>4, <2>1
  <1> QED
    BY <1>5, <1>6, <1>7, <1>8, <1>9, <1>10, <1>11, <1>12, <1>13, <1>14, <1>15, <1>16, <1>17
    DEF Quiet

\* What ResponseCache knows of the responses: the keys and the lengths.
LEMMA SameWhat ==
    ASSUME Responses' = Responses, UNCHANGED <<nkey, reslen, cache_left>>
    PROVE  UNCHANGED <<[n \in Responses |-> [key |-> nkey[n], length |-> reslen[n]]], cache_left>>
  OBVIOUS

\* A hit takes the response to the key that was used last.
LEMMA HitMaps ==
    ASSUME Inv, NEW S \in SUBSET Addr, Walk(S), NEW t \in Thread, SearchHit(t),
           response[Tail] = "none", response'[Tail] = "none",
           \A m \in Ahead(curr[t]) : nkey[m] # key[t]
    PROVE  Cache!Next
  <1>1. PICK c \in S : c = curr[t]
    BY DEF Inv, Walk, CursorsOn, SearchHit, Goto
  <1>2. /\ pc[t] = "search" /\ pc' = [pc EXCEPT ![t] = "readV"] /\ pop_cache(c)
        /\ nkey[c] = key[t] /\ meta' = [meta EXCEPT ![t] = c]
        /\ key' = key /\ length' = length /\ UNCHANGED <<nkey, reslen, response, cache_left>>
    BY <1>1 DEF SearchHit, Goto, fields
  <1>3. TypeOK /\ Chained(S) /\ Reached(S) /\ S \subseteq Responses /\ c # NULL
    BY AddrAssumption DEF Inv, Walk
  <1>4. Listed = S /\ Cache!Leave(c)
    BY <1>2, <1>3, PopLeaves DEF TypeOK, Links
  <1>5. /\ Holds(t) = FALSE /\ Holds(t)' = TRUE
        /\ \A u \in Thread \ {t} : pc'[u] = pc[u] /\ meta'[u] = meta[u] /\ Holds(u)' = Holds(u)
    BY <1>2, <1>3 DEF Holds, TypeOK
  <1>6. Moves(t, "readV", TRUE)
    BY <1>2, <1>3, <1>5 DEF Moves, TypeOK
  <1>7. Cache!Call(t, "asking", "sending")
    BY <1>2, <1>5, <1>6, CallIs, PhaseCases
  <1>8. Responses' = Responses
    BY <1>2 DEF Responses
  <1>9. List(next, prev, S)
    BY <1>3, ListIs
  <1>10. Ahead(c) \subseteq S
    BY <1>9, AheadOrder, BarsAre
  <1>11. \A m \in Ahead(c) : m \in Responses /\ nkey[m] # key[t]
    BY <1>1, <1>3, <1>10
  <1>12. Cache!NoneIn([n \in Listed |-> Ahead(n)][c], t)
    <2>1. [n \in Listed |-> Ahead(n)][c] = Ahead(c)
      BY <1>4
    <2> QED
      BY <1>11, <2>1 DEF Cache!NoneIn
  <1>13. [u \in Thread |-> IF Holds(u) THEN meta[u] ELSE NULL]'
            = [[u \in Thread |-> IF Holds(u) THEN meta[u] ELSE NULL] EXCEPT ![t] = c]
    <2>1. meta'[t] = c
      BY <1>2, <1>3 DEF TypeOK
    <2> QED
      BY <1>5, <2>1
  <1>14. [n \in Responses |-> [key |-> nkey[n], length |-> reslen[n]]][c].key = key[t]
    BY <1>2, <1>3
  <1>15. Cache!Hit(t)
    BY <1>2, <1>4, <1>7, <1>8, <1>12, <1>13, <1>14, SameWhat DEF Cache!Hit
  <1> QED
    BY <1>15 DEF Cache!Next

\* A push makes the thread's response the one that was used last.
LEMMA PushMaps ==
    ASSUME Inv, NEW S \in SUBSET Addr, Walk(S), NEW t \in Thread, Push(t),
           response[Tail] = "none", response'[Tail] = "none"
    PROVE  Cache!Next
  <1>1. PICK n \in Addr : Holds(t) = TRUE /\ n = meta[t] /\ n \notin S
    BY DEF Inv, Walk, Push, Goto, Holds, CheckedOutIntact, Owned
  <1>2. /\ pc[t] = "push" /\ pc' = [pc EXCEPT ![t] = "pushV"] /\ push_cache(n)
        /\ meta' = meta /\ key' = key /\ length' = length
        /\ UNCHANGED <<nkey, reslen, response, cache_left>>
    BY <1>1 DEF Push, Goto, fields, threadVars
  <1>3. TypeOK /\ Chained(S) /\ Reached(S)
    BY DEF Inv, Walk
  <1>4. Cache!Enter(n)
    BY <1>1, <1>2, <1>3, PushEnters DEF TypeOK, Links
  <1>5. /\ Holds(t)' = FALSE
        /\ \A u \in Thread \ {t} : pc'[u] = pc[u] /\ Holds(u)' = Holds(u)
    BY <1>2, <1>3 DEF Holds, TypeOK
  <1>6. Moves(t, "pushV", FALSE)
    BY <1>2, <1>3, <1>5 DEF Moves, TypeOK
  <1>7. Cache!Call(t, "sending", "over")
    BY <1>1, <1>2, <1>6, CallIs, PhaseCases
  <1>8. Responses' = Responses
    BY <1>2 DEF Responses
  <1>9. [u \in Thread |-> IF Holds(u) THEN meta[u] ELSE NULL]'
           = [[u \in Thread |-> IF Holds(u) THEN meta[u] ELSE NULL] EXCEPT ![t] = NULL]
    BY <1>2, <1>5
  <1>10. [u \in Thread |-> IF Holds(u) THEN meta[u] ELSE NULL][t] = n
    BY <1>1
  <1>11. Cache!GiveBack(t)
    BY <1>2, <1>4, <1>7, <1>8, <1>9, <1>10, SameWhat DEF Cache!GiveBack
  <1> QED
    BY <1>11 DEF Cache!Next

\* The node before the last one is the head if the last one is the only one.
LEMMA OnlyOne ==
    ASSUME NEW nx, NEW pv, NEW S \in SUBSET Addr, List(nx, pv, S), NEW c \in S, c = pv[Tail]
    PROVE  pv[c] = Head <=> S = {c}
  <1>1. AheadBy(pv, c) = S \ {c}
    BY AheadLast
  <1>2. ASSUME pv[c] = Head PROVE S = {c}
    <2>1. LeadsBy(pv, {}, c)
      BY <1>2, AddrAssumption DEF LeadsBy
    <2>2. AheadBy(pv, c) \subseteq {}
      BY <2>1, AheadLeast
    <2> QED
      BY <1>1, <2>2
  <1>3. ASSUME pv[c] # Head PROVE S # {c}
    <2>1. pv[c] \in S
      BY <1>3 DEF List, ChainedBy
    <2>2. pv[c] \in AheadBy(pv, c)
      BY <2>1, AheadLeast DEF LeadsBy
    <2> QED
      BY <1>1, <2>2
  <1> QED
    BY <1>2, <1>3

\* Nothing is on the list when the tail comes after the head.
LEMMA NoneLeft ==
    ASSUME NEW nx, NEW pv, NEW S \in SUBSET Addr, List(nx, pv, S), pv[Tail] = Head
    PROVE  S = {}
  <1>1. LeadsBy(pv, {}, Tail)
    BY AddrAssumption DEF LeadsBy
  <1>2. AheadBy(pv, Tail) \subseteq {}
    BY <1>1, AheadLeast
  <1> QED
    BY <1>2, AheadLast

\* An iteration of the eviction loop drops the response whose last use is the
\* longest ago, for want of room.
LEMMA EvictMaps ==
    ASSUME Inv, NEW S \in SUBSET Addr, Walk(S), NEW t \in Thread,
           EvictOverflow(t) \/ EvictFree(t),
           response[Tail] = "none", response'[Tail] = "none"
    PROVE  Cache!Next
  <1> DEFINE what == [n \in Responses |-> [key |-> nkey[n], length |-> reslen[n]]]
  <1>1. PICK c \in S : c = curr[t] /\ c = prev[Tail]
    BY DEF Inv, Walk, CursorsOn, Chained, EvictOverflow, EvictFree, Goto, MustEvict
  <1>2. PICK p \in {"evict", "writeV"} :
          /\ pc' = [pc EXCEPT ![t] = p]
          /\ p = IF prev[c] = Head THEN "writeV" ELSE "evict"
    BY <1>1 DEF EvictOverflow, EvictFree, Goto
  <1>3. /\ pc[t] = "evict" /\ pop_cache(c) /\ length[t] >= cache_left
        /\ response' = [response EXCEPT ![c] = "freed"]
        /\ cache_left' = cache_left + reslen[c]
        /\ UNCHANGED <<key, length, meta, nkey, reslen>>
    BY <1>1 DEF EvictOverflow, EvictFree, Goto, MustEvict, Evict
  <1>4. TypeOK /\ Chained(S) /\ Reached(S) /\ S \subseteq Responses
    BY DEF Inv, Walk
  <1>5. Listed = S /\ Cache!Leave(c)
    BY <1>3, <1>4, PopLeaves DEF TypeOK, Links
  <1>6. List(next, prev, S)
    BY <1>4, ListIs
  <1>7. Ahead(c) = S \ {c}
    BY <1>1, <1>6, AheadLast, BarsAre
  <1>8. Responses' = Responses \ {c}
    BY <1>3, <1>4 DEF Responses, TypeOK
  <1>9. what' = [s \in DOMAIN what \ {c} |-> what[s]]
    BY <1>3, <1>8
  <1>10. Holds(t) = FALSE /\ \A u \in Thread : Holds(u)' = Holds(u)
    BY <1>2, <1>3, <1>4 DEF Holds, TypeOK
  <1>11. Moves(t, p, FALSE)
    BY <1>2, <1>3, <1>4, <1>10 DEF Moves, TypeOK
  <1>12. Cache!Call(t, "storing", IF Listed = {c} THEN "over" ELSE "storing")
    <2>1. prev[c] = Head <=> Listed = {c}
      BY <1>1, <1>5, <1>6, OnlyOne
    <2>2. PhaseOf("evict", FALSE) = "storing"
      BY PhaseCases
    <2>3. PhaseOf(p, FALSE) = IF Listed = {c} THEN "over" ELSE "storing"
      BY <1>2, <2>1, PhaseCases
    <2> QED
      BY <1>3, <1>10, <1>11, <2>2, <2>3, CallIs
  <1>13. [u \in Thread |-> IF Holds(u) THEN meta[u] ELSE NULL]'
            = [u \in Thread |-> IF Holds(u) THEN meta[u] ELSE NULL]
    BY <1>3, <1>10
  <1>14. what[c].length = reslen[c]
    BY <1>4
  <1>15. [n \in Listed |-> Ahead(n)][c] = Listed \ {c}
    BY <1>5, <1>7
  <1>16. Cache!Evict(t)
    BY <1>3, <1>5, <1>9, <1>12, <1>13, <1>14, <1>15 DEF Cache!Evict
  <1> QED
    BY <1>16 DEF Cache!Next

\* A response is stored where there is room, or nothing left to drop.
LEMMA StoreMaps ==
    ASSUME Inv, NEW S \in SUBSET Addr, Walk(S), NEW t \in Thread, Store(t),
           response[Tail] = "none", response'[Tail] = "none"
    PROVE  Cache!Next
  <1> DEFINE what == [n \in Responses |-> [key |-> nkey[n], length |-> reslen[n]]]
  <1>1. TypeOK /\ Chained(S) /\ Reached(S) /\ S \subseteq Responses
    BY DEF Inv, Walk
  <1>2. PICK n \in (Addr \cup {Tail}) \ live :
          /\ nkey' = [nkey EXCEPT ![n] = key[t]]
          /\ reslen' = [reslen EXCEPT ![n] = length[t]]
          /\ response' = [response EXCEPT ![n] = "held"]
          /\ push_cache(n)
    BY DEF Store, FreeAddr
  <1>3. n \in Addr
    BY <1>1, <1>2 DEF TypeOK, Node
  <1>4. /\ pc[t] = "evict" /\ pc' = [pc EXCEPT ![t] = "writeV"] /\ ~MustEvict(t)
        /\ cache_left' = cache_left - length[t]
        /\ UNCHANGED <<key, length, meta>>
    BY DEF Store, Goto, threadVars
  <1>5. n \notin S /\ n \notin Responses
    BY <1>2 DEF Inv, Walk, Owned, CheckedOutIntact, Sent
  <1>6. Listed = S /\ Cache!Enter(n)
    BY <1>1, <1>2, <1>3, <1>5, PushEnters DEF TypeOK, Links
  <1>7. Responses' = Responses \cup {n}
    BY <1>1, <1>2, <1>3 DEF Responses, TypeOK, Node
  <1>8. what' = [s \in DOMAIN what \cup {n} |->
                    IF s = n THEN [key |-> key[t], length |-> length[t]] ELSE what[s]]
    <2>1. nkey'[n] = key[t] /\ reslen'[n] = length[t]
      BY <1>1, <1>2, <1>3 DEF TypeOK, Node
    <2>2. \A m \in Responses : m # n /\ nkey'[m] = nkey[m] /\ reslen'[m] = reslen[m]
      BY <1>1, <1>2, <1>5 DEF Responses, TypeOK
    <2> QED
      BY <1>7, <2>1, <2>2
  <1>9. Holds(t) = FALSE /\ \A u \in Thread : Holds(u)' = Holds(u)
    BY <1>1, <1>4 DEF Holds, TypeOK
  <1>10. Moves(t, "writeV", FALSE)
    BY <1>1, <1>4, <1>9 DEF Moves, TypeOK
  <1>11. Cache!Call(t, "storing", "over")
    BY <1>4, <1>9, <1>10, CallIs, PhaseCases
  <1>12. [u \in Thread |-> IF Holds(u) THEN meta[u] ELSE NULL]'
            = [u \in Thread |-> IF Holds(u) THEN meta[u] ELSE NULL]
    BY <1>4, <1>9
  <1>13. length[t] < cache_left \/ Listed = {}
    <2>1. List(next, prev, S)
      BY <1>1, ListIs
    <2>2. curr[t] = prev[Tail]
      BY <1>4 DEF Walk, CursorsOn
    <2>3. curr[t] = Head => S = {}
      BY <2>1, <2>2, NoneLeft
    <2>4. length[t] \in Int /\ cache_left \in Int
      BY <1>1 DEF TypeOK
    <2> QED
      BY <1>4, <1>6, <2>3, <2>4 DEF MustEvict
  <1>14. n \in Addr \ DOMAIN what
    BY <1>3, <1>5
  <1> HIDE DEF what
  <1>15. Cache!Store(t)
    BY <1>4, <1>6, <1>8, <1>11, <1>12, <1>13, <1>14 DEF Cache!Store, what
  <1> QED
    BY <1>15 DEF Cache!Next

\* A search has passed no response to the request at hand.
Searched ==
    response[Tail] = "none" =>
        \A t \in Thread : pc[t] = "search" => \A m \in Ahead(curr[t]) : nkey[m] # key[t]

\* A search starts, goes on or stays where it is while the others are quiet.
LEMMA QuietSearch ==
    ASSUME Inv, NEW u \in Thread, Quiet(u), NEW t \in Thread, pc'[t] = "search"
    PROVE  \/ curr'[t] = next[Head]
           \/ /\ pc[t] = "search"
              /\ \/ curr'[t] = curr[t]
                 \/ /\ curr'[t] = next[curr[t]] /\ curr[t] # Tail
                    /\ nkey[curr[t]] # key[t]
  <1> USE DEF Inv, TypeOK
  <1>1. CASE ReadRequest(u)
    BY <1>1 DEF ReadRequest, Goto, threadVars
  <1>2. CASE ReadLock(u)
    BY <1>2 DEF ReadLock, P, Goto
  <1>3. CASE SearchNext(u)
    BY <1>3 DEF SearchNext, Goto
  <1>4. CASE SearchMiss(u)
    BY <1>4 DEF SearchMiss, Goto
  <1>5. CASE ReadUnlock(u)
    BY <1>5 DEF ReadUnlock, V, Goto, threadVars
  <1>6. CASE SendCached(u)
    BY <1>6 DEF SendCached, Goto, threadVars
  <1>7. CASE PushLock(u)
    BY <1>7 DEF PushLock, P, Goto, threadVars
  <1>8. CASE PushUnlock(u)
    BY <1>8 DEF PushUnlock, V, Goto, threadVars
  <1>9. CASE Relay(u)
    BY <1>9 DEF Relay, Goto
  <1>10. CASE WriteLock(u)
    BY <1>10 DEF WriteLock, P, Goto, threadVars
  <1>11. CASE WriteEnter(u)
    BY <1>11 DEF WriteEnter, Goto, MutualExclusion, InCache
  <1>12. CASE WriteUnlock(u)
    BY <1>12 DEF WriteUnlock, V, Goto, threadVars
  <1>13. CASE EvictAbort(u) \/ StoreOutOfMemory(u) \/ Fault(u) \/ PeerFails(u)
    BY <1>13 DEF EvictAbort, StoreOutOfMemory, Fault, PeerFails, Exit, threadVars
  <1> QED
    BY <1>1, <1>2, <1>3, <1>4, <1>5, <1>6, <1>7, <1>8, <1>9, <1>10, <1>11, <1>12, <1>13
    DEF Quiet

\* The steps that change the list are no search's, and no search is under way.
LEMMA LoudSearch ==
    ASSUME Inv, NEW u \in Thread,
           SearchHit(u) \/ Push(u) \/ EvictOverflow(u) \/ EvictFree(u) \/ Store(u)
    PROVE  \A t \in Thread : pc'[t] # "search"
  <1>1. PICK p : pc' = [pc EXCEPT ![u] = p] /\ p # "search"
    BY DEF SearchHit, Push, EvictOverflow, EvictFree, Store, Goto
  <1>2. pc[u] \in InCache
    BY DEF SearchHit, Push, EvictOverflow, EvictFree, Store, Goto, InCache
  <1>3. \A t \in Thread : t # u => pc[t] # "search"
    BY <1>2 DEF Inv, MutualExclusion, InCache
  <1> QED
    BY <1>1, <1>3 DEF Inv, TypeOK

\* Every step is quiet or changes the list.
LEMMA AllSteps ==
    ASSUME [Next]_vars
    PROVE  \/ UNCHANGED vars
           \/ \E t \in Thread : \/ Quiet(t) \/ SearchHit(t) \/ Push(t)
                                \/ EvictOverflow(t) \/ EvictFree(t) \/ Store(t)
  BY DEF Next, CacheStep, PeerStep, Stopped, Quiet

LEMMA SearchedStep == Inv /\ Inv' /\ Kept /\ Searched /\ [Next]_vars => Searched'
  <1> SUFFICES ASSUME Inv, Inv', Kept, Searched, [Next]_vars, response'[Tail] = "none",
                      NEW t \in Thread, pc'[t] = "search"
               PROVE  \A m \in Ahead(curr[t])' : nkey'[m] # key'[t]
    BY DEF Searched
  <1>1. response[Tail] = "none"
    BY TailOnce
  <1>2. PICK S \in SUBSET Addr : Walk(S)
    BY <1>1 DEF Kept
  <1>3. pc[t] = "search" => \A m \in AheadBy(prev, curr[t]) : nkey[m] # key[t]
    BY <1>1, BarsAre DEF Searched
  <1>4. Ahead(curr[t])' = AheadBy(prev', curr'[t])
    BY DEF Ahead, Leads, AheadBy, LeadsBy
  <1>5. ASSUME NEW u \in Thread, Quiet(u)
        PROVE  \A m \in Ahead(curr[t])' : nkey'[m] # key'[t]
    <2>1. prev' = prev /\ nkey' = nkey
      BY <1>2, <1>5, QuietWalk DEF links, fields
    <2>2. key' = key
      BY <1>5 DEF Quiet, ReadRequest, ReadLock, SearchNext, SearchMiss, ReadUnlock, SendCached,
         PushLock, PushUnlock, Relay, WriteLock, WriteEnter, EvictAbort, StoreOutOfMemory,
         WriteUnlock, Fault, PeerFails, Exit, threadVars
    <2>3. /\ AheadBy(prev, next[Head]) = {}
          /\ \A m \in S : AheadBy(prev, next[m]) = AheadBy(prev, m) \cup {m}
      BY <1>2, ListIs, AheadNext DEF Walk, List
    <2>4. pc[t] = "search" => curr[t] \in S \cup {Tail}
      BY <1>2 DEF Walk, CursorsOn
    <2>5. \A m \in AheadBy(prev, curr'[t]) : nkey[m] # key[t]
      BY <1>3, <1>5, <2>3, <2>4, QuietSearch
    <2> QED
      BY <1>4, <2>1, <2>2, <2>5
  <1>6. CASE UNCHANGED vars
    BY <1>3, <1>4, <1>6 DEF vars
  <1> QED
    BY <1>5, <1>6, LoudSearch, AllSteps

LEMMA SearchedInitial == Init => Searched
  BY DEF Init, Searched

LEMMA SearchedInvariance == Spec => []Searched
  BY SearchedInitial, SearchedStep, Invariance, KeptInvariance, PTL DEF Spec

LEMMA MapsInitial == Init => Cache!Init
  <1> SUFFICES ASSUME Init PROVE Cache!Init
    OBVIOUS
  <1> USE AddrAssumption DEF Init
  <1>1. \A t \in Thread : Phase(t) = "asking" /\ ~Holds(t)
    BY DEF Phase, Holds
  <1>2. response[Tail] = "none" /\ cache_left = MaxCacheSize /\ Responses = {}
    BY DEF Node, Responses
  <1>3. Listed = {}
    <2>1. Follows({})
      BY DEF Follows, Node
    <2> QED
      BY <2>1 DEF Listed
  <1> QED
    BY <1>1, <1>2, <1>3 DEF Cache!Init

LEMMA MapsStep ==
    ASSUME Inv, Inv', Kept, Searched, [Next]_vars
    PROVE  [Cache!Next]_Cache!vars
  <1>1. CASE response'[Tail] # "none"
    BY <1>1 DEF Cache!Next, Cache!Break
  <1>2. CASE response'[Tail] = "none"
    <2>1. response[Tail] = "none"
      BY <1>2, TailOnce
    <2>2. PICK S \in SUBSET Addr : Walk(S)
      BY <2>1 DEF Kept
    <2>3. \A t \in Thread : pc[t] = "search" => \A m \in Ahead(curr[t]) : nkey[m] # key[t]
      BY <2>1 DEF Searched
    <2>4. ASSUME NEW t \in Thread, Quiet(t) PROVE Cache!Next \/ UNCHANGED Cache!vars
      BY <1>2, <2>1, <2>2, <2>3, <2>4, QuietMaps
    <2>5. ASSUME NEW t \in Thread, SearchHit(t) PROVE Cache!Next
      <3>1. pc[t] = "search"
        BY <2>5 DEF SearchHit, Goto
      <3> QED
        BY <1>2, <2>1, <2>2, <2>3, <2>5, <3>1, HitMaps
    <2>6. ASSUME NEW t \in Thread, Push(t) PROVE Cache!Next
      BY <1>2, <2>1, <2>2, <2>6, PushMaps
    <2>7. ASSUME NEW t \in Thread, EvictOverflow(t) \/ EvictFree(t) PROVE Cache!Next
      BY <1>2, <2>1, <2>2, <2>7, EvictMaps
    <2>8. ASSUME NEW t \in Thread, Store(t) PROVE Cache!Next
      BY <1>2, <2>1, <2>2, <2>8, StoreMaps
    <2>9. CASE UNCHANGED vars
      <3>1. UNCHANGED <<links, fields, cache_left>> /\ SameHolders
        BY <2>9 DEF vars, links, fields, SameHolders, Holds
      <3>2. Cache!Unchanged
        BY <3>1, SameCache
      <3>3. \A t \in Thread : Phase(t)' = Phase(t)
        BY <2>9 DEF vars, Phase, Holds
      <3> QED
        BY <1>2, <2>1, <2>9, <3>2, <3>3, Stutters DEF vars
    <2> QED
      BY <2>4, <2>5, <2>6, <2>7, <2>8, <2>9, AllSteps
  <1> QED
    BY <1>1, <1>2

(* Until the address of the freed tail comes back from malloc, the threads *)
(* and their list keep the promise of ResponseCache, whatever their number *)
(* and their order: look-ups, pushes, evictions and stores take effect one *)
(* at a time, and the responses go by their last use.                      *)
THEOREM PromiseKept == Spec => KeepsPromise
  <1>1. Init => Cache!Init
    BY MapsInitial
  <1>2. Inv /\ Inv' /\ Kept /\ Searched /\ [Next]_vars => [Cache!Next]_Cache!vars
    BY MapsStep
  <1> QED
    BY <1>1, <1>2, Invariance, KeptInvariance, SearchedInvariance, PTL
    DEF Spec, KeepsPromise, Cache!Spec

=============================================================================
