---------------------------- MODULE ResponseCache ---------------------------
(***************************************************************************)
(* What the cache of the web proxy promises its threads (webproxy-lab-main *)
(* /cache.c, and doit in proxy.c): a set of responses and the order of     *)
(* their last uses, of which each look-up, each push, each eviction and    *)
(* each store is one step.  A look-up is answered with the response to the *)
(* key that was used last, and only fails when there is none; the response *)
(* that goes is the one whose last use is the longest ago, and it goes     *)
(* only for want of room.                                                  *)
(*                                                                         *)
(* The promise ends when malloc hands out the address of the list's tail,  *)
(* which write_cache has freed.                                            *)
(***************************************************************************)
EXTENDS Integers

CONSTANTS
    Thread,     \* the connections' threads
    Id,         \* names for responses
    Length,     \* the lengths of the responses that may be cached
    Capacity,   \* the bytes the cache may take
    NULL

VARIABLES
    intact,     \* the promise stands
    phase,      \* what each thread is doing
    key,        \* what each thread asks for
    length,     \* the length of the response each thread has from a server
    sent,       \* the cached response each thread is sending, or NULL
    cached,     \* the responses that may be found
    newer,      \* for each of these, those that were used after it
    what,       \* the key and the length of all responses that are kept
    left        \* the bytes left

vars == <<intact, phase, key, length, sent, cached, newer, what, left>>

Init ==
    /\ intact = TRUE
    /\ phase = [t \in Thread |-> "asking"]
    /\ sent = [t \in Thread |-> NULL]
    /\ cached = {} /\ newer = [r \in {} |-> {}] /\ what = [r \in {} |-> {}]
    /\ left = Capacity

\* Thread t goes on to another phase.
Call(t, from, to) ==
    /\ phase[t] = from
    /\ phase' = [phase EXCEPT ![t] = to]
    /\ intact' = intact /\ key' = key

\* No response is taken, given back, dropped or stored.
Unchanged == UNCHANGED <<sent, cached, newer, what, left>>

\* The request is not one that parse_uri accepts.
Reject(t) == Call(t, "asking", "over") /\ length' = length /\ Unchanged

\* Response r leaves the order of uses.
Leave(r) ==
    /\ cached' = cached \ {r}
    /\ newer' = [s \in cached \ {r} |-> newer[s] \ {r}]

\* Response r is the one that is used last.
Enter(r) ==
    /\ cached' = cached \cup {r}
    /\ newer' = [s \in cached \cup {r} |-> IF s = r THEN {} ELSE newer[s] \cup {r}]

\* No response in R is one to what t asks for.
NoneIn(R, t) == \A s \in R : what[s].key # key[t]

Hit(t) ==
    /\ Call(t, "asking", "sending")
    /\ \E r \in cached :
          /\ what[r].key = key[t]
          /\ NoneIn(newer[r], t)
          /\ Leave(r)
          /\ sent' = [sent EXCEPT ![t] = r]
    /\ UNCHANGED <<length, what, left>>

Miss(t) ==
    /\ Call(t, "asking", "missed")
    /\ NoneIn(cached, t)
    /\ length' = length /\ Unchanged

GiveBack(t) ==
    /\ Call(t, "sending", "over")
    /\ Enter(sent[t])
    /\ sent' = [sent EXCEPT ![t] = NULL]
    /\ UNCHANGED <<length, what, left>>

\* The server's response is short enough, or not.
Fetch(t) ==
    \/ /\ Call(t, "missed", "storing")
       /\ \E len \in Length : length' = [length EXCEPT ![t] = len]
       /\ Unchanged
    \/ Call(t, "missed", "over") /\ length' = length /\ Unchanged

\* The response whose last use is the longest ago is dropped.  When it was the
\* last one, nothing is stored.
Evict(t) ==
    /\ length[t] >= left
    /\ \E r \in cached :
          /\ newer[r] = cached \ {r}
          /\ Leave(r)
          /\ what' = [s \in DOMAIN what \ {r} |-> what[s]]
          /\ left' = left + what[r].length
          /\ Call(t, "storing", IF cached = {r} THEN "over" ELSE "storing")
    /\ UNCHANGED <<length, sent>>

\* A cache with nothing to drop takes any response.
Store(t) ==
    /\ Call(t, "storing", "over")
    /\ length[t] < left \/ cached = {}
    /\ \E r \in Id \ DOMAIN what :
          /\ Enter(r)
          /\ what' = [s \in DOMAIN what \cup {r} |->
                         IF s = r THEN [key |-> key[t], length |-> length[t]] ELSE what[s]]
    /\ left' = left - length[t]
    /\ UNCHANGED <<length, sent>>

\* The address of the freed tail comes back.
Break == ~intact'

Next ==
    \/ \E t \in Thread :
          Reject(t) \/ Hit(t) \/ Miss(t) \/ GiveBack(t) \/ Fetch(t) \/ Evict(t) \/ Store(t)
    \/ Break

Spec == Init /\ [][Next]_vars

=============================================================================
