---------------------------- MODULE MCProxyCache ----------------------------
(* Small instances of ProxyCache for TLC.                                  *)
EXTENDS ProxyCache

CONSTANTS t1, k1, k2, k3

\* Threads and keys are interchangeable: one thread asks for another key
\* than the others do.
MCRequests == {[t \in Thread |-> IF t = t1 THEN k2 ELSE k1]}

\* Any keys.
MCAnyRequests == [Thread -> Key]

=============================================================================
