-------------------------------- MODULE Uri --------------------------------
(***************************************************************************)
(* parse_uri of proxy.c, on what follows "http://" in the second word of   *)
(* the request line: the host and the port are what the cache is searched  *)
(* with and the server is connected to, the path is what it is asked for.  *)
(* A character is COLON, SLASH, or any other symbol.                       *)
(***************************************************************************)
EXTENDS Integers, Sequences

CONSTANTS COLON, SLASH, Default     \* Default is "80"

Indices1(s, c) == {i \in DOMAIN s : s[i] = c}

\* index(): where c is in s from position i on, or 0 for NULL.
index(s, i, c) ==
    IF \A j \in Indices1(s, c) : j < i THEN 0
    ELSE CHOOSE j \in Indices1(s, c) : j >= i /\ \A k \in Indices1(s, c) : k >= i => j <= k

Parsed(host, port, path) == [ret |-> 0, host |-> host, port |-> port, path |-> path]

\* *q = '\0' with q = NULL: the process is killed.
Killed == [ret |-> -1, host |-> <<>>, port |-> <<>>, path |-> <<>>]

Path(tmp, q) == <<SLASH>> \o SubSeq(tmp, q + 1, Len(tmp))

\* Mutated form of WithPort: the port is copied with its colon.
WithPort_AndColon(tmp, p, q) ==
    IF q = 0 THEN Killed
    ELSE Parsed(SubSeq(tmp, 1, p - 1), SubSeq(tmp, p, q - 1), Path(tmp, q))

WithPort(tmp, p, q) ==
    IF q = 0 THEN Killed
    ELSE Parsed(SubSeq(tmp, 1, p - 1), SubSeq(tmp, p + 1, q - 1), Path(tmp, q))

WithoutPort(tmp, q) ==
    IF q = 0 THEN Killed ELSE Parsed(SubSeq(tmp, 1, q - 1), <<Default>>, Path(tmp, q))

parse_uri(tmp) ==
    LET p == index(tmp, 1, COLON)
    IN  IF p # 0 THEN WithPort(tmp, p, index(tmp, p + 1, SLASH))
        ELSE WithoutPort(tmp, index(tmp, 1, SLASH))

=============================================================================
