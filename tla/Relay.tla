-------------------------------- MODULE Relay -------------------------------
(***************************************************************************)
(* What doit does with a request that is not cached: it forwards the       *)
(* client's headers to the server (handle_client_headers) and the server's *)
(* response to the client, keeping a copy for the cache (handle_response;  *)
(* both in webproxy-lab-main/proxy.c).                                     *)
(*                                                                         *)
(* A connection's input is a sequence of items, header lines and then body *)
(* bytes, which ends where the peer closes.  Both loops go round on the    *)
(* contents of buf, which Rio_readlineb leaves alone at the end of the     *)
(* input, and handle_response looks at buf before anything was read.       *)
(***************************************************************************)
EXTENDS Integers, Sequences, SequencesExt

CONSTANTS
    ClientInput,    \* the inputs a client may send: sequences of lines
    ServerInput,    \* the inputs a server may send: sequences of items
    MaxObjectSize,  \* MAX_OBJECT_SIZE, one unit for each line and each byte
    MaxBody,        \* the longest body that fits on a thread's stack
    MaxSent         \* bound: how often a loop that spins is followed

ASSUME SizeAssumption == MaxObjectSize \in Nat /\ MaxBody \in Nat /\ MaxSent \in Nat

\* The lines of a client: one the proxy writes itself ("own"), one that it
\* drops because it writes it itself ("drop"), another, the end of the headers.
Own   == [kind |-> "own", n |-> 0]
Drop  == [kind |-> "drop", n |-> 0]
Other == [kind |-> "other", n |-> 0]
Blank == [kind |-> "blank", n |-> 0]
\* A server's Content-Length, and one without a space after its colon.
ContentLength(n) == [kind |-> "length", n |-> n]
NoSpace == [kind |-> "nospace", n |-> 0]
\* A byte of a body, and a byte that nobody wrote (uninitialised stack).
Byte(n) == [kind |-> "byte", n |-> n]
Junk == [kind |-> "junk", n |-> 0]

Item == [kind : {"own", "drop", "other", "blank", "length", "nospace", "byte", "junk"},
         n : Int]

ASSUME InputAssumption == ClientInput \subseteq Seq(Item) /\ ServerInput \subseteq Seq(Item)

VARIABLES
    request,        \* all that the client sends: it does not change
    response,       \* all that the server sends: it does not change
    pc,             \* "client", "response", "header", "body", "done", "crash"
    fromClient,     \* the client's input that was not read yet
    fromServer,     \* the server's input that was not read yet
    buf,            \* the line buffer of the loop at hand
    toServer,       \* what was sent to the server
    toClient,       \* what was sent to the client
    cache_data,     \* what was copied for the cache
    cache_len,      \* the length counted for the cache
    content_len,    \* the length of the body
    too_long        \* handle_response's result: 1, do not cache

sent   == <<request, response>>
input  == <<fromClient, fromServer>>
answer == <<toClient, cache_data, cache_len, content_len, too_long>>
vars   == <<sent, pc, input, buf, toServer, answer>>

-----------------------------------------------------------------------------
\* The request line has been sent; the headers that the proxy writes are
\* sent from buf, which still holds them when the loop begins.
Init ==
    /\ pc = "client"
    /\ request \in ClientInput /\ fromClient = request
    /\ response \in ServerInput /\ fromServer = response
    /\ buf = Own
    /\ toServer = <<Own>>
    /\ toClient = <<>>
    /\ cache_data = <<>>
    /\ cache_len = 0
    /\ content_len = 0
    /\ too_long = 0

Crash == pc' = "crash" /\ UNCHANGED <<input, buf, toServer, answer>>

\* Mutated form of Rest: the line is not consumed.
Rest_Stay(in) == in

\* Rio_readlineb into buf: the next line, or at the end of the input nothing.
\* The first byte of a body that is read as a line is one.
ReadLine(in) == IF in = <<>> THEN buf ELSE Head(in)
Rest(in) == IF in = <<>> THEN in ELSE Tail(in)

\* Mutated form of Forwarded: the client's own Host goes through as well.
Forwarded_All(line) == TRUE

\* The lines of a client that are sent on.
Forwarded(line) == line.kind \notin {"own", "drop"}

(* An iteration of handle_client_headers' loop.                            *)
ClientLine ==
    /\ pc = "client"
    /\ fromClient = <<>> => Len(toServer) < MaxSent
    /\ LET line == ReadLine(fromClient) IN
          /\ buf' = line
          /\ fromClient' = Rest(fromClient)
          /\ toServer' = IF Forwarded(line) THEN Append(toServer, line) ELSE toServer
          /\ pc' = IF line = Blank THEN "response" ELSE "client"
    /\ UNCHANGED <<fromServer, answer>>

(* handle_response begins.  Its buf is uninitialised: the loop may find it *)
(* equal to the blank line that its caller's callee left on the stack.     *)
EnterResponse ==
    /\ pc = "response"
    /\ buf' \in {Blank, Junk}
    /\ pc' = IF buf' = Blank THEN "body" ELSE "header"
    /\ UNCHANGED <<input, toServer, answer>>

\* Mutated form of Keep: the copy stops but the result is reset.
Keep_Forget(items) ==
    /\ toClient' = toClient \o items
    /\ cache_len' = cache_len + Len(items)
    /\ IF cache_len' < MaxObjectSize
         THEN cache_data' = cache_data \o items /\ too_long' = 0
         ELSE UNCHANGED cache_data /\ UNCHANGED too_long

\* Send items to the client and copy them for the cache while they fit.
Keep(items) ==
    /\ toClient' = toClient \o items
    /\ cache_len' = cache_len + Len(items)
    /\ IF cache_len' < MaxObjectSize
         THEN cache_data' = cache_data \o items /\ UNCHANGED too_long
         ELSE UNCHANGED cache_data /\ too_long' = 1

(* An iteration of handle_response's loop.                                 *)
HeaderLine ==
    /\ pc = "header"
    /\ fromServer = <<>> => Len(toClient) < MaxSent
    /\ LET line == ReadLine(fromServer) IN
          /\ line.kind # "nospace"
          /\ buf' = line
          /\ content_len' = IF line.kind = "length" THEN line.n ELSE content_len
          /\ Keep(<<line>>)
          /\ pc' = IF line = Blank THEN "body" ELSE "header"
    /\ fromServer' = Rest(fromServer)
    /\ UNCHANGED <<fromClient, toServer>>

\* index finds no space: NULL + 1 is read.
HeaderFault ==
    /\ pc = "header"
    /\ ReadLine(fromServer).kind = "nospace"
    /\ Crash

\* Mutated form of ReadBody: the first byte is skipped.
ReadBody_Skip(n) ==
    [i \in 1 .. n |-> IF i < Len(fromServer) THEN fromServer[i + 1] ELSE Junk]

\* Rio_readnb: the next n items, or those there are; body is uninitialised.
ReadBody(n) ==
    [i \in 1 .. n |-> IF i <= Len(fromServer) THEN fromServer[i] ELSE Junk]

(* The body: content_len bytes are read and as many are sent.              *)
Body ==
    /\ pc = "body"
    /\ content_len \in 0 .. MaxBody
    /\ Keep(ReadBody(content_len))
    /\ fromServer' = SubSeq(fromServer, content_len + 1, Len(fromServer))
    /\ pc' = "done"
    /\ UNCHANGED <<fromClient, buf, toServer, content_len>>

\* An array of a negative length, or longer than the stack.
BodyFault ==
    /\ pc = "body"
    /\ content_len \notin 0 .. MaxBody
    /\ Crash

\* A loop that has reached the end of its input before a blank line goes
\* round for ever: the bound stands for the rest of it.
Spin ==
    /\ \/ pc = "client" /\ fromClient = <<>> /\ Len(toServer) >= MaxSent
       \/ pc = "header" /\ fromServer = <<>> /\ Len(toClient) >= MaxSent
    /\ UNCHANGED vars

Stopped == pc \in {"done", "crash"} /\ UNCHANGED vars

Step ==
    /\ \/ ClientLine \/ EnterResponse
       \/ HeaderLine \/ HeaderFault \/ Body \/ BodyFault
    /\ UNCHANGED sent

Next == Step \/ Spin \/ Stopped

Spec == Init /\ [][Next]_vars

(* The peers have sent what they send: no read waits.                      *)
FairSpec == Spec /\ WF_vars(Step)

-----------------------------------------------------------------------------
(* The copy never outgrows the MAX_OBJECT_SIZE bytes that doit allocated   *)
(* for it, and what is stored is what the client got, in full: once a line *)
(* or the body did not fit, the result says so to the end.                 *)
CopyIsWhatWasSent ==
    /\ Len(cache_data) < MaxObjectSize \/ cache_data = <<>>
    /\ IsPrefix(cache_data, toClient)
    /\ too_long = 0 => cache_data = toClient /\ cache_len = Len(toClient)

(* The server gets each of the proxy's own headers once: what the client   *)
(* says of them is dropped, and the end of the headers is sent exactly     *)
(* when the loop is over, and once.                                        *)
RequestWellFormed ==
    /\ \A i \in 2 .. Len(toServer) : toServer[i].kind \notin {"own", "drop"}
    /\ \A i \in 1 .. Len(toServer) : toServer[i] = Blank <=>
          i = Len(toServer) /\ pc # "client"

(* Whatever the server sends, the client gets it from the first item on,   *)
(* each once and in order, up to what has been read of it: no header is    *)
(* dropped or sent twice while there is input left.                        *)
ItemsInOrder ==
    /\ fromServer # <<>> => toClient \o fromServer = response
    /\ fromServer = <<>> => IsPrefix(response, toClient)

\* The headers end, and a Content-Length says how many bytes follow them.
Complete(in) ==
    /\ Contains(in, Blank)
    /\ LET lengths == SelectSeq(in, LAMBDA x : x.kind = "length")
           bytes   == SelectSeq(in, LAMBDA x : x.kind = "byte")
       IN  lengths # <<>> /\ Last(lengths).n = Len(bytes)

(* The client gets the server's items in order, and when handle_response   *)
(* returns it has got the whole of a complete response and nothing else,   *)
(* compared with all that the server sent (proxy.c:212-246).  The client   *)
(* of a call that found the blank line on its stack gets nothing.          *)
ResponseRelayed ==
    /\ ItemsInOrder
    /\ pc = "done" /\ Complete(response) => toClient \in {<<>>, response}

(* A client and a server whose headers end are served to the end: neither  *)
(* loop goes round for ever.                                               *)
RelayReturns ==
    Contains(fromClient, Blank) /\ Contains(fromServer, Blank)
        ~> pc \in {"done", "crash"}

-----------------------------------------------------------------------------
(* What the comments say and the code does not do.                         *)

(* proxy.c:245-246: the body sent to the client was read from the server.  *)
OnlyServerBytes ==
    pc = "done" => \A i \in 1 .. Len(toClient) : toClient[i] # Junk

(* proxy.c:283: what follows the proxy's own headers is the client's       *)
(* original headers, those that the proxy replaces left out.  No run has   *)
(* this: TLC refutes it in place of the properties of Relay.cfg.           *)
OriginalHeaders == IsPrefix(Tail(toServer), SelectSeq(request, Forwarded))

=============================================================================
