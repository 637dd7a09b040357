------------------------------ MODULE Network -------------------------------
(***************************************************************************)
(* What is read from connections: the calls of the Rio package in any      *)
(* order, the Tiny server that is built on them, and the target of a       *)
(* request to the proxy.                                                   *)
(***************************************************************************)
EXTENDS Tiny, Uri, SequencesExt

CONSTANTS
    Message,    \* what a peer sends to a process that makes any calls
    Length,     \* bound: the lengths such a process asks for
    Target      \* what follows "http://" in a request

ASSUME NetworkAssumption ==
    /\ \A msg \in Message \cup Request \cup Target : msg \in Seq(Range(msg))
    /\ COLON # SLASH
    /\ Length \subseteq Nat \ {0} /\ MAXLINE \in Nat \ {0, 1}

VARIABLES
    user,       \* who reads: "buffered", "unbuffered", "tiny" or "proxy"
    target,     \* what the proxy is asked for
    parsed      \* what parse_uri makes of it

vars == <<user, stream, reader, signals, tiny, target, parsed>>

Unparsed == [Killed EXCEPT !.ret = 1]

Init ==
    /\ InitTiny
    /\ parsed = Unparsed
    /\ \/ user \in {"buffered", "unbuffered"} /\ target = <<>> /\ \E msg \in Message : InitRio(msg)
       \/ user = "tiny" /\ target = <<>> /\ InitRio(<<>>)
       \/ user = "proxy" /\ target \in Target /\ InitRio(<<>>)

\* Calls are made until one fails or returns nothing although there was room.
Call ==
    /\ result.op # "error"
    /\ result.op # "none" => (result.got # <<>> \/ result.n = 1)
    /\ \E n \in Length :
          \/ user = "buffered" /\ (Begin("rio_readlineb", n) \/ Begin("rio_readnb", n))
          \/ user = "unbuffered" /\ Begin("rio_readn", n)

\* The peer closes when it has sent everything, or before.
Calls ==
    /\ user \in {"buffered", "unbuffered"}
    /\ Call \/ ReadStep \/ ReadError \/ Write \/ Close \/ Interrupted
    /\ UNCHANGED <<tiny, user, target, parsed>>

Tinys ==
    /\ user = "tiny"
    /\ TinyStep \/ Child \/ Client
    /\ UNCHANGED <<user, target, parsed>>

Parse ==
    /\ user = "proxy"
    /\ parsed' = parse_uri(target)
    /\ UNCHANGED <<user, target, stream, reader, signals, tiny>>

Next == Calls \/ Tinys \/ Parse

Fairness ==
    /\ WF_vars(user = "tiny" /\ (TinyStep \/ Child) /\ UNCHANGED <<user, target, parsed>>)
    /\ WF_vars(user = "tiny" /\ pc \notin {"accept"} \cup Errors /\ Write
               /\ UNCHANGED <<tiny, user, target, parsed>>)
    /\ WF_vars(user # "tiny" /\ ReadStep /\ UNCHANGED <<tiny, user, target, parsed>>)
    /\ WF_vars(user # "tiny" /\ Write /\ UNCHANGED <<tiny, user, target, parsed>>)
    /\ WF_vars(user # "tiny" /\ unsent = <<>> /\ Close /\ UNCHANGED <<tiny, user, target, parsed>>)

Spec == Init /\ [][Next]_vars /\ Fairness

-----------------------------------------------------------------------------
(* What the calls return.                                                  *)

Newlines(s) == {i \in DOMAIN s : s[i] = NL}

\* The next line of s: to its end, to the room there is, or to the last byte.
NextLine(s, room) ==
    LET short == First(s, Least(room, Len(s)))
    IN  IF Newlines(short) = {} THEN short
        ELSE First(s, CHOOSE i \in Newlines(short) : \A j \in Newlines(short) : i <= j)

\* However the bytes arrive, however calls of both kinds are mixed and signals
\* come in between, every call returns the bytes that follow those of the call
\* before: a line, or as many as were asked for, and fewer only at the end of
\* what the peer sent.  A call fails only over a connection whose peer has gone.
CallReturns ==
    LET bytes == result'.got
        from  == Len(received)
        next  == SubSeq(message, from + 1, Len(message))
        end   == Len(message) - Len(unsent)
    IN  /\ bytes = IF result'.op = "rio_readlineb" THEN NextLine(next, Len(bytes))
                   ELSE First(next, Len(bytes))
        /\ \/ Len(bytes) = IF result'.op = "rio_readlineb" THEN result'.n - 1 ELSE result'.n
           \/ result'.op = "rio_readlineb" /\ bytes # <<>> /\ Last(bytes) = NL
           \/ closed /\ from + Len(bytes) = end

CallsRight ==
    [][(call # NoCall /\ call' = NoCall) =>
         IF result'.op = "error" THEN closed ELSE CallReturns]_vars

\* No call waits for ever for a peer that goes on writing and then closes.  A
\* client that stays is served: Tiny gets to its next connection after it, or
\* the system refuses Tiny a file, its mapping (always that of an empty file)
\* or a process, and it exits.  What a client does that gives up is left to
\* HeadersEnd and OutlivesClients.
CallsEnd ==
    /\ user # "tiny" => ((call # NoCall) ~> (call = NoCall))
    /\ pc = "doit" ~> \/ pc = "accept" \/ closed
                      \/ pc \in {"Open error", "mmap error", "Fork error"}

-----------------------------------------------------------------------------
(* What Tiny answers.                                                      *)
Answered == pc = "accept" /\ clients > 0

StatusOf(r) ==
    CASE r = "POST" -> 501
      [] r = "GET missing" -> 404
      [] r = "GET directory" -> 403
      [] OTHER -> 200

\* A client that waited has got one answer, to what it asked for and as long
\* as it says, when its connection is closed, and no child of the server is
\* left to write to it.
AnswersComplete ==
    Answered =>
        /\ child = "none"
        /\ ~closed => /\ answer.status = StatusOf(Head(message))
                      /\ answer.length # -1 => answer.body = answer.length

-----------------------------------------------------------------------------
(* What parse_uri returns.                                                 *)
Has(s, c) == \E i \in DOMAIN s : s[i] = c
Plain(s) == ~Has(s, COLON) /\ ~Has(s, SLASH)

\* A target is a host, perhaps a port, and a path.
Split(host, port, path) ==
    /\ Plain(host) /\ Plain(port)
    /\ target = host \o (IF port = <<>> THEN <<>> ELSE <<COLON>> \o port) \o <<SLASH>> \o path

Parts == {SubSeq(target, i, j) : i \in 1 .. (Len(target) + 1), j \in 0 .. Len(target)}

\* What parse_uri has to make of a target of these parts.
Found(host, port, path) ==
    parsed' = [ret  |-> 0,
               host |-> host,
               port |-> IF port = <<>> THEN <<Default>> ELSE port,
               path |-> <<SLASH>> \o path]

\* The three parts are found wherever a path follows the host and the port,
\* with one exception: a colon in the path when there is none before it (see
\* ColonInPath).  Of targets without a path see DefaultPath.
UriRight ==
    [][user = "proxy" =>
         \A host, port, path \in Parts :
            (Split(host, port, path) /\ (port = <<>> => ~Has(path, COLON))) =>
               Found(host, port, path)]_vars

-----------------------------------------------------------------------------
(* What the comments say and the code does not do.  No run has these: TLC  *)
(* refutes each in place of the properties of Network.cfg.                 *)

\* tiny.c:3: the server is iterative, it takes one client after the other.  So
\* the headers of a client that has hung up have to end like those of others.
HeadersEnd == pc = "headers" ~> pc \notin {"headers", "header"}

\* tiny.c:3 again: no client ends the server by leaving.
OutlivesClients == pc # "Rio_writen error"

\* tiny/README:8: Tiny serves the files below its directory.  A client that
\* stays gets one that may be opened, be it empty.
EmptyFileServed ==
    pc = "serve_static" /\ request = "GET empty" ~>
        pc \in {"close", "Open error"} \/ closed

\* proxy.c:305, 337: the path is "/" by default, where the target has none.
DefaultPath ==
    [][user = "proxy" =>
         \A host, port \in Parts :
            (Plain(target) /\ host = target /\ port = <<>>)
              \/ (Plain(host) /\ Plain(port) /\ port # <<>>
                    /\ target = host \o <<COLON>> \o port)
            => Found(host, port, <<>>)]_vars

\* proxy.c:319: the colon that is looked for stands before a port.
ColonInPath ==
    [][user = "proxy" =>
         \A host, path \in Parts :
            Split(host, <<>>, path) => Found(host, <<>>, path)]_vars

=============================================================================
