-------------------------------- MODULE Tiny --------------------------------
(***************************************************************************)
(* The Tiny web server, tiny.c: one process that serves one connection     *)
(* after the other and reads each request with rio_readlineb.  A client    *)
(* sends its request, waits for the answer, and may give up at any time.   *)
(* A system call that fails ends the server: the wrapper of csapp.c prints *)
(* which one it was, and exits.                                            *)
(***************************************************************************)
EXTENDS Rio

CONSTANTS
    Verb,           \* the first words of requests: what they ask for
    Request,        \* the messages of clients, as sequences of bytes
    MAXLINE,        \* the size of buf
    MaxClients      \* bound: how many connections are served

VARIABLES
    pc,         \* where the server is, or what it printed when it exited
    line,       \* buf in read_requesthdrs
    request,    \* what sscanf found in the request line
    answer,     \* what was written to the connection
    child,      \* the process that runs the CGI program
    clients     \* how many connections were accepted

tiny == <<pc, line, request, answer, child, clients>>

\* How the server ends.  Rio_writen's stands for SIGPIPE as well.
Errors == {"Accept error", "Rio_readlineb error", "Rio_writen error",
           "Open error", "mmap error", "Fork error"}

NoAnswer == [status |-> 0, length |-> -1, body |-> 0]
ErrorBody == 1      \* the length of clienterror's page

\* What stat says of the file that a request names: whether there is one,
\* whether it may be read or run, and its size.
Exists(r) == r # "GET missing"
IsStatic(r) == r # "GET cgi"
Allowed(r) == r # "GET directory"
FileSize(r) == IF r = "GET empty" THEN 0 ELSE 2

InitTiny ==
    /\ pc = "accept" /\ line = <<>> /\ request = "none" /\ answer = NoAnswer
    /\ child = "none" /\ clients = 0

Dies(error) ==
    /\ pc' = error
    /\ UNCHANGED <<stream, reader, signals, line, request, answer, child, clients>>

\* accept fails, or getnameinfo does: either wrapper exits.
AcceptFails == pc = "accept" /\ clients < MaxClients /\ Dies("Accept error")

Accept ==
    /\ pc = "accept" /\ clients < MaxClients
    /\ \E msg \in Request : Connected(msg)
    /\ clients' = clients + 1
    /\ pc' = "doit" /\ line' = <<>> /\ request' = "none" /\ answer' = NoAnswer
    /\ UNCHANGED <<signals, child>>

\* Every line is read with a call of its own.
ReadLine ==
    /\ pc \in {"doit", "headers"} /\ call = NoCall
    /\ Begin("rio_readlineb", MAXLINE)
    /\ pc' = IF pc = "doit" THEN "line" ELSE "header"
    /\ UNCHANGED <<line, request, answer, child, clients>>

Reading == ReadStep /\ UNCHANGED tiny

ReadingFails ==
    /\ ReadError
    /\ pc' = "Rio_readlineb error"
    /\ UNCHANGED <<line, request, answer, child, clients>>

\* Where nothing was read, buf holds what was on the stack.
RequestLine ==
    /\ pc = "line" /\ call = NoCall
    /\ \E r \in IF result.got = <<>> THEN Verb ELSE {Head(result.got)} :
          /\ request' = r
          /\ pc' = IF r = "POST" THEN "501" ELSE "headers"
    /\ line' = <<"anything">>
    /\ UNCHANGED <<stream, reader, signals, answer, child, clients>>

\* buf keeps the last line where nothing was read; it may be a blank line
\* from the start, when nothing ever was.
HeaderLine ==
    /\ pc = "header" /\ call = NoCall
    /\ \E l \in IF result.got # <<>> THEN {result.got}
                ELSE IF line = <<"anything">> THEN {line, <<NL>>} ELSE {line} :
          /\ line' = l
          /\ pc' = IF l = <<NL>> THEN "serve" ELSE "headers"
    /\ UNCHANGED <<stream, reader, signals, request, answer, child, clients>>

Serve ==
    /\ pc = "serve"
    /\ pc' = IF ~Exists(request) THEN "404" ELSE IF ~Allowed(request) THEN "403"
             ELSE IF IsStatic(request) THEN "serve_static" ELSE "serve_dynamic"
    /\ UNCHANGED <<stream, reader, signals, line, request, answer, child, clients>>

-----------------------------------------------------------------------------
\* Rio_writen to a client that has gone may end the process.
Sends(a, next) ==
    /\ \/ answer' = a /\ pc' = next
       \/ closed /\ answer' = answer /\ pc' = "Rio_writen error"
    /\ UNCHANGED <<stream, reader, signals, line, request, clients>>

clienterror ==
    /\ child' = child
    /\ \/ pc = "501" /\ Sends([status |-> 501, length |-> ErrorBody, body |-> ErrorBody], "close")
       \/ pc = "404" /\ Sends([status |-> 404, length |-> ErrorBody, body |-> ErrorBody], "close")
       \/ pc = "403" /\ Sends([status |-> 403, length |-> ErrorBody, body |-> ErrorBody], "close")

StaticHeaders ==
    /\ pc = "serve_static"
    /\ Sends([status |-> 200, length |-> FileSize(request), body |-> 0], "mmap")
    /\ child' = child

\* The headers are out when the file is opened: it may be gone by now, or not
\* be readable for this process (Serve looks at the owner's bit only).  mmap
\* may find no room, and it always refuses an empty file.
StaticBody ==
    /\ pc = "mmap"
    /\ \/ Dies("Open error")
       \/ Dies("mmap error")
       \/ /\ FileSize(request) # 0
          /\ Sends([answer EXCEPT !.body = FileSize(request)], "close")
          /\ child' = child

DynamicHeaders ==
    /\ pc = "serve_dynamic"
    /\ Sends([answer EXCEPT !.status = 200], "fork")
    /\ child' = child

\* Mutated form of WaitForChild: the server does not wait.
WaitForChild_Not ==
    /\ pc = "wait"
    /\ pc' = "close"
    /\ UNCHANGED <<stream, reader, signals, line, request, answer, child, clients>>

Fork ==
    /\ pc = "fork"
    /\ \/ Dies("Fork error")
       \/ /\ child' = "running"
          /\ pc' = "wait"
          /\ UNCHANGED <<stream, reader, signals, line, request, answer, clients>>

\* The program writes to the connection, and ends in any case.
Child ==
    /\ child = "running"
    /\ \/ answer' = [answer EXCEPT !.body = 1]
       \/ answer' = answer
    /\ child' = "ended"
    /\ UNCHANGED <<stream, reader, signals, pc, line, request, clients>>

WaitForChild ==
    /\ pc = "wait" /\ child = "ended"
    /\ child' = "none"
    /\ pc' = "close"
    /\ UNCHANGED <<stream, reader, signals, line, request, answer, clients>>

CloseConnection ==
    /\ pc = "close"
    /\ pc' = "accept"
    /\ UNCHANGED <<stream, reader, signals, line, request, answer, child, clients>>

TinyStep ==
    \/ Accept \/ AcceptFails \/ ReadLine \/ Reading \/ ReadingFails
    \/ RequestLine \/ HeaderLine \/ Serve
    \/ clienterror \/ StaticHeaders \/ StaticBody \/ DynamicHeaders
    \/ Fork \/ WaitForChild \/ CloseConnection

\* The client sends and is interrupted; it gives up only while it is served.
Client ==
    /\ pc \notin {"accept"} \cup Errors
    /\ Write \/ Close \/ Interrupted
    /\ UNCHANGED tiny

=============================================================================
