------------------------------- MODULE Acceptor -----------------------------
(***************************************************************************)
(* The accept loop of the web proxy and the life of a connection's thread  *)
(* (main and thread in webproxy-lab-main/proxy.c).                         *)
(*                                                                         *)
(* main hands each accepted descriptor to a new thread through a cell that *)
(* it allocates on the heap for that thread alone; the thread reads it,    *)
(* frees it, serves the connection and closes the descriptor.  Descriptors *)
(* are the kernel's: accept and socket return the lowest free number, so a *)
(* number that was closed at the wrong moment is handed out again.  doit   *)
(* is reduced to the descriptor it opens to the server, which it never     *)
(* closes.                                                                 *)
(***************************************************************************)
EXTENDS Integers, FiniteSets

CONSTANTS
    Conn,       \* the connections that clients ask for
    Thread,     \* thread identities, one for each thread main creates
    Cell,       \* the addresses malloc has for the cells
    MaxFd,      \* the number of descriptors the process may have open
    Free,       \* what a descriptor refers to that is not open,
    Server,     \* and one that is open to a server
    NULL

ASSUME FdAssumption == MaxFd \in Nat
ASSUME NameAssumption ==
    /\ NULL \notin Cell
    /\ Free \notin Conn /\ Server \notin Conn /\ Free # Server

Fd == 1 .. MaxFd

VARIABLES
    up,         \* the process runs
    mpc,        \* where main is: "malloc", "accept" or "create"
    connfdp,    \* the cell main has at hand
    cell,       \* the contents of each cell
    live,       \* the allocated cells
    pc,         \* where each thread is
    arg,        \* the argument of each thread: a cell
    connfd,     \* each thread's own copy of the descriptor
    file,       \* what each descriptor refers to
    asked       \* the connections not accepted yet

vars == <<up, mpc, connfdp, cell, live, pc, arg, connfd, file, asked>>

ThreadPC == {"none", "start", "free", "doit", "close", "done"}

\* The number accept and socket return is the lowest that is not open.
FreeFd == {fd \in Fd : file[fd] = Free}
Lowest(fd) == \A g \in FreeFd : fd <= g

-----------------------------------------------------------------------------
Init ==
    /\ up = TRUE
    /\ mpc = "malloc"
    /\ connfdp = NULL
    /\ cell = [c \in Cell |-> 0]
    /\ live = {}
    /\ pc = [t \in Thread |-> "none"]
    /\ arg = [t \in Thread |-> NULL]
    /\ connfd = [t \in Thread |-> 0]
    /\ file = [fd \in Fd |-> Free]
    /\ asked = Conn

Exit ==
    /\ up' = FALSE
    /\ UNCHANGED <<mpc, connfdp, cell, live, pc, arg, connfd, file, asked>>

\* Mutated form of MallocCell: one cell serves every connection.
MallocCell_Once ==
    /\ up
    /\ mpc = "malloc"
    /\ \E c \in Cell :
          /\ c \notin live \/ c = connfdp
          /\ connfdp = NULL \/ c = connfdp
          /\ live' = live \cup {c}
          /\ connfdp' = c
    /\ mpc' = "accept"
    /\ UNCHANGED <<up, cell, pc, arg, connfd, file, asked>>

(* main's loop. *)
MallocCell ==
    /\ up
    /\ mpc = "malloc"
    /\ \E c \in Cell \ live :
          /\ live' = live \cup {c}
          /\ connfdp' = c
    /\ mpc' = "accept"
    /\ UNCHANGED <<up, cell, pc, arg, connfd, file, asked>>

\* malloc returned NULL: accept's result is stored through it.
MallocFails ==
    /\ up
    /\ mpc = "malloc"
    /\ live = Cell
    /\ Exit

AcceptConn ==
    /\ up
    /\ mpc = "accept"
    /\ \E c \in asked, fd \in FreeFd :
          /\ Lowest(fd)
          /\ asked' = asked \ {c}
          /\ file' = [file EXCEPT ![fd] = c]
          /\ cell' = [cell EXCEPT ![connfdp] = fd]
    /\ mpc' = "create"
    /\ UNCHANGED <<up, connfdp, live, pc, arg, connfd>>

\* Every descriptor is in use: Accept reports the error and exits.
AcceptFails ==
    /\ up
    /\ mpc = "accept"
    /\ asked # {}
    /\ FreeFd = {}
    /\ Exit

CreateThread ==
    /\ up
    /\ mpc = "create"
    /\ \E t \in Thread :
          /\ pc[t] = "none"
          /\ pc' = [pc EXCEPT ![t] = "start"]
          /\ arg' = [arg EXCEPT ![t] = connfdp]
    /\ mpc' = "malloc"
    /\ UNCHANGED <<up, connfdp, cell, live, connfd, file, asked>>

\* Pthread_create has no thread to give: it reports the error and exits.
CreateFails ==
    /\ up
    /\ mpc = "create"
    /\ Exit

-----------------------------------------------------------------------------
Goto(t, from, to) ==
    /\ up
    /\ pc[t] = from
    /\ pc' = [pc EXCEPT ![t] = to]
    /\ up' = up

\* Mutated form of ReadCell: the thread keeps the pointer for the descriptor.
ReadCell_Pointer(t) ==
    /\ Goto(t, "start", "free")
    /\ connfd' = [connfd EXCEPT ![t] = arg[t]]
    /\ UNCHANGED <<mpc, connfdp, cell, live, arg, file, asked>>

(* A thread (detaching it changes nothing that is modelled). *)
ReadCell(t) ==
    /\ Goto(t, "start", "free")
    /\ connfd' = [connfd EXCEPT ![t] = cell[arg[t]]]
    /\ UNCHANGED <<mpc, connfdp, cell, live, arg, file, asked>>

FreeCell(t) ==
    /\ Goto(t, "free", "doit")
    /\ live' = live \ {arg[t]}
    /\ UNCHANGED <<mpc, connfdp, cell, arg, connfd, file, asked>>

\* doit without a server: a rejected request, or a hit of the cache.
DoitLocal(t) ==
    /\ Goto(t, "doit", "close")
    /\ UNCHANGED <<mpc, connfdp, cell, live, arg, connfd, file, asked>>

\* Mutated form of DoitServer: the client's connection is closed as well.
DoitServer_Closes(t) ==
    /\ Goto(t, "doit", "close")
    /\ file' = [file EXCEPT ![connfd[t]] = Free]
    /\ UNCHANGED <<mpc, connfdp, cell, live, arg, connfd, asked>>

\* doit with a server: proxyfd is opened, and is still open on return.
DoitServer(t) ==
    /\ Goto(t, "doit", "close")
    /\ \E fd \in FreeFd : Lowest(fd) /\ file' = [file EXCEPT ![fd] = Server]
    /\ UNCHANGED <<mpc, connfdp, cell, live, arg, connfd, asked>>

\* No descriptor for the socket, or a peer fails: a wrapper exits.
DoitFails(t) ==
    /\ up
    /\ pc[t] = "doit"
    /\ Exit

\* Mutated form of CloseConn: the close is forgotten.
CloseConn_None(t) ==
    /\ Goto(t, "close", "done")
    /\ UNCHANGED <<mpc, connfdp, cell, live, arg, connfd, file, asked>>

CloseConn(t) ==
    /\ Goto(t, "close", "done")
    /\ file' = [file EXCEPT ![connfd[t]] = Free]
    /\ UNCHANGED <<mpc, connfdp, cell, live, arg, connfd, asked>>

\* Nothing is left to do: main waits in accept for ever.
Idle ==
    /\ ~up \/ (mpc = "accept" /\ asked = {} /\ \A t \in Thread : pc[t] \in {"none", "done"})
    /\ UNCHANGED vars

MainStep ==
    \/ MallocCell \/ MallocFails \/ AcceptConn \/ AcceptFails \/ CreateThread

\* What a thread does around doit.
ThreadStep(t) == ReadCell(t) \/ FreeCell(t) \/ CloseConn(t)

\* doit, which waits for its peers.
Doit(t) == DoitLocal(t) \/ DoitServer(t) \/ DoitFails(t)

Next ==
    \/ MainStep \/ CreateFails
    \/ \E t \in Thread : ThreadStep(t) \/ Doit(t)
    \/ Idle

Spec == Init /\ [][Next]_vars

(* The kernel runs main and every thread.  Nothing is assumed of doit: a   *)
(* peer may keep it for ever.                                              *)
FairSpec ==
    Spec /\ WF_vars(MainStep) /\ \A t \in Thread : WF_vars(ThreadStep(t))

-----------------------------------------------------------------------------
TypeOK ==
    /\ up \in BOOLEAN
    /\ mpc \in {"malloc", "accept", "create"}
    /\ connfdp \in Cell \cup {NULL}
    /\ cell \in [Cell -> Fd \cup {0}]
    /\ live \subseteq Cell
    /\ pc \in [Thread -> ThreadPC]
    /\ arg \in [Thread -> Cell \cup {NULL}]
    /\ connfd \in [Thread -> Fd \cup {0}]
    /\ file \in [Fd -> Conn \cup {Free, Server}]
    /\ asked \subseteq Conn

\* Thread t has yet to free its cell, or to close its descriptor.
OwnsCell(t) == pc[t] \in {"start", "free"}
OwnsFd(t) == pc[t] \in {"free", "doit", "close"}

\* The descriptor a thread was created for, in its cell or in its copy.
HandedFd(t) == IF pc[t] = "start" THEN cell[arg[t]] ELSE connfd[t]

(* The cell a thread was given is its own until it frees it: it is         *)
(* allocated, and neither another thread nor main's next connection has it.*)
(* A shared or a stale cell would make a thread serve the wrong connection *)
(* (proxy.c:58-64, 74-76).                                                 *)
CellsExclusive ==
    /\ mpc \in {"accept", "create"} =>
          /\ connfdp \in live
          /\ \A t \in Thread : OwnsCell(t) => arg[t] # connfdp
    /\ \A t \in Thread : OwnsCell(t) =>
          /\ arg[t] \in live
          /\ \A u \in Thread \ {t} : OwnsCell(u) => arg[u] # arg[t]

(* No two threads serve the same descriptor, and a thread's descriptor     *)
(* refers to a client's connection until the thread closes it, although    *)
(* numbers are reused as soon as they are closed.                          *)
ConnectionsExclusive ==
    /\ \A t \in Thread : OwnsCell(t) \/ OwnsFd(t) =>
          /\ HandedFd(t) \in Fd /\ file[HandedFd(t)] \in Conn
          /\ \A u \in Thread \ {t} : OwnsCell(u) \/ OwnsFd(u) =>
                HandedFd(u) # HandedFd(t)
    /\ mpc = "create" =>
          /\ cell[connfdp] \in Fd /\ file[cell[connfdp]] \in Conn
          /\ \A t \in Thread : OwnsCell(t) \/ OwnsFd(t) =>
                HandedFd(t) # cell[connfdp]

(* Every accepted connection reaches a thread's doit, whatever the other   *)
(* connections' peers do, and is closed once its doit has returned.        *)
ConnectionsServed ==
    \A c \in Conn :
        /\ up /\ (\E fd \in Fd : file[fd] = c) ~>
              ~up \/ \E t \in Thread : pc[t] \in {"doit", "close"} /\ file[connfd[t]] = c
        /\ up /\ (\E t \in Thread : pc[t] = "close" /\ file[connfd[t]] = c) ~>
              ~up \/ \A fd \in Fd : file[fd] # c

-----------------------------------------------------------------------------
(* What the comments say and the code does not do.  No run has this: TLC   *)
(* refutes it in place of the properties of Acceptor.cfg.                  *)

(* proxy.c:55: main accepts connections in an endless loop.  With room for *)
(* the connection at hand, for its server and for the next accept, a       *)
(* descriptor is free whenever at most one client is connected; without it *)
(* the next accept, or the next socket to a server, ends the process.      *)
DescriptorsComeBack ==
    Cardinality({fd \in Fd : file[fd] \in Conn}) <= 1 => MaxFd < 3 \/ FreeFd # {}

=============================================================================
