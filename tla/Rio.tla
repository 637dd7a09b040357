-------------------------------- MODULE Rio --------------------------------
(***************************************************************************)
(* The Rio package of csapp.c between a peer that sends a message with     *)
(* rio_writen and a process that reads it, over a connection that takes    *)
(* and gives any number of bytes at a time.  Signals interrupt read and    *)
(* write, and a peer that has gone may have reset the connection, so that  *)
(* a read fails.  A byte is a symbol of its own; NL is '\n'.               *)
(***************************************************************************)
EXTENDS Integers, Sequences

CONSTANTS
    NL,
    RIO_BUFSIZE,    \* what one refill of the buffer reads at most
    Kernel,         \* how many bytes the connection holds
    MaxSignals      \* bound: how often read and write are interrupted

ASSUME RioAssumption ==
    /\ RIO_BUFSIZE \in Nat \ {0} /\ Kernel \in Nat \ {0} /\ MaxSignals \in Nat

VARIABLES
    message,    \* what the peer sends
    unsent,     \* what rio_writen has not written yet
    kernel,     \* what is written and not read
    closed,     \* the peer has closed the connection
    rio_buf,    \* the unread part of the reader's buffer
    call,       \* the reader's call: what, how much, what it has got so far
    result,     \* the last call, with what it returned
    received,   \* auxiliary: what all calls have returned
    signals     \* the interruptions that are left

stream == <<message, unsent, kernel, closed>>
reader == <<rio_buf, call, result, received>>

NoCall == [op |-> "none", n |-> 0, got |-> <<>>]
Least(a, b) == IF a < b THEN a ELSE b
First(s, k) == SubSeq(s, 1, k)
Rest(s, k) == SubSeq(s, k + 1, Len(s))

\* A new connection, over which the peer sends msg.
Connected(msg) ==
    /\ message' = msg /\ unsent' = msg /\ kernel' = <<>> /\ closed' = FALSE
    /\ rio_buf' = <<>> /\ call' = NoCall /\ result' = NoCall /\ received' = <<>>

InitRio(msg) ==
    /\ message = msg /\ unsent = msg /\ kernel = <<>> /\ closed = FALSE
    /\ rio_buf = <<>> /\ call = NoCall /\ result = NoCall /\ received = <<>>
    /\ signals = MaxSignals

-----------------------------------------------------------------------------
(* The peer, in rio_writen.                                                *)
Write ==
    /\ ~closed
    /\ \E k \in 1 .. Least(Len(unsent), Kernel - Len(kernel)) :
          /\ kernel' = kernel \o First(unsent, k)
          /\ unsent' = Rest(unsent, k)
    /\ UNCHANGED <<message, closed, reader, signals>>

\* write or read returns -1 with EINTR and is called again.
Interrupted ==
    /\ signals > 0
    /\ (unsent # <<>> /\ ~closed) \/ call # NoCall
    /\ signals' = signals - 1
    /\ UNCHANGED <<stream, reader>>

Close ==
    /\ ~closed
    /\ closed' = TRUE
    /\ UNCHANGED <<message, unsent, kernel, reader, signals>>

-----------------------------------------------------------------------------
(* The reader.                                                             *)
Begin(op, n) ==
    /\ call = NoCall
    /\ call' = [op |-> op, n |-> n, got |-> <<>>]
    /\ UNCHANGED <<stream, rio_buf, result, received, signals>>

\* The call has got these bytes: it returns if that is enough.
Got(bytes, enough) ==
    IF enough
    THEN /\ result' = [call EXCEPT !.got = bytes]
         /\ received' = received \o bytes
         /\ call' = NoCall
    ELSE /\ call' = [call EXCEPT !.got = bytes]
         /\ UNCHANGED <<result, received>>

\* The calls that go through rio_read.
Buffered == call.op = "rio_readnb" \/ (call.op = "rio_readlineb" /\ call.n > 1)
Wanted == call.n - Len(call.got)

\* rio_readlineb with no room for a byte returns at once.
NoRoom ==
    /\ call.op = "rio_readlineb" /\ call.n <= 1
    /\ Got(<<>>, TRUE)
    /\ UNCHANGED <<stream, rio_buf, signals>>

\* Mutated form of Refill: what read returns beyond what is asked for is lost.
Refill_Wanted ==
    /\ Buffered /\ rio_buf = <<>>
    /\ \E k \in 1 .. Least(Len(kernel), RIO_BUFSIZE) :
          /\ rio_buf' = First(kernel, Least(k, Wanted))
          /\ kernel' = Rest(kernel, k)
    /\ UNCHANGED <<message, unsent, closed, call, result, received, signals>>

\* rio_read finds its buffer empty.
Refill ==
    /\ Buffered /\ rio_buf = <<>>
    /\ \E k \in 1 .. Least(Len(kernel), RIO_BUFSIZE) :
          /\ rio_buf' = First(kernel, k)
          /\ kernel' = Rest(kernel, k)
    /\ UNCHANGED <<message, unsent, closed, call, result, received, signals>>

\* rio_readlineb takes one byte at a time, and leaves room for a 0.
TakeByte ==
    /\ call.op = "rio_readlineb" /\ call.n > 1 /\ rio_buf # <<>>
    /\ Got(Append(call.got, Head(rio_buf)), Head(rio_buf) = NL \/ Wanted = 2)
    /\ rio_buf' = Tail(rio_buf)
    /\ UNCHANGED <<stream, signals>>

TakeBytes ==
    /\ call.op = "rio_readnb" /\ rio_buf # <<>>
    /\ \E cnt \in {Least(Wanted, Len(rio_buf))} :
          /\ Got(call.got \o First(rio_buf, cnt), cnt = Wanted)
          /\ rio_buf' = Rest(rio_buf, cnt)
    /\ UNCHANGED <<stream, signals>>

\* rio_readn reads from the connection itself.
ReadSome ==
    /\ call.op = "rio_readn"
    /\ \E k \in 1 .. Least(Len(kernel), Wanted) :
          /\ Got(call.got \o First(kernel, k), k = Wanted)
          /\ kernel' = Rest(kernel, k)
    /\ UNCHANGED <<message, unsent, closed, rio_buf, signals>>

\* Mutated form of EndOfFile: it is taken for a read that has to be repeated.
EndOfFile_Again ==
    /\ call # NoCall /\ rio_buf = <<>> /\ kernel = <<>> /\ closed
    /\ UNCHANGED <<stream, reader, signals>>

\* read returns 0: every call returns what it has.
EndOfFile ==
    /\ call # NoCall /\ rio_buf = <<>> /\ kernel = <<>> /\ closed
    /\ call.op # "rio_readlineb" \/ call.n > 1
    /\ Got(call.got, TRUE)
    /\ UNCHANGED <<stream, rio_buf, signals>>

\* The peer has reset the connection, and read returns -1: so does the call,
\* which leaves what it has got in the caller's buffer.  Every caller then
\* exits, in the wrapper.
ReadError ==
    /\ Buffered \/ call.op = "rio_readn"
    /\ rio_buf = <<>> /\ closed
    /\ result' = [call EXCEPT !.op = "error"]
    /\ call' = NoCall
    /\ UNCHANGED <<stream, rio_buf, received, signals>>

ReadStep == NoRoom \/ Refill \/ TakeByte \/ TakeBytes \/ ReadSome \/ EndOfFile

=============================================================================
