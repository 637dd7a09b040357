--------------------------- MODULE Network_proofs ---------------------------
(***************************************************************************)
(* For every message, every buffer, any arrival of the bytes and any mix   *)
(* of calls: no byte is lost, repeated or reordered between the peer and   *)
(* the reader, and every call of the Rio package returns the bytes that    *)
(* come next; Tiny's answers are complete; and parse_uri finds the parts   *)
(* of a target.                                                            *)
(***************************************************************************)
EXTENDS Network, SequenceTheorems, TLAPS

Bytes == UNION {Range(msg) : msg \in Message \cup Request}

TypeCorrect ==
    /\ message \in Seq(Bytes) /\ unsent \in Seq(Bytes) /\ kernel \in Seq(Bytes)
    /\ rio_buf \in Seq(Bytes) /\ received \in Seq(Bytes)
    /\ call \in [op  : {"none", "rio_readn", "rio_readnb", "rio_readlineb"},
                 n   : Nat,
                 got : Seq(Bytes)]
    /\ result.op \in {"none", "rio_readn", "rio_readnb", "rio_readlineb"}

\* The bytes of part are those of msg from k + 1 on.
At(msg, part, k) == \A i \in 1 .. Len(part) : msg[k + i] = part[i]

GotAt == Len(received)
BufAt == GotAt + Len(call.got)
KernelAt == BufAt + Len(rio_buf)
UnsentAt == KernelAt + Len(kernel)

(* Every byte of the message is in one place, in its order.                *)
Intact ==
    /\ At(message, received, 0) /\ At(message, call.got, GotAt)
    /\ At(message, rio_buf, BufAt) /\ At(message, kernel, KernelAt)
    /\ At(message, unsent, UnsentAt) /\ Len(message) = UnsentAt + Len(unsent)

(* A call that has not returned has less than it asked for, and no end of  *)
(* a line.                                                                 *)
CallOpen ==
    /\ call.op = "none" => call = NoCall
    /\ call # NoCall => call.n >= 1
    /\ call.op \in {"rio_readn", "rio_readnb"} => Len(call.got) < call.n
    /\ call.op = "rio_readlineb" => /\ call.got = <<>> \/ Len(call.got) + 1 < call.n
                                    /\ \A i \in 1 .. Len(call.got) : call.got[i] # NL

(* Calls of rio_readn are not mixed with those that read ahead.            *)
Unmixed ==
    /\ user \in {"buffered", "unbuffered", "tiny", "proxy"}
    /\ user = "unbuffered" => rio_buf = <<>> /\ call.op \in {"none", "rio_readn"}
    /\ user # "unbuffered" => call.op # "rio_readn"
    /\ user = "tiny" /\ pc \notin {"line", "header"} => call = NoCall

Inv == TypeCorrect /\ Intact /\ CallOpen /\ Unmixed

(* When a read has failed, what was returned before and what the failing   *)
(* call has left in the caller's buffer are still the beginning of the     *)
(* message, and no other call is made.                                     *)
Broken == At(message, received, 0) /\ At(message, result.got, GotAt)

Stopped ==
    /\ result.op = "error" /\ call = NoCall /\ Broken
    /\ user \in {"buffered", "unbuffered", "tiny"}
    /\ user = "tiny" => pc = "Rio_readlineb error"

-----------------------------------------------------------------------------
(* Sequences.                                                              *)

LEMMA FirstRest ==
    ASSUME NEW S, NEW s \in Seq(S), NEW n \in 0 .. Len(s)
    PROVE  /\ First(s, n) \in Seq(S) /\ Len(First(s, n)) = n
           /\ \A i \in 1 .. n : First(s, n)[i] = s[i]
           /\ Rest(s, n) \in Seq(S) /\ Len(Rest(s, n)) = Len(s) - n
           /\ \A i \in 1 .. (Len(s) - n) : Rest(s, n)[i] = s[n + i]
  <1>1. Len(s) \in Nat
    BY LenProperties
  <1>2. /\ \A i \in 1 .. n : s[i] \in S
        /\ \A i \in (n + 1) .. Len(s) : s[i] \in S
    BY <1>1, ElementOfSeq
  <1>3. /\ First(s, n) \in Seq(S) /\ Len(First(s, n)) = n
        /\ \A i \in 1 .. n : First(s, n)[i] = s[i]
    BY <1>1, <1>2, SubSeqProperties DEF First
  <1>4. /\ Rest(s, n) \in Seq(S) /\ Len(Rest(s, n)) = Len(s) - n
        /\ \A i \in 1 .. (Len(s) - n) : Rest(s, n)[i] = s[n + i]
    BY <1>1, <1>2, SubSeqProperties DEF Rest
  <1> QED
    BY <1>3, <1>4

\* The parts of a part.
LEMMA AtParts ==
    ASSUME NEW S, NEW msg, NEW s \in Seq(S), NEW k \in Nat, At(msg, s, k),
           NEW n \in 0 .. Len(s)
    PROVE  At(msg, First(s, n), k) /\ At(msg, Rest(s, n), k + n)
  <1>1. Len(s) \in Nat
    BY LenProperties
  <1>2. /\ Len(First(s, n)) = n /\ \A i \in 1 .. n : First(s, n)[i] = s[i]
        /\ Len(Rest(s, n)) = Len(s) - n
        /\ \A i \in 1 .. (Len(s) - n) : Rest(s, n)[i] = s[n + i]
    BY FirstRest
  <1>3. \A i \in 1 .. Len(s) : msg[k + i] = s[i]
    BY DEF At
  <1>4. ASSUME NEW i \in 1 .. (Len(s) - n) PROVE msg[(k + n) + i] = Rest(s, n)[i]
    <2>1. n + i \in 1 .. Len(s) /\ k + (n + i) = (k + n) + i
      BY <1>1
    <2>2. msg[k + (n + i)] = s[n + i]
      BY <1>3, <2>1
    <2> QED
      BY <1>2, <2>1, <2>2
  <1>5. ASSUME NEW i \in 1 .. n PROVE msg[k + i] = First(s, n)[i]
    BY <1>1, <1>2, <1>3
  <1> QED
    BY <1>2, <1>4, <1>5 DEF At

LEMMA AtTail ==
    ASSUME NEW S, NEW msg, NEW s \in Seq(S), s # <<>>, NEW k \in Nat, At(msg, s, k)
    PROVE  At(msg, Tail(s), k + 1)
  <1>1. /\ Len(s) \in Nat /\ Len(Tail(s)) = Len(s) - 1
        /\ \A i \in 1 .. Len(Tail(s)) : Tail(s)[i] = s[i + 1]
    BY HeadTailProperties, LenProperties
  <1>2. ASSUME NEW i \in 1 .. Len(Tail(s)) PROVE msg[(k + 1) + i] = Tail(s)[i]
    <2>1. i + 1 \in 1 .. Len(s) /\ k + (i + 1) = (k + 1) + i
      BY <1>1
    <2>2. msg[k + (i + 1)] = s[i + 1]
      BY <2>1 DEF At
    <2> QED
      BY <1>1, <2>1, <2>2
  <1> QED
    BY <1>2 DEF At

LEMMA AtConcat ==
    ASSUME NEW S, NEW msg, NEW s \in Seq(S), NEW t \in Seq(S), NEW k \in Nat,
           At(msg, s, k), At(msg, t, k + Len(s))
    PROVE  /\ s \o t \in Seq(S) /\ Len(s \o t) = Len(s) + Len(t)
           /\ At(msg, s \o t, k)
  <1>1. Len(s) \in Nat /\ Len(t) \in Nat
    BY LenProperties
  <1>2. /\ s \o t \in Seq(S) /\ Len(s \o t) = Len(s) + Len(t)
        /\ \A i \in 1 .. Len(s) + Len(t) :
              (s \o t)[i] = IF i <= Len(s) THEN s[i] ELSE t[i - Len(s)]
    BY ConcatProperties
  <1>3. ASSUME NEW i \in 1 .. Len(s \o t) PROVE msg[k + i] = (s \o t)[i]
    <2>1. CASE i <= Len(s)
      BY <1>1, <1>2, <2>1 DEF At
    <2>2. CASE i > Len(s)
      <3>1. i - Len(s) \in 1 .. Len(t) /\ k + i = (k + Len(s)) + (i - Len(s))
        BY <1>1, <1>2, <2>2
      <3>2. msg[(k + Len(s)) + (i - Len(s))] = t[i - Len(s)]
        BY <3>1 DEF At
      <3> QED
        BY <1>1, <1>2, <2>2, <3>1, <3>2
    <2> QED
      BY <1>1, <1>2, <2>1, <2>2
  <1> QED
    BY <1>2, <1>3 DEF At

LEMMA AtEmpty == \A msg, k : At(msg, <<>>, k)
  BY EmptySeq DEF At

\* What follows the first k elements begins with a part that is there.
LEMMA AtFront ==
    ASSUME NEW S, NEW msg \in Seq(S), NEW s \in Seq(S), NEW k \in Nat,
           At(msg, s, k), k + Len(s) <= Len(msg)
    PROVE  /\ Rest(msg, k) \in Seq(S) /\ Len(Rest(msg, k)) = Len(msg) - k
           /\ First(Rest(msg, k), Len(s)) = s
  <1>1. Len(s) \in Nat /\ Len(msg) \in Nat /\ k \in 0 .. Len(msg)
    BY LenProperties
  <1>2. /\ Rest(msg, k) \in Seq(S) /\ Len(Rest(msg, k)) = Len(msg) - k
        /\ \A i \in 1 .. (Len(msg) - k) : Rest(msg, k)[i] = msg[k + i]
    BY <1>1, FirstRest
  <1>3. Len(s) \in 0 .. Len(Rest(msg, k))
    BY <1>1, <1>2
  <1>4. /\ First(Rest(msg, k), Len(s)) \in Seq(S) /\ Len(First(Rest(msg, k), Len(s))) = Len(s)
        /\ \A i \in 1 .. Len(s) : First(Rest(msg, k), Len(s))[i] = Rest(msg, k)[i]
    BY <1>2, <1>3, FirstRest
  <1>5. \A i \in 1 .. Len(s) : First(Rest(msg, k), Len(s))[i] = s[i]
    BY <1>1, <1>2, <1>4 DEF At
  <1> QED
    BY <1>2, <1>4, <1>5, SeqEqual

\* A sequence with no end of a line but its last byte is the line at the
\* beginning of what it begins.
LEMMA LineAtFront ==
    ASSUME NEW S, NEW s \in Seq(S), NEW next \in Seq(S),
           Len(s) <= Len(next), First(next, Len(s)) = s,
           \A i \in 1 .. (Len(s) - 1) : s[i] # NL
    PROVE  NextLine(next, Len(s)) = s
  <1>1. Len(s) \in Nat /\ Len(next) \in Nat
    BY LenProperties
  <1>2. First(next, Least(Len(s), Len(next))) = s
    BY <1>1 DEF Least
  <1>3. CASE Newlines(s) = {}
    BY <1>2, <1>3 DEF NextLine
  <1>4. CASE Newlines(s) # {}
    <2>1. DOMAIN s = 1 .. Len(s)
      BY LenProperties
    <2>2. Newlines(s) = {Len(s)}
      BY <1>1, <1>4, <2>1 DEF Newlines
    <2>3. (CHOOSE i \in Newlines(s) : \A j \in Newlines(s) : i <= j) = Len(s)
      BY <1>1, <2>2
    <2> QED
      BY <1>2, <1>4, <2>3 DEF NextLine
  <1> QED
    BY <1>3, <1>4

LEMMA MessageType == \A msg \in Message \cup Request : msg \in Seq(Bytes)
  <1> SUFFICES ASSUME NEW msg \in Message \cup Request PROVE msg \in Seq(Bytes)
    OBVIOUS
  <1>1. msg \in Seq(Range(msg)) /\ Range(msg) \subseteq Bytes
    BY NetworkAssumption DEF Bytes
  <1> QED
    BY <1>1, SeqMonotonic

-----------------------------------------------------------------------------
(* What a call does with the bytes it gets.                                *)

LEMMA Lengths ==
    ASSUME TypeCorrect
    PROVE  /\ Len(message) \in Nat /\ Len(unsent) \in Nat /\ Len(kernel) \in Nat
           /\ Len(rio_buf) \in Nat /\ Len(received) \in Nat /\ Len(call.got) \in Nat
           /\ call.got \in Seq(Bytes) /\ call.n \in Nat
           /\ GotAt \in Nat /\ BufAt \in Nat /\ KernelAt \in Nat /\ UnsentAt \in Nat
  <1>1. /\ message \in Seq(Bytes) /\ unsent \in Seq(Bytes) /\ kernel \in Seq(Bytes)
        /\ rio_buf \in Seq(Bytes) /\ received \in Seq(Bytes) /\ call.got \in Seq(Bytes)
        /\ call.n \in Nat
    BY DEF TypeCorrect
  <1>2. /\ Len(message) \in Nat /\ Len(unsent) \in Nat /\ Len(kernel) \in Nat
        /\ Len(rio_buf) \in Nat /\ Len(received) \in Nat /\ Len(call.got) \in Nat
    BY <1>1, LenProperties
  <1> QED
    BY <1>1, <1>2 DEF GotAt, BufAt, KernelAt, UnsentAt

\* The calls that have returned and the one that has not have got the message
\* up to the end of these bytes.
LEMMA GotBytes ==
    ASSUME TypeCorrect, At(message, received, 0),
           NEW bytes \in Seq(Bytes), At(message, bytes, GotAt),
           NEW enough \in BOOLEAN, Got(bytes, enough)
    PROVE  /\ received' \in Seq(Bytes) /\ At(message, received', 0)
           /\ call' \in [op  : {"none", "rio_readn", "rio_readnb", "rio_readlineb"},
                         n   : Nat,
                         got : Seq(Bytes)]
           /\ At(message, call'.got, Len(received'))
           /\ Len(received') + Len(call'.got) = GotAt + Len(bytes)
           /\ result'.op \in {"none", "rio_readn", "rio_readnb", "rio_readlineb"}
  <1>0. result' \in {result, [call EXCEPT !.got = bytes]}
    BY DEF Got
  <1>4. result'.op \in {"none", "rio_readn", "rio_readnb", "rio_readlineb"}
    BY <1>0 DEF TypeCorrect
  <1>1. received \in Seq(Bytes) /\ Len(received) \in Nat /\ Len(bytes) \in Nat
    BY LenProperties DEF TypeCorrect
  <1>2. CASE enough
    <2>1. call' = NoCall /\ received' = received \o bytes
      BY <1>2 DEF Got
    <2>2. 0 + Len(received) = GotAt
      BY <1>1 DEF GotAt
    <2>3. /\ received' \in Seq(Bytes) /\ Len(received') = Len(received) + Len(bytes)
          /\ At(message, received', 0)
      BY <1>1, <2>1, <2>2, AtConcat
    <2>4. call'.got = <<>> /\ Len(call'.got) = 0
      BY <2>1, EmptySeq DEF NoCall
    <2>5. call' \in [op  : {"none", "rio_readn", "rio_readnb", "rio_readlineb"},
                     n   : Nat,
                     got : Seq(Bytes)]
      BY <2>1, EmptySeq DEF NoCall
    <2>6. Len(received') + Len(call'.got) = GotAt + Len(bytes)
      BY <1>1, <2>3, <2>4 DEF GotAt
    <2> QED
      BY <1>4, <2>3, <2>4, <2>5, <2>6, AtEmpty
  <1>3. CASE ~enough
    <2>1. call' = [call EXCEPT !.got = bytes] /\ received' = received
      BY <1>3 DEF Got
    <2>2. /\ call' \in [op  : {"none", "rio_readn", "rio_readnb", "rio_readlineb"},
                        n   : Nat,
                        got : Seq(Bytes)]
          /\ call'.got = bytes
      BY <2>1 DEF TypeCorrect
    <2> QED
      BY <1>1, <1>4, <2>1, <2>2 DEF GotAt
  <1> QED
    BY <1>2, <1>3

\* What a call that returns has got comes next in the message.
LEMMA ReturnsRight ==
    ASSUME TypeCorrect, NEW bytes \in Seq(Bytes), Got(bytes, TRUE),
           At(message, bytes, GotAt), GotAt + Len(bytes) <= Len(message),
           call.op = "rio_readlineb" => \A i \in 1 .. (Len(bytes) - 1) : bytes[i] # NL,
           \/ Len(bytes) = IF call.op = "rio_readlineb" THEN call.n - 1 ELSE call.n
           \/ call.op = "rio_readlineb" /\ bytes # <<>> /\ Last(bytes) = NL
           \/ closed /\ GotAt + Len(bytes) = Len(message) - Len(unsent)
    PROVE  CallReturns
  <1> DEFINE next == Rest(message, GotAt)
  <1>1. result' = [call EXCEPT !.got = bytes]
    BY DEF Got
  <1>2. result'.op = call.op /\ result'.n = call.n /\ result'.got = bytes
    BY <1>1 DEF TypeCorrect
  <1>3. /\ next \in Seq(Bytes) /\ Len(next) = Len(message) - GotAt
        /\ First(next, Len(bytes)) = bytes
    <2>1. message \in Seq(Bytes) /\ GotAt \in Nat
      BY Lengths DEF TypeCorrect
    <2> QED
      BY <2>1, AtFront
  <1>4. Len(bytes) <= Len(next)
    BY <1>3, Lengths, LenProperties
  <1>5. call.op = "rio_readlineb" => NextLine(next, Len(bytes)) = bytes
    BY <1>3, <1>4, LineAtFront
  <1>6. next = SubSeq(message, Len(received) + 1, Len(message))
    BY DEF Rest, GotAt
  <1> HIDE DEF next
  <1> QED
    BY <1>2, <1>3, <1>5, <1>6 DEF CallReturns, GotAt

-----------------------------------------------------------------------------
(* The steps.                                                              *)

\* Rio_readlineb has room for a line of two bytes at least, or none.
LEMMA LineOpen ==
    ASSUME TypeCorrect, CallOpen, call.op = "rio_readlineb", call.n > 1
    PROVE  /\ Wanted \in Nat /\ Wanted >= 2
           /\ \A i \in 1 .. Len(call.got) : call.got[i] # NL
  <1>1. Len(call.got) \in Nat /\ (call.got = <<>> => Len(call.got) = 0)
    BY EmptySeq, LenProperties DEF TypeCorrect
  <1> QED
    BY <1>1 DEF TypeCorrect, CallOpen, Wanted

\* A step of the reader's call keeps the bytes, and if the call returns then
\* with what comes next.
StepRight ==
    /\ TypeCorrect' /\ Intact' /\ CallOpen'
    /\ call # NoCall /\ call' = NoCall => CallReturns

\* That follows from what it does to the bytes it has got, and to those that
\* it leaves in the buffer and in the kernel.
LEMMA Moved ==
    ASSUME Inv, NEW bytes \in Seq(Bytes), At(message, bytes, GotAt),
           NEW enough \in BOOLEAN, Got(bytes, enough),
           UNCHANGED <<message, unsent, closed>>,
           rio_buf' \in Seq(Bytes), kernel' \in Seq(Bytes),
           At(message, rio_buf', GotAt + Len(bytes)),
           At(message, kernel', GotAt + Len(bytes) + Len(rio_buf')),
           GotAt + Len(bytes) + Len(rio_buf') + Len(kernel') = UnsentAt
    PROVE  /\ TypeCorrect' /\ Intact'
           /\ GotAt + Len(bytes) <= Len(message)
  <1> USE DEF Inv
  <1>1. /\ received' \in Seq(Bytes) /\ At(message, received', 0)
        /\ call' \in [op  : {"none", "rio_readn", "rio_readnb", "rio_readlineb"},
                      n   : Nat,
                      got : Seq(Bytes)]
        /\ At(message, call'.got, Len(received'))
        /\ Len(received') + Len(call'.got) = GotAt + Len(bytes)
        /\ result'.op \in {"none", "rio_readn", "rio_readnb", "rio_readlineb"}
    BY GotBytes DEF Intact
  <1>2. TypeCorrect'
    BY <1>1 DEF TypeCorrect
  <1>3. /\ GotAt' = Len(received') /\ BufAt' = GotAt + Len(bytes)
        /\ KernelAt' = GotAt + Len(bytes) + Len(rio_buf')
        /\ UnsentAt' = UnsentAt
    BY <1>1 DEF GotAt, BufAt, KernelAt, UnsentAt
  <1>4. At(message, unsent, UnsentAt) /\ Len(message) = UnsentAt + Len(unsent)
    BY DEF Intact
  <1>5. Intact'
    BY <1>1, <1>3, <1>4 DEF Intact
  <1>6. GotAt + Len(bytes) <= Len(message)
    <2>1. /\ Len(rio_buf') \in Nat /\ Len(kernel') \in Nat /\ Len(bytes) \in Nat
          /\ Len(unsent) \in Nat /\ GotAt \in Nat
      BY Lengths, LenProperties
    <2> QED
      BY <1>4, <2>1
  <1> QED
    BY <1>2, <1>5, <1>6

LEMMA NoRoomRight ==
    ASSUME Inv, NoRoom PROVE StepRight
  <1> USE DEF Inv
  <1>1. /\ call.op = "rio_readlineb" /\ call.n <= 1 /\ call # NoCall
        /\ Got(<<>>, TRUE)
        /\ UNCHANGED <<message, unsent, kernel, closed, rio_buf>>
    <2>1. call.op = "rio_readlineb" /\ call.n <= 1 /\ Got(<<>>, TRUE)
      BY DEF NoRoom
    <2>2. UNCHANGED <<message, unsent, kernel, closed, rio_buf>>
      BY DEF NoRoom, stream
    <2>3. call # NoCall
      BY <2>1 DEF NoCall
    <2> QED
      BY <2>1, <2>2, <2>3
  <1>2. call.n = 1 /\ call.got = <<>> /\ Len(call.got) = 0
    BY <1>1, LenProperties, EmptySeq DEF CallOpen, TypeCorrect
  <1>3. <<>> \in Seq(Bytes) /\ Len(<<>>) = 0 /\ At(message, <<>>, GotAt)
    BY EmptySeq, AtEmpty
  <1>4. TypeCorrect' /\ Intact' /\ GotAt + Len(<<>>) <= Len(message)
    <2>1. /\ BufAt = GotAt + Len(<<>>) /\ KernelAt = GotAt + Len(<<>>) + Len(rio_buf)
          /\ GotAt + Len(<<>>) + Len(rio_buf) + Len(kernel) = UnsentAt
      BY <1>2, <1>3, Lengths DEF BufAt, KernelAt, UnsentAt
    <2>2. /\ At(message, rio_buf', GotAt + Len(<<>>))
          /\ At(message, kernel', GotAt + Len(<<>>) + Len(rio_buf'))
          /\ GotAt + Len(<<>>) + Len(rio_buf') + Len(kernel') = UnsentAt
      BY <1>1, <2>1 DEF Intact
    <2>3. rio_buf' \in Seq(Bytes) /\ kernel' \in Seq(Bytes)
      BY <1>1 DEF TypeCorrect
    <2> QED
      BY <1>1, <1>3, <2>2, <2>3, Moved
  <1>5. CallReturns
    <2>1. \A i \in 1 .. (Len(<<>>) - 1) : <<>>[i] # NL
      BY <1>3
    <2>2. Len(<<>>) = IF call.op = "rio_readlineb" THEN call.n - 1 ELSE call.n
      BY <1>1, <1>2, <1>3
    <2> QED
      BY <1>1, <1>3, <1>4, <2>1, <2>2, ReturnsRight
  <1>6. CallOpen'
    BY <1>1 DEF Got, CallOpen, NoCall
  <1> QED
    BY <1>4, <1>5, <1>6 DEF StepRight

LEMMA RefillRight ==
    ASSUME Inv, Refill PROVE StepRight
  <1> USE DEF Inv
  <1>1. PICK k \in 1 .. Least(Len(kernel), RIO_BUFSIZE) :
           rio_buf' = First(kernel, k) /\ kernel' = Rest(kernel, k)
    BY DEF Refill
  <1>2. /\ rio_buf = <<>>
        /\ UNCHANGED <<message, unsent, closed, call, result, received>>
    BY DEF Refill
  <1>3. k \in 0 .. Len(kernel) /\ Len(rio_buf) = 0
    BY <1>1, <1>2, RioAssumption, EmptySeq, Lengths DEF Least
  <1>4. /\ rio_buf' \in Seq(Bytes) /\ kernel' \in Seq(Bytes)
        /\ Len(rio_buf') = k /\ Len(kernel') = Len(kernel) - k
    <2>1. kernel \in Seq(Bytes)
      BY DEF TypeCorrect
    <2> QED
      BY <1>1, <1>3, <2>1, FirstRest
  <1>5. At(message, rio_buf', KernelAt) /\ At(message, kernel', KernelAt + k)
    <2>1. kernel \in Seq(Bytes) /\ KernelAt \in Nat /\ At(message, kernel, KernelAt)
      BY Lengths DEF TypeCorrect, Intact
    <2> QED
      BY <1>1, <1>3, <2>1, AtParts
  <1>6. /\ GotAt' = GotAt /\ BufAt' = BufAt /\ BufAt = KernelAt
        /\ KernelAt' = KernelAt + k /\ UnsentAt' = UnsentAt
    BY <1>2, <1>3, <1>4, Lengths DEF GotAt, BufAt, KernelAt, UnsentAt
  <1>7. TypeCorrect'
    BY <1>2, <1>4 DEF TypeCorrect
  <1>8. Intact'
    BY <1>2, <1>5, <1>6 DEF Intact
  <1>9. CallOpen'
    BY <1>2 DEF CallOpen
  <1> QED
    BY <1>2, <1>7, <1>8, <1>9 DEF StepRight

LEMMA TakeByteRight ==
    ASSUME Inv, TakeByte PROVE StepRight
  <1> USE DEF Inv
  <1> DEFINE byte   == Head(rio_buf)
             bytes  == Append(call.got, byte)
             after  == Tail(rio_buf)
             enough == (byte = NL \/ Wanted = 2)
  <1>1. /\ call.op = "rio_readlineb" /\ call.n > 1 /\ rio_buf # <<>> /\ call # NoCall
        /\ Got(bytes, enough) /\ rio_buf' = after /\ kernel' = kernel
        /\ UNCHANGED <<message, unsent, closed>>
    BY DEF TakeByte, NoCall, stream
  <1>2. /\ call.got \in Seq(Bytes) /\ rio_buf \in Seq(Bytes)
        /\ Len(call.got) \in Nat /\ Len(rio_buf) \in Nat \ {0}
    BY <1>1, Lengths, EmptySeq DEF TypeCorrect
  <1>3. /\ byte \in Bytes /\ byte = rio_buf[1]
        /\ after \in Seq(Bytes) /\ Len(after) = Len(rio_buf) - 1
        /\ \A i \in 1 .. Len(after) : after[i] = rio_buf[i + 1]
    BY <1>1, <1>2, HeadTailProperties
  <1>4. /\ bytes \in Seq(Bytes) /\ Len(bytes) = Len(call.got) + 1
        /\ \A i \in 1 .. Len(call.got) : bytes[i] = call.got[i]
        /\ bytes[Len(call.got) + 1] = byte
    BY <1>2, <1>3, AppendProperties
  <1>5. /\ \A i \in 1 .. Len(call.got) : message[GotAt + i] = call.got[i]
        /\ \A i \in 1 .. Len(rio_buf) : message[BufAt + i] = rio_buf[i]
        /\ GotAt \in Nat /\ BufAt = GotAt + Len(call.got)
    BY Lengths DEF Intact, At, BufAt
  <1>6. /\ Wanted \in Nat /\ Wanted >= 2
        /\ \A i \in 1 .. Len(call.got) : call.got[i] # NL
    BY <1>1, LineOpen
  <1> HIDE DEF byte, bytes, after
  <1>7. At(message, bytes, GotAt)
    <2>1. message[GotAt + (Len(call.got) + 1)] = byte
      <3>1. 1 \in 1 .. Len(rio_buf) /\ GotAt + (Len(call.got) + 1) = BufAt + 1
        BY <1>2, <1>5
      <3> QED
        BY <1>3, <1>5, <3>1
    <2>2. ASSUME NEW i \in 1 .. Len(bytes) PROVE message[GotAt + i] = bytes[i]
      <3>1. i \in 1 .. Len(call.got) \/ i = Len(call.got) + 1
        BY <1>2, <1>4
      <3> QED
        BY <1>4, <1>5, <2>1, <3>1
    <2> QED
      BY <2>2 DEF At
  <1>8. At(message, after, GotAt + Len(bytes))
    <2>1. At(message, after, BufAt + 1)
      <3>1. BufAt \in Nat /\ At(message, rio_buf, BufAt)
        BY Lengths DEF Intact
      <3> QED
        BY <1>1, <1>2, <3>1, AtTail DEF after
    <2>2. /\ Len(bytes) = Len(call.got) + 1 /\ BufAt = GotAt + Len(call.got)
          /\ GotAt \in Nat /\ Len(call.got) \in Nat
      BY <1>2, <1>4, <1>5
    <2>3. GotAt + Len(bytes) = BufAt + 1
      BY <2>2
    <2> QED
      BY <2>1, <2>3
  <1>9. TypeCorrect' /\ Intact' /\ GotAt + Len(bytes) <= Len(message)
    <2>1. /\ KernelAt = GotAt + Len(bytes) + Len(after)
          /\ GotAt + Len(bytes) + Len(after) + Len(kernel) = UnsentAt
      <3>1. /\ Len(after) = Len(rio_buf) - 1 /\ Len(bytes) = Len(call.got) + 1
            /\ GotAt \in Nat /\ BufAt = GotAt + Len(call.got)
        BY <1>3, <1>4, <1>5
      <3> QED
        BY <1>2, <3>1, Lengths DEF KernelAt, UnsentAt
    <2>2. /\ At(message, rio_buf', GotAt + Len(bytes))
          /\ At(message, kernel', GotAt + Len(bytes) + Len(rio_buf'))
          /\ GotAt + Len(bytes) + Len(rio_buf') + Len(kernel') = UnsentAt
      BY <1>1, <1>8, <2>1 DEF Intact
    <2>3. rio_buf' \in Seq(Bytes) /\ kernel' \in Seq(Bytes)
      BY <1>1, <1>3 DEF TypeCorrect
    <2> QED
      BY <1>1, <1>4, <1>7, <2>2, <2>3, Moved
  <1>12. /\ Wanted = call.n - Len(call.got) /\ call.n \in Nat
         /\ Len(bytes) = Len(call.got) + 1
    BY <1>4, Lengths DEF Wanted
  <1>10. CASE enough
    <2>1. Got(bytes, TRUE)
      BY <1>1, <1>10
    <2>2. \A i \in 1 .. (Len(bytes) - 1) : bytes[i] # NL
      BY <1>2, <1>4, <1>6
    <2>3. \/ Len(bytes) = call.n - 1
          \/ bytes # <<>> /\ Last(bytes) = NL
      <3>1. bytes # <<>> /\ Last(bytes) = byte
        BY <1>2, <1>4, EmptySeq DEF Last
      <3>2. Wanted = 2 => Len(bytes) = call.n - 1
        BY <1>2, <1>12
      <3> QED
        BY <1>10, <3>1, <3>2
    <2>4. CallReturns
      BY <1>1, <1>4, <1>7, <1>9, <2>1, <2>2, <2>3, ReturnsRight
    <2>5. CallOpen'
      BY <2>1 DEF Got, CallOpen, NoCall
    <2> QED
      BY <1>9, <2>4, <2>5 DEF StepRight
  <1>11. CASE ~enough
    <2>1. call' = [call EXCEPT !.got = bytes]
      BY <1>1, <1>11 DEF Got
    <2>2. call'.op = call.op /\ call'.n = call.n /\ call'.got = bytes
      BY <2>1 DEF TypeCorrect
    <2>3. \A i \in 1 .. Len(bytes) : bytes[i] # NL
      BY <1>2, <1>4, <1>6, <1>11
    <2>4. Len(bytes) + 1 < call.n
      BY <1>2, <1>6, <1>11, <1>12
    <2>5. CallOpen' /\ call' # NoCall
      BY <1>1, <2>2, <2>3, <2>4, Lengths DEF CallOpen, NoCall
    <2> QED
      BY <1>9, <2>5 DEF StepRight
  <1> QED
    BY <1>10, <1>11

\* A call for n bytes has got fewer, and goes on or returns.
LEMMA SomeBytesRight ==
    ASSUME Inv, call.op \in {"rio_readn", "rio_readnb"},
           NEW bytes \in Seq(Bytes), At(message, bytes, GotAt),
           GotAt + Len(bytes) <= Len(message), Len(bytes) <= call.n,
           Got(bytes, Len(bytes) = call.n), TypeCorrect', Intact',
           UNCHANGED closed
    PROVE  StepRight
  <1> USE DEF Inv
  <1>1. call # NoCall
    BY DEF NoCall
  <1>2. CASE Len(bytes) = call.n
    <2>1. Got(bytes, TRUE)
      BY <1>2
    <2>2. CallReturns
      BY <1>2, <2>1, ReturnsRight
    <2>3. CallOpen'
      BY <2>1 DEF Got, CallOpen, NoCall
    <2> QED
      BY <2>2, <2>3 DEF StepRight
  <1>3. CASE Len(bytes) # call.n
    <2>1. call' = [call EXCEPT !.got = bytes]
      BY <1>3 DEF Got
    <2>2. call'.op = call.op /\ call'.n = call.n /\ call'.got = bytes
      BY <2>1 DEF TypeCorrect
    <2>3. Len(bytes) < call.n
      BY <1>3, Lengths, LenProperties
    <2>4. CallOpen' /\ call' # NoCall
      BY <1>1, <2>2, <2>3 DEF CallOpen, NoCall
    <2> QED
      BY <2>4 DEF StepRight
  <1> QED
    BY <1>2, <1>3

LEMMA TakeBytesRight ==
    ASSUME Inv, TakeBytes PROVE StepRight
  <1> USE DEF Inv
  <1> DEFINE cnt   == Least(Wanted, Len(rio_buf))
             front == First(rio_buf, cnt)
             bytes == call.got \o front
             after == Rest(rio_buf, cnt)
  <1>1. /\ call.op = "rio_readnb" /\ Got(bytes, cnt = Wanted)
        /\ rio_buf' = after /\ kernel' = kernel
        /\ UNCHANGED <<message, unsent, closed>>
    BY DEF TakeBytes, stream
  <1>2. /\ call.got \in Seq(Bytes) /\ rio_buf \in Seq(Bytes)
        /\ Len(call.got) \in Nat /\ Len(rio_buf) \in Nat /\ GotAt \in Nat /\ BufAt \in Nat
        /\ BufAt = GotAt + Len(call.got) /\ call.n \in Nat
    BY Lengths DEF TypeCorrect, BufAt
  <1>3. Wanted \in Nat /\ Wanted = call.n - Len(call.got)
    BY <1>1, <1>2 DEF Wanted, CallOpen
  <1>4. cnt \in 0 .. Len(rio_buf) /\ cnt <= Wanted
    BY <1>2, <1>3 DEF Least
  <1>5. /\ front \in Seq(Bytes) /\ after \in Seq(Bytes)
        /\ Len(front) = cnt /\ Len(after) = Len(rio_buf) - cnt
    BY <1>2, <1>4, FirstRest
  <1>6. At(message, call.got, GotAt) /\ At(message, rio_buf, BufAt)
    BY DEF Intact
  <1>7. At(message, front, GotAt + Len(call.got)) /\ At(message, after, BufAt + cnt)
    BY <1>2, <1>4, <1>6, AtParts
  <1> HIDE DEF cnt, front, after
  <1>8. bytes \in Seq(Bytes) /\ Len(bytes) = Len(call.got) + cnt /\ At(message, bytes, GotAt)
    <2>1. /\ call.got \in Seq(Bytes) /\ front \in Seq(Bytes) /\ GotAt \in Nat
          /\ At(message, call.got, GotAt) /\ At(message, front, GotAt + Len(call.got))
      BY <1>2, <1>5, <1>6, <1>7
    <2>2. /\ bytes \in Seq(Bytes) /\ Len(bytes) = Len(call.got) + Len(front)
          /\ At(message, bytes, GotAt)
      BY <2>1, AtConcat
    <2> QED
      BY <1>5, <2>2
  <1> HIDE DEF bytes
  <1>9. TypeCorrect' /\ Intact' /\ GotAt + Len(bytes) <= Len(message)
    <2>1. /\ BufAt + cnt = GotAt + Len(bytes)
          /\ KernelAt = GotAt + Len(bytes) + Len(after)
          /\ GotAt + Len(bytes) + Len(after) + Len(kernel) = UnsentAt
      BY <1>2, <1>4, <1>5, <1>8, Lengths DEF KernelAt, UnsentAt
    <2>2. /\ At(message, rio_buf', GotAt + Len(bytes))
          /\ At(message, kernel', GotAt + Len(bytes) + Len(rio_buf'))
          /\ GotAt + Len(bytes) + Len(rio_buf') + Len(kernel') = UnsentAt
      BY <1>1, <1>7, <2>1 DEF Intact
    <2>3. rio_buf' \in Seq(Bytes) /\ kernel' \in Seq(Bytes) /\ (cnt = Wanted) \in BOOLEAN
      BY <1>1, <1>5 DEF TypeCorrect
    <2> QED
      BY <1>1, <1>8, <2>2, <2>3, Moved
  <1>10. Len(bytes) <= call.n /\ (cnt = Wanted) = (Len(bytes) = call.n)
    BY <1>2, <1>3, <1>4, <1>8
  <1> QED
    BY <1>1, <1>8, <1>9, <1>10, SomeBytesRight

LEMMA ReadSomeRight ==
    ASSUME Inv, rio_buf = <<>>, ReadSome PROVE StepRight
  <1> USE DEF Inv
  <1>1. PICK k \in 1 .. Least(Len(kernel), Wanted) :
           /\ Got(call.got \o First(kernel, k), k = Wanted)
           /\ kernel' = Rest(kernel, k)
    BY DEF ReadSome
  <1> DEFINE front == First(kernel, k)
             bytes == call.got \o front
             after == Rest(kernel, k)
  <1>2. /\ call.op = "rio_readn" /\ Got(bytes, k = Wanted) /\ kernel' = after
        /\ UNCHANGED <<message, unsent, closed, rio_buf>>
    BY <1>1 DEF ReadSome
  <1>3. /\ call.got \in Seq(Bytes) /\ kernel \in Seq(Bytes)
        /\ Len(call.got) \in Nat /\ Len(kernel) \in Nat /\ GotAt \in Nat
        /\ KernelAt = GotAt + Len(call.got) /\ call.n \in Nat /\ Len(rio_buf) = 0
    BY Lengths, EmptySeq DEF TypeCorrect, BufAt, KernelAt
  <1>4. Wanted \in Nat /\ Wanted = call.n - Len(call.got)
    BY <1>2, <1>3 DEF Wanted, CallOpen
  <1>5. k \in 0 .. Len(kernel) /\ k <= Wanted
    BY <1>1, <1>3, <1>4 DEF Least
  <1>6. /\ front \in Seq(Bytes) /\ after \in Seq(Bytes)
        /\ Len(front) = k /\ Len(after) = Len(kernel) - k
    BY <1>3, <1>5, FirstRest
  <1>7. At(message, call.got, GotAt) /\ At(message, kernel, KernelAt)
    BY DEF Intact
  <1>8. At(message, front, GotAt + Len(call.got)) /\ At(message, after, KernelAt + k)
    <2>1. kernel \in Seq(Bytes) /\ KernelAt \in Nat /\ k \in 0 .. Len(kernel)
      BY <1>3, <1>5
    <2>2. At(message, front, KernelAt) /\ At(message, after, KernelAt + k)
      BY <1>7, <2>1, AtParts
    <2> QED
      BY <1>3, <2>2
  <1> HIDE DEF front, after
  <1>9. bytes \in Seq(Bytes) /\ Len(bytes) = Len(call.got) + k /\ At(message, bytes, GotAt)
    <2>1. /\ call.got \in Seq(Bytes) /\ front \in Seq(Bytes) /\ GotAt \in Nat
          /\ At(message, call.got, GotAt) /\ At(message, front, GotAt + Len(call.got))
      BY <1>3, <1>6, <1>7, <1>8
    <2>2. /\ bytes \in Seq(Bytes) /\ Len(bytes) = Len(call.got) + Len(front)
          /\ At(message, bytes, GotAt)
      BY <2>1, AtConcat
    <2> QED
      BY <1>6, <2>2
  <1> HIDE DEF bytes
  <1>10. TypeCorrect' /\ Intact' /\ GotAt + Len(bytes) <= Len(message)
    <2>1. /\ KernelAt + k = GotAt + Len(bytes) + Len(rio_buf)
          /\ GotAt + Len(bytes) + Len(rio_buf) + Len(after) = UnsentAt
      BY <1>3, <1>5, <1>6, <1>9 DEF UnsentAt
    <2>2. /\ At(message, rio_buf', GotAt + Len(bytes))
          /\ At(message, kernel', GotAt + Len(bytes) + Len(rio_buf'))
          /\ GotAt + Len(bytes) + Len(rio_buf') + Len(kernel') = UnsentAt
      BY <1>2, <1>8, <2>1, AtEmpty
    <2>3. rio_buf' \in Seq(Bytes) /\ kernel' \in Seq(Bytes) /\ (k = Wanted) \in BOOLEAN
      BY <1>2, <1>6 DEF TypeCorrect
    <2> QED
      BY <1>2, <1>9, <2>2, <2>3, Moved
  <1>11. Len(bytes) <= call.n /\ (k = Wanted) = (Len(bytes) = call.n)
    <2>1. /\ Len(bytes) = Len(call.got) + k /\ Len(call.got) \in Nat /\ call.n \in Nat
          /\ Wanted = call.n - Len(call.got) /\ k \in Nat /\ k <= Wanted
      BY <1>3, <1>4, <1>5, <1>9
    <2> QED
      BY <2>1
  <1> QED
    BY <1>2, <1>9, <1>10, <1>11, SomeBytesRight

LEMMA EndOfFileRight ==
    ASSUME Inv, EndOfFile PROVE StepRight
  <1> USE DEF Inv
  <1>1. /\ call # NoCall /\ rio_buf = <<>> /\ kernel = <<>> /\ closed
        /\ Got(call.got, TRUE)
        /\ UNCHANGED <<message, unsent, kernel, closed, rio_buf>>
    BY DEF EndOfFile, stream
  <1>2. /\ call.got \in Seq(Bytes) /\ Len(call.got) \in Nat /\ GotAt \in Nat
        /\ Len(rio_buf) = 0 /\ Len(kernel) = 0 /\ Len(unsent) \in Nat
        /\ UnsentAt = GotAt + Len(call.got) /\ Len(message) = UnsentAt + Len(unsent)
        /\ At(message, call.got, GotAt)
    BY <1>1, Lengths, EmptySeq DEF Intact, BufAt, KernelAt, UnsentAt
  <1>3. TypeCorrect' /\ Intact' /\ GotAt + Len(call.got) <= Len(message)
    <2>1. /\ At(message, rio_buf', GotAt + Len(call.got))
          /\ At(message, kernel', GotAt + Len(call.got) + Len(rio_buf'))
          /\ GotAt + Len(call.got) + Len(rio_buf') + Len(kernel') = UnsentAt
      BY <1>1, <1>2, AtEmpty
    <2>2. rio_buf' \in Seq(Bytes) /\ kernel' \in Seq(Bytes)
      BY <1>1 DEF TypeCorrect
    <2> QED
      BY <1>1, <1>2, <2>1, <2>2, Moved
  <1>4. CallReturns
    <2>1. call.op = "rio_readlineb" => \A i \in 1 .. (Len(call.got) - 1) : call.got[i] # NL
      BY <1>2 DEF CallOpen
    <2>2. closed /\ GotAt + Len(call.got) = Len(message) - Len(unsent)
      BY <1>1, <1>2
    <2> QED
      BY <1>1, <1>2, <1>3, <2>1, <2>2, ReturnsRight
  <1>5. CallOpen'
    BY <1>1 DEF Got, CallOpen, NoCall
  <1> QED
    BY <1>3, <1>4, <1>5 DEF StepRight

-----------------------------------------------------------------------------
(* The specification.                                                      *)

LEMMA NewConnection ==
    ASSUME NEW msg \in Message \cup Request \cup {<<>>}, Connected(msg)
    PROVE  TypeCorrect' /\ Intact' /\ CallOpen'
  <1>1. /\ message' = msg /\ unsent' = msg /\ kernel' = <<>> /\ rio_buf' = <<>>
        /\ call' = NoCall /\ result' = NoCall /\ received' = <<>>
    BY DEF Connected
  <1>2. msg \in Seq(Bytes) /\ Len(msg) \in Nat
    BY MessageType, EmptySeq, LenProperties
  <1>3. TypeCorrect'
    BY <1>1, <1>2, EmptySeq DEF TypeCorrect, NoCall
  <1>4. GotAt' = 0 /\ BufAt' = 0 /\ KernelAt' = 0 /\ UnsentAt' = 0
    BY <1>1, EmptySeq DEF GotAt, BufAt, KernelAt, UnsentAt, NoCall
  <1>5. At(msg, msg, 0)
    BY <1>2 DEF At
  <1>6. Intact'
    BY <1>1, <1>2, <1>4, <1>5, AtEmpty DEF Intact, NoCall
  <1>7. CallOpen'
    BY <1>1 DEF CallOpen, NoCall
  <1> QED
    BY <1>3, <1>6, <1>7

LEMMA Initial == Init => Inv
  <1> SUFFICES ASSUME Init PROVE Inv
    OBVIOUS
  <1>1. PICK msg \in Message \cup Request \cup {<<>>} : InitRio(msg)
    BY DEF Init
  <1>2. /\ message = msg /\ unsent = msg /\ kernel = <<>> /\ rio_buf = <<>>
        /\ call = NoCall /\ result = NoCall /\ received = <<>>
    BY <1>1 DEF InitRio
  <1>3. msg \in Seq(Bytes) /\ Len(msg) \in Nat
    BY MessageType, EmptySeq, LenProperties
  <1>4. TypeCorrect
    BY <1>2, <1>3, EmptySeq DEF TypeCorrect, NoCall
  <1>5. GotAt = 0 /\ BufAt = 0 /\ KernelAt = 0 /\ UnsentAt = 0
    BY <1>2, EmptySeq DEF GotAt, BufAt, KernelAt, UnsentAt, NoCall
  <1>6. At(msg, msg, 0)
    BY <1>3 DEF At
  <1>7. Intact
    BY <1>2, <1>3, <1>5, <1>6, AtEmpty DEF Intact, NoCall
  <1>8. CallOpen /\ Unmixed
    BY <1>2 DEF CallOpen, NoCall, Unmixed, Init
  <1> QED
    BY <1>4, <1>7, <1>8 DEF Inv

LEMMA ReadStepRight ==
    ASSUME Inv, ReadStep PROVE StepRight
  <1>1. ReadSome => rio_buf = <<>>
    BY DEF Inv, Unmixed, ReadSome
  <1> QED
    BY <1>1, NoRoomRight, RefillRight, TakeByteRight, TakeBytesRight, ReadSomeRight,
       EndOfFileRight DEF ReadStep

\* A call that has begun has got nothing.
LEMMA BeginRight ==
    ASSUME Inv, NEW op \in {"rio_readn", "rio_readnb", "rio_readlineb"},
           NEW n \in Nat \ {0}, Begin(op, n)
    PROVE  StepRight
  <1> USE DEF Inv
  <1>1. /\ call' = [op |-> op, n |-> n, got |-> <<>>] /\ call = NoCall
        /\ UNCHANGED <<message, unsent, kernel, rio_buf, result, received>>
    BY DEF Begin, stream
  <1>2. call.got = <<>> /\ call'.got = <<>> /\ Len(<<>>) = 0 /\ <<>> \in Seq(Bytes)
    BY <1>1, EmptySeq DEF NoCall
  <1>3. TypeCorrect'
    BY <1>1, <1>2 DEF TypeCorrect
  <1>4. GotAt' = GotAt /\ BufAt' = BufAt /\ KernelAt' = KernelAt /\ UnsentAt' = UnsentAt
    BY <1>1, <1>2 DEF GotAt, BufAt, KernelAt, UnsentAt
  <1>5. Intact'
    BY <1>1, <1>2, <1>4 DEF Intact
  <1>6. CallOpen'
    BY <1>1, <1>2 DEF CallOpen, NoCall
  <1> QED
    BY <1>1, <1>3, <1>5, <1>6 DEF StepRight

LEMMA WriteRight ==
    ASSUME Inv, Write PROVE StepRight
  <1> USE DEF Inv
  <1>1. PICK k \in 1 .. Least(Len(unsent), Kernel - Len(kernel)) :
           kernel' = kernel \o First(unsent, k) /\ unsent' = Rest(unsent, k)
    BY DEF Write
  <1> DEFINE front == First(unsent, k)
  <1>2. UNCHANGED <<message, rio_buf, call, result, received>>
    BY DEF Write, reader
  <1>3. /\ unsent \in Seq(Bytes) /\ kernel \in Seq(Bytes)
        /\ Len(unsent) \in Nat /\ Len(kernel) \in Nat
        /\ KernelAt \in Nat /\ UnsentAt \in Nat /\ UnsentAt = KernelAt + Len(kernel)
    BY Lengths DEF TypeCorrect, UnsentAt
  <1>4. k \in 0 .. Len(unsent)
    BY <1>1, <1>3, RioAssumption DEF Least
  <1>5. /\ front \in Seq(Bytes) /\ unsent' \in Seq(Bytes)
        /\ Len(front) = k /\ Len(unsent') = Len(unsent) - k
    BY <1>1, <1>3, <1>4, FirstRest
  <1>6. At(message, kernel, KernelAt) /\ At(message, unsent, UnsentAt)
    BY DEF Intact
  <1>7. At(message, front, UnsentAt) /\ At(message, unsent', UnsentAt + k)
    BY <1>1, <1>3, <1>4, <1>6, AtParts
  <1> HIDE DEF front
  <1>8. /\ kernel' \in Seq(Bytes) /\ Len(kernel') = Len(kernel) + k
        /\ At(message, kernel', KernelAt)
    <2>1. /\ kernel \in Seq(Bytes) /\ front \in Seq(Bytes) /\ KernelAt \in Nat
          /\ At(message, kernel, KernelAt) /\ At(message, front, KernelAt + Len(kernel))
      BY <1>3, <1>5, <1>6, <1>7
    <2>2. /\ kernel \o front \in Seq(Bytes) /\ Len(kernel \o front) = Len(kernel) + Len(front)
          /\ At(message, kernel \o front, KernelAt)
      BY <2>1, AtConcat
    <2>3. kernel' = kernel \o front
      BY <1>1 DEF front
    <2> QED
      BY <1>5, <2>2, <2>3
  <1>9. TypeCorrect'
    BY <1>2, <1>5, <1>8 DEF TypeCorrect
  <1>10. /\ GotAt' = GotAt /\ BufAt' = BufAt /\ KernelAt' = KernelAt
         /\ UnsentAt' = KernelAt + Len(kernel')
    BY <1>2 DEF GotAt, BufAt, KernelAt, UnsentAt
  <1>11. UnsentAt' = UnsentAt + k /\ Len(message) = UnsentAt' + Len(unsent')
    <2>1. Len(message) = UnsentAt + Len(unsent)
      BY DEF Intact
    <2>2. k \in Nat /\ UnsentAt \in Nat /\ Len(unsent) \in Nat /\ KernelAt \in Nat /\ Len(kernel) \in Nat
      BY <1>3, <1>4
    <2>3. UnsentAt' = UnsentAt + k
      BY <1>3, <1>8, <1>10, <2>2
    <2> QED
      BY <1>5, <2>1, <2>2, <2>3
  <1>12. Intact'
    BY <1>2, <1>7, <1>8, <1>10, <1>11 DEF Intact
  <1>13. CallOpen'
    BY <1>2 DEF CallOpen
  <1> QED
    BY <1>2, <1>9, <1>12, <1>13 DEF StepRight

LEMMA OtherRight ==
    ASSUME Inv, UNCHANGED <<message, unsent, kernel, reader>>
    PROVE  StepRight
  <1>1. UNCHANGED <<message, unsent, kernel, rio_buf, call, result, received>>
    BY DEF reader
  <1>2. TypeCorrect'
    BY <1>1 DEF Inv, TypeCorrect
  <1>3. Intact'
    BY <1>1 DEF Inv, Intact, GotAt, BufAt, KernelAt, UnsentAt
  <1>4. CallOpen'
    BY <1>1 DEF Inv, CallOpen
  <1> QED
    BY <1>1, <1>2, <1>3, <1>4 DEF StepRight

\* Nothing is read but in a call.
LEMMA OnlyInCalls == call = NoCall => ~ReadStep /\ ~ReadError
  <1> SUFFICES ASSUME call = NoCall PROVE ~ReadStep /\ ~ReadError
    OBVIOUS
  <1>1. call.op = "none"
    BY DEF NoCall
  <1> QED
    BY <1>1 DEF ReadStep, NoRoom, Refill, TakeByte, TakeBytes, ReadSome, EndOfFile, ReadError,
           Buffered

\* A read that fails ends the program.
Fails == Stopped' /\ closed

LEMMA ReadErrorRight ==
    ASSUME Inv, ReadError, UNCHANGED user, user \in {"buffered", "unbuffered", "tiny"},
           user = "tiny" => pc' = "Rio_readlineb error"
    PROVE  Fails
  <1>1. /\ closed /\ result' = [call EXCEPT !.op = "error"] /\ call' = NoCall
        /\ UNCHANGED <<message, received>>
    BY DEF ReadError, stream
  <1>2. result'.op = "error" /\ result'.got = call.got
    BY <1>1 DEF Inv, TypeCorrect
  <1>3. At(message, received, 0) /\ At(message, call.got, GotAt) /\ GotAt' = GotAt
    BY <1>1 DEF Inv, Intact, GotAt
  <1>4. Broken'
    BY <1>1, <1>2, <1>3 DEF Broken
  <1> QED
    BY <1>1, <1>2, <1>4 DEF Fails, Stopped

\* Then nothing happens but to the connection.
LEMMA StaysStopped ==
    ASSUME Stopped, [Next]_vars PROVE Stopped' /\ call' = call
  <1>1. UNCHANGED <<user, message, reader>> /\ (user = "tiny" => UNCHANGED pc)
    <2>1. ~ReadStep /\ ~ReadError
      BY OnlyInCalls DEF Stopped
    <2>2. CASE Calls
      <3>1. ~Call
        BY DEF Stopped, Call
      <3> QED
        BY <2>1, <2>2, <3>1 DEF Calls, Write, Close, Interrupted, stream, Stopped
    <2>3. CASE Tinys
      <3>1. user = "tiny" /\ pc = "Rio_readlineb error" /\ UNCHANGED user
        BY <2>3 DEF Tinys, Stopped
      <3>2. ~TinyStep /\ ~Client
        BY <2>1, <3>1 DEF TinyStep, Client, Errors, Accept, AcceptFails, ReadLine, Reading,
              ReadingFails, RequestLine, HeaderLine, Serve, clienterror, StaticHeaders,
              StaticBody, DynamicHeaders, Fork, WaitForChild, CloseConnection
      <3> QED
        BY <2>3, <3>1, <3>2 DEF Tinys, Child, stream
    <2>4. CASE Parse \/ UNCHANGED vars
      BY <2>4 DEF Parse, Stopped, vars, stream, tiny
    <2> QED
      BY <2>2, <2>3, <2>4 DEF Next
  <1>2. UNCHANGED <<user, message, call, result, received>>
    BY <1>1 DEF reader
  <1>3. Broken'
    BY <1>2 DEF Stopped, Broken, GotAt
  <1> QED
    BY <1>1, <1>2, <1>3 DEF Stopped

\* Every step of the specification.
LEMMA Step ==
    ASSUME Inv, [Next]_vars PROVE (StepRight /\ Unmixed') \/ Fails
  <1> USE DEF Inv
  <1>1. CASE Calls
    <2>1. UNCHANGED user /\ user \in {"buffered", "unbuffered"}
      BY <1>1 DEF Calls
    <2>2. CASE Call
      <3>1. PICK n \in Length :
               \/ user = "buffered" /\ (Begin("rio_readlineb", n) \/ Begin("rio_readnb", n))
               \/ user = "unbuffered" /\ Begin("rio_readn", n)
        BY <2>2 DEF Call
      <3>2. n \in Nat \ {0}
        BY NetworkAssumption
      <3>3. StepRight
        BY <3>1, <3>2, BeginRight
      <3>4. Unmixed'
        BY <2>1, <3>1 DEF Unmixed, Begin
      <3> QED
        BY <3>3, <3>4
    <2>3. CASE ReadStep
      <3>1. StepRight
        BY <2>3, ReadStepRight
      <3>2. call'.op \in {"none", call.op}
        BY <2>3 DEF ReadStep, NoRoom, Refill, TakeByte, TakeBytes, ReadSome, EndOfFile, Got, NoCall, TypeCorrect
      <3>3. user = "unbuffered" => rio_buf' = <<>>
        BY <2>3 DEF ReadStep, NoRoom, Refill, TakeByte, TakeBytes, ReadSome, EndOfFile, Buffered, Unmixed
      <3> QED
        BY <2>1, <3>1, <3>2, <3>3 DEF Unmixed
    <2>4. CASE Write
      BY <2>1, <2>4, WriteRight DEF Unmixed, Write, reader
    <2>5. CASE Close \/ Interrupted
      <3>1. UNCHANGED <<message, unsent, kernel, reader>>
        BY <2>5 DEF Close, Interrupted, stream
      <3> QED
        BY <2>1, <3>1, OtherRight DEF Unmixed, reader
    <2>6. CASE ReadError
      BY <2>1, <2>6, ReadErrorRight
    <2> QED
      BY <1>1, <2>2, <2>3, <2>4, <2>5, <2>6 DEF Calls
  <1>2. CASE Tinys
    <2>1. UNCHANGED user /\ user = "tiny"
      BY <1>2 DEF Tinys
    <2>2. CASE Accept
      <3>1. PICK msg \in Request : Connected(msg)
        BY <2>2 DEF Accept
      <3>2. TypeCorrect' /\ Intact' /\ CallOpen'
        BY <3>1, NewConnection
      <3>3. call = NoCall /\ call' = NoCall
        BY <2>1, <2>2, <3>1 DEF Unmixed, Accept, Connected
      <3> QED
        BY <2>1, <3>2, <3>3 DEF StepRight, Unmixed, NoCall
    <2>3. CASE ReadLine
      <3>1. /\ Begin("rio_readlineb", MAXLINE) /\ pc' \in {"line", "header"}
        BY <2>3 DEF ReadLine
      <3>2. StepRight
        BY <3>1, BeginRight, NetworkAssumption
      <3> QED
        BY <2>1, <3>1, <3>2 DEF Unmixed, Begin
    <2>4. CASE Reading
      <3>1. StepRight /\ pc' = pc
        BY <2>4, ReadStepRight DEF Reading, tiny
      <3>2. call'.op \in {"none", call.op} /\ call # NoCall
        BY <2>4 DEF Reading, ReadStep, NoRoom, Refill, TakeByte, TakeBytes, ReadSome, EndOfFile,
                    Got, NoCall, TypeCorrect, Buffered
      <3> QED
        BY <2>1, <3>1, <3>2 DEF Unmixed
    <2>8. CASE ReadingFails
      <3>1. ReadError /\ pc' = "Rio_readlineb error"
        BY <2>8 DEF ReadingFails
      <3> QED
        BY <2>1, <3>1, ReadErrorRight
    <2>5. CASE \/ AcceptFails \/ RequestLine \/ HeaderLine \/ Serve \/ clienterror \/ StaticHeaders \/ StaticBody
               \/ DynamicHeaders \/ Fork \/ WaitForChild \/ CloseConnection
      <3>1. UNCHANGED <<stream, reader>>
        BY <2>5 DEF AcceptFails, Dies, RequestLine, HeaderLine, Serve, clienterror, StaticHeaders,
                    StaticBody, DynamicHeaders, Fork, WaitForChild, CloseConnection, Sends
      <3>2. call = NoCall
        BY <2>1, <2>5 DEF Unmixed, AcceptFails, RequestLine, HeaderLine, Serve, clienterror,
                    StaticHeaders, StaticBody, DynamicHeaders, Fork, WaitForChild, CloseConnection
      <3>3. StepRight
        BY <3>1, OtherRight DEF stream
      <3> QED
        BY <2>1, <3>1, <3>2, <3>3 DEF Unmixed, reader
    <2>7. CASE Child
      <3>1. UNCHANGED <<stream, reader, pc>>
        BY <2>7 DEF Child
      <3> QED
        BY <2>1, <3>1, OtherRight DEF stream, reader, Unmixed
    <2>6. CASE Client
      <3>1. UNCHANGED pc
        BY <2>6 DEF Client, tiny
      <3>2. CASE Write
        BY <2>1, <3>1, <3>2, WriteRight DEF Unmixed, Write, reader
      <3>3. CASE Close \/ Interrupted
        <4>1. UNCHANGED <<message, unsent, kernel, reader>>
          BY <3>3 DEF Close, Interrupted, stream
        <4> QED
          BY <2>1, <3>1, <4>1, OtherRight DEF Unmixed, reader
      <3> QED
        BY <2>6, <3>2, <3>3 DEF Client
    <2> QED
      BY <1>2, <2>2, <2>3, <2>4, <2>5, <2>6, <2>7, <2>8 DEF Tinys, TinyStep
  <1>3. CASE Parse \/ UNCHANGED vars
    <2>1. UNCHANGED <<user, stream, reader, pc>>
      BY <1>3 DEF Parse, vars, tiny
    <2>2. StepRight
      BY <2>1, OtherRight DEF stream
    <2> QED
      BY <2>1, <2>2 DEF Unmixed, reader
  <1> QED
    BY <1>1, <1>2, <1>3 DEF Next

\* The inductive invariant.
LEMMA Always == (Inv \/ Stopped) /\ [Next]_vars => (Inv \/ Stopped)'
  BY Step, StaysStopped DEF StepRight, Inv, Fails

(* Whatever is read with whatever calls, and however it arrives, every     *)
(* byte that was sent is in one place: returned by a call, got by the call *)
(* that goes on, in the buffer, in the kernel, or not sent yet.  When a    *)
(* read has failed, the bytes that the process has are the first that were *)
(* sent.                                                                   *)
THEOREM NothingLost == Spec => [](IF result.op = "error" THEN Broken ELSE Intact)
  <1>1. Inv \/ Stopped => IF result.op = "error" THEN Broken ELSE Intact
    BY DEF Inv, TypeCorrect, Stopped
  <1> QED
    BY Initial, Always, <1>1, PTL DEF Spec

(* Every call of the Rio package returns the bytes that come next: a whole *)
(* line, or as many as it was asked for, and fewer only at the end of the  *)
(* message.  A call fails only when the peer has closed.                   *)
THEOREM CallsReturnNext == Spec => CallsRight
  <1>1. (Inv \/ Stopped) /\ [Next]_vars =>
          [(call # NoCall /\ call' = NoCall) =>
              IF result'.op = "error" THEN closed ELSE CallReturns]_vars
    <2> SUFFICES ASSUME Inv \/ Stopped, [Next]_vars, call # NoCall, call' = NoCall
                 PROVE  IF result'.op = "error" THEN closed ELSE CallReturns
      OBVIOUS
    <2>1. CASE Stopped
      BY <2>1 DEF Stopped
    <2>2. CASE Inv
      BY <2>2, Step DEF StepRight, TypeCorrect, Fails, Stopped
    <2> QED
      BY <2>1, <2>2
  <1> QED
    BY Initial, Always, <1>1, PTL DEF Spec, CallsRight

-----------------------------------------------------------------------------
(* What Tiny answers: the invariant says what the server knows of the      *)
(* request at each place.                                                  *)

\* What the first line of a request has told the server.
FirstLine ==
    /\ pc = "doit" => received = <<>>
    /\ pc = "line" /\ call = NoCall => result.got = received /\ (received # <<>> \/ closed)
    /\ pc = "line" /\ call # NoCall =>
          received = <<>> /\ call.op = "rio_readlineb" /\ call.n = MAXLINE
    /\ pc \in {"501", "headers", "header", "serve", "404", "403", "serve_static", "mmap",
               "serve_dynamic", "fork", "wait"} => closed \/ request = Head(message)

\* The answer is one to a client that has not gone.
Complete ==
    ~closed => /\ answer.status = StatusOf(Head(message))
               /\ answer.length # -1 => answer.body = answer.length

\* What is written at each place.
Answering ==
    /\ user # "tiny" => pc = "accept" /\ clients = 0
    /\ clients \in Nat
    /\ answer \in [status : Nat, length : Int, body : Nat]
    /\ pc \in {"accept", "doit", "line", "501", "headers", "header", "serve", "404", "403",
               "serve_static", "mmap", "serve_dynamic", "fork", "wait", "close"} \cup Errors
    /\ child # "none" => pc = "wait"
    /\ pc \in {"doit", "line", "headers", "header", "serve", "serve_dynamic"} => answer = NoAnswer
    /\ pc = "501" => StatusOf(request) = 501
    /\ pc \in {"headers", "header", "serve"} => request # "POST"
    /\ pc = "404" => StatusOf(request) = 404
    /\ pc = "403" => StatusOf(request) = 403
    /\ pc \in {"serve_static", "mmap", "serve_dynamic", "fork", "wait"} => StatusOf(request) = 200
    /\ pc = "mmap" => answer = [status |-> 200, length |-> FileSize(request), body |-> 0]
    /\ pc \in {"fork", "wait"} => answer.status = 200 /\ answer.length = -1
    /\ pc = "close" \/ (pc = "accept" /\ clients > 0) => Complete

Told == FirstLine /\ Answering

\* The server begins without a client.
LEMMA ToldAtFirst == Init => Told
  <1> SUFFICES ASSUME Init PROVE Told
    OBVIOUS
  <1>1. pc = "accept" /\ clients = 0 /\ child = "none" /\ answer = NoAnswer
    BY DEF Init, InitTiny
  <1> QED
    BY <1>1 DEF Told, FirstLine, Answering, NoAnswer

\* A new connection.
LEMMA AcceptTells ==
    ASSUME Told, Accept, UNCHANGED user, user = "tiny" PROVE Told'
  <1>1. /\ pc' = "doit" /\ answer' = NoAnswer /\ received' = <<>> /\ clients' = clients + 1
        /\ child' = child /\ pc = "accept"
    BY DEF Accept, Connected
  <1> QED
    BY <1>1 DEF Told, FirstLine, Answering, NoAnswer

\* A server that has exited answers nothing.
LEMMA DiesTells ==
    ASSUME Told, UNCHANGED <<user, answer, child, clients>>, user = "tiny",
           pc # "wait", pc' \in Errors
    PROVE  Told'
  <1>1. pc' \notin {"accept", "doit", "line", "501", "headers", "header", "serve", "404", "403",
                    "serve_static", "mmap", "serve_dynamic", "fork", "wait", "close"}
    BY DEF Errors
  <1>2. FirstLine'
    BY <1>1 DEF FirstLine
  <1>3. Answering'
    BY <1>1 DEF Told, Answering
  <1> QED
    BY <1>2, <1>3 DEF Told

LEMMA FailureTells ==
    ASSUME Told, AcceptFails \/ ReadingFails, call # NoCall => pc \in {"line", "header"},
           UNCHANGED user, user = "tiny"
    PROVE  Told'
  <1>1. UNCHANGED <<answer, child, clients>> /\ pc' \in Errors
    BY DEF AcceptFails, Dies, ReadingFails, Errors
  <1>2. ReadingFails => call # NoCall
    BY OnlyInCalls DEF ReadingFails
  <1>3. pc # "wait"
    BY <1>2 DEF AcceptFails
  <1> QED
    BY <1>1, <1>3, DiesTells

\* The call for a line begins.
LEMMA ReadLineTells ==
    ASSUME Told, ReadLine, UNCHANGED user, user = "tiny" PROVE Told'
  <1>1. /\ pc \in {"doit", "headers"} /\ pc' = IF pc = "doit" THEN "line" ELSE "header"
        /\ call' = [op |-> "rio_readlineb", n |-> MAXLINE, got |-> <<>>]
        /\ UNCHANGED <<message, closed, received, request, answer, child, clients>>
    BY DEF ReadLine, Begin, stream
  <1>2. call' # NoCall /\ call'.n = MAXLINE /\ call'.op = "rio_readlineb"
    BY <1>1 DEF NoCall
  <1> QED
    BY <1>1, <1>2 DEF Told, FirstLine, Answering

\* The call for the first line returns with a byte at least, or at the end of
\* what the client sent.
LEMMA ReadingTells ==
    ASSUME Inv, Told, Reading, UNCHANGED user, user = "tiny" PROVE Told'
  <1>1. UNCHANGED <<message, closed, pc, request, answer, child, clients>> /\ ReadStep
    <2>1. ReadStep /\ UNCHANGED tiny
      BY DEF Reading
    <2>2. UNCHANGED <<message, closed>>
      BY <2>1 DEF ReadStep, NoRoom, Refill, TakeByte, TakeBytes, ReadSome, EndOfFile, stream
    <2> QED
      BY <2>1, <2>2 DEF tiny
  <1>2. pc # "doit" /\ call # NoCall
    <2>1. call.op \in {"rio_readn", "rio_readnb", "rio_readlineb"} \/ call # NoCall
      BY <1>1 DEF ReadStep, NoRoom, Refill, TakeByte, TakeBytes, ReadSome, EndOfFile, Buffered
    <2>2. NoCall.op = "none"
      BY DEF NoCall
    <2> QED
      BY <2>1, <2>2 DEF Inv, Unmixed
  <1>3. ASSUME pc = "line"
        PROVE  /\ call' = NoCall => result'.got = received' /\ (received' # <<>> \/ closed)
               /\ call' # NoCall =>
                    received' = <<>> /\ call'.op = "rio_readlineb" /\ call'.n = MAXLINE
    <2>1. /\ received = <<>> /\ call.n = MAXLINE /\ call.op = "rio_readlineb"
          /\ call.n \in Int /\ call.n > 1
      BY <1>2, <1>3, NetworkAssumption DEF Told, FirstLine
    <2>2. ASSUME NEW bytes \in Seq(Bytes), NEW enough \in BOOLEAN, Got(bytes, enough),
                 bytes # <<>> \/ closed
          PROVE  /\ call' = NoCall => result'.got = received' /\ (received' # <<>> \/ closed)
                 /\ call' # NoCall =>
                    received' = <<>> /\ call'.op = "rio_readlineb" /\ call'.n = MAXLINE
      <3>1. call.got \in Seq(Bytes) /\ call.n \in Nat
        BY DEF Inv, TypeCorrect
      <3>2. CASE enough
        <4>1. call' = NoCall /\ result' = [call EXCEPT !.got = bytes] /\ received' = <<>> \o bytes
          BY <2>1, <2>2, <3>2 DEF Got
        <4>2. result'.got = bytes
          BY <4>1 DEF Inv, TypeCorrect
        <4>3. <<>> \o bytes = bytes
          BY <2>2, ConcatEmptySeq
        <4> QED
          BY <2>2, <4>1, <4>2, <4>3
      <3>3. CASE ~enough
        <4>1. call' = [call EXCEPT !.got = bytes] /\ received' = <<>>
          BY <2>1, <2>2, <3>3 DEF Got
        <4>2. call'.op = "rio_readlineb" /\ call'.n = MAXLINE /\ call' # NoCall
          BY <2>1, <4>1, NetworkAssumption DEF Inv, TypeCorrect, NoCall
        <4> QED
          BY <4>1, <4>2
      <3> QED
        BY <3>2, <3>3
    <2>3. CASE NoRoom
      BY <2>1, <2>3 DEF NoRoom
    <2>4. CASE Refill
      BY <1>2, <2>1, <2>4 DEF Refill
    <2>5. CASE TakeByte
      <3>1. /\ call.got \in Seq(Bytes) /\ rio_buf \in Seq(Bytes) /\ rio_buf # <<>>
            /\ Got(Append(call.got, Head(rio_buf)), Head(rio_buf) = NL \/ Wanted = 2)
        BY <2>5 DEF TakeByte, Inv, TypeCorrect
      <3>2. Head(rio_buf) \in Bytes
        BY <3>1, HeadTailProperties
      <3>3. PICK bytes \in Seq(Bytes) : bytes # <<>> /\ bytes = Append(call.got, Head(rio_buf))
        <4>1. /\ Append(call.got, Head(rio_buf)) \in Seq(Bytes)
              /\ Append(call.got, Head(rio_buf)) # <<>>
          BY <3>1, <3>2, AppendProperties
        <4> QED
          BY <4>1
      <3>4. CASE Head(rio_buf) = NL \/ Wanted = 2
        <4>1. Got(bytes, TRUE)
          BY <3>1, <3>3, <3>4
        <4> QED
          BY <2>2, <3>3, <4>1
      <3>5. CASE ~(Head(rio_buf) = NL \/ Wanted = 2)
        <4>1. Got(bytes, FALSE)
          BY <3>1, <3>3, <3>5
        <4> QED
          BY <2>2, <3>3, <4>1
      <3> QED
        BY <3>4, <3>5
    <2>6. CASE TakeBytes
      BY <2>1, <2>6 DEF TakeBytes
    <2>7. CASE ReadSome
      BY <2>1, <2>7 DEF ReadSome
    <2>8. CASE EndOfFile
      <3>1. closed /\ Got(call.got, TRUE) /\ call.got \in Seq(Bytes)
        BY <2>8 DEF EndOfFile, Inv, TypeCorrect
      <3> QED
        BY <2>2, <3>1
    <2> QED
      BY <1>1, <2>3, <2>4, <2>5, <2>6, <2>7, <2>8 DEF ReadStep
  <1> QED
    BY <1>1, <1>2, <1>3 DEF Told, FirstLine, Answering, Complete

\* sscanf finds what the client asked for in the first line.
LEMMA RequestLineTells ==
    ASSUME Inv, Told, RequestLine, UNCHANGED user, user = "tiny" PROVE Told'
  <1>1. PICK r \in IF result.got = <<>> THEN Verb ELSE {Head(result.got)} :
           request' = r /\ pc' = IF r = "POST" THEN "501" ELSE "headers"
    BY DEF RequestLine
  <1>2. /\ pc = "line" /\ call = NoCall
        /\ UNCHANGED <<message, closed, answer, child, clients>>
    BY DEF RequestLine, stream
  <1>3. closed \/ request' = Head(message)
    <2> SUFFICES ASSUME ~closed PROVE request' = Head(message)
      OBVIOUS
    <2>1. result.got = received /\ received # <<>>
      BY <1>2 DEF Told, FirstLine
    <2>2. request' = Head(received)
      BY <1>1, <2>1
    <2>3. received \in Seq(Bytes) /\ message \in Seq(Bytes) /\ At(message, received, 0)
      BY DEF Inv, TypeCorrect, Intact
    <2>4. Len(received) \in Nat /\ Len(received) >= 1 /\ Head(received) = received[1]
      BY <2>1, <2>3, EmptySeq, LenProperties, HeadTailProperties
    <2>5. message[0 + 1] = received[1]
      BY <2>3, <2>4 DEF At
    <2>6. Len(message) >= 1 /\ message # <<>>
      <3>1. Len(message) = UnsentAt + Len(unsent)
        BY DEF Inv, Intact
      <3>2. UnsentAt >= 1 /\ UnsentAt \in Nat /\ Len(unsent) \in Nat
        BY <2>4, Lengths DEF Inv, UnsentAt, KernelAt, BufAt, GotAt
      <3> QED
        BY <3>1, <3>2, EmptySeq
    <2>7. Head(message) = message[1]
      BY <2>3, <2>6, HeadTailProperties
    <2> QED
      BY <2>2, <2>4, <2>5, <2>7
  <1>4. pc' = "501" => StatusOf(request') = 501
    BY <1>1 DEF StatusOf
  <1>5. pc' \in {"501", "headers"} /\ (pc' = "headers" => request' # "POST")
    BY <1>1
  <1> QED
    BY <1>2, <1>3, <1>4, <1>5 DEF Told, FirstLine, Answering

\* The headers change nothing of what is known.
LEMMA HeaderLineTells ==
    ASSUME Told, HeaderLine, UNCHANGED user, user = "tiny" PROVE Told'
  <1>1. /\ pc = "header" /\ pc' \in {"serve", "headers"}
        /\ UNCHANGED <<message, closed, request, answer, child, clients>>
    BY DEF HeaderLine, stream
  <1> QED
    BY <1>1 DEF Told, FirstLine, Answering

\* stat says which answer it is to be.
LEMMA ServeTells ==
    ASSUME Told, Serve, UNCHANGED user, user = "tiny" PROVE Told'
  <1>1. /\ pc = "serve"
        /\ pc' = IF ~Exists(request) THEN "404" ELSE IF ~Allowed(request) THEN "403"
                 ELSE IF IsStatic(request) THEN "serve_static" ELSE "serve_dynamic"
        /\ UNCHANGED <<message, closed, request, answer, child, clients>>
    BY DEF Serve, stream
  <1>2. /\ pc' = "404" => StatusOf(request) = 404
        /\ pc' = "403" => StatusOf(request) = 403
        /\ pc' \in {"serve_static", "serve_dynamic"} => StatusOf(request) = 200
    BY <1>1 DEF Exists, Allowed, IsStatic, StatusOf, Told, Answering
  <1> QED
    BY <1>1, <1>2 DEF Told, FirstLine, Answering

\* clienterror's page is as long as it says.
LEMMA ErrorTells ==
    ASSUME Told, clienterror, UNCHANGED user, user = "tiny" PROVE Told'
  <1>1. PICK s \in {501, 404, 403} :
           /\ StatusOf(request) = s /\ pc \in {"501", "404", "403"}
           /\ Sends([status |-> s, length |-> ErrorBody, body |-> ErrorBody], "close")
    BY DEF clienterror, Told, Answering
  <1>2. UNCHANGED <<message, closed, child, clients>>
    BY <1>1 DEF clienterror, Sends, stream
  <1>3. CASE pc' = "Rio_writen error" /\ answer' = answer
    BY <1>1, <1>2, <1>3, DiesTells DEF Errors
  <1>4. CASE pc' = "close" /\ answer' = [status |-> s, length |-> ErrorBody, body |-> ErrorBody]
    <2>1. Complete'
      BY <1>1, <1>2, <1>4 DEF Complete, Told, FirstLine
    <2>2. answer' \in [status : Nat, length : Int, body : Nat]
      BY <1>4 DEF ErrorBody
    <2> QED
      BY <1>1, <1>2, <1>4, <2>1, <2>2 DEF Told, FirstLine, Answering
  <1> QED
    BY <1>1, <1>3, <1>4 DEF Sends

\* So is the file, if it can be opened and mapped.
LEMMA StaticTells ==
    ASSUME Told, StaticHeaders \/ StaticBody, UNCHANGED user, user = "tiny" PROVE Told'
  <1>1. UNCHANGED <<message, closed, child, clients, request>> /\ pc \in {"serve_static", "mmap"}
    BY DEF StaticHeaders, StaticBody, Sends, Dies, stream
  <1>2. CASE pc' \in {"Rio_writen error", "Open error", "mmap error"} /\ answer' = answer
    BY <1>1, <1>2, DiesTells DEF Errors
  <1>3. CASE /\ pc = "serve_static" /\ pc' = "mmap"
             /\ answer' = [status |-> 200, length |-> FileSize(request), body |-> 0]
    <2>0. FileSize(request) \in Nat /\ FileSize(request) \in Int
      BY DEF FileSize
    <2>1. answer' \in [status : Nat, length : Int, body : Nat]
      BY <1>3, <2>0
    <2> QED
      BY <1>1, <1>3, <2>1 DEF Told, FirstLine, Answering
  <1>4. CASE pc = "mmap" /\ pc' = "close" /\ answer' = [answer EXCEPT !.body = FileSize(request)]
    <2>0. FileSize(request) \in Nat /\ FileSize(request) \in Int
      BY DEF FileSize
    <2>1. /\ answer'.status = 200 /\ answer'.length = answer'.body
          /\ answer' \in [status : Nat, length : Int, body : Nat]
      BY <1>4, <2>0 DEF Told, Answering
    <2>2. Complete'
      BY <1>1, <1>4, <2>1 DEF Complete, Told, FirstLine, Answering
    <2> QED
      BY <1>1, <1>4, <2>1, <2>2 DEF Told, FirstLine, Answering
  <1> QED
    BY <1>2, <1>3, <1>4 DEF StaticHeaders, StaticBody, Sends, Dies

\* The program writes, once, and only while the server waits for it.
LEMMA DynamicTells ==
    ASSUME Told, DynamicHeaders \/ Fork \/ Child \/ WaitForChild, UNCHANGED user, user = "tiny"
    PROVE  Told'
  <1>1. UNCHANGED <<message, closed, clients, request>>
    BY DEF DynamicHeaders, Fork, Dies, Child, WaitForChild, Sends, stream
  <1>2. CASE DynamicHeaders
    <2>1. pc = "serve_dynamic" /\ child' = child
      BY <1>2 DEF DynamicHeaders
    <2>2. CASE pc' = "Rio_writen error" /\ answer' = answer
      BY <1>1, <2>1, <2>2, DiesTells DEF Errors
    <2>3. CASE pc' = "fork" /\ answer' = [answer EXCEPT !.status = 200]
      <3>1. /\ answer'.status = 200 /\ answer'.length = -1
            /\ answer' \in [status : Nat, length : Int, body : Nat]
        BY <2>1, <2>3 DEF Told, Answering, NoAnswer
      <3> QED
        BY <1>1, <2>1, <2>3, <3>1 DEF Told, FirstLine, Answering
    <2> QED
      BY <1>2, <2>2, <2>3 DEF DynamicHeaders, Sends
  <1>3. CASE Fork
    <2>1. CASE Dies("Fork error")
      BY <1>3, <2>1, DiesTells DEF Fork, Dies, Errors
    <2>2. CASE ~Dies("Fork error")
      BY <1>1, <1>3, <2>2 DEF Fork, Told, FirstLine, Answering
    <2> QED
      BY <2>1, <2>2
  <1>4. CASE Child
    <2>1. pc = "wait" /\ pc' = pc /\ child # "none"
      BY <1>4 DEF Child, Told, Answering
    <2>2. /\ answer'.status = 200 /\ answer'.length = -1
          /\ answer' \in [status : Nat, length : Int, body : Nat]
      BY <1>4, <2>1 DEF Child, Told, Answering
    <2> QED
      BY <1>1, <2>1, <2>2 DEF Told, FirstLine, Answering
  <1>5. CASE WaitForChild
    <2>1. pc = "wait" /\ pc' = "close" /\ child' = "none" /\ answer' = answer
      BY <1>5 DEF WaitForChild
    <2>2. Complete'
      BY <1>1, <2>1 DEF Complete, Told, FirstLine, Answering
    <2> QED
      BY <1>1, <2>1, <2>2 DEF Told, FirstLine, Answering
  <1> QED
    BY <1>2, <1>3, <1>4, <1>5

\* The connection is closed after the answer.
LEMMA CloseTells ==
    ASSUME Told, CloseConnection, UNCHANGED user, user = "tiny" PROVE Told'
  <1>1. /\ pc = "close" /\ pc' = "accept"
        /\ UNCHANGED <<message, closed, request, answer, child, clients>>
    BY DEF CloseConnection, stream
  <1> QED
    BY <1>1 DEF Told, FirstLine, Answering, Complete

\* The client sends, is interrupted or goes: a connection once closed stays so.
LEMMA ClientTells ==
    ASSUME Told, Client, UNCHANGED user, user = "tiny" PROVE Told'
  <1>1. UNCHANGED tiny /\ UNCHANGED <<message, reader>> /\ (closed => closed')
    BY DEF Client, Write, Close, Interrupted, stream
  <1>2. UNCHANGED <<pc, request, answer, child, clients, message, received, call, result>>
    BY <1>1 DEF tiny, reader
  <1> QED
    BY <1>1, <1>2 DEF Told, FirstLine, Answering, Complete

\* Other users of the Rio package have no clients.
LEMMA OthersTell ==
    ASSUME Told, Calls \/ Parse PROVE Told'
  <1>1. UNCHANGED <<user, tiny>> /\ user # "tiny"
    BY DEF Calls, Parse
  <1>2. UNCHANGED <<pc, request, answer, child, clients>> /\ pc = "accept" /\ clients = 0
    BY <1>1 DEF tiny, Told, Answering
  <1> QED
    BY <1>1, <1>2 DEF Told, FirstLine, Answering

\* Every step keeps what is known.
LEMMA StepTells == (Inv \/ Stopped) /\ Told /\ [Next]_vars => Told'
  <1> SUFFICES ASSUME Inv \/ Stopped, Told, [Next]_vars PROVE Told'
    OBVIOUS
  <1>1. CASE Tinys
    <2>1. UNCHANGED user /\ user = "tiny"
      BY <1>1 DEF Tinys
    <2>2. Stopped => ~Reading /\ ~RequestLine
      BY <2>1, OnlyInCalls DEF Stopped, Reading, RequestLine
    <2>3. call # NoCall => pc \in {"line", "header"}
      BY <2>1 DEF Inv, Unmixed, Stopped
    <2> QED
      BY <1>1, <2>1, <2>2, <2>3, AcceptTells, FailureTells, ReadLineTells, ReadingTells,
         RequestLineTells, HeaderLineTells, ServeTells, ErrorTells, StaticTells, DynamicTells,
         CloseTells, ClientTells
         DEF Tinys, TinyStep
  <1>2. CASE UNCHANGED vars
    BY <1>2 DEF vars, tiny, reader, stream, Told, FirstLine, Answering, Complete
  <1> QED
    BY <1>1, <1>2, OthersTell DEF Next

(* A client of Tiny that waited gets one answer to what it asked for and   *)
(* as long as it says, however its request arrives and whatever it is; and *)
(* no child is left to write to a connection that is closed.               *)
THEOREM AnswersStayComplete == Spec => []AnswersComplete
  <1>2. Told => AnswersComplete
    BY DEF Told, Answering, Complete, AnswersComplete, Answered
  <1> QED
    BY Initial, ToldAtFirst, <1>2, Always, StepTells, PTL DEF Spec

-----------------------------------------------------------------------------
(* What parse_uri returns.                                                 *)

\* p is where c is first found in s, from i on.
FirstAt(s, c, i, p) ==
    /\ DOMAIN s \subseteq Int /\ p \in DOMAIN s /\ i \in Int
    /\ s[p] = c /\ i <= p
    /\ \A k \in DOMAIN s : i <= k /\ k < p => s[k] # c

\* That is what index returns ...
LEMMA IndexFound ==
    ASSUME NEW s, NEW c, NEW i, NEW p, FirstAt(s, c, i, p)
    PROVE  index(s, i, c) = p
  <1> USE DEF FirstAt
  <1>1. p \in Indices1(s, c) /\ \A k \in Indices1(s, c) : k >= i => p <= k
    BY DEF Indices1
  <1>2. Indices1(s, c) \subseteq Int
    BY DEF Indices1
  <1> QED
    BY <1>1, <1>2 DEF index

\* ... and 0 where c is not in s.
LEMMA IndexNone ==
    ASSUME NEW s, NEW c, NEW i, \A k \in DOMAIN s : s[k] # c
    PROVE  index(s, i, c) = 0
  BY DEF Indices1, index

\* SubSeq takes out the part that is there.
LEMMA PartIs ==
    ASSUME NEW S, NEW s \in Seq(S), NEW t \in Seq(S), NEW from \in Nat,
           from + Len(t) <= Len(s), \A k \in 1 .. Len(t) : s[from + k] = t[k]
    PROVE  SubSeq(s, from + 1, from + Len(t)) = t
  <1>0. Len(t) \in Nat /\ Len(s) \in Nat /\ \A i \in 1 .. Len(s) : s[i] \in S
    OBVIOUS
  <1>1. \A i \in (from + 1) .. (from + Len(t)) : s[i] \in S
    BY <1>0
  <1> DEFINE u == SubSeq(s, from + 1, from + Len(t))
  <1>2. /\ u \in Seq(S) /\ Len(u) = Len(t)
        /\ \A k \in 1 .. Len(t) : u[k] = s[from + k]
    BY <1>0, <1>1, SubSeqProperties
  <1> HIDE DEF u
  <1>3. u = t
    BY <1>2, SeqEqual
  <1> QED
    BY <1>3 DEF u

\* Two strings and the character between them, place by place.
LEMMA TwoParts ==
    ASSUME NEW S, NEW a \in Seq(S), NEW c \in S, NEW b \in Seq(S), NEW s, s = a \o <<c>> \o b
    PROVE  /\ s \in Seq(S) /\ Len(s) = Len(a) + 1 + Len(b)
           /\ \A k \in 1 .. Len(a) : s[k] = a[k]
           /\ s[Len(a) + 1] = c
           /\ \A k \in 1 .. Len(b) : s[Len(a) + 1 + k] = b[k]
  <1>0. <<c>> \in Seq(S) /\ Len(<<c>>) = 1 /\ <<c>>[1] = c /\ Len(a) \in Nat /\ Len(b) \in Nat
    OBVIOUS
  <1>1. /\ a \o <<c>> \in Seq(S) /\ Len(a \o <<c>>) = Len(a) + 1
        /\ \A k \in 1 .. Len(a) : (a \o <<c>>)[k] = a[k]
        /\ (a \o <<c>>)[Len(a) + 1] = c
    BY <1>0, ConcatProperties
  <1>2. /\ s \in Seq(S) /\ Len(s) = Len(a) + 1 + Len(b)
        /\ \A k \in 1 .. (Len(a) + 1) : s[k] = (a \o <<c>>)[k]
        /\ \A k \in 1 .. Len(b) : s[Len(a) + 1 + k] = b[k]
    BY <1>0, <1>1, ConcatProperties
  <1> QED
    BY <1>0, <1>1, <1>2

\* A target with a port: its colon is the first one, its slash the first behind.
LEMMA PortParsed ==
    ASSUME NEW S, COLON \in S, SLASH \in S, COLON # SLASH,
           NEW host \in Seq(S), NEW port \in Seq(S), NEW path \in Seq(S),
           Plain(host), Plain(port), NEW s, s = host \o (<<COLON>> \o port) \o <<SLASH>> \o path
    PROVE  parse_uri(s) = Parsed(host, port, <<SLASH>> \o path)
  <1> DEFINE front == host \o (<<COLON>> \o port)
             p == Len(host) + 1
             q == Len(host) + Len(port) + 2
  <1>0. Len(host) \in Nat /\ Len(port) \in Nat /\ Len(path) \in Nat
    OBVIOUS
  <1>1. front = host \o <<COLON>> \o port
    BY ConcatAssociative
  <1>2. /\ front \in Seq(S) /\ Len(front) = Len(host) + 1 + Len(port)
        /\ \A k \in 1 .. Len(host) : front[k] = host[k]
        /\ front[Len(host) + 1] = COLON
        /\ \A k \in 1 .. Len(port) : front[Len(host) + 1 + k] = port[k]
    BY <1>1, TwoParts
  <1>3. /\ s \in Seq(S) /\ Len(s) = Len(front) + 1 + Len(path)
        /\ \A k \in 1 .. Len(front) : s[k] = front[k]
        /\ s[Len(front) + 1] = SLASH
        /\ \A k \in 1 .. Len(path) : s[Len(front) + 1 + k] = path[k]
    BY <1>2, TwoParts
  <1> HIDE DEF front
  <1>4. /\ DOMAIN s = 1 .. Len(s) /\ Len(s) = q + Len(path)
        /\ \A k \in 1 .. Len(host) : s[k] = host[k]
        /\ s[p] = COLON
        /\ \A k \in 1 .. Len(port) : s[p + k] = port[k]
        /\ s[q] = SLASH
        /\ \A k \in 1 .. Len(path) : s[q + k] = path[k]
    BY <1>0, <1>2, <1>3
  <1>5. /\ \A k \in 1 .. Len(host) : host[k] # COLON /\ host[k] # SLASH
        /\ \A k \in 1 .. Len(port) : port[k] # COLON /\ port[k] # SLASH
    BY DEF Plain, Has
  <1>6. index(s, 1, COLON) = p
    <2>1. FirstAt(s, COLON, 1, p)
      BY <1>0, <1>4, <1>5 DEF FirstAt
    <2> QED
      BY <2>1, IndexFound
  <1>7. index(s, p + 1, SLASH) = q
    <2>1. \A k \in DOMAIN s : p + 1 <= k /\ k < q => s[k] # SLASH
      <3> SUFFICES ASSUME NEW k \in DOMAIN s, p + 1 <= k, k < q PROVE s[k] # SLASH
        OBVIOUS
      <3>1. k \in Int /\ p \in Int
        BY <1>0, <1>4
      <3>2. k - p \in 1 .. Len(port) /\ p + (k - p) = k
        BY <1>0, <3>1
      <3> QED
        BY <1>4, <1>5, <3>2
    <2>2. FirstAt(s, SLASH, p + 1, q)
      BY <1>0, <1>4, <2>1 DEF FirstAt
    <2> QED
      BY <2>2, IndexFound
  <1>8. SubSeq(s, 1, p - 1) = host
    BY <1>0, <1>3, <1>4, PartIs
  <1>9. SubSeq(s, p + 1, q - 1) = port
    BY <1>0, <1>3, <1>4, PartIs
  <1>10. SubSeq(s, q + 1, Len(s)) = path
    BY <1>0, <1>3, <1>4, PartIs
  <1>11. p # 0 /\ q # 0
    BY <1>0
  <1> QED
    BY <1>6, <1>7, <1>8, <1>9, <1>10, <1>11 DEF parse_uri, WithPort, Path

\* A target without a port, and without a colon in its path.
LEMMA NoPortParsed ==
    ASSUME NEW S, COLON \in S, SLASH \in S, COLON # SLASH,
           NEW host \in Seq(S), NEW path \in Seq(S),
           Plain(host), ~Has(path, COLON), NEW s, s = host \o <<SLASH>> \o path
    PROVE  parse_uri(s) = Parsed(host, <<Default>>, <<SLASH>> \o path)
  <1> DEFINE q == Len(host) + 1
  <1>0. Len(host) \in Nat /\ Len(path) \in Nat
    OBVIOUS
  <1>1. /\ s \in Seq(S) /\ Len(s) = Len(host) + 1 + Len(path)
        /\ \A k \in 1 .. Len(host) : s[k] = host[k]
        /\ s[Len(host) + 1] = SLASH
        /\ \A k \in 1 .. Len(path) : s[Len(host) + 1 + k] = path[k]
    BY TwoParts
  <1>2. DOMAIN s = 1 .. Len(s)
    BY <1>1
  <1>3. /\ \A k \in 1 .. Len(host) : host[k] # COLON /\ host[k] # SLASH
        /\ \A k \in 1 .. Len(path) : path[k] # COLON
    BY DEF Plain, Has
  <1>4. \A k \in DOMAIN s : s[k] # COLON
    <2> SUFFICES ASSUME NEW k \in 1 .. Len(s), k > q PROVE s[k] # COLON
      BY <1>0, <1>1, <1>2, <1>3
    <2>1. k - q \in 1 .. Len(path) /\ q + (k - q) = k
      BY <1>0, <1>1
    <2> QED
      BY <1>1, <1>3, <2>1
  <1>5. index(s, 1, COLON) = 0
    BY <1>4, IndexNone
  <1>6. index(s, 1, SLASH) = q
    <2>1. FirstAt(s, SLASH, 1, q)
      BY <1>0, <1>1, <1>2, <1>3 DEF FirstAt
    <2> QED
      BY <2>1, IndexFound
  <1>7. SubSeq(s, 1, q - 1) = host
    BY <1>0, <1>1, PartIs
  <1>8. SubSeq(s, q + 1, Len(s)) = path
    BY <1>0, <1>1, PartIs
  <1>9. q # 0
    BY <1>0
  <1> QED
    BY <1>5, <1>6, <1>7, <1>8, <1>9 DEF parse_uri, WithoutPort, Path

\* The proxy is asked for one of the targets.
Targeted == user = "proxy" => target \in Target

\* What the lemmas above say of a step of the proxy.
LEMMA UriFacts ==
    ASSUME target \in Target, parsed' = parse_uri(target),
           NEW host \in Parts, NEW port \in Parts, NEW path \in Parts,
           Split(host, port, path), port = <<>> => ~Has(path, COLON)
    PROVE  Found(host, port, path)
  <1> DEFINE S == Range(target) \cup {COLON, SLASH}
  <1>1. COLON \in S /\ SLASH \in S /\ COLON # SLASH /\ target \in Seq(S)
    BY NetworkAssumption, SeqMonotonic
  <1> HIDE DEF S
  <1>2. ASSUME NEW part \in Parts PROVE part \in Seq(S)
    <2>1. PICK i \in 1 .. (Len(target) + 1), j \in 0 .. Len(target) : part = SubSeq(target, i, j)
      BY <1>2 DEF Parts
    <2>2. Len(target) \in Nat /\ \A k \in 1 .. Len(target) : target[k] \in S
      BY <1>1
    <2>3. i \in Int /\ j \in Int /\ \A k \in i .. j : target[k] \in S
      BY <2>2
    <2> QED
      BY <2>1, <2>3, SubSeqProperties
  <1>3. host \in Seq(S) /\ port \in Seq(S) /\ path \in Seq(S)
    BY <1>2
  <1>4. Plain(host) /\ Plain(port)
    BY DEF Split
  <1>5. CASE port = <<>>
    <2>1. target = host \o <<SLASH>> \o path
      BY <1>3, <1>5, ConcatEmptySeq DEF Split
    <2> QED
      BY <1>1, <1>3, <1>4, <1>5, <2>1, NoPortParsed DEF Parsed, Found
  <1>6. CASE port # <<>>
    <2>1. target = host \o (<<COLON>> \o port) \o <<SLASH>> \o path
      BY <1>6 DEF Split
    <2> QED
      BY <1>1, <1>3, <1>4, <1>6, <2>1, PortParsed DEF Parsed, Found
  <1> QED
    BY <1>5, <1>6

(* parse_uri finds the three parts of every target, of any length, that has *)
(* a path, unless the only colon is in the path.                           *)
THEOREM TargetsRight == Spec => UriRight
  <1>1. Init => Targeted
    BY DEF Init, Targeted
  <1>2. Targeted /\ [Next]_vars => Targeted'
    BY DEF Targeted, Next, Calls, Tinys, Parse, vars
  <1>3. Targeted /\ [Next]_vars =>
          [user = "proxy" =>
             \A host, port, path \in Parts :
                (Split(host, port, path) /\ (port = <<>> => ~Has(path, COLON))) =>
                   Found(host, port, path)]_vars
    <2> SUFFICES ASSUME Targeted, Next, user = "proxy"
                 PROVE  \A host, port, path \in Parts :
                           (Split(host, port, path) /\ (port = <<>> => ~Has(path, COLON))) =>
                              Found(host, port, path)
      OBVIOUS
    <2>1. target \in Target /\ parsed' = parse_uri(target)
      BY DEF Targeted, Next, Calls, Tinys, Parse
    <2> QED
      BY <2>1, UriFacts
  <1> QED
    BY <1>1, <1>2, <1>3, PTL DEF Spec, UriRight

=============================================================================
