---------------------------- MODULE Relay_proofs ----------------------------
(***************************************************************************)
(* For any peers and any bounds: what is stored is what the client got,    *)
(* and the server gets each header once and the blank line last.           *)
(***************************************************************************)
EXTENDS Relay, SequenceTheorems, TLAPS

TypeCorrect ==
    /\ request \in Seq(Item) /\ response \in Seq(Item)
    /\ pc \in {"client", "response", "header", "body", "done", "crash"}
    /\ fromClient \in Seq(Item) /\ fromServer \in Seq(Item)
    /\ buf \in Item
    /\ toServer \in Seq(Item) /\ toClient \in Seq(Item)
    /\ cache_data \in Seq(Item)
    /\ cache_len \in Nat
    /\ content_len \in Int
    /\ too_long \in {0, 1}

(* The length is counted to the end, so that once something did not fit    *)
(* nothing that is shorter can be appended behind the gap.                 *)
CopyCounted ==
    /\ cache_len = Len(toClient)
    /\ too_long = 0 => cache_data = toClient
    /\ too_long = 1 => cache_len >= MaxObjectSize

Inv == TypeCorrect /\ CopyCounted /\ CopyIsWhatWasSent

-----------------------------------------------------------------------------
(* Sequences.                                                              *)

\* A prefix is one of the sequence it is the beginning of.
LEMMA PrefixOfConcat ==
    ASSUME NEW S, NEW s \in Seq(S), NEW t \in Seq(S), NEW u \in Seq(S), IsPrefix(s, t)
    PROVE  IsPrefix(s, t \o u)
  <1>1. CASE s = <<>>
    <2>1. SubSeq(s, 1, 0) = <<>> /\ SubSeq(t \o u, 1, 0) = <<>>
      BY SubSeqEmpty
    <2> QED
      BY <1>1, <2>1, ConcatProperties DEF IsPrefix
  <1>2. CASE s # <<>>
    <2>1. Len(s) \in 1 .. Len(t)
      BY <1>2, EmptySeq DEF IsPrefix
    <2>2. SubSeq(t \o u, 1, Len(s)) = SubSeq(t, 1, Len(s))
      BY <2>1, SubSeqOfConcat1
    <2> QED
      BY <2>1, <2>2, ConcatProperties DEF IsPrefix
  <1> QED
    BY <1>1, <1>2

LEMMA PrefixOfItself ==
    ASSUME NEW S, NEW s \in Seq(S)
    PROVE  IsPrefix(s, s)
  BY DEF IsPrefix

\* What Rio_readlineb leaves in buf and in the input.
LEMMA ReadLineType ==
    ASSUME buf \in Item, NEW in \in Seq(Item)
    PROVE  ReadLine(in) \in Item /\ Rest(in) \in Seq(Item)
  BY HeadTailProperties DEF ReadLine, Rest

LEMMA ReadBodyType ==
    ASSUME fromServer \in Seq(Item), NEW n \in Nat
    PROVE  ReadBody(n) \in Seq(Item)
  <1>1. Junk \in Item
    BY DEF Junk, Item
  <1>2. \A i \in 1 .. n :
           (IF i <= Len(fromServer) THEN fromServer[i] ELSE Junk) \in Item
    BY <1>1, ElementOfSeq
  <1> QED
    BY <1>2 DEF ReadBody

-----------------------------------------------------------------------------
(* The copy.                                                               *)

\* Keep is all that touches the copy.
LEMMA KeepCopies ==
    ASSUME TypeCorrect, CopyCounted, CopyIsWhatWasSent,
           NEW items \in Seq(Item), Keep(items)
    PROVE  /\ toClient' \in Seq(Item) /\ cache_data' \in Seq(Item)
           /\ cache_len' \in Nat /\ too_long' \in {0, 1}
           /\ CopyCounted' /\ CopyIsWhatWasSent'
  <1> USE SizeAssumption DEF TypeCorrect, CopyCounted
  <1>1. /\ toClient' \in Seq(Item)
        /\ Len(toClient') = Len(toClient) + Len(items)
        /\ cache_len' = Len(toClient') /\ cache_len' \in Nat
    BY ConcatProperties, LenProperties DEF Keep
  <1>2. CASE cache_len' < MaxObjectSize
    <2>1. cache_data = toClient /\ too_long = 0
      BY <1>1, <1>2, LenProperties DEF Keep
    <2>2. cache_data' = toClient' /\ too_long' = 0
      BY <1>2, <2>1 DEF Keep
    <2>3. IsPrefix(cache_data', toClient')
      BY <1>1, <2>2, PrefixOfItself
    <2> QED
      BY <1>1, <1>2, <2>2, <2>3 DEF CopyIsWhatWasSent
  <1>3. CASE ~(cache_len' < MaxObjectSize)
    <2>1. cache_data' = cache_data /\ too_long' = 1
      BY <1>3 DEF Keep
    <2>2. IsPrefix(cache_data', toClient')
      BY <2>1, PrefixOfConcat DEF Keep, CopyIsWhatWasSent
    <2> QED
      BY <1>1, <1>3, <2>1, <2>2 DEF CopyIsWhatWasSent
  <1> QED
    BY <1>2, <1>3

LEMMA Initial == Init => Inv
  <1> SUFFICES ASSUME Init PROVE Inv
    OBVIOUS
  <1>1. Own \in Item
    BY DEF Own, Item
  <1>2. TypeCorrect
    BY <1>1, InputAssumption, EmptySeq DEF Init, TypeCorrect
  <1>3. IsPrefix(cache_data, toClient)
    BY PrefixOfItself, EmptySeq DEF Init
  <1>4. CopyCounted /\ CopyIsWhatWasSent
    BY <1>3 DEF Init, CopyCounted, CopyIsWhatWasSent
  <1> QED
    BY <1>2, <1>4 DEF Inv

LEMMA Preserved == Inv /\ [Next]_vars => Inv'
  <1> SUFFICES ASSUME Inv, [Next]_vars PROVE Inv'
    OBVIOUS
  <1> USE DEF Inv
  <1>1. CASE ClientLine /\ UNCHANGED sent
    <2>1. ReadLine(fromClient) \in Item /\ Rest(fromClient) \in Seq(Item)
      BY ReadLineType DEF TypeCorrect
    <2>2. toServer' \in Seq(Item)
      BY <1>1, <2>1, AppendProperties DEF ClientLine, TypeCorrect
    <2>3. TypeCorrect'
      BY <1>1, <2>1, <2>2 DEF ClientLine, TypeCorrect, answer, sent
    <2> QED
      BY <1>1, <2>3 DEF ClientLine, CopyCounted, CopyIsWhatWasSent, answer
  <1>2. CASE EnterResponse /\ UNCHANGED sent
    <2>1. Blank \in Item /\ Junk \in Item
      BY DEF Blank, Junk, Item
    <2> QED
      BY <1>2, <2>1
      DEF EnterResponse, TypeCorrect, CopyCounted, CopyIsWhatWasSent, answer, input, sent
  <1>3. CASE HeaderLine /\ UNCHANGED sent
    <2>1. ReadLine(fromServer) \in Item /\ Rest(fromServer) \in Seq(Item)
      BY ReadLineType DEF TypeCorrect
    <2>2. <<ReadLine(fromServer)>> \in Seq(Item)
      BY <2>1
    <2>3. Keep(<<ReadLine(fromServer)>>)
      BY <1>3 DEF HeaderLine
    <2>4. /\ toClient' \in Seq(Item) /\ cache_data' \in Seq(Item)
          /\ cache_len' \in Nat /\ too_long' \in {0, 1}
          /\ CopyCounted' /\ CopyIsWhatWasSent'
      BY <2>2, <2>3, KeepCopies
    <2>5. content_len' \in Int
      BY <1>3, <2>1 DEF HeaderLine, TypeCorrect, Item
    <2> QED
      BY <1>3, <2>1, <2>4, <2>5 DEF HeaderLine, TypeCorrect, sent
  <1>4. CASE (HeaderFault \/ BodyFault) /\ UNCHANGED sent
    BY <1>4
    DEF HeaderFault, BodyFault, Crash, TypeCorrect, CopyCounted, CopyIsWhatWasSent,
        answer, input, sent
  <1>5. CASE Body /\ UNCHANGED sent
    <2>1. content_len \in Nat
      BY <1>5 DEF Body, TypeCorrect
    <2>2. ReadBody(content_len) \in Seq(Item)
      BY <2>1, ReadBodyType DEF TypeCorrect
    <2>3. Keep(ReadBody(content_len))
      BY <1>5 DEF Body
    <2>4. /\ toClient' \in Seq(Item) /\ cache_data' \in Seq(Item)
          /\ cache_len' \in Nat /\ too_long' \in {0, 1}
          /\ CopyCounted' /\ CopyIsWhatWasSent'
      BY <2>2, <2>3, KeepCopies
    <2>5. fromServer' \in Seq(Item)
      <3>1. \A i \in (content_len + 1) .. Len(fromServer) : fromServer[i] \in Item
        BY <2>1, ElementOfSeq DEF TypeCorrect
      <3> QED
        BY <1>5, <2>1, <3>1, SubSeqProperties, LenProperties DEF Body, TypeCorrect
    <2> QED
      BY <1>5, <2>4, <2>5 DEF Body, TypeCorrect, sent
  <1>6. CASE Spin \/ Stopped \/ UNCHANGED vars
    BY <1>6
    DEF Spin, Stopped, vars, sent, TypeCorrect, CopyCounted, CopyIsWhatWasSent, answer,
        input
  <1> QED
    BY <1>1, <1>2, <1>3, <1>4, <1>5, <1>6 DEF Next, Step

(* The copy for the cache never outgrows the object it is made in and is a *)
(* prefix of what the client was sent, and it is all of it when            *)
(* handle_response returns 0, so that doit stores complete responses only. *)
THEOREM CopyComplete == Spec => []CopyIsWhatWasSent
  <1>1. Inv => CopyIsWhatWasSent
    BY DEF Inv
  <1> QED
    BY Initial, Preserved, <1>1, PTL DEF Spec

-----------------------------------------------------------------------------
(* The request.                                                            *)

\* The loop of handle_client_headers is over exactly when the blank line was
\* sent, and nothing is sent to the server behind it.
LEMMA RequestStep == Inv /\ RequestWellFormed /\ [Next]_vars => RequestWellFormed'
  <1> SUFFICES ASSUME Inv, RequestWellFormed, [Next]_vars PROVE RequestWellFormed'
    OBVIOUS
  <1>1. CASE ClientLine
    <2>1. ReadLine(fromClient) \in Item /\ toServer \in Seq(Item) /\ pc = "client"
      BY <1>1, ReadLineType DEF ClientLine, Inv, TypeCorrect
    <2>2. CASE ~Forwarded(ReadLine(fromClient))
      <3>1. ReadLine(fromClient) # Blank
        BY <2>2 DEF Forwarded, Blank
      <3> QED
        BY <1>1, <2>1, <2>2, <3>1 DEF ClientLine, RequestWellFormed
    <2>3. CASE Forwarded(ReadLine(fromClient))
      <3>1. /\ toServer' \in Seq(Item)
            /\ Len(toServer') = Len(toServer) + 1
            /\ \A i \in 1 .. Len(toServer) : toServer'[i] = toServer[i]
            /\ toServer'[Len(toServer) + 1] = ReadLine(fromClient)
        BY <1>1, <2>1, <2>3, AppendProperties DEF ClientLine
      <3>2. Len(toServer) \in Nat
        BY <2>1
      <3>3. pc' # "client" <=> ReadLine(fromClient) = Blank
        BY <1>1, <2>1 DEF ClientLine
      <3>4. \A i \in 1 .. Len(toServer') :
               i \in 1 .. Len(toServer) \/ i = Len(toServer) + 1
        BY <3>1, <3>2
      <3>5. \A i \in 2 .. Len(toServer') : toServer'[i].kind \notin {"own", "drop"}
        BY <2>1, <2>3, <3>1, <3>2 DEF RequestWellFormed, Forwarded
      <3>6. \A i \in 1 .. Len(toServer') :
               toServer'[i] = Blank <=> i = Len(toServer') /\ pc' # "client"
        BY <2>1, <3>1, <3>2, <3>3, <3>4 DEF RequestWellFormed
      <3> QED
        BY <3>5, <3>6 DEF RequestWellFormed
    <2> QED
      BY <2>2, <2>3
  <1>2. CASE EnterResponse
    BY <1>2 DEF EnterResponse, RequestWellFormed
  <1>3. CASE HeaderLine \/ Body
    BY <1>3 DEF HeaderLine, Body, RequestWellFormed
  <1>4. CASE HeaderFault \/ BodyFault
    BY <1>4 DEF HeaderFault, BodyFault, Crash, RequestWellFormed
  <1>5. CASE Spin \/ Stopped \/ UNCHANGED vars
    BY <1>5 DEF Spin, Stopped, vars, RequestWellFormed
  <1> QED
    BY <1>1, <1>2, <1>3, <1>4, <1>5 DEF Next, Step

(* The server gets the proxy's own headers once, whatever the client says  *)
(* of them, and the blank line once, last, and before the response is      *)
(* waited for.                                                             *)
THEOREM RequestComplete == Spec => []RequestWellFormed
  <1>1. Init => RequestWellFormed
    <2> SUFFICES ASSUME Init PROVE RequestWellFormed
      OBVIOUS
    <2>1. toServer = <<Own>> /\ pc = "client" /\ Own # Blank
      BY DEF Init, Own, Blank
    <2> QED
      BY <2>1 DEF RequestWellFormed
  <1> QED
    BY <1>1, Initial, Preserved, RequestStep, PTL DEF Spec

-----------------------------------------------------------------------------
(* The response.                                                           *)

\* What is next is sent and leaves the input: nothing is lost in between.
LEMMA TakeFirst ==
    ASSUME NEW S, NEW t \in Seq(S), NEW in \in Seq(S), in # <<>>
    PROVE  (t \o <<Head(in)>>) \o Tail(in) = t \o in
  <1>1. Head(in) \in S /\ Tail(in) \in Seq(S)
    BY HeadTailProperties
  <1>2. <<Head(in)>> \in Seq(S)
    BY <1>1
  <1>3. <<Head(in)>> \o Tail(in) = in
    <2>1. /\ <<Head(in)>> \o Tail(in) \in Seq(S)
          /\ Len(<<Head(in)>> \o Tail(in)) = 1 + Len(Tail(in))
          /\ \A i \in 1 .. 1 + Len(Tail(in)) : (<<Head(in)>> \o Tail(in))[i] =
                IF i <= 1 THEN <<Head(in)>>[i] ELSE Tail(in)[i - 1]
      BY <1>1, <1>2, ConcatProperties
    <2>2. /\ Len(in) \in Nat /\ Len(Tail(in)) = Len(in) - 1 /\ Len(Tail(in)) \in Nat
          /\ \A i \in 1 .. Len(Tail(in)) : Tail(in)[i] = in[i + 1]
      BY <1>1, HeadTailProperties, LenProperties
    <2>3. \A i \in 1 .. Len(in) : (<<Head(in)>> \o Tail(in))[i] = in[i]
      <3> SUFFICES ASSUME NEW i \in 1 .. Len(in)
                   PROVE  (<<Head(in)>> \o Tail(in))[i] = in[i]
        OBVIOUS
      <3>1. CASE i = 1
        BY <2>1, <2>2, <3>1
      <3>2. CASE i # 1
        <4>1. i - 1 \in 1 .. Len(Tail(in))
          BY <2>2, <3>2
        <4>2. Tail(in)[i - 1] = in[(i - 1) + 1]
          BY <2>2, <4>1
        <4> QED
          BY <2>1, <2>2, <3>2, <4>2
      <3> QED
        BY <3>1, <3>2
    <2> QED
      BY <2>1, <2>2, <2>3, SeqEqual
  <1>4. (t \o <<Head(in)>>) \o Tail(in) = t \o (<<Head(in)>> \o Tail(in))
    BY <1>1, <1>2, ConcatAssociative
  <1> QED
    BY <1>3, <1>4

\* What Rio_readnb returns is the beginning of the input, and all of it
\* before the bytes that nobody wrote.
LEMMA ReadBodyTakes ==
    ASSUME fromServer \in Seq(Item), NEW n \in Nat
    PROVE  LET rest == SubSeq(fromServer, n + 1, Len(fromServer)) IN
           /\ rest # <<>> => ReadBody(n) \o rest = fromServer
           /\ rest = <<>> => IsPrefix(fromServer, ReadBody(n))
  <1> DEFINE rest == SubSeq(fromServer, n + 1, Len(fromServer))
             body == ReadBody(n)
  <1>1. /\ body \in Seq(Item) /\ Len(body) = n
        /\ \A i \in 1 .. n : body[i] = IF i <= Len(fromServer) THEN fromServer[i] ELSE Junk
    BY ReadBodyType DEF ReadBody
  <1>2. Len(fromServer) \in Nat
    BY LenProperties
  <1>3. \A i \in (n + 1) .. Len(fromServer) : fromServer[i] \in Item
    BY <1>2, ElementOfSeq
  <1>4. /\ rest \in Seq(Item)
        /\ Len(rest) = IF n + 1 <= Len(fromServer) THEN Len(fromServer) - n ELSE 0
        /\ \A i \in 1 .. Len(fromServer) - n : rest[i] = fromServer[n + i]
    <2>1. /\ rest \in Seq(Item)
          /\ Len(rest) = IF n + 1 <= Len(fromServer)
                           THEN Len(fromServer) - (n + 1) + 1 ELSE 0
          /\ \A i \in 1 .. Len(fromServer) - (n + 1) + 1 :
                rest[i] = fromServer[(n + 1) + i - 1]
      BY <1>2, <1>3, SubSeqProperties
    <2> QED
      BY <1>2, <2>1
  <1> HIDE DEF rest, body
  <1>5. ASSUME rest # <<>> PROVE body \o rest = fromServer
    <2>1. n + 1 <= Len(fromServer) /\ Len(rest) = Len(fromServer) - n
      BY <1>2, <1>4, <1>5, EmptySeq
    <2>2. /\ body \o rest \in Seq(Item)
          /\ Len(body \o rest) = n + Len(rest)
          /\ \A i \in 1 .. n + Len(rest) :
                (body \o rest)[i] = IF i <= n THEN body[i] ELSE rest[i - n]
      BY <1>1, <1>4, ConcatProperties
    <2>3. \A i \in 1 .. Len(fromServer) : (body \o rest)[i] = fromServer[i]
      <3> SUFFICES ASSUME NEW i \in 1 .. Len(fromServer)
                   PROVE  (body \o rest)[i] = fromServer[i]
        OBVIOUS
      <3>1. CASE i <= n
        BY <1>1, <1>2, <2>1, <2>2, <3>1
      <3>2. CASE ~(i <= n)
        <4>1. i - n \in 1 .. Len(fromServer) - n
          BY <1>2, <3>2
        <4>2. rest[i - n] = fromServer[n + (i - n)]
          BY <1>4, <4>1
        <4> QED
          BY <1>2, <2>1, <2>2, <3>2, <4>2
      <3> QED
        BY <3>1, <3>2
    <2>4. /\ body \o rest \in Seq(Item)
          /\ Len(body \o rest) = Len(fromServer)
          /\ \A i \in 1 .. Len(body \o rest) : (body \o rest)[i] = fromServer[i]
      BY <1>2, <2>1, <2>2, <2>3
    <2> QED
      BY <2>4, SeqEqual
  <1>6. ASSUME rest = <<>> PROVE IsPrefix(fromServer, body)
    <2>1. Len(fromServer) <= n
      BY <1>2, <1>4, <1>6
    <2>2. \A i \in 1 .. Len(fromServer) : body[i] = fromServer[i] /\ body[i] \in Item
      BY <1>1, <1>2, <2>1, ElementOfSeq
    <2>3. /\ SubSeq(body, 1, Len(fromServer)) \in Seq(Item)
          /\ Len(SubSeq(body, 1, Len(fromServer))) = Len(fromServer)
          /\ \A i \in 1 .. Len(fromServer) :
                SubSeq(body, 1, Len(fromServer))[i] = fromServer[i]
      <3>1. /\ SubSeq(body, 1, Len(fromServer)) \in Seq(Item)
            /\ Len(SubSeq(body, 1, Len(fromServer))) =
                  IF 1 <= Len(fromServer) THEN Len(fromServer) - 1 + 1 ELSE 0
            /\ \A i \in 1 .. Len(fromServer) - 1 + 1 :
                  SubSeq(body, 1, Len(fromServer))[i] = body[1 + i - 1]
        BY <1>2, <2>2, SubSeqProperties
      <3> QED
        BY <1>2, <2>2, <3>1
    <2>4. SubSeq(body, 1, Len(fromServer)) = fromServer
      BY <2>3, SeqEqual
    <2> QED
      BY <1>1, <2>1, <2>4 DEF IsPrefix
  <1> QED
    BY <1>5, <1>6 DEF rest, body

\* An iteration of the header loop keeps the items in order.
LEMMA HeaderInOrder ==
    ASSUME TypeCorrect, ItemsInOrder, HeaderLine, UNCHANGED sent
    PROVE  ItemsInOrder'
  <1>1. /\ fromServer \in Seq(Item) /\ toClient \in Seq(Item) /\ response \in Seq(Item)
        /\ ReadLine(fromServer) \in Item
    BY ReadLineType DEF TypeCorrect
  <1>2. /\ toClient' = toClient \o <<ReadLine(fromServer)>>
        /\ fromServer' = Rest(fromServer) /\ response' = response
    BY DEF HeaderLine, Keep, sent
  <1>3. toClient \o <<ReadLine(fromServer)>> \in Seq(Item)
    BY <1>1, ConcatProperties
  <1>4. CASE fromServer = <<>>
    <2>1. IsPrefix(response, toClient) /\ <<ReadLine(fromServer)>> \in Seq(Item)
      BY <1>1, <1>4 DEF ItemsInOrder
    <2>2. IsPrefix(response, toClient \o <<ReadLine(fromServer)>>)
      BY <1>1, <2>1, PrefixOfConcat
    <2> QED
      BY <1>2, <1>4, <2>2 DEF ItemsInOrder, Rest
  <1>5. CASE fromServer # <<>>
    <2>1. ReadLine(fromServer) = Head(fromServer) /\ Rest(fromServer) = Tail(fromServer)
      BY <1>5 DEF ReadLine, Rest
    <2>2. toClient \o fromServer = response
      BY <1>5 DEF ItemsInOrder
    <2>3. toClient' \o fromServer' = response
      BY <1>1, <1>2, <1>5, <2>1, <2>2, TakeFirst
    <2>4. toClient' \in Seq(Item)
      BY <1>2, <1>3
    <2>5. CASE fromServer' = <<>>
      <3>1. toClient' = response
        BY <2>3, <2>4, <2>5, ConcatEmptySeq
      <3> QED
        BY <1>1, <1>2, <2>5, <3>1, PrefixOfItself DEF ItemsInOrder
    <2> QED
      BY <1>2, <2>3, <2>5 DEF ItemsInOrder
  <1> QED
    BY <1>4, <1>5

\* What has been sent before stands before both.
LEMMA PrefixBehind ==
    ASSUME NEW S, NEW t \in Seq(S), NEW s \in Seq(S), NEW u \in Seq(S), IsPrefix(s, u)
    PROVE  IsPrefix(t \o s, t \o u)
  <1>1. Len(s) <= Len(u) /\ SubSeq(u, 1, Len(s)) = s
    BY SubSeqFull DEF IsPrefix
  <1>2. Len(s) \in Nat /\ Len(t) \in Nat /\ Len(u) \in Nat
    BY LenProperties
  <1>3. \A i \in 1 .. Len(s) : s[i] = u[i]
    BY <1>1, <1>2, ElementOfSeq, SubSeqProperties
  <1> DEFINE short == t \o s
             long  == t \o u
             k     == Len(t) + Len(s)
             p     == SubSeq(long, 1, k)
  <1>4. /\ short \in Seq(S) /\ Len(short) = k
        /\ \A i \in 1 .. k : short[i] = IF i <= Len(t) THEN t[i] ELSE s[i - Len(t)]
    BY ConcatProperties
  <1>5. /\ long \in Seq(S) /\ Len(long) = Len(t) + Len(u)
        /\ \A i \in 1 .. Len(t) + Len(u) :
              long[i] = IF i <= Len(t) THEN t[i] ELSE u[i - Len(t)]
    BY ConcatProperties
  <1>6. k \in Nat /\ k <= Len(long)
    BY <1>1, <1>2, <1>5
  <1>7. \A i \in 1 .. k : long[i] = short[i]
    <2> HIDE DEF short, long
    <2> QED
      BY <1>1, <1>2, <1>3, <1>4, <1>5
  <1> HIDE DEF short, long, k
  <1>8. \A i \in 1 .. k : long[i] \in S
    BY <1>5, <1>6, ElementOfSeq, LenProperties
  <1>9. /\ p \in Seq(S)
        /\ Len(p) = IF 1 <= k THEN k - 1 + 1 ELSE 0
        /\ \A i \in 1 .. k - 1 + 1 : p[i] = long[1 + i - 1]
    BY <1>6, <1>8, SubSeqProperties
  <1> HIDE DEF p
  <1>10. Len(p) = k /\ \A i \in 1 .. k : p[i] = short[i]
    BY <1>6, <1>7, <1>9
  <1>11. p = short
    BY <1>4, <1>9, <1>10, SeqEqual
  <1>12. Len(short) <= Len(long) /\ SubSeq(long, 1, Len(short)) = short
    BY <1>4, <1>6, <1>11 DEF p
  <1> QED
    BY <1>4, <1>5, <1>12 DEF IsPrefix, short, long

\* So does the body.
LEMMA BodyInOrder ==
    ASSUME TypeCorrect, ItemsInOrder, Body, UNCHANGED sent
    PROVE  ItemsInOrder'
  <1> DEFINE n == content_len
             rest == SubSeq(fromServer, n + 1, Len(fromServer))
  <1>1. n \in Nat
    BY DEF Body, TypeCorrect
  <1>2. /\ fromServer \in Seq(Item) /\ toClient \in Seq(Item) /\ response \in Seq(Item)
        /\ ReadBody(n) \in Seq(Item)
    BY <1>1, ReadBodyType DEF TypeCorrect
  <1>3. /\ toClient' = toClient \o ReadBody(n) /\ fromServer' = rest
        /\ response' = response
    BY DEF Body, Keep, sent
  <1>4. /\ rest # <<>> => ReadBody(n) \o rest = fromServer
        /\ rest = <<>> => IsPrefix(fromServer, ReadBody(n))
    BY <1>1, <1>2, ReadBodyTakes
  <1>5. rest \in Seq(Item)
    <2>1. \A i \in (n + 1) .. Len(fromServer) : fromServer[i] \in Item
      BY <1>1, <1>2, ElementOfSeq, LenProperties
    <2> QED
      BY <1>1, <1>2, <2>1, SubSeqProperties, LenProperties
  <1> HIDE DEF rest, n
  <1>6. CASE fromServer = <<>>
    <2>1. rest = <<>>
      <3>1. ReadBody(n) \o rest = <<>> => rest = <<>>
        BY <1>2, <1>5, ConcatEqualIffEmpty
      <3> QED
        BY <1>4, <1>6, <3>1
    <2>2. IsPrefix(response, toClient)
      BY <1>6 DEF ItemsInOrder
    <2>3. IsPrefix(response, toClient \o ReadBody(n))
      BY <1>2, <2>2, PrefixOfConcat
    <2> QED
      BY <1>3, <2>1, <2>3 DEF ItemsInOrder
  <1>7. CASE fromServer # <<>>
    <2>1. toClient \o fromServer = response
      BY <1>7 DEF ItemsInOrder
    <2>2. CASE rest # <<>>
      <3>1. (toClient \o ReadBody(n)) \o rest = toClient \o (ReadBody(n) \o rest)
        BY <1>2, <1>5, ConcatAssociative
      <3> QED
        BY <1>3, <1>4, <2>1, <2>2, <3>1 DEF ItemsInOrder
    <2>3. CASE rest = <<>>
      <3>1. IsPrefix(toClient \o fromServer, toClient \o ReadBody(n))
        BY <1>2, <1>4, <2>3, PrefixBehind
      <3> QED
        BY <1>3, <2>1, <2>3, <3>1 DEF ItemsInOrder
    <2> QED
      BY <2>2, <2>3
  <1> QED
    BY <1>6, <1>7

LEMMA OrderKept == Inv /\ ItemsInOrder /\ [Next]_vars => ItemsInOrder'
  <1> SUFFICES ASSUME Inv, ItemsInOrder, [Next]_vars PROVE ItemsInOrder'
    OBVIOUS
  <1>1. CASE HeaderLine /\ UNCHANGED sent
    BY <1>1, HeaderInOrder DEF Inv
  <1>2. CASE Body /\ UNCHANGED sent
    BY <1>2, BodyInOrder DEF Inv
  <1>3. CASE (ClientLine \/ EnterResponse \/ HeaderFault \/ BodyFault) /\ UNCHANGED sent
    BY <1>3
    DEF ClientLine, EnterResponse, HeaderFault, BodyFault, Crash, answer, input, sent,
        ItemsInOrder
  <1>4. CASE Spin \/ Stopped \/ UNCHANGED vars
    BY <1>4 DEF Spin, Stopped, vars, sent, input, answer, ItemsInOrder
  <1> QED
    BY <1>1, <1>2, <1>3, <1>4 DEF Next, Step

(* Whatever a server sends and wherever it stops, the client gets its      *)
(* items from the first on, each once and in order: the first part of      *)
(* ResponseRelayed (the second takes a Content-Length out of the lines     *)
(* with SelectSeq, which the provers cannot unfold).                       *)
THEOREM ResponseInOrder == Spec => []ItemsInOrder
  <1>1. Init => ItemsInOrder
    <2> SUFFICES ASSUME Init PROVE ItemsInOrder
      OBVIOUS
    <2>1. response \in Seq(Item) /\ fromServer = response /\ toClient = <<>>
      BY InputAssumption DEF Init
    <2>2. <<>> \o response = response
      BY <2>1, ConcatEmptySeq
    <2>3. IsPrefix(<<>>, <<>>)
      BY PrefixOfItself, EmptySeq
    <2> QED
      BY <2>1, <2>2, <2>3 DEF ItemsInOrder
  <1> QED
    BY <1>1, Initial, Preserved, OrderKept, PTL DEF Spec

=============================================================================
