-------------------------- MODULE HttpClientProofs ---------------------------
(***************************************************************************)
(* What holds of a connection, for requests of any size, any number of     *)
(* them and of connections, a buffer and a socket of any size.             *)
(*                                                                         *)
(* StreamInv says where the thread is in the stream: what the buffer and   *)
(* the socket hold begins with the present request until run() goes on to  *)
(* the next one, and i and unread together are the size of it.  TalkInv    *)
(* says, for each place the thread may be at, how far the conversation has *)
(* come, and that g_http_cancel and should_send_error_if_canceled_ are     *)
(* both set only while a first response to the present request is due.     *)
(***************************************************************************)
EXTENDS HttpClient, SequenceLemmas

Unit == (Nat \ {0}) \X (Nat \ {0})

Message ==
    Nat \X {"continue", "whole", "error", "start", "piece", "last", "cut", "503"} \X BOOLEAN

Size(s, k) == s[k].head + s[k].body

-----------------------------------------------------------------------------
\* The stream.

LEMMA UnitsOf ==
    ASSUME NEW s \in Seq(Requests), NEW k \in 1..Len(s)
    PROVE  /\ Units(s, k) \in Seq(Unit) /\ Len(Units(s, k)) = Size(s, k)
           /\ Size(s, k) \in Nat \ {0}
           /\ s[k].head \in Nat \ {0} /\ s[k].body \in Nat
           /\ \A j \in 1..Size(s, k) : Units(s, k)[j] = <<k, j>>
<1>1. s[k] \in Requests /\ k \in Nat \ {0}
  OBVIOUS
<1>2. s[k].head \in Nat \ {0} /\ s[k].body \in Nat
  BY <1>1, RequestsAssumption
<1>3. Size(s, k) \in Nat \ {0}
  BY <1>2 DEF Size
<1>4. \A j \in 1..Size(s, k) : <<k, j>> \in Unit
  BY <1>1, <1>3 DEF Unit
<1>5. Units(s, k) = [j \in 1..Size(s, k) |-> <<k, j>>]
  BY DEF Units, Size
<1> QED
  BY <1>2, <1>3, <1>4, <1>5

LEMMA StreamEnds ==
    ASSUME NEW s \in Seq(Requests), NEW k \in Int, k > Len(s)
    PROVE  StreamFrom(s, k) = <<>>
<1>1. [n \in 1..(Len(s) - k + 1) |-> Units(s, k + n - 1)] = <<>>
  OBVIOUS
<1>2. FlattenSeq(<<>>) = <<>>
  BY DEF FlattenSeq
<1> QED
  BY <1>1, <1>2 DEF StreamFrom

LEMMA StreamBegins ==
    ASSUME NEW s \in Seq(Requests), NEW k \in 1..Len(s)
    PROVE  /\ StreamFrom(s, k) = Units(s, k) \o StreamFrom(s, k + 1)
           /\ StreamFrom(s, k) \in Seq(Unit) /\ StreamFrom(s, k + 1) \in Seq(Unit)
<1> DEFINE m == Len(s) - k
           here == [n \in 1..m + 1 |-> Units(s, k + n - 1)]
           next == [n \in 1..m |-> Units(s, (k + 1) + n - 1)]
<1>1. m \in Nat /\ Len(s) \in Nat /\ k \in Nat
  OBVIOUS
<1>2. \A n \in 1..m + 1 : Units(s, k + n - 1) \in Seq(Unit)
  <2> TAKE n \in 1..m + 1
  <2>1. k + n - 1 \in 1..Len(s)
    BY <1>1
  <2> QED
    BY <2>1, UnitsOf
<1>3. here \in Seq(Seq(Unit)) /\ Len(here) = m + 1 /\ here # <<>>
  <2> DEFINE U == Seq(Unit)
             F == [n \in 1..m + 1 |-> Units(s, k + n - 1)]
  <2>1. \A n \in 1..m + 1 : Units(s, k + n - 1) \in U
    BY <1>2
  <2> HIDE DEF U, m
  <2>2. F \in [1..m + 1 -> U]
    BY <2>1
  <2>3. m + 1 \in Nat /\ m + 1 # 0
    BY <1>1
  <2> HIDE DEF F
  <2>4. F \in Seq(U) /\ Len(F) = m + 1
    BY <2>2, <2>3
  <2>5. F # <<>>
    BY <2>3, <2>4
  <2> QED
    BY <2>4, <2>5 DEF F, U
<1>4. Tail(here) = next
  <2>1. Tail(here) = [n \in 1..m |-> here[n + 1]]
    BY <1>1, <1>3
  <2>2. \A n \in 1..m : here[n + 1] = Units(s, (k + 1) + n - 1)
    <3> TAKE n \in 1..m
    <3>1. n + 1 \in 1..m + 1 /\ k + (n + 1) - 1 = (k + 1) + n - 1
      BY <1>1
    <3> QED
      BY <3>1
  <2> QED
    BY <2>1, <2>2
<1>5. here[1] = Units(s, k)
  <2>1. 1 \in 1..m + 1 /\ k + 1 - 1 = k
    BY <1>1
  <2> QED
    BY <2>1
<1>6. StreamFrom(s, k) = FlattenSeq(here) /\ StreamFrom(s, k + 1) = FlattenSeq(next)
  <2>1. Len(s) - (k + 1) + 1 = m
    BY <1>1
  <2> QED
    BY <2>1 DEF StreamFrom
<1>7. next \in Seq(Seq(Unit))
  <2> HIDE DEF here, next
  <2> QED
    BY <1>3, <1>4, HeadTailProperties
<1> HIDE DEF here, next
<1> QED
  BY <1>3, <1>4, <1>5, <1>6, <1>7, FlattenTail, FlattenType

LEMMA StreamType ==
    ASSUME NEW s \in Seq(Requests), NEW k \in Nat \ {0}
    PROVE  StreamFrom(s, k) \in Seq(Unit)
<1>1. CASE k \in 1..Len(s)
  BY <1>1, StreamBegins
<1>2. CASE k > Len(s)
  <2>1. k \in Int /\ <<>> \in Seq(Unit)
    OBVIOUS
  <2> QED
    BY <1>2, <2>1, StreamEnds
<1> QED
  BY <1>1, <1>2

\* What has arrived of a stream tells which request is next.
LEMMA FirstOfStream ==
    ASSUME NEW s \in Seq(Requests), NEW k \in Nat \ {0},
           NEW a \in Seq(Unit), a # <<>>, IsPrefix(a, StreamFrom(s, k))
    PROVE  k \in 1..Len(s) /\ a[1] = <<k, 1>>
<1>1. StreamFrom(s, k) \in Seq(Unit)
  BY StreamType
<1>2. Len(a) <= Len(StreamFrom(s, k)) /\ Len(a) \in Nat \ {0}
  BY DEF IsPrefix
<1>3. k \in 1..Len(s)
  <2>1. CASE k > Len(s)
    <3>1. StreamFrom(s, k) = <<>>
      BY <2>1, StreamEnds
    <3> QED
      BY <1>2, <3>1
  <2> QED
    BY <2>1
<1>4. StreamFrom(s, k)[1] = <<k, 1>>
  <2>1. /\ StreamFrom(s, k) = Units(s, k) \o StreamFrom(s, k + 1)
        /\ Units(s, k) \in Seq(Unit) /\ StreamFrom(s, k + 1) \in Seq(Unit)
        /\ Len(Units(s, k)) \in Nat \ {0} /\ Units(s, k)[1] = <<k, 1>>
    BY <1>3, StreamBegins, UnitsOf
  <2> QED
    BY <2>1
<1>5. a[1] = StreamFrom(s, k)[1]
  <2>1. SubSeq(a, 1, Len(a))[1] = SubSeq(StreamFrom(s, k), 1, Len(a))[1]
    BY DEF IsPrefix
  <2> QED
    BY <1>1, <1>2, <2>1
<1> QED
  BY <1>3, <1>4, <1>5

-----------------------------------------------------------------------------
\* Where the thread is in the stream.

Live == pc \notin {"accept", "exit", "gone"}

\* A request was parsed, and is in the buffer from its first unit.
Busy == Live /\ pc # "read"

Refused == pc = "send" /\ sending = "error"

\* The body has not been touched.
AtBody == pc \in {"transport", "dispatch", "payload"} \/ (pc = "send" /\ sending = "continue")

Aligned(data, s, k, gone) ==
    /\ IsPrefix(data, StreamFrom(s, k))
    /\ ~gone => data = StreamFrom(s, k)

StreamInv ==
    /\ TypeOK
    /\ Live => Len(script) <= MaxRequests
    /\ pc = "read" => /\ i = 0 /\ unread = 0 /\ msg <= Len(script)
                      /\ Aligned(ibuf \o wire, script, msg + 1, hangup)
    /\ Busy => /\ msg \in 1..Len(script) /\ i <= Len(ibuf)
               /\ Aligned(ibuf \o wire, script, msg, hangup)
    /\ AtBody => i = request.head /\ (pc # "transport" => unread = request.body)
    /\ Busy /\ pc # "transport" /\ ~Refused =>
           i + unread = Size(script, msg) /\ i + unread <= BufferSize
    /\ pc = "handle" => payload = SubSeq(Units(script, msg), request.head + 1, Size(script, msg))

LEMMA Bounds ==
    /\ MaxRequests \in Nat /\ MaxConnections \in Nat /\ MaxPieces \in Nat
    /\ BufferSize \in Nat /\ SocketRoom \in Nat
BY RequestsAssumption

\* TypeOK without the sets of three.
LEMMA Typed ==
    TypeOK <=>
        /\ pc \in {"accept", "read", "transport", "dispatch", "payload", "handle",
                   "send", "stream", "sync", "exit", "gone"}
        /\ script \in Seq(Requests)
        /\ wire \in Seq(Unit) /\ ibuf \in Seq(Unit) /\ payload \in Seq(Unit)
        /\ hangup \in BOOLEAN /\ close \in BOOLEAN /\ flag \in BOOLEAN /\ key \in BOOLEAN
        /\ cancelled \in BOOLEAN
        /\ room \in 0..SocketRoom
        /\ out \in Seq(Message)
        /\ i \in 0..BufferSize /\ Len(ibuf) <= BufferSize
        /\ msg \in 0..MaxRequests
        /\ unread \in 0..BufferSize
        /\ sending \in {"nothing", "continue", "whole", "error", "start", "piece", "last"}
        /\ connections \in 0..MaxConnections
BY DEF TypeOK, Unit, Message

LEMMA StreamInStep == StreamInv => InStep
<1> SUFFICES ASSUME StreamInv PROVE InStep
  OBVIOUS
<1> DEFINE rest == SubSeq(ibuf, i + 1, Len(ibuf)) \o wire
           body == Units(script, msg)
           pending == IF pc = "transport" THEN request.body ELSE unread
           mine == IF msg = 0 THEN <<>> ELSE SubSeq(body, Len(body) - pending + 1, Len(body))
           expected == mine \o StreamFrom(script, msg + 1)
<1>1. /\ ibuf \in Seq(Unit) /\ wire \in Seq(Unit) /\ script \in Seq(Requests)
      /\ i \in Nat /\ unread \in Nat /\ msg \in Nat /\ BufferSize \in Nat /\ Len(ibuf) \in Nat
      /\ pc = "handle" => payload = SubSeq(body, request.head + 1, Size(script, msg))
  BY Typed, Bounds, SMTT(30) DEF StreamInv
<1>2. ibuf \o wire \in Seq(Unit)
  BY <1>1
<1>3. PayloadFits
  BY <1>1 DEF StreamInv, PayloadFits, Needy, Space, Busy, Live, Refused
<1>4. ASSUME Live, ~Refused PROVE IsPrefix(rest, expected) /\ (~hangup => rest = expected)
  <2>1. CASE pc = "read"
    <3>1. i = 0 /\ unread = 0 /\ msg <= Len(script) /\ Aligned(ibuf \o wire, script, msg + 1, hangup)
      BY <2>1 DEF StreamInv
    <3>2. rest = ibuf \o wire
      <4>1. SubSeq(ibuf, 1, Len(ibuf)) = ibuf
        BY <1>1, SubSeqFull
      <4>2. i + 1 = 1
        BY <3>1
      <4> QED
        BY <4>1, <4>2
    <3>3. mine = <<>>
      <4>1. CASE msg = 0
        BY <4>1
      <4>2. CASE msg # 0
        <5>1. msg \in 1..Len(script)
          BY <1>1, <3>1, <4>2
        <5>2. Len(body) \in Nat /\ pending = 0
          BY <2>1, <3>1, <5>1, UnitsOf
        <5>3. Len(body) - pending + 1 \in Int /\ Len(body) \in Int
              /\ Len(body) < Len(body) - pending + 1
          BY <5>2
        <5> QED
          BY <4>2, <5>3, SubSeqEmpty
      <4> QED
        BY <4>1, <4>2
    <3>4. expected = StreamFrom(script, msg + 1)
      <4>1. msg + 1 \in Nat \ {0}
        BY <1>1
      <4>2. StreamFrom(script, msg + 1) \in Seq(Unit)
        BY <1>1, <4>1, StreamType
      <4> HIDE DEF mine
      <4> QED
        BY <3>3, <4>2, ConcatEmptySeq
    <3> QED
      BY <3>1, <3>2, <3>4 DEF Aligned
  <2>2. CASE pc # "read"
    <3>1. msg \in 1..Len(script) /\ i <= Len(ibuf) /\ Aligned(ibuf \o wire, script, msg, hangup)
      BY <1>4, <2>2 DEF StreamInv, Busy
    <3>2. /\ body \in Seq(Unit) /\ Len(body) = Size(script, msg) /\ Size(script, msg) \in Nat
          /\ request.head \in Nat /\ request.body \in Nat
          /\ Size(script, msg) = request.head + request.body
          /\ StreamFrom(script, msg) = body \o StreamFrom(script, msg + 1)
          /\ StreamFrom(script, msg + 1) \in Seq(Unit) /\ StreamFrom(script, msg) \in Seq(Unit)
      BY <1>1, <3>1, UnitsOf, StreamBegins DEF request, Size
    <3>3. pending \in Nat /\ i + pending = Len(body)
      <4>1. CASE pc = "transport"
        BY <1>1, <3>2, <4>1 DEF StreamInv, AtBody
      <4>2. CASE pc # "transport"
        BY <1>1, <1>4, <2>2, <3>2, <4>2 DEF StreamInv, Busy
      <4> QED
        BY <4>1, <4>2
    <3>4. mine = Drop(body, i) /\ i \in 0..Len(body)
      <4>1. Len(body) - pending + 1 = i + 1 /\ msg # 0
        <5> DEFINE size == Len(body)
        <5>1. size \in Nat /\ pending \in Nat /\ i \in Nat /\ i + pending = size
          BY <1>1, <3>2, <3>3
        <5> HIDE DEF size, pending
        <5>2. size - pending + 1 = i + 1
          BY <5>1
        <5>3. msg # 0
          BY <3>1
        <5> QED
          BY <5>2, <5>3 DEF size
      <4>2. i \in 0..Len(body)
        BY <1>1, <3>2, <3>3
      <4> QED
        BY <4>1, <4>2 DEF Drop
    <3>5. i \in 0..Len(ibuf) /\ rest = Drop(ibuf, i) \o wire
      BY <1>1, <3>1 DEF Drop
    <3> HIDE DEF body, mine, pending
    <3>6. expected = Drop(StreamFrom(script, msg), i)
      BY <3>2, <3>4, DropOfConcat
    <3>7. rest = Drop(ibuf \o wire, i)
      BY <1>1, <3>5, DropOfConcat
    <3>8. i \in 0..Len(ibuf \o wire)
      BY <1>1, <3>5
    <3> HIDE DEF rest, expected
    <3>9. IsPrefix(rest, expected)
      BY <1>2, <3>1, <3>2, <3>6, <3>7, <3>8, DropPrefix DEF Aligned
    <3>10. ~hangup => rest = expected
      BY <3>1, <3>6, <3>7 DEF Aligned
    <3> QED
      BY <3>9, <3>10
  <2> QED
    BY <2>1, <2>2
<1>5. pc = "handle" => payload = SubSeq(body, request.head + 1, Len(body))
  <2> SUFFICES ASSUME pc = "handle" PROVE payload = SubSeq(body, request.head + 1, Len(body))
    OBVIOUS
  <2>1. msg \in 1..Len(script)
    BY DEF StreamInv, Busy, Live
  <2>2. Len(body) = Size(script, msg)
    BY <1>1, <2>1, UnitsOf
  <2> QED
    BY <1>1, <2>2
<1> QED
  BY <1>3, <1>4, <1>5 DEF InStep, Live, Refused

-----------------------------------------------------------------------------
\* The steps.

\* More of the stream is read into the buffer.
LEMMA MoreReceived ==
    ASSUME TypeOK, Receive
    PROVE  /\ ibuf' \in Seq(Unit) /\ wire' \in Seq(Unit)
           /\ Len(ibuf') \in Nat /\ Len(ibuf) <= Len(ibuf') /\ Len(ibuf') <= BufferSize
           /\ ibuf' \o wire' = ibuf \o wire
<1>1. /\ wire \in Seq(Unit) /\ ibuf \in Seq(Unit) /\ Len(ibuf) \in Nat /\ Len(wire) \in Nat
      /\ BufferSize \in Nat
  BY Typed, Bounds
<1>2. PICK n \in 1..Len(wire) :
          /\ n <= Space
          /\ ibuf' = ibuf \o SubSeq(wire, 1, n) /\ wire' = SubSeq(wire, n + 1, Len(wire))
  BY DEF Receive
<1>3. n \in 0..Len(wire) /\ n <= BufferSize - Len(ibuf)
  BY <1>1, <1>2 DEF Space
<1>4. /\ (ibuf \o SubSeq(wire, 1, n)) \o SubSeq(wire, n + 1, Len(wire)) = ibuf \o wire
      /\ SubSeq(wire, 1, n) \in Seq(Unit) /\ SubSeq(wire, n + 1, Len(wire)) \in Seq(Unit)
      /\ Len(SubSeq(wire, 1, n)) = n
  BY <1>1, <1>3, MovedOver
<1> DEFINE c == SubSeq(wire, 1, n)
<1>5. c \in Seq(Unit) /\ Len(c) = n /\ n \in Nat
  BY <1>3, <1>4
<1> HIDE DEF c
<1>6. ibuf \o c \in Seq(Unit) /\ Len(ibuf \o c) = Len(ibuf) + n
  BY <1>1, <1>5
<1>7. Len(ibuf') = Len(ibuf) + n /\ ibuf' \in Seq(Unit) /\ wire' \in Seq(Unit)
  BY <1>2, <1>4, <1>6 DEF c
<1>8. ibuf' \o wire' = ibuf \o wire
  BY <1>2, <1>4
<1>9. Len(ibuf') \in Nat /\ Len(ibuf) <= Len(ibuf') /\ Len(ibuf') <= BufferSize
  <2> DEFINE a == Len(ibuf)
             b == Len(ibuf')
  <2>1. a \in Nat /\ b = a + n /\ n \in Nat /\ n <= BufferSize - a /\ BufferSize \in Nat
    BY <1>1, <1>3, <1>5, <1>7
  <2> HIDE DEF a, b
  <2>2. b \in Nat /\ a <= b /\ b <= BufferSize
    BY <2>1
  <2> QED
    BY <2>2 DEF a, b
<1> QED
  BY <1>7, <1>8, <1>9

\* What is next in the buffer is the request after the last one.
LEMMA ParsedNext ==
    ASSUME StreamInv, pc = "read", Complete
    PROVE  /\ ibuf[1][1] = msg + 1 /\ msg + 1 \in 1..Len(script)
           /\ script[msg + 1].head \in Nat \ {0} /\ script[msg + 1].head <= Len(ibuf)
<1>1. /\ ibuf \in Seq(Unit) /\ wire \in Seq(Unit) /\ script \in Seq(Requests) /\ msg \in Nat
      /\ IsPrefix(ibuf \o wire, StreamFrom(script, msg + 1))
  BY Typed, Bounds DEF StreamInv, Aligned
<1>2. ibuf # <<>> /\ Len(ibuf) >= script[ibuf[1][1]].head
  BY DEF Complete
<1>3. ibuf \o wire \in Seq(Unit) /\ ibuf \o wire # <<>> /\ (ibuf \o wire)[1] = ibuf[1]
  BY <1>1, <1>2
<1>4. msg + 1 \in Nat \ {0}
  BY <1>1
<1>5. msg + 1 \in 1..Len(script) /\ (ibuf \o wire)[1] = <<msg + 1, 1>>
  BY <1>1, <1>3, <1>4, FirstOfStream
<1>6. ibuf[1][1] = msg + 1
  BY <1>3, <1>5
<1>7. script[msg + 1].head \in Nat \ {0}
  BY <1>1, <1>5, UnitsOf
<1> QED
  BY <1>1, <1>2, <1>5, <1>6, <1>7

LEMMA ConnectStream == StreamInv /\ Connect => StreamInv'
<1> SUFFICES ASSUME StreamInv, Connect PROVE StreamInv'
  OBVIOUS
<1>1. PICK n \in 1..MaxRequests : script' \in [1..n -> Requests]
  BY DEF Connect
<1>2. script' \in Seq(Requests) /\ Len(script') \in 1..MaxRequests
  BY <1>1, Bounds
<1>3. wire' \in Seq(Unit) /\ wire' = StreamFrom(script', 1)
  BY <1>2, StreamType DEF Connect
<1>4. ibuf' = <<>> /\ i' = 0 /\ msg' = 0 /\ unread' = 0 /\ payload' = <<>> /\ pc' = "read"
      /\ close' = FALSE /\ out' = <<>> /\ room' = SocketRoom /\ hangup' = FALSE
      /\ connections' = connections + 1 /\ connections < MaxConnections
      /\ sending' = sending /\ flag' = flag /\ key' = key /\ cancelled' = cancelled
  BY DEF Connect, Clear
<1>5. Aligned(ibuf' \o wire', script', msg' + 1, hangup')
  <2>1. <<>> \o wire' = wire'
    BY <1>3, ConcatEmptySeq
  <2>2. IsPrefix(wire', wire')
    BY <1>3, PrefixIs
  <2>3. ibuf' \o wire' = wire' /\ msg' + 1 = 1
    BY <1>4, <2>1
  <2> QED
    BY <1>3, <2>2, <2>3 DEF Aligned
<1>6. TypeOK'
  <2>1. /\ sending \in {"nothing", "continue", "whole", "error", "start", "piece", "last"}
        /\ flag \in BOOLEAN /\ key \in BOOLEAN /\ cancelled \in BOOLEAN
        /\ connections + 1 \in 0..MaxConnections
    BY <1>4, Typed, Bounds, SMTT(30) DEF StreamInv
  <2>2. /\ <<>> \in Seq(Unit) /\ Len(<<>>) = 0 /\ 0 \in 0..MaxRequests
        /\ 0 \in 0..BufferSize /\ 0 <= BufferSize /\ SocketRoom \in 0..SocketRoom
        /\ <<>> \in Seq(Message)
    BY Bounds
  <2> QED
    BY <1>2, <1>3, <1>4, <2>1, <2>2 DEF TypeOK, Unit, Message
<1> QED
  BY <1>2, <1>4, <1>5, <1>6, Bounds DEF StreamInv, Live, Busy, AtBody, Refused

LEMMA ReceiveStream == StreamInv /\ (ReadRequest \/ ReceivePayload) => StreamInv'
<1> SUFFICES ASSUME StreamInv, ReadRequest \/ ReceivePayload PROVE StreamInv'
  OBVIOUS
<1>1. /\ pc' = pc /\ script' = script /\ hangup' = hangup /\ room' = room /\ out' = out
      /\ i' = i /\ msg' = msg /\ unread' = unread /\ payload' = payload /\ close' = close
      /\ sending' = sending /\ flag' = flag /\ key' = key /\ cancelled' = cancelled
      /\ connections' = connections /\ Receive /\ pc \in {"read", "payload", "sync"}
  BY DEF ReadRequest, ReceivePayload, client
<1>2. /\ ibuf' \in Seq(Unit) /\ wire' \in Seq(Unit)
      /\ Len(ibuf') \in Nat /\ Len(ibuf) <= Len(ibuf') /\ Len(ibuf') <= BufferSize
      /\ ibuf' \o wire' = ibuf \o wire
  BY <1>1, MoreReceived DEF StreamInv
<1>3. TypeOK'
  BY <1>1, <1>2 DEF StreamInv, TypeOK, Unit, Message
<1>4. Len(ibuf) \in Nat /\ i \in Nat
  BY Typed, Bounds DEF StreamInv
<1>5. Busy => i <= Len(ibuf')
  BY <1>2, <1>4 DEF StreamInv
<1> QED
  BY <1>1, <1>2, <1>3, <1>5
  DEF StreamInv, Live, Busy, AtBody, Refused, request

LEMMA ParseStream == StreamInv /\ Parse => StreamInv'
<1> SUFFICES ASSUME StreamInv, Parse PROVE StreamInv'
  OBVIOUS
<1>1. /\ pc = "read" /\ Complete /\ msg' = ibuf[1][1] /\ i' = script[msg'].head
      /\ pc' = "transport" /\ script' = script /\ hangup' = hangup /\ wire' = wire
      /\ room' = room /\ out' = out /\ ibuf' = ibuf /\ unread' = unread /\ payload' = payload
      /\ close' = close /\ sending' = sending /\ flag' = flag /\ key' = key
      /\ cancelled' = cancelled /\ connections' = connections
  BY DEF Parse, client
<1>2. /\ msg' = msg + 1 /\ msg' \in 1..Len(script)
      /\ i' \in Nat /\ i' <= Len(ibuf) /\ i' = script[msg'].head
  BY <1>1, ParsedNext
<1>3. Len(script) <= MaxRequests /\ Aligned(ibuf \o wire, script, msg + 1, hangup)
  BY <1>1 DEF StreamInv, Live
<1>4. msg' \in 0..MaxRequests /\ i' \in 0..BufferSize
  <2>1. Len(ibuf) \in Nat /\ Len(ibuf) <= BufferSize /\ BufferSize \in Nat /\ Len(script) \in Nat
        /\ MaxRequests \in Nat
    BY Typed, Bounds, SMTT(30) DEF StreamInv
  <2> QED
    BY <1>2, <1>3, <2>1
<1>5. TypeOK'
  BY <1>1, <1>4 DEF StreamInv, TypeOK, Message
<1> QED
  BY <1>1, <1>2, <1>3, <1>5 DEF StreamInv, Live, Busy, AtBody, Refused, request

\* transport() takes the request or refuses it.
LEMMA TransportStream == StreamInv /\ (Refuse \/ Continue \/ Dispatch) => StreamInv'
<1> SUFFICES ASSUME StreamInv, Refuse \/ Continue \/ Dispatch PROVE StreamInv'
  OBVIOUS
<1>1. /\ pc = "transport" /\ script' = script /\ hangup' = hangup /\ wire' = wire
      /\ room' = room /\ out' = out /\ ibuf' = ibuf /\ i' = i /\ msg' = msg /\ payload' = payload
      /\ cancelled' = cancelled /\ connections' = connections
      /\ flag' \in BOOLEAN /\ key' \in BOOLEAN /\ close' \in BOOLEAN
      /\ \/ pc' = "send" /\ sending' = "error" /\ unread' = unread
         \/ /\ (pc' = "send" /\ sending' = "continue") \/ (pc' = "dispatch" /\ sending' = sending)
            /\ unread' = request.body /\ ~TooLarge
  BY Typed DEF Refuse, Continue, Dispatch, client, parser, StreamInv
<1>2. /\ msg \in 1..Len(script) /\ i <= Len(ibuf) /\ Aligned(ibuf \o wire, script, msg, hangup)
      /\ i = request.head /\ Len(script) <= MaxRequests
  BY <1>1 DEF StreamInv, Live, Busy, AtBody
<1>3. /\ request.head \in Nat /\ request.body \in Nat
      /\ Size(script, msg) = request.head + request.body
  BY <1>2, Typed, UnitsOf DEF StreamInv, request, Size
<1>4. ~TooLarge => i + request.body <= BufferSize /\ request.body \in 0..BufferSize
  BY <1>2, <1>3, Bounds DEF TooLarge
<1>5. TypeOK'
  BY <1>1, <1>4 DEF StreamInv, TypeOK, Message
<1> QED
  BY <1>1, <1>2, <1>3, <1>4, <1>5 DEF StreamInv, Live, Busy, AtBody, Refused, request

\* read_payload has the whole body.
LEMMA PayloadStream == StreamInv /\ PayloadRead => StreamInv'
<1> SUFFICES ASSUME StreamInv, PayloadRead PROVE StreamInv'
  OBVIOUS
<1>1. /\ pc = "payload" /\ ~Needy /\ payload' = SubSeq(ibuf, i + 1, i + unread)
      /\ i' = i + unread /\ unread' = 0 /\ pc' = "handle"
      /\ script' = script /\ hangup' = hangup /\ wire' = wire /\ room' = room /\ out' = out
      /\ ibuf' = ibuf /\ msg' = msg /\ close' = close /\ sending' = sending /\ flag' = flag
      /\ key' = key /\ cancelled' = cancelled /\ connections' = connections
  BY DEF PayloadRead, client
<1>2. /\ msg \in 1..Len(script) /\ Aligned(ibuf \o wire, script, msg, hangup)
      /\ i = request.head /\ unread = request.body
      /\ i + unread = Size(script, msg) /\ i + unread <= BufferSize /\ Len(script) <= MaxRequests
  BY <1>1 DEF StreamInv, Live, Busy, AtBody, Refused
<1>3. /\ ibuf \in Seq(Unit) /\ wire \in Seq(Unit) /\ script \in Seq(Requests)
      /\ i \in Nat /\ unread \in Nat /\ Len(ibuf) \in Nat /\ i + unread \in 0..BufferSize
  BY <1>2, Typed, Bounds, SMTT(30) DEF StreamInv
<1>4. i + unread <= Len(ibuf)
  BY <1>1, <1>3 DEF Needy
<1> DEFINE body == Units(script, msg)
           n == i + unread
<1>5. /\ body \in Seq(Unit) /\ Len(body) = n /\ n \in Nat
      /\ StreamFrom(script, msg) = body \o StreamFrom(script, msg + 1)
      /\ StreamFrom(script, msg + 1) \in Seq(Unit) /\ StreamFrom(script, msg) \in Seq(Unit)
  BY <1>2, <1>3, UnitsOf, StreamBegins
<1>6. \A k \in i + 1..n : ibuf[k] = body[k] /\ ibuf[k] \in Unit /\ body[k] \in Unit
  <2> DEFINE data == ibuf \o wire
             due == StreamFrom(script, msg)
  <2>1. /\ data \in Seq(Unit) /\ Len(data) = Len(ibuf) + Len(wire)
        /\ \A k \in 1..Len(ibuf) : data[k] = ibuf[k]
    BY <1>3
  <2>2. \A k \in 1..n : due[k] = body[k]
    BY <1>5
  <2>3. \A k \in 1..Len(data) : data[k] = due[k]
    <3>1. due \in Seq(Unit) /\ IsPrefix(data, due)
      BY <1>2, <1>5 DEF Aligned
    <3> HIDE DEF data, due
    <3> QED
      BY <2>1, <3>1, PrefixIs
  <2> HIDE DEF data, due, body, n
  <2> TAKE k \in i + 1..n
  <2>4. k \in 1..n /\ k \in 1..Len(ibuf) /\ k \in 1..Len(data)
    <3>1. Len(wire) \in Nat /\ n <= Len(ibuf)
      BY <1>3, <1>4 DEF n
    <3> QED
      BY <1>3, <1>5, <2>1, <3>1
  <2>5. ibuf[k] \in Unit /\ body[k] \in Unit
    BY <1>3, <1>5, <2>4
  <2> QED
    BY <2>1, <2>2, <2>3, <2>4, <2>5
<1>7. SubSeq(ibuf, i + 1, n) = SubSeq(body, i + 1, n) /\ SubSeq(ibuf, i + 1, n) \in Seq(Unit)
  <2> HIDE DEF body, n
  <2> DEFINE a == SubSeq(ibuf, i + 1, n)
             b == SubSeq(body, i + 1, n)
  <2>1. i + 1 \in Int /\ n \in Int
    BY <1>3, <1>5
  <2>2. /\ a \in Seq(Unit) /\ Len(a) = IF i + 1 <= n THEN n - (i + 1) + 1 ELSE 0
        /\ \A j \in 1..n - (i + 1) + 1 : a[j] = ibuf[(i + 1) + j - 1]
    BY <1>6, <2>1, SubSeqProperties
  <2>3. /\ b \in Seq(Unit) /\ Len(b) = IF i + 1 <= n THEN n - (i + 1) + 1 ELSE 0
        /\ \A j \in 1..n - (i + 1) + 1 : b[j] = body[(i + 1) + j - 1]
    BY <1>6, <2>1, SubSeqProperties
  <2> HIDE DEF a, b
  <2>4. ASSUME NEW j \in 1..Len(a) PROVE a[j] = b[j]
    <3>1. j \in 1..n - (i + 1) + 1 /\ (i + 1) + j - 1 \in i + 1..n
      BY <1>3, <1>5, <2>2
    <3> QED
      BY <1>6, <2>2, <2>3, <3>1
  <2>5. Len(a) = Len(b)
    BY <2>2, <2>3
  <2>6. a = b
    BY <2>2, <2>3, <2>4, <2>5, SeqEqual
  <2> QED
    BY <2>2, <2>6 DEF a, b
<1>8. payload' = SubSeq(Units(script, msg), request.head + 1, Size(script, msg))
  BY <1>1, <1>2, <1>7
<1>9. TypeOK'
  BY <1>1, <1>3, <1>7, Bounds DEF StreamInv, TypeOK, Unit, Message
<1>10. i' + unread' = Size(script, msg) /\ i' + unread' <= BufferSize /\ i' <= Len(ibuf)
  BY <1>1, <1>2, <1>3, <1>4
<1>11. /\ Len(script') <= MaxRequests /\ msg' \in 1..Len(script')
       /\ Aligned(ibuf' \o wire', script', msg', hangup')
  BY <1>1, <1>2
<1> QED
  BY <1>1, <1>8, <1>9, <1>10, <1>11 DEF StreamInv, AtBody, request

\* run() goes on to the next request.
LEMMA SynchronizeStream == StreamInv /\ Synchronize => StreamInv'
<1> SUFFICES ASSUME StreamInv, Synchronize PROVE StreamInv'
  OBVIOUS
<1>1. /\ pc = "sync" /\ ~Needy /\ ibuf' = SubSeq(ibuf, i + unread + 1, Len(ibuf)) /\ i' = 0
      /\ payload' = <<>> /\ unread' = 0 /\ close' = FALSE /\ pc' = "read"
      /\ script' = script /\ hangup' = hangup /\ wire' = wire /\ room' = room /\ out' = out
      /\ msg' = msg /\ sending' = sending /\ flag' = flag
      /\ key' = key /\ cancelled' = cancelled /\ connections' = connections
  BY DEF Synchronize, Pipelined, Clear, client
<1>2. /\ msg \in 1..Len(script) /\ Aligned(ibuf \o wire, script, msg, hangup)
      /\ i + unread = Size(script, msg) /\ Len(script) <= MaxRequests
  BY <1>1 DEF StreamInv, Live, Busy, Refused
<1>3. /\ ibuf \in Seq(Unit) /\ wire \in Seq(Unit) /\ script \in Seq(Requests)
      /\ i \in Nat /\ unread \in Nat /\ Len(ibuf) \in Nat /\ Len(ibuf) <= BufferSize
  BY Typed, Bounds DEF StreamInv
<1> DEFINE n == i + unread
           data == ibuf \o wire
           due == StreamFrom(script, msg)
           next == StreamFrom(script, msg + 1)
<1>4. n \in 0..Len(ibuf) /\ n \in Nat
  BY <1>1, <1>3 DEF Needy
<1>5. ibuf' = Drop(ibuf, n)
  BY <1>1 DEF Drop
<1>6. due \in Seq(Unit) /\ next \in Seq(Unit) /\ Drop(due, n) = next
  <2>1. /\ Units(script, msg) \in Seq(Unit) /\ Len(Units(script, msg)) = n
        /\ due = Units(script, msg) \o next
        /\ due \in Seq(Unit) /\ next \in Seq(Unit)
    BY <1>2, <1>3, UnitsOf, StreamBegins
  <2> HIDE DEF next, due, n
  <2> QED
    BY <2>1, DropAll
<1>7. data \in Seq(Unit) /\ n \in 0..Len(data) /\ Drop(data, n) = Drop(ibuf, n) \o wire
  <2>1. Len(data) = Len(ibuf) + Len(wire) /\ Len(wire) \in Nat /\ data \in Seq(Unit)
    BY <1>3
  <2> HIDE DEF n
  <2> QED
    BY <1>3, <1>4, <2>1, DropOfConcat
<1>8. Aligned(ibuf' \o wire', script', msg' + 1, hangup')
  <2>1. IsPrefix(data, due) /\ (~hangup => data = due)
    BY <1>2 DEF Aligned
  <2> HIDE DEF data, due, n
  <2>2. IsPrefix(Drop(data, n), Drop(due, n))
    BY <1>6, <1>7, <2>1, DropPrefix
  <2> QED
    BY <1>1, <1>5, <1>6, <1>7, <2>1, <2>2 DEF Aligned
<1>9. ibuf' \in Seq(Unit) /\ Len(ibuf') <= BufferSize
  <2> HIDE DEF n
  <2>1. Drop(ibuf, n) \in Seq(Unit) /\ Len(Drop(ibuf, n)) = Len(ibuf) - n
    BY <1>3, <1>4, DropIs
  <2>2. Len(ibuf) - n <= BufferSize
    BY <1>3, <1>4, Bounds
  <2> QED
    BY <1>5, <2>1, <2>2
<1>10. TypeOK'
  <2>1. <<>> \in Seq(Unit) /\ 0 \in 0..BufferSize
    BY Bounds
  <2> QED
    BY <1>1, <1>9, <2>1 DEF StreamInv, TypeOK, Unit, Message
<1>11. msg' <= Len(script')
  BY <1>1, <1>2
<1> QED
  BY <1>1, <1>2, <1>8, <1>10, <1>11 DEF StreamInv, Live, Busy, AtBody, Refused

\* The stream is left alone while the thread does something else with the request ...
LEMMA QuietStream ==
    ASSUME StreamInv, TypeOK', Busy, pc # "transport", ~Refused,
           UNCHANGED <<client, wire, parser>>,
           pc' \notin {"read", "transport", "handle"}, AtBody' => AtBody
    PROVE  StreamInv'
<1>1. /\ script' = script /\ hangup' = hangup /\ wire' = wire /\ ibuf' = ibuf /\ i' = i
      /\ msg' = msg /\ unread' = unread
  BY DEF client, parser
<1>2. /\ Len(script) <= MaxRequests /\ msg \in 1..Len(script) /\ i <= Len(ibuf)
      /\ Aligned(ibuf \o wire, script, msg, hangup)
      /\ i + unread = Size(script, msg) /\ i + unread <= BufferSize
      /\ AtBody => i = request.head /\ (pc # "transport" => unread = request.body)
  BY DEF StreamInv, Busy
<1>3. AtBody' => i' = request'.head /\ unread' = request'.body
  BY <1>1, <1>2 DEF request
<1>4. Live' => Len(script') <= MaxRequests
  BY <1>1, <1>2
<1>5. msg' \in 1..Len(script') /\ i' <= Len(ibuf') /\ Aligned(ibuf' \o wire', script', msg', hangup')
  BY <1>1, <1>2
<1>6. i' + unread' = Size(script', msg') /\ i' + unread' <= BufferSize
  BY <1>1, <1>2
<1>7. pc' # "read" /\ pc' # "handle"
  OBVIOUS
<1> QED
  BY <1>3, <1>4, <1>5, <1>6, <1>7 DEF StreamInv

\* ... or others do something.
LEMMA StillStream ==
    ASSUME StreamInv, TypeOK', UNCHANGED <<pc, sending, script, wire, hangup, parser, payload>>
    PROVE  StreamInv'
BY DEF StreamInv, Live, Busy, Refused, AtBody, request, parser

LEMMA LeftStream ==
    ASSUME StreamInv, TypeOK', pc' \in {"accept", "exit", "gone"}
    PROVE  StreamInv'
BY DEF StreamInv, Live, Busy, AtBody


LEMMA DisconnectTypes ==
    ASSUME TypeOK, Disconnect, script' = script, wire' = wire, hangup' = hangup,
           room' \in 0..SocketRoom, cancelled' = cancelled, connections' = connections,
           flag' \in BOOLEAN, key' \in BOOLEAN,
           out' \in Seq(Message)
    PROVE  TypeOK'
<1>1. /\ <<>> \in Seq(Unit) /\ Len(<<>>) = 0 /\ 0 \in 0..MaxRequests
      /\ 0 \in 0..BufferSize /\ 0 <= BufferSize
  BY Bounds
<1> QED
  BY <1>1 DEF Disconnect, Clear, TypeOK, Unit, Message

\* What is written is one of the messages.
LEMMA OneMore ==
    ASSUME TypeOK, NEW what \in {"continue", "whole", "error", "start", "piece", "last", "cut", "503"},
           NEW b \in BOOLEAN
    PROVE  Append(out, <<msg, what, b>>) \in Seq(Message)
<1>1. msg \in Nat
  BY Bounds DEF TypeOK, Message
<1>2. <<msg, what, b>> \in Message /\ out \in Seq(Message)
  BY <1>1 DEF TypeOK, Message
<1> QED
  BY <1>2

LEMMA EndStream ==
    StreamInv /\ (ReadRequestFails \/ PayloadFails \/ GiveUp \/ Throw \/ WriteFails) => StreamInv'
<1> SUFFICES ASSUME StreamInv, ReadRequestFails \/ PayloadFails \/ GiveUp \/ Throw \/ WriteFails
             PROVE  StreamInv'
  OBVIOUS
<1>1. TypeOK /\ room \in 0..SocketRoom /\ flag \in BOOLEAN /\ key \in BOOLEAN /\ close \in BOOLEAN
  BY Typed DEF StreamInv
<1>2. /\ Disconnect /\ script' = script /\ wire' = wire /\ hangup' = hangup /\ room' = room
      /\ cancelled' = cancelled /\ connections' = connections /\ flag' = flag /\ key' \in BOOLEAN
      /\ out' = out \/ out' = Append(out, <<msg, "cut", close>>)
  BY <1>1 DEF ReadRequestFails, PayloadFails, GiveUp, Throw, WriteFails, client
<1>3. out' \in Seq(Message)
  BY <1>1, <1>2, OneMore, Typed
<1>4. TypeOK'
  BY <1>1, <1>2, <1>3, DisconnectTypes
<1> QED
  BY <1>2, <1>4, LeftStream DEF Disconnect

\* A handler reads the body, or answers.
LEMMA HandlerStream ==
    StreamInv /\ (ReadPayload \/ Respond("error") \/ Respond("whole") \/ StartStream
                  \/ SendPiece \/ FinishStream) => StreamInv'
<1> SUFFICES ASSUME StreamInv, ReadPayload \/ Respond("error") \/ Respond("whole") \/ StartStream
                               \/ SendPiece \/ FinishStream
             PROVE  StreamInv'
  OBVIOUS
<1>1. TypeOK
  BY DEF StreamInv
<1>2. /\ UNCHANGED <<client, wire, parser>> /\ room' = room /\ out' = out /\ payload' = payload
      /\ pc' \in {"payload", "send"} /\ pc \in {"dispatch", "handle", "stream"}
      /\ cancelled' = cancelled /\ connections' = connections
      /\ close' \in BOOLEAN /\ flag' \in BOOLEAN /\ key' \in BOOLEAN
      /\ sending' \in {sending, "error", "whole", "start", "piece", "last"}
      /\ pc' = "payload" => pc = "dispatch"
      /\ pc' = "send" => sending' # "continue"
  <2>1. CASE ReadPayload
    BY <1>1, <2>1, Typed DEF ReadPayload
  <2>2. CASE Respond("error") \/ Respond("whole")
    BY <1>1, <2>2, Typed, RequestsAssumption DEF Respond, Announce
  <2>3. CASE StartStream
    BY <1>1, <2>3, Typed, RequestsAssumption DEF StartStream, Announce
  <2>4. CASE SendPiece \/ FinishStream
    BY <1>1, <2>4, Typed DEF SendPiece, FinishStream
  <2> QED
    BY <2>1, <2>2, <2>3, <2>4
<1>3. TypeOK'
  BY <1>1, <1>2 DEF TypeOK, client, parser, Message
<1>4. Busy /\ pc # "transport" /\ ~Refused /\ (AtBody' => AtBody)
  BY <1>2 DEF Busy, Live, Refused, AtBody
<1> QED
  BY <1>2, <1>3, <1>4, QuietStream

LEMMA WrittenStream == StreamInv /\ Written => StreamInv'
<1> SUFFICES ASSUME StreamInv, Written PROVE StreamInv'
  OBVIOUS
<1>1. /\ TypeOK /\ pc = "send" /\ room > 0 /\ out' = Append(out, <<msg, sending, close>>)
      /\ room' = room - 1
      /\ UNCHANGED <<client, wire, cancelled, connections>> /\ sending # "nothing"
  BY DEF StreamInv, Written
<1>2. /\ room' \in 0..SocketRoom
      /\ out' \in Seq(Message)
  BY <1>1, OneMore, Typed, Bounds, SMTT(30)
<1>3. CASE Disconnect
  <2>1. flag' \in BOOLEAN /\ key' \in BOOLEAN
    BY <1>1, <1>3, Typed DEF Written
  <2>2. TypeOK'
    BY <1>1, <1>2, <1>3, <2>1, DisconnectTypes DEF client
  <2> QED
    BY <1>3, <2>2, LeftStream DEF Disconnect
<1>4. CASE ~Disconnect
  <2>1. /\ UNCHANGED <<parser, payload, close>> /\ sending' = "nothing"
        /\ flag' \in BOOLEAN /\ key' \in BOOLEAN /\ pc' \in {"dispatch", "stream", "sync"}
        /\ sending # "error" /\ (pc' = "dispatch" => sending = "continue")
    BY <1>1, <1>4, Typed DEF Written
  <2>2. TypeOK'
    BY <1>1, <1>2, <2>1 DEF TypeOK, client, parser, Message
  <2>3. Busy /\ pc # "transport" /\ ~Refused /\ (AtBody' => AtBody)
    BY <1>1, <2>1 DEF Busy, Live, Refused, AtBody
  <2> QED
    BY <1>1, <2>1, <2>2, <2>3, QuietStream
<1> QED
  BY <1>3, <1>4

\* The end of the thread, and what others do.
LEMMA OtherStream ==
    StreamInv /\ (Cancel \/ CancelActs \/ Crash \/ Exit \/ Replace \/ ClientReads) => StreamInv'
<1> SUFFICES ASSUME StreamInv PROVE
        Cancel \/ CancelActs \/ Crash \/ Exit \/ Replace \/ ClientReads => StreamInv'
  OBVIOUS
<1>2. ASSUME Cancel \/ ClientReads PROVE StreamInv'
  <2>1. UNCHANGED <<pc, sending, script, wire, hangup, parser, payload>>
    BY <1>2 DEF Cancel, ClientReads, client
  <2>2. room' \in 0..SocketRoom /\ cancelled' \in BOOLEAN
    <3>1. room \in 0..SocketRoom /\ cancelled \in BOOLEAN
      BY Typed DEF StreamInv
    <3>2. cancelled' = TRUE \/ cancelled' = cancelled
      BY <1>2 DEF Cancel, ClientReads
    <3>3. room' = room \/ (room < SocketRoom /\ room' = room + 1)
      BY <1>2 DEF Cancel, ClientReads
    <3>4. room' \in 0..SocketRoom
      BY <3>1, <3>3, Bounds
    <3> QED
      BY <3>1, <3>2, <3>4
  <2>3. /\ out' = out /\ close' = close /\ flag' = flag /\ key' = key /\ connections' = connections
    BY <1>2 DEF Cancel, ClientReads
  <2>4. TypeOK'
    BY <2>1, <2>2, <2>3 DEF StreamInv, TypeOK, parser, Message
  <2> QED
    BY <2>1, <2>4, StillStream
<1>3. ASSUME CancelActs PROVE StreamInv'
  <2>1. /\ out' = out \/ out' = Append(out, <<msg, "cut", close>>)
        /\ pc' \in {"gone", "exit"}
        /\ UNCHANGED <<client, wire, room, parser, payload, close, sending,
                       flag, key, cancelled, connections>>
    BY <1>3 DEF CancelActs
  <2>2. out' \in Seq(Message)
    BY <2>1, OneMore, Typed DEF StreamInv
  <2>3. TypeOK'
    BY <2>1, <2>2 DEF StreamInv, TypeOK, client, parser, Message
  <2> QED
    BY <2>1, <2>3, LeftStream
<1>4. ASSUME Crash \/ Replace PROVE StreamInv'
  <2>1. /\ pc' \in {"exit", "accept"} /\ flag' \in BOOLEAN /\ key' \in BOOLEAN
        /\ cancelled' \in BOOLEAN
        /\ UNCHANGED <<client, wire, room, out, parser, payload, close, sending, connections>>
    BY <1>4, Typed DEF Crash, Replace, StreamInv
  <2>2. TypeOK'
    BY <2>1 DEF StreamInv, TypeOK, client, parser, Message
  <2> QED
    BY <2>1, <2>2, LeftStream
<1>5. ASSUME Exit PROVE StreamInv'
  <2>1. /\ pc' = "gone" /\ sending' = "nothing" /\ ibuf' = <<>> /\ i' = 0 /\ msg' = 0
        /\ payload' = <<>> /\ unread' = 0 /\ close' = FALSE
        /\ UNCHANGED <<client, wire, flag, key, cancelled, connections>>
    BY <1>5 DEF Exit, Clear
  <2>2. \/ out' = out /\ room' = room
        \/ \E b \in BOOLEAN : out' = Append(out, <<msg, "503", b>>) /\ room > 0 /\ room' = room - 1
    <3>1. (close \/ (msg # 0 /\ request.close)) \in BOOLEAN
      OBVIOUS
    <3> QED
      BY <1>5, <3>1 DEF Exit, Unavailable
  <2>3. /\ room' \in 0..SocketRoom
        /\ out' \in Seq(Message)
    <3>1. room \in 0..SocketRoom /\ out \in Seq(Message) /\ TypeOK
      BY Typed DEF StreamInv
    <3>2. \A b \in BOOLEAN : Append(out, <<msg, "503", b>>) \in Seq(Message)
      BY <3>1, OneMore
    <3>3. room' = room \/ (room > 0 /\ room' = room - 1)
      BY <2>2
    <3>4. room' \in 0..SocketRoom
      BY <3>1, <3>3, Bounds
    <3> QED
      BY <2>2, <3>1, <3>2, <3>4
  <2>4. /\ <<>> \in Seq(Unit) /\ Len(<<>>) = 0 /\ 0 \in 0..MaxRequests
        /\ 0 \in 0..BufferSize /\ 0 <= BufferSize
    BY Bounds
  <2>5. TypeOK'
    BY <2>1, <2>3, <2>4 DEF StreamInv, TypeOK, Unit, client, Message
  <2> QED
    BY <2>1, <2>5, LeftStream
<1> QED
  BY <1>2, <1>3, <1>4, <1>5

\* The client hangs up.
LEMMA HangupStream == StreamInv /\ Hangup => StreamInv'
<1> SUFFICES ASSUME StreamInv, Hangup PROVE StreamInv'
  OBVIOUS
<1>1. PICK n \in 0..Len(wire) : wire' = SubSeq(wire, 1, n)
  BY DEF Hangup
<1>2. /\ hangup' = TRUE /\ pc' = pc /\ script' = script /\ room' = room /\ out' = out
      /\ ibuf' = ibuf /\ i' = i /\ msg' = msg /\ unread' = unread /\ payload' = payload
      /\ close' = close /\ sending' = sending /\ flag' = flag /\ key' = key
      /\ cancelled' = cancelled /\ connections' = connections
  BY DEF Hangup, parser
<1>3. wire \in Seq(Unit) /\ ibuf \in Seq(Unit) /\ script \in Seq(Requests) /\ msg \in Nat
  BY Typed, Bounds DEF StreamInv
<1>4. wire' \in Seq(Unit)
  <2>1. n \in Nat /\ Len(wire) \in Nat /\ \A k \in 1..n : k \in 1..Len(wire)
    BY <1>3
  <2> QED
    BY <1>1, <1>3, <2>1
<1>5. ASSUME NEW k \in Nat \ {0}, Aligned(ibuf \o wire, script, k, hangup)
      PROVE  Aligned(ibuf' \o wire', script', k, hangup')
  <2>1. StreamFrom(script, k) \in Seq(Unit) /\ IsPrefix(ibuf \o wire, StreamFrom(script, k))
    BY <1>3, <1>5, StreamType DEF Aligned
  <2>2. IsPrefix(ibuf \o SubSeq(wire, 1, n), StreamFrom(script, k))
    BY <1>3, <2>1, CutShort
  <2> QED
    BY <1>1, <1>2, <2>2 DEF Aligned
<1>6. TypeOK'
  BY <1>2, <1>4 DEF StreamInv, TypeOK, Unit, Message
<1>7. /\ pc = "read" => Aligned(ibuf' \o wire', script', msg + 1, hangup')
      /\ Busy => Aligned(ibuf' \o wire', script', msg, hangup')
  <2>1. msg + 1 \in Nat \ {0}
    BY <1>3
  <2>2. Busy => msg \in Nat \ {0}
    BY <1>3 DEF StreamInv
  <2> QED
    BY <1>5, <2>1, <2>2 DEF StreamInv
<1> QED
  BY <1>2, <1>6, <1>7 DEF StreamInv, Live, Busy, Refused, AtBody, request

LEMMA StreamInit == Init => StreamInv
<1> SUFFICES ASSUME Init PROVE StreamInv
  OBVIOUS
<1>1. TypeOK
  <2>1. /\ <<>> \in Seq(Unit) /\ Len(<<>>) = 0 /\ <<>> \in Seq(Requests)
        /\ <<>> \in Seq(Message)
    OBVIOUS
  <2>2. SocketRoom \in 0..SocketRoom /\ 0 \in 0..BufferSize /\ 0 <= BufferSize
        /\ 0 \in 0..MaxRequests /\ 0 \in 0..MaxConnections
    BY Bounds
  <2> QED
    BY <2>1, <2>2, Typed DEF Init
<1> QED
  BY <1>1 DEF Init, StreamInv, Live, Busy, AtBody

LEMMA StreamNext == StreamInv /\ [Next]_vars => StreamInv'
<1> SUFFICES ASSUME StreamInv, [Next]_vars PROVE StreamInv'
  OBVIOUS
<1>1. CASE Connect \/ ReadRequest \/ ReceivePayload \/ Parse \/ Refuse \/ Continue \/ Dispatch
  BY <1>1, ConnectStream, ReceiveStream, ParseStream, TransportStream
<1>2. CASE PayloadRead \/ Synchronize
  BY <1>2, PayloadStream, SynchronizeStream
<1>3. CASE ReadRequestFails \/ PayloadFails \/ GiveUp \/ Throw \/ WriteFails
  BY <1>3, EndStream
<1>4. CASE ReadPayload \/ Respond("error") \/ Respond("whole") \/ StartStream
           \/ SendPiece \/ FinishStream \/ Written
  BY <1>4, HandlerStream, WrittenStream
<1>5. CASE Cancel \/ CancelActs \/ Crash \/ Exit \/ Replace \/ ClientReads \/ Hangup
  BY <1>5, OtherStream, HangupStream
<1>6. CASE UNCHANGED vars
  <2>1. TypeOK'
    BY <1>6 DEF vars, client, parser, StreamInv, TypeOK, Message
  <2> QED
    BY <1>6, <2>1, StillStream DEF vars, client
<1> QED
  BY <1>1, <1>2, <1>3, <1>4, <1>5, <1>6 DEF Next, Step

\* A handler reads the payload of its own request, whatever was pipelined after it and
\* in whatever pieces it came, and run() begins the next request where it begins.
THEOREM StreamIsInStep == Spec => []InStep
<1>1. Init => StreamInv
  BY StreamInit
<1>2. StreamInv /\ [Next]_vars => StreamInv'
  BY StreamNext
<1>3. StreamInv => InStep
  BY StreamInStep
<1> QED
  BY <1>1, <1>2, <1>3, PTL DEF Spec

-----------------------------------------------------------------------------
\* The conversation.

First == {"whole", "error", "start", "503", "cut"}
Done == {"whole", "last"}

\* The next to answer is m, of which nothing was said, or m was only told to go on.
Clean(o, m) == IF o = <<>> THEN m = 1 ELSE Last(o)[2] \in Done /\ m = Last(o)[1] + 1
Ready(o, m) == Clean(o, m) \/ (o # <<>> /\ Last(o)[1] = m /\ Last(o)[2] = "continue")

\* A response to m has begun, or was sent.
Open(o, m) == o # <<>> /\ Last(o)[1] = m /\ Last(o)[2] \in {"start", "piece"}
Answered(o, m) == o # <<>> /\ Last(o)[1] = m /\ Last(o)[2] \in Done

Orderly(o) ==
    /\ o # <<>> => o[1][1] = 1 /\ o[1][2] \notin {"piece", "last"}
    /\ \A n \in 1..(Len(o) - 1) : Follows(o[n], o[n + 1])

\* No handler has thrown that matters to this connection.
Calm == ~MayThrow \/ connections <= 1

SendInv ==
    \/ sending = "continue" /\ Clean(out, msg) /\ ~key
    \/ sending \in {"whole", "error", "start"} /\ Ready(out, msg) /\ ~flag
    \/ sending \in {"piece", "last"} /\ Open(out, msg) /\ ~flag

PlaceInv ==
    /\ Orderly(out)
    /\ pc = "accept" /\ key => MayThrow /\ connections # 0
    /\ pc = "read" => Clean(out, msg + 1) /\ ~key
    /\ pc = "transport" => Clean(out, msg) /\ ~key
    /\ pc \in {"dispatch", "payload", "handle"} => Ready(out, msg)
    /\ pc = "stream" => Open(out, msg) /\ ~flag
    /\ pc = "sync" => Answered(out, msg) /\ ~key
    /\ pc = "exit" /\ key /\ flag => Ready(out, msg)
    /\ pc = "send" => SendInv

TalkInv ==
    /\ pc \notin {"accept", "gone"} => connections # 0
    /\ Calm => PlaceInv

\* What may be said next, and what it makes of the conversation.
LEMMA SaysNext ==
    ASSUME NEW o \in Seq(Message), Orderly(o), NEW m \in Nat, NEW b \in BOOLEAN,
           NEW what \in {"continue", "whole", "error", "start", "piece", "last", "cut", "503"},
           \/ what \in First /\ Ready(o, m)
           \/ what = "continue" /\ Clean(o, m)
           \/ what \in {"piece", "last", "cut"} /\ Open(o, m)
    PROVE  LET p == Append(o, <<m, what, b>>)
           IN  /\ Orderly(p)
               /\ what = "continue" => Ready(p, m)
               /\ what \in {"start", "piece"} => Open(p, m)
               /\ what \in Done => Answered(p, m)
<1> DEFINE x == <<m, what, b>>
           p == Append(o, x)
           len == Len(o)
<1>1. x \in Message /\ x[1] = m /\ x[2] = what
  BY DEF Message
<1> HIDE DEF x
<1>2. /\ p \in Seq(Message) /\ Len(p) = len + 1 /\ p # <<>> /\ p[len + 1] = x
      /\ \A n \in 1..len : p[n] = o[n]
      /\ len \in Nat /\ (o = <<>> <=> len = 0)
  BY <1>1
<1>3. Last(p) = x /\ Last(o) = o[len]
  BY <1>2 DEF Last
<1> HIDE DEF p, len
<1>4. p[1][1] = 1 /\ p[1][2] \notin {"piece", "last"}
  <2>1. CASE len = 0
    <3>1. p[1] = x
      BY <1>2, <2>1
    <3>2. m = 1 /\ what \notin {"piece", "last"}
      BY <1>2, <2>1 DEF Ready, Clean, Open, First
    <3> QED
      BY <1>1, <3>1, <3>2
  <2>2. CASE len # 0
    <3>1. p[1] = o[1] /\ o # <<>>
      BY <1>2, <2>2
    <3> QED
      BY <3>1 DEF Orderly
  <2> QED
    BY <2>1, <2>2
<1>5. ASSUME NEW n \in 1..(Len(p) - 1) PROVE Follows(p[n], p[n + 1])
  <2>1. n \in 1..len
    BY <1>2
  <2>2. CASE n # len
    <3>1. n \in 1..(Len(o) - 1) /\ n + 1 \in 1..len
      BY <1>2, <2>1, <2>2 DEF len
    <3> QED
      BY <1>2, <2>1, <3>1 DEF Orderly
  <2>3. CASE n = len
    <3>1. p[n] = Last(o) /\ p[n + 1] = x /\ o # <<>>
      BY <1>2, <1>3, <2>1, <2>3
    <3>2. Follows(Last(o), x)
      BY <1>1, <3>1 DEF Follows, Ready, Clean, Open, First, Done
    <3> QED
      BY <3>1, <3>2
  <2> QED
    BY <2>2, <2>3
<1>6. Orderly(p)
  BY <1>4, <1>5 DEF Orderly
<1>7. what = "continue" => Ready(p, m)
  BY <1>1, <1>2, <1>3 DEF Ready
<1>8. what \in {"start", "piece"} => Open(p, m)
  BY <1>1, <1>2, <1>3 DEF Open
<1>9. what \in Done => Answered(p, m)
  BY <1>1, <1>2, <1>3 DEF Answered
<1> QED
  BY <1>6, <1>7, <1>8, <1>9 DEF p, x

LEMMA NextIsClean ==
    ASSUME NEW o, NEW m, Answered(o, m)
    PROVE  Clean(o, m + 1)
BY DEF Answered, Clean

LEMMA CalmBefore ==
    ASSUME TypeOK, connections' \in {connections, connections + 1}, Calm'
    PROVE  Calm
<1>1. connections \in Nat
  BY Bounds DEF TypeOK
<1> QED
  BY <1>1 DEF Calm

\* A thread that leaves the connection says nothing more on it.
LEMMA LeftTalk ==
    ASSUME TypeOK, TalkInv, pc' \in {"accept", "gone"}, connections' = connections,
           pc' = "accept" /\ key' => MayThrow /\ connections # 0,
           Calm => Orderly(out')
    PROVE  TalkInv'
BY CalmBefore DEF TalkInv, PlaceInv

LEMMA EmptyOrderly == Orderly(<<>>) /\ Clean(<<>>, 1)
BY DEF Orderly, Clean

LEMMA ConnectTalk == TypeOK /\ TalkInv /\ Connect => TalkInv'
<1> SUFFICES ASSUME TypeOK, TalkInv, Connect PROVE TalkInv'
  OBVIOUS
<1>1. /\ pc = "accept" /\ pc' = "read" /\ out' = <<>> /\ msg' = 0
      /\ connections' = connections + 1 /\ key' = key
  BY DEF Connect
<1>2. connections \in Nat
  BY Bounds DEF TypeOK
<1>3. connections' # 0
  BY <1>1, <1>2
<1>4. ASSUME Calm' PROVE PlaceInv'
  <2>1. Calm /\ (~MayThrow \/ connections = 0)
    BY <1>1, <1>2, <1>4 DEF Calm
  <2>2. ~key
    BY <1>1, <2>1 DEF TalkInv, PlaceInv
  <2>3. Orderly(out') /\ Clean(out', msg' + 1)
    BY <1>1, EmptyOrderly
  <2> QED
    BY <1>1, <2>2, <2>3 DEF PlaceInv
<1> QED
  BY <1>1, <1>3, <1>4 DEF TalkInv

\* The thread goes on to the next request.
LEMMA RequestTalk ==
    StreamInv /\ TalkInv /\ (Parse \/ Refuse \/ Continue \/ Dispatch \/ Synchronize) => TalkInv'
<1> SUFFICES ASSUME StreamInv, TalkInv, Parse \/ Refuse \/ Continue \/ Dispatch \/ Synchronize
             PROVE  TalkInv'
  OBVIOUS
<1>1. TypeOK
  BY DEF StreamInv
<1>2. out' = out /\ connections' = connections /\ pc \in {"read", "transport", "sync"}
  BY DEF Parse, Refuse, Continue, Dispatch, Synchronize
<1>3. connections # 0
  BY <1>2 DEF TalkInv
<1>4. ASSUME Calm' PROVE PlaceInv'
  <2>1. PlaceInv
    BY <1>1, <1>2, <1>4, CalmBefore DEF TalkInv
  <2>2. CASE Parse
    <3>1. msg' = msg + 1 /\ pc = "read" /\ pc' = "transport" /\ key' = key
      BY <1>1, <2>2, ParsedNext DEF Parse
    <3> QED
      BY <1>2, <2>1, <3>1 DEF PlaceInv
  <2>3. CASE Refuse
    <3>1. /\ msg' = msg /\ pc = "transport" /\ pc' = "send" /\ sending' = "error"
          /\ flag' = FALSE
      BY <2>3 DEF Refuse, parser
    <3>2. SendInv'
      BY <1>2, <2>1, <3>1 DEF PlaceInv, SendInv, Ready
    <3> QED
      BY <1>2, <2>1, <3>1, <3>2 DEF PlaceInv
  <2>4. CASE Continue
    <3>1. /\ msg' = msg /\ pc = "transport" /\ pc' = "send" /\ sending' = "continue"
          /\ key' = key
      BY <2>4 DEF Continue
    <3>2. SendInv'
      BY <1>2, <2>1, <3>1 DEF PlaceInv, SendInv
    <3> QED
      BY <1>2, <2>1, <3>1, <3>2 DEF PlaceInv
  <2>5. CASE Dispatch
    <3>1. msg' = msg /\ pc = "transport" /\ pc' = "dispatch"
      BY <2>5 DEF Dispatch
    <3> QED
      BY <1>2, <2>1, <3>1 DEF PlaceInv, Ready
  <2>6. CASE Synchronize
    <3>1. msg' = msg /\ pc = "sync" /\ pc' = "read" /\ key' = key
      BY <2>6 DEF Synchronize
    <3> QED
      BY <1>2, <2>1, <3>1, NextIsClean DEF PlaceInv
  <2> QED
    BY <2>2, <2>3, <2>4, <2>5, <2>6
<1> QED
  BY <1>2, <1>3, <1>4 DEF TalkInv

\* A handler reads the body, or answers.
LEMMA HandlerTalk ==
    TypeOK /\ TalkInv /\ (ReadPayload \/ PayloadRead \/ Respond("error") \/ Respond("whole")
                          \/ StartStream \/ SendPiece \/ FinishStream) => TalkInv'
<1> SUFFICES ASSUME TypeOK, TalkInv,
                    ReadPayload \/ PayloadRead \/ Respond("error") \/ Respond("whole")
                    \/ StartStream \/ SendPiece \/ FinishStream
             PROVE  TalkInv'
  OBVIOUS
<1>1. /\ out' = out /\ connections' = connections /\ msg' = msg
      /\ pc \in {"dispatch", "payload", "handle", "stream"}
  BY DEF ReadPayload, PayloadRead, Respond, StartStream, SendPiece, FinishStream, parser
<1>2. connections # 0
  BY <1>1 DEF TalkInv
<1>3. ASSUME Calm' PROVE PlaceInv'
  <2>1. PlaceInv
    BY <1>1, <1>3, CalmBefore DEF TalkInv
  <2>2. CASE ReadPayload \/ PayloadRead
    <3>1. pc \in {"dispatch", "payload"} /\ pc' \in {"payload", "handle"}
      BY <2>2 DEF ReadPayload, PayloadRead
    <3> QED
      BY <1>1, <2>1, <3>1 DEF PlaceInv
  <2>3. CASE Respond("error") \/ Respond("whole") \/ StartStream
    <3>1. /\ pc \in {"dispatch", "handle"} /\ pc' = "send" /\ flag' = FALSE
          /\ sending' \in {"whole", "error", "start"}
      BY <2>3 DEF Respond, StartStream
    <3>2. SendInv'
      BY <1>1, <2>1, <3>1 DEF PlaceInv, SendInv
    <3> QED
      BY <1>1, <2>1, <3>1, <3>2 DEF PlaceInv
  <2>4. CASE SendPiece \/ FinishStream
    <3>1. pc = "stream" /\ pc' = "send" /\ flag' = flag /\ sending' \in {"piece", "last"}
      BY <2>4 DEF SendPiece, FinishStream
    <3>2. SendInv'
      BY <1>1, <2>1, <3>1 DEF PlaceInv, SendInv
    <3> QED
      BY <1>1, <2>1, <3>1, <3>2 DEF PlaceInv
  <2> QED
    BY <2>2, <2>3, <2>4
<1> QED
  BY <1>1, <1>2, <1>3 DEF TalkInv

\* What is being sent may be sent, and so may a part of it.
LEMMA MaySend ==
    ASSUME TypeOK, PlaceInv, pc = "send"
    PROVE  /\ Orderly(Append(out, <<msg, sending, close>>))
           /\ Orderly(Append(out, <<msg, "cut", close>>))
           /\ sending = "continue" => Ready(Append(out, <<msg, sending, close>>), msg)
           /\ sending \in {"start", "piece"} => Open(Append(out, <<msg, sending, close>>), msg)
           /\ sending \in Done => Answered(Append(out, <<msg, sending, close>>), msg)
           /\ (key /\ flag) = FALSE /\ sending # "nothing"
<1>1. /\ out \in Seq(Message) /\ msg \in Nat /\ close \in BOOLEAN /\ key \in BOOLEAN
      /\ flag \in BOOLEAN
      /\ Orderly(out) /\ SendInv
  BY Typed, Bounds DEF PlaceInv
<1>2. /\ sending \in {"continue", "whole", "error", "start", "piece", "last"}
      /\ \/ sending \in First /\ Ready(out, msg)
         \/ sending = "continue" /\ Clean(out, msg)
         \/ sending \in {"piece", "last", "cut"} /\ Open(out, msg)
  BY <1>1 DEF SendInv, First
<1>3. /\ Orderly(Append(out, <<msg, sending, close>>))
      /\ sending = "continue" => Ready(Append(out, <<msg, sending, close>>), msg)
      /\ sending \in {"start", "piece"} => Open(Append(out, <<msg, sending, close>>), msg)
      /\ sending \in Done => Answered(Append(out, <<msg, sending, close>>), msg)
  BY <1>1, <1>2, SaysNext
<1>4. Ready(out, msg) \/ Open(out, msg)
  BY <1>2 DEF Ready
<1>5. Orderly(Append(out, <<msg, "cut", close>>))
  <2>1. "cut" \in First
    BY DEF First
  <2> QED
    BY <1>1, <1>4, <2>1, SaysNext
<1>6. (key /\ flag) = FALSE
  BY <1>1 DEF SendInv
<1> QED
  BY <1>2, <1>3, <1>5, <1>6

LEMMA WrittenTalk == TypeOK /\ TalkInv /\ Written => TalkInv'
<1> SUFFICES ASSUME TypeOK, TalkInv, Written PROVE TalkInv'
  OBVIOUS
<1>1. /\ pc = "send" /\ out' = Append(out, <<msg, sending, close>>) /\ connections' = connections
      /\ connections # 0
  BY DEF Written, TalkInv
<1>2. ASSUME Calm' PROVE PlaceInv'
  <2>1. PlaceInv
    BY <1>1, <1>2, CalmBefore DEF TalkInv
  <2>2. /\ Orderly(out')
        /\ sending = "continue" => Ready(out', msg)
        /\ sending \in {"start", "piece"} => Open(out', msg)
        /\ sending \in Done => Answered(out', msg)
    BY <1>1, <2>1, MaySend
  <2>3. CASE sending = "continue"
    <3>1. pc' = "dispatch" /\ msg' = msg
      BY <2>3 DEF Written, parser
    <3> QED
      BY <2>2, <2>3, <3>1 DEF PlaceInv
  <2>4. CASE sending \in {"start", "piece"}
    <3>1. pc' = "stream" /\ msg' = msg /\ flag' = flag
      BY <2>4 DEF Written, parser
    <3>2. ~flag
      BY <1>1, <2>1, <2>4 DEF PlaceInv, SendInv
    <3> QED
      BY <2>2, <2>4, <3>1, <3>2 DEF PlaceInv
  <2>5. CASE sending \in {"whole", "last"} /\ ~close
    <3>1. pc' = "sync" /\ msg' = msg /\ key' = FALSE
      BY <2>5 DEF Written, parser
    <3> QED
      BY <2>2, <2>5, <3>1 DEF PlaceInv, Done
  <2>6. CASE sending = "error" \/ (sending \in {"whole", "last"} /\ close)
    <3>1. pc' = "accept" /\ key' = FALSE
      BY <2>6 DEF Written, Disconnect
    <3> QED
      BY <2>2, <3>1 DEF PlaceInv
  <2> QED
    BY <1>1, <2>3, <2>4, <2>5, <2>6 DEF Written
<1> QED
  BY <1>1, <1>2 DEF TalkInv

\* The thread leaves the connection.
LEMMA EndTalk ==
    TypeOK /\ TalkInv /\ (ReadRequestFails \/ PayloadFails \/ GiveUp \/ Throw \/ WriteFails)
        => TalkInv'
<1> SUFFICES ASSUME TypeOK, TalkInv,
                    ReadRequestFails \/ PayloadFails \/ GiveUp \/ Throw \/ WriteFails
             PROVE  TalkInv'
  OBVIOUS
<1>1. /\ pc' = "accept" /\ connections' = connections
      /\ pc \in {"read", "payload", "sync", "stream", "dispatch", "handle", "send"}
      /\ \/ key' = FALSE /\ out' = out
         \/ pc = "read" /\ key' = key /\ out' = out
         \/ MayThrow /\ out' = out
         \/ pc = "send" /\ key' = FALSE /\ out' \in {out, Append(out, <<msg, "cut", close>>)}
  BY DEF ReadRequestFails, PayloadFails, GiveUp, Throw, WriteFails, Disconnect
<1>2. connections # 0
  BY <1>1 DEF TalkInv
<1>3. ASSUME Calm' PROVE PlaceInv'
  <2>1. PlaceInv
    BY <1>1, <1>3, CalmBefore DEF TalkInv
  <2>2. Orderly(out')
    BY <1>1, <2>1, MaySend DEF PlaceInv
  <2>3. key' => MayThrow /\ connections' # 0
    BY <1>1, <1>2, <2>1 DEF PlaceInv
  <2> QED
    BY <1>1, <2>2, <2>3 DEF PlaceInv
<1> QED
  BY <1>1, <1>3 DEF TalkInv

\* The 503 is said only where a first response is due.
LEMMA ExitTalk == TypeOK /\ TalkInv /\ (CancelActs \/ Crash \/ Exit \/ Replace) => TalkInv'
<1> SUFFICES ASSUME TypeOK, TalkInv, CancelActs \/ Crash \/ Exit \/ Replace PROVE TalkInv'
  OBVIOUS
<1>1. connections' = connections
  BY DEF CancelActs, Crash, Exit, Replace
<1>2. /\ out \in Seq(Message) /\ msg \in Nat /\ close \in BOOLEAN /\ key \in BOOLEAN
      /\ flag \in BOOLEAN
  BY Typed, Bounds
<1>3. pc' \notin {"accept", "gone"} => connections # 0
  BY DEF CancelActs, Crash, Exit, Replace, TalkInv
<1>4. ASSUME Calm' PROVE PlaceInv'
  <2>1. PlaceInv
    BY <1>1, <1>4, CalmBefore DEF TalkInv
  <2>2. CASE CancelActs
    <3>1. /\ pc' = IF pc = "accept" THEN "gone" ELSE "exit"
          /\ key' = key /\ flag' = flag /\ msg' = msg /\ pc \notin {"exit", "gone"}
          /\ \/ pc # "send" /\ out' = out
             \/ pc = "send" /\ out' \in {out, Append(out, <<msg, "cut", close>>)}
      BY <2>2 DEF CancelActs, parser
    <3>2. Orderly(out')
      BY <2>1, <3>1, MaySend DEF PlaceInv
    <3>3. CASE pc = "send"
      <4>1. (key /\ flag) = FALSE
        BY <2>1, <3>3, MaySend
      <4> QED
        BY <3>1, <3>2, <3>3, <4>1 DEF PlaceInv
    <3>4. CASE pc # "send"
      <4>1. out' = out
        BY <3>1, <3>4
      <4>2. key /\ flag => pc \in {"accept", "dispatch", "payload", "handle"}
        BY <2>1, <3>1, <3>4, Typed DEF PlaceInv
      <4>3. pc \in {"dispatch", "payload", "handle"} => Ready(out', msg')
        BY <2>1, <3>1, <4>1 DEF PlaceInv
      <4> QED
        BY <3>1, <3>2, <4>2, <4>3 DEF PlaceInv
    <3> QED
      BY <3>3, <3>4
  <2>3. CASE Crash
    <3>1. /\ pc \in {"dispatch", "handle", "stream"} /\ pc' = "exit" /\ out' = out
          /\ key' = key /\ flag' = flag /\ msg' = msg
      BY <2>3 DEF Crash, parser
    <3> QED
      BY <2>1, <3>1 DEF PlaceInv
  <2>4. CASE Exit
    <3>1. /\ pc = "exit" /\ pc' = "gone"
          /\ \/ out' = out
             \/ key /\ flag /\ \E b \in BOOLEAN : out' = Append(out, <<msg, "503", b>>)
      <4>1. (close \/ (msg # 0 /\ request.close)) \in BOOLEAN
        OBVIOUS
      <4> QED
        BY <2>4, <4>1 DEF Exit, Unavailable
    <3>2. Orderly(out')
      <4>1. CASE out' = out
        BY <2>1, <4>1 DEF PlaceInv
      <4>2. CASE out' # out
        <5>1. PICK b \in BOOLEAN : out' = Append(out, <<msg, "503", b>>)
          BY <3>1, <4>2
        <5>2. Ready(out, msg) /\ Orderly(out)
          BY <2>1, <3>1, <4>2 DEF PlaceInv
        <5>3. "503" \in First
          BY DEF First
        <5> QED
          BY <1>2, <5>1, <5>2, <5>3, SaysNext
      <4> QED
        BY <4>1, <4>2
    <3> QED
      BY <3>1, <3>2 DEF PlaceInv
  <2>5. CASE Replace
    <3>1. pc' = "accept" /\ key' = FALSE /\ out' = out
      BY <2>5 DEF Replace
    <3> QED
      BY <2>1, <3>1 DEF PlaceInv
  <2> QED
    BY <2>2, <2>3, <2>4, <2>5
<1> QED
  BY <1>1, <1>3, <1>4 DEF TalkInv

\* Nothing is said.
LEMMA StillTalk ==
    ASSUME TypeOK, TalkInv, UNCHANGED <<pc, out, msg, sending, flag, key, connections>>
    PROVE  TalkInv'
<1>1. Calm' => PlaceInv
  BY CalmBefore DEF TalkInv
<1> QED
  BY <1>1 DEF TalkInv, PlaceInv, SendInv

LEMMA TalkNext == StreamInv /\ TalkInv /\ [Next]_vars => TalkInv'
<1> SUFFICES ASSUME StreamInv, TalkInv, [Next]_vars PROVE TalkInv'
  OBVIOUS
<1>0. TypeOK
  BY DEF StreamInv
<1>1. CASE Connect
  BY <1>0, <1>1, ConnectTalk
<1>2. CASE Parse \/ Refuse \/ Continue \/ Dispatch \/ Synchronize
  BY <1>2, RequestTalk
<1>3. CASE ReadPayload \/ PayloadRead \/ Respond("error") \/ Respond("whole") \/ StartStream
           \/ SendPiece \/ FinishStream
  BY <1>0, <1>3, HandlerTalk
<1>4. CASE Written \/ ReadRequestFails \/ PayloadFails \/ GiveUp \/ Throw \/ WriteFails
  BY <1>0, <1>4, WrittenTalk, EndTalk
<1>5. CASE CancelActs \/ Crash \/ Exit \/ Replace
  BY <1>0, <1>5, ExitTalk
<1>6. CASE ReadRequest \/ ReceivePayload \/ Cancel \/ ClientReads \/ Hangup \/ UNCHANGED vars
  <2>1. UNCHANGED <<pc, out, msg, sending, flag, key, connections>>
    BY <1>6 DEF ReadRequest, ReceivePayload, Cancel, ClientReads, Hangup, vars, parser
  <2> QED
    BY <1>0, <2>1, StillTalk
<1> QED
  BY <1>1, <1>2, <1>3, <1>4, <1>5, <1>6 DEF Next, Step

\* Every request gets one response, in the order of the requests, and a 503 of the
\* destructor comes only in the place of one, unless a handler has thrown before.
THEOREM TalkIsWellFormed == Spec => []WellFormed
<1>1. Init => StreamInv /\ TalkInv
  <2> SUFFICES ASSUME Init PROVE StreamInv /\ TalkInv
    OBVIOUS
  <2>1. StreamInv
    BY StreamInit
  <2>2. pc = "accept" /\ out = <<>> /\ key = FALSE
    BY DEF Init
  <2> QED
    BY <2>1, <2>2, EmptyOrderly DEF TalkInv, PlaceInv
<1>2. StreamInv /\ TalkInv /\ [Next]_vars => (StreamInv /\ TalkInv)'
  BY StreamNext, TalkNext
<1>3. TalkInv => WellFormed
  BY DEF TalkInv, PlaceInv, Calm, Orderly, WellFormed
<1> QED
  BY <1>1, <1>2, <1>3, PTL DEF Spec
=============================================================================
