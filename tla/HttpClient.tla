------------------------------ MODULE HttpClient ------------------------------
(***************************************************************************)
(* One worker thread of llamafiler and the connections it serves           *)
(* (client.cpp): requests are parsed out of a buffer of fixed size as the  *)
(* bytes of a TCP stream arrive in pieces of any size, several of them     *)
(* pipelined; responses go to a socket that has room for a few of them.    *)
(* The thread may be cancelled (Worker::kill) or crash at any time; the    *)
(* destructor of g_http_cancel then sends a 503.                           *)
(*                                                                         *)
(* A stream consists of units, <<k, j>> being unit j of the k-th request:  *)
(* a header in one or more units, then the body.  Which endpoint a request *)
(* goes to, and what the endpoint answers, is left open.                   *)
(***************************************************************************)
EXTENDS Integers, Sequences, SequencesExt

CONSTANTS
    Requests,        \* the requests that clients send
    MaxRequests,     \* bound: requests on a connection
    MaxConnections,  \* bound: connections
    MaxPieces,       \* bound: pieces of a streamed response
    BufferSize,      \* ibuf_.c
    SocketRoom,      \* messages that fit into the send buffer of the socket
    MayThrow         \* whether a handler may throw an exception

\* head, body: units; good: transport() accepts it; close: HTTP/1.0 or
\* Connection: close.
ASSUME RequestsAssumption ==
    /\ Requests \subseteq [head : Nat \ {0}, body : Nat, good : BOOLEAN,
                           close : BOOLEAN]
    /\ {MaxRequests, MaxConnections, MaxPieces, BufferSize, SocketRoom} \subseteq Nat
    /\ MayThrow \in BOOLEAN

VARIABLES
    pc,         \* where the thread is
    script,     \* the requests that the client sends on this connection
    wire,       \* units that are yet to be read from the socket
    hangup,     \* whether the client has closed its end
    room,       \* room in the send buffer of the socket
    out,        \* what was sent on this connection
    ibuf,       \* ibuf_.p[0 .. ibuf_.n - 1]
    i,          \* ibuf_.i
    msg,        \* msg_: the request parsed last, 0 for none
    unread,     \* unread_
    payload,    \* payload_
    close,      \* close_connection_
    sending,    \* what is being written
    flag,       \* should_send_error_if_canceled_
    key,        \* whether g_http_cancel is set
    cancelled,  \* whether the thread was cancelled
    connections

client == <<script, hangup>>
parser == <<ibuf, i, msg, unread>>
vars == <<pc, client, wire, room, out, parser, payload, close, sending,
          flag, key, cancelled, connections>>

Units(s, k) == [j \in 1..(s[k].head + s[k].body) |-> <<k, j>>]
StreamFrom(s, k) == FlattenSeq([n \in 1..(Len(s) - k + 1) |-> Units(s, k + n - 1)])
request == script[msg]

Init ==
    /\ pc = "accept"
    /\ script = <<>> /\ wire = <<>> /\ hangup = FALSE /\ room = SocketRoom
    /\ out = <<>> /\ ibuf = <<>> /\ i = 0 /\ msg = 0 /\ unread = 0
    /\ payload = <<>>
    /\ close = FALSE /\ sending = "nothing"
    /\ flag \in BOOLEAN   \* not initialized
    /\ key = FALSE
    /\ cancelled = FALSE
    /\ connections = 0

-----------------------------------------------------------------------------
\* Client::clear.  What handlers deferred to cleanup() is in SlotPool.
Clear == payload' = <<>> /\ unread' = 0 /\ close' = FALSE

\* Client::close, then Worker::handle returns.  Clear happens first.
Disconnect ==
    /\ Clear
    /\ pc' = "accept"
    /\ sending' = "nothing"
    /\ ibuf' = <<>> /\ i' = 0 /\ msg' = 0   \* dead until the next connection

\* Worker::handle accepts a connection and Client::run begins.
Connect ==
    /\ pc = "accept" /\ connections < MaxConnections /\ ~cancelled
    /\ \E n \in 1..MaxRequests : script' \in [1..n -> Requests]
    /\ wire' = StreamFrom(script', 1)
    /\ hangup' = FALSE /\ room' = SocketRoom /\ out' = <<>>
    /\ ibuf' = <<>> /\ i' = 0 /\ msg' = 0
    /\ Clear
    /\ pc' = "read"
    /\ connections' = connections + 1
    /\ UNCHANGED <<sending, flag, key, cancelled>>

-----------------------------------------------------------------------------
\* What ParseHttpMessage says of the buffer.
Bad == ibuf # <<>> /\ ibuf[1][2] # 1
Complete == ibuf # <<>> /\ ~Bad /\ Len(ibuf) >= script[ibuf[1][1]].head

EndOfFile == wire = <<>> /\ hangup

Space == BufferSize - Len(ibuf)

\* (faulty variant of ReadFails) 0 is taken for "nothing yet".
ReadFailsOnError == Bad \/ (~Complete /\ Space = 0)

\* read() returns 0 at the end of the file, and if there is no room to read to.
ReadFails == Bad \/ (~Complete /\ (EndOfFile \/ Space = 0))

Receive ==
    \E n \in 1..Len(wire) :
        /\ n <= Space
        /\ ibuf' = ibuf \o SubSeq(wire, 1, n)
        /\ wire' = SubSeq(wire, n + 1, Len(wire))

ReadRequest ==
    /\ pc = "read" /\ ~Bad /\ ~Complete
    /\ Receive
    /\ UNCHANGED <<pc, client, room, out, i, msg, unread, payload, close,
                   sending, flag, key, cancelled, connections>>

ReadRequestFails ==
    /\ pc = "read" /\ ReadFails
    /\ Disconnect
    /\ UNCHANGED <<client, wire, room, out, flag, key, cancelled, connections>>

Parse ==
    /\ pc = "read" /\ Complete
    /\ msg' = ibuf[1][1]
    /\ i' = script[msg'].head
    /\ pc' = "transport"
    /\ UNCHANGED <<client, wire, room, out, ibuf, unread, payload, close,
                   sending, flag, key, cancelled, connections>>

\* Content-Length is compared with what the buffer has left after the headers.
TooLarge == request.body > BufferSize - i

\* append_http_response_message decides whether to announce the end.
Announce == close' = (close \/ request.close)

Refuse ==
    /\ pc = "transport" /\ (~request.good \/ TooLarge)
    /\ ~cancelled   \* pthread_testcancel
    /\ close' = TRUE
    /\ sending' = "error" /\ flag' = FALSE
    /\ pc' = "send"
    /\ UNCHANGED <<client, wire, room, out, parser, payload, key,
                   cancelled, connections>>

\* The client expects 100-continue.
Continue ==
    /\ pc = "transport" /\ request.good /\ ~TooLarge
    /\ unread' = request.body
    /\ sending' = "continue"
    /\ pc' = "send"
    /\ UNCHANGED <<client, wire, room, out, ibuf, i, msg, payload, close,
                   flag, key, cancelled, connections>>

Dispatch ==
    /\ pc = "transport" /\ request.good /\ ~TooLarge
    /\ unread' = request.body
    /\ flag' = TRUE /\ key' = TRUE
    /\ pc' = "dispatch"
    /\ UNCHANGED <<client, wire, room, out, ibuf, i, msg, payload, close,
                   sending, cancelled, connections>>

-----------------------------------------------------------------------------
Needy == Len(ibuf) - i < unread

\* A handler calls read_payload.
ReadPayload ==
    /\ pc = "dispatch"
    /\ pc' = "payload"
    /\ UNCHANGED <<client, wire, room, out, parser, payload, close, sending,
                   flag, key, cancelled, connections>>

ReceivePayload ==
    /\ pc \in {"payload", "sync"} /\ Needy
    /\ Receive
    /\ UNCHANGED <<pc, client, room, out, i, msg, unread, payload, close,
                   sending, flag, key, cancelled, connections>>

PayloadFails ==
    /\ pc \in {"payload", "sync"} /\ Needy /\ (EndOfFile \/ Space = 0)
    /\ Disconnect
    /\ key' = FALSE
    /\ UNCHANGED <<client, wire, room, out, flag, cancelled, connections>>

\* read_payload has it all.
PayloadRead ==
    /\ pc = "payload" /\ ~Needy
    /\ payload' = SubSeq(ibuf, i + 1, i + unread)
    /\ i' = i + unread /\ unread' = 0
    /\ pc' = "handle"
    /\ UNCHANGED <<client, wire, room, out, ibuf, msg, close, sending, flag, key,
                   cancelled, connections>>

\* (faulty variant of Pipelined) The payload is left where it is.
PipelinedFromHead == SubSeq(ibuf, i + 1, Len(ibuf))

\* What run() leaves in the buffer: the pipelined bytes.
Pipelined == SubSeq(ibuf, i + unread + 1, Len(ibuf))

\* run() synchronizes the message stream: read_payload, again if the handler
\* has called it, and the next request.
Synchronize ==
    /\ pc = "sync" /\ ~Needy
    /\ ibuf' = Pipelined
    /\ i' = 0
    /\ Clear
    /\ pc' = "read"
    /\ UNCHANGED <<client, wire, room, out, msg, sending, flag, key, cancelled, connections>>

-----------------------------------------------------------------------------
\* send_error and send_response; the former returns false.
Respond(what) ==
    /\ pc \in {"dispatch", "handle"}
    /\ ~cancelled   \* pthread_testcancel
    /\ Announce
    /\ sending' = what /\ flag' = FALSE
    /\ pc' = "send"
    /\ UNCHANGED <<client, wire, room, out, parser, payload, key, cancelled, connections>>

\* (faulty variant of StartStream) The flag is left for send() to clear.
StartStreamFlagged ==
    /\ pc \in {"dispatch", "handle"}
    /\ Announce
    /\ sending' = "start"
    /\ pc' = "send"
    /\ UNCHANGED <<client, wire, room, out, parser, payload, flag, key,
                   cancelled, connections>>

\* send_response_start, and the headers of a static asset.
StartStream ==
    /\ pc \in {"dispatch", "handle"}
    /\ Announce
    /\ sending' = "start" /\ flag' = FALSE
    /\ pc' = "send"
    /\ UNCHANGED <<client, wire, room, out, parser, payload, key,
                   cancelled, connections>>

Pieces == Len(SelectSeq(out, LAMBDA x : x[1] = msg /\ x[2] = "piece"))

\* send_response_chunk, or a part of the asset.
SendPiece ==
    /\ pc = "stream" /\ Pieces < MaxPieces
    /\ sending' = "piece"
    /\ pc' = "send"
    /\ UNCHANGED <<client, wire, room, out, parser, payload, close, flag, key,
                   cancelled, connections>>

\* send_response_finish, or the last part of the asset.
FinishStream ==
    /\ pc = "stream"
    /\ sending' = "last"
    /\ pc' = "send"
    /\ UNCHANGED <<client, wire, room, out, parser, payload, close, flag,
                   key, cancelled, connections>>

\* The handler returns false in the middle, as when the asset is cut short.
GiveUp ==
    /\ pc = "stream"
    /\ Disconnect
    /\ key' = FALSE
    /\ UNCHANGED <<client, wire, room, out, flag, cancelled, connections>>

\* Worker::handle catches the exception: dispatch() does not clear the key.
Throw ==
    /\ MayThrow /\ pc \in {"dispatch", "handle", "stream"}
    /\ Disconnect
    /\ UNCHANGED <<client, wire, room, out, flag, key, cancelled, connections>>

-----------------------------------------------------------------------------
\* The socket takes the message.
Written ==
    /\ pc = "send" /\ room > 0
    /\ out' = Append(out, <<msg, sending, close>>)
    /\ room' = room - 1
    /\ \/ /\ sending = "continue"
          /\ flag' = TRUE /\ key' = TRUE /\ pc' = "dispatch" /\ sending' = "nothing"
          /\ UNCHANGED <<parser, payload, close>>
       \/ /\ sending \in {"start", "piece"}
          /\ pc' = "stream" /\ sending' = "nothing"
          /\ UNCHANGED <<parser, payload, close, flag, key>>
       \/ /\ sending \in {"whole", "last"} /\ ~close
          /\ key' = FALSE /\ pc' = "sync" /\ sending' = "nothing"
          /\ UNCHANGED <<parser, payload, close, flag>>
       \/ /\ sending = "error" \/ (sending \in {"whole", "last"} /\ close)
          /\ Disconnect
          /\ key' = FALSE
          /\ UNCHANGED flag
    /\ UNCHANGED <<client, wire, cancelled, connections>>

\* The client is gone: nothing or a part of the message was sent.
WriteFails ==
    /\ pc = "send" /\ hangup
    /\ out' \in {out, Append(out, <<msg, "cut", close>>)}
    /\ Disconnect
    /\ key' = FALSE
    /\ UNCHANGED <<client, wire, room, flag, cancelled, connections>>

-----------------------------------------------------------------------------
\* Worker::kill.
Cancel ==
    /\ pc \notin {"exit", "gone"} /\ ~cancelled
    /\ cancelled' = TRUE
    /\ UNCHANGED <<pc, client, wire, room, out, parser, payload, close, sending,
                   flag, key, connections>>

\* The thread reaches a cancellation point, which transport() has only where it
\* refuses the request, or a write that it was in is broken off.
CancelActs ==
    /\ cancelled /\ pc \notin {"exit", "gone"}
    /\ pc = "transport" => ~request.good \/ TooLarge
    /\ out' \in {out} \cup IF pc = "send" THEN {Append(out, <<msg, "cut", close>>)} ELSE {}
    /\ pc' = IF pc = "accept" THEN "gone" ELSE "exit"
    /\ UNCHANGED <<client, wire, room, parser, payload, close, sending,
                   flag, key, cancelled, connections>>

\* on_crash_signal.
Crash ==
    /\ pc \in {"dispatch", "handle", "stream"}
    /\ pc' = "exit"
    /\ UNCHANGED <<client, wire, room, out, parser, payload, close, sending,
                   flag, key, cancelled, connections>>

\* (faulty variant of Unavailable) The socket is left as it is: the write blocks.
UnavailableBlocking ==
    IF key /\ flag
    THEN room > 0 /\ out' = Append(out, <<msg, "503", close>>) /\ room' = room - 1
    ELSE UNCHANGED <<out, room>>

\* on_http_cancel: with O_NONBLOCK, a write that has no room is given up.
Unavailable ==
    IF key /\ flag /\ room > 0
    THEN \/ out' = Append(out, <<msg, "503", close \/ (msg # 0 /\ request.close)>>) /\ room' = room - 1
         \/ hangup /\ UNCHANGED <<out, room>>
    ELSE UNCHANGED <<out, room>>

\* The destructors of the thread: on_http_cancel, then the one in Worker::run.
Exit ==
    /\ pc = "exit"
    /\ Unavailable
    /\ Clear
    /\ pc' = "gone" /\ sending' = "nothing"
    /\ ibuf' = <<>> /\ i' = 0 /\ msg' = 0
    /\ UNCHANGED <<client, wire, flag, key, cancelled, connections>>

\* The server spawns a new worker, with a new client.
Replace ==
    /\ pc = "gone"
    /\ pc' = "accept"
    /\ flag' \in BOOLEAN /\ key' = FALSE /\ cancelled' = FALSE
    /\ UNCHANGED <<client, wire, room, out, parser, payload, close, sending, connections>>

-----------------------------------------------------------------------------
\* The client reads a message; it hangs up, having sent all or not.
ClientReads ==
    /\ pc \notin {"accept", "gone"} /\ room < SocketRoom
    /\ room' = room + 1
    /\ UNCHANGED <<pc, client, wire, out, parser, payload, close, sending,
                   flag, key, cancelled, connections>>

Hangup ==
    /\ pc \notin {"accept", "gone"} /\ ~hangup
    /\ hangup' = TRUE
    /\ \E n \in 0..Len(wire) : wire' = SubSeq(wire, 1, n)
    /\ UNCHANGED <<pc, script, room, out, parser, payload, close, sending,
                   flag, key, cancelled, connections>>

Step ==
    \/ ReadRequest \/ ReadRequestFails \/ Parse \/ Refuse \/ Dispatch
    \/ ReadPayload \/ ReceivePayload \/ PayloadFails \/ PayloadRead \/ Synchronize
    \/ Respond("error") \/ Respond("whole")
    \/ StartStream \/ SendPiece \/ FinishStream
    \/ Written \/ WriteFails \/ CancelActs \/ Exit

Next ==
    \/ Connect \/ Step \/ Continue \/ GiveUp \/ Throw
    \/ Cancel \/ Crash \/ Replace \/ ClientReads \/ Hangup

Spec == Init /\ [][Next]_vars

\* The threads run; the clients owe nothing.
FairSpec == Spec /\ WF_vars(Step)

-----------------------------------------------------------------------------
TypeOK ==
    /\ pc \in {"accept", "read", "transport", "dispatch", "payload", "handle",
               "send", "stream", "sync", "exit", "gone"}
    /\ script \in Seq(Requests)
    /\ {wire, ibuf, payload} \subseteq Seq((Nat \ {0}) \X (Nat \ {0}))
    /\ {hangup, close, flag, key, cancelled} \subseteq BOOLEAN
    /\ room \in 0..SocketRoom
    /\ out \in Seq(Nat \X {"continue", "whole", "error", "start", "piece", "last", "cut", "503"}
                       \X BOOLEAN)
    /\ i \in 0..BufferSize /\ Len(ibuf) <= BufferSize
    /\ msg \in 0..MaxRequests
    /\ unread \in 0..BufferSize
    /\ sending \in {"nothing", "continue", "whole", "error", "start", "piece", "last"}
    /\ connections \in 0..MaxConnections

\* The buffer does not overflow, and read_payload always has room to read the
\* payload to: it never takes a full buffer for the end of the file.
PayloadFits == TypeOK /\ (pc \in {"payload", "sync"} /\ Needy => Space > 0)

\* The message stream is synchronized (client.cpp:161): what the buffer and the
\* socket hold is the rest of the present request and then the requests that
\* follow it, whether or not its handler has read the payload, which fits.
InStep ==
    LET rest == SubSeq(ibuf, i + 1, Len(ibuf)) \o wire
        body == Units(script, msg)
        pending == IF pc = "transport" THEN request.body ELSE unread
        expected == (IF msg = 0 THEN <<>> ELSE SubSeq(body, Len(body) - pending + 1, Len(body)))
                    \o StreamFrom(script, msg + 1)
    IN  /\ PayloadFits
        /\ pc \notin {"accept", "exit", "gone"} /\ ~(pc = "send" /\ sending = "error") =>
               /\ IsPrefix(rest, expected)
               /\ ~hangup => rest = expected
        /\ pc = "handle" => payload = SubSeq(body, request.head + 1, Len(body))

\* What may follow what on a connection.
Follows(x, y) ==
    LET same == y[1] = x[1]
        first == {"whole", "error", "start", "503", "cut"}
    IN  \/ x[2] = "continue" /\ same /\ y[2] \in first
        \/ x[2] \in {"start", "piece"} /\ same /\ y[2] \in {"piece", "last", "cut"}
        \/ x[2] \in {"whole", "last"} /\ y[1] = x[1] + 1 /\ y[2] \in first \cup {"continue"}

\* Every request gets one response, in the order of the requests, whole unless
\* the connection ends with it, and a 503 is sent only in the place of one, no
\* matter when the thread is cancelled or crashes.  This is said of threads none
\* of whose handlers has thrown: after an exception g_http_cancel stays set, and
\* a later connection may be sent a 503 that is not due.
WellFormed ==
    ~MayThrow \/ connections <= 1 =>
        /\ out # <<>> => out[1][1] = 1 /\ out[1][2] \notin {"piece", "last"}
        /\ \A n \in 1..(Len(out) - 1) : Follows(out[n], out[n + 1])

\* A thread that is cancelled goes away, even if the client neither sends what
\* is missing nor reads what was sent (Server::run waits for it to make room).
CancelEnds == cancelled ~> pc = "gone"

\* A client that hangs up frees its worker.
HangupFrees == hangup /\ pc # "accept" ~> pc \in {"accept", "gone"}
=============================================================================
