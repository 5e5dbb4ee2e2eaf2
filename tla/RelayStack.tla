----------------------------- MODULE RelayStack -----------------------------
(* A TURN server reached over TCP, as priv_add_new_candidate_discovery_turn *)
(* builds it: the framing of socket/tcp-turn.c over an optional proxy      *)
(* socket over a TCP socket.  A read passes through all three in one       *)
(* callback of the main loop.  The server and the proxy are external: they *)
(* answer, once, what reached them whole.                                  *)
EXTENDS ProxySocket

CONSTANTS
  Kinds,       \* the stacks to build: {"direct", "socks5", "http", "pseudossl"}
  HeaderLen,   \* bytes of a frame that tell its length
  BodyLen,     \* bytes of a frame after the header
  PadLen,      \* bytes that pad a frame (none in Google's mode)
  Garbage,     \* values of a length that is not one, or not initialized
  MaxSends,    \* bound on the messages the agent sends
  MaxFrames    \* bound on the messages of the server

VARIABLES
  tcp,         \* the TCP socket
  proxy,       \* the socket above it
  turn,        \* the TurnTcpPriv: google, recv_buf, expecting_len
  sent,        \* messages the agent sent
  net,         \* bytes on their way to us
  answered,    \* handshake messages the proxy answered
  frames,      \* messages the server sent
  received,    \* what the agent was given, a sequence of bytes each time
  cut          \* has a read ended inside a frame, after its header?

vars == <<tcp, proxy, turn, sent, net, answered, frames, received, cut>>

ASSUME RelayAssumption ==
  /\ Kinds \subseteq {"direct", "socks5", "http", "pseudossl"}
  /\ HeaderLen \in Nat \ {0} /\ BodyLen \in Nat \ {0} /\ PadLen \in Nat /\ Garbage \subseteq Nat

\* pseudossl is for Google's servers.  The handshake is sent at once, before
\* the connection is made.
Init ==
  /\ proxy \in {Direct, xice_http_socket_new, xice_pseudossl_socket_new}
             \cup {xice_socks5_socket_new(user) : user \in BOOLEAN}
  /\ proxy.kind \in Kinds
  /\ turn \in [google : BOOLEAN, recv_buf : {<<>>}, expecting_len : {0}]
  /\ turn.google = (proxy.kind = "pseudossl")
  /\ tcp \in IF proxy.kind = "direct" THEN {gio_tcp_socket_create}
             ELSE socket_send(gio_tcp_socket_create, Hello)
  /\ sent = 0 /\ net = <<>> /\ answered = {} /\ frames = 0 /\ received = <<>> /\ cut = FALSE

-----------------------------------------------------------------------------
(* socket/tcp-turn.c.                                                      *)

FrameLen == HeaderLen + BodyLen + IF turn.google THEN 0 ELSE PadLen

Frame(n) == [i \in 1..FrameLen |-> <<"frame", n, i>>]

\* expecting_len and padlen for the frame that buf begins with.  Google's
\* header does not count itself, and the code does not add it.  (Were it 0, the
\* callback would not return; that case is left out.)
Lengths(buf) ==
  IF buf[1][1] # "frame" \/ buf[1][3] # 1
  THEN (IF turn.google THEN Garbage \ {0} ELSE {HeaderLen + g : g \in Garbage}) \X {0}
  ELSE IF turn.google THEN {<<BodyLen, 0>>}
  ELSE {<<HeaderLen + BodyLen, PadLen>>}

Take(buf, n) == SubSeq(buf, 1, n)
Drop(buf, n) == SubSeq(buf, n + 1, Len(buf))

Framed(tn, up) == [turn |-> tn, up |-> up]

\* Mutant: the rest of a read is forgotten after its first frame.
WholeFrame_Once(tn, buf, total, up) ==
  {Framed(tn, Append(up, Take(buf, total)))}

\* read_callback of tcp-turn.c for the bytes buf, up being what was passed on
\* so far: frames that are in buf are passed on from there.
RECURSIVE ReadFrames(_, _, _)

\* A frame that is whole in buf is passed on, and what follows it is next.
WholeFrame(tn, buf, total, up) ==
  ReadFrames(tn, Drop(buf, total), Append(up, Take(buf, total)))

\* A frame is put together in recv_buf.  expecting_len becomes what is missing,
\* although recv_buf is counted again; padlen is not kept.
BufferedFrame(tn, buf, expecting, padlen, up) ==
  LET total == expecting + padlen
      missing == total - Len(tn.recv_buf)
      copy == IF missing < 0 THEN Len(buf) ELSE Min({Len(buf), missing})
      all == tn.recv_buf \o Take(buf, copy)
  IN  IF Len(all) >= total
      THEN ReadFrames([tn EXCEPT !.recv_buf = Drop(all, total), !.expecting_len = 0],
                      Drop(buf, copy), Append(up, Take(all, total)))
      ELSE {Framed([tn EXCEPT !.recv_buf = all, !.expecting_len = total - Len(all)], up)}

ReadFrames(tn, buf, up) ==
  LET have == Len(tn.recv_buf)
      header == tn.recv_buf \o Take(buf, HeaderLen - have)
      rest == Drop(buf, HeaderLen - have)
  IN CASE buf = <<>> -> {Framed(tn, up)}
       [] tn.expecting_len = 0 /\ have + Len(buf) < HeaderLen ->
            {Framed([tn EXCEPT !.recv_buf = @ \o buf], up)}
       [] tn.expecting_len = 0 /\ have = 0 ->
            UNION {LET total == l[1] + l[2] IN
                   IF Len(buf) >= total THEN WholeFrame(tn, buf, total, up)
                   ELSE {Framed([tn EXCEPT !.recv_buf = buf,
                                           !.expecting_len = total - Len(buf)], up)} :
                   l \in Lengths(buf)}
       [] tn.expecting_len = 0 /\ have > 0 /\ have < HeaderLen ->
            UNION {BufferedFrame([tn EXCEPT !.recv_buf = header], rest, l[1], l[2], up) :
                   l \in Lengths(header)}
       [] tn.expecting_len = 0 /\ have >= HeaderLen ->
            UNION {BufferedFrame(tn, buf, l[1], l[2], up) : l \in Lengths(tn.recv_buf)}
       [] tn.expecting_len > 0 ->
            UNION {BufferedFrame(tn, buf, tn.expecting_len, padlen, up) : padlen \in Garbage}

\* xice_agent_send and the TURN requests: one message, padded to a frame.
Send ==
  /\ sent < MaxSends
  /\ sent' = sent + 1
  /\ \E r \in proxy_socket_send(tcp, proxy, sent + 1) : tcp' = r.tcp /\ proxy' = r.proxy
  /\ UNCHANGED <<turn, net, answered, frames, received, cut>>

-----------------------------------------------------------------------------
(* The main loop and the connection.                                       *)

SendMore ==
  /\ tcp.io_source
  /\ tcp.connected \/ tcp.broken
  /\ tcp' \in socket_send_more(tcp)
  /\ UNCHANGED <<proxy, turn, sent, net, answered, frames, received, cut>>

\* socket_callback, when n bytes can be read: a callback that returns FALSE
\* removes the source.
Read(n) ==
  /\ tcp.source /\ ~tcp.error
  /\ net' = Drop(net, n)
  /\ \E r \in proxy_read_callback(tcp, proxy, Take(net, n)) :
       /\ proxy' = r.proxy
       /\ tcp' = [r.tcp EXCEPT !.source = @ /\ r.ret]
       /\ \E f \in ReadFrames(turn, r.up, <<>>) : turn' = f.turn /\ received' = received \o f.up
  /\ cut' = (cut \/ (proxy.state = "CONNECTED" /\ n < Len(net)
                     /\ net[n + 1][3] > HeaderLen))
  /\ UNCHANGED <<sent, answered, frames>>

\* The end of the connection is read: http.c and pseudossl.c free the socket;
\* of the others the length -1 is taken for a number of bytes.
ReadEnd ==
  /\ tcp.source /\ tcp.broken /\ ~tcp.error
  /\ IF proxy.kind \in {"http", "pseudossl"}
     THEN \E r \in Error(tcp, proxy) : tcp' = r.tcp /\ proxy' = r.proxy
     ELSE /\ tcp' \in {[tcp EXCEPT !.error = shut, !.source = kept] : shut, kept \in BOOLEAN}
          /\ UNCHANGED proxy
  /\ UNCHANGED <<turn, sent, net, answered, frames, received, cut>>

Connected ==
  /\ ~tcp.connected /\ ~tcp.broken
  /\ tcp' = [tcp EXCEPT !.connected = TRUE]
  /\ UNCHANGED <<proxy, turn, sent, net, answered, frames, received, cut>>

Break ==
  /\ ~tcp.broken
  /\ tcp' = [tcp EXCEPT !.broken = TRUE]
  /\ UNCHANGED <<proxy, turn, sent, net, answered, frames, received, cut>>

-----------------------------------------------------------------------------
(* The proxy and the server.                                               *)

Arrived(m) == \E i \in DOMAIN tcp.wire : tcp.wire[i] = <<m, MsgLen>>

Bytes(what, n) == [i \in 1..n |-> <<what, 1, i>>]

HttpAnswer(status, length) ==
  <<<<status, 0, 1>>, <<"eol", 0, 1>>>>
  \o (IF length = 0 THEN <<>> ELSE <<<<"length", length, 1>>, <<"eol", 0, 1>>>>)
  \o <<<<"eol", 0, 1>>>> \o Bytes("body", length)

Answers(m) ==
  CASE proxy.kind = "http" -> {HttpAnswer("status_ok", 0), HttpAnswer("status_ok", 2),
                               HttpAnswer("status_bad", 0)}
    [] proxy.kind = "pseudossl" -> {Bytes("server_hello", ServerHello), Bytes("alert", 1)}
    [] m = Hello -> {Bytes(what, 2) : what \in {"method_none", "method_user", "method_bad"}}
    [] m = Auth -> {Bytes(what, 2) : what \in {"auth_ok", "auth_bad"}}
    [] m = Connect -> {Bytes(what, ReplyLen) : what \in {"reply_ok", "reply_bad"}}

ProxyAnswers(m) ==
  /\ ~tcp.broken /\ tcp.open
  /\ Arrived(m) /\ m \notin answered
  /\ answered' = answered \cup {m}
  /\ \E a \in Answers(m) : net' = net \o a
  /\ UNCHANGED <<tcp, proxy, turn, sent, frames, received, cut>>

ServerSends ==
  /\ ~tcp.broken /\ tcp.open
  /\ frames < MaxFrames
  /\ Arrived(frames + 1)
  /\ frames' = frames + 1
  /\ net' = net \o Frame(frames + 1)
  /\ UNCHANGED <<tcp, proxy, turn, sent, answered, received, cut>>

Next ==
  \/ Send
  \/ SendMore
  \/ \E n \in 1..Len(net) : Read(n)
  \/ ReadEnd
  \/ Connected
  \/ Break
  \/ \E m \in {Hello, Auth, Connect} : ProxyAnswers(m)
  \/ ServerSends

Spec == Init /\ [][Next]_vars

-----------------------------------------------------------------------------
(* Messages and bytes are those there are.                                 *)
TypeOK ==
  LET Messages == {Hello, Auth, Connect} \cup (1..sent) IN
  /\ \A i \in DOMAIN tcp.queue :
       tcp.queue[i] \in [msg : Messages, sent : 0..(MsgLen - 1), can_drop : BOOLEAN]
  /\ \A i \in DOMAIN tcp.wire : tcp.wire[i] \in Messages \X (1..MsgLen)
  /\ ToSet(proxy.queue) \subseteq 1..sent
  /\ proxy.state \in {"INIT", "AUTH", "CONNECT", "HEADERS", "BODY", "CONNECTED", "ERROR"}
  /\ proxy.content_length \in Nat /\ turn.expecting_len \in Nat

(* The queue of socket_send stays within its limit: only its head cannot   *)
(* be dropped, so that a full queue always has room to make.               *)
QueueBounded ==
  /\ Len(tcp.queue) <= MaxQueue
  /\ \A i \in 2..Len(tcp.queue) : tcp.queue[i].can_drop

(* What waits is waited for: bytes the kernel did not take have the write  *)
(* source, and data queued behind a handshake has a handshake request that *)
(* is sent or will be, and the source to read its answer.  After an error  *)
(* pseudossl.c still queues; that is excepted by tcp.open.  A handshake    *)
(* request that was given up after a write error is not sent again.        *)
NothingStuck ==
  /\ tcp.queue # <<>> => tcp.io_source
  /\ proxy.queue # <<>> /\ tcp.open /\ ~tcp.broken =>
       /\ tcp.source
       /\ LET m == CASE proxy.state = "AUTH" -> Auth [] proxy.state = "CONNECT" -> Connect
                     [] OTHER -> Hello
          IN  Arrived(m) \/ m \in tcp.lost \/ \E i \in DOMAIN tcp.queue : tcp.queue[i].msg = m

(* The queues are well formed, bounded and waited for.                     *)
Consistent == TypeOK /\ QueueBounded /\ NothingStuck

(* A message leaves whole, and in the order the messages were sent: a byte *)
(* on the wire continues its message or begins one of a later number; the  *)
(* rest of a message that left in part is at the head of the queue; those  *)
(* queued by the proxy come after.  So dropping a message of a full queue  *)
(* never breaks the framing ("Data sent to this function must be a single  *)
(* entity because buffers can be dropped"), and no data precedes the       *)
(* handshake.  Only a write error that makes socket_send_more give a       *)
(* message up leaves a part of it on the wire.                             *)
SentWhole ==
  LET order == [i \in DOMAIN tcp.wire |-> tcp.wire[i][1]]
               \o [i \in DOMAIN tcp.queue |-> tcp.queue[i].msg] \o proxy.queue
      Ended(byte) == byte[2] = MsgLen \/ byte[1] \in tcp.lost
  IN  /\ \A i \in 1..(Len(order) - 1) : order[i] <= order[i + 1]
      /\ tcp.wire # <<>> => tcp.wire[1][2] = 1
      /\ \A i \in 2..Len(tcp.wire) :
           \/ tcp.wire[i] = <<tcp.wire[i - 1][1], tcp.wire[i - 1][2] + 1>>
           \/ Ended(tcp.wire[i - 1]) /\ tcp.wire[i][2] = 1
      /\ tcp.wire # <<>> /\ ~Ended(Last(tcp.wire)) /\ tcp.open /\ ~tcp.broken =>
           /\ tcp.queue # <<>>
           /\ <<tcp.queue[1].msg, tcp.queue[1].sent>> = Last(tcp.wire)

(* Over a direct connection the agent is given the server's messages, each *)
(* once and whole, however many are read at once, and also when a header   *)
(* is read in parts.  Excepted is a read that ends inside a frame after    *)
(* its header: the next one counts what is buffered twice.                 *)
FramesRead ==
  proxy.kind = "direct" /\ ~cut =>
    /\ Len(received) <= frames
    /\ \A n \in DOMAIN received : received[n] = Frame(n)
    /\ net = <<>> => Len(received) = frames
=============================================================================
