---------------------------- MODULE ProxySocket ----------------------------
(* The sockets that make a handshake before they pass data on:             *)
(* socket/socks5.c, socket/http.c and socket/pseudossl.c, over a TcpSocket *)
(* t.  Of a byte that is read the model keeps which message it is part of  *)
(* and where: <<what, number, position>>.  A read leads to a set of        *)
(* results: the socket below, the proxy, the bytes passed up, and the      *)
(* value returned, on which the read source is kept.                       *)
EXTENDS TcpSocket

CONSTANTS
  ReplyLen,    \* bytes of a SOCKS5 reply
  ReplySkip,   \* bytes of it the code takes away
  ServerHello, \* bytes of SSL_SERVER_HANDSHAKE
  ClientHello  \* bytes of SSL_CLIENT_HANDSHAKE

ASSUME ProxyAssumption ==
  /\ ReplyLen \in Nat /\ ReplySkip \in 2..ReplyLen
  /\ ServerHello \in Nat \ {0} /\ ClientHello \in 1..ServerHello

\* Messages are numbered in the order they are to leave: those of the handshake
\* are negative, the application's positive.
Hello == -3
Auth == -2
Connect == -1

NewProxy(kind) ==
  [kind |-> kind, user |-> FALSE, state |-> "INIT", queue |-> <<>>, recv_buf |-> <<>>,
   content_length |-> 0]

\* No proxy: the TCP socket itself.
Direct == [NewProxy("direct") EXCEPT !.state = "CONNECTED"]

\* 'user': are there a username and a password?
xice_socks5_socket_new(user) == [NewProxy("socks5") EXCEPT !.user = user]

xice_http_socket_new == NewProxy("http")

xice_pseudossl_socket_new == NewProxy("pseudossl")

Result(t, p, up, ret) == [tcp |-> t, proxy |-> p, up |-> up, ret |-> ret]

NotEnoughData(t, p) == {Result(t, p, <<>>, TRUE)}

\* The base socket is freed; pseudossl.c has no state for it.
Error(t, p) ==
  {Result(socket_close(t), [p EXCEPT !.state = IF p.kind = "pseudossl" THEN @ ELSE "ERROR"],
          <<>>, FALSE)}

\* The queued messages are given to the base socket.
Flushed(t, p) ==
  FoldLeft(LAMBDA S, m : UNION {socket_send(u, m) : u \in S}, {t}, p.queue)

\* socket_send of the three: data waits for the handshake.
proxy_socket_send(t, p, m) ==
  IF p.state = "CONNECTED"
  THEN {[tcp |-> u, proxy |-> p] : u \in IF t.open THEN socket_send(t, m) ELSE {t}}
  ELSE {[tcp |-> t,
         proxy |-> IF p.state = "ERROR" THEN p ELSE [p EXCEPT !.queue = Append(@, m)]]}

-----------------------------------------------------------------------------
\* What the buffer of p holds at its beginning.
What(p) == p.recv_buf[1][1]

Skip(p, n) == [p EXCEPT !.recv_buf = SubSeq(@, n + 1, Len(@))]

\* The reply is taken away: as many bytes as are skipped leave the length, but
\* the rest is moved down by two.
SkipReply(p) == [p EXCEPT !.recv_buf = SubSeq(@, 3, 2 + Len(@) - ReplySkip)]

\* The states of socks5.c, each going on to the next while there is data.
RECURSIVE Socks5(_, _)
Socks5(t, p) ==
  LET last == Len(p.recv_buf)
      Ask(m, state) ==
        UNION {Socks5(u, [Skip(p, 2) EXCEPT !.state = state]) : u \in socket_send(t, m)}
  IN CASE p.state = "CONNECTED" ->
            {Result(t, [p EXCEPT !.recv_buf = <<>>], p.recv_buf, last > 0)}
       [] p.state \in {"INIT", "AUTH"} ->
            IF last < 2 THEN NotEnoughData(t, p)
            ELSE IF <<p.state, What(p)>> \in {<<"INIT", "method_none">>, <<"AUTH", "auth_ok">>}
                 THEN Ask(Connect, "CONNECT")
            ELSE IF <<p.state, What(p)>> = <<"INIT", "method_user">> /\ p.user
                 THEN Ask(Auth, "AUTH")
            ELSE Error(t, p)
       [] p.state = "CONNECT" ->
            IF last < 4 THEN NotEnoughData(t, p)
            ELSE IF What(p) # "reply_ok" THEN Error(t, p)
            ELSE IF last < ReplyLen THEN NotEnoughData(t, p)
            ELSE UNION {Socks5(u, [SkipReply(p) EXCEPT !.state = "CONNECTED", !.queue = <<>>]) :
                          u \in Flushed(t, p)}

\* The states of http.c.  A line is a text, which the empty line lacks, and its
\* end; a Content-Length line holds its number.
RECURSIVE Http(_, _)
Http(t, p) ==
  LET ends == {i \in DOMAIN p.recv_buf : p.recv_buf[i][1] = "eol"}
      Line == Skip(p, Min(ends))
      body == Min({p.content_length, Len(p.recv_buf)})
  IN CASE p.state = "INIT" ->
            IF p.recv_buf = <<>> THEN NotEnoughData(t, p)
            ELSE IF What(p) # "status_ok" THEN Error(t, p)
            ELSE IF ends = {} THEN NotEnoughData(t, p)
            ELSE Http(t, [Line EXCEPT !.state = "HEADERS", !.content_length = 0])
       [] p.state = "HEADERS" ->
            LET q == IF p.recv_buf # <<>> /\ What(p) = "length"
                     THEN [p EXCEPT !.content_length = p.recv_buf[1][2]] ELSE p
            IN  IF ends = {} THEN NotEnoughData(t, q)
                ELSE Http(t, [Line EXCEPT !.content_length = q.content_length,
                                          !.state = IF Min(ends) = 1 THEN "BODY" ELSE @])
       [] p.state = "BODY" ->
            IF p.content_length = 0 THEN Http(t, [p EXCEPT !.state = "CONNECTED"])
            ELSE IF p.recv_buf = <<>> THEN NotEnoughData(t, p)
            ELSE Http(t, [Skip(p, body) EXCEPT !.content_length = @ - body])
       [] p.state = "CONNECTED" ->
            {Result(u, [p EXCEPT !.recv_buf = <<>>, !.queue = <<>>], p.recv_buf, p.recv_buf # <<>>) :
               u \in Flushed(t, p)}

\* pseudossl.c keeps nothing between reads: the handshake is to come in one.
PseudoSsl(t, p, buf) ==
  IF Len(buf) >= ServerHello /\ \A i \in 1..ServerHello : buf[i][1] = "server_hello"
  THEN {Result(u, [p EXCEPT !.state = "CONNECTED", !.queue = <<>>],
               IF Len(buf) > ServerHello THEN SubSeq(buf, ClientHello + 1, Len(buf)) ELSE <<>>,
               TRUE) : u \in Flushed(t, p)}
  ELSE Error(t, p)

\* The read_callback of the three, for data.
proxy_read_callback(t, p, buf) ==
  LET q == [p EXCEPT !.recv_buf = @ \o buf]
  IN CASE p.state = "CONNECTED" -> {Result(t, p, buf, TRUE)}
       [] p.state = "ERROR" -> Error(t, p)
       [] p.kind = "socks5" -> Socks5(t, q)
       [] p.kind = "http" -> Http(t, q)
       [] p.kind = "pseudossl" -> PseudoSsl(t, p, buf)
=============================================================================
