----------------------------- MODULE PseudoTcp -----------------------------
(***************************************************************************)
(* The reliable transport over a selected pair: two PseudoTcpSockets       *)
(* (agent/pseudotcp.c), each driven by its agent (agent/agent.c) or by an  *)
(* application, and between them a network that loses, duplicates and      *)
(* reorders packets.                                                       *)
(*                                                                         *)
(* Sequence numbers count bytes; the byte with number n of a stream is the *)
(* value n, byte 0 the CONNECT control code.  Timers fire at any moment    *)
(* while they are armed, and the congestion window is any of a set of      *)
(* values at any moment: round-trip times, ssthresh and cwnd decide when   *)
(* something is sent, never what.  Nobody resets a connection, and the     *)
(* maximal segment size is the one of an open connection.                  *)
(*                                                                         *)
(* A scenario bounds what may happen; a negative number is no bound:       *)
(*   mss                    priv->mss of both ends                         *)
(*   cwnds                  the values of priv->cwnd                       *)
(*   data                   bytes each application sends                   *)
(*   packets                packets on their way to each end at a time     *)
(*   openers                the ends that connect on their own             *)
(*   failures               steps whose writes to the network may fail     *)
(*   repeats                packets that may arrive once more              *)
(*   expiries               how often the clock finds timers run out       *)
(***************************************************************************)
EXTENDS Integers, Sequences, FiniteSets, FiniteSetsExt

CONSTANTS
  Ends,                \* the two sockets
  RcvBufSize,          \* kRcvBufSize
  SndBufSize,          \* kSndBufSize
  MaxXmit,             \* transmissions of a segment, once established
  MaxXmitConnecting,   \* and before that
  DupAckWrap,          \* dup_acks is counted modulo this (256 in the code)
  Scenarios            \* what may happen (bounds)

ASSUME PseudoTcpAssumption ==
  /\ Cardinality(Ends) = 2
  /\ {RcvBufSize, SndBufSize, MaxXmit, MaxXmitConnecting} \subseteq Nat \ {0}
  /\ RcvBufSize < SndBufSize
  /\ DupAckWrap > 3
  /\ \A c \in Scenarios :
       /\ c.mss \in Nat \ {0} /\ c.data \in [Ends -> Nat] /\ c.openers \subseteq Ends
       /\ c.packets \in [Ends -> Nat \ {0}]
       /\ c.cwnds \subseteq {n \in Nat : n >= c.mss}
       /\ {c.failures, c.repeats, c.expiries} \subseteq Int

VARIABLES
  sock,   \* the sockets' private data
  net,    \* the packets on their way to each end
  bounds  \* the scenario, with what is left of its bounds

vars == <<sock, net, bounds>>

Peer(e) == CHOOSE p \in Ends : p # e

Junk == -1

\* What pseudo_tcp_socket_init leaves.  rto and t_ack tell whether rto_base and
\* t_ack are set; failed is a record of a write that attempt_send gave up on, and
\* overtaken of data that was stored before the CONNECT arrived.
pseudo_tcp_socket_init(mss) ==
  [mss |-> mss, state |-> "LISTEN", snd_una |-> 0, snd_nxt |-> 0, snd_wnd |-> 1,
   sbuf |-> <<>>, slist |-> <<>>,
   rcv_nxt |-> 0, rcv_wnd |-> RcvBufSize, rlen |-> 0,
   rbuf |-> [i \in 1..RcvBufSize |-> Junk], rlist |-> {},
   rto |-> FALSE, t_ack |-> FALSE, dup_acks |-> 0, recover |-> 0,
   bReadEnable |-> TRUE, bWriteEnable |-> FALSE, failed |-> FALSE,
   overtaken |-> FALSE]

Init ==
  /\ bounds \in Scenarios
  /\ sock = [e \in Ends |-> pseudo_tcp_socket_init(bounds.mss)]
  /\ net = [e \in Ends |-> {}]

-----------------------------------------------------------------------------
(* Sending.  A step of a socket is a pair: the socket and what it sent.    *)

Step(s, out) == [s |-> s, out |-> out]

slen(s) == Len(s.sbuf)

nInFlight(s) == s.snd_nxt - s.snd_una

Minimum(a, b) == IF a < b THEN a ELSE b

\* Bytes are appended to the last segment if it is of the same kind and was not
\* sent yet.
queue(s, n, ctrl) ==
  LET len == Minimum(n, SndBufSize - slen(s))
      next == s.snd_una + slen(s)
      last == Len(s.slist)
      joins == last > 0 /\ s.slist[last].bCtrl = ctrl /\ s.slist[last].xmit = 0
      new == [seq |-> next, len |-> len, bCtrl |-> ctrl, xmit |-> 0]
  IN  [s EXCEPT !.sbuf = @ \o [i \in 1..len |-> next + i - 1],
                !.slist = IF joins THEN [@ EXCEPT ![last].len = @ + len]
                                   ELSE Append(@, new)]

\* data is empty in an acknowledgment; then whether it was written is ignored.
packet(t, seq, ctrl, data, written) ==
  Step([t.s EXCEPT !.t_ack = FALSE],
       IF written
       THEN t.out \cup {[seq |-> seq, ctrl |-> ctrl, data |-> data,
                         ack |-> t.s.rcv_nxt, wnd |-> t.s.rcv_wnd]}
       ELSE t.out)

\* memcpy from sbuf: outside the queued bytes there is junk.
Bytes(s, seq, len) ==
  [i \in 1..len |-> LET k == seq - s.snd_una + i
                    IN  IF k \in 1..slen(s) THEN s.sbuf[k] ELSE Junk]

\* Mutant: the rest keeps the number of the first byte.
Split_SameSeq(list, i, n) ==
  IF list[i].len <= n THEN list
  ELSE SubSeq(list, 1, i - 1)
       \o <<[list[i] EXCEPT !.len = n], [list[i] EXCEPT !.len = @ - n]>>
       \o SubSeq(list, i + 1, Len(list))

\* The segment cut into its first n bytes and the rest.
Split(list, i, n) ==
  IF list[i].len <= n THEN list
  ELSE SubSeq(list, 1, i - 1)
       \o <<[list[i] EXCEPT !.len = n],
            [list[i] EXCEPT !.seq = @ + n, !.len = @ - n]>>
       \o SubSeq(list, i + 1, Len(list))

TooManyRetransmits(s, i) ==
  s.slist[i].xmit >= (IF s.state = "ESTABLISHED" THEN MaxXmit ELSE MaxXmitConnecting)

\* transmit succeeds unless the segment was sent too often or the write fails.
CanTransmit(s, i, written) == written /\ ~TooManyRetransmits(s, i)

transmit(t, i) ==
  LET s == t.s
      n == Minimum(s.slist[i].len, s.mss)
      seg == s.slist[i]
      sent == [Split(s.slist, i, n) EXCEPT ![i].xmit = @ + 1]
  IN  packet(Step([s EXCEPT !.slist = sent, !.rto = TRUE,
                            !.snd_nxt = IF seg.xmit = 0 THEN @ + n ELSE @],
                  t.out),
             seg.seq, seg.bCtrl, Bytes(s, seg.seq, n), TRUE)

\* How many new bytes the windows admit, after silly window avoidance.
nAvailable(s, cwnd) ==
  LET congestion == IF s.dup_acks \in {1, 2} THEN cwnd + s.dup_acks * s.mss ELSE cwnd
      window == Minimum(s.snd_wnd, congestion)
      useable == IF nInFlight(s) < window THEN window - nInFlight(s) ELSE 0
      queued == Minimum(slen(s) - nInFlight(s), s.mss)
  IN  IF queued <= useable THEN queued
      ELSE IF useable * 4 < window THEN 0 ELSE useable

Nagle(s, n) == s.snd_nxt > s.snd_una /\ n < s.mss

NextToSend(s) == CHOOSE i \in DOMAIN s.slist :
                   s.slist[i].xmit = 0 /\ \A j \in 1..i-1 : s.slist[j].xmit > 0

\* One iteration of attempt_send; a loop that ended has flag "end".
SendOne(l, cwnd, written) ==
  LET s == l.t.s
      n == nAvailable(s, cwnd)
      i == NextToSend(s)
      cut == [s EXCEPT !.slist = Split(@, i, n)]
      Ended(t) == [t |-> t, flag |-> "end"]
  IN  IF l.flag = "end" THEN l
      ELSE IF n = 0
      THEN IF l.flag = "none" THEN Ended(l.t)
           ELSE IF l.flag = "immediate" \/ s.t_ack
           THEN Ended(packet(l.t, s.snd_nxt, FALSE, <<>>, written))
           ELSE Ended(Step([s EXCEPT !.t_ack = TRUE], l.t.out))
      ELSE IF Nagle(s, n) THEN Ended(l.t)
      ELSE IF ~CanTransmit(cut, i, written)
      THEN Ended(Step([cut EXCEPT !.failed = TRUE], l.t.out))
      ELSE [t |-> transmit(Step([cut EXCEPT !.failed = FALSE], l.t.out), i),
            flag |-> "none"]

attempt_send(t, flag, cwnd, written) ==
  LET loop[n \in 0..(SndBufSize + 1)] ==
        IF n = 0 THEN [t |-> t, flag |-> flag] ELSE SendOne(loop[n - 1], cwnd, written)
  IN  loop[SndBufSize + 1].t

\* closedown; the closed callback makes the agent destroy the socket.
closedown(t) == Step([t.s EXCEPT !.state = "CLOSED", !.sbuf = <<>>], t.out)

-----------------------------------------------------------------------------
(* Receiving: process, a part at a time.                                   *)

\* A CONNECT is answered by one of our own, or answers ours.
Connected(s, p) ==
  IF ~p.ctrl THEN s
  ELSE IF s.state = "LISTEN" THEN queue([s EXCEPT !.state = "SYN_RECEIVED"], 1, TRUE)
  ELSE IF s.state = "SYN_SENT" THEN [s EXCEPT !.state = "ESTABLISHED"]
  ELSE s

\* The segments left when n bytes are acknowledged.  Of a segment that is
\* acknowledged in part the length is reduced, not the number of its first byte.
Freed(list, n) ==
  LET End[k \in 0..Len(list)] == IF k = 0 THEN 0 ELSE End[k - 1] + list[k].len
      gone == Cardinality({k \in DOMAIN list : End[k] <= n})
      rest == SubSeq(list, gone + 1, Len(list))
  IN  IF rest = <<>> THEN rest ELSE [rest EXCEPT ![1].len = @ - (n - End[gone])]

kIdealRefillSize == (SndBufSize + RcvBufSize) \div 2

Valuable(s, p) == p.ack > s.snd_una /\ p.ack <= s.snd_nxt

\* Mutant: the window of a packet that was overtaken by later ones is taken too.
Current_Older(s, p) == p.ack <= s.snd_una

\* An ack that is not valuable counts only when it is of the latest byte.
Current(s, p) == p.ack = s.snd_una

\* Mutant: the retransmission timer is left as it is.
Acked_KeepTimer(s, p) ==
  LET n == p.ack - s.snd_una
  IN  [s EXCEPT !.snd_wnd = p.wnd, !.snd_una = p.ack,
                !.sbuf = SubSeq(@, n + 1, Len(@)), !.slist = Freed(@, n),
                !.dup_acks = IF @ >= 3 /\ p.ack < s.recover THEN @ ELSE 0]

\* Mutant: every ack stops the retransmission timer.
Acked_StopTimer(s, p) == [Acked_KeepTimer(s, p) EXCEPT !.rto = FALSE]

\* A valuable ack, up to the retransmission: the buffer and the queue shrink.
Acked(s, p) ==
  LET n == p.ack - s.snd_una
  IN  [s EXCEPT !.snd_wnd = p.wnd, !.snd_una = p.ack, !.rto = p.ack # s.snd_nxt,
                !.sbuf = SubSeq(@, n + 1, Len(@)), !.slist = Freed(@, n),
                !.dup_acks = IF @ >= 3 /\ p.ack < s.recover THEN @ ELSE 0]

\* And after it: the handshake ends, the writer is woken.
Opened(s, p) ==
  [s EXCEPT !.state = IF @ = "SYN_RECEIVED" /\ ~p.ctrl THEN "ESTABLISHED" ELSE @,
            !.bWriteEnable = @ /\ slen(s) >= kIdealRefillSize]

\* An ack of nothing new.  dup_acks is a guint8, which wraps.
Repeated(s, p) ==
  [s EXCEPT !.snd_wnd = p.wnd,
            !.dup_acks = IF p.data # <<>> THEN @
                         ELSE IF nInFlight(s) = 0 THEN 0
                         ELSE (@ + 1) % DupAckWrap]

\* The third duplicate, and each ack during the recovery it starts, retransmits
\* the first segment.  The result is closed when that is impossible.
Acknowledged(t, p, written) ==
  LET s == t.s
      acked == Acked(s, p)
      again == Repeated(s, p)
      retransmits == IF Valuable(s, p) THEN acked.dup_acks >= 3
                     ELSE again.dup_acks = 3 /\ again.dup_acks # s.dup_acks
      base == IF Valuable(s, p) THEN acked ELSE again
      u == IF ~retransmits THEN Step(base, t.out)
           ELSE IF CanTransmit(base, 1, written) THEN transmit(Step(base, t.out), 1)
           ELSE closedown(Step(base, t.out))
  IN  IF Valuable(s, p)
      THEN IF u.s.state = "CLOSED" THEN u ELSE Step(Opened(u.s, p), u.out)
      ELSE IF ~Current(s, p) THEN t
      ELSE IF retransmits /\ u.s.state # "CLOSED"
      THEN Step([u.s EXCEPT !.recover = u.s.snd_nxt], u.out)
      ELSE u

\* The part of the segment that is new and fits the buffer, as first and last
\* byte.
Fitted(s, p) ==
  LET first == IF p.seq < s.rcv_nxt THEN Minimum(s.rcv_nxt, p.seq + Len(p.data)) ELSE p.seq
      room == s.rcv_nxt + RcvBufSize - s.rlen
  IN  [seq |-> first, end |-> Minimum(p.seq + Len(p.data), room)]

\* Up to where the segments that wait in rlist continue the stream.
Recovered(rlist, nxt) ==
  Max({nxt} \cup {r.end : r \in {q \in rlist :
         \A b \in nxt..(q.end - 1) : \E r \in rlist : b \in r.seq..(r.end - 1)}})

\* The data is copied to its place behind the rlen bytes that are in order; what
\* does not continue them waits in rlist.
Stored(s, p) ==
  LET f == Fitted(s, p)
      offset == s.rlen - s.rcv_nxt
      rbuf == [k \in 1..RcvBufSize |->
                 IF k - 1 - offset \in f.seq..(f.end - 1)
                 THEN p.data[k - offset - p.seq] ELSE s.rbuf[k]]
      nxt == Recovered(s.rlist, f.end)
      n == nxt - s.rcv_nxt
  IN  IF f.end <= f.seq THEN s
      ELSE IF p.ctrl
      THEN IF f.seq = s.rcv_nxt THEN [s EXCEPT !.rcv_nxt = f.end] ELSE s
      ELSE IF f.seq = s.rcv_nxt
      THEN [s EXCEPT !.rbuf = rbuf, !.rlen = @ + n, !.rcv_nxt = nxt,
                     !.rcv_wnd = @ - n, !.rlist = {r \in @ : r.seq > nxt}]
      ELSE [s EXCEPT !.rbuf = rbuf, !.rlist = @ \cup {f}, !.overtaken = @ \/ s.rcv_nxt = 0]

\* Old and early segments are acknowledged at once, so are those that fill a gap.
AckFlag(s, stored, p) ==
  IF p.seq # s.rcv_nxt \/ stored.rcv_nxt > p.seq + Len(p.data) THEN "immediate"
  ELSE IF p.data # <<>> THEN "delayed" ELSE "none"

\* New data wakes the reader.
Woken(s, new) == [s EXCEPT !.bReadEnable = @ /\ ~new]

process(s, p, cwnd, written) ==
  LET t == Acknowledged(Step(Connected(s, p), {}), p, written)
      stored == Stored(t.s, p)
      u == attempt_send(Step(stored, t.out), AckFlag(t.s, stored, p), cwnd, written)
  IN  IF t.s.state = "CLOSED" THEN t
      ELSE Step(Woken(u.s, u.s.rlen > t.s.rlen), u.out)

-----------------------------------------------------------------------------
(* The actions.                                                            *)

\* The packets sent join those on their way; the network holds a few, any
\* others are lost.
Sends(e, rest, out) ==
  LET all == rest[Peer(e)] \cup out
  IN  \E kept \in SUBSET all :
        /\ Cardinality(kept) = Minimum(Cardinality(all), bounds.packets[Peer(e)])
        /\ net' = [rest EXCEPT ![Peer(e)] = kept]

Does(e, rest, t) == sock' = [sock EXCEPT ![e] = t.s] /\ Sends(e, rest, t.out)

\* One use of each of the bounds in es.
Spend(es) ==
  /\ \A x \in es : bounds[x] # 0
  /\ bounds' = [x \in DOMAIN bounds |->
                  IF x \in es /\ bounds[x] > 0 THEN bounds[x] - 1 ELSE bounds[x]]

Failing(written) == IF written THEN {} ELSE {"failures"}

\* A new pair was selected.  Later selections find another state and do nothing.
pseudo_tcp_socket_connect(e, cwnd, written) ==
  /\ sock[e].state = "LISTEN" /\ e \in bounds.openers
  /\ Spend(Failing(written))
  /\ LET s == queue([sock[e] EXCEPT !.state = "SYN_SENT"], 1, TRUE)
     IN  Does(e, net, attempt_send(Step(s, {}), "none", cwnd, written))

\* xice_agent_send with n bytes; the rest is for the writable signal.
pseudo_tcp_socket_send(e, n, cwnd, written) ==
  LET s == sock[e]
      sent == s.snd_una + slen(s)
      t == attempt_send(Step(queue(s, n, FALSE), {}), "none", cwnd, written)
      short == n > SndBufSize - slen(s)
  IN  /\ s.state = "ESTABLISHED" /\ sent <= bounds.data[e]
      /\ Spend(Failing(written))
      /\ IF slen(s) = SndBufSize
         THEN Does(e, net, Step([s EXCEPT !.bWriteEnable = TRUE], {}))
         ELSE Does(e, net, Step([t.s EXCEPT !.bWriteEnable = @ \/ short], t.out))

\* Mutant: only the readable bytes move up.
MovedUp_Readable(s, n) ==
  [k \in 1..RcvBufSize |-> IF k + n <= s.rlen THEN s.rbuf[k + n] ELSE s.rbuf[k]]

\* The buffer when n bytes were read from its start.
MovedUp(s, n) ==
  [k \in 1..RcvBufSize |-> IF k + n <= RcvBufSize THEN s.rbuf[k + n] ELSE s.rbuf[k]]

\* The read bytes leave the buffer and the rest of it moves up.  The window opens
\* when that is worth it, and is announced when it had been closed.
pseudo_tcp_socket_recv(e, n, cwnd, written) ==
  LET s == sock[e]
      r == Minimum(n, s.rlen)
      read == [s EXCEPT !.rlen = @ - r, !.rbuf = MovedUp(s, r)]
      opens == RcvBufSize - read.rlen - s.rcv_wnd >= Minimum(RcvBufSize \div 2, s.mss)
      wide == [read EXCEPT !.rcv_wnd = RcvBufSize - read.rlen]
  IN  /\ s.state = "ESTABLISHED"
      /\ Spend(Failing(written))
      /\ Does(e, net,
           IF s.rlen = 0 THEN Step([s EXCEPT !.bReadEnable = TRUE], {})
           ELSE IF ~opens THEN Step(read, {})
           ELSE IF s.rcv_wnd > 0 THEN Step(wide, {})
           ELSE attempt_send(Step(wide, {}), "immediate", cwnd, written))

\* The timers that may run out; "dead" is the one since the last packet.
Armed(s) ==
  (IF s.rto THEN {"rto"} ELSE {}) \cup (IF s.t_ack THEN {"ack"} ELSE {})
    \cup (IF s.snd_wnd = 0 THEN {"probe", "dead"} ELSE {})

\* due are the timers that ran out; without any, nothing happens.
pseudo_tcp_socket_notify_clock(e, due, written) ==
  LET s == sock[e]
      t == IF "rto" \notin due THEN Step(s, {})
           ELSE IF CanTransmit(s, 1, written) THEN transmit(Step(s, {}), 1)
           ELSE closedown(Step(s, {}))
      u == IF "probe" \notin due THEN t
           ELSE IF "dead" \in due THEN closedown(t)
           ELSE packet(t, t.s.snd_nxt - 1, FALSE, <<>>, written)
      v == IF "ack" \in due /\ u.s.t_ack
           THEN packet(u, u.s.snd_nxt, FALSE, <<>>, written) ELSE u
  IN  /\ s.state # "CLOSED" /\ due # {}
      /\ Spend(Failing(written) \cup {"expiries"})
      /\ Does(e, net, IF t.s.state = "CLOSED" THEN t
                      ELSE IF u.s.state = "CLOSED" THEN u ELSE v)

\* A packet arrives; it may arrive again.
pseudo_tcp_socket_notify_packet(e, p, again, cwnd, written) ==
  /\ sock[e].state # "CLOSED"
  /\ Spend(Failing(written) \cup (IF again THEN {"repeats"} ELSE {}))
  /\ Does(e, [net EXCEPT ![e] = IF again THEN @ ELSE @ \ {p}],
          process(sock[e], p, cwnd, written))

Next ==
  \E e \in Ends, written \in BOOLEAN :
    \/ \E cwnd \in bounds.cwnds :
         \/ pseudo_tcp_socket_connect(e, cwnd, written)
         \/ \E n \in 1..(bounds.data[e] + 1 - sock[e].snd_una - slen(sock[e])) :
              pseudo_tcp_socket_send(e, n, cwnd, written)
         \/ \E n \in 1..Max({1, sock[e].rlen}) : pseudo_tcp_socket_recv(e, n, cwnd, written)
         \/ \E p \in net[e], again \in BOOLEAN :
              pseudo_tcp_socket_notify_packet(e, p, again, cwnd, written)
    \/ \E due \in SUBSET Armed(sock[e]) :
         pseudo_tcp_socket_notify_clock(e, due, written)

Spec == Init /\ [][Next]_vars

-----------------------------------------------------------------------------
(* Properties.                                                             *)

MaxSeq == Max({bounds.data[e] : e \in Ends}) + 1

\* The types of the variables; in particular no unsigned field ran below 0.
TypeOK ==
  \A e \in Ends :
    LET s == sock[e]
    IN  /\ s.state \in {"LISTEN", "SYN_SENT", "SYN_RECEIVED", "ESTABLISHED", "CLOSED"}
        /\ {s.snd_una, s.snd_nxt, s.rcv_nxt, s.recover} \subseteq 0..MaxSeq
        /\ {s.snd_wnd, s.rcv_wnd, s.rlen} \subseteq 0..RcvBufSize
        /\ s.rbuf \in [1..RcvBufSize -> {Junk} \cup 0..MaxSeq]
        /\ slen(s) \in 0..SndBufSize
        /\ s.dup_acks \in 0..(DupAckWrap - 1)

\* Where the byte with number seq lies in rbuf.
At(s, seq) == s.rbuf[s.rlen + seq - s.rcv_nxt + 1]

\* The bytes an application can read are those the other wrote, in order.
Readable(s) == \A q \in (s.rcv_nxt - s.rlen)..(s.rcv_nxt - 1) : At(s, q) = q

\* The bytes an application reads are those the other wrote, in order and each
\* once, and a byte that waits for a gap to be filled lies where it will be read,
\* as long as no data overtook the CONNECT that opens the stream.
Reassembly ==
  \A e \in Ends :
    LET s == sock[e]
    IN  ~s.overtaken =>
          /\ Readable(s)
          /\ \A r \in s.rlist : \A q \in r.seq..(r.end - 1) :
               q >= s.rcv_nxt => At(s, q) = q

\* The segments of the queue cover the send buffer exactly, so that what is
\* retransmitted is what was to be sent; the ones in flight come first.
SegmentsCoverBuffer ==
  \A e \in Ends :
    LET s == sock[e]
        End(i) == s.slist[i].seq + s.slist[i].len
    IN  s.state # "CLOSED" =>
          /\ \A i \in DOMAIN s.slist :
               s.slist[i].seq = IF i = 1 THEN s.snd_una ELSE End(i - 1)
          /\ slen(s) > 0 => s.slist # <<>> /\ End(Len(s.slist)) = s.snd_una + slen(s)
          /\ \A i \in DOMAIN s.slist : s.slist[i].xmit > 0 <=> End(i) <= s.snd_nxt

\* No end ever has more in flight than the other granted it, also when a packet
\* with an old window arrives after one with a newer; so no byte that was sent
\* has to be cut off.
WindowHonoured ==
  \A e \in Ends :
    LET s == sock[e]
        r == sock[Peer(e)]
    IN  /\ s.snd_una <= r.rcv_nxt /\ r.rcv_nxt <= s.snd_nxt
        /\ r.rcv_nxt > 0 => s.snd_nxt <= r.rcv_nxt + r.rcv_wnd

\* Bytes that were accepted have something that will send them on: the
\* retransmission timer, or the probe of a closed window.  The exception is a
\* write that failed when nothing was in flight: nothing repeats it.
NothingStalls ==
  \A e \in Ends :
    LET s == sock[e]
    IN  slen(s) > 0 /\ s.state # "CLOSED" /\ ~s.failed => s.rto \/ s.snd_wnd = 0

\* notify_clock asserts that there is a segment to retransmit when the
\* retransmission timer runs out.
TimerHasSegment ==
  \A e \in Ends : sock[e].rto /\ sock[e].state # "CLOSED" => nInFlight(sock[e]) > 0

\* A reader that was told to wait is woken once there is data, a writer once
\* there is room: neither waits for a signal that was given before.
NoLostWakeup ==
  \A e \in Ends :
    LET s == sock[e]
    IN  s.state = "ESTABLISHED" => /\ s.bReadEnable => s.rlen = 0
                                   /\ s.bWriteEnable => slen(s) >= kIdealRefillSize

\* An end that answered a CONNECT is established by the first ack of its own: no
\* packet takes that ack away without finishing the handshake.
HandshakeEnds ==
  \A e \in Ends : sock[e].state = "SYN_RECEIVED" => sock[e].snd_una = 0
\* The fields have their types, the retransmission timer agrees with the queue,
\* so that notify_clock never finds it empty, and no ack is used up in the
\* middle of a handshake.
Consistent == TypeOK /\ TimerHasSegment /\ HandshakeEnds

\* Nobody waits for something that does not come: accepted bytes have a timer
\* or a probe that sends them on, and neither a reader nor a writer waits for a
\* signal that was given before.
Progresses == NothingStalls /\ NoLostWakeup
=============================================================================
