----------------------------- MODULE TcpSocket -----------------------------
(* The TCP socket of contexts/giotcp.c: a non-blocking write, and a queue  *)
(* for what the kernel did not take.  Operators that write return the set  *)
(* of sockets the call can lead to, one for each answer of g_socket_send.  *)
(* They are atomic as long as the agent is called from the thread that     *)
(* runs the main loop: socket_send_more does not take the lock.            *)
EXTENDS Integers, Sequences, SequencesExt, FiniteSetsExt

CONSTANTS
  MaxQueue,   \* MAX_QUEUE_LENGTH
  MsgLen      \* bytes of a message

ASSUME TcpAssumption == MaxQueue \in Nat \ {0, 1} /\ MsgLen \in Nat \ {0}

\* wire are the bytes the kernel took; connected and broken are the state of
\* the connection; source and io_source are the two GSources;
\* lost are the messages given up after an error of g_socket_send.
gio_tcp_socket_create ==
  [queue |-> <<>>, io_source |-> FALSE, source |-> TRUE, error |-> FALSE, open |-> TRUE,
   connected |-> FALSE, broken |-> FALSE, wire |-> <<>>, lost |-> {}]

socket_close(t) ==
  [t EXCEPT !.queue = <<>>, !.io_source = FALSE, !.source = FALSE, !.open = FALSE]

\* The kernel takes the bytes from+1..to of message m.
Wrote(t, m, from, to) ==
  [t EXCEPT !.wire = @ \o [i \in 1..(to - from) |-> <<m, from + i>>]]

Lost(t, m) == [t EXCEPT !.lost = @ \cup {m}]

\* Mutant: a message that was sent in part can be dropped.
add_to_be_sent_Droppable(t, m, sent, head) ==
  LET tbs == [msg |-> m, sent |-> sent, can_drop |-> TRUE]
  IN  [t EXCEPT !.queue = IF head THEN <<tbs>> \o @ ELSE Append(@, tbs), !.io_source = TRUE]

\* Mutant: only an empty queue's first message arms the write source.
add_to_be_sent_NotArmed(t, m, sent, head) ==
  LET tbs == [msg |-> m, sent |-> sent, can_drop |-> ~head]
  IN  [t EXCEPT !.queue = IF head THEN <<tbs>> \o @ ELSE Append(@, tbs),
                !.io_source = @ \/ ~head]

\* What is left of message m after its first 'sent' bytes.
add_to_be_sent(t, m, sent, head) ==
  LET tbs == [msg |-> m, sent |-> sent, can_drop |-> ~head]
  IN  [t EXCEPT !.queue = IF head THEN <<tbs>> \o @ ELSE Append(@, tbs), !.io_source = TRUE]

\* The first droppable message of a full queue makes room.
MadeRoom(queue) ==
  LET drop == {i \in DOMAIN queue : queue[i].can_drop}
  IN  IF Len(queue) < MaxQueue \/ drop = {} THEN queue ELSE RemoveAt(queue, Min(drop))

\* A message is written at once if nothing waits.  It is given up after an
\* error that is neither WOULD_BLOCK nor FAILED.
socket_send(t, m) ==
  IF t.error THEN {t}
  ELSE IF t.queue # <<>> THEN {add_to_be_sent([t EXCEPT !.queue = MadeRoom(@)], m, 0, FALSE)}
  ELSE {add_to_be_sent(t, m, 0, FALSE), Lost(t, m)}
       \cup (IF t.broken \/ ~t.connected THEN {}
             ELSE {Wrote(t, m, 0, MsgLen)}
                  \cup {add_to_be_sent(Wrote(t, m, 0, n), m, n, TRUE) : n \in 1..(MsgLen - 1)})

\* The first k messages of the queue are written, except those that failed.
WroteFirst(t, k, failed) ==
  FoldLeft(LAMBDA u, tbs : IF tbs.msg \in failed THEN Lost(u, tbs.msg)
                           ELSE Wrote(u, tbs.msg, tbs.sent, MsgLen),
           [t EXCEPT !.queue = SubSeq(@, k + 1, Len(@))], SubSeq(t.queue, 1, k))

\* The socket is writable: messages leave until the kernel takes no more, and
\* what is left of the last one goes back to the head.  A message whose write
\* fails in another way is given up, also when it has left in part, and the next
\* one is written; all fail when the connection is lost.
socket_send_more(t) ==
  LET n == Len(t.queue)
      Failed(k) == LET first == {t.queue[i].msg : i \in 1..k}
                   IN  IF t.broken THEN {first} ELSE SUBSET first
      Blocked(k) ==
        LET tbs == t.queue[k + 1]
        IN  {add_to_be_sent(Wrote([WroteFirst(t, k, failed) EXCEPT !.queue = Tail(@)],
                                  tbs.msg, tbs.sent, sent), tbs.msg, sent, TRUE) :
               sent \in tbs.sent..(MsgLen - 1), failed \in Failed(k)}
  IN  {[WroteFirst(t, n, failed) EXCEPT !.io_source = FALSE] : failed \in Failed(n)}
      \cup (IF t.broken THEN {} ELSE UNION {Blocked(k) : k \in 0..(n - 1)})
=============================================================================
