---------------------------- MODULE TurnSocket ----------------------------
(***************************************************************************)
(* The TURN client socket (socket/turn.c), in the modes DRAFT9 and RFC5766: *)
(* the channel bindings it makes, renews and loses, one request at a time; *)
(* the permissions it asks for before data may be sent, with the data      *)
(* queued meanwhile; and the timers behind both.                           *)
(*                                                                         *)
(* Time is abstract: a live timer may fire at any moment, and              *)
(* stun_timer_refresh gives any of its results, except that permission     *)
(* requests, which all have the same schedule, time out in the order they  *)
(* were sent.  Operators on a state s return the set of states the call    *)
(* can lead to.  The table of transactions never fills up, so a request    *)
(* that can be built is sent (a full table is StunAgent's subject).  The   *)
(* calls and timers take the lock of the agent; an answer does not         *)
(* (read_callback): every action is atomic as long as the calls come from  *)
(* the thread that runs the callbacks.                                     *)
(***************************************************************************)
EXTENDS Integers, Sequences, SequencesExt

CONSTANTS
  Peers, None,
  IPv6,             \* the peers with an IPv6 address
  NeedsPermission,  \* RFC5766; DRAFT9 has no permissions
  MaxBindings,      \* bound on bindings made or waiting
  MaxData           \* bound on the data queued for a peer

ASSUME TurnAssumption ==
  /\ None \notin Peers /\ IPv6 \subseteq Peers
  /\ None \notin [peer : Peers, channel : Nat]
  /\ None \notin [peer : Peers, channel : Nat, realm : BOOLEAN]
  /\ NeedsPermission \in BOOLEAN
  /\ MaxBindings \in Nat /\ MaxData \in Nat

VARIABLE priv

FirstChannel == 16384  \* 0x4000

\* xice_turn_socket_new
Init == priv =
  [channels |-> <<>>,              \* [peer, channel, renew, timer] each
   pending_bindings |-> <<>>,
   current_binding |-> None,       \* the new binding being made: [peer, channel]
   current_binding_msg |-> None,   \* the ChannelBind in flight: [peer, channel, realm]
   tick_channel |-> FALSE,         \* tick_source_channel_bind is running
   pending_permissions |-> <<>>,   \* the CreatePermissions in flight: [peer, realm]
   sent_permissions |-> {},
   permissions |-> {},
   permission_timer |-> FALSE,
   tick_permission |-> FALSE,      \* tick_source_create_permission is running
   leaked |-> FALSE,               \* so is a timer it was overwritten over
   queue |-> [p \in Peers |-> 0],  \* send_data_queues
   closed |-> FALSE]

-----------------------------------------------------------------------------
(* Permission requests.                                                    *)

\* The k oldest requests time out: the data is sent as if they were granted.
PermissionsTimeOut(s, k) ==
  LET out == {s.pending_permissions[j].peer : j \in 1..k}
  IN  [s EXCEPT !.sent_permissions = @ \ out,
                !.permissions = @ \cup out,
                !.pending_permissions = SubSeq(@, k + 1, Len(@)),
                !.queue = [p \in Peers |-> IF p \in out THEN 0 ELSE @[p]]]

\* The loop of priv_schedule_tick over the requests: overdue ones time out or
\* are sent again, and each that is left gets a timer, over the one before.
SchedulePermissions(s) ==
  {LET t == PermissionsTimeOut(s, k)
       n == Len(t.pending_permissions)
   IN  [t EXCEPT !.tick_permission = @ \/ n > 0,
                 !.leaked = @ \/ n > 1 \/ (n > 0 /\ t.tick_permission)] :
   k \in 0..Len(s.pending_permissions)}

-----------------------------------------------------------------------------
(* Channel bindings.                                                       *)

\* A ChannelBind is sent: it replaces the one in flight and has the only timer.
priv_send_turn_message(s, msg) ==
  SchedulePermissions([s EXCEPT !.current_binding_msg = msg, !.tick_channel = TRUE])

priv_send_channel_bind(s, realm, channel, peer) ==
  priv_send_turn_message(s, [peer |-> peer, channel |-> channel, realm |-> realm])

\* The search starts at 0x4000; when a number is taken it goes on with the
\* next one, from the second binding of the list.
NewChannel(channels) ==
  LET numbers(from) == {channels[j].channel : j \in from..Len(channels)}
  IN  IF FirstChannel \notin numbers(1) THEN FirstChannel
      ELSE CHOOSE n \in (FirstChannel + 1)..(FirstChannel + Len(channels) + 1) :
             /\ n \notin numbers(2)
             /\ \A m \in (FirstChannel + 1)..(n - 1) : m \in numbers(2)

priv_add_channel_binding(s, peer) ==
  IF s.current_binding # None
  THEN {[s EXCEPT !.pending_bindings = Append(@, peer)]}
  ELSE LET channel == NewChannel(s.channels)
       IN  {[t EXCEPT !.current_binding = [peer |-> peer, channel |-> channel]] :
            t \in priv_send_channel_bind(s, FALSE, channel, peer)}

\* The next waiting binding is made; if there is none, the first binding due
\* for renewal is renewed.  No binding is being made when this is called.
priv_process_pending_bindings(s) ==
  LET due == SelectInSeq(s.channels, LAMBDA b : b.renew)
  IN  IF s.pending_bindings # <<>>
      THEN priv_add_channel_binding([s EXCEPT !.pending_bindings = Tail(@)],
                                    Head(s.pending_bindings))
      ELSE IF s.current_binding_msg = None /\ due # 0
      THEN priv_send_channel_bind(s, FALSE, s.channels[due].channel, s.channels[due].peer)
      ELSE {s}

\* Mutant: the bindings that wait are not looked at.
BindingFails_Only(s) ==
  {[s EXCEPT !.current_binding = None, !.current_binding_msg = None]}

\* The request in flight ends, and with it the binding that was being made.
BindingFails(s) ==
  priv_process_pending_bindings(
    [s EXCEPT !.current_binding = None, !.current_binding_msg = None])

\* The request in flight gets a timer, or is overdue and times out here.
priv_schedule_tick(s) ==
  SchedulePermissions([s EXCEPT !.tick_channel = s.current_binding_msg # None])
  \cup (IF s.current_binding_msg = None THEN {}
        ELSE UNION {SchedulePermissions(t) :
                    t \in BindingFails([s EXCEPT !.tick_channel = FALSE])})

-----------------------------------------------------------------------------
(* Calls of the ICE agent.                                                 *)

Open == ~priv.closed

\* The selected pair is relayed: a channel is bound to its peer.
xice_turn_socket_set_peer(peer) ==
  /\ Open
  /\ Len(priv.channels) + Len(priv.pending_bindings) < MaxBindings
  /\ priv' \in priv_add_channel_binding(priv, peer)

\* The peer counts as asked for before the request is built, which fails for
\* every IPv6 address: stun_usage_turn_create_permission gives its size as that
\* of a struct sockaddr.  The request is put on the list after the timers of the
\* list were set.
priv_send_create_permission(s, realm, peer) ==
  LET asked == [s EXCEPT !.sent_permissions = @ \cup {peer}]
  IN  IF peer \in IPv6 THEN {asked}
      ELSE {[t EXCEPT !.pending_permissions = Append(@, [peer |-> peer, realm |-> realm])] :
            t \in priv_schedule_tick(asked)}

Enqueued(s, peer) == [s EXCEPT !.queue[peer] = @ + 1]

\* Mutant: every packet asks for the permission.
socket_send_AskAlways(peer) ==
  /\ Open /\ NeedsPermission /\ peer \notin priv.permissions
  /\ priv.queue[peer] < MaxData
  /\ priv' \in {Enqueued(t, peer) : t \in priv_send_create_permission(priv, FALSE, peer)}

\* Data for a peer without permission is queued, and the permission asked for
\* once.  (With a permission it goes to the server and nothing changes.)
socket_send(peer) ==
  /\ Open /\ NeedsPermission /\ peer \notin priv.permissions
  /\ priv.queue[peer] < MaxData
  /\ \/ /\ peer \in priv.sent_permissions
        /\ priv' = Enqueued(priv, peer)
     \/ /\ peer \notin priv.sent_permissions
        /\ priv' \in {Enqueued(t, peer) : t \in priv_send_create_permission(priv, FALSE, peer)}

socket_close ==
  /\ Open
  /\ priv' = [priv EXCEPT
       !.channels = <<>>, !.pending_bindings = <<>>, !.current_binding = None,
       !.current_binding_msg = None, !.tick_channel = FALSE,
       !.pending_permissions = <<>>, !.sent_permissions = {}, !.permissions = {},
       !.permission_timer = FALSE, !.tick_permission = FALSE,
       !.queue = [p \in Peers |-> 0], !.closed = TRUE]

-----------------------------------------------------------------------------
(* Answers of the server, which may be lost.  "retry" is an error 438, or  *)
(* 401 with a realm that was not sent; "error" any other error.            *)

\* A server binds a peer to one channel and a channel to one peer (RFC 5766).
ServerAccepts(msg) ==
  \A j \in 1..Len(priv.channels) :
    priv.channels[j].peer = msg.peer <=> priv.channels[j].channel = msg.channel

BindRetry ==
  LET s == [priv EXCEPT !.current_binding_msg = None]
      msg == priv.current_binding_msg
      same == SelectInSeq(priv.channels, LAMBDA b : b.peer = msg.peer)
  IN  IF priv.current_binding # None
      THEN priv_send_channel_bind(s, TRUE, priv.current_binding.channel,
                                           priv.current_binding.peer)
      ELSE IF same # 0
      THEN priv_send_channel_bind(s, TRUE, priv.channels[same].channel, msg.peer)
      ELSE {s}

Renewed(b) == [peer |-> b.peer, channel |-> b.channel, renew |-> FALSE, timer |-> "renew"]

\* A new binding joins the list; a renewed one stays there.
BindSuccess ==
  LET msg == priv.current_binding_msg
      first == SelectInSeq(priv.channels, LAMBDA b : b.peer = msg.peer)
      channels == IF priv.current_binding # None
                  THEN Append(priv.channels, Renewed(priv.current_binding))
                  ELSE IF first # 0
                  THEN [priv.channels EXCEPT ![first] = Renewed(@)]
                  ELSE priv.channels
  IN  priv_process_pending_bindings(
        [priv EXCEPT !.channels = channels, !.current_binding = None,
                     !.current_binding_msg = None])

BindAnswer(kind) ==
  /\ Open /\ priv.current_binding_msg # None
  /\ \/ kind = "retry" /\ priv' \in BindRetry
     \/ kind = "error" /\ priv' \in BindingFails(priv)
     \/ /\ kind = "success" /\ ServerAccepts(priv.current_binding_msg)
        /\ priv' \in BindSuccess

\* The answer to the i-th CreatePermission.  An error counts as a permission,
\* without the timer that renews it; the queued data is sent.
PermissionAnswer(i, kind) ==
  LET peer == priv.pending_permissions[i].peer
      rest == [priv EXCEPT !.pending_permissions = RemoveAt(@, i)]
  IN  /\ Open
      /\ \/ /\ kind = "retry"
            /\ priv' \in priv_send_create_permission(rest, TRUE, peer)
         \/ /\ kind \in {"error", "success"}
            /\ priv' = [rest EXCEPT !.sent_permissions = @ \ {peer},
                                    !.permissions = @ \cup {peer},
                                    !.permission_timer = @ \/ kind = "success",
                                    !.queue[peer] = 0]

-----------------------------------------------------------------------------
(* Timers.                                                                 *)

\* Every permission is dropped; the next packet asks for it again.
priv_permission_timeout ==
  /\ Open /\ priv.permission_timer
  /\ priv' = [priv EXCEPT !.permissions = {}]

\* Mutant: the renewal takes the place of a request in flight.
priv_binding_timeout_Now(j) ==
  LET b == priv.channels[j]
      s == [priv EXCEPT !.channels[j].renew = TRUE, !.channels[j].timer = "expire"]
  IN  /\ Open /\ b.timer = "renew"
      /\ priv' \in priv_send_channel_bind(s, FALSE, b.channel, b.peer)

\* The j-th binding is to be renewed, now if no request is in flight.
priv_binding_timeout(j) ==
  LET b == priv.channels[j]
      s == [priv EXCEPT !.channels[j].renew = TRUE, !.channels[j].timer = "expire"]
  IN  /\ Open /\ b.timer = "renew"
      /\ \/ priv.current_binding_msg # None /\ priv' = s
         \/ /\ priv.current_binding_msg = None
            /\ priv' \in priv_send_channel_bind(s, FALSE, b.channel, b.peer)

\* The j-th binding was not renewed in time.  If its renewal is in flight it
\* becomes the binding being made; otherwise it is asked for anew.
priv_binding_expired_timeout(j) ==
  LET b == priv.channels[j]
      s == [priv EXCEPT !.channels = RemoveAt(@, j)]
      renewing == /\ priv.current_binding_msg # None
                  /\ priv.current_binding = None
                  /\ priv.current_binding_msg.peer = b.peer
  IN  /\ Open /\ b.timer = "expire"
      /\ \/ /\ renewing
            /\ priv' = [s EXCEPT !.current_binding = [peer |-> b.peer, channel |-> b.channel]]
         \/ ~renewing /\ priv' \in priv_add_channel_binding(s, b.peer)

\* The tick that ends a request also destroys the timer of the request that
\* BindingFails may have sent.
priv_retransmissions_tick ==
  /\ Open /\ priv.tick_channel
  /\ \/ /\ priv.current_binding_msg = None
        /\ priv' = [priv EXCEPT !.tick_channel = FALSE]
     \/ /\ priv.current_binding_msg # None
        /\ priv' \in priv_schedule_tick([priv EXCEPT !.tick_channel = FALSE])
     \/ /\ priv.current_binding_msg # None
        /\ priv' \in {[t EXCEPT !.tick_channel = FALSE] : t \in BindingFails(priv)}

\* A timer of the permission requests fires, its own or one that leaked (others
\* may be left): the k oldest requests time out, and the rest get new timers.
priv_retransmissions_create_permission_tick(k) ==
  /\ Open
  /\ k <= Len(priv.pending_permissions)
  /\ \E leaked \in BOOLEAN :
       /\ priv.tick_permission \/ priv.leaked
       /\ leaked => priv.leaked
       /\ LET own == priv.tick_permission /\ leaked = priv.leaked
              t == PermissionsTimeOut(
                     [priv EXCEPT !.leaked = leaked,
                                  !.tick_permission = @ /\ ~own /\ k = 0], k)
          IN  priv' \in IF t.pending_permissions = <<>> THEN {t} ELSE priv_schedule_tick(t)

-----------------------------------------------------------------------------
Answers == {"retry", "error", "success"}

Next ==
  \/ \E peer \in Peers : xice_turn_socket_set_peer(peer) \/ socket_send(peer)
  \/ \E kind \in Answers :
       \/ BindAnswer(kind)
       \/ \E i \in 1..Len(priv.pending_permissions) : PermissionAnswer(i, kind)
  \/ priv_permission_timeout
  \/ \E j \in 1..Len(priv.channels) :
       priv_binding_timeout(j) \/ priv_binding_expired_timeout(j)
  \/ priv_retransmissions_tick
  \/ \E k \in 0..Len(priv.pending_permissions) :
       priv_retransmissions_create_permission_tick(k)
  \/ socket_close

Spec == Init /\ [][Next]_priv

-----------------------------------------------------------------------------
Elements(s) == {s[j] : j \in 1..Len(s)}

(* The socket's lists and the messages in flight.                          *)
TypeOK ==
  LET Channels == FirstChannel..(FirstChannel + MaxBindings)
      Binding == [peer : Peers, channel : Channels]
  IN  /\ Elements(priv.channels) \subseteq
           [peer : Peers, channel : Channels, renew : BOOLEAN, timer : {"renew", "expire"}]
      /\ Elements(priv.pending_bindings) \subseteq Peers
      /\ priv.current_binding \in Binding \cup {None}
      /\ priv.current_binding_msg \in
           [peer : Peers, channel : Channels, realm : BOOLEAN] \cup {None}
      /\ Elements(priv.pending_permissions) \subseteq [peer : Peers, realm : BOOLEAN]
      /\ priv.sent_permissions \subseteq Peers /\ priv.permissions \subseteq Peers
      /\ priv.queue \in [Peers -> 0..MaxData]

(* While a binding is being made its own ChannelBind is in flight, so it   *)
(* cannot be left half made.                                               *)
BindingInFlight ==
  priv.current_binding # None =>
    /\ priv.current_binding_msg # None
    /\ priv.current_binding_msg.peer = priv.current_binding.peer
    /\ priv.current_binding_msg.channel = priv.current_binding.channel

(* The lists have their types, and a binding being made agrees with the    *)
(* message in flight.                                                      *)
Consistent == TypeOK /\ BindingInFlight

(* A binding waits only for another one being made: when that one ends,    *)
(* in whatever way, the next one is started.                               *)
PendingWaits == priv.pending_bindings # <<>> => priv.current_binding # None

(* A binding due for renewal is never forgotten: a request is in flight,   *)
(* whose end looks for it again.                                           *)
RenewalAsked ==
  (\E b \in Elements(priv.channels) : b.renew) => priv.current_binding_msg # None

(* No binding waits, to be made or to be renewed, without something in      *)
(* flight whose end takes it up.                                           *)
BindingsServed == PendingWaits /\ RenewalAsked

(* For a peer at most one permission request is in flight, the peers being *)
(* asked for are those with one, and none of them has the permission.  An  *)
(* IPv6 peer counts as asked for although no request could be built.       *)
PermissionOnce ==
  LET pending == priv.pending_permissions
  IN  /\ \A i, j \in 1..Len(pending) : pending[i].peer = pending[j].peer => i = j
      /\ {m.peer : m \in Elements(pending)} = priv.sent_permissions \ IPv6
      /\ priv.sent_permissions \cap priv.permissions = {}

(* Data is queued only while its permission is asked for, so no later      *)
(* packet overtakes it.                                                    *)
QueueWaits == \A p \in Peers : priv.queue[p] > 0 => p \in priv.sent_permissions

(* A peer is asked for once at a time, and its data waits exactly for the  *)
(* request in flight.  The data of an IPv6 peer waits without one, for     *)
(* ever: no later packet asks again (socket_send).                         *)
PermissionsServed == PermissionOnce /\ QueueWaits
=============================================================================
