------------------------------- MODULE AgentIo -------------------------------
(***************************************************************************)
(* What an agent does once its components have selected pairs: it hands    *)
(* the packets it receives to the application, through a pseudo-TCP socket *)
(* per component when the agent is reliable, and it keeps the selected     *)
(* pairs alive (agent/agent.c, agent/component.c, agent/conncheck.c).      *)
(*                                                                         *)
(* A handler holds the agent lock, so it is one step, except that the lock *)
(* is released around the application's receive callback.  `frames' is the *)
(* stack of callbacks that are running.  The thread of the main loop is    *)
(* inside the topmost one, so no timer and no packet is handled before it  *)
(* returns, but the callback may call the agent, and xice_agent_attach_recv*)
(* may start a callback inside the callback.                               *)
(*                                                                         *)
(* A pseudo-TCP socket is what its callbacks and return values show of it  *)
(* here (PseudoTcp models its inside): one read takes all that is there,   *)
(* since the buffer of the reader is larger than the socket's.             *)
(***************************************************************************)
EXTENDS Integers, Sequences, FiniteSets

CONSTANTS
    N,              \* components of the stream, numbered from 1
    Modes,          \* sets of [reliable, google] to start from
    MaxIds,         \* transactions the STUN agent can remember
    MaxRetransmits, \* retransmissions of one keepalive
    MaxPackets,     \* packets the network delivers on its own account
    MaxKeepalives,  \* rounds of keepalives
    MaxCalls        \* calls of the application and of the checks

Components == 1 .. N

ASSUME ConstantsAssumption ==
  /\ N \in Nat /\ MaxIds \in Nat /\ MaxRetransmits \in Nat
  /\ Modes \subseteq [reliable : BOOLEAN, google : BOOLEAN]
  /\ MaxPackets \in Nat /\ MaxKeepalives \in Nat /\ MaxCalls \in Nat

VARIABLES
    mode,    \* agent->reliable, agent->compatibility = GOOGLE
    comp,    \* the components
    slots,   \* transactions the STUN agent remembers, as <<component, id>>
    media,   \* agent->media_after_tick
    timer,   \* agent->keepalive_timer_source # NULL
    frames,  \* components whose receive callback runs, innermost first
    wire,    \* keepalive requests that the peer may answer
    left,    \* what remains of the bounds
    lost,    \* history: requests given up while they were outstanding
    heard,   \* history: components that received since their last request
    full     \* history: a request found no room in the STUN agent

vars == <<mode, comp, slots, media, timer, frames, wire, left, lost, heard, full>>

\* A frame is entered from the pseudo-TCP socket's read loop or directly.
Frame(c) == [c |-> c, tcp |-> mode.reliable]

Component(reliable) ==
  [ state        |-> "CONNECTING", \* component->state
    selected     |-> FALSE,        \* selected_pair.local # NULL
    cb           |-> FALSE,        \* g_source_io_cb # NULL, and ctx with it
    gctxs        |-> FALSE,        \* the sockets have their IO contexts
    tcp          |-> IF reliable THEN "LISTEN" ELSE "none",
    tcp_clock    |-> reliable,
    tcp_readable |-> FALSE,
    rx           |-> 0,            \* packets of data the socket holds
    bReadEnable  |-> TRUE,         \* the socket will announce new data
    buffer       |-> FALSE,        \* keepalive.stun_message.buffer # NULL
    tick         |-> FALSE,        \* keepalive.tick_source # NULL
    sends        |-> 0,            \* keepalive.timer: retransmissions made
    id           |-> 0 ]           \* the transaction of stun_message

Init ==
  /\ mode \in Modes
  /\ comp = [c \in Components |-> Component(mode.reliable)]
  /\ slots = {} /\ media = FALSE /\ timer = FALSE /\ frames = <<>> /\ wire = {}
  /\ left = [packets |-> MaxPackets, keepalives |-> MaxKeepalives, calls |-> MaxCalls]
  /\ lost = {} /\ heard = {} /\ full = FALSE

Idle == frames = <<>>
Running(c) == \E i \in DOMAIN frames : frames[i].c = c
Removed(c) == comp[c].state = "REMOVED"
Alive(c) == ~Removed(c)
Spend(b) == left[b] > 0 /\ left' = [left EXCEPT ![b] = @ - 1]

-----------------------------------------------------------------------------
(* The pseudo-TCP socket of a component: operators on one component.       *)

\* Mutant: a component without its socket may become READY.
agent_signal_component_state_change_Always(k, s) == [k EXCEPT !.state = s]

agent_signal_component_state_change(k, s) ==
  IF mode.reliable /\ k.tcp = "none" /\ s # "FAILED" THEN k
                                                     ELSE [k EXCEPT !.state = s]

priv_detach_stream_component(k) == [k EXCEPT !.gctxs = FALSE]

priv_destroy_component_tcp(k) ==
  [k EXCEPT !.tcp = "none", !.tcp_clock = FALSE, !.rx = 0]

priv_pseudo_tcp_error(k) ==
  priv_destroy_component_tcp(
    IF k.tcp = "none" THEN k
    ELSE priv_detach_stream_component(agent_signal_component_state_change(k, "FAILED")))

\* pseudo_tcp_socket_get_next_clock refuses only a socket that was closed,
\* and a socket is closed only when it is destroyed.
adjust_tcp_clock(k) == [k EXCEPT !.tcp_clock = @ \/ k.tcp # "none"]

\* One turn of the loop of pseudo_tcp_socket_readable: the component after it,
\* and whether it ends with the callback running on what was read.
ReadLoop(k) ==
  CASE ~k.cb -> [k |-> adjust_tcp_clock(k), calls |-> FALSE]
    [] k.cb /\ k.tcp # "ESTABLISHED" -> [k |-> priv_pseudo_tcp_error(k), calls |-> FALSE]
    [] k.cb /\ k.tcp = "ESTABLISHED" /\ k.rx > 0 -> [k |-> [k EXCEPT !.rx = 0], calls |-> TRUE]
    [] OTHER -> [ k |-> adjust_tcp_clock([k EXCEPT !.tcp_readable = FALSE, !.bReadEnable = TRUE]),
                  calls |-> FALSE ]

pseudo_tcp_socket_readable(k) == ReadLoop([k EXCEPT !.tcp_readable = TRUE])

\* The component c becomes r.k and its callback is entered if r.calls.
Became(c, r) ==
  /\ comp' = [comp EXCEPT ![c] = r.k]
  /\ frames' = IF r.calls THEN <<Frame(c)>> \o frames ELSE frames

\* The data of a packet arrives at the pseudo-TCP socket.
NotifyPacket(k) ==
  LET more == [k EXCEPT !.rx = @ + 1]
  IN  CASE k.tcp = "ESTABLISHED" /\ k.bReadEnable ->
             pseudo_tcp_socket_readable([more EXCEPT !.bReadEnable = FALSE])
        [] k.tcp = "ESTABLISHED" /\ ~k.bReadEnable -> [k |-> more, calls |-> FALSE]
        [] OTHER -> [k |-> k, calls |-> FALSE]

-----------------------------------------------------------------------------
(* Keepalives: in Google mode a connectivity check with retransmissions,    *)
(* otherwise an indication, which leaves no state behind.                   *)

Armed(c) == comp[c].tick
Outstanding == {<<c, comp[c].id>> : c \in {d \in Components : Armed(d)}}

\* A round over components ks with the transactions used: one request per
\* component that has a selected pair, while the STUN agent has room.  A
\* request without room still overwrites the message of the one before it.
Round(ks, used) ==
  LET due  == {c \in Components : mode.google /\ ks[c].selected}
      room == MaxIds - Cardinality(used)
      sent == {c \in due : Cardinality({d \in due : d < c}) < room}
      Next1(c) == [ks[c] EXCEPT !.id = @ + 1, !.buffer = TRUE]
  IN  [ comp |-> [c \in Components |->
                    CASE c \in sent       -> [Next1(c) EXCEPT !.tick = TRUE, !.sends = 0]
                      [] c \in due \ sent -> Next1(c)
                      [] OTHER            -> ks[c]],
        sent  |-> sent,
        new   |-> {<<c, ks[c].id + 1>> : c \in sent},
        ended |-> {<<c, ks[c].id>> : c \in {d \in due : ks[d].tick}},
        ok    |-> sent = due ]

\* priv_conn_keepalive_tick_unlocked on components ks, some of whose requests
\* (dropped) were given up before.
priv_conn_keepalive_tick_unlocked(ks, dropped) ==
  LET r == Round(ks, slots)
  IN  /\ comp' = r.comp
      /\ slots' = slots \cup r.new
      /\ wire' = wire \cup r.new
      /\ media' = (media /\ r.sent = {})
      /\ lost' = lost \cup dropped \cup r.ended
      /\ heard' = heard \ r.sent
      /\ full' = (full \/ ~r.ok)

\* priv_conn_keepalive_tick: the timer stops when a request could not be built.
KeepaliveTick ==
  /\ timer /\ Idle /\ Spend("keepalives")
  /\ priv_conn_keepalive_tick_unlocked(comp, {})
  /\ timer' = Round(comp, slots).ok
  /\ UNCHANGED <<mode, frames>>

\* priv_conn_keepalive_retransmissions_tick, a retransmission ...
RetransmitKeepalive(c) ==
  /\ Armed(c) /\ Idle /\ comp[c].sends < MaxRetransmits
  /\ comp' = [comp EXCEPT ![c].sends = @ + 1]
  /\ UNCHANGED <<mode, slots, media, timer, frames, wire, left, lost, heard, full>>

\* Mutant: the transaction is not forgotten.
KeepaliveTimeout_NotForgotten(c) ==
  /\ Armed(c) /\ Idle /\ comp[c].sends = MaxRetransmits
  /\ comp' = [comp EXCEPT ![c] =
                LET k == [@ EXCEPT !.tick = FALSE]
                IN  IF media THEN [k EXCEPT !.buffer = FALSE]
                             ELSE agent_signal_component_state_change(k, "FAILED")]
  /\ UNCHANGED <<mode, slots, media, timer, frames, wire, left, lost, heard, full>>

\* Mutant: media is not taken for a sign of life.
KeepaliveTimeout_Deaf(c) ==
  /\ Armed(c) /\ Idle /\ comp[c].sends = MaxRetransmits
  /\ slots' = slots \ {<<c, comp[c].id>>}
  /\ comp' = [comp EXCEPT ![c] =
                agent_signal_component_state_change([@ EXCEPT !.tick = FALSE], "FAILED")]
  /\ UNCHANGED <<mode, media, timer, frames, wire, left, lost, heard, full>>

\* ... and the end of the transaction: the component has failed, unless the
\* agent received anything since its last round of keepalives.
KeepaliveTimeout(c) ==
  /\ Armed(c) /\ Idle /\ comp[c].sends = MaxRetransmits
  /\ slots' = slots \ {<<c, comp[c].id>>}
  /\ comp' = [comp EXCEPT ![c] =
                LET k == [@ EXCEPT !.tick = FALSE]
                IN  IF media THEN [k EXCEPT !.buffer = FALSE]
                             ELSE agent_signal_component_state_change(k, "FAILED")]
  /\ UNCHANGED <<mode, media, timer, frames, wire, left, lost, heard, full>>

-----------------------------------------------------------------------------
(* The application and the connectivity checks.                             *)

\* xice_agent_attach_recv; func says whether a function is given.  Without a
\* function there are no IO contexts to detach.
Attached(k, func) == [k EXCEPT !.cb = func, !.gctxs = func]

\* Mutant: an attach does not finish the reading.
xice_agent_attach_recv_NoRead(c, func) ==
  /\ Alive(c) /\ Spend("calls")
  /\ comp' = [comp EXCEPT ![c] = Attached(@, func)]
  /\ UNCHANGED <<mode, frames, slots, media, timer, wire, lost, heard, full>>

xice_agent_attach_recv(c, func) ==
  /\ Alive(c) /\ Spend("calls")
  /\ LET k == Attached(comp[c], func)
     IN  IF func /\ k.tcp # "none" /\ k.tcp_readable
         THEN Became(c, pseudo_tcp_socket_readable(k))
         ELSE Became(c, [k |-> k, calls |-> FALSE])
  /\ UNCHANGED <<mode, slots, media, timer, wire, lost, heard, full>>

\* The receive callback returns: the read loop that entered it goes on if the
\* socket still exists.
CallbackReturns ==
  /\ ~Idle
  /\ LET f == Head(frames)
         r == IF f.tcp /\ comp[f.c].tcp # "none" THEN ReadLoop(comp[f.c])
                                                 ELSE [k |-> comp[f.c], calls |-> FALSE]
     IN  /\ comp' = [comp EXCEPT ![f.c] = r.k]
         /\ frames' = IF r.calls THEN frames ELSE Tail(frames)
  /\ UNCHANGED <<mode, slots, media, timer, wire, left, lost, heard, full>>

\* conn_check_schedule_next also starts the keepalive timer.
ScheduleNext ==
  /\ ~timer /\ Idle /\ \A c \in Components : Alive(c)
  /\ timer' = TRUE
  /\ Spend("calls")
  /\ UNCHANGED <<mode, comp, slots, media, frames, wire, lost, heard, full>>

\* The selected pair is zeroed, its keepalive with it, and replaced.
Reselected(k) == [k EXCEPT !.selected = TRUE, !.buffer = FALSE, !.tick = FALSE, !.sends = 0]

\* priv_update_selected_pair: a better pair was nominated.
priv_update_selected_pair(c) ==
  /\ Alive(c) /\ Idle /\ Spend("calls")
  /\ priv_conn_keepalive_tick_unlocked(
       [comp EXCEPT ![c] = adjust_tcp_clock(Reselected(@))],
       IF Armed(c) THEN {<<c, comp[c].id>>} ELSE {})
  /\ UNCHANGED <<mode, timer, frames>>

\* xice_agent_set_selected_remote_candidate: the application names the pair.
xice_agent_set_selected_remote_candidate(c) ==
  /\ Alive(c) /\ Spend("calls")
  /\ ~(mode.reliable /\ comp[c].tcp = "none")
  /\ comp' = [comp EXCEPT ![c] =
       adjust_tcp_clock(agent_signal_component_state_change(Reselected(@), "READY"))]
  /\ lost' = lost \cup (IF Armed(c) THEN {<<c, comp[c].id>>} ELSE {})
  /\ UNCHANGED <<mode, slots, media, timer, frames, wire, heard, full>>

\* The connectivity checks report READY for a component with a selected pair.
ChecksReady(c) ==
  /\ Alive(c) /\ Idle /\ comp[c].selected /\ Spend("calls")
  /\ comp' = [comp EXCEPT ![c] = agent_signal_component_state_change(@, "READY")]
  /\ UNCHANGED <<mode, slots, media, timer, frames, wire, lost, heard, full>>

component_free(k) ==
  [priv_destroy_component_tcp(k) EXCEPT !.state = "REMOVED", !.selected = FALSE,
     !.cb = FALSE, !.gctxs = FALSE, !.buffer = FALSE, !.tick = FALSE]

\* xice_agent_remove_stream, called outside of the receive callbacks.
xice_agent_remove_stream ==
  /\ Idle /\ \A c \in Components : Alive(c)
  /\ Spend("calls")
  /\ comp' = [c \in Components |-> component_free(comp[c])]
  /\ timer' = FALSE
  /\ lost' = lost \cup Outstanding
  /\ UNCHANGED <<mode, slots, media, frames, wire, heard, full>>

-----------------------------------------------------------------------------
(* Packets and the clock of the pseudo-TCP socket.                          *)

\* A packet reaches the agent through a socket that has its IO context.
Received(c) == Idle /\ comp[c].gctxs /\ media' = TRUE /\ heard' = heard \cup {c}

\* The rest of xice_agent_g_source_cb for a packet that is not handled as STUN.
PassedOn(c) ==
  IF mode.reliable THEN Became(c, NotifyPacket(comp[c]))
                   ELSE Became(c, [k |-> comp[c], calls |-> comp[c].cb])

ReceiveData(c) ==
  /\ Received(c) /\ Spend("packets") /\ PassedOn(c)
  /\ UNCHANGED <<mode, slots, timer, wire, lost, full>>

\* The packet that completes the pseudo-TCP handshake.
ReceiveOpening(c) ==
  /\ comp[c].tcp = "LISTEN" /\ Received(c)
  /\ comp' = [comp EXCEPT ![c].tcp = "ESTABLISHED"]
  /\ UNCHANGED <<mode, slots, timer, frames, wire, left, lost, full>>

\* The answer to a keepalive, which may be one that was given up.
ReceiveReply(c, i) ==
  /\ <<c, i>> \in wire /\ Received(c)
  /\ wire' = wire \ {<<c, i>>}
  /\ slots' = slots \ {<<c, i>>}
  /\ IF <<c, i>> \in slots
     THEN /\ comp' = IF comp[c].buffer /\ comp[c].id = i
                     THEN [comp EXCEPT ![c].tick = FALSE, ![c].buffer = FALSE]
                     ELSE comp
          /\ UNCHANGED frames
     ELSE PassedOn(c)
  /\ UNCHANGED <<mode, timer, left, lost, full>>

\* A reset by the peer, or the socket's own clock giving up, closes it.
ReceiveReset(c) ==
  /\ comp[c].tcp # "none" /\ Received(c)
  /\ comp' = [comp EXCEPT ![c] = priv_pseudo_tcp_error(@)]
  /\ UNCHANGED <<mode, slots, timer, frames, wire, left, lost, full>>

ClockGivesUp(c) ==
  /\ comp[c].tcp_clock /\ Idle
  /\ comp' = [comp EXCEPT ![c] = adjust_tcp_clock(priv_pseudo_tcp_error([@ EXCEPT !.tcp_clock = FALSE]))]
  /\ UNCHANGED <<mode, slots, media, timer, frames, wire, left, lost, heard, full>>

Next ==
  \/ KeepaliveTick \/ ScheduleNext \/ CallbackReturns \/ xice_agent_remove_stream
  \/ \E c \in Components :
       \/ RetransmitKeepalive(c) \/ KeepaliveTimeout(c)
       \/ \E func \in BOOLEAN : xice_agent_attach_recv(c, func)
       \/ priv_update_selected_pair(c) \/ xice_agent_set_selected_remote_candidate(c)
       \/ ChecksReady(c)
       \/ ReceiveData(c) \/ ReceiveOpening(c) \/ ReceiveReset(c) \/ ClockGivesUp(c)
       \/ \E i \in 1 .. comp[c].id : ReceiveReply(c, i)

Spec == Init /\ [][Next]_vars

-----------------------------------------------------------------------------

ComponentType ==
  [ state : {"CONNECTING", "READY", "FAILED", "REMOVED"}, selected : BOOLEAN,
    cb : BOOLEAN, gctxs : BOOLEAN, tcp : {"none", "LISTEN", "ESTABLISHED"},
    tcp_clock : BOOLEAN, tcp_readable : BOOLEAN, rx : Nat, bReadEnable : BOOLEAN,
    buffer : BOOLEAN, tick : BOOLEAN, sends : 0 .. MaxRetransmits, id : Nat ]

TypeOK ==
  /\ mode \in [reliable : BOOLEAN, google : BOOLEAN]
  /\ comp \in [Components -> ComponentType]
  /\ slots \subseteq Components \X Nat
  /\ wire \subseteq Components \X Nat /\ lost \subseteq Components \X Nat
  /\ heard \subseteq Components
  /\ media \in BOOLEAN /\ timer \in BOOLEAN /\ full \in BOOLEAN
  /\ frames \in Seq([c : Components, tcp : BOOLEAN])
  /\ left \in [packets : Nat, keepalives : Nat, calls : Nat]

(* The timers of a component live exactly as long as what they act on, and  *)
(* a component of a reliable agent that has lost its pseudo-TCP socket is   *)
(* FAILED whatever the connectivity checks, the application or the          *)
(* keepalives report later (priv_pseudo_tcp_error, component_free and       *)
(* agent_signal_component_state_change).                                    *)
TimersFollowSockets ==
  TypeOK /\ \A c \in Components :
    LET k == comp[c]
    IN  /\ k.tcp_clock <=> k.tcp # "none"
        /\ mode.reliable /\ k.tcp = "none" => k.state \in {"FAILED", "REMOVED"}
        /\ k.tick => k.selected /\ k.buffer

(* No data is stranded in a pseudo-TCP socket: when the application has a   *)
(* receive function and none of the component's callbacks is running,       *)
(* everything was read and the socket will announce what comes next,        *)
(* however often the application detached and attached its function, in     *)
(* its callbacks or outside (pseudo_tcp_socket_readable and the end of      *)
(* xice_agent_attach_recv).                                                 *)
NothingStranded ==
  \A c \in Components :
    comp[c].cb /\ comp[c].tcp = "ESTABLISHED" /\ ~Running(c)
      => comp[c].rx = 0 /\ comp[c].bReadEnable

(* The STUN agent remembers an outstanding keepalive, so that its answer is *)
(* recognised, and beside those only requests that were given up while      *)
(* they were outstanding (replaced by another round or by another selected  *)
(* pair): an answer and a timeout give the place back.                      *)
KeepalivesRemembered ==
  /\ slots \subseteq Outstanding \cup lost
  /\ ~full => Outstanding \subseteq slots

(* A component fails, or loses its pseudo-TCP socket, only for a cause: the *)
(* socket was closed by the peer or gave up, or a keepalive timed out while *)
(* nothing at all was received for the component since the request was sent *)
(* (media_after_tick), as long as the STUN agent never ran out of room.  In *)
(* particular no call of xice_agent_attach_recv and no return of a callback *)
(* reads from a socket that is not connected ("we might trigger an error in *)
(* the initial, pre-connection attach", agent.c).                           *)
FailsForCause ==
  [][\A c \in Components :
       \/ comp[c].state # "FAILED" /\ comp'[c].state = "FAILED"
       \/ comp[c].tcp # "none" /\ comp'[c].tcp = "none"
       => \/ ReceiveReset(c) \/ ClockGivesUp(c) \/ xice_agent_remove_stream
          \/ KeepaliveTimeout(c) /\ (c \notin heard \/ full)]_vars
=============================================================================
