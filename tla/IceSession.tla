---------------------------- MODULE IceSession ----------------------------
(***************************************************************************)
(* Two agents that run the same code (IceAgent) negotiate one stream: each *)
(* parses the description the other generated, and their checks and        *)
(* answers cross a network that delays, reorders and loses messages, with  *)
(* address translation in front of some sockets.                           *)
(*                                                                         *)
(* A request on the wire is the buffer of its pair: a retransmission sends *)
(* the same bytes, with the role and the transaction id of the first time. *)
(***************************************************************************)
EXTENDS Sdp

CONSTANTS
  Agents,        \* two of them
  Tie,           \* agent->tie_breaker
  Foreign,       \* lines that signalling appends to a description
  Scenarios      \* records: 'roles' of the agents (controlling_mode), 'gathered'
                 \* local candidates, 'public' the address that the network shows
                 \* for each socket, 'losses' how many messages may be lost

ASSUME SessionAssumption ==
  /\ Cardinality(Agents) = 2
  /\ \A x, y \in Agents : x # y => Tie[x] # Tie[y]
  /\ Len(Streams) = 1
  /\ \A o \in Scenarios : o.losses \in Nat

VARIABLES
  scenario,      \* one of Scenarios
  agents,        \* the two XiceAgents
  wire,          \* the request in the buffer of each pair
  net,           \* messages under way
  sdp,           \* the description of each agent, once it is generated
  parsed,        \* whose description was parsed by the other
  losses         \* messages that may still be lost

vars == <<scenario, agents, wire, net, sdp, parsed, losses>>

Stream == Streams[1]

Peer(x) == CHOOSE y \in Agents : y # x

Init ==
  /\ scenario \in Scenarios
  /\ agents = [x \in Agents |-> NewAgent(scenario.roles[x], scenario.gathered[x])]
  /\ wire = [x \in Agents |-> <<>>]
  /\ net = {} /\ sdp = [x \in Agents |-> <<>>]
  /\ parsed = [x \in Agents |-> FALSE] /\ losses = scenario.losses

Pairs(x) == agents[x].list[Stream]

Public == scenario.public

-----------------------------------------------------------------------------
(* What a handler of agent x puts on the wire.                             *)

\* The pairs for which conn_check_send ran between agents v and w.
Started(v, w) ==
  {i \in DOMAIN w.list[Stream] :
     /\ w.list[Stream][i].buffer
     /\ i \in DOMAIN v.list[Stream] => ~v.list[Stream][i].buffer}

Retransmitted(v, w) ==
  {i \in DOMAIN w.list[Stream] \cap DOMAIN v.list[Stream] :
     /\ w.list[Stream][i].buffer /\ v.list[Stream][i].buffer
     /\ w.list[Stream][i].retransmissions > v.list[Stream][i].retransmissions}

\* The buffers afterwards; n numbers the transactions of a pair.
Written(x, w) ==
  [i \in DOMAIN w.list[Stream] |->
     IF i \in Started(agents[x], w)
     THEN [n |-> IF i \in DOMAIN wire[x] THEN wire[x][i].n + 1 ELSE 1,
           use |-> w.controlling, controlling |-> w.controlling]
     ELSE IF i \in DOMAIN wire[x] THEN wire[x][i]
     ELSE [n |-> 0, use |-> FALSE, controlling |-> FALSE]]

\* The sockets a datagram for addr reaches: none when nobody has that address.
Reached(x, addr) ==
  {l.socket : l \in {k \in UNION {ToSet(scenario.gathered[x][c]) : c \in Comps} :
                       k.type = "HOST" /\ Public[k.socket] = addr}}

Requests(x, w, buffers) ==
  {[kind |-> "request", to |-> Peer(x), socket |-> socket, comp |-> w.list[Stream][i].comp,
    from |-> Public[SocketOf(w, w.list[Stream][i])], pair |-> i, buffer |-> buffers[i]] :
      <<i, socket>> \in
        {<<j, a>> \in (Started(agents[x], w) \cup Retransmitted(agents[x], w)) \X DOMAIN Public :
           a \in Reached(Peer(x), w.list[Stream][j].remote)}}

\* Agent x becomes w; 'gone' is the message it consumed, 'answers' its replies.
Becomes(x, w, gone, answers) ==
  LET buffers == Written(x, w)
  IN  /\ agents' = [agents EXCEPT ![x] = w]
      /\ wire' = [wire EXCEPT ![x] = buffers]
      /\ net' = (net \ gone) \cup answers \cup Requests(x, w, buffers)

-----------------------------------------------------------------------------
Generate(x) ==
  /\ sdp[x] = <<>>
  /\ sdp' = [sdp EXCEPT ![x] = xice_agent_generate_local_sdp(agents[x]) \o Foreign]
  /\ UNCHANGED <<scenario, agents, wire, net, parsed, losses>>

Parse(x) ==
  /\ sdp[Peer(x)] # <<>> /\ ~parsed[Peer(x)]
  /\ parsed' = [parsed EXCEPT ![Peer(x)] = TRUE]
  /\ Becomes(x, xice_agent_parse_remote_sdp(agents[x], sdp[Peer(x)]).agent, {}, {})
  /\ UNCHANGED <<scenario, sdp, losses>>

\* Whether m belongs to the current transaction of pair i of agent x.
Of(m, x, i) == m.pair = i /\ m.buffer = wire[x][i]
               /\ m.to = IF m.kind = "request" THEN Peer(x) ELSE x

\* Round trips are shorter than the timer of a transaction: it expires only when
\* a message of the transaction was lost, or could not arrive.
Due(x) == {i \in DOMAIN Pairs(x) : Pairs(x)[i].buffer /\ \A m \in net : ~Of(m, x, i)}

Ticked(x, due) == priv_conn_check_tick_unlocked(agents[x], {Stream} \X due).agent

Tick(x, due) ==
  /\ agents[x].timer
  /\ Becomes(x, Ticked(x, due), {}, {})
  /\ UNCHANGED <<scenario, sdp, parsed, losses>>

\* conn_check_handle_inbound_stun for a request, answered by
\* stun_usage_ice_conncheck_create_reply.
HandleRequest(m) ==
  LET y == m.to
      conflict == m.buffer.controlling = agents[y].controlling
      switch   == conflict /\ Tie[y] < Tie[Peer(y)]
      answer   == IF conflict /\ ~switch THEN Error("BINDING", 487, {}, "none")
                                         ELSE Success("BINDING", {m.from}, {})
  IN  /\ m.kind = "request"
      /\ Becomes(y, ReceiveRequest(agents[y], m.comp, m.from, m.socket, m.buffer.use, switch,
                                   PrflxPriority), {m},
                 {[kind |-> "answer", to |-> Peer(y), from |-> Public[m.socket],
                   pair |-> m.pair, buffer |-> m.buffer, answer |-> answer]})
      /\ UNCHANGED <<scenario, sdp, parsed, losses>>

\* An answer; one to a transaction that is over changes nothing.
HandleAnswer(m) ==
  LET x == m.to
  IN  /\ m.kind = "answer"
      /\ Becomes(x, IF Pairs(x)[m.pair].buffer /\ Of(m, x, m.pair)
                    THEN priv_map_reply_to_conn_check_request(agents[x], Stream, m.pair,
                                                              m.from, m.answer)
                    ELSE agents[x], {m}, {})
      /\ UNCHANGED <<scenario, sdp, parsed, losses>>

Lose(m) ==
  /\ losses > 0
  /\ net' = net \ {m} /\ losses' = losses - 1
  /\ UNCHANGED <<scenario, agents, wire, sdp, parsed>>

Next ==
  \/ \E x \in Agents : Generate(x) \/ Parse(x)
  \/ \E x \in Agents : \E due \in SUBSET Due(x) : Tick(x, due)
  \/ \E m \in net : HandleRequest(m) \/ HandleAnswer(m) \/ Lose(m)

Spec == Init /\ [][Next]_vars

\* Signalling goes through, the main loop fires an installed timer, the clock
\* passes the deadline of every transaction, and what the network does not lose
\* it delivers.  The last three conjuncts are weak fairness of Parse, of a Tick
\* that finds everything due, and of delivery, with ENABLED written out.
Fairness ==
  /\ \A x \in Agents :
       /\ WF_vars(Generate(x))
       /\ []<>~(sdp[Peer(x)] # <<>> /\ ~parsed[Peer(x)]) \/ []<><<Parse(x)>>_vars
       /\ []<>~(agents[x].timer /\ Ticked(x, Due(x)) # agents[x])
            \/ []<><<Tick(x, Due(x))>>_vars
  /\ []<>(net = {}) \/ []<><<\E m \in net : HandleRequest(m) \/ HandleAnswer(m)>>_vars

FairSpec == Spec /\ Fairness

-----------------------------------------------------------------------------
(* Nothing is under way and both timers stopped.                           *)
Quiet ==
  /\ net = {} /\ \A x \in Agents : parsed[x] /\ ~agents[x].timer
  /\ \A x \in Agents : \A i \in DOMAIN Pairs(x) : ~Pairs(x)[i].buffer

Selected(x, c) == agents[x].comp[c].selected

SocketOfSelected(x, c) == Find(agents[x].comp[c].locals, Selected(x, c).local).socket

Opposite == \A x, y \in Agents : x # y => agents[x].controlling # agents[y].controlling

(* Once nothing is under way, both agents send on the same path: their     *)
(* roles are opposite, every component is READY, and the remote candidate  *)
(* one agent selected is the address under which it sees the socket that   *)
(* the other selected - also after a lost message, a role conflict and     *)
(* checks that overtook the description they belong to.                    *)
Agree ==
  Quiet =>
    /\ Opposite
    /\ \A c \in Comps : \A x \in Agents :
         /\ agents[x].comp[c].state = "READY"
         /\ Selected(x, c).remote = Public[SocketOfSelected(Peer(x), c)]

(* A role conflict is settled once: agents with opposite roles keep them,  *)
(* whatever stale request (sent in the role its agent had at the time) or  *)
(* stale 487 answer still arrives.                                         *)
RolesSettle == [][Opposite => Opposite']_vars

\* Every address the network shows is one that its agent gathered and signalled.
Signalled ==
  \A x \in Agents : \A c \in Comps : \A l \in ToSet(scenario.gathered[x][c]) :
    Known(scenario.gathered[x][c], Public[l.socket])

(* Negotiation ends: when no message is lost and the agents know their own *)
(* public addresses, both stop their timers with no check in progress, and *)
(* so reach what Agree describes, in whatever order the network delivers.  *)
Connects == Signalled /\ scenario.losses = 0 => <>[]Quiet

-----------------------------------------------------------------------------
(* priv_map_reply_to_conn_check_request: 'step: updating nominated flag    *)
(* (ICE 7.1.2.2.4 "Updating the Nominated Flag" (ID-19)': the valid pair   *)
(* that a nominated check produces is nominated, so that the controlled    *)
(* agent uses the path the controlling one concluded with.  Refuted when   *)
(* the controlled agent learns its public address from the very check.     *)
BothReady ==
  \A x \in Agents : \A c \in Comps :
    agents[x].comp[c].state = "READY" ~> agents[Peer(x)].comp[c].state = "READY"
=============================================================================
