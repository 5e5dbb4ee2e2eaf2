----------------------------- MODULE ConnCheck -----------------------------
(***************************************************************************)
(* The connectivity checks of one ICE agent (agent/conncheck.c, and the    *)
(* calls of agent/agent.c that drive them): the periodic check timer,      *)
(* inbound requests and responses, and the application's calls.  All of    *)
(* them run under the agent's one recursive lock, so each is one step.     *)
(* The peer and the network are the environment: a response may come at    *)
(* any time while its transaction is outstanding, or never; requests may   *)
(* come from any address, before or after signalling delivers candidates.  *)
(***************************************************************************)
EXTENDS IceAgent

CONSTANTS
  Starts,       \* what the agent may start with: [gathered, left], the local
                \* candidates of each component, and the bounds of the model:
                \* how often each kind of event may happen
  Offers,       \* for each component, the candidate lists signalling may deliver
  Peers,        \* for each component, the addresses its requests may come from
  Mapped,       \* for each component, the mapped addresses responses may report
  PeerPriority, \* the PRIORITY attribute of the peer's requests
  Roles         \* the roles the agent may start in (controlling_mode)

VARIABLES
  agent,        \* the XiceAgent
  left          \* events that may still happen

vars == <<agent, left>>

Events == {"offer", "request", "conflict", "mapped", "restart", "remove", "force"}

\* A negative budget is no bound.
ASSUME BudgetAssumption == \A start \in Starts : start.left \in [Events -> Int]

Candidates(c) == agent.comp[c].locals

Pair(s, i) == agent.list[s][i]

\* One use of the budget for event e.
Spend(e) ==
  /\ left[e] # 0
  /\ left' = IF left[e] > 0 THEN [left EXCEPT ![e] = @ - 1] ELSE left

Init ==
  \E start \in Starts, role \in Roles :
    /\ agent = NewAgent(role, start.gathered)
    /\ left = start.left

Alive(c) == StreamOf(c) \in ToSet(agent.streams)

-----------------------------------------------------------------------------
(* The check timer.                                                        *)

\* The transactions that a tick may find due.
Outstanding == {si \in UNION {{s} \X DOMAIN agent.list[s] : s \in DOMAIN agent.list} :
                  Pair(si[1], si[2]).buffer}

priv_conn_check_tick(due) ==
  /\ agent.timer
  /\ agent' = priv_conn_check_tick_unlocked(agent, due).agent
  /\ UNCHANGED left

-----------------------------------------------------------------------------
(* Calls of the application.                                               *)

xice_agent_set_remote_credentials(s) ==
  /\ s \in ToSet(agent.streams)
  /\ ~agent.credentials[s]
  /\ agent' = [agent EXCEPT !.credentials[s] = TRUE]
  /\ UNCHANGED left

xice_agent_set_remote_candidates(c, cands) ==
  /\ Alive(c)
  /\ Spend("offer")
  /\ agent' = set_remote_candidates_locked(agent, c, cands)

xice_agent_remove_stream(s) ==
  /\ s \in ToSet(agent.streams)
  /\ Spend("remove")
  /\ agent' = [conn_check_prune_stream(agent, s) EXCEPT
                 !.streams = SelectSeq(@, LAMBDA t : t # s)]

\* Restart keeps the selected pair and its priority, and the component's state.
xice_agent_restart ==
  /\ Spend("restart")
  /\ agent' = [conn_check_free(agent) EXCEPT
                 !.bound = [s \in DOMAIN @ |-> FALSE],
                 !.comp  = [c \in Comps |->
                              [@[c] EXCEPT !.remotes = <<>>, !.incoming = <<>>]]]

\* xice_agent_set_selected_pair, with component_find_pair.
xice_agent_set_selected_pair(c, local, remote) ==
  /\ Alive(c)
  /\ Spend("force")
  /\ agent' = LET w == SetState(conn_check_prune_stream(agent, StreamOf(c)), c, "READY")
              IN  [w EXCEPT !.comp[c].selected =
                     [local |-> local, remote |-> remote,
                      priority |-> agent_candidate_pair_priority(w, c, local, remote)]]

\* xice_agent_set_selected_remote_candidate: the best host candidate is paired
\* with the given remote one, which becomes a remote candidate if it is not yet.
xice_agent_set_selected_remote_candidate(c, cand) ==
  /\ Alive(c)
  /\ Spend("force")
  /\ LET w == conn_check_prune_stream(agent, StreamOf(c))
         v == IF Known(w.comp[c].remotes, cand.addr) THEN w
              ELSE [w EXCEPT !.comp[c].remotes = Append(@, cand)]
         prio(l) == IF w.controlling THEN xice_candidate_pair_priority(l.priority, cand.priority)
                                     ELSE xice_candidate_pair_priority(cand.priority, l.priority)
         hosts == {l \in ToSet(Candidates(c)) : l.type = "HOST" /\ l.family = cand.family}
         local == CHOOSE l \in hosts : \A k \in hosts : prio(l) >= prio(k)
     IN  agent' = IF hosts = {} THEN w
                  ELSE [SetState(v, c, "READY") EXCEPT !.comp[c].selected =
                          [local |-> local.addr, remote |-> cand.addr, priority |-> prio(local)]]

-----------------------------------------------------------------------------
(* Inbound STUN messages.                                                  *)

\* A valid Binding request; 'switch': see ReceiveRequest.
HandleRequest(c, from, socket, use, switch) ==
  /\ Alive(c)
  /\ Spend("request")
  /\ agent' = ReceiveRequest(agent, c, from, socket, use, switch, PeerPriority)

\* What may answer a check: a mapped address that is known, unknown or missing,
\* a role conflict, another error, or an error without a code.
Answers(c) ==
  {Success("BINDING", mapped, {}) :
     mapped \in {{}, {Candidates(c)[1].addr}} \cup {{a} : a \in Mapped[c]}}
  \cup {Error("BINDING", code, {}, "none") : code \in {0, 400, 487}}

HandleResponse(s, i, from, m) ==
  /\ Pair(s, i).buffer
  /\ IF m.code = 487 THEN Spend("conflict")
     ELSE IF m.mapped \cap Mapped[Pair(s, i).comp] # {} THEN Spend("mapped")
     ELSE UNCHANGED left
  /\ agent' = priv_map_reply_to_conn_check_request(agent, s, i, from, m)

-----------------------------------------------------------------------------
Next ==
  \/ \E due \in SUBSET Outstanding : priv_conn_check_tick(due)
  \/ \E s \in ToSet(Streams) : xice_agent_set_remote_credentials(s)
  \/ \E c \in Comps : \E cands \in Offers[c] : xice_agent_set_remote_candidates(c, cands)
  \/ \E s \in ToSet(Streams) : xice_agent_remove_stream(s)
  \/ xice_agent_restart
  \/ \E c \in Comps : \E l \in ToSet(Candidates(c)), r \in ToSet(agent.comp[c].remotes) :
       xice_agent_set_selected_pair(c, l.addr, r.addr)
  \/ \E c \in Comps : \E cands \in Offers[c] :
       xice_agent_set_selected_remote_candidate(c, cands[1])
  \/ \E c \in Comps : \E from \in Peers[c], l \in ToSet(Candidates(c)),
                        use, switch \in BOOLEAN : HandleRequest(c, from, l.socket, use, switch)
  \/ \E s \in ToSet(agent.streams) : \E i \in DOMAIN agent.list[s] :
       \E from \in {Pair(s, i).remote, "elsewhere"}, m \in Answers(Pair(s, i).comp) :
         HandleResponse(s, i, from, m)

Spec == Init /\ [][Next]_vars

\* A tick that finds the transaction of the pair at position i due.
TickDue(s, i) ==
  /\ agent.timer
  /\ <<s, i>> \in Outstanding
  /\ \E others \in SUBSET (Outstanding \ {<<s, i>>}) :
       priv_conn_check_tick(others \cup {<<s, i>>})

\* The main loop keeps firing the timer while it is installed, and the clock
\* passes the deadline of every transaction.  Nothing is assumed of the peer.
Fairness ==
  /\ WF_vars(\E due \in SUBSET Outstanding : priv_conn_check_tick(due))
  /\ \A s \in ToSet(Streams), i \in 1..MaxConnChecks : WF_vars(TickDue(s, i))

FairSpec == Spec /\ Fairness

-----------------------------------------------------------------------------
PairType ==
  [comp : Comps, local : STRING, remote : STRING, foundation : STRING \X STRING,
   state : CheckStates, nominated : BOOLEAN, priority : Nat, controlling : BOOLEAN,
   buffer : BOOLEAN, retransmissions : 0..MaxRetransmissions, timer_restarted : BOOLEAN,
   repriced : BOOLEAN]

(* The agent's data keep their shape, and both candidates of every pair    *)
(* are candidates of its component, in a list of its own stream.           *)
TypeOK ==
  /\ left \in [Events -> Int]
  /\ \A s \in ToSet(agent.streams) : \A i \in DOMAIN agent.list[s] :
       LET p == Pair(s, i) IN
       /\ p \in PairType
       /\ StreamOf(p.comp) = s
       /\ Known(agent.comp[p.comp].locals, p.local)
       /\ Known(agent.comp[p.comp].remotes, p.remote)
  /\ \A c \in Comps : agent.comp[c].state \in ComponentStates

(* A transaction is outstanding only for a pair in progress: a late answer *)
(* to a check that was cancelled, failed or restarted changes nothing.     *)
BufferOnlyInProgress ==
  \A s \in DOMAIN agent.list : \A i \in DOMAIN agent.list[s] :
    Pair(s, i).buffer => Pair(s, i).state = "IN_PROGRESS"

(* The pairs agree with the candidates and with the transactions.          *)
Consistent == TypeOK /\ BufferOnlyInProgress

\* A READY component can send: xice_agent_send needs a selected pair.
ReadyHasSelected ==
  \A c \in Comps : agent.comp[c].state = "READY" => agent.comp[c].selected # NoPair

\* A FAILED component has given up no working path.
FailedHasNoValid ==
  \A c \in Comps : agent.comp[c].state = "FAILED" =>
    \A i \in PairsOf(agent, c) : ~Valid(Pair(StreamOf(c), i))

(* The state of a component fits its pairs, in whatever order checks are   *)
(* answered, time out, are cancelled or come from new candidates: READY    *)
(* has a selected pair, FAILED has no valid one.                           *)
StateFitsPairs == ReadyHasSelected /\ FailedHasNoValid

(* No nominated valid pair has a higher priority than the selected pair    *)
(* had when it was selected (docs/design.txt: "highest priority nominated  *)
(* pair"), in whatever order checks succeed and pairs are nominated, also  *)
(* after a restart or a forced pair, up to two things the code leaves:     *)
(* a role switch recalculates the priorities of the pairs but not that of  *)
(* the selected one, so that pairs are compared without the bit that names *)
(* the role; and the same recalculation takes over the priorities of       *)
(* candidates that were signalled anew meanwhile (repriced).               *)
SelectedIsBest ==
  \A c \in Comps : \A i \in NominatedValid(agent, c) :
    LET p   == Pair(StreamOf(c), i)
        sel == agent.comp[c].selected
    IN  /\ sel # NoPair
        /\ Rating(p.priority) <= Rating(sel.priority) \/ p.repriced

\* The peer starts something: it sends a request, or refuses a check because
\* both agents claim the same role.
PeerIntervenes ==
  \/ \E c \in Comps : \E from \in Peers[c], l \in ToSet(Candidates(c)),
                        use, switch \in BOOLEAN : HandleRequest(c, from, l.socket, use, switch)
  \/ \E s \in ToSet(agent.streams) : \E i \in DOMAIN agent.list[s] :
       \E m \in Answers(Pair(s, i).comp) :
         m.code = 487 /\ HandleResponse(s, i, Pair(s, i).remote, m)

(* The check timer stops in the end once the peer neither sends requests   *)
(* nor reports role conflicts any more (for ever, it could keep the checks *)
(* running by either): while the agent controls, every transaction is      *)
(* answered or given up, and no pair is re-nominated without end.          *)
TimerStops ==
  <>[][~PeerIntervenes]_vars => (agent.timer ~> ~agent.timer \/ ~agent.controlling)

(* A controlling agent concludes, once the peer leaves it alone: a         *)
(* component that has checks to run ends READY or FAILED, and is not left  *)
(* CONNECTING or CONNECTED.                                                *)
Concludes ==
  <>[][~PeerIntervenes]_vars =>
    \A c \in Comps :
      agent.timer /\ agent.comp[c].state \in {"CONNECTING", "CONNECTED"}
        ~> agent.comp[c].state \in {"READY", "FAILED"} \/ ~agent.controlling
=============================================================================
