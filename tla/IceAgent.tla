----------------------------- MODULE IceAgent -----------------------------
(***************************************************************************)
(* The handlers of agent/conncheck.c, and of the calls of agent/agent.c    *)
(* that drive them, each as the agent it leaves behind.  ConnCheck puts    *)
(* one agent into an arbitrary environment, IceSession two agents into a   *)
(* network.                                                                *)
(***************************************************************************)
EXTENDS CheckList, FiniteSets, StunReplies

\* xice_agent_new and xice_agent_add_stream, and the candidates gathered.
NewAgent(role, gathered) ==
  [controlling |-> role,
   streams     |-> Streams,
   timer       |-> FALSE,
   credentials |-> [s \in ToSet(Streams) |-> FALSE],
   bound       |-> [s \in ToSet(Streams) |-> FALSE],
   list        |-> [s \in ToSet(Streams) |-> <<>>],
   comp        |-> [c \in Comps |->
      [state |-> "DISCONNECTED", selected |-> NoPair, locals |-> gathered[c],
       remotes |-> <<>>, incoming |-> <<>>]]]

-----------------------------------------------------------------------------
(* The check timer.                                                        *)

\* Mutant: a transaction is retransmitted for ever.
RefreshPair_NoTimeout(p, due) ==
  IF p.state = "IN_PROGRESS" /\ ~p.buffer THEN [p EXCEPT !.state = "FAILED"] ELSE p

\* A running transaction whose stun_timer_refresh gives RETRANSMIT or TIMEOUT.
RefreshPair(p, due) ==
  IF p.state # "IN_PROGRESS" THEN p
  ELSE IF ~p.buffer THEN [p EXCEPT !.state = "FAILED"]
  ELSE IF ~due THEN p
  ELSE IF p.retransmissions >= MaxRetransmissions
       THEN [p EXCEPT !.state = "FAILED", !.buffer = FALSE]
       ELSE [p EXCEPT !.retransmissions = @ + 1]

\* Re-sends the first valid pair of the list as nominated.
NominateFirst(w, s) ==
  LET i == SelectInSeq(w.list[s], Valid)
  IN  IF i = 0 THEN w
      ELSE priv_conn_check_initiate([w EXCEPT !.list[s][i].nominated = TRUE], s, i)

priv_conn_check_tick_stream(t, s, due) ==
  LET w == [t.agent EXCEPT !.list[s] =
              [i \in DOMAIN @ |-> RefreshPair(@[i], <<s, i>> \in due)]]
      list       == w.list[s]
      valid      == {i \in DOMAIN list : Valid(list[i])}
      nominated  == {i \in valid : list[i].nominated}
      inprogress == \E i \in DOMAIN list : list[i].state = "IN_PROGRESS"
      nominate   == /\ Cardinality(nominated) < Len(CompsOf[s])
                    /\ valid # nominated
  IN  [agent |-> IF nominate /\ w.controlling
                 THEN FoldLeft(LAMBDA v, c : NominateFirst(v, s), w, CompsOf[s]) ELSE w,
       keep  |-> t.keep \/ inprogress \/ nominate]

\* The last tick: no work is left, the component states are settled.
StopTimer(w) ==
  LET ready(v, s) == FoldLeft(
        LAMBDA u, c : priv_update_check_list_state_for_ready(u, s, c),
        priv_update_check_list_failed_components(v, s), CompsOf[s])
  IN  [FoldLeft(ready, w, w.streams) EXCEPT !.timer = FALSE]

\* Returns the agent and whether to keep the timer going.
priv_conn_check_tick_unlocked(w, due) ==
  LET k == SelectInSeq(w.streams,
             LAMBDA s : priv_conn_check_find_next_waiting(w.list[s]) # 0)
      s1 == w.streams[k]
      start == IF k # 0
               THEN [agent |-> priv_conn_check_initiate(w, s1,
                                 priv_conn_check_find_next_waiting(w.list[s1])),
                     keep  |-> TRUE]
               ELSE [agent |-> priv_conn_check_unfreeze_next(w), keep |-> HasFrozen(w)]
      end == FoldLeft(LAMBDA t, s : priv_conn_check_tick_stream(t, s, due),
                      start, w.streams)
  IN  IF end.keep THEN end ELSE [end EXCEPT !.agent = StopTimer(@)]

\* conn_check_schedule_next: ticks once, then starts the timer if there is work.
conn_check_schedule_next(w) ==
  LET t == priv_conn_check_tick_unlocked(priv_conn_check_unfreeze_next(w), {})
  IN  [t.agent EXCEPT !.timer = @ \/ t.keep]

-----------------------------------------------------------------------------
(* Remote candidates, from signalling.                                     *)

\* A candidate that is known already is updated, and paired once more.
priv_add_remote_candidate(w, c, cand) ==
  LET i == SelectInSeq(w.comp[c].remotes, LAMBDA r : r.addr = cand.addr)
      v == [w EXCEPT !.comp[c].remotes = IF i = 0 THEN Append(@, cand)
                                                  ELSE ReplaceAt(@, i, cand)]
  IN  conn_check_add_for_candidate(v, StreamOf(c), c, cand)

\* _set_remote_candidates_locked.
set_remote_candidates_locked(w, c, cands) ==
  LET added == FoldLeft(LAMBDA v, r : priv_add_remote_candidate(v, c, r), w, cands)
      known == conn_check_remote_candidates_set(added)
  IN  IF cands = <<>> THEN known ELSE conn_check_schedule_next(known)

-----------------------------------------------------------------------------
(* Inbound STUN messages.                                                  *)

\* A valid Binding request.  'switch': it claims our role, with a greater
\* tie-breaker.  Without remote candidates it is only kept for later.
ReceiveRequest(w, c, from, socket, use, switch, priority) ==
  LET s  == StreamOf(c)
      w1 == [(IF switch THEN priv_check_for_role_conflict(w, ~w.controlling) ELSE w)
               EXCEPT !.bound[s] = TRUE]
      use_candidate == use \/ w1.controlling
      early == w1.comp[c].remotes = <<>>
      learn == ~early /\ ~Known(w1.comp[c].remotes, from)
      learnt == discovery_learn_remote_peer_reflexive_candidate(w1, c, from, priority)
      w2 == IF learn
            THEN conn_check_add_for_candidate(learnt, s, c, Find(learnt.comp[c].remotes, from))
            ELSE w1
  IN  IF early THEN priv_store_pending_check(w2, c, from, socket, use_candidate, priority)
      ELSE priv_reply_to_conn_check(w2, s, c, from, socket, use_candidate)

\* What follows a successful check, for the pair at position ok.
ConcludeSuccess(w, s, c, ok) ==
  LET v == IF w.comp[c].state = "READY" THEN w ELSE SetState(w, c, "CONNECTED")
      u == IF v.list[s][ok].nominated
           THEN priv_update_selected_pair(v, c, v.list[s][ok]) ELSE v
  IN  priv_update_check_list_state_for_ready(u, s, c)

\* The transaction of pair i ends; its message buffer is released.
Answered(w, s, i) == [w EXCEPT !.list[s][i].buffer = FALSE]

\* A success response whose mapped address is a local candidate's, or that has
\* no mapped address.
Succeeded(w, s, i) ==
  LET v == SetPairState(Answered(w, s, i), s, i, "SUCCEEDED")
  IN  ConcludeSuccess(priv_conn_check_unfreeze_related(v, s, i), s, w.list[s][i].comp, i)

\* A success response with an unknown mapped address: a peer-reflexive local
\* candidate is added, the pair fails and a discovered pair takes its place.
SucceededElsewhere(w, s, i, mapped) ==
  LET p  == w.list[s][i]
      w1 == discovery_add_peer_reflexive_candidate(Answered(w, s, i), s, p.comp, mapped,
                                                   SocketOf(w, p))
      w2 == priv_add_peer_reflexive_pair(SetPairState(w1, s, i, "FAILED"), s, p.comp,
                                         mapped, p)
  IN  ConcludeSuccess(w2, s, p.comp, Len(w2.list[s]))

\* Mutant: the role is toggled, also when a request has switched it already.
Conflicting_Toggle(w, s, i) ==
  LET v == priv_check_for_role_conflict(w, ~w.controlling)
  IN  SetPairState(Answered(v, s, i), s, i, "WAITING")

\* The role becomes the opposite of the one the pair was made in.
Conflicting(w, s, i) ==
  LET v == priv_check_for_role_conflict(w, ~w.list[s][i].controlling)
  IN  SetPairState(Answered(v, s, i), s, i, "WAITING")

\* Answer m to the check of pair i.  A success from another address than the check
\* was sent to fails the pair; after an error it stays in progress until a tick
\* finds that it has no transaction.
priv_map_reply_to_conn_check_request(w, s, i, from, m) ==
  LET p   == w.list[s][i]
      res == stun_usage_ice_conncheck_process(m)
      new == {a \in m.mapped : ~Known(w.comp[p.comp].locals, a)}
  IN  CASE res = "ROLE_CONFLICT" -> Conflicting(w, s, i)
        [] res \in {"SUCCESS", "NO_MAPPED_ADDRESS"} ->
             IF from # p.remote THEN SetPairState(Answered(w, s, i), s, i, "FAILED")
             ELSE IF new = {} THEN Succeeded(w, s, i)
             ELSE SucceededElsewhere(w, s, i, CHOOSE a \in new : TRUE)
        [] OTHER -> Answered(w, s, i)
=============================================================================
