----------------------------- MODULE CheckList -----------------------------
(***************************************************************************)
(* The agent's data (streams, components, candidates, check lists) and the *)
(* functions of agent/conncheck.c that the handlers are made of.  Each     *)
(* operator takes the agent and returns the agent as the C function leaves *)
(* it; the handlers themselves are in ConnCheck.                           *)
(*                                                                         *)
(* A candidate is known by its address, which is unique among the local    *)
(* and among the remote candidates of a component.  A check pair is        *)
(*   comp, local, remote        component and the two addresses            *)
(*   state, nominated, priority as in CandidateCheckPair                   *)
(*   controlling                the agent's role when the pair was created *)
(*   buffer                     stun_message.buffer # NULL: a transaction  *)
(*                              is outstanding                             *)
(*   retransmissions, timer_restarted  of its StunTimer                    *)
(*   repriced                   history: nominated and valid already when a *)
(*                              role switch raised its priority, because a *)
(*                              candidate's own priority had been updated  *)
(* The compatibility mode is XICE_COMPATIBILITY_RFC5245, unreliable mode.  *)
(***************************************************************************)
EXTENDS Integers, Sequences, SequencesExt

CONSTANTS
  Streams,              \* the sequence of streams, in agent->streams order
  CompsOf,              \* the sequence of the components of each stream
  PrioBase,             \* 2^32 in the code; above twice any candidate's priority
  PrflxPriority,        \* the priority of a discovered local candidate
  MaxConnChecks,        \* agent->max_conn_checks
  MaxRetransmissions,   \* STUN_TIMER_DEFAULT_MAX_RETRANSMISSIONS
  MaxPending            \* XICE_AGENT_MAX_REMOTE_CANDIDATES

Comps == UNION {ToSet(CompsOf[s]) : s \in ToSet(Streams)}

StreamOf(c) == CHOOSE s \in ToSet(Streams) : c \in ToSet(CompsOf[s])

\* The order of the enum XiceComponentState.
StateRank == [DISCONNECTED |-> 0, GATHERING |-> 1, CONNECTING |-> 2,
              CONNECTED |-> 3, READY |-> 4, FAILED |-> 5]

ComponentStates == DOMAIN StateRank

CheckStates == {"WAITING", "IN_PROGRESS", "SUCCEEDED", "FAILED", "FROZEN",
                "CANCELLED", "DISCOVERED"}

NoPair == [local |-> "none", remote |-> "none", priority |-> 0]

-----------------------------------------------------------------------------
(* Candidates and pair priorities.                                         *)

Find(cands, addr) == cands[SelectInSeq(cands, LAMBDA k : k.addr = addr)]

Known(cands, addr) == \E i \in DOMAIN cands : cands[i].addr = addr

xice_candidate_pair_priority(o, a) ==
  PrioBase * (IF o < a THEN o ELSE a) + 2 * (IF o > a THEN o ELSE a)
    + (IF o > a THEN 1 ELSE 0)

\* A pair's priority without the bit that depends on the role.
Rating(priority) == priority \div 2

agent_candidate_pair_priority(w, c, local, remote) ==
  LET l == Find(w.comp[c].locals, local).priority
      r == Find(w.comp[c].remotes, remote).priority
  IN  IF w.controlling THEN xice_candidate_pair_priority(l, r)
                       ELSE xice_candidate_pair_priority(r, l)

SocketOf(w, p) == Find(w.comp[p.comp].locals, p.local).socket

Valid(p) == p.state \in {"SUCCEEDED", "DISCOVERED"}

\* agent_signal_component_state_change
SetState(w, c, state) == [w EXCEPT !.comp[c].state = state]

SetPairState(w, s, i, state) == [w EXCEPT !.list[s][i].state = state]

\* Runs op(w, i) for every position i of the check list, from its start.
ForEachPair(op(_, _), w, s) == FoldLeftDomain(op, w, w.list[s])

-----------------------------------------------------------------------------
(* Sending checks and unfreezing pairs.                                    *)

\* conn_check_send: without remote credentials the check is cancelled at once
\* (as it is when the request does not fit its buffer, which is not modelled).
conn_check_send(w, s, i) ==
  [w EXCEPT !.list[s][i] =
     [@ EXCEPT !.nominated = @ \/ w.controlling,
               !.repriced = FALSE,
               !.buffer = w.credentials[s],
               !.retransmissions = IF w.credentials[s] THEN 0 ELSE @]]

priv_conn_check_initiate(w, s, i) ==
  conn_check_send(SetPairState(w, s, i, "IN_PROGRESS"), s, i)

priv_conn_check_find_next_waiting(list) ==
  SelectInSeq(list, LAMBDA p : p.state = "WAITING")

Frozen(list) == {i \in DOMAIN list : list[i].state = "FROZEN" /\ list[i].priority > 0}

\* Whether priv_conn_check_unfreeze_next returns TRUE.
HasFrozen(w) == \E k \in DOMAIN w.streams : Frozen(w.list[w.streams[k]]) # {}

priv_conn_check_unfreeze_next(w) ==
  IF ~HasFrozen(w) THEN w
  ELSE LET s == w.streams[SelectInSeq(w.streams, LAMBDA t : Frozen(w.list[t]) # {})]
           F == Frozen(w.list[s])
           best == {i \in F : \A j \in F : w.list[s][i].priority >= w.list[s][j].priority}
       IN  SetPairState(w, s, Min(best), "WAITING")

Foundation(w, p) == <<Find(w.comp[p.comp].locals, p.local).foundation,
                      Find(w.comp[p.comp].remotes, p.remote).foundation>>

\* Step 2 walks the list of the stream that owns ok_check, whose pairs all
\* belong to that stream, and so never unfreezes a pair of another stream.
priv_conn_check_unfreeze_related(w, s, ok) ==
  LET f == w.list[s][ok].foundation
      related == {i \in DOMAIN w.list[s] :
                    w.list[s][i].state = "FROZEN" /\ w.list[s][i].foundation = f}
  IN  IF related = {} THEN priv_conn_check_unfreeze_next(w)
      ELSE [w EXCEPT !.list[s] = [i \in DOMAIN @ |->
              IF i \in related THEN [@[i] EXCEPT !.state = "WAITING"] ELSE @[i]]]

-----------------------------------------------------------------------------
(* Nomination, the selected pair and the component's state.                *)

PairsOf(w, c) == {i \in DOMAIN w.list[StreamOf(c)] : w.list[StreamOf(c)][i].comp = c}

NominatedValid(w, c) ==
  {i \in PairsOf(w, c) : LET p == w.list[StreamOf(c)][i] IN Valid(p) /\ p.nominated}

\* Mutant: the latest nominated pair replaces the selected one.
priv_update_selected_pair_Latest(w, c, p) ==
  [w EXCEPT !.comp[c].selected =
     [local |-> p.local, remote |-> p.remote, priority |-> p.priority]]

\* The selected pair changes only for one of greater priority.
priv_update_selected_pair(w, c, p) ==
  IF p.priority > w.comp[c].selected.priority
  THEN [w EXCEPT !.comp[c].selected =
          [local |-> p.local, remote |-> p.remote, priority |-> p.priority]]
  ELSE w

\* Mutant: a check in progress is cancelled but its transaction kept.
priv_prune_pending_checks_KeepBuffer(w, s, c) ==
  LET highest == Max({0} \cup {w.list[s][i].priority : i \in NominatedValid(w, c)})
      pending(p) == \/ p.state \in {"FROZEN", "WAITING"}
                    \/ p.state = "IN_PROGRESS" /\ p.priority < highest
  IN  [w EXCEPT !.list[s] = [i \in DOMAIN @ |->
         IF @[i].comp = c /\ pending(@[i]) THEN [@[i] EXCEPT !.state = "CANCELLED"]
                                           ELSE @[i]]]

\* With no nominated valid pair, highest_nominated_priority is 0.
priv_prune_pending_checks(w, s, c) ==
  LET highest == Max({0} \cup {w.list[s][i].priority : i \in NominatedValid(w, c)})
      prune(p) ==
        IF p.comp # c THEN p
        ELSE IF p.state \in {"FROZEN", "WAITING"} THEN [p EXCEPT !.state = "CANCELLED"]
        ELSE IF p.state = "IN_PROGRESS" /\ highest # 0 /\ p.priority < highest
             THEN [p EXCEPT !.state = "CANCELLED", !.buffer = FALSE]
        ELSE p
  IN  [w EXCEPT !.list[s] = [i \in DOMAIN @ |-> prune(@[i])]]

\* Mutant: any valid pair, nominated or not, concludes the component.
priv_update_check_list_state_for_ready_AnyValid(w, s, c) ==
  IF \A i \in PairsOf(w, c) : ~Valid(w.list[s][i]) THEN w
  ELSE LET v == priv_prune_pending_checks(w, s, c)
       IN  IF \E i \in PairsOf(v, c) : v.list[s][i].state = "IN_PROGRESS"
           THEN v ELSE SetState(v, c, "READY")

\* READY only when pruning leaves no check of the component in progress.
priv_update_check_list_state_for_ready(w, s, c) ==
  IF NominatedValid(w, c) = {} THEN w
  ELSE LET v == priv_prune_pending_checks(w, s, c)
       IN  IF \E i \in PairsOf(v, c) : v.list[s][i].state = "IN_PROGRESS"
           THEN v ELSE SetState(v, c, "READY")

\* Mutant: a component fails only when nothing at all was checked for it.
priv_update_check_list_failed_components_Waiting(w, s) ==
  LET failed(c) == PairsOf(w, c) = {} /\ w.comp[c].remotes # <<>>
  IN  [w EXCEPT !.comp = [c \in Comps |->
         IF c \in ToSet(CompsOf[s]) /\ failed(c) THEN [@[c] EXCEPT !.state = "FAILED"]
                                                 ELSE @[c]]]

\* FAILED when every check of the component failed and it had remote candidates.
priv_update_check_list_failed_components(w, s) ==
  LET failed(c) == /\ \A i \in PairsOf(w, c) : w.list[s][i].state = "FAILED"
                   /\ w.comp[c].remotes # <<>>
  IN  [w EXCEPT !.comp = [c \in Comps |->
         IF c \in ToSet(CompsOf[s]) /\ failed(c) THEN [@[c] EXCEPT !.state = "FAILED"]
                                                 ELSE @[c]]]

priv_mark_pair_nominated(w, s, c, remote) ==
  LET mark(v, i) ==
        IF v.list[s][i].comp = c /\ v.list[s][i].remote = remote
        THEN LET n == [v EXCEPT !.list[s][i].nominated = TRUE]
                 u == IF Valid(n.list[s][i])
                      THEN priv_update_selected_pair(n, c, n.list[s][i]) ELSE n
             IN  priv_update_check_list_state_for_ready(u, s, c)
        ELSE v
  IN  ForEachPair(mark, w, s)

-----------------------------------------------------------------------------
(* Forming pairs.                                                          *)

\* priv_limit_conn_check_list_size keeps the first c elements, where c is the
\* excess over the limit, and none when the limit is 0.
priv_limit_conn_check_list_size(list, limit) ==
  IF Len(list) <= limit THEN list
  ELSE IF limit = 0 THEN <<>>
  ELSE SubSeq(list, 1, Len(list) - limit)

NewPair(w, c, local, remote, state, nominated) ==
  LET p == [comp |-> c, local |-> local, remote |-> remote] IN
  [comp |-> c, local |-> local, remote |-> remote, foundation |-> Foundation(w, p),
   state |-> state, nominated |-> nominated,
   priority |-> agent_candidate_pair_priority(w, c, local, remote),
   controlling |-> w.controlling, buffer |-> FALSE,
   retransmissions |-> 0, timer_restarted |-> FALSE, repriced |-> FALSE]

\* g_slist_insert_sorted runs before the priority is assigned: the new element
\* still has priority 0 and goes to the end of the list.
priv_add_new_check_pair(w, s, c, local, remote, state, use_candidate) ==
  [w EXCEPT !.list[s] = priv_limit_conn_check_list_size(
     Append(@, NewPair(w, c, local, remote, state, use_candidate)), MaxConnChecks)]

priv_conn_check_add_for_candidate_pair(w, s, c, local, remote) ==
  IF \/ local.type = "SERVER_REFLEXIVE"
     \/ local.family # remote.family
  THEN w
  ELSE LET v == priv_add_new_check_pair(w, s, c, local.addr, remote.addr, "FROZEN", FALSE)
       IN  SetState(v, c, IF StateRank[v.comp[c].state] < StateRank["CONNECTED"]
                          THEN "CONNECTING" ELSE "CONNECTED")

conn_check_add_for_candidate(w, s, c, remote) ==
  FoldLeft(LAMBDA v, l : priv_conn_check_add_for_candidate_pair(v, s, c, l, remote),
           w, w.comp[c].locals)

conn_check_add_for_local_candidate(w, s, c, local) ==
  FoldLeft(LAMBDA v, r : priv_conn_check_add_for_candidate_pair(v, s, c, local, r),
           w, w.comp[c].remotes)

\* priv_add_peer_reflexive_pair: appended, valid at once, not yet nominated.
priv_add_peer_reflexive_pair(w, s, c, local, parent) ==
  [w EXCEPT !.list[s] = Append(@, NewPair(w, c, local, parent.remote, "DISCOVERED", FALSE))]

\* discovery_learn_remote_peer_reflexive_candidate; a new foundation is assigned.
discovery_learn_remote_peer_reflexive_candidate(w, c, from, priority) ==
  [w EXCEPT !.comp[c].remotes = Append(@,
     [addr |-> from, priority |-> priority, foundation |-> from, family |-> "v4"])]

\* discovery_add_peer_reflexive_candidate: the mapped address is not a local
\* candidate's, so the pruning in priv_add_local_candidate_pruned never applies.
\* All peer-reflexive candidates share a foundation (one network interface).
discovery_add_peer_reflexive_candidate(w, s, c, mapped, socket) ==
  LET cand == [addr |-> mapped, socket |-> socket, type |-> "PEER_REFLEXIVE",
               priority |-> PrflxPriority, foundation |-> "prflx", family |-> "v4"]
      v == [w EXCEPT !.comp[c].locals = Append(@, cand)]
  IN  conn_check_add_for_local_candidate(v, s, c, cand)

-----------------------------------------------------------------------------
(* Triggered checks, replies and early checks.                             *)

priv_schedule_triggered_check(w, s, c, socket, remote, use_candidate) ==
  LET list == w.list[s]
      i == SelectInSeq(list, LAMBDA p : /\ p.comp = c
                                        /\ p.remote = remote
                                        /\ SocketOf(w, p) = socket)
      l == SelectInSeq(w.comp[c].locals, LAMBDA k : k.socket = socket)
  IN  CASE i # 0 /\ list[i].state \in {"WAITING", "FROZEN", "FAILED"} ->
             priv_conn_check_initiate(w, s, i)
        [] i # 0 /\ list[i].state = "IN_PROGRESS" ->
             IF list[i].timer_restarted THEN w
             ELSE [w EXCEPT !.list[s][i] = [@ EXCEPT !.retransmissions = 0,
                                                     !.timer_restarted = TRUE]]
        [] i # 0 /\ Valid(list[i]) ->
             LET v == priv_update_check_list_state_for_ready(w, s, c)
             IN  IF v.controlling THEN priv_conn_check_initiate(v, s, i) ELSE v
        [] i # 0 /\ list[i].state = "CANCELLED" -> w
        [] i = 0 /\ l # 0 ->
             priv_add_new_check_pair(w, s, c, w.comp[c].locals[l].addr, remote,
                                     "WAITING", use_candidate)
        [] OTHER -> w

priv_reply_to_conn_check(w, s, c, remote, socket, use_candidate) ==
  LET v == priv_schedule_triggered_check(w, s, c, socket, remote, use_candidate)
  IN  IF use_candidate THEN priv_mark_pair_nominated(v, s, c, remote) ELSE v

priv_store_pending_check(w, c, from, socket, use_candidate, priority) ==
  IF Len(w.comp[c].incoming) >= MaxPending THEN w
  ELSE [w EXCEPT !.comp[c].incoming = Append(@,
          [from |-> from, socket |-> socket, use_candidate |-> use_candidate,
           priority |-> priority])]

priv_preprocess_conn_check_pending_data(w, s, c, i) ==
  LET apply(v, k) ==
        IF k.from = v.list[s][i].remote /\ k.socket = SocketOf(v, v.list[s][i])
        THEN priv_schedule_triggered_check(
               IF k.use_candidate THEN priv_mark_pair_nominated(v, s, c, k.from) ELSE v,
               s, c, k.socket, k.from, k.use_candidate)
        ELSE v
  IN  FoldLeft(apply, w, w.comp[c].incoming)

\* One early check from an address that is not a remote candidate.
LearnFromEarlyCheck(w, s, c, k) ==
  LET v == discovery_learn_remote_peer_reflexive_candidate(w, c, k.from, k.priority)
      a == conn_check_add_for_candidate(v, s, c, Find(v.comp[c].remotes, k.from))
      n == IF k.use_candidate THEN priv_mark_pair_nominated(a, s, c, k.from) ELSE a
  IN  priv_schedule_triggered_check(n, s, c, k.socket, k.from, k.use_candidate)

\* The early checks of pair i's component, then dropped.  'match' is declared
\* outside the loop over the early checks and is never reset in it.
ProcessEarlyChecks(w, s, i) ==
  LET c == w.list[s][i].comp
      step(m, k) ==
        IF m.match \/ Known(m.agent.comp[c].remotes, k.from)
        THEN [m EXCEPT !.match = TRUE]
        ELSE [m EXCEPT !.agent = LearnFromEarlyCheck(m.agent, s, c, k)]
      start == [agent |-> priv_preprocess_conn_check_pending_data(w, s, c, i),
                match |-> FALSE]
      end   == FoldLeft(step, start, w.comp[c].incoming)
  IN  [end.agent EXCEPT !.comp[c].incoming = <<>>]

\* Pairs added meanwhile come after their component's early checks were dropped.
conn_check_remote_candidates_set(w) ==
  LET pairs(s) == [i \in DOMAIN w.list[s] |-> <<s, i>>]
      all == FlattenSeq([k \in DOMAIN w.streams |-> pairs(w.streams[k])])
  IN  FoldLeft(LAMBDA v, p : ProcessEarlyChecks(v, p[1], p[2]), w, all)

-----------------------------------------------------------------------------
(* Role conflicts and freeing the check lists.                             *)

priv_recalculate_pair_priorities(w) ==
  LET new(p) == agent_candidate_pair_priority(w, p.comp, p.local, p.remote)
      recalculated(p) ==
        [p EXCEPT !.priority = new(p),
                  !.repriced = @ \/ (Valid(p) /\ p.nominated
                                       /\ Rating(new(p)) > Rating(p.priority))]
  IN  [w EXCEPT !.list = [s \in DOMAIN @ |->
         [i \in DOMAIN w.list[s] |-> recalculated(w.list[s][i])]]]

priv_check_for_role_conflict(w, control) ==
  IF control = w.controlling THEN w
  ELSE priv_recalculate_pair_priorities([w EXCEPT !.controlling = control])

conn_check_free(w) ==
  [w EXCEPT !.list = [s \in DOMAIN @ |-> <<>>], !.timer = FALSE]

\* Once the stream's own list is empty, conn_check_free empties all the others.
conn_check_prune_stream(w, s) == conn_check_free([w EXCEPT !.list[s] = <<>>])

=============================================================================
