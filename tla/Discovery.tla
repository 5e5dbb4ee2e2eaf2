----------------------------- MODULE Discovery -----------------------------
(***************************************************************************)
(* Candidate gathering: xice_agent_gather_candidates (agent/agent.c), the  *)
(* discovery list with its timer (agent/discovery.c), the answers of STUN  *)
(* and TURN servers, and the refreshes that keep TURN allocations alive    *)
(* (agent/conncheck.c).  Streams have one component and one local address; *)
(* a gathering opens one socket, named by the number of the call.  A timer *)
(* that runs may fire at any moment.  When a request is retransmitted is   *)
(* StunTimer's subject: here a poll finds that it waits or timed out.  The *)
(* check pairs made for new candidates are ConnCheck's.                    *)
(*                                                                         *)
(* candidate-gathering-done is emitted with the agent's recursive lock     *)
(* held: until its handler returns nothing else enters the agent, but the  *)
(* handler itself may start a gathering.  A stream is not removed from the *)
(* handler (the walk over the streams would go on from freed memory), and  *)
(* handlers of the other signals do not call back.                         *)
(***************************************************************************)
EXTENDS Integers, Sequences, FiniteSets, FiniteSetsExt, StunReplies

CONSTANTS
  Streams,       \* the sequence of streams, in agent->streams order
  Servers,       \* the discoveries each stream needs: a sequence of types
  Addrs,         \* addresses the servers may report
  HostAddr,      \* the address of a host candidate
  MaxGathers     \* bound on the calls of gather_candidates

Types == {"SERVER_REFLEXIVE", "RELAYED"}

\* None or one of the set.
Optional(set) == {{}} \cup {{x} : x \in set}

Ids == {Streams[k] : k \in DOMAIN Streams}

ASSUME DiscoveryAssumption ==
  /\ Servers \in [Ids -> Seq(Types)]
  /\ HostAddr \notin Addrs
  /\ MaxGathers \in Nat

VARIABLES
  streams,     \* the agent's streams
  gathering,   \* stream->gathering
  list,        \* agent->discovery_list
  unsched,     \* agent->discovery_unsched_items
  timer,       \* discovery_timer_source is running
  local,       \* the local candidates of each stream
  refresh,     \* agent->refresh_list
  calls,       \* calls of gather_candidates so far
  emitting     \* the handlers of candidate-gathering-done that run, innermost last:
               \* the streams its walk has yet to visit; whether a timer began it

vars == <<streams, gathering, list, unsched, timer, local, refresh, calls, emitting>>

Init ==
  /\ streams = Streams
  /\ gathering = [s \in Ids |-> FALSE]
  /\ list = <<>> /\ unsched = 0 /\ timer = FALSE
  /\ local = [s \in Ids |-> {}]
  /\ refresh = {}
  /\ calls = 0
  /\ emitting = <<>>

\* No handler runs: the agent's lock is free.
Unlocked == emitting = <<>>

-----------------------------------------------------------------------------
(* The discovery timer.                                                    *)

\* answerable: the request's transaction is open in the item's StunAgent;
\* nested (history): the gathering was started from a handler.
NewItem(s, type, socket) ==
  [stream |-> s, type |-> type, socket |-> socket, pending |-> FALSE,
   done |-> FALSE, answerable |-> FALSE, nested |-> ~Unlocked]

\* The positions in rest of the streams that gather, by busy.
Busy(rest, busy) == {k \in DOMAIN rest : busy[rest[k]]}

\* The walk over the streams in rest: the next one that gathers is announced and
\* the handler runs, above those of frames.
agent_signal_gathering_done(rest, busy, frames, tick) ==
  IF Busy(rest, busy) = {}
  THEN gathering' = busy /\ emitting' = frames
  ELSE LET k == Min(Busy(rest, busy))
       IN  /\ gathering' = [busy EXCEPT ![rest[k]] = FALSE]
           /\ emitting' = Append(frames, [rest |-> SubSeq(rest, k + 1, Len(rest)),
                                          tick |-> tick])

discovery_free == list' = <<>> /\ unsched' = 0 /\ timer' = FALSE

\* Mutant: a request that timed out is sent anew.
Polled_Retries(item, ends) ==
  IF item.done THEN item
  ELSE [item EXCEPT !.pending = ~ends, !.answerable = ~ends]

\* An item is sent, waits on, or ends: it timed out or could not be sent.
Polled(item, ends) ==
  IF item.done THEN item
  ELSE [item EXCEPT !.pending = TRUE, !.done = ends,
                    !.answerable = (@ \/ ~item.pending) /\ ~ends]

\* One poll of items; those in ending end.  busy are the streams that gather
\* and count the items the agent believes unscheduled.  When no item is left
\* open the list is freed and the end announced.  tick: the timer's callback.
priv_discovery_tick_unlocked(items, count, busy, ending, tick) ==
  LET polled == [i \in DOMAIN items |-> Polled(items[i], i \in ending)]
      sent == Cardinality({i \in DOMAIN items : ~items[i].pending})
  IN  IF \A i \in DOMAIN polled : polled[i].done
      THEN discovery_free /\ agent_signal_gathering_done(streams, busy, emitting, tick)
      ELSE /\ list' = polled /\ timer' = TRUE /\ gathering' = busy
           /\ unsched' = IF count > sent THEN count - sent ELSE 0
           /\ UNCHANGED emitting

\* The timer's callback.
priv_discovery_tick(ending) ==
  /\ timer /\ Unlocked
  /\ priv_discovery_tick_unlocked(list, unsched, gathering, ending, TRUE)
  /\ UNCHANGED <<streams, local, refresh, calls>>

\* The application's handler returns and the walk goes on.  At its end the timer's
\* callback destroys the timer, also one that a handler's gathering started.
HandlerReturns ==
  /\ ~Unlocked
  /\ LET n == Len(emitting)
         top == emitting[n]
     IN  /\ agent_signal_gathering_done(top.rest, gathering, SubSeq(emitting, 1, n - 1),
                                        top.tick)
         /\ timer' = (timer /\ ~(top.tick /\ Busy(top.rest, gathering) = {}))
  /\ UNCHANGED <<streams, list, unsched, local, refresh, calls>>

-----------------------------------------------------------------------------
(* Calls of the application.                                               *)

Candidate(type, socket, addr) == [type |-> type, socket |-> socket, addr |-> addr]

\* priv_add_new_candidate_discovery_stun and _turn: a discovery for each server,
\* but for the TURN servers in down, whose TCP connection was refused.
NewItems(s, down) ==
  LET up == SelectSeq([i \in DOMAIN Servers[s] |-> <<i, Servers[s][i]>>],
                      LAMBDA e : e[1] \notin down)
  IN  [i \in DOMAIN up |-> NewItem(s, up[i][2], calls + 1)]

MayBeDown(s) == {i \in DOMAIN Servers[s] : Servers[s][i] = "RELAYED"}

\* Mutant: the end is announced whenever nothing is unscheduled.
StartOrFinish_Early(items, count, busy, ending) ==
  IF count = 0
  THEN /\ agent_signal_gathering_done(streams, busy, emitting, FALSE)
       /\ UNCHANGED <<list, unsched, timer>>
  ELSE IF timer
  THEN /\ list' = items /\ unsched' = count /\ gathering' = busy
       /\ UNCHANGED <<timer, emitting>>
  ELSE priv_discovery_tick_unlocked(items, count, busy, ending, FALSE)

\* discovery_schedule, or the end at once when nothing is unscheduled; neither
\* does anything while the timer runs.
StartOrFinish(items, count, busy, ending) ==
  IF timer
  THEN /\ list' = items /\ unsched' = count /\ gathering' = busy
       /\ UNCHANGED <<timer, emitting>>
  ELSE IF count = 0
  THEN /\ agent_signal_gathering_done(streams, busy, emitting, FALSE)
       /\ UNCHANGED <<list, unsched, timer>>
  ELSE priv_discovery_tick_unlocked(items, count, busy, ending, FALSE)

\* ending: the items that the first poll ends, if there is one.
GatherSucceeds(s, down) ==
  LET added == NewItems(s, down)
      items == list \o added
  IN  /\ local' = [local EXCEPT ![s] = @ \cup {Candidate("HOST", calls + 1, HostAddr)}]
      /\ \E ending \in SUBSET (IF timer THEN {} ELSE DOMAIN items) :
           StartOrFinish(items, unsched + Len(added), [gathering EXCEPT ![s] = TRUE], ending)

Others(s) == SelectSeq(list, LAMBDA item : item.stream # s)

\* Mutant: the timer of an emptied list is left running.
discovery_prune_stream_KeepsTimer(s, count) ==
  /\ list' = Others(s)
  /\ unsched' = IF Others(s) = <<>> THEN 0 ELSE count
  /\ UNCHANGED timer

\* The count of unscheduled items is left alone, unless the list became empty.
discovery_prune_stream(s, count) ==
  IF Others(s) = <<>> THEN discovery_free
  ELSE list' = Others(s) /\ unsched' = count /\ UNCHANGED timer

\* A host candidate could not be made, after n discoveries had been added: all
\* candidates, sockets and discoveries of the stream go.
GatherFails(s, n) ==
  /\ local' = [local EXCEPT ![s] = {}]
  /\ discovery_prune_stream(s, unsched + n)
  /\ UNCHANGED <<gathering, emitting>>

Alive(s) == \E k \in DOMAIN streams : streams[k] = s

\* Called by the application at any time, or by its handler.
xice_agent_gather_candidates(s) ==
  /\ Alive(s) /\ calls < MaxGathers
  /\ \/ \E down \in SUBSET MayBeDown(s) : GatherSucceeds(s, down)
     \/ \E n \in 0..Len(Servers[s]) : GatherFails(s, n)
  /\ calls' = calls + 1
  /\ UNCHANGED <<streams, refresh>>

refresh_prune_stream(s) == {r \in refresh : r.stream # s}

\* Also what stream_free does to the stream's candidates.
xice_agent_remove_stream(s) ==
  /\ Alive(s) /\ Unlocked
  /\ discovery_prune_stream(s, unsched)
  /\ refresh' = refresh_prune_stream(s)
  /\ streams' = SelectSeq(streams, LAMBDA other : other # s)
  /\ gathering' = [gathering EXCEPT ![s] = FALSE]
  /\ local' = [local EXCEPT ![s] = {}]
  /\ UNCHANGED <<calls, emitting>>

-----------------------------------------------------------------------------
(* Answers to discoveries.                                                 *)

\* Mutant: only candidates of the same type are redundant.
Redundant_SameType(candidates, c) == c \in candidates

\* priv_add_local_candidate_pruned.
Redundant(candidates, c) ==
  \E d \in candidates : d.socket = c.socket /\ d.addr = c.addr

WithPruned(candidates, c) ==
  IF Redundant(candidates, c) THEN candidates ELSE candidates \cup {c}

\* The server sent us elsewhere or wants other credentials: send anew with the
\* next tick.
SendAnew(i) ==
  /\ list' = [list EXCEPT ![i].pending = FALSE, ![i].answerable = FALSE]
  /\ UNCHANGED <<local, refresh>>

Finished(i) == list' = [list EXCEPT ![i].done = TRUE, ![i].answerable = FALSE]

BindSucceeds(i, mapped) ==
  LET s == list[i].stream
  IN  /\ Finished(i)
      /\ local' = [local EXCEPT ![s] =
            WithPruned(@, Candidate("SERVER_REFLEXIVE", list[i].socket, mapped))]
      /\ UNCHANGED refresh

DiscoveryFails(i) == Finished(i) /\ UNCHANGED <<local, refresh>>

\* The answer is malformed: its transaction is over, and the item waits until it
\* times out.
Ignored(i) ==
  list' = [list EXCEPT ![i].answerable = FALSE] /\ UNCHANGED <<local, refresh>>

\* What a server may answer; an address of its own choosing stands for another
\* server too.
Bindings ==
  {Success("BINDING", mapped, {}) : mapped \in Optional(Addrs \cup {HostAddr})} \cup
  {Error("BINDING", code, other, "none") : code \in {0, 300, 500}, other \in Optional(Addrs)}

priv_map_reply_to_discovery_request(i) ==
  /\ Unlocked /\ i \in DOMAIN list
  /\ list[i].type = "SERVER_REFLEXIVE" /\ list[i].answerable
  /\ \E m \in Bindings :
       LET res == stun_usage_bind_process(m)
       IN  \/ res = "ALTERNATE_SERVER" /\ SendAnew(i)
           \/ res = "SUCCESS" /\ \E mapped \in m.mapped : BindSucceeds(i, mapped)
           \/ res = "ERROR" /\ DiscoveryFails(i)
           \/ res = "INVALID" /\ Ignored(i)
  /\ UNCHANGED <<streams, gathering, unsched, timer, calls, emitting>>

\* timer: timer_source is armed; tick: tick_source is, a request waits, and may
\* be answered while its transaction is open; built (history): the last request
\* could be built.
NewRefresh(item, addr) ==
  [stream |-> item.stream, socket |-> item.socket, addr |-> addr,
   timer |-> TRUE, tick |-> FALSE, answerable |-> FALSE, built |-> TRUE]

\* priv_add_new_turn_refresh, unless the relayed candidate is redundant.
\* mapped are the reflexive addresses in the answer: none or one.
RelaySucceeds(i, mapped, addr) ==
  LET s == list[i].stream
      reflexive == {Candidate("SERVER_REFLEXIVE", list[i].socket, a) : a \in mapped}
      known == local[s] \cup {c \in reflexive : ~Redundant(local[s], c)}
      relayed == Candidate("RELAYED", list[i].socket, addr)
  IN  /\ Finished(i)
      /\ local' = [local EXCEPT ![s] = WithPruned(known, relayed)]
      /\ refresh' = IF Redundant(known, relayed) THEN refresh
                    ELSE refresh \cup {NewRefresh(list[i], addr)}

Allocations ==
  {Success("ALLOCATE", mapped, relayed) :
     mapped \in Optional(Addrs), relayed \in Optional(Addrs)} \cup
  {Error("ALLOCATE", code, other, realm) :
     code \in {0, 300, 401, 438}, other \in Optional(Addrs), realm \in Realms}

priv_map_reply_to_relay_request(i) ==
  /\ Unlocked /\ i \in DOMAIN list
  /\ list[i].type = "RELAYED" /\ list[i].answerable
  /\ \E m \in Allocations :
       LET res == stun_usage_turn_process(m)
       IN  \/ res = "ALTERNATE_SERVER" /\ SendAnew(i)
           \/ /\ res \in {"RELAY_SUCCESS", "MAPPED_SUCCESS"}
              /\ \E addr \in m.relayed : RelaySucceeds(i, m.mapped, addr)
           \/ res = "ERROR" /\ AsksForCredentials(m) /\ SendAnew(i)
           \/ res = "ERROR" /\ ~AsksForCredentials(m) /\ DiscoveryFails(i)
           \/ res = "INVALID" /\ Ignored(i)
  /\ UNCHANGED <<streams, gathering, unsched, timer, calls, emitting>>

-----------------------------------------------------------------------------
(* The refreshes of TURN allocations.                                      *)

Replaced(r, q) == refresh' = (refresh \ {r}) \cup {q}

refresh_cancel(r) == refresh' = refresh \ {r}

\* The request goes out and is watched by tick_source.  One that cannot be built
\* (buffer_len = 0) leaves the refresh in the list with neither timer.
priv_turn_allocate_refresh_tick_unlocked(r) ==
  \E built \in BOOLEAN :
    Replaced(r, [r EXCEPT !.timer = FALSE, !.tick = built, !.answerable = built,
                          !.built = built])

priv_turn_allocate_refresh_tick(r) ==
  /\ Unlocked /\ r \in refresh /\ r.timer
  /\ priv_turn_allocate_refresh_tick_unlocked(r)
  /\ UNCHANGED <<streams, gathering, list, unsched, timer, local, calls, emitting>>

\* Retransmissions change nothing here; the last one gives up.
priv_turn_allocate_refresh_retransmissions_tick(r) ==
  /\ Unlocked /\ r \in refresh /\ r.tick
  /\ refresh_cancel(r)
  /\ UNCHANGED <<streams, gathering, list, unsched, timer, local, calls, emitting>>

\* Mutant: the refresh after a successful one is not scheduled.
RefreshSucceeds_Once(r) == Replaced(r, [r EXCEPT !.tick = FALSE, !.answerable = FALSE])

RefreshSucceeds(r) ==
  Replaced(r, [r EXCEPT !.timer = TRUE, !.tick = FALSE, !.answerable = FALSE])

Refreshings ==
  {Success("REFRESH", {}, {})} \cup
  {Error("REFRESH", code, {}, realm) : code \in {0, 401, 437, 438}, realm \in Realms}

\* With other credentials, when asked for them, the request is sent anew at once;
\* after a malformed answer it waits for its time-out.
priv_map_reply_to_relay_refresh(r) ==
  /\ Unlocked /\ r \in refresh /\ r.tick /\ r.answerable
  /\ \E m \in Refreshings :
       LET res == stun_usage_turn_refresh_process(m)
       IN  \/ res = "RELAY_SUCCESS" /\ RefreshSucceeds(r)
           \/ res = "ERROR" /\ AsksForCredentials(m)
              /\ priv_turn_allocate_refresh_tick_unlocked(r)
           \/ res = "ERROR" /\ ~AsksForCredentials(m) /\ refresh_cancel(r)
           \/ res = "INVALID" /\ Replaced(r, [r EXCEPT !.answerable = FALSE])
  /\ UNCHANGED <<streams, gathering, list, unsched, timer, local, calls, emitting>>

-----------------------------------------------------------------------------
Next ==
  \/ \E ending \in SUBSET DOMAIN list : priv_discovery_tick(ending)
  \/ HandlerReturns
  \/ \E s \in Ids : xice_agent_gather_candidates(s) \/ xice_agent_remove_stream(s)
  \/ \E i \in DOMAIN list : \/ priv_map_reply_to_discovery_request(i)
                            \/ priv_map_reply_to_relay_request(i)
  \/ \E r \in refresh : \/ priv_turn_allocate_refresh_tick(r)
                        \/ priv_turn_allocate_refresh_retransmissions_tick(r)
                        \/ priv_map_reply_to_relay_refresh(r)

Spec == Init /\ [][Next]_vars

\* The context's loop fires a timer that runs, and StunTimer shows that a
\* request that is polled again and again times out in the end.
TimesOut(i) ==
  \E ending \in SUBSET DOMAIN list : /\ i \in ending
                                     /\ list[i].pending /\ ~list[i].done
                                     /\ priv_discovery_tick(ending)

Tick == \E ending \in SUBSET DOMAIN list : priv_discovery_tick(ending)

\* The longest the list can get.
MaxItems == MaxGathers * Max({Len(Servers[s]) : s \in Ids})

FairSpec == /\ Spec /\ WF_vars(Tick) /\ WF_vars(HandlerReturns)
            /\ \A i \in 1..MaxItems : WF_vars(TimesOut(i))

-----------------------------------------------------------------------------
(* Properties.                                                             *)

Sockets == 1..MaxGathers

Candidates ==
  [type : Types \cup {"HOST"}, socket : Sockets, addr : Addrs \cup {HostAddr}]

Items ==
  [stream : Ids, type : Types, socket : Sockets, pending : BOOLEAN,
   done : BOOLEAN, answerable : BOOLEAN, nested : BOOLEAN]

Refreshes ==
  [stream : Ids, socket : Sockets, addr : Addrs, timer : BOOLEAN, tick : BOOLEAN,
   answerable : BOOLEAN, built : BOOLEAN]

\* The types of the variables.
TypeOK ==
  /\ streams \in Seq(Ids)
  /\ gathering \in [Ids -> BOOLEAN]
  /\ list \in Seq(Items)
  /\ unsched \in Nat
  /\ timer \in BOOLEAN
  /\ local \in [Ids -> SUBSET Candidates]
  /\ refresh \in SUBSET Refreshes
  /\ calls \in 0..MaxGathers
  /\ emitting \in Seq([rest : Seq(Ids), tick : BOOLEAN])

\* discovery_schedule asserts that the list is not empty, and is called whenever
\* the counter of unscheduled items is not 0.  Items are pruned without counting
\* down, so what must hold is that the counter never outlives the list.
UnscheduledHasItems == unsched > 0 => list # <<>>

\* The timer runs exactly while the list holds items: a discovery that was put
\* there by a gathering that did not start the timer, or that is to be sent anew
\* to another server, is polled by somebody.  Only the items of a gathering that
\* was started from a handler can be left without, since the callback that emitted
\* the signal destroys the timer afterwards (discovery.c:1022).
ListIsPolled ==
  /\ timer => list # <<>>
  /\ ~timer => \A i \in DOMAIN list : list[i].nested

\* candidate-gathering-done comes after the stream's last discovery: a stream
\* that does not gather, or is gone, has none in the list.  (The items stand for
\* pointers to the stream and its sockets.)  A gathering started from a handler
\* is excepted: the walk that goes on may announce its end at once (agent.c:1146).
DoneMeansDone ==
  \A i \in DOMAIN list : /\ Alive(list[i].stream)
                         /\ gathering[list[i].stream] \/ list[i].nested

\* The lists have their types, and the counter, the timer and the streams agree
\* with them.
Consistent == TypeOK /\ UnscheduledHasItems /\ ListIsPolled /\ DoneMeansDone

\* A stream that announced the end of its gathering gets no further candidate
\* until it gathers again, however late the servers answer; but for a gathering
\* started from a handler.
NoLateCandidate ==
  [][\A s \in Ids :
       \/ local'[s] \subseteq local[s]
       \/ gathering[s]
       \/ calls' # calls
       \/ \E i \in DOMAIN list : list[i].stream = s /\ list[i].nested]_vars

\* No two candidates of a stream have base and address in common, whichever of
\* a STUN and a TURN server reported the address first.
NoRedundantCandidates ==
  \A s \in Ids : \A c, d \in local[s] :
    c # d => c.socket # d.socket \/ c.addr # d.addr

\* Nothing refreshes an allocation of a stream that was removed, and none is
\* forgotten over renewals, other credentials and malformed answers: one of its
\* two timers is armed, never both, unless its last request could not be built.
RefreshIsScheduled ==
  \A r \in refresh : /\ Alive(r.stream)
                     /\ ~(r.timer /\ r.tick)
                     /\ r.built => r.timer \/ r.tick

\* A server answers with another server or asks for other credentials.
SentElsewhere ==
  \E i \in DOMAIN list : /\ \/ priv_map_reply_to_discovery_request(i)
                            \/ priv_map_reply_to_relay_request(i)
                         /\ ~list'[i].pending

\* Once the servers no longer send the agent elsewhere the discovery timer stops:
\* each discovery is answered or times out, also those added, sent anew and pruned
\* in between.  (Nothing in the code limits how often a discovery is sent anew.)
DiscoveryEnds == <>[][~SentElsewhere]_vars => (timer ~> ~timer)
=============================================================================
