# A verification of libxice

libxice is an ICE agent (a fork of libnice 0.1.4): it gathers candidates,
checks connectivity, selects a pair of candidates for every component and
transports the application's data over it, optionally through a TURN relay and
optionally made reliable by a pseudo-TCP. This directory models the parts of it
that have state: TLA+ modules written from the C code, TLC configurations that
check them on small instances, and TLAPS proofs for the five modules whose
arguments hold for every value of the constants. `PROJECT.json` lists the runs,
the lines every definition was written from, the hazards of the code with the
properties that guard against them, and the theorems.

## The system

| Part | Source | State and operations | What makes it hard |
|---|---|---|---|
| STUN retransmission timer | `stun/usages/timer.c` | a deadline, a delay, a count; start, remainder, refresh | polled late; second and microsecond carries; the truncating division |
| STUN transactions | `stun/stunagent.c` | a table of sent ids and keys; finish, validate, forget | duplicated, late, unauthenticated answers; a full table |
| Candidate gathering | `agent/discovery.c`, `agent/agent.c` | discovery list, counter, timer, refresh list; gather, tick, answers, remove | two gatherings share list and timer; removal and failure in between |
| TURN allocation refresh | `agent/conncheck.c` | refresh list with two timers each | renewal, failure and removal race |
| Connectivity checks | `agent/conncheck.c`, `agent/agent.c` | check lists, nomination, selected pair, component states, role | requests before candidates; role switches; restart in the middle; who stops the timer |
| TURN client socket | `socket/turn.c` | channel bindings, permissions, queued data, timers | one ChannelBind at a time; expiry against renewal; refused or lost requests |
| Pseudo-TCP | `agent/pseudotcp.c`, `agent/agent.c` | two windows, send queue, reassembly list, timers; connect, send, recv, packet, clock | loss, duplication, reordering; both ends open at once; failing writes |
| Data path | `agent/agent.c`, `agent/component.c` | receive callbacks, the pseudo-TCP socket of a component and its clock; attach, read loop, errors | the lock is released around the callback, which may call the agent again |
| Keepalives | `agent/conncheck.c` | a timer, and a transaction per component | a new round, another pair or a removal while one is outstanding; a full STUN table; one flag for all received data |
| Negotiation | `agent/conncheck.c`, `agent/agent.c` | two agents, their descriptions and messages | role conflicts; checks that overtake the description; address translation; loss |
| TURN over TCP | `contexts/giotcp.c`, `socket/socks5.c`, `http.c`, `pseudossl.c`, `tcp-turn.c` | a write queue; a handshake with a queue of its own; frames | partial reads and writes; a full queue; data sent before the handshake ends |
| STUN codec and usages | `stun/stunmessage.c`, `stun/usages/{bind,ice,turn}.c` | a buffer that is built, signed, validated, searched | lengths that lie, padding, buffers too small, what the integrity covers |
| Digests, random numbers, addresses, event loops, tools | `stun/`, `random/`, `agent/address.c`, `contexts/` | none, or that of the platform | outside this project |

The parts meet in the agent. Almost every entry into it (a timer, a packet, a call
of the application) takes one global recursive lock (`agent_lock`), so each is one
atomic step; what interleaves are whole handlers. Two entries do not take the
lock: `socket_send_more` (`giotcp.c:368`), and TURN's `read_callback`
(`turn.c:320`). All models therefore assume that one thread runs the main loop
and that the application calls the agent from it; races of several threads are not
in them.

Gathering yields the local candidates the checks start from; the checks use a
STUN agent's table for their transactions and a STUN timer for each of them; a
selected pair makes the pseudo-TCP connect; a relayed candidate's socket is a
TURN socket, whose requests again use table and timer. The models follow these
seams: each takes what its neighbours do as nondeterminism (a poll finds that a
request waits or timed out; an answer comes or does not), and the neighbour's
model says what it may rely on (`Terminates` of StunTimer is the reason why a
polled request times out in the end).

## The modules

| Module | Models | Correspondence |
|---|---|---|
| `StunTimer` | `stun/usages/timer.c` | `timer` is the StunTimer, `now` what `stun_gettime` reads, in microseconds; `add_delay` and `stun_timer_remainder` are the C arithmetic; `started`, `initial` are history |
| `TransactionPool` | what the table of transactions promises | a set of pending ids; an id is used once and accepted at most once |
| `StunAgent` | `stun/stunagent.c` and its use by `agent/conncheck.c` | `sent_ids` is the table; `stun_agent_validate` goes through the code's tests in its order; a hash is the key it was made with |
| `CheckList` | the functions of `agent/conncheck.c` the handlers are made of | operators that take the agent and return it as the C function leaves it |
| `IceAgent` | the handlers of the checks: timer, requests, responses, the application's calls | each handler as the agent it leaves behind, on top of `CheckList` |
| `ConnCheck` | one agent of `IceAgent` in an arbitrary environment | one action per handler; `agent` is the XiceAgent, `left` how many events of each kind are still to come (negative: any number); `repriced` is history |
| `Sdp` | `xice_agent_generate_local_sdp`, `xice_agent_parse_remote_sdp` | a description is a sequence of lines; parsing applies each line to the agent in turn |
| `IceSession` | two agents of `IceAgent` and `Sdp`, signalling and a network | `agents[x]` are the two XiceAgents; `net` holds the messages; a request on the wire is the buffer of its pair |
| `StunMessage` | `stun/stunmessage.c`, `stun/utils.c`, and the signing and scanning of `stun/stunagent.c` | `head[p]` is the attribute header at offset p; one step per iteration of a loop over a message; the phase "astray" is a walk that read a header beyond the end |
| `StunUsages` | what `stun/usages/{ice,turn,bind}.c` append | the attributes in order, each with its length and whether a failure is noticed |
| `StunReplies` | how the usages read an answer | the return values; used by `IceAgent` and `Discovery` |
| `AgentIo` | the agent once pairs are selected: receive callbacks, pseudo-TCP sockets, keepalives | `comp[c]` is a component; `frames` the stack of callbacks that run with the lock released; `lost`, `heard`, `full` are history |
| `Discovery` | gathering, the discovery timer, server answers, refreshes, pruning | `list`, `unsched`, `timer`, `refresh` are the agent's fields of those names; `emitting` the calls that are in a handler of candidate-gathering-done; `nested`, `built` are history |
| `TurnSocket` | `socket/turn.c` in its DRAFT9 and RFC5766 modes | `priv` is the TurnPriv; operators return the set of states a call can lead to |
| `TcpSocket` | `contexts/giotcp.c` | operators on a record of the TcpPriv, its two sources and the bytes on the wire; a write returns one result for each answer of the kernel, an error among them; `lost` is history |
| `ProxySocket` | `socket/socks5.c`, `http.c`, `pseudossl.c` | operators on a record with the state, the queue and the receive buffer; a byte read is known by its message and position |
| `RelayStack` | `socket/tcp-turn.c` over the two, as `agent/agent.c` builds them | `tcp`, `proxy`, `turn` are the three sockets; proxy and server are external |
| `PseudoTcp` | two sockets of `agent/pseudotcp.c` and the network | `sock[e]` is the private data of an end; `net[e]` the packets on their way to it; the byte number n of a stream has the value n; a scenario gives the segment size, the data and the bounds; `overtaken`, `failed` are history |
| `StunTimerProofs`, `StunAgentProofs`, `StunMessageProofs`, `AgentIoProofs`, `TurnSocketLemmas`, `TurnSocketProofs` | the proofs | |
| `MC...` | the instances for TLC | |

Definitions have the names of the C functions where there is one. Definitions
whose comment begins with "Mutant" are not part of a specification: each is a
wrong version of the definition after it, which shows that the property named
in `PROJECT.json` notices the mistake.

Composition and abstraction: `IceSession` composes two agents of the same code
that `ConnCheck` puts into an arbitrary environment; `RelayStack`
composes `TcpSocket`, `ProxySocket` and the framing; `StunAgent` is
shown to implement `TransactionPool` (`ImplementsPool`, with the valid slots'
ids as the pending ones), both by a run and by a proof.

## The runs

| Run | Instance | Distinct states | Shows |
|---|---|---|---|
| `stun_timer` | timeouts 200 and 600 ms, 0, 1 and 3 retransmissions, starts on both sides of a full second, polls up to 300 ms late | 7,464 | the remainder is right to a millisecond, late polls do not shift the schedule, a transaction ends after `initial * (2^(n+1) - 1)` and not earlier, and always ends |
| `stun_agent` | 2 slots, 3 ids, 2 keys, answers of every kind | 96,919 (with symmetry) | no id twice in the table, no answer accepted twice or without the key of its request, no genuine answer made unmatchable by a false one; the pool is implemented |
| `stun_message` | every message of the usages, 16 modes, buffers of 20 to 160 bytes; received messages of up to 3 headers whose lengths lie, for readers that align and that do not | 252,081 | what is built stays in its buffer, is accepted by the peer, is found as it was written and checked over the range that was signed; no walk of a reader that aligns leaves the message, and one that does not only when 1 to 3 bytes are left over |
| `conncheck` | 2 streams of 1 component, 2 remote candidates for the first; seven starts: 2 requests and a role conflict; a request with restart and removal or with a forced pair; both offers with a restart and a forced pair or a removal; one stream alone, its candidate signalled anew around a role conflict; two local candidates and a role conflict | 256,901 | retransmission buffers, READY and FAILED components agree with the pairs, and no nominated pair beats the selected one, whatever the peer sends and the application calls in between |
| `conncheck_live` | 1 component, 1 retransmission; any number of role conflicts, and of responses with a new mapped address or of requests | 2,858 | once the peer leaves a controlling agent alone, the timer stops and the component ends READY or FAILED |
| `ice_session` | 2 agents, 1 component, any roles; a translated address that is known or not, two hosts, or one message lost; a TCP candidate in the description | 54,955 | the agents end READY in opposite roles on the two ends of one path; opposite roles stay; negotiation ends |
| `discovery` | 2 streams (STUN and TURN; TURN), 2 gatherings, also from a handler of gathering-done; any number of redirections and credential retries | 10,542 | see below |
| `turn_socket` | 2 IPv4 peers and an IPv6 peer that gets no channel, at most 2 bindings, at most 2 data queued for a peer, 1 for the IPv6 one | 266,120 (with symmetry) | bindings, renewals and queued data always have a request in flight |
| `relay_stack` | each of the four stacks; messages of 2 bytes, a queue of 2, 3 messages out and 2 in, reads of any size, any write failing | 396,758 | messages leave whole and in order but for one a write error cut, nothing waits for ever, uncut frames are read right over a direct connection |
| `pseudo_tcp` | receive buffer 3, send buffer 4; four scenarios, see below | 480,933 | the stream, the windows, the queue and the timers, see below |
| `agent_io` | 2 components, a STUN table of 3, 1 retransmission, 2 rounds of keepalives, 2 packets of data, 4 calls; a reliable agent, or one of Google's mode | 562,767 | no data is stranded, no timer outlives what it acts on, a component fails only for a cause |
| `doc_ready` | the session in which b's translated address is not signalled | violation | see "Where the code and its documentation disagree" |

In `discovery` and `conncheck` the streams differ, so that one is served
while the other fails; two gatherings are needed for one to find the list in
use. In `agent_io` the table of 3 fills up in the second round, when
requests of the first were replaced, and the 4 calls let a callback detach and
attach inside a callback. A reliable agent and Google's mode exclude each other
in the instance only to keep the run short; the properties hold with both as
well. In `ice_session` one message may be lost, which the single retransmission
can make up for.

In `pseudo_tcp` data goes one way, in one of four scenarios. One has 2 bytes and
one packet each way at a time, and no other bound: both ends may open, any write
may fail, a packet can be delivered again and again, be lost or displaced, and
timers run out at any time. Two have 4 bytes, more than the receive buffer holds,
and two packets each way, so that packets overtake each other, bytes wait for a
gap, and the window closes and is probed; in one of them two timers run out, in
the other one timer does and one packet arrives twice. The last has segments of 2
bytes out of 5, which are cut where the window ends or wait for more. Reordering
together with failing writes or with any number of repetitions is not covered.
`DupAckWrap` (5) stands for the 256 of the 8-bit `dup_acks`.

In `turn_socket` a constraint keeps channels from being bound to the IPv6 peer and
its queue at one datum, only to keep the run short: a ChannelBind does not depend on
the family, and the proofs have no such restriction.

Deadlock is not checked: in every model the budget, the stream of data or the
transactions come to an end, as they do in the program.

Fairness. `stun_timer`: the caller keeps polling and the clock goes on.
`conncheck_live`: the main loop fires the check timer while it is installed
(`agent_timeout_add_with_context`, and the callback returns TRUE), and a
transaction that is polled again and again comes due. `discovery`: the same of
the discovery timer, and a handler of candidate-gathering-done returns.
`ice_session` and `doc_ready`: the same of both agents' check timers; signalling
hands the descriptions over; and what the network does not lose it delivers.
Where TLC cannot evaluate ENABLED of such a step in reasonable time, weak fairness
is written out: the step is infinitely often impossible or infinitely often taken.

Premises. Nothing in the code limits how often a peer or a server can prolong the
work, so three liveness properties say so in their statement: `TimerStops` and
`Concludes` hold once the peer no longer sends requests nor reports role conflicts,
`DiscoveryEnds` once the servers no longer redirect nor ask for other credentials.

What else is assumed of the environment:

- transaction ids are never made twice (`StunAgent`, and `TurnSocket` matches an
  answer to its request);
- the table of transactions of a TURN socket, with 200 slots, never fills up;
- a TURN server refuses what RFC 5766 has it refuse (`ServerAccepts`);
- the events of `ConnCheck`, the calls of `AgentIo`, the gatherings of `Discovery`
  and the messages of `RelayStack` are bounded as the table of runs says;
- packets arrive only on sockets that have their IO context, and a stream is removed
  outside of the receive callbacks (`AgentIo`);
- a frame of Google's TURN over TCP never announces the length 0 (`RelayStack`).

### Where the code and its documentation disagree

One run shows a behaviour that contradicts a sentence of the repository.
`doc_ready` (`BothReady`): the controlled agent is behind an address translator
and learns its translated address from the very check that the other agent
nominates. The pair it then discovers does not take over the nomination
(`conncheck.c:1947`), against the step "updating the nominated flag" that the
code announces, so the agent stays CONNECTED for ever while its peer is READY.

More are in the models, and the properties are stated with the exceptions they
force:

- `docs/design.txt:133` says that the selected pair is the "highest priority
  nominated pair". A role switch recalculates the priorities of the pairs but not
  that of the selected one, and takes over the priorities of candidates that were
  signalled anew; a restart keeps the selected pair and its priority
  (`conncheck.c:1073`), so that the component is READY on a pair of the old session.
  `SelectedIsBest` therefore compares with the priority the selected pair had when
  it was selected, without the bit that names the role, and excepts pairs that were
  repriced.
- Nominated pairs are counted per stream (`conncheck.c:346`); two of one
  component hide that the other has none, and the timer stops before it is
  nominated, against the comment above it. `Concludes` is therefore checked with
  one component.
- A handler of candidate-gathering-done that starts a gathering starts a timer that
  the emitting callback then destroys (`discovery.c:1018`), and the walk over the
  streams announces the end of the gathering that has just begun (`agent.c:1146`).
  `Consistent` and `NoLateCandidate` of `Discovery` except the discoveries of such a
  gathering.
- A refresh request that cannot be built leaves the allocation listed without a
  timer (`conncheck.c:783`). `RefreshIsScheduled` excepts it.
- The comment at `stunmessage.c:579` says that the padding check leaves at least 4
  bytes for a header. A reader with `STUN_AGENT_USAGE_NO_ALIGNED_ATTRIBUTES` makes no
  such check, and goes on behind a message that has 1 to 3 bytes left over.
  `WalkInside` says that nothing else leads out of a message.
- The permission tick is scheduled before the new CreatePermission is in the
  list it is scheduled for (`turn.c:1417`), so a lost request is neither repeated
  nor timed out and its data waits for ever; the comment at 1229 assumes that it
  is sent then. For an IPv6 peer the request cannot be built
  (`usages/turn.c:234`), but the peer is noted as asked for (`turn.c:1387`), and its
  data waits for ever. `PermissionsServed` says what the data waits for, not that it
  leaves, and excepts IPv6 peers from having a request.
- A write error gives up a message that may be sent in part, and the next message
  follows in the middle of it (`giotcp.c:396`). `SentWhole` excepts messages that were
  given up so.
- Both ends of a pseudo-TCP connect when their pair is selected. If one CONNECT
  is lost, its sender is established by the other's and sends data, which is
  stored one byte beyond where it belongs: the CONNECT that then arrives advances
  `rcv_nxt` without moving it (`pseudotcp.c:1121`), and the application reads a
  byte that nobody wrote. `pseudotcp.h:48` promises a reliable transport.
  `Reassembly` excepts an end whose data overtook the CONNECT.

The following were met while modelling. The models contain them where the
"hazards" of `PROJECT.json` say so; no run is about them.

- `conncheck.c`: the check list is not sorted by priority (1223, against the
  comments at 89 and 354); limiting the list drops as many pairs as exceed it
  from a count that is taken while dropping (1036); pruning one stream's checks
  frees all lists (1405); a triggered check after the timer stopped starts none
  (1811); CONNECTED without a valid pair (1267); early requests are used for the
  first pair only (1017); cancelled and freed checks keep their slot in the
  transaction table (1353, 1729, against `stunagent.h:457`), and so do replaced
  keepalives; with the table full, a keepalive of one component resets the flag
  for received data while the old request of another runs on, which then fails
  although data came (the exception `full` of `FailsForCause`).
- `agent.c`: a receive callback that removes its stream leaves the read loop with
  freed pointers (987); detaching frees the contexts that the sockets' callbacks
  point at (2410).
- `discovery.c`, `agent.c`: gathering-done is not signalled when pruning empties
  the list (127, against `agent.h:420`); a failed gathering leaves refreshes of
  the sockets it frees (1660); a lifetime under 60 s wraps (`conncheck.c:2292`).
- `turn.c`: a timed-out ChannelBind destroys the timer of the next (1267); the
  search for a free channel goes on from the second binding (1526); permission
  ticks are overwritten while they run (1329); seconds are given to a timer in
  milliseconds (57); `read_callback` returns `parse_recv(...) < 0` (340), which is
  FALSE after a packet was read, and so removes the source it was called from over
  `gioudp.c:104` (the other base sockets ignore the value). The models keep the
  source.
- TURN over TCP: a frame cut by a read is not put together again
  (`tcp-turn.c:172`, and `padlen` is not initialized then); in Google's mode the
  length does not count the header, so every frame is short by it (157); bytes of
  a SOCKS5 reply are read as data (`socks5.c:320`); the read that ends an HTTP
  handshake removes the read source (`http.c:353`); a pseudo-SSL handshake read
  in two pieces is an error (`pseudossl.c:172`); a Google frame of length 0 is
  read again and again without an end (`tcp-turn.c`; not in the model); the length -1 of a closed
  connection becomes a large unsigned number (`giotcp.c:110`), and -1 is returned
  as success (302). The reading half therefore works only over a direct
  connection whose reads end between frames or within a header, which is what
  `FramesRead` is stated for.
- `pseudotcp.c`: a write that fails with nothing in flight is not repeated
  (1337); the Nagle return skips a demanded ack (1313); `dup_acks` wraps after 255, which
  ends a recovery early (in the model); sequence numbers do not wrap (940).
- `stunagent.c`: with long-term credentials and no realm in the message, the
  integrity is not written and an uninitialized key is saved with the id (551-559;
  not in the model, where a long-term request has its realm).

## The properties

Every module has one type invariant. In the larger ones it is checked
together with the agreement it depends on, as `Consistent`: the retransmission
buffer of a pair and its state (`BufferOnlyInProgress`), the counter of
unscheduled discoveries and their list (`UnscheduledHasItems`), a binding being
made and the request in flight (`BindingInFlight`), the retransmission timer and
the send queue (`TimerHasSegment`).

`StunMessage`: `WithinBuffer` (the append checks the room without the padding it
writes, and stays inside all the same), `WalkInside` (whatever the lengths say, a
walk reads headers inside the message, with the exception above), `BuiltIsAccepted` (the
integrity is checked over what was signed, although FINGERPRINT came after it),
`FoundIsWritten` (search and scan against a reference that knows what was
appended; class and method share the bits of one word).

`ConnCheck`: `StateFitsPairs`: a READY component has a selected pair, a FAILED one
has no valid pair. `SelectedIsBest`: no nominated valid pair has a higher priority
than the selected one had, with the exceptions above. `TimerStops` and `Concludes`:
a controlling agent comes to an end once its peer leaves it alone. A triggered check
that is started after the timer stopped is outside of both.

`IceSession`: `Agree`: when nothing is under way both agents are READY in opposite
roles, and each sends to the address under which it sees the socket the other
selected. `RolesSettle`: a stale request or a stale 487 answer never undoes
opposite roles. `Connects`: with nothing lost and known addresses the negotiation
ends, so that `Agree` is not empty.

`Discovery`: `UnscheduledHasItems` is the assertion of `discovery_schedule`.
`ListIsPolled`, `DoneMeansDone` (parts of `Consistent`) and `NoLateCandidate` tie
list, timer and signal together: a discovery is polled, gathering-done comes
after the last one, and no candidate comes after it. `NoRedundantCandidates`
holds in either order of a STUN and a TURN answer. `RefreshIsScheduled`: an
allocation has exactly one of its timers armed, unless its request could not be
built, and its stream exists. `DiscoveryEnds`: the timer stops once the servers send
the agent nowhere else.

`TurnSocket`: `BindingsServed`: nothing that is to be bound or renewed is left
without a ChannelBind in flight, whose end starts the next one.
`PermissionsServed`: one request per IPv4 peer that is asked for, none else, and data
queued only for a peer that is asked for.

`RelayStack`: `SentWhole`: the bytes on the wire are whole messages in the order
they were sent, handshake first, whatever the kernel takes and the full queue
drops, and only a write error cuts one short. `Consistent` includes that a full queue always has a message to drop
(`QueueBounded`) and that what waits is waited for (`NothingStuck`).
`FramesRead`: several frames in a read, and headers in several reads, are read
right.

`PseudoTcp`: `Reassembly`: readable bytes are the bytes written, and bytes that
wait for a gap lie where they will be read, with the exception named above.
`WindowHonoured`: no end has more in flight than the other has room for, although
old packets may announce old windows. `SegmentsCoverBuffer`: what will be retransmitted is what
was to be sent. `Progresses`: accepted bytes have a timer, except after a failed
write (`NothingStalls`), and no reader or writer misses its wake-up
(`NoLostWakeup`). `Consistent` includes an assertion of
`pseudo_tcp_socket_notify_clock` (`TimerHasSegment`) and that the answering end
gets established (`HandshakeEnds`).

`AgentIo`: `NothingStranded`: with a receive function attached and no callback of
the component running, its socket is read empty and will announce the next data,
however the application detached and attached inside its callbacks.
`TimersFollowSockets`: the clock of a socket lives as long as the socket, a
component of a reliable agent without one is FAILED, and a retransmission timer
has its message. `KeepalivesRemembered`: which keepalives have a place in the
STUN agent. `FailsForCause`: no call and no callback fails a component, and a
keepalive does so only in silence.

Those of `StunTimer` and `StunAgent` are in the table of runs.

## The proofs

`StunTimerProofs`, from the assumption that timeouts, retries, origins and steps
are natural numbers (timeouts and steps positive): the type, the accuracy of the
remainder (`Consistent`), the absence of drift and the earliest time-out
(`OnSchedule`). Three lemmas give the arithmetic of `add_delay`, `stun_gettime`
and `stun_timer_remainder`. The invariant is the conjunction
`TypeOK /\ NoDrift /\ NotEarly`: that a time-out is not early follows only from
where the deadline lies, and that is `NoDrift`.

`StunAgentProofs`, for every number of slots, set of messages and combination of
usage flags, from the assumptions that the "none" values are none and that the
validater knows a password for each user: `Consistent`, `Authenticated`,
`StillMatchable`, and that the table implements
`TransactionPool`. The properties are not inductive alone: the invariant adds
that a valid slot's id was used and is not yet accepted, and that the slot has
the key its request was sent with (`SlotsFaithful`, `HistoryFaithful`). Lemmas
say what saving, releasing and forgetting do to the pending set, and each kind
of step preserves the invariant by a lemma of its own. That ids are never made
twice is an assumption in the model (`stun_make_transid` is random).

`StunMessageProofs`, for every mode, every sequence of attributes, every received
message, read with or without alignment, and every buffer whose length is a multiple
of four: `WithinBuffer`,
`WalkInside`, and that a message the library built is never rejected by its own
validation. The invariant adds that the headers written so far form a chain from
the start of the message to its end (`chain`), each header where the one before
it ends; the padding fits because both the room and the length are multiples of
four when the mode aligns.

`AgentIoProofs`, for any number of components, any bounds and any size of the STUN
table: the four properties of `AgentIo`. The invariant `IInv` adds to them what a
component keeps by itself (`Sound`: nothing is readable before the handshake is
over, what is stuck in a socket is marked readable, a keepalive is armed only on
a selected pair), what the stack of callbacks guarantees (`Frames`: a socket that
is stuck while its data is wanted has a callback running, and a running callback
never belongs to a socket that is not connected; this is why the read loop cannot
run into an error after an attach), and that the agent's single flag stands for
every component that was heard (`Heard`). One lemma gives what a round of
keepalives does to all components at once (`RoundFacts`), one what entering and
leaving callbacks does to the stack (`PushFacts`, `PopFacts`), and each action has
a lemma of its own. `FailsForCause`, an action property, follows from the same
steps.

`TurnSocketProofs`, for any set of peers and any bounds, from the assumption that
"none" is no peer, binding or message, and with any of the peers IPv6 ones: the three properties of `TurnSocket`. The
invariant (in `TurnSocketLemmas`) is stated of a state in the middle of a call as
well, because `priv_send_create_permission` sets the timers, which can end other
requests and start bindings, before its own request is on the list: `PermInv`
carries the peers that are asked for without one, and that nothing empties their
queues meanwhile. `BindInv` adds that a request in flight without a binding being
made renews a binding of the list, with its number; that the bindings of a peer
agree on the channel, without which a binding that expires during a renewal could
become the binding being made under a number that was not asked for (this rests on
`ServerAccepts`, what RFC 5766 has a server refuse); and how many bindings there
are, from which a pigeonhole argument bounds the numbers `NewChannel` finds. Each
operator of the model and each action has a lemma of its own.

Only model-checked: everything about the check lists, the session, discovery,
TURN over TCP and the pseudo-TCP; `FoundIsWritten` and the signed
range of `BuiltIsAccepted` (what a walk over a message finds, by induction over
it); `TotalTimeout` (a power of two, by induction); and liveness, which is out of
the prover's reach.

## What is not modelled

Compatibility modes other than RFC 5245 (checks) and DRAFT9 and RFC5766 (TURN),
except for the keepalives and the codec; several local addresses per component in
gathering; the libuv sockets; how usernames are built; the values of STUN
attributes and messages of 64 KiB; values of round-trip times and congestion
windows (any value of a set at any time); segments made smaller by the MTU;
closing a pseudo-TCP socket; several threads; a full transaction table of a TURN
socket, and with it the FALSE results of `priv_send_channel_bind`; the return value
of TURN's `read_callback`; long-term requests without a realm in
`StunAgent`. The parts of the first table's last row have no
module; `PROJECT.json` gives the reason for each.

`AgentIo` assumes that packets arrive only on sockets that have their IO context and
that a stream is removed outside of the receive callbacks. What the code does otherwise
is undefined (it uses freed memory), and nothing of interest could be stated
about it. `PseudoTcp` models a socket from the inside and `AgentIo` from the
outside; the two are not composed, since their product is beyond TLC.

## What is next

1. Proofs: the lists and timers of `Discovery` (`ListIsPolled`,
   `UnscheduledHasItems`, `RefreshIsScheduled`); `WindowHonoured` of `PseudoTcp`;
   `BufferOnlyInProgress` of `ConnCheck`; `QueueBounded` and `SentWhole` of the TCP
   socket alone.
2. Google's and Microsoft's modes of the TURN socket.
3. A session of two components per stream.
