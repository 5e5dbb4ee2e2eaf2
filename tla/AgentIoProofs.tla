---------------------------- MODULE AgentIoProofs ----------------------------
(***************************************************************************)
(* Proofs about AgentIo for any number of components, any bounds and any   *)
(* room in the STUN agent.                                                 *)
(***************************************************************************)
EXTENDS AgentIo, TLAPS

\* A connected socket that holds data or will not announce the next.
Stuck(k) == k.tcp = "ESTABLISHED" /\ ~(k.rx = 0 /\ k.bReadEnable)

\* What each component keeps by itself.
Sound(k) ==
  /\ k \in ComponentType
  /\ k.tcp_clock <=> k.tcp # "none"
  /\ mode.reliable /\ k.tcp = "none" => k.state \in {"FAILED", "REMOVED"}
  /\ k.tcp # "none" => mode.reliable
  /\ k.tick => k.selected /\ k.buffer /\ mode.google
  /\ k.tcp = "LISTEN" => k.rx = 0 /\ k.bReadEnable /\ ~k.tcp_readable
  /\ Stuck(k) => k.tcp_readable

\* A socket that is read, and one that is stuck although somebody wants its
\* data, has a callback running.
Frames ==
  /\ \A i \in DOMAIN frames : frames[i].tcp = mode.reliable
  /\ \A c \in Components : Running(c) => comp[c].tcp # "LISTEN"
  /\ \A c \in Components : Stuck(comp[c]) /\ comp[c].cb => Running(c)

\* The flag of the whole agent stands for each component that was heard.
Heard == \A c \in Components : ~full /\ comp[c].tick /\ c \in heard => media

IInv ==
  /\ TypeOK
  /\ \A c \in Components : Sound(comp[c])
  /\ Frames
  /\ KeepalivesRemembered
  /\ Heard
-----------------------------------------------------------------------------
(* The component operators.                                                 *)

USE ConstantsAssumption

(* Destroying a pseudo-TCP socket fails its component and leaves no clock.  *)
LEMMA ErrorFacts ==
  ASSUME NEW k, Sound(k), k.tcp # "none"
  PROVE  /\ Sound(priv_pseudo_tcp_error(k))
         /\ priv_pseudo_tcp_error(k).tcp = "none"
         /\ priv_pseudo_tcp_error(k).id = k.id
         /\ priv_pseudo_tcp_error(k).tick = k.tick
BY DEF Sound, Stuck, ComponentType, priv_pseudo_tcp_error, priv_destroy_component_tcp,
       priv_detach_stream_component, agent_signal_component_state_change

(* The connectivity checks cannot revive a component without its socket.    *)
LEMMA StateChangeFacts ==
  ASSUME NEW k, Sound(k), NEW s \in {"READY", "FAILED"}
  PROVE  LET n == agent_signal_component_state_change(k, s)
         IN  /\ Sound(n)
             /\ n = [k EXCEPT !.state = n.state]
             /\ s = "READY" => n.state \in {k.state, "READY"}
BY DEF Sound, Stuck, ComponentType, agent_signal_component_state_change

(* The clock of a socket that exists is armed already.                      *)
LEMMA ClockFacts ==
  ASSUME NEW k, Sound(k)
  PROVE  adjust_tcp_clock(k) = k
BY DEF Sound, ComponentType, adjust_tcp_clock

(* A turn of the read loop on a connected socket keeps the component sound  *)
(* and connected; if it ends without a callback although there is a         *)
(* receive function, everything was read.                                   *)
LEMMA ReadLoopFacts ==
  ASSUME NEW k \in ComponentType, k.tcp = "ESTABLISHED", mode.reliable,
         k.tcp_readable \/ ~Stuck(k), k.tcp_clock,
         k.tick => k.selected /\ k.buffer /\ mode.google
  PROVE  LET r == ReadLoop(k)
         IN  /\ Sound(r.k) /\ r.calls \in BOOLEAN
             /\ r.k.tcp = "ESTABLISHED" /\ r.k.state = k.state /\ r.k.cb = k.cb
             /\ r.k.tick = k.tick /\ r.k.id = k.id
             /\ Stuck(r.k) /\ r.k.cb => r.calls
<1>1. CASE ~k.cb
  <2>1. ReadLoop(k) = [k |-> adjust_tcp_clock(k), calls |-> FALSE]
    BY <1>1 DEF ReadLoop
  <2>2. Sound(k)
    BY DEF Sound, Stuck
  <2>3. adjust_tcp_clock(k) = k
    BY <2>2, ClockFacts
  <2> QED BY <1>1, <2>1, <2>2, <2>3
<1>2. CASE k.cb /\ k.rx > 0
  <2> DEFINE n == [k EXCEPT !.rx = 0]
  <2>1. ReadLoop(k) = [k |-> n, calls |-> TRUE]
    BY <1>2 DEF ReadLoop
  <2>2. Stuck(k)
    BY <1>2 DEF Stuck
  <2>3. Sound(n) /\ n.tcp = k.tcp /\ n.state = k.state /\ n.cb = k.cb
        /\ n.tick = k.tick /\ n.id = k.id
    BY <2>2 DEF Sound, Stuck, ComponentType
  <2> HIDE DEF n
  <2> QED BY <2>1, <2>3
<1>3. CASE k.cb /\ ~(k.rx > 0)
  <2> DEFINE n == [k EXCEPT !.tcp_readable = FALSE, !.bReadEnable = TRUE]
  <2>1. ReadLoop(k) = [k |-> adjust_tcp_clock(n), calls |-> FALSE]
    BY <1>3 DEF ReadLoop
  <2>2. k.rx = 0
    BY <1>3 DEF ComponentType
  <2>3. Sound(n) /\ ~Stuck(n) /\ n.tcp = k.tcp /\ n.state = k.state /\ n.cb = k.cb
        /\ n.tick = k.tick /\ n.id = k.id
    BY <2>2 DEF Sound, Stuck, ComponentType
  <2> HIDE DEF n
  <2>4. adjust_tcp_clock(n) = n
    BY <2>3, ClockFacts
  <2> QED BY <2>1, <2>3, <2>4
<1> QED BY <1>1, <1>2, <1>3 DEF ComponentType
-----------------------------------------------------------------------------
(* The stack of callbacks.                                                  *)

FrameType == [c : Components, tcp : BOOLEAN]

(* A callback entered is running, and those below it are still.             *)
LEMMA PushFacts ==
  ASSUME NEW s \in Seq(FrameType), NEW f \in FrameType
  PROVE  LET t == <<f>> \o s
         IN  /\ t \in Seq(FrameType)
             /\ \A i \in DOMAIN s : i + 1 \in DOMAIN t /\ t[i + 1] = s[i]
             /\ \A j \in DOMAIN t : t[j] = f \/ \E i \in DOMAIN s : t[j] = s[i]
             /\ 1 \in DOMAIN t /\ t[1] = f
<1> DEFINE t == <<f>> \o s
<1>1. t \in Seq(FrameType) /\ Len(t) = Len(s) + 1 /\ Len(s) \in Nat
  OBVIOUS
<1>2. \A j \in 1 .. Len(t) : t[j] = IF j = 1 THEN f ELSE s[j - 1]
  OBVIOUS
<1>3. DOMAIN t = 1 .. Len(t) /\ DOMAIN s = 1 .. Len(s)
  OBVIOUS
<1> HIDE DEF t
<1>4. \A i \in DOMAIN s : i + 1 \in DOMAIN t /\ t[i + 1] = s[i]
  BY <1>1, <1>2, <1>3
<1>5. ASSUME NEW j \in DOMAIN t
      PROVE  t[j] = f \/ \E i \in DOMAIN s : t[j] = s[i]
  <2>1. CASE j = 1
    BY <1>2, <1>3, <2>1
  <2>2. CASE j # 1
    <3>1. j - 1 \in DOMAIN s /\ t[j] = s[j - 1]
      BY <1>1, <1>2, <1>3, <2>2
    <3> QED BY <3>1
  <2> QED BY <2>1, <2>2
<1>6. 1 \in DOMAIN t /\ t[1] = f
  BY <1>1, <1>2, <1>3
<1> QED BY <1>1, <1>4, <1>5, <1>6 DEF t

(* When the topmost callback returns the others are still running.          *)
LEMMA PopFacts ==
  ASSUME NEW s \in Seq(FrameType), s # <<>>
  PROVE  /\ Tail(s) \in Seq(FrameType) /\ Head(s) \in FrameType
         /\ 1 \in DOMAIN s /\ Head(s) = s[1]
         /\ \A j \in DOMAIN Tail(s) : j + 1 \in DOMAIN s /\ Tail(s)[j] = s[j + 1]
         /\ \A i \in DOMAIN s : s[i] = Head(s) \/ \E j \in DOMAIN Tail(s) : s[i] = Tail(s)[j]
<1>1. /\ Tail(s) \in Seq(FrameType) /\ Len(Tail(s)) = Len(s) - 1 /\ Len(s) \in Nat \ {0}
      /\ Head(s) = s[1] /\ \A j \in 1 .. Len(Tail(s)) : Tail(s)[j] = s[j + 1]
      /\ DOMAIN s = 1 .. Len(s) /\ DOMAIN Tail(s) = 1 .. Len(Tail(s))
  OBVIOUS
<1> DEFINE t == Tail(s)
<1>2. Head(s) \in FrameType
  OBVIOUS
<1> HIDE DEF t
<1>3. ASSUME NEW i \in DOMAIN s
      PROVE  s[i] = Head(s) \/ \E j \in DOMAIN t : s[i] = t[j]
  <2>1. CASE i = 1
    BY <1>1, <2>1
  <2>2. CASE i # 1
    <3>1. i - 1 \in DOMAIN t /\ t[i - 1] = s[i]
      BY <1>1, <2>2 DEF t
    <3> QED BY <3>1
  <2> QED BY <2>1, <2>2
<1> QED BY <1>1, <1>2, <1>3 DEF t

(* A step that turns component c into a sound component and may enter its   *)
(* callback keeps all that the components and the stack promise, if it      *)
(* leaves nothing stuck without a callback.                                 *)
LEMMA BecameKeeps ==
  ASSUME TypeOK, \A d \in Components : Sound(comp[d]), Frames, mode' = mode,
         NEW c \in Components, NEW r, Sound(r.k), r.calls \in BOOLEAN, Became(c, r),
         Running(c) \/ r.calls => r.k.tcp # "LISTEN",
         Stuck(r.k) /\ r.k.cb => Running(c) \/ r.calls
  PROVE  /\ comp' \in [Components -> ComponentType]
         /\ frames' \in Seq(FrameType)
         /\ \A d \in Components : Sound(comp[d])'
         /\ Frames'
         /\ comp'[c] = r.k /\ \A d \in Components \ {c} : comp'[d] = comp[d]
<1>1. /\ comp' \in [Components -> ComponentType] /\ comp'[c] = r.k
      /\ \A d \in Components \ {c} : comp'[d] = comp[d]
  BY DEF Became, TypeOK, Sound
<1>2. \A d \in Components : Sound(comp[d])'
  <2> TAKE d \in Components
  <2>1. CASE d = c
    BY <1>1, <2>1 DEF Sound, Stuck
  <2>2. CASE d # c
    BY <1>1, <2>2 DEF Sound, Stuck
  <2> QED BY <2>1, <2>2
<1>3. frames \in Seq(FrameType) /\ mode.reliable \in BOOLEAN
  BY DEF TypeOK, FrameType
<1>4. CASE r.calls
  <2> DEFINE f == Frame(c)
             t == <<f>> \o frames
  <2>1. f \in FrameType /\ f.c = c /\ f.tcp = mode.reliable
    BY <1>3 DEF Frame, FrameType
  <2>2. frames' = t
    BY <1>4 DEF Became
  <2> HIDE DEF f
  <2>3. /\ t \in Seq(FrameType)
        /\ \A i \in DOMAIN frames : i + 1 \in DOMAIN t /\ t[i + 1] = frames[i]
        /\ \A j \in DOMAIN t : t[j] = f \/ \E i \in DOMAIN frames : t[j] = frames[i]
        /\ 1 \in DOMAIN t /\ t[1] = f
    BY <1>3, <2>1, PushFacts
  <2> HIDE DEF t
  <2>4. \A d \in Components : Running(d)' <=> Running(d) \/ d = c
    BY <2>1, <2>2, <2>3 DEF Running
  <2>5. \A j \in DOMAIN frames' : frames'[j].tcp = mode'.reliable
    BY <2>1, <2>2, <2>3 DEF Frames
  <2> QED BY <1>1, <1>2, <1>4, <2>2, <2>3, <2>4, <2>5 DEF Frames, Stuck
<1>5. CASE ~r.calls
  <2>1. frames' = frames
    BY <1>5 DEF Became
  <2>2. \A d \in Components : Running(d)' <=> Running(d)
    BY <2>1 DEF Running
  <2> QED BY <1>1, <1>2, <1>3, <1>5, <2>1, <2>2 DEF Frames, Stuck
<1> QED BY <1>4, <1>5-----------------------------------------------------------------------------
(* Keepalives.                                                              *)

\* What FailsForCause asks a cause for.
Fails(c) ==
  \/ comp[c].state # "FAILED" /\ comp'[c].state = "FAILED"
  \/ comp[c].tcp # "none" /\ comp'[c].tcp = "none"

(* The requests that are outstanding, one by one.                           *)
LEMMA OutstandingFacts ==
  ASSUME NEW c, NEW i
  PROVE  /\ <<c, i>> \in Outstanding <=> c \in Components /\ comp[c].tick /\ i = comp[c].id
         /\ (<<c, i>> \in Outstanding)' <=> c \in Components /\ comp'[c].tick /\ i = comp'[c].id
BY DEF Outstanding, Armed

(* A step that sends no request and ends none keeps the account of them; a  *)
(* packet that is received raises the flag of the agent.                    *)
LEMMA SameRequests ==
  ASSUME KeepalivesRemembered, Heard,
         \A d \in Components : comp'[d].tick = comp[d].tick /\ comp'[d].id = comp[d].id,
         slots' = slots, lost' = lost, full' = full,
         media' = TRUE \/ (media' = media /\ heard' = heard)
  PROVE  KeepalivesRemembered' /\ Heard'
<1>1. Outstanding' = Outstanding
  BY DEF Outstanding, Armed
<1>2. KeepalivesRemembered'
  BY <1>1 DEF KeepalivesRemembered
<1>3. Heard'
  BY DEF Heard
<1> QED BY <1>2, <1>3

(* A new request, sent or without room, is on a component with its message. *)
LEMMA RequestFacts ==
  ASSUME NEW k \in ComponentType, Sound(k)
  PROVE  /\ LET n == [k EXCEPT !.id = @ + 1, !.buffer = TRUE]
            IN  /\ n \in ComponentType /\ Sound(n) /\ n.tcp = k.tcp /\ n.state = k.state
                /\ n.cb = k.cb /\ n.rx = k.rx /\ n.bReadEnable = k.bReadEnable
                /\ n.tick = k.tick
         /\ LET n == [k EXCEPT !.id = @ + 1, !.buffer = TRUE, !.tick = TRUE, !.sends = 0]
            IN  mode.google /\ k.selected =>
                /\ n \in ComponentType /\ Sound(n) /\ n.tcp = k.tcp /\ n.state = k.state
                /\ n.cb = k.cb /\ n.rx = k.rx /\ n.bReadEnable = k.bReadEnable
                /\ n.tick /\ n.id = k.id + 1
<1>1. k.id + 1 \in Nat /\ 0 \in 0 .. MaxRetransmits
  BY DEF ComponentType, ConstantsAssumption
<1> DEFINE i == k.id + 1
<1> HIDE DEF i
<1>2. LET n == [k EXCEPT !.id = i, !.buffer = TRUE]
      IN  /\ n \in ComponentType /\ Sound(n) /\ n.tcp = k.tcp /\ n.state = k.state
          /\ n.cb = k.cb /\ n.rx = k.rx /\ n.bReadEnable = k.bReadEnable
          /\ n.tick = k.tick
  BY <1>1 DEF i, Sound, Stuck, ComponentType
<1>3. ASSUME mode.google, k.selected
      PROVE  LET n == [k EXCEPT !.id = i, !.buffer = TRUE, !.tick = TRUE, !.sends = 0]
             IN  /\ n \in ComponentType /\ Sound(n) /\ n.tcp = k.tcp /\ n.state = k.state
                 /\ n.cb = k.cb /\ n.rx = k.rx /\ n.bReadEnable = k.bReadEnable
                 /\ n.tick /\ n.id = i
  BY <1>1, <1>3 DEF i, Sound, Stuck, ComponentType
<1> QED BY <1>2, <1>3 DEF i

\* What a round r makes of components ks.
RoundGood(ks, r) ==
  /\ r.comp \in [Components -> ComponentType]
  /\ r.sent \subseteq {c \in Components : mode.google /\ ks[c].selected}
  /\ r.new = {<<c, ks[c].id + 1>> : c \in r.sent}
  /\ r.ended = {<<c, ks[c].id>> : c \in {d \in Components : mode.google /\ ks[d].selected /\ ks[d].tick}}
  /\ r.ok \in BOOLEAN
  /\ r.ok <=> r.sent = {c \in Components : mode.google /\ ks[c].selected}
  /\ \A c \in Components :
       /\ Sound(r.comp[c])
       /\ r.comp[c].tcp = ks[c].tcp /\ r.comp[c].state = ks[c].state
       /\ r.comp[c].cb = ks[c].cb /\ r.comp[c].rx = ks[c].rx
       /\ r.comp[c].bReadEnable = ks[c].bReadEnable
       /\ c \in r.sent => r.comp[c].tick /\ r.comp[c].id = ks[c].id + 1
       /\ c \notin r.sent => r.comp[c].tick = ks[c].tick
       /\ ~(mode.google /\ ks[c].selected) => r.comp[c].id = ks[c].id

(* A round of keepalives changes only the request of a component.           *)
LEMMA RoundFacts ==
  ASSUME NEW ks \in [Components -> ComponentType], NEW used,
         \A c \in Components : Sound(ks[c])
  PROVE  RoundGood(ks, Round(ks, used))
<1> DEFINE due  == {c \in Components : mode.google /\ ks[c].selected}
           sent == {c \in due : Cardinality({d \in due : d < c}) < MaxIds - Cardinality(used)}
           Next1(c) == [ks[c] EXCEPT !.id = @ + 1, !.buffer = TRUE]
           R(c) == CASE c \in sent       -> [Next1(c) EXCEPT !.tick = TRUE, !.sends = 0]
                     [] c \in due \ sent -> Next1(c)
                     [] OTHER            -> ks[c]
           r == Round(ks, used)
<1>1. /\ r.comp = [c \in Components |-> R(c)] /\ r.sent = sent
      /\ r.new = {<<c, ks[c].id + 1>> : c \in sent}
      /\ r.ended = {<<c, ks[c].id>> : c \in {d \in due : ks[d].tick}}
      /\ r.ok = (sent = due)
  BY DEF Round
<1>2. sent \subseteq due /\ due \subseteq Components
  OBVIOUS
<1> DEFINE Good(c, n) ==
             /\ n \in ComponentType /\ Sound(n)
             /\ n.tcp = ks[c].tcp /\ n.state = ks[c].state
             /\ n.cb = ks[c].cb /\ n.rx = ks[c].rx
             /\ n.bReadEnable = ks[c].bReadEnable
             /\ c \in sent => n.tick /\ n.id = ks[c].id + 1
             /\ c \notin sent => n.tick = ks[c].tick
             /\ c \notin due => n.id = ks[c].id
<1>3. ASSUME NEW c \in Components
      PROVE  Good(c, R(c))
  <2> DEFINE k == ks[c]
  <2>0. k \in ComponentType /\ Sound(k)
    OBVIOUS
  <2>d. c \in due <=> mode.google /\ k.selected
    OBVIOUS
  <2>1. CASE c \in sent
    <3> DEFINE n == [k EXCEPT !.id = @ + 1, !.buffer = TRUE, !.tick = TRUE, !.sends = 0]
    <3>1. R(c) = [Next1(c) EXCEPT !.tick = TRUE, !.sends = 0]
      BY <2>1
    <3>2. [Next1(c) EXCEPT !.tick = TRUE, !.sends = 0] = n
      BY <2>0 DEF ComponentType
    <3>3. c \in due
      BY <1>2, <2>1
    <3>4. mode.google /\ k.selected
      BY <2>d, <3>3
    <3> HIDE DEF k, due, sent
    <3>5. /\ n \in ComponentType /\ Sound(n) /\ n.tcp = k.tcp /\ n.state = k.state
          /\ n.cb = k.cb /\ n.rx = k.rx /\ n.bReadEnable = k.bReadEnable
          /\ n.tick /\ n.id = k.id + 1
      BY <2>0, <3>4, RequestFacts
    <3> HIDE DEF n, R, Next1
    <3> QED BY <2>1, <3>1, <3>2, <3>3, <3>5 DEF k
  <2>2. CASE c \in due \ sent
    <3> DEFINE n == [k EXCEPT !.id = @ + 1, !.buffer = TRUE]
    <3>1. R(c) = n
      BY <2>2
    <3> HIDE DEF k, due, sent
    <3>2. /\ n \in ComponentType /\ Sound(n) /\ n.tcp = k.tcp /\ n.state = k.state
          /\ n.cb = k.cb /\ n.rx = k.rx /\ n.bReadEnable = k.bReadEnable
          /\ n.tick = k.tick
      BY <2>0, RequestFacts
    <3> HIDE DEF n, R, Next1
    <3> QED BY <2>2, <3>1, <3>2 DEF k
  <2>3. CASE c \notin due
    <3>1. c \notin sent
      BY <1>2, <2>3
    <3>2. R(c) = ks[c]
      BY <2>3, <3>1
    <3> HIDE DEF due, sent, R, Next1
    <3> QED BY <2>0, <2>3, <3>1, <3>2
  <2> HIDE DEF due, sent, R, Next1, Good
  <2> QED BY <2>1, <2>2, <2>3
<1>4. {d \in due : ks[d].tick} = {d \in Components : mode.google /\ ks[d].selected /\ ks[d].tick}
  OBVIOUS
<1>5. \A c \in Components : c \in due <=> mode.google /\ ks[c].selected
  OBVIOUS
<1>6. due = {c \in Components : mode.google /\ ks[c].selected}
  OBVIOUS
<1> HIDE DEF due, sent, R, Next1, r
<1>7. r.comp \in [Components -> ComponentType] /\ \A c \in Components : Good(c, r.comp[c])
  BY <1>1, <1>3
<1>8. /\ r.comp \in [Components -> ComponentType]
      /\ r.sent \subseteq {c \in Components : mode.google /\ ks[c].selected}
      /\ r.new = {<<c, ks[c].id + 1>> : c \in r.sent}
      /\ r.ended = {<<c, ks[c].id>> : c \in {d \in Components : mode.google /\ ks[d].selected /\ ks[d].tick}}
      /\ r.ok \in BOOLEAN
      /\ r.ok <=> r.sent = {c \in Components : mode.google /\ ks[c].selected}
  BY <1>1, <1>2, <1>4, <1>6, <1>7
<1>9. RoundGood(ks, r)
  BY <1>1, <1>5, <1>7, <1>8 DEF RoundGood
<1> QED BY <1>9 DEF r
LeftType == [packets : Nat, keepalives : Nat, calls : Nat]

(* priv_conn_keepalive_tick_unlocked: a round keeps the invariant when the  *)
(* requests that were outstanding before it and not at its start are        *)
(* counted as given up.                                                     *)
LEMMA TickKeeps ==
  ASSUME IInv, mode' = mode, frames' = frames, timer' \in BOOLEAN, left' \in LeftType,
         NEW ks \in [Components -> ComponentType],
         NEW dropped \in SUBSET (Components \X Nat),
         \A c \in Components :
           /\ Sound(ks[c])
           /\ ks[c].tcp = comp[c].tcp /\ ks[c].state = comp[c].state
           /\ ks[c].cb = comp[c].cb /\ ks[c].rx = comp[c].rx
           /\ ks[c].bReadEnable = comp[c].bReadEnable
           /\ ks[c].id = comp[c].id
           /\ comp[c].tick => ks[c].tick \/ <<c, comp[c].id>> \in dropped,
         priv_conn_keepalive_tick_unlocked(ks, dropped)
  PROVE  IInv' /\ \A c \in Components : ~Fails(c)
<1> DEFINE r == Round(ks, slots)
<1>1. /\ comp' = r.comp /\ slots' = slots \cup r.new /\ wire' = wire \cup r.new
      /\ media' = (media /\ r.sent = {}) /\ lost' = lost \cup dropped \cup r.ended
      /\ heard' = heard \ r.sent /\ full' = (full \/ ~r.ok)
  BY DEF priv_conn_keepalive_tick_unlocked
<1>r. RoundGood(ks, r)
  BY RoundFacts
<1> HIDE DEF r
<1>2. /\ r.comp \in [Components -> ComponentType]
      /\ r.sent \subseteq {c \in Components : mode.google /\ ks[c].selected}
      /\ r.new = {<<c, ks[c].id + 1>> : c \in r.sent}
      /\ r.ended = {<<c, ks[c].id>> : c \in {d \in Components : mode.google /\ ks[d].selected /\ ks[d].tick}}
      /\ r.ok \in BOOLEAN
      /\ r.ok <=> r.sent = {c \in Components : mode.google /\ ks[c].selected}
      /\ \A c \in Components :
           /\ Sound(r.comp[c])
           /\ r.comp[c].tcp = ks[c].tcp /\ r.comp[c].state = ks[c].state
           /\ r.comp[c].cb = ks[c].cb /\ r.comp[c].rx = ks[c].rx
           /\ r.comp[c].bReadEnable = ks[c].bReadEnable
           /\ c \in r.sent => r.comp[c].tick /\ r.comp[c].id = ks[c].id + 1
           /\ c \notin r.sent => r.comp[c].tick = ks[c].tick
           /\ ~(mode.google /\ ks[c].selected) => r.comp[c].id = ks[c].id
  BY <1>r DEF RoundGood
<1>3. \A c \in Components : ks[c].tick => mode.google /\ ks[c].selected
  BY DEF Sound
<1>4. \A c \in Components : ks[c].id \in Nat
  BY DEF ComponentType
<1>5. TypeOK'
  <2>1. r.new \subseteq Components \X Nat
    BY <1>2, <1>4
  <2>2. r.ended \subseteq Components \X Nat
    BY <1>2, <1>4
  <2>3. TypeOK
    BY DEF IInv
  <2>4. comp' \in [Components -> ComponentType] /\ slots' \subseteq Components \X Nat
        /\ wire' \subseteq Components \X Nat /\ lost' \subseteq Components \X Nat
        /\ heard' \subseteq Components
    BY <1>1, <1>2, <2>1, <2>2, <2>3 DEF TypeOK
  <2>5. media' \in BOOLEAN /\ full' \in BOOLEAN
    BY <1>1, <1>2, <2>3 DEF TypeOK
  <2> QED BY <2>3, <2>4, <2>5 DEF TypeOK, LeftType
<1>6. \A c \in Components : Sound(comp[c])'
  BY <1>1, <1>2 DEF Sound, Stuck
<1>7. Frames'
  <2>1. \A c \in Components : Running(c)' <=> Running(c)
    BY DEF Running
  <2>2. ASSUME NEW c \in Components
        PROVE  /\ comp'[c].tcp = comp[c].tcp /\ comp'[c].cb = comp[c].cb
               /\ comp'[c].rx = comp[c].rx /\ comp'[c].bReadEnable = comp[c].bReadEnable
    <3>1. /\ r.comp[c].tcp = ks[c].tcp /\ r.comp[c].cb = ks[c].cb
          /\ r.comp[c].rx = ks[c].rx /\ r.comp[c].bReadEnable = ks[c].bReadEnable
      BY <1>2, Zenon
    <3> QED BY <1>1, <3>1, Zenon
  <2> QED BY <2>1, <2>2 DEF Frames, Stuck, IInv
<1>8. KeepalivesRemembered'
  <2>1. ASSUME NEW c \in Components, NEW i \in Nat, <<c, i>> \in slots'
        PROVE  <<c, i>> \in (Outstanding \cup lost)'
    <3>1. CASE <<c, i>> \in r.new
      <4>1. c \in r.sent /\ i = ks[c].id + 1
        BY <1>2, <3>1
      <4>2. comp'[c].tick /\ comp'[c].id = i
        BY <1>1, <1>2, <4>1
      <4> QED BY <4>2, OutstandingFacts
    <3>2. CASE <<c, i>> \in slots /\ <<c, i>> \in lost
      BY <1>1, <3>2
    <3>3. CASE <<c, i>> \in slots /\ <<c, i>> \in Outstanding
      <4>1. comp[c].tick /\ i = comp[c].id
        BY <3>3, OutstandingFacts
      <4>2. CASE ks[c].tick
        <5>1. <<c, i>> \in r.ended
          BY <1>2, <1>3, <4>1, <4>2
        <5> QED BY <1>1, <5>1
      <4>3. CASE ~ks[c].tick
        BY <1>1, <4>1, <4>3
      <4> QED BY <4>2, <4>3
    <3> QED BY <1>1, <2>1, <3>1, <3>2, <3>3 DEF IInv, KeepalivesRemembered
  <2>2. slots' \subseteq (Outstanding \cup lost)'
    <3>1. slots' \subseteq Components \X Nat
      BY <1>5 DEF TypeOK
    <3> QED BY <2>1, <3>1
  <2>3. ASSUME ~full', NEW x \in Outstanding'
        PROVE  x \in slots'
    <3>1. PICK c \in Components : comp'[c].tick /\ x = <<c, comp'[c].id>>
      BY DEF Outstanding, Armed
    <3>2. c \in r.sent
      BY <1>1, <1>2, <1>3, <2>3, <3>1
    <3>3. x = <<c, ks[c].id + 1>>
      BY <1>1, <1>2, <3>1, <3>2
    <3> QED BY <1>1, <1>2, <3>2, <3>3
  <2> QED BY <2>2, <2>3 DEF KeepalivesRemembered
<1>9. Heard'
  BY <1>1, <1>2, <1>3 DEF Heard
<1>10. \A c \in Components : ~Fails(c)
  BY <1>1, <1>2 DEF Fails
<1> QED BY <1>5, <1>6, <1>7, <1>8, <1>9, <1>10 DEF IInv
-----------------------------------------------------------------------------
(* The steps.                                                               *)

LEMMA SpendFacts ==
  ASSUME TypeOK, NEW b \in {"packets", "keepalives", "calls"}, Spend(b)
  PROVE  left' \in LeftType
<1>1. left \in LeftType /\ left[b] \in Nat /\ left[b] > 0
  BY DEF TypeOK, LeftType, Spend
<1>2. left[b] - 1 \in Nat
  BY <1>1
<1> QED BY <1>1, <1>2 DEF Spend, LeftType

(* No callback runs while the main loop is idle.                            *)
LEMMA IdleFacts ==
  ASSUME Idle, NEW c
  PROVE  ~Running(c)
BY DEF Idle, Running

(* A step of one component that leaves its request alone.                   *)
LEMMA ComponentStep ==
  ASSUME IInv, mode' = mode, NEW c \in Components, NEW r,
         Sound(r.k), r.calls \in BOOLEAN, Became(c, r),
         Running(c) \/ r.calls => r.k.tcp # "LISTEN",
         Stuck(r.k) /\ r.k.cb => Running(c) \/ r.calls,
         r.k.tick = comp[c].tick, r.k.id = comp[c].id,
         slots' = slots, lost' = lost, full' = full, wire' \subseteq wire,
         timer' \in BOOLEAN, left' \in LeftType, heard' \subseteq Components,
         media' = TRUE \/ (media' = media /\ heard' = heard)
  PROVE  /\ IInv' /\ comp'[c] = r.k
         /\ \A d \in Components \ {c} : comp'[d] = comp[d] /\ ~Fails(d)
<1>1. TypeOK /\ (\A d \in Components : Sound(comp[d])) /\ Frames /\ KeepalivesRemembered /\ Heard
  BY DEF IInv
<1>2. /\ comp' \in [Components -> ComponentType] /\ frames' \in Seq(FrameType)
      /\ \A d \in Components : Sound(comp[d])'
      /\ Frames' /\ comp'[c] = r.k /\ \A d \in Components \ {c} : comp'[d] = comp[d]
  BY <1>1, BecameKeeps
<1>3. \A d \in Components : comp'[d].tick = comp[d].tick /\ comp'[d].id = comp[d].id
  BY <1>2
<1>4. KeepalivesRemembered' /\ Heard'
  BY <1>1, <1>3, SameRequests
<1>5. TypeOK'
  <2>1. media' \in BOOLEAN /\ full' \in BOOLEAN /\ timer' \in BOOLEAN
    BY <1>1, Zenon DEF TypeOK
  <2>2. slots' \subseteq Components \X Nat /\ wire' \subseteq Components \X Nat
        /\ lost' \subseteq Components \X Nat /\ mode' \in [reliable : BOOLEAN, google : BOOLEAN]
    BY <1>1 DEF TypeOK
  <2> QED BY <1>2, <2>1, <2>2, Zenon DEF TypeOK, LeftType, FrameType
<1>6. \A d \in Components \ {c} : ~Fails(d)
  BY <1>2 DEF Fails
<1> QED BY <1>2, <1>4, <1>5, <1>6 DEF IInv

(* A step that ends requests keeps the account of them if it takes their    *)
(* place in the STUN agent back or gives them up.                           *)
LEMMA FewerRequests ==
  ASSUME KeepalivesRemembered, Heard, slots' \subseteq slots, lost \subseteq lost', full' = full,
         \A d \in Components :
           /\ comp'[d].id = comp[d].id /\ (comp'[d].tick => comp[d].tick)
           /\ comp[d].tick /\ ~comp'[d].tick => <<d, comp[d].id>> \notin slots' \ lost'
           /\ comp'[d].tick /\ <<d, comp[d].id>> \in slots => <<d, comp[d].id>> \in slots',
         media' = TRUE \/ (media' = media /\ heard' = heard)
  PROVE  KeepalivesRemembered' /\ Heard'
<1>1. ASSUME NEW x \in slots'
      PROVE  x \in (Outstanding \cup lost)'
  <2>1. CASE x \in lost
    BY <2>1
  <2>2. CASE x \in Outstanding
    <3>1. PICK d \in Components : comp[d].tick /\ x = <<d, comp[d].id>>
      BY <2>2 DEF Outstanding, Armed
    <3>2. CASE comp'[d].tick
      BY <3>1, <3>2, OutstandingFacts
    <3>3. CASE ~comp'[d].tick
      BY <1>1, <3>1, <3>3
    <3> QED BY <3>2, <3>3
  <2> QED BY <1>1, <2>1, <2>2 DEF KeepalivesRemembered
<1>2. ASSUME ~full', NEW x \in Outstanding'
      PROVE  x \in slots'
  <2>1. PICK d \in Components : comp'[d].tick /\ x = <<d, comp'[d].id>>
    BY DEF Outstanding, Armed
  <2>2. x \in Outstanding
    BY <2>1, OutstandingFacts
  <2> QED BY <1>2, <2>1, <2>2 DEF KeepalivesRemembered
<1>3. Heard'
  <2>1. CASE media' = TRUE
    BY <2>1 DEF Heard
  <2>2. CASE media' = media /\ heard' = heard
    <3> SUFFICES ASSUME NEW d \in Components, ~full', comp'[d].tick, d \in heard'
                 PROVE  media'
      BY DEF Heard
    <3>1. comp[d].tick /\ ~full /\ d \in heard
      BY <2>2
    <3> QED BY <2>2, <3>1 DEF Heard
  <2> QED BY <2>1, <2>2
<1> QED BY <1>1, <1>2, <1>3 DEF KeepalivesRemembered

(* The data of a packet reaches a sound component whose socket exists: it   *)
(* does not fail, and what it leaves unread has a callback running.         *)
LEMMA NotifyFacts ==
  ASSUME NEW k, Sound(k), mode.reliable, Stuck(k) => ~k.cb
  PROVE  LET r == NotifyPacket(k)
         IN  /\ Sound(r.k) /\ r.calls \in BOOLEAN
             /\ r.k.tcp = k.tcp /\ r.k.state = k.state
             /\ r.k.tick = k.tick /\ r.k.id = k.id
             /\ r.calls => r.k.tcp # "LISTEN"
             /\ Stuck(r.k) /\ r.k.cb => r.calls
<1>1. k \in ComponentType
  BY DEF Sound
<1>2. CASE k.tcp = "ESTABLISHED" /\ k.bReadEnable
  <2> DEFINE n == [k EXCEPT !.rx = @ + 1, !.bReadEnable = FALSE, !.tcp_readable = TRUE]
             more == [k EXCEPT !.rx = @ + 1]
  <2>1. NotifyPacket(k) = ReadLoop([[more EXCEPT !.bReadEnable = FALSE] EXCEPT !.tcp_readable = TRUE])
    BY <1>2 DEF NotifyPacket, pseudo_tcp_socket_readable
  <2>2. [[more EXCEPT !.bReadEnable = FALSE] EXCEPT !.tcp_readable = TRUE] = n
    BY <1>1 DEF ComponentType
  <2>3. k.rx + 1 \in Nat
    BY <1>1 DEF ComponentType
  <2>4. /\ n \in ComponentType /\ n.tcp = k.tcp /\ n.tcp_readable /\ n.tcp_clock = k.tcp_clock
        /\ n.tick = k.tick /\ n.selected = k.selected /\ n.buffer = k.buffer
        /\ n.state = k.state /\ n.id = k.id
    BY <1>1, <2>3 DEF ComponentType
  <2>5. k.tcp_clock /\ (k.tick => k.selected /\ k.buffer /\ mode.google)
    BY <1>2 DEF Sound
  <2> HIDE DEF n, more
  <2> DEFINE r == ReadLoop(n)
  <2>6. /\ Sound(r.k) /\ r.calls \in BOOLEAN
        /\ r.k.tcp = "ESTABLISHED" /\ r.k.state = n.state /\ r.k.cb = n.cb
        /\ r.k.tick = n.tick /\ r.k.id = n.id
        /\ Stuck(r.k) /\ r.k.cb => r.calls
    BY <1>2, <2>4, <2>5, ReadLoopFacts
  <2>7. NotifyPacket(k) = r
    BY <2>1, <2>2
  <2> HIDE DEF r
  <2> QED BY <1>2, <2>4, <2>6, <2>7
<1>3. CASE k.tcp = "ESTABLISHED" /\ ~k.bReadEnable
  <2> DEFINE n == [k EXCEPT !.rx = @ + 1]
  <2>1. NotifyPacket(k) = [k |-> n, calls |-> FALSE]
    BY <1>3 DEF NotifyPacket
  <2>2. Stuck(k)
    BY <1>3 DEF Stuck
  <2>3. k.rx + 1 \in Nat
    BY <1>1 DEF ComponentType
  <2>4. Sound(n) /\ n.tcp = k.tcp /\ n.state = k.state /\ n.tick = k.tick /\ n.id = k.id /\ ~n.cb
    BY <1>1, <1>3, <2>2, <2>3 DEF Sound, Stuck, ComponentType
  <2> HIDE DEF n
  <2> QED BY <2>1, <2>4
<1>4. CASE k.tcp # "ESTABLISHED"
  <2>1. NotifyPacket(k) = [k |-> k, calls |-> FALSE]
    BY <1>4 DEF NotifyPacket
  <2> QED BY <1>4, <2>1 DEF Stuck
<1> QED BY <1>1, <1>2, <1>3, <1>4 DEF ComponentType
LEMMA InitHolds == Init => IInv
<1> SUFFICES ASSUME Init PROVE IInv
  OBVIOUS
<1>1. mode \in [reliable : BOOLEAN, google : BOOLEAN] /\ mode.reliable \in BOOLEAN
  BY DEF Init, ConstantsAssumption
<1>2. 0 \in 0 .. MaxRetransmits
  BY DEF ConstantsAssumption
<1>3. \A c \in Components : comp[c] = Component(mode.reliable)
  BY DEF Init
<1> DEFINE k == Component(mode.reliable)
<1>4. Sound(k) /\ ~Stuck(k) /\ ~k.tick /\ k \in ComponentType
  BY <1>1, <1>2 DEF Sound, Stuck, ComponentType, Component
<1> HIDE DEF k
<1>5. comp \in [Components -> ComponentType] /\ \A c \in Components : comp[c] = k
  BY <1>3, <1>4 DEF Init, k
<1>6. TypeOK
  <2>1. left \in LeftType
    BY DEF Init, LeftType, ConstantsAssumption
  <2>2. frames \in Seq([c : Components, tcp : BOOLEAN])
    BY DEF Init
  <2>3. media \in BOOLEAN /\ timer \in BOOLEAN /\ full \in BOOLEAN
    BY DEF Init
  <2>4. /\ slots \subseteq Components \X Nat /\ wire \subseteq Components \X Nat
        /\ lost \subseteq Components \X Nat /\ heard \subseteq Components
    BY DEF Init
  <2> QED BY <1>1, <1>5, <2>1, <2>2, <2>3, <2>4 DEF TypeOK, LeftType
<1>7. Frames
  BY <1>4, <1>5 DEF Init, Frames, Running
<1>8. Outstanding = {}
  BY <1>4, <1>5 DEF Outstanding, Armed
<1>9. KeepalivesRemembered /\ Heard
  BY <1>8 DEF KeepalivesRemembered, Heard, Init
<1> QED BY <1>4, <1>5, <1>6, <1>7, <1>9 DEF IInv

LEMMA KeepaliveTickKeeps ==
  ASSUME IInv, KeepaliveTick
  PROVE  IInv' /\ \A c \in Components : ~Fails(c)
<1>1. TypeOK /\ \A c \in Components : Sound(comp[c])
  BY DEF IInv
<1>2. /\ comp \in [Components -> ComponentType] /\ {} \in SUBSET (Components \X Nat)
      /\ mode' = mode /\ frames' = frames /\ priv_conn_keepalive_tick_unlocked(comp, {})
  BY <1>1 DEF KeepaliveTick, TypeOK
<1>3. left' \in LeftType
  BY <1>1, SpendFacts DEF KeepaliveTick
<1>4. timer' \in BOOLEAN
  <2>1. RoundGood(comp, Round(comp, slots))
    BY <1>1, <1>2, RoundFacts
  <2> QED BY <2>1 DEF KeepaliveTick, RoundGood
<1> QED BY <1>1, <1>2, <1>3, <1>4, TickKeeps

(* Selecting another pair gives up the request on the pair before it.       *)
LEMMA ReselectedFacts ==
  ASSUME NEW k, Sound(k)
  PROVE  LET n == Reselected(k)
         IN  /\ Sound(n) /\ adjust_tcp_clock(n) = n /\ ~n.tick
             /\ n.tcp = k.tcp /\ n.state = k.state /\ n.cb = k.cb /\ n.rx = k.rx
             /\ n.bReadEnable = k.bReadEnable /\ n.id = k.id
<1> DEFINE n == Reselected(k)
<1>1. 0 \in 0 .. MaxRetransmits
  BY DEF ConstantsAssumption
<1>2. /\ Sound(n) /\ ~n.tick
      /\ n.tcp = k.tcp /\ n.state = k.state /\ n.cb = k.cb /\ n.rx = k.rx
      /\ n.bReadEnable = k.bReadEnable /\ n.id = k.id
  BY <1>1 DEF Sound, Stuck, ComponentType, Reselected
<1> HIDE DEF n
<1>3. adjust_tcp_clock(n) = n
  BY <1>2, ClockFacts
<1> QED BY <1>2, <1>3 DEF n

LEMMA UpdateSelectedPairKeeps ==
  ASSUME IInv, NEW c \in Components, priv_update_selected_pair(c)
  PROVE  IInv' /\ \A d \in Components : ~Fails(d)
<1>1. TypeOK /\ \A d \in Components : Sound(comp[d])
  BY DEF IInv
<1> DEFINE n == Reselected(comp[c])
           ks == [comp EXCEPT ![c] = adjust_tcp_clock(Reselected(@))]
           dropped == IF Armed(c) THEN {<<c, comp[c].id>>} ELSE {}
<1>2. /\ Sound(n) /\ adjust_tcp_clock(n) = n /\ ~n.tick
      /\ n.tcp = comp[c].tcp /\ n.state = comp[c].state /\ n.cb = comp[c].cb /\ n.rx = comp[c].rx
      /\ n.bReadEnable = comp[c].bReadEnable /\ n.id = comp[c].id
  BY <1>1, ReselectedFacts
<1>3. n \in ComponentType /\ comp \in [Components -> ComponentType] /\ comp[c].id \in Nat
  BY <1>1, <1>2 DEF Sound, TypeOK, ComponentType
<1>4. /\ mode' = mode /\ frames' = frames /\ timer' \in BOOLEAN
      /\ priv_conn_keepalive_tick_unlocked(ks, dropped)
  BY <1>1 DEF priv_update_selected_pair, TypeOK
<1>5. left' \in LeftType
  BY <1>1, SpendFacts DEF priv_update_selected_pair
<1> HIDE DEF n
<1>6. ks \in [Components -> ComponentType] /\ ks[c] = n /\ \A d \in Components \ {c} : ks[d] = comp[d]
  BY <1>2, <1>3 DEF n
<1>7. dropped \in SUBSET (Components \X Nat) /\ (comp[c].tick => <<c, comp[c].id>> \in dropped)
  BY <1>3 DEF Armed
<1> HIDE DEF ks, dropped
<1>8. ASSUME NEW d \in Components
      PROVE  /\ Sound(ks[d])
             /\ ks[d].tcp = comp[d].tcp /\ ks[d].state = comp[d].state
             /\ ks[d].cb = comp[d].cb /\ ks[d].rx = comp[d].rx
             /\ ks[d].bReadEnable = comp[d].bReadEnable
             /\ ks[d].id = comp[d].id
             /\ comp[d].tick => ks[d].tick \/ <<d, comp[d].id>> \in dropped
  <2>1. CASE d = c
    BY <1>2, <1>6, <1>7, <2>1
  <2>2. CASE d # c
    BY <1>1, <1>6, <2>2
  <2> QED BY <2>1, <2>2
<1> QED BY <1>4, <1>5, <1>6, <1>7, <1>8, TickKeeps

LEMMA RetransmitKeeps ==
  ASSUME IInv, NEW c \in Components, RetransmitKeepalive(c)
  PROVE  IInv' /\ \A d \in Components : ~Fails(d)
<1>1. TypeOK /\ Sound(comp[c]) /\ Frames
  BY DEF IInv
<1> DEFINE k == comp[c]
           n == [k EXCEPT !.sends = @ + 1]
           r == [k |-> n, calls |-> FALSE]
<1>2. k.sends + 1 \in 0 .. MaxRetransmits
  BY <1>1 DEF Sound, ComponentType, RetransmitKeepalive, ConstantsAssumption
<1>3. Became(c, r)
  BY DEF Became, RetransmitKeepalive
<1>4. ~Running(c) /\ (Stuck(k) => ~k.cb)
  BY <1>1, IdleFacts DEF RetransmitKeepalive, Frames
<1>5. /\ Sound(n) /\ n.tick = k.tick /\ n.id = k.id /\ n.state = k.state /\ n.tcp = k.tcp
      /\ Stuck(n) => ~n.cb
  BY <1>1, <1>2, <1>4 DEF Sound, Stuck, ComponentType
<1> HIDE DEF n
<1>6. /\ mode' = mode /\ slots' = slots /\ lost' = lost /\ full' = full /\ wire' = wire
      /\ timer' = timer /\ left' = left /\ heard' = heard /\ media' = media
  BY DEF RetransmitKeepalive
<1>7. timer \in BOOLEAN /\ left \in LeftType /\ heard \subseteq Components
  BY <1>1 DEF TypeOK, LeftType
<1>8. r.k = n /\ r.calls = FALSE
  OBVIOUS
<1> HIDE DEF r
<1>9. /\ IInv' /\ comp'[c] = r.k
      /\ \A d \in Components \ {c} : comp'[d] = comp[d] /\ ~Fails(d)
  BY <1>3, <1>4, <1>5, <1>6, <1>7, <1>8, ComponentStep
<1> QED BY <1>5, <1>8, <1>9 DEF Fails
(* A step of one component that enters no callback.                         *)
LEMMA ReplaceStep ==
  ASSUME IInv, mode' = mode, NEW c \in Components, NEW n, Sound(n),
         comp' = [comp EXCEPT ![c] = n], frames' = frames,
         Running(c) => n.tcp # "LISTEN", Stuck(n) /\ n.cb => Running(c),
         n.tick = comp[c].tick, n.id = comp[c].id,
         slots' = slots, lost' = lost, full' = full, wire' \subseteq wire,
         timer' \in BOOLEAN, left' \in LeftType, heard' \subseteq Components,
         media' = TRUE \/ (media' = media /\ heard' = heard)
  PROVE  /\ IInv' /\ comp'[c] = n
         /\ \A d \in Components \ {c} : comp'[d] = comp[d] /\ ~Fails(d)
<1> DEFINE r == [k |-> n, calls |-> FALSE]
<1>1. r.k = n /\ r.calls = FALSE /\ Became(c, r)
  BY DEF Became
<1> HIDE DEF r
<1> QED BY <1>1, ComponentStep

(* What every step finds.                                                   *)
LEMMA IInvFacts ==
  ASSUME IInv, NEW c \in Components
  PROVE  /\ Sound(comp[c]) /\ comp[c] \in ComponentType
         /\ Running(c) => comp[c].tcp # "LISTEN"
         /\ Stuck(comp[c]) /\ comp[c].cb => Running(c)
         /\ timer \in BOOLEAN /\ left \in LeftType /\ heard \subseteq Components
         /\ heard \cup {c} \subseteq Components
         /\ mode.reliable \in BOOLEAN
BY DEF IInv, TypeOK, Frames, Sound, LeftType

LEMMA ChecksReadyKeeps ==
  ASSUME IInv, NEW c \in Components, ChecksReady(c)
  PROVE  IInv' /\ \A d \in Components : ~Fails(d)
<1> DEFINE k == comp[c]
           n == agent_signal_component_state_change(k, "READY")
<1>1. /\ Sound(k) /\ k \in ComponentType /\ (Running(c) => k.tcp # "LISTEN")
      /\ (Stuck(k) /\ k.cb => Running(c))
      /\ timer \in BOOLEAN /\ left \in LeftType /\ heard \subseteq Components
  BY IInvFacts
<1>2. Sound(n) /\ n = [k EXCEPT !.state = n.state] /\ n.state \in {k.state, "READY"}
  BY <1>1, StateChangeFacts
<1>3. /\ comp' = [comp EXCEPT ![c] = n] /\ mode' = mode /\ slots' = slots /\ lost' = lost
      /\ full' = full /\ wire' = wire /\ timer' = timer /\ heard' = heard /\ media' = media
      /\ frames' = frames /\ Spend("calls")
  BY DEF ChecksReady
<1>4. left' \in LeftType
  BY <1>3, SpendFacts DEF IInv
<1> HIDE DEF n
<1>5. /\ n.tick = k.tick /\ n.id = k.id /\ n.tcp = k.tcp /\ n.cb = k.cb
      /\ n.rx = k.rx /\ n.bReadEnable = k.bReadEnable
  BY <1>1, <1>2 DEF ComponentType
<1>6. (Running(c) => n.tcp # "LISTEN") /\ (Stuck(n) /\ n.cb => Running(c))
  BY <1>1, <1>5 DEF Stuck
<1>7. /\ IInv' /\ comp'[c] = n
      /\ \A d \in Components \ {c} : comp'[d] = comp[d] /\ ~Fails(d)
  BY <1>1, <1>2, <1>3, <1>4, <1>5, <1>6, ReplaceStep
<1> QED BY <1>2, <1>5, <1>7 DEF Fails

LEMMA ScheduleNextKeeps ==
  ASSUME IInv, ScheduleNext
  PROVE  IInv' /\ \A d \in Components : ~Fails(d)
<1>1. /\ comp' = comp /\ mode' = mode /\ slots' = slots /\ lost' = lost /\ full' = full
      /\ wire' = wire /\ timer' = TRUE /\ heard' = heard /\ media' = media /\ frames' = frames
  BY DEF ScheduleNext
<1>2. left' \in LeftType
  BY SpendFacts DEF ScheduleNext, IInv
<1>3. TypeOK'
  BY <1>1, <1>2 DEF IInv, TypeOK, LeftType
<1>4. \A c \in Components : Sound(comp[c])'
  BY <1>1 DEF IInv, Sound, Stuck
<1>5. Frames'
  BY <1>1 DEF IInv, Frames, Stuck, Running
<1>6. KeepalivesRemembered' /\ Heard'
  BY <1>1, SameRequests DEF IInv
<1> QED BY <1>1, <1>3, <1>4, <1>5, <1>6 DEF IInv, Fails

LEMMA ReceiveOpeningKeeps ==
  ASSUME IInv, NEW c \in Components, ReceiveOpening(c)
  PROVE  IInv' /\ \A d \in Components : ~Fails(d)
<1> DEFINE k == comp[c]
           n == [k EXCEPT !.tcp = "ESTABLISHED"]
<1>1. /\ Sound(k) /\ k \in ComponentType
      /\ timer \in BOOLEAN /\ left \in LeftType /\ heard \cup {c} \subseteq Components
  BY IInvFacts
<1>2. /\ comp' = [comp EXCEPT ![c] = n] /\ mode' = mode /\ slots' = slots /\ lost' = lost
      /\ full' = full /\ wire' = wire /\ timer' = timer /\ heard' = heard \cup {c}
      /\ media' = TRUE /\ frames' = frames /\ left' = left /\ k.tcp = "LISTEN"
  BY DEF ReceiveOpening, Received
<1>3. Sound(n) /\ ~Stuck(n) /\ n.tick = k.tick /\ n.id = k.id /\ n.state = k.state /\ n.tcp = "ESTABLISHED"
  BY <1>1, <1>2 DEF Sound, Stuck, ComponentType
<1> HIDE DEF n
<1>4. /\ IInv' /\ comp'[c] = n
      /\ \A d \in Components \ {c} : comp'[d] = comp[d] /\ ~Fails(d)
  BY <1>1, <1>2, <1>3, ReplaceStep
<1> QED BY <1>3, <1>4 DEF Fails

LEMMA ReceiveResetKeeps ==
  ASSUME IInv, NEW c \in Components, ReceiveReset(c)
  PROVE  IInv' /\ \A d \in Components \ {c} : ~Fails(d)
<1> DEFINE k == comp[c]
           n == priv_pseudo_tcp_error(k)
<1>1. /\ Sound(k) /\ k.tcp # "none"
      /\ timer \in BOOLEAN /\ left \in LeftType /\ heard \cup {c} \subseteq Components
  BY IInvFacts DEF ReceiveReset
<1>2. /\ comp' = [comp EXCEPT ![c] = n] /\ mode' = mode /\ slots' = slots /\ lost' = lost
      /\ full' = full /\ wire' = wire /\ timer' = timer /\ heard' = heard \cup {c}
      /\ media' = TRUE /\ frames' = frames /\ left' = left
  BY DEF ReceiveReset, Received
<1>3. Sound(n) /\ n.tick = k.tick /\ n.id = k.id /\ n.tcp = "none"
  BY <1>1, ErrorFacts
<1> HIDE DEF n
<1>4. ~Stuck(n)
  BY <1>3 DEF Stuck
<1> QED BY <1>1, <1>2, <1>3, <1>4, ReplaceStep

LEMMA ClockGivesUpKeeps ==
  ASSUME IInv, NEW c \in Components, ClockGivesUp(c)
  PROVE  IInv' /\ \A d \in Components \ {c} : ~Fails(d)
<1> DEFINE k == comp[c]
           n == priv_pseudo_tcp_error(k)
<1>1. /\ Sound(k) /\ k \in ComponentType
      /\ timer \in BOOLEAN /\ left \in LeftType /\ heard \subseteq Components
  BY IInvFacts
<1>2. k.tcp # "none"
  BY <1>1 DEF Sound, ClockGivesUp
<1>3. Sound(n) /\ n.tick = k.tick /\ n.id = k.id /\ n.tcp = "none"
  BY <1>1, <1>2, ErrorFacts
<1>4. priv_pseudo_tcp_error([k EXCEPT !.tcp_clock = FALSE]) = n
  BY <1>1, <1>2 DEF ComponentType, priv_pseudo_tcp_error, priv_destroy_component_tcp,
       priv_detach_stream_component, agent_signal_component_state_change
<1>5. adjust_tcp_clock(n) = n
  BY <1>3, ClockFacts
<1> HIDE DEF n
<1>6. /\ comp' = [comp EXCEPT ![c] = n] /\ mode' = mode /\ slots' = slots /\ lost' = lost
      /\ full' = full /\ wire' = wire /\ timer' = timer /\ heard' = heard
      /\ media' = media /\ frames' = frames /\ left' = left
  BY <1>4, <1>5 DEF ClockGivesUp
<1>7. ~Stuck(n)
  BY <1>3 DEF Stuck
<1> QED BY <1>1, <1>3, <1>6, <1>7, ReplaceStep
(* An attach reads only from a connected socket: nothing is readable before *)
(* the handshake is over.                                                   *)
LEMMA AttachKeeps ==
  ASSUME IInv, NEW c \in Components, NEW func \in BOOLEAN, xice_agent_attach_recv(c, func)
  PROVE  IInv' /\ \A d \in Components : ~Fails(d)
<1> DEFINE k == comp[c]
           n == Attached(k, func)
<1>1. /\ Sound(k) /\ k \in ComponentType /\ (Running(c) => k.tcp # "LISTEN")
      /\ (Stuck(k) /\ k.cb => Running(c))
      /\ timer \in BOOLEAN /\ left \in LeftType /\ heard \subseteq Components
  BY IInvFacts
<1>2. /\ mode' = mode /\ slots' = slots /\ lost' = lost /\ full' = full /\ wire' = wire
      /\ timer' = timer /\ heard' = heard /\ media' = media
  BY DEF xice_agent_attach_recv
<1>3. left' \in LeftType
  BY SpendFacts DEF IInv, xice_agent_attach_recv
<1>4. /\ Sound(n) /\ n \in ComponentType /\ n.tick = k.tick /\ n.id = k.id /\ n.tcp = k.tcp
      /\ n.state = k.state /\ n.cb = func /\ n.tcp_readable = k.tcp_readable
  BY <1>1 DEF Sound, Stuck, ComponentType, Attached
<1>5. CASE func /\ n.tcp # "none" /\ n.tcp_readable
  <2> HIDE DEF n
  <2> DEFINE m == [n EXCEPT !.tcp_readable = TRUE]
             r == ReadLoop(m)
  <2>1. m = n
    BY <1>4, <1>5 DEF ComponentType
  <2>2. n.tcp = "ESTABLISHED" /\ mode.reliable /\ n.tcp_clock
        /\ (n.tick => n.selected /\ n.buffer /\ mode.google)
    BY <1>4, <1>5 DEF Sound, ComponentType
  <2>3. Became(c, r)
    BY <1>5 DEF xice_agent_attach_recv, pseudo_tcp_socket_readable, n
  <2> HIDE DEF m
  <2>4. /\ Sound(r.k) /\ r.calls \in BOOLEAN
        /\ r.k.tcp = "ESTABLISHED" /\ r.k.state = n.state /\ r.k.cb = n.cb
        /\ r.k.tick = n.tick /\ r.k.id = n.id
        /\ Stuck(r.k) /\ r.k.cb => r.calls
    BY <1>4, <1>5, <2>1, <2>2, ReadLoopFacts
  <2> HIDE DEF r
  <2>5. /\ IInv' /\ comp'[c] = r.k
        /\ \A d \in Components \ {c} : comp'[d] = comp[d] /\ ~Fails(d)
    BY <1>1, <1>2, <1>3, <1>4, <2>3, <2>4, ComponentStep
  <2> QED BY <1>4, <2>4, <2>5 DEF Fails
<1>6. CASE ~(func /\ n.tcp # "none" /\ n.tcp_readable)
  <2>1. Became(c, [k |-> n, calls |-> FALSE])
    BY <1>6 DEF xice_agent_attach_recv
  <2> HIDE DEF n
  <2>2. comp' = [comp EXCEPT ![c] = n] /\ frames' = frames
    BY <2>1 DEF Became
  <2>3. ~(Stuck(n) /\ n.cb)
    BY <1>4, <1>6 DEF Sound, Stuck
  <2>4. /\ IInv' /\ comp'[c] = n
        /\ \A d \in Components \ {c} : comp'[d] = comp[d] /\ ~Fails(d)
    BY <1>1, <1>2, <1>3, <1>4, <2>2, <2>3, ReplaceStep
  <2> QED BY <1>4, <2>4 DEF Fails
<1> QED BY <1>5, <1>6

(* The end of xice_agent_g_source_cb, with the lock taken and no callback   *)
(* running.                                                                 *)
LEMMA PassedOnKeeps ==
  ASSUME IInv, NEW c \in Components, Idle, PassedOn(c), mode' = mode,
         slots' = slots, lost' = lost, full' = full, wire' \subseteq wire,
         timer' \in BOOLEAN, left' \in LeftType, heard' \subseteq Components, media' = TRUE
  PROVE  IInv' /\ \A d \in Components : ~Fails(d)
<1> DEFINE k == comp[c]
<1>1. /\ Sound(k) /\ k \in ComponentType /\ (Stuck(k) /\ k.cb => Running(c)) /\ ~Running(c)
  BY IInvFacts, IdleFacts
<1>2. CASE mode.reliable
  <2> DEFINE r == NotifyPacket(k)
  <2>1. Became(c, r)
    BY <1>2 DEF PassedOn
  <2>2. /\ Sound(r.k) /\ r.calls \in BOOLEAN
        /\ r.k.tcp = k.tcp /\ r.k.state = k.state
        /\ r.k.tick = k.tick /\ r.k.id = k.id
        /\ r.calls => r.k.tcp # "LISTEN"
        /\ Stuck(r.k) /\ r.k.cb => r.calls
    BY <1>1, <1>2, NotifyFacts
  <2> HIDE DEF r
  <2>3. /\ IInv' /\ comp'[c] = r.k
        /\ \A d \in Components \ {c} : comp'[d] = comp[d] /\ ~Fails(d)
    BY <1>1, <2>1, <2>2, ComponentStep
  <2> QED BY <2>2, <2>3 DEF Fails
<1>3. CASE ~mode.reliable
  <2> DEFINE r == [k |-> k, calls |-> k.cb]
  <2>1. Became(c, r)
    BY <1>3 DEF PassedOn
  <2>2. r.k = k /\ r.calls = k.cb /\ k.cb \in BOOLEAN /\ k.tcp = "none"
    BY <1>1, <1>3 DEF Sound, ComponentType
  <2> HIDE DEF r
  <2>3. ~Stuck(k)
    BY <2>2 DEF Stuck
  <2>4. /\ IInv' /\ comp'[c] = r.k
        /\ \A d \in Components \ {c} : comp'[d] = comp[d] /\ ~Fails(d)
    BY <1>1, <2>1, <2>2, <2>3, ComponentStep
  <2> QED BY <2>2, <2>4 DEF Fails
<1> QED BY <1>2, <1>3

LEMMA ReceiveDataKeeps ==
  ASSUME IInv, NEW c \in Components, ReceiveData(c)
  PROVE  IInv' /\ \A d \in Components : ~Fails(d)
<1>1. timer \in BOOLEAN /\ heard \cup {c} \subseteq Components
  BY IInvFacts
<1>2. left' \in LeftType
  BY SpendFacts DEF IInv, ReceiveData
<1>3. /\ mode' = mode /\ slots' = slots /\ lost' = lost /\ full' = full /\ wire' = wire
      /\ timer' = timer /\ heard' = heard \cup {c} /\ media' = TRUE /\ Idle /\ PassedOn(c)
  BY DEF ReceiveData, Received
<1> QED BY <1>1, <1>2, <1>3, PassedOnKeeps

(* The read loop that entered a callback goes on when it returns.  It only  *)
(* ends when everything was read or the application took its function away. *)
LEMMA CallbackReturnsKeeps ==
  ASSUME IInv, CallbackReturns
  PROVE  IInv' /\ \A d \in Components : ~Fails(d)
<1> DEFINE f == Head(frames)
           c == f.c
           k == comp[c]
           r == IF f.tcp /\ k.tcp # "none" THEN ReadLoop(k) ELSE [k |-> k, calls |-> FALSE]
<1>1. frames \in Seq(FrameType) /\ frames # <<>>
  BY DEF IInv, TypeOK, FrameType, CallbackReturns, Idle
<1>2. /\ Tail(frames) \in Seq(FrameType) /\ f \in FrameType
      /\ 1 \in DOMAIN frames /\ f = frames[1]
      /\ \A j \in DOMAIN Tail(frames) : j + 1 \in DOMAIN frames /\ Tail(frames)[j] = frames[j + 1]
      /\ \A i \in DOMAIN frames : frames[i] = f \/ \E j \in DOMAIN Tail(frames) : frames[i] = Tail(frames)[j]
  BY <1>1, PopFacts
<1>3. /\ comp' = [comp EXCEPT ![c] = r.k]
      /\ frames' = IF r.calls THEN frames ELSE Tail(frames)
      /\ mode' = mode /\ slots' = slots /\ lost' = lost /\ full' = full /\ wire' = wire
      /\ timer' = timer /\ heard' = heard /\ media' = media /\ left' = left
  BY DEF CallbackReturns
<1> HIDE DEF f
<1>4. c \in Components /\ Running(c) /\ f.tcp = mode.reliable
  BY <1>2 DEF FrameType, Running, IInv, Frames
<1> HIDE DEF c
<1>5. /\ Sound(k) /\ k \in ComponentType /\ k.tcp # "LISTEN"
      /\ timer \in BOOLEAN /\ left \in LeftType /\ heard \subseteq Components
  BY <1>4, IInvFacts
<1> HIDE DEF k
<1>6. /\ Sound(r.k) /\ r.calls \in BOOLEAN /\ r.k.tcp = k.tcp /\ r.k.state = k.state
      /\ r.k.tick = k.tick /\ r.k.id = k.id
      /\ Stuck(r.k) /\ r.k.cb => r.calls
  <2>1. CASE f.tcp /\ k.tcp # "none"
    <3> DEFINE q == ReadLoop(k)
    <3>1. /\ k.tcp = "ESTABLISHED" /\ mode.reliable /\ (k.tcp_readable \/ ~Stuck(k)) /\ k.tcp_clock
          /\ (k.tick => k.selected /\ k.buffer /\ mode.google)
      BY <1>5, <2>1 DEF Sound, ComponentType
    <3>2. /\ Sound(q.k) /\ q.calls \in BOOLEAN
          /\ q.k.tcp = "ESTABLISHED" /\ q.k.state = k.state /\ q.k.cb = k.cb
          /\ q.k.tick = k.tick /\ q.k.id = k.id
          /\ Stuck(q.k) /\ q.k.cb => q.calls
      BY <1>5, <3>1, ReadLoopFacts
    <3>3. r = q
      BY <2>1
    <3> HIDE DEF q, r
    <3> QED BY <3>1, <3>2, <3>3
  <2>2. CASE ~(f.tcp /\ k.tcp # "none")
    <3>1. r.k = k /\ r.calls = FALSE
      BY <2>2
    <3>2. ~Stuck(k)
      BY <1>4, <1>5, <2>2 DEF Sound, Stuck
    <3> HIDE DEF r
    <3> QED BY <1>5, <3>1, <3>2
  <2> QED BY <2>1, <2>2
<1> HIDE DEF r
<1>7. comp \in [Components -> ComponentType] /\ r.k \in ComponentType
  BY <1>6 DEF IInv, TypeOK, Sound
<1>8. comp' \in [Components -> ComponentType] /\ comp'[c] = r.k
      /\ \A d \in Components \ {c} : comp'[d] = comp[d]
  BY <1>3, <1>4, <1>7
<1>9. frames' \in Seq(FrameType) /\ \A i \in DOMAIN frames' : frames'[i].tcp = mode'.reliable
  <2>1. \A i \in DOMAIN frames : frames[i].tcp = mode.reliable
    BY DEF IInv, Frames
  <2>2. CASE r.calls
    BY <1>1, <1>3, <2>1, <2>2
  <2>3. CASE ~r.calls
    <3>1. frames' = Tail(frames)
      BY <1>3, <2>3
    <3> QED BY <1>2, <1>3, <2>1, <3>1
  <2> QED BY <2>2, <2>3
<1>10. \A d \in Components :
         /\ Running(d)' => Running(d)
         /\ Running(d) /\ (d # c \/ r.calls) => Running(d)'
  <2>1. CASE r.calls
    BY <1>3, <2>1 DEF Running
  <2>2. CASE ~r.calls
    <3>1. frames' = Tail(frames)
      BY <1>3, <2>2
    <3> QED BY <1>2, <2>2, <3>1 DEF Running, c
  <2> QED BY <2>1, <2>2
<1>11. Frames'
  <2> SUFFICES ASSUME NEW d \in Components
               PROVE  /\ Running(d)' => comp'[d].tcp # "LISTEN"
                      /\ Stuck(comp'[d]) /\ comp'[d].cb => Running(d)'
    BY <1>9 DEF Frames, Stuck
  <2>1. CASE d = c
    BY <1>4, <1>5, <1>6, <1>8, <1>10, <2>1
  <2>2. CASE d # c
    BY <1>8, <1>10, <2>2, IInvFacts
  <2> QED BY <2>1, <2>2
<1>12. \A d \in Components : Sound(comp[d])'
  <2> TAKE d \in Components
  <2>1. CASE d = c
    BY <1>3, <1>6, <1>8, <2>1 DEF Sound, Stuck
  <2>2. CASE d # c
    BY <1>3, <1>8, <2>2 DEF IInv, Sound, Stuck
  <2> QED BY <2>1, <2>2
<1>13. \A d \in Components : /\ comp'[d].tick = comp[d].tick /\ comp'[d].id = comp[d].id
                             /\ comp'[d].state = comp[d].state /\ comp'[d].tcp = comp[d].tcp
  BY <1>6, <1>8 DEF k
<1>14. KeepalivesRemembered' /\ Heard'
  BY <1>3, <1>13, SameRequests DEF IInv
<1>15. TypeOK'
  BY <1>3, <1>8, <1>9 DEF IInv, TypeOK, FrameType
<1> QED BY <1>11, <1>12, <1>13, <1>14, <1>15 DEF IInv, Fails
(* A step of one component that may end its request.                        *)
LEMMA EndingStep ==
  ASSUME IInv, mode' = mode, NEW c \in Components, NEW n, Sound(n),
         comp' = [comp EXCEPT ![c] = n], frames' = frames,
         n.tcp = comp[c].tcp, n.cb = comp[c].cb, n.rx = comp[c].rx,
         n.bReadEnable = comp[c].bReadEnable, n.id = comp[c].id,
         n.tick => comp[c].tick,
         comp[c].tick /\ ~n.tick => <<c, comp[c].id>> \notin slots' \ lost',
         n.tick /\ <<c, comp[c].id>> \in slots => <<c, comp[c].id>> \in slots',
         \A d \in Components \ {c}, i \in Nat : <<d, i>> \in slots => <<d, i>> \in slots',
         slots' \subseteq slots, lost \subseteq lost', lost' \subseteq Components \X Nat,
         full' = full, wire' \subseteq wire,
         timer' \in BOOLEAN, left' \in LeftType, heard' \subseteq Components,
         media' = TRUE \/ (media' = media /\ heard' = heard)
  PROVE  /\ IInv' /\ comp'[c] = n
         /\ \A d \in Components \ {c} : comp'[d] = comp[d] /\ ~Fails(d)
<1> DEFINE r == [k |-> n, calls |-> FALSE]
<1>1. r.k = n /\ r.calls = FALSE /\ Became(c, r)
  BY DEF Became
<1> HIDE DEF r
<1>2. TypeOK /\ (\A d \in Components : Sound(comp[d])) /\ Frames /\ KeepalivesRemembered /\ Heard
  BY DEF IInv
<1>3. (Running(c) => n.tcp # "LISTEN") /\ (Stuck(n) /\ n.cb => Running(c))
  BY IInvFacts DEF Stuck
<1>4. /\ comp' \in [Components -> ComponentType] /\ frames' \in Seq(FrameType)
      /\ \A d \in Components : Sound(comp[d])'
      /\ Frames' /\ comp'[c] = n /\ \A d \in Components \ {c} : comp'[d] = comp[d]
  BY <1>1, <1>2, <1>3, BecameKeeps
<1>5. ASSUME NEW d \in Components
      PROVE  /\ comp'[d].id = comp[d].id /\ (comp'[d].tick => comp[d].tick)
             /\ comp[d].tick /\ ~comp'[d].tick => <<d, comp[d].id>> \notin slots' \ lost'
             /\ comp'[d].tick /\ <<d, comp[d].id>> \in slots => <<d, comp[d].id>> \in slots'
  <2>1. CASE d = c
    BY <1>4, <2>1
  <2>2. CASE d # c
    <3>1. comp[d].id \in Nat
      BY <1>2 DEF Sound, ComponentType
    <3> QED BY <1>4, <2>2, <3>1
  <2> QED BY <2>1, <2>2
<1>6. KeepalivesRemembered' /\ Heard'
  BY <1>2, <1>5, FewerRequests
<1>7. TypeOK'
  <2>1. media' \in BOOLEAN /\ full' \in BOOLEAN
    BY <1>2, Zenon DEF TypeOK
  <2>2. slots' \subseteq Components \X Nat /\ wire' \subseteq Components \X Nat
        /\ mode' \in [reliable : BOOLEAN, google : BOOLEAN]
    BY <1>2 DEF TypeOK
  <2> QED BY <1>4, <2>1, <2>2, Zenon DEF TypeOK, LeftType, FrameType
<1>8. \A d \in Components \ {c} : ~Fails(d)
  BY <1>4 DEF Fails
<1> QED BY <1>4, <1>6, <1>7, <1>8 DEF IInv

LEMMA SetSelectedKeeps ==
  ASSUME IInv, NEW c \in Components, xice_agent_set_selected_remote_candidate(c)
  PROVE  IInv' /\ \A d \in Components : ~Fails(d)
<1> DEFINE k == comp[c]
           m == Reselected(k)
           n == agent_signal_component_state_change(m, "READY")
<1>1. Sound(k) /\ k \in ComponentType /\ timer \in BOOLEAN /\ heard \subseteq Components
  BY IInvFacts
<1>2. /\ Sound(m) /\ ~m.tick /\ m.tcp = k.tcp /\ m.state = k.state /\ m.cb = k.cb
      /\ m.rx = k.rx /\ m.bReadEnable = k.bReadEnable /\ m.id = k.id
  BY <1>1, ReselectedFacts
<1> HIDE DEF m
<1>3. Sound(n) /\ n = [m EXCEPT !.state = n.state] /\ n.state \in {m.state, "READY"}
  BY <1>2, StateChangeFacts
<1>4. adjust_tcp_clock(n) = n
  BY <1>3, ClockFacts
<1> HIDE DEF n
<1>5. comp' = [comp EXCEPT ![c] = n]
  BY <1>4 DEF xice_agent_set_selected_remote_candidate, n, m
<1>6. /\ ~n.tick /\ n.tcp = k.tcp /\ n.cb = k.cb /\ n.rx = k.rx
      /\ n.bReadEnable = k.bReadEnable /\ n.id = k.id
  BY <1>2, <1>3 DEF Sound, ComponentType
<1>7. /\ lost' = lost \cup (IF k.tick THEN {<<c, k.id>>} ELSE {})
      /\ mode' = mode /\ slots' = slots /\ media' = media /\ timer' = timer /\ frames' = frames
      /\ wire' = wire /\ heard' = heard /\ full' = full
  BY DEF xice_agent_set_selected_remote_candidate, Armed
<1>8. left' \in LeftType
  BY SpendFacts DEF IInv, xice_agent_set_selected_remote_candidate
<1>9. k.id \in Nat /\ lost \subseteq Components \X Nat
  BY <1>1 DEF ComponentType, IInv, TypeOK
<1>10. lost' \subseteq Components \X Nat /\ lost \subseteq lost' /\ (k.tick => <<c, k.id>> \in lost')
  BY <1>7, <1>9
<1>11. /\ IInv' /\ comp'[c] = n
       /\ \A d \in Components \ {c} : comp'[d] = comp[d] /\ ~Fails(d)
  BY <1>1, <1>3, <1>5, <1>6, <1>7, <1>8, <1>10, EndingStep
<1> QED BY <1>2, <1>3, <1>6, <1>11 DEF Fails

(* A component fails by a timeout only when the agent received nothing      *)
(* since its last request.                                                  *)
LEMMA KeepaliveTimeoutKeeps ==
  ASSUME IInv, NEW c \in Components, KeepaliveTimeout(c)
  PROVE  /\ IInv' /\ \A d \in Components \ {c} : ~Fails(d)
         /\ Fails(c) => c \notin heard \/ full
<1> DEFINE k == comp[c]
           m == [k EXCEPT !.tick = FALSE]
           n == IF media THEN [m EXCEPT !.buffer = FALSE]
                         ELSE agent_signal_component_state_change(m, "FAILED")
<1>1. /\ Sound(k) /\ k \in ComponentType /\ k.tick /\ timer \in BOOLEAN
      /\ left \in LeftType /\ heard \subseteq Components
  BY IInvFacts DEF KeepaliveTimeout, Armed
<1>2. /\ Sound(m) /\ m \in ComponentType /\ ~m.tick /\ m.tcp = k.tcp /\ m.state = k.state
      /\ m.cb = k.cb /\ m.rx = k.rx /\ m.bReadEnable = k.bReadEnable /\ m.id = k.id
  BY <1>1 DEF Sound, Stuck, ComponentType
<1>3. comp' = [comp EXCEPT ![c] = n]
  BY DEF KeepaliveTimeout
<1> HIDE DEF m
<1>4. /\ Sound(n) /\ ~n.tick /\ n.tcp = k.tcp /\ n.cb = k.cb /\ n.rx = k.rx
      /\ n.bReadEnable = k.bReadEnable /\ n.id = k.id /\ (media => n.state = k.state)
  <2>1. CASE media
    <3> DEFINE b == [m EXCEPT !.buffer = FALSE]
    <3>1. n = b
      BY <2>1
    <3>2. /\ Sound(b) /\ ~b.tick /\ b.tcp = k.tcp /\ b.cb = k.cb /\ b.rx = k.rx
          /\ b.bReadEnable = k.bReadEnable /\ b.id = k.id /\ b.state = k.state
      BY <1>2 DEF Sound, Stuck, ComponentType
    <3> HIDE DEF b, n
    <3> QED BY <3>1, <3>2
  <2>2. CASE ~media
    <3> DEFINE b == agent_signal_component_state_change(m, "FAILED")
    <3>1. n = b
      BY <2>2
    <3>2. Sound(b) /\ b = [m EXCEPT !.state = b.state]
      BY <1>2, StateChangeFacts
    <3> HIDE DEF b, n
    <3>3. /\ ~b.tick /\ b.tcp = k.tcp /\ b.cb = k.cb /\ b.rx = k.rx
          /\ b.bReadEnable = k.bReadEnable /\ b.id = k.id
      BY <1>2, <3>2 DEF ComponentType
    <3> QED BY <2>2, <3>1, <3>2, <3>3
  <2> QED BY <2>1, <2>2
<1> HIDE DEF n
<1>5. /\ slots' = slots \ {<<c, k.id>>} /\ mode' = mode /\ media' = media /\ timer' = timer
      /\ frames' = frames /\ wire' = wire /\ left' = left /\ lost' = lost /\ heard' = heard /\ full' = full
  BY DEF KeepaliveTimeout
<1>6. lost' \subseteq Components \X Nat
  BY <1>5 DEF IInv, TypeOK
<1>7. /\ <<c, k.id>> \notin slots' /\ slots' \subseteq slots
      /\ \A d \in Components \ {c}, i \in Nat : <<d, i>> \in slots => <<d, i>> \in slots'
  BY <1>5
<1>8. /\ IInv' /\ comp'[c] = n
      /\ \A d \in Components \ {c} : comp'[d] = comp[d] /\ ~Fails(d)
  BY <1>1, <1>3, <1>4, <1>5, <1>6, <1>7, EndingStep
<1>9. ASSUME Fails(c)
      PROVE  c \notin heard \/ full
  <2>1. ~media
    BY <1>4, <1>8, <1>9 DEF Fails
  <2> QED BY <1>1, <2>1 DEF IInv, Heard
<1> QED BY <1>8, <1>9

(* An answer ends the request it answers and no other.                      *)
LEMMA ReceiveReplyKeeps ==
  ASSUME IInv, NEW c \in Components, NEW i \in 1 .. comp[c].id, ReceiveReply(c, i)
  PROVE  IInv' /\ \A d \in Components : ~Fails(d)
<1> DEFINE k == comp[c]
<1>1. /\ Sound(k) /\ k \in ComponentType /\ timer \in BOOLEAN
      /\ left \in LeftType /\ heard \cup {c} \subseteq Components
  BY IInvFacts
<1>2. /\ wire' \subseteq wire /\ slots' = slots \ {<<c, i>>} /\ mode' = mode /\ timer' = timer
      /\ left' = left /\ lost' = lost /\ full' = full /\ media' = TRUE
      /\ heard' = heard \cup {c} /\ Idle
  BY DEF ReceiveReply, Received
<1>3. CASE <<c, i>> \notin slots
  <2>1. PassedOn(c) /\ slots' = slots
    BY <1>2, <1>3 DEF ReceiveReply
  <2> QED BY <1>1, <1>2, <2>1, PassedOnKeeps
<1>4. CASE <<c, i>> \in slots
  <2> DEFINE n == IF k.buffer /\ k.id = i THEN [k EXCEPT !.tick = FALSE, !.buffer = FALSE] ELSE k
  <2>1. frames' = frames /\ comp' = [comp EXCEPT ![c] = n]
    <3>1. comp \in [Components -> ComponentType]
      BY DEF IInv, TypeOK
    <3>2. CASE k.buffer /\ k.id = i
      <4>1. comp' = [comp EXCEPT ![c].tick = FALSE, ![c].buffer = FALSE]
        BY <1>4, <3>2 DEF ReceiveReply
      <4>2. [comp EXCEPT ![c].tick = FALSE, ![c].buffer = FALSE]
              = [comp EXCEPT ![c] = [k EXCEPT !.tick = FALSE, !.buffer = FALSE]]
        BY <3>1
      <4> QED BY <1>4, <3>2, <4>1, <4>2 DEF ReceiveReply
    <3>3. CASE ~(k.buffer /\ k.id = i)
      BY <1>4, <3>1, <3>3 DEF ReceiveReply
    <3> QED BY <3>2, <3>3
  <2>2. /\ Sound(n) /\ n.tcp = k.tcp /\ n.cb = k.cb /\ n.rx = k.rx /\ n.state = k.state
        /\ n.bReadEnable = k.bReadEnable /\ n.id = k.id
        /\ (n.tick => k.tick /\ k.id # i) /\ (k.tick /\ ~n.tick => k.id = i)
    <3>1. CASE k.buffer /\ k.id = i
      <4> DEFINE b == [k EXCEPT !.tick = FALSE, !.buffer = FALSE]
      <4>1. n = b
        BY <3>1
      <4>2. /\ Sound(b) /\ b.tcp = k.tcp /\ b.cb = k.cb /\ b.rx = k.rx /\ b.state = k.state
            /\ b.bReadEnable = k.bReadEnable /\ b.id = k.id /\ ~b.tick
        BY <1>1 DEF Sound, Stuck, ComponentType
      <4> HIDE DEF b, n
      <4> QED BY <3>1, <4>1, <4>2
    <3>2. CASE ~(k.buffer /\ k.id = i)
      <4>1. n = k
        BY <3>2
      <4>2. k.tick => k.buffer
        BY <1>1 DEF Sound
      <4> HIDE DEF n
      <4> QED BY <1>1, <3>2, <4>1, <4>2
    <3> QED BY <3>1, <3>2
  <2> HIDE DEF n
  <2>3. lost' \subseteq Components \X Nat
    BY <1>2 DEF IInv, TypeOK
  <2>4. /\ slots' \subseteq slots
        /\ k.tick /\ ~n.tick => <<c, k.id>> \notin slots' \ lost'
        /\ n.tick /\ <<c, k.id>> \in slots => <<c, k.id>> \in slots'
        /\ \A d \in Components \ {c}, j \in Nat : <<d, j>> \in slots => <<d, j>> \in slots'
    BY <1>2, <2>2
  <2>5. /\ IInv' /\ comp'[c] = n
        /\ \A d \in Components \ {c} : comp'[d] = comp[d] /\ ~Fails(d)
    BY <1>1, <1>2, <2>1, <2>2, <2>3, <2>4, EndingStep
  <2> QED BY <2>2, <2>5 DEF Fails
<1> QED BY <1>3, <1>4

LEMMA RemoveStreamKeeps ==
  ASSUME IInv, xice_agent_remove_stream
  PROVE  IInv'
<1>1. /\ comp' = [c \in Components |-> component_free(comp[c])] /\ timer' = FALSE
      /\ lost' = lost \cup Outstanding /\ mode' = mode /\ slots' = slots /\ media' = media
      /\ frames' = frames /\ wire' = wire /\ heard' = heard /\ full' = full /\ Idle
  BY DEF xice_agent_remove_stream
<1>2. ASSUME NEW c \in Components
      PROVE  LET n == component_free(comp[c])
             IN  /\ Sound(n) /\ n \in ComponentType /\ n.tcp = "none" /\ ~n.tick /\ n.id = comp[c].id
  <2>1. Sound(comp[c])
    BY DEF IInv
  <2> QED BY <2>1 DEF Sound, Stuck, ComponentType, component_free, priv_destroy_component_tcp
<1>3. \A c \in Components :
        /\ Sound(comp'[c]) /\ comp'[c] \in ComponentType /\ comp'[c].tcp = "none"
        /\ ~comp'[c].tick /\ comp'[c].id = comp[c].id
  BY <1>1, <1>2
<1>4. left' \in LeftType
  BY SpendFacts DEF IInv, xice_agent_remove_stream
<1>5. Outstanding \subseteq Components \X Nat
  BY DEF Outstanding, IInv, Sound, ComponentType
<1>6. TypeOK'
  <2>1. comp' \in [Components -> ComponentType]
    BY <1>1, <1>3
  <2>2. lost' \subseteq Components \X Nat
    BY <1>1, <1>5 DEF IInv, TypeOK
  <2> QED BY <1>1, <1>4, <2>1, <2>2 DEF IInv, TypeOK, LeftType
<1>7. \A c \in Components : Sound(comp[c])'
  BY <1>1, <1>3 DEF Sound, Stuck
<1>8. Frames'
  <2>1. \A c \in Components : ~Running(c)'
    BY <1>1 DEF Idle, Running
  <2> QED BY <1>1, <1>3, <2>1 DEF IInv, Frames, Stuck
<1>9. ASSUME NEW d \in Components
      PROVE  /\ comp'[d].id = comp[d].id /\ (comp'[d].tick => comp[d].tick)
             /\ comp[d].tick /\ ~comp'[d].tick => <<d, comp[d].id>> \notin slots' \ lost'
             /\ comp'[d].tick /\ <<d, comp[d].id>> \in slots => <<d, comp[d].id>> \in slots'
  BY <1>1, <1>3, OutstandingFacts
<1>10. KeepalivesRemembered' /\ Heard'
  BY <1>1, <1>9, FewerRequests DEF IInv
<1> QED BY <1>6, <1>7, <1>8, <1>10 DEF IInv
-----------------------------------------------------------------------------
(* The theorems.                                                            *)

(* What a step owes FailsForCause.                                          *)
Caused(c) ==
  Fails(c) => \/ ReceiveReset(c) \/ ClockGivesUp(c) \/ xice_agent_remove_stream
              \/ KeepaliveTimeout(c) /\ (c \notin heard \/ full)

(* Every step of the agent keeps IInv, and fails a component only for a     *)
(* cause.                                                                   *)
LEMMA StepHolds ==
  ASSUME IInv, [Next]_vars
  PROVE  IInv' /\ \A c \in Components : Caused(c)
<1>1. CASE KeepaliveTick
  BY <1>1, KeepaliveTickKeeps DEF Caused
<1>2. CASE ScheduleNext
  BY <1>2, ScheduleNextKeeps DEF Caused
<1>3. CASE CallbackReturns
  BY <1>3, CallbackReturnsKeeps DEF Caused
<1>4. CASE xice_agent_remove_stream
  BY <1>4, RemoveStreamKeeps DEF Caused
<1>5. ASSUME NEW c \in Components, RetransmitKeepalive(c)
      PROVE  IInv' /\ \A d \in Components : Caused(d)
  BY <1>5, RetransmitKeeps DEF Caused
<1>6. ASSUME NEW c \in Components, KeepaliveTimeout(c)
      PROVE  IInv' /\ \A d \in Components : Caused(d)
  BY <1>6, KeepaliveTimeoutKeeps DEF Caused
<1>7. ASSUME NEW c \in Components, NEW func \in BOOLEAN, xice_agent_attach_recv(c, func)
      PROVE  IInv' /\ \A d \in Components : Caused(d)
  BY <1>7, AttachKeeps DEF Caused
<1>8. ASSUME NEW c \in Components, priv_update_selected_pair(c)
      PROVE  IInv' /\ \A d \in Components : Caused(d)
  BY <1>8, UpdateSelectedPairKeeps DEF Caused
<1>9. ASSUME NEW c \in Components, xice_agent_set_selected_remote_candidate(c)
      PROVE  IInv' /\ \A d \in Components : Caused(d)
  BY <1>9, SetSelectedKeeps DEF Caused
<1>10. ASSUME NEW c \in Components, ChecksReady(c)
       PROVE  IInv' /\ \A d \in Components : Caused(d)
  BY <1>10, ChecksReadyKeeps DEF Caused
<1>11. ASSUME NEW c \in Components, ReceiveData(c)
       PROVE  IInv' /\ \A d \in Components : Caused(d)
  BY <1>11, ReceiveDataKeeps DEF Caused
<1>12. ASSUME NEW c \in Components, ReceiveOpening(c)
       PROVE  IInv' /\ \A d \in Components : Caused(d)
  BY <1>12, ReceiveOpeningKeeps DEF Caused
<1>13. ASSUME NEW c \in Components, ReceiveReset(c)
       PROVE  IInv' /\ \A d \in Components : Caused(d)
  BY <1>13, ReceiveResetKeeps DEF Caused
<1>14. ASSUME NEW c \in Components, ClockGivesUp(c)
       PROVE  IInv' /\ \A d \in Components : Caused(d)
  BY <1>14, ClockGivesUpKeeps DEF Caused
<1>15. ASSUME NEW c \in Components, NEW i \in 1 .. comp[c].id, ReceiveReply(c, i)
       PROVE  IInv' /\ \A d \in Components : Caused(d)
  BY <1>15, ReceiveReplyKeeps DEF Caused
<1>16. CASE UNCHANGED vars
  <2>1. /\ mode' = mode /\ comp' = comp /\ slots' = slots /\ media' = media /\ timer' = timer
        /\ frames' = frames /\ wire' = wire /\ left' = left /\ lost' = lost /\ heard' = heard
        /\ full' = full
    BY <1>16 DEF vars
  <2>2. TypeOK'
    BY <2>1 DEF IInv, TypeOK
  <2>3. \A c \in Components : Sound(comp[c])'
    BY <2>1 DEF IInv, Sound, Stuck
  <2>4. Frames'
    BY <2>1 DEF IInv, Frames, Running, Stuck
  <2>5. KeepalivesRemembered' /\ Heard'
    BY <2>1, SameRequests DEF IInv
  <2> QED BY <2>1, <2>2, <2>3, <2>4, <2>5 DEF IInv, Caused, Fails
<1> QED
  BY <1>1, <1>2, <1>3, <1>4, <1>5, <1>6, <1>7, <1>8, <1>9, <1>10, <1>11, <1>12, <1>13, <1>14,
     <1>15, <1>16 DEF Next

(* IInv is an invariant of the agent.                                       *)
THEOREM Invariance == Spec => []IInv
<1>1. IInv /\ [Next]_vars => IInv'
  BY StepHolds
<1> QED BY <1>1, InitHolds, PTL DEF Spec

(* Timers live as long as what they act on, and a component of a reliable   *)
(* agent without its socket is FAILED, for any number of components         *)
(* (priv_pseudo_tcp_error, component_free,                                  *)
(* agent_signal_component_state_change).                                    *)
THEOREM TimersAlwaysFollowSockets == Spec => []TimersFollowSockets
<1>1. IInv => TimersFollowSockets
  BY DEF IInv, Sound, TimersFollowSockets
<1> QED BY <1>1, Invariance, PTL

(* No data is stranded in a pseudo-TCP socket, for any nesting of callbacks *)
(* and attaches (pseudo_tcp_socket_readable, xice_agent_attach_recv).       *)
THEOREM NothingEverStranded == Spec => []NothingStranded
<1>1. IInv => NothingStranded
  BY DEF IInv, Frames, Stuck, NothingStranded
<1> QED BY <1>1, Invariance, PTL

(* The STUN agent's account of the keepalives is right however many         *)
(* transactions it can hold (priv_conn_keepalive_tick_unlocked and          *)
(* priv_conn_keepalive_retransmissions_tick).                               *)
THEOREM KeepalivesAlwaysRemembered == Spec => []KeepalivesRemembered
<1>1. IInv => KeepalivesRemembered
  BY DEF IInv
<1> QED BY <1>1, Invariance, PTL

(* A component fails only because its socket was closed or gave up, or      *)
(* because nothing was received for it since its last keepalive             *)
(* (priv_conn_keepalive_retransmissions_tick, agent->media_after_tick).     *)
THEOREM AlwaysFailsForCause == Spec => FailsForCause
<1> DEFINE Cause(c) ==
      \/ comp[c].state # "FAILED" /\ comp'[c].state = "FAILED"
      \/ comp[c].tcp # "none" /\ comp'[c].tcp = "none"
      => \/ ReceiveReset(c) \/ ClockGivesUp(c) \/ xice_agent_remove_stream
         \/ KeepaliveTimeout(c) /\ (c \notin heard \/ full)
<1>1. IInv /\ [Next]_vars => [\A c \in Components : Cause(c)]_vars
  BY StepHolds DEF Caused, Fails
<1>2. Spec => [][\A c \in Components : Cause(c)]_vars
  BY <1>1, Invariance, PTL DEF Spec
<1> QED BY <1>2 DEF FailsForCause
=============================================================================
