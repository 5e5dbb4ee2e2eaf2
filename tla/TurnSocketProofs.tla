-------------------------- MODULE TurnSocketProofs --------------------------
(***************************************************************************)
(* Every step of TurnSocket keeps the inductive invariant, and what        *)
(* follows for any set of peers and any bounds.                            *)
(***************************************************************************)
EXTENDS TurnSocketLemmas

USE BoundsAreNat

-----------------------------------------------------------------------------
(* The steps.                                                              *)

(* xice_turn_socket_set_peer keeps the invariant.                          *)
LEMMA SetPeerHolds ==
  ASSUME Held(priv), NEW p \in Peers, xice_turn_socket_set_peer(p)
  PROVE  Held(priv')
<1>1. Good(priv, NoOne) /\ BindInv(priv) /\ priv \in Privs
  BY DEF Held, Good
<1>2. priv' \in priv_add_channel_binding(priv, p)
  BY DEF xice_turn_socket_set_peer
<1>3. PICK n, m \in Nat :
        /\ n = Len(priv.channels) /\ m = Len(priv.pending_bindings)
        /\ Made(priv) = n + m + (IF priv.current_binding # None THEN 1 ELSE 0)
  BY <1>1, MadeValue
<1>4. n + m < MaxBindings /\ Made(priv) = n + m + (IF priv.current_binding # None THEN 1 ELSE 0)
  BY <1>3, Zenon DEF xice_turn_socket_set_peer
<1>5. Made(priv) <= MaxBindings
  BY <1>4
<1>6. Agree(priv)
  BY <1>1 DEF BindInv
<1> QED BY <1>1, <1>2, <1>5, <1>6, AddKeeps DEF Held

(* socket_send keeps the invariant, asking for a permission or not.        *)
LEMMA SendHolds ==
  ASSUME Held(priv), NEW p \in Peers, socket_send(p)
  PROVE  Held(priv')
<1>1. Good(priv, NoOne) /\ BindInv(priv) /\ priv \in Privs /\ PermInv(priv, NoOne)
  BY DEF Held, Good
<1>2. p \notin priv.permissions /\ priv.queue[p] < MaxData
  BY DEF socket_send
<1>3. CASE p \in priv.sent_permissions /\ priv' = Enqueued(priv, p)
  BY <1>2, <1>3, EnqueuedKeeps
<1>4. CASE /\ p \notin priv.sent_permissions
           /\ priv' \in {Enqueued(t, p) : t \in priv_send_create_permission(priv, FALSE, p)}
  <2>1. PICK t \in priv_send_create_permission(priv, FALSE, p) : priv' = Enqueued(t, p)
    BY <1>4
  <2> DEFINE n == priv.queue[p]
             X == One(p, n)
             u == Asked(priv, p)
  <2>2. /\ u \in Privs /\ SameBindings(priv, u)
        /\ u.sent_permissions = priv.sent_permissions \cup {p}
        /\ u.permissions = priv.permissions /\ u.queue = priv.queue
        /\ u.pending_permissions = priv.pending_permissions
    BY <1>1 DEF Asked, Privs, SameBindings
  <2> HIDE DEF u
  <2>3. DOMAIN X = {p} /\ X[p] = n /\ DOMAIN NoOne = {}
    BY DEF One, NoOne
  <2> HIDE DEF X
  <2>4. PermInv(u, X)
    <3>1. \A x \in DOMAIN X : u.queue[x] = X[x]
      BY <2>2, <2>3
    <3>2. \A j \in 1..Len(priv.pending_permissions) :
            priv.pending_permissions[j].peer \in priv.sent_permissions \ IPv6
      BY <1>1 DEF PermInv
    <3>3. \A j \in 1..Len(u.pending_permissions) :
            u.pending_permissions[j].peer \in (u.sent_permissions \ IPv6) \ DOMAIN X
      BY <1>4, <2>2, <2>3, <3>2
    <3>4. \A x \in u.sent_permissions \ IPv6 : x \in DOMAIN X \/
            \E j \in 1..Len(u.pending_permissions) : u.pending_permissions[j].peer = x
      BY <1>1, <2>2, <2>3 DEF PermInv
    <3>5. /\ DOMAIN X \subseteq u.sent_permissions
          /\ u.sent_permissions \cap u.permissions = {}
      BY <1>1, <1>2, <2>2, <2>3 DEF PermInv
    <3>6. \A x \in Peers : u.queue[x] > 0 => x \in u.sent_permissions
      BY <1>1, <2>2 DEF PermInv
    <3>7. \A i, j \in 1..Len(u.pending_permissions) :
            u.pending_permissions[i].peer = u.pending_permissions[j].peer => i = j
      BY <1>1, <2>2 DEF PermInv
    <3> QED BY <3>1, <3>3, <3>4, <3>5, <3>6, <3>7 DEF PermInv
  <2>5. Good(u, X) /\ BindInv(u)
    BY <1>1, <2>2, <2>4, SameBindingsKeep DEF Good
  <2>6. ASSUME p \in IPv6
        PROVE  Held(t) /\ p \in t.sent_permissions /\ t.queue[p] = n
    <3>1. t = u
      BY <2>1, <2>6 DEF priv_send_create_permission, Asked, u
    <3>2. u.sent_permissions \ IPv6 = priv.sent_permissions \ IPv6
      BY <2>2, <2>6
    <3>3. /\ \A i, j \in 1..Len(u.pending_permissions) :
               u.pending_permissions[i].peer = u.pending_permissions[j].peer => i = j
          /\ \A j \in 1..Len(u.pending_permissions) :
               u.pending_permissions[j].peer \in u.sent_permissions \ IPv6
          /\ \A x \in u.sent_permissions \ IPv6 :
               \E j \in 1..Len(u.pending_permissions) : u.pending_permissions[j].peer = x
      <4>1. /\ \A j \in 1..Len(priv.pending_permissions) :
                 priv.pending_permissions[j].peer \in priv.sent_permissions \ IPv6
            /\ \A x \in priv.sent_permissions \ IPv6 :
                 \E j \in 1..Len(priv.pending_permissions) : priv.pending_permissions[j].peer = x
        BY <1>1, <2>3 DEF PermInv
      <4> QED BY <2>4, <2>2, <3>2, <4>1 DEF PermInv
    <3>4. /\ u.sent_permissions \cap u.permissions = {}
          /\ \A x \in Peers : u.queue[x] > 0 => x \in u.sent_permissions
      BY <2>4 DEF PermInv
    <3>5. PermInv(u, NoOne)
      BY <2>3, <3>3, <3>4 DEF PermInv
    <3> QED BY <2>2, <2>5, <3>1, <3>5 DEF Held, Good
  <2>7. ASSUME p \notin IPv6
        PROVE  Held(t) /\ p \in t.sent_permissions /\ t.queue[p] = n
    <3> HIDE DEF n
    <3>1. Good(Asked(priv, p), One(p, n)) /\ BindInv(Asked(priv, p))
      BY <2>5 DEF u, X
    <3>2. PICK r \in BOOLEAN : t \in priv_send_create_permission(priv, r, p)
      BY <2>1, Zenon
    <3> QED BY <3>1, <3>2, <2>7, AskKeeps
  <2>8. Held(t) /\ p \in t.sent_permissions /\ t.queue[p] = n
    BY <2>6, <2>7
  <2> QED BY <1>2, <2>1, <2>8, EnqueuedKeeps
<1> QED BY <1>3, <1>4 DEF socket_send

(* socket_close leaves nothing that could break the invariant.             *)
LEMMA CloseHolds ==
  ASSUME Held(priv), socket_close
  PROVE  Held(priv')
<1> DEFINE q == [p \in Peers |-> 0]
<1>1. priv \in Privs
  BY DEF Held, Good
<1>2. q \in [Peers -> 0..MaxData] /\ \A p \in Peers : q[p] = 0
  OBVIOUS
<1>0. /\ <<>> \in Seq(Bindings) /\ <<>> \in Seq(Peers)
      /\ <<>> \in Seq([peer : Peers, realm : BOOLEAN])
  OBVIOUS
<1> DEFINE u == [priv EXCEPT
             !.channels = <<>>, !.pending_bindings = <<>>, !.current_binding = None,
             !.current_binding_msg = None, !.tick_channel = FALSE]
           v == [u EXCEPT
             !.pending_permissions = <<>>, !.sent_permissions = {}, !.permissions = {},
             !.permission_timer = FALSE, !.tick_permission = FALSE,
             !.queue = q, !.closed = TRUE]
<1>a. priv' = v
  BY DEF socket_close
<1>b. /\ u \in Privs
      /\ u.channels = <<>> /\ u.pending_bindings = <<>> /\ u.current_binding = None
      /\ u.current_binding_msg = None
  BY <1>0, <1>1 DEF Privs
<1> HIDE DEF u
<1> HIDE DEF q
<1>3. /\ priv' \in Privs
      /\ priv'.channels = <<>> /\ priv'.pending_bindings = <<>> /\ priv'.current_binding = None
      /\ priv'.current_binding_msg = None /\ priv'.pending_permissions = <<>>
      /\ priv'.sent_permissions = {} /\ priv'.permissions = {} /\ priv'.queue = q
  BY <1>0, <1>2, <1>a, <1>b DEF Privs
<1>4. PermInv(priv', NoOne)
  BY <1>2, <1>3 DEF PermInv, NoOne
<1>5. BindInv(priv')
  <2>1. Made(priv') = 0
    BY <1>3 DEF Made
  <2> QED BY <1>3, <2>1 DEF BindInv, Agree
<1> QED BY <1>3, <1>4, <1>5 DEF Held, Good

(* Dropping the permissions ends no request and no queue.                  *)
LEMMA PermissionTimeoutHolds ==
  ASSUME Held(priv), priv_permission_timeout
  PROVE  Held(priv')
<1>1. priv \in Privs /\ PermInv(priv, NoOne) /\ BindInv(priv)
  BY DEF Held, Good
<1>2. /\ priv' \in Privs /\ SameBindings(priv, priv') /\ priv'.permissions = {}
      /\ priv'.pending_permissions = priv.pending_permissions
      /\ priv'.sent_permissions = priv.sent_permissions /\ priv'.queue = priv.queue
  BY <1>1 DEF priv_permission_timeout, Privs, SameBindings
<1>3. PermInv(priv', NoOne)
  BY <1>1, <1>2 DEF PermInv
<1>4. BindInv(priv')
  BY <1>1, <1>2, SameBindingsKeep
<1> QED BY <1>2, <1>3, <1>4 DEF Held, Good

(* A new socket has nothing that waits.                                    *)
LEMMA InitHeld == Init => Held(priv)
<1> SUFFICES ASSUME Init PROVE Held(priv)
  OBVIOUS
<1> DEFINE q == [p \in Peers |-> 0]
<1>1. q \in [Peers -> 0..MaxData] /\ \A p \in Peers : q[p] = 0
  OBVIOUS
<1> HIDE DEF q
<1>2. /\ priv \in Privs
      /\ priv.channels = <<>> /\ priv.pending_bindings = <<>> /\ priv.current_binding = None
      /\ priv.current_binding_msg = None /\ priv.pending_permissions = <<>>
      /\ priv.sent_permissions = {} /\ priv.permissions = {} /\ priv.queue = q
  BY <1>1 DEF Init, Privs, q
<1>3. PermInv(priv, NoOne)
  BY <1>1, <1>2 DEF PermInv, NoOne
<1>4. BindInv(priv)
  <2>1. Made(priv) = 0
    BY <1>2 DEF Made
  <2> QED BY <1>2, <2>1 DEF BindInv, Agree
<1> QED BY <1>2, <1>3, <1>4 DEF Held, Good

(* The parts of the bindings and messages have their types.                *)
LEMMA BindingTypes ==
  ASSUME NEW s \in Privs
  PROVE  /\ s.channels \in Seq(Bindings) /\ Len(s.channels) \in Nat
         /\ s.current_binding # None =>
              s.current_binding.peer \in Peers /\ s.current_binding.channel \in Channels
         /\ s.current_binding_msg # None =>
              s.current_binding_msg.peer \in Peers /\ s.current_binding_msg.channel \in Channels
         /\ \A j \in 1..Len(s.channels) :
              /\ s.channels[j] \in Bindings
              /\ s.channels[j].peer \in Peers /\ s.channels[j].channel \in Channels
<1>1. s.channels \in Seq(Bindings)
  BY DEF Privs
<1>2. Len(s.channels) \in Nat /\ \A j \in 1..Len(s.channels) : s.channels[j] \in Bindings
  BY <1>1
<1>3. \A b \in Bindings : b.peer \in Peers /\ b.channel \in Channels
  BY DEF Bindings
<1>4. s.current_binding # None => s.current_binding \in [peer : Peers, channel : Channels]
  BY DEF Privs
<1>5. s.current_binding_msg # None =>
        s.current_binding_msg \in [peer : Peers, channel : Channels, realm : BOOLEAN]
  BY DEF Privs
<1> QED BY <1>1, <1>2, <1>3, <1>4, <1>5

(* A request sent again is for the same binding.                           *)
LEMMA RetryHolds ==
  ASSUME Held(priv), priv.current_binding_msg # None, NEW t \in BindRetry
  PROVE  Held(t)
<1> DEFINE s == [priv EXCEPT !.current_binding_msg = None]
           msg == priv.current_binding_msg
           i == FirstOf(priv.channels, msg.peer)
<1>1. priv \in Privs /\ PermInv(priv, NoOne) /\ BindInv(priv)
  BY DEF Held, Good
<1>2. /\ s \in Privs /\ SamePermissions(priv, s)
      /\ s.channels = priv.channels /\ s.pending_bindings = priv.pending_bindings
      /\ s.current_binding = priv.current_binding
  BY <1>1 DEF Privs, SamePermissions
<1>3. Good(s, NoOne)
  BY <1>1, <1>2, SamePermissionsKeep DEF Good
<1>4. CASE priv.current_binding # None
  <2> DEFINE c == priv.current_binding.channel
             p == priv.current_binding.peer
  <2>1. t \in priv_send_channel_bind(s, TRUE, c, p)
    BY <1>4 DEF BindRetry
  <2>2. c \in Channels /\ p \in Peers
    BY <1>1, <1>4, BindingTypes
  <2> HIDE DEF s
  <2>3. Good(t, NoOne) /\ Sent(s, t, c, p)
    <3> HIDE DEF c, p
    <3> QED BY <1>3, <2>1, <2>2, SentFacts
  <2>4. Made(t) = Made(priv) /\ Agree(t)
    <3>1. Made(t) = Made(priv)
      BY <1>2, <2>3 DEF Sent, Made
    <3>2. Agree(t)
      BY <1>1, <1>2, <2>3 DEF Sent, Agree, BindInv
    <3> QED BY <3>1, <3>2
  <2>5. BindInv(t)
    BY <1>1, <1>2, <1>4, <2>3, <2>4 DEF BindInv, Sent
  <2> QED BY <2>3, <2>5 DEF Held
<1>5. CASE priv.current_binding = None
  <2> DEFINE b == priv.channels[i]
  <2>1. \E j \in 1..Len(priv.channels) : priv.channels[j].peer = msg.peer
    BY <1>1, <1>5 DEF BindInv
  <2>2. i \in 1..Len(priv.channels) /\ b.peer = msg.peer
    BY <1>1, <2>1, BindingTypes, SearchFacts
  <2>3. t \in priv_send_channel_bind(s, TRUE, b.channel, msg.peer)
    <3>1. i # 0
      BY <1>1, <2>2, BindingTypes
    <3> QED BY <1>5, <3>1 DEF BindRetry, FirstOf
  <2>4. b.channel \in Channels /\ msg.peer \in Peers
    BY <1>1, <2>2, BindingTypes
  <2> HIDE DEF s, i
  <2>5. Good(t, NoOne) /\ Sent(s, t, b.channel, msg.peer)
    <3> HIDE DEF b, msg
    <3> QED BY <1>3, <2>3, <2>4, SentFacts
  <2>6. Made(t) = Made(priv)
    BY <1>2, <2>5 DEF Sent, Made
  <2>7. Agree(t)
    BY <1>1, <1>2, <2>5 DEF Sent, Agree, BindInv
  <2>8. t.channels = priv.channels /\ t.current_binding = None /\ t.pending_bindings = <<>>
    BY <1>1, <1>2, <1>5, <2>5 DEF Sent, BindInv
  <2>9. \E j \in 1..Len(t.channels) :
          /\ t.channels[j].peer = t.current_binding_msg.peer
          /\ t.channels[j].channel = t.current_binding_msg.channel
    BY <2>2, <2>5, <2>8 DEF Sent
  <2>10. t.current_binding_msg # None /\ Made(t) <= MaxBindings + 1
    BY <1>1, <2>5, <2>6 DEF Sent, BindInv
  <2>11. BindInv(t)
    BY <2>7, <2>8, <2>9, <2>10 DEF BindInv
  <2> QED BY <2>5, <2>11 DEF Held
<1> QED BY <1>4, <1>5

(* A binding that was made joins the list, in agreement with it.           *)
LEMMA SuccessHolds ==
  ASSUME Held(priv), priv.current_binding_msg # None, ServerAccepts(priv.current_binding_msg),
         NEW t \in BindSuccess
  PROVE  Held(t)
<1> DEFINE old == priv.channels
           msg == priv.current_binding_msg
           cur == priv.current_binding
           i == FirstOf(old, msg.peer)
           ch == IF cur # None THEN Append(old, Renewed(cur))
                 ELSE IF i # 0 THEN [old EXCEPT ![i] = Renewed(@)]
                 ELSE old
           u == [priv EXCEPT !.channels = ch, !.current_binding = None, !.current_binding_msg = None]
<1>1. priv \in Privs /\ PermInv(priv, NoOne) /\ BindInv(priv)
  BY DEF Held, Good
<1>2. t \in priv_process_pending_bindings(u)
  BY DEF BindSuccess, FirstOf
<1>3. old \in Seq(Bindings) /\ Len(old) \in Nat
      /\ (\A j \in 1..Len(old) : old[j] \in Bindings) /\ i \in 0..Len(old)
  BY <1>1, BindingTypes, SearchFacts
<1>4. Agree(priv)
  BY <1>1 DEF BindInv
<1> HIDE DEF i
<1>5. /\ ch \in Seq(Bindings)
      /\ Len(ch) = Len(old) + (IF cur # None THEN 1 ELSE 0)
      /\ \A j, k \in 1..Len(ch) : ch[j].peer = ch[k].peer => ch[j].channel = ch[k].channel
  <2>1. CASE cur # None
    <3> DEFINE b == Renewed(cur)
    <3>1. b \in Bindings /\ b.peer = msg.peer /\ b.channel = msg.channel
      <4>1. cur.peer \in Peers /\ cur.channel \in Channels
        BY <1>1, <2>1, BindingTypes
      <4>2. b \in Bindings /\ b.peer = cur.peer /\ b.channel = cur.channel
        BY <4>1 DEF Renewed, Bindings
      <4> QED BY <1>1, <2>1, <4>2 DEF BindInv
    <3>2. ch = Append(old, b)
      BY <2>1
    <3>3. \A j \in 1..Len(old) : old[j].peer = b.peer <=> old[j].channel = b.channel
      BY <3>1 DEF ServerAccepts
    <3>4. \A j, k \in 1..Len(old) : old[j].peer = old[k].peer => old[j].channel = old[k].channel
      BY <1>4 DEF Agree
    <3> HIDE DEF b, old, ch
    <3>5. /\ ch \in Seq(Bindings) /\ Len(ch) = Len(old) + 1
          /\ \A j \in 1..Len(old) : ch[j] = old[j]
          /\ ch[Len(old) + 1] = b
      BY <1>3, <3>1, <3>2
    <3>6. \A j \in 1..Len(ch) : j \in 1..Len(old) \/ j = Len(old) + 1
      BY <1>3, <3>5
    <3>7. \A j, k \in 1..Len(ch) : ch[j].peer = ch[k].peer => ch[j].channel = ch[k].channel
      BY <3>3, <3>4, <3>5, <3>6
    <3> QED BY <2>1, <3>5, <3>7
  <2>2. CASE cur = None /\ i # 0
    <3> DEFINE b == Renewed(old[i])
    <3>1. i \in 1..Len(old) /\ old[i] \in Bindings
      BY <1>3, <2>2
    <3>2. b \in Bindings /\ b.peer = old[i].peer /\ b.channel = old[i].channel
      BY <3>1 DEF Renewed, Bindings
    <3>3. ch = [old EXCEPT ![i] = b]
      BY <2>2
    <3>4. \A j, k \in 1..Len(old) : old[j].peer = old[k].peer => old[j].channel = old[k].channel
      BY <1>4 DEF Agree
    <3> HIDE DEF b, old, ch
    <3>5. /\ ch \in Seq(Bindings) /\ Len(ch) = Len(old)
          /\ \A j \in 1..Len(old) : ch[j] = IF j = i THEN b ELSE old[j]
      BY <1>3, <3>1, <3>2, <3>3
    <3>6. \A j \in 1..Len(old) : ch[j].peer = old[j].peer /\ ch[j].channel = old[j].channel
      BY <3>2, <3>5
    <3>7. \A j, k \in 1..Len(ch) : ch[j].peer = ch[k].peer => ch[j].channel = ch[k].channel
      BY <3>4, <3>5, <3>6
    <3> QED BY <1>3, <2>2, <3>5, <3>7
  <2>3. CASE cur = None /\ i = 0
    <3>1. ch = old
      BY <2>3
    <3>2. \A j, k \in 1..Len(old) : old[j].peer = old[k].peer => old[j].channel = old[k].channel
      BY <1>4 DEF Agree
    <3> HIDE DEF old, ch
    <3> QED BY <1>3, <2>3, <3>1, <3>2
  <2> QED BY <2>1, <2>2, <2>3
<1> HIDE DEF ch
<1>6. /\ u \in Privs /\ SamePermissions(priv, u) /\ u.channels = ch
      /\ u.pending_bindings = priv.pending_bindings
      /\ u.current_binding = None /\ u.current_binding_msg = None
  BY <1>1, <1>5 DEF Privs, SamePermissions
<1> HIDE DEF u
<1>7. Good(u, NoOne)
  BY <1>1, <1>6, SamePermissionsKeep DEF Good
<1>8. Agree(u)
  BY <1>5, <1>6 DEF Agree
<1>9. Made(u) <= MaxBindings + 1
  <2>1. PICK n, m \in Nat :
          /\ n = Len(priv.channels) /\ m = Len(priv.pending_bindings)
          /\ Made(priv) = n + m + (IF cur # None THEN 1 ELSE 0)
    BY <1>1, MadeValue
  <2>2. Made(u) = (n + (IF cur # None THEN 1 ELSE 0)) + m
    <3>1. PICK k, j \in Nat :
            /\ k = Len(u.channels) /\ j = Len(u.pending_bindings)
            /\ Made(u) = k + j + (IF u.current_binding # None THEN 1 ELSE 0)
      BY <1>6, MadeValue
    <3>2. k = n + (IF cur # None THEN 1 ELSE 0) /\ j = m
      BY <1>5, <1>6, <2>1, <3>1
    <3>3. Made(u) = k + j
      BY <1>6, <3>1
    <3> QED BY <3>2, <3>3
  <2>3. Made(priv) = n + m + (IF cur # None THEN 1 ELSE 0)
    BY <2>1
  <2>4. Made(priv) <= MaxBindings + 1
    BY <1>1 DEF BindInv
  <2> HIDE DEF cur
  <2> QED BY <2>2, <2>3, <2>4
<1> QED BY <1>2, <1>6, <1>7, <1>8, <1>9, ProcessKeeps DEF Held

(* Every answer to a ChannelBind keeps the invariant.                      *)
LEMMA BindAnswerHolds ==
  ASSUME Held(priv), NEW kind, BindAnswer(kind)
  PROVE  Held(priv')
<1>1. priv.current_binding_msg # None
  BY DEF BindAnswer
<1>2. CASE priv' \in BindRetry
  BY <1>1, <1>2, RetryHolds
<1>3. CASE priv' \in BindingFails(priv)
  BY <1>3, FailsKeeps DEF Held
<1>4. CASE ServerAccepts(priv.current_binding_msg) /\ priv' \in BindSuccess
  BY <1>1, <1>4, SuccessHolds
<1> QED BY <1>2, <1>3, <1>4 DEF BindAnswer

(* The answer to a request ends it, or sends it again at the end of the    *)
(* list; the others stay as they are.                                      *)
LEMMA PermissionAnswerHolds ==
  ASSUME Held(priv), NEW i \in 1..Len(priv.pending_permissions), NEW kind \in Answers,
         PermissionAnswer(i, kind)
  PROVE  Held(priv')
<1> DEFINE P == [peer : Peers, realm : BOOLEAN]
           pp == priv.pending_permissions
           qq == RemoveAt(pp, i)
           p == pp[i].peer
           rest == [priv EXCEPT !.pending_permissions = qq]
<1>1. priv \in Privs /\ PermInv(priv, NoOne) /\ BindInv(priv) /\ DOMAIN NoOne = {}
  BY DEF Held, Good, NoOne
<1>2. pp \in Seq(P) /\ Len(pp) \in Nat
  BY <1>1 DEF Privs
<1>3. p \in Peers
  <2>1. pp[i] \in P
    <3> HIDE DEF P
    <3> QED BY <1>2
  <2> QED BY <2>1
<1>4. /\ qq \in Seq(P) /\ Len(qq) = Len(pp) - 1
      /\ \A j \in 1..Len(qq) : qq[j] = IF j < i THEN pp[j] ELSE pp[j + 1]
  <2> HIDE DEF P, pp
  <2>1. i \in 1..Len(pp)
    BY DEF pp
  <2> QED BY <1>2, <2>1, RemoveAtFacts
<1> HIDE DEF qq
<1>5. \A j \in 1..Len(pp) : pp[j].peer \in priv.sent_permissions \ IPv6
  BY <1>1 DEF PermInv
<1>6. \A j, k \in 1..Len(pp) : pp[j].peer = pp[k].peer => j = k
  BY <1>1 DEF PermInv
<1>7. \A x \in priv.sent_permissions \ IPv6 : \E j \in 1..Len(pp) : pp[j].peer = x
  BY <1>1 DEF PermInv
<1>8. /\ \A j, k \in 1..Len(qq) : qq[j].peer = qq[k].peer => j = k
      /\ \A j \in 1..Len(qq) : qq[j].peer \in (priv.sent_permissions \ IPv6) \ {p}
      /\ \A x \in priv.sent_permissions \ IPv6 : x = p \/ \E j \in 1..Len(qq) : qq[j].peer = x
  <2> DEFINE at(j) == IF j < i THEN j ELSE j + 1
  <2>0. i \in 1..Len(pp)
    OBVIOUS
  <2> HIDE DEF pp
  <2>1. \A j \in 1..Len(qq) : at(j) \in 1..Len(pp) /\ at(j) # i /\ qq[j] = pp[at(j)]
    BY <1>2, <1>4, <2>0
  <2>2. \A j, k \in 1..Len(qq) : at(j) = at(k) => j = k
    BY <1>2, <1>4, <2>0
  <2> HIDE DEF at
  <2>3. \A j, k \in 1..Len(qq) : qq[j].peer = qq[k].peer => j = k
    BY <1>6, <2>1, <2>2
  <2>4. \A j \in 1..Len(qq) : qq[j].peer \in (priv.sent_permissions \ IPv6) \ {p}
    BY <1>5, <1>6, <2>0, <2>1
  <2>5. \A x \in priv.sent_permissions \ IPv6 : x = p \/ \E j \in 1..Len(qq) : qq[j].peer = x
    <3> TAKE x \in priv.sent_permissions \ IPv6
    <3>1. PICK k \in 1..Len(pp) : pp[k].peer = x
      BY <1>7
    <3>2. CASE k < i
      <4>1. k \in 1..Len(qq) /\ qq[k] = pp[k]
        BY <1>2, <1>4, <2>0, <3>2
      <4> QED BY <3>1, <4>1
    <3>3. CASE k > i
      <4>1. k - 1 \in 1..Len(qq) /\ qq[k - 1] = pp[k]
        BY <1>2, <1>4, <2>0, <3>3
      <4> QED BY <3>1, <4>1
    <3>4. CASE k = i
      BY <3>1, <3>4
    <3> QED BY <1>2, <2>0, <3>2, <3>3, <3>4
  <2> QED BY <2>3, <2>4, <2>5
<1>9. /\ rest \in Privs /\ SameBindings(priv, rest) /\ rest.pending_permissions = qq
      /\ rest.sent_permissions = priv.sent_permissions /\ rest.permissions = priv.permissions
      /\ rest.queue = priv.queue
  BY <1>1, <1>4 DEF Privs, SameBindings
<1>10. p \in priv.sent_permissions /\ p \notin IPv6
  BY <1>5
<1>11. /\ priv.sent_permissions \cap priv.permissions = {}
       /\ \A x \in Peers : priv.queue[x] > 0 => x \in priv.sent_permissions
  BY <1>1 DEF PermInv
<1>12. /\ priv.sent_permissions \subseteq Peers /\ priv.permissions \subseteq Peers
       /\ priv.queue \in [Peers -> 0..MaxData]
  BY <1>1 DEF Privs
<1>13. CASE priv' \in priv_send_create_permission(rest, TRUE, p)
  <2> DEFINE n == priv.queue[p]
             X == One(p, n)
             u == Asked(rest, p)
  <2>1. /\ u \in Privs /\ SameBindings(rest, u) /\ u.pending_permissions = qq
        /\ u.sent_permissions = priv.sent_permissions /\ u.permissions = priv.permissions
        /\ u.queue = priv.queue
    <3> HIDE DEF rest, p
    <3>1. rest.sent_permissions \cup {p} = priv.sent_permissions
      BY <1>9, <1>10
    <3> QED BY <1>3, <1>9, <3>1 DEF Asked, Privs, SameBindings
  <2>2. DOMAIN X = {p} /\ X[p] = n
    BY DEF One
  <2> HIDE DEF u, X, rest, p
  <2>3. PermInv(u, X)
    <3>1. \A x \in DOMAIN X : u.queue[x] = X[x]
      BY <2>1, <2>2
    <3>2. DOMAIN X \subseteq u.sent_permissions
      BY <1>10, <2>1, <2>2
    <3> QED BY <1>8, <1>11, <2>1, <2>2, <3>1, <3>2 DEF PermInv
  <2>4. Good(u, X) /\ BindInv(u)
    <3>1. BindInv(rest)
      BY <1>1, <1>9, SameBindingsKeep
    <3> QED BY <2>1, <2>3, <3>1, SameBindingsKeep DEF Good
  <2>5. Good(Asked(rest, p), One(p, n)) /\ BindInv(Asked(rest, p))
    BY <2>4 DEF u, X
  <2>6. PICK r \in BOOLEAN : priv' \in priv_send_create_permission(rest, r, p)
    BY <1>13, Zenon
  <2> HIDE DEF n
  <2> QED BY <1>3, <1>10, <2>5, <2>6, AskKeeps
<1>14. CASE priv' = [rest EXCEPT !.sent_permissions = @ \ {p},
                                 !.permissions = @ \cup {p},
                                 !.permission_timer = @ \/ kind = "success",
                                 !.queue[p] = 0]
  <2> DEFINE q == [priv.queue EXCEPT ![p] = 0]
             b == rest.permission_timer \/ kind = "success"
             sp == priv.sent_permissions \ {p}
             pe == priv.permissions \cup {p}
  <2>1. b \in BOOLEAN
    BY Zenon
  <2>2. priv' = [rest EXCEPT !.sent_permissions = sp, !.permissions = pe,
                             !.permission_timer = b, !.queue = q]
    <3>1. [rest.queue EXCEPT ![p] = 0] = q
      BY <1>9
    <3> HIDE DEF rest, p
    <3> QED BY <1>9, <1>14, <3>1, Zenon
  <2> HIDE DEF b, rest, p
  <2>3. /\ q \in [Peers -> 0..MaxData] /\ q[p] = 0
        /\ \A x \in Peers : x # p => q[x] = priv.queue[x]
    <3>1. 0 \in 0..MaxData
      OBVIOUS
    <3> QED BY <1>3, <1>12, <3>1
  <2>4. sp \in SUBSET Peers /\ pe \in SUBSET Peers
    BY <1>3, <1>12
  <2> HIDE DEF q, sp, pe
  <2>5. /\ priv' \in Privs /\ SameBindings(rest, priv') /\ priv'.pending_permissions = qq
        /\ priv'.sent_permissions = sp /\ priv'.permissions = pe /\ priv'.queue = q
    BY <1>9, <2>1, <2>2, <2>3, <2>4 DEF Privs, SameBindings
  <2>6. PermInv(priv', NoOne)
    <3>1. \A x \in Peers : q[x] > 0 => x \in sp
      <4> TAKE x \in Peers
      <4>1. CASE x = p
        BY <2>3, <4>1
      <4>2. CASE x # p
        BY <1>11, <2>3, <4>2 DEF sp
      <4> QED BY <4>1, <4>2
    <3>2. sp \cap pe = {}
      BY <1>11 DEF sp, pe
    <3>3. /\ \A j \in 1..Len(qq) : qq[j].peer \in sp \ IPv6
          /\ \A x \in sp \ IPv6 : \E j \in 1..Len(qq) : qq[j].peer = x
      BY <1>8 DEF sp
    <3> QED BY <1>1, <1>8, <2>5, <3>1, <3>2, <3>3 DEF PermInv
  <2>7. BindInv(priv')
    <3>1. BindInv(rest)
      BY <1>1, <1>9, SameBindingsKeep
    <3> QED BY <2>5, <3>1, SameBindingsKeep
  <2> QED BY <2>5, <2>6, <2>7 DEF Held, Good
<1> QED BY <1>13, <1>14 DEF PermissionAnswer, qq

(* A binding due for renewal is noted, and asked for if nothing else is.   *)
LEMMA BindingTimeoutHolds ==
  ASSUME Held(priv), NEW j \in 1..Len(priv.channels), priv_binding_timeout(j)
  PROVE  Held(priv')
<1> DEFINE old == priv.channels
           b == old[j]
           nb == [[b EXCEPT !.renew = TRUE] EXCEPT !.timer = "expire"]
           ch == [old EXCEPT ![j] = nb]
           u == [priv EXCEPT !.channels = ch]
           v == [priv EXCEPT !.channels[j].renew = TRUE, !.channels[j].timer = "expire"]
<1>1. priv \in Privs /\ PermInv(priv, NoOne) /\ BindInv(priv)
  BY DEF Held, Good
<1>2. old \in Seq(Bindings) /\ Len(old) \in Nat /\ b \in Bindings
  BY <1>1, BindingTypes
<1>3. nb \in Bindings /\ nb.peer = b.peer /\ nb.channel = b.channel
  BY <1>2 DEF Bindings
<1>4. v = u
  <2>2. [[old EXCEPT ![j].renew = TRUE] EXCEPT ![j].timer = "expire"] = ch
    BY <1>2
  <2> HIDE DEF ch
  <2> QED BY <1>1, <2>2 DEF Privs
<1> HIDE DEF nb
<1>5. /\ ch \in Seq(Bindings) /\ Len(ch) = Len(old)
      /\ \A k \in 1..Len(old) : ch[k] = IF k = j THEN nb ELSE old[k]
  <2>1. j \in 1..Len(old)
    OBVIOUS
  <2> HIDE DEF old
  <2> QED BY <1>2, <1>3, <2>1
<1> HIDE DEF ch
<1>6. \A k \in 1..Len(old) : ch[k].peer = old[k].peer /\ ch[k].channel = old[k].channel
  BY <1>3, <1>5
<1>7. /\ u \in Privs /\ SamePermissions(priv, u) /\ u.channels = ch
      /\ u.pending_bindings = priv.pending_bindings
      /\ u.current_binding = priv.current_binding
      /\ u.current_binding_msg = priv.current_binding_msg
  BY <1>1, <1>5 DEF Privs, SamePermissions
<1> HIDE DEF u
<1>8. Good(u, NoOne)
  BY <1>1, <1>7, SamePermissionsKeep DEF Good
<1>9. Agree(u)
  <2>1. Agree(priv)
    BY <1>1 DEF BindInv
  <2> QED BY <1>5, <1>6, <1>7, <2>1 DEF Agree
<1>10. Made(u) <= MaxBindings + 1
  <2>1. Made(u) = Made(priv)
    BY <1>5, <1>7 DEF Made
  <2> QED BY <1>1, <2>1 DEF BindInv
<1>11. CASE priv.current_binding_msg # None /\ priv' = v
  <2>1. u.current_binding_msg # None /\ u.current_binding = None =>
          \E k \in 1..Len(u.channels) :
            /\ u.channels[k].peer = u.current_binding_msg.peer
            /\ u.channels[k].channel = u.current_binding_msg.channel
    BY <1>1, <1>5, <1>6, <1>7 DEF BindInv
  <2>2. BindInv(u)
    BY <1>1, <1>7, <1>9, <1>10, <1>11, <2>1 DEF BindInv
  <2> QED BY <1>4, <1>8, <1>11, <2>2 DEF Held
<1>12. CASE /\ priv.current_binding_msg = None
            /\ priv' \in priv_send_channel_bind(v, FALSE, b.channel, b.peer)
  <2>1. b.channel \in Channels /\ b.peer \in Peers
    BY <1>2 DEF Bindings
  <2>2. priv' \in priv_send_channel_bind(u, FALSE, b.channel, b.peer)
    BY <1>4, <1>12
  <2>3. Good(priv', NoOne) /\ Sent(u, priv', b.channel, b.peer)
    <3> HIDE DEF b
    <3> QED BY <1>8, <2>1, <2>2, SentFacts
  <2>4. priv.current_binding = None /\ priv.pending_bindings = <<>>
    BY <1>1, <1>12 DEF BindInv
  <2>5. Agree(priv')
    BY <1>9, <2>3 DEF Sent, Agree
  <2>6. Made(priv') <= MaxBindings + 1
    <3>1. Made(priv') = Made(u)
      BY <2>3 DEF Sent, Made
    <3> QED BY <1>10, <3>1
  <2>7. \E k \in 1..Len(priv'.channels) :
          /\ priv'.channels[k].peer = priv'.current_binding_msg.peer
          /\ priv'.channels[k].channel = priv'.current_binding_msg.channel
    <3>1. j \in 1..Len(ch)
      BY <1>5
    <3> QED BY <1>6, <1>7, <2>3, <3>1 DEF Sent
  <2>8. BindInv(priv')
    BY <1>7, <2>3, <2>4, <2>5, <2>6, <2>7 DEF BindInv, Sent
  <2> QED BY <2>3, <2>8 DEF Held
<1> QED BY <1>11, <1>12 DEF priv_binding_timeout

(* A binding that expires is being made anew, or waits for that.           *)
LEMMA ExpiredHolds ==
  ASSUME Held(priv), NEW j \in 1..Len(priv.channels), priv_binding_expired_timeout(j)
  PROVE  Held(priv')
<1> DEFINE old == priv.channels
           b == old[j]
           ch == RemoveAt(old, j)
           u == [priv EXCEPT !.channels = ch]
           msg == priv.current_binding_msg
           renewing == msg # None /\ priv.current_binding = None /\ msg.peer = b.peer
<1>1. priv \in Privs /\ PermInv(priv, NoOne) /\ BindInv(priv) /\ Agree(priv)
  BY DEF Held, Good, BindInv
<1>2. old \in Seq(Bindings) /\ Len(old) \in Nat /\ b.peer \in Peers /\ b.channel \in Channels
  BY <1>1, BindingTypes
<1>3. /\ ch \in Seq(Bindings) /\ Len(ch) = Len(old) - 1
      /\ \A k \in 1..Len(ch) : ch[k] = IF k < j THEN old[k] ELSE old[k + 1]
  <2>1. j \in 1..Len(old)
    OBVIOUS
  <2> HIDE DEF old
  <2> QED BY <1>2, <2>1, RemoveAtFacts
<1> HIDE DEF ch
<1>4. \A k \in 1..Len(ch) : \E i \in 1..Len(old) : ch[k] = old[i]
  <2> TAKE k \in 1..Len(ch)
  <2>1. k \in 1..Len(old) /\ k + 1 \in 1..Len(old)
    <3> HIDE DEF old
    <3> QED BY <1>2, <1>3
  <2> QED BY <1>3, <2>1
<1>5. /\ u \in Privs /\ SamePermissions(priv, u) /\ u.channels = ch
      /\ u.pending_bindings = priv.pending_bindings
      /\ u.current_binding = priv.current_binding /\ u.current_binding_msg = msg
  BY <1>1, <1>3 DEF Privs, SamePermissions
<1> HIDE DEF u
<1>6. Good(u, NoOne)
  BY <1>1, <1>5, SamePermissionsKeep DEF Good
<1>7. Agree(u)
  <2>1. ASSUME NEW k \in 1..Len(ch), NEW l \in 1..Len(ch), ch[k].peer = ch[l].peer
        PROVE  ch[k].channel = ch[l].channel
    <3>1. PICK x \in 1..Len(old) : ch[k] = old[x]
      BY <1>4
    <3>2. PICK y \in 1..Len(old) : ch[l] = old[y]
      BY <1>4
    <3>3. old[x].peer = old[y].peer
      BY <2>1, <3>1, <3>2
    <3>4. old[x].channel = old[y].channel
      BY <1>1, <3>3 DEF Agree
    <3> QED BY <3>1, <3>2, <3>4
  <2> QED BY <1>5, <2>1 DEF Agree
<1>8. PICK n, m \in Nat :
        /\ n = Len(old) /\ m = Len(priv.pending_bindings)
        /\ Made(priv) = n + m + (IF priv.current_binding # None THEN 1 ELSE 0)
  BY <1>1, MadeValue
<1>9. Made(priv) = n + m + (IF priv.current_binding # None THEN 1 ELSE 0)
  BY <1>8
<1>10. Made(priv) <= MaxBindings + 1
  BY <1>1 DEF BindInv
<1>11. ASSUME NEW s \in Privs, s.channels = ch, s.pending_bindings = priv.pending_bindings
       PROVE  Made(s) = n - 1 + m + (IF s.current_binding # None THEN 1 ELSE 0)
  <2>1. PICK k, l \in Nat :
          /\ k = Len(s.channels) /\ l = Len(s.pending_bindings)
          /\ Made(s) = k + l + (IF s.current_binding # None THEN 1 ELSE 0)
    BY MadeValue
  <2>2. k = n - 1 /\ l = m
    BY <1>3, <1>8, <1>11, <2>1
  <2>3. Made(s) = k + l + (IF s.current_binding # None THEN 1 ELSE 0)
    BY <2>1
  <2> QED BY <2>2, <2>3
<1>12. CASE ~renewing /\ priv' \in priv_add_channel_binding(u, b.peer)
  <2>1. Made(u) <= MaxBindings
    <3>1. Made(u) = n - 1 + m + (IF priv.current_binding # None THEN 1 ELSE 0)
      BY <1>5, <1>11
    <3> QED BY <1>9, <1>10, <3>1
  <2>2. u.current_binding # None => BindInv(u)
    <3> SUFFICES ASSUME u.current_binding # None
                 PROVE  BindInv(u)
      OBVIOUS
    <3>1. msg # None
      BY <1>1, <1>5 DEF BindInv
    <3>2. Made(u) <= MaxBindings + 1
      <4>1. Made(u) = n - 1 + m + (IF u.current_binding # None THEN 1 ELSE 0)
        BY <1>5, <1>11
      <4> QED BY <1>9, <1>10, <1>5, <4>1
    <3> QED BY <1>1, <1>5, <1>7, <3>1, <3>2 DEF BindInv
  <2> HIDE DEF b
  <2> QED BY <1>2, <1>6, <1>7, <1>12, <2>1, <2>2, AddKeeps DEF Held
<1>13. CASE /\ renewing
            /\ priv' = [u EXCEPT !.current_binding = [peer |-> b.peer, channel |-> b.channel]]
  <2> DEFINE c == [peer |-> b.peer, channel |-> b.channel]
  <2>1. c \in [peer : Peers, channel : Channels] /\ c.peer = b.peer /\ c.channel = b.channel
    BY <1>2
  <2>2. c # None
    <3> HIDE DEF b
    <3> QED BY <1>2, RecordsAreNotNone
  <2> HIDE DEF c
  <2>3. /\ priv' \in Privs /\ SamePermissions(u, priv') /\ priv'.channels = ch
        /\ priv'.pending_bindings = priv.pending_bindings
        /\ priv'.current_binding = c /\ priv'.current_binding_msg = msg
    BY <1>5, <1>13, <2>1 DEF Privs, SamePermissions, c
  <2>4. Good(priv', NoOne)
    BY <1>6, <2>3, SamePermissionsKeep DEF Good
  <2>5. msg # None /\ msg.peer = b.peer /\ msg.channel = b.channel
    BY <1>1, <1>13 DEF BindInv, Agree
  <2>6. Agree(priv')
    BY <1>5, <1>7, <2>3 DEF Agree
  <2>7. Made(priv') <= MaxBindings + 1
    <3>1. Made(priv') = n - 1 + m + (IF c # None THEN 1 ELSE 0)
      BY <1>11, <2>3
    <3>2. Made(priv) = n + m
      BY <1>9, <1>13
    <3> QED BY <1>10, <2>2, <3>1, <3>2
  <2>8. BindInv(priv')
    BY <2>1, <2>2, <2>3, <2>5, <2>6, <2>7 DEF BindInv
  <2> QED BY <2>4, <2>8 DEF Held
<1> QED BY <1>12, <1>13 DEF priv_binding_expired_timeout, u, ch

(* The request in flight is sent again or ends.                            *)
LEMMA TickHolds ==
  ASSUME Held(priv), priv_retransmissions_tick
  PROVE  Held(priv')
<1>1. ASSUME NEW s, Held(s), NEW t, t = [s EXCEPT !.tick_channel = FALSE]
      PROVE  Held(t)
  <2>1. t \in Privs /\ SamePermissions(s, t) /\ SameBindings(s, t)
    BY <1>1 DEF Held, Good, Privs, SamePermissions, SameBindings
  <2> QED BY <1>1, <2>1, SamePermissionsKeep, SameBindingsKeep DEF Held, Good
<1>2. CASE priv' = [priv EXCEPT !.tick_channel = FALSE]
  BY <1>1, <1>2
<1>3. CASE priv' \in priv_schedule_tick([priv EXCEPT !.tick_channel = FALSE])
  <2> DEFINE u == [priv EXCEPT !.tick_channel = FALSE]
  <2>1. Held(u)
    BY <1>1
  <2> HIDE DEF u
  <2>2. priv' \in priv_schedule_tick(u)
    BY <1>3 DEF u
  <2> QED BY <2>1, <2>2, TickKeeps DEF Held
<1>4. CASE priv' \in {[t EXCEPT !.tick_channel = FALSE] : t \in BindingFails(priv)}
  <2>1. PICK t \in BindingFails(priv) : priv' = [t EXCEPT !.tick_channel = FALSE]
    BY <1>4
  <2>2. Held(t)
    BY FailsKeeps DEF Held
  <2> QED BY <1>1, <2>1, <2>2
<1> QED BY <1>2, <1>3, <1>4 DEF priv_retransmissions_tick

(* The oldest permission requests end, and the others get their timers.    *)
LEMMA PermissionTickHolds ==
  ASSUME Held(priv), NEW k \in 0..Len(priv.pending_permissions),
         priv_retransmissions_create_permission_tick(k)
  PROVE  Held(priv')
<1>1. PICK leaked \in BOOLEAN :
        LET own == priv.tick_permission /\ leaked = priv.leaked
            t == PermissionsTimeOut(
                   [priv EXCEPT !.leaked = leaked,
                                !.tick_permission = @ /\ ~own /\ k = 0], k)
        IN  priv' \in IF t.pending_permissions = <<>> THEN {t} ELSE priv_schedule_tick(t)
  BY DEF priv_retransmissions_create_permission_tick
<1> DEFINE own == priv.tick_permission /\ leaked = priv.leaked
           b == priv.tick_permission /\ ~own /\ k = 0
           u == [priv EXCEPT !.leaked = leaked, !.tick_permission = b]
           t == PermissionsTimeOut(u, k)
<1>2. priv' = t \/ priv' \in priv_schedule_tick(t)
  BY <1>1
<1>3. b \in BOOLEAN
  BY Zenon
<1> HIDE DEF b
<1>4. u \in Privs /\ SamePermissions(priv, u) /\ SameBindings(priv, u)
  BY <1>3 DEF Held, Good, Privs, SamePermissions, SameBindings
<1> HIDE DEF u
<1>5. Good(u, NoOne) /\ BindInv(u)
  BY <1>4, SamePermissionsKeep, SameBindingsKeep DEF Held, Good
<1>6. k \in 0..Len(u.pending_permissions)
  BY <1>4 DEF SamePermissions
<1>7. Good(t, NoOne) /\ BindInv(t)
  BY <1>5, <1>6, TimeOutKeeps, SameBindingsKeep
<1> HIDE DEF t
<1> QED BY <1>2, <1>7, TickKeeps DEF Held

(* Every step keeps the invariant.                                         *)
LEMMA StepHolds ==
  ASSUME Held(priv), [Next]_priv
  PROVE  Held(priv')
<1>1. CASE \E p \in Peers : xice_turn_socket_set_peer(p) \/ socket_send(p)
  BY <1>1, SetPeerHolds, SendHolds
<1>2. CASE \E kind \in Answers : BindAnswer(kind)
  BY <1>2, BindAnswerHolds
<1>3. CASE \E kind \in Answers : \E i \in 1..Len(priv.pending_permissions) : PermissionAnswer(i, kind)
  BY <1>3, PermissionAnswerHolds
<1>4. CASE priv_permission_timeout
  BY <1>4, PermissionTimeoutHolds
<1>5. CASE \E j \in 1..Len(priv.channels) :
             priv_binding_timeout(j) \/ priv_binding_expired_timeout(j)
  BY <1>5, BindingTimeoutHolds, ExpiredHolds
<1>6. CASE priv_retransmissions_tick
  BY <1>6, TickHolds
<1>7. CASE \E k \in 0..Len(priv.pending_permissions) :
             priv_retransmissions_create_permission_tick(k)
  BY <1>7, PermissionTickHolds
<1>8. CASE socket_close
  BY <1>8, CloseHolds
<1>9. CASE UNCHANGED priv
  BY <1>9
<1> QED BY <1>1, <1>2, <1>3, <1>4, <1>5, <1>6, <1>7, <1>8, <1>9 DEF Next

-----------------------------------------------------------------------------
(* The theorems.                                                           *)

(* The inductive invariant holds in every reachable state of the socket    *)
(* (the handlers and timers of socket/turn.c).                             *)
THEOREM Invariance == Spec => []IInv
<1>1. Init => IInv
  BY InitHeld DEF IInv, Held
<1>2. IInv /\ [Next]_priv => IInv'
  BY StepHolds DEF IInv, Held
<1> QED BY <1>1, <1>2, PTL DEF Spec

(* Every number a channel gets is in range and a binding being made agrees *)
(* with the ChannelBind in flight, for any number of peers and bindings    *)
(* (priv_add_channel_binding, priv_binding_expired_timeout).               *)
THEOREM AlwaysConsistent == Spec => []Consistent
<1>1. IInv => Consistent
  <2> SUFFICES ASSUME IInv
               PROVE  Consistent
    OBVIOUS
  <2>1. priv \in Privs /\ BindInv(priv)
    BY DEF IInv, Good
  <2>2. /\ priv.channels \in Seq(Bindings) /\ priv.pending_bindings \in Seq(Peers)
        /\ priv.pending_permissions \in Seq([peer : Peers, realm : BOOLEAN])
    BY <2>1 DEF Privs
  <2>3. ASSUME NEW S, NEW s \in Seq(S)
        PROVE  Elements(s) \subseteq S
    BY DEF Elements
  <2>4. /\ Elements(priv.channels) \subseteq Bindings
        /\ Elements(priv.pending_bindings) \subseteq Peers
        /\ Elements(priv.pending_permissions) \subseteq [peer : Peers, realm : BOOLEAN]
    BY <2>2, <2>3
  <2>5. TypeOK
    BY <2>1, <2>4 DEF TypeOK, Privs, Bindings, Channels
  <2>6. BindingInFlight
    BY <2>1 DEF BindInv, BindingInFlight
  <2> QED BY <2>5, <2>6 DEF Consistent
<1> QED BY <1>1, Invariance, PTL

(* No binding waits, to be made or to be renewed, without a request in     *)
(* flight whose end takes it up, for any number of peers and bindings      *)
(* (priv_process_pending_bindings and its callers).                        *)
THEOREM BindingsAlwaysServed == Spec => []BindingsServed
<1>1. IInv => BindingsServed
  BY DEF IInv, BindInv, BindingsServed, PendingWaits, RenewalAsked, Elements
<1> QED BY <1>1, Invariance, PTL

(* An IPv4 peer is asked for once at a time and its data waits exactly for *)
(* that; data of an IPv6 peer, for which no request can be built, waits in *)
(* vain.  For any number of peers and packets (socket_send,                *)
(* priv_send_create_permission, the CreatePermission answers and timers).  *)
THEOREM PermissionsAlwaysServed == Spec => []PermissionsServed
<1>1. IInv => PermissionsServed
  <2> SUFFICES ASSUME IInv
               PROVE  PermissionsServed
    OBVIOUS
  <2>1. PermInv(priv, NoOne) /\ DOMAIN NoOne = {}
    BY DEF IInv, Good, NoOne
  <2>2. PermissionOnce
    <3> DEFINE pp == priv.pending_permissions
    <3>1. /\ \A i, j \in 1..Len(pp) : pp[i].peer = pp[j].peer => i = j
          /\ \A j \in 1..Len(pp) : pp[j].peer \in priv.sent_permissions \ IPv6
          /\ \A p \in priv.sent_permissions \ IPv6 : \E j \in 1..Len(pp) : pp[j].peer = p
          /\ priv.sent_permissions \cap priv.permissions = {}
      BY <2>1 DEF PermInv
    <3> HIDE DEF pp
    <3>2. {m.peer : m \in Elements(pp)} = priv.sent_permissions \ IPv6
      <4>1. \A m \in Elements(pp) : m.peer \in priv.sent_permissions \ IPv6
        BY <3>1 DEF Elements
      <4>2. \A p \in priv.sent_permissions \ IPv6 : \E m \in Elements(pp) : m.peer = p
        BY <3>1 DEF Elements
      <4> QED BY <4>1, <4>2
    <3> QED BY <3>1, <3>2 DEF PermissionOnce, pp
  <2>3. QueueWaits
    BY <2>1 DEF PermInv, QueueWaits
  <2> QED BY <2>2, <2>3 DEF PermissionsServed
<1> QED BY <1>1, Invariance, PTL
=============================================================================
