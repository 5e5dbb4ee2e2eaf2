-------------------------- MODULE TurnSocketLemmas --------------------------
(***************************************************************************)
(* The inductive invariant of TurnSocket, and what each operator of the     *)
(* model does to it, for any set of peers and any bounds.                  *)
(***************************************************************************)
EXTENDS TurnSocket, FiniteSetTheorems, WellFoundedInduction, TLAPS

(* The bounds are natural numbers.                                         *)
LEMMA BoundsAreNat == MaxBindings \in Nat /\ MaxData \in Nat
BY TurnAssumption

USE BoundsAreNat

-----------------------------------------------------------------------------
(* Sets and sequences.                                                     *)

(* A set of natural numbers that is not empty has its minimum.             *)
LEMMA MinFacts ==
  ASSUME NEW I \in SUBSET Nat, I # {}
  PROVE  Min(I) \in I /\ \A i \in I : Min(I) <= i
<1> DEFINE R == {ss \in Nat \X Nat : ss[1] < ss[2]}
<1>1. IsWellFoundedOn(R, Nat)
  BY NatLessThanWellFounded, Zenon DEF OpToRel
<1> HIDE DEF R
<1>2. PICK x \in I : \A y \in I : ~(<<y, x>> \in R)
  BY <1>1, WFMin
<1>3. ASSUME NEW y \in I, ~(x <= y)
      PROVE  FALSE
  <2>1. x \in Nat /\ y \in Nat /\ y < x
    BY <1>3
  <2>2. <<y, x>> \in R
    BY <2>1 DEF R
  <2> QED BY <1>2, <2>2
<1> QED BY <1>3 DEF Min

(* RemoveAt takes one element out and keeps the others.                    *)
LEMMA RemoveAtFacts ==
  ASSUME NEW S, NEW s \in Seq(S), NEW i \in 1..Len(s)
  PROVE  LET t == RemoveAt(s, i)
         IN  /\ t \in Seq(S) /\ Len(t) = Len(s) - 1
             /\ \A j \in 1..Len(t) : t[j] = IF j < i THEN s[j] ELSE s[j + 1]
<1> DEFINE a == SubSeq(s, 1, i - 1)
           b == SubSeq(s, i + 1, Len(s))
<1>0. i \in Nat /\ Len(s) \in Nat /\ 1 <= i /\ i <= Len(s)
  OBVIOUS
<1>1. a \in Seq(S) /\ Len(a) = i - 1 /\ \A j \in 1..(i - 1) : a[j] = s[j]
  <2>1. Len(a) = i - 1 /\ a = [j \in 1..(i - 1) |-> s[j]]
    BY <1>0
  <2> QED BY <1>0, <2>1
<1>2. b \in Seq(S) /\ Len(b) = Len(s) - i /\ \A j \in 1..(Len(s) - i) : b[j] = s[i + j]
  OBVIOUS
<1>3. RemoveAt(s, i) = a \o b
  BY DEF RemoveAt
<1> HIDE DEF a, b
<1>4. a \o b \in Seq(S) /\ Len(a \o b) = Len(s) - 1
  <2>1. a \in Seq(S) /\ b \in Seq(S)
    BY <1>1, <1>2
  <2>2. a \o b \in Seq(S) /\ Len(a \o b) = Len(a) + Len(b)
    BY <2>1
  <2>3. (i - 1) + (Len(s) - i) = Len(s) - 1
    BY <1>0
  <2>4. Len(a \o b) = Len(s) - 1
    BY <1>1, <1>2, <2>2, <2>3, Zenon
  <2> QED BY <2>2, <2>4
<1>5. \A j \in 1..(Len(s) - 1) : (a \o b)[j] = IF j < i THEN s[j] ELSE s[j + 1]
  <2> TAKE j \in 1..(Len(s) - 1)
  <2>1. CASE j < i
    BY <1>0, <1>1, <1>2, <2>1
  <2>2. CASE ~(j < i)
    <3>1. j - Len(a) \in 1..(Len(s) - i) /\ i + (j - Len(a)) = j + 1
      BY <1>0, <1>1, <2>2
    <3>2. (a \o b)[j] = b[j - Len(a)]
      BY <1>0, <1>1, <1>2, <2>2
    <3> QED BY <1>2, <2>2, <3>1, <3>2
  <2> QED BY <2>1, <2>2
<1> QED BY <1>3, <1>4, <1>5

(* What is left of a sequence without its first k elements.                *)
LEMMA DropFacts ==
  ASSUME NEW S, NEW s \in Seq(S), NEW k \in 0..Len(s)
  PROVE  LET t == SubSeq(s, k + 1, Len(s))
         IN  /\ t \in Seq(S) /\ Len(t) = Len(s) - k
             /\ \A j \in 1..Len(t) : t[j] = s[k + j]
<1>1. Len(s) \in Nat /\ k \in Nat /\ k <= Len(s)
  OBVIOUS
<1>2. Len(SubSeq(s, k + 1, Len(s))) = Len(s) - k
  BY <1>1
<1> QED BY <1>1, <1>2

-----------------------------------------------------------------------------
(* The inductive invariant, of a state s between two calls and inside one. *)
(* X gives the peers asked for whose requests are not on the list yet, and *)
(* the length of their queues: no request that ends meanwhile empties them.*)

Channels == FirstChannel..(FirstChannel + MaxBindings)

Bindings == [peer : Peers, channel : Channels, renew : BOOLEAN, timer : {"renew", "expire"}]

Privs ==
  [channels : Seq(Bindings),
   pending_bindings : Seq(Peers),
   current_binding : [peer : Peers, channel : Channels] \cup {None},
   current_binding_msg : [peer : Peers, channel : Channels, realm : BOOLEAN] \cup {None},
   tick_channel : BOOLEAN,
   pending_permissions : Seq([peer : Peers, realm : BOOLEAN]),
   sent_permissions : SUBSET Peers,
   permissions : SUBSET Peers,
   permission_timer : BOOLEAN,
   tick_permission : BOOLEAN,
   leaked : BOOLEAN,
   queue : [Peers -> 0..MaxData],
   closed : BOOLEAN]

PermInv(s, X) ==
  LET pending == s.pending_permissions
  IN  /\ \A i, j \in 1..Len(pending) : pending[i].peer = pending[j].peer => i = j
      /\ \A j \in 1..Len(pending) : pending[j].peer \in (s.sent_permissions \ IPv6) \ DOMAIN X
      /\ \A p \in s.sent_permissions \ IPv6 :
           p \in DOMAIN X \/ \E j \in 1..Len(pending) : pending[j].peer = p
      /\ DOMAIN X \subseteq s.sent_permissions
      /\ s.sent_permissions \cap s.permissions = {}
      /\ \A p \in Peers : s.queue[p] > 0 => p \in s.sent_permissions
      /\ \A p \in DOMAIN X : s.queue[p] = X[p]

Good(s, X) == s \in Privs /\ PermInv(s, X)

Made(s) ==
  Len(s.channels) + Len(s.pending_bindings) + (IF s.current_binding # None THEN 1 ELSE 0)

\* A peer has one channel: the server answers for no other (ServerAccepts).
Agree(s) ==
  \A i, j \in 1..Len(s.channels) :
    s.channels[i].peer = s.channels[j].peer => s.channels[i].channel = s.channels[j].channel

\* A request in flight is for the binding being made, or renews one of the list.
BindInv(s) ==
  /\ s.current_binding # None =>
       /\ s.current_binding_msg # None
       /\ s.current_binding_msg.peer = s.current_binding.peer
       /\ s.current_binding_msg.channel = s.current_binding.channel
  /\ s.pending_bindings # <<>> => s.current_binding # None
  /\ (\E j \in 1..Len(s.channels) : s.channels[j].renew) => s.current_binding_msg # None
  /\ s.current_binding_msg # None /\ s.current_binding = None =>
       \E j \in 1..Len(s.channels) :
         /\ s.channels[j].peer = s.current_binding_msg.peer
         /\ s.channels[j].channel = s.current_binding_msg.channel
  /\ Agree(s)
  /\ Made(s) <= MaxBindings + 1

NoOne == [p \in {} |-> 0]

IInv == Good(priv, NoOne) /\ BindInv(priv)

\* The bindings of t are those of s.
SameBindings(s, t) ==
  /\ t.channels = s.channels /\ t.pending_bindings = s.pending_bindings
  /\ t.current_binding = s.current_binding
  /\ t.current_binding_msg = s.current_binding_msg

\* The permissions of t are those of s.
SamePermissions(s, t) ==
  /\ t.pending_permissions = s.pending_permissions
  /\ t.sent_permissions = s.sent_permissions /\ t.permissions = s.permissions
  /\ t.queue = s.queue

(* Channel numbers are natural numbers.                                    *)
LEMMA ChannelsAreNat == Channels \subseteq Nat
BY DEF Channels, FirstChannel

(* The number of bindings made, being made and waiting.                    *)
LEMMA MadeValue ==
  ASSUME NEW s \in Privs
  PROVE  \E n, m \in Nat :
           /\ n = Len(s.channels) /\ m = Len(s.pending_bindings)
           /\ Made(s) = n + m + (IF s.current_binding # None THEN 1 ELSE 0)
<1>1. s.channels \in Seq(Bindings) /\ s.pending_bindings \in Seq(Peers)
  BY DEF Privs
<1>2. Len(s.channels) \in Nat /\ Len(s.pending_bindings) \in Nat
  BY <1>1
<1> QED BY <1>2, Zenon DEF Made

(* BindInv is about the bindings only.                                     *)
LEMMA SameBindingsKeep ==
  ASSUME NEW s, NEW t, BindInv(s), SameBindings(s, t)
  PROVE  BindInv(t)
<1>1. Made(t) = Made(s)
  BY DEF SameBindings, Made
<1>2. Agree(t)
  BY DEF BindInv, SameBindings, Agree
<1> QED BY <1>1, <1>2 DEF BindInv, SameBindings

(* PermInv is about the permissions and the queues only.                   *)
LEMMA SamePermissionsKeep ==
  ASSUME NEW s, NEW t, NEW X, PermInv(s, X), SamePermissions(s, t)
  PROVE  PermInv(t, X)
BY DEF PermInv, SamePermissions

-----------------------------------------------------------------------------
(* Permission requests.                                                    *)

(* A request that times out leaves the list, and its peer the ones asked   *)
(* for, together with its data.                                            *)
LEMMA TimeOutKeeps ==
  ASSUME NEW s, NEW X, Good(s, X), NEW k \in 0..Len(s.pending_permissions)
  PROVE  /\ Good(PermissionsTimeOut(s, k), X)
         /\ SameBindings(s, PermissionsTimeOut(s, k))
<1> DEFINE pp == s.pending_permissions
           P == [peer : Peers, realm : BOOLEAN]
           out == {pp[j].peer : j \in 1..k}
           rest == SubSeq(pp, k + 1, Len(pp))
           q == [p \in Peers |-> IF p \in out THEN 0 ELSE s.queue[p]]
           t == [s EXCEPT !.sent_permissions = @ \ out,
                          !.permissions = @ \cup out,
                          !.pending_permissions = rest,
                          !.queue = q]
<1>1. PermissionsTimeOut(s, k) = t
  BY DEF PermissionsTimeOut
<1>2. s \in Privs /\ PermInv(s, X)
  BY DEF Good
<1>3. pp \in Seq(P) /\ Len(pp) \in Nat /\ k \in Nat /\ k <= Len(pp)
  BY <1>2 DEF Privs
<1>4. /\ rest \in Seq(P) /\ Len(rest) = Len(pp) - k
      /\ \A j \in 1..Len(rest) : rest[j] = pp[k + j]
  <2> HIDE DEF pp, P
  <2> QED BY <1>3, DropFacts
<1>5. out \subseteq Peers
  <2> SUFFICES ASSUME NEW j \in 1..k
               PROVE  pp[j].peer \in Peers
    OBVIOUS
  <2>1. j \in 1..Len(pp)
    <3> HIDE DEF pp
    <3> QED BY <1>3
  <2>2. pp[j] \in P
    <3> HIDE DEF pp, P
    <3> QED BY <1>3, <2>1
  <2> QED BY <2>2
<1>6. q \in [Peers -> 0..MaxData]
  BY <1>2 DEF Privs
<1> HIDE DEF rest, q, out
<1>7. /\ t \in Privs /\ SameBindings(s, t)
      /\ t.sent_permissions = s.sent_permissions \ out
      /\ t.permissions = s.permissions \cup out
      /\ t.pending_permissions = rest /\ t.queue = q
  <2>1. s.sent_permissions \ out \in SUBSET Peers /\ s.permissions \cup out \in SUBSET Peers
    BY <1>2, <1>5 DEF Privs
  <2> HIDE DEF P
  <2>2. rest \in Seq([peer : Peers, realm : BOOLEAN])
    BY <1>4 DEF P
  <2> QED BY <1>2, <1>6, <2>1, <2>2 DEF Privs, SameBindings
<1> HIDE DEF t
<1>8. PermInv(t, X)
  <2>1. \A i, j \in 1..Len(rest) : rest[i].peer = rest[j].peer => i = j
    <3> SUFFICES ASSUME NEW i \in 1..Len(rest), NEW j \in 1..Len(rest), rest[i].peer = rest[j].peer
                 PROVE  i = j
      OBVIOUS
    <3>1. k + i \in 1..Len(pp) /\ k + j \in 1..Len(pp)
      <4> HIDE DEF pp, P
      <4> QED BY <1>3, <1>4
    <3>2. pp[k + i].peer = pp[k + j].peer
      BY <1>4
    <3>3. k + i = k + j
      BY <1>2, <3>1, <3>2 DEF PermInv
    <3> QED BY <1>3, <1>4, <3>3
  <2>2. \A j \in 1..Len(rest) : rest[j].peer \in ((s.sent_permissions \ out) \ IPv6) \ DOMAIN X
    <3> TAKE j \in 1..Len(rest)
    <3>1. k + j \in 1..Len(pp) /\ k + j > k
      BY <1>3, <1>4
    <3>2. rest[j].peer \in (s.sent_permissions \ IPv6) \ DOMAIN X
      BY <1>2, <1>4, <3>1 DEF PermInv
    <3>3. \A i \in 1..k : pp[i].peer # pp[k + j].peer
      BY <1>2, <1>3, <3>1 DEF PermInv
    <3>4. rest[j].peer \notin out
      BY <1>4, <3>3 DEF out
    <3> QED BY <3>2, <3>4
  <2>3. \A p \in (s.sent_permissions \ out) \ IPv6 :
          p \in DOMAIN X \/ \E j \in 1..Len(rest) : rest[j].peer = p
    <3> TAKE p \in (s.sent_permissions \ out) \ IPv6
    <3>1. CASE p \notin DOMAIN X
      <4>1. PICK i \in 1..Len(pp) : pp[i].peer = p
        BY <1>2, <3>1 DEF PermInv
      <4>2. i \notin 1..k
        BY <4>1 DEF out
      <4>3. i - k \in 1..Len(rest) /\ k + (i - k) = i
        BY <1>3, <1>4, <4>2
      <4> QED BY <1>4, <4>1, <4>3
    <3> QED BY <3>1
  <2>4. DOMAIN X \subseteq s.sent_permissions \ out
    <3>1. \A i \in 1..k : pp[i].peer \notin DOMAIN X
      BY <1>2, <1>3 DEF PermInv
    <3>2. DOMAIN X \cap out = {}
      BY <3>1 DEF out
    <3> QED BY <1>2, <3>2 DEF PermInv
  <2>5. (s.sent_permissions \ out) \cap (s.permissions \cup out) = {}
    BY <1>2 DEF PermInv
  <2>6. \A p \in Peers : q[p] > 0 => p \in s.sent_permissions \ out
    BY <1>2 DEF PermInv, q
  <2>7. \A p \in DOMAIN X : q[p] = X[p]
    <3> TAKE p \in DOMAIN X
    <3>1. p \in Peers /\ p \notin out /\ s.queue[p] = X[p]
      BY <1>2, <2>4 DEF PermInv, Privs
    <3> QED BY <3>1 DEF q
  <2> QED BY <1>7, <2>1, <2>2, <2>3, <2>4, <2>5, <2>6, <2>7 DEF PermInv
<1> QED BY <1>1, <1>7, <1>8 DEF Good

(* Setting the timers of the requests ends some of them and leaves the     *)
(* bindings alone.                                                         *)
LEMMA ScheduleKeeps ==
  ASSUME NEW s, NEW X, Good(s, X), NEW t \in SchedulePermissions(s)
  PROVE  Good(t, X) /\ SameBindings(s, t)
<1>1. PICK k \in 0..Len(s.pending_permissions) :
        t = LET u == PermissionsTimeOut(s, k)
                n == Len(u.pending_permissions)
            IN  [u EXCEPT !.tick_permission = @ \/ n > 0,
                          !.leaked = @ \/ n > 1 \/ (n > 0 /\ u.tick_permission)]
  BY DEF SchedulePermissions
<1> DEFINE u == PermissionsTimeOut(s, k)
           n == Len(u.pending_permissions)
           b == u.tick_permission \/ n > 0
           c == u.leaked \/ n > 1 \/ (n > 0 /\ u.tick_permission)
<1>2. Good(u, X) /\ SameBindings(s, u)
  BY TimeOutKeeps
<1>3. t = [u EXCEPT !.tick_permission = b, !.leaked = c]
  BY <1>1
<1>4. b \in BOOLEAN /\ c \in BOOLEAN
  BY Zenon
<1> HIDE DEF u, b, c
<1>5. t \in Privs /\ SameBindings(u, t) /\ SamePermissions(u, t)
  BY <1>2, <1>3, <1>4 DEF Good, Privs, SameBindings, SamePermissions
<1>6. PermInv(t, X)
  BY <1>2, <1>5, SamePermissionsKeep DEF Good
<1> QED BY <1>2, <1>5, <1>6 DEF Good, SameBindings

-----------------------------------------------------------------------------
(* Channel bindings.                                                       *)

(* Among the numbers after the first there is a free one: the bindings     *)
(* after the first of the list do not take them all.                       *)
LEMMA FreeNumber ==
  ASSUME NEW n \in Nat, NEW f \in [1..n -> Nat], NEW F \in Nat
  PROVE  \E x \in (F + 1)..(F + n + 1) :
           /\ x \notin {f[j] : j \in 1..n}
           /\ \A m \in (F + 1)..(x - 1) : m \in {f[j] : j \in 1..n}
<1> DEFINE A == {f[j] : j \in 1..n}
           B == (F + 1)..(F + n + 1)
           I == {x \in B : x \notin A}
<1>1. IsFiniteSet(1..n) /\ Cardinality(1..n) = n
  <2>1. /\ IsFiniteSet(1..n)
        /\ Cardinality(1..n) = IF 1 > n THEN 0 ELSE n - 1 + 1
    <3>1. 1 \in Int /\ n \in Int
      OBVIOUS
    <3> QED BY <3>1, FS_Interval, Zenon
  <2> QED BY <2>1
<1>2. f \in Surjection(1..n, A)
  BY DEF Surjection
<1>3. IsFiniteSet(A) /\ Cardinality(A) <= n
  <2> HIDE DEF A
  <2>1. IsFiniteSet(A) /\ Cardinality(A) <= Cardinality(1..n)
    BY <1>1, <1>2, FS_Surjection, Zenon
  <2> QED BY <1>1, <2>1, Zenon
<1>4. IsFiniteSet(B) /\ Cardinality(B) = n + 1
  <2>1. F + 1 \in Int /\ F + n + 1 \in Int
    OBVIOUS
  <2>2. /\ IsFiniteSet(B)
        /\ Cardinality(B) = IF F + 1 > F + n + 1 THEN 0 ELSE (F + n + 1) - (F + 1) + 1
    BY <2>1, FS_Interval
  <2> HIDE DEF B
  <2> QED BY <2>2
<1>5. I # {}
  <2> SUFFICES ASSUME I = {}
               PROVE  FALSE
    OBVIOUS
  <2>1. B \subseteq A
    OBVIOUS
  <2>2. Cardinality(B) <= Cardinality(A)
    <3> HIDE DEF A, B
    <3> QED BY <1>3, <2>1, FS_Subset
  <2>3. Cardinality(A) \in Nat
    <3> HIDE DEF A
    <3> QED BY <1>3, FS_CardinalityType
  <2> HIDE DEF A, B
  <2> QED BY <1>3, <1>4, <2>2, <2>3
<1>6. I \in SUBSET Nat
  OBVIOUS
<1> DEFINE x == Min(I)
<1>7. x \in I /\ \A i \in I : x <= i
  <2> HIDE DEF I
  <2> QED BY <1>5, <1>6, MinFacts
<1> HIDE DEF x
<1>8. \A m \in (F + 1)..(x - 1) : m \in A
  <2> TAKE m \in (F + 1)..(x - 1)
  <2>1. m \in B /\ ~(x <= m)
    BY <1>7
  <2> HIDE DEF A
  <2> QED BY <1>7, <2>1
<1> HIDE DEF A
<1>9. x \in B /\ x \notin A
  BY <1>7
<1> QED BY <1>8, <1>9 DEF A

(* The number of a new binding is in range.                                *)
LEMMA NewChannelInRange ==
  ASSUME NEW ch \in Seq(Bindings), Len(ch) <= MaxBindings
  PROVE  NewChannel(ch) \in Channels
<1> DEFINE F == FirstChannel
           N == Len(ch)
           A(from) == {ch[j].channel : j \in from..N}
           f == [j \in 1..(N - 1) |-> ch[j + 1].channel]
<1>1. F \in Nat
  BY DEF FirstChannel
<1>2. N \in Nat /\ N <= MaxBindings
  OBVIOUS
<1>3. \A j \in 1..N : ch[j].channel \in Nat
  <2> TAKE j \in 1..N
  <2>1. ch[j] \in Bindings
    OBVIOUS
  <2> QED BY <2>1, ChannelsAreNat DEF Bindings
<1>4. CASE F \notin A(1)
  <2>1. NewChannel(ch) = F
    BY <1>4 DEF NewChannel
  <2> QED BY <2>1, <1>1 DEF Channels
<1>5. CASE F \in A(1)
  <2>1. N >= 1
    BY <1>2, <1>5
  <2>2. f \in [1..(N - 1) -> Nat]
    <3>1. \A j \in 1..(N - 1) : j + 1 \in 1..N
      BY <1>2
    <3> QED BY <1>3, <3>1
  <2>3. {f[j] : j \in 1..(N - 1)} = A(2)
    <3>1. ASSUME NEW j \in 1..(N - 1) PROVE f[j] \in A(2)
      <4>1. j + 1 \in 2..N
        BY <1>2
      <4> QED BY <4>1
    <3>2. ASSUME NEW j \in 2..N PROVE ch[j].channel \in {f[i] : i \in 1..(N - 1)}
      <4>1. j - 1 \in 1..(N - 1) /\ (j - 1) + 1 = j
        BY <1>2
      <4>2. f[j - 1] = ch[j].channel
        BY <4>1
      <4> QED BY <4>1, <4>2
    <3> QED BY <3>1, <3>2
  <2> HIDE DEF f
  <2> DEFINE Free(n) == n \notin A(2) /\ \A m \in (F + 1)..(n - 1) : m \in A(2)
  <2>4. PICK x \in (F + 1)..(F + (N - 1) + 1) : Free(x)
    <3>1. N - 1 \in Nat
      BY <1>2, <2>1
    <3>2. \E x \in (F + 1)..(F + (N - 1) + 1) :
             /\ x \notin {f[j] : j \in 1..(N - 1)}
             /\ \A m \in (F + 1)..(x - 1) : m \in {f[j] : j \in 1..(N - 1)}
      <4> HIDE DEF F, N
      <4> QED BY <1>1, <2>2, <3>1, FreeNumber
    <3> HIDE DEF F, N
    <3> QED BY <2>3, <3>2, Zenon
  <2>5. x \in Nat /\ x <= F + N /\ x \in (F + 1)..(F + N + 1)
    BY <1>1, <1>2, <2>4
  <2> DEFINE c == CHOOSE n \in (F + 1)..(F + N + 1) : Free(n)
  <2>6. NewChannel(ch) = c
    BY <1>5 DEF NewChannel
  <2> HIDE DEF F, N, Free
  <2>7. c \in (F + 1)..(F + N + 1) /\ Free(c)
    BY <2>4, <2>5
  <2> HIDE DEF c
  <2>8. c <= x
    <3> SUFFICES ASSUME ~(c <= x)
                 PROVE  FALSE
      OBVIOUS
    <3>1. x \in (F + 1)..(c - 1)
      BY <1>1, <1>2, <2>5, <2>7
    <3> HIDE DEF A
    <3> QED BY <2>4, <2>7, <3>1 DEF Free
  <2>9. c \in F..(F + MaxBindings)
    BY <1>1, <1>2, <2>5, <2>7, <2>8
  <2> QED BY <2>6, <2>9 DEF Channels, F
<1> QED BY <1>4, <1>5

(* A binding and a ChannelBind are something.                              *)
LEMMA RecordsAreNotNone ==
  ASSUME NEW p \in Peers, NEW c \in Channels, NEW r \in BOOLEAN
  PROVE  [peer |-> p, channel |-> c] # None /\ [peer |-> p, channel |-> c, realm |-> r] # None
<1>1. c \in Nat
  BY ChannelsAreNat
<1>2. [peer |-> p, channel |-> c] \in [peer : Peers, channel : Nat]
  BY <1>1
<1>3. [peer |-> p, channel |-> c, realm |-> r] \in [peer : Peers, channel : Nat, realm : BOOLEAN]
  BY <1>1
<1> QED BY <1>2, <1>3, TurnAssumption, Zenon

(* A ChannelBind changes the message in flight and no binding.             *)
LEMMA SendBindKeeps ==
  ASSUME NEW s, NEW X, Good(s, X), NEW r \in BOOLEAN, NEW c \in Channels, NEW p \in Peers,
         NEW t \in priv_send_channel_bind(s, r, c, p)
  PROVE  /\ Good(t, X)
         /\ t.channels = s.channels /\ t.pending_bindings = s.pending_bindings
         /\ t.current_binding = s.current_binding
         /\ t.current_binding_msg = [peer |-> p, channel |-> c, realm |-> r]
<1> DEFINE m == [peer |-> p, channel |-> c, realm |-> r]
           u == [s EXCEPT !.current_binding_msg = m, !.tick_channel = TRUE]
<1>1. t \in SchedulePermissions(u)
  BY DEF priv_send_channel_bind, priv_send_turn_message
<1>2. m \in [peer : Peers, channel : Channels, realm : BOOLEAN]
  OBVIOUS
<1> HIDE DEF m
<1>3. /\ u \in Privs /\ SamePermissions(s, u) /\ u.current_binding_msg = m
      /\ u.channels = s.channels /\ u.pending_bindings = s.pending_bindings
      /\ u.current_binding = s.current_binding
  BY <1>2 DEF Good, Privs, SamePermissions
<1> HIDE DEF u
<1>4. Good(u, X)
  BY <1>3, SamePermissionsKeep DEF Good
<1>5. Good(t, X) /\ SameBindings(u, t)
  BY <1>1, <1>4, ScheduleKeeps
<1> QED BY <1>3, <1>5 DEF SameBindings, m

\* The request in flight in t is for the channel c and the peer p.
Sent(s, t, c, p) ==
  /\ t.channels = s.channels /\ t.pending_bindings = s.pending_bindings
  /\ t.current_binding = s.current_binding
  /\ t.current_binding_msg # None
  /\ t.current_binding_msg.peer = p /\ t.current_binding_msg.channel = c

(* priv_send_channel_bind has its own request in flight afterwards.        *)
LEMMA SentFacts ==
  ASSUME NEW s, NEW X, Good(s, X), NEW c \in Channels, NEW p \in Peers, NEW t,
         t \in priv_send_channel_bind(s, FALSE, c, p) \/ t \in priv_send_channel_bind(s, TRUE, c, p)
  PROVE  Good(t, X) /\ Sent(s, t, c, p)
<1>1. PICK r \in BOOLEAN : t \in priv_send_channel_bind(s, r, c, p)
  BY Zenon
<1>2. /\ Good(t, X)
      /\ t.channels = s.channels /\ t.pending_bindings = s.pending_bindings
      /\ t.current_binding = s.current_binding
      /\ t.current_binding_msg = [peer |-> p, channel |-> c, realm |-> r]
  BY <1>1, SendBindKeeps
<1>3. t.current_binding_msg # None
  BY <1>2, RecordsAreNotNone
<1> QED BY <1>2, <1>3 DEF Sent

(* A binding is started, or waits for the one being made.                  *)
LEMMA AddKeeps ==
  ASSUME NEW s, NEW X, Good(s, X), NEW p \in Peers, NEW t \in priv_add_channel_binding(s, p),
         s.current_binding # None => BindInv(s), Agree(s), Made(s) <= MaxBindings
  PROVE  Good(t, X) /\ BindInv(t)
<1>0. s \in Privs /\ PermInv(s, X)
  BY DEF Good
<1>1. /\ s.channels \in Seq(Bindings) /\ Len(s.channels) \in Nat
      /\ s.pending_bindings \in Seq(Peers) /\ Len(s.pending_bindings) \in Nat
  BY <1>0 DEF Privs
<1>a. PICK n, m \in Nat :
        /\ n = Len(s.channels) /\ m = Len(s.pending_bindings)
        /\ Made(s) = n + m + (IF s.current_binding # None THEN 1 ELSE 0)
  BY <1>0, MadeValue
<1>b. Made(s) = n + m + (IF s.current_binding # None THEN 1 ELSE 0)
  BY <1>a
<1>2. CASE s.current_binding # None
  <2> DEFINE w == Append(s.pending_bindings, p)
  <2>1. t = [s EXCEPT !.pending_bindings = w]
    BY <1>2 DEF priv_add_channel_binding
  <2>2. w \in Seq(Peers) /\ Len(w) = Len(s.pending_bindings) + 1
    BY <1>1
  <2> HIDE DEF w
  <2>3. /\ t \in Privs /\ SamePermissions(s, t) /\ t.pending_bindings = w
        /\ t.channels = s.channels /\ t.current_binding = s.current_binding
        /\ t.current_binding_msg = s.current_binding_msg
    BY <1>0, <2>1, <2>2 DEF Privs, SamePermissions
  <2>4. Good(t, X)
    BY <1>0, <2>3, SamePermissionsKeep DEF Good
  <2>5. Made(t) <= MaxBindings + 1
    <3>1. Made(t) = n + (m + 1) + 1
      BY <1>2, <1>a, <2>2, <2>3, MadeValue
    <3> QED BY <1>2, <1>b, <3>1
  <2>6. Agree(t)
    BY <2>3 DEF Agree
  <2> QED BY <1>2, <2>3, <2>4, <2>5, <2>6 DEF BindInv
<1>3. CASE s.current_binding = None
  <2> DEFINE c == NewChannel(s.channels)
             b == [peer |-> p, channel |-> c]
  <2>1. PICK u \in priv_send_channel_bind(s, FALSE, c, p) : t = [u EXCEPT !.current_binding = b]
    BY <1>3 DEF priv_add_channel_binding
  <2>2. c \in Channels
    <3>1. Len(s.channels) <= MaxBindings
      <4>1. n <= MaxBindings
        BY <1>3, <1>b
      <4> QED BY <1>a, <4>1, Zenon
    <3> QED BY <1>1, <3>1, NewChannelInRange
  <2> HIDE DEF c
  <2>3. Good(u, X) /\ Sent(s, u, c, p)
    BY <2>2, SentFacts
  <2>4. b \in [peer : Peers, channel : Channels] /\ b.peer = p /\ b.channel = c
    BY <2>2
  <2>5. b # None /\ u.current_binding_msg # None
    BY <2>2, <2>3, RecordsAreNotNone DEF Sent
  <2> HIDE DEF b
  <2>6. /\ t \in Privs /\ SamePermissions(u, t) /\ t.current_binding = b
        /\ t.channels = s.channels /\ t.pending_bindings = s.pending_bindings
        /\ t.current_binding_msg = u.current_binding_msg
    BY <2>1, <2>3, <2>4 DEF Good, Privs, SamePermissions, Sent
  <2>7. Good(t, X)
    BY <2>3, <2>6, SamePermissionsKeep DEF Good
  <2>8. Made(t) <= MaxBindings + 1
    <3>1. Made(t) = n + m + 1
      BY <1>a, <2>5, <2>6, MadeValue
    <3> QED BY <1>3, <1>b, <3>1
  <2>9. t.current_binding_msg.peer = b.peer /\ t.current_binding_msg.channel = b.channel
    BY <2>3, <2>4, <2>6 DEF Sent
  <2>10. Agree(t)
    BY <2>6 DEF Agree
  <2> QED BY <2>5, <2>6, <2>7, <2>8, <2>9, <2>10 DEF BindInv
<1> QED BY <1>2, <1>3

(* The searches over the list find a binding if there is one.              *)
FirstDue(ch) == SelectInSeq(ch, LAMBDA b : b.renew)

FirstOf(ch, p) == SelectInSeq(ch, LAMBDA b : b.peer = p)

(* The searches return a place in the list, or 0 if there is none.         *)
LEMMA SearchFacts ==
  ASSUME NEW ch \in Seq(Bindings), NEW p
  PROVE  /\ FirstDue(ch) \in 0..Len(ch)
         /\ FirstDue(ch) = 0 => \A j \in 1..Len(ch) : ~ch[j].renew
         /\ FirstOf(ch, p) \in 0..Len(ch)
         /\ FirstOf(ch, p) # 0 => ch[FirstOf(ch, p)].peer = p
         /\ FirstOf(ch, p) = 0 => \A j \in 1..Len(ch) : ch[j].peer # p
<1> DEFINE I == {j \in 1..Len(ch) : ch[j].renew}
           J == {j \in 1..Len(ch) : ch[j].peer = p}
<1>1. FirstDue(ch) = IF I # {} THEN Min(I) ELSE 0
  BY DEF FirstDue, SelectInSeq
<1>2. FirstOf(ch, p) = IF J # {} THEN Min(J) ELSE 0
  BY DEF FirstOf, SelectInSeq
<1>3. I \in SUBSET Nat /\ J \in SUBSET Nat
  OBVIOUS
<1>4. (I # {} => Min(I) \in I) /\ (J # {} => Min(J) \in J)
  <2> HIDE DEF I, J
  <2> QED BY <1>3, MinFacts
<1>5. Len(ch) \in Nat
  OBVIOUS
<1> QED BY <1>1, <1>2, <1>4, <1>5

(* When no request is in flight the next binding is started, or renewed.   *)
LEMMA ProcessKeeps ==
  ASSUME NEW s, NEW X, Good(s, X), s.current_binding = None, s.current_binding_msg = None,
         Agree(s), Made(s) <= MaxBindings + 1, NEW t \in priv_process_pending_bindings(s)
  PROVE  Good(t, X) /\ BindInv(t)
<1>1. s \in Privs /\ PermInv(s, X)
  BY DEF Good
<1>2. s.channels \in Seq(Bindings) /\ s.pending_bindings \in Seq(Peers)
  BY <1>1 DEF Privs
<1>3. CASE s.pending_bindings # <<>>
  <2> DEFINE w == Tail(s.pending_bindings)
             u == [s EXCEPT !.pending_bindings = w]
             p == Head(s.pending_bindings)
  <2>1. t \in priv_add_channel_binding(u, p)
    BY <1>3 DEF priv_process_pending_bindings
  <2>2. p \in Peers /\ w \in Seq(Peers) /\ Len(w) = Len(s.pending_bindings) - 1
    BY <1>2, <1>3
  <2> HIDE DEF w, p
  <2>3. /\ u \in Privs /\ SamePermissions(s, u) /\ u.pending_bindings = w
        /\ u.channels = s.channels /\ u.current_binding = None
    BY <1>1, <2>2 DEF Privs, SamePermissions
  <2> HIDE DEF u
  <2>4. Good(u, X)
    BY <1>1, <2>3, SamePermissionsKeep DEF Good
  <2>5. PICK n, m \in Nat :
          /\ n = Len(s.channels) /\ m = Len(s.pending_bindings)
          /\ Made(s) = n + m + (IF s.current_binding # None THEN 1 ELSE 0)
    BY <1>1, MadeValue
  <2>6. Made(s) = n + m
    BY <2>5
  <2>7. Made(u) = n + (m - 1)
    <3>1. PICK i, j \in Nat :
            /\ i = Len(u.channels) /\ j = Len(u.pending_bindings)
            /\ Made(u) = i + j + (IF u.current_binding # None THEN 1 ELSE 0)
      BY <2>3, MadeValue
    <3>2. i = n /\ j = m - 1
      BY <2>2, <2>3, <2>5, <3>1
    <3>3. Made(u) = i + j
      BY <2>3, <3>1
    <3> QED BY <3>2, <3>3
  <2>8. Made(u) <= MaxBindings
    BY <2>6, <2>7
  <2>9. Agree(u)
    BY <2>3 DEF Agree
  <2> QED BY <2>1, <2>2, <2>3, <2>4, <2>8, <2>9, AddKeeps
<1>4. CASE s.pending_bindings = <<>> /\ FirstDue(s.channels) # 0
  <2> DEFINE i == FirstDue(s.channels)
             b == s.channels[i]
  <2>1. t \in priv_send_channel_bind(s, FALSE, b.channel, b.peer)
    BY <1>4 DEF priv_process_pending_bindings, FirstDue
  <2>2. i \in 1..Len(s.channels)
    BY <1>2, <1>4, SearchFacts
  <2> HIDE DEF i
  <2>3. b \in Bindings
    BY <1>2, <2>2
  <2>4. b.channel \in Channels /\ b.peer \in Peers
    BY <2>3 DEF Bindings
  <2>5. Good(t, X) /\ Sent(s, t, b.channel, b.peer)
    <3> HIDE DEF b
    <3> QED BY <2>1, <2>4, SentFacts
  <2>6. Made(t) = Made(s)
    BY <2>5 DEF Sent, Made
  <2>7. t.current_binding = None /\ t.pending_bindings = <<>> /\ t.current_binding_msg # None
    BY <1>4, <2>5 DEF Sent
  <2>8. \E j \in 1..Len(t.channels) :
          /\ t.channels[j].peer = t.current_binding_msg.peer
          /\ t.channels[j].channel = t.current_binding_msg.channel
    BY <2>2, <2>5 DEF Sent
  <2>9. Agree(t)
    BY <2>5 DEF Sent, Agree
  <2> QED BY <2>5, <2>6, <2>7, <2>8, <2>9 DEF BindInv
<1>5. CASE s.pending_bindings = <<>> /\ FirstDue(s.channels) = 0
  <2>1. t = s
    BY <1>5 DEF priv_process_pending_bindings, FirstDue
  <2>2. \A j \in 1..Len(s.channels) : ~s.channels[j].renew
    BY <1>2, <1>5, SearchFacts
  <2> QED BY <1>5, <2>1, <2>2 DEF BindInv
<1> QED BY <1>3, <1>4, <1>5

(* The end of a request starts the next one.                               *)
LEMMA FailsKeeps ==
  ASSUME NEW s, NEW X, Good(s, X), BindInv(s), NEW t \in BindingFails(s)
  PROVE  Good(t, X) /\ BindInv(t)
<1> DEFINE u == [s EXCEPT !.current_binding = None, !.current_binding_msg = None]
<1>1. t \in priv_process_pending_bindings(u)
  BY DEF BindingFails
<1>2. /\ u \in Privs /\ SamePermissions(s, u)
      /\ u.channels = s.channels /\ u.pending_bindings = s.pending_bindings
      /\ u.current_binding = None /\ u.current_binding_msg = None
  BY DEF Good, Privs, SamePermissions
<1> HIDE DEF u
<1>3. Good(u, X)
  BY <1>2, SamePermissionsKeep DEF Good
<1>4. Made(u) <= MaxBindings + 1
  <2>1. PICK n, m \in Nat :
          /\ n = Len(s.channels) /\ m = Len(s.pending_bindings)
          /\ Made(s) = n + m + (IF s.current_binding # None THEN 1 ELSE 0)
    BY MadeValue DEF Good
  <2>2. Made(u) = n + m
    <3>1. PICK i, j \in Nat :
            /\ i = Len(u.channels) /\ j = Len(u.pending_bindings)
            /\ Made(u) = i + j + (IF u.current_binding # None THEN 1 ELSE 0)
      BY <1>2, MadeValue
    <3>2. i = n /\ j = m
      BY <1>2, <2>1, <3>1
    <3>3. Made(u) = i + j
      BY <1>2, <3>1
    <3> QED BY <3>2, <3>3
  <2>3. Made(s) <= MaxBindings + 1
    BY DEF BindInv
  <2>4. Made(s) = n + m + (IF s.current_binding # None THEN 1 ELSE 0)
    BY <2>1
  <2> QED BY <2>2, <2>3, <2>4
<1>5. Agree(u)
  BY <1>2 DEF BindInv, Agree
<1> QED BY <1>1, <1>2, <1>3, <1>4, <1>5, ProcessKeeps

(* The timers are set again.                                               *)
LEMMA TickKeeps ==
  ASSUME NEW s, NEW X, Good(s, X), BindInv(s), NEW t \in priv_schedule_tick(s)
  PROVE  Good(t, X) /\ BindInv(t)
<1> DEFINE a == s.current_binding_msg # None
           u(b) == [s EXCEPT !.tick_channel = b]
<1>1. \/ t \in SchedulePermissions(u(a))
      \/ \E v \in BindingFails(u(FALSE)) : t \in SchedulePermissions(v)
  BY DEF priv_schedule_tick
<1>2. ASSUME NEW b \in BOOLEAN
      PROVE  Good(u(b), X) /\ BindInv(u(b))
  <2>1. u(b) \in Privs /\ SamePermissions(s, u(b)) /\ SameBindings(s, u(b))
    BY DEF Good, Privs, SamePermissions, SameBindings
  <2> QED BY <2>1, SamePermissionsKeep, SameBindingsKeep DEF Good
<1>3. a \in BOOLEAN /\ FALSE \in BOOLEAN
  BY Zenon
<1>4. Good(u(a), X) /\ BindInv(u(a)) /\ Good(u(FALSE), X) /\ BindInv(u(FALSE))
  BY <1>2, <1>3, Zenon
<1> HIDE DEF u, a
<1>5. CASE t \in SchedulePermissions(u(a))
  BY <1>4, <1>5, ScheduleKeeps, SameBindingsKeep
<1>6. CASE \E v \in BindingFails(u(FALSE)) : t \in SchedulePermissions(v)
  <2>1. PICK v \in BindingFails(u(FALSE)) : t \in SchedulePermissions(v)
    BY <1>6
  <2>2. Good(v, X) /\ BindInv(v)
    BY <1>4, FailsKeeps, Zenon
  <2> QED BY <2>1, <2>2, ScheduleKeeps, SameBindingsKeep
<1> QED BY <1>1, <1>5, <1>6

-----------------------------------------------------------------------------
(* Asking for a permission.                                                *)

Held(s) == Good(s, NoOne) /\ BindInv(s)

Asked(s, p) == [s EXCEPT !.sent_permissions = @ \cup {p}]

One(p, n) == [x \in {p} |-> n]

(* The request joins the list after the timers of the list were set, which *)
(* touches neither the peer nor its data.                                  *)
LEMMA AskKeeps ==
  ASSUME NEW s, NEW p \in Peers \ IPv6, NEW n, Good(Asked(s, p), One(p, n)), BindInv(Asked(s, p)),
         NEW r \in BOOLEAN, NEW t \in priv_send_create_permission(s, r, p)
  PROVE  Held(t) /\ p \in t.sent_permissions /\ t.queue[p] = n
<1> DEFINE X == One(p, n)
           m == [peer |-> p, realm |-> r]
           P == [peer : Peers, realm : BOOLEAN]
<1>2. PICK u \in priv_schedule_tick(Asked(s, p)) : t = [u EXCEPT !.pending_permissions = Append(@, m)]
  BY DEF priv_send_create_permission, Asked
<1>3. Good(u, X) /\ BindInv(u)
  BY TickKeeps
<1>4. u \in Privs /\ PermInv(u, X)
  BY <1>3 DEF Good
<1>5. DOMAIN X = {p} /\ X[p] = n
  BY DEF One
<1> HIDE DEF X
<1> DEFINE pp == u.pending_permissions
           qq == Append(pp, m)
<1>6. m \in P /\ m.peer = p
  OBVIOUS
<1>7. pp \in Seq(P)
  BY <1>4 DEF Privs
<1>8. /\ qq \in Seq(P) /\ Len(pp) \in Nat /\ Len(qq) = Len(pp) + 1
      /\ \A j \in 1..Len(pp) : qq[j] = pp[j]
      /\ qq[Len(pp) + 1] = m
  <2> HIDE DEF pp, P, m
  <2> QED BY <1>6, <1>7
<1> HIDE DEF m, qq
<1>9. /\ t \in Privs /\ SameBindings(u, t) /\ t.pending_permissions = qq
      /\ t.sent_permissions = u.sent_permissions /\ t.permissions = u.permissions
      /\ t.queue = u.queue
  BY <1>2, <1>4, <1>8 DEF Privs, SameBindings, qq
<1>10. BindInv(t)
  BY <1>3, <1>9, SameBindingsKeep
<1>11. p \in u.sent_permissions /\ u.queue[p] = n
  BY <1>4, <1>5 DEF PermInv
<1>12. DOMAIN NoOne = {}
  BY DEF NoOne
<1>13. PermInv(t, NoOne)
  <2>0. \A j \in 1..Len(qq) : j \in 1..Len(pp) \/ j = Len(pp) + 1
    <3> HIDE DEF pp
    <3> QED BY <1>8
  <2>1. \A j \in 1..Len(pp) : pp[j].peer \in u.sent_permissions \ IPv6 /\ pp[j].peer # p
    BY <1>4, <1>5 DEF PermInv
  <2>2. \A i, j \in 1..Len(pp) : pp[i].peer = pp[j].peer => i = j
    BY <1>4 DEF PermInv
  <2>3. \A x \in u.sent_permissions \ IPv6 : x = p \/ \E j \in 1..Len(pp) : pp[j].peer = x
    BY <1>4, <1>5 DEF PermInv
  <2> HIDE DEF pp
  <2>4. \A i, j \in 1..Len(qq) : qq[i].peer = qq[j].peer => i = j
    BY <1>6, <1>8, <2>0, <2>1, <2>2
  <2>5. \A j \in 1..Len(qq) : qq[j].peer \in u.sent_permissions \ IPv6
    BY <1>6, <1>8, <1>11, <2>0, <2>1
  <2>6. \A x \in u.sent_permissions \ IPv6 : \E j \in 1..Len(qq) : qq[j].peer = x
    <3>1. Len(pp) + 1 \in 1..Len(qq) /\ \A j \in 1..Len(pp) : j \in 1..Len(qq)
      BY <1>8
    <3> QED BY <1>6, <1>8, <2>3, <3>1
  <2>7. /\ u.sent_permissions \cap u.permissions = {}
        /\ \A x \in Peers : u.queue[x] > 0 => x \in u.sent_permissions
    BY <1>4 DEF PermInv
  <2> QED BY <1>9, <1>12, <2>4, <2>5, <2>6, <2>7 DEF PermInv
<1> QED BY <1>9, <1>10, <1>11, <1>13 DEF Held, Good

(* One packet more waits for a permission that is asked for.               *)
LEMMA EnqueuedKeeps ==
  ASSUME NEW s, Held(s), NEW p \in Peers, p \in s.sent_permissions, s.queue[p] < MaxData
  PROVE  Held(Enqueued(s, p))
<1> DEFINE q == [s.queue EXCEPT ![p] = s.queue[p] + 1]
           t == [s EXCEPT !.queue = q]
<1>1. s \in Privs /\ PermInv(s, NoOne) /\ BindInv(s)
  BY DEF Held, Good
<1>2. s.queue \in [Peers -> 0..MaxData]
  BY <1>1 DEF Privs
<1>3. Enqueued(s, p) = t
  BY <1>1, <1>2 DEF Enqueued, Privs
<1>4. /\ q \in [Peers -> 0..MaxData]
      /\ \A x \in Peers : x # p => q[x] = s.queue[x]
  <2>1. s.queue[p] + 1 \in 0..MaxData
    BY <1>2
  <2> QED BY <1>2, <2>1
<1> HIDE DEF q
<1>5. /\ t \in Privs /\ SameBindings(s, t) /\ t.queue = q
      /\ t.pending_permissions = s.pending_permissions
      /\ t.sent_permissions = s.sent_permissions /\ t.permissions = s.permissions
  BY <1>1, <1>4 DEF Privs, SameBindings
<1> HIDE DEF t
<1>6. DOMAIN NoOne = {}
  BY DEF NoOne
<1>7. PermInv(t, NoOne)
  <2>1. \A x \in Peers : q[x] > 0 => x \in s.sent_permissions
    <3> TAKE x \in Peers
    <3>1. CASE x # p
      BY <1>1, <1>4, <3>1 DEF PermInv
    <3> QED BY <3>1
  <2>2. \A x \in DOMAIN NoOne : q[x] = NoOne[x]
    BY <1>6
  <2> QED BY <1>1, <1>5, <2>1, <2>2 DEF PermInv
<1>8. BindInv(t)
  BY <1>1, <1>5, SameBindingsKeep
<1> QED BY <1>3, <1>5, <1>7, <1>8 DEF Held, Good
=============================================================================
