------------------------- MODULE StunMessageProofs -------------------------
(***************************************************************************)
(* Proofs about the STUN codec for attributes of any length, in buffers of *)
(* any length that is a multiple of 4: messages stay in their buffers, the *)
(* walks stay in the messages, and what is built is well formed.           *)
(***************************************************************************)
EXTENDS StunMessage, SequenceTheorems, TLAPS

(* stun_align rounds up to the next multiple of 4, so that a multiple of 4 *)
(* that is not below a length is not below its aligned length either.      *)
LEMMA AlignFacts ==
  ASSUME NEW l \in Nat
  PROVE  /\ stun_padding(l) \in 0..3
         /\ stun_align(l) \in Nat /\ stun_align(l) >= l
         /\ stun_align(l) % 4 = 0
         /\ \A a \in Nat : a % 4 = 0 /\ l <= a => stun_align(l) <= a
         /\ l % 4 = 0 => stun_padding(l) = 0
BY DEF stun_align, stun_padding

(* A walk moves on by at least the header, and by whole words when the     *)
(* attributes are aligned.                                                 *)
LEMMA StrideFacts ==
  ASSUME NEW c, c.aligned \in BOOLEAN, NEW h, h.len \in Nat
  PROVE  /\ Stride(c, h) \in Nat /\ Stride(c, h) >= 4
         /\ c.aligned => Stride(c, h) % 4 = 0
         /\ \A a \in Nat : (c.aligned => a % 4 = 0) /\ 4 + h.len <= a => Stride(c, h) <= a
<1>1. CASE c.aligned
  <2> DEFINE n == stun_align(h.len)
  <2>1. n \in Nat /\ n % 4 = 0 /\ \A a \in Nat : a % 4 = 0 /\ h.len <= a => n <= a
    BY AlignFacts
  <2>2. Stride(c, h) = 4 + n
    BY <1>1 DEF Stride
  <2> HIDE DEF n
  <2>3. ASSUME NEW a \in Nat, a % 4 = 0, 4 + h.len <= a
        PROVE  4 + n <= a
    <3>1. a - 4 \in Nat /\ (a - 4) % 4 = 0 /\ h.len <= a - 4
      BY <2>3
    <3> QED BY <3>1, <2>1
  <2> QED BY <2>1, <2>2, <2>3, <1>1
<1>2. CASE ~c.aligned
  BY <1>2 DEF Stride
<1> QED BY <1>1, <1>2

(* Storing the aligned length does not change where the next header is.    *)
LEMMA StoredStride ==
  ASSUME NEW c, c.aligned \in BOOLEAN, NEW a, a.len \in Nat, NEW t
  PROVE  /\ StoredLen(c, a.len) \in Nat
         /\ Stride(c, [type |-> t, len |-> StoredLen(c, a.len)]) = Stride(c, a)
<1> DEFINE n == stun_align(a.len)
<1>1. n \in Nat /\ n % 4 = 0
  BY AlignFacts
<1>2. stun_align(n) = n
  BY <1>1 DEF stun_align, stun_padding
<1> QED
  BY <1>1, <1>2 DEF Stride, StoredLen

-----------------------------------------------------------------------------
(* The headers in chain follow each other from the first one up to end.    *)
Linked(end) ==
  /\ STUN_MESSAGE_HEADER_LENGTH \in chain \cup {end}
  /\ STUN_MESSAGE_HEADER_LENGTH <= end
  /\ \A p \in chain : LET next == p + Stride(conf, head[p])
                      IN  next <= end /\ next \in chain \cup {end}

\* What holds of a message from the first append on.
BuiltInv ==
  /\ mlen <= conf.buffer_len
  /\ conf.aligned => mlen % 4 = 0
  /\ DOMAIN head = chain
  /\ Linked(mlen)
  /\ phase \notin {"build", "unsent"} => got = mlen
  /\ phase \notin {"rejected", "astray"}
  /\ phase = "validating" => at \in chain \cup {mlen}

\* What holds of a datagram: every header that was passed was there, and started
\* a whole word if the reader aligns.
ReceivedInv ==
  /\ phase \notin {"build", "unsent"}
  /\ phase = "sent" => chain = {}
  /\ {p \in 20..got : p + 4 <= got /\ (conf.aligned => p % 4 = 0)} \subseteq DOMAIN head
  /\ chain \subseteq DOMAIN head
  /\ phase = "validating" => Linked(at) /\ (conf.aligned => at % 4 = 0 /\ mlen % 4 = 0)
  /\ phase = "astray" => ~conf.aligned /\ left \in 1..3
  /\ phase \in {"accepted", "finding", "scanning"} => Linked(mlen)

IInv ==
  /\ TypeOK
  /\ mlen >= STUN_MESSAGE_HEADER_LENGTH
  /\ origin = "built" => BuiltInv
  /\ origin = "received" => ReceivedInv
  /\ phase = "validating" => at + left = mlen /\ mlen <= got
  /\ phase \in {"finding", "scanning"} => at \in chain \cup {mlen}

(* The invariant holds of an empty message and of any datagram.            *)
LEMMA InitIInv == Init => IInv
<1> SUFFICES ASSUME Init PROVE IInv
  OBVIOUS
<1>1. CASE origin = "built"
  <2>1. conf \in Configs /\ phase = "build" /\ head = <<>> /\ chain = {} /\ got = 0
        /\ mlen = STUN_MESSAGE_HEADER_LENGTH /\ at = 0 /\ left = 0
    BY <1>1 DEF Init
  <2>2. ConfigOK(conf)
    BY <2>1, ConfigsAssumption
  <2>3. todo \in Seq(Attribute)
    <3>1. PICK sign \in BOOLEAN : todo = conf.attrs \o Finishing(conf, sign)
      BY <1>1 DEF Init
    <3> DEFINE i == [type |-> "MESSAGE_INTEGRITY", len |-> 20, must |-> TRUE]
               f == [type |-> "FINGERPRINT", len |-> 4, must |-> TRUE]
               a == IF sign THEN <<i>> ELSE <<>>
               b == IF WithFingerprint(conf) THEN <<f>> ELSE <<>>
    <3>2. i \in Attribute /\ f \in Attribute
      BY TypesAssumption DEF Attribute
    <3>3. a \in Seq(Attribute) /\ b \in Seq(Attribute)
      <4> HIDE DEF i, f
      <4> QED BY <3>2
    <3>4. Finishing(conf, sign) = a \o b
      BY DEF Finishing
    <3> HIDE DEF a, b
    <3> QED BY <3>1, <3>3, <3>4, <2>2 DEF ConfigOK
  <2>4. DOMAIN head = {}
    BY <2>1
  <2> QED
    BY <1>1, <2>1, <2>2, <2>3, <2>4
    DEF IInv, TypeOK, BuiltInv, Linked, ConfigOK, Phases, STUN_MESSAGE_HEADER_LENGTH
<1>2. CASE origin = "received"
  <2>1. PICK m \in Received : conf = m.by /\ head = m.head /\ mlen = m.mlen /\ got = m.got
    BY <1>2 DEF Init
  <2>2. phase = "sent" /\ todo = <<>> /\ chain = {} /\ at = 0 /\ left = 0
    BY <1>2 DEF Init
  <2>3. todo \in Seq(Attribute)
    BY <2>2
  <2> QED
    BY <1>2, <2>1, <2>2, <2>3, ReceivedAssumption
    DEF IInv, TypeOK, ReceivedInv, HeadersOf, Phases
<1> QED BY <1>1, <1>2 DEF Init

\* What a step that only starts, ends or counts leaves alone.
Buffer == <<conf, origin, head, mlen, chain>>

(* Reading the header at a link of the chain: it is there, it has a type   *)
(* and a length, and the next one is further on, at most at the end.       *)
LEMMA LinkFacts ==
  ASSUME IInv, NEW p \in chain, NEW end \in Nat, Linked(end), chain \subseteq DOMAIN head
  PROVE  /\ Stride(conf, head[p]) \in Nat /\ Stride(conf, head[p]) >= 4
         /\ conf.aligned => Stride(conf, head[p]) % 4 = 0
         /\ p \in Nat
         /\ p + Stride(conf, head[p]) <= end
         /\ p + Stride(conf, head[p]) \in chain \cup {end}
<1>1. head[p].len \in Nat /\ conf.aligned \in BOOLEAN /\ p \in Nat
  BY DEF IInv, TypeOK, ConfigOK
<1>2. p + Stride(conf, head[p]) <= end /\ p + Stride(conf, head[p]) \in chain \cup {end}
  BY DEF Linked
<1> QED BY <1>1, <1>2, StrideFacts

(* Appending an attribute that fits keeps the message in its buffer and    *)
(* adds a link to the chain.                                               *)
LEMMA AppendIInv == IInv /\ AppendNext => IInv'
<1> SUFFICES ASSUME IInv, AppendNext PROVE IInv'
  OBVIOUS
<1> DEFINE a == Head(todo)
           n == Stride(conf, a)
           h == [type |-> OnWire(conf, a.type), len |-> StoredLen(conf, a.len)]
<1>1. a \in Attribute /\ Tail(todo) \in Seq(Attribute)
  <2>1. todo \in Seq(Attribute) /\ todo # <<>>
    BY DEF IInv, TypeOK, AppendNext
  <2> QED BY <2>1, HeadTailProperties
<1>2. a.type \in Types /\ a.len \in Nat
  BY <1>1 DEF Attribute
<1>3. ConfigOK(conf) /\ mlen \in Nat /\ mlen >= 20 /\ chain \subseteq Nat
      /\ phase = "build" /\ origin = "built" /\ BuiltInv
  <2>1. phase = "build" BY DEF AppendNext
  <2>2. origin \in {"built", "received"} BY DEF IInv, TypeOK
  <2>3. origin # "received"
    BY <2>1 DEF IInv, ReceivedInv
  <2> QED BY <2>1, <2>2, <2>3 DEF IInv, TypeOK, STUN_MESSAGE_HEADER_LENGTH
<1>4. h.len \in Nat /\ Stride(conf, h) = n
  BY <1>2, <1>3, StoredStride DEF ConfigOK
<1>5. /\ n \in Nat /\ n >= 4 /\ (conf.aligned => n % 4 = 0)
      /\ \A b \in Nat : (conf.aligned => b % 4 = 0) /\ 4 + a.len <= b => n <= b
  BY <1>2, <1>3, StrideFacts DEF ConfigOK
<1>6. h.type \in Types
  BY <1>2, TypesAssumption DEF OnWire
<1> HIDE DEF n, h
<1>7. /\ head' = [p \in DOMAIN head \cup {mlen} |-> IF p = mlen THEN h ELSE head[p]]
      /\ mlen' = mlen + n /\ chain' = chain \cup {mlen}
      /\ todo' = Tail(todo)
      /\ UNCHANGED <<conf, origin, got, phase, at, left>>
  BY DEF AppendNext, stun_message_append, n, h
<1>8. mlen + n <= conf.buffer_len
  <2>1. mlen + 4 + a.len <= conf.buffer_len
    BY DEF AppendNext, Fits
  <2> DEFINE b == conf.buffer_len - mlen
  <2>2. b \in Nat /\ 4 + a.len <= b /\ (conf.aligned => b % 4 = 0)
    <3>1. conf.buffer_len \in Nat /\ conf.buffer_len % 4 = 0
          /\ (conf.aligned => mlen % 4 = 0)
      BY <1>3 DEF BuiltInv, ConfigOK
    <3>2. ASSUME NEW k \in Nat, NEW x \in Nat, NEW y \in Nat, x + 4 + k <= y, y % 4 = 0
          PROVE  y - x \in Nat /\ 4 + k <= y - x /\ (x % 4 = 0 => (y - x) % 4 = 0)
      BY <3>2
    <3> HIDE DEF a
    <3> QED BY <2>1, <1>2, <1>3, <3>1, <3>2
  <2>3. n <= b
    <3> HIDE DEF b
    <3> QED BY <2>2, <1>5
  <2> QED BY <2>3, <1>3, <1>5 DEF ConfigOK
<1>9. mlen \notin chain
  <2> SUFFICES ASSUME mlen \in chain PROVE FALSE
    OBVIOUS
  <2> QED BY <1>3, LinkFacts DEF BuiltInv
<1>10. Linked(mlen)'
  <2>1. ASSUME NEW p \in chain
        PROVE  /\ p + Stride(conf, head'[p]) <= mlen + n
               /\ p + Stride(conf, head'[p]) \in chain' \cup {mlen + n}
    <3>1. head'[p] = head[p]
      BY <1>7, <1>9, <1>3 DEF BuiltInv
    <3> QED BY <3>1, <1>3, <1>5, <1>7, LinkFacts DEF BuiltInv
  <2>2. mlen + Stride(conf, head'[mlen]) = mlen + n
    BY <1>4, <1>7
  <2> QED
    BY <2>1, <2>2, <1>3, <1>5, <1>7 DEF Linked, BuiltInv, STUN_MESSAGE_HEADER_LENGTH
<1>11. BuiltInv'
  <2>1. conf'.aligned => mlen' % 4 = 0
    BY <1>3, <1>5, <1>7 DEF BuiltInv
  <2> QED BY <2>1, <1>3, <1>7, <1>8, <1>10 DEF BuiltInv
<1>12. \A p \in DOMAIN head' : head'[p].type \in Types /\ head'[p].len \in Nat
  BY <1>4, <1>6, <1>7 DEF IInv, TypeOK
<1>13. TypeOK'
  <2>1. ConfigOK(conf')
    BY <1>3, <1>7
  <2>2. todo' \in Seq(Attribute)
    BY <1>1, <1>7
  <2>3. mlen' \in Nat /\ chain' \subseteq Nat
    BY <1>3, <1>5, <1>7
  <2>4. /\ origin' \in {"built", "received"} /\ phase' \in Phases
        /\ got' \in Nat /\ at' \in Nat /\ left' \in Nat
    BY <1>7 DEF IInv, TypeOK
  <2> QED BY <2>1, <2>2, <2>3, <2>4, <1>12 DEF TypeOK
<1> QED
  BY <1>3, <1>5, <1>7, <1>11, <1>13 DEF IInv, STUN_MESSAGE_HEADER_LENGTH

(* The steps that do not walk leave the buffer alone.                      *)
LEMMA AppendFailsIInv == IInv /\ AppendFails => IInv'
<1> SUFFICES ASSUME IInv, AppendFails PROVE IInv'
  OBVIOUS
<1>1. Tail(todo) \in Seq(Attribute)
  BY HeadTailProperties DEF IInv, TypeOK, AppendFails
<1>2. UNCHANGED <<Buffer, got, at, left>> /\ todo' = Tail(todo) /\ phase = "build"
      /\ phase' \in {"build", "unsent"}
  BY DEF AppendFails, Buffer
<1>3. ConfigOK(conf') /\ TypeOK'
  BY <1>1, <1>2 DEF IInv, TypeOK, Buffer, Phases
<1>4. origin = "built" => Linked(mlen)'
  BY <1>2 DEF IInv, BuiltInv, Linked, Buffer
<1>5. BuiltInv' \/ origin # "built"
  BY <1>2, <1>4 DEF IInv, BuiltInv, Buffer
<1> QED BY <1>2, <1>3, <1>5 DEF IInv, Buffer, ReceivedInv

(* What is sent is the whole message.                                      *)
LEMMA SendIInv == IInv /\ Send => IInv'
<1> SUFFICES ASSUME IInv, Send PROVE IInv'
  OBVIOUS
<1>2. UNCHANGED <<Buffer, todo, at, left>> /\ phase = "build" /\ phase' = "sent"
      /\ got' = mlen
  BY DEF Send, Buffer
<1>3. ConfigOK(conf') /\ TypeOK'
  BY <1>2 DEF IInv, TypeOK, Buffer, Phases
<1>4. origin = "built" => Linked(mlen)'
  BY <1>2 DEF IInv, BuiltInv, Linked, Buffer
<1>5. BuiltInv' \/ origin # "built"
  BY <1>2, <1>4 DEF IInv, BuiltInv, Buffer
<1> QED BY <1>2, <1>3, <1>5 DEF IInv, Buffer, ReceivedInv

-----------------------------------------------------------------------------
(* Facts every walking step needs: the buffer is the same, and only where  *)
(* the walk is changes.                                                    *)
LEMMA WalkFrame ==
  ASSUME IInv, UNCHANGED Unread, at' \in Nat, left' \in Nat, phase' \in Phases
  PROVE  /\ TypeOK' /\ mlen' >= STUN_MESSAGE_HEADER_LENGTH
         /\ \A e \in Nat : Linked(e)' <=> Linked(e)
         /\ Linked(mlen)' <=> Linked(mlen)
<1>1. UNCHANGED <<conf, origin, todo, head, mlen, got, chain>>
  BY DEF Unread
<1>2. ConfigOK(conf')
  BY <1>1 DEF IInv, TypeOK
<1>3. TypeOK' /\ mlen' >= STUN_MESSAGE_HEADER_LENGTH
  BY <1>1, <1>2 DEF IInv, TypeOK
<1>4. \A e \in Nat : Linked(e)' <=> Linked(e)
  BY <1>1 DEF Linked
<1>5. Linked(mlen)' <=> Linked(mlen)
  BY <1>1 DEF Linked
<1> QED BY <1>3, <1>4, <1>5

(* Validation starts with everything after the message's header left.      *)
LEMMA StartValidateIInv == IInv /\ StartValidate => IInv'
<1> SUFFICES ASSUME IInv, StartValidate PROVE IInv'
  OBVIOUS
<1>1. UNCHANGED <<conf, origin, todo, head, mlen, got, chain>> /\ UNCHANGED Unread
  BY DEF StartValidate, Unread
<1>2. at' = 20 /\ left' = mlen - 20 /\ phase = "sent" /\ mlen \in Nat /\ mlen >= 20
      /\ got \in Nat
  BY DEF IInv, TypeOK, StartValidate, STUN_MESSAGE_HEADER_LENGTH
<1>3. /\ phase' = "rejected" \/ (phase' = "validating" /\ mlen <= got
                                /\ (conf.aligned => stun_padding(mlen) = 0))
      /\ phase' = "rejected" => (conf.aligned /\ stun_padding(mlen) # 0) \/ got < mlen
  BY <1>2 DEF StartValidate
<1>4. TypeOK' /\ mlen' >= STUN_MESSAGE_HEADER_LENGTH /\ (Linked(mlen)' <=> Linked(mlen))
  BY <1>1, <1>2, <1>3, WalkFrame DEF Phases
<1>5. ASSUME origin = "built" PROVE BuiltInv'
  <2>1. BuiltInv /\ got = mlen
    BY <1>2, <1>5 DEF IInv, BuiltInv
  <2>2. conf.aligned => stun_padding(mlen) = 0
    BY <2>1, <1>2, AlignFacts DEF BuiltInv
  <2>3. phase' = "validating"
    BY <2>1, <2>2, <1>2, <1>3
  <2>4. at' \in chain \cup {mlen}
    BY <2>1, <1>2 DEF BuiltInv, Linked, STUN_MESSAGE_HEADER_LENGTH
  <2> QED BY <2>1, <2>3, <2>4, <1>1, <1>4 DEF BuiltInv
<1>6. ASSUME origin = "received" PROVE ReceivedInv'
  <2>1. ReceivedInv /\ chain = {}
    BY <1>2, <1>6 DEF IInv, ReceivedInv
  <2>2. phase' = "validating" /\ conf.aligned => at' % 4 = 0 /\ mlen % 4 = 0
    BY <2>1, <1>2, <1>3 DEF ReceivedInv, stun_padding
  <2>3. Linked(at)'
    BY <2>1, <1>1, <1>2 DEF Linked, STUN_MESSAGE_HEADER_LENGTH
  <2> QED BY <2>1, <2>2, <2>3, <1>1, <1>2, <1>3 DEF ReceivedInv
<1> QED BY <1>1, <1>2, <1>3, <1>4, <1>5, <1>6 DEF IInv

(* A walk that ends with nothing left has met the whole message.           *)
LEMMA ValidateEndIInv == IInv /\ ValidateEnd => IInv'
<1> SUFFICES ASSUME IInv, ValidateEnd PROVE IInv'
  OBVIOUS
<1>1. UNCHANGED <<conf, origin, todo, head, mlen, got, chain, at, left>> /\ UNCHANGED Unread
  BY DEF ValidateEnd, Unread
<1>2. /\ phase = "validating" /\ left = 0 /\ mlen \in Nat /\ at \in Nat /\ at = mlen
      /\ phase' = (IF got = mlen THEN "accepted" ELSE "rejected")
  BY DEF IInv, TypeOK, ValidateEnd
<1>3. TypeOK' /\ mlen' >= STUN_MESSAGE_HEADER_LENGTH /\ (Linked(mlen)' <=> Linked(mlen))
  <2>1. at' \in Nat /\ left' \in Nat /\ phase' \in Phases
    BY <1>1, <1>2 DEF IInv, TypeOK, Phases
  <2> QED BY <2>1, <1>1, WalkFrame
<1>4. ASSUME origin = "built" PROVE BuiltInv'
  BY <1>1, <1>2, <1>3, <1>4 DEF IInv, BuiltInv
<1>5. ASSUME origin = "received" PROVE ReceivedInv'
  <2>1. ReceivedInv /\ Linked(mlen)
    BY <1>2, <1>5 DEF IInv, ReceivedInv
  <2> QED BY <2>1, <1>1, <1>2, <1>3 DEF ReceivedInv
<1> QED BY <1>1, <1>2, <1>3, <1>4, <1>5 DEF IInv

(* An iteration of validation: with at least 4 bytes left it looks at one  *)
(* more header, and either rejects the message or adds a link.             *)
LEMMA ValidateStepIInv == IInv /\ ValidateStep => IInv'
<1> SUFFICES ASSUME IInv, ValidateStep PROVE IInv'
  OBVIOUS
<1> DEFINE size == Stride(conf, head[at])
<1>1. UNCHANGED <<conf, origin, todo, head, mlen, got>>
  BY DEF ValidateStep, Unwalked
<1>2. /\ phase = "validating" /\ left # 0 /\ mlen \in Nat /\ at \in Nat /\ left \in Nat
      /\ at + left = mlen /\ mlen <= got /\ chain \subseteq Nat /\ got \in Nat
      /\ mlen >= STUN_MESSAGE_HEADER_LENGTH
  BY DEF IInv, TypeOK, ValidateStep
<1>3. /\ \/ /\ left >= 4 /\ left < size /\ phase' = "rejected" /\ at' = at /\ left' = left
         \/ /\ left < 4 /\ phase' = "astray" /\ at' = at /\ left' = left
         \/ /\ left >= 4 /\ ~(left < size)
            /\ at' = at + size /\ left' = left - size /\ phase' = "validating"
      /\ chain' = IF left < 4 THEN chain ELSE chain \cup {at}
  BY <1>2 DEF ValidateStep
<1>4. origin \in {"built", "received"} /\ ConfigOK(conf)
      /\ \A p \in DOMAIN head : head[p].type \in Types /\ head[p].len \in Nat
  BY DEF IInv, TypeOK
<1>5. size \in Nat /\ (phase' = "validating" => size <= left)
        => TypeOK' /\ mlen' >= STUN_MESSAGE_HEADER_LENGTH
  <2> SUFFICES ASSUME size \in Nat, phase' = "validating" => size <= left
      PROVE  TypeOK' /\ mlen' >= STUN_MESSAGE_HEADER_LENGTH
    OBVIOUS
  <2> HIDE DEF size
  <2>1. at' \in Nat /\ left' \in Nat /\ phase' \in Phases
    BY <1>2, <1>3 DEF Phases
  <2>2. ConfigOK(conf') /\ chain' \subseteq Nat
    BY <1>1, <1>2, <1>3, <1>4
  <2> QED BY <2>1, <2>2, <1>1, <1>2 DEF IInv, TypeOK
<1>6. CASE origin = "built"
  <2>1. BuiltInv /\ at \in chain
    <3>1. BuiltInv /\ at \in chain \cup {mlen}
      BY <1>2, <1>6 DEF IInv, BuiltInv
    <3> QED BY <3>1, <1>2
  <2>2. size \in Nat /\ size >= 4 /\ at + size <= mlen /\ at + size \in chain \cup {mlen}
    <3>1. Linked(mlen) /\ chain \subseteq DOMAIN head
      BY <2>1 DEF BuiltInv
    <3> QED BY <3>1, <2>1, <1>2, LinkFacts
  <2> HIDE DEF size
  <2>3. at' = at + size /\ left' = left - size /\ phase' = "validating" /\ size <= left
    BY <2>2, <1>2, <1>3
  <2>4. chain' = chain
    BY <2>1, <1>3
  <2>5. Linked(mlen)'
    BY <2>1, <2>4, <1>1 DEF BuiltInv, Linked
  <2>6. BuiltInv'
    <3>1. mlen' <= conf'.buffer_len /\ (conf'.aligned => mlen' % 4 = 0)
      BY <2>1, <1>1 DEF BuiltInv
    <3>2. DOMAIN head' = chain' /\ got' = mlen'
      BY <2>1, <2>4, <1>1, <1>2 DEF BuiltInv
    <3>3. at' \in chain' \cup {mlen'}
      BY <2>2, <2>3, <2>4, <1>1
    <3> QED BY <3>1, <3>2, <3>3, <2>3, <2>5 DEF BuiltInv
  <2>7. at' + left' = mlen'
    BY <2>2, <2>3, <1>1, <1>2
  <2> QED BY <2>2, <2>3, <2>6, <2>7, <1>1, <1>2, <1>5, <1>6 DEF IInv
<1>7. CASE origin = "received" /\ left < 4
  <2>1. ReceivedInv /\ Linked(at) /\ (conf.aligned => at % 4 = 0 /\ mlen % 4 = 0)
    BY <1>2, <1>7 DEF IInv, ReceivedInv
  <2>2. left \in 1..3 /\ ~conf.aligned
    <3>1. left \in 1..3
      BY <1>2, <1>7
    <3> QED BY <3>1, <2>1, <1>2
  <2>3. UNCHANGED <<at, left, chain>> /\ phase' = "astray"
    BY <1>2, <1>3, <1>7
  <2>4. TypeOK'
    <3>1. ConfigOK(conf') /\ phase' \in Phases
      BY <2>3, <1>1, <1>4 DEF Phases
    <3> QED BY <3>1, <2>3, <1>1 DEF IInv, TypeOK
  <2>5. ReceivedInv'
    BY <2>1, <2>2, <2>3, <1>1 DEF ReceivedInv
  <2> QED BY <2>3, <2>4, <2>5, <1>1, <1>2, <1>7 DEF IInv
<1>8. CASE origin = "received" /\ left >= 4
  <2>0. chain' = chain \cup {at}
    BY <1>2, <1>3, <1>8
  <2>1. ReceivedInv /\ Linked(at) /\ (conf.aligned => at % 4 = 0 /\ mlen % 4 = 0)
    BY <1>2, <1>8 DEF IInv, ReceivedInv
  <2>2. at >= 20
    BY <2>1, <1>2 DEF Linked, STUN_MESSAGE_HEADER_LENGTH
  <2>3. at \in DOMAIN head
    BY <2>1, <2>2, <1>2, <1>8 DEF ReceivedInv
  <2>4. size \in Nat /\ size >= 4 /\ (conf.aligned => size % 4 = 0)
    <3>1. head[at].len \in Nat /\ conf.aligned \in BOOLEAN
      BY <2>3, <1>4 DEF ConfigOK
    <3> QED BY <3>1, StrideFacts
  <2>5. phase' = "validating" => Linked(at)' /\ (conf.aligned => at' % 4 = 0)
    <3> SUFFICES ASSUME phase' = "validating"
                 PROVE  Linked(at)' /\ (conf.aligned => at' % 4 = 0)
      OBVIOUS
    <3>1. at' = at + size
      BY <1>3
    <3>2. conf.aligned => at' % 4 = 0
      <4> HIDE DEF size
      <4> QED BY <3>1, <2>1, <2>4, <1>2
    <3>3. ASSUME NEW p \in chain
          PROVE  /\ p + Stride(conf, head[p]) <= at'
                 /\ p + Stride(conf, head[p]) \in chain' \cup {at'}
      <4>1. chain \subseteq DOMAIN head
        BY <2>1 DEF ReceivedInv
      <4>2. p + Stride(conf, head[p]) <= at /\ p + Stride(conf, head[p]) \in chain \cup {at}
            /\ p \in Nat /\ Stride(conf, head[p]) \in Nat
        BY <4>1, <2>1, <1>2, LinkFacts
      <4> HIDE DEF size
      <4> QED BY <4>2, <3>1, <2>0, <2>4, <1>1, <1>2
    <3>4. at + Stride(conf, head[at]) = at'
      BY <3>1
    <3> HIDE DEF size
    <3>5. 20 \in chain' \cup {at'} /\ 20 <= at'
      BY <3>1, <2>0, <2>1, <2>2, <2>4, <1>1, <1>2 DEF Linked, STUN_MESSAGE_HEADER_LENGTH
    <3>6. at' \in Nat
      BY <3>1, <2>4, <1>2
    <3>7. Linked(at)'
      BY <3>3, <3>4, <3>5, <3>6, <2>0, <1>1 DEF Linked, STUN_MESSAGE_HEADER_LENGTH
    <3> QED BY <3>2, <3>7
  <2> HIDE DEF size
  <2>6. phase' = "validating" => size <= left
    BY <2>4, <1>2, <1>3
  <2>7. ReceivedInv'
    <3>1. phase' \in {"validating", "rejected"}
      BY <1>2, <1>3, <1>8
    <3> QED BY <3>1, <2>0, <2>1, <2>3, <2>5, <1>1 DEF ReceivedInv
  <2>8. phase' = "validating" => at' + left' = mlen'
    BY <2>4, <2>6, <1>1, <1>2, <1>3
  <2>9. phase' \in {"validating", "rejected"}
    BY <1>2, <1>3, <1>8
  <2> QED BY <2>4, <2>6, <2>7, <2>8, <2>9, <1>1, <1>2, <1>5, <1>8 DEF IInv
<1> QED BY <1>2, <1>4, <1>6, <1>7, <1>8

-----------------------------------------------------------------------------
Reading == {"accepted", "finding", "scanning"}

(* An accepted message is a chain of headers from its first to its end.    *)
LEMMA AcceptedIsLinked ==
  ASSUME IInv, phase \in Reading
  PROVE  /\ Linked(mlen) /\ chain \subseteq DOMAIN head
         /\ 20 \in chain \cup {mlen}
         /\ mlen \in Nat /\ at \in Nat
<1>1. origin \in {"built", "received"} /\ mlen \in Nat /\ at \in Nat
  BY DEF IInv, TypeOK
<1>2. Linked(mlen) /\ chain \subseteq DOMAIN head
  BY <1>1 DEF IInv, BuiltInv, ReceivedInv, Reading
<1> QED BY <1>1, <1>2 DEF Linked, STUN_MESSAGE_HEADER_LENGTH

(* Reading keeps the invariant as long as it stays on the chain.           *)
LEMMA ReadIInv ==
  ASSUME IInv, phase \in Reading, phase' \in Reading, UNCHANGED <<Unread, left>>, at' \in Nat,
         phase' \in {"finding", "scanning"} => at' \in chain \cup {mlen}
  PROVE  IInv'
<1>1. UNCHANGED <<conf, origin, todo, head, mlen, got, chain, left>> /\ UNCHANGED Unread
  BY DEF Unread
<1>2. TypeOK' /\ mlen' >= STUN_MESSAGE_HEADER_LENGTH /\ (Linked(mlen)' <=> Linked(mlen))
  <2>1. left' \in Nat /\ phase' \in Phases
    BY <1>1 DEF IInv, TypeOK, Phases, Reading
  <2> QED BY <2>1, <1>1, WalkFrame
<1>3. phase \notin {"build", "unsent", "sent", "validating", "rejected", "astray"}
      /\ phase' \notin {"build", "unsent", "sent", "validating", "rejected", "astray"}
  BY DEF Reading
<1>4. ASSUME origin = "built" PROVE BuiltInv'
  <2>1. BuiltInv
    BY <1>4 DEF IInv
  <2>2. mlen' <= conf'.buffer_len /\ (conf'.aligned => mlen' % 4 = 0)
    BY <2>1, <1>1 DEF BuiltInv
  <2> QED BY <2>1, <2>2, <1>1, <1>2, <1>3 DEF BuiltInv
<1>5. ASSUME origin = "received" PROVE ReceivedInv'
  <2>1. ReceivedInv /\ Linked(mlen)
    BY <1>5, AcceptedIsLinked DEF IInv
  <2> QED BY <2>1, <1>1, <1>2, <1>3 DEF ReceivedInv
<1> QED BY <1>1, <1>2, <1>3, <1>4, <1>5 DEF IInv

(* One iteration of find or of find_unknowns moves on to the next link.    *)
LEMMA StepStaysLinked ==
  ASSUME IInv, phase \in {"finding", "scanning"}, at < mlen
  PROVE  /\ at + Stride(conf, head[at]) \in Nat
         /\ at + Stride(conf, head[at]) \in chain \cup {mlen}
         /\ at + Stride(conf, head[at]) <= mlen
<1>1. Linked(mlen) /\ chain \subseteq DOMAIN head /\ mlen \in Nat /\ at \in Nat
  BY AcceptedIsLinked DEF Reading
<1>2. at \in chain
  <2>1. at \in chain \cup {mlen}
    BY DEF IInv
  <2> QED BY <2>1, <1>1
<1>3. /\ Stride(conf, head[at]) \in Nat
      /\ at + Stride(conf, head[at]) <= mlen
      /\ at + Stride(conf, head[at]) \in chain \cup {mlen}
  BY <1>1, <1>2, LinkFacts
<1> QED BY <1>1, <1>3

(* Every step of the builder and of the readers keeps the invariant.       *)
LEMMA NextIInv == IInv /\ [Next]_vars => IInv'
<1> SUFFICES ASSUME IInv, [Next]_vars PROVE IInv'
  OBVIOUS
<1>1. CASE AppendNext BY <1>1, AppendIInv
<1>2. CASE AppendFails BY <1>2, AppendFailsIInv
<1>3. CASE Send BY <1>3, SendIInv
<1>4. CASE StartValidate BY <1>4, StartValidateIInv
<1>5. CASE ValidateStep BY <1>5, ValidateStepIInv
<1>6. CASE ValidateEnd BY <1>6, ValidateEndIInv
<1>7. ASSUME NEW type \in Types, StartFind(type) PROVE IInv'
  <2>1. /\ phase = "accepted" /\ phase' = "finding" /\ at' = 20 /\ UNCHANGED <<Unread, left>>
    BY <1>7 DEF StartFind, STUN_MESSAGE_HEADER_LENGTH
  <2> QED BY <2>1, AcceptedIsLinked, ReadIInv DEF Reading
<1>8. CASE FindStep
  <2>1. /\ phase = "finding" /\ phase' \in {"finding", "accepted"} /\ at < mlen
        /\ at' = at + Stride(conf, head[at]) /\ UNCHANGED <<Unread, left>>
    BY <1>8 DEF FindStep
  <2> QED BY <2>1, StepStaysLinked, ReadIInv DEF Reading
<1>9. CASE FindEnd
  <2>1. /\ phase = "finding" /\ phase' = "accepted" /\ at' = at /\ UNCHANGED <<Unread, left>>
    BY <1>9 DEF FindEnd
  <2> QED BY <2>1, AcceptedIsLinked, ReadIInv DEF Reading
<1>10. CASE StartScan
  <2>1. /\ phase = "accepted" /\ phase' = "scanning" /\ at' = 20 /\ UNCHANGED <<Unread, left>>
    BY <1>10 DEF StartScan, STUN_MESSAGE_HEADER_LENGTH
  <2> QED BY <2>1, AcceptedIsLinked, ReadIInv DEF Reading
<1>11. CASE ScanStep
  <2>1. /\ phase = "scanning" /\ phase' = "scanning" /\ at < mlen
        /\ at' = at + Stride(conf, head[at]) /\ UNCHANGED <<Unread, left>>
    BY <1>11 DEF ScanStep
  <2> QED BY <2>1, StepStaysLinked, ReadIInv DEF Reading
<1>12. CASE ScanEnd
  <2>1. /\ phase = "scanning" /\ phase' = "accepted" /\ at' = at /\ UNCHANGED <<Unread, left>>
    BY <1>12 DEF ScanEnd
  <2> QED BY <2>1, AcceptedIsLinked, ReadIInv DEF Reading
<1>13. CASE UNCHANGED vars
  BY <1>13 DEF vars, IInv, TypeOK, BuiltInv, ReceivedInv, Linked
<1> QED
  BY <1>1, <1>2, <1>3, <1>4, <1>5, <1>6, <1>7, <1>8, <1>9, <1>10, <1>11, <1>12, <1>13
  DEF Next

(* The invariant holds throughout.                                         *)
LEMMA AlwaysIInv == Spec => []IInv
BY InitIInv, NextIInv, PTL DEF Spec

(* Whatever is appended, in whatever order, the message with its padding   *)
(* stays in its buffer, if the buffer's length is a multiple of 4.         *)
THEOREM BufferIsEnough == Spec => []WithinBuffer
<1>1. IInv => WithinBuffer
  BY DEF IInv, WithinBuffer, BuiltInv
<1> QED BY <1>1, AlwaysIInv, PTL

(* No walk over an accepted message reads past its end, whatever lengths   *)
(* its headers hold, and none that validates one, except in a reader that  *)
(* does not align when a received message leaves 1 to 3 bytes over.        *)
THEOREM WalksStayInside == Spec => []WalkInside
<1>1. IInv => WalkInside
  <2> SUFFICES ASSUME IInv PROVE WalkInside
    OBVIOUS
  <2>0. at \in Nat /\ left \in Nat /\ mlen \in Nat /\ origin \in {"built", "received"}
        /\ (phase = "validating" => at + left = mlen /\ mlen <= got)
    BY DEF IInv, TypeOK
  <2>1. phase = "validating" /\ left \in 1..3 => ~conf.aligned /\ origin = "received"
    <3> SUFFICES ASSUME phase = "validating", left \in 1..3
                 PROVE  ~conf.aligned /\ origin = "received"
      OBVIOUS
    <3>1. CASE origin = "received"
      <4>1. conf.aligned => at % 4 = 0 /\ mlen % 4 = 0
        BY <3>1 DEF IInv, ReceivedInv
      <4> QED BY <4>1, <3>1, <2>0
    <3>2. CASE origin = "built"
      <4>1. at \in chain \cup {mlen} /\ Linked(mlen) /\ chain \subseteq DOMAIN head
        BY <3>2 DEF IInv, BuiltInv
      <4>2. at \in chain
        BY <4>1, <2>0
      <4>3. Stride(conf, head[at]) \in Nat /\ Stride(conf, head[at]) >= 4
            /\ at + Stride(conf, head[at]) <= mlen
        BY <4>1, <4>2, <2>0, LinkFacts
      <4> QED BY <4>3, <2>0
    <3> QED BY <3>1, <3>2, <2>0
  <2>2. phase = "astray" => ~conf.aligned /\ origin = "received" /\ left \in 1..3
    BY <2>0 DEF IInv, BuiltInv, ReceivedInv
  <2>3. phase \in {"finding", "scanning"} /\ at < mlen => at + Stride(conf, head[at]) <= mlen
    BY StepStaysLinked
  <2>4. phase = "validating" => at <= mlen
    BY <2>0
  <2> QED BY <2>0, <2>1, <2>2, <2>3, <2>4 DEF WalkInside
<1> QED BY <1>1, AlwaysIInv, PTL

(* Whatever the library builds passes the validation of a reader in the    *)
(* same mode, with or without padding and for every attribute length.      *)
THEOREM BuiltIsNotRejected ==
  Spec => [](origin = "built" => phase \notin {"rejected", "astray"})
<1>1. IInv => (origin = "built" => phase \notin {"rejected", "astray"})
  BY DEF IInv, BuiltInv
<1> QED BY <1>1, AlwaysIInv, PTL
=============================================================================
