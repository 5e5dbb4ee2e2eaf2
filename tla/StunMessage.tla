---------------------------- MODULE StunMessage ----------------------------
(***************************************************************************)
(* The STUN message codec (stun/stunmessage.c, stun/utils.c) with the      *)
(* parts of stun/stunagent.c that finish and scan messages.  A message is  *)
(* built attribute by attribute in a buffer of limited length, signed, and *)
(* read back by an agent in the same mode; or it is received from anybody. *)
(* Every iteration of the loops that walk over a message is one step.      *)
(*                                                                         *)
(* A buffer is known by the attribute headers in it: head[p] is the header *)
(* at offset p.  The values between the headers are not modelled, nor are  *)
(* messages of 64 KiB, at which the uint16_t lengths of the code wrap.     *)
(***************************************************************************)
EXTENDS Integers, Sequences

CONSTANTS
  Configs,        \* the modes and buffers, and what is built in them (see Config)
  Received,       \* messages that may come from the network (see Inbound)
  Types,          \* attribute types
  Unknown,        \* the mandatory types that are not in agent->known_attributes
  MaxUnknowns     \* the 'max' argument of stun_agent_find_unknowns

STUN_MESSAGE_HEADER_LENGTH == 20

Compatibilities == {"RFC3489", "RFC5389", "WLM2009", "OC2007"}

\* An attribute to be appended; 'must': the caller gives up when it does not fit.
Attribute == [type : Types, len : Nat, must : BOOLEAN]

Header == [type : Types, len : Nat]

\* aligned: STUN_AGENT_USAGE_NO_ALIGNED_ATTRIBUTES is not set.
Config ==
  [compat : Compatibilities, fingerprint : BOOLEAN, aligned : BOOLEAN,
   buffer_len : Nat, class : 0..3, method : 0..4095, attrs : Seq(Attribute)]

\* mlen is what the message's length field says, got the bytes received and by
\* the mode of the reader.
Inbound == [by : Config, head : UNION {[D -> Header] : D \in SUBSET Nat},
            mlen : Nat, got : Nat]

\* Buffers are a multiple of 4 bytes long, and hold at least a header.
ConfigOK(c) ==
  /\ c.compat \in Compatibilities /\ c.fingerprint \in BOOLEAN /\ c.aligned \in BOOLEAN
  /\ c.buffer_len \in Nat /\ c.buffer_len >= STUN_MESSAGE_HEADER_LENGTH
  /\ c.buffer_len % 4 = 0
  /\ c.attrs \in Seq(Attribute)

ASSUME ConfigsAssumption == \A c \in Configs : ConfigOK(c)

\* Any four bytes of what is received may be read as a header, any word of it by
\* a reader that aligns.
HeadersOf(m) == {p \in 20..m.got : p + 4 <= m.got /\ (m.by.aligned => p % 4 = 0)}

ASSUME ReceivedAssumption ==
  \A m \in Received :
    /\ ConfigOK(m.by)
    /\ m.mlen \in Nat /\ m.mlen >= STUN_MESSAGE_HEADER_LENGTH /\ m.got \in Nat
    /\ HeadersOf(m) \subseteq DOMAIN m.head
    /\ \A p \in DOMAIN m.head : m.head[p].type \in Types /\ m.head[p].len \in Nat

ASSUME TypesAssumption ==
  /\ {"MESSAGE_INTEGRITY", "FINGERPRINT", "REALM", "NONCE"} \subseteq Types
  /\ MaxUnknowns \in Nat

VARIABLES
  conf,       \* the mode, buffer and contents
  origin,     \* "built" or "received"
  todo,       \* attributes still to be appended
  head,       \* the attribute headers in the buffer
  word,       \* the 16-bit message type
  mlen,       \* stun_message_length
  got,        \* how many bytes the reader was given
  attrs,      \* what was appended, and where (history)
  chain,      \* the offsets of headers known to follow each other (history)
  signed,     \* what MESSAGE-INTEGRITY was computed over (history)
  phase,
  at, left,   \* where a walk is, and how many bytes validation has left
  want,       \* the type on the wire that is looked for
  found,      \* what stun_message_find returned last
  unknowns    \* the list of stun_agent_find_unknowns

vars == <<conf, origin, todo, head, word, mlen, got, attrs, chain, signed, phase, at,
          left, want, found, unknowns>>

-----------------------------------------------------------------------------
(* Helpers of utils.c and stun5389.c.                                      *)

\* Mutant: a length that needs no padding gets four bytes of it.
stun_padding_Full(l) == 4 - (l % 4)

stun_padding(l) == (4 - (l % 4)) % 4

stun_align(l) == l + stun_padding(l)

stun_message_has_cookie(c) == c.compat \in {"RFC5389", "WLM2009"}

\* The method's bits lie around the two bits of the class.
stun_set_type(c, m) ==
  256 * ((c \div 2) + 2 * ((m \div 128) % 32))
    + 16 * (c % 2) + 32 * ((m \div 16) % 8) + (m % 16)

\* A data indication of the old Google and MSN relays is 0x0115.
FixedWord(t) == IF t = 277 THEN 23 ELSE t

stun_message_get_method(t) ==
  LET u == FixedWord(t)
  IN  128 * ((u \div 512) % 32) + 16 * ((u \div 32) % 8) + (u % 16)

stun_message_get_class(t) ==
  LET u == FixedWord(t) IN 2 * ((u \div 256) % 2) + ((u \div 16) % 2)

\* In MS-TURN the ids of REALM and NONCE are swapped.
OnWire(c, type) ==
  IF c.compat = "OC2007" /\ type = "REALM" THEN "NONCE"
  ELSE IF c.compat = "OC2007" /\ type = "NONCE" THEN "REALM"
  ELSE type

\* By how much a walk moves over the attribute with header h.
Stride(c, h) == 4 + (IF c.aligned THEN stun_align(h.len) ELSE h.len)

-----------------------------------------------------------------------------
(* Building.                                                               *)

WithFingerprint(c) == c.fingerprint /\ stun_message_has_cookie(c)

\* What finish_message appends after the attributes of the usage.
Finishing(c, sign) ==
  (IF sign THEN <<[type |-> "MESSAGE_INTEGRITY", len |-> 20, must |-> TRUE]>> ELSE <<>>)
  \o (IF WithFingerprint(c)
      THEN <<[type |-> "FINGERPRINT", len |-> 4, must |-> TRUE]>> ELSE <<>>)

NotFound == [type |-> "none", pos |-> 0, len |-> 0]

\* stun_message_init for a message to be built, or a datagram that has arrived.
Init ==
  /\ \/ /\ origin = "built" /\ phase = "build"
        /\ conf \in Configs
        /\ \E sign \in BOOLEAN : todo = conf.attrs \o Finishing(conf, sign)
        /\ head = <<>> /\ mlen = STUN_MESSAGE_HEADER_LENGTH /\ got = 0
     \/ /\ origin = "received" /\ phase = "sent" /\ todo = <<>>
        /\ \E m \in Received : /\ conf = m.by /\ head = m.head
                              /\ mlen = m.mlen /\ got = m.got
  /\ word = stun_set_type(conf.class, conf.method)
  /\ attrs = <<>> /\ chain = {} /\ signed = [upto |-> 0, length |-> 0]
  /\ at = 0 /\ left = 0 /\ want = "none" /\ found = NotFound /\ unknowns = <<>>

\* The length stored: without the cookie it is aligned, as RFC 3489 wants it.
StoredLen(c, len) ==
  IF c.aligned /\ ~stun_message_has_cookie(c) THEN stun_align(len) ELSE len

\* Mutant: the header is not counted.
Fits_NoHeader(len) == mlen + len <= conf.buffer_len

\* The check of stun_message_append, which does not count the padding.
Fits(len) == mlen + 4 + len <= conf.buffer_len

\* The arguments of stun_sha1 when end is the message length that includes the
\* MESSAGE-INTEGRITY; MSN counts the FINGERPRINT that is not there yet.
SignedOver(c, end) ==
  [upto |-> end, length |-> IF c.compat = "WLM2009" /\ WithFingerprint(c)
                            THEN end - 12 ELSE end - 20]

\* stun_message_append succeeds.
stun_message_append(a) ==
  LET end == mlen + Stride(conf, a)
  IN  /\ head' = [p \in DOMAIN head \cup {mlen} |->
                    IF p = mlen THEN [type |-> OnWire(conf, a.type),
                                      len  |-> StoredLen(conf, a.len)] ELSE head[p]]
      /\ attrs' = Append(attrs, [type |-> a.type, len |-> a.len, pos |-> mlen])
      /\ chain' = chain \cup {mlen}
      /\ mlen' = end
      /\ signed' = IF a.type = "MESSAGE_INTEGRITY" THEN SignedOver(conf, end) ELSE signed

\* The usage or finish_message appends its next attribute.
AppendNext ==
  /\ phase = "build" /\ todo # <<>>
  /\ Fits(Head(todo).len)
  /\ stun_message_append(Head(todo))
  /\ todo' = Tail(todo)
  /\ UNCHANGED <<conf, origin, word, got, phase, at, left, want, found, unknowns>>

\* It does not fit: 0 is returned and nothing is sent, or it is left out.
AppendFails ==
  /\ phase = "build" /\ todo # <<>>
  /\ ~Fits(Head(todo).len)
  /\ todo' = Tail(todo)
  /\ phase' = IF Head(todo).must THEN "unsent" ELSE phase
  /\ UNCHANGED <<conf, origin, head, word, mlen, got, attrs, chain, signed, at, left,
                 want, found, unknowns>>

\* stun_agent_finish_message returns the length, and that much is sent.
Send ==
  /\ phase = "build" /\ todo = <<>>
  /\ phase' = "sent" /\ got' = mlen
  /\ UNCHANGED <<conf, origin, todo, head, word, mlen, attrs, chain, signed, at, left, want,
                 found, unknowns>>

-----------------------------------------------------------------------------
(* stun_message_validate_buffer_length, as stun_agent_validate uses it.    *)

Unread == <<conf, origin, todo, head, word, mlen, got, attrs, chain, signed>>

Unwalked == <<conf, origin, todo, head, word, mlen, got, attrs, signed>>

StartValidate ==
  /\ phase = "sent"
  /\ phase' = IF (conf.aligned /\ stun_padding(mlen) # 0) \/ got < mlen
               THEN "rejected" ELSE "validating"
  /\ at' = STUN_MESSAGE_HEADER_LENGTH
  /\ left' = mlen - STUN_MESSAGE_HEADER_LENGTH
  /\ UNCHANGED <<Unread, want, found, unknowns>>

\* Mutant: the attribute's own header is not counted.
ValidateStep_NoHeader ==
  /\ phase = "validating" /\ left >= 4
  /\ LET size == Stride(conf, head[at])
     IN  IF left < size - 4
         THEN phase' = "rejected" /\ UNCHANGED <<at, left>>
         ELSE at' = at + size /\ left' = left - size /\ UNCHANGED phase
  /\ chain' = chain \cup {at}
  /\ UNCHANGED <<Unwalked, want, found, unknowns>>

\* len is a size_t: with less than 4 bytes left, len - 4 is huge, every attribute
\* passes and the walk goes on behind the message ("astray"), where the model
\* does not follow it.
ValidateStep ==
  /\ phase = "validating" /\ left # 0
  /\ LET size == Stride(conf, head[at])
     IN  IF left < 4
         THEN phase' = "astray" /\ UNCHANGED <<at, left, chain>>
         ELSE /\ chain' = chain \cup {at}
              /\ IF left < size
                 THEN phase' = "rejected" /\ UNCHANGED <<at, left>>
                 ELSE at' = at + size /\ left' = left - size /\ UNCHANGED phase
  /\ UNCHANGED <<Unwalked, want, found, unknowns>>

\* The message is accepted only if it fills the buffer it came in.
ValidateEnd ==
  /\ phase = "validating" /\ left = 0
  /\ phase' = IF got = mlen THEN "accepted" ELSE "rejected"
  /\ UNCHANGED <<Unread, at, left, want, found, unknowns>>

-----------------------------------------------------------------------------
(* stun_message_find and stun_agent_find_unknowns on an accepted message.  *)

StartFind(type) ==
  /\ phase = "accepted"
  /\ phase' = "finding"
  /\ at' = STUN_MESSAGE_HEADER_LENGTH
  /\ want' = OnWire(conf, type)
  /\ found' = [type |-> type, pos |-> 0, len |-> 0]
  /\ UNCHANGED <<Unread, left, unknowns>>

\* Mutant: FINGERPRINT is not looked for behind MESSAGE-INTEGRITY.
EndsSearch_AtIntegrity(type) == type \in {"MESSAGE_INTEGRITY", "FINGERPRINT"}

\* Misordered attributes are ignored: only FINGERPRINT may come after
\* MESSAGE-INTEGRITY, and nothing after FINGERPRINT.
EndsSearch(type) ==
  \/ type = "MESSAGE_INTEGRITY" /\ want # "FINGERPRINT"
  \/ type = "FINGERPRINT"

FindStep ==
  /\ phase = "finding" /\ at < mlen
  /\ LET h == head[at]
     IN  /\ found' = IF h.type = want
                     THEN [found EXCEPT !.pos = at + 4, !.len = h.len] ELSE found
         /\ phase' = IF h.type = want \/ EndsSearch(h.type) THEN "accepted" ELSE phase
         /\ at' = at + Stride(conf, h)
  /\ UNCHANGED <<Unread, left, want, unknowns>>

\* NULL is returned.
FindEnd ==
  /\ phase = "finding" /\ at >= mlen
  /\ phase' = "accepted"
  /\ UNCHANGED <<Unread, at, left, want, found, unknowns>>

StartScan ==
  /\ phase = "accepted"
  /\ phase' = "scanning"
  /\ at' = STUN_MESSAGE_HEADER_LENGTH
  /\ unknowns' = <<>> /\ want' = "scan" /\ found' = NotFound
  /\ UNCHANGED <<Unread, left>>

ScanStep ==
  /\ phase = "scanning" /\ at < mlen /\ Len(unknowns) < MaxUnknowns
  /\ unknowns' = IF head[at].type \in Unknown THEN Append(unknowns, head[at].type)
                                              ELSE unknowns
  /\ at' = at + Stride(conf, head[at])
  /\ UNCHANGED <<Unread, left, want, found, phase>>

ScanEnd ==
  /\ phase = "scanning"
  /\ at >= mlen \/ Len(unknowns) >= MaxUnknowns
  /\ phase' = "accepted"
  /\ UNCHANGED <<Unread, at, left, want, found, unknowns>>

-----------------------------------------------------------------------------
Next ==
  \/ AppendNext \/ AppendFails \/ Send
  \/ StartValidate \/ ValidateStep \/ ValidateEnd
  \/ \E type \in Types : StartFind(type)
  \/ FindStep \/ FindEnd
  \/ StartScan \/ ScanStep \/ ScanEnd

Spec == Init /\ [][Next]_vars

-----------------------------------------------------------------------------
Phases == {"build", "unsent", "sent", "validating", "rejected", "accepted",
           "finding", "scanning", "astray"}

(* The variables keep their types.                                         *)
TypeOK ==
  /\ ConfigOK(conf) /\ origin \in {"built", "received"} /\ phase \in Phases
  /\ todo \in Seq(Attribute)
  /\ mlen \in Nat /\ got \in Nat /\ at \in Nat /\ left \in Nat /\ chain \subseteq Nat
  /\ \A p \in DOMAIN head : head[p].type \in Types /\ head[p].len \in Nat

(* stun_message_append checks the room for an attribute without counting   *)
(* its padding, which it writes all the same; the message stays in its     *)
(* buffer nevertheless.                                                    *)
WithinBuffer == TypeOK /\ (origin = "built" => mlen <= conf.buffer_len)

(* Every walk reads inside the message: when validation looks at a header  *)
(* there are at least 4 bytes left, as the comment in                      *)
(* stun_message_validate_buffer_length says, and find and find_unknowns    *)
(* stay on the headers that were validated, whatever the lengths in them.  *)
(* The comment is right only where the lengths are padded: a reader with   *)
(* STUN_AGENT_USAGE_NO_ALIGNED_ATTRIBUTES runs out of the message, but     *)
(* only from a received one that leaves 1 to 3 bytes after an attribute.   *)
WalkInside ==
  /\ phase = "validating" => /\ at <= mlen /\ at + left = mlen /\ mlen <= got
                             /\ left \in 1..3 => ~conf.aligned /\ origin = "received"
  /\ phase = "astray" => ~conf.aligned /\ origin = "received" /\ left \in 1..3
  /\ phase \in {"finding", "scanning"} /\ at < mlen =>
       at + Stride(conf, head[at]) <= mlen

\* The range and length field that stun_agent_validate hashes for the integrity
\* found at offset hash.
CheckedOver(hash) ==
  [upto |-> hash + 20, length |-> IF conf.compat = "WLM2009" THEN mlen - 20 ELSE hash]

(* The peer accepts what the library builds, in every mode: it validates,  *)
(* and the integrity is checked over exactly what was signed, although the *)
(* message has grown by the FINGERPRINT since.                             *)
BuiltIsAccepted ==
  origin = "built" =>
    /\ phase \notin {"rejected", "astray"}
    /\ phase = "accepted" /\ found.type = "MESSAGE_INTEGRITY" /\ found.pos # 0 =>
         CheckedOver(found.pos) = signed

\* How the attributes with a fixed format are written: append_flag, append32,
\* append64, append_addr (and append_xor_addr) and append_error.
Format(type) ==
  CASE type = "USE_CANDIDATE" -> "flag"
    [] type \in {"PRIORITY", "LIFETIME", "BANDWIDTH", "REQUESTED_TRANSPORT",
                 "REQUESTED_PORT_PROPS", "MAGIC_COOKIE", "MS_VERSION", "FINGERPRINT"} -> "32"
    [] type \in {"ICE_CONTROLLING", "ICE_CONTROLLED"} -> "64"
    [] type \in {"MAPPED_ADDRESS", "XOR_MAPPED_ADDRESS", "XOR_PEER_ADDRESS"} -> "address"
    [] type = "ERROR_CODE" -> "error"
    [] OTHER -> "bytes"

\* What find_flag, find32, find64, find_addr and find_error make of an attribute
\* with len bytes, when family is the one that was written.
Readable(format, len, family) ==
  CASE format = "flag"    -> len = 0
    [] format = "32"      -> len = 4
    [] format = "64"      -> len = 8
    [] format = "address" -> len = (IF family = "v4" THEN 8 ELSE 20)
    [] format = "error"   -> len >= 4
    [] OTHER              -> TRUE

Visible(i, type) ==
  /\ attrs[i].type = type
  /\ \A j \in 1..(i - 1) : attrs[j].type # "FINGERPRINT"
       /\ (attrs[j].type = "MESSAGE_INTEGRITY" => type = "FINGERPRINT")

\* What find must return: the first attribute of the type, if it is in order.
Expected(type) ==
  IF \E i \in DOMAIN attrs : Visible(i, type)
  THEN LET i == CHOOSE k \in DOMAIN attrs :
                  Visible(k, type) /\ \A j \in 1..(k - 1) : ~Visible(j, type)
       IN  [type |-> type, pos |-> attrs[i].pos + 4, len |-> StoredLen(conf, attrs[i].len)]
  ELSE [type |-> type, pos |-> 0, len |-> 0]

\* The mandatory attributes the reader does not know, in order.
ExpectedUnknowns ==
  LET all == SelectSeq(attrs, LAMBDA a : a.type \in Unknown)
      n   == IF Len(all) < MaxUnknowns THEN Len(all) ELSE MaxUnknowns
  IN  [i \in 1..n |-> all[i].type]

(* What is read is what was written: each attribute is found where it was  *)
(* put, under its own type and with a length that the typed find_          *)
(* functions, which compare it with the exact one, take for valid; the     *)
(* list of unknown ones is right; and so are the class and the method,     *)
(* which share the bits of one word.                                       *)
FoundIsWritten ==
  origin = "built" =>
    /\ phase = "accepted" /\ found.type # "none" => found = Expected(found.type)
    /\ phase = "accepted" /\ found.pos # 0 =>
         LET a == CHOOSE b \in {attrs[i] : i \in DOMAIN attrs} : b.pos + 4 = found.pos
         IN  Readable(Format(found.type), found.len, IF a.len = 8 THEN "v4" ELSE "v6")
    /\ phase = "accepted" /\ want = "scan" => unknowns = ExpectedUnknowns
    /\ stun_message_get_class(word) = conf.class
    /\ stun_message_get_method(word) = conf.method
=============================================================================
