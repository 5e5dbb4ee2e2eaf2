--------------------------- MODULE MCStunMessage ---------------------------
(* The messages of the usages in every mode, and small received messages.  *)
EXTENDS StunUsages

MCTypes ==
  {"USE_CANDIDATE", "PRIORITY", "ICE_CONTROLLING", "ICE_CONTROLLED", "USERNAME",
   "CANDIDATE_IDENTIFIER", "XOR_MAPPED_ADDRESS", "MAPPED_ADDRESS", "ERROR_CODE",
   "UNKNOWN_ATTRIBUTES", "SOFTWARE", "REQUESTED_TRANSPORT", "BANDWIDTH", "MAGIC_COOKIE",
   "MS_VERSION", "LIFETIME", "REQUESTED_PORT_PROPS", "RESERVATION_TOKEN", "REALM",
   "NONCE", "XOR_PEER_ADDRESS", "MESSAGE_INTEGRITY", "FINGERPRINT"}

\* A reader that knows no ICE and no TURN.
MCUnknown == {"PRIORITY", "REQUESTED_TRANSPORT", "RESERVATION_TOKEN", "XOR_PEER_ADDRESS"}

NoPrevious == [realm |-> 0, nonce |-> 0, reservation |-> 0]

Previous == [realm |-> 5, nonce |-> 6, reservation |-> 8]

\* The classes: request 0, indication 1, response 2, error 3.
Usages(compat) ==
  {[class |-> 0, method |-> 1, attrs |->
      stun_usage_ice_conncheck_create(compat, TRUE, control, 9, 3)] : control \in BOOLEAN}
  \cup {[class |-> 2, method |-> 1, attrs |->
      stun_usage_ice_conncheck_create_reply(compat, ice, "v6", 7)] :
          ice \in {"RFC5245", "GOOGLE", "MSN"}}
  \cup {[class |-> 3, method |-> 1, attrs |-> stun_bind_error(13)],
        [class |-> 3, method |-> 3, attrs |->
           stun_agent_build_unknown_attributes_error(compat, 3)],
        [class |-> 1, method |-> 1, attrs |-> stun_usage_bind_create],
        [class |-> 0, method |-> 8, attrs |-> stun_usage_turn_create_permission(5, 6, 9)],
        [class |-> 0, method |-> 4, attrs |->
           stun_usage_turn_create_refresh("RFC5766", TRUE, Previous, 9)],
        [class |-> 0, method |-> 3, attrs |->
           stun_usage_turn_create("RFC5766", TRUE, TRUE, TRUE, Previous, 9)],
        [class |-> 0, method |-> 3, attrs |->
           stun_usage_turn_create_refresh("OC2007", FALSE, Previous, 0)],
        [class |-> 0, method |-> 3, attrs |->
           stun_usage_turn_create("OC2007", TRUE, FALSE, FALSE, NoPrevious, 6)]}

Modes == [compat : {"RFC3489", "RFC5389", "WLM2009", "OC2007"},
          fingerprint : BOOLEAN, aligned : BOOLEAN]

ConfigOf(m, size, u) ==
  [compat |-> m.compat, fingerprint |-> m.fingerprint, aligned |-> m.aligned,
   buffer_len |-> size, class |-> u.class, method |-> u.method,
   attrs |-> When(u.class # 1, Software(m.compat, 5)) \o u.attrs]

\* The largest buffer holds every message, the others cut some of them short.
MCConfigs ==
  UNION {{ConfigOf(m, size, u) : size \in {20, 48, 76, 160}, u \in Usages(m.compat)} :
           m \in Modes}

\* Readers of a keepalive.
Reader(compat, fingerprint, aligned) ==
  ConfigOf([compat |-> compat, fingerprint |-> fingerprint, aligned |-> aligned], 160,
           [class |-> 1, method |-> 1, attrs |-> stun_usage_bind_create])

\* Three words that may be headers, or five overlapping ones for a reader that
\* does not align; the length field and the datagram may lie.
MCReceived ==
  LET words == [type : {"USERNAME", "MESSAGE_INTEGRITY", "FINGERPRINT"}, len : {0, 4, 5, 40}]
      bytes == [type : {"USERNAME"}, len : {0, 1, 2, 4}]
  IN  [by : {Reader("RFC5389", TRUE, TRUE)}, head : [{20, 24, 28} -> words],
       mlen : {20, 22, 28, 32}, got : {28, 32}]
      \cup [by : {Reader("RFC3489", FALSE, FALSE)}, head : [20..24 -> bytes],
            mlen : {22, 26, 27, 28}, got : {28}]
=============================================================================
