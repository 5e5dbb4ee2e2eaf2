---------------------------- MODULE StunUsages ----------------------------
(***************************************************************************)
(* What the usages append to their messages, in order (stun/usages/ice.c,  *)
(* turn.c and bind.c, and the functions of stun/stunagent.c that start a   *)
(* message).  A length of 0 stands for an argument that is NULL or empty.  *)
(***************************************************************************)
EXTENDS StunMessage

\* An append whose failure makes the usage return 0, and one that is not checked.
Must(type, len) == <<[type |-> type, len |-> len, must |-> TRUE]>>

May(type, len) == <<[type |-> type, len |-> len, must |-> FALSE]>>

When(condition, appended) == IF condition THEN appended ELSE <<>>

Optional(type, len) == When(len > 0, Must(type, len))

HasCookie(compat) == compat \in {"RFC5389", "WLM2009"}

\* stun_agent_init_request, _response and _error (not _indication) append SOFTWARE.
Software(compat, len) == When(len > 0 /\ HasCookie(compat), May("SOFTWARE", len))

\* stun_message_append_addr: 4 bytes and the address.
AddressLen(family) == IF family = "v4" THEN 8 ELSE 20

-----------------------------------------------------------------------------
(* Connectivity checks.                                                    *)

stun_usage_ice_conncheck_create(compat, cand_use, controlling, username, identifier) ==
  When(HasCookie(compat),
       When(cand_use, Must("USE_CANDIDATE", 0))
       \o Must("PRIORITY", 4)
       \o Must(IF controlling THEN "ICE_CONTROLLING" ELSE "ICE_CONTROLLED", 8))
  \o Optional("USERNAME", username)
  \o When(compat = "WLM2009", Must("CANDIDATE_IDENTIFIER", stun_align(identifier)))

\* ice: the compatibility of the connectivity checks.
stun_usage_ice_conncheck_create_reply(compat, ice, family, username) ==
  Must(IF ice = "MSN" \/ (HasCookie(compat) /\ ice # "GOOGLE")
       THEN "XOR_MAPPED_ADDRESS" ELSE "MAPPED_ADDRESS", AddressLen(family))
  \o Optional("USERNAME", username)

\* stun_agent_init_error with the reason phrase of stun_strerror.
stun_bind_error(phrase) == Must("ERROR_CODE", 4 + phrase)

\* n unknown attributes; an odd one is repeated when there is no cookie.
stun_agent_build_unknown_attributes_error(compat, n) ==
  LET counter == IF ~HasCookie(compat) /\ n % 2 = 1 THEN n + 1 ELSE n
  IN  stun_bind_error(17) \o Must("UNKNOWN_ATTRIBUTES", 2 * counter)

-----------------------------------------------------------------------------
(* Binding and TURN requests.                                              *)

\* stun_usage_bind_create and stun_usage_bind_keepalive.
stun_usage_bind_create == <<>>

\* previous: the lengths of REALM, NONCE and RESERVATION-TOKEN in the last answer.
FromPrevious(previous) ==
  Optional("REALM", previous.realm) \o Optional("NONCE", previous.nonce)

stun_usage_turn_create(turn, bandwidth, lifetime, props, previous, username) ==
  LET rfc == turn \in {"DRAFT9", "RFC5766"}
  IN  (IF rfc THEN Must("REQUESTED_TRANSPORT", 4) \o When(bandwidth, Must("BANDWIDTH", 4))
              ELSE Must("MAGIC_COOKIE", 4))
      \o When(turn = "OC2007", May("MS_VERSION", 4))
      \o When(lifetime, Must("LIFETIME", 4))
      \o When(rfc /\ props, Must("REQUESTED_PORT_PROPS", 4))
      \o FromPrevious(previous)
      \o When(previous.reservation = 8, Must("RESERVATION_TOKEN", 8))
      \o Optional("USERNAME", username)

stun_usage_turn_create_refresh(turn, lifetime, previous, username) ==
  IF turn \notin {"DRAFT9", "RFC5766"}
  THEN stun_usage_turn_create(turn, TRUE, lifetime, FALSE, previous, username)
  ELSE When(lifetime, Must("LIFETIME", 4))
       \o FromPrevious(previous)
       \o Optional("USERNAME", username)

\* The peer is passed as a struct sockaddr, too short for anything but IPv4.
stun_usage_turn_create_permission(realm, nonce, username) ==
  Must("XOR_PEER_ADDRESS", AddressLen("v4"))
  \o Optional("NONCE", nonce) \o Optional("REALM", realm)
  \o Optional("USERNAME", username)
=============================================================================
