---------------------------- MODULE StunReplies ----------------------------
(***************************************************************************)
(* How the usages read an answer: stun_usage_ice_conncheck_process (ice.c),*)
(* stun_usage_bind_process (bind.c), stun_usage_turn_process and           *)
(* stun_usage_turn_refresh_process (turn.c).  An answer is a record of     *)
(*   method     the method it names                                        *)
(*   class      "RESPONSE" or "ERROR"                                      *)
(*   code       the error code, 0 when ERROR-CODE is missing or malformed  *)
(*   mapped, relayed, alternate                                            *)
(*              the addresses in it: sets of none or one                   *)
(*   realm      whether it has a REALM, and if that is the one we sent     *)
(* and the operators return the code's return value.                       *)
(***************************************************************************)
EXTENDS Integers

Realms == {"none", "ours", "new"}

\* A success that reports the addresses, and an error.
Success(method, mapped, relayed) ==
  [method |-> method, class |-> "RESPONSE", code |-> 0, mapped |-> mapped,
   relayed |-> relayed, alternate |-> {}, realm |-> "none"]

Error(method, code, alternate, realm) ==
  [method |-> method, class |-> "ERROR", code |-> code, mapped |-> {},
   relayed |-> {}, alternate |-> alternate, realm |-> realm]

-----------------------------------------------------------------------------
stun_usage_ice_conncheck_process(m) ==
  CASE m.method # "BINDING"                   -> "INVALID"
    [] m.class = "ERROR" /\ m.code = 0        -> "INVALID"
    [] m.class = "ERROR" /\ m.code = 487      -> "ROLE_CONFLICT"
    [] m.class = "ERROR"                      -> "ERROR"
    [] m.class = "RESPONSE" /\ m.mapped = {}  -> "NO_MAPPED_ADDRESS"
    [] OTHER                                  -> "SUCCESS"

\* A 3xx error names another server, or is an error like any other.
ErrorOf(m) ==
  IF m.code = 0 THEN "INVALID"
  ELSE IF m.code \div 100 = 3 /\ m.alternate # {} THEN "ALTERNATE_SERVER"
  ELSE "ERROR"

stun_usage_bind_process(m) ==
  IF m.method # "BINDING" THEN "INVALID"
  ELSE IF m.class = "ERROR" THEN ErrorOf(m)
  ELSE IF m.mapped = {} THEN "ERROR" ELSE "SUCCESS"

\* In the modes that report it, the mapped address comes with the relayed one.
stun_usage_turn_process(m) ==
  IF m.method # "ALLOCATE" THEN "INVALID"
  ELSE IF m.class = "ERROR" THEN ErrorOf(m)
  ELSE IF m.relayed = {} THEN "ERROR"
  ELSE IF m.mapped = {} THEN "RELAY_SUCCESS" ELSE "MAPPED_SUCCESS"

stun_usage_turn_refresh_process(m) ==
  IF m.method # "REFRESH" \/ (m.class = "ERROR" /\ m.code = 0) THEN "INVALID"
  ELSE IF m.class = "ERROR" THEN "ERROR" ELSE "RELAY_SUCCESS"

\* The answer to an unauthenticated or stale request: it is sent anew with the
\* realm and nonce of the answer, but not when they were used already.
AsksForCredentials(m) ==
  /\ m.realm # "none"
  /\ m.code = 438 \/ (m.code = 401 /\ m.realm = "new")
=============================================================================
