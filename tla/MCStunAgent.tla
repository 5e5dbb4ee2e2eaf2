---------------------------- MODULE MCStunAgent ----------------------------
(* An instance of StunAgent for TLC: two slots and three transactions, so  *)
(* that the table fills up and slots are reused; short-term credentials,   *)
(* as the ICE agent has them, or long-term ones, as a TURN client.         *)
EXTENDS StunAgent, TLC

CONSTANTS i1, i2, i3, binding, k1, k2, u1

MCIds == {i1, i2, i3}
MCMethods == {binding}
MCKeys == {k1, k2}
MCUsers == {u1}
MCPasswordOf == [u \in MCUsers |-> k2]

Blank(class, id) ==
  [class |-> class, method |-> binding, id |-> id, cookie |-> TRUE, fingerprint |-> TRUE,
   integrity |-> NoKey, user |-> NoUser, realm |-> FALSE, nonce |-> FALSE,
   code |-> "none", unknown |-> FALSE]

MCMessages ==
  {[Blank("RESPONSE", id) EXCEPT !.integrity = key] : id \in MCIds, key \in MCKeys \cup {NoKey}}
  \cup {[Blank("RESPONSE", id) EXCEPT !.integrity = k1, !.unknown = TRUE] : id \in MCIds}
  \cup {[Blank("ERROR", id) EXCEPT !.code = code] : id \in MCIds, code \in {"401", "other"}}
  \cup {[Blank("RESPONSE", id) EXCEPT !.fingerprint = FALSE] : id \in MCIds}
  \cup {[Blank("REQUEST", id) EXCEPT !.user = user, !.integrity = key] :
          id \in MCIds, user \in {u1, NoUser}, key \in MCKeys \cup {NoKey}}

\* Ids are only compared for equality, and the messages treat them alike.
Symmetry == Permutations(MCIds)
=============================================================================
