---------------------------- MODULE MCTurnSocket ----------------------------
(* An instance of TurnSocket for TLC.                                      *)
EXTENDS TurnSocket, TLC

CONSTANTS p1, p2, p6

MCPeers == {p1, p2, p6}

MCIPv6 == {p6}

\* No channel is bound to p6, since the bindings do not look at the family, and
\* a single datum waits for it.
OnePacketToIPv6 ==
  /\ priv.queue[p6] <= 1
  /\ priv.current_binding # None => priv.current_binding.peer # p6
  /\ \A j \in 1..Len(priv.pending_bindings) : priv.pending_bindings[j] # p6

\* Peers are only compared with each other and looked up in IPv6.
Symmetry == Permutations({p1, p2})
=============================================================================
