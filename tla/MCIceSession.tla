--------------------------- MODULE MCIceSession ---------------------------
(* Two agents: one host each with b's address translated, b's translated   *)
(* address known to b from a STUN server, and b with two hosts.            *)
EXTENDS IceSession

Host(addr, priority) ==
  [addr |-> addr, socket |-> addr, type |-> "HOST", priority |-> priority,
   foundation |-> "host", family |-> "v4"]

Reflexive(addr, socket, priority) ==
  [addr |-> addr, socket |-> socket, type |-> "SERVER_REFLEXIVE", priority |-> priority,
   foundation |-> "srflx", family |-> "v4"]

MCStreams == <<"s1">>
MCComps == [s1 |-> <<"c1">>]
MCNames == [s1 |-> "video"]
MCAgents == {"a", "b"}
MCTie == [a |-> 1, b |-> 2]
MCForeign == <<[kind |-> "candidate", foundation |-> "t", component |-> "c1",
                transport |-> "TCP", priority |-> 3, addr |-> "t1", family |-> "v4",
                type |-> "HOST", raddr |-> {}]>>

Scenario(roles, hosts, public, n) ==
  [roles |-> roles, public |-> public, losses |-> n,
   gathered |-> [a |-> [c1 |-> <<Host("a1", 9)>>], b |-> [c1 |-> hosts]]]

AnyRoles == [MCAgents -> BOOLEAN]
Opposed == {[a |-> TRUE, b |-> FALSE], [a |-> FALSE, b |-> TRUE]}
Translated == [a1 |-> "a1", b1 |-> "bx"]
Plain == [a1 |-> "a1", b1 |-> "b1", b2 |-> "b2"]

One == <<Host("b1", 8)>>
Stunned == <<Host("b1", 8), Reflexive("bx", "b1", 4)>>
Two == <<Host("b1", 8), Host("b2", 5)>>

MCScenarios ==
  {Scenario(roles, One, Translated, 0) : roles \in AnyRoles}
  \cup {Scenario(roles, Stunned, Translated, 0) : roles \in AnyRoles}
  \cup {Scenario(roles, Two, Plain, 0) : roles \in Opposed}
  \cup {Scenario(roles, One, Plain, 1) : roles \in AnyRoles}

ReadyScenarios == {Scenario([a |-> TRUE, b |-> FALSE], One, Translated, 0)}
=============================================================================
