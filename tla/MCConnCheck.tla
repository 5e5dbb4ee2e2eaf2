---------------------------- MODULE MCConnCheck ----------------------------
(* Instances of ConnCheck for TLC.                                         *)
EXTENDS ConnCheck

Local(addr, priority) ==
  [addr |-> addr, socket |-> addr, type |-> "HOST", priority |-> priority,
   foundation |-> "host", family |-> "v4"]

Remote(addr, priority) ==
  [addr |-> addr, priority |-> priority, foundation |-> addr, family |-> "v4"]

NoEvents == [e \in Events |-> 0]

-----------------------------------------------------------------------------
(* One stream of one component with a single remote candidate.  Role       *)
(* conflicts are not bounded, nor are, in one start, the responses that    *)
(* report an unknown mapped address, in the other the peer's requests.     *)
OneStream == <<"s1">>
OneComp == [s1 |-> <<"c1">>]
OneMapped == [c1 |-> {"M"}]
LiveOffers == [c1 |-> {<<Remote("R1", 5)>>}]
LivePeers == [c1 |-> {"R1"}]
LiveStart(events) ==
  [gathered |-> [c1 |-> <<Local("L1", 9)>>],
   left |-> [e \in Events |-> IF e = "offer" THEN 1 ELSE IF e \in events THEN -1 ELSE 0]]
LiveStarts == {LiveStart({"conflict", "mapped"}), LiveStart({"conflict", "request"})}

-----------------------------------------------------------------------------
(* Two streams of one component each; the remote candidates of the first   *)
(* arrive with the lower priority first, and that one may be signalled     *)
(* anew with a higher priority.  Requests and a conflict come in, or the   *)
(* application makes its calls between the checks; or the first component  *)
(* is alone, and its candidates are signalled twice around a role switch,  *)
(* or it has two local candidates, whose pairs a role switch puts into     *)
(* another order.                                                          *)
TwoStreams == <<"s1", "s2">>
TwoStreamComps == [s1 |-> <<"c1">>, s2 |-> <<"c2">>]
OneEach == [c1 |-> <<Local("L1", 9)>>, c2 |-> <<Local("L2", 9)>>]
Alone == [c1 |-> <<Local("L1", 9)>>, c2 |-> <<>>]
Crossing == [c1 |-> <<Local("L1", 9), Local("L3", 5)>>, c2 |-> <<>>]
TwoOffers == [c1 |-> {<<Remote("R1", 5), Remote("R2", 9)>>, <<Remote("R1", 12)>>},
              c2 |-> {<<Remote("R3", 12)>>}]
TwoPeers == [c1 |-> {"R1", "X"}, c2 |-> {}]
TwoMapped == [c1 |-> {}, c2 |-> {}]
TwoStarts ==
  {[gathered |-> OneEach,
    left |-> [NoEvents EXCEPT !["offer"] = 1, !["request"] = 2, !["conflict"] = 1]],
   [gathered |-> OneEach,
    left |-> [NoEvents EXCEPT !["offer"] = 1, !["request"] = 1, !["restart"] = 1,
                              !["remove"] = 1]],
   [gathered |-> OneEach,
    left |-> [NoEvents EXCEPT !["offer"] = 1, !["request"] = 1, !["force"] = 1]],
   [gathered |-> OneEach,
    left |-> [NoEvents EXCEPT !["offer"] = 2, !["restart"] = 1, !["force"] = 1]],
   [gathered |-> OneEach,
    left |-> [NoEvents EXCEPT !["offer"] = 2, !["restart"] = 1, !["remove"] = 1]],
   [gathered |-> Alone,
    left |-> [NoEvents EXCEPT !["offer"] = 2, !["conflict"] = 1]],
   [gathered |-> Crossing,
    left |-> [NoEvents EXCEPT !["offer"] = 1, !["conflict"] = 1]]}
=============================================================================
