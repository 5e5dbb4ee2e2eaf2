---------------------------- MODULE MCDiscovery ----------------------------
(* The instances of Discovery that TLC checks.                             *)
EXTENDS Discovery, TLC

CONSTANTS s1, s2

TwoStreams == <<s1, s2>>

\* s1 uses a STUN and a TURN server, s2 a TURN server.
TwoServers == s1 :> <<"SERVER_REFLEXIVE", "RELAYED">> @@ s2 :> <<"RELAYED">>
=============================================================================
