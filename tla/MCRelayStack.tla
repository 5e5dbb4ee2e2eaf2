---------------------------- MODULE MCRelayStack ----------------------------
(* An instance of RelayStack for TLC.  Lengths are scaled down except for *)
(* those of the SOCKS5 reply for IPv4; the client's SSL handshake stays    *)
(* shorter than the server's.                                             *)
EXTENDS RelayStack

AllKinds == {"direct", "socks5", "http", "pseudossl"}
MCGarbage == {0, 1, 3}
=============================================================================
