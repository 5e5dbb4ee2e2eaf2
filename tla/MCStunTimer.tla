---------------------------- MODULE MCStunTimer ----------------------------
(* Model values for StunTimer: the default and a reliable transaction.     *)
EXTENDS StunTimer

\* STUN_TIMER_DEFAULT_TIMEOUT and the 200 ms of discovery.c.
MCTimeouts == {200, 600}

\* 0 is stun_timer_start_reliable, 3 is STUN_TIMER_DEFAULT_MAX_RETRANSMISSIONS.
MCRetries == {0, 1, 3}

\* 400000 + 600 ms lands on a full second, the others on either side of one.
MCOrigins == {0, 400000, 399600, 999999}

\* Four short steps end 0.4 ms before a 600 ms deadline.
MCSteps == {149900, 450200}

MCMaxLate == 300000
=============================================================================
