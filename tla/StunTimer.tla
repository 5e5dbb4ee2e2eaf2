----------------------------- MODULE StunTimer -----------------------------
(***************************************************************************)
(* The retransmission timer of a STUN transaction (stun/usages/timer.c),   *)
(* driven by a caller that polls stun_timer_refresh at moments of its own  *)
(* choosing, as the periodic ticks of conncheck.c, discovery.c and turn.c  *)
(* do.  Time is counted in microseconds since an arbitrary origin, and is  *)
(* split into tv_sec and tv_usec where the code splits it.                 *)
(***************************************************************************)
EXTENDS Integers

CONSTANTS
  Timeouts,     \* the initial_timeout arguments (milliseconds)
  Retries,      \* the max_retransmissions arguments
  Origins,      \* the clock readings at which a transaction may start
  Steps,        \* by how much the clock may advance between two calls
  MaxLate       \* how long after the deadline the caller polls at the latest

ASSUME TimeoutsAssumption == Timeouts \subseteq Nat \ {0}
ASSUME RetriesAssumption  == Retries \subseteq Nat
ASSUME OriginsAssumption  == Origins \subseteq Nat
ASSUME StepsAssumption    == Steps \subseteq Nat \ {0}
ASSUME MaxLateAssumption  == MaxLate \in Nat

VARIABLES
  now,       \* what stun_gettime reads
  timer,     \* the StunTimer
  phase,     \* "idle", "running", "timedout" or "answered"
  started,   \* history: the clock when stun_timer_start was called
  initial    \* history: its initial_timeout argument

vars == <<now, timer, phase, started, initial>>

Sec == 1000000

Timeval == {ts \in [tv_sec : Nat, tv_usec : Nat] : ts.tv_usec <= Sec}

StunTimerType ==
  [deadline : Timeval, delay : Nat, retransmissions : Nat, max_retransmissions : Nat]

\* stun_gettime: the clock as a struct timeval.
stun_gettime(t) == [tv_sec |-> t \div Sec, tv_usec |-> t % Sec]

\* The instant a struct timeval denotes.
Instant(ts) == ts.tv_sec * Sec + ts.tv_usec

\* add_delay: at most one carry happens, and tv_usec may be left at exactly Sec.
add_delay(ts, delay) ==
  LET sec  == ts.tv_sec + delay \div 1000
      usec == ts.tv_usec + (delay % 1000) * 1000
  IN  IF usec > Sec THEN [tv_sec |-> sec + 1, tv_usec |-> usec - Sec]
                    ELSE [tv_sec |-> sec, tv_usec |-> usec]

\* C's integer division by 1000 truncates towards zero.
MilliTruncated(us) == IF us >= 0 THEN us \div 1000 ELSE -((-us) \div 1000)

\* Mutant: only the seconds are compared.
stun_timer_remainder_Seconds(deadline, t) ==
  IF stun_gettime(t).tv_sec >= deadline.tv_sec THEN 0
  ELSE (deadline.tv_sec - stun_gettime(t).tv_sec) * 1000

\* stun_timer_remainder: milliseconds until the deadline, 0 when it is due.
stun_timer_remainder(deadline, t) ==
  LET n     == stun_gettime(t)
      delay == deadline.tv_sec - n.tv_sec
  IN  IF \/ n.tv_sec > deadline.tv_sec
         \/ delay = 0 /\ n.tv_usec >= deadline.tv_usec
      THEN 0
      ELSE delay * 1000 + MilliTruncated(deadline.tv_usec - n.tv_usec)

-----------------------------------------------------------------------------
NoTimer == [deadline |-> [tv_sec |-> 0, tv_usec |-> 0], delay |-> 0,
            retransmissions |-> 0, max_retransmissions |-> 0]

Init == /\ now \in Origins
        /\ timer = NoTimer
        /\ phase = "idle"
        /\ started = 0
        /\ initial = 0

\* stun_timer_start, and stun_timer_start_reliable when max is 0.
stun_timer_start(timeout, max) ==
  /\ phase = "idle"
  /\ timer' = [deadline            |-> add_delay(stun_gettime(now), timeout),
               delay               |-> timeout,
               retransmissions     |-> 0,
               max_retransmissions |-> max]
  /\ phase' = "running"
  /\ started' = now
  /\ initial' = timeout
  /\ UNCHANGED now

\* Mutant: > in place of >=.
RefreshTimeout_Strict ==
  /\ phase = "running"
  /\ stun_timer_remainder(timer.deadline, now) = 0
  /\ timer.retransmissions > timer.max_retransmissions
  /\ phase' = "timedout"
  /\ UNCHANGED <<now, timer, started, initial>>

\* stun_timer_refresh returning STUN_USAGE_TIMER_RETURN_TIMEOUT.
RefreshTimeout ==
  /\ phase = "running"
  /\ stun_timer_remainder(timer.deadline, now) = 0
  /\ timer.retransmissions >= timer.max_retransmissions
  /\ phase' = "timedout"
  /\ UNCHANGED <<now, timer, started, initial>>

\* Mutant: the next deadline is counted from the (late) poll.
RefreshRetransmit_FromNow ==
  /\ phase = "running"
  /\ stun_timer_remainder(timer.deadline, now) = 0
  /\ timer.retransmissions < timer.max_retransmissions
  /\ timer' = [deadline            |-> add_delay(stun_gettime(now), 2 * timer.delay),
               delay               |-> 2 * timer.delay,
               retransmissions     |-> timer.retransmissions + 1,
               max_retransmissions |-> timer.max_retransmissions]
  /\ UNCHANGED <<now, phase, started, initial>>

\* Mutant: the delay is not doubled.
RefreshRetransmit_Constant ==
  /\ phase = "running"
  /\ stun_timer_remainder(timer.deadline, now) = 0
  /\ timer.retransmissions < timer.max_retransmissions
  /\ timer' = [deadline            |-> add_delay(timer.deadline, timer.delay),
               delay               |-> timer.delay,
               retransmissions     |-> timer.retransmissions + 1,
               max_retransmissions |-> timer.max_retransmissions]
  /\ UNCHANGED <<now, phase, started, initial>>

\* stun_timer_refresh returning STUN_USAGE_TIMER_RETURN_RETRANSMIT: the
\* deadline moves on from the previous deadline, by twice the previous delay.
RefreshRetransmit ==
  /\ phase = "running"
  /\ stun_timer_remainder(timer.deadline, now) = 0
  /\ timer.retransmissions < timer.max_retransmissions
  /\ timer' = [deadline            |-> add_delay(timer.deadline, 2 * timer.delay),
               delay               |-> 2 * timer.delay,
               retransmissions     |-> timer.retransmissions + 1,
               max_retransmissions |-> timer.max_retransmissions]
  /\ UNCHANGED <<now, phase, started, initial>>

\* The answer arrives, and the caller drops the transaction.
Answer ==
  /\ phase = "running"
  /\ phase' = "answered"
  /\ UNCHANGED <<now, timer, started, initial>>

\* The caller polls no later than MaxLate after the deadline.
Elapse(d) ==
  /\ phase = "running"
  /\ now + d <= Instant(timer.deadline) + MaxLate
  /\ now' = now + d
  /\ UNCHANGED <<timer, phase, started, initial>>

\* stun_timer_refresh returning STUN_USAGE_TIMER_RETURN_SUCCESS changes nothing.
Next == \/ \E timeout \in Timeouts, max \in Retries : stun_timer_start(timeout, max)
        \/ RefreshTimeout
        \/ RefreshRetransmit
        \/ Answer
        \/ \E d \in Steps : Elapse(d)

Spec == Init /\ [][Next]_vars

\* The callers' tick keeps polling, and the clock does not stop.
FairSpec == /\ Spec
            /\ WF_vars(RefreshTimeout)
            /\ WF_vars(RefreshRetransmit)
            /\ WF_vars(\E d \in Steps : Elapse(d))

-----------------------------------------------------------------------------
TypeOK == /\ now \in Nat
          /\ timer \in StunTimerType
          /\ phase \in {"idle", "running", "timedout", "answered"}
          /\ started \in Nat
          /\ initial \in Nat

\* The remainder against the time that is really left.
RemainderAccurate ==
  phase = "running" =>
    LET left == Instant(timer.deadline) - now
        r    == stun_timer_remainder(timer.deadline, now)
    IN  IF left <= 0 THEN r = 0
                     ELSE /\ r * 1000 < left + 1000
                          /\ r * 1000 > left - 1000

(* The timer keeps its shape (tv_usec may equal one second, never more),   *)
(* and stun_timer_remainder is within a millisecond of the time that is    *)
(* really left, whether or not the deadline lies in the current second and *)
(* even when add_delay left tv_usec at one full second.                    *)
Consistent == TypeOK /\ RemainderAccurate

(* Polling late never makes the schedule drift: the deadline is always the *)
(* start plus every delay used so far, which sums to twice the current one *)
(* less the initial one.                                                   *)
NoDrift ==
  phase # "idle" =>
    Instant(timer.deadline) = started + (2 * timer.delay - initial) * 1000

(* A transaction is never given up, however it is polled, more than a      *)
(* millisecond before the sum of all its delays has passed, and only after *)
(* the last retransmission.                                                *)
NotEarly ==
  phase = "timedout" =>
    /\ timer.retransmissions >= timer.max_retransmissions
    /\ now - started > (2 * timer.delay - initial) * 1000 - 1000

(* The schedule of a transaction is fixed by its start: no poll makes it   *)
(* drift, and none gives the transaction up ahead of it.                   *)
OnSchedule == NoDrift /\ NotEarly

(* timer.h: total_timeout = initial_timeout * (2^(max_retransmissions+1)   *)
(* - 1).  A transaction is given up within a millisecond before that or    *)
(* at most one poll's lateness after it.                                   *)
TotalTimeout ==
  phase = "timedout" =>
    LET total == initial * (2 ^ (timer.max_retransmissions + 1) - 1) * 1000
    IN  /\ now - started > total - 1000
        /\ now - started <= total + MaxLate

(* A running transaction is eventually answered or timed out.              *)
Terminates == (phase = "running") ~> (phase \in {"timedout", "answered"})
=============================================================================
