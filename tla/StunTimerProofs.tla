-------------------------- MODULE StunTimerProofs --------------------------
(* What holds of the STUN timer for every timeout, retry count, clock      *)
(* reading and polling pattern.                                            *)
EXTENDS StunTimer, TLAPS

(* add_delay moves the instant by exactly the delay, and keeps tv_usec     *)
(* within one second (inclusive).                                          *)
LEMMA AddDelayExact ==
  ASSUME NEW ts \in Timeval, NEW delay \in Nat
  PROVE  /\ add_delay(ts, delay) \in Timeval
         /\ Instant(add_delay(ts, delay)) = Instant(ts) + delay * 1000
<1> DEFINE q == delay \div 1000
           r == delay % 1000
<1>1. q \in Nat /\ r \in Nat /\ r < 1000 /\ delay = 1000 * q + r
  BY SMT
<1>2. ts.tv_sec \in Nat /\ ts.tv_usec \in Nat /\ ts.tv_usec <= 1000000
  BY SMT DEF Timeval, Sec
<1> HIDE DEF q, r
<1>3. add_delay(ts, delay) =
        IF ts.tv_usec + r * 1000 > 1000000
        THEN [tv_sec |-> ts.tv_sec + q + 1, tv_usec |-> ts.tv_usec + r * 1000 - 1000000]
        ELSE [tv_sec |-> ts.tv_sec + q, tv_usec |-> ts.tv_usec + r * 1000]
  BY <1>1, <1>2, SMT DEF add_delay, Sec, q, r
<1>4. CASE ts.tv_usec + r * 1000 > 1000000
  BY <1>1, <1>2, <1>3, <1>4, SMT DEF Timeval, Instant, Sec
<1>5. CASE ~(ts.tv_usec + r * 1000 > 1000000)
  BY <1>1, <1>2, <1>3, <1>5, SMT DEF Timeval, Instant, Sec
<1> QED
  BY <1>1, <1>2, <1>4, <1>5, SMT

(* stun_gettime is a timeval that denotes the clock.                       *)
LEMMA GettimeExact ==
  ASSUME NEW t \in Nat
  PROVE  /\ stun_gettime(t) \in Timeval
         /\ stun_gettime(t).tv_usec < Sec
         /\ Instant(stun_gettime(t)) = t
BY SMT DEF stun_gettime, Timeval, Instant, Sec

(* stun_timer_remainder is within a millisecond of the time left.          *)
LEMMA RemainderClose ==
  ASSUME NEW d \in Timeval, NEW t \in Nat
  PROVE  LET left == Instant(d) - t
             r    == stun_timer_remainder(d, t)
         IN  /\ r \in Nat
             /\ left <= 0 => r = 0
             /\ left > 0  => r * 1000 < left + 1000 /\ r * 1000 > left - 1000
<1> DEFINE n == stun_gettime(t)
           us == d.tv_usec - n.tv_usec
<1>1. /\ n.tv_sec \in Nat /\ n.tv_usec \in Nat /\ n.tv_usec < 1000000
      /\ n.tv_sec * 1000000 + n.tv_usec = t
  <2>1. n \in Timeval /\ n.tv_usec < Sec /\ Instant(n) = t
    BY GettimeExact
  <2> HIDE DEF n
  <2> QED
    BY <2>1, SMT DEF Timeval, Instant, Sec
<1>2. d.tv_sec \in Nat /\ d.tv_usec \in Nat /\ d.tv_usec <= 1000000
  BY SMT DEF Timeval, Sec
<1>3. /\ MilliTruncated(us) \in Int
      /\ MilliTruncated(us) * 1000 < us + 1000
      /\ MilliTruncated(us) * 1000 > us - 1000
      /\ us >= 0 => MilliTruncated(us) >= 0
      /\ us >= -1000000 => MilliTruncated(us) >= -1000
  BY <1>1, <1>2, SMT DEF MilliTruncated
<1>4. stun_timer_remainder(d, t) =
        IF n.tv_sec > d.tv_sec \/ (d.tv_sec - n.tv_sec = 0 /\ n.tv_usec >= d.tv_usec)
        THEN 0 ELSE (d.tv_sec - n.tv_sec) * 1000 + MilliTruncated(us)
  BY SMT DEF stun_timer_remainder
<1>5. Instant(d) = d.tv_sec * 1000000 + d.tv_usec
  BY SMT DEF Instant, Sec
<1> HIDE DEF n
<1> QED
  BY <1>1, <1>2, <1>3, <1>4, <1>5, SMT
-----------------------------------------------------------------------------
(* The inductive invariant: the type, the schedule and the give-up time.   *)
IInv == TypeOK /\ NoDrift /\ NotEarly

LEMMA InitInv == Init => IInv
BY OriginsAssumption, SMT
  , SMT DEF Init, IInv, TypeOK, NoDrift, NotEarly, StunTimerType, Timeval, NoTimer, Sec

LEMMA StepInv == IInv /\ [Next]_vars => IInv'
<1> SUFFICES ASSUME IInv, [Next]_vars PROVE IInv'
  BY SMT
<1>0. /\ timer.deadline \in Timeval /\ timer.delay \in Nat
      /\ timer.retransmissions \in Nat /\ timer.max_retransmissions \in Nat
      /\ Instant(timer.deadline) \in Int
      /\ now \in Nat /\ started \in Nat /\ initial \in Nat
      /\ TypeOK /\ NoDrift /\ NotEarly
  BY SMT DEF IInv, TypeOK, StunTimerType, Timeval, Instant, Sec
<1>1. ASSUME NEW timeout \in Timeouts, NEW max \in Retries, stun_timer_start(timeout, max)
      PROVE  IInv'
  <2>1. timeout \in Nat /\ max \in Nat
    BY TimeoutsAssumption, RetriesAssumption, SMT
  <2>2. /\ add_delay(stun_gettime(now), timeout) \in Timeval
        /\ Instant(add_delay(stun_gettime(now), timeout)) = now + timeout * 1000
    <3>1. stun_gettime(now) \in Timeval /\ Instant(stun_gettime(now)) = now
      BY <1>0, GettimeExact
    <3> QED
      BY <2>1, <3>1, AddDelayExact
  <2> QED
    BY <1>0, <1>1, <2>1, <2>2, SMT DEF stun_timer_start, StunTimerType, NoDrift, NotEarly, TypeOK, IInv
<1> DEFINE dl == timer.deadline
           d2 == 2 * timer.delay
<1>d. dl \in Timeval /\ d2 \in Nat
  BY <1>0, SMT
<1> HIDE DEF dl, d2
<1>2. CASE RefreshTimeout
  <2>1. stun_timer_remainder(dl, now) = 0
    BY <1>2 DEF RefreshTimeout, dl
  <2>2. Instant(dl) \in Int /\ Instant(dl) - now < 1000
    BY <1>0, <1>d, <2>1, RemainderClose, SMT DEF dl
  <2> QED
    BY <1>0, <1>2, <2>2, SMT DEF RefreshTimeout, NoDrift, NotEarly, TypeOK, IInv, dl
<1>3. CASE RefreshRetransmit
  <2>1. /\ add_delay(dl, d2) \in Timeval
        /\ Instant(add_delay(dl, d2)) = Instant(dl) + d2 * 1000
    BY <1>d, AddDelayExact
  <2>2. timer' = [deadline |-> add_delay(dl, d2), delay |-> d2,
                  retransmissions |-> timer.retransmissions + 1,
                  max_retransmissions |-> timer.max_retransmissions]
    BY <1>3 DEF RefreshRetransmit, dl, d2
  <2>3. /\ timer'.deadline = add_delay(dl, d2)
        /\ timer'.delay = d2
        /\ timer' \in StunTimerType
    BY <1>0, <1>d, <2>1, <2>2, SMT DEF StunTimerType
  <2> QED
    BY <1>0, <1>d, <1>3, <2>1, <2>3, SMT
       DEF RefreshRetransmit, NoDrift, NotEarly, TypeOK, IInv, d2, dl
<1>4. CASE Answer
  BY <1>0, <1>4, SMT DEF Answer, NoDrift, NotEarly, TypeOK, IInv
<1>5. ASSUME NEW d \in Steps, Elapse(d) PROVE IInv'
  <2>1. d \in Nat
    BY StepsAssumption, SMT
  <2> QED
    BY <1>0, <1>5, <2>1, SMT DEF Elapse, NoDrift, NotEarly, TypeOK, IInv
<1>6. CASE UNCHANGED vars
  BY <1>0, <1>6, SMT DEF vars, NoDrift, NotEarly, TypeOK, IInv
<1> QED
  BY <1>1, <1>2, <1>3, <1>4, <1>5, <1>6, SMT DEF Next

(* The timer keeps its type, tv_usec at one second included.               *)
THEOREM TypeCorrect == Spec => []TypeOK
BY InitInv, StepInv, PTL DEF Spec, IInv

(* However late the polls come, the schedule of retransmissions is fixed   *)
(* by the start of the transaction.                                        *)
THEOREM ScheduleNeverDrifts == Spec => []NoDrift
BY InitInv, StepInv, PTL DEF Spec, IInv

(* No transaction is given up before its whole schedule has passed.        *)
THEOREM NeverGivenUpEarly == Spec => []NotEarly
BY InitInv, StepInv, PTL DEF Spec, IInv

(* The remainder reported to the caller is right to the millisecond.       *)
THEOREM RemainderAlwaysAccurate == Spec => []RemainderAccurate
<1>1. TypeOK => RemainderAccurate
  <2> SUFFICES ASSUME TypeOK, phase = "running" PROVE RemainderAccurate
    BY SMT DEF RemainderAccurate
  <2>1. timer.deadline \in Timeval /\ now \in Nat /\ Instant(timer.deadline) \in Int
    BY SMT DEF TypeOK, StunTimerType, Timeval, Instant, Sec
  <2> QED
    BY <2>1, RemainderClose, SMT DEF RemainderAccurate
<1> QED
  BY <1>1, TypeCorrect, PTL

(* The two claims that the run on a small instance checks, for every        *)
(* timeout, retry count and polling pattern: the fields and the remainder   *)
(* of stun_timer_remainder are right,                                       *)
THEOREM ConsistentAlways == Spec => []Consistent
<1>1. TypeOK /\ RemainderAccurate => Consistent
  BY DEF Consistent
<1> QED
  BY <1>1, TypeCorrect, RemainderAlwaysAccurate, PTL

(* and stun_timer_refresh neither drifts nor gives up early.                *)
THEOREM AlwaysOnSchedule == Spec => []OnSchedule
<1>1. NoDrift /\ NotEarly => OnSchedule
  BY DEF OnSchedule
<1> QED
  BY <1>1, ScheduleNeverDrifts, NeverGivenUpEarly, PTL
=============================================================================
