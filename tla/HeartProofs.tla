----------------------------- MODULE HeartProofs -----------------------------
(***************************************************************************)
(* What holds of Heart for every interval, every time that isActive may    *)
(* take and every idle timeout that is accepted.                           *)
(***************************************************************************)
EXTENDS Heart, TLAPS

\* The timer of an isActive call runs out long before the next heartbeat.
ProbeAhead ==
  probe # None /\ beatTimer # None => beatTimer >= Interval - Grace + probe

\* While the wall clock is not set, the age of the heartbeat and its timer agree.
InStep ==
  phase = "up" =>
    /\ beatTimer = None => age = Interval
    /\ beatTimer # None => age + beatTimer = Interval

\* The idle timer runs exactly while the state is "expired".
IdleRuns == Running => (idleTimer # None <=> state = "expired")

\* A connection that opened during an isActive call has started a timer.
UnseenIsWatched ==
  phase = "up" /\ probe # None /\ ~seen /\ conn => beatTimer # None

\* An open connection is looked at again before the idle timer runs out, if the
\* timeout is the number that was compared with the interval.
LookedAtInTime ==
  compared /\ phase = "up" /\ conn /\ idleTimer # None =>
    \/ beatTimer # None /\ beatTimer < idleTimer
    \/ probe # None /\ seen /\ idleTimer > 0

\* The inductive invariant of every behaviour, and what is added to it when the
\* wall clock is not set.
TInv == TypeOK /\ ProbeAhead /\ IdleRuns

CInv ==
  /\ InStep
  /\ AliveIsWatched
  /\ UnseenIsWatched
  /\ LookedAtInTime
  /\ NoExitWhileConnected

-----------------------------------------------------------------------------
\* Every step keeps every variable in its type.
LEMMA TypeStep == TypeOK /\ [Next]_vars => TypeOK'
<1> SUFFICES ASSUME TypeOK, [Next]_vars PROVE TypeOK'
  OBVIOUS
<1> USE IntervalAssumption, GraceAssumption, IdleTimeoutsAssumption
    DEF TypeOK, FlagTypeOK, Timer, Accepted, None, option
<1>1. CASE Request
  <2>1. conn' \in BOOLEAN
    BY <1>1 DEF Request
  <2> QED
    BY <1>1, <2>1 DEF Request, Beat, SetState, Running
<1>2. CASE Disconnect
  BY <1>2 DEF Disconnect
<1>3. CASE HealthCheck
  BY <1>3 DEF HealthCheck
<1>4. CASE BeatTimerFires
  BY <1>4 DEF BeatTimerFires, Running, clientVars
<1>5. CASE ProbeAnswers
  BY <1>5 DEF ProbeAnswers, Beat, SetState, Running, clientVars
<1>6. CASE ProbeTimesOut
  BY <1>6 DEF ProbeTimesOut, SetState, Running, clientVars
<1>7. CASE ProbeFails
  BY <1>7 DEF ProbeFails, SetState, Running, clientVars
<1>8. CASE IdleTimerFires
  BY <1>8 DEF IdleTimerFires, Running, clientVars
<1>9. CASE Dispose
  BY <1>9 DEF Dispose, clientVars
<1>10. CASE Disposed
  BY <1>10 DEF Disposed, clientVars
<1>11. CASE Tick
  BY <1>11 DEF Tick, Elapse, AtMost, Running
<1>12. CASE StepClock
  BY <1>12 DEF StepClock, clientVars
<1>13. CASE UNCHANGED vars
  BY <1>13 DEF vars
<1> QED
  BY <1>1, <1>2, <1>3, <1>4, <1>5, <1>6, <1>7, <1>8, <1>9, <1>10, <1>11, <1>12, <1>13
  DEF Next

\* The order of the two timers and the state of the third are inductive.
LEMMA ProbeStep == TInv /\ [Next]_vars => (ProbeAhead /\ IdleRuns)'
<1> SUFFICES ASSUME TInv, [Next]_vars PROVE (ProbeAhead /\ IdleRuns)'
  OBVIOUS
<1> USE IntervalAssumption, GraceAssumption, IdleTimeoutsAssumption
    DEF TInv, TypeOK, Timer, Accepted, None, option, ProbeAhead, IdleRuns, Running
<1>1. CASE Request
  BY <1>1 DEF Request, Beat, SetState, Running
<1>2. CASE Disconnect
  BY <1>2 DEF Disconnect
<1>3. CASE HealthCheck
  BY <1>3 DEF HealthCheck
<1>4. CASE BeatTimerFires
  BY <1>4 DEF BeatTimerFires, Running, clientVars
<1>5. CASE ProbeAnswers
  BY <1>5 DEF ProbeAnswers, Beat, SetState, Running, clientVars
<1>6. CASE ProbeTimesOut
  BY <1>6 DEF ProbeTimesOut, SetState, Running, clientVars
<1>7. CASE ProbeFails
  BY <1>7 DEF ProbeFails, SetState, Running, clientVars
<1>8. CASE IdleTimerFires
  BY <1>8 DEF IdleTimerFires, Running, clientVars
<1>9. CASE Dispose
  BY <1>9 DEF Dispose, clientVars
<1>10. CASE Disposed
  BY <1>10 DEF Disposed, clientVars
<1>11. CASE Tick
  BY <1>11 DEF Tick, Elapse, AtMost, Running
<1>12. CASE StepClock
  BY <1>12 DEF StepClock, clientVars
<1>13. CASE UNCHANGED vars
  BY <1>13 DEF vars
<1> QED
  BY <1>1, <1>2, <1>3, <1>4, <1>5, <1>6, <1>7, <1>8, <1>9, <1>10, <1>11, <1>12, <1>13
  DEF Next

-----------------------------------------------------------------------------
\* Every variable keeps its type, and the timers their order.
THEOREM TimersOrdered == Spec => []TInv
<1>1. Init => TInv
  <2> SUFFICES ASSUME Init PROVE TInv
    OBVIOUS
  <2>1. TypeOK
    <3>1. FlagTypeOK
      BY DEF Init, FlagTypeOK
    <3>2. idle \in IdleTimeouts /\ idle \in Nat /\ Accepted(idle, compared)
      BY IdleTimeoutsAssumption DEF Init
    <3> QED
      BY <3>1, <3>2, IntervalAssumption, GraceAssumption DEF Init, TypeOK, Timer, None
  <2>2. ProbeAhead /\ IdleRuns
    BY IntervalAssumption, IdleTimeoutsAssumption DEF Init, ProbeAhead, IdleRuns, None
  <2> QED
    BY <2>1, <2>2 DEF TInv
<1>2. TInv /\ [Next]_vars => TInv'
  BY TypeStep, ProbeStep DEF TInv
<1> QED
  BY <1>1, <1>2, PTL DEF Spec

-----------------------------------------------------------------------------
\* Until the wall clock is set, what is added to the invariant is inductive.
LEMMA ConnStep == TInv /\ CInv /\ [Next]_vars /\ ~clockSet' => CInv'
<1> SUFFICES ASSUME TInv, CInv, [Next]_vars, ~clockSet' PROVE CInv'
  OBVIOUS
<1> USE IntervalAssumption, GraceAssumption, IdleTimeoutsAssumption
    DEF TInv, CInv, TypeOK, Timer, Accepted, None, option, ProbeAhead, IdleRuns, InStep,
        AliveIsWatched, UnseenIsWatched, LookedAtInTime, NoExitWhileConnected, Running
<1>1. CASE Request
  BY <1>1 DEF Request, Beat, SetState
<1>2. CASE Disconnect
  BY <1>2 DEF Disconnect
<1>3. CASE HealthCheck
  BY <1>3 DEF HealthCheck
<1>4. CASE BeatTimerFires
  <2>1. conn => seen'
    BY <1>4 DEF BeatTimerFires
  <2> QED
    BY <1>4, <2>1 DEF BeatTimerFires, clientVars
<1>5. CASE ProbeAnswers
  BY <1>5 DEF ProbeAnswers, Beat, SetState, clientVars
<1>6. CASE ProbeTimesOut
  BY <1>6 DEF ProbeTimesOut, SetState, clientVars
<1>7. CASE ProbeFails
  BY <1>7 DEF ProbeFails, SetState, clientVars
<1>8. CASE IdleTimerFires
  BY <1>8 DEF IdleTimerFires, clientVars
<1>9. CASE Dispose
  BY <1>9 DEF Dispose, clientVars
<1>10. CASE Disposed
  BY <1>10 DEF Disposed, clientVars
<1>11. CASE Tick
  BY <1>11 DEF Tick, Elapse, AtMost
<1>12. CASE StepClock
  BY <1>12 DEF StepClock, clientVars
<1>13. CASE UNCHANGED vars
  BY <1>13 DEF vars
<1> QED
  BY <1>1, <1>2, <1>3, <1>4, <1>5, <1>6, <1>7, <1>8, <1>9, <1>10, <1>11, <1>12, <1>13
  DEF Next

\* A clock that was set stays one that was set.
LEMMA ClockSetStays == TypeOK /\ [Next]_vars /\ clockSet => clockSet'
BY Zenon DEF Next, Request, Disconnect, HealthCheck, BeatTimerFires, ProbeAnswers,
  ProbeTimesOut, ProbeFails, IdleTimerFires, Dispose, Disposed, Tick, StepClock,
  clientVars, vars

\* What is added to the invariant holds until the wall clock is set.
THEOREM Watching == Spec => [](~clockSet => CInv)
<1>1. Init => CInv
  BY IdleTimeoutsAssumption
  DEF Init, CInv, InStep, AliveIsWatched, UnseenIsWatched, LookedAtInTime, NoExitWhileConnected
<1>2. TInv /\ (~clockSet => CInv) /\ [Next]_vars => (~clockSet => CInv)'
  <2> SUFFICES ASSUME TInv, ~clockSet => CInv, [Next]_vars, ~clockSet' PROVE CInv'
    OBVIOUS
  <2>1. ~clockSet
    BY ClockSetStays DEF TInv
  <2> QED
    BY <2>1, ConnStep
<1> QED
  BY <1>1, <1>2, TimersOrdered, PTL DEF Spec

\* Every variable keeps its type (the type invariant of the model).
THEOREM TypeCorrect == Spec => []TypeOK
BY TimersOrdered, PTL DEF TInv

\* Two isActive calls are never in flight together, whatever the wall clock does
\* (beat restarts its timer only when it is not running, or clears it).
THEOREM OneProbeAtATime == Spec => []OneProbe
<1>1. TInv => OneProbe
  BY IntervalAssumption, GraceAssumption
  DEF TInv, TypeOK, Timer, ProbeAhead, OneProbe, None
<1> QED
  BY <1>1, TimersOrdered, PTL

\* As long as the wall clock is not set, an "alive" server is looked at again.
THEOREM AliveWatched == Spec => []AliveIsWatched
<1>1. (~clockSet => CInv) => AliveIsWatched
  BY DEF CInv, AliveIsWatched
<1> QED
  BY <1>1, Watching, PTL

\* As long as the wall clock is not set, no idle timeout that is compared with the
\* interval, and is longer, shuts
\* the server down under an open connection.
THEOREM ConnectedStaysUp == Spec => []NoExitWhileConnected
<1>1. (~clockSet => CInv) => NoExitWhileConnected
  BY DEF CInv, NoExitWhileConnected
<1> QED
  BY <1>1, Watching, PTL
=============================================================================
