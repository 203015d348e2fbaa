-------------------------------- MODULE Heart --------------------------------
(***************************************************************************)
(* The heartbeat of the server (src/node/heart.ts), the question whether   *)
(* it is in use that its timer asks (src/node/routes/index.ts) and the     *)
(* idle shutdown hung on its state (src/node/main.ts).                     *)
(*                                                                         *)
(* Time advances in ticks.  A timer is the number of ticks it has left,    *)
(* None when it is not set, and fires in the tick in which it reaches 0.   *)
(* The wall clock only enters through age, the time that Date.now() says   *)
(* has passed since lastHeartbeat.                                         *)
(***************************************************************************)
EXTENDS Integers

CONSTANTS
  Interval,     \* heartbeatInterval: 60 s
  Grace,        \* how long isActive waits for getConnections: 5 s
  IdleTimeouts  \* values a user may give --idle-timeout-seconds

ASSUME IntervalAssumption == Interval \in Nat \ {0}
ASSUME GraceAssumption == Grace \in Nat \ {0} /\ Grace < Interval
ASSUME IdleTimeoutsAssumption == IdleTimeouts \subseteq Nat

None == -1

\* Faulty variant: an idle timeout as long as the heartbeat interval passes.
AcceptedLoosely(n, compared) == IF compared THEN n >= Interval ELSE n > 0

\* The idle timeouts that pass: what is compared with the interval is not always
\* the delay of the timer.  It is for a whole number after a = and in the
\* environment.  A value in the next word is compared as NaN, which passes; Number
\* and parseInt read 60.5 and 1e3 differently; and a delay of 2^31 ms or more is
\* 1 ms to setTimeout.  With 0 there is no idle shutdown.
Accepted(n, compared) == IF compared THEN n > Interval ELSE n > 0

VARIABLES
  idle,      \* the idle timeout of this run
  compared,  \* whether it is the number that was compared with the interval
  state,     \* Heart.state: "alive", "expired" or "unknown"
  age,       \* now - lastHeartbeat, at most Interval
  beatTimer, \* heartbeatTimer
  probe,     \* the timer of the isActive call in flight, None if there is none
  seen,      \* whether that call found a connection
  idleTimer, \* idleShutdownTimer
  conn,      \* whether a browser keeps a connection open
  checker,   \* whether a health checker keeps a connection open
  quiet,     \* time since the last request or open browser connection, at most idle
  clockSet,  \* whether the wall clock was set since the server started
  phase      \* "up", "disposing", "stopped" or "idled" (shut down by idleTimer)

vars ==
  <<idle, compared, state, age, beatTimer, probe, seen, idleTimer, conn, checker,
    quiet, clockSet, phase>>

\* What never changes, and what the browsers, checkers and the clock do.
option == <<idle, compared>>
clientVars == <<conn, checker, quiet, clockSet>>

Timer(n) == {None} \cup 0 .. n

FlagTypeOK ==
  /\ seen \in BOOLEAN
  /\ conn \in BOOLEAN
  /\ checker \in BOOLEAN
  /\ clockSet \in BOOLEAN

TypeOK ==
  /\ compared \in BOOLEAN
  /\ idle \in IdleTimeouts /\ Accepted(idle, compared)
  /\ state \in {"alive", "expired", "unknown"}
  /\ age \in 0 .. Interval
  /\ beatTimer \in Timer(Interval)
  /\ probe \in Timer(Grace)
  /\ idleTimer \in Timer(idle)
  /\ quiet \in 0 .. idle
  /\ phase \in {"up", "disposing", "stopped", "idled"}
  /\ FlagTypeOK

\* Nothing was beaten yet: lastHeartbeat is 0 and the idle timer is running.
Init ==
  /\ compared \in BOOLEAN
  /\ idle \in {n \in IdleTimeouts : Accepted(n, compared)}
  /\ state = "expired" /\ age = Interval
  /\ beatTimer = None /\ probe = None /\ seen = FALSE
  /\ idleTimer = idle
  /\ conn = FALSE /\ checker = FALSE /\ quiet = 0 /\ clockSet = FALSE
  /\ phase = "up"

Running == phase \in {"up", "disposing"}

-----------------------------------------------------------------------------
\* Faulty variant: the listener of main.ts clears the idle timer and never restarts it.
SetStateClearing(s) ==
  /\ state' = s
  /\ idleTimer' = IF s = state THEN idleTimer ELSE None

\* setState(): a change is announced, and the listener of main.ts restarts or
\* clears the idle timer.
SetState(s) ==
  /\ state' = s
  /\ idleTimer' = IF s = state THEN idleTimer
                  ELSE IF s = "expired" THEN idle ELSE None

\* Faulty variant: the state is announced but the timer is not restarted.
BeatOnce ==
  /\ SetState("alive")
  /\ age' = 0
  /\ beatTimer' = IF age < Interval THEN beatTimer ELSE None

\* beat(): only the first beat in an interval restarts the timer.
Beat ==
  /\ SetState("alive")
  /\ IF age < Interval
       THEN UNCHANGED <<age, beatTimer>>
       ELSE age' = 0 /\ beatTimer' = Interval

\* Any request but a health check beats, and may leave its connection open.
Request ==
  /\ Running
  /\ Beat
  /\ quiet' = 0
  /\ conn' \in {conn, TRUE}
  /\ UNCHANGED <<option, probe, seen, checker, clockSet, phase>>

Disconnect ==
  /\ Running /\ conn
  /\ conn' = FALSE
  /\ UNCHANGED <<option, state, age, beatTimer, probe, seen, idleTimer, checker, quiet,
                 clockSet, phase>>

\* A health checker connects or disconnects: /healthz does not beat.
HealthCheck ==
  /\ Running
  /\ checker' = ~checker
  /\ UNCHANGED <<option, state, age, beatTimer, probe, seen, idleTimer, conn, quiet,
                 clockSet, phase>>

\* Faulty variant: the timer asks again without waiting for the answer.
BeatTimerRepeats ==
  /\ Running /\ beatTimer = 0
  /\ beatTimer' = Grace
  /\ probe' = Grace
  /\ seen' = (conn \/ checker)
  /\ UNCHANGED <<option, state, age, idleTimer, clientVars, phase>>

\* The heartbeat timer fires and calls isActive, which counts the connections.
BeatTimerFires ==
  /\ Running /\ beatTimer = 0
  /\ beatTimer' = None
  /\ probe' = Grace
  /\ seen' = (conn \/ checker)
  /\ UNCHANGED <<option, state, age, idleTimer, clientVars, phase>>

\* The count arrives.
ProbeAnswers ==
  /\ Running /\ probe # None
  /\ probe' = None
  /\ IF seen THEN Beat ELSE SetState("expired") /\ UNCHANGED <<age, beatTimer>>
  /\ UNCHANGED <<option, seen, clientVars, phase>>

\* The count of no connections may never arrive: after 5 s it is taken to be 0.
ProbeTimesOut ==
  /\ Running /\ probe = 0 /\ ~seen
  /\ probe' = None
  /\ SetState("expired")
  /\ UNCHANGED <<option, age, beatTimer, seen, clientVars, phase>>

\* getConnections reports an error.
ProbeFails ==
  /\ Running /\ probe # None
  /\ probe' = None
  /\ SetState("unknown")
  /\ UNCHANGED <<option, age, beatTimer, seen, clientVars, phase>>

\* The idle timer fires: exit(0).
IdleTimerFires ==
  /\ Running /\ idleTimer = 0
  /\ phase' = IF phase = "up" THEN "idled" ELSE "stopped"
  /\ UNCHANGED <<option, state, age, beatTimer, probe, seen, idleTimer, clientVars>>

\* disposeRoutes() clears the heartbeat timer, but a call of isActive goes on.
Dispose ==
  /\ phase = "up"
  /\ phase' = "disposing"
  /\ beatTimer' = None
  /\ UNCHANGED <<option, state, age, probe, seen, idleTimer, clientVars>>

\* The disposal is over and the process exits.
Disposed ==
  /\ phase = "disposing"
  /\ phase' = "stopped"
  /\ UNCHANGED <<option, state, age, beatTimer, probe, seen, idleTimer, clientVars>>

Elapse(t) == IF t = None THEN None ELSE t - 1

AtMost(n, bound) == IF n < bound THEN n ELSE bound

\* A tick passes when no timer is due.  A count of open connections is not
\* waited for: Node calls back at once when there are any.
Tick ==
  /\ Running
  /\ beatTimer # 0 /\ probe # 0 /\ idleTimer # 0
  /\ ~(probe # None /\ seen)
  /\ age' = AtMost(age + 1, Interval)
  /\ beatTimer' = Elapse(beatTimer)
  /\ probe' = Elapse(probe)
  /\ idleTimer' = Elapse(idleTimer)
  /\ quiet' = IF conn THEN 0 ELSE AtMost(quiet + 1, idle)
  /\ UNCHANGED <<option, state, seen, conn, checker, clockSet, phase>>

\* The wall clock is set: Date.now() jumps, the timers do not notice.
StepClock ==
  /\ Running
  /\ clockSet' = TRUE
  /\ age' \in 0 .. Interval
  /\ UNCHANGED <<option, state, beatTimer, probe, seen, idleTimer, conn, checker, quiet, phase>>

Next ==
  \/ Request \/ Disconnect \/ HealthCheck
  \/ BeatTimerFires \/ ProbeAnswers \/ ProbeTimesOut \/ ProbeFails
  \/ IdleTimerFires \/ Dispose \/ Disposed \/ Tick \/ StepClock

Spec == Init /\ [][Next]_vars

\* Time passes, timers fire and a disposal ends (wrapper.ts gives it 5 s).
\* Nothing is assumed of clients, of health checkers, of errors or of the count
\* of no connections arriving.
Fairness ==
  /\ WF_vars(Tick) /\ WF_vars(BeatTimerFires) /\ WF_vars(IdleTimerFires)
  /\ WF_vars(seen /\ ProbeAnswers) /\ WF_vars(ProbeTimesOut) /\ WF_vars(Disposed)

FairSpec == Spec /\ Fairness

-----------------------------------------------------------------------------
\* At most one isActive call is in flight: the timer does not fire again before
\* the previous call has been answered or has timed out, so that answers are
\* not applied out of order.
OneProbe == beatTimer = 0 => probe = None

\* While the state is "alive" somebody is going to look again: the timer "keeps
\* running as long as there is activity" (the comment on beat()).  Once the wall
\* clock was set back, beat() may take a heartbeat whose timer has fired to be
\* recent and start no timer.
AliveIsWatched ==
  ~clockSet /\ phase = "up" /\ state = "alive" => beatTimer # None \/ probe # None

\* An idle timeout that was compared with the heartbeat interval, and is longer,
\* never shuts the server down under an open browser connection, even if a late
\* answer declared it expired.  (One that was not compared may: see Accepted.)
NoExitWhileConnected == compared /\ ~clockSet /\ phase = "idled" => ~conn

\* The FAQ says that the server is shut down if there has not been an active
\* connection for the idle timeout.
ExitOnlyAfterQuiet == compared /\ ~clockSet /\ phase = "idled" => quiet = idle

\* As long as a browser keeps a connection open the heartbeat goes on, once per
\* interval, unless the count of connections fails.
KeepsBeating ==
  \/ []<>(~conn) \/ []<>(age = 0) \/ <>(phase # "up")
  \/ <>[](state = "unknown") \/ <>clockSet

\* Without requests and browser connections the server shuts itself down, if no
\* health checker is connected again and again (isActive counts it, although
\* /healthz does not beat) and no count fails (nothing asks again after that).
IdleShutsDown ==
  \/ <>(~Running) \/ []<>(quiet = 0) \/ []<>checker
  \/ <>[](state = "unknown") \/ <>clockSet
=============================================================================
