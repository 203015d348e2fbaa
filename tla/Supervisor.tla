------------------------------ MODULE Supervisor ------------------------------
(***************************************************************************)
(* The two-process structure of src/node/wrapper.ts: a parent              *)
(* (ParentProcess) forks the server as a child (ChildProcess), performs a  *)
(* handshake with it over the IPC channel, replaces it when it receives    *)
(* SIGUSR1 or SIGUSR2, and goes away when the child does.  The life of the *)
(* child follows src/node/entry.ts.                                        *)
(*                                                                         *)
(* Children are numbered in the order they are forked.  The timers of the  *)
(* code (10 s for a handshake, 5 s for a disposal, 5 s between two looks   *)
(* at the parent) are steps that may be taken whenever the timer is        *)
(* pending: no order between timers is assumed.                            *)
(***************************************************************************)
EXTENDS Naturals

CONSTANT MaxForks    \* bound on the number of forks, hence on the relaunches

ASSUME MaxForksAssumption == MaxForks \in Nat \ {0}

Child == 1 .. MaxForks

VARIABLES
  parent,   \* the parent: "up", "disposing" (waiting for the child) or "gone"
  code,     \* how the parent left: "none" (it did not), "ok", "error", "killed"
  args,     \* whether start() has stored the parsed arguments
  started,  \* whether a _start() promise is stored
  current,  \* this.child, 0 before the first fork
  watch,    \* watch[c]: the listeners the parent keeps on child c
  timer,    \* timer[c]: whether the parent's handshake timer for c is pending
  proc,     \* proc[c]: where child c is in its life
  status,   \* status[c]: how child c ended
  pipe,     \* pipe[c]: the handshake message in flight between the two
  term      \* term[c]: SIGTERM was sent to c and not handled yet

vars ==
  <<parent, code, args, started, current, watch, timer, proc, status, pipe, term>>

parentVars == <<parent, code, args, started, current, watch, timer>>

\* The states of a child in which its process exists.
Live == {"boot", "hello", "starting", "serving", "closing"}

ParentTypeOK ==
  /\ parent  \in {"up", "disposing", "gone"}
  /\ code    \in {"none", "ok", "error", "killed"}
  /\ current \in 0 .. MaxForks
  /\ watch   \in [Child -> {"none", "handshake", "exit", "dispose"}]

FlagTypeOK ==
  /\ args    \in BOOLEAN
  /\ started \in BOOLEAN
  /\ timer   \in [Child -> BOOLEAN]
  /\ term    \in [Child -> BOOLEAN]

ChildTypeOK ==
  /\ proc    \in [Child -> Live \cup {"unborn", "exited", "reaped"}]
  /\ status  \in [Child -> {"none", "ok", "error", "signal"}]
  /\ pipe    \in [Child -> {"empty", "hello", "args"}]

TypeOK == ParentTypeOK /\ FlagTypeOK /\ ChildTypeOK

Init ==
  /\ parent = "up" /\ code = "none"
  /\ args = FALSE /\ started = FALSE /\ current = 0
  /\ watch  = [c \in Child |-> "none"]
  /\ timer  = [c \in Child |-> FALSE]
  /\ proc   = [c \in Child |-> "unborn"]
  /\ status = [c \in Child |-> "none"]
  /\ pipe   = [c \in Child |-> "empty"]
  /\ term   = [c \in Child |-> FALSE]

-----------------------------------------------------------------------------
(***************************************************************************)
(* The parent                                                              *)
(***************************************************************************)

\* Faulty variants: disposeChild forgets the signal, or the listeners.
SignalledNot(c) == term
UnwatchedNot(c) == watch

\* child.kill(): SIGTERM to child c, if its process still exists.
Signalled(c) ==
  [d \in Child |-> term[d] \/ (d = c /\ proc[d] \in Live)]

\* removeAllListeners(), then a listener of disposeChild's own.
Unwatched(c) == [watch EXCEPT ![c] = "dispose"]

\* The timers and listeners of the parent end with it.
Forget ==
  /\ watch' = [c \in Child |-> "none"]
  /\ timer' = [c \in Child |-> FALSE]

\* exit(): while nothing was disposed yet the "exit" listener runs the
\* synchronous half of disposeChild, which signals the current child.
Exit(how) ==
  /\ parent' = "gone" /\ code' = how
  /\ started' = FALSE
  /\ Forget
  /\ term' = IF parent = "up" THEN Signalled(current) ELSE term
  /\ UNCHANGED <<args, current>>

\* Faulty variant: the handshake has no timeout.
ForkUntimed(c) ==
  /\ current' = c
  /\ started' = TRUE
  /\ proc' = [proc EXCEPT ![c] = "boot"]
  /\ UNCHANGED timer

\* _start(): fork child c and listen for its handshake.
Fork(c) ==
  /\ current' = c
  /\ started' = TRUE
  /\ proc' = [proc EXCEPT ![c] = "boot"]
  /\ timer' = [timer EXCEPT ![c] = TRUE]

\* start(args), called by the parent's entry point once it parsed the command line.
Start ==
  /\ parent = "up" /\ ~args
  /\ args' = TRUE
  /\ IF started
       THEN UNCHANGED <<started, current, proc, timer, watch>>
       ELSE /\ current < MaxForks
            /\ Fork(current + 1)
            /\ watch' = [watch EXCEPT ![current + 1] = "handshake"]
  /\ UNCHANGED <<parent, code, status, pipe, term>>

\* relaunch(), the handler of SIGUSR1 and SIGUSR2: the current child loses its
\* listeners and is sent SIGTERM, and its successor is forked without waiting for it to exit.
Relaunch ==
  /\ parent = "up" /\ args /\ current < MaxForks
  /\ term' = Signalled(current)
  /\ Fork(current + 1)
  /\ watch' = [Unwatched(current) EXCEPT ![current + 1] = "handshake"]
  /\ UNCHANGED <<parent, code, args, status, pipe>>

\* The same before start(): the fork happens, then handshake() throws "started without args".
RelaunchBeforeStart ==
  /\ parent = "up" /\ ~args /\ current < MaxForks
  /\ parent' = "gone" /\ code' = "error"
  /\ current' = current + 1
  /\ started' = FALSE
  /\ proc' = [proc EXCEPT ![current + 1] = "boot"]
  /\ term' = [term EXCEPT ![current + 1] = TRUE]
  /\ Forget
  /\ UNCHANGED <<args, status, pipe>>

\* The handshake of child c arrives: its onMessage cleans up, the arguments
\* are sent back and the exit of c is watched.
HandshakeArrives(c) ==
  /\ watch[c] = "handshake" /\ pipe[c] = "hello"
  /\ watch' = [watch EXCEPT ![c] = "exit"]
  /\ timer' = [timer EXCEPT ![c] = FALSE]
  /\ pipe'  = [pipe EXCEPT ![c] = "args"]
  /\ UNCHANGED <<parent, code, args, started, current, proc, status, term>>

\* The 10 s timer of a handshake fires.  removeAllListeners does not clear it:
\* it may be that of a child which was replaced during its handshake.
HandshakeTimesOut(c) ==
  /\ timer[c]
  /\ Exit("error")
  /\ UNCHANGED <<proc, status, pipe>>

\* What the parent's "exit" listener on child c does: fail the handshake, exit
\* with the child's code (a child ended by a signal has none, which counts as
\* 0), or end the disposal.
ExitSeen(c) ==
  \/ /\ watch[c] = "handshake"
     /\ Exit("error")
  \/ /\ watch[c] = "exit"
     /\ Exit(IF status[c] = "error" THEN "error" ELSE "ok")
  \/ /\ watch[c] = "dispose" /\ parent = "disposing" /\ c = current
     /\ Exit("ok")
  \/ /\ watch[c] = "dispose" /\ ~(parent = "disposing" /\ c = current)
     /\ UNCHANGED <<parentVars, term>>

ReapChild(c) ==
  /\ parent # "gone" /\ proc[c] = "exited"
  /\ proc' = [proc EXCEPT ![c] = "reaped"]
  /\ ExitSeen(c)
  /\ UNCHANGED <<status, pipe>>

\* SIGINT or SIGTERM: dispose, then exit(0) once the child is gone.
Dispose ==
  /\ parent = "up"
  /\ IF current = 0
       THEN Exit("ok")
       ELSE /\ parent' = "disposing"
            /\ started' = FALSE
            /\ watch' = Unwatched(current)
            /\ term' = Signalled(current)
            /\ UNCHANGED <<code, args, current, timer>>
  /\ UNCHANGED <<proc, status, pipe>>

\* Faulty variant: the 5 s timer is only set when there is no child.
DisposeDeadlineLate ==
  /\ parent = "disposing" /\ current = 0
  /\ Exit("ok")
  /\ UNCHANGED <<proc, status, pipe>>

\* exit(0) does not wait for the child longer than 5 s.
DisposeDeadline ==
  /\ parent = "disposing"
  /\ Exit("ok")
  /\ UNCHANGED <<proc, status, pipe>>

\* The parent is ended by a signal it does not handle and cleans nothing up.
ParentKilled ==
  /\ parent # "gone"
  /\ parent' = "gone" /\ code' = "killed"
  /\ Forget
  /\ UNCHANGED <<args, started, current, proc, status, pipe, term>>

-----------------------------------------------------------------------------
(***************************************************************************)
(* A child                                                                 *)
(***************************************************************************)

Ends(c, how) ==
  /\ proc' = [proc EXCEPT ![c] = "exited"]
  /\ status' = [status EXCEPT ![c] = how]

\* The entry point of a child has loaded: signal handlers are on, and the handshake is sent.
SayHello(c) ==
  /\ proc[c] = "boot"
  /\ proc' = [proc EXCEPT ![c] = "hello"]
  /\ pipe' = [pipe EXCEPT ![c] = "hello"]
  /\ UNCHANGED <<parentVars, status, term>>

ArgsArrive(c) ==
  /\ proc[c] = "hello" /\ pipe[c] = "args"
  /\ proc' = [proc EXCEPT ![c] = "starting"]
  /\ pipe' = [pipe EXCEPT ![c] = "empty"]
  /\ UNCHANGED <<parentVars, status, term>>

\* The child's own 10 s timer: entry() rejects and the child exits 1.
ArgsTimeOut(c) ==
  /\ proc[c] = "hello"
  /\ Ends(c, "error")
  /\ UNCHANGED <<parentVars, pipe, term>>

\* runCodeServer() gets its address, which only one process can hold.
Listen(c) ==
  /\ proc[c] = "starting"
  /\ \A d \in Child : proc[d] # "serving"
  /\ proc' = [proc EXCEPT ![c] = "serving"]
  /\ UNCHANGED <<parentVars, status, pipe, term>>

\* runCodeServer() fails, for instance because its predecessor still holds the address.
StartFails(c) ==
  /\ proc[c] = "starting"
  /\ Ends(c, "error")
  /\ UNCHANGED <<parentVars, pipe, term>>

\* The idle timeout of the server, exit(0).
IdleExit(c) ==
  /\ proc[c] = "serving"
  /\ Ends(c, "ok")
  /\ UNCHANGED <<parentVars, pipe, term>>

\* The child is ended by a signal it does not handle (a crash, the OOM killer).
Crash(c) ==
  /\ proc[c] \in Live
  /\ Ends(c, "signal")
  /\ UNCHANGED <<parentVars, pipe, term>>

\* SIGTERM: the handler disposes the server; before it is installed and after
\* it was removed by a first disposal the default action ends the process.
TermArrives(c) ==
  /\ term[c] /\ proc[c] \in Live
  /\ term' = [term EXCEPT ![c] = FALSE]
  /\ IF proc[c] \in {"boot", "closing"}
       THEN Ends(c, "signal")
       ELSE /\ proc' = [proc EXCEPT ![c] = "closing"]
            /\ UNCHANGED status
  /\ UNCHANGED <<parentVars, pipe>>

\* Faulty variant: the child looks for its parent only until it got its arguments.
ParentMissedEarly(c) ==
  /\ parent = "gone"
  /\ proc[c] = "hello"
  /\ proc' = [proc EXCEPT ![c] = "closing"]
  /\ UNCHANGED <<parentVars, status, pipe, term>>

\* Every 5 s the child looks whether its parent still exists.
ParentMissed(c) ==
  /\ parent = "gone"
  /\ proc[c] \in {"hello", "starting", "serving"}
  /\ proc' = [proc EXCEPT ![c] = "closing"]
  /\ UNCHANGED <<parentVars, status, pipe, term>>

\* The disposal of the server is over, or took 5 s: exit(0).
Closed(c) ==
  /\ proc[c] = "closing"
  /\ Ends(c, "ok")
  /\ UNCHANGED <<parentVars, pipe, term>>

-----------------------------------------------------------------------------
ParentNext ==
  \/ Start \/ Relaunch \/ RelaunchBeforeStart
  \/ Dispose \/ DisposeDeadline \/ ParentKilled
  \/ \E c \in Child : HandshakeArrives(c) \/ HandshakeTimesOut(c) \/ ReapChild(c)

ChildNext(c) ==
  \/ SayHello(c) \/ ArgsArrive(c) \/ ArgsTimeOut(c)
  \/ Listen(c) \/ StartFails(c) \/ IdleExit(c) \/ Crash(c)
  \/ TermArrives(c) \/ ParentMissed(c) \/ Closed(c)

Next == ParentNext \/ \E c \in Child : ChildNext(c)

Spec == Init /\ [][Next]_vars

\* The parent's timers fire, its messages arrive and the kernel reports exits.
\* Nothing is assumed of a child, of the signals a user sends or of the command
\* line being parsed.
ParentFairness ==
  /\ WF_vars(DisposeDeadline)
  /\ \A c \in Child :
       /\ WF_vars(HandshakeArrives(c))
       /\ WF_vars(HandshakeTimesOut(c))
       /\ WF_vars(ReapChild(c))

\* A child does not hang: its code runs, its timers fire, its signals and
\* messages are delivered.  It may crash or go idle, but need not.
ChildFairness ==
  \A c \in Child :
    /\ WF_vars(SayHello(c)) /\ WF_vars(ArgsArrive(c)) /\ WF_vars(ArgsTimeOut(c))
    /\ WF_vars(Listen(c) \/ StartFails(c))
    /\ WF_vars(TermArrives(c)) /\ WF_vars(ParentMissed(c)) /\ WF_vars(Closed(c))

ParentFairSpec == Spec /\ ParentFairness

FairSpec == Spec /\ ParentFairness /\ ChildFairness

-----------------------------------------------------------------------------
InCharge(c) == parent = "up" /\ c = current

\* No listener of a child that was replaced can make the parent exit: it has lost
\* those of its handshake and of its exit (disposeChild, _start).  The timer of its
\* handshake stays, see LivingChildKeepsParent.
OnlyCurrentWatched ==
  \A c \in Child : watch[c] \in {"handshake", "exit"} => c = current

\* No child is left to run on its own: one that is not in charge was sent
\* SIGTERM or is closing already, whichever way the parent left it, unless the
\* parent was killed and could not (relaunch, exit and the dispose listener).
NoStrayChild ==
  \A c \in Child :
    proc[c] \in Live =>
      InCharge(c) \/ term[c] \/ proc[c] = "closing" \/ code = "killed"

\* The exit of a child that was replaced changes nothing for its successor,
\* however late it is reported.
SupersededExitIgnored ==
  [][\A c \in Child :
       proc[c] = "exited" /\ proc'[c] = "reaped" /\ c # current
         => UNCHANGED <<parent, code, current, watch, term>>]_vars

\* wrapper.ts says that the parent relaunches on a signal and exits if the
\* child "otherwise exits": it does not give up on a child that has completed
\* its handshake and is alive.
LivingChildKeepsParent ==
  [][parent = "up" /\ parent' = "gone" /\ code' = "error" /\ args
       => ~(watch[current] = "exit" /\ proc[current] \in Live)]_vars

\* A handshake does not stay open, even with a child that hangs: it completes,
\* its child is replaced, or the parent exits (the timeout of onMessage).
HandshakeSettles ==
  \A c \in Child : watch[c] = "handshake" ~> watch[c] # "handshake"

\* The parent does not wait forever for its child once it is told to stop, even
\* for one that hangs (the 5 s timer of the dispose listener).
DisposalEnds == parent = "disposing" ~> parent = "gone"

\* What Succession sees of the two processes.
Phase == IF parent # "up" THEN "stopped"
         ELSE IF current = 0 THEN "idle"
         ELSE IF watch[current] = "exit" THEN "ready" ELSE "starting"

Alive == {c \in Child : proc[c] \in Live}

Promise ==
  INSTANCE Succession WITH
    Generation <- Child, gen <- current, phase <- Phase, alive <- Alive

\* Replacing, stopping and crashing in any order, at most the newest child is in
\* charge, stopping is final, and every child that is not in charge exits.
KeepsPromise == Promise!FairSpec

=============================================================================
