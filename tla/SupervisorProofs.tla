--------------------------- MODULE SupervisorProofs ---------------------------
(***************************************************************************)
(* What holds of Supervisor for every bound on the number of forks.        *)
(***************************************************************************)
EXTENDS Supervisor, TLAPS

\* The listeners that can end the parent are those of the child in charge.
WatchedInCharge ==
  \A c \in Child : watch[c] \in {"handshake", "exit"} => InCharge(c)

\* Once the current child has been forked, the living parent listens to it.
InChargeWatched ==
  parent = "up" /\ current # 0 => watch[current] \in {"handshake", "exit"}

\* Before start() there is no child, unless a premature relaunch ended the parent.
NothingBeforeStart == parent = "up" /\ ~args => current = 0 /\ ~started

\* A parent that is gone listens to nothing, and only then has it a way it left.
GoneIsSilent ==
  /\ parent = "gone" => \A c \in Child : watch[c] = "none" /\ ~timer[c]
  /\ code # "none" => parent = "gone"

\* The inductive invariant.
IInv ==
  /\ TypeOK
  /\ WatchedInCharge
  /\ InChargeWatched
  /\ NothingBeforeStart
  /\ GoneIsSilent
  /\ NoStrayChild

-----------------------------------------------------------------------------
\* Every step keeps every variable in its type.
LEMMA TypeStep == TypeOK /\ [Next]_vars => TypeOK'
<1> SUFFICES ASSUME TypeOK, [Next]_vars PROVE TypeOK'
  OBVIOUS
<1> USE MaxForksAssumption DEF TypeOK, Child
<1>1. CASE Start
  <2>1. ParentTypeOK'
    BY <1>1 DEF ParentTypeOK, Start, Fork
  <2>2. FlagTypeOK'
    BY <1>1 DEF FlagTypeOK, ParentTypeOK, Start, Fork
  <2>3. ChildTypeOK'
    BY <1>1 DEF ChildTypeOK, Live, Start, Fork
  <2> QED
    BY <2>1, <2>2, <2>3
<1>2. CASE Relaunch
  <2>1. ParentTypeOK'
    BY <1>2 DEF ParentTypeOK, Relaunch, Fork, Signalled, Unwatched
  <2>2. FlagTypeOK'
    BY <1>2 DEF FlagTypeOK, ParentTypeOK, Relaunch, Fork, Signalled, Unwatched
  <2>3. ChildTypeOK'
    BY <1>2 DEF ChildTypeOK, Live, Relaunch, Fork, Signalled, Unwatched
  <2> QED
    BY <2>1, <2>2, <2>3
<1>3. CASE RelaunchBeforeStart
  <2>1. ParentTypeOK'
    BY <1>3 DEF ParentTypeOK, RelaunchBeforeStart, Forget
  <2>2. FlagTypeOK'
    BY <1>3 DEF FlagTypeOK, ParentTypeOK, RelaunchBeforeStart, Forget
  <2>3. ChildTypeOK'
    BY <1>3 DEF ChildTypeOK, Live, RelaunchBeforeStart, Forget
  <2> QED
    BY <2>1, <2>2, <2>3
<1>4. CASE Dispose
  <2>1. ParentTypeOK'
    BY <1>4 DEF ParentTypeOK, Dispose, Exit, Forget, Signalled, Unwatched
  <2>2. FlagTypeOK'
    BY <1>4 DEF FlagTypeOK, Dispose, Exit, Forget, Signalled, Unwatched
  <2>3. ChildTypeOK'
    BY <1>4 DEF ChildTypeOK, Live, Dispose, Exit, Forget, Signalled, Unwatched
  <2> QED
    BY <2>1, <2>2, <2>3
<1>5. CASE DisposeDeadline
  <2>1. ParentTypeOK'
    BY <1>5 DEF ParentTypeOK, DisposeDeadline, Exit, Forget, Signalled
  <2>2. FlagTypeOK'
    BY <1>5 DEF FlagTypeOK, DisposeDeadline, Exit, Forget, Signalled
  <2>3. ChildTypeOK'
    BY <1>5 DEF ChildTypeOK, Live, DisposeDeadline, Exit, Forget, Signalled
  <2> QED
    BY <2>1, <2>2, <2>3
<1>6. CASE ParentKilled
  <2>1. ParentTypeOK'
    BY <1>6 DEF ParentTypeOK, ParentKilled, Forget
  <2>2. FlagTypeOK'
    BY <1>6 DEF FlagTypeOK, ParentKilled, Forget
  <2>3. ChildTypeOK'
    BY <1>6 DEF ChildTypeOK, Live, ParentKilled, Forget
  <2> QED
    BY <2>1, <2>2, <2>3
<1>7. ASSUME NEW c \in Child, HandshakeArrives(c) PROVE TypeOK'
  <2>1. ParentTypeOK'
    BY <1>7 DEF ParentTypeOK, HandshakeArrives
  <2>2. FlagTypeOK'
    BY <1>7 DEF FlagTypeOK, HandshakeArrives
  <2>3. ChildTypeOK'
    BY <1>7 DEF ChildTypeOK, Live, HandshakeArrives
  <2> QED
    BY <2>1, <2>2, <2>3
<1>8. ASSUME NEW c \in Child, HandshakeTimesOut(c) PROVE TypeOK'
  <2>1. ParentTypeOK'
    BY <1>8 DEF ParentTypeOK, HandshakeTimesOut, Exit, Forget, Signalled
  <2>2. FlagTypeOK'
    BY <1>8 DEF FlagTypeOK, HandshakeTimesOut, Exit, Forget, Signalled
  <2>3. ChildTypeOK'
    BY <1>8 DEF ChildTypeOK, Live, HandshakeTimesOut, Exit, Forget, Signalled
  <2> QED
    BY <2>1, <2>2, <2>3
<1>9. ASSUME NEW c \in Child, ReapChild(c) PROVE TypeOK'
  <2>1. ParentTypeOK'
    BY <1>9 DEF ParentTypeOK, ReapChild, ExitSeen, Exit, Forget, Signalled, parentVars
  <2>2. FlagTypeOK'
    BY <1>9 DEF FlagTypeOK, ReapChild, ExitSeen, Exit, Forget, Signalled, parentVars
  <2>3. ChildTypeOK'
    BY <1>9 DEF ChildTypeOK, Live, ReapChild, ExitSeen, Exit, Forget, Signalled, parentVars
  <2> QED
    BY <2>1, <2>2, <2>3
<1>10. ASSUME NEW c \in Child, ChildNext(c) PROVE TypeOK'
  <2>1. ParentTypeOK'
    BY <1>10 DEF ParentTypeOK, ChildNext, SayHello, ArgsArrive, ArgsTimeOut, Listen,
       StartFails, IdleExit, Crash, TermArrives, ParentMissed, Closed, Ends, parentVars
  <2>2. FlagTypeOK'
    BY <1>10 DEF FlagTypeOK, ParentTypeOK, ChildNext, SayHello, ArgsArrive, ArgsTimeOut, Listen,
       StartFails, IdleExit, Crash, TermArrives, ParentMissed, Closed, Ends, parentVars
  <2>3. ChildTypeOK'
    BY <1>10 DEF ChildTypeOK, Live, ChildNext, SayHello, ArgsArrive, ArgsTimeOut, Listen,
       StartFails, IdleExit, Crash, TermArrives, ParentMissed, Closed, Ends, parentVars
  <2> QED
    BY <2>1, <2>2, <2>3
<1>11. CASE UNCHANGED vars
  BY <1>11 DEF vars, ParentTypeOK, FlagTypeOK, ChildTypeOK
<1> QED
  BY <1>1, <1>2, <1>3, <1>4, <1>5, <1>6, <1>7, <1>8, <1>9, <1>10, <1>11
  DEF Next, ParentNext

\* The steps of a child leave what the parent knows alone.
LEMMA ChildStep ==
  ASSUME NEW c \in Child, ChildNext(c)
  PROVE  UNCHANGED parentVars
BY DEF ChildNext, SayHello, ArgsArrive, ArgsTimeOut, Listen, StartFails,
   IdleExit, Crash, TermArrives, ParentMissed, Closed

\* What is known of the listeners and of the parent's own state is inductive.
LEMMA ParentStep ==
  IInv /\ [Next]_vars
    => (WatchedInCharge /\ InChargeWatched /\ NothingBeforeStart /\ GoneIsSilent)'
<1> DEFINE P == WatchedInCharge /\ InChargeWatched /\ NothingBeforeStart /\ GoneIsSilent
<1> SUFFICES ASSUME IInv, [Next]_vars PROVE P'
  OBVIOUS
<1> USE MaxForksAssumption
    DEF IInv, TypeOK, ParentTypeOK, FlagTypeOK, ChildTypeOK, WatchedInCharge, InChargeWatched, NothingBeforeStart,
        GoneIsSilent, InCharge, Child
<1>1. CASE Start
  BY <1>1 DEF Start, Fork
<1>2. CASE Relaunch
  BY <1>2 DEF Relaunch, Fork, Unwatched
<1>3. CASE RelaunchBeforeStart
  BY <1>3 DEF RelaunchBeforeStart, Forget
<1>4. CASE Dispose
  BY <1>4 DEF Dispose, Exit, Forget, Unwatched
<1>5. CASE DisposeDeadline
  BY <1>5 DEF DisposeDeadline, Exit, Forget
<1>6. CASE ParentKilled
  BY <1>6 DEF ParentKilled, Forget
<1>7. ASSUME NEW c \in Child, HandshakeArrives(c) PROVE P'
  BY <1>7 DEF HandshakeArrives
<1>8. ASSUME NEW c \in Child, HandshakeTimesOut(c) PROVE P'
  BY <1>8 DEF HandshakeTimesOut, Exit, Forget
<1>9. ASSUME NEW c \in Child, ReapChild(c) PROVE P'
  BY <1>9 DEF ReapChild, ExitSeen, Exit, Forget, parentVars
<1>10. ASSUME NEW c \in Child, ChildNext(c) PROVE P'
  <2>1. UNCHANGED parentVars
    BY <1>10, ChildStep
  <2> QED
    BY <2>1 DEF parentVars
<1>11. CASE UNCHANGED vars
  BY <1>11 DEF vars
<1> QED
  BY <1>1, <1>2, <1>3, <1>4, <1>5, <1>6, <1>7, <1>8, <1>9, <1>10, <1>11
  DEF Next, ParentNext

\* No step leaves a child behind.
LEMMA StrayStep == IInv /\ [Next]_vars => NoStrayChild'
<1> SUFFICES ASSUME IInv, [Next]_vars PROVE NoStrayChild'
  OBVIOUS
<1> USE MaxForksAssumption
    DEF IInv, TypeOK, ParentTypeOK, FlagTypeOK, ChildTypeOK, NothingBeforeStart, GoneIsSilent, NoStrayChild, InCharge,
        Child, Live
<1>1. CASE Start
  BY <1>1 DEF Start, Fork
<1>2. CASE Relaunch
  BY <1>2 DEF Relaunch, Fork, Signalled
<1>3. CASE RelaunchBeforeStart
  BY <1>3 DEF RelaunchBeforeStart
<1>4. CASE Dispose
  BY <1>4 DEF Dispose, Exit, Signalled
<1>5. CASE DisposeDeadline
  BY <1>5 DEF DisposeDeadline, Exit, Signalled
<1>6. CASE ParentKilled
  BY <1>6 DEF ParentKilled
<1>7. ASSUME NEW c \in Child, HandshakeArrives(c) PROVE NoStrayChild'
  BY <1>7 DEF HandshakeArrives
<1>8. ASSUME NEW c \in Child, HandshakeTimesOut(c) PROVE NoStrayChild'
  BY <1>8 DEF HandshakeTimesOut, Exit, Signalled
<1>9. ASSUME NEW c \in Child, ReapChild(c) PROVE NoStrayChild'
  BY <1>9 DEF ReapChild, ExitSeen, Exit, Signalled, parentVars
<1>10. ASSUME NEW c \in Child, ChildNext(c) PROVE NoStrayChild'
  BY <1>10 DEF ChildNext, SayHello, ArgsArrive, ArgsTimeOut, Listen, StartFails,
     IdleExit, Crash, TermArrives, ParentMissed, Closed, Ends, parentVars
<1>11. CASE UNCHANGED vars
  BY <1>11 DEF vars
<1> QED
  BY <1>1, <1>2, <1>3, <1>4, <1>5, <1>6, <1>7, <1>8, <1>9, <1>10, <1>11
  DEF Next, ParentNext

\* The invariant holds in every reachable state.
THEOREM Invariance == Spec => []IInv
<1>1. Init => IInv
  <2> SUFFICES ASSUME Init PROVE IInv
    OBVIOUS
  <2>1. ParentTypeOK
    BY MaxForksAssumption DEF Init, ParentTypeOK
  <2>2. FlagTypeOK /\ ChildTypeOK
    BY DEF Init, FlagTypeOK, ChildTypeOK
  <2>3. WatchedInCharge /\ InChargeWatched /\ NothingBeforeStart
    BY DEF Init, WatchedInCharge, InChargeWatched, NothingBeforeStart
  <2>4. GoneIsSilent /\ NoStrayChild
    BY DEF Init, GoneIsSilent, NoStrayChild, Live
  <2> QED
    BY <2>1, <2>2, <2>3, <2>4 DEF IInv, TypeOK
<1>2. IInv /\ [Next]_vars => IInv'
  BY TypeStep, ParentStep, StrayStep DEF IInv
<1> QED
  BY <1>1, <1>2, PTL DEF Spec

\* Every variable keeps its type (the type invariant of the model).
THEOREM TypeCorrect == Spec => []TypeOK
BY Invariance, PTL DEF IInv

\* No listener of a child that was replaced can make the parent exit
\* (disposeChild takes those of every child it replaces).
THEOREM OnlyCurrentChildWatched == Spec => []OnlyCurrentWatched
<1>1. IInv => OnlyCurrentWatched
  BY DEF IInv, WatchedInCharge, InCharge, OnlyCurrentWatched
<1> QED
  BY <1>1, Invariance, PTL

\* Relaunching, exiting and disposing leave no child behind that was not told
\* to stop; only killing the parent does.
THEOREM NoChildIsStray == Spec => []NoStrayChild
BY Invariance, PTL DEF IInv

\* The exit of a child that was replaced is ignored (ReapChild finds no listener
\* but that of a disposal nobody waits for).
THEOREM SupersededExitsIgnored == Spec => SupersededExitIgnored
<1> DEFINE Ignored ==
      \A c \in Child :
        proc[c] = "exited" /\ proc'[c] = "reaped" /\ c # current
          => UNCHANGED <<parent, code, current, watch, term>>
<1>1. IInv /\ [Next]_vars => [Ignored]_vars
  <2> SUFFICES ASSUME IInv, [Next]_vars,
                      NEW c \in Child,
                      proc[c] = "exited", proc'[c] = "reaped", c # current
               PROVE  UNCHANGED <<parent, code, current, watch, term>>
    OBVIOUS
  <2> USE DEF IInv, TypeOK, ChildTypeOK, WatchedInCharge, InCharge, Child
  <2>1. CASE Start
    BY <2>1 DEF Start, Fork
  <2>2. CASE Relaunch
    BY <2>2 DEF Relaunch, Fork
  <2>3. CASE RelaunchBeforeStart
    BY <2>3 DEF RelaunchBeforeStart
  <2>4. CASE Dispose
    BY <2>4 DEF Dispose
  <2>5. CASE DisposeDeadline \/ ParentKilled
    BY <2>5 DEF DisposeDeadline, ParentKilled
  <2>6. ASSUME NEW d \in Child, HandshakeArrives(d) \/ HandshakeTimesOut(d)
        PROVE  UNCHANGED <<parent, code, current, watch, term>>
    BY <2>6 DEF HandshakeArrives, HandshakeTimesOut
  <2>7. ASSUME NEW d \in Child, ReapChild(d)
        PROVE  UNCHANGED <<parent, code, current, watch, term>>
    <3>1. d = c
      BY <2>7 DEF ReapChild
    <3> QED
      BY <2>7, <3>1 DEF ReapChild, ExitSeen, parentVars
  <2>8. ASSUME NEW d \in Child, ChildNext(d)
        PROVE  UNCHANGED <<parent, code, current, watch, term>>
    BY <2>8 DEF ChildNext, SayHello, ArgsArrive, ArgsTimeOut, Listen, StartFails,
       IdleExit, Crash, TermArrives, ParentMissed, Closed, Ends
  <2>9. CASE UNCHANGED vars
    BY <2>9 DEF vars
  <2> QED
    BY <2>1, <2>2, <2>3, <2>4, <2>5, <2>6, <2>7, <2>8, <2>9 DEF Next, ParentNext
<1> QED
  BY <1>1, Invariance, PTL DEF Spec, SupersededExitIgnored

-----------------------------------------------------------------------------
\* A step that leaves the child process table alone and ends the charge of the
\* parent, or finds it ended, is a Stop of the promise or changes nothing it shows.
LEMMA StopOrNothing ==
  ASSUME parent' # "up", UNCHANGED <<current, Alive>>
  PROVE  [Promise!Next]_(Promise!vars)
<1>1. Phase' = "stopped"
  BY DEF Phase
<1>2. CASE Phase = "stopped"
  BY <1>1, <1>2 DEF Promise!vars
<1>3. CASE Phase # "stopped"
  BY <1>1, <1>3 DEF Promise!Next, Promise!Stop
<1> QED
  BY <1>2, <1>3

\* A fork is a Succeed of the promise.
LEMMA ForkSucceeds ==
  ASSUME TypeOK, parent = "up", current < MaxForks,
         current' = current + 1,
         proc' = [proc EXCEPT ![current + 1] = "boot"],
         parent' = "up" => watch'[current + 1] = "handshake"
  PROVE  Promise!Succeed
<1>1. current + 1 \in Child /\ current + 1 # 0
  BY MaxForksAssumption DEF TypeOK, ParentTypeOK, Child
<1>2. Phase # "stopped"
  BY DEF Phase
<1>3. Phase' \in {"starting", "stopped"}
  BY <1>1 DEF Phase
<1>4. Alive' = Alive \cup {current + 1}
  BY <1>1 DEF Alive, TypeOK, ChildTypeOK, Live
<1> QED
  BY <1>1, <1>2, <1>3, <1>4 DEF Promise!Succeed

\* Every step of the two processes is a step of the promise, or changes nothing it shows.
LEMMA PromiseStep == IInv /\ [Next]_vars => [Promise!Next]_(Promise!vars)
<1> SUFFICES ASSUME IInv, [Next]_vars PROVE [Promise!Next]_(Promise!vars)
  OBVIOUS
<1>1. CASE Start
  <2>1. current = 0 /\ ~started
    BY <1>1 DEF Start, IInv, NothingBeforeStart
  <2>2. watch'[current + 1] = "handshake" /\ current < MaxForks
    BY <1>1, <2>1, MaxForksAssumption
    DEF Start, Fork, IInv, TypeOK, ParentTypeOK, Child
  <2>3. Promise!Succeed
    <3>1. /\ parent = "up" /\ parent' = "up"
          /\ current' = current + 1
          /\ proc' = [proc EXCEPT ![current + 1] = "boot"]
      BY <1>1, <2>1 DEF Start, Fork
    <3> QED
      BY <2>2, <3>1, ForkSucceeds DEF IInv
  <2> QED
    BY <2>3 DEF Promise!Next
<1>2. CASE Relaunch
  <2>1. watch'[current + 1] = "handshake"
    BY <1>2, MaxForksAssumption
    DEF Relaunch, Unwatched, IInv, TypeOK, ParentTypeOK, Child
  <2>2. Promise!Succeed
    BY <1>2, <2>1, ForkSucceeds DEF Relaunch, Fork, IInv
  <2> QED
    BY <2>2 DEF Promise!Next
<1>3. CASE RelaunchBeforeStart
  <2>1. /\ parent = "up" /\ parent' # "up" /\ current < MaxForks
        /\ current' = current + 1
        /\ proc' = [proc EXCEPT ![current + 1] = "boot"]
    BY <1>3 DEF RelaunchBeforeStart
  <2>2. parent' = "up" => watch'[current + 1] = "handshake"
    BY <2>1
  <2>3. Promise!Succeed
    BY <2>1, <2>2, ForkSucceeds DEF IInv
  <2> QED
    BY <2>3 DEF Promise!Next
<1>4. CASE Dispose
  BY <1>4, StopOrNothing DEF Dispose, Exit, Alive
<1>5. CASE DisposeDeadline
  BY <1>5, StopOrNothing DEF DisposeDeadline, Exit, Alive
<1>6. CASE ParentKilled
  BY <1>6, StopOrNothing DEF ParentKilled, Alive
<1>7. ASSUME NEW c \in Child, HandshakeArrives(c) PROVE [Promise!Next]_(Promise!vars)
  <2>1. parent = "up" /\ c = current /\ current # 0
    BY <1>7 DEF HandshakeArrives, IInv, WatchedInCharge, InCharge, Child
  <2>2. Phase = "starting" /\ Phase' = "ready"
    BY <1>7, <2>1 DEF HandshakeArrives, Phase, IInv, TypeOK, ParentTypeOK
  <2>3. UNCHANGED <<current, Alive>>
    BY <1>7 DEF HandshakeArrives, Alive
  <2> QED
    BY <2>2, <2>3 DEF Promise!Next, Promise!Ready
<1>8. ASSUME NEW c \in Child, HandshakeTimesOut(c) PROVE [Promise!Next]_(Promise!vars)
  BY <1>8, StopOrNothing DEF HandshakeTimesOut, Exit, Alive
<1>9. ASSUME NEW c \in Child, ReapChild(c) PROVE [Promise!Next]_(Promise!vars)
  <2>1. UNCHANGED <<current, Alive>>
    BY <1>9 DEF ReapChild, ExitSeen, Exit, parentVars, Alive, Live, IInv, TypeOK, ChildTypeOK
  <2>2. CASE parent' # "up"
    BY <2>1, <2>2, StopOrNothing
  <2>3. CASE parent' = "up"
    <3>1. UNCHANGED Phase
      BY <1>9, <2>3 DEF ReapChild, ExitSeen, Exit, parentVars, Phase
    <3> QED
      BY <2>1, <3>1 DEF Promise!vars
  <2> QED
    BY <2>2, <2>3
<1>10. ASSUME NEW c \in Child, ChildNext(c) PROVE [Promise!Next]_(Promise!vars)
  <2>1. UNCHANGED <<current, Phase>>
    BY <1>10, ChildStep DEF parentVars, Phase
  <2>2. Alive' = Alive \/ (c \in Alive /\ Alive' = Alive \ {c})
    BY <1>10 DEF ChildNext, SayHello, ArgsArrive, ArgsTimeOut, Listen, StartFails,
       IdleExit, Crash, TermArrives, ParentMissed, Closed, Ends,
       Alive, Live, IInv, TypeOK, ChildTypeOK
  <2> QED
    BY <2>1, <2>2 DEF Promise!Next, Promise!Leave, Promise!vars
<1>11. CASE UNCHANGED vars
  BY <1>11 DEF vars, Promise!vars, Phase, Alive
<1> QED
  BY <1>1, <1>2, <1>3, <1>4, <1>5, <1>6, <1>7, <1>8, <1>9, <1>10, <1>11
  DEF Next, ParentNext

\* The safety half of KeepsPromise: replacing, stopping and crashing in any
\* order, the two processes implement Succession.
THEOREM ImplementsSuccession == Spec => Promise!Spec
<1>1. Init => Promise!Init
  <2> SUFFICES ASSUME Init PROVE Promise!Init
    OBVIOUS
  <2>1. Phase = "idle" /\ current = 0
    BY DEF Init, Phase
  <2>2. Alive = {}
    BY DEF Init, Alive, Live
  <2> QED
    BY <2>1, <2>2 DEF Promise!Init
<1> QED
  BY <1>1, PromiseStep, Invariance, PTL DEF Spec, Promise!Spec
=============================================================================
