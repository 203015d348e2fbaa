--------------------------- MODULE AgentHostProofs ---------------------------
(***************************************************************************)
(* What holds of the loads and the Agent Hosts for any number of servers   *)
(* that share a path, of requests and of restarts.                         *)
(***************************************************************************)
EXTENDS AgentHost, TLAPS

\* The promise stands for the one call that is not over, and requests wait for
\* nothing else.
LoaderOK(p) ==
  /\ promise[p] # 0 => loads[p][promise[p]] # "unused"
  /\ \A i \in Load : i # promise[p] => loads[p][i] = "unused"
  /\ \A i \in Load : waiters[p][i] # {} => i \in Underway(p)
  /\ catalogue[p] # "lost"
  /\ promise[p] # 0 => catalogue[p] = "module"

\* The call of server p went as far as createServer.
Created(p) == \E i \in Load : loads[p][i] \in {"created", "loaded"}

\* The manager exists only then, has the catalogue, and counts as many restarts
\* as there were failures until it gives up.
ManagerOK(p) ==
  /\ manager[p] # "none" => Created(p) /\ p \in passed
  /\ ~Created(p) => restarts[p] = 0 /\ failures[p] = 0
  /\ manager[p] = "gaveUp" => restarts[p] = MaxRestarts /\ failures[p] = MaxRestarts + 1
  /\ manager[p] \notin {"none", "gaveUp"} => failures[p] = restarts[p]

\* A host that is alive is the one its manager is about.
HostOK(h) ==
  /\ host[h] = "waiting" => h = Current(h[1]) /\ manager[h[1]] = "bootstrapping"
  /\ host[h] \in {"starting", "up", "deaf"} =>
       h = Current(h[1]) /\ manager[h[1]] = "watching" /\ h \in catalogued

SInv ==
  /\ TypeOK
  /\ \A p \in Process : LoaderOK(p) /\ ManagerOK(p)
  /\ \A h \in Host : HostOK(h)

\* Server p went past its probe.
Past(p) ==
  \/ \E i \in Load : loads[p][i] \in {"unlinking", "creating", "created"}
  \/ p \in owned
  \/ manager[p] # "none"

\* One server at most is past its probe, and the path is free until its host
\* listens.
PathOK ==
  /\ \A p, q \in Process : Past(p) /\ Past(q) => p = q
  /\ \A p \in Process : manager[p] \in {"spawning", "bootstrapping"} => bound = Nobody
  /\ \A h \in Host : host[h] = "starting" => bound = Nobody
  /\ \A h \in Host :
       host[h] # "deaf" /\ (host[h] = "up" => bound = h \/ h[1] \in disposed)

-----------------------------------------------------------------------------
\* What is meant by the host of a manager.
LEMMA CurrentIsHost ==
  ASSUME TypeOK, NEW p \in Process
  PROVE  Current(p) \in Host /\ Current(p)[1] = p
BY DEF TypeOK, Host, Current

\* The numbers that stand for calls are not 0, which stands for none.
LEMMA LoadIsNat == Load \subseteq Nat \ {0} /\ Load \subseteq 0 .. MaxLoads
BY MaxLoadsAssumption DEF Load

\* A restart that is scheduled keeps the types of what the manager counts.
LEMMA ScheduleType ==
  ASSUME SInv, NEW p \in Process, manager[p] \notin {"none", "gaveUp"}, ScheduleRestart(p)
  PROVE  /\ manager' \in [Process -> {"none", "unlinking", "spawning", "bootstrapping",
                                      "watching", "backoff", "gaveUp"}]
         /\ passed' \subseteq Process
         /\ restarts' \in [Process -> 0 .. MaxRestarts]
         /\ failures' \in [Process -> 0 .. MaxRestarts + 1]
<1> USE MaxRestartsAssumption DEF SInv, TypeOK, ManagerOK
<1>1. failures[p] = restarts[p] /\ restarts[p] \in 0 .. MaxRestarts
  OBVIOUS
<1>2. failures[p] + 1 \in 0 .. MaxRestarts + 1
  BY <1>1
<1>3. CASE restarts[p] < MaxRestarts
  <2>1. restarts[p] + 1 \in 0 .. MaxRestarts
    BY <1>1, <1>3
  <2> QED
    BY <1>2, <1>3, <2>1 DEF ScheduleRestart
<1>4. CASE ~(restarts[p] < MaxRestarts)
  BY <1>2, <1>4 DEF ScheduleRestart
<1> QED
  BY <1>3, <1>4

\* Every step keeps every variable in its type.
LEMMA TypeStep == SInv /\ [Next]_vars => TypeOK'
<1> SUFFICES ASSUME SInv, [Next]_vars PROVE TypeOK'
  OBVIOUS
<1> USE DEF SInv, TypeOK
<1>1. ASSUME NEW p \in Process, NEW r \in Request, Ask(p, r) PROVE TypeOK'
  <2>1. CASE Join(p, r)
    <3>1. promise[p] \in Load
      BY <2>1, MaxLoadsAssumption DEF Join, Load
    <3>2. waiters' \in [Process -> [Load -> SUBSET Request]]
      BY <2>1, <3>1 DEF Join
    <3>3. UNCHANGED <<disposed, loads, promise, catalogue, owned, manager, passed,
                      restarts, failures, host, catalogued, bound, contested>>
      BY <1>1, <2>1 DEF Ask, Join, managerVars, hostVars
    <3> QED
      BY <3>2, <3>3
  <2>2. ASSUME NEW i \in Load, StartLoad(p, r, i) PROVE TypeOK'
    BY <1>1, <2>2, LoadIsNat DEF Ask, StartLoad, Capture, managerVars, hostVars, LoadState
  <2> QED
    BY <1>1, <2>1, <2>2 DEF Ask
<1>2. ASSUME NEW p \in Process, NEW i \in Load, LoadStep(p, i) PROVE TypeOK'
  <2> USE DEF Go, Answer, managerVars, hostVars, LoadState
  <2>1. CASE Import(p, i)
    BY <1>2, <2>1 DEF LoadStep, Import
  <2>2. CASE ProbeInactive(p, i)
    <3>1. contested' \in BOOLEAN
      BY <2>2 DEF ProbeInactive
    <3> QED
      BY <1>2, <2>2, <3>1 DEF LoadStep, ProbeInactive
  <2>3. CASE ProbeHangs(p, i)
    BY <1>2, <2>3 DEF LoadStep, ProbeHangs
  <2>4. CASE Unlink(p, i)
    BY <1>2, <2>4 DEF LoadStep, Unlink
  <2>5. CASE Create(p, i)
    BY <1>2, <2>5 DEF LoadStep, Create
  <2>6. CASE Resolve(p, i)
    BY <1>2, <2>6 DEF LoadStep, Resolve
  <2>7. CASE LoadFails(p, i)
    <3>1. /\ loads' \in [Process -> [Load -> LoadState]]
          /\ waiters' \in [Process -> [Load -> SUBSET Request]]
      BY <2>7 DEF LoadFails, Reject
    <3>2. promise' \in [Process -> 0 .. MaxLoads]
      BY <2>7, MaxLoadsAssumption DEF LoadFails, Reject
    <3>3. UNCHANGED <<disposed, catalogue, owned, manager, passed, restarts, failures,
                      host, catalogued, bound, contested>>
      BY <1>2, <2>7 DEF LoadStep, LoadFails
    <3> QED
      BY <3>1, <3>2, <3>3
  <2> QED
    BY <1>2, <2>1, <2>2, <2>3, <2>4, <2>5, <2>6, <2>7 DEF LoadStep
<1>3. ASSUME NEW p \in Process, ManagerStep(p) PROVE TypeOK'
  <2> USE DEF Advance, loaderVars, hostVars
  <2>1. CASE StarterUnlinks(p)
    BY <1>3, <2>1 DEF ManagerStep, StarterUnlinks
  <2>2. CASE StarterFails(p)
    BY <1>3, <2>2, ScheduleType DEF ManagerStep, StarterFails
  <2>3. CASE Spawn(p)
    BY <1>3, <2>3, CurrentIsHost DEF ManagerStep, Spawn
  <2>4. CASE Bootstrap(p)
    BY <1>3, <2>4, CurrentIsHost DEF ManagerStep, Bootstrap
  <2>5. CASE BootstrapFails(p)
    BY <1>3, <2>5, ScheduleType, CurrentIsHost DEF ManagerStep, BootstrapFails
  <2>6. CASE BackoffEnds(p)
    BY <1>3, <2>6 DEF ManagerStep, BackoffEnds
  <2> QED
    BY <1>3, <2>1, <2>2, <2>3, <2>4, <2>5, <2>6 DEF ManagerStep
<1>4. ASSUME NEW p \in Process, Dispose(p) PROVE TypeOK'
  BY <1>4 DEF Dispose, HostsEnd, loaderVars
<1>5. ASSUME NEW p \in Process, End(p) PROVE TypeOK'
  BY <1>5, MaxRestartsAssumption, MaxLoadsAssumption DEF End, HostsEnd, LoadState
<1>6. ASSUME NEW h \in Host, Listen(h) PROVE TypeOK'
  BY <1>6 DEF Listen, loaderVars, managerVars
<1>7. ASSUME NEW h \in Host, Exit(h) PROVE TypeOK'
  <2>1. h[1] \in Process
    BY DEF Host
  <2> QED
    BY <1>7, <2>1, ScheduleType DEF Exit, loaderVars
<1>8. CASE UNCHANGED vars
  BY <1>8 DEF vars, loaderVars, managerVars, hostVars
<1> QED
  BY <1>1, <1>2, <1>3, <1>4, <1>5, <1>6, <1>7, <1>8 DEF Next

\* The call that is not over is the one the promise stands for.
LEMMA UnderwayIsPromised ==
  ASSUME SInv, NEW p \in Process, NEW i \in Load, loads[p][i] # "unused"
  PROVE  promise[p] = i /\ promise[p] # 0
BY LoadIsNat DEF SInv, LoaderOK

\* A step leaves every server with one call at most, which is the one that is
\* promised and the one that requests wait for.
LEMMA LoaderStep ==
  ASSUME SInv, [Next]_vars, NEW q \in Process
  PROVE  LoaderOK(q)'
<1> USE DEF SInv, TypeOK, LoaderOK, Underway
<1>1. UNCHANGED loaderVars => LoaderOK(q)'
  BY DEF loaderVars
<1>2. ASSUME NEW p \in Process, NEW r \in Request, Ask(p, r) PROVE LoaderOK(q)'
  <2>1. CASE Join(p, r)
    <3>1. promise[p] \in Load
      BY <2>1, MaxLoadsAssumption DEF Join, Load
    <3>2. promise[p] \in Underway(p)
      BY <1>2, <3>1, <2>1 DEF Ask, Join, Loaded
    <3> QED
      BY <2>1, <3>1, <3>2 DEF Join
  <2>2. ASSUME NEW i \in Load, StartLoad(p, r, i) PROVE LoaderOK(q)'
    <3>1. i # 0 /\ \A j \in Load : loads[p][j] = "unused"
      BY <2>2, LoadIsNat DEF StartLoad
    <3> QED
      BY <2>2, <3>1 DEF StartLoad, Capture
  <2> QED
    BY <1>2, <2>1, <2>2 DEF Ask
<1>3. ASSUME NEW p \in Process, NEW i \in Load, LoadStep(p, i) PROVE LoaderOK(q)'
  <2>1. UNCHANGED catalogue
    BY <1>3 DEF LoadStep
  <2>2. ASSUME NEW from \in LoadState \ {"unused", "loaded"},
               NEW to \in LoadState \ {"unused", "loaded"}, Go(p, i, from, to)
        PROVE  LoaderOK(q)'
    BY <2>1, <2>2, UnderwayIsPromised DEF Go
  <2>3. CASE Import(p, i)
    BY <2>2, <2>3 DEF Import, LoadState
  <2>4. CASE ProbeInactive(p, i)
    BY <2>2, <2>4 DEF ProbeInactive, LoadState
  <2>5. CASE ProbeHangs(p, i)
    BY <2>2, <2>5 DEF ProbeHangs, LoadState
  <2>6. CASE Unlink(p, i)
    BY <2>2, <2>6 DEF Unlink, LoadState
  <2>7. CASE Create(p, i)
    BY <2>2, <2>7 DEF Create, LoadState
  <2>8. CASE Resolve(p, i)
    <3>1. promise[p] = i /\ \A j \in Load : j # i => waiters[p][j] = {}
      BY <2>8, UnderwayIsPromised DEF Resolve
    <3> QED
      BY <2>1, <2>8, <3>1 DEF Resolve, Answer
  <2>9. CASE LoadFails(p, i)
    <3>1. promise[p] = i /\ \A j \in Load : j # i => waiters[p][j] = {}
      BY <2>9, UnderwayIsPromised DEF LoadFails
    <3> QED
      BY <2>1, <2>9, <3>1 DEF LoadFails, Reject, Answer
  <2> QED
    BY <1>3, <2>3, <2>4, <2>5, <2>6, <2>7, <2>8, <2>9 DEF LoadStep
<1>4. ASSUME NEW p \in Process, ManagerStep(p) PROVE LoaderOK(q)'
  BY <1>1, <1>4 DEF ManagerStep
<1>5. ASSUME NEW p \in Process, Dispose(p) PROVE LoaderOK(q)'
  BY <1>1, <1>5 DEF Dispose
<1>6. ASSUME NEW p \in Process, End(p) PROVE LoaderOK(q)'
  BY <1>6 DEF End
<1>7. ASSUME NEW h \in Host, Listen(h) \/ Exit(h) PROVE LoaderOK(q)'
  BY <1>1, <1>7 DEF Listen, Exit
<1>8. CASE UNCHANGED vars
  BY <1>1, <1>8 DEF vars
<1> QED
  BY <1>2, <1>3, <1>4, <1>5, <1>6, <1>7, <1>8 DEF Next

\* What a step of a load does to the manager: nothing, unless it creates it.
LEMMA LoadKeepsManager ==
  ASSUME SInv, NEW p \in Process, NEW i \in Load, LoadStep(p, i), NEW q \in Process
  PROVE  ManagerOK(q)'
<1> USE DEF SInv, TypeOK
<1>1. \A j \in Load : j # i => loads[p][j] = "unused"
  BY LoadIsNat, UnderwayIsPromised
     DEF LoadStep, LoaderOK, Import, ProbeInactive, ProbeHangs, Unlink, Create, Resolve,
         LoadFails, Go
<1>2. /\ UNCHANGED <<manager, passed, restarts, failures>>
      /\ Created(q)' <=> Created(q)
      => ManagerOK(q)'
  BY DEF ManagerOK, Created
<1>3. CASE Create(p, i)
  <2>1. promise[p] # 0 /\ p \in passed'
    BY <1>3, UnderwayIsPromised DEF Create, Go, LoaderOK
  <2>2. ~Created(p) /\ Created(p)'
    BY <1>1, <1>3 DEF Create, Go, Created
  <2>3. CASE q = p
    BY <1>3, <2>1, <2>2, <2>3 DEF Create, ManagerOK
  <2>4. CASE q # p
    <3>1. Created(q)' <=> Created(q)
      BY <1>3, <2>4 DEF Create, Go, Created
    <3> QED
      BY <1>3, <2>4, <3>1 DEF Create, ManagerOK
  <2> QED
    BY <2>3, <2>4
<1>4. CASE ~Create(p, i)
  <2>1. UNCHANGED managerVars
    BY <1>4 DEF LoadStep, Import, ProbeInactive, ProbeHangs, Unlink, Resolve, LoadFails
  <2>2. \E to \in LoadState :
          /\ loads' = [loads EXCEPT ![p][i] = to]
          /\ loads[p][i] \in {"created", "loaded"} <=> to \in {"created", "loaded"}
    BY <1>4 DEF LoadStep, Import, ProbeInactive, ProbeHangs, Unlink, Resolve,
                LoadFails, Go, Reject, LoadState
  <2>3. Created(q)' <=> Created(q)
    BY <2>2 DEF Created
  <2> QED
    BY <1>2, <2>1, <2>3 DEF managerVars
<1> QED
  BY <1>3, <1>4

\* Scheduling a restart, or giving up, keeps the count.
LEMMA ScheduleKeepsManager ==
  ASSUME SInv, NEW p \in Process, manager[p] \notin {"none", "gaveUp"}, ScheduleRestart(p),
         UNCHANGED loads, NEW q \in Process
  PROVE  ManagerOK(q)'
<1>1. failures[p] = restarts[p] /\ restarts[p] \in 0 .. MaxRestarts
  BY DEF SInv, TypeOK, ManagerOK
<1>2. restarts[p] \in Nat /\ restarts[p] <= MaxRestarts
  BY <1>1, MaxRestartsAssumption
<1>3. Created(p)' /\ p \in passed'
  BY DEF SInv, ManagerOK, Created, ScheduleRestart
<1>4. CASE q # p
  BY <1>4 DEF SInv, TypeOK, ManagerOK, Created, ScheduleRestart
<1>5. CASE q = p /\ restarts[p] < MaxRestarts
  <2>1. manager'[p] = "backoff" /\ failures'[p] = restarts'[p]
    BY <1>1, <1>5 DEF SInv, TypeOK, ScheduleRestart
  <2> QED
    BY <1>3, <1>5, <2>1 DEF ManagerOK
<1>6. CASE q = p /\ ~(restarts[p] < MaxRestarts)
  <2>1. restarts[p] = MaxRestarts
    BY <1>2, <1>6, MaxRestartsAssumption
  <2>2. /\ manager'[p] = "gaveUp"
        /\ restarts'[p] = MaxRestarts
        /\ failures'[p] = MaxRestarts + 1
    BY <1>1, <1>6, <2>1 DEF SInv, TypeOK, ScheduleRestart
  <2> QED
    BY <1>3, <1>6, <2>2 DEF ManagerOK
<1> QED
  BY <1>4, <1>5, <1>6

\* Every step keeps what holds of every manager.
LEMMA ManagersStep ==
  ASSUME SInv, [Next]_vars, NEW q \in Process
  PROVE  ManagerOK(q)'
<1> USE DEF SInv, TypeOK
<1>1. UNCHANGED <<loads, managerVars>> => ManagerOK(q)'
  BY DEF ManagerOK, Created, managerVars
<1>2. ASSUME NEW p \in Process, NEW r \in Request, Ask(p, r) PROVE ManagerOK(q)'
  <2>1. Created(q)' <=> Created(q)
    BY <1>2 DEF Ask, Join, StartLoad, Created
  <2> QED
    BY <1>2, <2>1 DEF Ask, ManagerOK, managerVars
<1>3. ASSUME NEW p \in Process, NEW i \in Load, LoadStep(p, i) PROVE ManagerOK(q)'
  BY <1>3, LoadKeepsManager
<1>4. ASSUME NEW p \in Process, ManagerStep(p) PROVE ManagerOK(q)'
  <2>1. UNCHANGED loads
    BY <1>4 DEF ManagerStep, loaderVars
  <2>2. ASSUME NEW from \in {"unlinking", "spawning", "bootstrapping", "backoff"},
               NEW to \in {"unlinking", "spawning", "bootstrapping", "watching"},
               Advance(p, from, to)
        PROVE  ManagerOK(q)'
    BY <2>1, <2>2 DEF Advance, ManagerOK, Created
  <2>3. CASE StarterUnlinks(p)
    BY <2>2, <2>3 DEF StarterUnlinks
  <2>4. CASE StarterFails(p)
    BY <2>1, <2>4, ScheduleKeepsManager DEF StarterFails
  <2>5. CASE Spawn(p)
    BY <2>2, <2>5 DEF Spawn
  <2>6. CASE Bootstrap(p)
    BY <2>2, <2>6 DEF Bootstrap
  <2>7. CASE BootstrapFails(p)
    BY <2>1, <2>7, ScheduleKeepsManager DEF BootstrapFails
  <2>8. CASE BackoffEnds(p)
    BY <2>2, <2>8 DEF BackoffEnds
  <2> QED
    BY <1>4, <2>3, <2>4, <2>5, <2>6, <2>7, <2>8 DEF ManagerStep
<1>5. ASSUME NEW p \in Process, Dispose(p) PROVE ManagerOK(q)'
  BY <1>5 DEF Dispose, ManagerOK, Created, loaderVars
<1>6. ASSUME NEW p \in Process, End(p) PROVE ManagerOK(q)'
  BY <1>6 DEF End, ManagerOK, Created
<1>7. ASSUME NEW h \in Host, Listen(h) PROVE ManagerOK(q)'
  BY <1>1, <1>7 DEF Listen, loaderVars
<1>8. ASSUME NEW h \in Host, Exit(h) PROVE ManagerOK(q)'
  <2>1. h[1] \in Process
    BY DEF Host
  <2> QED
    BY <1>8, <2>1, ScheduleKeepsManager DEF Exit, loaderVars
<1>9. CASE UNCHANGED vars
  BY <1>1, <1>9 DEF vars, loaderVars
<1> QED
  BY <1>2, <1>3, <1>4, <1>5, <1>6, <1>7, <1>8, <1>9 DEF Next

-----------------------------------------------------------------------------
\* A manager that neither starts nor watches a host has none that is alive.
LEMMA NoHostUnwatched ==
  ASSUME SInv, NEW h \in Host, manager[h[1]] \notin {"bootstrapping", "watching"}
  PROVE  host[h] \in {"none", "gone"}
BY DEF SInv, TypeOK, HostOK

\* A step of server p, whose manager had no host that is alive, leaves the hosts
\* of all servers as they should be.
LEMMA UnwatchedKeepsHosts ==
  ASSUME SInv, NEW p \in Process, manager[p] \notin {"bootstrapping", "watching"},
         UNCHANGED <<host, catalogued>>,
         \A q \in Process \ {p} : manager'[q] = manager[q] /\ restarts'[q] = restarts[q],
         NEW h \in Host
  PROVE  HostOK(h)'
<1>1. h[1] \in Process
  BY DEF Host
<1>2. CASE h[1] = p
  BY <1>2, NoHostUnwatched DEF HostOK
<1>3. CASE h[1] # p
  BY <1>1, <1>3 DEF SInv, HostOK, Current
<1> QED
  BY <1>2, <1>3

\* A step of the manager of server p keeps what holds of the hosts.
LEMMA ManagerKeepsHosts ==
  ASSUME SInv, NEW p \in Process, ManagerStep(p), NEW h \in Host
  PROVE  HostOK(h)'
<1> USE DEF SInv, TypeOK
<1>1. h[1] \in Process /\ Current(p) \in Host /\ Current(p)[1] = p
  BY CurrentIsHost DEF Host
<1>2. \A q \in Process \ {p} : manager'[q] = manager[q] /\ restarts'[q] = restarts[q]
  BY DEF ManagerStep, StarterUnlinks, StarterFails, Spawn, Bootstrap, BootstrapFails,
         BackoffEnds, Advance, ScheduleRestart
<1>3. CASE StarterUnlinks(p) \/ StarterFails(p) \/ BackoffEnds(p)
  BY <1>2, <1>3, UnwatchedKeepsHosts
     DEF StarterUnlinks, StarterFails, BackoffEnds, Advance, hostVars
<1>4. CASE Spawn(p)
  <2>1. p \in passed
    BY <1>4 DEF Spawn, Advance, ManagerOK
  <2>2. /\ host' = [host EXCEPT ![Current(p)] = "waiting"]
        /\ manager'[p] = "bootstrapping"
        /\ UNCHANGED <<restarts, catalogued>>
    BY <1>4, <2>1 DEF Spawn, Advance
  <2>3. CASE h = Current(p)
    BY <1>1, <2>2, <2>3 DEF HostOK, Current
  <2>4. CASE h # Current(p) /\ h[1] = p
    <3>1. host'[h] \in {"none", "gone"}
      BY <1>4, <2>2, <2>4, NoHostUnwatched DEF Spawn, Advance
    <3> QED
      BY <3>1 DEF HostOK
  <2>5. CASE h[1] # p
    <3>1. host'[h] = host[h]
      BY <1>1, <2>2, <2>5
    <3> QED
      BY <1>1, <1>2, <2>2, <2>5, <3>1 DEF HostOK, Current
  <2> QED
    BY <2>3, <2>4, <2>5
<1>5. CASE Bootstrap(p)
  <2>1. /\ host' = [host EXCEPT ![Current(p)] = "starting"]
        /\ manager[p] = "bootstrapping" /\ manager'[p] = "watching"
        /\ catalogued' = catalogued \union {Current(p)}
        /\ UNCHANGED restarts
    BY <1>5 DEF Bootstrap, Advance
  <2>2. CASE h = Current(p)
    BY <1>1, <2>1, <2>2 DEF HostOK, Current
  <2>3. CASE h # Current(p)
    <3>1. host'[h] = host[h]
      BY <1>1, <2>1, <2>3
    <3> QED
      BY <1>1, <1>2, <2>1, <2>3, <3>1 DEF HostOK, Current
  <2> QED
    BY <2>2, <2>3
<1>6. CASE BootstrapFails(p)
  <2>1. /\ host' = [host EXCEPT ![Current(p)] = "gone"]
        /\ manager[p] = "bootstrapping"
        /\ UNCHANGED catalogued
    BY <1>6 DEF BootstrapFails
  <2>2. CASE h = Current(p)
    BY <1>1, <2>1, <2>2 DEF HostOK
  <2>3. CASE h # Current(p)
    <3>1. host'[h] = host[h]
      BY <1>1, <2>1, <2>3
    <3> QED
      BY <1>1, <1>2, <2>1, <2>3, <3>1 DEF HostOK, Current
  <2> QED
    BY <2>2, <2>3
<1> QED
  BY <1>3, <1>4, <1>5, <1>6 DEF ManagerStep

\* Every step keeps what holds of every host.
LEMMA HostsStep ==
  ASSUME SInv, [Next]_vars, NEW h \in Host
  PROVE  HostOK(h)'
<1> USE DEF SInv, TypeOK
<1>0. h[1] \in Process
  BY DEF Host
<1>1. UNCHANGED <<managerVars, hostVars>> => HostOK(h)'
  BY DEF HostOK, Current, managerVars, hostVars
<1>2. ASSUME NEW p \in Process, NEW r \in Request, Ask(p, r) PROVE HostOK(h)'
  BY <1>1, <1>2 DEF Ask
<1>3. ASSUME NEW p \in Process, NEW i \in Load, LoadStep(p, i) PROVE HostOK(h)'
  <2>1. CASE Create(p, i)
    <3>1. ~Created(p)
      BY <2>1, UnderwayIsPromised DEF Create, Go, Created
    <3>2. manager[p] = "none"
      BY <3>1 DEF ManagerOK
    <3> QED
      BY <2>1, <3>2, UnwatchedKeepsHosts DEF Create, hostVars
  <2>2. CASE ~Create(p, i)
    BY <1>1, <1>3, <2>2
       DEF LoadStep, Import, ProbeInactive, ProbeHangs, Unlink, Resolve, LoadFails
  <2> QED
    BY <2>1, <2>2
<1>4. ASSUME NEW p \in Process, ManagerStep(p) PROVE HostOK(h)'
  BY <1>4, ManagerKeepsHosts
<1>5. ASSUME NEW p \in Process, Dispose(p) PROVE HostOK(h)'
  <2>1. CASE Loaded(p)
    BY <1>0, <1>5, <2>1 DEF Dispose, HostsEnd, HostOK, Current
  <2>2. CASE ~Loaded(p)
    BY <1>1, <1>5, <2>2 DEF Dispose, managerVars, hostVars
  <2> QED
    BY <2>1, <2>2
<1>6. ASSUME NEW p \in Process, End(p) PROVE HostOK(h)'
  BY <1>0, <1>6 DEF End, HostsEnd, HostOK, Current
<1>7. ASSUME NEW g \in Host, Listen(g) PROVE HostOK(h)'
  BY <1>7 DEF Listen, HostOK, Current, managerVars
<1>8. ASSUME NEW g \in Host, Exit(g) PROVE HostOK(h)'
  <2>1. g[1] \in Process /\ g = Current(g[1])
    BY <1>8 DEF Exit, HostOK, Host
  <2>2. CASE h = g
    BY <1>8, <2>2 DEF Exit, HostOK
  <2>3. CASE h # g /\ h[1] = g[1]
    <3>1. host[h] \in {"none", "gone"}
      BY <1>8, <2>1, <2>3 DEF Exit, HostOK
    <3> QED
      BY <1>8, <2>3, <3>1 DEF Exit, HostOK
  <2>4. CASE h[1] # g[1]
    <3>1. manager'[h[1]] = manager[h[1]] /\ restarts'[h[1]] = restarts[h[1]]
      BY <1>0, <1>8, <2>1, <2>4 DEF Exit, ScheduleRestart
    <3> QED
      BY <1>0, <1>8, <2>4, <3>1 DEF Exit, HostOK, Current
  <2> QED
    BY <2>2, <2>3, <2>4
<1>9. CASE UNCHANGED vars
  BY <1>1, <1>9 DEF vars
<1> QED
  BY <1>2, <1>3, <1>4, <1>5, <1>6, <1>7, <1>8, <1>9 DEF Next

-----------------------------------------------------------------------------
\* The inductive invariant.
THEOREM StructureHolds == Spec => []SInv
<1>1. Init => SInv
  <2> SUFFICES ASSUME Init PROVE SInv
    OBVIOUS
  <2>1. TypeOK
    <3>1. /\ loads \in [Process -> [Load -> LoadState]]
          /\ waiters \in [Process -> [Load -> SUBSET Request]]
      BY DEF Init, LoadState
    <3>2. /\ promise \in [Process -> 0 .. MaxLoads]
          /\ restarts \in [Process -> 0 .. MaxRestarts]
          /\ failures \in [Process -> 0 .. MaxRestarts + 1]
      BY MaxLoadsAssumption, MaxRestartsAssumption DEF Init
    <3>3. contested \in BOOLEAN
      BY DEF Init
    <3> QED
      BY <3>1, <3>2, <3>3 DEF Init, TypeOK
  <2>2. ASSUME NEW p \in Process PROVE LoaderOK(p) /\ ManagerOK(p)
    BY <2>2 DEF Init, LoaderOK, ManagerOK, Created
  <2>3. ASSUME NEW h \in Host PROVE HostOK(h)
    BY <2>3 DEF Init, HostOK
  <2> QED
    BY <2>1, <2>2, <2>3 DEF SInv
<1>2. SInv /\ [Next]_vars => SInv'
  <2> SUFFICES ASSUME SInv, [Next]_vars PROVE SInv'
    OBVIOUS
  <2>1. TypeOK'
    BY TypeStep
  <2>2. \A p \in Process : (LoaderOK(p) /\ ManagerOK(p))'
    BY LoaderStep, ManagersStep
  <2>3. \A h \in Host : HostOK(h)'
    BY HostsStep
  <2> QED
    BY <2>1, <2>2, <2>3 DEF SInv
<1> QED
  BY <1>1, <1>2, PTL DEF Spec

\* The variables of the loads, the managers and the hosts keep their types; the
\* restarts and the failures keep their bounds.
THEOREM TypeCorrect == Spec => []TypeOK
<1>1. SInv => TypeOK
  BY DEF SInv
<1> QED
  BY <1>1, StructureHolds, PTL

\* A server loads VS Code once, and never in two calls of loadVSCode at a time.
THEOREM OneLoad == Spec => []OneLoadAtATime
<1>1. SInv => OneLoadAtATime
  <2> SUFFICES ASSUME SInv, NEW p \in Process
               PROVE  /\ \A i, j \in Underway(p) : i = j
                      /\ Loaded(p) => Underway(p) = {}
    BY DEF OneLoadAtATime
  <2> QED
    BY UnderwayIsPromised DEF Underway, Loaded
<1> QED
  BY <1>1, StructureHolds, PTL

\* No request waits for a call of loadVSCode that has settled.
THEOREM WaitsAreCurrent == Spec => []NoSettledWait
<1>1. SInv => NoSettledWait
  BY DEF SInv, LoaderOK, NoSettledWait
<1> QED
  BY <1>1, StructureHolds, PTL

\* A host that has started its services received the catalogue of models,
\* whatever failed before.
THEOREM CatalogueArrives == Spec => []EveryHostHasCatalogue
<1>1. SInv => EveryHostHasCatalogue
  BY DEF SInv, HostOK, EveryHostHasCatalogue
<1> QED
  BY <1>1, StructureHolds, PTL

\* A server has one host at most.
THEOREM OneHost == Spec => []OneHostPerServer
<1>1. SInv => OneHostPerServer
  <2> SUFFICES ASSUME SInv, NEW g \in Host, NEW h \in Host,
                      Alive(g), Alive(h), g[1] = h[1]
               PROVE  g = h
    BY DEF OneHostPerServer
  <2>1. g = Current(g[1]) /\ h = Current(h[1])
    BY DEF SInv, HostOK, Alive
  <2> QED
    BY <2>1
<1> QED
  BY <1>1, StructureHolds, PTL

\* The manager gives up after MaxRestarts restarts, neither earlier nor later.
THEOREM GivesUpInTime == Spec => []GivesUpAfterAllRestarts
<1>1. SInv => GivesUpAfterAllRestarts
  <2> SUFFICES ASSUME SInv, NEW p \in Process, manager[p] # "none"
               PROVE  manager[p] = "gaveUp" <=> failures[p] = MaxRestarts + 1
    BY DEF GivesUpAfterAllRestarts
  <2>1. manager[p] = "gaveUp" => failures[p] = MaxRestarts + 1
    BY DEF SInv, ManagerOK
  <2>2. CASE manager[p] # "gaveUp"
    <3>1. failures[p] = restarts[p] /\ restarts[p] \in 0 .. MaxRestarts
      BY <2>2 DEF SInv, TypeOK, ManagerOK
    <3> QED
      BY <2>2, <3>1, MaxRestartsAssumption
  <2> QED
    BY <2>1, <2>2
<1> QED
  BY <1>1, StructureHolds, PTL

-----------------------------------------------------------------------------
\* A host that is alive belongs to a server past its probe, and is the one its
\* manager is about.
LEMMA AliveIsPast ==
  ASSUME SInv, NEW h \in Host, Alive(h)
  PROVE  /\ h[1] \in Process /\ Past(h[1]) /\ h = Current(h[1])
         /\ manager[h[1]] \in {"bootstrapping", "watching"}
BY DEF SInv, HostOK, Alive, Past, Host

\* A server gets past its probe in no other step than the probe.
LEMMA OnlyProbesPass ==
  ASSUME SInv, [Next]_vars, NEW q \in Process, Past(q)', ~Past(q)
  PROVE  \E i \in Load : ProbeInactive(q, i)
<1> USE DEF SInv, TypeOK
<1>1. UNCHANGED <<loads, owned, manager>> => FALSE
  BY DEF Past
<1>2. ASSUME NEW p \in Process, NEW r \in Request, Ask(p, r) PROVE FALSE
  <2>1. UNCHANGED <<owned, manager>>
    BY <1>2 DEF Ask, managerVars
  <2>2. CASE Join(p, r)
    BY <1>1, <2>1, <2>2 DEF Join
  <2>3. ASSUME NEW i \in Load, StartLoad(p, r, i) PROVE FALSE
    BY <2>1, <2>3 DEF StartLoad, Past
  <2> QED
    BY <1>2, <2>2, <2>3 DEF Ask
<1>3. ASSUME NEW p \in Process, NEW i \in Load, LoadStep(p, i), ~ProbeInactive(p, i)
      PROVE  FALSE
  <2>1. ASSUME NEW to \in {"probing", "hung"}, loads' = [loads EXCEPT ![p][i] = to],
               UNCHANGED <<owned, manager>>
        PROVE  FALSE
    BY <2>1 DEF Past
  <2>2. CASE Unlink(p, i)
    BY <2>2 DEF Unlink, Go, Past, managerVars
  <2>3. CASE Create(p, i)
    BY <2>3 DEF Create, Go, Past
  <2>4. CASE Resolve(p, i)
    BY <2>4 DEF Resolve, Past, managerVars
  <2>5. CASE LoadFails(p, i)
    BY <2>5 DEF LoadFails, Reject, Past, managerVars
  <2>6. CASE Import(p, i)
    BY <2>1, <2>6 DEF Import, Go, managerVars
  <2>7. CASE ProbeHangs(p, i)
    BY <2>1, <2>7 DEF ProbeHangs, Go, managerVars
  <2> QED
    BY <1>3, <2>2, <2>3, <2>4, <2>5, <2>6, <2>7 DEF LoadStep
<1>4. ASSUME NEW p \in Process, NEW i \in Load, ProbeInactive(p, i) PROVE p = q
  BY <1>4 DEF ProbeInactive, Go, Past, managerVars
<1>5. ASSUME NEW p \in Process, ManagerStep(p) PROVE FALSE
  <2>1. manager[p] # "none" /\ UNCHANGED <<loads, owned>>
    BY <1>5 DEF ManagerStep, StarterUnlinks, StarterFails, Spawn, Bootstrap,
                BootstrapFails, BackoffEnds, Advance, loaderVars
  <2>2. \A o \in Process \ {p} : manager'[o] = manager[o]
    BY <1>5 DEF ManagerStep, StarterUnlinks, StarterFails, Spawn, Bootstrap,
                BootstrapFails, BackoffEnds, Advance, ScheduleRestart
  <2> QED
    BY <2>1, <2>2 DEF Past
<1>6. ASSUME NEW p \in Process, Dispose(p) PROVE FALSE
  BY <1>6 DEF Dispose, Past, loaderVars
<1>7. ASSUME NEW p \in Process, End(p) PROVE FALSE
  BY <1>7 DEF End, Past
<1>8. ASSUME NEW h \in Host, Listen(h) PROVE FALSE
  BY <1>1, <1>8 DEF Listen, loaderVars, managerVars
<1>9. ASSUME NEW h \in Host, Exit(h) PROVE FALSE
  <2>1. h[1] \in Process
    BY DEF Host
  <2> QED
    BY <1>9, <2>1 DEF Exit, ScheduleRestart, Past, loaderVars
<1>10. CASE UNCHANGED vars
  BY <1>1, <1>10 DEF vars, loaderVars, managerVars
<1> QED
  BY <1>2, <1>3, <1>4, <1>5, <1>6, <1>7, <1>8, <1>9, <1>10 DEF Next

\* A path that was contested remains so.
LEMMA ContestedStays ==
  ASSUME [Next]_vars, ~contested'
  PROVE  ~contested
BY DEF Next, vars, Ask, LoadStep, Import, ProbeInactive, ProbeHangs, Unlink, Create,
       Resolve, LoadFails, ManagerStep, Dispose, End, Listen, Exit

\* One server at most is past its probe as long as nobody passes it while
\* another one claims the path.
LEMMA OnePast ==
  ASSUME SInv, [Next]_vars, PathOK, ~contested',
         NEW p \in Process, NEW q \in Process, Past(p)', Past(q)'
  PROVE  p = q
<1>1. ASSUME NEW a \in Process, NEW b \in Process, a # b, ~Past(a), Past(b) \/ Past(b)',
             Past(a)'
      PROVE  FALSE
  <2>1. PICK i \in Load : ProbeInactive(a, i)
    BY <1>1, OnlyProbesPass
  <2>2. ~Claims(b) /\ ~Listens(bound)
    BY <1>1, <2>1 DEF ProbeInactive
  <2>3. ~Past(b)
    BY <2>2 DEF Claims, Past
  <2>4. \E j \in Load : ProbeInactive(b, j)
    BY <1>1, <2>3, OnlyProbesPass
  <2> QED
    BY <1>1, <2>1, <2>4 DEF ProbeInactive, Go, SInv, TypeOK, LoadState
<1> QED
  BY <1>1 DEF PathOK


\* The path stays free for the host of the server that is past its probe, and a
\* host that listens keeps it.
LEMMA PathStep ==
  ASSUME SInv, SInv', [Next]_vars, PathOK, ~contested'
  PROVE  PathOK'
<1> USE DEF SInv, TypeOK
<1>1. \A p, q \in Process : Past(p)' /\ Past(q)' => p = q
  BY OnePast
\* What the three remaining conjuncts say, apart from who is past the probe.
<1> DEFINE Free ==
      /\ \A p \in Process : manager[p] \in {"spawning", "bootstrapping"} => bound = Nobody
      /\ \A h \in Host : host[h] = "starting" => bound = Nobody
      /\ \A h \in Host :
           host[h] # "deaf" /\ (host[h] = "up" => bound = h \/ h[1] \in disposed)
<1>2. Free
  BY DEF PathOK
<1>3. SUFFICES Free'
  BY <1>1 DEF PathOK
<1>4. UNCHANGED <<manager, host, bound, disposed>> => Free'
  BY <1>2
\* Removing the socket harms nobody when no host of another server is alive.
<1>5. ASSUME NEW p \in Process, Past(p), bound' = Nobody, UNCHANGED host,
             manager[p] \notin {"bootstrapping", "watching"}
      PROVE  Free'
  <2>1. ASSUME NEW h \in Host PROVE ~Alive(h)
    BY <1>5, <2>1, AliveIsPast DEF PathOK
  <2> QED
    BY <1>5, <2>1 DEF Alive
<1>6. ASSUME NEW p \in Process, NEW r \in Request, Ask(p, r) PROVE Free'
  BY <1>4, <1>6 DEF Ask, managerVars, hostVars
<1>7. ASSUME NEW p \in Process, NEW i \in Load, LoadStep(p, i) PROVE Free'
  <2>1. CASE Unlink(p, i)
    <3>1. Past(p) /\ ~Created(p)
      <4>1. loads[p][i] = "unlinking"
        BY <2>1 DEF Unlink, Go
      <4>2. \A j \in Load : j # i => loads[p][j] = "unused"
        BY <4>1, UnderwayIsPromised
      <4> QED
        BY <4>1, <4>2 DEF Past, Created
    <3>2. manager[p] = "none"
      BY <3>1 DEF ManagerOK
    <3> QED
      BY <1>5, <2>1, <3>1, <3>2 DEF Unlink, hostVars
  <2>2. CASE Create(p, i)
    BY <1>2, <2>2, <1>7 DEF Create, hostVars, LoadStep
  <2>3. CASE ~Unlink(p, i) /\ ~Create(p, i)
    BY <1>4, <1>7, <2>3
       DEF LoadStep, Import, ProbeInactive, ProbeHangs, Resolve, LoadFails,
           managerVars, hostVars
  <2> QED
    BY <2>1, <2>2, <2>3
<1>8. ASSUME NEW p \in Process, ManagerStep(p) PROVE Free'
  <2>1. Past(p) /\ UNCHANGED disposed
    BY <1>8 DEF ManagerStep, StarterUnlinks, StarterFails, Spawn, Bootstrap,
                BootstrapFails, BackoffEnds, Advance, Past, ManagerOK
  <2>2. CASE StarterUnlinks(p)
    BY <1>5, <2>1, <2>2 DEF StarterUnlinks, Advance, hostVars
  <2>3. CASE StarterFails(p) \/ BackoffEnds(p)
    BY <1>2, <2>1, <2>3 DEF StarterFails, BackoffEnds, Advance, ScheduleRestart, hostVars
  <2>4. CASE Spawn(p)
    <3>1. p \in passed /\ Current(p) \in Host /\ bound = Nobody
      BY <1>2, <2>4, CurrentIsHost DEF Spawn, Advance, ManagerOK
    <3>2. host' = [host EXCEPT ![Current(p)] = "waiting"] /\ bound' = Nobody
      BY <2>4, <3>1 DEF Spawn
    <3> QED
      BY <1>2, <2>1, <3>1, <3>2
  <2>5. CASE Bootstrap(p)
    <3>1. Current(p) \in Host /\ bound = Nobody
      BY <1>2, <2>5, CurrentIsHost DEF Bootstrap, Advance
    <3>2. host' = [host EXCEPT ![Current(p)] = "starting"] /\ bound' = Nobody
      BY <2>5, <3>1 DEF Bootstrap
    <3> QED
      BY <1>2, <2>1, <3>1, <3>2
  <2>6. CASE BootstrapFails(p)
    BY <1>2, <2>1, <2>6 DEF BootstrapFails, ScheduleRestart
  <2> QED
    BY <1>8, <2>2, <2>3, <2>4, <2>5, <2>6 DEF ManagerStep
<1>9. ASSUME NEW p \in Process, Dispose(p) PROVE Free'
  <2>1. ASSUME NEW h \in Host
        PROVE  /\ host'[h] \in {host[h], "gone"}
               /\ host[h] = "up" => bound' = h \/ h[1] \in disposed'
    <3>1. p \in owned /\ host[h] = "up" => h[1] = p
      BY AliveIsPast DEF Alive, PathOK, Past
    <3> QED
      BY <1>2, <1>9, <2>1, <3>1 DEF Dispose, HostsEnd
  <2>2. \A q \in Process : manager'[q] \in {manager[q], "none"}
    BY <1>9 DEF Dispose
  <2>3. bound' \in {bound, Nobody}
    BY <1>9 DEF Dispose
  <2> QED
    BY <1>2, <2>1, <2>2, <2>3
<1>10. ASSUME NEW p \in Process, End(p) PROVE Free'
  BY <1>2, <1>10 DEF End, HostsEnd
<1>11. ASSUME NEW g \in Host, Listen(g) PROVE Free'
  <2>1. bound = Nobody /\ host' = [host EXCEPT ![g] = "up"] /\ bound' = g
    BY <1>2, <1>11 DEF Listen
  <2>2. ASSUME NEW h \in Host, Alive(h) PROVE h = g
    <3>1. Alive(g)
      BY <1>11 DEF Listen, Alive
    <3>2. Past(g[1]) /\ g[1] \in Process /\ g = Current(g[1])
      BY <3>1, AliveIsPast
    <3>3. Past(h[1]) /\ h[1] \in Process /\ h = Current(h[1])
      BY <2>2, AliveIsPast
    <3> QED
      BY <3>2, <3>3 DEF PathOK
  <2>3. \A q \in Process : manager[q] \notin {"spawning", "bootstrapping"}
    <3>1. manager[g[1]] = "watching" /\ Past(g[1]) /\ g[1] \in Process
      BY <1>11, AliveIsPast DEF Listen, Alive, HostOK
    <3> QED
      BY <3>1 DEF PathOK, Past
  <2> QED
    BY <1>2, <1>11, <2>1, <2>2, <2>3 DEF Listen, managerVars, Alive
<1>12. ASSUME NEW g \in Host, Exit(g) PROVE Free'
  BY <1>2, <1>12 DEF Exit, ScheduleRestart
<1>13. CASE UNCHANGED vars
  BY <1>4, <1>13 DEF vars, managerVars, hostVars
<1> QED
  BY <1>6, <1>7, <1>8, <1>9, <1>10, <1>11, <1>12, <1>13 DEF Next

\* As long as no server found the path free while another one was about to use
\* it, every host that listens can be reached there, unless its server is about
\* to end.
THEOREM HostReachable == Spec => []UncontestedHostIsReachable
<1>1. Init => (~contested => PathOK)
  BY DEF Init, PathOK, Past
<1>2. SInv /\ SInv' /\ [Next]_vars /\ (~contested => PathOK) => (~contested => PathOK)'
  BY ContestedStays, PathStep
<1>3. (~contested => PathOK) => UncontestedHostIsReachable
  BY DEF PathOK, UncontestedHostIsReachable
<1> QED
  BY <1>1, <1>2, <1>3, StructureHolds, PTL DEF Spec

=============================================================================
