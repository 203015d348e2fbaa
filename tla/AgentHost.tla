------------------------------ MODULE AgentHost ------------------------------
(***************************************************************************)
(* How a server loads VS Code on the first request that needs it, and the  *)
(* Agent Host that VS Code then runs as a child process, listening on a    *)
(* socket whose path depends on the user data directory alone.  Several    *)
(* servers may share that directory, and so the path.                      *)
(*                                                                         *)
(* A request finds the server loaded, joins the load under way, or starts  *)
(* one (ensureVSCodeLoaded).  A load takes the catalogue of models out of  *)
(* the arguments, probes the socket, removes it when nobody answers, and   *)
(* creates the VS Code server, whose manager starts the host: it removes   *)
(* the socket again, spawns the host, hands it the catalogue, and starts a *)
(* new one after a delay when it exits, a limited number of times.         *)
(* Everything is modelled for Linux, where the host has a socket.          *)
(***************************************************************************)
EXTENDS Naturals

CONSTANTS
  Process,      \* servers with the same user data directory
  Request,      \* requests that need VS Code
  To,           \* the server each request is sent to
  MaxLoads,     \* bounds the calls of loadVSCode in progress, of each server
  MaxRestarts,  \* Constants.MaxRestarts, 5 in the code
  Nobody        \* the path does not exist

ASSUME ToAssumption == To \in [Request -> Process]
ASSUME MaxLoadsAssumption == MaxLoads \in Nat \ {0}
ASSUME MaxRestartsAssumption == MaxRestarts \in Nat

Load == 1 .. MaxLoads

\* The hosts a server ever spawns, told apart by the restarts before them.
Host == Process \X (0 .. MaxRestarts)

ASSUME NobodyAssumption == Nobody \notin Host

VARIABLES
  disposed,    \* the servers whose routes were disposed of: they are about to end
  loads,       \* how far each call of loadVSCode is, "unused" when it is over
  promise,     \* vscodeServerPromise: the call it stands for, 0 when undefined
  waiters,     \* the requests that wait for each call
  catalogue,   \* where the configuration of the models is
  owned,       \* ownedAgentHostSocketPath is set
  manager,     \* what the manager of the host is about
  passed,      \* the manager's starter was given the catalogue
  restarts,    \* _restartCount
  host,        \* how far each host is
  catalogued,  \* the hosts that received the catalogue
  bound,       \* the host that bound the file at the path, or Nobody
  failures,    \* history: failed starts and exits the manager has seen
  contested    \* history: a path was found free that another server was about to use

loaderVars == <<loads, promise, waiters, catalogue>>
managerVars == <<manager, passed, restarts, failures>>
hostVars == <<host, catalogued>>
vars == <<disposed, loaderVars, owned, managerVars, hostVars, bound, contested>>

LoadState == {"unused", "importing", "probing", "hung", "unlinking", "creating",
              "created", "loaded"}

TypeOK ==
  /\ disposed \subseteq Process
  /\ loads \in [Process -> [Load -> LoadState]]
  /\ promise \in [Process -> 0 .. MaxLoads]
  /\ waiters \in [Process -> [Load -> SUBSET Request]]
  /\ catalogue \in [Process -> {"args", "module", "lost"}]
  /\ owned \subseteq Process
  /\ manager \in [Process -> {"none", "unlinking", "spawning", "bootstrapping",
                              "watching", "backoff", "gaveUp"}]
  /\ passed \subseteq Process
  /\ restarts \in [Process -> 0 .. MaxRestarts]
  /\ host \in [Host -> {"none", "waiting", "starting", "up", "deaf", "gone"}]
  /\ catalogued \subseteq Host
  /\ bound \in Host \union {Nobody}
  /\ failures \in [Process -> 0 .. MaxRestarts + 1]
  /\ contested \in BOOLEAN

Init ==
  /\ disposed = {}
  /\ loads = [p \in Process |-> [i \in Load |-> "unused"]]
  /\ promise = [p \in Process |-> 0]
  /\ waiters = [p \in Process |-> [i \in Load |-> {}]]
  /\ catalogue = [p \in Process |-> "args"]
  /\ owned = {}
  /\ manager = [p \in Process |-> "none"]
  /\ passed = {}
  /\ restarts = [p \in Process |-> 0]
  /\ host = [h \in Host |-> "none"]
  /\ catalogued = {}
  /\ bound = Nobody
  /\ failures = [p \in Process |-> 0]
  /\ contested = FALSE

-----------------------------------------------------------------------------
(* Requests: ensureVSCodeLoaded. *)

\* vscodeServer is defined.
Loaded(p) == \E i \in Load : loads[p][i] = "loaded"

Waiting(p, r) == \E i \in Load : r \in waiters[p][i]

\* Faulty variant: every load takes the catalogue out of the arguments.
CaptureAgain(p) ==
  catalogue' = [catalogue EXCEPT ![p] = IF @ = "args" THEN "module" ELSE "lost"]

\* The first load takes the catalogue out of the arguments, and later ones
\* find it where the first one put it.
Capture(p) ==
  catalogue' = [catalogue EXCEPT ![p] = IF @ = "args" THEN "module" ELSE @]

\* A request waits for the load under way, if there is one.
Join(p, r) ==
  /\ promise[p] # 0
  /\ waiters' = [waiters EXCEPT ![p][promise[p]] = @ \union {r}]
  /\ UNCHANGED <<loads, promise, catalogue>>

\* Faulty variant: a load is started though one is under way.
StartAnotherLoad(p, r, i) ==
  /\ loads[p][i] = "unused"
  /\ \A j \in Load : j < i => loads[p][j] # "unused"
  /\ loads' = [loads EXCEPT ![p][i] = "importing"]
  /\ promise' = [promise EXCEPT ![p] = i]
  /\ waiters' = [waiters EXCEPT ![p][i] = {r}]
  /\ Capture(p)

\* It starts one otherwise.
StartLoad(p, r, i) ==
  /\ promise[p] = 0
  /\ loads[p][i] = "unused"
  /\ \A j \in Load : j < i => loads[p][j] # "unused"
  /\ loads' = [loads EXCEPT ![p][i] = "importing"]
  /\ promise' = [promise EXCEPT ![p] = i]
  /\ waiters' = [waiters EXCEPT ![p][i] = {r}]
  /\ Capture(p)

\* Nothing changes for a request that finds VS Code loaded: it is passed on.
Ask(p, r) ==
  /\ To[r] = p
  /\ ~Loaded(p)
  /\ ~Waiting(p, r)
  /\ Join(p, r) \/ \E i \in Load : StartLoad(p, r, i)
  /\ UNCHANGED <<disposed, owned, managerVars, hostVars, bound, contested>>

\* All requests that wait for a call continue when it settles.
Answer(p, i) == waiters' = [waiters EXCEPT ![p][i] = {}]

\* Faulty variant: the promise of the load that failed is kept.
RejectForGood(p, i) ==
  /\ loads' = [loads EXCEPT ![p][i] = "unused"]
  /\ Answer(p, i)
  /\ UNCHANGED promise

\* The call rejects: the requests get the error and the promise is unset, so
\* that the next request tries again.
Reject(p, i) ==
  /\ loads' = [loads EXCEPT ![p][i] = "unused"]
  /\ promise' = [promise EXCEPT ![p] = 0]
  /\ Answer(p, i)

-----------------------------------------------------------------------------
(* One call of loadVSCode, a step for each promise it awaits. *)

Go(p, i, from, to) ==
  /\ loads[p][i] = from
  /\ loads' = [loads EXCEPT ![p][i] = to]
  /\ UNCHANGED <<promise, waiters>>

\* server-main.js is imported and the directory of the socket made.
Import(p, i) ==
  /\ Go(p, i, "importing", "probing")
  /\ UNCHANGED <<owned, managerVars, hostVars, bound, contested>>

Listens(h) == h \in Host /\ host[h] = "up"

\* Server q went past its probe and no host of it can be reached (yet).
Claims(q) ==
  /\ \/ \E i \in Load : loads[q][i] \in {"unlinking", "creating", "created"}
     \/ q \in owned
     \/ manager[q] # "none"
  /\ ~(Listens(bound) /\ bound[1] = q)

\* Faulty variant: a connection that opens does not count.
ProbeIgnored(p, i) ==
  /\ Go(p, i, "probing", "unlinking")
  /\ contested' = (contested \/ \E q \in Process \ {p} : Claims(q))
  /\ UNCHANGED <<owned, managerVars, hostVars, bound>>

\* connect fails with ENOENT or ECONNREFUSED: nobody is listening.
ProbeInactive(p, i) ==
  /\ Go(p, i, "probing", "unlinking")
  /\ ~Listens(bound)
  /\ contested' = (contested \/ \E q \in Process \ {p} : Claims(q))
  /\ UNCHANGED <<owned, managerVars, hostVars, bound>>

\* A host that is too busy to accept: the connection neither opens nor fails.
ProbeHangs(p, i) ==
  /\ Go(p, i, "probing", "hung")
  /\ Listens(bound)
  /\ UNCHANGED <<owned, managerVars, hostVars, bound, contested>>

\* The socket is removed, whoever made it, and the path is this server's.
Unlink(p, i) ==
  /\ Go(p, i, "unlinking", "creating")
  /\ bound' = Nobody
  /\ owned' = owned \union {p}
  /\ UNCHANGED <<managerVars, hostVars, contested>>

\* createServer makes the starter and the manager, which starts the host.
Create(p, i) ==
  /\ Go(p, i, "creating", "created")
  /\ manager' = [manager EXCEPT ![p] = "unlinking"]
  /\ passed' = IF catalogue[p] = "module" THEN passed \union {p} ELSE passed
  /\ UNCHANGED <<owned, restarts, failures, hostVars, bound, contested>>

\* createServer resolves.
Resolve(p, i) ==
  /\ loads[p][i] = "created"
  /\ loads' = [loads EXCEPT ![p][i] = "loaded"]
  /\ Answer(p, i)
  /\ UNCHANGED <<promise, owned, managerVars, hostVars, bound, contested>>

\* Faulty variant: the probe has no timer.
LoadFailsUnlessHung(p, i) ==
  /\ \/ loads[p][i] \in {"importing", "unlinking", "creating"}
     \/ loads[p][i] = "probing" /\ bound # Nobody
  /\ Reject(p, i)
  /\ UNCHANGED <<owned, managerVars, hostVars, bound, contested>>

\* The import fails, a host answers the probe, it fails otherwise or its timer
\* of 500 ms ends it, the socket cannot be removed, or createServer rejects.
LoadFails(p, i) ==
  /\ \/ loads[p][i] \in {"importing", "hung", "unlinking", "creating"}
     \/ loads[p][i] = "probing" /\ bound # Nobody
  /\ Reject(p, i)
  /\ UNCHANGED <<owned, managerVars, hostVars, bound, contested>>

LoadStep(p, i) ==
  /\ \/ Import(p, i)
     \/ ProbeInactive(p, i)
     \/ ProbeHangs(p, i)
     \/ Unlink(p, i)
     \/ Create(p, i)
     \/ Resolve(p, i)
     \/ LoadFails(p, i)
  /\ UNCHANGED <<disposed, catalogue>>

-----------------------------------------------------------------------------
(* The manager (ServerAgentHostManager) and its starter. *)

\* The host that the manager is starting or watching.
Current(p) == <<p, restarts[p]>>

\* Faulty variant: the restart that is being scheduled is counted before the test.
ScheduleRestartCounted(p) ==
  /\ failures' = [failures EXCEPT ![p] = @ + 1]
  /\ IF restarts[p] + 1 < MaxRestarts
     THEN /\ manager' = [manager EXCEPT ![p] = "backoff"]
          /\ restarts' = [restarts EXCEPT ![p] = @ + 1]
     ELSE /\ manager' = [manager EXCEPT ![p] = "gaveUp"]
          /\ UNCHANGED restarts
  /\ UNCHANGED passed

\* A start failed or the host exited: another one is started after a delay,
\* unless that was done MaxRestarts times.
ScheduleRestart(p) ==
  /\ failures' = [failures EXCEPT ![p] = @ + 1]
  /\ IF restarts[p] < MaxRestarts
     THEN /\ manager' = [manager EXCEPT ![p] = "backoff"]
          /\ restarts' = [restarts EXCEPT ![p] = @ + 1]
     ELSE /\ manager' = [manager EXCEPT ![p] = "gaveUp"]
          /\ UNCHANGED restarts
  /\ UNCHANGED passed

Advance(p, from, to) ==
  /\ manager[p] = from
  /\ manager' = [manager EXCEPT ![p] = to]
  /\ UNCHANGED <<passed, restarts, failures>>

\* start() removes the socket, whoever made it.
StarterUnlinks(p) ==
  /\ Advance(p, "unlinking", "spawning")
  /\ bound' = Nobody
  /\ UNCHANGED hostVars

\* The socket cannot be removed.
StarterFails(p) ==
  /\ manager[p] = "unlinking"
  /\ ScheduleRestart(p)
  /\ UNCHANGED <<hostVars, bound>>

\* The child waits for the catalogue only when it is told that there is one.
Spawn(p) ==
  /\ Advance(p, "spawning", IF p \in passed THEN "bootstrapping" ELSE "watching")
  /\ host' = [host EXCEPT ![Current(p)] =
                IF p \in passed THEN "waiting" ELSE "starting"]
  /\ UNCHANGED <<catalogued, bound>>

\* The child takes the catalogue, once, and goes on.
Bootstrap(p) ==
  /\ Advance(p, "bootstrapping", "watching")
  /\ host' = [host EXCEPT ![Current(p)] = "starting"]
  /\ catalogued' = catalogued \union {Current(p)}
  /\ UNCHANGED bound

\* Faulty variant: the client is not disposed of.
BootstrapFailsOnly(p) ==
  /\ manager[p] = "bootstrapping"
  /\ ScheduleRestart(p)
  /\ UNCHANGED <<hostVars, bound>>

\* The call is refused or the child is gone: the client is disposed of, which
\* kills the child.
BootstrapFails(p) ==
  /\ manager[p] = "bootstrapping"
  /\ ScheduleRestart(p)
  /\ host' = [host EXCEPT ![Current(p)] = "gone"]
  /\ UNCHANGED <<catalogued, bound>>

\* Faulty variant: the timer is disposed of together with the connection.
BackoffEndsNever(p) ==
  /\ Advance(p, "backoff", "backoff")
  /\ UNCHANGED <<hostVars, bound>>

\* The timer of _scheduleRestart calls start().
BackoffEnds(p) ==
  /\ Advance(p, "backoff", "unlinking")
  /\ UNCHANGED <<hostVars, bound>>

ManagerStep(p) ==
  /\ \/ StarterUnlinks(p)
     \/ StarterFails(p)
     \/ Spawn(p)
     \/ Bootstrap(p)
     \/ BootstrapFails(p)
     \/ BackoffEnds(p)
  /\ UNCHANGED <<disposed, loaderVars, owned, contested>>

-----------------------------------------------------------------------------
(* The hosts, and the end of a server. *)

\* The host binds the path.  When it is taken, the host runs without being
\* reachable there.
Listen(h) ==
  /\ host[h] = "starting"
  /\ IF bound = Nobody
     THEN host' = [host EXCEPT ![h] = "up"] /\ bound' = h
     ELSE host' = [host EXCEPT ![h] = "deaf"] /\ UNCHANGED bound
  /\ UNCHANGED <<disposed, loaderVars, owned, managerVars, catalogued, contested>>

\* The host exits by itself, which leaves the file at the path, and the manager
\* is told.
Exit(h) ==
  LET p == h[1] IN
  /\ host[h] \in {"starting", "up", "deaf"}
  /\ host' = [host EXCEPT ![h] = "gone"]
  /\ manager[p] = "watching"
  /\ ScheduleRestart(p)
  /\ UNCHANGED <<disposed, loaderVars, owned, catalogued, bound, contested>>

HostsEnd(p, as) == host' = [h \in Host |-> IF h[1] = p THEN as ELSE host[h]]

\* dispose() of the routes: VS Code, if it is loaded, stops its manager and its
\* host, and the socket at the path is removed if the path is this server's.
\* A load that is under way goes on.
Dispose(p) ==
  /\ p \notin disposed
  /\ disposed' = disposed \union {p}
  /\ IF Loaded(p)
     THEN manager' = [manager EXCEPT ![p] = "none"] /\ HostsEnd(p, "gone")
     ELSE UNCHANGED <<manager, host>>
  /\ bound' = IF p \in owned THEN Nobody ELSE bound
  /\ owned' = owned \ {p}
  /\ UNCHANGED <<loaderVars, passed, restarts, failures, catalogued, contested>>

\* The process ends, whether it was disposed of or is killed, and its hosts end
\* with it.  What is left is the file at the path; p stands for the next server
\* from here on, which nobody has asked for anything yet.
End(p) ==
  /\ disposed' = disposed \ {p}
  /\ loads' = [loads EXCEPT ![p] = [i \in Load |-> "unused"]]
  /\ promise' = [promise EXCEPT ![p] = 0]
  /\ waiters' = [waiters EXCEPT ![p] = [i \in Load |-> {}]]
  /\ catalogue' = [catalogue EXCEPT ![p] = "args"]
  /\ owned' = owned \ {p}
  /\ manager' = [manager EXCEPT ![p] = "none"]
  /\ passed' = passed \ {p}
  /\ restarts' = [restarts EXCEPT ![p] = 0]
  /\ failures' = [failures EXCEPT ![p] = 0]
  /\ HostsEnd(p, "none")
  /\ catalogued' = {h \in catalogued : h[1] # p}
  /\ UNCHANGED <<bound, contested>>

Next ==
  \/ \E p \in Process, r \in Request : Ask(p, r)
  \/ \E p \in Process, i \in Load : LoadStep(p, i)
  \/ \E p \in Process : ManagerStep(p) \/ Dispose(p) \/ End(p)
  \/ \E h \in Host : Listen(h) \/ Exit(h)

Spec == Init /\ [][Next]_vars

\* What the manager does without its child.
ManagerOwnStep(p) == manager[p] # "bootstrapping" /\ ManagerStep(p)

\* The event loop of a server goes on: its own calls settle and timers fire.
\* Nobody has to ask, nothing has to fail, no child has to answer the call that
\* hands it the catalogue, and no host has to get as far as to listen.
FairSpec ==
  /\ Spec
  /\ \A p \in Process :
       WF_vars(ManagerOwnStep(p) \/ \E i \in Load : LoadStep(p, i))

-----------------------------------------------------------------------------
(* Properties. *)

Underway(p) ==
  {i \in Load : loads[p][i] \notin {"unused", "loaded"}}

\* VS Code is loaded at most once, and never by two calls at the same time,
\* however many requests arrive and however often a load fails: two calls would
\* make two servers, each with an Agent Host (the promise that
\* ensureVSCodeLoaded keeps).
OneLoadAtATime ==
  \A p \in Process :
    /\ \A i, j \in Underway(p) : i = j
    /\ Loaded(p) => Underway(p) = {}

\* No request waits for a call that has settled: an error is for the requests
\* that were waiting when the load failed, and is not kept for later ones (the
\* reset of vscodeServerPromise).
NoSettledWait ==
  \A p \in Process, i \in Load :
    waiters[p][i] # {} => i \in Underway(p)

\* A host that has started its services has the catalogue of models, though
\* the arguments lose it on the first load and both the load and the host may
\* have failed before (byokBootstrapConfig and _environmentByokConfig).
EveryHostHasCatalogue ==
  \A h \in Host : host[h] \in {"starting", "up", "deaf"} => h \in catalogued

Alive(h) == host[h] \in {"waiting", "starting", "up", "deaf"}

\* A server never has two hosts, not even when a start fails half way: two
\* hosts would work on the same sessions (the client that a failed bootstrap
\* disposes of).
OneHostPerServer ==
  \A g, h \in Host : Alive(g) /\ Alive(h) /\ g[1] = h[1] => g = h

\* As long as no server found the path free while another one was between its
\* own probe and a host that can be reached, every host is reachable at the path
\* from the moment it listens, whatever crashed, failed or was restarted before
\* (prepareAgentHostSocket).  Only a server that is about to end may have taken
\* its socket away already.
UncontestedHostIsReachable ==
  ~contested =>
    \A h \in Host :
      /\ host[h] # "deaf"
      /\ host[h] = "up" => bound = h \/ h[1] \in disposed

\* The manager gives up after MaxRestarts restarts, neither earlier nor later
\* (willRestart, in both the handler of an exit and that of a failed start).
GivesUpAfterAllRestarts ==
  \A p \in Process :
    manager[p] # "none" => (manager[p] = "gaveUp" <=> failures[p] = MaxRestarts + 1)

\* The requests that wait for VS Code are all answered, or lost with their
\* server, even if the host that is probed never accepts (the timer of the
\* probe): there always comes a time when none is waiting.
EveryWaitEnds ==
  \A p \in Process : []<>(\A r \in Request : ~Waiting(p, r))

\* A host that exited or failed to start is replaced unless the server ends
\* or the manager gives up (the timer of _scheduleRestart): the manager always
\* comes to watch a host, has given up, or is gone.  The exception is a child that
\* hangs before it takes the catalogue: no timer ends the call of `initialize`, and
\* the server stays without a host.
HostIsReplaced ==
  \A p \in Process :
    \/ []<>(manager[p] \in {"watching", "gaveUp", "none"})
    \/ <>[](manager[p] = "bootstrapping")
=============================================================================
