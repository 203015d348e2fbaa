------------------------------ MODULE SocketProxy ------------------------------
(***************************************************************************)
(* SocketProxyProvider of src/node/socket.ts in several processes: a TLS   *)
(* socket cannot be passed to a child process, so it is piped into a       *)
(* connection to a local server of the same process, whose other end can.  *)
(* An id that is sent first tells which connection belongs to which socket *)
(* and is abstracted: a connection is taken by the socket that made it, if *)
(* it was accepted by the server of the same process, and else by none.    *)
(*                                                                         *)
(* Processes with one runtime directory share the paths of these servers:  *)
(* path 0 is tls-proxy, path i is tls-proxy-i.  An error that nobody       *)
(* listens for is logged by the process and has no other consequence       *)
(* (src/node/wrapper.ts:392).                                              *)
(***************************************************************************)
EXTENDS Integers, FiniteSets

CONSTANTS
  Process,
  Socket,    \* TLS sockets
  MaxTries,  \* maxTries of findFreeSocketPath: 100
  Nobody,    \* no file at a path, or no process
  Left       \* a file there that a process left behind

\* There are no more processes than paths: with 100 tries 101 servers are allowed.
ASSUME PathsAssumption ==
  /\ MaxTries \in Nat
  /\ IsFiniteSet(Process) /\ Cardinality(Process) <= MaxTries + 1

ASSUME NobodyAssumption == Nobody \notin Process /\ Left \notin Process

VARIABLES
  server,    \* the promise _proxyServer of a process and how far it has come
  pipe,      \* proxyPipe of a process, while it searches the path it tries
  bound,     \* the process whose file is at a path
  contested, \* the paths that two processes were about to take at a time
  stopped,   \* the processes that have called stop()
  at,        \* how far createProxy() has come with a socket
  home       \* the process that has the socket

serverVars == <<server, pipe, bound, contested, stopped>>
socketVars == <<at, home>>
proxyVars == <<serverVars, socketVars>>

ProxyInit ==
  /\ server = [p \in Process |-> "none"]
  /\ pipe = [p \in Process |-> 0]
  /\ bound = [x \in 0 .. MaxTries |-> Nobody]
  /\ contested = {} /\ stopped = {}
  /\ at = [s \in Socket |-> "new"]
  /\ home = [s \in Socket |-> Nobody]

\* A killed process leaves its file behind, so whose it is listens there.
CanConnect(x) == bound[x] \in Process

----------------------------------------------------------------------------
(* startProxyServer().                                                     *)

\* Between the last look at a path and the listening on it.
Taking(p) == server[p] \in {"found", "removed"}

\* Faulty variant: the first path is taken.
ProbeFirst(p) ==
  /\ server[p] = "searching"
  /\ server' = [server EXCEPT ![p] = "found"]
  /\ contested' = contested \cup
       {x \in {pipe[p]} : \E q \in Process \ {p} : Taking(q) /\ pipe[q] = x}
  /\ UNCHANGED <<pipe, bound, stopped, socketVars>>

\* findFreeSocketPath(): a path on which somebody listens is passed over.
Probe(p) ==
  /\ server[p] = "searching"
  /\ IF CanConnect(pipe[p]) /\ pipe[p] < MaxTries
     THEN /\ pipe' = [pipe EXCEPT ![p] = @ + 1]
          /\ UNCHANGED <<server, contested>>
     ELSE /\ server' = [server EXCEPT ![p] = "found"]
          /\ contested' = contested \cup
               {x \in {pipe[p]} : \E q \in Process \ {p} : Taking(q) /\ pipe[q] = x}
          /\ UNCHANGED pipe
  /\ UNCHANGED <<bound, stopped, socketVars>>

\* mkdir and rm: what is left at the path is removed, whosever it is by now.
Remove(p) ==
  /\ server[p] = "found"
  /\ \/ /\ bound' = [bound EXCEPT ![pipe[p]] = Nobody]
        /\ server' = [server EXCEPT ![p] = "removed"]
     \/ /\ server' = [server EXCEPT ![p] = "failed"]
        /\ UNCHANGED bound
  /\ UNCHANGED <<pipe, contested, stopped, socketVars>>

\* The server listens on the path, and after stop() it is closed at once.  An
\* error, whether the path is taken again meanwhile or for any other reason, is one
\* for which nobody listens, and the promise stays open.
Bind(p) ==
  /\ server[p] = "removed"
  /\ \/ /\ bound[pipe[p]] = Nobody /\ p \notin stopped
        /\ server' = [server EXCEPT ![p] = "listening"]
        /\ bound' = [bound EXCEPT ![pipe[p]] = p]
     \/ /\ bound[pipe[p]] = Nobody /\ p \in stopped
        /\ server' = [server EXCEPT ![p] = "closed"]
        /\ UNCHANGED bound
     \/ /\ server' = [server EXCEPT ![p] = IF bound[pipe[p]] = Nobody THEN "broken" ELSE "taken"]
        /\ UNCHANGED bound
  /\ UNCHANGED <<pipe, contested, stopped, socketVars>>

\* stop(): closing a server removes its path, whosever that is by now.
StopProxy(p) ==
  /\ stopped' = stopped \cup {p}
  /\ IF server[p] = "listening"
     THEN /\ server' = [server EXCEPT ![p] = "closed"]
          /\ bound' = [bound EXCEPT ![pipe[p]] = Nobody]
     ELSE UNCHANGED <<server, bound>>
  /\ UNCHANGED <<pipe, contested>>

\* The process ends: its file stays, its sockets do not.
LoseProxy(p) ==
  /\ server' = [server EXCEPT ![p] = "none"]
  /\ pipe' = [pipe EXCEPT ![p] = 0]
  /\ bound' = [x \in DOMAIN bound |-> IF bound[x] = p THEN Left ELSE bound[x]]
  /\ stopped' = stopped \ {p}
  /\ at' = [s \in Socket |-> IF home[s] = p THEN "closed" ELSE at[s]]
  /\ UNCHANGED <<contested, home>>

----------------------------------------------------------------------------
(* createProxy().                                                          *)

\* A socket is to be passed on, and the server is started if there is none.
Ask(s, p) ==
  /\ at[s] = "new"
  /\ at' = [at EXCEPT ![s] = "waiting"]
  /\ home' = [home EXCEPT ![s] = p]
  /\ server' = IF server[p] = "none" THEN [server EXCEPT ![p] = "searching"] ELSE server
  /\ UNCHANGED <<pipe, bound, contested, stopped>>

\* The server is there: the socket connects to its path, listens to all new
\* connections, and its timer runs.  If there is none the socket is closed.
Connect(s) ==
  /\ at[s] = "waiting"
  /\ \/ /\ server[home[s]] \in {"listening", "closed"}
        /\ at' = [at EXCEPT ![s] = "connecting"]
     \/ /\ server[home[s]] = "failed"
        /\ at' = [at EXCEPT ![s] = "closed"]
  /\ UNCHANGED <<serverVars, home>>

\* Whoever is bound to the path accepts the connection and gets the id, which
\* only the process of the socket knows.
Accept(s) ==
  /\ at[s] = "connecting"
  /\ at' = [at EXCEPT ![s] = IF bound[pipe[home[s]]] = home[s] THEN "sent" ELSE "refused"]
  /\ UNCHANGED <<serverVars, home>>

\* The id arrives, is recognised, and the socket is piped to the connection.
Deliver(s) ==
  /\ at[s] = "sent"
  /\ at' = [at EXCEPT ![s] = "paired"]
  /\ UNCHANGED <<serverVars, home>>

\* Faulty variant: the time only runs once the connection is there.
TimesOutLate(s) ==
  /\ at[s] = "sent"
  /\ at' = [at EXCEPT ![s] = "closed"]
  /\ UNCHANGED <<serverVars, home>>

\* After 5 s both ends are destroyed.
TimesOut(s) ==
  /\ at[s] \in {"connecting", "sent", "refused"}
  /\ at' = [at EXCEPT ![s] = "closed"]
  /\ UNCHANGED <<serverVars, home>>

\* The browser closes the socket.  An unpaired one is not recognised any more
\* (socket.destroyed) and goes when its time is up.
Hangup(s) ==
  /\ \/ at[s] = "paired" /\ at' = [at EXCEPT ![s] = "closed"]
     \/ at[s] \in {"connecting", "sent"} /\ at' = [at EXCEPT ![s] = "refused"]
  /\ UNCHANGED <<serverVars, home>>

ServerStep(p) == Probe(p) \/ Remove(p) \/ Bind(p)
SocketStep(s) == Connect(s) \/ Accept(s) \/ Deliver(s) \/ TimesOut(s) \/ Hangup(s)

----------------------------------------------------------------------------
(* Properties.                                                             *)

ProxyTypeOK ==
  /\ server \in [Process -> {"none", "searching", "found", "removed", "listening",
                             "closed", "failed", "taken", "broken"}]
  /\ pipe \in [Process -> 0 .. MaxTries]
  /\ bound \in [0 .. MaxTries -> Process \cup {Nobody, Left}]
  /\ contested \subseteq 0 .. MaxTries /\ stopped \subseteq Process
  /\ at \in [Socket -> {"new", "waiting", "connecting", "sent", "refused", "paired", "closed"}]
  /\ home \in [Socket -> Process \cup {Nobody}]

\* A server that listens is reached at its path, and none finds that path taken,
\* unless two processes were about to take it at a time.  (The last path is
\* tried even if it is in use, but no process gets that far.)
UncontestedPipeIsKept ==
  \A p \in Process : pipe[p] \notin contested =>
    /\ server[p] = "listening" => bound[pipe[p]] = p
    /\ server[p] # "taken"

\* The server could not listen, and the promise of the process stays open.
Stuck(p) == server[p] \in {"taken", "broken"}

\* Every socket is paired or closed in the end, unless the server of its
\* process is stuck: there is always a time when it waits for nothing.
SocketsSettle ==
  \A s \in Socket : []<>(at[s] \in {"new", "paired", "closed"} \/ Stuck(home[s]))
=============================================================================
