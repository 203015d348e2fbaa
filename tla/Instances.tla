------------------------------- MODULE Instances -------------------------------
(***************************************************************************)
(* Servers for one user data directory that are started, relaunched, ended *)
(* and killed beside each other, and what they share: the configuration    *)
(* that the first one writes, the port, the session socket, the key of     *)
(* mint-key and the pipes of SocketProxy.                                  *)
(*                                                                         *)
(* A step is a turn of the event loop; what is awaited comes in between.   *)
(* A process stands for a supervisor with its child, except that Relaunch  *)
(* makes the new child a process of its own beside the old one.            *)
(***************************************************************************)
EXTENDS SocketProxy

CONSTANTS
  None,      \* no value
  MaxStarts, \* bounds how often processes are started
  MaxUses    \* and how often they pass on a websocket or are asked for the key

ASSUME BoundsAssumption == MaxStarts \in Nat /\ MaxUses \in Nat

ASSUME NoneAssumption ==
  None \notin Process /\ {"absent", "empty"} \cap (Process \cup {None}) = {}

VARIABLES
  phase,      \* how far a process has come
  onePort,    \* whether all processes are to listen on the same port or each on its own
  password,   \* the password of its configuration
  listening,  \* the processes whose HTTP server listens
  session,    \* the process whose file is at the path of the session socket
  serving,    \* the processes whose session server listens
  config,     \* the file config.yaml: "absent", "empty" or the process that filled it
  key,        \* the file serve-web-key-half, likewise
  minting,    \* how far mint-key has come in a process
  minted,     \* mintKeyPromise, once it is resolved
  disturbed,  \* the files whose writing overlapped a reading or was cut off, or that
              \* were there and could not be read
  starts,     \* the number of starts
  uses        \* and of uses

lifeVars == <<phase, onePort, listening, starts>>
configVars == <<password, config>>
sessionVars == <<session, serving>>
keyVars == <<key, minting, minted>>
Others == <<lifeVars, configVars, sessionVars, keyVars, disturbed, uses>>
vars == <<proxyVars, Others>>

Init ==
  /\ ProxyInit
  /\ phase = [p \in Process |-> "down"]
  /\ onePort \in BOOLEAN
  /\ password = [p \in Process |-> None]
  /\ listening = {} /\ session = Nobody /\ serving = {}
  /\ config = "absent" /\ key = "absent"
  /\ minting = [p \in Process |-> "not"]
  /\ minted = [p \in Process |-> None]
  /\ disturbed = {}
  /\ starts = 0 /\ uses = 0

Goes(p, from, to) == phase[p] = from /\ phase' = [phase EXCEPT ![p] = to]

----------------------------------------------------------------------------
(* The configuration.                                                      *)

Start(p) ==
  /\ Goes(p, "down", "configuring")
  /\ starts < MaxStarts /\ starts' = starts + 1
  /\ UNCHANGED <<onePort, listening, proxyVars, configVars, sessionVars, keyVars, disturbed, uses>>

\* Faulty variant: the file is written whether it exists or not ("w").
CreateConfigAnyway(p) ==
  /\ Goes(p, "configuring", "writing")
  /\ config' = "empty"
  /\ UNCHANGED <<onePort, listening, starts, password, proxyVars, sessionVars, keyVars, disturbed, uses>>

\* The file is created unless it exists ("wx").
CreateConfig(p) ==
  /\ Goes(p, "configuring", IF config = "absent" THEN "writing" ELSE "reading")
  /\ config' = IF config = "absent" THEN "empty" ELSE config
  /\ UNCHANGED <<onePort, listening, starts, password, proxyVars, sessionVars, keyVars, disturbed, uses>>

\* A generated password is written into it.
FillConfig(p) ==
  /\ Goes(p, "writing", "reading")
  /\ config' = p
  /\ UNCHANGED <<onePort, listening, starts, password, proxyVars, sessionVars, keyVars, disturbed, uses>>

\* The file is read.  Without a password in it the server does not start.
ReadConfig(p) ==
  /\ Goes(p, "reading", IF config = "empty" THEN "down" ELSE "starting")
  /\ password' = [password EXCEPT ![p] = IF config = "empty" THEN None ELSE config]
  /\ disturbed' = disturbed \cup
       {f \in {"config"} : \E q \in Process \ {p} : phase[q] = "writing"}
  /\ UNCHANGED <<onePort, listening, starts, config, proxyVars, sessionVars, keyVars, uses>>

\* SIGUSR1 at q: a new child with the same arguments is forked, and the old
\* one is only told to end.
Relaunch(q, p) ==
  /\ phase[q] = "up" /\ onePort
  /\ Goes(p, "down", "starting")
  /\ password' = [password EXCEPT ![p] = password[q]]
  /\ starts < MaxStarts /\ starts' = starts + 1
  /\ UNCHANGED <<onePort, listening, config, proxyVars, sessionVars, keyVars, disturbed, uses>>

----------------------------------------------------------------------------
(* createApp().                                                            *)

\* Faulty variant: that the port is taken is only a warning.
ListenAnyway(p) ==
  /\ Goes(p, "starting", "unlinking")
  /\ listening' = IF ~onePort \/ listening = {} THEN listening \cup {p} ELSE listening
  /\ UNCHANGED <<onePort, starts, configVars, proxyVars, sessionVars, keyVars, disturbed, uses>>

\* listen() on the port.  If another process has it the start fails.
Listen(p) ==
  /\ LET free == ~onePort \/ listening = {}
     IN  /\ Goes(p, "starting", IF free THEN "unlinking" ELSE "down")
         /\ listening' = IF free THEN listening \cup {p} ELSE listening
         /\ password' = IF free THEN password ELSE [password EXCEPT ![p] = None]
  /\ UNCHANGED <<onePort, starts, config, proxyVars, sessionVars, keyVars, disturbed, uses>>

\* makeEditorSessionManagerServer(): listen() removes what is at the path ...
UnlinkSession(p) ==
  /\ \/ /\ Goes(p, "unlinking", "binding")
        /\ session' = Nobody
     \/ /\ Goes(p, "unlinking", "up")
        /\ UNCHANGED session
  /\ UNCHANGED <<onePort, listening, starts, serving, configVars, proxyVars, keyVars, disturbed, uses>>

\* ... and binds it.  A failure of either is only a warning.
BindSession(p) ==
  /\ Goes(p, "binding", "up")
  /\ session' = IF session = Nobody THEN p ELSE session
  /\ serving' = IF session = Nobody THEN serving \cup {p} ELSE serving
  /\ UNCHANGED <<onePort, listening, starts, configVars, proxyVars, keyVars, disturbed, uses>>

----------------------------------------------------------------------------
(* The end of a process.                                                   *)

\* dispose() of the app: both servers are closed in one turn.  Closing the
\* session server removes the path, whosever it is by now.
CloseServers(p) ==
  /\ listening' = listening \ {p}
  /\ session' = IF p \in serving THEN Nobody ELSE session
  /\ serving' = serving \ {p}

\* Closing a session server that never listened is an error, and the process
\* does not wait for the rest of its disposal then.
Dispose(p) ==
  /\ Goes(p, "up", IF p \in serving THEN "closing" ELSE "leaving")
  /\ CloseServers(p)
  /\ StopProxy(p)
  /\ UNCHANGED <<onePort, starts, socketVars, configVars, keyVars, disturbed, uses>>

\* The memory of the process is gone, its files stay.
Vanish(p) ==
  /\ phase' = [phase EXCEPT ![p] = "down"]
  /\ password' = [password EXCEPT ![p] = None]
  /\ minting' = [minting EXCEPT ![p] = "not"]
  /\ minted' = [minted EXCEPT ![p] = None]
  /\ listening' = listening \ {p}
  /\ session' = IF session = p THEN Left ELSE session
  /\ serving' = serving \ {p}
  /\ disturbed' = disturbed \cup {f \in {"config"} : phase[p] = "writing"}
                            \cup {f \in {"key"} : minting[p] = "filling"}
  /\ LoseProxy(p)
  /\ UNCHANGED <<onePort, starts, config, key, uses>>

OpenSockets(p) == {s \in Socket : home[s] = p /\ at[s] # "closed"}

\* The disposer's second is over: the sockets that are left are destroyed.
CleanUp(p) ==
  /\ phase[p] = "closing" /\ OpenSockets(p) # {}
  /\ at' = [s \in Socket |-> IF s \in OpenSockets(p) THEN "closed" ELSE at[s]]
  /\ UNCHANGED <<serverVars, home, lifeVars, configVars, sessionVars, keyVars, disturbed, uses>>

\* Both servers have closed all their connections, and the process exits.
Gone(p) ==
  /\ \/ phase[p] = "leaving"
     \/ phase[p] = "closing" /\ OpenSockets(p) = {}
  /\ Vanish(p)

Kill(p) ==
  /\ phase[p] # "down"
  /\ Vanish(p)

----------------------------------------------------------------------------
(* POST /mint-key.                                                         *)

\* The first request starts reading the key, and later ones join it.
MintKey(p) ==
  /\ phase[p] = "up" /\ minting[p] = "not"
  /\ uses < MaxUses /\ uses' = uses + 1
  /\ minting' = [minting EXCEPT ![p] = "reading"]
  /\ disturbed' = disturbed \cup
       {f \in {"key"} : \E q \in Process : minting[q] \in {"reading", "generated", "filling"}}
  /\ UNCHANGED <<key, minted, lifeVars, configVars, sessionVars, proxyVars>>

\* Whatever is in the file is the key.  A file that cannot be read is treated
\* like one that is not there.
ReadKey(p) ==
  /\ minting[p] = "reading"
  /\ \/ /\ key # "absent"
        /\ minting' = [minting EXCEPT ![p] = "resolved"]
        /\ minted' = [minted EXCEPT ![p] = key]
        /\ UNCHANGED disturbed
     \/ /\ minting' = [minting EXCEPT ![p] = "generated"]
        /\ disturbed' = disturbed \cup {f \in {"key"} : key # "absent"}
        /\ UNCHANGED minted
  /\ UNCHANGED <<key, lifeVars, configVars, sessionVars, proxyVars, uses>>

\* writeFile() creates or truncates the file ...
OpenKey(p) ==
  /\ minting[p] = "generated"
  /\ minting' = [minting EXCEPT ![p] = "filling"]
  /\ key' = "empty"
  /\ UNCHANGED <<minted, lifeVars, configVars, sessionVars, proxyVars, disturbed, uses>>

\* ... and writes the key.
FillKey(p) ==
  /\ minting[p] = "filling"
  /\ minting' = [minting EXCEPT ![p] = "resolved"]
  /\ key' = p
  /\ minted' = [minted EXCEPT ![p] = p]
  /\ UNCHANGED <<lifeVars, configVars, sessionVars, proxyVars, disturbed, uses>>

\* The key that could not be written is used all the same.
LoseKey(p) ==
  /\ minting[p] \in {"generated", "filling"}
  /\ minting' = [minting EXCEPT ![p] = "resolved"]
  /\ minted' = [minted EXCEPT ![p] = p]
  /\ disturbed' = disturbed \cup {"key"}
  /\ UNCHANGED <<key, lifeVars, configVars, sessionVars, proxyVars, uses>>

----------------------------------------------------------------------------

\* A websocket is passed to VS Code, in a process whose load is done.
PassOn(s, p) ==
  /\ phase[p] = "up" /\ Ask(s, p)
  /\ uses < MaxUses /\ uses' = uses + 1
  /\ UNCHANGED <<lifeVars, configVars, sessionVars, keyVars, disturbed>>

Next ==
  \/ \E p \in Process :
       \/ Start(p) \/ CreateConfig(p) \/ FillConfig(p) \/ ReadConfig(p)
       \/ Listen(p) \/ UnlinkSession(p) \/ BindSession(p)
       \/ Dispose(p) \/ CleanUp(p) \/ Gone(p) \/ Kill(p)
       \/ MintKey(p) \/ ReadKey(p) \/ OpenKey(p) \/ FillKey(p) \/ LoseKey(p)
       \/ \E q \in Process : Relaunch(q, p)
       \/ ServerStep(p) /\ UNCHANGED Others
  \/ \E s \in Socket :
       \/ \E p \in Process : PassOn(s, p)
       \/ SocketStep(s) /\ UNCHANGED Others

Spec == Init /\ [][Next]_vars

FairSpec ==
  /\ Spec
  /\ \A p \in Process : WF_vars(ServerStep(p) /\ UNCHANGED Others)
  /\ \A s \in Socket : WF_vars((Connect(s) \/ Accept(s) \/ TimesOut(s)) /\ UNCHANGED Others)

----------------------------------------------------------------------------
(* Properties.                                                             *)

TypeOK ==
  /\ ProxyTypeOK
  /\ phase \in [Process -> {"down", "configuring", "writing", "reading", "starting",
                            "unlinking", "binding", "up", "closing", "leaving"}]
  /\ onePort \in BOOLEAN /\ password \in [Process -> {None} \cup Process]
  /\ listening \subseteq Process /\ serving \subseteq Process
  /\ session \in Process \cup {Nobody, Left}
  /\ config \in {"absent", "empty"} \cup Process /\ key \in {"absent", "empty"} \cup Process
  /\ minting \in [Process -> {"not", "reading", "generated", "filling", "resolved"}]
  /\ minted \in [Process -> {None, "empty"} \cup Process]
  /\ disturbed \subseteq {"config", "key"}
  /\ starts \in 0 .. MaxStarts /\ uses \in 0 .. MaxUses

\* Unless its writing overlapped a reading or was cut off, or it could not be
\* read, a file is whole, and all processes that use it have what is in it: the
\* password stays the one that was written first, and a key that was given out
\* is not replaced.
FilesAgree ==
  \A p \in Process :
    /\ "config" \notin disturbed =>
         /\ password[p] \in {None, config}
         /\ config = "empty" => \E q \in Process : phase[q] = "writing"
    /\ "key" \notin disturbed =>
         /\ minted[p] \in {None, key} \ {"empty"}
         /\ key = "empty" => \E q \in Process : minting[q] = "filling"

\* Of servers with one port the one that is up is reached at the session
\* socket, although each takes the path over from the last one, which removes
\* it when it closes: it has the port by then.
SessionSocketFollowsPort ==
  onePort =>
    \A p \in Process : phase[p] = "up" /\ p \in serving => session = p
=============================================================================
