------------------------------- MODULE Sessions -------------------------------
(***************************************************************************)
(* The registry of editor sessions (src/node/vscodeSocket.ts).  An         *)
(* extension host listens on a socket of its own, whose path is new for    *)
(* every host, and registers it with the server; when it terminates it     *)
(* takes the entry back, if it gets to do so (patches/store-socket.diff).  *)
(* A command line that opens a file asks for the best session that can be  *)
(* connected to, and what cannot be connected to is taken out on the way.  *)
(***************************************************************************)
EXTENDS Integers, FiniteSets

CONSTANTS
  Host,    \* extension hosts
  Lookup,  \* calls of getConnectedSocketPath, which may overlap
  NoHost   \* the answer that there is no session

ASSUME HostAssumption == IsFiniteSet(Host) /\ NoHost \notin Host

VARIABLES
  host,       \* host[h]: "new", "up" (its socket accepts connections) or "ended"
  adding,     \* hosts whose request to be added is under way
  deleting,   \* hosts whose request to be deleted is under way
  entries,    \* the hosts in the registry
  stamp,      \* stamp[h]: the place of h in the order of registration, 0 before it
  lookup,     \* lookup[l]: "idle", "next", "failed" (to connect) or "done"
  matching,   \* matching[l]: the hosts with a workspace folder above the file
  candidates, \* candidates[l]: the hosts that l has still got to try
  answer,     \* answer[l]: what l returns
  \* What the properties compare with; the code does not keep it.
  initial     \* initial[l]: the hosts that were registered when l began

vars ==
  <<host, adding, deleting, entries, stamp, lookup, matching, candidates, answer, initial>>

hostVars == <<host, adding, deleting>>
lookupVars == <<lookup, matching, candidates, answer, initial>>

TypeOK ==
  /\ host \in [Host -> {"new", "up", "ended"}]
  /\ adding \subseteq Host
  /\ deleting \subseteq Host
  /\ entries \subseteq Host
  /\ stamp \in [Host -> Nat]
  /\ lookup \in [Lookup -> {"idle", "next", "failed", "done"}]
  /\ matching \in [Lookup -> SUBSET Host]
  /\ candidates \in [Lookup -> SUBSET Host]
  /\ answer \in [Lookup -> Host \cup {NoHost}]
  /\ initial \in [Lookup -> SUBSET Host]

Init ==
  /\ host = [h \in Host |-> "new"]
  /\ adding = {} /\ deleting = {} /\ entries = {}
  /\ stamp = [h \in Host |-> 0]
  /\ lookup = [l \in Lookup |-> "idle"]
  /\ matching = [l \in Lookup |-> {}]
  /\ candidates = [l \in Lookup |-> {}]
  /\ answer = [l \in Lookup |-> NoHost]
  /\ initial = [l \in Lookup |-> {}]

-----------------------------------------------------------------------------
(***************************************************************************)
(* The extension hosts                                                     *)
(***************************************************************************)

\* A host listens on its socket and asks to be added.
StartHost(h) ==
  /\ host[h] = "new"
  /\ host' = [host EXCEPT ![h] = "up"]
  /\ adding' = adding \cup {h}
  /\ UNCHANGED <<deleting, entries, stamp, lookupVars>>

\* A host is terminated: its socket closes, and it asks to be deleted.
Terminate(h) ==
  /\ host[h] = "up"
  /\ host' = [host EXCEPT ![h] = "ended"]
  /\ deleting' = deleting \cup {h}
  /\ UNCHANGED <<adding, entries, stamp, lookupVars>>

\* A host crashes and asks for nothing.
Kill(h) ==
  /\ host[h] = "up"
  /\ host' = [host EXCEPT ![h] = "ended"]
  /\ UNCHANGED <<adding, deleting, entries, stamp, lookupVars>>

\* A request does not get through; the host logs an error and does not repeat it.
LoseRequest(h) ==
  /\ \/ h \in adding /\ adding' = adding \ {h} /\ UNCHANGED deleting
     \/ h \in deleting /\ deleting' = deleting \ {h} /\ UNCHANGED adding
  /\ UNCHANGED <<host, entries, stamp, lookupVars>>

-----------------------------------------------------------------------------
(***************************************************************************)
(* The registry                                                            *)
(***************************************************************************)

\* addSession(): entries of a Map are in the order in which they were set.
AddSession(h) ==
  /\ h \in adding
  /\ adding' = adding \ {h}
  /\ entries' = entries \cup {h}
  /\ stamp' = [stamp EXCEPT ![h] = 1 + Cardinality({g \in Host : stamp[g] # 0})]
  /\ UNCHANGED <<host, deleting, lookupVars>>

\* deleteSession() on the request of the host.
DeleteSession(h) ==
  /\ h \in deleting
  /\ deleting' = deleting \ {h}
  /\ entries' = entries \ {h}
  /\ UNCHANGED <<host, adding, stamp, lookupVars>>

\* The order of getCandidatesForFile(): matches first, and among matches and
\* among the others the most recently registered first.
Before(l, g, h) ==
  IF (g \in matching[l]) = (h \in matching[l])
    THEN stamp[g] > stamp[h]
    ELSE g \in matching[l]

\* Faulty variant: the most recently registered session first, match or not.
FirstByTime(l, h) ==
  /\ h \in candidates[l]
  /\ \A g \in candidates[l] \ {h} : stamp[h] > stamp[g]

\* The candidate whose turn it is.
First(l, h) ==
  /\ h \in candidates[l]
  /\ \A g \in candidates[l] \ {h} : Before(l, h, g)

\* getConnectedSocketPath() copies the candidates; m are those that match.
Begin(l, m) ==
  /\ lookup[l] \in {"idle", "done"}
  /\ lookup' = [lookup EXCEPT ![l] = "next"]
  /\ matching' = [matching EXCEPT ![l] = m]
  /\ candidates' = [candidates EXCEPT ![l] = entries]
  /\ answer' = [answer EXCEPT ![l] = NoHost]
  /\ initial' = [initial EXCEPT ![l] = entries]
  /\ UNCHANGED <<hostVars, entries, stamp>>

\* canConnect() succeeds: this is the answer.
Connected(l) ==
  /\ lookup[l] = "next"
  /\ \E h \in Host :
       /\ First(l, h) /\ host[h] = "up"
       /\ answer' = [answer EXCEPT ![l] = h]
  /\ lookup' = [lookup EXCEPT ![l] = "done"]
  /\ candidates' = [candidates EXCEPT ![l] = {}]
  /\ UNCHANGED <<hostVars, entries, stamp, matching, initial>>

\* canConnect() fails: nobody listens on the socket any more.
Refused(l) ==
  /\ lookup[l] = "next"
  /\ \E h \in Host : First(l, h) /\ host[h] # "up"
  /\ lookup' = [lookup EXCEPT ![l] = "failed"]
  /\ UNCHANGED <<hostVars, entries, stamp, matching, candidates, answer, initial>>

\* Faulty variant: all remaining candidates are deleted.
PruneAll(l) ==
  /\ lookup[l] = "failed"
  /\ entries' = entries \ candidates[l]
  /\ candidates' = [candidates EXCEPT ![l] = {}]
  /\ lookup' = [lookup EXCEPT ![l] = "next"]
  /\ UNCHANGED <<hostVars, stamp, matching, answer, initial>>

\* Faulty variant: the session is deleted, but the loop does not go on to the next.
PruneStay(l) ==
  /\ lookup[l] = "failed"
  /\ \E h \in Host : First(l, h) /\ entries' = entries \ {h}
  /\ lookup' = [lookup EXCEPT ![l] = "next"]
  /\ UNCHANGED <<hostVars, stamp, matching, candidates, answer, initial>>

\* The continuation of a failed canConnect() deletes the session, whatever
\* happened to the registry in the meantime.
Prune(l) ==
  /\ lookup[l] = "failed"
  /\ \E h \in Host :
       /\ First(l, h)
       /\ entries' = entries \ {h}
       /\ candidates' = [candidates EXCEPT ![l] = @ \ {h}]
  /\ lookup' = [lookup EXCEPT ![l] = "next"]
  /\ UNCHANGED <<hostVars, stamp, matching, answer, initial>>

\* No candidate is left: undefined.
Exhausted(l) ==
  /\ lookup[l] = "next" /\ candidates[l] = {}
  /\ lookup' = [lookup EXCEPT ![l] = "done"]
  /\ UNCHANGED <<hostVars, entries, stamp, matching, candidates, answer, initial>>

LookupStep(l) == Connected(l) \/ Refused(l) \/ Prune(l) \/ Exhausted(l)

Next ==
  \/ \E h \in Host :
       \/ StartHost(h) \/ Terminate(h) \/ Kill(h) \/ LoseRequest(h)
       \/ AddSession(h) \/ DeleteSession(h)
  \/ \E l \in Lookup : LookupStep(l) \/ \E m \in SUBSET entries : Begin(l, m)

Spec == Init /\ [][Next]_vars

\* A lookup goes on: a connection to a socket succeeds or fails at once.
FairSpec == Spec /\ \A l \in Lookup : WF_vars(LookupStep(l))

-----------------------------------------------------------------------------
\* Of the sessions that were registered when a lookup began and whose hosts are
\* still up when it is over, the answer is the best: a match if there is one,
\* and the most recently registered.  Neither the hosts that end in the
\* meantime nor what other lookups delete can make it miss one.
BestLiveWins ==
  \A l \in Lookup :
    lookup[l] = "done" =>
      \A h \in initial[l] :
        host[h] = "up" => answer[l] # NoHost /\ ~Before(l, h, answer[l])

\* No lookup deletes the session of a host that is up, even if the lookup
\* decided long before: a host that was added stays registered while it is up.
LiveStaysRegistered ==
  \A h \in Host : host[h] = "up" /\ stamp[h] # 0 => h \in entries

\* A lookup that finds nothing leaves none of the sessions it has tried behind.
DeadAreForgotten ==
  \A l \in Lookup :
    lookup[l] = "done" /\ answer[l] = NoHost => initial[l] \cap entries = {}

\* Every lookup returns, however many sessions are added while it runs.
LookupsEnd == \A l \in Lookup : lookup[l] = "next" ~> lookup[l] = "done"
=============================================================================
