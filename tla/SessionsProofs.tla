---------------------------- MODULE SessionsProofs ----------------------------
(***************************************************************************)
(* What a lookup among the editor sessions guarantees, for any number of   *)
(* extension hosts and of overlapping lookups.                             *)
(***************************************************************************)
EXTENDS Sessions, FiniteSetTheorems, TLAPS

\* A host is registered at most once, and not before it listens.
Registered ==
  /\ \A h \in Host : host[h] = "new" => stamp[h] = 0 /\ h \notin adding
  /\ \A h \in adding : stamp[h] = 0
  /\ \A h \in deleting : host[h] = "ended"
  /\ \A h \in entries : stamp[h] # 0

\* What a lookup in progress has not looked at yet is still a candidate.
Searching(l) ==
  /\ \A h \in candidates[l] \cup initial[l] : stamp[h] # 0
  /\ answer[l] # NoHost => stamp[answer[l]] # 0
  /\ lookup[l] \in {"next", "failed"} =>
       /\ answer[l] = NoHost
       /\ \A h \in initial[l] : host[h] = "up" => h \in candidates[l]
       /\ initial[l] \cap entries \subseteq candidates[l]

\* The candidate of a lookup that is about to delete it is not up.
Failing(l) ==
  lookup[l] = "failed" => \A h \in Host : First(l, h) => host[h] = "ended"

LInv ==
  /\ TypeOK
  /\ Registered
  /\ \A l \in Lookup : Searching(l) /\ Failing(l)
  /\ BestLiveWins
  /\ LiveStaysRegistered
  /\ DeadAreForgotten

-----------------------------------------------------------------------------
\* At most one candidate has its turn.
LEMMA OneFirst ==
  ASSUME TypeOK, NEW l \in Lookup, NEW g \in Host, NEW h \in Host,
         First(l, g), First(l, h)
  PROVE  g = h
<1> SUFFICES ASSUME g # h PROVE FALSE
  OBVIOUS
<1>1. stamp[g] \in Nat /\ stamp[h] \in Nat
  BY DEF TypeOK
<1>2. Before(l, g, h) /\ Before(l, h, g)
  BY DEF First
<1> QED
  BY <1>1, <1>2 DEF Before

\* Of two hosts one is not before the other.
LEMMA BeforeAsymmetric ==
  ASSUME TypeOK, NEW l \in Lookup, NEW g \in Host, NEW h \in Host, Before(l, g, h)
  PROVE  ~Before(l, h, g)
<1>1. stamp[g] \in Nat /\ stamp[h] \in Nat
  BY DEF TypeOK
<1> QED
  BY <1>1 DEF Before

\* The place that addSession() gives is a number of its own.
LEMMA PlaceIsNat ==
  1 + Cardinality({g \in Host : stamp[g] # 0}) \in Nat \ {0}
<1>1. IsFiniteSet({g \in Host : stamp[g] # 0})
  BY HostAssumption, FS_Subset
<1> QED
  BY <1>1, FS_CardinalityType

-----------------------------------------------------------------------------
\* A step of a host or of one of its requests.
LEMMA HostStep ==
  ASSUME LInv, NEW h \in Host,
         StartHost(h) \/ Terminate(h) \/ Kill(h) \/ LoseRequest(h)
  PROVE  LInv'
<1>1. /\ UNCHANGED <<entries, stamp, lookupVars>>
      /\ TypeOK' /\ Registered'
  BY DEF LInv, TypeOK, Registered, StartHost, Terminate, Kill, LoseRequest, lookupVars
<1>2. \A g \in Host : /\ stamp[g] # 0 /\ host'[g] = "up" => host[g] = "up"
                      /\ host[g] = "ended" => host'[g] = "ended"
  BY DEF LInv, TypeOK, Registered, StartHost, Terminate, Kill, LoseRequest
<1>3. \A l \in Lookup : candidates[l] \subseteq Host /\ initial[l] \subseteq Host
  BY DEF LInv, TypeOK
<1>4. ASSUME NEW l \in Lookup PROVE Searching(l)' /\ Failing(l)'
  BY <1>1, <1>2, <1>3 DEF LInv, Searching, Failing, First, Before, lookupVars
<1>5. BestLiveWins'
  BY <1>1, <1>2, <1>3 DEF LInv, BestLiveWins, Searching, Before, lookupVars
<1>6. LiveStaysRegistered' /\ DeadAreForgotten'
  BY <1>1, <1>2 DEF LInv, LiveStaysRegistered, DeadAreForgotten, lookupVars
<1> QED
  BY <1>1, <1>4, <1>5, <1>6 DEF LInv

\* A host that is added takes the next place.
LEMMA AddStep ==
  ASSUME LInv, NEW h \in Host, AddSession(h)
  PROVE  LInv'
<1>1. PICK n \in Nat \ {0} : stamp' = [stamp EXCEPT ![h] = n]
  BY PlaceIsNat DEF AddSession
<1>2. /\ h \in adding /\ adding' = adding \ {h} /\ entries' = entries \cup {h}
      /\ UNCHANGED <<host, deleting, lookupVars>>
  BY DEF AddSession
<1>3. stamp[h] = 0 /\ h \notin entries
  BY <1>2 DEF LInv, Registered
<1>4. /\ \A g \in Host : g # h => stamp'[g] = stamp[g]
      /\ stamp'[h] # 0
  BY <1>1 DEF LInv, TypeOK
<1>5. TypeOK'
  BY <1>1, <1>2 DEF LInv, TypeOK, lookupVars
<1>6. Registered'
  BY <1>2, <1>4 DEF LInv, Registered, TypeOK
<1>7. ASSUME NEW l \in Lookup
      PROVE  /\ h \notin candidates[l] /\ h \notin initial[l]
             /\ answer[l] # h
             /\ candidates[l] \subseteq Host /\ initial[l] \subseteq Host
  BY <1>3, HostAssumption DEF LInv, Searching, TypeOK
<1>8. ASSUME NEW l \in Lookup PROVE Searching(l)' /\ Failing(l)'
  <2>1. Searching(l)'
    <3>1. answer[l] # NoHost => stamp'[answer[l]] = stamp[answer[l]]
      BY <1>4, <1>7 DEF LInv, TypeOK
    <3> QED
      BY <1>2, <1>4, <1>7, <3>1 DEF LInv, Searching, lookupVars
  <2>2. \A g, k \in candidates[l] : Before(l, g, k)' <=> Before(l, g, k)
    BY <1>2, <1>4, <1>7 DEF Before, lookupVars
  <2>3. \A g \in Host : First(l, g)' <=> First(l, g)
    BY <1>2, <2>2 DEF First, lookupVars
  <2> QED
    BY <1>2, <2>1, <2>3 DEF LInv, Failing, lookupVars
<1>9. BestLiveWins'
  <2> SUFFICES ASSUME NEW l \in Lookup, lookup[l] = "done", NEW g \in initial[l], host[g] = "up"
               PROVE  answer[l] # NoHost /\ ~Before(l, g, answer[l])'
    BY <1>2 DEF BestLiveWins, lookupVars
  <2>1. answer[l] # NoHost /\ ~Before(l, g, answer[l])
    BY DEF LInv, BestLiveWins
  <2>2. g \in Host /\ answer[l] \in Host /\ g # h
    BY <1>7, <2>1 DEF LInv, TypeOK
  <2>3. answer[l] # h
    BY <1>3, <2>1 DEF LInv, Searching
  <2> QED
    BY <1>2, <1>4, <2>1, <2>2, <2>3 DEF Before, lookupVars
<1>10. LiveStaysRegistered'
  BY <1>2, <1>4 DEF LInv, LiveStaysRegistered
<1>11. DeadAreForgotten'
  BY <1>2, <1>7 DEF LInv, DeadAreForgotten, lookupVars
<1> QED
  BY <1>5, <1>6, <1>8, <1>9, <1>10, <1>11 DEF LInv

\* A host's own request takes its entry away; the host has ended.
LEMMA DeleteStep ==
  ASSUME LInv, NEW h \in Host, DeleteSession(h)
  PROVE  LInv'
<1>1. /\ h \in deleting /\ deleting' = deleting \ {h} /\ entries' = entries \ {h}
      /\ UNCHANGED <<host, adding, stamp, lookupVars>>
  BY DEF DeleteSession
<1>2. host[h] = "ended"
  BY <1>1 DEF LInv, Registered
<1>3. TypeOK' /\ Registered'
  BY <1>1 DEF LInv, TypeOK, Registered, lookupVars
<1>4. ASSUME NEW l \in Lookup PROVE Searching(l)' /\ Failing(l)'
  BY <1>1 DEF LInv, Searching, Failing, First, Before, lookupVars
<1>5. BestLiveWins' /\ LiveStaysRegistered' /\ DeadAreForgotten'
  BY <1>1, <1>2 DEF LInv, BestLiveWins, LiveStaysRegistered, DeadAreForgotten, Before, lookupVars
<1> QED
  BY <1>3, <1>4, <1>5 DEF LInv

\* A lookup starts from what is registered.
LEMMA BeginStep ==
  ASSUME LInv, NEW l \in Lookup, NEW m \in SUBSET entries, Begin(l, m)
  PROVE  LInv'
<1>1. UNCHANGED <<hostVars, entries, stamp>>
  BY DEF Begin
<1>2. /\ lookup' = [lookup EXCEPT ![l] = "next"]
      /\ matching' = [matching EXCEPT ![l] = m]
      /\ candidates' = [candidates EXCEPT ![l] = entries]
      /\ answer' = [answer EXCEPT ![l] = NoHost]
      /\ initial' = [initial EXCEPT ![l] = entries]
  BY DEF Begin
<1>3. TypeOK'
  BY <1>1, <1>2 DEF LInv, TypeOK, hostVars
<1>4. Registered' /\ LiveStaysRegistered'
  BY <1>1 DEF LInv, Registered, LiveStaysRegistered, hostVars
<1>5. /\ lookup'[l] = "next" /\ candidates'[l] = entries
      /\ answer'[l] = NoHost /\ initial'[l] = entries
  BY <1>2 DEF LInv, TypeOK
<1>6. \A k \in Lookup : k # l =>
        /\ lookup'[k] = lookup[k] /\ matching'[k] = matching[k]
        /\ candidates'[k] = candidates[k] /\ answer'[k] = answer[k]
        /\ initial'[k] = initial[k]
  BY <1>2 DEF LInv, TypeOK
<1>7. Searching(l)' /\ Failing(l)'
  <2>1. \A h \in entries : stamp[h] # 0 /\ h \in Host
    BY DEF LInv, Registered, TypeOK
  <2> QED
    BY <1>1, <1>5, <2>1 DEF Searching, Failing
<1>8. ASSUME NEW k \in Lookup, k # l PROVE Searching(k)' /\ Failing(k)'
  BY <1>1, <1>6, <1>8 DEF LInv, Searching, Failing, First, Before, hostVars
<1>9. BestLiveWins' /\ DeadAreForgotten'
  BY <1>1, <1>5, <1>6 DEF LInv, BestLiveWins, DeadAreForgotten, Before, hostVars
<1> QED
  BY <1>3, <1>4, <1>7, <1>8, <1>9 DEF LInv

\* A lookup that connects has found the best of those that are up.
LEMMA ConnectedStep ==
  ASSUME LInv, NEW l \in Lookup, Connected(l)
  PROVE  LInv'
<1>1. PICK h \in Host : First(l, h) /\ host[h] = "up" /\ answer' = [answer EXCEPT ![l] = h]
  BY DEF Connected
<1>2. /\ lookup[l] = "next"
      /\ lookup' = [lookup EXCEPT ![l] = "done"]
      /\ candidates' = [candidates EXCEPT ![l] = {}]
      /\ UNCHANGED <<hostVars, entries, stamp, matching, initial>>
  BY DEF Connected
<1>3. TypeOK' /\ Registered' /\ LiveStaysRegistered'
  BY <1>1, <1>2 DEF LInv, TypeOK, Registered, LiveStaysRegistered, hostVars
<1>4. lookup'[l] = "done" /\ candidates'[l] = {} /\ answer'[l] = h /\ h # NoHost
  BY <1>1, <1>2, HostAssumption DEF LInv, TypeOK
<1>5. \A k \in Lookup : k # l =>
        /\ lookup'[k] = lookup[k] /\ candidates'[k] = candidates[k] /\ answer'[k] = answer[k]
  BY <1>1, <1>2 DEF LInv, TypeOK
<1>6. stamp[h] # 0
  BY <1>1 DEF First, LInv, Searching
<1>7. Searching(l)' /\ Failing(l)'
  BY <1>2, <1>4, <1>6 DEF LInv, Searching, Failing
<1>8. ASSUME NEW k \in Lookup, k # l PROVE Searching(k)' /\ Failing(k)'
  BY <1>2, <1>5, <1>8 DEF LInv, Searching, Failing, First, Before, hostVars
<1>9. ASSUME NEW g \in initial[l], host[g] = "up" PROVE ~Before(l, g, h)
  <2>1. g \in candidates[l] /\ g \in Host
    BY <1>2, <1>9 DEF LInv, Searching, TypeOK
  <2>2. CASE g = h
    BY <2>2 DEF Before, LInv, TypeOK
  <2>3. CASE g # h
    <3>1. Before(l, h, g)
      BY <1>1, <2>1, <2>3 DEF First
    <3> QED
      BY <2>1, <3>1, BeforeAsymmetric DEF LInv
  <2> QED
    BY <2>2, <2>3
<1>10. BestLiveWins' /\ DeadAreForgotten'
  BY <1>2, <1>4, <1>5, <1>9 DEF LInv, BestLiveWins, DeadAreForgotten, Before, hostVars
<1> QED
  BY <1>3, <1>7, <1>8, <1>10 DEF LInv

\* A refused connection: the host was registered, so it has ended for good.
LEMMA RefusedStep ==
  ASSUME LInv, NEW l \in Lookup, Refused(l)
  PROVE  LInv'
<1>1. PICK h \in Host : First(l, h) /\ host[h] # "up"
  BY DEF Refused
<1>2. /\ lookup[l] = "next" /\ lookup' = [lookup EXCEPT ![l] = "failed"]
      /\ UNCHANGED <<hostVars, entries, stamp, matching, candidates, answer, initial>>
  BY DEF Refused
<1>3. TypeOK' /\ Registered' /\ LiveStaysRegistered'
  BY <1>2 DEF LInv, TypeOK, Registered, LiveStaysRegistered, hostVars
<1>4. lookup'[l] = "failed" /\ \A k \in Lookup : k # l => lookup'[k] = lookup[k]
  BY <1>2 DEF LInv, TypeOK
<1>5. host[h] = "ended"
  <2>1. stamp[h] # 0
    BY <1>1 DEF First, LInv, Searching
  <2> QED
    BY <1>1, <2>1 DEF LInv, TypeOK, Registered
<1>6. \A g \in Host : First(l, g) => g = h
  BY <1>1, OneFirst DEF LInv
<1>7. ASSUME NEW k \in Lookup PROVE Searching(k)'
  BY <1>2, <1>4 DEF LInv, Searching, hostVars
<1>8. ASSUME NEW k \in Lookup PROVE Failing(k)'
  BY <1>2, <1>4, <1>5, <1>6 DEF LInv, Failing, First, Before, hostVars
<1>9. BestLiveWins' /\ DeadAreForgotten'
  BY <1>2, <1>4 DEF LInv, BestLiveWins, DeadAreForgotten, Before, hostVars
<1> QED
  BY <1>3, <1>7, <1>8, <1>9 DEF LInv

\* What is pruned has ended.
LEMMA PruneStep ==
  ASSUME LInv, NEW l \in Lookup, Prune(l)
  PROVE  LInv'
<1>1. PICK h \in Host :
        /\ First(l, h) /\ entries' = entries \ {h}
        /\ candidates' = [candidates EXCEPT ![l] = @ \ {h}]
  BY DEF Prune
<1>2. /\ lookup[l] = "failed" /\ lookup' = [lookup EXCEPT ![l] = "next"]
      /\ UNCHANGED <<hostVars, stamp, matching, answer, initial>>
  BY DEF Prune
<1>3. host[h] = "ended"
  BY <1>1, <1>2 DEF LInv, Failing
<1>4. TypeOK'
  BY <1>1, <1>2 DEF LInv, TypeOK, hostVars
<1>5. Registered' /\ LiveStaysRegistered'
  BY <1>1, <1>2, <1>3 DEF LInv, Registered, LiveStaysRegistered, hostVars
<1>6. /\ lookup'[l] = "next" /\ candidates'[l] = candidates[l] \ {h}
      /\ \A k \in Lookup : k # l => lookup'[k] = lookup[k] /\ candidates'[k] = candidates[k]
  BY <1>1, <1>2 DEF LInv, TypeOK
<1>7. Searching(l)' /\ Failing(l)'
  BY <1>1, <1>2, <1>3, <1>6 DEF LInv, Searching, Failing, hostVars
<1>8. ASSUME NEW k \in Lookup, k # l PROVE Searching(k)' /\ Failing(k)'
  BY <1>1, <1>2, <1>6, <1>8 DEF LInv, Searching, Failing, First, Before, hostVars
<1>9. BestLiveWins' /\ DeadAreForgotten'
  BY <1>1, <1>2, <1>6 DEF LInv, BestLiveWins, DeadAreForgotten, Before, hostVars
<1> QED
  BY <1>4, <1>5, <1>7, <1>8, <1>9 DEF LInv

\* A lookup that has tried all candidates.
LEMMA ExhaustedStep ==
  ASSUME LInv, NEW l \in Lookup, Exhausted(l)
  PROVE  LInv'
<1>1. /\ lookup[l] = "next" /\ candidates[l] = {}
      /\ lookup' = [lookup EXCEPT ![l] = "done"]
      /\ UNCHANGED <<hostVars, entries, stamp, matching, candidates, answer, initial>>
  BY DEF Exhausted
<1>2. TypeOK' /\ Registered' /\ LiveStaysRegistered'
  BY <1>1 DEF LInv, TypeOK, Registered, LiveStaysRegistered, hostVars
<1>3. lookup'[l] = "done" /\ \A k \in Lookup : k # l => lookup'[k] = lookup[k]
  BY <1>1 DEF LInv, TypeOK
<1>4. ASSUME NEW k \in Lookup PROVE Searching(k)' /\ Failing(k)'
  BY <1>1, <1>3 DEF LInv, Searching, Failing, First, Before, hostVars
<1>5. BestLiveWins' /\ DeadAreForgotten'
  BY <1>1, <1>3 DEF LInv, Searching, BestLiveWins, DeadAreForgotten, Before, hostVars
<1> QED
  BY <1>2, <1>4, <1>5 DEF LInv

-----------------------------------------------------------------------------
\* The inductive invariant.
THEOREM Invariance == Spec => []LInv
<1>1. Init => LInv
  BY DEF Init, LInv, TypeOK, Registered, Searching, Failing, BestLiveWins,
         LiveStaysRegistered, DeadAreForgotten
<1>2. LInv /\ [Next]_vars => LInv'
  <2> SUFFICES ASSUME LInv, [Next]_vars PROVE LInv'
    OBVIOUS
  <2>1. CASE UNCHANGED vars
    BY <2>1 DEF vars, LInv, TypeOK, Registered, Searching, Failing, BestLiveWins,
                LiveStaysRegistered, DeadAreForgotten, First, Before
  <2>2. CASE Next
    BY <2>2, HostStep, AddStep, DeleteStep, BeginStep, ConnectedStep, RefusedStep,
       PruneStep, ExhaustedStep
       DEF Next, LookupStep
  <2> QED
    BY <2>1, <2>2
<1> QED
  BY <1>1, <1>2, PTL DEF Spec

\* The variables of the registry keep their types.
THEOREM TypeCorrect == Spec => []TypeOK
<1>1. LInv => TypeOK
  BY DEF LInv
<1> QED
  BY <1>1, Invariance, PTL

\* A lookup answers with the best of the sessions whose hosts are still up.
THEOREM BestIsAnswered == Spec => []BestLiveWins
<1>1. LInv => BestLiveWins
  BY DEF LInv
<1> QED
  BY <1>1, Invariance, PTL

\* No lookup takes out the session of a host that is up.
THEOREM LiveIsKept == Spec => []LiveStaysRegistered
<1>1. LInv => LiveStaysRegistered
  BY DEF LInv
<1> QED
  BY <1>1, Invariance, PTL

\* A lookup that finds nothing leaves nothing behind.
THEOREM DeadAreDeleted == Spec => []DeadAreForgotten
<1>1. LInv => DeadAreForgotten
  BY DEF LInv
<1> QED
  BY <1>1, Invariance, PTL
=============================================================================
