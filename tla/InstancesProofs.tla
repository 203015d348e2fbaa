---------------------------- MODULE InstancesProofs ----------------------------
(***************************************************************************)
(* What servers for one user data directory guarantee to each other, for   *)
(* any number of processes (as long as there are paths for them), sockets, *)
(* starts and uses.                                                        *)
(***************************************************************************)
EXTENDS Instances, FiniteSetTheorems, TLAPS

----------------------------------------------------------------------------
(* The invariants.                                                         *)

\* A process that is about to take a path, or has taken it.
Busy(p) == Taking(p) \/ server[p] = "listening"

\* Whose file is at a path listens there, and two processes meet at a path
\* only if it is contested.  Only processes that have all the paths below k
\* taken by others get to k, so there are the fewer the higher it is.
ProxyInv ==
  /\ \A x \in 0 .. MaxTries :
       bound[x] \in Process => server[bound[x]] = "listening" /\ pipe[bound[x]] = x
  /\ \A p, q \in Process : p # q /\ Busy(p) /\ Busy(q) /\ pipe[p] = pipe[q] =>
       pipe[p] \in contested
  /\ \A p \in Process : server[p] = "removed" /\ pipe[p] \notin contested =>
       bound[pipe[p]] = Nobody
  /\ \A k \in 0 .. MaxTries :
       Cardinality({p \in Process : pipe[p] >= k}) <= MaxTries + 1 - k
  /\ UncontestedPipeIsKept

\* Only one process ever fills the configuration; nobody has a password
\* before.
ConfigInv ==
  /\ \A p \in Process : phase[p] \in {"writing", "reading"} => config # "absent"
  /\ \A p, q \in Process : phase[p] = "writing" /\ phase[q] = "writing" => p = q
  /\ \A p \in Process : phase[p] = "writing" => config = "empty"
  /\ "config" \notin disturbed =>
       /\ \A p \in Process : password[p] \in {None, config}
       /\ config = "empty" => \E p \in Process : phase[p] = "writing"

\* Unless the key is disturbed one process at a time is at it, and what it
\* has seen of the file still holds.
KeyInv ==
  "key" \notin disturbed =>
    /\ \A p, q \in Process :
         /\ minting[p] \in {"reading", "generated", "filling"}
         /\ minting[q] \in {"reading", "generated", "filling"}
         => p = q
    /\ \A p \in Process : minting[p] = "generated" => key = "absent"
    /\ \A p \in Process : minting[p] = "filling" => key = "empty"
    /\ \A p \in Process : minted[p] \in {None, key} \ {"empty"}
    /\ key = "empty" => \E p \in Process : minting[p] = "filling"

\* Who takes the session socket has the port, and keeps both.
SessionInv ==
  /\ serving \subseteq {p \in Process : phase[p] = "up"}
  /\ onePort =>
       /\ \A p, q \in listening : p = q
       /\ \A p \in Process : phase[p] \in {"unlinking", "binding", "up"} => p \in listening
       /\ \A p \in serving : session = p

IInv == TypeOK /\ ProxyInv /\ ConfigInv /\ KeyInv /\ SessionInv

----------------------------------------------------------------------------
(* The pipes.                                                              *)

Above(k) == {p \in Process : pipe[p] >= k}

\* The highest path is for one process at most.
LEMMA LastIsFree ==
  ASSUME ProxyTypeOK, ProxyInv, NEW p \in Process, NEW q \in Process,
         pipe[p] = MaxTries, pipe[q] = MaxTries
  PROVE  p = q
<1>1. IsFiniteSet(Above(MaxTries))
  BY PathsAssumption, FS_Subset DEF Above
<1>2. Cardinality(Above(MaxTries)) <= 1
  BY PathsAssumption DEF ProxyInv, Above
<1>3. p \in Above(MaxTries) /\ q \in Above(MaxTries)
  BY PathsAssumption DEF Above
<1>4. CASE p # q
  <2>1. /\ IsFiniteSet({p, q}) /\ Cardinality({p, q}) = 2
    <3>1. IsFiniteSet({p}) /\ Cardinality({p}) = 1
      BY FS_Singleton
    <3>2. {p, q} = {p} \cup {q}
      OBVIOUS
    <3> QED
      BY <1>4, <3>1, <3>2, FS_AddElement
  <2>2. {p, q} \in SUBSET Above(MaxTries)
    BY <1>3
  <2>3. Cardinality({p, q}) <= Cardinality(Above(MaxTries))
    BY <1>1, <2>2, FS_Subset
  <2>4. Cardinality(Above(MaxTries)) \in Nat
    BY <1>1, FS_CardinalityType
  <2> QED
    BY <1>2, <2>1, <2>3, <2>4
<1> QED
  BY <1>4

\* Who passes a path over leaves the one that listens there behind.
LEMMA PassOver ==
  ASSUME ProxyTypeOK, ProxyInv, NEW p \in Process, server[p] = "searching",
         CanConnect(pipe[p]), pipe[p] < MaxTries,
         pipe' = [pipe EXCEPT ![p] = @ + 1]
  PROVE  \A k \in 0 .. MaxTries :
           Cardinality({q \in Process : pipe'[q] >= k}) <= MaxTries + 1 - k
<1> SUFFICES ASSUME NEW k \in 0 .. MaxTries
             PROVE  Cardinality(Above(k)') <= MaxTries + 1 - k
  BY DEF Above
<1>1. IsFiniteSet(Above(k)) /\ Cardinality(Above(k)) <= MaxTries + 1 - k
  BY PathsAssumption, FS_Subset DEF ProxyInv, Above
<1>2. pipe \in [Process -> 0 .. MaxTries] /\ k \in Nat /\ MaxTries \in Nat
  BY PathsAssumption DEF ProxyTypeOK
<1>3. CASE k # pipe[p] + 1
  <2>1. Above(k)' = Above(k)
    BY <1>2, <1>3 DEF Above
  <2> QED
    BY <1>1, <2>1
<1>4. CASE k = pipe[p] + 1
  <2> DEFINE q == bound[pipe[p]]
  <2>1. q \in Process /\ q # p /\ pipe[q] = pipe[p]
    BY <1>2 DEF ProxyInv, CanConnect
  <2>2. IsFiniteSet(Above(pipe[p])) /\ Cardinality(Above(pipe[p])) <= MaxTries + 1 - pipe[p]
    BY <1>2, PathsAssumption, FS_Subset DEF ProxyInv, Above
  <2>3. q \in Above(pipe[p])
    BY <1>2, <2>1 DEF Above
  <2>4. Above(k)' \in SUBSET (Above(pipe[p]) \ {q})
    BY <1>2, <1>4, <2>1 DEF Above
  <2> HIDE DEF q
  <2>5. /\ IsFiniteSet(Above(pipe[p]) \ {q})
        /\ Cardinality(Above(pipe[p]) \ {q}) = Cardinality(Above(pipe[p])) - 1
    BY <2>2, <2>3, FS_RemoveElement
  <2>6. Cardinality(Above(k)') <= Cardinality(Above(pipe[p]) \ {q})
    BY <2>4, <2>5, FS_Subset
  <2>7. Cardinality(Above(k)') \in Nat /\ Cardinality(Above(pipe[p])) \in Nat
    BY <2>2, <2>4, <2>5, FS_Subset, FS_CardinalityType
  <2> QED
    BY <1>2, <1>4, <2>2, <2>5, <2>6, <2>7
<1> QED
  BY <1>3, <1>4

\* A look at a path: it is passed over, or nobody listens there.
LEMMA ProbeKeepsProxy ==
  ASSUME ProxyTypeOK, ProxyInv, NEW p \in Process, Probe(p)
  PROVE  ProxyInv'
<1>1. /\ server[p] = "searching" /\ ~Busy(p) /\ bound' = bound
      /\ contested \subseteq contested'
  BY DEF Probe, Busy, Taking
<1>2. CASE CanConnect(pipe[p]) /\ pipe[p] < MaxTries
  <2>1. pipe' = [pipe EXCEPT ![p] = @ + 1] /\ UNCHANGED <<server, contested>>
    BY <1>2 DEF Probe
  <2>2. \A q \in Process : q # p => pipe'[q] = pipe[q]
    BY <2>1 DEF ProxyTypeOK
  <2>3. \A k \in 0 .. MaxTries :
          Cardinality({q \in Process : pipe'[q] >= k}) <= MaxTries + 1 - k
    BY <1>1, <1>2, <2>1, PassOver
  <2>4. \A x \in 0 .. MaxTries : bound'[x] \in Process =>
          server'[bound'[x]] = "listening" /\ pipe'[bound'[x]] = x
    BY <1>1, <2>1, <2>2 DEF ProxyInv
  <2>5. \A u, v \in Process : u # v /\ Busy(u)' /\ Busy(v)' /\ pipe'[u] = pipe'[v] =>
          pipe'[u] \in contested'
    BY <1>1, <2>1, <2>2 DEF ProxyInv, Busy, Taking
  <2>6. \A q \in Process : server'[q] = "removed" /\ pipe'[q] \notin contested' =>
          bound'[pipe'[q]] = Nobody
    BY <1>1, <2>1, <2>2 DEF ProxyInv
  <2>7. UncontestedPipeIsKept'
    BY <1>1, <2>1, <2>2 DEF ProxyInv, UncontestedPipeIsKept
  <2> QED
    BY <2>3, <2>4, <2>5, <2>6, <2>7 DEF ProxyInv
<1>3. CASE ~(CanConnect(pipe[p]) /\ pipe[p] < MaxTries)
  <2>1. /\ server' = [server EXCEPT ![p] = "found"] /\ pipe' = pipe
        /\ contested' = contested \cup
             {x \in {pipe[p]} : \E q \in Process \ {p} : Taking(q) /\ pipe[q] = x}
    BY <1>3 DEF Probe
  <2>2. \A q \in Process \ {p} : Busy(q) /\ pipe[q] = pipe[p] => pipe[p] \in contested'
    <3> SUFFICES ASSUME NEW q \in Process \ {p}, Busy(q), pipe[q] = pipe[p],
                        pipe[p] \notin contested'
                 PROVE  FALSE
      OBVIOUS
    <3>1. server[q] = "listening"
      BY <2>1 DEF Busy
    <3>2. bound[pipe[p]] = q
      BY <1>1, <3>1 DEF ProxyInv, UncontestedPipeIsKept
    <3>3. pipe[p] = MaxTries
      BY <1>3, <3>2, PathsAssumption DEF CanConnect, ProxyTypeOK
    <3> QED
      BY <3>3, LastIsFree
  <2>3. \A q \in Process : q # p => server'[q] = server[q]
    BY <2>1 DEF ProxyTypeOK
  <2>4. server'[p] = "found"
    BY <2>1 DEF ProxyTypeOK
  <2>5. \A x \in 0 .. MaxTries : bound'[x] \in Process =>
          server'[bound'[x]] = "listening" /\ pipe'[bound'[x]] = x
    BY <1>1, <2>1, <2>3 DEF ProxyInv
  <2>6. \A u, v \in Process : u # v /\ Busy(u)' /\ Busy(v)' /\ pipe'[u] = pipe'[v] =>
          pipe'[u] \in contested'
    BY <1>1, <2>1, <2>2, <2>3 DEF ProxyInv, Busy, Taking
  <2>7. \A q \in Process : server'[q] = "removed" /\ pipe'[q] \notin contested' =>
          bound'[pipe'[q]] = Nobody
    BY <1>1, <2>1, <2>3, <2>4 DEF ProxyInv
  <2>8. UncontestedPipeIsKept'
    BY <1>1, <2>1, <2>3, <2>4 DEF ProxyInv, UncontestedPipeIsKept
  <2> QED
    BY <2>1, <2>5, <2>6, <2>7, <2>8 DEF ProxyInv
<1> QED
  BY <1>2, <1>3

\* What is removed at an uncontested path is nobody's.
LEMMA RemoveKeepsProxy ==
  ASSUME ProxyTypeOK, ProxyInv, NEW p \in Process, Remove(p)
  PROVE  ProxyInv'
<1>1. /\ server[p] = "found" /\ Busy(p) /\ pipe' = pipe /\ contested' = contested
      /\ \A q \in Process : q # p => server'[q] = server[q]
      /\ \/ bound' = [bound EXCEPT ![pipe[p]] = Nobody] /\ server'[p] = "removed"
         \/ bound' = bound /\ server'[p] = "failed"
  BY DEF Remove, Busy, Taking, ProxyTypeOK
<1>2. \A x \in 0 .. MaxTries : bound'[x] = IF x = pipe[p] /\ server'[p] = "removed" THEN Nobody ELSE bound[x]
  BY <1>1 DEF ProxyTypeOK
<1>3. \A x \in 0 .. MaxTries : bound'[x] \in Process =>
        server'[bound'[x]] = "listening" /\ pipe'[bound'[x]] = x
  BY <1>1, <1>2, NobodyAssumption DEF ProxyInv
<1>4. \A u, v \in Process : u # v /\ Busy(u)' /\ Busy(v)' /\ pipe'[u] = pipe'[v] =>
        pipe'[u] \in contested'
  BY <1>1 DEF ProxyInv, Busy, Taking
<1>5. \A q \in Process : server'[q] = "removed" /\ pipe'[q] \notin contested' =>
        bound'[pipe'[q]] = Nobody
  BY <1>1, <1>2 DEF ProxyInv, ProxyTypeOK
<1>6. UncontestedPipeIsKept'
  <2> SUFFICES ASSUME NEW q \in Process, pipe[q] \notin contested
               PROVE  /\ server'[q] = "listening" => bound'[pipe[q]] = q
                      /\ server'[q] # "taken"
    BY <1>1 DEF UncontestedPipeIsKept
  <2>1. server'[q] = "listening" => q # p /\ server[q] = "listening" /\ Busy(q)
    BY <1>1 DEF Busy
  <2>2. server'[q] = "listening" => pipe[q] # pipe[p]
    BY <1>1, <2>1 DEF ProxyInv
  <2> QED
    BY <1>1, <1>2, <2>1, <2>2 DEF ProxyInv, UncontestedPipeIsKept, ProxyTypeOK
<1> QED
  BY <1>1, <1>3, <1>4, <1>5, <1>6 DEF ProxyInv

\* An uncontested path is still free when it is bound.
LEMMA BindKeepsProxy ==
  ASSUME ProxyTypeOK, ProxyInv, NEW p \in Process, Bind(p)
  PROVE  ProxyInv'
<1>1. /\ server[p] = "removed" /\ Busy(p) /\ pipe' = pipe /\ contested' = contested
      /\ \A q \in Process : q # p => server'[q] = server[q]
      /\ \/ bound' = bound /\ server'[p] = "taken" /\ bound[pipe[p]] # Nobody
         \/ bound' = bound /\ server'[p] \in {"closed", "broken"}
         \/ /\ bound' = [bound EXCEPT ![pipe[p]] = p] /\ server'[p] = "listening"
            /\ bound[pipe[p]] = Nobody
  BY DEF Bind, Busy, Taking, ProxyTypeOK
<1>2. \A x \in 0 .. MaxTries :
        \/ bound'[x] = bound[x]
        \/ x = pipe[p] /\ bound'[x] = p /\ server'[p] = "listening"
  BY <1>1 DEF ProxyTypeOK
<1>3. \A x \in 0 .. MaxTries : bound'[x] \in Process =>
        server'[bound'[x]] = "listening" /\ pipe'[bound'[x]] = x
  BY <1>1, <1>2 DEF ProxyInv
<1>4. \A u, v \in Process : u # v /\ Busy(u)' /\ Busy(v)' /\ pipe'[u] = pipe'[v] =>
        pipe'[u] \in contested'
  BY <1>1 DEF ProxyInv, Busy, Taking
<1>5. \A q \in Process : server'[q] = "removed" /\ pipe'[q] \notin contested' =>
        bound'[pipe'[q]] = Nobody
  <2> SUFFICES ASSUME NEW q \in Process, server'[q] = "removed", pipe[q] \notin contested
               PROVE  bound'[pipe[q]] = Nobody
    BY <1>1
  <2>1. q # p /\ server[q] = "removed" /\ Busy(q)
    BY <1>1 DEF Busy, Taking
  <2>2. pipe[q] # pipe[p]
    BY <1>1, <2>1 DEF ProxyInv
  <2> QED
    BY <1>2, <2>1, <2>2 DEF ProxyInv, ProxyTypeOK
<1>6. UncontestedPipeIsKept'
  <2> SUFFICES ASSUME NEW q \in Process, pipe[q] \notin contested
               PROVE  /\ server'[q] = "listening" => bound'[pipe[q]] = q
                      /\ server'[q] # "taken"
    BY <1>1 DEF UncontestedPipeIsKept
  <2>1. CASE q = p
    BY <1>1, <2>1 DEF ProxyInv, ProxyTypeOK
  <2>2. CASE q # p
    <3>1. server[q] = "listening" => pipe[q] # pipe[p]
      BY <1>1, <2>2 DEF ProxyInv, Busy
    <3> QED
      BY <1>1, <1>2, <2>2, <3>1 DEF ProxyInv, UncontestedPipeIsKept, ProxyTypeOK
  <2> QED
    BY <2>1, <2>2
<1> QED
  BY <1>1, <1>3, <1>4, <1>5, <1>6 DEF ProxyInv

\* stop() removes a path that is uncontested only if it is its own.
LEMMA StopKeepsProxy ==
  ASSUME ProxyTypeOK, ProxyInv, NEW p \in Process, StopProxy(p)
  PROVE  ProxyInv'
<1>1. pipe' = pipe /\ contested' = contested
  BY DEF StopProxy
<1>2. CASE server[p] # "listening"
  <2>1. server' = server /\ bound' = bound
    BY <1>2 DEF StopProxy
  <2> QED
    BY <1>1, <2>1 DEF ProxyInv, Busy, Taking, UncontestedPipeIsKept
<1>3. CASE server[p] = "listening"
  <2>1. /\ server' = [server EXCEPT ![p] = "closed"]
        /\ bound' = [bound EXCEPT ![pipe[p]] = Nobody]
    BY <1>3 DEF StopProxy
  <2>2. /\ \A q \in Process : q # p => server'[q] = server[q]
        /\ server'[p] = "closed"
        /\ \A x \in 0 .. MaxTries : bound'[x] = IF x = pipe[p] THEN Nobody ELSE bound[x]
    BY <2>1 DEF ProxyTypeOK
  <2>3. \A x \in 0 .. MaxTries : bound'[x] \in Process =>
          server'[bound'[x]] = "listening" /\ pipe'[bound'[x]] = x
    BY <1>1, <2>2, NobodyAssumption DEF ProxyInv
  <2>4. \A u, v \in Process : u # v /\ Busy(u)' /\ Busy(v)' /\ pipe'[u] = pipe'[v] =>
          pipe'[u] \in contested'
    BY <1>1, <2>2 DEF ProxyInv, Busy, Taking
  <2>5. \A q \in Process : server'[q] = "removed" /\ pipe'[q] \notin contested' =>
          bound'[pipe'[q]] = Nobody
    BY <1>1, <2>2 DEF ProxyInv, ProxyTypeOK
  <2>6. UncontestedPipeIsKept'
    <3> SUFFICES ASSUME NEW q \in Process, pipe[q] \notin contested
                 PROVE  /\ server'[q] = "listening" => bound'[pipe[q]] = q
                        /\ server'[q] # "taken"
      BY <1>1 DEF UncontestedPipeIsKept
    <3>1. q # p /\ server[q] = "listening" => pipe[q] # pipe[p]
      BY <1>3 DEF ProxyInv, Busy
    <3> QED
      BY <2>2, <3>1 DEF ProxyInv, UncontestedPipeIsKept, ProxyTypeOK
  <2> QED
    BY <1>1, <2>3, <2>4, <2>5, <2>6 DEF ProxyInv
<1> QED
  BY <1>2, <1>3

\* A process that ends leaves no server behind, and a file that is nobody's.
LEMMA LoseKeepsProxy ==
  ASSUME ProxyTypeOK, ProxyInv, NEW p \in Process, LoseProxy(p)
  PROVE  ProxyInv'
<1>1. /\ contested' = contested
      /\ \A q \in Process : q # p => server'[q] = server[q] /\ pipe'[q] = pipe[q]
      /\ server'[p] = "none" /\ pipe'[p] = 0
      /\ \A x \in 0 .. MaxTries : bound'[x] = IF bound[x] = p THEN Left ELSE bound[x]
  BY DEF LoseProxy, ProxyTypeOK
<1>2. \A x \in 0 .. MaxTries : bound'[x] \in Process =>
        server'[bound'[x]] = "listening" /\ pipe'[bound'[x]] = x
  BY <1>1, NobodyAssumption DEF ProxyInv
<1>3. \A u, v \in Process : u # v /\ Busy(u)' /\ Busy(v)' /\ pipe'[u] = pipe'[v] =>
        pipe'[u] \in contested'
  BY <1>1 DEF ProxyInv, Busy, Taking
<1>4. \A q \in Process : server'[q] = "removed" /\ pipe'[q] \notin contested' =>
        bound'[pipe'[q]] = Nobody
  <2> SUFFICES ASSUME NEW q \in Process, q # p, server[q] = "removed", pipe[q] \notin contested
               PROVE  bound'[pipe[q]] = Nobody
    BY <1>1
  <2>1. bound[pipe[q]] = Nobody
    BY DEF ProxyInv
  <2> QED
    BY <1>1, <2>1, NobodyAssumption DEF ProxyTypeOK
<1>5. \A k \in 0 .. MaxTries :
        Cardinality({q \in Process : pipe'[q] >= k}) <= MaxTries + 1 - k
  <2> SUFFICES ASSUME NEW k \in 0 .. MaxTries
               PROVE  Cardinality(Above(k)') <= MaxTries + 1 - k
    BY DEF Above
  <2>1. CASE k = 0
    <3>1. IsFiniteSet(Above(k)') /\ Cardinality(Above(k)') <= Cardinality(Process)
      BY PathsAssumption, FS_Subset DEF Above
    <3>2. Cardinality(Above(k)') \in Nat /\ Cardinality(Process) \in Nat
      BY <3>1, PathsAssumption, FS_CardinalityType
    <3> QED
      BY <2>1, <3>1, <3>2, PathsAssumption
  <2>2. CASE k # 0
    <3>1. Above(k)' \in SUBSET Above(k)
      BY <1>1, <2>2, PathsAssumption DEF Above
    <3>2. IsFiniteSet(Above(k)) /\ Cardinality(Above(k)) <= MaxTries + 1 - k
      BY PathsAssumption, FS_Subset DEF ProxyInv, Above
    <3>3. IsFiniteSet(Above(k)') /\ Cardinality(Above(k)') <= Cardinality(Above(k))
      BY <3>1, <3>2, FS_Subset
    <3>4. Cardinality(Above(k)') \in Nat /\ Cardinality(Above(k)) \in Nat
      BY <3>2, <3>3, FS_CardinalityType
    <3> QED
      BY <3>2, <3>3, <3>4, PathsAssumption
  <2> QED
    BY <2>1, <2>2
<1>6. UncontestedPipeIsKept'
  BY <1>1 DEF ProxyInv, UncontestedPipeIsKept, ProxyTypeOK
<1> QED
  BY <1>2, <1>3, <1>4, <1>5, <1>6 DEF ProxyInv

\* A search that begins, and what happens to sockets, changes no path.
LEMMA AskKeepsProxy ==
  ASSUME ProxyTypeOK, ProxyInv, UNCHANGED <<pipe, bound, contested>>,
         \/ server' = server
         \/ \E p \in Process : server[p] = "none" /\ server' = [server EXCEPT ![p] = "searching"]
  PROVE  ProxyInv'
<1>1. \A q \in Process :
        \/ server'[q] = server[q]
        \/ server[q] = "none" /\ server'[q] = "searching"
  BY DEF ProxyTypeOK
<1> QED
  BY <1>1 DEF ProxyInv, Busy, Taking, UncontestedPipeIsKept, ProxyTypeOK

\* At first nobody is anywhere.
LEMMA InitProxyInv == ProxyInit => ProxyTypeOK /\ ProxyInv
<1> SUFFICES ASSUME ProxyInit PROVE ProxyTypeOK /\ ProxyInv
  OBVIOUS
<1>1. ProxyTypeOK
  BY PathsAssumption DEF ProxyInit, ProxyTypeOK
<1>2. \A k \in 0 .. MaxTries : Cardinality({p \in Process : pipe[p] >= k}) <= MaxTries + 1 - k
  <2> SUFFICES ASSUME NEW k \in 0 .. MaxTries
               PROVE  Cardinality(Above(k)) <= MaxTries + 1 - k
    BY DEF Above
  <2>1. CASE k = 0
    <3>1. Above(k) = Process
      BY <2>1 DEF ProxyInit, Above
    <3> QED
      BY <2>1, <3>1, PathsAssumption
  <2>2. CASE k # 0
    <3>1. Above(k) = {}
      BY <2>2, PathsAssumption DEF ProxyInit, Above
    <3> QED
      BY <3>1, PathsAssumption, FS_EmptySet
  <2> QED
    BY <2>1, <2>2
<1> QED
  BY <1>1, <1>2, NobodyAssumption DEF ProxyInit, ProxyInv, Busy, Taking, UncontestedPipeIsKept

----------------------------------------------------------------------------
(* The types.                                                              *)

\* What an end, a disposal and a passing on leave of the types.
LEMMA EndsKeepType ==
  ASSUME TypeOK, NEW p \in Process, Dispose(p) \/ Vanish(p)
  PROVE  TypeOK'
<1>1. CASE Dispose(p)
  <2>1. ProxyTypeOK'
    BY <1>1 DEF TypeOK, ProxyTypeOK, Dispose, StopProxy, socketVars
  <2> QED
    BY <1>1, <2>1 DEF TypeOK, Dispose, CloseServers, Goes, configVars, keyVars
<1>2. CASE Vanish(p)
  <2>1. ProxyTypeOK'
    BY <1>2, PathsAssumption DEF TypeOK, ProxyTypeOK, Vanish, LoseProxy
  <2> QED
    BY <1>2, <2>1 DEF TypeOK, Vanish
<1> QED
  BY <1>1, <1>2

\* The steps of a server and of a socket keep the types of the proxy.
LEMMA ProxyStepsKeepType ==
  ASSUME ProxyTypeOK,
         (\E p \in Process : ServerStep(p)) \/ (\E s \in Socket : SocketStep(s))
  PROVE  ProxyTypeOK'
<1> USE PathsAssumption DEF ProxyTypeOK
<1>1. ASSUME NEW p \in Process, ServerStep(p)
      PROVE  ProxyTypeOK'
  <2>1. CASE Probe(p)
    <3>1. pipe' = pipe \/ (pipe[p] < MaxTries /\ pipe' = [pipe EXCEPT ![p] = @ + 1])
      BY <2>1 DEF Probe
    <3>2. pipe' \in [Process -> 0 .. MaxTries]
      BY <3>1
    <3>3. server' = server \/ server' = [server EXCEPT ![p] = "found"]
      BY <2>1 DEF Probe
    <3>4. contested' \subseteq contested \cup {pipe[p]}
      BY <2>1, Zenon DEF Probe
    <3> QED
      BY <2>1, <3>2, <3>3, <3>4 DEF Probe, socketVars
  <2>2. CASE Remove(p)
    BY <2>2 DEF Remove, socketVars
  <2>3. CASE Bind(p)
    <3>1. \E a \in {"listening", "closed", "taken", "broken"} : server' = [server EXCEPT ![p] = a]
      BY <2>3 DEF Bind
    <3>2. bound' = bound \/ bound' = [bound EXCEPT ![pipe[p]] = p]
      BY <2>3 DEF Bind
    <3>3. UNCHANGED <<pipe, contested, stopped, at, home>>
      BY <2>3 DEF Bind, socketVars
    <3>4. server' \in [Process -> {"none", "searching", "found", "removed", "listening",
                                  "closed", "failed", "taken", "broken"}]
      BY <3>1
    <3>5. bound' \in [0 .. MaxTries -> Process \cup {Nobody, Left}]
      BY <3>2
    <3> QED
      BY <3>3, <3>4, <3>5
  <2> QED
    BY <1>1, <2>1, <2>2, <2>3 DEF ServerStep
<1>2. ASSUME NEW s \in Socket, SocketStep(s)
      PROVE  ProxyTypeOK'
  <2>1. /\ UNCHANGED <<serverVars, home>>
        /\ \E a \in {"connecting", "closed", "sent", "refused", "paired"} :
             at' = [at EXCEPT ![s] = a]
    BY <1>2 DEF SocketStep, Connect, Accept, Deliver, TimesOut, Hangup
  <2> QED
    BY <2>1 DEF serverVars
<1> QED
  BY <1>1, <1>2

\* The steps of a process keep the types.
LEMMA ProcessStepsKeepType ==
  ASSUME TypeOK, ConfigInv, NEW p \in Process,
         \/ Start(p) \/ CreateConfig(p) \/ FillConfig(p) \/ ReadConfig(p)
         \/ Listen(p) \/ UnlinkSession(p) \/ BindSession(p)
         \/ MintKey(p) \/ ReadKey(p) \/ OpenKey(p) \/ FillKey(p) \/ LoseKey(p)
         \/ \E q \in Process : Relaunch(q, p)
  PROVE  TypeOK'
<1>1. UNCHANGED proxyVars
  BY DEF Start, CreateConfig, FillConfig, ReadConfig, Listen, UnlinkSession, BindSession,
         MintKey, ReadKey, OpenKey, FillKey, LoseKey, Relaunch
<1>2. ProxyTypeOK'
  BY <1>1 DEF TypeOK, ProxyTypeOK, proxyVars, serverVars, socketVars
<1> USE <1>2, BoundsAssumption DEF TypeOK, Goes, lifeVars, configVars, sessionVars, keyVars
<1>3. CASE Start(p)
  BY <1>3 DEF Start
<1>4. CASE CreateConfig(p)
  BY <1>4 DEF CreateConfig
<1>5. CASE FillConfig(p)
  BY <1>5 DEF FillConfig
<1>6. CASE ReadConfig(p)
  BY <1>6 DEF ReadConfig, ConfigInv
<1>7. CASE Listen(p)
  BY <1>7 DEF Listen
<1>8. CASE UnlinkSession(p)
  BY <1>8 DEF UnlinkSession
<1>9. CASE BindSession(p)
  BY <1>9 DEF BindSession
<1>10. CASE MintKey(p)
  <2>1. disturbed' \subseteq disturbed \cup {"key"}
    BY <1>10, Zenon DEF MintKey
  <2>2. /\ uses < MaxUses /\ uses' = uses + 1 /\ minting' = [minting EXCEPT ![p] = "reading"]
        /\ UNCHANGED <<key, minted, lifeVars, configVars, sessionVars>>
    BY <1>10 DEF MintKey
  <2>3. disturbed' \subseteq {"config", "key"}
    BY <2>1
  <2> QED
    BY <2>2, <2>3
<1>11. CASE ReadKey(p)
  <2>1. disturbed' \subseteq {"config", "key"}
    BY <1>11 DEF ReadKey
  <2> QED
    BY <1>11, <2>1 DEF ReadKey
<1>12. CASE OpenKey(p) \/ FillKey(p) \/ LoseKey(p)
  <2>1. disturbed' \subseteq {"config", "key"}
    BY <1>12 DEF OpenKey, FillKey, LoseKey
  <2>2. /\ minting' = [minting EXCEPT ![p] = "filling"] \/ minting' = [minting EXCEPT ![p] = "resolved"]
        /\ minted' = minted \/ minted' = [minted EXCEPT ![p] = p]
        /\ key' \in {key, "empty", p}
    BY <1>12 DEF OpenKey, FillKey, LoseKey
  <2> QED
    BY <1>12, <2>1, <2>2 DEF OpenKey, FillKey, LoseKey
<1>13. ASSUME NEW q \in Process, Relaunch(q, p)
       PROVE  TypeOK'
  BY <1>13 DEF Relaunch
<1> QED
  BY <1>3, <1>4, <1>5, <1>6, <1>7, <1>8, <1>9, <1>10, <1>11, <1>12, <1>13

\* What goes on between the sockets of a process keeps the types.
LEMMA SocketsKeepType ==
  ASSUME TypeOK,
         \/ \E p \in Process : CleanUp(p)
         \/ \E p \in Process, s \in Socket : PassOn(s, p)
         \/ (\E p \in Process : ServerStep(p)) /\ UNCHANGED Others
         \/ (\E s \in Socket : SocketStep(s)) /\ UNCHANGED Others
  PROVE  TypeOK'
<1>1. ASSUME NEW p \in Process, CleanUp(p)
      PROVE  TypeOK'
  BY <1>1 DEF TypeOK, ProxyTypeOK, CleanUp, serverVars, lifeVars, configVars, sessionVars, keyVars
<1>2. ASSUME NEW p \in Process, NEW s \in Socket, PassOn(s, p)
      PROVE  TypeOK'
  <2>1. ProxyTypeOK'
    BY <1>2 DEF TypeOK, ProxyTypeOK, PassOn, Ask
  <2> QED
    BY <1>2, <2>1, BoundsAssumption DEF TypeOK, PassOn, lifeVars, configVars, sessionVars, keyVars
<1>3. CASE /\ (\E p \in Process : ServerStep(p)) \/ (\E s \in Socket : SocketStep(s))
           /\ UNCHANGED Others
  <2>1. ProxyTypeOK'
    BY <1>3, ProxyStepsKeepType DEF TypeOK
  <2> QED
    BY <1>3, <2>1 DEF TypeOK, Others, lifeVars, configVars, sessionVars, keyVars
<1> QED
  BY <1>1, <1>2, <1>3

----------------------------------------------------------------------------
(* The files.                                                              *)

\* What neither writes nor reads the configuration leaves it as it is.
LEMMA ConfigFrame ==
  ASSUME ConfigInv, config' = config, "config" \in disturbed => "config" \in disturbed',
         \A p \in Process : phase'[p] \in {"writing", "reading"} => phase'[p] = phase[p],
         \A p \in Process :
           \/ phase[p] = "writing" => phase'[p] = "writing"
           \/ "config" \in disturbed',
         \A p \in Process : password'[p] = None \/ \E q \in Process : password'[p] = password[q]
  PROVE  ConfigInv'
  BY DEF ConfigInv

\* The first process creates the configuration, and it alone fills it.
LEMMA ConfigStep ==
  ASSUME TypeOK, ConfigInv, NEW p \in Process,
         \/ Start(p) \/ CreateConfig(p) \/ FillConfig(p) \/ ReadConfig(p)
         \/ Listen(p) \/ UnlinkSession(p) \/ BindSession(p)
         \/ Dispose(p) \/ Vanish(p)
         \/ \E q \in Process : Relaunch(q, p)
  PROVE  ConfigInv'
<1> USE DEF Goes, configVars
<1>1. phase \in [Process -> {"down", "configuring", "writing", "reading", "starting",
                             "unlinking", "binding", "up", "closing", "leaving"}]
      /\ password \in [Process -> {None} \cup Process]
      /\ config \in {"absent", "empty"} \cup Process
  BY DEF TypeOK
<1>2. CASE Start(p)
  <2>1. UNCHANGED <<config, password, disturbed>> /\ phase' = [phase EXCEPT ![p] = "configuring"]
        /\ phase[p] = "down"
    BY <1>2 DEF Start
  <2> QED
    BY <1>1, <2>1, ConfigFrame
<1>3. CASE CreateConfig(p)
  <2>1. UNCHANGED <<password, disturbed>> /\ phase[p] = "configuring"
    BY <1>3 DEF CreateConfig
  <2>2. CASE config = "absent"
    <3>1. config' = "empty" /\ phase' = [phase EXCEPT ![p] = "writing"]
      BY <1>3, <2>2 DEF CreateConfig
    <3>2. \A q \in Process : phase[q] \notin {"writing", "reading"}
      BY <2>2 DEF ConfigInv
    <3>3. "config" \notin disturbed => \A q \in Process : password[q] = None
      BY <1>1, <2>2, NoneAssumption DEF ConfigInv
    <3> QED
      BY <1>1, <2>1, <3>1, <3>2, <3>3 DEF ConfigInv
  <2>3. CASE config # "absent"
    <3>1. config' = config /\ phase' = [phase EXCEPT ![p] = "reading"]
      BY <1>3, <2>3 DEF CreateConfig
    <3> QED
      BY <1>1, <2>1, <2>3, <3>1 DEF ConfigInv
  <2> QED
    BY <2>2, <2>3
<1>4. CASE FillConfig(p)
  <2>1. /\ UNCHANGED <<password, disturbed>> /\ phase[p] = "writing"
        /\ phase' = [phase EXCEPT ![p] = "reading"] /\ config' = p
    BY <1>4 DEF FillConfig
  <2>2. config = "empty" /\ \A q \in Process : q # p => phase[q] # "writing"
    BY <2>1 DEF ConfigInv
  <2>3. "config" \notin disturbed => \A q \in Process : password[q] = None
    BY <1>1, <2>2, NoneAssumption DEF ConfigInv
  <2> QED
    BY <1>1, <2>1, <2>2, <2>3, NoneAssumption DEF ConfigInv
<1>5. CASE ReadConfig(p)
  <2>1. /\ config' = config /\ phase[p] = "reading"
        /\ phase' = [phase EXCEPT ![p] = IF config = "empty" THEN "down" ELSE "starting"]
        /\ password' = [password EXCEPT ![p] = IF config = "empty" THEN None ELSE config]
    BY <1>5 DEF ReadConfig
  <2>2. "config" \in disturbed => "config" \in disturbed'
    BY <1>5 DEF ReadConfig
  <2> QED
    BY <1>1, <2>1, <2>2 DEF ConfigInv
<1>6. CASE Listen(p)
  <2>1. /\ UNCHANGED <<config, disturbed>> /\ phase[p] = "starting"
        /\ \E to \in {"unlinking", "down"} : phase' = [phase EXCEPT ![p] = to]
        /\ password' = password \/ password' = [password EXCEPT ![p] = None]
    BY <1>6 DEF Listen
  <2> QED
    BY <1>1, <2>1, ConfigFrame
<1>7. CASE UnlinkSession(p) \/ BindSession(p)
  <2>1. /\ UNCHANGED <<config, password, disturbed>> /\ phase[p] \in {"unlinking", "binding"}
        /\ \E to \in {"binding", "up"} : phase' = [phase EXCEPT ![p] = to]
    BY <1>7 DEF UnlinkSession, BindSession
  <2> QED
    BY <1>1, <2>1, ConfigFrame
<1>8. CASE Dispose(p)
  <2>1. /\ UNCHANGED <<config, password, disturbed>> /\ phase[p] = "up"
        /\ \E to \in {"closing", "leaving"} : phase' = [phase EXCEPT ![p] = to]
    BY <1>8 DEF Dispose
  <2> QED
    BY <1>1, <2>1, ConfigFrame
<1>9. CASE Vanish(p)
  <2>1. /\ config' = config /\ phase' = [phase EXCEPT ![p] = "down"]
        /\ password' = [password EXCEPT ![p] = None]
        /\ disturbed \subseteq disturbed'
        /\ phase[p] = "writing" => "config" \in disturbed'
    BY <1>9 DEF Vanish
  <2> QED
    BY <1>1, <2>1, ConfigFrame
<1>10. ASSUME NEW q \in Process, Relaunch(q, p)
       PROVE  ConfigInv'
  <2>1. /\ UNCHANGED <<config, disturbed>> /\ phase[p] = "down"
        /\ phase' = [phase EXCEPT ![p] = "starting"]
        /\ password' = [password EXCEPT ![p] = password[q]]
    BY <1>10 DEF Relaunch
  <2> QED
    BY <1>1, <2>1, ConfigFrame
<1> QED
  BY <1>2, <1>3, <1>4, <1>5, <1>6, <1>7, <1>8, <1>9, <1>10

\* What is not at the key leaves it as it is.
LEMMA KeyFrame ==
  ASSUME KeyInv, UNCHANGED <<key, minting, minted>>, "key" \in disturbed => "key" \in disturbed'
  PROVE  KeyInv'
  BY DEF KeyInv

\* Unless two processes are at the key at a time it is read, or written once.
LEMMA KeyStep ==
  ASSUME TypeOK, KeyInv, NEW p \in Process,
         MintKey(p) \/ ReadKey(p) \/ OpenKey(p) \/ FillKey(p) \/ LoseKey(p) \/ Vanish(p)
  PROVE  KeyInv'
<1>1. /\ minting \in [Process -> {"not", "reading", "generated", "filling", "resolved"}]
      /\ minted \in [Process -> {None, "empty"} \cup Process]
      /\ key \in {"absent", "empty"} \cup Process
  BY DEF TypeOK
<1>2. CASE MintKey(p)
  <2>1. /\ minting[p] = "not" /\ minting' = [minting EXCEPT ![p] = "reading"]
        /\ UNCHANGED <<key, minted>>
    BY <1>2 DEF MintKey
  <2>2. \/ "key" \in disturbed'
        \/ /\ "key" \notin disturbed
           /\ \A q \in Process : minting[q] \notin {"reading", "generated", "filling"}
    BY <1>2 DEF MintKey
  <2> QED
    BY <1>1, <2>1, <2>2 DEF KeyInv
<1>3. CASE ReadKey(p)
  <2>1. minting[p] = "reading" /\ key' = key /\ disturbed \subseteq disturbed'
    BY <1>3 DEF ReadKey
  <2>2. CASE /\ minting' = [minting EXCEPT ![p] = "generated"] /\ minted' = minted
             /\ disturbed' = disturbed \cup {f \in {"key"} : key # "absent"}
    <3>1. "key" \notin disturbed' => key = "absent"
      BY <2>2
    <3> QED
      BY <1>1, <2>1, <2>2, <3>1 DEF KeyInv
  <2>3. CASE minting' = [minting EXCEPT ![p] = "resolved"] /\ minted' = [minted EXCEPT ![p] = key]
    <3>1. "key" \notin disturbed => key # "empty"
      BY <2>1 DEF KeyInv
    <3> QED
      BY <1>1, <2>1, <2>3, <3>1 DEF KeyInv
  <2> QED
    BY <1>3, <2>2, <2>3 DEF ReadKey
<1>4. CASE OpenKey(p)
  <2>1. /\ minting[p] = "generated" /\ minting' = [minting EXCEPT ![p] = "filling"]
        /\ key' = "empty" /\ UNCHANGED <<minted, disturbed>>
    BY <1>4 DEF OpenKey
  <2>2. "key" \notin disturbed => \A q \in Process : minted[q] = None
    BY <1>1, <2>1, NoneAssumption DEF KeyInv
  <2> QED
    BY <1>1, <2>1, <2>2, NoneAssumption DEF KeyInv
<1>5. CASE FillKey(p)
  <2>1. /\ minting[p] = "filling" /\ minting' = [minting EXCEPT ![p] = "resolved"]
        /\ key' = p /\ minted' = [minted EXCEPT ![p] = p] /\ disturbed' = disturbed
    BY <1>5 DEF FillKey
  <2>2. "key" \notin disturbed => \A q \in Process : minted[q] = None
    BY <1>1, <2>1, NoneAssumption DEF KeyInv
  <2> QED
    BY <1>1, <2>1, <2>2, NoneAssumption DEF KeyInv
<1>6. CASE LoseKey(p)
  <2>1. "key" \in disturbed'
    BY <1>6 DEF LoseKey
  <2> QED
    BY <2>1 DEF KeyInv
<1>7. CASE Vanish(p)
  <2>1. /\ minting' = [minting EXCEPT ![p] = "not"] /\ minted' = [minted EXCEPT ![p] = None]
        /\ key' = key
        /\ disturbed \subseteq disturbed'
        /\ minting[p] = "filling" => "key" \in disturbed'
    BY <1>7 DEF Vanish
  <2> QED
    BY <1>1, <2>1, NoneAssumption DEF KeyInv
<1> QED
  BY <1>2, <1>3, <1>4, <1>5, <1>6, <1>7

----------------------------------------------------------------------------
(* The session socket.                                                     *)

\* What leaves the ports and the session socket alone.
LEMMA SessionFrame ==
  ASSUME SessionInv, UNCHANGED <<onePort, listening, session, serving>>,
         \A p \in Process : phase'[p] \in {"unlinking", "binding", "up"} => phase'[p] = phase[p],
         \A p \in Process : phase[p] = "up" => phase'[p] = "up"
  PROVE  SessionInv'
<1>1. serving' \subseteq {p \in Process : phase'[p] = "up"}
  BY DEF SessionInv
<1> QED
  BY <1>1 DEF SessionInv

\* Only who has the port takes the session socket, and it gives both back.
LEMMA SessionStep ==
  ASSUME TypeOK, SessionInv, NEW p \in Process,
         \/ Start(p) \/ CreateConfig(p) \/ FillConfig(p) \/ ReadConfig(p)
         \/ Listen(p) \/ UnlinkSession(p) \/ BindSession(p)
         \/ Dispose(p) \/ Vanish(p)
         \/ \E q \in Process : Relaunch(q, p)
  PROVE  SessionInv'
<1> USE DEF Goes, sessionVars
<1>1. /\ phase \in [Process -> {"down", "configuring", "writing", "reading", "starting",
                                "unlinking", "binding", "up", "closing", "leaving"}]
      /\ listening \subseteq Process /\ serving \subseteq Process
  BY DEF TypeOK
<1>2. CASE \/ Start(p) \/ CreateConfig(p) \/ FillConfig(p) \/ ReadConfig(p)
           \/ \E q \in Process : Relaunch(q, p)
  <2>1. /\ UNCHANGED <<onePort, listening, session, serving>>
        /\ phase[p] \in {"down", "configuring", "writing", "reading"}
        /\ \E to \in {"configuring", "writing", "reading", "down", "starting"} :
             phase' = [phase EXCEPT ![p] = to]
    BY <1>2 DEF Start, CreateConfig, FillConfig, ReadConfig, Relaunch
  <2> QED
    BY <1>1, <2>1, SessionFrame
<1>3. CASE Listen(p)
  <2>1. phase[p] = "starting" /\ UNCHANGED <<onePort, session, serving>>
    BY <1>3 DEF Listen
  <2>2. CASE ~onePort \/ listening = {}
    <3>1. phase' = [phase EXCEPT ![p] = "unlinking"] /\ listening' = listening \cup {p}
      BY <1>3, <2>2 DEF Listen
    <3> QED
      BY <1>1, <2>1, <2>2, <3>1 DEF SessionInv
  <2>3. CASE ~(~onePort \/ listening = {})
    <3>1. phase' = [phase EXCEPT ![p] = "down"] /\ listening' = listening
      BY <1>3, <2>3 DEF Listen
    <3> QED
      BY <1>1, <2>1, <3>1, SessionFrame
  <2> QED
    BY <2>2, <2>3
<1>4. CASE UnlinkSession(p)
  <2>1. /\ phase[p] = "unlinking" /\ UNCHANGED <<onePort, listening, serving>>
        /\ \E to \in {"binding", "up"} : phase' = [phase EXCEPT ![p] = to]
    BY <1>4 DEF UnlinkSession
  <2>2. onePort => serving = {}
    BY <2>1 DEF SessionInv
  <2>3. serving' \subseteq {q \in Process : phase'[q] = "up"}
    BY <1>1, <2>1 DEF SessionInv
  <2>4. \A q \in Process :
          phase'[q] \in {"unlinking", "binding", "up"} =>
            phase[q] \in {"unlinking", "binding", "up"}
    BY <1>1, <2>1
  <2> QED
    BY <2>1, <2>2, <2>3, <2>4 DEF SessionInv
<1>5. CASE BindSession(p)
  <2>1. /\ phase[p] = "binding" /\ phase' = [phase EXCEPT ![p] = "up"]
        /\ UNCHANGED <<onePort, listening>>
        /\ \/ session' = p /\ serving' = serving \cup {p}
           \/ session' = session /\ serving' = serving
    BY <1>5 DEF BindSession
  <2>2. onePort => serving = {}
    BY <2>1 DEF SessionInv
  <2>3. serving' \subseteq {q \in Process : phase'[q] = "up"}
    BY <1>1, <2>1 DEF SessionInv
  <2>4. \A q \in Process :
          phase'[q] \in {"unlinking", "binding", "up"} =>
            phase[q] \in {"unlinking", "binding", "up"}
    BY <1>1, <2>1
  <2> QED
    BY <2>1, <2>2, <2>3, <2>4 DEF SessionInv
<1>6. CASE Dispose(p)
  <2>1. /\ phase[p] = "up" /\ onePort' = onePort
        /\ \E to \in {"closing", "leaving"} : phase' = [phase EXCEPT ![p] = to]
        /\ listening' = listening \ {p} /\ serving' = serving \ {p}
    BY <1>6 DEF Dispose, CloseServers
  <2>2. onePort => serving' = {}
    BY <2>1 DEF SessionInv
  <2>3. serving' \subseteq {q \in Process : phase'[q] = "up"}
    BY <1>1, <2>1 DEF SessionInv
  <2> QED
    BY <1>1, <2>1, <2>2, <2>3 DEF SessionInv
<1>7. CASE Vanish(p)
  <2>1. /\ phase' = [phase EXCEPT ![p] = "down"] /\ onePort' = onePort
        /\ listening' = listening \ {p} /\ serving' = serving \ {p}
        /\ session' = IF session = p THEN Left ELSE session
    BY <1>7 DEF Vanish
  <2>2. serving' \subseteq {q \in Process : phase'[q] = "up"}
    BY <1>1, <2>1 DEF SessionInv
  <2> QED
    BY <1>1, <2>1, <2>2 DEF SessionInv
<1> QED
  BY <1>2, <1>3, <1>4, <1>5, <1>6, <1>7

----------------------------------------------------------------------------
(* Every step.                                                             *)

\* The invariant holds at first.
LEMMA InitIInv == Init => IInv
<1> SUFFICES ASSUME Init PROVE IInv
  OBVIOUS
<1>1. ProxyTypeOK /\ ProxyInv
  BY InitProxyInv DEF Init
<1>2. TypeOK
  BY <1>1, BoundsAssumption DEF Init, TypeOK
<1>3. ConfigInv
  BY NoneAssumption DEF Init, ConfigInv
<1>4. KeyInv
  BY NoneAssumption DEF Init, KeyInv
<1>5. SessionInv
  BY DEF Init, SessionInv
<1> QED
  BY <1>1, <1>2, <1>3, <1>4, <1>5 DEF IInv

\* A step of a process that touches none of the pipes, and not the key.
LEMMA LifeStep ==
  ASSUME IInv, NEW p \in Process,
         \/ Start(p) \/ CreateConfig(p) \/ FillConfig(p) \/ ReadConfig(p)
         \/ Listen(p) \/ UnlinkSession(p) \/ BindSession(p)
         \/ \E q \in Process : Relaunch(q, p)
  PROVE  IInv'
<1> USE DEF IInv
<1>1. UNCHANGED proxyVars /\ UNCHANGED keyVars
  BY DEF Start, CreateConfig, FillConfig, ReadConfig, Listen, UnlinkSession, BindSession, Relaunch
<1>2. "key" \in disturbed => "key" \in disturbed'
  BY DEF Start, CreateConfig, FillConfig, ReadConfig, Listen, UnlinkSession, BindSession, Relaunch
<1>3. TypeOK'
  BY ProcessStepsKeepType
<1>4. ProxyInv'
  BY <1>1, AskKeepsProxy DEF TypeOK, proxyVars, serverVars
<1>5. ConfigInv'
  BY ConfigStep
<1>6. KeyInv'
  BY <1>1, <1>2, KeyFrame DEF keyVars
<1>7. SessionInv'
  BY SessionStep
<1> QED
  BY <1>3, <1>4, <1>5, <1>6, <1>7

\* A disposal and an end.
LEMMA EndStep ==
  ASSUME IInv, NEW p \in Process, Dispose(p) \/ Vanish(p)
  PROVE  IInv'
<1> USE DEF IInv
<1>1. TypeOK'
  BY EndsKeepType
<1>2. ProxyInv'
  BY StopKeepsProxy, LoseKeepsProxy DEF TypeOK, Dispose, Vanish
<1>3. ConfigInv'
  BY ConfigStep
<1>4. KeyInv'
  BY KeyFrame, KeyStep DEF Dispose, keyVars
<1>5. SessionInv'
  BY SessionStep
<1> QED
  BY <1>1, <1>2, <1>3, <1>4, <1>5

\* A step at the key.
LEMMA MintStep ==
  ASSUME IInv, NEW p \in Process,
         MintKey(p) \/ ReadKey(p) \/ OpenKey(p) \/ FillKey(p) \/ LoseKey(p)
  PROVE  IInv'
<1> USE DEF IInv
<1>1. /\ UNCHANGED <<proxyVars, lifeVars, configVars, sessionVars>>
      /\ "config" \in disturbed => "config" \in disturbed'
      /\ "config" \in disturbed' => "config" \in disturbed
  BY DEF MintKey, ReadKey, OpenKey, FillKey, LoseKey
<1>2. TypeOK'
  BY ProcessStepsKeepType
<1>3. ProxyInv'
  BY <1>1, AskKeepsProxy DEF TypeOK, proxyVars, serverVars
<1>4. ConfigInv'
  BY <1>1 DEF ConfigInv, configVars, lifeVars
<1>5. KeyInv'
  BY KeyStep
<1>6. SessionInv'
  BY <1>1, SessionFrame DEF sessionVars, lifeVars
<1> QED
  BY <1>2, <1>3, <1>4, <1>5, <1>6

\* A step of a pipe or of a websocket.
LEMMA PipeStep ==
  ASSUME IInv,
         \/ \E p \in Process : CleanUp(p)
         \/ \E p \in Process, s \in Socket : PassOn(s, p)
         \/ (\E p \in Process : ServerStep(p)) /\ UNCHANGED Others
         \/ (\E s \in Socket : SocketStep(s)) /\ UNCHANGED Others
  PROVE  IInv'
<1> USE DEF IInv
<1>1. UNCHANGED <<lifeVars, configVars, sessionVars, keyVars, disturbed>>
  BY DEF CleanUp, PassOn, Others
<1>2. TypeOK'
  BY SocketsKeepType
<1>3. ProxyTypeOK
  BY DEF TypeOK
<1>4. ProxyInv'
  <2>1. ASSUME NEW p \in Process, CleanUp(p)
        PROVE  ProxyInv'
    BY <1>3, <2>1, AskKeepsProxy DEF CleanUp, serverVars
  <2>2. ASSUME NEW p \in Process, NEW s \in Socket, PassOn(s, p)
        PROVE  ProxyInv'
    BY <1>3, <2>2, AskKeepsProxy DEF PassOn, Ask
  <2>3. ASSUME NEW p \in Process, ServerStep(p)
        PROVE  ProxyInv'
    BY <1>3, <2>3, ProbeKeepsProxy, RemoveKeepsProxy, BindKeepsProxy DEF ServerStep
  <2>4. ASSUME NEW s \in Socket, SocketStep(s)
        PROVE  ProxyInv'
    <3>1. UNCHANGED serverVars
      BY <2>4 DEF SocketStep, Connect, Accept, Deliver, TimesOut, Hangup
    <3> QED
      BY <1>3, <3>1, AskKeepsProxy DEF serverVars
  <2> QED
    BY <2>1, <2>2, <2>3, <2>4
<1>5. ConfigInv'
  BY <1>1 DEF ConfigInv, configVars, lifeVars
<1>6. KeyInv'
  BY <1>1, KeyFrame DEF keyVars
<1>7. SessionInv'
  BY <1>1, SessionFrame DEF sessionVars, lifeVars
<1> QED
  BY <1>2, <1>4, <1>5, <1>6, <1>7

\* Every step keeps the invariant.
LEMMA NextIInv == IInv /\ [Next]_vars => IInv'
<1> SUFFICES ASSUME IInv, [Next]_vars
             PROVE  IInv'
  OBVIOUS
<1>1. ASSUME NEW p \in Process,
             \/ Start(p) \/ CreateConfig(p) \/ FillConfig(p) \/ ReadConfig(p)
             \/ Listen(p) \/ UnlinkSession(p) \/ BindSession(p)
             \/ \E q \in Process : Relaunch(q, p)
      PROVE  IInv'
  BY <1>1, LifeStep
<1>2. ASSUME NEW p \in Process, Dispose(p) \/ Gone(p) \/ Kill(p)
      PROVE  IInv'
  BY <1>2, EndStep DEF Gone, Kill
<1>3. ASSUME NEW p \in Process,
             MintKey(p) \/ ReadKey(p) \/ OpenKey(p) \/ FillKey(p) \/ LoseKey(p)
      PROVE  IInv'
  BY <1>3, MintStep
<1>4. CASE \/ \E p \in Process : CleanUp(p)
           \/ \E p \in Process, s \in Socket : PassOn(s, p)
           \/ (\E p \in Process : ServerStep(p)) /\ UNCHANGED Others
           \/ (\E s \in Socket : SocketStep(s)) /\ UNCHANGED Others
  BY <1>4, PipeStep
<1>5. CASE UNCHANGED vars
  <2>1. UNCHANGED <<proxyVars, lifeVars, configVars, sessionVars, keyVars, disturbed, uses>>
    BY <1>5 DEF vars, Others
  <2>2. TypeOK'
    BY <2>1 DEF IInv, TypeOK, ProxyTypeOK, proxyVars, serverVars, socketVars, lifeVars,
                configVars, sessionVars, keyVars
  <2>3. ProxyInv'
    BY <2>1, AskKeepsProxy DEF IInv, TypeOK, proxyVars, serverVars
  <2>4. ConfigInv' /\ KeyInv' /\ SessionInv'
    BY <2>1, KeyFrame, SessionFrame DEF IInv, ConfigInv, lifeVars, configVars, sessionVars, keyVars
  <2> QED
    BY <2>2, <2>3, <2>4 DEF IInv
<1> QED
  BY <1>1, <1>2, <1>3, <1>4, <1>5 DEF Next

----------------------------------------------------------------------------
(* The theorems.                                                           *)

\* The variables of the processes, of their pipes and of what they share have
\* the values that the code gives them.
THEOREM TypeCorrect == Spec => []TypeOK
<1>1. IInv => TypeOK
  BY DEF IInv
<1> QED
  BY <1>1, InitIInv, NextIInv, PTL DEF Spec

\* The configuration and the key are whole and the same for all processes,
\* unless their writing overlapped a reading or was cut off, or the key was
\* there and could not be read.
THEOREM FilesStayInAgreement == Spec => []FilesAgree
<1>1. IInv => FilesAgree
  BY DEF IInv, ConfigInv, KeyInv, FilesAgree
<1> QED
  BY <1>1, InitIInv, NextIInv, PTL DEF Spec

\* Of servers with one port the one that is up is reached at the session
\* socket, whatever the others did to that before.
THEOREM SessionFollowsPort == Spec => []SessionSocketFollowsPort
<1>1. IInv => SessionSocketFollowsPort
  BY DEF IInv, SessionInv, SessionSocketFollowsPort
<1> QED
  BY <1>1, InitIInv, NextIInv, PTL DEF Spec

\* A pipe is lost, or its path found taken, only after two processes were about
\* to take one path at a time.
THEOREM PipesAreKept == Spec => []UncontestedPipeIsKept
<1>1. IInv => UncontestedPipeIsKept
  BY DEF IInv, ProxyInv
<1> QED
  BY <1>1, InitIInv, NextIInv, PTL DEF Spec
=============================================================================
