--------------------------- MODULE UpdateCheckProofs ---------------------------
(***************************************************************************)
(* What the merge of write() guarantees, for any number of processes,      *)
(* calls, settings and values; and what checks for updates, which use it,  *)
(* guarantee, for any number of servers and requests, any interval and any *)
(* number of releases and redirects.                                       *)
(***************************************************************************)
EXTENDS UpdateCheck, TLAPS

-----------------------------------------------------------------------------
(* The settings file.                                                      *)

\* A write in progress is the only one.
Alone ==
  /\ ~torn
  /\ \A u, w \in Writer : step[u] # "idle" /\ step[w] # "idle" => u = w
  /\ \A w \in Writer : step[w] = "opened" => file = Empty

\* It knows the latest values.
Current ==
  /\ Quiescent => file = latest
  /\ \A w \in Writer : step[w] = "merged" => file = latest
  /\ \A w \in Writer :
       step[w] # "idle" => next[w] = [latest EXCEPT ![key[w]] = next[w][key[w]]]

SInv == TypeOK /\ (~harmed => Alone) /\ (~harmed /\ ~misread => Current)

LEMMA EmptyIsDoc == Empty \in Doc
BY DEF Empty, Doc

LEMMA MergedIsDoc ==
  ASSUME NEW d \in Doc, NEW k \in Key, NEW v \in Value
  PROVE  Merged(d, k, v) \in Doc
BY DEF Merged, Doc

\* Every step keeps the types.
LEMMA TypeStep ==
  ASSUME TypeOK, [Next]_vars
  PROVE  TypeOK'
<1> USE EmptyIsDoc DEF TypeOK
<1>1. ASSUME NEW w \in Writer, NEW k \in Key, NEW v \in Value, Begin(w, k, v)
      PROVE  TypeOK'
  <2>1. PICK old \in Read :
          /\ next' = [next EXCEPT ![w] = Merged(old, k, v)]
          /\ misread' = (misread \/ old # file)
    BY <1>1 DEF Begin
  <2>2. old \in Doc
    BY <2>1 DEF Read
  <2>3. Merged(old, k, v) \in Doc
    BY <2>2, MergedIsDoc
  <2>4. next' \in [Writer -> Doc]
    BY <2>1, <2>3
  <2>5. harmed' \in BOOLEAN /\ misread' \in BOOLEAN
    BY <1>1, <2>1, Zenon DEF Begin
  <2> QED
    BY <1>1, <2>4, <2>5 DEF Begin
<1>2. ASSUME NEW w \in Writer, Open(w) PROVE TypeOK'
  BY <1>2 DEF Open
<1>3. ASSUME NEW w \in Writer, Fill(w) PROVE TypeOK'
  <2>1. next[w] \in Doc /\ key[w] \in Key
    OBVIOUS
  <2>2. file' \in Doc /\ torn' \in BOOLEAN
    BY <1>3, <2>1 DEF Fill, Written
  <2>3. latest' \in Doc
    BY <1>3, <2>1 DEF Fill, Doc
  <2> QED
    BY <1>3, <2>2, <2>3 DEF Fill
<1>4. ASSUME NEW w \in Writer, Fail(w) PROVE TypeOK'
  <2>1. harmed' \in BOOLEAN
    BY <1>4, Zenon DEF Fail
  <2> QED
    BY <1>4, <2>1 DEF Fail
<1>5. ASSUME NEW s \in Server, Crash(s) PROVE TypeOK'
  <2>1. harmed' \in BOOLEAN
    BY <1>5, Zenon DEF Crash
  <2> QED
    BY <1>5, <2>1 DEF Crash
<1>6. CASE UNCHANGED vars
  BY <1>6 DEF vars
<1> QED
  BY <1>1, <1>2, <1>3, <1>4, <1>5, <1>6 DEF Next

\* Every step that harms nothing keeps the one write in progress alone.
LEMMA AloneStep ==
  ASSUME TypeOK, TypeOK', Alone, [Next]_vars, ~harmed'
  PROVE  Alone'
<1> USE DEF Alone
<1>1. ASSUME NEW w \in Writer, NEW k \in Key, NEW v \in Value, Begin(w, k, v)
      PROVE  Alone'
  <2>1. \A u \in Writer : step[u] = "idle"
    BY <1>1 DEF Begin
  <2>2. \A u \in Writer : u # w => step'[u] = "idle"
    BY <1>1, <2>1 DEF Begin, TypeOK
  <2>3. step'[w] = "merged"
    BY <1>1 DEF Begin, TypeOK
  <2>4. torn' = torn
    BY <1>1 DEF Begin
  <2> QED
    BY <2>2, <2>3, <2>4
<1>2. ASSUME NEW w \in Writer, Open(w) PROVE Alone'
  <2>1. \A u \in Writer : u # w => step[u] = "idle" /\ step'[u] = "idle"
    BY <1>2 DEF Open, TypeOK
  <2>2. step[w] = "merged" /\ step'[w] = "opened"
    BY <1>2 DEF Open, TypeOK
  <2> QED
    BY <1>2, <2>1, <2>2 DEF Open
<1>3. ASSUME NEW w \in Writer, Fill(w) PROVE Alone'
  <2>1. \A u \in Writer : u # w => step[u] = "idle"
    BY <1>3 DEF Fill
  <2>2. \A u \in Writer : step'[u] = "idle"
    BY <1>3, <2>1 DEF Fill, TypeOK
  <2>3. file = Empty /\ ~torn
    BY <1>3 DEF Fill
  <2>4. ~torn'
    BY <1>3, <2>3 DEF Fill, Written
  <2> QED
    BY <2>2, <2>4
<1>4. ASSUME NEW w \in Writer, Fail(w) PROVE Alone'
  <2>1. step[w] = "merged"
    BY <1>4 DEF Fail, TypeOK
  <2>2. \A u \in Writer : u # w => step[u] = "idle"
    BY <2>1
  <2>3. \A u \in Writer : step'[u] = "idle"
    BY <1>4, <2>2 DEF Fail, TypeOK
  <2> QED
    BY <1>4, <2>3 DEF Fail
<1>5. ASSUME NEW s \in Server, Crash(s) PROVE Alone'
  <2>1. PICK c \in Call : step[<<s, c>>] # "idle"
    BY <1>5 DEF Crash
  <2>2. <<s, c>> \in Writer /\ <<s, c>>[1] = s
    BY DEF Writer
  <2>3. \A u \in Writer : u # <<s, c>> => step[u] = "idle"
    BY <2>1, <2>2
  <2>4. \A u \in Writer : step'[u] = "idle"
    BY <1>5, <2>2, <2>3 DEF Crash
  <2> QED
    BY <1>5, <2>4 DEF Crash
<1>6. CASE UNCHANGED vars
  BY <1>6 DEF vars
<1> QED
  BY <1>1, <1>2, <1>3, <1>4, <1>5, <1>6 DEF Next

\* Every step that harms nothing, and reads what there is, keeps it right.
LEMMA CurrentStep ==
  ASSUME TypeOK, Alone, Current, [Next]_vars, ~harmed', ~misread'
  PROVE  Current'
<1> USE DEF Alone, Current, Quiescent
<1>1. ASSUME NEW w \in Writer, NEW k \in Key, NEW v \in Value, Begin(w, k, v)
      PROVE  Current'
  <2>1. \A u \in Writer : step[u] = "idle"
    BY <1>1 DEF Begin
  <2>2. next' = [next EXCEPT ![w] = Merged(file, k, v)]
    BY <1>1 DEF Begin
  <2>3. file = latest
    BY <2>1
  <2>4. \A u \in Writer : u # w => step'[u] = "idle"
    BY <1>1, <2>1 DEF Begin, TypeOK
  <2>5. step'[w] = "merged" /\ key'[w] = k
    BY <1>1 DEF Begin, TypeOK
  <2>6. next'[w] = [latest EXCEPT ![k] = v]
    BY <2>2, <2>3 DEF TypeOK, Merged
  <2>7. next'[w][k] = v
    BY <2>6 DEF TypeOK, Doc
  <2>8. file' = file /\ latest' = latest
    BY <1>1 DEF Begin
  <2> QED
    BY <2>3, <2>4, <2>5, <2>6, <2>7, <2>8
<1>2. ASSUME NEW w \in Writer, Open(w) PROVE Current'
  <2>1. \A u \in Writer : u # w => step[u] = "idle" /\ step'[u] = "idle"
    BY <1>2 DEF Open, TypeOK
  <2>2. step[w] = "merged" /\ step'[w] = "opened"
    BY <1>2 DEF Open, TypeOK
  <2> QED
    BY <1>2, <2>1, <2>2 DEF Open
<1>3. ASSUME NEW w \in Writer, Fill(w) PROVE Current'
  <2>1. \A u \in Writer : u # w => step[u] = "idle"
    BY <1>3 DEF Fill
  <2>2. \A u \in Writer : step'[u] = "idle"
    BY <1>3, <2>1 DEF Fill, TypeOK
  <2>3. file = Empty /\ ~torn
    BY <1>3 DEF Fill
  <2>4. file' = next[w]
    BY <1>3, <2>3 DEF Fill, Written
  <2>5. latest' = next[w]
    BY <1>3 DEF Fill
  <2> QED
    BY <2>2, <2>4, <2>5
<1>4. ASSUME NEW w \in Writer, Fail(w) PROVE Current'
  <2>1. step[w] = "merged"
    BY <1>4 DEF Fail, TypeOK
  <2>2. \A u \in Writer : u # w => step[u] = "idle"
    BY <2>1
  <2>3. \A u \in Writer : step'[u] = "idle"
    BY <1>4, <2>2 DEF Fail, TypeOK
  <2> QED
    BY <1>4, <2>1, <2>3 DEF Fail
<1>5. ASSUME NEW s \in Server, Crash(s) PROVE Current'
  <2>1. PICK c \in Call : step[<<s, c>>] # "idle"
    BY <1>5 DEF Crash
  <2>2. step[<<s, c>>] # "opened"
    BY <1>5 DEF Crash
  <2>3. <<s, c>> \in Writer /\ <<s, c>>[1] = s
    BY DEF Writer
  <2>4. step[<<s, c>>] = "merged"
    BY <2>1, <2>2, <2>3 DEF TypeOK
  <2>5. file = latest
    BY <2>3, <2>4
  <2>6. \A u \in Writer : u # <<s, c>> => step[u] = "idle"
    BY <2>1, <2>3
  <2>7. \A u \in Writer : step'[u] = "idle"
    BY <1>5, <2>3, <2>6 DEF Crash
  <2> QED
    BY <1>5, <2>5, <2>7 DEF Crash
<1>6. CASE UNCHANGED vars
  BY <1>6 DEF vars
<1> QED
  BY <1>1, <1>2, <1>3, <1>4, <1>5, <1>6 DEF Next

\* What is harmed stays harmed, and what was misread stays misread.
LEMMA HarmStays ==
  ASSUME TypeOK, [Next]_vars
  PROVE  (harmed => harmed') /\ (misread => misread')
<1>1. harmed => harmed'
  BY Zenon DEF Next, Begin, Open, Fill, Fail, Crash, vars
<1>2. misread => misread'
  BY Zenon DEF Next, Begin, Open, Fill, Fail, Crash, vars
<1> QED
  BY <1>1, <1>2

\* The inductive invariant.
THEOREM Invariance == Spec => []SInv
<1>1. Init => SInv
  <2> SUFFICES ASSUME Init PROVE SInv
    OBVIOUS
  <2>1. (CHOOSE k \in Key : TRUE) \in Key
    BY KeyAssumption
  <2>2. TypeOK
    BY <2>1, EmptyIsDoc DEF Init, TypeOK
  <2>3. Alone /\ Current
    BY DEF Init, Alone, Current, Quiescent
  <2> QED
    BY <2>2, <2>3 DEF SInv
<1>2. SInv /\ [Next]_vars => SInv'
  <2> SUFFICES ASSUME SInv, [Next]_vars PROVE SInv'
    OBVIOUS
  <2>1. TypeOK'
    BY TypeStep DEF SInv
  <2>2. (~harmed' => ~harmed) /\ (~misread' => ~misread)
    BY HarmStays DEF SInv
  <2>3. ~harmed' => Alone'
    BY <2>1, <2>2, AloneStep DEF SInv
  <2>4. ~harmed' /\ ~misread' => Current'
    BY <2>2, CurrentStep DEF SInv
  <2> QED
    BY <2>1, <2>3, <2>4 DEF SInv
<1> QED
  BY <1>1, <1>2, PTL DEF Spec

\* The variables of the settings file keep their types.
THEOREM TypeCorrect == Spec => []TypeOK
<1>1. SInv => TypeOK
  BY DEF SInv
<1> QED
  BY <1>1, Invariance, PTL

\* Writes that do not overlap, are not cut off and can read the file lose and
\* revive nothing.
THEOREM SequentialWritesAreMerged == Spec => []SequentialWritesMerge
<1>1. SInv => SequentialWritesMerge
  BY DEF SInv, Alone, Current, SequentialWritesMerge
<1> QED
  BY <1>1, Invariance, PTL

\* Only overlapping or cut off writes make the file unreadable.
THEOREM TornNeedsOverlap == Spec => []TornOnlyByOverlap
<1>1. SInv => TornOnlyByOverlap
  BY DEF SInv, Alone, TornOnlyByOverlap
<1> QED
  BY <1>1, Invariance, PTL

-----------------------------------------------------------------------------
(* The checks.                                                             *)

\* The clock and the releases only grow.
HistoryOK ==
  /\ now \in 0..MaxTime /\ release \in 1..MaxRelease
  /\ published \in [0..MaxTime -> 0..MaxRelease]
  /\ \A t \in 0..MaxTime : published[t] <= release
  /\ \A t, u \in 0..now : t <= u => published[t] <= published[u]

\* Update u, if it is one, is as RememberedIsHonest says at time n, when release r
\* is the latest one and p the history.
HonestAt(u, n, r, p) ==
  u # NoValue =>
    /\ u \in Update
    /\ u.version \in 1..r
    /\ u.checked <= n
    /\ p[u.checked] <= u.version

DocsOK ==
  /\ HonestAt(file["update"], now, release, published)
  /\ \A w \in Writer : HonestAt(next[w]["update"], now, release, published)

FlightOK ==
  /\ flight \in [Server -> Flight]
  /\ \A s \in Server : flight[s].asOf <= now
  /\ \A s \in Server :
       flight[s].step \in {"answered", "writing"} =>
         /\ flight[s].found \in 1..release
  /\ \A s \in Server :
       flight[s].step = "answered" => published[flight[s].asOf] <= flight[s].found

\* What the check of server s will answer at least, if not "unknown".
Least(s) ==
  IF flight[s].step = "reading"
  THEN IF flight[s].asOf >= Interval THEN published[flight[s].asOf - Interval] ELSE 0
  ELSE IF flight[s].step = "requesting" THEN release ELSE flight[s].found

ClientOK ==
  /\ client \in [Client -> Request]
  /\ \A c \in Client :
       client[c].state = "waiting" =>
         /\ client[c].server \in Server
         /\ flight[client[c].server].step # "none"
         /\ flight[client[c].server].step # "hung" => client[c].due <= Least(client[c].server)
  /\ NotOlderThanAsked

\* The settings are being written exactly by the checks that say so.
CallOK ==
  \A s \in Server : step[<<s, "check">>] # "idle" => flight[s].step = "writing"

UInv == TypeOK /\ HistoryOK /\ DocsOK /\ FlightOK /\ CallOK /\ ClientOK

-----------------------------------------------------------------------------
\* A step of the composition is a step of the settings file, or none of it.
LEMMA StepIsSettingsStep ==
  ASSUME UInv, [UpdateNext]_updateVars
  PROVE  [Next]_vars
<1> USE SharedFileAssumption
<1>w. \A s \in Server : <<s, "check">> \in Writer /\ <<s, "page">> \in Writer
  BY DEF Writer
<1>1. ASSUME NEW s \in Server, Receive(s) PROVE Next
  <2>1. Dated(flight[s].asOf, flight[s].found) \in Value
    <3>1. flight[s].asOf \in 0..MaxTime /\ flight[s].found \in 0..MaxRelease
      BY DEF UInv, FlightOK, Flight
    <3>2. Dated(flight[s].asOf, flight[s].found) \in Update
      BY <3>1 DEF Dated, Update
    <3> QED
      BY <3>2
  <2> QED
    BY <1>1, <1>w, <2>1, Zenon DEF Receive, Next
<1>2. ASSUME NEW s \in Server, CheckOpens(s) PROVE Next
  BY <1>2, <1>w, Zenon DEF CheckOpens, Next
<1>3. ASSUME NEW s \in Server, Remembered(s) PROVE Next
  BY <1>3, <1>w, Zenon DEF Remembered, Next
<1>4. ASSUME NEW s \in PageServer, PageWrites(s) PROVE Next
  <2>1. s \in Server
    OBVIOUS
  <2>2. \A q \in Query : q \in Value
    OBVIOUS
  <2> QED
    BY <1>4, <1>w, <2>1, <2>2, Zenon DEF PageWrites, Next
<1>5. ASSUME NEW s \in Server, CrashServer(s) PROVE [Next]_vars
  BY <1>5, Zenon DEF CrashServer, Next
<1>6. ASSUME UNCHANGED vars PROVE [Next]_vars
  BY <1>6
<1>7. ASSUME NEW c \in Client, NEW s \in Server, NEW force \in BOOLEAN, Ask(c, s, force)
      PROVE  UNCHANGED vars
  BY <1>7 DEF Ask
<1>8. ASSUME NEW s \in Server, ReadCache(s) \/ RequestFails(s) \/ Redirect(s) \/ Hang(s) \/ Respond(s)
      PROVE  UNCHANGED vars
  BY <1>8, Zenon DEF ReadCache, RequestFails, Redirect, Hang, Respond
<1>9. Tick \/ Publish => UNCHANGED vars
  BY Zenon DEF Tick, Publish
<1>10. UNCHANGED updateVars => UNCHANGED vars
  BY DEF updateVars
<1> QED
  BY <1>1, <1>2, <1>3, <1>4, <1>5, <1>6, <1>7, <1>8, <1>9, <1>10, Zenon DEF UpdateNext, Check

\* Time and releases only grow, and what was stays as it was.
LEMMA HistoryStep ==
  ASSUME HistoryOK, [UpdateNext]_updateVars
  PROVE  /\ HistoryOK'
         /\ now' >= now /\ release' >= release
         /\ \A t \in 0..now : published'[t] = published[t]
<1> USE BoundsAssumption DEF HistoryOK
<1>1. CASE Tick
  <2>1. now' = now + 1 /\ now' \in 0..MaxTime /\ release' = release
    BY <1>1 DEF Tick
  <2>2. published' = [published EXCEPT ![now + 1] = release]
    BY <1>1 DEF Tick
  <2>3. \A t \in 0..MaxTime : published'[t] = IF t = now + 1 THEN release ELSE published[t]
    BY <2>2
  <2>4. \A t \in 0..now : published'[t] = published[t]
    BY <2>1, <2>3
  <2>5. published' \in [0..MaxTime -> 0..MaxRelease]
    <3>1. release \in 0..MaxRelease
      OBVIOUS
    <3> QED
      BY <2>2, <3>1
  <2>6. \A t \in 0..MaxTime : published'[t] <= release'
    BY <2>1, <2>3
  <2>7. ASSUME NEW t \in 0..now', NEW u \in 0..now', t <= u
        PROVE  published'[t] <= published'[u]
    <3>1. CASE u = now + 1
      <4>1. published'[u] = release' /\ t \in 0..MaxTime
        BY <2>1, <2>3, <3>1
      <4> QED
        BY <2>6, <4>1
    <3>2. CASE u # now + 1
      <4>1. t \in 0..now /\ u \in 0..now
        BY <2>1, <2>7, <3>2
      <4>2. published[t] <= published[u]
        BY <2>7, <4>1
      <4> QED
        BY <2>4, <4>1, <4>2
    <3> QED
      BY <3>1, <3>2
  <2> QED
    BY <2>1, <2>4, <2>5, <2>6, <2>7
<1>2. CASE Publish
  <2>1. now' = now /\ published' = published /\ release' = release + 1 /\ release < MaxRelease
    BY <1>2 DEF Publish
  <2> QED
    BY <2>1
<1>3. ASSUME UNCHANGED <<now, release, published>>
      PROVE  /\ HistoryOK'
             /\ now' >= now /\ release' >= release
             /\ \A t \in 0..now : published'[t] = published[t]
  BY <1>3
<1>4. \A s \in Server : Check(s) => UNCHANGED <<now, release, published>>
  BY Zenon DEF Check, ReadCache, RequestFails, Redirect, Hang, Respond, Receive, CheckOpens, Remembered
<1>5. \A s \in Server : PageWrites(s) => UNCHANGED <<now, release, published>>
  BY Zenon DEF PageWrites
<1>6. \A s \in Server : CrashServer(s) => UNCHANGED <<now, release, published>>
  BY Zenon DEF CrashServer
<1>7. \A c \in Client, s \in Server, force \in BOOLEAN :
        Ask(c, s, force) => UNCHANGED <<now, release, published>>
  BY Zenon DEF Ask
<1>8. UNCHANGED updateVars => UNCHANGED <<now, release, published>>
  BY DEF updateVars
<1>9. PageServer \subseteq Server
  BY SharedFileAssumption
<1> QED
  BY <1>1, <1>2, <1>3, <1>4, <1>5, <1>6, <1>7, <1>8, <1>9, Zenon DEF UpdateNext

LEMMA HonestLater ==
  ASSUME NEW u, NEW n \in Nat, NEW m \in Nat, NEW r \in Nat, NEW q \in Nat, NEW f, NEW g,
         n <= m, r <= q, \A t \in 0..n : g[t] = f[t], HonestAt(u, n, r, f)
  PROVE  HonestAt(u, m, q, g)
<1> SUFFICES ASSUME u # NoValue PROVE HonestAt(u, m, q, g)
  BY DEF HonestAt
<1>1. u \in Update /\ u.version \in 1..r /\ u.checked <= n /\ f[u.checked] <= u.version
  BY DEF HonestAt
<1>2. u.checked \in 0..n
  BY <1>1, BoundsAssumption DEF Update
<1>3. g[u.checked] = f[u.checked]
  BY <1>2
<1>4. u.version \in 1..q /\ u.checked <= m
  BY <1>1, <1>2
<1> QED
  BY <1>1, <1>3, <1>4 DEF HonestAt

\* Every document stays honest: a write merges a remembered update, or one that
\* was found after the time it is dated, into an honest one.
LEMMA DocsStep ==
  ASSUME UInv, [UpdateNext]_updateVars
  PROVE  DocsOK'
<1> USE BoundsAssumption, SharedFileAssumption, KeyAssumption
<1> DEFINE Now(u) == HonestAt(u, now, release, published)
<1> DEFINE Then(u) == HonestAt(u, now', release', published')
<1>a. \A u : Now(u) => Then(u)
  <2>1. now \in Nat /\ release \in Nat /\ now' \in Nat /\ release' \in Nat
    BY HistoryStep DEF UInv, HistoryOK
  <2> QED
    BY <2>1, HistoryStep, HonestLater DEF UInv
<1>b. Now(Empty["update"]) /\ Now(file["update"]) /\ \A w \in Writer : Now(next[w]["update"])
  <2>1. Empty["update"] = NoValue
    BY DEF Empty
  <2> QED
    BY <2>1 DEF UInv, DocsOK, HonestAt
<1>c. \A old \in Read : Now(old["update"])
  BY <1>b DEF Read
<1> HIDE DEF Now, Then
<1>d. file \in Doc /\ next \in [Writer -> Doc] /\ Read \subseteq Doc
  BY EmptyIsDoc DEF UInv, TypeOK, Read
<1>e. ASSUME Now(file'["update"]), \A w \in Writer : Now(next'[w]["update"]) PROVE DocsOK'
  <2>1. Then(file'["update"]) /\ \A w \in Writer : Then(next'[w]["update"])
    BY <1>a, <1>e
  <2> QED
    BY <2>1 DEF DocsOK, Then
<1>1. ASSUME NEW w \in Writer, NEW k \in Key, NEW v \in Value, Begin(w, k, v),
             k = "update" => Now(v)
      PROVE  DocsOK'
  <2>0. file' = file
    BY <1>1 DEF Begin
  <2>1. PICK old \in Read : next' = [next EXCEPT ![w] = Merged(old, k, v)]
    BY <1>1 DEF Begin
  <2>2. Merged(old, k, v)["update"] = IF k = "update" THEN v ELSE old["update"]
    BY <1>d DEF Merged, Doc
  <2>3. Now(Merged(old, k, v)["update"])
    BY <1>1, <1>c, <2>2
  <2>4. \A x \in Writer : Now(next'[x]["update"])
    BY <1>b, <1>d, <2>1, <2>3
  <2> QED
    BY <1>b, <1>e, <2>0, <2>4
<1>2. ASSUME NEW w \in Writer, Open(w) PROVE DocsOK'
  BY <1>2, <1>b, <1>e DEF Open
<1>3. ASSUME NEW w \in Writer, Fill(w) PROVE DocsOK'
  <2>1. file' = next[w] \/ file' = Empty
    BY <1>3 DEF Fill, Written
  <2>2. Now(file'["update"])
    BY <1>b, <2>1
  <2>3. next' = [next EXCEPT ![w] = Empty]
    BY <1>3 DEF Fill
  <2>4. \A x \in Writer : Now(next'[x]["update"])
    BY <1>b, <1>d, <2>3
  <2> QED
    BY <1>e, <2>2, <2>4
<1>4. ASSUME NEW w \in Writer, Fail(w) PROVE DocsOK'
  <2>1. file' = file /\ next' = [next EXCEPT ![w] = Empty]
    BY <1>4 DEF Fail
  <2>2. \A x \in Writer : Now(next'[x]["update"])
    BY <1>b, <1>d, <2>1
  <2> QED
    BY <1>b, <1>e, <2>1, <2>2
<1>5. ASSUME NEW s \in Server, Crash(s) PROVE DocsOK'
  <2>1. file' = file /\ next' = [w \in Writer |-> IF w[1] = s THEN Empty ELSE next[w]]
    BY <1>5 DEF Crash
  <2>2. \A x \in Writer : Now(next'[x]["update"])
    BY <1>b, <2>1
  <2> QED
    BY <1>b, <1>e, <2>1, <2>2
<1>6. ASSUME UNCHANGED vars PROVE DocsOK'
  BY <1>6, <1>b, <1>e DEF vars
<1>w. \A s \in Server : <<s, "check">> \in Writer /\ <<s, "page">> \in Writer
  BY DEF Writer
<1>7. ASSUME NEW s \in Server, Receive(s) PROVE DocsOK'
  <2> DEFINE v == Dated(flight[s].asOf, flight[s].found)
  <2>1. flight[s].step = "answered"
    BY <1>7 DEF Receive
  <2>2. /\ flight[s].asOf \in 0..MaxTime /\ flight[s].asOf <= now
        /\ flight[s].found \in 0..MaxRelease /\ flight[s].found \in 1..release
        /\ published[flight[s].asOf] <= flight[s].found
    BY <2>1 DEF UInv, FlightOK, Flight
  <2>3. v.checked = flight[s].asOf /\ v.version = flight[s].found /\ v \in Update
    BY <2>2 DEF Dated, Update
  <2>4. v \in Value /\ Now(v)
    BY <2>2, <2>3 DEF Now, HonestAt
  <2>5. Begin(<<s, "check">>, "update", v)
    BY <1>7 DEF Receive
  <2> HIDE DEF v
  <2> QED
    BY <1>1, <1>w, <2>4, <2>5
<1>8. ASSUME NEW s \in Server, CheckOpens(s) \/ Remembered(s) PROVE DocsOK'
  BY <1>2, <1>3, <1>4, <1>8, <1>w, Zenon DEF CheckOpens, Remembered
<1>9. ASSUME NEW s \in PageServer, PageWrites(s) PROVE DocsOK'
  <2>1. s \in Server
    OBVIOUS
  <2>2. ASSUME NEW q \in Query, Begin(<<s, "page">>, "query", q) PROVE DocsOK'
    <3>1. "query" # "update" /\ "query" \in Key /\ q \in Value
      OBVIOUS
    <3> QED
      BY <1>1, <1>w, <2>1, <2>2, <3>1
  <2> QED
    BY <1>2, <1>3, <1>4, <1>9, <1>w, <2>1, <2>2, Zenon DEF PageWrites
<1>10. ASSUME NEW s \in Server, CrashServer(s) PROVE DocsOK'
  BY <1>5, <1>6, <1>10, Zenon DEF CrashServer
<1>11. ASSUME NEW c \in Client, NEW s \in Server, NEW force \in BOOLEAN, Ask(c, s, force)
       PROVE  UNCHANGED vars
  BY <1>11 DEF Ask
<1>12. ASSUME NEW s \in Server, ReadCache(s) \/ RequestFails(s) \/ Redirect(s) \/ Hang(s) \/ Respond(s)
       PROVE  UNCHANGED vars
  BY <1>12, Zenon DEF ReadCache, RequestFails, Redirect, Hang, Respond
<1>13. Tick \/ Publish => UNCHANGED vars
  BY Zenon DEF Tick, Publish
<1>14. UNCHANGED updateVars => UNCHANGED vars
  BY DEF updateVars
<1> QED
  BY <1>6, <1>7, <1>8, <1>9, <1>10, <1>11, <1>12, <1>13, <1>14, Zenon DEF UpdateNext, Check

\* What a check knows stays as it should be.
LEMMA FlightStep ==
  ASSUME UInv, [UpdateNext]_updateVars
  PROVE  FlightOK'
<1> USE BoundsAssumption
<1>h. /\ now \in 0..MaxTime /\ release \in 1..MaxRelease
      /\ now' \in 0..MaxTime /\ release' \in 1..MaxRelease
      /\ now' >= now /\ release' >= release
      /\ \A t \in 0..now : published'[t] = published[t]
      /\ \A t \in 0..MaxTime : published[t] <= release /\ published[t] \in 0..MaxRelease
  BY HistoryStep DEF UInv, HistoryOK
<1>f. /\ flight \in [Server -> Flight]
      /\ \A s \in Server : flight[s] \in Flight /\ flight[s].asOf <= now /\ flight[s].asOf \in 0..now
      /\ \A s \in Server : flight[s].step \in {"answered", "writing"} => flight[s].found \in 1..release
      /\ \A s \in Server :
           flight[s].step = "answered" => published[flight[s].asOf] <= flight[s].found
  <2>1. flight \in [Server -> Flight] /\ \A s \in Server : flight[s].asOf <= now
    BY DEF UInv, FlightOK
  <2>2. \A s \in Server : flight[s].asOf \in 0..MaxTime
    BY <2>1 DEF Flight
  <2>3. \A s \in Server : flight[s].asOf \in 0..now
    BY <1>h, <2>1, <2>2
  <2> QED
    BY <2>1, <2>3 DEF UInv, FlightOK
<1> DEFINE Good(x) ==
      /\ x \in Flight /\ x.asOf \in 0..now
      /\ x.step \in {"answered", "writing"} => x.found \in 1..release
      /\ x.step = "answered" => published[x.asOf] <= x.found
<1>g. \A s \in Server : Good(flight[s])
  BY <1>f
<1>n. Good(NoFlight)
  BY <1>h DEF NoFlight, Flight
<1>e. ASSUME flight' \in [Server -> Flight], \A s \in Server : Good(flight'[s]) PROVE FlightOK'
  <2>1. ASSUME NEW s \in Server
        PROVE /\ flight'[s].asOf <= now'
              /\ flight'[s].step \in {"answered", "writing"} => flight'[s].found \in 1..release'
              /\ flight'[s].step = "answered" => published'[flight'[s].asOf] <= flight'[s].found
    <3>1. Good(flight'[s])
      BY <1>e
    <3>2. flight'[s].asOf <= now' /\ published'[flight'[s].asOf] = published[flight'[s].asOf]
      BY <1>h, <3>1
    <3>3. flight'[s].step \in {"answered", "writing"} => flight'[s].found \in 1..release'
      BY <1>h, <3>1
    <3> QED
      BY <3>1, <3>2, <3>3
  <2> QED
    BY <1>e, <2>1 DEF FlightOK
<1>c. ASSUME NEW s \in Server, NEW x, Good(x), flight' = [flight EXCEPT ![s] = x] PROVE FlightOK'
  <2>1. \A r \in Server : flight'[r] = IF r = s THEN x ELSE flight[r]
    BY <1>c, <1>f
  <2>2. x \in Flight
    BY <1>c
  <2>3. flight' \in [Server -> Flight]
    BY <1>c, <1>f, <2>2
  <2>4. \A r \in Server : Good(flight'[r])
    BY <1>c, <1>g, <2>1
  <2> QED
    BY <1>e, <2>3, <2>4
<1>u. ASSUME flight' = flight PROVE FlightOK'
  BY <1>e, <1>f, <1>g, <1>u
<1> HIDE DEF Good
<1>s. ASSUME NEW s \in Server, NEW v, Settle(s, v) PROVE FlightOK'
  BY <1>c, <1>n, <1>s DEF Settle
<1>1. ASSUME NEW c \in Client, NEW s \in Server, NEW force \in BOOLEAN, Ask(c, s, force)
      PROVE  FlightOK'
  <2>1. Good(Begun(force))
    <3>1. Begun(force) = [step |-> IF force THEN "requesting" ELSE "reading",
                          asOf |-> now, redirects |-> 0, found |-> 0]
      BY DEF Begun
    <3>2. 0 \in 0..MaxRedirects /\ 0 \in 0..MaxRelease /\ now \in 0..now
      BY <1>h
    <3>3. Begun(force) \in Flight
      BY <1>h, <3>1, <3>2 DEF Flight
    <3>4. Begun(force).asOf = now /\ Begun(force).step \in {"reading", "requesting"}
      BY <3>1
    <3> QED
      BY <3>2, <3>3, <3>4 DEF Good
  <2>2. flight' = flight \/ flight' = [flight EXCEPT ![s] = Begun(force)]
    BY <1>1 DEF Ask
  <2> QED
    BY <1>c, <1>u, <2>1, <2>2
<1>2. ASSUME NEW s \in Server, ReadCache(s) PROVE FlightOK'
  <2>1. CASE flight' = [flight EXCEPT ![s].step = "requesting"]
    <3>1. Good([flight[s] EXCEPT !.step = "requesting"])
      BY <1>g DEF Good, Flight
    <3> QED
      BY <1>c, <1>f, <2>1, <3>1
  <2> QED
    BY <1>2, <1>s, <2>1, Zenon DEF ReadCache
<1>3. ASSUME NEW s \in Server, RequestFails(s) \/ Remembered(s) PROVE FlightOK'
  BY <1>3, <1>s, Zenon DEF RequestFails, Remembered
<1>4. ASSUME NEW s \in Server, Redirect(s) PROVE FlightOK'
  <2>1. flight' = [flight EXCEPT ![s] = [flight[s] EXCEPT !.redirects = @ + 1]]
    BY <1>4, <1>f DEF Redirect
  <2>2. flight[s].redirects \in 0..MaxRedirects /\ flight[s].redirects < MaxRedirects
    BY <1>4, <1>f DEF Redirect, Flight
  <2>3. flight[s].redirects + 1 \in 0..MaxRedirects
    BY <2>2
  <2>4. Good([flight[s] EXCEPT !.redirects = @ + 1])
    BY <1>g, <2>3 DEF Good, Flight
  <2> QED
    BY <1>c, <2>1, <2>4
<1>5. ASSUME NEW s \in Server, Hang(s) PROVE FlightOK'
  <2>1. Good([NoFlight EXCEPT !.step = "hung"])
    BY <1>h DEF NoFlight, Flight, Good
  <2> QED
    BY <1>5, <1>c, <2>1 DEF Hang
<1>6. ASSUME NEW s \in Server, Respond(s) PROVE FlightOK'
  <2> DEFINE x == [flight[s] EXCEPT !.step = "answered", !.found = release, !.redirects = 0]
  <2>1. flight' = [flight EXCEPT ![s] = x]
    BY <1>6, <1>f DEF Respond
  <2>2. x.step = "answered" /\ x.found = release /\ x.asOf = flight[s].asOf /\ x \in Flight
    <3>1. 0 \in 0..MaxRedirects /\ release \in 0..MaxRelease
      BY <1>h
    <3>2. flight[s] \in Flight
      BY <1>f
    <3> QED
      BY <3>1, <3>2 DEF Flight
  <2>3. flight[s].asOf \in 0..now /\ flight[s].asOf \in 0..MaxTime
    BY <1>f, <1>h
  <2>4. Good(x)
    BY <1>h, <2>2, <2>3 DEF Good
  <2> HIDE DEF x
  <2> QED
    BY <1>c, <2>1, <2>4
<1>7. ASSUME NEW s \in Server, Receive(s) PROVE FlightOK'
  <2> DEFINE x == [flight[s] EXCEPT !.step = "writing"]
  <2>1. flight' = [flight EXCEPT ![s] = x] /\ flight[s].step = "answered"
    BY <1>7, <1>f DEF Receive
  <2>2. x.step = "writing" /\ x.found = flight[s].found /\ x.asOf = flight[s].asOf /\ x \in Flight
    BY <1>f DEF Flight
  <2>3. Good(x)
    BY <1>f, <2>1, <2>2 DEF Good
  <2> HIDE DEF x
  <2> QED
    BY <1>c, <2>1, <2>3
<1>8. ASSUME NEW s \in Server, CrashServer(s) PROVE FlightOK'
  BY <1>8, <1>c, <1>n DEF CrashServer
<1>9. ASSUME NEW s \in Server, CheckOpens(s) \/ PageWrites(s) PROVE FlightOK'
  BY <1>9, <1>u, Zenon DEF CheckOpens, PageWrites
<1>10. Tick \/ Publish => FlightOK'
  BY <1>u, Zenon DEF Tick, Publish
<1>11. UNCHANGED updateVars => FlightOK'
  BY <1>u DEF updateVars
<1>12. PageServer \subseteq Server
  BY SharedFileAssumption
<1> QED
  BY <1>1, <1>2, <1>3, <1>4, <1>5, <1>6, <1>7, <1>8, <1>9, <1>10, <1>11, <1>12, Zenon DEF UpdateNext, Check

\* Only the check of a server writes in its name.
LEMMA CallStep ==
  ASSUME UInv, [UpdateNext]_updateVars
  PROVE  CallOK'
<1> USE SharedFileAssumption
<1>t. /\ step \in [Writer -> {"idle", "merged", "opened"}]
      /\ flight \in [Server -> Flight]
      /\ \A s \in Server : step[<<s, "check">>] # "idle" => flight[s].step = "writing"
      /\ \A s \in Server : <<s, "check">> \in Writer /\ <<s, "page">> \in Writer
  BY DEF UInv, TypeOK, FlightOK, CallOK, Writer
<1>a. ASSUME NEW s \in Server, \A r \in Server : r # s => flight'[r] = flight[r],
             \A w \in Writer : w # <<s, "check">> => step'[w] = step[w],
             step'[<<s, "check">>] # "idle" => flight'[s].step = "writing"
      PROVE  CallOK'
  <2>1. ASSUME NEW r \in Server, step'[<<r, "check">>] # "idle" PROVE flight'[r].step = "writing"
    <3>1. CASE r = s
      BY <1>a, <2>1, <3>1
    <3>2. CASE r # s
      <4>1. <<r, "check">> # <<s, "check">>
        BY <3>2
      <4>2. step'[<<r, "check">>] = step[<<r, "check">>] /\ flight'[r] = flight[r]
        BY <1>a, <1>t, <3>2, <4>1
      <4> QED
        BY <1>t, <2>1, <4>2
    <3> QED
      BY <3>1, <3>2
  <2> QED
    BY <2>1 DEF CallOK
<1>b. ASSUME NEW s \in Server, NEW v, Settle(s, v), flight[s].step # "writing", step' = step
      PROVE  CallOK'
  <2>1. step[<<s, "check">>] = "idle"
    BY <1>b, <1>t
  <2>2. \A r \in Server : r # s => flight'[r] = flight[r]
    BY <1>b, <1>t DEF Settle
  <2> QED
    BY <1>a, <1>b, <2>1, <2>2
<1>1. ASSUME NEW c \in Client, NEW s \in Server, NEW force \in BOOLEAN, Ask(c, s, force)
      PROVE  CallOK'
  <2>1. CASE flight[s].step # "none"
    BY <1>1, <1>t, <2>1 DEF Ask, CallOK, vars
  <2>2. CASE flight[s].step = "none"
    <3>1. flight' = [flight EXCEPT ![s] = Begun(force)] /\ step' = step
      BY <1>1, <2>2 DEF Ask, vars
    <3>2. step[<<s, "check">>] = "idle" /\ \A r \in Server : r # s => flight'[r] = flight[r]
      BY <1>t, <2>2, <3>1
    <3> QED
      BY <1>a, <3>1, <3>2
  <2> QED
    BY <2>1, <2>2
<1>2. ASSUME NEW s \in Server, ReadCache(s) PROVE CallOK'
  <2>1. step' = step /\ flight[s].step = "reading"
    BY <1>2 DEF ReadCache, vars
  <2>2. CASE flight' = [flight EXCEPT ![s].step = "requesting"]
    <3>1. step[<<s, "check">>] = "idle" /\ \A r \in Server : r # s => flight'[r] = flight[r]
      BY <1>t, <2>1, <2>2
    <3> QED
      BY <1>a, <2>1, <3>1
  <2> QED
    BY <1>2, <1>b, <2>1, <2>2, Zenon DEF ReadCache
<1>3. ASSUME NEW s \in Server, RequestFails(s) PROVE CallOK'
  <2>1. step' = step /\ flight[s].step # "writing" /\ Settle(s, 0)
    BY <1>3 DEF RequestFails, vars
  <2> QED
    BY <1>b, <2>1
<1>4. ASSUME NEW s \in Server, Redirect(s) \/ Hang(s) \/ Respond(s) PROVE CallOK'
  <2>1. step' = step /\ flight[s].step # "writing"
    BY <1>4 DEF Redirect, Hang, Respond, vars
  <2>2. step[<<s, "check">>] = "idle" /\ \A r \in Server : r # s => flight'[r] = flight[r]
    BY <1>4, <1>t, <2>1 DEF Redirect, Hang, Respond
  <2> QED
    BY <1>a, <2>1, <2>2
<1>5. ASSUME NEW s \in Server, Receive(s) PROVE CallOK'
  <2>1. step' = [step EXCEPT ![<<s, "check">>] = "merged"]
    BY <1>5 DEF Receive, Begin
  <2>2. flight' = [flight EXCEPT ![s].step = "writing"]
    BY <1>5 DEF Receive
  <2>3. flight'[s].step = "writing" /\ \A r \in Server : r # s => flight'[r] = flight[r]
    BY <1>t, <2>2 DEF Flight
  <2>4. \A w \in Writer : w # <<s, "check">> => step'[w] = step[w]
    BY <1>t, <2>1
  <2> QED
    BY <1>a, <2>3, <2>4
<1>6. ASSUME NEW s \in Server, CheckOpens(s) PROVE CallOK'
  <2>1. step' = [step EXCEPT ![<<s, "check">>] = "opened"] /\ step[<<s, "check">>] = "merged"
    BY <1>6 DEF CheckOpens, Open
  <2>2. flight' = flight /\ flight[s].step = "writing"
    BY <1>6, <1>t, <2>1 DEF CheckOpens
  <2>3. \A w \in Writer : w # <<s, "check">> => step'[w] = step[w]
    BY <1>t, <2>1
  <2> QED
    BY <1>a, <2>2, <2>3
<1>7. ASSUME NEW s \in Server, Remembered(s) PROVE CallOK'
  <2>1. step' = [step EXCEPT ![<<s, "check">>] = "idle"]
    BY <1>7 DEF Remembered, Fill, Fail
  <2>2. \A r \in Server : r # s => flight'[r] = flight[r]
    BY <1>7, <1>t DEF Remembered, Settle
  <2>3. step'[<<s, "check">>] = "idle" /\ \A w \in Writer : w # <<s, "check">> => step'[w] = step[w]
    BY <1>t, <2>1
  <2> QED
    BY <1>a, <2>2, <2>3
<1>8. ASSUME NEW s \in Server, PageWrites(s) PROVE CallOK'
  <2> DEFINE w == <<s, "page">>
  <2>1. flight' = flight
    BY <1>8 DEF PageWrites
  <2>2. \E v \in {"idle", "merged", "opened"} : step' = [step EXCEPT ![w] = v]
    BY <1>8, Zenon DEF PageWrites, Begin, Open, Fill, Fail
  <2>3. \A r \in Server : <<r, "check">> # w
    OBVIOUS
  <2>4. \A r \in Server : step'[<<r, "check">>] = step[<<r, "check">>]
    BY <1>t, <2>2, <2>3
  <2> QED
    BY <1>t, <2>1, <2>4 DEF CallOK
<1>9. ASSUME NEW s \in Server, CrashServer(s) PROVE CallOK'
  <2>1. flight' = [flight EXCEPT ![s] = NoFlight]
    BY <1>9 DEF CrashServer
  <2>2. \A r \in Server : r # s => flight'[r] = flight[r]
    BY <1>t, <2>1
  <2>3. CASE Crash(s)
    <3>1. step' = [w \in Writer |-> IF w[1] = s THEN "idle" ELSE step[w]]
      BY <2>3 DEF Crash
    <3>2. step'[<<s, "check">>] = "idle"
      BY <1>t, <3>1
    <3>3. \A r \in Server : r # s => step'[<<r, "check">>] = step[<<r, "check">>]
      BY <1>t, <3>1
    <3> QED
      BY <1>t, <2>2, <3>2, <3>3 DEF CallOK
  <2>4. CASE (\A c \in Call : step[<<s, c>>] = "idle") /\ UNCHANGED vars
    <3>1. step' = step /\ step[<<s, "check">>] = "idle"
      BY <2>4 DEF vars
    <3> QED
      BY <1>a, <2>2, <3>1
  <2> QED
    BY <1>9, <2>3, <2>4, Zenon DEF CrashServer
<1>10. ASSUME flight' = flight, step' = step PROVE CallOK'
  BY <1>10, <1>t DEF CallOK
<1>11. Tick \/ Publish => CallOK'
  BY <1>10 DEF Tick, Publish, vars
<1>12. UNCHANGED updateVars => CallOK'
  BY <1>10 DEF updateVars, vars
<1> QED
  BY <1>1, <1>2, <1>3, <1>4, <1>5, <1>6, <1>7, <1>8, <1>9, <1>11, <1>12, Zenon DEF UpdateNext, Check

\* Every request waits for a check that will tell it enough, and those that were
\* answered were told enough.
LEMMA ClientStep ==
  ASSUME UInv, [UpdateNext]_updateVars
  PROVE  ClientOK'
<1> USE BoundsAssumption, NobodyAssumption
<1>h. /\ now \in 0..MaxTime /\ release \in 1..MaxRelease
      /\ release' \in 1..MaxRelease /\ release' >= release
      /\ \A t \in 0..now : published'[t] = published[t]
      /\ \A t \in 0..MaxTime : published[t] <= release /\ published[t] \in 0..MaxRelease
      /\ \A t, u \in 0..now : t <= u => published[t] <= published[u]
  BY HistoryStep DEF UInv, HistoryOK
<1>f. /\ flight \in [Server -> Flight]
      /\ \A s \in Server : flight[s].asOf \in 0..now /\ flight[s].found \in 0..MaxRelease
  <2>1. flight \in [Server -> Flight] /\ \A s \in Server : flight[s].asOf <= now
    BY DEF UInv, FlightOK
  <2>2. \A s \in Server : flight[s].asOf \in 0..MaxTime /\ flight[s].found \in 0..MaxRelease
    BY <2>1 DEF Flight
  <2>3. \A s \in Server : flight[s].asOf \in 0..now
    BY <1>h, <2>1, <2>2
  <2> QED
    BY <2>1, <2>2, <2>3
<1>c. /\ client \in [Client -> Request]
      /\ \A c \in Client :
           client[c].state = "waiting" =>
             /\ client[c].server \in Server
             /\ flight[client[c].server].step # "none"
             /\ flight[client[c].server].step # "hung" => client[c].due <= Least(client[c].server)
      /\ \A c \in Client :
           client[c].state = "answered" /\ client[c].answer # 0 => client[c].answer >= client[c].due
  BY DEF UInv, ClientOK, NotOlderThanAsked
<1>d. \A c \in Client : client[c].due \in 0..MaxRelease
  BY <1>c DEF Request
<1>l. \A s \in Server : Least(s) \in 0..MaxRelease
  <2>1. ASSUME NEW s \in Server, flight[s].asOf >= Interval
        PROVE  published[flight[s].asOf - Interval] \in 0..MaxRelease
    <3>1. flight[s].asOf - Interval \in 0..MaxTime
      BY <1>f, <1>h, <2>1
    <3> QED
      BY <1>h, <3>1
  <2>2. release \in 0..MaxRelease /\ 0 \in 0..MaxRelease
    BY <1>h
  <2> QED
    BY <1>f, <2>1, <2>2 DEF Least
<1>m. \A s \in Server : flight'[s] = flight[s] => Least(s)' \in Nat /\ Least(s)' >= Least(s)
  <2>1. ASSUME NEW s \in Server, flight[s].asOf >= Interval
        PROVE  published'[flight[s].asOf - Interval] = published[flight[s].asOf - Interval]
    <3>1. flight[s].asOf - Interval \in 0..now
      BY <1>f, <1>h, <2>1
    <3> QED
      BY <1>h, <3>1
  <2>2. ASSUME NEW s \in Server, flight'[s] = flight[s]
        PROVE  Least(s)' \in Nat /\ Least(s)' >= Least(s)
    <3>1. CASE flight[s].step = "reading" /\ flight[s].asOf >= Interval
      <4>1. Least(s)' = Least(s)
        BY <2>1, <2>2, <3>1 DEF Least
      <4> QED
        BY <1>l, <4>1
    <3>2. CASE flight[s].step = "reading" /\ ~(flight[s].asOf >= Interval)
      BY <2>2, <3>2 DEF Least
    <3>3. CASE flight[s].step = "requesting"
      BY <1>h, <2>2, <3>3 DEF Least
    <3>4. CASE flight[s].step \notin {"reading", "requesting"}
      <4>1. Least(s)' = Least(s)
        BY <2>2, <3>4 DEF Least
      <4> QED
        BY <1>l, <4>1
    <3> QED
      BY <3>1, <3>2, <3>3, <3>4
  <2> QED
    BY <2>2
\* Steps of the check of s that leave the requests alone.
<1>a. ASSUME NEW s \in Server, client' = client, \A r \in Server : r # s => flight'[r] = flight[r],
             flight[s].step # "none" => flight'[s].step # "none",
             flight'[s].step # "hung" => flight[s].step # "hung" /\ Least(s)' >= Least(s),
             Least(s)' \in Nat
      PROVE  ClientOK'
  <2>1. ASSUME NEW c \in Client, client'[c].state = "waiting"
        PROVE  /\ client'[c].server \in Server
               /\ flight'[client'[c].server].step # "none"
               /\ flight'[client'[c].server].step # "hung" => client'[c].due <= Least(client[c].server)'
    <3>1. PICK r \in Server :
            /\ r = client[c].server /\ flight[r].step # "none"
            /\ flight[r].step # "hung" => client[c].due <= Least(r)
            /\ client'[c] = client[c]
      BY <1>a, <1>c, <2>1
    <3>2. CASE r # s
      <4>1. /\ flight'[r] = flight[r] /\ Least(r)' >= Least(r)
            /\ Least(r)' \in Nat /\ Least(r) \in Nat
        BY <1>a, <1>l, <1>m, <3>1, <3>2
      <4>2. client[c].due \in Nat
        BY <1>d
      <4> QED
        BY <3>1, <4>1, <4>2
    <3>3. CASE r = s
      <4>1. client[c].due \in Nat /\ Least(s) \in Nat
        BY <1>d, <1>l
      <4> QED
        BY <1>a, <3>1, <3>3, <4>1
    <3> QED
      BY <3>2, <3>3
  <2> QED
    BY <1>a, <1>c, <2>1 DEF ClientOK, NotOlderThanAsked
<1>b. ASSUME client' = client, flight' = flight PROVE ClientOK'
  <2>1. ASSUME NEW c \in Client, client[c].state = "waiting", flight[client[c].server].step # "hung"
        PROVE  client[c].due <= Least(client[c].server)'
    <3>1. PICK r \in Server : r = client[c].server /\ client[c].due <= Least(r)
      BY <1>c, <2>1
    <3>2. /\ Least(r)' >= Least(r) /\ Least(r)' \in Nat
          /\ Least(r) \in Nat /\ client[c].due \in Nat
      BY <1>b, <1>d, <1>l, <1>m, <3>1
    <3> QED
      BY <1>b, <3>1, <3>2
  <2> QED
    BY <1>b, <1>c, <2>1 DEF ClientOK, NotOlderThanAsked
\* The check of s ends and its requests are answered.
<1>s. ASSUME NEW s \in Server, NEW v \in 0..MaxRelease, Settle(s, v), v = 0 \/ v >= Least(s),
             flight[s].step # "hung"
      PROVE  ClientOK'
  <2>1. \A c \in Client :
          client'[c] = IF client[c].state = "waiting" /\ client[c].server = s
                       THEN [client[c] EXCEPT !.state = "answered", !.server = Nobody, !.answer = v]
                       ELSE client[c]
    BY <1>s DEF Settle
  <2>2. \A r \in Server : r # s => flight'[r] = flight[r]
    BY <1>s, <1>f DEF Settle
  <2>3. ASSUME NEW c \in Client, client[c].state = "waiting", client[c].server = s
        PROVE  /\ client'[c] \in Request /\ client'[c].state = "answered"
               /\ client'[c].answer # 0 => client'[c].answer >= client'[c].due
    <3>1. client'[c] = [client[c] EXCEPT !.state = "answered", !.server = Nobody, !.answer = v]
      BY <2>1, <2>3
    <3>2. client[c] \in Request /\ client[c].due \in Nat /\ Least(s) \in Nat /\ v \in Nat
      BY <1>c, <1>d, <1>l
    <3>3. client[c].due <= Least(s)
      BY <1>c, <1>s, <2>3
    <3>4. v # 0 => v >= client[c].due
      BY <1>s, <3>2, <3>3
    <3> QED
      BY <3>1, <3>2, <3>4 DEF Request
  <2>4. ASSUME NEW c \in Client, ~(client[c].state = "waiting" /\ client[c].server = s)
        PROVE  /\ client'[c] = client[c]
               /\ client[c].state = "waiting" =>
                    /\ flight'[client[c].server].step # "none"
                    /\ flight'[client[c].server].step # "hung" =>
                         client[c].due <= Least(client[c].server)'
    <3>1. client'[c] = client[c]
      BY <2>1, <2>4
    <3>2. ASSUME client[c].state = "waiting"
          PROVE  /\ flight'[client[c].server].step # "none"
                 /\ flight'[client[c].server].step # "hung" =>
                      client[c].due <= Least(client[c].server)'
      <4>1. PICK r \in Server :
              /\ r = client[c].server /\ r # s /\ flight[r].step # "none"
              /\ flight[r].step # "hung" => client[c].due <= Least(r)
        BY <1>c, <2>4, <3>2
      <4>2. /\ flight'[r] = flight[r] /\ Least(r)' >= Least(r)
            /\ Least(r)' \in Nat /\ Least(r) \in Nat /\ client[c].due \in Nat
        BY <1>d, <1>l, <1>m, <2>2, <4>1
      <4> QED
        BY <3>1, <4>1, <4>2
    <3> QED
      BY <3>1, <3>2
  <2>5. client' \in [Client -> Request]
    <3>1. \A c \in Client : client'[c] \in Request
      BY <1>c, <2>3, <2>4
    <3>2. client' = [c \in Client |-> client'[c]]
      BY <1>s DEF Settle
    <3> QED
      BY <3>1, <3>2
  <2> QED
    BY <1>c, <2>3, <2>4, <2>5 DEF ClientOK, NotOlderThanAsked
<1>1. ASSUME NEW c \in Client, NEW s \in Server, NEW force \in BOOLEAN, Ask(c, s, force)
      PROVE  ClientOK'
  <2> DEFINE joins == flight[s].step # "none"
             x == [state |-> "waiting", server |-> s,
                   due |-> IF joins THEN 0 ELSE Due(force), answer |-> 0]
  <2>1. client' = [client EXCEPT ![c] = x] /\ UNCHANGED <<now, release, published>>
    BY <1>1 DEF Ask
  <2>2. Due(force) \in 0..MaxRelease
    <3>1. release \in 0..MaxRelease /\ 0 \in 0..MaxRelease
      BY <1>h
    <3>2. ASSUME now >= Interval PROVE published[now - Interval] \in 0..MaxRelease
      <4>1. now - Interval \in 0..MaxTime
        BY <1>h, <3>2
      <4> QED
        BY <1>h, <4>1
    <3> QED
      BY <3>1, <3>2 DEF Due
  <2>3. x \in Request
    <3>1. 0 \in 0..MaxRelease
      BY <1>h
    <3>2. (IF joins THEN 0 ELSE Due(force)) \in 0..MaxRelease
      BY <2>2, <3>1
    <3> QED
      BY <3>1, <3>2 DEF Request
  <2>4. \A r \in Server : r # s => flight'[r] = flight[r]
    BY <1>1, <1>f DEF Ask
  <2>5. flight'[s].step # "none" /\ (joins => flight'[s] = flight[s])
        /\ (~joins => flight'[s] = Begun(force))
    BY <1>1, <1>f DEF Ask, Begun
  <2>6. flight'[s].step # "hung" => x.due <= Least(s)'
    <3>1. CASE joins
      <4>1. Least(s)' \in Nat /\ x.due = 0
        BY <1>m, <2>5, <3>1
      <4> QED
        BY <4>1
    <3>2. CASE ~joins
      <4>1. flight'[s].step = (IF force THEN "requesting" ELSE "reading") /\ flight'[s].asOf = now
        BY <2>5, <3>2 DEF Begun
      <4>2. x.due = Due(force)
        BY <3>2
      <4>3. Least(s)' = Due(force)
        BY <2>1, <4>1 DEF Least, Due
      <4>4. Due(force) <= Least(s)'
        BY <2>2, <4>3
      <4> QED
        BY <4>2, <4>4
    <3> QED
      BY <3>1, <3>2
  <2>7. ASSUME NEW d \in Client, client'[d].state = "waiting"
        PROVE  /\ client'[d].server \in Server
               /\ flight'[client'[d].server].step # "none"
               /\ flight'[client'[d].server].step # "hung" => client'[d].due <= Least(client[d].server)'
    <3>1. CASE d = c
      <4>1. client'[d] = x
        BY <1>c, <2>1, <3>1
      <4>2. client'[d].server = s /\ client'[d].due = x.due
        BY <4>1
      <4>3. Least(client[d].server)' = Least(s)'
        BY <4>2
      <4> QED
        BY <2>5, <2>6, <4>2
    <3>2. CASE d # c
      <4>1. PICK r \in Server :
              /\ r = client[d].server /\ client'[d] = client[d] /\ flight[r].step # "none"
              /\ flight[r].step # "hung" => client[d].due <= Least(r)
        BY <1>c, <2>1, <2>7, <3>2
      <4>2. flight'[r] = flight[r]
        BY <2>4, <2>5, <4>1
      <4>3. /\ Least(r)' >= Least(r) /\ Least(r)' \in Nat /\ Least(r) \in Nat
            /\ client[d].due \in Nat
        BY <1>d, <1>l, <1>m, <4>1, <4>2
      <4> QED
        BY <4>1, <4>2, <4>3
    <3> QED
      BY <3>1, <3>2
  <2>8. \A d \in Client :
          client'[d].state = "answered" /\ client'[d].answer # 0 => client'[d].answer >= client'[d].due
    <3>1. \A d \in Client : client'[d] = IF d = c THEN x ELSE client[d]
      BY <1>c, <2>1
    <3>2. x.state = "waiting"
      OBVIOUS
    <3> HIDE DEF x
    <3> QED
      BY <1>c, <3>1, <3>2
  <2> HIDE DEF x
  <2> QED
    BY <1>c, <2>1, <2>3, <2>7, <2>8 DEF ClientOK, NotOlderThanAsked
<1>2. ASSUME NEW s \in Server, ReadCache(s) PROVE ClientOK'
  <2>a. PICK old \in Read :
          IF Fresh(old["update"], flight[s].asOf)
          THEN Settle(s, old["update"].version)
          ELSE /\ flight' = [flight EXCEPT ![s].step = "requesting"]
               /\ UNCHANGED client
    BY <1>2 DEF ReadCache
  <2> DEFINE u == old["update"]
  <2>0. flight[s].step = "reading" /\ UNCHANGED <<now, release, published>>
    BY <1>2 DEF ReadCache
  <2>1. CASE Fresh(u, flight[s].asOf)
    <3>1. Settle(s, u.version)
      BY <2>a, <2>1
    <3>2. u # NoValue /\ u.checked + Interval >= flight[s].asOf
      BY <2>1 DEF Fresh
    <3>3. HonestAt(u, now, release, published)
      <4>1. Empty["update"] = NoValue
        BY SharedFileAssumption DEF Empty
      <4>2. u = file["update"]
        BY <2>a, <3>2, <4>1 DEF Read
      <4> QED
        BY <4>2 DEF UInv, DocsOK
    <3>4. /\ u \in Update /\ u.version \in 1..release /\ u.checked <= now
          /\ published[u.checked] <= u.version
      BY <3>2, <3>3 DEF HonestAt
    <3>5. u.checked \in 0..now /\ u.version \in 0..MaxRelease
      <4>1. u.checked \in 0..MaxTime /\ u.version \in 0..MaxRelease
        BY <3>4 DEF Update
      <4> QED
        BY <1>h, <3>4, <4>1
    <3> HIDE DEF u
    <3>6. ASSUME flight[s].asOf >= Interval
          PROVE  published[flight[s].asOf - Interval] <= u.version
      <4> DEFINE t == flight[s].asOf - Interval
      <4>1. t \in 0..now /\ t <= u.checked /\ t \in 0..MaxTime /\ u.checked \in 0..MaxTime
        BY <1>f, <1>h, <3>2, <3>5, <3>6
      <4>2. published[t] <= published[u.checked] /\ published[t] \in Nat /\ published[u.checked] \in Nat
        BY <1>h, <3>5, <4>1
      <4> QED
        BY <3>4, <3>5, <4>2
    <3>7. u.version >= Least(s)
      BY <2>0, <3>5, <3>6 DEF Least
    <3> QED
      BY <1>s, <2>0, <3>1, <3>5, <3>7
  <2>2. CASE ~Fresh(u, flight[s].asOf)
    <3>1. flight' = [flight EXCEPT ![s].step = "requesting"] /\ client' = client
      BY <2>a, <2>2
    <3>2. flight'[s].step = "requesting" /\ \A r \in Server : r # s => flight'[r] = flight[r]
      BY <1>f, <3>1 DEF Flight
    <3>3. Least(s)' = release
      BY <2>0, <3>2 DEF Least
    <3>4. ASSUME flight[s].asOf >= Interval
          PROVE  published[flight[s].asOf - Interval] <= release
      <4>1. flight[s].asOf - Interval \in 0..MaxTime
        BY <1>f, <1>h, <3>4
      <4> QED
        BY <1>h, <4>1
    <3>5. Least(s)' >= Least(s) /\ Least(s)' \in Nat
      BY <1>h, <2>0, <3>3, <3>4 DEF Least
    <3> QED
      BY <1>a, <2>0, <3>1, <3>2, <3>5
  <2> QED
    BY <2>1, <2>2
<1>3. ASSUME NEW s \in Server, RequestFails(s) PROVE ClientOK'
  <2>1. Settle(s, 0) /\ flight[s].step # "hung"
    BY <1>3 DEF RequestFails
  <2>2. 0 \in 0..MaxRelease
    BY <1>h
  <2> QED
    BY <1>s, <2>1, <2>2
<1>4. ASSUME NEW s \in Server, Redirect(s) PROVE ClientOK'
  <2>1. flight' = [flight EXCEPT ![s].redirects = @ + 1] /\ flight[s].step = "requesting"
        /\ client' = client /\ release' = release
    BY <1>4 DEF Redirect
  <2>2. flight'[s].step = "requesting" /\ \A r \in Server : r # s => flight'[r] = flight[r]
    BY <1>f, <2>1 DEF Flight
  <2>3. Least(s) = release /\ Least(s)' = release
    BY <2>1, <2>2 DEF Least
  <2>4. release \in Nat
    BY <1>h
  <2> QED
    BY <1>a, <2>1, <2>2, <2>3, <2>4
<1>5. ASSUME NEW s \in Server, Hang(s) PROVE ClientOK'
  <2>1. flight' = [flight EXCEPT ![s] = [NoFlight EXCEPT !.step = "hung"]] /\ client' = client
    BY <1>5 DEF Hang
  <2>2. flight'[s].step = "hung" /\ flight'[s].found = 0
        /\ \A r \in Server : r # s => flight'[r] = flight[r]
    BY <1>f, <2>1 DEF NoFlight
  <2>3. Least(s)' \in Nat
    BY <2>2 DEF Least
  <2> QED
    BY <1>a, <2>1, <2>2, <2>3
<1>6. ASSUME NEW s \in Server, Respond(s) PROVE ClientOK'
  <2>1. flight' = [flight EXCEPT ![s].step = "answered", ![s].found = release, ![s].redirects = 0]
        /\ flight[s].step = "requesting" /\ client' = client /\ release' = release
    BY <1>6 DEF Respond
  <2>2. flight'[s].step = "answered" /\ flight'[s].found = release
        /\ \A r \in Server : r # s => flight'[r] = flight[r]
    BY <1>f, <2>1 DEF Flight
  <2>3. Least(s) = release /\ Least(s)' = release
    BY <2>1, <2>2 DEF Least
  <2>4. release \in Nat
    BY <1>h
  <2>5. Least(s)' >= Least(s) /\ Least(s)' \in Nat
    BY <2>3, <2>4
  <2>6. flight[s].step # "hung" /\ flight'[s].step # "none"
    BY <2>1, <2>2
  <2> QED
    BY <1>a, <2>1, <2>2, <2>5, <2>6
<1>7. ASSUME NEW s \in Server, Receive(s) PROVE ClientOK'
  <2>1. flight' = [flight EXCEPT ![s].step = "writing"]
        /\ flight[s].step = "answered" /\ client' = client
    BY <1>7 DEF Receive
  <2>2. flight'[s].step = "writing" /\ flight'[s].found = flight[s].found
        /\ \A r \in Server : r # s => flight'[r] = flight[r]
    BY <1>f, <2>1 DEF Flight
  <2>3. Least(s)' = Least(s) /\ Least(s) \in Nat
    BY <1>l, <2>1, <2>2 DEF Least
  <2> QED
    BY <1>a, <2>1, <2>2, <2>3
<1>8. ASSUME NEW s \in Server, Remembered(s) PROVE ClientOK'
  <2>1. Settle(s, flight[s].found) /\ step[<<s, "check">>] # "idle"
    BY <1>8 DEF Remembered, Fill, Fail
  <2>2. flight[s].step = "writing"
    BY <2>1 DEF UInv, CallOK
  <2>3. flight[s].found = Least(s) /\ flight[s].found \in 0..MaxRelease
    BY <1>f, <2>2 DEF Least
  <2> QED
    BY <1>s, <2>1, <2>2, <2>3
<1>9. ASSUME NEW s \in Server, CrashServer(s) PROVE ClientOK'
  <2>1. \A c \in Client :
          client'[c] = IF client[c].state = "waiting" /\ client[c].server = s
                       THEN [client[c] EXCEPT !.state = "lost", !.server = Nobody]
                       ELSE client[c]
    BY <1>9 DEF CrashServer
  <2>2. \A r \in Server : r # s => flight'[r] = flight[r]
    BY <1>9, <1>f DEF CrashServer
  <2>3. ASSUME NEW c \in Client, client[c].state = "waiting", client[c].server = s
        PROVE  client'[c] \in Request /\ client'[c].state = "lost"
    <3>1. client'[c] = [client[c] EXCEPT !.state = "lost", !.server = Nobody] /\ client[c] \in Request
      BY <1>c, <2>1, <2>3
    <3> QED
      BY <3>1 DEF Request
  <2>4. ASSUME NEW c \in Client, client[c].state = "waiting", client[c].server # s
        PROVE  /\ flight'[client[c].server].step # "none"
               /\ flight'[client[c].server].step # "hung" =>
                    client[c].due <= Least(client[c].server)'
    <3>0. client'[c] = client[c]
      BY <2>1, <2>4
    <3>1. PICK r \in Server :
            /\ r = client[c].server /\ r # s /\ flight[r].step # "none"
            /\ flight[r].step # "hung" => client[c].due <= Least(r)
      BY <1>c, <2>4
    <3>2. /\ flight'[r] = flight[r] /\ Least(r)' >= Least(r)
          /\ Least(r)' \in Nat /\ Least(r) \in Nat /\ client[c].due \in Nat
      BY <1>d, <1>l, <1>m, <2>2, <3>1
    <3> QED
      BY <3>0, <3>1, <3>2
  <2>5. client' \in [Client -> Request]
    <3>1. \A c \in Client : client'[c] \in Request
      BY <1>c, <2>1, <2>3
    <3>2. client' = [c \in Client |-> client'[c]]
      BY <1>9 DEF CrashServer
    <3> QED
      BY <3>1, <3>2
  <2> QED
    BY <1>c, <2>1, <2>3, <2>4, <2>5 DEF ClientOK, NotOlderThanAsked
<1>10. ASSUME NEW s \in Server, CheckOpens(s) \/ PageWrites(s) PROVE ClientOK'
  BY <1>10, <1>b, Zenon DEF CheckOpens, PageWrites
<1>11. Tick \/ Publish => ClientOK'
  BY <1>b, Zenon DEF Tick, Publish
<1>12. UNCHANGED updateVars => ClientOK'
  BY <1>b DEF updateVars
<1>13. PageServer \subseteq Server
  BY SharedFileAssumption
<1> QED
  BY <1>1, <1>2, <1>3, <1>4, <1>5, <1>6, <1>7, <1>8, <1>9, <1>10, <1>11, <1>12, <1>13, Zenon
     DEF UpdateNext, Check

LEMMA UpdateInvariance == UpdateSpec => []UInv
<1>1. UpdateInit => UInv
  <2> SUFFICES ASSUME UpdateInit PROVE UInv
    OBVIOUS
  <2> USE BoundsAssumption DEF UpdateInit
  <2>1. TypeOK /\ file = Empty /\ \A w \in Writer : next[w] = Empty /\ step[w] = "idle"
    <3>1. (CHOOSE k \in Key : TRUE) \in Key
      BY KeyAssumption
    <3> QED
      BY <3>1, EmptyIsDoc DEF Init, TypeOK
  <2>2. HistoryOK
    BY DEF HistoryOK
  <2>3. DocsOK
    <3>1. Empty["update"] = NoValue
      BY SharedFileAssumption DEF Empty
    <3> QED
      BY <2>1, <3>1 DEF DocsOK, HonestAt
  <2>4. FlightOK
    BY DEF FlightOK, NoFlight, Flight
  <2>5. CallOK
    <3>1. \A s \in Server : <<s, "check">> \in Writer
      BY SharedFileAssumption DEF Writer
    <3> QED
      BY <2>1, <3>1 DEF CallOK
  <2>6. ClientOK
    BY DEF ClientOK, Request, NotOlderThanAsked
  <2> QED
    BY <2>1, <2>2, <2>3, <2>4, <2>5, <2>6 DEF UInv
<1>2. UInv /\ [UpdateNext]_updateVars => UInv'
  <2> SUFFICES ASSUME UInv, [UpdateNext]_updateVars PROVE UInv'
    OBVIOUS
  <2>1. TypeOK'
    BY StepIsSettingsStep, TypeStep DEF UInv
  <2>2. HistoryOK'
    BY HistoryStep DEF UInv
  <2> QED
    BY <2>1, <2>2, DocsStep, FlightStep, CallStep, ClientStep DEF UInv
<1> QED
  BY <1>1, <1>2, PTL DEF UpdateSpec

\* Checks and pages use the settings file as Settings says it may be used, so that
\* whatever holds there holds here.
THEOREM ChecksUseSettings == UpdateSpec => Spec
<1>1. UpdateInit => Init
  BY DEF UpdateInit
<1>2. UInv /\ [UpdateNext]_updateVars => [Next]_vars
  BY StepIsSettingsStep
<1> QED
  BY <1>1, <1>2, UpdateInvariance, PTL DEF UpdateSpec, Spec

\* Checks and pages that neither overlap nor are cut off, and can read the file,
\* lose no setting.
THEOREM ChecksMerge == UpdateSpec => []SequentialWritesMerge
BY ChecksUseSettings, SequentialWritesAreMerged, PTL

\* Only overlaps and cuts make the file unreadable.
THEOREM ChecksTearByOverlap == UpdateSpec => []TornOnlyByOverlap
BY ChecksUseSettings, TornNeedsOverlap, PTL

\* The variables of the update check keep their types.
THEOREM UpdateTypeCorrect == UpdateSpec => []UpdateTypeOK
<1>1. UInv => UpdateTypeOK
  BY DEF UInv, UpdateTypeOK, HistoryOK, FlightOK, ClientOK
<1> QED
  BY <1>1, UpdateInvariance, PTL

\* What is remembered is true to its date, whatever fails.
THEOREM RememberedHonestly == UpdateSpec => []RememberedIsHonest
<1>1. UInv => RememberedIsHonest
  BY DEF UInv, DocsOK, HonestAt, RememberedIsHonest
<1> QED
  BY <1>1, UpdateInvariance, PTL

\* Whoever begins a check is told enough.
THEOREM AnsweredAsAsked == UpdateSpec => []NotOlderThanAsked
<1>1. UInv => NotOlderThanAsked
  BY DEF UInv, ClientOK
<1> QED
  BY <1>1, UpdateInvariance, PTL
=============================================================================
