--------------------------- MODULE LastOpenedProofs ---------------------------
(***************************************************************************)
(* The guarantees of the root route, for any number of tabs, targets and   *)
(* command lines.                                                          *)
(***************************************************************************)
EXTENDS LastOpened, TLAPS

\* How many redirects a query can still lead to.
Potential(q) ==
  IF q.folder = None /\ q.workspace = None THEN (IF q.ew THEN 0 ELSE 3)
  ELSE IF q.folder = None \/ q.workspace = None THEN 1 ELSE 2

\* Where the handler is when it restores what was opened last.
Restoring == {"lastFolder", "lastWorkspace", "restore"}

\* The redirects of a tab and those that its query can still lead to are three at most.
Budget ==
  \A t \in Tab :
    /\ hops[t] + Potential(url[t]) <= 3
    /\ at[t] \in Restoring => Potential(url[t]) = 3

RInv == TypeOK /\ Budget

LEMMA BlankIsQuery == Blank \in Query
BY DEF Blank, Query

LEMMA ValidPartIsQuery ==
  ASSUME TypeOK, NEW t \in Tab
  PROVE  ValidPart(t) \in Query
<1>1. url[t] \in Query
  BY DEF TypeOK
<1>2. (Targets(url[t]) \cap found[t] = {}) \in BOOLEAN
  OBVIOUS
<1> QED
  BY <1>1, <1>2 DEF ValidPart, Query

LEMMA RememberedIsQuery ==
  ASSUME TypeOK, NEW t \in Tab
  PROVE  Remembered(t) \in Query
<1>1. last[t] \in Query
  BY DEF TypeOK
<1> QED
  BY <1>1 DEF Remembered, Query

LEMMA FromCommandLineIsQuery == FromCommandLine \in Query
BY DEF FromCommandLine, Query

LEMMA RedirectKeepsType ==
  ASSUME TypeOK, NEW t \in Tab, NEW q \in Query, Redirect(t, q)
  PROVE  at' \in [Tab -> Steps] /\ url' \in [Tab -> Query] /\ hops' \in [Tab -> Nat]
BY DEF TypeOK, Redirect, Steps

LEMMA GoToKeepsType ==
  ASSUME TypeOK, NEW t \in Tab, NEW step \in Steps, GoTo(t, step)
  PROVE  at' \in [Tab -> Steps] /\ url' \in [Tab -> Query] /\ hops' \in [Tab -> Nat]
BY DEF TypeOK, GoTo

LEMMA LookKeepsType ==
  ASSUME TypeOK, NEW t \in Tab, NEW x, NEW step \in Steps, Look(t, x, step)
  PROVE  TypeOK'
<1>1. at' \in [Tab -> Steps] /\ url' \in [Tab -> Query] /\ hops' \in [Tab -> Nat]
  BY GoToKeepsType DEF Look
<1>2. found' \in [Tab -> SUBSET Target]
  <2>1. found[t] \cup ({x} \cap exists) \in SUBSET Target
    BY DEF TypeOK
  <2> QED
    BY <2>1 DEF Look, TypeOK
<1> QED
  BY <1>1, <1>2 DEF Look, TypeOK, SessionTypeOK

\* What RestoreQuery goes to is a query.
LEMMA RestoredIsQuery ==
  ASSUME TypeOK, NEW t \in Tab
  PROVE  (IF Targets(Remembered(t)) # {} THEN Remembered(t) ELSE FromCommandLine) \in Query
BY RememberedIsQuery, FromCommandLineIsQuery

\* Every step of a handler keeps the types.
LEMMA HandleTypeStep ==
  ASSUME TypeOK, NEW t \in Tab, Handle(t)
  PROVE  TypeOK'
<1> USE DEF SessionTypeOK
<1>1. CASE Authenticate(t)
  <2>1. PICK step \in {"folder", "login", "refused"} : GoTo(t, step)
    BY <1>1 DEF Authenticate
  <2>2. step \in Steps
    BY DEF Steps, Ends
  <2>3. at' \in [Tab -> Steps] /\ url' \in [Tab -> Query] /\ hops' \in [Tab -> Nat]
    BY <2>1, <2>2, GoToKeepsType
  <2> QED
    BY <1>1, <2>3, BlankIsQuery DEF Authenticate, TypeOK
<1>2. CASE LookForFolder(t) \/ LookForWorkspace(t)
  BY <1>2, LookKeepsType DEF LookForFolder, LookForWorkspace, Steps
<1>3. CASE LookForLastFolder(t) \/ LookForLastWorkspace(t)
  BY <1>3, LookKeepsType DEF LookForLastFolder, LookForLastWorkspace, Steps
<1>4. CASE DropInvalid(t)
  <2>1. at' \in [Tab -> Steps] /\ url' \in [Tab -> Query] /\ hops' \in [Tab -> Nat]
    BY <1>4, ValidPartIsQuery, RedirectKeepsType DEF DropInvalid
  <2> QED
    BY <1>4, <2>1 DEF DropInvalid, TypeOK
<1>5. CASE Accept(t)
  <2>1. at' \in [Tab -> Steps] /\ url' \in [Tab -> Query] /\ hops' \in [Tab -> Nat]
    BY <1>5, GoToKeepsType DEF Accept, Steps
  <2> QED
    BY <1>5, <2>1 DEF Accept, TypeOK
<1>6. CASE ReadLast(t)
  <2>1. (IF ignoreLast THEN "restore" ELSE "lastFolder") \in Steps
    BY DEF Steps
  <2>2. at' \in [Tab -> Steps] /\ url' \in [Tab -> Query] /\ hops' \in [Tab -> Nat]
    BY <1>6, <2>1, GoToKeepsType DEF ReadLast
  <2>3. last' \in [Tab -> Query]
    BY <1>6, BlankIsQuery DEF ReadLast, TypeOK
  <2> QED
    BY <1>6, <2>2, <2>3 DEF ReadLast, TypeOK
<1>7. CASE Restore(t)
  <2> DEFINE q == IF Targets(Remembered(t)) # {} THEN Remembered(t) ELSE FromCommandLine
  <2>1. q \in Query
    BY RestoredIsQuery
  <2>2. Redirect(t, q) \/ GoTo(t, "store")
    BY <1>7 DEF Restore, RestoreQuery
  <2>3. at' \in [Tab -> Steps] /\ url' \in [Tab -> Query] /\ hops' \in [Tab -> Nat]
    BY <2>1, <2>2, GoToKeepsType, RedirectKeepsType DEF Steps
  <2> QED
    BY <1>7, <2>3 DEF Restore, TypeOK
<1>8. CASE Store(t)
  <2>1. at' \in [Tab -> Steps] /\ url' \in [Tab -> Query] /\ hops' \in [Tab -> Nat]
    BY <1>8, GoToKeepsType DEF Store, Steps
  <2>2. saved' \in Query
    BY <1>8 DEF Store, TypeOK
  <2> QED
    BY <1>8, <2>1, <2>2 DEF Store, TypeOK
<1>9. CASE Load(t)
  <2>1. at' \in [Tab -> Steps] /\ url' \in [Tab -> Query] /\ hops' \in [Tab -> Nat]
    BY <1>9, GoToKeepsType DEF Load, Steps, Ends
  <2> QED
    BY <1>9, <2>1 DEF Load, TypeOK
<1> QED
  BY <1>1, <1>2, <1>3, <1>4, <1>5, <1>6, <1>7, <1>8, <1>9 DEF Handle

\* Every step keeps the types.
LEMMA TypeStep ==
  ASSUME TypeOK, [Next]_vars
  PROVE  TypeOK'
<1> USE DEF SessionTypeOK
<1>1. ASSUME NEW t \in Tab, Handle(t) PROVE TypeOK'
  BY <1>1, HandleTypeStep
<1>2. ASSUME NEW t \in Tab, LogIn(t) PROVE TypeOK'
  <2>1. at' \in [Tab -> Steps] /\ url' \in [Tab -> Query] /\ hops' \in [Tab -> Nat]
    BY <1>2, GoToKeepsType DEF LogIn, Steps
  <2> QED
    BY <1>2, <2>1 DEF LogIn, TypeOK
<1>3. ASSUME NEW t \in Tab, NEW q \in Query, Visit(t, q) PROVE TypeOK'
  BY <1>3 DEF Visit, TypeOK, Steps
<1>4. ASSUME NEW x \in Target, Delete(x) PROVE TypeOK'
  BY <1>4 DEF Delete, TypeOK
<1>5. ASSUME NEW x \in Target, Create(x) PROVE TypeOK'
  BY <1>5 DEF Create, TypeOK, requestVars
<1>6. CASE ChangeSession
  BY <1>6 DEF ChangeSession, TypeOK, requestVars
<1>7. CASE Disturb
  BY <1>7 DEF Disturb, TypeOK, requestVars
<1>8. CASE UNCHANGED vars
  BY <1>8 DEF vars, TypeOK
<1> QED
  BY <1>1, <1>2, <1>3, <1>4, <1>5, <1>6, <1>7, <1>8 DEF Next

\* A step that only moves tab t, to where nothing is restored, keeps the budget.
LEMMA MoveKeepsBudget ==
  ASSUME TypeOK, Budget, NEW t \in Tab, NEW step \in Steps, GoTo(t, step),
         step \in Restoring => Potential(url[t]) = 3
  PROVE  Budget'
BY DEF Budget, GoTo, TypeOK, Potential

\* A redirect to a query of smaller potential keeps the budget.
LEMMA RedirectKeepsBudget ==
  ASSUME TypeOK, Budget, NEW t \in Tab, NEW q \in Query, Redirect(t, q),
         Potential(q) < Potential(url[t])
  PROVE  Budget'
<1>1. Potential(q) \in Nat /\ Potential(url[t]) \in Nat
  BY DEF Potential
<1>2. url'[t] = q /\ hops'[t] = hops[t] + 1 /\ at'[t] = "request"
  BY DEF Redirect, TypeOK
<1>3. hops'[t] + Potential(q) <= 3
  BY <1>1, <1>2 DEF Budget, TypeOK
<1>4. \A u \in Tab : u # t => url'[u] = url[u] /\ hops'[u] = hops[u] /\ at'[u] = at[u]
  BY DEF Redirect, TypeOK
<1> QED
  BY <1>2, <1>3, <1>4 DEF Budget, Restoring, Potential

\* Dropping a target that was not found leaves a query of smaller potential.
LEMMA DropLowersPotential ==
  ASSUME TypeOK, NEW t \in Tab, ~(Targets(url[t]) \subseteq found[t])
  PROVE  Potential(ValidPart(t)) < Potential(url[t])
<1> DEFINE u == url[t]
           v == ValidPart(t)
<1>1. None \notin found[t]
  BY PathsAssumption DEF TypeOK
<1>2. v.folder = (IF u.folder \in found[t] THEN u.folder ELSE None)
  BY DEF ValidPart
<1>3. v.workspace = (IF u.workspace \in found[t] THEN u.workspace ELSE None)
  BY DEF ValidPart
<1>4. v.ew = (Targets(u) \cap found[t] = {})
  BY DEF ValidPart
<1>5. (u.folder # None /\ u.folder \notin found[t]) \/ (u.workspace # None /\ u.workspace \notin found[t])
  BY DEF Targets
<1>6. CASE Targets(u) \cap found[t] = {}
  <2>1. v.folder = None /\ v.workspace = None
    BY <1>1, <1>2, <1>3, <1>6 DEF Targets
  <2>2. v.ew = TRUE
    BY <1>4, <1>6
  <2>3. Potential(v) = 0
    BY <2>1, <2>2 DEF Potential
  <2>4. u.folder # None \/ u.workspace # None
    BY <1>5
  <2> QED
    BY <2>3, <2>4 DEF Potential
<1>7. CASE Targets(u) \cap found[t] # {}
  <2>1. u.folder \in found[t] \/ u.workspace \in found[t]
    BY <1>7 DEF Targets
  <2>2. u.folder # None /\ u.workspace # None
    BY <1>1, <1>5, <2>1
  <2>3. (v.folder = None) # (v.workspace = None)
    BY <1>1, <1>2, <1>3, <1>5, <2>1, <2>2
  <2>4. Potential(v) = 1 /\ Potential(u) = 2
    BY <2>2, <2>3 DEF Potential
  <2> QED
    BY <2>4
<1> QED
  BY <1>6, <1>7

\* Every step keeps the budget of redirects.
LEMMA BudgetStep ==
  ASSUME TypeOK, Budget, [Next]_vars
  PROVE  Budget'
<1>1. ASSUME NEW t \in Tab, Handle(t) PROVE Budget'
  <2>1. CASE Authenticate(t)
    <3>1. PICK step \in {"folder", "login", "refused"} : GoTo(t, step)
      BY <2>1 DEF Authenticate
    <3>2. step \in Steps /\ step \notin Restoring
      BY DEF Steps, Ends, Restoring
    <3> QED
      BY <3>1, <3>2, MoveKeepsBudget
  <2>2. CASE LookForFolder(t) \/ LookForWorkspace(t) \/ Accept(t) \/ Store(t)
    BY <2>2, MoveKeepsBudget
       DEF LookForFolder, LookForWorkspace, Accept, Store, Look, Steps, Restoring
  <2>3. CASE DropInvalid(t)
    BY <2>3, DropLowersPotential, ValidPartIsQuery, RedirectKeepsBudget DEF DropInvalid
  <2>4. CASE ReadLast(t)
    <3>1. Potential(url[t]) = 3
      BY <2>4 DEF ReadLast, Potential, Targets
    <3> QED
      BY <2>4, <3>1, MoveKeepsBudget DEF ReadLast, Steps
  <2>5. CASE LookForLastFolder(t) \/ LookForLastWorkspace(t)
    <3>1. Potential(url[t]) = 3
      BY <2>5 DEF LookForLastFolder, LookForLastWorkspace, Budget, Restoring
    <3> QED
      BY <2>5, <3>1, MoveKeepsBudget
         DEF LookForLastFolder, LookForLastWorkspace, Look, Steps
  <2>6. CASE Restore(t)
    <3> DEFINE q == IF Targets(Remembered(t)) # {} THEN Remembered(t) ELSE FromCommandLine
    <3>1. Potential(url[t]) = 3
      BY <2>6 DEF Restore, Budget, Restoring
    <3>2. CASE Targets(q) # {}
      <4>1. Redirect(t, q)
        BY <2>6, <3>2 DEF Restore, RestoreQuery
      <4>2. Potential(q) < 3
        BY <3>2 DEF Potential, Targets
      <4> QED
        BY <3>1, <4>1, <4>2, RestoredIsQuery, RedirectKeepsBudget
    <3>3. CASE Targets(q) = {}
      BY <2>6, <3>3, MoveKeepsBudget DEF Restore, RestoreQuery, Steps, Restoring
    <3> QED
      BY <3>2, <3>3
  <2>7. CASE Load(t)
    <3>1. PICK step \in {"served", "failed"} : GoTo(t, step)
      BY <2>7 DEF Load
    <3>2. step \in Steps /\ step \notin Restoring
      BY DEF Steps, Ends, Restoring
    <3> QED
      BY <3>1, <3>2, MoveKeepsBudget
  <2> QED
    BY <1>1, <2>1, <2>2, <2>3, <2>4, <2>5, <2>6, <2>7 DEF Handle
<1>2. ASSUME NEW t \in Tab, LogIn(t) PROVE Budget'
  BY <1>2, MoveKeepsBudget DEF LogIn, Steps, Restoring
<1>3. ASSUME NEW t \in Tab, NEW q \in Query, Visit(t, q) PROVE Budget'
  <2>1. 0 + Potential(q) <= 3
    BY DEF Potential
  <2>2. url'[t] = q /\ hops'[t] = 0 /\ at'[t] = "request"
    BY <1>3 DEF Visit, TypeOK
  <2>3. \A u \in Tab : u # t => url'[u] = url[u] /\ hops'[u] = hops[u] /\ at'[u] = at[u]
    BY <1>3 DEF Visit, TypeOK
  <2> QED
    BY <2>1, <2>2, <2>3 DEF Budget, Restoring, Potential
<1>4. ASSUME NEW x \in Target, Delete(x) \/ Create(x) PROVE Budget'
  BY <1>4 DEF Delete, Create, requestVars, Budget, Potential
<1>5. CASE ChangeSession \/ Disturb \/ UNCHANGED vars
  BY <1>5 DEF ChangeSession, Disturb, vars, requestVars, Budget, Potential
<1> QED
  BY <1>1, <1>2, <1>3, <1>4, <1>5 DEF Next

\* The inductive invariant.
THEOREM BudgetHolds == Spec => []RInv
<1>1. Init => RInv
  <2> SUFFICES ASSUME Init PROVE RInv
    OBVIOUS
  <2>1. TypeOK
    BY BlankIsQuery DEF Init, TypeOK, SessionTypeOK, Steps
  <2>2. ASSUME NEW t \in Tab
        PROVE  hops[t] + Potential(url[t]) <= 3 /\ Potential(url[t]) = 3
    <3>1. url[t].folder = None /\ url[t].workspace = None /\ url[t].ew = FALSE /\ hops[t] = 0
      BY DEF Init, Blank
    <3>2. Potential(url[t]) = 3
      BY <3>1 DEF Potential
    <3> QED
      BY <3>1, <3>2
  <2>3. Budget
    BY <2>2, Zenon DEF Budget
  <2> QED
    BY <2>1, <2>3 DEF RInv
<1>2. RInv /\ [Next]_vars => RInv'
  BY TypeStep, BudgetStep DEF RInv
<1> QED
  BY <1>1, <1>2, PTL DEF Spec

\* The variables of the root route keep their types.
THEOREM TypeCorrect == Spec => []TypeOK
<1>1. RInv => TypeOK
  BY DEF RInv
<1> QED
  BY <1>1, BudgetHolds, PTL

\* No visit is redirected more than three times.
THEOREM RedirectsAreBounded == Spec => []RedirectsEnd
<1>1. RInv => RedirectsEnd
  <2> SUFFICES ASSUME RInv, NEW t \in Tab PROVE hops[t] <= 3
    BY DEF RedirectsEnd
  <2>1. Potential(url[t]) \in Nat
    BY DEF Potential
  <2>2. hops[t] \in Nat /\ hops[t] + Potential(url[t]) <= 3
    BY DEF RInv, Budget, TypeOK
  <2> QED
    BY <2>1, <2>2
<1> QED
  BY <1>1, BudgetHolds, PTL

-----------------------------------------------------------------------------
\* Where a handler has not looked for anything yet.
Unseen == {"request", "login", "folder"}

\* With --ignore-last-opened nothing remembered ever gets into a query.
Ignored ==
  \A t \in Tab :
    /\ at[t] \notin {"lastFolder", "lastWorkspace"}
    /\ at[t] = "folder" => found[t] = {}
    /\ at[t] \in {"workspace", "decide"} => found[t] \subseteq Targets(url[t])
    /\ at[t] = "restore" => found[t] = {}
    /\ at[t] # "closed" =>
         Targets(url[t]) \subseteq Targets(asked[t]) \cup {CommandLine}

IInv == TypeOK /\ (ignoreLast => Ignored)

\* Every step keeps remembered targets out of the queries.
LEMMA IgnoredStep ==
  ASSUME TypeOK, Ignored, ignoreLast, [Next]_vars
  PROVE  Ignored'
<1> USE DEF Ignored
<1>0. None \notin exists /\ \A t \in Tab : None \notin found[t]
  BY PathsAssumption DEF TypeOK
<1>1. ASSUME NEW t \in Tab, Handle(t) PROVE Ignored'
  <2> DEFINE Elsewhere ==
        \A u \in Tab : u # t =>
          at'[u] = at[u] /\ url'[u] = url[u] /\ found'[u] = found[u] /\ asked'[u] = asked[u]
  <2>1. CASE Authenticate(t)
    BY <2>1 DEF Authenticate, GoTo, TypeOK
  <2>2. CASE LookForFolder(t)
    BY <2>2, <1>0 DEF LookForFolder, Look, GoTo, TypeOK, Targets
  <2>3. CASE LookForWorkspace(t)
    BY <2>3, <1>0 DEF LookForWorkspace, Look, GoTo, TypeOK, Targets
  <2>4. CASE DropInvalid(t)
    <3>1. Targets(ValidPart(t)) \subseteq Targets(url[t])
      BY <1>0 DEF ValidPart, Targets
    <3>2. at'[t] = "request" /\ url'[t] = ValidPart(t) /\ asked' = asked
      BY <2>4 DEF DropInvalid, Redirect, TypeOK
    <3>3. Elsewhere
      BY <2>4 DEF DropInvalid, Redirect, TypeOK
    <3>4. at[t] = "decide"
      BY <2>4 DEF DropInvalid
    <3> QED
      BY <3>1, <3>2, <3>3, <3>4
  <2>5. CASE Accept(t)
    BY <2>5 DEF Accept, GoTo, TypeOK
  <2>6. CASE ReadLast(t)
    <3>1. found[t] = {}
      BY <2>6, <1>0 DEF ReadLast
    <3> QED
      BY <2>6, <3>1 DEF ReadLast, GoTo, TypeOK
  <2>7. CASE LookForLastFolder(t) \/ LookForLastWorkspace(t)
    BY <2>7 DEF LookForLastFolder, LookForLastWorkspace
  <2>8. CASE Restore(t)
    <3> DEFINE q == IF Targets(Remembered(t)) # {} THEN Remembered(t) ELSE FromCommandLine
    <3>1. found[t] = {}
      BY <2>8 DEF Restore
    <3>2. Targets(Remembered(t)) = {}
      BY <3>1 DEF Remembered, Targets
    <3>3. Targets(FromCommandLine) \subseteq {CommandLine}
      BY DEF FromCommandLine, Targets
    <3>4. Targets(q) \subseteq {CommandLine}
      BY <3>2, <3>3
    <3>5. asked' = asked /\ found' = found
      BY <2>8 DEF Restore
    <3>6. CASE Redirect(t, q)
      BY <2>8, <3>4, <3>5, <3>6 DEF Redirect, TypeOK
    <3>7. CASE GoTo(t, "store")
      BY <2>8, <3>5, <3>7 DEF GoTo, TypeOK, Restore
    <3> QED
      BY <2>8, <3>6, <3>7 DEF Restore, RestoreQuery
  <2>9. CASE Store(t)
    BY <2>9 DEF Store, GoTo, TypeOK
  <2>10. CASE Load(t)
    BY <2>10 DEF Load, GoTo, TypeOK
  <2> QED
    BY <1>1, <2>1, <2>2, <2>3, <2>4, <2>5, <2>6, <2>7, <2>8, <2>9, <2>10 DEF Handle
<1>2. ASSUME NEW t \in Tab, LogIn(t) PROVE Ignored'
  BY <1>2 DEF LogIn, GoTo, TypeOK
<1>3. ASSUME NEW t \in Tab, NEW q \in Query, Visit(t, q) PROVE Ignored'
  BY <1>3 DEF Visit, TypeOK
<1>4. ASSUME NEW x \in Target, Delete(x) \/ Create(x) PROVE Ignored'
  BY <1>4 DEF Delete, Create, requestVars
<1>5. CASE ChangeSession \/ Disturb \/ UNCHANGED vars
  BY <1>5 DEF ChangeSession, Disturb, vars, requestVars
<1> QED
  BY <1>1, <1>2, <1>3, <1>4, <1>5 DEF Next

\* The option stays what it was when the server was started.
LEMMA OptionStays == [Next]_vars => ignoreLast' = ignoreLast
BY Zenon DEF Next, Handle, Authenticate, LookForFolder, LookForWorkspace, DropInvalid,
  Accept, ReadLast, LookForLastFolder, LookForLastWorkspace, Restore, Store, Load, LogIn,
  Look, Visit, Delete, Create, ChangeSession, Disturb, vars

\* With --ignore-last-opened nothing remembered is ever served.
THEOREM IgnoringWorks == Spec => []LastIsIgnored
<1>1. Init => IInv
  <2>1. Init => TypeOK
    BY BlankIsQuery DEF Init, TypeOK, SessionTypeOK, Steps
  <2>2. Init => Ignored
    BY DEF Init, Ignored
  <2> QED
    BY <2>1, <2>2 DEF IInv
<1>2. IInv /\ [Next]_vars => IInv'
  BY TypeStep, IgnoredStep, OptionStays DEF IInv
<1>3. IInv => LastIsIgnored
  BY DEF IInv, Ignored, LastIsIgnored
<1> QED
  BY <1>1, <1>2, <1>3, PTL DEF Spec

-----------------------------------------------------------------------------
\* The targets that the user of t asked for and that were there all the time.
Kept(t) == Targets(asked[t]) \ missed[t]

\* What is kept has been found wherever the handler has looked, and is in the query.
Honoured ==
  \A t \in Tab :
    /\ at[t] # "closed" => Target \ exists \subseteq missed[t]
    /\ at[t] \in Restoring => Targets(url[t]) = {}
    /\ at[t] # "closed" /\ Kept(t) # {} =>
         /\ Kept(t) \subseteq Targets(url[t])
         /\ Targets(url[t]) \subseteq Targets(asked[t])
         /\ at[t] = "workspace" => Kept(t) \cap {url[t].folder} \subseteq found[t]
         /\ at[t] = "decide" => Kept(t) \subseteq found[t]

HInv == TypeOK /\ Honoured

LEMMA KeptExists ==
  ASSUME TypeOK, Honoured, NEW t \in Tab, at[t] # "closed"
  PROVE  Kept(t) \subseteq exists
<1>1. Targets(asked[t]) \subseteq Target
  BY DEF TypeOK, Query, Targets, Target
<1> QED
  BY <1>1 DEF Honoured, Kept

\* Every step honours what the users asked for.
LEMMA HonouredStep ==
  ASSUME TypeOK, Honoured, [Next]_vars
  PROVE  Honoured'
<1> USE DEF Honoured, Kept, Restoring
<1>0. None \notin exists /\ \A t \in Tab : None \notin found[t]
  BY PathsAssumption DEF TypeOK
<1>1. ASSUME NEW t \in Tab, Handle(t) PROVE Honoured'
  <2>1. CASE Authenticate(t)
    BY <2>1 DEF Authenticate, GoTo, TypeOK
  <2>2. CASE LookForFolder(t)
    <3>1. Kept(t) \subseteq exists
      BY <2>2, KeptExists DEF LookForFolder
    <3>2. at'[t] = "workspace" /\ url' = url /\ asked' = asked /\ missed' = missed /\ exists' = exists
      BY <2>2 DEF LookForFolder, Look, GoTo, TypeOK
    <3>3. {url[t].folder} \cap exists \subseteq found'[t]
      BY <2>2 DEF LookForFolder, Look, TypeOK
    <3>4. \A u \in Tab : u # t => at'[u] = at[u] /\ found'[u] = found[u]
      BY <2>2 DEF LookForFolder, Look, GoTo, TypeOK
    <3>5. at[t] = "folder"
      BY <2>2 DEF LookForFolder
    <3> QED
      BY <3>1, <3>2, <3>3, <3>4, <3>5
  <2>3. CASE LookForWorkspace(t)
    <3>1. Kept(t) \subseteq exists
      BY <2>3, KeptExists DEF LookForWorkspace
    <3>2. at'[t] = "decide" /\ url' = url /\ asked' = asked /\ missed' = missed /\ exists' = exists
      BY <2>3 DEF LookForWorkspace, Look, GoTo, TypeOK
    <3>3. found'[t] = found[t] \cup ({url[t].workspace} \cap exists)
      BY <2>3 DEF LookForWorkspace, Look, TypeOK
    <3>4. \A u \in Tab : u # t => at'[u] = at[u] /\ found'[u] = found[u]
      BY <2>3 DEF LookForWorkspace, Look, GoTo, TypeOK
    <3>5. at[t] = "workspace"
      BY <2>3 DEF LookForWorkspace
    <3>6. Kept(t) # {} => Kept(t) \subseteq found'[t]
      BY <3>1, <3>3, <3>5 DEF Targets
    <3> QED
      BY <3>2, <3>4, <3>5, <3>6
  <2>4. CASE DropInvalid(t)
    <3>1. Targets(ValidPart(t)) = Targets(url[t]) \cap found[t]
      BY <1>0 DEF ValidPart, Targets
    <3>2. at'[t] = "request" /\ url'[t] = ValidPart(t)
      BY <2>4 DEF DropInvalid, Redirect, TypeOK
    <3>3. asked' = asked /\ missed' = missed /\ exists' = exists /\ found' = found
      BY <2>4 DEF DropInvalid
    <3>4. \A u \in Tab : u # t => at'[u] = at[u] /\ url'[u] = url[u]
      BY <2>4 DEF DropInvalid, Redirect, TypeOK
    <3>5. at[t] = "decide"
      BY <2>4 DEF DropInvalid
    <3> QED
      BY <3>1, <3>2, <3>3, <3>4, <3>5
  <2>5. CASE Accept(t)
    BY <2>5 DEF Accept, GoTo, TypeOK
  <2>6. CASE ReadLast(t)
    BY <2>6 DEF ReadLast, GoTo, TypeOK
  <2>7. CASE LookForLastFolder(t) \/ LookForLastWorkspace(t)
    <3>1. at[t] \in Restoring /\ at'[t] \in Restoring
      BY <2>7 DEF LookForLastFolder, LookForLastWorkspace, Look, GoTo, TypeOK
    <3>2. url' = url /\ asked' = asked /\ missed' = missed /\ exists' = exists
      BY <2>7 DEF LookForLastFolder, LookForLastWorkspace, Look, GoTo
    <3>3. \A u \in Tab : u # t => at'[u] = at[u] /\ found'[u] = found[u]
      BY <2>7 DEF LookForLastFolder, LookForLastWorkspace, Look, GoTo, TypeOK
    <3> QED
      BY <3>1, <3>2, <3>3
  <2>8. CASE Restore(t)
    <3> DEFINE q == IF Targets(Remembered(t)) # {} THEN Remembered(t) ELSE FromCommandLine
    <3>1. asked' = asked /\ missed' = missed /\ exists' = exists /\ found' = found
      BY <2>8 DEF Restore
    <3>2. at[t] = "restore" /\ Targets(url[t]) = {}
      BY <2>8 DEF Restore
    <3>3. Kept(t) = {}
      BY <3>2
    <3>4. at'[t] \in {"request", "store"}
      BY <2>8 DEF Restore, RestoreQuery, Redirect, GoTo, TypeOK
    <3>5. \A u \in Tab : u # t => at'[u] = at[u] /\ url'[u] = url[u]
      BY <2>8 DEF Restore, RestoreQuery, Redirect, GoTo, TypeOK
    <3> QED
      BY <3>1, <3>2, <3>3, <3>4, <3>5
  <2>9. CASE Store(t)
    BY <2>9 DEF Store, GoTo, TypeOK
  <2>10. CASE Load(t)
    BY <2>10 DEF Load, GoTo, TypeOK
  <2> QED
    BY <1>1, <2>1, <2>2, <2>3, <2>4, <2>5, <2>6, <2>7, <2>8, <2>9, <2>10 DEF Handle
<1>2. ASSUME NEW t \in Tab, LogIn(t) PROVE Honoured'
  BY <1>2 DEF LogIn, GoTo, TypeOK
<1>3. ASSUME NEW t \in Tab, NEW q \in Query, Visit(t, q) PROVE Honoured'
  <2>1. at'[t] = "request" /\ url'[t] = q /\ asked'[t] = q /\ missed'[t] = Target \ exists
    BY <1>3 DEF Visit, TypeOK
  <2>2. \A u \in Tab : u # t =>
          at'[u] = at[u] /\ url'[u] = url[u] /\ asked'[u] = asked[u] /\ missed'[u] = missed[u]
    BY <1>3 DEF Visit, TypeOK
  <2>3. exists' = exists /\ found' = found
    BY <1>3 DEF Visit
  <2> QED
    BY <2>1, <2>2, <2>3
<1>4. ASSUME NEW x \in Target, Delete(x) PROVE Honoured'
  <2>1. \A t \in Tab : missed'[t] = missed[t] \cup {x}
    BY <1>4 DEF Delete
  <2>2. exists' = exists \ {x} /\ UNCHANGED <<at, url, found, asked>>
    BY <1>4 DEF Delete
  <2> QED
    BY <2>1, <2>2
<1>5. ASSUME NEW x \in Target, Create(x) PROVE Honoured'
  BY <1>5 DEF Create, requestVars
<1>6. CASE ChangeSession \/ Disturb \/ UNCHANGED vars
  BY <1>6 DEF ChangeSession, Disturb, vars, requestVars
<1> QED
  BY <1>1, <1>2, <1>3, <1>4, <1>5, <1>6 DEF Next

\* What is asked for and there is served, and nothing else.
THEOREM AskedIsHonoured == Spec => []AskedIsServed
<1>1. Init => HInv
  <2>1. Init => TypeOK
    BY BlankIsQuery DEF Init, TypeOK, SessionTypeOK, Steps
  <2>2. Init => Honoured
    BY DEF Init, Honoured, Restoring
  <2> QED
    BY <2>1, <2>2 DEF HInv
<1>2. HInv /\ [Next]_vars => HInv'
  BY TypeStep, HonouredStep DEF HInv
<1>3. HInv => AskedIsServed
  BY DEF HInv, Honoured, Kept, AskedIsServed
<1> QED
  BY <1>1, <1>2, <1>3, PTL DEF Spec
=============================================================================
