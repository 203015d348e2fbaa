------------------------------ MODULE LastOpened ------------------------------
(***************************************************************************)
(* Which folder or workspace a browser tab gets to see: the handler of the *)
(* root route in src/node/routes/vscode.ts, which redirects a tab that     *)
(* asks for nothing to what was opened last, or to the path of the command *)
(* line, and drops targets that are not there.  A handler looks at one     *)
(* thing after the other; meanwhile targets come and go, other tabs store  *)
(* their queries and a user logs out.                                      *)
(***************************************************************************)
EXTENDS Naturals

CONSTANTS
  Tab,          \* browser tabs
  Folder,       \* paths that are directories whenever they exist
  WorkspaceFile,\* paths that are .code-workspace files whenever they exist
  None,         \* no path
  CommandLine   \* the last path given on the command line, or None

Target == Folder \cup WorkspaceFile

ASSUME PathsAssumption == None \notin Target /\ Folder \cap WorkspaceFile = {}
ASSUME CommandLineAssumption == CommandLine \in Target \cup {None}

\* A query of the root route: what to open, and whether "ew" is set.
Query ==
  [folder : Folder \cup {None}, workspace : WorkspaceFile \cup {None}, ew : BOOLEAN]

Blank == [folder |-> None, workspace |-> None, ew |-> FALSE]

\* The targets of a query.
Targets(q) == {q.folder, q.workspace} \ {None}

VARIABLES
  ignoreLast, \* --ignore-last-opened, as the server was started
  exists,   \* the targets that exist
  saved,    \* settings.query
  session,  \* whether the browser's session cookie is valid
  at,       \* at[t]: where the request of tab t is
  url,      \* url[t]: the query of that request
  found,    \* found[t]: the targets that the handler has found to exist
  last,     \* last[t]: lastOpened, as read by the handler
  \* What the properties compare with; the code does not keep it.
  asked,    \* asked[t]: the query that the user of t gave
  missed,   \* missed[t]: the targets that did not exist at some time since then
  hops      \* hops[t]: the redirects of the handler since then

vars == <<ignoreLast, exists, saved, session, at, url, found, last, asked, missed, hops>>

requestVars == <<at, url, found, last, asked, missed, hops>>

\* How a request may end: with the page of VS Code, with 429 because there were too
\* many unauthenticated ones, or with an error because VS Code could not be loaded.
Ends == {"served", "refused", "failed"}

Steps ==
  {"closed", "request", "login", "folder", "workspace", "decide",
   "lastFolder", "lastWorkspace", "restore", "store", "load"} \cup Ends

SessionTypeOK == session \in BOOLEAN /\ ignoreLast \in BOOLEAN

TypeOK ==
  /\ exists \subseteq Target
  /\ saved \in Query
  /\ SessionTypeOK
  /\ at \in [Tab -> Steps]
  /\ url \in [Tab -> Query]
  /\ found \in [Tab -> SUBSET Target]
  /\ last \in [Tab -> Query]
  /\ asked \in [Tab -> Query]
  /\ missed \in [Tab -> SUBSET Target]
  /\ hops \in [Tab -> Nat]

Init ==
  /\ ignoreLast \in BOOLEAN
  /\ exists \in SUBSET Target
  /\ saved = Blank
  /\ session \in BOOLEAN
  /\ at = [t \in Tab |-> "closed"]
  /\ url = [t \in Tab |-> Blank]
  /\ found = [t \in Tab |-> {}]
  /\ last = [t \in Tab |-> Blank]
  /\ asked = [t \in Tab |-> Blank]
  /\ missed = [t \in Tab |-> {}]
  /\ hops = [t \in Tab |-> 0]

-----------------------------------------------------------------------------
(***************************************************************************)
(* The world around a request                                              *)
(***************************************************************************)

\* A user opens a tab, with any query.
Visit(t, q) ==
  /\ at[t] \in {"closed"} \cup Ends
  /\ at' = [at EXCEPT ![t] = "request"]
  /\ url' = [url EXCEPT ![t] = q]
  /\ asked' = [asked EXCEPT ![t] = q]
  /\ missed' = [missed EXCEPT ![t] = Target \ exists]
  /\ hops' = [hops EXCEPT ![t] = 0]
  /\ UNCHANGED <<ignoreLast, exists, saved, session, found, last>>

\* A file or directory is deleted.
Delete(x) ==
  /\ x \in exists
  /\ exists' = exists \ {x}
  /\ missed' = [t \in Tab |-> missed[t] \cup {x}]
  /\ UNCHANGED <<ignoreLast, saved, session, at, url, found, last, asked, hops>>

Create(x) ==
  /\ x \in Target \ exists
  /\ exists' = exists \cup {x}
  /\ UNCHANGED <<ignoreLast, saved, session, requestVars>>

\* The session cookie expires or is cleared, or becomes valid in another tab.
ChangeSession ==
  /\ session' = ~session
  /\ UNCHANGED <<ignoreLast, exists, saved, requestVars>>

\* An overlapping write of another setting loses the query or revives an old
\* one (module Settings), or the file is edited.
Disturb ==
  /\ saved' \in Query
  /\ UNCHANGED <<ignoreLast, exists, session, requestVars>>

-----------------------------------------------------------------------------
(***************************************************************************)
(* The handler                                                             *)
(***************************************************************************)

\* A redirect makes the browser ask again, with query q.
Redirect(t, q) ==
  /\ at' = [at EXCEPT ![t] = "request"]
  /\ url' = [url EXCEPT ![t] = q]
  /\ hops' = [hops EXCEPT ![t] = hops[t] + 1]

GoTo(t, step) ==
  /\ at' = [at EXCEPT ![t] = step]
  /\ UNCHANGED <<url, hops>>

\* authenticated(): without a valid cookie the tab gets the login page, which keeps
\* the query, unless the limiter refuses it.
Authenticate(t) ==
  /\ at[t] = "request"
  /\ \E step \in IF session THEN {"folder"} ELSE {"login", "refused"} : GoTo(t, step)
  /\ found' = [found EXCEPT ![t] = {}]
  /\ last' = [last EXCEPT ![t] = Blank]
  /\ UNCHANGED <<ignoreLast, exists, saved, session, asked, missed>>

\* The user logs in, or has logged in elsewhere: redirected back to where the tab was.
LogIn(t) ==
  /\ at[t] = "login"
  /\ session' = TRUE
  /\ GoTo(t, "request")
  /\ UNCHANGED <<ignoreLast, exists, saved, found, last, asked, missed>>

\* isDirectory() or isFile() of path x, the one after the other.
Look(t, x, step) ==
  /\ found' = [found EXCEPT ![t] = @ \cup ({x} \cap exists)]
  /\ GoTo(t, step)
  /\ UNCHANGED <<ignoreLast, exists, saved, session, last, asked, missed>>

LookForFolder(t) ==
  /\ at[t] = "folder"
  /\ Look(t, url[t].folder, "workspace")

LookForWorkspace(t) ==
  /\ at[t] = "workspace"
  /\ Look(t, url[t].workspace, "decide")

\* Faulty variant: what is gone is dropped, but "ew" is not set.
ValidPartOnly(t) ==
  [folder |-> IF url[t].folder \in found[t] THEN url[t].folder ELSE None,
   workspace |-> IF url[t].workspace \in found[t] THEN url[t].workspace ELSE None,
   ew |-> FALSE]

\* Faulty variant: one target that is gone takes the other one with it.
ValidPartNone(t) == [Blank EXCEPT !.ew = TRUE]

\* The query without the targets that were not found, and with "ew" if none was.
ValidPart(t) ==
  [folder |-> IF url[t].folder \in found[t] THEN url[t].folder ELSE None,
   workspace |-> IF url[t].workspace \in found[t] THEN url[t].workspace ELSE None,
   ew |-> Targets(url[t]) \cap found[t] = {}]

\* A target was not found: redirect without it.
DropInvalid(t) ==
  /\ at[t] = "decide"
  /\ ~(Targets(url[t]) \subseteq found[t])
  /\ Redirect(t, ValidPart(t))
  /\ UNCHANGED <<ignoreLast, exists, saved, session, found, last, asked, missed>>

\* Something is asked for and there, or the workspace was closed: serve it.
Accept(t) ==
  /\ at[t] = "decide"
  /\ Targets(url[t]) \subseteq found[t]
  /\ Targets(url[t]) # {} \/ url[t].ew
  /\ GoTo(t, "store")
  /\ UNCHANGED <<ignoreLast, exists, saved, session, found, last, asked, missed>>

\* Nothing is asked for: settings.read(), which finds no query while the file is being written.
ReadLast(t) ==
  /\ at[t] = "decide"
  /\ Targets(url[t]) = {} /\ ~url[t].ew
  /\ \E q \in {saved, Blank} : last' = [last EXCEPT ![t] = q]
  /\ GoTo(t, IF ignoreLast THEN "restore" ELSE "lastFolder")
  /\ UNCHANGED <<ignoreLast, exists, saved, session, found, asked, missed>>

LookForLastFolder(t) ==
  /\ at[t] = "lastFolder"
  /\ Look(t, last[t].folder, "lastWorkspace")

LookForLastWorkspace(t) ==
  /\ at[t] = "lastWorkspace"
  /\ Look(t, last[t].workspace, "restore")

\* Faulty variant: next() is not called when there is nothing to restore.
RestoreQueryOnly(t, q) ==
  IF Targets(q) # {} THEN Redirect(t, q) ELSE GoTo(t, "restore")

\* Redirect to query q if there is anything in it, else serve the empty window.
RestoreQuery(t, q) ==
  IF Targets(q) # {} THEN Redirect(t, q) ELSE GoTo(t, "store")

\* What is remembered, of that what was found to exist.
Remembered(t) ==
  [folder |-> IF last[t].folder \in found[t] THEN last[t].folder ELSE None,
   workspace |-> IF last[t].workspace \in found[t] THEN last[t].workspace ELSE None,
   ew |-> FALSE]

\* The path of the command line, if it exists now.
FromCommandLine ==
  [folder |-> IF CommandLine \in exists \cap Folder THEN CommandLine ELSE None,
   workspace |-> IF CommandLine \in exists \cap WorkspaceFile THEN CommandLine ELSE None,
   ew |-> FALSE]

\* Redirect to what is remembered or else to the path of the command line.
Restore(t) ==
  /\ at[t] = "restore"
  /\ RestoreQuery(t, IF Targets(Remembered(t)) # {} THEN Remembered(t) ELSE FromCommandLine)
  /\ UNCHANGED <<ignoreLast, exists, saved, session, found, last, asked, missed>>

\* The query is stored, unless that fails, and next() is called.
Store(t) ==
  /\ at[t] = "store"
  /\ saved' \in {saved, url[t]}
  /\ GoTo(t, "load")
  /\ UNCHANGED <<ignoreLast, exists, session, found, last, asked, missed>>

\* ensureVSCodeLoaded has loaded VS Code, which serves the page, or could not.  (The
\* cookie of the request passes ensureAuthenticated again.)
Load(t) ==
  /\ at[t] = "load"
  /\ \E step \in {"served", "failed"} : GoTo(t, step)
  /\ UNCHANGED <<ignoreLast, exists, saved, session, found, last, asked, missed>>

Handle(t) ==
  \/ Authenticate(t) \/ LookForFolder(t) \/ LookForWorkspace(t)
  \/ DropInvalid(t) \/ Accept(t) \/ ReadLast(t)
  \/ LookForLastFolder(t) \/ LookForLastWorkspace(t) \/ Restore(t)
  \/ Store(t) \/ Load(t)

Next ==
  \/ \E t \in Tab : Handle(t) \/ LogIn(t) \/ \E q \in Query : Visit(t, q)
  \/ \E x \in Target : Delete(x) \/ Create(x)
  \/ ChangeSession \/ Disturb

Spec == Init /\ [][Next]_vars

\* A handler goes on as long as it can.  Nothing is assumed of the user.
FairSpec == Spec /\ \A t \in Tab : WF_vars(Handle(t))

-----------------------------------------------------------------------------
\* Restoring what was opened last and dropping what is gone never send a tab
\* around in circles, whatever is deleted, created or stored while it follows
\* the redirects: at most one restores and at most two drop targets.
RedirectsEnd == \A t \in Tab : hops[t] <= 3

\* With --ignore-last-opened a tab shows what its user asked for or the path
\* of the command line, never something remembered.
LastIsIgnored ==
  ignoreLast =>
    \A t \in Tab :
      at[t] = "served" => Targets(url[t]) \subseteq Targets(asked[t]) \cup {CommandLine}

\* A target that the user asked for and that was there all the time is served,
\* whatever became of the other one and of the session, and if there is one
\* nothing is served that the user did not ask for.
AskedIsServed ==
  \A t \in Tab :
    at[t] = "served" /\ ~(Targets(asked[t]) \subseteq missed[t]) =>
      /\ Targets(asked[t]) \ missed[t] \subseteq Targets(url[t])
      /\ Targets(url[t]) \subseteq Targets(asked[t])

\* Every visit ends, with a page (the one of VS Code or the one to log in) or an
\* error: no request is left without an answer, and no redirects go on forever.
EveryVisitEnds ==
  \A t \in Tab : at[t] = "request" ~> at[t] \in {"login"} \cup Ends
=============================================================================
