------------------------------ MODULE UpdateCheck ------------------------------
(***************************************************************************)
(* The check for updates: GET /update/check (src/node/routes/update.ts)    *)
(* and the UpdateProvider of src/node/update.ts, composed with the         *)
(* settings file in which it remembers what it found.  The page of         *)
(* routes/vscode.ts writes its query to the same file.  Several servers,   *)
(* each with one promise for the check under way, share the file.          *)
(***************************************************************************)
EXTENDS Settings

CONSTANTS
  Client,        \* requests to /update/check
  Query,         \* what pages store in the setting "query"
  PageServer,    \* bound: the servers whose pages are opened
  MaxTime,       \* bound: the last instant
  MaxRelease,    \* bound: the last release
  Interval,      \* updateInterval
  MaxRedirects,  \* maxRedirects
  Nobody         \* the server of a client that waits for none

\* What is remembered of a check.  Release 0 is the version "unknown".
Update == [checked : 0..MaxTime, version : 0..MaxRelease]

ASSUME BoundsAssumption ==
  /\ MaxTime \in Nat /\ MaxRelease \in Nat \ {0}
  /\ Interval \in Nat /\ MaxRedirects \in Nat
ASSUME SharedFileAssumption ==
  /\ {"check", "page"} \subseteq Call
  /\ {"update", "query"} \subseteq Key
  /\ Update \cup Query \subseteq Value
  /\ PageServer \subseteq Server
ASSUME NobodyAssumption == Nobody \notin Server

VARIABLES
  now,      \* Date.now()
  release,  \* the release that latestUrl names
  flight,   \* flight[s]: the promise `update` of server s and where _getUpdate is
  client,   \* client[c]: the request c
  \* What the properties compare with.
  published \* published[t]: the release when the clock came to t

updateVars == <<vars, now, release, flight, client, published>>

Flight ==
  [step : {"none", "reading", "requesting", "answered", "hung", "writing"},
   asOf : 0..MaxTime, redirects : 0..MaxRedirects, found : 0..MaxRelease]

\* due: the release that NotOlderThanAsked compares the answer with.
Request ==
  [state : {"idle", "waiting", "answered", "lost"}, server : Server \cup {Nobody},
   due : 0..MaxRelease, answer : 0..MaxRelease]

NoFlight == [step |-> "none", asOf |-> 0, redirects |-> 0, found |-> 0]

UpdateTypeOK ==
  /\ TypeOK
  /\ now \in 0..MaxTime
  /\ release \in 1..MaxRelease
  /\ flight \in [Server -> Flight]
  /\ client \in [Client -> Request]
  /\ published \in [0..MaxTime -> 0..MaxRelease]

UpdateInit ==
  /\ Init
  /\ now = 0
  /\ release = 1
  /\ flight = [s \in Server |-> NoFlight]
  /\ client = [c \in Client |->
       [state |-> "idle", server |-> Nobody, due |-> 0, answer |-> 0]]
  /\ published = [t \in 0..MaxTime |-> IF t = 0 THEN 1 ELSE 0]

-----------------------------------------------------------------------------
\* Faulty variant: a forced check looks there too.
BegunAlike(force) == [step |-> "reading", asOf |-> now, redirects |-> 0, found |-> 0]

\* _getUpdate() begins: only an unforced check looks at what is remembered.
Begun(force) ==
  [step |-> IF force THEN "requesting" ELSE "reading",
   asOf |-> now, redirects |-> 0, found |-> 0]

\* A request that begins a check shall learn of every release there is when it is
\* forced, and when it is not of every one that is older than the interval.
Due(force) ==
  IF force THEN release ELSE IF now >= Interval THEN published[now - Interval] ELSE 0

\* GET /update/check: getUpdate() starts a check or joins the one under way,
\* whatever that one was asked for.
Ask(c, s, force) ==
  LET joins == flight[s].step # "none"
  IN  /\ client[c].state = "idle"
      /\ client' = [client EXCEPT ![c] =
           [state |-> "waiting", server |-> s,
            due |-> IF joins THEN 0 ELSE Due(force), answer |-> 0]]
      /\ flight' = IF joins THEN flight ELSE [flight EXCEPT ![s] = Begun(force)]
      /\ UNCHANGED <<vars, now, release, published>>

\* The promise is reset, and everybody who awaits it answers with version v.
Settle(s, v) ==
  /\ flight' = [flight EXCEPT ![s] = NoFlight]
  /\ client' = [c \in Client |->
       IF client[c].state = "waiting" /\ client[c].server = s
       THEN [client[c] EXCEPT !.state = "answered", !.server = Nobody, !.answer = v]
       ELSE client[c]]

\* Whether a remembered update spares the request.
Fresh(update, asOf) ==
  update # NoValue /\ update.checked + Interval >= asOf

\* settings.read() returns, and the check ends with what it finds or asks.
ReadCache(s) ==
  /\ flight[s].step = "reading"
  /\ \E old \in Read :
       IF Fresh(old["update"], flight[s].asOf)
       THEN Settle(s, old["update"].version)
       ELSE /\ flight' = [flight EXCEPT ![s].step = "requesting"]
            /\ UNCHANGED client
  /\ UNCHANGED <<vars, now, release, published>>

\* The check fails, by an error or a status outside 200..399, a redirect too
\* many or to nowhere, or a body that cannot be used: "unknown", not remembered.
RequestFails(s) ==
  /\ flight[s].step \in {"requesting", "answered"}
  /\ Settle(s, 0)
  /\ UNCHANGED <<vars, now, release, published>>

\* Faulty variant: redirects are not counted.
RedirectUncounted(s) ==
  /\ flight[s].step = "requesting"
  /\ flight' = [flight EXCEPT ![s].redirects = 0]
  /\ UNCHANGED <<vars, now, release, client, published>>

\* A redirect is followed as long as they are not too many.
Redirect(s) ==
  /\ flight[s].step = "requesting"
  /\ flight[s].redirects < MaxRedirects
  /\ flight' = [flight EXCEPT ![s].redirects = @ + 1]
  /\ UNCHANGED <<vars, now, release, client, published>>

\* Nothing limits the time of a request, nor that of reading its body.
Hang(s) ==
  /\ flight[s].step \in {"requesting", "answered"}
  /\ flight' = [flight EXCEPT ![s] = [NoFlight EXCEPT !.step = "hung"]]
  /\ UNCHANGED <<vars, now, release, client, published>>

\* latestUrl answers with the release of this moment.
Respond(s) ==
  /\ flight[s].step = "requesting"
  /\ flight' = [flight EXCEPT ![s].step = "answered", ![s].found = release,
                              ![s].redirects = 0]
  /\ UNCHANGED <<vars, now, release, client, published>>

\* Faulty variant: the update is dated when the answer is there.
DatedLate(asOf, v) == [checked |-> now, version |-> v]

\* The update that is remembered: dated when the check began.
Dated(asOf, v) == [checked |-> asOf, version |-> v]

\* The answer has arrived in full, and write() begins.
Receive(s) ==
  /\ flight[s].step = "answered"
  /\ flight' = [flight EXCEPT ![s].step = "writing"]
  /\ Begin(<<s, "check">>, "update", Dated(flight[s].asOf, flight[s].found))
  /\ UNCHANGED <<now, release, client, published>>

\* write() truncates the file.
CheckOpens(s) ==
  /\ Open(<<s, "check">>)
  /\ UNCHANGED <<now, release, flight, client, published>>

\* Faulty variant: a failed write leaves the promise.
RememberedWell(s) ==
  /\ \/ Fill(<<s, "check">>) /\ Settle(s, flight[s].found)
     \/ Fail(<<s, "check">>) /\ UNCHANGED <<flight, client>>
  /\ UNCHANGED <<now, release, published>>

\* write() is over, well or not, and with it the check.
Remembered(s) ==
  /\ Fill(<<s, "check">>) \/ Fail(<<s, "check">>)
  /\ Settle(s, flight[s].found)
  /\ UNCHANGED <<now, release, published>>

\* A page stores its query, beside the checks.
PageWrites(s) ==
  LET w == <<s, "page">>
  IN  /\ (\E q \in Query : Begin(w, "query", q)) \/ Open(w) \/ Fill(w) \/ Fail(w)
      /\ UNCHANGED <<now, release, flight, client, published>>

\* Server s ends and is started again; who waits for it gets no answer.
CrashServer(s) ==
  /\ flight' = [flight EXCEPT ![s] = NoFlight]
  /\ client' = [c \in Client |->
       IF client[c].state = "waiting" /\ client[c].server = s
       THEN [client[c] EXCEPT !.state = "lost", !.server = Nobody] ELSE client[c]]
  /\ \/ Crash(s)
     \/ (\A c \in Call : step[<<s, c>>] = "idle") /\ UNCHANGED vars
  /\ UNCHANGED <<now, release, published>>

Tick ==
  /\ now < MaxTime
  /\ now' = now + 1
  /\ published' = [published EXCEPT ![now + 1] = release]
  /\ UNCHANGED <<vars, release, flight, client>>

Publish ==
  /\ release < MaxRelease
  /\ release' = release + 1
  /\ UNCHANGED <<vars, now, flight, client, published>>

Check(s) ==
  \/ ReadCache(s) \/ RequestFails(s) \/ Redirect(s) \/ Hang(s) \/ Respond(s)
  \/ Receive(s) \/ CheckOpens(s) \/ Remembered(s)

UpdateNext ==
  \/ \E c \in Client, s \in Server, force \in BOOLEAN : Ask(c, s, force)
  \/ \E s \in Server : Check(s) \/ CrashServer(s)
  \/ \E s \in PageServer : PageWrites(s)
  \/ Tick \/ Publish

UpdateSpec == UpdateInit /\ [][UpdateNext]_updateVars

\* A server goes on with the check it has begun, unless the request hangs.
UpdateFairSpec == UpdateSpec /\ \A s \in Server : WF_updateVars(Check(s))

-----------------------------------------------------------------------------
\* The update in the file is a real one, and it was the latest one at the time
\* it is dated or later, whatever crashed, failed or was written over: what is
\* taken from it is never older than its date says.
RememberedIsHonest ==
  LET update == file["update"]
  IN  update # NoValue =>
        /\ update.version \in 1..release
        /\ published[update.checked] <= update.version

\* Who begins a check is told of every release there was when the check was
\* forced, and of every one an interval older when it was not, or "unknown".
\* (Who joins another one's check may be told less, even if it forces it.)
NotOlderThanAsked ==
  \A c \in Client :
    client[c].state = "answered" /\ client[c].answer # 0 => client[c].answer >= client[c].due

\* Again and again nobody waits for a check of server s: every request is
\* answered, unless the request for the latest release never ends.
ChecksEnd ==
  \A s \in Server :
    []<>(flight[s].step = "hung" \/ \A c \in Client : client[c].server # s)
=============================================================================
