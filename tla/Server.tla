-------------------------------- MODULE Server --------------------------------
(***************************************************************************)
(* A server over several invocations, and a browser that logs in and out   *)
(* of it: the arguments come from CommandLine, the answers from Access,    *)
(* the attempts to log in and their limit from src/node/routes/login.ts.   *)
(*                                                                         *)
(* A login waits for the hash of its password, so attempts overlap.  The   *)
(* limiter library is external: a bucket of tokens that drip back in, of   *)
(* which an interval gives out no more than the bucket holds.              *)
(***************************************************************************)
EXTENDS Access

CONSTANTS
  Invocation,    \* what a process is started with: [argv, file, env, world]
  NoInvocation,
  Host,          \* the addresses at which the browser reaches the server
  Origin,        \* the hosts of the pages in that browser
  Password,      \* what it may type
  Slot,          \* the attempts that may be under way
  NoAttempt,
  MinuteTokens,  \* the size of the bucket of a minute: 2
  HourTokens     \* and of an hour: 12

ASSUME TokensAssumption == MinuteTokens \in Nat /\ HourTokens \in Nat
ASSUME PasswordsAssumption == NoWord \notin Password

IsSequence(s) == s \in Seq(ToSet(s))

\* A host is reached at one port, and no label of it is {{port}}.
ASSUME HostsAssumption ==
  /\ NoHost \notin Host \cup Origin
  /\ \A host \in Host : IsSequence(host.name) /\ PortPlace \notin ToSet(host.name)
  /\ \A host, other \in Host : host.name = other.name => host = other

ASSUME InvocationsAssumption ==
  \A words \in Invocation :
    /\ IsSequence(words.argv)
    /\ words.file.kind \notin {"empty", "scalar"} =>
         /\ IsSequence(words.file.entries)
         /\ \A i \in DOMAIN words.file.entries :
              words.file.entries[i].kind = "list" => IsSequence(words.file.entries[i].value)

\* The proxy domains of an invocation, as they are written.
ProxyWords(words) ==
  Value(Assign(ParseConfigFile(words.file).args, Parse(words.argv, FALSE).args),
        "proxy-domain", <<>>)

\* What is split at its dots has at least one label.
ASSUME DomainsAssumption ==
  \A words \in Invocation : \A i \in DOMAIN ProxyWords(words) :
    LET labels == DomainOf[ProxyWords(words)[i]]
    IN  labels # <<>> /\ IsSequence(labels)

VARIABLES
  phase,     \* "down", "invoked" or "up"
  given,     \* the invocation, until it serves or ends
  args,      \* the arguments of the running server that its answers depend on
  jar,       \* the session cookies of the browser, in the order of their creation
  proved,    \* the passwords that it has given rightly so far
  out,       \* the hosts at which it has logged out and not in again
  attempts,  \* for every slot the attempt that is being validated
  minute,    \* the tokens of minuteLimiter
  hour,      \* the tokens of hourLimiter
  minuteUsed,\* tokensThisInterval: what minuteLimiter has given out in its interval
  hourUsed   \* and hourLimiter in its own

vars ==
  <<phase, given, args, jar, proved, out, attempts, minute, hour, minuteUsed, hourUsed>>
browserVars == <<jar, proved, out>>
minuteVars == <<minute, minuteUsed>>
hourVars == <<hour, hourUsed>>
loginVars == <<attempts, minute, hour, minuteUsed, hourUsed>>

Init ==
  /\ phase = "down"
  /\ given = NoInvocation /\ args = NoArgs
  /\ jar = <<>> /\ proved = {} /\ out = {}
  /\ attempts = [s \in Slot |-> NoAttempt]
  /\ minute = MinuteTokens /\ hour = HourTokens
  /\ minuteUsed = 0 /\ hourUsed = 0

----------------------------------------------------------------------------
(* Starting and stopping.                                                  *)

EntryOf(words) == Entry(words.argv, words.file, words.env, words.world)

AccessKeys ==
  {"auth", "password", "hashed-password", "cert", "disable-proxy", "proxy-domain",
   "trusted-origins", "skip-auth-preflight"}

\* A new process has a full limiter and no attempt under way.
FreshLogin ==
  /\ attempts' = [s \in Slot |-> NoAttempt]
  /\ minute' = MinuteTokens /\ hour' = HourTokens
  /\ minuteUsed' = 0 /\ hourUsed' = 0

Invoke(words) ==
  /\ phase = "down"
  /\ phase' = "invoked" /\ given' = words
  /\ UNCHANGED <<args, browserVars, loginVars>>

Serve ==
  /\ phase = "invoked" /\ EntryOf(given).does = "serve"
  /\ phase' = "up" /\ given' = NoInvocation
  /\ args' = Restrict(EntryOf(given).args, AccessKeys \cap DOMAIN EntryOf(given).args)
  /\ UNCHANGED <<browserVars, loginVars>>

\* Help, a version, the command line of VS Code, a running instance or an error.
DoOtherwise ==
  /\ phase = "invoked" /\ EntryOf(given).does # "serve"
  /\ phase' = "down" /\ given' = NoInvocation
  /\ UNCHANGED <<args, browserVars, loginVars>>

\* The supervisor starts a new child with the arguments of the old one.
Relaunch ==
  /\ phase = "up"
  /\ FreshLogin
  /\ UNCHANGED <<phase, given, args, browserVars>>

Stop ==
  /\ phase = "up"
  /\ phase' = "down" /\ args' = NoArgs
  /\ FreshLogin
  /\ UNCHANGED <<given, browserVars>>

----------------------------------------------------------------------------
(* The browser (external) and its requests.                                *)

Applies(cookie, host) ==
  IF cookie.wide THEN IsSuffix(cookie.name, host.name) ELSE cookie.name = host.name

\* What it sends: of several cookies with one path, the oldest first.
CookieFor(cookies, host) ==
  LET sent == {i \in DOMAIN cookies : Applies(cookies[i], host)}
  IN  IF sent = {} THEN NoHash ELSE cookies[Min(sent)].value

\* The headers of what is sent directly, and through a reverse proxy that hides
\* the host.
Inner == [name |-> <<"localhost">>, port |-> ""]
Direct(host) == [forwarded |-> NoHost, xForwardedHost |-> NoHost, host |-> host]
Hiding == Direct(Inner)

\* Those that name the host: directly, or in one of two headers of a proxy.
Naming(host) ==
  {Direct(host),
   [forwarded |-> NoHost, xForwardedHost |-> host, host |-> Inner],
   [forwarded |-> host, xForwardedHost |-> NoHost, host |-> Inner]}

Request(method, place, host, headers) ==
  [method |-> method, place |-> place, login |-> place = "login", target |-> "8080",
   root |-> FALSE, html |-> TRUE, limited |-> FALSE, encrypted |-> TRUE, origin |-> NoHost,
   forwarded |-> headers.forwarded, xForwardedHost |-> headers.xForwardedHost,
   host |-> headers.host, cookie |-> CookieFor(jar, host)]

----------------------------------------------------------------------------
(* Logging in and out.                                                     *)

\* getTokensRemaining() looks into the buckets only.
CanTry == minute >= 1 \/ hour >= 1

\* tryRemoveTokens(1) also asks what was given out in this interval.
MinuteGives == minute >= 1 /\ minuteUsed < MinuteTokens
HourGives == hour >= 1 /\ hourUsed < HourTokens

TakeOfMinute ==
  /\ MinuteGives
  /\ minute' = minute - 1 /\ minuteUsed' = minuteUsed + 1
  /\ UNCHANGED hourVars

\* Faulty variant: the bucket of the hour is only looked at.
RemoveTokenOfMinute ==
  \/ TakeOfMinute
  \/ ~MinuteGives /\ UNCHANGED <<minuteVars, hourVars>>

\* Where the minute gives none, the hour does, if it can.
RemoveToken ==
  \/ TakeOfMinute
  \/ /\ ~MinuteGives /\ HourGives
     /\ hour' = hour - 1 /\ hourUsed' = hourUsed + 1
     /\ UNCHANGED minuteVars
  \/ ~MinuteGives /\ ~HourGives /\ UNCHANGED <<minuteVars, hourVars>>

Domain(host) == CookieDomain(host.name, args["proxy-domain"])

Cookie(host, value) ==
  IF Domain(host) = <<>> THEN [name |-> host.name, wide |-> FALSE, value |-> value]
  ELSE [name |-> Domain(host), wide |-> TRUE, value |-> value]

SameCookie(c, d) == c.name = d.name /\ c.wide = d.wide

\* The browser refuses a cookie whose domain the host does not belong to; one
\* that is set again keeps its place in the jar.
Stored(host, value) ==
  LET new == Cookie(host, value)
      old == {i \in DOMAIN jar : SameCookie(jar[i], new)}
  IN  IF ~Applies(new, host) THEN jar
      ELSE IF old = {} THEN Append(jar, new)
      ELSE [i \in DOMAIN jar |-> IF i \in old THEN new ELSE jar[i]]

Without(cookies, old) ==
  LET found == {i \in DOMAIN cookies : SameCookie(cookies[i], old)}
  IN  IF found = {} THEN cookies ELSE RemoveAt(cookies, Min(found))

\* Faulty variant: the cookie is cleared without the domain it was set with.
ClearedHost(host) == Without(jar, [name |-> host.name, wide |-> FALSE])

Cleared(host) == Without(jar, Cookie(host, NoHash))

\* The form is posted.  Without a token or a password the page comes again,
\* with an error.
LoginBegins(s, host, password) ==
  /\ phase = "up" /\ attempts[s] = NoAttempt
  /\ Answer(args, Request("POST", "login", host, Hiding)) = "attempt"
  /\ CanTry
  /\ password # ""
  /\ LET others == {t \in Slot : attempts[t] # NoAttempt}
     IN  attempts' = [t \in Slot |->
           IF t = s THEN [host |-> host, password |-> password, crowded |-> others # {}]
           ELSE IF t \in others THEN [attempts[t] EXCEPT !.crowded = TRUE]
           ELSE NoAttempt]
  /\ UNCHANGED <<phase, given, args, browserVars, minuteVars, hourVars>>

\* The password is validated: a right one sets the cookie, a wrong one takes a
\* token, if there is one to take.
LoginEnds(s) ==
  /\ phase = "up" /\ attempts[s] # NoAttempt
  /\ attempts' = [attempts EXCEPT ![s] = NoAttempt]
  /\ LET result == HandlePasswordValidation(args, attempts[s].password)
     IN  \/ /\ result.valid
            /\ jar' = Stored(attempts[s].host, result.cookie)
            /\ proved' = proved \cup {attempts[s].password}
            /\ out' = out \ {attempts[s].host}
            /\ UNCHANGED <<minuteVars, hourVars>>
         \/ /\ ~result.valid
            /\ RemoveToken
            /\ UNCHANGED browserVars
  /\ UNCHANGED <<phase, given, args>>

Logout(host) ==
  /\ phase = "up"
  /\ Answer(args, Request("GET", "logout", host, Hiding)) = "logged out"
  /\ jar' = Cleared(host)
  /\ out' = out \cup {host}
  /\ UNCHANGED <<phase, given, args, proved, loginVars>>

MinuteDrips ==
  /\ phase = "up" /\ minute < MinuteTokens
  /\ minute' = minute + 1
  /\ UNCHANGED <<phase, given, args, browserVars, attempts, minuteUsed, hourVars>>

HourDrips ==
  /\ phase = "up" /\ hour < HourTokens
  /\ hour' = hour + 1
  /\ UNCHANGED <<phase, given, args, browserVars, attempts, minuteVars, hourUsed>>

\* An interval is over, which begins with the first token that is taken after the
\* one before: its time says nothing about the bucket.
MinuteEnds ==
  /\ phase = "up" /\ minuteUsed > 0
  /\ minuteUsed' = 0
  /\ UNCHANGED <<phase, given, args, browserVars, attempts, minute, hourVars>>

HourEnds ==
  /\ phase = "up" /\ hourUsed > 0
  /\ hourUsed' = 0
  /\ UNCHANGED <<phase, given, args, browserVars, attempts, minuteVars, hour>>

Next ==
  \/ \E words \in Invocation : Invoke(words)
  \/ Serve \/ DoOtherwise \/ Relaunch \/ Stop
  \/ \E s \in Slot, host \in Host, password \in Password : LoginBegins(s, host, password)
  \/ \E s \in Slot : LoginEnds(s)
  \/ \E host \in Host : Logout(host)
  \/ MinuteDrips \/ HourDrips \/ MinuteEnds \/ HourEnds

Spec == Init /\ [][Next]_vars

----------------------------------------------------------------------------
(* Properties.                                                             *)

Attempt == [host : Host, password : Password, crowded : BOOLEAN]

TypeOK ==
  /\ phase \in {"down", "invoked", "up"}
  /\ attempts \in [Slot -> {NoAttempt} \cup Attempt]
  /\ minute \in 0 .. MinuteTokens /\ hour \in 0 .. HourTokens
  /\ minuteUsed \in 0 .. MinuteTokens /\ hourUsed \in 0 .. HourTokens

\* The host and the port come, whatever is combined, from the first of: the
\* option of the command line, the environment, --bind-addr, the option of
\* the configuration, its bind-addr, the default.  (The code has two rounds
\* of overwriting instead, and applies the environment in both.)
AddressPrecedence ==
  phase = "invoked" /\ EntryOf(given).does = "serve" =>
    LET cli == Parse(given.argv, FALSE).args
        config == ParseConfigFile(given.file).args
        env == given.env
        bound(from) == AddressOf[from["bind-addr"]]
        boundPort(from) == IF bound(from).port = NoWord THEN 80 ELSE bound(from).port
        host == IF Has(cli, "host") THEN cli["host"]
                ELSE IF Has(env, "CODE_SERVER_HOST") THEN env["CODE_SERVER_HOST"]
                ELSE IF Has(cli, "bind-addr") THEN bound(cli).host
                ELSE IF Has(config, "host") THEN config["host"]
                ELSE IF Has(config, "bind-addr") THEN bound(config).host ELSE "localhost"
        port == IF Has(cli, "port") THEN cli["port"]
                ELSE IF Has(env, "PORT") THEN IntOf[env["PORT"]]
                ELSE IF Has(cli, "bind-addr") THEN boundPort(cli)
                ELSE IF Has(config, "port") THEN config["port"]
                ELSE IF Has(config, "bind-addr") THEN boundPort(config) ELSE 8080
        final == EntryOf(given).args
    IN  final["host"] = host /\ final["port"] = port

Protected == {"proxied", "code", "update"}
ManyRequests(host) ==
  {[Request(m, p, host, headers) EXCEPT !.login = @ \/ l] :
     m \in {"GET", "POST", "OPTIONS"},
     p \in {"root", "static", "login", "proxy", "update", "other"},
     headers \in {Direct(host), Hiding}, l \in BOOLEAN}

\* What is behind the password is given only to a browser that has proved a
\* password which the running server accepts, however it got its cookies; the
\* exception is a preflight to a path of the proxy when that is allowed.
EarnedAccess ==
  phase = "up" /\ args["auth"] # "none"
    /\ (\A p \in proved : ~HandlePasswordValidation(args, p).valid) =>
    \A host \in Host : \A r \in ManyRequests(host) :
      /\ Answer(args, r) \in Protected =>
           /\ r.method = "OPTIONS" /\ r.place = "proxy"
           /\ Has(args, "skip-auth-preflight")
      /\ SocketAnswer(args, r) \notin Protected

\* A websocket that a page of another host opens is refused, unless that
\* host is trusted; one of the same host is not.  A reverse proxy in between
\* does not change that as long as it says the host in one of the headers.
OriginDecides ==
  phase = "up" => \A host \in Host \cup Origin, origin \in Origin : \A headers \in Naming(host) :
    LET r == [Request("GET", "other", host, headers) EXCEPT !.origin = origin]
        foreign == origin # host
                     /\ ~IsTrustedOrigin(origin, Value(args, "trusted-origins", <<>>))
    IN  ProxyEnabled(args) \/ ~MaybeProxy(args, r) =>
          (SocketAnswer(args, r) = "403" <=> foreign)

\* An older cookie of a domain above the host, which is sent first.
Shadowed(host) ==
  \E i \in DOMAIN jar : jar[i].wide /\ jar[i].name # host.name /\ Applies(jar[i], host)

In(host) == Authenticated(args, Request("GET", "root", host, Hiding))

\* Whoever gives the right password is in at that host afterwards: the cookie
\* comes back and is recognised, unless an older one hides it.
LoginLetsIn ==
  [][\A s \in Slot, host \in Host :
       /\ LoginEnds(s) /\ attempts[s].host = host
       /\ HandlePasswordValidation(args, attempts[s].password).valid
       /\ ~Shadowed(host)
       => In(host)']_vars

\* A host at which the browser has logged out keeps it out until it logs in
\* there again, whatever it does at other hosts and whatever server follows,
\* with the same exception.
LogoutLocksOut ==
  phase = "up" /\ args["auth"] = "password" =>
    \A host \in out : In(host) => Shadowed(host)

\* No bucket that has a token gives it out before its interval ends.
AllGivenOut == ~MinuteGives /\ ~HourGives

\* A failed attempt that overlapped no other costs exactly one token, and a right
\* one none.  The exception: an attempt is let in for a token that has dripped into
\* a bucket, but a bucket that has given out its number in this interval gives none.
FailureCosts ==
  [][\A s \in Slot :
       LoginEnds(s) =>
         IF HandlePasswordValidation(args, attempts[s].password).valid
           THEN UNCHANGED <<minuteVars, hourVars>>
           ELSE \/ attempts[s].crowded
                \/ minute' + hour' = minute + hour - 1
                \/ minute + hour >= 1 /\ AllGivenOut]_vars
=============================================================================
