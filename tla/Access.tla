-------------------------------- MODULE Access --------------------------------
(***************************************************************************)
(* Who gets what from the server: the handlers of the HTTP and websocket   *)
(* requests in the order in which src/node/routes/index.ts registers them, *)
(* with the decisions of src/node/http.ts and the passwords of             *)
(* src/node/util.ts.                                                       *)
(*                                                                         *)
(* A host is [name, port]: the labels of its name, and its port, "" for    *)
(* the default one.  A request is [method, place, login, target, root,     *)
(* html, limited, encrypted, forwarded, xForwardedHost, host, origin,      *)
(* cookie]: place is the route that its path belongs to, login says that   *)
(* /login is in the path somewhere, target and root which port a path of   *)
(* the proxy names and whether nothing follows it, html that text/html is  *)
(* accepted, limited that its client has used up the                       *)
(* unauthenticated requests of this minute, cookie is the session cookie,  *)
(* the first one if there are several: the parser keeps that.              *)
(* /vscode/... is the same place as /...                                   *)
(***************************************************************************)
EXTENDS CommandLine

CONSTANTS
  NoHost,   \* a header that is missing, or no host in it
  Numeral,  \* labels that consist of digits
  OriginOf, \* the host that an entry of --trusted-origins names, "*" first if it has it
  HashOf    \* what a hashed password is: [method, of, salt]

Pass == "next"

\* The first handler that does not call next().
FirstOf(answers) == answers[Min({i \in DOMAIN answers : answers[i] # Pass})]

----------------------------------------------------------------------------
(* Passwords and cookies.                                                  *)

\* A fresh argon2 hash differs from any other of the same password.
Argon2(password) == [method |-> "argon2", of |-> password, salt |-> "fresh"]
NoHash == [method |-> "none", of |-> NoWord, salt |-> "none"]

IsHashMatch(password, hash) ==
  password # "" /\ hash.method = "argon2" /\ hash.of = password

PasswordMethod(args) ==
  IF ~Has(args, "hashed-password") THEN "PLAIN_TEXT"
  ELSE IF HashOf[args["hashed-password"]].method = "argon2" THEN "ARGON2" ELSE "SHA256"

\* Whether the password is right, and the cookie that says so.
HandlePasswordValidation(args, password) ==
  LET hashed == HashOf[args["hashed-password"]]
  IN  CASE PasswordMethod(args) = "PLAIN_TEXT" ->
             [valid |-> Value(args, "password", NoWord) = password, cookie |-> Argon2(password)]
        [] PasswordMethod(args) = "SHA256" -> [valid |-> hashed.of = password, cookie |-> hashed]
        [] PasswordMethod(args) = "ARGON2" ->
             [valid |-> IsHashMatch(password, hashed), cookie |-> hashed]

IsCookieValid(args, cookie) ==
  IF PasswordMethod(args) = "PLAIN_TEXT"
    THEN IsHashMatch(Value(args, "password", ""), cookie)
    ELSE cookie # NoHash /\ cookie = HashOf[args["hashed-password"]]

Authenticated(args, r) == args["auth"] = "none" \/ IsCookieValid(args, r.cookie)

\* Faulty variant: any proxy domain will do as the domain of the cookie.
CookieDomainOfProxy(name, proxyDomains) ==
  LET Higher(host, domain) == IF Len(domain) < Len(host) THEN domain ELSE host
  IN  FoldLeft(Higher, name, proxyDomains)

\* The domain of the session cookie that a page of this host sets; <<>> when
\* it gets no Domain attribute: addresses, localhost and single labels.
CookieDomain(name, proxyDomains) ==
  LET Higher(host, domain) ==
        IF IsSuffix(domain, host) /\ Len(domain) < Len(host) THEN domain ELSE host
  IN  IF \/ Len(name) < 2
         \/ ToSet(name) \subseteq Numeral
         \/ Last(name) = "localhost"
        THEN <<>>
        ELSE FoldLeft(Higher, name, proxyDomains)

----------------------------------------------------------------------------
(* Hosts and origins.                                                      *)

\* Forwarded before X-Forwarded-Host before Host.
GetHost(r) ==
  IF r.forwarded # NoHost THEN r.forwarded
  ELSE IF r.xForwardedHost # NoHost THEN r.xForwardedHost ELSE r.host

IsTrustedOrigin(origin, trusted) ==
  \E i \in DOMAIN trusted :
    LET entry == OriginOf[trusted[i]]
    IN  \/ entry.name = <<"*">>
        \/ entry = origin
        \/ /\ Head(entry.name) = "*" /\ entry.port = origin.port
           /\ IsSuffix(Tail(entry.name), origin.name)

\* Faulty variant: the host that the connection itself names is compared.
SameOriginDirect(args, r) ==
  \/ r.origin = NoHost
  \/ IsTrustedOrigin(r.origin, Value(args, "trusted-origins", <<>>))
  \/ r.host = r.origin

SameOrigin(args, r) ==
  \/ r.origin = NoHost
  \/ IsTrustedOrigin(r.origin, Value(args, "trusted-origins", <<>>))
  \/ GetHost(r) = r.origin

\* A proxy domain is [labels], and names no port itself: {{port}} stands for a
\* number, a last {{host}} for all that follows, a port included.  It is compared
\* with the whole Host header.
Matches(pattern, host) ==
  LET open == Last(pattern) = HostPlace
      fixed == IF open THEN Front(pattern) ELSE pattern
  IN  /\ open \/ host.port = ""
      /\ IF open THEN Len(host.name) > Len(fixed) ELSE Len(host.name) = Len(fixed)
      /\ \A i \in DOMAIN fixed :
           \/ host.name[i] = fixed[i]
           \/ fixed[i] = PortPlace /\ host.name[i] \in Numeral

MaybeProxy(args, r) ==
  /\ GetHost(r) # NoHost
  /\ \E i \in DOMAIN args["proxy-domain"] : Matches(args["proxy-domain"][i], GetHost(r))

ProxyEnabled(args) == ~Has(args, "disable-proxy")

----------------------------------------------------------------------------
(* Requests over HTTP.                                                     *)

\* A server with a certificate also takes plain connections.
TlsAnswer(args, r) == IF Has(args, "cert") /\ ~r.encrypted THEN "https" ELSE Pass

PublicAnswer(r) ==
  IF r.method = "GET" /\ r.place \in {"security.txt", "robots.txt"} THEN "file" ELSE Pass

\* Faulty variant: every preflight passes.
PreflightAll(args, r) == r.method = "OPTIONS"

Preflight(args, r) == r.method = "OPTIONS" /\ Has(args, "skip-auth-preflight")

\* An exempt preflight is passed on, not proxied, and so is a page with /login in
\* its path.
DomainProxyAnswer(args, r) ==
  IF ~MaybeProxy(args, r) THEN Pass
  ELSE IF ~ProxyEnabled(args) THEN "403"
  ELSE IF Preflight(args, r) THEN Pass
  ELSE IF Authenticated(args, r) THEN "proxied"
  ELSE IF r.place = "static" /\ r.method = "GET" THEN Pass
  ELSE IF ~r.html THEN "401"
  ELSE IF r.login THEN Pass ELSE "login"

PathProxyAnswer(args, r) ==
  IF r.place \notin {"proxy", "absproxy"} THEN Pass
  ELSE IF ~ProxyEnabled(args) THEN "403"
  ELSE IF ~Preflight(args, r) /\ ~Authenticated(args, r)
    THEN IF r.root THEN "login" ELSE "401"
  ELSE IF IntOf[r.target] = NotANumber THEN "400" ELSE "proxied"

StaticAnswer(r) == IF r.place = "static" THEN "file" ELSE Pass

HealthAnswer(r) == IF r.place = "healthz" /\ r.method = "GET" THEN "health" ELSE Pass

\* The routes of login.ts and logout.ts; without a password they lead home.
LoginAnswer(args, r) ==
  IF r.place \notin {"login", "logout"} THEN Pass
  ELSE IF args["auth"] = "none" THEN "home"
  ELSE IF r.place = "logout" THEN IF r.method = "GET" THEN "logged out" ELSE Pass
  ELSE IF Authenticated(args, r) THEN "home"
  ELSE IF r.method = "GET" THEN "login page"
  ELSE IF r.method = "POST" THEN "attempt" ELSE Pass

UpdateAnswer(args, r) ==
  IF r.place # "update" \/ r.method # "GET" THEN Pass
  ELSE IF Authenticated(args, r) THEN "update" ELSE "401"

\* The handlers of vscode.ts for the pages; what an authenticated page load
\* does with the last opened folder is in LastOpened.
PageAnswer(args, r) ==
  IF r.place = "editor" THEN "404"
  ELSE IF r.place \notin {"root", "agents"} \/ Authenticated(args, r) THEN Pass
  ELSE IF r.limited THEN "429"
  ELSE IF r.method = "GET" THEN "login" ELSE "401"

\* Neither of these asks who wants it.
ManifestAnswer(r) ==
  IF r.place = "manifest.json" /\ r.method = "GET" THEN "manifest" ELSE Pass

MintKeyAnswer(r) == IF r.place = "mint-key" /\ r.method = "POST" THEN "key" ELSE Pass

CodeAnswer(args, r) == IF Authenticated(args, r) THEN "code" ELSE "401"

\* The chain that register() builds.
Answer(args, r) ==
  FirstOf(<<TlsAnswer(args, r), PublicAnswer(r), DomainProxyAnswer(args, r),
            PathProxyAnswer(args, r), StaticAnswer(r), HealthAnswer(r),
            LoginAnswer(args, r), UpdateAnswer(args, r), PageAnswer(args, r),
            ManifestAnswer(r), MintKeyAnswer(r), CodeAnswer(args, r)>>)

----------------------------------------------------------------------------
(* Websockets.                                                             *)

\* ensureOrigin, then ensureAuthenticated.
Admitted(args, r, answer) ==
  IF ~SameOrigin(args, r) THEN "403"
  ELSE IF ~Authenticated(args, r) THEN "401" ELSE answer

DomainSocketAnswer(args, r) ==
  IF ~MaybeProxy(args, r) THEN Pass
  ELSE IF ~ProxyEnabled(args) THEN "403" ELSE Admitted(args, r, "proxied")

PathSocketAnswer(args, r) ==
  IF r.place \notin {"proxy", "absproxy"} THEN Pass
  ELSE IF ~ProxyEnabled(args) THEN "403"
  ELSE Admitted(args, r, IF IntOf[r.target] = NotANumber THEN "400" ELSE "proxied")

HealthSocketAnswer(r) == IF r.place = "healthz" THEN "health" ELSE Pass

SocketAnswer(args, r) ==
  FirstOf(<<DomainSocketAnswer(args, r), PathSocketAnswer(args, r),
            HealthSocketAnswer(r), Admitted(args, r, "code")>>)
=============================================================================
