# Verification of vscode-agents-server

This directory holds TLA+ models of the server in this repository (`src/src`, a descendant of code-server that adds an
Agent Host to VS Code), the TLC configurations that model-check them on small instances, and proofs, checked by TLAPS,
of what holds for instances of any size. `PROJECT.json` lists, in machine-readable form, the components, the runs, the
source lines behind every definition (`map`), a faulty variant of the code for every checked property (`mutants`), the
disagreements found between code and documents (`findings`), and what can go wrong in this code where (`hazards`).

    tlc -workers 2 -config MCSupervisor.cfg MCSupervisor     # one run
    tlapm SupervisorProofs.tla                               # one proof module

## 1. The system

A user starts one process, the *parent*. It forks the server as its *child*, and replaces the child on SIGUSR1 or
SIGUSR2. The child is an Express application: it authenticates requests, proxies to ports, and loads VS Code on the
first request that needs it. VS Code forks *extension hosts*, which register themselves with the server as *editor
sessions*, and (with the patches of this repository) one *Agent Host*, which listens on a Unix socket in the user data
directory. Everything runs on event loops: what interleaves is what stands between two `await`s, callbacks, timers,
signals and messages between processes. What is shared between processes are sockets, files, and the address the
server listens on.

| Component | Sources | State it keeps | Operations | Interacts with |
|---|---|---|---|---|
| Process supervisor | `node/wrapper.ts`, `node/entry.ts` | child, started promise, listeners and timers per child | start, relaunch, handshake, exit, dispose, watch on the parent | parent and child over IPC, signals and exit codes |
| Heartbeat and idle shutdown | `node/heart.ts`, `routes/index.ts`, `main.ts`, `cli.ts`, `common/emitter.ts` | state, last heartbeat, heartbeat timer, idle timer | beat, the timer, isActive, state changes, dispose | every request beats; the idle timer ends the process |
| Settings file | `node/settings.ts` | the file `coder.json` | read, write (merge) | update check and root route write it; two server generations may overlap |
| Last opened folder or workspace | `routes/vscode.ts` (`/`), `routes/login.ts`, `http.ts` | none but the query in the settings | check targets, restore, redirect, store | settings, login, file system |
| Editor session registry | `node/vscodeSocket.ts`, `patches/store-socket.diff` | the map of sessions | add, delete, getConnectedSocketPath | extension hosts and command lines over a socket |
| VS Code loader and agent host | `routes/vscode.ts`, `patches/agents-web.diff` | server promise, catalogue, owned socket, manager, restarts | ensureVSCodeLoaded, probe, unlink, start, bootstrap, restart, dispose | other servers with the same user data directory, over the socket path |
| Update provider | `node/update.ts`, `routes/update.ts` | the check in flight, the remembered result | getUpdate, redirects, read and write of the settings | settings file, a server of releases |
| Command line and configuration | `node/cli.ts`, `entry.ts`, `main.ts`, `util.ts` | the files it creates | parse, merge, set defaults, find an existing instance | every component gets its arguments |
| Agents bootstrap | `node/agents.ts` | none | read the catalogue, take its keys out of the environment | command line, loader |
| Route registration and errors | `routes/index.ts`, `errors.ts`, `logout.ts`, `health.ts`, `update.ts` | none | the chain of handlers | all routes |
| Login and rate limiter | `routes/login.ts`, `logout.ts`, `http.ts`, `util.ts` | two token buckets; cookies in the browser | canTry, removeToken, log in, log out | all routes ask whether a request is authenticated |
| Proxy | `routes/domainProxy.ts`, `pathProxy.ts`, `node/proxy.ts` | none | decide, authenticate, forward | ports on the machine |
| Websocket router | `node/wsRouter.ts` | a flag per request | pass an upgrade through the chain | Express |
| HTTP application and disposer | `node/app.ts`, `node/http.ts` | open sockets | listen, dispose with a timeout | supervisor, session socket |
| TLS socket proxy | `node/socket.ts` | cached server promise, sockets that wait | createProxy, startProxyServer, findFreeSocketPath, stop | processes share the paths |
| Patches of VS Code | `patches/*.diff` | inside VS Code | -- | only the fragments in the diffs are here |
| Browser pages, translations | `browser/`, `node/i18n` | none | -- | -- |

What is hard in it, and what makes each part correct:

* **Supervisor.** Signals, exits, messages and timers of several children arrive in any order, and each process may
  vanish. Correct: nothing that a replaced child does ends its successor, and none keeps running; no handshake or
  disposal stays open.
* **Heartbeat.** Two timers and an asynchronous count of connections restart one another while requests, health
  checks, errors and steps of the wall clock come in between. Correct: somebody always looks again, a used server stays
  and an unused one goes.
* **Settings.** read-merge-truncate-fill is not atomic, within a process and between generations. Correct: a write
  changes its own setting only; the file can be parsed.
* **Root route.** Several looks at the file system and a redirect, each seeing a different world. Correct: no circle of
  redirects; what is asked for is served; what is to be ignored is ignored.
* **Registry.** Look-ups await connections while hosts come, go and crash. Correct: the best live session is found, and
  only dead ones are deleted.
* **Update provider.** One promise is shared by all callers, and the answer is older than what is published when it
  arrives. Correct: whoever begins a check is told what he asked for; what is remembered is true to its date.
* **Command line.** Arguments come from the command line, the environment and a file, in rounds that overwrite one
  another. Correct: the address is that of the source with the highest precedence.
* **Access.** A dozen handlers decide one after the other who may pass. Correct: nothing protected is given to someone
  who has not given a password that the server accepts; a login works where it was made, a logout too; websockets of
  other origins are refused; attempts cost tokens.
* **Shared files and sockets.** Servers that start, are relaunched and killed beside each other create files in two
  steps, take paths over and remove them. Correct: what does not overlap does no harm.
* **Loader and agent host.** A promise shared by requests, a load that can fail at five awaits, a socket path shared by
  processes, a child that is restarted with a limit. Correct: one load, one host, and a host that can be reached.

## 2. The modules

| Module | Models | State variables and the code |
|---|---|---|
| `Succession` | what a supervisor promises: generations, the newest in charge, stopping is final, the others leave | abstract |
| `Supervisor` | `wrapper.ts` with `entry.ts` | `watch`, `timer`: listeners and the handshake timers; `proc`, `term`, `pipe`: the life of a child, its pending SIGTERM, the message in flight; `current`: `this.child`; `started`: the stored promise |
| `Heart` | `heart.ts`, its uses in `routes/index.ts` and `main.ts` | discrete time: `idle`, `compared`: the idle timeout and whether it is the number that the command line compared with its minimum; `age` is `now - lastHeartbeat`, `beatTimer`, `probe`, `idleTimer` are what timers have left; `quiet`, `clockSet` are history |
| `Settings` | `SettingsProvider` | `file`, `torn`: what is on disk; `step`, `key`, `next`: each `write()` in progress; `latest`, `harmed`, `misread` are history |
| `UpdateCheck` | `update.ts`, `routes/update.ts`, extends `Settings` | `flight`: the promise `update` of each server and where `_getUpdate` is; `client`: requests; `now`, `release`: the clock and what is published; `published` is history |
| `CommandLine` | `cli.ts`, `agents.ts`, the decisions of `entry.ts` and `main.ts` | no state: functions from words to arguments |
| `Access` | the handlers of `routes/*.ts` in their order, the decisions of `http.ts`, the passwords of `util.ts` | no state: `Answer` and `SocketAnswer` of a request; extends `CommandLine` |
| `Server` | `login.ts`, `logout.ts`, a browser; extends `Access` | `args`: the arguments of the running server; `jar`: the browser's cookies; `attempts`: the handlers of `/login` under way; `minute`, `hour`: the buckets of the limiter; `minuteUsed`, `hourUsed`: what it has given out in the interval; `proved`, `out` are history |
| `SocketProxy` | `socket.ts` | `server`, `pipe`: `_proxyServer` and `proxyPipe`; `bound`: the files at the paths; `at`: where `createProxy` is with a socket; `contested` is history |
| `Instances` | `app.ts`, `readConfigFile`, the disposer of `http.ts`, `mint-key`; extends `SocketProxy` | `phase`: how far a process is; `listening`, `session`, `serving`: the port and the session socket; `config`, `key`: files; `minting`, `minted`: `mintKeyPromise`; `disturbed` is history |
| `LastOpened` | the handler of `/` | `at`: at which await a request is; `url`: its query; `found`, `last`: locals; `asked`, `missed`, `hops` are history |
| `Sessions` | `EditorSessionManager`, `store-socket.diff` | `entries`, `stamp`: the map in insertion order; `adding`, `deleting`: requests under way; `lookup`, `candidates`: calls of `getConnectedSocketPath` |
| `AgentHost` | the loader of `routes/vscode.ts`, the starter and manager of `agents-web.diff` | `loads`, `promise`, `waiters`: calls of `loadVSCode`, `vscodeServerPromise`, who awaits it; `catalogue`, `passed`, `catalogued`: the model catalogue on its way; `owned`: `ownedAgentHostSocketPath`; `manager`, `restarts`, `host`; `bound`: the file at the path; `failures`, `contested` are history |
| `MC...` | instances for TLC | constants and symmetry only |
| `...Proofs` | theorems and their proofs | extend the module they are about |

Each action is a handler, or the piece of one between two awaits. A comment "Faulty variant" marks an operator that is
not part of a model: it is what the definition below it would be with a plausible bug, and the property named in
`PROJECT.json` fails with it.

How the modules meet: `Supervisor` implements `Succession` (`Promise` in `Supervisor.tla` is the refinement mapping).
`UpdateCheck` extends `Settings` with the two callers that write to the file and implements it (`ChecksUseSettings`).
`LastOpened` assumes no more of the settings than `Settings` shows (`Disturb`, and `ReadLast` may find nothing).
`CommandLine` gives `Access` its arguments, and `Server` puts both under a browser and a sequence of invocations. `Heart`
ends a process, which is `IdleExit` of `Supervisor`; the server that replaces another one while that still runs is the
second `Server` of `UpdateCheck` and the second `Process` of `AgentHost` and of `Instances`, and its start is `Relaunch`
there.

### What is abstracted, module by module

* **Supervisor.** The timers are steps that may be taken while they are pending: no order of their durations is used.
  Left out: log streams, and `relaunch` messages of a child, which no code sends (nothing calls
  `ChildProcess.relaunch`) and no code would receive (`_onChildMessage` is never emitted). An error thrown by a
  callback is logged and the process goes on (`wrapper.ts:392`), so it is no exit.
* **Heart.** A tick is a third of the heartbeat interval. Health checks do not beat, but the connections of a health
  checker count as activity, as they do in `getConnections`. A count of some connections is delivered at once, a count
  of none may be late. The idle timeout is a number that the command line compared with its minimum, or one that passed
  without (`Accepted`). The file that the heartbeat touches is left out.
* **Settings.** Documents are functions from settings to values. A document written over a longer one leaves the end of
  the longer one, which cannot be parsed (`torn`); where the lengths allow it a clean document is possible as well.
  Whatever keeps the file from being read makes `read()` find nothing (`Read`, `misread`).
* **UpdateCheck.** Releases are numbers and the clock has instants. What `latestUrl` answers is the release at that
  moment; redirects are counted. The comparison of versions is left out.
* **CommandLine.** A word is a value; `Number`, `parseInt`, `path.resolve`, the URL parser and `${...}` are constant
  functions on words, and a `bind-addr` that is no URL is left out. The options are those of `cli.ts` with their types.
  Help texts, the order of log messages and the request that opens a file in an existing instance are left out.
* **Access.** One session cookie with one name and path; hosts are sequences of labels, so suffixes are suffixes of
  labels, and of a proxy domain with `{{port}}` only those where it is a whole label, and `{{host}}` only as the last
  one, where it stands for anything, a port included; without it a domain matches only a `Host` header without a port.
  `/vscode/...` is the same place as `/...`. A static file is always there. The header rewriting of `proxy.ts`,
  redirects and pages are left out.
* **Server.** The limiter library is two buckets into which tokens drip, each with a cap on what it gives
  out in an interval; how long a drip and an interval take is left out. The browser
  keeps cookies by name and domain and sends the older one first. A new process has a full limiter.
* **SocketProxy, Instances.** A step is a turn of the event loop. Ids of connections are abstracted: only the process
  that made an id can recognise it. The 5 s of a socket and the second of the disposer are steps that may come at any
  time. A supervisor and its child are one process, except that `Relaunch` starts the new child beside the old one.
  The path of `config.yaml` is the same for all, as are the user data and the runtime directory. `--socket`, the mode
  of sockets and the certificate are left out, and so is a websocket that arrives on an open connection after `stop()`.
* **LastOpened.** Targets are abstract paths; a path is a directory or a workspace file for good, and exists or not. A
  tab follows its redirects. A visit also ends with the 429 of the limiter of unauthenticated requests and with the
  error of a load that failed (`Ends`). One more tab is an environment that stores queries and logs in and out, which
  `Disturb` and `ChangeSession` do already.
* **Sessions.** A socket path is used by one host only (it has a random part). A socket that a host listens on accepts
  connections: a full backlog is not modelled, and would delete a live session for good.
* **AgentHost.** Linux only (elsewhere there is no socket to prepare). `createServer` fails, if at all, before the
  manager exists. A host dies with its server (its IPC channel closes); what stays is the file at the path. A host
  that finds the path taken goes on without being reachable ("deaf"). `End` is the end of a server, graceful or not, and
  the variables of the process stand for the next one from there on. Between `dispose()` and the end of the process a
  load that is under way continues. The lengths of the delays between restarts are left out. The call that hands a
  new child its catalogue (`initialize`) may stay open forever.

## 3. The runs

`CHECK_DEADLOCK FALSE` everywhere: a stopped server, or one nobody asks for anything, really stops.

| Run | Instance | What it shows |
|---|---|---|
| `supervisor` | 3 forks: a server, its replacement and the replacement of that; children may hang | no listener of a replaced child can end the parent; no stray child; a late exit of a replaced child changes nothing; handshakes and disposals end |
| `supervisor_promise` | 2 forks, children that do not hang | the processes implement `Succession`, fairness included |
| `supervisor_stale_timer` | 2 forks | *violated*: the timer of the handshake that a relaunch interrupted ends the parent although the new child is well |
| `heart` | interval 3, isActive up to 2 ticks, idle timeouts 1 to 6, compared with the minimum or not | calls of isActive do not overlap; "alive" is watched; where the timeout was compared no idle exit under an open connection; the heart keeps beating; an idle server ends |
| `heart_quiet` | the same | *violated*: a server ends before it was quiet for the timeout |
| `settings_combine` | 1 process, 2 overlapping writes | *violated*: the later write puts back the old value of the other's setting |
| `last_opened` | a tab, a folder, a workspace, the workspace on the command line, both values of `--ignore-last-opened`; everything else changes at any time | at most three redirects; what is asked for and there is served, and nothing else; every visit ends, with VS Code, the login page, a 429 or the error of a failed load |
| `sessions` | 2 hosts, 2 overlapping look-ups | the best live session is the answer; live ones stay registered; look-ups end |
| `agent_host` | 2 servers on one path, 3 requests, 1 restart, 2 calls of `loadVSCode` per server at the same time (never used: that is `OneLoadAtATime`) | one load and one host per server; no request waits for a settled load; each host has the catalogue; an uncontested host is reachable; the manager gives up exactly in time; waits end; hosts are replaced, unless a child never answers the call that hands it the catalogue |
| `updates` | 2 servers that replace one another, 2 requests, a page that stores queries, 2 instants, 2 releases, a redirect | writes that do not overlap and could read the file merge, and only overlaps and cuts make the file unreadable, in the composition; what is remembered is true to its date; who begins a check learns what he asked for; checks end |
| `server` | 15 command lines x 5 configurations x 4 environments; beside them a hashed password with `{{host}}` as proxy domain, a disabled proxy, no authentication, other states of the machine; 2 hosts, 3 origins, one with a port, 2 passwords and a blank one, 2 attempts at a time, a token per bucket | the address comes from the source with the highest precedence; nothing protected is given away; the origin decides about websockets; a login lets in, a logout locks out; failures cost tokens while the limiter gives any |
| `instances` | 2 processes on one port or on two, 3 starts, 2 websockets or requests for the key | files that nobody disturbed and that could be read are whole and agree; the session socket is that of the server with the port; an uncontested pipe stays; no websocket waits forever |

Why these bounds are enough for what they are meant to show: three forks are the smallest number with a child that is
replaced before, during and after the handshake of its successor; idle timeouts of one and two thirds, one, and up to
two intervals include those the command line must refuse, the first one it accepts, and longer ones, and each of them
may come without the comparison; two writers are enough for any pair of overlapping steps, and the second settles
whether the first is undone; in `server` every option that decides about the address or about access is set by some
command line, file or environment and unset by another, one of the two hosts is under a proxy domain and the other is
that domain, and one origin has a port, which only `{{host}}` matches; a bucket of one token is empty after one failure,
and has given out all it may in its interval; in `instances` three starts make a restart beside a second server, and two
uses a websocket in each of two servers, two keys, or one of both; in `last_opened` a folder and a workspace can each be
asked for, remembered, missing, and be the path of the command line (in the cfg it is the workspace, as a directory
would go through the same branches); two hosts are the smallest number with a best one; two servers make the race for
the path, two requests to one server make a join, one restart makes "before" and "after" the limit. The type invariants
of the modules are not in the configurations: they are proved. The proofs of section 5 remove these bounds for the
safety properties.

### The disagreements found

1. `wrapper.ts:285`: `disposeChild` removes the listeners of a handshake and not its timer. A relaunch during a
   handshake is followed, 10 s later, by the exit of the parent, which takes the new, healthy child with it.
2. `heart.ts:57`: an answer of isActive that is older than a request overwrites what the request set, and the idle
   timer it starts is not restarted by later heartbeats. The server may end before it was idle as long as the FAQ says.
3. `settings.ts:35`: overlapping writes lose one another's setting, although the comment promises to combine.

Seen while modelling, and part of the models, but with no run of their own:

* Heartbeat: after the wall clock was set back the state "alive" can be left without a timer (`AliveIsWatched` excludes
  it); after a failed count of connections nothing asks again, so that the idle shutdown does not come (`IdleShutsDown`
  excludes it); the connections of health checkers count as activity although `/healthz` does not beat.
* Settings: `settings.ts:14` speaks of the last known settings, and `read()` returns `{}` when the file cannot be read or
  parsed, whatever the reason. The next write, with nothing beside it, then drops every other setting (`misread`).
* Root route: `docs/FAQ.md:225-231` puts the command line before what was opened last, `routes/vscode.ts:260` after it.
* Agent Host: the probe of its socket and the removal are two steps (`routes/vscode.ts:138`). Two servers started at the
  same time both find nobody, and one then removes the socket of the other's host, although line 135 refuses to go on
  when one listens. A server whose load failed after it took the path over removes it when it is disposed of, even if
  it is another server's by then. `contested` stands for both.
  The manager waits without a timer for the answer to `initialize` (`agents-web.diff:1963`): a child that never gives it
  is neither used nor replaced.
* Command line: the idle timeout is compared with 60 before a value in the next word is taken (`cli.ts:419`), so that
  `--idle-timeout-seconds 30`, unlike `--idle-timeout-seconds=30`, is accepted (`TooShort`). `60.5` and `1e3` are
  compared as what `Number` and used as what `parseInt` reads, and a delay of 2^31 ms or more is one of 1 ms. With such
  a timeout a server with open connections ends between two heartbeats, so that `NoExitWhileConnected` is about those
  that were `compared`. A boolean option ignores its value: `disable-proxy: false` in the configuration disables the
  proxy.
* Cookies: `http.ts:202-204` promises to "authenticate once no matter what sub-domain", but `cli.ts:674-675` puts
  `{{port}}.` in front of every proxy domain, which then is the end of no host, so that `getCookieDomain` ignores it
  (`http.ts:239`) and every cookie is the host's own: lemma `OwnDomain` of `ServerProofs`. Where one host is under
  another, an older cookie of the upper one hides the one that a login at the lower one sets (`Shadowed`): after a
  change of the password the login does not help there.
* Proxy: a preflight that `--skip-auth-preflight` exempts is passed on by `domainProxy.ts` instead of proxied, and ends
  in the 401 of `routes/vscode.ts`, whereas `docs/guide.md:460-463` and `pathProxy.ts` let it through. A proxy domain
  without `{{host}}` does not match a `Host` header with a port, one with it does (`domainProxy.ts:15`). The regular
  expressions of the domains are cached by their number only.
* Login: `login.ts:11` allows 2 logins every minute plus 12 every hour. `canTry` looks at the tokens in the buckets, and
  `tryRemoveTokens` of the library also at what the interval has given out. Where both intervals have given out theirs
  and a token has dripped in, an attempt is let in, and its failure takes no token (`FailureCosts` says so).
* Websockets: `_ws_handled` is set for a handler that calls `next()`, too.
* Disposal: a session socket that could not be created is a warning at the start, but makes the disposal end with an
  error, so that the process exits without the second that the disposer gives to open connections (`leaving`).
* Files: an empty `config.yaml` or `serve-web-key-half`, left by a process that ended between creating and writing it,
  is never repaired: no later server starts without a password from elsewhere, or every later one gives an empty key out.
  A key that cannot be read for another reason than that it does not exist is written over with a new one
  (`vscode.ts:335-345`), while others still use the old one.
* TLS sockets: a proxy server that cannot listen, because its path was taken meanwhile or for any other reason, leaves a
  promise that never settles (`socket.ts:88-92`); all later websockets of that process wait for it (`Stuck`: `taken` or
  `broken`).

## 4. Fairness, and what the liveness properties assume

* `Supervisor`: fairness of the parent only (its timers, its messages, the exits it is told of) for `HandshakeSettles`
  and `DisposalEnds`; children may hang. `KeepsPromise` also needs children that do not hang: what is not in charge can
  go away only if its code runs. No fairness for signals, crashes, idle exits or the parsing of the arguments.
* `Heart`: time passes, timers fire, a count of existing connections arrives, a disposal ends (the parent's five
  seconds). Nothing is assumed of clients or of the count of no connections, for which the timeout exists.
* `LastOpened`, `Sessions`: a handler or look-up that can go on goes on; file system calls and connections to local
  sockets return. Nothing is assumed of users and hosts.
* `AgentHost`: weak fairness of the steps of each server as a whole, i.e. its event loop goes on. No step that fails has
  to occur except the timer that ends a hung probe, which is the only step left there. Hosts need not listen, and a new
  child need not answer `initialize`, which no timer limits: a server that waits for it forever is excluded from
  `HostIsReplaced`.
* `UpdateCheck`: a server goes on with its check, and reading and writing the file come to an end, well or not. A request
  for the latest release may hang forever: `ChecksEnd` excludes it. Nothing is assumed of pages and clients.
* `Instances`: the search for a path goes on, a socket whose server is there connects, and its 5 s pass. Nothing is
  assumed of the id's arrival, of browsers, starts or ends. A process whose server is stuck (`taken` or
  `broken`) is excluded.
* `Settings` and `Server` have no liveness property: they may stop anywhere.

## 5. What is proved

Every type invariant, every safety invariant and every action property of the passing runs is proved for all values
of the constants, from `Spec` (no fairness), and so is the step simulation of `Succession`. The assumptions are those
of the modules' `ASSUME`s, which TLC evaluates on the instances: counts are naturals, sets of paths are disjoint, "no
value" is no value, the isActive timeout is shorter than the heartbeat interval, and

* `PathsAssumption` (`SocketProxy`): there are as many paths as processes. With the 100 tries of the code that is 101
  servers on a machine; one more would take the last path from the server that listens there.
* `HostsAssumption` (`Server`): a host has one port, and no host is called `{{port}}`. With two ports for one name two
  hosts would share their cookies, and "at this host" of the two cookie properties would mean both.
* `InvocationsAssumption`, `DomainsAssumption`, `PasswordsAssumption` (`Server`): command lines and configurations are
  sequences of words, a proxy domain has at least one label, and no password is the absence of one.

| Proof module | Theorems | Along which argument |
|---|---|---|
| `SupervisorProofs` | `TypeCorrect`, `OnlyCurrentChildWatched`, `NoChildIsStray`, `SupersededExitsIgnored`, `ImplementsSuccession` | `IInv`: listeners that can end the parent are those of the child in charge, the parent in charge always listens to its child, before `start()` there is none, a parent that is gone listens to nothing. `OnlyCurrentWatched` and `NoStrayChild` are not inductive without them: a parent that is gone but still listened could exit a second time, and a child that nobody listens to could be in charge |
| `HeartProofs` | `TypeCorrect`, `OneProbeAtATime`, `AliveWatched`, `ConnectedStaysUp` | `TInv`: an isActive call runs out before the next heartbeat, and the idle timer runs exactly in the state "expired". `CInv`, until the clock is set: age and timer add up to the interval, a connection unseen by a call has started a timer, and it is looked at before the idle timer runs out. This is where an idle timeout has to be longer than the interval, i.e. `compared` |
| `UpdateCheckProofs` | of `Settings`: `TypeCorrect`, `SequentialWritesAreMerged`, `TornNeedsOverlap` | `Alone`: as long as nothing was harmed one write at most is in progress, and the file is whole. `Current`: as long as nothing was misread either, its document is the latest one with its own setting changed |
| the same | of `UpdateCheck`: `ChecksUseSettings`, `ChecksMerge`, `ChecksTearByOverlap`, `UpdateTypeCorrect`, `RememberedHonestly`, `AnsweredAsAsked` | every step of the composition is a step of `Settings` or leaves its variables alone, which carries the invariants above over; for the other two an invariant that relates each flight, the document it writes and the file to what was published when it began |
| `ServerProofs`, the limiter | `TypeCorrect`, `FailuresCost` | `AloneIsCovered`: an attempt that overlapped no other still has the token for which it was let in. The theorem leaves one case open, in which both intervals have given out all they may |
| `ServerProofs`, the password | `AccessIsEarned` | `JarEarned`: whoever a cookie in the jar names was proved, and `NothingBlank`: never with a blank password. With lemmas on the handlers (`AnswersAreGuarded`, `SocketsAreGuarded`), on the first answer that does not pass (`FirstIsOne`), and on passwords (`CookieNames`, `ValidNames`) no answer that is protected goes to anyone else |
| `ServerProofs`, the cookies | `LoginsLetIn`, `LogoutsLockOut` | `JInv`: every cookie in the jar is one that some host set for itself (`JarIsOwn`), there is one of each host (`CookiesDiffer`), and none of a host at which the browser is out (`OutIsClear`). It holds because every proxy domain of a running server begins with `{{port}}` or contains it (`ServesPorted`), so that no host ends in one and `getCookieDomain` answers with the host itself (`OwnDomain`). For that the parser is followed word by word (`ParseStepIsOver`, `ParsedLists`): the value of `--proxy-domain` is a sequence of words whatever the words are. A later cookie is hidden only by one of a domain above |
| `ServerProofs`, the decisions | `AddressHasPrecedence`, `OriginsDecide` | what two rounds of overwriting with absent values leave (`RoundsArePrecedence`, over `AssignAbove`, `AssignBelow`); a websocket passes exactly if each handler lets it pass (`OtherSocketAnswer`) |
| `InstancesProofs`, the pipes | `TypeCorrect`, `PipesAreKept` | `ProxyInv`: the file at a path belongs to a server that listens there, and two processes that are about to take a path or have taken it meet only at a contested one. The search stops at the last path even if it is in use, so that it must be shown never to get there in vain: above path k there are at most as many processes as paths, since each of them left a server behind at every path below (a count of the processes at each height, `PassOver`, `LastIsFree`) |
| `InstancesProofs`, the files and the session socket | `FilesStayInAgreement`, `SessionFollowsPort` | `ConfigInv`: one process at most ever fills the configuration, as creating it excludes all others, and nobody has a password before. `KeyInv`, unless the key is disturbed: one process at a time is at it, and what it saw of the file still holds. `SessionInv`: who unlinks or binds the session socket has the port, and one has |
| `LastOpenedProofs` | `TypeCorrect`, `RedirectsAreBounded`, `IgnoringWorks`, `AskedIsHonoured` | `Budget`: redirects so far and those a query can still lead to (`Potential`) are three at most. `Ignored`: what is remembered never gets into a query. `Honoured`: the query keeps every target that was there all the time |
| `SessionsProofs` | `TypeCorrect`, `BestIsAnswered`, `LiveIsKept`, `DeadAreDeleted` | `Searching`: a session that was there at the beginning and is up is still a candidate; `Failing`: one that is about to be deleted has ended; `Registered`: a host registers once |
| `AgentHostProofs` | `TypeCorrect`, `OneLoad`, `WaitsAreCurrent`, `CatalogueArrives`, `OneHost`, `GivesUpInTime`, `HostReachable` | `SInv`: the promise stands for the only call that is not over (`LoaderOK`), a manager exists only after its call created it and its count is that of the failures (`ManagerOK`), a host that is alive is the current one of a manager that waits for it or watches it (`HostOK`). `PathOK`, as long as the path was not contested: one server at most is past its probe, the path is free from the removal until that server's host listens |

`contested` is the hypothesis that `HostReachable` cannot do without: otherwise a server removes the socket on which the
host of another one listens.

Only model-checked: everything with fairness (`HandshakeSettles`, `DisposalEnds`, `KeepsBeating`, `IdleShutsDown`,
`EveryVisitEnds`, `LookupsEnd`, `EveryWaitEnds`, `HostIsReplaced`, `ChecksEnd`, `SocketsSettle`) and the fairness half of
`KeepsPromise`, because the prover has neither ENABLED nor fairness; `ImplementsSuccession` is its safety half. What the
folds of the parser compute from all the words of a line is not proved (that is induction over data), only which kinds
of values they can return: the definition of a fold is unfolded to the functions that satisfy its recursion, and one of
them is shown to exist and to agree with any other (`FoldExists`, `FoldsAgree`) by well-founded induction on indices.

## 6. What is not modelled, and the plan

Not modelled because there is nothing to check in states: the rewriting of URLs and headers by `proxy.ts`, the rendering
of pages and errors, translations, opening a file in a running instance over HTTP, the comparison of versions, the build
scripts in `ci/`; VS Code itself is not in this repository. The certificate that `generateCertificate` writes is left
out: two processes that create it at the same time may leave a certificate and a key that do not belong together.

What would come next:

1. `UncontestedPipeIsKept` and `UncontestedHostIsReachable` have the same argument (one process at most is past its look
   at a path): an abstract specification "one owner of a path" that both `AgentHost` and `SocketProxy` implement while it
   is not contested is worth stating.
2. `Disposal` composed with `Supervisor`: the second of the disposer inside the five seconds of the supervisor.
3. `Settings` with writes that exclude one another as an implementation of an atomic map, the abstract specification of
   what its comment promises.
4. Time in `Server`: how many attempts are possible in a minute and in an hour, which needs the rate at which tokens
   drip.
