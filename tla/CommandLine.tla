----------------------------- MODULE CommandLine -----------------------------
(***************************************************************************)
(* From the words of the command line, the configuration file and the      *)
(* environment to the arguments of the server (src/node/cli.ts), and what  *)
(* an invocation then does (src/node/entry.ts, src/node/main.ts).          *)
(*                                                                         *)
(* An argument of argv is a token: "end" (--), "option" (a key and the     *)
(* value after its =, NoWord without one) or "plain"; its text is the word *)
(* itself.  Arguments are functions whose domain are the keys that are     *)
(* set.  The environment and the configuration are such functions, too; a  *)
(* blank variable counts as one that is not set, as in the code.           *)
(***************************************************************************)
EXTENDS Integers, Sequences, SequencesExt, FiniteSetsExt

CONSTANTS
  NoWord,      \* undefined
  NotANumber,  \* NaN
  NumberOf,    \* Number(): what a word is as a whole
  IntOf,       \* parseInt(, 10): the number a word starts with
  PathOf,      \* path.resolve()
  AddressOf,   \* the hostname and the port (NoWord without) of http://<word>
  DomainOf,    \* the labels of a proxy domain, "*." first if it starts with it
  ConfigWords  \* `${opt}` of the values of a configuration file

Has(args, key) == key \in DOMAIN args
Value(args, key, default) == IF Has(args, key) THEN args[key] ELSE default
With(args, key, value) ==
  [k \in DOMAIN args \cup {key} |-> IF k = key THEN value ELSE args[k]]

\* Object.assign({}, below, above).
Assign(below, above) ==
  [k \in DOMAIN below \cup DOMAIN above |-> IF Has(above, k) THEN above[k] ELSE below[k]]

NoArgs == [k \in {} |-> NoWord]

----------------------------------------------------------------------------
(* The options.                                                            *)

BooleanOptions ==
  {"disable-telemetry", "disable-update-check", "disable-file-downloads",
   "disable-file-uploads", "disable-getting-started-override", "disable-proxy", "help",
   "json", "open", "version", "list-extensions", "force", "show-versions",
   "skip-auth-preflight", "ignore-last-opened", "new-window", "reuse-window", "verbose"}

ListOptions ==
  {"enable", "link-protection-trusted-domains", "trusted-origins", "_",
   "locate-extension", "install-extension", "enable-proposed-api",
   "uninstall-extension", "proxy-domain"}

StringOptions ==
  {"password", "hashed-password", "cert-host", "cert-key", "session-socket",
   "cookie-suffix", "agents-byok-config", "locale", "bind-addr", "config", "host",
   "socket", "socket-mode", "user-data-dir", "extensions-dir",
   "builtin-extensions-dir", "category", "github-auth", "app-name", "welcome-text",
   "abs-proxy-base-path", "i18n", "reconnection-grace-time"}

NumberOptions == {"port", "idle-timeout-seconds"}

Permitted == [auth |-> {"password", "none"},
              log |-> {"trace", "debug", "info", "warn", "error"}]

Options ==
  BooleanOptions \cup ListOptions \cup StringOptions \cup NumberOptions
    \cup DOMAIN Permitted \cup {"cert"}

PathOptions ==
  {"cert", "cert-key", "agents-byok-config", "socket", "user-data-dir",
   "extensions-dir", "builtin-extensions-dir", "i18n"}

\* What only the configuration file or the environment may give.
Secrets == {"password", "hashed-password", "github-auth"}

----------------------------------------------------------------------------
(* Parsing.                                                                *)

TooShort(value) == NumberOf[value] # NotANumber /\ NumberOf[value] <= 60

\* The value of the option at i: after its =, or else the next argument if
\* that is not blank and does not look like an option.
TakesNext(argv, i) ==
  /\ argv[i].value = NoWord
  /\ i < Len(argv) /\ argv[i + 1].kind = "plain" /\ argv[i + 1].text # ""

ValueAt(argv, i) == IF TakesNext(argv, i) THEN argv[i + 1].text ELSE argv[i].value

\* The errors.  The idle timeout is only compared when it stands after a =.
Refused(argv, i, inFile) ==
  LET key == argv[i].key
      value == ValueAt(argv, i)
      blank == value \in {NoWord, ""}
  IN  \/ key \notin Options
      \/ key \in Secrets /\ ~inFile
      \/ key = "idle-timeout-seconds" /\ TooShort(argv[i].value)
      \/ blank /\ key \notin BooleanOptions \cup {"cert"}
      \/ ~blank /\ key \in NumberOptions /\ IntOf[value] = NotANumber
      \/ ~blank /\ key \in DOMAIN Permitted /\ value \notin Permitted[key]

Taken(args, key, value) ==
  LET word == IF key \in PathOptions /\ value \notin {NoWord, ""}
                THEN PathOf[value] ELSE value
  IN  IF key \in BooleanOptions THEN With(args, key, TRUE)
      ELSE IF key \in ListOptions THEN With(args, key, Append(Value(args, key, <<>>), word))
      ELSE IF key \in NumberOptions THEN With(args, key, IntOf[word])
      ELSE IF key = "cert" /\ value = "false" THEN args
      ELSE With(args, key, word)

\* One round of the loop: "used" if argv[i] was taken as the value before it.
ParseStep(state, argv, i, inFile) ==
  IF state.used \/ state.failed THEN [state EXCEPT !.used = FALSE]
  ELSE IF ~state.ended /\ argv[i].kind = "end" THEN [state EXCEPT !.ended = TRUE]
  ELSE IF state.ended \/ argv[i].kind # "option"
    THEN [state EXCEPT !.args = With(@, "_", Append(Value(@, "_", <<>>), argv[i].text))]
  ELSE IF Refused(argv, i, inFile) THEN [state EXCEPT !.failed = TRUE]
  ELSE [state EXCEPT !.args = Taken(@, argv[i].key, ValueAt(argv, i)),
                     !.used = argv[i].key \notin BooleanOptions /\ TakesNext(argv, i)]

\* The cert without a value is in args, too: one is generated for it.
Parse(argv, inFile) ==
  LET Round(state, i) == ParseStep(state, argv, i, inFile)
      last == FoldLeftDomain(Round,
                [args |-> NoArgs, ended |-> FALSE, used |-> FALSE, failed |-> FALSE], argv)
      keyless == /\ Value(last.args, "cert", NoWord) \notin {NoWord, ""}
                 /\ ~Has(last.args, "cert-key")
  IN  [failed |-> last.failed \/ keyless, args |-> last.args]

\* A configuration is a sequence of [key, value]: TRUE, a word or a sequence
\* of words.  Its other values reach the parser as the words they print as.
ConfigArgv(config) ==
  LET Option(key, value) == [kind |-> "option", key |-> key, value |-> value, text |-> NoWord]
      Entry(entry) ==
        CASE entry.kind = "true" -> <<Option(entry.key, NoWord)>>
          [] entry.kind = "list" ->
               [i \in DOMAIN entry.value |-> Option(entry.key, ConfigWords[entry.value[i]])]
          [] OTHER -> <<Option(entry.key, ConfigWords[entry.value])>>
  IN  FlattenSeq([i \in DOMAIN config |-> Entry(config[i])])

ParseConfigFile(file) ==
  IF file.kind = "empty" THEN [failed |-> FALSE, args |-> NoArgs]
  ELSE IF file.kind = "scalar" THEN [failed |-> TRUE, args |-> NoArgs]
  ELSE Parse(ConfigArgv(file.entries), TRUE)

----------------------------------------------------------------------------
(* The address.                                                            *)

BindAddrFromArgs(addr, args, env) ==
  LET bound == IF Has(args, "bind-addr")
                 THEN [host |-> AddressOf[args["bind-addr"]].host,
                       port |-> IF AddressOf[args["bind-addr"]].port = NoWord THEN 80
                                ELSE AddressOf[args["bind-addr"]].port]
                 ELSE addr
      port == IF Has(env, "PORT") THEN IntOf[env["PORT"]] ELSE bound.port
  IN  [host |-> Value(args, "host", Value(env, "CODE_SERVER_HOST", bound.host)),
       port |-> Value(args, "port", port)]

\* Faulty variant: the command line comes before the configuration.
BindAddrFromAllSourcesFlipped(config, cli, env) ==
  BindAddrFromArgs(BindAddrFromArgs([host |-> "localhost", port |-> 8080], cli, env), config, env)

BindAddrFromAllSources(config, cli, env) ==
  BindAddrFromArgs(BindAddrFromArgs([host |-> "localhost", port |-> 8080], config, env), cli, env)

----------------------------------------------------------------------------
(* The defaults.                                                           *)

EnvWords ==
  [PASSWORD |-> "password", HASHED_PASSWORD |-> "hashed-password",
   CODE_SERVER_COOKIE_SUFFIX |-> "cookie-suffix", GITHUB_TOKEN |-> "github-auth",
   CODE_SERVER_RECONNECTION_GRACE_TIME |-> "reconnection-grace-time"]

EnvFlags ==
  [CS_DISABLE_FILE_DOWNLOADS |-> "disable-file-downloads",
   CS_DISABLE_GETTING_STARTED_OVERRIDE |-> "disable-getting-started-override",
   CS_DISABLE_PROXY |-> "disable-proxy"]

IdleVariable == "CODE_SERVER_IDLE_TIMEOUT_SECONDS"

\* What the environment says, over the command line and the configuration.
FromEnv(env) ==
  LET words == {v \in DOMAIN EnvWords : Has(env, v)}
      flags == {v \in DOMAIN EnvFlags : Value(env, v, "") \in {"1", "true"}}
      wordArgs == [o \in {EnvWords[v] : v \in words} |-> env[CHOOSE v \in words : EnvWords[v] = o]]
      flagArgs == [o \in {EnvFlags[v] : v \in flags} |-> TRUE]
      idleArgs == IF Has(env, IdleVariable)
                    THEN With(NoArgs, "idle-timeout-seconds", NumberOf[env[IdleVariable]])
                    ELSE NoArgs
  IN  Assign(Assign(wordArgs, flagArgs), idleArgs)

\* In a proxy domain, what stands for a port and for any further labels.
PortPlace == "{{port}}"
HostPlace == "{{host}}"

\* Proxy domains without "*." and duplicates, and each with a place for the port.
ProxyDomains(words) ==
  LET labels(word) == IF Head(DomainOf[word]) = "*" THEN Tail(DomainOf[word]) ELSE DomainOf[word]
      ported(domain) == IF Contains(domain, PortPlace) THEN domain ELSE <<PortPlace>> \o domain
      AddNew(domains, word) == IF Contains(domains, labels(word)) THEN domains
                               ELSE Append(domains, labels(word))
      distinct == FoldLeft(AddNew, <<>>, words)
  IN  [i \in DOMAIN distinct |-> ported(distinct[i])]

\* --verbose over --log over LOG_LEVEL; the level then decides --verbose.
LogLevel(args, env) ==
  IF Has(args, "verbose") THEN "trace"
  ELSE IF Has(args, "log") THEN args["log"]
  ELSE IF Value(env, "LOG_LEVEL", NoWord) \in Permitted.log THEN env["LOG_LEVEL"] ELSE NoWord

SetDefaults(cli, config, env) ==
  LET given == Assign(config, cli)
      level == LogLevel(given, env)
      addr == BindAddrFromAllSources(config, cli, env)
      proxies == ProxyDomains(Value(given, "proxy-domain", <<>>))
      generated == Value(given, "cert", "none") \in {NoWord, ""}
      dir == Value(given, "user-data-dir", "data")
      socket == Value(given, "session-socket", <<dir, "code-server-ipc.sock">>)
      basic == [k \in {"auth", "app-name", "user-data-dir", "extensions-dir", "session-socket"} |->
                  CASE k = "auth" -> "password"
                    [] k = "app-name" -> Value(env, "CODE_SERVER_APP_NAME", "code-server")
                    [] k = "user-data-dir" -> dir
                    [] k = "extensions-dir" -> <<dir, "extensions">>
                    [] k = "session-socket" -> socket]
      derived == [k \in {"host", "port", "proxy-domain", "_"} |->
                    CASE k = "host" -> addr.host
                      [] k = "port" -> addr.port
                      [] k = "proxy-domain" -> proxies
                      [] k = "_" -> LET paths == Value(given, "_", <<>>)
                                    IN  [i \in DOMAIN paths |-> PathOf[paths[i]]]]
      logged == IF level = NoWord THEN NoArgs
                ELSE [k \in {"log", "verbose"} |-> IF k = "log" THEN level ELSE level = "trace"]
      certs == IF generated THEN [k \in {"cert", "cert-key"} |-> "generated"] ELSE NoArgs
      socketEnv == With(env, "CODE_SERVER_SESSION_SOCKET", socket)
      levelEnv == IF level = NoWord THEN socketEnv ELSE With(socketEnv, "LOG_LEVEL", level)
      uriEnv == IF proxies = <<>> \/ Has(env, "VSCODE_PROXY_URI") THEN levelEnv
                ELSE With(levelEnv, "VSCODE_PROXY_URI", Head(proxies))
  IN  [failed |-> Has(env, IdleVariable) /\ TooShort(env[IdleVariable]),
       args |-> Assign(Assign(Assign(basic, given), Assign(Assign(derived, logged), certs)),
                       FromEnv(env)),
       env |-> Restrict(uriEnv, DOMAIN uriEnv \ {"PASSWORD", "HASHED_PASSWORD", "GITHUB_TOKEN"})]

----------------------------------------------------------------------------
(* What an invocation does.                                                *)

\* The catalogue of models names variables of the environment; their values
\* go to the server and out of the environment.
ConsumeByokBootstrapFile(catalogue, env) ==
  LET named == {catalogue.keys[i] : i \in DOMAIN catalogue.keys} \ {NoWord, ""}
  IN  [failed |-> catalogue.kind = "missing",
       secrets |-> Restrict(env, named \cap DOMAIN env),
       env |-> Restrict(env, DOMAIN env \ named)]

ShouldSpawnCliProcess(args) ==
  \E key \in {"list-extensions", "install-extension", "uninstall-extension",
               "locate-extension"} : Has(args, key)

\* sessions: whether the socket answers, and the session it finds for the path.
ShouldOpenInExistingInstance(cli, env, sessions) ==
  LET asked == Has(cli, "reuse-window") \/ Has(cli, "new-window") \/ DOMAIN cli = {"_"}
  IN  IF Has(env, "VSCODE_IPC_HOOK_CLI") THEN env["VSCODE_IPC_HOOK_CLI"]
      ELSE IF asked /\ sessions.alive THEN sessions.match ELSE NoWord

\* Paths that are no directories are files; a new window takes no files.
OpenInExistingInstance(args, directories) ==
  LET paths == {args["_"][i] : i \in DOMAIN args["_"]}
      refused == Has(args, "new-window") /\ ~(paths \subseteq directories)
  IN  IF paths = {} \/ refused THEN "error" ELSE "opened"

\* runCodeServer() refuses to start without a password that it would ask for.
Passwordless(args) ==
  args["auth"] = "password" /\ ~Has(args, "password") /\ ~Has(args, "hashed-password")

\* The last checks before an invocation serves: it runs the command line of
\* VS Code, opens its paths in another instance, or starts the server.
RunArgs(cli, args, socket, directories) ==
  IF ShouldSpawnCliProcess(args) THEN "cli"
  ELSE IF socket # NoWord THEN OpenInExistingInstance(args, directories)
  ELSE IF Has(cli, "reuse-window") \/ Has(cli, "new-window") \/ Passwordless(args)
    THEN "error" ELSE "serve"

\* What entry() does with its arguments and, if it starts a server, the
\* arguments and the environment of that.
Decide(cli, args, byok, world) ==
  [does |-> IF Has(args, "help") THEN "help"
            ELSE IF Has(args, "version") THEN "version"
            ELSE IF ~Has(args, "agents-byok-config") \/ byok.failed THEN "error"
            ELSE RunArgs(cli, args, ShouldOpenInExistingInstance(cli, byok.env, world.sessions),
                         world.directories),
   args |-> args, env |-> byok.env, secrets |-> byok.secrets]

Failure == [does |-> "error", args |-> NoArgs, env |-> NoArgs, secrets |-> NoArgs]

EntryWith(cli, defaults, world) ==
  IF defaults.failed THEN Failure
  ELSE Decide(cli, defaults.args,
              ConsumeByokBootstrapFile(world.catalogue, defaults.env), world)

EntryParsed(cli, config, env, world) ==
  IF cli.failed \/ config.failed THEN Failure
  ELSE EntryWith(cli.args, SetDefaults(cli.args, config.args, env), world)

\* entry().  world: the files and the running sessions that it meets.
Entry(argv, file, env, world) ==
  EntryParsed(Parse(argv, FALSE), ParseConfigFile(file), env, world)
=============================================================================
