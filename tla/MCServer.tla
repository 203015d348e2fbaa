------------------------------- MODULE MCServer -------------------------------
(* Server with a few command lines, files and hosts. *)
EXTENDS Server, TLC

CONSTANTS a1, a2

End == [kind |-> "end", key |-> NoWord, value |-> NoWord, text |-> "--"]
Plain(word) == [kind |-> "plain", key |-> NoWord, value |-> NoWord, text |-> word]
Flag(key) == [kind |-> "option", key |-> key, value |-> NoWord, text |-> key]
Opt(key, value) == [kind |-> "option", key |-> key, value |-> value, text |-> key]

Byok == Opt("agents-byok-config", "byok.json")

MCArgv ==
  {<<>>, <<Byok>>, <<Byok, Opt("port", "9000")>>,
   <<Flag("agents-byok-config"), Plain("byok.json"), Flag("host"), Plain("::"), Plain("proj")>>,
   <<Byok, Opt("bind-addr", "0.0.0.0"), Flag("verbose")>>,
   <<Byok, Opt("bind-addr", "0.0.0.0:81"), Flag("idle-timeout-seconds"), Plain("30"), End, Flag("help")>>,
   <<Byok, Flag("skip-auth-preflight"), Flag("port"), Plain("nan")>>,
   <<Opt("password", "one")>>, <<Opt("idle-timeout-seconds", "30")>>,
   <<Byok, Flag("list-extensions")>>, <<Flag("version")>>, <<Byok, Flag("help")>>, <<Plain("proj")>>,
   <<Byok, Flag("new-window"), Plain("proj")>>, <<Byok, Opt("cert", "site.crt")>>}

Item(key, value) == [kind |-> "word", key |-> key, value |-> value]
Switch(key) == [kind |-> "true", key |-> key, value |-> NoWord]
Items(key, value) == [kind |-> "list", key |-> key, value |-> value]
File(entries) == [kind |-> "entries", entries |-> entries]
Default(word) == <<Item("bind-addr", "127.0.0.1:8080"), Item("auth", "password"),
                   Item("password", word), Item("cert", "no")>>

Hashed ==
  File(<<Item("hashed-password", "sha-one"), Items("proxy-domain", <<"{{port}}.{{host}}">>),
         Items("trusted-origins", <<"*.alpha.com">>)>>)

MCConfigFile ==
  {[kind |-> "empty"], [kind |-> "scalar"], File(Default("one")),
   File(<<Item("host", "::"), Item("password", "two"), Switch("skip-auth-preflight"),
          Items("proxy-domain", <<"*.alpha.com", "alpha.com">>)>>),
   File(<<Item("port", "81"), Item("hashed-password", "$argon-one"),
          Switch("agents-byok-config")>>)}

MCEnvironment ==
  {NoArgs, "PASSWORD" :> "two" @@ "LOG_LEVEL" :> "debug" @@ "PORT" :> "9000",
   "CODE_SERVER_HOST" :> "0.0.0.0" @@ "KEY" :> "secret",
   "CODE_SERVER_IDLE_TIMEOUT_SECONDS" :> "30"}

OneWorld ==
  [catalogue |-> [kind |-> "file", keys |-> <<"KEY", NoWord>>],
   sessions |-> [alive |-> TRUE, match |-> "vscode.sock"], directories |-> {}]

OtherWorlds ==
  {[catalogue |-> [kind |-> "file", keys |-> <<>>],
    sessions |-> [alive |-> FALSE, match |-> NoWord], directories |-> {"/proj"}],
   [catalogue |-> [kind |-> "missing", keys |-> <<>>],
    sessions |-> [alive |-> FALSE, match |-> NoWord], directories |-> {}]}

MCNumberOf ==
  [w \in {NoWord, "", "nan"} |-> NotANumber] @@ "30" :> 30 @@ "81" :> 81 @@ "9000" :> 9000
MCIntOf == MCNumberOf @@ "8080" :> 8080
MCPathOf == [w \in {"byok.json", "site.crt", "help"} |-> w] @@ "proj" :> "/proj"
MCAddressOf ==
  "0.0.0.0" :> [host |-> "0.0.0.0", port |-> NoWord]
  @@ "0.0.0.0:81" :> [host |-> "0.0.0.0", port |-> 81]
  @@ "127.0.0.1:8080" :> [host |-> "127.0.0.1", port |-> 8080]
MCDomainOf ==
  "*.alpha.com" :> <<"*", "alpha", "com">> @@ "alpha.com" :> <<"alpha", "com">>
  @@ "{{port}}.{{host}}" :> <<"{{port}}", "{{host}}">>
MCConfigWords ==
  [w \in {"127.0.0.1:8080", "password", "one", "two", "::", "*.alpha.com", "alpha.com", "81",
          "$argon-one", "sha-one", "{{port}}.{{host}}"} |-> w] @@ "no" :> "false"

At(name) == [name |-> name, port |-> ""]
MCOriginOf == "*.alpha.com" :> At(<<"*", "alpha", "com">>)
MCHashOf ==
  "$argon-one" :> [method |-> "argon2", of |-> "one", salt |-> "config"]
  @@ "sha-one" :> [method |-> "sha256", of |-> "one", salt |-> "none"]

MCHost == {At(<<"alpha", "com">>), At(<<"8080", "alpha", "com">>)}
MCOrigin ==
  {At(<<"alpha", "com">>), At(<<"beta">>), [name |-> <<"8080", "alpha", "com">>, port |-> "8443"]}

\* Every combination in one world, and on their own a hashed password, a server
\* without a proxy, one without a password, and what looks at the world.
MCInvocation ==
  [argv : MCArgv, file : MCConfigFile, env : MCEnvironment, world : {OneWorld}]
  \cup [argv : {<<Byok>>}, file : {Hashed}, env : {NoArgs, "CS_DISABLE_PROXY" :> "1"},
        world : {OneWorld}]
  \cup [argv : {<<Byok, Opt("auth", "none")>>}, file : MCConfigFile, env : {NoArgs},
        world : {OneWorld}]
  \cup [argv : {<<Plain("proj")>>, <<Byok, Flag("new-window"), Plain("proj")>>, <<Byok>>},
        file : {File(Default("one"))}, env : {NoArgs}, world : OtherWorlds]
MCSymmetry == Permutations({a1, a2})
=============================================================================
