----------------------------- MODULE MCConfiguration -----------------------------
(* Command lines and files for Configuration, small enough for TLC.          *)
EXTENDS Configuration, TLC

Arg(flag, value) == [flag |-> flag, value |-> value]

\* Every flag that writes settings, once.
EveryFlag == {Arg(f, "once") : f \in DOMAIN Targets}

\* Flags of every other sort, and several values of those whose order matters.
Common == {
    Arg(<<"consul", "address">>, "x"), Arg(<<"consul">>, "y"),
    Arg(<<"prefix">>, "a"), Arg(<<"prefix">>, "/"), Arg(<<"secret">>, "s"),
    Arg(<<"service", "query">>, "q"), Arg(<<"service", "format_id">>, "x"),
    Arg(<<"service", "format_id">>, "y"), Arg(<<"no_prefix">>, "true"),
    Arg(<<"no_prefix">>, "false"), Arg(<<"config">>, "dir"), Arg(<<"config">>, "file")}

Rare == {
    Arg(<<"log_level">>, "loud"), Arg(<<"retry">>, "x"), Arg(<<"exec">>, "x"),
    Arg(<<"prefix">>, "b"), Arg(<<"prefix">>, Unparsable), Arg(<<"secret">>, ""),
    Arg(<<"service", "query">>, ""), Arg(<<"service", "format_name">>, "x"),
    Arg(<<"no_prefix">>, Unparsable), Arg(<<"consul", "retry", "backoff">>, Unparsable),
    Arg(<<"config">>, "empty"), Arg(<<"config">>, "missing"), Arg(<<"syslog", "enabled">>, "true"),
    Arg(<<"version">>, "true"), Arg(<<"help">>, "true"), Arg(<<"unknown">>, "x")}

MCArguments == EveryFlag \cup Common \cup Rare

\* Without the flag -prefix /, which trims to a prefix without a path.
NamedPrefixes == MCArguments \ {Arg(<<"prefix">>, "/")}

\* Every flag is given alone, a rare one with one more flag or statement.
MCCost(a) == IF a \in Common THEN 1 ELSE IF a \in Rare THEN 2 ELSE 3
MCBudget == 3

MCWords == {"", "run"}

MCTree == ("dir" :> <<"f1", "f2">>) @@ ("file" :> <<"f2">>) @@ ("empty" :> <<>>)

Stmt(key, set) == [key |-> key, set |-> set]

MCStatements ==
    ("f1" :> {Stmt("consul", (<<"address">> :> "1") @@ (<<"token">> :> "1")
                             @@ (<<"retry", "attempts">> :> "1")),
              Stmt("consul", <<"address">> :> "2"), Stmt("wait", <<>> :> "1"),
              Stmt("retry", <<>> :> "1"), Stmt("token", <<>> :> "2"),
              Stmt("prefix", ("path" :> "a") @@ ("no_prefix" :> "false")),
              Stmt("prefix", "format" :> "x"), Stmt("unknown", <<>> :> "1")})
    @@
    ("f2" :> {Stmt("consul", <<>> :> "3"),
              Stmt("ssl", <<"enabled">> :> "true"), Stmt("vault", <<>> :> "1"),
              Stmt("vault", (<<"token">> :> "1") @@ (<<"vault_agent_token_file">> :> "x")),
              Stmt("splay", <<>> :> "1"),
              Stmt("timeout", <<>> :> Unparsable),
              Stmt("auth", <<"username">> :> "1"),
              Stmt("exec", (<<"command">> :> "run") @@ (<<"splay">> :> "2")),
              Stmt("log_level", <<>> :> "loud"), Stmt("secret", "path" :> "t"),
              Stmt("service", ("query" :> "r") @@ ("format_id" :> "z"))})

MCEnvirons == {Nothing, ("CT_LOG" :> "debug") @@ ("ENVCONSUL" :> "loud")}

MCLevels == {"WARN", "debug", "info", "once"}
=============================================================================
