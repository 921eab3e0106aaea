--------------------------------- MODULE Flags ---------------------------------
(* The command-line flags and the settings each of them writes (ParseFlags,  *)
(* cli.go).  A setting is the sequence of the keys that lead to it in a      *)
(* configuration file; a flag goes by the setting it is named after.         *)
LOCAL INSTANCE Sequences

\* The settings Consul and Vault share: each client has a copy of them.
Client == {<<"retry", "enabled">>, <<"retry", "attempts">>, <<"retry", "backoff">>,
    <<"retry", "max_backoff">>, <<"ssl", "enabled">>, <<"ssl", "ca_cert">>,
    <<"ssl", "ca_path">>, <<"ssl", "cert">>, <<"ssl", "key">>, <<"ssl", "server_name">>,
    <<"ssl", "verify">>, <<"transport", "dial_keep_alive">>,
    <<"transport", "dial_timeout">>, <<"transport", "disable_keep_alives">>,
    <<"transport", "max_idle_conns_per_host">>, <<"transport", "tls_handshake_timeout">>,
    <<"address">>, <<"token">>}

Under(stanza, keys) == {<<stanza>> \o k : k \in keys}

Auth == Under("consul", {<<"auth", "username">>, <<"auth", "password">>})

\* The settings with a flag of their own, by the part of ParseFlags that
\* declares them.
ConsulFlags == Under("consul", Client)

VaultFlags == Under("vault", Client \cup {<<k>> : k \in
    {"namespace", "renew_token", "vault_agent_token_file", "unwrap_token",
     "k8s_auth_role_name", "k8s_service_account_token",
     "k8s_service_account_token_path", "k8s_service_mount_path"}})

ExecFlags == Under("exec", {<<"kill_signal">>, <<"kill_timeout">>, <<"splay">>})

TopFlags == {<<k>> : k \in {"kill_signal", "log_level", "max_stale", "pid_file",
                            "pristine", "reload_signal", "sanitize", "upcase"}}

SyslogFlags == Under("syslog", {<<"enabled">>, <<"facility">>})

OwnFlags == ConsulFlags \cup VaultFlags \cup ExecFlags \cup TopFlags \cup SyslogFlags

\* The flags that write more settings than one.
StanzaFlags ==
    [f \in {<<"consul", "auth">>, <<"exec">>, <<"wait">>} |->
        CASE f = <<"consul", "auth">> -> Auth
          [] f = <<"exec">> -> Under("exec", {<<"enabled">>, <<"command">>})
          [] f = <<"wait">> -> Under("wait", {<<"min">>, <<"max">>})]

InBoth(keys) == Under("consul", keys) \cup Under("vault", keys)

\* The deprecated flags.  -timeout writes a setting nothing reads.
DeprecatedFlags ==
    [f \in {<<"auth">>, <<"consul">>, <<"retry">>, <<"splay">>, <<"ssl">>, <<"ssl_verify">>,
            <<"ssl_ca_cert">>, <<"ssl_cert">>, <<"timeout">>, <<"token">>} |->
        CASE f = <<"auth">> -> Auth
          [] f = <<"consul">> -> {<<"consul", "address">>}
          [] f = <<"retry">> -> InBoth({<<"retry", "backoff">>, <<"retry", "max_backoff">>})
          [] f = <<"splay">> -> {<<"exec", "splay">>}
          [] f = <<"ssl">> -> InBoth({<<"ssl", "enabled">>})
          [] f = <<"ssl_verify">> -> InBoth({<<"ssl", "verify">>})
          [] f = <<"ssl_ca_cert">> -> InBoth({<<"ssl", "ca_cert">>})
          [] f = <<"ssl_cert">> -> InBoth({<<"ssl", "cert">>})
          [] f = <<"timeout">> -> {<<"exec", "timeout">>}
          [] f = <<"token">> -> {<<"consul", "token">>}]

\* The settings of o, and those of c that o does not have.
Over(o, c) ==
    [s \in DOMAIN o \cup DOMAIN c |-> IF s \in DOMAIN o THEN o[s] ELSE c[s]]

\* The settings a flag writes.
Targets == Over([f \in OwnFlags |-> {f}], Over(StanzaFlags, DeprecatedFlags))

\* What a flag given the value v writes: v, and -exec turns its stanza on.
Writes(f, v) == [s \in Targets[f] |-> IF s = <<"exec", "enabled">> THEN "true" ELSE v]

Settings == (UNION {Targets[f] : f \in DOMAIN Targets}) \cup {<<"wait", "enabled">>}

-----------------------------------------------------------------------------
\* The flags and settings whose value is parsed, and refused when it cannot be:
\* booleans, integers, durations and signals, and two stanzas written as a string.
Typed ==
    LET last(s) == s[Len(s)]
        parsed == {"enabled", "verify", "disable_keep_alives", "renew_token",
                   "unwrap_token", "pristine", "sanitize", "upcase", "attempts",
                   "max_idle_conns_per_host", "backoff", "max_backoff",
                   "dial_keep_alive", "dial_timeout", "tls_handshake_timeout",
                   "kill_timeout", "splay", "max_stale", "kill_signal",
                   "reload_signal", "retry", "ssl", "ssl_verify", "timeout",
                   "auth", "wait", "min", "max", "no_prefix"}
    IN  {f \in DOMAIN Targets \cup Settings \cup {<<"no_prefix">>} : last(f) \in parsed}
=============================================================================
