------------------------------ MODULE Environment ------------------------------
(***************************************************************************)
(* How Run compiles the environment of the command (runner.go): init turns *)
(* the configuration into an ordered list of dependencies, Run appends the *)
(* data of each of them, and applyConfigEnv filters the result.            *)
(*                                                                         *)
(* Names are abstract. What the program does to a name (prefixing the      *)
(* path, applying a format, sanitizing, upcasing) is a constant operator,  *)
(* of which only what the code relies on is assumed. An environment maps   *)
(* every name to a value, or to Unset.                                     *)
(*                                                                         *)
(* One step appends one key pair, one service or one key of a secret. The  *)
(* keys of a secret, and the five variables of a service, come out of a Go *)
(* map, in any order. Run is called Runs times on the same data.           *)
(***************************************************************************)
EXTENDS Naturals, Sequences, FiniteSets

CONSTANTS Names,             \* names of environment variables, keys and paths
          Blank,             \* the empty name
          Values, Unset,
          NoFormat,
          Error,             \* a template that does not execute
          Prefixed(_, _),    \* path and key, joined by an underscore
          Formatted(_, _),   \* applyFormatTemplate; Blank when it does not parse
          ServiceName(_, _, _), \* applyServiceTemplate of format, service, attribute
          PathValue(_),      \* applyPathTemplate
          Sanitized(_),      \* InvalidRegexp replaced by underscores
          Upcased(_),
          Nil, NotString,    \* values of a secret that are left out
          Configs,           \* the configurations to consider
          Payloads(_),       \* the data to consider for a dependency
          OsEnv,             \* the environment of envconsul itself
          Runs               \* bound: calls of Run

ASSUME EnvironmentAssumption ==
    /\ Blank \in Names
    /\ Unset \notin Values
    /\ Nil \notin [Names -> Values \cup {Unset}]
    /\ Error \notin Names
    /\ \A k \in Names : Sanitized(k) \in Names /\ Upcased(k) \in Names
    /\ \A k \in Names : Sanitized(Sanitized(k)) = Sanitized(k)
    /\ \A k \in Names : Sanitized(Upcased(Sanitized(k))) = Upcased(Sanitized(k))
    /\ OsEnv \in [Names -> Values \cup {Unset}]
    /\ Runs \in Nat \ {0}

VARIABLES cfg,   \* the configuration of the runner
          data,  \* r.data, by position in r.dependencies
          pc,    \* "append", "compare", "child", "done"
          dep,   \* the dependency Run is at
          item,  \* the pair or service within it
          rest,  \* the keys of a secret that are still to come
          env,   \* the map Run fills
          last,  \* r.env
          run,   \* calls of Run that have ended
          cmdEnv \* the environment the child gets

vars == <<cfg, data, pc, dep, item, rest, env, last, run, cmdEnv>>

EmptyEnv == [k \in Names |-> Unset]

-----------------------------------------------------------------------------
(* init                                                                    *)

\* Seeded fault: secrets are appended before services and prefixes.
Dependencies_SecretsFirst(c) == c.secrets \o c.services \o c.prefixes

\* Prefixes, services, secrets: the order of r.dependencies.
Dependencies(c) == c.prefixes \o c.services \o c.secrets

\* configPrefixMap and configServiceMap: the configuration of a dependency is
\* that of the last block with the same name (d.String()).
ConfigOf(c, i) ==
    LET deps == Dependencies(c)
        same == {j \in DOMAIN deps : /\ deps[j].kind = deps[i].kind
                                     /\ deps[j].name = deps[i].name}
    IN deps[CHOOSE j \in same : \A l \in same : l <= j]

\* The view that Run is working on.
cp == ConfigOf(cfg, dep)
Kind == Dependencies(cfg)[dep].kind
Payload == data[dep]

-----------------------------------------------------------------------------
(* Names                                                                   *)

Clean(c, k) == LET s == IF c.sanitize THEN Sanitized(k) ELSE k
               IN IF c.upcase THEN Upcased(s) ELSE s

\* Seeded fault: the format is applied to the cleaned name.
PrefixName_FormatsLast(c, p, key) ==
    LET full == Clean(c, IF p.noPrefix = "false" THEN Prefixed(Sanitized(p.path), key)
                         ELSE key)
    IN IF p.format # NoFormat THEN Formatted(p.format, full) ELSE full

\* A prefix block excludes the path unless no_prefix is false.
PrefixRaw(p, key) ==
    LET full == IF p.noPrefix = "false" THEN Prefixed(Sanitized(p.path), key) ELSE key
    IN IF p.format # NoFormat THEN Formatted(p.format, full) ELSE full

PrefixName(c, p, key) ==
    LET name == PrefixRaw(p, key) IN IF name = Error THEN Error ELSE Clean(c, name)

\* Without a format for the block, the blocks of its keys choose the keys and
\* their names, several per key if they like.
PerKey(p) == p.keys # <<>> /\ p.format = NoFormat
Listed(p, key) == PerKey(p) => \E i \in DOMAIN p.keys : p.keys[i].name = key

KeyNames(p, key) ==
    LET formats == {p.keys[i].format : i \in {j \in DOMAIN p.keys : p.keys[j].name = key}}
        applied == {Formatted(f, key) : f \in formats \ {NoFormat}}
    IN IF PerKey(p) /\ applied # {} THEN applied ELSE {key}

\* A secret block includes the path unless no_prefix is true.
SecretRaw(p, key) ==
    LET full == IF p.noPrefix # "true"
                THEN Prefixed(Sanitized(PathValue(p.path)), key) ELSE key
    IN IF p.format # NoFormat THEN Formatted(p.format, full) ELSE full

SecretName(c, p, key) ==
    LET name == SecretRaw(p, key) IN IF name = Error THEN Error ELSE Clean(c, name)

SecretNames(c, p, key) ==
    IF Error \in KeyNames(p, key) THEN {Error}
    ELSE {SecretName(c, p, k) : k \in KeyNames(p, key)}

\* The five variables of a service, in the order they enter the map serKV.
Attributes == <<"id", "name", "address", "tag", "port">>

RawName(p, service, i) == ServiceName(p.formats[Attributes[i]], service, Attributes[i])

\* The name of a variable of a service: upcased before it is sanitized.
ServiceClean(c, name) ==
    LET up == IF c.upcase THEN Upcased(name) ELSE name
    IN IF c.sanitize THEN Sanitized(up) ELSE up

-----------------------------------------------------------------------------
(* What a payload holds                                                    *)

\* A payload is a sequence: of key pairs, of services, or of the one secret. A KV2
\* secret wraps its data, which is nil when the secret was deleted.
ValueMap(secret) ==
    CASE ~secret.kv2 -> secret.data
      [] secret.kv2 /\ secret.deleted -> {}
      [] OTHER -> secret.inner

\* The variables of one service: of two with the same raw name the later stays.
ServiceWrites(c, p, ser) ==
    {<<ServiceClean(c, RawName(p, ser.name, i)), ser.vals[Attributes[i]]>> :
        i \in {j \in 1..5 : \A l \in (j + 1)..5 :
                                RawName(p, ser.name, l) # RawName(p, ser.name, j)}}

ServiceFails(p, ser) == \E i \in 1..5 : RawName(p, ser.name, i) = Error

\* Seeded fault: nil values are not skipped.
Considered_Nil(p, kv) == kv.key # Blank /\ Listed(p, kv.key)

\* An entry of a secret that appendSecrets looks at.
Considered(p, kv) == kv.key # Blank /\ kv.value # Nil /\ Listed(p, kv.key)

Keys(W) == {w[1] : w \in W}

\* Writing the pairs W in any order: one of the values of each name stays.
AnyOrder(e, W) ==
    {[k \in Names |-> IF k \in Keys(W) THEN g[k] ELSE e[k]] :
        g \in {h \in [Keys(W) -> {w[2] : w \in W}] : \A k \in Keys(W) : <<k, h[k]>> \in W}}

Blocks(c) == UNION {{s[i] : i \in DOMAIN s} : s \in {c.prefixes, c.services, c.secrets}}

ASSUME ConfigAssumption ==
    \A c \in Configs :
        /\ {c.prefixes, c.services, c.secrets} \subseteq Seq(Blocks(c))
        /\ \A i \in DOMAIN c.prefixes : c.prefixes[i].kind = "prefix"
        /\ \A i \in DOMAIN c.services : c.services[i].kind = "service"
        /\ \A i \in DOMAIN c.secrets : c.secrets[i].kind = "secret"
        /\ c.custom \in [Names -> Values \cup {Unset}]

\* Payloads hold names and values, and names are made of names.
ASSUME PayloadAssumption ==
    \A c \in Configs : \A i \in DOMAIN Dependencies(c) :
        LET p == ConfigOf(c, i)
            kind == Dependencies(c)[i].kind
            Made == Names \cup {Error}
        IN \A d \in Payloads(Dependencies(c)[i]) :
             /\ Len(d) \in Nat /\ DOMAIN d = 1..Len(d)
             /\ kind = "prefix" => \A j \in DOMAIN d :
                    /\ d[j].key \in Names /\ d[j].value \in Values
                    /\ PrefixRaw(p, d[j].key) \in Made
             /\ kind = "service" => \A j \in DOMAIN d, a \in 1..5 :
                    /\ d[j].vals[Attributes[a]] \in Values
                    /\ RawName(p, d[j].name, a) \in Made
             /\ kind = "secret" => \A kv \in ValueMap(d[1]) :
                    /\ kv.key \in Names /\ kv.value \in Values \cup {Nil, NotString}
                    /\ \A k \in KeyNames(p, kv.key) \ {Error} : SecretRaw(p, k) \in Made

-----------------------------------------------------------------------------
(* Run                                                                     *)

TypeOK ==
    /\ cfg \in Configs
    /\ DOMAIN data = DOMAIN Dependencies(cfg)
    /\ pc \in {"append", "compare", "child", "done"}
    /\ dep \in 1..(Len(Dependencies(cfg)) + 1)
    /\ item \in Nat
    /\ env \in [Names -> Values \cup {Unset}]
    /\ last \in [Names -> Values \cup {Unset}] \cup {Nil}
    /\ run \in 0..Runs
    /\ cmdEnv \in [Names -> Values \cup {Unset}]

KeyPairs(c, d, i) ==
    IF i \in DOMAIN d /\ Dependencies(c)[i].kind = "secret" THEN ValueMap(d[i][1]) ELSE {}

Init ==
    /\ cfg \in Configs
    /\ LET deps == Dependencies(cfg)
       IN /\ data \in [DOMAIN deps -> UNION {Payloads(deps[i]) : i \in DOMAIN deps}]
          /\ \A i \in DOMAIN deps : data[i] \in Payloads(deps[i])
          /\ \A i, j \in DOMAIN deps :
                 (deps[i].kind = deps[j].kind /\ deps[i].name = deps[j].name)
                     => data[i] = data[j]
    /\ pc = IF 1 \in DOMAIN data THEN "append" ELSE "compare"
    /\ dep = 1
    /\ item = 1
    /\ rest = KeyPairs(cfg, data, 1)
    /\ env = EmptyEnv
    /\ last = Nil
    /\ run = 0
    /\ cmdEnv = EmptyEnv

Enter(i) ==
    /\ dep' = i
    /\ item' = 1
    /\ rest' = KeyPairs(cfg, data, i)
    /\ pc' = IF i \in DOMAIN data THEN "append" ELSE "compare"

NextItem == item' = item + 1 /\ UNCHANGED <<pc, dep, rest>>

\* Seeded fault: the first value of a name stays.
Set_KeepsFirst(names, value) ==
    env' = [k \in Names |-> IF k \in names /\ env[k] = Unset THEN value ELSE env[k]]

\* env[key] = value: an existing key is overwritten.
Set(names, value) == env' = [k \in Names |-> IF k \in names THEN value ELSE env[k]]

\* One round of the loop of appendPrefixes. An error ends the loop; Run ignores it.
AppendPair ==
    /\ pc = "append"
    /\ Kind = "prefix"
    /\ item \in DOMAIN Payload
    /\ LET pair == Payload[item]
           name == PrefixName(cfg, cp, pair.key)
       IN \/ /\ pair.key = Blank
             /\ NextItem
             /\ UNCHANGED env
          \/ /\ pair.key # Blank
             /\ name = Error
             /\ Enter(dep + 1)
             /\ UNCHANGED env
          \/ /\ pair.key # Blank
             /\ name # Error
             /\ Set({name}, pair.value)
             /\ NextItem
    /\ UNCHANGED <<cfg, data, last, run, cmdEnv>>

\* One round of the loop of appendServices.
AppendService ==
    /\ pc = "append"
    /\ Kind = "service"
    /\ item \in DOMAIN Payload
    /\ LET ser == Payload[item]
       IN IF ServiceFails(cp, ser)
          THEN Enter(dep + 1) /\ UNCHANGED env
          ELSE env' \in AnyOrder(env, ServiceWrites(cfg, cp, ser)) /\ NextItem
    /\ UNCHANGED <<cfg, data, last, run, cmdEnv>>

\* One round of the loop of appendSecrets, which ranges over a map.
AppendSecret(kv) ==
    /\ pc = "append"
    /\ Kind = "secret"
    /\ kv \in rest
    /\ LET names == SecretNames(cfg, cp, kv.key)
       IN \/ /\ ~Considered(cp, kv) \/ (Error \notin names /\ kv.value = NotString)
             /\ rest' = rest \ {kv}
             /\ UNCHANGED <<pc, dep, item, env>>
          \/ /\ Considered(cp, kv)
             /\ Error \in names
             /\ Enter(dep + 1)
             /\ UNCHANGED env
          \/ /\ Considered(cp, kv)
             /\ Error \notin names
             /\ kv.value # NotString
             /\ Set(names, kv.value)
             /\ rest' = rest \ {kv}
             /\ UNCHANGED <<pc, dep, item>>
    /\ UNCHANGED <<cfg, data, last, run, cmdEnv>>

\* The loop of the dependency is over.
NextDependency ==
    /\ pc = "append"
    /\ IF Kind = "secret" THEN rest = {} ELSE item \notin DOMAIN Payload
    /\ Enter(dep + 1)
    /\ UNCHANGED <<cfg, data, env, last, run, cmdEnv>>

\* The environment was the same: Run starts nothing.
Same ==
    /\ pc = "compare"
    /\ last = env
    /\ pc' = "done"
    /\ run' = run + 1
    /\ UNCHANGED <<cfg, data, dep, item, rest, env, last, cmdEnv>>

New ==
    /\ pc = "compare"
    /\ last # env
    /\ last' = env
    /\ pc' = "child"
    /\ UNCHANGED <<cfg, data, dep, item, rest, env, run, cmdEnv>>

-----------------------------------------------------------------------------
(* The environment of the child                                            *)

\* The compiled variables, over those of envconsul unless -pristine.
Inherited(c, e) == [k \in Names |-> IF e[k] # Unset \/ c.pristine THEN e[k] ELSE OsEnv[k]]

\* A pattern of a list is the set of the names it matches.
AnyGlobMatch(k, patterns) == \E p \in patterns : k \in p

\* Seeded fault: the denylist is applied last.
applyConfigEnv_DenyLast(c, e) ==
    LET allowlist == c.allowlist \cup c.allowlistDeprecated
        denylist == c.denylist \cup c.denylistDeprecated
    IN [k \in Names |->
            IF AnyGlobMatch(k, denylist) THEN Unset
            ELSE IF c.custom[k] # Unset THEN c.custom[k]
            ELSE IF c.envPristine \/ (allowlist # {} /\ ~AnyGlobMatch(k, allowlist))
            THEN Unset ELSE e[k]]

applyConfigEnv(c, e) ==
    LET allowlist == c.allowlist \cup c.allowlistDeprecated
        denylist == c.denylist \cup c.denylistDeprecated
        included == {k \in Names : allowlist = {} \/ AnyGlobMatch(k, allowlist)}
        kept == {k \in included : ~AnyGlobMatch(k, denylist)}
    IN [k \in Names |-> IF c.custom[k] # Unset THEN c.custom[k]
                        ELSE IF c.envPristine \/ k \notin kept THEN Unset
                        ELSE e[k]]

BuildChildEnv ==
    /\ pc = "child"
    /\ cmdEnv' = applyConfigEnv(cfg, Inherited(cfg, last))
    /\ pc' = "done"
    /\ run' = run + 1
    /\ UNCHANGED <<cfg, data, dep, item, rest, env, last>>

\* Start calls Run again on the same data: a watcher reported an error, say.
RunAgain ==
    /\ pc = "done"
    /\ run < Runs
    /\ Enter(1)
    /\ env' = EmptyEnv
    /\ UNCHANGED <<cfg, data, last, run, cmdEnv>>

Finished == pc = "done" /\ run = Runs /\ UNCHANGED vars

Next ==
    \/ AppendPair
    \/ AppendService
    \/ \E kv \in rest : AppendSecret(kv)
    \/ NextDependency
    \/ Same
    \/ New
    \/ BuildChildEnv
    \/ RunAgain
    \/ Finished

Spec == Init /\ [][Next]_vars

-----------------------------------------------------------------------------
(* Properties                                                              *)

\* What entry j of a list writes, and what an entry of a secret writes.
EntryWrites(c, d, i, j) ==
    LET p == ConfigOf(c, i)
        entry == d[i][j]
    IN IF Dependencies(c)[i].kind = "service"
       THEN IF ServiceFails(p, entry) THEN {} ELSE ServiceWrites(c, p, entry)
       ELSE IF entry.key = Blank THEN {}
       ELSE {<<PrefixName(c, p, entry.key), entry.value>>}

SecretWrites(c, i, kv) ==
    LET p == ConfigOf(c, i)
    IN IF Considered(p, kv) /\ kv.value # NotString
       THEN {<<k, kv.value>> : k \in SecretNames(c, p, kv.key)} ELSE {}

\* Of the first n entries of a list, the last one that yields a name.
LastOf(c, d, i, n) ==
    UNION {{w \in EntryWrites(c, d, i, j) :
                \A l \in (j + 1)..n : w[1] \notin Keys(EntryWrites(c, d, i, l))} : j \in 1..n}

\* What dependency i leaves behind, read off its data at once: of a list the last
\* entry that yields a name, of a map every entry that does.
Leaves(c, d, i) ==
    IF Dependencies(c)[i].kind = "secret"
    THEN UNION {SecretWrites(c, i, kv) : kv \in KeyPairs(c, d, i)}
    ELSE LastOf(c, d, i, Len(d[i]))

\* A template of dependency i does not execute.
Fails(c, d, i) ==
    LET p == ConfigOf(c, i)
        kind == Dependencies(c)[i].kind
    IN \/ kind = "prefix" /\ \E j \in DOMAIN d[i] :
              d[i][j].key # Blank /\ PrefixName(c, p, d[i][j].key) = Error
       \/ kind = "service" /\ \E j \in DOMAIN d[i] : ServiceFails(p, d[i][j])
       \/ kind = "secret" /\ \E kv \in KeyPairs(c, d, i) :
              Considered(p, kv) /\ Error \in SecretNames(c, p, kv.key)

Secrets == {i \in DOMAIN data : Dependencies(cfg)[i].kind = "secret"}

\* Vault secrets always take precedence over Consul (README.md:542, runner.go:810):
\* a variable that a secret sets never ends up with a value from elsewhere.
VaultPrecedence ==
    pc = "compare" =>
        \A i \in Secrets : ~Fails(cfg, data, i) =>
            \A k \in Keys(Leaves(cfg, data, i)) :
                \E j \in Secrets : <<k, env[k]>> \in Leaves(cfg, data, j)

\* The loops of Run compute what the blocks say: the bottom-most block that yields
\* a variable decides it (README.md:336), and nothing else is in the environment.
\* A template that fails disturbs only what its own dependency decides, although
\* Run goes on without its error (runner.go:296).
BottomMostWins ==
    pc = "compare" =>
        \A k \in Names :
            LET js == {i \in DOMAIN data : k \in Keys(Leaves(cfg, data, i))}
            IN IF js = {} THEN env[k] = Unset
               ELSE \E j \in js :
                      /\ \A i \in js : i <= j
                      /\ Fails(cfg, data, j) \/ <<k, env[k]>> \in Leaves(cfg, data, j)

\* With sanitize, whatever formats and paths add, every compiled name is clean.
SanitizedNames ==
    (cfg.sanitize /\ pc # "append") =>
        \A k \in Names : env[k] # Unset => Sanitized(k) = k

\* The custom variables always reach the child, a denylist notwithstanding; anything
\* else reaches it only past pristine, denylist and allowlist, and with -pristine only
\* if it was compiled (README.md:269-297).
ListsDecide ==
    (pc = "done" /\ run > 0) =>
        \A k \in Names :
            IF cfg.custom[k] # Unset THEN cmdEnv[k] = cfg.custom[k]
            ELSE cmdEnv[k] # Unset =>
                /\ ~cfg.envPristine
                /\ ~AnyGlobMatch(k, cfg.denylist \cup cfg.denylistDeprecated)
                /\ \/ cfg.allowlist \cup cfg.allowlistDeprecated = {}
                   \/ AnyGlobMatch(k, cfg.allowlist \cup cfg.allowlistDeprecated)
                /\ cmdEnv[k] = IF env[k] # Unset THEN env[k] ELSE OsEnv[k]
                /\ cfg.pristine => env[k] # Unset

\* "We iterate over the list of config prefixes so that order is maintained, since
\* order in a map is not deterministic" (runner.go:283): the same data is meant to
\* yield the same environment.
SameDataSameEnvironment == (pc = "compare" /\ run > 0) => env = last
=============================================================================
