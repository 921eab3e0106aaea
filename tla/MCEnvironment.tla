------------------------------ MODULE MCEnvironment ------------------------------
(***************************************************************************)
(* Small configurations for Environment. A name is made of what the code   *)
(* tells apart: a format's decoration, a path in front, a body, whether a  *)
(* character is one that sanitize replaces, and the case. "a-b" and "a_b"  *)
(* differ until they are sanitized, "a_b" and "A_B" until they are upcased.*)
(***************************************************************************)
EXTENDS Environment, TLC

CONSTANTS v1, v2, v3

Name(format, path, body, dirty, up) ==
    [format |-> format, path |-> path, body |-> body, dirty |-> dirty, up |-> up]

Attrs == {"id", "name", "address", "tag", "port"}

\* Keys and paths have the body "k"; a service has a name for each attribute.
MCNames ==
    {Name(f, p, "k", d, u) : f \in {"none", "dirty", "clean"},
        p \in {"none", "dirty", "clean"}, d \in BOOLEAN, u \in BOOLEAN}
    \cup {Name(f, "none", a, d, u) : f \in {"none", "dirty", "clean"},
              a \in Attrs, d \in BOOLEAN, u \in BOOLEAN}
    \cup {Blank}

MCValues == {v1, v2, v3}

MCSanitized(k) ==
    IF k = Blank THEN k
    ELSE [k EXCEPT !.format = IF @ = "dirty" THEN "clean" ELSE @,
                   !.path = IF @ = "dirty" THEN "clean" ELSE @, !.dirty = FALSE]
MCUpcased(k) == IF k = Blank THEN k ELSE [k EXCEPT !.up = TRUE]

\* The path of every block is the same name, "p/q".
Path == Name("none", "dirty", "k", FALSE, FALSE)
MCPathValue(p) == p
MCPrefixed(p, k) == IF k = Blank THEN Blank ELSE [k EXCEPT !.path = p.path]

AB == Name("none", "none", "k", TRUE, FALSE)       \* a-b
A_B == Name("none", "none", "k", FALSE, FALSE)     \* a_b
UP == Name("none", "none", "k", FALSE, TRUE)       \* A_B

\* Formats: "custom-{{ key }}", a constant, one that does not parse, one that fails.
MCFormatted(f, k) ==
    CASE f = "custom" -> IF k = Blank THEN Blank ELSE [k EXCEPT !.format = "dirty"]
      [] f = "constant" -> A_B
      [] f = "malformed" -> Blank
      [] f = "failing" -> Error

\* "service/attribute" without a format.
MCServiceName(f, service, attr) ==
    LET name == Name("none", "none", attr, TRUE, FALSE)
    IN IF f = NoFormat THEN name ELSE MCFormatted(f, name)

Block(kind, name, noPrefix, format, keys) ==
    [kind |-> kind, name |-> name, path |-> Path, noPrefix |-> noPrefix,
     format |-> format, keys |-> keys]
\* Two of the attributes have the format.
Service(format) ==
    [kind |-> "service", name |-> "ser",
     formats |-> [a \in Attrs |-> IF a \in {"name", "tag"} THEN format ELSE NoFormat]]

Kv(name, noPrefix, format) == Block("prefix", name, noPrefix, format, <<>>)
Vault(name, noPrefix, format) == Block("secret", name, noPrefix, format, <<>>)
KeyBlock(k, f) == [name |-> k, format |-> f]

Nobody == [k \in MCNames |-> Unset]
MCOsEnv == [Nobody EXCEPT ![A_B] = v1, ![UP] = v1]

Config(prefixes, services, secrets, sanitize, upcase) ==
    [prefixes |-> prefixes, services |-> services, secrets |-> secrets,
     sanitize |-> sanitize, upcase |-> upcase, pristine |-> FALSE, envPristine |-> FALSE,
     allowlist |-> {}, allowlistDeprecated |-> {}, denylist |-> {},
     denylistDeprecated |-> {}, custom |-> Nobody]

\* Two prefix blocks (one path twice, or two paths), a service and two secrets.
MixedConfigs ==
    {Config(ps, ss, vs, sanitize, upcase) :
        ps \in {<<Kv("kv1", "unset", NoFormat), Kv("kv2", "false", f)>> :
                  f \in {NoFormat, "custom", "malformed"}}
               \cup {<<Kv("kv1", "false", NoFormat), Kv("kv1", "true", "constant")>>},
        ss \in {<<>>, <<Service("constant")>>, <<Service("failing")>>},
        vs \in {<<Vault("v1", "true", NoFormat)>>,
                <<Vault("v1", "unset", "custom"), Vault("v2", "true", "failing")>>,
                <<Block("secret", "v1", "true", NoFormat,
                        <<KeyBlock(AB, "custom"), KeyBlock(AB, "constant"),
                          KeyBlock(A_B, NoFormat)>>)>>},
        sanitize \in BOOLEAN, upcase \in BOOLEAN}

\* The lists and the two ways to be pristine, over one prefix and one secret.
FilterConfigs ==
    {[Config(<<Kv("kv1", "unset", NoFormat)>>, <<>>, <<Vault("v1", "true", NoFormat)>>,
             FALSE, FALSE)
        EXCEPT !.pristine = p, !.envPristine = e, !.allowlist = al,
               !.allowlistDeprecated = ald, !.denylist = dl, !.custom = cu] :
        p \in BOOLEAN, e \in BOOLEAN, al \in {{}, {{AB, A_B}}}, ald \in {{}, {{UP}}},
        dl \in {{}, {{A_B, UP}}}, cu \in {Nobody, [Nobody EXCEPT ![A_B] = v3]}}

MCConfigs == MixedConfigs \cup FilterConfigs

Pair(k, v) == [key |-> k, value |-> v]
Secret(vals) == <<[kv2 |-> FALSE, deleted |-> FALSE, data |-> vals, inner |-> {}]>>
Kv2(deleted, vals) == <<[kv2 |-> TRUE, deleted |-> deleted, data |-> {}, inner |-> vals]>>

MCPayloads(d) ==
    CASE d.kind = "prefix" ->
           {<<>>, <<Pair(AB, v1), Pair(Blank, v2), Pair(A_B, v2)>>}
      [] d.kind = "service" ->
           {<<[name |-> "web", vals |-> [a \in Attrs |-> IF a = "tag" THEN v1 ELSE v2]]>>}
      [] d.kind = "secret" ->
           {Secret({Pair(A_B, v3), Pair(Blank, v3), Pair(UP, Nil)}),
            Kv2(FALSE, {Pair(AB, NotString), Pair(A_B, v3)}), Kv2(TRUE, {})}

\* A secret with two keys that upcase or sanitize maps to one name.
CollidingConfigs ==
    {Config(<<>>, <<>>, <<Vault("v1", "true", NoFormat)>>, TRUE, TRUE)}
CollidingPayloads(d) == {Secret({Pair(AB, v1), Pair(A_B, v2)})}
=============================================================================
