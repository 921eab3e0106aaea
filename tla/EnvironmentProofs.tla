--------------------------- MODULE EnvironmentProofs ---------------------------
(***************************************************************************)
(* What Run compiles, for all configurations and data: the last block that *)
(* yields a variable decides it, secrets before everything else, names are *)
(* clean, and the lists decide what reaches the command.                   *)
(***************************************************************************)
EXTENDS Environment, Integers, SequenceTheorems, WellFoundedInduction, TLAPS

LEMMA Joined ==
    ASSUME NEW S, NEW s \in Seq(S), NEW t \in Seq(S)
    PROVE  /\ s \o t \in Seq(S)
           /\ Len(s \o t) = Len(s) + Len(t)
           /\ \A i \in 1..Len(s) : (s \o t)[i] = s[i]
           /\ \A i \in Len(s) + 1..Len(s) + Len(t) : (s \o t)[i] = t[i - Len(s)]
<1> DEFINE u == s \o t
           n == Len(s)
           m == Len(t)
<1>1. n \in Nat /\ m \in Nat
  BY LenProperties
<1>2. u \in Seq(S) /\ Len(u) = n + m
  BY ConcatProperties, Zenon
<1>3. \A i \in 1..n + m : u[i] = IF i <= n THEN s[i] ELSE t[i - n]
  BY ConcatProperties, Zenon
<1> HIDE DEF u, n, m
<1>4. /\ \A i \in 1..n : u[i] = s[i]
      /\ \A i \in n + 1..n + m : u[i] = t[i - n]
  BY <1>1, <1>3
<1>5. QED
  BY <1>2, <1>4, Zenon DEF u, n, m

\* The dependencies are a list in which nothing comes after the secrets.
LEMMA DependencyList ==
    ASSUME NEW c \in Configs
    PROVE  /\ Len(Dependencies(c)) \in Nat
           /\ DOMAIN Dependencies(c) = 1..Len(Dependencies(c))
           /\ \A i \in DOMAIN Dependencies(c) :
                  Dependencies(c)[i].kind \in {"prefix", "service", "secret"}
           /\ \A i, j \in DOMAIN Dependencies(c) :
                  i <= j /\ Dependencies(c)[i].kind = "secret" =>
                      Dependencies(c)[j].kind = "secret"
<1> DEFINE B == Blocks(c)
           ps == c.prefixes
           ss == c.services
           vs == c.secrets
           head == ps \o ss
           deps == head \o vs
<1>1. ps \in Seq(B) /\ ss \in Seq(B) /\ vs \in Seq(B)
  BY ConfigAssumption DEF ConfigAssumption
<1>2. /\ \A i \in DOMAIN ps : ps[i].kind = "prefix"
      /\ \A i \in DOMAIN ss : ss[i].kind = "service"
      /\ \A i \in DOMAIN vs : vs[i].kind = "secret"
  BY ConfigAssumption DEF ConfigAssumption
<1> HIDE DEF B, ps, ss, vs
<1>3. /\ Len(ps) \in Nat /\ DOMAIN ps = 1..Len(ps)
      /\ Len(ss) \in Nat /\ DOMAIN ss = 1..Len(ss)
      /\ Len(vs) \in Nat /\ DOMAIN vs = 1..Len(vs)
  BY <1>1, LenProperties
<1>4. head \in Seq(B)
  BY <1>1, Joined, Zenon
<1>5. /\ Len(head) = Len(ps) + Len(ss)
      /\ \A i \in 1..Len(ps) : head[i] = ps[i]
      /\ \A i \in Len(ps) + 1..Len(ps) + Len(ss) : head[i] = ss[i - Len(ps)]
  <2>2. Len(head) = Len(ps) + Len(ss)
    BY <1>1, Joined, Zenon
  <2>3. \A i \in 1..Len(ps) : head[i] = ps[i]
    BY <1>1, Joined, Zenon
  <2>4. \A i \in Len(ps) + 1..Len(ps) + Len(ss) : head[i] = ss[i - Len(ps)]
    BY <1>1, Joined, Zenon
  <2>5. QED
    BY <2>2, <2>3, <2>4
<1> HIDE DEF head
<1>6. /\ deps \in Seq(B)
      /\ Len(deps) = Len(head) + Len(vs)
      /\ \A i \in 1..Len(head) : deps[i] = head[i]
      /\ \A i \in Len(head) + 1..Len(head) + Len(vs) : deps[i] = vs[i - Len(head)]
  <2>1. deps \in Seq(B)
    BY <1>1, <1>4, Joined, Zenon
  <2>2. Len(deps) = Len(head) + Len(vs)
    BY <1>1, <1>4, Joined, Zenon
  <2>3. \A i \in 1..Len(head) : deps[i] = head[i]
    BY <1>1, <1>4, Joined, Zenon
  <2>4. \A i \in Len(head) + 1..Len(head) + Len(vs) : deps[i] = vs[i - Len(head)]
    BY <1>1, <1>4, Joined, Zenon
  <2>5. QED
    BY <2>1, <2>2, <2>3, <2>4
<1>7. Dependencies(c) = deps
  BY DEF Dependencies, head, ps, ss, vs
<1> HIDE DEF deps
<1>8. DOMAIN deps = 1..Len(deps)
  BY <1>6, LenProperties
<1>9. \A i \in 1..Len(head) : head[i].kind \in {"prefix", "service"}
  BY <1>2, <1>3, <1>5
<1>10. \A i \in 1..Len(deps) :
           /\ i <= Len(head) => deps[i].kind \in {"prefix", "service"}
           /\ i > Len(head) => deps[i].kind = "secret"
  <2>1. ASSUME NEW i \in 1..Len(deps), i > Len(head) PROVE deps[i].kind = "secret"
    <3>1. i - Len(head) \in 1..Len(vs) /\ deps[i] = vs[i - Len(head)]
      BY <1>3, <1>5, <1>6, <2>1
    <3>2. QED
      BY <1>2, <1>3, <3>1
  <2>2. QED
    BY <1>3, <1>5, <1>6, <1>9, <2>1
<1>11. Len(head) \in Nat /\ Len(deps) \in Nat
  BY <1>6, <1>4, LenProperties
<1>12. /\ \A i \in 1..Len(deps) : deps[i].kind \in {"prefix", "service", "secret"}
       /\ \A i, j \in 1..Len(deps) :
              i <= j /\ deps[i].kind = "secret" => deps[j].kind = "secret"
  BY <1>10, <1>11
<1>13. QED
  BY <1>7, <1>8, <1>11, <1>12
-----------------------------------------------------------------------------
(* Where Run is                                                            *)

Deps == Dependencies(cfg)
Envs == [Names -> Values \cup {Unset}]

\* Run is at an entry of a dependency, or past the last one of them.
Placed ==
    /\ \A i \in DOMAIN data : data[i] \in Payloads(Deps[i])
    /\ pc = "append" =>
         /\ dep \in DOMAIN Deps
         /\ Kind # "secret" => item \in 1..Len(Payload) + 1
         /\ Kind = "secret" => rest \subseteq KeyPairs(cfg, data, dep)
    /\ pc = "compare" => dep = Len(Deps) + 1
    /\ pc = "child" => last = env
    /\ pc # "done" => run < Runs

TypeInv == TypeOK /\ Placed

\* A map written with the pairs W, in any order.
Wrote(e, f, W) ==
    \A k \in Names : IF k \in Keys(W) THEN <<k, f[k]>> \in W ELSE f[k] = e[k]

\* A dependency writes names and values, and what it writes is clean.
Sound(W) ==
    \A w \in W : \E k \in Names, v \in Values :
        w = <<k, v>> /\ (cfg.sanitize => Sanitized(k) = k)

LEMMA CleanName ==
    ASSUME NEW k \in Names
    PROVE  /\ Clean(cfg, k) \in Names /\ ServiceClean(cfg, k) \in Names
           /\ cfg.sanitize => /\ Sanitized(Clean(cfg, k)) = Clean(cfg, k)
                              /\ Sanitized(ServiceClean(cfg, k)) = ServiceClean(cfg, k)
BY EnvironmentAssumption DEF EnvironmentAssumption, Clean, ServiceClean

\* The payload of a dependency.
LEMMA PayloadFacts ==
    ASSUME TypeOK, Placed, NEW i \in DOMAIN Deps
    PROVE  /\ DOMAIN data[i] = 1..Len(data[i]) /\ Len(data[i]) \in Nat
           /\ Deps[i].kind = "prefix" => \A j \in DOMAIN data[i] :
                  /\ data[i][j].key \in Names /\ data[i][j].value \in Values
                  /\ PrefixRaw(ConfigOf(cfg, i), data[i][j].key) \in Names \cup {Error}
           /\ Deps[i].kind = "service" => \A j \in DOMAIN data[i], a \in 1..5 :
                  /\ data[i][j].vals[Attributes[a]] \in Values
                  /\ RawName(ConfigOf(cfg, i), data[i][j].name, a) \in Names \cup {Error}
           /\ Deps[i].kind = "secret" => \A kv \in KeyPairs(cfg, data, i) :
                  /\ kv.key \in Names /\ kv.value \in Values \cup {Nil, NotString}
                  /\ \A k \in KeyNames(ConfigOf(cfg, i), kv.key) \ {Error} :
                         SecretRaw(ConfigOf(cfg, i), k) \in Names \cup {Error}
<1>1. cfg \in Configs /\ DOMAIN data = DOMAIN Deps /\ data[i] \in Payloads(Deps[i])
  BY DEF TypeOK, Placed, Deps
<1>2. Deps[i].kind = "secret" => KeyPairs(cfg, data, i) = ValueMap(data[i][1])
  BY <1>1 DEF KeyPairs, Deps
<1>3. QED
  BY <1>1, <1>2, PayloadAssumption DEF PayloadAssumption, Deps

LEMMA EntrySound ==
    ASSUME TypeOK, Placed, NEW i \in DOMAIN Deps, Deps[i].kind # "secret",
           NEW j \in DOMAIN data[i],
           Deps[i].kind = "prefix" =>
               \/ data[i][j].key = Blank
               \/ PrefixName(cfg, ConfigOf(cfg, i), data[i][j].key) # Error,
           Deps[i].kind = "service" => ~ServiceFails(ConfigOf(cfg, i), data[i][j])
    PROVE  Sound(EntryWrites(cfg, data, i, j))
<1> DEFINE p == ConfigOf(cfg, i)
           entry == data[i][j]
<1>1. CASE Deps[i].kind = "service"
  <2>1. SUFFICES ASSUME NEW w \in ServiceWrites(cfg, p, entry)
                 PROVE  \E k \in Names, v \in Values :
                            w = <<k, v>> /\ (cfg.sanitize => Sanitized(k) = k)
    BY <1>1 DEF Sound, EntryWrites, Deps
  <2>2. PICK a \in 1..5 : w = <<ServiceClean(cfg, RawName(p, entry.name, a)),
                                entry.vals[Attributes[a]]>>
    BY DEF ServiceWrites
  <2>3. RawName(p, entry.name, a) \in Names /\ entry.vals[Attributes[a]] \in Values
    BY <1>1, PayloadFacts DEF ServiceFails
  <2>4. QED
    BY <2>2, <2>3, CleanName
<1>2. CASE Deps[i].kind = "prefix" /\ entry.key # Blank
  <2>1. EntryWrites(cfg, data, i, j) = {<<PrefixName(cfg, p, entry.key), entry.value>>}
    BY <1>2 DEF EntryWrites, Deps
  <2>2. PrefixRaw(p, entry.key) \in Names /\ entry.value \in Values
    BY <1>2, PayloadFacts DEF PrefixName
  <2>3. PrefixName(cfg, p, entry.key) = Clean(cfg, PrefixRaw(p, entry.key))
    BY <1>2 DEF PrefixName
  <2>4. QED
    BY <2>1, <2>2, <2>3, CleanName DEF Sound
<1>3. CASE Deps[i].kind = "prefix" /\ entry.key = Blank
  BY <1>3 DEF EntryWrites, Deps, Sound
<1>4. QED
  BY <1>1, <1>2, <1>3, DependencyList DEF TypeOK, Deps

LEMMA SecretSound ==
    ASSUME TypeOK, Placed, NEW i \in DOMAIN Deps, Deps[i].kind = "secret",
           NEW kv \in KeyPairs(cfg, data, i),
           Error \notin SecretNames(cfg, ConfigOf(cfg, i), kv.key)
    PROVE  Sound(SecretWrites(cfg, i, kv))
<1> DEFINE p == ConfigOf(cfg, i)
<1>1. SUFFICES ASSUME NEW w \in SecretWrites(cfg, i, kv)
               PROVE  \E k \in Names, v \in Values :
                          w = <<k, v>> /\ (cfg.sanitize => Sanitized(k) = k)
  BY DEF Sound
<1>2. /\ kv.value # Nil /\ kv.value # NotString
      /\ \E k \in SecretNames(cfg, p, kv.key) : w = <<k, kv.value>>
  BY DEF SecretWrites, Considered
<1>3. SecretNames(cfg, p, kv.key) = {SecretName(cfg, p, k) : k \in KeyNames(p, kv.key)}
      /\ Error \notin KeyNames(p, kv.key)
  BY DEF SecretNames
<1>4. PICK k \in KeyNames(p, kv.key) : w = <<SecretName(cfg, p, k), kv.value>>
  BY <1>2, <1>3
<1>5. SecretRaw(p, k) \in Names \cup {Error} /\ kv.value \in Values
  BY <1>2, <1>3, PayloadFacts
<1>6. SecretName(cfg, p, k) # Error
  BY <1>3
<1>7. SecretName(cfg, p, k) = Clean(cfg, SecretRaw(p, k)) /\ SecretRaw(p, k) \in Names
  BY <1>5, <1>6 DEF SecretName
<1>8. QED
  BY <1>4, <1>5, <1>7, CleanName

LEMMA WroteType ==
    ASSUME env \in Envs, NEW W, Sound(W), Wrote(env, env', W),
           \E f : env' = [k \in Names |-> f[k]]
    PROVE  env' \in Envs
<1>1. \A k \in Names : env'[k] \in Values \cup {Unset}
  <2> SUFFICES ASSUME NEW k \in Names PROVE env'[k] \in Values \cup {Unset}
    OBVIOUS
  <2>1. CASE k \in Keys(W)
    BY <2>1 DEF Wrote, Sound
  <2>2. CASE k \notin Keys(W)
    BY <2>2 DEF Wrote, Envs
  <2>3. QED
    BY <2>1, <2>2
<1>2. QED
  BY <1>1 DEF Envs
-----------------------------------------------------------------------------
(* What a step of a loop does                                              *)

GivesUp == Fails(cfg, data, dep) /\ Enter(dep + 1) /\ UNCHANGED env

Writes(W) == Sound(W) /\ Wrote(env, env', W) /\ env' \in Envs

WritesEntry ==
    /\ Deps[dep].kind # "secret"
    /\ item \in DOMAIN data[dep]
    /\ NextItem
    /\ Writes(EntryWrites(cfg, data, dep, item))

WritesSecret(kv) ==
    /\ Deps[dep].kind = "secret"
    /\ rest' = rest \ {kv}
    /\ UNCHANGED <<pc, dep, item>>
    /\ Writes(SecretWrites(cfg, dep, kv))

\* A write of nothing, and of one value under some names.
LEMMA WritesNothing ==
    ASSUME env \in Envs, UNCHANGED env
    PROVE  Writes({})
BY DEF Writes, Sound, Wrote, Keys

LEMMA WritesOne ==
    ASSUME env \in Envs, NEW names, NEW v, Sound({<<k, v>> : k \in names}), Set(names, v)
    PROVE  Writes({<<k, v>> : k \in names})
<1> DEFINE W == {<<k, v>> : k \in names}
<1>1. Keys(W) = names
  <2>1. \A k \in names : <<k, v>> \in W /\ <<k, v>>[1] = k
    OBVIOUS
  <2>2. \A w \in W : w[1] \in names
    OBVIOUS
  <2> HIDE DEF W
  <2>3. Keys(W) \subseteq names
    BY <2>2 DEF Keys
  <2>4. names \subseteq Keys(W)
    BY <2>1, Zenon DEF Keys
  <2>5. QED
    BY <2>3, <2>4
<1>2. \A k \in Names : env'[k] = IF k \in names THEN v ELSE env[k]
  BY DEF Set
<1>3. Wrote(env, env', W)
  BY <1>1, <1>2 DEF Wrote
<1>4. \E f : env' = [k \in Names |-> f[k]]
  <2> DEFINE f == [k \in Names |-> IF k \in names THEN v ELSE env[k]]
  <2>1. env' = [k \in Names |-> f[k]]
    BY DEF Set
  <2>2. QED
    BY <2>1
<1>5. QED
  BY <1>3, <1>4, WroteType DEF Writes

LEMMA AppendsPair ==
    ASSUME TypeInv, AppendPair
    PROVE  GivesUp \/ WritesEntry
<1> USE DEF TypeInv
<1> DEFINE pair == data[dep][item]
           p == ConfigOf(cfg, dep)
           name == PrefixName(cfg, p, pair.key)
<1>1. /\ dep \in DOMAIN Deps /\ Deps[dep].kind = "prefix" /\ item \in DOMAIN data[dep]
      /\ env \in Envs
      /\ cp = p
  BY DEF AppendPair, Placed, Kind, Payload, Deps, TypeOK, Envs, cp
<1>2. CASE pair.key = Blank /\ NextItem /\ UNCHANGED env
  <2>1. EntryWrites(cfg, data, dep, item) = {}
    BY <1>1, <1>2 DEF EntryWrites, Deps
  <2>2. QED
    BY <1>1, <1>2, <2>1, WritesNothing DEF WritesEntry
<1>3. CASE pair.key # Blank /\ name = Error /\ Enter(dep + 1) /\ UNCHANGED env
  BY <1>1, <1>3 DEF GivesUp, Fails, Deps
<1>4. CASE pair.key # Blank /\ name # Error /\ Set({name}, pair.value) /\ NextItem
  <2>1. EntryWrites(cfg, data, dep, item) = {<<k, pair.value>> : k \in {name}}
    BY <1>1, <1>4 DEF EntryWrites, Deps
  <2>2. Sound(EntryWrites(cfg, data, dep, item))
    BY <1>1, <1>4, EntrySound
  <2>3. Writes(EntryWrites(cfg, data, dep, item))
    <3> HIDE DEF name, pair
    <3>1. QED
      BY <1>1, <1>4, <2>1, <2>2, WritesOne
  <2>4. QED
    BY <1>1, <1>4, <2>3 DEF WritesEntry
<1>5. QED
  BY <1>1, <1>2, <1>3, <1>4 DEF AppendPair, Payload

LEMMA AppendsService ==
    ASSUME TypeInv, AppendService
    PROVE  GivesUp \/ WritesEntry
<1> USE DEF TypeInv
<1> DEFINE ser == data[dep][item]
           p == ConfigOf(cfg, dep)
           W == ServiceWrites(cfg, p, ser)
<1>1. /\ dep \in DOMAIN Deps /\ Deps[dep].kind = "service" /\ item \in DOMAIN data[dep]
      /\ env \in Envs
      /\ cp = p
  BY DEF AppendService, Placed, Kind, Payload, Deps, TypeOK, Envs, cp
<1>2. CASE ServiceFails(p, ser) /\ Enter(dep + 1) /\ UNCHANGED env
  BY <1>1, <1>2 DEF GivesUp, Fails, Deps
<1>3. CASE ~ServiceFails(p, ser) /\ env' \in AnyOrder(env, W) /\ NextItem
  <2>1. EntryWrites(cfg, data, dep, item) = W
    BY <1>1, <1>3 DEF EntryWrites, Deps
  <2>2. Sound(EntryWrites(cfg, data, dep, item))
    BY <1>1, <1>3, EntrySound
  <2> HIDE DEF W
  <2>3. PICK g \in {h \in [Keys(W) -> {w[2] : w \in W}] :
                      \A k \in Keys(W) : <<k, h[k]>> \in W} :
            env' = [k \in Names |-> IF k \in Keys(W) THEN g[k] ELSE env[k]]
    BY <1>3 DEF AnyOrder
  <2>4. Wrote(env, env', W)
    BY <2>3 DEF Wrote
  <2>5. \E f : env' = [k \in Names |-> f[k]]
    <3> DEFINE f == [k \in Names |-> IF k \in Keys(W) THEN g[k] ELSE env[k]]
    <3>1. env' = [k \in Names |-> f[k]]
      BY <2>3
    <3>2. QED
      BY <3>1
  <2>6. QED
    BY <1>1, <1>3, <2>1, <2>2, <2>4, <2>5, WroteType DEF Writes, WritesEntry
<1>4. QED
  BY <1>1, <1>2, <1>3 DEF AppendService, Payload

LEMMA AppendsSecret ==
    ASSUME TypeInv, NEW kv \in rest, AppendSecret(kv)
    PROVE  GivesUp \/ WritesSecret(kv)
<1> USE DEF TypeInv
<1> DEFINE p == ConfigOf(cfg, dep)
           names == SecretNames(cfg, p, kv.key)
<1>1. /\ dep \in DOMAIN Deps /\ Deps[dep].kind = "secret" /\ kv \in KeyPairs(cfg, data, dep)
      /\ env \in Envs
      /\ cp = p
  BY DEF AppendSecret, Placed, Kind, Payload, Deps, TypeOK, Envs, cp
<1>2. CASE /\ ~Considered(p, kv) \/ kv.value = NotString
           /\ rest' = rest \ {kv}
           /\ UNCHANGED <<pc, dep, item, env>>
  <2>1. SecretWrites(cfg, dep, kv) = {}
    BY <1>2 DEF SecretWrites
  <2>2. QED
    BY <1>1, <1>2, <2>1, WritesNothing DEF WritesSecret
<1>3. CASE Considered(p, kv) /\ Error \in names /\ Enter(dep + 1) /\ UNCHANGED env
  BY <1>1, <1>3 DEF GivesUp, Fails, Deps
<1>4. CASE /\ Considered(p, kv) /\ Error \notin names /\ kv.value # NotString
           /\ Set(names, kv.value)
           /\ rest' = rest \ {kv}
           /\ UNCHANGED <<pc, dep, item>>
  <2>1. SecretWrites(cfg, dep, kv) = {<<k, kv.value>> : k \in names}
    BY <1>4 DEF SecretWrites
  <2>2. Sound(SecretWrites(cfg, dep, kv))
    BY <1>1, <1>4, SecretSound
  <2>3. Writes(SecretWrites(cfg, dep, kv))
    <3> HIDE DEF names
    <3>1. QED
      BY <1>1, <1>4, <2>1, <2>2, WritesOne
  <2>4. QED
    BY <1>1, <1>4, <2>3 DEF WritesSecret
<1>5. QED
  BY <1>1, <1>2, <1>3, <1>4 DEF AppendSecret

LEMMA Appends ==
    ASSUME TypeInv, AppendPair \/ AppendService \/ \E kv \in rest : AppendSecret(kv)
    PROVE  /\ pc = "append" /\ dep \in DOMAIN Deps
           /\ UNCHANGED <<cfg, data, last, run, cmdEnv>>
           /\ GivesUp \/ WritesEntry \/ \E kv \in rest : WritesSecret(kv)
<1>1. pc = "append" /\ UNCHANGED <<cfg, data, last, run, cmdEnv>>
  BY DEF AppendPair, AppendService, AppendSecret
<1>2. QED
  BY <1>1, AppendsPair, AppendsService, AppendsSecret DEF TypeInv, Placed
-----------------------------------------------------------------------------
(* Type correctness                                                        *)

LEMMA Entered ==
    ASSUME cfg \in Configs, DOMAIN data = DOMAIN Deps,
           \A j \in DOMAIN data : data[j] \in Payloads(Deps[j]),
           NEW i \in 1..Len(Deps) + 1, Enter(i), UNCHANGED <<cfg, data, run>>,
           run < Runs
    PROVE  /\ Placed' /\ dep' \in 1..Len(Deps) + 1 /\ item' \in Nat
           /\ pc' \in {"append", "compare"}
<1>1. /\ dep' = i /\ item' = 1 /\ rest' = KeyPairs(cfg, data, i)
      /\ pc' = IF i \in DOMAIN data THEN "append" ELSE "compare"
  BY DEF Enter
<1>2. DOMAIN Deps = 1..Len(Deps) /\ Len(Deps) \in Nat
  BY DependencyList DEF Deps
<1>3. i \in DOMAIN data => Len(data[i]) \in Nat
  BY PayloadAssumption DEF PayloadAssumption, Deps
<1>4. Deps' = Deps /\ KeyPairs(cfg, data, dep)' = KeyPairs(cfg, data, i)
  BY <1>1 DEF Deps, KeyPairs
<1>5. Kind' = Deps[i].kind /\ Payload' = data[i]
  BY <1>1 DEF Kind, Payload, Deps
<1>6. pc' = "append" => i \in DOMAIN Deps
  BY <1>1
<1>7. pc' = "compare" => i = Len(Deps) + 1
  BY <1>1, <1>2
<1>8. Placed'
  BY <1>1, <1>3, <1>4, <1>5, <1>6, <1>7 DEF Placed
<1>9. QED
  BY <1>1, <1>8

LEMMA TypeInit == Init => TypeInv
<1> SUFFICES ASSUME Init PROVE TypeInv
  OBVIOUS
<1>1. /\ cfg \in Configs /\ DOMAIN data = DOMAIN Deps
      /\ \A j \in DOMAIN data : data[j] \in Payloads(Deps[j])
  BY DEF Init, Deps
<1>2. DOMAIN Deps = 1..Len(Deps) /\ Len(Deps) \in Nat
  BY <1>1, DependencyList DEF Deps
<1>3. 1 \in DOMAIN data => Len(data[1]) \in Nat
  BY <1>1, PayloadAssumption DEF PayloadAssumption, Deps
<1>4. /\ pc = IF 1 \in DOMAIN data THEN "append" ELSE "compare"
      /\ dep = 1 /\ item = 1 /\ rest = KeyPairs(cfg, data, 1) /\ env = EmptyEnv
      /\ last = Nil /\ run = 0 /\ cmdEnv = EmptyEnv
  BY DEF Init
<1>5. Placed
  BY <1>1, <1>2, <1>3, <1>4, EnvironmentAssumption DEF Placed, Payload, EnvironmentAssumption
<1>6. EmptyEnv \in Envs
  BY DEF EmptyEnv, Envs
<1>7. TypeOK
  BY <1>1, <1>2, <1>4, <1>6, EnvironmentAssumption DEF TypeOK, Deps, Envs, EnvironmentAssumption
<1>8. QED
  BY <1>5, <1>7 DEF TypeInv

\* The child's environment is one.
LEMMA ChildEnv ==
    ASSUME TypeInv, pc = "child"
    PROVE  applyConfigEnv(cfg, Inherited(cfg, last)) \in Envs
<1>1. cfg.custom \in Envs /\ OsEnv \in Envs
  BY ConfigAssumption, EnvironmentAssumption
  DEF TypeInv, TypeOK, ConfigAssumption, EnvironmentAssumption, Envs
<1>2. Inherited(cfg, last) \in Envs
  BY <1>1 DEF Inherited, Envs, TypeInv, TypeOK, Placed
<1>3. QED
  BY <1>1, <1>2 DEF applyConfigEnv, Envs

LEMMA TypeNext == TypeInv /\ [Next]_vars => TypeInv'
<1> SUFFICES ASSUME TypeInv, [Next]_vars PROVE TypeInv'
  OBVIOUS
<1>1. /\ cfg \in Configs /\ DOMAIN data = DOMAIN Deps
      /\ \A j \in DOMAIN data : data[j] \in Payloads(Deps[j])
      /\ DOMAIN Deps = 1..Len(Deps) /\ Len(Deps) \in Nat
      /\ run \in 0..Runs /\ Runs \in Nat /\ (pc # "done" => run < Runs)
  BY DependencyList, EnvironmentAssumption
  DEF TypeInv, TypeOK, Placed, Deps, EnvironmentAssumption
<1>2. ASSUME AppendPair \/ AppendService \/ \E kv \in rest : AppendSecret(kv)
      PROVE  TypeInv'
  <2>1. /\ pc = "append" /\ dep \in DOMAIN Deps
        /\ UNCHANGED <<cfg, data, last, run, cmdEnv>>
        /\ GivesUp \/ WritesEntry \/ \E kv \in rest : WritesSecret(kv)
    BY <1>2, Appends
  <2>2. CASE GivesUp
    <3>1. dep + 1 \in 1..Len(Deps) + 1
      BY <1>1, <2>1
    <3>2. /\ Placed' /\ dep' \in 1..Len(Deps) + 1 /\ item' \in Nat
          /\ pc' \in {"append", "compare"}
      BY <1>1, <2>1, <2>2, <3>1, Entered DEF GivesUp
    <3>3. QED
      BY <2>1, <2>2, <3>2 DEF GivesUp, TypeInv, TypeOK, Deps
  <2>3. CASE WritesEntry
    <3>1. /\ item \in DOMAIN data[dep] /\ item' = item + 1 /\ env' \in Envs
          /\ UNCHANGED <<pc, dep, rest>> /\ Deps[dep].kind # "secret"
      BY <2>3 DEF WritesEntry, NextItem, Writes
    <3>2. DOMAIN data[dep] = 1..Len(data[dep]) /\ Len(data[dep]) \in Nat
      BY <2>1, PayloadFacts DEF TypeInv
    <3>3. Kind' = Kind /\ Payload' = Payload /\ Deps' = Deps
      BY <2>1, <3>1 DEF Kind, Payload, Deps
    <3>4. Placed'
      BY <1>1, <2>1, <3>1, <3>2, <3>3 DEF TypeInv, Placed, Payload, Kind, Deps
    <3>5. QED
      BY <2>1, <3>1, <3>2, <3>4 DEF TypeInv, TypeOK, Envs
  <2>4. ASSUME NEW kv \in rest, WritesSecret(kv) PROVE TypeInv'
    <3>1. /\ rest' = rest \ {kv} /\ env' \in Envs
          /\ UNCHANGED <<pc, dep, item>> /\ Deps[dep].kind = "secret"
      BY <2>4 DEF WritesSecret, Writes
    <3>2. /\ Kind' = Kind /\ Payload' = Payload /\ Deps' = Deps
          /\ KeyPairs(cfg, data, dep)' = KeyPairs(cfg, data, dep)
      BY <2>1, <3>1 DEF Kind, Payload, Deps, KeyPairs
    <3>3. Placed'
      BY <1>1, <2>1, <3>1, <3>2 DEF TypeInv, Placed
    <3>4. QED
      BY <2>1, <3>1, <3>3 DEF TypeInv, TypeOK, Envs
  <2>5. QED
    BY <2>1, <2>2, <2>3, <2>4
<1>3. CASE NextDependency
  <2>1. /\ dep + 1 \in 1..Len(Deps) + 1 /\ pc = "append" /\ Enter(dep + 1)
        /\ UNCHANGED <<cfg, data, env, last, run, cmdEnv>>
    BY <1>1, <1>3 DEF NextDependency, TypeInv, Placed
  <2>2. QED
    BY <1>1, <2>1, Entered DEF TypeInv, TypeOK, Deps
<1>4. CASE Same \/ New \/ BuildChildEnv
  <2>1. /\ UNCHANGED <<cfg, data, dep, item, env>> /\ pc' \in {"child", "done"}
        /\ run' \in {run, run + 1} /\ run' <= Runs
        /\ (pc' = "child" => run' < Runs)
        /\ last' \in {last, env} /\ (pc' = "child" => last' = env')
    BY <1>1, <1>4 DEF Same, New, BuildChildEnv, TypeInv, Placed
  <2>2. cmdEnv' \in Envs
    BY <1>4, ChildEnv DEF Same, New, BuildChildEnv, TypeInv, TypeOK, Envs
  <2>3. Deps' = Deps
    BY <2>1 DEF Deps
  <2>4. Placed'
    BY <1>1, <2>1, <2>3 DEF Placed
  <2>5. run' \in 0..Runs /\ pc' \in {"append", "compare", "child", "done"}
    BY <1>1, <2>1
  <2>6. TypeOK'
    BY <1>1, <2>1, <2>2, <2>5 DEF TypeInv, TypeOK, Envs
  <2>7. QED
    BY <2>4, <2>6 DEF TypeInv
<1>6. CASE RunAgain
  <2>1. 1 \in 1..Len(Deps) + 1 /\ EmptyEnv \in Envs
    BY <1>1 DEF EmptyEnv, Envs
  <2>2. QED
    BY <1>1, <1>6, <2>1, Entered DEF RunAgain, TypeInv, TypeOK, Envs, Deps
<1>5. CASE UNCHANGED vars
  BY <1>5 DEF vars, TypeInv, TypeOK, Placed, Deps, Kind, Payload, KeyPairs
<1>8. QED
  BY <1>2, <1>3, <1>4, <1>5, <1>6 DEF Next, Finished

\* Run keeps its place in the dependencies and what it compiles is an environment.
THEOREM TypeCorrect == Spec => []TypeOK
<1>1. TypeInv => TypeOK
  BY DEF TypeInv
<1>2. QED
  BY <1>1, TypeInit, TypeNext, PTL DEF Spec
-----------------------------------------------------------------------------
(* What reaches the child                                                  *)

\* The child was built from the last environment that was new.
Built ==
    /\ pc # "child" /\ last # Nil => cmdEnv = applyConfigEnv(cfg, Inherited(cfg, last))
    /\ pc = "done" => last = env

LEMMA BuiltInit == Init => Built
BY DEF Init, Built

LEMMA BuiltNext == TypeInv /\ Built /\ [Next]_vars => Built'
<1> SUFFICES ASSUME TypeInv, Built, [Next]_vars PROVE Built'
  OBVIOUS
<1>1. ASSUME UNCHANGED <<cfg, last, cmdEnv>>, pc # "child", pc' # "done"
      PROVE  Built'
  BY <1>1 DEF Built
<1>2. \A i : Enter(i) => pc' # "done"
  BY DEF Enter
<1>3. ASSUME AppendPair \/ AppendService \/ \E kv \in rest : AppendSecret(kv)
      PROVE  Built'
  <2>1. /\ pc = "append" /\ UNCHANGED <<cfg, last, cmdEnv>>
        /\ GivesUp \/ WritesEntry \/ \E kv \in rest : WritesSecret(kv)
    BY <1>3, Appends
  <2>2. pc' # "done"
    BY <1>2, <2>1 DEF GivesUp, WritesEntry, WritesSecret, NextItem
  <2>3. QED
    BY <1>1, <2>1, <2>2
<1>4. CASE NextDependency
  BY <1>1, <1>2, <1>4 DEF NextDependency
<1>5. CASE Same
  BY <1>5 DEF Same, Built
<1>6. CASE New
  BY <1>6 DEF New, Built
<1>7. CASE BuildChildEnv
  BY <1>7 DEF BuildChildEnv, Built, TypeInv, Placed
<1>8. CASE RunAgain
  BY <1>1, <1>2, <1>8 DEF RunAgain
<1>9. CASE UNCHANGED vars
  BY <1>9 DEF vars, Built
<1>10. QED
  BY <1>3, <1>4, <1>5, <1>6, <1>7, <1>8, <1>9 DEF Next, Finished

\* Custom variables always reach the child; anything else reaches it only past
\* pristine, denylist and allowlist, with the value that was compiled, or without
\* -pristine the inherited one, however often Run is called.
THEOREM Lists == Spec => []ListsDecide
<1>1. TypeInv /\ Built => ListsDecide
  <2>1. SUFFICES ASSUME TypeInv, Built, pc = "done", NEW k \in Names
                 PROVE  IF cfg.custom[k] # Unset THEN cmdEnv[k] = cfg.custom[k]
                        ELSE cmdEnv[k] # Unset =>
                            /\ ~cfg.envPristine
                            /\ ~AnyGlobMatch(k, cfg.denylist \cup cfg.denylistDeprecated)
                            /\ \/ cfg.allowlist \cup cfg.allowlistDeprecated = {}
                               \/ AnyGlobMatch(k, cfg.allowlist \cup cfg.allowlistDeprecated)
                            /\ cmdEnv[k] = IF env[k] # Unset THEN env[k] ELSE OsEnv[k]
                            /\ cfg.pristine => env[k] # Unset
    BY DEF ListsDecide
  <2>2. last = env /\ env \in Envs
    BY <2>1 DEF Built, TypeInv, TypeOK, Envs
  <2>3. cmdEnv = applyConfigEnv(cfg, Inherited(cfg, env))
    BY <2>1, <2>2, EnvironmentAssumption DEF Built, EnvironmentAssumption, Envs
  <2>4. Inherited(cfg, env)[k] = IF env[k] # Unset \/ cfg.pristine THEN env[k] ELSE OsEnv[k]
    BY DEF Inherited
  <2> DEFINE allowed == cfg.allowlist \cup cfg.allowlistDeprecated
             denied == cfg.denylist \cup cfg.denylistDeprecated
             kept == {n \in {m \in Names : allowed = {} \/ AnyGlobMatch(m, allowed)} :
                          ~AnyGlobMatch(n, denied)}
  <2>5. cmdEnv[k] = IF cfg.custom[k] # Unset THEN cfg.custom[k]
                    ELSE IF cfg.envPristine \/ k \notin kept THEN Unset
                    ELSE Inherited(cfg, env)[k]
    BY <2>3 DEF applyConfigEnv
  <2>6. k \in kept => /\ allowed = {} \/ AnyGlobMatch(k, allowed)
                      /\ ~AnyGlobMatch(k, denied)
    OBVIOUS
  <2> HIDE DEF allowed, denied, kept
  <2>7. QED
    BY <2>4, <2>5, <2>6 DEF allowed, denied
<1>2. QED
  BY <1>1, TypeInit, TypeNext, BuiltInit, BuiltNext, PTL DEF Spec
-----------------------------------------------------------------------------
(* Clean names                                                             *)

CleanEnv == cfg.sanitize => \A k \in Names : env[k] # Unset => Sanitized(k) = k

LEMMA CleanInit == Init => CleanEnv
BY DEF Init, CleanEnv, EmptyEnv

LEMMA CleanWrite ==
    ASSUME CleanEnv, NEW W, Writes(W), UNCHANGED cfg
    PROVE  CleanEnv'
<1>1. \A k \in Keys(W) : cfg.sanitize => Sanitized(k) = k
  BY DEF Keys, Writes, Sound
<1>2. \A k \in Names : k \notin Keys(W) => env'[k] = env[k]
  BY DEF Writes, Wrote
<1>3. QED
  BY <1>1, <1>2 DEF CleanEnv

LEMMA CleanNext == TypeInv /\ CleanEnv /\ [Next]_vars => CleanEnv'
<1> SUFFICES ASSUME TypeInv, CleanEnv, [Next]_vars PROVE CleanEnv'
  OBVIOUS
<1>1. CASE UNCHANGED <<cfg, env>>
  BY <1>1 DEF CleanEnv
<1>2. ASSUME AppendPair \/ AppendService \/ \E kv \in rest : AppendSecret(kv)
      PROVE  CleanEnv'
  <2>1. /\ UNCHANGED cfg
        /\ GivesUp \/ WritesEntry \/ \E kv \in rest : WritesSecret(kv)
    BY <1>2, Appends
  <2>2. CASE GivesUp
    BY <1>1, <2>1, <2>2 DEF GivesUp
  <2>3. CASE WritesEntry
    BY <2>1, <2>3, CleanWrite DEF WritesEntry
  <2>4. ASSUME NEW kv \in rest, WritesSecret(kv) PROVE CleanEnv'
    BY <2>1, <2>4, CleanWrite DEF WritesSecret
  <2>5. QED
    BY <2>1, <2>2, <2>3, <2>4
<1>3. CASE RunAgain
  BY <1>3 DEF RunAgain, CleanEnv, EmptyEnv
<1>4. QED
  BY <1>1, <1>2, <1>3 DEF Next, NextDependency, Same, New, BuildChildEnv, Finished, vars

\* With sanitize every name that Run compiles is clean, whatever formats and paths
\* add and whichever of two names a service or a secret writes last.
THEOREM NamesClean == Spec => []SanitizedNames
<1>1. CleanEnv => SanitizedNames
  BY DEF CleanEnv, SanitizedNames
<1>2. QED
  BY <1>1, TypeInit, TypeNext, CleanInit, CleanNext, PTL DEF Spec
-----------------------------------------------------------------------------
(* Which block decides a variable                                          *)

LEMMA LastStep ==
    ASSUME NEW i, NEW n \in Nat \ {0}
    PROVE  \A w : w \in LastOf(cfg, data, i, n) <=>
               \/ w \in EntryWrites(cfg, data, i, n)
               \/ /\ w \in LastOf(cfg, data, i, n - 1)
                  /\ w[1] \notin Keys(EntryWrites(cfg, data, i, n))
<1>1. \A w, m : m \in Nat =>
          (w \in LastOf(cfg, data, i, m) <=>
              \E j \in 1..m : /\ w \in EntryWrites(cfg, data, i, j)
                              /\ \A l \in (j + 1)..m :
                                     w[1] \notin Keys(EntryWrites(cfg, data, i, l)))
  BY DEF LastOf
<1>2. QED
  BY <1>1

\* What the loop has left behind of the dependency Run is at.
Partial ==
    IF Deps[dep].kind = "secret"
    THEN UNION {SecretWrites(cfg, dep, kv) : kv \in KeyPairs(cfg, data, dep) \ rest}
    ELSE LastOf(cfg, data, dep, item - 1)

\* The writes W are the latest of it.
Grows(W) ==
    /\ W \subseteq Partial'
    /\ \A w : w[1] \notin Keys(W) => (w \in Partial' <=> w \in Partial)

\* A step of a loop ends it, or writes something.
LEMMA LoopStep ==
    ASSUME TypeInv, AppendPair \/ AppendService \/ \E kv \in rest : AppendSecret(kv)
    PROVE  /\ pc = "append" /\ dep \in DOMAIN Deps /\ UNCHANGED <<cfg, data>>
           /\ \/ GivesUp
              \/ UNCHANGED <<pc, dep>> /\ \E W : Writes(W) /\ Grows(W)
<1>1. /\ pc = "append" /\ dep \in DOMAIN Deps /\ UNCHANGED <<cfg, data>>
      /\ GivesUp \/ WritesEntry \/ \E kv \in rest : WritesSecret(kv)
  BY Appends
<1>2. Deps' = Deps
  BY <1>1 DEF Deps
<1>3. CASE WritesEntry
  <2> DEFINE W == EntryWrites(cfg, data, dep, item)
  <2>1. /\ Deps[dep].kind # "secret" /\ item' = item + 1 /\ item \in Nat \ {0}
        /\ UNCHANGED <<pc, dep>> /\ Writes(W)
    BY <1>1, <1>3, PayloadFacts DEF WritesEntry, NextItem, TypeInv
  <2>3. Partial' = LastOf(cfg, data, dep, item)
    <3>1. item' - 1 = item
      BY <2>1
    <3>2. QED
      BY <1>1, <1>2, <2>1, <3>1 DEF Partial
  <2>4. Partial = LastOf(cfg, data, dep, item - 1)
    BY <2>1 DEF Partial
  <2>5. Grows(W)
    BY <2>1, <2>3, <2>4, LastStep DEF Grows, Keys
  <2>6. QED
    BY <1>1, <2>1, <2>5
<1>4. ASSUME NEW kv \in rest, WritesSecret(kv)
      PROVE  UNCHANGED <<pc, dep>> /\ \E W : Writes(W) /\ Grows(W)
  <2> DEFINE W == SecretWrites(cfg, dep, kv)
             K == KeyPairs(cfg, data, dep)
  <2>1. /\ Deps[dep].kind = "secret" /\ rest' = rest \ {kv} /\ kv \in K
        /\ UNCHANGED <<pc, dep>> /\ Writes(W)
    BY <1>1, <1>4 DEF WritesSecret, TypeInv, Placed, Kind, Deps
  <2>3. KeyPairs(cfg, data, dep)' = K
    BY <1>1, <2>1
  <2>4. \A w : w \in Partial' <=> \E x \in K \ rest' : w \in SecretWrites(cfg, dep, x)
    BY <1>1, <1>2, <2>1, <2>3 DEF Partial
  <2>5. \A w : w \in Partial <=> \E x \in K \ rest : w \in SecretWrites(cfg, dep, x)
    BY <2>1 DEF Partial
  <2>6. \A w : w \in Partial' <=> w \in Partial \/ w \in W
    BY <2>1, <2>4, <2>5
  <2>7. Grows(W)
    BY <2>6 DEF Grows, Keys
  <2>8. QED
    BY <2>1, <2>7
<1>5. QED
  BY <1>1, <1>3, <1>4

\* A set of places of a list has a last one.
LEMMA LastExists ==
    ASSUME NEW n \in Nat, NEW I \in SUBSET (1..n), I # {}
    PROVE  \E i \in I : \A j \in I : j <= i
<1> DEFINE T == {n - i : i \in I}
<1>1. T \subseteq Nat /\ T # {}
  <2>1. \A i \in I : n - i \in Nat
    OBVIOUS
  <2>2. PICK i : i \in I
    OBVIOUS
  <2>3. n - i \in T
    BY <2>2
  <2>4. QED
    BY <2>1, <2>3
<1>2. PICK d \in T : \A m \in T : ~ (<<m, d>> \in OpToRel(<, Nat))
  BY <1>1, WFMin, NatLessThanWellFounded, Zenon
<1>3. \A m \in T : ~(m < d)
  BY <1>1, <1>2, Zenon DEF OpToRel
<1>4. PICK i \in I : d = n - i
  OBVIOUS
<1>5. ASSUME NEW j \in I PROVE j <= i
  <2>1. n - j \in T
    OBVIOUS
  <2>2. ~(n - j < n - i)
    BY <1>3, <1>4, <2>1
  <2>3. QED
    BY <2>2
<1>6. QED
  BY <1>5

\* Each name an entry yields is a name that some entry, the last, leaves.
LEMMA LeavesAll ==
    ASSUME NEW i, NEW n \in Nat, NEW j \in 1..n, NEW k \in Keys(EntryWrites(cfg, data, i, j))
    PROVE  k \in Keys(LastOf(cfg, data, i, n))
<1> DEFINE I == {l \in 1..n : k \in Keys(EntryWrites(cfg, data, i, l))}
<1>1. PICK l \in I : \A m \in I : m <= l
  BY LastExists
<1>2. PICK w \in EntryWrites(cfg, data, i, l) : k = w[1]
  BY DEF Keys
<1>3. \A m \in (l + 1)..n : w[1] \notin Keys(EntryWrites(cfg, data, i, m))
  BY <1>1, <1>2
<1>4. w \in LastOf(cfg, data, i, n)
  BY <1>2, <1>3 DEF LastOf
<1>5. QED
  BY <1>2, <1>4 DEF Keys

\* A loop, ended or not, has written no name that its dependency does not leave.
LEMMA PartialNames ==
    ASSUME TypeInv, pc = "append"
    PROVE  Keys(Partial) \subseteq Keys(Leaves(cfg, data, dep))
<1>1. dep \in DOMAIN Deps
  BY DEF TypeInv, Placed
<1>2. CASE Deps[dep].kind = "secret"
  <2>1. Partial \subseteq Leaves(cfg, data, dep)
    BY <1>2 DEF Partial, Leaves, Deps
  <2>2. QED
    BY <2>1 DEF Keys
<1>3. CASE Deps[dep].kind # "secret"
  <2> DEFINE n == Len(data[dep])
  <2>1. n \in Nat /\ item - 1 \in 0..n
    BY <1>1, <1>3, PayloadFacts DEF TypeInv, Placed, Payload, Kind, Deps
  <2>2. /\ Partial = LastOf(cfg, data, dep, item - 1)
        /\ Leaves(cfg, data, dep) = LastOf(cfg, data, dep, n)
    BY <1>3 DEF Partial, Leaves, Deps
  <2> HIDE DEF n
  <2>3. ASSUME NEW k \in Keys(Partial) PROVE k \in Keys(LastOf(cfg, data, dep, n))
    <3>1. PICK w \in Partial : k = w[1]
      BY <2>3 DEF Keys
    <3>2. PICK j \in 1..(item - 1) : w \in EntryWrites(cfg, data, dep, j)
      BY <2>2 DEF LastOf
    <3>3. j \in 1..n /\ k \in Keys(EntryWrites(cfg, data, dep, j))
      BY <2>1, <3>1, <3>2 DEF Keys
    <3>4. QED
      BY <2>1, <3>3, LeavesAll
  <2>4. QED
    BY <2>2, <2>3
<1>4. QED
  BY <1>2, <1>3

\* At the end of its loop a dependency has left all it leaves.
LEMMA LoopEnd ==
    ASSUME TypeInv, NextDependency
    PROVE  /\ pc = "append" /\ dep \in DOMAIN Deps
           /\ Enter(dep + 1) /\ UNCHANGED <<cfg, data, env>>
           /\ Partial = Leaves(cfg, data, dep)
<1>1. /\ pc = "append" /\ dep \in DOMAIN Deps
      /\ Enter(dep + 1) /\ UNCHANGED <<cfg, data, env>>
      /\ IF Deps[dep].kind = "secret" THEN rest = {} ELSE item \notin DOMAIN data[dep]
  BY DEF NextDependency, TypeInv, Placed, Kind, Payload, Deps
<1>2. CASE Deps[dep].kind = "secret"
  BY <1>1, <1>2 DEF Partial, Leaves, Deps
<1>3. CASE Deps[dep].kind # "secret"
  <2>1. item - 1 = Len(data[dep])
    BY <1>1, <1>3, PayloadFacts DEF TypeInv, Placed, Payload, Kind, Deps
  <2>2. QED
    BY <1>1, <1>3, <2>1 DEF Partial, Leaves, Deps
<1>4. QED
  BY <1>1, <1>2, <1>3

\* A dependency that Run comes to has left nothing.
LEMMA LoopStart ==
    ASSUME NEW i, Enter(i), UNCHANGED <<cfg, data>>, DOMAIN data = DOMAIN Deps
    PROVE  /\ dep' = i /\ (pc' = "append" => i \in DOMAIN Deps) /\ pc' \in {"append", "compare"}
           /\ Partial' = {}
<1>1. /\ dep' = i /\ item' = 1 /\ rest' = KeyPairs(cfg, data, i)
      /\ pc' = IF i \in DOMAIN data THEN "append" ELSE "compare"
  BY DEF Enter
<1>2. LastOf(cfg, data, i, 0)' = {} /\ KeyPairs(cfg, data, dep)' = rest' /\ Deps' = Deps
  BY <1>1 DEF LastOf, Deps
<1>3. Partial' = {}
  BY <1>1, <1>2 DEF Partial
<1>4. QED
  BY <1>1, <1>3

\* Of the first n dependencies, the last that leaves k decides its value in e, if no
\* template of it fails.
DecidedIn(c, d, e, k, n) ==
    \/ e[k] = Unset /\ \A i \in 1..n : k \notin Keys(Leaves(c, d, i))
    \/ \E j \in 1..n :
           /\ k \in Keys(Leaves(c, d, j))
           /\ Fails(c, d, j) \/ <<k, e[k]>> \in Leaves(c, d, j)
           /\ \A i \in (j + 1)..n : k \notin Keys(Leaves(c, d, i))

\* Of the dependencies before the one Run is at, the last that leaves a variable
\* decides it, unless the loop of the current one has already written it.
BottomInv ==
    pc \in {"append", "compare"} =>
        \A k \in Names :
            \/ pc = "append" /\ <<k, env[k]>> \in Partial
            \/ /\ pc = "append" => k \notin Keys(Partial)
               /\ DecidedIn(cfg, data, env, k, dep - 1)

LEMMA BottomStart ==
    ASSUME Enter(1), UNCHANGED <<cfg, data>>, DOMAIN data = DOMAIN Deps, env' = EmptyEnv
    PROVE  BottomInv'
<1>1. dep' - 1 = 0 /\ Keys(Partial)' = {}
  BY LoopStart DEF Keys
<1>2. \A k \in Names : DecidedIn(cfg, data, env', k, 0)
  BY DEF DecidedIn, EmptyEnv
<1>3. QED
  BY <1>1, <1>2 DEF BottomInv

LEMMA BottomInit == Init => BottomInv
<1> SUFFICES ASSUME Init PROVE BottomInv
  OBVIOUS
<1>1. dep - 1 = 0 /\ item - 1 = 0 /\ rest = KeyPairs(cfg, data, dep)
  BY DEF Init
<1>2. Keys(Partial) = {}
  BY <1>1 DEF Partial, LastOf, Keys
<1>3. \A k \in Names : DecidedIn(cfg, data, env, k, 0)
  BY DEF DecidedIn, EmptyEnv, Init
<1>4. QED
  BY <1>1, <1>2, <1>3 DEF BottomInv

LEMMA BottomLoop ==
    ASSUME TypeInv, BottomInv, AppendPair \/ AppendService \/ \E kv \in rest : AppendSecret(kv)
    PROVE  BottomInv'
<1>1. /\ pc = "append" /\ dep \in DOMAIN Deps /\ UNCHANGED <<cfg, data>> /\ dep \in Nat \ {0}
      /\ GivesUp \/ (UNCHANGED <<pc, dep>> /\ \E W : Writes(W) /\ Grows(W))
  BY LoopStep DEF TypeInv, TypeOK
<1>2. CASE GivesUp
  <2>1. Fails(cfg, data, dep) /\ Enter(dep + 1) /\ UNCHANGED env
    BY <1>2 DEF GivesUp
  <2>2. dep' - 1 = dep /\ Keys(Partial)' = {}
    <3>1. dep' = dep + 1 /\ Partial' = {}
      BY <1>1, <2>1, LoopStart DEF TypeInv, TypeOK, Deps
    <3>2. QED
      BY <1>1, <3>1 DEF Keys
  <2>3. ASSUME NEW k \in Names
        PROVE  DecidedIn(cfg, data, env, k, dep)
    <3>1. CASE k \in Keys(Leaves(cfg, data, dep))
      BY <1>1, <2>1, <3>1 DEF DecidedIn
    <3>2. CASE k \notin Keys(Leaves(cfg, data, dep))
      <4>1. k \notin Keys(Partial) /\ <<k, env[k]>> \notin Partial
        <5>1. k \notin Keys(Partial)
          BY <1>1, <3>2, PartialNames
        <5>2. QED
          BY <5>1 DEF Keys
      <4>2. DecidedIn(cfg, data, env, k, dep - 1)
        BY <1>1, <4>1 DEF BottomInv
      <4>3. QED
        BY <1>1, <3>2, <4>2 DEF DecidedIn
    <3>3. QED
      BY <3>1, <3>2
  <2>4. QED
    BY <1>1, <2>1, <2>2, <2>3 DEF BottomInv
<1>3. ASSUME UNCHANGED <<pc, dep>>, NEW W, Writes(W), Grows(W), NEW k \in Names
      PROVE  \/ <<k, env'[k]>> \in Partial'
             \/ k \notin Keys(Partial)' /\ DecidedIn(cfg, data, env', k, dep - 1)
  <2>1. CASE k \in Keys(W)
    BY <1>3, <2>1 DEF Writes, Wrote, Grows
  <2>2. CASE k \notin Keys(W)
    <3>1. env'[k] = env[k]
      BY <1>3, <2>2 DEF Writes, Wrote
    <3>2. /\ <<k, env[k]>> \in Partial' <=> <<k, env[k]>> \in Partial
          /\ k \in Keys(Partial)' <=> k \in Keys(Partial)
      BY <1>3, <2>2 DEF Grows, Keys
    <3>3. \/ <<k, env[k]>> \in Partial
          \/ k \notin Keys(Partial) /\ DecidedIn(cfg, data, env, k, dep - 1)
      BY <1>1, <1>3 DEF BottomInv
    <3>4. DecidedIn(cfg, data, env, k, dep - 1) <=> DecidedIn(cfg, data, env', k, dep - 1)
      BY <3>1 DEF DecidedIn
    <3>5. QED
      BY <3>1, <3>2, <3>3, <3>4
  <2>3. QED
    BY <2>1, <2>2
<1>4. QED
  BY <1>1, <1>2, <1>3 DEF BottomInv

LEMMA BottomEnd ==
    ASSUME TypeInv, BottomInv, NextDependency
    PROVE  BottomInv'
<1>1. /\ pc = "append" /\ dep \in DOMAIN Deps /\ dep \in Nat \ {0}
      /\ Enter(dep + 1) /\ UNCHANGED <<cfg, data, env>> /\ Partial = Leaves(cfg, data, dep)
  BY LoopEnd DEF TypeInv, TypeOK
<1>2. dep' - 1 = dep /\ Keys(Partial)' = {}
  <2>1. dep' = dep + 1 /\ Partial' = {}
    BY <1>1, LoopStart DEF TypeInv, TypeOK, Deps
  <2>2. QED
    BY <1>1, <2>1 DEF Keys
<1>3. SUFFICES ASSUME NEW k \in Names PROVE DecidedIn(cfg, data, env, k, dep)
  BY <1>1, <1>2 DEF BottomInv
<1>4. \/ <<k, env[k]>> \in Leaves(cfg, data, dep)
      \/ /\ k \notin Keys(Leaves(cfg, data, dep))
         /\ DecidedIn(cfg, data, env, k, dep - 1)
  BY <1>1, <1>3 DEF BottomInv
<1>5. CASE <<k, env[k]>> \in Leaves(cfg, data, dep)
  <2>1. k \in Keys(Leaves(cfg, data, dep))
    BY <1>5 DEF Keys
  <2>2. QED
    BY <1>1, <1>5, <2>1 DEF DecidedIn
<1>6. CASE /\ k \notin Keys(Leaves(cfg, data, dep))
           /\ DecidedIn(cfg, data, env, k, dep - 1)
  BY <1>1, <1>6 DEF DecidedIn
<1>7. QED
  BY <1>4, <1>5, <1>6

LEMMA BottomNext == TypeInv /\ BottomInv /\ [Next]_vars => BottomInv'
<1> SUFFICES ASSUME TypeInv, BottomInv, [Next]_vars PROVE BottomInv'
  OBVIOUS
<1>1. CASE RunAgain
  BY <1>1, BottomStart DEF RunAgain, TypeInv, TypeOK, Deps
<1>2. CASE Same \/ New \/ BuildChildEnv
  <2>1. pc' \notin {"append", "compare"}
    BY <1>2 DEF Same, New, BuildChildEnv
  <2>2. QED
    BY <2>1 DEF BottomInv
<1>3. CASE UNCHANGED vars
  BY <1>3 DEF vars, BottomInv, Partial, Deps
<1>4. QED
  BY <1>1, <1>2, <1>3, BottomLoop, BottomEnd DEF Next, Finished

\* The bottom-most block that yields a variable decides it, for every list of blocks
\* and whatever fails elsewhere: the last entry of a list, some entry of a map.
THEOREM BottomMost == Spec => []BottomMostWins
<1>1. TypeInv /\ BottomInv => BottomMostWins
  <2> DEFINE js(k) == {i \in DOMAIN data : k \in Keys(Leaves(cfg, data, i))}
             n == Len(Deps)
  <2> SUFFICES ASSUME TypeInv, BottomInv, pc = "compare", NEW k \in Names
               PROVE  IF js(k) = {} THEN env[k] = Unset
                      ELSE \E j \in js(k) :
                             /\ \A i \in js(k) : i <= j
                             /\ Fails(cfg, data, j) \/ <<k, env[k]>> \in Leaves(cfg, data, j)
    BY DEF BottomMostWins
  <2>1. dep - 1 = n /\ DOMAIN data = 1..n /\ n \in Nat
    BY DependencyList DEF TypeInv, TypeOK, Placed, Deps
  <2>2. DecidedIn(cfg, data, env, k, n)
    BY <2>1 DEF BottomInv
  <2> HIDE DEF n
  <2>3. QED
    BY <2>1, <2>2 DEF DecidedIn
<1>2. QED
  BY <1>1, TypeInit, TypeNext, BottomInit, BottomNext, PTL DEF Spec
-----------------------------------------------------------------------------
(* Vault over everything else                                              *)

\* The value of k in e comes from a secret.
FromVault(c, d, e, k) ==
    \E j \in DOMAIN d : /\ Dependencies(c)[j].kind = "secret"
                        /\ <<k, e[k]>> \in Leaves(c, d, j)

\* Once the loop of a secret has written a variable no other dependency does: there
\* is none but secrets after it.
VaultInv ==
    pc \in {"append", "compare"} =>
        /\ \A i \in Secrets : i < dep /\ ~Fails(cfg, data, i) =>
               \A k \in Names : k \in Keys(Leaves(cfg, data, i)) => FromVault(cfg, data, env, k)
        /\ pc = "append" /\ dep \in Secrets =>
               \A k \in Names : k \in Keys(Partial) => FromVault(cfg, data, env, k)

LEMMA VaultInit == Init => VaultInv
<1> SUFFICES ASSUME Init PROVE VaultInv
  OBVIOUS
<1>1. \A i \in Secrets : ~(i < dep)
  BY TypeInit, DependencyList DEF TypeInv, TypeOK, Secrets, Init
<1>2. Keys(Partial) = {}
  <2>1. item - 1 = 0 /\ rest = KeyPairs(cfg, data, dep)
    BY DEF Init
  <2>2. QED
    BY <2>1 DEF Partial, LastOf, Keys
<1>3. QED
  BY <1>1, <1>2 DEF VaultInv

LEMMA VaultLoop ==
    ASSUME TypeInv, VaultInv, AppendPair \/ AppendService \/ \E kv \in rest : AppendSecret(kv)
    PROVE  VaultInv'
<1>1. /\ pc = "append" /\ dep \in DOMAIN Deps /\ UNCHANGED <<cfg, data>>
      /\ GivesUp \/ (UNCHANGED <<pc, dep>> /\ \E W : Writes(W) /\ Grows(W))
  BY LoopStep
<1>2. /\ cfg \in Configs /\ DOMAIN data = DOMAIN Deps
      /\ DOMAIN Deps = 1..Len(Deps) /\ Len(Deps) \in Nat
      /\ \A i, j \in DOMAIN Deps : i <= j /\ Deps[i].kind = "secret" => Deps[j].kind = "secret"
  BY DependencyList DEF TypeInv, TypeOK, Deps
<1>3. Secrets = {i \in DOMAIN Deps : Deps[i].kind = "secret"} /\ Secrets' = Secrets
  BY <1>1, <1>2 DEF Secrets, Deps
<1>4. CASE GivesUp
  <2>1. dep' = dep + 1 /\ env' = env /\ Fails(cfg, data, dep) /\ Partial' = {}
    BY <1>1, <1>2, <1>4, LoopStart DEF GivesUp
  <2>2. \A i \in Secrets : i < dep' /\ ~Fails(cfg, data, i) => i < dep
    BY <1>2, <1>1, <1>3, <2>1
  <2>3. Keys(Partial)' = {}
    BY <2>1 DEF Keys
  <2>4. QED
    BY <1>1, <1>3, <2>1, <2>2, <2>3 DEF VaultInv
<1>5. ASSUME UNCHANGED <<pc, dep>>, NEW W, Writes(W), Grows(W)
      PROVE  VaultInv'
  <2>1. CASE dep \notin Secrets
    <3>1. \A i \in Secrets : ~(i < dep)
      BY <1>1, <1>2, <1>3, <2>1
    <3>2. QED
      BY <1>3, <1>5, <2>1, <3>1 DEF VaultInv
  <2>2. CASE dep \in Secrets
    <3>1. Partial' \subseteq Leaves(cfg, data, dep)
      <4>1. Deps' = Deps /\ KeyPairs(cfg, data, dep)' = KeyPairs(cfg, data, dep)
        BY <1>1, <1>5 DEF Deps
      <4>2. Deps[dep].kind = "secret"
        BY <1>3, <2>2
      <4>3. QED
        BY <1>1, <1>5, <4>1, <4>2 DEF Partial, Leaves, Deps
    <3>2. ASSUME NEW k \in Names, k \in Keys(W)
          PROVE  FromVault(cfg, data, env', k)
      <4>1. <<k, env'[k]>> \in Leaves(cfg, data, dep)
        BY <1>5, <3>1, <3>2 DEF Writes, Wrote, Grows
      <4>2. QED
        BY <2>2, <4>1 DEF FromVault, Secrets
    <3>3. ASSUME NEW k \in Names, k \notin Keys(W)
          PROVE  /\ FromVault(cfg, data, env', k) <=> FromVault(cfg, data, env, k)
                 /\ k \in Keys(Partial)' <=> k \in Keys(Partial)
      <4>1. env'[k] = env[k]
        BY <1>5, <3>3 DEF Writes, Wrote
      <4>2. QED
        BY <1>5, <3>3, <4>1 DEF FromVault, Grows, Keys
    <3>4. QED
      BY <1>1, <1>3, <1>5, <2>2, <3>2, <3>3 DEF VaultInv
  <2>3. QED
    BY <2>1, <2>2
<1>6. QED
  BY <1>1, <1>4, <1>5

LEMMA VaultEnd ==
    ASSUME TypeInv, VaultInv, NextDependency
    PROVE  VaultInv'
<1>1. /\ pc = "append" /\ dep \in DOMAIN Deps /\ Enter(dep + 1)
      /\ UNCHANGED <<cfg, data, env>> /\ Partial = Leaves(cfg, data, dep)
  BY LoopEnd
<1>2. /\ DOMAIN data = DOMAIN Deps /\ DOMAIN Deps = 1..Len(Deps) /\ Len(Deps) \in Nat
  BY DependencyList DEF TypeInv, TypeOK, Deps
<1>3. dep' = dep + 1 /\ Keys(Partial)' = {}
  BY <1>1, <1>2, LoopStart DEF Keys
<1>4. Secrets' = Secrets /\ Secrets \subseteq DOMAIN Deps
  BY <1>1, <1>2 DEF Secrets
<1>5. \A i \in Secrets : i < dep + 1 => i < dep \/ i = dep
  BY <1>1, <1>2, <1>4
<1>6. QED
  BY <1>1, <1>3, <1>4, <1>5 DEF VaultInv

LEMMA VaultNext == TypeInv /\ VaultInv /\ [Next]_vars => VaultInv'
<1> SUFFICES ASSUME TypeInv, VaultInv, [Next]_vars PROVE VaultInv'
  OBVIOUS
<1>1. CASE RunAgain
  <2>1. Enter(1) /\ UNCHANGED <<cfg, data>> /\ DOMAIN data = DOMAIN Deps
    BY <1>1 DEF RunAgain, TypeInv, TypeOK, Deps
  <2>2. \A i \in Secrets : ~(i < 1)
    BY <2>1, DependencyList DEF Secrets, TypeInv, TypeOK, Deps
  <2>3. dep' = 1 /\ Keys(Partial)' = {} /\ Secrets' = Secrets
    BY <2>1, LoopStart DEF Keys, Secrets
  <2>4. QED
    BY <2>2, <2>3 DEF VaultInv
<1>2. CASE Same \/ New \/ BuildChildEnv
  <2>1. pc' \notin {"append", "compare"}
    BY <1>2 DEF Same, New, BuildChildEnv
  <2>2. QED
    BY <2>1 DEF VaultInv
<1>3. CASE UNCHANGED vars
  BY <1>3 DEF vars, VaultInv, Partial, Deps, Secrets
<1>4. QED
  BY <1>1, <1>2, <1>3, VaultLoop, VaultEnd DEF Next, Finished

\* Vault secrets always take precedence over Consul: a variable that a secret sets
\* has a value from some secret, whatever prefixes and services set and whichever
\* of them fail.
THEOREM VaultFirst == Spec => []VaultPrecedence
<1>1. TypeInv /\ VaultInv => VaultPrecedence
  <2> SUFFICES ASSUME TypeInv, VaultInv, pc = "compare",
                      NEW i \in Secrets, ~Fails(cfg, data, i),
                      NEW k \in Keys(Leaves(cfg, data, i))
               PROVE  \E j \in Secrets : <<k, env[k]>> \in Leaves(cfg, data, j)
    BY DEF VaultPrecedence
  <2>1. i < dep /\ i \in DOMAIN Deps /\ Deps[i].kind = "secret"
    BY DependencyList DEF TypeInv, TypeOK, Placed, Deps, Secrets
  <2>2. PICK kv \in KeyPairs(cfg, data, i) : k \in Keys(SecretWrites(cfg, i, kv))
    BY <2>1 DEF Leaves, Keys, Deps
  <2>3. Error \notin SecretNames(cfg, ConfigOf(cfg, i), kv.key)
    BY <2>1, <2>2 DEF Fails, SecretWrites, Keys, Deps
  <2>4. k \in Names
    BY <2>1, <2>2, <2>3, SecretSound DEF Sound, Keys, TypeInv
  <2>5. QED
    BY <2>1, <2>4 DEF VaultInv, FromVault, Secrets
<1>2. QED
  BY <1>1, TypeInit, TypeNext, VaultInit, VaultNext, PTL DEF Spec
=============================================================================
