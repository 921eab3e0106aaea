------------------------------ MODULE Configuration ------------------------------
(* From the command line and the files to the configuration of a runner, and *)
(* again on every reload (ParseFlags, CLI.Run, loadConfigs, NewRunner).      *)
(*                                                                           *)
(* The lists of a configuration hold pointers.  A merge copies the entries of *)
(* its first list and shares those of its second, so the blocks given by      *)
(* flags, which every load merges last, are shared by the configuration kept  *)
(* for reloads and by everything made from it, and Finalize writes into them. *)
EXTENDS Config, Naturals, FiniteSets

CONSTANTS
    Arguments,     \* the flags given, records of a flag and its value
    Words,         \* what may follow the flags; "" when nothing does
    Files,         \* the configuration files
    Statements,    \* the statements each file may have
    Tree,          \* the paths that exist, with the files below each, in order
    Environs,      \* environments, functions on the variables that are set
    Levels,        \* the accepted log levels
    Cost(_),       \* the share of the budget an argument takes
    Budget         \* bounds the arguments and statements together

CONSTANTS ExitCodeOK, ExitCodeParseFlagsError, ExitCodeConfigError, ExitCodeRunnerError,
          NoCode

\* The files below a path are files; a key that is no block's sets paths.
ASSUME ConfigurationAssumption ==
    /\ Tree \in [DOMAIN Tree -> Seq(Files)]
    /\ \A f \in Files : \A stmt \in Statements[f] :
           stmt.key \notin Kinds => DOMAIN stmt.set \subseteq Seq(STRING)
    /\ NoCode \notin {ExitCodeOK, ExitCodeParseFlagsError, ExitCodeConfigError,
                      ExitCodeRunnerError}

VARIABLES
    phase,      \* how far CLI.Run has got
    args,       \* the flags parsed so far (history)
    cli,        \* the settings flags have written
    noPrefix,   \* the last value of -no-prefix, or "unset"
    isVersion,  \* whether -version was given
    paths,      \* the paths given by -config
    words,      \* what followed the flags
    environ,    \* the environment
    files,      \* what the files contain
    heap,       \* the blocks: given by flags, and the current load's own
    cfg,        \* the configuration of the last load: settings, and pointers
    runner,     \* the lists of the newest runner's configuration, Nothing before it
    exitCode,
    given,      \* what the flags gave, when they were all parsed (history)
    loaded      \* the files the last load read (history)

vars == <<phase, args, cli, noPrefix, isVersion, paths, words, environ, files, heap,
          cfg, runner, exitCode, given, loaded>>

flagVars == <<cli, noPrefix, isVersion, paths>>

Owners == {"cli", "own"}

NoBlocks == [k \in Kinds |-> <<>>]

NoConfig == [set |-> Nothing, lists |-> NoBlocks]

-----------------------------------------------------------------------------
(* ParseFlags.                                                               *)

Spent == FoldLeft(LAMBDA n, a : n + Cost(a), 0, args)
         + FoldLeft(LAMBDA n, f : n + Len(files[f]), 0, SetToSeq(Files))

\* The flag parser calls the function of the next flag.
Takes(a) ==
    /\ args' = Append(args, a)
    /\ UNCHANGED <<words, environ, files, cfg, runner, given, loaded>>

Accepted(a) == a.flag \in Typed => a.value # Unparsable

\* A flag that writes settings.
SetFlag(a) ==
    /\ Takes(a)
    /\ a.flag \in DOMAIN Targets /\ Accepted(a)
    /\ cli' = Over(Writes(a.flag, a.value), cli)
    /\ UNCHANGED <<phase, noPrefix, isVersion, paths, heap, exitCode>>

\* The block a -prefix, -secret or -service-query appends.  Only the name "/"
\* has a leading slash to trim.
ParsePrefixConfig(s) == [path |-> IF s = "/" THEN "" ELSE s]
ParseServiceConfig(s) == [query |-> s]

AddBlock(a) ==
    /\ Takes(a)
    /\ \E kind \in Kinds :
         /\ a.flag = (IF kind = "service" THEN <<"service", "query">> ELSE <<kind>>)
         /\ heap' = [heap EXCEPT !.cli[kind] = Append(@,
                        IF kind = "service" THEN ParseServiceConfig(a.value)
                                            ELSE ParsePrefixConfig(a.value))]
    /\ UNCHANGED <<phase, flagVars, exitCode>>

FormatFields == Fields("service") \ {"query"}

IsFormat(a) == a.flag \in {<<"service", f>> : f \in FormatFields}

\* Seeded fault: the format goes to the first service.
LastSeviceConfig_First(services) == 1

\* The service a format flag is about: LastSeviceConfig.
LastSeviceConfig(services) == Len(services)

\* With no service yet LastSeviceConfig indexes an empty list: the nil that
\* ParseFlags tests for never comes, the program panics.
FormatService(a) ==
    LET services == heap.cli["service"] IN
    /\ Takes(a)
    /\ IsFormat(a)
    /\ IF services = <<>>
       THEN /\ phase' = "panicked"
            /\ UNCHANGED heap
       ELSE /\ heap' = [heap EXCEPT !.cli["service"][LastSeviceConfig(services)] =
                            Over([f \in {a.flag[2]} |-> a.value], @)]
            /\ UNCHANGED phase
    /\ UNCHANGED <<flagVars, exitCode>>

SetNoPrefix(a) ==
    /\ Takes(a)
    /\ a.flag = <<"no_prefix">> /\ Accepted(a)
    /\ noPrefix' = a.value
    /\ UNCHANGED <<phase, cli, isVersion, paths, heap, exitCode>>

AddPath(a) ==
    /\ Takes(a)
    /\ a.flag = <<"config">>
    /\ paths' = Append(paths, a.value)
    /\ UNCHANGED <<phase, cli, noPrefix, isVersion, heap, exitCode>>

AskVersion(a) ==
    /\ Takes(a)
    /\ a.flag = <<"version">>
    /\ isVersion' = TRUE
    /\ UNCHANGED <<phase, cli, noPrefix, paths, heap, exitCode>>

\* Parsing stops at the first flag that is unknown or has a bad value, and at
\* a request for help.
StopParsing(a) ==
    /\ Takes(a)
    /\ \/ /\ a.flag = <<"help">>
          /\ exitCode' = ExitCodeOK
       \/ /\ ~Accepted(a) \/ a.flag = <<"unknown">>
          /\ exitCode' = ExitCodeParseFlagsError
    /\ phase' = "exited"
    /\ UNCHANGED <<flagVars, heap>>

\* Seeded fault: -no-prefix is written into the prefixes alone.
NoPrefixed_NoSecrets(blocks) ==
    [k \in Kinds |->
        IF k # "prefix" \/ noPrefix = "unset" THEN blocks[k]
        ELSE [i \in DOMAIN blocks[k] |-> Over([no_prefix |-> noPrefix], blocks[k][i])]]

\* After the flags, -no-prefix is written into every prefix and secret given
\* by a flag, and what follows the flags is the command unless -exec gave one.
NoPrefixed(blocks) ==
    [k \in Kinds |->
        IF k = "service" \/ noPrefix = "unset" THEN blocks[k]
        ELSE [i \in DOMAIN blocks[k] |-> Over([no_prefix |-> noPrefix], blocks[k][i])]]

EndFlags(w) ==
    LET command == IF <<"exec", "command">> \notin DOMAIN cli /\ w # ""
                   THEN Writes(<<"exec">>, w) ELSE Nothing
        blocks == NoPrefixed(heap.cli)
    IN  /\ cli' = Over(command, cli)
        /\ heap' = [heap EXCEPT !.cli = blocks]
        /\ words' = w
        /\ given' = [set |-> cli', blocks |-> blocks]
        /\ phase' = "loading"
        /\ UNCHANGED <<args, noPrefix, isVersion, paths, environ, files, cfg, runner,
                       exitCode, loaded>>

-----------------------------------------------------------------------------
(* Loading.                                                                  *)

Pointers(owner, blocks) == [i \in DOMAIN blocks |-> [owner |-> owner, at |-> i]]

\* The block a pointer of a list of this kind leads to.
Deref(h, kind, p) == h[p.owner][kind][p.at]

\* A list finalized, and the entries its loop comes by: prefixes and secrets are
\* compacted.
FinalizeList(h, kind, list) ==
    IF kind = "service" THEN [list |-> list, done |-> ToSet(list)]
    ELSE Compact(list, {p \in ToSet(list) : Pathless(Deref(h, kind, p))})

\* The lists of a configuration finalized, and the blocks the loops come by
\* filled in, in place.
FinalizeLists(c) ==
    LET result == [k \in Kinds |-> FinalizeList(c.heap, k, c.lists[k])]
    IN  [lists |-> [k \in Kinds |-> result[k].list],
         heap |-> [o \in Owners |-> [k \in Kinds |-> [i \in DOMAIN c.heap[o][k] |->
            IF [owner |-> o, at |-> i] \in result[k].done
            THEN FinalizeBlock(k, c.heap[o][k][i])
            ELSE c.heap[o][k][i]]]]]

\* Seeded fault: the flags' blocks come before the files'.
loadConfigs_FlagsFirst(read, set, blocks) ==
    LET final == FinalizeLists(FinalizeLists(
            [lists |-> [k \in Kinds |->
                           Pointers("cli", blocks[k]) \o Pointers("own", read.blocks[k])],
             heap |-> [own |-> read.blocks, cli |-> blocks]]))
    IN  [set |-> FinalizeSettings(Over(set, read.set), environ),
         lists |-> final.lists, heap |-> final.heap]

\* What loadConfigs and the Finalize that follows it make of the files and of
\* these flags: the files' merged blocks are the configuration's own, those of
\* the flags come after them, shared.  Finalize runs twice.
loadConfigs(read, set, blocks) ==
    LET final == FinalizeLists(FinalizeLists(
            [lists |-> [k \in Kinds |->
                           Pointers("own", read.blocks[k]) \o Pointers("cli", blocks[k])],
             heap |-> [own |-> read.blocks, cli |-> blocks]]))
    IN  [set |-> FinalizeSettings(Over(set, read.set), environ),
         lists |-> final.lists, heap |-> final.heap]

Read == FromPaths(paths, Tree, files)

Exit(code) ==
    /\ phase' = "exited"
    /\ exitCode' = code

\* Whether this is the start, not a reload.
First == runner = Nothing

\* Seeded fault: a reload merges the files with the last load's configuration.
LoadConfigs_OverCurrent ==
    LET read == Read
        new == loadConfigs(read, IF First THEN cli ELSE cfg.set, heap.cli) IN
    /\ phase = "loading"
    /\ read.ok
    /\ cfg' = [set |-> new.set, lists |-> new.lists]
    /\ heap' = new.heap
    /\ loaded' = files
    /\ phase' = "loaded"
    /\ UNCHANGED <<args, flagVars, words, environ, files, runner, exitCode, given>>

LoadConfigs ==
    LET read == Read
        new == loadConfigs(read, cli, heap.cli) IN
    /\ phase = "loading"
    /\ read.ok
    /\ cfg' = [set |-> new.set, lists |-> new.lists]
    /\ heap' = new.heap
    /\ loaded' = files
    /\ phase' = "loaded"
    /\ UNCHANGED <<args, flagVars, words, environ, files, runner, exitCode, given>>

LoadFails ==
    /\ phase = "loading"
    /\ ~Read.ok
    /\ Exit(ExitCodeConfigError)
    /\ UNCHANGED <<args, flagVars, words, environ, files, heap, cfg, runner, given, loaded>>

\* Seeded fault: a reload does not look at the log level.
SetupLogger_OnlyFirst ==
    /\ phase = "loaded"
    /\ First => cfg.set[<<"log_level">>] \in Levels
    /\ phase' = "logging"
    /\ UNCHANGED <<args, flagVars, words, environ, files, heap, cfg, runner, exitCode,
                   given, loaded>>

\* The logger is set up, with a log level it knows.
SetupLogger ==
    /\ phase = "loaded"
    /\ cfg.set[<<"log_level">>] \in Levels
    /\ phase' = "logging"
    /\ UNCHANGED <<args, flagVars, words, environ, files, heap, cfg, runner, exitCode,
                   given, loaded>>

\* Syslog, when it is enabled, may refuse as well.
LoggerFails ==
    /\ phase = "loaded"
    /\ \/ cfg.set[<<"log_level">>] \notin Levels
       \/ cfg.set[<<"syslog", "enabled">>] = "true"
    /\ Exit(ExitCodeConfigError)
    /\ UNCHANGED <<args, flagVars, words, environ, files, heap, cfg, runner, given, loaded>>

-----------------------------------------------------------------------------
(* Runners.                                                                  *)

\* Before the first runner, -version ends the program and so does a missing
\* command; a reload checks neither.
HasCommand == cfg.set[<<"exec", "command">>] # "default"

EndBeforeRunner ==
    /\ phase = "logging" /\ First
    /\ \/ isVersion /\ Exit(ExitCodeOK)
       \/ ~isVersion /\ ~HasCommand /\ Exit(ExitCodeConfigError)
    /\ UNCHANGED <<args, flagVars, words, environ, files, heap, cfg, runner, given, loaded>>

\* NewRunner finalizes its configuration once more, whose settings are all set.
Initialized == FinalizeLists([lists |-> cfg.lists, heap |-> heap])

\* Vault refuses a secret without a path, the catalog a service without a
\* query.  Consul accepts a prefix without a path: all its keys.  A path that is
\* a template has to be one that can be executed.
Refused(c) ==
    \/ \E k \in {"prefix", "secret"} : \E i \in DOMAIN c.lists[k] :
           LET block == Deref(c.heap, k, c.lists[k][i])
           IN  IF Pathless(block) THEN k = "secret" ELSE block["path"] = Unparsable
    \/ \E i \in DOMAIN c.lists["service"] :
           Deref(c.heap, "service", c.lists["service"][i])["query"] = ""

NewRunner ==
    /\ phase = "logging"
    /\ First => ~isVersion /\ HasCommand
    /\ heap' = Initialized.heap
    /\ IF Refused(Initialized)
       THEN /\ Exit(ExitCodeRunnerError)
            /\ UNCHANGED runner
       ELSE /\ runner' = [lists |-> Initialized.lists]
            /\ phase' = "running"
            /\ UNCHANGED exitCode
    /\ UNCHANGED <<args, flagVars, words, environ, files, cfg, given, loaded>>

\* The reload signal: the runner is stopped, and the files are read again.
Reload ==
    /\ phase = "running"
    /\ phase' = "loading"
    /\ UNCHANGED <<args, flagVars, words, environ, files, heap, cfg, runner, exitCode,
                   given, loaded>>

\* Somebody edits a file: before the program starts, or while a runner runs,
\* then once between two loads.
Edit(f) ==
    /\ \/ phase = "running" /\ files = loaded
       \/ phase = "flags" /\ args = <<>>
    /\ \/ \E stmt \in Statements[f] :
            /\ Spent < Budget
            /\ files' = [files EXCEPT ![f] = Append(@, stmt)]
       \/ /\ files[f] # <<>>
          /\ files' = [files EXCEPT ![f] = Front(@)]
    /\ UNCHANGED <<phase, args, flagVars, words, environ, heap, cfg, runner, exitCode,
                   given, loaded>>

-----------------------------------------------------------------------------
Init ==
    /\ phase = "flags" /\ args = <<>> /\ cli = Nothing /\ noPrefix = "unset"
    /\ isVersion = FALSE /\ paths = <<>> /\ words = "" /\ exitCode = NoCode
    /\ environ \in Environs
    /\ files = [f \in Files |-> <<>>]
    /\ heap = [o \in Owners |-> NoBlocks]
    /\ cfg = NoConfig /\ runner = Nothing
    /\ given = [set |-> Nothing, blocks |-> NoBlocks] /\ loaded = files

ParseFlags ==
    /\ phase = "flags"
    /\ \/ \E a \in Arguments :
            /\ Spent + Cost(a) <= Budget
            /\ \/ SetFlag(a) \/ AddBlock(a) \/ FormatService(a) \/ SetNoPrefix(a)
               \/ AddPath(a) \/ AskVersion(a) \/ StopParsing(a)
       \/ \E w \in Words : EndFlags(w)

Next ==
    \/ ParseFlags
    \/ LoadConfigs \/ LoadFails \/ SetupLogger \/ LoggerFails
    \/ EndBeforeRunner \/ NewRunner \/ Reload
    \/ \E f \in Files : Edit(f)

Spec == Init /\ [][Next]_vars
-----------------------------------------------------------------------------
(* Properties.                                                               *)

Configured == phase \in {"loaded", "logging", "running"}

\* Types.  Once loaded, every setting has a value and every pointer leads to a
\* block, so that what follows may dereference them (Finalize, config.go:552).
TypeOK ==
    /\ phase \in {"flags", "loading", "loaded", "logging", "running", "exited", "panicked"}
    /\ exitCode \in {NoCode, ExitCodeOK, ExitCodeParseFlagsError, ExitCodeConfigError,
                     ExitCodeRunnerError}
    /\ exitCode # NoCode <=> phase = "exited"
    /\ DOMAIN cli \subseteq Settings
    /\ cfg # NoConfig => DOMAIN cfg.set = Settings
    /\ Configured => \A k \in Kinds : \A i \in DOMAIN cfg.lists[k] :
         /\ cfg.lists[k][i].owner \in Owners
         /\ cfg.lists[k][i].at \in DOMAIN heap[cfg.lists[k][i].owner][k]

\* The blocks of a list of a configuration.
View(c, k) == [i \in DOMAIN c.lists[k] |-> Deref(heap, k, c.lists[k][i])]

\* What a list says: a field that is nil reads as the empty string that Finalize
\* would make of it.
Meant(k, view) == [i \in DOMAIN view |-> FinalizeBlock(k, view[i])]

\* A reload gives what a fresh start with the same arguments would: nothing of
\* the earlier configuration is left, although the blocks given by flags are
\* shared and were written into ("Save original config", cli.go:90).
AsFreshStart ==
    Configured =>
        LET fresh == loadConfigs(FromPaths(paths, Tree, loaded), given.set, given.blocks)
        IN  /\ cfg.set = fresh.set
            /\ \A k \in Kinds : Meant(k, View(cfg, k)) =
                   Meant(k, [i \in DOMAIN fresh.lists[k] |->
                                Deref(fresh.heap, k, fresh.lists[k][i])])

\* The files in the order they are merged.
Walk == FlattenSeq([i \in DOMAIN paths |-> Tree[paths[i]]])

\* Everything that writes settings, what takes precedence last: the files from
\* left to right, the words after the flags, the flags.
Sources ==
    [i \in DOMAIN Walk |-> Parse(loaded[Walk[i]]).set]
    \o <<IF words = "" THEN Nothing ELSE Writes(<<"exec">>, words)>>
    \o [i \in DOMAIN args |-> IF args[i].flag \in DOMAIN Targets
                              THEN Writes(args[i].flag, args[i].value) ELSE Nothing]

\* "they are merged left-to-right, and CLI arguments take the top-most
\* precedence" (cli.go:826, README.md:534), for every setting, at the start and
\* after every reload; only a setting nobody gave has its default.  The Vault token
\* is the one in the agent's file if any of them names such a file (README.md:423).
Precedence ==
    phase = "loaded" =>
        LET sources == Sources
            default == FinalizeSettings(Nothing, environ)
            Giving(s) == {i \in DOMAIN sources : s \in DOMAIN sources[i]}
        IN  \A s \in Settings :
                IF s = VaultToken /\ Giving(TokenFile) # {} THEN cfg.set[s] = "read from the file"
                ELSE IF Giving(s) = {} THEN cfg.set[s] = default[s]
                ELSE \E i \in Giving(s) : /\ \A j \in Giving(s) : j <= i
                                          /\ cfg.set[s] = sources[i][s]

FlagOf(kind) == IF kind = "service" THEN <<"service", "query">> ELSE <<kind>>

\* What the flags of one kind name, in their order.
FlagNames(kind) ==
    FlattenSeq([i \in DOMAIN args |->
        IF args[i].flag # FlagOf(kind) THEN <<>>
        ELSE <<IF kind # "service" /\ args[i].value = "/" THEN "" ELSE args[i].value>>])

NameOf(kind, block) ==
    LET field == IF kind = "service" THEN "query" ELSE "path"
    IN  IF field \in DOMAIN block THEN block[field] ELSE ""

\* The names of all blocks given, in the order of precedence: the files' ones
\* as the files are merged, then the flags'.
Names(kind) ==
    FlattenSeq([i \in DOMAIN Walk |->
        LET blocks == BlocksOf(loaded[Walk[i]], kind)
        IN  [j \in DOMAIN blocks |-> NameOf(kind, blocks[j])]])
    \o FlagNames(kind)

ListedNames(c, kind) == LET view == View(c, kind)
                        IN  [i \in DOMAIN view |-> NameOf(kind, view[i])]

\* Every prefix, or every secret, has a path.
Named(kind) == kind = "service" \/ \A i \in DOMAIN Names(kind) : Names(kind)[i] # ""

\* The bottom-most block and the right-most flag come last, where they take
\* precedence (README.md:337, cli.go:926): unless a prefix or a secret has no
\* path, the runner's lists are the blocks of the files and then of the flags,
\* each once, in their order and finalized, after every reload too.
BlocksInOrder ==
    phase = "running" =>
        \A k \in Kinds : Named(k) =>
            /\ ListedNames(runner, k) = Names(k)
            /\ \A i \in DOMAIN runner.lists[k] :
                   Fields(k) \ {"no_prefix"} \subseteq DOMAIN View(runner, k)[i]

\* "entries without a path are invalid and ignored" (config_prefix.go:196): the
\* prefixes of a runner are those that have a path, in their order.
PathlessIgnored ==
    phase = "running" =>
        ListedNames(runner, "prefix") = SelectSeq(Names("prefix"), LAMBDA n : n # "")

\* The -service-query flags and the -service-format- flags, by their positions,
\* and how many queries come before a position: the service given last there.
Query == <<"service", "query">>
Queries == {i \in DOMAIN args : args[i].flag = Query}
Formats == {i \in DOMAIN args : IsFormat(args[i])}
ServiceAt(i) == Cardinality({q \in Queries : q < i})

\* A format given by a flag reaches the service of the nearest -service-query
\* before it, and no other, unless a later format of the same service replaces
\* it (FormatService, cli.go:449).  With a format before every query the program
\* ends, one way or another, and no other command line makes it panic.
FormatReachesItsService ==
    LET services == heap.cli["service"]
    IN  IF \E i \in Formats : ServiceAt(i) = 0 THEN phase \in {"panicked", "exited"}
        ELSE /\ phase # "panicked"
             /\ \A n \in DOMAIN services : \A f \in FormatFields :
                    LET by == {i \in Formats : ServiceAt(i) = n /\ args[i].flag[2] = f}
                    IN  IF by = {} THEN f \in DOMAIN services[n] => services[n][f] = ""
                        ELSE \E i \in by : /\ \A j \in by : j <= i
                                           /\ f \in DOMAIN services[n]
                                           /\ services[n][f] = args[i].value

\* "format must be specified before query" (cli.go:450): a format flag without a
\* query before it is a bad flag, refused with an error as any other is (the test
\* for nil at cli.go:449, and the four like it).
FormatNeedsQuery ==
    (\E i \in Formats : ServiceAt(i) = 0) =>
        phase = "exited" /\ exitCode = ExitCodeParseFlagsError

NoPrefixOf(block) == IF "no_prefix" \in DOMAIN block THEN block["no_prefix"] ELSE "unset"

\* -no-prefix is about every prefix and secret given by a flag, those after it
\* too, and about no block of a file (cli.go:719).
NoPrefixReachesFlagBlocks ==
    phase = "running" =>
        LET switches == {i \in DOMAIN args : args[i].flag = <<"no_prefix">>}
        IN  \A k \in {"prefix", "secret"} : \A i \in DOMAIN runner.lists[k] :
                LET p == runner.lists[k][i]
                    b == Deref(heap, k, p)
                IN  CASE p.owner = "own" ->
                           \E f \in ToSet(Walk) : \E j \in DOMAIN loaded[f] :
                               /\ loaded[f][j].key = k
                               /\ NoPrefixOf(b) = NoPrefixOf(loaded[f][j].set)
                      [] p.owner = "cli" /\ switches = {} -> NoPrefixOf(b) = "unset"
                      [] p.owner = "cli" /\ switches # {} ->
                           \E l \in switches : /\ \A m \in switches : m <= l
                                               /\ NoPrefixOf(b) = args[l].value

\* A deprecated key is moved without touching anything outside the places it
\* moves to (config.go:244): a file without the key sets the same elsewhere,
\* as long as no stanza it moves into is written as a plain value.
DeprecatedChangesOnlyItsOwn ==
    phase = "loading" => \A f \in Files : \A key \in DOMAIN Moves :
        LET keys == flattenKeys(files[f])
            with == Settled(keys)
            without == Settled([k \in DOMAIN keys \ {key} |-> keys[k]])
            plain == \E place \in Moves[key] :
                place[1] \in DOMAIN keys /\ <<>> \in DOMAIN keys[place[1]]
            own == {Replaced(place) : place \in Moves[key]}
            Elsewhere(set) == {s \in DOMAIN set : \A p \in own : ~IsPrefix(p, s)}
        IN  Parse(files[f]).ok /\ ~plain =>
                /\ Elsewhere(with) = Elsewhere(without)
                /\ \A s \in Elsewhere(with) : with[s] = without[s]

\* Nothing invalid ever runs: a runner's files exist and parse, its log level is
\* known, its flags were accepted.  An edit that makes them
\* invalid ends the program at the next reload, it is not half applied.
RunsOnlyValid ==
    phase = "running" =>
        /\ \A i \in DOMAIN paths : paths[i] \in DOMAIN Tree
        /\ \A i \in DOMAIN Walk : Parse(loaded[Walk[i]]).ok
        /\ cfg.set[<<"log_level">>] \in Levels
        /\ \A i \in DOMAIN args : Accepted(args[i])
=============================================================================
