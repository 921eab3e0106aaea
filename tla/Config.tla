--------------------------------- MODULE Config ---------------------------------
(* Configurations as values: what a file parses to, how two configurations   *)
(* merge, and what finalizing one does (config.go, config_prefix.go,         *)
(* config_service.go).                                                       *)
(*                                                                           *)
(* A configuration has settings, a function on those that are not nil, and   *)
(* three lists of blocks.  A block is a function on its fields that are not  *)
(* nil.  A file is a sequence of statements: a top-level key with what it    *)
(* sets, a function on the paths below the key (on <<>> for a plain value),  *)
(* or, for a block, on its fields.                                           *)
EXTENDS Flags, Sequences, SequencesExt

CONSTANT Unparsable   \* a value that is no boolean, number, duration, signal or template

Kinds == {"prefix", "secret", "service"}

Nothing == <<>>   \* the function on no setting

Empty == [ok |-> TRUE, set |-> Nothing, blocks |-> [k \in Kinds |-> <<>>]]

\* What an error leaves: merged with anything, it fails the whole.
Failed == [ok |-> FALSE, set |-> Nothing, blocks |-> Empty.blocks]

\* The merge of two lists of blocks: the second one's follow the first one's.
MergeLists(b, c) == [k \in Kinds |-> b[k] \o c[k]]

\* Seeded fault: the first configuration wins.
Merge_FirstWins(c, o) ==
    [ok |-> c.ok /\ o.ok,
     set |-> Over(c.set, o.set),
     blocks |-> MergeLists(c.blocks, o.blocks)]

\* Config.Merge, with the merges of the stanzas: the second configuration wins
\* each setting.
Merge(c, o) ==
    [ok |-> c.ok /\ o.ok,
     set |-> Over(o.set, c.set),
     blocks |-> MergeLists(c.blocks, o.blocks)]

\* The merge of several configurations, one after the other.
MergeAll(configs) ==
    LET merged[i \in 0..Len(configs)] ==
            IF i = 0 THEN Empty ELSE Merge(merged[i - 1], configs[i])
    IN  merged[Len(configs)]

-----------------------------------------------------------------------------
(* Parsing a file.                                                           *)

\* The top-level keys that Config has fields for, lists aside.
Stanzas == {s[1] : s \in Settings}

\* The deprecated top-level keys, and the place each of them moves to.
Moves ==
    [key \in {"auth", "splay", "retry", "ssl", "timeout", "token"} |->
        CASE key = "auth" -> {<<"consul", "auth">>}
          [] key = "splay" -> {<<"exec", "splay">>}
          [] key = "retry" -> InBoth({<<"retry", "backoff">>, <<"retry", "max_backoff">>})
          [] key = "ssl" -> InBoth({<<"ssl">>})
          [] key = "timeout" -> {<<"exec", "kill_timeout">>}
          [] key = "token" -> {<<"consul", "token">>}]

\* A key repeated in a file: only its last statement counts, as a whole.
flattenKeys(file) ==
    [key \in {file[i].key : i \in DOMAIN file} |->
        file[CHOOSE i \in DOMAIN file :
                 /\ file[i].key = key
                 /\ \A j \in DOMAIN file : file[j].key = key => j <= i].set]

\* What a statement sets, with full names.
At(place, set) ==
    [s \in {place \o rest : rest \in DOMAIN set} |->
        set[SubSeq(s, Len(place) + 1, Len(s))]]

Together(functions) ==
    [s \in UNION {DOMAIN f : f \in functions} |->
        (CHOOSE f \in {g \in functions : s \in DOMAIN g} : TRUE)[s]]

\* The stanza or value of a client or command that a deprecated key replaces.
Replaced(place) == SubSeq(place, 1, 2)

\* Seeded fault: the stanza a deprecated key moves into is always a new one.
moveDeprecated_NewStanza(keys) ==
    LET old == DOMAIN keys \cap DOMAIN Moves
        places == UNION {Moves[key] : key \in old}
        moved == Together(UNION {{At(place, keys[key]) : place \in Moves[key]} : key \in old})
        kept == Together({At(<<key>>, keys[key]) : key \in DOMAIN keys \cap Stanzas})
        lost == {s \in DOMAIN kept : \E place \in places : s[1] = place[1]}
    IN  Over(moved, [s \in DOMAIN kept \ lost |-> kept[s]])

\* A deprecated key takes the place it moves to, whatever stood there; moved
\* into a stanza that was written as a plain value, it takes that value's place.
moveDeprecated(keys) ==
    LET old == DOMAIN keys \cap DOMAIN Moves
        places == UNION {Moves[key] : key \in old}
        moved == Together(UNION {{At(place, keys[key]) : place \in Moves[key]} : key \in old})
        kept == Together({At(<<key>>, keys[key]) : key \in DOMAIN keys \cap Stanzas})
        lost == {s \in DOMAIN kept : \E place \in places :
                     IsPrefix(Replaced(place), s) \/ s = <<place[1]>>}
    IN  Over(moved, [s \in DOMAIN kept \ lost |-> kept[s]])

\* A stanza written as a plain value stands for one with these settings.
FromString(set, stanza, settings) ==
    LET made == {s \in settings : stanza \in DOMAIN set}
    IN  [s \in (DOMAIN set \ {stanza}) \cup made |->
            IF s \in made THEN set[stanza] ELSE set[s]]

\* consul = "address" is short for consul { address = "address" }.
ConsulStringToStruct(set) == FromString(set, <<"consul">>, {<<"consul", "address">>})

\* wait = "min:max" is short for wait { min = "min", max = "max" }.
StringToWaitDuration(set) ==
    FromString(set, <<"wait">>, {<<"wait", "min">>, <<"wait", "max">>})

\* The blocks of a kind, in the order of the file.
BlocksOf(file, kind) ==
    FlattenSeq([i \in DOMAIN file |->
        IF file[i].key = kind THEN <<file[i].set>> ELSE <<>>])

Fields(kind) ==
    IF kind = "service"
    THEN {"query", "format_id", "format_name", "format_address", "format_tag", "format_port"}
    ELSE {"path", "format", "no_prefix"}

\* What the keys of a file set.
Settled(keys) == StringToWaitDuration(ConsulStringToStruct(moveDeprecated(keys)))

\* A file with a key that Config has no field for, or with a value that cannot
\* be converted, is refused as a whole.  A top-level path is dropped.
Parse(file) ==
    LET keys == flattenKeys(file)
        set == Settled(keys)
        known == Stanzas \cup DOMAIN Moves \cup Kinds \cup {"path"}
        valid == /\ DOMAIN keys \subseteq known
                 /\ DOMAIN set \subseteq Settings
                 /\ \A s \in DOMAIN set \cap Typed : set[s] # Unparsable
                 /\ \A i \in DOMAIN file : file[i].key \in Kinds =>
                        /\ DOMAIN file[i].set \subseteq Fields(file[i].key)
                        /\ "no_prefix" \in DOMAIN file[i].set =>
                               file[i].set["no_prefix"] # Unparsable
    IN  IF valid
        THEN [ok |-> TRUE, set |-> set, blocks |-> [k \in Kinds |-> BlocksOf(file, k)]]
        ELSE Failed

\* A path is a file, or a directory whose files are merged in lexical order.
FromPath(walk, files) ==
    MergeAll([i \in DOMAIN walk |-> Parse(files[walk[i]])])

\* The configurations of all paths, merged from left to right; one that is
\* missing or cannot be parsed fails them all.
FromPaths(paths, tree, files) ==
    MergeAll([i \in DOMAIN paths |->
        IF paths[i] \in DOMAIN tree THEN FromPath(tree[paths[i]], files) ELSE Failed])

-----------------------------------------------------------------------------
(* Finalizing.                                                               *)

\* The first of these variables of the environment that is set.
stringFromEnv(names, environ, default) ==
    LET set == SelectSeq(names, LAMBDA n : n \in DOMAIN environ)
    IN  IF set = <<>> THEN default ELSE environ[set[1]]

\* The file of Vault's agent, and the token it takes the place of.
TokenFile == <<"vault", "vault_agent_token_file">>
VaultToken == <<"vault", "token">>

\* What Finalize makes of a setting: one that is still nil gets its default, and
\* the Vault token is read from the agent's file when there is one.
Finalized(s, set, environ) ==
    IF s = VaultToken /\ TokenFile \in DOMAIN set THEN "read from the file"
    ELSE IF s \in DOMAIN set THEN set[s]
    ELSE IF s = <<"log_level">>
         THEN stringFromEnv(<<"CT_LOG", "ENVCONSUL">>, environ, "WARN")
         ELSE "default"

\* Seeded fault: pid_file has no default.
FinalizeSettings_PidFileNil(set, environ) ==
    [s \in Settings \ ({<<"pid_file">>} \ DOMAIN set) |-> Finalized(s, set, environ)]

FinalizeSettings(set, environ) == [s \in Settings |-> Finalized(s, set, environ)]

\* The fields of a block that Finalize fills; no_prefix may stay nil.
FinalizeBlock(kind, block) == Over(block, [f \in Fields(kind) \ {"no_prefix"} |-> ""])

\* A prefix or secret without a path.
Pathless(block) == "path" \notin DOMAIN block \/ block["path"] = ""

\* append(l[:p-1], l[p:n]...): the entries p+1 to n move one place down, over
\* the array that the list shares.
Closed(list, p, n) ==
    [j \in DOMAIN list |-> IF p <= j /\ j < n THEN list[j + 1] ELSE list[j]]

\* One round of the loop of PrefixConfigs.Finalize: an entry without a path is
\* closed up, of the entries that are left in the slice, another one finalized.
CompactStep(at, i, pathless) ==
    IF at.list[i] \in pathless
    THEN [at EXCEPT !.list = Closed(@, at.good + 1, Len(@) - (i - 1 - at.good))]
    ELSE [at EXCEPT !.good = @ + 1, !.done = @ \cup {at.list[i]}]

\* The loop over the list as it was at first, whose
\* array the loop changes: what the array holds in the end, and the entries
\* finalized.  The shortened list is not stored, so the length stays.
Compact(list, pathless) ==
    LET after[i \in 0..Len(list)] ==
            IF i = 0 THEN [list |-> list, good |-> 0, done |-> {}]
            ELSE CompactStep(after[i - 1], i, pathless)
    IN  after[Len(list)]
=============================================================================
