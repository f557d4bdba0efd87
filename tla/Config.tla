------------------------------- MODULE Config -------------------------------
(***************************************************************************)
(* src/config.rs: ConfigWatchers of one key=value file, some of them       *)
(* registered with a ConfigManager, in a single thread (every operation    *)
(* but commit takes &mut self).  A value is its kind and the text it       *)
(* prints as; a file is the text behind each key.  save is fs::write,      *)
(* which empties the file before it writes: the program may die, or the    *)
(* write fail, in between.  An editor changes the file while nothing is    *)
(* being saved.                                                            *)
(***************************************************************************)
EXTENDS Integers, Sequences, Functions

CONSTANTS
    SortedKeys,     \* the keys in the order in which their lines sort
    Required,       \* ConfigSchema.required
    Optional,       \* ConfigSchema.optional
    Texts,          \* what an editor writes behind the =
    Numeral,        \* a text that reads as i64 |-> the number as it prints
    Decimal,        \* a text that reads as f64 but not as i64, likewise
    Cuts,           \* a key or text |-> proper beginnings of it
    Watchers,
    Managed,        \* the watchers that are a service of the manager
    Lines,          \* log lines: their wording, their service, their path
    MaxPatches,     \* bound on the owner's changes in memory
    MaxEdits        \* bound on the editor's

Keys == Range(SortedKeys)

TrueWords == {"true", "yes", "on", "1"}
FalseWords == {"false", "no", "off", "0"}

ASSUME ConfigAssumption ==
    /\ Required \cup Optional \subseteq Keys
    /\ Managed \subseteq Watchers /\ "none" \notin Watchers
    /\ \A t \in DOMAIN Numeral :
          /\ Numeral[t] \in DOMAIN Numeral /\ Numeral[Numeral[t]] = Numeral[t]
          /\ t \in TrueWords \cup FalseWords => t \in {"0", "1"} /\ Numeral[t] = t
    /\ "" \notin DOMAIN Numeral
    /\ \A k \in Keys \cap DOMAIN Cuts : Cuts[k] \subseteq Keys
    /\ MaxPatches \in Nat /\ MaxEdits \in Nat

VARIABLES
    disk,           \* the file: key |-> text
    config,         \* ConfigWatcher.config: key |-> value
    modified,       \* ConfigWatcher.modified
    saving,         \* the watcher whose file is empty and not yet written
    before,         \* the configuration process_log_line started from
    answer,         \* what process_log_line gave, until the next operation
    patches,        \* the owner's changes so far
    edits           \* the editor's

configVars == <<disk, config, modified, saving, before, answer, patches, edits>>

-----------------------------------------------------------------------------
(* Values and their text.                                                  *)

Value(kind, text) == [kind |-> kind, text |-> text]

(* A bug for the runs to find: every number is tried as f64 first.         *)
ParseValueDecimalFirst(text) ==
    IF text \in TrueWords \cup {""} THEN Value("Boolean", "true")
    ELSE IF text \in FalseWords THEN Value("Boolean", "false")
    ELSE IF text \in DOMAIN Numeral THEN Value("Float", Numeral[text])
    ELSE IF text \in DOMAIN Decimal THEN Value("Float", Decimal[text])
    ELSE Value("String", text)

(* Config::from_str, of one line; a line without = has no text.            *)
ParseValue(text) ==
    IF text \in TrueWords \cup {""} THEN Value("Boolean", "true")
    ELSE IF text \in FalseWords THEN Value("Boolean", "false")
    ELSE IF text \in DOMAIN Numeral THEN Value("Integer", Numeral[text])
    ELSE IF text \in DOMAIN Decimal THEN Value("Float", Decimal[text])
    ELSE Value("String", text)

Parsed(file) == [k \in DOMAIN file |-> ParseValue(file[k])]

(* Config::to_string, each value by ConfigValue::to_string.                *)
Printed(params) == [k \in DOMAIN params |-> params[k].text]

AsBoolean(value) ==
    CASE value.kind = "Boolean" -> value.text
      [] value.kind = "String" /\ value.text \in TrueWords -> "true"
      [] value.kind = "String" /\ value.text \in FalseWords -> "false"
      [] value.kind = "Integer" -> IF value.text = "0" THEN "false" ELSE "true"
      [] OTHER -> "none"

AsInteger(value) ==
    CASE value.kind = "Integer" -> value.text
      [] value.kind = "String" /\ value.text \in DOMAIN Numeral
            -> Numeral[value.text]
      [] value.kind = "Boolean" -> IF value.text = "true" THEN "1" ELSE "0"
      [] OTHER -> "none"

-----------------------------------------------------------------------------
(* Validation and healing.                                                 *)

Strategies == {"None", "Defaults", "RemoveInvalid", "Both"}

Missing(params) == Required \ DOMAIN params

(* Splicing: the second configuration overrides the first.                 *)
Splice(params1, params2) ==
    [k \in DOMAIN params1 \cup DOMAIN params2 |->
        IF k \in DOMAIN params2 THEN params2[k] ELSE params1[k]]

WithParam(params, key, value) == Splice(params, [k \in {key} |-> value])

WithDefaults(params, defaults) ==
    Splice(params, Restrict(defaults, Missing(params) \cap DOMAIN defaults))

WithoutInvalid(params) ==
    Restrict(params, DOMAIN params \cap (Required \cup Optional))

Fixed(strategy, defaults, params) ==
    CASE strategy = "Defaults" -> WithDefaults(params, defaults)
      [] strategy = "RemoveInvalid" -> WithoutInvalid(params)
      [] strategy = "Both" -> WithoutInvalid(WithDefaults(params, defaults))

(* Bugs for the runs to find: what was fixed is not validated again; a     *)
(* configuration without errors is cleaned as well.                        *)
HealUnchecked(strategy, defaults, params) ==
    IF Missing(params) = {} THEN {params}
    ELSE IF strategy = "None" THEN {}
    ELSE {Fixed(strategy, defaults, params)}

HealAlways(strategy, defaults, params) ==
    IF strategy = "None" THEN {}
    ELSE {h \in {Fixed(strategy, defaults, params)} : Missing(h) = {}}

(* ConfigHealer::heal: the healed configuration, or nothing for an error.  *)
Heal(strategy, defaults, params) ==
    IF Missing(params) = {} THEN {params}
    ELSE IF strategy = "None" THEN {}
    ELSE {h \in {Fixed(strategy, defaults, params)} : Missing(h) = {}}

(* ConfigWatcher::heal: a watcher's healer has both strategies and no      *)
(* defaults, since nothing reaches its set_default.                        *)
WatcherHeal(params) == Heal("Both", << >>, params)

-----------------------------------------------------------------------------

NoWatcher == "none"

ConfigInit ==
    /\ disk \in [Required -> Texts]
    /\ config = [w \in Watchers |-> Parsed(disk)]
    /\ modified = [w \in Watchers |-> FALSE]
    /\ saving = NoWatcher
    /\ before = << >>
    /\ answer = "none"
    /\ patches = 0
    /\ edits = 0

Forget == before' = << >> /\ answer' = "none"

(* The program dies, perhaps between emptying the file and writing it, and *)
(* starts again: ConfigWatcher::new and register_service read the file.    *)
Restart ==
    /\ config' = [w \in Watchers |-> Parsed(disk)]
    /\ modified' = [w \in Watchers |-> FALSE]
    /\ saving' = NoWatcher
    /\ Forget
    /\ UNCHANGED <<disk, patches, edits>>

ReadFile(w) ==
    /\ saving = NoWatcher
    /\ config' = [config EXCEPT ![w] = Parsed(disk)]
    /\ modified' = [modified EXCEPT ![w] = FALSE]
    /\ Forget
    /\ UNCHANGED <<disk, saving, patches, edits>>

(* reload, by the owner of a watcher.                                      *)
Reload(w) == w \notin Managed /\ ReadFile(w)

(* register_service again: a new watcher takes the place of the old one.   *)
RegisterService(w) == w \in Managed /\ ReadFile(w)

MemoryValues ==
    {Value("String", t) : t \in Texts} \cup
    {Value("Integer", t) : t \in Range(Numeral)} \cup
    {Value("Float", t) : t \in Range(Decimal)} \cup
    {Value("Boolean", t) : t \in {"true", "false"}}

(* The owner of a watcher changes its configuration in memory: hot_patch   *)
(* notes that in the flag, the setters and remove behind config_mut do not.*)
ChangeMemory(w, params) ==
    /\ saving = NoWatcher
    /\ patches < MaxPatches
    /\ config' = [config EXCEPT ![w] = params]
    /\ patches' = patches + 1
    /\ Forget
    /\ UNCHANGED <<disk, saving, edits>>

HotPatch(w, key, value) ==
    /\ ChangeMemory(w, WithParam(config[w], key, value))
    /\ modified' = [modified EXCEPT ![w] = TRUE]

SetParam(w, key, value) ==
    /\ value.kind \in {"String", "Integer", "Boolean"}
    /\ ChangeMemory(w, WithParam(config[w], key, value))
    /\ UNCHANGED modified

RemoveParam(w, key) ==
    /\ ChangeMemory(w, Restrict(config[w], DOMAIN config[w] \ {key}))
    /\ UNCHANGED modified

(* save, up to the point where fs::write has emptied the file; a file that *)
(* cannot be opened stays as it is.                                        *)
OpenToSave(w) ==
    \/ /\ disk' = << >>
       /\ saving' = w
    \/ UNCHANGED <<disk, saving>>

Commit(w) ==
    /\ saving = NoWatcher
    /\ OpenToSave(w)
    /\ Forget
    /\ UNCHANGED <<config, modified, patches, edits>>

(* ConfigError::parse knows a line by two phrases, and needs a colon after *)
(* the service and a path.                                                 *)
IsConfigError(line) ==
    /\ line.wording \in {"invalid parameter", "syntax error"}
    /\ line.path \in Keys

(* process_log_line up to its save.  The healed configuration becomes the  *)
(* watcher's, and the path of the message a parameter of it.               *)
ProcessLogLine(line) ==
    /\ saving = NoWatcher
    /\ IsConfigError(line)
    /\ line.service \in Managed
    /\ LET w == line.service IN
        /\ \E healed \in WatcherHeal(config[w]) :
              config' = [config EXCEPT ![w] =
                            WithParam(healed, line.path, Value("String", line.error))]
        /\ modified' = [modified EXCEPT ![w] = TRUE]
        /\ OpenToSave(w)
        /\ IF saving' = w THEN before' = config[w] /\ answer' = "pending"
                           ELSE Forget
    /\ UNCHANGED <<patches, edits>>

(* fs::write, to its end; process_log_line then names its service.         *)
Write ==
    /\ saving # NoWatcher
    /\ disk' = Printed(config[saving])
    /\ saving' = NoWatcher
    /\ answer' = IF answer = "pending" THEN "fixed" ELSE "none"
    /\ UNCHANGED <<config, modified, before, patches, edits>>

CutsOf(text) == IF text \in DOMAIN Cuts THEN Cuts[text] ELSE {}

(* What is on disk when the write stops early: the first lines, and of the *)
(* line after them perhaps a part: its key and none or some of its text,   *)
(* or a beginning of its key, which reads as a key without text.           *)
Torn(file) ==
    LET First(n) == Restrict(file, DOMAIN file \cap Range(SubSeq(SortedKeys, 1, n)))
        After(n, key, texts) == {WithParam(First(n), key, t) : t \in texts}
    IN  {First(n) : n \in 0 .. Len(SortedKeys)} \cup
        UNION { LET key == SortedKeys[n]
                IN  After(n - 1, key, {""} \cup CutsOf(file[key])) \cup
                    UNION {After(n - 1, k, {""}) : k \in CutsOf(key)} :
                n \in {m \in DOMAIN SortedKeys : SortedKeys[m] \in DOMAIN file} }

WriteFails ==
    /\ saving # NoWatcher
    /\ disk' \in Torn(Printed(config[saving]))
    /\ saving' = NoWatcher
    /\ Forget
    /\ UNCHANGED <<config, modified, patches, edits>>

(* Somebody edits a line of the file, or deletes it.                       *)
Edit ==
    /\ saving = NoWatcher
    /\ edits < MaxEdits
    /\ \E k \in Keys :
        \/ \E t \in Texts : disk' = WithParam(disk, k, t)
        \/ /\ k \in DOMAIN disk
           /\ disk' = Restrict(disk, DOMAIN disk \ {k})
    /\ edits' = edits + 1
    /\ Forget
    /\ UNCHANGED <<config, modified, saving, patches>>

ConfigNext ==
    \/ Restart
    \/ Edit
    \/ Write
    \/ WriteFails
    \/ \E line \in Lines : ProcessLogLine(line)
    \/ \E w \in Watchers : Reload(w) \/ RegisterService(w)
    \/ \E w \in Watchers \ Managed :
        \/ Commit(w)
        \/ \E k \in Keys, v \in MemoryValues : HotPatch(w, k, v)
        \/ \E k \in Keys, v \in MemoryValues : SetParam(w, k, v)
        \/ \E k \in Keys : RemoveParam(w, k)

ConfigSpec == ConfigInit /\ [][ConfigNext]_configVars

-----------------------------------------------------------------------------

(* What a reader of a parameter was told stays true: as_boolean and        *)
(* as_integer, where they gave an answer, give the same one.               *)
KeepsReadings(value1, value2) ==
    /\ AsBoolean(value1) \in {"none", AsBoolean(value2)}
    /\ AsInteger(value1) \in {"none", AsInteger(value2)}

(* A configuration that is on disk can be read again without changing what *)
(* its readers see, although from_str gives many values another kind than  *)
(* they had in memory.                                                     *)
ReadingsSurvive ==
    \A w \in Watchers :
        disk = Printed(config[w]) =>
            \A k \in DOMAIN disk :
                KeepsReadings(config[w][k], Parsed(disk)[k])

(* Healing, against what its strategies promise: it succeeds when nothing  *)
(* is missing, or when the strategy uses defaults and has all of them; the *)
(* result is valid, keeps the parameters of the schema as they were, and   *)
(* adds nothing but defaults.                                              *)
SomeDefaults == [{k \in Required : TRUE} -> {Value("Integer", "8080")}]

HealIsSound ==
    \A w \in Watchers, strategy \in Strategies,
       defaults \in SomeDefaults \cup {<< >>} :
        LET params == config[w]
            healed == Heal(strategy, defaults, params)
        IN  /\ healed # {} <=>
                  \/ Missing(params) = {}
                  \/ /\ strategy \in {"Defaults", "Both"}
                     /\ Missing(params) \subseteq DOMAIN defaults
            /\ \A h \in healed :
                  /\ Missing(h) = {}
                  /\ \A k \in Required \cup Optional :
                        k \in DOMAIN params => k \in DOMAIN h /\ h[k] = params[k]
                  /\ \A k \in DOMAIN h \ DOMAIN params :
                        k \in Required /\ h[k] = defaults[k]

(* When process_log_line names a service, the file on disk is valid and    *)
(* holds every parameter its watcher had before the line, read as before;  *)
(* only the one named like the path of the message is new or changed.      *)
FixStoresAll ==
    [][ answer = "pending" /\ answer' = "fixed" =>
            /\ Missing(disk') = {}
            /\ \A k \in DOMAIN before \ {line.path : line \in Lines} :
                  k \in DOMAIN disk' /\ KeepsReadings(before[k], Parsed(disk')[k])
      ]_configVars

=============================================================================
