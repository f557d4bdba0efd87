# ccze-rs in TLA+

ccze-rs is a log colouriser that grew an analytics window, a protocol verifier,
a binary vector format and a set of system-protection managers around it. This
directory holds TLA+ models of it, TLC runs on small instances, and proofs
checked by TLAPS. Line references are to `src/src/*.rs` unless stated.

    tlc -config MCRecordReader.cfg MCRecordReader     one run of PROJECT.json
    tlapm MainProofs.tla                              one proof module

## The system

### The command line program

`main.rs` is one asynchronous task. `run` parses the options and either decodes
a vector file, encodes standard input into one, or filters standard input.

| component | state | operations | hard behaviours | what makes it correct |
|---|---|---|---|---|
| record reader, `read_record` | the line being collected, tokio's buffer | one record per call | a buffer that ends anywhere, a limit across pieces, end of input in a line | cuts at newlines and nowhere else, refuses exactly the records over the limit |
| filter loop, `run` | rendered line, tokio's stdout | read, classify, annotate, write, flush | a blocking write running behind the loop, broken pipe, input error before the flush | lines in order, none lost on a successful exit |
| analytics window, `analytics.rs` + native | two queues | push | capacity, zero variance | verdict about the last records only |
| protocol verifier, `protocol.rs` + native | phase | inspect | events in any order | violations leave no trace, Ready only after a handshake |
| severity, `severity.rs` + native | none | detect, join | | a join of the words found |
| parsers, `parser.rs` | none | parse | byte offsets | tokens are ranges of the line |
| renderer, `lib.rs` | token list, cursor | process, render | overlap, unstable sort | text kept, colours on tokens |
| vector encoder and file, `vector.rs` | baseline; a file | create, write, flush, open, read | crash, torn record, reader beside a writer, truncation | a decoder prints a prefix of one encoding or reports an error |

They interact by direct calls inside one loop; the only concurrency is tokio's
blocking write, and other processes that use the same vector file.

### The protection managers

Each of these is a library type of its own behind `Arc<Mutex<..>>` fields. The
program does not call them; they are driven by whoever links the crate, from
any number of threads, which is what the models assume.

| component | state | operations | hard behaviours | what makes it correct |
|---|---|---|---|---|
| rollback, `rollback.rs` | triggers, state, attempts (three mutexes) | detect, trigger, record, clear, stats | concurrent triggers, a failing command, lock order | one rollback at a time, at most the maximum succeed, a trigger is answered |
| zRAM ejection, `zram.rs` | snapshots, device index | snapshot, eject, clean up, list | check then act, a clock read before a lock | limit of an ejector, devices in turn, kept for the retention time |
| gossip, `gossip.rs` | node, vector and signature tables, running flag, threads | initialize, start, stop, share, stats; receiver, heartbeat, gossip threads | restart, self-deadlock, sleeping with a lock, partial start | one receiver, no circular waits, truthful errors |
| cgroup clamping, `cgroup.rs` | history, clamps, two kernel files per process | monitor, clamp, release | a write failing between two writes, samples arriving between two reads | the record agrees with the limits |
| LSM policy, `lsm.rs` 19-674 | rules, decisions, log file | load, add, remove, evaluate, clear, stats | a file read before the lock, nested locks, two records of one decision | a list of rules is replaced as a whole; the highest priority wins; every verdict is on record; calls return |
| LSM kernel module, `lsm.rs` 676-879 | a flag for the loaded module | register, load, unload, is loaded | a flag set after the command, others who unload | the flag tells the kernel's state, or there is a reason |
| capabilities, `lsm.rs` 881-1172 + native | none | queries | | |
| DKMS, `dkms.rs` | cached module states | initialize, load, unload, reload, ensure, status | commands that fail, or succeed and do nothing; other users of the kernel | what is reported as loaded was loaded |
| seccomp, `seccomp.rs` | filters, two phase tables | update phase, install, apply bounds | four copies of a phase drifting apart | the filter is that of the verifier's phase; dangerous calls only after the handshake |
| configuration, `config.rs` | parameters, a file, modified flag | reload, heal, hot patch, commit, process a log line | crash in a save, values that change kind on disk, a fix that half succeeds | readers see the same before and after a save; a fixed file is valid and complete |
| scheduler, `scheduler.rs` | processes, last result, history | update, remove, optimize | empty list, removed process | every process gets a core that exists |
| timing, `timing.rs` | two windows | record, flush caches | window lengths | intervals belong to the timestamps kept |
| XDP, `xdp.rs` | filters by priority | add, remove, activate, is_blocked | partial initialisation | blocked iff an active filter says so |

## Modules

| module | models | state and actions |
|---|---|---|
| `LineSplitter` | what `read_record` promises | emits the lines of the input one at a time; no buffer |
| `RecordReader` | `read_record` 283-312 under its loop | `FillBuf` is one answer of `fill_buf`, `TakeChunk` one turn of the loop (and the return of a complete record), `RejectChunk` the limit, `ReturnPartial`/`ReturnZero` the end of input, `FillBufFails` the `?` |
| `Lifecycle` | `protocol.rs`, `severity.rs` and their C shims | operators only; a line is the set of words that matter in it |
| `Analytics` | `analytics.rs` and `analytics_fallback.c` | operators only; the z-score test is squared, so integers are enough |
| `LogFilter` | `run` 138-174 and `main` 78-87, over `Lifecycle` and `Analytics` | `ReadRecord` is the loop body up to the write; `WriteAll` waits for the write in flight and starts the next; `WriteDone`/`WriteFails` are the blocking thread; `EndOfInput`, `InputError`, `Flush` the ends |
| `VectorFile` | `encode_vectors`, `VectorWriter`, `VectorReader`, `decode_vectors` | the file is a sequence of half records, because that is the smallest cut that can tear one; writer actions, `Crash`, and reader actions `Open`, `ReadHeader`, `ReadFirst`, `ReadRest`, and `DecodingFails` for an error of any of its own reads or writes |
| `Render` | `Processor::process` and `render` | `Process` chooses any order an unstable sort may leave; `RenderToken` is one turn of the loop |
| `Rollback` | `RollbackManager` and the callers in `SystemHealthMonitor` | one action per mutex taken or command run; `recorded` and `executions` are history variables |
| `Zram` | `ZramManager`, `MemoryEjector` | one action per critical section; `Tick` is the clock. A manager is called directly (`CreateSnapshot`, and `cleanup_expired` from `ReadClock` on) or is the private one of an ejector (`wrapped`, `CheckLimit`), which has no cleanup; so the limit is a property of the one and the retention of the other |
| `Gossip` | `GossipManager` | the owner's calls (`Api`) and threads in numbered slots, one action per lock |
| `Cgroup` | `CgroupManager`, `PredictiveClamp` | one action per critical section and per file written; each write may fail |
| `Config` | `ConfigValue`, `Config`, `ConfigHealer`, `ConfigWatcher`, `ConfigManager` | a value is its kind and the text it prints as, a file the text behind each key. `OpenToSave` and `Write`/`WriteFails` are the two halves of `fs::write`; `ProcessLogLine` goes up to its save; `Restart` is a crash at any point; `Edit` is somebody with an editor |
| `Seccomp` | `StateBoundSeccomp` over `SeccompManager`, with a `Lifecycle` verifier per process | `Enforce` hands a verdict to `apply_protocol_bounds`, `Track` an accepted one to `update_phase`, `InstallFilter` comes at any time |
| `LsmRules` | `LsmCondition`, `LsmRule`, `parse_rules`, `default_rules`, decisions | operators only; a text is a sequence of the pieces the conditions tell apart, a line of the rules file its words |
| `AccessPolicy` | what an `LsmManager` promises | one policy, replaced or changed at once, and verdicts that are the policy's own; no threads, no locks, no file |
| `Lsm` | `LsmManager` with its two mutexes and its rules file | one action from one mutex, or look at the file, to the next: `LoadBegin`/`LoadRead`/`LoadInstall` are `load_rules`, `EvaluateHook`/`RecordDecision`/`LogDecision` are `evaluate_hook`, `StatsRules`/`StatsDecisions` `get_stats`; `Edit` is the administrator. `answered`, `cleared` and `events` are history |
| `KernelModules` | `DkmsManager` with its XDP and zRAM front ends, and `LkmManager` | one action per external command or critical section: `CheckLoaded`, `Modprobe`, `Verify`, `IsDkmsAvailable`, `DkmsInstall` are `load_module`, `CheckUnload`, `Rmmod` are `unload_module`; `Loaded` and `Unloaded` say what each caller does with the answer; `Outside` is an administrator. `seen`, `out` and `cause` are history |

`MC<Module>` instantiates a module for TLC. The theorems are in `MainProofs` (the
reader, the filter loop, the renderer and the vector file), `SeccompConfigProofs`
(seccomp and the configuration), and `RollbackProofs`, `ZramProofs`, `GossipProofs`,
`CgroupProofs`, `LsmProofs` and `KernelModulesProofs`. An operator with the
comment "A bug for the runs to find" is a plausible mistake in the code; it is
used by no specification, only put in the place of the right definition to see
that a property notices.

## Runs, bounds and what they show

* **record_reader**: every input of up to 6 bytes over a newline and one other
  byte, a limit of 3 and buffers of up to 3 bytes. Records shorter than, equal to
  and longer than both limit and buffer occur, in every cutting into reads.
  The splitting is a function of the input alone (`ImplementsSplitter`), what is
  collected is exactly the unfinished line, the limit is exact, and the loop
  ends (`StreamEnds`).
* **log_filter**: up to 5 of five lines, window of 3, thresholds of 7/5 and -1, all four
  combinations of options. 5 records are two more than the window, enough for a
  full handshake and a reset. 7/5 is low enough for a window of 3
  samples to exceed it; the default of 3.5 would need 14. The program takes any
  number, and one of 0 or less marks every record: there the test of the variance
  (`analytics_fallback.c` 30) matters, without which equal lines score NaN and go unmarked.
* **vector_file**: up to 3 records over a file with 2 old ones, or a foreign
  file, or none; one encoder, one decoder, in any interleaving, the encoder
  failing or crashing and the decoder failing anywhere. Two records suffice for a torn one behind a
  whole one; the third is for a reader in between.
* **render**: lines of 2 and 3 bytes with up to 3 tokens out of six: nested, overlapping,
  equal, empty, past the end. Overlap is a relation of two tokens and the cursor
  is the third thing involved.
* **rollback**: three threads (two hold the locks that matter, the third is
  the one a lost lock would let in), one attempt and two triggers recorded, so
  that a command fails or succeeds and the next trigger is tried or refused;
  `OneRollbackAtATime` is proved for all numbers. A trigger is answered
  (`TriggerIsAnswered`) unless `get_stats`, which takes the mutexes in the
  other order, waits for it and it for `get_stats`: then neither ever goes on.
  This is the liveness of the program as it is, and the exception is a
  defect of it.
* **zram**: two threads, two devices, limit 2, 4 devices taken, clock to 3 with a
  retention of 1, a manager alone and one in an ejector: wrap-around, overshoot and expiry
  all occur. The theorems cover a manager without devices too, of which every call fails.
* **gossip**: two slots for each kind of thread (one restart), one peer, one
  vector, one signature. `Rebinds` says what the system answers when an address
  is bound a second time; the run allows both answers. Linux refuses UDP binds
  without SO_REUSEADDR, and there `start` never gets past its error.
* **cgroup**: two threads, one process, a history of 2 samples, 3 samples in
  all: one sample can be pushed out between the two derivatives. Nothing in
  `PredictiveClamp` creates the cgroup directories, so on a real cgroupfs
  the writes fail unless they were made through a `CgroupManager`; the model has
  both outcomes of every write. Both thresholds are 1; the theorems hold of any integers,
  and below 0 even a process with one sample is clamped, since its derivative counts as 0.
* **config**: a required, an optional and an unknown parameter and a path in a
  message; three texts, chosen so that a value changes its kind when it is
  saved, once or twice (`1.0`, `1`, `true`); one edit of the file and one change in
  memory at any time, any number of saves, reloads, log lines, failed writes and
  crashes. A save that is cut short leaves the first lines and a part of the next: its key
  without a text, a beginning of its text (`10` becomes `1`, which reads as a boolean),
  or of its key (the optional key becomes the unknown one). One edit is enough for a watcher to hold what the file no longer has
  and to write over it.
* **seccomp**: two processes, six events in all: a handshake of one beside events of
  the other, a handshake after a violation, and a reset after a handshake.
* **lsm**: two threads, one change of the file, two loads, additions or
  removals, and two evaluations. The file is missing, without a rule (so that
  the defaults apply), or has a rule with a condition it cannot read, an unknown
  hook and an unknown action beside lines that are skipped. Two changes and an
  edit suffice for a load that overwrites an addition or installs an older file
  after a newer one; two answers for two orders. Three of any of them multiply
  the states by ten and add no case.
* **kernel_modules**: two threads, two calls, two modules, one of them possibly
  built in, so that `modprobe` succeeds for it and `lsmod` never lists it, one
  intervention of an administrator, and any command failing. Each hazard is a
  call and one other actor between two of its commands.

No run is expected to fail. Where the code does not do what it says of itself,
the properties state what it does, with the exception named. These departures
were met while modelling:

* `process_log_line` (`config.rs` 777) returns "The service name if a
  configuration was fixed". A watcher's healer has no defaults, since nothing
  reaches `set_default`, so healing is an error or the configuration as it was;
  what changes is a new parameter with the path of the message as its name
  (790-793), and for that the service is named. `FixStoresAll` is what a named
  service can rely on.
* The health monitor is to "provide automatic rollback on critical system
  failures" (`rollback.rs` 3-4), and `get_stats` (372) can stop it for good, see
  the rollback run.
* `load_rules` returns early without a rules file with the comment "use defaults"
  (`lsm.rs` 353-354) and no defaults are there: a new manager allows
  everything, and reports success. `OpenOnlyWithoutFile` is what remains.
* `SilentDeny` is documented "(no logging)" (`lsm.rs` 105-106); `log_decision`
  writes a line for it like for any other action.
* A rule added, or removed, while another thread is in `load_rules` is undone
  by it, and of two loads the one that read first may install last. Nothing
  promises otherwise; `AccessPolicy` has both as changes of the policy.
* `reload_module` (`dkms.rs` 411-414) answers true for a module that could not be
  unloaded; `ReloadExcused` lists the cases.
* `is_loaded` (`lsm.rs` 827-833) answers from the flag when it is set; the cases in which
  the module is not there are those of `StaleFlagHasCause`. One of them is
  `register_lsm` (754-770): it looks for `lsm_name` in the list of active LSMs and sets
  the flag of the module `module_name` without asking `lsmod`, so the flag may be set for a
  module that was never loaded, or that the manager itself has unloaded.
* A crash, or a full disk, between the two halves of `save` (`config.rs` 547-551) leaves a
  file without its last lines, with a line cut in two, or empty. Nothing recovers it: the next
  watcher reads what is there. `FixStoresAll` says only that no service is named
  as fixed for such a save.
* The manager of a `MemoryEjector` is private and the ejector never calls
  `cleanup_expired`, so once `max_concurrent_snapshots` are stored `eject_memory` refuses for good.
* The table of `DkmsManager` is written by `initialize` only, so `get_status` counts what
  was loaded then.
* The phase given to the vector encoder (`main.rs` 235) is documented as the current one, but
  is Cold for every line without an accepted event; `RecordedPhaseIsEarned`
  says what it means instead.
* `max_concurrent_snapshots` (`zram.rs` 399, 438) is checked in one critical section and used
  after it; `OvershootBounded` is what remains of it.
* `start` (`gossip.rs` 327-332) answers that the socket is not initialised when it is but
  could not be bound a second time, and leaves `running` set.
* `seccomp.rs` 8-12 gives a filter that kills `execve` in Ready as its purpose; Ready has no
  rule for it and allows by default. Bound has the comment "Allow most operations except
  privileged ones" (186) and no rule that allows anything, with Kill as the default:
  a process that binds may call nothing until it is Ready. The numbers 4 and 5 are commented
  as read and write, which they are not on x86-64; the model has only the numbers.
* Two of the three message forms in the comments of `ConfigError` (642-650) are not recognised:
  "Syntax error" is looked for in lower case, "could not load" not at all.

Deadlock is checked in render, cgroup, config and seccomp. The other systems really stop:
the program exits, the bounded numbers of calls, loads and answers run out, and rollback and gossip have the
deadlocks described under their properties (`StuckOnlyByStats`,
`OnlyMembershipBlocks` say that these are the only ones).

## Fairness

* `RecordReader`: weak fairness of the next step. The call is polled again
  whenever input is ready, and the input is finite; used for `StreamEnds`.
* `Lsm`: strong fairness of each thread's continuation: a read of the file ends, and
  a mutex that is free again and again is granted some time. `CallsReturn` needs
  it only for threads that have begun; nobody has to begin.
* `Rollback`: strong fairness of each thread's continuation. A std mutex that is free
  infinitely often is granted some time in any scheduler worth the name, and the
  rollback command ends; this is more than the library promises, and the
  circular wait with `get_stats` remains even so. Nothing says that a thread calls at all.
* `KernelModules` states none: a command may hang, and nothing depends on it.
* No other specification states fairness and no other liveness is claimed.

## Proofs

All theorems hold for every value of the constants that satisfies the named
assumption of the module, which the runs evaluate. Most assumptions only give
types and say that a thread is not the value for "nobody". Those that say more:

* `ConfigAssumption`: what Rust guarantees of its numbers. One that is printed reads as
  the same number, no number reads from an empty text, and of the words for
  booleans only `0` and `1` are numbers. A key that was cut short is one of the keys.
* `LsmAssumption`: no rule that is added has the description that `evaluate_hook` gives
  when no rule matches. Only answers by a rule are recorded, and by it `TrailIsComplete` and
  `OpenOnlyWithoutFile` tell the two apart. Priorities are natural numbers (`u32`).
* `FilterAssumption`: lengths of lines are natural numbers (`usize`), and a threshold is a
  fraction of any sign; over 0 it is an infinity, and NaN acts like the positive one.
* `CgroupAssumption` asks only that thresholds are integers: the differences of samples can be
  scaled to any unit. NaN and infinity never clamp, like a
  threshold larger than every difference.
* `ZramAssumption`: there are threads, and finitely many.
* `RenderAssumption` asks nothing of the tokens; what a parser returns is
  any list of them, also out of bounds.

Where a proof needs induction over numbers it is taken in the form of sets: < on `Nat` is
well founded (`NatLessThanWellFounded`, `WFMin` of the library), so a set of naturals that
has 0, and with `n` also `n + 1`, has them all (the lemma `Induction`, in `MainProofs` and
`LsmProofs`).

Each proof rests on an inductive invariant, which is where the argument is:

* `MainProofs`, reader. `IInv == TypeOK /\ PartialLine /\ WithinLimit`.
  `PartialLine` is what carries the argument: `line` is the input between the last
  record's end and `consumed`, with no newline in it. `WithinLimit` needs it to know that
  a rejected chunk would really have passed the limit. For `Refinement`, each
  step that returns a record is a step of `LineSplitter` with the same line, and
  every other step a stutter; the lemma `Adjacent` puts the chunks together.
  `RecordsAreTheInput` follows from the splitter's steps: each adds a cut behind the
  next newline. Where the next cut is follows from the last, so by induction two readers of the
  same bytes cut alike (`ReadingIsDetermined`). `NeverStuck` and `EveryStepCounts` are
  what is behind `StreamEnds`: there is always a step, and each lowers `WorkLeft`.
* `MainProofs`, filter loop. `LoopInv == InPlace /\ Copied /\ Flushed`. Unless a write
  failed, what is delivered, what the blocking thread has and what is about to be
  written are together the whole history (`Copied`), so nothing can overtake or get lost;
  once one failed, what is delivered is a prefix. `ExitKeepsOutput` follows from `Flushed`: exit
  waits for the thread. `WindowIsRecent` needs that the last `Window` samples of a
  history with one more record are the old ones without the oldest.
  `LengthNeedsSamples` is about sums over windows of every length. With `m` numbers of
  sum `S` and sum of squares `Q`, spread(m) is `m*Q - S*S`, and
  `m * spread(m+1) = (m+1) * spread(m) + deviation^2` (`SpreadIdentity`). By induction no spread is
  negative (`SpreadsNatural`), so `deviation^2 <= (n-1) * spread` (`LastIsNear`), which is the
  claim; a threshold of 0 or less marks every record. The running sums of the C loop are a recursive function, whose equations `RunningSumsAdd` proves.
  `PhaseInv` gives for each phase the accepted records since the last reset that lead there,
  and each action extends, drops or keeps that list.
* `MainProofs`, severity and protocol. The C code that is linked in is compared with the
  Agda and Idris sources that are not: `SeverityJoin` is a least upper bound
  (`JoinIsLattice`), and `ProtocolStep` has the `Transitions` that `Protocol.idr` lists
  and no others (`StepsAreTransitions`).
* `MainProofs`, renderer. `RenderIInv`: the fragments written so far are contiguous
  from 0 to the cursor, and each coloured one is a token. `OverlapInv == PassedBefore /\
  LastShown /\ NextInRange /\ LosesOnlyToOverlap`: the cursor is where the last
  token shown ends, and those dealt with begin no later than the next, however the sort
  orders equal ones; so a token passed over begins within the last one shown.
* `MainProofs`, vector file. `VectorInv == EncoderInv /\ (~overtaken => DecoderInv)`. The first says what the
  file holds at each place of the encoder: what was there before (`Untouched`) until it
  is created anew, and from then on the header and whole vectors, with half a
  vector behind them only between the two writes or after a crash (`Written`). The second says what
  the decoder has printed, of the old vectors or of the new ones, and where it is in the file. It
  claims nothing of a decoder that had the file open when it was truncated.
* `RollbackProofs`. `OneRollbackAtATime` is not inductive. `IInv` adds which mutexes a
  thread holds at each place (`LocksMatchPlaces`), that past the check there is
  room for one more success (`RoomToSucceed`), and that the counter is the
  number of successes (`Counted`). Mutual exclusion of `attempts` gives that nobody
  else uses up the room. `Paired` adds that records and executions come in pairs, with
  one record ahead while its command is to run. `StuckOnlyByStats` follows from who can
  hold what; with `CallsAreShort`, no call needs more than four steps and none is
  undone, it is what `TriggerIsAnswered` rests on. `RoomToSucceed` also gives that no
  command is run any more once the limit is reached (`NoRollbackPastLimit`).
* `SeccompConfigProofs`, seccomp. `TablesAgree` is inductive together with the verifier's type:
  every call enters the phase the verifier has after the event, and a violation, which
  leaves the enforcer's table out, does not move the verifier. `PhasesEarned` gives the events that a
  process earned its phase with; only Ready allows a dangerous call, and Ready takes all of them.
* `SeccompConfigProofs`, configuration. The lemma `ReadingSurvives` is about one value: what a
  getter says of it is what it says of the value read back from its text, by cases on
  how that text reads. The order in which `from_str` tries
  its readings matters, and `ParseCases` puts it in a usable form. It holds of values that `from_str` or a setter can make
  (`WellFormed`), and `ValuesInv` says there are no others. `HealingIsSound` is for any parameters, defaults and
  strategy. `FixInv` says of a fix that is being saved what `FixStoresAll` says once it is.
* `LsmProofs`. `AccessPolicy` has no threads, so the proof has to say what a thread
  carries from one critical section to the next. `IInv` adds to `TypeOK` that the
  rules' mutex has one holder (`Exclusive`), that what is about to be installed is the policy
  of a file (`CarriedRules`), and that a decision on its way to the two records is a
  verdict of the rules in force (`CarriedVerdict`), which holds because nobody changes
  the rules while another holds them. Loads and evaluations become steps of the
  policy at their last action, changes of rules at their only one, all else stutters. What
  matching and deciding compute is opaque to the proof. For the two records,
  `TrailInv` uses the same holder: while a decision is in only one of them, nobody else decides.
  `VerdictIsOne` says that the policy is total and has no ties: among the rules that
  match, one leads by priority and place (`SomeLeads`, by induction on the place), since priorities
  are numbers in whatever rules were loaded or added (`Proper`). `ParsedInOrder` is
  about `parse_rules` alone: numbering the lines that are rules loses none and swaps none.
  `NoCircularWait` needs `Exclusive`: who holds the rules is the only one who could be at
  the decisions, so it never waits there, and everybody else waits only for it.
* `CgroupProofs`. `IInv == HolderWrites /\ Progress /\ Agreement`: the thread at a write is the
  one that holds the mutex, what it decided to do was right and still is, and record and limits
  agree but for the process it is half way through, or where a write failed.
  `RunawayHasCause` needs that the history kept is the end of all samples
  recorded (`LastOf`), and that it may be another history between the two
  derivatives: the two causes are found in the samples recorded, each at its own time.
* `ZramProofs`. The limit can be passed by the threads that are between the
  check and the store; the one that stores last was below it when it looked, so it is
  passed by fewer than there are. The devices are in turn because index and device are taken
  in one critical section; there may be none. A snapshot that is removed has been found expired by a clock that only
  goes on.
* `GossipProofs`. `IInv == TypeOK /\ EveryoneInPlace /\ HoldersInPlace`: from a thread's
  place follows which mutexes it holds, and nobody but the owner takes a second one
  while holding the vectors. The mutex of the node table is the only one somebody can wait for
  while holding it.
* `KernelModulesProofs`. `IInv == Types /\ EveryCall /\ PendingFlag /\ StaleFlagHasCause`. `Fine`
  says what holds of a call at a place, given the modules seen and missed in it; `Progress` that
  a call with a list has seen, or failed with, everything before the module at hand. A
  step of one thread, or of an administrator, keeps the calls of the others, since what
  a call has seen only grows. `PendingFlag` says of a thread about to set the flag that the
  module is there or that there is already a cause. One lemma for each kind of step shows `StepOf`, and the
  action properties are read off the same steps.

Only model-checked:

* `StreamEnds`, `TriggerIsAnswered`, `CallsReturn`: liveness under fairness and ENABLED are
  out of the prover's reach.
  Their safety halves are theorems: of the reader `NeverStuck` and `EveryStepCounts`, of the rollback
  manager `OnlyStatsBlocks` and `CallsAreShort`, of the LSM `NoCircularWait` and `CallsAreShort`.

Every other property of the runs is a theorem.

## Not modelled, and why

* Byte-level parsing, formatting and colours: no state; the renderer's
  properties hold for any tokens.
* Floating-point encoder, baseline, entropy and jitter statistics: TLC and the
  provers have no reals.
* Serialisation, sequence numbers and ages of gossip nodes; dumps of zRAM
  snapshots; creation and removal of cgroup directories; rollback's read-only
  getters and `force_recovery`, which only runs a command.
* tokio splits a write of more than 2 MiB; a line with its notes is treated as one
  write. A reader whose file is truncated under it is in the model, but what it
  then prints is left open.
* The configuration's owner is one thread, and an editor does not write in the
  instant between the two halves of a save. Values that are lists or maps, and strings with line
  breaks, are left out.
* seccomp's `remove_filter` and `clear_filters` (nothing reaches them through the
  enforcer) and its table of names.
* The capability functions read `/proc` or the output of `capsh`, or hand a request to
  a native function; they keep no state and
  never use the `LsmManager` they are given. `LkmManager::build`, `install`, `remove`,
  `get_version`, and `install_dkms_module`, `remove_dkms_module`, `build_dkms_module`
  run commands or copy files and touch nothing a later call reads.
  `create_zram_devices` writes one line per device after `ensure_zram`, and stops at
  the first error.
* A manager that is disabled returns at once; `required` in the definitions is
  taken as given by the list of modules.
* Numbers in a context fit into 32 bits, where `pid`, `uid` and `gid` are read as u32
  and the conditions as u64.
* Reading functions under one mutex (`list_rules`, `list_decisions`,
  `get_module_info`, `list_modules`) change nothing.
* The scheduler, the jitter detector and the XDP table are used by one owner, or
  under one mutex per call; see the plan.
* Packaging and build files.

## Plan

The modules above are the parts whose calls interleave, fail half way or
outlive a restart. What is left, in the order of what a mistake would cost:

1. `Scheduler`: assignments and the last result against the processes that are left.
2. `Xdp`: the sorted table, partial initialisation; `Timing`: the lengths of its windows.
3. Of the modules that are there: a rules file of `Lsm` that is read in pieces, and the
   removal of filters in `Seccomp`.
