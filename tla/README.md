# TLA+ models of the Pandora FMS Windows agent

This directory holds TLA+ models of the Windows agent in `src/`. Each model comes with TLC
configurations that check it, and `PROJECT.json` records what every model definition translates:

- `map` names the source lines behind each definition;
- `runs` lists the checks;
- `mutants` lists the seeded bugs that each passing property catches;
- `findings` lists what TLC found;
- `hazards` lists what is hard to test in this code.

## 1. The system

The agent runs a configured set of probes ("modules") periodically. It evaluates each value
against ordered rules, switches modules into a faster "intensive" polling mode, and queues the
results for export.

| Part | Source | State it keeps | Operations |
|---|---|---|---|
| Module registry | `src/modules/pandora_module_list.cc` | `modules` (list of `Pandora_Module *`), `current` (heap-allocated iterator) | constructor (parse the modules file), `parseModuleDefinition`, `goFirst`, `goLast`, `goNext`, `goPrev`, `isFirst`, `isLast`, `getCurrentValue`, destructor |
| Configuration loader | `src/pandora_agent_conf.cc` | `key_values`, `collection_list`, `collection_it`; the caller's `all_conf` array; broker files on disk | `setFile (all_conf)`, `setFile (filename)`, `parseFile`, `writeBrokerConf`, `getValue`, collection iterator (`goFirstCollection`, `goNextCollection`, `isLastCollection`, `get/setCurrentCollection*`), `isInCollectionList` |
| Process / service probes | `src/modules/pandora_module_proc.cc`, `pandora_module_service.cc` | process or service name | constructor, `run` |
| WMI helpers | `src/windows/pandora_wmi.cc` | none (queries) | `isProcessRunning`, `isServiceRunning`, disk/CPU/memory/OS queries, event log, `runProgram`, `start/stopService` |
| Module contract | `src/modules/pandora_module.h` (declarations only) | interval, intensive interval, timestamp, conditions, data queue, output | `run`, `checkCron`, `evaluateConditions`, `evaluateIntensiveConditions`, `setOutput`, `setNoOutput`, `exportDataOutput` |
| Watchdog | `src/modules/pandora_module_proc.h` (fields only) | thread, watchdog, start_command, retries, delays | (no body in `src/`: the check-and-restart loop per spec 4.3) |
| Entry point | `src/main.cc` | install path and install directory (`Pandora::set...`) | `main`: derive the install directory from the executable's path, dispatch on the first argument (install, uninstall, SSH test, help, usage) or run the service |

Several bodies are not in `src/`. The `spec.md` sections cited below describe them, so the
models take them from there and `PROJECT.json` marks those definitions `spec_modelled`:

- the module factory;
- the base module's methods (`run`, `checkCron`, the `evaluate*` functions, `exportDataOutput`);
- the service's main loop (`Pandora_Windows_Service`);
- `Key_Value::parseLine`.

**How the parts interact.** `main` sets the install path and directory from the executable's
path and, given no argument, runs the service in the working directory it was started in. The
configuration loader reads `installDir + "pandora_agent.conf"` and names broker files by both
directories. The main loop (spec 2, 5) builds the registry from the modules file
and then cycles. It walks the registry with `goFirst` / `isLast` / `getCurrentValue` / `goNext`,
and runs every module whose interval has elapsed. A module's `run` ends in one of two ways:

- `setOutput`: it queues a Data record and evaluates its condition lists;
- `setNoOutput`: a probe error was caught.

The main loop then walks the registry again and drains each module's queue with
`exportDataOutput`. The configuration loader is a singleton. The service reads it for the agent's
settings and its file collections, and it writes broker configurations next to the agent's
configuration.

**Hard behaviours.**

- *Registry: partial construction.* An unopened modules file returns from the constructor early
  (list.cc:38).
- *Registry: an unterminated definition* at end of file is still parsed (list.cc:55).
- *Registry: cursor boundaries* (`end ()`, `begin ()`).
- *Loop: cycle ordering.* Run before export; every queue is drained exactly once.
- *Loop: interval timing across cycles.* A module with a long interval must not starve.
- *Loop: intensive mode.* One match enters it; two misses leave it.
- *Loop: probe errors.* They are caught and never fatal (spec 4.1, 7).
- *Loader: destructive reload.* `setFile` deletes the old lists before it knows the file opens
  (conf.cc:154-164).
- *Loader: stale iterator.* `collection_it` is left pointing into a deleted list, and
  `goNextCollection` has no end guard (conf.cc:368-438).
- *Loader: line classification by substring.* Lines are classified by substring search, in a
  fixed order, and an include line falls through the later tests (conf.cc:174-237).
- *Loader: substr past the end.* `substr (pos + 8)` and `substr (pos + 13)` skip the word and
  one character more, so a line that ends with `include` or `broker_agent` throws
  `out_of_range` out of `setFile`; nothing in `src/` catches it (conf.cc:179, 196).
- *Loader: broker slot.* A per-line counter resets for every broker line (conf.cc:194).
- *Loader: broker directory.* The broker file is recorded under the install directory but
  tested and written relative to the working directory (conf.cc:199 vs 202-206).
- *WMI: time zones.* `getTimestampLimit` derives the UTC offset from `mktime (gmtime (now))`
  and formats `localtime (now - interval)` with it (wmi.cc:470-496); `convertWMIDate` reads the
  fields back at fixed offsets (wmi.cc:511-516).
- *Entry point: unsigned arithmetic.* `pos = aux.rfind ("\\")` is an `unsigned int` and
  `erase (pos + 1)` must keep the separator; `npos + 1` wraps to 0 (main.cc:44-45).
- *WMI: swallowed failures.* Every helper catches a failed query and returns its default or
  the count so far; `isProcessRunning` then reads 0 (wmi.cc:77).
- *WMI: one static buffer.* `getWmiStr` builds the moniker in a `static` buffer with a
  `wcscpy` and two appends and returns it (wmi.cc:34-48); every helper, on every thread,
  writes it before `dhGetObject` reads it.
- *Watchdog: concurrency.* Per spec 4.3 and 5, the watchdog is a second thread beside the main
  loop. Its code is not in `src/`. Spec 5 has it share the liveness and retry count with
  `run ()`, but the `run ()` in `src/` reads neither. What the two threads do share is
  `getWmiStr`'s buffer.

**What makes each part correct.**

- *Registry:* the list is the file's definitions in file order, and the cursor stays within
  `begin ()..end ()`. There must be no undefined behaviour for any file, present or not.
- *Loop:*
  - exactly the due modules run each cycle;
  - each Data record is exported once;
  - every module keeps running;
  - probes report the state of what they watch.
- *Loader:* after a reload, the configuration is the file's, with the `..` filter applied to
  included collections too. Each broker gets its own `all_conf` slot, and the file it names
  exists. Every load returns.
- *WMI:* an event query returns exactly the events of the last `interval` seconds; a WMI date
  reads back as the date written.
- *Entry point:* the install directory is the executable's directory, separator included.
- *Watchdog:* each thread's WMI query connects with the moniker it built itself.

## 2. Modules

| Module | Models | Composes |
|---|---|---|
| `ModuleList` | the registry: constructor as one step per line read, `parseModuleDefinition`, the cursor, the destructor, a reload (destroy and rebuild); `Module_Kind` and the kind keys of `pandora_module.h` | `INSTANCE Traversal WITH ...` (refinement) |
| `Traversal` | the registry as spec 4.4 promises it: one atomic build in file order, a cursor over `1..Len(items)+1` that stops at both ends, destroy and rebuild | — (abstract) |
| `EntryPoint` | `main`: `GetModuleFileName`, `rfind`/`erase` in unsigned arithmetic, the dispatch on `argv[1]`; how the process was launched decides its working directory | — |
| `WmiProbes` | `getWmiStr`'s buffer writes, `dhGetObject`, `isProcessRunning`, `isServiceRunning` (the rows a query visits), `runProgram` | — (operators) |
| `AgentLoop` | the main loop, interval/intensive scheduling, condition engine, `setOutput` / `setNoOutput`, `exportDataOutput`, the proc and service probes | `EXTENDS ModuleList, WmiProbes`: the loop drives the registry's own cursor actions; `INSTANCE Scheduler WITH ...` (refinement) |
| `Scheduler` | the cycle as spec 2, 4.2 and 5 promise it: wake, run each due module once in any order, drain every queue, sleep; no registry, cursor or probe | — (abstract) |
| `AgentConf` | `setFile` (one step per line, in the code's test order), `parseFile`, `writeBrokerConf` (into the working directory), `getValue`, the collection iterator | `EXTENDS EntryPoint`: `main` runs first, then the service loads its configuration |
| `WmiEvents` | `getTimestampLimit`, `getEventList`, `convertWMIDate`; `gmtime`, `localtime`, `mktime` by what they do to an instant; the WMI date as a digit sequence | — |
| `Watchdog` | the watchdog thread's check / restart / wait loop (spec 4.3) beside the main loop's `Pandora_Module_Proc::run`, both querying through the shared `getWmiStr` buffer | `EXTENDS WmiProbes` |
| `MC_*` | the constants for TLC: modules files, condition lists, configuration files | extend the module they check |

**State and action correspondence.**

`ModuleList`:

- `file`, `fileOpen` and `pos` are the `ifstream` and the line being read.
- `block` is `str_module`, the definition being read.
- `modules` holds the list; each module is reduced to its kind and the line where its definition
  starts.
- `current` is the iterator's position, `1..Len(modules)+1`, where the last value is `end ()`.
  `Uninit` means never allocated.
- The constructor's loops become the actions `OpenFile`, `ReadLine`, `ReadModuleLine`,
  `ModuleAtEof` and `CloseFile`, one per line read.
- An access through the unallocated iterator is undefined behaviour. `Crash` records it (`ub`)
  and the process stops there.
- `goNext` and `goPrev` first compare `current` with `NULL`. An uninitialised pointer may or may
  not equal `NULL`, so `UninitStep` allows both outcomes.

The refinement maps the registry onto `Traversal`: `items` is `modules` while the list is built
and empty otherwise, `at` is `current` while built, and construct/parsing map to
`"constructing"`. The constructor's line steps are stuttering steps of `Traversal` and
`CloseFile` is its `Build`. `Parse` is instantiated with "the exec, proc and service
definitions of the file", the list the code really keeps (finding 1).

`AgentLoop`:

- Time is the number of ticks since a module last ran, saturated at `MaxInterval`. The due check
  only compares it with intervals of at most `MaxInterval`, so nothing is lost.
- A Data record is its value and the parity of the cycle that produced it.
- History variables `ran`, `due0` and `produced` record the cycle for the properties.
- The refinement maps `loop` onto the scheduler's stage, `cfg` onto the interval pairs,
  `mod`'s `elapsed`, `intensive` and `data` onto the clocks, flags and queues, `due0` onto the
  due set and `ran` onto the modules run. A not-due skip, a cursor move and a process going up or
  down are stuttering steps of `Scheduler`; `RunOutput` and `RunError` are its `Run`.
- `ModuleState` is the record of `Pandora_Module` fields the loop uses, `Condition` the
  `pandora_module.h` record.
- The probes follow the code:
  - the proc module's output is the constant 1;
  - the service module's query runs with the empty name its constructor leaves, so it finds no
    row.

`EntryPoint`:

- A path is a sequence of characters. `rfind` returns the 0-based index of the last
  backslash or `npos`, the largest `unsigned int` (`UINT_MAX`); `IncU` is `pos + 1` with its
  wrap to 0.
- `SetInstallDir` is lines 41-46, `Dispatch` the argument loop, which returns in its first
  iteration, so only `argv[1]` counts. `outcome = "run"` is `service->run ()`.
- `cwd` is the working directory: `System32` when the service control manager starts the
  process, the console's directory otherwise.

`WmiProbes`: the static buffer is the sequence of parts written since its last `wcscpy`;
`getWmiStr(buf, k)` is write `k`, and `dhGetObject` connects only on the whole `Moniker`.
`Visited(rows, connected)` is what `FOR_EACH` walks: all rows, or none when `dhCheck` throws
and the helper's `catch` returns its default.

`AgentConf`:

- A configuration line is abstracted to a record: whether it is a comment, which searched
  substrings it contains (`include`, `broker_agent`, `file_collection`, `module_`, `..`), which
  of them ends the line (`ends`), its first word and the rest.
- `ConfLineThrows` is the line at which `substr` throws: the reading stops in phase
  `"thrown"`, the state the uncaught exception leaves. `setFileByName` and `setFileAllConf` are
  the two `setFile` variants.
- Included files are a function from a name to lines. A name outside its domain cannot be
  opened.
- The collection iterator is its position plus `itValid`, which records whether it points into
  the current list.
- Iterator use before the first `setFile`, after a reload, or at `end ()` is undefined behaviour
  (`Crash`).
- A path is a directory and a name. `all_conf` gets `Path(installDir, name.conf)`;
  `brokerFiles` holds the files `writeBrokerConf` wrote, `Path(cwd, name.conf)`. Both
  directories are `EntryPoint`'s, so the configuration steps start once `main` has chosen to
  run the service (`ConfNext`).

`WmiEvents`:

- An instant is a `time_t`; `gmtime`, `localtime` and `mktime` are modelled by the wall clock
  they produce or read, with a standard offset and a DST shift after `DstStart`. `mktime` of a
  `gmtime` result (tm_isdst 0) reads the wall clock as standard time.
- `tmFields` is the calendar date of a wall clock (the fields `snprintf` prints);
  `FormatWMIDate` pads them to the `%.4d%.2d...` widths as digit sequences, and
  `convertWMIDate` reads them back with `atoi (substr (pos, len))`.
- WMI's `TimeWritten >= limit` compares instants: `Instant` is the limit's wall clock minus
  its offset. The `Type` and `EventCode` filters are built like the `Logfile` one and omitted.
- `time (0)` may fail (`timeOk`); the function then returns an empty list.

`Watchdog`:

- `wpc` and `tpc` are the two threads' program counters. `tries` counts the restart attempts
  of an outage, up to `Retries` (spec 4.3).
- A thread writes the moniker into the shared buffer `wmiStr` in three steps (`WmiStrStep`,
  `qstep` counts them), then connects and queries (`QueryCount`).
- Both threads query with `process_name`. The constructor leaves it empty (proc.cc:34-35), so
  the query matches no row even when it connects. The watchdog therefore never finds its
  process; the run is about the buffer, not about what the query finds.
- The main loop runs `Pandora_Module_Proc::run` (`TickQuery`): its `isProcessRunning` writes the
  same buffer, and its result is ignored (proc.cc:48).
- Nothing is published to `run ()` and there is no lock: neither exists in `src/`.
- `runProgram (start_command)` adds an instance when `CreateProcess` succeeds, and may fail.
  An instance may stop at any time, at most `MaxFailures` times. `start_delay` and the check
  period are single steps.

## 3. Runs

| Run | Config | Expect | What it shows |
|---|---|---|---|
| `modulelist` | `ModuleList.cfg` | pass | Every present modules file of up to 5 lines over {begin, end, other, exec, proc, freedisk} is checked. After construction the list equals a whole-file reading of the definitions (`ParsedInFileOrder`), including nested begins and definitions cut off at end of file, under any later cursor moves, destruction and reload; and the registry implements `Traversal` (`TraversalRefined`: `Abstract!Spec` as a PROPERTY). A missing file is `modulelist_missing`. |
| `modulelist_recognized` | `ModuleList_recognized.cfg` | violation | A `module_freedisk` definition, which the factory recognises, is not in the list. Spec 4.4 says recognised modules are appended. |
| `modulelist_missing` | `ModuleList_missing.cfg` | violation | A missing file, then `goFirst`: a write through an unallocated iterator. |
| `agentloop` | `AgentLoop.cfg` | pass | Four modules files mix exec, proc and service definitions with a nested begin and a cut-off block. Intervals are 1 or 2 and the intensive interval is 1. The intensive condition matches one of the two values. The run checks that the loop implements `Scheduler` (`SchedulerRefined`: each cycle runs exactly the modules due when it woke, each once, and drains every queue before it sleeps, and the loop never stops cycling), every record is exported exactly once, and no module starves (liveness under weak fairness of the main loop). |
| `agentloop_probes` | `AgentLoop_probes.cfg` | violation | `ProbesReportLiveness`: a proc module reports 1 while its process is down, a service module 0 while its service runs (findings 3 and 4; TLC shows whichever it reaches first). |
| `agentconf` | `AgentConf.cfg` | pass | Two configuration files exercise every branch of the per-line test chain, including an include of a present and of a missing file, with reloads and iterator calls in any order. After every `setFile` the key/value and collection lists are exactly the file's reference reading (`ConfMatchesFile`). `main` runs first, for executables in a subdirectory and at a drive's root and for every kind of argument list; the install directory is the executable's, separator included (`InstallDirIsExeDir`). Two more files hold a `broker_agent` line with an empty name, a bare `broker_agent` line and a key whose value ends in `include`. |
| `agentconf_broker` | `AgentConf_broker.cfg` | violation | Two `broker_agent` lines: only `all_conf[0]` is written, with the second broker. |
| `agentconf_service` | `AgentConf_service.cfg` | violation | Launched by the service control manager, `main` runs the service in System32, the broker file is written where `all_conf` does not name it (`BrokerConfPresent`). In `agentconf`'s console launch the working directory is the install directory and the two coincide. |
| `agentconf_throw` | `AgentConf_throw.cfg` | violation | The `agentconf` files under weak fairness of `setFile`'s reading loop: a line ending with `include` (or `broker_agent`, for `setFile (all_conf)`) makes `substr` throw `out_of_range`, and the load never returns (`SetFileReturns`, finding 9). |
| `wmievents` | `WmiEvents.cfg` | pass | UTC-5 in winter, the clock read every half hour across New Year's midnight, events written from two logs with and without a word, queries for the last hour: the result is exactly the events of the window (`EventWindowExact`), and `convertWMIDate` reads back year, month, day, hour, minute and second of every limit written (`ConvertWMIDateInverts`). |
| `wmievents_dst` | `WmiEvents_dst.cfg` | violation | The same in summer (DST on): an event written 30 minutes before the query is not returned. |
| `watchdog_wmi` | `Watchdog_wmi.cfg` | violation | The watchdog thread and the main loop with `Retries = 3`: the main loop's `wcscpy` cuts the moniker the watchdog has just built, and the watchdog's `dhGetObject` gets the cut moniker (`MonikerIntact`). The failure is caught and `isProcessRunning` reads 0 (wmi.cc:77). No WMI fault is assumed. |

**Bounds and why they suffice.**

- *`modulelist`* covers every file of up to 5 lines: a begin/end pair, a nested begin, a block
  cut by end of file, and two definitions in sequence.
- *`agentloop`*:
  - intervals of 1 and 2 make modules both due and not due within a cycle, and let them fall
    out of step with each other;
  - the intensive condition `>0` matches one of the two values and not the other, so modules
    enter and leave intensive state and their effective interval changes between cycles;
  - `MaxInterval = 2` is the largest interval.
- *`wmievents`*: one standard offset west of UTC makes the offset's sign and size matter; the
  window crosses a change of year, month, day and hour, so every field of the date changes;
  three events at half-hour steps put events on both sides of and exactly at the limit.
- *`agentconf`*: the two executable paths give `rfind` an index past the drive and at the
  drive's root; `UINT_MAX` is 2^31-1 in the MC module because TLC's integers are 32-bit, and
  only its wrap to 0 matters. It also contains every branch and every pair of branches the code's order makes
  interact: an include line that falls through, and a `..` collection in both the main and an
  included file. An empty broker name next to a bare `broker_agent` line puts the two sides
  of `substr`'s bound in the run. Each is in its own file, so the line that throws never
  hides the one that must not.

**Fairness.** The main loop is one thread that never blocks for good, so `AgentLoop` assumes weak
fairness of the registry construction and the loop steps. The watched processes and services
(`Environment`) get no fairness. `ModuleList` states only safety properties. `AgentConf`
assumes weak fairness of the reading loop of `setFile` only (`ConfFairSpec`): it is
straight-line code of the calling thread, while when the client reloads or walks the
collections is its own choice.
`Watchdog` states only a safety property and assumes no fairness.

**Deadlock.**

- `AgentConf` and the violation runs of `ModuleList` end a behaviour at undefined behaviour
  (`Crash`), and in `AgentConf` `main` also returns after an option or the usage text and
  `setFile` may throw, so their runs set `CHECK_DEADLOCK FALSE`.
- `modulelist`, `AgentLoop` and `WmiEvents` have no terminal state in their pass runs, and
  deadlock is checked there.

**Mutants.** Each property of a passing run is shown to catch a plausible bug in the code it is
about (`PROJECT.json` `mutants`):

- `goNext` without its `!isLast ()` guard (`NextPos`);
- a definition cut by end of file dropped;
- `isLast` off by one (breaks the scheduler refinement: the last module is neither run nor drained);
- `exportDataOutput` that does not clear the queue;
- a not-due check that refreshes the timestamp;
- an uncapped intensive miss counter;
- `goNextCollection` past `end ()`;
- `setFile` without its reset (`NewLists`);
- the install directory cut at the backslash instead of after it;
- `isFirst` compared with the element before `begin ()` (breaks the refinement);
- the UTC offset's sign swapped; `convertWMIDate` reading the day one character early;

## 4. Findings

1. The registry keeps only exec, proc and service modules (list.cc:119) and leaks the others.
2. A missing modules file leaves `current` unallocated (list.cc:38). `goFirst` and the
   destructor then use it.
3. `Pandora_Module_Proc::run` always outputs 1 (proc.cc:48).
4. The proc and service constructors `transform` into an empty string (proc.cc:34,
   service.cc:35). The service module therefore always reports 0.
5. Every `broker_agent` line writes `all_conf[0]` (conf.cc:194).
6. The broker configuration is looked for and written relative to the working directory
   (conf.cc:202-206), but `all_conf` names it under the install directory (conf.cc:199). A
   service runs in System32, so the file named is never written.
7. `getTimestampLimit` computes the UTC offset as `now - mktime (gmtime (now))`
   (wmi.cc:470-471). `gmtime` sets `tm_isdst = 0`, so during daylight saving time the offset
   is an hour short of the one `localtime` used, and `getEventList` misses the last hour of
   events.
8. `getWmiStr` returns one static buffer (wmi.cc:35). When the main loop's proc module and
   the watchdog thread call `isProcessRunning` at once, one's `wcscpy` truncates the moniker
   the other is about to pass to `dhGetObject`; the failure is caught and reads as 0
   (wmi.cc:77): a running process reads as not running, and the watchdog would restart it.
   Spec 5 says the two threads share no state but the watchdog's own.
9. A configuration line that ends with `include` or `broker_agent`, for example a value that is
   a path ending in `\include`, makes `setFile` throw `out_of_range` (conf.cc:179, 196). Nothing
   catches it (`main` catches `Pandora_Exception` only), so the agent stops while loading its
   configuration, with the old lists already deleted (`agentconf_throw`, `SetFileReturns`).

## 5. Not modelled

Not modelled, and why:

- The bodies of `install`, `uninstall` and the SSH test that `main` calls are not in `src/`.
  `_stricmp` is taken as exact comparison.
- `getDiskFreeSpace`, `getCpuUsagePercentage`, `getFreememory`, `getOS*`, `getSystemName` and
  `runWMIQuery` serve the freedisk, cpuusage, freememory, inventory and wmiquery kinds, which
  `parseModuleDefinition` drops (finding 1): the agent never calls them. `startService` and
  `stopService` have no caller in `src/` or the spec.
- `writeBrokerConf`'s content rewriting (the `agent_name` substitution) is text processing that
  no property distinguishes. It is modelled only as "the broker file now exists".
- `runProgram` leaks the two handles `CreateProcess` returns (wmi.cc:540), two per watchdog
  restart. No modelled behaviour depends on them.
- The quote removal of an include's file name (conf.cc:181-187) is text processing. The model
  takes the name as it stands.
- The watchdog's delays are steps; `MIN_DELAY` and the lengths of `start_delay`/`stop_delay`
  are not modelled.

Parts of the spec that stay out of the models, because the code they would be translated from
is not in `src/` and the spec says too little to model them faithfully:

- **Cron scheduling** (spec 3, 4.2). `checkCron` and the cron record's parsing are in the base
  module's body, which is not in `src/`; the spec names the five fields but not how ranges,
  wrap-around or the "already ran this minute" check behave. The due check is modelled on
  intervals alone.
- **Threshold ranges and preconditions** (spec 4.1). The range, regex and inverse flags and the
  precondition commands are likewise in the missing module bodies. The condition engine is
  modelled on the four numeric comparisons the spec states.
- **The client of the collection iterator.** The service's use of `goFirstCollection` and
  friends is not in `src/`. The iterator is modelled with its own operations, in any order (the
  stale iterator after a reload is hazard conf.cc:368); whether the service ever calls it
  after a reload cannot be read from the code.
- **Watchdog and loop together.** They share nothing but the WMI buffer and the process, which
  `Watchdog` already models. The proc module's constant output (finding 3) makes its view of
  the process irrelevant to the watchdog.
