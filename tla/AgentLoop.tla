----------------------------- MODULE AgentLoop ------------------------------
(***************************************************************************)
(* The scheduling and condition engine of the agent, driven over the       *)
(* module registry.  The agent's main loop and the bodies of the base      *)
(* module (run, checkCron, evaluateConditions, ...) are not part of src/:  *)
(* they are modelled from the spec (sections 2, 4.1, 4.2, 5).  The probes  *)
(* of the proc and service modules are modelled from their source.         *)
(*                                                                         *)
(* One cycle: wake up, walk the list with goFirst / isLast /               *)
(* getCurrentValue / goNext and run every module whose interval has        *)
(* elapsed, then walk it again and drain every module's data queue.        *)
(*                                                                         *)
(* Time: a module's timestamp is kept as the number of ticks elapsed since *)
(* it last ran, saturated at MaxInterval; the due check only compares that *)
(* difference with an interval no larger than MaxInterval, so nothing is   *)
(* lost by the saturation.  Values are small integers; a Data record is    *)
(* its value and the parity of the cycle that produced it.                 *)
(***************************************************************************)
EXTENDS ModuleList, Integers, WmiProbes

CONSTANTS
  Values,              \* values an exec probe may produce
  Intervals,           \* module_interval values a definition may set
  IntensiveIntervals,  \* module_intensive_interval values
  CondLists,           \* module_condition lists a definition may set
  IntensiveCondLists,  \* module_intensive_condition lists
  MaxInterval,         \* saturation bound of the elapsed-time counter
  OutputError          \* model value: run () raised Output_Error or Value_Error

ASSUME Intervals \cup IntensiveIntervals \subseteq 1..MaxInterval

NoCommand   == "none"

VARIABLES
  loop,      \* the agent's main loop: "init", "sleep", "run", "export"
  cfg,       \* per module: the settings its definition gave it
  mod,       \* per module: elapsed, intensive, misses, data, has_output, latest
  cycle,     \* parity of the current cycle
  alive,     \* per module: whether the watched process or service is up
  ran,       \* modules that ran in this cycle (history)
  due0,      \* modules that were due when this cycle started (history)
  produced,  \* modules that produced a Data record in this cycle (history)
  fired,     \* per module: command fired by its last condition evaluation
  sent       \* per module: records drained by its last exportDataOutput

loopVars == <<loop, cfg, mod, cycle, alive, ran, due0, produced, fired, sent>>
vars == <<listVars, loopVars>>

Positions == 1..Len(modules)

(***************************************************************************)
(* The run-time state of a Pandora_Module (pandora_module.h): timestamp as *)
(* the time elapsed since it, intensive_match as the intensive flag and    *)
(* the count of evaluations without a match, data_list, has_output and   *)
(* latest_output.                                                          *)
(***************************************************************************)
ModuleState ==
  [elapsed : 0..MaxInterval, intensive : BOOLEAN, misses : 0..2,
   data : Seq([value : Values \cup {0, 1}, cycle : {0, 1}]),
   has_output : BOOLEAN, latest : Values \cup {0, 1}]

(* Condition (pandora_module.h): operation, value_1 and command; value_2,  *)
(* string_value and regexp belong to the range and regex operators, which  *)
(* are not modelled.                                                       *)
Condition == [operation : {">", "<", "==", "!="}, value_1 : Int, command : STRING]

(***************************************************************************)
(* Conditions (spec 3, 4.1): a numeric comparison and the command run     *)
(* when it matches.                                                        *)
(***************************************************************************)
evaluateCondition(v, c) ==
  CASE c.operation = ">"  -> v > c.value_1
    [] c.operation = "<"  -> v < c.value_1
    [] c.operation = "==" -> v = c.value_1
    [] c.operation = "!=" -> v # c.value_1

\* evaluateConditions: walk the list in order, run the command of the first
\* matching condition and stop.
RECURSIVE evaluateConditions(_, _)
evaluateConditions(cs, v) ==
  IF cs = << >> THEN NoCommand
  ELSE IF evaluateCondition(v, Head(cs)) THEN Head(cs).command
  ELSE evaluateConditions(Tail(cs), v)

\* evaluateIntensiveConditions: index of the first matching intensive
\* condition (intensive_match), 0 when none matches.
evaluateIntensiveConditions(cs, v) ==
  SelectInSeq(cs, LAMBDA c : evaluateCondition(v, c))

(***************************************************************************)
(* Intensive state (spec 4.1, 8): a match enters it, two consecutive       *)
(* evaluations without a match leave it.                                   *)
(***************************************************************************)
\* Variant that counts misses without stopping at two.
IntensiveAfterUncapped(m, matched) ==
  IF matched THEN [m EXCEPT !.intensive = TRUE, !.misses = 0]
  ELSE [m EXCEPT !.misses = @ + 1, !.intensive = @ /\ m.misses + 1 < 2]

IntensiveAfter(m, matched) ==
  IF matched THEN [m EXCEPT !.intensive = TRUE, !.misses = 0]
  ELSE LET n == IF m.misses < 2 THEN m.misses + 1 ELSE 2
       IN  [m EXCEPT !.misses = n, !.intensive = m.intensive /\ n < 2]

(***************************************************************************)
(* The due check (spec 4.2): now - timestamp >= effective interval.        *)
(***************************************************************************)
EffectiveInterval(i) ==
  IF mod[i].intensive THEN cfg[i].intensive_interval ELSE cfg[i].module_interval

Due(i) == mod[i].elapsed >= EffectiveInterval(i)

(***************************************************************************)
(* The probes (WmiProbes).  The WMI query of a proc or service module      *)
(* returns no row, whether it succeeds or fails.                           *)
(***************************************************************************)
\* The constructors of the proc and service modules transform the name
\* into this->process_name.begin () of an empty string: the name stays "",
\* which no process or service has, so the WMI query returns no row.
\* Pandora_Module_Proc::run ignores the count and sets output = "1".
ProcRun(up) ==
  LET res == isProcessRunning(<< >>)
  IN  1

ServiceRun(up) == isServiceRunning(<< >>)

\* What run () may end in for module i: a value or a probe error.
ProbeResults(i) ==
  CASE modules[i].kind = "MODULE_PROC"    -> {ProcRun(alive[i])}
    [] modules[i].kind = "MODULE_SERVICE" -> {ServiceRun(alive[i])}
    [] OTHER                             -> Values \cup {OutputError}

(***************************************************************************)
(* The agent loop.                                                         *)
(***************************************************************************)
NewModule ==
  [elapsed |-> 0, intensive |-> FALSE, misses |-> 0, data |-> << >>,
   has_output |-> FALSE, latest |-> 0]

\* The modules are configured by their definitions and the loop starts.
StartAgent ==
  /\ phase = "built"
  /\ loop = "init"
  /\ cfg' \in [Positions -> [module_interval : Intervals,
                            intensive_interval : IntensiveIntervals,
                            conditions : CondLists,
                            intensive_conditions : IntensiveCondLists]]
  /\ mod' = [i \in Positions |-> NewModule]
  /\ alive' \in [Positions -> BOOLEAN]
  /\ fired' = [i \in Positions |-> NoCommand]
  /\ sent' = [i \in Positions |-> << >>]
  /\ loop' = "sleep"
  /\ UNCHANGED <<listVars, cycle, ran, due0, produced>>

\* Wake up: time advances one tick and the run traversal starts.
Tick ==
  /\ loop = "sleep"
  /\ LET m2 == [i \in Positions |->
                 [mod[i] EXCEPT !.elapsed = IF @ < MaxInterval THEN @ + 1 ELSE @]]
     IN  /\ mod' = m2
         /\ due0' = {i \in Positions :
                       m2[i].elapsed >= IF m2[i].intensive
                                          THEN cfg[i].intensive_interval
                                          ELSE cfg[i].module_interval}
  /\ cycle' = 1 - cycle
  /\ ran' = {}
  /\ produced' = {}
  /\ goFirst
  /\ loop' = "run"
  /\ UNCHANGED <<cfg, alive, fired, sent>>

\* Variant whose not-due check also refreshes the timestamp.
RunNotDueStamps ==
  /\ loop = "run"
  /\ ~isLast
  /\ ~Due(current)
  /\ mod' = [mod EXCEPT ![current].elapsed = 0]
  /\ goNext
  /\ UNCHANGED <<loop, cfg, cycle, alive, ran, due0, produced, fired, sent>>

\* The module at the cursor is not due: Interval_Not_Fulfilled, skipped.
RunNotDue ==
  /\ loop = "run"
  /\ ~isLast
  /\ ~Due(current)
  /\ goNext
  /\ UNCHANGED <<loop, cfg, mod, cycle, alive, ran, due0, produced, fired, sent>>

\* run () ends in setOutput (v): latest_output, has_output, a Data record,
\* condition and intensive-condition evaluation, timestamp = now.
RunOutput ==
  /\ loop = "run"
  /\ ~isLast
  /\ Due(current)
  /\ \E v \in ProbeResults(current) \ {OutputError} :
       LET i  == current
           m1 == [mod[i] EXCEPT !.elapsed = 0, !.has_output = TRUE, !.latest = v,
                                !.data = Append(@, [value |-> v, cycle |-> cycle])]
           hit == evaluateIntensiveConditions(cfg[i].intensive_conditions, v) # 0
       IN  /\ mod' = [mod EXCEPT ![i] = IntensiveAfter(m1, hit)]
           /\ fired' = [fired EXCEPT ![i] = evaluateConditions(cfg[i].conditions, v)]
           /\ ran' = ran \cup {i}
           /\ produced' = produced \cup {i}
  /\ goNext
  /\ UNCHANGED <<loop, cfg, cycle, alive, due0, sent>>

\* run () raises Output_Error or Value_Error: caught, setNoOutput, no Data,
\* no condition evaluated; the module keeps its cadence.
RunError ==
  /\ loop = "run"
  /\ ~isLast
  /\ Due(current)
  /\ OutputError \in ProbeResults(current)
  /\ mod' = [mod EXCEPT ![current].elapsed = 0, ![current].has_output = FALSE]
  /\ ran' = ran \cup {current}
  /\ goNext
  /\ UNCHANGED <<loop, cfg, cycle, alive, due0, produced, fired, sent>>

\* End of the run traversal; the export traversal starts.
EndRun ==
  /\ loop = "run"
  /\ isLast
  /\ goFirst
  /\ loop' = "export"
  /\ UNCHANGED <<cfg, mod, cycle, alive, ran, due0, produced, fired, sent>>

\* Variant of exportDataOutput that does not clear the queue.
exportDataOutputNoClear(i) ==
  /\ sent' = [sent EXCEPT ![i] = mod[i].data]
  /\ UNCHANGED mod

\* exportDataOutput: hand the queued Data records over and clear the queue.
exportDataOutput(i) ==
  /\ sent' = [sent EXCEPT ![i] = mod[i].data]
  /\ mod' = [mod EXCEPT ![i].data = << >>]

ExportModule ==
  /\ loop = "export"
  /\ ~isLast
  /\ exportDataOutput(current)
  /\ goNext
  /\ UNCHANGED <<loop, cfg, cycle, alive, ran, due0, produced, fired>>

EndExport ==
  /\ loop = "export"
  /\ isLast
  /\ loop' = "sleep"
  /\ UNCHANGED <<listVars, cfg, mod, cycle, alive, ran, due0, produced, fired, sent>>

\* The watched processes and services go up and down on their own.
Environment ==
  /\ loop # "init"
  /\ \E i \in Positions : alive' = [alive EXCEPT ![i] = ~@]
  /\ UNCHANGED <<listVars, loop, cfg, mod, cycle, ran, due0, produced, fired, sent>>

BuildList ==
  /\ OpenFile \/ ReadLine \/ ReadModuleLine \/ ModuleAtEof \/ CloseFile
  /\ UNCHANGED loopVars

AgentStep ==
  \/ StartAgent \/ Tick \/ RunNotDue \/ RunOutput \/ RunError \/ EndRun
  \/ ExportModule \/ EndExport

LoopInit ==
  /\ Init
  /\ loop = "init"
  /\ cfg = << >>
  /\ mod = << >>
  /\ cycle = 0
  /\ alive = << >>
  /\ ran = {}
  /\ due0 = {}
  /\ produced = {}
  /\ fired = << >>
  /\ sent = << >>

LoopNext == BuildList \/ AgentStep \/ Environment

\* The agent's main thread never stops: it is weakly fair.  The processes
\* and services watched are not.
LoopSpec == LoopInit /\ [][LoopNext]_vars /\ WF_vars(BuildList \/ AgentStep)

(***************************************************************************)
(* Properties                                                              *)
(***************************************************************************)
Command == {NoCommand} \cup {c.command : c \in UNION {ToSet(l) : l \in CondLists}}

LoopTypeOK ==
  /\ loop \in {"init", "sleep", "run", "export"}
  /\ cycle \in {0, 1}
  /\ loop # "init" =>
       /\ DOMAIN mod = Positions /\ DOMAIN cfg = Positions
       /\ \A i \in Positions :
            /\ mod[i] \in ModuleState
            /\ \A k \in DOMAIN cfg[i].conditions : cfg[i].conditions[k] \in Condition
            /\ fired[i] \in Command
       /\ alive \in [Positions -> BOOLEAN]
       /\ ran \cup due0 \cup produced \subseteq Positions

(* The loop implements the abstract scheduler (Scheduler): each cycle runs *)
(* exactly the modules whose interval had elapsed when it woke up, each    *)
(* once, and the export traversal empties every queue before the loop     *)
(* sleeps again; the scheduler never stops cycling.  goFirst / isLast /    *)
(* goNext must visit every module once for this to hold.  The registry's   *)
(* cursor, the probes, the conditions and the watched processes are        *)
(* hidden by the mapping.                                                  *)
StageOf == [init |-> "init", sleep |-> "idle", run |-> "running", export |-> "exporting"]

Sched == INSTANCE Scheduler WITH
  stage     <- StageOf[loop],
  ivl       <- [i \in DOMAIN cfg |-> [module_interval |-> cfg[i].module_interval,
                                      intensive_interval |-> cfg[i].intensive_interval]],
  elapsed   <- [i \in DOMAIN mod |-> mod[i].elapsed],
  intensive <- [i \in DOMAIN mod |-> mod[i].intensive],
  queue     <- [i \in DOMAIN mod |-> mod[i].data],
  due       <- due0,
  done      <- ran,
  MaxModules <- CHOOSE n \in {Len(f) : f \in Files} : \A f \in Files : Len(f) <= n,
  Records   <- [value : Values \cup {0, 1}, cycle : {0, 1}]

SchedulerRefined == Sched!SchedSpec

(* Every exportDataOutput hands over exactly the record its module         *)
(* produced in the current cycle, if any: no record is lost between        *)
(* setOutput and the drain, and none is handed over twice.                 *)
ExportedExactlyOnce ==
  \A i \in DOMAIN sent :
    ((loop = "export" /\ i < current) \/ loop = "sleep") =>
      sent[i] = IF i \in produced
                  THEN << [value |-> mod[i].latest, cycle |-> cycle] >>
                  ELSE << >>

(* No module starves: every configured module runs again and again, also   *)
(* while its interval is longer than one cycle (a skipped, not-due check   *)
(* leaves its timestamp alone).                                            *)
EveryModuleKeepsRunning ==
  \A i \in UNION {DOMAIN f : f \in Files} : []<>(i \notin DOMAIN cfg \/ i \in ran)

(* Spec 4.3: a process-check module reports whether its process runs, a   *)
(* service-check module whether its service runs (1 up, 0 down).           *)
ProbesReportLiveness ==
  [][\A i \in DOMAIN mod :
       (RunOutput /\ current = i /\ modules[i].kind \in {"MODULE_PROC", "MODULE_SERVICE"})
         => mod'[i].latest = IF alive[i] THEN 1 ELSE 0]_vars

=============================================================================
