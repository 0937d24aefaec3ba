----------------------------- MODULE Scheduler ------------------------------
(***************************************************************************)
(* What the agent's scheduler promises (spec 2, 4.2, 5), stated without    *)
(* the module registry, its cursor or the probes.  A cycle wakes up, runs  *)
(* every module that is due, in some order and each once, and then drains  *)
(* every module's data queue before it sleeps again.  A module is due when *)
(* the time since it last ran has reached its effective interval: the      *)
(* intensive interval while it is in intensive state, the module interval  *)
(* otherwise.  Running a module resets its clock, may change its           *)
(* intensive state and may queue one record.                               *)
(*                                                                         *)
(* AgentLoop implements this specification (SchedulerRefined there).       *)
(***************************************************************************)
EXTENDS Naturals, Sequences, SequencesExt

CONSTANTS
  MaxModules,   \* most modules a configuration may define
  MaxInterval,  \* saturation bound of the elapsed-time counter
  Records       \* the Data records a run may queue

VARIABLES
  stage,      \* "init", "idle", "running", "exporting"
  ivl,        \* per module: [module_interval, intensive_interval]
  elapsed,    \* per module: ticks since it last ran, saturated at MaxInterval
  intensive,  \* per module: in intensive state
  queue,      \* per module: Data records not yet exported
  due,        \* modules due when the running cycle woke up
  done        \* modules run in the running cycle

svars == <<stage, ivl, elapsed, intensive, queue, due, done>>

IntervalPair == [module_interval : 1..MaxInterval, intensive_interval : 1..MaxInterval]

Effective(i) ==
  IF intensive[i] THEN ivl[i].intensive_interval ELSE ivl[i].module_interval

SchedInit ==
  /\ stage = "init"
  /\ ivl = << >> /\ elapsed = << >> /\ intensive = << >> /\ queue = << >>
  /\ due = {} /\ done = {}

\* The modules get their intervals; every clock starts at zero.
Start ==
  /\ stage = "init"
  /\ ivl' \in SeqOf(IntervalPair, MaxModules)
  /\ elapsed' = [i \in DOMAIN ivl' |-> 0]
  /\ intensive' = [i \in DOMAIN ivl' |-> FALSE]
  /\ queue' = [i \in DOMAIN ivl' |-> << >>]
  /\ stage' = "idle"
  /\ UNCHANGED <<due, done>>

\* One tick passes; the modules whose interval has elapsed are due.
Wake ==
  /\ stage = "idle"
  /\ elapsed' = [i \in DOMAIN elapsed |->
                   IF elapsed[i] < MaxInterval THEN elapsed[i] + 1 ELSE MaxInterval]
  /\ due' = {i \in DOMAIN ivl : elapsed'[i] >= Effective(i)}
  /\ done' = {}
  /\ stage' = "running"
  /\ UNCHANGED <<ivl, intensive, queue>>

\* A due module that has not run yet in this cycle runs.
Run(i) ==
  /\ stage = "running"
  /\ i \in due \ done
  /\ done' = done \cup {i}
  /\ elapsed' = [elapsed EXCEPT ![i] = 0]
  /\ \E b \in BOOLEAN : intensive' = [intensive EXCEPT ![i] = b]
  /\ \/ queue' = queue
     \/ \E r \in Records : queue' = [queue EXCEPT ![i] = Append(@, r)]
  /\ UNCHANGED <<stage, ivl, due>>

\* The running phase ends only when every due module has run.
EndRuns ==
  /\ stage = "running"
  /\ done = due
  /\ stage' = "exporting"
  /\ UNCHANGED <<ivl, elapsed, intensive, queue, due, done>>

\* A module's queue is handed over and emptied.
Export(i) ==
  /\ stage = "exporting"
  /\ i \in DOMAIN queue
  /\ queue' = [queue EXCEPT ![i] = << >>]
  /\ UNCHANGED <<stage, ivl, elapsed, intensive, due, done>>

\* The cycle ends only when every queue is empty.
EndCycle ==
  /\ stage = "exporting"
  /\ \A i \in DOMAIN queue : queue[i] = << >>
  /\ stage' = "idle"
  /\ UNCHANGED <<ivl, elapsed, intensive, queue, due, done>>

SchedNext ==
  \/ Start \/ Wake \/ EndRuns \/ EndCycle
  \/ \E i \in DOMAIN ivl : Run(i) \/ Export(i)

\* The scheduler never stops cycling.
SchedSpec == SchedInit /\ [][SchedNext]_svars /\ WF_svars(SchedNext)

=============================================================================
