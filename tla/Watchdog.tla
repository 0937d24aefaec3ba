------------------------------ MODULE Watchdog ------------------------------
(***************************************************************************)
(* The two threads that call Pandora_Wmi::isProcessRunning for one        *)
(* process module: the main loop, running Pandora_Module_Proc::run         *)
(* (src/modules/pandora_module_proc.cc), and the module's watchdog thread  *)
(* (spec 4.3 and 5; src/ declares only its fields thread, watchdog,        *)
(* start_command and retries in pandora_module_proc.h, not the code that   *)
(* runs it).  Each query builds the WMI moniker in getWmiStr's one static  *)
(* buffer (src/windows/pandora_wmi.cc) and connects with it.              *)
(*                                                                         *)
(* The watchdog checks the process, starts it with runProgram              *)
(* (start_command) when it is not found, up to the retries setting, and    *)
(* waits before it checks again.  Both threads query with the module's     *)
(* process_name, which the constructor leaves empty.  Delays are steps:    *)
(* only their order matters, not their length.                             *)
(***************************************************************************)
EXTENDS Naturals, Sequences, WmiProbes

CONSTANTS
  Retries,    \* the retries setting of the module
  Monitored   \* the name of the running process the module watches

ASSUME Retries \in Nat

Threads == {"watchdog", "tick"}

\* The constructor transforms the name into this->process_name.begin () of
\* an empty string: process_name stays "".
process_name == ""

VARIABLES
  wmiStr,  \* getWmiStr's static buffer
  qstep,   \* per thread: the next write of getWmiStr, 4 = dhGetObject, 0 = done
  wpc,     \* the watchdog thread: where it is in its loop
  found,   \* the watchdog's last check: isProcessRunning > 0
  tries,   \* restart attempts since the process was last found
  tpc      \* the main loop: where it is in its cycle

wdVars == <<wmiStr, qstep, wpc, found, tries, tpc>>

Init ==
  /\ wmiStr = << >>
  /\ qstep = [t \in Threads |-> 1]
  /\ wpc = "query"
  /\ found = FALSE
  /\ tries = 0
  /\ tpc = "query"

\* getWmiStr, run by either thread on the shared buffer, one write a step.
WmiStrStep(t) ==
  /\ qstep[t] \in 1..3
  /\ wmiStr' = getWmiStr(wmiStr, qstep[t])
  /\ qstep' = [qstep EXCEPT ![t] = @ + 1]
  /\ UNCHANGED <<wpc, found, tries, tpc>>

\* The rows of SELECT * FROM Win32_Process WHERE Name = name: one instance
\* of the monitored process runs.
ProcessRows(name) == IF name = Monitored THEN << "Win32_Process" >> ELSE << >>

\* isProcessRunning (process_name) once the moniker is built: dhGetObject on
\* the buffer as it is now, then the query.
QueryCount == isProcessRunning(Visited(ProcessRows(process_name), dhGetObject(wmiStr)))

(***************************************************************************)
(* The watchdog thread.                                                    *)
(***************************************************************************)
WdQuery ==
  /\ wpc = "query"
  /\ qstep["watchdog"] = 4
  /\ found' = (QueryCount > 0)
  /\ qstep' = [qstep EXCEPT !["watchdog"] = 0]
  /\ wpc' = "decide"
  /\ UNCHANGED <<wmiStr, tries, tpc>>

\* A process found running ends the outage; one not found is started while
\* attempts remain, and given up on after that.
WdDecide ==
  /\ wpc = "decide"
  /\ tries' = IF found THEN 0 ELSE tries
  /\ wpc' = CASE found           -> "wait"
              [] tries < Retries -> "start"
              [] OTHER           -> "gave_up"
  /\ UNCHANGED <<wmiStr, qstep, found, tpc>>

\* runProgram (start_command); the check after the delay sees the outcome.
WdStart ==
  /\ wpc = "start"
  /\ tries' = tries + 1
  /\ wpc' = "wait"
  /\ UNCHANGED <<wmiStr, qstep, found, tpc>>

\* start_delay (or the check period) elapses; the next check begins.
WdWait ==
  /\ wpc = "wait"
  /\ wpc' = "query"
  /\ qstep' = [qstep EXCEPT !["watchdog"] = 1]
  /\ UNCHANGED <<wmiStr, found, tries, tpc>>

Watchdog ==
  WmiStrStep("watchdog") \/ WdQuery \/ WdDecide \/ WdStart \/ WdWait

(***************************************************************************)
(* The main loop: Pandora_Module_Proc::run calls isProcessRunning, ignores *)
(* the count and sets output = "1"; the other modules run and the loop     *)
(* sleeps until the next cycle.                                            *)
(***************************************************************************)
TickQuery ==
  /\ tpc = "query"
  /\ qstep["tick"] = 4
  /\ qstep' = [qstep EXCEPT !["tick"] = 0]
  /\ tpc' = "sleep"
  /\ UNCHANGED <<wmiStr, wpc, found, tries>>

TickSleep ==
  /\ tpc = "sleep"
  /\ tpc' = "query"
  /\ qstep' = [qstep EXCEPT !["tick"] = 1]
  /\ UNCHANGED <<wmiStr, wpc, found, tries>>

Tick == WmiStrStep("tick") \/ TickQuery \/ TickSleep

Next == Watchdog \/ Tick

Spec == Init /\ [][Next]_wdVars

(***************************************************************************)
(* Properties                                                              *)
(***************************************************************************)
(* Spec 5: no state but the watchdog's own is shared between the watchdog  *)
(* and the main loop.  So a thread that reaches dhGetObject in             *)
(* isProcessRunning connects with the moniker its own getWmiStr call       *)
(* built, whatever the other thread did in between.                        *)
MonikerIntact == \A t \in Threads : qstep[t] = 4 => wmiStr = Moniker

=============================================================================
