---------------------------- MODULE MC_AgentLoop ----------------------------
(* Model-checking instance of AgentLoop.  The files give two modules of     *)
(* different kinds, one module whose definition swallows a nested           *)
(* module_begin, and one cut short by the end of the file.  Intervals 1 and *)
(* 2 make modules due in some cycles and not in others; the condition list  *)
(* has a value (1) that matches both conditions, so the order of evaluation *)
(* shows.                                                                   *)
EXTENDS AgentLoop

MCLines == {BeginLine, EndLine, OtherLine, "module_exec", "module_service", "module_proc"}

MCFiles ==
  { << BeginLine, "module_exec", EndLine, BeginLine, "module_service" >>,
    << BeginLine, "module_proc", EndLine, BeginLine, "module_exec", EndLine >>,
    << BeginLine, "module_exec", BeginLine, "module_proc", EndLine >>,
    << OtherLine, BeginLine, "module_exec" >> }

Cond(op, v, cmd) == [operation |-> op, value_1 |-> v, command |-> cmd]

MCCondLists ==
  { << >>,
    << Cond(">", 0, "cmdA"), Cond("==", 1, "cmdB") >> }

MCIntensiveCondLists ==
  { << >>, << Cond(">", 0, "cmdA") >> }
\* No conditions: for the runs about probe values only.
MCEmptyLists == { << >> }
=============================================================================
