---------------------------- MODULE MC_ModuleList ----------------------------
(* Model-checking instance of ModuleList: every file of up to five lines    *)
(* over BEGIN, END, OTHER and three kind keys, two of which the list keeps  *)
(* and one (module_freedisk) the factory recognises but the list drops.     *)
(* Five lines hold two complete definitions, a nested module_begin, or a    *)
(* definition cut short by the end of the file after another one.          *)
EXTENDS ModuleList

MCLines == {BeginLine, EndLine, OtherLine, "module_exec", "module_proc", "module_freedisk"}

MCFiles == SeqOf(MCLines, 5)

\* Shorter files for the runs expected to fail: the counterexample is short.
MCShortFiles == SeqOf(MCLines, 3)
=============================================================================
