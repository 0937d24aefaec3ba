----------------------------- MODULE ModuleList -----------------------------
(***************************************************************************)
(* The module registry, Pandora_Module_List                                *)
(* (src/modules/pandora_module_list.cc).                                   *)
(*                                                                         *)
(* The constructor reads the modules file line by line, cuts it into      *)
(* module_begin ... module_end definitions, hands every definition to the  *)
(* module factory and keeps the modules it returns in file order.  The     *)
(* list then offers a cursor: goFirst, goLast, goNext, goPrev, isFirst,    *)
(* isLast, getCurrentValue.                                                *)
(*                                                                         *)
(* Data abstraction: a line of the file is reduced to what the parser and  *)
(* the factory look at, one of Lines: BeginLine (a line that is not a comment  *)
(* and contains "module_begin"), EndLine (contains "module_end"), a kind line  *)
(* ("module_exec", ...), or OtherLine (comments, blanks, any other key).  A    *)
(* module is identified by the line number of its module_begin.  The       *)
(* cursor is an index into modules, Len(modules) + 1 standing for end().   *)
(***************************************************************************)
EXTENDS Naturals, Sequences, SequencesExt, TLC

CONSTANTS
  Lines,       \* the line classes a modules file may contain
  Files,       \* the modules files checked: a finite set of Seq(Lines)
  FileExists   \* the values is_open () may return: a subset of BOOLEAN

BeginLine == "module_begin"
EndLine   == "module_end"
OtherLine == "other"

(* Module_Kind (pandora_module.h).                                          *)
Module_Kind ==
  {"MODULE_0", "MODULE_EXEC", "MODULE_PROC", "MODULE_SERVICE",
   "MODULE_FREEDISK", "MODULE_FREEDISK_PERCENT", "MODULE_CPUUSAGE",
   "MODULE_INVENTORY", "MODULE_FREEMEMORY", "MODULE_FREEMEMORY_PERCENT",
   "MODULE_ODBC", "MODULE_LOGEVENT", "MODULE_WMIQUERY", "MODULE_PERFCOUNTER",
   "MODULE_TCPCHECK", "MODULE_REGEXP", "MODULE_PLUGIN", "MODULE_PING",
   "MODULE_SNMPGET"}

(* The kind keys of pandora_module.h (module_exec_str ...) and the         *)
(* Module_Kind the factory gives a definition that contains them.          *)
KindOfKey ==
  [ module_exec               |-> "MODULE_EXEC",
    module_proc               |-> "MODULE_PROC",
    module_service            |-> "MODULE_SERVICE",
    module_freedisk           |-> "MODULE_FREEDISK",
    module_freedisk_percent   |-> "MODULE_FREEDISK_PERCENT",
    module_freememory         |-> "MODULE_FREEMEMORY",
    module_freememory_percent |-> "MODULE_FREEMEMORY_PERCENT",
    module_cpuusage           |-> "MODULE_CPUUSAGE",
    module_inventory          |-> "MODULE_INVENTORY",
    module_odbc               |-> "MODULE_ODBC",
    module_logevent           |-> "MODULE_LOGEVENT",
    module_wmiquery           |-> "MODULE_WMIQUERY",
    module_perfcounter        |-> "MODULE_PERFCOUNTER",
    module_tcpcheck           |-> "MODULE_TCPCHECK",
    module_regexp             |-> "MODULE_REGEXP",
    module_plugin             |-> "MODULE_PLUGIN",
    module_ping               |-> "MODULE_PING",
    module_snmpget            |-> "MODULE_SNMPGET" ]

ASSUME Lines \subseteq {BeginLine, EndLine, OtherLine} \cup DOMAIN KindOfKey
ASSUME Files \subseteq Seq(Lines)
ASSUME FileExists \subseteq BOOLEAN /\ FileExists # {}

(* Markers for a cursor that was never allocated and for "no definition    *)
(* being read".                                                            *)
Uninit  == 0   \* no position of the list is 0
NoBlock == [start |-> 0, lines |-> << >>]

VARIABLES
  file,      \* the lines of the modules file (input of the constructor)
  fileOpen,  \* the result of file.is_open ()
  pos,       \* index of the next line getline would return
  block,     \* the definition being read: its first line number and lines
  modules,   \* the list of modules: records [kind, line]
  current,   \* the cursor: 1..Len(modules)+1, or Uninit
  phase,     \* "construct", "parsing", "built", "destroyed", "crashed"
  ub         \* TRUE once a step had undefined behaviour

listVars == <<file, fileOpen, pos, block, modules, current, phase, ub>>

End == Len(modules) + 1

(***************************************************************************)
(* The module factory (pandora_module_factory.cc is not part of src/): a   *)
(* definition yields a module of the kind named by its first kind line, or *)
(* NULL when it names none.                                                *)
(***************************************************************************)
Factory(def) ==
  LET i == SelectInSeq(def, LAMBDA l : l \in DOMAIN KindOfKey)
  IN  IF i = 0 THEN "NULL" ELSE KindOfKey[def[i]]

(* Crash on undefined behaviour: the process stops.                        *)
Crash ==
  /\ ub' = TRUE
  /\ phase' = "crashed"

(***************************************************************************)
(* parseModuleDefinition: the switch keeps only exec, proc and service     *)
(* modules; any other module the factory built is neither kept nor freed. *)
(***************************************************************************)
ListedKinds == {"MODULE_EXEC", "MODULE_PROC", "MODULE_SERVICE"}

parseModuleDefinition(def, start) ==
  LET k == Factory(def)
  IN  modules' = IF k \in ListedKinds
                   THEN Append(modules, [kind |-> k, line |-> start])
                   ELSE modules

(***************************************************************************)
(* The constructor, one step per line read.                                *)
(***************************************************************************)

\* modules = new list; if (!file.is_open ()) return;  (current is never set)
OpenFile ==
  /\ phase = "construct"
  /\ modules' = << >>
  /\ IF fileOpen THEN phase' = "parsing" ELSE phase' = "built"
  /\ UNCHANGED <<file, fileOpen, pos, block, current, ub>>

\* Outer loop: getline; a non-comment line with "module_begin" opens a
\* definition, every other line is skipped.
ReadLine ==
  /\ phase = "parsing"
  /\ block = NoBlock
  /\ pos <= Len(file)
  /\ pos' = pos + 1
  /\ block' = IF file[pos] = BeginLine
                THEN [start |-> pos, lines |-> <<BeginLine>>]
                ELSE NoBlock
  /\ UNCHANGED <<file, fileOpen, modules, current, phase, ub>>

\* Inner loop: getline and append; a line with "module_end" ends the
\* definition, which is parsed at once.
ReadModuleLine ==
  /\ phase = "parsing"
  /\ block # NoBlock
  /\ pos <= Len(file)
  /\ pos' = pos + 1
  /\ LET def == Append(block.lines, file[pos])
     IN  IF file[pos] = EndLine
           THEN /\ parseModuleDefinition(def, block.start)
                /\ block' = NoBlock
           ELSE /\ block' = [block EXCEPT !.lines = def]
                /\ UNCHANGED modules
  /\ UNCHANGED <<file, fileOpen, current, phase, ub>>

\* Variant that drops a definition left open at end of file.
ModuleAtEofDropped ==
  /\ phase = "parsing"
  /\ block # NoBlock
  /\ pos > Len(file)
  /\ block' = NoBlock
  /\ UNCHANGED <<file, fileOpen, pos, modules, current, phase, ub>>

\* if (file.eof ()) break;  the unterminated definition is parsed as it is.
ModuleAtEof ==
  /\ phase = "parsing"
  /\ block # NoBlock
  /\ pos > Len(file)
  /\ parseModuleDefinition(block.lines, block.start)
  /\ block' = NoBlock
  /\ UNCHANGED <<file, fileOpen, pos, current, phase, ub>>

\* file.close (); current = new iterator; *current = modules->begin ();
CloseFile ==
  /\ phase = "parsing"
  /\ block = NoBlock
  /\ pos > Len(file)
  /\ current' = 1
  /\ phase' = "built"
  /\ UNCHANGED <<file, fileOpen, pos, block, modules, ub>>

(***************************************************************************)
(* The cursor.  Every operation dereferences current; on a cursor that was *)
(* never allocated that is undefined behaviour.  goNext, goPrev, isLast    *)
(* and isFirst first compare current with NULL, which an uninitialized     *)
(* pointer may or may not equal: both outcomes are allowed.                *)
(***************************************************************************)
\* Variant of isLast that compares with the last element instead of end().
isLastOffByOne == current >= End - 1

isLast  == current = End

\* Variant of isFirst that compares with the element before begin().
isFirstOffByOne == current = 0

isFirst == current = 1

getCurrentValue == modules[current]

goFirst ==
  /\ phase = "built"
  /\ IF current = Uninit
       THEN Crash /\ UNCHANGED current
       ELSE current' = 1 /\ UNCHANGED <<phase, ub>>
  /\ UNCHANGED <<file, fileOpen, pos, block, modules>>

goLast ==
  /\ phase = "built"
  /\ IF current = Uninit
       THEN Crash /\ UNCHANGED current
       ELSE current' = End /\ UNCHANGED <<phase, ub>>
  /\ UNCHANGED <<file, fileOpen, pos, block, modules>>

\* An uninitialized current that happens to be NULL makes the call a no-op,
\* any other value is dereferenced.
UninitStep ==
  \/ Crash /\ UNCHANGED current
  \/ UNCHANGED <<current, phase, ub>>

\* Variant of goNext without the !isLast () guard.
NextPosUnguarded == current + 1

NextPos == IF ~isLast THEN current + 1 ELSE current

PrevPos == IF ~isFirst THEN current - 1 ELSE current

\* goNext and goPrev: the NULL check on current, then the step to "to".
CursorMove(to) ==
  /\ phase = "built"
  /\ IF current = Uninit
       THEN UninitStep
       ELSE current' = to /\ UNCHANGED <<phase, ub>>
  /\ UNCHANGED <<file, fileOpen, pos, block, modules>>

goNext == CursorMove(NextPos)

goPrev == CursorMove(PrevPos)

\* ~Pandora_Module_List: delete every module, the list and current.
\* Deleting a never allocated current is undefined behaviour.
DestroyList ==
  /\ phase = "built"
  /\ IF current = Uninit
       THEN Crash /\ UNCHANGED <<modules, current>>
       ELSE /\ modules' = << >>
            /\ current' = Uninit
            /\ phase' = "destroyed"
            /\ UNCHANGED ub
  /\ UNCHANGED <<file, fileOpen, pos, block>>

(***************************************************************************)
(* A full reload: the agent builds a new list once the old one is         *)
(* destroyed.  The file is read again as it is (a changed file is another  *)
(* initial state, which Init already covers).                              *)
(***************************************************************************)
InitList ==
  /\ file \in Files
  /\ fileOpen \in FileExists
  /\ pos = 1
  /\ block = NoBlock
  /\ modules = << >>
  /\ current = Uninit
  /\ phase = "construct"

Reload ==
  /\ phase = "destroyed"
  /\ pos' = 1
  /\ block' = NoBlock
  /\ modules' = << >>
  /\ current' = Uninit
  /\ phase' = "construct"
  /\ UNCHANGED <<file, fileOpen, ub>>

Init == InitList /\ ub = FALSE

Next ==
  \/ OpenFile \/ ReadLine \/ ReadModuleLine \/ ModuleAtEof \/ CloseFile
  \/ goFirst \/ goLast \/ goNext \/ goPrev
  \/ DestroyList \/ Reload

Spec == Init /\ [][Next]_listVars

(***************************************************************************)
(* Reference: the definitions of a file as the spec describes them, a      *)
(* module_begin line up to the next module_end line or the end of file.    *)
(***************************************************************************)
RECURSIVE DefinitionsFrom(_, _)
DefinitionsFrom(f, i) ==
  IF i > Len(f) THEN << >>
  ELSE IF f[i] # BeginLine THEN DefinitionsFrom(f, i + 1)
  ELSE LET e    == SelectInSubSeq(f, i + 1, Len(f), LAMBDA l : l = EndLine)
           last == IF e = 0 THEN Len(f) ELSE e
       IN  << [start |-> i, lines |-> SubSeq(f, i, last)] >>
             \o DefinitionsFrom(f, last + 1)

\* The modules of file f whose factory kind is in kinds, in file order.
ModulesOf(f, kinds) ==
  LET ds == SelectSeq(DefinitionsFrom(f, 1),
                      LAMBDA d : Factory(d.lines) \in kinds)
  IN  [j \in 1..Len(ds) |-> [kind |-> Factory(ds[j].lines), line |-> ds[j].start]]

(***************************************************************************)
(* Properties                                                              *)
(***************************************************************************)
TypeOK ==
  /\ file \in Seq(Lines)
  /\ fileOpen \in BOOLEAN
  /\ pos \in 1..Len(file) + 1
  /\ block \in [start : 0..Len(file), lines : Seq(Lines)]
  /\ modules \in Seq([kind : Module_Kind \ {"MODULE_0"}, line : 1..Len(file)])
  /\ current \in 0..End
  /\ phase \in {"construct", "parsing", "built", "destroyed", "crashed"}
  /\ ub \in BOOLEAN

(* Once the constructor has read the whole file line by line, the list     *)
(* holds one module per exec, proc or service definition, in file order:   *)
(* nested module_begin lines, definitions cut short by end of file and     *)
(* lines between definitions are handled as a whole-file reading of the    *)
(* definitions would handle them.                                          *)
ParsedInFileOrder ==
  (phase = "built" /\ fileOpen) => modules = ModulesOf(file, ListedKinds)

(* Spec 4.4: every definition the factory recognises becomes a module of   *)
(* the registry, in file order; only unrecognised ones are dropped.        *)
RecognizedModulesKept ==
  (phase = "built" /\ fileOpen) => modules = ModulesOf(file, Range(KindOfKey))

(* No operation of the list, whatever the modules file, has undefined      *)
(* behaviour: a list built from a missing file is an empty, traversable    *)
(* list (spec 4.4: a restartable, finite traversal).                       *)
NoUndefinedBehaviour == ~ub

(***************************************************************************)
(* Refinement: the registry implements Traversal, the promise of spec 4.4, *)
(* with Parse the exec, proc and service definitions of the file in file   *)
(* order.  Construction is seen as one Build step when the file is closed, *)
(* the cursor as the abstract one while the list is built.                 *)
(***************************************************************************)
Abstract ==
  INSTANCE Traversal
    WITH Parse  <- LAMBDA f : ModulesOf(f, ListedKinds),
         source <- file,
         items  <- IF phase = "built" THEN modules ELSE << >>,
         at     <- IF phase = "built" THEN current ELSE 0,
         state  <- CASE phase \in {"construct", "parsing"} -> "constructing"
                     [] phase = "built"                     -> "built"
                     [] OTHER                               -> "destroyed"

(* Every step of the constructor, the cursor operations, the destructor   *)
(* and a reload is a step of Traversal or leaves its state alone: the list *)
(* is built in one go, the cursor never leaves begin () .. end (), goNext  *)
(* and goPrev move by one and stop at the ends, and the destructor leaves  *)
(* an empty registry.                                                      *)
TraversalRefined == Abstract!Spec

=============================================================================
