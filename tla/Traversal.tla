------------------------------ MODULE Traversal ------------------------------
(***************************************************************************)
(* What the module registry promises (spec 4.4): it is built at once from  *)
(* a modules file into the list Parse(file), in file order, and then       *)
(* offers one cursor over begin () .. end (), that is 1 .. Len(items) + 1. *)
(* goFirst and goLast jump to either end, goNext and goPrev move one step  *)
(* and stop at end () and begin (), so a traversal is finite and can be    *)
(* restarted.  Destroying the registry empties it; a new one may then be   *)
(* built from the same file.                                               *)
(***************************************************************************)
EXTENDS Naturals, Sequences

CONSTANTS
  Files,      \* the modules files
  Parse(_)    \* the list a file yields

VARIABLES
  source,     \* the modules file
  items,      \* the list, empty unless built
  at,         \* the cursor, 0 unless built
  state       \* "constructing", "built", "destroyed"

tVars == <<source, items, at, state>>

Last == Len(items) + 1

Init ==
  /\ source \in Files
  /\ items = << >>
  /\ at = 0
  /\ state = "constructing"

Build ==
  /\ state = "constructing"
  /\ items' = Parse(source)
  /\ at' = 1
  /\ state' = "built"
  /\ UNCHANGED source

\* Any cursor move: each lands on a position the promise allows.
Move ==
  /\ state = "built"
  /\ \/ at' = 1
     \/ at' = Last
     \/ at' = IF at < Last THEN at + 1 ELSE at
     \/ at' = IF at > 1 THEN at - 1 ELSE at
  /\ UNCHANGED <<source, items, state>>

Destroy ==
  /\ state = "built"
  /\ items' = << >>
  /\ at' = 0
  /\ state' = "destroyed"
  /\ UNCHANGED source

Rebuild ==
  /\ state = "destroyed"
  /\ state' = "constructing"
  /\ UNCHANGED <<source, items, at>>

Next == Build \/ Move \/ Destroy \/ Rebuild

Spec == Init /\ [][Next]_tVars

=============================================================================
