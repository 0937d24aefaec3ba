----------------------------- MODULE WmiProbes -----------------------------
(***************************************************************************)
(* The helpers of Pandora_Wmi (src/windows/pandora_wmi.cc) that the probe  *)
(* modules and the watchdog call.                                          *)
(*                                                                         *)
(* Every helper connects with dhGetObject (getWmiStr (L"."), ...).         *)
(* getWmiStr builds the moniker in a static buffer, in three writes: a     *)
(* copy of the prefix and two appends.  A buffer is the sequence of the    *)
(* parts written to it since the last copy.  dhCheck turns a failed        *)
(* connection into a thrown string, which the helper catches, logs and     *)
(* answers with its default: no row is visited.                            *)
(***************************************************************************)
EXTENDS Naturals, Sequences

Moniker == << "winmgmts:\\\\", ".", "\\root\\cimv2" >>

\* Write k of getWmiStr: wcscpy of the prefix, then wcsncat of the computer
\* and wcscat of the namespace.
getWmiStr(buf, k) == IF k = 1 THEN << Moniker[1] >> ELSE Append(buf, Moniker[k])

\* dhGetObject succeeds only on the whole moniker.
dhGetObject(buf) == buf = Moniker

\* The rows FOR_EACH visits: none when the connection failed.
Visited(rows, connected) == IF connected THEN rows ELSE << >>

\* isProcessRunning: result++ for every row; on an error the count so far.
isProcessRunning(visited) == Len(visited)

\* isServiceRunning: the State of the first row is "Running"; 0 when there
\* is no row or the query fails before it.
isServiceRunning(visited) ==
  IF visited = << >> THEN 0 ELSE IF Head(visited) = "Running" THEN 1 ELSE 0

\* runProgram: false for an empty command, else whether CreateProcess did.
runProgram(command, created) == command # "" /\ created

=============================================================================
