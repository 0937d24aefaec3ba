----------------------------- MODULE EntryPoint -----------------------------
(***************************************************************************)
(* The process entry point, main (src/main.cc).                            *)
(*                                                                         *)
(* main takes the executable's path from GetModuleFileName, keeps it as    *)
(* the install path and cuts it after its last backslash to get the        *)
(* install directory; then it looks at its first argument: --install,      *)
(* --uninstall, --test-ssh and --help do their job and return, any other   *)
(* argument prints the usage, and no argument at all runs the service.     *)
(*                                                                         *)
(* A path is a sequence of characters.  How the process was started        *)
(* decides its working directory: the service control manager starts a     *)
(* service in System32, a console user from wherever the shell is.         *)
(***************************************************************************)
EXTENDS Naturals, Sequences, FiniteSetsExt

CONSTANTS
  ExePaths,       \* paths the executable may have
  Argvs,          \* argument lists argv[1..argc-1]
  Launches,       \* how the process is started: "scm", "console"
  System32,       \* the working directory of a service
  ConsoleDir(_),  \* the working directory a console user starts an exe from
  UINT_MAX        \* largest unsigned int

Sep == "\\"

\* string::npos (size_t) assigned to unsigned int pos.
npos == UINT_MAX

\* pos + 1 in unsigned int arithmetic.
IncU(x) == IF x = UINT_MAX THEN 0 ELSE x + 1

VARIABLES
  exe,          \* the executable's path
  argv,         \* its arguments
  cwd,          \* its working directory (a relative name is cwd \o name)
  installPath,  \* Pandora::getPandoraInstallPath ()
  installDir,   \* Pandora::getPandoraInstallDir ()
  outcome       \* "start", "dispatch", or what main did

mainVars == <<exe, argv, cwd, installPath, installDir, outcome>>

(* aux.rfind ("\\"): the 0-based index of the last backslash, or npos.     *)
rfind(s, c) ==
  LET ks == {k \in 1..Len(s) : s[k] = c}
  IN  IF ks = {} THEN npos ELSE Max(ks) - 1

(* aux.erase (n): the first n characters are kept.                        *)
erase(s, n) == SubSeq(s, 1, n)

\* Variant that cuts at the backslash instead of after it.
InstallDirNoSep(path) == erase(path, rfind(path, Sep))

InstallDirOf(path) == erase(path, IncU(rfind(path, Sep)))

MainInit ==
  /\ exe \in ExePaths
  /\ argv \in Argvs
  /\ \E how \in Launches :
       cwd = IF how = "scm" THEN System32 ELSE ConsoleDir(exe)
  /\ installPath = << >>
  /\ installDir = << >>
  /\ outcome = "start"

\* GetModuleFileName; setPandoraInstallPath; rfind; erase; setPandoraInstallDir.
SetInstallDir ==
  /\ outcome = "start"
  /\ installPath' = exe
  /\ installDir' = InstallDirOf(exe)
  /\ outcome' = "dispatch"
  /\ UNCHANGED <<exe, argv, cwd>>

\* The loop over argv returns in its first iteration: only argv[1] counts.
\* An option names what main does; any other argument prints the usage.
Options == {"--install", "--uninstall", "--test-ssh", "--help"}

Dispatch ==
  /\ outcome = "dispatch"
  /\ outcome' = CASE argv = << >>         -> "run"
                  [] argv[1] \in Options -> argv[1]
                  [] OTHER               -> "usage"
  /\ UNCHANGED <<exe, argv, cwd, installPath, installDir>>

MainStep == SetInstallDir \/ Dispatch

(* The install directory is the directory holding the executable, with    *)
(* its trailing backslash, so that getPandoraInstallDir () + name names a  *)
(* file next to the executable: rfind's index is 0-based and the cut must  *)
(* keep the separator.                                                     *)
InstallDirIsExeDir ==
  outcome # "start" =>
    \E k \in 1..Len(exe) :
      /\ installDir = SubSeq(exe, 1, k)
      /\ exe[k] = Sep
      /\ \A j \in k + 1..Len(exe) : exe[j] # Sep

=============================================================================
