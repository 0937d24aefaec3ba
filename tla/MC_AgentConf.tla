---------------------------- MODULE MC_AgentConf ----------------------------
(* Configuration files for checking AgentConf: every branch of the loop of *)
(* setFile (comment, include of a present and of a missing file, broker,   *)
(* collection with and without "..", module line, key/value line) occurs, *)
(* and lines that end with "broker_agent" or "include", or have an empty   *)
(* name after "broker_agent ".                                             *)
EXTENDS AgentConf

L(c, has, k, a) == [comment |-> c, has |-> has, ends |-> "", key |-> k, arg |-> a]

\* The line ends with the searched word t.
EndsWith(l, t) == [l EXCEPT !.ends = t]

KV(k, a)     == L(FALSE, {}, k, a)
Comment      == L(TRUE, {"file_collection"}, "#", "c9")
Include(a)   == L(FALSE, {"include"}, "include", a)
Collect(a)   == L(FALSE, {"file_collection"}, "file_collection", a)
Unsafe(a)    == L(FALSE, {"file_collection", ".."}, "file_collection", a)
Broker(a)    == L(FALSE, {"broker_agent"}, "broker_agent", a)
ModuleLine   == L(FALSE, {"module_"}, "module_exec", "cmd")
\* "broker_agent" alone, and a value that is a path ending in "include".
BareBroker   == EndsWith(Broker(""), "broker_agent")
IncludeDir   == EndsWith(L(FALSE, {"include"}, "temporal", "c:\\include"), "include")

MCConfFiles ==
  { << KV("server_ip", "x"), Include("inc1"), Collect("c1"), ModuleLine, Comment >>,
    << Unsafe("up"), Broker("b1"), Broker("b2"), Include("nofile"), KV("server_ip", "y") >>,
    << Broker(""), KV("server_ip", "z") >>,
    << BareBroker, Include("inc1"), IncludeDir >> }

MCIncludeFiles ==
  [n \in {"inc1"} |-> << Collect("c3"), Unsafe("up"), Comment >>]

MCBrokerFiles ==
  { << Broker("b1"), KV("agent_name", "a"), Broker("b2") >> }

(* main: the agent installed in C:\p\ or at the root of C:, started with   *)
(* no argument, with an option, or with an unknown argument first.        *)
MCExeDeep  == << "C", ":", "\\", "p", "\\", "a" >>   \* C:\p\a
MCExeRoot  == << "C", ":", "\\", "a" >>                \* C:\a
MCExePaths == {MCExeDeep, MCExeRoot}
MCArgvs    == {<< >>, << "--install" >>, << "--help" >>, << "-x", "--uninstall" >>}
MCSystem32 == << "C", ":", "\\", "w", "\\" >>        \* C:\w\

\* UINT_MAX is 4294967295; TLC's integers stop at 2^31 - 1.  Only the wrap
\* of npos + 1 to 0 depends on it, and it wraps the same.
MCUintMax == 2147483647

\* A console user starts the agent from its own directory.
MCConsoleDir(e) ==
  IF e = MCExeDeep THEN << "C", ":", "\\", "p", "\\" >> ELSE << "C", ":", "\\" >>
==============================================================================
