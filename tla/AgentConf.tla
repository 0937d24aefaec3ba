------------------------------ MODULE AgentConf ------------------------------
(***************************************************************************)
(* The agent configuration, Pandora_Agent_Conf (src/pandora_agent_conf.cc).*)
(*                                                                         *)
(* setFile reads the configuration file line by line.  Every line that is  *)
(* not blank or a comment is tested, in this order, for the substrings     *)
(* "include" (the named file is read by parseFile for its file_collection  *)
(* lines), "broker_agent" (setFile with all_conf only: the broker's file name *)
(* is stored in all_conf and the broker configuration written if it does  *)
(* not exist yet), "file_collection" (a collection is added unless its     *)
(* name contains "..", and the line is done) and "module_" (module lines   *)
(* are left to the module list); any other line becomes a key/value pair.  *)
(* The collection list is walked with an iterator: goFirstCollection,      *)
(* goNextCollection, isLastCollection, getCurrentCollectionName/Verify,    *)
(* setCurrentCollectionVerify.                                             *)
(*                                                                         *)
(* Data abstraction: a line is a record of whether it is a comment, which  *)
(* of the searched substrings it contains, which one ends it, if any, its  *)
(* first word and the rest.                                                *)
(* Included files are given by IncludeFiles, a function from a name to its *)
(* lines; a name outside its domain cannot be opened.                      *)
(*                                                                         *)
(* Composition: the configuration is loaded by the service main runs      *)
(* (EntryPoint), with main's install directory and working directory.     *)
(***************************************************************************)
EXTENDS Naturals, Sequences, SequencesExt, EntryPoint

CONSTANTS
  ConfFiles,     \* the contents pandora_agent.conf may have
  IncludeFiles,  \* name -> lines of the files an include line may name
  BrokerSlots    \* number of entries of the all_conf array of the caller

Tokens == {"include", "broker_agent", "file_collection", "module_", ".."}

Line == [comment : BOOLEAN, has : SUBSET Tokens, ends : Tokens \cup {""},
         key : STRING, arg : STRING]

ASSUME ConfFiles \subseteq Seq(Line)
ASSUME \A f \in DOMAIN IncludeFiles : IncludeFiles[f] \in Seq(Line)
ASSUME BrokerSlots \in Nat \ {0}

VARIABLES
  phase,            \* "new" (lists NULL), "reading", "idle"
  withBroker,       \* the setFile being run is setFile (string *all_conf)
  file,             \* lines of the configuration file being read
  pos,              \* next line getline returns
  key_values,       \* Seq of [key, value]
  collection_list,  \* Seq of [name, verify]
  itValid,          \* collection_it points into the current collection_list
  itPos,            \* position of collection_it (Len + 1 is end ())
  all_conf,         \* the caller's array of broker configuration files
  brokerFiles,      \* broker configuration files on disk: [dir, name]
  ub                \* TRUE once a step had undefined behaviour

confVars == <<phase, withBroker, file, pos, key_values, collection_list,
              itValid, itPos, all_conf, brokerFiles, ub>>

Has(l, t) == t \in l.has

\* A file: the prefix its name is appended to, and the name.  A relative
\* name lies in the working directory.
Path(dir, name) == [dir |-> dir, name |-> name]
NoPath == Path(<< >>, "")

(***************************************************************************)
(* Key_Value::parseLine (pandora.cc, not in src/): first word and rest.    *)
(***************************************************************************)
parseLine(l) == [key |-> l.key, value |-> l.arg]

(* A collection line: name = trim (substr (pos + 15)), rejected if the      *)
(* name contains "..".                                                     *)
CollectionOf(l) == [name |-> l.arg, verify |-> 0]

(***************************************************************************)
(* parseFile: the file_collection lines of an included file.  A file that  *)
(* cannot be opened adds nothing.                                          *)
(***************************************************************************)
parseFile(name) ==
  IF name \notin DOMAIN IncludeFiles THEN << >>
  ELSE LET ls == SelectSeq(IncludeFiles[name],
                           LAMBDA l : /\ ~l.comment
                                      /\ Has(l, "file_collection")
                                      /\ ~Has(l, ".."))
       IN  [j \in 1..Len(ls) |-> CollectionOf(ls[j])]

(* writeBrokerConf: the broker's configuration, a copy of the agent's with *)
(* its agent_name, written to path_broker, a relative name.               *)
writeBrokerConf(name) == brokerFiles' = brokerFiles \cup {Path(cwd, name)}

(***************************************************************************)
(* setFile: the lists are replaced by new empty ones before the file is    *)
(* opened, so a file that cannot be opened leaves an empty configuration;  *)
(* the old lists are deleted, which leaves collection_it dangling.         *)
(***************************************************************************)
\* ifstream file (filename); an unopened file reads as no lines.
OpenConf ==
  \/ phase' = "reading" /\ file' \in ConfFiles
  \/ phase' = "idle" /\ file' = << >>

\* Variant of setFile that keeps the old lists.
NewListsSkipped == UNCHANGED <<key_values, collection_list, itValid>>

\* delete and new of key_values and collection_list; collection_it dangles.
NewLists ==
  /\ key_values' = << >>
  /\ collection_list' = << >>
  /\ itValid' = FALSE

setFile(broker) ==
  /\ phase \in {"new", "idle"}
  /\ OpenConf
  /\ withBroker' = broker
  /\ pos' = 1
  /\ NewLists
  /\ UNCHANGED <<itPos, all_conf, brokerFiles, ub>>

(* path_file = buffer.substr (pos + 8) and name_broker =                   *)
(* buffer.substr (pos + 13) skip the word and one character more: when the *)
(* word ends the line, pos + 8 (or 13) is size () + 1 and substr throws    *)
(* out_of_range.  file_collection's substr (pos + 15) skips the word only. *)
SubstrThrows(l, t) == l.ends = t

\* The line at pos makes setFile throw: first the include test, then, in
\* setFile (all_conf), the broker test.
LineThrows(l) ==
  /\ ~l.comment
  /\ \/ SubstrThrows(l, "include")
     \/ withBroker /\ SubstrThrows(l, "broker_agent")

\* One line of the loop of setFile.  The include branch has no continue:
\* the same line goes on through the broker, collection and module tests.
ReadConfLine ==
  /\ phase = "reading"
  /\ pos <= Len(file)
  /\ ~LineThrows(file[pos])
  /\ pos' = pos + 1
  /\ LET l    == file[pos]
         inc  == IF Has(l, "include") THEN parseFile(l.arg) ELSE << >>
         brk  == withBroker /\ Has(l, "broker_agent")
         coll == IF Has(l, "file_collection") /\ ~Has(l, "..")
                   THEN << CollectionOf(l) >> ELSE << >>
     IN  IF l.comment
           THEN UNCHANGED <<key_values, collection_list, all_conf, brokerFiles>>
           ELSE /\ collection_list' = collection_list \o inc \o coll
                /\ key_values' =
                     IF Has(l, "file_collection") \/ Has(l, "module_")
                       THEN key_values ELSE Append(key_values, parseLine(l))
                \* int position = 0;
                \* all_conf[position] = getPandoraInstallDir () + path_broker;
                /\ all_conf' = IF brk THEN [all_conf EXCEPT ![0] = Path(installDir, l.arg)]
                                      ELSE all_conf
                \* ifstream file_br (path_broker); if (!file_br) writeBrokerConf
                /\ IF brk /\ Path(cwd, l.arg) \notin brokerFiles
                     THEN writeBrokerConf(l.arg) ELSE UNCHANGED brokerFiles
  /\ UNCHANGED <<phase, withBroker, file, itValid, itPos, ub>>

\* out_of_range leaves setFile (nothing in src/ catches it: main calls
\* service->run () outside any try); an include parsed before the broker
\* test has already added its collections.
ConfLineThrows ==
  /\ phase = "reading"
  /\ pos <= Len(file)
  /\ LineThrows(file[pos])
  /\ LET l == file[pos]
     IN  collection_list' =
           IF Has(l, "include") /\ ~SubstrThrows(l, "include")
             THEN collection_list \o parseFile(l.arg) ELSE collection_list
  /\ phase' = "thrown"
  /\ UNCHANGED <<withBroker, file, pos, key_values, itValid, itPos, all_conf,
                 brokerFiles, ub>>

\* file.close () at end of file.
CloseConf ==
  /\ phase = "reading"
  /\ pos > Len(file)
  /\ phase' = "idle"
  /\ UNCHANGED <<withBroker, file, pos, key_values, collection_list, itValid,
                 itPos, all_conf, brokerFiles, ub>>

(***************************************************************************)
(* Queries.                                                                *)
(***************************************************************************)
getValue(key) ==
  LET i == SelectInSeq(key_values, LAMBDA kv : kv.key = key)
  IN  IF i = 0 THEN "" ELSE key_values[i].value

isInCollectionList(name) ==
  \E i \in 1..Len(collection_list) :
    \/ collection_list[i].name = name
    \/ collection_list[i].name \o ".md5" = name

isLastCollection == itPos = Len(collection_list) + 1

getCurrentCollectionName   == collection_list[itPos].name
getCurrentCollectionVerify == collection_list[itPos].verify

(***************************************************************************)
(* The collection iterator.  Using it before setFile (NULL list), after a  *)
(* reload (deleted list) or at end () is undefined behaviour; the process  *)
(* is then considered crashed.                                             *)
(***************************************************************************)
ItUsable == phase # "new" /\ itValid /\ itPos <= Len(collection_list)

Crash == ub' = TRUE /\ phase' = "crashed"

goFirstCollection ==
  /\ phase \in {"new", "idle"}
  /\ IF phase = "new"
       THEN Crash /\ UNCHANGED <<itValid, itPos>>
       ELSE itValid' = TRUE /\ itPos' = 1 /\ UNCHANGED <<phase, ub>>
  /\ UNCHANGED <<withBroker, file, pos, key_values, collection_list, all_conf, brokerFiles>>

\* Variant of goNextCollection that steps past end ().
goNextCollectionPastEnd ==
  /\ phase \in {"new", "idle"}
  /\ itValid
  /\ itPos' = itPos + 1
  /\ UNCHANGED <<phase, ub, itValid, withBroker, file, pos, key_values,
                 collection_list, all_conf, brokerFiles>>

goNextCollection ==
  /\ phase \in {"new", "idle"}
  /\ IF ItUsable
       THEN itPos' = itPos + 1 /\ UNCHANGED <<phase, ub, itValid>>
       ELSE Crash /\ UNCHANGED <<itValid, itPos>>
  /\ UNCHANGED <<withBroker, file, pos, key_values, collection_list, all_conf, brokerFiles>>

\* getCurrentCollectionName / getCurrentCollectionVerify read *collection_it.
ReadCurrentCollection ==
  /\ phase \in {"new", "idle"}
  /\ ~ItUsable
  /\ Crash
  /\ UNCHANGED <<withBroker, file, pos, key_values, collection_list, itValid,
                 itPos, all_conf, brokerFiles>>

setCurrentCollectionVerify ==
  /\ phase \in {"new", "idle"}
  /\ IF ItUsable
       THEN /\ collection_list' = [collection_list EXCEPT ![itPos].verify = 1]
            /\ UNCHANGED <<phase, ub>>
       ELSE Crash /\ UNCHANGED collection_list
  /\ UNCHANGED <<withBroker, file, pos, key_values, itValid, itPos, all_conf, brokerFiles>>

ConfInit ==
  /\ MainInit
  /\ phase = "new"
  /\ withBroker = FALSE
  /\ file = << >>
  /\ pos = 1
  /\ key_values = << >>
  /\ collection_list = << >>
  /\ itValid = FALSE
  /\ itPos = 1
  /\ all_conf = [j \in 0..BrokerSlots - 1 |-> NoPath]
  /\ brokerFiles = {}
  /\ ub = FALSE

\* setFile (string filename): the same reset and the same loop, without the
\* broker test; setFile (string *all_conf) reads the install directory's
\* pandora_agent.conf.
setFileByName  == setFile(FALSE)
setFileAllConf == setFile(TRUE)

ConfStep ==
  \/ setFileByName \/ setFileAllConf
  \/ ReadConfLine \/ ConfLineThrows \/ CloseConf
  \/ goFirstCollection \/ goNextCollection \/ ReadCurrentCollection
  \/ setCurrentCollectionVerify

\* main runs first; the service then loads and uses its configuration.
ConfNext ==
  \/ MainStep /\ UNCHANGED confVars
  \/ outcome = "run" /\ ConfStep /\ UNCHANGED mainVars

ConfSpec == ConfInit /\ [][ConfNext]_<<confVars, mainVars>>

\* The loop of setFile is straight-line code of the thread that called it:
\* once a file is being read, its next line is read.  The client of the
\* class decides when to reload and walk collections, which is not fair.
ConfFairSpec ==
  ConfSpec /\ WF_confVars(ReadConfLine \/ ConfLineThrows \/ CloseConf)

(***************************************************************************)
(* Properties.                                                             *)
(***************************************************************************)
Names == {l.arg : l \in UNION {Range(f) : f \in ConfFiles \cup Range(IncludeFiles)}}

ConfTypeOK ==
  /\ phase \in {"new", "reading", "idle", "crashed", "thrown"}
  /\ withBroker \in BOOLEAN
  /\ file \in ConfFiles \cup {<< >>}
  /\ pos \in 1..Len(file) + 1
  /\ key_values \in Seq([key : STRING, value : STRING])
  /\ collection_list \in Seq([name : Names, verify : {0, 1}])
  /\ itValid \in BOOLEAN
  /\ itValid => itPos \in 1..Len(collection_list) + 1
  /\ all_conf \in [0..BrokerSlots - 1 -> {Path(installDir, n) : n \in Names} \cup {NoPath}]
  /\ brokerFiles \subseteq {Path(cwd, n) : n \in Names}
  /\ ub \in BOOLEAN

(* Reference reading of a configuration file, written from the file format *)
(* rather than from the loop: the key/value pairs are the lines that are   *)
(* neither comments, collections nor modules; the collections are, line by *)
(* line, those of an included file followed by the line's own, without the *)
(* names that contain "..".                                                *)
Kept(l) == ~l.comment
NamesIn(ls) ==
  LET cs == SelectSeq(ls, LAMBDA l : Kept(l) /\ Has(l, "file_collection")
                                                /\ ~Has(l, ".."))
  IN  [j \in 1..Len(cs) |-> cs[j].arg]
IncludedNames(l) ==
  IF Has(l, "include") /\ l.arg \in DOMAIN IncludeFiles
    THEN NamesIn(IncludeFiles[l.arg]) ELSE << >>
RefCollectionNames(f) ==
  FlattenSeq([j \in 1..Len(f) |->
                IF Kept(f[j]) THEN IncludedNames(f[j]) \o NamesIn(<< f[j] >>)
                              ELSE << >>])
RefKeyValues(f) ==
  LET ls == SelectSeq(f, LAMBDA l : /\ Kept(l)
                                    /\ ~Has(l, "file_collection")
                                    /\ ~Has(l, "module_"))
  IN  [j \in 1..Len(ls) |-> [key |-> ls[j].key, value |-> ls[j].arg]]

(* Once setFile has returned, whatever was loaded before, the key/value    *)
(* list and the collection list are exactly those of the file just read   *)
(* (empty when it could not be opened): the reload in setFile replaces the *)
(* lists and parseFile adds only the safe collections of included files.   *)
ConfMatchesFile ==
  phase = "idle" =>
    /\ key_values = RefKeyValues(file)
    /\ [j \in 1..Len(collection_list) |-> collection_list[j].name]
         = RefCollectionNames(file)

(* setFile with all_conf advances     position after storing a broker's   *)
(* configuration file: the n-th broker_agent line of the file is meant to *)
(* fill all_conf[n - 1], as far as the array reaches.                      *)
BrokerSlotsKept ==
  (phase = "idle" /\ withBroker) =>
    LET bs == SelectSeq(file, LAMBDA l : Kept(l) /\ Has(l, "broker_agent"))
    IN  \A j \in 1..Len(bs) : j <= BrokerSlots => all_conf[j - 1].name = bs[j].arg

(* Every broker configuration setFile names in all_conf exists: the file   *)
(* is looked for and written under its relative name, in the working       *)
(* directory, and named in all_conf under the install directory; the two   *)
(* agree only when the agent runs from its install directory.              *)
BrokerConfPresent ==
  \A j \in DOMAIN all_conf : all_conf[j] # NoPath => all_conf[j] \in brokerFiles

(* setFile returns: a load that has started reads the file to its end and *)
(* closes it, whatever lines the file holds.  Nothing in src/ catches a     *)
(* std::out_of_range out of setFile (main catches Pandora_Exception only). *)
SetFileReturns == phase = "reading" ~> phase = "idle"

=============================================================================
