------------------------------ MODULE WmiEvents ------------------------------
(***************************************************************************)
(* The event-log query of the WMI helpers (src/windows/pandora_wmi.cc):    *)
(* getTimestampLimit builds the WMI date of "now - interval" with the      *)
(* machine's UTC offset, getEventList asks WMI for the events written      *)
(* since that date and keeps those whose message contains the pattern.    *)
(*                                                                         *)
(* Time.  An instant is a time_t (seconds).  The C library is modelled by  *)
(* what it does to an instant: gmtime gives the UTC wall clock, localtime  *)
(* the local one (standard offset, plus DstShift while daylight saving    *)
(* time is on), and mktime reads a wall clock back as local time, as       *)
(* standard time when tm_isdst is 0, which gmtime always sets.  A wall     *)
(* clock is kept as seconds rather than as year, month, ..., second: the   *)
(* two are in one-to-one correspondence and only the instant a WMI date    *)
(* denotes matters to WMI's TimeWritten comparison.                        *)
(***************************************************************************)
EXTENDS Integers, FiniteSets, Sequences

CONSTANTS
  StdOffset,   \* the machine's standard UTC offset, in seconds east of UTC
  DstShift,    \* extra offset while daylight saving time is on (3600)
  DstStart,    \* first instant with daylight saving time on
  Start,       \* the clock when the agent starts (seconds since the epoch)
  Step,        \* seconds between two clock readings of the model
  MaxTime,     \* last instant the model reaches
  Intervals,   \* interval arguments of getEventList, in seconds
  Sources,     \* event log names (Logfile); "" in a filter means any
  Words,       \* words a message may contain; "" as pattern means any
  MaxEvents    \* bound on the number of events written

ASSUME Start \in Nat /\ Step \in Nat \ {0} /\ MaxTime >= Start

(***************************************************************************)
(* The C time functions.                                                   *)
(***************************************************************************)
Dst(t) == t >= DstStart

gmtime(t)    == [wall |-> t, isdst |-> 0]
localtime(t) == [wall |-> t + StdOffset + (IF Dst(t) THEN DstShift ELSE 0),
                 isdst |-> IF Dst(t) THEN 1 ELSE 0]
\* mktime with tm_isdst = 0 takes the wall clock as local standard time.
mktime(tm) == tm.wall - StdOffset - (IF tm.isdst > 0 THEN DstShift ELSE 0)

Abs(x) == IF x >= 0 THEN x ELSE -x

(* The calendar fields localtime fills in for a wall clock, as the         *)
(* snprintf of getTimestampLimit prints them (tm_year + 1900, tm_mon + 1,  *)
(* tm_mday, ...): the proleptic Gregorian date of the day count.           *)
tmFields(wall) ==
  LET days == wall \div 86400
      secs == wall % 86400
      z    == days + 719468
      era  == z \div 146097
      doe  == z - era * 146097
      yoe  == (doe - doe \div 1460 + doe \div 36524 - doe \div 146096) \div 365
      doy  == doe - (365 * yoe + yoe \div 4 - yoe \div 100)
      mp   == (5 * doy + 2) \div 153
      mon  == IF mp < 10 THEN mp + 3 ELSE mp - 9
  IN  [wYear   |-> yoe + era * 400 + (IF mon <= 2 THEN 1 ELSE 0),
       wMonth  |-> mon,
       wDay    |-> doy - (153 * mp + 2) \div 5 + 1,
       wHour   |-> secs \div 3600,
       wMinute |-> (secs % 3600) \div 60,
       wSecond |-> secs % 60]

(***************************************************************************)
(* getTimestampLimit: "yyyymmddHHMMSS.000000+UUU", the local wall clock    *)
(* of now - interval followed by the sign and minutes of the UTC offset;   *)
(* an empty string when time () fails or localtime returns NULL (MSVC      *)
(* does for a negative time_t).                                            *)
(***************************************************************************)
NoLimit == [ok |-> FALSE, wall |-> 0, sign |-> "+", diff |-> 0]

\* Variant that takes the sign of utc - local instead of local - utc.
DiffSignSwapped(diff) == IF diff >= 0 THEN "-" ELSE "+"

\* diff_sign: '+' when local time is ahead of UTC or equal to it.
DiffSign(diff) == IF diff >= 0 THEN "+" ELSE "-"

getTimestampLimit(now, interval) ==
  IF now = -1 THEN NoLimit
  ELSE LET diff  == now - mktime(gmtime(now))
           limit == now - interval
       IN  IF limit < 0 THEN NoLimit
           ELSE [ok |-> TRUE, wall |-> localtime(limit).wall,
                 sign |-> DiffSign(diff), diff |-> Abs(diff) \div 60]

\* The instant WMI reads in a date: its wall clock minus its UTC offset.
Instant(limit) ==
  limit.wall - (IF limit.sign = "+" THEN 1 ELSE -1) * limit.diff * 60

(***************************************************************************)
(* getEventList: WHERE TimeWritten >= limit [AND Logfile = source], then   *)
(* the message filter "pattern.empty () || message.find (pattern)".  An    *)
(* empty limit returns at once with no event.  The Type and EventCode      *)
(* filters are built like the Logfile one and are not repeated here.       *)
(***************************************************************************)
Event == [time : Start..MaxTime, source : Sources \ {""}, words : SUBSET (Words \ {""})]

Selected(e, limit, source, pattern) ==
  /\ e.time >= Instant(limit)
  /\ source = "" \/ e.source = source
  /\ pattern = "" \/ pattern \in e.words

getEventList(events, now, source, pattern, interval) ==
  LET limit == getTimestampLimit(now, interval)
  IN  IF ~limit.ok THEN {}
      ELSE {e \in events : Selected(e, limit, source, pattern)}

(***************************************************************************)
(* The WMI date string and convertWMIDate.  snprintf's "%.4d%.2d%.2d%.2d   *)
(* %.2d%.2d.000000%c%.3d" writes each field as decimal digits padded with  *)
(* zeros; convertWMIDate reads them back with atoi (substr (pos, len)).   *)
(* A string is a sequence of characters, a digit being the number 0..9.   *)
(***************************************************************************)
Pow10(k) == 10^k

PadDigits(n, w) == [i \in 1..w |-> (n \div Pow10(w - i)) % 10]

FormatWMIDate(tm, sign, diff) ==
  PadDigits(tm.wYear, 4) \o PadDigits(tm.wMonth, 2) \o PadDigits(tm.wDay, 2)
    \o PadDigits(tm.wHour, 2) \o PadDigits(tm.wMinute, 2)
    \o PadDigits(tm.wSecond, 2) \o << "." >> \o PadDigits(0, 6) \o << sign >>
    \o PadDigits(diff, 3)

\* The string getTimestampLimit returns: "" or the WMI date of its limit.
limitString(limit) ==
  IF limit.ok THEN FormatWMIDate(tmFields(limit.wall), limit.sign, limit.diff)
  ELSE << >>

RECURSIVE atoiDigits(_, _)
atoiDigits(s, acc) ==
  IF s = << >> \/ Head(s) \notin 0..9 THEN acc
  ELSE atoiDigits(Tail(s), 10 * acc + Head(s))

atoi(s) == atoiDigits(s, 0)

\* string::substr (pos, len): characters pos .. pos + len - 1, from 0.
substr(s, pos, len) == SubSeq(s, pos + 1, pos + len)

\* Variant that reads the day one character early.
WMIDateFieldsShifted ==
  [wYear |-> <<0, 4>>, wMonth |-> <<4, 2>>, wDay |-> <<5, 2>>,
   wHour |-> <<8, 2>>, wMinute |-> <<10, 2>>, wSecond |-> <<12, 2>>]

\* The <<pos, len>> of each SYSTEMTIME field in a WMI date.
WMIDateFields ==
  [wYear |-> <<0, 4>>, wMonth |-> <<4, 2>>, wDay |-> <<6, 2>>,
   wHour |-> <<8, 2>>, wMinute |-> <<10, 2>>, wSecond |-> <<12, 2>>]

convertWMIDate(wmi_date) ==
  [f \in DOMAIN WMIDateFields |->
     atoi(substr(wmi_date, WMIDateFields[f][1], WMIDateFields[f][2]))]

(***************************************************************************)
(* The event log and the agent's queries.                                  *)
(***************************************************************************)
VARIABLES
  clock,   \* the current time (time (0))
  log,     \* the events written so far
  query    \* the last getEventList: its arguments, the log and the result

vars == <<clock, log, query>>

NoQuery == [done |-> FALSE]

Init ==
  /\ clock = Start
  /\ log = {}
  /\ query = NoQuery

Tick ==
  /\ clock + Step <= MaxTime
  /\ clock' = clock + Step
  /\ UNCHANGED <<log, query>>

\* Windows writes an event now.
WriteEvent ==
  /\ Cardinality(log) < MaxEvents
  /\ \E s \in Sources \ {""}, w \in SUBSET (Words \ {""}) :
       log' = log \cup {[time |-> clock, source |-> s, words |-> w]}
  /\ UNCHANGED <<clock, query>>

\* A call of getEventList; time (0) may fail and return -1.
Query ==
  /\ \E s \in Sources, p \in Words, i \in Intervals, timeOk \in BOOLEAN :
       LET now == IF timeOk THEN clock ELSE -1
       IN  query' = [done |-> TRUE, now |-> clock, timeOk |-> timeOk, source |-> s,
                     pattern |-> p, interval |-> i, log |-> log,
                     limit |-> limitString(getTimestampLimit(now, i)),
                     result |-> getEventList(log, now, s, p, i)]
  /\ UNCHANGED <<clock, log>>

Next == Tick \/ WriteEvent \/ Query

Spec == Init /\ [][Next]_vars

(***************************************************************************)
(* Properties.                                                             *)
(***************************************************************************)
(* getEventList (source, type, code, pattern, interval) returns the events *)
(* of the last interval seconds: every event of the log written at or      *)
(* after now - interval that passes the filters, and no older one.  This   *)
(* needs the UTC offset of getTimestampLimit, computed with gmtime and     *)
(* mktime, to be the one localtime used for the wall clock, with the right *)
(* sign on either side of UTC.                                             *)
EventWindowExact ==
  (query.done /\ query.timeOk) =>
    query.result =
      {e \in query.log : /\ e.time >= query.now - query.interval
                         /\ query.source = "" \/ e.source = query.source
                         /\ query.pattern = "" \/ query.pattern \in e.words}

(* convertWMIDate reads back the date and time of every WMI date the     *)
(* agent writes (yyyymmddHHMMSS.xxxxxx+UUU, by the snprintf of             *)
(* getTimestampLimit): the character offsets of its substr calls match    *)
(* the padded field widths, across a change of year, month, day and hour. *)
ConvertWMIDateInverts ==
  (query.done /\ query.limit # << >>) =>
    convertWMIDate(query.limit) =
      tmFields(localtime(query.now - query.interval).wall)

=============================================================================
