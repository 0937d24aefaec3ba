---------------------------- MODULE MC_WmiEvents ----------------------------
(* A machine five hours west of UTC, the clock read every half hour over   *)
(* an hour and a half, queries for the last hour.  In winter the window    *)
(* of the first query starts at 23:30 local on 31 December 2024, so the    *)
(* limits cross the change of year; in summer daylight saving time is on.  *)
EXTENDS WmiEvents

MCStdOffset == -18000                  \* UTC-5
MCStart     == 1735707600 + 1800       \* 2025-01-01 00:30 local
MCMaxTime   == MCStart + 5400
MCNoDst     == MCMaxTime + 1           \* daylight saving time never on
MCSummerStart   == 1751346000 + 1800   \* 2025-07-01 01:30 local (EDT, UTC-4)
MCSummerMaxTime == MCSummerStart + 5400
==============================================================================
