----------------------------- MODULE LogSchedule -----------------------------
(***************************************************************************)
(* statemachine of programs/templogger, called by the timer every 10 ms:   *)
(* a counter from which it derives when to check the relay and when to log *)
(* as well.  The interval of the log is set over the serial line.          *)
(***************************************************************************)
EXTENDS Naturals

CONSTANTS
  Word,            \* 65536: uint16_t, and unsigned arithmetic on it
  TicksPerSecond,  \* 100 calls
  Intervals,       \* the values given to program_log, in seconds
  FirstInterval    \* 10

ASSUME ScheduleAssumption ==
  /\ Word \in Nat \ {0} /\ TicksPerSecond \in Nat \ {0}
  /\ Intervals \subseteq Nat /\ FirstInterval \in Intervals

VARIABLES
  stateCounter,
  program_log,
  sinceCheck,  \* history: calls since setRelay was last called
  sinceLog,    \* history: calls since the last log
  kept         \* history: program_log has not changed since the last log

schedule == <<stateCounter, program_log, sinceCheck, sinceLog, kept>>

ScheduleInit ==
  /\ stateCounter = 0 /\ program_log = FirstInterval
  /\ sinceCheck = 0 /\ sinceLog = 0 /\ kept = TRUE

(***************************************************************************)
(* The three outcomes of one call.  The product has 16 bits.  A remainder  *)
(* by 0, after "L:0" or when the product wraps to 0, is the dividend: so   *)
(* the division routine of the AVR's C library leaves it.                  *)
(***************************************************************************)
Remainder(a, b) == IF b = 0 THEN a ELSE a % b
Counted == (stateCounter + 1) % Word

IsLog == Remainder(Counted, (program_log * TicksPerSecond) % Word) = 0

\* mutant: one call too many in a second
IsSecondLate == ~IsLog /\ Counted % (TicksPerSecond + 1) = 0

IsSecond == ~IsLog /\ Counted % TicksPerSecond = 0

statemachineNoReset ==  \* mutant: the counter goes on after a log
  /\ stateCounter' = Counted
  /\ sinceCheck' = IF IsLog \/ IsSecond THEN 0 ELSE sinceCheck + 1
  /\ sinceLog' = IF IsLog THEN 0 ELSE sinceLog + 1
  /\ kept' = (kept \/ IsLog)
  /\ UNCHANGED program_log

statemachine ==
  /\ stateCounter' = IF IsLog THEN 0 ELSE Counted
  /\ sinceCheck' = IF IsLog \/ IsSecond THEN 0 ELSE sinceCheck + 1
  /\ sinceLog' = IF IsLog THEN 0 ELSE sinceLog + 1
  /\ kept' = (kept \/ IsLog)
  /\ UNCHANGED program_log

\* setProgramVariable, case 'L'
setInterval(s) ==
  /\ program_log' = s
  /\ kept' = (kept /\ s = program_log)
  /\ UNCHANGED <<stateCounter, sinceCheck, sinceLog>>

ScheduleNext == statemachine \/ \E s \in Intervals : setInterval(s)

Schedule == ScheduleInit /\ [][ScheduleNext]_schedule

-----------------------------------------------------------------------------
(***************************************************************************)
(* The relay is checked at least once a second ("_1SEC"), whatever         *)
(* intervals are set and whenever: setting one in the middle of a count,   *)
(* to 0, or to one whose product wraps, never makes a second longer.       *)
(***************************************************************************)
CheckedEverySecond == sinceCheck < TicksPerSecond

(***************************************************************************)
(* While the interval is left alone, the program logs exactly that many    *)
(* seconds after it last did ("Interval in full seconds between logging"), *)
(* provided the interval's calls fit in 16 bits: 655 s at most.            *)
(***************************************************************************)
LogInTime ==
  [][LET calls == program_log * TicksPerSecond
     IN  statemachine /\ kept /\ 0 < calls /\ calls < Word
           => (sinceLog' = 0 <=> sinceLog + 1 = calls)]_schedule
=============================================================================
