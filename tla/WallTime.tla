------------------------------ MODULE WallTime ------------------------------
(***************************************************************************)
(* The time arithmetic of board_support/timer1_clock.c: the wall time that *)
(* the TIMER1_COMPA interrupt advances once per millisecond, the due time  *)
(* that timer1_clock_register_callback computes from it, and the           *)
(* comparison of the two in timer1_clock_check.                            *)
(*                                                                         *)
(* The radices are constants.  The code uses 1000, 60, 60 and 24, 16 bit   *)
(* days and a 16 bit number of seconds.                                    *)
(***************************************************************************)
EXTENDS Integers

CONSTANTS
  MsecPerSec,   \* 1000
  SecPerMin,    \* 60
  MinPerHour,   \* 60
  HourPerDay,   \* 24
  DayMod,       \* values of the uint16_t day
  SecMod        \* values of the uint16_t argument sec and of freerunning_sec

(***************************************************************************)
(* "modulo not neede max val is 18 (2^16/60/60)" (line 239): a delay has   *)
(* fewer whole hours than a day.                                           *)
(***************************************************************************)
ASSUME RadixAssumption ==
  /\ MsecPerSec \in Nat \ {0}
  /\ SecPerMin \in Nat \ {0}
  /\ MinPerHour \in Nat \ {0}
  /\ HourPerDay \in Nat \ {0}
  /\ DayMod \in Nat \ {0}
  /\ SecMod \in Nat \ {0}
  /\ ((SecMod - 1) \div SecPerMin) \div MinPerHour < HourPerDay

(***************************************************************************)
(* timer1_wall_time, every field within the range its comment gives.       *)
(* freerunning_sec is left out: it counts the same carries as sec, and     *)
(* timer1_clock.c only hands it out with timer1_clock_get_time.            *)
(***************************************************************************)
timer1_wall_time ==
  [msec : 0 .. MsecPerSec - 1,
   sec  : 0 .. SecPerMin - 1,
   min  : 0 .. MinPerHour - 1,
   hour : 0 .. HourPerDay - 1,
   day  : 0 .. DayMod - 1]

ZeroTime == [msec |-> 0, sec |-> 0, min |-> 0, hour |-> 0, day |-> 0]

(***************************************************************************)
(* The reference: a time as its number of milliseconds, a delay likewise.  *)
(***************************************************************************)
Millis(t) ==
  t.msec + MsecPerSec * (t.sec + SecPerMin * (t.min + MinPerHour *
                                     (t.hour + HourPerDay * t.day)))
DelayMillis(sec, msec) == msec + MsecPerSec * sec

(***************************************************************************)
(* Mutant: > for >= where the seconds wrap.                                *)
(***************************************************************************)
NextWallTimeLateWrap(w) ==
  LET cs == w.msec + 1 >= MsecPerSec
      cm == cs /\ w.sec + 1 > SecPerMin
  IN  [msec |-> IF cs THEN 0 ELSE w.msec + 1,
       sec  |-> IF cm THEN 0 ELSE IF cs THEN w.sec + 1 ELSE w.sec,
       min  |-> w.min,
       hour |-> IF cm THEN (w.hour + 1) % HourPerDay ELSE w.hour,
       day  |-> IF cm /\ w.hour + 1 >= HourPerDay THEN (w.day + 1) % DayMod ELSE w.day]

(***************************************************************************)
(* The wall time one millisecond later: the nested increments of the       *)
(* interrupt handler.                                                      *)
(***************************************************************************)
NextWallTime(w) ==
  LET cs == w.msec + 1 >= MsecPerSec
      cm == cs /\ w.sec + 1 >= SecPerMin
      ch == cm /\ w.min + 1 >= MinPerHour
      cd == ch /\ w.hour + 1 >= HourPerDay
  IN  [msec |-> IF cs THEN 0 ELSE w.msec + 1,
       sec  |-> IF cm THEN 0 ELSE IF cs THEN w.sec + 1 ELSE w.sec,
       min  |-> IF ch THEN 0 ELSE IF cm THEN w.min + 1 ELSE w.min,
       hour |-> IF cd THEN 0 ELSE IF ch THEN w.hour + 1 ELSE w.hour,
       day  |-> IF cd THEN (w.day + 1) % DayMod ELSE w.day]

(***************************************************************************)
(* The time sec seconds and msec milliseconds after w, digit by digit with *)
(* one carry, as timer1_clock_register_callback computes it.  The carry    *)
(* out of the milliseconds goes into the uint16_t argument sec and wraps.  *)
(***************************************************************************)
CarriedSecForgotten(w, sec, msec) == sec  \* mutant: the carry is dropped

CarriedSec(w, sec, msec) ==
  IF w.msec + msec >= MsecPerSec THEN (sec + 1) % SecMod ELSE sec

Once(x, radix) == IF x >= radix THEN x - radix ELSE x
CarryOf(x, radix) == IF x >= radix THEN 1 ELSE 0

DueTime(w, sec, msec) ==
  LET s0 == CarriedSec(w, sec, msec)
      m0 == s0 \div SecPerMin
      h0 == m0 \div MinPerHour
      ms == w.msec + msec
      s  == w.sec + (s0 % SecPerMin)
      m  == w.min + (m0 % MinPerHour) + CarryOf(s, SecPerMin)
      h  == w.hour + h0 + CarryOf(m, MinPerHour)
  IN  [msec |-> Once(ms, MsecPerSec),
       sec  |-> Once(s, SecPerMin),
       min  |-> Once(m, MinPerHour),
       hour |-> Once(h, HourPerDay),
       day  |-> (w.day + CarryOf(h, HourPerDay)) % DayMod]

(***************************************************************************)
(* Mutant: > for >= in the last comparison.                                *)
(***************************************************************************)
IsDueStrict(w, t) == Millis(w) > Millis(t)

(***************************************************************************)
(* The comparison of timer1_clock_check.                                   *)
(***************************************************************************)
IsDue(w, t) ==
  \/ w.day > t.day
  \/ w.day = t.day /\ w.hour > t.hour
  \/ w.day = t.day /\ w.hour = t.hour /\ w.min > t.min
  \/ w.day = t.day /\ w.hour = t.hour /\ w.min = t.min /\ w.sec > t.sec
  \/ /\ w.day = t.day /\ w.hour = t.hour /\ w.min = t.min /\ w.sec = t.sec
     /\ w.msec >= t.msec
=============================================================================
