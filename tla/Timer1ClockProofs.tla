------------------------- MODULE Timer1ClockProofs -------------------------
(***************************************************************************)
(* Theorems about WallTime and Timer1Clock, for every choice of radices    *)
(* and every set of callbacks and delays: first the arithmetic of the wall *)
(* time, then the service built on it.                                     *)
(***************************************************************************)
EXTENDS Timer1Clock, FiniteSetTheorems, SequenceTheorems, TLAPS

(***************************************************************************)
(* Facts about multiplication and division by a positive number that the   *)
(* arithmetic below needs.                                                 *)
(***************************************************************************)
LEMMA DivModFacts ==
  ASSUME NEW a \in Nat, NEW n \in Nat \ {0}
  PROVE  /\ a \div n \in Nat
         /\ a % n \in 0 .. n - 1
         /\ a = n * (a \div n) + (a % n)
  BY SMT

(***************************************************************************)
(* Multiplication keeps the order.                                         *)
(***************************************************************************)
LEMMA MulMono ==
  ASSUME NEW a \in Int, NEW b \in Int, NEW n \in Nat, a <= b
  PROVE  n * a <= n * b
  BY SMT

(***************************************************************************)
(* A carry is worth one radix.                                             *)
(***************************************************************************)
LEMMA MulPlusOne ==
  ASSUME NEW a \in Int, NEW n \in Int
  PROVE  n * (a + 1) = n * a + n
  BY SMT

(***************************************************************************)
(* Division keeps the order.                                               *)
(***************************************************************************)
LEMMA DivMono ==
  ASSUME NEW a \in Nat, NEW b \in Nat, NEW n \in Nat \ {0}, a <= b
  PROVE  a \div n <= b \div n
  BY SMT

-----------------------------------------------------------------------------
(***************************************************************************)
(* The interrupt keeps every digit within its radix.                       *)
(***************************************************************************)
LEMMA NextWallTimeType ==
  ASSUME NEW w \in timer1_wall_time
  PROVE  NextWallTime(w) \in timer1_wall_time
<1>1. (w.day + 1) % DayMod \in 0 .. DayMod - 1
  BY RadixAssumption DEF timer1_wall_time
<1> QED
  BY <1>1, RadixAssumption DEF NextWallTime, timer1_wall_time

(***************************************************************************)
(* So does register: one carry per digit is enough, because a delay has    *)
(* fewer hours than a day.                                                 *)
(***************************************************************************)
LEMMA CarriedSecType ==
  ASSUME NEW w \in timer1_wall_time, NEW sec \in 0 .. SecMod - 1,
         NEW msec \in 0 .. MsecPerSec - 1
  PROVE  CarriedSec(w, sec, msec) \in 0 .. SecMod - 1
  BY RadixAssumption DEF CarriedSec, timer1_wall_time

(***************************************************************************)
(* A delay has fewer whole hours than a day.                               *)
(***************************************************************************)
LEMMA HoursOfDelay ==
  ASSUME NEW s \in 0 .. SecMod - 1
  PROVE  /\ s \div SecPerMin \in Nat
         /\ (s \div SecPerMin) \div MinPerHour \in 0 .. HourPerDay - 1
<1>1. /\ s \in Nat /\ SecMod - 1 \in Nat /\ s <= SecMod - 1
      /\ s \div SecPerMin \in Nat /\ (SecMod - 1) \div SecPerMin \in Nat
  BY RadixAssumption, DivModFacts
<1>2. s \div SecPerMin <= (SecMod - 1) \div SecPerMin
  BY <1>1, RadixAssumption, DivMono
<1>3. (s \div SecPerMin) \div MinPerHour
        <= ((SecMod - 1) \div SecPerMin) \div MinPerHour
  BY <1>1, <1>2, RadixAssumption, DivMono
<1>4. /\ (s \div SecPerMin) \div MinPerHour \in Nat
      /\ ((SecMod - 1) \div SecPerMin) \div MinPerHour \in Nat
  BY <1>1, RadixAssumption, DivModFacts
<1> QED
  BY <1>1, <1>3, <1>4, RadixAssumption

(***************************************************************************)
(* The due time register computes has every digit within its radix.        *)
(***************************************************************************)
LEMMA DueTimeType ==
  ASSUME NEW w \in timer1_wall_time, NEW sec \in 0 .. SecMod - 1,
         NEW msec \in 0 .. MsecPerSec - 1
  PROVE  DueTime(w, sec, msec) \in timer1_wall_time
<1> DEFINE s0 == CarriedSec(w, sec, msec)
           m0 == s0 \div SecPerMin
           h0 == m0 \div MinPerHour
           s  == w.sec + (s0 % SecPerMin)
           m  == w.min + (m0 % MinPerHour) + CarryOf(s, SecPerMin)
           h  == w.hour + h0 + CarryOf(m, MinPerHour)
<1>1. s0 \in 0 .. SecMod - 1
  BY CarriedSecType
<1>2. m0 \in Nat /\ h0 \in 0 .. HourPerDay - 1
  BY <1>1, HoursOfDelay
<1> HIDE DEF s0, m0, h0
<1>3. /\ s0 % SecPerMin \in 0 .. SecPerMin - 1
      /\ m0 % MinPerHour \in 0 .. MinPerHour - 1
  BY <1>1, <1>2, RadixAssumption, DivModFacts
<1>4. Once(w.msec + msec, MsecPerSec) \in 0 .. MsecPerSec - 1
  BY RadixAssumption DEF Once, timer1_wall_time
<1>5. s \in 0 .. 2 * SecPerMin - 2 /\ Once(s, SecPerMin) \in 0 .. SecPerMin - 1
  BY <1>3, RadixAssumption DEF Once, timer1_wall_time
<1> HIDE DEF s
<1>6. m \in 0 .. 2 * MinPerHour - 1 /\ Once(m, MinPerHour) \in 0 .. MinPerHour - 1
  BY <1>3, <1>5, RadixAssumption DEF Once, CarryOf, timer1_wall_time
<1> HIDE DEF m
<1>7. h \in 0 .. 2 * HourPerDay - 1 /\ Once(h, HourPerDay) \in 0 .. HourPerDay - 1
  BY <1>2, <1>6, RadixAssumption DEF Once, CarryOf, timer1_wall_time
<1> HIDE DEF h
<1>8. (w.day + CarryOf(h, HourPerDay)) % DayMod \in 0 .. DayMod - 1
  BY <1>7, RadixAssumption DEF CarryOf, timer1_wall_time
<1>9. DueTime(w, sec, msec) =
        [msec |-> Once(w.msec + msec, MsecPerSec), sec |-> Once(s, SecPerMin),
         min |-> Once(m, MinPerHour), hour |-> Once(h, HourPerDay),
         day |-> (w.day + CarryOf(h, HourPerDay)) % DayMod]
  BY DEF DueTime, s0, m0, h0, s, m, h
<1> QED
  BY <1>4, <1>5, <1>6, <1>7, <1>8, <1>9 DEF timer1_wall_time

-----------------------------------------------------------------------------
(***************************************************************************)
(* Times as numbers.  Hours, Minutes and Seconds are the leading digits of *)
(* a time, each as one number; Millis is all of them.                      *)
(***************************************************************************)
Hours(t) == t.hour + HourPerDay * t.day
Minutes(t) == t.min + MinPerHour * Hours(t)
Seconds(t) == t.sec + SecPerMin * Minutes(t)

(***************************************************************************)
(* The leading digits are integers, each built from the one before.        *)
(***************************************************************************)
LEMMA LeadingDigits ==
  ASSUME NEW t \in timer1_wall_time
  PROVE  /\ Hours(t) \in Int
         /\ Minutes(t) \in Int
         /\ Seconds(t) \in Int
         /\ Millis(t) \in Int
         /\ Millis(t) = t.msec + MsecPerSec * Seconds(t)
  BY RadixAssumption DEF timer1_wall_time, Hours, Minutes, Seconds, Millis

(***************************************************************************)
(* One digit: subtracting the radix once and carrying one keeps the value. *)
(***************************************************************************)
LEMMA DigitCarry ==
  ASSUME NEW x \in Int, NEW r \in Int, NEW v \in Int
  PROVE  Once(x, r) + r * (v + CarryOf(x, r)) = x + r * v
<1>1. CASE x >= r
  <2>1. r * (v + 1) = r * v + r
    BY MulPlusOne
  <2>2. r * v \in Int
    OBVIOUS
  <2> QED
    BY <1>1, <2>1, <2>2 DEF Once, CarryOf
<1>2. CASE ~(x >= r)
  BY <1>2 DEF Once, CarryOf
<1> QED
  BY <1>1, <1>2

(***************************************************************************)
(* One digit: comparing the leading digits first and then the last one is  *)
(* comparing the values.                                                   *)
(***************************************************************************)
LEMMA DigitOrder ==
  ASSUME NEW r \in Nat \ {0}, NEW a \in 0 .. r - 1, NEW b \in 0 .. r - 1,
         NEW x \in Int, NEW y \in Int
  PROVE  /\ a + r * x > b + r * y <=> x > y \/ (x = y /\ a > b)
         /\ a + r * x >= b + r * y <=> x > y \/ (x = y /\ a >= b)
<1>1. r * x \in Int /\ r * y \in Int
  OBVIOUS
<1>2. CASE x > y
  <2>1. r * (y + 1) <= r * x /\ r * (y + 1) = r * y + r
    BY <1>2, MulMono, MulPlusOne
  <2> QED
    BY <1>1, <1>2, <2>1
<1>3. CASE x < y
  <2>1. r * (x + 1) <= r * y /\ r * (x + 1) = r * x + r
    BY <1>3, MulMono, MulPlusOne
  <2> QED
    BY <1>1, <1>3, <2>1
<1>4. CASE x = y
  BY <1>1, <1>4
<1> QED
  BY <1>2, <1>3, <1>4

(***************************************************************************)
(* timer1_clock_check compares times as numbers of milliseconds.           *)
(***************************************************************************)
THEOREM DueIsOrder ==
  ASSUME NEW w \in timer1_wall_time, NEW t \in timer1_wall_time
  PROVE  IsDue(w, t) <=> Millis(w) >= Millis(t)
<1>1. /\ Hours(w) > Hours(t) <=>
           w.day > t.day \/ (w.day = t.day /\ w.hour > t.hour)
      /\ Hours(w) = Hours(t) <=> w.day = t.day /\ w.hour = t.hour
  <2>1. /\ HourPerDay \in Nat \ {0} /\ w.day \in Int /\ t.day \in Int
        /\ w.hour \in 0 .. HourPerDay - 1 /\ t.hour \in 0 .. HourPerDay - 1
    BY LeadingDigits, RadixAssumption DEF timer1_wall_time
  <2>2. w.hour + HourPerDay * w.day > t.hour + HourPerDay * t.day <=>
          w.day > t.day \/ (w.day = t.day /\ w.hour > t.hour)
    BY <2>1, DigitOrder, ZenonT(60)
  <2>3. t.hour + HourPerDay * t.day > w.hour + HourPerDay * w.day <=>
          t.day > w.day \/ (t.day = w.day /\ t.hour > w.hour)
    BY <2>1, DigitOrder, ZenonT(60)
  <2>4. /\ Hours(w) > Hours(t) <=>
             w.day > t.day \/ (w.day = t.day /\ w.hour > t.hour)
        /\ Hours(t) > Hours(w) <=>
             t.day > w.day \/ (t.day = w.day /\ t.hour > w.hour)
    BY <2>2, <2>3, Zenon DEF Hours
  <2> QED
    BY <2>1, <2>4, LeadingDigits, SMT
<1>2. /\ Minutes(w) > Minutes(t) <=>
           Hours(w) > Hours(t) \/ (Hours(w) = Hours(t) /\ w.min > t.min)
      /\ Minutes(w) = Minutes(t) <=> Hours(w) = Hours(t) /\ w.min = t.min
  <2>1. /\ MinPerHour \in Nat \ {0} /\ Hours(w) \in Int /\ Hours(t) \in Int
        /\ w.min \in 0 .. MinPerHour - 1 /\ t.min \in 0 .. MinPerHour - 1
    BY LeadingDigits, RadixAssumption DEF timer1_wall_time
  <2>2. w.min + MinPerHour * Hours(w) > t.min + MinPerHour * Hours(t) <=>
          Hours(w) > Hours(t) \/ (Hours(w) = Hours(t) /\ w.min > t.min)
    BY <2>1, DigitOrder, ZenonT(60)
  <2>3. t.min + MinPerHour * Hours(t) > w.min + MinPerHour * Hours(w) <=>
          Hours(t) > Hours(w) \/ (Hours(t) = Hours(w) /\ t.min > w.min)
    BY <2>1, DigitOrder, ZenonT(60)
  <2>4. /\ Minutes(w) > Minutes(t) <=>
             Hours(w) > Hours(t) \/ (Hours(w) = Hours(t) /\ w.min > t.min)
        /\ Minutes(t) > Minutes(w) <=>
             Hours(t) > Hours(w) \/ (Hours(t) = Hours(w) /\ t.min > w.min)
    BY <2>2, <2>3, Zenon DEF Minutes
  <2> QED
    BY <2>1, <2>4, LeadingDigits, SMT
<1>3. /\ Seconds(w) > Seconds(t) <=>
           Minutes(w) > Minutes(t) \/ (Minutes(w) = Minutes(t) /\ w.sec > t.sec)
      /\ Seconds(w) = Seconds(t) <=> Minutes(w) = Minutes(t) /\ w.sec = t.sec
  <2>1. /\ SecPerMin \in Nat \ {0} /\ Minutes(w) \in Int /\ Minutes(t) \in Int
        /\ w.sec \in 0 .. SecPerMin - 1 /\ t.sec \in 0 .. SecPerMin - 1
    BY LeadingDigits, RadixAssumption DEF timer1_wall_time
  <2>2. w.sec + SecPerMin * Minutes(w) > t.sec + SecPerMin * Minutes(t) <=>
          Minutes(w) > Minutes(t) \/ (Minutes(w) = Minutes(t) /\ w.sec > t.sec)
    BY <2>1, DigitOrder, ZenonT(60)
  <2>3. t.sec + SecPerMin * Minutes(t) > w.sec + SecPerMin * Minutes(w) <=>
          Minutes(t) > Minutes(w) \/ (Minutes(t) = Minutes(w) /\ t.sec > w.sec)
    BY <2>1, DigitOrder, ZenonT(60)
  <2>4. /\ Seconds(w) > Seconds(t) <=>
             Minutes(w) > Minutes(t) \/ (Minutes(w) = Minutes(t) /\ w.sec > t.sec)
        /\ Seconds(t) > Seconds(w) <=>
             Minutes(t) > Minutes(w) \/ (Minutes(t) = Minutes(w) /\ t.sec > w.sec)
    BY <2>2, <2>3, Zenon DEF Seconds
  <2> QED
    BY <2>1, <2>4, LeadingDigits, SMT
<1>4. Millis(w) >= Millis(t) <=>
        Seconds(w) > Seconds(t) \/ (Seconds(w) = Seconds(t) /\ w.msec >= t.msec)
  <2>1. /\ MsecPerSec \in Nat \ {0} /\ Seconds(w) \in Int /\ Seconds(t) \in Int
        /\ w.msec \in 0 .. MsecPerSec - 1 /\ t.msec \in 0 .. MsecPerSec - 1
    BY LeadingDigits, RadixAssumption DEF timer1_wall_time
  <2>2. w.msec + MsecPerSec * Seconds(w) >= t.msec + MsecPerSec * Seconds(t) <=>
          Seconds(w) > Seconds(t) \/ (Seconds(w) = Seconds(t) /\ w.msec >= t.msec)
    BY <2>1, DigitOrder, ZenonT(60)
  <2>3. /\ Millis(w) = w.msec + MsecPerSec * Seconds(w)
        /\ Millis(t) = t.msec + MsecPerSec * Seconds(t)
    BY LeadingDigits
  <2> QED
    BY <2>2, <2>3, Zenon
<1> QED
  BY <1>1, <1>2, <1>3, <1>4 DEF IsDue

(***************************************************************************)
(* The interrupt advances the wall time by one millisecond.                *)
(***************************************************************************)
THEOREM NextWallTimeCounts ==
  ASSUME NEW w \in timer1_wall_time, w.day + 1 < DayMod
  PROVE  Millis(NextWallTime(w)) = Millis(w) + 1
<1> DEFINE n == NextWallTime(w)
           cs == w.msec + 1 >= MsecPerSec
           cm == cs /\ w.sec + 1 >= SecPerMin
           ch == cm /\ w.min + 1 >= MinPerHour
           cd == ch /\ w.hour + 1 >= HourPerDay
<1>1. /\ n.msec = IF cs THEN 0 ELSE w.msec + 1
      /\ n.sec = IF cm THEN 0 ELSE IF cs THEN w.sec + 1 ELSE w.sec
      /\ n.min = IF ch THEN 0 ELSE IF cm THEN w.min + 1 ELSE w.min
      /\ n.hour = IF cd THEN 0 ELSE IF ch THEN w.hour + 1 ELSE w.hour
      /\ n.day = IF cd THEN w.day + 1 ELSE w.day
  BY RadixAssumption DEF NextWallTime, timer1_wall_time
<1>2. /\ w.msec \in 0 .. MsecPerSec - 1 /\ w.sec \in 0 .. SecPerMin - 1
      /\ w.min \in 0 .. MinPerHour - 1 /\ w.hour \in 0 .. HourPerDay - 1
      /\ w.day \in Int /\ Hours(w) \in Int /\ Minutes(w) \in Int /\ Seconds(w) \in Int
  BY LeadingDigits DEF timer1_wall_time
<1>3. n \in timer1_wall_time
  BY NextWallTimeType
<1> HIDE DEF n
<1>4. Hours(n) = IF ch THEN Hours(w) + 1 ELSE Hours(w)
  <2>1. HourPerDay * (w.day + 1) = HourPerDay * w.day + HourPerDay
    BY <1>2, RadixAssumption, MulPlusOne
  <2>2. HourPerDay * w.day \in Int
    BY <1>2, RadixAssumption
  <2> QED
    BY <1>1, <1>2, <2>1, <2>2, RadixAssumption DEF Hours
<1>5. Minutes(n) = IF cm THEN Minutes(w) + 1 ELSE Minutes(w)
  <2>1. MinPerHour * (Hours(w) + 1) = MinPerHour * Hours(w) + MinPerHour
    BY <1>2, RadixAssumption, MulPlusOne
  <2>2. MinPerHour * Hours(w) \in Int
    BY <1>2, RadixAssumption
  <2> QED
    BY <1>1, <1>2, <1>4, <2>1, <2>2, RadixAssumption DEF Minutes
<1>6. Seconds(n) = IF cs THEN Seconds(w) + 1 ELSE Seconds(w)
  <2>1. SecPerMin * (Minutes(w) + 1) = SecPerMin * Minutes(w) + SecPerMin
    BY <1>2, RadixAssumption, MulPlusOne
  <2>2. SecPerMin * Minutes(w) \in Int
    BY <1>2, RadixAssumption
  <2>3. CASE cm
    BY <1>1, <1>2, <1>5, <2>1, <2>2, <2>3, RadixAssumption DEF Seconds
  <2>4. CASE ~cm
    BY <1>1, <1>2, <1>5, <2>2, <2>4, RadixAssumption DEF Seconds
  <2> QED
    BY <2>3, <2>4
<1>7. MsecPerSec * (Seconds(w) + 1) = MsecPerSec * Seconds(w) + MsecPerSec
  BY <1>2, RadixAssumption, MulPlusOne
<1>8. /\ Millis(n) = n.msec + MsecPerSec * Seconds(n)
      /\ Millis(w) = w.msec + MsecPerSec * Seconds(w)
      /\ MsecPerSec * Seconds(w) \in Int
  BY <1>2, <1>3, LeadingDigits, RadixAssumption
<1>9. Millis(n) = Millis(w) + 1
  BY <1>1, <1>2, <1>6, <1>7, <1>8, RadixAssumption
<1> QED
  BY <1>9 DEF n

(***************************************************************************)
(* timer1_clock_register_callback computes the time that lies the delay    *)
(* after the wall time, as long as the carry out of the milliseconds does  *)
(* not overflow the 16 bit seconds and the day does not overflow.          *)
(***************************************************************************)
LEMMA MulPlus ==
  ASSUME NEW a \in Int, NEW b \in Int, NEW n \in Int
  PROVE  n * (a + b) = n * a + n * b
  BY SMT

(***************************************************************************)
(* The due time is the wall time plus the delay, carries included.         *)
(***************************************************************************)
THEOREM DueTimeAdds ==
  ASSUME NEW w \in timer1_wall_time, NEW sec \in 0 .. SecMod - 1,
         NEW msec \in 0 .. MsecPerSec - 1,
         sec + 1 < SecMod, w.day + 1 < DayMod
  PROVE  Millis(DueTime(w, sec, msec)) = Millis(w) + DelayMillis(sec, msec)
<1> DEFINE ms == w.msec + msec
           s0 == CarriedSec(w, sec, msec)
           m0 == s0 \div SecPerMin
           h0 == m0 \div MinPerHour
           s  == w.sec + (s0 % SecPerMin)
           m  == w.min + (m0 % MinPerHour) + CarryOf(s, SecPerMin)
           h  == w.hour + h0 + CarryOf(m, MinPerHour)
           d  == DueTime(w, sec, msec)
<1>1. s0 \in 0 .. SecMod - 1 /\ s0 = sec + CarryOf(ms, MsecPerSec)
  <2>1. s0 \in 0 .. SecMod - 1
    BY CarriedSecType
  <2>2. (sec + 1) % SecMod = sec + 1
    BY RadixAssumption
  <2> QED
    BY <2>1, <2>2 DEF CarriedSec, CarryOf
<1>2. m0 \in Nat /\ h0 \in 0 .. HourPerDay - 1
  BY <1>1, HoursOfDelay
<1>3. /\ d = [msec |-> Once(ms, MsecPerSec), sec |-> Once(s, SecPerMin),
              min |-> Once(m, MinPerHour), hour |-> Once(h, HourPerDay),
              day |-> (w.day + CarryOf(h, HourPerDay)) % DayMod]
      /\ d \in timer1_wall_time
  BY DueTimeType DEF DueTime
<1> HIDE DEF d, h0, m0, s0
<1>4. /\ s0 % SecPerMin \in 0 .. SecPerMin - 1
      /\ s0 = SecPerMin * (s0 \div SecPerMin) + (s0 % SecPerMin)
      /\ m0 % MinPerHour \in 0 .. MinPerHour - 1
      /\ m0 = MinPerHour * (m0 \div MinPerHour) + (m0 % MinPerHour)
  <2>1. s0 \in Nat /\ SecPerMin \in Nat \ {0} /\ m0 \in Nat /\ MinPerHour \in Nat \ {0}
    BY <1>1, <1>2, RadixAssumption
  <2> QED
    BY <2>1, DivModFacts, Zenon
<1>5. /\ s0 = SecPerMin * m0 + (s0 % SecPerMin)
      /\ m0 = MinPerHour * h0 + (m0 % MinPerHour)
  BY <1>4 DEF m0, h0
<1>6. /\ w.msec \in 0 .. MsecPerSec - 1 /\ w.sec \in 0 .. SecPerMin - 1
      /\ w.min \in 0 .. MinPerHour - 1 /\ w.hour \in 0 .. HourPerDay - 1
      /\ w.day \in 0 .. DayMod - 1
      /\ Hours(w) \in Int /\ Minutes(w) \in Int /\ Seconds(w) \in Int
  BY LeadingDigits DEF timer1_wall_time
<1>7. ms \in Int /\ s \in Int /\ CarryOf(s, SecPerMin) \in {0, 1}
      /\ m \in Int /\ CarryOf(m, MinPerHour) \in {0, 1}
      /\ h \in Int /\ CarryOf(h, HourPerDay) \in {0, 1}
  BY <1>2, <1>4, <1>6 DEF CarryOf
<1> HIDE DEF ms, s, m, h
<1>8. d.day = w.day + CarryOf(h, HourPerDay)
  BY <1>3, <1>6, <1>7, RadixAssumption
<1>9. /\ d.msec = Once(ms, MsecPerSec) /\ d.sec = Once(s, SecPerMin)
      /\ d.min = Once(m, MinPerHour) /\ d.hour = Once(h, HourPerDay)
  BY <1>3
<1>10. Hours(d) = Hours(w) + h0 + CarryOf(m, MinPerHour)
  <2>0. HourPerDay \in Int /\ w.day \in Int /\ h \in Int
    BY <1>6, <1>7, RadixAssumption
  <2>1. Hours(d) = h + HourPerDay * w.day
    <3>1. Once(h, HourPerDay) + HourPerDay * (w.day + CarryOf(h, HourPerDay))
            = h + HourPerDay * w.day
      BY <2>0, DigitCarry, Zenon
    <3> QED
      BY <1>8, <1>9, <3>1, Zenon DEF Hours
  <2>2. HourPerDay * w.day \in Int
    BY <1>6, RadixAssumption
  <2> QED
    BY <1>2, <1>6, <1>7, <2>1, <2>2 DEF Hours, h
<1>11. Minutes(d) = Minutes(w) + m0 + CarryOf(s, SecPerMin)
  <2>0. m \in Int /\ MinPerHour \in Int /\ Hours(w) + h0 \in Int
    BY <1>2, <1>6, <1>7, RadixAssumption
  <2>1. Once(m, MinPerHour) + MinPerHour * ((Hours(w) + h0) + CarryOf(m, MinPerHour))
          = m + MinPerHour * (Hours(w) + h0)
    BY <2>0, DigitCarry, Zenon
  <2>2. MinPerHour * (Hours(w) + h0) = MinPerHour * Hours(w) + MinPerHour * h0
    BY <1>2, <1>6, RadixAssumption, MulPlus
  <2>3. MinPerHour * Hours(w) \in Int /\ MinPerHour * h0 \in Int
    BY <1>2, <1>6, RadixAssumption
  <2>4. Minutes(d) = m + MinPerHour * (Hours(w) + h0)
    BY <1>9, <1>10, <2>1, Zenon DEF Minutes
  <2> QED
    BY <1>2, <1>4, <1>5, <1>6, <1>7, <2>2, <2>3, <2>4 DEF Minutes, m
<1>12. Seconds(d) = Seconds(w) + s0
  <2>0. s \in Int /\ SecPerMin \in Int /\ Minutes(w) + m0 \in Int
    BY <1>2, <1>6, <1>7, RadixAssumption
  <2>1. Once(s, SecPerMin) + SecPerMin * ((Minutes(w) + m0) + CarryOf(s, SecPerMin))
          = s + SecPerMin * (Minutes(w) + m0)
    BY <2>0, DigitCarry, Zenon
  <2>2. SecPerMin * (Minutes(w) + m0) = SecPerMin * Minutes(w) + SecPerMin * m0
    BY <1>2, <1>6, RadixAssumption, MulPlus
  <2>3. SecPerMin * Minutes(w) \in Int /\ SecPerMin * m0 \in Int
    BY <1>2, <1>6, RadixAssumption
  <2>4. Seconds(d) = s + SecPerMin * (Minutes(w) + m0)
    BY <1>9, <1>11, <2>1, Zenon DEF Seconds
  <2> QED
    BY <1>1, <1>4, <1>5, <1>6, <2>2, <2>3, <2>4 DEF Seconds, s
<1>13. Millis(d) = Millis(w) + DelayMillis(sec, msec)
  <2>0. ms \in Int /\ MsecPerSec \in Int /\ Seconds(w) + sec \in Int
    BY <1>6, <1>7, RadixAssumption
  <2>1. Once(ms, MsecPerSec) + MsecPerSec * ((Seconds(w) + sec) + CarryOf(ms, MsecPerSec))
          = ms + MsecPerSec * (Seconds(w) + sec)
    BY <2>0, DigitCarry, Zenon
  <2>2. MsecPerSec * (Seconds(w) + sec) = MsecPerSec * Seconds(w) + MsecPerSec * sec
    BY <1>6, RadixAssumption, MulPlus
  <2>3. MsecPerSec * Seconds(w) \in Int /\ MsecPerSec * sec \in Int
    BY <1>6, RadixAssumption
  <2>4. Seconds(d) = (Seconds(w) + sec) + CarryOf(ms, MsecPerSec)
    BY <1>1, <1>6, <1>12 DEF CarryOf
  <2>5. Millis(d) = d.msec + MsecPerSec * Seconds(d)
    BY <1>3, LeadingDigits
  <2>6. Millis(d) = ms + MsecPerSec * (Seconds(w) + sec)
    BY <1>9, <2>1, <2>4, <2>5, Zenon
  <2>7. Millis(w) = w.msec + MsecPerSec * Seconds(w)
    BY LeadingDigits
  <2> QED
    BY <1>6, <2>2, <2>3, <2>6, <2>7 DEF DelayMillis, ms
<1> QED
  BY <1>13 DEF d

-----------------------------------------------------------------------------
(***************************************************************************)
(* The operations on the chain keep it a sequence of entries.              *)
(***************************************************************************)
LEMMA WithoutType ==
  ASSUME NEW S, NEW s \in Seq(S), NEW i \in DOMAIN s
  PROVE  /\ Without(s, i) \in Seq(S)
         /\ Len(Without(s, i)) = Len(s) - 1
         /\ \A j \in 1 .. Len(s) - 1 :
              Without(s, i)[j] = IF j < i THEN s[j] ELSE s[j + 1]
<1>1. Len(s) \in Nat /\ DOMAIN s = 1 .. Len(s) /\ i \in 1 .. Len(s)
  OBVIOUS
<1>2. Without(s, i) = [j \in 1 .. Len(s) - 1 |-> IF j < i THEN s[j] ELSE s[j + 1]]
  BY DEF Without
<1>3. Len(s) - 1 \in Nat
  BY <1>1
<1>4. \A j \in 1 .. Len(s) - 1 : (IF j < i THEN s[j] ELSE s[j + 1]) \in S
  BY <1>1
<1>5. Without(s, i) \in [1 .. Len(s) - 1 -> S]
  BY <1>2, <1>4, Zenon
<1> QED
  BY <1>2, <1>3, <1>5, SMT

(***************************************************************************)
(* What is left after a removal was there before.                          *)
(***************************************************************************)
LEMMA WithoutSource ==
  ASSUME NEW S, NEW s \in Seq(S), NEW i \in DOMAIN s
  PROVE  \A j \in DOMAIN Without(s, i) :
           \E k \in DOMAIN s : Without(s, i)[j] = s[k]
<1>1. Len(s) \in Nat /\ DOMAIN s = 1 .. Len(s) /\ i \in 1 .. Len(s)
  OBVIOUS
<1>2. DOMAIN Without(s, i) = 1 .. Len(s) - 1
  BY DEF Without
<1> SUFFICES ASSUME NEW j \in 1 .. Len(s) - 1
             PROVE  \E k \in DOMAIN s : Without(s, i)[j] = s[k]
  BY <1>2
<1>3. Without(s, i)[j] = IF j < i THEN s[j] ELSE s[j + 1]
  BY WithoutType
<1> QED
  BY <1>1, <1>3

(***************************************************************************)
(* register fills a struct with values of its type.                        *)
(***************************************************************************)
LEMMA RegisteredType ==
  ASSUME NEW w \in timer1_wall_time, NEW c \in Callbacks,
         NEW sec \in 0 .. SecMod - 1, NEW msec \in 0 .. MsecPerSec - 1,
         NEW recurring \in BOOLEAN
  PROVE  Registered(w, c, sec, msec, recurring) \in Entry
<1>1. DueTime(w, sec, msec) \in timer1_wall_time
  BY DueTimeType
<1>2. DelayMillis(sec, msec) \in Int
  BY RadixAssumption DEF DelayMillis
<1> QED
  BY <1>1, <1>2 DEF Registered, Entry

(***************************************************************************)
(* The bound on lateness is an integer, not above 0.                       *)
(***************************************************************************)
LEMMA OverdueType == Overdue \in Int /\ Overdue <= 0
  BY ClockAssumption, FS_CardinalityType DEF Overdue

(***************************************************************************)
(* A tick changes only the history field of the elements.                  *)
(***************************************************************************)
LEMMA AgedType ==
  ASSUME chain \in Seq(Entry)
  PROVE  /\ Aged \in Seq(Entry)
         /\ Len(Aged) = Len(chain)
         /\ DOMAIN Aged = DOMAIN chain
         /\ \A i \in DOMAIN chain :
              Aged[i] = [chain[i] EXCEPT !.left = OneLess(@)]
<1>1. \A i \in DOMAIN chain : [chain[i] EXCEPT !.left = OneLess(@)] \in Entry
  <2> SUFFICES ASSUME NEW i \in DOMAIN chain
               PROVE  [chain[i] EXCEPT !.left = OneLess(@)] \in Entry
    OBVIOUS
  <2>1. chain[i] \in Entry
    OBVIOUS
  <2>2. OneLess(chain[i].left) \in Int
    BY <2>1, OverdueType DEF Entry, OneLess
  <2> QED
    BY <2>1, <2>2 DEF Entry
<1>2. Aged \in [1 .. Len(chain) -> Entry]
  BY <1>1 DEF Aged
<1> QED
  BY <1>2 DEF Aged

-----------------------------------------------------------------------------
(***************************************************************************)
(* Type correctness, one step per action.                                  *)
(***************************************************************************)
LEMMA NextDay ==
  ASSUME NEW w \in timer1_wall_time, w.day < MaxDay
  PROVE  NextWallTime(w).day <= MaxDay
<1>1. (w.day + 1) % DayMod = w.day + 1
  BY ClockAssumption, RadixAssumption DEF timer1_wall_time
<1> QED
  BY <1>1, ClockAssumption DEF NextWallTime, timer1_wall_time

(***************************************************************************)
(* timer1_clock_reset sets a time, the first one.                          *)
(***************************************************************************)
LEMMA ZeroTimeType ==
  ZeroTime \in timer1_wall_time /\ ZeroTime.day = 0 /\ Millis(ZeroTime) = 0
  BY RadixAssumption DEF ZeroTime, timer1_wall_time, Millis

(***************************************************************************)
(* Callers keep to the documented range of delays.                         *)
(***************************************************************************)
LEMMA DelayType ==
  ASSUME NEW d \in Delays
  PROVE  d[1] \in 0 .. SecMod - 1 /\ d[2] \in 0 .. MsecPerSec - 1
  BY ClockAssumption

(***************************************************************************)
(* Every step keeps the types: the carries stay within the radices.        *)
(***************************************************************************)
LEMMA TypeStep == TypeOK /\ [Next]_vars => TypeOK'
<1> SUFFICES ASSUME TypeOK, [Next]_vars PROVE TypeOK'
  OBVIOUS
<1> USE DEF TypeOK
<1>1. CASE TIMER1_COMPA_vect
  <2> DEFINE w == NextWallTime(walltimer)
  <2>1. /\ walltimer' = w
        /\ \/ NoneDue(w)
           \/ \E i \in DOMAIN chain :
                FirstDue(w, i) /\ (PickRecurring(w, i) \/ PickOneShot(w, i))
    BY <1>1 DEF TIMER1_COMPA_vect
  <2>2. w \in timer1_wall_time /\ w.day <= MaxDay
    BY <1>1, NextWallTimeType, NextDay DEF TIMER1_COMPA_vect
  <2> HIDE DEF w
  <2>3. ASSUME NEW i \in DOMAIN chain PROVE Selected(chain[i]) \in Frame
    <3>1. chain[i] \in Entry
      OBVIOUS
    <3> QED
      BY <3>1 DEF Selected, Frame, Entry
  <2>4. CASE NoneDue(w)
    BY <2>1, <2>2, <2>4, AgedType DEF NoneDue
  <2>5. ASSUME NEW i \in DOMAIN chain, PickRecurring(w, i) PROVE TypeOK'
    <3>1. chain[i] \in Entry
      OBVIOUS
    <3>2. Registered(w, chain[i].node, chain[i].sec, chain[i].msec, TRUE) \in Entry
      BY <2>2, <3>1, RegisteredType DEF Entry
    <3>3. chain' \in Seq(Entry)
      <4>1. Aged \in Seq(Entry) /\ i \in 1 .. Len(Aged)
        BY AgedType
      <4> QED
        BY <2>5, <3>2, <4>1, ExceptSeq DEF PickRecurring
    <3>4. stack' \in Seq(Frame)
      BY <2>3, <2>5 DEF PickRecurring
    <3> QED
      BY <2>1, <2>2, <3>3, <3>4
  <2>6. ASSUME NEW i \in DOMAIN chain, PickOneShot(w, i) PROVE TypeOK'
    <3>1. chain' \in Seq(Entry)
      BY <2>6, AgedType, WithoutType DEF PickOneShot
    <3>2. stack' \in Seq(Frame)
      BY <2>3, <2>6 DEF PickOneShot
    <3> QED
      BY <2>1, <2>2, <3>1, <3>2
  <2> QED
    BY <2>1, <2>4, <2>5, <2>6
<1>2. CASE CallCallback
  <2>1. Len(stack) \in DOMAIN stack /\ stack[Len(stack)] \in Frame
    BY <1>2 DEF CallCallback
  <2>2. [stack[Len(stack)] EXCEPT !.running = TRUE] \in Frame
    BY <2>1 DEF Frame
  <2> QED
    BY <1>2, <2>1, <2>2 DEF CallCallback
<1>3. CASE CallbackReturns
  <2>1. Len(stack) - 1 \in Nat /\ Len(stack) - 1 <= Len(stack)
    BY <1>3 DEF CallbackReturns
  <2>2. SubSeq(stack, 1, Len(stack) - 1) \in Seq(Frame)
    BY <2>1, SubSeqProperties
  <2> QED
    BY <1>3, <2>2 DEF CallbackReturns
<1>4. ASSUME NEW c \in Callbacks, NEW d \in Delays, NEW recurring \in BOOLEAN,
             timer1_clock_register_callback(c, d[1], d[2], recurring)
      PROVE  TypeOK'
  <2> DEFINE e == Registered(walltimer, c, d[1], d[2], recurring)
  <2>1. e \in Entry
    BY DelayType, RegisteredType
  <2>2. /\ \/ chain' = Append(chain, e)
           \/ \E i \in DOMAIN chain : chain' = [chain EXCEPT ![i] = e]
        /\ walltimer' = walltimer
        /\ stack' = stack
    BY <1>4 DEF timer1_clock_register_callback
  <2> HIDE DEF e
  <2>3. CASE chain' = Append(chain, e)
    <3>1. chain' \in Seq(Entry)
      BY <2>1, <2>3, AppendProperties
    <3> QED
      BY <2>2, <3>1
  <2>4. ASSUME NEW i \in DOMAIN chain, chain' = [chain EXCEPT ![i] = e]
        PROVE  TypeOK'
    <3>1. i \in 1 .. Len(chain)
      OBVIOUS
    <3>2. chain' \in Seq(Entry)
      BY <2>1, <2>4, <3>1, ExceptSeq
    <3> QED
      BY <2>2, <3>2
  <2> QED
    BY <2>2, <2>3, <2>4
<1>5. ASSUME NEW c \in Callbacks, timer1_clock_unregister_callback(c)
      PROVE  TypeOK'
  BY <1>5, WithoutType DEF timer1_clock_unregister_callback
<1>6. CASE timer1_clock_reset
  <2>1. ASSUME NEW i \in DOMAIN chain
        PROVE  [chain[i] EXCEPT !.messed = TRUE] \in Entry
    <3>1. chain[i] \in Entry
      OBVIOUS
    <3> QED
      BY <3>1 DEF Entry
  <2>2. chain' \in [1 .. Len(chain) -> Entry]
    BY <1>6, <2>1 DEF timer1_clock_reset
  <2> QED
    BY <1>6, <2>2, ZeroTimeType, ClockAssumption DEF timer1_clock_reset
<1>7. CASE timer1_clock_init
  BY <1>7, ZeroTimeType, ClockAssumption DEF timer1_clock_init
<1>8. CASE UNCHANGED vars
  BY <1>8 DEF vars
<1> QED
  BY <1>1, <1>2, <1>3, <1>4, <1>5, <1>6, <1>7, <1>8 DEF Next

(***************************************************************************)
(* Every digit of the wall time and of every due time stays in range.      *)
(***************************************************************************)
THEOREM TypeCorrect == Spec => []TypeOK
<1>1. Init => TypeOK
  BY ZeroTimeType, ClockAssumption DEF Init, TypeOK
<1> QED
  BY <1>1, TypeStep, PTL DEF Spec

-----------------------------------------------------------------------------
(***************************************************************************)
(* No struct is linked twice: register links a struct only if it is not in *)
(* the chain, and every other step keeps the nodes or removes one.         *)
(***************************************************************************)
LEMMA AgedNodes ==
  ASSUME chain \in Seq(Entry), NEW i \in DOMAIN chain
  PROVE  Aged[i].node = chain[i].node
<1>1. chain[i] \in Entry
  OBVIOUS
<1> QED
  BY <1>1, AgedType DEF Entry

(***************************************************************************)
(* A removal repeats no element.                                           *)
(***************************************************************************)
LEMMA WithoutOnce ==
  ASSUME NEW s \in Seq(Entry), NEW i \in DOMAIN s,
         \A j, k \in DOMAIN s : s[j].node = s[k].node => j = k
  PROVE  \A j, k \in DOMAIN Without(s, i) :
           Without(s, i)[j].node = Without(s, i)[k].node => j = k
<1> DEFINE t == Without(s, i)
<1>1. /\ t \in Seq(Entry) /\ Len(t) = Len(s) - 1
      /\ \A j \in 1 .. Len(s) - 1 : t[j] = IF j < i THEN s[j] ELSE s[j + 1]
  BY WithoutType
<1> HIDE DEF t
<1> SUFFICES ASSUME NEW j \in 1 .. Len(s) - 1, NEW k \in 1 .. Len(s) - 1,
                    t[j].node = t[k].node
             PROVE  j = k
  BY <1>1 DEF t
<1>2. PICK a \in DOMAIN s : t[j] = s[a] /\ a = IF j < i THEN j ELSE j + 1
  BY <1>1
<1>3. PICK b \in DOMAIN s : t[k] = s[b] /\ b = IF k < i THEN k ELSE k + 1
  BY <1>1
<1> QED
  BY <1>2, <1>3

(***************************************************************************)
(* Every step keeps the elements distinct.                                 *)
(***************************************************************************)
LEMMA LinkedOnceStep == TypeOK /\ LinkedOnce /\ [Next]_vars => LinkedOnce'
<1> SUFFICES ASSUME TypeOK, LinkedOnce, [Next]_vars PROVE LinkedOnce'
  OBVIOUS
<1>0. chain \in Seq(Entry)
  BY DEF TypeOK
<1>1. CASE TIMER1_COMPA_vect
  <2> DEFINE w == NextWallTime(walltimer)
  <2>1. \/ NoneDue(w)
        \/ \E i \in DOMAIN chain : PickRecurring(w, i) \/ PickOneShot(w, i)
    BY <1>1 DEF TIMER1_COMPA_vect
  <2> HIDE DEF w
  <2>2. /\ Aged \in Seq(Entry) /\ DOMAIN Aged = DOMAIN chain
        /\ \A i \in DOMAIN chain : Aged[i].node = chain[i].node
    BY <1>0, AgedType, AgedNodes
  <2>3. CASE NoneDue(w)
    BY <2>2, <2>3 DEF NoneDue, LinkedOnce
  <2>4. ASSUME NEW i \in DOMAIN chain, PickRecurring(w, i) PROVE LinkedOnce'
    <3>1. /\ DOMAIN chain' = DOMAIN chain
          /\ \A j \in DOMAIN chain : chain'[j].node = chain[j].node
      BY <2>2, <2>4 DEF PickRecurring, Registered
    <3> QED
      BY <3>1 DEF LinkedOnce
  <2>5. ASSUME NEW i \in DOMAIN chain, PickOneShot(w, i) PROVE LinkedOnce'
    <3>1. \A j, k \in DOMAIN Aged : Aged[j].node = Aged[k].node => j = k
      BY <2>2 DEF LinkedOnce
    <3>2. chain' = Without(Aged, i) /\ i \in DOMAIN Aged
      BY <2>2, <2>5 DEF PickOneShot
    <3> QED
      BY <2>2, <3>1, <3>2, WithoutOnce DEF LinkedOnce
  <2> QED
    BY <2>1, <2>3, <2>4, <2>5
<1>2. CASE CallCallback
  BY <1>2 DEF CallCallback, LinkedOnce
<1>3. CASE CallbackReturns
  BY <1>3 DEF CallbackReturns, LinkedOnce
<1>4. ASSUME NEW c \in Callbacks, NEW d \in Delays, NEW recurring \in BOOLEAN,
             timer1_clock_register_callback(c, d[1], d[2], recurring)
      PROVE  LinkedOnce'
  <2> DEFINE e == Registered(walltimer, c, d[1], d[2], recurring)
  <2>1. e.node = c
    BY DEF Registered
  <2> HIDE DEF e
  <2>2. CASE ~Linked(c) /\ chain' = Append(chain, e)
    <3>1. /\ DOMAIN chain' = 1 .. Len(chain) + 1
          /\ chain'[Len(chain) + 1].node = c
          /\ \A i \in DOMAIN chain : chain'[i] = chain[i] /\ chain[i].node # c
      BY <1>0, <2>1, <2>2 DEF Linked
    <3> QED
      BY <1>0, <3>1 DEF LinkedOnce
  <2>3. ASSUME NEW i \in DOMAIN chain, chain[i].node = c,
               chain' = [chain EXCEPT ![i] = e]
        PROVE  LinkedOnce'
    <3>1. /\ DOMAIN chain' = DOMAIN chain
          /\ \A j \in DOMAIN chain : chain'[j].node = chain[j].node
      BY <1>0, <2>1, <2>3
    <3> QED
      BY <3>1 DEF LinkedOnce
  <2> QED
    BY <1>4, <2>2, <2>3 DEF timer1_clock_register_callback, e
<1>5. ASSUME NEW c \in Callbacks, timer1_clock_unregister_callback(c)
      PROVE  LinkedOnce'
  BY <1>0, <1>5, WithoutOnce DEF timer1_clock_unregister_callback, LinkedOnce
<1>6. CASE timer1_clock_reset
  <2>1. \A i \in DOMAIN chain :
          [chain[i] EXCEPT !.messed = TRUE].node = chain[i].node
    BY <1>0 DEF Entry
  <2>2. /\ DOMAIN chain' = DOMAIN chain
        /\ \A i \in DOMAIN chain : chain'[i].node = chain[i].node
    BY <1>6, <2>1 DEF timer1_clock_reset
  <2> QED
    BY <2>2 DEF LinkedOnce
<1>7. CASE timer1_clock_init
  BY <1>7 DEF timer1_clock_init, LinkedOnce
<1>8. CASE UNCHANGED vars
  BY <1>8 DEF vars, LinkedOnce
<1> QED
  BY <1>1, <1>2, <1>3, <1>4, <1>5, <1>6, <1>7, <1>8 DEF Next

(***************************************************************************)
(* The chain never links a struct twice, so the interrupt's walk over it   *)
(* ends.                                                                   *)
(***************************************************************************)
THEOREM ChainWellFormed == Spec => []LinkedOnce
<1>1. Init => LinkedOnce
  BY DEF Init, LinkedOnce
<1> QED
  BY <1>1, LinkedOnceStep, TypeCorrect, PTL DEF Spec

-----------------------------------------------------------------------------
(***************************************************************************)
(* The strengthening behind NeverEarly: as long as a callback has time     *)
(* left, its due time lies at least that far ahead of the wall time.       *)
(* The carry out of the milliseconds must not overflow the 16 bit seconds, *)
(* also when a recurring callback is registered again.                     *)
(***************************************************************************)
NoCarryOverflow == \A d \in Delays : d[1] + 1 < SecMod

Sound(e, w) ==
  /\ e.sec + 1 < SecMod
  /\ e.left <= 0 \/ Millis(e.time) >= Millis(w) + e.left

DueInv == \A i \in DOMAIN chain : Sound(chain[i], walltimer)

(***************************************************************************)
(* A registration is sound: the due time is the wall time plus the delay.  *)
(***************************************************************************)
LEMMA SoundRegistered ==
  ASSUME NEW w \in timer1_wall_time, w.day <= MaxDay, NEW c \in Callbacks,
         NEW sec \in 0 .. SecMod - 1, NEW msec \in 0 .. MsecPerSec - 1,
         NEW recurring \in BOOLEAN, sec + 1 < SecMod
  PROVE  Sound(Registered(w, c, sec, msec, recurring), w)
<1>1. w.day + 1 < DayMod
  BY ClockAssumption, RadixAssumption DEF timer1_wall_time
<1>2. Millis(DueTime(w, sec, msec)) = Millis(w) + DelayMillis(sec, msec)
  BY <1>1, DueTimeAdds
<1>3. Millis(w) \in Int /\ DelayMillis(sec, msec) \in Int
  BY LeadingDigits, RadixAssumption DEF DelayMillis
<1> QED
  BY <1>2, <1>3 DEF Sound, Registered

(***************************************************************************)
(* A tick keeps an element sound.                                          *)
(***************************************************************************)
LEMMA SoundAged ==
  ASSUME NEW w \in timer1_wall_time, NEW n \in timer1_wall_time,
         Millis(n) = Millis(w) + 1, NEW e \in Entry, Sound(e, w)
  PROVE  Sound([e EXCEPT !.left = OneLess(@)], n)
<1>1. /\ Millis(w) \in Int /\ Millis(n) \in Int
      /\ Millis(e.time) \in Int /\ e.left \in Int
  BY LeadingDigits DEF Entry
<1>2. OneLess(e.left) \in Int /\ OneLess(e.left) <= e.left
      /\ (e.left > 0 => OneLess(e.left) = e.left - 1)
  BY <1>1, OverdueType DEF OneLess
<1> QED
  BY <1>1, <1>2 DEF Sound, Entry

(***************************************************************************)
(* timer1_clock_reset only moves due times further ahead.                  *)
(***************************************************************************)
LEMMA SoundReset ==
  ASSUME NEW w \in timer1_wall_time, NEW e \in Entry, Sound(e, w)
  PROVE  Sound([e EXCEPT !.messed = TRUE], ZeroTime)
<1>1. Millis(w) \in Nat
  BY RadixAssumption DEF Millis, timer1_wall_time
<1>2. Millis(e.time) \in Int /\ e.left \in Int
  BY LeadingDigits DEF Entry
<1> QED
  BY <1>1, <1>2, ZeroTimeType DEF Sound, Entry

(***************************************************************************)
(* A tick adds one millisecond to the wall time.                           *)
(***************************************************************************)
LEMMA TickCounts ==
  ASSUME TypeOK, TIMER1_COMPA_vect
  PROVE  /\ NextWallTime(walltimer) \in timer1_wall_time
         /\ NextWallTime(walltimer).day <= MaxDay
         /\ Millis(NextWallTime(walltimer)) = Millis(walltimer) + 1
<1>1. walltimer \in timer1_wall_time /\ walltimer.day < MaxDay
  BY DEF TypeOK, TIMER1_COMPA_vect
<1>2. walltimer.day + 1 < DayMod
  BY <1>1, ClockAssumption, RadixAssumption DEF timer1_wall_time
<1> QED
  BY <1>1, <1>2, NextWallTimeType, NextDay, NextWallTimeCounts

(***************************************************************************)
(* Every step keeps every element of the chain sound.                      *)
(***************************************************************************)
LEMMA DueInvStep ==
  ASSUME NoCarryOverflow
  PROVE  TypeOK /\ DueInv /\ [Next]_vars => DueInv'
<1> SUFFICES ASSUME TypeOK, DueInv, [Next]_vars PROVE DueInv'
  OBVIOUS
<1>0. /\ chain \in Seq(Entry) /\ walltimer \in timer1_wall_time
      /\ walltimer.day <= MaxDay
      /\ \A i \in DOMAIN chain : chain[i] \in Entry /\ Sound(chain[i], walltimer)
  BY DEF TypeOK, DueInv
<1>1. CASE TIMER1_COMPA_vect
  <2> DEFINE w == NextWallTime(walltimer)
  <2>1. /\ walltimer' = w
        /\ \/ NoneDue(w)
           \/ \E i \in DOMAIN chain : PickRecurring(w, i) \/ PickOneShot(w, i)
    BY <1>1 DEF TIMER1_COMPA_vect
  <2>2. /\ w \in timer1_wall_time /\ w.day <= MaxDay
        /\ Millis(w) = Millis(walltimer) + 1
    BY <1>1, TickCounts
  <2> HIDE DEF w
  <2>3. /\ Aged \in Seq(Entry) /\ DOMAIN Aged = DOMAIN chain /\ Len(Aged) = Len(chain)
        /\ \A i \in DOMAIN chain : Sound(Aged[i], w)
    BY <1>0, <2>2, AgedType, SoundAged
  <2>4. CASE NoneDue(w)
    BY <2>1, <2>3, <2>4 DEF NoneDue, DueInv
  <2>5. ASSUME NEW i \in DOMAIN chain, PickRecurring(w, i) PROVE DueInv'
    <3> DEFINE e == Registered(w, chain[i].node, chain[i].sec, chain[i].msec, TRUE)
    <3>1. Sound(e, w)
      BY <1>0, <2>2, SoundRegistered DEF Entry, Sound
    <3> HIDE DEF e
    <3>2. chain' = [Aged EXCEPT ![i] = e]
      BY <2>5 DEF PickRecurring, e
    <3> QED
      BY <2>1, <2>3, <3>1, <3>2 DEF DueInv
  <2>6. ASSUME NEW i \in DOMAIN chain, PickOneShot(w, i) PROVE DueInv'
    <3>1. chain' = Without(Aged, i) /\ i \in DOMAIN Aged
      BY <2>3, <2>6 DEF PickOneShot
    <3>2. \A j \in DOMAIN chain' : \E k \in DOMAIN Aged : chain'[j] = Aged[k]
      BY <2>3, <3>1, WithoutSource
    <3> QED
      BY <2>1, <2>3, <3>2 DEF DueInv
  <2> QED
    BY <2>1, <2>4, <2>5, <2>6
<1>2. CASE CallCallback
  BY <1>2 DEF CallCallback, DueInv
<1>3. CASE CallbackReturns
  BY <1>3 DEF CallbackReturns, DueInv
<1>4. ASSUME NEW c \in Callbacks, NEW d \in Delays, NEW recurring \in BOOLEAN,
             timer1_clock_register_callback(c, d[1], d[2], recurring)
      PROVE  DueInv'
  <2> DEFINE e == Registered(walltimer, c, d[1], d[2], recurring)
  <2>1. Sound(e, walltimer)
    BY <1>0, DelayType, SoundRegistered DEF NoCarryOverflow
  <2> HIDE DEF e
  <2>2. /\ walltimer' = walltimer
        /\ \/ chain' = Append(chain, e)
           \/ \E i \in DOMAIN chain : chain' = [chain EXCEPT ![i] = e]
    BY <1>4 DEF timer1_clock_register_callback, e
  <2>3. \A j \in DOMAIN chain' :
          chain'[j] = e \/ \E k \in DOMAIN chain : chain'[j] = chain[k]
    BY <1>0, <2>2
  <2> QED
    BY <1>0, <2>1, <2>2, <2>3 DEF DueInv
<1>5. ASSUME NEW c \in Callbacks, timer1_clock_unregister_callback(c)
      PROVE  DueInv'
  <2>1. PICK i \in DOMAIN chain : chain' = Without(chain, i)
    BY <1>5 DEF timer1_clock_unregister_callback
  <2>2. \A j \in DOMAIN chain' : \E k \in DOMAIN chain : chain'[j] = chain[k]
    BY <1>0, <2>1, WithoutSource
  <2> QED
    BY <1>0, <1>5, <2>2 DEF DueInv, timer1_clock_unregister_callback
<1>6. CASE timer1_clock_reset
  BY <1>0, <1>6, SoundReset DEF timer1_clock_reset, DueInv
<1>7. CASE timer1_clock_init
  BY <1>7 DEF timer1_clock_init, DueInv
<1>8. CASE UNCHANGED vars
  BY <1>8 DEF vars, DueInv
<1> QED
  BY <1>1, <1>2, <1>3, <1>4, <1>5, <1>6, <1>7, <1>8 DEF Next

(***************************************************************************)
(* No callback is picked before its delay has passed, whatever the chain,  *)
(* the resets and the carries, if no caller asks for the longest number of *)
(* seconds the argument can hold.                                          *)
(***************************************************************************)
LEMMA PickIsDue ==
  ASSUME TypeOK, LinkedOnce, DueInv, [Next]_vars,
         NEW i \in DOMAIN chain, Picks(chain[i].node)
  PROVE  OneLess(chain[i].left) <= 0
<1> DEFINE w == NextWallTime(walltimer)
<1>0. chain \in Seq(Entry) /\ stack \in Seq(Frame) /\ Len(stack) \in Nat
  BY DEF TypeOK
<1>1. TIMER1_COMPA_vect
  <2>1. Len(stack') > Len(stack)
    BY DEF Picks
  <2>2. ~(stack' = stack)
    BY <1>0, <2>1
  <2>3. ~CallbackReturns
    <3>1. ASSUME CallbackReturns PROVE Len(stack') = Len(stack) - 1
      <4>1. /\ Len(stack) - 1 \in Nat /\ stack' = SubSeq(stack, 1, Len(stack) - 1)
            /\ \A j \in 1 .. Len(stack) - 1 : stack[j] \in Frame
        BY <1>0, <3>1 DEF CallbackReturns
      <4>2. Len(SubSeq(stack, 1, Len(stack) - 1))
              = IF 1 <= Len(stack) - 1 THEN (Len(stack) - 1) - 1 + 1 ELSE 0
        BY <4>1, SubSeqProperties
      <4>3. \A n \in Nat : (IF 1 <= n THEN n - 1 + 1 ELSE 0) = n
        OBVIOUS
      <4> QED
        BY <4>1, <4>2, <4>3, Zenon
    <3> QED
      BY <1>0, <2>1, <3>1
  <2>4. ~CallCallback
    <3>1. CallCallback => Len(stack') = Len(stack)
      BY <1>0 DEF CallCallback
    <3> QED
      BY <1>0, <2>1, <3>1
  <2> QED
    BY <2>2, <2>3, <2>4
       DEF Next, vars, timer1_clock_register_callback,
           timer1_clock_unregister_callback, timer1_clock_reset, timer1_clock_init
<1>2. PICK k \in DOMAIN chain :
        FirstDue(w, k) /\ (PickRecurring(w, k) \/ PickOneShot(w, k))
  <2>1. ~NoneDue(w)
    BY <1>0 DEF NoneDue, Picks
  <2> QED
    BY <1>1, <2>1 DEF TIMER1_COMPA_vect
<1>3. /\ w \in timer1_wall_time
      /\ Millis(w) = Millis(walltimer) + 1
  BY <1>1, TickCounts
<1> HIDE DEF w
<1>4. k = i
  <2>1. stack' = Append(stack, Selected(chain[k]))
    BY <1>2 DEF PickRecurring, PickOneShot
  <2>2. stack'[Len(stack')].node = chain[k].node
    BY <1>0, <2>1 DEF Selected
  <2> QED
    BY <2>2 DEF Picks, LinkedOnce
<1>5. chain[i] \in Entry /\ Sound(chain[i], walltimer)
  BY <1>0 DEF DueInv
<1>6. /\ Millis(chain[i].time) \in Int /\ Millis(w) \in Int
      /\ Millis(walltimer) \in Int /\ chain[i].left \in Int
  BY <1>3, <1>5, LeadingDigits DEF Entry, TypeOK
<1>7. Millis(w) >= Millis(chain[i].time)
  BY <1>2, <1>3, <1>4, <1>5, DueIsOrder DEF FirstDue, Entry
<1>8. chain[i].left <= 1
  BY <1>3, <1>5, <1>6, <1>7 DEF Sound
<1> QED
  BY <1>6, <1>8, OverdueType DEF OneLess

(***************************************************************************)
(* If sec + 1 fits its 16 bits for every requested delay, the interrupt    *)
(* never picks a callback before its delay has passed.                     *)
(***************************************************************************)
THEOREM NeverPickedEarly == NoCarryOverflow => (Spec => NeverEarly)
<1> SUFFICES ASSUME NoCarryOverflow PROVE Spec => NeverEarly
  OBVIOUS
<1>1. Init => DueInv
  BY DEF Init, DueInv
<1>2. TypeOK /\ DueInv /\ [Next]_vars => DueInv'
  BY DueInvStep
<1>3. TypeOK /\ LinkedOnce /\ DueInv /\ [Next]_vars =>
        [\A i \in DOMAIN chain :
           Picks(chain[i].node) => OneLess(chain[i].left) <= 0]_vars
  BY PickIsDue
<1> QED
  BY <1>1, <1>2, <1>3, TypeCorrect, ChainWellFormed, PTL DEF Spec, NeverEarly

(***************************************************************************)
(* The wall time counts ticks.                                             *)
(***************************************************************************)
THEOREM WallTimeCorrect == Spec => WallTimeCounts
<1>1. TypeOK /\ [Next]_vars =>
        [Millis(walltimer') \in {0, Millis(walltimer) + 1}]_walltimer
  <2> SUFFICES ASSUME TypeOK, [Next]_vars, walltimer' # walltimer
               PROVE  Millis(walltimer') \in {0, Millis(walltimer) + 1}
    OBVIOUS
  <2>1. CASE TIMER1_COMPA_vect
    BY <2>1, TickCounts DEF TIMER1_COMPA_vect
  <2>2. CASE walltimer' = ZeroTime
    BY <2>2, ZeroTimeType
  <2> QED
    BY <2>1, <2>2
       DEF Next, vars, CallCallback, CallbackReturns, timer1_clock_register_callback,
           timer1_clock_unregister_callback, timer1_clock_reset, timer1_clock_init
<1> QED
  BY <1>1, TypeCorrect, PTL DEF Spec, WallTimeCounts

-----------------------------------------------------------------------------
(***************************************************************************)
(* The strengthening behind LatenessBound.  The due time of an element is  *)
(* exactly its delay away (Exact), and an element that is late has been    *)
(* passed over for other callbacks, a different one in every tick since it *)
(* was due: those, as far as they are still linked, are not due again      *)
(* before all callbacks have had a tick (Crowded).                         *)
(***************************************************************************)
N == Cardinality(Callbacks)

Exact(e, w) ==
  /\ e.sec + 1 < SecMod /\ DelayMillis(e.sec, e.msec) >= N
  /\ ~e.messed => Millis(e.time) = Millis(w) + e.left

PassedOver(F, e, s) ==
  /\ F \subseteq Callbacks \ {e.node}
  /\ Cardinality(F) >= 1 - e.left
  /\ \A j \in DOMAIN s : s[j].node \in F => ~s[j].messed /\ s[j].left >= N + e.left

Crowded(e, s) == ~e.messed /\ e.left <= 0 => \E F : PassedOver(F, e, s)

LateInv == \A i \in DOMAIN chain : Exact(chain[i], walltimer) /\ Crowded(chain[i], chain)

(***************************************************************************)
(* The number of callbacks, positive as soon as there is one.              *)
(***************************************************************************)
LEMMA NType == N \in Nat /\ Overdue = -N /\ (\A c \in Callbacks : N >= 1)
<1>1. N \in Nat /\ Overdue = -N
  BY ClockAssumption, FS_CardinalityType DEF N, Overdue
<1>2. ASSUME NEW c \in Callbacks PROVE N # 0
  BY ClockAssumption, FS_EmptySet DEF N
<1> QED
  BY <1>1, <1>2

(***************************************************************************)
(* There are fewer others than callbacks.                                  *)
(***************************************************************************)
LEMMA FewOthers ==
  ASSUME NEW c \in Callbacks, NEW F \in SUBSET (Callbacks \ {c})
  PROVE  IsFiniteSet(F) /\ Cardinality(F) \in Nat /\ Cardinality(F) <= N - 1
<1>1. IsFiniteSet(Callbacks \ {c}) /\ Cardinality(Callbacks \ {c}) = N - 1
  BY ClockAssumption, FS_RemoveElement DEF N
<1>2. IsFiniteSet(F) /\ Cardinality(F) <= Cardinality(Callbacks \ {c})
  BY <1>1, FS_Subset
<1>3. Cardinality(F) \in Nat
  BY <1>2, FS_CardinalityType
<1> QED
  BY <1>1, <1>2, <1>3

(***************************************************************************)
(* A late callback has been passed over fewer than N times.                *)
(***************************************************************************)
LEMMA CrowdedBounds ==
  ASSUME NEW e \in Entry, NEW s, Crowded(e, s), ~e.messed
  PROVE  e.left >= 2 - N
<1>1. e.left \in Int /\ e.node \in Callbacks
  BY DEF Entry
<1>2. N \in Nat /\ N >= 1
  BY <1>1, NType
<1>3. CASE e.left > 0
  BY <1>1, <1>2, <1>3
<1>4. CASE e.left <= 0
  <2>1. PICK F : PassedOver(F, e, s)
    BY <1>4 DEF Crowded
  <2>2. F \in SUBSET (Callbacks \ {e.node}) /\ Cardinality(F) >= 1 - e.left
    BY <2>1 DEF PassedOver
  <2>3. Cardinality(F) \in Nat /\ Cardinality(F) <= N - 1
    BY <1>1, <2>2, FewOthers
  <2> QED
    BY <1>1, <1>2, <2>2, <2>3
<1> QED
  BY <1>1, <1>3, <1>4

(***************************************************************************)
(* A registration under SparseDelays is exact and not late, and it leaves  *)
(* the others as crowded as they were.                                     *)
(***************************************************************************)
LEMMA FreshExact ==
  ASSUME NEW w \in timer1_wall_time, w.day <= MaxDay, NEW c \in Callbacks,
         NEW sec \in 0 .. SecMod - 1, NEW msec \in 0 .. MsecPerSec - 1,
         NEW recurring \in BOOLEAN, sec + 1 < SecMod, DelayMillis(sec, msec) >= N,
         NEW e, e = Registered(w, c, sec, msec, recurring)
  PROVE  /\ Exact(e, w) /\ ~e.messed /\ e.left \in Int /\ e.left >= N /\ e.node = c
         /\ \A s : Crowded(e, s)
<1>1. w.day + 1 < DayMod
  BY ClockAssumption, RadixAssumption DEF timer1_wall_time
<1>2. Millis(DueTime(w, sec, msec)) = Millis(w) + DelayMillis(sec, msec)
  BY <1>1, DueTimeAdds
<1>3. DelayMillis(sec, msec) \in Int
  BY RadixAssumption DEF DelayMillis
<1>4. /\ e.node = c /\ e.time = DueTime(w, sec, msec) /\ e.sec = sec /\ e.msec = msec
      /\ e.left = DelayMillis(sec, msec) /\ e.messed = FALSE
  BY DEF Registered
<1>5. N >= 1 /\ N \in Nat
  BY NType
<1>6. Exact(e, w)
  BY <1>2, <1>4 DEF Exact
<1> QED
  BY <1>3, <1>4, <1>5, <1>6 DEF Crowded

(***************************************************************************)
(* A callback stays passed over when others leave the chain or are         *)
(* registered.                                                             *)
(***************************************************************************)
LEMMA CrowdedStays ==
  ASSUME NEW e \in Entry, NEW s, NEW t, NEW f, Crowded(e, s),
         ~f.messed, f.left \in Int, f.left >= N,
         \A j \in DOMAIN t : t[j] = f \/ \E k \in DOMAIN s : t[j] = s[k]
  PROVE  Crowded(e, t)
<1> SUFFICES ASSUME ~e.messed, e.left <= 0 PROVE \E F : PassedOver(F, e, t)
  BY DEF Crowded
<1>1. PICK F : PassedOver(F, e, s)
  BY DEF Crowded
<1>2. e.left \in Int /\ N \in Nat
  BY NType DEF Entry
<1>3. f.left >= N + e.left
  BY <1>2
<1>4. ASSUME NEW j \in DOMAIN t, t[j].node \in F
      PROVE  ~t[j].messed /\ t[j].left >= N + e.left
  BY <1>1, <1>3, <1>4 DEF PassedOver
<1> QED
  BY <1>1, <1>4 DEF PassedOver

(***************************************************************************)
(* What is left after a removal are the other elements.                    *)
(***************************************************************************)
LEMMA WithoutOthers ==
  ASSUME NEW S, NEW s \in Seq(S), NEW i \in DOMAIN s
  PROVE  \A j \in DOMAIN Without(s, i) :
           \E k \in DOMAIN s : k # i /\ Without(s, i)[j] = s[k]
<1>1. Len(s) \in Nat /\ DOMAIN s = 1 .. Len(s) /\ i \in 1 .. Len(s)
  OBVIOUS
<1>2. DOMAIN Without(s, i) = 1 .. Len(s) - 1
  BY DEF Without
<1> SUFFICES ASSUME NEW j \in 1 .. Len(s) - 1
             PROVE  \E k \in DOMAIN s : k # i /\ Without(s, i)[j] = s[k]
  BY <1>2
<1>3. Without(s, i)[j] = IF j < i THEN s[j] ELSE s[j + 1]
  BY WithoutType
<1> QED
  BY <1>1, <1>3

(***************************************************************************)
(* A tick takes one millisecond from every element that no reset concerns: *)
(* its history field has not reached the end of its range.                 *)
(***************************************************************************)
LEMMA AgedExact ==
  ASSUME TypeOK, LateInv, NEW w \in timer1_wall_time, Millis(w) = Millis(walltimer) + 1,
         NEW i \in DOMAIN chain
  PROVE  /\ Aged[i] \in Entry /\ Aged[i].node = chain[i].node
         /\ Aged[i].messed = chain[i].messed
         /\ ~chain[i].messed => Aged[i].left = chain[i].left - 1
         /\ Exact(Aged[i], w)
<1>1. chain \in Seq(Entry) /\ chain[i] \in Entry /\ walltimer \in timer1_wall_time
  BY DEF TypeOK
<1>2. Exact(chain[i], walltimer) /\ Crowded(chain[i], chain)
  BY DEF LateInv
<1>3. Aged[i] = [chain[i] EXCEPT !.left = OneLess(@)] /\ Aged[i] \in Entry
  BY <1>1, AgedType
<1>4. /\ Aged[i].node = chain[i].node /\ Aged[i].messed = chain[i].messed
      /\ Aged[i].time = chain[i].time /\ Aged[i].sec = chain[i].sec
      /\ Aged[i].msec = chain[i].msec /\ Aged[i].left = OneLess(chain[i].left)
      /\ chain[i].left \in Int /\ chain[i].time \in timer1_wall_time
  BY <1>1, <1>3 DEF Entry
<1>5. ASSUME ~chain[i].messed PROVE Aged[i].left = chain[i].left - 1
  <2>1. chain[i].left >= 2 - N
    BY <1>1, <1>2, <1>5, CrowdedBounds
  <2> QED
    BY <1>4, <2>1, NType DEF OneLess
<1>6. Millis(walltimer) \in Int /\ Millis(chain[i].time) \in Int
  BY <1>1, <1>4, LeadingDigits
<1>7. Exact(Aged[i], w)
  BY <1>2, <1>4, <1>5, <1>6 DEF Exact
<1> QED
  BY <1>3, <1>4, <1>5, <1>7

(***************************************************************************)
(* The tick that picks the k-th element passes every other late one over   *)
(* once more, and for a callback that it was not passed over for before.   *)
(***************************************************************************)
LEMMA TickCrowded ==
  ASSUME TypeOK, LinkedOnce, LateInv,
         NEW w \in timer1_wall_time, Millis(w) = Millis(walltimer) + 1,
         NEW k \in DOMAIN chain, IsDue(w, chain[k].time),
         NEW t, NEW f, ~f.messed, f.left \in Int, f.left >= N,
         \A j \in DOMAIN t : t[j] = f \/ \E m \in DOMAIN chain : m # k /\ t[j] = Aged[m],
         NEW i \in DOMAIN chain, i # k
  PROVE  Crowded(Aged[i], t)
<1> DEFINE e == chain[i]
           a == Aged[i]
           c == chain[k].node
<1>1. \A m \in DOMAIN chain :
        /\ Aged[m] \in Entry /\ Aged[m].node = chain[m].node /\ Aged[m].messed = chain[m].messed
        /\ ~chain[m].messed => Aged[m].left = chain[m].left - 1
        /\ chain[m] \in Entry /\ chain[m].left \in Int /\ chain[m].node \in Callbacks
        /\ Exact(chain[m], walltimer) /\ Crowded(chain[m], chain)
  <2> TAKE m \in DOMAIN chain
  <2>1. chain[m] \in Entry
    BY DEF TypeOK
  <2> QED
    BY <2>1, AgedExact DEF LateInv, Entry
<1>2. chain[k].node # chain[i].node
  BY DEF LinkedOnce
<1> SUFFICES ASSUME ~a.messed, a.left <= 0 PROVE \E F : PassedOver(F, a, t)
  BY DEF Crowded
<1>3. ~e.messed /\ a.left = e.left - 1 /\ e.left \in Int /\ e.left <= 1 /\ a.node = e.node
  BY <1>1
<1>4. PICK F : PassedOver(F, e, chain)
  <2>1. CASE e.left <= 0
    BY <1>1, <1>3, <2>1 DEF Crowded
  <2>2. CASE ~(e.left <= 0)
    <3>1. e.left = 1
      BY <1>3, <2>2
    <3>2. PassedOver({}, e, chain)
      BY <3>1, FS_EmptySet DEF PassedOver
    <3> QED
      BY <3>2
  <2> QED
    BY <2>1, <2>2
<1>5. /\ F \in SUBSET (Callbacks \ {e.node}) /\ Cardinality(F) >= 1 - e.left
      /\ \A j \in DOMAIN chain :
           chain[j].node \in F => ~chain[j].messed /\ chain[j].left >= N + e.left
  BY <1>4 DEF PassedOver
<1>6. IsFiniteSet(F) /\ Cardinality(F) \in Nat /\ Cardinality(F) <= N - 1 /\ N \in Nat
  BY <1>1, <1>5, FewOthers, NType
<1>7. c \notin F
  <2> SUFFICES ASSUME c \in F PROVE FALSE
    OBVIOUS
  <2>1. ~chain[k].messed /\ chain[k].left >= N + e.left
    BY <1>5
  <2>2. chain[k].left >= 2
    BY <1>1, <1>3, <1>5, <1>6, <2>1
  <2>3. Millis(chain[k].time) = Millis(walltimer) + chain[k].left
    BY <1>1, <2>1 DEF Exact
  <2>4. chain[k].time \in timer1_wall_time /\ walltimer \in timer1_wall_time
    BY <1>1 DEF Entry, TypeOK
  <2>5. Millis(w) >= Millis(chain[k].time) /\ Millis(walltimer) \in Int
    BY <2>4, DueIsOrder, LeadingDigits
  <2> QED
    BY <1>1, <2>2, <2>3, <2>5
<1> DEFINE G == F \cup {c}
<1>8. Cardinality(G) = Cardinality(F) + 1
  BY <1>6, <1>7, FS_AddElement
<1>9. Cardinality(G) >= 1 - a.left
  BY <1>3, <1>5, <1>6, <1>8
<1>10. G \subseteq Callbacks \ {a.node}
  BY <1>1, <1>2, <1>3, <1>5
<1> HIDE DEF G
<1>11. ASSUME NEW j \in DOMAIN t, t[j].node \in G
       PROVE  ~t[j].messed /\ t[j].left >= N + a.left
  <2>1. CASE t[j] = f
    BY <1>3, <1>6, <2>1
  <2>2. CASE t[j] # f
    <3>1. PICK m \in DOMAIN chain : m # k /\ t[j] = Aged[m]
      BY <2>2
    <3>2. chain[m].node # c
      BY <3>1 DEF LinkedOnce
    <3>3. chain[m].node \in F
      BY <1>1, <1>11, <3>1, <3>2 DEF G
    <3>4. ~chain[m].messed /\ chain[m].left >= N + e.left
      BY <1>5, <3>3
    <3> QED
      BY <1>1, <1>3, <1>6, <3>1, <3>4
  <2> QED
    BY <2>1, <2>2
<1> QED
  BY <1>9, <1>10, <1>11 DEF PassedOver

(***************************************************************************)
(* A tick keeps every element exact and every late one crowded.            *)
(***************************************************************************)
LEMMA TickLate ==
  ASSUME TypeOK, LinkedOnce, LateInv, TIMER1_COMPA_vect
  PROVE  LateInv'
<1> DEFINE w == NextWallTime(walltimer)
<1>1. /\ walltimer' = w
      /\ \/ NoneDue(w)
         \/ \E i \in DOMAIN chain : FirstDue(w, i) /\ (PickRecurring(w, i) \/ PickOneShot(w, i))
  BY DEF TIMER1_COMPA_vect
<1>2. w \in timer1_wall_time /\ w.day <= MaxDay /\ Millis(w) = Millis(walltimer) + 1
  BY TickCounts
<1> HIDE DEF w
<1>3. /\ chain \in Seq(Entry) /\ walltimer \in timer1_wall_time
      /\ \A i \in DOMAIN chain : chain[i] \in Entry
  BY DEF TypeOK
<1>4. Aged \in Seq(Entry) /\ DOMAIN Aged = DOMAIN chain /\ Len(Aged) = Len(chain)
  BY <1>3, AgedType
<1>5. \A i \in DOMAIN chain :
        /\ Aged[i] \in Entry /\ Aged[i].messed = chain[i].messed
        /\ ~chain[i].messed => Aged[i].left = chain[i].left - 1
        /\ Exact(Aged[i], w)
  BY <1>2, AgedExact
<1>6. CASE NoneDue(w)
  <2>1. chain' = Aged /\ \A i \in DOMAIN chain : ~IsDue(w, chain[i].time)
    BY <1>6 DEF NoneDue
  <2>2. ASSUME NEW i \in DOMAIN chain PROVE Crowded(Aged[i], Aged)
    <3> SUFFICES ASSUME ~Aged[i].messed PROVE Aged[i].left > 0
      <4>1. Aged[i].left \in Int
        BY <1>5 DEF Entry
      <4> QED
        BY <4>1 DEF Crowded
    <3>1. ~chain[i].messed /\ Aged[i].left = chain[i].left - 1 /\ chain[i].left \in Int
      BY <1>3, <1>5 DEF Entry
    <3>2. chain[i].time \in timer1_wall_time
      BY <1>3 DEF Entry
    <3>3. ~(Millis(w) >= Millis(chain[i].time))
      BY <1>2, <2>1, <3>2, DueIsOrder
    <3>4. Millis(chain[i].time) = Millis(walltimer) + chain[i].left
      BY <3>1 DEF LateInv, Exact
    <3>5. Millis(walltimer) \in Int
      BY <1>3, LeadingDigits
    <3> QED
      BY <1>2, <3>1, <3>3, <3>4, <3>5
  <2> QED
    BY <1>1, <1>4, <1>5, <2>1, <2>2 DEF LateInv
<1>7. ASSUME NEW k \in DOMAIN chain, FirstDue(w, k), PickRecurring(w, k) \/ PickOneShot(w, k)
      PROVE  LateInv'
  <2> DEFINE f == Registered(w, chain[k].node, chain[k].sec, chain[k].msec, TRUE)
  <2>1. /\ chain[k].node \in Callbacks /\ chain[k].sec \in 0 .. SecMod - 1
        /\ chain[k].msec \in 0 .. MsecPerSec - 1
    BY <1>3 DEF Entry
  <2>2. chain[k].sec + 1 < SecMod /\ DelayMillis(chain[k].sec, chain[k].msec) >= N
    BY DEF LateInv, Exact
  <2>3. /\ Exact(f, w) /\ ~f.messed /\ f.left \in Int /\ f.left >= N
        /\ \A s : Crowded(f, s)
    <3>1. PICK r \in BOOLEAN : r = TRUE
      OBVIOUS
    <3>2. PICK g : g = Registered(w, chain[k].node, chain[k].sec, chain[k].msec, r)
      OBVIOUS
    <3>3. /\ Exact(g, w) /\ ~g.messed /\ g.left \in Int /\ g.left >= N
          /\ \A s : Crowded(g, s)
      BY <1>2, <2>1, <2>2, <3>2, FreshExact
    <3>4. g = f
      BY <3>1, <3>2
    <3> QED
      BY <3>3, <3>4
  <2> HIDE DEF f
  <2>4. \A j \in DOMAIN chain' :
          chain'[j] = f \/ \E m \in DOMAIN chain : m # k /\ chain'[j] = Aged[m]
    <3>1. CASE PickRecurring(w, k)
      <4>1. chain' = [Aged EXCEPT ![k] = f]
        BY <3>1 DEF PickRecurring, f
      <4> QED
        BY <1>4, <4>1
    <3>2. CASE PickOneShot(w, k)
      <4>1. chain' = Without(Aged, k) /\ k \in DOMAIN Aged
        BY <1>4, <3>2 DEF PickOneShot
      <4> QED
        BY <1>4, <4>1, WithoutOthers
    <3> QED
      BY <1>7, <3>1, <3>2
  <2>5. IsDue(w, chain[k].time)
    BY <1>7 DEF FirstDue
  <2>6. \A i \in DOMAIN chain : i # k => Crowded(Aged[i], chain')
    BY <1>2, <2>3, <2>4, <2>5, TickCrowded
  <2>7. ASSUME NEW j \in DOMAIN chain' PROVE Exact(chain'[j], w) /\ Crowded(chain'[j], chain')
    BY <1>5, <2>3, <2>4, <2>6
  <2> QED
    BY <1>1, <2>7 DEF LateInv
<1> QED
  BY <1>1, <1>6, <1>7

(***************************************************************************)
(* Every step keeps every element exact and every late one crowded.        *)
(***************************************************************************)
LEMMA LateInvStep ==
  ASSUME NoCarryOverflow, SparseDelays
  PROVE  TypeOK /\ LinkedOnce /\ LateInv /\ [Next]_vars => LateInv'
<1> SUFFICES ASSUME TypeOK, LinkedOnce, LateInv, [Next]_vars PROVE LateInv'
  OBVIOUS
<1>0. /\ chain \in Seq(Entry) /\ walltimer \in timer1_wall_time /\ walltimer.day <= MaxDay
      /\ \A i \in DOMAIN chain : /\ chain[i] \in Entry /\ Exact(chain[i], walltimer)
                                 /\ Crowded(chain[i], chain)
  BY DEF TypeOK, LateInv
<1>1. CASE UNCHANGED <<walltimer, chain>>
  BY <1>1 DEF LateInv
<1>2. ASSUME NEW c \in Callbacks, NEW d \in Delays, NEW recurring \in BOOLEAN,
             timer1_clock_register_callback(c, d[1], d[2], recurring)
      PROVE  LateInv'
  <2> DEFINE f == Registered(walltimer, c, d[1], d[2], recurring)
  <2>1. /\ d[1] \in 0 .. SecMod - 1 /\ d[2] \in 0 .. MsecPerSec - 1
        /\ d[1] + 1 < SecMod /\ DelayMillis(d[1], d[2]) >= N
    BY DelayType DEF NoCarryOverflow, SparseDelays, N
  <2>2. /\ Exact(f, walltimer) /\ ~f.messed /\ f.left \in Int /\ f.left >= N
        /\ \A s : Crowded(f, s)
    BY <1>0, <2>1, FreshExact
  <2> HIDE DEF f
  <2>3. /\ walltimer' = walltimer
        /\ \/ chain' = Append(chain, f)
           \/ \E i \in DOMAIN chain : chain' = [chain EXCEPT ![i] = f]
    BY <1>2 DEF timer1_clock_register_callback, f
  <2>4. \A j \in DOMAIN chain' : chain'[j] = f \/ \E k \in DOMAIN chain : chain'[j] = chain[k]
    BY <1>0, <2>3
  <2>5. ASSUME NEW k \in DOMAIN chain PROVE Crowded(chain[k], chain')
    <3>1. chain[k] \in Entry /\ Crowded(chain[k], chain)
      BY <1>0
    <3> QED
      BY <2>2, <2>4, <3>1, CrowdedStays
  <2> QED
    BY <1>0, <2>2, <2>3, <2>4, <2>5 DEF LateInv
<1>3. ASSUME NEW c \in Callbacks, timer1_clock_unregister_callback(c)
      PROVE  LateInv'
  <2>1. PICK i \in DOMAIN chain : chain' = Without(chain, i)
    BY <1>3 DEF timer1_clock_unregister_callback
  <2>2. \A j \in DOMAIN chain' : \E k \in DOMAIN chain : chain'[j] = chain[k]
    BY <1>0, <2>1, WithoutSource
  <2>3. walltimer' = walltimer
    BY <1>3 DEF timer1_clock_unregister_callback
  <2> DEFINE f == [left |-> N, messed |-> FALSE]
  <2>4. ~f.messed /\ f.left \in Int /\ f.left >= N
    BY NType
  <2> HIDE DEF f
  <2>5. ASSUME NEW k \in DOMAIN chain PROVE Crowded(chain[k], chain')
    <3>1. chain[k] \in Entry /\ Crowded(chain[k], chain)
      BY <1>0
    <3> QED
      BY <2>2, <2>4, <3>1, CrowdedStays
  <2> QED
    BY <1>0, <2>2, <2>3, <2>5 DEF LateInv
<1>4. CASE timer1_clock_reset
  <2>1. /\ DOMAIN chain' = DOMAIN chain
        /\ \A i \in DOMAIN chain : chain'[i] = [chain[i] EXCEPT !.messed = TRUE]
    BY <1>4 DEF timer1_clock_reset
  <2>2. ASSUME NEW i \in DOMAIN chain
        PROVE  Exact(chain'[i], walltimer') /\ Crowded(chain'[i], chain')
    <3>1. chain[i] \in Entry /\ Exact(chain[i], walltimer)
      BY <1>0
    <3>2. /\ chain'[i].messed = TRUE /\ chain'[i].sec = chain[i].sec
          /\ chain'[i].msec = chain[i].msec
      BY <2>1, <3>1 DEF Entry
    <3> QED
      BY <3>1, <3>2 DEF Exact, Crowded
  <2> QED
    BY <2>1, <2>2 DEF LateInv
<1>5. CASE timer1_clock_init
  BY <1>5 DEF timer1_clock_init, LateInv
<1>6. CASE TIMER1_COMPA_vect
  BY <1>6, TickLate
<1> QED
  BY <1>1, <1>2, <1>3, <1>4, <1>5, <1>6 DEF Next, vars, CallCallback, CallbackReturns

(***************************************************************************)
(* The interrupt runs one callback per tick, which is enough: if no delay  *)
(* is shorter than the number of callbacks, and sec + 1 fits its 16 bits,  *)
(* a callback is never as many ticks late as there are callbacks less one, *)
(* whatever the order of the chain.                                        *)
(***************************************************************************)
THEOREM LatenessCorrect == NoCarryOverflow => (Spec => []LatenessBound)
<1> SUFFICES ASSUME NoCarryOverflow PROVE Spec => []LatenessBound
  OBVIOUS
<1>1. Init => LateInv
  BY DEF Init, LateInv
<1>2. SparseDelays => (TypeOK /\ LinkedOnce /\ LateInv /\ [Next]_vars => LateInv')
  BY LateInvStep
<1>3. TypeOK /\ LateInv => LatenessBound
  <2> SUFFICES ASSUME TypeOK, LateInv, NEW i \in DOMAIN chain, ~chain[i].messed
               PROVE  chain[i].left > 1 + Overdue
    BY DEF LatenessBound
  <2>1. chain[i] \in Entry /\ Crowded(chain[i], chain)
    BY DEF TypeOK, LateInv
  <2>2. chain[i].left >= 2 - N /\ chain[i].left \in Int
    BY <2>1, CrowdedBounds DEF Entry
  <2> QED
    BY <2>2, NType
<1>4. CASE SparseDelays
  BY <1>1, <1>2, <1>3, <1>4, TypeCorrect, ChainWellFormed, PTL DEF Spec
<1>5. CASE ~SparseDelays
  <2>1. LatenessBound
    BY <1>5 DEF LatenessBound
  <2> QED
    BY <2>1, PTL
<1> QED
  BY <1>4, <1>5
=============================================================================
