---------------------------- MODULE LedAlarmClock ----------------------------
(***************************************************************************)
(* The lamp of programs/led_alarm_clock: the ADC interrupt that samples    *)
(* four channels in turn and switches the LED off when the current is      *)
(* above PANIC_LED_RAW_CURRENT, the knob that sets the wanted current, and *)
(* regulate, a timer callback that moves the PWM one step towards it.      *)
(*                                                                         *)
(* regulate runs with interrupts on.  Its steps are its accesses to        *)
(* variables that the interrupts use: a 16-bit set-point is read as two    *)
(* bytes, low one first, and the PWM is loaded, then stored, then written  *)
(* to the timer's registers.  The build (-O3) keeps each value in          *)
(* registers from its load to its last use.  The knob's interrupt is one   *)
(* step: a second detent takes four more edges.  The ADC interrupt runs    *)
(* with interrupts off.  The main loop only displays.                      *)
(*                                                                         *)
(* The state starts where main enables interrupts.                         *)
(***************************************************************************)
EXTENDS Integers

CONSTANTS
  Byte,        \* 256
  Top,         \* 255, the largest OCR0A
  MaxSP,       \* 400 mA
  InitialSP,   \* 10 mA
  BandPart,    \* 20: the band is a twentieth of the set-point ...
  MinBand,     \* 2: ... but at least this
  Panic,       \* PANIC_LED_RAW_CURRENT
  FullScale,   \* 579 mA ...
  AdcSteps,    \* ... are 1024 steps of the ADC
  Raws         \* the results of a conversion

(***************************************************************************)
(* A set-point read as two bytes is below TornLimit.  The panic current is *)
(* above every such set-point with its band.                               *)
(***************************************************************************)
TornLimit == Byte * (MaxSP \div Byte + 1)
Milliamps(raw) == (raw * FullScale) \div AdcSteps

ASSUME LampAssumption ==
  /\ {Byte, Top, BandPart, AdcSteps} \subseteq Nat \ {0}
  /\ {MaxSP, InitialSP, MinBand, Panic, FullScale} \subseteq Nat
  /\ InitialSP <= MaxSP
  /\ Raws \subseteq Nat

ASSUME PanicAboveSetPoints ==
  \A raw \in Raws : raw > Panic =>
    \A sp, torn \in 0 .. TornLimit - 1 :
      sp + torn \div BandPart < Milliamps(raw) /\ sp + MinBand < Milliamps(raw)

VARIABLES
  ledCurrentSP_, ledPWM_,
  out,                  \* TCCR0A drives the LED's pin; otherwise the LED is off
  OCR0A,                \* the power while it does
  adcConversionIndex_, rawCurrent_,
  mux,                  \* the channel of the conversion in progress
  source,               \* history: the channel each raw value was sampled from
  reg,                  \* regulate: where it is, and its registers (0 when not in use)
  over,                 \* history: a panic since regulate last returned, not in its stores
  disturbed             \* history: a panic in the stores of regulate's last run

lamp == <<ledPWM_, out, OCR0A>>
adc == <<adcConversionIndex_, mux, rawCurrent_, source>>
vars == <<ledCurrentSP_, lamp, adc, reg, over, disturbed>>

Channels == {"ADC0", "ADC1", "ADC2", "ADC3"}
RawValues == {"rawCurrent_", "rawInputVoltage_", "rawLedTemperature_", "rawLedVoltage_"}

(***************************************************************************)
(* main: the lamp is off, initADCSystem has called startNextADCConversion  *)
(* once, which took the ADC's reset value for a current.                   *)
(***************************************************************************)
Init ==
  /\ ledCurrentSP_ = InitialSP
  /\ ledPWM_ = 0 /\ out = FALSE /\ OCR0A = 0
  /\ adcConversionIndex_ = 1 /\ mux = "ADC0" /\ rawCurrent_ = 0
  /\ source = [v \in RawValues |-> "none"]
  /\ reg = [pc |-> "idle", low |-> 0, band |-> 0, cur |-> 0, sp |-> 0, pwm |-> 0]
  /\ over = FALSE /\ disturbed = FALSE

(***************************************************************************)
(* encoderCallbackFiltered.                                                *)
(***************************************************************************)
encoderCallbackFiltered(up) ==
  /\ ledCurrentSP_' = IF up THEN IF ledCurrentSP_ < MaxSP THEN ledCurrentSP_ + 1 ELSE ledCurrentSP_
                      ELSE IF ledCurrentSP_ > 0 THEN ledCurrentSP_ - 1 ELSE ledCurrentSP_
  /\ UNCHANGED <<lamp, adc, reg, over, disturbed>>

(***************************************************************************)
(* startNextADCConversion: what the finished conversion is stored as, and  *)
(* the channel selected for the next one.                                  *)
(***************************************************************************)
Stored(i) ==
  IF i = 1 THEN "rawInputVoltage_" ELSE IF i = 3 THEN "rawLedTemperature_"
  ELSE IF i = 5 THEN "rawLedVoltage_" ELSE "rawCurrent_"

\* mutant: the LED's voltage selected one conversion late
SelectedNow(i) ==
  IF i = 0 THEN "ADC0" ELSE IF i = 2 THEN "ADC2" ELSE IF i = 5 THEN "ADC3" ELSE "ADC1"

Selected(i) ==
  IF i = 0 THEN "ADC0" ELSE IF i = 2 THEN "ADC2" ELSE IF i = 4 THEN "ADC3" ELSE "ADC1"

NextIndex(i) == IF i + 1 > 5 THEN 0 ELSE i + 1

(***************************************************************************)
(* setLedPWM(0), without interrupts.  Mutant: the variable is forgotten.   *)
(***************************************************************************)
SwitchOffOutput == out' = FALSE /\ UNCHANGED <<ledPWM_, OCR0A>>

SwitchOff == ledPWM_' = 0 /\ out' = FALSE /\ UNCHANGED OCR0A

Storing == reg.pc \in {"store", "mode", "power"}

ledCurrentCallback(raw) ==
  IF raw > Panic
  THEN SwitchOff /\ over' = (over \/ ~Storing) /\ disturbed' = (disturbed \/ Storing)
  ELSE UNCHANGED <<lamp, over, disturbed>>

ADC_vect ==
  \E raw \in Raws :
    LET i == adcConversionIndex_
    IN  /\ source' = [source EXCEPT ![Stored(i)] = mux]
        /\ \/ /\ Stored(i) = "rawCurrent_"
              /\ rawCurrent_' = raw /\ ledCurrentCallback(raw)
           \/ /\ Stored(i) # "rawCurrent_"
              /\ UNCHANGED <<rawCurrent_, lamp, over, disturbed>>
        /\ mux' = Selected(i)
        /\ adcConversionIndex_' = NextIndex(i)
        /\ UNCHANGED <<ledCurrentSP_, reg>>

(***************************************************************************)
(* regulate, called every 100 ms: the reads.  The set-point is fetched     *)
(* for the band and again after getLEDCurrent.                             *)
(***************************************************************************)
ReadLow(from, to) ==
  reg.pc = from /\ reg' = [reg EXCEPT !.pc = to, !.low = ledCurrentSP_ % Byte]

SetPointRead == (ledCurrentSP_ \div Byte) * Byte + reg.low

Band(x) == IF x \div BandPart < MinBand THEN MinBand ELSE x \div BandPart

ReadBand ==
  reg.pc = "band" /\ reg' = [reg EXCEPT !.pc = "current", !.low = 0, !.band = Band(SetPointRead)]

getLEDCurrent ==
  reg.pc = "current" /\ reg' = [reg EXCEPT !.pc = "low", !.cur = Milliamps(rawCurrent_)]

ReadSetPoint ==
  reg.pc = "high" /\ reg' = [reg EXCEPT !.pc = "pwm", !.low = 0, !.sp = SetPointRead]

Read ==
  /\ \/ ReadLow("idle", "band") \/ ReadBand \/ getLEDCurrent
     \/ ReadLow("low", "high") \/ ReadSetPoint
  /\ UNCHANGED <<ledCurrentSP_, lamp, adc, over, disturbed>>

\* mutants: no upper limit; the comparisons swapped
StepUnlimited(p) == IF reg.sp = 0 THEN 0 ELSE IF reg.sp - reg.band > reg.cur THEN p + 1 ELSE p
StepUpwards(p) ==
  IF reg.sp = 0 THEN 0
  ELSE IF p <= Top /\ reg.sp - reg.band < reg.cur THEN p + 1
  ELSE IF p > 0 /\ reg.sp + reg.band > reg.cur THEN p - 1 ELSE p

Step(p) ==
  IF reg.sp = 0 THEN 0
  ELSE IF p <= Top /\ reg.sp - reg.band > reg.cur THEN p + 1
  ELSE IF p > 0 /\ reg.sp + reg.band < reg.cur THEN p - 1 ELSE p

LoadPWM ==
  /\ reg.pc = "pwm"
  /\ reg' = [reg EXCEPT !.pc = "store", !.pwm = Step(ledPWM_), !.band = 0, !.cur = 0, !.sp = 0]
  /\ disturbed' = FALSE
  /\ UNCHANGED <<ledCurrentSP_, lamp, adc, over>>

(***************************************************************************)
(* Its call of setLedPWM, with interrupts: the variable, then the output's *)
(* mode, then the power.  Mutant: the compare value is the power itself.   *)
(***************************************************************************)
StorePWM ==
  /\ reg.pc = "store" /\ reg' = [reg EXCEPT !.pc = "mode"]
  /\ ledPWM_' = reg.pwm
  /\ UNCHANGED <<out, OCR0A, over>>

SetMode ==
  /\ reg.pc = "mode"
  /\ out' = (reg.pwm > 0)
  /\ reg' = [reg EXCEPT !.pc = IF reg.pwm > 0 THEN "power" ELSE "idle"]
  /\ over' = (over /\ reg.pwm > 0)
  /\ UNCHANGED <<ledPWM_, OCR0A>>

SetPowerUnshifted ==
  /\ reg.pc = "power" /\ reg' = [reg EXCEPT !.pc = "idle", !.pwm = 0]
  /\ OCR0A' = reg.pwm % (Top + 1) /\ over' = FALSE
  /\ UNCHANGED <<ledPWM_, out>>

SetPower ==
  /\ reg.pc = "power" /\ reg' = [reg EXCEPT !.pc = "idle", !.pwm = 0]
  /\ OCR0A' = reg.pwm - 1 /\ over' = FALSE
  /\ UNCHANGED <<ledPWM_, out>>

setLedPWM ==
  /\ StorePWM \/ SetMode \/ SetPower
  /\ UNCHANGED <<ledCurrentSP_, adc, disturbed>>

regulate == Read \/ LoadPWM \/ setLedPWM

Next ==
  \/ ADC_vect
  \/ regulate
  \/ \E up \in BOOLEAN : encoderCallbackFiltered(up)

(***************************************************************************)
(* Every conversion ends in an interrupt that starts the next one, and the *)
(* timer calls regulate again and again.  Nobody has to turn the knob.     *)
(***************************************************************************)
Spec == Init /\ [][Next]_vars /\ WF_vars(ADC_vect) /\ WF_vars(regulate)

-----------------------------------------------------------------------------
(***************************************************************************)
(* Type correctness: whatever a panic or the knob does between two steps   *)
(* of regulate, the PWM stays within what OCR0A + 1 can express, and       *)
(* "Should never happen" in startNextADCConversion does not.               *)
(***************************************************************************)
TypeOK ==
  /\ ledCurrentSP_ \in 0 .. MaxSP
  /\ ledPWM_ \in 0 .. Top + 1 /\ OCR0A \in 0 .. Top
  /\ out \in BOOLEAN /\ over \in BOOLEAN /\ disturbed \in BOOLEAN
  /\ adcConversionIndex_ \in 0 .. 5 /\ mux \in Channels
  /\ rawCurrent_ \in Raws \cup {0}
  /\ source \in [RawValues -> Channels \cup {"none"}]
  /\ reg \in [pc : {"idle", "band", "current", "low", "high", "pwm", "store", "mode", "power"},
              low : 0 .. Byte - 1, sp : 0 .. TornLimit - 1, band : Nat, cur : Nat,
              pwm : 0 .. Top + 1]

(***************************************************************************)
(* Every raw value comes from the channel it is named after, although the  *)
(* channel is selected one conversion before its result is stored: ADC0 is *)
(* the input voltage, ADC1 the current, ADC2 the LED's temperature and     *)
(* ADC3 its voltage (the comments of startNextADCConversion).              *)
(***************************************************************************)
Wired(v) ==
  IF v = "rawInputVoltage_" THEN "ADC0" ELSE IF v = "rawLedTemperature_" THEN "ADC2"
  ELSE IF v = "rawLedVoltage_" THEN "ADC3" ELSE "ADC1"

ChannelFaithful == \A v \in RawValues : source[v] \in {Wired(v), "none"}

(***************************************************************************)
(* A panic that does not fall between regulate's load of the PWM and its   *)
(* last register write keeps the LED off until regulate stores again, and  *)
(* regulate then restarts from at most one step, even if it had taken its  *)
(* current reading before the panic.                                       *)
(***************************************************************************)
PanicHolds ==
  over => /\ ledPWM_ <= 1
          /\ reg.pc \notin {"mode", "power"} => ledPWM_ = 0 /\ ~out

(***************************************************************************)
(* Between two runs of regulate the timer's registers show the PWM value,  *)
(* unless a panic fell into the last run's stores; the next run repairs    *)
(* that.                                                                   *)
(***************************************************************************)
RegistersAgree ==
  ~Storing /\ ~disturbed =>
    /\ out <=> ledPWM_ > 0
    /\ out => OCR0A = ledPWM_ - 1

(***************************************************************************)
(* A current that stays above the panic level ends with the LED off for    *)
(* good, however the knob is turned meanwhile, even when a set-point is    *)
(* read while it changes and even when regulate undoes a panic.            *)
(***************************************************************************)
OverCurrentEndsDark ==
  <>[](rawCurrent_ > Panic) => <>[](~out /\ ledPWM_ = 0)
=============================================================================
