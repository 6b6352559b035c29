------------------------- MODULE LedAlarmClockProofs -------------------------
(***************************************************************************)
(* Theorems about the two parts of the LED alarm clock: LedAlarmClock, for *)
(* every width of its registers, every scale of its current and every      *)
(* panic level, and Quadrature, the decoder of its knob.                   *)
(***************************************************************************)
EXTENDS LedAlarmClock, Quadrature, TLAPS

Pcs == {"idle", "band", "current", "low", "high", "pwm", "store", "mode", "power"}

(***************************************************************************)
(* The constants, one by one.                                              *)
(***************************************************************************)
LEMMA Constants ==
  /\ Byte \in Nat /\ Byte > 0 /\ Top \in Nat /\ Top > 0
  /\ BandPart \in Nat /\ BandPart > 0 /\ AdcSteps \in Nat /\ AdcSteps > 0
  /\ MaxSP \in Nat /\ InitialSP \in 0 .. MaxSP /\ MinBand \in Nat
  /\ Panic \in Nat /\ FullScale \in Nat /\ Raws \subseteq Nat
<1>1. /\ Byte \in Nat \ {0} /\ Top \in Nat \ {0} /\ BandPart \in Nat \ {0}
      /\ AdcSteps \in Nat \ {0} /\ MaxSP \in Nat /\ InitialSP \in Nat /\ MinBand \in Nat
      /\ Panic \in Nat /\ FullScale \in Nat /\ Raws \subseteq Nat /\ InitialSP <= MaxSP
  BY LampAssumption, Zenon
<1> QED
  BY <1>1

(***************************************************************************)
(* Division of naturals, as the conversions of the code use it: the result *)
(* is a natural number and grows with what is divided.                     *)
(***************************************************************************)
LEMMA DivOrder ==
  ASSUME NEW a \in Nat, NEW c \in Nat, NEW b \in Nat, b > 0, a <= c
  PROVE  a \div b \in Nat /\ c \div b \in Nat /\ a \div b <= c \div b
<1>1. a \div b \in Nat /\ c \div b \in Nat
  OBVIOUS
<1>2. a \div b <= c \div b
  BY SMTT(30)
<1> QED
  BY <1>1, <1>2

(***************************************************************************)
(* Multiplication keeps the order.                                         *)
(***************************************************************************)
LEMMA MulOrder ==
  ASSUME NEW b \in Nat, NEW x \in Nat, NEW y \in Nat, x <= y
  PROVE  x * b \in Nat /\ b * (y + 1) \in Nat /\ x * b + b <= b * (y + 1)
<1>1. x * b \in Nat /\ b * (y + 1) \in Nat
  OBVIOUS
<1>2. x * b + b <= b * (y + 1)
  OBVIOUS
<1> QED
  BY <1>1, <1>2

(***************************************************************************)
(* A set-point put together from the bytes of two set-points is below the  *)
(* next multiple of 256 above the largest one.                             *)
(***************************************************************************)
LEMMA TornBound ==
  ASSUME TypeOK
  PROVE  SetPointRead \in 0 .. TornLimit - 1
<1> DEFINE h == ledCurrentSP_ \div Byte
           H == MaxSP \div Byte
<1>1. ledCurrentSP_ \in Nat /\ ledCurrentSP_ <= MaxSP /\ reg.low \in 0 .. Byte - 1
  BY DEF TypeOK
<1>2. h \in Nat /\ H \in Nat /\ h <= H
  BY <1>1, Constants, DivOrder
<1> HIDE DEF h, H
<1>3. h * Byte \in Nat /\ Byte * (H + 1) \in Nat /\ h * Byte + Byte <= Byte * (H + 1)
  BY <1>2, Constants, MulOrder
<1>4. SetPointRead = h * Byte + reg.low /\ TornLimit = Byte * (H + 1)
  BY DEF SetPointRead, TornLimit, h, H
<1> QED
  BY <1>1, <1>3, <1>4, Constants

(***************************************************************************)
(* The band and the current in milliamperes are natural numbers.           *)
(***************************************************************************)
LEMMA BandType ==
  ASSUME NEW x \in Nat
  PROVE  Band(x) \in Nat
<1>1. x \div BandPart \in Nat
  BY Constants
<1> QED
  BY <1>1, Constants DEF Band

(***************************************************************************)
(* getLEDCurrent computes a natural number.                                *)
(***************************************************************************)
LEMMA MilliampsType ==
  ASSUME NEW raw \in Nat
  PROVE  Milliamps(raw) \in Nat
<1>1. raw * FullScale \in Nat
  BY Constants
<1> QED
  BY <1>1, Constants DEF Milliamps

-----------------------------------------------------------------------------
(***************************************************************************)
(* Type correctness needs that regulate reaches its last register write    *)
(* only with a power above 0.                                              *)
(***************************************************************************)
PowerOn == reg.pc = "power" => reg.pwm > 0

Typed == TypeOK /\ PowerOn

(***************************************************************************)
(* The records regulate leaves behind are of this type.                    *)
(***************************************************************************)
Regs == [pc : Pcs, low : 0 .. Byte - 1, sp : 0 .. TornLimit - 1, band : Nat, cur : Nat,
         pwm : 0 .. Top + 1]

(***************************************************************************)
(* 0 is within the range of every register.                                *)
(***************************************************************************)
LEMMA Zeros ==
  0 \in 0 .. Byte - 1 /\ 0 \in 0 .. Top /\ 0 \in 0 .. Top + 1 /\ 0 \in 0 .. TornLimit - 1
<1>1. MaxSP \div Byte \in Nat
  BY Constants
<1>2. /\ 0 * Byte \in Nat /\ Byte * (MaxSP \div Byte + 1) \in Nat
      /\ 0 * Byte + Byte <= Byte * (MaxSP \div Byte + 1)
  BY <1>1, Constants, MulOrder
<1> QED
  BY <1>2, Constants DEF TornLimit

(***************************************************************************)
(* The state in which main enables interrupts is typed.                    *)
(***************************************************************************)
LEMMA InitTyped == Init => Typed
<1> SUFFICES ASSUME Init PROVE Typed
  OBVIOUS
<1>1. reg \in Regs /\ reg.pc = "idle"
  BY Zeros DEF Init, Regs, Pcs
<1>2. source \in [RawValues -> Channels \cup {"none"}] /\ mux \in Channels
  BY DEF Init, Channels
<1>3. /\ ledCurrentSP_ \in 0 .. MaxSP /\ ledPWM_ \in 0 .. Top + 1 /\ OCR0A \in 0 .. Top
      /\ adcConversionIndex_ \in 0 .. 5
  BY Zeros, Constants, SMT DEF Init
<1>4. /\ out \in BOOLEAN /\ over \in BOOLEAN /\ disturbed \in BOOLEAN
      /\ rawCurrent_ \in Raws \cup {0}
  BY DEF Init
<1> QED
  BY <1>1, <1>2, <1>3, <1>4 DEF Typed, TypeOK, PowerOn, Regs, Pcs

(***************************************************************************)
(* The reads, and the load and the stores, of regulate.                    *)
(***************************************************************************)
LEMMA ReadType ==
  ASSUME Typed, Read
  PROVE  Typed'
<1>1. /\ UNCHANGED <<ledCurrentSP_, ledPWM_, out, OCR0A, over, disturbed>>
      /\ UNCHANGED <<adcConversionIndex_, mux, rawCurrent_, source>>
  BY DEF Read, lamp, adc
<1>2. reg \in Regs /\ ledCurrentSP_ \in Nat /\ rawCurrent_ \in Nat
  BY Constants DEF Typed, TypeOK, Regs, Pcs
<1>3. reg' \in Regs /\ reg'.pc # "power"
  <2>1. 0 \in 0 .. Byte - 1 /\ ledCurrentSP_ % Byte \in 0 .. Byte - 1
    BY <1>2, Constants
  <2>2. SetPointRead \in 0 .. TornLimit - 1 /\ SetPointRead \in Nat
    BY TornBound DEF Typed
  <2>3. CASE ReadLow("idle", "band")
    BY <1>2, <2>1, <2>3 DEF ReadLow, Regs, Pcs
  <2>4. CASE ReadBand
    BY <1>2, <2>1, <2>2, <2>4, BandType DEF ReadBand, Regs, Pcs
  <2>5. CASE getLEDCurrent
    BY <1>2, <2>5, MilliampsType DEF getLEDCurrent, Regs, Pcs
  <2>6. CASE ReadLow("low", "high")
    BY <1>2, <2>1, <2>6 DEF ReadLow, Regs, Pcs
  <2>7. CASE ReadSetPoint
    BY <1>2, <2>1, <2>2, <2>7 DEF ReadSetPoint, Regs, Pcs
  <2> QED
    BY <2>3, <2>4, <2>5, <2>6, <2>7 DEF Read
<1> QED
  BY <1>1, <1>3 DEF Typed, TypeOK, PowerOn, Regs, Pcs

(***************************************************************************)
(* One step of regulate stays within the range of the PWM, and a PWM of 0  *)
(* becomes 1 at most.                                                      *)
(***************************************************************************)
LEMMA StepType ==
  ASSUME Typed, NEW p \in 0 .. Top + 1
  PROVE  /\ Step(p) \in 0 .. Top + 1
         /\ p = 0 => Step(p) \in 0 .. 1
  BY Constants DEF Typed, TypeOK, Step

(***************************************************************************)
(* The load and the stores of regulate.                                    *)
(***************************************************************************)
LEMMA StoreType ==
  ASSUME Typed, LoadPWM \/ setLedPWM
  PROVE  Typed'
<1>1. /\ UNCHANGED <<ledCurrentSP_, adcConversionIndex_, mux, rawCurrent_, source>>
  BY DEF LoadPWM, setLedPWM, adc
<1>2. /\ reg \in Regs /\ ledPWM_ \in 0 .. Top + 1 /\ OCR0A \in 0 .. Top /\ out \in BOOLEAN
      /\ over \in BOOLEAN /\ disturbed \in BOOLEAN
  BY DEF Typed, TypeOK, Regs, Pcs
<1>3. 0 \in 0 .. TornLimit - 1 /\ 0 \in 0 .. Top + 1
  BY Zeros
<1>4. /\ reg' \in Regs /\ ledPWM_' \in 0 .. Top + 1 /\ OCR0A' \in 0 .. Top /\ out' \in BOOLEAN
      /\ over' \in BOOLEAN /\ disturbed' \in BOOLEAN /\ PowerOn'
  <2>1. CASE LoadPWM
    <3>1. /\ reg' = [reg EXCEPT !.pc = "store", !.pwm = Step(ledPWM_),
                                !.band = 0, !.cur = 0, !.sp = 0]
          /\ disturbed' = FALSE /\ UNCHANGED <<ledPWM_, out, OCR0A, over>>
      BY <2>1 DEF LoadPWM, lamp
    <3>2. Step(ledPWM_) \in 0 .. Top + 1
      BY <1>2, StepType
    <3>3. reg' \in Regs /\ reg'.pc = "store"
      BY <1>2, <1>3, <3>1, <3>2 DEF Regs, Pcs
    <3> QED
      BY <1>2, <3>1, <3>3 DEF PowerOn
  <2>2. CASE setLedPWM /\ StorePWM
    BY <1>2, <2>2 DEF setLedPWM, StorePWM, Regs, Pcs, PowerOn
  <2>3. CASE setLedPWM /\ SetMode
    <3>1. /\ out' = (reg.pwm > 0) /\ over' = (over /\ reg.pwm > 0)
          /\ UNCHANGED <<ledPWM_, OCR0A, disturbed>>
          /\ reg' = [reg EXCEPT !.pc = IF reg.pwm > 0 THEN "power" ELSE "idle"]
      BY <2>3 DEF setLedPWM, SetMode
    <3>2. reg' \in Regs /\ reg'.pwm = reg.pwm /\ (reg'.pc = "power" => reg.pwm > 0)
      BY <1>2, <3>1 DEF Regs, Pcs
    <3> QED
      BY <1>2, <3>1, <3>2 DEF PowerOn
  <2>4. CASE setLedPWM /\ SetPower
    <3>1. /\ OCR0A' = reg.pwm - 1 /\ over' = FALSE /\ UNCHANGED <<ledPWM_, out, disturbed>>
          /\ reg' = [reg EXCEPT !.pc = "idle", !.pwm = 0] /\ reg.pc = "power"
      BY <2>4 DEF setLedPWM, SetPower
    <3>2. reg.pwm \in 0 .. Top + 1 /\ reg.pwm > 0
      BY <1>2, <3>1 DEF Typed, PowerOn, Regs
    <3>3. OCR0A' \in 0 .. Top
      BY <3>1, <3>2, Constants
    <3>4. reg' \in Regs /\ reg'.pc = "idle"
      BY <1>2, <1>3, <3>1 DEF Regs, Pcs
    <3> QED
      BY <1>2, <3>1, <3>3, <3>4 DEF PowerOn
  <2> QED
    BY <2>1, <2>2, <2>3, <2>4 DEF setLedPWM
<1> QED
  BY <1>1, <1>4 DEF Typed, TypeOK, Regs, Pcs

(***************************************************************************)
(* The ADC interrupt.                                                      *)
(***************************************************************************)
LEMMA AdcType ==
  ASSUME Typed, ADC_vect
  PROVE  Typed'
<1> DEFINE i == adcConversionIndex_
<1>1. PICK raw \in Raws :
        /\ source' = [source EXCEPT ![Stored(i)] = mux]
        /\ \/ rawCurrent_' = raw /\ ledCurrentCallback(raw)
           \/ UNCHANGED <<rawCurrent_, lamp, over, disturbed>>
        /\ mux' = Selected(i) /\ adcConversionIndex_' = NextIndex(i)
        /\ UNCHANGED <<ledCurrentSP_, reg>>
  BY DEF ADC_vect
<1>2. i \in 0 .. 5 /\ mux \in Channels /\ source \in [RawValues -> Channels \cup {"none"}]
  BY DEF Typed, TypeOK
<1>3. source' \in [RawValues -> Channels \cup {"none"}]
  BY <1>1, <1>2
<1>4. mux' \in Channels /\ adcConversionIndex_' \in 0 .. 5
  BY <1>1, <1>2 DEF Selected, NextIndex, Channels
<1>5. /\ rawCurrent_' \in Raws \cup {0}
      /\ ledPWM_' \in 0 .. Top + 1 /\ OCR0A' \in 0 .. Top /\ out' \in BOOLEAN
      /\ over' \in BOOLEAN /\ disturbed' \in BOOLEAN
  <2>1. /\ rawCurrent_ \in Raws \cup {0}
        /\ ledPWM_ \in 0 .. Top + 1 /\ OCR0A \in 0 .. Top /\ out \in BOOLEAN
        /\ over \in BOOLEAN /\ disturbed \in BOOLEAN
    BY DEF Typed, TypeOK
  <2>2. CASE rawCurrent_' = raw /\ SwitchOff /\ raw > Panic /\ ledCurrentCallback(raw)
    BY <2>1, <2>2, Zeros DEF SwitchOff, ledCurrentCallback
  <2>3. CASE rawCurrent_' = raw /\ UNCHANGED <<lamp, over, disturbed>>
    BY <2>1, <2>3 DEF lamp
  <2>4. CASE UNCHANGED <<rawCurrent_, lamp, over, disturbed>>
    BY <2>1, <2>4 DEF lamp
  <2> QED
    BY <1>1, <2>2, <2>3, <2>4 DEF ledCurrentCallback
<1>6. reg' = reg /\ ledCurrentSP_' = ledCurrentSP_
  BY <1>1
<1> QED
  BY <1>3, <1>4, <1>5, <1>6 DEF Typed, TypeOK, PowerOn

(***************************************************************************)
(* The knob keeps the set-point within its limits.                         *)
(***************************************************************************)
LEMMA KnobType ==
  ASSUME Typed, NEW up \in BOOLEAN, encoderCallbackFiltered(up)
  PROVE  Typed'
<1>1. ledCurrentSP_' \in 0 .. MaxSP
  BY Constants DEF Typed, TypeOK, encoderCallbackFiltered
<1>2. /\ UNCHANGED <<ledPWM_, out, OCR0A, over, disturbed, reg>>
      /\ UNCHANGED <<adcConversionIndex_, mux, rawCurrent_, source>>
  BY DEF encoderCallbackFiltered, lamp, adc
<1> QED
  BY <1>1, <1>2 DEF Typed, TypeOK, PowerOn

(***************************************************************************)
(* Every step keeps the types.                                             *)
(***************************************************************************)
LEMMA TypedStep == Typed /\ [Next]_vars => Typed'
<1> SUFFICES ASSUME Typed, [Next]_vars PROVE Typed'
  OBVIOUS
<1>1. CASE UNCHANGED vars
  BY <1>1 DEF vars, lamp, adc, Typed, TypeOK, PowerOn
<1> QED
  BY <1>1, AdcType, KnobType, ReadType, StoreType DEF Next, regulate

(***************************************************************************)
(* Whatever the interrupts do between two steps of regulate, the PWM stays *)
(* within what the timer's compare register can express.                   *)
(***************************************************************************)
THEOREM TypeCorrect == Spec => []TypeOK
<1>1. Typed => TypeOK
  BY DEF Typed
<1> QED
  BY <1>1, InitTyped, TypedStep, PTL DEF Spec

-----------------------------------------------------------------------------
(***************************************************************************)
(* Sampling: the conversion in progress is of the channel that belongs to  *)
(* the value its result will be stored as.                                 *)
(***************************************************************************)
Sampling == ChannelFaithful /\ mux = Wired(Stored(adcConversionIndex_))

(***************************************************************************)
(* The channel is selected one conversion before its result is stored.     *)
(***************************************************************************)
LEMMA SamplingStep == Typed /\ Sampling /\ [Next]_vars => Sampling'
<1> SUFFICES ASSUME Typed, Sampling, [Next]_vars PROVE Sampling'
  OBVIOUS
<1>1. CASE ADC_vect
  <2> DEFINE i == adcConversionIndex_
  <2>1. /\ source' = [source EXCEPT ![Stored(i)] = mux]
        /\ mux' = Selected(i) /\ adcConversionIndex_' = NextIndex(i)
    BY <1>1 DEF ADC_vect
  <2>2. i \in 0 .. 5 /\ source \in [RawValues -> Channels \cup {"none"}]
    BY DEF Typed, TypeOK
  <2>3. mux = Wired(Stored(i)) /\ ChannelFaithful
    BY DEF Sampling
  <2>4. ASSUME NEW v \in RawValues PROVE source'[v] \in {Wired(v), "none"}
    <3>1. source'[v] = IF v = Stored(i) THEN mux ELSE source[v]
      BY <2>1, <2>2
    <3> QED
      BY <2>3, <3>1 DEF ChannelFaithful
  <2>5. Selected(i) = Wired(Stored(NextIndex(i)))
    BY <2>2 DEF Selected, Wired, Stored, NextIndex
  <2> QED
    BY <2>1, <2>4, <2>5 DEF Sampling, ChannelFaithful
<1>2. CASE UNCHANGED adc
  BY <1>2 DEF adc, Sampling, ChannelFaithful
<1>3. ADC_vect \/ UNCHANGED adc
  BY DEF Next, regulate, Read, LoadPWM, setLedPWM, encoderCallbackFiltered, vars
<1> QED
  BY <1>1, <1>2, <1>3

(***************************************************************************)
(* Every raw value is a sample of its own channel.                         *)
(***************************************************************************)
THEOREM SamplesCorrect == Spec => []ChannelFaithful
<1>1. Init => Sampling
  BY DEF Init, Sampling, ChannelFaithful, Wired, Stored, RawValues
<1>2. Sampling => ChannelFaithful
  BY DEF Sampling
<1> QED
  BY <1>1, <1>2, InitTyped, TypedStep, SamplingStep, PTL DEF Spec

-----------------------------------------------------------------------------
(***************************************************************************)
(* What a panic leaves behind, followed through the stores of regulate.    *)
(***************************************************************************)
Guarded ==
  over => /\ reg.pc \notin {"mode", "power"} => ledPWM_ = 0 /\ ~out
          /\ Storing => reg.pwm <= 1
          /\ ledPWM_ <= 1

(***************************************************************************)
(* Every step keeps Guarded: after a panic regulate loads a PWM of 0.      *)
(***************************************************************************)
LEMMA GuardedStep == Typed /\ Guarded /\ [Next]_vars => Guarded'
<1> SUFFICES ASSUME Typed, Guarded, [Next]_vars PROVE Guarded'
  OBVIOUS
<1>t. /\ ledPWM_ \in 0 .. Top + 1 /\ reg \in Regs /\ over \in BOOLEAN /\ out \in BOOLEAN
  BY DEF Typed, TypeOK, Regs, Pcs
<1>1. CASE ADC_vect
  <2>1. PICK raw \in Raws :
          /\ UNCHANGED reg
          /\ ledCurrentCallback(raw) \/ UNCHANGED <<lamp, over>>
    BY <1>1 DEF ADC_vect
  <2>2. CASE UNCHANGED <<ledPWM_, out, over>>
    BY <2>1, <2>2 DEF Guarded, Storing
  <2>3. CASE SwitchOff /\ over' = (over \/ ~Storing)
    <3>1. ledPWM_' = 0 /\ out' = FALSE /\ reg' = reg
      BY <2>1, <2>3 DEF SwitchOff
    <3>2. over' => over \/ ~Storing
      BY <2>3
    <3> QED
      BY <3>1, <3>2 DEF Guarded, Storing
  <2> QED
    BY <2>1, <2>2, <2>3 DEF ledCurrentCallback, lamp
<1>2. CASE Read
  <2>1. UNCHANGED <<ledPWM_, out, over>> /\ ~Storing'
    BY <1>2, <1>t DEF Read, ReadLow, ReadBand, getLEDCurrent, ReadSetPoint, lamp, Storing, Regs
  <2>2. ~Storing
    BY <1>2 DEF Read, ReadLow, ReadBand, getLEDCurrent, ReadSetPoint, Storing
  <2> QED
    BY <2>1, <2>2 DEF Guarded, Storing
<1>3. CASE LoadPWM
  <2>1. /\ UNCHANGED <<ledPWM_, out, over>> /\ reg.pc = "pwm"
        /\ reg' = [reg EXCEPT !.pc = "store", !.pwm = Step(ledPWM_),
                              !.band = 0, !.cur = 0, !.sp = 0]
    BY <1>3 DEF LoadPWM, lamp
  <2>2. reg'.pc = "store" /\ reg'.pwm = Step(ledPWM_)
    BY <2>1, <1>t DEF Regs
  <2>3. over => ledPWM_ = 0 /\ ~out /\ Step(ledPWM_) \in 0 .. 1
    BY <2>1, <1>t, StepType DEF Guarded
  <2> QED
    BY <2>1, <2>2, <2>3 DEF Guarded, Storing
<1>4. CASE setLedPWM /\ StorePWM
  <2>1. /\ reg.pc = "store" /\ reg'.pc = "mode" /\ reg'.pwm = reg.pwm
        /\ ledPWM_' = reg.pwm /\ over' = over
    BY <1>4, <1>t DEF StorePWM, Regs
  <2> QED
    BY <2>1 DEF Guarded, Storing
<1>5. CASE setLedPWM /\ SetMode
  <2>1. /\ reg.pc = "mode" /\ reg'.pwm = reg.pwm /\ ledPWM_' = ledPWM_
        /\ reg'.pc = IF reg.pwm > 0 THEN "power" ELSE "idle"
        /\ over' = (over /\ reg.pwm > 0)
    BY <1>5, <1>t DEF SetMode, Regs
  <2> QED
    BY <2>1, <1>t DEF Guarded, Storing
<1>6. CASE setLedPWM /\ SetPower
  BY <1>6 DEF SetPower, Guarded
<1>7. CASE UNCHANGED <<lamp, reg, over>>
  BY <1>7 DEF lamp, Guarded, Storing
<1> QED
  BY <1>1, <1>2, <1>3, <1>4, <1>5, <1>6, <1>7
  DEF Next, regulate, setLedPWM, encoderCallbackFiltered, vars

(***************************************************************************)
(* A panic outside regulate's stores keeps the LED off until they come,    *)
(* and at one step at most after them.                                     *)
(***************************************************************************)
THEOREM PanicCorrect == Spec => []PanicHolds
<1>1. Init => Guarded
  BY DEF Init, Guarded
<1>2. Guarded => PanicHolds
  BY DEF Guarded, PanicHolds
<1> QED
  BY <1>1, <1>2, InitTyped, TypedStep, GuardedStep, PTL DEF Spec

-----------------------------------------------------------------------------
(***************************************************************************)
(* RegistersAgree, with what holds between the stores of a run that no     *)
(* panic has disturbed.                                                    *)
(***************************************************************************)
Agreeing ==
  /\ RegistersAgree
  /\ reg.pc = "mode" /\ ~disturbed => ledPWM_ = reg.pwm
  /\ reg.pc = "power" /\ ~disturbed => ledPWM_ = reg.pwm /\ out /\ reg.pwm > 0

(***************************************************************************)
(* Every step keeps Agreeing: a panic outside the stores clears both the   *)
(* variable and the output, one inside them sets disturbed.                *)
(***************************************************************************)
LEMMA AgreeingStep == Typed /\ Agreeing /\ [Next]_vars => Agreeing'
<1> SUFFICES ASSUME Typed, Agreeing, [Next]_vars PROVE Agreeing'
  OBVIOUS
<1>t. /\ ledPWM_ \in 0 .. Top + 1 /\ reg \in Regs /\ disturbed \in BOOLEAN /\ out \in BOOLEAN
      /\ reg.pwm \in 0 .. Top + 1
  BY DEF Typed, TypeOK, Regs, Pcs
<1>1. CASE ADC_vect
  <2>1. PICK raw \in Raws :
          /\ UNCHANGED reg
          /\ ledCurrentCallback(raw) \/ UNCHANGED <<lamp, disturbed>>
    BY <1>1 DEF ADC_vect
  <2>2. CASE UNCHANGED <<lamp, disturbed>>
    BY <2>1, <2>2 DEF Agreeing, RegistersAgree, Storing, lamp
  <2>3. CASE SwitchOff /\ disturbed' = (disturbed \/ Storing)
    <3>1. ledPWM_' = 0 /\ out' = FALSE /\ reg' = reg
      BY <2>1, <2>3 DEF SwitchOff
    <3>2. ~disturbed' => ~disturbed /\ ~Storing
      BY <2>3
    <3> QED
      BY <3>1, <3>2 DEF Agreeing, RegistersAgree, Storing
  <2> QED
    BY <2>1, <2>2, <2>3 DEF ledCurrentCallback
<1>2. CASE Read
  <2>1. UNCHANGED <<ledPWM_, out, OCR0A, disturbed>> /\ ~Storing'
    BY <1>2, <1>t DEF Read, ReadLow, ReadBand, getLEDCurrent, ReadSetPoint, lamp, Storing, Regs
  <2>2. ~Storing
    BY <1>2 DEF Read, ReadLow, ReadBand, getLEDCurrent, ReadSetPoint, Storing
  <2> QED
    BY <2>1, <2>2 DEF Agreeing, RegistersAgree, Storing
<1>3. CASE LoadPWM
  <2>1. reg'.pc = "store"
    BY <1>3, <1>t DEF LoadPWM, Regs
  <2> QED
    BY <2>1 DEF Agreeing, RegistersAgree, Storing
<1>4. CASE setLedPWM /\ StorePWM
  <2>1. reg'.pc = "mode" /\ reg'.pwm = reg.pwm /\ ledPWM_' = reg.pwm
    BY <1>4, <1>t DEF StorePWM, Regs
  <2> QED
    BY <2>1 DEF Agreeing, RegistersAgree, Storing
<1>5. CASE setLedPWM /\ SetMode
  <2>1. /\ reg.pc = "mode" /\ reg'.pwm = reg.pwm /\ ledPWM_' = ledPWM_
        /\ reg'.pc = IF reg.pwm > 0 THEN "power" ELSE "idle"
        /\ out' = (reg.pwm > 0) /\ disturbed' = disturbed
    BY <1>5, <1>t DEF SetMode, setLedPWM, Regs
  <2> QED
    BY <2>1, <1>t DEF Agreeing, RegistersAgree, Storing
<1>6. CASE setLedPWM /\ SetPower
  <2>1. /\ reg.pc = "power" /\ reg'.pc = "idle" /\ OCR0A' = reg.pwm - 1
        /\ ledPWM_' = ledPWM_ /\ out' = out /\ disturbed' = disturbed
    BY <1>6, <1>t DEF SetPower, setLedPWM, Regs
  <2> QED
    BY <2>1, <1>t DEF Agreeing, RegistersAgree, Storing
<1>7. CASE UNCHANGED <<lamp, reg, disturbed>>
  BY <1>7 DEF lamp, Agreeing, RegistersAgree, Storing
<1> QED
  BY <1>1, <1>2, <1>3, <1>4, <1>5, <1>6, <1>7
  DEF Next, regulate, setLedPWM, encoderCallbackFiltered, vars

(***************************************************************************)
(* Between two runs of regulate the timer's registers show the PWM value.  *)
(***************************************************************************)
THEOREM RegistersCorrect == Spec => []RegistersAgree
<1>1. Init => Agreeing
  BY DEF Init, Agreeing, RegistersAgree
<1>2. Agreeing => RegistersAgree
  BY DEF Agreeing
<1> QED
  BY <1>1, <1>2, InitTyped, TypedStep, AgreeingStep, PTL DEF Spec

-----------------------------------------------------------------------------
(***************************************************************************)
(* The decoder of the knob (Quadrature), for every number of edges and     *)
(* every depth of its interrupts.                                          *)
(***************************************************************************)

\* the pins when the knob stands at p, and now
AtPosition(p) == <<(start + p) % 4 \in {2, 3}, (start + p) % 4 \in {1, 2}>>
Pins == AtPosition(pos)

\* one of the two pins is high and the other low
Odd(q) == q[1] # q[2]

\* newQuad ^ lastQuad, as the set of the pins that differ
Changes(q, f) == {p \in {"A", "B"} : IF p = "A" THEN q[1] # f.newA ELSE q[2] # f.newB}

Moved == moves \in 0 .. MaxMoves /\ pos \in -moves .. moves

(***************************************************************************)
(* The account of the detent filter: four edges for every event reported,  *)
(* or on its way to the callback in some call of the stack, and those the  *)
(* index holds. The sum over the stack is a function that grows by one     *)
(* call at a time.                                                         *)
(***************************************************************************)
Reporting(f) == IF f.at = "report" THEN f.event ELSE 0
Owed(s) ==
  /\ s[0] = 0
  /\ \A i \in 1 .. Len(stack) : s[i] = s[i - 1] + Reporting(stack[i])
  /\ counted = 4 * (reported + s[Len(stack)]) + (index - 16)
FilterInv == \E s \in [0 .. Len(stack) -> Int] : Owed(s)

(***************************************************************************)
(* A decoder that has not interrupted itself: no edge waits, so what its   *)
(* call has read is what the pins show, and the parity of lastQuad is that *)
(* of the events counted, with the one on its way to the filter.           *)
(***************************************************************************)
FrameCurrent(f) ==
  /\ f.at \in {"b", "newA", "newB", "diff", "store"} => f.a = aInput
  /\ f.at \in {"newA", "newB", "diff", "store"} => f.b = bInput
  /\ f.at \in {"newB", "diff", "store"} => f.newA = aInput
  /\ f.at \in {"diff", "store"} => f.newB = bInput
  /\ f.at \in {"filter", "report"} => lastQuad = Pins
Given(f) == IF f.at = "filter" THEN f.event ELSE 0
Alone ==
  /\ stack = <<>> =>
       /\ ~pending => lastQuad = Pins
       /\ Odd(lastQuad) <=> (start + counted) % 2 = 1
  /\ stack # <<>> =>
       /\ Len(stack) = 1
       /\ ~pending => FrameCurrent(stack[1])
       /\ stack[1].at = "store" => stack[1].changed = Changes(lastQuad, stack[1])
       /\ stack[1].at = "filter" => stack[1].event # 0
       /\ Odd(lastQuad) <=> (start + counted + Given(stack[1])) % 2 = 1

(***************************************************************************)
(* A decoder whose every edge found it at rest: it is one edge behind the  *)
(* knob until the edge goes to the filter.                                 *)
(***************************************************************************)
Behind == \E d \in {-1, 1} : counted = pos - d /\ lastQuad = AtPosition(pos - d)
InTime ==
  /\ ~nested
  /\ stack = <<>> => IF pending THEN Behind ELSE counted = pos
  /\ stack # <<>> =>
       /\ ~pending
       /\ stack[1].at \notin {"filter", "report"} => Behind
       /\ stack[1].at \in {"filter", "report"} => counted + Given(stack[1]) = pos

(***************************************************************************)
(* The inductive invariant of the decoder.                                 *)
(***************************************************************************)
KnobInv ==
  /\ KnobTypeOK /\ Moved /\ FilterInv
  /\ ~nested => Alone
  /\ clean => InTime


(***************************************************************************)
(* The exclusive or of two quadrants: the pins in which they differ.       *)
(***************************************************************************)
LEMMA ChangesAre ==
  ASSUME NEW f \in Frame, NEW q \in BOOLEAN \X BOOLEAN
  PROVE  /\ Changes(q, f) \in SUBSET {"A", "B"}
         /\ Changes(q, f) = {"A"} <=> q[1] # f.newA /\ q[2] = f.newB
         /\ Changes(q, f) = {"B"} <=> q[1] = f.newA /\ q[2] # f.newB
<1>1. "A" \in Changes(q, f) <=> q[1] # f.newA
  BY DEF Changes
<1>2. "B" \in Changes(q, f) <=> q[2] # f.newB
  BY DEF Changes
<1>3. Changes(q, f) \subseteq {"A", "B"}
  BY DEF Changes
<1> QED
  BY <1>1, <1>2, <1>3

(***************************************************************************)
(* The direction the decoder derives from one changed pin, and none when   *)
(* both pins changed or neither.                                           *)
(***************************************************************************)
LEMMA DirectionIs ==
  ASSUME NEW f \in Frame, NEW q \in BOOLEAN \X BOOLEAN, f.changed = Changes(q, f)
  PROVE  /\ Direction(f) \in {-1, 0, 1}
         /\ q[1] # f.newA /\ q[2] = f.newB => Direction(f) = IF f.a # f.b THEN -1 ELSE 1
         /\ q[1] = f.newA /\ q[2] # f.newB => Direction(f) = IF f.a = f.b THEN -1 ELSE 1
         /\ (q[1] # f.newA) <=> (q[2] # f.newB) => Direction(f) = 0
<1>1. {"A"} # {"B"}
  OBVIOUS
<1> QED
  BY <1>1, ChangesAre DEF Direction

(***************************************************************************)
(* Storing a new quadrant turns the parity of the quadrant over exactly    *)
(* when an event goes to the filter: a read that finds both pins changed   *)
(* is dropped and an event is one step, whatever its direction.            *)
(***************************************************************************)
LEMMA ParityKept ==
  ASSUME NEW f \in Frame, NEW q \in BOOLEAN \X BOOLEAN, f.changed = Changes(q, f),
         NEW n \in Int, Odd(q) <=> n % 2 = 1
  PROVE  Odd(<<f.newA, f.newB>>) <=> (n + Direction(f)) % 2 = 1
<1>1. f.newA \in BOOLEAN /\ f.newB \in BOOLEAN /\ q[1] \in BOOLEAN /\ q[2] \in BOOLEAN
  BY DEF Frame
<1>2. /\ n % 2 = 1 => (n + 1) % 2 = 0 /\ (n + (-1)) % 2 = 0 /\ (n + 0) % 2 = 1
      /\ n % 2 # 1 => (n + 1) % 2 = 1 /\ (n + (-1)) % 2 = 1 /\ (n + 0) % 2 = 0
  OBVIOUS
<1>3. CASE (q[1] # f.newA) <=> (q[2] # f.newB)
  <2>1. Direction(f) = 0
    BY <1>3, DirectionIs
  <2>2. (q[1] # q[2]) <=> (f.newA # f.newB)
    BY <1>1, <1>3, Zenon
  <2> QED
    BY <2>1, <2>2, <1>2 DEF Odd
<1>4. CASE ~((q[1] # f.newA) <=> (q[2] # f.newB))
  <2>1. Direction(f) \in {-1, 1}
    BY <1>4, DirectionIs
  <2>2. ~((q[1] # q[2]) <=> (f.newA # f.newB))
    BY <1>1, <1>4, Zenon
  <2> QED
    BY <2>1, <2>2, <1>2 DEF Odd
<1> QED
  BY <1>3, <1>4

(***************************************************************************)
(* The parity of the pins is that of the position of the knob.             *)
(***************************************************************************)
LEMMA PositionParity ==
  ASSUME NEW p \in Int, start \in 0 .. 3
  PROVE  /\ AtPosition(p) \in BOOLEAN \X BOOLEAN
         /\ Odd(AtPosition(p)) <=> (start + p) % 2 = 1
<1>1. (start + p) % 4 \in 0 .. 3
  BY SMT
<1>2. (start + p) % 2 = 1 <=> (start + p) % 4 \in {1, 3}
  BY SMT
<1> DEFINE x == (start + p) % 4
<1>3. (x \in {2, 3}) # (x \in {1, 2}) <=> x \in {1, 3}
  BY <1>1
<1>4. AtPosition(p) = <<x \in {2, 3}, x \in {1, 2}>>
  BY DEF AtPosition
<1> HIDE DEF x
<1>5. AtPosition(p) \in BOOLEAN \X BOOLEAN
  <2>1. /\ (x \in {2, 3}) = TRUE \/ (x \in {2, 3}) = FALSE
        /\ (x \in {1, 2}) = TRUE \/ (x \in {1, 2}) = FALSE
    OBVIOUS
  <2>2. \A u, v : (u = TRUE \/ u = FALSE) /\ (v = TRUE \/ v = FALSE) => <<u, v>> \in BOOLEAN \X BOOLEAN
    OBVIOUS
  <2> QED
    BY <2>1, <2>2, <1>4
<1>6. Odd(AtPosition(p)) <=> x \in {1, 3}
  BY <1>3, <1>4 DEF Odd
<1> QED
  BY <1>2, <1>5, <1>6 DEF x

(***************************************************************************)
(* A knob that moved one edge, and whose pins did not move while they were *)
(* read, is counted in the direction it moved.                             *)
(***************************************************************************)
LEMMA DirectionRight ==
  ASSUME NEW f \in Frame, NEW x \in Int, NEW d \in {-1, 1}, start \in 0 .. 3,
         NEW q \in BOOLEAN \X BOOLEAN, q = AtPosition(x - d),
         <<f.a, f.b>> = AtPosition(x), <<f.newA, f.newB>> = AtPosition(x),
         f.changed = Changes(q, f)
  PROVE  Direction(f) = d
<1> DEFINE y == (start + x) % 4
           z == (start + (x - d)) % 4
<1>1. y \in 0 .. 3 /\ z \in 0 .. 3
  BY SMT
<1>2. /\ d = 1 => y = IF z = 3 THEN 0 ELSE z + 1
      /\ d = -1 => y = IF z = 0 THEN 3 ELSE z - 1
  BY SMT
<1>3. /\ q[1] = (z \in {2, 3}) /\ q[2] = (z \in {1, 2})
      /\ f.a = (y \in {2, 3}) /\ f.b = (y \in {1, 2})
      /\ f.newA = (y \in {2, 3}) /\ f.newB = (y \in {1, 2})
  BY DEF AtPosition
<1> HIDE DEF y, z
<1>4. z \in {0, 1, 2, 3}
  BY <1>1
<1> QED
  BY <1>2, <1>3, <1>4, DirectionIs

-----------------------------------------------------------------------------
(***************************************************************************)
(* The stack after an interrupt.                                           *)
(***************************************************************************)
LEMMA CallFacts ==
  ASSUME NEW S, NEW st \in Seq(S), NEW f \in S
  PROVE  /\ Append(st, f) \in Seq(S) /\ Append(st, f) # <<>>
         /\ Len(Append(st, f)) = Len(st) + 1
         /\ Append(st, f)[Len(st) + 1] = f
         /\ \A i \in 1 .. Len(st) : Append(st, f)[i] = st[i]
OBVIOUS

(***************************************************************************)
(* The stack after a return from the interrupt.                            *)
(***************************************************************************)
LEMMA ReturnFacts ==
  ASSUME NEW S, NEW st \in Seq(S), st # <<>>
  PROVE  /\ SubSeq(st, 1, Len(st) - 1) \in Seq(S)
         /\ Len(SubSeq(st, 1, Len(st) - 1)) = Len(st) - 1
         /\ Len(st) \in Nat /\ Len(st) >= 1 /\ st[Len(st)] \in S
         /\ \A i \in 1 .. Len(st) - 1 : SubSeq(st, 1, Len(st) - 1)[i] = st[i]
<1>1. PICK n \in Nat : Len(st) = n /\ DOMAIN st = 1 .. n
  OBVIOUS
<1>2. n # 0
  BY <1>1
<1>3. \A i \in 1 .. n : st[i] \in S
  BY <1>1
<1>4. SubSeq(st, 1, n - 1) = [i \in 1 .. n - 1 |-> st[i]]
  BY <1>1
<1>5. [i \in 1 .. n - 1 |-> st[i]] \in Seq(S) /\ Len([i \in 1 .. n - 1 |-> st[i]]) = n - 1
  BY <1>2, <1>3
<1> QED
  BY <1>1, <1>2, <1>3, <1>4, <1>5

(***************************************************************************)
(* The stack after a step of the innermost call.                           *)
(***************************************************************************)
LEMMA ContinueFacts ==
  ASSUME NEW S, NEW st \in Seq(S), st # <<>>, NEW f \in S
  PROVE  /\ Append(SubSeq(st, 1, Len(st) - 1), f) \in Seq(S)
         /\ Append(SubSeq(st, 1, Len(st) - 1), f) # <<>>
         /\ Len(Append(SubSeq(st, 1, Len(st) - 1), f)) = Len(st)
         /\ Append(SubSeq(st, 1, Len(st) - 1), f)[Len(st)] = f
         /\ \A i \in 1 .. Len(st) - 1 : Append(SubSeq(st, 1, Len(st) - 1), f)[i] = st[i]
<1> DEFINE r == SubSeq(st, 1, Len(st) - 1)
<1>1. /\ r \in Seq(S) /\ Len(r) = Len(st) - 1 /\ Len(st) \in Nat /\ Len(st) >= 1
      /\ \A i \in 1 .. Len(st) - 1 : r[i] = st[i]
  BY ReturnFacts
<1> HIDE DEF r
<1>2. /\ Append(r, f) \in Seq(S) /\ Append(r, f) # <<>> /\ Len(Append(r, f)) = Len(r) + 1
      /\ Append(r, f)[Len(r) + 1] = f
      /\ \A i \in 1 .. Len(r) : Append(r, f)[i] = r[i]
  BY <1>1, CallFacts
<1>3. Len(r) + 1 = Len(st) /\ 1 .. Len(r) = 1 .. Len(st) - 1
  BY <1>1
<1> QED
  BY <1>1, <1>2, <1>3 DEF r

\* the three shapes of a step of the decoder
Calls(f) ==
  /\ stack' \in Seq(Frame) /\ stack' # <<>> /\ Len(stack') = Len(stack) + 1
  /\ stack'[Len(stack) + 1] = f /\ \A i \in 1 .. Len(stack) : stack'[i] = stack[i]
Continues(f) ==
  /\ stack' \in Seq(Frame) /\ stack' # <<>> /\ Len(stack') = Len(stack)
  /\ stack'[Len(stack)] = f /\ \A i \in 1 .. Len(stack) - 1 : stack'[i] = stack[i]
Returns ==
  /\ stack' \in Seq(Frame) /\ Len(stack') = Len(stack) - 1
  /\ \A i \in 1 .. Len(stack) - 1 : stack'[i] = stack[i]

(***************************************************************************)
(* The innermost call is a frame.                                          *)
(***************************************************************************)
LEMMA TopTyped ==
  ASSUME KnobTypeOK, stack # <<>>
  PROVE  TopFrame \in Frame /\ Len(stack) \in Nat /\ Len(stack) >= 1
BY ReturnFacts DEF KnobTypeOK, TopFrame

(***************************************************************************)
(* What a read of a pin does to the stack.                                 *)
(***************************************************************************)
LEMMA ReadShape ==
  ASSUME KnobTypeOK, ReadPin
  PROVE  \E g \in Frame :
           /\ stack # <<>> /\ Continues(g) /\ g.event = TopFrame.event
           /\ \/ TopFrame.at = "a" /\ g = [TopFrame EXCEPT !.a = aInput, !.at = "b"]
              \/ TopFrame.at = "b" /\ g = [TopFrame EXCEPT !.b = bInput, !.at = "newA"]
              \/ TopFrame.at = "newA" /\ g = [TopFrame EXCEPT !.newA = aInput, !.at = "newB"]
              \/ TopFrame.at = "newB" /\ g = [TopFrame EXCEPT !.newB = bInput, !.at = "diff"]
<1>1. stack # <<>> /\ stack \in Seq(Frame)
  BY DEF ReadPin, At, KnobTypeOK
<1>2. TopFrame \in Frame
  BY <1>1, TopTyped
<1>3. PICK g : /\ Continue(g)
               /\ \/ TopFrame.at = "a" /\ g = [TopFrame EXCEPT !.a = aInput, !.at = "b"]
                  \/ TopFrame.at = "b" /\ g = [TopFrame EXCEPT !.b = bInput, !.at = "newA"]
                  \/ TopFrame.at = "newA" /\ g = [TopFrame EXCEPT !.newA = aInput, !.at = "newB"]
                  \/ TopFrame.at = "newB" /\ g = [TopFrame EXCEPT !.newB = bInput, !.at = "diff"]
  BY Zenon DEF ReadPin, At
<1>4. aInput \in BOOLEAN /\ bInput \in BOOLEAN
  BY DEF aInput, bInput
<1>5. g \in Frame /\ g.event = TopFrame.event
  BY <1>2, <1>3, <1>4 DEF Frame
<1>6. Continues(g)
  BY <1>1, <1>3, <1>5, ContinueFacts DEF Continue, Continues, Rest
<1> QED
  BY <1>1, <1>3, <1>5, <1>6

(***************************************************************************)
(* What the comparison of the quadrants does to the stack.                 *)
(***************************************************************************)
LEMMA DiffShape ==
  ASSUME KnobTypeOK, Diff
  PROVE  \E g \in Frame :
           /\ stack # <<>> /\ TopFrame.at = "diff" /\ Continues(g)
           /\ g = [TopFrame EXCEPT !.changed = Changes(lastQuad, TopFrame), !.at = "store"]
<1>1. stack # <<>> /\ stack \in Seq(Frame) /\ TopFrame.at = "diff"
  BY DEF Diff, At, KnobTypeOK
<1>2. TopFrame \in Frame
  BY <1>1, TopTyped
<1> DEFINE g == [TopFrame EXCEPT !.changed = Changes(lastQuad, TopFrame), !.at = "store"]
<1>3. Continue(g)
  BY DEF Diff, Changes
<1>4. Changes(lastQuad, TopFrame) \in SUBSET {"A", "B"}
  BY DEF Changes
<1>5. g \in Frame
  BY <1>2, <1>4 DEF Frame
<1> HIDE DEF g
<1>6. Continues(g)
  BY <1>1, <1>3, <1>5, ContinueFacts DEF Continue, Continues, Rest
<1> QED
  BY <1>1, <1>5, <1>6 DEF g

(***************************************************************************)
(* What the store of the quadrant does to the stack: the call goes on to   *)
(* the filter, or it returns.                                              *)
(***************************************************************************)
LEMMA StoreShape ==
  ASSUME KnobTypeOK, Store
  PROVE  /\ stack # <<>> /\ TopFrame.at = "store" /\ Direction(TopFrame) \in {-1, 0, 1}
         /\ Direction(TopFrame) = 0 => Returns
         /\ Direction(TopFrame) # 0 =>
              \E g \in Frame :
                /\ Continues(g)
                /\ g = [TopFrame EXCEPT !.event = Direction(TopFrame), !.at = "filter"]
<1>1. stack # <<>> /\ stack \in Seq(Frame) /\ TopFrame.at = "store"
  BY DEF Store, At, KnobTypeOK
<1>2. TopFrame \in Frame
  BY <1>1, TopTyped
<1>3. Direction(TopFrame) \in {-1, 0, 1}
  BY DEF Direction
<1> DEFINE g == [TopFrame EXCEPT !.event = Direction(TopFrame), !.at = "filter"]
<1>4. g \in Frame
  BY <1>2, <1>3 DEF Frame
<1>5. stack' = IF Direction(TopFrame) = 0 THEN Rest ELSE Append(Rest, g)
  BY DEF Store
<1>6. Direction(TopFrame) = 0 => Returns
  BY <1>1, <1>5, ReturnFacts DEF Returns, Rest
<1> HIDE DEF g
<1>7. Direction(TopFrame) # 0 => Continues(g)
  BY <1>1, <1>4, <1>5, ContinueFacts DEF Continues, Rest
<1> QED
  BY <1>1, <1>3, <1>4, <1>6, <1>7 DEF g

(***************************************************************************)
(* What the detent filter does to its index and to the stack: it reports   *)
(* and starts again from 16, which is four edges for the event, or it      *)
(* keeps the edge and returns.                                             *)
(***************************************************************************)
LEMMA FilterShape ==
  ASSUME KnobTypeOK, quadrature_decoder_detentFilterHandleEvent,
         NEW moved, moved = index + TopFrame.event
  PROVE  /\ stack # <<>> /\ TopFrame.at = "filter"
         /\ TopFrame.event \in {-1, 0, 1} /\ moved \in 12 .. 20
         /\ Event(moved) = 0 => Returns /\ index' = moved /\ moved \in 13 .. 19
         /\ Event(moved) # 0 =>
              /\ index' = 16 /\ moved - 16 = 4 * Event(moved) /\ Event(moved) \in {-1, 1}
              /\ \E g \in Frame :
                   /\ Continues(g)
                   /\ g = [TopFrame EXCEPT !.event = Event(moved), !.at = "report"]
         /\ counted' = counted + TopFrame.event
<1>1. stack # <<>> /\ stack \in Seq(Frame) /\ TopFrame.at = "filter"
  BY DEF quadrature_decoder_detentFilterHandleEvent, At, KnobTypeOK
<1>2. TopFrame \in Frame
  BY <1>1, TopTyped
<1>3. TopFrame.event \in {-1, 0, 1} /\ index \in 13 .. 19
  BY <1>2 DEF Frame, KnobTypeOK
<1>4. moved \in 12 .. 20
  BY <1>3
<1>5. /\ Event(moved) \in {-1, 0, 1}
      /\ Event(moved) = 0 => moved \in 13 .. 19
      /\ Event(moved) # 0 => moved - 16 = 4 * Event(moved)
  BY <1>4 DEF Event
<1> DEFINE g == [TopFrame EXCEPT !.event = Event(moved), !.at = "report"]
<1>6. g \in Frame
  BY <1>2, <1>5 DEF Frame
<1>7. /\ stack' = IF Event(moved) = 0 THEN Rest ELSE Append(Rest, g)
      /\ index' = IF Event(moved) = 0 THEN moved ELSE 16
      /\ counted' = counted + TopFrame.event
  BY DEF quadrature_decoder_detentFilterHandleEvent
<1>8. Event(moved) = 0 => Returns
  BY <1>1, <1>7, ReturnFacts DEF Returns, Rest
<1> HIDE DEF g
<1>9. Event(moved) # 0 => Continues(g)
  BY <1>1, <1>6, <1>7, ContinueFacts DEF Continues, Rest
<1> QED
  BY <1>1, <1>3, <1>4, <1>5, <1>6, <1>7, <1>8, <1>9 DEF g

(***************************************************************************)
(* What the callback does to the stack.                                    *)
(***************************************************************************)
LEMMA ReportShape ==
  ASSUME KnobTypeOK, Report
  PROVE  stack # <<>> /\ TopFrame.at = "report" /\ TopFrame.event \in {-1, 0, 1} /\ Returns
<1>1. stack # <<>> /\ stack \in Seq(Frame) /\ TopFrame.at = "report" /\ stack' = Rest
  BY DEF Report, At, KnobTypeOK
<1>2. TopFrame \in Frame
  BY <1>1, TopTyped
<1>3. TopFrame.event \in {-1, 0, 1}
  BY <1>2 DEF Frame
<1>4. Returns
  BY <1>1, ReturnFacts DEF Returns, Rest
<1> QED
  BY <1>1, <1>3, <1>4

(***************************************************************************)
(* What the pin change interrupt does to the stack.                        *)
(***************************************************************************)
LEMMA CallShape ==
  ASSUME KnobTypeOK, PCINT2_vect
  PROVE  EmptyFrame \in Frame /\ Calls(EmptyFrame)
<1>1. EmptyFrame \in Frame
  BY DEF EmptyFrame, Frame
<1>2. stack \in Seq(Frame) /\ stack' = Append(stack, EmptyFrame)
  BY DEF PCINT2_vect, KnobTypeOK
<1> QED
  BY <1>1, <1>2, CallFacts DEF Calls

-----------------------------------------------------------------------------
(***************************************************************************)
(* Every step keeps the types, and the knob within its moves.              *)
(***************************************************************************)
LEMMA KnobTyped ==
  ASSUME KnobTypeOK /\ Moved, [KnobNext]_knobVars
  PROVE  KnobTypeOK' /\ Moved'
<1> USE QuadratureAssumption
<1>1. CASE UNCHANGED knobVars
  BY <1>1 DEF knobVars, encoder, KnobTypeOK, Moved
<1>2. ASSUME NEW d \in {-1, 1}, Turn(d) PROVE KnobTypeOK' /\ Moved'
  BY <1>2 DEF Turn, KnobTypeOK, Moved
<1>3. CASE PCINT2_vect
  <2>1. Len(stack) \in Nat /\ Len(stack) < MaxNest
    BY <1>3 DEF PCINT2_vect, KnobTypeOK
  <2>2. stack' \in Seq(Frame) /\ Len(stack') <= MaxNest
    BY <1>3, <2>1, CallShape DEF Calls
  <2>3. nested' \in BOOLEAN /\ pending' \in BOOLEAN
    BY <1>3 DEF PCINT2_vect
  <2> QED
    BY <1>3, <2>2, <2>3 DEF PCINT2_vect, encoder, KnobTypeOK, Moved
<1>4. CASE ReadPin
  BY <1>4, ReadShape DEF ReadPin, Continues, encoder, KnobTypeOK, Moved
<1>5. CASE Diff
  BY <1>5, DiffShape DEF Diff, Continues, encoder, KnobTypeOK, Moved
<1>6. CASE Store
  <2>1. TopFrame \in Frame
    BY <1>6, StoreShape, TopTyped
  <2>2. lastQuad' \in BOOLEAN \X BOOLEAN
    BY <1>6, <2>1 DEF Store, Frame
  <2>3. stack' \in Seq(Frame) /\ Len(stack') <= MaxNest
    BY <1>6, StoreShape DEF Returns, Continues, KnobTypeOK
  <2> QED
    BY <1>6, <2>2, <2>3 DEF Store, encoder, KnobTypeOK, Moved
<1>7. CASE quadrature_decoder_detentFilterHandleEvent
  <2>1. stack' \in Seq(Frame) /\ Len(stack') <= MaxNest /\ index' \in 13 .. 19 /\ counted' \in Int
    <3> DEFINE moved == index + TopFrame.event
    <3>1. /\ TopFrame.event \in {-1, 0, 1}
          /\ Event(moved) = 0 => Returns /\ index' = moved /\ moved \in 13 .. 19
          /\ Event(moved) # 0 => index' = 16 /\ \E g \in Frame : Continues(g)
          /\ counted' = counted + TopFrame.event
      BY <1>7, FilterShape
    <3> HIDE DEF moved
    <3>2. Len(stack) \in Nat /\ Len(stack) <= MaxNest /\ counted \in Int
      BY DEF KnobTypeOK
    <3>3. stack' \in Seq(Frame) /\ Len(stack') <= MaxNest
      BY <3>1, <3>2 DEF Returns, Continues
    <3> QED
      BY <3>1, <3>2, <3>3
  <2> QED
    BY <1>7, <2>1 DEF quadrature_decoder_detentFilterHandleEvent, encoder, KnobTypeOK, Moved
<1>8. CASE Report
  BY <1>8, ReportShape DEF Report, Returns, encoder, KnobTypeOK, Moved
<1> QED
  BY <1>1, <1>2, <1>3, <1>4, <1>5, <1>6, <1>7, <1>8
  DEF KnobNext, Decoder, quadrature_decoder_handleEvent

(***************************************************************************)
(* Every step keeps the account of the filter: an event on its way to the  *)
(* callback of any call of the stack is owed, not lost.                    *)
(***************************************************************************)
LEMMA FilterKept ==
  ASSUME KnobTypeOK, FilterInv, [KnobNext]_knobVars
  PROVE  FilterInv'
<1>1. PICK s \in [0 .. Len(stack) -> Int] : Owed(s)
  BY DEF FilterInv
<1>2. PICK n \in Nat : Len(stack) = n
  BY DEF KnobTypeOK
<1>3. /\ s[0] = 0
      /\ \A i \in 1 .. n : s[i] = s[i - 1] + Reporting(stack[i])
      /\ counted = 4 * (reported + s[n]) + (index - 16)
      /\ \A i \in 0 .. n : s[i] \in Int
  BY <1>1, <1>2 DEF Owed
<1>4. index \in Int /\ counted \in Int /\ reported \in Int
  BY DEF KnobTypeOK
<1>5. ASSUME NEW m \in Nat, Len(stack') = m, NEW u \in [0 .. m -> Int], u[0] = 0,
             \A i \in 1 .. m : u[i] = u[i - 1] + Reporting(stack'[i]),
             counted' = 4 * (reported' + u[m]) + (index' - 16)
      PROVE  FilterInv'
  BY <1>5, Zenon DEF FilterInv, Owed
<1>6. CASE UNCHANGED <<stack, counted, reported, index>>
  BY <1>1, <1>6, Zenon DEF FilterInv, Owed
<1>7. ASSUME NEW g \in Frame, Continues(g), stack # <<>>, UNCHANGED <<counted, reported, index>>,
             Reporting(g) = Reporting(TopFrame)
      PROVE  FilterInv'
  <2>1. \A i \in 1 .. n : Reporting(stack'[i]) = Reporting(stack[i])
    BY <1>2, <1>7 DEF Continues, TopFrame
  <2>2. Len(stack') = n /\ s \in [0 .. n -> Int]
    BY <1>1, <1>2, <1>7 DEF Continues
  <2> QED
    BY <1>3, <1>5, <1>7, <2>1, <2>2
<1>8. ASSUME Returns, stack # <<>>,
             counted' = 4 * (reported' + s[n - 1]) + (index' - 16)
      PROVE  FilterInv'
  <2>1. n >= 1
    BY <1>2, <1>8, TopTyped
  <2> DEFINE u == [i \in 0 .. n - 1 |-> s[i]]
  <2>2. u \in [0 .. n - 1 -> Int] /\ u[0] = 0 /\ u[n - 1] = s[n - 1]
    BY <1>3, <2>1
  <2>3. Len(stack') = n - 1 /\ n - 1 \in Nat
    BY <1>2, <1>8, <2>1 DEF Returns
  <2>4. \A i \in 1 .. n - 1 : u[i] = u[i - 1] + Reporting(stack'[i])
    BY <1>2, <1>3, <1>8, <2>1 DEF Returns
  <2> HIDE DEF u
  <2> QED
    BY <1>5, <1>8, <2>2, <2>3, <2>4
<1>9. ASSUME NEW d \in {-1, 1}, Turn(d) PROVE FilterInv'
  BY <1>6, <1>9 DEF Turn
<1>10. CASE PCINT2_vect
  <2> DEFINE u == [i \in 0 .. n + 1 |-> IF i = n + 1 THEN s[n] ELSE s[i]]
  <2>1. /\ stack' \in Seq(Frame) /\ Len(stack') = n + 1 /\ stack'[n + 1] = EmptyFrame
        /\ \A i \in 1 .. n : stack'[i] = stack[i]
    BY <1>2, <1>10, CallShape DEF Calls
  <2>2. Reporting(EmptyFrame) = 0
    BY DEF Reporting, EmptyFrame
  <2>3. /\ u \in [0 .. n + 1 -> Int] /\ u[0] = 0 /\ u[n + 1] = s[n]
        /\ \A i \in 0 .. n : u[i] = s[i]
    BY <1>3
  <2> HIDE DEF u
  <2>4. ASSUME NEW i \in 1 .. n + 1 PROVE u[i] = u[i - 1] + Reporting(stack'[i])
    <3>1. CASE i = n + 1
      <4>1. u[i] = s[n] /\ u[i - 1] = s[n] /\ s[n] \in Int /\ Reporting(stack'[i]) = 0
        BY <1>3, <2>1, <2>2, <2>3, <3>1
      <4> QED
        BY <4>1
    <3>2. CASE i # n + 1
      <4>1. i \in 1 .. n /\ i \in 0 .. n /\ i - 1 \in 0 .. n
        BY <3>2
      <4> QED
        BY <1>3, <2>1, <2>3, <4>1
    <3> QED
      BY <3>1, <3>2
  <2>5. counted' = 4 * (reported' + u[n + 1]) + (index' - 16)
    BY <1>3, <1>10, <2>3 DEF PCINT2_vect
  <2>6. n + 1 \in Nat
    OBVIOUS
  <2> QED
    BY <1>5, <2>1, <2>3, <2>4, <2>5, <2>6, Zenon
<1>11. CASE ReadPin
  <2>1. PICK g \in Frame : stack # <<>> /\ Continues(g) /\ g.at # "report" /\ TopFrame.at # "report"
    <3>1. TopFrame \in Frame
      BY <1>11, TopTyped DEF ReadPin, At
    <3> QED
      BY <3>1, <1>11, ReadShape DEF Frame
  <2> QED
    BY <1>7, <1>11, <2>1 DEF Reporting, ReadPin
<1>12. CASE Diff
  <2>1. PICK g \in Frame : stack # <<>> /\ Continues(g) /\ g.at # "report" /\ TopFrame.at # "report"
    <3>1. TopFrame \in Frame
      BY <1>12, TopTyped DEF Diff, At
    <3> QED
      BY <3>1, <1>12, DiffShape DEF Frame
  <2> QED
    BY <1>7, <1>12, <2>1 DEF Reporting, Diff
<1>13. ASSUME stack # <<>>
       PROVE  /\ n >= 1 /\ s[n] = s[n - 1] + Reporting(TopFrame)
              /\ s[n - 1] \in Int /\ TopFrame \in Frame
  BY <1>2, <1>3, <1>13, TopTyped DEF TopFrame
<1>14. CASE Store
  <2>1. stack # <<>> /\ TopFrame.at = "store" /\ UNCHANGED <<counted, reported, index>>
    BY <1>14, StoreShape DEF Store
  <2>2. CASE Direction(TopFrame) = 0
    BY <1>3, <1>4, <1>8, <1>13, <1>14, <2>1, <2>2, StoreShape DEF Reporting
  <2>3. CASE Direction(TopFrame) # 0
    <3>1. PICK g \in Frame : Continues(g) /\ g.at # "report"
      BY <1>13, <1>14, <2>1, <2>3, StoreShape DEF Frame
    <3> QED
      BY <1>7, <2>1, <3>1 DEF Reporting
  <2> QED
    BY <2>2, <2>3
<1>15. CASE quadrature_decoder_detentFilterHandleEvent
  <2> DEFINE moved == index + TopFrame.event
  <2>1. /\ stack # <<>> /\ TopFrame.at = "filter"
        /\ TopFrame.event \in {-1, 0, 1} /\ moved \in 12 .. 20
        /\ Event(moved) = 0 => Returns /\ index' = moved /\ moved \in 13 .. 19
        /\ Event(moved) # 0 =>
             /\ index' = 16 /\ moved - 16 = 4 * Event(moved) /\ Event(moved) \in {-1, 1}
             /\ \E g \in Frame :
                  /\ Continues(g)
                  /\ g = [TopFrame EXCEPT !.event = Event(moved), !.at = "report"]
        /\ counted' = counted + TopFrame.event
    BY <1>15, FilterShape
  <2>2. reported' = reported
    BY <1>15 DEF quadrature_decoder_detentFilterHandleEvent
  <2>3. s[n] = s[n - 1] /\ s[n - 1] \in Int /\ n >= 1
    BY <1>13, <2>1 DEF Reporting
  <2>6. TopFrame.event \in Int /\ counted = 4 * (reported + s[n - 1]) + (index - 16)
    BY <1>3, <2>1, <2>3
  <2>4. CASE Event(moved) = 0
    <3>1. counted' = 4 * (reported' + s[n - 1]) + (index' - 16)
      <4>1. counted + TopFrame.event = 4 * (reported + s[n - 1]) + ((index + TopFrame.event) - 16)
        <5>1. PICK z \in Int, e \in Int : z = s[n - 1] /\ e = TopFrame.event
          BY <2>3, <2>6
        <5>2. counted = 4 * (reported + z) + (index - 16)
          BY <2>6, <5>1
        <5>3. counted + e = 4 * (reported + z) + ((index + e) - 16)
          BY <1>4, <5>2
        <5> QED
          BY <5>1, <5>3
      <4> QED
        BY <2>1, <2>2, <2>4, <4>1
    <3> QED
      BY <1>8, <2>1, <2>4, <3>1
  <2>5. CASE Event(moved) # 0
    <3>1. PICK g \in Frame : Continues(g) /\ Reporting(g) = Event(moved)
      BY <1>13, <2>1, <2>5 DEF Frame, Reporting
    <3> DEFINE u == [s EXCEPT ![n] = s[n - 1] + Event(moved)]
    <3>0. Event(moved) \in {-1, 1} /\ moved - 16 = 4 * Event(moved) /\ index' = 16
           /\ Event(moved) \in Int
      BY <2>1, <2>5
    <3>2. /\ u \in [0 .. n -> Int] /\ u[0] = 0 /\ u[n] = s[n - 1] + Event(moved)
          /\ \A i \in 0 .. n - 1 : u[i] = s[i]
      BY <1>1, <1>2, <1>3, <2>1, <2>3, <2>5
    <3>3. Len(stack') = n /\ stack'[n] = g /\ \A i \in 1 .. n - 1 : stack'[i] = stack[i]
      BY <1>2, <3>1 DEF Continues
    <3>4. \A i \in 1 .. n : u[i] = u[i - 1] + Reporting(stack'[i])
      <4> TAKE i \in 1 .. n
      <4>1. CASE i = n
        <5>1. n - 1 \in 0 .. n - 1
          BY <2>3
        <5>2. u[i - 1] = s[n - 1]
          BY <4>1, <5>1, <3>2
        <5> QED
          BY <4>1, <5>2, <3>1, <3>2, <3>3
      <4>2. CASE i # n
        <5>1. i \in 1 .. n - 1 /\ i \in 0 .. n - 1 /\ i - 1 \in 0 .. n - 1
          BY <4>2
        <5>2. u[i] = s[i] /\ u[i - 1] = s[i - 1] /\ stack'[i] = stack[i]
          BY <5>1, <3>2, <3>3
        <5> QED
          BY <1>3, <5>2
      <4> QED
        BY <4>1, <4>2
    <3>5. counted' = 4 * (reported' + u[n]) + (index' - 16)
      <4>1. counted + TopFrame.event = 4 * (reported + (s[n - 1] + Event(moved))) + (16 - 16)
        <5>1. PICK z \in Int, e \in Int, v \in Int :
                z = s[n - 1] /\ e = TopFrame.event /\ v = Event(moved)
          BY <2>3, <2>6, <3>0
        <5>2. counted = 4 * (reported + z) + (index - 16) /\ (index + e) - 16 = 4 * v
          BY <2>6, <3>0, <5>1 DEF moved
        <5>3. counted + e = 4 * (reported + (z + v)) + (16 - 16)
          BY <1>4, <5>2
        <5> QED
          BY <5>1, <5>3
      <4> HIDE DEF u, moved
      <4> QED
        BY <2>1, <2>2, <3>0, <3>2, <4>1
    <3> HIDE DEF u
    <3> QED
      BY <1>5, <3>2, <3>3, <3>4, <3>5
  <2> QED
    BY <2>4, <2>5
<1>16. CASE Report
  <2>1. stack # <<>> /\ TopFrame.at = "report" /\ TopFrame.event \in {-1, 0, 1} /\ Returns
    BY <1>16, ReportShape
  <2>2. reported' = reported + TopFrame.event /\ UNCHANGED <<counted, index>>
    BY <1>16 DEF Report
  <2>3. s[n] = s[n - 1] + TopFrame.event /\ s[n - 1] \in Int
    BY <1>13, <2>1 DEF Reporting
  <2>4. counted' = 4 * (reported' + s[n - 1]) + (index' - 16)
    <3>1. counted = 4 * ((reported + TopFrame.event) + s[n - 1]) + (index - 16)
      <4>1. PICK z \in Int, e \in Int : z = s[n - 1] /\ e = TopFrame.event
        BY <2>1, <2>3
      <4>2. counted = 4 * (reported + (z + e)) + (index - 16)
        BY <1>3, <2>3, <4>1
      <4>3. counted = 4 * ((reported + e) + z) + (index - 16)
        BY <1>4, <4>2
      <4> QED
        BY <4>1, <4>3
    <3> QED
      BY <2>2, <3>1
  <2> QED
    BY <1>8, <2>1, <2>4
<1> QED
  BY <1>6, <1>9, <1>10, <1>11, <1>12, <1>14, <1>15, <1>16
  DEF KnobNext, Decoder, quadrature_decoder_handleEvent, knobVars

-----------------------------------------------------------------------------
(***************************************************************************)
(* While the decoder has not interrupted itself, every step keeps what its *)
(* one call has read and the parity of the quadrant.                       *)
(***************************************************************************)
LEMMA AloneKept ==
  ASSUME KnobTypeOK, ~nested => Alone, [KnobNext]_knobVars
  PROVE  ~nested' => Alone'
<1> SUFFICES ASSUME ~nested' PROVE Alone'
  OBVIOUS
<1>1. ~nested
  BY DEF KnobNext, Decoder, quadrature_decoder_handleEvent, knobVars, Turn, PCINT2_vect,
         ReadPin, Diff, Store, quadrature_decoder_detentFilterHandleEvent, Report
<1>2. Alone
  BY <1>1
<1>3. /\ start \in 0 .. 3 /\ pos \in Int /\ counted \in Int
      /\ stack \in Seq(Frame) /\ lastQuad \in BOOLEAN \X BOOLEAN
  BY DEF KnobTypeOK
<1>4. ASSUME stack # <<>>
      PROVE  /\ Len(stack) = 1 /\ TopFrame = stack[1] /\ TopFrame \in Frame
             /\ ~pending => FrameCurrent(TopFrame)
             /\ TopFrame.at = "store" => TopFrame.changed = Changes(lastQuad, TopFrame)
             /\ TopFrame.at = "filter" => TopFrame.event # 0
             /\ Odd(lastQuad) <=> (start + counted + Given(TopFrame)) % 2 = 1
  BY <1>2, <1>4, TopTyped DEF Alone, TopFrame
<1>5. ASSUME NEW g \in Frame, stack # <<>>, Continues(g),
             ~pending' => FrameCurrent(g)',
             g.at = "store" => g.changed = Changes(lastQuad', g),
             g.at = "filter" => g.event # 0,
             Odd(lastQuad') <=> (start' + counted' + Given(g)) % 2 = 1
      PROVE  Alone'
  <2>1. stack' # <<>> /\ Len(stack') = 1 /\ stack'[1] = g
    BY <1>4, <1>5 DEF Continues
  <2> QED
    BY <1>5, <2>1 DEF Alone
<1>6. ASSUME Returns, stack # <<>>, ~pending' => lastQuad' = Pins',
             Odd(lastQuad') <=> (start' + counted') % 2 = 1
      PROVE  Alone'
  <2>1. stack' = <<>>
    BY <1>4, <1>6 DEF Returns
  <2> QED
    BY <1>6, <2>1 DEF Alone
<1>7. CASE UNCHANGED knobVars
  <2>1. Alone' <=> Alone
    BY <1>7 DEF knobVars, encoder, Alone, FrameCurrent, Pins, AtPosition, aInput, bInput
  <2> QED
    BY <1>2, <2>1
<1>8. ASSUME NEW d \in {-1, 1}, Turn(d) PROVE Alone'
  BY <1>2, <1>8 DEF Turn, Alone
<1>9. CASE PCINT2_vect
  <2>0. stack = <<>> /\ Calls(EmptyFrame)
    BY <1>9, CallShape DEF PCINT2_vect
  <2>1. stack = <<>> /\ stack' # <<>> /\ Len(stack') = 1 /\ stack'[1] = EmptyFrame
    <3>1. Len(stack) = 0
      BY <2>0
    <3> QED
      BY <2>0, <3>1 DEF Calls
  <2>2. EmptyFrame.at = "a"
    BY DEF EmptyFrame
  <2>3. FrameCurrent(EmptyFrame)' /\ Given(EmptyFrame) = 0
    BY <2>2 DEF FrameCurrent, Given
  <2>4. lastQuad' = lastQuad /\ start' = start /\ counted' = counted
    BY <1>9 DEF PCINT2_vect, encoder
  <2>5. Odd(lastQuad') <=> (start' + counted' + Given(EmptyFrame)) % 2 = 1
    BY <1>2, <1>3, <2>1, <2>3, <2>4 DEF Alone
  <2> QED
    BY <2>1, <2>2, <2>3, <2>5 DEF Alone
<1>10. CASE ReadPin
  <2>1. PICK g \in Frame :
           /\ stack # <<>> /\ Continues(g) /\ g.event = TopFrame.event
           /\ \/ TopFrame.at = "a" /\ g = [TopFrame EXCEPT !.a = aInput, !.at = "b"]
              \/ TopFrame.at = "b" /\ g = [TopFrame EXCEPT !.b = bInput, !.at = "newA"]
              \/ TopFrame.at = "newA" /\ g = [TopFrame EXCEPT !.newA = aInput, !.at = "newB"]
              \/ TopFrame.at = "newB" /\ g = [TopFrame EXCEPT !.newB = bInput, !.at = "diff"]
    BY <1>10, ReadShape
  <2>2. UNCHANGED <<start, pos, pending, lastQuad, counted>>
    BY <1>10 DEF ReadPin, encoder
  <2>3. ASSUME ~pending PROVE FrameCurrent(g)
    BY <1>4, <2>1, <2>3 DEF FrameCurrent, Frame
  <2>4. FrameCurrent(g)' <=> FrameCurrent(g)
    BY <2>2 DEF FrameCurrent, Pins, AtPosition, aInput, bInput
  <2>5. g.at \notin {"store", "filter"} /\ Given(g) = 0 /\ Given(TopFrame) = 0
    BY <1>4, <2>1 DEF Given, Frame
  <2> QED
    BY <1>4, <1>5, <2>1, <2>2, <2>3, <2>4, <2>5
<1>11. CASE Diff
  <2>1. PICK g \in Frame :
           /\ stack # <<>> /\ TopFrame.at = "diff" /\ Continues(g)
           /\ g = [TopFrame EXCEPT !.changed = Changes(lastQuad, TopFrame), !.at = "store"]
    BY <1>11, DiffShape
  <2>2. UNCHANGED <<start, pos, pending, lastQuad, counted>>
    BY <1>11 DEF Diff, encoder
  <2>3. /\ g.a = TopFrame.a /\ g.b = TopFrame.b /\ g.newA = TopFrame.newA
        /\ g.newB = TopFrame.newB /\ g.at = "store" /\ g.changed = Changes(lastQuad, TopFrame)
    BY <1>4, <2>1 DEF Frame
  <2>4. Changes(lastQuad, g) = Changes(lastQuad, TopFrame)
    BY <2>3 DEF Changes
  <2>5. ~pending => FrameCurrent(g)
    BY <1>4, <2>1, <2>3 DEF FrameCurrent
  <2>6. FrameCurrent(g)' <=> FrameCurrent(g)
    BY <2>2 DEF FrameCurrent, Pins, AtPosition, aInput, bInput
  <2>7. Given(g) = 0 /\ Given(TopFrame) = 0
    BY <2>1, <2>3 DEF Given
  <2> QED
    BY <1>4, <1>5, <2>1, <2>2, <2>3, <2>4, <2>5, <2>6, <2>7
<1>12. CASE Store
  <2>1. /\ stack # <<>> /\ TopFrame.at = "store" /\ Direction(TopFrame) \in {-1, 0, 1}
        /\ Direction(TopFrame) = 0 => Returns
        /\ Direction(TopFrame) # 0 =>
             \E g \in Frame :
               /\ Continues(g)
               /\ g = [TopFrame EXCEPT !.event = Direction(TopFrame), !.at = "filter"]
    BY <1>12, StoreShape
  <2>2. lastQuad' = <<TopFrame.newA, TopFrame.newB>> /\ UNCHANGED <<start, pos, pending, counted>>
    BY <1>12 DEF Store, encoder
  <2>3. ~pending' => lastQuad' = Pins'
    BY <1>4, <2>1, <2>2 DEF FrameCurrent, Pins, AtPosition, aInput, bInput
  <2>4. Odd(lastQuad') <=> (start + counted + Direction(TopFrame)) % 2 = 1
    <3>1. TopFrame.changed = Changes(lastQuad, TopFrame) /\ TopFrame \in Frame
      BY <1>4, <2>1
    <3>2. Odd(lastQuad) <=> (start + counted) % 2 = 1
      BY <1>3, <1>4, <2>1 DEF Given
    <3>3. start + counted \in Int
      BY <1>3
    <3> QED
      BY <1>3, <2>2, <3>1, <3>2, <3>3, ParityKept
  <2>5. CASE Direction(TopFrame) = 0
    BY <1>3, <1>6, <2>1, <2>2, <2>3, <2>4, <2>5
  <2>6. CASE Direction(TopFrame) # 0
    <3>1. PICK g \in Frame : /\ Continues(g) /\ g.at = "filter"
                             /\ g.event = Direction(TopFrame) /\ Given(g) = Direction(TopFrame)
      BY <1>4, <2>1, <2>6 DEF Given, Frame
    <3>2. ~pending' => FrameCurrent(g)'
      BY <2>3, <3>1 DEF FrameCurrent
    <3> QED
      BY <1>5, <2>1, <2>2, <2>4, <2>6, <3>1, <3>2
  <2> QED
    BY <2>5, <2>6
<1>13. CASE quadrature_decoder_detentFilterHandleEvent
  <2> DEFINE moved == index + TopFrame.event
  <2>1. /\ stack # <<>> /\ TopFrame.at = "filter" /\ TopFrame.event \in {-1, 0, 1}
        /\ Event(moved) = 0 => Returns
        /\ Event(moved) # 0 =>
              \E g \in Frame :
                   /\ Continues(g)
                   /\ g = [TopFrame EXCEPT !.event = Event(moved), !.at = "report"]
        /\ counted' = counted + TopFrame.event
    BY <1>13, FilterShape
  <2>2. UNCHANGED <<start, pos, pending, lastQuad>>
    BY <1>13 DEF quadrature_decoder_detentFilterHandleEvent, encoder
  <2>3. ~pending' => lastQuad' = Pins'
    BY <1>4, <2>1, <2>2 DEF FrameCurrent, Pins, AtPosition
  <2>4. Odd(lastQuad') <=> (start' + counted') % 2 = 1
    <3>1. start + (counted + TopFrame.event) = start + counted + TopFrame.event
      BY <1>3, <2>1
    <3> QED
      BY <1>4, <2>1, <2>2, <3>1 DEF Given
  <2>5. CASE Event(moved) = 0
    BY <1>6, <2>1, <2>3, <2>4, <2>5
  <2>6. CASE Event(moved) # 0
    <3>1. PICK g \in Frame : Continues(g) /\ g.at = "report" /\ Given(g) = 0
      BY <1>4, <2>1, <2>6 DEF Given, Frame
    <3>2. ~pending' => FrameCurrent(g)'
      BY <2>3, <3>1 DEF FrameCurrent
    <3>3. start' + counted' + 0 = start' + counted'
      BY <1>3, <2>1, <2>2
    <3> QED
      BY <1>5, <2>1, <2>4, <3>1, <3>2, <3>3
  <2> QED
    BY <2>5, <2>6
<1>14. CASE Report
  <2>1. stack # <<>> /\ TopFrame.at = "report" /\ Returns
    BY <1>14, ReportShape
  <2>2. UNCHANGED <<start, pos, pending, lastQuad, counted>>
    BY <1>14 DEF Report, encoder
  <2>3. ~pending' => lastQuad' = Pins'
    BY <1>4, <2>1, <2>2 DEF FrameCurrent, Pins, AtPosition
  <2>4. Odd(lastQuad') <=> (start' + counted') % 2 = 1
    BY <1>3, <1>4, <2>1, <2>2 DEF Given
  <2> QED
    BY <1>6, <2>1, <2>3, <2>4
<1> QED
  BY <1>7, <1>8, <1>9, <1>10, <1>11, <1>12, <1>13, <1>14
  DEF KnobNext, Decoder, quadrature_decoder_handleEvent

(***************************************************************************)
(* While every edge found the decoder at rest, every step keeps the count  *)
(* one edge behind the knob, or level with it.                             *)
(***************************************************************************)
LEMMA InTimeKept ==
  ASSUME KnobTypeOK, ~nested => Alone, clean => InTime, [KnobNext]_knobVars
  PROVE  clean' => InTime'
<1> SUFFICES ASSUME clean' PROVE InTime'
  OBVIOUS
<1>1. clean /\ (UNCHANGED clean \/ (~pending /\ stack = <<>>))
  BY DEF KnobTypeOK, KnobNext, Decoder, quadrature_decoder_handleEvent, knobVars, Turn, PCINT2_vect,
         ReadPin, Diff, Store, quadrature_decoder_detentFilterHandleEvent, Report, encoder
<1>2. InTime /\ Alone
  BY <1>1 DEF InTime
<1>3. /\ start \in 0 .. 3 /\ pos \in Int /\ counted \in Int
      /\ stack \in Seq(Frame) /\ lastQuad \in BOOLEAN \X BOOLEAN
  BY DEF KnobTypeOK
<1>4. ASSUME stack # <<>>
      PROVE  /\ Len(stack) = 1 /\ TopFrame = stack[1] /\ TopFrame \in Frame
             /\ ~nested /\ ~pending /\ FrameCurrent(TopFrame)
             /\ TopFrame.at = "store" => TopFrame.changed = Changes(lastQuad, TopFrame)
             /\ TopFrame.at \notin {"filter", "report"} => Behind
             /\ TopFrame.at \in {"filter", "report"} => counted + Given(TopFrame) = pos
  BY <1>2, <1>4, TopTyped DEF Alone, InTime, TopFrame
<1>5. ASSUME NEW g \in Frame, stack # <<>>, Continues(g), UNCHANGED <<nested, pending>>,
             g.at \notin {"filter", "report"} => Behind',
             g.at \in {"filter", "report"} => counted' + Given(g) = pos'
      PROVE  InTime'
  <2>1. stack' # <<>> /\ Len(stack') = 1 /\ stack'[1] = g
    BY <1>4, <1>5 DEF Continues
  <2> QED
    BY <1>4, <1>5, <2>1 DEF InTime
<1>6. ASSUME Returns, stack # <<>>, UNCHANGED <<nested, pending>>, counted' = pos'
      PROVE  InTime'
  <2>1. stack' = <<>>
    BY <1>4, <1>6 DEF Returns
  <2> QED
    BY <1>4, <1>6, <2>1 DEF InTime
<1>7. CASE UNCHANGED knobVars
  <2>1. InTime' <=> InTime
    BY <1>7 DEF knobVars, encoder, InTime, Behind, AtPosition
  <2> QED
    BY <1>2, <2>1
<1>8. ASSUME NEW d \in {-1, 1}, Turn(d) PROVE InTime'
  <2>1. /\ stack = <<>> /\ ~pending /\ pending' = TRUE /\ pos' = pos + d
        /\ UNCHANGED <<start, stack, lastQuad, counted, nested>>
    BY <1>8 DEF Turn
  <2>2. counted = pos /\ lastQuad = AtPosition(pos) /\ ~nested
    BY <1>2, <2>1 DEF InTime, Alone, Pins
  <2>3. pos' - d = pos /\ d \in Int
    BY <1>3, <2>1
  <2>4. (counted = pos - d /\ lastQuad = AtPosition(pos - d))'
    BY <2>1, <2>2, <2>3 DEF AtPosition
  <2>5. Behind'
    BY <2>4 DEF Behind
  <2> QED
    BY <2>1, <2>2, <2>5 DEF InTime
<1>9. CASE PCINT2_vect
  <2>0. pending /\ Calls(EmptyFrame)
    BY <1>9, CallShape DEF PCINT2_vect
  <2>1. stack = <<>> /\ ~pending' /\ ~nested' /\ UNCHANGED <<start, pos, counted, lastQuad>>
    BY <1>2, <1>4, <1>9, <2>0 DEF PCINT2_vect, InTime, encoder
  <2>2. Len(stack) = 0
    BY <2>1
  <2>3. stack' # <<>> /\ stack'[1] = EmptyFrame /\ EmptyFrame.at = "a"
    BY <2>0, <2>2 DEF Calls, EmptyFrame
  <2>4. Behind'
    BY <1>2, <2>0, <2>1 DEF InTime, Behind, AtPosition
  <2> QED
    BY <2>1, <2>3, <2>4 DEF InTime
<1>10. ASSUME UNCHANGED <<start, pos, counted, lastQuad>>, Behind PROVE Behind'
  BY <1>10 DEF Behind, AtPosition
<1>11. CASE ReadPin
  <2>1. PICK g \in Frame :
           /\ stack # <<>> /\ Continues(g) /\ g.at \notin {"filter", "report"}
           /\ TopFrame.at \notin {"filter", "report"}
    <3>1. TopFrame \in Frame
      BY <1>11, TopTyped DEF ReadPin, At
    <3> QED
      BY <3>1, <1>11, ReadShape DEF Frame
  <2> QED
    BY <1>4, <1>5, <1>10, <1>11, <2>1 DEF ReadPin, encoder
<1>12. CASE Diff
  <2>1. PICK g \in Frame :
           /\ stack # <<>> /\ Continues(g) /\ g.at \notin {"filter", "report"}
           /\ TopFrame.at \notin {"filter", "report"}
    <3>1. TopFrame \in Frame
      BY <1>12, TopTyped DEF Diff, At
    <3> QED
      BY <3>1, <1>12, DiffShape DEF Frame
  <2> QED
    BY <1>4, <1>5, <1>10, <1>12, <2>1 DEF Diff, encoder
<1>13. CASE Store
  <2>1. /\ stack # <<>> /\ TopFrame.at = "store"
        /\ Direction(TopFrame) # 0 =>
             \E g \in Frame :
               /\ Continues(g)
               /\ g = [TopFrame EXCEPT !.event = Direction(TopFrame), !.at = "filter"]
    BY <1>13, StoreShape
  <2>2. UNCHANGED <<pos, pending, counted, nested>>
    BY <1>13 DEF Store, encoder
  <2>3. PICK d \in {-1, 1} : counted = pos - d /\ lastQuad = AtPosition(pos - d)
    BY <1>4, <2>1 DEF Behind
  <2>4. /\ <<TopFrame.a, TopFrame.b>> = AtPosition(pos)
        /\ <<TopFrame.newA, TopFrame.newB>> = AtPosition(pos)
        /\ TopFrame.changed = Changes(lastQuad, TopFrame) /\ TopFrame \in Frame
    BY <1>4, <2>1 DEF FrameCurrent, AtPosition, aInput, bInput
  <2>5. Direction(TopFrame) = d
    BY <1>3, <2>3, <2>4, DirectionRight
  <2>6. PICK g \in Frame : Continues(g) /\ g.at = "filter" /\ Given(g) = d
    <3>1. PICK g \in Frame :
            Continues(g) /\ g = [TopFrame EXCEPT !.event = Direction(TopFrame), !.at = "filter"]
      BY <2>1, <2>5
    <3>2. g.at = "filter" /\ g.event = d
      BY <2>4, <2>5, <3>1 DEF Frame
    <3> QED
      BY <3>1, <3>2 DEF Given
  <2>7. counted' + Given(g) = pos'
    BY <1>3, <2>2, <2>3, <2>6
  <2> QED
    BY <1>5, <2>1, <2>2, <2>6, <2>7
<1>14. CASE quadrature_decoder_detentFilterHandleEvent
  <2> DEFINE moved == index + TopFrame.event
  <2>1. /\ stack # <<>> /\ TopFrame.at = "filter" /\ TopFrame.event \in {-1, 0, 1}
        /\ Event(moved) = 0 => Returns
        /\ Event(moved) # 0 =>
              \E g \in Frame :
                   /\ Continues(g)
                   /\ g = [TopFrame EXCEPT !.event = Event(moved), !.at = "report"]
        /\ counted' = counted + TopFrame.event
    BY <1>14, FilterShape
  <2>2. UNCHANGED <<pos, pending, nested>>
    BY <1>14 DEF quadrature_decoder_detentFilterHandleEvent, encoder
  <2>3. counted' = pos' /\ counted' \in Int
    BY <1>3, <1>4, <2>1, <2>2 DEF Given
  <2>4. CASE Event(moved) = 0
    BY <1>6, <2>1, <2>2, <2>3, <2>4
  <2>5. CASE Event(moved) # 0
    <3>1. PICK g \in Frame : Continues(g) /\ g.at = "report" /\ Given(g) = 0
      BY <1>4, <2>1, <2>5 DEF Given, Frame
    <3> QED
      BY <1>5, <2>1, <2>2, <2>3, <3>1
  <2> QED
    BY <2>4, <2>5
<1>15. CASE Report
  <2>1. stack # <<>> /\ TopFrame.at = "report" /\ Returns
    BY <1>15, ReportShape
  <2>2. UNCHANGED <<pos, pending, counted, nested>>
    BY <1>15 DEF Report, encoder
  <2>3. counted' = pos'
    BY <1>3, <1>4, <2>1, <2>2 DEF Given
  <2> QED
    BY <1>6, <2>1, <2>2, <2>3
<1> QED
  BY <1>7, <1>8, <1>9, <1>11, <1>12, <1>13, <1>14, <1>15
  DEF KnobNext, Decoder, quadrature_decoder_handleEvent

(***************************************************************************)
(* The decoder keeps its inductive invariant, for every bound on the edges *)
(* and on the depth of the interrupts.                                     *)
(***************************************************************************)
LEMMA KnobInductive == KnobSpec => []KnobInv
<1> USE QuadratureAssumption
<1>1. KnobInit => KnobInv
  <2> SUFFICES ASSUME KnobInit PROVE KnobInv
    OBVIOUS
  <2>1. KnobTypeOK /\ Moved
    <3>1. lastQuad \in BOOLEAN \X BOOLEAN
      <4>1. lastQuad = AtPosition(0) /\ start \in 0 .. 3
        BY DEF KnobInit, AtPosition, aInput, bInput
      <4> QED
        BY <4>1, PositionParity
    <3>2. stack \in Seq(Frame) /\ Len(stack) = 0 /\ 0 <= MaxNest
      BY DEF KnobInit
    <3>3. moves \in 0 .. MaxMoves /\ pos \in -moves .. moves /\ pos \in -MaxMoves .. MaxMoves
      BY DEF KnobInit
    <3>4. /\ start \in 0 .. 3 /\ index \in 13 .. 19 /\ counted \in Int /\ reported \in Int
      BY DEF KnobInit
    <3>5. pending \in BOOLEAN /\ clean \in BOOLEAN /\ nested \in BOOLEAN
      BY Zenon DEF KnobInit
    <3> QED
      BY <3>1, <3>2, <3>3, <3>4, <3>5 DEF KnobTypeOK, Moved
  <2>2. FilterInv
    <3> DEFINE s == [i \in 0 .. 0 |-> 0]
    <3>1. s \in [0 .. Len(stack) -> Int] /\ Owed(s)
      BY DEF KnobInit, Owed
    <3> QED
      BY <3>1 DEF FilterInv
  <2>3. Alone /\ InTime
    <3>1. lastQuad = AtPosition(0) /\ lastQuad = Pins
      BY DEF KnobInit, AtPosition, Pins, aInput, bInput
    <3>2. Odd(lastQuad) <=> (start + counted) % 2 = 1
      BY <3>1, PositionParity DEF KnobInit
    <3> QED
      BY <3>1, <3>2 DEF KnobInit, Alone, InTime
  <2> QED
    BY <2>1, <2>2, <2>3 DEF KnobInv
<1>2. KnobInv /\ [KnobNext]_knobVars => KnobInv'
  BY KnobTyped, FilterKept, AloneKept, InTimeKept DEF KnobInv
<1> QED
  BY <1>1, <1>2, PTL DEF KnobSpec

(***************************************************************************)
(* Type correctness of the decoder: in particular the index of the detent  *)
(* filter, an unsigned char in the code, never leaves 13 .. 19.            *)
(***************************************************************************)
THEOREM KnobTypeCorrect == KnobSpec => []KnobTypeOK
<1>1. KnobInv => KnobTypeOK
  BY DEF KnobInv
<1> QED
  BY <1>1, KnobInductive, PTL

(***************************************************************************)
(* The detent filter loses no edge and invents none, however deep the      *)
(* decoder interrupts itself (quadrature_decoder_detentFilterHandleEvent). *)
(***************************************************************************)
THEOREM DetentCorrect == KnobSpec => []DetentExact
<1>1. KnobInv => DetentExact
  <2> SUFFICES ASSUME KnobInv, stack = <<>> PROVE counted = 4 * reported + (index - 16)
    BY DEF DetentExact
  <2>1. PICK s \in [0 .. Len(stack) -> Int] : Owed(s)
    BY DEF KnobInv, FilterInv
  <2>2. Len(stack) = 0
    OBVIOUS
  <2>3. counted = 4 * (reported + 0) + (index - 16)
    BY <2>1, <2>2 DEF Owed
  <2> QED
    BY <2>3 DEF KnobInv, KnobTypeOK
<1> QED
  BY <1>1, KnobInductive, PTL

(***************************************************************************)
(* The decoder counts the position of the knob as long as every edge is    *)
(* handled before the next one comes (quadrature_decoder_handleEvent).     *)
(***************************************************************************)
THEOREM PositionCorrect == KnobSpec => []CountsPosition
<1>1. KnobInv => CountsPosition
  BY DEF KnobInv, CountsPosition, AtRest, InTime
<1> QED
  BY <1>1, KnobInductive, PTL

(***************************************************************************)
(* A decoder that does not interrupt itself is wrong only by an even       *)
(* number of edges, at whatever moment of its four reads the knob turns.   *)
(***************************************************************************)
THEOREM ErrorCorrect == KnobSpec => []EvenError
<1>1. KnobInv => EvenError
  <2> SUFFICES ASSUME KnobInv, AtRest, ~nested PROVE (counted - pos) % 2 = 0
    BY DEF EvenError
  <2>1. lastQuad = AtPosition(pos) /\ (Odd(lastQuad) <=> (start + counted) % 2 = 1)
    BY DEF KnobInv, Alone, AtRest, Pins
  <2>2. start \in 0 .. 3 /\ pos \in Int /\ counted \in Int
    BY DEF KnobInv, KnobTypeOK
  <2>3. (start + counted) % 2 = 1 <=> (start + pos) % 2 = 1
    BY <2>1, <2>2, PositionParity
  <2> QED
    BY <2>2, <2>3
<1> QED
  BY <1>1, KnobInductive, PTL
=============================================================================
