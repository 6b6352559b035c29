----------------------------- MODULE Dht11Proofs -----------------------------
(***************************************************************************)
(* Proofs about Dht11 for every number of bytes and bits and every timing. *)
(***************************************************************************)
EXTENDS Dht11, Integers, SequenceTheorems, WellFoundedInduction, TLAPS

(***************************************************************************)
(* A pulse is read as the bit it means wherever in the period of the timer *)
(* it begins: dht11_irqAnimate adds one tick too few when the counter has  *)
(* wrapped, and the margin around the threshold absorbs it.                *)
(***************************************************************************)
LEMMA PulseDecoded ==
  ASSUME start_ticks \in Ticks, NEW p \in {ShortPulse, LongPulse}
  PROVE  Elapsed((start_ticks + p) % (TicksPerMs + 1)) > Threshold <=> p = LongPulse
<1> DEFINE P == TicksPerMs + 1
           t == (start_ticks + p) % P
<1>1. /\ start_ticks \in Nat /\ p \in Nat /\ P \in Nat /\ P > 0
      /\ start_ticks < P /\ p < P /\ p > 0
  BY Dht11Assumption DEF Ticks
<1>2. t = IF start_ticks + p < P THEN start_ticks + p ELSE start_ticks + p - P
  <2>1. CASE start_ticks + p < P
    BY <1>1, <2>1
  <2>2. CASE ~(start_ticks + p < P)
    <3>1. (start_ticks + p - P) \in 0 .. P - 1
      BY <1>1, <2>2
    <3>2. start_ticks + p = (start_ticks + p - P) + P * 1
      BY <1>1
    <3> QED  BY <1>1, <2>2, <3>1, <3>2
  <2> QED  BY <2>1, <2>2
<1> HIDE DEF t, P
<1>3. Elapsed(t) \in {p, p - 1}
  <2>1. TicksPerMs = P - 1
    BY Dht11Assumption DEF P
  <2>2. CASE start_ticks + p < P
    BY <1>1, <1>2, <2>1, <2>2 DEF Elapsed
  <2>3. CASE start_ticks + p >= P
    BY <1>1, <1>2, <2>1, <2>3 DEF Elapsed
  <2> QED  BY <1>1, <2>2, <2>3
<1>4. t = (start_ticks + p) % (TicksPerMs + 1)
  BY DEF t, P
<1>5. Elapsed(t) > Threshold <=> p = LongPulse
  BY <1>1, <1>3, Dht11Assumption
<1> QED  BY <1>4, <1>5, Zenon

(***************************************************************************)
(* Every inhabited set of naturals has a least element: the induction      *)
(* principle used below.                                                   *)
(***************************************************************************)
LEMMA LeastNumber ==
  ASSUME NEW S \in SUBSET Nat, S # {}
  PROVE  \E m \in S : \A n \in S : m <= n
<1> DEFINE R == {ss \in Nat \X Nat : ss[1] < ss[2]}
<1>1. IsWellFoundedOn(R, Nat)
  BY NatLessThanWellFounded DEF OpToRel
<1> HIDE DEF R
<1>2. PICK x \in S : \A y \in S : <<y, x>> \notin R
  BY <1>1, WFMin
<1>3. \A y \in S : ~(y < x)
  BY <1>2 DEF R
<1> QED
  BY <1>3

(***************************************************************************)
(* The modulus of a byte and of its first k bits: shifting a bit into a    *)
(* value below 2^k gives one below 2^(k + 1), which a byte has room for.   *)
(***************************************************************************)
LEMMA PowerPositive == \A k \in 0 .. NBits : 2 ^ k \in Nat \ {0}
<1> DEFINE S == {k \in 0 .. NBits : 2 ^ k \notin Nat \ {0}}
<1> SUFFICES ASSUME S # {} PROVE FALSE
  OBVIOUS
<1>1. S \in SUBSET Nat
  OBVIOUS
<1>2. PICK m \in S : \A n \in S : m <= n
  BY <1>1, LeastNumber
<1>3. m # 0
  <2>1. 2 ^ 0 \in Nat \ {0}
    BY PowersOfTwo
  <2>2. 0 \notin S
    BY <2>1
  <2> QED
    BY <2>2
<1>4. PICK k \in 0 .. NBits - 1 : m = k + 1 /\ k \in 0 .. NBits
  BY <1>3, Dht11Assumption
<1>5. k \notin S
  BY <1>2, <1>4
<1>6. 2 ^ k \in Nat \ {0} /\ 2 ^ m = 2 * 2 ^ k
  BY <1>4, <1>5, PowersOfTwo
<1> QED
  BY <1>6

(***************************************************************************)
(* No value of fewer bits needs more room than a byte.                     *)
(***************************************************************************)
LEMMA PowerFits == \A k \in 0 .. NBits : 2 ^ k <= 2 ^ NBits
<1> DEFINE S == {j \in 0 .. NBits : ~(2 ^ (NBits - j) <= 2 ^ NBits)}
<1>1. ASSUME S # {} PROVE FALSE
  <2>1. S \in SUBSET Nat
    OBVIOUS
  <2>2. PICK m \in S : \A n \in S : m <= n
    BY <1>1, <2>1, LeastNumber
  <2>3. 2 ^ NBits \in Nat
    BY PowerPositive, Dht11Assumption
  <2>4. m # 0
    <3>1. NBits - 0 = NBits
      BY Dht11Assumption
    <3> QED
      BY <2>2, <2>3, <3>1
  <2>5. m - 1 \in 0 .. NBits /\ m - 1 \notin S
    BY <2>2, <2>4, Dht11Assumption
  <2>6. PICK k \in 0 .. NBits - 1 : k = NBits - m /\ NBits - (m - 1) = k + 1
    BY <2>4, Dht11Assumption
  <2>7. 2 ^ (k + 1) <= 2 ^ NBits
    BY <2>5, <2>6
  <2>8. 2 ^ (k + 1) = 2 * 2 ^ k /\ 2 ^ k \in Nat
    BY PowersOfTwo, PowerPositive, Dht11Assumption
  <2>9. 2 ^ k <= 2 ^ NBits
    BY <2>3, <2>7, <2>8
  <2> QED
    BY <2>6, <2>9
<1>2. S = {}
  BY <1>1
<1> SUFFICES ASSUME NEW k \in 0 .. NBits PROVE 2 ^ k <= 2 ^ NBits
  OBVIOUS
<1>3. PICK j \in 0 .. NBits : NBits - j = k
  BY Dht11Assumption
<1> QED
  BY <1>2, <1>3

(***************************************************************************)
(* The remainder is within its modulus.                                    *)
(***************************************************************************)
LEMMA ModRange == \A a \in Nat, m \in Nat \ {0} : a % m \in 0 .. m - 1
OBVIOUS

(***************************************************************************)
(* The inductive invariant.  Between the start of a conversion and the end *)
(* of sendStartDone an interrupt finds a state it is not expected in and   *)
(* cannot touch the data, so that the reception begins at byte 0; while    *)
(* bits are expected there is room for them; and a ready reading is only   *)
(* seen when nothing is under way.                                         *)
(***************************************************************************)
Starting == pc # "idle" \/ callback

Control ==
  /\ callback => pc = "idle"
  /\ Starting => state \in Unexpected
  /\ Starting /\ pc # "init_data" => rxByte = 0
  /\ state \in Expecting => rxByte < NBytes
  /\ data_ready => ~callback /\ pc \in {"idle", "init_data"}
  /\ data_ready /\ pc = "idle" => state = "IDLE" /\ ~irq.mask

IInv == TypeOK /\ Control

(***************************************************************************)
(* dht11_init establishes the invariant.                                   *)
(***************************************************************************)
LEMMA InitIInv == Init => IInv
<1> SUFFICES ASSUME Init PROVE IInv
  OBVIOUS
<1>1. NoData \in [0 .. NBytes - 1 -> 0 .. 2 ^ NBits - 1]
  BY Dht11Assumption, PowerPositive DEF NoData
<1>2. Over \in Nat /\ 0 \in Ticks
  BY Dht11Assumption DEF Over, Bits, Ticks
<1>3. sent \in Seq({0, 1})
  BY EmptySeq DEF Init
<1>4. Control
  BY DEF Init, Control, Starting, Unexpected, Expecting
<1>5. 0 \in 0 .. NBytes /\ NBits \in 1 .. NBits /\ Over \in 0 .. Over
  BY <1>2, Dht11Assumption
<1>6. state = "WAITING_FOR_BIT_END" => rxByte < NBytes
  BY <1>4 DEF Control, Expecting
<1>7. TypeOK
  BY <1>1, <1>2, <1>3, <1>5, <1>6, Zenon DEF Init, TypeOK, Unexpected
<1> QED  BY <1>4, <1>7 DEF IInv

(***************************************************************************)
(* Types, one group of variables at a time.                                *)
(***************************************************************************)
Irq == [mask : BOOLEAN, sense : {"low", "rising", "falling"}, flag : BOOLEAN]

(***************************************************************************)
(* The registers of the external interrupt keep their type.                *)
(***************************************************************************)
LEMMA IrqType == TypeOK /\ [Next]_vars => irq' \in Irq
<1> SUFFICES ASSUME irq \in Irq, [Next]_vars PROVE irq' \in Irq
  BY DEF TypeOK, Irq
<1> USE DEF Irq
<1>1. CASE dht11_init
  BY <1>1 DEF dht11_init, disable_external_interrupt_input
<1>2. CASE dht11_startConversion
  BY <1>2 DEF dht11_startConversion, StartConversion, StartInitData, PullLow,
              RegisterStartDone, Sees
<1>3. CASE dht11_sendStartDone
  BY <1>3 DEF dht11_sendStartDone, Release, EnableFalling, WaitForAck,
              enable_external_interrupt_input
<1>4. CASE dht11_irqAnimate
  <2>1. \/ \E e \in {"rising", "falling"} : irq' = [mask |-> TRUE, sense |-> e, flag |-> FALSE]
        \/ irq' = [irq EXCEPT !.flag = FALSE]
        \/ irq' = [irq EXCEPT !.mask = FALSE, !.flag = FALSE]
    BY <1>4, Zenon DEF dht11_irqAnimate, IrqUnexpected, IrqAck, IrqIdle, IrqBitSync, IrqBitEnd
  <2>2. \A e \in {"rising", "falling"} : [mask |-> TRUE, sense |-> e, flag |-> FALSE] \in Irq
    OBVIOUS
  <2>3. [irq EXCEPT !.flag = FALSE] \in Irq
    OBVIOUS
  <2>4. [irq EXCEPT !.mask = FALSE, !.flag = FALSE] \in Irq
    OBVIOUS
  <2> HIDE DEF Irq
  <2> QED  BY <2>1, <2>2, <2>3, <2>4
<1>5. CASE PullUp \/ SensorFalls \/ SensorRises \/ SensorGivesUp
  <2>1. irq' = irq \/ irq' = Sees("rising") \/ irq' = Sees("falling")
    BY <1>5, Zenon DEF PullUp, SensorFalls, SensorRises, SensorGivesUp
  <2> QED  BY <2>1 DEF Sees
<1>6. CASE UNCHANGED vars
  BY <1>6 DEF vars
<1> QED  BY <1>1, <1>2, <1>3, <1>4, <1>5, <1>6 DEF Next

(***************************************************************************)
(* What a step does to the fields of the struct.                           *)
(***************************************************************************)
LEMMA ShiftedType ==
  ASSUME TypeOK, rxByte < NBytes
  PROVE  Shifted \in 0 .. 2 ^ NBits - 1
<1> DEFINE bit == IF Elapsed(tcnt) > Threshold THEN 1 ELSE 0
           M == 2 ^ NBits
<1>1. data[rxByte] \in Nat /\ bit \in Nat /\ M \in Nat \ {0}
  BY Dht11Assumption, PowerPositive DEF TypeOK
<1>2. Shifted = (2 * data[rxByte] + bit) % M
  BY DEF Shifted
<1> HIDE DEF bit, M
<1>3. 2 * data[rxByte] + bit \in Nat
  BY <1>1
<1>4. Shifted \in 0 .. M - 1
  BY <1>1, <1>2, <1>3, ModRange, Zenon
<1> QED  BY <1>4, Zenon DEF M

Struct ==
  /\ state \in Unexpected \cup Expecting
  /\ rxByte \in 0 .. NBytes /\ rxBit \in 1 .. NBits
  /\ data \in [0 .. NBytes - 1 -> 0 .. 2 ^ NBits - 1]
  /\ data_ready \in BOOLEAN /\ start_ticks \in Ticks

(***************************************************************************)
(* The dht11 struct keeps its type; Control keeps rxByte within the array. *)
(***************************************************************************)
LEMMA StructType == TypeOK /\ Control /\ [Next]_vars => Struct'
<1> SUFFICES ASSUME TypeOK, Control, [Next]_vars PROVE Struct'
  OBVIOUS
<1>1. Struct /\ tcnt \in Ticks
  BY DEF TypeOK, Struct
<1>2. CASE dht11_init \/ StartInitData
  <2>1. /\ rxByte' = 0 /\ rxBit' = NBits /\ data' = NoData /\ data_ready' = FALSE
        /\ start_ticks' = start_ticks /\ state' \in {state, "INIT"}
    BY <1>2, Zenon DEF dht11_init, StartInitData, dht11_init_data
  <2>2. NoData \in [0 .. NBytes - 1 -> 0 .. 2 ^ NBits - 1]
    BY Dht11Assumption, PowerPositive DEF NoData
  <2>3. 0 \in 0 .. NBytes /\ NBits \in 1 .. NBits
    BY Dht11Assumption
  <2> QED  BY <1>1, <2>1, <2>2, <2>3, Zenon DEF Struct, Unexpected
<1>3. CASE dht11_irqAnimate /\ IrqBitEnd
  <2>1. rxByte < NBytes
    BY <1>3 DEF IrqBitEnd, Control, Expecting
  <2>2. data' = [data EXCEPT ![rxByte] = Shifted] /\ start_ticks' = start_ticks
    BY <1>3 DEF IrqBitEnd
  <2>3. data' \in [0 .. NBytes - 1 -> 0 .. 2 ^ NBits - 1]
    BY <1>1, <2>1, <2>2, ShiftedType DEF Struct
  <2>4. /\ rxBit' = IF rxBit = 1 THEN NBits ELSE rxBit - 1
        /\ rxByte' = IF rxBit = 1 THEN rxByte + 1 ELSE rxByte
    BY <1>3 DEF IrqBitEnd
  <2>5. rxBit' \in 1 .. NBits /\ rxByte' \in 0 .. NBytes
    BY <1>1, <2>1, <2>4, Dht11Assumption DEF Struct
  <2>6. state' \in {"WAITING_FOR_BIT_SYNC", "IDLE"} /\ data_ready' \in {data_ready, TRUE}
    BY <1>3, Zenon DEF IrqBitEnd
  <2> QED  BY <1>1, <2>2, <2>3, <2>5, <2>6 DEF Struct, Unexpected, Expecting
<1>4. CASE dht11_irqAnimate /\ ~IrqBitEnd
  BY <1>1, <1>4 DEF dht11_irqAnimate, IrqUnexpected, IrqAck, IrqIdle, IrqBitSync, Struct,
                    Unexpected, Expecting
<1>5. CASE StartConversion \/ WaitForAck
  BY <1>1, <1>5 DEF StartConversion, WaitForAck, Struct, Unexpected, Expecting
<1>6. CASE UNCHANGED dht11
  BY <1>1, <1>6 DEF dht11, Struct
<1>7. \/ dht11_init \/ StartInitData \/ dht11_irqAnimate \/ StartConversion \/ WaitForAck
      \/ UNCHANGED dht11
  BY Zenon DEF Next, dht11_startConversion, dht11_sendStartDone, PullLow, RegisterStartDone,
     Release, EnableFalling, PullUp, SensorFalls, SensorRises, SensorGivesUp, vars
<1> QED  BY <1>2, <1>3, <1>4, <1>5, <1>6, <1>7, Zenon

ProgramAndWire ==
  /\ pc \in {"idle", "init_data", "pull_low", "register", "enable", "wait_ack"}
  /\ callback \in BOOLEAN
  /\ host \in BOOLEAN /\ line \in {0, 1} /\ edge \in 0 .. Over /\ tcnt \in Ticks
  /\ sent \in Seq({0, 1}) /\ missed \in BOOLEAN

(***************************************************************************)
(* The program's place, the callback and the wire keep their type.         *)
(***************************************************************************)
LEMMA ProgramAndWireType == TypeOK /\ [Next]_vars => ProgramAndWire'
<1> SUFFICES ASSUME ProgramAndWire, [Next]_vars PROVE ProgramAndWire'
  BY DEF TypeOK, ProgramAndWire
<1>d. Over \in Nat /\ 0 \in 0 .. Over /\ Over \in 0 .. Over
  BY Dht11Assumption DEF Over, Bits
<1>1. CASE dht11_init \/ dht11_irqAnimate \/ UNCHANGED vars
  BY <1>1 DEF dht11_init, dht11_irqAnimate, vars, program, wire, ProgramAndWire
<1>2. CASE StartConversion \/ StartInitData \/ PullLow \/ RegisterStartDone
  <2>1. sent' \in {sent, <<>>}
    BY <1>2 DEF StartConversion, StartInitData, PullLow, RegisterStartDone, wire
  <2>2. sent' \in Seq({0, 1})
    BY <2>1, EmptySeq DEF ProgramAndWire
  <2> QED  BY <1>2, <2>2 DEF StartConversion, StartInitData, PullLow, RegisterStartDone, wire,
                             ProgramAndWire
<1>3. CASE Release \/ EnableFalling \/ WaitForAck
  BY <1>3, <1>d, Zenon DEF Release, EnableFalling, WaitForAck, wire, ProgramAndWire
<1>4. CASE SensorFalls
  <2>1. \A p \in {ShortPulse, LongPulse} : (tcnt + p) % (TicksPerMs + 1) \in Ticks
    BY Dht11Assumption DEF Ticks, ProgramAndWire
  <2>2. \/ UNCHANGED <<tcnt, sent>>
        \/ \E p \in {ShortPulse, LongPulse}, b \in {0, 1} :
             tcnt' = (tcnt + p) % (TicksPerMs + 1) /\ sent' = Append(sent, b)
    BY <1>4, Zenon DEF SensorFalls
  <2>3. \A b \in {0, 1} : Append(sent, b) \in Seq({0, 1})
    BY AppendProperties DEF ProgramAndWire
  <2>4. tcnt' \in Ticks /\ sent' \in Seq({0, 1})
    BY <2>1, <2>2, <2>3, Zenon DEF ProgramAndWire
  <2>5. edge' \in 0 .. Over
    BY <1>4, <1>d DEF SensorFalls, ProgramAndWire
  <2>6. missed' \in BOOLEAN /\ line' \in {0, 1} /\ UNCHANGED <<pc, callback, host>>
    BY <1>4, Zenon DEF SensorFalls, program
  <2> QED  BY <2>4, <2>5, <2>6 DEF ProgramAndWire
<1>5. CASE PullUp \/ SensorGivesUp
  BY <1>5, <1>d, Zenon DEF PullUp, SensorGivesUp, program, ProgramAndWire
<1>6. CASE SensorRises
  <2>1. edge' \in 0 .. Over
    BY <1>6, <1>d DEF SensorRises, ProgramAndWire
  <2> QED  BY <1>6, <2>1, Zenon DEF SensorRises, program, ProgramAndWire
<1> QED
  BY <1>1, <1>2, <1>3, <1>4, <1>5, <1>6, Zenon DEF Next, dht11_startConversion, dht11_sendStartDone

(***************************************************************************)
(* Control, action by action.                                              *)
(***************************************************************************)
LEMMA ControlStep == TypeOK /\ Control /\ [Next]_vars => Control'
<1> SUFFICES ASSUME TypeOK, Control, [Next]_vars PROVE Control'
  OBVIOUS
<1>t. /\ irq \in Irq /\ NBytes \in Nat \ {0} /\ rxByte \in 0 .. NBytes
      /\ callback \in BOOLEAN /\ data_ready \in BOOLEAN
  BY Dht11Assumption DEF TypeOK, Irq
<1> USE <1>t DEF Control, Starting, Unexpected, Expecting
<1>1. CASE dht11_init
  BY <1>1 DEF dht11_init, dht11_init_data, program
<1>2. CASE StartConversion
  BY <1>2 DEF StartConversion
<1>3. CASE StartInitData
  BY <1>3 DEF StartInitData, dht11_init_data
<1>4. CASE PullLow
  BY <1>4 DEF PullLow, dht11
<1>5. CASE RegisterStartDone
  BY <1>5 DEF RegisterStartDone, dht11
<1>6. CASE Release
  BY <1>6 DEF Release, dht11
<1>7. CASE EnableFalling
  BY <1>7 DEF EnableFalling, dht11
<1>8. CASE WaitForAck
  BY <1>8 DEF WaitForAck
<1>9. CASE dht11_irqAnimate /\ IrqBitEnd
  <2>1. \/ /\ rxByte' < NBytes /\ state' = "WAITING_FOR_BIT_SYNC" /\ data_ready' = data_ready
        \/ /\ rxByte' >= NBytes /\ state' = "IDLE" /\ data_ready' = TRUE
           /\ irq' = [irq EXCEPT !.mask = FALSE, !.flag = FALSE]
    BY <1>9, Zenon DEF IrqBitEnd
  <2>2. UNCHANGED <<pc, callback>> /\ state = "WAITING_FOR_BIT_END"
    BY <1>9 DEF dht11_irqAnimate, IrqBitEnd, program
  <2>3. pc = "idle" /\ callback = FALSE /\ data_ready = FALSE
    BY <2>2
  <2>4. irq' = [irq EXCEPT !.mask = FALSE, !.flag = FALSE] => irq'.mask = FALSE
    BY DEF Irq
  <2>5. data_ready' => state' = "IDLE" /\ ~irq'.mask
    BY <2>1, <2>3, <2>4
  <2>6. state' \in Expecting => rxByte' < NBytes
    BY <2>1
  <2> QED  BY <2>2, <2>3, <2>5, <2>6
<1>10. CASE dht11_irqAnimate /\ ~IrqBitEnd
  BY <1>10 DEF dht11_irqAnimate, IrqUnexpected, IrqAck, IrqIdle, IrqBitSync, program
<1>11. CASE PullUp \/ SensorFalls \/ SensorRises \/ SensorGivesUp
  <2>1. irq' = irq \/ irq' = Sees("rising") \/ irq' = Sees("falling")
    BY <1>11, Zenon DEF PullUp, SensorFalls, SensorRises, SensorGivesUp
  <2>2. irq'.mask = irq.mask
    BY <2>1 DEF Sees, Irq
  <2>3. UNCHANGED <<dht11, program>>
    BY <1>11, Zenon DEF PullUp, SensorFalls, SensorRises, SensorGivesUp
  <2> QED  BY <2>2, <2>3 DEF dht11, program
<1>12. CASE UNCHANGED vars
  BY <1>12 DEF vars, dht11, program
<1> QED
  BY <1>1, <1>2, <1>3, <1>4, <1>5, <1>6, <1>7, <1>8, <1>9, <1>10, <1>11, <1>12, Zenon
     DEF Next, dht11_startConversion, dht11_sendStartDone

(***************************************************************************)
(* Every step of the reader, the program and the sensor keeps the invariant. *)
(***************************************************************************)
LEMMA NextIInv == IInv /\ [Next]_vars => IInv'
<1> SUFFICES ASSUME TypeOK, Control, [Next]_vars PROVE TypeOK' /\ Control'
  BY DEF IInv
<1>1. irq' \in Irq /\ Struct' /\ ProgramAndWire'
  BY IrqType, StructType, ProgramAndWireType, Zenon
<1>2. Control'
  BY ControlStep, Zenon
<1>3. (state = "WAITING_FOR_BIT_END" => rxByte < NBytes)'
  BY <1>2 DEF Control, Expecting
<1>4. TypeOK'
  BY <1>1, <1>3, Zenon DEF TypeOK, Irq, Struct, ProgramAndWire
<1> QED  BY <1>2, <1>4

(***************************************************************************)
(* The state of the reader keeps its type.                                 *)
(***************************************************************************)
THEOREM TypeCorrect == Spec => []TypeOK
<1>1. IInv => TypeOK
  BY DEF IInv
<1> QED  BY InitIInv, NextIInv, <1>1, PTL DEF Spec

(***************************************************************************)
(* A ready reading is left alone until the next conversion begins.         *)
(***************************************************************************)
THEOREM ReadyIsQuietCorrect == Spec => []ReadyIsQuiet
<1>1. IInv => ReadyIsQuiet
  BY DEF IInv, Control, ReadyIsQuiet
<1> QED  BY InitIInv, NextIInv, <1>1, PTL DEF Spec
-----------------------------------------------------------------------------
(***************************************************************************)
(* The inductive invariant of DataFaithful.  Got is the number of bits     *)
(* read.  Agrees says that they are bits of this answer: v holds the value *)
(* of every byte after each of its bits.                                   *)
(***************************************************************************)
Got == rxByte * NBits + (NBits - rxBit)

Values == [0 .. NBytes - 1 -> [0 .. NBits -> 0 .. 2 ^ NBits - 1]]

Spells(v) ==
  \A b \in 0 .. NBytes - 1 :
    /\ v[b][0] = 0
    /\ \A k \in 0 .. NBits : v[b][k] < 2 ^ k
    /\ \A k \in 1 .. NBits :
         b * NBits + k <= Len(sent) => v[b][k] = 2 * v[b][k - 1] + sent[b * NBits + k]

Holds(v) ==
  \A b \in 0 .. NBytes - 1 :
    data[b] = IF b < rxByte THEN v[b][NBits]
              ELSE IF b = rxByte THEN v[b][NBits - rxBit] ELSE 0

Agrees == \E v \in Values : Spells(v) /\ Holds(v)

(***************************************************************************)
(* How far the sensor is, and the level it has left the wire at.           *)
(***************************************************************************)
Position ==
  /\ Len(sent) <= Bits
  /\ edge < Over =>
       /\ ~host
       /\ \/ Len(sent) = 0 /\ edge <= 4
          \/ Len(sent) >= 1 /\ edge \in {2 * Len(sent) + 3, 2 * Len(sent) + 4}
       /\ edge > 0 => (line = 1 <=> edge % 2 = 0)

(***************************************************************************)
(* A conversion begins with nothing read, nothing sent and, when the       *)
(* acknowledge is awaited, the interrupt on for the falling edge.          *)
(***************************************************************************)
AwaitsFall == {"WAITING_FOR_ACK", "WAITING_FOR_BIT_END"}

Prepared ==
  /\ pc \in {"init_data", "pull_low", "register"} \/ callback => edge = Over
  /\ pc \in {"pull_low", "register"} \/ callback => sent = <<>>
  /\ Starting /\ pc # "init_data" => rxBit = NBits /\ data = NoData
  /\ pc = "wait_ack" => irq.mask /\ irq.sense = "falling"
  /\ state \in Expecting =>
       irq.mask /\ irq.sense = IF state \in AwaitsFall THEN "falling" ELSE "rising"

(***************************************************************************)
(* A reader that was in time for the acknowledge is in step with the       *)
(* sensor, edge by edge, and holds what was sent.  One that was not, or    *)
(* whose sensor gave up, is behind by at least one bit for the rest of the *)
(* answer and never completes it.                                          *)
(***************************************************************************)
InStep ==
  /\ Agrees
  /\ \/ state = "WAITING_FOR_ACK" /\ Got = 0 /\ Served /\ edge = 0
     \/ state = "WAITING_FOR_ACK" /\ Got = 0 /\ ~Served /\ edge = 1
     \/ state = "GOT_ACK_WAIT_IDLE" /\ Got = 0 /\ Served /\ edge = 1
     \/ state = "GOT_ACK_WAIT_IDLE" /\ Got = 0 /\ ~Served /\ edge = 2
     \/ state = "WAITING_FOR_BIT_SYNC" /\ Served /\ (edge = 2 * Got + 3 \/ (Got = 0 /\ edge = 2))
     \/ state = "WAITING_FOR_BIT_SYNC" /\ ~Served /\ edge = 2 * Got + 4
     \/ state = "WAITING_FOR_BIT_END" /\ Served /\ edge = 2 * Got + 4 /\ start_ticks = tcnt
     \/ /\ state = "WAITING_FOR_BIT_END" /\ ~Served /\ edge \in {2 * Got + 5, Over}
        /\ Len(sent) = Got + 1
        /\ (Elapsed(tcnt) > Threshold) = (sent[Got + 1] = 1)

Behind ==
  \/ state = "WAITING_FOR_ACK" /\ Got = 0 /\ Served /\ edge >= 1
  \/ state = "WAITING_FOR_ACK" /\ Got = 0 /\ ~Served /\ edge >= 3
  \/ state = "GOT_ACK_WAIT_IDLE" /\ Got = 0 /\ Served /\ edge >= 3
  \/ state = "GOT_ACK_WAIT_IDLE" /\ Got = 0 /\ ~Served /\ edge >= 4
  \/ state = "WAITING_FOR_BIT_SYNC" /\ Served /\ edge >= 2 * Got + 4
  \/ state = "WAITING_FOR_BIT_SYNC" /\ ~Served /\ edge >= 2 * Got + 6
  \/ state = "WAITING_FOR_BIT_END" /\ Served /\ edge >= 2 * Got + 6
  \/ /\ state = "WAITING_FOR_BIT_END" /\ ~Served /\ edge \in {2 * Len(sent) + 3, Over}
     /\ Len(sent) >= Got + 2

Complete == Agrees /\ Len(sent) = Bits /\ rxByte = NBytes

Reader ==
  /\ state \in Expecting => InStep \/ Behind
  /\ data_ready => Complete

DataInv ==
  /\ IInv
  /\ Position
  /\ Prepared
  /\ Reader

-----------------------------------------------------------------------------
(***************************************************************************)
(* The bits of a byte come before those of a later byte.                   *)
(***************************************************************************)
LEMMA Offsets == \A b, c \in Nat : b < c => b * NBits + NBits <= c * NBits
<1> SUFFICES ASSUME NEW b \in Nat, NEW c \in Nat, b < c
             PROVE  b * NBits + NBits <= c * NBits
  OBVIOUS
<1>1. PICK d \in Nat : c = b + 1 + d
  <2>1. c - b - 1 \in Nat /\ c = b + 1 + (c - b - 1)
    OBVIOUS
  <2> QED
    BY <2>1
<1>2. c * NBits = b * NBits + NBits + d * NBits
  BY <1>1, Dht11Assumption
<1>3. d * NBits \in Nat /\ b * NBits \in Nat
  BY Dht11Assumption
<1> QED
  BY <1>2, <1>3, Dht11Assumption

(***************************************************************************)
(* How many bits are read while there is room for more.                    *)
(***************************************************************************)
LEMMA GotRange ==
  ASSUME TypeOK
  PROVE  /\ Bits \in Nat /\ Bits >= 1 /\ Over = 2 * Bits + 4
         /\ Got \in Nat
         /\ rxByte < NBytes => Got < Bits
<1>1. NBytes \in Nat \ {0} /\ NBits \in Nat \ {0} /\ rxByte \in Nat /\ rxBit \in 1 .. NBits
  BY Dht11Assumption DEF TypeOK
<1>2. NBytes * NBits \in Nat /\ rxByte * NBits \in Nat
  BY <1>1
<1>3. 0 * NBits + NBits <= NBytes * NBits
  BY <1>1, Offsets
<1>4. rxByte < NBytes => rxByte * NBits + NBits <= NBytes * NBits
  BY <1>1, Offsets
<1> QED
  BY <1>1, <1>2, <1>3, <1>4 DEF Bits, Over, Got

(***************************************************************************)
(* A conversion begins in agreement with an answer of no bits.             *)
(***************************************************************************)
LEMMA AgreesFresh ==
  ASSUME data' = NoData, rxByte' = 0, rxBit' = NBits, sent' = <<>>
  PROVE  Agrees'
<1> DEFINE v == [b \in 0 .. NBytes - 1 |-> [k \in 0 .. NBits |-> 0]]
<1>1. \A k \in 0 .. NBits : 0 < 2 ^ k
  BY PowerPositive
<1>2. v \in Values
  BY PowerPositive, Dht11Assumption DEF Values
<1>3. ASSUME NEW b \in 0 .. NBytes - 1, NEW k \in 1 .. NBits
      PROVE  ~(b * NBits + k <= 0)
  <2>1. b * NBits \in Nat
    BY Dht11Assumption
  <2> QED
    BY <2>1
<1>4. Spells(v)'
  <2>1. Len(sent') = 0
    OBVIOUS
  <2> QED
    BY <1>1, <1>3, <2>1, Dht11Assumption DEF Spells
<1>5. Holds(v)'
  BY Dht11Assumption DEF Holds, NoData
<1> QED
  BY <1>2, <1>4, <1>5 DEF Agrees

(***************************************************************************)
(* Agreement does not depend on anything but the bits sent and read.       *)
(***************************************************************************)
LEMMA AgreesKept ==
  ASSUME Agrees, UNCHANGED <<data, rxByte, rxBit, sent>>
  PROVE  Agrees'
  BY DEF Agrees, Spells, Holds

(***************************************************************************)
(* The next bit the sensor sends extends the value of the byte under way,  *)
(* and what has been read stays in agreement.                              *)
(***************************************************************************)
LEMMA AgreesSent ==
  ASSUME TypeOK, Agrees, rxByte < NBytes, Len(sent) = Got,
         NEW x \in {0, 1}, sent' = Append(sent, x), UNCHANGED <<data, rxByte, rxBit>>
  PROVE  Agrees'
<1>1. PICK v \in Values : Spells(v) /\ Holds(v)
  BY DEF Agrees
<1>2. PICK B \in 0 .. NBytes - 1, k \in 1 .. NBits :
        B = rxByte /\ k = NBits - rxBit + 1 /\ NBits - rxBit = k - 1
  BY Dht11Assumption DEF TypeOK
<1>3. Len(sent) = B * NBits + (k - 1) /\ sent \in Seq({0, 1}) /\ B * NBits \in Nat
  BY <1>2, Dht11Assumption DEF Got, TypeOK
<1> DEFINE y == 2 * v[B][k - 1] + x
           w == [v EXCEPT ![B] = [v[B] EXCEPT ![k] = y]]
<1>4. NBits \in Nat /\ NBytes \in Nat /\ k - 1 \in 0 .. NBits - 1 /\ k - 1 \in 0 .. NBits
  BY <1>2, Dht11Assumption
<1>5. y \in 0 .. 2 ^ NBits - 1 /\ y < 2 ^ k
  <2>1. PICK z \in Nat : z = v[B][k - 1] /\ z < 2 ^ (k - 1)
    <3>1. v[B] \in [0 .. NBits -> 0 .. 2 ^ NBits - 1]
      BY <1>2 DEF Values
    <3>2. v[B][k - 1] \in Nat
      BY <1>4, <3>1
    <3>3. v[B][k - 1] < 2 ^ (k - 1)
      BY <1>1, <1>2, <1>4 DEF Spells
    <3> QED
      BY <3>2, <3>3
  <2>2. 2 ^ k = 2 * 2 ^ (k - 1)
    <3>1. (k - 1) + 1 = k
      BY <1>2
    <3> QED
      BY <1>4, <3>1, PowersOfTwo
  <2>3. 2 ^ (k - 1) \in Nat /\ 2 ^ k \in Nat /\ 2 ^ NBits \in Nat /\ 2 ^ k <= 2 ^ NBits
    BY <1>2, <1>4, PowerPositive, PowerFits
  <2>4. y = 2 * z + x
    BY <2>1
  <2>5. PICK p \in Nat, q \in Nat, r \in Nat :
          /\ p = 2 ^ (k - 1) /\ q = 2 ^ k /\ r = 2 ^ NBits
          /\ z < p /\ q = 2 * p /\ q <= r
    BY <2>1, <2>2, <2>3
  <2>6. 2 * z + x \in 0 .. r - 1 /\ 2 * z + x < q
    BY <2>5
  <2> HIDE DEF y
  <2> QED
    BY <2>4, <2>5, <2>6, Zenon
<1>6. /\ w \in Values
      /\ \A b \in 0 .. NBytes - 1, j \in 0 .. NBits :
           w[b][j] = IF b = B /\ j = k THEN y ELSE v[b][j]
  BY <1>1, <1>2, <1>5 DEF Values
<1> HIDE DEF y, w
<1>7. ASSUME NEW b \in 0 .. NBytes - 1, NEW j \in 1 .. NBits,
             b * NBits + j <= Len(sent')
      PROVE  w[b][j] = 2 * w[b][j - 1] + sent'[b * NBits + j]
  <2>1. Len(sent') = B * NBits + k /\ sent'[B * NBits + k] = x
    BY <1>3
  <2>2. b * NBits \in Nat /\ j - 1 \in 0 .. NBits /\ j \in 0 .. NBits
    BY <1>4
  <2>3. ~(B < b)
    <3>1. B < b => B * NBits + NBits <= b * NBits
      BY Offsets
    <3>2. PICK o \in Nat, ob \in Nat : o = B * NBits /\ ob = b * NBits
      BY <1>3, <2>2
    <3>3. ob + j <= o + k /\ (B < b => o + NBits <= ob)
      BY <1>7, <2>1, <3>1, <3>2
    <3> QED
      BY ONLY <1>2, <1>4, <3>3, k \in 1 .. NBits, j \in 1 .. NBits, o \in Nat, ob \in Nat,
              B \in 0 .. NBytes - 1, b \in 0 .. NBytes - 1
  <2>4. CASE b = B /\ j = k
    <3>1. w[B][k] = y /\ w[B][k - 1] = v[B][k - 1]
      BY <1>2, <1>4, <1>6
    <3>2. y = 2 * v[B][k - 1] + x
      BY DEF y
    <3> QED
      BY <2>1, <2>4, <3>1, <3>2
  <2>5. CASE ~(b = B /\ j = k)
    <3>1. b * NBits + j <= Len(sent)
      <4>1. CASE b = B
        BY <1>2, <1>3, <1>7, <2>1, <2>5, <4>1
      <4>2. CASE b < B
        <5>1. b * NBits + NBits <= B * NBits
          BY <4>2, Offsets
        <5>2. PICK o \in Nat, ob \in Nat, n \in Nat :
                o = B * NBits /\ ob = b * NBits /\ n = Len(sent)
          BY <1>3, <2>2
        <5>3. ob + NBits <= o /\ n = o + (k - 1)
          BY <1>3, <5>1, <5>2
        <5>4. ob + j <= n
          BY <1>4, <5>3
        <5> QED
          BY <5>2, <5>4
      <4> QED
        BY <2>3, <4>1, <4>2
    <3>2. v[b][j] = 2 * v[b][j - 1] + sent[b * NBits + j]
      BY <1>1, <3>1 DEF Spells
    <3>3. sent'[b * NBits + j] = sent[b * NBits + j]
      BY <1>3, <2>2, <3>1
    <3>4. b = B => j < k
      BY <1>2, <1>3, <2>5, <3>1
    <3>5. w[b][j] = v[b][j] /\ w[b][j - 1] = v[b][j - 1]
      BY <1>2, <1>6, <2>2, <2>5, <3>4
    <3> QED
      BY <3>2, <3>3, <3>5
  <2> QED
    BY <2>4, <2>5
<1>8. \A b \in 0 .. NBytes - 1 : w[b][0] = 0 /\ \A j \in 0 .. NBits : w[b][j] < 2 ^ j
  BY <1>1, <1>2, <1>4, <1>5, <1>6, SMTT(30) DEF Spells
<1>9. Spells(w)'
  BY <1>7, <1>8 DEF Spells
<1>10. Holds(w)'
  <2>1. \A b \in 0 .. NBytes - 1 : b < rxByte => w[b][NBits] = v[b][NBits]
    <3>1. NBits \in 0 .. NBits /\ \A b \in 0 .. NBytes - 1 : b < rxByte => b # B
      BY <1>2, <1>4
    <3> QED
      BY <1>6, <3>1
  <2>2. w[rxByte][NBits - rxBit] = v[rxByte][NBits - rxBit]
    <3>1. k - 1 # k
      OBVIOUS
    <3>2. w[B][k - 1] = v[B][k - 1]
      BY <1>4, <1>6, <3>1
    <3> QED
      BY <1>2, <3>2, Zenon
  <2> QED
    BY <1>1, <2>1, <2>2 DEF Holds
<1> QED
  BY <1>6, <1>9, <1>10 DEF Agrees

(***************************************************************************)
(* Shifting the bit that was measured into the byte under way, with its    *)
(* two counters, keeps the agreement when the bit is the one sent.         *)
(***************************************************************************)
LEMMA AgreesShifted ==
  ASSUME TypeOK, Agrees, rxByte < NBytes, Len(sent) = Got + 1,
         (Elapsed(tcnt) > Threshold) = (sent[Got + 1] = 1),
         data' = [data EXCEPT ![rxByte] = Shifted],
         rxBit' = IF rxBit = 1 THEN NBits ELSE rxBit - 1,
         rxByte' = IF rxBit = 1 THEN rxByte + 1 ELSE rxByte,
         sent' = sent
  PROVE  Agrees'
<1>1. PICK v \in Values : Spells(v) /\ Holds(v)
  BY DEF Agrees
<1>2. PICK B \in 0 .. NBytes - 1, k \in 1 .. NBits :
        B = rxByte /\ k = NBits - rxBit + 1 /\ NBits - rxBit = k - 1
  BY Dht11Assumption DEF TypeOK
<1>3. Got + 1 = B * NBits + k /\ Len(sent) = B * NBits + k /\ B * NBits \in Nat
  BY <1>2, Dht11Assumption DEF Got, TypeOK
<1>4. k - 1 \in 0 .. NBits /\ k \in 0 .. NBits /\ NBits \in Nat /\ NBytes \in Nat
  BY <1>2, Dht11Assumption
<1>5. v[B][k] = 2 * v[B][k - 1] + sent[B * NBits + k]
  BY <1>1, <1>2, <1>3 DEF Spells
<1>6. data[B] = v[B][k - 1]
  BY <1>1, <1>2 DEF Holds
<1>7. Shifted = v[B][k]
  <2> DEFINE bit == IF Elapsed(tcnt) > Threshold THEN 1 ELSE 0
             M == 2 ^ NBits
  <2>1. sent[B * NBits + k] \in {0, 1}
    BY <1>2, <1>3 DEF TypeOK
  <2>2. bit = sent[B * NBits + k]
    BY <1>3, <2>1
  <2>3. Shifted = (2 * data[B] + bit) % M
    BY <1>2 DEF Shifted
  <2>4. M \in Nat \ {0} /\ v[B][k] \in 0 .. M - 1
    BY <1>1, <1>2, <1>4, PowerPositive DEF Values
  <2>5. 2 * data[B] + bit = v[B][k]
    BY <1>5, <1>6, <2>2
  <2> HIDE DEF M, bit
  <2>6. PICK z \in Nat : z = v[B][k] /\ z < M
    BY <2>4
  <2>7. z % M = z
    BY ONLY <2>4, <2>6, z \in Nat, SMTT(30)
  <2> QED
    BY <2>3, <2>5, <2>6, <2>7
<1>8. Spells(v)'
  BY <1>1 DEF Spells
<1>9. Holds(v)'
  <2> SUFFICES ASSUME NEW b \in 0 .. NBytes - 1
               PROVE  data'[b] = IF b < rxByte' THEN v[b][NBits]
                                 ELSE IF b = rxByte' THEN v[b][NBits - rxBit'] ELSE 0
    BY DEF Holds
  <2>1. data'[b] = IF b = B THEN v[B][k] ELSE data[b]
    BY <1>2, <1>7 DEF TypeOK
  <2>2. data[b] = IF b < B THEN v[b][NBits] ELSE IF b = B THEN v[b][k - 1] ELSE 0
    BY <1>1, <1>2 DEF Holds
  <2>3. rxBit \in Nat /\ B \in Nat /\ b \in Nat /\ k \in Nat
    BY <1>2, Dht11Assumption DEF TypeOK
  <2>4. CASE rxBit = 1
    <3>1. k = NBits /\ rxByte' = B + 1 /\ NBits - rxBit' = 0
      BY <1>2, <1>4, <2>4
    <3>2. v[b][0] = 0
      BY <1>1 DEF Spells
    <3> QED
      BY <2>1, <2>2, <2>3, <3>1, <3>2
  <2>5. CASE rxBit # 1
    <3>1. rxByte' = B /\ NBits - rxBit' = k
      BY <1>2, <1>4, <2>3, <2>5
    <3> QED
      BY <2>1, <2>2, <2>3, <3>1
  <2> QED
    BY <2>4, <2>5
<1> QED
  BY <1>1, <1>8, <1>9 DEF Agrees

(***************************************************************************)
(* In a complete answer the values are those the recursion over the bits   *)
(* of each byte computes.                                                  *)
(***************************************************************************)
LEMMA CompleteIsFaithful ==
  ASSUME TypeOK, Complete
  PROVE  Len(sent) = Bits /\ \A b \in DOMAIN data : data[b] = SentByte(b)
<1>1. PICK v \in Values : Spells(v) /\ Holds(v)
  BY DEF Agrees, Complete
<1> SUFFICES ASSUME NEW b \in 0 .. NBytes - 1
             PROVE  data[b] = SentByte(b)
  BY DEF Complete, TypeOK
<1>2. NBits \in Nat /\ NBytes \in Nat /\ NBits \in 0 .. NBits
  BY Dht11Assumption
<1>3. data[b] = v[b][NBits]
  BY <1>1, <1>2 DEF Holds, Complete
<1> DEFINE Summed(f) == [k \in 0 .. NBits |->
                           IF k = 0 THEN 0 ELSE 2 * f[k - 1] + sent[b * NBits + k]]
           value == CHOOSE f : f = Summed(f)
<1>4. \A k \in 1 .. NBits : v[b][k] = 2 * v[b][k - 1] + sent[b * NBits + k]
  <2> SUFFICES ASSUME NEW k \in 1 .. NBits PROVE b * NBits + k <= Len(sent)
    BY <1>1 DEF Spells
  <2>1. b * NBits + NBits <= NBytes * NBits
    BY <1>2, Offsets
  <2>2. b * NBits \in Nat /\ NBytes * NBits \in Nat
    BY <1>2
  <2> QED
    BY <1>2, <2>1, <2>2 DEF Complete, Bits
<1>5. v[b] = Summed(v[b])
  <2>1. v[b] = [k \in 0 .. NBits |-> v[b][k]]
    BY DEF Values
  <2>2. v[b][0] = 0
    BY <1>1 DEF Spells
  <2>3. \A k \in 0 .. NBits :
          v[b][k] = IF k = 0 THEN 0 ELSE 2 * v[b][k - 1] + sent[b * NBits + k]
    BY <1>2, <1>4, <2>2
  <2> QED
    BY <2>1, <2>3
<1>6. value = Summed(value)
  BY <1>5
<1> HIDE DEF value
<1>7. ASSUME NEW k \in 0 .. NBits, value[k] # v[b][k]
      PROVE  FALSE
  <2> DEFINE S == {n \in 0 .. NBits : value[n] # v[b][n]}
  <2>1. S \in SUBSET Nat /\ S # {}
    BY <1>7
  <2>2. PICK m \in S : \A n \in S : m <= n
    BY <2>1, LeastNumber
  <2>3. m # 0
    <3>1. value[0] = 0 /\ v[b][0] = 0
      BY <1>1, <1>2, <1>6 DEF Spells
    <3> QED
      BY <3>1
  <2>4. m \in 1 .. NBits /\ m - 1 \in 0 .. NBits /\ m - 1 \notin S
    BY <1>2, <2>2, <2>3
  <2>5. value[m - 1] = v[b][m - 1]
    BY <2>4
  <2>6. value[m] = 2 * value[m - 1] + sent[b * NBits + m]
    BY <1>2, <1>6, <2>4, SMTT(30)
  <2>7. value[m] = v[b][m]
    BY <1>4, <2>4, <2>5, <2>6
  <2> QED
    BY <2>7
<1>8. SentByte(b) = value[NBits]
  BY DEF SentByte, value
<1> QED
  BY <1>2, <1>3, <1>7, <1>8

-----------------------------------------------------------------------------
(***************************************************************************)
(* The kinds of steps, for the invariants that follow: a statement of the  *)
(* program, an interrupt, a change of the wire.                            *)
(***************************************************************************)
ProgramStep ==
  \/ dht11_init \/ StartConversion \/ StartInitData \/ PullLow \/ RegisterStartDone
  \/ Release \/ EnableFalling \/ WaitForAck

WireStep == PullUp \/ SensorFalls \/ SensorRises \/ SensorGivesUp

(***************************************************************************)
(* Every step is one of these.                                             *)
(***************************************************************************)
LEMMA StepKinds ==
  ASSUME [Next]_vars
  PROVE  ProgramStep \/ dht11_irqAnimate \/ WireStep \/ UNCHANGED vars
  BY Zenon DEF Next, dht11_startConversion, dht11_sendStartDone, ProgramStep, WireStep

(***************************************************************************)
(* The pin's interrupt flag: an edge of the selected direction makes a     *)
(* served interrupt pending, another one leaves it served.                 *)
(***************************************************************************)
LEMMA SeesEdge ==
  ASSUME TypeOK, NEW d \in {"rising", "falling"}, irq' = Sees(d)
  PROVE  /\ irq'.mask = irq.mask /\ irq'.sense = irq.sense
         /\ irq.mask /\ Served => (Served' <=> irq.sense # d)
  BY DEF TypeOK, Sees, Served

(***************************************************************************)
(* The wire only moves between conversions and while one is answered, and  *)
(* leaves the reader alone.                                                *)
(***************************************************************************)
LEMMA WireLeaves ==
  ASSUME TypeOK, WireStep
  PROVE  /\ UNCHANGED <<dht11, program, host>>
         /\ irq'.mask = irq.mask /\ irq'.sense = irq.sense
         /\ edge = Over => edge' = Over /\ sent' = sent
<1>1. UNCHANGED <<dht11, program, host>>
  BY Zenon DEF WireStep, PullUp, SensorFalls, SensorRises, SensorGivesUp
<1>2. irq' = irq \/ irq' = Sees("rising") \/ irq' = Sees("falling")
  BY Zenon DEF WireStep, PullUp, SensorFalls, SensorRises, SensorGivesUp
<1>3. irq'.mask = irq.mask /\ irq'.sense = irq.sense
  BY <1>2, SeesEdge
<1>4. edge = Over => edge' = Over /\ sent' = sent
  <2> SUFFICES ASSUME edge = Over PROVE edge' = Over /\ sent' = sent
    OBVIOUS
  <2>1. ~(edge < Over)
    BY GotRange
  <2> QED
    BY <2>1 DEF WireStep, PullUp, SensorFalls, SensorRises, SensorGivesUp
<1> QED
  BY <1>1, <1>3, <1>4

(***************************************************************************)
(* The interrupt finds the reader expecting nothing and drops the edge, or *)
(* takes the step of the state it is in.                                   *)
(***************************************************************************)
LEMMA HandlerLeaves ==
  ASSUME TypeOK, dht11_irqAnimate
  PROVE  /\ ~Served /\ Served' /\ UNCHANGED <<pc, callback, wire>>
         /\ state \in Unexpected =>
              /\ state' = "INIT" /\ UNCHANGED <<rxByte, rxBit, data, data_ready, start_ticks>>
              /\ irq'.mask = irq.mask /\ irq'.sense = irq.sense
<1>1. ~Served /\ UNCHANGED <<pc, callback, wire>>
  BY DEF dht11_irqAnimate, Served, program
<1>2. irq'.flag = FALSE
  <2>1. \/ \E e \in {"rising", "falling"} : irq' = [mask |-> TRUE, sense |-> e, flag |-> FALSE]
        \/ irq' = [irq EXCEPT !.flag = FALSE]
        \/ irq' = [irq EXCEPT !.mask = FALSE, !.flag = FALSE]
    BY Zenon DEF dht11_irqAnimate, IrqUnexpected, IrqAck, IrqIdle, IrqBitSync, IrqBitEnd
  <2>2. irq \in Irq
    BY DEF TypeOK, Irq
  <2>3. \A e \in {"rising", "falling"} : [mask |-> TRUE, sense |-> e, flag |-> FALSE].flag = FALSE
    OBVIOUS
  <2>4. /\ [irq EXCEPT !.flag = FALSE].flag = FALSE
        /\ [irq EXCEPT !.mask = FALSE, !.flag = FALSE].flag = FALSE
    BY <2>2 DEF Irq
  <2> QED
    BY <2>1, <2>3, <2>4, Zenon
<1>3. Served'
  BY <1>2 DEF Served
<1>4. ASSUME state \in Unexpected
      PROVE  /\ state' = "INIT" /\ UNCHANGED <<rxByte, rxBit, data, data_ready, start_ticks>>
             /\ irq' = [irq EXCEPT !.flag = FALSE]
  BY <1>4 DEF dht11_irqAnimate, IrqUnexpected, IrqAck, IrqIdle, IrqBitSync, IrqBitEnd, Unexpected
<1>5. irq' = [irq EXCEPT !.flag = FALSE] => irq'.mask = irq.mask /\ irq'.sense = irq.sense
  BY DEF TypeOK
<1> QED
  BY <1>1, <1>3, <1>4, <1>5

(***************************************************************************)
(* A falling edge of the sensor ends a bit, except for the two that begin  *)
(* the acknowledge and the first bit.                                      *)
(***************************************************************************)
LEMMA FallSends ==
  ASSUME TypeOK, Position, SensorFalls
  PROVE  /\ \/ ~IsBitEnd(edge) /\ edge \in {0, 2} /\ UNCHANGED <<tcnt, sent>>
            \/ /\ edge = 2 * Len(sent) + 4 /\ Len(sent) < Bits
               /\ \E p \in {ShortPulse, LongPulse}, x \in {0, 1} :
                    /\ (p = LongPulse) = (x = 1)
                    /\ tcnt' = (tcnt + p) % (TicksPerMs + 1)
                    /\ sent' = Append(sent, x)
<1>1. PICK n \in Nat, e \in Nat, B \in Nat :
        /\ n = Len(sent) /\ e = edge /\ B = Bits /\ B >= 1 /\ Over = 2 * B + 4
  <2>1. Len(sent) \in Nat /\ edge \in 0 .. Over
    BY DEF TypeOK
  <2>2. Bits \in Nat /\ Bits >= 1 /\ Over = 2 * Bits + 4
    BY GotRange
  <2>3. edge \in Nat
    BY <2>1, <2>2
  <2> QED
    BY <2>1, <2>2, <2>3
<1>2. /\ e < 2 * B + 4 /\ e % 2 = 0
      /\ (n = 0 /\ e <= 4) \/ (n >= 1 /\ e \in {2 * n + 3, 2 * n + 4})
  BY <1>1 DEF Position, SensorFalls
<1>3. IsBitEnd(edge) <=> (e % 2 = 0 /\ 4 <= e /\ e <= 2 * B + 2)
  BY <1>1 DEF IsBitEnd
<1>4. \/ ~IsBitEnd(edge) /\ e \in {0, 2}
      \/ IsBitEnd(edge) /\ e = 2 * n + 4 /\ n < B
  <2>1. CASE e < 4
    BY <1>2, <1>3, <2>1
  <2>2. CASE e >= 4
    BY <1>2, <1>3, <2>2
  <2> QED
    BY <2>1, <2>2
<1>5. ~IsBitEnd(edge) => UNCHANGED <<tcnt, sent>>
  BY DEF SensorFalls
<1>6. ASSUME IsBitEnd(edge)
      PROVE  \E p \in {ShortPulse, LongPulse}, x \in {0, 1} :
               /\ (p = LongPulse) = (x = 1)
               /\ tcnt' = (tcnt + p) % (TicksPerMs + 1)
               /\ sent' = Append(sent, x)
  <2>1. ShortPulse # LongPulse
    BY Dht11Assumption
  <2>2. \/ tcnt' = (tcnt + ShortPulse) % (TicksPerMs + 1) /\ sent' = Append(sent, 0)
        \/ tcnt' = (tcnt + LongPulse) % (TicksPerMs + 1) /\ sent' = Append(sent, 1)
    BY <1>6, Zenon DEF SensorFalls
  <2>3. (ShortPulse = LongPulse) = (0 = 1) /\ (LongPulse = LongPulse) = (1 = 1)
    BY <2>1
  <2> QED
    BY <2>2, <2>3, Zenon
<1> QED
  BY <1>1, <1>4, <1>5, <1>6

(***************************************************************************)
(* Every step keeps the sensor's place, its bits and the wire together.    *)
(***************************************************************************)
LEMMA PositionStep ==
  ASSUME TypeOK, Position, Prepared, [Next]_vars
  PROVE  Position'
<1>1. Bits \in Nat /\ Over \in Nat /\ Over = 2 * Bits + 4 /\ edge \in 0 .. Over
  BY GotRange DEF TypeOK
<1>2. CASE UNCHANGED wire
  BY <1>2 DEF wire, Position
<1>3. CASE StartInitData
  <2>1. sent' = <<>> /\ edge' = Over /\ host' = host
    BY <1>3 DEF StartInitData, Prepared
  <2> QED
    BY <1>1, <2>1 DEF Position
<1>4. CASE PullLow
  <2>1. sent' = sent /\ edge' = Over
    BY <1>4 DEF PullLow, Prepared
  <2> QED
    BY <1>1, <2>1 DEF Position
<1>5. CASE Release
  <2>1. sent' = <<>> /\ edge' = 0 /\ host' = FALSE
    BY <1>5 DEF Release, Prepared
  <2> QED
    BY <1>1, <2>1 DEF Position
<1>6. CASE PullUp
  BY <1>6 DEF PullUp, Position
<1>7. CASE SensorGivesUp
  BY <1>1, <1>7 DEF SensorGivesUp, Position
<1>8. CASE SensorRises
  <2>1. PICK n \in Nat, e \in Nat : n = Len(sent) /\ e = edge
    BY <1>1 DEF TypeOK
  <2>2. /\ e % 2 = 1
        /\ (n = 0 /\ e <= 4) \/ (n >= 1 /\ e \in {2 * n + 3, 2 * n + 4})
        /\ n <= Bits /\ edge' = e + 1 /\ sent' = sent /\ line' = 1 /\ ~host'
    BY <1>8, <2>1 DEF SensorRises, Position
  <2>3. (e + 1) % 2 = 0
    BY <2>2
  <2>4. (n = 0 /\ e + 1 <= 4) \/ (n >= 1 /\ e + 1 = 2 * n + 4)
    BY <2>2
  <2> QED
    BY <2>1, <2>2, <2>3, <2>4 DEF Position
<1>9. CASE SensorFalls
  <2>1. PICK n \in Nat, e \in Nat : n = Len(sent) /\ e = edge
    BY <1>1 DEF TypeOK
  <2>2. e % 2 = 0 /\ n <= Bits /\ edge' = e + 1 /\ line' = 0 /\ ~host'
    BY <1>9, <2>1 DEF SensorFalls, Position
  <2>3. (e + 1) % 2 # 0
    BY <2>2
  <2>4. \/ e \in {0, 2} /\ sent' = sent
        \/ e = 2 * n + 4 /\ n < Bits /\ Len(sent') = n + 1
    BY <1>9, <2>1, FallSends DEF TypeOK
  <2>5. CASE e \in {0, 2} /\ sent' = sent
    <3>1. n = 0
      BY <1>9, <2>1, <2>5 DEF Position, SensorFalls
    <3> QED
      BY <2>1, <2>2, <2>3, <2>5, <3>1 DEF Position
  <2>6. CASE e = 2 * n + 4 /\ n < Bits /\ Len(sent') = n + 1
    <3>1. PICK m \in Nat : m = Len(sent') /\ m = n + 1
      BY <2>6
    <3>2. m >= 1 /\ m <= Bits /\ edge' = 2 * m + 3
      BY <1>1, <2>2, <2>6, <3>1
    <3> QED
      BY <2>2, <2>3, <3>1, <3>2 DEF Position
  <2> QED
    BY <2>4, <2>5, <2>6
<1>10. \/ UNCHANGED wire \/ StartInitData \/ PullLow \/ Release \/ PullUp \/ SensorGivesUp
       \/ SensorRises \/ SensorFalls
  BY StepKinds, Zenon DEF ProgramStep, WireStep, dht11_init, StartConversion, RegisterStartDone,
     EnableFalling, WaitForAck, dht11_irqAnimate, vars
<1> QED
  BY <1>2, <1>3, <1>4, <1>5, <1>6, <1>7, <1>8, <1>9, <1>10

(***************************************************************************)
(* The program prepares the reader, and the interrupt and the sensor leave *)
(* what it prepared alone until the acknowledge is awaited.                *)
(***************************************************************************)
LEMMA PreparedStep ==
  ASSUME IInv, Prepared, [Next]_vars
  PROVE  Prepared'
<1>t. TypeOK /\ Control /\ irq \in Irq
  BY DEF IInv, TypeOK, Irq
<1>1. CASE dht11_init
  BY <1>1, <1>t DEF dht11_init, program, wire, Prepared, Control, Starting, Expecting, AwaitsFall
<1>2. CASE StartConversion
  BY <1>2, <1>t DEF StartConversion, wire, Prepared, Starting, Expecting, AwaitsFall
<1>3. CASE StartInitData
  <2>1. state \in Unexpected /\ callback = FALSE
    BY <1>3, <1>t DEF StartInitData, Control, Starting, TypeOK
  <2> QED
    BY <1>3, <2>1 DEF StartInitData, dht11_init_data, Prepared, Starting, Expecting, Unexpected,
                      AwaitsFall
<1>4. CASE PullLow
  <2>1. state \in Unexpected /\ Starting
    BY <1>4, <1>t DEF PullLow, Control, Starting
  <2> QED
    BY <1>4, <2>1 DEF PullLow, dht11, Prepared, Starting, Expecting, Unexpected, AwaitsFall
<1>5. CASE RegisterStartDone
  <2>1. state \in Unexpected /\ Starting
    BY <1>5, <1>t DEF RegisterStartDone, Control, Starting
  <2> QED
    BY <1>5, <2>1 DEF RegisterStartDone, dht11, wire, Prepared, Starting, Expecting, Unexpected,
                      AwaitsFall
<1>6. CASE Release
  <2>1. state \in Unexpected /\ Starting
    BY <1>6, <1>t DEF Release, Control, Starting
  <2> QED
    BY <1>6, <2>1 DEF Release, dht11, Prepared, Starting, Expecting, Unexpected, AwaitsFall
<1>7. CASE EnableFalling
  <2>1. state \in Unexpected /\ Starting
    BY <1>7, <1>t DEF EnableFalling, Control, Starting
  <2>2. irq'.mask = TRUE /\ irq'.sense = "falling"
    BY <1>7, <1>t DEF EnableFalling, enable_external_interrupt_input, Irq
  <2> QED
    BY <1>7, <2>1, <2>2 DEF EnableFalling, dht11, wire, Prepared, Starting, Expecting, Unexpected,
                            AwaitsFall
<1>8. CASE WaitForAck
  BY <1>8, <1>t DEF WaitForAck, wire, Prepared, Control, Starting, Expecting, AwaitsFall
<1>9. CASE dht11_irqAnimate
  <2>1. UNCHANGED <<pc, callback, wire>>
    BY <1>9, <1>t, HandlerLeaves
  <2>2. Starting => state \in Unexpected
    BY <1>t DEF Control
  <2>3. CASE state \in Unexpected
    <3>1. /\ state' = "INIT" /\ UNCHANGED <<rxByte, rxBit, data, data_ready, start_ticks>>
          /\ irq'.mask = irq.mask /\ irq'.sense = irq.sense
      BY <1>9, <1>t, <2>3, HandlerLeaves
    <3> QED
      BY <2>1, <3>1 DEF Prepared, wire, Starting, Expecting
  <2>4. CASE state \notin Unexpected
    <3>1. ~Starting /\ pc = "idle" /\ ~callback
      BY <2>2, <2>4 DEF Starting
    <3>2. /\ state' \in Expecting => /\ irq'.mask
                                     /\ irq'.sense = IF state' \in AwaitsFall
                                                     THEN "falling" ELSE "rising"
      <4>1. CASE IrqAck \/ IrqBitSync
        BY <4>1 DEF IrqAck, IrqBitSync, AwaitsFall
      <4>2. CASE IrqIdle
        BY <4>2, <1>t DEF IrqIdle, AwaitsFall, Prepared, Irq, Expecting
      <4>3. CASE IrqBitEnd
        <5>1. \/ state' = "IDLE"
              \/ /\ state' = "WAITING_FOR_BIT_SYNC"
                 /\ irq' = [mask |-> TRUE, sense |-> "rising", flag |-> FALSE]
          BY <4>3, Zenon DEF IrqBitEnd
        <5> QED
          BY <5>1 DEF AwaitsFall, Expecting
      <4>4. IrqAck \/ IrqIdle \/ IrqBitSync \/ IrqBitEnd
        BY <1>9, <2>4 DEF dht11_irqAnimate, IrqUnexpected
      <4> QED
        BY <4>1, <4>2, <4>3, <4>4
    <3> QED
      BY <2>1, <3>1, <3>2 DEF Prepared, Starting
  <2> QED
    BY <2>3, <2>4
<1>10. CASE WireStep
  <2>1. /\ UNCHANGED <<dht11, program, host>>
        /\ irq'.mask = irq.mask /\ irq'.sense = irq.sense
        /\ edge = Over => edge' = Over /\ sent' = sent
    BY <1>10, <1>t, WireLeaves
  <2> QED
    BY <2>1 DEF Prepared, Starting, dht11, program
<1>11. CASE UNCHANGED vars
  BY <1>11 DEF vars, dht11, program, wire, Prepared, Starting
<1> QED
  BY <1>1, <1>2, <1>3, <1>4, <1>5, <1>6, <1>7, <1>8, <1>9, <1>10, <1>11, StepKinds
     DEF ProgramStep

(***************************************************************************)
(* A reader left alone by the sensor is behind: no edge that ends a bit    *)
(* can come any more.                                                      *)
(***************************************************************************)
LEMMA SilenceIsBehind ==
  TypeOK /\ state \in Expecting /\ rxByte < NBytes /\ edge = Over
    /\ (state = "WAITING_FOR_BIT_END" => Served)
    /\ (state \in {"WAITING_FOR_ACK", "GOT_ACK_WAIT_IDLE"} => Got = 0)
  => Behind
<1> SUFFICES ASSUME TypeOK, state \in Expecting, rxByte < NBytes, edge = Over,
                    state = "WAITING_FOR_BIT_END" => Served,
                    state \in {"WAITING_FOR_ACK", "GOT_ACK_WAIT_IDLE"} => Got = 0
             PROVE  Behind
  OBVIOUS
<1>1. PICK g \in Nat, B \in Nat : g = Got /\ B = Bits /\ g < B /\ edge = 2 * B + 4
  BY GotRange
<1>2. edge >= 4 /\ edge >= 2 * g + 6
  BY <1>1
<1>3. edge >= 1 /\ edge >= 3 /\ edge >= 2 * g + 4
  BY <1>1
<1> QED
  BY <1>1, <1>2, <1>3 DEF Behind, Expecting

(***************************************************************************)
(* A step of the wire: every edge the sensor makes takes a reader in step  *)
(* one edge on, and leaves one that is behind behind.                      *)
(***************************************************************************)
LEMMA ReaderWire ==
  ASSUME IInv, Position, Prepared, InStep \/ Behind, state \in Expecting, TypeOK', Position',
         WireStep
  PROVE  InStep' \/ Behind'
<1>t. TypeOK /\ rxByte < NBytes /\ irq.mask
  BY DEF IInv, Control, Prepared
<1>1. PICK g \in Nat, B \in Nat, e \in Nat, n \in Nat :
        g = Got /\ B = Bits /\ g < B /\ e = edge /\ n = Len(sent) /\ Over = 2 * B + 4
  <2>1. Len(sent) \in Nat /\ edge \in 0 .. Over /\ Over = 2 * Bits + 4 /\ Bits \in Nat
    BY <1>t, GotRange DEF TypeOK
  <2>2. Got \in Nat /\ Got < Bits
    BY <1>t, GotRange
  <2>3. edge \in Nat
    BY <2>1
  <2> QED
    BY <2>1, <2>2, <2>3
<1>2. UNCHANGED <<state, rxByte, rxBit, data, start_ticks>> /\ Got' = Got
  BY <1>t, WireLeaves DEF dht11, Got
<1>3. \A d \in {"rising", "falling"} :
        irq' = Sees(d) /\ Served => (Served' <=> irq.sense # d)
  BY <1>t, SeesEdge
<1>4. irq.sense = IF state \in AwaitsFall THEN "falling" ELSE "rising"
  BY DEF Prepared
<1>5. state \in {"WAITING_FOR_ACK", "GOT_ACK_WAIT_IDLE"} => Got = 0
  BY DEF InStep, Behind
<1>6. CASE SensorGivesUp
  <2>1. edge' = Over /\ UNCHANGED <<sent, tcnt>> /\ irq' = irq
    BY <1>6 DEF SensorGivesUp
  <2>2. Served' <=> Served
    BY <2>1 DEF Served
  <2>3. CASE state = "WAITING_FOR_BIT_END" /\ ~Served
    <3>1. CASE InStep
      <4>1. Agrees'
        BY <1>2, <2>1, <3>1, AgreesKept DEF InStep
      <4>2. Elapsed(tcnt)' = Elapsed(tcnt)
        BY <1>2, <2>1 DEF Elapsed
      <4>3. /\ Len(sent) = Got + 1
            /\ (Elapsed(tcnt) > Threshold) = (sent[Got + 1] = 1)
        BY <2>3, <3>1 DEF InStep
      <4> QED
        BY <1>2, <2>1, <2>2, <2>3, <4>1, <4>2, <4>3 DEF InStep
    <3>2. CASE Behind
      BY <1>2, <2>1, <2>2, <2>3, <3>2 DEF Behind
    <3> QED
      BY <3>1, <3>2
  <2>4. CASE ~(state = "WAITING_FOR_BIT_END" /\ ~Served)
    <3>1. TypeOK' /\ state' \in Expecting /\ rxByte' < NBytes /\ edge' = Over
      BY <1>t, <1>2, <2>1
    <3>2. /\ state' = "WAITING_FOR_BIT_END" => Served'
          /\ state' \in {"WAITING_FOR_ACK", "GOT_ACK_WAIT_IDLE"} => Got' = 0
      BY <1>2, <1>5, <2>2, <2>4
    <3>3. (TypeOK /\ state \in Expecting /\ rxByte < NBytes /\ edge = Over
             /\ (state = "WAITING_FOR_BIT_END" => Served)
             /\ (state \in {"WAITING_FOR_ACK", "GOT_ACK_WAIT_IDLE"} => Got = 0)
           => Behind)'
      BY SilenceIsBehind, PTL
    <3>4. Over' = Over
      BY DEF Over
    <3> QED
      BY <3>1, <3>2, <3>3, <3>4
  <2> QED
    BY <2>3, <2>4
<1>7. CASE PullUp
  <2>1. Served /\ irq' = Sees("rising") /\ UNCHANGED <<edge, sent, tcnt>> /\ line = 0
          /\ edge % 2 = 0
    BY <1>7 DEF PullUp
  <2>2. edge = 0 \/ edge = Over
    <3>1. edge < Over /\ edge > 0 => (line = 1 <=> edge % 2 = 0)
      BY DEF Position
    <3>2. ~(edge < Over /\ edge > 0)
      BY <2>1, <3>1
    <3>3. edge <= Over
      BY <1>t, <1>1 DEF TypeOK
    <3> QED
      BY <1>1, <3>2, <3>3
  <2>3. CASE edge = 0
    <3>1. InStep /\ state = "WAITING_FOR_ACK" /\ Got = 0
      BY <1>1, <2>1, <2>3 DEF InStep, Behind
    <3>2. Served'
      BY <1>3, <1>4, <2>1, <3>1 DEF AwaitsFall
    <3>3. Agrees'
      BY <1>2, <2>1, <3>1, AgreesKept DEF InStep
    <3> QED
      BY <1>2, <2>1, <2>3, <3>1, <3>2, <3>3 DEF InStep
  <2>4. CASE edge = Over
    <3>1. TypeOK' /\ state' \in Expecting /\ rxByte' < NBytes /\ edge' = Over
      BY <1>t, <1>2, <2>1, <2>4
    <3>2. state' = "WAITING_FOR_BIT_END" => Served'
      BY <1>2, <1>3, <1>4, <2>1 DEF AwaitsFall
    <3>3. state' \in {"WAITING_FOR_ACK", "GOT_ACK_WAIT_IDLE"} => Got' = 0
      BY <1>2, <1>5
    <3>4. (TypeOK /\ state \in Expecting /\ rxByte < NBytes /\ edge = Over
             /\ (state = "WAITING_FOR_BIT_END" => Served)
             /\ (state \in {"WAITING_FOR_ACK", "GOT_ACK_WAIT_IDLE"} => Got = 0)
           => Behind)'
      BY SilenceIsBehind, PTL
    <3>5. Over' = Over
      BY DEF Over
    <3> QED
      BY <3>1, <3>2, <3>3, <3>4, <3>5
  <2> QED
    BY <2>2, <2>3, <2>4
<1>8. CASE SensorRises
  <2>1. Served /\ irq' = Sees("rising") /\ edge' = edge + 1 /\ UNCHANGED sent
    BY <1>8 DEF SensorRises
  <2>2. e % 2 = 1 /\ edge' = e + 1
    BY <1>1, <1>8 DEF SensorRises
  <2>3. Served' <=> state \in AwaitsFall
    BY <1>3, <1>4, <2>1
  <2>4. CASE InStep
    <3>1. \/ state = "GOT_ACK_WAIT_IDLE" /\ g = 0 /\ e = 1
          \/ state = "WAITING_FOR_BIT_SYNC" /\ e = 2 * g + 3
      BY <1>1, <2>1, <2>2, <2>4 DEF InStep
    <3>2. Agrees'
      BY <1>2, <2>1, <2>4, AgreesKept DEF InStep
    <3>3. ~Served' /\ state' = state /\ Got' = g
      BY <1>1, <1>2, <2>3, <3>1 DEF AwaitsFall
    <3> QED
      BY <2>2, <3>1, <3>2, <3>3 DEF InStep
  <2>5. CASE Behind
    <3>1. \/ state = "WAITING_FOR_ACK" /\ g = 0 /\ e >= 1
          \/ state = "GOT_ACK_WAIT_IDLE" /\ g = 0 /\ e >= 3
          \/ state = "WAITING_FOR_BIT_SYNC" /\ e >= 2 * g + 4
          \/ state = "WAITING_FOR_BIT_END" /\ e >= 2 * g + 6
      BY <1>1, <2>1, <2>5 DEF Behind
    <3>2. state' = state /\ Got' = g
      BY <1>1, <1>2
    <3>3. state = "WAITING_FOR_BIT_SYNC" => e + 1 >= 2 * g + 6
      BY <2>2, <3>1
    <3> QED
      BY <2>2, <2>3, <3>1, <3>2, <3>3 DEF Behind, AwaitsFall
  <2> QED
    BY <2>4, <2>5
<1>9. CASE SensorFalls
  <2>1. Served /\ irq' = Sees("falling") /\ edge' = e + 1 /\ e % 2 = 0 /\ e < Over
    BY <1>1, <1>9 DEF SensorFalls
  <2>2. ~Served' <=> state \in AwaitsFall
    BY <1>3, <1>4, <2>1
  <2>3. state' = state /\ Got' = g
    BY <1>1, <1>2
  <2>4. CASE InStep
    <3>1. \/ state = "WAITING_FOR_ACK" /\ g = 0 /\ e = 0
          \/ state = "WAITING_FOR_BIT_SYNC" /\ g = 0 /\ e = 2
          \/ state = "WAITING_FOR_BIT_END" /\ e = 2 * g + 4 /\ start_ticks = tcnt
      BY <1>1, <2>1, <2>4 DEF InStep
    <3>2. CASE state # "WAITING_FOR_BIT_END"
      <4>1. UNCHANGED sent
        BY <1>t, <1>1, <1>9, <3>1, <3>2, FallSends
      <4>2. Agrees'
        BY <1>2, <2>4, <4>1, AgreesKept DEF InStep
      <4> QED
        BY <2>1, <2>2, <2>3, <3>1, <3>2, <4>2 DEF InStep, AwaitsFall
    <3>3. CASE state = "WAITING_FOR_BIT_END"
      <4>1. e = 2 * g + 4 /\ start_ticks = tcnt
        BY <3>1, <3>3
      <4>2. e = 2 * n + 4
        BY <1>t, <1>1, <1>9, <4>1, FallSends
      <4>3. n = g
        BY <4>1, <4>2
      <4>4. PICK p \in {ShortPulse, LongPulse}, x \in {0, 1} :
              /\ (p = LongPulse) = (x = 1)
              /\ tcnt' = (tcnt + p) % (TicksPerMs + 1)
              /\ sent' = Append(sent, x)
        BY <1>t, <1>1, <1>9, <4>1, FallSends
      <4>5. Agrees'
        BY <1>t, <1>1, <1>2, <2>4, <4>3, <4>4, AgreesSent DEF InStep
      <4>6. Len(sent') = g + 1 /\ sent'[g + 1] = x
        <5>1. sent \in Seq({0, 1}) /\ Len(sent) = g
          BY <1>t, <1>1, <4>3 DEF TypeOK
        <5> QED
          BY <4>4, <5>1
      <4>7. Elapsed(tcnt') > Threshold <=> p = LongPulse
        <5>1. Elapsed((start_ticks + p) % (TicksPerMs + 1)) > Threshold <=> p = LongPulse
          BY <1>t, PulseDecoded DEF TypeOK
        <5> QED
          BY <4>1, <4>4, <5>1
      <4>8. Elapsed(tcnt)' = Elapsed(tcnt')
        BY <1>2 DEF Elapsed
      <4>9. (Elapsed(tcnt)' > Threshold) = (sent'[g + 1] = 1)
        <5>1. (Elapsed(tcnt)' > Threshold) <=> (sent'[g + 1] = 1)
          BY <4>4, <4>6, <4>7, <4>8
        <5> QED
          BY <5>1
      <4>10. ~Served' /\ edge' = 2 * g + 5
        BY <2>1, <2>2, <3>3, <4>1 DEF AwaitsFall
      <4> QED
        BY <2>3, <3>3, <4>5, <4>6, <4>9, <4>10 DEF InStep
    <3> QED
      BY <3>2, <3>3
  <2>5. CASE Behind
    <3>1. \/ state = "WAITING_FOR_ACK" /\ g = 0 /\ e >= 1
          \/ state = "GOT_ACK_WAIT_IDLE" /\ g = 0 /\ e >= 3
          \/ state = "WAITING_FOR_BIT_SYNC" /\ e >= 2 * g + 4
          \/ state = "WAITING_FOR_BIT_END" /\ e >= 2 * g + 6
      BY <1>1, <2>1, <2>5 DEF Behind
    <3>2. CASE state # "WAITING_FOR_BIT_END"
      <4>1. state = "WAITING_FOR_ACK" => e + 1 >= 3
        BY <2>1, <3>1
      <4> QED
        BY <2>1, <2>2, <2>3, <3>1, <3>2, <4>1 DEF Behind, AwaitsFall
    <3>3. CASE state = "WAITING_FOR_BIT_END"
      <4>1. e >= 2 * g + 6
        BY <3>1, <3>3
      <4>2. e = 2 * n + 4 /\ Len(sent') = n + 1
        BY <1>t, <1>1, <1>9, <4>1, FallSends, SMTT(30) DEF TypeOK
      <4>3. edge' = 2 * Len(sent') + 3 /\ Len(sent') >= g + 2
        BY <2>1, <4>1, <4>2
      <4> QED
        BY <2>2, <2>3, <3>3, <4>3 DEF Behind, AwaitsFall
    <3> QED
      BY <3>2, <3>3
  <2> QED
    BY <2>4, <2>5
<1> QED
  BY <1>6, <1>7, <1>8, <1>9 DEF WireStep

(***************************************************************************)
(* The end of a bit: a reader in step has read one bit more of the answer, *)
(* and only such a reader comes to the last one.                           *)
(***************************************************************************)
LEMMA ReaderBitEnd ==
  ASSUME IInv, Position, Reader, TypeOK', dht11_irqAnimate, IrqBitEnd
  PROVE  Reader'
<1>t. TypeOK /\ rxByte < NBytes /\ state \in Expecting /\ state = "WAITING_FOR_BIT_END"
  BY DEF IInv, Control, IrqBitEnd, Expecting
<1>1. ~Served /\ Served' /\ UNCHANGED <<edge, sent, tcnt>>
  BY <1>t, HandlerLeaves DEF wire
<1>2. /\ data' = [data EXCEPT ![rxByte] = Shifted]
      /\ rxBit' = IF rxBit = 1 THEN NBits ELSE rxBit - 1
      /\ rxByte' = IF rxBit = 1 THEN rxByte + 1 ELSE rxByte
  BY DEF IrqBitEnd
<1>3. PICK g \in Nat, B \in Nat, e \in Nat, n \in Nat :
        /\ g = Got /\ B = Bits /\ g < B /\ e = edge /\ n = Len(sent) /\ Over = 2 * B + 4
        /\ n <= B
  <2>1. Len(sent) \in Nat /\ edge \in 0 .. Over /\ Over = 2 * Bits + 4 /\ Bits \in Nat
    BY <1>t, GotRange DEF TypeOK
  <2>2. Got \in Nat /\ Got < Bits
    BY <1>t, GotRange
  <2>3. edge \in Nat /\ Len(sent) <= Bits
    BY <2>1 DEF Position
  <2> QED
    BY <2>1, <2>2, <2>3
<1>4. Got' = g + 1
  <2>1. PICK o \in Nat, r \in Nat : o = rxByte * NBits /\ r = rxByte
    BY <1>t, Dht11Assumption DEF TypeOK
  <2>2. (r + 1) * NBits = o + NBits
    BY <2>1, Dht11Assumption
  <2>3. CASE rxBit = 1
    <3>1. Got' = (r + 1) * NBits + (NBits - NBits)
      BY <1>2, <2>1, <2>3 DEF Got
    <3>2. g = o + (NBits - 1)
      BY <1>3, <2>1, <2>3 DEF Got
    <3> QED
      BY <2>2, <3>1, <3>2, Dht11Assumption
  <2>4. CASE rxBit # 1
    <3>1. Got' = o + (NBits - (rxBit - 1)) /\ g = o + (NBits - rxBit)
      BY <1>2, <1>3, <2>1, <2>4 DEF Got
    <3>2. rxBit \in Nat /\ NBits \in Nat
      BY <1>t, Dht11Assumption DEF TypeOK
    <3> QED
      BY <3>1, <3>2
  <2> QED
    BY <2>3, <2>4
<1>5. ~data_ready
  BY <1>t DEF IInv, Control, Starting, Expecting, Unexpected
<1>6. \/ /\ InStep /\ n = g + 1 /\ e \in {2 * g + 5, Over} /\ Agrees'
      \/ /\ n >= g + 2 /\ e \in {2 * n + 3, Over}
  <2>1. CASE InStep
    <3>1. /\ Agrees /\ Len(sent) = Got + 1 /\ edge \in {2 * Got + 5, Over}
          /\ (Elapsed(tcnt) > Threshold) = (sent[Got + 1] = 1)
      BY <1>t, <1>1, <2>1 DEF InStep
    <3>2. Agrees'
      BY <1>t, <1>1, <1>2, <3>1, AgreesShifted
    <3> QED
      BY <1>3, <2>1, <3>1, <3>2
  <2>2. CASE Behind
    BY <1>t, <1>1, <1>3, <2>2 DEF Behind
  <2> QED
    BY <1>t, <2>1, <2>2 DEF Reader
<1>7. CASE rxByte' < NBytes
  <2>1. state' = "WAITING_FOR_BIT_SYNC" /\ data_ready' = data_ready
    <3>1. \/ state' = "WAITING_FOR_BIT_SYNC" /\ data_ready' = data_ready
          \/ rxByte' >= NBytes
      BY Zenon DEF IrqBitEnd
    <3>2. rxByte' \in Nat /\ NBytes \in Nat
      BY Dht11Assumption DEF TypeOK
    <3>3. ~(rxByte' >= NBytes)
      BY <1>7, <3>2
    <3> QED
      BY <3>1, <3>3
  <2>2. CASE n = g + 1 /\ e = 2 * g + 5 /\ Agrees'
    <3>1. edge' = 2 * Got' + 3
      BY <1>1, <1>3, <1>4, <2>2
    <3>2. InStep'
      BY <1>1, <2>1, <2>2, <3>1 DEF InStep
    <3> QED
      BY <1>5, <2>1, <3>2 DEF Reader
  <2>3. CASE e = Over \/ (n >= g + 2 /\ e = 2 * n + 3)
    <3>1. e >= 2 * (g + 1) + 4
      BY <1>3, <2>3
    <3>2. edge' >= 2 * Got' + 4
      BY <1>1, <1>3, <1>4, <3>1
    <3>3. Behind'
      BY <1>1, <2>1, <3>2 DEF Behind
    <3> QED
      BY <1>5, <2>1, <3>3 DEF Reader
  <2> QED
    BY <1>6, <2>2, <2>3
<1>8. CASE ~(rxByte' < NBytes)
  <2>1. state' = "IDLE"
    BY <1>8 DEF IrqBitEnd
  <2>2. rxByte' = NBytes /\ rxBit = 1 /\ rxByte + 1 = NBytes
    BY <1>2, <1>8, <1>t, Dht11Assumption DEF TypeOK
  <2>3. g + 1 = B
    <3>1. PICK o \in Nat, r \in Nat : o = rxByte * NBits /\ r = rxByte /\ NBytes = r + 1
      BY <1>t, <2>2, Dht11Assumption DEF TypeOK
    <3>2. (r + 1) * NBits = o + NBits
      BY <3>1, Dht11Assumption
    <3>3. g = o + (NBits - 1) /\ B = (r + 1) * NBits
      BY <1>3, <2>2, <3>1 DEF Got, Bits
    <3> QED
      BY <3>2, <3>3, Dht11Assumption
  <2>4. n = B /\ Agrees'
    BY <1>3, <1>6, <2>3
  <2>5. Complete'
    BY <1>1, <1>3, <2>2, <2>4 DEF Complete, Bits
  <2> QED
    BY <2>1, <2>5 DEF Reader, Expecting
<1> QED
  BY <1>7, <1>8

(***************************************************************************)
(* The other states of the handler: each takes the edge it was waiting for *)
(* and waits for the next.                                                 *)
(***************************************************************************)
LEMMA ReaderHandler ==
  ASSUME IInv, Position, Reader, TypeOK', dht11_irqAnimate, ~IrqBitEnd, state \in Expecting
  PROVE  InStep' \/ Behind'
<1>t. TypeOK /\ rxByte < NBytes
  BY DEF IInv, Control
<1>1. ~Served /\ Served' /\ UNCHANGED <<edge, sent, tcnt>>
  BY <1>t, HandlerLeaves DEF wire
<1>2. UNCHANGED <<rxByte, rxBit, data>> /\ Got' = Got
  BY DEF dht11_irqAnimate, IrqUnexpected, IrqAck, IrqIdle, IrqBitSync, Got
<1>3. \/ state = "WAITING_FOR_ACK" /\ state' = "GOT_ACK_WAIT_IDLE"
      \/ state = "GOT_ACK_WAIT_IDLE" /\ state' = "WAITING_FOR_BIT_SYNC"
      \/ /\ state = "WAITING_FOR_BIT_SYNC" /\ state' = "WAITING_FOR_BIT_END"
         /\ start_ticks' = tcnt
  BY DEF dht11_irqAnimate, IrqUnexpected, IrqAck, IrqIdle, IrqBitSync, Expecting, Unexpected
<1>4. PICK g \in Nat, e \in Nat : g = Got /\ e = edge
  <2>1. edge \in 0 .. Over /\ Over = 2 * Bits + 4 /\ Bits \in Nat /\ Got \in Nat
    BY <1>t, GotRange DEF TypeOK
  <2> QED
    BY <2>1
<1>5. CASE InStep
  <2>1. Agrees'
    BY <1>1, <1>2, <1>5, AgreesKept DEF InStep
  <2>2. \/ state = "WAITING_FOR_ACK" /\ g = 0 /\ e = 1
        \/ state = "GOT_ACK_WAIT_IDLE" /\ g = 0 /\ e = 2
        \/ state = "WAITING_FOR_BIT_SYNC" /\ e = 2 * g + 4
    BY <1>1, <1>3, <1>4, <1>5 DEF InStep
  <2>3. Got' = g /\ edge' = e /\ tcnt' = tcnt
    BY <1>1, <1>2, <1>4
  <2> QED
    BY <1>1, <1>3, <2>1, <2>2, <2>3 DEF InStep
<1>6. CASE Behind
  <2>1. \/ state = "WAITING_FOR_ACK" /\ g = 0 /\ e >= 3
        \/ state = "GOT_ACK_WAIT_IDLE" /\ g = 0 /\ e >= 4
        \/ state = "WAITING_FOR_BIT_SYNC" /\ e >= 2 * g + 6
    BY <1>1, <1>3, <1>4, <1>6 DEF Behind
  <2>2. Got' = g /\ edge' = e
    BY <1>1, <1>2, <1>4
  <2> QED
    BY <1>1, <1>3, <2>1, <2>2 DEF Behind
<1> QED
  BY <1>5, <1>6 DEF Reader

(***************************************************************************)
(* Once the acknowledge is awaited the reader is in step if the sensor has *)
(* not begun to answer, and behind if it has.                              *)
(***************************************************************************)
LEMMA ReaderBegins ==
  ASSUME IInv, Position, Prepared, WaitForAck
  PROVE  InStep' \/ Behind'
<1>t. TypeOK /\ rxByte = 0 /\ rxBit = NBits /\ data = NoData
  BY DEF IInv, Control, Prepared, Starting, WaitForAck
<1>1. /\ state' = "WAITING_FOR_ACK" /\ Served
      /\ UNCHANGED <<rxByte, rxBit, data, irq, edge, sent>>
  BY DEF WaitForAck, wire
<1>2. Served'
  BY <1>1 DEF Served
<1>3. Got' = 0
  BY <1>t, <1>1, Dht11Assumption DEF Got
<1>4. edge \in Nat /\ Over \in Nat /\ Over >= 6 /\ Len(sent) \in Nat
  <2>1. edge \in 0 .. Over /\ Over = 2 * Bits + 4 /\ Bits \in Nat /\ Bits >= 1 /\ Len(sent) \in Nat
    BY <1>t, GotRange DEF TypeOK
  <2> QED
    BY <2>1
<1>5. CASE edge = 0
  <2>1. Len(sent) = 0
    <3>1. edge < Over
      BY <1>4, <1>5
    <3>2. Len(sent) = 0 \/ (Len(sent) >= 1 /\ edge \in {2 * Len(sent) + 3, 2 * Len(sent) + 4})
      BY <3>1 DEF Position
    <3> QED
      BY <1>4, <1>5, <3>2
  <2>2. sent = <<>>
    BY <1>t, <2>1 DEF TypeOK
  <2>3. Agrees'
    BY <1>t, <1>1, <2>2, AgreesFresh
  <2> QED
    BY <1>1, <1>2, <1>3, <1>5, <2>3 DEF InStep
<1>6. CASE edge >= 1
  BY <1>1, <1>2, <1>3, <1>6 DEF Behind
<1> QED
  BY <1>4, <1>5, <1>6

(***************************************************************************)
(* A complete answer stays complete: nothing is read any more, and the     *)
(* sensor has no bit left to send.                                         *)
(***************************************************************************)
LEMMA CompleteStays ==
  ASSUME IInv, Position, data_ready, Complete, [Next]_vars, data_ready'
  PROVE  Complete'
<1>t. TypeOK /\ Control /\ ~callback /\ pc \in {"idle", "init_data"}
  BY DEF IInv, Control
<1>1. UNCHANGED <<data, rxByte, rxBit, sent>>
  <2>1. CASE ProgramStep
    <3>1. ~dht11_init /\ ~StartInitData
      BY DEF dht11_init, StartInitData, dht11_init_data
    <3>2. ~PullLow /\ ~RegisterStartDone /\ ~Release /\ ~EnableFalling /\ ~WaitForAck
      BY <1>t DEF PullLow, RegisterStartDone, Release, EnableFalling, WaitForAck
    <3> QED
      BY <2>1, <3>1, <3>2 DEF ProgramStep, StartConversion, wire
  <2>2. CASE dht11_irqAnimate
    <3>1. state \in Unexpected
      BY <1>t, <2>2 DEF Control, Starting, dht11_irqAnimate
    <3> QED
      BY <1>t, <2>2, <3>1, HandlerLeaves DEF wire
  <2>3. CASE WireStep
    <3>1. UNCHANGED <<data, rxByte, rxBit>>
      BY <1>t, <2>3, WireLeaves DEF dht11
    <3>2. ~SensorFalls
      <4> SUFFICES ASSUME SensorFalls PROVE FALSE
        OBVIOUS
      <4>1. PICK n \in Nat : n = Len(sent) /\ n = Bits /\ n >= 1
        BY <1>t, GotRange DEF Complete
      <4>2. edge \in {0, 2} \/ n < Bits
        BY <1>t, <4>1, FallSends
      <4>3. edge \in {2 * n + 3, 2 * n + 4}
        BY <4>1 DEF Position, SensorFalls
      <4> QED
        BY <4>1, <4>2, <4>3
    <3> QED
      BY <2>3, <3>1, <3>2 DEF WireStep, PullUp, SensorRises, SensorGivesUp
  <2>4. CASE UNCHANGED vars
    BY <2>4 DEF vars, dht11, wire
  <2> QED
    BY <2>1, <2>2, <2>3, <2>4, StepKinds
<1>2. Agrees'
  BY <1>1, AgreesKept DEF Complete
<1> QED
  BY <1>1, <1>2 DEF Complete, Bits

(***************************************************************************)
(* The reader, step by step.                                               *)
(***************************************************************************)
LEMMA ReaderStep ==
  ASSUME IInv, Position, Prepared, Reader, [Next]_vars, TypeOK', Position'
  PROVE  Reader'
<1>t. TypeOK /\ Control
  BY DEF IInv
<1>1. CASE dht11_irqAnimate /\ IrqBitEnd
  BY <1>1, ReaderBitEnd
<1>2. CASE ~(dht11_irqAnimate /\ IrqBitEnd)
  <2>1. data_ready' => data_ready
    <3>1. CASE ProgramStep
      BY <3>1 DEF ProgramStep, dht11_init, StartConversion, StartInitData, dht11_init_data, PullLow,
                  RegisterStartDone, Release, EnableFalling, WaitForAck, dht11
    <3>2. CASE dht11_irqAnimate
      BY <1>2, <3>2 DEF dht11_irqAnimate, IrqUnexpected, IrqAck, IrqIdle, IrqBitSync
    <3>3. CASE WireStep
      BY <1>t, <3>3, WireLeaves DEF dht11
    <3>4. CASE UNCHANGED vars
      BY <3>4 DEF vars, dht11
    <3> QED
      BY <3>1, <3>2, <3>3, <3>4, StepKinds
  <2>2. data_ready' => Complete'
    BY <2>1, CompleteStays DEF Reader
  <2>3. ASSUME state' \in Expecting PROVE InStep' \/ Behind'
    <3>1. CASE WaitForAck
      BY <3>1, ReaderBegins
    <3>2. CASE ProgramStep /\ ~WaitForAck
      <4>1. \/ state' \in Unexpected
            \/ state' = state /\ Starting
        BY <3>2 DEF ProgramStep, dht11_init, StartConversion, StartInitData, PullLow,
                    RegisterStartDone, Release, EnableFalling, dht11, Starting, Unexpected
      <4> QED
        BY <1>t, <2>3, <4>1 DEF Control, Unexpected, Expecting
    <3>3. CASE dht11_irqAnimate
      <4>1. state \in Expecting
        BY <1>t, <2>3, <3>3, HandlerLeaves DEF TypeOK, Expecting
      <4> QED
        BY <1>2, <3>3, <4>1, ReaderHandler
    <3>4. CASE WireStep
      <4>1. state \in Expecting
        BY <1>t, <2>3, <3>4, WireLeaves DEF dht11
      <4> QED
        BY <3>4, <4>1, ReaderWire DEF Reader
    <3>5. CASE UNCHANGED vars
      <4>1. state \in Expecting /\ (InStep \/ Behind)
        BY <2>3, <3>5 DEF vars, dht11, Reader
      <4>2. UNCHANGED <<dht11, irq, edge, tcnt, sent>>
        BY <3>5 DEF vars, wire
      <4>3. (Served' <=> Served) /\ Got' = Got /\ (Agrees => Agrees')
              /\ Elapsed(tcnt)' = Elapsed(tcnt)
        BY <4>2, AgreesKept DEF dht11, Served, Got, Elapsed
      <4>4. InStep => InStep'
        BY <4>2, <4>3 DEF InStep, dht11
      <4>5. Behind => Behind'
        BY <4>2, <4>3 DEF Behind, dht11
      <4> QED
        BY <4>1, <4>4, <4>5
    <3> QED
      BY <3>1, <3>2, <3>3, <3>4, <3>5, StepKinds
  <2> QED
    BY <2>2, <2>3 DEF Reader
<1> QED
  BY <1>1, <1>2

(***************************************************************************)
(* When dht11_isDataReady answers 1 the bytes are those the sensor sent in *)
(* this conversion, first bit first, for every number of bytes and bits,   *)
(* wherever in the period of the timer the pulses began, however late the  *)
(* start callback came and whatever an earlier conversion left behind.     *)
(***************************************************************************)
THEOREM DataCorrect == Spec => []DataFaithful
<1>1. Init => DataInv
  <2> SUFFICES ASSUME Init PROVE DataInv
    OBVIOUS
  <2>1. IInv
    BY InitIInv
  <2>2. Over = 2 * Bits + 4 /\ Bits \in Nat
    BY <2>1, GotRange DEF IInv
  <2>3. Position
    BY <2>2 DEF Init, Position
  <2>4. Prepared
    BY DEF Init, Prepared, Starting, Expecting
  <2>5. Reader
    BY DEF Init, Reader, Expecting
  <2> QED
    BY <2>1, <2>3, <2>4, <2>5 DEF DataInv
<1>2. DataInv /\ [Next]_vars => DataInv'
  <2> SUFFICES ASSUME DataInv, [Next]_vars PROVE DataInv'
    OBVIOUS
  <2>1. IInv /\ TypeOK /\ Position /\ Prepared /\ Reader
    BY DEF DataInv, IInv
  <2>2. IInv' /\ TypeOK'
    BY <2>1, NextIInv DEF IInv
  <2>3. Position'
    BY <2>1, PositionStep
  <2>4. Prepared'
    BY <2>1, PreparedStep
  <2>5. Reader'
    BY <2>1, <2>2, <2>3, ReaderStep
  <2> QED
    BY <2>2, <2>3, <2>4, <2>5 DEF DataInv
<1>3. DataInv => DataFaithful
  BY CompleteIsFaithful DEF DataInv, IInv, Reader, DataFaithful
<1> QED
  BY <1>1, <1>2, <1>3, PTL DEF Spec
=============================================================================
