-------------------------------- MODULE Dht11 --------------------------------
(***************************************************************************)
(* The interrupt driven reader of the DHT11 sensor, peripherals/dht11.c,   *)
(* with the external interrupt it switches on and off and with the sensor. *)
(*                                                                         *)
(* The host pulls the one wire low, lets it go from a timer1_clock         *)
(* callback, and then follows the edges the sensor makes: an acknowledge,  *)
(* and one pulse per bit whose length is the bit.  The interrupt flag of   *)
(* the pin is set by an edge of the selected direction even while the      *)
(* interrupt is masked, and by edges the host itself makes.                *)
(*                                                                         *)
(* Timing assumptions.  An enabled interrupt is served before the next     *)
(* edge ("timing critical", dht11.h, line 18), and a conversion is started *)
(* when the sensor has finished or given up ("wait", line 26).  The start  *)
(* callback may be delayed at will by other interrupts.                    *)
(***************************************************************************)
EXTENDS Naturals, Sequences

CONSTANTS
  NBytes,        \* 5, bytes of an answer
  NBits,         \* 8, bits of a byte
  TicksPerMs,    \* TIMER1_TICKS_PER_US*1000; TCNT1 counts from 0 up to this
  Threshold,     \* TIMER1_TICKS_PER_US*50
  ShortPulse,    \* ticks of a pulse that means 0
  LongPulse      \* ticks of a pulse that means 1

ASSUME Dht11Assumption ==
  /\ NBytes \in Nat \ {0} /\ NBits \in Nat \ {0}
  /\ TicksPerMs \in Nat /\ Threshold \in Nat
  /\ ShortPulse \in Nat \ {0} /\ LongPulse \in Nat
  /\ ShortPulse <= Threshold /\ Threshold + 1 < LongPulse /\ LongPulse <= TicksPerMs

(***************************************************************************)
(* What the proofs use of exponentiation, which the provers do not define. *)
(***************************************************************************)
ASSUME PowersOfTwo == 2 ^ 0 = 1 /\ \A k \in 0 .. NBits - 1 : 2 ^ (k + 1) = 2 * 2 ^ k

VARIABLES
  state,        \* the fields of the dht11 struct
  rxByte,
  rxBit,
  data,
  data_ready,
  start_ticks,
  pc,           \* where startConversion or sendStartDone is, or "idle"
  callback,     \* is the one-shot callback registered with timer1_clock?
  irq,          \* the external interrupt: mask (EIMSK), sense (EICRA), flag (EIFR)
  host,         \* does the host drive the wire low?
  line,         \* level of the wire
  edge,         \* the next edge of the sensor
  tcnt,         \* TCNT1 at the last edge
  sent,         \* history: the bits sent in this conversion
  missed        \* history: the sensor gave up or the host was too late for its acknowledge

dht11 == <<state, rxByte, rxBit, data, data_ready, start_ticks>>
program == <<pc, callback>>
wire == <<host, line, edge, tcnt, sent, missed>>
vars == <<dht11, program, irq, wire>>

-----------------------------------------------------------------------------
(***************************************************************************)
(* The edges of an answer, numbered from 0: even ones fall, odd ones rise. *)
(* 0 and 1 are the acknowledge; bit j rises at 3 + 2j and ends at 4 + 2j;  *)
(* the last edge releases the wire.  Over means the sensor is silent.      *)
(***************************************************************************)
Bits == NBytes * NBits
Over == 2 * Bits + 4
IsBitEnd(k) == k % 2 = 0 /\ 4 <= k /\ k <= 2 * Bits + 2

Ticks == 0 .. TicksPerMs
Unexpected == {"INIT", "IDLE", "SENDING_START"}
Expecting == {"WAITING_FOR_ACK", "GOT_ACK_WAIT_IDLE", "WAITING_FOR_BIT_SYNC",
              "WAITING_FOR_BIT_END"}

NoData == [b \in 0 .. NBytes - 1 |-> 0]

Init ==
  /\ state = "INIT" /\ rxByte = 0 /\ rxBit = NBits /\ data = NoData
  /\ data_ready = FALSE /\ start_ticks = 0
  /\ pc = "idle" /\ callback = FALSE
  /\ irq = [mask |-> FALSE, sense |-> "low", flag |-> FALSE]
  /\ host = FALSE /\ line = 1 /\ edge = Over /\ tcnt = 0 /\ sent = <<>>
  /\ missed = FALSE

-----------------------------------------------------------------------------
(***************************************************************************)
(* external_interrupt.c, and the pin seeing an edge.                       *)
(***************************************************************************)
enable_external_interrupt_input(sense) == irq' = [irq EXCEPT !.mask = TRUE, !.sense = sense]
disable_external_interrupt_input == irq' = [irq EXCEPT !.mask = FALSE]

Sees(direction) == [irq EXCEPT !.flag = @ \/ irq.sense = direction]

(***************************************************************************)
(* The program runs with interrupts on, so that a pending interrupt comes  *)
(* before its next statement.                                              *)
(***************************************************************************)
Served == ~(irq.mask /\ irq.flag)

dht11_init_data ==
  /\ rxByte' = 0 /\ rxBit' = NBits /\ data' = NoData /\ data_ready' = FALSE
  /\ UNCHANGED start_ticks

(***************************************************************************)
(* dht11_init, "between conversions" (dht11.h, line 74).                   *)
(***************************************************************************)
dht11_init ==
  /\ pc = "idle" /\ ~callback /\ edge = Over /\ Served
  /\ disable_external_interrupt_input
  /\ dht11_init_data
  /\ state' = "INIT"
  /\ UNCHANGED <<program, wire>>

(***************************************************************************)
(* dht11_startConversion, one step per statement that an interrupt can     *)
(* tell apart.                                                             *)
(***************************************************************************)
StartKeepsState ==  \* mutant: dht11_setState is left out
  /\ pc = "idle" /\ ~callback /\ edge = Over /\ line = 1 /\ Served
  /\ pc' = "init_data"
  /\ UNCHANGED <<dht11, callback, irq, wire>>

StartConversion ==
  /\ pc = "idle" /\ ~callback /\ edge = Over /\ line = 1 /\ Served
  /\ state' = "SENDING_START"
  /\ pc' = "init_data"
  /\ UNCHANGED <<rxByte, rxBit, data, data_ready, start_ticks, callback, irq, wire>>

StartInitData ==
  /\ pc = "init_data" /\ Served
  /\ dht11_init_data
  /\ pc' = "pull_low"
  /\ sent' = <<>> /\ missed' = FALSE
  /\ UNCHANGED <<state, callback, irq, host, line, edge, tcnt>>

PullLow ==
  /\ pc = "pull_low" /\ Served
  /\ host' = TRUE /\ line' = 0
  /\ irq' = Sees("falling")
  /\ pc' = "register"
  /\ UNCHANGED <<dht11, callback, edge, tcnt, sent, missed>>

RegisterStartDone ==
  /\ pc = "register" /\ Served
  /\ callback' = TRUE
  /\ pc' = "idle"
  /\ UNCHANGED <<dht11, irq, wire>>

dht11_startConversion == StartConversion \/ StartInitData \/ PullLow \/ RegisterStartDone

(***************************************************************************)
(* dht11_sendStartDone, called by timer1_clock two milliseconds later.     *)
(***************************************************************************)
Release ==
  /\ pc = "idle" /\ callback /\ Served
  /\ callback' = FALSE
  /\ host' = FALSE
  /\ edge' = 0
  /\ pc' = "enable"
  /\ UNCHANGED <<dht11, irq, line, tcnt, sent, missed>>

EnableKeepsSense ==  \* mutant: the edge is not selected again
  /\ pc = "enable" /\ Served
  /\ irq' = [irq EXCEPT !.mask = TRUE]
  /\ pc' = "wait_ack"
  /\ UNCHANGED <<dht11, callback, wire>>

EnableFalling ==
  /\ pc = "enable" /\ Served
  /\ enable_external_interrupt_input("falling")
  /\ pc' = "wait_ack"
  /\ UNCHANGED <<dht11, callback, wire>>

WaitForAck ==
  /\ pc = "wait_ack" /\ Served
  /\ state' = "WAITING_FOR_ACK"
  /\ pc' = "idle"
  /\ UNCHANGED <<rxByte, rxBit, data, data_ready, start_ticks, callback, irq, wire>>

dht11_sendStartDone == Release \/ EnableFalling \/ WaitForAck

-----------------------------------------------------------------------------
(***************************************************************************)
(* dht11_irqAnimate, from the interrupt handler of the pin.                *)
(***************************************************************************)
Elapsed(ticks) ==
  IF ticks <= start_ticks THEN (ticks + TicksPerMs) - start_ticks ELSE ticks - start_ticks

IrqUnexpected ==
  /\ state \in Unexpected
  /\ state' = "INIT"
  /\ irq' = [irq EXCEPT !.flag = FALSE]
  /\ UNCHANGED <<rxByte, rxBit, data, data_ready, start_ticks>>

IrqAck ==
  /\ state = "WAITING_FOR_ACK"
  /\ state' = "GOT_ACK_WAIT_IDLE"
  /\ irq' = [mask |-> TRUE, sense |-> "rising", flag |-> FALSE]
  /\ UNCHANGED <<rxByte, rxBit, data, data_ready, start_ticks>>

IrqIdle ==
  /\ state = "GOT_ACK_WAIT_IDLE"
  /\ state' = "WAITING_FOR_BIT_SYNC"
  /\ irq' = [irq EXCEPT !.flag = FALSE]
  /\ UNCHANGED <<rxByte, rxBit, data, data_ready, start_ticks>>

IrqBitSync ==
  /\ state = "WAITING_FOR_BIT_SYNC"
  /\ start_ticks' = tcnt
  /\ state' = "WAITING_FOR_BIT_END"
  /\ irq' = [mask |-> TRUE, sense |-> "falling", flag |-> FALSE]
  /\ UNCHANGED <<rxByte, rxBit, data, data_ready>>

Shifted == (2 * data[rxByte] + IF Elapsed(tcnt) > Threshold THEN 1 ELSE 0) % 2 ^ NBits

BitEnd(nextBit, last, maskAfter) ==  \* the body of the mutants below
  /\ state = "WAITING_FOR_BIT_END"
  /\ data' = [data EXCEPT ![rxByte] = Shifted]
  /\ rxBit' = nextBit
  /\ rxByte' = IF rxBit = 1 THEN rxByte + 1 ELSE rxByte
  /\ irq' = [mask |-> ~(rxByte' > last) \/ maskAfter, flag |-> FALSE,
             sense |-> IF rxByte' > last THEN "falling" ELSE "rising"]
  /\ state' = IF rxByte' > last THEN "IDLE" ELSE "WAITING_FOR_BIT_SYNC"
  /\ data_ready' = (data_ready \/ rxByte' > last)
  /\ UNCHANGED start_ticks

NextBit == IF rxBit = 1 THEN NBits ELSE rxBit - 1
BitEndOneMore == BitEnd(NextBit, NBytes, FALSE)          \* mutant: rxByte <= 5 for rxByte < 5
BitEndStaysOn == BitEnd(NextBit, NBytes - 1, TRUE)       \* mutant: the interrupt is not disabled

IrqBitEnd ==
  /\ state = "WAITING_FOR_BIT_END"
  /\ data' = [data EXCEPT ![rxByte] = Shifted]
  /\ rxBit' = IF rxBit = 1 THEN NBits ELSE rxBit - 1
  /\ rxByte' = IF rxBit = 1 THEN rxByte + 1 ELSE rxByte
  /\ \/ /\ rxByte' < NBytes
        /\ irq' = [mask |-> TRUE, sense |-> "rising", flag |-> FALSE]
        /\ state' = "WAITING_FOR_BIT_SYNC"
        /\ UNCHANGED data_ready
     \/ /\ rxByte' >= NBytes
        /\ irq' = [irq EXCEPT !.mask = FALSE, !.flag = FALSE]
        /\ state' = "IDLE"
        /\ data_ready' = TRUE
  /\ UNCHANGED start_ticks

dht11_irqAnimate ==
  /\ irq.mask /\ irq.flag
  /\ IrqUnexpected \/ IrqAck \/ IrqIdle \/ IrqBitSync \/ IrqBitEnd
  /\ UNCHANGED <<program, wire>>

-----------------------------------------------------------------------------
(***************************************************************************)
(* The wire and the sensor.  The pull up raises the wire when the host has *)
(* let it go; the sensor then makes its edges, or gives up at some point   *)
(* and lets the wire go.                                                   *)
(***************************************************************************)
PullUp ==
  /\ Served
  /\ ~host /\ line = 0 /\ edge % 2 = 0
  /\ line' = 1
  /\ irq' = Sees("rising")
  /\ UNCHANGED <<dht11, program, host, edge, tcnt, sent, missed>>

SensorFalls ==
  /\ Served
  /\ ~host /\ line = 1 /\ edge < Over /\ edge % 2 = 0
  /\ line' = 0 /\ edge' = edge + 1
  /\ irq' = Sees("falling")
  /\ missed' = (missed \/ (edge = 0 /\ pc # "idle"))
  /\ \/ /\ ~IsBitEnd(edge)
        /\ UNCHANGED <<tcnt, sent>>
     \/ /\ IsBitEnd(edge)
        /\ \/ tcnt' = (tcnt + ShortPulse) % (TicksPerMs + 1) /\ sent' = Append(sent, 0)
           \/ tcnt' = (tcnt + LongPulse) % (TicksPerMs + 1) /\ sent' = Append(sent, 1)
  /\ UNCHANGED <<dht11, program, host>>

SensorRises ==
  /\ Served
  /\ ~host /\ line = 0 /\ edge < Over /\ edge % 2 = 1
  /\ line' = 1 /\ edge' = edge + 1
  /\ irq' = Sees("rising")
  /\ tcnt' \in Ticks
  /\ UNCHANGED <<dht11, program, host, sent, missed>>

SensorGivesUp ==
  /\ edge < Over /\ ~host
  /\ edge' = Over
  /\ missed' = TRUE
  /\ UNCHANGED <<dht11, program, irq, host, line, tcnt, sent>>

Next ==
  \/ dht11_init
  \/ dht11_startConversion
  \/ dht11_sendStartDone
  \/ dht11_irqAnimate
  \/ PullUp \/ SensorFalls \/ SensorRises \/ SensorGivesUp

Spec == Init /\ [][Next]_vars

(***************************************************************************)
(* A started conversion and a pending interrupt proceed, timer1_clock      *)
(* calls the registered callback, and the wire and the sensor move on.     *)
(***************************************************************************)
Fairness ==
  /\ WF_vars(StartInitData \/ PullLow \/ RegisterStartDone)
  /\ WF_vars(dht11_sendStartDone)
  /\ WF_vars(dht11_irqAnimate)
  /\ WF_vars(PullUp \/ SensorFalls \/ SensorRises)

FairSpec == Spec /\ Fairness

-----------------------------------------------------------------------------
(***************************************************************************)
(* Type correctness of the dht11 struct, the interrupt registers and the   *)
(* wire: rxBit never leaves 1 .. 8, no edge shifts a byte out of range,    *)
(* and irqAnimate writes data[rxByte] only within the array, however many  *)
(* edges come and whatever state they meet.                                *)
(***************************************************************************)
TypeOK ==
  /\ state \in Unexpected \cup Expecting
  /\ rxByte \in 0 .. NBytes /\ rxBit \in 1 .. NBits
  /\ state = "WAITING_FOR_BIT_END" => rxByte < NBytes
  /\ data \in [0 .. NBytes - 1 -> 0 .. 2 ^ NBits - 1]
  /\ data_ready \in BOOLEAN /\ start_ticks \in Ticks
  /\ pc \in {"idle", "init_data", "pull_low", "register", "enable", "wait_ack"}
  /\ callback \in BOOLEAN
  /\ irq \in [mask : BOOLEAN, sense : {"low", "rising", "falling"}, flag : BOOLEAN]
  /\ host \in BOOLEAN /\ line \in {0, 1} /\ edge \in 0 .. Over /\ tcnt \in Ticks
  /\ sent \in Seq({0, 1}) /\ missed \in BOOLEAN

(***************************************************************************)
(* What dht11_isDataReady promises: when it answers 1 the bytes are those  *)
(* the sensor sent in this conversion, first bit first, wherever in the    *)
(* timer's period the pulses began and whatever was left over from a       *)
(* conversion that timed out.                                              *)
(***************************************************************************)
SentByte(b) ==
  LET value[k \in 0 .. NBits] ==
        IF k = 0 THEN 0 ELSE 2 * value[k - 1] + sent[b * NBits + k]
  IN  value[NBits]

DataFaithful ==
  data_ready =>
    /\ Len(sent) = Bits
    /\ \A b \in DOMAIN data : data[b] = SentByte(b)

(***************************************************************************)
(* A complete reading stays as it is until the next conversion or init:    *)
(* no interrupt is left enabled that could still shift the data.           *)
(***************************************************************************)
ReadyIsQuiet == data_ready => (state = "IDLE" /\ ~irq.mask) \/ pc = "init_data"

(***************************************************************************)
(* A conversion completes when the sensor answers in full and the host is  *)
(* in time for the acknowledge, also when earlier ones timed out and left  *)
(* the state machine and the interrupt in the middle of an answer.         *)
(***************************************************************************)
Completes == pc = "pull_low" ~> data_ready \/ missed
=============================================================================
