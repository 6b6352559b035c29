-------------------------------- MODULE SdCard --------------------------------
(***************************************************************************)
(* peripherals/sdcard/sdcard.c: the driver of an SD card on the SPI bus.   *)
(*                                                                         *)
(* One step is one turn of a polling loop, or one call of xchg whose       *)
(* answer the driver looks at.  Of the bytes exchanged only those the      *)
(* driver compares with something are kept; the data of a sector and its   *)
(* address are left out.  The number of turns of each loop is a constant.  *)
(*                                                                         *)
(* The card is external: it may answer late, so that the one byte          *)
(* sd_send_command looks at is too early, refuse a command, or not answer  *)
(* at all; while it is programming a sector it holds its output low.       *)
(***************************************************************************)
EXTENDS Naturals

CONSTANTS
  HasPower,      \* the host provides the power callback
  MaxCmd0,       \* 0xfe
  MaxAcmd41,     \* 0xfffe
  MaxToken,      \* 0x1ff reads: the counter is decremented first
  MaxResponse,   \* 0xffff
  MaxBusy,       \* 0xffff
  MaxReady       \* 5000

ASSUME SdCardAssumption ==
  /\ HasPower \in BOOLEAN
  /\ {MaxCmd0, MaxAcmd41, MaxToken, MaxResponse, MaxBusy, MaxReady} \subseteq Nat \ {0}

VARIABLES
  inited,
  cs,        \* the card is selected
  do,        \* the card drives its output, the bus's MISO line
  mode,      \* the card: without power, powered, idle (initialising) or ready
  busy,      \* the card is programming a sector
  reply,     \* the answer the card still owes: none, r1, token
  pc, left,  \* where the driver is, and the turns its loop has left
  status,    \* the last byte it compared
  result     \* what the last call returned

driver == <<inited, pc, left, status, result>>
bus == <<cs, do>>
card == <<mode, busy, reply>>
vars == <<driver, bus, card>>

Results == {"SDCARD_OK", "SDCARD_NO_DETECT", "SDCARD_TIMEOUT", "SDCARD_RWFAIL",
            "SDCARD_NOT_INITED"}

Init ==
  /\ inited = FALSE /\ pc = "idle" /\ left = 0
  /\ status = "FF" /\ result = "SDCARD_NOT_INITED"
  /\ cs = FALSE /\ do = FALSE
  /\ mode = (IF HasPower THEN "off" ELSE "on") /\ busy = FALSE /\ reply = "none"

Enter(loop, turns) == pc' = loop /\ left' = turns /\ UNCHANGED result

\* mutants: the end of the loop not tested; the counter not decremented
AgainUntested == left' = left - 1 /\ UNCHANGED <<pc, result>>
AgainForever == left' = left /\ UNCHANGED <<pc, result>>

Again == left > 1 /\ left' = left - 1 /\ UNCHANGED <<pc, result>>
Return(r) == pc' = "idle" /\ left' = 0 /\ result' = r

(***************************************************************************)
(* Deselecting the card alone leaves its output driven: it lets go with    *)
(* the clocks that follow.  A deselected card owes nothing.                *)
(***************************************************************************)
sd_clock_and_release == cs' = FALSE /\ reply' = "none" /\ do' = FALSE
select == cs' = TRUE /\ do' = (mode # "off")

(***************************************************************************)
(* The card (external).  AnswersCmd0 and AnswersAcmd41 are the byte read   *)
(* by sd_send_command and the mode the card is in after it; Polled the     *)
(* bytes a selected card may give while the driver polls it.               *)
(***************************************************************************)
Silent == {<<IF busy THEN "00" ELSE "FF", mode>>}

AnswersCmd0 ==
  IF mode = "off" \/ busy THEN Silent
  ELSE Silent \cup {<<"01", "idle">>, <<"FF", "idle">>}

AnswersAcmd41 ==
  IF mode = "off" \/ busy THEN Silent
  ELSE Silent \cup {<<"05", mode>>, <<"FF", "ready">>, <<"00", "ready">>}
              \cup (IF mode = "idle" THEN {<<"01", "idle">>} ELSE {})

Polled ==
  IF busy THEN {"00"}
  ELSE {"FF"} \cup {b \in {"00", "FE"} : reply = IF b = "00" THEN "r1" ELSE "token"}

CardFinishes ==
  /\ busy /\ busy' = FALSE
  /\ UNCHANGED <<driver, bus, mode, reply>>

(***************************************************************************)
(* sd_power(1), also the last thing sd_register does: CMD0 until the card  *)
(* is idle, then CMD55 and CMD41 while it says that it is still idle.      *)
(* sd_power(0), and both when there is no power callback.  sd_power uses   *)
(* the callbacks without looking at inited: its caller has registered.     *)
(***************************************************************************)
PowerUp ==
  /\ mode' = IF HasPower /\ mode = "off" THEN "on" ELSE mode
  /\ sd_clock_and_release
  /\ Enter("cmd0", MaxCmd0)
  /\ UNCHANGED <<status, busy>>

sd_register(complete) ==
  /\ pc = "idle"
  /\ inited' = complete
  /\ \/ complete /\ PowerUp
     \/ ~complete /\ Return("SDCARD_NOT_INITED") /\ UNCHANGED <<status, bus, card>>

sd_power(on) ==
  /\ pc = "idle" /\ inited
  /\ \/ on /\ PowerUp
     \/ /\ ~on
        /\ mode' = IF HasPower THEN "off" ELSE mode
        /\ busy' = (busy /\ ~HasPower)
        /\ do' = (do /\ ~HasPower)
        /\ reply' = IF HasPower THEN "none" ELSE reply
        /\ Return("SDCARD_OK")
        /\ UNCHANGED <<cs, status>>
  /\ UNCHANGED inited

Cmd0 ==
  /\ pc = "cmd0"
  /\ \E a \in AnswersCmd0 : status' = a[1] /\ mode' = a[2]
  /\ sd_clock_and_release
  /\ \/ status' = "01" /\ Enter("acmd41", MaxAcmd41)
     \/ status' # "01" /\ Again
     \/ status' # "01" /\ left = 1 /\ Return("SDCARD_NO_DETECT")
  /\ UNCHANGED <<inited, busy>>

Acmd41 ==
  /\ pc = "acmd41"
  /\ \E a \in AnswersAcmd41 : status' = a[1] /\ mode' = a[2]
  /\ sd_clock_and_release
  /\ \/ status' # "01" /\ Return("SDCARD_OK")
     \/ status' = "01" /\ Again
     \/ status' = "01" /\ left = 1 /\ Return("SDCARD_TIMEOUT")
  /\ UNCHANGED <<inited, busy>>

(***************************************************************************)
(* A data call sends its command, whose response it drops, and polls for   *)
(* what comes next.  The response of a write is polled for once more: if   *)
(* it was the dropped byte, it does not come again.                        *)
(***************************************************************************)
Command(owed, loop, turns) ==
  /\ pc = "idle"
  /\ UNCHANGED <<inited, status, mode, busy>>
  /\ \/ /\ ~inited
        /\ Return("SDCARD_NOT_INITED")
        /\ UNCHANGED <<bus, reply>>
     \/ /\ inited
        /\ select
        /\ reply' \in (IF mode = "ready" /\ ~busy THEN owed ELSE {"none"})
        /\ Enter(loop, turns)

Read == Command({"none", "token"}, "token", MaxToken)   \* sd_readcsd, sd_readsector
sd_writesector == Command({"none", "r1"}, "r1", MaxResponse)
sd_waitforready == Command({"none"}, "ready", MaxReady)

Polling(loop) == pc = loop /\ status' \in Polled /\ UNCHANGED <<inited, mode>>
Reading == UNCHANGED <<bus, reply>> /\ Again
Leave(r) == sd_clock_and_release /\ Return(r)

DataTokenKept ==  \* mutant: no cleanup after the data
  /\ Polling("token")
  /\ \/ status' = "FE" /\ UNCHANGED <<bus, reply>> /\ Return("SDCARD_OK")
     \/ status' # "FE" /\ Reading
     \/ status' # "FE" /\ left = 1 /\ Leave("SDCARD_RWFAIL")
  /\ UNCHANGED busy

DataToken ==
  /\ Polling("token")
  /\ \/ status' = "FE" /\ Leave("SDCARD_OK")
     \/ status' # "FE" /\ Reading
     \/ status' # "FE" /\ left = 1 /\ Leave("SDCARD_RWFAIL")
  /\ UNCHANGED busy

WriteResponse ==
  /\ Polling("r1")
  /\ \/ status' = "00" /\ Enter("data", 1) /\ UNCHANGED <<bus, reply>>
     \/ status' # "00" /\ Reading
     \/ status' # "00" /\ left = 1 /\ Leave("SDCARD_RWFAIL")
  /\ UNCHANGED busy

(***************************************************************************)
(* The sector is sent and the low bits of the next byte looked at.  A card *)
(* that was still programming the sector before has not listened.          *)
(***************************************************************************)
SendSector ==
  /\ pc = "data"
  /\ status' \in (IF reply = "r1" /\ ~busy THEN {"05", "0B"} ELSE {IF busy THEN "00" ELSE "FF"})
  /\ \/ status' = "05" /\ busy' = TRUE /\ Enter("busy", MaxBusy)
     \/ status' # "05" /\ UNCHANGED busy /\ Return("SDCARD_RWFAIL")
  /\ UNCHANGED <<inited, mode, bus, reply>>

WaitWritten ==
  /\ Polling("busy")
  /\ \/ status' = "00" /\ Reading
     \/ status' # "00" /\ Leave("SDCARD_OK")
     \/ status' = "00" /\ left = 1 /\ Leave("SDCARD_OK")
  /\ UNCHANGED busy

WaitReadyTrusting ==  \* mutant: the last byte is not looked at again
  /\ Polling("ready")
  /\ \/ status' # "FF" /\ Reading
     \/ (status' = "FF" \/ left = 1) /\ Leave("SDCARD_OK")
  /\ UNCHANGED busy

WaitReady ==
  /\ Polling("ready")
  /\ \/ status' = "FF" /\ Leave("SDCARD_OK")
     \/ status' # "FF" /\ Reading
     \/ status' # "FF" /\ left = 1 /\ Leave("SDCARD_RWFAIL")
  /\ UNCHANGED busy

Driver ==
  Cmd0 \/ Acmd41 \/ DataToken \/ WriteResponse \/ SendSector \/ WaitWritten \/ WaitReady

Call ==
  \/ \E complete \in BOOLEAN : sd_register(complete)
  \/ \E on \in BOOLEAN : sd_power(on)
  \/ Read
  \/ sd_writesector
  \/ sd_waitforready

Next == Driver \/ Call \/ CardFinishes

(***************************************************************************)
(* The driver never stops between two turns of a loop.  Nothing is assumed *)
(* of the card: it may stay busy for ever.                                 *)
(***************************************************************************)
Spec == Init /\ [][Next]_vars /\ WF_vars(Driver)

-----------------------------------------------------------------------------
(***************************************************************************)
(* Type correctness of the driver and the card: no polling loop counts     *)
(* below zero.                                                             *)
(***************************************************************************)
TypeOK ==
  /\ inited \in BOOLEAN /\ cs \in BOOLEAN /\ do \in BOOLEAN /\ busy \in BOOLEAN
  /\ mode \in {"off", "on", "idle", "ready"}
  /\ reply \in {"none", "r1", "token"}
  /\ pc \in {"idle", "cmd0", "acmd41", "token", "r1", "data", "busy", "ready"}
  /\ left \in 0 .. MaxCmd0 + MaxAcmd41 + MaxToken + MaxResponse + MaxBusy + MaxReady
  /\ status \in {"FF", "FE", "00", "01", "05", "0B"}
  /\ result \in Results

Returning == pc # "idle" /\ pc' = "idle"

(***************************************************************************)
(* An answer of SDCARD_OK is earned: a read got its data from a card that  *)
(* is ready, a write was accepted, and after sd_waitforready the card is   *)
(* not programming, whatever earlier call left it so.                      *)
(***************************************************************************)
OkIsEarned ==
  [][Returning /\ result' = "SDCARD_OK" =>
       CASE pc = "token"  -> mode = "ready" /\ ~busy /\ reply = "token"
         [] pc = "busy"   -> reply = "r1"
         [] pc = "ready"  -> ~busy'
         [] OTHER         -> pc = "acmd41"]_vars

(***************************************************************************)
(* Every call that succeeds, or gives up on a card that does not answer,   *)
(* leaves the bus to the other devices: the card is deselected and its     *)
(* output released.  (A write whose data the card refuses does not.)       *)
(***************************************************************************)
BusLeftFree == [][Returning /\ pc # "data" => ~cs' /\ ~do']_vars

(***************************************************************************)
(* Between two calls a card that is not selected does not drive the bus,   *)
(* also after a call that went wrong and others that followed it.          *)
(***************************************************************************)
QuietUnlessSelected == pc = "idle" /\ do => cs

(***************************************************************************)
(* Every call returns, whatever the card does: each polling loop of the    *)
(* driver is bounded.                                                      *)
(***************************************************************************)
Returns == (pc # "idle") ~> (pc = "idle")

(***************************************************************************)
(* What sd_power says of itself: "If the card does not return a status of  *)
(* 0x00 within a reasonable amount of time, declare a timeout".            *)
(***************************************************************************)
PowerOkIsReady == [][pc = "acmd41" /\ Returning /\ result' = "SDCARD_OK" => status' = "00"]_vars
=============================================================================
