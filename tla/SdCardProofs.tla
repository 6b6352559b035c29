----------------------------- MODULE SdCardProofs -----------------------------
(***************************************************************************)
(* Proofs about SdCard, for any number of turns of the polling loops.      *)
(*                                                                         *)
(* OkIsEarned looks at the step that returns; what makes it true happened  *)
(* when the command was sent.  The invariant carries it there: a card that *)
(* owes an answer is ready, and a write waiting for the card had its       *)
(* response.                                                               *)
(***************************************************************************)
EXTENDS SdCard, TLAPS

Owing ==
  /\ do => cs
  /\ reply # "none" => mode = "ready"
  /\ pc = "busy" => reply = "r1"

IInv == TypeOK /\ Owing

Turns == 0 .. MaxCmd0 + MaxAcmd41 + MaxToken + MaxResponse + MaxBusy + MaxReady
Places == {"idle", "cmd0", "acmd41", "token", "r1", "data", "busy", "ready"}

(***************************************************************************)
(* The counter of a polling loop stays in its range.                       *)
(***************************************************************************)
LEMMA TurnsBounded ==
  /\ {0, 1, MaxCmd0, MaxAcmd41, MaxToken, MaxResponse, MaxBusy, MaxReady} \subseteq Turns
  /\ \A n \in Turns : n > 1 => n - 1 \in Turns
<1>1. /\ MaxCmd0 \in Nat \ {0} /\ MaxAcmd41 \in Nat \ {0} /\ MaxToken \in Nat \ {0}
      /\ MaxResponse \in Nat \ {0} /\ MaxBusy \in Nat \ {0} /\ MaxReady \in Nat \ {0}
  BY SdCardAssumption, Zenon
<1> QED
  BY <1>1 DEF Turns

(***************************************************************************)
(* The driver starts uninitialised, with the card deselected.              *)
(***************************************************************************)
LEMMA InitIInv == Init => IInv
<1> SUFFICES ASSUME Init PROVE IInv
  OBVIOUS
<1>1. 0 \in Turns
  BY TurnsBounded, Zenon
<1> QED
  BY <1>1, SdCardAssumption DEF Init, IInv, TypeOK, Owing, Turns, Results

(***************************************************************************)
(* The ways a step moves the driver on: into a loop, around it, out of it. *)
(***************************************************************************)
LEMMA Moves ==
  ASSUME TypeOK
  PROVE  /\ \A p, n : p \in Places /\ n \in Turns /\ Enter(p, n) =>
              pc' = p /\ left' \in Turns /\ result' \in Results
         /\ Again => pc' = pc /\ left' \in Turns /\ result' \in Results
         /\ \A r : r \in Results /\ Return(r) =>
              pc' = "idle" /\ left' \in Turns /\ result' = r
BY TurnsBounded DEF TypeOK, Enter, Again, Return, Turns, Places

(***************************************************************************)
(* Type and control of the next state, read off the parts of a step.       *)
(***************************************************************************)
LEMMA Together ==
  ASSUME inited' \in BOOLEAN, cs' \in BOOLEAN, do' \in BOOLEAN, busy' \in BOOLEAN,
         mode' \in {"off", "on", "idle", "ready"}, reply' \in {"none", "r1", "token"},
         pc' \in Places, left' \in Turns,
         status' \in {"FF", "FE", "00", "01", "05", "0B"}, result' \in Results,
         Owing'
  PROVE  IInv'
BY DEF IInv, TypeOK, Places, Turns

(***************************************************************************)
(* Every step of the driver, every call and the card keep the invariant.   *)
(***************************************************************************)
LEMMA NextIInv == IInv /\ [Next]_vars => IInv'
<1> SUFFICES ASSUME IInv, [Next]_vars PROVE IInv'
  OBVIOUS
<1>t. TypeOK /\ Owing
  BY DEF IInv
<1>m. /\ MaxCmd0 \in Turns /\ MaxAcmd41 \in Turns /\ MaxToken \in Turns
      /\ MaxResponse \in Turns /\ MaxBusy \in Turns /\ MaxReady \in Turns
      /\ 0 \in Turns /\ 1 \in Turns
  BY TurnsBounded
<1>1. CASE Cmd0
  <2>1. status' \in {"FF", "00", "01"} /\ mode' \in {"off", "on", "idle", "ready"}
    BY <1>1, <1>t DEF Cmd0, AnswersCmd0, Silent, TypeOK
  <2>2. pc' \in {"acmd41", "cmd0", "idle"} /\ left' \in Turns /\ result' \in Results
    BY <1>1, <1>t, <1>m, Moves DEF Cmd0, Places, Results
  <2>3. /\ cs' = FALSE /\ do' = FALSE /\ reply' = "none"
        /\ UNCHANGED <<inited, busy>>
    BY <1>1 DEF Cmd0, sd_clock_and_release
  <2> QED
    BY <2>1, <2>2, <2>3, <1>t, Together DEF TypeOK, Owing, Places
<1>2. CASE Acmd41
  <2>1. status' \in {"FF", "00", "01", "05"} /\ mode' \in {"off", "on", "idle", "ready"}
    BY <1>2, <1>t DEF Acmd41, AnswersAcmd41, Silent, TypeOK
  <2>2. pc' \in {"acmd41", "idle"} /\ left' \in Turns /\ result' \in Results
    BY <1>2, <1>t, <1>m, Moves DEF Acmd41, Results
  <2>3. /\ cs' = FALSE /\ do' = FALSE /\ reply' = "none"
        /\ UNCHANGED <<inited, busy>>
    BY <1>2 DEF Acmd41, sd_clock_and_release
  <2> QED
    BY <2>1, <2>2, <2>3, <1>t, Together DEF TypeOK, Owing, Places
<1>p. ASSUME NEW p \in Places, Polling(p), UNCHANGED busy, pc' \in Places, left' \in Turns,
             result' \in Results,
             \/ cs' = FALSE /\ reply' = "none" /\ do' = FALSE /\ pc' = "idle"
             \/ UNCHANGED <<cs, do, reply>> /\ pc' # "busy"
             \/ UNCHANGED <<cs, do, reply, pc>>
      PROVE  IInv'
  <2>1. status' \in {"FF", "00", "FE"} /\ UNCHANGED <<inited, mode>>
    BY <1>p DEF Polling, Polled
  <2>2. Owing'
    BY <2>1, <1>p, <1>t DEF Owing
  <2> QED
    BY <2>1, <2>2, <1>p, <1>t, Together DEF TypeOK
<1>3. CASE DataToken
  <2>1. \/ Leave("SDCARD_OK") \/ Leave("SDCARD_RWFAIL") \/ Reading
    BY <1>3 DEF DataToken
  <2>2. /\ pc' \in Places /\ left' \in Turns /\ result' \in Results
        /\ \/ cs' = FALSE /\ reply' = "none" /\ do' = FALSE /\ pc' = "idle"
           \/ UNCHANGED <<cs, do, reply, pc>>
    BY <2>1, <1>t, Moves DEF Leave, Reading, sd_clock_and_release, bus, Places, Results, TypeOK
  <2> QED
    BY <1>3, <2>2, <1>p DEF DataToken, Places
<1>4. CASE WriteResponse
  <2>1. \/ Leave("SDCARD_RWFAIL")
        \/ Reading
        \/ Enter("data", 1) /\ UNCHANGED <<bus, reply>>
    BY <1>4, Zenon DEF WriteResponse
  <2>2. /\ pc' \in Places /\ left' \in Turns /\ result' \in Results
        /\ \/ cs' = FALSE /\ reply' = "none" /\ do' = FALSE /\ pc' = "idle"
           \/ UNCHANGED <<cs, do, reply>> /\ pc' # "busy"
           \/ UNCHANGED <<cs, do, reply, pc>>
    BY <2>1, <1>t, <1>m, Moves DEF Leave, Reading, sd_clock_and_release, bus, Places, Results, TypeOK
  <2> QED
    BY <1>4, <2>2, <1>p DEF WriteResponse, Places
<1>5. CASE SendSector
  <2>1. /\ status' \in {"05", "0B", "00", "FF"}
        /\ UNCHANGED <<inited, mode, cs, do, reply>>
        /\ status' = "05" => reply = "r1"
    BY <1>5 DEF SendSector, bus
  <2>2. /\ pc' \in Places /\ left' \in Turns /\ result' \in Results /\ busy' \in BOOLEAN
        /\ pc' = "busy" => status' = "05"
    BY <1>5, <1>t, <1>m, Moves DEF SendSector, Places, Results, TypeOK
  <2>3. Owing'
    BY <2>1, <2>2, <1>t DEF Owing
  <2> QED
    BY <2>1, <2>2, <2>3, <1>t, Together DEF TypeOK
<1>6. CASE WaitWritten
  <2>1. \/ Leave("SDCARD_OK") \/ Reading
    BY <1>6 DEF WaitWritten
  <2>2. /\ pc' \in Places /\ left' \in Turns /\ result' \in Results
        /\ \/ cs' = FALSE /\ reply' = "none" /\ do' = FALSE /\ pc' = "idle"
           \/ UNCHANGED <<cs, do, reply, pc>>
    BY <2>1, <1>t, Moves DEF Leave, Reading, sd_clock_and_release, bus, Places, Results, TypeOK
  <2> QED
    BY <1>6, <2>2, <1>p DEF WaitWritten, Places
<1>7. CASE WaitReady
  <2>1. \/ Leave("SDCARD_OK") \/ Leave("SDCARD_RWFAIL") \/ Reading
    BY <1>7 DEF WaitReady
  <2>2. /\ pc' \in Places /\ left' \in Turns /\ result' \in Results
        /\ \/ cs' = FALSE /\ reply' = "none" /\ do' = FALSE /\ pc' = "idle"
           \/ UNCHANGED <<cs, do, reply, pc>>
    BY <2>1, <1>t, Moves DEF Leave, Reading, sd_clock_and_release, bus, Places, Results, TypeOK
  <2> QED
    BY <1>7, <2>2, <1>p DEF WaitReady, Places
<1>c. ASSUME NEW owed \in SUBSET {"none", "r1", "token"}, NEW p \in Places \ {"busy"},
             NEW n \in Turns, Command(owed, p, n)
      PROVE  IInv'
  <2>1. /\ UNCHANGED <<inited, status, mode, busy>>
        /\ \/ Return("SDCARD_NOT_INITED") /\ UNCHANGED <<cs, do, reply>>
           \/ /\ cs' = TRUE /\ do' = (mode # "off")
              /\ reply' \in (IF mode = "ready" /\ ~busy THEN owed ELSE {"none"})
              /\ Enter(p, n)
    BY <1>c DEF Command, select, bus
  <2>2. /\ pc' \in Places \ {"busy"} /\ left' \in Turns /\ result' \in Results
    BY <2>1, <1>t, Moves DEF Places, Results
  <2>3. cs' \in BOOLEAN /\ do' \in BOOLEAN /\ reply' \in {"none", "r1", "token"}
    BY <2>1, <1>t DEF TypeOK
  <2>4. Owing'
    BY <2>1, <2>2, <1>t DEF Owing
  <2> QED
    BY <2>1, <2>2, <2>3, <2>4, <1>t, Together DEF TypeOK
<1>8. CASE Read
  BY <1>8, <1>c, <1>m DEF Read, Places
<1>9. CASE sd_writesector
  BY <1>9, <1>c, <1>m DEF sd_writesector, Places
<1>10. CASE sd_waitforready
  BY <1>10, <1>c, <1>m DEF sd_waitforready, Places
<1>u. ASSUME PowerUp, inited' \in BOOLEAN PROVE IInv'
  <2>1. /\ mode' \in {"off", "on", "idle", "ready"}
        /\ cs' = FALSE /\ do' = FALSE /\ reply' = "none"
        /\ UNCHANGED <<status, busy>>
        /\ pc' = "cmd0" /\ left' \in Turns /\ result' \in Results
    BY <1>u, <1>t, <1>m, Moves DEF PowerUp, sd_clock_and_release, TypeOK, Places
  <2>2. Owing'
    BY <2>1 DEF Owing
  <2> QED
    BY <2>1, <2>2, <1>u, <1>t, Together DEF TypeOK, Places
<1>11. CASE \E complete \in BOOLEAN : sd_register(complete)
  <2>1. PICK complete \in BOOLEAN : sd_register(complete)
    BY <1>11
  <2>2. inited' \in BOOLEAN
    BY <2>1 DEF sd_register
  <2>3. CASE Return("SDCARD_NOT_INITED") /\ UNCHANGED <<status, bus, card>>
    <3>1. /\ UNCHANGED <<status, cs, do, mode, busy, reply>>
          /\ pc' = "idle" /\ left' \in Turns /\ result' \in Results
      BY <2>3, <1>t, Moves DEF bus, card, Results
    <3>2. Owing'
      BY <3>1, <1>t DEF Owing
    <3> QED
      BY <3>1, <3>2, <2>2, <1>t, Together DEF TypeOK, Places
  <2> QED
    BY <2>1, <2>2, <2>3, <1>u DEF sd_register
<1>12. CASE \E on \in BOOLEAN : sd_power(on)
  <2>1. PICK on \in BOOLEAN : sd_power(on)
    BY <1>12
  <2>2. inited' \in BOOLEAN
    BY <2>1, <1>t DEF sd_power, TypeOK
  <2>3. CASE ~on
    <3>1. /\ mode' = IF HasPower THEN "off" ELSE mode
          /\ busy' = (busy /\ ~HasPower)
          /\ do' = (do /\ ~HasPower)
          /\ reply' = IF HasPower THEN "none" ELSE reply
          /\ UNCHANGED <<cs, status>>
          /\ pc' = "idle" /\ left' \in Turns /\ result' \in Results
      BY <2>1, <2>3, <1>t, Moves DEF sd_power, Results
    <3>2. Owing'
      BY <3>1, <1>t DEF Owing
    <3>3. /\ mode' \in {"off", "on", "idle", "ready"} /\ reply' \in {"none", "r1", "token"}
          /\ busy' \in BOOLEAN /\ do' \in BOOLEAN
      BY <3>1, <1>t DEF TypeOK
    <3> QED
      BY <3>1, <3>2, <3>3, <2>2, <1>t, Together DEF TypeOK, Places
  <2> QED
    BY <2>1, <2>2, <2>3, <1>u DEF sd_power
<1>13. CASE CardFinishes
  <2>1. busy' = FALSE /\ UNCHANGED <<inited, pc, left, status, result, cs, do, mode, reply>>
    BY <1>13 DEF CardFinishes, driver, bus
  <2>2. pc' \in Places /\ left' \in Turns /\ result' \in Results
    BY <2>1, <1>t DEF TypeOK, Places, Turns
  <2>3. /\ inited' \in BOOLEAN /\ cs' \in BOOLEAN /\ do' \in BOOLEAN /\ busy' \in BOOLEAN
        /\ mode' \in {"off", "on", "idle", "ready"} /\ reply' \in {"none", "r1", "token"}
        /\ status' \in {"FF", "FE", "00", "01", "05", "0B"}
    BY <2>1, <1>t DEF TypeOK
  <2>4. Owing'
    BY <2>1, <1>t DEF Owing
  <2> QED
    BY <2>2, <2>3, <2>4, Together
<1>14. CASE UNCHANGED vars
  <2>1. UNCHANGED <<inited, pc, left, status, result, cs, do, mode, busy, reply>>
    BY <1>14 DEF vars, driver, bus, card
  <2>2. pc' \in Places /\ left' \in Turns /\ result' \in Results
    BY <2>1, <1>t DEF TypeOK, Places, Turns
  <2>3. /\ inited' \in BOOLEAN /\ cs' \in BOOLEAN /\ do' \in BOOLEAN /\ busy' \in BOOLEAN
        /\ mode' \in {"off", "on", "idle", "ready"} /\ reply' \in {"none", "r1", "token"}
        /\ status' \in {"FF", "FE", "00", "01", "05", "0B"}
    BY <2>1, <1>t DEF TypeOK
  <2>4. Owing'
    BY <2>1, <1>t DEF Owing
  <2> QED
    BY <2>2, <2>3, <2>4, Together
<1> QED
  BY <1>1, <1>2, <1>3, <1>4, <1>5, <1>6, <1>7, <1>8, <1>9, <1>10, <1>11, <1>12, <1>13, <1>14
  DEF Next, Driver, Call

(***************************************************************************)
(* Every variable of the driver and of the card keeps its type.            *)
(***************************************************************************)
THEOREM TypeCorrect == Spec => []TypeOK
<1>1. IInv => TypeOK
  BY DEF IInv
<1> QED
  BY <1>1, InitIInv, NextIInv, PTL DEF Spec

(***************************************************************************)
(* A card that is not selected never drives the bus between two calls:     *)
(* every deselect of sdcard.c is followed by clocks.                       *)
(***************************************************************************)
THEOREM QuietCorrect == Spec => []QuietUnlessSelected
<1>1. IInv => QuietUnlessSelected
  BY DEF IInv, Owing, QuietUnlessSelected
<1> QED
  BY <1>1, InitIInv, NextIInv, PTL DEF Spec

(***************************************************************************)
(* A call that returns does so from one of its polling loops.              *)
(***************************************************************************)
LEMMA ReturningSteps ==
  ASSUME IInv, [Next]_vars, Returning
  PROVE  Driver
<1>1. pc # "idle" /\ pc' = "idle"
  BY DEF Returning
<1>2. ~Call
  BY <1>1, Zenon DEF Call, sd_register, sd_power, Read, sd_writesector, sd_waitforready, Command
<1>3. ~CardFinishes
  BY <1>1 DEF CardFinishes, driver
<1>4. ~UNCHANGED vars
  BY <1>1 DEF vars, driver
<1> QED
  BY <1>2, <1>3, <1>4 DEF Next

(***************************************************************************)
(* SDCARD_OK is earned, for any number of turns of the loops: the data     *)
(* came from a ready card, the sector was accepted after its command was   *)
(* answered, the card waited for is no longer programming.                 *)
(***************************************************************************)
THEOREM OkIsEarnedCorrect == Spec => OkIsEarned
<1> DEFINE Earned ==
      Returning /\ result' = "SDCARD_OK" =>
        CASE pc = "token"  -> mode = "ready" /\ ~busy /\ reply = "token"
          [] pc = "busy"   -> reply = "r1"
          [] pc = "ready"  -> ~busy'
          [] OTHER         -> pc = "acmd41"
<1>1. IInv /\ [Next]_vars => [Earned]_vars
  <2> SUFFICES ASSUME IInv, [Next]_vars, Returning, result' = "SDCARD_OK" PROVE Earned
    BY DEF Returning
  <2>0. Driver /\ Owing /\ pc' = "idle" /\ pc # "idle"
    BY ReturningSteps DEF IInv, Returning
  <2>1. CASE Cmd0
    BY <2>1, <2>0 DEF Cmd0, Enter, Again, Return
  <2>2. CASE Acmd41
    BY <2>2 DEF Acmd41
  <2>3. CASE DataToken
    <3>1. status' = "FE" /\ status' \in Polled /\ pc = "token"
      BY <2>3, <2>0 DEF DataToken, Polling, Reading, Again, Leave, Return
    <3>2. ~busy /\ reply = "token"
      BY <3>1 DEF Polled
    <3> QED
      BY <3>1, <3>2, <2>0 DEF Owing
  <2>4. CASE WriteResponse
    BY <2>4, <2>0 DEF WriteResponse, Polling, Reading, Again, Leave, Return, Enter
  <2>5. CASE SendSector
    BY <2>5, <2>0 DEF SendSector, Return, Enter
  <2>6. CASE WaitWritten
    <3>1. pc = "busy"
      BY <2>6 DEF WaitWritten, Polling
    <3> QED
      BY <3>1, <2>0 DEF Owing
  <2>7. CASE WaitReady
    <3>1. status' = "FF" /\ status' \in Polled /\ pc = "ready" /\ busy' = busy
      BY <2>7, <2>0 DEF WaitReady, Polling, Reading, Again, Leave, Return
    <3>2. ~busy
      BY <3>1 DEF Polled
    <3> QED
      BY <3>1, <3>2
  <2> QED
    BY <2>0, <2>1, <2>2, <2>3, <2>4, <2>5, <2>6, <2>7 DEF Driver
<1> QED
  BY <1>1, InitIInv, NextIInv, PTL DEF Spec, OkIsEarned

(***************************************************************************)
(* A call that does not fail on refused data leaves the bus free.          *)
(***************************************************************************)
THEOREM BusLeftFreeCorrect == Spec => BusLeftFree
<1> DEFINE Free == Returning /\ pc # "data" => ~cs' /\ ~do'
<1>1. IInv /\ [Next]_vars => [Free]_vars
  <2> SUFFICES ASSUME IInv, [Next]_vars, Returning, pc # "data" PROVE ~cs' /\ ~do'
    BY DEF Returning
  <2>0. Driver /\ pc' = "idle" /\ pc # "idle"
    BY ReturningSteps DEF Returning
  <2>1. ~Reading /\ ~SendSector
    BY <2>0 DEF Reading, Again, SendSector
  <2>2. \A p, n : Enter(p, n) => p = "idle"
    BY <2>0 DEF Enter
  <2>3. sd_clock_and_release
    BY <2>0, <2>1, <2>2 DEF Driver, Cmd0, Acmd41, DataToken, WriteResponse, WaitWritten,
                            WaitReady, Leave
  <2> QED
    BY <2>3 DEF sd_clock_and_release
<1> QED
  BY <1>1, InitIInv, NextIInv, PTL DEF Spec, BusLeftFree
=============================================================================
