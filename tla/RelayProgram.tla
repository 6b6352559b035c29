----------------------------- MODULE RelayProgram -----------------------------
(***************************************************************************)
(* The relay of programs/templogger: commands that arrive over the serial  *)
(* line, the once-a-second check of statemachine, and two timers that end  *)
(* the relay's time and the waiting time after it.                         *)
(*                                                                         *)
(* All of it runs in interrupts, and all of it with interrupts enabled:    *)
(* the timer's interrupt enables them before it calls a callback, and      *)
(* setProgramVariable after it has copied the command.  So any handler may *)
(* be interrupted between two of its assignments by another one, which     *)
(* then runs to its end first.  A running handler is the list of the       *)
(* assignments it still has to make.                                       *)
(*                                                                         *)
(* The timer service is what Timer1Clock says: registering and removing    *)
(* are one step, and a timer fires after its delay, here a second at       *)
(* least, which is longer than handlers run.                               *)
(***************************************************************************)
EXTENDS LogSchedule, Sequences

CONSTANT MaxNest  \* bound: handlers running on top of each other

ASSUME NestAssumption == MaxNest \in Nat \ {0}

VARIABLES
  mem,    \* the program's variables, the relay's pin and the two timers
  stack,  \* the running handlers, the innermost last
  raced   \* history: a stop command came between a handler's decision to switch the
          \* relay on and its doing so; until a stop command comes alone

vars == <<schedule, mem, stack, raced>>

(***************************************************************************)
(* A timer is "off", "new" since it was registered by a handler of the     *)
(* present stack, or "set".  stale: programValue holds two dots behind its *)
(* second character, where the value of the last command that had one is   *)
(* left.                                                                   *)
(***************************************************************************)
Memory ==
  [alwaysRun : {0, 1}, programChar : {"blank", "R"}, runningChar : {"blank", "+", "O", "W"},
   relay : {0, 1}, stale : BOOLEAN, relayTimer : {"off", "new", "set"},
   waitTimer : {"off", "new", "set"}]

Init ==
  /\ ScheduleInit
  /\ mem = [alwaysRun |-> 0, programChar |-> "blank", runningChar |-> "blank", relay |-> 0,
            stale |-> FALSE, relayTimer |-> "off", waitTimer |-> "off"]
  /\ stack = <<>> /\ raced = FALSE

-----------------------------------------------------------------------------
(***************************************************************************)
(* The handlers, as lists of assignments.                                  *)
(***************************************************************************)
\* mutant: the display still shows a 'W'
stopWaitingShown == << <<"waitTimer", "off">> >>

stopWaiting == << <<"waitTimer", "off">>, <<"runningChar", "blank">> >>

startWaiting == << <<"runningChar", "W">>, <<"waitTimer", "new">> >>

stopRelayTimer == << <<"relayTimer", "off">>, <<"relay", 0>> >> \o startWaiting

\* mutants: the digit for the letter; the timer is forgotten
startRelayTimerDigit == << <<"relay", 1>>, <<"relayTimer", "new">>, <<"runningChar", "0">> >>
startRelayTimerUntimed == << <<"relay", 1>>, <<"runningChar", "O">> >>

startRelayTimer == << <<"relay", 1>>, <<"relayTimer", "new">>, <<"runningChar", "O">> >>

setRelay == << <<"setRelay">> >>

\* mutant: the relay is left as it is
stopCommandKeepsRelay == << <<"programChar", "blank">> >> \o stopWaiting

stopCommand == << <<"programChar", "blank">>, <<"relay", 0>> >> \o stopWaiting

(***************************************************************************)
(* What setRelay decides.  Whether the temperature is low enough depends   *)
(* on the sensor, program_c and program_d, and is left open.               *)
(***************************************************************************)
\* mutant: alwaysRun is not looked at
DecisionsTimed ==
  IF mem.programChar = "R" /\ mem.runningChar = "blank" THEN {startRelayTimer, << <<"relay", 0>> >>}
  ELSE {<<>>}

Decisions ==
  IF mem.alwaysRun = 1 THEN {<< <<"relay", 1>>, <<"runningChar", "+">> >>}
  ELSE IF mem.programChar = "R" /\ mem.runningChar = "blank"
  THEN {startRelayTimer, << <<"relay", 0>> >>}
  ELSE {<<>>}

(***************************************************************************)
(* One step of the innermost handler.  When the last one returns, enough   *)
(* time passes for the timers.                                             *)
(***************************************************************************)
Settled(m) ==
  [m EXCEPT !.relayTimer = IF @ = "new" THEN "set" ELSE @,
            !.waitTimer = IF @ = "new" THEN "set" ELSE @]

Return(todo) ==
  LET rest == SubSeq(stack, 1, Len(stack) - 1)
  IN  stack' = IF todo = <<>> THEN rest
               ELSE Append(rest, [stack[Len(stack)] EXCEPT !.todo = todo])

Step ==
  /\ stack # <<>>
  /\ LET todo == stack[Len(stack)].todo
         op == Head(todo)
     IN  \/ /\ op = <<"setRelay">>
            /\ \E d \in Decisions : Return(d \o Tail(todo))
            /\ mem' = IF stack' = <<>> THEN Settled(mem) ELSE mem
         \/ /\ op # <<"setRelay">>
            /\ Return(Tail(todo))
            /\ LET m == [mem EXCEPT ![op[1]] = op[2]]
               IN  mem' = IF stack' = <<>> THEN Settled(m) ELSE m
  /\ UNCHANGED <<schedule, raced>>

Call(from, todo) ==
  /\ Len(stack) < MaxNest
  /\ stack' = Append(stack, [from |-> from, todo |-> todo])

(***************************************************************************)
(* The timer's interrupt.  Both relay timers are recurring: the tick       *)
(* registers them again before their callback removes them.  statemachine  *)
(* is not called again before its last call has returned.                  *)
(***************************************************************************)
Tick ==
  /\ \A i \in DOMAIN stack : stack[i].from # "statemachine"
  /\ statemachine
  /\ IF IsLog \/ IsSecond THEN Call("statemachine", setRelay) ELSE UNCHANGED stack
  /\ UNCHANGED <<mem, raced>>

Fire(timer, callback) ==
  /\ mem[timer] = "set"
  /\ Call("other", callback)
  /\ mem' = [mem EXCEPT ![timer] = "new"]
  /\ UNCHANGED <<schedule, raced>>

(***************************************************************************)
(* The receive interrupt with a whole command: setProgramVariable.  A      *)
(* command is refused when there is more than one dot in its value; a      *)
(* command of one letter is parsed with the value of an earlier one.  'R'  *)
(* also needs four settings that are not 0, which is left open.            *)
(***************************************************************************)
SwitchesOn == {<<"relay", 1>>, <<"runningChar", "+">>, <<"runningChar", "O">>}

Deciding ==
  \E i \in DOMAIN stack : \E j \in DOMAIN stack[i].todo : stack[i].todo[j] \in SwitchesOn

Run ==
  /\ ~mem.stale
  /\ Call("other", << <<"alwaysRun", 1>>, <<"relay", 1>> >>)
  /\ UNCHANGED <<schedule, mem, raced>>

Stop(todo) ==
  /\ ~mem.stale
  /\ Call("other", todo)
  /\ raced' = (stack # <<>> /\ (raced \/ Deciding))
  /\ UNCHANGED <<schedule, mem>>

Program ==
  /\ ~mem.stale
  /\ Call("other", << <<"programChar", "R">> >>)
  /\ UNCHANGED <<schedule, mem, raced>>

Change == Call("other", setRelay) /\ mem' = [mem EXCEPT !.stale = FALSE] /\ UNCHANGED <<schedule, raced>>

Refused == mem' = [mem EXCEPT !.stale = TRUE] /\ UNCHANGED <<schedule, stack, raced>>

setProgramVariable ==
  \/ Run
  \/ Stop(<< <<"alwaysRun", 0>> >> \o stopCommand)
  \/ Stop(stopCommand)
  \/ Program
  \/ Change
  \/ Refused
  \/ \E s \in Intervals :
       setInterval(s) /\ mem' = [mem EXCEPT !.stale = FALSE] /\ UNCHANGED <<stack, raced>>

Next ==
  \/ Step
  \/ Tick
  \/ Fire("relayTimer", stopRelayTimer)
  \/ Fire("waitTimer", stopWaiting)
  \/ setProgramVariable

(***************************************************************************)
(* A handler runs to its end, the state machine is called again and again, *)
(* and a timer that stays registered fires, however often the serial line  *)
(* interrupts: the timer's interrupt is served before the serial line's.   *)
(***************************************************************************)
Spec ==
  /\ Init /\ [][Next]_vars
  /\ WF_vars(Step) /\ SF_vars(Tick)
  /\ SF_vars(Fire("relayTimer", stopRelayTimer)) /\ SF_vars(Fire("waitTimer", stopWaiting))

-----------------------------------------------------------------------------
(***************************************************************************)
(* Type correctness, with the handlers' lists.                             *)
(***************************************************************************)
TypeOK ==
  /\ mem \in Memory /\ raced \in BOOLEAN
  /\ Len(stack) <= MaxNest
  /\ \A i \in DOMAIN stack :
       stack[i].from \in {"statemachine", "other"} /\ stack[i].todo # <<>>

Idle == stack = <<>> /\ ~raced

(***************************************************************************)
(* "Deactivate program": once no handler runs, a program that was stopped, *)
(* and that is not always on, has its relay off, although the relay timer  *)
(* of the stopped program goes on and the check of the last second may     *)
(* have been interrupted by the stop.                                      *)
(***************************************************************************)
StopsWhenTold ==
  Idle /\ mem.programChar = "blank" /\ mem.alwaysRun = 0 => mem.relay = 0

(***************************************************************************)
(* Nothing is switched on for good by a program: while the relay is on and *)
(* alwaysRun is not, the timer that switches it off is running, across     *)
(* stops, restarts and a relay timer left over from an earlier start.      *)
(***************************************************************************)
OnIsTimed ==
  Idle /\ mem.relay = 1 /\ mem.alwaysRun = 0 => mem.relayTimer = "set"

(***************************************************************************)
(* The program never gets stuck: while runningChar keeps setRelay from     *)
(* looking at the temperature, a timer that ends this is running, or       *)
(* alwaysRun is on.                                                        *)
(***************************************************************************)
NeverStuck ==
  Idle => /\ mem.runningChar = "O" => mem.relayTimer = "set"
          /\ mem.runningChar = "W" => mem.waitTimer = "set"
          /\ mem.runningChar = "+" => mem.alwaysRun = 1

(***************************************************************************)
(* After '+', when no more commands come, the relay ends up on for good,   *)
(* although a timer of the program may still switch it off once.           *)
(***************************************************************************)
AlwaysOnSettles ==
  <>[](mem.alwaysRun = 1) /\ <>[][~setProgramVariable]_vars => <>[](mem.relay = 1)
=============================================================================
