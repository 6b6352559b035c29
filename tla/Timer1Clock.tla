----------------------------- MODULE Timer1Clock -----------------------------
(***************************************************************************)
(* The callback service of board_support/timer1_clock.c: the chain of      *)
(* registered callbacks, the TIMER1_COMPA interrupt that advances the wall *)
(* time and picks at most one due callback per millisecond, and the        *)
(* dispatch of that callback after interrupts have been enabled again, so  *)
(* that further ticks nest on top of a running callback.                   *)
(*                                                                         *)
(* Here the linked list is the sequence of its elements, each carrying the *)
(* live fields of its timer1_callback struct, and register and unregister  *)
(* are one step: their callers have interrupts off or are not raced.       *)
(* CallbackChain models the pointers and the races.                        *)
(*                                                                         *)
(* Registration and removal may come from the main loop, from a running    *)
(* callback or from an interrupt of the application, so they are enabled   *)
(* between any two other steps.                                            *)
(***************************************************************************)
EXTENDS WallTime, Sequences, FiniteSets

CONSTANTS
  Callbacks,   \* the timer1_callback structs of the application
  Delays,      \* the <<sec, msec>> pairs callers register with
  MaxDay,      \* bound: days the wall time runs for
  MaxNest      \* bound: tick interrupts nested on the stack

(***************************************************************************)
(* msec is documented as "range 0-999 is valid" (timer1_clock.h, line 105).*)
(***************************************************************************)
ASSUME ClockAssumption ==
  /\ Delays \subseteq (0 .. SecMod - 1) \X (0 .. MsecPerSec - 1)
  /\ MaxDay \in Nat /\ MaxDay + 1 < DayMod
  /\ MaxNest \in Nat
  /\ IsFiniteSet(Callbacks)

VARIABLES
  walltimer,   \* timer1_clock_walltimer
  chain,       \* timer1_callback_chain, first element first
  stack        \* the interrupt frames that have a callback to run, outermost first

vars == <<walltimer, chain, stack>>

(***************************************************************************)
(* An element of the chain.  sec and msec are the delay kept for           *)
(* re-registration (time.freerunning_sec and recurring_msec).  Two fields  *)
(* are history: left counts down the milliseconds until the requested      *)
(* delay has passed, then how late the callback is, as far as Overdue; and *)
(* messed says that timer1_clock_reset was called since the registration.  *)
(***************************************************************************)
Overdue == -Cardinality(Callbacks)

Entry ==
  [node : Callbacks, time : timer1_wall_time, recurring : BOOLEAN,
   sec : 0 .. SecMod - 1, msec : 0 .. MsecPerSec - 1,
   left : Int, messed : BOOLEAN]

(***************************************************************************)
(* A frame: the callback the interrupt picked, and whether the call has    *)
(* been made.                                                              *)
(***************************************************************************)
Frame == [node : Callbacks, running : BOOLEAN]

Init ==
  /\ walltimer = ZeroTime
  /\ chain = <<>>
  /\ stack = <<>>

(***************************************************************************)
(* timer1_clock_insert_into_chain appends unless the struct is already     *)
(* linked; the fields are overwritten in either case.                      *)
(***************************************************************************)
Registered(w, c, sec, msec, recurring) ==
  [node |-> c, time |-> DueTime(w, sec, msec), recurring |-> recurring,
   sec |-> sec, msec |-> msec, left |-> DelayMillis(sec, msec), messed |-> FALSE]

Linked(c) == \E i \in DOMAIN chain : chain[i].node = c

(***************************************************************************)
(* Mutant: the search for the struct in the chain is left out.             *)
(***************************************************************************)
RegisterAppends(c, sec, msec, recurring) ==
  /\ Len(chain) <= Cardinality(Callbacks)
  /\ chain' = Append(chain, Registered(walltimer, c, sec, msec, recurring))
  /\ UNCHANGED <<walltimer, stack>>

timer1_clock_register_callback(c, sec, msec, recurring) ==
  LET e == Registered(walltimer, c, sec, msec, recurring)
  IN  /\ \/ /\ ~Linked(c)
            /\ chain' = Append(chain, e)
         \/ \E i \in DOMAIN chain :
              /\ chain[i].node = c
              /\ chain' = [chain EXCEPT ![i] = e]
      /\ UNCHANGED <<walltimer, stack>>

(***************************************************************************)
(* s without its i-th element.                                             *)
(***************************************************************************)
Without(s, i) == [j \in 1 .. Len(s) - 1 |-> IF j < i THEN s[j] ELSE s[j + 1]]

timer1_clock_unregister_callback(c) ==
  /\ \E i \in DOMAIN chain :
       /\ chain[i].node = c
       /\ chain' = Without(chain, i)
  /\ UNCHANGED <<walltimer, stack>>

(***************************************************************************)
(* ISR(TIMER1_COMPA_vect), up to the end of its atomic block.  A due       *)
(* recurring callback is registered again, a due one-shot is removed; the  *)
(* search stops at the first due element, which leaves the others to later *)
(* ticks.                                                                  *)
(***************************************************************************)
OneLess(left) == IF left > Overdue THEN left - 1 ELSE left

Aged == [i \in DOMAIN chain |-> [chain[i] EXCEPT !.left = OneLess(@)]]

FirstDue(w, i) ==
  /\ IsDue(w, chain[i].time)
  /\ \A j \in DOMAIN chain : j < i => ~IsDue(w, chain[j].time)

Selected(e) == [node |-> e.node, running |-> FALSE]

NoneDue(w) ==
  /\ \A i \in DOMAIN chain : ~IsDue(w, chain[i].time)
  /\ chain' = Aged
  /\ UNCHANGED stack

PickRecurring(w, i) ==
  /\ chain[i].recurring
  /\ chain' = [Aged EXCEPT ![i] =
                 Registered(w, chain[i].node, chain[i].sec, chain[i].msec, TRUE)]
  /\ stack' = Append(stack, Selected(chain[i]))

PickOneShot(w, i) ==
  /\ ~chain[i].recurring
  /\ chain' = Without(Aged, i)
  /\ stack' = Append(stack, Selected(chain[i]))

TIMER1_COMPA_vect ==
  LET w == NextWallTime(walltimer)
  IN  /\ walltimer.day < MaxDay
      /\ Len(stack) < MaxNest
      /\ walltimer' = w
      /\ \/ NoneDue(w)
         \/ \E i \in DOMAIN chain :
              /\ FirstDue(w, i)
              /\ PickRecurring(w, i) \/ PickOneShot(w, i)

(***************************************************************************)
(* The rest of the handler, with interrupts on: the call and its return.   *)
(* Only the innermost frame runs.                                          *)
(***************************************************************************)
CallCallback ==
  /\ stack # <<>>
  /\ ~stack[Len(stack)].running
  /\ stack' = [stack EXCEPT ![Len(stack)].running = TRUE]
  /\ UNCHANGED <<walltimer, chain>>

CallbackReturns ==
  /\ stack # <<>>
  /\ stack[Len(stack)].running
  /\ stack' = SubSeq(stack, 1, Len(stack) - 1)
  /\ UNCHANGED <<walltimer, chain>>

(***************************************************************************)
(* timer1_clock_reset restarts the wall time and leaves the chain alone:   *)
(* "Messes with already registered callbacks".  timer1_clock_init also     *)
(* empties the chain.                                                      *)
(***************************************************************************)
timer1_clock_reset ==
  /\ walltimer' = ZeroTime
  /\ chain' = [i \in DOMAIN chain |-> [chain[i] EXCEPT !.messed = TRUE]]
  /\ UNCHANGED stack

timer1_clock_init ==
  /\ walltimer' = ZeroTime
  /\ chain' = <<>>
  /\ UNCHANGED stack

Next ==
  \/ TIMER1_COMPA_vect
  \/ CallCallback
  \/ CallbackReturns
  \/ \E c \in Callbacks, d \in Delays, recurring \in BOOLEAN :
       timer1_clock_register_callback(c, d[1], d[2], recurring)
  \/ \E c \in Callbacks : timer1_clock_unregister_callback(c)
  \/ timer1_clock_reset
  \/ timer1_clock_init

Spec == Init /\ [][Next]_vars

-----------------------------------------------------------------------------
(***************************************************************************)
(* Type correctness: every digit of the wall time and of every due time    *)
(* that the carries of the interrupt and of register compute stays within  *)
(* its documented range.                                                   *)
(***************************************************************************)
TypeOK ==
  /\ walltimer \in timer1_wall_time
  /\ walltimer.day <= MaxDay
  /\ chain \in Seq(Entry)
  /\ stack \in Seq(Frame)

(***************************************************************************)
(* A struct is linked at most once, whatever sequence of registrations,    *)
(* re-registrations by the interrupt and removals led here; a second link  *)
(* would close the list into a cycle the interrupt never leaves.           *)
(***************************************************************************)
LinkedOnce ==
  \A i, j \in DOMAIN chain : chain[i].node = chain[j].node => i = j

(***************************************************************************)
(* No callback is picked before the seconds and milliseconds it was        *)
(* registered with have passed, across every carry of the wall time, every *)
(* reset and every re-registration.                                        *)
(***************************************************************************)
Picks(c) ==
  /\ Len(stack') > Len(stack)
  /\ stack'[Len(stack')].node = c

NeverEarly ==
  [][\A i \in DOMAIN chain :
       Picks(chain[i].node) => OneLess(chain[i].left) <= 0]_vars

(***************************************************************************)
(* One callback per tick is enough when no delay is shorter than the       *)
(* number of callbacks: whatever the order of the chain, a callback that   *)
(* is due is picked fewer than Cardinality(Callbacks) ticks late.          *)
(***************************************************************************)
SparseDelays ==
  \A d \in Delays : DelayMillis(d[1], d[2]) >= Cardinality(Callbacks)

LatenessBound ==
  SparseDelays =>
    \A i \in DOMAIN chain : chain[i].messed \/ chain[i].left > 1 + Overdue

(***************************************************************************)
(* The wall time, read as one number, counts ticks: every change of it is  *)
(* one millisecond forward or a restart from zero.                         *)
(***************************************************************************)
WallTimeCounts ==
  [][Millis(walltimer') \in {0, Millis(walltimer) + 1}]_walltimer
=============================================================================
