------------------------------ MODULE Quadrature ------------------------------
(***************************************************************************)
(* utils/quadrature_decoder.c, as programs/led_alarm_clock uses it: a      *)
(* rotary encoder whose every edge raises a pin change interrupt, the      *)
(* decoder called by the interrupt, and the filter that reports one event  *)
(* per detent, four edges.                                                 *)
(*                                                                         *)
(* The decoder reads each pin twice, at four different moments, and the    *)
(* interrupt is an ISR_NOBLOCK one: the encoder may turn between the       *)
(* reads, and the decoder may be interrupted by itself.                    *)
(***************************************************************************)
EXTENDS Integers, Sequences

CONSTANTS
  MaxMoves,  \* bound on the edges of the encoder
  MaxNest    \* bound on the interrupts on the stack; 1 is an ISR without ISR_NOBLOCK

ASSUME QuadratureAssumption == MaxMoves \in Nat /\ MaxNest \in Nat \ {0}

VARIABLES
  start,        \* the encoder: how it stood when the decoder was initialised,
  pos, moves,   \* the edges up less the edges down since, and their number
  pending,      \* the pin change flag
  stack,        \* the running calls of handleEvent, the innermost last
  lastQuad,
  index,        \* of the detent filter
  counted,      \* events given to the filter, up less down
  reported,     \* events the filter reported, up less down
  clean,        \* so far every edge found the decoder at rest
  nested        \* the decoder has interrupted itself

encoder == <<start, pos, moves, clean>>
knobVars == <<encoder, pending, stack, lastQuad, index, counted, reported, nested>>

(***************************************************************************)
(* The encoder (external): turning up, the pins A and B go through 00, 01, *)
(* 11, 10, which is the order the decoder counts as up.                    *)
(***************************************************************************)
aInput == (start + pos) % 4 \in {2, 3}
bInput == (start + pos) % 4 \in {1, 2}

\* quadrature_decoder_init, quadrature_decoder_detentFilterInit
KnobInit ==
  /\ start \in 0 .. 3 /\ pos = 0 /\ moves = 0 /\ clean = TRUE
  /\ pending = FALSE /\ nested = FALSE /\ stack = <<>>
  /\ lastQuad = <<aInput, bInput>>
  /\ index = 16 /\ counted = 0 /\ reported = 0

Turn(d) ==
  /\ moves < MaxMoves
  /\ moves' = moves + 1 /\ pos' = pos + d
  /\ pending' = TRUE
  /\ clean' = (clean /\ ~pending /\ stack = <<>>)
  /\ UNCHANGED <<start, stack, lastQuad, index, counted, reported, nested>>

-----------------------------------------------------------------------------
(***************************************************************************)
(* One running call of quadrature_decoder_handleEvent, one step for each   *)
(* access to a pin or to lastQuad, then one for the filter and one for its *)
(* callback.                                                               *)
(***************************************************************************)
Frame == [at : {"a", "b", "newA", "newB", "diff", "store", "filter", "report"},
          a : BOOLEAN, b : BOOLEAN, newA : BOOLEAN, newB : BOOLEAN,
          changed : SUBSET {"A", "B"}, event : {-1, 0, 1}]

EmptyFrame == [at |-> "a", a |-> FALSE, b |-> FALSE, newA |-> FALSE, newB |-> FALSE,
               changed |-> {}, event |-> 0]

Rest == SubSeq(stack, 1, Len(stack) - 1)
TopFrame == stack[Len(stack)]
At(place) == stack # <<>> /\ TopFrame.at = place
Continue(frame) == stack' = Append(Rest, frame)

InterruptKeepsFlag ==  \* mutant: the flag is not cleared when the interrupt is served
  /\ pending /\ Len(stack) < MaxNest
  /\ stack' = Append(stack, EmptyFrame)
  /\ nested' = (nested \/ stack # <<>>)
  /\ UNCHANGED <<encoder, pending, lastQuad, index, counted, reported>>

PCINT2_vect ==
  /\ pending /\ Len(stack) < MaxNest
  /\ pending' = FALSE
  /\ stack' = Append(stack, EmptyFrame)
  /\ nested' = (nested \/ stack # <<>>)
  /\ UNCHANGED <<encoder, lastQuad, index, counted, reported>>

ReadPin ==
  /\ \/ At("a") /\ Continue([TopFrame EXCEPT !.a = aInput, !.at = "b"])
     \/ At("b") /\ Continue([TopFrame EXCEPT !.b = bInput, !.at = "newA"])
     \/ At("newA") /\ Continue([TopFrame EXCEPT !.newA = aInput, !.at = "newB"])
     \/ At("newB") /\ Continue([TopFrame EXCEPT !.newB = bInput, !.at = "diff"])
  /\ UNCHANGED <<encoder, pending, lastQuad, index, counted, reported, nested>>

Diff ==
  /\ At("diff")
  /\ LET changed == {p \in {"A", "B"} : IF p = "A" THEN lastQuad[1] # TopFrame.newA
                                                     ELSE lastQuad[2] # TopFrame.newB}
     IN  Continue([TopFrame EXCEPT !.changed = changed, !.at = "store"])
  /\ UNCHANGED <<encoder, pending, lastQuad, index, counted, reported, nested>>

\* mutants: two changes at once counted as up; the test of B as that of A
DirectionOfNoise(f) ==
  IF (f.changed = {"A"} /\ f.a # f.b) \/ (f.changed = {"B"} /\ f.a = f.b) THEN -1 ELSE 1

DirectionSame(f) ==
  IF f.changed \notin {{"A"}, {"B"}} THEN 0 ELSE IF f.a # f.b THEN -1 ELSE 1

Direction(f) ==
  CASE f.changed = {"A"} -> IF f.a # f.b THEN -1 ELSE 1
    [] f.changed = {"B"} -> IF f.a = f.b THEN -1 ELSE 1
    [] OTHER             -> 0

Store ==
  /\ At("store")
  /\ lastQuad' = <<TopFrame.newA, TopFrame.newB>>
  /\ stack' = IF Direction(TopFrame) = 0 THEN Rest
              ELSE Append(Rest, [TopFrame EXCEPT !.event = Direction(TopFrame), !.at = "filter"])
  /\ UNCHANGED <<encoder, pending, index, counted, reported, nested>>

\* mutants: one edge too late upwards; one edge too early downwards
EventLate(i) == IF i = 16 + 5 THEN 1 ELSE IF 16 - 4 >= i THEN -1 ELSE 0
EventEarly(i) == IF i = 16 + 4 THEN 1 ELSE IF 16 - 3 >= i THEN -1 ELSE 0

Event(i) == IF i = 16 + 4 THEN 1 ELSE IF 16 - 4 >= i THEN -1 ELSE 0

quadrature_decoder_detentFilterHandleEvent ==
  /\ At("filter")
  /\ LET moved == index + TopFrame.event
     IN  /\ index' = IF Event(moved) = 0 THEN moved ELSE 16
         /\ stack' = IF Event(moved) = 0 THEN Rest
                     ELSE Append(Rest, [TopFrame EXCEPT !.event = Event(moved), !.at = "report"])
  /\ counted' = counted + TopFrame.event
  /\ UNCHANGED <<encoder, pending, lastQuad, reported, nested>>

Report ==
  /\ At("report")
  /\ reported' = reported + TopFrame.event
  /\ stack' = Rest
  /\ UNCHANGED <<encoder, pending, lastQuad, index, counted, nested>>

quadrature_decoder_handleEvent ==
  ReadPin \/ Diff \/ Store \/ quadrature_decoder_detentFilterHandleEvent \/ Report

Decoder == PCINT2_vect \/ quadrature_decoder_handleEvent
KnobNext == Decoder \/ \E d \in {-1, 1} : Turn(d)

(***************************************************************************)
(* The interrupt is served and its handler runs on; the knob may rest.     *)
(***************************************************************************)
KnobSpec == KnobInit /\ [][KnobNext]_knobVars /\ WF_knobVars(Decoder)

-----------------------------------------------------------------------------
(***************************************************************************)
(* Type correctness: the index of the detent filter stays strictly between *)
(* the two detents.                                                        *)
(***************************************************************************)
KnobTypeOK ==
  /\ start \in 0 .. 3 /\ pos \in -MaxMoves .. MaxMoves /\ moves \in 0 .. MaxMoves
  /\ pending \in BOOLEAN /\ clean \in BOOLEAN /\ nested \in BOOLEAN
  /\ stack \in Seq(Frame) /\ Len(stack) <= MaxNest
  /\ lastQuad \in BOOLEAN \X BOOLEAN
  /\ index \in 13 .. 19
  /\ counted \in Int /\ reported \in Int

AtRest == stack = <<>> /\ ~pending

(***************************************************************************)
(* The filter loses nothing: at rest, the events it was given are four for *)
(* each event it reported and those its index holds, also when it was      *)
(* interrupted by itself, by any mixture of turns up and down.             *)
(***************************************************************************)
DetentExact == stack = <<>> => counted = 4 * reported + (index - 16)

(***************************************************************************)
(* While every edge is handled before the next one comes, the decoder      *)
(* counts the position of the knob.                                        *)
(***************************************************************************)
CountsPosition == AtRest /\ clean => counted = pos

(***************************************************************************)
(* A decoder that the edges outrun, but that does not interrupt itself,    *)
(* may miscount, yet always by an even number: the wrong direction or two  *)
(* edges missed.  An odd error, after which no detent of the knob would    *)
(* agree with the count, cannot happen.                                    *)
(***************************************************************************)
EvenError == AtRest /\ ~nested => (counted - pos) % 2 = 0

(***************************************************************************)
(* Every edge is handled: the decoder comes to rest, infinitely often.     *)
(***************************************************************************)
ComesToRest == []<>AtRest
=============================================================================
