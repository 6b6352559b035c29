---------------------------- MODULE CallbackChain ----------------------------
(***************************************************************************)
(* The linked list of timer1_clock.c at the level of its pointers.         *)
(*                                                                         *)
(* timer1_clock_register_callback and the TIMER1_COMPA interrupt work on   *)
(* the list with interrupts off and are one step each.                     *)
(* timer1_clock_unregister_callback has no atomic block: it is one step    *)
(* per access to shared memory, and when its caller has interrupts enabled *)
(* a tick may come between any two of them.  The callback the tick picks   *)
(* then runs on top, and registers and unregisters as it likes.            *)
(*                                                                         *)
(* Which callback is due is left open: the tick picks any element of the   *)
(* list or none.                                                           *)
(***************************************************************************)
EXTENDS Naturals, Sequences, FiniteSets

CONSTANTS
  Callbacks,      \* the timer1_callback structs
  NULL,           \* the null pointer
  Interruptible,  \* do callers of unregister leave interrupts enabled?
  MaxNest         \* bound: callbacks nested on top of the main loop

ASSUME ChainAssumption ==
  /\ IsFiniteSet(Callbacks)
  /\ NULL \notin Callbacks
  /\ Interruptible \in BOOLEAN
  /\ MaxNest \in Nat

VARIABLES
  chain,       \* timer1_callback_chain, the pointer to the first element
  next,        \* the field next of every struct
  recurring,   \* the field recurring of every struct
  contexts,    \* the main loop and the callbacks running on top of it
  registered   \* history: the callbacks whose user counts on being called

vars == <<chain, next, recurring, contexts, registered>>

Pointer == Callbacks \cup {NULL}

(***************************************************************************)
(* A context is in user code or inside unregister, with the local          *)
(* variables of that call.                                                 *)
(***************************************************************************)
Context ==
  [pc : {"user", "read_chain", "read_first", "scan", "write_chain", "write_previous"},
   target : Pointer, previous : Pointer, next : Pointer]

InUserCode == [pc |-> "user", target |-> NULL, previous |-> NULL, next |-> NULL]

Top == contexts[Len(contexts)]
Resume(ctx) == contexts' = [contexts EXCEPT ![Len(contexts)] = ctx]

Init ==
  /\ chain = NULL
  /\ next = [c \in Callbacks |-> NULL]
  /\ recurring = [c \in Callbacks |-> FALSE]
  /\ contexts = <<InUserCode>>
  /\ registered = {}

(***************************************************************************)
(* The pointer a walk of the list holds after i steps, and the elements it *)
(* meets.  A walk longer than the number of structs has met one twice and  *)
(* never ends.                                                             *)
(***************************************************************************)
Reached[i \in 0 .. Cardinality(Callbacks)] ==
  IF i = 0 THEN chain
  ELSE IF Reached[i - 1] = NULL THEN NULL
  ELSE next[Reached[i - 1]]

Path ==
  [i \in 1 .. Cardinality({k \in 0 .. Cardinality(Callbacks) : Reached[k] # NULL})
     |-> Reached[i - 1]]

OnPath == {Path[i] : i \in DOMAIN Path}
Ends == Len(Path) <= Cardinality(Callbacks)

(***************************************************************************)
(* timer1_clock_insert_into_chain, inside register's atomic block.         *)
(***************************************************************************)
InsertInFront(c) ==  \* mutant: the new element becomes the head
  \/ /\ c \in OnPath
     /\ UNCHANGED <<chain, next>>
  \/ /\ c \notin OnPath
     /\ chain' = c
     /\ next' = [next EXCEPT ![c] = chain]

InsertIntoChain(c) ==
  \/ /\ c \in OnPath
     /\ UNCHANGED <<chain, next>>
  \/ /\ Ends /\ Path = <<>>
     /\ chain' = c
     /\ next' = [next EXCEPT ![c] = NULL]
  \/ /\ Ends /\ Path # <<>> /\ c \notin OnPath
     /\ next' = [next EXCEPT ![Path[Len(Path)]] = c, ![c] = NULL]
     /\ UNCHANGED chain

timer1_clock_register_callback(c, rec) ==
  /\ Top.pc = "user"
  /\ InsertIntoChain(c)
  /\ recurring' = [recurring EXCEPT ![c] = rec]
  /\ registered' = registered \cup {c}
  /\ UNCHANGED contexts

(***************************************************************************)
(* timer1_clock_unregister_callback, one access to shared memory at a      *)
(* time.  The two branches on chain->next == 0 store the same value.       *)
(***************************************************************************)
CallUnregister(c) ==
  /\ Top.pc = "user"
  /\ Resume([InUserCode EXCEPT !.pc = "read_chain", !.target = c])
  /\ registered' = registered \ {c}
  /\ UNCHANGED <<chain, next, recurring>>

ReadChain ==
  /\ Top.pc = "read_chain"
  /\ Resume(IF chain = NULL THEN InUserCode
            ELSE [Top EXCEPT !.pc = "read_first", !.previous = chain])
  /\ UNCHANGED <<chain, next, recurring, registered>>

ReadFirstNext ==
  /\ Top.pc = "read_first"
  /\ Resume([Top EXCEPT !.next = next[Top.previous],
               !.pc = IF Top.previous = Top.target THEN "write_chain" ELSE "scan"])
  /\ UNCHANGED <<chain, next, recurring, registered>>

Scan ==
  /\ Top.pc = "scan"
  /\ \/ /\ Top.next = NULL
        /\ Resume(InUserCode)
     \/ /\ Top.next # NULL /\ Top.next # Top.target
        /\ Resume([Top EXCEPT !.previous = Top.next, !.next = next[Top.next]])
     \/ /\ Top.next = Top.target
        /\ Resume([Top EXCEPT !.pc = "write_previous", !.next = next[Top.next]])
  /\ UNCHANGED <<chain, next, recurring, registered>>

WriteChain ==
  /\ Top.pc = "write_chain"
  /\ chain' = Top.next
  /\ Resume(InUserCode)
  /\ UNCHANGED <<next, recurring, registered>>

WritePreviousTarget ==  \* mutant: previous->next = next instead of next->next
  /\ Top.pc = "write_previous"
  /\ next' = [next EXCEPT ![Top.previous] = Top.target]
  /\ Resume(InUserCode)
  /\ UNCHANGED <<chain, recurring, registered>>

WritePrevious ==
  /\ Top.pc = "write_previous"
  /\ next' = [next EXCEPT ![Top.previous] = Top.next]
  /\ Resume(InUserCode)
  /\ UNCHANGED <<chain, recurring, registered>>

timer1_clock_unregister_callback ==
  ReadChain \/ ReadFirstNext \/ Scan \/ WriteChain \/ WritePrevious

(***************************************************************************)
(* The interrupt picks c, the first due element of its walk: a recurring   *)
(* callback stays where it is, a one-shot is unlinked, and the callback    *)
(* starts to run.  A walk that finds none due must come to an end; it      *)
(* changes nothing here.                                                   *)
(***************************************************************************)
Predecessor(c) == Path[(CHOOSE i \in DOMAIN Path : Path[i] = c) - 1]

Unlink(c) ==
  \/ /\ chain = c
     /\ chain' = next[c]
     /\ UNCHANGED next
  \/ /\ chain # c
     /\ next' = [next EXCEPT ![Predecessor(c)] = next[c]]
     /\ UNCHANGED chain

TIMER1_COMPA_vect(c) ==
  /\ Interruptible \/ Top.pc = "user"
  /\ Len(contexts) <= MaxNest
  /\ c \in OnPath
  /\ \/ /\ recurring[c]
        /\ UNCHANGED <<chain, next, registered>>
     \/ /\ ~recurring[c]
        /\ Unlink(c)
        /\ registered' = registered \ {c}
  /\ contexts' = Append(contexts, InUserCode)
  /\ UNCHANGED recurring

CallbackReturns ==
  /\ Len(contexts) > 1
  /\ Top.pc = "user"
  /\ contexts' = SubSeq(contexts, 1, Len(contexts) - 1)
  /\ UNCHANGED <<chain, next, recurring, registered>>

timer1_clock_init ==
  /\ Top.pc = "user"
  /\ chain' = NULL
  /\ registered' = {}
  /\ UNCHANGED <<next, recurring, contexts>>

Next ==
  \/ \E c \in Callbacks :
       \/ \E rec \in BOOLEAN : timer1_clock_register_callback(c, rec)
       \/ CallUnregister(c)
       \/ TIMER1_COMPA_vect(c)
  \/ timer1_clock_unregister_callback
  \/ CallbackReturns
  \/ timer1_clock_init

Spec == Init /\ [][Next]_vars

-----------------------------------------------------------------------------
(***************************************************************************)
(* "Unregisters the given callback" and, of a one-shot that was called,    *)
(* "it will be removed" (timer1_clock.h, lines 114 and 106): once          *)
(* unregister has returned or a one-shot has expired, the callback is not  *)
(* in the list until somebody registers it again.                          *)
(***************************************************************************)
BeingUnregistered(c) ==
  \E i \in DOMAIN contexts : contexts[i].pc # "user" /\ contexts[i].target = c

RemovedStaysOut ==
  \A c \in Callbacks \ registered : ~BeingUnregistered(c) => c \notin OnPath

(***************************************************************************)
(* The pointers implement the list: seen from the head, every step appends *)
(* one element, removes one, empties the list or changes nothing.          *)
(***************************************************************************)
List == INSTANCE CallbackList WITH list <- Path
ImplementsList == List!Spec
=============================================================================
