---------------------------- MODULE CallbackList ----------------------------
(***************************************************************************)
(* What the chain of timer1_clock promises its users, without pointers: a  *)
(* list of callbacks without repetitions.  Registering appends a callback  *)
(* that is not in the list, unregistering or expiring takes it out and     *)
(* keeps the order of the others, initialising empties the list.           *)
(***************************************************************************)
EXTENDS Naturals, Sequences

CONSTANT Callbacks

VARIABLE list

Members == {list[i] : i \in DOMAIN list}

Init == list = <<>>

Add(c) ==
  /\ c \notin Members
  /\ list' = Append(list, c)

Without(s, k) == [i \in 1 .. Len(s) - 1 |-> IF i < k THEN s[i] ELSE s[i + 1]]

Remove(c) ==
  \E k \in DOMAIN list :
    /\ list[k] = c
    /\ list' = Without(list, k)

Clear == list' = <<>>

Next ==
  \/ \E c \in Callbacks : Add(c) \/ Remove(c)
  \/ Clear

Spec == Init /\ [][Next]_list
=============================================================================
