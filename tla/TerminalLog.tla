----------------------------- MODULE TerminalLog -----------------------------
(***************************************************************************)
(* What the buffer of the LCD terminal promises: the last complete lines   *)
(* received, at most Kept of them, each cut to Width characters, and the   *)
(* line being received.                                                    *)
(***************************************************************************)
EXTENDS Naturals, Sequences

CONSTANTS Letters, Width, Kept

VARIABLES lines, current

Last(s, n) == IF Len(s) <= n THEN s ELSE SubSeq(s, Len(s) - n + 1, Len(s))

Init == lines = <<>> /\ current = <<>>

Letter ==
  /\ \E c \in Letters : current' = IF Len(current) < Width THEN Append(current, c) ELSE current
  /\ UNCHANGED lines

Newline ==
  /\ lines' = Last(Append(lines, current), Kept)
  /\ current' = <<>>

Next == Letter \/ Newline

Spec == Init /\ [][Next]_<<lines, current>>
=============================================================================
