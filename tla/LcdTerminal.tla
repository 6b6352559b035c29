----------------------------- MODULE LcdTerminal -----------------------------
(***************************************************************************)
(* programs/lcd_terminal/lcd_terminal.c: the receive interrupt fills a     *)
(* ring of lines while the main loop draws them on the display, character  *)
(* by character.                                                           *)
(*                                                                         *)
(* The model begins where main has written the first newline of every      *)
(* line, before the first character arrives.  A position that was never    *)
(* written holds NUL.                                                      *)
(***************************************************************************)
EXTENDS Naturals, Sequences

CONSTANTS
  Letters,                  \* characters other than newline
  TERMINAL_BUFFER_HEIGHT,
  TERMINAL_BUFFER_WIDTH,
  NUL, NL, Blank

ASSUME TerminalAssumption ==
  /\ TERMINAL_BUFFER_HEIGHT \in Nat \ {0, 1}
  /\ TERMINAL_BUFFER_WIDTH \in Nat \ {0}
  /\ {NUL, NL, Blank} \cap Letters = {}
  /\ NUL # NL /\ NUL # Blank /\ NL # Blank

VARIABLES
  terminalBuffer,
  terminalHead,       \* the line being received
  terminalHeadXPos,   \* its length
  terminalTail,       \* the oldest line
  y, x, row, buf,     \* locals of main and of updateLine; row is its argument lineData
  screen              \* the display

ring == <<terminalBuffer, terminalHead, terminalHeadXPos, terminalTail>>
drawing == <<y, x, row, buf, screen>>
vars == <<ring, drawing>>

Height == TERMINAL_BUFFER_HEIGHT
Width == TERMINAL_BUFFER_WIDTH
Shown == TERMINAL_BUFFER_HEIGHT - 1

Init ==
  /\ terminalBuffer = [r \in 0 .. Height - 1 |-> [p \in 0 .. Width - 1 |-> IF p = 0 THEN NL ELSE NUL]]
  /\ terminalHead = 0 /\ terminalHeadXPos = 0 /\ terminalTail = 0
  /\ y = 0 /\ x = 0 /\ row = 0 /\ buf = NL
  /\ screen = [r \in 0 .. Shown - 1 |-> [p \in 0 .. Width - 1 |-> Blank]]

(***************************************************************************)
(* The receive interrupt: a newline after the cursor, the character at the *)
(* cursor, and on a newline the next line, pushing the oldest one out.     *)
(***************************************************************************)
Wrapped(n) == IF n >= Height THEN 0 ELSE n

StoreUnterminated(line, pos, c) ==  \* mutant: no newline after the cursor
  [p \in 0 .. Width - 1 |-> IF p = pos THEN c ELSE line[p]]

Store(line, pos, c) ==
  [p \in 0 .. Width - 1 |->
     IF p = pos THEN c ELSE IF p = pos + 1 THEN NL ELSE line[p]]

Receive(c, fits, push) ==  \* the body of the mutants below
  /\ terminalBuffer' = [terminalBuffer EXCEPT ![terminalHead] = Store(@, terminalHeadXPos, c)]
  /\ terminalHeadXPos' = IF c = NL THEN 0 ELSE IF fits THEN terminalHeadXPos + 1
                         ELSE terminalHeadXPos
  /\ terminalHead' = IF c = NL THEN Wrapped(terminalHead + 1) ELSE terminalHead
  /\ terminalTail' = IF c = NL /\ push THEN Wrapped(terminalTail + 1) ELSE terminalTail
  /\ UNCHANGED drawing

\* mutant: <= for < in the test of the width
ReceiveTooWide(c) == Receive(c, terminalHeadXPos <= Width, terminalHead' = terminalTail)

\* mutant: the oldest line is not pushed out
ReceiveKeepsTail(c) == Receive(c, terminalHeadXPos < Width, FALSE)

USART1_RX_vect(c) ==
  /\ terminalBuffer' = [terminalBuffer EXCEPT ![terminalHead] = Store(@, terminalHeadXPos, c)]
  /\ \/ /\ c # NL
        /\ terminalHeadXPos' = IF terminalHeadXPos < Width THEN terminalHeadXPos + 1 ELSE Width
        /\ UNCHANGED <<terminalHead, terminalTail>>
     \/ /\ c = NL
        /\ terminalHeadXPos' = 0
        /\ terminalHead' = Wrapped(terminalHead + 1)
        /\ terminalTail' = IF terminalHead' = terminalTail THEN Wrapped(terminalTail + 1)
                           ELSE terminalTail
  /\ UNCHANGED drawing

(***************************************************************************)
(* The main loop: updateLine for one line of the display after another.    *)
(* What updateLine reads one past the end of a line is not used.           *)
(***************************************************************************)
BeginLine(line) ==
  /\ y' = line /\ x' = 0
  /\ row' = (terminalTail + line) % Height
  /\ buf' = terminalBuffer[row'][0]
  /\ UNCHANGED <<ring, screen>>

DrawCharacter ==
  /\ x < Width /\ buf # NL
  /\ screen' = [screen EXCEPT ![y][x] = buf]
  /\ x' = x + 1
  /\ buf' = IF x + 1 < Width THEN terminalBuffer[row][x + 1] ELSE buf
  /\ UNCHANGED <<ring, y, row>>

DrawNoBlank ==  \* mutant: the rest of a short line is not cleared
  /\ x < Width /\ buf = NL
  /\ x' = Width
  /\ UNCHANGED <<ring, y, row, buf, screen>>

DrawBlank ==
  /\ x < Width /\ buf = NL
  /\ screen' = [screen EXCEPT ![y][x] = Blank]
  /\ x' = x + 1
  /\ UNCHANGED <<ring, y, row, buf>>

NextLine ==
  /\ x = Width
  /\ BeginLine((y + 1) % Shown)

main == DrawCharacter \/ DrawBlank \/ NextLine

Next == main \/ \E c \in Letters \cup {NL} : USART1_RX_vect(c)

(***************************************************************************)
(* The main loop never waits, and interrupts leave it time to run.         *)
(***************************************************************************)
Spec == Init /\ [][Next]_vars /\ WF_vars(main)

-----------------------------------------------------------------------------
(***************************************************************************)
(* Type correctness: the indices of the ring and of the drawing loop stay  *)
(* within the buffer and the display.                                      *)
(***************************************************************************)
TypeOK ==
  /\ terminalBuffer \in [0 .. Height - 1 -> [0 .. Width - 1 -> Letters \cup {NL, NUL}]]
  /\ terminalHead \in 0 .. Height - 1 /\ terminalTail \in 0 .. Height - 1
  /\ terminalHeadXPos \in 0 .. Width
  /\ y \in 0 .. Shown - 1 /\ x \in 0 .. Width /\ row \in 0 .. Height - 1
  /\ buf \in Letters \cup {NL, NUL}
  /\ screen \in [0 .. Shown - 1 -> [0 .. Width - 1 -> Letters \cup {Blank, NUL}]]

(***************************************************************************)
(* The ring implements the log: the lines from the tail up to the head,    *)
(* read up to their newline, are the last lines received, however often    *)
(* the ring has wrapped and whatever longer line was in a row before.      *)
(***************************************************************************)
Text(line) ==
  LET ends == {n \in 0 .. Width : n = Width \/ line[n] = NL}
      len == CHOOSE n \in ends : \A m \in ends : n <= m
  IN  [p \in 1 .. len |-> line[p - 1]]

Complete == (terminalHead + Height - terminalTail) % Height

Lines == [i \in 1 .. Complete |-> Text(terminalBuffer[(terminalTail + i - 1) % Height])]
Current == [p \in 1 .. terminalHeadXPos |-> terminalBuffer[terminalHead][p - 1]]

Log == INSTANCE TerminalLog WITH Kept <- Shown, lines <- Lines, current <- Current
ImplementsLog == Log!Spec

(***************************************************************************)
(* A position that was never written is never drawn: the newline the       *)
(* interrupt keeps after the cursor stops updateLine in time, also when    *)
(* characters arrive while it is drawing the line.                         *)
(***************************************************************************)
NeverUnwritten == \A l \in 0 .. Shown - 1, p \in 0 .. Width - 1 : screen[l][p] # NUL

(***************************************************************************)
(* When nothing more arrives the display comes to show the last complete   *)
(* lines, the line being received if there is still room below them, and   *)
(* blanks, and stays so: nothing torn by an interrupt is left on it.       *)
(***************************************************************************)
Padded(text) == [p \in 0 .. Width - 1 |-> IF p < Len(text) THEN text[p + 1] ELSE Blank]

Expected(l) ==
  Padded(IF l < Complete THEN Lines[l + 1] ELSE IF l = Complete THEN Current ELSE <<>>)

UpToDate == \A l \in 0 .. Shown - 1 : screen[l] = Expected(l)

SettlesUpToDate == <>[][UNCHANGED ring]_vars => <>[]UpToDate
=============================================================================
