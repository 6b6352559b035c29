-------------------------- MODULE LcdTerminalProofs --------------------------
(***************************************************************************)
(* Theorems about LcdTerminal, for every alphabet and every size of the    *)
(* buffer: the display never shows a position that was never written, and  *)
(* the ring of lines implements the log of TerminalLog.                    *)
(***************************************************************************)
EXTENDS LcdTerminal, Integers, TLAPS

(***************************************************************************)
(* The constants, one by one.                                              *)
(***************************************************************************)
LEMMA Constants ==
  /\ Height \in Nat /\ Height >= 2 /\ Width \in Nat /\ Width >= 1
  /\ Shown \in Nat /\ Shown >= 1 /\ Shown = Height - 1
  /\ NUL \notin Letters /\ NL \notin Letters /\ NUL # NL /\ NUL # Blank
BY TerminalAssumption DEF Height, Width, Shown

(***************************************************************************)
(* What % does to an index that is less than two turns of the ring ahead.  *)
(***************************************************************************)
LEMMA OneTurn ==
  ASSUME NEW h \in Nat, h >= 1, NEW a \in Nat, a < 2 * h
  PROVE  a % h = IF a < h THEN a ELSE a - h
<1>1. CASE a < h
  BY <1>1, SMTT(30)
<1>2. CASE a >= h
  <2>1. a - h \in Nat /\ a - h < h
    BY <1>2
  <2>2. (a - h) % h = a - h
    BY <2>1, SMTT(30)
  <2>3. a % h = (a - h) % h
    BY <1>2, <2>1, SMTT(30)
  <2> QED
    BY <1>2, <2>2, <2>3
<1> QED
  BY <1>1, <1>2

(***************************************************************************)
(* The loop of main stays on the display and in the ring.                  *)
(***************************************************************************)
LEMMA InRange ==
  ASSUME NEW n \in Nat, NEW m \in Nat
  PROVE  n % Height \in 0 .. Height - 1 /\ (m + 1) % Shown \in 0 .. Shown - 1
<1>1. \A a \in Nat, b \in Nat : b >= 1 => a % b \in 0 .. b - 1
  BY SMTT(30)
<1> QED
  BY <1>1, Constants

-----------------------------------------------------------------------------
(***************************************************************************)
(* What keeps updateLine from an unwritten position: NUL only ever follows *)
(* a newline or another NUL, and the position updateLine reads next was    *)
(* written before it read a character that is not a newline, whatever the  *)
(* interrupt has done to the line since.                                   *)
(***************************************************************************)
RowsEnd ==
  \A r \in 0 .. Height - 1, p \in 0 .. Width - 1 :
    terminalBuffer[r][p] = NUL => p > 0 /\ terminalBuffer[r][p - 1] \in {NL, NUL}

ReadsWritten ==
  /\ buf # NUL
  /\ buf # NL /\ x + 1 < Width => terminalBuffer[row][x + 1] # NUL

\* no newline before the cursor
HeadOpen ==
  \A p \in 0 .. Width - 1 : p < terminalHeadXPos => terminalBuffer[terminalHead][p] # NL

TerminalInv == TypeOK /\ RowsEnd /\ ReadsWritten /\ NeverUnwritten /\ HeadOpen

(***************************************************************************)
(* What the receive interrupt leaves in the buffer.                        *)
(***************************************************************************)
LEMMA ReceivedAre ==
  ASSUME TypeOK, NEW c \in Letters \cup {NL}, USART1_RX_vect(c)
  PROVE  /\ terminalBuffer' \in [0 .. Height - 1 -> [0 .. Width - 1 -> Letters \cup {NL, NUL}]]
         /\ \A r \in 0 .. Height - 1 : r # terminalHead => terminalBuffer'[r] = terminalBuffer[r]
         /\ \A p \in 0 .. Width - 1 :
              terminalBuffer'[terminalHead][p] =
                IF p = terminalHeadXPos THEN c
                ELSE IF p = terminalHeadXPos + 1 THEN NL ELSE terminalBuffer[terminalHead][p]
         /\ UNCHANGED drawing
<1> DEFINE line == Store(terminalBuffer[terminalHead], terminalHeadXPos, c)
<1>1. terminalBuffer' = [terminalBuffer EXCEPT ![terminalHead] = line] /\ UNCHANGED drawing
  BY DEF USART1_RX_vect
<1>2. /\ terminalBuffer \in [0 .. Height - 1 -> [0 .. Width - 1 -> Letters \cup {NL, NUL}]]
      /\ terminalHead \in 0 .. Height - 1
  BY DEF TypeOK
<1>3. /\ line \in [0 .. Width - 1 -> Letters \cup {NL, NUL}]
      /\ \A p \in 0 .. Width - 1 :
           line[p] = IF p = terminalHeadXPos THEN c
                     ELSE IF p = terminalHeadXPos + 1 THEN NL ELSE terminalBuffer[terminalHead][p]
  BY <1>2 DEF Store
<1> HIDE DEF line
<1> QED
  BY <1>1, <1>2, <1>3

(***************************************************************************)
(* The indices after the receive interrupt.                                *)
(***************************************************************************)
LEMMA CursorAre ==
  ASSUME TypeOK, NEW c \in Letters \cup {NL}, USART1_RX_vect(c)
  PROVE  /\ terminalHead' \in 0 .. Height - 1 /\ terminalTail' \in 0 .. Height - 1
         /\ terminalHeadXPos' \in 0 .. Width
         /\ c # NL => /\ UNCHANGED <<terminalHead, terminalTail>>
                      /\ terminalHeadXPos' = IF terminalHeadXPos < Width THEN terminalHeadXPos + 1
                                             ELSE terminalHeadXPos
         /\ c = NL => terminalHeadXPos' = 0
BY Constants DEF USART1_RX_vect, TypeOK, Wrapped

(***************************************************************************)
(* The receive interrupt keeps the invariant.                              *)
(***************************************************************************)
LEMMA ReceiveKeeps ==
  ASSUME TerminalInv, NEW c \in Letters \cup {NL}, USART1_RX_vect(c)
  PROVE  TerminalInv'
<1>1. TypeOK
  BY DEF TerminalInv
<1>2. /\ terminalBuffer' \in [0 .. Height - 1 -> [0 .. Width - 1 -> Letters \cup {NL, NUL}]]
      /\ \A r \in 0 .. Height - 1 : r # terminalHead => terminalBuffer'[r] = terminalBuffer[r]
      /\ \A p \in 0 .. Width - 1 :
           terminalBuffer'[terminalHead][p] =
             IF p = terminalHeadXPos THEN c
             ELSE IF p = terminalHeadXPos + 1 THEN NL ELSE terminalBuffer[terminalHead][p]
      /\ UNCHANGED drawing
  BY <1>1, ReceivedAre, Zenon
<1>3. /\ terminalHead' \in 0 .. Height - 1 /\ terminalTail' \in 0 .. Height - 1
      /\ terminalHeadXPos' \in 0 .. Width
      /\ c # NL => /\ UNCHANGED <<terminalHead, terminalTail>>
                   /\ terminalHeadXPos' = IF terminalHeadXPos < Width THEN terminalHeadXPos + 1
                                          ELSE terminalHeadXPos
      /\ c = NL => terminalHeadXPos' = 0
  BY <1>1, CursorAre, Zenon
<1>4. c # NUL /\ terminalHeadXPos \in 0 .. Width /\ NL # NUL
  BY <1>1, Constants DEF TypeOK
<1>5. TypeOK' /\ NeverUnwritten'
  BY <1>2, <1>3 DEF TerminalInv, TypeOK, NeverUnwritten, drawing
<1>6. RowsEnd'
  <2> SUFFICES ASSUME NEW r \in 0 .. Height - 1, NEW p \in 0 .. Width - 1,
                      terminalBuffer'[r][p] = NUL
               PROVE  p > 0 /\ terminalBuffer'[r][p - 1] \in {NL, NUL}
    BY DEF RowsEnd
  <2>1. CASE r # terminalHead
    BY <1>2, <2>1 DEF TerminalInv, RowsEnd
  <2>2. CASE r = terminalHead
    <3>1. p # terminalHeadXPos /\ p # terminalHeadXPos + 1 /\ terminalBuffer[r][p] = NUL
      BY <1>2, <1>4, <2>2
    <3>2. p > 0 /\ terminalBuffer[r][p - 1] \in {NL, NUL}
      BY <3>1 DEF TerminalInv, RowsEnd
    <3>3. p - 1 \in 0 .. Width - 1 /\ p - 1 # terminalHeadXPos
      BY <1>4, <3>1, <3>2, Constants
    <3> QED
      BY <1>2, <2>2, <3>2, <3>3
  <2> QED
    BY <2>1, <2>2
<1>7. ReadsWritten'
  <2>1. buf' = buf /\ x' = x /\ row' = row /\ row \in 0 .. Height - 1 /\ x \in 0 .. Width
    BY <1>1, <1>2 DEF drawing, TypeOK
  <2>2. ASSUME buf # NL, x + 1 < Width PROVE terminalBuffer'[row][x + 1] # NUL
    <3>1. x + 1 \in 0 .. Width - 1
      BY <2>1, <2>2, Constants
    <3>2. terminalBuffer[row][x + 1] # NUL
      BY <2>2 DEF TerminalInv, ReadsWritten
    <3> QED
      BY <1>2, <1>4, <2>1, <3>1, <3>2
  <2> QED
    BY <2>1, <2>2 DEF TerminalInv, ReadsWritten
<1>8. HeadOpen'
  <2> SUFFICES ASSUME NEW p \in 0 .. Width - 1, p < terminalHeadXPos'
               PROVE  terminalBuffer'[terminalHead'][p] # NL
    BY DEF HeadOpen
  <2>1. c # NL /\ terminalHead' = terminalHead
    BY <1>3
  <2>2. p = terminalHeadXPos \/ (p # terminalHeadXPos + 1 /\ p < terminalHeadXPos)
    BY <1>3, <1>4, <2>1
  <2> QED
    BY <1>2, <2>1, <2>2 DEF TerminalInv, HeadOpen
<1> QED
  BY <1>5, <1>6, <1>7, <1>8 DEF TerminalInv

(***************************************************************************)
(* The main loop keeps the invariant.                                      *)
(***************************************************************************)
LEMMA DrawKeeps ==
  ASSUME TerminalInv, main
  PROVE  TerminalInv'
<1>1. TypeOK /\ RowsEnd /\ HeadOpen /\ UNCHANGED ring
  BY DEF TerminalInv, main, DrawCharacter, DrawBlank, NextLine, BeginLine
<1>2. RowsEnd' /\ HeadOpen'
  BY <1>1 DEF RowsEnd, HeadOpen, ring
<1>3. /\ terminalBuffer \in [0 .. Height - 1 -> [0 .. Width - 1 -> Letters \cup {NL, NUL}]]
      /\ terminalBuffer' = terminalBuffer
      /\ y \in 0 .. Shown - 1 /\ x \in 0 .. Width /\ row \in 0 .. Height - 1
      /\ buf \in Letters \cup {NL, NUL} /\ buf # NUL
      /\ screen \in [0 .. Shown - 1 -> [0 .. Width - 1 -> Letters \cup {Blank, NUL}]]
      /\ \A l \in 0 .. Shown - 1, p \in 0 .. Width - 1 : screen[l][p] # NUL
  BY <1>1 DEF TypeOK, TerminalInv, ReadsWritten, NeverUnwritten, ring
<1>4. ASSUME NEW c \in Letters \cup {Blank}, x < Width, screen' = [screen EXCEPT ![y][x] = c]
      PROVE  /\ screen' \in [0 .. Shown - 1 -> [0 .. Width - 1 -> Letters \cup {Blank, NUL}]]
             /\ NeverUnwritten'
  <2>1. x \in 0 .. Width - 1 /\ c # NUL
    BY <1>3, <1>4, Constants
  <2>2. screen' \in [0 .. Shown - 1 -> [0 .. Width - 1 -> Letters \cup {Blank, NUL}]]
    BY <1>3, <1>4, <2>1
  <2>3. \A l \in 0 .. Shown - 1, p \in 0 .. Width - 1 : screen'[l][p] # NUL
    BY <1>3, <1>4, <2>1
  <2> QED
    BY <2>2, <2>3 DEF NeverUnwritten
<1>5. ASSUME screen' \in [0 .. Shown - 1 -> [0 .. Width - 1 -> Letters \cup {Blank, NUL}]],
             NeverUnwritten', ReadsWritten', buf' \in Letters \cup {NL, NUL},
             y' \in 0 .. Shown - 1, x' \in 0 .. Width, row' \in 0 .. Height - 1
      PROVE  TerminalInv'
  BY <1>1, <1>2, <1>5 DEF TerminalInv, TypeOK, ring
<1>6. CASE DrawCharacter
  <2>1. /\ x < Width /\ buf # NL /\ screen' = [screen EXCEPT ![y][x] = buf] /\ x' = x + 1
        /\ buf' = (IF x + 1 < Width THEN terminalBuffer[row][x + 1] ELSE buf)
        /\ y' = y /\ row' = row
    BY <1>6 DEF DrawCharacter
  <2>2. buf \in Letters \cup {Blank}
    BY <1>3, <2>1
  <2>3. x' \in 0 .. Width /\ y' \in 0 .. Shown - 1 /\ row' \in 0 .. Height - 1
    BY <1>3, <2>1, Constants
  <2>4. buf' \in Letters \cup {NL, NUL} /\ ReadsWritten'
    <3>1. CASE x + 1 < Width
      <4>1. x + 1 \in 0 .. Width - 1
        BY <1>3, <3>1, Constants
      <4>2. buf' = terminalBuffer[row][x + 1] /\ buf' # NUL /\ buf' \in Letters \cup {NL, NUL}
        BY <1>3, <2>1, <3>1, <4>1 DEF TerminalInv, ReadsWritten
      <4>3. ASSUME buf' # NL, x' + 1 < Width PROVE terminalBuffer[row][x' + 1] # NUL
        <5>1. x' + 1 \in 0 .. Width - 1 /\ (x' + 1) - 1 = x + 1
          BY <1>3, <2>1, <4>3, Constants
        <5> QED
          BY <1>1, <1>3, <4>2, <4>3, <5>1 DEF RowsEnd
      <4> QED
        BY <1>3, <2>1, <4>2, <4>3 DEF ReadsWritten
    <3>2. CASE ~(x + 1 < Width)
      BY <1>3, <2>1, <3>2, Constants DEF ReadsWritten
    <3> QED
      BY <3>1, <3>2
  <2> QED
    BY <1>4, <1>5, <2>1, <2>2, <2>3, <2>4
<1>7. CASE DrawBlank
  <2>1. /\ x < Width /\ buf = NL /\ screen' = [screen EXCEPT ![y][x] = Blank] /\ x' = x + 1
        /\ y' = y /\ row' = row /\ buf' = buf
    BY <1>7 DEF DrawBlank
  <2>2. x' \in 0 .. Width /\ y' \in 0 .. Shown - 1 /\ row' \in 0 .. Height - 1
    BY <1>3, <2>1, Constants
  <2>3. buf' \in Letters \cup {NL, NUL} /\ ReadsWritten'
    BY <1>3, <2>1 DEF ReadsWritten
  <2> QED
    BY <1>4, <1>5, <2>1, <2>2, <2>3
<1>8. CASE NextLine
  <2>1. /\ y' = (y + 1) % Shown /\ x' = 0 /\ row' = (terminalTail + y') % Height
        /\ buf' = terminalBuffer[row'][0] /\ screen' = screen
    BY <1>8 DEF NextLine, BeginLine
  <2>2. y' \in 0 .. Shown - 1
    BY <1>3, <2>1, InRange, Constants
  <2>3. terminalTail + y' \in Nat
    <3>1. terminalTail \in Nat
      BY <1>1, Constants DEF TypeOK
    <3>2. y' \in Nat
      BY <2>2, Constants
    <3>3. \A a, b \in Nat : a + b \in Nat
      OBVIOUS
    <3> QED
      BY <3>1, <3>2, <3>3, Zenon
  <2>4. row' \in 0 .. Height - 1
    BY <2>1, <2>3, InRange
  <2>5. 0 \in 0 .. Width - 1 /\ ~(0 > 0) /\ x' \in 0 .. Width
    BY <2>1, Constants
  <2>6. buf' \in Letters \cup {NL, NUL} /\ buf' # NUL
    BY <1>1, <1>3, <2>1, <2>4, <2>5 DEF RowsEnd
  <2>7. ASSUME buf' # NL, 0 + 1 < Width PROVE terminalBuffer[row'][0 + 1] # NUL
    <3>1. 0 + 1 \in 0 .. Width - 1 /\ (0 + 1) - 1 = 0
      BY <2>7, Constants
    <3> QED
      BY <1>1, <2>1, <2>4, <2>6, <2>7, <3>1 DEF RowsEnd
  <2>8. ReadsWritten'
    BY <1>3, <2>1, <2>6, <2>7 DEF ReadsWritten
  <2>9. NeverUnwritten'
    BY <1>3, <2>1 DEF NeverUnwritten
  <2> QED
    BY <1>3, <1>5, <2>1, <2>2, <2>4, <2>5, <2>6, <2>8, <2>9
<1> QED
  BY <1>6, <1>7, <1>8 DEF main

(***************************************************************************)
(* The inductive invariant of the terminal.                                *)
(***************************************************************************)
LEMMA TerminalInductive == Spec => []TerminalInv
<1>1. Init => TerminalInv
  <2> SUFFICES ASSUME Init PROVE TerminalInv
    OBVIOUS
  <2>1. TypeOK
    BY Constants DEF Init, TypeOK
  <2>2. RowsEnd
    BY Constants DEF Init, RowsEnd
  <2>3. ReadsWritten /\ NeverUnwritten /\ HeadOpen
    BY Constants DEF Init, ReadsWritten, NeverUnwritten, HeadOpen
  <2> QED
    BY <2>1, <2>2, <2>3 DEF TerminalInv
<1>2. TerminalInv /\ [Next]_vars => TerminalInv'
  <2> SUFFICES ASSUME TerminalInv, [Next]_vars PROVE TerminalInv'
    OBVIOUS
  <2>1. CASE UNCHANGED vars
    BY <2>1 DEF vars, ring, drawing, TerminalInv, TypeOK, RowsEnd, ReadsWritten, NeverUnwritten, HeadOpen
  <2>2. CASE Next
    BY <2>2, ReceiveKeeps, DrawKeeps DEF Next
  <2> QED
    BY <2>1, <2>2
<1> QED
  BY <1>1, <1>2, PTL DEF Spec

(***************************************************************************)
(* Type correctness: the receive interrupt stays within its line and the   *)
(* main loop within the buffer and the display.                            *)
(***************************************************************************)
THEOREM TypeCorrect == Spec => []TypeOK
<1>1. TerminalInv => TypeOK
  BY DEF TerminalInv
<1> QED
  BY <1>1, TerminalInductive, PTL

(***************************************************************************)
(* updateLine never draws a position of the buffer that was never written, *)
(* although it reads the line while the receive interrupt changes it.      *)
(***************************************************************************)
THEOREM WrittenCorrect == Spec => []NeverUnwritten
<1>1. TerminalInv => NeverUnwritten
  BY DEF TerminalInv
<1> QED
  BY <1>1, TerminalInductive, PTL

-----------------------------------------------------------------------------
(***************************************************************************)
(* The refinement: the ring of lines implements the log.                   *)
(*                                                                         *)
(* RowOf(t, i) is the row of the i-th line after the tail t, and           *)
(* DistOf(h, t) the number of lines from the tail t up to the head h.      *)
(***************************************************************************)
RowOf(t, i) == (t + i - 1) % Height
DistOf(h, t) == (h + Height - t) % Height

(***************************************************************************)
(* The rows of a ring, without %.                                          *)
(***************************************************************************)
LEMMA RowsAre ==
  ASSUME NEW t \in 0 .. Height - 1, NEW h \in 0 .. Height - 1
  PROVE  /\ \A i \in 1 .. Height :
              RowOf(t, i) = IF t + i - 1 < Height THEN t + i - 1 ELSE t + i - 1 - Height
         /\ DistOf(h, t) = IF h >= t THEN h - t ELSE h + Height - t
<1>1. Height \in Nat /\ Height >= 1 /\ t \in Nat /\ h \in Nat
  BY Constants
<1>2. ASSUME NEW i \in 1 .. Height
      PROVE  RowOf(t, i) = IF t + i - 1 < Height THEN t + i - 1 ELSE t + i - 1 - Height
  <2>1. PICK a \in Nat : a = t + i - 1 /\ a < 2 * Height
    BY <1>1
  <2>2. a % Height = IF a < Height THEN a ELSE a - Height
    BY <1>1, <2>1, OneTurn, Zenon
  <2>3. RowOf(t, i) = IF a < Height THEN a ELSE a - Height
    BY <2>1, <2>2 DEF RowOf
  <2> QED
    BY <1>1, <2>1, <2>3
<1>3. DistOf(h, t) = IF h >= t THEN h - t ELSE h + Height - t
  <2>1. PICK a \in Nat : a = h + Height - t /\ a < 2 * Height
    BY <1>1
  <2>2. a % Height = IF a < Height THEN a ELSE a - Height
    BY <1>1, <2>1, OneTurn, Zenon
  <2>3. DistOf(h, t) = IF a < Height THEN a ELSE a - Height
    BY <2>1, <2>2 DEF DistOf
  <2> QED
    BY <1>1, <2>1, <2>3
<1> QED
  BY <1>2, <1>3

(***************************************************************************)
(* The complete lines are rows of the ring other than the head's.          *)
(***************************************************************************)
LEMMA RowsApart ==
  ASSUME NEW t \in 0 .. Height - 1, NEW h \in 0 .. Height - 1
  PROVE  /\ DistOf(h, t) \in 0 .. Height - 1
         /\ \A i \in 1 .. DistOf(h, t) : RowOf(t, i) \in 0 .. Height - 1 /\ RowOf(t, i) # h
         /\ RowOf(t, DistOf(h, t) + 1) = h
<1>1. Height \in Nat /\ Height >= 2
  BY Constants
<1>2. PICK d \in 0 .. Height - 1 : /\ d = DistOf(h, t)
                                   /\ d = IF h >= t THEN h - t ELSE h + Height - t
  BY <1>1, RowsAre
<1>3. ASSUME NEW i \in 1 .. d PROVE RowOf(t, i) \in 0 .. Height - 1 /\ RowOf(t, i) # h
  <2>1. i \in 1 .. Height
    BY <1>1
  <2>2. RowOf(t, i) = IF t + i - 1 < Height THEN t + i - 1 ELSE t + i - 1 - Height
    BY <2>1, RowsAre
  <2> QED
    BY <1>1, <1>2, <2>2
<1>4. RowOf(t, d + 1) = h
  <2>1. d + 1 \in 1 .. Height
    BY <1>1
  <2>2. RowOf(t, d + 1) = IF t + (d + 1) - 1 < Height THEN t + (d + 1) - 1 ELSE t + (d + 1) - 1 - Height
    BY <2>1, RowsAre
  <2> QED
    BY <1>1, <1>2, <2>2
<1> QED
  BY <1>2, <1>3, <1>4

(***************************************************************************)
(* A newline while the ring is not full adds the head's row as the newest. *)
(***************************************************************************)
LEMMA RowsGrow ==
  ASSUME NEW t \in 0 .. Height - 1, NEW h \in 0 .. Height - 1, Wrapped(h + 1) # t
  PROVE  /\ Wrapped(h + 1) \in 0 .. Height - 1
         /\ DistOf(Wrapped(h + 1), t) = DistOf(h, t) + 1 /\ DistOf(h, t) + 1 <= Height - 1
BY RowsAre, Constants DEF Wrapped

(***************************************************************************)
(* A newline when the ring is full drops the oldest row and adds the       *)
(* head's.                                                                 *)
(***************************************************************************)
LEMMA RowsShift ==
  ASSUME NEW t \in 0 .. Height - 1, NEW h \in 0 .. Height - 1, Wrapped(h + 1) = t
  PROVE  /\ Wrapped(t + 1) \in 0 .. Height - 1
         /\ DistOf(h, t) = Height - 1 /\ DistOf(t, Wrapped(t + 1)) = Height - 1
         /\ \A i \in 1 .. Height - 1 : RowOf(Wrapped(t + 1), i) = RowOf(t, i + 1)
<1>1. Height \in Nat /\ Height >= 2
  BY Constants
<1>2. t = IF h + 1 >= Height THEN 0 ELSE h + 1
  BY DEF Wrapped
<1>3. PICK u \in 0 .. Height - 1 : u = Wrapped(t + 1) /\ u = IF t + 1 >= Height THEN 0 ELSE t + 1
  BY <1>1 DEF Wrapped
<1>4. DistOf(h, t) = Height - 1
  BY <1>1, <1>2, RowsAre
<1>5. DistOf(t, u) = Height - 1
  BY <1>1, <1>3, RowsAre
<1>6. ASSUME NEW i \in 1 .. Height - 1 PROVE RowOf(u, i) = RowOf(t, i + 1)
  <2>1. i \in 1 .. Height /\ i + 1 \in 1 .. Height
    BY <1>1
  <2>2. /\ RowOf(u, i) = IF u + i - 1 < Height THEN u + i - 1 ELSE u + i - 1 - Height
        /\ RowOf(t, i + 1) = IF t + (i + 1) - 1 < Height THEN t + (i + 1) - 1
                             ELSE t + (i + 1) - 1 - Height
    BY <2>1, RowsAre
  <2> QED
    BY <1>1, <1>3, <2>2
<1> QED
  BY <1>3, <1>4, <1>5, <1>6

(***************************************************************************)
(* The text of a line whose first newline is at n, or that is full.        *)
(***************************************************************************)
LEMMA TextIs ==
  ASSUME NEW line, NEW n \in 0 .. Width,
         \A p \in 0 .. Width - 1 : p < n => line[p] # NL, n < Width => line[n] = NL
  PROVE  Text(line) = [p \in 1 .. n |-> line[p - 1]]
<1> DEFINE ends == {m \in 0 .. Width : m = Width \/ line[m] = NL}
           len == CHOOSE m \in ends : \A k \in ends : m <= k
<1>1. n \in ends
  BY Constants
<1>2. \A m \in ends : n <= m
  BY Constants
<1> HIDE DEF ends
<1>3. len \in ends /\ \A k \in ends : len <= k
  BY <1>1, <1>2
<1>4. \A m \in ends : m \in Int
  BY Constants DEF ends
<1> HIDE DEF len
<1>5. len = n
  BY <1>1, <1>2, <1>3, <1>4
<1> QED
  BY <1>5 DEF Text, len, ends

(***************************************************************************)
(* Two sequences are equal when they have one length and equal elements.   *)
(***************************************************************************)
LEMMA SeqEqual ==
  ASSUME NEW S, NEW s \in Seq(S), NEW t \in Seq(S), Len(s) = Len(t),
         \A i \in 1 .. Len(s) : s[i] = t[i]
  PROVE  s = t
OBVIOUS

(***************************************************************************)
(* The line being received as a sequence.                                  *)
(***************************************************************************)
LEMMA CurrentTyped ==
  ASSUME TypeOK
  PROVE  /\ Current \in Seq(Letters \cup {NL, NUL}) /\ Len(Current) = terminalHeadXPos
         /\ \A p \in 1 .. terminalHeadXPos : Current[p] = terminalBuffer[terminalHead][p - 1]
<1>1. terminalHeadXPos \in Nat /\ terminalHeadXPos <= Width /\ Width \in Nat
  BY Constants DEF TypeOK
<1>2. \A p \in 1 .. terminalHeadXPos :
        terminalBuffer[terminalHead][p - 1] \in Letters \cup {NL, NUL}
  <2> TAKE p \in 1 .. terminalHeadXPos
  <2>1. p - 1 \in 0 .. Width - 1
    BY <1>1
  <2> QED
    BY <2>1 DEF TypeOK
<1> QED
  BY <1>1, <1>2 DEF Current

(***************************************************************************)
(* A letter extends the line being received, up to its width, and leaves   *)
(* the complete lines alone.                                               *)
(***************************************************************************)
LEMMA LetterStep ==
  ASSUME TerminalInv, NEW c \in Letters, USART1_RX_vect(c), TypeOK'
  PROVE  Log!Letter
<1>1. TypeOK /\ c # NL /\ c \in Letters \cup {NL}
  BY Constants DEF TerminalInv
<1>2. /\ \A r \in 0 .. Height - 1 : r # terminalHead => terminalBuffer'[r] = terminalBuffer[r]
      /\ \A p \in 0 .. Width - 1 :
           terminalBuffer'[terminalHead][p] =
             IF p = terminalHeadXPos THEN c
             ELSE IF p = terminalHeadXPos + 1 THEN NL ELSE terminalBuffer[terminalHead][p]
  BY <1>1, ReceivedAre, Zenon
<1>3. /\ UNCHANGED <<terminalHead, terminalTail>>
      /\ terminalHeadXPos' = IF terminalHeadXPos < Width THEN terminalHeadXPos + 1
                             ELSE terminalHeadXPos
  BY <1>1, CursorAre, Zenon
<1>4. terminalHead \in 0 .. Height - 1 /\ terminalTail \in 0 .. Height - 1
  BY <1>1 DEF TypeOK
<1>5. Lines' = Lines
  <2>1. Complete' = Complete /\ Complete = DistOf(terminalHead, terminalTail)
    BY <1>3 DEF Complete, DistOf
  <2>2. \A i \in 1 .. Complete : terminalBuffer'[RowOf(terminalTail, i)] =
                                 terminalBuffer[RowOf(terminalTail, i)]
    BY <1>2, <1>4, <2>1, RowsApart
  <2> QED
    BY <1>3, <2>1, <2>2 DEF Lines, RowOf
<1>6. /\ Current \in Seq(Letters \cup {NL, NUL}) /\ Len(Current) = terminalHeadXPos
      /\ \A p \in 1 .. terminalHeadXPos : Current[p] = terminalBuffer[terminalHead][p - 1]
  BY <1>1, CurrentTyped
<1>7. /\ Current' \in Seq(Letters \cup {NL, NUL}) /\ Len(Current') = terminalHeadXPos'
      /\ \A p \in 1 .. terminalHeadXPos' : Current'[p] = terminalBuffer'[terminalHead][p - 1]
  <2>1. (/\ Current \in Seq(Letters \cup {NL, NUL}) /\ Len(Current) = terminalHeadXPos
         /\ \A p \in 1 .. terminalHeadXPos : Current[p] = terminalBuffer[terminalHead][p - 1])'
    BY CurrentTyped, PTL
  <2> QED
    BY <1>3, <2>1
<1>8. Current' = IF Len(Current) < Width THEN Append(Current, c) ELSE Current
  <2>1. terminalHeadXPos \in Nat /\ terminalHeadXPos <= Width /\ Width \in Nat
    BY <1>1, Constants DEF TypeOK
  <2>2. ASSUME NEW p \in 1 .. terminalHeadXPos PROVE Current'[p] = Current[p]
    <3>1. p - 1 \in 0 .. Width - 1 /\ p - 1 # terminalHeadXPos /\ p - 1 # terminalHeadXPos + 1
      BY <2>1
    <3>2. p \in 1 .. terminalHeadXPos'
      BY <1>3, <2>1
    <3> QED
      BY <1>2, <1>6, <1>7, <3>1, <3>2
  <2>3. CASE terminalHeadXPos < Width
    <3>1. Current'[terminalHeadXPos + 1] = c
      <4>1. /\ terminalHeadXPos + 1 \in 1 .. terminalHeadXPos'
            /\ (terminalHeadXPos + 1) - 1 = terminalHeadXPos
            /\ terminalHeadXPos \in 0 .. Width - 1
        BY <1>3, <2>1, <2>3
      <4> QED
        BY <1>2, <1>7, <4>1
    <3>2. Append(Current, c) \in Seq(Letters \cup {NL, NUL})
      BY <1>6
    <3>3. Len(Append(Current, c)) = terminalHeadXPos + 1 /\ Len(Current') = terminalHeadXPos + 1
      BY <1>3, <1>6, <1>7, <2>3
    <3>4. ASSUME NEW p \in 1 .. terminalHeadXPos + 1 PROVE Current'[p] = Append(Current, c)[p]
      <4>1. CASE p = terminalHeadXPos + 1
        BY <1>6, <3>1, <4>1
      <4>2. CASE p # terminalHeadXPos + 1
        <5>1. p \in 1 .. terminalHeadXPos
          BY <2>1, <4>2
        <5>2. Append(Current, c)[p] = Current[p]
          BY <1>6, <5>1
        <5> QED
          BY <2>2, <5>1, <5>2
      <4> QED
        BY <4>1, <4>2
    <3>5. Current' = Append(Current, c)
      BY <1>7, <3>2, <3>3, <3>4, SeqEqual
    <3> QED
      BY <1>6, <2>3, <3>5
  <2>4. CASE ~(terminalHeadXPos < Width)
    <3>1. Current' = Current
      BY <1>3, <1>6, <1>7, <2>2, <2>4, SeqEqual
    <3> QED
      BY <1>6, <2>4, <3>1
  <2> QED
    BY <2>3, <2>4
<1> QED
  BY <1>5, <1>8 DEF Log!Letter

(***************************************************************************)
(* The last lines of a log with one more line, when there is room and when *)
(* there is not.                                                           *)
(***************************************************************************)
LEMMA LastIs ==
  ASSUME NEW S, NEW s \in Seq(S), NEW e \in S, NEW k \in Nat, NEW t \in Seq(S)
  PROVE  /\ Len(s) < k /\ Len(t) = Len(s) + 1 /\ t[Len(s) + 1] = e
              /\ (\A i \in 1 .. Len(s) : t[i] = s[i])
            => t = Log!Last(Append(s, e), k)
         /\ Len(s) = k /\ k >= 1 /\ Len(t) = k /\ t[k] = e
              /\ (\A i \in 1 .. k - 1 : t[i] = s[i + 1])
            => t = Log!Last(Append(s, e), k)
<1>1. /\ Append(s, e) \in Seq(S) /\ Len(Append(s, e)) = Len(s) + 1
      /\ Append(s, e)[Len(s) + 1] = e /\ \A i \in 1 .. Len(s) : Append(s, e)[i] = s[i]
      /\ Len(s) \in Nat
  OBVIOUS
<1> DEFINE a == Append(s, e)
<1> HIDE DEF a
<1>2. ASSUME Len(s) < k, Len(t) = Len(s) + 1, t[Len(s) + 1] = e, \A i \in 1 .. Len(s) : t[i] = s[i]
      PROVE  t = Log!Last(a, k)
  <2>1. t = a
    BY <1>1, <1>2, SeqEqual DEF a
  <2>2. Len(a) <= k
    BY <1>1, <1>2 DEF a
  <2> QED
    BY <2>1, <2>2 DEF Log!Last
<1>3. ASSUME Len(s) = k, k >= 1, Len(t) = k, t[k] = e, \A i \in 1 .. k - 1 : t[i] = s[i + 1]
      PROVE  t = Log!Last(a, k)
  <2>1. a \in Seq(S) /\ Len(a) = k + 1 /\ ~(k + 1 <= k) /\ (k + 1) - k + 1 = 2
    BY <1>1, <1>3 DEF a
  <2>2. Log!Last(a, k) = SubSeq(a, 2, k + 1)
    BY <2>1 DEF Log!Last
  <2>3. SubSeq(a, 2, k + 1) = [i \in 1 .. k |-> a[i + 1]]
    BY <2>1
  <2>4. \A i \in 1 .. k : t[i] = a[i + 1]
    BY <1>1, <1>3 DEF a
  <2>5. t = [i \in 1 .. k |-> t[i]]
    BY <1>3
  <2> QED
    BY <2>2, <2>3, <2>4, <2>5
<1> QED
  BY <1>2, <1>3 DEF a

(***************************************************************************)
(* A newline adds the line being received to the complete lines, pushing   *)
(* the oldest one out of a full ring.                                      *)
(***************************************************************************)
LEMMA NewlineStep ==
  ASSUME TerminalInv, USART1_RX_vect(NL)
  PROVE  Log!Newline
<1>1. TypeOK /\ NL \in Letters \cup {NL} /\ HeadOpen
  BY DEF TerminalInv
<1> DEFINE h == terminalHead
           t == terminalTail
           X == terminalHeadXPos
<1>2. /\ \A r \in 0 .. Height - 1 : r # h => terminalBuffer'[r] = terminalBuffer[r]
      /\ \A p \in 0 .. Width - 1 :
           terminalBuffer'[h][p] =
             IF p = X THEN NL ELSE IF p = X + 1 THEN NL ELSE terminalBuffer[h][p]
  BY <1>1, ReceivedAre, Zenon
<1>3. /\ terminalHeadXPos' = 0 /\ terminalHead' = Wrapped(h + 1)
      /\ terminalTail' = IF terminalHead' = t THEN Wrapped(t + 1) ELSE t
  BY DEF USART1_RX_vect
<1>4. h \in 0 .. Height - 1 /\ t \in 0 .. Height - 1 /\ X \in 0 .. Width
  BY <1>1 DEF TypeOK
<1>5. Current' = <<>>
  BY <1>3 DEF Current
<1>6. Text(terminalBuffer'[h]) = Current
  <2>1. ASSUME NEW p \in 0 .. Width - 1, p < X
        PROVE  terminalBuffer'[h][p] = terminalBuffer[h][p] /\ terminalBuffer'[h][p] # NL
    BY <1>1, <1>2, <1>4, <2>1, Constants DEF HeadOpen
  <2>2. X < Width => terminalBuffer'[h][X] = NL
    BY <1>2, <1>4, Constants
  <2>3. Text(terminalBuffer'[h]) = [p \in 1 .. X |-> terminalBuffer'[h][p - 1]]
    BY <1>4, <2>1, <2>2, TextIs
  <2>4. \A p \in 1 .. X : terminalBuffer'[h][p - 1] = terminalBuffer[h][p - 1]
    <3> TAKE p \in 1 .. X
    <3>1. p - 1 \in 0 .. Width - 1 /\ p - 1 < X
      BY <1>4, Constants
    <3> QED
      BY <2>1, <3>1
  <2> QED
    BY <2>3, <2>4 DEF Current
<1> DEFINE n == DistOf(h, t)
           S == {Text(terminalBuffer[r]) : r \in 0 .. Height - 1} \cup {Current}
<1>7. /\ n \in 0 .. Height - 1 /\ RowOf(t, n + 1) = h
      /\ \A i \in 1 .. n : RowOf(t, i) \in 0 .. Height - 1 /\ RowOf(t, i) # h
  BY <1>4, RowsApart
<1>8. \A i \in 1 .. n : Text(terminalBuffer'[RowOf(t, i)]) = Text(terminalBuffer[RowOf(t, i)])
  BY <1>2, <1>7
<1>9. Lines = [i \in 1 .. n |-> Text(terminalBuffer[RowOf(t, i)])]
  BY DEF Lines, RowOf, Complete, DistOf
<1>10. Lines' = [i \in 1 .. DistOf(terminalHead', terminalTail') |->
                   Text(terminalBuffer'[RowOf(terminalTail', i)])]
  BY DEF Lines, RowOf, Complete, DistOf
<1>11. Height \in Nat /\ Height >= 2 /\ Shown = Height - 1 /\ Shown \in Nat /\ Shown >= 1
  BY Constants
<1>12. n \in Nat
  BY <1>7, <1>11
<1> HIDE DEF n
<1>13. Lines \in Seq(S) /\ Len(Lines) = n /\ Current \in S
  BY <1>7, <1>9, <1>12
<1>14. CASE terminalHead' # t
  <2>1. DistOf(terminalHead', terminalTail') = n + 1 /\ n + 1 <= Height - 1 /\ terminalTail' = t
    BY <1>3, <1>4, <1>14, RowsGrow DEF n
  <2>2. Lines' = [i \in 1 .. n + 1 |-> Text(terminalBuffer'[RowOf(t, i)])]
    BY <1>10, <2>1
  <2>3. ASSUME NEW i \in 1 .. n + 1
        PROVE  Text(terminalBuffer'[RowOf(t, i)]) = IF i = n + 1 THEN Current ELSE Lines[i]
    <3>1. CASE i = n + 1
      BY <1>6, <1>7, <3>1
    <3>2. CASE i # n + 1
      <4>1. i \in 1 .. n
        BY <1>12, <3>2
      <4> QED
        BY <1>8, <1>9, <3>2, <4>1
    <3> QED
      BY <3>1, <3>2
  <2>4. \A i \in 1 .. n : i \in 1 .. n + 1 /\ i # n + 1 /\ Lines[i] \in S
    BY <1>12, <1>13
  <2>5. /\ Lines' \in Seq(S) /\ Len(Lines') = n + 1 /\ Lines'[n + 1] = Current
        /\ \A i \in 1 .. n : Lines'[i] = Lines[i]
    <3>1. Lines' = [i \in 1 .. n + 1 |-> IF i = n + 1 THEN Current ELSE Lines[i]]
      BY <2>2, <2>3
    <3>2. \A i \in 1 .. n + 1 : (IF i = n + 1 THEN Current ELSE Lines[i]) \in S
      BY <1>12, <1>13
    <3> HIDE DEF S
    <3> QED
      BY <1>12, <2>4, <3>1, <3>2
  <2>6. n < Shown
    BY <1>11, <1>12, <2>1
  <2> HIDE DEF S
  <2>7. Lines' = Log!Last(Append(Lines, Current), Shown)
    BY <1>11, <1>13, <2>5, <2>6, LastIs
  <2> QED
    BY <1>5, <2>7 DEF Log!Newline
<1>15. CASE terminalHead' = t
  <2>1. /\ n = Height - 1 /\ DistOf(terminalHead', terminalTail') = Height - 1
        /\ \A i \in 1 .. Height - 1 : RowOf(terminalTail', i) = RowOf(t, i + 1)
    BY <1>3, <1>4, <1>15, RowsShift DEF n
  <2>2. Lines' = [i \in 1 .. n |-> Text(terminalBuffer'[RowOf(t, i + 1)])]
    BY <1>10, <2>1
  <2>3. ASSUME NEW i \in 1 .. n
        PROVE  Text(terminalBuffer'[RowOf(t, i + 1)]) = IF i = n THEN Current ELSE Lines[i + 1]
    <3>1. CASE i = n
      BY <1>6, <1>7, <3>1
    <3>2. CASE i # n
      <4>1. i + 1 \in 1 .. n
        BY <1>12, <3>2
      <4> QED
        BY <1>8, <1>9, <3>2, <4>1
    <3> QED
      BY <3>1, <3>2
  <2>4. \A i \in 1 .. n : i # n => i + 1 \in 1 .. n /\ Lines[i + 1] \in S
    BY <1>12, <1>13
  <2>5. /\ Lines' \in Seq(S) /\ Len(Lines') = n /\ Lines'[n] = Current
        /\ \A i \in 1 .. n - 1 : Lines'[i] = Lines[i + 1]
    <3>1. Lines' = [i \in 1 .. n |-> IF i = n THEN Current ELSE Lines[i + 1]]
      BY <2>2, <2>3
    <3>2. \A i \in 1 .. n : (IF i = n THEN Current ELSE Lines[i + 1]) \in S
      BY <1>13, <2>4
    <3>3. n >= 1
      BY <1>11, <2>1
    <3> HIDE DEF S
    <3> QED
      BY <1>12, <3>1, <3>2, <3>3
  <2>6. n = Shown
    BY <1>11, <2>1
  <2> HIDE DEF S
  <2>7. Lines' = Log!Last(Append(Lines, Current), Shown)
    BY <1>11, <1>13, <2>5, <2>6, LastIs
  <2> QED
    BY <1>5, <2>7 DEF Log!Newline
<1> QED
  BY <1>14, <1>15

(***************************************************************************)
(* The ring of lines implements the log: the lines from the tail up to the *)
(* head are the last complete lines received, at most one less than the    *)
(* ring has rows, and the head's row is the line being received, for every *)
(* size of the buffer and every sequence of characters.                    *)
(***************************************************************************)
THEOREM Refinement == Spec => ImplementsLog
<1>1. Init => Log!Init
  <2> SUFFICES ASSUME Init PROVE Lines = <<>> /\ Current = <<>>
    BY DEF Log!Init
  <2>1. 0 \in 0 .. Height - 1 /\ DistOf(0, 0) = 0
    BY RowsAre, Constants
  <2>2. Complete = 0 /\ terminalHeadXPos = 0
    BY <2>1 DEF Init, Complete, DistOf
  <2> QED
    BY <2>2 DEF Lines, Current
<1>2. TerminalInv /\ TerminalInv' /\ [Next]_vars => [Log!Next]_<<Lines, Current>>
  <2> SUFFICES ASSUME TerminalInv, TerminalInv', [Next]_vars
               PROVE  Log!Next \/ UNCHANGED <<Lines, Current>>
    OBVIOUS
  <2>1. CASE UNCHANGED ring
    BY <2>1 DEF ring, Lines, Current, Complete
  <2>2. CASE main
    BY <2>1, <2>2 DEF main, DrawCharacter, DrawBlank, NextLine, BeginLine
  <2>3. ASSUME NEW c \in Letters, USART1_RX_vect(c) PROVE Log!Next
    BY <2>3, LetterStep DEF Log!Next, TerminalInv
  <2>4. CASE USART1_RX_vect(NL)
    BY <2>4, NewlineStep DEF Log!Next
  <2> QED
    BY <2>1, <2>2, <2>3, <2>4 DEF Next, vars
<1> QED
  BY <1>1, <1>2, TerminalInductive, PTL DEF Spec, ImplementsLog, Log!Spec
=============================================================================
