-------------------------- MODULE RelayProgramProofs --------------------------
(***************************************************************************)
(* Theorems about LogSchedule, for every word length, every number of      *)
(* calls in a second and all intervals, and about RelayProgram, which is   *)
(* built on it, for every depth to which its handlers interrupt each       *)
(* other.                                                                  *)
(***************************************************************************)
EXTENDS RelayProgram, SequenceTheorems, TLAPS

(***************************************************************************)
(* Remainders, as far as the counter needs them.                           *)
(***************************************************************************)
LEMMA Remainders ==
  ASSUME NEW b \in Nat, b > 0
  PROVE  /\ 0 % b = 0 /\ b % b = 0
         /\ \A a \in Nat : a < b => a % b = a
         /\ \A a \in Nat : a % b \in 0 .. b - 1
<1>1. 0 % b = 0
  OBVIOUS
<1>2. b % b = 0
  OBVIOUS
<1>3. ASSUME NEW a \in Nat, a < b PROVE a % b = a
  BY <1>3
<1>4. ASSUME NEW a \in Nat PROVE a % b \in 0 .. b - 1
  OBVIOUS
<1> QED
  BY <1>1, <1>2, <1>3, <1>4

(***************************************************************************)
(* A number is a multiple of b exactly when nothing is left over.          *)
(***************************************************************************)
LEMMA LeftOver ==
  ASSUME NEW b \in Nat, b > 0, NEW q \in Nat, NEW r \in 0 .. b - 1
  PROVE  (q * b + r) % b = r
  BY SMTT(30)

(***************************************************************************)
(* What is left over of the counter, in whole seconds, is the time since   *)
(* the last check; the counter itself is the time since the last log.      *)
(***************************************************************************)
InSeconds == \E q \in Nat : stateCounter = q * TicksPerSecond + sinceCheck

Sane(s) == 0 < s * TicksPerSecond /\ s * TicksPerSecond < Word

Counting ==
  /\ stateCounter \in 0 .. Word - 1 /\ program_log \in Nat
  /\ sinceCheck \in 0 .. TicksPerSecond - 1 /\ InSeconds
  /\ sinceLog = stateCounter /\ kept \in BOOLEAN
  /\ kept /\ Sane(program_log) => sinceLog < program_log * TicksPerSecond

(***************************************************************************)
(* The constants, one by one.                                              *)
(***************************************************************************)
LEMMA Constants ==
  /\ Word \in Nat /\ Word > 0 /\ TicksPerSecond \in Nat /\ TicksPerSecond > 0
  /\ FirstInterval \in Nat /\ Intervals \subseteq Nat
  BY ScheduleAssumption

(***************************************************************************)
(* The program starts counting from 0.                                     *)
(***************************************************************************)
LEMMA CountingInit == ScheduleInit => Counting
<1> SUFFICES ASSUME ScheduleInit PROVE Counting
  OBVIOUS
<1>1. InSeconds
  <2>1. 0 \in Nat /\ stateCounter = 0 * TicksPerSecond + sinceCheck
    BY Constants DEF ScheduleInit
  <2> QED
    BY <2>1 DEF InSeconds
<1>2. kept /\ Sane(program_log) => sinceLog < program_log * TicksPerSecond
  BY DEF ScheduleInit, Sane
<1> QED
  BY <1>1, <1>2, Constants DEF ScheduleInit, Counting

(***************************************************************************)
(* The counter after one call: it wraps only into a log, logs in time, and *)
(* reaches no whole second without a check.                                *)
(***************************************************************************)
LEMMA OneCall ==
  ASSUME Counting
  PROVE  /\ Counted \in 0 .. Word - 1
         /\ ~IsLog => Counted = stateCounter + 1
         /\ ~IsLog /\ IsSecond => \E q \in Nat : Counted = q * TicksPerSecond
         /\ ~IsLog /\ ~IsSecond => sinceCheck + 1 < TicksPerSecond
         /\ kept /\ Sane(program_log)
              => (IsLog <=> sinceLog + 1 = program_log * TicksPerSecond)
<1> DEFINE T == TicksPerSecond
           c == stateCounter
           P == program_log * T
<1>0. /\ c \in 0 .. Word - 1 /\ T \in Nat /\ T > 0 /\ Word \in Nat /\ Word > 0 /\ P \in Nat
      /\ sinceCheck \in 0 .. T - 1 /\ sinceLog = c
  BY Constants DEF Counting
<1>1. /\ c + 1 < Word => Counted = c + 1
      /\ c + 1 = Word => Counted = 0
      /\ c + 1 < Word \/ c + 1 = Word
  BY <1>0, Remainders DEF Counted
<1>2. Counted = 0 => IsLog
  <2>1. P % Word \in Nat
    BY <1>0, Remainders
  <2> QED
    BY <2>1, Remainders DEF IsLog, Remainder
<1>3. PICK q \in Nat : c = q * T + sinceCheck
  BY DEF Counting, InSeconds
<1>4. /\ sinceCheck + 1 < T => (c + 1) % T = sinceCheck + 1
      /\ sinceCheck + 1 = T => c + 1 = (q + 1) * T /\ (c + 1) % T = 0
  <2>1. CASE sinceCheck + 1 < T
    <3>1. (q * T + (sinceCheck + 1)) % T = sinceCheck + 1
      BY <1>0, <2>1, LeftOver
    <3>2. c + 1 = q * T + (sinceCheck + 1)
      BY <1>0, <1>3
    <3> QED
      BY <2>1, <3>1, <3>2, <1>0
  <2>2. CASE sinceCheck + 1 = T
    <3>1. ((q + 1) * T + 0) % T = 0
      BY <1>0, LeftOver
    <3>2. c + 1 = (q + 1) * T /\ (q + 1) * T + 0 = (q + 1) * T
      BY <1>0, <1>3, <2>2
    <3> QED
      BY <2>2, <3>1, <3>2, <1>0
  <2> QED
    BY <2>1, <2>2, <1>0
<1>5. ~IsLog => Counted = c + 1 /\ c + 1 < Word
  BY <1>1, <1>2
<1>6. ~IsLog /\ IsSecond => \E k \in Nat : Counted = k * T
  <2>1. ~IsLog /\ IsSecond => Counted = (q + 1) * T
    BY <1>0, <1>4, <1>5 DEF IsSecond
  <2> QED
    BY <2>1
<1>7. ~IsLog /\ ~IsSecond => sinceCheck + 1 < T
  BY <1>0, <1>4, <1>5 DEF IsSecond
<1>8. ASSUME kept, Sane(program_log) PROVE IsLog <=> c + 1 = P
  <2>1. 0 < P /\ P < Word /\ c < P
    BY <1>8, <1>0 DEF Sane, Counting
  <2>2. P % Word = P /\ Counted = c + 1
    BY <2>1, <1>0, <1>1, Remainders
  <2>3. IsLog <=> (c + 1) % P = 0
    BY <2>1, <2>2 DEF IsLog, Remainder
  <2>4. c + 1 < P => (c + 1) % P = c + 1
    BY <2>1, <1>0, Remainders
  <2>5. c + 1 = P => (c + 1) % P = 0
    BY <2>1, <1>0, Remainders
  <2> QED
    BY <2>1, <2>3, <2>4, <2>5, <1>0
<1> QED
  BY <1>0, <1>1, <1>5, <1>6, <1>7, <1>8

(***************************************************************************)
(* Every call and every new interval keeps the counting right.             *)
(***************************************************************************)
LEMMA CountingStep == Counting /\ [ScheduleNext]_schedule => Counting'
<1> SUFFICES ASSUME Counting, [ScheduleNext]_schedule PROVE Counting'
  OBVIOUS
<1>0. /\ stateCounter \in 0 .. Word - 1 /\ program_log \in Nat /\ kept \in BOOLEAN
      /\ sinceCheck \in 0 .. TicksPerSecond - 1 /\ sinceLog = stateCounter
      /\ Word \in Nat /\ Word > 0 /\ TicksPerSecond \in Nat /\ TicksPerSecond > 0
  BY Constants DEF Counting
<1>1. CASE statemachine
  <2>1. /\ stateCounter' = (IF IsLog THEN 0 ELSE Counted)
        /\ sinceCheck' = (IF IsLog \/ IsSecond THEN 0 ELSE sinceCheck + 1)
        /\ sinceLog' = (IF IsLog THEN 0 ELSE sinceLog + 1)
        /\ kept' = (kept \/ IsLog) /\ program_log' = program_log
    BY <1>1 DEF statemachine
  <2>2. CASE IsLog
    <3>1. InSeconds'
      <4>1. stateCounter' = 0 * TicksPerSecond + sinceCheck'
        BY <2>1, <2>2, <1>0
      <4> QED
        BY <4>1 DEF InSeconds
    <3>2. (kept /\ Sane(program_log) => sinceLog < program_log * TicksPerSecond)'
      BY <2>1, <2>2 DEF Sane
    <3>3. kept' \in BOOLEAN
      BY <2>1, <2>2
    <3> QED
      BY <2>1, <2>2, <3>1, <3>2, <3>3, <1>0 DEF Counting
  <2>3. CASE ~IsLog
    <3>1. /\ stateCounter' = stateCounter + 1 /\ stateCounter + 1 \in 0 .. Word - 1
          /\ sinceLog' = stateCounter + 1 /\ kept' = kept
      BY <2>1, <2>3, <1>0, OneCall
    <3>2. InSeconds' /\ sinceCheck' \in 0 .. TicksPerSecond - 1
      <4>1. CASE IsSecond
        <5>1. PICK q \in Nat : Counted = q * TicksPerSecond
          BY <2>3, <4>1, OneCall
        <5>2. sinceCheck' = 0 /\ stateCounter' = Counted
          BY <2>1, <2>3, <4>1
        <5>3. stateCounter' = q * TicksPerSecond + sinceCheck'
          BY <5>1, <5>2, <1>0
        <5> QED
          BY <5>2, <5>3, <1>0 DEF InSeconds
      <4>2. CASE ~IsSecond
        <5>1. sinceCheck' = sinceCheck + 1 /\ sinceCheck + 1 < TicksPerSecond
          BY <2>1, <2>3, <4>2, OneCall
        <5>2. PICK q \in Nat : stateCounter = q * TicksPerSecond + sinceCheck
          BY DEF Counting, InSeconds
        <5>3. stateCounter' = q * TicksPerSecond + sinceCheck'
          BY <5>1, <5>2, <3>1, <1>0
        <5> QED
          BY <5>1, <5>3, <1>0 DEF InSeconds
      <4> QED
        BY <4>1, <4>2
    <3>3. (kept /\ Sane(program_log) => sinceLog < program_log * TicksPerSecond)'
      <4>1. ASSUME kept, Sane(program_log)
            PROVE  sinceLog + 1 < program_log * TicksPerSecond
        <5>1. sinceLog < program_log * TicksPerSecond /\ program_log * TicksPerSecond \in Nat
          BY <4>1, <1>0 DEF Counting
        <5>2. sinceLog + 1 # program_log * TicksPerSecond
          BY <4>1, <2>3, OneCall
        <5> QED
          BY <5>1, <5>2, <1>0
      <4> QED
        BY <4>1, <3>1, <2>1, <1>0 DEF Sane
    <3> QED
      BY <2>1, <3>1, <3>2, <3>3, <1>0 DEF Counting
  <2> QED
    BY <2>2, <2>3
<1>2. ASSUME NEW s \in Intervals, setInterval(s) PROVE Counting'
  <2>1. /\ program_log' = s /\ kept' = (kept /\ s = program_log) /\ s \in Nat
        /\ UNCHANGED <<stateCounter, sinceCheck, sinceLog>>
    BY <1>2, Constants DEF setInterval
  <2>2. kept' => kept /\ s = program_log
    BY <2>1
  <2>3. kept' \in BOOLEAN
    BY <2>1
  <2> QED
    BY <2>1, <2>2, <2>3 DEF Counting, InSeconds, Sane
<1>3. CASE UNCHANGED schedule
  BY <1>3 DEF schedule, Counting, InSeconds, Sane
<1> QED
  BY <1>1, <1>2, <1>3 DEF ScheduleNext

(***************************************************************************)
(* setRelay is called at least once a second, whatever intervals are set.  *)
(***************************************************************************)
THEOREM ChecksCorrect == Schedule => []CheckedEverySecond
<1>1. Counting => CheckedEverySecond
  BY Constants DEF Counting, CheckedEverySecond
<1> QED
  BY <1>1, CountingInit, CountingStep, PTL DEF Schedule

(***************************************************************************)
(* An interval that fits in 16 bits is kept exactly.                       *)
(***************************************************************************)
THEOREM LogsCorrect == Schedule => LogInTime
<1> DEFINE A == LET calls == program_log * TicksPerSecond
                IN  statemachine /\ kept /\ 0 < calls /\ calls < Word
                      => (sinceLog' = 0 <=> sinceLog + 1 = calls)
<1>1. Counting /\ [ScheduleNext]_schedule => [A]_schedule
  <2> SUFFICES ASSUME Counting, statemachine, kept, Sane(program_log)
               PROVE  sinceLog' = 0 <=> sinceLog + 1 = program_log * TicksPerSecond
    BY DEF Sane
  <2>1. sinceLog' = (IF IsLog THEN 0 ELSE sinceLog + 1) /\ sinceLog \in Nat
    BY Constants DEF statemachine, Counting
  <2>2. IsLog <=> sinceLog + 1 = program_log * TicksPerSecond
    BY OneCall
  <2> QED
    BY <2>1, <2>2
<1> QED
  BY <1>1, CountingInit, CountingStep, PTL DEF Schedule, LogInTime

-----------------------------------------------------------------------------
(***************************************************************************)
(* The program with its relay, its timers and its nested handlers keeps    *)
(* the schedule, so that its relay is checked every second and its log is  *)
(* in time.                                                                *)
(***************************************************************************)
THEOREM ProgramKeepsSchedule == Spec => Schedule /\ []CheckedEverySecond /\ LogInTime
<1>1. Init => ScheduleInit
  BY DEF Init
<1>2. [Next]_vars => [ScheduleNext]_schedule
  BY DEF Next, Step, Tick, Fire, setProgramVariable, Run, Stop, Program, Change, Refused,
         ScheduleNext, vars
<1>3. Spec => Schedule
  BY <1>1, <1>2, PTL DEF Spec, Schedule
<1> QED
  BY <1>3, ChecksCorrect, LogsCorrect, PTL

-----------------------------------------------------------------------------
(***************************************************************************)
(* The assignments a running handler still has to make.                    *)
(***************************************************************************)
Ops(t) == {t[j] : j \in DOMAIN t}

(***************************************************************************)
(* The assignments that occur in the handlers.                             *)
(***************************************************************************)
Assignments ==
  {<<"alwaysRun", 0>>, <<"alwaysRun", 1>>, <<"programChar", "blank">>, <<"programChar", "R">>,
   <<"relay", 0>>, <<"relay", 1>>, <<"relayTimer", "off">>, <<"relayTimer", "new">>,
   <<"waitTimer", "off">>, <<"waitTimer", "new">>, <<"runningChar", "blank">>,
   <<"runningChar", "+">>, <<"runningChar", "O">>, <<"runningChar", "W">>}

(***************************************************************************)
(* An assignment a still to be made is followed by b.                      *)
(***************************************************************************)
FollowedBy(t, a, b) == \A j \in DOMAIN t : t[j] = a => \E k \in DOMAIN t : j < k /\ t[k] = b

(***************************************************************************)
(* No handler assigns a variable twice.                                    *)
(***************************************************************************)
Once(t) == \A j, k \in DOMAIN t : t[j][1] = t[k][1] => j = k

(***************************************************************************)
(* What the handlers' lists, and their ends, have in common: what a stop,  *)
(* an end of the relay's time and an end of the waiting time do as well,   *)
(* in which order; and that the relay's timer is started after the relay.  *)
(***************************************************************************)
WellFormed(t) ==
  /\ t \in Seq(Assignments) /\ Once(t)
  /\ FollowedBy(t, <<"programChar", "blank">>, <<"relay", 0>>)
  /\ FollowedBy(t, <<"alwaysRun", 0>>, <<"relay", 0>>)
  /\ FollowedBy(t, <<"alwaysRun", 0>>, <<"runningChar", "blank">>)
  /\ FollowedBy(t, <<"relayTimer", "off">>, <<"relay", 0>>)
  /\ FollowedBy(t, <<"relayTimer", "off">>, <<"runningChar", "W">>)
  /\ FollowedBy(t, <<"runningChar", "W">>, <<"waitTimer", "new">>)
  /\ FollowedBy(t, <<"waitTimer", "off">>, <<"runningChar", "blank">>)
  /\ \A j, k \in DOMAIN t : t[j] = <<"relayTimer", "new">> /\ t[k] = <<"relay", 1>> => k < j

(***************************************************************************)
(* Two lists joined, element by element.                                   *)
(***************************************************************************)
LEMMA JoinedAs ==
  ASSUME NEW S, NEW s \in Seq(S), NEW u \in Seq(S), NEW t \in Seq(S), Len(t) = Len(s) + Len(u),
         \A i \in 1 .. Len(s) + Len(u) : t[i] = IF i <= Len(s) THEN s[i] ELSE u[i - Len(s)]
  PROVE s \o u = t
<1>1. s \o u \in Seq(S) /\ Len(s \o u) = Len(t) BY ConcatProperties, Zenon
<1>2. \A i \in 1 .. Len(t) : (s \o u)[i] = t[i] BY ConcatProperties, Zenon
<1> DEFINE w == s \o u
<1> HIDE DEF w
<1>3. w \in Seq(S) /\ Len(w) = Len(t) /\ \A i \in 1 .. Len(t) : w[i] = t[i]
  BY <1>1, <1>2, Zenon DEF w
<1>4. w = t BY <1>3
<1> QED BY <1>4 DEF w

(***************************************************************************)
(* A handler of two assignments that calls another one of two.             *)
(***************************************************************************)
LEMMA Join2 ==
  ASSUME NEW a, NEW b, NEW c, NEW d
  PROVE <<a, b>> \o <<c, d>> = <<a, b, c, d>>
<1> DEFINE s == <<a, b>> u == <<c, d>> t == <<a, b, c, d>> S == {a, b, c, d}
<1>1. s \in Seq(S) /\ u \in Seq(S) /\ t \in Seq(S) OBVIOUS
<1>2. Len(s) = 2 /\ Len(u) = 2 /\ Len(t) = 4 OBVIOUS
<1>3. s[1] = a /\ s[2] = b /\ u[1] = c /\ u[2] = d OBVIOUS
<1>4. t[1] = a /\ t[2] = b /\ t[3] = c /\ t[4] = d OBVIOUS
<1> HIDE DEF s, u, t, S
<1>5. \A i \in 1 .. Len(s) + Len(u) : t[i] = IF i <= Len(s) THEN s[i] ELSE u[i - Len(s)]
  BY <1>2, <1>3, <1>4
<1>6. Len(t) = Len(s) + Len(u) BY <1>2
<1>7. s \o u = t BY <1>1, <1>5, <1>6, JoinedAs, Zenon
<1> QED BY <1>7 DEF s, u, t

(***************************************************************************)
(* A handler of one assignment that calls another one of four.             *)
(***************************************************************************)
LEMMA Join1 ==
  ASSUME NEW a, NEW b, NEW c, NEW d, NEW e
  PROVE <<e>> \o <<a, b, c, d>> = <<e, a, b, c, d>>
<1> DEFINE s == <<e>> u == <<a, b, c, d>> t == <<e, a, b, c, d>> S == {a, b, c, d, e}
<1>1. s \in Seq(S) /\ u \in Seq(S) /\ t \in Seq(S) OBVIOUS
<1>2. Len(s) = 1 /\ Len(u) = 4 /\ Len(t) = 5 OBVIOUS
<1>3. s[1] = e /\ u[1] = a /\ u[2] = b /\ u[3] = c /\ u[4] = d OBVIOUS
<1>4. t[1] = e /\ t[2] = a /\ t[3] = b /\ t[4] = c /\ t[5] = d OBVIOUS
<1> HIDE DEF s, u, t, S
<1>5. \A i \in 1 .. Len(s) + Len(u) : t[i] = IF i <= Len(s) THEN s[i] ELSE u[i - Len(s)]
  BY <1>2, <1>3, <1>4
<1>6. Len(t) = Len(s) + Len(u) BY <1>2
<1>7. s \o u = t BY <1>1, <1>5, <1>6, JoinedAs, Zenon
<1> QED BY <1>7 DEF s, u, t

(***************************************************************************)
(* The rest of a well-formed list is well-formed.                          *)
(***************************************************************************)
LEMMA TailWellFormed == ASSUME NEW t, WellFormed(t), t # <<>> PROVE WellFormed(Tail(t))
<1> DEFINE u == Tail(t)
<1>1. t \in Seq(Assignments) /\ Len(t) \in Nat /\ Len(t) > 0 BY DEF WellFormed
<1>2. u \in Seq(Assignments) /\ Len(u) = Len(t) - 1 BY <1>1
<1>3. \A j \in DOMAIN u : j + 1 \in DOMAIN t /\ u[j] = t[j + 1] BY <1>1, <1>2
<1>4. DOMAIN u = 1 .. Len(u) /\ DOMAIN t = 1 .. Len(t) BY <1>1, <1>2
<1> HIDE DEF u
<1>5. \A k \in DOMAIN t : k > 1 => k - 1 \in DOMAIN u /\ t[k] = u[k-1]
   BY <1>1, <1>2, <1>3, <1>4
<1>6. ASSUME NEW a, NEW b, FollowedBy(t, a, b) PROVE FollowedBy(u, a, b)
  BY <1>3, <1>4, <1>5, <1>6, <1>1, <1>2 DEF FollowedBy
<1>a. Once(t) BY DEF WellFormed
<1>7. ASSUME NEW j \in DOMAIN u, NEW k \in DOMAIN u, u[j][1] = u[k][1] PROVE j = k
  <2>1. t[j + 1][1] = t[k + 1][1] BY <1>3, <1>7
  <2>2. j + 1 = k + 1 BY <2>1, <1>3, <1>a DEF Once
  <2> QED BY <2>2, <1>4, <1>2
<1>8. \A j, k \in DOMAIN u : u[j] = <<"relayTimer", "new">> /\ u[k] = <<"relay", 1>> => k < j
  <2>1. ASSUME NEW j \in DOMAIN u, NEW k \in DOMAIN u, u[j] = <<"relayTimer", "new">>, u[k] = <<"relay", 1>> PROVE k < j
    <3>1. t[j + 1] = <<"relayTimer", "new">> /\ t[k + 1] = <<"relay", 1>> BY <2>1, <1>3
    <3>2. k + 1 < j + 1 BY <3>1, <1>3, Zenon DEF WellFormed
    <3> QED BY <3>2, <1>4, <1>2
  <2> QED BY <2>1
<1>9. Once(u) BY <1>7 DEF Once
<1> QED BY <1>2, <1>6, <1>9, <1>8, Zenon DEF WellFormed, u

(***************************************************************************)
(* A running handler.                                                      *)
(***************************************************************************)
Handler == [from : {"statemachine", "other"}, todo : Seq(Assignments \cup {<<"setRelay">>})]

(***************************************************************************)
(* A set of assignments has one to the variable v.                         *)
(***************************************************************************)
Sets(ops, v) == \E op \in ops : op[1] = v

(***************************************************************************)
(* What a running handler has left to do: the decision of setRelay, or a   *)
(* well-formed list.                                                       *)
(***************************************************************************)
Frame(t) == t = setRelay \/ (t # <<>> /\ WellFormed(t))

(***************************************************************************)
(* The handlers interrupted below position p leave c in v: the outermost   *)
(* of them that assigns v is the last one to do so, whatever runs on top.  *)
(***************************************************************************)
Below(st, p, v, c) ==
  \E i \in 1 .. p - 1 : /\ <<v, c>> \in Ops(st[i].todo)
                        /\ \A k \in 1 .. i - 1 : ~Sets(Ops(st[k].todo), v)

(***************************************************************************)
(* None of the handlers below p assigns v.                                 *)
(***************************************************************************)
Free(st, p, v) == \A k \in 1 .. p - 1 : ~Sets(Ops(st[k].todo), v)

(***************************************************************************)
(* Once all running handlers have returned, and if setRelay decides        *)
(* nothing more, v is c.                                                   *)
(***************************************************************************)
Ends(m, st, v, c) ==
  Below(st, Len(st) + 1, v, c) \/ (Free(st, Len(st) + 1, v) /\ m[v] = c)

(***************************************************************************)
(* A step at the top of the stack, p: handlers below stay as they are, and *)
(* T is what the one at p has left to do.                                  *)
(***************************************************************************)
OnTop(st, su, p, T) ==
  /\ p \in Nat \ {0} /\ Len(st) \in {p - 1, p} /\ Len(su) \in {p - 1, p}
  /\ Len(su) = p => Ops(su[p].todo) = T
  /\ Len(su) = p - 1 => T = {}
  /\ \A k \in 1 .. p - 1 : su[k] = st[k]

(***************************************************************************)
(* The step is a new interrupt, or a decision of setRelay, which assigned  *)
(* nothing itself.                                                         *)
(***************************************************************************)
Replaced(st, su, p, T) ==
  OnTop(st, su, p, T) /\ (Len(st) = p => Ops(st[p].todo) = {<<"setRelay">>})

(***************************************************************************)
(* What a variable ends with after a step at p comes from below, from the  *)
(* handler at p, or from the present value.                                *)
(***************************************************************************)
LEMMA EndsPlaced ==
  ASSUME NEW n, NEW st, NEW su, NEW p, NEW T, OnTop(st, su, p, T),
         NEW v, NEW c, Ends(n, su, v, c)
  PROVE \/ Below(st, p, v, c)
        \/ Free(st, p, v) /\ <<v, c>> \in T
        \/ Free(st, p, v) /\ ~Sets(T, v) /\ n[v] = c
<1>1. CASE Len(su) = p - 1
  <2>1. Below(st, p, v, c) <=> Below(su, p, v, c) BY DEF OnTop, Below
  <2>2. Free(st, p, v) <=> Free(su, p, v) BY DEF OnTop, Free
  <2>3. T = {} /\ Len(su) + 1 = p BY <1>1 DEF OnTop
  <2> QED BY <2>1, <2>2, <2>3 DEF Ends, Sets
<1>2. CASE Len(su) = p
  <2>1. Below(su, p + 1, v, c) => Below(st, p, v, c) \/ (Free(st, p, v) /\ <<v, c>> \in T)
    <3> SUFFICES ASSUME Below(su, p + 1, v, c) PROVE Below(st, p, v, c) \/ (Free(st, p, v) /\ <<v, c>> \in T)
      OBVIOUS
    <3>1. PICK i \in 1 .. p : /\ <<v, c>> \in Ops(su[i].todo)
                        /\ \A k \in 1 .. i - 1 : ~Sets(Ops(su[k].todo), v)
      BY DEF Below, OnTop
    <3>2. CASE i = p
      BY <3>1, <3>2, <1>2 DEF OnTop, Free
    <3>3. CASE i < p
      <4>1. <<v, c>> \in Ops(st[i].todo) /\ \A k \in 1 .. i - 1 : ~Sets(Ops(st[k].todo), v)
        BY <3>1, <3>3 DEF OnTop
      <4> QED BY <4>1, <3>3 DEF OnTop, Below
    <3> QED BY <3>1, <3>2, <3>3 DEF OnTop
  <2>2. Free(su, p + 1, v) => Free(st, p, v) /\ ~Sets(T, v)
    BY <1>2 DEF OnTop, Free
  <2> QED BY <2>1, <2>2, <1>2 DEF Ends
<1> QED BY <1>1, <1>2 DEF OnTop

(***************************************************************************)
(* What comes from below, or from the present value, was so before the     *)
(* step.                                                                   *)
(***************************************************************************)
LEMMA EndsBefore ==
  ASSUME NEW m, NEW st, NEW su, NEW p, NEW T, Replaced(st, su, p, T), NEW v, NEW c,
         v # "setRelay", Below(st, p, v, c) \/ (Free(st, p, v) /\ m[v] = c)
  PROVE Ends(m, st, v, c)
<1>1. CASE Len(st) = p - 1
  BY <1>1 DEF Replaced, OnTop, Ends
<1>2. CASE Len(st) = p
  <2>1. Below(st, p, v, c) => Below(st, p + 1, v, c) BY DEF Below, Replaced, OnTop
  <2>2. ~Sets({<<"setRelay">>}, v) BY DEF Sets
  <2>3. ASSUME Free(st, p, v), NEW k \in 1 .. p PROVE ~Sets(Ops(st[k].todo), v)
    <3>1. CASE k = p BY <3>1, <1>2, <2>2, Zenon DEF Replaced
    <3>2. CASE k \in 1 .. p - 1 BY <3>2, <2>3 DEF Free
    <3> QED BY <3>1, <3>2 DEF Replaced, OnTop
  <2>4. Free(st, p, v) => Free(st, p + 1, v) BY <2>3 DEF Free, Replaced, OnTop
  <2> QED BY <1>2, <2>1, <2>4 DEF Ends
<1> QED BY <1>1, <1>2 DEF Replaced, OnTop

(***************************************************************************)
(* The relay's time has ended: four assignments, two of them               *)
(* startWaiting's.                                                         *)
(***************************************************************************)
LEMMA StopRelayTimerIs ==
  stopRelayTimer = << <<"relayTimer", "off">>, <<"relay", 0>>, <<"runningChar", "W">>, <<"waitTimer", "new">> >>
  BY Join2 DEF stopRelayTimer, startWaiting

(***************************************************************************)
(* 'r': four assignments, two of them stopWaiting's.                       *)
(***************************************************************************)
LEMMA StopCommandIs ==
  stopCommand = << <<"programChar", "blank">>, <<"relay", 0>>, <<"waitTimer", "off">>, <<"runningChar", "blank">> >>
  BY Join2 DEF stopCommand, stopWaiting

(***************************************************************************)
(* '-': alwaysRun, then what 'r' does.                                     *)
(***************************************************************************)
LEMMA StopAllIs ==
  << <<"alwaysRun", 0>> >> \o stopCommand = << <<"alwaysRun", 0>>, <<"programChar", "blank">>, <<"relay", 0>>, <<"waitTimer", "off">>, <<"runningChar", "blank">> >>
  BY StopCommandIs, Join1

(***************************************************************************)
(* stopWaiting is well-formed.                                             *)
(***************************************************************************)
LEMMA StopWaitingFrame ==
  ASSUME NEW t, t = stopWaiting
  PROVE Frame(t) /\ Ops(t) = {<<"waitTimer", "off">>, <<"runningChar", "blank">>}
<1>1. t = << <<"waitTimer", "off">>, <<"runningChar", "blank">> >> BY DEF stopWaiting
<1>2. t \in Seq(Assignments) /\ Len(t) = 2 /\ t # <<>> BY <1>1 DEF Assignments
<1>3. DOMAIN t = 1 .. 2 BY <1>2
<1>4. t[1] = <<"waitTimer", "off">> /\ t[2] = <<"runningChar", "blank">> BY <1>1
<1>5. Once(t) BY <1>3, <1>4 DEF Once
<1>6. WellFormed(t) BY <1>2, <1>3, <1>4, <1>5 DEF WellFormed, FollowedBy
<1>7. Ops(t) = {<<"waitTimer", "off">>, <<"runningChar", "blank">>} BY <1>3, <1>4 DEF Ops
<1> QED BY <1>2, <1>6, <1>7 DEF Frame

(***************************************************************************)
(* stopRelayTimer is well-formed.                                          *)
(***************************************************************************)
LEMMA StopRelayTimerFrame ==
  ASSUME NEW t, t = stopRelayTimer
  PROVE Frame(t) /\ Ops(t) = {<<"relayTimer", "off">>, <<"relay", 0>>, <<"runningChar", "W">>, <<"waitTimer", "new">>}
<1>1. t = << <<"relayTimer", "off">>, <<"relay", 0>>, <<"runningChar", "W">>, <<"waitTimer", "new">> >>
  BY StopRelayTimerIs
<1>2. t \in Seq(Assignments) /\ Len(t) = 4 /\ t # <<>> BY <1>1 DEF Assignments
<1>3. DOMAIN t = 1 .. 4 BY <1>2
<1>4. t[1] = <<"relayTimer", "off">> /\ t[2] = <<"relay", 0>> /\ t[3] = <<"runningChar", "W">> /\ t[4] = <<"waitTimer", "new">>
  BY <1>1
<1>5. Once(t) BY <1>3, <1>4 DEF Once
<1>6. WellFormed(t) BY <1>2, <1>3, <1>4, <1>5 DEF WellFormed, FollowedBy
<1>7. Ops(t) = {<<"relayTimer", "off">>, <<"relay", 0>>, <<"runningChar", "W">>, <<"waitTimer", "new">>}
  BY <1>3, <1>4 DEF Ops
<1> QED BY <1>2, <1>6, <1>7 DEF Frame

(***************************************************************************)
(* The command 'r' is well-formed.                                         *)
(***************************************************************************)
LEMMA StopCommandFrame ==
  ASSUME NEW t, t = stopCommand
  PROVE Frame(t) /\ Ops(t) = {<<"programChar", "blank">>, <<"relay", 0>>, <<"waitTimer", "off">>, <<"runningChar", "blank">>}
<1>1. t = << <<"programChar", "blank">>, <<"relay", 0>>, <<"waitTimer", "off">>, <<"runningChar", "blank">> >>
  BY StopCommandIs
<1>2. t \in Seq(Assignments) /\ Len(t) = 4 /\ t # <<>> BY <1>1 DEF Assignments
<1>3. DOMAIN t = 1 .. 4 BY <1>2
<1>4. t[1] = <<"programChar", "blank">> /\ t[2] = <<"relay", 0>> /\ t[3] = <<"waitTimer", "off">> /\ t[4] = <<"runningChar", "blank">>
  BY <1>1
<1>5. Once(t) BY <1>3, <1>4 DEF Once
<1>6. WellFormed(t) BY <1>2, <1>3, <1>4, <1>5 DEF WellFormed, FollowedBy
<1>7. Ops(t) = {<<"programChar", "blank">>, <<"relay", 0>>, <<"waitTimer", "off">>, <<"runningChar", "blank">>}
  BY <1>3, <1>4 DEF Ops
<1> QED BY <1>2, <1>6, <1>7 DEF Frame

(***************************************************************************)
(* The command '-' is well-formed.                                         *)
(***************************************************************************)
LEMMA StopAllFrame ==
  ASSUME NEW t, t = << <<"alwaysRun", 0>>, <<"programChar", "blank">>, <<"relay", 0>>, <<"waitTimer", "off">>, <<"runningChar", "blank">> >>
  PROVE Frame(t) /\ Ops(t) = {<<"alwaysRun", 0>>, <<"programChar", "blank">>, <<"relay", 0>>, <<"waitTimer", "off">>, <<"runningChar", "blank">>}
<1>1. t = << <<"alwaysRun", 0>>, <<"programChar", "blank">>, <<"relay", 0>>, <<"waitTimer", "off">>, <<"runningChar", "blank">> >>
  OBVIOUS
<1>2. t \in Seq(Assignments) /\ Len(t) = 5 /\ t # <<>> BY <1>1 DEF Assignments
<1>3. DOMAIN t = 1 .. 5 BY <1>2
<1>4. t[1] = <<"alwaysRun", 0>> /\ t[2] = <<"programChar", "blank">> /\ t[3] = <<"relay", 0>> /\ t[4] = <<"waitTimer", "off">> /\ t[5] = <<"runningChar", "blank">>
  BY <1>1
<1>5. Once(t) BY <1>3, <1>4 DEF Once
<1>6. WellFormed(t) BY <1>2, <1>3, <1>4, <1>5 DEF WellFormed, FollowedBy
<1>7. Ops(t) = {<<"alwaysRun", 0>>, <<"programChar", "blank">>, <<"relay", 0>>, <<"waitTimer", "off">>, <<"runningChar", "blank">>}
  BY <1>3, <1>4 DEF Ops
<1> QED BY <1>2, <1>6, <1>7 DEF Frame

(***************************************************************************)
(* startRelayTimer is well-formed.                                         *)
(***************************************************************************)
LEMMA StartRelayTimerFrame ==
  ASSUME NEW t, t = startRelayTimer
  PROVE Frame(t) /\ Ops(t) = {<<"relay", 1>>, <<"relayTimer", "new">>, <<"runningChar", "O">>}
<1>1. t = << <<"relay", 1>>, <<"relayTimer", "new">>, <<"runningChar", "O">> >>
  BY DEF startRelayTimer
<1>2. t \in Seq(Assignments) /\ Len(t) = 3 /\ t # <<>> BY <1>1 DEF Assignments
<1>3. DOMAIN t = 1 .. 3 BY <1>2
<1>4. t[1] = <<"relay", 1>> /\ t[2] = <<"relayTimer", "new">> /\ t[3] = <<"runningChar", "O">>
  BY <1>1
<1>5. Once(t) BY <1>3, <1>4 DEF Once
<1>6. WellFormed(t) BY <1>2, <1>3, <1>4, <1>5 DEF WellFormed, FollowedBy
<1>7. Ops(t) = {<<"relay", 1>>, <<"relayTimer", "new">>, <<"runningChar", "O">>}
  BY <1>3, <1>4 DEF Ops
<1> QED BY <1>2, <1>6, <1>7 DEF Frame

(***************************************************************************)
(* So is what setRelay decides when alwaysRun is on.                       *)
(***************************************************************************)
LEMMA AlwaysOnFrame ==
  ASSUME NEW t, t = << <<"relay", 1>>, <<"runningChar", "+">> >>
  PROVE Frame(t) /\ Ops(t) = {<<"relay", 1>>, <<"runningChar", "+">>}
<1>1. t = << <<"relay", 1>>, <<"runningChar", "+">> >> OBVIOUS
<1>2. t \in Seq(Assignments) /\ Len(t) = 2 /\ t # <<>> BY <1>1 DEF Assignments
<1>3. DOMAIN t = 1 .. 2 BY <1>2
<1>4. t[1] = <<"relay", 1>> /\ t[2] = <<"runningChar", "+">> BY <1>1
<1>5. Once(t) BY <1>3, <1>4 DEF Once
<1>6. WellFormed(t) BY <1>2, <1>3, <1>4, <1>5 DEF WellFormed, FollowedBy
<1>7. Ops(t) = {<<"relay", 1>>, <<"runningChar", "+">>} BY <1>3, <1>4 DEF Ops
<1> QED BY <1>2, <1>6, <1>7 DEF Frame

(***************************************************************************)
(* So is switching off because of the temperature.                         *)
(***************************************************************************)
LEMMA OffNowFrame ==
  ASSUME NEW t, t = << <<"relay", 0>> >>
  PROVE Frame(t) /\ Ops(t) = {<<"relay", 0>>}
<1>1. t = << <<"relay", 0>> >> OBVIOUS
<1>2. t \in Seq(Assignments) /\ Len(t) = 1 /\ t # <<>> BY <1>1 DEF Assignments
<1>3. DOMAIN t = 1 .. 1 BY <1>2
<1>4. t[1] = <<"relay", 0>> BY <1>1
<1>5. Once(t) BY <1>3, <1>4 DEF Once
<1>6. WellFormed(t) BY <1>2, <1>3, <1>4, <1>5 DEF WellFormed, FollowedBy
<1>7. Ops(t) = {<<"relay", 0>>} BY <1>3, <1>4 DEF Ops
<1> QED BY <1>2, <1>6, <1>7 DEF Frame

(***************************************************************************)
(* The command '+' is well-formed.                                         *)
(***************************************************************************)
LEMMA RunCommandFrame ==
  ASSUME NEW t, t = << <<"alwaysRun", 1>>, <<"relay", 1>> >>
  PROVE Frame(t) /\ Ops(t) = {<<"alwaysRun", 1>>, <<"relay", 1>>}
<1>1. t = << <<"alwaysRun", 1>>, <<"relay", 1>> >> OBVIOUS
<1>2. t \in Seq(Assignments) /\ Len(t) = 2 /\ t # <<>> BY <1>1 DEF Assignments
<1>3. DOMAIN t = 1 .. 2 BY <1>2
<1>4. t[1] = <<"alwaysRun", 1>> /\ t[2] = <<"relay", 1>> BY <1>1
<1>5. Once(t) BY <1>3, <1>4 DEF Once
<1>6. WellFormed(t) BY <1>2, <1>3, <1>4, <1>5 DEF WellFormed, FollowedBy
<1>7. Ops(t) = {<<"alwaysRun", 1>>, <<"relay", 1>>} BY <1>3, <1>4 DEF Ops
<1> QED BY <1>2, <1>6, <1>7 DEF Frame

(***************************************************************************)
(* The command 'R' is well-formed.                                         *)
(***************************************************************************)
LEMMA ProgramCommandFrame ==
  ASSUME NEW t, t = << <<"programChar", "R">> >>
  PROVE Frame(t) /\ Ops(t) = {<<"programChar", "R">>}
<1>1. t = << <<"programChar", "R">> >> OBVIOUS
<1>2. t \in Seq(Assignments) /\ Len(t) = 1 /\ t # <<>> BY <1>1 DEF Assignments
<1>3. DOMAIN t = 1 .. 1 BY <1>2
<1>4. t[1] = <<"programChar", "R">> BY <1>1
<1>5. Once(t) BY <1>3, <1>4 DEF Once
<1>6. WellFormed(t) BY <1>2, <1>3, <1>4, <1>5 DEF WellFormed, FollowedBy
<1>7. Ops(t) = {<<"programChar", "R">>} BY <1>3, <1>4 DEF Ops
<1> QED BY <1>2, <1>6, <1>7 DEF Frame

(***************************************************************************)
(* A call of setRelay has its decision to make, and has assigned nothing.  *)
(***************************************************************************)
LEMMA SetRelayFrame == Frame(setRelay) /\ Ops(setRelay) = {<<"setRelay">>}
<1>1. DOMAIN setRelay = 1 .. 1 /\ setRelay[1] = <<"setRelay">> BY DEF setRelay
<1> QED BY <1>1 DEF Frame, Ops

(***************************************************************************)
(* What comes with what in a handler, without the order.                   *)
(***************************************************************************)
LEMMA FrameFollows ==
  ASSUME NEW t, Frame(t)
  PROVE /\ <<"programChar", "blank">> \in Ops(t) => <<"relay", 0>> \in Ops(t)
        /\ <<"alwaysRun", 0>> \in Ops(t) => <<"relay", 0>> \in Ops(t)
        /\ <<"alwaysRun", 0>> \in Ops(t) => <<"runningChar", "blank">> \in Ops(t)
        /\ <<"relayTimer", "off">> \in Ops(t) => <<"relay", 0>> \in Ops(t)
        /\ <<"relayTimer", "off">> \in Ops(t) => <<"runningChar", "W">> \in Ops(t)
        /\ <<"runningChar", "W">> \in Ops(t) => <<"waitTimer", "new">> \in Ops(t)
        /\ <<"waitTimer", "off">> \in Ops(t) => <<"runningChar", "blank">> \in Ops(t)
<1>1. CASE t = setRelay
  BY <1>1, SetRelayFrame
<1>2. CASE WellFormed(t)
  <2>1. ASSUME NEW a, NEW b, FollowedBy(t, a, b), a \in Ops(t) PROVE b \in Ops(t)
    BY <2>1 DEF FollowedBy, Ops
  <2> QED BY <1>2, <2>1 DEF WellFormed
<1> QED BY <1>1, <1>2 DEF Frame

(***************************************************************************)
(* A handler has one value for each variable.                              *)
(***************************************************************************)
LEMMA FrameOnce ==
  ASSUME NEW t, Frame(t), NEW a \in Ops(t), NEW b \in Ops(t), a[1] = b[1]
  PROVE a = b
<1>1. CASE t = setRelay
  BY <1>1, SetRelayFrame
<1>2. CASE WellFormed(t)
  BY <1>2 DEF WellFormed, Once, Ops
<1> QED BY <1>1, <1>2 DEF Frame

(***************************************************************************)
(* The running handlers.                                                   *)
(***************************************************************************)
Handlers ==
  stack \in Seq(Handler) /\ \A i \in DOMAIN stack : Frame(stack[i].todo)

(***************************************************************************)
(* The assignments of '-'; those of 'r' are all but the first.             *)
(***************************************************************************)
StopOps ==
  {<<"alwaysRun", 0>>, <<"programChar", "blank">>, <<"relay", 0>>, <<"waitTimer", "off">>,
   <<"runningChar", "blank">>}

(***************************************************************************)
(* A handler switches the relay on for good: it decided to when alwaysRun  *)
(* was on.                                                                 *)
(***************************************************************************)
Always(ops) ==
  <<"runningChar", "+">> \in ops \/ (<<"relay", 1>> \in ops /\ <<"relayTimer", "new">> \notin ops)

(***************************************************************************)
(* The invariants, about what the variables end with. A stopped program    *)
(* ends with the relay off.                                                *)
(***************************************************************************)
StoppedEndsOff ==
  ~(/\ Ends(mem, stack, "programChar", "blank") /\ Ends(mem, stack, "alwaysRun", 0)
    /\ Ends(mem, stack, "relay", 1))

(***************************************************************************)
(* A relay that ends on, and not for good, ends with its timer running.    *)
(***************************************************************************)
OnEndsTimed ==
  ~(/\ Ends(mem, stack, "relay", 1) /\ Ends(mem, stack, "alwaysRun", 0)
    /\ Ends(mem, stack, "relayTimer", "off"))

(***************************************************************************)
(* A '+' on the display ends with alwaysRun on.                            *)
(***************************************************************************)
PlusEndsAlways == ~(Ends(mem, stack, "runningChar", "+") /\ Ends(mem, stack, "alwaysRun", 0))

(***************************************************************************)
(* An 'O' ends with the relay's timer running; this one and the next hold  *)
(* even when a stop command came between a decision and its execution.     *)
(***************************************************************************)
RunningEndsTimed == ~(Ends(mem, stack, "runningChar", "O") /\ Ends(mem, stack, "relayTimer", "off"))

(***************************************************************************)
(* A 'W' ends with the waiting timer running.                              *)
(***************************************************************************)
WaitingEndsTimed == ~(Ends(mem, stack, "runningChar", "W") /\ Ends(mem, stack, "waitTimer", "off"))

(***************************************************************************)
(* When alwaysRun ends off, a handler that switches the relay on for good  *)
(* has interrupted the very handler that ends this, which switches the     *)
(* relay off after it.                                                     *)
(***************************************************************************)
OnUnderStop ==
  Ends(mem, stack, "alwaysRun", 0) =>
    \A j \in DOMAIN stack : Always(Ops(stack[j].todo)) =>
      \E k \in 1 .. j - 1 : <<"alwaysRun", 0>> \in Ops(stack[k].todo)

(***************************************************************************)
(* A handler that has yet to show 'O' and has started the timer already    *)
(* finds it not yet run out, and nothing on top removes it.                *)
(***************************************************************************)
StartedAlready ==
  \A j \in DOMAIN stack :
    <<"runningChar", "O">> \in Ops(stack[j].todo) /\ <<"relayTimer", "new">> \notin Ops(stack[j].todo) =>
      /\ mem.relayTimer = "new"
      /\ \A k \in DOMAIN stack : k > j => <<"relayTimer", "off">> \notin Ops(stack[k].todo)

(***************************************************************************)
(* With no handler running, timers have had time to settle.                *)
(***************************************************************************)
TimersSet == stack = <<>> => mem.relayTimer # "new" /\ mem.waitTimer # "new"

(***************************************************************************)
(* The nesting of handlers, as TypeOK has it.                              *)
(***************************************************************************)
Nesting ==
  /\ Len(stack) <= MaxNest
  /\ \A i \in DOMAIN stack :
       stack[i].from \in {"statemachine", "other"} /\ stack[i].todo # <<>>

(***************************************************************************)
(* The inductive invariant. It needs the handlers' lists, since the three  *)
(* properties are about the moment when the last of them returns.          *)
(***************************************************************************)
RelayInv ==
  /\ TypeOK /\ Handlers /\ StartedAlready /\ RunningEndsTimed /\ WaitingEndsTimed /\ TimersSet
  /\ ~raced => StoppedEndsOff /\ OnEndsTimed /\ PlusEndsAlways /\ OnUnderStop

(***************************************************************************)
(* The invariant holds at the start.                                       *)
(***************************************************************************)
LEMMA RelayInitInv == Init => RelayInv
<1> SUFFICES ASSUME Init PROVE RelayInv
  OBVIOUS
<1>1. stack = <<>> /\ Len(stack) = 0 /\ DOMAIN stack = {} /\ stack \in Seq(Handler) BY DEF Init
<1>2. mem \in Memory BY DEF Init, Memory
<1>3. TypeOK
  <2>1. Len(stack) <= MaxNest BY <1>1, NestAssumption
  <2>2. raced \in BOOLEAN BY Zenon DEF Init
  <2> QED BY <1>1, <1>2, <2>1, <2>2 DEF TypeOK
<1>4. \A v, c : Ends(mem, stack, v, c) => mem[v] = c BY <1>1 DEF Ends, Below
<1>5. /\ mem.relay = 0 /\ mem.runningChar = "blank" /\ mem.relayTimer = "off" /\ mem.waitTimer = "off"
  BY DEF Init
<1>6. StoppedEndsOff /\ OnEndsTimed /\ PlusEndsAlways /\ RunningEndsTimed /\ WaitingEndsTimed
  BY <1>4, <1>5 DEF StoppedEndsOff, OnEndsTimed, PlusEndsAlways, RunningEndsTimed, WaitingEndsTimed
<1>7. Handlers /\ StartedAlready /\ OnUnderStop /\ TimersSet
  BY <1>1, <1>5 DEF Handlers, StartedAlready, OnUnderStop, TimersSet
<1> QED BY <1>3, <1>6, <1>7 DEF RelayInv

(***************************************************************************)
(* An interrupt puts its handler on top.                                   *)
(***************************************************************************)
LEMMA CallFacts ==
  ASSUME RelayInv, NEW f \in {"statemachine", "other"}, NEW t, Frame(t), Call(f, t)
  PROVE /\ Replaced(stack, stack', Len(stack) + 1, Ops(t))
        /\ stack' \in Seq(Handler) /\ Handlers' /\ Nesting'
        /\ stack' # <<>> /\ DOMAIN stack' = 1 .. Len(stack) + 1 /\ DOMAIN stack = 1 .. Len(stack)
        /\ Len(stack) \in Nat
        /\ stack'[Len(stack) + 1].todo = t
        /\ \A i \in DOMAIN stack : stack'[i] = stack[i]
<1>1. stack \in Seq(Handler) /\ Len(stack) \in Nat /\ DOMAIN stack = 1 .. Len(stack)
  BY DEF RelayInv, Handlers
<1>2. t \in Seq(Assignments \cup {<<"setRelay">>}) /\ t # <<>>
  <2>1. CASE t = setRelay BY <2>1 DEF setRelay
  <2>2. CASE WellFormed(t) /\ t # <<>>
    <3>1. t \in Seq(Assignments) BY <2>2 DEF WellFormed
    <3> QED BY <3>1, <2>2
  <2> QED BY <2>1, <2>2 DEF Frame
<1> DEFINE h == [from |-> f, todo |-> t]
<1>3. h \in Handler /\ h.from = f /\ h.todo = t BY <1>2 DEF Handler
<1> HIDE DEF h
<1>4. stack' = Append(stack, h) /\ Len(stack) < MaxNest BY DEF Call, h
<1>5. stack' \in Seq(Handler) /\ Len(stack') = Len(stack) + 1 BY <1>1, <1>3, <1>4
<1>6. stack'[Len(stack) + 1] = h /\ \A i \in DOMAIN stack : stack'[i] = stack[i] BY <1>1, <1>3, <1>4
<1>7. DOMAIN stack' = 1 .. Len(stack) + 1 /\ stack' # <<>> BY <1>5, <1>1
<1>8. \A i \in DOMAIN stack' : i \in DOMAIN stack \/ i = Len(stack) + 1 BY <1>7, <1>1
<1>9. \A i \in DOMAIN stack' : Frame(stack'[i].todo)
  BY <1>3, <1>6, <1>8 DEF RelayInv, Handlers
<1>10. \A i \in DOMAIN stack' : stack'[i].from \in {"statemachine", "other"} /\ stack'[i].todo # <<>>
  BY <1>2, <1>3, <1>6, <1>8 DEF RelayInv, TypeOK
<1>11. Replaced(stack, stack', Len(stack) + 1, Ops(t))
  <2> DEFINE p == Len(stack) + 1
  <2>a. \A n \in Nat : n + 1 \in Nat \ {0} /\ n = (n + 1) - 1 /\ n # n + 1 /\ n + 1 # (n + 1) - 1
    OBVIOUS
  <2>1. p \in Nat \ {0} /\ Len(stack) = p - 1 /\ Len(stack) # p /\ Len(stack') = p /\ p # p - 1
    BY <2>a, <1>1, <1>5, Zenon
  <2>2. stack'[p].todo = t BY <1>3, <1>6
  <2>3. \A k \in 1 .. p - 1 : stack'[k] = stack[k] BY <1>6, <1>1, <2>1, Zenon
  <2> HIDE DEF p
  <2>4. Replaced(stack, stack', p, Ops(t)) BY <2>1, <2>2, <2>3 DEF Replaced, OnTop
  <2> QED BY <2>4 DEF p
<1>12. Len(stack') <= MaxNest BY <1>1, <1>4, <1>5, NestAssumption
<1> QED BY <1>1, <1>3, <1>5, <1>6, <1>7, <1>9, <1>10, <1>11, <1>12 DEF Handlers, Nesting

(***************************************************************************)
(* The values the invariants are about.                                    *)
(***************************************************************************)
Watched ==
  {<<"programChar", "blank">>, <<"alwaysRun", 0>>, <<"relay", 1>>, <<"relayTimer", "off">>,
   <<"runningChar", "O">>, <<"runningChar", "W">>, <<"runningChar", "+">>, <<"waitTimer", "off">>}

(***************************************************************************)
(* A step of the memory makes none of these.                               *)
(***************************************************************************)
Keeps(m, n) == \A q \in Watched : n[q[1]] = q[2] => m[q[1]] = q[2]

(***************************************************************************)
(* Where the values of the next state come from.                           *)
(***************************************************************************)
FromBelow(p, T) ==
  \A q \in Watched :
    Ends(mem', stack', q[1], q[2]) =>
      \/ Below(stack, p, q[1], q[2])
      \/ Free(stack, p, q[1]) /\ <<q[1], q[2]>> \in T
      \/ ~Sets(T, q[1]) /\ mem[q[1]] = q[2] /\ Ends(mem, stack, q[1], q[2])

(***************************************************************************)
(* What comes from below was so before.                                    *)
(***************************************************************************)
BelowEnds(p) ==
  /\ Below(stack, p, "programChar", "blank") => Ends(mem, stack, "programChar", "blank")
  /\ Below(stack, p, "alwaysRun", 0) => Ends(mem, stack, "alwaysRun", 0)
  /\ Below(stack, p, "relay", 1) => Ends(mem, stack, "relay", 1)
  /\ Below(stack, p, "relayTimer", "off") => Ends(mem, stack, "relayTimer", "off")
  /\ Below(stack, p, "runningChar", "O") => Ends(mem, stack, "runningChar", "O")
  /\ Below(stack, p, "runningChar", "W") => Ends(mem, stack, "runningChar", "W")
  /\ Below(stack, p, "runningChar", "+") => Ends(mem, stack, "runningChar", "+")
  /\ Below(stack, p, "waitTimer", "off") => Ends(mem, stack, "waitTimer", "off")

(***************************************************************************)
(* What a value that comes from below brings with it.                      *)
(***************************************************************************)
BelowFollows(st, p) ==
  /\ Below(st, p, "programChar", "blank") => ~Free(st, p, "relay")
  /\ Below(st, p, "alwaysRun", 0) => ~Free(st, p, "relay")
  /\ Below(st, p, "alwaysRun", 0) => ~Free(st, p, "runningChar")
  /\ Below(st, p, "relayTimer", "off") => ~Free(st, p, "relay")
  /\ Below(st, p, "relayTimer", "off") => ~Free(st, p, "runningChar")
  /\ Below(st, p, "runningChar", "W") => ~Free(st, p, "waitTimer")
  /\ Below(st, p, "waitTimer", "off") => ~Free(st, p, "runningChar")

(***************************************************************************)
(* That it does, by what comes with what in one handler.                   *)
(***************************************************************************)
LEMMA StackFollows ==
  ASSUME NEW st, NEW p \in Nat, \A i \in 1 .. p - 1 : Frame(st[i].todo)
  PROVE BelowFollows(st, p)
<1>1. ASSUME NEW v, NEW c, NEW w, NEW d, Below(st, p, v, c),
             \A i \in 1 .. p - 1 : <<v, c>> \in Ops(st[i].todo) => <<w, d>> \in Ops(st[i].todo)
      PROVE ~Free(st, p, w)
  <2>1. PICK i \in 1 .. p - 1 : <<v, c>> \in Ops(st[i].todo) BY <1>1 DEF Below
  <2>2. Sets(Ops(st[i].todo), w) BY <2>1, <1>1 DEF Sets
  <2> QED BY <2>2 DEF Free
<1> QED BY <1>1, FrameFollows DEF BelowFollows

(***************************************************************************)
(* All of this holds of every new interrupt and every decision.            *)
(***************************************************************************)
LEMMA Placed ==
  ASSUME RelayInv, NEW p, NEW T, Replaced(stack, stack', p, T), Keeps(mem, mem')
  PROVE FromBelow(p, T) /\ BelowEnds(p) /\ BelowFollows(stack, p)
<1>1. ASSUME NEW q \in Watched, Below(stack, p, q[1], q[2]) \/ (Free(stack, p, q[1]) /\ mem[q[1]] = q[2])
      PROVE Ends(mem, stack, q[1], q[2])
  <2>1. q[1] # "setRelay" BY DEF Watched
  <2> QED BY <1>1, <2>1, EndsBefore, Zenon
<1>2. ASSUME NEW q \in Watched, Ends(mem', stack', q[1], q[2])
      PROVE \/ Below(stack, p, q[1], q[2])
            \/ Free(stack, p, q[1]) /\ <<q[1], q[2]>> \in T
            \/ ~Sets(T, q[1]) /\ mem[q[1]] = q[2] /\ Ends(mem, stack, q[1], q[2])
  <2>1. ASSUME NEW v, NEW c, Ends(mem', stack', v, c)
        PROVE \/ Below(stack, p, v, c)
              \/ Free(stack, p, v) /\ <<v, c>> \in T
              \/ Free(stack, p, v) /\ ~Sets(T, v) /\ mem'[v] = c
    BY <2>1, EndsPlaced, Zenon DEF Replaced
  <2> QED BY <1>2, <2>1, <1>1 DEF Keeps
<1>3. \A i \in 1 .. p - 1 : Frame(stack[i].todo)
  <2>1. PICK a \in Nat : a = Len(stack) /\ DOMAIN stack = 1 .. a BY DEF RelayInv, Handlers
  <2>2. p \in Nat /\ (a = p - 1 \/ a = p) BY <2>1 DEF Replaced, OnTop
  <2>3. \A i \in 1 .. p - 1 : i \in DOMAIN stack BY <2>1, <2>2
  <2> QED BY <2>3 DEF RelayInv, Handlers
<1>4. BelowFollows(stack, p)
  <2>1. p \in Nat BY DEF Replaced, OnTop
  <2> QED BY <1>3, <2>1, StackFollows, Zenon
<1>5. BelowEnds(p) BY <1>1 DEF BelowEnds, Watched
<1> QED BY <1>2, <1>4, <1>5 DEF FromBelow

(***************************************************************************)
(* The positions of the stack before and after a step at its top.          *)
(***************************************************************************)
LEMMA OnTopAt ==
  ASSUME NEW st \in Seq(Handler), NEW su \in Seq(Handler), NEW p, NEW T, OnTop(st, su, p, T)
  PROVE /\ p \in Nat \ {0}
        /\ \A i \in 1 .. p - 1 : i \in DOMAIN st
        /\ \A i \in DOMAIN su : i = p \/ (i \in 1 .. p - 1 /\ i \in DOMAIN st /\ su[i] = st[i])
        /\ p \in DOMAIN su => Ops(su[p].todo) = T
        /\ \A j \in DOMAIN su : \A k \in 1 .. j - 1 : su[k] = st[k]
<1>1. PICK a \in Nat : Len(st) = a /\ DOMAIN st = 1 .. a OBVIOUS
<1>2. PICK b \in Nat : Len(su) = b /\ DOMAIN su = 1 .. b OBVIOUS
<1>3. p \in Nat \ {0} /\ (a = p - 1 \/ a = p) /\ (b = p - 1 \/ b = p) BY <1>1, <1>2 DEF OnTop
<1>4. \A k \in 1 .. p - 1 : su[k] = st[k] BY DEF OnTop
<1>5. \A i \in 1 .. p - 1 : i \in 1 .. a BY <1>3
<1>6. \A i \in 1 .. b : i = p \/ i \in 1 .. p - 1 BY <1>3
<1>7. p \in 1 .. b => b = p BY <1>3
<1>8. \A j \in 1 .. b : \A k \in 1 .. j - 1 : k \in 1 .. p - 1 BY <1>3
<1>9. b = p => Ops(su[p].todo) = T BY <1>2 DEF OnTop
<1> QED BY <1>1, <1>2, <1>3, <1>4, <1>5, <1>6, <1>7, <1>8, <1>9, Zenon

(***************************************************************************)
(* StartedAlready survives a step whose handler starts the timer if it     *)
(* shows 'O', and does not remove it while it runs out.                    *)
(***************************************************************************)
LEMMA FreshPlaced ==
  ASSUME RelayInv, Handlers', NEW p, NEW T, Replaced(stack, stack', p, T),
         \/ mem.relayTimer = "set"
         \/ (stack' # <<>> => mem'.relayTimer = mem.relayTimer) /\ <<"relayTimer", "off">> \notin T,
         <<"runningChar", "O">> \in T => <<"relayTimer", "new">> \in T
  PROVE StartedAlready'
<1>1. stack \in Seq(Handler) /\ stack' \in Seq(Handler) BY DEF RelayInv, Handlers
<1>2. \A j \in DOMAIN stack' : \A k \in 1 .. j - 1 : stack'[k] = stack[k]
  BY <1>1, OnTopAt DEF Replaced
<1>3. \A i \in DOMAIN stack' : i = p \/ (i \in 1 .. p - 1 /\ i \in DOMAIN stack /\ stack'[i] = stack[i])
  BY <1>1, OnTopAt DEF Replaced
<1>4. p \in DOMAIN stack' => Ops(stack'[p].todo) = T
  BY <1>1, OnTopAt DEF Replaced
<1> SUFFICES ASSUME NEW j \in DOMAIN stack', <<"runningChar", "O">> \in Ops(stack'[j].todo),
                    <<"relayTimer", "new">> \notin Ops(stack'[j].todo)
             PROVE /\ mem'.relayTimer = "new"
                   /\ \A k \in DOMAIN stack' : k > j => <<"relayTimer", "off">> \notin Ops(stack'[k].todo)
  BY DEF StartedAlready
<1>5. j \in 1 .. p - 1 /\ j \in DOMAIN stack /\ stack'[j] = stack[j]
  BY <1>3, <1>4
<1>6. /\ mem.relayTimer = "new"
      /\ \A k \in DOMAIN stack : k > j => <<"relayTimer", "off">> \notin Ops(stack[k].todo)
  BY <1>5 DEF RelayInv, StartedAlready
<1>7. mem'.relayTimer = mem.relayTimer /\ <<"relayTimer", "off">> \notin T
  <2>1. stack' # <<>> OBVIOUS
  <2> QED BY <1>6, <2>1
<1> QED BY <1>3, <1>4, <1>6, <1>7

(***************************************************************************)
(* OnUnderStop survives a step whose handler, if it switches on for good,  *)
(* runs on top of one that ends this.                                      *)
(***************************************************************************)
LEMMA AlwaysPlaced ==
  ASSUME RelayInv, Handlers', ~raced, NEW p, NEW T, Replaced(stack, stack', p, T),
         Ends(mem', stack', "alwaysRun", 0) => Ends(mem, stack, "alwaysRun", 0),
         Always(T) /\ Ends(mem', stack', "alwaysRun", 0) => Below(stack, p, "alwaysRun", 0)
  PROVE OnUnderStop'
<1>1. stack \in Seq(Handler) /\ stack' \in Seq(Handler) BY DEF RelayInv, Handlers
<1>2. \A j \in DOMAIN stack' : \A k \in 1 .. j - 1 : stack'[k] = stack[k]
  BY <1>1, OnTopAt DEF Replaced
<1>3. \A i \in DOMAIN stack' : i = p \/ (i \in 1 .. p - 1 /\ i \in DOMAIN stack /\ stack'[i] = stack[i])
  BY <1>1, OnTopAt DEF Replaced
<1>4. p \in DOMAIN stack' => Ops(stack'[p].todo) = T
  BY <1>1, OnTopAt DEF Replaced
<1> SUFFICES ASSUME Ends(mem', stack', "alwaysRun", 0), NEW j \in DOMAIN stack', Always(Ops(stack'[j].todo))
             PROVE \E k \in 1 .. j - 1 : <<"alwaysRun", 0>> \in Ops(stack'[k].todo)
  BY DEF OnUnderStop
<1>5. \A k \in 1 .. j - 1 : stack'[k] = stack[k] BY <1>2
<1>6. CASE j = p
  BY <1>4, <1>5, <1>6 DEF Below
<1>7. CASE j \in 1 .. p - 1 /\ j \in DOMAIN stack /\ stack'[j] = stack[j]
  <2>1. \E k \in 1 .. j - 1 : <<"alwaysRun", 0>> \in Ops(stack[k].todo)
    BY <1>7 DEF RelayInv, OnUnderStop
  <2> QED BY <2>1, <1>5
<1> QED BY <1>3, <1>6, <1>7

(***************************************************************************)
(* Calls and decisions that make none of the values.                       *)
(***************************************************************************)
LEMMA HarmlessPlaced ==
  ASSUME RelayInv, Handlers', NEW p, NEW T, T \subseteq {<<"setRelay">>, <<"relay", 0>>, <<"programChar", "R">>},
         Replaced(stack, stack', p, T), Keeps(mem, mem'),
         stack' # <<>> => mem'.relayTimer = mem.relayTimer
  PROVE /\ StartedAlready' /\ RunningEndsTimed' /\ WaitingEndsTimed'
        /\ ~raced => StoppedEndsOff' /\ OnEndsTimed' /\ PlusEndsAlways' /\ OnUnderStop'
<1>1. /\ <<"programChar", "blank">> \notin T
      /\ <<"alwaysRun", 0>> \notin T
      /\ <<"relay", 1>> \notin T
      /\ <<"relayTimer", "off">> \notin T
      /\ <<"runningChar", "O">> \notin T
      /\ <<"runningChar", "W">> \notin T
      /\ <<"runningChar", "+">> \notin T
      /\ <<"waitTimer", "off">> \notin T
      /\ <<"runningChar", "O">> \in T => <<"relayTimer", "new">> \in T
  BY DEF Sets
<1>2. FromBelow(p, T) /\ BelowEnds(p) /\ BelowFollows(stack, p) BY Placed, Zenon
<1>3. /\ Ends(mem', stack', "programChar", "blank") => Ends(mem, stack, "programChar", "blank")
      /\ Ends(mem', stack', "alwaysRun", 0) => Ends(mem, stack, "alwaysRun", 0)
      /\ Ends(mem', stack', "relay", 1) => Ends(mem, stack, "relay", 1)
      /\ Ends(mem', stack', "relayTimer", "off") => Ends(mem, stack, "relayTimer", "off")
      /\ Ends(mem', stack', "runningChar", "O") => Ends(mem, stack, "runningChar", "O")
      /\ Ends(mem', stack', "runningChar", "W") => Ends(mem, stack, "runningChar", "W")
      /\ Ends(mem', stack', "runningChar", "+") => Ends(mem, stack, "runningChar", "+")
      /\ Ends(mem', stack', "waitTimer", "off") => Ends(mem, stack, "waitTimer", "off")
  BY <1>1, <1>2 DEF FromBelow, BelowEnds, Watched
<1>4. StartedAlready' BY <1>1, FreshPlaced
<1>5. WaitingEndsTimed' BY <1>2, <1>3 DEF BelowEnds, BelowFollows, RelayInv, WaitingEndsTimed
<1>6. RunningEndsTimed' BY <1>2, <1>3 DEF BelowEnds, BelowFollows, RelayInv, RunningEndsTimed
<1>7. ~raced => StoppedEndsOff' BY <1>2, <1>3 DEF BelowEnds, BelowFollows, RelayInv, StoppedEndsOff
<1>8. ~raced => OnEndsTimed' BY <1>2, <1>3 DEF BelowEnds, BelowFollows, RelayInv, OnEndsTimed
<1>9. ~raced => PlusEndsAlways' BY <1>2, <1>3 DEF BelowEnds, BelowFollows, RelayInv, PlusEndsAlways
<1>10. ~raced => OnUnderStop'
  <2>1. ~Always(T) BY <1>1 DEF Always
  <2> QED BY <1>2, <1>3, <2>1, AlwaysPlaced DEF BelowEnds
<1> QED BY <1>4, <1>5, <1>6, <1>7, <1>8, <1>9, <1>10

(***************************************************************************)
(* The command '+': if alwaysRun ends off nevertheless, '+' has            *)
(* interrupted a '-', which switches the relay off after it.               *)
(***************************************************************************)
LEMMA RunPlaced ==
  ASSUME RelayInv, Handlers', NEW p, NEW T, T = {<<"alwaysRun", 1>>, <<"relay", 1>>},
         Replaced(stack, stack', p, T), Keeps(mem, mem'),
         mem'.relayTimer = mem.relayTimer
  PROVE /\ StartedAlready' /\ RunningEndsTimed' /\ WaitingEndsTimed'
        /\ ~raced => StoppedEndsOff' /\ OnEndsTimed' /\ PlusEndsAlways' /\ OnUnderStop'
<1>1. /\ Sets(T, "alwaysRun")
      /\ Sets(T, "relay")
      /\ <<"programChar", "blank">> \notin T
      /\ <<"alwaysRun", 0>> \notin T
      /\ <<"relayTimer", "off">> \notin T
      /\ <<"runningChar", "O">> \notin T
      /\ <<"runningChar", "W">> \notin T
      /\ <<"runningChar", "+">> \notin T
      /\ <<"waitTimer", "off">> \notin T
      /\ <<"runningChar", "O">> \in T => <<"relayTimer", "new">> \in T
  BY DEF Sets
<1>2. FromBelow(p, T) /\ BelowEnds(p) /\ BelowFollows(stack, p) BY Placed, Zenon
<1>3. /\ Ends(mem', stack', "programChar", "blank") => Ends(mem, stack, "programChar", "blank")
      /\ Ends(mem', stack', "alwaysRun", 0) => Below(stack, p, "alwaysRun", 0)
      /\ Ends(mem', stack', "relay", 1) => Below(stack, p, "relay", 1) \/ Free(stack, p, "relay")
      /\ Ends(mem', stack', "relayTimer", "off") => Ends(mem, stack, "relayTimer", "off")
      /\ Ends(mem', stack', "runningChar", "O") => Ends(mem, stack, "runningChar", "O")
      /\ Ends(mem', stack', "runningChar", "W") => Ends(mem, stack, "runningChar", "W")
      /\ Ends(mem', stack', "runningChar", "+") => Ends(mem, stack, "runningChar", "+")
      /\ Ends(mem', stack', "waitTimer", "off") => Ends(mem, stack, "waitTimer", "off")
  BY <1>1, <1>2 DEF FromBelow, BelowEnds, Watched
<1>4. StartedAlready' BY <1>1, FreshPlaced
<1>5. WaitingEndsTimed' BY <1>2, <1>3 DEF BelowEnds, BelowFollows, RelayInv, WaitingEndsTimed
<1>6. RunningEndsTimed' BY <1>2, <1>3 DEF BelowEnds, BelowFollows, RelayInv, RunningEndsTimed
<1>7. ~raced => StoppedEndsOff' BY <1>2, <1>3 DEF BelowEnds, BelowFollows, RelayInv, StoppedEndsOff
<1>8. ~raced => OnEndsTimed' BY <1>2, <1>3 DEF BelowEnds, BelowFollows, RelayInv, OnEndsTimed
<1>9. ~raced => PlusEndsAlways' BY <1>2, <1>3 DEF BelowEnds, BelowFollows, RelayInv, PlusEndsAlways
<1>10. ~raced => OnUnderStop' BY <1>2, <1>3, AlwaysPlaced DEF BelowEnds
<1> QED BY <1>4, <1>5, <1>6, <1>7, <1>8, <1>9, <1>10

(***************************************************************************)
(* setRelay with alwaysRun on: the same, and '-' clears the display after  *)
(* it.                                                                     *)
(***************************************************************************)
LEMMA AlwaysOnPlaced ==
  ASSUME RelayInv, Handlers', NEW p, NEW T, T = {<<"relay", 1>>, <<"runningChar", "+">>},
         Replaced(stack, stack', p, T), Keeps(mem, mem'),
         mem'.relayTimer = mem.relayTimer, mem.alwaysRun = 1
  PROVE /\ StartedAlready' /\ RunningEndsTimed' /\ WaitingEndsTimed'
        /\ ~raced => StoppedEndsOff' /\ OnEndsTimed' /\ PlusEndsAlways' /\ OnUnderStop'
<1>1. /\ Sets(T, "relay")
      /\ Sets(T, "runningChar")
      /\ <<"programChar", "blank">> \notin T
      /\ <<"alwaysRun", 0>> \notin T
      /\ <<"relayTimer", "off">> \notin T
      /\ <<"runningChar", "O">> \notin T
      /\ <<"runningChar", "W">> \notin T
      /\ <<"waitTimer", "off">> \notin T
      /\ <<"runningChar", "O">> \in T => <<"relayTimer", "new">> \in T
  BY DEF Sets
<1>2. FromBelow(p, T) /\ BelowEnds(p) /\ BelowFollows(stack, p) BY Placed, Zenon
<1>3. /\ Ends(mem', stack', "programChar", "blank") => Ends(mem, stack, "programChar", "blank")
      /\ Ends(mem', stack', "alwaysRun", 0) => Below(stack, p, "alwaysRun", 0)
      /\ Ends(mem', stack', "relay", 1) => Below(stack, p, "relay", 1) \/ Free(stack, p, "relay")
      /\ Ends(mem', stack', "relayTimer", "off") => Ends(mem, stack, "relayTimer", "off")
      /\ Ends(mem', stack', "runningChar", "O") => Below(stack, p, "runningChar", "O")
      /\ Ends(mem', stack', "runningChar", "W") => Below(stack, p, "runningChar", "W")
      /\ Ends(mem', stack', "runningChar", "+") => Below(stack, p, "runningChar", "+") \/ Free(stack, p, "runningChar")
      /\ Ends(mem', stack', "waitTimer", "off") => Ends(mem, stack, "waitTimer", "off")
  BY <1>1, <1>2, SMTT(30) DEF FromBelow, BelowEnds, Watched
<1>4. StartedAlready' BY <1>1, FreshPlaced
<1>5. WaitingEndsTimed' BY <1>2, <1>3 DEF BelowEnds, BelowFollows, RelayInv, WaitingEndsTimed
<1>6. RunningEndsTimed' BY <1>2, <1>3 DEF BelowEnds, BelowFollows, RelayInv, RunningEndsTimed
<1>7. ~raced => StoppedEndsOff' BY <1>2, <1>3 DEF BelowEnds, BelowFollows, RelayInv, StoppedEndsOff
<1>8. ~raced => OnEndsTimed' BY <1>2, <1>3 DEF BelowEnds, BelowFollows, RelayInv, OnEndsTimed
<1>9. ~raced => PlusEndsAlways' BY <1>2, <1>3 DEF BelowEnds, BelowFollows, RelayInv, PlusEndsAlways
<1>10. ~raced => OnUnderStop' BY <1>2, <1>3, AlwaysPlaced DEF BelowEnds
<1> QED BY <1>4, <1>5, <1>6, <1>7, <1>8, <1>9, <1>10

(***************************************************************************)
(* startRelayTimer: if the program ends stopped, the start has interrupted *)
(* the stop; if the timer ends removed, the start has interrupted its end. *)
(***************************************************************************)
LEMMA StartPlaced ==
  ASSUME RelayInv, Handlers', NEW p, NEW T, T = {<<"relay", 1>>, <<"relayTimer", "new">>, <<"runningChar", "O">>},
         Replaced(stack, stack', p, T), Keeps(mem, mem'),
         mem'.relayTimer = mem.relayTimer, mem.programChar = "R"
  PROVE /\ StartedAlready' /\ RunningEndsTimed' /\ WaitingEndsTimed'
        /\ ~raced => StoppedEndsOff' /\ OnEndsTimed' /\ PlusEndsAlways' /\ OnUnderStop'
<1>1. /\ Sets(T, "relay")
      /\ Sets(T, "relayTimer")
      /\ Sets(T, "runningChar")
      /\ <<"programChar", "blank">> \notin T
      /\ <<"alwaysRun", 0>> \notin T
      /\ <<"relayTimer", "off">> \notin T
      /\ <<"runningChar", "W">> \notin T
      /\ <<"runningChar", "+">> \notin T
      /\ <<"waitTimer", "off">> \notin T
      /\ <<"runningChar", "O">> \in T => <<"relayTimer", "new">> \in T
  BY DEF Sets
<1>2. FromBelow(p, T) /\ BelowEnds(p) /\ BelowFollows(stack, p) BY Placed, Zenon
<1>3. /\ Ends(mem', stack', "programChar", "blank") => Below(stack, p, "programChar", "blank")
      /\ Ends(mem', stack', "alwaysRun", 0) => Ends(mem, stack, "alwaysRun", 0)
      /\ Ends(mem', stack', "relay", 1) => Below(stack, p, "relay", 1) \/ Free(stack, p, "relay")
      /\ Ends(mem', stack', "relayTimer", "off") => Below(stack, p, "relayTimer", "off")
      /\ Ends(mem', stack', "runningChar", "O") => Below(stack, p, "runningChar", "O") \/ Free(stack, p, "runningChar")
      /\ Ends(mem', stack', "runningChar", "W") => Below(stack, p, "runningChar", "W")
      /\ Ends(mem', stack', "runningChar", "+") => Below(stack, p, "runningChar", "+")
      /\ Ends(mem', stack', "waitTimer", "off") => Ends(mem, stack, "waitTimer", "off")
  BY <1>1, <1>2 DEF FromBelow, BelowEnds, Watched
<1>4. StartedAlready' BY <1>1, FreshPlaced
<1>5. WaitingEndsTimed' BY <1>2, <1>3 DEF BelowEnds, BelowFollows, RelayInv, WaitingEndsTimed
<1>6. RunningEndsTimed' BY <1>2, <1>3 DEF BelowEnds, BelowFollows, RelayInv, RunningEndsTimed
<1>7. ~raced => StoppedEndsOff' BY <1>2, <1>3 DEF BelowEnds, BelowFollows, RelayInv, StoppedEndsOff
<1>8. ~raced => OnEndsTimed' BY <1>2, <1>3 DEF BelowEnds, BelowFollows, RelayInv, OnEndsTimed
<1>9. ~raced => PlusEndsAlways' BY <1>2, <1>3 DEF BelowEnds, BelowFollows, RelayInv, PlusEndsAlways
<1>10. ~raced => OnUnderStop'
  <2>1. ~Always(T) BY DEF Always
  <2> QED BY <1>2, <1>3, <2>1, AlwaysPlaced DEF BelowEnds
<1> QED BY <1>4, <1>5, <1>6, <1>7, <1>8, <1>9, <1>10

(***************************************************************************)
(* The relay's time is over: no handler has just started it, so the relay  *)
(* is on for good or is switched off after it was on.                      *)
(***************************************************************************)
LEMMA RelayTimerPlaced ==
  ASSUME RelayInv, Handlers', NEW p, NEW T, T = {<<"relayTimer", "off">>, <<"relay", 0>>, <<"runningChar", "W">>, <<"waitTimer", "new">>},
         Replaced(stack, stack', p, T), Keeps(mem, mem'),
         mem.relayTimer = "set"
  PROVE /\ StartedAlready' /\ RunningEndsTimed' /\ WaitingEndsTimed'
        /\ ~raced => StoppedEndsOff' /\ OnEndsTimed' /\ PlusEndsAlways' /\ OnUnderStop'
<1>1. /\ Sets(T, "relayTimer")
      /\ Sets(T, "relay")
      /\ Sets(T, "runningChar")
      /\ Sets(T, "waitTimer")
      /\ <<"programChar", "blank">> \notin T
      /\ <<"alwaysRun", 0>> \notin T
      /\ <<"relay", 1>> \notin T
      /\ <<"runningChar", "O">> \notin T
      /\ <<"runningChar", "+">> \notin T
      /\ <<"waitTimer", "off">> \notin T
      /\ <<"runningChar", "O">> \in T => <<"relayTimer", "new">> \in T
  BY DEF Sets
<1>2. FromBelow(p, T) /\ BelowEnds(p) /\ BelowFollows(stack, p) BY Placed, Zenon
<1>3. /\ Ends(mem', stack', "programChar", "blank") => Ends(mem, stack, "programChar", "blank")
      /\ Ends(mem', stack', "alwaysRun", 0) => Ends(mem, stack, "alwaysRun", 0)
      /\ Ends(mem', stack', "relay", 1) => Below(stack, p, "relay", 1)
      /\ Ends(mem', stack', "relayTimer", "off") => Below(stack, p, "relayTimer", "off") \/ Free(stack, p, "relayTimer")
      /\ Ends(mem', stack', "runningChar", "O") => Below(stack, p, "runningChar", "O")
      /\ Ends(mem', stack', "runningChar", "W") => Below(stack, p, "runningChar", "W") \/ Free(stack, p, "runningChar")
      /\ Ends(mem', stack', "runningChar", "+") => Below(stack, p, "runningChar", "+")
      /\ Ends(mem', stack', "waitTimer", "off") => Below(stack, p, "waitTimer", "off")
  BY <1>1, <1>2 DEF FromBelow, BelowEnds, Watched
<1>4. StartedAlready' BY <1>1, FreshPlaced
<1>5. WaitingEndsTimed' BY <1>2, <1>3 DEF BelowEnds, BelowFollows, RelayInv, WaitingEndsTimed
<1>6. RunningEndsTimed'
  <2> SUFFICES ASSUME Below(stack, p, "runningChar", "O"), Free(stack, p, "relayTimer") PROVE FALSE
    BY <1>2, <1>3 DEF BelowEnds, RelayInv, RunningEndsTimed
  <2>1. PICK i \in 1 .. p - 1 : <<"runningChar", "O">> \in Ops(stack[i].todo) BY DEF Below
  <2>2. <<"relayTimer", "new">> \notin Ops(stack[i].todo) BY DEF Free, Sets
  <2>3. i \in DOMAIN stack BY OnTopAt DEF Replaced, RelayInv, Handlers
  <2> QED BY <2>1, <2>2, <2>3 DEF RelayInv, StartedAlready
<1>7. ~raced => StoppedEndsOff' BY <1>2, <1>3 DEF BelowEnds, BelowFollows, RelayInv, StoppedEndsOff
<1>8. ~raced => OnEndsTimed'
  <2> SUFFICES ASSUME ~raced, Below(stack, p, "relay", 1), Free(stack, p, "relayTimer"), Ends(mem, stack, "alwaysRun", 0)
               PROVE FALSE
    BY <1>2, <1>3 DEF BelowEnds, RelayInv, OnEndsTimed
  <2>1. PICK i \in 1 .. p - 1 : /\ <<"relay", 1>> \in Ops(stack[i].todo)
                               /\ \A k \in 1 .. i - 1 : ~Sets(Ops(stack[k].todo), "relay")
    BY DEF Below
  <2>2. <<"relayTimer", "new">> \notin Ops(stack[i].todo) BY DEF Free, Sets
  <2>3. i \in DOMAIN stack BY OnTopAt DEF Replaced, RelayInv, Handlers
  <2>4. PICK k \in 1 .. i - 1 : <<"alwaysRun", 0>> \in Ops(stack[k].todo)
    BY <2>1, <2>2, <2>3 DEF RelayInv, OnUnderStop, Always
  <2>5. k \in DOMAIN stack BY <2>3 DEF RelayInv, Handlers
  <2>6. <<"relay", 0>> \in Ops(stack[k].todo) BY <2>4, <2>5, FrameFollows DEF RelayInv, Handlers
  <2> QED BY <2>1, <2>6 DEF Sets
<1>9. ~raced => PlusEndsAlways' BY <1>2, <1>3 DEF BelowEnds, BelowFollows, RelayInv, PlusEndsAlways
<1>10. ~raced => OnUnderStop'
  <2>1. ~Always(T) BY <1>1 DEF Always
  <2> QED BY <1>2, <1>3, <2>1, AlwaysPlaced DEF BelowEnds
<1> QED BY <1>4, <1>5, <1>6, <1>7, <1>8, <1>9, <1>10

(***************************************************************************)
(* The waiting time is over.                                               *)
(***************************************************************************)
LEMMA WaitTimerPlaced ==
  ASSUME RelayInv, Handlers', NEW p, NEW T, T = {<<"waitTimer", "off">>, <<"runningChar", "blank">>},
         Replaced(stack, stack', p, T), Keeps(mem, mem'),
         mem'.relayTimer = mem.relayTimer
  PROVE /\ StartedAlready' /\ RunningEndsTimed' /\ WaitingEndsTimed'
        /\ ~raced => StoppedEndsOff' /\ OnEndsTimed' /\ PlusEndsAlways' /\ OnUnderStop'
<1>1. /\ Sets(T, "waitTimer")
      /\ Sets(T, "runningChar")
      /\ <<"programChar", "blank">> \notin T
      /\ <<"alwaysRun", 0>> \notin T
      /\ <<"relay", 1>> \notin T
      /\ <<"relayTimer", "off">> \notin T
      /\ <<"runningChar", "O">> \notin T
      /\ <<"runningChar", "W">> \notin T
      /\ <<"runningChar", "+">> \notin T
      /\ <<"runningChar", "O">> \in T => <<"relayTimer", "new">> \in T
  BY DEF Sets
<1>2. FromBelow(p, T) /\ BelowEnds(p) /\ BelowFollows(stack, p) BY Placed, Zenon
<1>3. /\ Ends(mem', stack', "programChar", "blank") => Ends(mem, stack, "programChar", "blank")
      /\ Ends(mem', stack', "alwaysRun", 0) => Ends(mem, stack, "alwaysRun", 0)
      /\ Ends(mem', stack', "relay", 1) => Ends(mem, stack, "relay", 1)
      /\ Ends(mem', stack', "relayTimer", "off") => Ends(mem, stack, "relayTimer", "off")
      /\ Ends(mem', stack', "runningChar", "O") => Below(stack, p, "runningChar", "O")
      /\ Ends(mem', stack', "runningChar", "W") => Below(stack, p, "runningChar", "W")
      /\ Ends(mem', stack', "runningChar", "+") => Below(stack, p, "runningChar", "+")
      /\ Ends(mem', stack', "waitTimer", "off") => Below(stack, p, "waitTimer", "off") \/ Free(stack, p, "waitTimer")
  BY <1>1, <1>2 DEF FromBelow, BelowEnds, Watched
<1>4. StartedAlready' BY <1>1, FreshPlaced
<1>5. WaitingEndsTimed' BY <1>2, <1>3 DEF BelowEnds, BelowFollows, RelayInv, WaitingEndsTimed
<1>6. RunningEndsTimed' BY <1>2, <1>3 DEF BelowEnds, BelowFollows, RelayInv, RunningEndsTimed
<1>7. ~raced => StoppedEndsOff' BY <1>2, <1>3 DEF BelowEnds, BelowFollows, RelayInv, StoppedEndsOff
<1>8. ~raced => OnEndsTimed' BY <1>2, <1>3 DEF BelowEnds, BelowFollows, RelayInv, OnEndsTimed
<1>9. ~raced => PlusEndsAlways' BY <1>2, <1>3 DEF BelowEnds, BelowFollows, RelayInv, PlusEndsAlways
<1>10. ~raced => OnUnderStop'
  <2>1. ~Always(T) BY <1>1 DEF Always
  <2> QED BY <1>2, <1>3, <2>1, AlwaysPlaced DEF BelowEnds
<1> QED BY <1>4, <1>5, <1>6, <1>7, <1>8, <1>9, <1>10

(***************************************************************************)
(* A stop command, which switches the relay off unless a handler below has *)
(* yet to switch it on.                                                    *)
(***************************************************************************)
LEMMA StopPlaced ==
  ASSUME RelayInv, Handlers', NEW p, NEW T, T \subseteq StopOps,
         StopOps \ {<<"alwaysRun", 0>>} \subseteq T,
         Replaced(stack, stack', p, T), Keeps(mem, mem'),
         mem'.relayTimer = mem.relayTimer
  PROVE /\ StartedAlready' /\ RunningEndsTimed' /\ WaitingEndsTimed'
        /\ ~Below(stack, p, "relay", 1) => StoppedEndsOff' /\ OnEndsTimed'
        /\ ~Below(stack, p, "runningChar", "+") => PlusEndsAlways'
<1>1. /\ Sets(T, "programChar")
      /\ Sets(T, "relay")
      /\ Sets(T, "waitTimer")
      /\ Sets(T, "runningChar")
      /\ <<"relay", 1>> \notin T
      /\ <<"relayTimer", "off">> \notin T
      /\ <<"runningChar", "O">> \notin T
      /\ <<"runningChar", "W">> \notin T
      /\ <<"runningChar", "+">> \notin T
      /\ <<"runningChar", "O">> \in T => <<"relayTimer", "new">> \in T
  <2>1. /\ <<"programChar", "blank">> \in T /\ <<"relay", 0>> \in T
        /\ <<"waitTimer", "off">> \in T /\ <<"runningChar", "blank">> \in T
    BY DEF StopOps
  <2>2. Sets(T, "programChar") /\ Sets(T, "relay") /\ Sets(T, "waitTimer") /\ Sets(T, "runningChar")
    BY <2>1 DEF Sets
  <2> QED BY <2>2 DEF StopOps
<1>2. FromBelow(p, T) /\ BelowEnds(p) /\ BelowFollows(stack, p) BY Placed, Zenon
<1>3. /\ Ends(mem', stack', "relay", 1) => Below(stack, p, "relay", 1)
      /\ Ends(mem', stack', "relayTimer", "off") => Ends(mem, stack, "relayTimer", "off")
      /\ Ends(mem', stack', "runningChar", "O") => Below(stack, p, "runningChar", "O")
      /\ Ends(mem', stack', "runningChar", "W") => Below(stack, p, "runningChar", "W")
      /\ Ends(mem', stack', "runningChar", "+") => Below(stack, p, "runningChar", "+")
      /\ Ends(mem', stack', "waitTimer", "off") => Below(stack, p, "waitTimer", "off") \/ Free(stack, p, "waitTimer")
  BY <1>1, <1>2 DEF FromBelow, BelowEnds, Watched
<1>4. StartedAlready' BY <1>1, FreshPlaced
<1>5. WaitingEndsTimed' BY <1>2, <1>3 DEF BelowEnds, BelowFollows, RelayInv, WaitingEndsTimed
<1>6. RunningEndsTimed' BY <1>2, <1>3 DEF BelowEnds, BelowFollows, RelayInv, RunningEndsTimed
<1>7. ~Below(stack, p, "relay", 1) => StoppedEndsOff' /\ OnEndsTimed'
  BY <1>3 DEF StoppedEndsOff, OnEndsTimed
<1>8. ~Below(stack, p, "runningChar", "+") => PlusEndsAlways' BY <1>3 DEF PlusEndsAlways
<1> QED BY <1>4, <1>5, <1>6, <1>7, <1>8

(***************************************************************************)
(* A value of programValue that is left behind.                            *)
(***************************************************************************)
LEMMA KeepsStale ==
  ASSUME NEW m \in Memory, NEW b \in BOOLEAN, NEW n, n = [m EXCEPT !.stale = b]
  PROVE /\ n \in Memory /\ Keeps(m, n)
        /\ n.relayTimer = m.relayTimer /\ n.waitTimer = m.waitTimer
        /\ n.alwaysRun = m.alwaysRun /\ n.programChar = m.programChar
  BY DEF Memory, Keeps, Watched

(***************************************************************************)
(* A timer that fires is registered again.                                 *)
(***************************************************************************)
LEMMA KeepsTimer ==
  ASSUME NEW m \in Memory, NEW t \in {"relayTimer", "waitTimer"}, NEW n, n = [m EXCEPT ![t] = "new"]
  PROVE /\ n \in Memory /\ Keeps(m, n) /\ (t = "waitTimer" => n.relayTimer = m.relayTimer)
<1>1. CASE t = "relayTimer"
  <2>1. n = [m EXCEPT !.relayTimer = "new"] BY <1>1, Zenon
  <2> QED BY <2>1, <1>1 DEF Memory, Keeps, Watched
<1>2. CASE t = "waitTimer"
  <2>1. n = [m EXCEPT !.waitTimer = "new"] BY <1>2, Zenon
  <2> QED BY <2>1, <1>2 DEF Memory, Keeps, Watched
<1> QED BY <1>1, <1>2

(***************************************************************************)
(* Timers settle once the last handler has returned; none is removed by    *)
(* that.                                                                   *)
(***************************************************************************)
LEMMA KeepsSettled ==
  ASSUME NEW m \in Memory
  PROVE /\ Settled(m) \in Memory /\ Keeps(m, Settled(m))
        /\ Settled(m).relayTimer # "new" /\ Settled(m).waitTimer # "new"
<1> DEFINE n == Settled(m)
<1>1. /\ n \in Memory
      /\ n.relayTimer = (IF m.relayTimer = "new" THEN "set" ELSE m.relayTimer)
      /\ n.waitTimer = (IF m.waitTimer = "new" THEN "set" ELSE m.waitTimer)
      /\ n.alwaysRun = m.alwaysRun /\ n.programChar = m.programChar
      /\ n.relay = m.relay /\ n.runningChar = m.runningChar
  BY Zenon DEF Memory, Settled
<1> HIDE DEF n
<1>2. Keeps(m, n) BY <1>1 DEF Keeps, Watched
<1>3. n.relayTimer # "new" /\ n.waitTimer # "new" BY <1>1
<1> QED BY <1>1, <1>2, <1>3 DEF n

(***************************************************************************)
(* Interrupts that only call setRelay, or start a program.                 *)
(***************************************************************************)
LEMMA HarmlessCallKeeps ==
  ASSUME RelayInv, NEW f \in {"statemachine", "other"}, NEW t, Frame(t), Call(f, t),
         Ops(t) \subseteq {<<"setRelay">>, <<"relay", 0>>, <<"programChar", "R">>},
         mem' \in Memory, Keeps(mem, mem'), mem'.relayTimer = mem.relayTimer, raced' = raced
  PROVE RelayInv'
<1>1. /\ Replaced(stack, stack', Len(stack) + 1, Ops(t)) /\ Handlers' /\ Nesting'
      /\ stack' # <<>>
  BY CallFacts, Zenon
<1>2. /\ StartedAlready' /\ RunningEndsTimed' /\ WaitingEndsTimed' /\ (~raced => StoppedEndsOff' /\ OnEndsTimed' /\ PlusEndsAlways' /\ OnUnderStop')
  BY <1>1, HarmlessPlaced, Zenon
<1>3. TypeOK' BY <1>1 DEF RelayInv, TypeOK, Nesting
<1> QED BY <1>1, <1>2, <1>3 DEF RelayInv, TimersSet

(***************************************************************************)
(* The command '+' preserves the invariant.                                *)
(***************************************************************************)
LEMMA RunKeeps == ASSUME RelayInv, Run PROVE RelayInv'
<1> DEFINE t == << <<"alwaysRun", 1>>, <<"relay", 1>> >>
<1>1. Frame(t) /\ Ops(t) = {<<"alwaysRun", 1>>, <<"relay", 1>>} BY RunCommandFrame
<1>2. Call("other", t) /\ mem' = mem /\ raced' = raced BY DEF Run
<1> HIDE DEF t
<1>3. /\ Replaced(stack, stack', Len(stack) + 1, Ops(t)) /\ Handlers' /\ Nesting'
      /\ stack' # <<>>
  BY <1>1, <1>2, CallFacts, Zenon
<1>4. Keeps(mem, mem') /\ mem'.relayTimer = mem.relayTimer BY <1>2 DEF Keeps
<1>5. /\ StartedAlready' /\ RunningEndsTimed' /\ WaitingEndsTimed' /\ (~raced => StoppedEndsOff' /\ OnEndsTimed' /\ PlusEndsAlways' /\ OnUnderStop')
  BY <1>1, <1>3, <1>4, RunPlaced, Zenon
<1>6. TypeOK' BY <1>2, <1>3 DEF RelayInv, TypeOK, Nesting
<1> QED BY <1>2, <1>3, <1>5, <1>6 DEF RelayInv, TimersSet

(***************************************************************************)
(* The end of the relay's time preserves the invariant.                    *)
(***************************************************************************)
LEMMA FireRelayTimerKeeps == ASSUME RelayInv, Fire("relayTimer", stopRelayTimer) PROVE RelayInv'
<1>1. /\ Frame(stopRelayTimer)
      /\ Ops(stopRelayTimer) = {<<"relayTimer", "off">>, <<"relay", 0>>, <<"runningChar", "W">>, <<"waitTimer", "new">>}
  BY StopRelayTimerFrame
<1>2. /\ Call("other", stopRelayTimer) /\ mem["relayTimer"] = "set" /\ raced' = raced
      /\ mem' = [mem EXCEPT !["relayTimer"] = "new"]
  BY DEF Fire
<1>3. /\ Replaced(stack, stack', Len(stack) + 1, Ops(stopRelayTimer)) /\ Handlers' /\ Nesting'
      /\ stack' # <<>>
  BY <1>1, <1>2, CallFacts, Zenon
<1>4. mem' \in Memory /\ Keeps(mem, mem') BY <1>2, KeepsTimer, Zenon DEF RelayInv, TypeOK
<1>5. /\ StartedAlready' /\ RunningEndsTimed' /\ WaitingEndsTimed' /\ (~raced => StoppedEndsOff' /\ OnEndsTimed' /\ PlusEndsAlways' /\ OnUnderStop')
  BY <1>1, <1>2, <1>3, <1>4, RelayTimerPlaced, Zenon
<1>6. TypeOK' BY <1>2, <1>3, <1>4 DEF RelayInv, TypeOK, Nesting
<1> QED BY <1>2, <1>3, <1>5, <1>6 DEF RelayInv, TimersSet

(***************************************************************************)
(* The end of the waiting time preserves the invariant.                    *)
(***************************************************************************)
LEMMA FireWaitTimerKeeps == ASSUME RelayInv, Fire("waitTimer", stopWaiting) PROVE RelayInv'
<1>1. Frame(stopWaiting) /\ Ops(stopWaiting) = {<<"waitTimer", "off">>, <<"runningChar", "blank">>}
  BY StopWaitingFrame
<1>2. /\ Call("other", stopWaiting) /\ raced' = raced
      /\ mem' = [mem EXCEPT !["waitTimer"] = "new"]
  BY DEF Fire
<1>3. /\ Replaced(stack, stack', Len(stack) + 1, Ops(stopWaiting)) /\ Handlers' /\ Nesting'
      /\ stack' # <<>>
  BY <1>1, <1>2, CallFacts, Zenon
<1>4. mem' \in Memory /\ Keeps(mem, mem') /\ mem'.relayTimer = mem.relayTimer
  BY <1>2, KeepsTimer, Zenon DEF RelayInv, TypeOK
<1>5. /\ StartedAlready' /\ RunningEndsTimed' /\ WaitingEndsTimed' /\ (~raced => StoppedEndsOff' /\ OnEndsTimed' /\ PlusEndsAlways' /\ OnUnderStop')
  BY <1>1, <1>3, <1>4, WaitTimerPlaced, Zenon
<1>6. TypeOK' BY <1>2, <1>3, <1>4 DEF RelayInv, TypeOK, Nesting
<1> QED BY <1>2, <1>3, <1>5, <1>6 DEF RelayInv, TimersSet

(***************************************************************************)
(* Both stop commands preserve the invariant: unless they are recorded as  *)
(* raced, no handler below has yet to switch the relay on.                 *)
(***************************************************************************)
LEMMA StopKeeps ==
  ASSUME RelayInv, NEW t, Stop(t), Frame(t),
         Ops(t) \subseteq StopOps,
         StopOps \ {<<"alwaysRun", 0>>} \subseteq Ops(t)
  PROVE RelayInv'
<1> DEFINE p == Len(stack) + 1
<1>1. Call("other", t) /\ mem' = mem /\ raced' = (stack # <<>> /\ (raced \/ Deciding)) BY DEF Stop
<1>2. /\ Replaced(stack, stack', p, Ops(t)) /\ Handlers' /\ Nesting'
      /\ stack' # <<>> /\ DOMAIN stack' = 1 .. Len(stack) + 1 /\ DOMAIN stack = 1 .. Len(stack)
      /\ Len(stack) \in Nat
      /\ stack'[Len(stack) + 1].todo = t /\ \A i \in DOMAIN stack : stack'[i] = stack[i]
  BY <1>1, CallFacts, Zenon
<1>3. Keeps(mem, mem') /\ mem'.relayTimer = mem.relayTimer BY <1>1 DEF Keeps
<1>4. /\ StartedAlready' /\ RunningEndsTimed' /\ WaitingEndsTimed'
      /\ ~Below(stack, p, "relay", 1) => StoppedEndsOff' /\ OnEndsTimed'
      /\ ~Below(stack, p, "runningChar", "+") => PlusEndsAlways'
  BY <1>2, <1>3, StopPlaced, Zenon
<1>5. ASSUME ~raced' PROVE StoppedEndsOff' /\ OnEndsTimed' /\ PlusEndsAlways' /\ OnUnderStop'
  <2>a. stack = <<>> => DOMAIN stack = {} OBVIOUS
  <2>b. stack = <<>> \/ ~Deciding BY <1>1, <1>5, Zenon
  <2>1. \A i \in DOMAIN stack : Ops(stack[i].todo) \cap SwitchesOn = {}
    BY <2>a, <2>b DEF Deciding, Ops
  <2>2. ~Below(stack, p, "relay", 1) /\ ~Below(stack, p, "runningChar", "+")
    <3>1. \A i \in 1 .. p - 1 : i \in DOMAIN stack BY <1>2
    <3> QED BY <3>1, <2>1 DEF Below, SwitchesOn
  <2>3. \A i \in DOMAIN stack : ~Always(Ops(stack[i].todo))
    BY <2>1 DEF Always, SwitchesOn
  <2>4. ~Always(Ops(t)) BY DEF Always, StopOps
  <2>5. \A i \in DOMAIN stack' : ~Always(Ops(stack'[i].todo))
    <3>1. \A i \in DOMAIN stack' : i \in DOMAIN stack \/ i = Len(stack) + 1 BY <1>2
    <3> QED BY <1>2, <2>3, <2>4, <3>1
  <2>6. OnUnderStop' BY <2>5 DEF OnUnderStop
  <2> QED BY <1>4, <2>2, <2>6
<1>6. TypeOK'
  <2>1. raced' \in BOOLEAN BY <1>1
  <2>2. mem' \in Memory BY <1>1 DEF RelayInv, TypeOK
  <2> QED BY <2>1, <2>2, <1>2 DEF TypeOK, Nesting
<1> QED BY <1>2, <1>4, <1>5, <1>6 DEF RelayInv, TimersSet

(***************************************************************************)
(* The top handler makes its first assignment, of y to x.                  *)
(***************************************************************************)
Executed(st, su, p, T, x, y) ==
  OnTop(st, su, p, T) /\ Len(st) = p /\ Ops(st[p].todo) = T \cup {<<x, y>>}

(***************************************************************************)
(* Making an assignment does not change what the variables end with.       *)
(***************************************************************************)
LEMMA EndsExecuted ==
  ASSUME NEW st, NEW su, NEW p, NEW T, NEW x, NEW y, Executed(st, su, p, T, x, y),
         NEW m, NEW n, NEW v, NEW c, Ends(n, su, v, c),
         n[v] = c /\ v = x => c = y, n[v] = c /\ v # x => m[v] = c
  PROVE Ends(m, st, v, c)
<1> USE DEF Executed
<1>1. \/ Below(st, p, v, c)
      \/ Free(st, p, v) /\ <<v, c>> \in T
      \/ Free(st, p, v) /\ ~Sets(T, v) /\ n[v] = c
  BY EndsPlaced, Zenon
<1>2. p \in Nat \ {0} BY DEF OnTop
<1>3. Below(st, p, v, c) => Below(st, p + 1, v, c) BY <1>2 DEF Below
<1>4. Free(st, p, v) /\ <<v, c>> \in Ops(st[p].todo) => Below(st, p + 1, v, c)
  BY <1>2 DEF Below, Free
<1>5. Free(st, p, v) /\ ~Sets(Ops(st[p].todo), v) => Free(st, p + 1, v)
  <2> SUFFICES ASSUME Free(st, p, v), ~Sets(Ops(st[p].todo), v), NEW k \in 1 .. p
               PROVE ~Sets(Ops(st[k].todo), v)
    BY <1>2 DEF Free
  <2>1. k = p \/ k \in 1 .. p - 1 BY <1>2
  <2> QED BY <2>1, Zenon DEF Free
<1>6. ~Sets(T, v) /\ v # x => ~Sets(Ops(st[p].todo), v) BY DEF Sets
<1>7. v = x /\ c = y => <<v, c>> \in Ops(st[p].todo) OBVIOUS
<1> QED BY <1>1, <1>3, <1>4, <1>5, <1>6, <1>7 DEF Ends

(***************************************************************************)
(* The top handler goes on with t, or returns.                             *)
(***************************************************************************)
LEMMA ReturnFacts ==
  ASSUME RelayInv, stack # <<>>, NEW t, t = <<>> \/ Frame(t), Return(t)
  PROVE /\ Len(stack) \in Nat \ {0} /\ DOMAIN stack = 1 .. Len(stack)
        /\ OnTop(stack, stack', Len(stack), Ops(t))
        /\ Handlers' /\ Nesting'
        /\ t # <<>> => stack' # <<>>
<1>1. stack \in Seq(Handler) BY DEF RelayInv, Handlers
<1>2. PICK n \in Nat \ {0} : n = Len(stack) /\ DOMAIN stack = 1 .. n BY <1>1
<1> DEFINE rest == SubSeq(stack, 1, n - 1)
<1>3. rest \in Seq(Handler) /\ Len(rest) = n - 1 /\ \A k \in 1 .. n - 1 : rest[k] = stack[k]
  BY <1>1, <1>2
<1>4. n <= MaxNest BY <1>2 DEF RelayInv, TypeOK
<1> DEFINE h == [stack[n] EXCEPT !.todo = t]
<1>5. t # <<>> => h \in Handler /\ h.from \in {"statemachine", "other"} /\ h.todo = t
  <2> SUFFICES ASSUME t # <<>> PROVE h \in Handler /\ h.from \in {"statemachine", "other"} /\ h.todo = t
    OBVIOUS
  <2>1. t \in Seq(Assignments \cup {<<"setRelay">>})
    <3>1. CASE t = setRelay BY <3>1 DEF setRelay
    <3>2. CASE WellFormed(t)
      <4>1. t \in Seq(Assignments) BY <3>2 DEF WellFormed
      <4> QED BY <4>1
    <3> QED BY <3>1, <3>2 DEF Frame
  <2>2. stack[n] \in Handler BY <1>1, <1>2
  <2> QED BY <2>1, <2>2 DEF Handler
<1>6. stack' = IF t = <<>> THEN rest ELSE Append(rest, h) BY <1>2 DEF Return
<1> HIDE DEF rest, h
<1>7. CASE t = <<>>
  <2>1. stack' = rest BY <1>6, <1>7
  <2>2. stack' \in Seq(Handler) /\ Len(stack') = n - 1 /\ \A k \in 1 .. n - 1 : stack'[k] = stack[k]
    BY <1>3, <2>1
  <2>3. DOMAIN stack' = 1 .. n - 1 /\ \A i \in 1 .. n - 1 : i \in DOMAIN stack BY <2>2, <1>2
  <2>4. Handlers' BY <2>2, <2>3 DEF RelayInv, Handlers
  <2>5. \A i \in DOMAIN stack' : stack'[i].from \in {"statemachine", "other"} /\ stack'[i].todo # <<>>
    BY <2>2, <2>3 DEF RelayInv, TypeOK
  <2>6. Len(stack') <= MaxNest BY <2>2, <1>4, NestAssumption
  <2>7. Ops(t) = {} BY <1>7 DEF Ops
  <2>8. n - 1 # n OBVIOUS
  <2>9. OnTop(stack, stack', n, Ops(t)) BY <1>2, <2>2, <2>7, <2>8 DEF OnTop
  <2> QED BY <1>2, <1>7, <2>4, <2>5, <2>6, <2>9 DEF Nesting
<1>8. CASE t # <<>>
  <2>1. stack' = Append(rest, h) BY <1>6, <1>8
  <2>2. h \in Handler /\ h.from \in {"statemachine", "other"} /\ h.todo = t BY <1>5, <1>8
  <2>3. stack' \in Seq(Handler) /\ Len(stack') = n /\ stack'[n] = h BY <1>3, <2>1, <2>2
  <2>4. \A k \in 1 .. n - 1 : stack'[k] = stack[k] BY <1>3, <2>1, <2>2
  <2>5. DOMAIN stack' = 1 .. n /\ \A i \in 1 .. n : i = n \/ i \in 1 .. n - 1 BY <2>3
  <2>6. \A i \in 1 .. n - 1 : i \in DOMAIN stack BY <1>2
  <2>7. Handlers' BY <2>2, <2>3, <2>4, <2>5, <2>6, <1>8 DEF RelayInv, Handlers
  <2>8. \A i \in DOMAIN stack' : stack'[i].from \in {"statemachine", "other"} /\ stack'[i].todo # <<>>
    BY <2>2, <2>3, <2>4, <2>5, <2>6, <1>8 DEF RelayInv, TypeOK
  <2>9. n - 1 # n OBVIOUS
  <2>10. OnTop(stack, stack', n, Ops(t)) BY <1>2, <2>2, <2>3, <2>4, <2>9 DEF OnTop
  <2>11. stack' # <<>> BY <2>3
  <2> QED BY <1>2, <1>4, <2>3, <2>7, <2>8, <2>10, <2>11 DEF Nesting
<1> QED BY <1>7, <1>8

(***************************************************************************)
(* The memory after an assignment.                                         *)
(***************************************************************************)
Exec(m, op) == [m EXCEPT ![op[1]] = op[2]]

(***************************************************************************)
(* An assignment of a handler keeps the types, and changes one variable.   *)
(***************************************************************************)
LEMMA Assigned ==
  ASSUME NEW m \in Memory, NEW op \in Assignments, NEW n, n = Exec(m, op)
  PROVE /\ n \in Memory /\ op = <<op[1], op[2]>> /\ n[op[1]] = op[2]
        /\ \A q \in Watched : q[1] # op[1] => n[q[1]] = m[q[1]]
        /\ op[1] # "relayTimer" => n.relayTimer = m.relayTimer
<1>1. op = <<op[1], op[2]>> BY DEF Assignments
<1>2. CASE op[1] = "alwaysRun"
  <2>1. op[2] \in {0, 1} BY <1>2 DEF Assignments
  <2>2. n = [m EXCEPT !.alwaysRun = op[2]] BY <1>2, Zenon DEF Exec
  <2> QED BY <1>1, <1>2, <2>1, <2>2 DEF Memory, Watched
<1>3. CASE op[1] = "programChar"
  <2>1. op[2] \in {"blank", "R"} BY <1>3 DEF Assignments
  <2>2. n = [m EXCEPT !.programChar = op[2]] BY <1>3, Zenon DEF Exec
  <2> QED BY <1>1, <1>3, <2>1, <2>2 DEF Memory, Watched
<1>4. CASE op[1] = "relay"
  <2>1. op[2] \in {0, 1} BY <1>4 DEF Assignments
  <2>2. n = [m EXCEPT !.relay = op[2]] BY <1>4, Zenon DEF Exec
  <2> QED BY <1>1, <1>4, <2>1, <2>2 DEF Memory, Watched
<1>5. CASE op[1] = "relayTimer"
  <2>1. op[2] \in {"off", "new"} BY <1>5 DEF Assignments
  <2>2. n = [m EXCEPT !.relayTimer = op[2]] BY <1>5, Zenon DEF Exec
  <2> QED BY <1>1, <1>5, <2>1, <2>2 DEF Memory, Watched
<1>6. CASE op[1] = "waitTimer"
  <2>1. op[2] \in {"off", "new"} BY <1>6 DEF Assignments
  <2>2. n = [m EXCEPT !.waitTimer = op[2]] BY <1>6, Zenon DEF Exec
  <2> QED BY <1>1, <1>6, <2>1, <2>2 DEF Memory, Watched
<1>7. CASE op[1] = "runningChar"
  <2>1. op[2] \in {"blank", "+", "O", "W"} BY <1>7 DEF Assignments
  <2>2. n = [m EXCEPT !.runningChar = op[2]] BY <1>7, Zenon DEF Exec
  <2> QED BY <1>1, <1>7, <2>1, <2>2 DEF Memory, Watched
<1>8. op[1] \in {"alwaysRun", "programChar", "relay", "relayTimer", "waitTimer", "runningChar"}
  BY DEF Assignments
<1> QED BY <1>2, <1>3, <1>4, <1>5, <1>6, <1>7, <1>8

(***************************************************************************)
(* The first assignment of a handler and the rest.                         *)
(***************************************************************************)
LEMMA HeadTail ==
  ASSUME NEW t, Frame(t), Head(t) # <<"setRelay">>
  PROVE /\ WellFormed(t) /\ Head(t) \in Assignments
        /\ Tail(t) = <<>> \/ Frame(Tail(t))
        /\ Ops(t) = Ops(Tail(t)) \cup {Head(t)}
        /\ <<"relay", 1>> \in Ops(Tail(t)) /\ <<"relayTimer", "new">> \in Ops(t)
             => <<"relayTimer", "new">> \in Ops(Tail(t))
<1>1. t # setRelay BY DEF setRelay
<1>2. WellFormed(t) /\ t # <<>> BY <1>1 DEF Frame
<1>3. t \in Seq(Assignments) BY <1>2 DEF WellFormed
<1>4. Head(t) \in Assignments /\ Head(t) = t[1] BY <1>2, <1>3
<1>5. Tail(t) = <<>> \/ Frame(Tail(t)) BY <1>2, TailWellFormed DEF Frame
<1> DEFINE u == Tail(t)
<1>6. PICK n \in Nat \ {0} : Len(t) = n /\ DOMAIN t = 1 .. n BY <1>2, <1>3
<1>7. DOMAIN u = 1 .. n - 1 /\ \A j \in 1 .. n - 1 : u[j] = t[j + 1] BY <1>3, <1>6, <1>2
<1> HIDE DEF u
<1>8. \A j \in 1 .. n : j = 1 \/ (j - 1 \in 1 .. n - 1 /\ u[j - 1] = t[j]) BY <1>6, <1>7
<1>9. \A j \in 1 .. n - 1 : j + 1 \in 1 .. n /\ u[j] = t[j + 1] BY <1>6, <1>7
<1>10. 1 \in 1 .. n BY <1>6
<1>11. Ops(t) = Ops(u) \cup {t[1]}
  <2>1. ASSUME NEW x \in Ops(t) PROVE x \in Ops(u) \cup {t[1]}
    <3>1. PICK j \in 1 .. n : x = t[j] BY <1>6 DEF Ops
    <3>2. CASE j = 1 BY <3>1, <3>2
    <3>3. CASE j - 1 \in 1 .. n - 1 /\ u[j - 1] = t[j] BY <3>1, <3>3, <1>7, Zenon DEF Ops
    <3> QED BY <1>8, <3>2, <3>3
  <2>2. \A x \in Ops(u) : x \in Ops(t) BY <1>6, <1>7, <1>9 DEF Ops
  <2>3. t[1] \in Ops(t) BY <1>6, <1>10 DEF Ops
  <2> QED BY <2>1, <2>2, <2>3
<1>12. <<"relay", 1>> \in Ops(u) => t[1] # <<"relayTimer", "new">>
  <2> SUFFICES ASSUME <<"relay", 1>> \in Ops(u), t[1] = <<"relayTimer", "new">> PROVE FALSE
    OBVIOUS
  <2>1. PICK j \in 1 .. n - 1 : u[j] = <<"relay", 1>> BY <1>7 DEF Ops
  <2>2. j + 1 < 1 BY <2>1, <1>2, <1>6, <1>9, <1>10, Zenon DEF WellFormed
  <2> QED BY <2>2
<1> QED BY <1>2, <1>4, <1>5, <1>11, <1>12 DEF u

(***************************************************************************)
(* An assignment preserves the invariant.                                  *)
(***************************************************************************)
LEMMA ExecuteKeeps ==
  ASSUME RelayInv, stack # <<>>, NEW t, t = stack[Len(stack)].todo, NEW op, op = Head(t), op # <<"setRelay">>,
         Return(Tail(t)), NEW m, m = Exec(mem, op),
         mem' = IF stack' = <<>> THEN Settled(m) ELSE m, raced' = raced
  PROVE RelayInv'
<1> DEFINE u == Tail(t)
<1>1. Len(stack) \in Nat \ {0} /\ DOMAIN stack = 1 .. Len(stack) /\ Frame(t)
  BY DEF RelayInv, Handlers
<1>2. /\ WellFormed(t) /\ op \in Assignments /\ (u = <<>> \/ Frame(u)) /\ Ops(t) = Ops(u) \cup {op}
      /\ <<"relay", 1>> \in Ops(u) /\ <<"relayTimer", "new">> \in Ops(t) => <<"relayTimer", "new">> \in Ops(u)
  BY <1>1, HeadTail, Zenon
<1> HIDE DEF u
<1>3. /\ OnTop(stack, stack', Len(stack), Ops(u))
      /\ Handlers' /\ Nesting'
  BY <1>2, ReturnFacts, Zenon DEF u
<1>4. /\ m \in Memory /\ op = <<op[1], op[2]>> /\ m[op[1]] = op[2]
      /\ \A q \in Watched : q[1] # op[1] => m[q[1]] = mem[q[1]]
      /\ op[1] # "relayTimer" => m.relayTimer = mem.relayTimer
  <2>1. mem \in Memory BY DEF RelayInv, TypeOK
  <2> QED BY <1>2, <2>1, Assigned
<1>5. /\ mem' \in Memory /\ Keeps(m, mem')
      /\ stack' = <<>> => mem'.relayTimer # "new" /\ mem'.waitTimer # "new"
  <2>1. CASE stack' = <<>> BY <1>4, <2>1, KeepsSettled
  <2>2. CASE stack' # <<>> BY <1>4, <2>2 DEF Keeps
  <2> QED BY <2>1, <2>2
<1>6. ASSUME NEW q \in Watched, Ends(mem', stack', q[1], q[2]) PROVE Ends(mem, stack, q[1], q[2])
  <2>1. /\ mem'[q[1]] = q[2] /\ q[1] = op[1] => q[2] = op[2]
        /\ mem'[q[1]] = q[2] /\ q[1] # op[1] => mem[q[1]] = q[2]
    BY <1>4, <1>5 DEF Keeps
  <2>2. Ops(stack[Len(stack)].todo) = Ops(u) \cup {<<op[1], op[2]>>} BY <1>2, <1>4
  <2> DEFINE v == q[1] c == q[2] x == op[1] y == op[2] p == Len(stack)
  <2>3. /\ mem'[v] = c /\ v = x => c = y
        /\ mem'[v] = c /\ v # x => mem[v] = c
        /\ Executed(stack, stack', p, Ops(u), x, y) /\ Ends(mem', stack', v, c)
    BY <1>3, <1>6, <2>1, <2>2 DEF Executed
  <2> HIDE DEF v, c, x, y, p
  <2>4. Ends(mem, stack, v, c) BY ONLY <2>3, EndsExecuted
  <2> QED BY <2>4 DEF v, c
<1>7. /\ Ends(mem', stack', "programChar", "blank") => Ends(mem, stack, "programChar", "blank")
      /\ Ends(mem', stack', "alwaysRun", 0) => Ends(mem, stack, "alwaysRun", 0)
      /\ Ends(mem', stack', "relay", 1) => Ends(mem, stack, "relay", 1)
      /\ Ends(mem', stack', "relayTimer", "off") => Ends(mem, stack, "relayTimer", "off")
      /\ Ends(mem', stack', "runningChar", "O") => Ends(mem, stack, "runningChar", "O")
      /\ Ends(mem', stack', "runningChar", "W") => Ends(mem, stack, "runningChar", "W")
      /\ Ends(mem', stack', "runningChar", "+") => Ends(mem, stack, "runningChar", "+")
      /\ Ends(mem', stack', "waitTimer", "off") => Ends(mem, stack, "waitTimer", "off")
  BY <1>6 DEF Watched
<1>8. RunningEndsTimed' /\ WaitingEndsTimed'
  BY <1>7 DEF RelayInv, RunningEndsTimed, WaitingEndsTimed
<1>9. ~raced => StoppedEndsOff' /\ OnEndsTimed' /\ PlusEndsAlways'
  BY <1>7 DEF RelayInv, StoppedEndsOff, OnEndsTimed, PlusEndsAlways
<1> DEFINE p == Len(stack)
<1>10. stack \in Seq(Handler) /\ stack' \in Seq(Handler) BY <1>3 DEF RelayInv, Handlers
<1>11. /\ \A i \in DOMAIN stack' : i = p \/ (i \in 1 .. p - 1 /\ i \in DOMAIN stack /\ stack'[i] = stack[i])
       /\ p \in DOMAIN stack' => Ops(stack'[p].todo) = Ops(u)
       /\ \A j \in DOMAIN stack' : \A k \in 1 .. j - 1 : stack'[k] = stack[k]
  BY <1>3, <1>10, OnTopAt
<1>12. p \in DOMAIN stack /\ Ops(stack[p].todo) = Ops(t) BY <1>1
<1> HIDE DEF p
<1>13. ~raced => OnUnderStop'
  <2> SUFFICES ASSUME ~raced, Ends(mem', stack', "alwaysRun", 0), NEW j \in DOMAIN stack', Always(Ops(stack'[j].todo))
               PROVE \E k \in 1 .. j - 1 : <<"alwaysRun", 0>> \in Ops(stack'[k].todo)
    BY DEF OnUnderStop
  <2>1. j \in DOMAIN stack /\ Always(Ops(stack[j].todo))
    <3>1. CASE j = p
      <4>1. Always(Ops(u)) BY <1>11, <3>1
      <4>2. Always(Ops(t)) BY <4>1, <1>2 DEF Always
      <4> QED BY <4>2, <1>12, <3>1
    <3> QED BY <1>11, <3>1
  <2>2. \E k \in 1 .. j - 1 : <<"alwaysRun", 0>> \in Ops(stack[k].todo)
    BY <1>7, <2>1 DEF RelayInv, OnUnderStop
  <2> QED BY <2>2, <1>11
<1>14. StartedAlready'
  <2> SUFFICES ASSUME NEW j \in DOMAIN stack', <<"runningChar", "O">> \in Ops(stack'[j].todo),
                      <<"relayTimer", "new">> \notin Ops(stack'[j].todo)
               PROVE /\ mem'.relayTimer = "new"
                     /\ \A k \in DOMAIN stack' : k > j => <<"relayTimer", "off">> \notin Ops(stack'[k].todo)
    BY DEF StartedAlready
  <2>1. mem' = m
    <3>1. stack' # <<>> OBVIOUS
    <3> QED BY <3>1
  <2>2. CASE j = p
    <3>1. <<"runningChar", "O">> \in Ops(u) /\ <<"relayTimer", "new">> \notin Ops(u) BY <1>11, <2>2
    <3>2. <<"runningChar", "O">> \in Ops(t) BY <3>1, <1>2
    <3>3. op # <<"relayTimer", "off">>
      <4> SUFFICES ASSUME op = <<"relayTimer", "off">> PROVE FALSE
        OBVIOUS
      <4>1. <<"runningChar", "W">> \in Ops(t) BY <1>1, <1>2, FrameFollows
      <4>2. <<"runningChar", "W">> = <<"runningChar", "O">> BY <3>2, <4>1, <1>1, FrameOnce
      <4> QED BY <4>2
    <3>4. m.relayTimer = "new"
      <4>1. CASE op[1] = "relayTimer"
        <5>1. op = <<"relayTimer", "new">> BY <1>2, <3>3, <4>1 DEF Assignments
        <5> QED BY <5>1, <1>4
      <4>2. CASE op[1] # "relayTimer"
        <5>1. <<"relayTimer", "new">> \notin Ops(t) BY <3>1, <1>2, <4>2
        <5>2. mem.relayTimer = "new" BY <5>1, <3>2, <1>12 DEF RelayInv, StartedAlready
        <5> QED BY <5>2, <4>2, <1>4
      <4> QED BY <4>1, <4>2
    <3>5. \A k \in DOMAIN stack' : ~(k > j) BY <1>11, <1>1, <2>2 DEF p
    <3> QED BY <2>1, <3>4, <3>5
  <2>3. CASE j \in 1 .. p - 1 /\ j \in DOMAIN stack /\ stack'[j] = stack[j]
    <3>1. /\ mem.relayTimer = "new"
          /\ \A k \in DOMAIN stack : k > j => <<"relayTimer", "off">> \notin Ops(stack[k].todo)
      BY <2>3 DEF RelayInv, StartedAlready
    <3>2. <<"relayTimer", "off">> \notin Ops(t)
      <4>1. p > j BY <2>3, <1>1 DEF p
      <4> QED BY <4>1, <3>1, <1>12
    <3>3. m.relayTimer = "new"
      <4>1. CASE op[1] = "relayTimer"
        <5>1. op = <<"relayTimer", "new">> BY <1>2, <3>2, <4>1 DEF Assignments
        <5> QED BY <5>1, <1>4
      <4>2. CASE op[1] # "relayTimer" BY <3>1, <4>2, <1>4
      <4> QED BY <4>1, <4>2
    <3>4. \A k \in DOMAIN stack' : k > j => <<"relayTimer", "off">> \notin Ops(stack'[k].todo)
      BY <1>2, <1>11, <3>1, <3>2
    <3> QED BY <2>1, <3>3, <3>4
  <2> QED BY <1>11, <2>2, <2>3
<1>15. TypeOK' BY <1>3, <1>5 DEF RelayInv, TypeOK, Nesting
<1> QED BY <1>3, <1>5, <1>8, <1>9, <1>13, <1>14, <1>15 DEF RelayInv, TimersSet

(***************************************************************************)
(* A decision of setRelay preserves the invariant.                         *)
(***************************************************************************)
LEMMA DecideKeeps ==
  ASSUME RelayInv, stack # <<>>, NEW t, t = stack[Len(stack)].todo, Head(t) = <<"setRelay">>,
         NEW d \in Decisions, Return(d \o Tail(t)),
         mem' = IF stack' = <<>> THEN Settled(mem) ELSE mem, raced' = raced
  PROVE RelayInv'
<1> DEFINE p == Len(stack)
<1>1. Len(stack) \in Nat \ {0} /\ DOMAIN stack = 1 .. Len(stack) /\ Frame(t)
  BY DEF RelayInv, Handlers
<1>2. t = setRelay
  <2> SUFFICES ASSUME WellFormed(t), t # <<>> PROVE FALSE
    BY <1>1 DEF Frame
  <2>1. t \in Seq(Assignments) BY DEF WellFormed
  <2>2. Head(t) \in Assignments BY <2>1
  <2>3. <<"setRelay">> \in Assignments BY <2>2
  <2> QED BY <2>3 DEF Assignments
<1>3. /\ d = <<>> \/ Frame(d)
      /\ \/ d = <<>> /\ Ops(d) = {}
         \/ d # <<>> /\ Ops(d) = {<<"relay", 0>>}
         \/ d # <<>> /\ Ops(d) = {<<"relay", 1>>, <<"runningChar", "+">>} /\ mem.alwaysRun = 1
         \/ /\ d # <<>> /\ Ops(d) = {<<"relay", 1>>, <<"relayTimer", "new">>, <<"runningChar", "O">>}
            /\ mem.programChar = "R"
  <2>1. CASE d = <<>> BY <2>1 DEF Ops
  <2>2. CASE d = << <<"relay", 0>> >>
    <3>1. d # <<>> BY <2>2
    <3> QED BY <2>2, <3>1, OffNowFrame, Zenon
  <2>3. CASE d = << <<"relay", 1>>, <<"runningChar", "+">> >> /\ mem.alwaysRun = 1
    <3>1. d # <<>> BY <2>3
    <3> QED BY <2>3, <3>1, AlwaysOnFrame, Zenon
  <2>4. CASE d = startRelayTimer /\ mem.programChar = "R"
    <3>1. d # <<>> BY <2>4 DEF startRelayTimer
    <3> QED BY <2>4, <3>1, StartRelayTimerFrame, Zenon
  <2> QED BY <2>1, <2>2, <2>3, <2>4 DEF Decisions
<1>4. d \in Seq(Assignments \cup {<<"setRelay">>})
  <2>1. CASE d = <<>> BY <2>1
  <2>2. CASE d = setRelay BY <2>2 DEF setRelay
  <2>3. CASE WellFormed(d)
    <3>1. d \in Seq(Assignments) BY <2>3 DEF WellFormed
    <3> QED BY <3>1
  <2> QED BY <1>3, <2>1, <2>2, <2>3 DEF Frame
<1>5. d \o Tail(t) = d
  <2>1. Tail(t) = <<>> BY <1>2 DEF setRelay
  <2>2. d \o <<>> = d BY <1>4, ConcatEmptySeq, Zenon
  <2> QED BY <2>1, <2>2, Zenon
<1>6. Return(d) BY <1>5, Zenon
<1>7. /\ OnTop(stack, stack', p, Ops(d))
      /\ Handlers' /\ Nesting'
      /\ d # <<>> => stack' # <<>>
  BY <1>3, <1>6, ReturnFacts, Zenon
<1>8. Replaced(stack, stack', p, Ops(d))
  BY <1>2, <1>7, SetRelayFrame DEF Replaced
<1>9. /\ mem' \in Memory /\ Keeps(mem, mem') /\ (stack' # <<>> => mem' = mem)
      /\ stack' = <<>> => mem'.relayTimer # "new" /\ mem'.waitTimer # "new"
  <2>1. mem \in Memory BY DEF RelayInv, TypeOK
  <2>2. CASE stack' = <<>> BY <2>1, <2>2, KeepsSettled
  <2>3. CASE stack' # <<>> BY <2>1, <2>3 DEF Keeps
  <2> QED BY <2>2, <2>3
<1> HIDE DEF p
<1>10. /\ StartedAlready' /\ RunningEndsTimed' /\ WaitingEndsTimed' /\ (~raced => StoppedEndsOff' /\ OnEndsTimed' /\ PlusEndsAlways' /\ OnUnderStop')
  <2>1. CASE Ops(d) = {} \/ Ops(d) = {<<"relay", 0>>}
    <3>1. Ops(d) \subseteq {<<"setRelay">>, <<"relay", 0>>, <<"programChar", "R">>} BY <2>1
    <3>2. stack' # <<>> => mem'.relayTimer = mem.relayTimer BY <1>9
    <3> QED BY <1>7, <1>8, <1>9, <3>1, <3>2, HarmlessPlaced, Zenon
  <2>2. CASE d # <<>> /\ Ops(d) = {<<"relay", 1>>, <<"runningChar", "+">>} /\ mem.alwaysRun = 1
    <3>1. mem'.relayTimer = mem.relayTimer BY <1>7, <1>9, <2>2
    <3> QED BY <1>7, <1>8, <1>9, <2>2, <3>1, AlwaysOnPlaced, Zenon
  <2>3. CASE /\ d # <<>> /\ Ops(d) = {<<"relay", 1>>, <<"relayTimer", "new">>, <<"runningChar", "O">>}
             /\ mem.programChar = "R"
    <3>1. mem'.relayTimer = mem.relayTimer BY <1>7, <1>9, <2>3
    <3> QED BY <1>7, <1>8, <1>9, <2>3, <3>1, StartPlaced, Zenon
  <2> QED BY <1>3, <2>1, <2>2, <2>3
<1>11. TypeOK' BY <1>7, <1>9 DEF RelayInv, TypeOK, Nesting
<1> QED BY <1>7, <1>9, <1>10, <1>11 DEF RelayInv, TimersSet

(***************************************************************************)
(* A step of the innermost handler preserves the invariant.                *)
(***************************************************************************)
LEMMA StepKeeps == ASSUME RelayInv, Step PROVE RelayInv'
<1> DEFINE t == stack[Len(stack)].todo
<1>1. stack # <<>> /\ raced' = raced BY DEF Step
<1>2. CASE Head(t) = <<"setRelay">>
  <2>1. (\E d \in Decisions : Return(d \o Tail(t))) /\ mem' = IF stack' = <<>> THEN Settled(mem) ELSE mem
    BY <1>2 DEF Step
  <2>2. PICK d \in Decisions : Return(d \o Tail(t)) BY <2>1
  <2> HIDE DEF t
  <2>3. t = stack[Len(stack)].todo BY DEF t
  <2> QED BY <1>1, <1>2, <2>1, <2>2, <2>3, DecideKeeps, Zenon
<1>3. CASE Head(t) # <<"setRelay">>
  <2>1. /\ Return(Tail(t))
        /\ mem' = IF stack' = <<>> THEN Settled(Exec(mem, Head(t))) ELSE Exec(mem, Head(t))
    BY <1>3 DEF Step, Exec
  <2> HIDE DEF t
  <2>2. t = stack[Len(stack)].todo BY DEF t
  <2> QED BY <1>1, <1>3, <2>1, <2>2, ExecuteKeeps, Zenon
<1> QED BY <1>2, <1>3

(***************************************************************************)
(* So does a step that no handler and no watched value takes part in.      *)
(***************************************************************************)
LEMMA QuietKeeps ==
  ASSUME RelayInv, mem' \in Memory, mem'.relayTimer = mem.relayTimer, mem'.waitTimer = mem.waitTimer,
         Keeps(mem, mem'),
         stack' = stack, raced' = raced
  PROVE RelayInv'
<1>1. ASSUME NEW q \in Watched, Ends(mem', stack', q[1], q[2]) PROVE Ends(mem, stack, q[1], q[2])
  BY <1>1 DEF Ends, Keeps
<1>2. /\ Ends(mem', stack', "programChar", "blank") => Ends(mem, stack, "programChar", "blank")
      /\ Ends(mem', stack', "alwaysRun", 0) => Ends(mem, stack, "alwaysRun", 0)
      /\ Ends(mem', stack', "relay", 1) => Ends(mem, stack, "relay", 1)
      /\ Ends(mem', stack', "relayTimer", "off") => Ends(mem, stack, "relayTimer", "off")
      /\ Ends(mem', stack', "runningChar", "O") => Ends(mem, stack, "runningChar", "O")
      /\ Ends(mem', stack', "runningChar", "W") => Ends(mem, stack, "runningChar", "W")
      /\ Ends(mem', stack', "runningChar", "+") => Ends(mem, stack, "runningChar", "+")
      /\ Ends(mem', stack', "waitTimer", "off") => Ends(mem, stack, "waitTimer", "off")
  BY <1>1 DEF Watched
<1>3. RunningEndsTimed' /\ WaitingEndsTimed'
  BY <1>2 DEF RelayInv, RunningEndsTimed, WaitingEndsTimed
<1>4. ~raced => StoppedEndsOff' /\ OnEndsTimed' /\ PlusEndsAlways'
  BY <1>2 DEF RelayInv, StoppedEndsOff, OnEndsTimed, PlusEndsAlways
<1>5. ~raced => OnUnderStop' BY <1>2 DEF RelayInv, OnUnderStop
<1>6. StartedAlready' /\ TimersSet' /\ Handlers'
  BY DEF RelayInv, StartedAlready, TimersSet, Handlers
<1>7. TypeOK' BY DEF RelayInv, TypeOK, Nesting
<1> QED BY <1>3, <1>4, <1>5, <1>6, <1>7 DEF RelayInv

(***************************************************************************)
(* Every step preserves the invariant.                                     *)
(***************************************************************************)
LEMMA RelayNextInv == RelayInv /\ [Next]_vars => RelayInv'
<1> SUFFICES ASSUME RelayInv, [Next]_vars PROVE RelayInv'
  OBVIOUS
<1>m. mem \in Memory /\ Keeps(mem, mem) BY DEF RelayInv, TypeOK, Keeps
<1>1. CASE Step BY <1>1, StepKeeps
<1>2. CASE Tick
  <2>1. mem' = mem /\ raced' = raced BY <1>2 DEF Tick
  <2>2. CASE stack' = stack BY <1>m, <2>1, <2>2, QuietKeeps, Zenon
  <2>3. CASE Call("statemachine", setRelay)
    <3>1. Ops(setRelay) \subseteq {<<"setRelay">>, <<"relay", 0>>, <<"programChar", "R">>}
      BY SetRelayFrame
    <3> QED BY <1>m, <2>1, <2>3, <3>1, SetRelayFrame, HarmlessCallKeeps
  <2> QED BY <1>2, <2>2, <2>3 DEF Tick
<1>3. CASE Fire("relayTimer", stopRelayTimer) BY <1>3, FireRelayTimerKeeps
<1>4. CASE Fire("waitTimer", stopWaiting) BY <1>4, FireWaitTimerKeeps
<1>5. CASE Run BY <1>5, RunKeeps
<1>6. CASE Stop(<< <<"alwaysRun", 0>> >> \o stopCommand)
  <2> DEFINE t == << <<"alwaysRun", 0>> >> \o stopCommand
  <2>1. Frame(t) /\ Ops(t) = StopOps
    BY StopAllIs, StopAllFrame, Zenon DEF StopOps
  <2>2. Stop(t) BY <1>6
  <2> HIDE DEF t
  <2>3. /\ Ops(t) \subseteq StopOps
        /\ StopOps \ {<<"alwaysRun", 0>>} \subseteq Ops(t)
    BY <2>1
  <2> QED BY <2>1, <2>2, <2>3, StopKeeps, Zenon
<1>7. CASE Stop(stopCommand)
  <2>1. Frame(stopCommand) /\ Ops(stopCommand) = StopOps \ {<<"alwaysRun", 0>>}
    BY StopCommandFrame DEF StopOps
  <2>2. /\ Ops(stopCommand) \subseteq StopOps
        /\ StopOps \ {<<"alwaysRun", 0>>} \subseteq Ops(stopCommand)
    BY <2>1
  <2> QED BY <1>7, <2>1, <2>2, StopKeeps, Zenon
<1>8. CASE Program
  <2> DEFINE t == << <<"programChar", "R">> >>
  <2>1. Frame(t) /\ Ops(t) = {<<"programChar", "R">>} BY ProgramCommandFrame
  <2>2. Call("other", t) /\ mem' = mem /\ raced' = raced BY <1>8 DEF Program
  <2> HIDE DEF t
  <2>3. Ops(t) \subseteq {<<"setRelay">>, <<"relay", 0>>, <<"programChar", "R">>} BY <2>1
  <2> QED BY <1>m, <2>1, <2>2, <2>3, HarmlessCallKeeps
<1>9. CASE Change
  <2>1. Call("other", setRelay) /\ mem' = [mem EXCEPT !.stale = FALSE] /\ raced' = raced
    BY <1>9 DEF Change
  <2>2. Ops(setRelay) \subseteq {<<"setRelay">>, <<"relay", 0>>, <<"programChar", "R">>}
    BY SetRelayFrame
  <2>3. mem' \in Memory /\ Keeps(mem, mem') /\ mem'.relayTimer = mem.relayTimer
    BY <1>m, <2>1, KeepsStale, Zenon
  <2> QED BY <2>1, <2>2, <2>3, SetRelayFrame, HarmlessCallKeeps, Zenon
<1>10. CASE stack' = stack /\ raced' = raced /\ \E b \in BOOLEAN : mem' = [mem EXCEPT !.stale = b]
  <2>1. mem' \in Memory /\ Keeps(mem, mem') /\ mem'.relayTimer = mem.relayTimer /\ mem'.waitTimer = mem.waitTimer
    BY <1>m, <1>10, KeepsStale
  <2> QED BY <1>10, <2>1, QuietKeeps, Zenon
<1>11. CASE UNCHANGED vars
  <2>1. mem' = mem /\ stack' = stack /\ raced' = raced BY <1>11 DEF vars
  <2> QED BY <1>m, <2>1, QuietKeeps, Zenon
<1>12. Refused => stack' = stack /\ raced' = raced /\ \E b \in BOOLEAN : mem' = [mem EXCEPT !.stale = b]
  BY Zenon DEF Refused
<1>13. (\E s \in Intervals : setInterval(s) /\ mem' = [mem EXCEPT !.stale = FALSE] /\ UNCHANGED <<stack, raced>>)
       => stack' = stack /\ raced' = raced /\ \E b \in BOOLEAN : mem' = [mem EXCEPT !.stale = b]
  OBVIOUS
<1> QED BY <1>1, <1>2, <1>3, <1>4, <1>5, <1>6, <1>7, <1>8, <1>9, <1>10, <1>11, <1>12, <1>13
        DEF Next, setProgramVariable

(***************************************************************************)
(* When no handler runs, the variables are what they end with.             *)
(***************************************************************************)
LEMMA AtRest ==
  ASSUME RelayInv, stack = <<>>, NEW v, NEW c, mem[v] = c
  PROVE Ends(mem, stack, v, c)
<1>1. Len(stack) = 0 OBVIOUS
<1> QED BY <1>1 DEF Ends, Free

(***************************************************************************)
(* The invariant implies the properties.                                   *)
(***************************************************************************)
LEMMA RelaySafe == RelayInv => TypeOK /\ StopsWhenTold /\ OnIsTimed /\ NeverStuck
<1> SUFFICES ASSUME RelayInv PROVE TypeOK /\ StopsWhenTold /\ OnIsTimed /\ NeverStuck
  OBVIOUS
<1>1. /\ mem.relay \in {0, 1} /\ mem.alwaysRun \in {0, 1}
      /\ mem.relayTimer \in {"off", "new", "set"} /\ mem.waitTimer \in {"off", "new", "set"}
  BY DEF RelayInv, TypeOK, Memory
<1>2. stack = <<>> => mem.relayTimer # "new" /\ mem.waitTimer # "new" BY DEF RelayInv, TimersSet
<1>3. StopsWhenTold BY <1>1, AtRest DEF RelayInv, StoppedEndsOff, StopsWhenTold, Idle
<1>4. OnIsTimed BY <1>1, <1>2, AtRest DEF RelayInv, OnEndsTimed, OnIsTimed, Idle
<1>5. NeverStuck
  BY <1>1, <1>2, AtRest DEF RelayInv, RunningEndsTimed, WaitingEndsTimed, PlusEndsAlways, NeverStuck, Idle
<1> QED BY <1>3, <1>4, <1>5 DEF RelayInv

(***************************************************************************)
(* The invariant holds throughout.                                         *)
(***************************************************************************)
LEMMA RelayAlways == Spec => []RelayInv
  BY RelayInitInv, RelayNextInv, PTL DEF Spec

(***************************************************************************)
(* The relay program is type correct, for every nesting depth and every    *)
(* set of intervals.                                                       *)
(***************************************************************************)
THEOREM RelayTyped == Spec => []TypeOK
  BY RelayAlways, RelaySafe, PTL

(***************************************************************************)
(* A stopped program ends with its relay off, however deep its handlers    *)
(* interrupt each other, unless the stop command came between a decision   *)
(* to switch on and its execution.                                         *)
(***************************************************************************)
THEOREM StopsCorrect == Spec => []StopsWhenTold
  BY RelayAlways, RelaySafe, PTL

(***************************************************************************)
(* The relay is never left on by a program without the timer that switches *)
(* it off, at every nesting depth.                                         *)
(***************************************************************************)
THEOREM TimedCorrect == Spec => []OnIsTimed
  BY RelayAlways, RelaySafe, PTL

(***************************************************************************)
(* No value of runningChar keeps setRelay from deciding for good, at every *)
(* nesting depth.                                                          *)
(***************************************************************************)
THEOREM UnstuckCorrect == Spec => []NeverStuck
  BY RelayAlways, RelaySafe, PTL
=============================================================================
