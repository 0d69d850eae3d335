----------------------------- MODULE BootProofs -----------------------------
(***************************************************************************)
(* Theorems about Boot for every file, every length of the waits and any   *)
(* changes of buttons and supply: nothing is used before it is there, the  *)
(* test mode needs both test buttons, and, if app_main waits for as long   *)
(* as the poll task takes to debounce them, it gets started by them.       *)
(*                                                                         *)
(* The settings are those the file stands for, line by line, if it keeps   *)
(* to what its comments allow; if it does not, they are still bytes, and   *)
(* what it does not name keeps its fallback.                               *)
(***************************************************************************)
EXTENDS Boot, TLAPS, WellFoundedInduction

EthernetQueues == {"ethernet_message_output_queue", "ethernet_message_input_queue"}
Mutexes == {"output_state_buffer_mutex", "input_state_buffer_mutex"}

\* app_main has come to setup_local_io, to the end of it, or to the logic task.
Late == {"wait", "check", "test", "logic"}

\* The poll task is there from setup_local_io on, and debounces from 0.
PollStarts ==
  /\ pc \in Late <=> poll # "none"
  /\ poll = "none" => \A p \in TestPanels : input_debounced_buffer[p] = 0

\* What is there, step by step.
CreatedByNow ==
  /\ pc # "start" => "input_event_queue" \in created
  /\ pc \in Late \cup {"driver", "io"} => EthernetQueues \subseteq created
  /\ pc \in Late => Mutexes \subseteq created

CreateInv == PollStarts /\ CreatedByNow /\ CreatedBeforeUse
-----------------------------------------------------------------------------
LEMMA AfterSteps ==
  /\ After("read") = "ethernet" /\ After("ethernet") = "driver"
  /\ After("driver") = "io" /\ After("io") = "wait"
  BY DEF After

LEMMA InitCreateInv == Init => CreateInv
  BY DEF Init, CreateInv, PollStarts, CreatedByNow, CreatedBeforeUse, Late

\* What app_main creates and uses.
LEMMA AppMainKeepsCreateInv == CreateInv /\ AppMain => CreateInv'
  <1> SUFFICES ASSUME CreateInv, AppMain PROVE CreateInv'
    OBVIOUS
  <1> USE AfterSteps DEF CreateInv, PollStarts, CreatedByNow, CreatedBeforeUse, Late,
                         EthernetQueues, Mutexes, pollVars
  <1>1. CASE CreateInputQueue
    BY <1>1 DEF CreateInputQueue
  <1>2. CASE OpenFile
    BY <1>2 DEF OpenFile
  <1>3. CASE ReadLine
    BY <1>3 DEF ReadLine
  <1>4. CASE Crash
    BY <1>4 DEF Crash
  <1>5. CASE EndOfFile
    BY <1>5 DEF EndOfFile
  <1>6. CASE CreateQueues
    BY <1>6 DEF CreateQueues
  <1>7. CASE StartDriver
    BY <1>7 DEF StartDriver
  <1>8. CASE SetupLocalIo
    BY <1>8 DEF SetupLocalIo
  <1>9. CASE CheckFirst
    BY <1>9 DEF CheckFirst, StartLogic
  <1>10. CASE CheckSecond
    BY <1>10 DEF CheckSecond, StartLogic
  <1> QED
    BY <1>1, <1>2, <1>3, <1>4, <1>5, <1>6, <1>7, <1>8, <1>9, <1>10 DEF AppMain

\* What the poll task uses is there before the poll task is.
LEMMA PollTaskKeepsCreateInv == CreateInv /\ PollTask => CreateInv'
  <1> SUFFICES ASSUME CreateInv, PollTask PROVE CreateInv'
    OBVIOUS
  <1> USE DEF CreateInv, PollStarts, CreatedByNow, CreatedBeforeUse, Late, EthernetQueues, Mutexes
  <1>1. CASE Round
    BY <1>1 DEF Round, RefreshInputs
  <1>2. CASE SupplyIsOn \/ SupplyIsOff
    BY <1>2 DEF SupplyIsOn, SupplyIsOff
  <1>3. CASE SetUpExpanders
    BY <1>3 DEF SetUpExpanders
  <1> QED BY <1>1, <1>2, <1>3 DEF PollTask

LEMMA NextCreateInv == CreateInv /\ [Next]_vars => CreateInv'
  <1> SUFFICES ASSUME CreateInv, [Next]_vars PROVE CreateInv'
    OBVIOUS
  <1> USE DEF CreateInv, PollStarts, CreatedByNow, CreatedBeforeUse, pollVars
  <1>1. CASE AppMain
    BY <1>1, AppMainKeepsCreateInv
  <1>2. CASE PollTask
    BY <1>2, PollTaskKeepsCreateInv
  <1>3. CASE Tick
    BY <1>3 DEF Tick
  <1>4. ASSUME NEW panel \in TestPanels, Touch(panel) PROVE CreateInv'
    BY <1>4 DEF Touch
  <1>5. CASE SwitchSupply
    BY <1>5 DEF SwitchSupply
  <1>6. CASE UNCHANGED vars
    BY <1>6 DEF vars
  <1> QED BY <1>1, <1>2, <1>3, <1>4, <1>5, <1>6 DEF Next

\* None of the modelled calls of app_main and the poll task uses a queue or a mutex
\* before it is created, whichever of the two does what first, and whatever is in
\* the file.
THEOREM NothingUsedTooEarly == Spec => []CreatedBeforeUse
  <1>1. CreateInv => CreatedBeforeUse
    BY DEF CreateInv
  <1> QED BY InitCreateInv, NextCreateInv, <1>1, PTL DEF Spec
-----------------------------------------------------------------------------
\* A test button that is held, or is debounced as held, was pressed.
PressesRecorded ==
  poll # "none" =>
    \A p \in TestPanels :
      held[p] = TestButton \/ input_debounced_buffer[p] = TestButton => p \in pressed

\* What app_main has found out.
PressInv ==
  /\ PollStarts /\ PressesRecorded
  /\ held \in [TestPanels -> 0 .. 2] /\ pressed \subseteq TestPanels
  /\ pc = "check" => 0 \in pressed
  /\ pc = "test" => pressed = TestPanels

LEMMA NextPressInv == CreateInv /\ PressInv /\ [Next]_vars => PressInv'
  <1> SUFFICES ASSUME CreateInv, PressInv, [Next]_vars PROVE PressInv'
    OBVIOUS
  <1> USE DEF PressInv, PressesRecorded
  <1>1. PollStarts'
    BY NextCreateInv DEF CreateInv
  <1>2. CASE AppMain
    <2> USE AfterSteps DEF PollStarts, Late, pollVars, people
    <2>1. CASE SetupLocalIo
      BY <1>1, <2>1 DEF SetupLocalIo, TestPanels, TestButton
    <2>2. CASE CheckFirst
      BY <1>1, <2>2 DEF CheckFirst, StartLogic, TestPanels
    <2>3. CASE CheckSecond
      BY <1>1, <2>3 DEF CheckSecond, StartLogic, TestPanels
    <2>4. CASE \/ CreateInputQueue \/ OpenFile \/ ReadLine \/ Crash \/ EndOfFile
               \/ CreateQueues \/ StartDriver
      BY <1>1, <2>4 DEF CreateInputQueue, OpenFile, ReadLine, Crash, EndOfFile, CreateQueues,
                        StartDriver
    <2> QED BY <1>2, <2>1, <2>2, <2>3, <2>4 DEF AppMain
  <1>3. CASE Round
    <2>1. \A p \in TestPanels :
            input_debounced_buffer'[p] \in {held[p], 0, input_debounced_buffer[p]}
      BY <1>3 DEF Round, RefreshInputs
    <2>2. /\ UNCHANGED << pc, poll, held, pressed >> /\ poll = "look"
      BY <1>3 DEF Round, people
    <2> QED BY <1>1, <2>1, <2>2 DEF TestButton
  <1>4. CASE SupplyIsOn \/ SupplyIsOff \/ SetUpExpanders
    BY <1>1, <1>4 DEF SupplyIsOn, SupplyIsOff, SetUpExpanders, people
  <1>5. CASE Tick
    BY <1>1, <1>5 DEF Tick, people
  <1>6. ASSUME NEW panel \in TestPanels, Touch(panel) PROVE PressInv'
    <2>1. /\ pressed' = pressed \cup {p \in TestPanels : held'[p] = TestButton}
          /\ held' \in [TestPanels -> 0 .. 2]
          /\ UNCHANGED << pc, poll, input_debounced_buffer >> /\ poll # "none"
      BY <1>6 DEF Touch, Change, pollVars
    <2> QED BY <1>1, <2>1
  <1>7. CASE SwitchSupply
    BY <1>1, <1>7 DEF SwitchSupply, pollVars
  <1>8. CASE UNCHANGED vars
    BY <1>1, <1>8 DEF vars, pollVars, people
  <1> QED BY <1>2, <1>3, <1>4, <1>5, <1>6, <1>7, <1>8 DEF Next, PollTask

\* The test mode is never started by noise or by one button: both test buttons
\* were pressed since the poll task started, whatever it made of them.
THEOREM TestModeNeedsBoth == Spec => []TestModeOnlyIfPressed
  <1>1. Init => PressInv
    BY DEF Init, PressInv, PressesRecorded, PollStarts, Late
  <1>2. PressInv => TestModeOnlyIfPressed
    BY DEF PressInv, TestModeOnlyIfPressed
  <1> QED BY InitCreateInv, NextCreateInv, NextPressInv, <1>1, <1>2, PTL DEF Spec
-----------------------------------------------------------------------------
(* How long the poll task takes to debounce buttons held from the start.   *)

\* The longest time from one reading of the buttons to the next.
RoundTicks == RefreshWait + 1

\* The longest time until the buttons are debounced, for a count so far.
TicksLeft(count) == (INPUT_DEBOUNCE_LOOP_COUNT - 1 - count) * RoundTicks

\* The hypothesis of the theorem: app_main waits for the supply to settle and for
\* all rounds of the debouncing; the counts do not wrap before that.
WaitsLongEnough ==
  /\ BOOT_WAIT > PsuWait + TicksLeft(0)
  /\ INPUT_DEBOUNCE_LOOP_COUNT <= 255

LEMMA Ticks ==
  /\ PsuWait \in Nat /\ RefreshWait \in Nat
  /\ \A count \in 0 .. INPUT_DEBOUNCE_LOOP_COUNT - 1 :
       /\ TicksLeft(count) \in Nat
       /\ TicksLeft(count) = TicksLeft(count + 1) + RoundTicks
  <1>1. PsuWait \in Nat /\ RefreshWait \in Nat
    BY BootAssumption DEF PsuWait, RefreshWait
  <1>2. ASSUME NEW x \in Nat, NEW k \in Nat
        PROVE  x * k \in Nat /\ x * k = (x - 1) * k + k
    BY <1>2
  <1>3. ASSUME NEW count \in 0 .. INPUT_DEBOUNCE_LOOP_COUNT - 1
        PROVE  /\ TicksLeft(count) \in Nat
               /\ TicksLeft(count) = TicksLeft(count + 1) + RoundTicks
    <2> DEFINE x == INPUT_DEBOUNCE_LOOP_COUNT - 1 - count
    <2>1. x \in Nat /\ INPUT_DEBOUNCE_LOOP_COUNT - 1 - (count + 1) = x - 1 /\ RoundTicks \in Nat
      BY <1>1, BootAssumption DEF RoundTicks
    <2> QED BY <1>2, <2>1 DEF TicksLeft
  <1> QED BY <1>1, <1>3

\* Both test buttons are held down and the supply is on, as from the beginning.
HeldSoFar == steady /\ supply /\ \A p \in TestPanels : held[p] = TestButton

Counted(count) == \A p \in TestPanels : input_state_counts[p] = count

Debounced == \A p \in TestPanels : input_debounced_buffer[p] = TestButton

\* The poll task is in time: what app_main has yet to wait is more than what the
\* poll task still needs.
NotStarted == poll = "none" /\ due = 0 /\ ~board_live_i2c_setup /\ wake = BOOT_WAIT /\ Counted(0)

Looking == poll = "look" /\ due = 0 /\ ~board_live_i2c_setup /\ wake = BOOT_WAIT /\ Counted(0)

Settling == poll = "psu" /\ wake - due = BOOT_WAIT - PsuWait /\ Counted(0)

Counting ==
  /\ poll = "look" /\ board_live_i2c_setup
  /\ \E count \in 0 .. INPUT_DEBOUNCE_LOOP_COUNT - 1 :
       Counted(count) /\ wake - due > TicksLeft(count)

Done == poll = "look" /\ board_live_i2c_setup /\ Debounced

InTime == (NotStarted \/ Looking \/ Settling \/ Counting) /\ pc \notin {"check", "logic"}

TimeInv ==
  /\ PollStarts
  /\ wake \in Int /\ due \in Nat
  /\ HeldSoFar => InTime \/ (Done /\ pc # "logic")

LEMMA InitTimeInv == Init => TimeInv
  <1> SUFFICES ASSUME Init PROVE TimeInv
    OBVIOUS
  <1>1. PollStarts
    BY DEF Init, PollStarts, Late
  <1>2. NotStarted /\ pc \notin {"check", "logic"}
    BY DEF Init, NotStarted, Counted
  <1>3. wake \in Int /\ due \in Nat
    BY <1>2, BootAssumption DEF NotStarted
  <1> QED BY <1>1, <1>2, <1>3 DEF TimeInv, InTime

\* Up to setup_local_io nothing of this changes.
LEMMA AppMainKeepsTime ==
  ASSUME WaitsLongEnough, TimeInv, AppMain, PollStarts' PROVE TimeInv'
  <1> USE DEF TimeInv
  <1>1. CASE SetupLocalIo
    BY <1>1 DEF SetupLocalIo, PollStarts, Late, HeldSoFar, InTime, NotStarted, Looking, Settling,
                Counting, Done, Counted, After
  <1>2. CASE CheckFirst \/ CheckSecond
    <2>1. UNCHANGED << wake, pollVars, people >> /\ pc \in {"wait", "check"}
      BY <1>2 DEF CheckFirst, CheckSecond
    <2>2. HeldSoFar' => HeldSoFar
      BY <2>1 DEF HeldSoFar, people
    <2>3. ASSUME HeldSoFar, pc = "wait", wake = 0 PROVE Done
      BY <2>3, <2>1, Ticks, BootAssumption
      DEF WaitsLongEnough, InTime, PollStarts, Late, NotStarted, Looking, Settling, Counting
    <2>4. HeldSoFar => Done
      BY <1>2, <2>3 DEF CheckFirst, CheckSecond, InTime
    <2>5. HeldSoFar => pc' # "logic"
      BY <1>2, <2>4 DEF CheckFirst, CheckSecond, Done, Debounced, TestPanels
    <2>6. HeldSoFar => Done'
      BY <2>1, <2>4 DEF Done, Debounced, pollVars
    <2> QED BY <2>1, <2>2, <2>5, <2>6 DEF pollVars
  <1>3. CASE \/ CreateInputQueue \/ OpenFile \/ ReadLine \/ Crash \/ EndOfFile
             \/ CreateQueues \/ StartDriver
    <2>1. UNCHANGED << wake, pollVars, people >> /\ pc' \notin {"check", "logic"}
      BY <1>3, AfterSteps DEF CreateInputQueue, OpenFile, ReadLine, Crash, EndOfFile,
                              CreateQueues, StartDriver
    <2>2. HeldSoFar' => HeldSoFar
      BY <2>1 DEF HeldSoFar, people
    <2> QED
      BY <2>1, <2>2 DEF InTime, NotStarted, Looking, Settling, Counting, Done, Counted, Debounced,
                        pollVars
  <1> QED BY <1>1, <1>2, <1>3 DEF AppMain

\* A round of the poll task counts, and debounces with the last one; a wrapped
\* count takes nothing back.
LEMMA RoundKeepsTime ==
  ASSUME WaitsLongEnough, TimeInv, Round, PollStarts' PROVE TimeInv'
  <1> USE DEF TimeInv
  <1>1. /\ poll = "look" /\ due = 0 /\ board_live_i2c_setup
        /\ UNCHANGED << pc, wake, poll, board_live_i2c_setup, people >>
        /\ due' \in RefreshWait .. RoundTicks
    BY DEF Round, RoundTicks
  <1>2. due' \in Nat
    BY <1>1, Ticks DEF RoundTicks
  <1>3. HeldSoFar' => HeldSoFar
    BY <1>1 DEF HeldSoFar, people
  <1>4. ASSUME HeldSoFar, NEW p \in TestPanels
        PROVE  /\ input_state_counts'[p] = (input_state_counts[p] + 1) % 256
               /\ input_debounced_buffer'[p] =
                    IF input_state_counts'[p] >= INPUT_DEBOUNCE_LOOP_COUNT THEN TestButton
                    ELSE input_debounced_buffer[p]
    BY <1>4 DEF Round, RefreshInputs, HeldSoFar, TestButton
  <1>5. CASE HeldSoFar /\ Done /\ pc # "logic"
    BY <1>1, <1>2, <1>4, <1>5 DEF Done, Debounced
  <1>6. CASE HeldSoFar /\ InTime
    <2>1. PICK count \in 0 .. INPUT_DEBOUNCE_LOOP_COUNT - 1 :
            Counted(count) /\ wake - due > TicksLeft(count)
      BY <1>1, <1>6 DEF InTime, NotStarted, Looking, Settling, Counting
    <2>2. (count + 1) % 256 = count + 1 /\ count + 1 \in Nat
      BY BootAssumption DEF WaitsLongEnough
    <2>3. Counted(count + 1)'
      BY <1>4, <1>6, <2>1, <2>2 DEF Counted
    <2>4. CASE count + 1 >= INPUT_DEBOUNCE_LOOP_COUNT
      <3>1. Debounced'
        BY <1>4, <1>6, <2>3, <2>4 DEF Debounced, Counted
      <3> QED BY <1>1, <1>2, <1>6, <3>1 DEF Done, InTime
    <2>5. CASE ~(count + 1 >= INPUT_DEBOUNCE_LOOP_COUNT)
      <3>1. count + 1 \in 0 .. INPUT_DEBOUNCE_LOOP_COUNT - 1
        BY <2>5, BootAssumption
      <3>2. wake' - due' > TicksLeft(count + 1)
        <4>1. TicksLeft(count) = TicksLeft(count + 1) + RoundTicks /\ TicksLeft(count + 1) \in Nat
          BY <3>1, Ticks
        <4>2. RoundTicks \in Nat /\ due' <= RoundTicks /\ wake' = wake
          BY <1>1, Ticks DEF RoundTicks
        <4> QED BY <1>1, <1>2, <2>1, <4>1, <4>2
      <3>3. Counting'
        BY <1>1, <2>3, <3>1, <3>2 DEF Counting, Counted, TicksLeft, RoundTicks, RefreshWait
      <3> QED BY <1>1, <1>2, <1>6, <3>3 DEF InTime
    <2> QED BY <2>4, <2>5
  <1> QED BY <1>1, <1>2, <1>3, <1>5, <1>6

LEMMA NextTimeInv ==
  ASSUME WaitsLongEnough, CreateInv, TimeInv, [Next]_vars PROVE TimeInv'
  <1> USE DEF TimeInv
  <1>1. PollStarts'
    BY NextCreateInv DEF CreateInv
  <1>2. CASE AppMain
    BY <1>1, <1>2, AppMainKeepsTime
  <1>3. CASE Round
    BY <1>1, <1>3, RoundKeepsTime
  <1>4. CASE SupplyIsOn
    <2>1. /\ UNCHANGED << pc, wake, people, input_state_counts >> /\ ~board_live_i2c_setup
          /\ poll = "look" /\ due = 0 /\ poll' = "psu" /\ due' = PsuWait
      BY <1>4 DEF SupplyIsOn
    <2>2. HeldSoFar' => HeldSoFar
      BY <2>1 DEF HeldSoFar, people
    <2>3. HeldSoFar => pc \notin {"check", "logic"} /\ wake = BOOT_WAIT /\ Counted(0)
      BY <2>1 DEF InTime, NotStarted, Looking, Settling, Counting, Done
    <2>4. HeldSoFar => Settling' /\ pc' \notin {"check", "logic"}
      BY <2>1, <2>3, BootAssumption, Ticks DEF Settling, Counted
    <2> QED BY <1>1, <2>1, <2>2, <2>4, Ticks DEF InTime
  <1>5. CASE SupplyIsOff
    BY <1>1, <1>5, Ticks DEF SupplyIsOff, HeldSoFar, people
  <1>6. CASE SetUpExpanders
    <2>1. /\ UNCHANGED << pc, wake, due, people, input_state_counts >> /\ due = 0
          /\ poll = "psu" /\ poll' = "look" /\ board_live_i2c_setup'
      BY <1>6 DEF SetUpExpanders
    <2>2. HeldSoFar' => HeldSoFar
      BY <2>1 DEF HeldSoFar, people
    <2>3. HeldSoFar => /\ pc \notin {"check", "logic"} /\ Counted(0)
                       /\ wake - due > TicksLeft(0)
      BY <2>1, BootAssumption, Ticks
      DEF WaitsLongEnough, InTime, NotStarted, Looking, Settling, Counting, Done
    <2>4. HeldSoFar => Counting' /\ pc' \notin {"check", "logic"}
      BY <2>1, <2>3, BootAssumption DEF Counting, Counted, TicksLeft, RoundTicks, RefreshWait
    <2> QED BY <1>1, <2>1, <2>2, <2>4 DEF InTime
  <1>7. CASE Tick
    <2>1. /\ UNCHANGED << pc, poll, board_live_i2c_setup, input_state_counts,
                          input_debounced_buffer, people >>
          /\ due > 0 /\ due' = due - 1
          /\ pc = "wait" /\ wake' = wake - 1
      BY <1>7 DEF Tick, PollStarts, Late
    <2>2. HeldSoFar' => HeldSoFar
      BY <2>1 DEF HeldSoFar, people
    <2>3. Settling => Settling'
      BY <2>1, BootAssumption, Ticks DEF Settling, Counted
    <2>4. Counting => Counting'
      BY <2>1, BootAssumption, Ticks DEF Counting, Counted, TicksLeft, RoundTicks, RefreshWait
    <2>5. Done => Done'
      BY <2>1 DEF Done, Debounced
    <2> QED
      BY <1>1, <2>1, <2>2, <2>3, <2>4, <2>5 DEF InTime, NotStarted, Looking, PollStarts, Late
  <1>8. ASSUME NEW panel \in TestPanels, Touch(panel) PROVE TimeInv'
    BY <1>1, <1>8 DEF Touch, Change, HeldSoFar, pollVars
  <1>9. CASE SwitchSupply
    BY <1>1, <1>9 DEF SwitchSupply, Change, HeldSoFar, pollVars
  <1>10. CASE UNCHANGED vars
    BY <1>1, <1>10 DEF vars, pollVars, people, HeldSoFar, InTime, NotStarted, Looking, Settling,
                       Counting, Done, Counted, Debounced, TicksLeft, RoundTicks, RefreshWait
  <1> QED
    BY <1>2, <1>3, <1>4, <1>5, <1>6, <1>7, <1>8, <1>9, <1>10 DEF Next, PollTask

\* Who holds down both test buttons from the beginning, with the supply on, gets
\* the test mode, for all waits in the order of the firmware's.
THEOREM TestModeComes == WaitsLongEnough => (Spec => []TestModeIfHeld)
  <1> SUFFICES ASSUME WaitsLongEnough PROVE Spec => []TestModeIfHeld
    OBVIOUS
  <1>1. CreateInv /\ TimeInv /\ [Next]_vars => TimeInv'
    BY NextTimeInv
  <1>2. TimeInv => TestModeIfHeld
    BY DEF TimeInv, TestModeIfHeld, HeldSoFar, InTime
  <1> QED BY InitCreateInv, NextCreateInv, InitTimeInv, <1>1, <1>2, PTL DEF Spec
-----------------------------------------------------------------------------
(* The last line for a setting.                                            *)

LEMMA LeastNat ==
  ASSUME NEW T, T \subseteq Nat, T # {}
  PROVE  \E n \in T : \A m \in T : n <= m
  <1> DEFINE R == OpToRel(<, Nat)
  <1>1. IsWellFoundedOn(R, Nat)
    BY NatLessThanWellFounded
  <1>2. \A x, y \in Nat : x < y => << x, y >> \in R
    BY DEF OpToRel
  <1> HIDE DEF R
  <1>3. PICK n \in T : \A m \in T : ~(<< m, n >> \in R)
    BY <1>1, WFMin, Zenon
  <1>4. \A m \in T : ~(m < n)
    BY <1>2, <1>3
  <1> QED BY <1>3, <1>4

LEMMA GreatestIsMax ==
  ASSUME NEW T, T \subseteq Int, NEW m \in T, \A t \in T : t <= m
  PROVE  Max(T) = m
  <1> DEFINE IsMax(x) == x \in T /\ \A t \in T : x >= t
  <1>1. IsMax(m)
    OBVIOUS
  <1>2. Max(T) = CHOOSE x : IsMax(x)
    BY DEF Max
  <1>3. IsMax(Max(T))
    BY <1>1, <1>2
  <1>4. Max(T) \in Int /\ Max(T) >= m /\ Max(T) <= m
    BY <1>3
  <1> QED BY <1>4

LEMMA GreatestExists ==
  ASSUME NEW bound \in Nat, NEW T, T \subseteq 0 .. bound, T # {}
  PROVE  \E m \in T : \A t \in T : t <= m
  <1> DEFINE Left == {bound - t : t \in T}
  <1>1. Left \subseteq Nat /\ Left # {}
    <2>1. \A t \in T : bound - t \in Nat
      OBVIOUS
    <2> QED BY <2>1
  <1>2. PICK n \in Left : \A l \in Left : n <= l
    <2> HIDE DEF Left
    <2> QED BY <1>1, LeastNat
  <1>3. PICK m \in T : n = bound - m
    OBVIOUS
  <1>4. \A t \in T : bound - m <= bound - t
    BY <1>2, <1>3
  <1>5. \A t \in T : t <= m
    BY <1>4
  <1> QED BY <1>5

LEMMA AppendAt ==
  ASSUME NEW S, NEW s \in Seq(S), NEW x \in S
  PROVE  /\ Append(s, x) \in Seq(S) /\ Len(Append(s, x)) = Len(s) + 1 /\ Len(s) \in Nat
         /\ Append(s, x)[Len(s) + 1] = x
         /\ \A i \in 1 .. Len(s) : Append(s, x)[i] = s[i]
  OBVIOUS

\* One more line counts if it is for the setting.
LEMMA LastForAppend ==
  ASSUME NEW read \in Seq(ConfigLine), NEW line \in ConfigLine,
         NEW key, NEW panel, NEW fallback
  PROVE  LastFor(Append(read, line), key, panel, fallback) =
           IF line.key = key /\ line.panel = panel THEN line.values
           ELSE LastFor(read, key, panel, fallback)
  <1> DEFINE For(l) == l.key = key /\ l.panel = panel
             longer == Append(read, line)
             I == {i \in 1 .. Len(read) : For(read[i])}
             J == {i \in 1 .. Len(longer) : For(longer[i])}
             last(T) == IF T # {} THEN Max(T) ELSE 0
  <1>1. /\ LastFor(read, key, panel, fallback) =
             IF last(I) = 0 THEN fallback ELSE read[last(I)].values
        /\ LastFor(longer, key, panel, fallback) =
             IF last(J) = 0 THEN fallback ELSE longer[last(J)].values
    BY DEF LastFor, SelectLastInSeq
  <1>2. /\ Len(longer) = Len(read) + 1 /\ Len(read) \in Nat /\ longer[Len(read) + 1] = line
        /\ \A i \in 1 .. Len(read) : longer[i] = read[i]
    BY AppendAt
  <1> HIDE DEF longer
  <1>3. \A i : i \in 1 .. Len(longer) <=> i \in 1 .. Len(read) \/ i = Len(read) + 1
    BY <1>2
  <1>4. CASE For(line)
    <2>1. Len(read) + 1 \in J /\ J \subseteq Int /\ \A j \in J : j <= Len(read) + 1
      BY <1>2, <1>3, <1>4
    <2>2. Max(J) = Len(read) + 1
      <3> HIDE DEF J
      <3> QED BY <2>1, GreatestIsMax
    <2>3. last(J) = Len(read) + 1 /\ Len(read) + 1 # 0
      BY <1>2, <2>1, <2>2
    <2> HIDE DEF last, J, I
    <2> QED BY <1>1, <1>2, <1>4, <2>3 DEF longer
  <1>5. CASE ~For(line)
    <2>1. J = I
      BY <1>2, <1>3, <1>5
    <2>2. last(I) = 0 \/ last(I) \in 1 .. Len(read)
      <3>1. CASE I # {}
        <4>1. I \subseteq 0 .. Len(read) /\ I \subseteq Int /\ I \subseteq 1 .. Len(read)
          BY <1>2
        <4>2. PICK m \in I : \A i \in I : i <= m
          <5> HIDE DEF I
          <5> QED BY <1>2, <3>1, <4>1, GreatestExists
        <4>3. Max(I) = m
          <5> HIDE DEF I
          <5> QED BY <4>1, <4>2, GreatestIsMax
        <4> HIDE DEF I
        <4> QED BY <3>1, <4>1, <4>2, <4>3
      <3> QED BY <3>1
    <2> HIDE DEF last, J, I
    <2>3. LastFor(longer, key, panel, fallback) = LastFor(read, key, panel, fallback)
      BY <1>1, <1>2, <2>1, <2>2
    <2> QED BY <1>5, <2>3 DEF longer
  <1> QED BY <1>4, <1>5
-----------------------------------------------------------------------------
(* The fold over the values of a line.                                     *)

\* The recursive function of FoldLeft, and that it exists.
IsFold(f, base, values, length) ==
  f = [s \in SUBSET (1 .. length) |->
         IF s = {} THEN base ELSE MarkFlag(f[s \ {Max(s)}], values[Max(s)])]

LEMMA FoldExists ==
  ASSUME NEW base, NEW values, NEW length \in Nat
  PROVE  \E f : IsFold(f, base, values, length)
  <1> DEFINE Step(f, n) == [s \in SUBSET (1 .. n) |->
                              IF s = {} THEN base
                              ELSE MarkFlag(f[s \ {Max(s)}], values[Max(s)])]
             Bad == {n \in Nat : ~\E f : f = Step(f, n)}
  <1> USE DEF IsFold
  <1>1. SUFFICES ASSUME Bad # {} PROVE FALSE
    <2>1. Bad = {} => length \notin Bad
      OBVIOUS
    <2> QED BY <1>1, <2>1
  <1>2. PICK n \in Bad : \A m \in Bad : n <= m
    <2>1. Bad \subseteq Nat
      OBVIOUS
    <2> HIDE DEF Bad
    <2> QED BY <1>1, <2>1, LeastNat
  <1>3. n \in Nat /\ ~\E f : f = Step(f, n)
    BY <1>2
  <1>4. CASE n = 0
    <2> DEFINE h == [s \in SUBSET (1 .. n) |-> base]
    <2>1. \A s \in SUBSET (1 .. n) : s = {}
      BY <1>4
    <2>2. h = Step(h, n)
      BY <2>1
    <2> QED BY <1>3, <2>2
  <1>5. CASE n # 0
    <2>1. n - 1 \in Nat /\ n - 1 \notin Bad
      <3>1. n - 1 \in Nat /\ ~(n <= n - 1)
        BY <1>3, <1>5
      <3> HIDE DEF Bad
      <3> QED BY <1>2, <3>1
    <2>2. PICK g : g = Step(g, n - 1)
      BY <2>1
    <2> DEFINE h == [s \in SUBSET (1 .. n) |->
                       IF n \in s THEN MarkFlag(g[s \ {n}], values[n]) ELSE g[s]]
    <2>3. ASSUME NEW s \in SUBSET (1 .. n) PROVE h[s] = Step(h, n)[s]
      <3>1. CASE n \in s
        <4>1. Max(s) = n
          <5>1. s \subseteq Int /\ \A t \in s : t <= n
            BY <1>3
          <5> QED BY <3>1, <5>1, GreatestIsMax
        <4>2. s \ {n} \in SUBSET (1 .. n) /\ n \notin s \ {n}
          OBVIOUS
        <4>3. h[s \ {n}] = g[s \ {n}]
          BY <4>2
        <4>4. h[s] = MarkFlag(g[s \ {n}], values[n])
          BY <3>1
        <4>5. Step(h, n)[s] = MarkFlag(h[s \ {Max(s)}], values[Max(s)])
          BY <3>1
        <4> HIDE DEF h, Step
        <4> QED BY <4>1, <4>3, <4>4, <4>5
      <3>2. CASE n \notin s
        <4>1. s \in SUBSET (1 .. n - 1) /\ s \ {Max(s)} \in SUBSET (1 .. n)
          <5>1. \A t \in s : t \in 1 .. n /\ t # n
            BY <3>2
          <5>2. \A t \in s : t \in 1 .. n - 1
            BY <1>3, <5>1
          <5> QED BY <5>2
        <4>2. h[s \ {Max(s)}] = g[s \ {Max(s)}] /\ h[s] = g[s]
          BY <3>2, <4>1
        <4>3. g[s] = IF s = {} THEN base ELSE MarkFlag(g[s \ {Max(s)}], values[Max(s)])
          BY <2>2, <4>1
        <4>4. Step(h, n)[s] =
                IF s = {} THEN base ELSE MarkFlag(h[s \ {Max(s)}], values[Max(s)])
          OBVIOUS
        <4> HIDE DEF h, Step
        <4> QED BY <4>2, <4>3, <4>4
      <3> QED BY <3>1, <3>2
    <2>4. h = Step(h, n)
      <3>1. /\ h = [s \in SUBSET (1 .. n) |-> h[s]]
            /\ Step(h, n) = [s \in SUBSET (1 .. n) |-> Step(h, n)[s]]
        OBVIOUS
      <3> HIDE DEF h, Step
      <3> QED BY <2>3, <3>1
    <2> QED BY <1>3, <2>4
  <1> QED BY <1>4, <1>5

\* FoldLeft, value by value.
Marking(f, base, values) ==
  f[0] = base /\ \A k \in 1 .. Len(values) : f[k] = MarkFlag(f[k - 1], values[k])

LEMMA FoldSteps ==
  ASSUME NEW base, NEW values \in Seq(Int)
  PROVE  \E f : MarkFlags(base, values) = f[Len(values)] /\ Marking(f, base, values)
  <1> DEFINE n == Len(values)
             iter == CHOOSE f : IsFold(f, base, values, n)
             prefixes == [k \in 0 .. n |-> iter[1 .. k]]
  <1>1. n \in Nat /\ DOMAIN values = 1 .. n
    OBVIOUS
  <1>2. IsFold(iter, base, values, n)
    BY <1>1, FoldExists
  <1>3. MarkFlags(base, values) = iter[1 .. n]
    BY <1>1 DEF MarkFlags, FoldLeft, MapThenFoldSet, IsFold
  <1> HIDE DEF iter
  <1>4. \A s \in SUBSET (1 .. n) :
          iter[s] = IF s = {} THEN base ELSE MarkFlag(iter[s \ {Max(s)}], values[Max(s)])
    BY <1>2 DEF IsFold
  <1>5. prefixes[0] = base
    <2>1. 1 .. 0 = {} /\ 0 \in 0 .. n
      BY <1>1
    <2> QED BY <1>4, <2>1
  <1>6. ASSUME NEW k \in 1 .. n PROVE prefixes[k] = MarkFlag(prefixes[k - 1], values[k])
    <2>1. Max(1 .. k) = k
      <3>1. 1 .. k \subseteq Int /\ k \in 1 .. k /\ \A t \in 1 .. k : t <= k
        BY <1>1
      <3> QED BY <3>1, GreatestIsMax
    <2>2. (1 .. k) \ {k} = 1 .. k - 1 /\ 1 .. k # {} /\ 1 .. k \in SUBSET (1 .. n)
      <3>1. \A t : t \in (1 .. k) \ {k} <=> t \in 1 .. k - 1
        BY <1>1
      <3>2. k \in 1 .. k /\ 1 .. k \subseteq 1 .. n
        BY <1>1
      <3> QED BY <3>1, <3>2
    <2>3. prefixes[k] = iter[1 .. k] /\ prefixes[k - 1] = iter[1 .. k - 1]
      <3>1. k - 1 \in 0 .. n /\ k \in 0 .. n
        BY <1>1
      <3> QED BY <3>1
    <2>4. iter[1 .. k] = MarkFlag(iter[(1 .. k) \ {Max(1 .. k)}], values[Max(1 .. k)])
      BY <1>4, <2>2
    <2> HIDE DEF prefixes
    <2> QED BY <2>1, <2>2, <2>3, <2>4
  <1>7. prefixes[n] = iter[1 .. n]
    BY <1>1
  <1>8. Marking(prefixes, base, values)
    BY <1>5, <1>6 DEF Marking
  <1> QED BY <1>3, <1>7, <1>8
-----------------------------------------------------------------------------
(* What a line does to the settings.                                       *)

SettingKeys ==
  SingleKeys \cup {"routing_panel_sources", "routing_panel_destinations",
                   "show_relay_switched_destination_flags", "router_ip", "router_port"}

IsRecord(s) == s = [key \in SettingKeys |-> s[key]]

Flags(s) == s["show_relay_switched_destination_flags"]

\* Settings with one flag for every destination.
HasFlags(s) == IsRecord(s) /\ Flags(s) = [d \in Dests |-> Flags(s)[d]]

LEMMA EqualRecords ==
  ASSUME NEW r, NEW s, IsRecord(r), IsRecord(s), \A key \in SettingKeys : r[key] = s[key]
  PROVE  r = s
  <1>1. [key \in SettingKeys |-> r[key]] = [key \in SettingKeys |-> s[key]]
    OBVIOUS
  <1> QED BY <1>1 DEF IsRecord

With(s, key, x) == [s EXCEPT ![key] = x]

WithFlags(s, x) == With(s, "show_relay_switched_destination_flags", x)

LEMMA WithChanges ==
  ASSUME NEW s, IsRecord(s), NEW key \in SettingKeys, NEW x
  PROVE  /\ IsRecord(With(s, key, x)) /\ With(s, key, x)[key] = x
         /\ \A other \in SettingKeys : other # key => With(s, key, x)[other] = s[other]
  BY DEF IsRecord, With

LEMMA FlagsChanged ==
  ASSUME NEW s, IsRecord(s), NEW x
  PROVE  /\ IsRecord(WithFlags(s, x)) /\ Flags(WithFlags(s, x)) = x
         /\ \A key \in SettingKeys :
              key # "show_relay_switched_destination_flags" => WithFlags(s, x)[key] = s[key]
  <1>1. "show_relay_switched_destination_flags" \in SettingKeys
    BY DEF SettingKeys
  <1> QED BY <1>1, WithChanges DEF Flags, WithFlags

\* Flags of the first k values are set.
Marked(s, values, k) ==
  [d \in Dests |-> IF \E i \in 1 .. k : values[i] % 256 = d + 1 THEN 1 ELSE Flags(s)[d]]

LEMMA FlagMarked ==
  ASSUME NEW s, NEW value,
         ~(FlagIndex(value) = -1), FlagIndex(value) \in Dests,
         ~(FlagIndex(value) \in NDests .. NDests + 3),
         ~(FlagIndex(value) \in NDests + 4 .. NDests + 7)
  PROVE  MarkFlag(s, value) =
           [s EXCEPT !["show_relay_switched_destination_flags"][FlagIndex(value)] = 1]
  BY DEF MarkFlag

LEMMA MarkFlagInRange ==
  ASSUME NEW s, HasFlags(s), NEW value \in Int, value % 256 \in Route
  PROVE  MarkFlag(s, value) =
           WithFlags(s, [d \in Dests |-> IF value % 256 = d + 1 THEN 1 ELSE Flags(s)[d]])
  <1> DEFINE flags == "show_relay_switched_destination_flags"
             index == (value % 256) - 1
  <1>1. /\ index \in Dests /\ index # -1 /\ FlagIndex(value) = index
        /\ \A d \in Dests : value % 256 = d + 1 <=> d = index
    BY ConfigAssumption DEF Route, Dests, FlagIndex
  <1>2. MarkFlag(s, value) = [s EXCEPT !["show_relay_switched_destination_flags"][index] = 1]
    <2>1. /\ ~(FlagIndex(value) = -1) /\ FlagIndex(value) \in Dests
          /\ ~(FlagIndex(value) \in NDests .. NDests + 3)
          /\ ~(FlagIndex(value) \in NDests + 4 .. NDests + 7)
      BY <1>1, ConfigAssumption DEF Dests
    <2>2. MarkFlag(s, value) =
            [s EXCEPT !["show_relay_switched_destination_flags"][FlagIndex(value)] = 1]
      BY <2>1, FlagMarked
    <2> QED BY <1>1, <2>2
  <1>3. [s[flags] EXCEPT ![index] = 1] =
          [d \in Dests |-> IF value % 256 = d + 1 THEN 1 ELSE Flags(s)[d]]
    BY <1>1 DEF HasFlags, Flags
  <1>4. [s EXCEPT ![flags][index] = 1] = [s EXCEPT ![flags] = [s[flags] EXCEPT ![index] = 1]]
    OBVIOUS
  <1> HIDE DEF index
  <1> QED BY <1>2, <1>3, <1>4 DEF WithFlags, With

LEMMA FoldMarks ==
  ASSUME NEW s, HasFlags(s), NEW values \in Seq(Int),
         \A i \in 1 .. Len(values) : values[i] % 256 \in Route
  PROVE  MarkFlags(s, values) =
           WithFlags(s, Marked(s, values, Len(values)))
  <1> DEFINE flags == "show_relay_switched_destination_flags"
             result(k) == WithFlags(s, Marked(s, values, k))
  <1> PICK f : MarkFlags(s, values) = f[Len(values)] /\ Marking(f, s, values)
    BY FoldSteps
  <1>1. /\ MarkFlags(s, values) = f[Len(values)]
        /\ f[0] = s
        /\ \A k \in 1 .. Len(values) : f[k] = MarkFlag(f[k - 1], values[k])
    BY DEF Marking
  <1>2. Len(values) \in Nat /\ \A i \in 1 .. Len(values) : values[i] \in Int
    OBVIOUS
  <1>3. ASSUME NEW k \in Nat
        PROVE  /\ IsRecord(result(k)) /\ Flags(result(k)) = Marked(s, values, k)
               /\ \A key \in SettingKeys : key # flags => result(k)[key] = s[key]
    BY FlagsChanged DEF HasFlags
  <1>4. result(0) = s
    <2>1. Marked(s, values, 0) = Flags(s)
      BY DEF Marked, HasFlags
    <2>2. \A key \in SettingKeys : result(0)[key] = s[key]
      <3>1. Flags(result(0)) = Flags(s)
        BY <1>3, <2>1
      <3> QED BY <1>3, <3>1 DEF Flags
    <2> HIDE DEF result
    <2> QED BY <1>3, <2>2, EqualRecords DEF HasFlags
  <1>5. ASSUME NEW k \in 1 .. Len(values), f[k - 1] = result(k - 1)
        PROVE  f[k] = result(k)
    <2> DEFINE before == result(k - 1)
               marks == [d \in Dests |->
                           IF values[k] % 256 = d + 1 THEN 1 ELSE Flags(before)[d]]
    <2>1. k - 1 \in Nat /\ k \in Nat
      BY <1>2
    <2>2. IsRecord(before) /\ Flags(before) = Marked(s, values, k - 1)
      BY <1>3, <2>1
    <2> HIDE DEF result
    <2>3. HasFlags(before)
      BY <2>2 DEF HasFlags, Marked
    <2>4. f[k] = WithFlags(before, marks)
      BY <1>1, <1>2, <1>5, <2>3, MarkFlagInRange
    <2>5. marks = Marked(s, values, k)
      <3>1. ASSUME NEW d \in Dests
            PROVE  (\E i \in 1 .. k : values[i] % 256 = d + 1)
                     <=> values[k] % 256 = d + 1 \/ \E i \in 1 .. k - 1 : values[i] % 256 = d + 1
        <4>1. \A i : i \in 1 .. k <=> i \in 1 .. k - 1 \/ i = k
          BY <2>1
        <4> QED BY <4>1
      <3> QED BY <2>2, <3>1 DEF Marked
    <2> HIDE DEF marks
    <2>6. /\ IsRecord(f[k]) /\ Flags(f[k]) = Marked(s, values, k)
          /\ \A key \in SettingKeys : key # flags => f[k][key] = before[key]
      BY <2>2, <2>4, <2>5, FlagsChanged
    <2>7. \A key \in SettingKeys : f[k][key] = result(k)[key]
      BY <1>3, <2>1, <2>6 DEF Flags
    <2> QED BY <1>3, <2>1, <2>6, <2>7, EqualRecords
  <1> HIDE DEF result
  <1> DEFINE Bad == {k \in 0 .. Len(values) : f[k] # result(k)}
  <1>6. Bad = {}
    <2>1. SUFFICES ASSUME Bad # {} PROVE FALSE
      OBVIOUS
    <2>2. PICK k \in Bad : \A m \in Bad : k <= m
      <3>1. Bad \subseteq Nat
        BY <1>2
      <3> HIDE DEF Bad
      <3> QED BY <2>1, <3>1, LeastNat
    <2>3. k # 0
      BY <1>1, <1>4
    <2>4. k \in 1 .. Len(values) /\ k - 1 \in 0 .. Len(values) /\ ~(k <= k - 1)
      BY <1>2, <2>3
    <2>5. k - 1 \notin Bad
      <3> HIDE DEF Bad
      <3> QED BY <2>2, <2>4
    <2>6. f[k - 1] = result(k - 1)
      BY <2>4, <2>5
    <2> QED BY <1>5, <2>4, <2>6
  <1>7. f[Len(values)] = result(Len(values))
    <2>1. Len(values) \in 0 .. Len(values)
      BY <1>2
    <2> QED BY <1>6, <2>1
  <1> QED BY <1>1, <1>7 DEF result

\* A line for a setting gives it a value.
LEMMA SourcesLine ==
  ASSUME NEW s, NEW line, line.key = "routing_panel_sources"
  PROVE  SettingsAfter(s, line) =
           With(s, "routing_panel_sources",
                [s["routing_panel_sources"] EXCEPT ![line.panel] = SourcesAfter(@, line.values)])
  BY DEF SettingsAfter, SingleKeys, With

LEMMA DestinationLine ==
  ASSUME NEW s, NEW line, line.key = "routing_panel_destinations"
  PROVE  SettingsAfter(s, line) =
           IF line.values = << >> THEN s
           ELSE With(s, "routing_panel_destinations",
                     [s["routing_panel_destinations"] EXCEPT ![line.panel] =
                        line.values[1] % 256])
  BY DEF SettingsAfter, SingleKeys, With

LEMMA SingleLine ==
  ASSUME NEW s, NEW line, line.key \in SingleKeys
  PROVE  SettingsAfter(s, line) =
           IF line.values = << >> THEN s ELSE With(s, line.key, line.values[1] % 256)
  BY DEF SettingsAfter, SingleKeys, With

LEMMA FlagsLine ==
  ASSUME NEW s, NEW line, line.key = "show_relay_switched_destination_flags"
  PROVE  SettingsAfter(s, line) = MarkFlags(s, line.values)
  BY DEF SettingsAfter, SingleKeys

LEMMA IpLine ==
  ASSUME NEW s, NEW line, line.key = "router_ip"
  PROVE  SettingsAfter(s, line) = With(s, "router_ip", Address(line.values))
  BY DEF SettingsAfter, SingleKeys, With

LEMMA PortLine ==
  ASSUME NEW s, NEW line, line.key = "router_port"
  PROVE  SettingsAfter(s, line) =
           IF line.values = << >> THEN s ELSE With(s, "router_port", line.values[1])
  BY DEF SettingsAfter, SingleKeys, With

LEMMA OtherLine ==
  ASSUME NEW s, NEW line, line.key \notin SettingKeys
  PROVE  SettingsAfter(s, line) = s
  BY DEF SettingsAfter, SingleKeys, SettingKeys

\* Switched destinations that are router outputs, as OthersKeepFallback asks.
InRange(line) ==
  line.key = "show_relay_switched_destination_flags"
    => \A i \in DOMAIN line.values : line.values[i] % 256 \in Route

\* A line changes no other setting.
LEMMA LineChangesOne ==
  ASSUME NEW s, HasFlags(s), NEW line \in ConfigLine, InRange(line)
  PROVE  /\ HasFlags(SettingsAfter(s, line))
         /\ \A key \in SettingKeys : key # line.key => SettingsAfter(s, line)[key] = s[key]
  <1> DEFINE after == SettingsAfter(s, line)
  <1>1. IsRecord(s)
    BY DEF HasFlags
  <1>2. ASSUME NEW x, NEW key \in SettingKeys, key # "show_relay_switched_destination_flags",
               line.key = key, after = s \/ after = With(s, key, x)
        PROVE  /\ HasFlags(after)
               /\ \A other \in SettingKeys : other # line.key => after[other] = s[other]
    <2>1. CASE after = s
      BY <2>1
    <2>2. CASE after = With(s, key, x)
      <3>1. /\ IsRecord(after)
            /\ \A other \in SettingKeys : other # key => after[other] = s[other]
        BY <1>1, <2>2, WithChanges
      <3>2. Flags(after) = Flags(s)
        BY <1>2, <3>1 DEF Flags, SettingKeys
      <3> QED BY <1>2, <3>1, <3>2 DEF HasFlags
    <2> QED BY <1>2, <2>1, <2>2
  <1>3. CASE line.key = "routing_panel_sources"
    <2>1. line.key \in SettingKeys
      BY <1>3 DEF SettingKeys
    <2> QED BY <1>2, <1>3, <2>1, SourcesLine
  <1>4. CASE line.key = "routing_panel_destinations"
    <2>1. line.key \in SettingKeys
      BY <1>4 DEF SettingKeys
    <2>2. CASE line.values = << >>
      <3>1. after = s
        BY <1>4, <2>2, DestinationLine
      <3> HIDE DEF after
      <3>2. HasFlags(after) /\ \A key \in SettingKeys : key # line.key => after[key] = s[key]
        BY <1>2, <1>4, <2>1, <3>1
      <3> QED BY <3>2 DEF after
    <2>3. CASE line.values # << >>
      <3> DEFINE x == [s["routing_panel_destinations"] EXCEPT ![line.panel] =
                         line.values[1] % 256]
      <3>1. after = With(s, "routing_panel_destinations", x)
        BY <1>4, <2>3, DestinationLine
      <3> HIDE DEF after, x
      <3>2. HasFlags(after) /\ \A key \in SettingKeys : key # line.key => after[key] = s[key]
        BY <1>2, <1>4, <2>1, <3>1
      <3> QED BY <3>2 DEF after
    <2> QED BY <2>2, <2>3
  <1>5. CASE line.key \in SingleKeys
    <2>1. line.key \in SettingKeys /\ line.key # "show_relay_switched_destination_flags"
      BY <1>5 DEF SettingKeys, SingleKeys
    <2> QED BY <1>2, <1>5, <2>1, SingleLine
  <1>6. CASE line.key = "router_ip"
    <2>1. line.key \in SettingKeys
      BY <1>6 DEF SettingKeys
    <2> QED BY <1>2, <1>6, <2>1, IpLine
  <1>7. CASE line.key = "router_port"
    <2>1. line.key \in SettingKeys
      BY <1>7 DEF SettingKeys
    <2> QED BY <1>2, <1>7, <2>1, PortLine
  <1>8. CASE line.key = "show_relay_switched_destination_flags"
    <2>1. line.values \in Seq(Int)
      BY DEF ConfigLine
    <2>2. \A i \in 1 .. Len(line.values) : line.values[i] % 256 \in Route
      BY <1>8, <2>1 DEF InRange
    <2>3. after = WithFlags(s, Marked(s, line.values, Len(line.values)))
      BY <1>8, <2>1, <2>2, FlagsLine, FoldMarks
    <2>4. /\ IsRecord(after) /\ Flags(after) = Marked(s, line.values, Len(line.values))
          /\ \A key \in SettingKeys :
               key # "show_relay_switched_destination_flags" => after[key] = s[key]
      BY <1>1, <2>3, FlagsChanged
    <2> QED BY <1>8, <2>4 DEF HasFlags, Marked
  <1>9. CASE line.key \notin SettingKeys
    BY <1>9, OtherLine
  <1> QED BY <1>3, <1>4, <1>5, <1>6, <1>7, <1>8, <1>9 DEF SettingKeys
-----------------------------------------------------------------------------
(* What a line adds to the meaning of the file.                            *)

SourcesIn(f, p) ==
  LastFor(f, "routing_panel_sources", p,
          [b \in 1 .. NButtons |-> Fallback.routing_panel_sources[p][b - 1]])

DestinationIn(f, p) ==
  LastFor(f, "routing_panel_destinations", p, << Fallback.routing_panel_destinations[p] >>)[1]

SingleIn(f, key) == LastFor(f, key, 0, << Fallback[key] >>)[1]

IpIn(f) == LastFor(f, "router_ip", 0, [o \in 1 .. 4 |-> Fallback.router_ip[o - 1]])

ListedIn(f, d) ==
  \E i \in DOMAIN f : /\ f[i].key = "show_relay_switched_destination_flags"
                      /\ d \in ToSet(f[i].values)

\* The lists of all panels, the octets and the flags.
SourcesTable(f) == [p \in Panels |-> [b \in Buttons |-> SourcesIn(f, p)[b + 1]]]

DestinationTable(f) == [p \in Panels |-> DestinationIn(f, p)]

OctetTable(f) == [o \in Octets |-> IpIn(f)[o + 1]]

FlagTable(f) == [d \in Dests |-> IF ListedIn(f, d + 1) THEN 1 ELSE 0]

LEMMA MeaningFields ==
  ASSUME NEW f
  PROVE  /\ HasFlags(Meaning(f))
         /\ Meaning(f)["routing_panel_sources"] = SourcesTable(f)
         /\ Meaning(f)["routing_panel_destinations"] = DestinationTable(f)
         /\ \A key \in SingleKeys \cup {"router_port"} : Meaning(f)[key] = SingleIn(f, key)
         /\ Flags(Meaning(f)) = FlagTable(f)
         /\ Meaning(f)["router_ip"] = OctetTable(f)
  <1> DEFINE m == Meaning(f)
  <1>1. /\ m["routing_panel_sources"] = SourcesTable(f)
        /\ m["routing_panel_destinations"] = DestinationTable(f)
        /\ m["router_ip"] = OctetTable(f)
    BY DEF Meaning, SourcesIn, DestinationIn, IpIn, SourcesTable, DestinationTable, OctetTable
  <1>2. m["show_relay_switched_destination_flags"] = FlagTable(f)
    BY DEF Meaning, ListedIn, FlagTable
  <1>3. /\ m["show_relay_main_source"] = SingleIn(f, "show_relay_main_source")
        /\ m["show_relay_ir_source"] = SingleIn(f, "show_relay_ir_source")
        /\ m["usb_source_a"] = SingleIn(f, "usb_source_a")
        /\ m["usb_source_b"] = SingleIn(f, "usb_source_b")
        /\ m["router_port"] = SingleIn(f, "router_port")
    BY DEF Meaning, SingleIn
  <1>4. IsRecord(m)
    BY DEF Meaning, IsRecord, SettingKeys, SingleKeys
  <1> HIDE DEF m
  <1>5. Flags(m) = FlagTable(f)
    BY <1>2 DEF Flags
  <1>6. HasFlags(m)
    BY <1>4, <1>5 DEF HasFlags, FlagTable
  <1> QED BY <1>1, <1>3, <1>5, <1>6 DEF m, SingleKeys

LEMMA ListedAppend ==
  ASSUME NEW read \in Seq(ConfigLine), NEW line \in ConfigLine,
         NEW more, more = Append(read, line), NEW d
  PROVE  ListedIn(more, d) <=>
           \/ ListedIn(read, d)
           \/ line.key = "show_relay_switched_destination_flags" /\ d \in ToSet(line.values)
  <1>1. /\ Len(more) = Len(read) + 1 /\ Len(read) \in Nat /\ more[Len(read) + 1] = line
        /\ \A i \in 1 .. Len(read) : more[i] = read[i]
        /\ DOMAIN more = 1 .. Len(more) /\ DOMAIN read = 1 .. Len(read)
    <2>1. more \in Seq(ConfigLine)
      BY AppendAt
    <2> QED BY <2>1, AppendAt
  <1>2. \A i : i \in DOMAIN more <=> i \in DOMAIN read \/ i = Len(read) + 1
    BY <1>1
  <1>3. \A i \in DOMAIN read : more[i] = read[i]
    BY <1>1
  <1> QED BY <1>1, <1>2, <1>3 DEF ListedIn

\* A setting that the line is not for keeps its meaning.
LEMMA MeaningOfOthers ==
  ASSUME NEW read \in Seq(ConfigLine), NEW line \in ConfigLine,
         NEW more, more = Append(read, line),
         NEW key \in SettingKeys, key # line.key
  PROVE  Meaning(more)[key] = Meaning(read)[key]
  <1>1. CASE key = "routing_panel_sources"
    <2>1. \A p : SourcesIn(more, p) = SourcesIn(read, p)
      BY <1>1, LastForAppend DEF SourcesIn
    <2>2. /\ Meaning(more)[key] = SourcesTable(more)
          /\ Meaning(read)[key] = SourcesTable(read)
      BY <1>1, MeaningFields
    <2> QED BY <2>1, <2>2 DEF SourcesTable
  <1>2. CASE key = "routing_panel_destinations"
    <2>1. \A p : DestinationIn(more, p) = DestinationIn(read, p)
      BY <1>2, LastForAppend DEF DestinationIn
    <2>2. /\ Meaning(more)[key] = DestinationTable(more)
          /\ Meaning(read)[key] = DestinationTable(read)
      BY <1>2, MeaningFields
    <2> QED BY <2>1, <2>2 DEF DestinationTable
  <1>3. CASE key \in SingleKeys \cup {"router_port"}
    <2>1. SingleIn(more, key) = SingleIn(read, key)
      BY <1>3, LastForAppend DEF SingleIn
    <2>2. Meaning(more)[key] = SingleIn(more, key) /\ Meaning(read)[key] = SingleIn(read, key)
      BY <1>3, MeaningFields
    <2> QED BY <2>1, <2>2
  <1>4. CASE key = "router_ip"
    <2>1. IpIn(more) = IpIn(read)
      BY <1>4, LastForAppend DEF IpIn
    <2>2. /\ Meaning(more)[key] = OctetTable(more)
          /\ Meaning(read)[key] = OctetTable(read)
      BY <1>4, MeaningFields
    <2> QED BY <2>1, <2>2 DEF OctetTable
  <1>5. CASE key = "show_relay_switched_destination_flags"
    <2>1. \A d : ListedIn(more, d) <=> ListedIn(read, d)
      <3>1. \A d : ListedIn(more, d) <=>
                     \/ ListedIn(read, d)
                     \/ line.key = "show_relay_switched_destination_flags"
                          /\ d \in ToSet(line.values)
        BY ListedAppend
      <3> QED BY <1>5, <3>1
    <2>2. /\ Flags(Meaning(more)) = FlagTable(more)
          /\ Flags(Meaning(read)) = FlagTable(read)
      BY MeaningFields
    <2>3. Flags(Meaning(more)) = Flags(Meaning(read))
      BY <2>1, <2>2 DEF FlagTable
    <2> QED BY <1>5, <2>3 DEF Flags
  <1> QED BY <1>1, <1>2, <1>3, <1>4, <1>5 DEF SettingKeys

\* The number of an octet, and what runs over into it.
OctetOf(values, o) == IF o < Len(values) THEN values[o + 1] ELSE 0

IsSum(sum, values) ==
  sum = [o \in Octets |-> OctetOf(values, o) + (IF o = 3 THEN 0 ELSE sum[o + 1] \div 256)]

LEMMA AddressSums ==
  ASSUME NEW values
  PROVE  \E sum : /\ Address(values) = [o \in Octets |-> sum[o] % 256]
                  /\ sum[3] = OctetOf(values, 3) + 0
                  /\ \A o \in {0, 1, 2} : sum[o] = OctetOf(values, o) + (sum[o + 1] \div 256)
  <1> DEFINE sum == CHOOSE f : IsSum(f, values)
             a3 == OctetOf(values, 3) + 0
             a2 == OctetOf(values, 2) + (a3 \div 256)
             a1 == OctetOf(values, 1) + (a2 \div 256)
             a0 == OctetOf(values, 0) + (a1 \div 256)
             all == [o \in Octets |-> IF o = 3 THEN a3 ELSE IF o = 2 THEN a2
                                      ELSE IF o = 1 THEN a1 ELSE a0]
  <1>1. Address(values) = [o \in Octets |-> sum[o] % 256]
    BY DEF Address, IsSum, OctetOf
  <1>2. /\ \A o : o \in Octets <=> o = 0 \/ o = 1 \/ o = 2 \/ o = 3
        /\ 0 + 1 = 1 /\ 1 + 1 = 2 /\ 2 + 1 = 3
    BY DEF Octets
  <1>3. all[0] = a0 /\ all[1] = a1 /\ all[2] = a2 /\ all[3] = a3
    <2> HIDE DEF a0, a1, a2, a3
    <2> QED BY <1>2
  <1>4. all = [o \in Octets |-> all[o]]
    OBVIOUS
  <1> HIDE DEF all
  <1>5. IsSum(all, values)
    <2>1. ASSUME NEW o \in Octets
          PROVE  all[o] = OctetOf(values, o) + (IF o = 3 THEN 0 ELSE all[o + 1] \div 256)
      BY <1>2, <1>3
    <2> QED BY <1>4, <2>1 DEF IsSum
  <1>6. IsSum(sum, values)
    <2> HIDE DEF a0, a1, a2, a3
    <2> QED BY <1>5
  <1> HIDE DEF sum
  <1>7. \A o \in Octets :
          sum[o] = OctetOf(values, o) + (IF o = 3 THEN 0 ELSE sum[o + 1] \div 256)
    BY <1>6 DEF IsSum
  <1>8. sum[3] = OctetOf(values, 3) + 0
    BY <1>2, <1>7
  <1>9. \A o \in {0, 1, 2} : sum[o] = OctetOf(values, o) + (sum[o + 1] \div 256)
    <2>1. \A o \in {0, 1, 2} : o \in Octets /\ o # 3
      BY <1>2
    <2> QED BY <1>7, <2>1
  <1> QED BY <1>1, <1>8, <1>9

\* Octets that fit run over into none.
LEMMA AddressOfOctets ==
  ASSUME NEW values \in Seq(Int), Len(values) = 4, ToSet(values) \subseteq Byte
  PROVE  Address(values) = [o \in Octets |-> values[o + 1]]
  <1>1. PICK sum : /\ Address(values) = [o \in Octets |-> sum[o] % 256]
                   /\ sum[3] = OctetOf(values, 3) + 0
                   /\ \A o \in {0, 1, 2} : sum[o] = OctetOf(values, o) + (sum[o + 1] \div 256)
    BY AddressSums
  <1>2. \A o \in {0, 1, 2, 3} : OctetOf(values, o) = values[o + 1] /\ values[o + 1] \in Byte
    <2>1. DOMAIN values = 1 .. 4
      OBVIOUS
    <2>2. \A i \in 1 .. 4 : values[i] \in Byte
      BY <2>1 DEF ToSet
    <2> QED BY <2>2 DEF OctetOf
  <1>3. \A v \in Byte : v + 0 = v /\ v \div 256 = 0 /\ v % 256 = v
    BY DEF Byte
  <1>4. 0 + 1 = 1 /\ 1 + 1 = 2 /\ 2 + 1 = 3 /\ 3 + 1 = 4
    OBVIOUS
  <1>5. sum[3] = values[4] /\ values[4] \in Byte
    BY <1>1, <1>2, <1>3, <1>4
  <1>6. sum[2] = values[3] /\ values[3] \in Byte
    BY <1>1, <1>2, <1>3, <1>4, <1>5
  <1>7. sum[1] = values[2] /\ values[2] \in Byte
    BY <1>1, <1>2, <1>3, <1>4, <1>6
  <1>8. sum[0] = values[1] /\ values[1] \in Byte
    BY <1>1, <1>2, <1>3, <1>4, <1>7
  <1>9. \A o \in {0, 1, 2, 3} : sum[o] = values[o + 1] /\ values[o + 1] \in Byte
    BY <1>4, <1>5, <1>6, <1>7, <1>8
  <1>10. ASSUME NEW o \in Octets PROVE sum[o] % 256 = values[o + 1]
    <2>1. sum[o] = values[o + 1] /\ values[o + 1] \in Byte
      BY <1>9 DEF Octets
    <2> QED BY <1>3, <2>1
  <1> QED BY <1>1, <1>10

\* An allowed line gives its setting the values that the file stands for with it.
LEMMA MeaningOfLine ==
  ASSUME NEW read \in Seq(ConfigLine), NEW line \in ConfigLine, Allowed(line),
         NEW more, more = Append(read, line), line.key \in SettingKeys
  PROVE  SettingsAfter(Meaning(read), line)[line.key] = Meaning(more)[line.key]
  <1> DEFINE m == Meaning(read)
             after == SettingsAfter(m, line)
  <1>1. /\ line.panel \in Panels /\ line.values \in Seq(Int) /\ Len(line.values) \in Nat
        /\ \A i \in 1 .. Len(line.values) : line.values[i] \in Int
        /\ line.key \notin {"routing_panel_sources", "routing_panel_destinations"}
             => line.panel = 0
    BY DEF ConfigLine
  <1>2. IsRecord(m) /\ HasFlags(m)
    BY MeaningFields DEF HasFlags
  <1>3. \A v \in Source : v % 256 = v
    BY ConfigAssumption DEF Source, Route
  <1>4. \A i \in 1 .. Len(line.values) : line.values[i] \in ToSet(line.values)
    BY <1>1 DEF ToSet
  <1> HIDE DEF m
  <1>5. CASE line.key = "routing_panel_sources"
    <2>1. Len(line.values) = NButtons /\ ToSet(line.values) \subseteq Source
      BY <1>5 DEF Allowed, SingleKeys
    <2>2. \A sources : SourcesAfter(sources, line.values) = [b \in Buttons |-> line.values[b + 1]]
      <3>1. \A b \in Buttons : /\ b < Len(line.values)
                               /\ line.values[b + 1] % 256 = line.values[b + 1]
        <4>1. \A b \in Buttons : b < NButtons /\ b + 1 \in 1 .. NButtons
          BY ConfigAssumption DEF Buttons
        <4>2. \A b \in Buttons : line.values[b + 1] \in Source
          BY <1>4, <2>1, <4>1
        <4> QED BY <1>3, <2>1, <4>1, <4>2
      <3> QED BY <3>1 DEF SourcesAfter
    <2>3. SourcesTable(read) = m["routing_panel_sources"]
      BY MeaningFields DEF m
    <2>4. after = With(m, "routing_panel_sources",
                       [SourcesTable(read) EXCEPT ![line.panel] = SourcesAfter(@, line.values)])
      BY <1>5, <2>3, SourcesLine
    <2>5. after["routing_panel_sources"] =
            [SourcesTable(read) EXCEPT ![line.panel] = SourcesAfter(@, line.values)]
      <3> DEFINE table == [SourcesTable(read) EXCEPT ![line.panel] = SourcesAfter(@, line.values)]
      <3> HIDE DEF after, table
      <3>1. after = With(m, "routing_panel_sources", table)
        BY <2>4 DEF table
      <3>2. "routing_panel_sources" \in SettingKeys
        BY DEF SettingKeys
      <3>3. after["routing_panel_sources"] = table
        BY <1>2, <3>1, <3>2, WithChanges
      <3> QED BY <3>3 DEF table
    <2>6. [SourcesTable(read) EXCEPT ![line.panel] = SourcesAfter(@, line.values)] =
            SourcesTable(more)
      <3>1. \A p : SourcesIn(more, p) =
                     IF line.panel = p THEN line.values ELSE SourcesIn(read, p)
        BY <1>5, LastForAppend DEF SourcesIn
      <3> DEFINE list == [b \in Buttons |-> line.values[b + 1]]
                 table == [SourcesTable(read) EXCEPT ![line.panel] = list]
      <3>2. [SourcesTable(read) EXCEPT ![line.panel] = SourcesAfter(@, line.values)] = table
        BY <2>2
      <3>3. ASSUME NEW p \in Panels PROVE table[p] = SourcesTable(more)[p]
        BY <3>1 DEF SourcesTable
      <3>4. table = [p \in Panels |-> table[p]]
        BY DEF SourcesTable
      <3>5. SourcesTable(more) = [p \in Panels |-> SourcesTable(more)[p]]
        BY DEF SourcesTable
      <3> HIDE DEF table
      <3>6. table = SourcesTable(more)
        BY <3>3, <3>4, <3>5
      <3> QED BY <3>2, <3>6
    <2>7. Meaning(more)["routing_panel_sources"] = SourcesTable(more)
      BY MeaningFields
    <2> HIDE DEF after
    <2>8. after["routing_panel_sources"] = Meaning(more)["routing_panel_sources"]
      BY <2>5, <2>6, <2>7
    <2> QED BY <1>5, <2>8 DEF after, m
  <1>6. CASE line.key = "routing_panel_destinations"
    <2>1. Len(line.values) = 1 /\ line.values[1] \in Route
      BY <1>6 DEF Allowed
    <2>2. line.values # << >> /\ line.values[1] % 256 = line.values[1]
      BY <1>3, <2>1 DEF Source
    <2>3. DestinationTable(read) = m["routing_panel_destinations"]
      BY MeaningFields DEF m
    <2>4. after = With(m, "routing_panel_destinations",
                       [DestinationTable(read) EXCEPT ![line.panel] = line.values[1]])
      BY <1>6, <2>2, <2>3, DestinationLine
    <2>5. after["routing_panel_destinations"] =
            [DestinationTable(read) EXCEPT ![line.panel] = line.values[1]]
      <3> DEFINE table == [DestinationTable(read) EXCEPT ![line.panel] = line.values[1]]
      <3> HIDE DEF after, table
      <3>1. after = With(m, "routing_panel_destinations", table)
        BY <2>4 DEF table
      <3>2. "routing_panel_destinations" \in SettingKeys
        BY DEF SettingKeys
      <3>3. after["routing_panel_destinations"] = table
        BY <1>2, <3>1, <3>2, WithChanges
      <3> QED BY <3>3 DEF table
    <2>6. [DestinationTable(read) EXCEPT ![line.panel] = line.values[1]] = DestinationTable(more)
      <3>1. \A p : DestinationIn(more, p) =
                     IF line.panel = p THEN line.values[1] ELSE DestinationIn(read, p)
        BY <1>6, LastForAppend DEF DestinationIn
      <3> QED BY <1>1, <3>1 DEF DestinationTable
    <2>7. Meaning(more)["routing_panel_destinations"] = DestinationTable(more)
      BY MeaningFields
    <2> HIDE DEF after
    <2>8. after["routing_panel_destinations"] = Meaning(more)["routing_panel_destinations"]
      BY <2>5, <2>6, <2>7
    <2> QED BY <1>6, <2>8 DEF after, m
  <1>7. CASE line.key \in SingleKeys \cup {"router_port"}
    <2>1. Len(line.values) = 1 /\ (line.key \in SingleKeys => line.values[1] \in Route)
      BY <1>7 DEF Allowed, SingleKeys
    <2>2. /\ line.values # << >> /\ line.panel = 0
          /\ line.key \in SingleKeys => line.values[1] % 256 = line.values[1]
      BY <1>1, <1>3, <1>7, <2>1 DEF Source, SingleKeys
    <2>3. after = With(m, line.key, line.values[1])
      <3>1. CASE line.key \in SingleKeys
        BY <2>2, <3>1, SingleLine
      <3>2. CASE line.key = "router_port"
        BY <2>2, <3>2, PortLine
      <3> QED BY <1>7, <3>1, <3>2
    <2>4. after[line.key] = line.values[1]
      <3> HIDE DEF after
      <3> QED BY <1>2, <2>3, WithChanges
    <2>5. SingleIn(more, line.key) = line.values[1]
      BY <2>2, LastForAppend DEF SingleIn
    <2>6. Meaning(more)[line.key] = SingleIn(more, line.key)
      BY <1>7, MeaningFields
    <2> HIDE DEF after
    <2>7. after[line.key] = Meaning(more)[line.key]
      BY <2>4, <2>5, <2>6
    <2> QED BY <2>7 DEF after, m
  <1>8. CASE line.key = "router_ip"
    <2>1. /\ Len(line.values) = 4 /\ ToSet(line.values) \subseteq Byte
          /\ line.panel = 0
      BY <1>1, <1>8 DEF Allowed, SingleKeys
    <2>2. after = With(m, "router_ip", [o \in Octets |-> line.values[o + 1]])
      <3>1. Address(line.values) = [o \in Octets |-> line.values[o + 1]]
        BY <1>1, <2>1, AddressOfOctets
      <3> QED BY <1>8, <3>1, IpLine
    <2>3. after["router_ip"] = [o \in Octets |-> line.values[o + 1]]
      <3> DEFINE octets == [o \in Octets |-> line.values[o + 1]]
      <3> HIDE DEF after, octets
      <3>1. after = With(m, "router_ip", octets)
        BY <2>2 DEF octets
      <3>2. "router_ip" \in SettingKeys
        BY DEF SettingKeys
      <3>3. after["router_ip"] = octets
        BY <1>2, <3>1, <3>2, WithChanges
      <3> QED BY <3>3 DEF octets
    <2>4. IpIn(more) = line.values
      BY <1>8, <2>1, LastForAppend DEF IpIn
    <2>5. Meaning(more)["router_ip"] = OctetTable(more)
      BY MeaningFields
    <2> HIDE DEF after
    <2>6. after["router_ip"] = Meaning(more)["router_ip"]
      BY <2>3, <2>4, <2>5 DEF OctetTable
    <2> QED BY <1>8, <2>6 DEF after, m
  <1>9. CASE line.key = "show_relay_switched_destination_flags"
    <2>1. ToSet(line.values) \subseteq Route
      BY <1>9 DEF Allowed, SingleKeys
    <2>2. \A i \in 1 .. Len(line.values) : line.values[i] % 256 = line.values[i]
                                           /\ line.values[i] % 256 \in Route
      BY <1>3, <1>4, <2>1 DEF Source
    <2>3. after = WithFlags(m, Marked(m, line.values, Len(line.values)))
      <3> DEFINE values == line.values
      <3>1. /\ values \in Seq(Int) /\ HasFlags(m)
            /\ \A i \in 1 .. Len(values) : values[i] % 256 \in Route
        BY <1>1, <1>2, <2>2
      <3> HIDE DEF values
      <3>2. MarkFlags(m, values) = WithFlags(m, Marked(m, values, Len(values)))
        BY <3>1, FoldMarks
      <3> QED BY <1>9, <3>2, FlagsLine DEF values
    <2>4. Flags(after) = Marked(m, line.values, Len(line.values))
      <3> HIDE DEF after
      <3> QED BY <1>2, <2>3, FlagsChanged
    <2>5. Flags(m) = FlagTable(read) /\ Flags(Meaning(more)) = FlagTable(more)
      BY MeaningFields DEF m
    <2>6. Marked(m, line.values, Len(line.values)) = FlagTable(more)
      <3>1. \A d : ListedIn(more, d) <=> ListedIn(read, d) \/ d \in ToSet(line.values)
        BY <1>9, ListedAppend
      <3>2. \A d : (\E i \in 1 .. Len(line.values) : line.values[i] % 256 = d)
                     <=> d \in ToSet(line.values)
        <4>1. ToSet(line.values) = {line.values[i] : i \in 1 .. Len(line.values)}
          BY <1>1 DEF ToSet
        <4> QED BY <2>2, <4>1
      <3>3. \A d \in Dests : Flags(m)[d] = IF ListedIn(read, d + 1) THEN 1 ELSE 0
        BY <2>5 DEF FlagTable
      <3> QED BY <3>1, <3>2, <3>3 DEF Marked, FlagTable
    <2> HIDE DEF after
    <2>7. Flags(after) = Flags(Meaning(more))
      BY <2>4, <2>5, <2>6
    <2> QED BY <1>9, <2>7 DEF after, m, Flags
  <1> QED BY <1>5, <1>6, <1>7, <1>8, <1>9 DEF SettingKeys
-----------------------------------------------------------------------------
LEMMA AllowedInRange == ASSUME NEW line \in ConfigLine, Allowed(line) PROVE InRange(line)
  <1> SUFFICES ASSUME line.key = "show_relay_switched_destination_flags",
                      NEW i \in DOMAIN line.values
               PROVE  line.values[i] % 256 \in Route
    BY DEF InRange
  <1>1. ToSet(line.values) \subseteq Route
    BY DEF Allowed, SingleKeys
  <1>2. line.values[i] \in Route
    BY <1>1 DEF ToSet
  <1> QED BY <1>2, ConfigAssumption DEF Route

\* Reading an allowed line is adding it to what the settings stand for.
LEMMA MeaningStep ==
  ASSUME NEW read \in Seq(ConfigLine), NEW line \in ConfigLine, Allowed(line),
         NEW more, more = Append(read, line)
  PROVE  SettingsAfter(Meaning(read), line) = Meaning(more)
  <1>1. HasFlags(Meaning(read)) /\ HasFlags(Meaning(more)) /\ InRange(line)
    BY MeaningFields, AllowedInRange
  <1>2. /\ HasFlags(SettingsAfter(Meaning(read), line))
        /\ \A key \in SettingKeys :
             key # line.key => SettingsAfter(Meaning(read), line)[key] = Meaning(read)[key]
    BY <1>1, LineChangesOne
  <1>3. \A key \in SettingKeys :
          SettingsAfter(Meaning(read), line)[key] = Meaning(more)[key]
    <2> TAKE key \in SettingKeys
    <2>1. CASE key = line.key
      BY <2>1, MeaningOfLine
    <2>2. CASE key # line.key
      BY <1>2, <2>2, MeaningOfOthers
    <2> QED BY <2>1, <2>2
  <1> QED BY <1>1, <1>2, <1>3, EqualRecords DEF HasFlags

\* An empty file stands for the fallback.
LEMMA FallbackFlags == HasFlags(Fallback)
  <1>1. IsRecord(Fallback)
    BY DEF Fallback, IsRecord, SettingKeys, SingleKeys
  <1>2. Fallback["show_relay_switched_destination_flags"] = [d \in Dests |-> 0]
    BY DEF Fallback
  <1> QED BY <1>1, <1>2 DEF HasFlags, Flags

LEMMA MeaningOfNothing == Meaning(<< >>) = Fallback
  <1>1. ASSUME NEW key, NEW panel, NEW fallback
        PROVE  LastFor(<< >>, key, panel, fallback) = fallback
    BY DEF LastFor, SelectLastInSeq
  <1>2. SourcesTable(<< >>) = Fallback["routing_panel_sources"]
    <2>1. \A p : SourcesIn(<< >>, p) =
                   [b \in 1 .. NButtons |-> Fallback.routing_panel_sources[p][b - 1]]
      BY <1>1 DEF SourcesIn
    <2>2. \A b \in Buttons : b + 1 \in 1 .. NButtons /\ b + 1 - 1 = b
      BY ConfigAssumption DEF Buttons
    <2>3. Fallback["routing_panel_sources"] = [p \in Panels |-> [b \in Buttons |-> b + 1]]
      BY DEF Fallback
    <2>4. ASSUME NEW p \in Panels, NEW b \in Buttons PROVE SourcesIn(<< >>, p)[b + 1] = b + 1
      <3> DEFINE row == Fallback.routing_panel_sources[p]
      <3>1. row[b] = b + 1
        BY <2>3
      <3> HIDE DEF row
      <3>2. SourcesIn(<< >>, p) = [c \in 1 .. NButtons |-> row[c - 1]]
        BY <2>1 DEF row
      <3> DEFINE c == b + 1
      <3>3. c \in 1 .. NButtons /\ c - 1 = b /\ c = b + 1
        BY ConfigAssumption DEF Buttons
      <3> HIDE DEF c
      <3> QED BY <3>1, <3>2, <3>3
    <2> QED BY <2>3, <2>4 DEF SourcesTable
  <1>3. DestinationTable(<< >>) = Fallback["routing_panel_destinations"]
    <2>1. \A p : DestinationIn(<< >>, p) = Fallback.routing_panel_destinations[p]
      BY <1>1 DEF DestinationIn
    <2>2. Fallback["routing_panel_destinations"] =
            [p \in Panels |-> Fallback.routing_panel_destinations[p]]
      BY DEF Fallback
    <2> QED BY <2>1, <2>2 DEF DestinationTable
  <1>4. \A key : SingleIn(<< >>, key) = Fallback[key]
    BY <1>1 DEF SingleIn
  <1>5. OctetTable(<< >>) = Fallback["router_ip"]
    <2>1. IpIn(<< >>) = [o \in 1 .. 4 |-> Fallback.router_ip[o - 1]]
      BY <1>1 DEF IpIn
    <2>2. \A o \in Octets : o + 1 \in 1 .. 4 /\ o + 1 - 1 = o
      BY DEF Octets
    <2>3. ASSUME NEW o \in Octets PROVE IpIn(<< >>)[o + 1] = Fallback.router_ip[o]
      <3> DEFINE ip == Fallback.router_ip
      <3> HIDE DEF ip
      <3>1. IpIn(<< >>) = [i \in 1 .. 4 |-> ip[i - 1]]
        BY <2>1 DEF ip
      <3> DEFINE i == o + 1
      <3>2. i \in 1 .. 4 /\ i - 1 = o /\ i = o + 1
        BY DEF Octets
      <3> HIDE DEF i
      <3>3. IpIn(<< >>)[o + 1] = ip[o]
        BY <3>1, <3>2
      <3> QED BY <3>3 DEF ip
    <2>4. Fallback["router_ip"] = [o \in Octets |-> Fallback.router_ip[o]]
      BY DEF Fallback
    <2> QED BY <2>3, <2>4 DEF OctetTable
  <1>6. FlagTable(<< >>) = Flags(Fallback)
    BY DEF FlagTable, ListedIn, Flags, Fallback
  <1>7. \A key \in SettingKeys : Meaning(<< >>)[key] = Fallback[key]
    BY <1>2, <1>3, <1>4, <1>5, <1>6, MeaningFields DEF SettingKeys, Flags
  <1> QED BY <1>7, MeaningFields, FallbackFlags, EqualRecords DEF HasFlags
-----------------------------------------------------------------------------
(* What has been read of the file.                                         *)

AllAllowed == \A i \in DOMAIN file : Allowed(file[i])

AllInRange == \A i \in DOMAIN file : InRange(file[i])

Named(f, key) == \E i \in DOMAIN f : f[i].key = key

\* The settings are those of the lines read so far.
ReadSoFar(read) ==
  /\ file = read \o lines
  /\ AllAllowed => settings = Meaning(read)
  /\ AllInRange => /\ HasFlags(settings)
                   /\ \A key \in SettingKeys : Named(read, key) \/ settings[key] = Fallback[key]

FileInv ==
  /\ lines \in Seq(ConfigLine)
  /\ card # "file" => file = << >>
  /\ pc \in {"start", "card"} => lines = file /\ settings = Fallback
  /\ pc \notin {"start", "card", "read", "crashed"} => lines = << >>
  /\ AllAllowed => pc # "crashed"
  /\ \E read \in Seq(ConfigLine) : ReadSoFar(read)

LEMMA InitFileInv == Init => FileInv
  <1> SUFFICES ASSUME Init PROVE FileInv
    OBVIOUS
  <1>1. file \in Seq(ConfigLine) /\ (card # "file" => file = << >>)
    <2>1. CASE card = "file"
      BY <2>1, FilesAssumption DEF Init
    <2>2. CASE card # "file"
      <3>1. file \in {<< >>}
        BY <2>2 DEF Init
      <3> QED BY <2>2, <3>1
    <2> QED BY <2>1, <2>2
  <1>2. lines = file /\ settings = Fallback /\ pc = "start"
    BY DEF Init
  <1>3. << >> \in Seq(ConfigLine) /\ file = << >> \o lines
    BY <1>1, <1>2
  <1>4. ReadSoFar(<< >>)
    BY <1>2, <1>3, MeaningOfNothing, FallbackFlags DEF ReadSoFar
  <1> QED BY <1>1, <1>2, <1>3, <1>4 DEF FileInv

\* The next line of the file.
LEMMA NextLine ==
  ASSUME NEW read \in Seq(ConfigLine), lines \in Seq(ConfigLine), lines # << >>,
         file = read \o lines
  PROVE  /\ Head(lines) \in ConfigLine /\ Tail(lines) \in Seq(ConfigLine)
         /\ Append(read, Head(lines)) \in Seq(ConfigLine)
         /\ file = Append(read, Head(lines)) \o Tail(lines)
         /\ \E i \in DOMAIN file : file[i] = Head(lines)
  <1>1. /\ Head(lines) \in ConfigLine /\ Tail(lines) \in Seq(ConfigLine)
        /\ Append(read, Head(lines)) \in Seq(ConfigLine)
    OBVIOUS
  <1>2. file = Append(read, Head(lines)) \o Tail(lines)
    OBVIOUS
  <1>3. Len(read) + 1 \in DOMAIN file /\ file[Len(read) + 1] = Head(lines)
    OBVIOUS
  <1> QED BY <1>1, <1>2, <1>3

LEMMA ReadLineKeepsFileInv == ASSUME FileInv, ReadLine PROVE FileInv'
  <1> PICK line : line = Head(lines)
    OBVIOUS
  <1>1. PICK read \in Seq(ConfigLine) : ReadSoFar(read)
    BY DEF FileInv
  <1> PICK more : more = Append(read, line)
    OBVIOUS
  <1>2. /\ pc = "read" /\ lines # << >> /\ UNCHANGED << card, file, pc >>
        /\ settings' = SettingsAfter(settings, line) /\ lines' = Tail(lines)
    BY DEF ReadLine
  <1>3. lines \in Seq(ConfigLine) /\ file = read \o lines
    BY <1>1 DEF FileInv, ReadSoFar
  <1>4. /\ line \in ConfigLine /\ lines' \in Seq(ConfigLine) /\ more \in Seq(ConfigLine)
        /\ file' = more \o lines' /\ \E i \in DOMAIN file : file[i] = line
    BY <1>2, <1>3, NextLine
  <1>5. AllAllowed' => settings' = Meaning(more)
    <2> SUFFICES ASSUME AllAllowed' PROVE settings' = Meaning(more)
      OBVIOUS
    <2>1. AllAllowed /\ Allowed(line)
      BY <1>2, <1>4 DEF AllAllowed
    <2>2. settings = Meaning(read)
      BY <1>1, <2>1 DEF ReadSoFar
    <2> QED BY <1>2, <1>4, <2>1, <2>2, MeaningStep
  <1>6. AllInRange' => /\ HasFlags(settings')
                       /\ \A key \in SettingKeys :
                            Named(more, key) \/ settings'[key] = Fallback[key]
    <2> SUFFICES ASSUME AllInRange'
                 PROVE  /\ HasFlags(settings')
                        /\ \A key \in SettingKeys :
                             Named(more, key) \/ settings'[key] = Fallback[key]
      OBVIOUS
    <2>1. AllInRange /\ InRange(line)
      BY <1>2, <1>4 DEF AllInRange
    <2>2. /\ HasFlags(settings)
          /\ \A key \in SettingKeys : Named(read, key) \/ settings[key] = Fallback[key]
      BY <1>1, <2>1 DEF ReadSoFar
    <2>3. /\ HasFlags(settings')
          /\ \A key \in SettingKeys : key # line.key => settings'[key] = settings[key]
      BY <1>2, <1>4, <2>1, <2>2, LineChangesOne
    <2>4. \A key : Named(read, key) \/ line.key = key => Named(more, key)
      <3>1. /\ \A i \in DOMAIN read : i \in DOMAIN more /\ more[i] = read[i]
            /\ Len(read) + 1 \in DOMAIN more /\ more[Len(read) + 1] = line
        BY <1>4
      <3> QED BY <3>1 DEF Named
    <2> QED BY <2>2, <2>3, <2>4
  <1>7. ReadSoFar(more)'
    BY <1>4, <1>5, <1>6 DEF ReadSoFar
  <1> QED BY <1>2, <1>4, <1>7 DEF FileInv, AllAllowed

\* Only a line that the file does not allow makes the controller restart.
LEMMA CrashKeepsFileInv == ASSUME FileInv, Crash PROVE FileInv'
  <1> DEFINE line == Head(lines)
  <1>1. PICK read \in Seq(ConfigLine) : ReadSoFar(read)
    BY DEF FileInv
  <1>2. /\ pc = "read" /\ lines # << >> /\ UNCHANGED << card, file, lines, settings >>
        /\ \/ ReadsNull(line)
           \/ /\ line.key = "show_relay_switched_destination_flags"
              /\ \E value \in ToSet(line.values) : BeyondStruct(value)
        /\ pc' = "crashed"
    BY DEF Crash, fileVars
  <1>3. lines \in Seq(ConfigLine) /\ file = read \o lines
    BY <1>1 DEF FileInv, ReadSoFar
  <1>4. line \in ConfigLine /\ \E i \in DOMAIN file : file[i] = line
    BY <1>2, <1>3, NextLine
  <1> HIDE DEF line
  <1>5. ~Allowed(line)
    <2>1. CASE line.key = "="
      BY <2>1 DEF Allowed, SingleKeys
    <2>2. CASE line.key = "routing_panel_destinations" /\ line.values = << >>
      BY <2>2 DEF Allowed
    <2>3. CASE /\ line.key = "show_relay_switched_destination_flags"
               /\ \E value \in ToSet(line.values) : BeyondStruct(value)
      <3>1. \A value \in Route : ~BeyondStruct(value)
        BY ConfigAssumption DEF Route, BeyondStruct, FlagIndex
      <3> QED BY <2>3, <3>1 DEF Allowed, SingleKeys
    <2> QED BY <1>2, <2>1, <2>2, <2>3 DEF ReadsNull
  <1>6. ~AllAllowed'
    BY <1>2, <1>4, <1>5 DEF AllAllowed
  <1> QED BY <1>1, <1>2, <1>6 DEF FileInv, ReadSoFar, AllAllowed, AllInRange

\* Nothing else reads the file or changes the settings.
LEMMA FileUnchanged ==
  ASSUME FileInv, UNCHANGED << card, file, lines >>,
         settings' = settings \/ (pc = "start" /\ settings' = Fallback),
         pc' = pc \/ pc' \notin {"start", "crashed"},
         pc' = "card" => pc \in {"start", "card"},
         pc' # pc /\ pc' \notin {"card", "read"} => lines = << >>
  PROVE  FileInv'
  <1>1. settings' = settings
    BY DEF FileInv
  <1>2. PICK read \in Seq(ConfigLine) : ReadSoFar(read)
    BY DEF FileInv
  <1>3. ReadSoFar(read)'
    BY <1>1, <1>2 DEF ReadSoFar, AllAllowed, AllInRange
  <1> QED BY <1>1, <1>3 DEF FileInv, AllAllowed

LEMMA NextFileInv == FileInv /\ [Next]_vars => FileInv'
  <1> SUFFICES ASSUME FileInv, [Next]_vars PROVE FileInv'
    OBVIOUS
  <1>1. CASE CreateInputQueue
    BY <1>1, FileUnchanged DEF CreateInputQueue
  <1>2. CASE OpenFile
    BY <1>2, AfterSteps, FileUnchanged DEF OpenFile, fileVars, FileInv
  <1>3. CASE ReadLine
    BY <1>3, ReadLineKeepsFileInv
  <1>4. CASE Crash
    BY <1>4, CrashKeepsFileInv
  <1>5. CASE EndOfFile \/ CreateQueues \/ StartDriver \/ SetupLocalIo
    <2>1. /\ UNCHANGED fileVars /\ pc' \in {"ethernet", "driver", "io", "wait"}
          /\ pc \in {"read", "ethernet", "driver", "io"} /\ (pc = "read" => lines = << >>)
      BY <1>5, AfterSteps DEF EndOfFile, CreateQueues, StartDriver, SetupLocalIo
    <2> QED BY <2>1, FileUnchanged DEF fileVars, FileInv
  <1>6. CASE CheckFirst \/ CheckSecond
    <2>1. UNCHANGED fileVars /\ pc' \in {"check", "test", "logic"} /\ pc \in {"wait", "check"}
      BY <1>6 DEF CheckFirst, CheckSecond, StartLogic
    <2> QED BY <2>1, FileUnchanged DEF fileVars, FileInv
  <1>7. CASE \/ PollTask \/ Tick \/ (\E panel \in TestPanels : Touch(panel)) \/ SwitchSupply
             \/ UNCHANGED vars
    <2>1. UNCHANGED << fileVars, pc >>
      BY <1>7 DEF PollTask, Round, SupplyIsOn, SupplyIsOff, SetUpExpanders, Tick, Touch,
                  SwitchSupply, vars
    <2> QED BY <2>1, FileUnchanged DEF fileVars
  <1> QED BY <1>1, <1>2, <1>3, <1>4, <1>5, <1>6, <1>7 DEF Next, AppMain

\* A file of allowed lines, however long, is read to its end, and every setting has
\* the values of its last line, or its fallback.
THEOREM SettingsMeanFile == Spec => []SettingsMatchFile
  <1>1. FileInv => SettingsMatchFile
    <2> SUFFICES ASSUME FileInv, AllAllowed
                 PROVE  /\ pc # "crashed"
                        /\ pc \notin {"start", "card", "read"} => settings = Meaning(file)
      BY DEF SettingsMatchFile, AllAllowed
    <2>1. PICK read \in Seq(ConfigLine) : ReadSoFar(read)
      BY DEF FileInv
    <2>2. pc # "crashed"
      BY DEF FileInv
    <2>3. lines = << >> => file = read
      BY <2>1 DEF ReadSoFar
    <2> QED BY <2>1, <2>2, <2>3 DEF FileInv, ReadSoFar
  <1> QED BY InitFileInv, NextFileInv, <1>1, PTL DEF Spec

\* A setting without a line keeps its fallback whatever is wrong with the lines of
\* the others, as long as the switched destinations are router outputs.
THEOREM FallbackKept == Spec => []OthersKeepFallback
  <1>1. FileInv => OthersKeepFallback
    <2> SUFFICES ASSUME FileInv, AllInRange, NEW key \in DOMAIN settings
                 PROVE  Named(file, key) \/ settings[key] = Fallback[key]
      BY DEF OthersKeepFallback, AllInRange, InRange, Named
    <2>1. PICK read \in Seq(ConfigLine) : ReadSoFar(read)
      BY DEF FileInv
    <2>2. key \in SettingKeys
      BY <2>1 DEF ReadSoFar, HasFlags, IsRecord
    <2>3. Named(read, key) \/ settings[key] = Fallback[key]
      BY <2>1, <2>2 DEF ReadSoFar
    <2>4. Named(read, key) => Named(file, key)
      <3>1. file = read \o lines /\ lines \in Seq(ConfigLine)
        BY <2>1 DEF ReadSoFar, FileInv
      <3>2. \A i \in DOMAIN read : i \in DOMAIN file /\ file[i] = read[i]
        BY <3>1
      <3> QED BY <3>2 DEF Named
    <2> QED BY <2>3, <2>4
  <1> QED BY InitFileInv, NextFileInv, <1>1, PTL DEF Spec
-----------------------------------------------------------------------------
(* Types of the settings, whatever the values of the lines are.            *)

\* A flag far behind the others is written into the address or the port.
LEMMA PortByte ==
  ASSUME NEW port \in Nat, NEW byte \in {1, 256, 65536, 16777216}
  PROVE  port - ((port \div byte) % 256) * byte + byte \in Nat
  <1>1. ASSUME NEW q \in Nat PROVE q % 256 \in Nat /\ q % 256 <= q
    OBVIOUS
  <1>2. CASE byte = 1
    <2>1. port \div 1 = port
      OBVIOUS
    <2> QED BY <1>1, <1>2, <2>1
  <1>3. CASE byte = 256
    <2>1. port \div 256 \in Nat /\ (port \div 256) * 256 <= port
      OBVIOUS
    <2> QED BY <1>1, <1>3, <2>1
  <1>4. CASE byte = 65536
    <2>1. port \div 65536 \in Nat /\ (port \div 65536) * 65536 <= port
      OBVIOUS
    <2> QED BY <1>1, <1>4, <2>1
  <1>5. CASE byte = 16777216
    <2>1. port \div 16777216 \in Nat /\ (port \div 16777216) * 16777216 <= port
      OBVIOUS
    <2> QED BY <1>1, <1>5, <2>1
  <1> QED BY <1>2, <1>3, <1>4, <1>5

LEMMA MarkFlagType ==
  ASSUME NEW s \in Settings, NEW value \in Int
  PROVE  MarkFlag(s, value) \in Settings
  <1> DEFINE index == FlagIndex(value)
             byte == << 1, 256, 65536, 16777216 >>[index - NDests - 3]
  <1>1. index \in Int /\ NDests \in Int
    BY ConfigAssumption DEF FlagIndex
  <1>2. CASE index = -1
    <2>1. /\ index \notin Dests /\ index \notin NDests .. NDests + 3
          /\ index \notin NDests + 4 .. NDests + 7
      BY <1>2, ConfigAssumption DEF Dests
    <2>2. MarkFlag(s, value) = [s EXCEPT !.usb_source_b = 1]
      BY <1>2, <2>1 DEF MarkFlag
    <2>3. 1 \in Byte
      BY DEF Byte
    <2> QED BY <2>2, <2>3 DEF Settings
  <1>3. CASE index \in Dests
    <2>1. index # -1
      BY <1>3, ConfigAssumption DEF Dests
    <2>2. MarkFlag(s, value) = [s EXCEPT !.show_relay_switched_destination_flags[index] = 1]
      BY <1>3, <2>1, ConfigAssumption DEF MarkFlag, Dests
    <2> QED BY <1>3, <2>2 DEF Settings
  <1>4. CASE index \in NDests .. NDests + 3
    <2>1. index # -1 /\ index \notin Dests /\ index \notin NDests + 4 .. NDests + 7
      BY <1>1, <1>4, ConfigAssumption DEF Dests
    <2>2. MarkFlag(s, value) = [s EXCEPT !.router_ip[3 - (index - NDests)] = 1]
      BY <1>4, <2>1 DEF MarkFlag
    <2> DEFINE ip == [s.router_ip EXCEPT ![3 - (index - NDests)] = 1]
    <2>3. ip \in [Octets -> Byte]
      <3>1. s.router_ip \in [Octets -> Byte] /\ 1 \in Byte
        BY DEF Settings, Byte
      <3> QED BY <3>1
    <2>4. MarkFlag(s, value) = [s EXCEPT !.router_ip = ip]
      BY <2>2
    <2> HIDE DEF ip
    <2> QED BY <2>3, <2>4 DEF Settings
  <1>5. CASE index \in NDests + 4 .. NDests + 7
    <2>1. /\ index # -1 /\ index \notin Dests /\ index \notin NDests .. NDests + 3
          /\ index - NDests - 3 \in {1, 2, 3, 4}
      BY <1>1, <1>5, ConfigAssumption DEF Dests
    <2>2. MarkFlag(s, value) =
            [s EXCEPT !.router_port = @ - ((@ \div byte) % 256) * byte + byte]
      BY <1>5, <2>1 DEF MarkFlag
    <2>3. byte \in {1, 256, 65536, 16777216}
      BY <2>1
    <2>4. s.router_port \in Nat
      BY DEF Settings
    <2> HIDE DEF byte
    <2> DEFINE port == s.router_port - ((s.router_port \div byte) % 256) * byte + byte
    <2>5. port \in Nat
      BY <2>3, <2>4, PortByte
    <2>6. MarkFlag(s, value) = [s EXCEPT !.router_port = port]
      BY <2>2
    <2> HIDE DEF port
    <2> QED BY <2>5, <2>6 DEF Settings
  <1>6. CASE /\ index # -1 /\ index \notin Dests /\ index \notin NDests .. NDests + 3
             /\ index \notin NDests + 4 .. NDests + 7
    <2>1. MarkFlag(s, value) = s
      BY <1>6 DEF MarkFlag
    <2> QED BY <2>1
  <1> QED BY <1>2, <1>3, <1>4, <1>5, <1>6

LEMMA MarkFlagsType ==
  ASSUME NEW s, s \in Settings, NEW values \in Seq(Int)
  PROVE  MarkFlags(s, values) \in Settings
  <1> PICK f : MarkFlags(s, values) = f[Len(values)] /\ Marking(f, s, values)
    BY FoldSteps
  <1>1. /\ MarkFlags(s, values) = f[Len(values)]
        /\ f[0] = s
        /\ \A k \in 1 .. Len(values) : f[k] = MarkFlag(f[k - 1], values[k])
    BY DEF Marking
  <1>2. Len(values) \in Nat /\ \A i \in 1 .. Len(values) : values[i] \in Int
    OBVIOUS
  <1> DEFINE Bad == {k \in 0 .. Len(values) : f[k] \notin Settings}
  <1>3. Bad = {}
    <2>1. SUFFICES ASSUME Bad # {} PROVE FALSE
      OBVIOUS
    <2>2. PICK k \in Bad : \A m \in Bad : k <= m
      <3>1. Bad \subseteq Nat
        BY <1>2
      <3> HIDE DEF Bad
      <3> QED BY <2>1, <3>1, LeastNat
    <2>3. k # 0
      BY <1>1
    <2>4. k \in 1 .. Len(values) /\ k - 1 \in 0 .. Len(values) /\ ~(k <= k - 1)
      BY <1>2, <2>3
    <2>5. k - 1 \notin Bad
      <3> HIDE DEF Bad
      <3> QED BY <2>2, <2>4
    <2>6. f[k - 1] \in Settings
      BY <2>4, <2>5
    <2>7. f[k] \in Settings
      BY <1>1, <1>2, <2>4, <2>6, MarkFlagType
    <2> QED BY <2>7
  <1>4. Len(values) \in 0 .. Len(values)
    BY <1>2
  <1> QED BY <1>1, <1>3, <1>4

LEMMA AddressType ==
  ASSUME NEW values \in Seq(Int) PROVE Address(values) \in [Octets -> Byte]
  <1>1. PICK sum : /\ Address(values) = [o \in Octets |-> sum[o] % 256]
                   /\ sum[3] = OctetOf(values, 3) + 0
                   /\ \A o \in {0, 1, 2} : sum[o] = OctetOf(values, o) + (sum[o + 1] \div 256)
    BY AddressSums
  <1>2. \A o \in {0, 1, 2, 3} : OctetOf(values, o) \in Int
    <2>1. \A o \in {0, 1, 2, 3} : o < Len(values) => values[o + 1] \in Int
      OBVIOUS
    <2> QED BY <2>1 DEF OctetOf
  <1>3. ASSUME NEW o \in {0, 1, 2}, sum[o + 1] \in Int PROVE sum[o] \in Int
    <2>1. sum[o] = OctetOf(values, o) + (sum[o + 1] \div 256)
      BY <1>1
    <2>2. OctetOf(values, o) \in Int
      BY <1>2
    <2>3. sum[o + 1] \div 256 \in Int
      BY <1>3
    <2> QED BY <2>1, <2>2, <2>3
  <1>4. sum[3] \in Int
    BY <1>1, <1>2
  <1>5. sum[2] \in Int
    <2>1. sum[2 + 1] \in Int
      BY <1>4
    <2> QED BY <1>3, <2>1
  <1>6. sum[1] \in Int
    <2>1. sum[1 + 1] \in Int
      BY <1>5
    <2> QED BY <1>3, <2>1
  <1>7. sum[0] \in Int
    <2>1. sum[0 + 1] \in Int
      BY <1>6
    <2> QED BY <1>3, <2>1
  <1>8. \A o \in Octets : sum[o] \in Int
    BY <1>4, <1>5, <1>6, <1>7 DEF Octets
  <1>9. ASSUME NEW o \in Octets PROVE sum[o] % 256 \in Byte
    <2>1. sum[o] \in Int
      BY <1>8
    <2>2. \A v \in Int : v % 256 \in Byte
      BY DEF Byte
    <2> QED BY <2>1, <2>2
  <1> QED BY <1>1, <1>9

LEMMA SettingsAfterType ==
  ASSUME NEW s \in Settings, NEW line \in ConfigLine
  PROVE  SettingsAfter(s, line) \in Settings
  <1> DEFINE after == SettingsAfter(s, line)
  <1>1. /\ line.panel \in Panels /\ line.values \in Seq(Int)
        /\ \A i \in 1 .. Len(line.values) : line.values[i] \in Int
        /\ line.key = "router_port" => line.values \in Seq(Nat)
    BY DEF ConfigLine
  <1>2. \A v \in Int : v % 256 \in Byte
    BY DEF Byte
  <1>3. line.values # << >> => line.values[1] \in Int
    BY <1>1
  <1>4. CASE line.key = "routing_panel_sources"
    <2> DEFINE list == SourcesAfter(s.routing_panel_sources[line.panel], line.values)
    <2>1. after = [s EXCEPT !.routing_panel_sources[line.panel] = list]
      BY <1>4 DEF SettingsAfter, SingleKeys
    <2>2. list \in [Buttons -> Byte]
      <3>1. s.routing_panel_sources[line.panel] \in [Buttons -> Byte]
        BY <1>1 DEF Settings
      <3>2. \A b \in Buttons : b < Len(line.values) => b + 1 \in 1 .. Len(line.values)
        BY <1>1 DEF Buttons
      <3>3. \A b \in Buttons : b < Len(line.values) => line.values[b + 1] % 256 \in Byte
        BY <1>1, <1>2, <3>2
      <3> QED BY <3>1, <3>3 DEF SourcesAfter
    <2> HIDE DEF list
    <2> DEFINE table == [s.routing_panel_sources EXCEPT ![line.panel] = list]
    <2>3. table \in [Panels -> [Buttons -> Byte]]
      <3>1. s.routing_panel_sources \in [Panels -> [Buttons -> Byte]]
        BY DEF Settings
      <3> QED BY <2>2, <3>1
    <2>4. after = [s EXCEPT !.routing_panel_sources = table]
      BY <2>1
    <2> HIDE DEF after, table
    <2>5. after \in Settings
      BY <2>3, <2>4 DEF Settings
    <2> QED BY <2>5 DEF after
  <1>5. CASE line.key = "routing_panel_destinations"
    <2>1. CASE line.values = << >>
      BY <1>5, <2>1, DestinationLine
    <2>2. CASE line.values # << >>
      <3> DEFINE dest == line.values[1] % 256
      <3>1. after = [s EXCEPT !.routing_panel_destinations[line.panel] = dest]
        BY <1>5, <2>2 DEF SettingsAfter, SingleKeys
      <3>2. dest \in Byte
        BY <1>2, <1>3, <2>2
      <3> HIDE DEF dest
      <3> DEFINE table == [s.routing_panel_destinations EXCEPT ![line.panel] = dest]
      <3>3. table \in [Panels -> Byte]
        <4>1. s.routing_panel_destinations \in [Panels -> Byte]
          BY DEF Settings
        <4> QED BY <3>2, <4>1
      <3>4. after = [s EXCEPT !.routing_panel_destinations = table]
        BY <3>1
      <3> HIDE DEF after, table
      <3>5. after \in Settings
        BY <3>3, <3>4 DEF Settings
      <3> QED BY <3>5 DEF after
    <2> QED BY <2>1, <2>2
  <1>6. CASE line.key \in SingleKeys
    <2>1. CASE line.values = << >>
      BY <1>6, <2>1, SingleLine
    <2>2. CASE line.values # << >>
      <3> DEFINE source == line.values[1] % 256
      <3>1. after = [s EXCEPT ![line.key] = source]
        BY <1>6, <2>2, SingleLine DEF With
      <3>2. source \in Byte
        BY <1>2, <1>3, <2>2
      <3> HIDE DEF source
      <3> QED BY <1>6, <3>1, <3>2 DEF Settings, SingleKeys
    <2> QED BY <2>1, <2>2
  <1>7. CASE line.key = "show_relay_switched_destination_flags"
    BY <1>1, <1>7, FlagsLine, MarkFlagsType
  <1>8. CASE line.key = "router_ip"
    <2> DEFINE ip == Address(line.values)
    <2>1. after = [s EXCEPT !.router_ip = ip]
      BY <1>8 DEF SettingsAfter, SingleKeys
    <2>2. ip \in [Octets -> Byte]
      BY <1>1, AddressType
    <2> HIDE DEF ip
    <2> QED BY <2>1, <2>2 DEF Settings
  <1>9. CASE line.key = "router_port"
    <2>1. CASE line.values = << >>
      BY <1>9, <2>1, PortLine
    <2>2. CASE line.values # << >>
      <3>1. after = [s EXCEPT !.router_port = line.values[1]]
        BY <1>9, <2>2 DEF SettingsAfter, SingleKeys
      <3>2. line.values[1] \in Nat
        BY <1>1, <1>9, <2>2
      <3> QED BY <3>1, <3>2 DEF Settings
    <2> QED BY <2>1, <2>2
  <1>10. CASE line.key \notin SettingKeys
    BY <1>10, OtherLine
  <1> QED BY <1>4, <1>5, <1>6, <1>7, <1>8, <1>9, <1>10 DEF SettingKeys
-----------------------------------------------------------------------------
\* What is left of the file is its end.
LEMMA RestIsSuffix ==
  ASSUME NEW read \in Seq(ConfigLine), lines \in Seq(ConfigLine), file = read \o lines
  PROVE  IsSuffix(lines, file)
  <1> DEFINE short == Reverse(lines)
             long == Reverse(file)
  <1>1. /\ file \in Seq(ConfigLine) /\ Len(file) = Len(read) + Len(lines)
        /\ Len(read) \in Nat /\ Len(lines) \in Nat /\ Len(file) \in Nat
    OBVIOUS
  <1>2. /\ short = [i \in 1 .. Len(lines) |-> lines[(Len(lines) - i) + 1]]
        /\ long = [i \in 1 .. Len(file) |-> file[(Len(file) - i) + 1]]
    BY DEF Reverse
  <1>3. ASSUME NEW i \in 1 .. Len(lines)
        PROVE  /\ short[i] \in ConfigLine /\ short[i] = long[i]
    <2> DEFINE place == (Len(lines) - i) + 1
    <2>1. place \in 1 .. Len(lines) /\ (Len(file) - i) + 1 = Len(read) + place
          /\ i \in 1 .. Len(file)
      BY <1>1
    <2> HIDE DEF place
    <2>2. file[Len(read) + place] = lines[place] /\ lines[place] \in ConfigLine
      BY <2>1
    <2>3. short[i] = lines[place] /\ long[i] = file[Len(read) + place]
      BY <1>2, <2>1 DEF place
    <2> QED BY <2>2, <2>3
  <1>4. \A i \in 1 .. Len(file) : long[i] \in ConfigLine
    <2> TAKE i \in 1 .. Len(file)
    <2>1. (Len(file) - i) + 1 \in 1 .. Len(file)
      BY <1>1
    <2> QED BY <1>1, <1>2, <2>1
  <1>5. short \in Seq(ConfigLine) /\ Len(short) = Len(lines)
    BY <1>1, <1>2, <1>3
  <1>6. long \in Seq(ConfigLine) /\ Len(long) = Len(file)
    BY <1>1, <1>2, <1>4
  <1> HIDE DEF short, long
  <1>7. SubSeq(short, 1, Len(short)) = SubSeq(long, 1, Len(short))
    BY <1>1, <1>3, <1>5, <1>6
  <1>8. Len(short) <= Len(long)
    BY <1>1, <1>5, <1>6
  <1> QED BY <1>7, <1>8 DEF IsSuffix, IsPrefix, short, long

\* The rest of TypeOK, in parts.
FileTypes ==
  card \in {"none", "no file", "file"} /\ (card = "file" => file \in Files) /\ settings \in Settings

MainTypes ==
  /\ pc \in {"start", "card", "read", "ethernet", "driver", "io", "wait", "check", "test",
             "logic", "crashed"}
  /\ wake \in 0 .. BOOT_WAIT

PollTypes ==
  /\ poll \in {"none", "look", "psu"} /\ due \in 0 .. PsuWait \cup 0 .. RefreshWait + 1
  /\ board_live_i2c_setup \in BOOLEAN

CountTypes == input_state_counts \in [TestPanels -> Byte]

BufferTypes == input_debounced_buffer \in [TestPanels -> 0 .. 2]

PeopleTypes ==
  /\ supply \in BOOLEAN /\ held \in [TestPanels -> 0 .. 2]
  /\ touches \in 0 .. MaxTouches
  /\ steady \in BOOLEAN /\ pressed \subseteq TestPanels

Types == FileTypes /\ MainTypes /\ PollTypes /\ CountTypes /\ BufferTypes /\ PeopleTypes

TypeInv == FileInv /\ Types

LEMMA TypesUnchanged ==
  ASSUME Types
  PROVE  /\ UNCHANGED << card, file, settings >> => FileTypes'
         /\ UNCHANGED << pc, wake >> => MainTypes'
         /\ UNCHANGED << poll, due, board_live_i2c_setup >> => PollTypes'
         /\ UNCHANGED input_state_counts => CountTypes'
         /\ UNCHANGED input_debounced_buffer => BufferTypes'
         /\ UNCHANGED people => PeopleTypes'
  <1>1. UNCHANGED << card, file, settings >> => FileTypes'
    BY DEF Types, FileTypes
  <1>2. UNCHANGED << pc, wake >> => MainTypes'
    BY DEF Types, MainTypes
  <1>3. UNCHANGED << poll, due, board_live_i2c_setup >> => PollTypes'
    BY DEF Types, PollTypes, PsuWait, RefreshWait
  <1>4. UNCHANGED input_state_counts => CountTypes'
    BY DEF Types, CountTypes
  <1>5. UNCHANGED input_debounced_buffer => BufferTypes'
    BY DEF Types, BufferTypes
  <1>6. UNCHANGED people => PeopleTypes'
    BY DEF Types, PeopleTypes, people
  <1> QED BY <1>1, <1>2, <1>3, <1>4, <1>5, <1>6

LEMMA FallbackType == Fallback \in Settings
  <1>1. /\ \A p \in Panels : p + 1 \in Byte
        /\ \A b \in Buttons : b + 1 \in Byte
        /\ 1 \in Byte /\ 2 \in Byte /\ 3 \in Byte /\ 4 \in Byte
    <2>1. \A p \in Panels : p + 1 \in Byte
      BY ConfigAssumption DEF Panels, Byte
    <2>2. \A b \in Buttons : b + 1 \in Byte
      BY ConfigAssumption DEF Buttons, Byte
    <2>3. 1 \in Byte /\ 2 \in Byte /\ 3 \in Byte /\ 4 \in Byte
      BY DEF Byte
    <2> QED BY <2>1, <2>2, <2>3
  <1>2. \A o \in Octets : << 192, 168, 11, 41 >>[o + 1] \in Byte
    <2>1. << 192, 168, 11, 41 >>[0 + 1] \in Byte /\ << 192, 168, 11, 41 >>[1 + 1] \in Byte
      BY DEF Byte
    <2>2. << 192, 168, 11, 41 >>[2 + 1] \in Byte /\ << 192, 168, 11, 41 >>[3 + 1] \in Byte
      BY DEF Byte
    <2> QED BY <2>1, <2>2 DEF Octets
  <1> QED BY <1>1, <1>2 DEF Fallback, Settings

LEMMA InitTypes == Init => Types
  <1> SUFFICES ASSUME Init PROVE Types
    OBVIOUS
  <1>1. FileTypes
    BY FallbackType DEF Init, FileTypes
  <1>2. MainTypes
    <2>1. wake = BOOT_WAIT /\ pc = "start"
      BY DEF Init
    <2> QED BY <2>1, BootAssumption DEF MainTypes
  <1>3. PollTypes
    <2>1. due = 0 /\ poll = "none" /\ board_live_i2c_setup = FALSE
      BY DEF Init
    <2>2. 0 \in 0 .. PsuWait
      BY Ticks
    <2> QED BY <2>1, <2>2 DEF PollTypes
  <1>4. CountTypes
    <2>1. 0 \in Byte
      BY DEF Byte
    <2> QED BY <2>1 DEF Init, CountTypes
  <1>5. BufferTypes
    <2>1. 0 \in 0 .. 2
      OBVIOUS
    <2> QED BY <2>1 DEF Init, BufferTypes
  <1>6. PeopleTypes
    BY DEF Init, PeopleTypes
  <1> QED BY <1>1, <1>2, <1>3, <1>4, <1>5, <1>6 DEF Types

LEMMA AppMainKeepsTypes == ASSUME TypeInv, AppMain PROVE Types'
  <1>1. Types
    BY DEF TypeInv
  <1>2. CASE CreateInputQueue
    <2>1. UNCHANGED << card, file, wake, pollVars, people >> /\ settings' = Fallback /\ pc' = "card"
      BY <1>2 DEF CreateInputQueue
    <2>2. FileTypes' /\ MainTypes'
      BY <1>1, <2>1, FallbackType DEF Types, FileTypes, MainTypes
    <2> QED BY <1>1, <2>1, <2>2, TypesUnchanged DEF Types, pollVars
  <1>3. CASE ReadLine
    <2>1. UNCHANGED << card, file, pc, wake, pollVars, people >>
      BY <1>3 DEF ReadLine
    <2>2. Head(lines) \in ConfigLine
      <3>1. lines \in Seq(ConfigLine) /\ lines # << >>
        BY <1>3 DEF ReadLine, FileInv, TypeInv
      <3> QED BY <3>1
    <2>3. settings \in Settings /\ settings' = SettingsAfter(settings, Head(lines))
      BY <1>1, <1>3 DEF ReadLine, Types, FileTypes
    <2>4. settings' \in Settings
      BY <2>2, <2>3, SettingsAfterType
    <2>5. FileTypes'
      BY <1>1, <2>1, <2>4 DEF Types, FileTypes
    <2> QED BY <1>1, <2>1, <2>5, TypesUnchanged DEF Types, pollVars
  <1>4. CASE SetupLocalIo
    <2>1. /\ UNCHANGED << card, file, settings, wake, input_state_counts,
                          input_debounced_buffer, supply, held, touches, steady >>
          /\ pc' = "wait" /\ poll' = "look" /\ due' = 0 /\ board_live_i2c_setup' = FALSE
          /\ pressed' = {p \in TestPanels : held[p] = TestButton}
      BY <1>4, AfterSteps DEF SetupLocalIo, fileVars
    <2>2. 0 \in (0 .. PsuWait)'
      BY Ticks DEF PsuWait
    <2>3. PollTypes'
      BY <2>1, <2>2 DEF PollTypes
    <2>4. MainTypes' /\ PeopleTypes'
      BY <1>1, <2>1 DEF Types, MainTypes, PeopleTypes
    <2> QED BY <1>1, <2>1, <2>3, <2>4, TypesUnchanged DEF Types
  <1>5. CASE \/ OpenFile \/ Crash \/ EndOfFile \/ CreateQueues \/ StartDriver
             \/ CheckFirst \/ CheckSecond
    <2>1. /\ UNCHANGED << fileVars, wake, pollVars, people >>
          /\ pc' \in {"read", "crashed", "ethernet", "driver", "io", "wait", "check", "test",
                      "logic"}
      BY <1>5, AfterSteps DEF OpenFile, Crash, EndOfFile, CreateQueues, StartDriver, CheckFirst,
                              CheckSecond, StartLogic
    <2>2. MainTypes'
      BY <1>1, <2>1 DEF Types, MainTypes
    <2> QED BY <1>1, <2>1, <2>2, TypesUnchanged DEF Types, fileVars, pollVars
  <1> QED BY <1>2, <1>3, <1>4, <1>5 DEF AppMain

LEMMA RoundKeepsTypes == ASSUME TypeInv, Round PROVE Types'
  <1>1. Types /\ held \in [TestPanels -> 0 .. 2]
    BY DEF TypeInv, Types, PeopleTypes
  <1>2. UNCHANGED << fileVars, pc, wake, poll, board_live_i2c_setup, people >>
    BY DEF Round
  <1>3. PollTypes'
    <2>1. due' \in RefreshWait .. RefreshWait + 1
      BY DEF Round
    <2>2. due' \in 0 .. RefreshWait + 1
      BY <2>1, Ticks
    <2>3. RefreshWait' = RefreshWait
      BY DEF RefreshWait
    <2> QED BY <1>1, <1>2, <2>2, <2>3 DEF Types, PollTypes
  <1>4. CountTypes'
    <2>1. 0 \in Byte /\ \A n \in Byte : (n + 1) % 256 \in Byte
      BY DEF Byte
    <2>2. \A p \in TestPanels : (input_state_counts[p] + 1) % 256 \in Byte
      BY <1>1, <2>1 DEF Types, CountTypes
    <2> QED BY <2>1, <2>2 DEF Round, RefreshInputs, CountTypes
  <1>5. BufferTypes'
    <2>1. /\ \A p \in TestPanels : held[p] \in 0 .. 2
          /\ \A p \in TestPanels : input_debounced_buffer[p] \in 0 .. 2
      BY <1>1 DEF Types, BufferTypes
    <2>2. 0 \in 0 .. 2
      OBVIOUS
    <2>3. input_debounced_buffer' =
            [p \in TestPanels |->
               IF input_state_counts'[p] >= INPUT_DEBOUNCE_LOOP_COUNT THEN held[p]
               ELSE IF held[p] = 0 THEN 0
               ELSE input_debounced_buffer[p]]
      BY DEF Round, RefreshInputs
    <2> QED BY <2>1, <2>2, <2>3 DEF BufferTypes
  <1> QED BY <1>1, <1>2, <1>3, <1>4, <1>5, TypesUnchanged DEF Types, fileVars

LEMMA PollTaskKeepsTypes == ASSUME TypeInv, PollTask PROVE Types'
  <1>1. Types
    BY DEF TypeInv
  <1>2. CASE SupplyIsOn \/ SupplyIsOff \/ SetUpExpanders
    <2>1. /\ UNCHANGED << fileVars, pc, wake, input_state_counts, input_debounced_buffer, people >>
          /\ poll' \in {"look", "psu"} /\ board_live_i2c_setup' \in BOOLEAN
          /\ due' \in {due, PsuWait, RefreshWait}
      BY <1>1, <1>2 DEF SupplyIsOn, SupplyIsOff, SetUpExpanders, Types, PollTypes
    <2>2. PsuWait \in 0 .. PsuWait /\ RefreshWait \in 0 .. RefreshWait + 1
      BY Ticks
    <2>3. PsuWait' = PsuWait /\ RefreshWait' = RefreshWait
      BY DEF PsuWait, RefreshWait
    <2>4. due' \in 0 .. PsuWait \cup 0 .. RefreshWait + 1
      BY <1>1, <2>1, <2>2 DEF Types, PollTypes
    <2>5. PollTypes'
      BY <2>1, <2>3, <2>4 DEF PollTypes
    <2> QED BY <1>1, <2>1, <2>5, TypesUnchanged DEF Types, fileVars
  <1> QED BY <1>2, RoundKeepsTypes DEF PollTask

\* Time goes on.
LEMMA TickKeepsTypes == ASSUME TypeInv, Tick PROVE Types'
  <1>1. Types
    BY DEF TypeInv
  <1>2. /\ due > 0 /\ due' = due - 1 /\ ~(pc = "wait" /\ wake = 0)
        /\ wake' = IF pc = "wait" THEN wake - 1 ELSE wake
        /\ UNCHANGED << fileVars, pc, poll, board_live_i2c_setup, input_state_counts,
                        input_debounced_buffer, people >>
    BY DEF Tick
  <1>3. MainTypes'
    <2>1. wake \in 0 .. BOOT_WAIT
      BY <1>1 DEF Types, MainTypes
    <2>2. wake' = wake \/ (wake # 0 /\ wake' = wake - 1)
      BY <1>2
    <2>3. wake' \in 0 .. BOOT_WAIT
      BY <2>1, <2>2, BootAssumption
    <2> QED BY <1>1, <1>2, <2>3 DEF Types, MainTypes
  <1>4. PollTypes'
    <2>1. due \in 0 .. PsuWait \/ due \in 0 .. RefreshWait + 1
      BY <1>1 DEF Types, PollTypes
    <2>2. due' \in 0 .. PsuWait \/ due' \in 0 .. RefreshWait + 1
      BY <1>2, <2>1, Ticks
    <2>3. PsuWait' = PsuWait /\ RefreshWait' = RefreshWait
      BY DEF PsuWait, RefreshWait
    <2> QED BY <1>1, <1>2, <2>2, <2>3 DEF Types, PollTypes
  <1> QED BY <1>1, <1>2, <1>3, <1>4, TypesUnchanged DEF Types, fileVars

\* People press buttons and switch the supply.
LEMMA ChangeKeepsTypes ==
  ASSUME TypeInv, Change, UNCHANGED << fileVars, pc, wake, pollVars >>,
         held' \in [TestPanels -> 0 .. 2], pressed' \subseteq TestPanels, supply' \in BOOLEAN
  PROVE  Types'
  <1>1. Types
    BY DEF TypeInv
  <1>2. touches' \in 0 .. MaxTouches
    <2>1. touches \in 0 .. MaxTouches
      BY <1>1 DEF Types, PeopleTypes
    <2>2. touches < MaxTouches /\ touches' = touches + 1
      BY DEF Change
    <2> QED BY <2>1, <2>2, BootAssumption
  <1>3. steady' \in BOOLEAN
    BY DEF Change
  <1>4. PeopleTypes'
    BY <1>2, <1>3 DEF PeopleTypes
  <1> QED BY <1>1, <1>4, TypesUnchanged DEF Types, fileVars, pollVars

LEMMA NextTypes == TypeInv /\ [Next]_vars => Types'
  <1> SUFFICES ASSUME TypeInv, [Next]_vars PROVE Types'
    OBVIOUS
  <1>1. Types /\ PeopleTypes
    BY DEF TypeInv, Types
  <1>2. ASSUME NEW panel \in TestPanels, Touch(panel) PROVE Types'
    <2>1. /\ held' \in [TestPanels -> 0 .. 2] /\ pressed' \subseteq TestPanels
          /\ supply' \in BOOLEAN
      BY <1>1, <1>2 DEF Touch, PeopleTypes
    <2>2. Change /\ UNCHANGED << fileVars, pc, wake, pollVars >>
      BY <1>2 DEF Touch
    <2> QED BY <2>1, <2>2, ChangeKeepsTypes
  <1>3. CASE SwitchSupply
    <2>1. /\ held' \in [TestPanels -> 0 .. 2] /\ pressed' \subseteq TestPanels
          /\ supply' \in BOOLEAN
      BY <1>1, <1>3 DEF SwitchSupply, PeopleTypes
    <2>2. Change /\ UNCHANGED << fileVars, pc, wake, pollVars >>
      BY <1>3 DEF SwitchSupply
    <2> QED BY <2>1, <2>2, ChangeKeepsTypes
  <1>4. CASE UNCHANGED vars
    BY <1>1, <1>4, TypesUnchanged DEF vars, fileVars, pollVars, Types
  <1> QED
    BY <1>2, <1>3, <1>4, AppMainKeepsTypes, PollTaskKeepsTypes, TickKeepsTypes DEF Next

\* The settings are bytes and flags whatever the file holds, and the debouncing
\* and the waits of app_main and of the poll task stay in their ranges.
THEOREM TypeCorrect == Spec => []TypeOK
  <1>1. Init => TypeInv
    BY InitFileInv, InitTypes DEF TypeInv
  <1>2. TypeInv /\ [Next]_vars => TypeInv'
    BY NextFileInv, NextTypes DEF TypeInv
  <1>3. TypeInv => TypeOK
    <2> SUFFICES ASSUME TypeInv PROVE TypeOK
      OBVIOUS
    <2>1. PICK read \in Seq(ConfigLine) : file = read \o lines
      BY DEF TypeInv, FileInv, ReadSoFar
    <2>2. IsSuffix(lines, file)
      BY <2>1, RestIsSuffix DEF TypeInv, FileInv
    <2> QED
      BY <2>2 DEF TypeInv, Types, FileTypes, MainTypes, PollTypes, CountTypes, BufferTypes,
                  PeopleTypes, TypeOK
  <1> QED BY <1>1, <1>2, <1>3, PTL DEF Spec
=============================================================================
