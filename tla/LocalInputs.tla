---------------------------- MODULE LocalInputs ----------------------------
(***************************************************************************)
(* The input half of local_io.c: refresh_inputs reads the two input        *)
(* registers of expander B, one after the other, decodes them into the     *)
(* button panels and the IR button, and runs button_debounce on each.      *)
(*                                                                         *)
(* People press and release buttons at any moment, so also between the two *)
(* reads; a read can fail, which leaves its byte at 0x00, and an input bit *)
(* of 0 means pressed.  input_poll_task calls refresh_inputs again and     *)
(* again while the desk supply is on; the time between two calls is of any *)
(* length here, an interruption of the supply included.                    *)
(***************************************************************************)
EXTENDS Integers, Sequences, FreeRTOSQueue

CONSTANTS
  NPanels,        \* button panels (4)
  MaxCode,        \* largest code the priority encoder of a panel gives (6)
  INPUT_DEBOUNCE_LOOP_COUNT,  \* (3)
  CounterMod,     \* values of a debounce counter, a uint8_t (256)
  InputQueueLen,  \* slots of input_event_queue (32)
  MaxFailures,    \* bound: I2C reads that fail
  MaxTouches      \* bound: changes of what people hold down

Panels == 0 .. NPanels - 1
IrLine == NPanels
Lines  == 0 .. NPanels

\* A line as it is held, and as it reads when its bits are all 0: a panel has
\* three bits, the IR button one.
HeldCodes(line)  == IF line = IrLine THEN 0 .. 1 ELSE 0 .. MaxCode
AllPressed(line) == IF line = IrLine THEN 1 ELSE 7
Codes == 0 .. 7

ASSUME InputsAssumption ==
  /\ NPanels \in Nat \ {0}
  /\ MaxCode \in 1 .. 7
  /\ INPUT_DEBOUNCE_LOOP_COUNT \in Nat \ {0}
  /\ CounterMod \in Nat /\ CounterMod > INPUT_DEBOUNCE_LOOP_COUNT
  /\ InputQueueLen \in Nat \ {0}
  /\ MaxFailures \in Nat
  /\ MaxTouches \in Nat

Ages == 0 .. INPUT_DEBOUNCE_LOOP_COUNT

VARIABLES
  held,              \* code of the button people hold down on each line
  touches, failures, \* bound counters
  pc,                \* "start" | "read0" | "read1" | "debounce"
  line,              \* line refresh_inputs is about to debounce
  in_byte_B_GP0,     \* the registers as read, decoded line by line
  in_byte_B_GP1,
  input_state_counts,
  input_debounced_buffer,
  input_event_queue,
  window,            \* history: the newest samples of each line since release
  report             \* history: what the newest sample of each line reported

inputVars == << in_byte_B_GP0, in_byte_B_GP1, input_state_counts, input_debounced_buffer >>
people == << held, touches >>
vars == << people, failures, pc, line, inputVars, input_event_queue, window, report >>
-----------------------------------------------------------------------------
(* Decoding.  Panels 2 and up are in GP0, panel 0 and the IR button in     *)
(* GP1; panel 1 has its two low bits in GP0 and its high bit in GP1.       *)

LinesInGP0 == {l \in Panels : l >= 1}
LinesInGP1 == {l \in Lines : l \in {0, 1, IrLine}}

\* A register as the locals of refresh_inputs start, and as a read finds it.
Untouched(lines) == [l \in lines |-> AllPressed(l)]
AsHeld(lines)    == [l \in lines |-> held[l]]

\* input_state_buffer of a line, from the two bytes.
RawInput(l) ==
  IF l = IrLine \/ l = 0 THEN in_byte_B_GP1[l]
  ELSE IF l = 1 THEN (in_byte_B_GP0[l] % 4) + 4 * (in_byte_B_GP1[l] \div 4)
  ELSE in_byte_B_GP0[l]
-----------------------------------------------------------------------------
(* People.                                                                 *)

\* Someone presses, changes or lets go a button of a line.
Touch(l) ==
  /\ touches < MaxTouches
  /\ touches' = touches + 1
  /\ \E code \in HeldCodes(l) \ {held[l]} : held' = [held EXCEPT ![l] = code]
  /\ UNCHANGED << failures, pc, line, inputVars, input_event_queue, window, report >>

\* Whoever holds a button lets go in the end.
LetGo(l) ==
  /\ held[l] # 0
  /\ held' = [held EXCEPT ![l] = 0]
  /\ UNCHANGED << touches, failures, pc, line, inputVars, input_event_queue, window, report >>
-----------------------------------------------------------------------------
(* refresh_inputs.                                                         *)

\* Called from input_poll_task: both bytes start as 0x00.
StartRefresh ==
  /\ pc = "start"
  /\ pc' = "read0"
  /\ in_byte_B_GP0' = Untouched(LinesInGP0)
  /\ in_byte_B_GP1' = Untouched(LinesInGP1)
  /\ UNCHANGED << people, failures, line, input_state_counts, input_debounced_buffer,
                  input_event_queue, window, report >>

\* A read that does not work: the byte stays as it is and nobody is told.
ReadFails ==
  /\ failures < MaxFailures
  /\ failures' = failures + 1

\* expander_read_command of GP0.
ReadGP0 ==
  /\ pc = "read0"
  /\ pc' = "read1"
  /\ \/ in_byte_B_GP0' = AsHeld(LinesInGP0) /\ UNCHANGED failures
     \/ ReadFails /\ UNCHANGED in_byte_B_GP0
  /\ UNCHANGED << people, line, in_byte_B_GP1, input_state_counts, input_debounced_buffer,
                  input_event_queue, window, report >>

\* expander_read_command of GP1.
ReadGP1 ==
  /\ pc = "read1"
  /\ pc' = "debounce"
  /\ line' = 0
  /\ \/ in_byte_B_GP1' = AsHeld(LinesInGP1) /\ UNCHANGED failures
     \/ ReadFails /\ UNCHANGED in_byte_B_GP1
  /\ UNCHANGED << people, in_byte_B_GP0, input_state_counts, input_debounced_buffer,
                  input_event_queue, window, report >>

\* input_state_buffer_mutex was not free within 10 ticks: the reading is
\* thrown away.
MutexTimeout ==
  /\ pc = "debounce" /\ line = 0
  /\ pc' = "start"
  /\ UNCHANGED << people, failures, line, inputVars, input_event_queue, window, report >>

\* The message of a line whose debounced state is code.
ReleaseMsg(l, code) ==
  IF l = IrLine THEN [type |-> "IR_TOGGLE"]
                ELSE [type |-> "ROUTING", panel |-> l, panel_button |-> code - 1]

\* Mutant: the counter is not reset by a released sample.
CountAfterKept(count, raw) == IF raw = 0 THEN count ELSE (count + 1) % CounterMod

\* Mutant: the counter does not wrap.
CountAfterWide(count, raw) == IF raw = 0 THEN 0 ELSE count + 1

\* The counter after a sample.
CountAfter(count, raw) == IF raw = 0 THEN 0 ELSE (count + 1) % CounterMod

\* Mutant: the state is not cleared once its release has been reported.
StateAfterKept(state, count, raw) ==
  IF CountAfter(count, raw) >= INPUT_DEBOUNCE_LOOP_COUNT THEN raw ELSE state

\* The debounced state after a sample: cleared on release, then taken from the
\* sample if the new count is long enough.
StateAfter(state, count, raw) ==
  IF CountAfter(count, raw) >= INPUT_DEBOUNCE_LOOP_COUNT THEN raw
  ELSE IF raw = 0 THEN 0
  ELSE state

\* button_debounce of the next line.
Debounce ==
  /\ pc = "debounce"
  /\ LET raw   == RawInput(line)
         state == input_debounced_buffer[line]
         count == input_state_counts[line]
         sends == raw = 0 /\ state # 0
     IN  /\ input_state_counts' = [input_state_counts EXCEPT ![line] = CountAfter(count, raw)]
         /\ input_debounced_buffer' =
              [input_debounced_buffer EXCEPT ![line] = StateAfter(state, count, raw)]
         /\ input_event_queue' =
              IF sends THEN xQueueSend(input_event_queue, ReleaseMsg(line, state), InputQueueLen)
                       ELSE input_event_queue
         /\ report' = [report EXCEPT ![line] = IF sends THEN state ELSE 0]
         /\ window' =
              [window EXCEPT ![line] =
                 [a \in Ages |-> IF raw = 0 THEN 0 ELSE IF a = 0 THEN raw ELSE @[a - 1]]]
  /\ IF line + 1 \in Lines THEN line' = line + 1 /\ pc' = "debounce"
                           ELSE line' = 0 /\ pc' = "start"
  /\ UNCHANGED << people, failures, in_byte_B_GP0, in_byte_B_GP1 >>

\* input_logic_task takes a message.
LogicTakes ==
  /\ input_event_queue # << >>
  /\ input_event_queue' = Tail(input_event_queue)
  /\ UNCHANGED << people, failures, pc, line, inputVars, window, report >>
-----------------------------------------------------------------------------
Init ==
  /\ held = [l \in Lines |-> 0]
  /\ touches = 0
  /\ failures = 0
  /\ pc = "start"
  /\ line = 0
  /\ in_byte_B_GP0 = Untouched(LinesInGP0)
  /\ in_byte_B_GP1 = Untouched(LinesInGP1)
  /\ input_state_counts = [l \in Lines |-> 0]
  /\ input_debounced_buffer = [l \in Lines |-> 0]
  /\ input_event_queue = << >>
  /\ window = [l \in Lines |-> [a \in Ages |-> 0]]
  /\ report = [l \in Lines |-> 0]

Next ==
  \/ \E l \in Lines : Touch(l) \/ LetGo(l)
  \/ StartRefresh
  \/ ReadGP0
  \/ ReadGP1
  \/ MutexTimeout
  \/ Debounce
  \/ LogicTakes

Spec == Init /\ [][Next]_vars

\* The poll task runs for as long as the desk supply is on, the holder of the
\* mutex keeps it for one copy of a byte only, and people let go of buttons;
\* reads fail finitely often.
Fairness ==
  /\ WF_vars(StartRefresh)
  /\ WF_vars(ReadGP0)
  /\ WF_vars(ReadGP1)
  /\ SF_vars(Debounce)
  /\ WF_vars(LogicTakes)
  /\ \A l \in Lines : WF_vars(LetGo(l))

FairSpec == Spec /\ Fairness
-----------------------------------------------------------------------------
InputMessages ==
  {[type |-> "IR_TOGGLE"]} \cup [type : {"ROUTING"}, panel : Panels, panel_button : 0 .. 6]

TypeOK ==
  /\ held \in [Lines -> 0 .. MaxCode]
  /\ touches \in 0 .. MaxTouches
  /\ failures \in 0 .. MaxFailures
  /\ pc \in {"start", "read0", "read1", "debounce"}
  /\ line \in Lines
  /\ in_byte_B_GP0 \in [LinesInGP0 -> Codes]
  /\ in_byte_B_GP1 \in [LinesInGP1 -> Codes]
  /\ input_state_counts \in [Lines -> 0 .. CounterMod - 1]
  /\ input_debounced_buffer \in [Lines -> Codes]
  /\ input_event_queue \in Seq(InputMessages)
  /\ Len(input_event_queue) <= InputQueueLen
  /\ window \in [Lines -> [Ages -> Codes]]
  /\ report \in [Lines -> Codes]

\* What the counters, the debounced state and the newest samples have to do
\* with each other.  Before a press the counter is the number of samples; after
\* one it may have wrapped, and then the state is the sample of counter + 1
\* polls ago.
CountsMatchSamples ==
  \A l \in Lines :
    LET count == input_state_counts[l]
        state == input_debounced_buffer[l]
    IN  /\ state = 0 => /\ count < INPUT_DEBOUNCE_LOOP_COUNT
                        /\ \A a \in Ages : window[l][a] # 0 <=> a < count
        /\ state # 0 => /\ \A a \in 0 .. INPUT_DEBOUNCE_LOOP_COUNT - 1 : window[l][a] # 0
                        /\ count >= INPUT_DEBOUNCE_LOOP_COUNT => state = window[l][0]
                        /\ count < INPUT_DEBOUNCE_LOOP_COUNT =>
                             /\ window[l][INPUT_DEBOUNCE_LOOP_COUNT] # 0
                             /\ state = window[l][count + 1]

Detector == INSTANCE PressDetector WITH Threshold <- INPUT_DEBOUNCE_LOOP_COUNT

\* Debouncing with a uint8_t counter that wraps every 256 samples still
\* reports every press once and nothing else: button_debounce implements
\* PressDetector, however the samples came about.
DetectsPresses == Detector!Spec

\* A debounced press does not last for ever: once people let go it is reported
\* and cleared.
PressesEnd ==
  \A l \in Lines : input_debounced_buffer[l] # 0 ~> input_debounced_buffer[l] = 0
=============================================================================
