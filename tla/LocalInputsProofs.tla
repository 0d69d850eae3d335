------------------------- MODULE LocalInputsProofs -------------------------
(***************************************************************************)
(* Theorems about LocalInputs for every number of panels, every debounce   *)
(* threshold and every counter width above it: the relation between the    *)
(* counters and the samples, and that button_debounce implements           *)
(* PressDetector even when its counter wraps.                              *)
(***************************************************************************)
EXTENDS LocalInputs, TLAPS

\* The threshold by a short name.
T == INPUT_DEBOUNCE_LOOP_COUNT

\* The part of TypeOK the debouncing argument needs.
DebounceTypes ==
  /\ pc \in {"start", "read0", "read1", "debounce"}
  /\ line \in Lines
  /\ in_byte_B_GP0 \in [LinesInGP0 -> Codes]
  /\ in_byte_B_GP1 \in [LinesInGP1 -> Codes]
  /\ held \in [Lines -> 0 .. MaxCode]
  /\ input_state_counts \in [Lines -> 0 .. CounterMod - 1]
  /\ input_debounced_buffer \in [Lines -> Codes]
  /\ window \in [Lines -> [Ages -> Codes]]
  /\ report \in [Lines -> Codes]

\* The inductive invariant.
DebounceInv == DebounceTypes /\ CountsMatchSamples
-----------------------------------------------------------------------------
\* Two bits of one byte and one of the other make a three-bit code.
LEMMA SplitCode ==
  \A low, high \in Codes : (low % 4) + 4 * (high \div 4) \in Codes
  <1> SUFFICES ASSUME NEW low \in Codes, NEW high \in Codes
               PROVE  (low % 4) + 4 * (high \div 4) \in Codes
    OBVIOUS
  <1>1. low % 4 \in 0 .. 3
    BY DEF Codes
  <1>2. high \div 4 \in 0 .. 1
    BY DEF Codes
  <1> QED BY <1>1, <1>2 DEF Codes

\* Whatever was read decodes to a three-bit code.
LEMMA RawInputType == DebounceTypes => \A l \in Lines : RawInput(l) \in Codes
  <1> SUFFICES ASSUME DebounceTypes, NEW l \in Lines PROVE RawInput(l) \in Codes
    OBVIOUS
  <1> USE InputsAssumption
  <1>1. CASE l = IrLine \/ l = 0
    BY <1>1 DEF RawInput, DebounceTypes, LinesInGP1
  <1>2. CASE l # IrLine /\ l = 1
    <2>1. l \in LinesInGP0 /\ l \in LinesInGP1
      BY <1>2 DEF LinesInGP0, LinesInGP1, Lines, Panels, IrLine
    <2>2. in_byte_B_GP0[1] \in Codes /\ in_byte_B_GP1[1] \in Codes
      BY <1>2, <2>1 DEF DebounceTypes
    <2> QED BY <1>2, <2>2, SplitCode DEF RawInput
  <1>3. CASE l # IrLine /\ l # 0 /\ l # 1
    <2>1. l \in LinesInGP0
      BY <1>3 DEF LinesInGP0, Lines, Panels, IrLine
    <2> QED BY <1>3, <2>1 DEF RawInput, DebounceTypes
  <1> QED BY <1>1, <1>2, <1>3

\* A register as the locals start holds codes.
LEMMA UntouchedType ==
  /\ Untouched(LinesInGP0) \in [LinesInGP0 -> Codes]
  /\ Untouched(LinesInGP1) \in [LinesInGP1 -> Codes]
  BY DEF Untouched, AllPressed, Codes

\* A register as it is read holds codes.
LEMMA AsHeldType ==
  ASSUME DebounceTypes
  PROVE  /\ AsHeld(LinesInGP0) \in [LinesInGP0 -> Codes]
         /\ AsHeld(LinesInGP1) \in [LinesInGP1 -> Codes]
  <1>1. \A l \in Lines : held[l] \in Codes
    <2>1. 0 .. MaxCode \subseteq Codes
      BY InputsAssumption DEF Codes
    <2> QED BY <2>1 DEF DebounceTypes
  <1>2. LinesInGP0 \subseteq Lines /\ LinesInGP1 \subseteq Lines
    BY InputsAssumption DEF LinesInGP0, LinesInGP1, Panels, Lines
  <1> QED BY <1>1, <1>2 DEF AsHeld
-----------------------------------------------------------------------------
\* What one sample does to one line: its counter, state, samples and report.
\* The other lines, and the samples older than the window, do not matter.
LEMMA DebounceEffect ==
  ASSUME DebounceInv, Debounce
  PROVE  \E raw \in Codes :
           LET state == input_debounced_buffer[line]
               count == input_state_counts[line]
           IN  /\ line \in Lines
               /\ input_state_counts' =
                    [input_state_counts EXCEPT ![line] = CountAfter(count, raw)]
               /\ input_debounced_buffer' =
                    [input_debounced_buffer EXCEPT ![line] = StateAfter(state, count, raw)]
               /\ report' = [report EXCEPT ![line] = IF raw = 0 /\ state # 0 THEN state ELSE 0]
               /\ window' =
                    [window EXCEPT ![line] =
                       [a \in Ages |-> IF raw = 0 THEN 0 ELSE IF a = 0 THEN raw ELSE @[a - 1]]]
  <1>1. line \in Lines /\ RawInput(line) \in Codes
    BY RawInputType DEF DebounceInv, DebounceTypes
  <1> QED BY <1>1 DEF Debounce
-----------------------------------------------------------------------------
\* Every counter is 0, every state released and every window empty at first.
LEMMA InitDebounceInv == Init => DebounceInv
  <1> SUFFICES ASSUME Init PROVE DebounceInv
    OBVIOUS
  <1> USE InputsAssumption
  <1>1. 0 \in Codes /\ 0 \in Lines /\ 0 \in 0 .. CounterMod - 1 /\ 0 \in 0 .. MaxCode
    BY DEF Codes, Lines
  <1>2. DebounceTypes
    BY <1>1, UntouchedType DEF Init, DebounceTypes
  <1>3. CountsMatchSamples
    BY DEF Init, CountsMatchSamples, Ages
  <1> QED BY <1>2, <1>3 DEF DebounceInv

\* The steps other than button_debounce keep the types and touch neither the
\* counters nor the states nor the samples.
LEMMA OtherStepsKeepDebounce ==
  ASSUME DebounceTypes, [Next]_vars, ~Debounce
  PROVE  /\ DebounceTypes'
         /\ UNCHANGED << input_state_counts, input_debounced_buffer, window, report >>
  <1> USE InputsAssumption
  <1>1. ASSUME NEW l \in Lines, Touch(l)
        PROVE  /\ DebounceTypes'
               /\ UNCHANGED << input_state_counts, input_debounced_buffer, window, report >>
    <2>1. HeldCodes(l) \subseteq 0 .. MaxCode
      BY DEF HeldCodes
    <2>2. held' \in [Lines -> 0 .. MaxCode]
      BY <1>1, <2>1 DEF Touch, DebounceTypes
    <2> QED BY <1>1, <2>2 DEF Touch, inputVars, DebounceTypes
  <1>2. ASSUME NEW l \in Lines, LetGo(l)
        PROVE  /\ DebounceTypes'
               /\ UNCHANGED << input_state_counts, input_debounced_buffer, window, report >>
    BY <1>2 DEF LetGo, inputVars, DebounceTypes
  <1>3. CASE StartRefresh
    BY <1>3, UntouchedType DEF StartRefresh, people, DebounceTypes
  <1>4. CASE ReadGP0
    BY <1>4, AsHeldType DEF ReadGP0, people, DebounceTypes
  <1>5. CASE ReadGP1
    <2>1. 0 \in Lines
      BY DEF Lines
    <2> QED BY <1>5, <2>1, AsHeldType DEF ReadGP1, people, DebounceTypes
  <1>6. CASE MutexTimeout
    BY <1>6 DEF MutexTimeout, people, inputVars, DebounceTypes
  <1>7. CASE LogicTakes
    BY <1>7 DEF LogicTakes, people, inputVars, DebounceTypes
  <1>8. CASE UNCHANGED vars
    BY <1>8 DEF vars, people, inputVars, DebounceTypes
  <1> QED BY <1>1, <1>2, <1>3, <1>4, <1>5, <1>6, <1>7, <1>8 DEF Next

\* button_debounce keeps the types.
LEMMA DebounceKeepsTypes == DebounceInv /\ Debounce => DebounceTypes'
  <1> SUFFICES ASSUME DebounceInv, Debounce PROVE DebounceTypes'
    OBVIOUS
  <1> USE InputsAssumption
  <1> DEFINE state == input_debounced_buffer[line]
             count == input_state_counts[line]
  <1>1. PICK raw \in Codes :
          /\ line \in Lines
          /\ input_state_counts' = [input_state_counts EXCEPT ![line] = CountAfter(count, raw)]
          /\ input_debounced_buffer' =
               [input_debounced_buffer EXCEPT ![line] = StateAfter(state, count, raw)]
          /\ report' = [report EXCEPT ![line] = IF raw = 0 /\ state # 0 THEN state ELSE 0]
          /\ window' =
               [window EXCEPT ![line] =
                  [a \in Ages |-> IF raw = 0 THEN 0 ELSE IF a = 0 THEN raw ELSE @[a - 1]]]
    BY DebounceEffect
  <1>2. count \in 0 .. CounterMod - 1 /\ state \in Codes /\ 0 \in Codes
    BY <1>1 DEF DebounceInv, DebounceTypes, Codes
  <1> HIDE DEF state, count
  <1>3. CountAfter(count, raw) \in 0 .. CounterMod - 1
    BY <1>2 DEF CountAfter
  <1>4. StateAfter(state, count, raw) \in Codes
    BY <1>2 DEF StateAfter
  <1>5. input_state_counts' \in [Lines -> 0 .. CounterMod - 1]
    BY <1>1, <1>3 DEF DebounceInv, DebounceTypes
  <1>6. input_debounced_buffer' \in [Lines -> Codes] /\ report' \in [Lines -> Codes]
    BY <1>1, <1>2, <1>4 DEF DebounceInv, DebounceTypes
  <1>7. window' \in [Lines -> [Ages -> Codes]]
    <2>1. \A a \in Ages : a # 0 => a - 1 \in Ages
      BY DEF Ages
    <2>2. window[line] \in [Ages -> Codes]
      BY <1>1 DEF DebounceInv, DebounceTypes
    <2>3. [a \in Ages |-> IF raw = 0 THEN 0 ELSE IF a = 0 THEN raw ELSE window[line][a - 1]]
            \in [Ages -> Codes]
      BY <1>2, <2>1, <2>2
    <2> QED BY <1>1, <2>3 DEF DebounceInv, DebounceTypes
  <1>8. /\ pc' \in {"start", "read0", "read1", "debounce"}
        /\ line' \in Lines
        /\ UNCHANGED << held, in_byte_B_GP0, in_byte_B_GP1 >>
    BY DEF Debounce, people, Lines
  <1> QED BY <1>5, <1>6, <1>7, <1>8 DEF DebounceInv, DebounceTypes

\* button_debounce keeps counter, state and samples in their relation: the one
\* hard case is the sample that makes the counter wrap.
LEMMA DebounceKeepsMatch == DebounceInv /\ Debounce => CountsMatchSamples'
  <1> SUFFICES ASSUME DebounceInv, Debounce, NEW l \in Lines
               PROVE
                 /\ input_debounced_buffer'[l] = 0 =>
                      /\ input_state_counts'[l] < T
                      /\ \A a \in Ages : window'[l][a] # 0 <=> a < input_state_counts'[l]
                 /\ input_debounced_buffer'[l] # 0 =>
                      /\ \A a \in 0 .. T - 1 : window'[l][a] # 0
                      /\ input_state_counts'[l] >= T => input_debounced_buffer'[l] = window'[l][0]
                      /\ input_state_counts'[l] < T =>
                           /\ window'[l][T] # 0
                           /\ input_debounced_buffer'[l] = window'[l][input_state_counts'[l] + 1]
    BY DEF CountsMatchSamples, T
  <1> USE InputsAssumption DEF T
  <1> DEFINE state == input_debounced_buffer[line]
             count == input_state_counts[line]
  <1>1. PICK raw \in Codes :
          /\ line \in Lines
          /\ input_state_counts' = [input_state_counts EXCEPT ![line] = CountAfter(count, raw)]
          /\ input_debounced_buffer' =
               [input_debounced_buffer EXCEPT ![line] = StateAfter(state, count, raw)]
          /\ report' = [report EXCEPT ![line] = IF raw = 0 /\ state # 0 THEN state ELSE 0]
          /\ window' =
               [window EXCEPT ![line] =
                  [a \in Ages |-> IF raw = 0 THEN 0 ELSE IF a = 0 THEN raw ELSE @[a - 1]]]
    BY DebounceEffect
  <1>2. /\ count \in 0 .. CounterMod - 1
        /\ state \in Codes
        /\ window[line] \in [Ages -> Codes]
    BY <1>1 DEF DebounceInv, DebounceTypes
  <1>3. CASE l # line
    BY <1>1, <1>3 DEF DebounceInv, DebounceTypes, CountsMatchSamples
  <1>4. CASE l = line
    <2>1. /\ input_state_counts'[l] = CountAfter(count, raw)
          /\ input_debounced_buffer'[l] = StateAfter(state, count, raw)
          /\ window'[l] = [a \in Ages |-> IF raw = 0 THEN 0
                                          ELSE IF a = 0 THEN raw ELSE window[line][a - 1]]
      BY <1>1, <1>4 DEF DebounceInv, DebounceTypes
    <2>2. /\ state = 0 => /\ count < T
                          /\ \A a \in Ages : window[line][a] # 0 <=> a < count
          /\ state # 0 => /\ \A a \in 0 .. T - 1 : window[line][a] # 0
                          /\ count >= T => state = window[line][0]
                          /\ count < T => window[line][T] # 0 /\ state = window[line][count + 1]
      BY <1>1 DEF DebounceInv, CountsMatchSamples
    <2> HIDE DEF state, count
    <2>3. CASE raw = 0
      <3>1. CountAfter(count, raw) = 0 /\ StateAfter(state, count, raw) = 0
        BY <2>3 DEF CountAfter, StateAfter
      <3> QED BY <2>1, <2>3, <3>1 DEF Ages
    <2>4. CASE raw # 0 /\ count + 1 < CounterMod
      <3>1. CountAfter(count, raw) = count + 1
        BY <1>2, <2>4 DEF CountAfter
      <3>2. CASE count + 1 >= T
        <4>1. StateAfter(state, count, raw) = raw
          BY <3>1, <3>2 DEF StateAfter
        <4>2. \A a \in 0 .. T - 2 : window[line][a] # 0
          BY <1>2, <2>2, <3>2 DEF Ages
        <4>3. \A a \in 0 .. T - 1 : window'[l][a] # 0
          <5> SUFFICES ASSUME NEW a \in 0 .. T - 1 PROVE window'[l][a] # 0
            OBVIOUS
          <5>1. a \in Ages /\ (a # 0 => a - 1 \in 0 .. T - 2)
            BY DEF Ages
          <5> QED BY <2>1, <2>4, <4>2, <5>1
        <4>4. window'[l][0] = raw
          BY <2>1, <2>4 DEF Ages
        <4> QED BY <1>2, <2>1, <2>4, <3>1, <3>2, <4>1, <4>3, <4>4
      <3>3. CASE count + 1 < T
        <4>1. StateAfter(state, count, raw) = state
          BY <1>2, <2>4, <3>1, <3>3 DEF StateAfter
        <4>2. CASE state = 0
          <5> SUFFICES ASSUME NEW a \in Ages
                       PROVE  window'[l][a] # 0 <=> a < count + 1
            BY <1>2, <2>1, <3>1, <3>3, <4>1, <4>2
          <5>1. a # 0 => a - 1 \in Ages
            BY DEF Ages
          <5>2. CASE a = 0
            BY <1>2, <2>1, <2>4, <5>2
          <5>3. CASE a # 0
            <6>1. window'[l][a] = window[line][a - 1]
              BY <2>1, <2>4, <5>3
            <6>2. window[line][a - 1] # 0 <=> a - 1 < count
              BY <2>2, <4>2, <5>1, <5>3
            <6> QED BY <1>2, <6>1, <6>2 DEF Ages
          <5> QED BY <5>2, <5>3
        <4>3. CASE state # 0
          <5>1. /\ \A a \in 0 .. T - 1 : window[line][a] # 0
                /\ state = window[line][count + 1]
            BY <1>2, <2>2, <3>3, <4>3
          <5>2. \A a \in 0 .. T : window'[l][a] # 0
            <6> SUFFICES ASSUME NEW a \in 0 .. T PROVE window'[l][a] # 0
              OBVIOUS
            <6>1. a \in Ages /\ (a # 0 => a - 1 \in 0 .. T - 1)
              BY DEF Ages
            <6> QED BY <2>1, <2>4, <5>1, <6>1
          <5>3. window'[l][count + 2] = window[line][count + 1]
            <6>1. count + 2 \in Ages /\ count + 2 # 0 /\ (count + 2) - 1 = count + 1
              BY <1>2, <3>3 DEF Ages
            <6> QED BY <2>1, <2>4, <6>1
          <5>4. input_state_counts'[l] = count + 1 /\ input_debounced_buffer'[l] = state
            BY <2>1, <3>1, <4>1
          <5>5. (count + 1) + 1 = count + 2 /\ 0 .. T - 1 \subseteq 0 .. T /\ T \in 0 .. T
            BY <1>2
          <5> QED BY <1>2, <3>3, <4>3, <5>1, <5>2, <5>3, <5>4, <5>5
        <4> QED BY <4>2, <4>3
      <3> QED BY <1>2, <3>2, <3>3
    <2>5. CASE raw # 0 /\ ~(count + 1 < CounterMod)
      <3>1. count + 1 = CounterMod
        BY <1>2, <2>5
      <3>2. CountAfter(count, raw) = 0
        BY <2>5, <3>1 DEF CountAfter
      <3>3. count >= T /\ state # 0
        BY <1>2, <2>2, <3>1
      <3>4. StateAfter(state, count, raw) = state
        BY <2>5, <3>2 DEF StateAfter
      <3>5. state = window[line][0] /\ \A a \in 0 .. T - 1 : window[line][a] # 0
        BY <2>2, <3>3
      <3>6. \A a \in 0 .. T : window'[l][a] # 0
        <4> SUFFICES ASSUME NEW a \in 0 .. T PROVE window'[l][a] # 0
          OBVIOUS
        <4>1. a \in Ages /\ (a # 0 => a - 1 \in 0 .. T - 1)
          BY DEF Ages
        <4> QED BY <2>1, <2>5, <3>5, <4>1
      <3>7. window'[l][1] = window[line][0]
        BY <2>1, <2>5 DEF Ages
      <3>8. input_state_counts'[l] = 0 /\ input_debounced_buffer'[l] = state
        BY <2>1, <3>2, <3>4
      <3>9. 0 + 1 = 1 /\ 0 .. T - 1 \subseteq 0 .. T /\ T \in 0 .. T /\ ~(0 >= T)
        OBVIOUS
      <3> QED BY <3>3, <3>5, <3>6, <3>7, <3>8, <3>9
    <2> QED BY <2>3, <2>4, <2>5
  <1> QED BY <1>3, <1>4
-----------------------------------------------------------------------------
\* Every step keeps the inductive invariant.
LEMMA NextDebounceInv == DebounceInv /\ [Next]_vars => DebounceInv'
  <1> SUFFICES ASSUME DebounceInv, [Next]_vars PROVE DebounceInv'
    OBVIOUS
  <1>1. CASE Debounce
    BY <1>1, DebounceKeepsTypes, DebounceKeepsMatch DEF DebounceInv
  <1>2. CASE ~Debounce
    <2>1. /\ DebounceTypes'
          /\ UNCHANGED << input_state_counts, input_debounced_buffer, window, report >>
      BY <1>2, OtherStepsKeepDebounce DEF DebounceInv
    <2> QED BY <2>1 DEF DebounceInv, CountsMatchSamples
  <1> QED BY <1>1, <1>2

\* The counter, the debounced state and the newest samples stay in their
\* relation for ever (button_debounce, local_io.c).
THEOREM CountsMatch == Spec => []CountsMatchSamples
  <1>1. DebounceInv => CountsMatchSamples
    BY DEF DebounceInv
  <1> QED BY InitDebounceInv, NextDebounceInv, <1>1, PTL DEF Spec
-----------------------------------------------------------------------------
\* A sample is a step of PressDetector for its line.
LEMMA DebounceDetects == DebounceInv /\ Debounce => Detector!Next
  <1> SUFFICES ASSUME DebounceInv, Debounce PROVE Detector!Next
    OBVIOUS
  <1> USE InputsAssumption
  <1> DEFINE state == input_debounced_buffer[line]
             count == input_state_counts[line]
  <1>1. PICK raw \in Codes :
          /\ line \in Lines
          /\ report' = [report EXCEPT ![line] = IF raw = 0 /\ state # 0 THEN state ELSE 0]
          /\ window' =
               [window EXCEPT ![line] =
                  [a \in Ages |-> IF raw = 0 THEN 0 ELSE IF a = 0 THEN raw ELSE @[a - 1]]]
    BY DebounceEffect
  <1>2. count \in 0 .. CounterMod - 1
    BY <1>1 DEF DebounceInv, DebounceTypes
  <1>3. /\ state = 0 => /\ count < T
                        /\ \A a \in Ages : window[line][a] # 0 <=> a < count
        /\ state # 0 => /\ \A a \in 0 .. T - 1 : window[line][a] # 0
                        /\ count >= T => state = window[line][0]
                        /\ count < T => window[line][T] # 0 /\ state = window[line][count + 1]
    BY <1>1 DEF DebounceInv, CountsMatchSamples, T
  <1> HIDE DEF state, count
  <1>4. CASE raw # 0
    <2>1. Detector!Pressed(line, raw)
      BY <1>1, <1>4 DEF Detector!Pressed, Detector!Ages, Ages
    <2> QED BY <1>1, <2>1 DEF Detector!Next
  <1>5. CASE raw = 0 /\ state # 0
    <2>1. Detector!IsPress(line)
      BY <1>3, <1>5 DEF Detector!IsPress, T
    <2>2. PICK a \in Ages : window[line][a] = state
      <3>1. CASE count >= T
        BY <1>3, <1>5, <3>1 DEF Ages
      <3>2. CASE count < T
        <4>1. count + 1 \in Ages
          BY <1>2, <3>2 DEF Ages, T
        <4> QED BY <1>3, <1>5, <3>2, <4>1
      <3> QED BY <1>2, <3>1, <3>2 DEF T
    <2>3. Detector!ReleasedAfterPress(line)
      BY <1>1, <1>5, <2>1, <2>2 DEF Detector!ReleasedAfterPress, Detector!Released,
                                    Detector!Ages, Ages
    <2> QED BY <1>1, <2>3 DEF Detector!Next
  <1>6. CASE raw = 0 /\ state = 0
    <2>1. ~Detector!IsPress(line)
      <3>1. T - 1 \in Ages /\ ~(T - 1 < count)
        BY <1>2, <1>3, <1>6 DEF Ages, T
      <3> QED BY <1>3, <1>6, <3>1 DEF Detector!IsPress, T
    <2>2. Detector!ReleasedAfterNoise(line)
      BY <1>1, <1>6, <2>1 DEF Detector!ReleasedAfterNoise, Detector!Released,
                              Detector!Ages, Ages
    <2> QED BY <1>1, <2>2 DEF Detector!Next
  <1> QED BY <1>4, <1>5, <1>6

\* button_debounce implements PressDetector for every threshold and every
\* counter width above it: each press is reported exactly once, on release, as
\* a button among its newest samples, and noise is never reported, even though
\* the uint8_t counter wraps while a button is held.
THEOREM DebounceImplementsDetector == Spec => DetectsPresses
  <1>1. Init => Detector!Init
    BY DEF Init, Detector!Init, Detector!Released, Detector!Ages, Ages
  <1>2. DebounceInv /\ [Next]_vars => [Detector!Next]_<< window, report >>
    <2> SUFFICES ASSUME DebounceInv, [Next]_vars
                 PROVE  Detector!Next \/ UNCHANGED << window, report >>
      OBVIOUS
    <2>1. CASE Debounce
      BY <2>1, DebounceDetects
    <2>2. CASE ~Debounce
      BY <2>2, OtherStepsKeepDebounce DEF DebounceInv
    <2> QED BY <2>1, <2>2
  <1> QED
    BY InitDebounceInv, NextDebounceInv, <1>1, <1>2, PTL
    DEF Spec, DetectsPresses, Detector!Spec
-----------------------------------------------------------------------------
\* The part of TypeOK the debouncing argument does not need.
QueueTypes ==
  /\ touches \in 0 .. MaxTouches
  /\ failures \in 0 .. MaxFailures
  /\ input_event_queue \in Seq(InputMessages)
  /\ Len(input_event_queue) <= InputQueueLen

\* button_debounce posts messages the logic task knows.
LEMMA ReleaseMsgType ==
  \A l \in Lines, code \in Codes \ {0} : ReleaseMsg(l, code) \in InputMessages
  <1> SUFFICES ASSUME NEW l \in Lines, NEW code \in Codes \ {0}
               PROVE  ReleaseMsg(l, code) \in InputMessages
    OBVIOUS
  <1>1. CASE l = IrLine
    BY <1>1 DEF ReleaseMsg, InputMessages
  <1>2. CASE l # IrLine
    <2>1. l \in Panels /\ code - 1 \in 0 .. 6
      BY <1>2, InputsAssumption DEF Lines, Panels, IrLine, Codes
    <2> QED BY <1>2, <2>1 DEF ReleaseMsg, InputMessages
  <1> QED BY <1>1, <1>2

\* A full queue keeps what it has.
LEMMA QueueSendType ==
  ASSUME NEW S, NEW queue \in Seq(S), NEW item \in S, NEW length \in Nat,
         Len(queue) <= length
  PROVE  /\ xQueueSend(queue, item, length) \in Seq(S)
         /\ Len(xQueueSend(queue, item, length)) <= length
  BY DEF xQueueSend, QueueFull

LEMMA NextQueueTypes == DebounceTypes /\ QueueTypes /\ [Next]_vars => QueueTypes'
  <1> SUFFICES ASSUME DebounceTypes, QueueTypes, [Next]_vars PROVE QueueTypes'
    OBVIOUS
  <1> USE InputsAssumption DEF QueueTypes, people, inputVars
  <1>1. ASSUME NEW l \in Lines, Touch(l) \/ LetGo(l) PROVE QueueTypes'
    BY <1>1 DEF Touch, LetGo
  <1>2. CASE StartRefresh \/ MutexTimeout \/ UNCHANGED vars
    BY <1>2 DEF StartRefresh, MutexTimeout, vars
  <1>3. CASE ReadGP0 \/ ReadGP1
    BY <1>3 DEF ReadGP0, ReadGP1, ReadFails
  <1>4. CASE Debounce
    <2>1. line \in Lines /\ input_debounced_buffer[line] \in Codes
      BY DEF DebounceTypes
    <2>2. CASE RawInput(line) = 0 /\ input_debounced_buffer[line] # 0
      <3> DEFINE msg == ReleaseMsg(line, input_debounced_buffer[line])
      <3>1. msg \in InputMessages
        BY <2>1, <2>2, ReleaseMsgType
      <3>2. input_event_queue' = xQueueSend(input_event_queue, msg, InputQueueLen)
        BY <1>4, <2>2 DEF Debounce
      <3>3. UNCHANGED << touches, failures >>
        BY <1>4 DEF Debounce
      <3> HIDE DEF msg
      <3> QED BY <3>1, <3>2, <3>3, QueueSendType
    <2>3. CASE ~(RawInput(line) = 0 /\ input_debounced_buffer[line] # 0)
      BY <1>4, <2>3 DEF Debounce
    <2> QED BY <2>2, <2>3
  <1>5. CASE LogicTakes
    BY <1>5 DEF LogicTakes
  <1> QED BY <1>1, <1>2, <1>3, <1>4, <1>5 DEF Next

\* Types for every instance: among them that the queue keeps to its slots and
\* holds only messages the logic task knows, whatever is read and when.
THEOREM TypeCorrect == Spec => []TypeOK
  <1>1. Init => QueueTypes
    BY InputsAssumption DEF Init, QueueTypes
  <1>2. DebounceInv => DebounceTypes
    BY DEF DebounceInv
  <1>3. DebounceTypes /\ QueueTypes => TypeOK
    BY DEF DebounceTypes, QueueTypes, TypeOK
  <1> QED BY InitDebounceInv, NextDebounceInv, NextQueueTypes, <1>1, <1>2, <1>3, PTL DEF Spec
=============================================================================
