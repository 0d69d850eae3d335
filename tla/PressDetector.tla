--------------------------- MODULE PressDetector ---------------------------
(***************************************************************************)
(* What button debouncing promises, without counters: each input line is   *)
(* sampled again and again; a run of Threshold or more samples of a        *)
(* pressed button is a press, and a press is reported once, by the first   *)
(* released sample after it, as a button that was among its most recent    *)
(* Threshold + 1 samples.  Shorter runs are noise and report nothing.      *)
(***************************************************************************)
EXTENDS Naturals

CONSTANTS
  Lines,      \* input lines: the button panels and the IR button
  Codes,      \* what a sample of a line can be; 0 is released
  Threshold   \* samples that make a press

Ages == 0 .. Threshold

VARIABLES
  window,     \* the last Threshold + 1 samples of each line, 0 from the newest
              \* released one back: window[l][0] is the newest
  report      \* what the newest sample of each line reported, 0: nothing

Released == [a \in Ages |-> 0]

\* The line has been pressed for Threshold samples or more.
IsPress(line) == window[line][Threshold - 1] # 0

Pressed(line, code) ==
  /\ code # 0
  /\ window' = [window EXCEPT ![line] = [a \in Ages |-> IF a = 0 THEN code ELSE @[a - 1]]]
  /\ report' = [report EXCEPT ![line] = 0]

ReleasedAfterPress(line) ==
  /\ IsPress(line)
  /\ \E a \in Ages : /\ window[line][a] # 0
                     /\ report' = [report EXCEPT ![line] = window[line][a]]
  /\ window' = [window EXCEPT ![line] = Released]

ReleasedAfterNoise(line) ==
  /\ ~IsPress(line)
  /\ window' = [window EXCEPT ![line] = Released]
  /\ report' = [report EXCEPT ![line] = 0]

Init ==
  /\ window = [l \in Lines |-> Released]
  /\ report = [l \in Lines |-> 0]

Next ==
  \E line \in Lines :
    \/ \E code \in Codes : Pressed(line, code)
    \/ ReleasedAfterPress(line)
    \/ ReleasedAfterNoise(line)

Spec == Init /\ [][Next]_<< window, report >>
=============================================================================
