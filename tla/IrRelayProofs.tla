--------------------------- MODULE IrRelayProofs ---------------------------
(***************************************************************************)
(* Theorems about IrRelay for every length of the pulses, every number of  *)
(* attempts, calls and faults: its types, that the coil is never left on,  *)
(* and that the relay follows a call made while no other task runs if it   *)
(* answers one pulse more than it may miss.                                *)
(***************************************************************************)
EXTENDS IrRelay, TLAPS

\* A task gives a pulse only while it has an attempt left for it.
PulsesPaid == \A t \in Tasks : tpc[t] = "off" => attempts[t] > 0

\* Who has put the coil on will put it off.
CoilOwned == coil = 1 /\ ~orphaned => \E t \in Tasks : tpc[t] = "off"

CoilInv == TypeOK /\ PulsesPaid /\ CoilOwned

\* The part of the types that is Boolean.
Flags == orphaned \in BOOLEAN /\ polled \in BOOLEAN /\ disturbed \in BOOLEAN
-----------------------------------------------------------------------------
LEMMA InitTypes == Init => TypeOK /\ PulsesPaid
  <1> SUFFICES ASSUME Init PROVE TypeOK /\ PulsesPaid
    OBVIOUS
  <1>1. Flags
    BY DEF Init, Flags
  <1>2. supply \in {0, 1}
    BY DEF Init
  <1>3. tpc \in [Tasks -> {"none", "check", "off", "done"}] /\ PulsesPaid
    BY DEF Init, PulsesPaid
  <1>4. attempts \in [Tasks -> 0 .. Attempts] /\ timer \in [Tasks -> 0 .. Pulse]
    BY RelayAssumption DEF Init
  <1>5. value \in [Tasks -> States] /\ relay_ir_state \in States
    BY DEF Init, States
  <1>6. coil \in {0, 1} /\ pin \in {0, 1} /\ relay \in {0, 1} /\ ir_relay_aux \in {0, 1}
    BY DEF Init
  <1>7. misses \in 0 .. MaxMisses /\ switches \in 0 .. MaxSwitches
    BY RelayAssumption DEF Init
  <1> QED BY <1>1, <1>2, <1>3, <1>4, <1>5, <1>6, <1>7 DEF TypeOK, Flags

LEMMA NextFlags == Flags /\ [Next]_vars => Flags'
  BY DEF Flags, Next, Toggle, TaskChecks, TaskReleases, ClientDeleted, Poll, Tick,
         SupplyOff, SupplyOn, vars

\* One step per action.
LEMMA NextTypes == TypeOK /\ PulsesPaid /\ [Next]_vars => TypeOK' /\ PulsesPaid'
  <1> SUFFICES ASSUME TypeOK, PulsesPaid, [Next]_vars PROVE TypeOK' /\ PulsesPaid'
    OBVIOUS
  <1> USE RelayAssumption DEF PulsesPaid, Flags, taskVars, relayVars, States, RELAY_STATE_MAIN,
                              RELAY_STATE_IR
  <1>1. Flags'
    BY NextFlags DEF TypeOK
  <1>2. ASSUME NEW t \in Tasks, Toggle(t) PROVE TypeOK' /\ PulsesPaid'
    BY <1>1, <1>2 DEF TypeOK, Toggle, StartTask
  <1>3. ASSUME NEW t \in Tasks, TaskChecks(t) PROVE TypeOK' /\ PulsesPaid'
    BY <1>1, <1>3 DEF TypeOK, TaskChecks, CoilWritten
  <1>4. ASSUME NEW t \in Tasks, TaskReleases(t) PROVE TypeOK' /\ PulsesPaid'
    BY <1>1, <1>4 DEF TypeOK, TaskReleases, CoilWritten, CoilAfterPulse, NextAttempt
  <1>5. CASE Poll
    BY <1>1, <1>5 DEF TypeOK, Poll
  <1>6. CASE Tick
    BY <1>1, <1>6 DEF TypeOK, Tick
  <1>7. CASE SupplyOff
    BY <1>1, <1>7 DEF TypeOK, SupplyOff
  <1>8. CASE SupplyOn
    BY <1>1, <1>8 DEF TypeOK, SupplyOn
  <1>9. CASE ClientDeleted
    BY <1>1, <1>9 DEF TypeOK, ClientDeleted
  <1>10. CASE UNCHANGED vars
    BY <1>1, <1>10 DEF TypeOK, vars
  <1> QED BY <1>2, <1>3, <1>4, <1>5, <1>6, <1>7, <1>8, <1>9, <1>10 DEF Next

\* Types for every instance: among them that no task counts its attempts below 0
\* and that every sleep is a pulse or shorter.
THEOREM TypeCorrect == Spec => []TypeOK
  <1>1. Init => TypeOK /\ PulsesPaid
    BY InitTypes
  <1>2. TypeOK /\ PulsesPaid /\ [Next]_vars => TypeOK' /\ PulsesPaid'
    BY NextTypes
  <1> QED BY <1>1, <1>2, PTL DEF Spec
-----------------------------------------------------------------------------
\* One step per action: who puts the coil on is in its pulse, who ends its pulse
\* puts it off for everybody.
LEMMA NextCoilOwned == TypeOK /\ CoilOwned /\ [Next]_vars => CoilOwned'
  <1> SUFFICES ASSUME TypeOK, CoilOwned, [Next]_vars PROVE CoilOwned'
    OBVIOUS
  <1> USE DEF CoilOwned, TypeOK
  <1>1. ASSUME NEW t \in Tasks, Toggle(t) PROVE CoilOwned'
    BY <1>1 DEF Toggle, StartTask
  <1>2. ASSUME NEW t \in Tasks, TaskChecks(t) PROVE CoilOwned'
    BY <1>2 DEF TaskChecks, CoilWritten
  <1>3. ASSUME NEW t \in Tasks, TaskReleases(t) PROVE CoilOwned'
    BY <1>3 DEF TaskReleases, CoilWritten, CoilAfterPulse
  <1>4. CASE ClientDeleted \/ Poll \/ Tick \/ SupplyOff \/ SupplyOn \/ UNCHANGED vars
    BY <1>4 DEF ClientDeleted, Poll, Tick, SupplyOff, SupplyOn, vars, taskVars
  <1> QED BY <1>1, <1>2, <1>3, <1>4 DEF Next

\* However many tasks share the coil, in whatever order their pulses and rests
\* overlap, it is off once they are done: a coil that is on has a task in its
\* pulse, as long as no deleted task keeps the mutex.
THEOREM CoilNeverLeftOn == Spec => []CoilOffAtRest
  <1>1. Init => CoilInv
    BY InitTypes DEF CoilInv, CoilOwned, Init
  <1>2. CoilInv /\ [Next]_vars => CoilInv'
    BY NextTypes, NextCoilOwned DEF CoilInv
  <1>3. CoilInv => CoilOffAtRest
    BY DEF CoilInv, TypeOK, CoilOwned, CoilOffAtRest, AllDone, Started
  <1> QED BY <1>1, <1>2, <1>3, PTL DEF Spec
-----------------------------------------------------------------------------
\* A round that found nothing to do: coil and contact are as the relay has them.
PolledSettled == polled /\ supply = 1 /\ ~orphaned => pin = coil /\ ir_relay_aux = relay

\* While nothing disturbs it, one task runs at most, the newest, and it was asked
\* for what the logic task wants now.
OneTask(t) ==
  /\ value[t] = relay_ir_state
  /\ \A u \in Tasks : u < t => tpc[u] = "done"
  /\ \A u \in Tasks : u > t => tpc[u] = "none"

\* Between two pulses: the coil is off and, once the poll task has gone round,
\* the relay has let go and its contact is read.  A relay that does not stand
\* right has missed all pulses so far.
RestInv(t) ==
  /\ coil = 0
  /\ timer[t] < Pulse => pin = 0 /\ ir_relay_aux = relay
  /\ relay # value[t] => misses >= Attempts - attempts[t]

\* In a pulse: the coil is on and, once the poll task has gone round, the relay has
\* turned over or missed this pulse too.
PulseInv(t) ==
  /\ coil = 1
  /\ timer[t] < Pulse => pin = 1
  /\ relay # value[t] => misses >= Attempts - attempts[t] + pin
  /\ pin = 0 => relay # value[t]

\* All tasks are done: the relay stands right and its contact says so.
DoneInv == coil = 0 /\ pin = 0 /\ ir_relay_aux = relay /\ relay = relay_ir_state

\* Tasks are numbered in the order they are started.
InOrder == \A t, u \in Tasks : u < t /\ tpc[u] = "none" => tpc[t] = "none"

FollowInv ==
  ~disturbed =>
    /\ supply = 1 /\ ~orphaned
    /\ \A t \in Tasks : tpc[t] \in {"check", "off"} => OneTask(t)
    /\ \A t \in Tasks : tpc[t] = "check" => RestInv(t)
    /\ \A t \in Tasks : tpc[t] = "off" => PulseInv(t)
    /\ AllDone => DoneInv

LEMMA NextPolledSettled == TypeOK /\ PolledSettled /\ [Next]_vars => PolledSettled'
  BY DEF TypeOK, PolledSettled, Next, Toggle, TaskChecks, TaskReleases, ClientDeleted, Poll,
         Tick, SupplyOff, SupplyOn, vars, relayVars

LEMMA NextInOrder == TypeOK /\ InOrder /\ [Next]_vars => InOrder'
  <1> SUFFICES ASSUME TypeOK, InOrder, [Next]_vars PROVE InOrder'
    OBVIOUS
  <1> USE DEF InOrder, TypeOK, Tasks
  <1>1. ASSUME NEW t \in Tasks, Toggle(t) PROVE InOrder'
    BY <1>1 DEF Toggle, StartTask
  <1>2. ASSUME NEW t \in Tasks, TaskChecks(t) \/ TaskReleases(t) PROVE InOrder'
    BY <1>2 DEF TaskChecks, TaskReleases
  <1>3. CASE ClientDeleted \/ Poll \/ Tick \/ SupplyOff \/ SupplyOn \/ UNCHANGED vars
    BY <1>3 DEF ClientDeleted, Poll, Tick, SupplyOff, SupplyOn, vars, taskVars
  <1> QED BY <1>1, <1>2, <1>3 DEF Next

LEMMA InitFollowInv == Init => FollowInv
  <1> SUFFICES ASSUME Init, ~disturbed PROVE FollowInv
    BY DEF FollowInv
  <1> USE RelayAssumption
  <1>1. supply = 1 /\ ir_relay_aux = relay /\ coil = 0 /\ pin = 0 /\ misses = 0 /\ ~orphaned
    BY DEF Init
  <1>2. \A t \in Tasks : tpc[t] = IF t = 1 THEN "check" ELSE "none"
    BY DEF Init
  <1>3. 1 \in Tasks /\ \A t \in Tasks : t >= 1
    BY DEF Tasks
  <1>4. OneTask(1) /\ RestInv(1)
    BY <1>1, <1>2, <1>3 DEF Init, OneTask, RestInv, Tasks
  <1>5. ~AllDone
    BY <1>2, <1>3 DEF AllDone, Started
  <1> QED BY <1>1, <1>2, <1>4, <1>5 DEF FollowInv

\* Two tasks never run while nothing is disturbed.
LEMMA OnlyTask ==
  ASSUME FollowInv, ~disturbed, NEW t \in Tasks, tpc[t] \in {"check", "off"}
  PROVE  \A u \in Tasks : u # t => tpc[u] \in {"none", "done"}
  BY DEF FollowInv, OneTask, Tasks

\* The next task starts when the one before it is done: wherever the relay stands,
\* its coil is off and its contact is read.
LEMMA ToggleKeepsFollow ==
  ASSUME TypeOK, CoilOwned, InOrder, PolledSettled, FollowInv, NEW t \in Tasks, Toggle(t)
  PROVE  FollowInv'
  <1> SUFFICES ASSUME ~disturbed' PROVE FollowInv'
    BY DEF FollowInv
  <1> USE RelayAssumption DEF TypeOK
  <1>1. AllDone /\ supply = 1 /\ ~orphaned /\ polled
    BY DEF Toggle
  <1>2. coil = 0 /\ pin = 0 /\ ir_relay_aux = relay
    BY <1>1 DEF CoilOwned, PolledSettled, AllDone, Started
  <1>3. /\ UNCHANGED << coil, pin, ir_relay_aux, relay, misses, supply, orphaned >>
        /\ tpc' = [tpc EXCEPT ![t] = "check"] /\ value'[t] = relay_ir_state'
        /\ attempts'[t] = Attempts
    BY DEF Toggle, StartTask, relayVars
  <1>4. \A u \in Tasks : /\ u < t => tpc[u] = "done"
                         /\ u > t => tpc[u] = "none"
                         /\ u # t => tpc[u] \in {"none", "done"}
    <2>1. \A u \in Tasks : u < t => tpc[u] # "none"
      BY DEF Toggle
    <2>2. \A u \in Tasks : tpc[u] \in {"none", "done"}
      BY <1>1 DEF AllDone, Started
    <2>3. \A u \in Tasks : u > t => tpc[u] = "none"
      BY DEF Toggle, InOrder, Tasks
    <2> QED BY <2>1, <2>2, <2>3 DEF Tasks
  <1>5. OneTask(t)'
    BY <1>3, <1>4 DEF OneTask, Tasks
  <1>6. RestInv(t)'
    BY <1>2, <1>3 DEF RestInv
  <1>7. ~AllDone'
    BY <1>3 DEF AllDone, Started
  <1> QED BY <1>1, <1>3, <1>4, <1>5, <1>6, <1>7 DEF FollowInv

\* A task looks at the contact: it gives another pulse, or ends with the relay
\* standing right, since it has an attempt left for every pulse that can be missed.
LEMMA CheckKeepsFollow ==
  ASSUME TypeOK, FollowInv, MaxMisses < Attempts, NEW t \in Tasks, TaskChecks(t)
  PROVE  FollowInv'
  <1> SUFFICES ASSUME ~disturbed' PROVE FollowInv'
    BY DEF FollowInv
  <1> USE RelayAssumption DEF TypeOK
  <1>1. /\ ~disturbed /\ supply = 1 /\ ~orphaned /\ tpc[t] = "check" /\ timer[t] = 0
        /\ UNCHANGED << relay_ir_state, value, attempts, ir_relay_aux, pin, relay, misses,
                        supply, orphaned, disturbed >>
    BY DEF TaskChecks, FollowInv, relayVars
  <1>2. \A u \in Tasks : u # t => tpc[u] \in {"none", "done"}
    BY <1>1, OnlyTask
  <1>3. OneTask(t) /\ RestInv(t)
    BY <1>1 DEF FollowInv
  <1>4. coil = 0 /\ pin = 0 /\ ir_relay_aux = relay
    BY <1>1, <1>3 DEF RestInv
  <1>5. CASE attempts[t] = 0 \/ ir_relay_aux = value[t]
    <2>1. relay = value[t]
      BY <1>3, <1>4, <1>5 DEF RestInv
    <2>2. coil' = coil /\ (tpc' = [tpc EXCEPT ![t] = "done"])
      BY <1>5 DEF TaskChecks
    <2>3. DoneInv'
      BY <1>1, <1>3, <1>4, <2>1, <2>2 DEF DoneInv, OneTask
    <2>4. \A u \in Tasks : tpc'[u] \notin {"check", "off"}
      BY <1>2, <2>2
    <2> QED BY <1>1, <2>3, <2>4 DEF FollowInv
  <1>6. CASE ~(attempts[t] = 0 \/ ir_relay_aux = value[t])
    <2>1. /\ coil' = 1 /\ tpc' = [tpc EXCEPT ![t] = "off"]
          /\ timer' = [timer EXCEPT ![t] = Pulse]
      BY <1>1, <1>6 DEF TaskChecks, CoilWritten
    <2>2. OneTask(t)'
      BY <1>1, <1>3, <2>1 DEF OneTask, Tasks
    <2>3. PulseInv(t)'
      BY <1>1, <1>3, <1>4, <1>6, <2>1 DEF RestInv, PulseInv
    <2>4. \A u \in Tasks : u # t => tpc'[u] \notin {"check", "off"}
      BY <1>2, <2>1
    <2>5. ~AllDone'
      BY <2>1 DEF AllDone, Started
    <2> QED BY <1>1, <2>1, <2>2, <2>3, <2>4, <2>5 DEF FollowInv
  <1> QED BY <1>5, <1>6

\* A pulse ends: the relay has turned over, or the attempt is spent on a miss.
LEMMA ReleaseKeepsFollow ==
  ASSUME TypeOK, FollowInv, NEW t \in Tasks, TaskReleases(t)
  PROVE  FollowInv'
  <1> SUFFICES ASSUME ~disturbed' PROVE FollowInv'
    BY DEF FollowInv
  <1> USE RelayAssumption DEF TypeOK
  <1>1. /\ ~disturbed /\ supply = 1 /\ ~orphaned /\ tpc[t] = "off" /\ timer[t] = 0
        /\ UNCHANGED << relay_ir_state, value, ir_relay_aux, pin, relay, misses, supply,
                        orphaned, disturbed >>
    BY DEF TaskReleases, FollowInv, relayVars
  <1>2. \A u \in Tasks : u # t => tpc[u] \in {"none", "done"}
    BY <1>1, OnlyTask
  <1>3. OneTask(t) /\ PulseInv(t)
    BY <1>1 DEF FollowInv
  <1>4. /\ coil' = 0 /\ tpc' = [tpc EXCEPT ![t] = "check"]
        /\ timer' = [timer EXCEPT ![t] = Pulse]
        /\ attempts' = [attempts EXCEPT ![t] = attempts[t] - 1]
    BY <1>1 DEF TaskReleases, CoilWritten, CoilAfterPulse, NextAttempt
  <1>5. OneTask(t)'
    BY <1>1, <1>3, <1>4 DEF OneTask, Tasks
  <1>6. RestInv(t)'
    <2>1. pin = 1 /\ attempts[t] \in Nat
      BY <1>1, <1>3 DEF PulseInv
    <2> QED BY <1>1, <1>3, <1>4, <2>1 DEF RestInv, PulseInv
  <1>7. \A u \in Tasks : u # t => tpc'[u] \notin {"check", "off"}
    BY <1>2, <1>4
  <1>8. ~AllDone'
    BY <1>4 DEF AllDone, Started
  <1> QED BY <1>1, <1>4, <1>5, <1>6, <1>7, <1>8 DEF FollowInv

\* A round of the poll task: the relay sees the coil, and turns over or misses.
LEMMA PollKeepsFollow ==
  ASSUME TypeOK, FollowInv, Poll
  PROVE  FollowInv'
  <1> SUFFICES ASSUME ~disturbed' PROVE FollowInv'
    BY DEF FollowInv
  <1> USE RelayAssumption DEF TypeOK
  <1>1. /\ ~disturbed /\ supply = 1 /\ ~orphaned
        /\ UNCHANGED << relay_ir_state, tpc, value, attempts, timer, coil, supply, orphaned,
                        disturbed >>
        /\ pin' = coil /\ ir_relay_aux' = relay
    BY DEF Poll, taskVars, FollowInv
  <1>2. \A t \in Tasks : tpc[t] \in {"check", "off"} => OneTask(t)'
    BY <1>1 DEF FollowInv, OneTask
  <1>3. coil = 0 => relay' = relay /\ misses' = misses
    BY <1>1 DEF Poll
  <1>4. ASSUME NEW t \in Tasks, tpc[t] = "check" PROVE RestInv(t)'
    <2>1. RestInv(t)
      BY <1>1, <1>4 DEF FollowInv
    <2> QED BY <1>1, <1>3, <2>1 DEF RestInv
  <1>5. ASSUME NEW t \in Tasks, tpc[t] = "off" PROVE PulseInv(t)'
    <2>1. PulseInv(t) /\ OneTask(t)
      BY <1>1, <1>5 DEF FollowInv
    <2>2. CASE pin = 1
      BY <1>1, <2>1, <2>2 DEF PulseInv, Poll
    <2>3. CASE pin = 0
      <3>1. relay' = 1 - relay \/ (relay' = relay /\ misses' = misses + 1)
        BY <1>1, <2>1, <2>3 DEF PulseInv, Poll
      <3>2. relay # value[t] /\ value[t] \in {0, 1} /\ misses >= Attempts - attempts[t]
        BY <2>1, <2>3 DEF PulseInv, States, RELAY_STATE_MAIN, RELAY_STATE_IR
      <3>3. CASE relay' = 1 - relay
        BY <1>1, <2>1, <3>2, <3>3 DEF PulseInv
      <3>4. CASE relay' = relay /\ misses' = misses + 1
        BY <1>1, <2>1, <3>2, <3>4 DEF PulseInv
      <3> QED BY <3>1, <3>3, <3>4
    <2> QED BY <2>2, <2>3
  <1>6. AllDone' => DoneInv'
    BY <1>1, <1>3 DEF FollowInv, DoneInv, AllDone, Started
  <1> QED BY <1>1, <1>2, <1>4, <1>5, <1>6 DEF FollowInv

\* Time goes on: the poll task has had its rounds.
LEMMA TickKeepsFollow ==
  ASSUME TypeOK, PolledSettled, FollowInv, Tick
  PROVE  FollowInv'
  <1> SUFFICES ASSUME ~disturbed' PROVE FollowInv'
    BY DEF FollowInv
  <1> USE RelayAssumption DEF TypeOK
  <1>1. /\ ~disturbed /\ supply = 1 /\ ~orphaned
        /\ UNCHANGED << relay_ir_state, tpc, value, attempts, coil, ir_relay_aux, pin, relay,
                        misses, supply, orphaned, disturbed >>
        /\ pin = coil /\ ir_relay_aux = relay
    BY DEF Tick, FollowInv, PolledSettled, relayVars
  <1>2. \A t \in Tasks : tpc[t] \in {"check", "off"} => OneTask(t)'
    BY <1>1 DEF FollowInv, OneTask
  <1>3. \A t \in Tasks : tpc[t] = "check" => RestInv(t)'
    BY <1>1 DEF FollowInv, RestInv
  <1>4. \A t \in Tasks : tpc[t] = "off" => PulseInv(t)'
    BY <1>1 DEF FollowInv, PulseInv
  <1>5. AllDone' => DoneInv'
    BY <1>1 DEF FollowInv, DoneInv, AllDone, Started
  <1> QED BY <1>1, <1>2, <1>3, <1>4, <1>5 DEF FollowInv

\* The inductive invariant.
RelayInv == TypeOK /\ PulsesPaid /\ CoilOwned /\ InOrder /\ PolledSettled /\ FollowInv

LEMMA NextRelayInv ==
  ASSUME MaxMisses < Attempts
  PROVE  RelayInv /\ [Next]_vars => RelayInv'
  <1> SUFFICES ASSUME RelayInv, [Next]_vars PROVE RelayInv'
    OBVIOUS
  <1>1. TypeOK' /\ PulsesPaid' /\ CoilOwned' /\ InOrder' /\ PolledSettled'
    BY NextTypes, NextCoilOwned, NextInOrder, NextPolledSettled DEF RelayInv
  <1> SUFFICES FollowInv'
    BY <1>1 DEF RelayInv
  <1>2. ASSUME NEW t \in Tasks, Toggle(t) \/ TaskChecks(t) \/ TaskReleases(t) PROVE FollowInv'
    BY <1>2, ToggleKeepsFollow, CheckKeepsFollow, ReleaseKeepsFollow DEF RelayInv
  <1>3. CASE Poll \/ Tick
    BY <1>3, PollKeepsFollow, TickKeepsFollow DEF RelayInv
  <1>4. CASE SupplyOff \/ ClientDeleted
    BY <1>4 DEF SupplyOff, ClientDeleted, FollowInv
  <1>5. CASE SupplyOn
    BY <1>5 DEF SupplyOn, RelayInv, FollowInv
  <1>6. CASE UNCHANGED vars
    BY <1>6 DEF vars, taskVars, relayVars, RelayInv, FollowInv, OneTask, RestInv, PulseInv,
                DoneInv, AllDone, Started
  <1> QED BY <1>2, <1>3, <1>4, <1>5, <1>6 DEF Next, RelayInv

\* The floodlights follow the camera for every length of the pulses: after a call
\* made with no task running and the desk supply on, whatever happened before, the
\* relay stands the way the logic task wants it once the task is done, if it misses
\* fewer pulses than a task has attempts.
THEOREM RelayFollowsState == MaxMisses < Attempts => (Spec => []RelayFollows)
  <1> SUFFICES ASSUME MaxMisses < Attempts PROVE Spec => []RelayFollows
    OBVIOUS
  <1>1. Init => RelayInv
    <2>1. Init => InOrder
      BY DEF Init, InOrder, Tasks
    <2>2. Init => PolledSettled
      BY DEF Init, PolledSettled
    <2>3. Init => CoilOwned
      BY DEF Init, CoilOwned
    <2> QED BY InitTypes, InitFollowInv, <2>1, <2>2, <2>3 DEF RelayInv
  <1>2. RelayInv /\ [Next]_vars => RelayInv'
    BY NextRelayInv
  <1>3. RelayInv => RelayFollows
    BY DEF RelayInv, FollowInv, DoneInv, RelayFollows
  <1> QED BY <1>1, <1>2, <1>3, PTL DEF Spec
=============================================================================
