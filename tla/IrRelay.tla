------------------------------ MODULE IrRelay ------------------------------
(***************************************************************************)
(* The relay that switches the IR floodlights.  It is bistable: a pulse on *)
(* its coil turns it over, whatever way it was.  set_ir_relay_state starts *)
(* a task, ir_relay_set_task, that compares the relay's auxiliary contact  *)
(* with the state asked for and, while they differ, gives up to three      *)
(* pulses of 500 ms, 500 ms apart.  Tasks of several calls run side by     *)
(* side and share the coil.                                                *)
(*                                                                         *)
(* Coil and contact are fields of local_io's buffers: the coil reaches the *)
(* relay, and the contact the buffer, when input_poll_task next goes       *)
(* round, which it does every few ticks while the desk supply is on.  Once *)
(* a task was deleted inside buffer_single_write (OutputRefresh) nothing   *)
(* reaches buffer or coil any more.  One Tick here is a step of            *)
(* 500 / Pulse ms.  The relay's hardware is not part of the sources under  *)
(* src/main.                                                               *)
(***************************************************************************)
EXTENDS Naturals

CONSTANTS
  Pulse,         \* ticks of a pulse and of the rest after it
  Attempts,      \* pulses a task may give (3)
  MaxCalls,      \* bound: calls of set_ir_relay_state, the one at boot included
  MaxMisses,     \* bound: pulses the relay does not answer
  MaxSwitches    \* bound: times the desk supply goes off or on

ASSUME RelayAssumption ==
  /\ Pulse \in Nat \ {0}
  /\ Attempts \in Nat \ {0}
  /\ MaxCalls \in Nat \ {0}
  /\ MaxMisses \in Nat /\ MaxSwitches \in Nat

RELAY_STATE_MAIN == 0
RELAY_STATE_IR   == 1
States == {RELAY_STATE_MAIN, RELAY_STATE_IR}
Tasks  == 1 .. MaxCalls

VARIABLES
  relay_ir_state,  \* what input_logic_task wants
  tpc,             \* each task: "none", "check", "off", "done": where it
                   \* goes on when its timer has run out
  value,           \* what each task was asked for
  attempts,        \* attempts each task has left
  timer,           \* ticks each task still sleeps
  coil,            \* output_state_buffer.ir_relay
  ir_relay_aux,    \* input_state_buffer.ir_relay_aux
  pin,             \* the coil as the expander drives it
  relay,           \* the relay itself
  supply,          \* the desk supply, 1: on
  orphaned,        \* output_state_buffer_mutex is held by a deleted task
  polled,          \* input_poll_task has gone round, and found nothing left to
                   \* do, since a task last ran and since the last tick
  disturbed,       \* history: the last call came while a task was running or
                   \* the desk supply was off, or the supply has gone off since,
                   \* or the mutex is orphaned
  misses, switches \* bound counters

taskVars  == << tpc, value, attempts, timer >>
relayVars == << pin, relay, misses >>
vars == << relay_ir_state, taskVars, coil, ir_relay_aux, relayVars, supply, orphaned, polled,
           disturbed, switches >>

Started == {t \in Tasks : tpc[t] # "none"}
AllDone == \A t \in Started : tpc[t] = "done"

\* The task is ready to run.
Due(t) == tpc[t] \notin {"none", "done"} /\ timer[t] = 0
-----------------------------------------------------------------------------
(* set_ir_relay_state and ir_relay_set_task.                               *)

\* Mutant: the task of the wrong state.
StartTaskOld(t, state) ==
  /\ tpc' = [tpc EXCEPT ![t] = "check"]
  /\ value' = [value EXCEPT ![t] = relay_ir_state]
  /\ attempts' = [attempts EXCEPT ![t] = Attempts]
  /\ timer' = [timer EXCEPT ![t] = 0]

\* set_ir_relay_state: xTaskCreate with the state as its argument.
StartTask(t, state) ==
  /\ tpc' = [tpc EXCEPT ![t] = "check"]
  /\ value' = [value EXCEPT ![t] = state]
  /\ attempts' = [attempts EXCEPT ![t] = Attempts]
  /\ timer' = [timer EXCEPT ![t] = 0]

\* The IR button: the logic task flips its state and starts a task.  A press
\* takes several polls to debounce, so the poll task has gone round since the
\* press before.
Toggle(t) ==
  /\ tpc[t] = "none" /\ \A u \in Tasks : u < t => tpc[u] # "none"
  /\ \A u \in Tasks : ~Due(u)
  /\ supply = 1 => polled
  /\ relay_ir_state' = 1 - relay_ir_state
  /\ StartTask(t, relay_ir_state')
  /\ polled' = FALSE
  /\ disturbed' = (~AllDone \/ supply = 0 \/ orphaned)
  /\ UNCHANGED << coil, ir_relay_aux, relayVars, supply, orphaned, switches >>

\* The coil when a new value is written to it: buffer_single_write gives up on a mutex
\* nobody will give back, and the write is lost.
CoilWritten(new) == IF orphaned THEN coil ELSE new

\* Top of the loop: out of attempts, in the right state, or pulse.
TaskChecks(t) ==
  /\ tpc[t] = "check" /\ timer[t] = 0
  /\ \/ /\ attempts[t] = 0 \/ ir_relay_aux = value[t]
        /\ tpc' = [tpc EXCEPT ![t] = "done"]
        /\ UNCHANGED << coil, timer >>
     \/ /\ attempts[t] > 0 /\ ir_relay_aux # value[t]
        /\ coil' = CoilWritten(1)
        /\ tpc' = [tpc EXCEPT ![t] = "off"]
        /\ timer' = [timer EXCEPT ![t] = Pulse]
  /\ polled' = FALSE
  /\ UNCHANGED << relay_ir_state, value, attempts, ir_relay_aux, relayVars, supply,
                  orphaned, disturbed, switches >>

\* Mutant: the loop is left as soon as the contact has turned.
CoilAfterPulseKept(t) == IF ir_relay_aux = value[t] THEN coil ELSE 0

\* The coil after a pulse.
CoilAfterPulse(t) == 0

\* Mutant: the attempts are counted up.
NextAttemptUp(t) == attempts[t] + 1

\* attempts-- at the end of the loop body.
NextAttempt(t) == attempts[t] - 1

\* The pulse is over: rest, then look again.
TaskReleases(t) ==
  /\ tpc[t] = "off" /\ timer[t] = 0
  /\ coil' = CoilWritten(CoilAfterPulse(t))
  /\ tpc' = [tpc EXCEPT ![t] = "check"]
  /\ timer' = [timer EXCEPT ![t] = Pulse]
  /\ attempts' = [attempts EXCEPT ![t] = NextAttempt(t)]
  /\ polled' = FALSE
  /\ UNCHANGED << relay_ir_state, value, ir_relay_aux, relayVars, supply, orphaned,
                  disturbed, switches >>

\* An Ethernet event handler deletes the client task inside buffer_single_write.
ClientDeleted ==
  /\ ~orphaned
  /\ orphaned' = TRUE
  /\ disturbed' = TRUE
  /\ UNCHANGED << relay_ir_state, taskVars, coil, ir_relay_aux, relayVars, supply, polled,
                  switches >>
-----------------------------------------------------------------------------
(* input_poll_task, the relay and time.                                    *)

\* A round of the poll task: the contact is read, the coil is written if the mutex
\* can be had, and the relay turns over when its coil comes on.
Poll ==
  /\ supply = 1
  /\ ir_relay_aux' = relay
  /\ pin' = IF orphaned THEN pin ELSE coil
  /\ \/ /\ pin = 0 /\ pin' = 1
        /\ relay' = 1 - relay
        /\ UNCHANGED misses
     \/ /\ pin = 0 /\ pin' = 1 /\ misses < MaxMisses
        /\ misses' = misses + 1
        /\ UNCHANGED relay
     \/ /\ ~(pin = 0 /\ pin' = 1)
        /\ UNCHANGED << relay, misses >>
  \* Another round with nothing to do does not count: it settles the contact.
  /\ polled' = (pin' = pin /\ ir_relay_aux' = relay')
  /\ UNCHANGED << relay_ir_state, taskVars, coil, supply, orphaned, disturbed, switches >>

\* Time goes on when no task is due and the poll task has had its rounds.
Tick ==
  /\ \A t \in Tasks : ~Due(t)
  /\ \E t \in Tasks : timer[t] > 0
  /\ supply = 1 => polled
  /\ timer' = [t \in Tasks |-> IF timer[t] > 0 THEN timer[t] - 1 ELSE 0]
  /\ polled' = FALSE
  /\ UNCHANGED << relay_ir_state, tpc, value, attempts, coil, ir_relay_aux, relayVars,
                  supply, orphaned, disturbed, switches >>

\* The desk supply goes off: the coil is let go, the relay stays as it is and
\* the contact's last reading stays in the buffer.
SupplyOff ==
  /\ supply = 1 /\ switches < MaxSwitches
  /\ switches' = switches + 1
  /\ supply' = 0
  /\ pin' = 0
  /\ disturbed' = TRUE
  /\ UNCHANGED << relay_ir_state, taskVars, coil, ir_relay_aux, relay, misses, orphaned,
                  polled >>

SupplyOn ==
  /\ supply = 0 /\ switches < MaxSwitches
  /\ switches' = switches + 1
  /\ supply' = 1
  /\ polled' = FALSE
  /\ UNCHANGED << relay_ir_state, taskVars, coil, ir_relay_aux, relayVars, orphaned,
                  disturbed >>
-----------------------------------------------------------------------------
\* input_logic_task has just started, a second after the poll task, and has
\* asked for the main state.  The relay may stand either way; its contact has
\* been read if the desk supply is on.
Init ==
  /\ relay_ir_state = RELAY_STATE_MAIN
  /\ tpc = [t \in Tasks |-> IF t = 1 THEN "check" ELSE "none"]
  /\ value = [t \in Tasks |-> RELAY_STATE_MAIN]
  /\ attempts = [t \in Tasks |-> IF t = 1 THEN Attempts ELSE 0]
  /\ timer = [t \in Tasks |-> 0]
  /\ coil = 0
  /\ pin = 0
  /\ relay \in {0, 1}
  /\ supply \in {s \in {0, 1} : MaxSwitches = 0 => s = 1}
  /\ ir_relay_aux = IF supply = 1 THEN relay ELSE 0
  /\ orphaned = FALSE
  /\ polled = FALSE
  /\ disturbed = (supply = 0)
  /\ misses = 0
  /\ switches = 0

Next ==
  \/ \E t \in Tasks : Toggle(t) \/ TaskChecks(t) \/ TaskReleases(t)
  \/ ClientDeleted
  \/ Poll
  \/ Tick
  \/ SupplyOff
  \/ SupplyOn

Spec == Init /\ [][Next]_vars

\* The tasks and the poll task run and time passes.
Fairness ==
  /\ \A t \in Tasks : WF_vars(TaskChecks(t) \/ TaskReleases(t))
  /\ WF_vars(Poll)
  /\ WF_vars(Tick)

FairSpec == Spec /\ Fairness
-----------------------------------------------------------------------------
TypeOK ==
  /\ relay_ir_state \in States
  /\ tpc \in [Tasks -> {"none", "check", "off", "done"}]
  /\ value \in [Tasks -> States]
  /\ attempts \in [Tasks -> 0 .. Attempts]
  /\ timer \in [Tasks -> 0 .. Pulse]
  /\ coil \in {0, 1} /\ ir_relay_aux \in {0, 1} /\ pin \in {0, 1} /\ relay \in {0, 1}
  /\ supply \in {0, 1}
  /\ orphaned \in BOOLEAN /\ polled \in BOOLEAN /\ disturbed \in BOOLEAN
  /\ misses \in 0 .. MaxMisses /\ switches \in 0 .. MaxSwitches

\* However many tasks have shared it, the coil is off once they are done: none
\* ends between its two writes of the coil, and both are made unless a deleted
\* task has kept the mutex.
CoilOffAtRest == AllDone /\ ~orphaned => coil = 0

\* The floodlights follow the camera: whatever happened before, a call made with no
\* task running and the desk supply on puts the relay the way input_logic_task
\* wants it once its task is done, although it may have missed all but the last of
\* the pulses.
RelayFollows == AllDone /\ ~disturbed => relay = relay_ir_state

\* The same however fast the IR button is pressed (README.md: the controller
\* "controls the mains contactor to activate the IR floodlights when in IR camera
\* mode").
RelayFollowsAnyway == AllDone /\ supply = 1 /\ ~orphaned => relay = relay_ir_state

\* Every call comes to an end, and the relay with it: its contact is read and its
\* coil let go, unless a deleted task has kept the mutex.
RelaySettles ==
  <>[](AllDone /\ (supply = 1 => (pin = 0 \/ orphaned) /\ ir_relay_aux = relay))
=============================================================================
