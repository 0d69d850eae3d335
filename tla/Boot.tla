-------------------------------- MODULE Boot --------------------------------
(***************************************************************************)
(* app_main of main.c: settings from the card, Ethernet, local IO, a wait, *)
(* and then either the test mode or the logic task, depending on what      *)
(* input_poll_task has read by then.                                       *)
(*                                                                         *)
(* Time is counted in ticks once the poll task is there; a ready task runs *)
(* before the next tick.  Its registers are read without failures here;    *)
(* LocalInputs has those.                                                  *)
(***************************************************************************)
EXTENDS ConfigFile

CONSTANTS
  Files,                      \* what config.txt may be: sequences of lines
  BOOT_WAIT,                  \* ticks app_main waits for the buttons (100)
  PSU_ON_WAIT_TICKS,          \* (100, milliseconds in spite of its name)
  REFRESH_LOOP_TICKS,         \* (10, likewise)
  portTICK_PERIOD_MS,         \* (10)
  INPUT_DEBOUNCE_LOOP_COUNT,  \* (3)
  MaxTouches                  \* bound: changes of buttons and supply

ASSUME BootAssumption ==
  /\ BOOT_WAIT \in Nat /\ PSU_ON_WAIT_TICKS \in Nat /\ REFRESH_LOOP_TICKS \in Nat
  /\ portTICK_PERIOD_MS \in Nat \ {0} /\ REFRESH_LOOP_TICKS >= portTICK_PERIOD_MS
  /\ INPUT_DEBOUNCE_LOOP_COUNT \in Nat \ {0} /\ MaxTouches \in Nat

ASSUME FilesAssumption == \A f \in Files : f \in Seq(ConfigLine)

VARIABLES
  card,       \* "none" | "no file" | "file"
  file,       \* the lines of config.txt
  pc,         \* app_main: "start" | "card" | "read" | "ethernet" | "driver" | "io" |
              \* "wait" | "check" | "test" | "logic" | "crashed"
  lines,      \* lines not yet read
  settings,
  wake,       \* ticks until app_main looks at the buttons
  poll, due,  \* input_poll_task: "none" | "look" | "psu", ticks until it goes on
  board_live_i2c_setup,
  input_state_counts, input_debounced_buffer,
  supply, held,  \* the 12 V supply of the desk; the buttons people hold down
  touches,       \* bound counter, not from 0 where fewer changes are looked at
  created, used, \* history: queues and mutexes created and used
  steady,        \* history: nothing changed since the poll task started
  pressed        \* history: test buttons held down at some time since then

fileVars == << card, file, lines, settings >>
pollVars == << poll, due, board_live_i2c_setup, input_state_counts, input_debounced_buffer >>
people == << supply, held, touches, steady, pressed >>
vars == << fileVars, pc, wake, pollVars, people, created, used >>

\* The panels whose first buttons start the test mode.
TestPanels == {0, 2}
TestButton == 1
-----------------------------------------------------------------------------
(* app_main.                                                               *)

\* Mutant: local IO is set up before Ethernet.
AfterSwapped(step) ==
  CASE step = "read" -> "io" [] step = "io" -> "ethernet" [] step = "ethernet" -> "driver"
    [] step = "driver" -> "wait"

\* What app_main does next.
After(step) ==
  CASE step = "read" -> "ethernet" [] step = "ethernet" -> "driver" [] step = "driver" -> "io"
    [] step = "io" -> "wait"

CreateInputQueue ==
  /\ pc = "start"
  /\ pc' = "card"
  /\ settings' = Fallback
  /\ created' = created \cup {"input_event_queue"}
  /\ UNCHANGED << card, file, lines, wake, pollVars, people, used >>

\* init_sd_card and fopen; without card or file the fallback stays.
OpenFile ==
  /\ pc = "card"
  /\ pc' = IF card = "file" THEN "read" ELSE After("read")
  /\ UNCHANGED << fileVars, wake, pollVars, people, created, used >>

ReadLine ==
  /\ pc = "read" /\ lines # << >>
  /\ ~ReadsNull(Head(lines))
  /\ settings' = SettingsAfter(settings, Head(lines))
  /\ lines' = Tail(lines)
  /\ UNCHANGED << card, file, pc, wake, pollVars, people, created, used >>

\* A null pointer is read, or the flag of a large destination hits what the
\* controller cannot do without: it restarts, to read the same file again.
Crash ==
  /\ pc = "read" /\ lines # << >>
  /\ \/ ReadsNull(Head(lines))
     \/ /\ Head(lines).key = "show_relay_switched_destination_flags"
        /\ \E value \in ToSet(Head(lines).values) : BeyondStruct(value)
  /\ pc' = "crashed"
  /\ UNCHANGED << fileVars, wake, pollVars, people, created, used >>

EndOfFile ==
  /\ pc = "read" /\ lines = << >>
  /\ pc' = After("read")
  /\ UNCHANGED << fileVars, wake, pollVars, people, created, used >>

\* setup_ethernet up to the TCP/IP stack.
CreateQueues ==
  /\ pc = "ethernet"
  /\ pc' = After("ethernet")
  /\ created' = created \cup {"ethernet_message_output_queue", "ethernet_message_input_queue"}
  /\ UNCHANGED << fileVars, wake, pollVars, people, used >>

\* The rest of setup_ethernet.
StartDriver ==
  /\ pc = "driver"
  /\ pc' = After("driver")
  /\ UNCHANGED << fileVars, wake, pollVars, people, created, used >>

SetupLocalIo ==
  /\ pc = "io"
  /\ pc' = After("io")
  /\ created' = created \cup {"output_state_buffer_mutex", "input_state_buffer_mutex"}
  /\ poll' = "look" /\ due' = 0 /\ board_live_i2c_setup' = FALSE
  /\ pressed' = {p \in TestPanels : held[p] = TestButton}
  /\ UNCHANGED << fileVars, wake, input_state_counts, input_debounced_buffer, supply, held,
                  touches, steady, used >>

\* get_button_panel_state of the first test panel, and then of the second, with
\* whatever the poll task does in between.
StartLogic ==
  /\ pc' = "logic"
  /\ used' = used \cup {"input_state_buffer_mutex", "input_event_queue",
                        "output_state_buffer_mutex", "ethernet_message_output_queue"}

CheckFirst ==
  /\ pc = "wait" /\ wake = 0
  /\ IF input_debounced_buffer[0] = TestButton
     THEN pc' = "check" /\ used' = used \cup {"input_state_buffer_mutex"}
     ELSE StartLogic
  /\ UNCHANGED << fileVars, wake, pollVars, people, created >>

\* Mutant: the second panel is not looked at.
CheckFirstOnly ==
  /\ pc = "check"
  /\ pc' = "test"
  /\ UNCHANGED << fileVars, wake, pollVars, people, created, used >>

CheckSecond ==
  /\ pc = "check"
  /\ IF input_debounced_buffer[2] = TestButton THEN pc' = "test" /\ UNCHANGED used
                                               ELSE StartLogic
  /\ UNCHANGED << fileVars, wake, pollVars, people, created >>
-----------------------------------------------------------------------------
(* input_poll_task.                                                        *)

\* Mutant: the wait is in ticks, as its name says.
PsuWaitInTicks == PSU_ON_WAIT_TICKS

PsuWait == PSU_ON_WAIT_TICKS \div portTICK_PERIOD_MS

RefreshWait == REFRESH_LOOP_TICKS \div portTICK_PERIOD_MS

\* refresh_inputs: button_debounce of the two panels.
RefreshInputs ==
  /\ input_state_counts' =
       [p \in TestPanels |-> IF held[p] = 0 THEN 0 ELSE (input_state_counts[p] + 1) % 256]
  /\ input_debounced_buffer' =
       [p \in TestPanels |->
          IF input_state_counts'[p] >= INPUT_DEBOUNCE_LOOP_COUNT THEN held[p]
          ELSE IF held[p] = 0 THEN 0
          ELSE input_debounced_buffer[p]]
  /\ used' = used \cup {"input_state_buffer_mutex", "output_state_buffer_mutex"}
       \cup IF \E p \in TestPanels : held[p] = 0 /\ input_debounced_buffer[p] # 0
            THEN {"input_event_queue"} ELSE {}

\* The I2C transfers of a round take up to a tick.
Round ==
  /\ poll = "look" /\ due = 0 /\ supply /\ board_live_i2c_setup
  /\ RefreshInputs
  /\ due' \in RefreshWait .. RefreshWait + 1
  /\ UNCHANGED << fileVars, pc, wake, poll, board_live_i2c_setup, people, created >>

SupplyIsOn ==
  /\ poll = "look" /\ due = 0 /\ supply /\ ~board_live_i2c_setup
  /\ poll' = "psu" /\ due' = PsuWait
  /\ UNCHANGED << fileVars, pc, wake, board_live_i2c_setup, input_state_counts,
                  input_debounced_buffer, people, created, used >>

SupplyIsOff ==
  /\ poll = "look" /\ due = 0 /\ ~supply
  /\ board_live_i2c_setup' = FALSE
  /\ due' = RefreshWait
  /\ UNCHANGED << fileVars, pc, wake, poll, input_state_counts, input_debounced_buffer, people,
                  created, used >>

\* The expanders are set up and the router asked for its routes.
SetUpExpanders ==
  /\ poll = "psu" /\ due = 0
  /\ poll' = "look"
  /\ board_live_i2c_setup' = TRUE
  /\ used' = used \cup {"output_state_buffer_mutex", "ethernet_message_output_queue"}
  /\ UNCHANGED << fileVars, pc, wake, due, input_state_counts, input_debounced_buffer, people,
                  created >>
-----------------------------------------------------------------------------
(* Time and people.                                                        *)

Tick ==
  /\ poll # "none" /\ due > 0
  /\ pc \notin {"check", "test", "logic"} /\ ~(pc = "wait" /\ wake = 0)
  /\ due' = due - 1
  /\ wake' = IF pc = "wait" THEN wake - 1 ELSE wake
  /\ UNCHANGED << fileVars, pc, poll, board_live_i2c_setup, input_state_counts,
                  input_debounced_buffer, people, created, used >>

Change ==
  /\ poll # "none" /\ pc \notin {"test", "logic"}
  /\ touches < MaxTouches
  /\ touches' = touches + 1
  /\ steady' = FALSE

Touch(panel) ==
  /\ Change
  /\ \E code \in 0 .. 2 \ {held[panel]} : held' = [held EXCEPT ![panel] = code]
  /\ pressed' = pressed \cup {p \in TestPanels : held'[p] = TestButton}
  /\ UNCHANGED << fileVars, pc, wake, pollVars, supply, created, used >>

SwitchSupply ==
  /\ Change
  /\ supply' = ~supply
  /\ UNCHANGED << fileVars, pc, wake, pollVars, held, pressed, created, used >>
-----------------------------------------------------------------------------
Init ==
  /\ card \in {"none", "no file", "file"}
  /\ file \in IF card = "file" THEN Files ELSE {<< >>}
  /\ pc = "start" /\ lines = file /\ settings = Fallback
  /\ wake = BOOT_WAIT
  /\ poll = "none" /\ due = 0 /\ board_live_i2c_setup = FALSE
  /\ input_state_counts = [p \in TestPanels |-> 0]
  /\ input_debounced_buffer = [p \in TestPanels |-> 0]
  /\ supply \in BOOLEAN /\ held \in [TestPanels -> 0 .. 2]
  /\ touches \in 0 .. MaxTouches
  /\ created = {} /\ used = {}
  /\ steady = TRUE /\ pressed = {}

AppMain ==
  \/ CreateInputQueue \/ OpenFile \/ ReadLine \/ Crash \/ EndOfFile
  \/ CreateQueues \/ StartDriver \/ SetupLocalIo
  \/ CheckFirst \/ CheckSecond

PollTask == Round \/ SupplyIsOn \/ SupplyIsOff \/ SetUpExpanders

Next ==
  \/ AppMain
  \/ PollTask
  \/ Tick
  \/ \E panel \in TestPanels : Touch(panel)
  \/ SwitchSupply

Spec == Init /\ [][Next]_vars
-----------------------------------------------------------------------------
TypeOK ==
  /\ card \in {"none", "no file", "file"} /\ (card = "file" => file \in Files)
  /\ pc \in {"start", "card", "read", "ethernet", "driver", "io", "wait", "check", "test",
             "logic", "crashed"}
  /\ IsSuffix(lines, file)
  /\ settings \in Settings
  /\ wake \in 0 .. BOOT_WAIT
  /\ poll \in {"none", "look", "psu"} /\ due \in 0 .. PsuWait \cup 0 .. RefreshWait + 1
  /\ board_live_i2c_setup \in BOOLEAN
  /\ input_state_counts \in [TestPanels -> Byte]
  /\ input_debounced_buffer \in [TestPanels -> 0 .. 2]
  /\ supply \in BOOLEAN /\ held \in [TestPanels -> 0 .. 2]
  /\ touches \in 0 .. MaxTouches
  /\ steady \in BOOLEAN /\ pressed \subseteq TestPanels

\* A file that keeps to the values its comments allow is read to its end and
\* gives the settings it stands for: the last line for a setting counts, all
\* lists of switched destinations together, the fallback for the rest.
SettingsMatchFile ==
  (\A i \in DOMAIN file : Allowed(file[i]))
    => /\ pc # "crashed"
       /\ pc \notin {"start", "card", "read"} => settings = Meaning(file)

\* A setting the file has no line for keeps its fallback, whatever values the
\* other lines have, as long as the switched destinations are router outputs.
OthersKeepFallback ==
  LET Named(key) == \E i \in DOMAIN file : file[i].key = key
      InRange(line) == line.key = "show_relay_switched_destination_flags"
                         => \A i \in DOMAIN line.values : line.values[i] % 256 \in Route
  IN  (\A i \in DOMAIN file : InRange(file[i]))
        => \A key \in DOMAIN settings : Named(key) \/ settings[key] = Fallback[key]

\* No modelled call of app_main or of the tasks of the buttons and of the logic
\* uses a queue or a mutex that is not there yet: setup_ethernet comes before setup_local_io, whose
\* poll task asks for the routes.
CreatedBeforeUse == used \subseteq created

\* Who holds down both test buttons from the beginning, with the supply on, gets
\* the test mode.
TestModeIfHeld ==
  pc = "logic" /\ steady /\ supply => \E p \in TestPanels : held[p] # TestButton

\* Who has not pressed both gets the logic task.
TestModeOnlyIfPressed == pc = "test" => pressed = TestPanels
=============================================================================
