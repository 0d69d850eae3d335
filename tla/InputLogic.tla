----------------------------- MODULE InputLogic -----------------------------
(***************************************************************************)
(* input_logic_task of main.c: the one task that turns button events and   *)
(* route confirmations into route commands, panel LEDs, USB enables and    *)
(* the main/IR state of the show relay.                                    *)
(*                                                                         *)
(* The IR toggle is the only handler that gives up the processor half way  *)
(* (vTaskDelay after each secondary destination), so it is a loop of steps *)
(* here, driven by pc and loop; every other handler is one step.           *)
(*                                                                         *)
(* Route numbers keep the two forms of the code: 1-40 in the settings and  *)
(* the caches, 0-39 in messages, both uint8_t.                             *)
(***************************************************************************)
EXTENDS Integers, Sequences, FreeRTOSQueue

CONSTANTS
  NPanels,          \* button panels (4)
  NButtons,         \* buttons of a panel (6)
  NDests,           \* router outputs (40)
  settings,         \* struct Settings_Struct, fixed after boot
  InputQueueLen,    \* slots of input_event_queue (32)
  OutputQueueLen,   \* slots of ethernet_message_output_queue (64)
  PostedMessages    \* messages the other tasks may post to the input queue

Panels  == 0 .. NPanels - 1
Buttons == 0 .. NButtons - 1
Dests   == 0 .. NDests - 1
Byte    == 0 .. 255

RELAY_STATE_MAIN == 0
RELAY_STATE_IR   == 1

\* The source number that stands for "show relay, main or IR".
ShowRelay == 99

Settings ==
  [ routing_panel_sources                 : [Panels -> [Buttons -> Byte]],
    routing_panel_destinations            : [Panels -> Byte],
    show_relay_main_source                : Byte,
    show_relay_ir_source                  : Byte,
    usb_source_a                          : Byte,
    usb_source_b                          : Byte,
    show_relay_switched_destination_flags : [Dests -> {0, 1}] ]

ASSUME SizesAssumption ==
  /\ NPanels \in Nat \ {0}
  /\ NButtons \in Nat \ {0}
  /\ NDests \in 1 .. 255
  /\ InputQueueLen \in Nat \ {0}
  /\ OutputQueueLen \in Nat \ {0}

ASSUME SettingsAssumption == settings \in Settings

\* config/README.md allows 1-40 for a USB source; 0 is what the caches hold
\* before the first confirmation.
ASSUME UsbSourceAssumption == settings.usb_source_a # 0 /\ settings.usb_source_b # 0

VARIABLES
  relay_ir_state,             \* current main/IR state
  cache_panel_relay_states,   \* 1: this panel is on the show relay
  cache_panel_routing,        \* source last confirmed for each panel, 0: none
  usb_enable_a_state,
  usb_enable_b_state,
  pc,                         \* "wait" | "panels" | "dests": where the task is
  loop,                       \* panel or dest of the loop the toggle is in
  output_state_buffer,        \* the fields of local_io's buffer set from here
  ir_relay_target,            \* value given to the newest ir_relay_set_task
  input_event_queue,
  ethernet_message_output_queue

logicVars == << relay_ir_state, cache_panel_relay_states, cache_panel_routing,
                usb_enable_a_state, usb_enable_b_state, pc, loop,
                output_state_buffer, ir_relay_target >>
vars == << logicVars, input_event_queue, ethernet_message_output_queue >>
-----------------------------------------------------------------------------
(* Messages.  A struct's unused fields are left out.                       *)

RoutingMsg(panel, button) == [type |-> "ROUTING", panel |-> panel, panel_button |-> button]
ToggleMsg                 == [type |-> "IR_TOGGLE"]
ConfirmMsg(output, input) == [type |-> "ETHERNET", output |-> output, input |-> input]

\* panel_button is the debounced panel value less 1: 7, the value of a failed
\* expander read, makes it NButtons, one past the last button.
InputMessages ==
  [type : {"ROUTING"}, panel : Panels, panel_button : 0 .. NButtons]
    \cup {ToggleMsg}
    \cup [type : {"ETHERNET"}, output : Byte, input : Byte]

OutputMessages ==
  [type : {"ROUTING"}, input : Byte, output : Byte] \cup [type : {"ROUTEDUMP"}]

\* n - 1 passed as uint8_t.
Dec8(n) == (n + 255) % 256

RouteMsg(input, output) == [type |-> "ROUTING", input |-> input, output |-> output]

ASSUME PostedAssumption == PostedMessages \subseteq InputMessages

\* send_video_route: a full queue loses the command.
send_video_route(input, output) ==
  ethernet_message_output_queue' =
    xQueueSend(ethernet_message_output_queue, RouteMsg(input, output), OutputQueueLen)
-----------------------------------------------------------------------------
(* Helpers of the handlers.                                                *)

\* settings.routing_panel_sources[panel][button]: the rows lie one after the
\* other and routing_panel_destinations follows the last one, so a button one
\* past the end reads the next row or the first destination.
PanelSource(panel, button) ==
  IF button \in Buttons THEN settings.routing_panel_sources[panel][button]
  ELSE IF panel + 1 \in Panels THEN settings.routing_panel_sources[panel + 1][0]
  ELSE settings.routing_panel_destinations[0]

\* What the show relay shows in a main/IR state.
ShowRelaySource(state) ==
  IF state = RELAY_STATE_MAIN THEN settings.show_relay_main_source
                              ELSE settings.show_relay_ir_source

\* The panel the confirmation loop stops at: the first with this destination.
FirstPanelFor(panel, output) ==
  /\ output + 1 = settings.routing_panel_destinations[panel]
  /\ \A q \in Panels : q < panel => output + 1 # settings.routing_panel_destinations[q]

\* The button stands for this source, by itself or as the show relay.
Shows(panel, button, source) ==
  \/ source = settings.routing_panel_sources[panel][button]
  \/ /\ settings.routing_panel_sources[panel][button] = ShowRelay
     /\ source \in {settings.show_relay_main_source, settings.show_relay_ir_source}

\* found_button: the first button that shows the source, from 1, else 0.
FoundButton(panel, source, found) ==
  \/ /\ found = 0
     /\ \A b \in Buttons : ~Shows(panel, b, source)
  \/ /\ found - 1 \in Buttons
     /\ Shows(panel, found - 1, source)
     /\ \A b \in Buttons : b < found - 1 => ~Shows(panel, b, source)

\* Some panel is routed to the USB source.
UsbEnable(routing, usb_source) ==
  IF \E p \in Panels : routing[p] = usb_source THEN 1 ELSE 0

\* Mutant: the channel is worked out before the confirmation is cached.
NewUsbStateTooEarly(usb_source) == UsbEnable(cache_panel_routing, usb_source)

\* new_a_state, new_b_state: what the confirmed routes make of a channel.
NewUsbState(usb_source) == UsbEnable(cache_panel_routing', usb_source)

\* Mutant: an unlisted source leaves the old button lit.
NewLedsKept(panel, found) ==
  [output_state_buffer.led_panel EXCEPT ![panel] = IF found = 0 THEN @ ELSE found]

\* set_button_led_state: 0 turns the panel's LEDs off.
NewLeds(panel, found) == [output_state_buffer.led_panel EXCEPT ![panel] = found]

\* Mutant: the index is taken for a physical number.
FlaggedRoutePhysical(dest) == send_video_route(Dec8(ShowRelaySource(relay_ir_state)), Dec8(dest))

\* The toggle's command for a secondary destination, already counted from 0.
FlaggedRoute(dest) == send_video_route(Dec8(ShowRelaySource(relay_ir_state)), dest)

\* Mutant: the counter wraps before the loop condition fails.
DestsDoneWrapped == pc' = "dests" /\ loop' = 0

\* The toggle leaves its last loop.
DestsDone == pc' = "wait" /\ loop' = 0
-----------------------------------------------------------------------------
(* The handlers of the task loop.                                          *)

\* xQueueReceive of a message of this type; the task waits in no other place.
Receive(type) ==
  /\ pc = "wait"
  /\ input_event_queue # << >>
  /\ Head(input_event_queue).type = type
  /\ input_event_queue' = Tail(input_event_queue)

\* IN_MSG_TYP_ROUTING: a panel button asks for its source.
ProcessRouting ==
  /\ Receive("ROUTING")
  /\ LET panel  == Head(input_event_queue).panel
         chosen == PanelSource(panel, Head(input_event_queue).panel_button)
         input  == IF chosen = ShowRelay THEN ShowRelaySource(relay_ir_state) ELSE chosen
     IN  /\ cache_panel_relay_states' =
              [cache_panel_relay_states EXCEPT ![panel] = IF chosen = ShowRelay THEN 1 ELSE 0]
         /\ send_video_route(Dec8(input), Dec8(settings.routing_panel_destinations[panel]))
  /\ UNCHANGED << relay_ir_state, cache_panel_routing, usb_enable_a_state,
                  usb_enable_b_state, pc, loop, output_state_buffer, ir_relay_target >>

\* IN_MSG_TYP_IR_TOGGLE up to the loops: flip the state, the LED, the relay.
ProcessToggle ==
  /\ Receive("IR_TOGGLE")
  /\ relay_ir_state' = IF relay_ir_state = RELAY_STATE_MAIN THEN RELAY_STATE_IR
                                                            ELSE RELAY_STATE_MAIN
  /\ output_state_buffer' = [output_state_buffer EXCEPT !.ir_button_led = relay_ir_state']
  /\ ir_relay_target' = relay_ir_state'
  /\ pc' = "panels"
  /\ loop' = 0
  /\ UNCHANGED << cache_panel_relay_states, cache_panel_routing, usb_enable_a_state,
                  usb_enable_b_state, ethernet_message_output_queue >>

\* One round of the loop over the panels: follow the show relay if watching it.
TogglePanel ==
  /\ pc = "panels"
  /\ IF cache_panel_relay_states[loop] = 1
     THEN send_video_route(Dec8(ShowRelaySource(relay_ir_state)),
                           Dec8(settings.routing_panel_destinations[loop]))
     ELSE UNCHANGED ethernet_message_output_queue
  /\ IF loop + 1 \in Panels THEN pc' = "panels" /\ loop' = loop + 1
                            ELSE pc' = "dests" /\ loop' = 0
  /\ UNCHANGED << relay_ir_state, cache_panel_relay_states, cache_panel_routing,
                  usb_enable_a_state, usb_enable_b_state, output_state_buffer,
                  ir_relay_target, input_event_queue >>

\* One round of the loop over the destinations: a flagged one is switched and
\* the task sleeps for RELAY_CHANGEOVER_RIPPLE_INTERVAL.
ToggleDest ==
  /\ pc = "dests"
  /\ IF settings.show_relay_switched_destination_flags[loop] # 0
     THEN FlaggedRoute(loop)
     ELSE UNCHANGED ethernet_message_output_queue
  /\ IF loop + 1 \in Dests THEN pc' = "dests" /\ loop' = loop + 1
                           ELSE DestsDone
  /\ UNCHANGED << relay_ir_state, cache_panel_relay_states, cache_panel_routing,
                  usb_enable_a_state, usb_enable_b_state, output_state_buffer,
                  ir_relay_target, input_event_queue >>

\* IN_MSG_TYP_ETHERNET for a destination no panel has.
ProcessOtherConfirm ==
  /\ Receive("ETHERNET")
  /\ \A p \in Panels : Head(input_event_queue).output + 1 # settings.routing_panel_destinations[p]
  /\ UNCHANGED << logicVars, ethernet_message_output_queue >>

\* Mutant: a camera seen on a show relay button is not cached.
CacheConfirmNoCamera(panel, found, source) ==
  IF found = 0 \/ source # settings.routing_panel_sources[panel][found - 1]
  THEN UNCHANGED << cache_panel_relay_states, cache_panel_routing >>
  ELSE /\ cache_panel_routing' = [cache_panel_routing EXCEPT ![panel] = source % 256]
       /\ cache_panel_relay_states' = [cache_panel_relay_states EXCEPT ![panel] = 0]

\* Mutant: a confirmation always takes the panel off the show relay.
CacheConfirmOffRelay(panel, found, source) ==
  IF found = 0
  THEN UNCHANGED << cache_panel_relay_states, cache_panel_routing >>
  ELSE /\ cache_panel_routing' = [cache_panel_routing EXCEPT ![panel] = source % 256]
       /\ cache_panel_relay_states' = [cache_panel_relay_states EXCEPT ![panel] = 0]

\* The caches of the panel a confirmed source is on: unlisted sources leave
\* them alone.
CacheConfirm(panel, found, source) ==
  IF found = 0
  THEN UNCHANGED << cache_panel_relay_states, cache_panel_routing >>
  ELSE /\ cache_panel_routing' = [cache_panel_routing EXCEPT ![panel] = source % 256]
       /\ cache_panel_relay_states' =
            [cache_panel_relay_states EXCEPT ![panel] =
               IF source = settings.routing_panel_sources[panel][found - 1] THEN 0 ELSE 1]

\* IN_MSG_TYP_ETHERNET for one of our screens: caches, LED, then USB enables,
\* each of which is written out only when it changes.
ProcessScreenConfirm ==
  /\ Receive("ETHERNET")
  /\ \E panel \in Panels, found \in 0 .. NButtons :
       LET source == Head(input_event_queue).input + 1
           newA   == NewUsbState(settings.usb_source_a)
           newB   == NewUsbState(settings.usb_source_b)
       IN  /\ FirstPanelFor(panel, Head(input_event_queue).output)
           /\ FoundButton(panel, source, found)
           /\ CacheConfirm(panel, found, source)
           /\ usb_enable_a_state' = newA
           /\ usb_enable_b_state' = newB
           /\ output_state_buffer' =
                [output_state_buffer EXCEPT
                   !.led_panel    = NewLeds(panel, found),
                   !.usb_enable_a = IF newA # usb_enable_a_state THEN newA ELSE @,
                   !.usb_enable_b = IF newB # usb_enable_b_state THEN newB ELSE @]
  /\ UNCHANGED << relay_ir_state, pc, loop, ir_relay_target,
                  ethernet_message_output_queue >>

LogicNext ==
  \/ ProcessRouting
  \/ ProcessToggle
  \/ TogglePanel
  \/ ToggleDest
  \/ ProcessOtherConfirm
  \/ ProcessScreenConfirm
-----------------------------------------------------------------------------
(* What the other tasks do to the two queues.                              *)

\* A button release (local_io) or a confirmed route (ethernet) is posted.
PostInput(m) ==
  /\ input_event_queue' = xQueueSend(input_event_queue, m, InputQueueLen)
  /\ UNCHANGED << logicVars, ethernet_message_output_queue >>

\* request_route_dump, called when the desk supply comes up.
RequestRouteDump ==
  /\ ethernet_message_output_queue' =
       xQueueSend(ethernet_message_output_queue, [type |-> "ROUTEDUMP"], OutputQueueLen)
  /\ UNCHANGED << logicVars, input_event_queue >>

\* The TCP client takes the oldest command.
TakeOutput ==
  /\ ethernet_message_output_queue # << >>
  /\ ethernet_message_output_queue' = Tail(ethernet_message_output_queue)
  /\ UNCHANGED << logicVars, input_event_queue >>

EnvNext ==
  \/ \E m \in PostedMessages : PostInput(m)
  \/ RequestRouteDump
  \/ TakeOutput
-----------------------------------------------------------------------------
LogicInit ==
  /\ relay_ir_state = RELAY_STATE_MAIN
  /\ cache_panel_relay_states = [p \in Panels |-> 0]
  /\ cache_panel_routing = [p \in Panels |-> 0]
  /\ usb_enable_a_state = 0
  /\ usb_enable_b_state = 0
  /\ pc = "wait"
  /\ loop = 0
  /\ output_state_buffer = [ led_panel     |-> [p \in Panels |-> 0],
                             ir_button_led |-> 0,
                             usb_enable_a  |-> 0,
                             usb_enable_b  |-> 0 ]
  /\ ir_relay_target = RELAY_STATE_MAIN

Init ==
  /\ LogicInit
  /\ input_event_queue = << >>
  /\ ethernet_message_output_queue = << >>

Next == LogicNext \/ EnvNext

Spec == Init /\ [][Next]_vars
-----------------------------------------------------------------------------
TypeOK ==
  /\ relay_ir_state \in {RELAY_STATE_MAIN, RELAY_STATE_IR}
  /\ cache_panel_relay_states \in [Panels -> {0, 1}]
  /\ cache_panel_routing \in [Panels -> Byte]
  /\ usb_enable_a_state \in {0, 1}
  /\ usb_enable_b_state \in {0, 1}
  /\ pc \in {"wait", "panels", "dests"}
  /\ pc = "wait" => loop = 0
  /\ pc = "panels" => loop \in Panels
  /\ pc = "dests" => loop \in Dests
  /\ output_state_buffer \in [ led_panel     : [Panels -> 0 .. NButtons],
                               ir_button_led : {0, 1},
                               usb_enable_a  : {0, 1},
                               usb_enable_b  : {0, 1} ]
  /\ ir_relay_target \in {RELAY_STATE_MAIN, RELAY_STATE_IR}
  /\ input_event_queue \in Seq(InputMessages)
  /\ Len(input_event_queue) <= InputQueueLen
  /\ ethernet_message_output_queue \in Seq(OutputMessages)
  /\ Len(ethernet_message_output_queue) <= OutputQueueLen

\* The USB lines follow the screens: a channel's line in the output buffer is
\* on exactly when some panel's cached source is the channel's source, although
\* the code writes a line only when it thinks the line changes.
UsbFollowsScreens ==
  /\ output_state_buffer.usb_enable_a = UsbEnable(cache_panel_routing, settings.usb_source_a)
  /\ output_state_buffer.usb_enable_b = UsbEnable(cache_panel_routing, settings.usb_source_b)

\* A lit button is the first of its panel that shows the source cached for
\* the panel: the LED, written through local_io, and the cache that drives the
\* USB lines never tell two different stories about a lit panel.
LedAgreesWithCache ==
  \A p \in Panels :
    output_state_buffer.led_panel[p] # 0 =>
      FoundButton(p, cache_panel_routing[p], output_state_buffer.led_panel[p])
=============================================================================
