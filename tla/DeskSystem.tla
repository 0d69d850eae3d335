----------------------------- MODULE DeskSystem -----------------------------
(***************************************************************************)
(* The desk and the video router end to end: the input logic task, its two *)
(* bounded queues, the TCP link and the router, with other control panels  *)
(* switching the router too, the link failing and coming back, and the     *)
(* controller restarting while the router keeps its routes.                *)
(*                                                                         *)
(* The router and the link are modelled as the firmware relies on them.    *)
(* The inside of the TCP client (sockets, reassembly, line parser) is      *)
(* reduced to three facts: a command taken from the queue is sent or lost  *)
(* with the connection, confirmations arrive in order, and the parser may  *)
(* lose one (it does when a block is cut between two reads).               *)
(***************************************************************************)
EXTENDS InputLogic

CONSTANTS
  Inputs,        \* router inputs in use, as numbered on the wire
  InitialRoutes, \* what the router may show when the controller first starts
  OtherDests,    \* outputs that other control panels also switch
  MaxPresses,    \* bound: button releases
  MaxExternal,   \* bound: routes made by other control panels
  MaxFaults,     \* bound: link failures, lost lines, restarts, supply cycles
  LineLoss,      \* the line parser may lose a confirmation
  Restarts       \* the controller may restart

ASSUME RouterAssumption ==
  /\ Inputs \subseteq Byte
  /\ InitialRoutes \subseteq [Dests -> Inputs]
  /\ OtherDests \subseteq Dests
  /\ MaxPresses \in Nat /\ MaxExternal \in Nat /\ MaxFaults \in Nat
  /\ LineLoss \in BOOLEAN /\ Restarts \in BOOLEAN

VARIABLES
  route,          \* the router: input shown on each output
  link,           \* "up" | "down": the TCP connection
  to_router,      \* commands sent and not yet handled by the router
  from_router,    \* confirmation lines not yet handled by tcp_recv_task
  presses,        \* bound counters
  external,
  faults,
  confirm_lost,   \* history: a confirmation was lost since the last full dump
  toggled,        \* history: the IR button was handled since the start, and no
                  \* command was lost since
  hasty,          \* history: a button was pressed before the press before it
                  \* had come through, or while a confirmation was missing
  asked           \* history: source each panel last asked for, 0: none since
                  \* the start and since a command was last lost

netVars  == << route, link, to_router, from_router >>
bounds   == << presses, external, faults >>
history  == << confirm_lost, toggled, hasty, asked >>
deskVars == << vars, netVars, bounds, history >>

NothingAsked == [p \in Panels |-> 0]

\* Nothing is under way between the desk and the router.
Quiet ==
  /\ pc = "wait" /\ input_event_queue = << >> /\ ethernet_message_output_queue = << >>
  /\ link = "up" /\ to_router = << >> /\ from_router = << >>
-----------------------------------------------------------------------------
(* The controller.                                                         *)

\* This step of the logic task calls send_video_route.
SendsRoute ==
  \/ pc = "wait" /\ Head(input_event_queue).type = "ROUTING"
  \/ pc = "panels" /\ cache_panel_relay_states[loop] = 1
  \/ pc = "dests" /\ settings.show_relay_switched_destination_flags[loop] # 0

\* A full queue drops the command it sends.
RouteDropped == SendsRoute /\ QueueFull(ethernet_message_output_queue, OutputQueueLen)

\* What the panels have asked for once a press was handled.
AskedNow ==
  IF ProcessRouting
  THEN [asked EXCEPT ![Head(input_event_queue).panel] =
          PanelSource(Head(input_event_queue).panel, Head(input_event_queue).panel_button)]
  ELSE asked

Logic ==
  /\ LogicNext
  /\ toggled' = (ProcessToggle \/ (toggled /\ ~RouteDropped))
  /\ asked' = IF RouteDropped THEN NothingAsked ELSE AskedNow
  /\ UNCHANGED << netVars, bounds, confirm_lost, hasty >>

\* A button is pressed and released: its message reaches the queue, or not.
Press ==
  /\ presses < MaxPresses
  /\ presses' = presses + 1
  /\ hasty' = (hasty \/ ~Quiet \/ confirm_lost)
  /\ \E m \in PostedMessages : PostInput(m)
  /\ UNCHANGED << netVars, external, faults, confirm_lost, toggled, asked >>

\* The desk supply came up: ask the router for all its routes.
SupplyOn ==
  /\ faults < MaxFaults
  /\ faults' = faults + 1
  /\ RequestRouteDump
  /\ UNCHANGED << netVars, presses, external, history >>

\* Mutant: the command is sent, connection or not.
TcpSendAnyway ==
  /\ TakeOutput
  /\ to_router' = Append(to_router, Head(ethernet_message_output_queue))
  /\ UNCHANGED << route, link, from_router, bounds, history >>

\* The TCP client sends the oldest command on the open connection.
TcpSend ==
  /\ link = "up"
  /\ TakeOutput
  /\ to_router' = Append(to_router, Head(ethernet_message_output_queue))
  /\ UNCHANGED << route, link, from_router, bounds, history >>

\* tcp_recv_task hands one confirmation to the input queue: a full queue drops
\* it.
TcpRecv ==
  /\ from_router # << >>
  /\ from_router' = Tail(from_router)
  /\ PostInput(Head(from_router))
  /\ confirm_lost' = (confirm_lost \/ QueueFull(input_event_queue, InputQueueLen))
  /\ UNCHANGED << route, link, to_router, bounds, toggled, hasty, asked >>

\* The line is cut by the end of a read and its second half ignored.
TcpRecvLoses ==
  /\ LineLoss
  /\ from_router # << >>
  /\ faults < MaxFaults
  /\ faults' = faults + 1
  /\ from_router' = Tail(from_router)
  /\ confirm_lost' = TRUE
  /\ UNCHANGED << vars, route, link, to_router, presses, external, toggled, hasty, asked >>
-----------------------------------------------------------------------------
(* The router and the network.                                             *)

\* One confirmation line for every output, in order.
Dump == [d \in 1 .. NDests |-> ConfirmMsg(d - 1, route[d - 1])]

\* The router switches an output and tells every connected client.
RouterRoutes(output, input) ==
  /\ route' = [route EXCEPT ![output] = input]
  /\ from_router' = IF link = "up" THEN Append(from_router, ConfirmMsg(output, input))
                                   ELSE from_router

RouterHandles ==
  /\ to_router # << >>
  /\ to_router' = Tail(to_router)
  /\ LET command == Head(to_router)
     IN  \/ /\ command.type = "ROUTING"
            /\ command.output \in Dests /\ command.input \in Inputs
            /\ RouterRoutes(command.output, command.input)
         \/ /\ command.type = "ROUTEDUMP"
            /\ from_router' = from_router \o Dump
            /\ UNCHANGED route
         \/ /\ command.type = "ROUTING"
            /\ command.output \notin Dests \/ command.input \notin Inputs
            /\ UNCHANGED << route, from_router >>
  /\ UNCHANGED << vars, link, bounds, history >>

\* Another control panel of the theatre switches an output.
OtherPanelRoutes ==
  /\ external < MaxExternal
  /\ external' = external + 1
  /\ \E output \in OtherDests, input \in Inputs : RouterRoutes(output, input)
  /\ UNCHANGED << vars, link, to_router, presses, faults, history >>

\* A command is lost with the connection: on its way, or in the client's hand.
LinkLoses == to_router # << >> \/ ethernet_message_output_queue' # ethernet_message_output_queue

\* The connection fails: what was in flight either way is gone, and with it
\* the command the client had just taken from the queue, if any.
Disconnect ==
  /\ link = "up"
  /\ faults < MaxFaults
  /\ faults' = faults + 1
  /\ link' = "down"
  /\ \/ UNCHANGED vars
     \/ TakeOutput
  /\ toggled' = (toggled /\ ~LinkLoses)
  /\ asked' = IF LinkLoses THEN NothingAsked ELSE asked
  /\ to_router' = << >>
  /\ from_router' = << >>
  /\ confirm_lost' = TRUE
  /\ UNCHANGED << route, presses, external, hasty >>

\* The client connects again and the router greets it with all its routes.
Connect ==
  /\ link = "down"
  /\ link' = "up"
  /\ from_router' = Dump
  /\ confirm_lost' = FALSE
  /\ UNCHANGED << vars, route, to_router, bounds, toggled, hasty, asked >>

\* The controller restarts: its state and queues start over, the router's
\* routes do not.
Restart ==
  /\ Restarts
  /\ faults < MaxFaults
  /\ faults' = faults + 1
  /\ relay_ir_state' = RELAY_STATE_MAIN
  /\ cache_panel_relay_states' = [p \in Panels |-> 0]
  /\ cache_panel_routing' = [p \in Panels |-> 0]
  /\ usb_enable_a_state' = 0 /\ usb_enable_b_state' = 0
  /\ pc' = "wait" /\ loop' = 0
  /\ output_state_buffer' = [ led_panel     |-> [p \in Panels |-> 0],
                              ir_button_led |-> 0,
                              usb_enable_a  |-> 0,
                              usb_enable_b  |-> 0 ]
  /\ ir_relay_target' = RELAY_STATE_MAIN
  /\ input_event_queue' = << >>
  /\ ethernet_message_output_queue' = << >>
  /\ link' = "down"
  /\ to_router' = << >>
  /\ from_router' = << >>
  /\ confirm_lost' = TRUE
  /\ toggled' = FALSE
  /\ hasty' = FALSE
  /\ asked' = NothingAsked
  /\ UNCHANGED << route, presses, external >>
-----------------------------------------------------------------------------
DeskInit ==
  /\ Init
  /\ route \in InitialRoutes
  /\ link = "down"
  /\ to_router = << >>
  /\ from_router = << >>
  /\ presses = 0 /\ external = 0 /\ faults = 0
  /\ confirm_lost = TRUE
  /\ toggled = FALSE
  /\ hasty = FALSE
  /\ asked = NothingAsked

DeskNext ==
  \/ Logic
  \/ Press
  \/ SupplyOn
  \/ TcpSend
  \/ TcpRecv
  \/ TcpRecvLoses
  \/ RouterHandles
  \/ OtherPanelRoutes
  \/ Disconnect
  \/ Connect
  \/ Restart

DeskSpec == DeskInit /\ [][DeskNext]_deskVars

\* The tasks run whenever they can (equal priorities are time sliced) and the
\* router answers; nobody has to press, fail or restart anything.
DeskFairness ==
  /\ WF_deskVars(Logic)
  /\ WF_deskVars(TcpSend)
  /\ WF_deskVars(TcpRecv)
  /\ WF_deskVars(RouterHandles)
  /\ WF_deskVars(Connect)

FairDeskSpec == DeskSpec /\ DeskFairness
-----------------------------------------------------------------------------
\* The types beyond those of InputLogic; nothing is on a line that is down.
DeskTypeOK ==
  /\ route \in [Dests -> Inputs]
  /\ link \in {"up", "down"}
  /\ to_router \in Seq(OutputMessages)
  /\ from_router \in Seq([type : {"ETHERNET"}, output : Dests, input : Inputs])
  /\ link = "down" => to_router = << >> /\ from_router = << >>
  /\ presses \in 0 .. MaxPresses /\ external \in 0 .. MaxExternal /\ faults \in 0 .. MaxFaults
  /\ confirm_lost \in BOOLEAN /\ toggled \in BOOLEAN /\ hasty \in BOOLEAN
  /\ asked \in [Panels -> Byte]

\* The source, 1-40, on a panel's screen.
OnScreen(panel) == route[settings.routing_panel_destinations[panel] - 1] + 1

Listed(panel) == \E b \in Buttons : Shows(panel, b, OnScreen(panel))

\* Once everything has settled the lit button of every panel is the one that
\* stands for what the router really shows on its screen, whoever switched it,
\* unless a confirmation was lost after the last full dump (set_button_led_state
\* in the confirm handler).
LedsShowRoutes ==
  Quiet /\ ~confirm_lost =>
    \A p \in Panels : FoundButton(p, OnScreen(p), output_state_buffer.led_panel[p])

\* A USB line is on when its source is on a screen whose panel has a button for
\* it, and off when every screen shows another source its panel has a button for.
UsbAgrees(usb_line, usb_source) ==
  /\ (\E p \in Panels : Listed(p) /\ OnScreen(p) = usb_source) => usb_line = 1
  /\ (\A p \in Panels : Listed(p) /\ OnScreen(p) # usb_source) => usb_line = 0

\* Once settled, each USB line follows the screens whose panels have a button for
\* what they show, whatever the other screens show; those may keep a line on, as
\* the cache behind them is not written (cache_panel_routing).
UsbShowsListedRoutes ==
  Quiet /\ ~confirm_lost =>
    /\ UsbAgrees(output_state_buffer.usb_enable_a, settings.usb_source_a)
    /\ UsbAgrees(output_state_buffer.usb_enable_b, settings.usb_source_b)

\* Outputs switched with the show relay and left alone by everybody else.
SwitchedDests ==
  {d \in Dests \ OtherDests : settings.show_relay_switched_destination_flags[d] # 0}

\* The building's show relay outputs follow the IR button: once settled after a
\* toggle, with no command lost since, they all show the camera of the current
\* state, whatever was lost before it or forgotten in a restart.
SwitchedDestsFollow ==
  Quiet /\ toggled =>
    \A d \in SwitchedDests : route[d] = Dec8(ShowRelaySource(relay_ir_state))

\* A panel nobody else switches shows what its last button press asked for, if
\* the router has such an input: that source, or the camera of the current
\* main/IR state if it asked for the show relay.
ShowsLastPress(panel) ==
  asked[panel] \in {ShowRelay} \cup {i + 1 : i \in Inputs}
      /\ settings.routing_panel_destinations[panel] - 1 \notin OtherDests =>
    OnScreen(panel) = IF asked[panel] = ShowRelay THEN ShowRelaySource(relay_ir_state)
                                                  ELSE asked[panel]

\* Once settled every panel shows its last press, through any number of main/IR
\* toggles, if no command was lost since it and each press came after the one
\* before it had come through (cache_panel_relay_states and the toggle).  What was
\* lost before it does no harm.
LastPressStands ==
  Quiet /\ ~hasty => \A p \in Panels : ShowsLastPress(p)

\* The same however fast the buttons are pressed: cache_panel_relay_states says
\* "if a button panel is currently viewing show relay and therefore if we need
\* to do a main/IR switch for it" (main.c).
LastPressStandsHasty ==
  Quiet => \A p \in Panels : ShowsLastPress(p)

\* Everything the desk was asked to do comes to an end: with no more presses
\* and faults, the queues drain, the toggle finishes and the link comes back.
Settles == <>[]Quiet
=============================================================================
