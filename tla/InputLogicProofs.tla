-------------------------- MODULE InputLogicProofs --------------------------
(***************************************************************************)
(* Theorems about InputLogic for every number of panels, buttons and       *)
(* outputs, every queue length and every settings file: the types, that    *)
(* the USB lines follow the cached routes, and that the LEDs agree with    *)
(* the cache that drives the USB lines.                                    *)
(***************************************************************************)
EXTENDS InputLogic, TLAPS

\* The task's own copy of a USB state is what it last wrote to the output
\* buffer: without this a skipped write could leave the line wrong.
UsbStateIsLine ==
  /\ usb_enable_a_state = output_state_buffer.usb_enable_a
  /\ usb_enable_b_state = output_state_buffer.usb_enable_b

\* The inductive strengthening of UsbFollowsScreens.
UsbInv == TypeOK /\ UsbStateIsLine /\ UsbFollowsScreens

\* The inductive strengthening of LedAgreesWithCache.
LedInv == TypeOK /\ LedAgreesWithCache
-----------------------------------------------------------------------------
(* Helpers.                                                                *)

\* A route number less 1 still fits a byte (0 becomes 255).
LEMMA Dec8Type == \A n \in Byte : Dec8(n) \in Byte
  BY DEF Dec8, Byte

\* xQueueSend keeps the type of a queue and its bound (local_io.c, ethernet.c).
LEMMA SendKeepsQueue ==
  ASSUME NEW S, NEW queue \in Seq(S), NEW item \in S, NEW length \in Nat,
         Len(queue) <= length
  PROVE  /\ xQueueSend(queue, item, length) \in Seq(S)
         /\ Len(xQueueSend(queue, item, length)) <= length
  <1>1. CASE QueueFull(queue, length)
    BY <1>1 DEF xQueueSend
  <1>2. CASE ~QueueFull(queue, length)
    <2>1. xQueueSend(queue, item, length) = Append(queue, item)
      BY <1>2 DEF xQueueSend
    <2>2. Len(queue) < length
      BY <1>2 DEF QueueFull
    <2> QED BY <2>1, <2>2
  <1> QED BY <1>1, <1>2

\* Taking the head leaves a queue of the same type and bound.
LEMMA TailKeepsQueue ==
  ASSUME NEW S, NEW queue \in Seq(S), NEW length \in Nat, queue # << >>,
         Len(queue) <= length
  PROVE  /\ Head(queue) \in S
         /\ Tail(queue) \in Seq(S)
         /\ Len(Tail(queue)) <= length
  OBVIOUS

\* The fields of the settings, each in its range (storage.c).
LEMMA SettingsTypes ==
  /\ settings.routing_panel_sources \in [Panels -> [Buttons -> Byte]]
  /\ settings.routing_panel_destinations \in [Panels -> Byte]
  /\ settings.show_relay_main_source \in Byte
  /\ settings.show_relay_ir_source \in Byte
  /\ settings.usb_source_a \in Byte
  /\ settings.usb_source_b \in Byte
  /\ settings.show_relay_switched_destination_flags \in [Dests -> {0, 1}]
  BY SettingsAssumption DEF Settings

\* The show relay's source is a byte in either state.
LEMMA ShowRelayType == \A state : ShowRelaySource(state) \in Byte
  BY SettingsTypes DEF ShowRelaySource

\* An output counted from 0 fits a byte.
LEMMA DestsFitByte == Dests \subseteq Byte
  BY SizesAssumption DEF Dests, Byte

\* A route command of two bytes is an output message.
LEMMA RouteMsgType ==
  \A input \in Byte, output \in Byte : RouteMsg(input, output) \in OutputMessages
  BY DEF RouteMsg, OutputMessages
-----------------------------------------------------------------------------
(* The messages at the head of the input queue.                            *)

\* What a handler receives is a message of its own type, with its fields.
LEMMA ReceivedTypes ==
  ASSUME TypeOK, NEW type, Receive(type)
  PROVE  /\ Head(input_event_queue) \in InputMessages
         /\ Head(input_event_queue).type = type
         /\ input_event_queue' \in Seq(InputMessages)
         /\ Len(input_event_queue') <= InputQueueLen
  <1>1. /\ input_event_queue \in Seq(InputMessages)
        /\ Len(input_event_queue) <= InputQueueLen
        /\ input_event_queue # << >>
        /\ input_event_queue' = Tail(input_event_queue)
        /\ Head(input_event_queue).type = type
    BY DEF TypeOK, Receive
  <1>2. InputQueueLen \in Nat
    BY SizesAssumption
  <1> QED BY <1>1, <1>2, TailKeepsQueue

\* A button message names a panel and a button or one past the last.
LEMMA RoutingFields ==
  ASSUME NEW m \in InputMessages, m.type = "ROUTING"
  PROVE  m.panel \in Panels /\ m.panel_button \in 0 .. NButtons
  BY DEF InputMessages, ToggleMsg

\* A confirmation carries two bytes.
LEMMA ConfirmFields ==
  ASSUME NEW m \in InputMessages, m.type = "ETHERNET"
  PROVE  m.output \in Byte /\ m.input \in Byte
  BY DEF InputMessages, ToggleMsg

\* The out-of-row read of a failed expander read still yields a byte.
LEMMA PanelSourceType ==
  ASSUME NEW panel \in Panels, NEW button \in 0 .. NButtons
  PROVE  PanelSource(panel, button) \in Byte
  <1>1. 0 \in Buttons /\ 0 \in Panels
    BY SizesAssumption DEF Buttons, Panels
  <1> QED BY <1>1, SettingsTypes DEF PanelSource

\* send_video_route of two bytes keeps the output queue typed and bounded.
LEMMA SendRouteType ==
  ASSUME TypeOK, NEW input \in Byte, NEW output \in Byte, send_video_route(input, output)
  PROVE  /\ ethernet_message_output_queue' \in Seq(OutputMessages)
         /\ Len(ethernet_message_output_queue') <= OutputQueueLen
  <1>1. RouteMsg(input, output) \in OutputMessages
    BY RouteMsgType
  <1>2. /\ ethernet_message_output_queue \in Seq(OutputMessages)
        /\ Len(ethernet_message_output_queue) <= OutputQueueLen
        /\ ethernet_message_output_queue' =
             xQueueSend(ethernet_message_output_queue, RouteMsg(input, output), OutputQueueLen)
    BY DEF TypeOK, send_video_route
  <1> QED BY <1>1, <1>2, SendKeepsQueue, SizesAssumption
-----------------------------------------------------------------------------
\* input_logic_task starts in a state of its types.
LEMMA InitTypeOK == Init => TypeOK
  <1> SUFFICES ASSUME Init PROVE TypeOK
    OBVIOUS
  <1>1. << >> \in Seq(InputMessages) /\ << >> \in Seq(OutputMessages)
    OBVIOUS
  <1>2. 0 \in Byte /\ 0 \in 0 .. NButtons
    BY SizesAssumption DEF Byte
  <1> QED
    BY <1>1, <1>2, SizesAssumption
    DEF Init, LogicInit, TypeOK, RELAY_STATE_MAIN, RELAY_STATE_IR

\* No handler, and no task posting to a queue, leaves the types.
LEMMA NextTypeOK == TypeOK /\ [Next]_vars => TypeOK'
  <1> SUFFICES ASSUME TypeOK, [Next]_vars PROVE TypeOK'
    OBVIOUS
  <1> USE SizesAssumption
  <1>1. CASE ProcessRouting
    <2> DEFINE m      == Head(input_event_queue)
               chosen == PanelSource(m.panel, m.panel_button)
               input  == IF chosen = ShowRelay THEN ShowRelaySource(relay_ir_state) ELSE chosen
    <2>1. /\ m \in InputMessages /\ m.type = "ROUTING"
          /\ input_event_queue' \in Seq(InputMessages)
          /\ Len(input_event_queue') <= InputQueueLen
      BY <1>1, ReceivedTypes DEF ProcessRouting
    <2>2. m.panel \in Panels /\ m.panel_button \in 0 .. NButtons
      BY <2>1, RoutingFields
    <2>3. chosen \in Byte
      BY <2>2, PanelSourceType
    <2>4. Dec8(input) \in Byte
      BY <2>3, ShowRelayType, Dec8Type
    <2>5. Dec8(settings.routing_panel_destinations[m.panel]) \in Byte
      BY <2>2, SettingsTypes, Dec8Type
    <2>6. send_video_route(Dec8(input), Dec8(settings.routing_panel_destinations[m.panel]))
      BY <1>1 DEF ProcessRouting
    <2>7. /\ ethernet_message_output_queue' \in Seq(OutputMessages)
          /\ Len(ethernet_message_output_queue') <= OutputQueueLen
      BY <2>4, <2>5, <2>6, SendRouteType
    <2>8. cache_panel_relay_states' \in [Panels -> {0, 1}]
      BY <1>1 DEF ProcessRouting, TypeOK
    <2> QED BY <1>1, <2>1, <2>7, <2>8 DEF ProcessRouting, TypeOK
  <1>2. CASE ProcessToggle
    <2>1. /\ input_event_queue' \in Seq(InputMessages)
          /\ Len(input_event_queue') <= InputQueueLen
      BY <1>2, ReceivedTypes DEF ProcessToggle
    <2>2. relay_ir_state' \in {0, 1}
      BY <1>2 DEF ProcessToggle, RELAY_STATE_MAIN, RELAY_STATE_IR
    <2>3. output_state_buffer' \in [ led_panel : [Panels -> 0 .. NButtons],
                                     ir_button_led : {0, 1},
                                     usb_enable_a : {0, 1}, usb_enable_b : {0, 1} ]
      BY <1>2, <2>2 DEF ProcessToggle, TypeOK
    <2>4. pc' = "panels" /\ loop' \in Panels
      BY <1>2 DEF ProcessToggle, Panels
    <2> QED BY <1>2, <2>1, <2>2, <2>3, <2>4
            DEF ProcessToggle, TypeOK, RELAY_STATE_MAIN, RELAY_STATE_IR
  <1>3. CASE TogglePanel
    <2>1. pc = "panels" /\ loop \in Panels
      BY <1>3 DEF TogglePanel, TypeOK
    <2>2. Dec8(settings.routing_panel_destinations[loop]) \in Byte
      BY <2>1, SettingsTypes, Dec8Type
    <2>3. Dec8(ShowRelaySource(relay_ir_state)) \in Byte
      BY ShowRelayType, Dec8Type
    <2>4. /\ ethernet_message_output_queue' \in Seq(OutputMessages)
          /\ Len(ethernet_message_output_queue') <= OutputQueueLen
      <3>1. CASE cache_panel_relay_states[loop] = 1
        BY <1>3, <2>2, <2>3, <3>1, SendRouteType DEF TogglePanel
      <3>2. CASE cache_panel_relay_states[loop] # 1
        BY <1>3, <3>2 DEF TogglePanel, TypeOK
      <3> QED BY <3>1, <3>2
    <2>5. \/ pc' = "panels" /\ loop' \in Panels
          \/ pc' = "dests" /\ loop' \in Dests
      BY <1>3 DEF TogglePanel, Dests
    <2> QED BY <1>3, <2>4, <2>5 DEF TogglePanel, TypeOK
  <1>4. CASE ToggleDest
    <2>1. pc = "dests" /\ loop \in Dests
      BY <1>4 DEF ToggleDest, TypeOK
    <2>2. Dec8(ShowRelaySource(relay_ir_state)) \in Byte
      BY ShowRelayType, Dec8Type
    <2>3. /\ ethernet_message_output_queue' \in Seq(OutputMessages)
          /\ Len(ethernet_message_output_queue') <= OutputQueueLen
      <3>1. CASE settings.show_relay_switched_destination_flags[loop] # 0
        <4>1. loop \in Byte
          BY <2>1, DestsFitByte
        <4> QED BY <1>4, <2>2, <3>1, <4>1, SendRouteType DEF ToggleDest, FlaggedRoute
      <3>2. CASE ~(settings.show_relay_switched_destination_flags[loop] # 0)
        BY <1>4, <3>2 DEF ToggleDest, TypeOK
      <3> QED BY <3>1, <3>2
    <2>4. \/ pc' = "dests" /\ loop' \in Dests
          \/ pc' = "wait" /\ loop' = 0
      BY <1>4 DEF ToggleDest, DestsDone
    <2> QED BY <1>4, <2>3, <2>4 DEF ToggleDest, TypeOK
  <1>5. CASE ProcessOtherConfirm
    <2>1. /\ input_event_queue' \in Seq(InputMessages)
          /\ Len(input_event_queue') <= InputQueueLen
      BY <1>5, ReceivedTypes DEF ProcessOtherConfirm
    <2> QED BY <1>5, <2>1 DEF ProcessOtherConfirm, TypeOK, logicVars
  <1>6. CASE ProcessScreenConfirm
    <2>1. /\ Head(input_event_queue) \in InputMessages
          /\ Head(input_event_queue).type = "ETHERNET"
          /\ input_event_queue' \in Seq(InputMessages)
          /\ Len(input_event_queue') <= InputQueueLen
      BY <1>6, ReceivedTypes DEF ProcessScreenConfirm
    <2>2. Head(input_event_queue).input \in Byte
      BY <2>1, ConfirmFields
    <2> DEFINE source == Head(input_event_queue).input + 1
    <2>3. source % 256 \in Byte
      BY <2>2 DEF Byte
    <2>4. PICK panel \in Panels, found \in 0 .. NButtons :
            /\ CacheConfirm(panel, found, source)
            /\ usb_enable_a_state' = NewUsbState(settings.usb_source_a)
            /\ usb_enable_b_state' = NewUsbState(settings.usb_source_b)
            /\ output_state_buffer' =
                 [output_state_buffer EXCEPT
                    !.led_panel    = NewLeds(panel, found),
                    !.usb_enable_a = IF NewUsbState(settings.usb_source_a) # usb_enable_a_state
                                     THEN NewUsbState(settings.usb_source_a) ELSE @,
                    !.usb_enable_b = IF NewUsbState(settings.usb_source_b) # usb_enable_b_state
                                     THEN NewUsbState(settings.usb_source_b) ELSE @]
      BY <1>6 DEF ProcessScreenConfirm
    <2>5. /\ cache_panel_routing' \in [Panels -> Byte]
          /\ cache_panel_relay_states' \in [Panels -> {0, 1}]
      <3> HIDE DEF source
      <3>1. CASE found = 0
        BY <2>4, <3>1 DEF CacheConfirm, TypeOK
      <3>2. CASE found # 0
        <4>1. cache_panel_routing' = [cache_panel_routing EXCEPT ![panel] = source % 256]
          BY <2>4, <3>2 DEF CacheConfirm
        <4>2. cache_panel_routing' \in [Panels -> Byte]
          BY <2>3, <4>1 DEF TypeOK
        <4>3. \E r \in {0, 1} :
                cache_panel_relay_states' = [cache_panel_relay_states EXCEPT ![panel] = r]
          BY <2>4, <3>2 DEF CacheConfirm
        <4> QED BY <4>2, <4>3 DEF TypeOK
      <3> QED BY <3>1, <3>2
    <2>6. /\ NewUsbState(settings.usb_source_a) \in {0, 1}
          /\ NewUsbState(settings.usb_source_b) \in {0, 1}
      BY DEF NewUsbState, UsbEnable
    <2>7. output_state_buffer' \in [ led_panel : [Panels -> 0 .. NButtons],
                                     ir_button_led : {0, 1},
                                     usb_enable_a : {0, 1}, usb_enable_b : {0, 1} ]
      <3>1. NewLeds(panel, found) \in [Panels -> 0 .. NButtons]
        BY DEF NewLeds, TypeOK
      <3> HIDE DEF source
      <3> QED BY <2>4, <2>6, <3>1 DEF TypeOK
    <2> QED BY <1>6, <2>1, <2>4, <2>5, <2>6, <2>7 DEF ProcessScreenConfirm, TypeOK
  <1>7. ASSUME NEW m \in PostedMessages, PostInput(m) PROVE TypeOK'
    <2>1. m \in InputMessages
      BY PostedAssumption
    <2>2. /\ input_event_queue' \in Seq(InputMessages)
          /\ Len(input_event_queue') <= InputQueueLen
      BY <1>7, <2>1, SendKeepsQueue DEF PostInput, TypeOK
    <2> QED BY <1>7, <2>2 DEF PostInput, TypeOK, logicVars
  <1>8. CASE RequestRouteDump
    <2>1. [type |-> "ROUTEDUMP"] \in OutputMessages
      BY DEF OutputMessages
    <2>2. /\ ethernet_message_output_queue' \in Seq(OutputMessages)
          /\ Len(ethernet_message_output_queue') <= OutputQueueLen
      BY <1>8, <2>1, SendKeepsQueue DEF RequestRouteDump, TypeOK
    <2> QED BY <1>8, <2>2 DEF RequestRouteDump, TypeOK, logicVars
  <1>9. CASE TakeOutput
    <2>1. /\ ethernet_message_output_queue' \in Seq(OutputMessages)
          /\ Len(ethernet_message_output_queue') <= OutputQueueLen
      BY <1>9, TailKeepsQueue DEF TakeOutput, TypeOK
    <2> QED BY <1>9, <2>1 DEF TakeOutput, TypeOK, logicVars
  <1>10. CASE UNCHANGED vars
    BY <1>10 DEF vars, logicVars, TypeOK
  <1> QED
    BY <1>1, <1>2, <1>3, <1>4, <1>5, <1>6, <1>7, <1>8, <1>9, <1>10
    DEF Next, LogicNext, EnvNext

\* input_logic_task and its two queues keep their types, whatever the other
\* tasks post and whatever the settings are.
THEOREM TypeCorrect == Spec => []TypeOK
  <1> QED BY InitTypeOK, NextTypeOK, PTL DEF Spec
-----------------------------------------------------------------------------
\* The steps that touch neither the USB states and lines nor the LEDs nor the
\* caches of routes: all but ProcessScreenConfirm.
LEMMA OtherStepsKeepScreens ==
  ASSUME TypeOK, [Next]_vars, ~ProcessScreenConfirm
  PROVE  /\ UNCHANGED << cache_panel_routing, usb_enable_a_state, usb_enable_b_state >>
         /\ output_state_buffer'.led_panel = output_state_buffer.led_panel
         /\ output_state_buffer'.usb_enable_a = output_state_buffer.usb_enable_a
         /\ output_state_buffer'.usb_enable_b = output_state_buffer.usb_enable_b
  <1>1. CASE ProcessToggle
    <2>1. output_state_buffer' = [output_state_buffer EXCEPT !.ir_button_led = relay_ir_state']
      BY <1>1 DEF ProcessToggle
    <2> QED BY <1>1, <2>1 DEF ProcessToggle, TypeOK
  <1>2. CASE \/ ProcessRouting \/ TogglePanel \/ ToggleDest \/ ProcessOtherConfirm
             \/ EnvNext \/ UNCHANGED vars
    BY <1>2 DEF ProcessRouting, TogglePanel, ToggleDest, ProcessOtherConfirm, EnvNext,
                PostInput, RequestRouteDump, TakeOutput, vars, logicVars
  <1> QED BY <1>1, <1>2 DEF Next, LogicNext

\* What a confirmation for one of the screens does, by the names of the code:
\* the panel and button found, the caches, the LED and the two lines.
LEMMA ScreenConfirmEffect ==
  ASSUME TypeOK, ProcessScreenConfirm
  PROVE  \E panel \in Panels, found \in 0 .. NButtons :
           LET source == Head(input_event_queue).input + 1
           IN  /\ source \in 1 .. 256
               /\ FoundButton(panel, source, found)
               /\ CacheConfirm(panel, found, source)
               /\ usb_enable_a_state' = NewUsbState(settings.usb_source_a)
               /\ usb_enable_b_state' = NewUsbState(settings.usb_source_b)
               /\ output_state_buffer'.led_panel =
                    [output_state_buffer.led_panel EXCEPT ![panel] = found]
               /\ output_state_buffer'.usb_enable_a =
                    IF NewUsbState(settings.usb_source_a) # usb_enable_a_state
                    THEN NewUsbState(settings.usb_source_a) ELSE output_state_buffer.usb_enable_a
               /\ output_state_buffer'.usb_enable_b =
                    IF NewUsbState(settings.usb_source_b) # usb_enable_b_state
                    THEN NewUsbState(settings.usb_source_b) ELSE output_state_buffer.usb_enable_b
  <1>1. Head(input_event_queue) \in InputMessages /\ Head(input_event_queue).type = "ETHERNET"
    BY ReceivedTypes DEF ProcessScreenConfirm
  <1> DEFINE source == Head(input_event_queue).input + 1
             newA   == NewUsbState(settings.usb_source_a)
             newB   == NewUsbState(settings.usb_source_b)
  <1>2. source \in 1 .. 256
    BY <1>1, ConfirmFields DEF Byte
  <1>3. PICK panel \in Panels, found \in 0 .. NButtons :
          /\ FoundButton(panel, source, found)
          /\ CacheConfirm(panel, found, source)
          /\ usb_enable_a_state' = newA
          /\ usb_enable_b_state' = newB
          /\ output_state_buffer' =
               [output_state_buffer EXCEPT
                  !.led_panel    = NewLeds(panel, found),
                  !.usb_enable_a = IF newA # usb_enable_a_state THEN newA ELSE @,
                  !.usb_enable_b = IF newB # usb_enable_b_state THEN newB ELSE @]
    BY DEF ProcessScreenConfirm
  <1> HIDE DEF source, newA, newB
  <1>4. /\ output_state_buffer'.led_panel = NewLeds(panel, found)
        /\ output_state_buffer'.usb_enable_a =
             IF newA # usb_enable_a_state THEN newA ELSE output_state_buffer.usb_enable_a
        /\ output_state_buffer'.usb_enable_b =
             IF newB # usb_enable_b_state THEN newB ELSE output_state_buffer.usb_enable_b
    BY <1>3 DEF TypeOK
  <1> QED BY <1>2, <1>3, <1>4 DEF NewLeds, source, newA, newB
-----------------------------------------------------------------------------
\* Before the first confirmation no cached route is a USB source, since a USB
\* source is not 0, and both lines are off.
LEMMA InitUsbInv == Init => UsbInv
  <1> SUFFICES ASSUME Init PROVE UsbStateIsLine /\ UsbFollowsScreens
    BY InitTypeOK DEF UsbInv
  <1>1. \A p \in Panels : cache_panel_routing[p] = 0
    BY DEF Init, LogicInit
  <1>2. /\ UsbEnable(cache_panel_routing, settings.usb_source_a) = 0
        /\ UsbEnable(cache_panel_routing, settings.usb_source_b) = 0
    BY <1>1, UsbSourceAssumption DEF UsbEnable
  <1> QED BY <1>2 DEF Init, LogicInit, UsbStateIsLine, UsbFollowsScreens

\* Every step keeps the lines in step with the cached routes.
LEMMA NextUsbInv == UsbInv /\ [Next]_vars => UsbInv'
  <1> SUFFICES ASSUME TypeOK, UsbStateIsLine, UsbFollowsScreens, [Next]_vars
               PROVE  (UsbStateIsLine /\ UsbFollowsScreens)'
    BY NextTypeOK DEF UsbInv
  <1>1. CASE ProcessScreenConfirm
    <2>1. /\ usb_enable_a_state' = NewUsbState(settings.usb_source_a)
          /\ usb_enable_b_state' = NewUsbState(settings.usb_source_b)
          /\ output_state_buffer'.usb_enable_a =
               IF NewUsbState(settings.usb_source_a) # usb_enable_a_state
               THEN NewUsbState(settings.usb_source_a) ELSE output_state_buffer.usb_enable_a
          /\ output_state_buffer'.usb_enable_b =
               IF NewUsbState(settings.usb_source_b) # usb_enable_b_state
               THEN NewUsbState(settings.usb_source_b) ELSE output_state_buffer.usb_enable_b
      BY <1>1, ScreenConfirmEffect
    <2>2. UsbStateIsLine'
      BY <2>1 DEF UsbStateIsLine
    <2> QED BY <2>1, <2>2 DEF UsbStateIsLine, UsbFollowsScreens, NewUsbState
  <1>2. CASE ~ProcessScreenConfirm
    BY <1>2, OtherStepsKeepScreens DEF UsbStateIsLine, UsbFollowsScreens
  <1> QED BY <1>1, <1>2

\* A USB line is on exactly when some panel's confirmed route is its source,
\* although the handler writes a line only when its own copy changes
\* (main.c, end of the IN_MSG_TYP_ETHERNET case).
THEOREM UsbLinesFollow == Spec => []UsbFollowsScreens
  <1>1. UsbInv => UsbFollowsScreens
    BY DEF UsbInv
  <1> QED BY InitUsbInv, NextUsbInv, <1>1, PTL DEF Spec
-----------------------------------------------------------------------------
\* A source some button shows is a real source number, so the uint8_t the
\* cache keeps of it is the source itself.
LEMMA ShownFitsByte ==
  ASSUME NEW panel \in Panels, NEW source \in 1 .. 256, NEW found \in 0 .. NButtons,
         found # 0, FoundButton(panel, source, found)
  PROVE  source % 256 = source
  <1>1. found - 1 \in Buttons /\ Shows(panel, found - 1, source)
    BY DEF FoundButton
  <1>2. source \in Byte
    BY <1>1, SettingsTypes DEF Shows
  <1> QED BY <1>2 DEF Byte

\* No LED is lit before the first confirmation.
LEMMA InitLedInv == Init => LedInv
  <1> SUFFICES ASSUME Init PROVE LedAgreesWithCache
    BY InitTypeOK DEF LedInv
  <1> QED BY DEF Init, LogicInit, LedAgreesWithCache

\* Every step keeps the LEDs and the cached routes together.
LEMMA NextLedInv == LedInv /\ [Next]_vars => LedInv'
  <1> SUFFICES ASSUME TypeOK, LedAgreesWithCache, [Next]_vars PROVE LedAgreesWithCache'
    BY NextTypeOK DEF LedInv
  <1>1. CASE ProcessScreenConfirm
    <2> DEFINE source == Head(input_event_queue).input + 1
    <2>1. PICK panel \in Panels, found \in 0 .. NButtons :
            /\ source \in 1 .. 256
            /\ FoundButton(panel, source, found)
            /\ CacheConfirm(panel, found, source)
            /\ output_state_buffer'.led_panel =
                 [output_state_buffer.led_panel EXCEPT ![panel] = found]
      BY <1>1, ScreenConfirmEffect
    <2> HIDE DEF source
    <2> SUFFICES ASSUME NEW p \in Panels, output_state_buffer'.led_panel[p] # 0
                 PROVE  FoundButton(p, cache_panel_routing'[p], output_state_buffer'.led_panel[p])
      BY DEF LedAgreesWithCache, FoundButton, Shows
    <2>2. output_state_buffer.led_panel \in [Panels -> 0 .. NButtons]
      BY DEF TypeOK
    <2>3. CASE p = panel
      <3>1. output_state_buffer'.led_panel[p] = found
        BY <2>1, <2>2, <2>3
      <3>2. cache_panel_routing' = [cache_panel_routing EXCEPT ![panel] = source % 256]
        BY <2>1, <3>1 DEF CacheConfirm
      <3>3. cache_panel_routing'[p] = source
        BY <2>1, <2>3, <3>1, <3>2, ShownFitsByte DEF TypeOK
      <3> QED BY <2>1, <2>3, <3>1, <3>3
    <2>4. CASE p # panel
      <3>1. output_state_buffer'.led_panel[p] = output_state_buffer.led_panel[p]
        BY <2>1, <2>2, <2>4
      <3>2. cache_panel_routing'[p] = cache_panel_routing[p]
        BY <2>1, <2>4 DEF CacheConfirm, TypeOK
      <3> QED BY <3>1, <3>2 DEF LedAgreesWithCache
    <2> QED BY <2>3, <2>4
  <1>2. CASE ~ProcessScreenConfirm
    BY <1>2, OtherStepsKeepScreens DEF LedAgreesWithCache, FoundButton, Shows
  <1> QED BY <1>1, <1>2

\* A lit button is the first of its panel that shows the source in the cache:
\* set_button_led_state and cache_panel_routing never disagree about a panel
\* with a lit button (main.c, IN_MSG_TYP_ETHERNET).
THEOREM LedsAgree == Spec => []LedAgreesWithCache
  <1>1. LedInv => LedAgreesWithCache
    BY DEF LedInv
  <1> QED BY InitLedInv, NextLedInv, <1>1, PTL DEF Spec
=============================================================================
