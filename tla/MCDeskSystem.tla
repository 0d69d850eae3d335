---------------------------- MODULE MCDeskSystem ----------------------------
(***************************************************************************)
(* A desk of two panels with two buttons and three router outputs: outputs *)
(* 0 and 1 are the panels' screens, output 2 is switched with the show     *)
(* relay.  Sources (1-40 form): 2 is USB A, 3 is USB B, 4 the main camera, *)
(* 5 the IR camera, 6 has no button.                                       *)
(***************************************************************************)
EXTENDS DeskSystem, TLC

DeskSettings ==
  [ routing_panel_sources |->
      [p \in 0 .. 1 |-> [b \in 0 .. 1 |-> IF b = 0 THEN ShowRelay ELSE 2 + p]],
    routing_panel_destinations |-> [p \in 0 .. 1 |-> p + 1],
    show_relay_main_source |-> 4,
    show_relay_ir_source |-> 5,
    usb_source_a |-> 2,
    usb_source_b |-> 3,
    show_relay_switched_destination_flags |-> [d \in 0 .. 2 |-> IF d = 2 THEN 1 ELSE 0] ]

\* A button of each panel, and the button one past the end that a failed read
\* of the last panel stands for.
DeskPresses ==
  {RoutingMsg(0, 0), RoutingMsg(1, 1), RoutingMsg(1, 2), ToggleMsg}

\* Real buttons only.
ButtonPresses == [type : {"ROUTING"}, panel : {0, 1}, panel_button : {0, 1}] \cup {ToggleMsg}

\* The show relay outputs in step with the main camera, screens on USB A and on
\* a source no button has.
InStep == { (0 :> 1 @@ 1 :> 5 @@ 2 :> 3) }
=============================================================================
