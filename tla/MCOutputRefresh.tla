-------------------------- MODULE MCOutputRefresh --------------------------
(***************************************************************************)
(* Two writers, input_logic_task and a task of the TCP client, and two     *)
(* fields: the LEDs of panel 1, which lie across two registers, and the    *)
(* Ethernet warning light, alone in a third.                               *)
(***************************************************************************)
EXTENDS OutputRefresh, TLC

DeskRegsOf == "led_panel_1" :> {0, 1} @@ "ethernet_fail_led" :> {2}
=============================================================================
