------------------------------- MODULE MCBoot -------------------------------
(***************************************************************************)
(* The sizes of the firmware and files of up to two lines, every kind of   *)
(* line with values allowed and not; waits in the order of the firmware's, *)
(* shortened.  Buttons are pressed and the supply is on only with a card   *)
(* without a file: what they do does not depend on the settings.           *)
(***************************************************************************)
EXTENDS Boot

Line(key, panel, values) == [key |-> key, panel |-> panel, values |-> values]

MCLines ==
  {Line("comment", 0, << >>), Line("=", 0, << >>)}
    \cup {Line("routing_panel_sources", p, v) : p \in {0, 3},
            v \in {<< >>, << 7, 300 >>, << 99, 6, 5, 4, 2, 40 >>}}
    \cup {Line("routing_panel_destinations", p, v) : p \in {0, 3}, v \in {<< >>, << 40 >>}}
    \cup {Line(key, 0, v) : key \in SingleKeys, v \in {<< >>, << 1 >>, << 256 >>}}
    \cup {Line("show_relay_switched_destination_flags", 0, v) :
            v \in {<< >>, << 1, 40 >>, << 13 >>, << 0 >>, << 41, 256 >>, << 46 >>, << 49 >>}}
    \cup {Line("router_ip", 0, v) : v \in {<< >>, << 10, 0, 0, 255 >>, << 10, 0, 255, 257 >>}}
    \cup {Line("router_port", 0, v) : v \in {<< >>, << 9991 >>}}

MCFiles == {<< >>} \cup {<< l >> : l \in MCLines} \cup {<< l, m >> : l \in MCLines, m \in MCLines}

MCInit ==
  /\ Init
  /\ IF card = "no file" THEN touches = 0
     ELSE touches = MaxTouches /\ ~supply /\ held = [p \in TestPanels |-> 0]

MCSpec == MCInit /\ [][Next]_vars
=============================================================================
