----------------------------- MODULE ConfigFile -----------------------------
(***************************************************************************)
(* storage.c: what a line of config.txt does to the settings.              *)
(*                                                                         *)
(* A line is what fgets and strtok make of it: its key, the panel in its   *)
(* brackets, and the numbers atoi reads behind the equals sign.  Comments, *)
(* blank lines and unknown keys are one key, "comment"; a line of nothing  *)
(* but equals signs has the key "=".                                       *)
(***************************************************************************)
EXTENDS Integers, SequencesExt

CONSTANTS
  NPanels,   \* button panels (4)
  NButtons,  \* buttons of a panel (6)
  NDests     \* router outputs (40)

ASSUME ConfigAssumption ==
  NPanels \in 1 .. 255 /\ NButtons \in 1 .. 255 /\ NDests \in 1 .. 247

Panels  == 0 .. NPanels - 1
Buttons == 0 .. NButtons - 1
Dests   == 0 .. NDests - 1
Octets  == 0 .. 3
Byte    == 0 .. 255

\* A line; without brackets it is for panel 0.  A port has no sign: -1 would be
\* stored as 2^32 - 1.
ConfigLine ==
  {line \in [key : STRING, panel : Panels, values : Seq(Int)] :
     /\ line.key \notin {"routing_panel_sources", "routing_panel_destinations"} => line.panel = 0
     /\ line.key = "router_port" => line.values \in Seq(Nat)}

SingleKeys == {"show_relay_main_source", "show_relay_ir_source", "usb_source_a", "usb_source_b"}

\* struct Settings_Struct.  The octets of router_ip are in the order they are
\* written in.
Settings ==
  [ routing_panel_sources                 : [Panels -> [Buttons -> Byte]],
    routing_panel_destinations            : [Panels -> Byte],
    show_relay_main_source                : Byte,
    show_relay_ir_source                  : Byte,
    usb_source_a                          : Byte,
    usb_source_b                          : Byte,
    show_relay_switched_destination_flags : [Dests -> {0, 1}],
    router_ip                             : [Octets -> Byte],
    router_port                           : Nat ]

\* get_settings, before it looks for a card.
Fallback ==
  [ routing_panel_sources                 |-> [p \in Panels |-> [b \in Buttons |-> b + 1]],
    routing_panel_destinations            |-> [p \in Panels |-> p + 1],
    show_relay_main_source                |-> 1,
    show_relay_ir_source                  |-> 2,
    usb_source_a                          |-> 3,
    usb_source_b                          |-> 4,
    show_relay_switched_destination_flags |-> [d \in Dests |-> 0],
    router_ip                             |-> [o \in Octets |-> << 192, 168, 11, 41 >>[o + 1]],
    router_port                           |-> 9990 ]
-----------------------------------------------------------------------------
(* The lists.                                                              *)

\* Mutant: the last source of a list is not read.
SourcesAfterShort(sources, values) ==
  [b \in Buttons |-> IF b + 1 < Len(values) THEN values[b + 1] % 256 ELSE sources[b]]

\* Mutant: sources are not cut to a byte.
SourcesAfterWide(sources, values) ==
  [b \in Buttons |-> IF b < Len(values) THEN values[b + 1] ELSE sources[b]]

\* A source the list does not reach keeps its value.
SourcesAfter(sources, values) ==
  [b \in Buttons |-> IF b < Len(values) THEN values[b + 1] % 256 ELSE sources[b]]

\* Mutant: the destinations count from 0.
FlagIndexFromZero(value) == value % 256

\* The place in the flags that a listed destination marks.
FlagIndex(value) == (value % 256) - 1

\* The struct has usb_source_b right before the flags, and router_ip and
\* router_port, low bytes first, right behind them.
BeyondStruct(value) == FlagIndex(value) >= NDests + 8

MarkFlag(settings, value) ==
  LET index == FlagIndex(value)
      byte  == << 1, 256, 65536, 16777216 >>[index - NDests - 3]
  IN CASE index = -1 -> [settings EXCEPT !.usb_source_b = 1]
       [] index \in Dests ->
            [settings EXCEPT !.show_relay_switched_destination_flags[index] = 1]
       [] index \in NDests .. NDests + 3 ->
            [settings EXCEPT !.router_ip[3 - (index - NDests)] = 1]
       [] index \in NDests + 4 .. NDests + 7 ->
            [settings EXCEPT !.router_port = @ - ((@ \div byte) % 256) * byte + byte]
       [] OTHER -> settings

\* The values of a line one after the other.
MarkFlags(settings, values) == FoldLeft(MarkFlag, settings, values)

\* temp_ip: an octet above 255 runs over into the one before it, an octet that is
\* not there is 0.
Address(values) ==
  LET octet(o) == IF o < Len(values) THEN values[o + 1] ELSE 0
      sum[o \in Octets] == octet(o) + (IF o = 3 THEN 0 ELSE sum[o + 1] \div 256)
  IN  [o \in Octets |-> sum[o] % 256]
-----------------------------------------------------------------------------
(* A line.                                                                 *)

\* The code goes on with a null pointer: always behind a line that has no key,
\* and behind a destination that has no value.
ReadsNull(line) ==
  line.key = "=" \/ (line.key = "routing_panel_destinations" /\ line.values = << >>)

\* The settings behind a line.  A key without a value is skipped, but for the
\* address, which is then 0.0.0.0.
SettingsAfter(settings, line) ==
  CASE line.key = "routing_panel_sources" ->
         [settings EXCEPT !.routing_panel_sources[line.panel] = SourcesAfter(@, line.values)]
    [] line.key = "routing_panel_destinations" /\ line.values # << >> ->
         [settings EXCEPT !.routing_panel_destinations[line.panel] = line.values[1] % 256]
    [] line.key \in SingleKeys /\ line.values # << >> ->
         [settings EXCEPT ![line.key] = line.values[1] % 256]
    [] line.key = "show_relay_switched_destination_flags" ->
         MarkFlags(settings, line.values)
    [] line.key = "router_ip" -> [settings EXCEPT !.router_ip = Address(line.values)]
    [] line.key = "router_port" /\ line.values # << >> ->
         [settings EXCEPT !.router_port = line.values[1]]
    [] OTHER -> settings
-----------------------------------------------------------------------------
(* What the file means, by its own comments (config/config.txt).           *)

Route == 1 .. NDests
Source == Route \cup {99}

\* The values the file allows.
Allowed(line) ==
  CASE line.key = "routing_panel_sources" ->
         Len(line.values) = NButtons /\ ToSet(line.values) \subseteq Source
    [] line.key = "routing_panel_destinations" \/ line.key \in SingleKeys ->
         Len(line.values) = 1 /\ line.values[1] \in Route
    [] line.key = "show_relay_switched_destination_flags" -> ToSet(line.values) \subseteq Route
    [] line.key = "router_ip" -> Len(line.values) = 4 /\ ToSet(line.values) \subseteq Byte
    [] line.key = "router_port" -> Len(line.values) = 1
    [] OTHER -> line.key = "comment"

\* The numbers of the last line for a key, and the fallback without one.
LastFor(file, key, panel, fallback) ==
  LET For(line) == line.key = key /\ line.panel = panel
      place == SelectLastInSeq(file, For)
  IN  IF place = 0 THEN fallback ELSE file[place].values

\* The settings that a file of allowed lines stands for.
Meaning(file) ==
  LET Single(key)    == LastFor(file, key, 0, << Fallback[key] >>)[1]
      Sources(p)     == LastFor(file, "routing_panel_sources", p,
                                [b \in 1 .. NButtons |-> Fallback.routing_panel_sources[p][b - 1]])
      Destination(p) == LastFor(file, "routing_panel_destinations", p,
                                << Fallback.routing_panel_destinations[p] >>)[1]
      Ip             == LastFor(file, "router_ip", 0,
                                [o \in 1 .. 4 |-> Fallback.router_ip[o - 1]])
      Listed(d)      == \E i \in DOMAIN file :
                          /\ file[i].key = "show_relay_switched_destination_flags"
                          /\ d \in ToSet(file[i].values)
  IN  [ routing_panel_sources      |-> [p \in Panels |-> [b \in Buttons |-> Sources(p)[b + 1]]],
        routing_panel_destinations |-> [p \in Panels |-> Destination(p)],
        show_relay_main_source     |-> Single("show_relay_main_source"),
        show_relay_ir_source       |-> Single("show_relay_ir_source"),
        usb_source_a               |-> Single("usb_source_a"),
        usb_source_b               |-> Single("usb_source_b"),
        show_relay_switched_destination_flags |-> [d \in Dests |-> IF Listed(d + 1) THEN 1 ELSE 0],
        router_ip                  |-> [o \in Octets |-> Ip[o + 1]],
        router_port                |-> Single("router_port") ]
=============================================================================
