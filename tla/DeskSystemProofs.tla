-------------------------- MODULE DeskSystemProofs --------------------------
(***************************************************************************)
(* Theorems about DeskSystem for every number of panels, buttons and       *)
(* outputs, all queue lengths, any number of presses, faults and routes by *)
(* other control panels.                                                   *)
(***************************************************************************)
EXTENDS DeskSystem, InputLogicProofs, SequenceTheorems

\* What the router tells.
Confirms == [type : {"ETHERNET"}, output : Dests, input : Inputs]

LEMMA InputsFitByte == Inputs \subseteq Byte
  BY RouterAssumption

LEMMA ConfirmsAreInput == Confirms \subseteq InputMessages
  BY InputsFitByte, DestsFitByte DEF Confirms, InputMessages

LEMMA ConfirmType == \A d \in Dests, i \in Inputs : ConfirmMsg(d, i) \in Confirms
  BY DEF ConfirmMsg, Confirms

\* A dump is a line for each output.
LEMMA DumpType ==
  ASSUME route \in [Dests -> Inputs]
  PROVE  /\ Dump \in Seq(Confirms) /\ Len(Dump) = NDests
         /\ \A k \in 1 .. NDests : Dump[k] = ConfirmMsg(k - 1, route[k - 1])
  <1>1. NDests \in Nat
    BY SizesAssumption
  <1>2. \A k \in 1 .. NDests : ConfirmMsg(k - 1, route[k - 1]) \in Confirms
    BY <1>1, ConfirmType DEF Dests
  <1>3. Dump \in [1 .. NDests -> Confirms]
    BY <1>2, Zenon DEF Dump
  <1>4. Dump \in Seq(Confirms) /\ Len(Dump) = NDests
    BY <1>1, <1>3
  <1> QED BY <1>4, Zenon DEF Dump
-----------------------------------------------------------------------------
(* Types.                                                                  *)

\* What the router's side keeps.
NetTypeOK ==
  /\ route \in [Dests -> Inputs]
  /\ link \in {"up", "down"}
  /\ to_router \in Seq(OutputMessages)
  /\ from_router \in Seq(Confirms)
  /\ link = "down" => to_router = << >> /\ from_router = << >>

LEMMA DeskNetTypes == DeskTypeOK => NetTypeOK
  BY DEF DeskTypeOK, NetTypeOK, Confirms

\* Posting any message of the C types keeps the types of the logic.
LEMMA PostKeepsTypes ==
  ASSUME TypeOK, NEW m \in InputMessages, PostInput(m) PROVE TypeOK'
  <1>1. /\ input_event_queue' \in Seq(InputMessages)
        /\ Len(input_event_queue') <= InputQueueLen
    BY SendKeepsQueue, SizesAssumption DEF PostInput, TypeOK
  <1> QED BY <1>1 DEF PostInput, TypeOK, logicVars

\* A step of the desk is one of the input logic and its neighbours, posts a
\* message, or starts the controller again.
LEMMA StepsOfLogic ==
  ASSUME DeskTypeOK, [DeskNext]_deskVars
  PROVE  \/ [Next]_vars
         \/ \E m \in InputMessages : PostInput(m)
         \/ Init'
  <1>1. CASE Logic
    BY <1>1 DEF Logic, Next
  <1>2. CASE Press
    BY <1>2, PostedAssumption DEF Press
  <1>3. CASE SupplyOn
    BY <1>3 DEF SupplyOn, Next, EnvNext
  <1>4. CASE TcpSend
    BY <1>4 DEF TcpSend, Next, EnvNext
  <1>5. CASE TcpRecv
    <2>1. from_router # << >> /\ PostInput(Head(from_router))
      BY <1>5 DEF TcpRecv
    <2>2. Head(from_router) \in Confirms
      BY <2>1, DeskNetTypes DEF NetTypeOK
    <2> QED BY <2>1, <2>2, ConfirmsAreInput
  <1>6. CASE TcpRecvLoses \/ RouterHandles \/ OtherPanelRoutes \/ Connect
    BY <1>6 DEF TcpRecvLoses, RouterHandles, OtherPanelRoutes, Connect
  <1>7. CASE Disconnect
    BY <1>7 DEF Disconnect, Next, EnvNext
  <1>8. CASE Restart
    BY <1>8 DEF Restart, Init, LogicInit
  <1>9. CASE UNCHANGED deskVars
    BY <1>9 DEF deskVars
  <1> QED BY <1>1, <1>2, <1>3, <1>4, <1>5, <1>6, <1>7, <1>8, <1>9 DEF DeskNext

LEMMA DeskKeepsTypeOK == TypeOK /\ DeskTypeOK /\ [DeskNext]_deskVars => TypeOK'
  <1>1. (Init => TypeOK)'
    BY InitTypeOK, PTL
  <1> QED BY <1>1, StepsOfLogic, NextTypeOK, PostKeepsTypes

LEMMA InitDeskTypeOK == DeskInit => TypeOK /\ DeskTypeOK
  <1> SUFFICES ASSUME DeskInit PROVE TypeOK /\ DeskTypeOK
    OBVIOUS
  <1>1. TypeOK
    BY InitTypeOK DEF DeskInit
  <1>2. route \in [Dests -> Inputs]
    BY RouterAssumption DEF DeskInit
  <1>3. asked \in [Panels -> Byte]
    BY DEF DeskInit, NothingAsked, Byte
  <1>4. /\ link \in {"up", "down"} /\ to_router = << >> /\ from_router = << >>
        /\ presses = 0 /\ external = 0 /\ faults = 0
    BY DEF DeskInit
  <1>5. confirm_lost \in BOOLEAN /\ toggled \in BOOLEAN /\ hasty \in BOOLEAN
    BY DEF DeskInit
  <1> QED BY <1>1, <1>2, <1>3, <1>4, <1>5, RouterAssumption DEF DeskTypeOK

LEMMA RouterRoutesTypes ==
  ASSUME NetTypeOK, NEW output \in Dests, NEW input \in Inputs, RouterRoutes(output, input)
  PROVE  /\ route' \in [Dests -> Inputs] /\ from_router' \in Seq(Confirms)
         /\ link = "down" => from_router' = << >>
  BY ConfirmType DEF RouterRoutes, NetTypeOK

LEMMA NetKeepsTypes == TypeOK /\ NetTypeOK /\ [DeskNext]_deskVars => NetTypeOK'
  <1> SUFFICES ASSUME TypeOK, NetTypeOK, [DeskNext]_deskVars PROVE NetTypeOK'
    OBVIOUS
  <1>1. CASE Logic \/ Press \/ SupplyOn \/ UNCHANGED deskVars
    BY <1>1 DEF Logic, Press, SupplyOn, deskVars, netVars, NetTypeOK
  <1>2. CASE TcpSend
    <2>1. Head(ethernet_message_output_queue) \in OutputMessages
      BY <1>2 DEF TcpSend, TakeOutput, TypeOK
    <2> QED BY <1>2, <2>1 DEF TcpSend, NetTypeOK
  <1>3. CASE TcpRecv \/ TcpRecvLoses
    <2>1. from_router # << >> /\ from_router' = Tail(from_router)
      BY <1>3 DEF TcpRecv, TcpRecvLoses
    <2>2. UNCHANGED << route, link, to_router >>
      BY <1>3 DEF TcpRecv, TcpRecvLoses
    <2>3. from_router' \in Seq(Confirms) /\ link # "down"
      BY <2>1 DEF NetTypeOK
    <2> QED BY <2>2, <2>3 DEF NetTypeOK
  <1>4. CASE RouterHandles
    <2> DEFINE command == Head(to_router)
    <2>1. link = "up" /\ link' = link /\ to_router' \in Seq(OutputMessages)
      BY <1>4 DEF RouterHandles, NetTypeOK
    <2>2. route' \in [Dests -> Inputs] /\ from_router' \in Seq(Confirms)
      <3>1. CASE /\ command.output \in Dests /\ command.input \in Inputs
                 /\ RouterRoutes(command.output, command.input)
        BY <3>1, RouterRoutesTypes
      <3>2. CASE from_router' = from_router \o Dump /\ UNCHANGED route
        BY <3>2, DumpType DEF NetTypeOK
      <3>3. CASE UNCHANGED << route, from_router >>
        BY <3>3 DEF NetTypeOK
      <3> QED BY <1>4, <3>1, <3>2, <3>3 DEF RouterHandles
    <2> QED BY <2>1, <2>2 DEF NetTypeOK
  <1>5. CASE OtherPanelRoutes
    <2>1. PICK output \in OtherDests, input \in Inputs : RouterRoutes(output, input)
      BY <1>5 DEF OtherPanelRoutes
    <2> QED BY <1>5, <2>1, RouterRoutesTypes, RouterAssumption DEF OtherPanelRoutes, NetTypeOK
  <1>6. CASE Disconnect \/ Restart
    <2>1. link' = "down" /\ to_router' = << >> /\ from_router' = << >> /\ route' = route
      BY <1>6 DEF Disconnect, Restart
    <2> QED BY <2>1 DEF NetTypeOK
  <1>7. CASE Connect
    BY <1>7, DumpType DEF Connect, NetTypeOK
  <1> QED BY <1>1, <1>2, <1>3, <1>4, <1>5, <1>6, <1>7 DEF DeskNext

\* What the desk asked for is a byte.
LEMMA AskedKeepsType == TypeOK /\ DeskTypeOK /\ [DeskNext]_deskVars => asked' \in [Panels -> Byte]
  <1> SUFFICES ASSUME TypeOK, DeskTypeOK, [DeskNext]_deskVars PROVE asked' \in [Panels -> Byte]
    OBVIOUS
  <1>1. asked \in [Panels -> Byte]
    BY DEF DeskTypeOK
  <1>2. NothingAsked \in [Panels -> Byte]
    BY DEF NothingAsked, Byte
  <1>3. CASE Logic
    <2>1. AskedNow \in [Panels -> Byte]
      <3>1. CASE ProcessRouting
        <4> DEFINE m == Head(input_event_queue)
        <4>1. m.panel \in Panels /\ m.panel_button \in 0 .. NButtons
          BY <3>1, ReceivedTypes, RoutingFields DEF ProcessRouting
        <4>2. PanelSource(m.panel, m.panel_button) \in Byte
          BY <4>1, PanelSourceType
        <4> QED BY <1>1, <3>1, <4>2 DEF AskedNow
      <3> QED BY <1>1, <3>1 DEF AskedNow
    <2>2. asked' \in {NothingAsked, AskedNow}
      BY <1>3 DEF Logic
    <2> QED BY <1>2, <2>1, <2>2
  <1>4. CASE Restart \/ Disconnect
    BY <1>1, <1>2, <1>4 DEF Restart, Disconnect
  <1>5. CASE ~Logic /\ ~Restart /\ ~Disconnect
    BY <1>1, <1>5 DEF DeskNext, Press, SupplyOn, TcpSend, TcpRecv, TcpRecvLoses, RouterHandles,
                      OtherPanelRoutes, Connect, deskVars, history
  <1> QED BY <1>3, <1>4, <1>5

LEMMA NextDeskTypeOK == TypeOK /\ DeskTypeOK /\ [DeskNext]_deskVars => DeskTypeOK'
  <1> SUFFICES ASSUME TypeOK, DeskTypeOK, [DeskNext]_deskVars PROVE DeskTypeOK'
    OBVIOUS
  <1>1. NetTypeOK'
    BY NetKeepsTypes, DeskNetTypes
  <1>2. asked' \in [Panels -> Byte]
    BY AskedKeepsType
  <1>3. presses' \in 0 .. MaxPresses /\ external' \in 0 .. MaxExternal /\ faults' \in 0 .. MaxFaults
    BY RouterAssumption
    DEF DeskTypeOK, DeskNext, Logic, Press, SupplyOn, TcpSend, TcpRecv, TcpRecvLoses,
        RouterHandles, OtherPanelRoutes, Disconnect, Connect, Restart, deskVars, bounds
  <1>4. confirm_lost' \in BOOLEAN /\ toggled' \in BOOLEAN /\ hasty' \in BOOLEAN
    BY Zenon
    DEF DeskTypeOK, DeskNext, Logic, Press, SupplyOn, TcpSend, TcpRecv, TcpRecvLoses,
        RouterHandles, OtherPanelRoutes, Disconnect, Connect, Restart, deskVars, history
  <1> QED BY <1>1, <1>2, <1>3, <1>4 DEF DeskTypeOK, NetTypeOK, Confirms

\* The types of the whole desk, whatever is pressed, fails or is switched.
THEOREM DeskTypesCorrect == DeskSpec => []DeskTypeOK
  <1> QED BY InitDeskTypeOK, DeskKeepsTypeOK, NextDeskTypeOK, PTL DEF DeskSpec
-----------------------------------------------------------------------------
(* What InputLogic keeps by itself, a restart in between or not.           *)

LEMMA DeskKeepsLogicInvs ==
  UsbInv /\ LedInv /\ DeskTypeOK /\ [DeskNext]_deskVars => (UsbInv /\ LedInv)'
  <1> SUFFICES ASSUME UsbInv, LedInv, DeskTypeOK, [DeskNext]_deskVars PROVE (UsbInv /\ LedInv)'
    OBVIOUS
  <1>1. (Init => UsbInv /\ LedInv)'
    BY InitUsbInv, InitLedInv, PTL
  <1>2. CASE [Next]_vars
    BY <1>2, NextUsbInv, NextLedInv
  <1>3. ASSUME NEW m \in InputMessages, PostInput(m) PROVE (UsbInv /\ LedInv)'
    <2>1. TypeOK' /\ UNCHANGED logicVars
      BY <1>3, PostKeepsTypes DEF UsbInv, PostInput
    <2> QED BY <2>1 DEF UsbInv, LedInv, logicVars, UsbStateIsLine, UsbFollowsScreens,
                        LedAgreesWithCache, FoundButton, Shows
  <1> QED BY <1>1, <1>2, <1>3, StepsOfLogic

\* Types and all that InputLogic keeps by itself.
DeskInv == TypeOK /\ DeskTypeOK /\ UsbInv /\ LedInv

LEMMA InitDeskInv == DeskInit => DeskInv
  BY InitDeskTypeOK, InitUsbInv, InitLedInv DEF DeskInit, DeskInv

LEMMA NextDeskInv == DeskInv /\ [DeskNext]_deskVars => DeskInv'
  BY DeskKeepsTypeOK, NextDeskTypeOK, DeskKeepsLogicInvs DEF DeskInv

\* USB lines and LEDs agree with the caches of main.c in the whole desk too,
\* with the router, the network and restarts around the logic task.
THEOREM DeskAgreesWithCaches == DeskSpec => [](UsbFollowsScreens /\ LedAgreesWithCache)
  <1>1. DeskInv => UsbFollowsScreens /\ LedAgreesWithCache
    BY DEF DeskInv, UsbInv, LedInv
  <1> QED BY InitDeskInv, NextDeskInv, <1>1, PTL DEF DeskSpec
-----------------------------------------------------------------------------
(* The last message about something in a line of messages.                 *)

\* No message is about it.
Silent(line, about) == \A i \in 1 .. Len(line) : line[i] \notin about

\* The last message about it is a right one.
Ends(line, about, right) ==
  \E i \in 1 .. Len(line) :
    line[i] \in right /\ \A j \in 1 .. Len(line) : j > i => line[j] \notin about

\* The same of two lines, what leaves the newer one going into the older one.
SilentBoth(newer, older, about) == Silent(newer, about) /\ Silent(older, about)

EndsIn(newer, older, about, right) ==
  Ends(newer, about, right) \/ (Silent(newer, about) /\ Ends(older, about, right))

LEMMA EmptyLine == \A about, right : Silent(<< >>, about) /\ ~Ends(<< >>, about, right)
  BY DEF Silent, Ends

LEMMA AppendRight ==
  ASSUME NEW S, NEW line \in Seq(S), NEW m \in S, NEW about, NEW right, m \in right
  PROVE  Ends(Append(line, m), about, right)
  <1>1. /\ Len(Append(line, m)) = Len(line) + 1 /\ Len(line) \in Nat
        /\ Append(line, m)[Len(line) + 1] = m
    OBVIOUS
  <1> QED BY <1>1 DEF Ends

LEMMA AppendOther ==
  ASSUME NEW S, NEW line \in Seq(S), NEW m \in S, NEW about, NEW right, m \notin about,
         right \subseteq about
  PROVE  /\ Ends(Append(line, m), about, right) <=> Ends(line, about, right)
         /\ Silent(Append(line, m), about) <=> Silent(line, about)
  <1> DEFINE longer == Append(line, m)
  <1>1. /\ Len(longer) = Len(line) + 1 /\ Len(line) \in Nat
        /\ longer[Len(line) + 1] = m
        /\ \A i \in 1 .. Len(line) : longer[i] = line[i]
    OBVIOUS
  <1> HIDE DEF longer
  <1>2. Ends(longer, about, right) <=> Ends(line, about, right)
    BY <1>1 DEF Ends
  <1>3. Silent(longer, about) <=> Silent(line, about)
    BY <1>1 DEF Silent
  <1> QED BY <1>2, <1>3 DEF longer

LEMMA AppendAbout ==
  ASSUME NEW S, NEW line \in Seq(S), NEW m \in S, NEW about, Silent(Append(line, m), about)
  PROVE  m \notin about /\ Silent(line, about)
  <1> DEFINE longer == Append(line, m)
  <1>1. /\ Len(longer) = Len(line) + 1 /\ Len(line) \in Nat
        /\ longer[Len(line) + 1] = m
        /\ \A i \in 1 .. Len(line) : longer[i] = line[i]
    OBVIOUS
  <1> HIDE DEF longer
  <1>2. Silent(longer, about)
    BY DEF longer
  <1> QED BY <1>1, <1>2 DEF Silent

LEMMA TakeHead ==
  ASSUME NEW S, NEW line \in Seq(S), line # << >>, NEW about, NEW right, right \subseteq about
  PROVE  /\ Silent(line, about) <=> Head(line) \notin about /\ Silent(Tail(line), about)
         /\ Ends(line, about, right) <=>
              \/ Ends(Tail(line), about, right)
              \/ Head(line) \in right /\ Silent(Tail(line), about)
  <1> DEFINE rest == Tail(line)
  <1>1. /\ Len(line) \in Nat \ {0} /\ Len(rest) = Len(line) - 1 /\ Head(line) = line[1]
        /\ \A i \in 1 .. Len(rest) : rest[i] = line[i + 1]
    OBVIOUS
  <1> HIDE DEF rest
  <1>2. \A i \in 2 .. Len(line) : i - 1 \in 1 .. Len(rest) /\ line[i] = rest[i - 1]
    BY <1>1
  <1>3. Silent(line, about) <=> Head(line) \notin about /\ Silent(rest, about)
    BY <1>1, <1>2 DEF Silent
  <1>4. ASSUME Ends(line, about, right)
        PROVE  Ends(rest, about, right) \/ (Head(line) \in right /\ Silent(rest, about))
    <2>1. PICK i \in 1 .. Len(line) :
            line[i] \in right /\ \A j \in 1 .. Len(line) : j > i => line[j] \notin about
      BY <1>4 DEF Ends
    <2>2. CASE i = 1
      BY <1>1, <2>1, <2>2 DEF Silent
    <2>3. CASE i # 1
      <3>1. i - 1 \in 1 .. Len(rest) /\ rest[i - 1] \in right
        BY <1>1, <1>2, <2>1, <2>3
      <3>2. \A j \in 1 .. Len(rest) : j > i - 1 => rest[j] \notin about
        BY <1>1, <2>1
      <3> QED BY <3>1, <3>2 DEF Ends
    <2> QED BY <2>2, <2>3
  <1>5. ASSUME Ends(rest, about, right) PROVE Ends(line, about, right)
    <2>1. PICK i \in 1 .. Len(rest) :
            rest[i] \in right /\ \A j \in 1 .. Len(rest) : j > i => rest[j] \notin about
      BY <1>5 DEF Ends
    <2>2. i + 1 \in 1 .. Len(line) /\ line[i + 1] \in right
      BY <1>1, <2>1
    <2>3. \A j \in 1 .. Len(line) : j > i + 1 => line[j] \notin about
      BY <1>1, <1>2, <2>1
    <2> QED BY <2>2, <2>3 DEF Ends
  <1>6. ASSUME Head(line) \in right, Silent(rest, about) PROVE Ends(line, about, right)
    <2>1. \A j \in 1 .. Len(line) : j > 1 => line[j] \notin about
      BY <1>1, <1>2, <1>6 DEF Silent
    <2> QED BY <1>1, <1>6, <2>1 DEF Ends
  <1> QED BY <1>3, <1>4, <1>5, <1>6 DEF rest

\* What is told last counts, whatever was told before.
LEMMA ConcatEnds ==
  ASSUME NEW S, NEW line \in Seq(S), NEW more \in Seq(S), NEW about, NEW right,
         Ends(more, about, right)
  PROVE  Ends(line \o more, about, right)
  <1> DEFINE both == line \o more
  <1>1. /\ Len(both) = Len(line) + Len(more) /\ Len(line) \in Nat /\ Len(more) \in Nat
        /\ \A i \in 1 .. Len(more) : both[Len(line) + i] = more[i]
    OBVIOUS
  <1>2. PICK i \in 1 .. Len(more) :
          more[i] \in right /\ \A j \in 1 .. Len(more) : j > i => more[j] \notin about
    BY DEF Ends
  <1> HIDE DEF both
  <1>3. Len(line) + i \in 1 .. Len(both) /\ both[Len(line) + i] \in right
    BY <1>1, <1>2
  <1>4. ASSUME NEW j \in 1 .. Len(both), j > Len(line) + i PROVE both[j] \notin about
    <2>1. j - Len(line) \in 1 .. Len(more) /\ j - Len(line) > i /\ j = Len(line) + (j - Len(line))
      BY <1>1, <1>4
    <2> QED BY <1>1, <1>2, <2>1
  <1> QED BY <1>3, <1>4 DEF Ends, both

\* A message goes from the newer line into the older one.
LEMMA HandOver ==
  ASSUME NEW S, NEW newer \in Seq(S), NEW older \in Seq(S), newer # << >>,
         NEW about, NEW right, right \subseteq about
  PROVE  /\ EndsIn(newer, older, about, right) =>
              EndsIn(Tail(newer), Append(older, Head(newer)), about, right)
         /\ SilentBoth(newer, older, about) <=>
              SilentBoth(Tail(newer), Append(older, Head(newer)), about)
  <1> DEFINE m == Head(newer)
  <1>1. m \in S
    OBVIOUS
  <1>2. /\ Silent(newer, about) <=> m \notin about /\ Silent(Tail(newer), about)
        /\ Ends(newer, about, right) <=>
             \/ Ends(Tail(newer), about, right)
             \/ m \in right /\ Silent(Tail(newer), about)
    BY TakeHead
  <1>3. m \in right => Ends(Append(older, m), about, right)
    BY <1>1, AppendRight
  <1>4. m \notin about => /\ Ends(Append(older, m), about, right) <=> Ends(older, about, right)
                          /\ Silent(Append(older, m), about) <=> Silent(older, about)
    BY <1>1, AppendOther
  <1>5. Silent(Append(older, m), about) => m \notin about
    BY <1>1, AppendAbout
  <1> QED BY <1>2, <1>3, <1>4, <1>5 DEF EndsIn, SilentBoth

\* A message about something else is added to either line.
LEMMA AddOther ==
  ASSUME NEW S, NEW newer \in Seq(S), NEW older \in Seq(S), NEW m \in S,
         NEW about, NEW right, right \subseteq about, m \notin about
  PROVE  /\ EndsIn(Append(newer, m), older, about, right) <=> EndsIn(newer, older, about, right)
         /\ EndsIn(newer, Append(older, m), about, right) <=> EndsIn(newer, older, about, right)
         /\ SilentBoth(Append(newer, m), older, about) <=> SilentBoth(newer, older, about)
         /\ SilentBoth(newer, Append(older, m), about) <=> SilentBoth(newer, older, about)
  <1>1. /\ Ends(Append(newer, m), about, right) <=> Ends(newer, about, right)
        /\ Silent(Append(newer, m), about) <=> Silent(newer, about)
    BY AppendOther
  <1>2. /\ Ends(Append(older, m), about, right) <=> Ends(older, about, right)
        /\ Silent(Append(older, m), about) <=> Silent(older, about)
    BY AppendOther
  <1> QED BY <1>1, <1>2 DEF EndsIn, SilentBoth

\* A right message is added.
LEMMA AddRight ==
  ASSUME NEW S, NEW newer \in Seq(S), NEW older, NEW m \in S, NEW about, NEW right, m \in right
  PROVE  EndsIn(Append(newer, m), older, about, right)
  BY AppendRight DEF EndsIn

\* The oldest message of all is taken.
LEMMA TakeOldest ==
  ASSUME NEW S, NEW newer \in Seq(S), NEW older \in Seq(S), older # << >>,
         NEW about, NEW right, right \subseteq about
  PROVE  /\ SilentBoth(newer, older, about) <=>
              Head(older) \notin about /\ SilentBoth(newer, Tail(older), about)
         /\ EndsIn(newer, older, about, right) =>
              \/ EndsIn(newer, Tail(older), about, right)
              \/ Head(older) \in right /\ SilentBoth(newer, Tail(older), about)
  <1>1. /\ Silent(older, about) <=> Head(older) \notin about /\ Silent(Tail(older), about)
        /\ Ends(older, about, right) <=>
             \/ Ends(Tail(older), about, right)
             \/ Head(older) \in right /\ Silent(Tail(older), about)
    BY TakeHead
  <1> QED BY <1>1 DEF EndsIn, SilentBoth
-----------------------------------------------------------------------------
(* Commands on their way to the router.                                    *)

CommandsFor(output) == {m \in OutputMessages : m.type = "ROUTING" /\ m.output = output}

CommandsTo(output, input) == {m \in CommandsFor(output) : m.input = input}

\* The last command for the output, or the router if there is none left, has it
\* show the input.
Heading(queue, sent, routes, output, input) ==
  \/ EndsIn(queue, sent, CommandsFor(output), CommandsTo(output, input))
  \/ SilentBoth(queue, sent, CommandsFor(output)) /\ routes[output] = input

LEMMA CommandsToFor == \A output, input : CommandsTo(output, input) \subseteq CommandsFor(output)
  BY DEF CommandsTo

\* The router does what the oldest command says.
LEMMA RouterHandlesHeading ==
  ASSUME TypeOK, DeskTypeOK, RouterHandles, NEW d \in Dests, NEW v \in Inputs,
         Heading(ethernet_message_output_queue, to_router, route, d, v)
  PROVE  Heading(ethernet_message_output_queue', to_router', route', d, v)
  <1> DEFINE command == Head(to_router)
             queue   == ethernet_message_output_queue
             rest    == Tail(to_router)
  <1>1. /\ queue \in Seq(OutputMessages) /\ to_router \in Seq(OutputMessages) /\ to_router # << >>
        /\ command \in OutputMessages /\ route \in [Dests -> Inputs]
    BY DEF TypeOK, DeskTypeOK, RouterHandles
  <1>2. /\ SilentBoth(queue, to_router, CommandsFor(d)) <=>
             command \notin CommandsFor(d) /\ SilentBoth(queue, rest, CommandsFor(d))
        /\ EndsIn(queue, to_router, CommandsFor(d), CommandsTo(d, v)) =>
             \/ EndsIn(queue, rest, CommandsFor(d), CommandsTo(d, v))
             \/ command \in CommandsTo(d, v) /\ SilentBoth(queue, rest, CommandsFor(d))
    <2> HIDE DEF queue
    <2> QED BY <1>1, TakeOldest, CommandsToFor, Zenon
  <1>3. ethernet_message_output_queue' = queue /\ to_router' = rest
    BY DEF RouterHandles, vars
  <1>4. command \in CommandsTo(d, v) => route' = [route EXCEPT ![d] = v]
    BY DEF RouterHandles, RouterRoutes, CommandsTo, CommandsFor
  <1>5. command \notin CommandsFor(d) => route'[d] = route[d]
    <2> SUFFICES ASSUME command \notin CommandsFor(d) PROVE route'[d] = route[d]
      OBVIOUS
    <2>1. ~(command.type = "ROUTING" /\ command.output = d)
      BY <1>1 DEF CommandsFor
    <2> QED BY <1>1, <2>1 DEF RouterHandles, RouterRoutes
  <1>6. command \in CommandsTo(d, v) => route'[d] = v
    BY <1>1, <1>4
  <1> QED BY <1>2, <1>3, <1>5, <1>6 DEF Heading

\* This step loses a command.
Loses == (Logic /\ RouteDropped) \/ (Disconnect /\ LinkLoses)

\* Whatever the client, the router, the network and people do, an output that
\* no other panel switches goes on heading where it did, as long as no command
\* is lost.
LEMMA OthersKeepHeading ==
  ASSUME TypeOK, DeskTypeOK, [DeskNext]_deskVars, ~Logic, ~Restart, ~Loses,
         NEW d \in Dests \ OtherDests, NEW v \in Inputs,
         Heading(ethernet_message_output_queue, to_router, route, d, v)
  PROVE  Heading(ethernet_message_output_queue', to_router', route', d, v)
  <1> DEFINE queue == ethernet_message_output_queue
  <1>1. /\ queue \in Seq(OutputMessages) /\ to_router \in Seq(OutputMessages)
        /\ route \in [Dests -> Inputs]
    BY DEF TypeOK, DeskTypeOK
  <1>2. CASE UNCHANGED << ethernet_message_output_queue, to_router, route >>
    BY <1>2
  <1>3. CASE Press \/ TcpRecv \/ TcpRecvLoses \/ Connect \/ UNCHANGED deskVars
    <2>1. UNCHANGED << ethernet_message_output_queue, to_router, route >>
      BY <1>3 DEF Press, TcpRecv, TcpRecvLoses, Connect, deskVars, netVars, vars, PostInput
    <2> QED BY <1>2, <2>1
  <1>4. CASE SupplyOn
    <2> DEFINE ask == [type |-> "ROUTEDUMP"]
    <2>1. ask \in OutputMessages /\ ask.type # "ROUTING"
      BY DEF OutputMessages
    <2>2. ask \notin CommandsFor(d)
      BY <2>1 DEF CommandsFor
    <2>3. /\ UNCHANGED << to_router, route >>
          /\ ethernet_message_output_queue' \in {queue, Append(queue, ask)}
      BY <1>4 DEF SupplyOn, netVars, RequestRouteDump, xQueueSend
    <2> HIDE DEF ask, queue
    <2>4. /\ EndsIn(Append(queue, ask), to_router, CommandsFor(d), CommandsTo(d, v)) <=>
               EndsIn(queue, to_router, CommandsFor(d), CommandsTo(d, v))
          /\ SilentBoth(Append(queue, ask), to_router, CommandsFor(d)) <=>
               SilentBoth(queue, to_router, CommandsFor(d))
      BY <1>1, <2>1, <2>2, AddOther, CommandsToFor, Zenon
    <2> QED BY <2>3, <2>4 DEF Heading, queue
  <1>5. CASE TcpSend
    <2>1. /\ queue # << >> /\ ethernet_message_output_queue' = Tail(queue)
          /\ to_router' = Append(to_router, Head(queue)) /\ route' = route
      BY <1>5 DEF TcpSend, TakeOutput
    <2>2. /\ EndsIn(queue, to_router, CommandsFor(d), CommandsTo(d, v)) =>
               EndsIn(Tail(queue), Append(to_router, Head(queue)), CommandsFor(d),
                      CommandsTo(d, v))
          /\ SilentBoth(queue, to_router, CommandsFor(d)) =>
               SilentBoth(Tail(queue), Append(to_router, Head(queue)), CommandsFor(d))
      <3> HIDE DEF queue
      <3> QED BY <1>1, <2>1, HandOver, CommandsToFor, Zenon
    <2> QED BY <2>1, <2>2 DEF Heading
  <1>6. CASE RouterHandles
    BY <1>6, RouterHandlesHeading
  <1>7. CASE OtherPanelRoutes
    <2>1. PICK output \in OtherDests, input \in Inputs : RouterRoutes(output, input)
      BY <1>7 DEF OtherPanelRoutes
    <2>2. route'[d] = route[d] /\ UNCHANGED << ethernet_message_output_queue, to_router >>
      BY <1>1, <1>7, <2>1 DEF OtherPanelRoutes, RouterRoutes, vars
    <2> QED BY <2>2 DEF Heading
  <1>8. CASE Disconnect
    <2>1. to_router = << >> /\ ethernet_message_output_queue' = queue
      BY <1>8 DEF Loses, LinkLoses
    <2>2. to_router' = to_router /\ route' = route
      BY <1>8, <2>1 DEF Disconnect
    <2> QED BY <1>2, <2>1, <2>2
  <1> QED BY <1>3, <1>4, <1>5, <1>6, <1>7, <1>8 DEF DeskNext

\* A route command for the output, in the queue of the client, heads for its input.
LEMMA SendHeads ==
  ASSUME TypeOK, DeskTypeOK, NEW d \in Dests, NEW v \in Inputs, send_video_route(v, d),
         ~QueueFull(ethernet_message_output_queue, OutputQueueLen)
  PROVE  Heading(ethernet_message_output_queue', to_router, route, d, v)
  <1>1. RouteMsg(v, d) \in OutputMessages
    BY RouteMsgType, InputsFitByte, DestsFitByte
  <1>2. RouteMsg(v, d) \in CommandsTo(d, v)
    BY <1>1 DEF CommandsTo, CommandsFor, RouteMsg
  <1>3. ethernet_message_output_queue' = Append(ethernet_message_output_queue, RouteMsg(v, d))
    BY DEF send_video_route, xQueueSend
  <1>4. EndsIn(Append(ethernet_message_output_queue, RouteMsg(v, d)), to_router, CommandsFor(d),
               CommandsTo(d, v))
    BY <1>1, <1>2, AddRight, Zenon DEF TypeOK
  <1> QED BY <1>3, <1>4 DEF Heading

\* A route command for another output changes nothing for this one.
LEMMA SendKeepsHeading ==
  ASSUME TypeOK, DeskTypeOK, NEW d \in Dests, NEW v, NEW input \in Byte, NEW output \in Byte,
         output # d, send_video_route(input, output),
         Heading(ethernet_message_output_queue, to_router, route, d, v)
  PROVE  Heading(ethernet_message_output_queue', to_router, route, d, v)
  <1> DEFINE queue == ethernet_message_output_queue
             m     == RouteMsg(input, output)
  <1>1. m \in OutputMessages /\ queue \in Seq(OutputMessages) /\ to_router \in Seq(OutputMessages)
    BY RouteMsgType DEF TypeOK, DeskTypeOK
  <1>2. m \notin CommandsFor(d)
    BY DEF CommandsFor, RouteMsg
  <1>3. ethernet_message_output_queue' \in {queue, Append(queue, m)}
    BY DEF send_video_route, xQueueSend
  <1> HIDE DEF queue, m
  <1>4. /\ EndsIn(Append(queue, m), to_router, CommandsFor(d), CommandsTo(d, v)) <=>
             EndsIn(queue, to_router, CommandsFor(d), CommandsTo(d, v))
        /\ SilentBoth(Append(queue, m), to_router, CommandsFor(d)) <=>
             SilentBoth(queue, to_router, CommandsFor(d))
    BY <1>1, <1>2, AddOther, CommandsToFor, Zenon
  <1> QED BY <1>3, <1>4 DEF Heading, queue
-----------------------------------------------------------------------------
(* The outputs switched with the show relay follow the IR button.          *)

\* Hypotheses about the settings, as config.txt asks: both cameras are inputs of
\* the router, and the outputs switched with the show relay are not the screens
\* of the desk ("Should not include the SM desk screen outputs").
CamerasOnRouter ==
  \A state \in {RELAY_STATE_MAIN, RELAY_STATE_IR} : ShowRelaySource(state) - 1 \in Inputs

ScreensNotSwitched ==
  \A p \in Panels : Dec8(settings.routing_panel_destinations[p]) \notin SwitchedDests

\* A source from 1 on is the input before it on the wire.
LEMMA SourceOnWire ==
  ASSUME NEW source \in Byte, source - 1 \in Inputs
  PROVE  Dec8(source) = source - 1 /\ Dec8(source) \in Inputs
  BY InputsFitByte DEF Dec8, Byte

LEMMA CameraOnWire ==
  ASSUME CamerasOnRouter, TypeOK
  PROVE  LET camera == Dec8(ShowRelaySource(relay_ir_state))
         IN  camera = ShowRelaySource(relay_ir_state) - 1 /\ camera \in Inputs
  BY ShowRelayType, SourceOnWire DEF CamerasOnRouter, TypeOK

\* The toggle has yet to come to the output.
ToggleToCome(dest) == pc = "panels" \/ (pc = "dests" /\ loop <= dest)

\* After a toggle a switched output shows the camera of the current state, is
\* heading for it, or has its command still to come.
FollowInv ==
  toggled =>
    \A d \in SwitchedDests :
      \/ ToggleToCome(d)
      \/ Heading(ethernet_message_output_queue, to_router, route, d,
                 Dec8(ShowRelaySource(relay_ir_state)))

\* All but the logic task and a restart leave the logic's state alone, and what
\* was asked for stands unless a command is lost.
LEMMA OthersKeepLogic ==
  ASSUME [DeskNext]_deskVars, ~Logic, ~Restart
  PROVE  /\ UNCHANGED logicVars
         /\ ~Loses => asked' = asked /\ (toggled' => toggled)
         /\ Loses => ~toggled' /\ asked' = NothingAsked
  <1>1. CASE Disconnect
    BY <1>1 DEF Disconnect, TakeOutput, vars, Loses
  <1>2. CASE ~Disconnect
    <2>1. ~Loses
      BY <1>2 DEF Loses
    <2>2. CASE Press
      BY <2>1, <2>2 DEF Press, PostInput
    <2>3. CASE SupplyOn
      BY <2>1, <2>3 DEF SupplyOn, RequestRouteDump, history
    <2>4. CASE TcpSend
      BY <2>1, <2>4 DEF TcpSend, TakeOutput, history
    <2>5. CASE TcpRecv
      BY <2>1, <2>5 DEF TcpRecv, PostInput
    <2>6. CASE TcpRecvLoses \/ RouterHandles \/ OtherPanelRoutes \/ Connect
                 \/ UNCHANGED deskVars
      BY <2>1, <2>6 DEF TcpRecvLoses, RouterHandles, OtherPanelRoutes, Connect, deskVars, vars,
                        history
    <2> QED BY <1>2, <2>2, <2>3, <2>4, <2>5, <2>6 DEF DeskNext
  <1> QED BY <1>1, <1>2

\* What a handler does to the commands.
LEMMA HandlerSends ==
  ASSUME Logic
  PROVE  /\ UNCHANGED << to_router, from_router, route, link, confirm_lost, hasty >>
         /\ toggled' = (ProcessToggle \/ (toggled /\ ~Loses))
         /\ asked' = IF Loses THEN NothingAsked ELSE AskedNow
         /\ ~Loses /\ SendsRoute => ~QueueFull(ethernet_message_output_queue, OutputQueueLen)
  <1>1. ~Disconnect \/ ~LinkLoses
    BY DEF Logic, netVars, Disconnect
  <1>2. Loses <=> RouteDropped
    BY <1>1, Zenon DEF Loses
  <1> QED BY <1>2 DEF Logic, netVars, RouteDropped

LEMMA LogicKeepsFollow ==
  ASSUME CamerasOnRouter, ScreensNotSwitched, TypeOK, DeskTypeOK, FollowInv, Logic
  PROVE  FollowInv'
  <1> SUFFICES ASSUME toggled', NEW d \in SwitchedDests
               PROVE  \/ ToggleToCome(d)'
                      \/ Heading(ethernet_message_output_queue', to_router', route', d,
                                 Dec8(ShowRelaySource(relay_ir_state))')
    BY DEF FollowInv
  <1> DEFINE camera == Dec8(ShowRelaySource(relay_ir_state))
  <1>1. /\ d \in Dests /\ settings.show_relay_switched_destination_flags[d] # 0
        /\ d \in Nat /\ NDests \in Nat /\ camera \in Inputs /\ camera \in Byte
    BY CameraOnWire, SizesAssumption, InputsFitByte DEF SwitchedDests, Dests
  <1>2. UNCHANGED << to_router, route >>
    BY HandlerSends
  <1>3. ASSUME UNCHANGED relay_ir_state,
               Heading(ethernet_message_output_queue', to_router, route, d, camera)
        PROVE  Heading(ethernet_message_output_queue', to_router', route', d,
                       Dec8(ShowRelaySource(relay_ir_state))')
    BY <1>2, <1>3 DEF ShowRelaySource
  <1>4. CASE ProcessToggle
    BY <1>4 DEF ProcessToggle, ToggleToCome
  <1>5. CASE TogglePanel
    BY <1>1, <1>5 DEF TogglePanel, ToggleToCome
  <1>6. CASE ~ProcessToggle
    <2> toggled /\ ~Loses
      BY <1>6, HandlerSends, Zenon
    <2>1. \/ ToggleToCome(d)
          \/ Heading(ethernet_message_output_queue, to_router, route, d, camera)
      BY DEF FollowInv
    <2>2. CASE ProcessRouting
      <3> DEFINE m      == Head(input_event_queue)
                 chosen == PanelSource(m.panel, m.panel_button)
                 input  == IF chosen = ShowRelay THEN ShowRelaySource(relay_ir_state) ELSE chosen
                 output == Dec8(settings.routing_panel_destinations[m.panel])
      <3>1. m.panel \in Panels /\ m.panel_button \in 0 .. NButtons
        BY <2>2, ReceivedTypes, RoutingFields DEF ProcessRouting
      <3>2. Dec8(input) \in Byte /\ output \in Byte /\ output # d
        BY <3>1, PanelSourceType, ShowRelayType, SettingsTypes, Dec8Type DEF ScreensNotSwitched
      <3>3. send_video_route(Dec8(input), output) /\ pc = "wait" /\ UNCHANGED relay_ir_state
        BY <2>2 DEF ProcessRouting, Receive
      <3>4. Heading(ethernet_message_output_queue, to_router, route, d, camera)
        BY <2>1, <3>3 DEF ToggleToCome
      <3> HIDE DEF input, output, camera
      <3>5. Heading(ethernet_message_output_queue', to_router, route, d, camera)
        BY <1>1, <3>2, <3>3, <3>4, SendKeepsHeading
      <3> QED BY <1>3, <3>3, <3>5
    <2>3. CASE ToggleDest
      <3>1. pc = "dests" /\ loop \in Dests /\ loop \in Nat /\ UNCHANGED relay_ir_state
        BY <2>3, SizesAssumption DEF ToggleDest, TypeOK, Dests
      <3>2. CASE loop < d
        BY <1>1, <2>3, <3>1, <3>2 DEF ToggleDest, Dests, ToggleToCome
      <3>3. CASE loop = d
        <4>1. SendsRoute /\ send_video_route(camera, d)
          BY <1>1, <2>3, <3>1, <3>3 DEF SendsRoute, ToggleDest, FlaggedRoute
        <4>2. Heading(ethernet_message_output_queue', to_router, route, d, camera)
          BY <1>1, <4>1, HandlerSends, SendHeads
        <4> QED BY <1>3, <3>1, <4>2
      <3>4. CASE loop > d
        <4>1. Heading(ethernet_message_output_queue, to_router, route, d, camera)
          BY <1>1, <2>1, <3>1, <3>4 DEF ToggleToCome
        <4>2. CASE settings.show_relay_switched_destination_flags[loop] # 0
          <5>1. send_video_route(camera, loop) /\ loop \in Byte /\ loop # d
            BY <1>1, <2>3, <3>1, <3>4, <4>2, DestsFitByte DEF ToggleDest, FlaggedRoute
          <5> HIDE DEF camera
          <5>2. Heading(ethernet_message_output_queue', to_router, route, d, camera)
            BY <1>1, <4>1, <5>1, SendKeepsHeading
          <5> QED BY <1>3, <3>1, <5>2
        <4>3. CASE settings.show_relay_switched_destination_flags[loop] = 0
          BY <1>3, <2>3, <3>1, <4>1, <4>3 DEF ToggleDest
        <4> QED BY <4>2, <4>3
      <3> QED BY <1>1, <3>1, <3>2, <3>3, <3>4
    <2>4. CASE ProcessOtherConfirm \/ ProcessScreenConfirm
      <3>1. pc = "wait" /\ UNCHANGED << relay_ir_state, ethernet_message_output_queue >>
        BY <2>4 DEF ProcessOtherConfirm, ProcessScreenConfirm, Receive, logicVars
      <3> QED BY <1>3, <2>1, <3>1 DEF ToggleToCome
    <2> QED BY <1>5, <1>6, <2>2, <2>3, <2>4 DEF Logic, LogicNext
  <1> QED BY <1>4, <1>6

LEMMA NextFollowInv ==
  ASSUME CamerasOnRouter, ScreensNotSwitched, TypeOK, DeskTypeOK, FollowInv, [DeskNext]_deskVars
  PROVE  FollowInv'
  <1>1. CASE Logic
    BY <1>1, LogicKeepsFollow
  <1>2. CASE Restart
    BY <1>2 DEF Restart, FollowInv
  <1>3. CASE ~Logic /\ ~Restart
    <2> SUFFICES ASSUME toggled', NEW d \in SwitchedDests
                 PROVE  \/ ToggleToCome(d)'
                        \/ Heading(ethernet_message_output_queue', to_router', route', d,
                                   Dec8(ShowRelaySource(relay_ir_state))')
      BY DEF FollowInv
    <2>1. UNCHANGED << relay_ir_state, pc, loop >> /\ toggled /\ ~Loses
      BY <1>3, OthersKeepLogic DEF logicVars
    <2> DEFINE camera == Dec8(ShowRelaySource(relay_ir_state))
    <2>2. camera \in Inputs /\ d \in Dests \ OtherDests
      BY CameraOnWire DEF SwitchedDests
    <2>3. camera' = camera
      BY <2>1 DEF ShowRelaySource
    <2>4. CASE ToggleToCome(d)
      BY <2>1, <2>4 DEF ToggleToCome
    <2>5. CASE ~ToggleToCome(d)
      <3>1. Heading(ethernet_message_output_queue, to_router, route, d, camera)
        BY <2>1, <2>5 DEF FollowInv
      <3> HIDE DEF camera
      <3>2. Heading(ethernet_message_output_queue', to_router', route', d, camera)
        BY <1>3, <2>1, <2>2, <3>1, OthersKeepHeading
      <3> QED BY <2>3, <3>2 DEF camera
    <2> QED BY <2>4, <2>5
  <1> QED BY <1>1, <1>2, <1>3

\* When nothing is on its way an output shows what it was heading for.
LEMMA QuietArrived ==
  ASSUME Quiet, NEW d, NEW v,
         Heading(ethernet_message_output_queue, to_router, route, d, v)
  PROVE  route[d] = v
  BY EmptyLine DEF Quiet, Heading, EndsIn

\* After a main/IR toggle, with no command lost since, all outputs switched with
\* the show relay show the camera of relay_ir_state when the desk is quiet,
\* however often the button was pressed and whatever was lost before.
THEOREM BuildingFollows ==
  CamerasOnRouter /\ ScreensNotSwitched => (DeskSpec => []SwitchedDestsFollow)
  <1> SUFFICES ASSUME CamerasOnRouter, ScreensNotSwitched
               PROVE  DeskSpec => []SwitchedDestsFollow
    OBVIOUS
  <1>1. DeskInit => FollowInv
    BY DEF DeskInit, FollowInv
  <1>2. DeskInv /\ FollowInv /\ [DeskNext]_deskVars => FollowInv'
    BY NextFollowInv DEF DeskInv
  <1>3. FollowInv => SwitchedDestsFollow
    BY QuietArrived DEF FollowInv, SwitchedDestsFollow, ToggleToCome, Quiet
  <1> QED BY InitDeskInv, NextDeskInv, <1>1, <1>2, <1>3, PTL DEF DeskSpec
-----------------------------------------------------------------------------
(* LEDs and USB lines follow the router.                                   *)

\* Hypotheses: the screens of the desk are different outputs of the router, and
\* its buttons do not post confirmations.
ScreensOnRouter ==
  /\ \A p \in Panels : settings.routing_panel_destinations[p] \in 1 .. NDests
  /\ \A p, q \in Panels :
       settings.routing_panel_destinations[p] = settings.routing_panel_destinations[q] => p = q

ButtonsOnly == \A m \in PostedMessages : m.type # "ETHERNET"

\* The output of a panel's screen, from 0.
Screen(panel) == settings.routing_panel_destinations[panel] - 1

ConfirmsOf(output) == {m \in InputMessages : m.type = "ETHERNET" /\ m.output = output}

ConfirmsWith(output, inputs) == {m \in ConfirmsOf(output) : m.input \in inputs}

\* LED and cache of the panel tell what is on its screen.
ShownRight(panel) ==
  /\ FoundButton(panel, OnScreen(panel), output_state_buffer.led_panel[panel])
  /\ output_state_buffer.led_panel[panel] # 0 => cache_panel_routing[panel] = OnScreen(panel)

\* The last confirmation on its way for the output is for one of the inputs.
Coming(newer, older, output, inputs) ==
  EndsIn(newer, older, ConfirmsOf(output), ConfirmsWith(output, inputs))

NoneComing(newer, older, output) == SilentBoth(newer, older, ConfirmsOf(output))

\* The last confirmation on its way for the panel is what is on its screen, or
\* there is none left and LED and cache tell it.
Told(panel) ==
  \/ Coming(from_router, input_event_queue, Screen(panel), {route[Screen(panel)]})
  \/ NoneComing(from_router, input_event_queue, Screen(panel)) /\ ShownRight(panel)

ToldInv ==
  /\ ~confirm_lost => link = "up"
  /\ ~confirm_lost => \A p \in Panels : Told(p)

LEMMA ConfirmsWithOf == \A d, i : ConfirmsWith(d, i) \subseteq ConfirmsOf(d)
  BY DEF ConfirmsWith

LEMMA ScreenTypes ==
  ASSUME ScreensOnRouter, NEW p \in Panels
  PROVE  /\ Screen(p) \in Dests
         /\ \A q \in Panels : Screen(q) = Screen(p) => q = p
  <1> DEFINE output(q) == settings.routing_panel_destinations[q]
  <1>1. \A q \in Panels : output(q) \in 1 .. NDests
    BY DEF ScreensOnRouter
  <1>2. \A q \in Panels : output(q) = output(p) => q = p
    BY DEF ScreensOnRouter
  <1>3. \A q : Screen(q) = output(q) - 1
    BY DEF Screen
  <1> HIDE DEF output
  <1>4. Screen(p) \in Dests
    BY <1>1, <1>3, SizesAssumption DEF Dests
  <1>5. \A q \in Panels : Screen(q) = Screen(p) => output(q) = output(p)
    BY <1>1, <1>3, SizesAssumption
  <1> QED BY <1>2, <1>4, <1>5

\* Which confirmations a confirmation is one of.
LEMMA ConfirmOf ==
  ASSUME NEW d \in Dests, NEW i \in Inputs, NEW e \in Dests, NEW inputs
  PROVE  /\ ConfirmMsg(d, i) \in InputMessages
         /\ ConfirmMsg(d, i) \in ConfirmsOf(e) <=> d = e
         /\ ConfirmMsg(d, i) \in ConfirmsWith(e, inputs) <=> d = e /\ i \in inputs
  <1>1. ConfirmMsg(d, i) \in InputMessages
    BY ConfirmType, ConfirmsAreInput
  <1>2. ConfirmMsg(d, i).type = "ETHERNET" /\ ConfirmMsg(d, i).output = d /\ ConfirmMsg(d, i).input = i
    BY DEF ConfirmMsg
  <1> QED BY <1>1, <1>2 DEF ConfirmsOf, ConfirmsWith

\* A dump tells what is on every output.
LEMMA DumpTells ==
  ASSUME route \in [Dests -> Inputs], NEW d \in Dests, NEW inputs, route[d] \in inputs
  PROVE  Ends(Dump, ConfirmsOf(d), ConfirmsWith(d, inputs))
  <1>1. NDests \in Nat /\ d \in 0 .. NDests - 1
    BY SizesAssumption DEF Dests
  <1>2. Len(Dump) = NDests /\ \A k \in 1 .. NDests : Dump[k] = ConfirmMsg(k - 1, route[k - 1])
    BY DumpType
  <1>3. d + 1 \in 1 .. Len(Dump) /\ Dump[d + 1] = ConfirmMsg(d, route[d])
    BY <1>1, <1>2
  <1>4. Dump[d + 1] \in ConfirmsWith(d, inputs)
    BY <1>3, ConfirmOf
  <1>5. ASSUME NEW j \in 1 .. Len(Dump), j > d + 1 PROVE Dump[j] \notin ConfirmsOf(d)
    <2>1. Dump[j] = ConfirmMsg(j - 1, route[j - 1]) /\ j - 1 \in Dests /\ j - 1 # d
      BY <1>1, <1>2, <1>5 DEF Dests
    <2> QED BY <2>1, ConfirmOf
  <1> QED BY <1>3, <1>4, <1>5 DEF Ends

\* A button's message is no confirmation.
LEMMA PressOfNone ==
  ASSUME ButtonsOnly, NEW m \in PostedMessages, NEW d
  PROVE  m \in InputMessages /\ m \notin ConfirmsOf(d)
  BY PostedAssumption DEF ButtonsOnly, ConfirmsOf
-----------------------------------------------------------------------------
(* What steps do to the confirmations on their way, for any right ones.    *)

LEMMA LinesTypes ==
  ASSUME TypeOK, DeskTypeOK
  PROVE  from_router \in Seq(InputMessages) /\ input_event_queue \in Seq(InputMessages)
  <1>1. from_router \in Seq(Confirms)
    BY DeskNetTypes DEF NetTypeOK
  <1> QED BY <1>1, ConfirmsAreInput, SeqMonotonic DEF TypeOK

\* The steps of people, client, network and parser pass confirmations on, or
\* lose one and say so.
LEMMA OthersKeepComing ==
  ASSUME ButtonsOnly, TypeOK, DeskTypeOK, NEW d, NEW inputs, ~confirm_lost',
         Press \/ SupplyOn \/ TcpSend \/ TcpRecv \/ TcpRecvLoses \/ Disconnect \/ UNCHANGED deskVars
  PROVE  /\ Coming(from_router, input_event_queue, d, inputs) =>
              Coming(from_router', input_event_queue', d, inputs)
         /\ NoneComing(from_router, input_event_queue, d) =>
              NoneComing(from_router', input_event_queue', d)
  <1> DEFINE queue == input_event_queue
  <1>1. CASE UNCHANGED << from_router, input_event_queue >>
    BY <1>1
  <1>2. CASE SupplyOn \/ TcpSend \/ UNCHANGED deskVars
    <2>1. UNCHANGED << from_router, input_event_queue >>
      BY <1>2 DEF SupplyOn, RequestRouteDump, TcpSend, TakeOutput, deskVars, netVars, vars
    <2> QED BY <1>1, <2>1
  <1>3. CASE Press
    <2>1. PICK m \in PostedMessages : PostInput(m)
      BY <1>3 DEF Press
    <2>2. /\ from_router' = from_router
          /\ input_event_queue' \in {queue, Append(queue, m)}
      BY <1>3, <2>1 DEF Press, netVars, PostInput, xQueueSend
    <2>3. m \in InputMessages /\ m \notin ConfirmsOf(d)
      BY PressOfNone
    <2>4. from_router \in Seq(InputMessages) /\ queue \in Seq(InputMessages)
      BY LinesTypes
    <2> HIDE DEF queue
    <2>5. /\ EndsIn(from_router, Append(queue, m), ConfirmsOf(d), ConfirmsWith(d, inputs)) <=>
               EndsIn(from_router, queue, ConfirmsOf(d), ConfirmsWith(d, inputs))
          /\ SilentBoth(from_router, Append(queue, m), ConfirmsOf(d)) <=>
               SilentBoth(from_router, queue, ConfirmsOf(d))
      BY <2>3, <2>4, AddOther, ConfirmsWithOf, Zenon
    <2> QED BY <2>2, <2>5 DEF Coming, NoneComing, queue
  <1>4. CASE TcpRecv
    <2>1. /\ from_router # << >> /\ from_router' = Tail(from_router)
          /\ PostInput(Head(from_router)) /\ ~QueueFull(queue, InputQueueLen)
      BY <1>4 DEF TcpRecv
    <2>2. input_event_queue' = Append(queue, Head(from_router))
      BY <2>1 DEF PostInput, xQueueSend
    <2>3. from_router \in Seq(InputMessages) /\ queue \in Seq(InputMessages)
      BY LinesTypes
    <2> HIDE DEF queue
    <2>4. /\ EndsIn(from_router, queue, ConfirmsOf(d), ConfirmsWith(d, inputs)) =>
               EndsIn(Tail(from_router), Append(queue, Head(from_router)), ConfirmsOf(d),
                      ConfirmsWith(d, inputs))
          /\ SilentBoth(from_router, queue, ConfirmsOf(d)) =>
               SilentBoth(Tail(from_router), Append(queue, Head(from_router)), ConfirmsOf(d))
      BY <2>1, <2>3, HandOver, ConfirmsWithOf, Zenon
    <2> QED BY <2>1, <2>2, <2>4 DEF Coming, NoneComing, queue
  <1>5. CASE TcpRecvLoses \/ Disconnect
    BY <1>5 DEF TcpRecvLoses, Disconnect
  <1> QED BY <1>2, <1>3, <1>4, <1>5

\* The router tells what it switches.
LEMMA RoutedIsComing ==
  ASSUME TypeOK, DeskTypeOK, link = "up", NEW output \in Dests, NEW input \in Inputs,
         RouterRoutes(output, input), UNCHANGED vars, NEW d \in Dests, NEW inputs
  PROVE  /\ output = d /\ input \in inputs =>
              Coming(from_router', input_event_queue', d, inputs)
         /\ output # d /\ Coming(from_router, input_event_queue, d, inputs) =>
              Coming(from_router', input_event_queue', d, inputs)
         /\ output # d /\ NoneComing(from_router, input_event_queue, d) =>
              NoneComing(from_router', input_event_queue', d)
         /\ route'[d] = IF output = d THEN input ELSE route[d]
  <1> DEFINE m == ConfirmMsg(output, input)
  <1>1. /\ from_router \in Seq(InputMessages) /\ input_event_queue \in Seq(InputMessages)
        /\ m \in InputMessages
        /\ m \in ConfirmsOf(d) <=> output = d
        /\ m \in ConfirmsWith(d, inputs) <=> output = d /\ input \in inputs
    BY LinesTypes, ConfirmOf
  <1>2. from_router' = Append(from_router, m) /\ input_event_queue' = input_event_queue
    BY DEF RouterRoutes, vars
  <1>3. route'[d] = IF output = d THEN input ELSE route[d]
    BY DEF RouterRoutes, DeskTypeOK
  <1> HIDE DEF m
  <1>4. ASSUME output = d, input \in inputs
        PROVE  Coming(from_router', input_event_queue', d, inputs)
    <2>1. EndsIn(Append(from_router, m), input_event_queue, ConfirmsOf(d), ConfirmsWith(d, inputs))
      BY <1>1, <1>4, AddRight, Zenon
    <2> QED BY <1>2, <2>1 DEF Coming
  <1>5. ASSUME output # d
        PROVE  /\ Coming(from_router, input_event_queue, d, inputs) =>
                    Coming(from_router', input_event_queue', d, inputs)
               /\ NoneComing(from_router, input_event_queue, d) =>
                    NoneComing(from_router', input_event_queue', d)
    <2>1. /\ EndsIn(Append(from_router, m), input_event_queue, ConfirmsOf(d),
                    ConfirmsWith(d, inputs)) <=>
               EndsIn(from_router, input_event_queue, ConfirmsOf(d), ConfirmsWith(d, inputs))
          /\ SilentBoth(Append(from_router, m), input_event_queue, ConfirmsOf(d)) <=>
               SilentBoth(from_router, input_event_queue, ConfirmsOf(d))
      BY <1>1, <1>5, AddOther, ConfirmsWithOf, Zenon
    <2> QED BY <1>2, <2>1 DEF Coming, NoneComing
  <1> QED BY <1>3, <1>4, <1>5

\* A dump, asked for or as a greeting, tells what is on the output.
LEMMA DumpIsComing ==
  ASSUME TypeOK, DeskTypeOK, NEW d \in Dests, NEW inputs, route[d] \in inputs,
         from_router' \in {Dump, from_router \o Dump}
  PROVE  Coming(from_router', input_event_queue', d, inputs)
  <1>1. Ends(Dump, ConfirmsOf(d), ConfirmsWith(d, inputs))
    BY DumpTells DEF DeskTypeOK
  <1>2. from_router \in Seq(Confirms) /\ Dump \in Seq(Confirms)
    BY DumpType, DeskNetTypes DEF NetTypeOK
  <1>3. Ends(from_router \o Dump, ConfirmsOf(d), ConfirmsWith(d, inputs))
    BY <1>1, <1>2, ConcatEnds, Zenon
  <1> QED BY <1>1, <1>3 DEF Coming, EndsIn

\* The logic task takes a message.
LEMMA ReceivedComing ==
  ASSUME TypeOK, DeskTypeOK, NEW type, Receive(type), NEW d, NEW inputs
  PROVE  /\ NoneComing(from_router, input_event_queue, d) <=>
              /\ Head(input_event_queue) \notin ConfirmsOf(d)
              /\ NoneComing(from_router, input_event_queue', d)
         /\ Coming(from_router, input_event_queue, d, inputs) =>
              \/ Coming(from_router, input_event_queue', d, inputs)
              \/ /\ Head(input_event_queue) \in ConfirmsWith(d, inputs)
                 /\ NoneComing(from_router, input_event_queue', d)
         /\ Head(input_event_queue) \in ConfirmsOf(d) => type = "ETHERNET"
  <1> DEFINE queue == input_event_queue
  <1>1. /\ from_router \in Seq(InputMessages) /\ queue \in Seq(InputMessages) /\ queue # << >>
        /\ input_event_queue' = Tail(queue) /\ Head(queue).type = type
    BY LinesTypes DEF Receive
  <1>2. Head(queue) \in ConfirmsOf(d) => type = "ETHERNET"
    BY <1>1 DEF ConfirmsOf
  <1> HIDE DEF queue
  <1>3. /\ SilentBoth(from_router, queue, ConfirmsOf(d)) <=>
             Head(queue) \notin ConfirmsOf(d) /\ SilentBoth(from_router, Tail(queue), ConfirmsOf(d))
        /\ EndsIn(from_router, queue, ConfirmsOf(d), ConfirmsWith(d, inputs)) =>
             \/ EndsIn(from_router, Tail(queue), ConfirmsOf(d), ConfirmsWith(d, inputs))
             \/ /\ Head(queue) \in ConfirmsWith(d, inputs)
                /\ SilentBoth(from_router, Tail(queue), ConfirmsOf(d))
    BY <1>1, TakeOldest, ConfirmsWithOf, Zenon
  <1> QED BY <1>1, <1>2, <1>3 DEF Coming, NoneComing, queue
-----------------------------------------------------------------------------
\* The logic task takes or sends; what it takes is shown, or was not the last.
LEMMA LogicKeepsTold ==
  ASSUME ScreensOnRouter, TypeOK, DeskTypeOK, Logic, NEW p \in Panels, Told(p)
  PROVE  Told(p)'
  <1> DEFINE h    == Head(input_event_queue)
             line == from_router
  <1>1. UNCHANGED << from_router, route >>
    BY HandlerSends
  <1>2. Screen(p) \in Dests /\ OnScreen(p) = route[Screen(p)] + 1
    BY ScreenTypes DEF Screen, OnScreen
  <1>3. SUFFICES
          \/ Coming(from_router, input_event_queue', Screen(p), {route[Screen(p)]})
          \/ NoneComing(from_router, input_event_queue', Screen(p)) /\ ShownRight(p)'
    BY <1>1 DEF Told, Screen
  <1>4. CASE ~ProcessScreenConfirm
    <2>1. ShownRight(p) => ShownRight(p)'
      <3>1. [Next]_vars
        BY DEF Logic, Next
      <3>2. cache_panel_routing' = cache_panel_routing
            /\ output_state_buffer'.led_panel = output_state_buffer.led_panel
        BY <1>4, <3>1, OtherStepsKeepScreens
      <3> QED BY <1>1, <3>2 DEF ShownRight, OnScreen, FoundButton, Shows
    <2>2. CASE TogglePanel \/ ToggleDest
      <3>1. input_event_queue' = input_event_queue
        BY <2>2 DEF TogglePanel, ToggleDest
      <3> QED BY <2>1, <3>1 DEF Told
    <2>3. CASE ProcessRouting \/ ProcessToggle
      <3>1. PICK type \in {"ROUTING", "IR_TOGGLE"} : Receive(type)
        BY <2>3 DEF ProcessRouting, ProcessToggle
      <3>2. h \notin ConfirmsOf(Screen(p))
        BY <3>1, ReceivedComing
      <3> QED BY <2>1, <3>1, <3>2, ReceivedComing DEF Told, ConfirmsWith
    <2>4. CASE ProcessOtherConfirm
      <3>1. Receive("ETHERNET") /\ h.output + 1 # settings.routing_panel_destinations[p]
        BY <2>4 DEF ProcessOtherConfirm
      <3>2. h.output \in Byte /\ settings.routing_panel_destinations[p] \in Byte
        BY <3>1, ReceivedTypes, ConfirmFields, SettingsTypes
      <3>3. h.output \in Nat /\ settings.routing_panel_destinations[p] \in Nat
        BY <3>2 DEF Byte
      <3>4. h \notin ConfirmsOf(Screen(p))
        BY <3>1, <3>3 DEF ConfirmsOf, Screen
      <3> QED BY <2>1, <3>1, <3>4, ReceivedComing DEF Told, ConfirmsWith
    <2> QED BY <1>4, <2>2, <2>3, <2>4 DEF Logic, LogicNext
  <1>5. CASE ProcessScreenConfirm
    <2> DEFINE newA == NewUsbState(settings.usb_source_a)
               newB == NewUsbState(settings.usb_source_b)
    <2>1. PICK panel \in Panels, found \in 0 .. NButtons :
            /\ FirstPanelFor(panel, h.output)
            /\ FoundButton(panel, h.input + 1, found)
            /\ CacheConfirm(panel, found, h.input + 1)
            /\ output_state_buffer' =
                 [output_state_buffer EXCEPT
                    !.led_panel    = NewLeds(panel, found),
                    !.usb_enable_a = IF newA # usb_enable_a_state THEN newA ELSE @,
                    !.usb_enable_b = IF newB # usb_enable_b_state THEN newB ELSE @]
      BY <1>5 DEF ProcessScreenConfirm
    <2> HIDE DEF newA, newB
    <2>2. Receive("ETHERNET") /\ h \in InputMessages /\ h.type = "ETHERNET"
      BY <1>5, ReceivedTypes DEF ProcessScreenConfirm
    <2>3. /\ h.output \in Nat /\ h.input \in Byte
          /\ settings.routing_panel_destinations[panel] \in Nat
      <3>1. h.output \in Byte /\ h.input \in Byte
        BY <2>2, ConfirmFields
      <3>2. settings.routing_panel_destinations[panel] \in Byte
        BY SettingsTypes
      <3> QED BY <3>1, <3>2 DEF Byte
    <2>4. h.output = Screen(panel)
      BY <2>1, <2>3 DEF FirstPanelFor, Screen
    <2>5. h \in ConfirmsOf(Screen(p)) <=> p = panel
      BY <2>2, <2>4, ScreenTypes DEF ConfirmsOf
    <2>6. output_state_buffer'.led_panel = [output_state_buffer.led_panel EXCEPT ![panel] = found]
      BY <2>1 DEF NewLeds, TypeOK
    <2>7. CASE p # panel
      <3>1. /\ output_state_buffer'.led_panel[p] = output_state_buffer.led_panel[p]
            /\ cache_panel_routing'[p] = cache_panel_routing[p]
        BY <2>1, <2>6, <2>7 DEF CacheConfirm, TypeOK
      <3>2. ShownRight(p) => ShownRight(p)'
        BY <1>1, <3>1 DEF ShownRight, OnScreen, FoundButton, Shows
      <3> QED BY <2>2, <2>5, <2>7, <3>2, ReceivedComing DEF Told, ConfirmsWith
    <2>8. CASE p = panel
      <3>1. h \in ConfirmsWith(Screen(p), {route[Screen(p)]}) => ShownRight(p)'
        <4> SUFFICES ASSUME h.input = route[Screen(p)] PROVE ShownRight(p)'
          BY DEF ConfirmsWith
        <4>1. h.input + 1 = OnScreen(p) /\ h.input + 1 \in 1 .. 256 /\ OnScreen(p)' = OnScreen(p)
          BY <1>1, <1>2, <2>3 DEF OnScreen, Byte
        <4>2. output_state_buffer'.led_panel[p] = found
          BY <2>6, <2>8 DEF TypeOK
        <4>3. FoundButton(p, OnScreen(p), found)
          BY <2>1, <2>8, <4>1
        <4>4. ASSUME found # 0 PROVE cache_panel_routing'[p] = OnScreen(p)
          <5>1. OnScreen(p) % 256 = OnScreen(p)
            BY <4>1, <4>3, <4>4, ShownFitsByte
          <5>2. cache_panel_routing' =
                  [cache_panel_routing EXCEPT ![p] = OnScreen(p) % 256]
            BY <2>1, <2>8, <4>1, <4>4 DEF CacheConfirm
          <5> QED BY <5>1, <5>2 DEF TypeOK
        <4> QED BY <4>1, <4>2, <4>3, <4>4 DEF ShownRight, FoundButton, Shows
      <3> QED BY <2>2, <2>5, <2>8, <3>1, ReceivedComing DEF Told
    <2> QED BY <2>7, <2>8
  <1> QED BY <1>4, <1>5

\* The router switches the screen, or tells again what is on it.
LEMMA RouterKeepsTold ==
  ASSUME ScreensOnRouter, TypeOK, DeskTypeOK, link = "up", UNCHANGED vars,
         NEW p \in Panels, Told(p),
         \/ \E output \in Dests, input \in Inputs : RouterRoutes(output, input)
         \/ from_router' = from_router \o Dump /\ UNCHANGED route
         \/ UNCHANGED << route, from_router >>
  PROVE  Told(p)'
  <1> DEFINE d == Screen(p)
  <1>1. d \in Dests
    BY ScreenTypes
  <1>2. route'[d] = route[d] => (ShownRight(p) => ShownRight(p)')
    BY DEF vars, logicVars, ShownRight, OnScreen, FoundButton, Shows, Screen
  <1>3. SUFFICES \/ Coming(from_router', input_event_queue', d, {route'[d]})
                 \/ NoneComing(from_router', input_event_queue', d) /\ ShownRight(p)'
    BY DEF Told, Screen
  <1>4. ASSUME NEW output \in Dests, NEW input \in Inputs, RouterRoutes(output, input)
        PROVE  \/ Coming(from_router', input_event_queue', d, {route'[d]})
               \/ NoneComing(from_router', input_event_queue', d) /\ ShownRight(p)'
    <2>1. /\ output = d => Coming(from_router', input_event_queue', d, {input})
          /\ output # d /\ Coming(from_router, input_event_queue, d, {route[d]}) =>
               Coming(from_router', input_event_queue', d, {route[d]})
          /\ output # d /\ NoneComing(from_router, input_event_queue, d) =>
               NoneComing(from_router', input_event_queue', d)
          /\ route'[d] = IF output = d THEN input ELSE route[d]
      <3> HIDE DEF d
      <3> QED BY <1>1, <1>4, RoutedIsComing
    <2> QED BY <1>2, <2>1 DEF Told
  <1>5. ASSUME from_router' = from_router \o Dump, UNCHANGED route
        PROVE  Coming(from_router', input_event_queue', d, {route'[d]})
    BY <1>1, <1>5, DumpIsComing
  <1>6. ASSUME UNCHANGED << route, from_router >>
        PROVE  \/ Coming(from_router', input_event_queue', d, {route'[d]})
               \/ NoneComing(from_router', input_event_queue', d) /\ ShownRight(p)'
    BY <1>2, <1>6 DEF Told, vars
  <1> QED BY <1>4, <1>5, <1>6

LEMMA NextToldInv ==
  ASSUME ScreensOnRouter, ButtonsOnly, TypeOK, DeskTypeOK, ToldInv, [DeskNext]_deskVars
  PROVE  ToldInv'
  <1>1. ~confirm_lost' => link' = "up"
    BY DEF ToldInv, DeskTypeOK, DeskNext, Logic, Press, SupplyOn, TcpSend, TcpRecv, TcpRecvLoses,
           RouterHandles, OtherPanelRoutes, Disconnect, Connect, Restart, deskVars, netVars, history
  <1> SUFFICES ASSUME ~confirm_lost', NEW p \in Panels PROVE Told(p)'
    BY <1>1 DEF ToldInv
  <1>2. Screen(p) \in Dests
    BY ScreenTypes
  <1>3. CASE Logic
    BY <1>3, HandlerSends, LogicKeepsTold DEF ToldInv
  <1>4. CASE \/ Press \/ SupplyOn \/ TcpSend \/ TcpRecv \/ TcpRecvLoses \/ Disconnect
             \/ UNCHANGED deskVars
    <2>1. ~confirm_lost /\ UNCHANGED << route, logicVars >>
      <3>1. CASE Press
        BY <3>1 DEF Press, PostInput, netVars
      <3>2. CASE SupplyOn
        BY <3>2 DEF SupplyOn, RequestRouteDump, netVars, history
      <3>3. CASE TcpSend
        BY <3>3 DEF TcpSend, TakeOutput, history
      <3>4. CASE TcpRecv
        BY <3>4 DEF TcpRecv, PostInput
      <3>5. CASE TcpRecvLoses \/ Disconnect
        BY <3>5 DEF TcpRecvLoses, Disconnect
      <3>6. CASE UNCHANGED deskVars
        BY <3>6 DEF deskVars, netVars, history, vars
      <3> QED BY <1>4, <3>1, <3>2, <3>3, <3>4, <3>5, <3>6
    <2>2. Told(p) /\ (ShownRight(p) => ShownRight(p)')
      BY <2>1 DEF ToldInv, ShownRight, OnScreen, FoundButton, Shows, logicVars
    <2> QED BY <1>4, <2>1, <2>2, OthersKeepComing DEF Told, Screen
  <1>5. CASE RouterHandles \/ OtherPanelRoutes
    <2>1. ~confirm_lost /\ UNCHANGED vars
      BY <1>5 DEF RouterHandles, OtherPanelRoutes, history
    <2>2. \/ \E output \in Dests, input \in Inputs : RouterRoutes(output, input)
          \/ from_router' = from_router \o Dump /\ UNCHANGED route
          \/ UNCHANGED << route, from_router >>
      BY <1>5, RouterAssumption DEF RouterHandles, OtherPanelRoutes
    <2> QED BY <2>1, <2>2, RouterKeepsTold DEF ToldInv
  <1>6. CASE Connect
    <2>1. from_router' = Dump /\ route' = route
      BY <1>6 DEF Connect
    <2>2. Coming(from_router', input_event_queue', Screen(p), {route'[Screen(p)]})
      BY <1>2, <2>1, DumpIsComing
    <2> QED BY <2>2 DEF Told, Screen
  <1>7. CASE Restart
    BY <1>7 DEF Restart
  <1> QED BY <1>3, <1>4, <1>5, <1>6, <1>7 DEF DeskNext

LEMMA QuietShown ==
  ASSUME Quiet, ~confirm_lost, ToldInv, NEW p \in Panels
  PROVE  ShownRight(p)
  BY EmptyLine DEF Quiet, ToldInv, Told, Coming, EndsIn

\* When the desk is quiet and no confirmation was lost since the last full dump,
\* the lit button of every panel stands for what the router shows on its screen,
\* whoever switched it, for all desks whose screens are different outputs.
THEOREM LedsFollowRouter == ScreensOnRouter /\ ButtonsOnly => (DeskSpec => []LedsShowRoutes)
  <1> SUFFICES ASSUME ScreensOnRouter, ButtonsOnly PROVE DeskSpec => []LedsShowRoutes
    OBVIOUS
  <1>1. DeskInit => ToldInv
    BY DEF DeskInit, ToldInv
  <1>2. DeskInv /\ ToldInv /\ [DeskNext]_deskVars => ToldInv'
    BY NextToldInv DEF DeskInv
  <1>3. ToldInv => LedsShowRoutes
    BY QuietShown DEF LedsShowRoutes, ShownRight
  <1> QED BY InitDeskInv, NextDeskInv, <1>1, <1>2, <1>3, PTL DEF DeskSpec

\* If a button shows what is on the screen, LED and cache are of that source.
LEMMA ListedIsCached ==
  ASSUME NEW p \in Panels, ShownRight(p), Listed(p)
  PROVE  cache_panel_routing[p] = OnScreen(p)
  <1>1. output_state_buffer.led_panel[p] # 0
    BY SizesAssumption DEF ShownRight, Listed, FoundButton, Buttons
  <1> QED BY <1>1 DEF ShownRight

\* When the desk is quiet and no confirmation was lost, a USB line is on if its source
\* is on a screen whose panel has a button for it, whatever the other screens show,
\* and off if every screen shows another source its panel has a button for.
THEOREM UsbFollowsRouter == ScreensOnRouter /\ ButtonsOnly => (DeskSpec => []UsbShowsListedRoutes)
  <1> SUFFICES ASSUME ScreensOnRouter, ButtonsOnly PROVE DeskSpec => []UsbShowsListedRoutes
    OBVIOUS
  <1>1. DeskInit => ToldInv
    BY DEF DeskInit, ToldInv
  <1>2. DeskInv /\ ToldInv /\ [DeskNext]_deskVars => ToldInv'
    BY NextToldInv DEF DeskInv
  <1>3. DeskInv /\ ToldInv => UsbShowsListedRoutes
    <2> SUFFICES ASSUME DeskInv, ToldInv, Quiet, ~confirm_lost PROVE UsbShowsListedRoutes
      BY DEF UsbShowsListedRoutes
    <2>1. \A p \in Panels : Listed(p) => cache_panel_routing[p] = OnScreen(p)
      BY QuietShown, ListedIsCached
    <2>2. \A usb_source : UsbAgrees(UsbEnable(cache_panel_routing, usb_source), usb_source)
      BY <2>1 DEF UsbEnable, UsbAgrees
    <2> QED BY <2>2 DEF DeskInv, UsbInv, UsbFollowsScreens, UsbShowsListedRoutes
  <1> QED BY InitDeskInv, NextDeskInv, <1>1, <1>2, <1>3, PTL DEF DeskSpec
-----------------------------------------------------------------------------
(* The last press of a button stands.                                      *)

\* Hypotheses: people press buttons that are there, and a panel with a show relay
\* button has none with a camera's own number, as in config.txt.
RealButtons ==
  \A m \in PostedMessages : m.type = "ROUTING" => m.panel_button \in Buttons

Cameras == {settings.show_relay_main_source, settings.show_relay_ir_source}

CamerasByRelayOnly ==
  \A p \in Panels :
    (\E b \in Buttons : settings.routing_panel_sources[p][b] = ShowRelay) =>
      \A b \in Buttons : settings.routing_panel_sources[p][b] \notin Cameras

PatientDesk ==
  /\ ScreensOnRouter /\ CamerasOnRouter /\ ScreensNotSwitched
  /\ ButtonsOnly /\ RealButtons /\ CamerasByRelayOnly

\* The panel has asked for something the router has, and only the desk switches it.
Mine(panel) ==
  asked[panel] \in {ShowRelay} \cup {i + 1 : i \in Inputs} /\ Screen(panel) \notin OtherDests

\* The input its screen should come to show.
Wanted(panel) ==
  Dec8(IF asked[panel] = ShowRelay THEN ShowRelaySource(relay_ir_state) ELSE asked[panel])

\* The inputs its screen may show in either state of the show relay.
Good(panel) == {Dec8(source) : source \in IF asked[panel] = ShowRelay THEN Cameras ELSE {asked[panel]}}

\* cache_panel_relay_states tells whether the panel asked for the show relay.
RelayRight(panel) == cache_panel_relay_states[panel] = IF asked[panel] = ShowRelay THEN 1 ELSE 0

\* Messages that carry an input that is not good.
BadCommands(output, inputs) == {m \in CommandsFor(output) : m.input \notin inputs}

BadConfirms(output, inputs) == ConfirmsOf(output) \ ConfirmsWith(output, inputs)

\* Nothing anywhere is about an input the panel did not ask for.
Calm(panel) ==
  /\ RelayRight(panel)
  /\ route[Screen(panel)] \in Good(panel)
  /\ SilentBoth(ethernet_message_output_queue, to_router, BadCommands(Screen(panel), Good(panel)))
  /\ SilentBoth(from_router, input_event_queue, BadConfirms(Screen(panel), Good(panel)))

\* The button messages of a kind.
Pressed(type) == {m \in InputMessages : m.type = type}

WrongButtons == {m \in Pressed("ROUTING") : m.panel_button \notin Buttons}

\* A toggle is to be done, or has not been past all panels.
TogglePending == pc = "panels" \/ ~Silent(input_event_queue, Pressed("IR_TOGGLE"))

\* The panel's screen shows or will show what it wants, unless the toggle will
\* see to it.
Aimed(panel) ==
  \/ pc = "panels" /\ loop <= panel /\ asked[panel] = ShowRelay
  \/ Heading(ethernet_message_output_queue, to_router, route, Screen(panel), Wanted(panel))

\* A command for the screen is on its way, or its last confirmation is, and is
\* good, or the cache is right.
Confirmed(panel) ==
  \/ ~SilentBoth(ethernet_message_output_queue, to_router, CommandsFor(Screen(panel)))
  \/ Coming(from_router, input_event_queue, Screen(panel), Good(panel))
  \/ NoneComing(from_router, input_event_queue, Screen(panel)) /\ RelayRight(panel)

\* What holds of a panel.
InHand(panel) ==
  Mine(panel) =>
    /\ TogglePending => Calm(panel)
    /\ Aimed(panel)
    /\ ~confirm_lost => Confirmed(panel)

\* What the buttons did.
PressedWell ==
  /\ Silent(input_event_queue, WrongButtons)
  /\ \A p \in Panels : asked[p] = 0 \/ \E b \in Buttons : settings.routing_panel_sources[p][b] = asked[p]
  /\ ~hasty => Silent(input_event_queue, Pressed("ROUTING")) \/ ~TogglePending

PatientInv ==
  PressedWell /\ (~hasty => \A p \in Panels : InHand(p))
-----------------------------------------------------------------------------
LEMMA NoneAsked == \A i \in Inputs : i + 1 # 0
  BY InputsFitByte DEF Byte

LEMMA CameraTypes ==
  ASSUME CamerasOnRouter, NEW source \in Cameras
  PROVE  source \in Byte /\ source - 1 \in Inputs /\ Dec8(source) = source - 1
  <1>1. source \in Byte
    BY SettingsTypes DEF Cameras
  <1>2. source - 1 \in Inputs
    BY DEF CamerasOnRouter, Cameras, ShowRelaySource, RELAY_STATE_MAIN, RELAY_STATE_IR
  <1> QED BY <1>1, <1>2, SourceOnWire

LEMMA CurrentCamera == ShowRelaySource(relay_ir_state) \in Cameras
  BY DEF ShowRelaySource, Cameras

\* What is good for a panel is an input of the router, and what it wants is good.
LEMMA GoodInputs ==
  ASSUME CamerasOnRouter, DeskTypeOK, NEW p \in Panels, Mine(p)
  PROVE  /\ Good(p) \subseteq Inputs /\ Wanted(p) \in Good(p)
         /\ \A i \in Good(p) :
              i + 1 \in IF asked[p] = ShowRelay THEN Cameras ELSE {asked[p]}
         /\ Wanted(p) + 1 = IF asked[p] = ShowRelay THEN ShowRelaySource(relay_ir_state)
                                                   ELSE asked[p]
  <1>1. CASE asked[p] = ShowRelay
    <2>1. \A source \in Cameras :
            /\ Dec8(source) = source - 1 /\ source - 1 \in Inputs /\ source \in Int
      BY CameraTypes DEF Byte
    <2>2. Good(p) = {Dec8(source) : source \in Cameras}
      BY <1>1 DEF Good
    <2>3. Wanted(p) = Dec8(ShowRelaySource(relay_ir_state))
      BY <1>1 DEF Wanted
    <2>4. \A i \in Good(p) : i \in Inputs /\ i + 1 \in Cameras
      <3> SUFFICES ASSUME NEW source \in Cameras
                   PROVE  Dec8(source) \in Inputs /\ Dec8(source) + 1 = source
        BY <2>2
      <3> QED BY <2>1
    <2>5. Wanted(p) \in Good(p) /\ Wanted(p) + 1 = ShowRelaySource(relay_ir_state)
      BY <2>1, <2>2, <2>3, CurrentCamera
    <2> QED BY <1>1, <2>4, <2>5
  <1>2. CASE asked[p] # ShowRelay
    <2>1. asked[p] \in Byte /\ asked[p] - 1 \in Inputs
      <3>1. PICK i \in Inputs : asked[p] = i + 1
        BY <1>2 DEF Mine
      <3>2. i \in Int
        BY InputsFitByte DEF Byte
      <3> QED BY <3>1, <3>2 DEF DeskTypeOK
    <2>2. Dec8(asked[p]) = asked[p] - 1
      BY <2>1, SourceOnWire
    <2>3. Good(p) = {Dec8(asked[p])} /\ Wanted(p) = Dec8(asked[p])
      BY <1>2 DEF Good, Wanted
    <2> QED BY <1>2, <2>1, <2>2, <2>3 DEF Byte
  <1> QED BY <1>1, <1>2

\* A good confirmation leaves the show relay cache as the panel asked for it.
LEMMA GoodConfirm ==
  ASSUME PatientDesk, TypeOK, DeskTypeOK, PressedWell, NEW p \in Panels, Mine(p),
         NEW i \in Good(p), NEW found \in 0 .. NButtons, FoundButton(p, i + 1, found),
         CacheConfirm(p, found, i + 1)
  PROVE  cache_panel_relay_states'[p] = IF asked[p] = ShowRelay THEN 1 ELSE 0
  <1> DEFINE sources == settings.routing_panel_sources[p]
  <1>1. i + 1 \in IF asked[p] = ShowRelay THEN Cameras ELSE {asked[p]}
    BY GoodInputs DEF PatientDesk
  <1>2. PICK b \in Buttons : sources[b] = asked[p]
    BY NoneAsked DEF PressedWell, Mine, ShowRelay
  <1>3. (\E c \in Buttons : sources[c] = ShowRelay) => \A c \in Buttons : sources[c] \notin Cameras
    BY DEF PatientDesk, CamerasByRelayOnly
  <1>4. Shows(p, b, i + 1)
    BY <1>1, <1>2 DEF Shows, Cameras
  <1>5. found # 0 /\ found - 1 \in Buttons /\ Shows(p, found - 1, i + 1)
    BY <1>4, SizesAssumption DEF FoundButton, Buttons
  <1>6. cache_panel_relay_states' =
          [cache_panel_relay_states EXCEPT ![p] = IF i + 1 = sources[found - 1] THEN 0 ELSE 1]
    BY <1>5 DEF CacheConfirm
  <1>7. cache_panel_relay_states'[p] = IF i + 1 = sources[found - 1] THEN 0 ELSE 1
    BY <1>6 DEF TypeOK
  <1>8. CASE asked[p] = ShowRelay
    BY <1>1, <1>2, <1>3, <1>5, <1>7, <1>8 DEF Shows
  <1>9. CASE asked[p] # ShowRelay
    <2>1. i + 1 = sources[b]
      BY <1>1, <1>2, <1>9
    <2>2. i + 1 = sources[found - 1]
      BY <1>3, <1>5, <2>1 DEF Shows, Cameras
    <2> QED BY <1>7, <1>9, <2>2
  <1> QED BY <1>8, <1>9
-----------------------------------------------------------------------------
(* What a step does to the buttons' messages and to what was asked.        *)

LEMMA KindsOfMessages ==
  ASSUME NEW m \in InputMessages
  PROVE  /\ \A type : m \in Pressed(type) <=> m.type = type
         /\ m \in WrongButtons <=> m.type = "ROUTING" /\ m.panel_button \notin Buttons
  BY DEF Pressed, WrongButtons

LEMMA SilentAppend ==
  ASSUME NEW S, NEW line \in Seq(S), NEW m \in S, NEW about
  PROVE  Silent(Append(line, m), about) <=> Silent(line, about) /\ m \notin about
  BY AppendAbout, AppendOther

LEMMA SilentTail ==
  ASSUME NEW S, NEW line \in Seq(S), line # << >>, NEW about
  PROVE  Silent(line, about) <=> Head(line) \notin about /\ Silent(Tail(line), about)
  BY TakeHead

\* The input queue only loses its head, gets a confirmation, or a button's
\* message while the desk is quiet, or else hasty.
LEMMA InputQueueSteps ==
  ASSUME PatientDesk, TypeOK, DeskTypeOK, [DeskNext]_deskVars
  PROVE  \/ input_event_queue' = input_event_queue /\ ~Press
         \/ /\ Logic /\ input_event_queue # << >>
            /\ input_event_queue' = Tail(input_event_queue)
         \/ /\ TcpRecv
            /\ \E m \in InputMessages :
                 m.type = "ETHERNET" /\ input_event_queue' = Append(input_event_queue, m)
         \/ /\ Press
            /\ \E m \in PostedMessages :
                 input_event_queue' \in {input_event_queue, Append(input_event_queue, m)}
         \/ Restart /\ input_event_queue' = << >>
  <1>1. CASE Press
    BY <1>1 DEF Press, PostInput, xQueueSend
  <1>2. CASE Restart
    BY <1>2 DEF Restart
  <1> SUFFICES ASSUME ~Press, ~Restart
               PROVE  \/ input_event_queue' = input_event_queue
                      \/ /\ Logic /\ input_event_queue # << >>
                         /\ input_event_queue' = Tail(input_event_queue)
                      \/ /\ TcpRecv
                         /\ \E m \in InputMessages :
                              m.type = "ETHERNET" /\ input_event_queue' = Append(input_event_queue, m)
    BY <1>1, <1>2
  <1>3. CASE Logic
    BY <1>3 DEF Logic, LogicNext, ProcessRouting, ProcessToggle, TogglePanel, ToggleDest,
                ProcessOtherConfirm, ProcessScreenConfirm, Receive
  <1>4. CASE TcpRecv
    <2>1. from_router # << >> /\ PostInput(Head(from_router))
      BY <1>4 DEF TcpRecv
    <2>2. Head(from_router) \in Confirms
      BY <2>1, DeskNetTypes DEF NetTypeOK
    <2>3. Head(from_router) \in InputMessages /\ Head(from_router).type = "ETHERNET"
      BY <2>2, ConfirmsAreInput DEF Confirms
    <2> QED BY <1>4, <2>1, <2>3 DEF PostInput, xQueueSend
  <1>5. CASE ~Logic /\ ~TcpRecv
    BY <1>5 DEF DeskNext, SupplyOn, RequestRouteDump, TcpSend, TakeOutput, TcpRecvLoses,
                RouterHandles, OtherPanelRoutes, Disconnect, Connect, deskVars, vars
  <1> QED BY <1>3, <1>4, <1>5

LEMMA LogicIsNoRestart == DeskTypeOK /\ Logic => ~Restart
  <1> SUFFICES ASSUME DeskTypeOK, Logic, Restart PROVE FALSE
    OBVIOUS
  <1>1. faults \in Int
    BY RouterAssumption DEF DeskTypeOK
  <1>2. faults' = faults
    BY DEF Logic, bounds
  <1>3. faults' = faults + 1
    BY DEF Restart
  <1> QED BY <1>1, <1>2, <1>3

\* A toggle is pending after a step only if it was before, or its button was pressed.
LEMMA TogglePends ==
  ASSUME PatientDesk, TypeOK, DeskTypeOK, [DeskNext]_deskVars, ~Press, TogglePending'
  PROVE  TogglePending /\ ~Restart
  <1>1. input_event_queue \in Seq(InputMessages)
    BY LinesTypes
  <1>2. ~Silent(input_event_queue', Pressed("IR_TOGGLE")) =>
          ~Silent(input_event_queue, Pressed("IR_TOGGLE")) /\ ~Restart
    <2>1. CASE Logic /\ input_event_queue # << >> /\ input_event_queue' = Tail(input_event_queue)
      <3>1. ~Restart
        BY <2>1, LogicIsNoRestart
      <3> QED BY <1>1, <2>1, <3>1, SilentTail
    <2>2. ASSUME TcpRecv,
                 NEW m \in InputMessages, m.type = "ETHERNET",
                 input_event_queue' = Append(input_event_queue, m)
          PROVE  ~Silent(input_event_queue', Pressed("IR_TOGGLE")) =>
                   ~Silent(input_event_queue, Pressed("IR_TOGGLE")) /\ ~Restart
      <3>1. m \notin Pressed("IR_TOGGLE")
        BY <2>2, KindsOfMessages
      <3>2. ~Restart
        BY <1>1, <2>2 DEF Restart
      <3> QED BY <1>1, <2>2, <3>1, <3>2, SilentAppend
    <2> QED BY <2>1, <2>2, InputQueueSteps, EmptyLine DEF Restart
  <1>3. CASE Logic /\ ~Restart
    <2>1. CASE ProcessToggle
      <3>1. Head(input_event_queue) \in Pressed("IR_TOGGLE") /\ input_event_queue # << >>
        BY <2>1, ReceivedTypes, KindsOfMessages DEF ProcessToggle, Receive
      <3> QED BY <1>1, <1>3, <3>1, SilentTail DEF TogglePending
    <2>2. CASE ~ProcessToggle
      <3>1. pc' = "panels" => pc = "panels"
        BY <1>3, <2>2 DEF Logic, LogicNext, ProcessRouting, TogglePanel, ToggleDest, DestsDone,
                          ProcessOtherConfirm, ProcessScreenConfirm, logicVars
      <3> QED BY <1>2, <1>3, <3>1 DEF TogglePending
    <2> QED BY <2>1, <2>2
  <1>4. CASE Restart
    BY <1>4, EmptyLine DEF Restart, TogglePending
  <1>5. CASE ~Logic /\ ~Restart
    <2>1. pc' = pc
      BY <1>5, OthersKeepLogic DEF logicVars
    <2> QED BY <1>2, <1>5, <2>1 DEF TogglePending
  <1> QED BY <1>3, <1>4, <1>5

\* Steps that are no presses bring no button messages of any kind.
LEMMA NoNewButtons ==
  ASSUME PatientDesk, TypeOK, DeskTypeOK, [DeskNext]_deskVars, ~Press,
         NEW kind, \A m \in kind : m.type # "ETHERNET",
         Silent(input_event_queue, kind)
  PROVE  Silent(input_event_queue', kind)
  <1>1. input_event_queue \in Seq(InputMessages)
    BY LinesTypes
  <1>2. CASE input_event_queue # << >> /\ input_event_queue' = Tail(input_event_queue)
    BY <1>1, <1>2, SilentTail
  <1>3. ASSUME NEW m \in InputMessages, m.type = "ETHERNET",
               input_event_queue' = Append(input_event_queue, m)
        PROVE  Silent(input_event_queue', kind)
    BY <1>1, <1>3, SilentAppend
  <1> QED BY <1>2, <1>3, InputQueueSteps, EmptyLine

\* A patient press finds nothing else pressed.
LEMMA PatientPress ==
  ASSUME TypeOK, Press, ~hasty'
  PROVE  /\ Quiet /\ ~hasty /\ ~confirm_lost /\ pc' = "wait"
         /\ \E m \in PostedMessages : input_event_queue' \in {<< >>, Append(<< >>, m)}
  <1>1. Quiet /\ ~hasty /\ ~confirm_lost
    BY DEF Press
  <1> QED BY <1>1 DEF Press, PostInput, xQueueSend, Quiet, logicVars

\* What a panel asks for is the source of one of its buttons.
LEMMA AsksListed ==
  ASSUME TypeOK, PressedWell, ProcessRouting
  PROVE  LET m == Head(input_event_queue)
         IN  /\ m.panel \in Panels /\ m.panel_button \in Buttons
             /\ PanelSource(m.panel, m.panel_button) =
                  settings.routing_panel_sources[m.panel][m.panel_button]
  <1> DEFINE m == Head(input_event_queue)
  <1>1. m \in InputMessages /\ m.type = "ROUTING"
    BY ReceivedTypes DEF ProcessRouting
  <1>2. m \notin WrongButtons
    BY SilentTail DEF PressedWell, ProcessRouting, Receive, TypeOK
  <1>3. m.panel \in Panels /\ m.panel_button \in Buttons
    BY <1>1, <1>2, RoutingFields, KindsOfMessages
  <1> QED BY <1>3 DEF PanelSource

LEMMA NextPressedWell ==
  ASSUME PatientDesk, TypeOK, DeskTypeOK, PressedWell, [DeskNext]_deskVars
  PROVE  PressedWell'
  <1>0. input_event_queue \in Seq(InputMessages)
    BY LinesTypes
  <1>1. Silent(input_event_queue', WrongButtons)
    <2>1. CASE ~Press
      BY <2>1, NoNewButtons DEF PressedWell, WrongButtons, Pressed
    <2>2. CASE Press
      <3>1. PICK m \in PostedMessages :
              input_event_queue' \in {input_event_queue, Append(input_event_queue, m)}
        BY <2>2 DEF Press, PostInput, xQueueSend
      <3>2. m \in InputMessages /\ m \notin WrongButtons
        BY PostedAssumption DEF PatientDesk, RealButtons, WrongButtons, Pressed
      <3>3. Silent(Append(input_event_queue, m), WrongButtons)
        BY <1>0, <3>2, SilentAppend, Zenon DEF PressedWell
      <3> QED BY <3>1, <3>3 DEF PressedWell
    <2> QED BY <2>1, <2>2
  <1>2. \A p \in Panels :
          asked'[p] = 0 \/ \E b \in Buttons : settings.routing_panel_sources[p][b] = asked'[p]
    <2>0. \A p \in Panels : NothingAsked[p] = 0
      BY DEF NothingAsked
    <2>1. CASE Logic
      <3>1. CASE ProcessRouting /\ ~Loses
        <4> DEFINE m == Head(input_event_queue)
        <4>1. asked' = [asked EXCEPT ![m.panel] = PanelSource(m.panel, m.panel_button)]
          BY <2>1, <3>1, HandlerSends DEF AskedNow
        <4>2. /\ m.panel \in Panels /\ m.panel_button \in Buttons
              /\ PanelSource(m.panel, m.panel_button) =
                   settings.routing_panel_sources[m.panel][m.panel_button]
          BY <3>1, AsksListed
        <4> HIDE DEF m
        <4> QED BY <4>1, <4>2 DEF PressedWell, DeskTypeOK
      <3>2. CASE ~ProcessRouting \/ Loses
        BY <2>0, <2>1, <3>2, HandlerSends DEF AskedNow, PressedWell
      <3> QED BY <3>1, <3>2
    <2>2. CASE Restart
      BY <2>0, <2>2 DEF Restart
    <2>3. CASE ~Logic /\ ~Restart
      BY <2>0, <2>3, OthersKeepLogic DEF PressedWell
    <2> QED BY <2>1, <2>2, <2>3
  <1>3. ASSUME ~hasty', TogglePending' PROVE Silent(input_event_queue', Pressed("ROUTING"))
    <2>1. CASE Press
      <3>1. PICK m \in PostedMessages : input_event_queue' \in {<< >>, Append(<< >>, m)}
        BY <1>3, <2>1, PatientPress
      <3>2. m \in InputMessages /\ << >> \in Seq(InputMessages)
        BY PostedAssumption
      <3>3. ~Silent(input_event_queue', Pressed("IR_TOGGLE"))
        BY <1>3, <2>1, PatientPress DEF TogglePending
      <3>4. \A kind : /\ Silent(Append(<< >>, m), kind) <=> m \notin kind
                      /\ Silent(<< >>, kind)
        BY <3>2, SilentAppend, EmptyLine, Zenon
      <3>5. input_event_queue' = Append(<< >>, m) /\ m \in Pressed("IR_TOGGLE")
        BY <3>1, <3>3, <3>4
      <3> QED BY <3>4, <3>5 DEF Pressed
    <2>2. CASE ~Press
      <3>1. TogglePending /\ ~Restart
        BY <1>3, <2>2, TogglePends
      <3>2. ~hasty
        BY <1>3, <2>2, <3>1 DEF DeskNext, Logic, SupplyOn, TcpSend, TcpRecv, TcpRecvLoses,
             RouterHandles, OtherPanelRoutes, Disconnect, Connect, deskVars, history
      <3> QED BY <2>2, <3>1, <3>2, NoNewButtons DEF PressedWell, Pressed
    <2> QED BY <2>1, <2>2
  <1> QED BY <1>1, <1>2, <1>3 DEF PressedWell
-----------------------------------------------------------------------------
(* The commands the logic task sends, seen from a panel's screen.          *)

LEMMA ScreenOnWire ==
  ASSUME ScreensOnRouter, NEW p \in Panels
  PROVE  Dec8(settings.routing_panel_destinations[p]) = Screen(p)
  <1>1. /\ settings.routing_panel_destinations[p] \in Byte
        /\ settings.routing_panel_destinations[p] \in 1 .. NDests
    BY SettingsTypes DEF ScreensOnRouter
  <1> QED BY <1>1, SizesAssumption DEF Dec8, Screen, Byte

\* Sent to another output.
SentElsewhere(dest) ==
  \/ ethernet_message_output_queue' = ethernet_message_output_queue
  \/ \E m \in OutputMessages :
       /\ m \notin CommandsFor(dest)
       /\ ethernet_message_output_queue' = Append(ethernet_message_output_queue, m)

LEMMA OtherOutput ==
  ASSUME NEW input \in Byte, NEW output \in Byte, NEW d, output # d, send_video_route(input, output)
  PROVE  SentElsewhere(d)
  <1>1. RouteMsg(input, output) \in OutputMessages /\ RouteMsg(input, output) \notin CommandsFor(d)
    BY RouteMsgType DEF CommandsFor, RouteMsg
  <1> QED BY <1>1 DEF SentElsewhere, send_video_route, xQueueSend

\* But for its own button and its own turn in the toggle a screen is left alone.
LEMMA HandlersSendElsewhere ==
  ASSUME PatientDesk, TypeOK, DeskTypeOK, LogicNext, NEW p \in Panels, Screen(p) \notin OtherDests,
         ~(ProcessRouting /\ Head(input_event_queue).panel = p), ~(TogglePanel /\ loop = p)
  PROVE  SentElsewhere(Screen(p))
  <1>1. /\ Screen(p) \in Dests
        /\ \A q \in Panels : q # p => /\ Dec8(settings.routing_panel_destinations[q]) \in Byte
                                      /\ Dec8(settings.routing_panel_destinations[q]) # Screen(p)
    BY ScreenTypes, ScreenOnWire, SettingsTypes, Dec8Type DEF PatientDesk
  <1>2. Dec8(ShowRelaySource(relay_ir_state)) \in Byte
    BY ShowRelayType, Dec8Type
  <1>3. CASE ProcessRouting
    <2> DEFINE m      == Head(input_event_queue)
               chosen == PanelSource(m.panel, m.panel_button)
               input  == IF chosen = ShowRelay THEN ShowRelaySource(relay_ir_state) ELSE chosen
    <2>1. m.panel \in Panels /\ m.panel_button \in 0 .. NButtons
      BY <1>3, ReceivedTypes, RoutingFields DEF ProcessRouting
    <2>2. Dec8(input) \in Byte
      BY <2>1, PanelSourceType, ShowRelayType, Dec8Type
    <2>3. send_video_route(Dec8(input), Dec8(settings.routing_panel_destinations[m.panel]))
      BY <1>3 DEF ProcessRouting
    <2> HIDE DEF input
    <2> QED BY <1>1, <1>3, <2>1, <2>2, <2>3, OtherOutput
  <1>4. CASE TogglePanel
    <2>1. loop \in Panels /\ loop # p
      BY <1>4 DEF TogglePanel, TypeOK
    <2>2. CASE cache_panel_relay_states[loop] = 1
      BY <1>1, <1>2, <1>4, <2>1, <2>2, OtherOutput DEF TogglePanel
    <2>3. CASE cache_panel_relay_states[loop] # 1
      BY <1>4, <2>3 DEF TogglePanel, SentElsewhere
    <2> QED BY <2>2, <2>3
  <1>5. CASE ToggleDest
    <2>1. loop \in Dests /\ loop \in Byte
      BY <1>5, DestsFitByte DEF ToggleDest, TypeOK
    <2>2. CASE settings.show_relay_switched_destination_flags[loop] # 0
      <3>1. loop # Screen(p)
        <4>1. Screen(p) \notin SwitchedDests
          BY ScreenOnWire DEF PatientDesk, ScreensNotSwitched
        <4> QED BY <1>1, <2>1, <2>2, <4>1 DEF SwitchedDests
      <3>2. send_video_route(Dec8(ShowRelaySource(relay_ir_state)), loop)
        BY <1>5, <2>2 DEF ToggleDest, FlaggedRoute
      <3> QED BY <1>2, <2>1, <3>1, <3>2, OtherOutput
    <2>3. CASE settings.show_relay_switched_destination_flags[loop] = 0
      BY <1>5, <2>3 DEF ToggleDest, SentElsewhere
    <2> QED BY <2>2, <2>3
  <1>6. CASE ProcessToggle \/ ProcessOtherConfirm \/ ProcessScreenConfirm
    BY <1>6 DEF ProcessToggle, ProcessOtherConfirm, ProcessScreenConfirm, SentElsewhere
  <1> QED BY <1>3, <1>4, <1>5, <1>6 DEF LogicNext

\* In its turn a panel that asked for the show relay is sent the new camera, and
\* the others nothing.
LEMMA TurnSends ==
  ASSUME PatientDesk, TypeOK, DeskTypeOK, TogglePanel, NEW p \in Panels, loop = p, RelayRight(p)
  PROVE  /\ asked[p] = ShowRelay =>
              SendsRoute /\ send_video_route(Wanted(p), Screen(p))
         /\ asked[p] # ShowRelay =>
              ethernet_message_output_queue' = ethernet_message_output_queue
  BY ScreenOnWire DEF PatientDesk, TogglePanel, RelayRight, SendsRoute, Wanted

\* A command that goes elsewhere changes nothing for this output.
LEMMA ElsewhereKeeps ==
  ASSUME TypeOK, DeskTypeOK, NEW d, NEW v, NEW inputs, SentElsewhere(d)
  PROVE  /\ Heading(ethernet_message_output_queue, to_router, route, d, v) =>
              Heading(ethernet_message_output_queue', to_router, route, d, v)
         /\ SilentBoth(ethernet_message_output_queue', to_router, CommandsFor(d)) <=>
              SilentBoth(ethernet_message_output_queue, to_router, CommandsFor(d))
         /\ SilentBoth(ethernet_message_output_queue', to_router, BadCommands(d, inputs)) <=>
              SilentBoth(ethernet_message_output_queue, to_router, BadCommands(d, inputs))
  <1> DEFINE queue == ethernet_message_output_queue
  <1>1. CASE queue' = queue
    BY <1>1
  <1>2. ASSUME NEW m \in OutputMessages, m \notin CommandsFor(d), queue' = Append(queue, m)
        PROVE  /\ Heading(queue, to_router, route, d, v) => Heading(queue', to_router, route, d, v)
               /\ SilentBoth(queue', to_router, CommandsFor(d)) <=>
                    SilentBoth(queue, to_router, CommandsFor(d))
               /\ SilentBoth(queue', to_router, BadCommands(d, inputs)) <=>
                    SilentBoth(queue, to_router, BadCommands(d, inputs))
    <2>1. queue \in Seq(OutputMessages) /\ to_router \in Seq(OutputMessages)
      BY DEF TypeOK, DeskTypeOK
    <2>2. BadCommands(d, inputs) \subseteq CommandsFor(d)
      BY DEF BadCommands
    <2>3. m \notin BadCommands(d, inputs)
      BY <1>2, <2>2
    <2> HIDE DEF queue
    <2>4. /\ EndsIn(Append(queue, m), to_router, CommandsFor(d), CommandsTo(d, v)) <=>
               EndsIn(queue, to_router, CommandsFor(d), CommandsTo(d, v))
          /\ SilentBoth(Append(queue, m), to_router, CommandsFor(d)) <=>
               SilentBoth(queue, to_router, CommandsFor(d))
      BY <1>2, <2>1, AddOther, CommandsToFor, Zenon
    <2>5. Silent(Append(queue, m), BadCommands(d, inputs)) <=> Silent(queue, BadCommands(d, inputs))
      BY <1>2, <2>1, <2>3, SilentAppend, Zenon
    <2> QED BY <1>2, <2>4, <2>5 DEF Heading, SilentBoth
  <1> QED BY <1>1, <1>2 DEF SentElsewhere

\* A good command for this output is on its way once it is in the queue.
LEMMA GoodSent ==
  ASSUME TypeOK, DeskTypeOK, NEW d \in Dests, NEW v \in Inputs, NEW inputs, v \in inputs,
         send_video_route(v, d)
  PROVE  /\ SilentBoth(ethernet_message_output_queue, to_router, BadCommands(d, inputs)) =>
              SilentBoth(ethernet_message_output_queue', to_router, BadCommands(d, inputs))
         /\ ~QueueFull(ethernet_message_output_queue, OutputQueueLen) =>
              ~SilentBoth(ethernet_message_output_queue', to_router, CommandsFor(d))
  <1> DEFINE queue == ethernet_message_output_queue
             m     == RouteMsg(v, d)
  <1>1. m \in OutputMessages
    BY RouteMsgType, InputsFitByte, DestsFitByte
  <1>2. m \notin BadCommands(d, inputs) /\ m \in CommandsFor(d)
    BY <1>1 DEF BadCommands, CommandsFor, RouteMsg
  <1>3. /\ queue' \in {queue, Append(queue, m)}
        /\ ~QueueFull(queue, OutputQueueLen) => queue' = Append(queue, m)
    BY DEF send_video_route, xQueueSend
  <1>4. queue \in Seq(OutputMessages)
    BY DEF TypeOK
  <1> HIDE DEF m, queue
  <1>5. /\ Silent(Append(queue, m), BadCommands(d, inputs)) <=> Silent(queue, BadCommands(d, inputs))
        /\ ~Silent(Append(queue, m), CommandsFor(d))
    BY <1>1, <1>2, <1>4, SilentAppend, Zenon
  <1> QED BY <1>3, <1>5 DEF SilentBoth, queue
-----------------------------------------------------------------------------
(* What a panel did not ask for comes from nowhere.                        *)

LEMMA SilentConcat ==
  ASSUME NEW S, NEW line \in Seq(S), NEW more \in Seq(S), NEW about,
         Silent(line, about), Silent(more, about)
  PROVE  Silent(line \o more, about)
  <1> DEFINE both == line \o more
  <1>1. /\ Len(both) = Len(line) + Len(more) /\ Len(line) \in Nat /\ Len(more) \in Nat
        /\ \A i \in 1 .. Len(line) : both[i] = line[i]
        /\ \A i \in 1 .. Len(more) : both[Len(line) + i] = more[i]
    OBVIOUS
  <1> HIDE DEF both
  <1>2. ASSUME NEW i \in 1 .. Len(both) PROVE both[i] \notin about
    <2>1. CASE i \in 1 .. Len(line)
      BY <1>1, <2>1 DEF Silent
    <2>2. CASE i \notin 1 .. Len(line)
      <3>1. i - Len(line) \in 1 .. Len(more) /\ i = Len(line) + (i - Len(line))
        BY <1>1, <2>2
      <3> QED BY <1>1, <3>1 DEF Silent
    <2> QED BY <2>1, <2>2
  <1> QED BY <1>2 DEF Silent, both

\* Only the logic task sends route commands.
LEMMA OthersSendNoRoute ==
  ASSUME TypeOK, DeskTypeOK, [DeskNext]_deskVars, ~Logic, ~Restart,
         NEW kind, \A m \in kind : m.type = "ROUTING",
         SilentBoth(ethernet_message_output_queue, to_router, kind)
  PROVE  SilentBoth(ethernet_message_output_queue', to_router', kind)
  <1> DEFINE queue == ethernet_message_output_queue
  <1>1. /\ queue \in Seq(OutputMessages) /\ to_router \in Seq(OutputMessages)
        /\ Silent(queue, kind) /\ Silent(to_router, kind)
    BY DEF TypeOK, DeskTypeOK, SilentBoth
  <1>2. CASE Press \/ TcpRecv \/ TcpRecvLoses \/ Connect \/ OtherPanelRoutes \/ UNCHANGED deskVars
    BY <1>2 DEF Press, TcpRecv, TcpRecvLoses, Connect, OtherPanelRoutes, deskVars, netVars, vars,
                PostInput
  <1>3. CASE SupplyOn
    <2> DEFINE ask == [type |-> "ROUTEDUMP"]
    <2>1. ask \in OutputMessages /\ ask \notin kind
      BY DEF OutputMessages
    <2>2. to_router' = to_router /\ queue' \in {queue, Append(queue, ask)}
      BY <1>3 DEF SupplyOn, netVars, RequestRouteDump, xQueueSend
    <2> HIDE DEF ask, queue
    <2>3. Silent(Append(queue, ask), kind)
      BY <1>1, <2>1, SilentAppend, Zenon
    <2> QED BY <1>1, <2>2, <2>3 DEF SilentBoth, queue
  <1>4. CASE TcpSend
    <2>1. /\ queue # << >> /\ queue' = Tail(queue) /\ Head(queue) \in OutputMessages
          /\ to_router' = Append(to_router, Head(queue))
      BY <1>1, <1>4 DEF TcpSend, TakeOutput
    <2> HIDE DEF queue
    <2>2. Head(queue) \notin kind /\ Silent(Tail(queue), kind)
      BY <1>1, <2>1, SilentTail, Zenon
    <2>3. Silent(Append(to_router, Head(queue)), kind)
      BY <1>1, <2>1, <2>2, SilentAppend, Zenon
    <2> QED BY <2>1, <2>2, <2>3 DEF SilentBoth, queue
  <1>5. CASE RouterHandles
    <2>1. to_router # << >> /\ to_router' = Tail(to_router) /\ queue' = queue
      BY <1>5 DEF RouterHandles, vars
    <2>2. Silent(Tail(to_router), kind)
      BY <1>1, <2>1, SilentTail, Zenon
    <2> QED BY <1>1, <2>1, <2>2 DEF SilentBoth
  <1>6. CASE Disconnect
    <2>1. /\ to_router' = << >>
          /\ queue' = queue \/ (queue # << >> /\ queue' = Tail(queue))
      BY <1>6 DEF Disconnect, TakeOutput, vars
    <2>2. queue # << >> => Silent(Tail(queue), kind)
      BY <1>1, SilentTail, Zenon
    <2> QED BY <1>1, <2>1, <2>2, EmptyLine DEF SilentBoth
  <1> QED BY <1>2, <1>3, <1>4, <1>5, <1>6 DEF DeskNext

\* Only the router brings confirmations.
LEMMA OthersConfirmNothing ==
  ASSUME PatientDesk, TypeOK, DeskTypeOK, [DeskNext]_deskVars,
         ~RouterHandles, ~OtherPanelRoutes, ~Connect,
         NEW kind, \A m \in kind : m.type = "ETHERNET",
         SilentBoth(from_router, input_event_queue, kind)
  PROVE  SilentBoth(from_router', input_event_queue', kind)
  <1> DEFINE queue == input_event_queue
  <1>1. /\ queue \in Seq(InputMessages) /\ from_router \in Seq(InputMessages)
        /\ Silent(queue, kind) /\ Silent(from_router, kind)
    BY LinesTypes DEF SilentBoth
  <1>2. CASE Logic
    <2>1. from_router' = from_router /\ (queue' = queue \/ (queue # << >> /\ queue' = Tail(queue)))
      BY <1>2, HandlerSends
      DEF Logic, LogicNext, ProcessRouting, ProcessToggle, TogglePanel, ToggleDest,
          ProcessOtherConfirm, ProcessScreenConfirm, Receive
    <2>2. queue # << >> => Silent(Tail(queue), kind)
      BY <1>1, SilentTail, Zenon
    <2> QED BY <1>1, <2>1, <2>2 DEF SilentBoth
  <1>3. CASE Press
    <2>1. PICK m \in PostedMessages : from_router' = from_router /\ queue' \in {queue, Append(queue, m)}
      BY <1>3 DEF Press, PostInput, xQueueSend, netVars
    <2>2. m \in InputMessages /\ m \notin kind
      BY PostedAssumption DEF PatientDesk, ButtonsOnly
    <2> HIDE DEF queue
    <2>3. Silent(Append(queue, m), kind)
      BY <1>1, <2>2, SilentAppend, Zenon
    <2> QED BY <1>1, <2>1, <2>3 DEF SilentBoth, queue
  <1>4. CASE TcpRecv \/ TcpRecvLoses
    <2>1. /\ from_router # << >> /\ from_router' = Tail(from_router)
          /\ queue' \in {queue, Append(queue, Head(from_router))}
      BY <1>4 DEF TcpRecv, TcpRecvLoses, PostInput, xQueueSend, vars
    <2>2. Head(from_router) \in InputMessages
      BY <1>1, <2>1
    <2> HIDE DEF queue
    <2>3. Head(from_router) \notin kind /\ Silent(Tail(from_router), kind)
      BY <1>1, <2>1, SilentTail, Zenon
    <2>4. Silent(Append(queue, Head(from_router)), kind)
      BY <1>1, <2>2, <2>3, SilentAppend, Zenon
    <2> QED BY <1>1, <2>1, <2>3, <2>4 DEF SilentBoth, queue
  <1>5. CASE SupplyOn \/ TcpSend \/ UNCHANGED deskVars
    BY <1>5 DEF SupplyOn, RequestRouteDump, TcpSend, TakeOutput, deskVars, netVars, vars
  <1>6. CASE Disconnect
    <2>1. from_router' = << >> /\ queue' = queue
      BY <1>6 DEF Disconnect, TakeOutput, vars
    <2> QED BY <1>1, <2>1, EmptyLine DEF SilentBoth
  <1>7. CASE Restart
    BY <1>7, EmptyLine DEF Restart, SilentBoth
  <1> QED BY <1>2, <1>3, <1>4, <1>5, <1>6, <1>7 DEF DeskNext

\* The router confirms good inputs only, if it is told and shows good ones only.
LEMMA RouterConfirmsGood ==
  ASSUME TypeOK, DeskTypeOK, NEW d \in Dests \ OtherDests, NEW inputs \in SUBSET Inputs,
         RouterHandles \/ OtherPanelRoutes \/ Connect,
         route[d] \in inputs,
         SilentBoth(ethernet_message_output_queue, to_router, BadCommands(d, inputs)),
         SilentBoth(from_router, input_event_queue, BadConfirms(d, inputs))
  PROVE  /\ route'[d] \in inputs
         /\ SilentBoth(from_router', input_event_queue', BadConfirms(d, inputs))
  <1>1. /\ from_router \in Seq(InputMessages) /\ input_event_queue' = input_event_queue
        /\ Silent(from_router, BadConfirms(d, inputs))
        /\ Silent(input_event_queue, BadConfirms(d, inputs))
        /\ route \in [Dests -> Inputs]
    BY LinesTypes DEF SilentBoth, RouterHandles, OtherPanelRoutes, Connect, vars, DeskTypeOK
  <1>2. ASSUME NEW output \in Dests, NEW input \in Inputs, RouterRoutes(output, input),
               output = d => input \in inputs
        PROVE  /\ route'[d] \in inputs
               /\ SilentBoth(from_router', input_event_queue', BadConfirms(d, inputs))
    <2> DEFINE m == ConfirmMsg(output, input)
    <2>1. m \in InputMessages /\ m \notin BadConfirms(d, inputs)
      BY <1>2, ConfirmOf DEF BadConfirms
    <2>2. route'[d] \in inputs /\ from_router' \in {from_router, Append(from_router, m)}
      BY <1>1, <1>2 DEF RouterRoutes
    <2> HIDE DEF m
    <2> DEFINE bad == BadConfirms(d, inputs)
    <2>3. Silent(Append(from_router, m), bad)
      <3>1. from_router \in Seq(InputMessages) /\ Silent(from_router, bad) /\ m \notin bad
        BY <1>1, <2>1
      <3> HIDE DEF bad
      <3> QED BY <2>1, <3>1, SilentAppend
    <2> QED BY <1>1, <2>2, <2>3 DEF SilentBoth
  <1>3. ASSUME from_router' \in {Dump, from_router \o Dump}, UNCHANGED route
        PROVE  /\ route'[d] \in inputs
               /\ SilentBoth(from_router', input_event_queue', BadConfirms(d, inputs))
    <2>1. /\ Dump \in Seq(Confirms) /\ Len(Dump) = NDests /\ NDests \in Nat
          /\ \A k \in 1 .. NDests : Dump[k] = ConfirmMsg(k - 1, route[k - 1])
      BY <1>1, DumpType, SizesAssumption
    <2>2. \A e \in Dests : ConfirmMsg(e, route[e]) \notin BadConfirms(d, inputs)
      BY <1>1, ConfirmOf DEF BadConfirms
    <2>3. Silent(Dump, BadConfirms(d, inputs))
      BY <2>1, <2>2 DEF Silent, Dests
    <2>4. Dump \in Seq(InputMessages)
      BY <2>1, ConfirmsAreInput, SeqMonotonic
    <2>5. Silent(from_router \o Dump, BadConfirms(d, inputs))
      BY <1>1, <2>3, <2>4, SilentConcat, Zenon
    <2> QED BY <1>1, <1>3, <2>3, <2>5 DEF SilentBoth
  <1>4. CASE RouterHandles
    <2> DEFINE command == Head(to_router)
    <2>1. to_router # << >> /\ to_router \in Seq(OutputMessages) /\ command \in OutputMessages
      BY <1>4 DEF RouterHandles, DeskTypeOK
    <2>2. command \notin BadCommands(d, inputs)
      BY <2>1, SilentTail DEF SilentBoth
    <2>3. command.type = "ROUTING" /\ command.output = d => command.input \in inputs
      BY <2>1, <2>2 DEF BadCommands, CommandsFor
    <2>4. CASE UNCHANGED << route, from_router >>
      BY <1>1, <2>4 DEF SilentBoth
    <2> QED BY <1>2, <1>3, <1>4, <2>3, <2>4 DEF RouterHandles
  <1>5. CASE OtherPanelRoutes
    <2>1. PICK output \in OtherDests, input \in Inputs : RouterRoutes(output, input)
      BY <1>5 DEF OtherPanelRoutes
    <2>2. output \in Dests /\ output # d
      BY RouterAssumption
    <2> QED BY <1>2, <2>1, <2>2
  <1>6. CASE Connect
    BY <1>3, <1>6 DEF Connect
  <1> QED BY <1>4, <1>5, <1>6
-----------------------------------------------------------------------------
(* What a panel asked for stays until its next press, unless a command is  *)
(* lost.                                                                   *)

LEMMA AskedStays ==
  ASSUME [DeskNext]_deskVars, ~Restart, ~Loses, NEW p \in Panels,
         ~(ProcessRouting /\ Head(input_event_queue).panel = p),
         TypeOK, DeskTypeOK
  PROVE  asked'[p] = asked[p] /\ (Mine(p)' <=> Mine(p)) /\ Good(p)' = Good(p)
  <1>1. asked'[p] = asked[p]
    <2>1. CASE Logic /\ ProcessRouting
      <3> DEFINE m == Head(input_event_queue)
      <3>1. asked' = [asked EXCEPT ![m.panel] = PanelSource(m.panel, m.panel_button)]
        BY <2>1, HandlerSends DEF AskedNow
      <3> HIDE DEF m
      <3>2. m.panel # p
        BY <2>1 DEF m
      <3> QED BY <3>1, <3>2 DEF DeskTypeOK
    <2>2. CASE Logic /\ ~ProcessRouting
      BY <2>2, HandlerSends DEF AskedNow
    <2>3. CASE ~Logic
      BY <2>3, OthersKeepLogic
    <2> QED BY <2>1, <2>2, <2>3
  <1> QED BY <1>1 DEF Mine, Good, Screen, Cameras

LEMMA LossForgets ==
  ASSUME [DeskNext]_deskVars, ~Restart, Loses, NEW p \in Panels
  PROVE  ~Mine(p)'
  <1>1. asked' = NothingAsked
    <2>1. CASE Logic
      BY <2>1, HandlerSends
    <2>2. CASE ~Logic
      BY <2>2, OthersKeepLogic
    <2> QED BY <2>1, <2>2
  <1> QED BY <1>1, NoneAsked DEF NothingAsked, Mine, ShowRelay

\* The cache of the panel's show relay is touched by its own button and by the
\* confirmations for its screen only.
LEMMA RelayStays ==
  ASSUME PatientDesk, TypeOK, DeskTypeOK, PressedWell, [DeskNext]_deskVars, ~Restart, ~Loses,
         NEW p \in Panels, Mine(p), RelayRight(p),
         ~(ProcessRouting /\ Head(input_event_queue).panel = p),
         ProcessScreenConfirm => Head(input_event_queue) \notin BadConfirms(Screen(p), Good(p))
  PROVE  RelayRight(p)'
  <1> DEFINE h == Head(input_event_queue)
  <1>1. asked'[p] = asked[p]
    BY AskedStays
  <1>2. SUFFICES cache_panel_relay_states'[p] = cache_panel_relay_states[p]
                 \/ cache_panel_relay_states'[p] = IF asked[p] = ShowRelay THEN 1 ELSE 0
    BY <1>1 DEF RelayRight
  <1>3. CASE ~Logic
    BY <1>3, OthersKeepLogic DEF logicVars
  <1>4. CASE ProcessRouting
    <2>1. \E r : cache_panel_relay_states' = [cache_panel_relay_states EXCEPT ![h.panel] = r]
      BY <1>4 DEF ProcessRouting
    <2>2. h.panel # p
      BY <1>4
    <2> HIDE DEF h
    <2> QED BY <2>1, <2>2 DEF TypeOK
  <1>5. CASE ProcessScreenConfirm
    <2>1. PICK panel \in Panels, found \in 0 .. NButtons :
            /\ FirstPanelFor(panel, h.output)
            /\ FoundButton(panel, h.input + 1, found)
            /\ CacheConfirm(panel, found, h.input + 1)
      BY <1>5 DEF ProcessScreenConfirm
    <2>2. h \in InputMessages /\ h.type = "ETHERNET" /\ h.output \in Byte
      BY <1>5, ReceivedTypes, ConfirmFields DEF ProcessScreenConfirm
    <2>3. CASE panel = p
      <3>1. h.output = Screen(p)
        <4>1. h.output \in Byte /\ settings.routing_panel_destinations[p] \in Byte
          BY <2>2, SettingsTypes
        <4>2. h.output \in Nat /\ settings.routing_panel_destinations[p] \in Nat
          BY <4>1 DEF Byte
        <4> QED BY <2>1, <2>3, <4>2 DEF FirstPanelFor, Screen
      <3>2. h.input \in Good(p)
        BY <1>5, <2>2, <3>1 DEF BadConfirms, ConfirmsOf, ConfirmsWith
      <3> HIDE DEF h
      <3> QED BY <2>1, <2>3, <3>2, GoodConfirm
    <2>4. CASE panel # p
      <3> HIDE DEF h
      <3>1. \/ cache_panel_relay_states' = cache_panel_relay_states
            \/ \E r : cache_panel_relay_states' = [cache_panel_relay_states EXCEPT ![panel] = r]
        BY <2>1 DEF CacheConfirm
      <3> QED BY <2>4, <3>1 DEF TypeOK
    <2> QED BY <2>3, <2>4
  <1>6. CASE ProcessToggle \/ TogglePanel \/ ToggleDest \/ ProcessOtherConfirm
    BY <1>6 DEF ProcessToggle, TogglePanel, ToggleDest, ProcessOtherConfirm, logicVars
  <1> QED BY <1>3, <1>4, <1>5, <1>6 DEF Logic, LogicNext

\* With nothing about but what the panel asked for, nothing else comes about
\* until its next press.
LEMMA StaysCalm ==
  ASSUME PatientDesk, TypeOK, DeskTypeOK, PressedWell, [DeskNext]_deskVars, ~Restart, ~Loses,
         NEW p \in Panels, Mine(p), Calm(p),
         ~(ProcessRouting /\ Head(input_event_queue).panel = p)
  PROVE  Calm(p)'
  <1> DEFINE d == Screen(p)
             G == Good(p)
  <1>1. /\ d \in Dests \ OtherDests /\ G \subseteq Inputs /\ Good(p)' = G
        /\ route[d] \in G /\ RelayRight(p)
        /\ SilentBoth(ethernet_message_output_queue, to_router, BadCommands(d, G))
        /\ SilentBoth(from_router, input_event_queue, BadConfirms(d, G))
    BY ScreenTypes, AskedStays, GoodInputs DEF Calm, Mine, PatientDesk
  <1>2. /\ \A m \in BadCommands(d, G) : m.type = "ROUTING"
        /\ \A m \in BadConfirms(d, G) : m.type = "ETHERNET"
    BY DEF BadCommands, CommandsFor, BadConfirms, ConfirmsOf
  <1>3. RelayRight(p)'
    <2>1. ASSUME ProcessScreenConfirm PROVE Head(input_event_queue) \notin BadConfirms(d, G)
      <3>1. input_event_queue # << >> /\ input_event_queue \in Seq(InputMessages)
        BY <2>1, LinesTypes DEF ProcessScreenConfirm, Receive
      <3> HIDE DEF d, G
      <3> QED BY <1>1, <3>1, SilentTail DEF SilentBoth
    <2> QED BY <1>1, <2>1, RelayStays
  <1>4. route'[d] \in G /\ SilentBoth(from_router', input_event_queue', BadConfirms(d, G))
    <2>1. CASE RouterHandles \/ OtherPanelRoutes \/ Connect
      <3> HIDE DEF d, G
      <3> QED BY <1>1, <2>1, RouterConfirmsGood
    <2>2. CASE ~(RouterHandles \/ OtherPanelRoutes \/ Connect)
      <3>1. route' = route
        BY <2>2 DEF DeskNext, Logic, Press, SupplyOn, TcpSend, TcpRecv, TcpRecvLoses, Disconnect,
                    Restart, deskVars, netVars
      <3> HIDE DEF d, G
      <3> QED BY <1>1, <1>2, <2>2, <3>1, OthersConfirmNothing
    <2> QED BY <2>1, <2>2
  <1>5. SilentBoth(ethernet_message_output_queue', to_router', BadCommands(d, G))
    <2>1. CASE ~Logic
      <3> HIDE DEF d, G
      <3> QED BY <1>1, <1>2, <2>1, OthersSendNoRoute
    <2>2. CASE Logic
      <3>1. to_router' = to_router /\ LogicNext
        BY <2>2, HandlerSends DEF Logic
      <3>2. CASE TogglePanel /\ loop = p
        <4>1. CASE asked[p] = ShowRelay
          <5>1. send_video_route(Wanted(p), d) /\ Wanted(p) \in G
            BY <1>1, <3>2, <4>1, TurnSends, GoodInputs DEF PatientDesk
          <5> HIDE DEF d, G
          <5>2. Wanted(p) \in Inputs
            BY <1>1, <5>1
          <5> QED BY <1>1, <3>1, <5>1, <5>2, GoodSent
        <4>2. CASE asked[p] # ShowRelay
          BY <1>1, <3>1, <3>2, <4>2, TurnSends
        <4> QED BY <4>1, <4>2
      <3>3. CASE ~(TogglePanel /\ loop = p)
        <4>1. SentElsewhere(d)
          BY <1>1, <3>1, <3>3, HandlersSendElsewhere
        <4> HIDE DEF d, G
        <4> QED BY <1>1, <3>1, <4>1, ElsewhereKeeps
      <3> QED BY <3>2, <3>3
    <2> QED BY <2>1, <2>2
  <1> QED BY <1>1, <1>3, <1>4, <1>5 DEF Calm, Screen
-----------------------------------------------------------------------------
(* A panel in hand stays in hand.                                          *)

LEMMA SilentEndsNot ==
  ASSUME NEW line, NEW about, NEW right, right \subseteq about, Silent(line, about)
  PROVE  ~Ends(line, about, right)
  BY DEF Silent, Ends

\* With no command on its way for it a screen shows what is good for its panel.
LEMMA NoCommandsGood ==
  ASSUME CamerasOnRouter, DeskTypeOK, NEW p \in Panels, Mine(p), InHand(p),
         SilentBoth(ethernet_message_output_queue, to_router, CommandsFor(Screen(p)))
  PROVE  route[Screen(p)] \in Good(p)
  <1>1. CASE TogglePending
    BY <1>1 DEF InHand, Calm
  <1>2. CASE ~TogglePending
    <2>1. Heading(ethernet_message_output_queue, to_router, route, Screen(p), Wanted(p))
      BY <1>2 DEF InHand, Aimed, TogglePending
    <2>2. /\ ~Ends(ethernet_message_output_queue, CommandsFor(Screen(p)),
                   CommandsTo(Screen(p), Wanted(p)))
          /\ ~Ends(to_router, CommandsFor(Screen(p)), CommandsTo(Screen(p), Wanted(p)))
      BY SilentEndsNot, CommandsToFor, Zenon DEF SilentBoth
    <2>3. route[Screen(p)] = Wanted(p)
      BY <2>1, <2>2 DEF Heading, EndsIn
    <2> QED BY <2>3, GoodInputs
  <1> QED BY <1>1, <1>2

\* Only the logic task takes a button's message.
LEMMA RoutingIsLogic ==
  ASSUME PatientDesk, TypeOK, DeskTypeOK, [DeskNext]_deskVars, ~Restart, ProcessRouting
  PROVE  Logic
  <1> DEFINE queue == input_event_queue
  <1>1. queue \in Seq(InputMessages) /\ queue # << >> /\ queue' = Tail(queue)
    BY LinesTypes DEF ProcessRouting, Receive
  <1>2. \A m \in InputMessages : Len(Append(queue, m)) = Len(queue) + 1
    BY <1>1
  <1>3. Len(queue') = Len(queue) - 1 /\ Len(queue) \in Nat
    BY <1>1
  <1> HIDE DEF queue
  <1>4. /\ queue' # queue
        /\ \A m \in InputMessages : queue' # Append(queue, m)
    BY <1>2, <1>3
  <1> QED BY <1>4, InputQueueSteps, PostedAssumption DEF queue

WantedGood ==
  CamerasOnRouter /\ DeskTypeOK =>
    \A p \in Panels : Mine(p) => Wanted(p) \in Inputs /\ Wanted(p) \in Good(p)

LEMMA WantedIsGood == WantedGood
  BY GoodInputs DEF WantedGood

LEMMA WantedIsGoodNext == WantedGood'
  BY WantedIsGood, PTL

\* The panel's own button: the router is sent what the panel wants now.
LEMMA ButtonSends ==
  ASSUME PatientDesk, TypeOK, DeskTypeOK, Logic, ProcessRouting, NEW p \in Panels,
         Head(input_event_queue).panel = p, Mine(p)'
  PROVE  /\ Wanted(p)' \in Inputs /\ Wanted(p)' \in Good(p)'
         /\ send_video_route(Wanted(p)', Screen(p))
         /\ ~QueueFull(ethernet_message_output_queue, OutputQueueLen)
  <1> DEFINE m      == Head(input_event_queue)
             chosen == PanelSource(p, m.panel_button)
             input  == IF chosen = ShowRelay THEN ShowRelaySource(relay_ir_state) ELSE chosen
  <1>1. send_video_route(Dec8(input), Screen(p)) /\ relay_ir_state' = relay_ir_state
    BY ScreenOnWire DEF PatientDesk, ProcessRouting
  <1>2. asked'[p] = chosen /\ ~Loses
    <2>1. ~Restart /\ [DeskNext]_deskVars
      BY LogicIsNoRestart DEF DeskNext
    <2>2. ~Loses
      BY <2>1, LossForgets
    <2>3. asked' = [asked EXCEPT ![p] = chosen]
      BY <2>2, HandlerSends DEF AskedNow
    <2> QED BY <2>2, <2>3 DEF DeskTypeOK
  <1>3. Wanted(p)' = Dec8(input)
    BY <1>1, <1>2 DEF Wanted, ShowRelaySource
  <1>4. SendsRoute
    BY DEF ProcessRouting, Receive, SendsRoute
  <1>5. DeskTypeOK'
    BY NextDeskTypeOK DEF DeskNext
  <1>6. Wanted(p)' \in Inputs /\ Wanted(p)' \in Good(p)'
    BY <1>5, WantedIsGoodNext DEF PatientDesk, WantedGood, CamerasOnRouter, ShowRelaySource
  <1> QED BY <1>1, <1>2, <1>3, <1>4, <1>6, HandlerSends

\* Between its presses a panel goes on being aimed at, toggle or no toggle.
LEMMA LogicKeepsAim ==
  ASSUME PatientDesk, TypeOK, DeskTypeOK, Logic, ~Loses, NEW p \in Panels, Mine(p),
         InHand(p), ~(ProcessRouting /\ Head(input_event_queue).panel = p)
  PROVE  Aimed(p)'
  <1> DEFINE d == Screen(p)
             w == Wanted(p)
  <1>1. /\ UNCHANGED << to_router, route >> /\ LogicNext /\ d \in Dests /\ d \notin OtherDests
        /\ w \in Inputs /\ asked'[p] = asked[p]
    <2>1. ~Restart /\ [DeskNext]_deskVars
      BY LogicIsNoRestart DEF DeskNext
    <2>2. asked'[p] = asked[p]
      BY <2>1, AskedStays
    <2> QED BY <2>2, HandlerSends, ScreenTypes, GoodInputs DEF Logic, PatientDesk, Mine
  <1>2. ASSUME Heading(ethernet_message_output_queue', to_router, route, d, w), Wanted(p)' = w
        PROVE  Aimed(p)'
    BY <1>1, <1>2 DEF Aimed, Screen
  <1>3. relay_ir_state' = relay_ir_state \/ asked[p] # ShowRelay => Wanted(p)' = w
    BY <1>1 DEF Wanted, ShowRelaySource
  <1>4. /\ Aimed(p)
        /\ SentElsewhere(d) /\ Heading(ethernet_message_output_queue, to_router, route, d, w) =>
             Heading(ethernet_message_output_queue', to_router, route, d, w)
    <2> HIDE DEF d, w
    <2> QED BY ElsewhereKeeps DEF InHand
  <1>5. CASE ProcessToggle
    <2>1. pc = "wait" /\ pc' = "panels" /\ loop' = 0 /\ SentElsewhere(d)
      BY <1>5 DEF ProcessToggle, Receive, SentElsewhere
    <2>2. CASE asked[p] = ShowRelay
      BY <1>1, <2>1, <2>2, SizesAssumption DEF Aimed, Panels
    <2>3. CASE asked[p] # ShowRelay
      BY <1>2, <1>3, <1>4, <2>1, <2>3 DEF Aimed
    <2> QED BY <2>2, <2>3
  <1>6. CASE TogglePanel
    <2>1. /\ pc = "panels" /\ loop \in Panels /\ relay_ir_state' = relay_ir_state
          /\ loop + 1 \in Panels => pc' = "panels" /\ loop' = loop + 1
      BY <1>6 DEF TogglePanel, TypeOK
    <2>2. CASE loop = p /\ asked[p] = ShowRelay
      <3>1. SendsRoute /\ send_video_route(w, d)
        BY <1>6, <2>1, <2>2, TurnSends DEF InHand, TogglePending, Calm
      <3> HIDE DEF d, w
      <3>2. Heading(ethernet_message_output_queue', to_router, route, d, w)
        BY <1>1, <3>1, HandlerSends, SendHeads
      <3> QED BY <1>2, <1>3, <2>1, <3>2
    <2>3. CASE loop = p /\ asked[p] # ShowRelay
      <3>1. ethernet_message_output_queue' = ethernet_message_output_queue
        BY <1>6, <2>1, <2>3, TurnSends DEF InHand, TogglePending, Calm
      <3> QED BY <1>2, <1>3, <1>4, <2>3, <3>1 DEF Aimed
    <2>4. CASE loop # p
      <3>1. SentElsewhere(d)
        BY <1>1, <2>4, HandlersSendElsewhere
      <3>2. CASE loop <= p /\ asked[p] = ShowRelay
        <4>1. loop + 1 \in Panels /\ loop + 1 <= p
          BY <2>1, <2>4, <3>2, SizesAssumption DEF Panels
        <4> QED BY <1>1, <2>1, <3>2, <4>1 DEF Aimed
      <3>3. CASE ~(loop <= p /\ asked[p] = ShowRelay)
        BY <1>2, <1>3, <1>4, <2>1, <3>1, <3>3 DEF Aimed
      <3> QED BY <3>2, <3>3
    <2> QED BY <2>2, <2>3, <2>4
  <1>7. CASE ProcessRouting \/ ToggleDest \/ ProcessOtherConfirm \/ ProcessScreenConfirm
    <2>1. pc # "panels" /\ relay_ir_state' = relay_ir_state
      BY <1>7 DEF ProcessRouting, ToggleDest, ProcessOtherConfirm, ProcessScreenConfirm, Receive,
                  logicVars
    <2>2. SentElsewhere(d)
      BY <1>1, <2>1, HandlersSendElsewhere DEF TogglePanel
    <2> QED BY <1>2, <1>3, <1>4, <2>1, <2>2 DEF Aimed
  <1> QED BY <1>1, <1>5, <1>6, <1>7 DEF LogicNext

LEMMA NextAimed ==
  ASSUME PatientDesk, TypeOK, DeskTypeOK, [DeskNext]_deskVars, ~Restart, ~Loses,
         NEW p \in Panels, InHand(p), Mine(p)'
  PROVE  Aimed(p)'
  <1>1. CASE ProcessRouting /\ Head(input_event_queue).panel = p
    <2>1. Logic
      BY <1>1, RoutingIsLogic
    <2>2. /\ Wanted(p)' \in Inputs /\ send_video_route(Wanted(p)', Screen(p))
          /\ ~QueueFull(ethernet_message_output_queue, OutputQueueLen)
      BY <1>1, <2>1, ButtonSends
    <2> DEFINE w == Wanted(p)'
    <2>3. Screen(p) \in Dests /\ UNCHANGED << to_router, route >>
      BY <2>1, ScreenTypes, HandlerSends DEF PatientDesk
    <2> HIDE DEF w
    <2>4. w \in Inputs /\ send_video_route(w, Screen(p))
      BY <2>2 DEF w
    <2>5. Heading(ethernet_message_output_queue', to_router, route, Screen(p), w)
      BY <2>2, <2>3, <2>4, SendHeads
    <2> QED BY <2>3, <2>5 DEF Aimed, Screen, w
  <1>2. CASE ~(ProcessRouting /\ Head(input_event_queue).panel = p)
    <2>1. Mine(p) /\ asked'[p] = asked[p]
      BY <1>2, AskedStays
    <2>2. CASE Logic
      BY <1>2, <2>1, <2>2, LogicKeepsAim
    <2>3. CASE ~Logic
      <3>1. UNCHANGED << pc, loop, relay_ir_state >>
        BY <2>3, OthersKeepLogic DEF logicVars
      <3>2. Wanted(p)' = Wanted(p) /\ Wanted(p) \in Inputs
        BY <2>1, <3>1, GoodInputs DEF Wanted, ShowRelaySource, PatientDesk
      <3>3. Screen(p) \in Dests \ OtherDests
        BY <2>1, ScreenTypes DEF Mine, PatientDesk
      <3>4. CASE pc = "panels" /\ loop <= p /\ asked[p] = ShowRelay
        BY <2>1, <3>1, <3>4 DEF Aimed
      <3>5. CASE Heading(ethernet_message_output_queue, to_router, route, Screen(p), Wanted(p))
        <4> DEFINE w == Wanted(p)
        <4>1. w \in Inputs /\ Heading(ethernet_message_output_queue, to_router, route, Screen(p), w)
          BY <3>2, <3>5
        <4> HIDE DEF w
        <4>2. Heading(ethernet_message_output_queue', to_router', route', Screen(p), w)
          BY <2>3, <3>3, <4>1, OthersKeepHeading
        <4> QED BY <3>2, <4>2 DEF Aimed, Screen, w
      <3> QED BY <2>1, <3>4, <3>5 DEF InHand, Aimed
    <2> QED BY <2>2, <2>3
  <1> QED BY <1>1, <1>2

\* A good confirmation, taken, sets the cache right.
LEMMA GoodTaken ==
  ASSUME PatientDesk, TypeOK, DeskTypeOK, PressedWell, NEW p \in Panels, Mine(p), asked'[p] = asked[p],
         ProcessScreenConfirm \/ ProcessOtherConfirm,
         Head(input_event_queue) \in ConfirmsWith(Screen(p), Good(p))
  PROVE  RelayRight(p)'
  <1> DEFINE h == Head(input_event_queue)
  <1>1. h.output = Screen(p) /\ h.input \in Good(p) /\ h.type = "ETHERNET" /\ h \in InputMessages
    BY DEF ConfirmsWith, ConfirmsOf
  <1>2. \A q \in Panels : settings.routing_panel_destinations[q] \in Byte
    BY SettingsTypes
  <1>3. \A q \in Panels : h.output + 1 = settings.routing_panel_destinations[q] => q = p
    BY <1>1, <1>2, ScreenTypes DEF Screen, Byte, PatientDesk, ScreensOnRouter
  <1>4. h.output + 1 = settings.routing_panel_destinations[p]
    BY <1>1, <1>2 DEF Screen, Byte
  <1>5. ProcessScreenConfirm
    BY <1>4 DEF ProcessOtherConfirm
  <1>6. PICK panel \in Panels, found \in 0 .. NButtons :
          /\ FirstPanelFor(panel, h.output)
          /\ FoundButton(panel, h.input + 1, found)
          /\ CacheConfirm(panel, found, h.input + 1)
    BY <1>5 DEF ProcessScreenConfirm
  <1>7. panel = p
    BY <1>3, <1>6 DEF FirstPanelFor
  <1> HIDE DEF h
  <1>8. cache_panel_relay_states'[p] = IF asked[p] = ShowRelay THEN 1 ELSE 0
    BY <1>1, <1>6, <1>7, GoodConfirm
  <1> QED BY <1>8 DEF RelayRight

\* The logic task takes confirmations and sends commands.
LEMMA LogicKeepsConfirmed ==
  ASSUME PatientDesk, TypeOK, DeskTypeOK, PressedWell, Logic, ~Loses, NEW p \in Panels,
         Mine(p), InHand(p), Confirmed(p), ~(ProcessRouting /\ Head(input_event_queue).panel = p)
  PROVE  Confirmed(p)'
  <1> DEFINE d == Screen(p)
             G == Good(p)
  <1>1. /\ UNCHANGED << to_router, from_router, route >> /\ LogicNext /\ [DeskNext]_deskVars
        /\ ~Restart /\ d \in Dests /\ d \notin OtherDests
    BY HandlerSends, LogicIsNoRestart, ScreenTypes DEF Logic, PatientDesk, Mine, DeskNext
  <1>2. asked'[p] = asked[p] /\ Good(p)' = G
    BY <1>1, AskedStays
  <1>3. SUFFICES \/ ~SilentBoth(ethernet_message_output_queue', to_router, CommandsFor(d))
                 \/ Coming(from_router, input_event_queue', d, G)
                 \/ NoneComing(from_router, input_event_queue', d) /\ RelayRight(p)'
    BY <1>1, <1>2 DEF Confirmed, Screen
  <1>4. CASE TogglePanel /\ loop = p /\ asked[p] = ShowRelay
    <2>1. SendsRoute /\ send_video_route(Wanted(p), d) /\ Wanted(p) \in Inputs
      BY <1>4, TurnSends, GoodInputs DEF InHand, TogglePending, Calm, TogglePanel, PatientDesk
    <2>2. ~QueueFull(ethernet_message_output_queue, OutputQueueLen)
      BY <2>1, HandlerSends
    <2> HIDE DEF d, G
    <2>3. ~SilentBoth(ethernet_message_output_queue', to_router, CommandsFor(d))
      BY <1>1, <2>1, <2>2, GoodSent
    <2> QED BY <2>3
  <1>5. CASE ~(TogglePanel /\ loop = p /\ asked[p] = ShowRelay)
    <2>1. SentElsewhere(d)
      <3>1. CASE TogglePanel /\ loop = p
        <4>1. ethernet_message_output_queue' = ethernet_message_output_queue
          BY <1>5, <3>1, TurnSends DEF InHand, TogglePending, Calm, TogglePanel
        <4> QED BY <4>1 DEF SentElsewhere
      <3>2. CASE ~(TogglePanel /\ loop = p)
        BY <1>1, <3>2, HandlersSendElsewhere
      <3> QED BY <3>1, <3>2
    <2>2. SilentBoth(ethernet_message_output_queue', to_router, CommandsFor(d)) =>
            SilentBoth(ethernet_message_output_queue, to_router, CommandsFor(d))
      <3> HIDE DEF d, G
      <3> QED BY <2>1, ElsewhereKeeps
    <2>3. RelayRight(p) /\ (ProcessScreenConfirm => Head(input_event_queue) \notin BadConfirms(d, G))
            => RelayRight(p)'
      BY <1>1, RelayStays
    <2>4. CASE TogglePanel \/ ToggleDest
      <3>1. input_event_queue' = input_event_queue /\ ~ProcessScreenConfirm
        BY <2>4 DEF TogglePanel, ToggleDest, ProcessScreenConfirm, Receive
      <3> HIDE DEF d, G
      <3> QED BY <2>2, <2>3, <3>1 DEF Confirmed, d, G
    <2>5. ASSUME NEW type, Receive(type), type = "ETHERNET" => ProcessScreenConfirm \/ ProcessOtherConfirm
          PROVE  \/ ~SilentBoth(ethernet_message_output_queue', to_router, CommandsFor(d))
                 \/ Coming(from_router, input_event_queue', d, G)
                 \/ NoneComing(from_router, input_event_queue', d) /\ RelayRight(p)'
      <3> DEFINE h == Head(input_event_queue)
      <3>1. /\ NoneComing(from_router, input_event_queue, d) =>
                 h \notin ConfirmsOf(d) /\ NoneComing(from_router, input_event_queue', d)
            /\ Coming(from_router, input_event_queue, d, G) =>
                 \/ Coming(from_router, input_event_queue', d, G)
                 \/ h \in ConfirmsWith(d, G) /\ NoneComing(from_router, input_event_queue', d)
            /\ h \in ConfirmsOf(d) => type = "ETHERNET"
        <4> HIDE DEF d, G
        <4> QED BY <2>5, ReceivedComing
      <3>2. CASE Coming(from_router, input_event_queue, d, G)
        <4>1. h \in ConfirmsWith(d, G) => RelayRight(p)'
          BY <1>2, <2>5, <3>1, GoodTaken, ConfirmsWithOf
        <4> HIDE DEF d, G, h
        <4> QED BY <3>1, <3>2, <4>1
      <3>3. CASE NoneComing(from_router, input_event_queue, d) /\ RelayRight(p)
        <4>1. h \notin BadConfirms(d, G)
          BY <3>1, <3>3 DEF BadConfirms
        <4>2. RelayRight(p)'
          BY <2>3, <3>3, <4>1
        <4> HIDE DEF d, G, h
        <4> QED BY <3>1, <3>3, <4>2
      <3> HIDE DEF h
      <3> QED BY <2>2, <3>2, <3>3 DEF Confirmed
    <2>6. CASE ProcessRouting \/ ProcessToggle \/ ProcessOtherConfirm \/ ProcessScreenConfirm
      <3>1. \E type : Receive(type) /\ (type = "ETHERNET" => ProcessScreenConfirm \/ ProcessOtherConfirm)
        <4>1. /\ ProcessRouting => Receive("ROUTING")
              /\ ProcessToggle => Receive("IR_TOGGLE")
              /\ ProcessOtherConfirm \/ ProcessScreenConfirm => Receive("ETHERNET")
          BY DEF ProcessRouting, ProcessToggle, ProcessOtherConfirm, ProcessScreenConfirm
        <4>2. "ROUTING" # "ETHERNET" /\ "IR_TOGGLE" # "ETHERNET"
          OBVIOUS
        <4> QED BY <2>6, <4>1, <4>2
      <3> HIDE DEF d, G
      <3> QED BY <2>5, <3>1
    <2> HIDE DEF d, G
    <2> QED BY <1>1, <2>4, <2>6 DEF LogicNext
  <1> QED BY <1>4, <1>5

\* Only the router takes a command off its way without losing it.
LEMMA CommandsStay ==
  ASSUME TypeOK, DeskTypeOK, NEW d,
         Press \/ SupplyOn \/ TcpSend \/ TcpRecv \/ TcpRecvLoses \/ UNCHANGED deskVars,
         SilentBoth(ethernet_message_output_queue', to_router', CommandsFor(d))
  PROVE  SilentBoth(ethernet_message_output_queue, to_router, CommandsFor(d))
  <1> DEFINE queue == ethernet_message_output_queue
             about == CommandsFor(d)
  <1>1. queue \in Seq(OutputMessages) /\ to_router \in Seq(OutputMessages)
    BY DEF TypeOK, DeskTypeOK
  <1>2. CASE Press \/ TcpRecv \/ TcpRecvLoses \/ UNCHANGED deskVars
    <2>1. UNCHANGED << ethernet_message_output_queue, to_router >>
      BY <1>2 DEF Press, TcpRecv, TcpRecvLoses, deskVars, netVars, vars, PostInput
    <2> QED BY <2>1
  <1>3. CASE SupplyOn
    <2> DEFINE ask == [type |-> "ROUTEDUMP"]
    <2>1. ask \in OutputMessages /\ to_router' = to_router /\ queue' \in {queue, Append(queue, ask)}
      BY <1>3 DEF SupplyOn, netVars, RequestRouteDump, xQueueSend, OutputMessages
    <2>2. Silent(queue', about) /\ Silent(to_router', about)
      BY DEF SilentBoth
    <2> HIDE DEF ask, queue, about
    <2>3. Silent(Append(queue, ask), about) => Silent(queue, about)
      BY <1>1, <2>1, SilentAppend, Zenon
    <2>4. Silent(queue, about) /\ Silent(to_router, about)
      BY <2>1, <2>2, <2>3
    <2> QED BY <2>4 DEF SilentBoth, queue, about
  <1>4. CASE TcpSend
    <2>1. /\ queue # << >> /\ queue' = Tail(queue) /\ Head(queue) \in OutputMessages
          /\ to_router' = Append(to_router, Head(queue))
      BY <1>1, <1>4 DEF TcpSend, TakeOutput
    <2>2. Silent(queue', about) /\ Silent(to_router', about)
      BY DEF SilentBoth
    <2> HIDE DEF queue, about
    <2>3. Silent(to_router, about) /\ Head(queue) \notin about
      BY <1>1, <2>1, <2>2, SilentAppend
    <2>4. Silent(queue, about)
      BY <1>1, <2>1, <2>2, <2>3, SilentTail
    <2> QED BY <2>3, <2>4 DEF SilentBoth, queue, about
  <1> QED BY <1>2, <1>3, <1>4

\* The router obeys the last command for the screen and confirms it.
LEMMA RouterKeepsConfirmed ==
  ASSUME PatientDesk, TypeOK, DeskTypeOK, RouterHandles, NEW p \in Panels, Mine(p), InHand(p),
         Confirmed(p), asked'[p] = asked[p], Good(p)' = Good(p)
  PROVE  Confirmed(p)'
  <1> DEFINE d       == Screen(p)
             G       == Good(p)
             queue   == ethernet_message_output_queue
             command == Head(to_router)
             rest    == Tail(to_router)
  <1>1. /\ to_router \in Seq(OutputMessages) /\ to_router # << >> /\ command \in OutputMessages
        /\ queue \in Seq(OutputMessages) /\ to_router' = rest /\ UNCHANGED vars /\ link = "up"
        /\ d \in Dests /\ G \subseteq Inputs
    <2>1. to_router \in Seq(OutputMessages) /\ to_router # << >> /\ queue \in Seq(OutputMessages)
      BY DEF RouterHandles, TypeOK, DeskTypeOK
    <2>2. link = "up" /\ to_router' = rest /\ UNCHANGED vars
      BY DEF RouterHandles, DeskTypeOK
    <2>3. d \in Dests /\ G \subseteq Inputs
      BY ScreenTypes, GoodInputs DEF PatientDesk
    <2> QED BY <2>1, <2>2, <2>3
  <1>2. SUFFICES ASSUME SilentBoth(queue, rest, CommandsFor(d))
                 PROVE  \/ Coming(from_router', input_event_queue', d, G)
                        \/ NoneComing(from_router', input_event_queue', d) /\ RelayRight(p)
    BY <1>1 DEF Confirmed, Screen, RelayRight, vars, logicVars
  <1>3. CASE command \in CommandsFor(d)
    <2>1. command.input \in G
      <3>1. CASE TogglePending
        <4>1. Silent(to_router, BadCommands(d, G))
          BY <3>1 DEF InHand, Calm, SilentBoth
        <4>2. command \notin BadCommands(d, G)
          <5> HIDE DEF d, G
          <5> QED BY <1>1, <4>1, SilentTail
        <4> QED BY <1>3, <4>2 DEF BadCommands
      <3>2. CASE ~TogglePending
        <4> DEFINE w == Wanted(p)
        <4>1. Heading(queue, to_router, route, d, w) /\ w \in G
          BY <3>2, GoodInputs DEF InHand, Aimed, TogglePending, PatientDesk
        <4> HIDE DEF d, G, w, queue
        <4>2. /\ SilentBoth(queue, to_router, CommandsFor(d)) =>
                   command \notin CommandsFor(d)
              /\ EndsIn(queue, to_router, CommandsFor(d), CommandsTo(d, w)) =>
                   EndsIn(queue, rest, CommandsFor(d), CommandsTo(d, w)) \/ command \in CommandsTo(d, w)
          BY <1>1, TakeOldest, CommandsToFor, Zenon
        <4>3. ~EndsIn(queue, rest, CommandsFor(d), CommandsTo(d, w))
          BY <1>2, SilentEndsNot, CommandsToFor, Zenon DEF EndsIn, SilentBoth
        <4>4. command \in CommandsTo(d, w)
          BY <1>3, <4>1, <4>2, <4>3 DEF Heading
        <4> QED BY <4>1, <4>4 DEF CommandsTo
      <3> QED BY <3>1, <3>2
    <2>2. command.type = "ROUTING" /\ command.output = d
      BY <1>3 DEF CommandsFor
    <2>3. RouterRoutes(d, command.input) /\ command.input \in Inputs
      BY <1>1, <2>1, <2>2 DEF RouterHandles
    <2> HIDE DEF d, G
    <2>4. Coming(from_router', input_event_queue', d, G)
      BY <1>1, <2>1, <2>3, RoutedIsComing
    <2> QED BY <2>4
  <1>4. CASE command \notin CommandsFor(d)
    <2>1. SilentBoth(queue, to_router, CommandsFor(d))
      <3>1. Silent(to_router, CommandsFor(d))
        <4>1. Silent(rest, CommandsFor(d))
          BY <1>2 DEF SilentBoth
        <4> HIDE DEF d
        <4> QED BY <1>1, <1>4, <4>1, SilentTail
      <3> QED BY <1>2, <3>1 DEF SilentBoth
    <2>2. \/ Coming(from_router, input_event_queue, d, G)
          \/ NoneComing(from_router, input_event_queue, d) /\ RelayRight(p)
      BY <2>1 DEF Confirmed
    <2>3. route[d] \in G
      BY <2>1, NoCommandsGood DEF PatientDesk
    <2>4. ~(command.type = "ROUTING" /\ command.output = d)
      BY <1>1, <1>4 DEF CommandsFor
    <2>5. ASSUME command.output \in Dests, command.input \in Inputs, command.output # d,
                 RouterRoutes(command.output, command.input)
          PROVE  \/ Coming(from_router', input_event_queue', d, G)
                 \/ NoneComing(from_router', input_event_queue', d) /\ RelayRight(p)
      <3> HIDE DEF d, G, command
      <3> QED BY <1>1, <2>2, <2>5, RoutedIsComing
    <2>6. ASSUME from_router' = from_router \o Dump
          PROVE  Coming(from_router', input_event_queue', d, G)
      <3> HIDE DEF d, G
      <3> QED BY <1>1, <2>3, <2>6, DumpIsComing
    <2>7. ASSUME from_router' = from_router
          PROVE  \/ Coming(from_router', input_event_queue', d, G)
                 \/ NoneComing(from_router', input_event_queue', d) /\ RelayRight(p)
      <3>1. input_event_queue' = input_event_queue
        BY <1>1 DEF vars
      <3> HIDE DEF d, G
      <3> QED BY <2>2, <2>7, <3>1
    <2>8. \/ /\ command.type = "ROUTING" /\ command.output \in Dests /\ command.input \in Inputs
             /\ RouterRoutes(command.output, command.input)
          \/ from_router' = from_router \o Dump
          \/ from_router' = from_router
      BY DEF RouterHandles
    <2> HIDE DEF d, G, command
    <2> QED BY <2>4, <2>5, <2>6, <2>7, <2>8
  <1> QED BY <1>3, <1>4

LEMMA NextConfirmed ==
  ASSUME PatientDesk, TypeOK, DeskTypeOK, ToldInv, PressedWell, [DeskNext]_deskVars, ~Restart,
         ~Loses, ~confirm_lost', NEW p \in Panels, InHand(p), Mine(p)'
  PROVE  Confirmed(p)'
  <1> DEFINE d == Screen(p)
  <1>1. CASE ProcessRouting /\ Head(input_event_queue).panel = p
    <2>1. Logic
      BY <1>1, RoutingIsLogic
    <2> DEFINE w == Wanted(p)'
    <2>2. /\ w \in Inputs /\ send_video_route(w, d)
          /\ ~QueueFull(ethernet_message_output_queue, OutputQueueLen)
          /\ d \in Dests /\ to_router' = to_router
      BY <1>1, <2>1, ButtonSends, ScreenTypes, HandlerSends DEF PatientDesk
    <2> HIDE DEF d, w
    <2>3. ~SilentBoth(ethernet_message_output_queue', to_router', CommandsFor(d))
      BY <2>2, GoodSent
    <2> QED BY <2>3 DEF Confirmed, Screen, d
  <1>2. CASE ~(ProcessRouting /\ Head(input_event_queue).panel = p)
    <2> DEFINE G == Good(p)
    <2>1. asked'[p] = asked[p] /\ Mine(p) /\ Good(p)' = G
      BY <1>2, AskedStays
    <2>2. d \in Dests /\ d \notin OtherDests /\ G \subseteq Inputs
      BY <2>1, ScreenTypes, GoodInputs DEF Mine, PatientDesk
    <2>3. SUFFICES \/ ~SilentBoth(ethernet_message_output_queue', to_router', CommandsFor(d))
                   \/ Coming(from_router', input_event_queue', d, G)
                   \/ NoneComing(from_router', input_event_queue', d) /\ RelayRight(p)'
      BY <2>1 DEF Confirmed, Screen
    <2>4. CASE Connect
      <3>1. /\ UNCHANGED << ethernet_message_output_queue, to_router >>
            /\ from_router' = Dump
        BY <2>4 DEF Connect, vars
      <3>2. CASE SilentBoth(ethernet_message_output_queue, to_router, CommandsFor(d))
        <4>1. route[d] \in G
          BY <2>1, <3>2, NoCommandsGood DEF PatientDesk
        <4> HIDE DEF d, G
        <4> QED BY <2>2, <3>1, <4>1, DumpIsComing
      <3> HIDE DEF d, G
      <3> QED BY <3>1, <3>2
    <2>5. ~Connect => ~confirm_lost /\ Confirmed(p)
      <3>1. ~Connect => ~confirm_lost
        BY DEF DeskNext, Logic, Press, SupplyOn, TcpSend, TcpRecv, TcpRecvLoses, RouterHandles,
               OtherPanelRoutes, Disconnect, deskVars, history
      <3> QED BY <2>1, <3>1 DEF InHand
    <2>6. CASE Logic /\ ~Connect
      <3>1. Confirmed(p)'
        BY <1>2, <2>1, <2>5, <2>6, LogicKeepsConfirmed
      <3> QED BY <2>1, <3>1 DEF Confirmed, Screen
    <2>7. CASE RouterHandles /\ ~Connect
      <3>1. Confirmed(p)'
        BY <2>1, <2>5, <2>7, RouterKeepsConfirmed
      <3> QED BY <2>1, <3>1 DEF Confirmed, Screen
    <2>8. CASE OtherPanelRoutes /\ ~Connect
      <3>1. /\ UNCHANGED << ethernet_message_output_queue, to_router >> /\ UNCHANGED vars
            /\ link = "up" /\ (RelayRight(p) => RelayRight(p)')
        BY <2>1, <2>5, <2>8 DEF OtherPanelRoutes, vars, logicVars, ToldInv, RelayRight
      <3>2. PICK output \in OtherDests, input \in Inputs : RouterRoutes(output, input)
        BY <2>8 DEF OtherPanelRoutes
      <3>3. output \in Dests /\ output # d
        BY <2>2, RouterAssumption
      <3> HIDE DEF d, G
      <3>4. /\ Coming(from_router, input_event_queue, d, G) =>
                 Coming(from_router', input_event_queue', d, G)
            /\ NoneComing(from_router, input_event_queue, d) =>
                 NoneComing(from_router', input_event_queue', d)
        BY <2>2, <3>1, <3>2, <3>3, RoutedIsComing
      <3> QED BY <2>5, <2>8, <3>1, <3>4 DEF Confirmed, d, G
    <2>9. CASE \/ Press \/ SupplyOn \/ TcpSend \/ TcpRecv \/ TcpRecvLoses \/ Disconnect
               \/ UNCHANGED deskVars
      <3>1. ~Disconnect
        BY DEF Disconnect
      <3>2. CASE Connect \/ Logic
        BY <2>4, <2>6, <3>2
      <3>3. CASE ~Connect /\ ~Logic
        <4>1. RelayRight(p) => RelayRight(p)'
          BY <2>1, <3>3, OthersKeepLogic DEF logicVars, RelayRight
        <4>2. SilentBoth(ethernet_message_output_queue', to_router', CommandsFor(d)) =>
                SilentBoth(ethernet_message_output_queue, to_router, CommandsFor(d))
          <5> HIDE DEF d, G
          <5> QED BY <2>9, <3>1, CommandsStay
        <4>3. /\ Coming(from_router, input_event_queue, d, G) =>
                   Coming(from_router', input_event_queue', d, G)
              /\ NoneComing(from_router, input_event_queue, d) =>
                   NoneComing(from_router', input_event_queue', d)
          <5> HIDE DEF d, G
          <5> QED BY <2>9, OthersKeepComing DEF PatientDesk
        <4> QED BY <2>5, <3>3, <4>1, <4>2, <4>3 DEF Confirmed
      <3> QED BY <3>2, <3>3
    <2> HIDE DEF d, G
    <2> QED BY <2>4, <2>6, <2>7, <2>8, <2>9 DEF DeskNext
  <1> QED BY <1>1, <1>2

\* While a toggle is to come nothing is about but what the panels asked for: it
\* was pressed when all was quiet.
LEMMA NextCalm ==
  ASSUME PatientDesk, TypeOK, DeskTypeOK, PressedWell, [DeskNext]_deskVars, ~Restart,
         ~hasty, ~hasty', ~Loses, NEW p \in Panels, InHand(p), Mine(p)', TogglePending'
  PROVE  Calm(p)'
  <1>1. CASE Press
    <2>1. /\ Quiet /\ ~confirm_lost /\ ~ProcessRouting
          /\ ethernet_message_output_queue = << >> /\ to_router = << >>
          /\ input_event_queue = << >> /\ from_router = << >> /\ pc = "wait"
      BY <1>1, PatientPress DEF Quiet, ProcessRouting, Receive
    <2>2. Mine(p)
      BY <2>1, AskedStays
    <2>3. \A about, right : /\ SilentBoth(ethernet_message_output_queue, to_router, about)
                            /\ SilentBoth(from_router, input_event_queue, about)
                            /\ ~EndsIn(from_router, input_event_queue, about, right)
      BY <2>1, EmptyLine DEF SilentBoth, EndsIn
    <2>4. RelayRight(p)
      BY <2>1, <2>2, <2>3 DEF InHand, Confirmed, Coming
    <2>5. route[Screen(p)] \in Good(p)
      BY <2>2, <2>3, NoCommandsGood DEF PatientDesk
    <2>6. Calm(p)
      BY <2>3, <2>4, <2>5 DEF Calm
    <2> QED BY <2>1, <2>2, <2>6, StaysCalm
  <1>2. CASE ~Press
    <2>1. TogglePending
      BY <1>2, TogglePends
    <2>2. ~ProcessRouting
      <3>1. Silent(input_event_queue, Pressed("ROUTING"))
        BY <2>1 DEF PressedWell
      <3>2. SUFFICES ASSUME ProcessRouting PROVE FALSE
        OBVIOUS
      <3>3. input_event_queue \in Seq(InputMessages) /\ input_event_queue # << >>
        BY <3>2, LinesTypes DEF ProcessRouting, Receive
      <3>4. Head(input_event_queue) \in InputMessages /\ Head(input_event_queue).type = "ROUTING"
        BY <3>2, <3>3 DEF ProcessRouting, Receive
      <3> QED BY <3>1, <3>3, <3>4, SilentTail DEF Pressed
    <2>3. Mine(p)
      BY <2>2, AskedStays
    <2>4. Calm(p)
      BY <2>1, <2>3 DEF InHand
    <2> QED BY <2>2, <2>3, <2>4, StaysCalm
  <1> QED BY <1>1, <1>2

LEMMA NextPatientInv ==
  ASSUME PatientDesk, TypeOK, DeskTypeOK, ToldInv, PatientInv, [DeskNext]_deskVars
  PROVE  PatientInv'
  <1>1. PressedWell'
    BY NextPressedWell DEF PatientInv
  <1> SUFFICES ASSUME ~hasty', NEW p \in Panels, Mine(p)'
               PROVE  /\ TogglePending' => Calm(p)'
                      /\ Aimed(p)'
                      /\ ~confirm_lost' => Confirmed(p)'
    BY <1>1 DEF PatientInv, InHand
  <1>2. CASE Restart
    <2>1. asked'[p] = 0
      BY <1>2 DEF Restart, NothingAsked
    <2> QED BY <2>1, NoneAsked DEF Mine, ShowRelay
  <1>3. CASE ~Restart
    <2>1. ~Loses
      BY <1>3, LossForgets
    <2>2. ~hasty
      BY <1>3 DEF DeskNext, Logic, Press, SupplyOn, TcpSend, TcpRecv, TcpRecvLoses,
                  RouterHandles, OtherPanelRoutes, Disconnect, Connect, deskVars, history
    <2>3. InHand(p) /\ PressedWell
      BY <2>2 DEF PatientInv
    <2> QED BY <1>3, <2>1, <2>2, <2>3, NextAimed, NextConfirmed, NextCalm
  <1> QED BY <1>2, <1>3

LEMMA InitPatientInv == DeskInit => PatientInv
  <1> SUFFICES ASSUME DeskInit PROVE PatientInv
    OBVIOUS
  <1>1. \A p \in Panels : asked[p] = 0
    BY DEF DeskInit, NothingAsked
  <1>2. \A p \in Panels : ~Mine(p)
    BY <1>1, NoneAsked DEF Mine, ShowRelay
  <1>3. \A kind : Silent(input_event_queue, kind)
    BY EmptyLine DEF DeskInit, Init
  <1> QED BY <1>1, <1>2, <1>3 DEF PatientInv, PressedWell, InHand

\* On a desk with the screens, cameras and buttons PatientDesk names, and if each
\* button is pressed when the press before it has come through, every panel whose
\* last press was not followed by the loss of a command shows that press once all
\* is quiet: its source, or the camera of relay_ir_state if it asked for the show
\* relay, through any number of toggles, dumps, connections and confirmations
\* lost, whatever was lost before and whatever other panels do to other outputs.
THEOREM LastPressHolds == PatientDesk => (DeskSpec => []LastPressStands)
  <1> SUFFICES ASSUME PatientDesk PROVE DeskSpec => []LastPressStands
    OBVIOUS
  <1>1. DeskInit => ToldInv /\ PatientInv
    BY InitPatientInv DEF DeskInit, ToldInv
  <1>2. DeskInv /\ ToldInv /\ PatientInv /\ [DeskNext]_deskVars => ToldInv' /\ PatientInv'
    BY NextToldInv, NextPatientInv DEF DeskInv, PatientDesk
  <1>3. DeskInv /\ PatientInv => LastPressStands
    <2> SUFFICES ASSUME DeskTypeOK, PatientInv, Quiet, ~hasty, NEW p \in Panels
                 PROVE  ShowsLastPress(p)
      BY DEF LastPressStands, DeskInv
    <2> SUFFICES ASSUME Mine(p)
                 PROVE  OnScreen(p) = IF asked[p] = ShowRelay THEN ShowRelaySource(relay_ir_state)
                                                              ELSE asked[p]
      BY DEF ShowsLastPress, Mine, Screen
    <2>1. Heading(ethernet_message_output_queue, to_router, route, Screen(p), Wanted(p))
      BY DEF PatientInv, InHand, Aimed, Quiet
    <2>2. route[Screen(p)] = Wanted(p)
      BY <2>1, QuietArrived
    <2> QED BY <2>2, GoodInputs DEF OnScreen, Screen, PatientDesk
  <1> QED BY InitDeskInv, NextDeskInv, <1>1, <1>2, <1>3, PTL DEF DeskSpec
=============================================================================
