----------------------------- MODULE TcpClient -----------------------------
(***************************************************************************)
(* The TCP client of ethernet.c: tcp_client_loop with its socket, the      *)
(* event handlers that delete and create its task, the warning light, and  *)
(* the way of a command from the output queue to the router.  What the     *)
(* client does with the text it receives is in TcpStream.                  *)
(*                                                                         *)
(* The task is between any two of its steps when it is deleted.  Setting   *)
(* the light is one step here; OutputRefresh has what is inside.           *)
(*                                                                         *)
(* Router, network and lwIP are modelled as the firmware relies on them: a *)
(* connection breaks without notice ("dead") and is given up some time     *)
(* after ("error"); a close by the router ("fin") reads once as 0 bytes    *)
(* and then as an error; a socket stays in use until it is closed.         *)
(***************************************************************************)
EXTENDS Naturals, FreeRTOSQueue

CONSTANTS
  MaxSockets,      \* CONFIG_LWIP_MAX_SOCKETS (10)
  OutputQueueLen,  \* slots of ethernet_message_output_queue (64)
  MaxCommands,     \* bound: commands put into the queue
  MaxFlaps,        \* bound: times the cable comes out or the address changes
  MaxFaults        \* bound: times the router goes down or closes the connection

ASSUME ClientAssumption ==
  /\ MaxSockets \in Nat \ {0} /\ OutputQueueLen \in Nat \ {0}
  /\ MaxCommands \in Nat /\ MaxFlaps \in Nat /\ MaxFaults \in Nat

VARIABLES
  pc,       \* tcp_client_loop; "none": no task, tcp_client_task_handle is NULL
  in_hand,  \* command taken from the queue and not yet sent, 0: none
  sock,     \* its socket: "none" | "fresh" | "open" | "dead" | "fin" | "error"
  leaked,   \* sockets of deleted tasks
  ethernet_fail_led,
  ethernet_message_output_queue,
  events,   \* of the event loop: "DISCONNECTED" (or "STOP") | "GOT_IP"
  cable, address,           \* the cable is in; the desk has an IP address
  router_up, to_router,     \* the router; commands on the way to it
  from_router,              \* it has sent text that is not yet received
  flaps, faults,            \* bound counters
  told, heard,              \* history: commands put into the queue and handled by
                            \* the router, by number
  event_seen                \* history: an event handler has run

taskVars == << pc, in_hand, sock, leaked, ethernet_fail_led >>
netVars == << events, cable, address >>
routerVars == << router_up, to_router, from_router >>
bounds == << flaps, faults >>
history == << told, heard, event_seen >>
vars == << taskVars, ethernet_message_output_queue, netVars, routerVars, bounds, history >>

Reachable == cable /\ address /\ router_up

\* Commands and confirmations can flow.
Working == sock = "open" /\ pc \in {"loop", "send", "recv"}
-----------------------------------------------------------------------------
(* tcp_client_loop.                                                        *)

\* Mutant: the sockets of deleted tasks count for nothing.
SocketsLeftAnyway == TRUE

SocketsLeft == leaked < MaxSockets

\* socket: without a free one the task warns and sleeps a second.
Socket ==
  /\ pc = "socket"
  /\ \/ /\ SocketsLeft
        /\ sock' = "fresh" /\ pc' = "connect"
        /\ UNCHANGED ethernet_fail_led
     \/ /\ ~SocketsLeft
        /\ ethernet_fail_led' = TRUE /\ pc' = "backoff"
        /\ UNCHANGED sock
  /\ UNCHANGED << in_hand, leaked, ethernet_message_output_queue, netVars, routerVars, bounds,
                  history >>

\* The router greets every connection with its state.
Connect ==
  /\ pc = "connect" /\ Reachable
  /\ sock' = "open" /\ from_router' = TRUE
  /\ pc' = "loop"
  /\ UNCHANGED << in_hand, leaked, ethernet_fail_led, ethernet_message_output_queue, netVars,
                  router_up, to_router, bounds, history >>

ConnectFails ==
  /\ pc = "connect" /\ ~Reachable
  /\ ethernet_fail_led' = TRUE
  /\ pc' = "close"
  /\ UNCHANGED << in_hand, sock, leaked, ethernet_message_output_queue, netVars, routerVars,
                  bounds, history >>

\* The send loop takes commands until the queue is empty.
TakeCommand ==
  /\ pc = "loop"
  /\ IF ethernet_message_output_queue = << >>
     THEN /\ pc' = "recv"
          /\ UNCHANGED << in_hand, ethernet_message_output_queue >>
     ELSE /\ pc' = "send"
          /\ in_hand' = Head(ethernet_message_output_queue)
          /\ ethernet_message_output_queue' = Tail(ethernet_message_output_queue)
  /\ UNCHANGED << sock, leaked, ethernet_fail_led, netVars, routerVars, bounds, history >>

\* send succeeds as long as lwIP has not given the connection up; what is sent
\* when the other end is gone is lost.
Send ==
  /\ pc = "send" /\ sock # "error"
  /\ to_router' = IF sock = "open" THEN Append(to_router, in_hand) ELSE to_router
  /\ in_hand' = 0
  /\ ethernet_fail_led' = FALSE
  /\ pc' = "loop"
  /\ UNCHANGED << sock, leaked, ethernet_message_output_queue, netVars, router_up, from_router,
                  bounds, history >>

\* Mutant: the command is put back into the queue.
SendFailsPutsBack ==
  /\ pc = "send" /\ sock = "error"
  /\ in_hand' = 0
  /\ ethernet_message_output_queue' =
       xQueueSend(ethernet_message_output_queue, in_hand, OutputQueueLen)
  /\ ethernet_fail_led' = TRUE
  /\ pc' = "close"
  /\ UNCHANGED << sock, leaked, netVars, routerVars, bounds, history >>

\* The command is out of the queue, and lost.
SendFails ==
  /\ pc = "send" /\ sock = "error"
  /\ in_hand' = 0
  /\ ethernet_fail_led' = TRUE
  /\ pc' = "close"
  /\ UNCHANGED << sock, leaked, ethernet_message_output_queue, netVars, routerVars, bounds,
                  history >>

\* Mutant: the light stays as it is.
ReceiveKeepsLight ==
  /\ pc = "recv" /\ from_router
  /\ from_router' = FALSE
  /\ pc' = "loop"
  /\ UNCHANGED << in_hand, sock, leaked, ethernet_fail_led, ethernet_message_output_queue,
                  netVars, router_up, to_router, bounds, history >>

\* recv returns text.
Receive ==
  /\ pc = "recv" /\ from_router
  /\ from_router' = FALSE
  /\ ethernet_fail_led' = FALSE
  /\ pc' = "loop"
  /\ UNCHANGED << in_hand, sock, leaked, ethernet_message_output_queue, netVars, router_up,
                  to_router, bounds, history >>

\* Mutant: recv waits for text.
ReceiveBlocks == FALSE

\* EAGAIN: with MSG_DONTWAIT recv does not wait for text.
ReceiveNothing ==
  /\ pc = "recv" /\ ~from_router /\ sock \in {"open", "dead"}
  /\ pc' = "loop"
  /\ UNCHANGED << in_hand, sock, leaked, ethernet_fail_led, ethernet_message_output_queue,
                  netVars, routerVars, bounds, history >>

\* Mutant: 0 bytes are no news at all.
ReceiveEndAgain ==
  /\ pc = "recv" /\ ~from_router /\ sock = "fin"
  /\ pc' = "loop"
  /\ UNCHANGED << in_hand, sock, leaked, ethernet_fail_led, ethernet_message_output_queue,
                  netVars, routerVars, bounds, history >>

\* recv returns 0, which passes for text received: the light goes off.
ReceiveEnd ==
  /\ pc = "recv" /\ ~from_router /\ sock = "fin"
  /\ sock' = "error"
  /\ ethernet_fail_led' = FALSE
  /\ pc' = "loop"
  /\ UNCHANGED << in_hand, leaked, ethernet_message_output_queue, netVars, routerVars, bounds,
                  history >>

\* Any other error ends the connection, text waiting or not.
ReceiveFails ==
  /\ pc = "recv" /\ sock = "error"
  /\ ethernet_fail_led' = TRUE
  /\ pc' = "close"
  /\ UNCHANGED << in_hand, sock, leaked, ethernet_message_output_queue, netVars, routerVars,
                  bounds, history >>

\* Behind a failed connect the light is on already.
Close ==
  /\ pc = "close"
  /\ sock' = "none" /\ from_router' = FALSE
  /\ ethernet_fail_led' = TRUE
  /\ pc' = "backoff"
  /\ UNCHANGED << in_hand, leaked, ethernet_message_output_queue, netVars, router_up, to_router,
                  bounds, history >>

\* A second has passed.
Backoff ==
  /\ pc = "backoff"
  /\ pc' = "socket"
  /\ UNCHANGED << in_hand, sock, leaked, ethernet_fail_led, ethernet_message_output_queue,
                  netVars, routerVars, bounds, history >>

Client ==
  \/ Socket \/ Connect \/ ConnectFails
  \/ TakeCommand \/ Send \/ SendFails
  \/ Receive \/ ReceiveNothing \/ ReceiveEnd \/ ReceiveFails
  \/ Close \/ Backoff
-----------------------------------------------------------------------------
(* The event handlers.                                                     *)

\* vTaskDelete: the command in hand is gone, a socket stays in use for ever.
\* Commands on their way are counted as lost, though they may still get there.
TaskDelete ==
  /\ leaked' = IF sock = "none" THEN leaked ELSE leaked + 1
  /\ in_hand' = 0 /\ sock' = "none"
  /\ to_router' = << >> /\ from_router' = FALSE

\* Mutant: the light is left alone.
LinkDownNoWarning ==
  /\ events # << >> /\ Head(events) = "DISCONNECTED"
  /\ events' = Tail(events)
  /\ TaskDelete
  /\ pc' = "none"
  /\ event_seen' = TRUE
  /\ UNCHANGED << ethernet_fail_led, ethernet_message_output_queue, cable, address, router_up,
                  bounds, told, heard >>

\* ETHERNET_EVENT_DISCONNECTED and ETHERNET_EVENT_STOP.  Without a task TaskDelete
\* changes nothing, as the code does nothing.
LinkDown ==
  /\ events # << >> /\ Head(events) = "DISCONNECTED"
  /\ events' = Tail(events)
  /\ TaskDelete
  /\ pc' = "none"
  /\ ethernet_fail_led' = TRUE
  /\ event_seen' = TRUE
  /\ UNCHANGED << ethernet_message_output_queue, cable, address, router_up, bounds, told, heard >>

\* Mutant: a new task only if none was there.
GotIpOrDelete ==
  /\ events # << >> /\ Head(events) = "GOT_IP"
  /\ events' = Tail(events)
  /\ TaskDelete
  /\ pc' = IF pc = "none" THEN "socket" ELSE "none"
  /\ event_seen' = TRUE
  /\ UNCHANGED << ethernet_fail_led, ethernet_message_output_queue, cable, address, router_up,
                  bounds, told, heard >>

\* IP_EVENT_ETH_GOT_IP: a task that is there is deleted, then a new one created.
GotIp ==
  /\ events # << >> /\ Head(events) = "GOT_IP"
  /\ events' = Tail(events)
  /\ TaskDelete
  /\ pc' = "socket"
  /\ event_seen' = TRUE
  /\ UNCHANGED << ethernet_fail_led, ethernet_message_output_queue, cable, address, router_up,
                  bounds, told, heard >>

EventTask == LinkDown \/ GotIp
-----------------------------------------------------------------------------
(* The rest of the firmware: send_video_route and request_route_dump.      *)

Command ==
  /\ told < MaxCommands
  /\ told' = told + 1
  /\ ethernet_message_output_queue' =
       xQueueSend(ethernet_message_output_queue, told', OutputQueueLen)
  /\ UNCHANGED << taskVars, netVars, routerVars, bounds, heard, event_seen >>
-----------------------------------------------------------------------------
(* Network and router.                                                     *)

\* The connection is as given, with nothing on its way to the router.
ConnectionBecomes(state) ==
  /\ sock' = IF sock \in {"open", "fin"} THEN state ELSE sock
  /\ to_router' = << >>

CableOut ==
  /\ cable /\ flaps < MaxFlaps
  /\ flaps' = flaps + 1
  /\ cable' = FALSE /\ address' = FALSE
  /\ events' = Append(events, "DISCONNECTED")
  /\ ConnectionBecomes("dead")
  /\ UNCHANGED << pc, in_hand, leaked, ethernet_fail_led, ethernet_message_output_queue,
                  router_up, from_router, faults, history >>

CableIn ==
  /\ ~cable
  /\ cable' = TRUE
  /\ UNCHANGED << taskVars, ethernet_message_output_queue, events, address, routerVars, bounds,
                  history >>

\* DHCP has an address for the desk.
GetAddress ==
  /\ cable /\ ~address
  /\ address' = TRUE
  /\ events' = Append(events, "GOT_IP")
  /\ UNCHANGED << taskVars, ethernet_message_output_queue, cable, routerVars, bounds, history >>

\* DHCP changes the address: lwIP ends the connections of the old one.
ChangeAddress ==
  /\ address /\ flaps < MaxFlaps
  /\ flaps' = flaps + 1
  /\ events' = Append(events, "GOT_IP")
  /\ ConnectionBecomes("error")
  /\ UNCHANGED << pc, in_hand, leaked, ethernet_fail_led, ethernet_message_output_queue, cable,
                  address, router_up, from_router, faults, history >>

\* Keepalive or retransmission gives up, or the other end answers with a reset.
ConnectionFails ==
  /\ sock \in {"dead", "fin"}
  /\ sock' = "error"
  /\ UNCHANGED << pc, in_hand, leaked, ethernet_fail_led, ethernet_message_output_queue, netVars,
                  routerVars, bounds, history >>

RouterDown ==
  /\ router_up /\ faults < MaxFaults
  /\ faults' = faults + 1
  /\ router_up' = FALSE
  /\ ConnectionBecomes("dead")
  /\ UNCHANGED << pc, in_hand, leaked, ethernet_fail_led, ethernet_message_output_queue, netVars,
                  from_router, flaps, history >>

RouterUp ==
  /\ ~router_up
  /\ router_up' = TRUE
  /\ UNCHANGED << taskVars, ethernet_message_output_queue, netVars, to_router, from_router,
                  bounds, history >>

\* An orderly close; commands that arrive after it are not handled.
RouterCloses ==
  /\ sock = "open" /\ faults < MaxFaults
  /\ faults' = faults + 1
  /\ ConnectionBecomes("fin")
  /\ UNCHANGED << pc, in_hand, leaked, ethernet_fail_led, ethernet_message_output_queue, netVars,
                  router_up, from_router, flaps, history >>

\* Every command is answered.
RouterHandles ==
  /\ to_router # << >>
  /\ to_router' = Tail(to_router)
  /\ heard' = Append(heard, Head(to_router))
  /\ from_router' = TRUE
  /\ UNCHANGED << taskVars, ethernet_message_output_queue, netVars, router_up, bounds, told,
                  event_seen >>
-----------------------------------------------------------------------------
\* setup_ethernet has registered the handlers and started the driver.
Init ==
  /\ pc = "none" /\ in_hand = 0 /\ sock = "none" /\ leaked = 0
  /\ ethernet_fail_led = FALSE
  /\ ethernet_message_output_queue = << >>
  /\ events = << >> /\ cable \in BOOLEAN /\ address = FALSE
  /\ router_up \in BOOLEAN /\ to_router = << >> /\ from_router = FALSE
  /\ flaps = 0 /\ faults = 0
  /\ told = 0 /\ heard = << >> /\ event_seen = FALSE

Next ==
  \/ Client
  \/ EventTask
  \/ Command
  \/ CableOut \/ CableIn \/ GetAddress \/ ChangeAddress \/ ConnectionFails
  \/ RouterDown \/ RouterUp \/ RouterCloses \/ RouterHandles

\* The tasks run, DHCP answers, and lwIP gives up a connection that is gone
\* without notice (one the router has closed it may keep).  Nobody has to plug a
\* cable in or switch a router on.
Fairness ==
  /\ WF_vars(Client) /\ WF_vars(EventTask)
  /\ WF_vars(GetAddress) /\ WF_vars(RouterHandles)
  /\ WF_vars(sock = "dead" /\ ConnectionFails)

Spec == Init /\ [][Next]_vars /\ Fairness
-----------------------------------------------------------------------------
SwitchTypes ==
  /\ ethernet_fail_led \in BOOLEAN /\ event_seen \in BOOLEAN
  /\ cable \in BOOLEAN /\ address \in BOOLEAN /\ (address => cable)
  /\ router_up \in BOOLEAN /\ from_router \in BOOLEAN

TaskTypes ==
  /\ pc \in {"none", "socket", "connect", "loop", "send", "recv", "close", "backoff"}
  /\ in_hand \in 0 .. MaxCommands /\ (in_hand # 0 <=> pc = "send")
  /\ sock \in {"none", "fresh", "open", "dead", "fin", "error"}
  /\ sock = "none" <=> pc \in {"none", "socket", "backoff"}
  /\ pc = "connect" => sock = "fresh"
  /\ pc = "close" => sock \in {"fresh", "error"}
  /\ leaked \in 0 .. MaxSockets /\ (leaked = MaxSockets => sock = "none")
  /\ ethernet_message_output_queue \in Seq(1 .. MaxCommands)
  /\ Len(ethernet_message_output_queue) <= OutputQueueLen
  /\ events \in Seq({"DISCONNECTED", "GOT_IP"})
  /\ to_router \in Seq(1 .. MaxCommands) /\ (to_router # << >> => sock = "open")
  /\ flaps \in 0 .. MaxFlaps /\ faults \in 0 .. MaxFaults
  /\ told \in 0 .. MaxCommands /\ heard \in Seq(1 .. MaxCommands)

TypeOK == SwitchTypes /\ TaskTypes

\* When no event is left to handle there is a client task if and only if the
\* desk has an address, whatever order cable, DHCP and handlers took.
ClientRunsIffOnline == events = << >> => (pc # "none" <=> address)

\* Commands get to the router in the order they were given and at most once,
\* over any number of connections and deleted tasks: the send path implements
\* LossyLine.
Commands == INSTANCE LossyLine

CommandsInOrder == Commands!Spec

\* The client is never without a connection for ever while the router can be
\* reached, as long as deleted tasks have left it a socket.
Reconnects == []<>(Working \/ ~Reachable \/ leaked = MaxSockets)

\* The same without the proviso: the loop "re(connects) to IP" (ethernet.c).
ReconnectsAnyway == []<>(Working \/ ~Reachable)

\* A connection that stays lost is shown in the end, and stays shown, unless
\* the desk was started without a cable and has never had one.
LossShown == <>[](~Working /\ event_seen) => <>[]ethernet_fail_led

\* A connection that stays is shown as working in the end.
RecoveryShown == <>[]Working => <>[]~ethernet_fail_led

\* No command waits for ever while there is a connection.
CommandsLeave == []<>(~Working \/ ethernet_message_output_queue = << >>)
=============================================================================
