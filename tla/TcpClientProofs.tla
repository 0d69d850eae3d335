-------------------------- MODULE TcpClientProofs --------------------------
(***************************************************************************)
(* Theorems about TcpClient for every number of sockets, every length of   *)
(* the queue and any number of commands and faults: its types, that a task *)
(* runs if and only if the desk is online, and that the send path          *)
(* implements LossyLine.                                                   *)
(***************************************************************************)
EXTENDS TcpClient, SequenceTheorems, TLAPS

\* The newest event that is not handled yet tells whether there is an address.
NewestEventTellsAddress ==
  events # << >> => (events[Len(events)] = "GOT_IP" <=> address)

OnlineInv == TypeOK /\ ClientRunsIffOnline /\ NewestEventTellsAddress

\* The numbers in s increase, and are above low and at most high.
Ascending(s, low, high) ==
  /\ \A i \in 1 .. Len(s) : s[i] \in low + 1 .. high
  /\ \A i, j \in 1 .. Len(s) : i < j => s[i] < s[j]

\* From the router back to the queue: what was handled, what is on its way, the
\* command in hand and what is queued are one increasing sequence.
InOrder ==
  LET newest == Commands!Newest
      queue == ethernet_message_output_queue
  IN  /\ newest \in 0 .. told
      /\ Ascending(to_router, newest, told)
      /\ Ascending(queue, newest, told)
      /\ in_hand # 0 => in_hand \in newest + 1 .. told
      /\ in_hand # 0 => \A i \in 1 .. Len(to_router) : to_router[i] < in_hand
      /\ \A k \in 1 .. Len(queue) : in_hand < queue[k]
      /\ \A i \in 1 .. Len(to_router), k \in 1 .. Len(queue) : to_router[i] < queue[k]

\* The inductive invariant of the send path.
OrderInv == TypeOK /\ InOrder
-----------------------------------------------------------------------------
\* A queue after a send: as it was, or with the item at its end.
LEMMA SendEffect ==
  ASSUME NEW S, NEW queue \in Seq(S), NEW item \in S, NEW length \in Nat,
         Len(queue) <= length
  PROVE  LET new == xQueueSend(queue, item, length)
         IN  /\ new \in Seq(S) /\ Len(new) <= length
             /\ new = queue \/ new = Append(queue, item)
  BY DEF xQueueSend, QueueFull

\* A sequence with elements has a first one and a rest.
LEMMA HeadTail ==
  ASSUME NEW S, NEW s \in Seq(S), s # << >>
  PROVE  /\ Head(s) \in S /\ Head(s) = s[1] /\ Len(s) \in Nat \ {0}
         /\ Tail(s) \in Seq(S) /\ Len(Tail(s)) = Len(s) - 1
         /\ \A i \in 1 .. Len(s) - 1 : Tail(s)[i] = s[i + 1]
  OBVIOUS

\* The rest of a sequence is above its first element.
LEMMA AscendingTail ==
  ASSUME NEW s \in Seq(Nat), s # << >>, NEW low \in Nat, NEW high \in Nat,
         Ascending(s, low, high)
  PROVE  /\ Head(s) \in low + 1 .. high
         /\ Ascending(Tail(s), Head(s), high)
  <1>1. /\ Head(s) = s[1] /\ Len(s) \in Nat \ {0} /\ Len(Tail(s)) = Len(s) - 1
        /\ \A i \in 1 .. Len(s) - 1 : Tail(s)[i] = s[i + 1]
    BY HeadTail
  <1>2. \A i \in 1 .. Len(s) - 1 : i + 1 \in 1 .. Len(s) /\ 1 < i + 1
    BY <1>1
  <1>3. 1 \in 1 .. Len(s)
    BY <1>1
  <1> QED BY <1>1, <1>2, <1>3 DEF Ascending

\* A number above all others may be appended.
LEMMA AscendingAppend ==
  ASSUME NEW s \in Seq(Nat), NEW low \in Nat, NEW high \in Nat, NEW n \in low + 1 .. high,
         Ascending(s, low, high), \A i \in 1 .. Len(s) : s[i] < n
  PROVE  Ascending(Append(s, n), low, high)
  BY DEF Ascending

\* Bounds may be widened.
LEMMA AscendingWiden ==
  ASSUME NEW s \in Seq(Nat), NEW low \in Nat, NEW high \in Nat, NEW l \in Nat, NEW h \in Nat,
         Ascending(s, low, high), l <= low, high <= h
  PROVE  Ascending(s, l, h)
  BY DEF Ascending
-----------------------------------------------------------------------------
LEMMA EmptySequence == \A S : << >> \in Seq(S) /\ Len(<< >>) = 0
  OBVIOUS

LEMMA InitTypeOK == Init => TypeOK
  <1>1. Init => SwitchTypes
    BY DEF Init, SwitchTypes
  <1>2. Init => TaskTypes
    BY ClientAssumption, EmptySequence DEF Init, TaskTypes
  <1> QED BY <1>1, <1>2 DEF TypeOK

\* One step per action.
LEMMA NextSwitchTypes == SwitchTypes /\ [Next]_vars => SwitchTypes'
  <1> SUFFICES ASSUME SwitchTypes, [Next]_vars PROVE SwitchTypes'
    OBVIOUS
  <1> USE DEF SwitchTypes, taskVars, netVars, routerVars, bounds, history
  <1>1. CASE Socket
    BY <1>1 DEF Socket, SocketsLeft
  <1>2. CASE Connect
    BY <1>2 DEF Connect
  <1>3. CASE ConnectFails
    BY <1>3 DEF ConnectFails
  <1>4. CASE TakeCommand
    BY <1>4 DEF TakeCommand
  <1>5. CASE Send
    BY <1>5 DEF Send
  <1>6. CASE SendFails
    BY <1>6 DEF SendFails
  <1>7. CASE Receive
    BY <1>7 DEF Receive
  <1>8. CASE ReceiveNothing
    BY <1>8 DEF ReceiveNothing
  <1>9. CASE ReceiveEnd
    BY <1>9 DEF ReceiveEnd
  <1>10. CASE ReceiveFails
    BY <1>10 DEF ReceiveFails
  <1>11. CASE Close
    BY <1>11 DEF Close
  <1>12. CASE Backoff
    BY <1>12 DEF Backoff
  <1>13. CASE LinkDown
    BY <1>13 DEF LinkDown, TaskDelete
  <1>14. CASE GotIp
    BY <1>14 DEF GotIp, TaskDelete
  <1>15. CASE Command
    BY <1>15 DEF Command
  <1>16. CASE CableOut
    BY <1>16 DEF CableOut, ConnectionBecomes
  <1>17. CASE CableIn
    BY <1>17 DEF CableIn
  <1>18. CASE GetAddress
    BY <1>18 DEF GetAddress
  <1>19. CASE ChangeAddress
    BY <1>19 DEF ChangeAddress, ConnectionBecomes
  <1>20. CASE ConnectionFails
    BY <1>20 DEF ConnectionFails
  <1>21. CASE RouterDown
    BY <1>21 DEF RouterDown, ConnectionBecomes
  <1>22. CASE RouterUp
    BY <1>22 DEF RouterUp
  <1>23. CASE RouterCloses
    BY <1>23 DEF RouterCloses, ConnectionBecomes
  <1>24. CASE RouterHandles
    BY <1>24 DEF RouterHandles
  <1>25. CASE UNCHANGED vars
    BY <1>25 DEF vars
  <1> QED
    BY <1>1, <1>2, <1>3, <1>4, <1>5, <1>6, <1>7, <1>8, <1>9, <1>10, <1>11, <1>12, <1>13,
       <1>14, <1>15, <1>16, <1>17, <1>18, <1>19, <1>20, <1>21, <1>22, <1>23, <1>24, <1>25
    DEF Next, Client, EventTask

LEMMA NextTaskTypes == TaskTypes /\ [Next]_vars => TaskTypes'
  <1> SUFFICES ASSUME TaskTypes, [Next]_vars PROVE TaskTypes'
    OBVIOUS
  <1> USE ClientAssumption, EmptySequence
  <1> USE DEF TaskTypes, taskVars, netVars, routerVars, bounds, history
  <1>1. CASE Socket
    BY <1>1 DEF Socket, SocketsLeft
  <1>2. CASE Connect
    BY <1>2 DEF Connect
  <1>3. CASE ConnectFails
    BY <1>3 DEF ConnectFails
  <1>4. CASE TakeCommand
    <2>1. CASE ethernet_message_output_queue = << >>
      BY <1>4, <2>1 DEF TakeCommand
    <2>2. CASE ethernet_message_output_queue # << >>
      <3> DEFINE queue == ethernet_message_output_queue
      <3>1. /\ in_hand' = Head(queue) /\ ethernet_message_output_queue' = Tail(queue)
            /\ pc' = "send" /\ pc = "loop"
        BY <1>4, <2>2 DEF TakeCommand
      <3>2. /\ Head(queue) \in 1 .. MaxCommands /\ Tail(queue) \in Seq(1 .. MaxCommands)
            /\ Len(Tail(queue)) = Len(queue) - 1 /\ Len(queue) \in Nat
        BY <2>2, HeadTail
      <3>3. in_hand' \in 0 .. MaxCommands /\ in_hand' # 0
        BY <3>1, <3>2
      <3>4. /\ ethernet_message_output_queue' \in Seq(1 .. MaxCommands)
            /\ Len(ethernet_message_output_queue') <= OutputQueueLen
        BY <3>1, <3>2
      <3> HIDE DEF queue
      <3> QED BY <1>4, <3>1, <3>3, <3>4 DEF TakeCommand
    <2> QED BY <2>1, <2>2
  <1>5. CASE Send
    <2>1. in_hand \in 1 .. MaxCommands
      BY <1>5 DEF Send
    <2>2. /\ to_router' \in Seq(1 .. MaxCommands)
          /\ to_router' # << >> => sock' = "open"
      <3>1. CASE sock = "open"
        <4>1. to_router' = Append(to_router, in_hand) /\ sock' = "open"
          BY <1>5, <3>1 DEF Send
        <4> QED BY <2>1, <4>1
      <3>2. CASE sock # "open"
        BY <1>5, <3>2 DEF Send
      <3> QED BY <3>1, <3>2
    <2> QED BY <1>5, <2>2 DEF Send
  <1>6. CASE SendFails
    BY <1>6 DEF SendFails
  <1>7. CASE Receive
    BY <1>7 DEF Receive
  <1>8. CASE ReceiveNothing
    BY <1>8 DEF ReceiveNothing
  <1>9. CASE ReceiveEnd
    BY <1>9 DEF ReceiveEnd
  <1>10. CASE ReceiveFails
    BY <1>10 DEF ReceiveFails
  <1>11. CASE Close
    BY <1>11 DEF Close
  <1>12. CASE Backoff
    BY <1>12 DEF Backoff
  <1>13. CASE LinkDown
    BY <1>13 DEF LinkDown, TaskDelete
  <1>14. CASE GotIp
    BY <1>14 DEF GotIp, TaskDelete
  <1>15. CASE Command
    <2>1. told' \in 1 .. MaxCommands
      BY <1>15 DEF Command
    <2>2. /\ ethernet_message_output_queue' \in Seq(1 .. MaxCommands)
          /\ Len(ethernet_message_output_queue') <= OutputQueueLen
      BY <1>15, <2>1, SendEffect DEF Command
    <2> QED BY <1>15, <2>1, <2>2 DEF Command
  <1>16. CASE CableOut
    BY <1>16 DEF CableOut, ConnectionBecomes
  <1>17. CASE CableIn
    BY <1>17 DEF CableIn
  <1>18. CASE GetAddress
    BY <1>18 DEF GetAddress
  <1>19. CASE ChangeAddress
    BY <1>19 DEF ChangeAddress, ConnectionBecomes
  <1>20. CASE ConnectionFails
    BY <1>20 DEF ConnectionFails
  <1>21. CASE RouterDown
    BY <1>21 DEF RouterDown, ConnectionBecomes
  <1>22. CASE RouterUp
    BY <1>22 DEF RouterUp
  <1>23. CASE RouterCloses
    BY <1>23 DEF RouterCloses, ConnectionBecomes
  <1>24. CASE RouterHandles
    BY <1>24 DEF RouterHandles
  <1>25. CASE UNCHANGED vars
    BY <1>25 DEF vars
  <1> QED
    BY <1>1, <1>2, <1>3, <1>4, <1>5, <1>6, <1>7, <1>8, <1>9, <1>10, <1>11, <1>12, <1>13,
       <1>14, <1>15, <1>16, <1>17, <1>18, <1>19, <1>20, <1>21, <1>22, <1>23, <1>24, <1>25
    DEF Next, Client, EventTask

LEMMA NextTypeOK == TypeOK /\ [Next]_vars => TypeOK'
  BY NextSwitchTypes, NextTaskTypes DEF TypeOK

\* Types: a task holds a socket except before socket and behind close, a command
\* in hand exactly while it sends, never more sockets than there are; commands are
\* on their way only over an open connection, and the queue keeps to its slots.
THEOREM TypeCorrect == Spec => []TypeOK
  BY InitTypeOK, NextTypeOK, PTL DEF Spec
-----------------------------------------------------------------------------
LEMMA InitOnlineInv == Init => OnlineInv
  BY InitTypeOK DEF Init, OnlineInv, ClientRunsIffOnline, NewestEventTellsAddress

\* A handler takes the oldest event and leaves the newest one, unless it was the
\* only one.
LEMMA EventHandled ==
  ASSUME NEW S, NEW s \in Seq(S), s # << >>
  PROVE  /\ Tail(s) = << >> => Head(s) = s[Len(s)]
         /\ Tail(s) # << >> => Tail(s)[Len(Tail(s))] = s[Len(s)]
  <1>1. /\ Head(s) = s[1] /\ Len(s) \in Nat \ {0} /\ Len(Tail(s)) = Len(s) - 1
        /\ \A i \in 1 .. Len(s) - 1 : Tail(s)[i] = s[i + 1]
        /\ Tail(s) \in Seq(S)
    BY HeadTail
  <1>2. CASE Len(s) = 1
    <2>1. Tail(s) = << >>
      <3>1. Tail(s) \in Seq(S) /\ Len(Tail(s)) \notin Nat \ {0}
        BY <1>1, <1>2
      <3> QED BY <3>1, EmptySeq, Zenon
    <2> QED BY <1>1, <1>2, <2>1
  <1>3. CASE Len(s) > 1
    <2>1. Len(s) - 1 \in 1 .. Len(s) - 1 /\ (Len(s) - 1) + 1 = Len(s)
      BY <1>1, <1>3
    <2>2. Tail(s)[Len(Tail(s))] = s[Len(s)]
      BY <1>1, <2>1
    <2>3. Tail(s) # << >>
      <3>1. Len(Tail(s)) # 0
        BY <1>1, <1>3
      <3> QED BY <3>1, EmptySequence, Zenon
    <2> QED BY <2>2, <2>3
  <1>4. Len(s) = 1 \/ Len(s) > 1
    BY <1>1
  <1> QED BY <1>2, <1>3, <1>4

\* A new event is the newest.
LEMMA EventPosted ==
  ASSUME NEW S, NEW s \in Seq(S), NEW e \in S
  PROVE  Append(s, e) # << >> /\ Append(s, e)[Len(Append(s, e))] = e
  OBVIOUS

LEMMA NextOnlineInv == OnlineInv /\ [Next]_vars => OnlineInv'
  <1> DEFINE Online == ClientRunsIffOnline /\ NewestEventTellsAddress
  <1> SUFFICES ASSUME OnlineInv, [Next]_vars PROVE OnlineInv'
    OBVIOUS
  <1>1. TypeOK /\ TypeOK'
    BY NextTypeOK DEF OnlineInv
  <1>2. /\ events \in Seq({"DISCONNECTED", "GOT_IP"})
        /\ address \in BOOLEAN
    BY <1>1 DEF TypeOK, TaskTypes, SwitchTypes
  <1> USE DEF OnlineInv, ClientRunsIffOnline, NewestEventTellsAddress
  <1>3. CASE LinkDown
    <2>1. /\ events # << >> /\ Head(events) = "DISCONNECTED" /\ events' = Tail(events)
          /\ pc' = "none" /\ address' = address
      BY <1>3 DEF LinkDown
    <2>2. /\ Tail(events) = << >> => Head(events) = events[Len(events)]
          /\ Tail(events) # << >> => Tail(events)[Len(Tail(events))] = events[Len(events)]
      BY <1>2, <2>1, EventHandled
    <2>3. ClientRunsIffOnline'
      BY <2>1, <2>2
    <2>4. NewestEventTellsAddress'
      BY <2>1, <2>2
    <2> QED BY <1>1, <2>3, <2>4
  <1>4. CASE GotIp
    <2>1. /\ events # << >> /\ Head(events) = "GOT_IP" /\ events' = Tail(events)
          /\ pc' = "socket" /\ address' = address
      BY <1>4 DEF GotIp
    <2>2. /\ Tail(events) = << >> => Head(events) = events[Len(events)]
          /\ Tail(events) # << >> => Tail(events)[Len(Tail(events))] = events[Len(events)]
      BY <1>2, <2>1, EventHandled
    <2>3. ClientRunsIffOnline'
      BY <2>1, <2>2
    <2>4. NewestEventTellsAddress'
      BY <2>1, <2>2
    <2> QED BY <1>1, <2>3, <2>4
  <1>5. CASE CableOut
    <2>1. events' = Append(events, "DISCONNECTED") /\ address' = FALSE
      BY <1>5 DEF CableOut
    <2>2. events' # << >> /\ events'[Len(events')] = "DISCONNECTED"
      BY <1>2, <2>1, EventPosted
    <2> QED BY <1>1, <2>1, <2>2
  <1>6. CASE GetAddress \/ ChangeAddress
    <2>1. events' = Append(events, "GOT_IP") /\ address' = TRUE
      BY <1>6, <1>2 DEF GetAddress, ChangeAddress
    <2>2. events' # << >> /\ events'[Len(events')] = "GOT_IP"
      BY <1>2, <2>1, EventPosted
    <2> QED BY <1>1, <2>1, <2>2
  <1>7. CASE Client
    \* The task neither ends nor starts itself.
    <2>1. pc # "none" /\ pc' # "none" /\ events' = events /\ address' = address
      BY <1>7 DEF Client, Socket, Connect, ConnectFails, TakeCommand, Send, SendFails, Receive,
                  ReceiveNothing, ReceiveEnd, ReceiveFails, Close, Backoff, netVars
    <2> QED BY <1>1, <2>1
  <1>8. CASE \/ Command \/ CableIn \/ ConnectionFails \/ RouterDown \/ RouterUp
             \/ RouterCloses \/ RouterHandles \/ UNCHANGED vars
    <2>1. UNCHANGED << pc, events, address >>
      BY <1>8 DEF Command, CableIn, ConnectionFails, RouterDown, RouterUp, RouterCloses,
                  RouterHandles, vars, taskVars, netVars
    <2> QED BY <1>1, <2>1
  <1> QED BY <1>3, <1>4, <1>5, <1>6, <1>7, <1>8 DEF Next, EventTask

\* When no event is left to handle there is a client task if and only if the desk
\* has an address, however often the cable came out and the address changed, and
\* however late the handlers ran: the newest event not handled yet tells.
THEOREM TaskRunsIffOnline == Spec => []ClientRunsIffOnline
  <1>1. OnlineInv => ClientRunsIffOnline
    BY DEF OnlineInv
  <1> QED BY InitOnlineInv, NextOnlineInv, <1>1, PTL DEF Spec
-----------------------------------------------------------------------------
\* What InOrder says of the numbers does not change.
InOrderVars == << told, heard, to_router, in_hand, ethernet_message_output_queue >>

\* Commands are natural numbers.
LEMMA NumberTypes ==
  ASSUME TypeOK
  PROVE  /\ ethernet_message_output_queue \in Seq(Nat)
         /\ to_router \in Seq(Nat) /\ heard \in Seq(Nat)
         /\ in_hand \in Nat /\ told \in Nat
  <1>1. 1 .. MaxCommands \subseteq Nat /\ 0 .. MaxCommands \subseteq Nat
    BY ClientAssumption
  <1>2. \A s \in Seq(1 .. MaxCommands) : s \in Seq(Nat)
    BY <1>1, SeqMonotonic
  <1> QED BY <1>1, <1>2 DEF TypeOK, TaskTypes

LEMMA InitInOrder == Init => InOrder
  BY DEF Init, InOrder, Commands!Newest, Ascending

\* A command leaves the queue.
LEMMA TakeKeepsOrder == OrderInv /\ TakeCommand => InOrder'
  <1> SUFFICES ASSUME OrderInv, TakeCommand PROVE InOrder'
    OBVIOUS
  <1> DEFINE queue == ethernet_message_output_queue
             newest == Commands!Newest
  <1>1. queue \in Seq(Nat) /\ told \in Nat
    BY NumberTypes DEF OrderInv
  <1>2. /\ UNCHANGED << told, heard, to_router >> /\ newest' = newest
    BY DEF TakeCommand, history, routerVars, Commands!Newest
  <1>3. CASE queue = << >>
    BY <1>2, <1>3 DEF OrderInv, InOrder, TakeCommand, Commands!Newest, Ascending
  <1>4. CASE queue # << >>
    <2>1. queue' = Tail(queue) /\ in_hand' = Head(queue)
      BY <1>4 DEF TakeCommand
    <2>2. newest \in 0 .. told /\ Ascending(queue, newest, told)
      BY DEF OrderInv, InOrder
    <2>3. /\ Head(queue) \in newest + 1 .. told
          /\ Ascending(Tail(queue), Head(queue), told)
      BY <1>1, <1>4, <2>2, AscendingTail
    <2>4. /\ Head(queue) = queue[1] /\ Len(queue) \in Nat \ {0}
          /\ Len(Tail(queue)) = Len(queue) - 1
          /\ \A i \in 1 .. Len(queue) - 1 : Tail(queue)[i] = queue[i + 1]
          /\ Tail(queue) \in Seq(Nat)
      BY <1>1, <1>4, HeadTail
    <2>5. Ascending(Tail(queue), newest, told)
      <3>1. newest \in Nat /\ Head(queue) \in Nat /\ newest <= Head(queue)
        BY <1>1, <2>2, <2>3
      <3>2. told <= told
        BY <1>1
      <3> HIDE DEF queue, newest
      <3> QED BY <1>1, <2>3, <2>4, <3>1, <3>2, AscendingWiden, Zenon
    <2>6. \A k \in 1 .. Len(Tail(queue)) : Head(queue) < Tail(queue)[k]
      BY <2>3, <2>4, <2>2 DEF Ascending
    <2>7. \A i \in 1 .. Len(to_router) :
            /\ to_router[i] < Head(queue)
            /\ \A k \in 1 .. Len(Tail(queue)) : to_router[i] < Tail(queue)[k]
      BY <2>4 DEF OrderInv, InOrder
    <2>8. Ascending(to_router, newest, told)
      BY DEF OrderInv, InOrder
    <2> HIDE DEF queue, newest
    <2> QED BY <1>2, <2>1, <2>2, <2>3, <2>5, <2>6, <2>7, <2>8 DEF InOrder, queue, newest
  <1> QED BY <1>3, <1>4

\* The command in hand goes to the end of what is on its way, or is lost.
LEMMA SendKeepsOrder == OrderInv /\ Send => InOrder'
  <1> SUFFICES ASSUME OrderInv, Send PROVE InOrder'
    OBVIOUS
  <1> DEFINE queue == ethernet_message_output_queue
             newest == Commands!Newest
  <1>1. /\ to_router \in Seq(Nat) /\ queue \in Seq(Nat) /\ told \in Nat
        /\ in_hand \in Nat /\ in_hand # 0
    BY NumberTypes DEF OrderInv, TypeOK, TaskTypes, Send
  <1>2. /\ UNCHANGED << told, heard, queue >> /\ newest' = newest /\ in_hand' = 0
    BY DEF Send, history, Commands!Newest
  <1>3. /\ newest \in 0 .. told /\ in_hand \in newest + 1 .. told
        /\ Ascending(to_router, newest, told)
        /\ Ascending(queue, newest, told)
        /\ \A i \in 1 .. Len(to_router) : to_router[i] < in_hand
        /\ \A k \in 1 .. Len(queue) : in_hand < queue[k]
        /\ \A i \in 1 .. Len(to_router), k \in 1 .. Len(queue) : to_router[i] < queue[k]
    BY <1>1 DEF OrderInv, InOrder
  <1>4. \A k \in 1 .. Len(queue) : 0 < queue[k]
    BY <1>1, <1>3 DEF Ascending
  <1>5. CASE to_router' = to_router
    BY <1>2, <1>3, <1>4, <1>5 DEF InOrder, Commands!Newest, Ascending
  <1>6. CASE to_router' = Append(to_router, in_hand)
    <2>1. Ascending(to_router', newest, told)
      BY <1>1, <1>3, <1>6, AscendingAppend
    <2>2. /\ Len(to_router') = Len(to_router) + 1
          /\ \A i \in 1 .. Len(to_router') :
               \/ to_router'[i] = in_hand
               \/ i \in 1 .. Len(to_router) /\ to_router'[i] = to_router[i]
      BY <1>1, <1>6
    <2>3. \A i \in 1 .. Len(to_router'), k \in 1 .. Len(queue) : to_router'[i] < queue[k]
      BY <1>3, <2>2
    <2> HIDE DEF queue, newest
    <2> QED BY <1>2, <1>3, <1>4, <2>1, <2>3 DEF InOrder, queue, newest
  <1> QED BY <1>5, <1>6 DEF Send

\* A new command has a higher number than all before it.
LEMMA CommandKeepsOrder == OrderInv /\ Command => InOrder'
  <1> SUFFICES ASSUME OrderInv, Command PROVE InOrder'
    OBVIOUS
  <1> DEFINE queue == ethernet_message_output_queue
             newest == Commands!Newest
  <1>1. /\ to_router \in Seq(Nat) /\ queue \in Seq(Nat) /\ told \in Nat /\ in_hand \in Nat
    BY NumberTypes DEF OrderInv
  <1>2. /\ UNCHANGED << heard, to_router, in_hand >> /\ newest' = newest /\ told' = told + 1
    BY DEF Command, taskVars, routerVars, Commands!Newest
  <1>3. queue' = queue \/ queue' = Append(queue, told')
    BY DEF Command, xQueueSend
  <1>4. /\ newest \in 0 .. told
        /\ Ascending(to_router, newest, told)
        /\ Ascending(queue, newest, told)
        /\ in_hand # 0 => in_hand \in newest + 1 .. told
        /\ in_hand # 0 => \A i \in 1 .. Len(to_router) : to_router[i] < in_hand
        /\ \A k \in 1 .. Len(queue) : in_hand < queue[k]
        /\ \A i \in 1 .. Len(to_router), k \in 1 .. Len(queue) : to_router[i] < queue[k]
    BY DEF OrderInv, InOrder
  <1>5. Ascending(to_router, newest, told') /\ Ascending(queue, newest, told')
    BY <1>1, <1>2, <1>4, AscendingWiden
  <1>6. /\ \A i \in 1 .. Len(to_router) : to_router[i] < told'
        /\ \A k \in 1 .. Len(queue) : queue[k] < told'
        /\ in_hand < told' /\ told' \in newest + 1 .. told'
    BY <1>1, <1>2, <1>4 DEF Ascending
  <1>7. newest \in 0 .. told' /\ (in_hand # 0 => in_hand \in newest + 1 .. told')
    BY <1>1, <1>2, <1>4
  <1>8. /\ Ascending(queue', newest, told')
        /\ \A k \in 1 .. Len(queue') : in_hand < queue'[k]
        /\ \A i \in 1 .. Len(to_router), k \in 1 .. Len(queue') : to_router[i] < queue'[k]
    <2>1. CASE queue' = queue
      BY <1>4, <1>5, <2>1
    <2>2. CASE queue' = Append(queue, told')
      <3>1. Ascending(queue', newest, told')
        <4>1. queue \in Seq(Nat) /\ newest \in Nat /\ told' \in Nat
          BY <1>1, <1>2, <1>4
        <4>2. Ascending(Append(queue, told'), newest, told')
          BY <1>5, <1>6, <4>1, AscendingAppend, Zenon
        <4> QED BY <2>2, <4>2
      <3>2. /\ Len(queue') = Len(queue) + 1
            /\ \A k \in 1 .. Len(queue') :
                 queue'[k] = told' \/ (k \in 1 .. Len(queue) /\ queue'[k] = queue[k])
        BY <1>1, <2>2
      <3>3. /\ \A k \in 1 .. Len(queue') : in_hand < queue'[k]
            /\ \A i \in 1 .. Len(to_router), k \in 1 .. Len(queue') : to_router[i] < queue'[k]
        BY <1>4, <1>6, <3>2
      <3> QED BY <3>1, <3>3
    <2> QED BY <1>3, <2>1, <2>2
  <1> HIDE DEF queue, newest
  <1> QED BY <1>2, <1>4, <1>5, <1>7, <1>8 DEF InOrder, queue, newest

\* The oldest command on its way is handled, and is newer than all handled before.
LEMMA HandleKeepsOrder ==
  OrderInv /\ RouterHandles => InOrder' /\ Commands!Hear
  <1> SUFFICES ASSUME OrderInv, RouterHandles PROVE InOrder' /\ Commands!Hear
    OBVIOUS
  <1> DEFINE queue == ethernet_message_output_queue
             newest == Commands!Newest
             handled == Head(to_router)
  <1>1. /\ to_router \in Seq(Nat) /\ queue \in Seq(Nat) /\ told \in Nat /\ in_hand \in Nat
        /\ heard \in Seq(Nat) /\ to_router # << >>
    BY NumberTypes DEF OrderInv, RouterHandles
  <1>2. /\ UNCHANGED << queue, in_hand, told >>
        /\ to_router' = Tail(to_router) /\ heard' = Append(heard, handled)
    BY DEF RouterHandles, taskVars
  <1>3. /\ newest \in 0 .. told
        /\ Ascending(to_router, newest, told)
        /\ Ascending(queue, newest, told)
        /\ in_hand # 0 => in_hand \in newest + 1 .. told
        /\ in_hand # 0 => \A i \in 1 .. Len(to_router) : to_router[i] < in_hand
        /\ \A k \in 1 .. Len(queue) : in_hand < queue[k]
        /\ \A i \in 1 .. Len(to_router), k \in 1 .. Len(queue) : to_router[i] < queue[k]
    BY DEF OrderInv, InOrder
  <1>4. handled \in newest + 1 .. told /\ Ascending(Tail(to_router), handled, told)
    BY <1>1, <1>3, AscendingTail
  <1>5. /\ handled = to_router[1] /\ Len(to_router) \in Nat \ {0} /\ handled \in Nat
        /\ Len(Tail(to_router)) = Len(to_router) - 1
        /\ \A i \in 1 .. Len(to_router) - 1 : Tail(to_router)[i] = to_router[i + 1]
    BY <1>1, HeadTail
  <1>6. newest' = handled
    <2>1. heard' # << >> /\ heard'[Len(heard')] = handled
      BY <1>1, <1>2, <1>5, EventPosted
    <2> QED BY <2>1 DEF Commands!Newest
  <1>7. /\ in_hand # 0 => handled < in_hand
        /\ \A k \in 1 .. Len(queue) : handled < queue[k]
    BY <1>3, <1>5
  <1>8. Ascending(queue, handled, told)
    BY <1>1, <1>3, <1>5, <1>7 DEF Ascending
  <1>9. \A i \in 1 .. Len(Tail(to_router)) :
          /\ in_hand # 0 => Tail(to_router)[i] < in_hand
          /\ \A k \in 1 .. Len(queue) : Tail(to_router)[i] < queue[k]
    BY <1>3, <1>5
  <1>10. handled \in 0 .. told /\ (in_hand # 0 => in_hand \in handled + 1 .. told)
    BY <1>1, <1>3, <1>4, <1>5, <1>7
  <1>11. Commands!Hear
    BY <1>2, <1>4 DEF Commands!Hear
  <1>12. InOrder'
    <2> HIDE DEF queue, newest, handled
    <2> QED BY <1>2, <1>3, <1>4, <1>6, <1>7, <1>8, <1>9, <1>10 DEF InOrder, queue, newest
  <1> QED BY <1>11, <1>12

\* What is lost leaves the rest in order: the command in hand, all that is on
\* its way, or both.
LEMMA LossKeepsOrder ==
  ASSUME OrderInv, UNCHANGED << told, heard, ethernet_message_output_queue >>,
         in_hand' \in {in_hand, 0}, to_router' \in {to_router, << >>}
  PROVE  InOrder'
  <1> DEFINE queue == ethernet_message_output_queue
  <1>1. queue \in Seq(Nat) /\ told \in Nat /\ in_hand \in Nat
    BY NumberTypes DEF OrderInv
  <1>2. Commands!Newest' = Commands!Newest
    BY DEF Commands!Newest
  <1>3. \A k \in 1 .. Len(queue) : 0 < queue[k]
    BY <1>1 DEF OrderInv, InOrder, Ascending
  <1>4. CASE to_router' = to_router
    BY <1>1, <1>2, <1>3, <1>4 DEF OrderInv, InOrder
  <1>5. CASE to_router' = << >>
    <2>1. Ascending(<< >>, Commands!Newest, told)
      BY DEF Ascending
    <2> QED BY <1>1, <1>2, <1>3, <1>5, <2>1 DEF OrderInv, InOrder
  <1> QED BY <1>4, <1>5

\* Every other action only loses commands, or leaves them alone.
LEMMA OtherStepsLose ==
  ASSUME TypeOK, [Next]_vars, ~TakeCommand, ~Send, ~Command, ~RouterHandles
  PROVE  /\ UNCHANGED << told, heard, ethernet_message_output_queue >>
         /\ in_hand' \in {in_hand, 0} /\ to_router' \in {to_router, << >>}
  <1> USE DEF history, routerVars, taskVars, vars
  <1>1. CASE Client
    BY <1>1 DEF Client, Socket, Connect, ConnectFails, SendFails, Receive, ReceiveNothing,
                ReceiveEnd, ReceiveFails, Close, Backoff
  <1>2. CASE EventTask
    BY <1>2 DEF EventTask, LinkDown, GotIp, TaskDelete
  <1>3. CASE \/ CableOut \/ CableIn \/ GetAddress \/ ChangeAddress \/ ConnectionFails
             \/ RouterDown \/ RouterUp \/ RouterCloses \/ UNCHANGED vars
    BY <1>3 DEF CableOut, CableIn, GetAddress, ChangeAddress, ConnectionFails, RouterDown,
                RouterUp, RouterCloses, ConnectionBecomes
  <1> QED BY <1>1, <1>2, <1>3 DEF Next

LEMMA NextOrderInv == OrderInv /\ [Next]_vars => OrderInv'
  <1> SUFFICES ASSUME OrderInv, [Next]_vars PROVE InOrder'
    BY NextTypeOK DEF OrderInv
  <1>1. CASE TakeCommand
    BY <1>1, TakeKeepsOrder
  <1>2. CASE Send
    BY <1>2, SendKeepsOrder
  <1>3. CASE Command
    BY <1>3, CommandKeepsOrder
  <1>4. CASE RouterHandles
    BY <1>4, HandleKeepsOrder
  <1>5. CASE ~TakeCommand /\ ~Send /\ ~Command /\ ~RouterHandles
    <2>1. TypeOK
      BY DEF OrderInv
    <2> QED BY <1>5, <2>1, OtherStepsLose, LossKeepsOrder
  <1> QED BY <1>1, <1>2, <1>3, <1>4, <1>5

\* Commands reach the router in the order they were given and at most once, over
\* any number of connections, full queues, failed sends and deleted tasks: the
\* send path implements LossyLine.
THEOREM SendPathImplementsLossyLine == Spec => CommandsInOrder
  <1>1. Init => OrderInv
    BY InitTypeOK, InitInOrder DEF OrderInv
  <1>2. Init => Commands!Init
    BY DEF Init, Commands!Init
  <1>3. OrderInv /\ [Next]_vars => [Commands!Next]_<< told, heard >>
    <2> SUFFICES ASSUME OrderInv, [Next]_vars
                 PROVE  Commands!Next \/ UNCHANGED << told, heard >>
      OBVIOUS
    <2>1. TypeOK /\ told \in Nat
      BY DEF OrderInv, TypeOK, TaskTypes
    <2>2. CASE Command
      BY <2>1, <2>2 DEF Command, Commands!Next, Commands!Tell
    <2>3. CASE RouterHandles
      BY <2>3, HandleKeepsOrder DEF Commands!Next
    <2>4. CASE TakeCommand \/ Send
      BY <2>4 DEF TakeCommand, Send, history
    <2>5. CASE ~TakeCommand /\ ~Send /\ ~Command /\ ~RouterHandles
      BY <2>1, <2>5, OtherStepsLose
    <2> QED BY <2>2, <2>3, <2>4, <2>5
  <1> QED
    BY <1>1, <1>2, <1>3, NextOrderInv, PTL DEF Spec, CommandsInOrder, Commands!Spec
=============================================================================
