----------------------------- MODULE TcpStream -----------------------------
(***************************************************************************)
(* The receive path of ethernet.c.  tcp_client_loop receives what TCP has  *)
(* of the router's text, keeps a started line back for the next time,      *)
(* and queues the whole lines as a block; tcp_recv_task takes the blocks   *)
(* apart and posts a message for every route confirmation.                 *)
(*                                                                         *)
(* The text is a sequence of pieces, none of which is cut: enough to cut   *)
(* a line anywhere that matters.  Connections begin with the router's      *)
(* greeting and end by the router's close, by an error, or by the deletion *)
(* of the client task.  Confirmations are numbered as the router tells     *)
(* them.  incoming_msg is taken to hold any block tcp_client_loop queues.  *)
(***************************************************************************)
EXTENDS Naturals, SequencesExt, FreeRTOSQueue

CONSTANTS
  RxMax,          \* pieces a recv takes at most (1023 bytes)
  BlockQueueLen,  \* ETH_TCP_TEXT_RECV_QUEUE_NUM (16)
  InputQueueLen,  \* slots of input_event_queue (32)
  NOutputs,       \* router outputs, each with a line in the greeting (40)
  MaxTold,        \* bound: confirmations the router tells
  MaxCuts,        \* bound: recvs that find part of the text only
  MaxEnds         \* bound: connections that end

ASSUME StreamAssumption ==
  /\ RxMax \in Nat \ {0} /\ BlockQueueLen \in Nat \ {0} /\ InputQueueLen \in Nat \ {0}
  /\ NOutputs \in Nat /\ MaxTold \in Nat /\ MaxCuts \in Nat /\ MaxEnds \in Nat

VARIABLES
  conn,                \* the socket: "closed" | "open" | "fin" | "error"
  wire,                \* text the router has sent that recv has not taken
  partial_line_buffer,
  ethernet_message_input_queue,
  state,               \* of tcp_recv_task
  parsing, text,       \* tcp_recv_task is in a block; what is left of it
  input_event_queue,   \* numbers of the confirmations posted
  cuts, ends,          \* bound counters
  told, heard,         \* history: confirmations told by the router, and those
                       \* of them that were posted
  invented,            \* history: something else was posted
  base,                \* history: confirmations told before this connection
  last_piece,          \* history: newest piece received on this connection
  cut, dropped,        \* history: on this connection a block ended inside an
                       \* update or lost text; a full queue dropped something
  torn, panicked       \* history: right behind the title of an update text was
                       \* lost or the connection ended; a null pointer was read

clientVars == << conn, wire, partial_line_buffer >>
parserVars == << state, parsing, text, input_event_queue >>
history == << told, heard, invented, base, last_piece, cut, dropped, torn, panicked >>
bounds == << cuts, ends >>
vars == << clientVars, ethernet_message_input_queue, parserVars, bounds, history >>
-----------------------------------------------------------------------------
(* The router's text.                                                      *)

NewLine   == << "\n", 0 >>
Title     == << "VIDEO OUTPUT ROUTING", 0 >>
Colon     == << ":", 0 >>
Word      == << "word", 0 >>
NextWord  == << " word", 0 >>
Space     == << " ", 0 >>
Output(n) == << "output", n >>
Input(n)  == << " input", n >>

\* A section the desk has no use for.
Other == << Word, NextWord, NewLine, NewLine >>

Ack == << Word, NewLine, NewLine >>

\* The update that tells confirmations first .. last: a title, a line each, and
\* a blank line.
Update(first, last) ==
  << Title, Colon, NewLine >>
    \o FlattenSeq([i \in 1 .. (last + 1 - first) |->
                     << Output(first + i - 1), Input(first + i - 1), NewLine >>])
    \o << NewLine >>

\* The first byte of a piece.
FirstByte(piece) ==
  CASE piece \in {Title, Word} -> Word
    [] piece[1] \in {" word", " input"} -> Space
    [] OTHER -> piece

Pieces == {NewLine, Title, Colon, Word, NextWord, Space}
            \cup {Output(n) : n \in 1 .. MaxTold} \cup {Input(n) : n \in 1 .. MaxTold}
-----------------------------------------------------------------------------
(* tcp_client_loop.                                                        *)

\* connect: the router greets with its state.
Connect ==
  /\ conn = "closed"
  /\ told + NOutputs <= MaxTold
  /\ conn' = "open"
  /\ wire' = Other \o Update(told + 1, told + NOutputs)
  /\ told' = told + NOutputs
  /\ base' = told
  /\ last_piece' = NewLine
  /\ cut' = FALSE /\ dropped' = FALSE
  /\ UNCHANGED << partial_line_buffer, ethernet_message_input_queue, parserVars, bounds,
                  heard, invented, torn, panicked >>

IsNewLine(piece) == piece = NewLine

\* Where the last newline of the bytes received is.  The code starts from index
\* 0 and looks no further: a newline in the first place counts as none.
LastNewLine(rx) == SelectLastInSeq(rx, IsNewLine)
HasLine(rx) == LastNewLine(rx) > 1

\* Mutant: a single byte behind the newline is not kept.
RemainderOffByOne(rx) ==
  IF HasLine(rx) /\ Len(rx) - LastNewLine(rx) > 1
  THEN SubSeq(rx, LastNewLine(rx) + 1, Len(rx)) ELSE << >>

\* What is kept for the next block: the line begun behind the last newline.
Remainder(rx) ==
  IF HasLine(rx) THEN SubSeq(rx, LastNewLine(rx) + 1, Len(rx)) ELSE << >>

\* What goes into this block: all up to the last newline, or one byte.
Lines(rx) ==
  IF HasLine(rx) THEN SubSeq(rx, 1, LastNewLine(rx))
  ELSE IF rx = << >> THEN << >> ELSE << FirstByte(rx[1]) >>

\* Mutant: the new block goes to the front.
SendBlockToFront(block) ==
  ethernet_message_input_queue' =
    IF QueueFull(ethernet_message_input_queue, BlockQueueLen)
    THEN ethernet_message_input_queue
    ELSE << block >> \o ethernet_message_input_queue

\* xQueueSend of next_message_buffer, which gives up after a tick.
SendBlock(block) ==
  ethernet_message_input_queue' =
    xQueueSend(ethernet_message_input_queue, block, BlockQueueLen)

\* What recv returned, none of it or some, is put behind the line kept back.
Reassemble(rx) ==
  /\ SendBlock(partial_line_buffer \o Lines(rx))
  /\ partial_line_buffer' = Remainder(rx)
  /\ dropped' = (dropped \/ QueueFull(ethernet_message_input_queue, BlockQueueLen))

\* The block loses text or ends with a line of an update, not with a blank one.
CutsUpdate(rx) ==
  \/ ~HasLine(rx)
  \/ rx[LastNewLine(rx) - 1] = Colon
  \/ rx[LastNewLine(rx) - 1][1] = " input"

\* What recv takes if all the router has sent is there.
RxAvailable == Min({RxMax, Len(wire)})

Receive ==
  /\ conn # "closed" /\ wire # << >>
  /\ \E n \in 1 .. RxAvailable :
       /\ cuts' = IF n < RxAvailable THEN cuts + 1 ELSE cuts
       /\ cuts' <= MaxCuts
       /\ LET rx == SubSeq(wire, 1, n)
          IN  /\ Reassemble(rx)
              /\ cut' = (cut \/ CutsUpdate(rx))
              /\ last_piece' = rx[n]
       /\ wire' = SubSeq(wire, n + 1, Len(wire))
  /\ torn' = \/ torn
              \/ /\ last_piece = Colon
                 /\ QueueFull(ethernet_message_input_queue, BlockQueueLen)
  /\ UNCHANGED << conn, parserVars, ends, told, heard, invented, base, panicked >>

\* recv returns 0 for the router's close; that counts as text received.  The
\* next recv returns an error.
ReceiveEnd ==
  /\ conn = "fin" /\ wire = << >>
  /\ Reassemble(<< >>)
  /\ conn' = "error"
  /\ torn' = (torn \/ last_piece = Colon)
  /\ UNCHANGED << wire, parserVars, bounds, told, heard, invented, base, last_piece, cut,
                  panicked >>

\* recv or send fails and the socket is closed, received text or not.  The line
\* kept back stays.
CloseSocket ==
  /\ conn = "error"
  /\ conn' = "closed"
  /\ wire' = << >>
  /\ torn' = (torn \/ last_piece = Colon)
  /\ UNCHANGED << partial_line_buffer, ethernet_message_input_queue, parserVars, bounds,
                  told, heard, invented, base, last_piece, cut, dropped, panicked >>

\* The event handlers delete the task and start another.
TaskRestart ==
  /\ conn # "closed" /\ ends < MaxEnds
  /\ ends' = ends + 1
  /\ conn' = "closed"
  /\ wire' = << >>
  /\ partial_line_buffer' = << >>
  /\ torn' = (torn \/ last_piece = Colon)
  /\ UNCHANGED << cuts, ethernet_message_input_queue, parserVars, told, heard, invented, base,
                  last_piece, cut, dropped, panicked >>
-----------------------------------------------------------------------------
(* tcp_recv_task.                                                          *)

TakeBlock ==
  /\ ~parsing /\ ethernet_message_input_queue # << >>
  /\ parsing' = TRUE
  /\ text' = Head(ethernet_message_input_queue)
  /\ ethernet_message_input_queue' = Tail(ethernet_message_input_queue)
  /\ UNCHANGED << clientVars, state, input_event_queue, bounds, history >>

\* The line at the head of the text.  A newline ends a line and begins another:
\* behind the last newline of a block is one more line, an empty one.
FirstNewLine == SelectInSeq(text, IsNewLine)
Line == IF FirstNewLine = 0 THEN text ELSE SubSeq(text, 1, FirstNewLine - 1)

NextLine ==
  /\ parsing' = (FirstNewLine # 0)
  /\ text' = IF FirstNewLine = 0 THEN << >> ELSE SubSeq(text, FirstNewLine + 1, Len(text))

\* strncmp: the title is at the beginning of the line.
IsTitle(line) == Len(line) >= 2 /\ line[1] = Title /\ line[2] = Colon

\* strtok finds a second word: the title has some, and every word and number
\* that comes behind a space is one.
HasSecondWord(line) ==
  \E i \in DOMAIN line :
    line[i] = Title \/ (i > 1 /\ line[i][1] \in {" word", " input"})

\* The confirmation a line stands for; 0 is what atoi makes of anything else.
Confirmed(line) ==
  IF \E n \in 1 .. MaxTold : line = << Output(n), Input(n) >> THEN line[1][2] ELSE 0

\* Mutant: any title starts an update.
StateAfterAnyTitle(line) ==
  CASE state = "UNKNOWN" /\ line = << >> -> "WAIT"
    [] state = "WAIT" /\ line # << >> -> "IN_UPDATE"
    [] state = "IN_UPDATE" /\ line = << >> -> "WAIT"
    [] OTHER -> state

StateAfter(line) ==
  CASE state = "UNKNOWN" /\ line = << >> -> "WAIT"
    [] state = "WAIT" /\ IsTitle(line) -> "IN_UPDATE"
    [] state = "IN_UPDATE" /\ line = << >> -> "WAIT"
    [] OTHER -> state

\* A line that only moves the state machine, or not even that.
SkipLine ==
  /\ parsing
  /\ state = "IN_UPDATE" => Line = << >>
  /\ state' = StateAfter(Line)
  /\ NextLine
  /\ UNCHANGED << clientVars, ethernet_message_input_queue, input_event_queue, bounds, history >>

\* A line of an update is posted as a confirmation, whatever it says.
PostLine ==
  /\ parsing /\ state = "IN_UPDATE" /\ Line # << >> /\ HasSecondWord(Line)
  /\ input_event_queue' = xQueueSend(input_event_queue, Confirmed(Line), InputQueueLen)
  /\ LET posted == ~QueueFull(input_event_queue, InputQueueLen)
         n == Confirmed(Line)
     IN  /\ heard' = IF posted /\ n # 0 THEN Append(heard, n) ELSE heard
         /\ invented' = (invented \/ (posted /\ n = 0))
         /\ dropped' = (dropped \/ ~posted)
  /\ NextLine
  /\ UNCHANGED << clientVars, ethernet_message_input_queue, state, bounds, told, base,
                  last_piece, cut, torn, panicked >>

\* Without a second word atoi reads a null pointer: the controller restarts.
Panic ==
  /\ parsing /\ state = "IN_UPDATE" /\ Line # << >> /\ ~HasSecondWord(Line)
  /\ panicked' = TRUE
  /\ conn' = "closed" /\ wire' = << >> /\ partial_line_buffer' = << >>
  /\ ethernet_message_input_queue' = << >>
  /\ state' = "UNKNOWN" /\ parsing' = FALSE /\ text' = << >>
  /\ input_event_queue' = << >>
  /\ UNCHANGED << bounds, told, heard, invented, base, last_piece, cut, dropped, torn >>

\* input_logic_task takes a message.
LogicTakes ==
  /\ input_event_queue # << >>
  /\ input_event_queue' = Tail(input_event_queue)
  /\ UNCHANGED << clientVars, ethernet_message_input_queue, state, parsing, text, bounds,
                  history >>
-----------------------------------------------------------------------------
(* The router.                                                             *)

\* A route has changed: by the desk's command, which is acknowledged first, or
\* by another panel's.
RouterTells ==
  /\ conn = "open" /\ told < MaxTold
  /\ told' = told + 1
  /\ \E first \in {<< >>, Ack} : wire' = wire \o first \o Update(told', told')
  /\ UNCHANGED << conn, partial_line_buffer, ethernet_message_input_queue, parserVars, bounds,
                  heard, invented, base, last_piece, cut, dropped, torn, panicked >>

\* The router closes the connection, all it has sent still arriving.
RouterCloses ==
  /\ conn = "open" /\ ends < MaxEnds
  /\ ends' = ends + 1
  /\ conn' = "fin"
  /\ UNCHANGED << cuts, wire, partial_line_buffer, ethernet_message_input_queue, parserVars,
                  history >>

\* The connection breaks: what has not arrived when the socket is closed is lost.
ConnectionBreaks ==
  /\ conn = "open" /\ ends < MaxEnds
  /\ ends' = ends + 1
  /\ conn' = "error"
  /\ UNCHANGED << cuts, wire, partial_line_buffer, ethernet_message_input_queue, parserVars,
                  history >>
-----------------------------------------------------------------------------
Init ==
  /\ conn = "closed"
  /\ wire = << >> /\ partial_line_buffer = << >>
  /\ ethernet_message_input_queue = << >>
  /\ state = "UNKNOWN" /\ parsing = FALSE /\ text = << >>
  /\ input_event_queue = << >>
  /\ cuts = 0 /\ ends = 0
  /\ told = 0 /\ heard = << >> /\ invented = FALSE /\ base = 0
  /\ last_piece = NewLine
  /\ cut = FALSE /\ dropped = FALSE /\ torn = FALSE /\ panicked = FALSE

Client == Receive \/ ReceiveEnd \/ CloseSocket
Parser == TakeBlock \/ SkipLine \/ PostLine \/ Panic

Next ==
  \/ Client
  \/ Parser
  \/ LogicTakes
  \/ Connect
  \/ TaskRestart
  \/ RouterTells
  \/ RouterCloses
  \/ ConnectionBreaks

Spec == Init /\ [][Next]_vars
-----------------------------------------------------------------------------
TypeOK ==
  /\ conn \in {"closed", "open", "fin", "error"}
  /\ conn = "closed" => wire = << >>
  /\ wire \in Seq(Pieces) /\ partial_line_buffer \in Seq(Pieces)
  /\ ethernet_message_input_queue \in Seq(Seq(Pieces))
  /\ Len(ethernet_message_input_queue) <= BlockQueueLen
  /\ state \in {"UNKNOWN", "WAIT", "IN_UPDATE"}
  /\ parsing \in BOOLEAN /\ text \in Seq(Pieces)
  /\ input_event_queue \in Seq(0 .. MaxTold) /\ Len(input_event_queue) <= InputQueueLen
  /\ cuts \in 0 .. MaxCuts /\ ends \in 0 .. MaxEnds
  /\ told \in 0 .. MaxTold /\ heard \in Seq(1 .. MaxTold) /\ base \in 0 .. told
  /\ last_piece \in Pieces
  /\ cut \in BOOLEAN /\ dropped \in BOOLEAN /\ torn \in BOOLEAN
  /\ panicked \in BOOLEAN /\ invented \in BOOLEAN

\* tcp_recv_task posts nothing the router did not say and reads no null pointer,
\* however the text is cut, as long as no connection ends, and no queue is full,
\* when the title of an update is received and the newline behind it is not.
NoInvention == panicked \/ invented => torn

\* The confirmations posted are the router's, in its order and each once, over
\* any number of connections: the receive path implements LossyLine.
Confirmations == INSTANCE LossyLine

InOrder == Confirmations!Spec

\* All that has arrived on the connection has been looked at.
Settled ==
  /\ conn = "open" /\ wire = << >>
  /\ ethernet_message_input_queue = << >> /\ ~parsing

\* Reassembly and parser lose nothing by themselves: when all text has been
\* looked at, every confirmation of this connection has been posted, if each
\* block received ended behind a blank line or outside updates, wherever in a
\* line it was cut, and no queue was full.
UpdatesComplete ==
  Settled /\ ~cut /\ ~dropped => base + 1 .. told \subseteq ToSet(heard)

\* The same wherever TCP cuts: tcp_recv_task "takes incoming TCP message
\* fragments from router and sticks them together" (ethernet.c).
UpdatesCompleteAnyway ==
  Settled /\ ~dropped => base + 1 .. told \subseteq ToSet(heard)
=============================================================================
