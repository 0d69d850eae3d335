# A TLA+ model of the SM desk video controller

The firmware in `src/src/main` runs on an ESP32 inside the stage manager's desk.
It reads four button panels, one main/IR button and the contact of a relay from
I2C expanders, sends route commands to a Blackmagic Videohub over TCP, takes the
router's confirmations as the truth about what is on every screen, and drives
LEDs, two USB enables, warning lights and the relay of the IR floodlights.

This directory holds a TLA+ model of it, TLC runs that check the model on small
instances, and theorems that TLAPS has checked for every instance. Every module
is written from the C code; `PROJECT.json` names the lines each definition
stands for.

## 1. Inventory

### Tasks and shared state

| Task | Code | Reads | Writes |
| --- | --- | --- | --- |
| `input_logic_task` | main.c 41-230 | `input_event_queue` | `ethernet_message_output_queue`, output buffer, its own caches |
| `input_poll_task` | local_io.c 235-276 | expanders, supply pin, output buffer | expanders, input buffers, both queues |
| `ir_relay_set_task` (one per call) | local_io.c 408-426 | input buffer | output buffer (relay coil) |
| `tcp_client_loop` | ethernet.c 100-295 | `ethernet_message_output_queue`, socket | socket, `ethernet_message_input_queue`, warning light |
| `tcp_recv_task` | ethernet.c 299-391 | `ethernet_message_input_queue` | `input_event_queue` |
| ESP-IDF event task | ethernet.c 60-96, 395-414 | link and IP events | creates and deletes `tcp_client_loop`, warning light |

All tasks have the same priority and the chip has two cores, so any two of them
interleave at any point. They meet in three FreeRTOS queues (every `xQueueSend`
waits 0 or 1 ticks and drops the new item when the queue is full), in the two
buffers of local_io.c, each behind a mutex that is waited for 10 ticks, and in
the globals of main.c, which only `input_logic_task` touches.

### Components

**Input logic** (`main.c`). State: `relay_ir_state`, the two caches per panel
(`cache_panel_relay_states`, `cache_panel_routing`), the USB states. Operations:
a routing press, the main/IR toggle (a loop over panels and a loop over
destinations that sleeps after each command), a route confirmation (caches, LED,
USB enables). It is correct if LEDs and USB lines tell the truth about what is on
the screens, if a panel shows what was last asked for it, and if everything that
shows the show relay follows the IR button. Hard: confirmations come late, get
lost, and come from other control panels too; the toggle is interrupted.

**TCP client** (`tcp_client_loop` and the event handlers of `ethernet.c`). State:
socket, command in hand, task handle, warning light. Correct if commands reach
the router at most once and in order, the client comes back after any failure,
there is one task exactly while there is an address, and the light tells whether
there is a connection. Hard: the task is deleted by event handlers in the middle
of anything, a send fails after the command has left the queue, `recv` returns 0.

**Receive path** (reassembly in `tcp_client_loop`, `tcp_recv_task`). State: the line
kept back, the queue of blocks, the parser's state. Correct if every confirmation
the router tells yields one message, in order, and nothing else does. Hard: TCP
cuts the text anywhere, connections end in the middle of a line, the parser's
state outlives them.

**Button inputs** (`refresh_inputs`, `button_debounce`). State: raw inputs,
counters and debounced state of five lines. Correct if every press is reported
once, on release, and noise never. Hard: two register reads that can fail or
straddle a change, a `uint8_t` counter that wraps while a button is held.

**Outputs** (`buffer_single_write`, `refresh_outputs`, supply handling). State:
output buffer, changed flag, mutex, `board_live_i2c_setup`, the expanders. Correct
if the expanders follow the buffer. Hard: many writers, I2C errors that are only
logged, a supply that comes and goes, a writer deleted inside the mutex.

**IR floodlight relay** (`set_ir_relay_state`, `ir_relay_set_task`). A bistable
relay turned over by pulses, watched through a contact. Correct if the
floodlights end up where the last press wanted them. Hard: overlapping tasks
share the coil; contact and coil travel through polled buffers.

**Configuration file** (`read_config_file`, `get_settings`). State: the settings.
Correct if the file's lines, and the fallback for what it does not say, are the
settings. Hard: numberings from 0 and from 1, values cut to a byte, lists of any
length, lines without a value.

**Boot** (`app_main`). Creates queues, mutexes and tasks in an order that must fit
their use, waits for buttons to be held, and starts the logic task or the LED test
mode. Hard: two clocks (ticks and milliseconds), a poll task already running.

**LED test mode**, **SD card and Ethernet driver glue**: no logic of their own.

`PROJECT.json` lists the hazards of each at the line where they bite.

## 2. Modules

| Module | Models | How state and actions correspond |
| --- | --- | --- |
| `FreeRTOSQueue` | a full queue drops the new item | `xQueueSend` with no wait |
| `InputLogic` | `input_logic_task` and its two queues | one variable per global; `ProcessRouting`, `ProcessToggle` + `TogglePanel` + `ToggleDest` (the loops, one round a step), `ProcessOtherConfirm`, `ProcessScreenConfirm` are the `case`s; the environment posts any message and takes commands |
| `DeskSystem` | `InputLogic` with link, router, other control panels, link failures, restarts | extends `InputLogic`; the queues' other ends become `Press`, `SupplyOn`, `TcpSend`, `TcpRecv`; the router is external |
| `LossyLine` | what the desk asks of its connection, either way | abstract: numbered messages, any of them lost, the rest in order, once |
| `TcpClient` | `tcp_client_loop`, `ethernet_event_handler`, `got_ip_event_handler` | `pc` is where the loop is between two calls of lwIP, `sock` what the socket is; one action for every outcome of `socket`, `connect`, `send` and `recv`, one for each handler; cable, DHCP and router are external |
| `TcpStream` | reassembly (ethernet.c 217-279) and `tcp_recv_task` | text as a sequence of pieces; `Receive` is one `recv` of any length with all that follows it, `TakeBlock`, `SkipLine`, `PostLine`, `Panic` are the parser, a line a step |
| `LocalInputs` | `refresh_inputs`, `button_debounce` | two register reads, then one `Debounce` step a line; people touch buttons between any two steps |
| `PressDetector` | what debouncing promises, without counters | abstract: a window of samples a line and what the newest reported |
| `OutputRefresh` | `buffer_single_write`, `refresh_outputs`, expander setup, the output mutex | writers and poll task as program counters, one step per access to shared state |
| `IrRelay` | `set_ir_relay_state`, `ir_relay_set_task`, relay, contact, time | a record of each task, `Tick` for time, `Poll` for a round of the poll task; `ClientDeleted` orphans the output mutex, after which no coil write and no refresh gets through (`CoilWritten`) |
| `ConfigFile` | what a line of `config.txt` does to the settings, and what it means | operators only: `SettingsAfter` is the body of the loop, `Meaning` the reference |
| `Boot` | `app_main`, `get_settings`, the first rounds of `input_poll_task` | extends `ConfigFile`; `pc` is the call `app_main` is at, `ReadLine` a line of the file; ticks |
| `InputLogicProofs`, `DeskSystemProofs`, `LocalInputsProofs`, `OutputRefreshProofs`, `IrRelayProofs`, `TcpClientProofs`, `TcpStreamProofs`, `BootProofs` | theorems | each extends its component's module; `DeskSystemProofs` extends `InputLogicProofs` too |
| `MC*` | constants for TLC | |

`DeskSystem` extends `InputLogic`; `LocalInputs` instantiates `PressDetector`;
`TcpClient` (commands) and `TcpStream` (confirmations) instantiate `LossyLine`; `Boot`
extends `ConfigFile`. The
components that are not composed meet only in an interface both model: a release
posts the message `LocalInputs` sends and `DeskSystem!Press` posts;
`set_button_led_state` and its like write the buffer whose fields `InputLogic`
keeps and whose way to the expanders is `OutputRefresh`; `ir_relay_target` is the
argument of the task in `IrRelay`; the line `DeskSystem` assumes between queue and
router, which loses messages but neither reorders nor repeats them, is what
`TcpClient` and `TcpStream` are shown to be; the settings `Boot` ends with are the
constant of `InputLogic`; the tests of `Boot` read what `LocalInputs` debounces.

Messages are records without the unused fields of the C structs. A route number
keeps its two forms, 1-40 in settings and caches and 0-39 in messages, and the
`uint8_t` decrement is `Dec8`. Reading a source of "button 7" reads past the row of
the settings array (`PanelSource`), as the C struct is laid out. In `LocalInputs` a
register is the function from the lines it holds to their codes: the split of
panel 1 over the two registers is kept, the place of its bits is not. In
`TcpStream` a piece of text is a word, a number with or without the space before
it, a title, a colon or a newline: enough to tell where a line is cut, without its
characters. Where the code keeps one byte of a text without a newline, `FirstByte`
says which piece that byte is. In `ConfigFile` a line is a key and its numbers.

## 3. Runs

| Run | Shows | Bounds |
| --- | --- | --- |
| `desk_faults` | USB lines and lit LEDs agree with the caches at every step; LEDs, USB lines and building outputs agree with the router when all is quiet, also after commands were lost or the desk restarted | 2 panels, 2 buttons, 3 outputs; 2 presses at any time, 1 route by another panel, 1 fault of any kind, queues of 2 |
| `desk_live` | a patient user gets what was asked for, also after a command was lost; everything settles | 2 presses, 1 fault, fairness |
| `desk_hasty` (violation) | a late confirmation overwrites the show relay cache | 3 presses, no fault |
| `inputs` | debouncing implements `PressDetector`; presses end | 2 panels and the IR button, 6 codes, threshold 3, counter of 5 values, 1 touch and its release, 2 failed reads |
| `outputs` | mutual exclusion; the expanders mirror the buffer, register by register; liveness | 2 writers, 3 writes, 1 dip, 3 registers, a field across two of them |
| `relay` | coil off at rest; the relay follows the next lone call, whatever went before; tasks end | 3 tasks, pulses of 2 ticks, 2 missed pulses, 2 supply changes, one deleted client task |
| `relay_hasty` (violation) | overlapping calls leave the floodlights in the other state | 3 tasks |
| `stream` | the receive path implements `LossyLine`, invents nothing, and is complete where the text is not cut inside an update | router of 2 outputs, 4 confirmations, 2 cuts anywhere, 1 end of a connection, queues of 2 and 1 |
| `stream_cut` (violation) | a cut behind a line of an update loses the next confirmations | router of 1 output, 1 cut, no failure |
| `client` | the send path implements `LossyLine`; one task while there is an address; reconnection, truth of the warning light, commands leave | 3 sockets, 3 commands, queue of 2, 3 cable or address changes, 2 router faults |
| `client_leak` (violation) | deleted tasks use up the sockets | 2 sockets, 2 cable or address changes |
| `boot` | the file's settings; order of creation; the test mode | the firmware's array sizes, files of at most 2 lines of every kind, 2 touches, waits shortened |

Why these bounds are enough. Panels, buttons and outputs enter the logic only
through the settings; two panels and three outputs give a screen switched by
others, a screen only the desk switches and a building output, and the second
panel is the last one, whose out-of-range button reads the destinations. The
queues are shorter than a full dump (3 lines), as 32 slots are shorter than 40
lines. The counter of five values wraps above a threshold of three as 256 does.
Two ticks a pulse let a task start in the middle of another's pulse or rest. Two
cuts put a line into three blocks, or cut a line and an update at once, and the
parser sees every place of the text in every state; more of the router's outputs
only make updates longer. One end of a connection is enough for a second greeting
to meet what the first connection left behind. Three sockets are used up by three
deletions; lwIP has ten. The lines of a file act on the settings one at a time, so
two of them show every way in which one can undo another. In `boot` the waits keep
the order of the firmware's (supply wait and three polls before `app_main` looks);
`PsuWaitInTicks` shows that a supply wait in ticks would not fit.
Counters named `presses`, `faults`, `touches`, `failures`, `writes`, `dips`, `misses`,
`switches`, `cuts`, `ends` and `flaps` are bounds of the model, as are `told` and
`MaxCommands`; `CHECK_DEADLOCK FALSE` stands where the
model stops because they are used up.

History variables (`confirm_lost`, `toggled`, `hasty`, `asked`; `window` and `report`;
the two `disturbed` and `failed`; `told`, `heard`, `invented`, `base`, `last_piece`,
`cut`, `dropped`, `torn`, `panicked`; `event_seen`; `created`, `used`, `steady`,
`pressed`) are marked as such; no step of the firmware depends on them.

### What the provisos stand for

Properties that hold carry a proviso where the code gives up something:

- `~confirm_lost` in `LedsShowRoutes`: a confirmation lost to a full input queue
  (ethernet.c 375) or to the parser leaves LED and caches stale until the next
  full dump. A dump has 40 lines for 32 slots; the last ones are dropped when the
  logic task is busy, for instance inside a toggle.
- `Listed(p)` in `UsbShowsListedRoutes`: a source without a button puts the panel's
  LEDs out but leaves `cache_panel_routing` as it was (main.c 189), so a USB source
  that is on no screen any more can stay enabled, where config/README.md line 27
  says "when viewed on any screen". A line whose source is on a screen with a button
  for it is on whatever the other screens show; only that it is off asks for a
  button on every screen.
- `toggled` and `asked`: a command is dropped by a full output queue or lost with a
  failed send (ethernet.c 193-200) and not repeated, so a loss ends what toggles and
  presses before it promise (`toggled` is false and `asked` is 0 again). The next
  toggle or press is held to its promise whatever was lost before. After a restart
  `relay_ir_state` is MAIN whatever the router's outputs show, until the next toggle
  (main.c 28), which `SwitchedDestsFollow` requires to bring them all in line.
- `~hasty` in `LastPressStands`: see `desk_hasty`.
- `Mirrors(r)` in `OutputRefresh`: the changed flag is cleared before I2C writes whose
  errors are only logged (local_io.c 130, 147-149). The history variable `failed` holds
  the registers whose last write failed: they, and only they, may be stale, until
  their next good write.
- `~disturbed` in `OutputRefresh`: the expanders lost their supply, or a write of their
  setup failed, and they have not been set up since. A dip of the supply that ends
  before the poll task looks resets them unnoticed; they are dark until the next
  activation it sees.
- `~Orphaned`, and `orphaned` in `IrRelay`: a task deleted inside
  `buffer_single_write` (ethernet.c 76, 409; the client sets the warning light after
  every send and receive) never gives the output mutex back; refresh and setters
  then time out for ever, and a coil that is on at that moment stays on.
- `~disturbed` in `IrRelay`: the last call came while a task was running (see
  `relay_hasty`), the supply was off then or has been since, or the mutex is
  orphaned. With the supply off the contact is not read, and at boot it reads 0,
  which passes for main, so that a call does nothing. Nothing calls again by itself,
  but the next call made with no task running and the supply on puts the relay
  right, whatever state the calls before it left it in.
- `~cut` in `UpdatesComplete`: see `stream_cut`. A text without a newline behind its
  first byte is lost but for that byte (ethernet.c 251-267), which also counts as a
  cut.
- `~dropped`: the queues of blocks and of messages drop what finds them full.
- `torn` in `NoInvention`: when the text breaks off right behind the title of an
  update, the parser waits for its lines in whatever comes next, and takes words
  of the next greeting for a confirmation of output 0, or finds no second word and
  reads a null pointer.
- `leaked = MaxSockets` in `Reconnects`: see `client_leak`.
- `event_seen` in `LossShown`: nothing lights the warning of a desk that is started
  without a cable; the first link event does.
- `Allowed` in `SettingsMatchFile`: the values the comments of `config.txt` allow.
  Values beyond a byte are cut, a destination above 40 in the flags hits
  `router_ip` and `router_port`, 0 hits `usb_source_b`; an address without numbers is
  0.0.0.0; a destination without a value, or a line of equals signs only, reads a
  null pointer, and the controller restarts to read the same line again.
- A torn or failed read of the two input registers (local_io.c 196-197) is a code
  no button gives; `DetectsPresses` takes such readings as they come.

### Fairness

All tasks have one priority, are time sliced and block only in queue reads,
sleeps and the two mutexes, so weak fairness of each task's steps is what
FreeRTOS gives. `DeskFairness` adds that the router answers and the client gets
its connection back when it retries (its loop never ends). `OutputRefresh` asks
strong fairness of a writer because it waits for a mutex the poll task takes and
gives back again and again, sleeping a tick in between. `LocalInputs` asks strong
fairness of `Debounce`, since a mutex timeout can throw a reading away, and weak
fairness of `LetGo`: people let go of buttons in the end. `IrRelay` asks that tasks,
poll task and time go on. `TcpClient` asks that client task and event task go on,
that DHCP answers a desk with a cable, that the router handles what it gets, and
that lwIP gives up a connection gone without notice, as the keepalive of ethernet.c
120-144 is there for; a connection the router has closed need not be given up.
Nobody is ever obliged to press, fail, restart, delete
or switch anything.

## 4. Proofs

`InputLogicProofs` (any number of panels, buttons and outputs up to 255, any
settings in their C types, any queue lengths, any messages of their C types
posted):

- `TypeCorrect`: `Spec => []TypeOK`, one step per action.
- `UsbLinesFollow`: `Spec => []UsbFollowsScreens`. Not inductive by itself, since the
  handler writes a line only when its own copy `usb_enable_a_state` changes; the
  strengthening says that line and copy are equal. It needs
  `UsbSourceAssumption`: a USB source of 0, which the configuration does not
  allow, would match the empty cache at the start.
- `LedsAgree`: `Spec => []LedAgreesWithCache`, the LED being written in the same step
  as the cache when a button was found, and put out without it otherwise.

`DeskSystemProofs` (`InputLogic` inside the whole desk: any sizes, any number of
presses, faults and routes by other panels):

- `DeskTypesCorrect`: `DeskSpec => []DeskTypeOK`, and `DeskAgreesWithCaches`:
  `UsbFollowsScreens` and `LedAgreesWithCache` hold with router, link and restarts
  around the logic task. Every step of the desk is a step of `InputLogic`, posts a
  message of the C types, or starts it again (`StepsOfLogic`), so the invariants of
  `InputLogicProofs` carry over.
- `LedsFollowRouter`, `UsbFollowsRouter`: `LedsShowRoutes` and `UsbShowsListedRoutes`
  speak of a desk at rest; the invariant `ToldInv` speaks of every moment: as long as
  no confirmation is lost, for each panel either the last confirmation on its way
  (from the router, then in the input queue) tells what is on its screen, or
  none is on its way and LED and cache tell it. That last confirmations decide
  is shown once, for any line of messages that goes through two queues
  (`Coming`, `NoneComing`, `Heading`, `Silent` and their lemmas).
- `BuildingFollows`: `SwitchedDestsFollow`. Invariant `FollowInv`: each switched output
  shows the camera of `relay_ir_state`, has that as the last command on its way, or
  has its turn in the toggle's loop still to come. A step that loses a command
  (`Loses`) ends the promise, the next toggle makes it anew.
- `LastPressHolds`: `LastPressStands`, the property of `DeskSystem` with most actors. The
  invariant `PatientInv` says, of each panel that has asked for something: its
  screen is heading for what it wants or a toggle will see to it (`Aimed`); as long
  as no confirmation is lost, a command is on its way, a good confirmation is,
  or the cache is right (`Confirmed`), since the toggle decides by the cache; and
  while a toggle is pending nothing that could change this is on its way
  (`Calm`). The last is what a press that is not `hasty` gives, and `desk_hasty` shows
  what happens without. A panel that asked before a command was lost has asked for
  nothing any more (`LossForgets`) until its next press.

The last four have hypotheses, named in the module. Those on the settings are what
`config.txt` asks for, but for the last, which only its example keeps to: panels'
screens are different outputs of the router (`ScreensOnRouter`), the cameras are
inputs of it (`CamerasOnRouter`), the switched destinations "should not include the
SM desk screen outputs" (`ScreensNotSwitched`), and a panel with a show relay button
has no button with a camera's own number (`CamerasByRelayOnly`). Two are about what
the other tasks post: `refresh_inputs` posts no confirmation (`ButtonsOnly`) and only
buttons that are there (`RealButtons`). `CamerasByRelayOnly` is needed: such a
confirmation could not be told from one of the show relay, a hazard `PROJECT.json`
lists. The desk of `desk_live`, which checks `LastPressStands`, satisfies all of them;
that of `desk_faults` all but `RealButtons`, which only `LastPressHolds` needs: there
people also press the button behind the last.

`LocalInputsProofs` (any number of panels, any threshold, any counter width above
it):

- `CountsMatch`: `Spec => []CountsMatchSamples`. The invariant says what counter,
  debounced state and newest samples have to do with each other also after the
  counter has wrapped: then the state is the sample of counter + 1 polls ago. The
  hard case of the proof is the sample that wraps it.
- `TypeCorrect`: `Spec => []TypeOK`.
- `DebounceImplementsDetector`: `Spec => DetectsPresses`. `button_debounce` implements
  `PressDetector`, its counters mapped to nothing: the refinement needs
  `CountsMatchSamples` to show that the code reported is among the newest samples.

`OutputRefreshProofs` (any writers, fields, values, registers and faults):

- `TypeCorrect` and `MutexExcludes`: `Spec => []OneHolder`, by `MutexInv`, which adds that
  a writer past its call has a job.
- `RefreshProgresses`: `Spec => []RefreshProgress`, inductive with `MutexInv`: with the
  changed flag clear the expanders show the buffer but for a write inside the
  mutex, and while the registers are written those behind `reg` show `out_bytes`,
  each time but for the registers in `failed`. A
  mutex whose holder was deleted stays orphaned (`OrphanedStays`).
- `ChipsMirrorBuffer`: `Spec => []MirrorsAtRest`, a consequence of the two.

`IrRelayProofs` (any number of tasks, pulse length, attempts and faults):

- `TypeCorrect`, `CoilNeverLeftOn`: `Spec => []CoilOffAtRest`, by `CoilOwned`: a coil that
  is on has a task in its pulse, unless the mutex is orphaned.
- `RelayFollowsState`: `MaxMisses < Attempts => (Spec => []RelayFollows)`. The invariant
  follows the one task that is not done, as long as nothing is disturbed since it
  was started (`CoilOwned` gives it a coil at rest to start from): what it
  has seen of the contact, what it knows of the relay in each phase, and that it
  has more attempts left than the relay has pulses to miss. The hypothesis is what
  the three attempts of `ir_relay_set_task` are there for: with as many misses as
  attempts it gives up.

`TcpClientProofs` (any number of sockets, queue slots, commands, cable and address
changes, router faults):

- `TypeCorrect`: `Spec => []TypeOK`, in two parts (`SwitchTypes`, `TaskTypes`), one step
  per action. `TypeOK` also says what the socket can be where the loop is, without
  which "commands are on their way only over an open connection" is not inductive.
- `TaskRunsIffOnline`: `Spec => []ClientRunsIffOnline`. The strengthening is that the
  newest event not handled yet tells whether there is an address: each handler
  takes the oldest, and the last one handled decides.
- `SendPathImplementsLossyLine`: `Spec => CommandsInOrder`. The invariant `InOrder`: the
  number handled last, those on their way, the one in hand and those queued are
  one increasing sequence. Four actions move a command along it or add one; all
  others only lose the one in hand, all on their way, or both (`OtherStepsLose`).

`TcpStreamProofs` (any length of `recv`, any queues, any number of outputs, cuts and
connections):

- `TypeCorrect`: `Spec => []TypeOK`. `FlattenSeq`, `Min` and the searches for a newline are
  library operators: what they return is shown first (`LastNewLineIs`,
  `FirstNewLineIs`, `LinesOfUpdate`, `UpdateShape`).
- `ReceivePathImplementsLossyLine`: `Spec => InOrder`. The invariant `Flow`: the
  confirmations named in the text being parsed, in each block of the queue, in the
  line kept back and in what `recv` has not taken rise along the way, and what was
  posted last is below them all. Each cut, wherever it is, splits the text in two
  without changing its order (`Splits`, `LinesSplit`, `ByteSplit`, `LineSplit`); the byte the
  code sends on without a newline is never the end of a confirmation
  (`FirstByteNoInput`); all else only loses text.
- `NothingInvented`: `Spec => []NoInvention`. `NoInvention` sees the parser only when it
  is too late; the invariant `InventionInv` says, as long as nothing is `torn`, what it
  has before it: in an update a line the router told, a blank line, or the end of
  the block (`AtLine`). For that the text is in shape wherever it is on its way
  (`TextInShape`: behind the newline of an update's title or line comes another line
  or a blank one, unless the block ends there), and behind a block that ends with a
  title comes one that begins with its newline (`TitlesContinue`). A part cut off the
  text, in front or behind, is in shape again (`AheadInShape`, `BehindInShape`), and so
  is the router's text behind it (`JoinInShape`).
- `NothingLost`: `Spec => []UpdatesComplete`. The property speaks of the end, when all has
  been looked at; the invariant `CompleteInv` follows each confirmation of the
  connection there: it has been heard, or it is on its way (`OnItsWay`) in a whole
  update whose title stands where the parser will take it for one: behind a blank
  line, or first in its block where the block before ended with a line and left the
  parser ready (`CleanBefore`). Or the parser is inside that update with only lines
  of it before that one (`InRun`). A cut that is not inside an update leaves each
  update whole in the block or behind it (`TitleCut`); a line parsed that is not the
  confirmation's own leaves it on its way (`SkipParsed`, `PostParsed`).

`BootProofs` (any file, any waits, any changes of buttons and supply):

- `NothingUsedTooEarly`: `Spec => []CreatedBeforeUse`, of the uses `Boot` models. The
  strengthening (`CreateInv`) is what has been created where `app_main` is, and that
  the poll task is there only from `setup_local_io` on.
- `TestModeNeedsBoth`: `Spec => []TestModeOnlyIfPressed`: a button that is debounced was
  pressed at some time.
- `TestModeComes`: `WaitsLongEnough => (Spec => []TestModeIfHeld)`. The hypothesis says
  that `BOOT_WAIT` is longer than the supply wait and the rounds of the debouncing
  together (the firmware: 100 ticks against 10 + 2 * 2) and that the threshold
  fits the counter; the invariant is that what `app_main` has yet to wait stays
  above what the poll task still needs.
- `SettingsMeanFile`: `Spec => []SettingsMatchFile`, and `FallbackKept`:
  `Spec => []OthersKeepFallback`, for files of any length and any values. The invariant
  `FileInv` splits the file into what was read and what is left: if all lines are
  allowed the settings are the `Meaning` of what was read, if the switched
  destinations are router outputs what was not named has its fallback. `MeaningStep`
  is the step between: one more line changes `Meaning` as it changes the settings
  (`MeaningOfLine`), and no other setting (`LineChangesOne`, `MeaningOfOthers`).
- `TypeCorrect`: `Spec => []TypeOK`, also for lines that are not allowed: a flag behind
  the array lands in the address or the port (`MarkFlagType`).

  The list of switched destinations is a fold, the octets of the address a
  recursive function. Neither can be unfolded by the provers before it is shown that
  the function exists (`FoldExists`, `AddressSums`); what the fold computes is then
  shown by the smallest place at which it would differ (`LeastNat`, `FoldMarks`).

Assumptions are the named `ASSUME`s of the modules; TLC evaluates them in the
runs. `FilesAssumption` only says that a file is a sequence of lines, whatever their keys
and numbers; `ConfigAssumption` that panels, buttons and outputs are counted in a
byte and that the structure behind the flags ends within the reach of one. The
inductive invariants `ToldInv`, `FollowInv`, `PatientInv`, `InventionInv` and (with the
length of an update bounded) `CompleteInv` were checked with TLC, on the instances of
the runs, before they were proved. Every safety property a run checks is proved.
Model-checked only: all liveness (`Settles`, `PressesEnd`, `OutputsFollow`,
`WritersServed`, `RelaySettles`, `Reconnects`, `LossShown`, `RecoveryShown`,
`CommandsLeave`), since fairness and ENABLED are out of the prover's reach.

## 5. Not modelled

- `DeskSystem` is not composed with `TcpClient` and `TcpStream`: the product of their
  states is beyond TLC. It takes over what they are shown to do: a command is sent
  or lost, a confirmation arrives in order or is lost.
- `InputLogic`, and with it `DeskSystem`, takes every `buffer_single_write` to succeed.
  Its 10 ticks (local_io.c 310-325) only run out when a client task was deleted with
  the mutex in hand, since all others hold it for an assignment or a copy;
  `OutputRefresh` models that, `IrRelay` what it does to the coil. The LED and USB
  writes of the logic task are then lost too, while its own copies go on.
- Inside `TcpClient`: a command on its way over the connection of a deleted task
  counts as lost, though TCP may still deliver it. `xTaskCreate` always succeeds.
  lwIP is taken to return an error for the `recv` after the one that returned 0, and
  for every later `send`.
- Inside `TcpStream`: the queue's items have 2048 bytes and `incoming_msg`, which they
  are received into, 1024 (ethernet.c 305); the model takes `incoming_msg` to hold
  any block. A line longer than 1023 bytes does not occur in the router's text.
- Characters of `config.txt`: keys are compared by their beginning, and `fgets` gives
  a line of more than 255 characters in several; the model starts from keys and
  numbers.
- `local_test_mode` (the LED test), a loop of its own; `init_sd_card`, `deinit_sd_card`
  and the driver calls of `setup_ethernet`, which only call ESP-IDF.
- `IN_MSG_TYP_RELAY_STATE` (empty handler, never posted) and `set_relay_fail_led`
  (never called).
- A desk whose panel lists both a camera and the show relay; two panels with one
  destination are modelled (`FirstPanelFor`) but not in the runs.
- Hardware, drivers, logging.

## 6. Plan

Every safety property of the passing runs has its theorem. What could follow: the
implication from `TcpClient`'s and `TcpStream`'s `LossyLine` to the lines `DeskSystem`
takes over from them, stated as a refinement of their composition, and the lemmas
that the liveness properties rest on (what each fair step brings nearer), as far as
they can be stated without ENABLED.
