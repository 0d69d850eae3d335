--------------------------- MODULE OutputRefresh ---------------------------
(***************************************************************************)
(* The output half of local_io.c.  Many tasks write fields of              *)
(* output_state_buffer under a mutex (buffer_single_write); one task,      *)
(* input_poll_task, copies the buffer to the I2C expanders when the        *)
(* changed flag says so (refresh_outputs), and sets the expanders up each  *)
(* time the desk supply comes on.                                          *)
(*                                                                         *)
(* An I2C write can fail: the error is logged and nothing else happens,    *)
(* and the register is wrong until the next refresh writes it again.       *)
(* The desk supply can go off at any moment and the expanders forget       *)
(* everything.  A task of the TCP client can be deleted by its event       *)
(* handlers at any moment, also while it holds the mutex (it writes the    *)
(* Ethernet warning light).  A task waits 10 ticks for the mutex, far      *)
(* longer than a living task keeps it: only a dead holder makes it give    *)
(* up.                                                                     *)
(*                                                                         *)
(* refresh_inputs, which input_poll_task calls in the same loop, is in     *)
(* LocalInputs; the route dump it requests after setting up is SupplyOn    *)
(* of DeskSystem.                                                          *)
(***************************************************************************)
EXTENDS Naturals, FiniteSets

CONSTANTS
  Writers,        \* tasks that call buffer_single_write
  Doomed,         \* those of them that can be deleted
  Fields,         \* fields of output_state_buffer
  Values,         \* their values, 0 among them
  NRegs,          \* output registers of the expanders (3)
  RegsOf,         \* registers the bits of each field lie in
  WriteFailures,  \* an I2C write may fail while the supply is on
  MaxWrites,      \* bound: calls of buffer_single_write
  MaxDips         \* bound: times the supply goes off

Regs == 0 .. NRegs - 1

ASSUME OutputsAssumption ==
  /\ NRegs \in Nat \ {0}
  /\ 0 \in Values
  /\ Doomed \subseteq Writers
  /\ RegsOf \in [Fields -> (SUBSET Regs) \ {{}}]
  /\ WriteFailures \in BOOLEAN
  /\ MaxWrites \in Nat /\ MaxDips \in Nat

\* Holders of the mutex that are not writers.
ASSUME HoldersAssumption == "free" \notin Writers /\ "poll" \notin Writers

FieldsOf(r) == {f \in Fields : r \in RegsOf[f]}
Buffers     == [Fields -> Values]

VARIABLES
  output_state_buffer,
  output_state_buffer_changed_flag,
  mutex,                 \* who holds output_state_buffer_mutex, or "free"
  wpc,                   \* each writer: "idle", "wait", "hold", "set",
                         \* "wrote", "dead"
  job,                   \* each writer: the field and value it was asked to set,
                         \* or NoJob
  pc,                    \* input_poll_task: "top", "setup", "flag", "take",
                         \* "hold", "copy", "write"
  reg,                   \* next register refresh_outputs writes
  out_bytes,             \* buffer as refresh_outputs copied it under the mutex;
                         \* off outside it, as its locals start out
  board_live_i2c_setup,
  supply,                \* PIN_BOARD_LIVE
  chips,                 \* what each output register shows
  disturbed,             \* history: the supply went off, or a write of the setup
                         \* failed, since the last good setup
  failed,                \* history: registers whose last write failed, since the
                         \* last good setup
  writes, dips           \* bound counters

writerVars == << wpc, job, writes >>
pollVars   == << pc, reg, out_bytes, board_live_i2c_setup >>
supplyVars == << supply, dips >>
chipVars   == << chips, disturbed, failed >>
vars == << output_state_buffer, output_state_buffer_changed_flag, mutex,
           writerVars, pollVars, supplyVars, chipVars >>

\* The whole of every register taken from a buffer.
Image(buffer) == [r \in Regs |-> [f \in FieldsOf(r) |-> buffer[f]]]
NoJob         == << >>
AllOff        == [f \in Fields |-> 0]

\* The mutex will not be given back.
Orphaned == mutex \in Writers /\ wpc[mutex] = "dead"
-----------------------------------------------------------------------------
(* buffer_single_write.                                                    *)

\* A task sets an output.
Call(w) ==
  /\ wpc[w] = "idle"
  /\ writes < MaxWrites
  /\ writes' = writes + 1
  /\ \E f \in Fields, v \in Values : job' = [job EXCEPT ![w] = << f, v >>]
  /\ wpc' = [wpc EXCEPT ![w] = "wait"]
  /\ UNCHANGED << output_state_buffer, output_state_buffer_changed_flag, mutex,
                  pollVars, supplyVars, chipVars >>

WriterTakes(w) ==
  /\ wpc[w] = "wait"
  /\ mutex = "free"
  /\ mutex' = w
  /\ wpc' = [wpc EXCEPT ![w] = "hold"]
  /\ UNCHANGED << output_state_buffer, output_state_buffer_changed_flag, job, writes,
                  pollVars, supplyVars, chipVars >>

\* The write is given up and lost.
WriterTimeout(w) ==
  /\ wpc[w] = "wait"
  /\ Orphaned
  /\ wpc' = [wpc EXCEPT ![w] = "idle"]
  /\ job' = [job EXCEPT ![w] = NoJob]
  /\ UNCHANGED << output_state_buffer, output_state_buffer_changed_flag, mutex, writes,
                  pollVars, supplyVars, chipVars >>

\* The field is set; an unchanged value leaves flag and buffer alone.
WriterSets(w) ==
  /\ wpc[w] = "hold"
  /\ LET f == job[w][1]
         v == job[w][2]
     IN  /\ output_state_buffer' = [output_state_buffer EXCEPT ![f] = v]
         /\ wpc' = [wpc EXCEPT ![w] = IF output_state_buffer[f] # v THEN "set" ELSE "wrote"]
  /\ UNCHANGED << output_state_buffer_changed_flag, mutex, job, writes,
                  pollVars, supplyVars, chipVars >>

\* Mutant: the flag takes the value written.
FlagAfterWriteIsValue(w) == IF job[w][2] # 0 THEN 1 ELSE 0

\* Mutant: the flag counts the changes.
FlagAfterWriteCounts(w) == output_state_buffer_changed_flag + 1

\* The changed flag after a field has changed.
FlagAfterWrite(w) == 1

WriterFlags(w) ==
  /\ wpc[w] = "set"
  /\ output_state_buffer_changed_flag' = FlagAfterWrite(w)
  /\ wpc' = [wpc EXCEPT ![w] = "wrote"]
  /\ UNCHANGED << output_state_buffer, mutex, job, writes, pollVars, supplyVars, chipVars >>

WriterGives(w) ==
  /\ wpc[w] = "wrote"
  /\ mutex' = "free"
  /\ wpc' = [wpc EXCEPT ![w] = "idle"]
  /\ job' = [job EXCEPT ![w] = NoJob]
  /\ UNCHANGED << output_state_buffer, output_state_buffer_changed_flag, writes,
                  pollVars, supplyVars, chipVars >>

\* vTaskDelete by an Ethernet event handler: nothing the task holds is freed.
Delete(w) ==
  /\ w \in Doomed
  /\ wpc[w] # "dead"
  /\ wpc' = [wpc EXCEPT ![w] = "dead"]
  /\ job' = [job EXCEPT ![w] = NoJob]
  /\ UNCHANGED << output_state_buffer, output_state_buffer_changed_flag, mutex, writes,
                  pollVars, supplyVars, chipVars >>
-----------------------------------------------------------------------------
(* input_poll_task and refresh_outputs.                                    *)

\* Top of the loop: what PIN_BOARD_LIVE says decides.
PollTop ==
  /\ pc = "top"
  /\ \/ /\ supply = 1 /\ board_live_i2c_setup = 1
        /\ pc' = "take"
        /\ UNCHANGED board_live_i2c_setup
     \/ /\ supply = 1 /\ board_live_i2c_setup = 0
        /\ pc' = "setup"
        /\ UNCHANGED board_live_i2c_setup
     \/ /\ supply = 0
        /\ board_live_i2c_setup' = 0
        /\ UNCHANGED pc
  /\ UNCHANGED << output_state_buffer, output_state_buffer_changed_flag, mutex,
                  writerVars, reg, out_bytes, supplyVars, chipVars >>

\* After PSU_ON_WAIT_TICKS: i2c_init and expander_setup, which make the pins
\* outputs and turn them all off, unless the writes fail.
Setup ==
  /\ pc = "setup"
  /\ pc' = "flag"
  /\ board_live_i2c_setup' = 1
  /\ \/ /\ supply = 1
        /\ chips' = Image(AllOff)
        /\ disturbed' = FALSE
        /\ failed' = {}
     \/ /\ supply = 0 \/ WriteFailures
        /\ disturbed' = TRUE
        /\ failed' = {}
        /\ UNCHANGED chips
  /\ UNCHANGED << output_state_buffer, output_state_buffer_changed_flag, mutex,
                  writerVars, reg, out_bytes, supplyVars >>

\* Mutant: the outputs are not marked for a refresh.
FlagAfterSetupKept(flag) == flag

\* Outputs need to be refreshed after setting up.
FlagAfterSetup(flag) == 1

\* Take, set, give: in one step, for a task that cannot be deleted.
FlagSetup ==
  /\ pc = "flag"
  /\ \/ /\ mutex = "free"
        /\ output_state_buffer_changed_flag' = FlagAfterSetup(output_state_buffer_changed_flag)
     \/ /\ Orphaned
        /\ UNCHANGED output_state_buffer_changed_flag
  /\ pc' = "top"
  /\ UNCHANGED << output_state_buffer, mutex, writerVars, reg, out_bytes,
                  board_live_i2c_setup, supplyVars, chipVars >>

RefreshTakes ==
  /\ pc = "take"
  /\ \/ /\ mutex = "free"
        /\ mutex' = "poll"
        /\ pc' = "hold"
     \/ /\ Orphaned
        /\ pc' = "top"
        /\ UNCHANGED mutex
  /\ UNCHANGED << output_state_buffer, output_state_buffer_changed_flag, writerVars,
                  reg, out_bytes, board_live_i2c_setup, supplyVars, chipVars >>

\* Mutant: the early return forgets the mutex.
NothingToDoKeeps == mutex' = mutex

\* The early return gives the mutex back first.
NothingToDo == mutex' = "free"

\* The flag decides, and is cleared.
RefreshChecks ==
  /\ pc = "hold"
  /\ \/ /\ output_state_buffer_changed_flag = 0
        /\ NothingToDo
        /\ pc' = "top"
        /\ UNCHANGED output_state_buffer_changed_flag
     \/ /\ output_state_buffer_changed_flag = 1
        /\ output_state_buffer_changed_flag' = 0
        /\ pc' = "copy"
        /\ UNCHANGED mutex
  /\ UNCHANGED << output_state_buffer, writerVars, reg, out_bytes, board_live_i2c_setup,
                  supplyVars, chipVars >>

\* The bytes for the registers, still under the mutex.
RefreshCopies ==
  /\ pc = "copy"
  /\ out_bytes' = output_state_buffer
  /\ reg' = 0
  /\ pc' = "write"
  /\ mutex' = "free"
  /\ UNCHANGED << output_state_buffer, output_state_buffer_changed_flag, writerVars,
                  board_live_i2c_setup, supplyVars, chipVars >>

\* expander_write_command of the next register: it works, or fails and is
\* forgotten.  With the supply off, or before the expanders are set up again (their
\* pins are inputs until then), it may show nothing at all.
RefreshWrites ==
  /\ pc = "write"
  /\ \/ /\ supply = 1
        /\ chips' = [chips EXCEPT ![reg] = Image(out_bytes)[reg]]
        /\ failed' = failed \ {reg}
     \/ /\ WriteFailures /\ ~disturbed
        /\ failed' = failed \cup {reg}
        /\ UNCHANGED chips
     \/ /\ disturbed
        /\ UNCHANGED << chips, failed >>
  /\ IF reg + 1 \in Regs THEN reg' = reg + 1 /\ pc' = "write" /\ UNCHANGED out_bytes
                         ELSE reg' = 0 /\ pc' = "top" /\ out_bytes' = AllOff
  /\ UNCHANGED << output_state_buffer, output_state_buffer_changed_flag, mutex, writerVars,
                  board_live_i2c_setup, supplyVars, disturbed >>
-----------------------------------------------------------------------------
(* The desk supply.                                                        *)

SupplyOff ==
  /\ supply = 1
  /\ dips < MaxDips
  /\ dips' = dips + 1
  /\ supply' = 0
  /\ chips' = Image(AllOff)
  /\ disturbed' = TRUE
  /\ failed' = {}
  /\ UNCHANGED << output_state_buffer, output_state_buffer_changed_flag, mutex,
                  writerVars, pollVars >>

\* The supply may be back before the poll task has seen it go.
SupplyOn ==
  /\ supply = 0
  /\ supply' = 1
  /\ UNCHANGED << output_state_buffer, output_state_buffer_changed_flag, mutex,
                  writerVars, pollVars, dips, chipVars >>
-----------------------------------------------------------------------------
Init ==
  /\ output_state_buffer = AllOff
  /\ output_state_buffer_changed_flag = 0
  /\ mutex = "free"
  /\ wpc = [w \in Writers |-> "idle"]
  /\ job = [w \in Writers |-> NoJob]
  /\ pc = "top"
  /\ reg = 0
  /\ out_bytes = AllOff
  /\ board_live_i2c_setup = 0
  /\ supply = 0
  /\ chips = Image(AllOff)
  /\ disturbed = TRUE
  /\ failed = {}
  /\ writes = 0
  /\ dips = 0

WriterRuns(w) ==
  \/ WriterTakes(w)
  \/ WriterTimeout(w)
  \/ WriterSets(w)
  \/ WriterFlags(w)
  \/ WriterGives(w)

WriterNext(w) ==
  \/ Call(w)
  \/ WriterRuns(w)
  \/ Delete(w)

PollNext ==
  \/ PollTop
  \/ Setup
  \/ FlagSetup
  \/ RefreshTakes
  \/ RefreshChecks
  \/ RefreshCopies
  \/ RefreshWrites

Next ==
  \/ \E w \in Writers : WriterNext(w)
  \/ PollNext
  \/ SupplyOff
  \/ SupplyOn

Spec == Init /\ [][Next]_vars

\* The poll task and the writers run; a waiting writer gets the mutex, since the
\* poll task sleeps a tick after every round.  Nobody has to call, delete or
\* switch anything.
Fairness ==
  /\ WF_vars(PollNext)
  /\ \A w \in Writers : SF_vars(WriterRuns(w))

FairSpec == Spec /\ Fairness
-----------------------------------------------------------------------------
TypeOK ==
  /\ output_state_buffer \in Buffers
  /\ output_state_buffer_changed_flag \in {0, 1}
  /\ mutex \in Writers \cup {"free", "poll"}
  /\ wpc \in [Writers -> {"idle", "wait", "hold", "set", "wrote", "dead"}]
  /\ job \in [Writers -> (Fields \X Values) \cup {NoJob}]
  /\ pc \in {"top", "setup", "flag", "take", "hold", "copy", "write"}
  /\ reg \in Regs
  /\ out_bytes \in Buffers
  /\ board_live_i2c_setup \in {0, 1}
  /\ supply \in {0, 1}
  /\ chips \in [Regs -> UNION {[FieldsOf(r) -> Values] : r \in Regs}]
  /\ disturbed \in BOOLEAN /\ failed \in SUBSET Regs
  /\ writes \in 0 .. MaxWrites /\ dips \in 0 .. MaxDips

\* The mutex does its work: whoever is in a critical section holds it, one task
\* at a time, and the poll task never leaves refresh_outputs with it.
OneHolder ==
  /\ \A w \in Writers : wpc[w] \in {"hold", "set", "wrote"} => mutex = w
  /\ pc \in {"hold", "copy"} <=> mutex = "poll"

\* A register shows the buffer, or its last write failed.
Mirrors(r) == r \in failed \/ chips[r] = Image(output_state_buffer)[r]

\* How far a refresh has brought the expanders when nothing has changed since
\* it copied the buffer and they are set up.  A failed write is the loss of that
\* register alone, and the next refresh of it makes it good.
RefreshProgress ==
  /\ board_live_i2c_setup = 1 /\ ~disturbed /\ ~Orphaned
  /\ output_state_buffer_changed_flag = 0
  /\ \A w \in Writers : wpc[w] # "set"
  => /\ pc \in {"top", "take", "hold"} => \A r \in Regs : Mirrors(r)
     /\ pc = "write" => /\ out_bytes = output_state_buffer
                        /\ \A r \in Regs : r < reg => Mirrors(r)

\* With the changed flag clear, nobody writing and no refresh under way every
\* register whose last write did not fail shows the buffer, unless the supply went
\* off since the expanders were set up.
MirrorsAtRest ==
  /\ pc = "top" /\ board_live_i2c_setup = 1
  /\ output_state_buffer_changed_flag = 0 /\ mutex = "free" /\ ~disturbed
  => \A r \in Regs : Mirrors(r)

\* Once nobody writes any more the registers come to show the buffer and go on
\* showing it, all but those whose last write failed, unless the supply went off
\* since they were set up or a task was deleted while it held the mutex.
OutputsFollow ==
  <>[](supply = 1 /\ ~disturbed /\ ~Orphaned => \A r \in Regs : Mirrors(r))

\* A task that sets an output gets to set it, unless a task is deleted while it
\* holds the mutex.
WritersServed ==
  \A w \in Writers : wpc[w] = "wait" ~> wpc[w] \in {"wrote", "dead"} \/ Orphaned
=============================================================================
