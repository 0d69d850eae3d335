------------------------ MODULE OutputRefreshProofs ------------------------
(***************************************************************************)
(* Theorems about OutputRefresh for any writers, fields, values, registers *)
(* and faults: its types, that the mutex does its work, and that the       *)
(* expanders show the buffer whenever the changed flag is clear and        *)
(* nothing is under way, but for registers whose last write failed.        *)
(***************************************************************************)
EXTENDS OutputRefresh, TLAPS

\* A task inside buffer_single_write knows what to set.
JobsGiven == \A w \in Writers : wpc[w] \in {"wait", "hold", "set", "wrote"} => job[w] # NoJob

\* The inductive invariant of types and mutex.
MutexInv == TypeOK /\ JobsGiven /\ OneHolder

\* What a register may show.
RegisterValues == UNION {[FieldsOf(r) -> Values] : r \in Regs}
-----------------------------------------------------------------------------
\* The whole image of a buffer is something the registers may show.
LEMMA ImageType == \A buffer \in Buffers : Image(buffer) \in [Regs -> RegisterValues]
  <1> SUFFICES ASSUME NEW buffer \in Buffers, NEW r \in Regs
               PROVE  [f \in FieldsOf(r) |-> buffer[f]] \in RegisterValues
    BY DEF Image
  <1>1. [f \in FieldsOf(r) |-> buffer[f]] \in [FieldsOf(r) -> Values]
    BY DEF FieldsOf, Buffers
  <1> QED BY <1>1 DEF RegisterValues

LEMMA AllOffType == AllOff \in Buffers
  BY OutputsAssumption DEF AllOff, Buffers

LEMMA InitMutexInv == Init => MutexInv
  <1> SUFFICES ASSUME Init PROVE MutexInv
    OBVIOUS
  <1>1. chips \in [Regs -> RegisterValues]
    BY ImageType, AllOffType DEF Init
  <1>2. disturbed \in BOOLEAN /\ failed \in SUBSET Regs /\ output_state_buffer \in Buffers /\ out_bytes \in Buffers
    BY AllOffType DEF Init
  <1>3. reg \in Regs /\ writes \in 0 .. MaxWrites /\ dips \in 0 .. MaxDips
    BY OutputsAssumption DEF Init, Regs
  <1>4. /\ mutex \in Writers \cup {"free", "poll"}
        /\ wpc \in [Writers -> {"idle", "wait", "hold", "set", "wrote", "dead"}]
        /\ job \in [Writers -> (Fields \X Values) \cup {NoJob}]
        /\ output_state_buffer_changed_flag \in {0, 1} /\ board_live_i2c_setup \in {0, 1}
        /\ supply \in {0, 1}
        /\ pc \in {"top", "setup", "flag", "take", "hold", "copy", "write"}
    BY DEF Init
  <1>5. JobsGiven /\ OneHolder
    BY DEF Init, JobsGiven, OneHolder
  <1> QED BY <1>1, <1>2, <1>3, <1>4, <1>5 DEF MutexInv, TypeOK, RegisterValues

\* What buffer_single_write does to the types, to the jobs and to the mutex.
LEMMA WriterKeepsMutexInv ==
  ASSUME MutexInv, NEW w \in Writers, WriterNext(w)
  PROVE  MutexInv'
  <1> USE OutputsAssumption, HoldersAssumption
      DEF MutexInv, TypeOK, JobsGiven, OneHolder, pollVars, supplyVars, chipVars
  <1>1. CASE Call(w)
    <2>1. PICK f \in Fields, v \in Values : job' = [job EXCEPT ![w] = << f, v >>]
      BY <1>1 DEF Call
    <2>2. << f, v >> \in Fields \X Values /\ << f, v >> # NoJob
      BY DEF NoJob
    <2>3. job' \in [Writers -> (Fields \X Values) \cup {NoJob}] /\ job'[w] # NoJob
      BY <2>1, <2>2
    <2>4. wpc' = [wpc EXCEPT ![w] = "wait"] /\ writes' \in 0 .. MaxWrites
      BY <1>1 DEF Call
    <2> QED BY <1>1, <2>1, <2>3, <2>4 DEF Call
  <1>2. CASE WriterTakes(w)
    BY <1>2 DEF WriterTakes
  <1>3. CASE WriterTimeout(w)
    BY <1>3 DEF WriterTimeout
  <1>4. CASE WriterSets(w)
    <2>1. job[w] \in Fields \X Values
      BY <1>4 DEF WriterSets
    <2>2. output_state_buffer' = [output_state_buffer EXCEPT ![job[w][1]] = job[w][2]]
      BY <1>4 DEF WriterSets
    <2>3. output_state_buffer' \in Buffers
      BY <2>1, <2>2 DEF Buffers
    <2>4. wpc' \in {[wpc EXCEPT ![w] = "set"], [wpc EXCEPT ![w] = "wrote"]} /\ wpc[w] = "hold"
      BY <1>4 DEF WriterSets
    <2> QED BY <1>4, <2>3, <2>4 DEF WriterSets
  <1>5. CASE WriterFlags(w)
    BY <1>5 DEF WriterFlags, FlagAfterWrite
  <1>6. CASE WriterGives(w)
    BY <1>6 DEF WriterGives
  <1>7. CASE Delete(w)
    BY <1>7 DEF Delete
  <1> QED BY <1>1, <1>2, <1>3, <1>4, <1>5, <1>6, <1>7 DEF WriterNext, WriterRuns

\* One step per action of the poll task.
LEMMA PollKeepsMutexInv ==
  ASSUME MutexInv, PollNext
  PROVE  MutexInv'
  <1> USE OutputsAssumption, HoldersAssumption
      DEF MutexInv, TypeOK, JobsGiven, OneHolder, writerVars, supplyVars, chipVars
  <1>1. CASE PollTop
    BY <1>1 DEF PollTop
  <1>2. CASE Setup
    <2>1. chips' \in [Regs -> RegisterValues]
      BY <1>2, ImageType, AllOffType DEF Setup, RegisterValues
    <2>2. failed' \in SUBSET Regs
      BY <1>2 DEF Setup
    <2> QED BY <1>2, <2>1, <2>2 DEF Setup, RegisterValues
  <1>3. CASE FlagSetup
    BY <1>3 DEF FlagSetup, FlagAfterSetup
  <1>4. CASE RefreshTakes
    BY <1>4 DEF RefreshTakes, Orphaned
  <1>5. CASE RefreshChecks
    BY <1>5 DEF RefreshChecks, NothingToDo
  <1>6. CASE RefreshCopies
    <2>1. 0 \in Regs
      BY DEF Regs
    <2> QED BY <1>6, <2>1 DEF RefreshCopies
  <1>7. CASE RefreshWrites
    <2>1. Image(out_bytes)[reg] \in RegisterValues
      BY ImageType
    <2>2. chips' \in [Regs -> RegisterValues]
      BY <1>7, <2>1 DEF RefreshWrites, RegisterValues
    <2>3. reg' \in Regs
      <3>1. 0 \in Regs
        BY DEF Regs
      <3> QED BY <1>7, <3>1 DEF RefreshWrites
    <2>4. failed' \in SUBSET Regs
      BY <1>7 DEF RefreshWrites
    <2>5. out_bytes' \in Buffers
      BY <1>7, AllOffType DEF RefreshWrites
    <2> QED BY <1>7, <2>2, <2>3, <2>4, <2>5 DEF RefreshWrites, RegisterValues
  <1> QED BY <1>1, <1>2, <1>3, <1>4, <1>5, <1>6, <1>7 DEF PollNext

LEMMA NextMutexInv == MutexInv /\ [Next]_vars => MutexInv'
  <1> SUFFICES ASSUME MutexInv, [Next]_vars PROVE MutexInv'
    OBVIOUS
  <1>1. ASSUME NEW w \in Writers, WriterNext(w) PROVE MutexInv'
    BY <1>1, WriterKeepsMutexInv
  <1>2. CASE PollNext
    BY <1>2, PollKeepsMutexInv
  <1>3. CASE SupplyOff
    <2>1. chips' \in [Regs -> RegisterValues]
      BY <1>3, ImageType, AllOffType DEF SupplyOff
    <2>2. dips' \in 0 .. MaxDips
      BY <1>3, OutputsAssumption DEF SupplyOff, MutexInv, TypeOK
    <2>3. supply' \in {0, 1} /\ disturbed' \in BOOLEAN /\ failed' \in SUBSET Regs
      BY <1>3 DEF SupplyOff
    <2> QED
      BY <1>3, <2>1, <2>2, <2>3
      DEF SupplyOff, MutexInv, TypeOK, JobsGiven, OneHolder, RegisterValues, writerVars, pollVars
  <1>4. CASE SupplyOn
    BY <1>4
    DEF SupplyOn, MutexInv, TypeOK, JobsGiven, OneHolder, writerVars, pollVars, chipVars
  <1>5. CASE UNCHANGED vars
    BY <1>5
    DEF vars, MutexInv, TypeOK, JobsGiven, OneHolder, writerVars, pollVars, supplyVars, chipVars
  <1> QED BY <1>1, <1>2, <1>3, <1>4, <1>5 DEF Next

\* Types for every instance.
THEOREM TypeCorrect == Spec => []TypeOK
  <1>1. MutexInv => TypeOK
    BY DEF MutexInv
  <1> QED BY InitMutexInv, NextMutexInv, <1>1, PTL DEF Spec

\* Mutual exclusion for any number of writers, deleted ones included: whoever is
\* between take and give of the mutex holds it, and the poll task leaves
\* refresh_outputs without it on every path.
THEOREM MutexExcludes == Spec => []OneHolder
  <1>1. MutexInv => OneHolder
    BY DEF MutexInv
  <1> QED BY InitMutexInv, NextMutexInv, <1>1, PTL DEF Spec
-----------------------------------------------------------------------------
\* A mutex whose holder was deleted is never given back.
LEMMA OrphanedStays == MutexInv /\ [Next]_vars /\ Orphaned => Orphaned'
  <1> SUFFICES ASSUME MutexInv, [Next]_vars, Orphaned PROVE Orphaned'
    OBVIOUS
  <1> USE HoldersAssumption DEF MutexInv, TypeOK, OneHolder, Orphaned
  <1>1. mutex # "free" /\ mutex # "poll" /\ pc \notin {"hold", "copy"}
    OBVIOUS
  <1>2. ASSUME NEW w \in Writers, WriterNext(w) PROVE Orphaned'
    BY <1>1, <1>2
    DEF WriterNext, WriterRuns, Call, WriterTakes, WriterTimeout, WriterSets, WriterFlags,
        WriterGives, Delete
  <1>3. CASE PollNext
    BY <1>1, <1>3
    DEF PollNext, PollTop, Setup, FlagSetup, RefreshTakes, RefreshChecks, RefreshCopies,
        RefreshWrites, writerVars
  <1>4. CASE SupplyOff \/ SupplyOn \/ UNCHANGED vars
    BY <1>4 DEF SupplyOff, SupplyOn, vars, writerVars
  <1> QED BY <1>2, <1>3, <1>4 DEF Next

\* When a refresh has nothing left to catch up with: the hypothesis of
\* RefreshProgress.
Undisturbed ==
  /\ board_live_i2c_setup = 1 /\ ~disturbed /\ ~Orphaned
  /\ output_state_buffer_changed_flag = 0
  /\ \A w \in Writers : wpc[w] # "set"

\* What RefreshProgress then says.
Progress ==
  /\ pc \in {"top", "take", "hold"} => \A r \in Regs : Mirrors(r)
  /\ pc = "write" => /\ out_bytes = output_state_buffer
                     /\ \A r \in Regs : r < reg => Mirrors(r)

LEMMA ProgressMeaning == RefreshProgress <=> (Undisturbed => Progress)
  BY DEF RefreshProgress, Undisturbed, Progress

\* A writer that changes the buffer leaves a mark in the same step: it is in
\* "set" until the flag is, or dies with the mutex.
LEMMA WriterKeepsProgress ==
  ASSUME MutexInv, Undisturbed => Progress, NEW w \in Writers, WriterNext(w), Undisturbed'
  PROVE  Progress'
  <1> USE DEF MutexInv, TypeOK, pollVars, supplyVars, chipVars
  <1>1. UNCHANGED << pc, reg, out_bytes, chips, disturbed, failed, board_live_i2c_setup >>
    BY DEF WriterNext, WriterRuns, Call, WriterTakes, WriterTimeout, WriterSets, WriterFlags,
           WriterGives, Delete
  <1>2. ~Orphaned
    BY OrphanedStays DEF Undisturbed, Next
  <1>3. ~WriterFlags(w)
    BY DEF WriterFlags, FlagAfterWrite, Undisturbed
  <1>4. output_state_buffer_changed_flag = 0
    BY <1>3 DEF WriterNext, WriterRuns, Call, WriterTakes, WriterTimeout, WriterSets, WriterGives,
                Delete, Undisturbed
  <1>5. wpc[w] # "set"
    <2>1. CASE Delete(w)
      <3>1. wpc[w] = "set" => Orphaned'
        BY <2>1 DEF Delete, OneHolder, Orphaned
      <3> QED BY <3>1 DEF Undisturbed
    <2>2. CASE ~Delete(w)
      BY <1>3, <2>2 DEF WriterNext, WriterRuns, Call, WriterTakes, WriterTimeout, WriterSets,
                        WriterGives
    <2> QED BY <2>1, <2>2
  <1>6. \A u \in Writers : u # w => wpc[u] = wpc'[u]
    BY DEF WriterNext, WriterRuns, Call, WriterTakes, WriterTimeout, WriterSets, WriterFlags,
           WriterGives, Delete
  <1>7. Undisturbed
    BY <1>1, <1>2, <1>4, <1>5, <1>6 DEF Undisturbed
  <1>8. output_state_buffer' = output_state_buffer
    <2>1. CASE WriterSets(w)
      <3>1. wpc'[w] # "set"
        BY DEF Undisturbed
      <3>2. output_state_buffer[job[w][1]] = job[w][2]
        BY <2>1, <3>1 DEF WriterSets
      <3> QED BY <2>1, <3>2 DEF WriterSets, Buffers
    <2>2. CASE ~WriterSets(w)
      BY <2>2 DEF WriterNext, WriterRuns, Call, WriterTakes, WriterTimeout, WriterFlags,
                  WriterGives, Delete
    <2> QED BY <2>1, <2>2
  <1> QED BY <1>1, <1>7, <1>8 DEF Progress, Mirrors, Image

\* The registers up to one are those before it and itself.
LEMMA RegsUpTo == ASSUME NEW last \in Regs, NEW r \in Regs, r < last + 1, r # last PROVE r < last
  BY OutputsAssumption DEF Regs

\* Behind the last register there is none.
LEMMA LastReg ==
  ASSUME NEW last \in Regs, last + 1 \notin Regs, NEW r \in Regs
  PROVE  r < last + 1
  BY OutputsAssumption DEF Regs

\* One step per action of the poll task.
LEMMA PollKeepsProgress ==
  ASSUME MutexInv, Undisturbed => Progress, PollNext, Undisturbed'
  PROVE  Progress'
  <1> USE DEF MutexInv, TypeOK, writerVars, supplyVars, chipVars
  <1>1. ~Orphaned
    BY OrphanedStays DEF Undisturbed, Next
  <1>2. UNCHANGED << output_state_buffer, wpc >>
    BY DEF PollNext, PollTop, Setup, FlagSetup, RefreshTakes, RefreshChecks, RefreshCopies,
           RefreshWrites
  <1>3. \A w \in Writers : wpc[w] # "set"
    BY <1>2 DEF Undisturbed
  <1>4. CASE PollTop
    <2>1. Undisturbed
      BY <1>1, <1>3, <1>4 DEF PollTop, Undisturbed
    <2> QED BY <1>2, <1>4, <2>1 DEF PollTop, Progress, Mirrors, Image
  <1>5. CASE Setup
    BY <1>5 DEF Setup, Progress
  <1>6. CASE FlagSetup
    BY <1>1, <1>6 DEF FlagSetup, FlagAfterSetup, Undisturbed
  <1>7. CASE RefreshTakes
    <2>1. Undisturbed
      BY <1>1, <1>3, <1>7 DEF RefreshTakes, Undisturbed
    <2> QED BY <1>2, <1>7, <2>1 DEF RefreshTakes, Progress, Mirrors, Image
  <1>8. CASE RefreshChecks
    <2>1. CASE output_state_buffer_changed_flag = 0
      <3>1. Undisturbed
        BY <1>1, <1>3, <1>8, <2>1 DEF RefreshChecks, Undisturbed
      <3> QED BY <1>2, <1>8, <2>1, <3>1 DEF RefreshChecks, Progress, Mirrors, Image
    <2>2. CASE output_state_buffer_changed_flag = 1
      BY <1>8, <2>2 DEF RefreshChecks, Progress
    <2> QED BY <2>1, <2>2
  <1>9. CASE RefreshCopies
    \* Nothing is written yet; what will be is the buffer as it is now.
    <2>1. pc' = "write" /\ out_bytes' = output_state_buffer' /\ reg' = 0
      BY <1>9 DEF RefreshCopies
    <2>2. \A r \in Regs : ~(r < 0)
      BY DEF Regs
    <2> QED BY <2>1, <2>2 DEF Progress
  <1>10. CASE RefreshWrites
    <2>1. ~disturbed /\ pc = "write" /\ reg \in Regs /\ DOMAIN chips = Regs
      BY <1>10 DEF RefreshWrites, Undisturbed
    <2>2. Undisturbed
      BY <1>1, <1>3, <1>10, <2>1 DEF RefreshWrites, Undisturbed
    <2>3. /\ out_bytes = output_state_buffer
          /\ \A r \in Regs : r < reg => Mirrors(r)
      BY <2>1, <2>2 DEF Progress
    <2>4. Image(output_state_buffer)' = Image(output_state_buffer)
      BY <1>2 DEF Image
    \* The register is written, or its write has failed; the others are as before.
    <2>5. ASSUME NEW r \in Regs, r = reg PROVE Mirrors(r)'
      <3>1. \/ chips' = [chips EXCEPT ![reg] = Image(out_bytes)[reg]]
            \/ failed' = failed \cup {reg}
        BY <1>10, <2>1 DEF RefreshWrites
      <3>2. chips'[r] = Image(output_state_buffer)[r] \/ r \in failed'
        BY <2>1, <2>3, <2>5, <3>1
      <3> QED BY <2>4, <3>2 DEF Mirrors
    <2>6. \A r \in Regs : r # reg => chips'[r] = chips[r] /\ (r \in failed => r \in failed')
      BY <1>10 DEF RefreshWrites
    <2>7. \A r \in Regs : r < reg + 1 => Mirrors(r)'
      <3> SUFFICES ASSUME NEW r \in Regs, r < reg + 1 PROVE Mirrors(r)'
        OBVIOUS
      <3>1. CASE r = reg
        BY <2>5, <3>1
      <3>2. CASE r # reg
        <4>1. r < reg
          BY <3>2, RegsUpTo
        <4> QED BY <2>3, <2>4, <2>6, <3>2, <4>1 DEF Mirrors
      <3> QED BY <3>1, <3>2
    <2>8. CASE reg + 1 \in Regs
      <3>1. reg' = reg + 1 /\ pc' = "write"
        BY <1>10, <2>8 DEF RefreshWrites
      <3>2. out_bytes' = output_state_buffer'
        BY <1>2, <1>10, <2>3, <2>8 DEF RefreshWrites
      <3> QED BY <3>2, <2>1, <2>3, <2>7, <3>1 DEF Progress
    <2>9. CASE reg + 1 \notin Regs
      <3>1. \A r \in Regs : r < reg + 1
        BY <2>1, <2>9, LastReg
      <3>2. pc' = "top"
        BY <1>10, <2>9 DEF RefreshWrites
      <3> QED BY <2>7, <3>1, <3>2 DEF Progress
    <2> QED BY <2>8, <2>9
  <1> QED
    BY <1>4, <1>5, <1>6, <1>7, <1>8, <1>9, <1>10 DEF PollNext

LEMMA NextProgress == MutexInv /\ RefreshProgress /\ [Next]_vars => RefreshProgress'
  <1> SUFFICES ASSUME MutexInv, Undisturbed => Progress, [Next]_vars, Undisturbed'
               PROVE  Progress'
    BY ProgressMeaning DEF RefreshProgress, Undisturbed, Progress
  <1>1. ASSUME NEW w \in Writers, WriterNext(w) PROVE Progress'
    BY <1>1, WriterKeepsProgress
  <1>2. CASE PollNext
    BY <1>2, PollKeepsProgress
  <1>3. CASE SupplyOff
    BY <1>3 DEF SupplyOff, Undisturbed
  <1>4. CASE SupplyOn \/ UNCHANGED vars
    BY <1>4 DEF SupplyOn, vars, Undisturbed, Orphaned, Progress, Mirrors, Image, writerVars, pollVars,
                chipVars
  <1> QED BY <1>1, <1>2, <1>3, <1>4 DEF Next

LEMMA InitProgress == Init => RefreshProgress
  BY DEF Init, RefreshProgress

\* How far a refresh has brought the expanders, at every step of it and for
\* writers, failures and supply dips at any moment.
THEOREM RefreshProgresses == Spec => []RefreshProgress
  BY InitMutexInv, NextMutexInv, InitProgress, NextProgress, PTL DEF Spec

\* The changed flag can be relied on: with the flag clear, the mutex free and no
\* refresh under way the expanders show the buffer, but for registers whose last
\* write failed, unless the supply went off since they were set up.
THEOREM ChipsMirrorBuffer == Spec => []MirrorsAtRest
  <1>1. MutexInv /\ RefreshProgress => MirrorsAtRest
    <2> SUFFICES ASSUME MutexInv, RefreshProgress, pc = "top", board_live_i2c_setup = 1,
                        output_state_buffer_changed_flag = 0, mutex = "free", ~disturbed
                 PROVE  \A r \in Regs : Mirrors(r)
      BY DEF MirrorsAtRest
    <2>1. ~Orphaned /\ \A w \in Writers : wpc[w] # "set"
      BY HoldersAssumption DEF MutexInv, OneHolder, Orphaned
    <2> QED BY <2>1 DEF RefreshProgress
  <1> QED BY <1>1, InitMutexInv, NextMutexInv, InitProgress, NextProgress, PTL DEF Spec
=============================================================================
