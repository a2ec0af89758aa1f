---------------------------- MODULE SleepSetProofs ----------------------------
(***************************************************************************)
(* Proofs about the sleep sets of Dpor: the scheduler, in the process of   *)
(* the program under test, and the explorer, along the record, propagate   *)
(* the same sleep set from the branching point on.                         *)
(***************************************************************************)
EXTENDS TraceInvariant, DporProofs

\* At the branching point all of sleep is asleep.
LEMMA StillAsleepFirst ==
    ASSUME NEW p, NEW sleep, NEW e, NEW first \in Nat
    PROVE  StillAsleep(p, sleep, e, first, first) = sleep
    BY DEF StillAsleep

\* What still sleeps, from one transition to the next.
LEMMA StillAsleepNext ==
    ASSUME NEW p, NEW sleep, NEW e, NEW first \in Nat, NEW i \in Nat, i >= first
    PROVE  StillAsleep(p, sleep, e, first, i + 1)
               = WakeUp(StillAsleep(p, sleep, e, first, i), e[i].instr, p, e[i].post)
<1>1. first .. (i + 1) - 1 = (first .. i - 1) \cup {i}
    OBVIOUS
<1>2. \A t : (\A j \in first .. (i + 1) - 1 : ~Wakes(p, e[j], t))
                 <=> (\A j \in first .. i - 1 : ~Wakes(p, e[j], t)) /\ ~Wakes(p, e[i], t)
    BY <1>1
<1> QED
    BY <1>2 DEF StillAsleep, WakeUp, Wakes

\* It depends on the transitions so far only.
LEMMA StillAsleepSame ==
    ASSUME NEW p, NEW sleep, NEW d, NEW e, NEW first, NEW i,
           \A j \in first .. i - 1 : d[j] = e[j]
    PROVE  StillAsleep(p, sleep, d, first, i) = StillAsleep(p, sleep, e, first, i)
    BY DEF StillAsleep

\* The set of the branching point is on top of the stack until the record is read.
LEMMA TopOfStack ==
    ASSUME DporInv, phase \in BeforeUpdate
    PROVE  /\ Len(sufficient) = from
           /\ Last(sufficient) = sufficient[from]
           /\ from \in Nat \ {0}
           /\ mSchedule = <<>> => from = 1
           /\ mSchedule # <<>> => Len(mSchedule) = from
           /\ Len(mSchedule) \in Nat
<1>1. Len(sufficient) = from /\ from \in Nat \ {0} /\ Len(mSchedule) \in Nat
      /\ (mSchedule # <<>> => Len(mSchedule) = from)
      /\ (mSchedule = <<>> => mExecution = <<>> /\ from = Len(mExecution) + 1)
    BY DEF DporInv, Inv, TypeOK, SearchIsAligned
<1>2. mSchedule = <<>> => from = 1
    BY <1>1, EmptySeq
<1> QED
    BY <1>1, <1>2 DEF Last

-----------------------------------------------------------------------------
(* The run *)

\* The scheduler starts with the sleep set of the branching point.
LEMMA SleepStart ==
    ASSUME DporInv, SleepInv, DporStartRun
    PROVE  SleepInv'
<1>1. /\ phase = "loop" /\ phase' = "run" /\ recording' = <<>>
      /\ mSleep' = sufficient[from].sleep
      /\ UNCHANGED <<program, from, mSchedule, sufficient>>
      /\ from \in Nat \ {0} /\ Len(mSchedule) \in Nat /\ Len(recording') = 0
      /\ mSchedule = <<>> => from = 1
    BY TopOfStack, EmptySeq DEF DporStartRun, StartRun, BeforeUpdate
<1>2. SchedulerSleeps'
    <2>1. CASE mSchedule = <<>>
        <3>1. UpdatedSleep' = sufficient[from].sleep
            BY <1>1 DEF UpdatedSleep
        <3>2. SleepAlong(recording, Len(recording) + 1)' = sufficient[from].sleep
            BY <1>1, <2>1, StillAsleepFirst DEF SleepAlong
        <3> QED
            BY <1>1, <2>1, <3>1, <3>2, EmptySeq DEF SchedulerSleeps
    <2>2. CASE mSchedule # <<>>
        <3>1. Len(mSchedule) > 0
            BY <1>1, <2>2, TopOfStack DEF BeforeUpdate
        <3> QED
            BY <1>1, <3>1 DEF SchedulerSleeps
    <2> QED
        BY <2>1, <2>2
<1>3. StaysAwake(recording)'
    BY <1>1 DEF StaysAwake
<1> QED
    BY <1>1, <1>2, <1>3 DEF SleepInv, BeforeUpdate

\* One more transition of the run: the scheduler updates its sleep set by it.
LEMMA RunStepIs ==
    ASSUME DporInv, NEW t \in Tids, ProgramStep(t), NEW sleep
    PROVE  LET n == Len(recording)
               last == recording'[n + 1]
           IN  /\ n \in Nat /\ Len(recording') = n + 1 /\ last.instr.tid = t
               /\ UNCHANGED <<program, phase, mSchedule, from>>
               /\ UpdatedSleep' = WakeUp(mSleep', last.instr, program, last.post)
               /\ \A i \in 1 .. n + 1 : StillAsleep(program, sleep, recording', from, i)
                                          = StillAsleep(program, sleep, recording, from, i)
               /\ n + 1 >= from =>
                      StillAsleep(program, sleep, recording', from, n + 2)
                          = WakeUp(StillAsleep(program, sleep, recording, from, n + 1),
                                   last.instr, program, last.post)
<1> DEFINE n == Len(recording)
           last == recording'[n + 1]
<1>1. /\ n \in Nat /\ Len(recording') = n + 1
      /\ \A i \in 1 .. n : recording'[i] = recording[i]
      /\ last.instr.tid = t
      /\ from \in Nat \ {0}
      /\ UNCHANGED <<program, phase, mSchedule, from>>
    BY ProgramStepIs DEF DporInv, Inv, ExecutionsAreValid, ProgramStep, TypeOK
<1>2. recording' # <<>> /\ Last(recording') = last
    BY <1>1, EmptySeq DEF Last
<1>3. Final(recording') = last.post
    BY <1>2 DEF Final
<1>4. UpdatedSleep' = WakeUp(mSleep', last.instr, program, last.post)
    BY <1>1, <1>2, <1>3 DEF UpdatedSleep
<1>5. ASSUME NEW i \in 1 .. n + 1
      PROVE  StillAsleep(program, sleep, recording', from, i)
                 = StillAsleep(program, sleep, recording, from, i)
    <2>1. \A j \in from .. i - 1 : recording'[j] = recording[j]
        BY <1>1
    <2> QED
        BY <2>1, StillAsleepSame
<1>6. n + 1 >= from =>
          StillAsleep(program, sleep, recording', from, n + 2)
              = WakeUp(StillAsleep(program, sleep, recording', from, n + 1),
                       last.instr, program, last.post)
    <2>1. PICK i \in Nat : i = n + 1 /\ i + 1 = n + 2
        BY <1>1
    <2>2. ASSUME i >= from
          PROVE  StillAsleep(program, sleep, recording', from, i + 1)
                     = WakeUp(StillAsleep(program, sleep, recording', from, i),
                              recording'[i].instr, program, recording'[i].post)
        BY <1>1, <2>2, StillAsleepNext
    <2> QED
        BY <2>1, <2>2
<1> QED
    BY <1>1, <1>4, <1>5, <1>6

\* While the scheduler follows the schedule it leaves the sleep set alone; after the
\* last transition of it, it catches up.
LEMMA SleepReplay ==
    ASSUME DporInv, SleepInv, ReplayScheduled, UnchangedDpor
    PROVE  SleepInv'
<1> DEFINE n == Len(recording)
           sleep == sufficient[from].sleep
           last == recording'[n + 1]
           t == mSchedule[n + 1]
<1>1. /\ phase = "run" /\ n < Len(mSchedule) /\ ProgramStep(t)
      /\ UNCHANGED <<sufficient, mSleep>>
      /\ from \in Nat \ {0} /\ Len(mSchedule) = from /\ mSchedule # <<>>
      /\ n \in Nat /\ t \in Tids
    <2>1. phase = "run" /\ n < Len(mSchedule) /\ ProgramStep(t) /\ UNCHANGED <<sufficient, mSleep>>
        BY DEF ReplayScheduled, UnchangedDpor
    <2>2. n \in Nat /\ t \in Tids
        BY <2>1, ElementOfSeq DEF DporInv, Inv, TypeOK
    <2>3. mSchedule # <<>>
        BY <2>1, <2>2, EmptySeq
    <2> QED
        BY <2>1, <2>2, <2>3, TopOfStack DEF BeforeUpdate
<1>2. /\ Len(recording') = n + 1 /\ last.instr.tid = t
      /\ UNCHANGED <<program, phase, mSchedule, from>>
      /\ UpdatedSleep' = WakeUp(mSleep', last.instr, program, last.post)
      /\ \A i \in 1 .. n + 1 : StillAsleep(program, sleep, recording', from, i)
                                 = StillAsleep(program, sleep, recording, from, i)
      /\ n + 1 >= from =>
             StillAsleep(program, sleep, recording', from, n + 2)
                 = WakeUp(StillAsleep(program, sleep, recording, from, n + 1),
                          last.instr, program, last.post)
    BY <1>1, RunStepIs
<1>3. StillAsleep(program, sleep, recording, from, from) = sleep
    BY <1>1, StillAsleepFirst
<1>4. mSleep = sleep /\ (n + 1 = from => t \notin sleep)
    BY <1>1 DEF SleepInv, SchedulerSleeps, BeforeUpdate
<1>5. SchedulerSleeps'
    <2>1. CASE n + 1 < from
        BY <1>1, <1>2, <1>4, <2>1 DEF SchedulerSleeps
    <2>2. CASE n + 1 = from
        <3>1. UpdatedSleep' = StillAsleep(program, sleep, recording', from, n + 2)
            BY <1>1, <1>2, <1>3, <1>4, <2>2
        <3>2. SleepAlong(recording, Len(recording) + 1)'
                  = StillAsleep(program, sleep, recording', from, n + 2)
            <4>1. Len(recording') + 1 = n + 2
                BY <1>1, <1>2
            <4> QED
                BY <1>1, <1>2, <4>1 DEF SleepAlong
        <3> QED
            BY <1>1, <1>2, <2>2, <3>1, <3>2 DEF SchedulerSleeps
    <2> QED
        BY <1>1, <2>1, <2>2
<1>6. StaysAwake(recording)'
    <2>1. SUFFICES ASSUME NEW i \in from .. n + 1
                   PROVE  recording'[i].instr.tid
                              \notin StillAsleep(program, sleep, recording', from, i)
        BY <1>1, <1>2 DEF StaysAwake, SleepAlong
    <2>2. i = from /\ n + 1 = from /\ i \in 1 .. n + 1
        BY <1>1
    <2> QED
        BY <1>2, <1>3, <1>4, <2>2
<1> QED
    BY <1>1, <1>2, <1>5, <1>6 DEF SleepInv, BeforeUpdate

\* The scheduler selects a thread that is awake, and propagates its sleep set.
LEMMA SleepSelect ==
    ASSUME DporInv, SleepInv, DporSelectThread
    PROVE  SleepInv'
<1> DEFINE n == Len(recording)
           sleep == sufficient[from].sleep
           last == recording'[n + 1]
<1>1. PICK t \in NonPreemptive(recording, AwakeSelection) : SelectThread(t)
    BY DEF DporSelectThread
<1>2. /\ phase = "run" /\ n >= Len(mSchedule) /\ ProgramStep(t)
      /\ mSleep' = UpdatedSleep /\ UNCHANGED sufficient
    BY <1>1 DEF DporSelectThread, SelectThread
<1>3. t \in Tids /\ t \notin UpdatedSleep
    BY <1>1 DEF NonPreemptive, AwakeSelection, Awake, Enabled
<1>4. from \in Nat \ {0} /\ Len(mSchedule) \in Nat /\ n \in Nat /\ n + 1 >= from
    <2>1. n \in Nat
        BY DEF DporInv, Inv, TypeOK
    <2> QED
        BY <1>2, <2>1, TopOfStack DEF BeforeUpdate
<1>5. /\ Len(recording') = n + 1 /\ last.instr.tid = t
      /\ UNCHANGED <<program, phase, mSchedule, from>>
      /\ UpdatedSleep' = WakeUp(mSleep', last.instr, program, last.post)
      /\ \A i \in 1 .. n + 1 : StillAsleep(program, sleep, recording', from, i)
                                 = StillAsleep(program, sleep, recording, from, i)
      /\ StillAsleep(program, sleep, recording', from, n + 2)
             = WakeUp(StillAsleep(program, sleep, recording, from, n + 1),
                      last.instr, program, last.post)
    BY <1>2, <1>3, <1>4, RunStepIs
<1>6. UpdatedSleep = StillAsleep(program, sleep, recording, from, n + 1)
    BY <1>2, <1>4 DEF SleepInv, SchedulerSleeps, SleepAlong
<1>7. SchedulerSleeps'
    <2>1. Len(recording') + 1 = n + 2 /\ Len(recording') >= Len(mSchedule')
        BY <1>2, <1>4, <1>5
    <2>2. SleepAlong(recording, Len(recording) + 1)'
              = StillAsleep(program, sleep, recording', from, n + 2)
        BY <1>2, <1>5, <2>1 DEF SleepAlong
    <2>3. UpdatedSleep' = SleepAlong(recording, Len(recording) + 1)'
        BY <1>2, <1>5, <1>6, <2>2
    <2> QED
        BY <1>4, <1>5, <2>1, <2>3 DEF SchedulerSleeps
<1>8. StaysAwake(recording)'
    <2>1. SUFFICES ASSUME NEW i \in from .. n + 1
                   PROVE  recording'[i].instr.tid
                              \notin StillAsleep(program, sleep, recording', from, i)
        BY <1>2, <1>5 DEF StaysAwake, SleepAlong
    <2>2. CASE i = n + 1
        BY <1>3, <1>4, <1>5, <1>6, <2>2
    <2>3. CASE i \in from .. n
        <3>1. recording'[i] = recording[i] /\ i \in 1 .. n + 1
            BY <1>2, <1>3, <1>4, <2>3, ProgramStepIs DEF DporInv, Inv, ExecutionsAreValid
        <3>2. recording[i].instr.tid \notin StillAsleep(program, sleep, recording, from, i)
            BY <1>2, <2>3 DEF SleepInv, StaysAwake, SleepAlong
        <3> QED
            BY <1>5, <3>1, <3>2
    <2> QED
        BY <1>4, <2>2, <2>3
<1> QED
    BY <1>2, <1>5, <1>7, <1>8 DEF SleepInv, BeforeUpdate

\* A run that is cut short has all enabled threads asleep.
LEMMA SleepRunEnds ==
    ASSUME DporInv, SleepInv, DporBlocked \/ DporRunEnds \/ (RunFails /\ UnchangedDpor)
    PROVE  SleepInv'
<1>1. /\ phase = "run" /\ phase' = "read"
      /\ UNCHANGED <<program, mSchedule, from, recording, sufficient>>
    BY DEF DporBlocked, DporRunEnds, RunEnds, RunFails, UnchangedDpor
<1>2. StaysAwake(recording)'
    BY <1>1 DEF SleepInv, StaysAwake, SleepAlong
<1>3. mSchedule' # <<>> => mSchedule'[from'] \notin sufficient'[from'].sleep
    BY <1>1 DEF SleepInv, BeforeUpdate
<1>4. failures' = 0 /\ record'.status = "BLOCKED" => EndsAsleep(recording)'
    <2>1. CASE DporBlocked
        <3>1. Len(recording) \in Nat /\ Len(mSchedule) \in Nat /\ Len(recording) >= Len(mSchedule)
            BY <2>1 DEF DporBlocked, RunEnds, DporInv, Inv, TypeOK
        <3>2. UpdatedSleep = SleepAlong(recording, Len(recording) + 1)
            BY <1>1, <3>1 DEF SleepInv, SchedulerSleeps
        <3>3. Enabled(program, Final(recording)) \subseteq UpdatedSleep
            BY <2>1 DEF DporBlocked, AwakeSelection, Awake
        <3> QED
            BY <1>1, <3>2, <3>3 DEF EndsAsleep, SleepAlong
    <2>2. CASE DporRunEnds
        BY <2>2 DEF DporRunEnds, RunEnds
    <2>3. CASE RunFails
        <3>1. failures' # 0
            BY <2>3 DEF RunFails, DporInv, Inv, TypeOK
        <3> QED
            BY <3>1
    <2> QED
        BY <2>1, <2>2, <2>3
<1> QED
    BY <1>1, <1>2, <1>3, <1>4 DEF SleepInv, SchedulerSleeps, BeforeUpdate

-----------------------------------------------------------------------------
(* The explorer *)

\* The record that is read is that of the run, unless one has failed.
LEMMA SleepRead ==
    ASSUME DporInv, SleepInv, DporReadRecord
    PROVE  SleepInv'
<1>1. /\ phase = "read" /\ phase' = "update" /\ mExecution' = record.transitions
    BY DEF DporReadRecord, ReadRecord
<1>2. UNCHANGED <<program, from, record, sufficient, failures>>
    BY DEF DporReadRecord, ReadRecord
<1>3. Len(sufficient) = from /\ from \in Nat \ {0}
    BY <1>1, TopOfStack DEF BeforeUpdate
<1>4. \A k \in from' .. Len(sufficient') : sufficient'[k].sleep = SleepAlong(mExecution, k)'
    BY <1>2, <1>3, StillAsleepFirst DEF SleepAlong
<1>5. failures' = 0 =>
          /\ StaysAwake(mExecution)'
          /\ record'.status = "BLOCKED" => EndsAsleep(mExecution)'
    <2>1. SUFFICES ASSUME failures = 0
                   PROVE  /\ StaysAwake(mExecution)'
                          /\ record.status = "BLOCKED" => EndsAsleep(mExecution)'
        BY <1>2
    <2>2. mExecution' = recording
        BY <1>1, <2>1 DEF DporInv, Inv, RecordIsFresh
    <2> QED
        BY <1>1, <1>2, <2>1, <2>2 DEF SleepInv, StaysAwake, EndsAsleep, SleepAlong
<1> QED
    BY <1>1, <1>4, <1>5 DEF SleepInv, SchedulerSleeps, BeforeUpdate

\* The explorer propagates the sleep set over each new transition.
LEMMA SleepUpdate ==
    ASSUME ValidPrograms, DporInv, SleepInv, DporUpdateTransition
    PROVE  SleepInv'
<1> DEFINE n == Len(sufficient)
<1>1. /\ phase = "update" /\ phase' = "update"
      /\ UNCHANGED <<program, from, mExecution, record, failures>>
      /\ n = index /\ n \in Nat \ {0} /\ from \in 1 .. n /\ from \in Nat \ {0}
    BY DEF DporUpdateTransition, UpdateTransition, DporInv, Inv, TypeOK, SearchIsAligned
<1>2. /\ Len(sufficient') = n + 1
      /\ \A i \in 1 .. n : sufficient'[i].sleep = sufficient[i].sleep
      /\ sufficient'[n + 1] = NewSufficientSet
    BY DporUpdateIs
<1>3. sufficient'[from'].sleep = sufficient[from].sleep
    BY <1>1, <1>2
<1>4. \A i : SleepAlong(mExecution, i)' = SleepAlong(mExecution, i)
    BY <1>1, <1>3 DEF SleepAlong
<1>5. sufficient'[n + 1].sleep = SleepAlong(mExecution, n + 1)
    <2>1. sufficient[n].sleep = SleepAlong(mExecution, n)
        BY <1>1 DEF SleepInv
    <2>2. sufficient'[n + 1].sleep
              = WakeUp(SleepAlong(mExecution, n), mExecution[n].instr, program, mExecution[n].post)
        BY <1>1, <1>2, <2>1 DEF NewSufficientSet, Last
    <2>3. StillAsleep(program, sufficient[from].sleep, mExecution, from, n + 1)
              = WakeUp(StillAsleep(program, sufficient[from].sleep, mExecution, from, n),
                       mExecution[n].instr, program, mExecution[n].post)
        <3>1. n \in Nat /\ from \in Nat /\ n >= from
            BY <1>1
        <3> QED
            BY <3>1, StillAsleepNext
    <2> QED
        BY <2>2, <2>3 DEF SleepAlong
<1>6. \A k \in from' .. Len(sufficient') : sufficient'[k].sleep = SleepAlong(mExecution, k)'
    <2>1. SUFFICES ASSUME NEW k \in from .. n + 1
                   PROVE  sufficient'[k].sleep = SleepAlong(mExecution, k)
        BY <1>1, <1>2, <1>4
    <2>2. k = n + 1 \/ k \in from .. n
        BY <1>1
    <2>3. CASE k \in from .. n
        BY <1>1, <1>2, <2>3 DEF SleepInv
    <2> QED
        BY <1>5, <2>2, <2>3
<1>7. failures' = 0 =>
          /\ StaysAwake(mExecution)'
          /\ record'.status = "BLOCKED" => EndsAsleep(mExecution)'
    BY <1>1, <1>4 DEF SleepInv, StaysAwake, EndsAsleep
<1> QED
    BY <1>1, <1>6, <1>7 DEF SleepInv, SchedulerSleeps, BeforeUpdate

\* The thread scheduled next is awake.
LEMMA SleepScheduleNext ==
    ASSUME DporInv, SleepInv, DporScheduleNext
    PROVE  SleepInv'
<1>1. PICK next \in Tids : ScheduleNext(next) /\ next \in DporUndone
    BY DEF DporScheduleNext
<1>2. next \notin Last(sufficient').sleep
    BY <1>1 DEF DporUndone, Undone, Awake, DporScheduleNext, DporPopBack
<1>3. /\ phase' = "loop"
      /\ Len(sufficient') = Len(mExecution)
    BY <1>1, PoppedSufficientIs DEF ScheduleNext, DporScheduleNext, DporPopBack
<1>4. Len(mSchedule') = Len(mExecution) /\ mSchedule'[Len(mExecution)] = next
      /\ from' = Len(mExecution)
    <2>1. /\ mSchedule' = Append(Front(mSchedule), next) /\ from' = Len(mSchedule')
          /\ Len(mSchedule) = Len(mExecution) /\ Len(mExecution) \in Nat \ {0}
          /\ mSchedule \in Seq(Tids)
        <3>1. PopBack /\ mSchedule = ScheduleOf(mExecution) /\ mExecution \in Seq(Transitions)
              /\ mSchedule \in Seq(Tids)
            BY <1>1 DEF ScheduleNext, PopBack, DporInv, Inv, TypeOK, SearchIsAligned
        <3> QED
            BY <1>1, <3>1, PopBackIs, ScheduleIs DEF ScheduleNext, DporInv, Inv
    <2>2. Front(mSchedule) \in Seq(Tids) /\ Len(Front(mSchedule)) = Len(mExecution) - 1
        BY <2>1, FrontIs, EmptySeq
    <2> QED
        BY <2>1, <2>2, AppendIs
<1>5. mSchedule'[from'] \notin sufficient'[from'].sleep
    BY <1>2, <1>3, <1>4 DEF Last
<1> QED
    BY <1>3, <1>5 DEF SleepInv, SchedulerSleeps, BeforeUpdate

\* Every step preserves the invariant of the sleep sets.
LEMMA SleepInvStep ==
    ASSUME ValidPrograms, DporInv, SleepInv, [DporNext]_dporVars
    PROVE  SleepInv'
<1>1. CASE DporRestoreTransition
    BY <1>1 DEF DporRestoreTransition, RestoreTransition, SleepInv, SchedulerSleeps, BeforeUpdate,
       StaysAwake, EndsAsleep, SleepAlong
<1>2. CASE DporInvalidProgram \/ DporBacktrackFurther
    BY <1>2 DEF DporInvalidProgram, InvalidProgram, DporBacktrackFurther, BacktrackFurther, PopBack,
       SleepInv, SchedulerSleeps, BeforeUpdate
<1>3. CASE LimitReached \/ RecordMissing \/ FinishUpdate
    BY <1>3 DEF LimitReached, RecordMissing, FinishUpdate, SleepInv, SchedulerSleeps, BeforeUpdate
<1>4. CASE Exhausted
    <2>1. mSchedule = <<>>
        <3>1. mSchedule = ScheduleOf(mExecution) /\ mExecution = <<>>
            BY <1>4 DEF Exhausted, DporInv, Inv, SearchIsAligned
        <3> QED
            BY <3>1, ScheduleIs, EmptySeq DEF DporInv, Inv, TypeOK
    <2> QED
        BY <1>4, <2>1 DEF Exhausted, SleepInv, SchedulerSleeps, BeforeUpdate
<1>5. CASE Terminated
    BY <1>5 DEF Terminated, Terminal, explorationVars, SleepInv, SchedulerSleeps, BeforeUpdate
<1>6. CASE UNCHANGED dporVars
    BY <1>6 DEF dporVars, explorationVars, SleepInv, SchedulerSleeps, StaysAwake, EndsAsleep,
       SleepAlong, UpdatedSleep
<1>7. CASE ReplayScheduled /\ UnchangedDpor
    BY <1>7, SleepReplay
<1>8. CASE DporBlocked \/ DporRunEnds \/ (RunFails /\ UnchangedDpor)
    BY <1>8, SleepRunEnds
<1>9. CASE DporStartRun \/ DporSelectThread
    BY <1>9, SleepStart, SleepSelect
<1>10. CASE DporReadRecord \/ DporUpdateTransition \/ DporScheduleNext
    BY <1>10, SleepRead, SleepUpdate, SleepScheduleNext
<1> QED
    BY <1>1, <1>2, <1>3, <1>4, <1>5, <1>6, <1>7, <1>8, <1>9, <1>10 DEF DporNext

-----------------------------------------------------------------------------
(* The sleep sets on the stack *)

\* What still sleeps is not more than what slept.
LEMMA StillAsleepGrows ==
    ASSUME NEW p, NEW s1, NEW s2, s1 \subseteq s2, NEW instr, NEW s
    PROVE  WakeUp(s1, instr, p, s) \subseteq WakeUp(s2, instr, p, s)
    BY DEF WakeUp

\* Backtracking puts the thread that was explored to sleep, and nothing else.
LEMMA PoppedSleepIs ==
    ASSUME DporInv, PopBack
    PROVE  LET n == Len(mExecution)
           IN  /\ n \in Nat \ {0}
               /\ Len(PoppedSufficient) = n
               /\ \A i \in 1 .. n - 1 : PoppedSufficient[i].sleep = sufficient[i].sleep
               /\ PoppedSufficient[n].sleep = sufficient[n].sleep \cup {mExecution[n].instr.tid}
<1> DEFINE n == Len(mExecution)
           marked == [sufficient[n] EXCEPT !.sleep = @ \cup {Last(mExecution).instr.tid}]
           all == [sufficient EXCEPT ![n] = marked]
<1>1. n \in Nat \ {0} /\ Len(sufficient) = n + 1 /\ sufficient \in Seq(SufficientSets)
      /\ Last(mExecution) = mExecution[n]
    <2>1. mExecution \in Seq(Transitions) /\ mExecution # <<>>
        BY DEF DporInv, Inv, TypeOK, PopBack
    <2> QED
        BY <2>1, PopBackIs, LastIs DEF DporInv, Inv
<1>2. sufficient[n] \in SufficientSets
    BY <1>1, ElementOfSeq
<1>3. marked \in SufficientSets /\ marked.sleep = sufficient[n].sleep \cup {mExecution[n].instr.tid}
    BY <1>1, <1>2, PopBackType DEF SufficientSets, DporInv, Inv
<1>4. PoppedSufficient = Front(all)
    BY DEF PoppedSufficient
<1> HIDE DEF n, marked
<1>5. /\ all \in Seq(SufficientSets)
      /\ Len(all) = n + 1
      /\ \A i \in 1 .. n + 1 : all[i] = IF i = n THEN marked ELSE sufficient[i]
    BY <1>1, <1>3, ExceptSeq
<1> HIDE DEF all
<1>6. /\ Len(PoppedSufficient) = n
      /\ \A i \in 1 .. n : PoppedSufficient[i] = all[i]
    <2>1. all # <<>>
        BY <1>1, <1>5, EmptySeq
    <2> QED
        BY <1>1, <1>4, <1>5, <2>1, FrontIs
<1> QED
    BY <1>1, <1>3, <1>5, <1>6 DEF n

\* A step that goes on with the search goes on from one that did, and a failure is
\* not forgotten.
LEMMA SearchGoesOn ==
    ASSUME DporInv, [DporNext]_dporVars
    PROVE  /\ phase' \in Running => phase \in Running
           /\ failures' = 0 => failures = 0
<1>1. failures \in Nat
    BY DEF DporInv, Inv, TypeOK
<1>2. CASE (LimitReached \/ ReplayScheduled \/ RunFails \/ RecordMissing \/ FinishUpdate
            \/ Exhausted \/ Terminated) /\ UnchangedDpor
    BY <1>1, <1>2 DEF LimitReached, ReplayScheduled, ProgramStep, RunFails, RecordMissing,
       FinishUpdate, Exhausted, Terminated, explorationVars, Running
<1>3. CASE DporStartRun \/ DporSelectThread \/ DporBlocked \/ DporRunEnds \/ DporRestoreTransition
    BY <1>3 DEF DporStartRun, StartRun, DporSelectThread, SelectThread, ProgramStep,
       DporBlocked, DporRunEnds, RunEnds, DporRestoreTransition, RestoreTransition, Running
<1>4. CASE DporScheduleNext \/ DporBacktrackFurther
    BY <1>4 DEF DporScheduleNext, ScheduleNext, DporBacktrackFurther, BacktrackFurther, PopBack,
       Running
<1>5. CASE DporReadRecord \/ DporInvalidProgram \/ DporUpdateTransition
    BY <1>5 DEF DporReadRecord, ReadRecord, DporInvalidProgram, InvalidProgram,
       DporUpdateTransition, UpdateTransition, Running
<1>6. CASE UNCHANGED dporVars
    BY <1>6 DEF dporVars, explorationVars
<1> QED
    BY <1>2, <1>3, <1>4, <1>5, <1>6 DEF DporNext

\* The record that is read repeats the branch, and goes on with a thread that is
\* awake.
LEMMA TraceInvRead ==
    ASSUME DporInv, SleepInv, TraceInv, DporReadRecord
    PROVE  TraceInv'
<1> DEFINE n == Len(mExecution)
           e == record.transitions
<1>1. /\ phase = "read" /\ mExecution' = e /\ record # NoRecord
      /\ UNCHANGED <<program, failures, dfsState, sufficient>>
    BY DEF DporReadRecord, ReadRecord
<1>2. /\ n \in Nat /\ Len(sufficient) = n + 1 /\ Len(dfsState) = n + 1 /\ from = n + 1
    BY <1>1 DEF DporInv, Inv, TypeOK, SearchIsAligned, BeforeUpdate
<1>3. Len(e) \in Nat /\ Len(e) >= n /\ \A i \in 1 .. n : e[i] = mExecution[i]
    BY <1>1 DEF DporInv, Inv, TypeOK, RecordExtendsSearch, Running
<1>4. DoneSleeps'
    BY <1>1 DEF TraceInv, DoneSleeps, Running
<1>5. SleepIsKept'
    <2> SUFFICES ASSUME NEW k \in 1 .. n + 1, NEW j \in 1 .. k
                 PROVE  StillAsleep(program, sufficient[j].sleep, e, j, k) \subseteq sufficient[k].sleep
        BY <1>1, <1>2 DEF SleepIsKept
    <2>1. \A i \in j .. k - 1 : e[i] = mExecution[i]
        BY <1>2, <1>3
    <2>2. StillAsleep(program, sufficient[j].sleep, mExecution, j, k) \subseteq sufficient[k].sleep
        BY <1>1, <1>2 DEF TraceInv, SleepIsKept, Running
    <2> QED
        BY <2>1, <2>2, StillAsleepSame
<1>6. BranchIsAwake'
    <2> SUFFICES ASSUME failures = 0, NEW i \in 1 .. Len(e), i <= n + 1
                 PROVE  e[i].instr.tid \notin sufficient[i].sleep
        BY <1>1, <1>2 DEF BranchIsAwake
    <2>1. CASE i <= n
        BY <1>1, <1>2, <1>3, <2>1 DEF TraceInv, BranchIsAwake, Running
    <2>2. CASE i = n + 1
        <3>1. e = recording /\ StaysAwake(recording)
            BY <1>1 DEF DporInv, Inv, RecordIsFresh, SleepInv
        <3>2. i \in from .. Len(recording)
            BY <1>2, <1>3, <2>2, <3>1
        <3>3. recording[i].instr.tid \notin SleepAlong(recording, i)
            BY <3>1, <3>2 DEF StaysAwake
        <3>4. SleepAlong(recording, i) = sufficient[i].sleep
            BY <1>2, <2>2, StillAsleepFirst DEF SleepAlong
        <3> QED
            BY <3>1, <3>3, <3>4
    <2> QED
        BY <1>2, <2>1, <2>2
<1> QED
    BY <1>4, <1>5, <1>6 DEF TraceInv

\* A new state takes over what its predecessor has asleep, but for what wakes up.
LEMMA TraceInvUpdate ==
    ASSUME ValidPrograms, DporInv, SleepInv, TraceInv, DporUpdateTransition
    PROVE  TraceInv'
<1> DEFINE n == Len(sufficient)
<1>1. /\ phase = "update" /\ phase' = "update" /\ index <= Len(mExecution)
      /\ UNCHANGED <<program, from, mExecution, failures>>
      /\ n = index /\ n \in Nat \ {0} /\ from \in 1 .. n
      /\ Len(dfsState) = n /\ dfsState' = Append(dfsState, {}) /\ dfsState \in Seq(SUBSET Tids)
      /\ Len(mExecution) \in Nat
    BY DEF DporUpdateTransition, UpdateTransition, DporInv, Inv, TypeOK, SearchIsAligned
<1>2. /\ Len(sufficient') = n + 1
      /\ \A i \in 1 .. n : sufficient'[i].sleep = sufficient[i].sleep
      /\ sufficient'[n + 1] = NewSufficientSet
    BY DporUpdateIs
<1>3. sufficient'[n + 1].sleep
          = WakeUp(sufficient[n].sleep, mExecution[n].instr, program, mExecution[n].post)
    BY <1>1, <1>2 DEF NewSufficientSet, Last
<1>4. SleepInv'
    BY SleepUpdate
<1> HIDE DEF n
<1>5. DoneSleeps'
    <2>1. /\ Len(dfsState') = n + 1 /\ dfsState'[n + 1] = {}
          /\ \A k \in 1 .. n : dfsState'[k] = dfsState[k]
        BY <1>1, AppendIs
    <2>2. \A k \in 1 .. n : dfsState[k] \subseteq sufficient[k].sleep
        BY <1>1 DEF TraceInv, DoneSleeps, Running
    <2>3. \A k \in 1 .. n + 1 : k = n + 1 \/ k \in 1 .. n
        BY <1>1
    <2> QED
        BY <1>2, <2>1, <2>2, <2>3 DEF DoneSleeps
<1>6. SleepIsKept'
    <2> SUFFICES ASSUME NEW k \in 1 .. n + 1, NEW j \in 1 .. k
                 PROVE  StillAsleep(program, sufficient'[j].sleep, mExecution, j, k)
                            \subseteq sufficient'[k].sleep
        BY <1>1, <1>2 DEF SleepIsKept
    <2>1. CASE j = k
        <3>1. j \in Nat
            OBVIOUS
        <3> QED
            BY <2>1, <3>1, StillAsleepFirst
    <2>2. CASE k \in 1 .. n
        <3>1. j \in 1 .. n /\ k <= Len(mExecution) + 1
            BY <1>1, <2>2
        <3>2. StillAsleep(program, sufficient[j].sleep, mExecution, j, k) \subseteq sufficient[k].sleep
            BY <1>1, <2>2, <3>1 DEF TraceInv, SleepIsKept, Running, n
        <3> QED
            BY <1>2, <2>2, <3>1, <3>2
    <2>3. CASE k = n + 1 /\ j \in 1 .. n
        <3>1. StillAsleep(program, sufficient[j].sleep, mExecution, j, n) \subseteq sufficient[n].sleep
            BY <1>1, <2>3 DEF TraceInv, SleepIsKept, Running, n
        <3>2. j \in Nat /\ n \in Nat /\ n >= j
            BY <1>1, <2>3
        <3>3. StillAsleep(program, sufficient[j].sleep, mExecution, j, n + 1)
                  = WakeUp(StillAsleep(program, sufficient[j].sleep, mExecution, j, n),
                           mExecution[n].instr, program, mExecution[n].post)
            BY <3>2, StillAsleepNext
        <3> QED
            BY <1>2, <1>3, <2>3, <3>1, <3>3, StillAsleepGrows
    <2> QED
        BY <1>1, <2>1, <2>2, <2>3
<1>7. BranchIsAwake'
    <2> SUFFICES ASSUME failures = 0, NEW i \in 1 .. Len(mExecution), i <= n + 1
                 PROVE  mExecution[i].instr.tid \notin sufficient'[i].sleep
        BY <1>1, <1>2 DEF BranchIsAwake
    <2>1. CASE i <= n
        BY <1>1, <1>2, <2>1 DEF TraceInv, BranchIsAwake, Running, n
    <2>2. CASE i = n + 1
        <3>1. i \in from .. Len(mExecution) /\ i \in from .. Len(sufficient')
            BY <1>1, <1>2, <2>2
        <3>2. /\ sufficient'[i].sleep = SleepAlong(mExecution, i)'
              /\ mExecution[i].instr.tid \notin SleepAlong(mExecution, i)'
            BY <1>1, <1>4, <3>1 DEF SleepInv, StaysAwake
        <3> QED
            BY <3>2
    <2> QED
        BY <1>1, <2>1, <2>2
<1> QED
    BY <1>5, <1>6, <1>7 DEF TraceInv

\* Backtracking leaves what sleeps in the states that are left, and puts the thread
\* that is done to sleep.
LEMMA TraceInvPop ==
    ASSUME DporInv, TraceInv, PopBack, sufficient' = PoppedSufficient
    PROVE  TraceInv'
<1> DEFINE n == Len(mExecution)
<1>1. /\ n \in Nat \ {0}
      /\ Len(sufficient') = n
      /\ \A i \in 1 .. n - 1 : sufficient'[i].sleep = sufficient[i].sleep
      /\ sufficient'[n].sleep = sufficient[n].sleep \cup {mExecution[n].instr.tid}
    BY PoppedSleepIs
<1>2. /\ Len(dfsState') = n /\ Len(mExecution') = n - 1
      /\ \A i \in 1 .. n - 1 : mExecution'[i] = mExecution[i]
      /\ \A i \in 1 .. n - 1 : dfsState'[i] = dfsState[i]
      /\ dfsState'[n] = dfsState[n] \cup {mExecution[n].instr.tid}
      /\ Len(dfsState) = n + 1
    BY PopBackIs DEF DporInv, Inv
<1>3. phase \in Running /\ UNCHANGED <<program, failures>> /\ Len(sufficient) = n + 1
    BY <1>2 DEF PopBack, Running, DporInv
<1> HIDE DEF n
<1>4. DoneSleeps'
    <2>1. \A k \in 1 .. n : dfsState[k] \subseteq sufficient[k].sleep
        BY <1>1, <1>2, <1>3 DEF TraceInv, DoneSleeps
    <2>2. \A k \in 1 .. n : k = n \/ k \in 1 .. n - 1
        BY <1>1
    <2> QED
        BY <1>1, <1>2, <2>1, <2>2 DEF DoneSleeps
<1>5. SleepIsKept'
    <2> SUFFICES ASSUME NEW k \in 1 .. n, NEW j \in 1 .. k
                 PROVE  StillAsleep(program, sufficient'[j].sleep, mExecution', j, k)
                            \subseteq sufficient'[k].sleep
        BY <1>1, <1>3 DEF SleepIsKept
    <2>1. CASE j = k
        <3>1. j \in Nat
            OBVIOUS
        <3> QED
            BY <2>1, <3>1, StillAsleepFirst
    <2>2. CASE j < k
        <3>1. \A i \in j .. k - 1 : mExecution'[i] = mExecution[i]
            BY <1>1, <1>2
        <3>2. j \in 1 .. n - 1 /\ k <= n + 1 /\ k \in 1 .. n + 1
            BY <1>1, <2>2
        <3>3. StillAsleep(program, sufficient[j].sleep, mExecution, j, k) \subseteq sufficient[k].sleep
            BY <1>3, <3>2 DEF TraceInv, SleepIsKept, n
        <3>4. sufficient[k].sleep \subseteq sufficient'[k].sleep
            <4>1. k = n \/ k \in 1 .. n - 1
                BY <1>1
            <4> QED
                BY <1>1, <4>1
        <3> QED
            BY <1>1, <3>1, <3>2, <3>3, <3>4, StillAsleepSame
    <2> QED
        BY <1>1, <2>1, <2>2
<1>6. BranchIsAwake'
    <2> SUFFICES ASSUME failures = 0, NEW i \in 1 .. n - 1
                 PROVE  mExecution'[i].instr.tid \notin sufficient'[i].sleep
        BY <1>1, <1>2, <1>3 DEF BranchIsAwake
    <2>1. i \in 1 .. n /\ i <= n + 1
        BY <1>1
    <2> QED
        BY <1>1, <1>2, <1>3, <2>1 DEF TraceInv, BranchIsAwake, n
<1> QED
    BY <1>4, <1>5, <1>6 DEF TraceInv

\* Every step preserves the invariant of the sleep sets on the stack.
LEMMA TraceInvStep ==
    ASSUME ValidPrograms, DporInv, SleepInv, TraceInv, [DporNext]_dporVars
    PROVE  TraceInv'
<1>1. CASE UNCHANGED <<program, mExecution, dfsState, sufficient>>
    BY <1>1, SearchGoesOn DEF TraceInv, DoneSleeps, SleepIsKept, BranchIsAwake
<1>2. CASE DporReadRecord
    BY <1>2, TraceInvRead
<1>3. CASE DporInvalidProgram
    BY <1>3 DEF DporInvalidProgram, InvalidProgram, Running, TraceInv, DoneSleeps, SleepIsKept,
       BranchIsAwake
<1>4. CASE DporUpdateTransition
    BY <1>4, TraceInvUpdate
<1>5. CASE PopBack /\ sufficient' = PoppedSufficient
    BY <1>5, TraceInvPop
<1> QED
    BY <1>1, <1>2, <1>3, <1>4, <1>5, DporStepKinds

-----------------------------------------------------------------------------
(* Traces *)

\* An event is performed once.
LEMMA EventIsPerformedOnce ==
    ASSUME NEW p \in Programs, NEW e \in Seq(Transitions), IsExecution(p, e),
           NEW i \in 1 .. Len(e), NEW j \in 1 .. Len(e), Event(e[i]) = Event(e[j])
    PROVE  i = j
<1>1. e[i].instr.tid = e[j].instr.tid
      /\ e[i].pre.pc[e[i].instr.tid] = e[j].pre.pc[e[j].instr.tid]
    BY DEF Event
<1>2. e[i].instr.tid \in Tids /\ e[i].pre.pc[e[i].instr.tid] \in Nat
    <2>1. e[i].instr.tid \in Tids
        BY ScheduleIs, ElementOfSeq
    <2> QED
        BY <2>1, TransitionAdvances
<1>3. ASSUME i < j
      PROVE  FALSE
    <2>1. e[i].pre.pc[e[i].instr.tid] < e[j].pre.pc[e[i].instr.tid]
        BY <1>3, LaterIsFurther
    <2> QED
        BY <1>1, <1>2, <2>1
<1>4. ASSUME j < i
      PROVE  FALSE
    <2>1. e[j].pre.pc[e[j].instr.tid] < e[i].pre.pc[e[j].instr.tid]
        BY <1>4, LaterIsFurther
    <2> QED
        BY <1>1, <1>2, <2>1
<1> QED
    BY <1>3, <1>4

\* Executions e and f of one trace agree before transition k of f.  Then e, too,
\* comes to what f performs there, and if that thread sleeps, nothing that e performs
\* until then wakes it up.
LEMMA SleeperIsPerformed ==
    ASSUME NEW p \in Programs, NEW e \in Seq(Transitions), NEW f \in Seq(Transitions),
           IsExecution(p, e), IsExecution(p, f), TraceOf(e) = TraceOf(f),
           NEW k \in 1 .. Len(f), k - 1 <= Len(e), \A i \in 1 .. k - 1 : e[i] = f[i],
           NEW sleep, f[k].instr.tid \in sleep
    PROVE  \E q \in k .. Len(e) :
               e[q].instr.tid \in StillAsleep(p, sleep, e, k, q)
<1> DEFINE t == f[k].instr.tid
<1>1. PICK q \in 1 .. Len(e) : Event(e[q]) = Event(f[k])
    <2>1. Event(f[k]) \in TraceOf(f).events
        BY DEF TraceOf
    <2>2. Event(f[k]) \in TraceOf(e).events
        BY <2>1
    <2> QED
        BY <2>2 DEF TraceOf
<1>2. e[q].instr.tid = t /\ e[q].pre.pc[t] = f[k].pre.pc[t]
    BY <1>1 DEF Event
<1>3. q >= k
    <2> SUFFICES ASSUME q \in 1 .. k - 1
                 PROVE  FALSE
        OBVIOUS
    <2>1. e[q] = f[q] /\ q \in 1 .. Len(f)
        OBVIOUS
    <2>2. q = k
        BY <1>1, <2>1, EventIsPerformedOnce
    <2> QED
        BY <2>2
<1>4. ASSUME NEW j \in k .. q - 1
      PROVE  ~ Dependent(e[j].instr, e[q].instr)
    <2> SUFFICES ASSUME Dependent(e[j].instr, e[q].instr)
                 PROVE  FALSE
        OBVIOUS
    <2>1. j \in 1 .. Len(e) /\ j < q
        BY <1>3
    <2>2. <<Event(e[j]), Event(e[q])>> \in TraceOf(e).order
        <3>1. <<j, q>> \in {kl \in (1 .. Len(e)) \X (1 .. Len(e)) :
                               kl[1] < kl[2] /\ Dependent(e[kl[1]].instr, e[kl[2]].instr)}
            BY <2>1
        <3> QED
            BY <3>1 DEF TraceOf
    <2>3. PICK ab \in (1 .. Len(f)) \X (1 .. Len(f)) :
              /\ ab[1] < ab[2]
              /\ <<Event(e[j]), Event(e[q])>> = <<Event(f[ab[1]]), Event(f[ab[2]])>>
        <3>1. <<Event(e[j]), Event(e[q])>> \in TraceOf(f).order
            BY <2>2
        <3> QED
            BY <3>1 DEF TraceOf
    <2>4. PICK a \in 1 .. Len(f), b \in 1 .. Len(f) :
              a < b /\ Event(e[j]) = Event(f[a]) /\ Event(e[q]) = Event(f[b])
        BY <2>3
    <2>5. b = k
        BY <1>1, <2>4, EventIsPerformedOnce
    <2>6. e[a] = f[a] /\ a \in 1 .. Len(e)
        BY <2>4, <2>5
    <2>7. a = j
        BY <2>1, <2>4, <2>6, EventIsPerformedOnce
    <2> QED
        BY <2>4, <2>5, <2>7
<1>5. e[k].pre.pc[t] = f[k].pre.pc[t]
    <2>1. StateBefore(e, k) = StateBefore(f, k)
        <3>1. k # 1 => k - 1 \in 1 .. k - 1
            OBVIOUS
        <3> QED
            BY <3>1 DEF StateBefore
    <2>2. k \in 1 .. Len(e)
        BY <1>3
    <2> QED
        BY <2>1, <2>2, PreIsStateBefore
<1>6. ASSUME NEW j \in k .. q - 1
      PROVE  ~ Wakes(p, e[j], t)
    <2>1. /\ j \in 1 .. Len(e) /\ j < q /\ j + 1 \in 1 .. q /\ j + 1 \in 1 .. Len(e)
          /\ k \in 1 .. j + 1
        BY <1>3
    <2>2. t \in Tids
        BY ScheduleIs, ElementOfSeq
    <2>3. e[j].post = e[j + 1].pre
        BY <2>1, LaterIsFurther
    <2>4. e[k].pre.pc[t] <= e[j + 1].pre.pc[t] /\ e[j + 1].pre.pc[t] <= e[q].pre.pc[t]
          /\ e[k].pre.pc[t] \in Nat /\ e[j + 1].pre.pc[t] \in Nat /\ e[q].pre.pc[t] \in Nat
        <3>1. k \in 1 .. Len(e)
            BY <1>3
        <3>2. e[k].pre.pc[t] \in Nat /\ e[j + 1].pre.pc[t] \in Nat /\ e[q].pre.pc[t] \in Nat
            BY <2>1, <2>2, <3>1, TransitionAdvances
        <3> QED
            BY <2>1, <2>2, <3>2, ExecutionAdvances
    <2>5. e[j].post.pc[t] = e[q].pre.pc[t]
        BY <1>2, <1>5, <2>3, <2>4, SMTT(30)
    <2>6. NextInstr(p, e[j].post, t) = NextInstr(p, e[q].pre, t)
        BY <2>5 DEF NextInstr
    <2>7. NextInstr(p, e[q].pre, t) = e[q].instr
        BY <1>2, TransitionIs
    <2> QED
        BY <1>4, <2>6, <2>7 DEF Wakes
<1>7. t \in StillAsleep(p, sleep, e, k, q)
    BY <1>6 DEF StillAsleep
<1> QED
    BY <1>2, <1>3, <1>7

-----------------------------------------------------------------------------
(* The theorems *)

\* The inductive invariant of the sleep sets: the scheduler's set is the explorer's,
\* moved along the run.
THEOREM SleepInvariantHolds ==
    ASSUME ValidPrograms
    PROVE  DporSpec => []SleepInv
<1>1. ASSUME DporInit
      PROVE  SleepInv
    BY <1>1 DEF DporInit, Init, SleepInv, SchedulerSleeps, BeforeUpdate
<1>2. DporInit => SleepInv
    BY <1>1
<1>3. DporInv /\ SleepInv /\ [DporNext]_dporVars => SleepInv'
    BY SleepInvStep
<1> QED
    BY <1>2, <1>3, DporInvariantHolds, PTL DEF DporSpec

\* Unless a record was stale, no execution takes a thread that is asleep in the
\* explorer's state.
THEOREM SleepersAreNotExecuted ==
    ASSUME ValidPrograms
    PROVE  DporSpec => []SleepingThreadNotExecuted
<1>1. ASSUME DporInv, SleepInv
      PROVE  SleepingThreadNotExecuted
    <2>1. SUFFICES ASSUME phase = "update", failures = 0, from <= index, index <= Len(mExecution)
                   PROVE  mExecution[index].instr.tid \notin Last(sufficient).sleep
        BY DEF SleepingThreadNotExecuted
    <2>2. Len(sufficient) = index /\ index \in from .. Len(mExecution)
          /\ index \in from .. Len(sufficient)
        BY <1>1, <2>1 DEF DporInv, Inv, TypeOK, SearchIsAligned
    <2> QED
        BY <1>1, <2>1, <2>2 DEF SleepInv, StaysAwake, Last
<1>2. DporInv /\ SleepInv => SleepingThreadNotExecuted
    BY <1>1
<1> QED
    BY <1>2, DporInvariantHolds, SleepInvariantHolds, PTL

\* A run is cut short only where the explorer has all enabled threads asleep, too.
THEOREM BlockedRunsAreAsleep ==
    ASSUME ValidPrograms
    PROVE  DporSpec => []BlockedOnlyWhenAsleep
<1>1. ASSUME DporInv, SleepInv
      PROVE  BlockedOnlyWhenAsleep
    <2>1. SUFFICES ASSUME phase = "update", failures = 0, index > Len(mExecution),
                          record.status = "BLOCKED"
                   PROVE  Enabled(program, Final(mExecution)) \subseteq Last(sufficient).sleep
        BY DEF BlockedOnlyWhenAsleep
    <2>2. Len(sufficient) = Len(mExecution) + 1 /\ Len(sufficient) \in from .. Len(sufficient)
        BY <1>1, <2>1 DEF DporInv, Inv, TypeOK, SearchIsAligned
    <2> QED
        BY <1>1, <2>1, <2>2 DEF SleepInv, EndsAsleep, Last
<1>2. DporInv /\ SleepInv => BlockedOnlyWhenAsleep
    BY <1>1
<1> QED
    BY <1>2, DporInvariantHolds, SleepInvariantHolds, PTL

\* The inductive invariant of the sleep sets on the stack: what is done sleeps, what
\* sleeps goes on sleeping along the branch, and the branch is by those who are awake.
THEOREM TraceInvariantHolds ==
    ASSUME ValidPrograms
    PROVE  DporSpec => []TraceInv
<1>1. ASSUME DporInit
      PROVE  TraceInv
    <2>1. /\ program \in Programs /\ mExecution = <<>> /\ dfsState = <<{}>>
          /\ sufficient = <<NoSufficientSet>>
        BY <1>1 DEF DporInit, Init
    <2>2. Len(sufficient) = 1 /\ Len(dfsState) = 1 /\ dfsState[1] = {} /\ Len(mExecution) = 0
        BY <2>1
    <2>3. \A k \in 1 .. 1 : \A j \in 1 .. k : j = 1 /\ k = 1
        OBVIOUS
    <2>4. StillAsleep(program, sufficient[1].sleep, mExecution, 1, 1) = sufficient[1].sleep
        BY StillAsleepFirst
    <2> QED
        BY <2>2, <2>3, <2>4 DEF TraceInv, DoneSleeps, SleepIsKept, BranchIsAwake
<1>2. DporInit => TraceInv
    BY <1>1
<1>3. DporInv /\ SleepInv /\ TraceInv /\ [DporNext]_dporVars => TraceInv'
    BY TraceInvStep
<1> QED
    BY <1>2, <1>3, DporInvariantHolds, SleepInvariantHolds, PTL DEF DporSpec

\* No trace is explored twice, by whole executions or by runs that were cut short:
\* where a logged execution has left the branch, the thread it went on with sleeps;
\* an execution of the same trace would come to perform what that thread does there,
\* with nothing before it to wake the thread up.
THEOREM TracesAreExploredOnce ==
    ASSUME ValidPrograms
    PROVE  DporSpec => []NoTraceTwice
<1>1. ASSUME DporInv, TraceInv
      PROVE  NoTraceTwice
    <2> SUFFICES ASSUME phase = "update", failures = 0, index > Len(mExecution),
                        NEW f \in ExecutionsOf(program),
                        ScheduleOf(f) \in schedules, ScheduleOf(f) # mSchedule,
                        TraceOf(f) = TraceOf(mExecution)
                 PROVE  FALSE
        BY DEF NoTraceTwice
    <2> DEFINE e == mExecution
               s == ScheduleOf(f)
    <2>1. /\ program \in Programs /\ e \in Seq(Transitions) /\ IsExecution(program, e)
          /\ Len(e) \in Nat /\ Len(sufficient) = Len(e) + 1 /\ Len(dfsState) = Len(e) + 1
        BY <1>1 DEF DporInv, Inv, TypeOK, ExecutionsAreValid, SearchIsAligned
    <2>2. f \in Seq(Transitions) /\ IsExecution(program, f)
        BY <2>1, ExecutionsAre
    <2>3. Len(s) = Len(f) /\ \A i \in 1 .. Len(f) : s[i] = f[i].instr.tid
        BY <2>2, ScheduleIs
    <2>4. Diverges(s)
        BY <1>1 DEF DporInv, Inv, LoggedDiverge, Running
    <2>5. PICK k \in 1 .. Len(e) + 1 :
              /\ k <= Len(f) /\ s[k] \in dfsState[k]
              /\ \A j \in 1 .. k - 1 : s[j] = e[j].instr.tid
        BY <2>1, <2>3, <2>4 DEF Diverges
    <2>6. k \in 1 .. Len(f) /\ k - 1 <= Len(e) /\ k - 1 \in Nat /\ k - 1 <= Len(f)
        BY <2>1, <2>2, <2>5
    <2>7. \A i \in 1 .. k - 1 : e[i] = f[i]
        <3>1. \A i \in 1 .. k - 1 : e[i].instr.tid = f[i].instr.tid
            BY <2>3, <2>5, <2>6
        <3> QED
            BY <2>1, <2>2, <2>6, <3>1, SameScheduleSameTransitions
    <2>8. f[k].instr.tid \in sufficient[k].sleep
        BY <1>1, <2>1, <2>3, <2>5, <2>6 DEF TraceInv, DoneSleeps, Running
    <2>9. PICK q \in k .. Len(e) :
              e[q].instr.tid \in StillAsleep(program, sufficient[k].sleep, e, k, q)
        BY <2>1, <2>2, <2>6, <2>7, <2>8, SleeperIsPerformed
    <2>10. q \in 1 .. Len(e) /\ q \in 1 .. Len(sufficient) /\ k \in 1 .. q /\ q <= Len(e) + 1
        BY <2>1, <2>5
    <2>11. e[q].instr.tid \in sufficient[q].sleep
        BY <1>1, <2>9, <2>10 DEF TraceInv, SleepIsKept, Running
    <2> QED
        BY <1>1, <2>10, <2>11 DEF TraceInv, BranchIsAwake, Running
<1>2. DporInv /\ TraceInv => NoTraceTwice
    BY <1>1
<1> QED
    BY <1>2, DporInvariantHolds, TraceInvariantHolds, PTL

=============================================================================
