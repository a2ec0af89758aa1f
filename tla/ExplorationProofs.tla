-------------------------- MODULE ExplorationProofs --------------------------
(***************************************************************************)
(* Proofs about Exploration: what holds of the explorer whatever the       *)
(* reduction, the programs, the bounds and the number of threads; and      *)
(* lemmas about the preemptions of its executions, and about what keeps    *)
(* them within a bound.                                                    *)
(***************************************************************************)
EXTENDS PreemptionBound, ProgramModelProofs

-----------------------------------------------------------------------------
(* Type correctness *)

\* The program is that of the start.
LEMMA ProgramIsFixed ==
    ASSUME [Next]_explorationVars
    PROVE  program' = program
    BY DEF Next, StartRun, LimitReached, ReplayScheduled, SelectThread, ProgramStep, RunEnds,
       RunFails, RecordMissing, ReadRecord, InvalidProgram, RestoreTransition, UpdateTransition,
       FinishUpdate, ScheduleNext, BacktrackFurther, PopBack, Exhausted, Terminated, explorationVars

\* The program's step keeps the recording a sequence of transitions.
LEMMA ProgramStepType ==
    ASSUME TypeOK, NEW t \in Tids, ProgramStep(t)
    PROVE  TypeOK'
<1>1. TransitionFrom(program, Final(recording), t) \in Transitions
    BY FinalType, TransitionFromType DEF TypeOK, ProgramStep
<1>2. recording' \in Seq(Transitions)
    BY <1>1, AppendIs DEF TypeOK, ProgramStep
<1> QED
    BY <1>2 DEF TypeOK, ProgramStep

\* The states of the search stay a sequence of sets of threads when one is popped.
LEMMA PopBackType ==
    ASSUME TypeOK, PopBack
    PROVE  /\ mExecution' \in Seq(Transitions)
           /\ dfsState' \in Seq(SUBSET Tids)
           /\ Last(mExecution).instr.tid \in Tids
<1>1. Last(mExecution) \in Transitions
    BY LastIs DEF TypeOK, PopBack
<1>2. Last(mExecution).instr.tid \in Tids
    BY <1>1 DEF Transitions, Instructions
<1> DEFINE marked == [dfsState EXCEPT ![Len(mExecution)] = @ \cup {Last(mExecution).instr.tid}]
<1>3. marked \in Seq(SUBSET Tids)
    <2>1. CASE Len(mExecution) \in 1 .. Len(dfsState)
        <3>1. dfsState[Len(mExecution)] \cup {Last(mExecution).instr.tid} \in SUBSET Tids
            BY <1>2, <2>1, ElementOfSeq DEF TypeOK
        <3> QED
            BY <2>1, <3>1, ExceptSeq DEF TypeOK
    <2>2. CASE Len(mExecution) \notin 1 .. Len(dfsState)
        <3>1. marked = dfsState
            BY <2>2 DEF TypeOK
        <3> QED
            BY <3>1 DEF TypeOK
    <2> QED
        BY <2>1, <2>2
<1>4. Front(marked) \in Seq(SUBSET Tids)
    BY <1>3, FrontType
<1>5. Front(mExecution) \in Seq(Transitions)
    BY FrontType DEF TypeOK
<1> QED
    BY <1>2, <1>4, <1>5 DEF PopBack, PoppedDfsState

\* TypeOK is inductive.
LEMMA TypeOKStep == TypeOK /\ [Next]_explorationVars => TypeOK'
<1> SUFFICES ASSUME TypeOK, [Next]_explorationVars
             PROVE  TypeOK'
    OBVIOUS
<1>1. ASSUME StartRun \/ LimitReached \/ RunFails \/ RecordMissing \/ RestoreTransition
             \/ Terminated \/ UNCHANGED explorationVars
      PROVE  TypeOK'
    <2>1. CASE StartRun
        BY <2>1, EmptySeq DEF TypeOK, StartRun, Running
    <2>2. CASE LimitReached \/ RecordMissing
        BY <2>2 DEF TypeOK, LimitReached, RecordMissing, Terminal
    <2>3. CASE RunFails
        BY <2>3 DEF TypeOK, RunFails, Running
    <2>4. CASE RestoreTransition
        BY <2>4 DEF TypeOK, RestoreTransition
    <2>5. CASE Terminated \/ UNCHANGED explorationVars
        BY <2>5 DEF TypeOK, Terminated, explorationVars
    <2> QED
        BY <1>1, <2>1, <2>2, <2>3, <2>4, <2>5
<1>2. ASSUME ReplayScheduled
      PROVE  TypeOK'
    <2>1. mSchedule[Len(recording) + 1] \in Tids
        BY <1>2, ElementOfSeq DEF TypeOK, ReplayScheduled
    <2> QED
        BY <1>2, <2>1, ProgramStepType DEF ReplayScheduled
<1>3. ASSUME NEW t \in Tids, SelectThread(t)
      PROVE  TypeOK'
    BY <1>3, ProgramStepType DEF SelectThread
<1>4. ASSUME NEW status \in {"DONE", "BLOCKED"}, RunEnds(status)
      PROVE  TypeOK'
    BY <1>4 DEF TypeOK, RunEnds, Running
<1>5. ASSUME ReadRecord
      PROVE  TypeOK'
    BY <1>5, ScheduleIs DEF TypeOK, ReadRecord, Running
<1>6. ASSUME InvalidProgram
      PROVE  TypeOK'
    BY <1>6 DEF TypeOK, InvalidProgram, Terminal
<1>7. ASSUME UpdateTransition
      PROVE  TypeOK'
    BY <1>7 DEF TypeOK, UpdateTransition
<1>8. ASSUME FinishUpdate
      PROVE  TypeOK'
    BY <1>8, EmptySeq DEF TypeOK, FinishUpdate, NoRecord, Running
<1>9. ASSUME NEW next \in Tids, ScheduleNext(next)
      PROVE  TypeOK'
    <2>1. Front(mSchedule) \in Seq(Tids)
        BY FrontType DEF TypeOK
    <2>2. mSchedule' \in Seq(Tids) /\ Len(mSchedule') \in Nat \ {0}
        BY <1>9, <2>1, AppendIs DEF ScheduleNext
    <2> QED
        BY <1>9, <2>2, PopBackType DEF TypeOK, ScheduleNext, PopBack, Running
<1>10. ASSUME BacktrackFurther
       PROVE  TypeOK'
    <2>1. mSchedule' \in Seq(Tids)
        BY <1>10, FrontType DEF TypeOK, BacktrackFurther
    <2> QED
        BY <1>10, <2>1, PopBackType DEF TypeOK, BacktrackFurther, PopBack
<1>11. ASSUME Exhausted
       PROVE  TypeOK'
    BY <1>11, EmptySeq DEF TypeOK, Exhausted, Running, Terminal
<1> QED
    BY <1>1, <1>2, <1>3, <1>4, <1>5, <1>6, <1>7, <1>8, <1>9, <1>10, <1>11 DEF Next

\* Type correctness of the explorer, for every program and every reduction.
THEOREM TypeCorrect == Spec => []TypeOK
<1>1. Init => TypeOK
    BY EmptySeq DEF Init, TypeOK, NoRecord, Running
<1> QED
    BY <1>1, TypeOKStep, PTL DEF Spec

-----------------------------------------------------------------------------
(* The inductive invariant, part by part *)

\* What PopBack does to the execution and to the states of the search.
LEMMA PopBackIs ==
    ASSUME TypeOK, SearchIsAligned, PopBack
    PROVE  /\ Len(mExecution) \in Nat \ {0}
           /\ Len(dfsState) = Len(mExecution) + 1
           /\ Len(mExecution') = Len(mExecution) - 1
           /\ \A i \in 1 .. Len(mExecution) - 1 : mExecution'[i] = mExecution[i]
           /\ Len(dfsState') = Len(mExecution)
           /\ \A i \in 1 .. Len(mExecution) - 1 : dfsState'[i] = dfsState[i]
           /\ dfsState'[Len(mExecution)]
                  = dfsState[Len(mExecution)] \cup {mExecution[Len(mExecution)].instr.tid}
<1> DEFINE n == Len(mExecution)
           done == dfsState[n] \cup {Last(mExecution).instr.tid}
           marked == [dfsState EXCEPT ![n] = done]
<1>1. n \in Nat \ {0} /\ Last(mExecution) = mExecution[n]
    BY LastIs DEF PopBack, TypeOK
<1>2. Len(dfsState) = n + 1
    BY DEF PopBack, SearchIsAligned
<1>3. done \in SUBSET Tids
    BY <1>1, <1>2, ElementOfSeq, PopBackType DEF TypeOK
<1>4. mExecution' = Front(mExecution) /\ dfsState' = Front(marked)
    BY DEF PopBack, PoppedDfsState
<1> HIDE DEF done
<1>5. /\ marked \in Seq(SUBSET Tids)
      /\ Len(marked) = n + 1
      /\ \A j \in 1 .. n + 1 : marked[j] = IF j = n THEN done ELSE dfsState[j]
    BY <1>1, <1>2, <1>3, ExceptSeq DEF TypeOK
<1> HIDE DEF marked
<1>6. marked # <<>>
    BY <1>1, <1>5, EmptySeq
<1>7. /\ Len(Front(marked)) = n
      /\ \A i \in 1 .. n : Front(marked)[i] = marked[i]
    BY <1>1, <1>5, <1>6, FrontIs
<1>8. /\ Len(Front(mExecution)) = n - 1
      /\ \A i \in 1 .. n - 1 : Front(mExecution)[i] = mExecution[i]
    BY FrontIs DEF PopBack, TypeOK
<1> HIDE DEF n
<1>9. /\ n \in Nat \ {0}
      /\ Len(dfsState) = n + 1
      /\ Len(mExecution') = n - 1
      /\ \A i \in 1 .. n - 1 : mExecution'[i] = mExecution[i]
      /\ Len(dfsState') = n
      /\ \A i \in 1 .. n - 1 : dfsState'[i] = dfsState[i]
      /\ dfsState'[n] = dfsState[n] \cup {mExecution[n].instr.tid}
    BY <1>1, <1>2, <1>4, <1>5, <1>7, <1>8 DEF done
<1> QED
    BY <1>9 DEF n

\* The program's step extends an execution of the program.
LEMMA ProgramStepIs ==
    ASSUME TypeOK, IsExecution(program, recording), NEW t \in Tids, ProgramStep(t)
    PROVE  /\ IsExecution(program, recording')
           /\ Len(recording') = Len(recording) + 1
           /\ \A i \in 1 .. Len(recording) : recording'[i] = recording[i]
           /\ recording'[Len(recording) + 1] = TransitionFrom(program, Final(recording), t)
           /\ recording'[Len(recording) + 1].instr.tid = t
<1>1. t \in Enabled(program, Final(recording)) /\ program \in Programs
      /\ recording \in Seq(Transitions)
      /\ recording' = Append(recording, TransitionFrom(program, Final(recording), t))
    BY DEF ProgramStep, TypeOK
<1>2. TransitionFrom(program, Final(recording), t) \in Transitions
      /\ TransitionFrom(program, Final(recording), t).instr.tid = t
    BY <1>1, FinalType, TransitionFromType
<1>3. IsExecution(program, recording')
    BY <1>1, AppendToExecution
<1> QED
    BY <1>1, <1>2, <1>3, AppendIs

\* The run makes enabled steps only, and the explorer only reads and shortens.
LEMMA ExecutionsAreValidStep ==
    ASSUME TypeOK, ExecutionsAreValid, [Next]_explorationVars
    PROVE  ExecutionsAreValid'
<1>1. IsExecution(program, <<>>)
    BY EmptySeq DEF IsExecution
<1>2. ASSUME NEW t \in Tids, ProgramStep(t)
      PROVE  ExecutionsAreValid'
    BY <1>2, ProgramStepIs DEF ExecutionsAreValid, ProgramStep
<1>3. CASE ReplayScheduled
    <2>1. mSchedule[Len(recording) + 1] \in Tids
        BY <1>3, ElementOfSeq DEF TypeOK, ReplayScheduled
    <2> QED
        BY <1>2, <1>3, <2>1 DEF ReplayScheduled
<1>4. ASSUME NEW t \in Tids, SelectThread(t)
      PROVE  ExecutionsAreValid'
    BY <1>2, <1>4 DEF SelectThread
<1>5. CASE StartRun
    BY <1>1, <1>5 DEF ExecutionsAreValid, StartRun
<1>6. ASSUME NEW status \in {"DONE", "BLOCKED"}, RunEnds(status)
      PROVE  ExecutionsAreValid'
    BY <1>6 DEF ExecutionsAreValid, RunEnds
<1>7. CASE ReadRecord \/ InvalidProgram
    BY <1>7 DEF ExecutionsAreValid, ReadRecord, InvalidProgram
<1>8. CASE FinishUpdate
    BY <1>1, <1>8 DEF ExecutionsAreValid, FinishUpdate, NoRecord
<1>9. ASSUME PopBack
      PROVE  ExecutionsAreValid'
    BY <1>9, FrontOfExecution DEF ExecutionsAreValid, PopBack, TypeOK
<1>10. CASE LimitReached \/ RunFails \/ RecordMissing \/ RestoreTransition
            \/ UpdateTransition \/ Exhausted \/ Terminated \/ UNCHANGED explorationVars
    BY <1>10 DEF ExecutionsAreValid, LimitReached, RunFails, RecordMissing,
       RestoreTransition, UpdateTransition, Exhausted, Terminated, explorationVars
<1> QED
    BY <1>3, <1>4, <1>5, <1>6, <1>7, <1>8, <1>9, <1>10
    DEF Next, ScheduleNext, BacktrackFurther

\* What choosing the next schedule does, besides PopBack.
LEMMA ScheduleNextIs ==
    ASSUME TypeOK, SearchIsAligned, NEW next \in Tids, ScheduleNext(next),
           NEW pool \in PoolOfReduction, next \in Undone(pool)
    PROVE  /\ Len(mSchedule') = Len(mExecution)
           /\ from' = Len(mExecution)
           /\ \A i \in 1 .. Len(mExecution) - 1 : mSchedule'[i] = mExecution[i].instr.tid
           /\ mSchedule'[Len(mExecution)] = next
           /\ next \in Enabled(program, Final(mExecution'))
           /\ next \notin dfsState'[Len(mExecution)]
<1>1. PopBack /\ phase = "backtrack" /\ mExecution # <<>> /\ mExecution' = Front(mExecution)
      /\ dfsState' = PoppedDfsState
    BY DEF ScheduleNext, PopBack
<1>2. mSchedule = ScheduleOf(mExecution)
    BY <1>1 DEF SearchIsAligned
<1>3. /\ Len(mExecution) \in Nat \ {0}
      /\ Len(mSchedule) = Len(mExecution)
      /\ \A i \in 1 .. Len(mExecution) : mSchedule[i] = mExecution[i].instr.tid
    BY <1>1, <1>2, ScheduleIs, EmptySeq DEF TypeOK
<1>4. /\ Front(mSchedule) \in Seq(Tids)
      /\ Len(Front(mSchedule)) = Len(mExecution) - 1
      /\ \A i \in 1 .. Len(mExecution) - 1 : Front(mSchedule)[i] = mSchedule[i]
    <2>1. mSchedule # <<>>
        BY <1>3, EmptySeq
    <2> QED
        BY <1>3, <2>1, FrontIs DEF TypeOK
<1>5. /\ Len(mSchedule') = Len(mExecution)
      /\ \A i \in 1 .. Len(mExecution) - 1 : mSchedule'[i] = mSchedule[i]
      /\ mSchedule'[Len(mExecution)] = next
    <2>1. mSchedule' = Append(Front(mSchedule), next)
        BY DEF ScheduleNext
    <2> QED
        BY <1>3, <1>4, <2>1, AppendIs
<1>6. next \in Enabled(program, Final(mExecution'))
    BY <1>1 DEF PoolOfReduction, Undone
<1>7. next \notin dfsState'[Len(mExecution)]
    <2>1. Len(dfsState') = Len(mExecution) /\ dfsState' \in Seq(SUBSET Tids)
        BY <1>1, PopBackIs, PopBackType
    <2>2. Last(dfsState') = dfsState'[Len(mExecution)]
        BY <2>1 DEF Last
    <2> QED
        BY <1>1, <2>2 DEF Undone
<1> QED
    BY <1>3, <1>5, <1>6, <1>7 DEF ScheduleNext

\* Reading, updating and popping keep schedule, execution and states in step.
LEMMA SearchIsAlignedStep ==
    ASSUME TypeOK, SearchIsAligned, RecordExtendsSearch, [Next]_explorationVars
    PROVE  SearchIsAligned'
<1>1. ASSUME phase \in BeforeUpdate, phase' \in BeforeUpdate,
             UNCHANGED <<program, mSchedule, mExecution, from, dfsState>>
      PROVE  SearchIsAligned'
    BY <1>1 DEF SearchIsAligned, BeforeUpdate
<1>2. ASSUME phase' \in Terminal
      PROVE  SearchIsAligned'
    BY <1>2 DEF SearchIsAligned, BeforeUpdate, Terminal
<1>3. CASE StartRun \/ RunFails \/ (\E status \in {"DONE", "BLOCKED"} : RunEnds(status))
    BY <1>1, <1>3 DEF StartRun, RunFails, RunEnds, BeforeUpdate
<1>4. CASE ReplayScheduled \/ (\E t \in Tids : SelectThread(t))
    BY <1>1, <1>4 DEF ReplayScheduled, SelectThread, ProgramStep, BeforeUpdate
<1>5. CASE LimitReached \/ RecordMissing \/ InvalidProgram
    BY <1>2, <1>5 DEF LimitReached, RecordMissing, InvalidProgram, Terminal
<1>6. CASE ReadRecord
    <2>1. from <= Len(record.transitions) + 1 /\ Len(dfsState) = from /\ from \in Nat \ {0}
        BY <1>6, EmptySeq DEF ReadRecord, TypeOK, SearchIsAligned, RecordExtendsSearch,
           BeforeUpdate, Running
    <2>2. Len(record.transitions) \in Nat
        BY DEF TypeOK
    <2> QED
        BY <1>6, <2>1, <2>2 DEF ReadRecord, SearchIsAligned, BeforeUpdate
<1>7. CASE RestoreTransition
    BY <1>7 DEF RestoreTransition, TypeOK, SearchIsAligned, BeforeUpdate
<1>8. CASE UpdateTransition
    <2>1. Len(dfsState') = Len(dfsState) + 1
        BY <1>8, AppendIs DEF UpdateTransition, TypeOK
    <2> QED
        BY <1>8, <2>1 DEF UpdateTransition, TypeOK, SearchIsAligned, BeforeUpdate
<1>9. CASE FinishUpdate
    BY <1>9 DEF FinishUpdate, TypeOK, SearchIsAligned, BeforeUpdate
<1>10. ASSUME NEW next \in Tids, ScheduleNext(next),
              NEW pool \in PoolOfReduction, next \in Undone(pool)
       PROVE  SearchIsAligned'
    <2>1. PopBack /\ phase' = "loop" /\ program' = program
        BY <1>10 DEF ScheduleNext, PopBack
    <2>2. mSchedule' # <<>>
        BY <1>10, <2>1, ScheduleNextIs, PopBackIs, EmptySeq
    <2> QED
        BY <1>10, <2>1, <2>2, ScheduleNextIs, PopBackIs DEF SearchIsAligned, BeforeUpdate
<1>11. CASE BacktrackFurther
    <2>1. PopBack /\ phase = "backtrack" /\ phase' = "backtrack" /\ mExecution # <<>>
          /\ mSchedule' = Front(mSchedule)
        BY <1>11 DEF BacktrackFurther, PopBack
    <2>2. mSchedule = ScheduleOf(mExecution)
        BY <2>1 DEF SearchIsAligned
    <2>3. /\ mSchedule \in Seq(Tids)
          /\ mSchedule # <<>>
          /\ Len(mSchedule) = Len(mExecution)
          /\ \A i \in 1 .. Len(mExecution) : mSchedule[i] = mExecution[i].instr.tid
        BY <2>1, <2>2, ScheduleIs, EmptySeq DEF TypeOK
    <2>4. /\ mSchedule' \in Seq(Tids)
          /\ Len(mSchedule') = Len(mExecution) - 1
          /\ \A i \in 1 .. Len(mExecution) - 1 : mSchedule'[i] = mExecution[i].instr.tid
        BY <2>1, <2>3, FrontIs, PopBackIs
    <2>5. /\ ScheduleOf(mExecution') \in Seq(Tids)
          /\ Len(ScheduleOf(mExecution')) = Len(mExecution) - 1
          /\ \A i \in 1 .. Len(mExecution) - 1 : ScheduleOf(mExecution')[i] = mExecution[i].instr.tid
        <3>1. mExecution' \in Seq(Transitions)
            BY <2>1, PopBackType
        <3>2. /\ Len(mExecution') = Len(mExecution) - 1
              /\ \A i \in 1 .. Len(mExecution) - 1 : mExecution'[i] = mExecution[i]
            BY <2>1, PopBackIs
        <3> DEFINE e == mExecution'
        <3>3. /\ ScheduleOf(e) \in Seq(Tids)
              /\ Len(ScheduleOf(e)) = Len(e)
              /\ \A i \in 1 .. Len(e) : ScheduleOf(e)[i] = e[i].instr.tid
            BY <3>1, ScheduleIs
        <3> QED
            BY <3>2, <3>3
    <2>6. mSchedule' = ScheduleOf(mExecution')
        BY <2>4, <2>5, SeqEqual
    <2> QED
        BY <2>1, <2>6, PopBackIs DEF SearchIsAligned, BeforeUpdate
<1>12. CASE Exhausted
    <2>1. mSchedule = <<>>
        BY <1>12, ScheduleIs, EmptySeq DEF Exhausted, SearchIsAligned, TypeOK
    <2> QED
        BY <1>2, <1>12, <2>1 DEF Exhausted, Terminal
<1>13. CASE Terminated \/ UNCHANGED explorationVars
    BY <1>13 DEF Terminated, explorationVars, SearchIsAligned
<1> QED
    BY <1>3, <1>4, <1>5, <1>6, <1>7, <1>8, <1>9, <1>10, <1>11, <1>12, <1>13 DEF Next

\* A run under the schedule repeats the kept prefix: a thread has one next
\* transition in a state.
LEMMA RunFollowsSearchStep ==
    ASSUME TypeOK, ExecutionsAreValid, SearchIsAligned, RunFollowsSearch,
           [Next]_explorationVars
    PROVE  RunFollowsSearch'
<1>1. CASE StartRun
    BY <1>1, EmptySeq DEF StartRun, RunFollowsSearch
<1>2. CASE ReplayScheduled
    <2> DEFINE n == Len(recording) + 1
               t == mSchedule[n]
    <2>1. t \in Tids /\ Len(recording) \in Nat /\ n <= Len(mSchedule)
          /\ phase = "run" /\ ProgramStep(t)
        BY <1>2, ElementOfSeq DEF TypeOK, ReplayScheduled
    <2>2. /\ Len(recording') = n
          /\ \A i \in 1 .. Len(recording) : recording'[i] = recording[i]
          /\ recording'[n] = TransitionFrom(program, Final(recording), t)
          /\ recording'[n].instr.tid = t
        BY <2>1, ProgramStepIs DEF ExecutionsAreValid
    <2>3. ASSUME n <= Len(mExecution)
          PROVE  recording'[n] = mExecution[n]
        <3>1. t = mExecution[n].instr.tid
            BY <2>1, <2>3, EmptySeq DEF SearchIsAligned, BeforeUpdate, TypeOK
        <3>2. \A i \in 1 .. Len(recording) : recording[i] = mExecution[i]
            BY <2>1, <2>3 DEF RunFollowsSearch, TypeOK
        <3>3. Len(recording) < Len(mExecution)
            BY <2>1, <2>3 DEF TypeOK
        <3> QED
            BY <2>2, <3>1, <3>2, <3>3, SameTransition DEF TypeOK, ExecutionsAreValid
    <2>4. UNCHANGED <<mSchedule, mExecution>>
        BY <2>1 DEF ProgramStep
    <2>5. \A i \in 1 .. Len(recording') : i \in 1 .. Len(recording) \/ i = n
        BY <2>1, <2>2
    <2> HIDE DEF n
    <2>6. \A i \in 1 .. Len(recording') :
              i <= Len(mSchedule) => recording'[i].instr.tid = mSchedule[i]
        BY <2>1, <2>2, <2>5 DEF RunFollowsSearch
    <2>7. \A i \in 1 .. Len(recording') : i <= Len(mExecution) => recording'[i] = mExecution[i]
        BY <2>1, <2>2, <2>3, <2>5 DEF RunFollowsSearch
    <2> QED
        BY <2>4, <2>6, <2>7 DEF RunFollowsSearch
<1>3. ASSUME NEW t \in Tids, SelectThread(t)
      PROVE  RunFollowsSearch'
    <2>1. Len(recording) >= Len(mSchedule) /\ phase = "run" /\ ProgramStep(t)
        BY <1>3 DEF SelectThread
    <2>2. Len(recording) >= Len(mExecution) /\ Len(recording) \in Nat
        BY <2>1, EmptySeq DEF SearchIsAligned, BeforeUpdate, TypeOK
    <2>3. /\ Len(recording') = Len(recording) + 1
          /\ \A i \in 1 .. Len(recording) : recording'[i] = recording[i]
        BY <2>1, ProgramStepIs DEF ExecutionsAreValid
    <2>4. UNCHANGED <<mSchedule, mExecution>>
        BY <2>1 DEF ProgramStep
    <2>5. /\ Len(mSchedule) \in Nat
          /\ Len(mExecution) \in Nat
          /\ \A i \in 1 .. Len(recording') : i \in 1 .. Len(recording) \/ i = Len(recording) + 1
        BY <2>2, <2>3 DEF TypeOK
    <2>6. \A i \in 1 .. Len(recording') :
              i <= Len(mSchedule) => recording'[i].instr.tid = mSchedule[i]
        BY <2>1, <2>2, <2>3, <2>5 DEF RunFollowsSearch
    <2>7. \A i \in 1 .. Len(recording') : i <= Len(mExecution) => recording'[i] = mExecution[i]
        BY <2>1, <2>2, <2>3, <2>5 DEF RunFollowsSearch
    <2> QED
        BY <2>4, <2>6, <2>7 DEF RunFollowsSearch
<1>4. CASE RunFails \/ (\E status \in {"DONE", "BLOCKED"} : RunEnds(status))
    BY <1>4 DEF RunFails, RunEnds, RunFollowsSearch
<1>5. CASE UNCHANGED explorationVars \/ Terminated
    BY <1>5 DEF explorationVars, RunFollowsSearch, Terminated
<1>6. CASE LimitReached \/ RecordMissing \/ ReadRecord \/ InvalidProgram
           \/ RestoreTransition \/ UpdateTransition \/ FinishUpdate \/ Exhausted
    BY <1>6 DEF LimitReached, RecordMissing, ReadRecord, InvalidProgram, RestoreTransition,
       UpdateTransition, FinishUpdate, Exhausted, RunFollowsSearch
<1>7. CASE BacktrackFurther \/ (\E next \in Tids : ScheduleNext(next))
    BY <1>7 DEF BacktrackFurther, ScheduleNext, PopBack, RunFollowsSearch
<1> QED
    BY <1>1, <1>2, <1>3, <1>4, <1>5, <1>6, <1>7 DEF Next

\* The kept prefix only shrinks while a record is there, and a new record comes
\* from a run that has repeated it.
LEMMA RecordExtendsSearchStep ==
    ASSUME TypeOK, SearchIsAligned, RunFollowsSearch, RecordExtendsSearch,
           [Next]_explorationVars
    PROVE  RecordExtendsSearch'
<1>1. CASE StartRun \/ RunFails
    BY <1>1 DEF StartRun, RunFails, RecordExtendsSearch, BeforeUpdate, Running
<1>2. CASE ReplayScheduled \/ (\E t \in Tids : SelectThread(t))
    BY <1>2 DEF ReplayScheduled, SelectThread, ProgramStep, RecordExtendsSearch
<1>3. ASSUME NEW status \in {"DONE", "BLOCKED"}, RunEnds(status)
      PROVE  RecordExtendsSearch'
    <2>1. /\ record'.transitions = recording
          /\ phase = "run"
          /\ Len(recording) >= Len(mSchedule)
          /\ UNCHANGED <<mSchedule, mExecution>>
        BY <1>3 DEF RunEnds
    <2>2. Len(recording) >= Len(mExecution)
        BY <2>1, EmptySeq DEF SearchIsAligned, BeforeUpdate, TypeOK
    <2>3. \A i \in 1 .. Len(mExecution) : recording[i] = mExecution[i]
        BY <2>1, <2>2 DEF RunFollowsSearch, TypeOK
    <2> QED
        BY <2>1, <2>2, <2>3 DEF RecordExtendsSearch
<1>4. CASE ReadRecord
    BY <1>4 DEF ReadRecord, RecordExtendsSearch, BeforeUpdate, TypeOK
<1>5. CASE RestoreTransition \/ UpdateTransition
    BY <1>5 DEF RestoreTransition, UpdateTransition, RecordExtendsSearch, BeforeUpdate
<1>6. CASE FinishUpdate
    BY <1>6 DEF FinishUpdate, RecordExtendsSearch, BeforeUpdate, Running
<1>7. ASSUME PopBack
      PROVE  record # NoRecord =>
                 /\ Len(record.transitions) >= Len(mExecution)
                 /\ Len(record.transitions) >= Len(mExecution')
                 /\ \A i \in 1 .. Len(mExecution') : record.transitions[i] = mExecution'[i]
    <2>1. record # NoRecord =>
                 /\ Len(record.transitions) >= Len(mExecution)
                 /\ \A i \in 1 .. Len(mExecution) : record.transitions[i] = mExecution[i]
        BY <1>7 DEF PopBack, RecordExtendsSearch, Running
    <2>2. /\ Len(mExecution) \in Nat \ {0}
          /\ Len(mExecution') = Len(mExecution) - 1
          /\ \A i \in 1 .. Len(mExecution) - 1 : mExecution'[i] = mExecution[i]
        BY <1>7, PopBackIs
    <2>3. Len(record.transitions) \in Nat
        BY DEF TypeOK
    <2> QED
        BY <2>1, <2>2, <2>3
<1>8. ASSUME NEW next \in Tids, ScheduleNext(next),
             NEW pool \in PoolOfReduction, next \in Undone(pool)
      PROVE  RecordExtendsSearch'
    BY <1>7, <1>8, ScheduleNextIs DEF ScheduleNext, PopBack, RecordExtendsSearch
<1>9. CASE BacktrackFurther
    BY <1>7, <1>9 DEF BacktrackFurther, PopBack, RecordExtendsSearch, BeforeUpdate
<1>10. CASE Exhausted
    <2>1. mSchedule = <<>>
        BY <1>10, ScheduleIs, EmptySeq DEF Exhausted, SearchIsAligned, TypeOK
    <2> QED
        BY <1>10, <2>1 DEF Exhausted, RecordExtendsSearch, Running
<1>11. CASE LimitReached \/ RecordMissing \/ InvalidProgram
    BY <1>11 DEF LimitReached, RecordMissing, InvalidProgram, RecordExtendsSearch, Running
<1>12. CASE Terminated \/ UNCHANGED explorationVars
    BY <1>12 DEF Terminated, explorationVars, RecordExtendsSearch
<1> QED
    BY <1>1, <1>2, <1>3, <1>4, <1>5, <1>6, <1>8, <1>9, <1>10, <1>11, <1>12 DEF Next

\* A run that does not fail replaces the record.
LEMMA RecordIsFreshStep ==
    ASSUME TypeOK, RecordIsFresh, [Next]_explorationVars
    PROVE  RecordIsFresh'
<1>1. CASE \E status \in {"DONE", "BLOCKED"} : RunEnds(status)
    BY <1>1 DEF RunEnds, RecordIsFresh
<1>2. CASE RunFails
    BY <1>2 DEF RunFails, RecordIsFresh, TypeOK
<1>3. CASE ReplayScheduled \/ (\E t \in Tids : SelectThread(t))
    BY <1>3 DEF ReplayScheduled, SelectThread, ProgramStep, RecordIsFresh
<1>4. CASE BacktrackFurther \/ (\E next \in Tids : ScheduleNext(next))
    BY <1>4 DEF BacktrackFurther, ScheduleNext, PopBack, RecordIsFresh
<1>5. CASE StartRun \/ LimitReached \/ RecordMissing \/ ReadRecord \/ InvalidProgram
           \/ RestoreTransition \/ UpdateTransition \/ FinishUpdate \/ Exhausted
    BY <1>5 DEF StartRun, LimitReached, RecordMissing, ReadRecord, InvalidProgram,
       RestoreTransition, UpdateTransition, FinishUpdate, Exhausted, RecordIsFresh
<1>6. CASE Terminated \/ UNCHANGED explorationVars
    BY <1>6 DEF Terminated, explorationVars, RecordIsFresh
<1> QED
    BY <1>1, <1>2, <1>3, <1>4, <1>5, <1>6 DEF Next

\* Reading an execution logs its schedule; popping shortens the execution only.
LEMMA ExecutionIsLoggedStep ==
    ASSUME TypeOK, SearchIsAligned, ExecutionIsLogged, [Next]_explorationVars
    PROVE  ExecutionIsLogged'
<1>1. CASE ReadRecord
    <2> DEFINE s == ScheduleOf(record.transitions)
    <2>1. s \in schedules' /\ mExecution' = record.transitions
        BY <1>1 DEF ReadRecord
    <2>2. Len(s) = Len(record.transitions) /\ Len(s) \in Nat
          /\ \A j \in 1 .. Len(record.transitions) : s[j] = record.transitions[j].instr.tid
        BY ScheduleIs DEF TypeOK
    <2> QED
        BY <2>1, <2>2 DEF ExecutionIsLogged
<1>2. CASE RestoreTransition \/ UpdateTransition \/ FinishUpdate
    BY <1>2 DEF RestoreTransition, UpdateTransition, FinishUpdate, ExecutionIsLogged
<1>3. CASE BacktrackFurther
    <2>1. PopBack /\ phase = "backtrack" /\ phase' = "backtrack" /\ schedules' = schedules
        BY <1>3 DEF BacktrackFurther, PopBack
    <2>2. PICK s \in schedules : /\ Len(s) >= Len(mExecution)
                                /\ \A j \in 1 .. Len(mExecution) : s[j] = mExecution[j].instr.tid
        BY <2>1 DEF ExecutionIsLogged
    <2>3. Len(s) \in Nat
        BY <2>2 DEF TypeOK
    <2>4. Len(s) >= Len(mExecution')
          /\ \A j \in 1 .. Len(mExecution') : s[j] = mExecution'[j].instr.tid
        BY <2>1, <2>2, <2>3, PopBackIs
    <2> QED
        BY <2>1, <2>4 DEF ExecutionIsLogged
<1>4. CASE Terminated \/ UNCHANGED explorationVars
    BY <1>4 DEF Terminated, explorationVars, ExecutionIsLogged
<1>5. CASE ReplayScheduled \/ (\E t \in Tids : SelectThread(t))
    BY <1>5 DEF ReplayScheduled, SelectThread, ProgramStep, ExecutionIsLogged
<1>6. CASE StartRun \/ LimitReached \/ RunFails \/ RecordMissing \/ InvalidProgram \/ Exhausted
           \/ (\E status \in {"DONE", "BLOCKED"} : RunEnds(status))
           \/ (\E next \in Tids : ScheduleNext(next))
    BY <1>6 DEF StartRun, LimitReached, RunFails, RecordMissing, InvalidProgram, Exhausted,
       RunEnds, ScheduleNext, ExecutionIsLogged
<1> QED
    BY <1>1, <1>2, <1>3, <1>4, <1>5, <1>6 DEF Next

\* Without failures, the schedule that is read follows the current branch to its
\* end, which no thread of the done sets does.
LEMMA FreshRecordIsUndone ==
    ASSUME TypeOK, SearchIsAligned, RunFollowsSearch, RecordIsFresh, BranchIsUndone,
           phase = "read", failures = 0
    PROVE  /\ record.transitions = recording
           /\ \A i \in 1 .. Len(recording) :
                  i <= Len(dfsState) => recording[i].instr.tid \notin dfsState[i]
<1>1. record.transitions = recording /\ Len(recording) >= Len(mSchedule)
    BY DEF RecordIsFresh
<1>2. ASSUME NEW i \in 1 .. Len(recording), i <= Len(dfsState)
      PROVE  recording[i].instr.tid \notin dfsState[i]
    <2>1. Len(dfsState) = Len(mExecution) + 1 /\ from = Len(mExecution) + 1
          /\ Len(mExecution) \in Nat /\ Len(recording) \in Nat
        BY DEF SearchIsAligned, BeforeUpdate, TypeOK
    <2>2. CASE i <= Len(mExecution)
        <3>1. recording[i] = mExecution[i]
            BY <1>2, <2>2 DEF RunFollowsSearch
        <3>2. i \in 1 .. Len(mExecution)
            BY <1>2, <2>1, <2>2
        <3> QED
            BY <1>2, <3>1, <3>2 DEF BranchIsUndone, Running
    <2>3. CASE i = from /\ mSchedule = <<>>
        BY <1>2, <2>3 DEF BranchIsUndone, BeforeUpdate
    <2>4. CASE i = from /\ mSchedule # <<>>
        <3>1. Len(mSchedule) = from
            BY <2>4 DEF SearchIsAligned, BeforeUpdate
        <3>2. recording[i].instr.tid = mSchedule[i]
            BY <1>2, <2>1, <2>4, <3>1 DEF RunFollowsSearch
        <3> QED
            BY <2>4, <3>2 DEF BranchIsUndone, BeforeUpdate
    <2> QED
        BY <1>2, <2>1, <2>2, <2>3, <2>4
<1> QED
    BY <1>1, <1>2

\* The thread that is scheduled next is not done yet, and a fresh record takes it.
LEMMA BranchIsUndoneStep ==
    ASSUME TypeOK, SearchIsAligned, RunFollowsSearch, RecordIsFresh, BranchIsUndone,
           [Next]_explorationVars
    PROVE  BranchIsUndone'
<1>1. CASE StartRun \/ (\E status \in {"DONE", "BLOCKED"} : RunEnds(status))
    BY <1>1 DEF StartRun, RunEnds, BranchIsUndone, BeforeUpdate, Running
<1>2. CASE ReplayScheduled \/ (\E t \in Tids : SelectThread(t))
    BY <1>2 DEF ReplayScheduled, SelectThread, ProgramStep, BranchIsUndone
<1>3. CASE RunFails
    BY <1>3 DEF RunFails, BranchIsUndone, BeforeUpdate, TypeOK
<1>4. CASE ReadRecord
    BY <1>4, FreshRecordIsUndone DEF ReadRecord, BranchIsUndone, BeforeUpdate
<1>5. CASE RestoreTransition \/ FinishUpdate
    BY <1>5 DEF RestoreTransition, FinishUpdate, BranchIsUndone, BeforeUpdate, Running
<1>6. CASE UpdateTransition
    <2>1. phase = "update" /\ phase' = "update" /\ UNCHANGED <<mExecution, failures>>
          /\ dfsState' = Append(dfsState, {})
        BY <1>6 DEF UpdateTransition
    <2>2. /\ Len(dfsState) \in Nat
          /\ Len(dfsState') = Len(dfsState) + 1
          /\ \A i \in 1 .. Len(dfsState) : dfsState'[i] = dfsState[i]
          /\ dfsState'[Len(dfsState) + 1] = {}
        BY <2>1, AppendIs DEF TypeOK
    <2>3. ASSUME failures = 0, NEW i \in 1 .. Len(mExecution), i <= Len(dfsState')
          PROVE  mExecution[i].instr.tid \notin dfsState'[i]
        <3>1. CASE i <= Len(dfsState)
            BY <2>1, <2>2, <2>3, <3>1 DEF BranchIsUndone, Running
        <3>2. CASE i = Len(dfsState) + 1
            BY <2>2, <3>2
        <3> QED
            BY <2>2, <2>3, <3>1, <3>2
    <2> QED
        BY <2>1, <2>3 DEF BranchIsUndone, BeforeUpdate
<1>7. ASSUME PopBack
      PROVE  failures' = 0 =>
                 \A i \in 1 .. Len(mExecution') :
                     i <= Len(dfsState') => mExecution'[i].instr.tid \notin dfsState'[i]
    <2>1. failures = 0 =>
              \A i \in 1 .. Len(mExecution) :
                  i <= Len(dfsState) => mExecution[i].instr.tid \notin dfsState[i]
        BY <1>7 DEF PopBack, BranchIsUndone, Running
    <2>2. failures' = failures
        BY <1>7 DEF PopBack
    <2> QED
        BY <1>7, <2>1, <2>2, PopBackIs
<1>8. ASSUME NEW next \in Tids, ScheduleNext(next),
             NEW pool \in PoolOfReduction, next \in Undone(pool)
      PROVE  BranchIsUndone'
    <2>1. PopBack
        BY <1>8 DEF ScheduleNext
    <2>2. mSchedule' # <<>>
        BY <1>8, <2>1, ScheduleNextIs, PopBackIs, EmptySeq
    <2> QED
        BY <1>7, <1>8, <2>1, <2>2, ScheduleNextIs DEF BranchIsUndone
<1>9. CASE BacktrackFurther
    BY <1>7, <1>9 DEF BacktrackFurther, PopBack, BranchIsUndone, BeforeUpdate
<1>10. CASE Exhausted
    <2>1. mSchedule = <<>>
        BY <1>10, ScheduleIs, EmptySeq DEF Exhausted, SearchIsAligned, TypeOK
    <2> QED
        BY <1>10, <2>1 DEF Exhausted, BranchIsUndone, BeforeUpdate, Running
<1>11. CASE LimitReached \/ RecordMissing \/ InvalidProgram
    BY <1>11 DEF LimitReached, RecordMissing, InvalidProgram, BranchIsUndone, BeforeUpdate, Running
<1>12. CASE Terminated \/ UNCHANGED explorationVars
    BY <1>12 DEF Terminated, explorationVars, BranchIsUndone
<1> QED
    BY <1>1, <1>2, <1>3, <1>4, <1>5, <1>6, <1>8, <1>9, <1>10, <1>11, <1>12 DEF Next

\* A schedule that has left the branch at a state that is kept has still left it.
LEMMA DivergesStep ==
    ASSUME TypeOK, SearchIsAligned, RecordExtendsSearch, NEW s \in Seq(Tids), Diverges(s),
           ReadRecord \/ UpdateTransition
    PROVE  Diverges(s)'
<1> PICK k \in 1 .. Len(dfsState) : /\ k <= Len(s)
                                   /\ k - 1 <= Len(mExecution)
                                   /\ s[k] \in dfsState[k]
                                   /\ \A j \in 1 .. k - 1 : s[j] = mExecution[j].instr.tid
    BY DEF Diverges
<1>1. Len(dfsState) \in Nat /\ Len(mExecution) \in Nat
    BY DEF TypeOK
<1>2. /\ Len(dfsState') >= Len(dfsState)
      /\ Len(dfsState') \in Nat
      /\ dfsState'[k] = dfsState[k]
    <2>1. CASE ReadRecord
        BY <1>1, <2>1 DEF ReadRecord
    <2>2. CASE UpdateTransition
        <3>1. dfsState' = Append(dfsState, {}) /\ {} \in SUBSET Tids
            BY <2>2 DEF UpdateTransition
        <3>2. /\ Len(dfsState') = Len(dfsState) + 1
              /\ \A i \in 1 .. Len(dfsState) : dfsState'[i] = dfsState[i]
            BY <3>1, AppendIs DEF TypeOK
        <3> QED
            BY <1>1, <3>2
    <2> QED
        BY <2>1, <2>2
<1>3. CASE ReadRecord
    <2>1. /\ Len(record.transitions) >= Len(mExecution)
          /\ Len(record.transitions) \in Nat
          /\ \A i \in 1 .. Len(mExecution) : record.transitions[i] = mExecution[i]
        BY <1>3 DEF ReadRecord, RecordExtendsSearch, Running, TypeOK
    <2>2. mExecution' = record.transitions
        BY <1>3 DEF ReadRecord
    <2>3. \A j \in 1 .. k - 1 : j \in 1 .. Len(mExecution)
        BY <1>1
    <2>4. \A j \in 1 .. k - 1 : s[j] = mExecution'[j].instr.tid
        BY <2>1, <2>2, <2>3
    <2> QED
        BY <1>1, <1>2, <2>1, <2>2, <2>4 DEF Diverges
<1>4. CASE UpdateTransition
    <2>1. mExecution' = mExecution
        BY <1>4 DEF UpdateTransition
    <2> QED
        BY <1>1, <1>2, <2>1 DEF Diverges
<1> QED
    BY <1>3, <1>4

\* Backtracking one transition, the schedule of the branch itself leaves the
\* branch that remains, and those that had left it already still do.
LEMMA DivergesPop ==
    ASSUME TypeOK, SearchIsAligned, NEW s \in Seq(Tids), PopBack,
           s = ScheduleOf(mExecution) \/ Diverges(s)
    PROVE  Diverges(s)'
<1> DEFINE n == Len(mExecution)
<1>1. /\ n \in Nat \ {0}
      /\ Len(dfsState) = n + 1
      /\ Len(mExecution') = n - 1
      /\ \A i \in 1 .. n - 1 : mExecution'[i] = mExecution[i]
      /\ Len(dfsState') = n
      /\ \A i \in 1 .. n - 1 : dfsState'[i] = dfsState[i]
      /\ dfsState'[n] = dfsState[n] \cup {mExecution[n].instr.tid}
    BY PopBackIs
<1>2. SUFFICES ASSUME s # ScheduleOf(mExecution), Diverges(s)
               PROVE  Diverges(s)'
    <2>1. CASE s = ScheduleOf(mExecution)
        <3>1. Len(s) = n /\ \A i \in 1 .. n : s[i] = mExecution[i].instr.tid
            BY <2>1, ScheduleIs DEF TypeOK
        <3> HIDE DEF n
        <3>2. n \in 1 .. Len(dfsState') /\ n <= Len(s) /\ n - 1 <= Len(mExecution')
            BY <1>1, <3>1
        <3>3. s[n] \in dfsState'[n] /\ \A j \in 1 .. n - 1 : s[j] = mExecution'[j].instr.tid
            BY <1>1, <3>1
        <3> QED
            BY <3>2, <3>3 DEF Diverges
    <2> QED
        BY <2>1
<1> PICK k \in 1 .. Len(dfsState) : /\ k <= Len(s)
                                   /\ k - 1 <= Len(mExecution)
                                   /\ s[k] \in dfsState[k]
                                   /\ \A j \in 1 .. k - 1 : s[j] = mExecution[j].instr.tid
    BY <1>2 DEF Diverges
<1> HIDE DEF n
<1>3. CASE k <= n
    <2>1. k \in 1 .. Len(dfsState') /\ k - 1 <= Len(mExecution')
        BY <1>1, <1>3
    <2>2. s[k] \in dfsState'[k] /\ \A j \in 1 .. k - 1 : s[j] = mExecution'[j].instr.tid
        BY <1>1, <1>3
    <2> QED
        BY <2>1, <2>2 DEF Diverges
<1>4. CASE k = n + 1
    <2>1. n \in 1 .. Len(dfsState') /\ n - 1 <= Len(mExecution') /\ n <= Len(s)
        BY <1>1, <1>4
    <2>2. s[n] \in dfsState'[n] /\ \A j \in 1 .. n - 1 : s[j] = mExecution'[j].instr.tid
        BY <1>1, <1>4
    <2> QED
        BY <2>1, <2>2 DEF Diverges
<1> QED
    BY <1>1, <1>3, <1>4

\* Popping turns the current schedule into one that diverges by a done thread;
\* the done sets that go with a state say nothing the parent does not say.
LEMMA LoggedDivergeStep ==
    ASSUME TypeOK, SearchIsAligned, RecordExtendsSearch, LoggedDiverge,
           [Next]_explorationVars
    PROVE  LoggedDiverge'
<1>1. CASE StartRun \/ (\E status \in {"DONE", "BLOCKED"} : RunEnds(status))
    BY <1>1 DEF StartRun, RunEnds, LoggedDiverge, Diverges, BeforeUpdate, Running
<1>2. CASE ReplayScheduled \/ (\E t \in Tids : SelectThread(t))
    BY <1>2 DEF ReplayScheduled, SelectThread, ProgramStep, LoggedDiverge, Diverges
<1>3. CASE RunFails
    BY <1>3 DEF RunFails, LoggedDiverge, BeforeUpdate, TypeOK
<1>4. CASE ReadRecord
    <2>1. /\ phase = "read" /\ phase' = "update" /\ failures' = failures
          /\ mSchedule' = ScheduleOf(record.transitions)
          /\ schedules' = schedules \cup {ScheduleOf(record.transitions)}
        BY <1>4 DEF ReadRecord
    <2>2. ASSUME failures = 0, NEW s \in schedules
          PROVE  Diverges(s)'
        <3>1. Diverges(s) /\ s \in Seq(Tids)
            BY <2>1, <2>2 DEF LoggedDiverge, Running, TypeOK
        <3> QED
            BY <1>4, <3>1, DivergesStep
    <2> QED
        BY <2>1, <2>2 DEF LoggedDiverge, BeforeUpdate
<1>5. CASE RestoreTransition \/ FinishUpdate
    BY <1>5 DEF RestoreTransition, FinishUpdate, LoggedDiverge, Diverges, BeforeUpdate, Running
<1>6. CASE UpdateTransition
    <2>1. /\ phase = "update" /\ phase' = "update"
          /\ UNCHANGED <<failures, mSchedule, schedules>>
        BY <1>6 DEF UpdateTransition
    <2>2. ASSUME failures = 0, NEW s \in schedules
          PROVE  s = mSchedule \/ Diverges(s)'
        <3>1. (s = mSchedule \/ Diverges(s)) /\ s \in Seq(Tids)
            BY <2>1, <2>2 DEF LoggedDiverge, Running, TypeOK
        <3> QED
            BY <1>6, <3>1, DivergesStep
    <2> QED
        BY <2>1, <2>2 DEF LoggedDiverge, BeforeUpdate
<1>7. ASSUME PopBack
      PROVE  failures' = 0 => \A s \in schedules' : Diverges(s)'
    <2>1. /\ phase = "backtrack"
          /\ UNCHANGED <<failures, schedules>>
          /\ mSchedule = ScheduleOf(mExecution)
        BY <1>7 DEF PopBack, SearchIsAligned
    <2>2. ASSUME failures = 0, NEW s \in schedules
          PROVE  Diverges(s)'
        <3>1. (s = ScheduleOf(mExecution) \/ Diverges(s)) /\ s \in Seq(Tids)
            BY <2>1, <2>2 DEF LoggedDiverge, Running, TypeOK
        <3> QED
            BY <1>7, <3>1, DivergesPop
    <2> QED
        BY <2>1, <2>2
<1>8. ASSUME NEW next \in Tids, ScheduleNext(next),
             NEW pool \in PoolOfReduction, next \in Undone(pool)
      PROVE  LoggedDiverge'
    <2>1. PopBack
        BY <1>8 DEF ScheduleNext
    <2>2. mSchedule' # <<>>
        BY <1>8, <2>1, ScheduleNextIs, PopBackIs, EmptySeq
    <2> QED
        BY <1>7, <2>1, <2>2 DEF LoggedDiverge
<1>9. CASE BacktrackFurther
    BY <1>7, <1>9 DEF BacktrackFurther, PopBack, LoggedDiverge, BeforeUpdate
<1>10. CASE Exhausted
    <2>1. mSchedule = <<>>
        BY <1>10, ScheduleIs, EmptySeq DEF Exhausted, SearchIsAligned, TypeOK
    <2> QED
        BY <1>10, <2>1 DEF Exhausted, LoggedDiverge, BeforeUpdate, Running
<1>11. CASE LimitReached \/ RecordMissing \/ InvalidProgram
    BY <1>11 DEF LimitReached, RecordMissing, InvalidProgram, LoggedDiverge, BeforeUpdate, Running
<1>12. CASE Terminated \/ UNCHANGED explorationVars
    BY <1>12 DEF Terminated, explorationVars, LoggedDiverge, Diverges
<1> QED
    BY <1>1, <1>2, <1>3, <1>4, <1>5, <1>6, <1>8, <1>9, <1>10, <1>11, <1>12 DEF Next

\* A thread becomes done when the execution that took it is popped, which some
\* logged schedule runs along.
LEMMA DoneWasRunStep ==
    ASSUME TypeOK, SearchIsAligned, RecordExtendsSearch, ExecutionIsLogged, DoneWasRun,
           [Next]_explorationVars
    PROVE  DoneWasRun'
<1>1. CASE ReadRecord \/ InvalidProgram
    <2>1. /\ phase = "read" /\ record # NoRecord
          /\ dfsState' = dfsState
          /\ schedules \subseteq schedules'
          /\ mExecution' = record.transitions
        BY <1>1 DEF ReadRecord, InvalidProgram
    <2>2. /\ Len(dfsState) = Len(mExecution) + 1
          /\ Len(mExecution) \in Nat
          /\ Len(record.transitions) \in Nat
          /\ Len(record.transitions) >= Len(mExecution)
          /\ \A i \in 1 .. Len(mExecution) : mExecution'[i] = mExecution[i]
        BY <2>1 DEF SearchIsAligned, RecordExtendsSearch, BeforeUpdate, Running, TypeOK
    <2>3. ASSUME NEW i \in 1 .. Len(dfsState), NEW t \in dfsState[i]
          PROVE  \E s \in schedules' :
                    /\ Len(s) >= i
                    /\ s[i] = t
                    /\ \A j \in 1 .. i - 1 : j <= Len(mExecution') => s[j] = mExecution'[j].instr.tid
        <3>1. PICK s \in schedules :
                    /\ Len(s) >= i
                    /\ s[i] = t
                    /\ \A j \in 1 .. i - 1 : j <= Len(mExecution) => s[j] = mExecution[j].instr.tid
            BY DEF DoneWasRun
        <3>2. \A j \in 1 .. i - 1 : j <= Len(mExecution) /\ mExecution'[j] = mExecution[j]
            BY <2>2
        <3>3. \A j \in 1 .. i - 1 : s[j] = mExecution'[j].instr.tid
            BY <3>1, <3>2
        <3>4. s \in schedules'
            BY <2>1
        <3> QED
            BY <3>1, <3>3, <3>4
    <2> QED
        BY <2>1, <2>3 DEF DoneWasRun
<1>2. CASE UpdateTransition
    <2>1. UNCHANGED <<mExecution, schedules>> /\ dfsState' = Append(dfsState, {})
        BY <1>2 DEF UpdateTransition
    <2>2. /\ Len(dfsState) \in Nat
          /\ Len(dfsState') = Len(dfsState) + 1
          /\ \A i \in 1 .. Len(dfsState) : dfsState'[i] = dfsState[i]
          /\ dfsState'[Len(dfsState) + 1] = {}
        BY <2>1, AppendIs DEF TypeOK
    <2>3. ASSUME NEW i \in 1 .. Len(dfsState'), NEW t \in dfsState'[i]
          PROVE  i \in 1 .. Len(dfsState) /\ t \in dfsState[i]
        BY <2>2
    <2>4. ASSUME NEW i \in 1 .. Len(dfsState'), NEW t \in dfsState'[i]
          PROVE  \E s \in schedules :
                    /\ Len(s) >= i
                    /\ s[i] = t
                    /\ \A j \in 1 .. i - 1 : j <= Len(mExecution) => s[j] = mExecution[j].instr.tid
        BY <2>3 DEF DoneWasRun
    <2> QED
        BY <2>1, <2>4 DEF DoneWasRun
<1>3. ASSUME PopBack
      PROVE  DoneWasRun'
    <2> DEFINE n == Len(mExecution)
    <2>1. /\ n \in Nat \ {0}
          /\ Len(dfsState) = n + 1
          /\ Len(mExecution') = n - 1
          /\ \A i \in 1 .. n - 1 : mExecution'[i] = mExecution[i]
          /\ Len(dfsState') = n
          /\ \A i \in 1 .. n - 1 : dfsState'[i] = dfsState[i]
          /\ dfsState'[n] = dfsState[n] \cup {mExecution[n].instr.tid}
        BY <1>3, PopBackIs
    <2>2. phase = "backtrack" /\ schedules' = schedules
        BY <1>3 DEF PopBack
    <2>3. ASSUME NEW i \in 1 .. Len(dfsState'), NEW t \in dfsState'[i]
          PROVE  \E s \in schedules :
                    /\ Len(s) >= i
                    /\ s[i] = t
                    /\ \A j \in 1 .. i - 1 : s[j] = mExecution[j].instr.tid
        <3>1. CASE t \in dfsState[i]
            <4>1. PICK s \in schedules :
                    /\ Len(s) >= i
                    /\ s[i] = t
                    /\ \A j \in 1 .. i - 1 : j <= n => s[j] = mExecution[j].instr.tid
                BY <2>1, <3>1 DEF DoneWasRun
            <4>2. \A j \in 1 .. i - 1 : j <= n
                BY <2>1
            <4> QED
                BY <4>1, <4>2
        <3>2. CASE i = n /\ t = mExecution[n].instr.tid
            <4>1. PICK s \in schedules : /\ Len(s) >= n
                                        /\ \A j \in 1 .. n : s[j] = mExecution[j].instr.tid
                BY <2>2 DEF ExecutionIsLogged
            <4>2. i \in 1 .. n /\ \A j \in 1 .. i - 1 : j \in 1 .. n
                BY <2>1
            <4> QED
                BY <3>2, <4>1, <4>2
        <3> QED
            BY <2>1, <3>1, <3>2
    <2>4. \A i \in 1 .. Len(dfsState') : \A j \in 1 .. i - 1 : mExecution'[j] = mExecution[j]
        BY <2>1
    <2>5. ASSUME NEW i \in 1 .. Len(dfsState'), NEW t \in dfsState'[i]
          PROVE  \E s \in schedules' :
                    /\ Len(s) >= i
                    /\ s[i] = t
                    /\ \A j \in 1 .. i - 1 : j <= Len(mExecution') => s[j] = mExecution'[j].instr.tid
        <3>1. PICK s \in schedules :
                    /\ Len(s) >= i
                    /\ s[i] = t
                    /\ \A j \in 1 .. i - 1 : s[j] = mExecution[j].instr.tid
            BY <2>3
        <3>2. \A j \in 1 .. i - 1 : mExecution'[j] = mExecution[j]
            BY <2>4
        <3>3. \A j \in 1 .. i - 1 : s[j] = mExecution'[j].instr.tid
            BY <3>1, <3>2, ZenonT(20)
        <3>4. s \in schedules'
            BY <2>2
        <3> QED
            BY <3>1, <3>3, <3>4, ZenonT(20)
    <2> QED
        BY <2>5 DEF DoneWasRun
<1>4. CASE ReplayScheduled \/ (\E t \in Tids : SelectThread(t))
    <2>1. UNCHANGED <<mExecution, dfsState, schedules>>
        BY <1>4 DEF ReplayScheduled, SelectThread, ProgramStep
    <2> QED
        BY <2>1 DEF DoneWasRun
<1>5. CASE StartRun \/ LimitReached \/ RunFails \/ RecordMissing \/ RestoreTransition
           \/ FinishUpdate \/ Exhausted \/ (\E status \in {"DONE", "BLOCKED"} : RunEnds(status))
    BY <1>5 DEF StartRun, LimitReached, RunFails, RecordMissing, RestoreTransition,
       FinishUpdate, Exhausted, RunEnds, DoneWasRun
<1>6. CASE Terminated \/ UNCHANGED explorationVars
    BY <1>6 DEF Terminated, explorationVars, DoneWasRun
<1> QED
    BY <1>1, <1>2, <1>3, <1>4, <1>5, <1>6 DEF Next, ScheduleNext, BacktrackFurther

-----------------------------------------------------------------------------
(* The theorems *)

\* The invariant holds at the start.
LEMMA InvInit == Init => Inv
<1> SUFFICES ASSUME Init
             PROVE  Inv
    OBVIOUS
<1>1. Len(mExecution) = 0 /\ Len(recording) = 0 /\ Len(record.transitions) = 0
      /\ Len(dfsState) = 1 /\ dfsState[1] = {} /\ from = 1 /\ mSchedule = <<>>
      /\ phase = "loop" /\ schedules = {} /\ mExecution = <<>> /\ record = NoRecord
    BY DEF Init, NoRecord
<1>2. TypeOK
    BY EmptySeq DEF Init, TypeOK, NoRecord, Running
<1>3. ExecutionsAreValid
    BY <1>1 DEF ExecutionsAreValid, IsExecution
<1>4. SearchIsAligned
    BY <1>1 DEF SearchIsAligned, BeforeUpdate
<1>5. RunFollowsSearch /\ RecordExtendsSearch /\ RecordIsFresh /\ ExecutionIsLogged
    BY <1>1 DEF RunFollowsSearch, RecordExtendsSearch, RecordIsFresh, ExecutionIsLogged
<1>6. BranchIsUndone
    BY <1>1 DEF BranchIsUndone
<1>7. LoggedDiverge
    BY <1>1 DEF LoggedDiverge
<1>8. DoneWasRun
    BY <1>1 DEF DoneWasRun
<1> QED
    BY <1>2, <1>3, <1>4, <1>5, <1>6, <1>7, <1>8 DEF Inv

\* Every step preserves the invariant: one lemma per conjunct.
LEMMA InvStep == Inv /\ [Next]_explorationVars => Inv'
    BY TypeOKStep, ExecutionsAreValidStep, SearchIsAlignedStep, RunFollowsSearchStep,
       RecordExtendsSearchStep, RecordIsFreshStep, ExecutionIsLoggedStep, BranchIsUndoneStep,
       LoggedDivergeStep, DoneWasRunStep
    DEF Inv

\* The inductive invariant holds throughout every exploration.
THEOREM Invariant == Spec => []Inv
    BY InvInit, InvStep, PTL DEF Spec

\* The assertions of depth_first_search hold.
THEOREM Assertions == Spec => []AssertionsHold
<1>1. Inv => AssertionsHold
    BY DEF Inv, TypeOK, SearchIsAligned, AssertionsHold
<1> QED
    BY <1>1, Invariant, PTL

\* The new schedule is that of the kept execution and one enabled thread more.
THEOREM ScheduleExtends == Spec => []ScheduleExtendsExecution
<1>1. ASSUME Inv, phase \in BeforeUpdate, mSchedule # <<>>
      PROVE  /\ Front(mSchedule) = ScheduleOf(mExecution)
             /\ Last(mSchedule) \in Enabled(program, Final(mExecution))
             /\ Len(mSchedule) = from
             /\ Len(dfsState) = from
    <2>1. /\ mSchedule \in Seq(Tids) /\ mExecution \in Seq(Transitions)
          /\ Len(mSchedule) = from /\ Len(dfsState) = from /\ from = Len(mExecution) + 1
          /\ \A i \in 1 .. Len(mExecution) : mSchedule[i] = mExecution[i].instr.tid
          /\ mSchedule[from] \in Enabled(program, Final(mExecution))
        BY <1>1 DEF Inv, TypeOK, SearchIsAligned
    <2>2. /\ Front(mSchedule) \in Seq(Tids)
          /\ Len(Front(mSchedule)) = Len(mExecution)
          /\ \A i \in 1 .. Len(mExecution) : Front(mSchedule)[i] = mExecution[i].instr.tid
        BY <1>1, <2>1, FrontIs
    <2>3. Front(mSchedule) = ScheduleOf(mExecution)
        BY <2>1, <2>2, ScheduleIs, SeqEqual
    <2> QED
        BY <2>1, <2>3 DEF Last
<1>2. Inv => ScheduleExtendsExecution
    BY <1>1 DEF ScheduleExtendsExecution, BeforeUpdate
<1> QED
    BY <1>2, Invariant, PTL

\* Every record that replay() can return begins with the kept prefix, also after
\* any number of runs that left none.
THEOREM KeptPrefix == Spec => []KeptPrefixIsReplayed
<1>1. Inv => KeptPrefixIsReplayed
    BY DEF Inv, RecordExtendsSearch, KeptPrefixIsReplayed, BeforeUpdate, Running
<1> QED
    BY <1>1, Invariant, PTL

\* No thread is marked done at a state without having been run there.
THEOREM DoneThreadsWereRun == Spec => []DoneWasRun
<1>1. Inv => DoneWasRun
    BY DEF Inv
<1> QED
    BY <1>1, Invariant, PTL

\* A record that is not left over from an earlier run holds a new schedule.
LEMMA FreshRecordIsNew ==
    ASSUME Inv, ReadRecord, failures = 0
    PROVE  ScheduleOf(record.transitions) \notin schedules
<1>1. /\ phase = "read" /\ TypeOK /\ record.transitions = recording
      /\ \A i \in 1 .. Len(recording) :
             i <= Len(dfsState) => recording[i].instr.tid \notin dfsState[i]
    BY FreshRecordIsUndone DEF Inv, ReadRecord
<1>2. /\ Len(ScheduleOf(recording)) = Len(recording)
      /\ \A i \in 1 .. Len(recording) : ScheduleOf(recording)[i] = recording[i].instr.tid
    BY <1>1, ScheduleIs DEF TypeOK
<1> SUFFICES ASSUME ScheduleOf(recording) \in schedules
             PROVE  FALSE
    BY <1>1
<1>3. Diverges(ScheduleOf(recording))
    BY <1>1 DEF Inv, LoggedDiverge, Running
<1>4. PICK k \in 1 .. Len(dfsState) : k <= Len(recording) /\ ScheduleOf(recording)[k] \in dfsState[k]
    BY <1>2, <1>3 DEF Diverges
<1> QED
    BY <1>1, <1>2, <1>4 DEF TypeOK

\* As long as every run leaves its record, no schedule is explored twice.
THEOREM NoRepetition == Spec => NoScheduleTwice
<1>1. ASSUME Inv, [Next]_explorationVars, phase = "read", phase' = "update", failures = 0
      PROVE  mSchedule' \notin schedules
    <2>1. ReadRecord
        BY <1>1 DEF Next, StartRun, LimitReached, ReplayScheduled, SelectThread, ProgramStep,
           RunEnds, RunFails, RecordMissing, InvalidProgram, RestoreTransition,
           UpdateTransition, FinishUpdate, ScheduleNext, BacktrackFurther, PopBack,
           Exhausted, Terminated, explorationVars
    <2> QED
        BY <1>1, <2>1, FreshRecordIsNew DEF ReadRecord
<1>2. Inv /\ [Next]_explorationVars
        => (phase = "read" /\ phase' = "update" /\ failures = 0 => mSchedule' \notin schedules)
    BY <1>1
<1> QED
    BY <1>2, Invariant, PTL DEF Spec, NoScheduleTwice

-----------------------------------------------------------------------------
(* Preemptions, and executions within a bound *)

\* The number of preemptions is a natural.
LEMMA PreemptionsOfType ==
    ASSUME NEW p, NEW e \in Seq(Transitions)
    PROVE  IsFiniteSet(PreemptingTransitions(p, e)) /\ PreemptionsOf(p, e) \in Nat
<1>1. IsFiniteSet(2 .. Len(e))
    BY FS_Interval
<1>2. PreemptingTransitions(p, e) \subseteq 2 .. Len(e)
    BY DEF PreemptingTransitions
<1>3. IsFiniteSet(PreemptingTransitions(p, e))
    BY <1>1, <1>2, FS_Subset
<1> QED
    BY <1>3, FS_CardinalityType DEF PreemptionsOf

\* An execution with at most one transition has no preemption.
LEMMA NoPreemption ==
    ASSUME NEW p, NEW e \in Seq(Transitions), Len(e) <= 1
    PROVE  PreemptionsOf(p, e) = 0
<1>1. PreemptingTransitions(p, e) = {}
    BY DEF PreemptingTransitions
<1> QED
    BY <1>1, FS_EmptySet DEF PreemptionsOf

\* An execution that agrees with a longer one has no more preemptions.
LEMMA PreemptionsOfPrefix ==
    ASSUME NEW p, NEW e \in Seq(Transitions), NEW f \in Seq(Transitions),
           Len(e) <= Len(f), \A i \in 1 .. Len(e) : e[i] = f[i]
    PROVE  PreemptionsOf(p, e) <= PreemptionsOf(p, f)
<1>1. PreemptingTransitions(p, e) \subseteq PreemptingTransitions(p, f)
    <2> SUFFICES ASSUME NEW i \in PreemptingTransitions(p, e)
                 PROVE  i \in PreemptingTransitions(p, f)
        OBVIOUS
    <2>1. i \in 2 .. Len(f) /\ e[i] = f[i] /\ e[i - 1] = f[i - 1]
        BY DEF PreemptingTransitions
    <2> QED
        BY <2>1 DEF PreemptingTransitions
<1> QED
    BY <1>1, PreemptionsOfType, FS_Subset DEF PreemptionsOf

\* Performing one more transition adds the step value of Preemptions::step_value.
LEMMA PreemptionsOfStep ==
    ASSUME NEW p, NEW e \in Seq(Transitions), NEW f \in Seq(Transitions),
           e # <<>>, Len(f) = Len(e) + 1, \A i \in 1 .. Len(e) : f[i] = e[i],
           f[Len(f)].pre = Last(e).post
    PROVE  PreemptionsOf(p, f) = PreemptionsOf(p, e) + StepValue(p, Last(e), f[Len(f)].instr.tid)
<1> DEFINE n == Len(f)
           E == PreemptingTransitions(p, e)
           F == PreemptingTransitions(p, f)
           preempts == f[n].instr.tid # Last(e).instr.tid /\ Last(e).instr.tid \in Enabled(p, Last(e).post)
<1>1. Len(e) \in Nat \ {0} /\ n = Len(e) + 1 /\ Last(e) = e[Len(e)] /\ f[n - 1] = Last(e)
    BY LastIs
<1>2. \A i \in 2 .. Len(e) : i \in E <=> i \in F
    <2> SUFFICES ASSUME NEW i \in 2 .. Len(e)
                 PROVE  i \in E <=> i \in F
        OBVIOUS
    <2>1. i \in 2 .. Len(f) /\ f[i] = e[i] /\ f[i - 1] = e[i - 1]
        BY <1>1
    <2> QED
        BY <2>1 DEF PreemptingTransitions
<1>3. n \notin E /\ (n \in F <=> preempts)
    BY <1>1 DEF PreemptingTransitions
<1>4. /\ \A i \in E : i \in 2 .. Len(e)
      /\ \A i \in F : i \in 2 .. Len(e) \/ i = n
    BY <1>1 DEF PreemptingTransitions
<1>5. IsFiniteSet(E) /\ Cardinality(E) \in Nat
    BY PreemptionsOfType, FS_CardinalityType
<1>6. PreemptionsOf(p, f) = Cardinality(F) /\ PreemptionsOf(p, e) = Cardinality(E)
    BY DEF PreemptionsOf
<1>7. StepValue(p, Last(e), f[Len(f)].instr.tid) = IF preempts THEN 1 ELSE 0
    BY DEF StepValue
<1> HIDE DEF n, E, F, preempts
<1>8. Cardinality(F) = Cardinality(E) + IF preempts THEN 1 ELSE 0
    <2>1. CASE preempts
        <3>1. \A i : i \in F <=> i \in E \/ i = n
            BY <1>2, <1>3, <1>4, <2>1, Zenon
        <3>2. F = E \cup {n}
            BY <3>1
        <3> QED
            BY <1>3, <1>5, <2>1, <3>2, FS_AddElement
    <2>2. CASE ~preempts
        <3>1. F = E
            BY <1>2, <1>3, <1>4, <2>2, Zenon
        <3> QED
            BY <1>5, <2>2, <3>1
    <2> QED
        BY <2>1, <2>2
<1> QED
    BY <1>6, <1>7, <1>8, Zenon

-----------------------------------------------------------------------------
(* Values of the bound *)

\* Two executions that agree on n transitions have the same prefix of length n.
LEMMA SamePrefix ==
    ASSUME NEW e \in Seq(Transitions), NEW f \in Seq(Transitions), NEW n \in Nat,
           n <= Len(e), n <= Len(f), \A i \in 1 .. n : e[i] = f[i]
    PROVE  SubSeq(e, 1, n) = SubSeq(f, 1, n)
<1>1. /\ SubSeq(e, 1, n) \in Seq(Transitions) /\ Len(SubSeq(e, 1, n)) = n
      /\ SubSeq(f, 1, n) \in Seq(Transitions) /\ Len(SubSeq(f, 1, n)) = n
    OBVIOUS
<1>2. \A i \in 1 .. n : SubSeq(e, 1, n)[i] = e[i] /\ SubSeq(f, 1, n)[i] = f[i]
    OBVIOUS
<1> QED
    BY <1>1, <1>2, SeqEqual

\* LocalBoundFunction::value is exact: from the exact value of the first idx
\* transitions it computes that of an execution one transition longer.
LEMMA ValueIsExact ==
    ASSUME NEW p, NEW e \in Seq(Transitions), NEW S, NEW idx \in 0 .. Len(e),
           S[idx + 1] = PreemptionsOf(p, SubSeq(e, 1, idx)),
           NEW f \in Seq(Transitions), Len(f) = idx + 1,
           \A i \in 1 .. idx : f[i] = e[i],
           idx # 0 => f[idx + 1].pre = e[idx].post
    PROVE  PreemptionsOf(p, f) = Value(p, e, S, idx, f[idx + 1].instr.tid)
<1>1. CASE idx = 0
    <2>1. Len(f) <= 1
        BY <1>1
    <2>2. PreemptionsOf(p, f) = 0
        BY <2>1, NoPreemption
    <2>3. Value(p, e, S, idx, f[idx + 1].instr.tid) = 0
        BY <1>1 DEF Value
    <2> QED
        BY <2>2, <2>3
<1>2. CASE idx # 0
    <2> DEFINE g == SubSeq(e, 1, idx)
    <2>1. /\ g \in Seq(Transitions)
          /\ Len(g) = idx
          /\ \A i \in 1 .. idx : g[i] = e[i]
        OBVIOUS
    <2>2. S[idx + 1] = PreemptionsOf(p, g)
        OBVIOUS
    <2> HIDE DEF g
    <2>3. g # <<>> /\ Last(g) = e[idx]
        BY <1>2, <2>1, EmptySeq DEF Last
    <2>4. PreemptionsOf(p, f) = PreemptionsOf(p, g) + StepValue(p, Last(g), f[Len(f)].instr.tid)
        BY <1>2, <2>1, <2>3, PreemptionsOfStep
    <2>5. Value(p, e, S, idx, f[idx + 1].instr.tid)
             = S[idx + 1] + StepValue(p, e[idx], f[idx + 1].instr.tid)
        BY <1>2 DEF Value
    <2> QED
        BY <2>2, <2>3, <2>4, <2>5
<1> QED
    BY <1>1, <1>2

\* Where execution and values agree with exact ones, the values are exact.
LEMMA ValuesKept ==
    ASSUME NEW p, NEW e \in Seq(Transitions), NEW f \in Seq(Transitions),
           NEW S, NEW T, Len(S) \in Nat, Len(T) \in Nat, Len(T) <= Len(S),
           \A i \in 1 .. Len(T) : T[i] = S[i],
           Len(T) <= Len(e) + 1, Len(T) <= Len(f) + 1,
           \A i \in 1 .. Len(T) - 1 : f[i] = e[i],
           ValuesAreExact(p, e, S)
    PROVE  ValuesAreExact(p, f, T)
<1> SUFFICES ASSUME NEW i \in 1 .. Len(T)
             PROVE  T[i] = PreemptionsOf(p, SubSeq(f, 1, i - 1))
    BY DEF ValuesAreExact
<1>1. i - 1 \in Nat /\ i - 1 <= Len(e) /\ i - 1 <= Len(f) /\ \A j \in 1 .. i - 1 : e[j] = f[j]
    OBVIOUS
<1>2. SubSeq(e, 1, i - 1) = SubSeq(f, 1, i - 1)
    BY <1>1, SamePrefix
<1>3. T[i] = S[i] /\ i \in 1 .. Len(S)
    OBVIOUS
<1>4. S[i] = PreemptionsOf(p, SubSeq(e, 1, i - 1))
    BY <1>1, <1>3 DEF ValuesAreExact
<1> QED
    BY <1>2, <1>3, <1>4

\* The value computed for one more transition is exact.
LEMMA ValuesExtended ==
    ASSUME NEW p, NEW e \in Seq(Transitions), IsExecution(p, e), NEW n \in 1 .. Len(e),
           NEW S, NEW T, Len(S) = n, Len(T) = n + 1, \A i \in 1 .. n : T[i] = S[i],
           T[n + 1] = Value(p, e, S, n - 1, e[n].instr.tid),
           ValuesAreExact(p, e, S)
    PROVE  ValuesAreExact(p, e, T)
<1> DEFINE f == SubSeq(e, 1, n)
           idx == n - 1
<1>1. n \in Nat \ {0} /\ n <= Len(e)
    OBVIOUS
<1>2. f \in Seq(Transitions) /\ Len(f) = n /\ \A i \in 1 .. n : f[i] = e[i]
    BY <1>1
<1>3. n - 1 # 0 => e[n].pre = e[n - 1].post
    BY <1>1, PreIsStateBefore DEF StateBefore
<1>4. S[n] = PreemptionsOf(p, SubSeq(e, 1, n - 1))
    BY <1>1 DEF ValuesAreExact
<1>5. PreemptionsOf(p, f) = T[n + 1]
    <2> HIDE DEF f
    <2>1. idx \in 0 .. Len(e) /\ idx + 1 = n
        BY <1>1
    <2>2. /\ Len(f) = idx + 1 /\ \A i \in 1 .. idx : f[i] = e[i]
          /\ idx # 0 => f[idx + 1].pre = e[idx].post
          /\ S[idx + 1] = PreemptionsOf(p, SubSeq(e, 1, idx))
        BY <1>1, <1>2, <1>3, <1>4
    <2> HIDE DEF idx
    <2>3. PreemptionsOf(p, f) = Value(p, e, S, idx, f[idx + 1].instr.tid)
        BY <1>2, <2>1, <2>2, ValueIsExact
    <2> QED
        BY <1>1, <1>2, <2>1, <2>3 DEF idx
<1> SUFFICES ASSUME NEW i \in 1 .. Len(T), i - 1 <= Len(e)
             PROVE  T[i] = PreemptionsOf(p, SubSeq(e, 1, i - 1))
    BY DEF ValuesAreExact
<1>6. CASE i = n + 1
    BY <1>1, <1>5, <1>6
<1>7. CASE i \in 1 .. n
    BY <1>7 DEF ValuesAreExact
<1> QED
    BY <1>1, <1>6, <1>7

-----------------------------------------------------------------------------
(* Runs within a bound *)

\* The nonpreemptive strategy adds a transition without a preemption.
LEMMA NonPreemptiveAddsNone ==
    ASSUME Inv, NEW t \in NonPreemptive(recording, Enabled(program, Final(recording))),
           ProgramStep(t)
    PROVE  PreemptionsOf(program, recording') = PreemptionsOf(program, recording)
<1>1. t \in Tids /\ recording \in Seq(Transitions) /\ recording' \in Seq(Transitions)
    BY ProgramStepType DEF NonPreemptive, Enabled, Inv, TypeOK
<1>2. /\ Len(recording') = Len(recording) + 1
      /\ \A i \in 1 .. Len(recording) : recording'[i] = recording[i]
      /\ recording'[Len(recording')] = TransitionFrom(program, Final(recording), t)
      /\ recording'[Len(recording')].instr.tid = t
    BY <1>1, ProgramStepIs DEF Inv, ExecutionsAreValid
<1>3. CASE recording = <<>>
    <2>1. Len(recording) <= 1 /\ Len(recording') <= 1
        BY <1>2, <1>3, EmptySeq
    <2> QED
        BY <1>1, <2>1, NoPreemption
<1>4. CASE recording # <<>>
    <2>1. recording'[Len(recording')].pre = Last(recording).post
        BY <1>2, <1>4 DEF TransitionFrom, Final
    <2>2. StepValue(program, Last(recording), t) = 0
        BY <1>4 DEF StepValue, NonPreemptive, Final
    <2>3. PreemptionsOf(program, recording')
             = PreemptionsOf(program, recording) + StepValue(program, Last(recording), t)
        BY <1>1, <1>2, <1>4, <2>1, PreemptionsOfStep
    <2> QED
        BY <1>1, <2>2, <2>3, PreemptionsOfType
<1> QED
    BY <1>3, <1>4

\* With the last scheduled thread, the run has the value that thread was given.
LEMMA ScheduleIsWithin ==
    ASSUME Inv, ReplayScheduled, Len(recording) + 1 = Len(mSchedule),
           NEW S, Len(S) = Len(dfsState), ValuesAreExact(program, mExecution, S),
           NEW k, NextIsWithin(S, k)
    PROVE  PreemptionsOf(program, recording') <= k
<1> DEFINE idx == Len(mExecution)
           t == mSchedule[Len(recording) + 1]
           f == recording'
<1>1. TypeOK /\ mExecution \in Seq(Transitions) /\ idx \in Nat
    BY DEF Inv, TypeOK
<1>2. phase = "run" /\ mSchedule # <<>> /\ t \in Tids /\ ProgramStep(t)
    BY <1>1, EmptySeq, ElementOfSeq DEF ReplayScheduled, TypeOK
<1>3. /\ Len(mSchedule) = from /\ from = idx + 1 /\ Len(recording) = idx
      /\ Len(dfsState) = from
    BY <1>1, <1>2 DEF Inv, SearchIsAligned, BeforeUpdate, TypeOK
<1>4. \A i \in 1 .. idx : recording[i] = mExecution[i]
    BY <1>1, <1>2, <1>3 DEF Inv, RunFollowsSearch
<1>5. /\ f \in Seq(Transitions)
      /\ Len(f) = idx + 1
      /\ \A i \in 1 .. idx : f[i] = recording[i]
      /\ f[idx + 1] = TransitionFrom(program, Final(recording), t)
      /\ f[idx + 1].instr.tid = t
    BY <1>1, <1>2, <1>3, ProgramStepIs, ProgramStepType DEF Inv, ExecutionsAreValid, TypeOK
<1>6. idx # 0 => f[idx + 1].pre = mExecution[idx].post
    <2> SUFFICES ASSUME idx # 0
                 PROVE  f[idx + 1].pre = mExecution[idx].post
        OBVIOUS
    <2>1. recording # <<>> /\ Last(recording) = mExecution[idx]
        BY <1>1, <1>3, <1>4, EmptySeq DEF Last
    <2> QED
        BY <1>5, <2>1 DEF TransitionFrom, Final
<1>7. S[idx + 1] = PreemptionsOf(program, SubSeq(mExecution, 1, idx))
    <2>1. idx + 1 \in 1 .. Len(S) /\ (idx + 1) - 1 = idx
        BY <1>1, <1>3
    <2> HIDE DEF idx
    <2>2. (idx + 1) - 1 <= Len(mExecution)
        BY <2>1 DEF idx
    <2> QED
        BY <2>1, <2>2 DEF ValuesAreExact
<1>8. Value(program, mExecution, S, idx, mSchedule[from]) <= k
    BY <1>2 DEF NextIsWithin, BeforeUpdate
<1>9. t = mSchedule[from]
    BY <1>3
<1> HIDE DEF t, f
<1>10. PreemptionsOf(program, f) = Value(program, mExecution, S, idx, f[idx + 1].instr.tid)
    <2>1. idx \in 0 .. Len(mExecution) /\ \A i \in 1 .. idx : f[i] = mExecution[i]
        BY <1>1, <1>4, <1>5
    <2> HIDE DEF idx
    <2> QED
        BY <1>1, <1>5, <1>6, <1>7, <2>1, ValueIsExact
<1>11. PreemptionsOf(program, f) <= k
    BY <1>5, <1>8, <1>9, <1>10
<1> QED
    BY <1>11 DEF f

\* The empty execution is within every bound.
LEMMA NothingIsWithin ==
    ASSUME NEW p, NEW k \in Nat
    PROVE  PreemptionsOf(p, <<>>) <= k
<1>1. <<>> \in Seq(Transitions) /\ Len(<<>>) <= 1
    BY EmptySeq
<1>2. PreemptionsOf(p, <<>>) = 0
    BY <1>1, NoPreemption
<1> QED
    BY <1>2

\* A run stays within the bound: the schedule does, and the nonpreemptive strategy
\* adds no preemption to it.
LEMMA RunStaysWithin ==
    ASSUME Inv, [Next]_explorationVars, RunsNonPreemptively,
           NEW S, Len(S) = Len(dfsState), ValuesAreExact(program, mExecution, S),
           NEW k \in Nat, NextIsWithin(S, k), RunIsWithin(k)
    PROVE  RunIsWithin(k)'
<1>1. program' = program /\ TypeOK
    BY ProgramIsFixed DEF Inv
<1>2. CASE StartRun
    <2>1. recording' = <<>>
        BY <1>2 DEF StartRun
    <2> QED
        BY <2>1, NothingIsWithin DEF RunIsWithin
<1>3. CASE ReplayScheduled
    <2>1. /\ Len(recording) < Len(mSchedule)
          /\ ProgramStep(mSchedule[Len(recording) + 1])
          /\ mSchedule[Len(recording) + 1] \in Tids
        BY <1>1, <1>3, ElementOfSeq DEF ReplayScheduled, TypeOK
    <2>2. mSchedule' = mSchedule
        BY <2>1 DEF ProgramStep
    <2>3. Len(recording') = Len(recording) + 1
        BY <1>1, <2>1, ProgramStepIs DEF Inv, ExecutionsAreValid
    <2>4. Len(recording') >= Len(mSchedule') => Len(recording) + 1 = Len(mSchedule)
        BY <1>1, <2>1, <2>2, <2>3 DEF TypeOK
    <2> QED
        BY <1>1, <1>3, <2>4, ScheduleIsWithin DEF RunIsWithin
<1>4. ASSUME NEW t \in Tids, SelectThread(t)
      PROVE  RunIsWithin(k)'
    <2>1. /\ phase = "run" /\ Len(recording) >= Len(mSchedule) /\ mSchedule' = mSchedule
        BY <1>4 DEF SelectThread, ProgramStep
    <2>2. PreemptionsOf(program, recording) <= k
        BY <2>1 DEF RunIsWithin
    <2>3. CASE UNCHANGED recording
        BY <1>1, <2>2, <2>3 DEF RunIsWithin
    <2>4. ASSUME NEW u \in NonPreemptive(recording, Enabled(program, Final(recording))),
                 SelectThread(u)
          PROVE  RunIsWithin(k)'
        <3>1. PreemptionsOf(program, recording') = PreemptionsOf(program, recording)
            BY <2>4, NonPreemptiveAddsNone DEF SelectThread
        <3> QED
            BY <1>1, <2>2, <3>1 DEF RunIsWithin
    <2> QED
        BY <1>2, <1>3, <2>3, <2>4 DEF RunsNonPreemptively
<1>5. ASSUME phase' # "run"
      PROVE  RunIsWithin(k)'
    BY <1>5 DEF RunIsWithin
<1>6. CASE \/ LimitReached \/ (\E status \in {"DONE", "BLOCKED"} : RunEnds(status)) \/ RunFails
           \/ RecordMissing \/ ReadRecord \/ InvalidProgram \/ RestoreTransition
           \/ UpdateTransition \/ FinishUpdate \/ (\E next \in Tids : ScheduleNext(next))
           \/ BacktrackFurther \/ Exhausted
    BY <1>5, <1>6 DEF LimitReached, RunEnds, RunFails, RecordMissing, ReadRecord, InvalidProgram,
       RestoreTransition, UpdateTransition, FinishUpdate, ScheduleNext, BacktrackFurther, PopBack,
       Exhausted
<1>7. CASE Terminated \/ UNCHANGED explorationVars
    BY <1>1, <1>7 DEF Terminated, explorationVars, RunIsWithin
<1> QED
    BY <1>2, <1>3, <1>4, <1>6, <1>7 DEF Next

\* So does the record it leaves, and one left earlier.
LEMMA RecordStaysWithin ==
    ASSUME [Next]_explorationVars, NEW k \in Nat, RunIsWithin(k), RecordIsWithin(k)
    PROVE  RecordIsWithin(k)'
<1>1. program' = program
    BY ProgramIsFixed
<1>2. ASSUME NEW status, RunEnds(status)
      PROVE  RecordIsWithin(k)'
    <2>1. record'.transitions = recording
        BY <1>2 DEF RunEnds
    <2> QED
        BY <1>1, <1>2, <2>1 DEF RunEnds, RunIsWithin, RecordIsWithin
<1>3. CASE FinishUpdate
    <2>1. CASE record' = NoRecord
        BY <2>1, NothingIsWithin DEF RecordIsWithin, NoRecord
    <2>2. CASE record' = record
        BY <1>1, <2>2 DEF RecordIsWithin
    <2> QED
        BY <1>3, <2>1, <2>2 DEF FinishUpdate
<1>4. ASSUME record' = record
      PROVE  RecordIsWithin(k)'
    BY <1>1, <1>4 DEF RecordIsWithin
<1>5. CASE ~FinishUpdate /\ ~(\E status \in {"DONE", "BLOCKED"} : RunEnds(status))
    BY <1>4, <1>5 DEF Next, StartRun, LimitReached, ReplayScheduled, SelectThread, ProgramStep,
       RunFails, RecordMissing, ReadRecord, InvalidProgram, RestoreTransition, UpdateTransition,
       ScheduleNext, BacktrackFurther, PopBack, Exhausted, Terminated, explorationVars
<1> QED
    BY <1>2, <1>3, <1>5

\* The execution that is read back is a record; popping adds no preemption.
LEMMA ExecutionStaysWithin ==
    ASSUME Inv, [Next]_explorationVars, NEW k \in Nat, RecordIsWithin(k), ExecutionIsWithin(k)
    PROVE  ExecutionIsWithin(k)'
<1>1. program' = program
    BY ProgramIsFixed
<1>2. CASE ReadRecord
    BY <1>1, <1>2 DEF ReadRecord, RecordIsWithin, ExecutionIsWithin
<1>3. CASE PopBack
    <2>1. /\ mExecution \in Seq(Transitions) /\ mExecution' \in Seq(Transitions)
          /\ Len(mExecution) \in Nat \ {0}
          /\ Len(mExecution') = Len(mExecution) - 1
          /\ \A i \in 1 .. Len(mExecution) - 1 : mExecution'[i] = mExecution[i]
        BY <1>3, PopBackIs, PopBackType DEF Inv, TypeOK
    <2>2. Len(mExecution') <= Len(mExecution)
          /\ \A i \in 1 .. Len(mExecution') : mExecution'[i] = mExecution[i]
        BY <2>1
    <2>3. PreemptionsOf(program, mExecution') <= PreemptionsOf(program, mExecution)
        BY <2>1, <2>2, PreemptionsOfPrefix
    <2>4. PreemptionsOf(program, mExecution) \in Nat /\ PreemptionsOf(program, mExecution') \in Nat
        BY <2>1, PreemptionsOfType
    <2>5. PreemptionsOf(program, mExecution) <= k
        BY <1>3 DEF PopBack, ExecutionIsWithin
    <2>6. PreemptionsOf(program, mExecution') <= k
        BY <2>3, <2>4, <2>5
    <2> QED
        BY <1>1, <2>6 DEF ExecutionIsWithin
<1>4. ASSUME phase \in {"update", "backtrack"}, mExecution' = mExecution
      PROVE  ExecutionIsWithin(k)'
    BY <1>1, <1>4 DEF ExecutionIsWithin
<1>5. ASSUME phase' \notin {"update", "backtrack"}
      PROVE  ExecutionIsWithin(k)'
    BY <1>5 DEF ExecutionIsWithin
<1>6. CASE RestoreTransition \/ UpdateTransition \/ FinishUpdate
    BY <1>4, <1>6 DEF RestoreTransition, UpdateTransition, FinishUpdate
<1>7. CASE \/ StartRun \/ LimitReached \/ ReplayScheduled \/ (\E t \in Tids : SelectThread(t))
           \/ (\E status \in {"DONE", "BLOCKED"} : RunEnds(status)) \/ RunFails
           \/ RecordMissing \/ InvalidProgram \/ Exhausted
    BY <1>5, <1>7 DEF StartRun, LimitReached, ReplayScheduled, SelectThread, ProgramStep, RunEnds,
       RunFails, RecordMissing, InvalidProgram, Exhausted
<1>8. CASE Terminated \/ UNCHANGED explorationVars
    BY <1>1, <1>8 DEF Terminated, explorationVars, ExecutionIsWithin
<1> QED
    BY <1>2, <1>3, <1>6, <1>7, <1>8 DEF Next, ScheduleNext, BacktrackFurther

=============================================================================
