------------------------------ MODULE DporProofs ------------------------------
(***************************************************************************)
(* Proofs about Dpor: whatever the clocks say, only enabled threads get    *)
(* into a backtrack set, so that Dpor is an Exploration, and all that is   *)
(* proved of Exploration holds of it.                                      *)
(***************************************************************************)
EXTENDS DporInvariant, ExplorationProofs

\* The state before the last transition is the one that is left without it.
LEMMA FinalOfFront ==
    ASSUME NEW e \in Seq(Transitions), e # <<>>
    PROVE  Final(Front(e)) = StateBefore(e, Len(e))
<1>1. /\ Len(e) \in Nat \ {0}
      /\ Front(e) \in Seq(Transitions)
      /\ Len(Front(e)) = Len(e) - 1
      /\ \A i \in 1 .. Len(e) - 1 : Front(e)[i] = e[i]
    BY FrontIs, EmptySeq
<1>2. CASE Len(e) = 1
    <2>1. Front(e) = <<>>
        BY <1>1, <1>2, EmptySeq
    <2> QED
        BY <1>2, <2>1 DEF Final, StateBefore
<1>3. CASE Len(e) # 1
    <2>1. Front(e) # <<>> /\ Last(Front(e)) = e[Len(e) - 1]
        BY <1>1, <1>3, EmptySeq, LastIs
    <2> QED
        BY <1>3, <2>1 DEF Final, StateBefore
<1> QED
    BY <1>2, <1>3

\* A step that is not one of the first three leaves the sufficient sets alone.
LEMMA DporStepKinds ==
    ASSUME [DporNext]_dporVars
    PROVE  \/ UNCHANGED <<program, mExecution, dfsState, sufficient>>
           \/ DporReadRecord \/ DporInvalidProgram
           \/ DporUpdateTransition
           \/ PopBack /\ sufficient' = PoppedSufficient
<1>1. CASE (LimitReached \/ ReplayScheduled \/ RunFails \/ RecordMissing \/ FinishUpdate
            \/ Exhausted \/ Terminated) /\ UnchangedDpor
    BY <1>1 DEF LimitReached, ReplayScheduled, ProgramStep, RunFails, RecordMissing,
       FinishUpdate, Exhausted, Terminated, explorationVars, UnchangedDpor
<1>2. CASE DporStartRun \/ DporSelectThread \/ DporBlocked \/ DporRunEnds \/ DporRestoreTransition
    BY <1>2 DEF DporStartRun, StartRun, DporSelectThread, SelectThread, ProgramStep,
       DporBlocked, DporRunEnds, RunEnds, DporRestoreTransition, RestoreTransition
<1>3. CASE DporScheduleNext \/ DporBacktrackFurther
    BY <1>3 DEF DporScheduleNext, ScheduleNext, DporBacktrackFurther, BacktrackFurther, DporPopBack
<1>4. CASE UNCHANGED dporVars
    BY <1>4 DEF dporVars, explorationVars
<1> QED
    BY <1>1, <1>2, <1>3, <1>4 DEF DporNext

\* dpor::update_after_exploration and pop_back change sleep sets only.
LEMMA PoppedSufficientIs ==
    ASSUME DporInv, PopBack
    PROVE  /\ PoppedSufficient \in Seq(SufficientSets)
           /\ Len(PoppedSufficient) = Len(mExecution)
           /\ \A i \in 1 .. Len(mExecution) :
                  PoppedSufficient[i].backtrack = sufficient[i].backtrack
<1> DEFINE n == Len(mExecution)
           marked == [sufficient[n] EXCEPT !.sleep = @ \cup {Last(mExecution).instr.tid}]
           all == [sufficient EXCEPT ![n] = marked]
<1>1. n \in Nat \ {0} /\ Len(sufficient) = n + 1 /\ sufficient \in Seq(SufficientSets)
    BY PopBackIs DEF DporInv, Inv
<1>2. sufficient[n] \in SufficientSets
    BY <1>1, ElementOfSeq
<1>3. marked \in SufficientSets /\ marked.backtrack = sufficient[n].backtrack
    BY <1>2, PopBackType DEF SufficientSets, DporInv, Inv
<1>4. PoppedSufficient = Front(all)
    BY DEF PoppedSufficient
<1> HIDE DEF n, marked
<1>5. /\ all \in Seq(SufficientSets)
      /\ Len(all) = n + 1
      /\ \A i \in 1 .. n + 1 : all[i] = IF i = n THEN marked ELSE sufficient[i]
    BY <1>1, <1>3, ExceptSeq
<1> HIDE DEF all
<1>6. all # <<>>
    BY <1>1, <1>5, EmptySeq
<1>7. /\ Front(all) \in Seq(SufficientSets)
      /\ Len(Front(all)) = n
      /\ \A i \in 1 .. n : Front(all)[i] = all[i]
    BY <1>1, <1>5, <1>6, FrontIs
<1>8. \A i \in 1 .. n : Front(all)[i].backtrack = sufficient[i].backtrack
    BY <1>1, <1>3, <1>5, <1>7
<1> QED
    BY <1>4, <1>7, <1>8 DEF n

\* The pool of dpor consists of threads that are enabled in the popped state.
LEMMA PoolIsEnabled ==
    ASSUME DporInv, PopBack
    PROVE  Awake(Last(PoppedSufficient).sleep, Last(PoppedSufficient).backtrack) \in PoolOfReduction
<1>1. Len(mExecution) \in Nat \ {0} /\ Len(sufficient) = Len(mExecution) + 1
    BY PopBackIs DEF DporInv, Inv
<1>2. Last(PoppedSufficient).backtrack = sufficient[Len(mExecution)].backtrack
    BY <1>1, PoppedSufficientIs DEF Last
<1>3. sufficient[Len(mExecution)].backtrack
         \subseteq Enabled(program, StateBefore(mExecution, Len(mExecution)))
    BY <1>1 DEF DporInv, BacktrackIsEnabled
<1>4. Final(Front(mExecution)) = StateBefore(mExecution, Len(mExecution))
    BY FinalOfFront DEF DporInv, Inv, TypeOK, PopBack
<1> QED
    BY <1>2, <1>3, <1>4 DEF Awake, PoolOfReduction

\* Every handler of dpor is that of the exploration.
LEMMA DporNextIsNext ==
    ASSUME DporInv, [DporNext]_dporVars
    PROVE  [Next]_explorationVars
<1>1. CASE DporScheduleNext
    <2>1. PICK next \in Tids : ScheduleNext(next) /\ next \in DporUndone
        BY <1>1 DEF DporScheduleNext
    <2> DEFINE pool == Awake(Last(PoppedSufficient).sleep, Last(PoppedSufficient).backtrack)
    <2>2. pool \in PoolOfReduction
        BY <2>1, PoolIsEnabled DEF ScheduleNext
    <2>3. next \in Undone(pool)
        BY <2>1 DEF DporUndone
    <2> QED
        BY <2>1, <2>2, <2>3 DEF Next
<1>2. CASE DporSelectThread
    <2>1. NonPreemptive(recording, AwakeSelection) \subseteq Tids
        BY DEF NonPreemptive, AwakeSelection, Awake, Enabled
    <2> QED
        BY <1>2, <2>1 DEF DporSelectThread, Next
<1>3. CASE DporBlocked \/ DporRunEnds
    BY <1>3 DEF DporBlocked, DporRunEnds, Next
<1>4. CASE DporStartRun \/ DporReadRecord \/ DporInvalidProgram \/ DporRestoreTransition
           \/ DporUpdateTransition \/ DporBacktrackFurther
    BY <1>4 DEF DporStartRun, DporReadRecord, DporInvalidProgram, DporRestoreTransition,
       DporUpdateTransition, DporBacktrackFurther, Next
<1>5. CASE LimitReached \/ ReplayScheduled \/ RunFails \/ RecordMissing \/ FinishUpdate
           \/ Exhausted \/ Terminated
    BY <1>5 DEF Next
<1>6. CASE UNCHANGED dporVars
    BY <1>6 DEF dporVars
<1> QED
    BY <1>1, <1>2, <1>3, <1>4, <1>5, <1>6 DEF DporNext

-----------------------------------------------------------------------------
(* The inductive invariant *)

\* Whatever the relation h says, add_backtrack_point adds enabled threads only.
LEMMA AddedByPointIsEnabled ==
    ASSUME NEW p, NEW e, NEW h, NEW S, NEW point
    PROVE  AddedByPoint(p, e, h, S, point) \subseteq Enabled(p, e[point.index].pre)
<1>1. Alternatives(p, e, h, S[point.index].sleep, point) \subseteq Enabled(p, e[point.index].pre)
    BY DEF Alternatives, Awake
<1> QED
    BY <1>1 DEF AddedByPoint

\* Where threads never wait, a thread is enabled wherever it will go on from.
LEMMA EnabledEarlier ==
    ASSUME NEW p \in Programs, NeverWaits(p), NEW e \in Seq(Transitions), IsExecution(p, e),
           ThreadsAdvance(e), NEW j \in 1 .. Len(e), NEW i \in 1 .. j
    PROVE  e[j].instr.tid \in Enabled(p, e[i].pre)
<1> DEFINE t == e[j].instr.tid
<1>1. j \in Nat /\ i \in 1 .. Len(e) /\ e[i] \in Transitions /\ e[j] \in Transitions
    BY ElementOfSeq
<1>2. t \in Enabled(p, e[j].pre)
    BY PreIsStateBefore DEF IsExecution
<1>3. t \in Tids /\ e[j].pre.pc[t] < Len(p[t])
    BY <1>2 DEF Enabled, IsEnabled, HasNext
<1>4. Len(p[t]) \in Nat
    BY <1>3, ProgramsAssumption
<1>5. e[i].pre.pc[t] \in Nat /\ e[i].pre.pc[t] <= e[j].pre.pc[t]
    BY <1>1, <1>3 DEF ThreadsAdvance, Transitions, States
<1>6. e[j].pre.pc[t] \in Nat
    BY <1>1, <1>3 DEF Transitions, States
<1>7. e[i].pre.pc[t] < Len(p[t]) /\ e[i].pre.pc[t] + 1 \in 1 .. Len(p[t])
    <2>1. \A a, b, n \in Nat : a <= b /\ b < n => a < n /\ a + 1 \in 1 .. n
        OBVIOUS
    <2> QED
        BY <1>3, <1>4, <1>5, <1>6, <2>1
<1>8. HasNext(p, e[i].pre, t)
    <2>1. p[t][e[i].pre.pc[t] + 1].after = {}
        BY <1>3, <1>7 DEF NeverWaits, NoThreadAwaited
    <2> QED
        BY <1>7, <2>1 DEF HasNext, Reached
<1>9. NextInstr(p, e[i].pre, t).op # "Lock"
    <2>1. p[t][e[i].pre.pc[t] + 1].op \notin LockOperations
        BY <1>3, <1>7 DEF NeverWaits, HasNoLocks
    <2>2. NextInstr(p, e[i].pre, t).op = p[t][e[i].pre.pc[t] + 1].op
        BY DEF NextInstr
    <2> QED
        BY <2>1, <2>2 DEF LockOperations
<1> QED
    BY <1>3, <1>8, <1>9 DEF Enabled, IsEnabled

\* Whatever the relation says, Source adds threads that perform something later.
LEMMA AddedBySourceIsEnabled ==
    ASSUME NEW p \in Programs, NeverWaits(p), NEW e \in Seq(Transitions), IsExecution(p, e),
           ThreadsAdvance(e), NEW h, NEW S, NEW i \in 1 .. Len(e),
           NEW point, point.index \in 1 .. i
    PROVE  AddedBySource(e, h, S, i, point) \subseteq Enabled(p, e[point.index].pre)
<1>1. ASSUME NEW j \in Reversal(e, h, i, point)
      PROVE  e[j].instr.tid \in Enabled(p, e[point.index].pre)
    <2>1. j \in point.index .. i
        BY <1>1 DEF Reversal, IncomparableAfter
    <2> QED
        BY <2>1, EnabledEarlier
<1>2. Sources(e, h, i, point) \subseteq Enabled(p, e[point.index].pre)
    BY <1>1 DEF Sources, FrontOf
<1>3. AddedBySource(e, h, S, i, point) \subseteq Sources(e, h, i, point)
    BY DEF AddedBySource
<1> QED
    BY <1>2, <1>3

\* All that dpor::update_state adds to the backtrack set of a state on the stack
\* is enabled there.
LEMMA AddedToBacktrackIsEnabled ==
    ASSUME ValidPrograms, DporInv, UpdateTransition, NEW i \in 1 .. Len(sufficient)
    PROVE  AddedToBacktrack(i) \subseteq Enabled(program, StateBefore(mExecution, i))
<1>1. /\ Len(sufficient) = index /\ index \in 1 .. Len(mExecution)
      /\ index \in Nat \ {0} /\ Len(mExecution) \in Nat
      /\ IsExecution(program, mExecution)
      /\ program \in Programs /\ mExecution \in Seq(Transitions)
    BY DEF DporInv, Inv, TypeOK, SearchIsAligned, ExecutionsAreValid, UpdateTransition
<1>2. i \in 1 .. Len(mExecution) /\ i \in 1 .. index
    BY <1>1
<1>3. mExecution[i].pre = StateBefore(mExecution, i)
    BY <1>1, <1>2, PreIsStateBefore
<1>4. ASSUME NEW point, point.index = i
      PROVE  Added(point) \subseteq Enabled(program, StateBefore(mExecution, i))
    <2>1. CASE sufficient_set_t = "Source"
        <3>1. NeverWaits(program) /\ ThreadsAdvance(mExecution)
            BY <1>1, <2>1 DEF ValidPrograms, NeverWaits, DporInv, CheckIsEnough, UpdateTransition
        <3>2. AddedBySource(mExecution, UpdatedHB, sufficient, index, point)
                 \subseteq Enabled(program, mExecution[point.index].pre)
            BY <1>1, <1>2, <1>4, <3>1, AddedBySourceIsEnabled
        <3> QED
            BY <1>3, <1>4, <2>1, <3>2 DEF Added
    <2>2. CASE sufficient_set_t # "Source"
        BY <1>3, <1>4, <2>2, AddedByPointIsEnabled DEF Added
    <2> QED
        BY <2>1, <2>2
<1>5. i = Len(sufficient)
         => mExecution[index].instr.tid \in Enabled(program, StateBefore(mExecution, i))
    BY <1>1, <1>2 DEF IsExecution
<1> QED
    BY <1>4, <1>5 DEF AddedToBacktrack

\* dpor::update_state adds to the backtrack sets and pushes one that is empty.
LEMMA DporUpdateIs ==
    ASSUME ValidPrograms, DporInv, DporUpdateTransition
    PROVE  /\ sufficient' \in Seq(SufficientSets)
           /\ Len(sufficient') = Len(sufficient) + 1
           /\ \A i \in 1 .. Len(sufficient) :
                 /\ sufficient'[i].backtrack = sufficient[i].backtrack \cup AddedToBacktrack(i)
                 /\ sufficient'[i].sleep = sufficient[i].sleep
           /\ sufficient'[Len(sufficient) + 1].backtrack = {}
           /\ sufficient'[Len(sufficient) + 1] = NewSufficientSet
<1> DEFINE updated(i) == [sufficient[i] EXCEPT !.backtrack = @ \cup AddedToBacktrack(i)]
           all == [i \in 1 .. Len(sufficient) |-> updated(i)]
<1>1. Len(sufficient) \in Nat \ {0} /\ sufficient \in Seq(SufficientSets)
      /\ DOMAIN sufficient = 1 .. Len(sufficient)
    BY DEF DporInv, Inv, TypeOK, SearchIsAligned, DporUpdateTransition, UpdateTransition
<1>2. ASSUME NEW i \in 1 .. Len(sufficient)
      PROVE  updated(i) \in SufficientSets
             /\ updated(i).backtrack = sufficient[i].backtrack \cup AddedToBacktrack(i)
             /\ updated(i).sleep = sufficient[i].sleep
    <2>1. AddedToBacktrack(i) \subseteq Tids
        BY AddedToBacktrackIsEnabled DEF DporUpdateTransition, Enabled
    <2>2. sufficient[i] \in SufficientSets
        BY <1>1, ElementOfSeq
    <2> QED
        BY <2>1, <2>2 DEF SufficientSets
<1>3. NewSufficientSet \in SufficientSets /\ NewSufficientSet.backtrack = {}
    <2>1. Last(sufficient) \in SufficientSets
        BY <1>1, ElementOfSeq DEF Last
    <2> QED
        BY <2>1 DEF NewSufficientSet, SufficientSets, WakeUp
<1>4. sufficient' = Append(all, NewSufficientSet)
    BY <1>1 DEF DporUpdateTransition
<1> HIDE DEF updated
<1>5. /\ all \in Seq(SufficientSets)
      /\ Len(all) = Len(sufficient)
      /\ \A i \in 1 .. Len(sufficient) : all[i] = updated(i)
    BY <1>1, <1>2
<1> HIDE DEF all
<1>6. /\ sufficient' \in Seq(SufficientSets)
      /\ Len(sufficient') = Len(sufficient) + 1
      /\ \A i \in 1 .. Len(sufficient) : sufficient'[i] = all[i]
      /\ sufficient'[Len(sufficient) + 1] = NewSufficientSet
    BY <1>3, <1>4, <1>5, AppendIs
<1> QED
    BY <1>2, <1>3, <1>5, <1>6

\* The sleep set in the program's process holds threads.
LEMMA SleepTypeStep ==
    ASSUME DporInv, [DporNext]_dporVars
    PROVE  mSleep' \subseteq Tids
<1>1. UpdatedSleep \subseteq Tids
    BY DEF UpdatedSleep, WakeUp, DporInv
<1>2. CASE DporStartRun
    <2>1. Len(sufficient) \in Nat \ {0} /\ sufficient \in Seq(SufficientSets)
        BY <1>2 DEF DporStartRun, StartRun, DporInv, Inv, SearchIsAligned, BeforeUpdate, TypeOK
    <2>2. Last(sufficient) \in SufficientSets
        BY <2>1, ElementOfSeq DEF Last
    <2> QED
        BY <1>2, <2>2 DEF DporStartRun, SufficientSets
<1>3. CASE DporSelectThread \/ DporBlocked
    BY <1>1, <1>3 DEF DporSelectThread, DporBlocked
<1>4. CASE mSleep' = mSleep
    BY <1>4 DEF DporInv
<1> QED
    BY <1>2, <1>3, <1>4 DEF DporNext, DporRunEnds, DporReadRecord, DporInvalidProgram,
       DporRestoreTransition, DporUpdateTransition, DporScheduleNext, DporBacktrackFurther, DporPopBack,
       UnchangedDpor, dporVars

\* To perform an instruction advances its thread.
LEMMA PerformAdvances ==
    ASSUME NEW s, s.pc \in [Tids -> Nat], NEW instr, NEW u \in Tids
    PROVE  s.pc[u] <= Perform(s, instr).pc[u]
<1>1. ASSUME NEW f \in [Tids -> Nat], NEW t
      PROVE  f[u] <= [f EXCEPT ![t] = @ + 1][u]
    OBVIOUS
<1>2. Perform(s, instr).pc = [s.pc EXCEPT ![instr.tid] = @ + 1]
    BY DEF Perform
<1> QED
    BY <1>1, <1>2

\* A further transition sets no thread back.
LEMMA StepAdvances ==
    ASSUME Inv, ThreadsAdvance(recording), NEW t \in Tids, ProgramStep(t)
    PROVE  ThreadsAdvance(recording')
<1> DEFINE n == Len(recording)
<1>1. /\ n \in Nat /\ Len(recording') = n + 1
      /\ \A i \in 1 .. n : recording'[i] = recording[i]
      /\ recording'[n + 1] = TransitionFrom(program, Final(recording), t)
      /\ recording \in Seq(Transitions) /\ recording' \in Seq(Transitions)
      /\ IsExecution(program, recording)
    <2>1. TypeOK /\ IsExecution(program, recording) /\ TypeOK'
        BY ProgramStepType DEF Inv, ExecutionsAreValid
    <2>2. recording \in Seq(Transitions) /\ recording' \in Seq(Transitions)
        BY <2>1 DEF TypeOK
    <2> QED
        BY <2>1, <2>2, ProgramStepIs
<1>2. recording'[n + 1].pre = Final(recording)
    BY <1>1 DEF TransitionFrom
<1>3. ASSUME NEW i \in 1 .. n, NEW u \in Tids
      PROVE  recording[i].pre.pc[u] <= Final(recording).pc[u]
    <2>1. /\ n # 0 /\ n \in 1 .. n /\ recording # <<>>
          /\ recording[n] \in Transitions /\ recording[i] \in Transitions
        <3>1. n \in 1 .. n /\ n # 0
            BY <1>1
        <3>2. recording[n] \in Transitions /\ recording[i] \in Transitions
            BY <1>1, <3>1, ElementOfSeq
        <3> QED
            BY <3>1, <3>2, EmptySeq
    <2>2. Final(recording) = recording[n].post
        BY <1>1, <2>1 DEF Final, Last
    <2>3. recording[n] = TransitionFrom(program, recording[n].pre, recording[n].instr.tid)
        <3>1. recording[n].pre = StateBefore(recording, n)
            BY <1>1, <2>1, PreIsStateBefore
        <3> QED
            BY <1>1, <2>1, <3>1 DEF IsExecution
    <2>4. recording[n].post = Perform(recording[n].pre, recording[n].instr)
        BY <2>3 DEF TransitionFrom
    <2>5. recording[n].pre.pc \in [Tids -> Nat]
        BY <2>1 DEF Transitions, States
    <2>6. recording[n].pre.pc[u] <= recording[n].post.pc[u]
        BY <2>4, <2>5, PerformAdvances
    <2>7. recording[i].pre.pc[u] <= recording[n].pre.pc[u]
        BY <1>1, <2>1 DEF ThreadsAdvance
    <2>8. /\ recording[i].pre.pc[u] \in Nat /\ recording[n].pre.pc[u] \in Nat
          /\ recording[n].post.pc[u] \in Nat
        BY <2>1 DEF Transitions, States
    <2> QED
        BY <2>2, <2>6, <2>7, <2>8
<1>4. \A u \in Tids : Final(recording).pc[u] \in Nat
    BY <1>1, FinalType DEF States
<1>5. ASSUME NEW j \in 1 .. n + 1, NEW i \in 1 .. j, NEW u \in Tids
      PROVE  recording'[i].pre.pc[u] <= recording'[j].pre.pc[u]
    <2>1. CASE j = n + 1 /\ i = n + 1
        BY <1>2, <1>4, <2>1
    <2>2. CASE j = n + 1 /\ i \in 1 .. n
        BY <1>1, <1>2, <1>3, <2>2
    <2>3. CASE j \in 1 .. n
        <3>1. i \in 1 .. n
            BY <1>1, <2>3
        <3> QED
            BY <1>1, <2>3, <3>1 DEF ThreadsAdvance
    <2> QED
        BY <1>1, <2>1, <2>2, <2>3
<1> QED
    BY <1>1, <1>5 DEF ThreadsAdvance

\* No step of the search sets a thread of an execution back.
LEMMA AdvanceStep ==
    ASSUME DporInv, [Next]_explorationVars
    PROVE  /\ ThreadsAdvance(mExecution')
           /\ ThreadsAdvance(recording')
           /\ ThreadsAdvance(record'.transitions)
<1>1. ThreadsAdvance(<<>>)
    BY EmptySeq DEF ThreadsAdvance
<1>2. ASSUME NEW t \in Tids, ProgramStep(t)
      PROVE  ThreadsAdvance(mExecution') /\ ThreadsAdvance(recording')
             /\ ThreadsAdvance(record'.transitions)
    BY <1>2, StepAdvances DEF DporInv, ProgramStep
<1>3. CASE ReplayScheduled
    <2>1. mSchedule[Len(recording) + 1] \in Tids
        BY <1>3, ElementOfSeq DEF ReplayScheduled, DporInv, Inv, TypeOK
    <2> QED
        BY <1>2, <1>3, <2>1 DEF ReplayScheduled
<1>4. CASE \E t \in Tids : SelectThread(t)
    BY <1>2, <1>4 DEF SelectThread
<1>5. CASE StartRun \/ FinishUpdate
    BY <1>1, <1>5 DEF StartRun, FinishUpdate, DporInv, NoRecord
<1>6. CASE \E status \in {"DONE", "BLOCKED"} : RunEnds(status)
    BY <1>6 DEF RunEnds, DporInv
<1>7. CASE ReadRecord \/ InvalidProgram
    BY <1>7 DEF ReadRecord, InvalidProgram, DporInv
<1>8. CASE PopBack
    <2>1. /\ Len(mExecution) \in Nat \ {0}
          /\ Len(mExecution') = Len(mExecution) - 1
          /\ \A i \in 1 .. Len(mExecution) - 1 : mExecution'[i] = mExecution[i]
        BY <1>8, PopBackIs DEF DporInv, Inv
    <2>2. ThreadsAdvance(mExecution')
        BY <2>1 DEF DporInv, ThreadsAdvance
    <2> QED
        BY <1>8, <2>2 DEF PopBack, DporInv
<1>9. CASE LimitReached \/ RunFails \/ RecordMissing \/ RestoreTransition \/ UpdateTransition
           \/ Exhausted \/ Terminated \/ UNCHANGED explorationVars
    BY <1>9 DEF LimitReached, RunFails, RecordMissing, RestoreTransition, UpdateTransition,
       Exhausted, Terminated, explorationVars, DporInv
<1> QED
    BY <1>3, <1>4, <1>5, <1>6, <1>7, <1>8, <1>9 DEF Next, ScheduleNext, BacktrackFurther

-----------------------------------------------------------------------------
(* The clocks *)

\* A sequence is one of its own elements.
LEMMA SeqOverRange ==
    ASSUME NEW S, NEW s \in Seq(S)
    PROVE  s \in Seq(Range(s))
<1>1. \A i \in 1 .. Len(s) : s[i] \in Range(s)
    BY DEF Range
<1> QED
    BY <1>1

\* update_frontier leaves the clocks alone and moves the index.
LEMMA UpdateFrontierIs ==
    ASSUME NEW h, h \in [clocks : {h.clocks}, frontier : {h.frontier}, index : Nat],
           NEW e, NEW i, NEW c, NEW u, u = UpdateFrontier(h, e, i, c)
    PROVE  /\ u \in [clocks : {h.clocks}, frontier : {u.frontier}, index : Nat]
           /\ u.index = h.index + 1
<1> DEFINE t == e[i].instr.tid
<1>1. PICK f : f = Set(c, t, i)
    OBVIOUS
<1>2. PICK k \in Nat : k = h.index + 1
    OBVIOUS
<1>3. [h EXCEPT !.frontier[t] = f, !.index = k]
          \in [clocks : {h.clocks}, frontier : {[h.frontier EXCEPT ![t] = f]}, index : {k}]
    OBVIOUS
<1>4. u = [h EXCEPT !.frontier[t] = f, !.index = k]
    BY <1>1, <1>2 DEF UpdateFrontier
<1> QED
    BY <1>2, <1>3, <1>4

\* HappensBefore::update pushes one clock and moves the frontier one step.
LEMMA UpdateHBIs ==
    ASSUME ClocksAreAligned, NEW e, NEW i
    PROVE  LET h == UpdateHB(mHB, e, i)
           IN  /\ h \in [clocks : Seq(Range(h.clocks)), frontier : {h.frontier}, index : Nat]
               /\ Len(h.clocks) = Len(mHB.clocks) + 1
               /\ h.index = mHB.index + 1
<1>1. PICK c : c = CreateClock(e, mHB, i, e[i].instr)
    OBVIOUS
<1> DEFINE all == Append(mHB.clocks, c)
           pushed == [mHB EXCEPT !.clocks = all]
           h == UpdateFrontier(pushed, e, i, c)
<1>2. /\ all \in Seq(Range(mHB.clocks) \cup {c})
      /\ Len(all) = Len(mHB.clocks) + 1
    <2>1. mHB.clocks \in Seq(Range(mHB.clocks) \cup {c})
        BY DEF ClocksAreAligned
    <2> QED
        BY <2>1, AppendIs
<1>3. all \in Seq(Range(all))
    BY <1>2, SeqOverRange
<1>4. /\ pushed \in [clocks : {all}, frontier : {mHB.frontier}, index : Nat]
      /\ pushed.index = mHB.index
    BY DEF ClocksAreAligned
<1>5. UpdateHB(mHB, e, i) = h
    BY <1>1 DEF UpdateHB
<1>6. pushed \in [clocks : {pushed.clocks}, frontier : {pushed.frontier}, index : Nat]
    BY <1>4
<1> HIDE DEF pushed, h
<1>7. /\ h \in [clocks : {pushed.clocks}, frontier : {h.frontier}, index : Nat]
      /\ h.index = pushed.index + 1
    BY <1>6, UpdateFrontierIs DEF h
<1>8. pushed.clocks = all
    BY <1>4
<1> QED
    BY <1>2, <1>3, <1>4, <1>5, <1>7, <1>8

\* HappensBefore::restore only moves the frontier.
LEMMA RestoreHBIs ==
    ASSUME ClocksAreAligned, NEW e, NEW i
    PROVE  LET h == RestoreHB(mHB, e, i)
           IN  /\ h \in [clocks : {mHB.clocks}, frontier : {h.frontier}, index : Nat]
               /\ h.index = mHB.index + 1
<1>1. mHB \in [clocks : {mHB.clocks}, frontier : {mHB.frontier}, index : Nat]
    BY DEF ClocksAreAligned
<1> QED
    BY <1>1, UpdateFrontierIs DEF RestoreHB

\* HappensBefore::reset keeps the number of clocks.
LEMMA ResetHBIs ==
    ASSUME ClocksAreAligned, NEW threads
    PROVE  LET h == ResetHB(mHB, threads)
           IN  /\ h \in [clocks : Seq(Range(h.clocks)), frontier : {h.frontier}, index : Nat]
               /\ Len(h.clocks) = Len(mHB.clocks)
               /\ h.index = 0
<1> DEFINE resized(i) == Resize(mHB.clocks[i], threads)
           all == [i \in 1 .. Len(mHB.clocks) |-> resized(i)]
<1>1. Len(mHB.clocks) \in Nat /\ DOMAIN mHB.clocks = 1 .. Len(mHB.clocks)
    BY DEF ClocksAreAligned
<1>2. ResetHB(mHB, threads) = [clocks |-> all, frontier |-> ZeroFrontier(threads), index |-> 0]
    BY <1>1 DEF ResetHB
<1> HIDE DEF resized
<1>3. all \in Seq({resized(i) : i \in 1 .. Len(mHB.clocks)}) /\ Len(all) = Len(mHB.clocks)
    BY <1>1
<1>4. all \in Seq(Range(all))
    BY <1>3, SeqOverRange
<1> QED
    BY <1>2, <1>3, <1>4

\* HappensBefore::pop_back pops one clock.
LEMMA PopBackHBIs ==
    ASSUME ClocksAreAligned, mHB.clocks # <<>>
    PROVE  LET h == PopBackHB(mHB)
           IN  /\ h \in [clocks : Seq(Range(h.clocks)), frontier : {h.frontier}, index : Nat]
               /\ Len(h.clocks) = Len(mHB.clocks) - 1
<1>1. PICK front : front = Front(mHB.clocks)
    OBVIOUS
<1>2. front \in Seq(Range(mHB.clocks)) /\ Len(front) = Len(mHB.clocks) - 1
    BY <1>1, FrontIs DEF ClocksAreAligned
<1>3. front \in Seq(Range(front))
    BY <1>2, SeqOverRange
<1>4. PopBackHB(mHB) \in [clocks : {front}, frontier : {mHB.frontier}, index : Nat]
    BY <1>1 DEF PopBackHB, ClocksAreAligned
<1> QED
    BY <1>2, <1>3, <1>4

\* At the start there is one state, and one clock.
LEMMA ClocksAreAlignedInit ==
    ASSUME Init, mHB = InitialHB
    PROVE  ClocksAreAligned
<1>1. phase = "loop" /\ Len(dfsState) = 1
      /\ mHB = [clocks |-> <<ZeroClock({})>>, frontier |-> ZeroFrontier({}), index |-> 0]
    BY DEF Init, InitialHB
<1>2. mHB.clocks \in Seq({ZeroClock({})}) /\ Len(mHB.clocks) = 1
    BY <1>1
<1>3. mHB.clocks \in Seq(Range(mHB.clocks))
    BY <1>2, SeqOverRange
<1> QED
    BY <1>1, <1>2, <1>3 DEF ClocksAreAligned

\* What a step of a search that keeps clocks does to them: the handlers of the search
\* are those of Exploration, whatever else they do.
ClockStep ==
    \/ /\ UNCHANGED <<program, mExecution, dfsState, mHB>>
       /\ phase' = "update" => phase = "update" /\ index' = index
    \/ /\ ReadRecord \/ InvalidProgram
       /\ mHB' = ResetHB(mHB, ThreadsOf(program, record.transitions))
    \/ RestoreTransition /\ mHB' = RestoreHB(mHB, mExecution, index)
    \/ UpdateTransition /\ mHB' = UpdatedHB
    \/ PopBack /\ mHB' = PopBackHB(mHB) /\ phase' # "update"

\* The steps of dpor are such.
LEMMA DporIsClockStep ==
    ASSUME [DporNext]_dporVars
    PROVE  ClockStep
<1>1. CASE (LimitReached \/ ReplayScheduled \/ RunFails \/ RecordMissing \/ FinishUpdate
            \/ Exhausted \/ Terminated) /\ UnchangedDpor
    BY <1>1 DEF LimitReached, ReplayScheduled, ProgramStep, RunFails, RecordMissing,
       FinishUpdate, Exhausted, Terminated, explorationVars, UnchangedDpor, ClockStep
<1>2. CASE DporStartRun \/ DporSelectThread \/ DporBlocked \/ DporRunEnds
    BY <1>2 DEF DporStartRun, StartRun, DporSelectThread, SelectThread, ProgramStep,
       DporBlocked, DporRunEnds, RunEnds, ClockStep
<1>3. CASE DporReadRecord \/ DporInvalidProgram
    BY <1>3 DEF DporReadRecord, DporInvalidProgram, ClockStep
<1>4. CASE DporRestoreTransition \/ DporUpdateTransition
    BY <1>4 DEF DporRestoreTransition, DporUpdateTransition, ClockStep
<1>5. CASE DporScheduleNext \/ DporBacktrackFurther
    <2>1. PopBack /\ mHB' = PopBackHB(mHB) /\ phase' # "update"
        BY <1>5 DEF DporScheduleNext, ScheduleNext, DporBacktrackFurther, BacktrackFurther,
           DporPopBack, PopBack
    <2> QED
        BY <2>1 DEF ClockStep
<1>6. CASE UNCHANGED dporVars
    BY <1>6 DEF dporVars, explorationVars, ClockStep
<1> QED
    BY <1>1, <1>2, <1>3, <1>4, <1>5, <1>6 DEF DporNext

\* The handlers push and pop a clock when those of the search push and pop a state.
LEMMA ClocksAreAlignedStep ==
    ASSUME TypeOK, SearchIsAligned, ClocksAreAligned, ClockStep
    PROVE  ClocksAreAligned'
<1>1. CASE /\ UNCHANGED <<program, mExecution, dfsState, mHB>>
           /\ phase' = "update" => phase = "update" /\ index' = index
    BY <1>1 DEF ClocksAreAligned
<1>2. CASE /\ ReadRecord \/ InvalidProgram
           /\ mHB' = ResetHB(mHB, ThreadsOf(program, record.transitions))
    <2>1. UNCHANGED dfsState /\ (phase' = "update" => index' = 1)
        BY <1>2 DEF ReadRecord, InvalidProgram
    <2> QED
        BY <1>2, <2>1, ResetHBIs DEF ClocksAreAligned
<1>3. CASE RestoreTransition /\ mHB' = RestoreHB(mHB, mExecution, index)
    <2>1. UNCHANGED dfsState /\ phase = "update" /\ index' = index + 1 /\ index \in Nat
        BY <1>3 DEF RestoreTransition, TypeOK
    <2> QED
        BY <1>3, <2>1, RestoreHBIs DEF ClocksAreAligned
<1>4. CASE UpdateTransition /\ mHB' = UpdatedHB
    <2>1. /\ mHB' = UpdateHB(mHB, mExecution, index)
          /\ phase = "update" /\ index' = index + 1 /\ index \in Nat
        BY <1>4 DEF UpdateTransition, UpdatedHB, TypeOK
    <2>2. Len(dfsState') = Len(dfsState) + 1
        BY <1>4, AppendIs DEF UpdateTransition, TypeOK
    <2> QED
        BY <2>1, <2>2, UpdateHBIs DEF ClocksAreAligned
<1>5. CASE PopBack /\ mHB' = PopBackHB(mHB) /\ phase' # "update"
    <2>1. Len(dfsState) \in Nat \ {0} /\ Len(dfsState') = Len(dfsState) - 1
        BY <1>5, PopBackIs
    <2>2. mHB.clocks # <<>>
        BY <2>1, EmptySeq DEF ClocksAreAligned
    <2> QED
        BY <1>5, <2>1, <2>2, PopBackHBIs DEF ClocksAreAligned
<1> QED
    BY <1>1, <1>2, <1>3, <1>4, <1>5 DEF ClockStep

-----------------------------------------------------------------------------
(* check_valid *)

\* The empty execution shows no locks.
LEMMA NothingShowsLocks ==
    ASSUME NEW p \in Programs
    PROVE  ShowsItsLocks(p, <<>>)
<1>1. Final(<<>>) = InitialState
    BY DEF Final
<1>2. \A o \in Objects : Final(<<>>).owner[o] = NoOwner
    BY <1>1 DEF InitialState
<1>3. \A t \in Tids : Final(<<>>).pc[t] = 0
    BY <1>1 DEF InitialState
<1>4. \A t \in Tids : \A k \in 1 .. Len(p[t]) : ~(k <= Final(<<>>).pc[t])
    BY <1>3, ProgramsAssumption
<1> QED
    BY <1>2, <1>4 DEF ShowsItsLocks

\* A further transition leaves the locks alone or is a lock operation itself.
LEMMA StepShowsLocks ==
    ASSUME Inv, ShowsItsLocks(program, recording), NEW t \in Tids, ProgramStep(t)
    PROVE  ShowsItsLocks(program, recording')
<1> DEFINE n == Len(recording)
           s == Final(recording)
           instr == NextInstr(program, s, t)
<1>1. /\ n \in Nat /\ Len(recording') = n + 1
      /\ \A i \in 1 .. n : recording'[i] = recording[i]
      /\ recording'[n + 1] = TransitionFrom(program, s, t)
      /\ recording \in Seq(Transitions) /\ recording' \in Seq(Transitions)
    <2>1. TypeOK /\ IsExecution(program, recording) /\ TypeOK'
        BY ProgramStepType DEF Inv, ExecutionsAreValid
    <2>2. recording \in Seq(Transitions) /\ recording' \in Seq(Transitions)
        BY <2>1 DEF TypeOK
    <2> QED
        BY <2>1, <2>2, ProgramStepIs
<1>2. s \in States
    BY <1>1, FinalType
<1>3. Final(recording') = Perform(s, instr)
    <2>1. recording' # <<>> /\ Last(recording') = recording'[n + 1]
        BY <1>1, EmptySeq DEF Last
    <2> QED
        BY <1>1, <2>1 DEF Final, TransitionFrom
<1> SUFFICES ASSUME ~ContainsLocks(recording')
             PROVE  /\ \A o \in Objects : Final(recording').owner[o] = NoOwner
                    /\ \A u \in Tids : \A k \in 1 .. Len(program[u]) :
                           k <= Final(recording').pc[u] => program[u][k].op \notin LockOperations
    BY DEF ShowsItsLocks
<1>4. ~ContainsLocks(recording)
    BY <1>1 DEF ContainsLocks
<1>5. instr.op \notin LockOperations
    <2>1. n + 1 \in 1 .. Len(recording')
        BY <1>1
    <2>2. recording'[n + 1].instr = instr
        BY <1>1 DEF TransitionFrom
    <2> QED
        BY <2>1, <2>2 DEF ContainsLocks
<1>6. instr.tid = t /\ instr.op = program[t][s.pc[t] + 1].op
    BY DEF NextInstr
<1> HIDE DEF s, instr
<1>7. Final(recording').owner = s.owner
    BY <1>3, <1>5 DEF Perform, LockOperations
<1>8. Final(recording').pc = [s.pc EXCEPT ![t] = @ + 1]
    BY <1>3, <1>6 DEF Perform
<1>9. ASSUME NEW u \in Tids, NEW k \in 1 .. Len(program[u]), k <= Final(recording').pc[u]
      PROVE  program[u][k].op \notin LockOperations
    <2>1. s.pc \in [Tids -> Nat] /\ k \in Nat
        BY <1>2 DEF States
    <2>2. CASE k <= s.pc[u]
        BY <1>4, <2>2 DEF ShowsItsLocks, s
    <2>3. CASE u = t /\ k = s.pc[t] + 1
        BY <1>5, <1>6, <2>3
    <2>4. Final(recording').pc[u] = IF u = t THEN s.pc[u] + 1 ELSE s.pc[u]
        BY <1>8, <2>1
    <2> QED
        BY <1>9, <2>1, <2>2, <2>3, <2>4
<1> QED
    BY <1>4, <1>7, <1>9 DEF ShowsItsLocks, s

\* An execution in which no thread has an enabled instruction left shows whether
\* the program has locks.
LEMMA FullExecutionShowsLocks ==
    ASSUME NEW p \in Programs, NoThreadAwaited(p), NEW e \in Seq(Transitions),
           ShowsItsLocks(p, e), Enabled(p, Final(e)) = {}, ~ContainsLocks(e)
    PROVE  HasNoLocks(p)
<1> DEFINE s == Final(e)
<1>1. s.pc \in [Tids -> Nat]
    BY FinalType DEF States
<1>2. ASSUME NEW t \in Tids
      PROVE  Len(p[t]) \in Nat /\ Len(p[t]) <= s.pc[t]
    <2>1. p[t] \in Seq(Statements) /\ Len(p[t]) \in Nat /\ s.pc[t] \in Nat
        BY <1>1, ProgramsAssumption
    <2> SUFFICES ASSUME s.pc[t] < Len(p[t])
                 PROVE  FALSE
        BY <2>1
    <2>2. s.pc[t] + 1 \in 1 .. Len(p[t])
        BY <2>1
    <2>3. HasNext(p, s, t)
        BY <2>2 DEF NoThreadAwaited, HasNext, Reached
    <2>4. p[t][s.pc[t] + 1] \in Statements
        BY <2>1, <2>2, ElementOfSeq
    <2>5. s.owner[NextInstr(p, s, t).obj] = NoOwner
        BY <2>4 DEF ShowsItsLocks, NextInstr, Statements
    <2> QED
        BY <2>3, <2>5 DEF Enabled, IsEnabled
<1> SUFFICES ASSUME NEW t \in Tids, NEW k \in 1 .. Len(p[t])
             PROVE  p[t][k].op \notin LockOperations
    BY DEF HasNoLocks
<1>3. k <= s.pc[t]
    BY <1>1, <1>2
<1> QED
    BY <1>3 DEF ShowsItsLocks

\* check_valid is asked once, of the first execution, and that is enough.
LEMMA CheckIsEnoughStep ==
    ASSUME ValidPrograms, DporInv, [DporNext]_dporVars
    PROVE  CheckIsEnough'
<1>1. CheckIsEnough /\ Inv /\ program \in Programs /\ mNrExplorations \in Nat
      /\ program' = program
      /\ recording \in Seq(Transitions) /\ record.transitions \in Seq(Transitions)
    BY DporNextIsNext, ProgramIsFixed DEF DporInv, Inv, TypeOK
<1> DEFINE accepted == phase' \in {"update", "backtrack"} => mNrExplorations' # 0
           first == mNrExplorations' = 0 =>
                        /\ mSleep' = {}
                        /\ \A i \in 1 .. Len(sufficient') : sufficient'[i].sleep = {}
                        /\ record' # NoRecord => Enabled(program, Final(record'.transitions)) = {}
           shown == ShowsItsLocks(program, recording') /\ ShowsItsLocks(program, record'.transitions)
           checked == mNrExplorations' # 0 /\ sufficient_set_t = "Source" => HasNoLocks(program)
<1> SUFFICES accepted /\ first /\ shown /\ checked
    BY <1>1 DEF CheckIsEnough
<1>2. UpdatedSleep \subseteq mSleep /\ (mSleep = {} => AwakeSelection = Enabled(program, Final(recording)))
    BY DEF UpdatedSleep, WakeUp, AwakeSelection, Awake
<1>3. CASE DporStartRun
    <2>1. /\ UNCHANGED <<mNrExplorations, record, sufficient>> /\ recording' = <<>>
          /\ phase' = "run" /\ mSleep' = Last(sufficient).sleep
        BY <1>3 DEF DporStartRun, StartRun
    <2>2. Len(sufficient) \in 1 .. Len(sufficient)
        BY <1>3 DEF DporStartRun, StartRun, DporInv, Inv, TypeOK, SearchIsAligned, BeforeUpdate
    <2>3. mNrExplorations = 0 => mSleep' = {}
        BY <1>1, <2>1, <2>2 DEF CheckIsEnough, Last
    <2> QED
        BY <1>1, <2>1, <2>3, NothingShowsLocks DEF CheckIsEnough
<1>4. CASE ReplayScheduled /\ UnchangedDpor
    <2>1. mSchedule[Len(recording) + 1] \in Tids
        BY <1>4, ElementOfSeq DEF ReplayScheduled, DporInv, Inv, TypeOK
    <2>2. ShowsItsLocks(program, recording')
        BY <1>1, <1>4, <2>1, StepShowsLocks DEF ReplayScheduled, CheckIsEnough
    <2> QED
        BY <1>1, <1>4, <2>2 DEF ReplayScheduled, ProgramStep, UnchangedDpor, CheckIsEnough
<1>5. CASE DporSelectThread
    <2>1. PICK t \in Tids : SelectThread(t)
        BY <1>5 DEF DporSelectThread, NonPreemptive, AwakeSelection, Awake, Enabled
    <2>2. ShowsItsLocks(program, recording')
        BY <1>1, <2>1, StepShowsLocks DEF SelectThread, CheckIsEnough
    <2> QED
        BY <1>1, <1>2, <1>5, <2>1, <2>2 DEF DporSelectThread, SelectThread, ProgramStep, CheckIsEnough
<1>6. CASE DporBlocked \/ DporRunEnds
    <2>1. /\ record'.transitions = recording /\ phase' = "read"
          /\ UNCHANGED <<mNrExplorations, recording, sufficient>>
          /\ mSleep' \subseteq mSleep
        BY <1>2, <1>6 DEF DporBlocked, DporRunEnds, RunEnds
    <2>2. mNrExplorations = 0 => Enabled(program, Final(recording)) = {}
        BY <1>1, <1>2, <1>6 DEF DporBlocked, DporRunEnds, CheckIsEnough
    <2> QED
        BY <1>1, <2>1, <2>2 DEF CheckIsEnough
<1>7. CASE DporReadRecord
    <2>1. /\ UNCHANGED <<recording, record>> /\ record # NoRecord
          /\ mNrExplorations' = mNrExplorations + 1
          /\ mNrExplorations = 0 => CheckValid(record.transitions)
        BY <1>1, <1>7 DEF DporReadRecord, ReadRecord
    <2>2. ASSUME sufficient_set_t = "Source", mNrExplorations = 0
          PROVE  HasNoLocks(program)
        <3>1. ~ContainsLocks(record.transitions)
            BY <2>1, <2>2 DEF CheckValid
        <3>2. Enabled(program, Final(record.transitions)) = {}
            BY <1>1, <2>1, <2>2 DEF CheckIsEnough
        <3>3. NoThreadAwaited(program)
            BY <1>1, <2>2 DEF ValidPrograms
        <3> QED
            BY <1>1, <3>1, <3>2, <3>3, FullExecutionShowsLocks DEF CheckIsEnough
    <2> QED
        BY <1>1, <2>1, <2>2 DEF CheckIsEnough
<1>8. CASE DporRestoreTransition \/ DporUpdateTransition \/ DporScheduleNext \/ DporBacktrackFurther
    <2>1. phase \in {"update", "backtrack"} /\ UNCHANGED <<mNrExplorations, recording, record>>
        BY <1>8 DEF DporRestoreTransition, RestoreTransition, DporUpdateTransition, UpdateTransition,
           DporScheduleNext, ScheduleNext, DporBacktrackFurther, BacktrackFurther, PopBack
    <2> QED
        BY <1>1, <2>1 DEF CheckIsEnough
<1>9. CASE FinishUpdate /\ UnchangedDpor
    <2>1. /\ mNrExplorations # 0 /\ UNCHANGED <<mNrExplorations, recording>>
          /\ record' = record \/ record'.transitions = <<>>
        BY <1>1, <1>9 DEF FinishUpdate, CheckIsEnough, NoRecord
    <2> QED
        BY <1>1, <2>1, NothingShowsLocks DEF CheckIsEnough
<1>10. CASE \/ (LimitReached \/ RunFails \/ RecordMissing \/ Exhausted \/ Terminated) /\ UnchangedDpor
            \/ DporInvalidProgram \/ UNCHANGED dporVars
    <2>1. /\ UNCHANGED <<mNrExplorations, recording, record, sufficient, mSleep>>
          /\ phase' = phase \/ phase' \notin {"update", "backtrack"}
        BY <1>10 DEF LimitReached, RunFails, RecordMissing, Exhausted, Terminated, UnchangedDpor,
           DporInvalidProgram, InvalidProgram, dporVars, explorationVars
    <2> QED
        BY <1>1, <2>1 DEF CheckIsEnough
<1> QED
    BY <1>3, <1>4, <1>5, <1>6, <1>7, <1>8, <1>9, <1>10 DEF DporNext

-----------------------------------------------------------------------------
(* The invariant is inductive *)

\* Every step of dpor preserves the invariant.
LEMMA DporInvStep ==
    ASSUME ValidPrograms, DporInv, [DporNext]_dporVars
    PROVE  DporInv'
<1>1. Inv'
    BY DporNextIsNext, InvStep DEF DporInv
<1>2. mSleep' \subseteq Tids
    BY SleepTypeStep
<1>7. /\ ThreadsAdvance(mExecution') /\ ThreadsAdvance(recording')
      /\ ThreadsAdvance(record'.transitions)
    BY DporNextIsNext, AdvanceStep
<1>8. ClocksAreAligned' /\ CheckIsEnough'
    <2>1. TypeOK /\ SearchIsAligned /\ ClocksAreAligned
        BY DEF DporInv, Inv
    <2> QED
        BY <2>1, DporIsClockStep, ClocksAreAlignedStep, CheckIsEnoughStep
<1> SUFFICES /\ sufficient' \in Seq(SufficientSets)
             /\ Len(sufficient') = Len(dfsState')
             /\ BacktrackIsEnabled'
    BY <1>1, <1>2, <1>7, <1>8 DEF DporInv
<1>3. CASE UNCHANGED <<program, mExecution, dfsState, sufficient>>
    BY <1>3 DEF DporInv, BacktrackIsEnabled
<1>4. CASE DporReadRecord \/ DporInvalidProgram
    <2>1. /\ UNCHANGED <<program, dfsState, sufficient>>
          /\ Len(sufficient) = Len(mExecution) + 1
          /\ Len(mExecution) \in Nat
          /\ Len(mExecution) <= Len(mExecution')
          /\ \A i \in 1 .. Len(mExecution) : mExecution'[i] = mExecution[i]
        BY <1>4 DEF DporReadRecord, ReadRecord, DporInvalidProgram, InvalidProgram, DporInv, Inv, TypeOK, SearchIsAligned,
           RecordExtendsSearch, BeforeUpdate, Running
    <2>2. \A i \in 1 .. Len(sufficient) : StateBefore(mExecution', i) = StateBefore(mExecution, i)
        BY <2>1 DEF StateBefore
    <2>3. \A i \in 1 .. Len(sufficient) : i <= Len(mExecution) + 1
        BY <2>1
    <2>4. BacktrackIsEnabled'
        BY <2>1, <2>2, <2>3 DEF DporInv, BacktrackIsEnabled
    <2> QED
        BY <2>1, <2>4 DEF DporInv
<1>5. CASE DporUpdateTransition
    <2>1. UNCHANGED <<program, mExecution>> /\ Len(dfsState') = Len(dfsState) + 1
        BY <1>5, AppendIs DEF DporUpdateTransition, UpdateTransition, DporInv, Inv, TypeOK
    <2>2. Len(sufficient) \in Nat /\ Len(sufficient') = Len(dfsState')
        BY <1>5, <2>1, DporUpdateIs DEF DporInv
    <2>3. ASSUME NEW i \in 1 .. Len(sufficient'), i <= Len(mExecution) + 1
          PROVE  sufficient'[i].backtrack \subseteq Enabled(program, StateBefore(mExecution, i))
        <3>1. CASE i = Len(sufficient) + 1
            BY <1>5, <3>1, DporUpdateIs
        <3>2. CASE i \in 1 .. Len(sufficient)
            <4>1. sufficient[i].backtrack \subseteq Enabled(program, StateBefore(mExecution, i))
                BY <2>3, <3>2 DEF DporInv, BacktrackIsEnabled
            <4>2. AddedToBacktrack(i) \subseteq Enabled(program, StateBefore(mExecution, i))
                BY <1>5, <3>2, AddedToBacktrackIsEnabled DEF DporUpdateTransition
            <4>3. sufficient'[i].backtrack = sufficient[i].backtrack \cup AddedToBacktrack(i)
                BY <1>5, <3>2, DporUpdateIs
            <4> QED
                BY <4>1, <4>2, <4>3
        <3>3. Len(sufficient') = Len(sufficient) + 1
            BY <1>5, DporUpdateIs
        <3> QED
            BY <2>2, <3>1, <3>2, <3>3
    <2>4. BacktrackIsEnabled'
        BY <2>1, <2>3 DEF BacktrackIsEnabled
    <2> QED
        BY <1>5, <2>2, <2>4, DporUpdateIs
<1>6. CASE PopBack /\ sufficient' = PoppedSufficient
    <2>1. /\ Len(mExecution) \in Nat \ {0}
          /\ Len(sufficient) = Len(mExecution) + 1
          /\ Len(mExecution') = Len(mExecution) - 1
          /\ \A i \in 1 .. Len(mExecution) - 1 : mExecution'[i] = mExecution[i]
          /\ Len(dfsState') = Len(mExecution)
          /\ program' = program
        BY <1>6, PopBackIs DEF DporInv, Inv, PopBack
    <2>2. /\ sufficient' \in Seq(SufficientSets)
          /\ Len(sufficient') = Len(mExecution)
          /\ \A i \in 1 .. Len(mExecution) : sufficient'[i].backtrack = sufficient[i].backtrack
        BY <1>6, PoppedSufficientIs
    <2>3. ASSUME NEW i \in 1 .. Len(mExecution)
          PROVE  sufficient'[i].backtrack \subseteq Enabled(program, StateBefore(mExecution', i))
        <3>1. StateBefore(mExecution', i) = StateBefore(mExecution, i)
            BY <2>1 DEF StateBefore
        <3>2. i \in 1 .. Len(sufficient) /\ i <= Len(mExecution) + 1
            BY <2>1
        <3> QED
            BY <2>2, <3>1, <3>2 DEF DporInv, BacktrackIsEnabled
    <2>4. BacktrackIsEnabled'
        BY <2>1, <2>2, <2>3 DEF BacktrackIsEnabled
    <2> QED
        BY <2>1, <2>2, <2>4
<1> QED
    BY <1>3, <1>4, <1>5, <1>6, DporStepKinds

-----------------------------------------------------------------------------
(* The theorems *)

\* The inductive invariant of dpor.
THEOREM DporInvariantHolds ==
    ASSUME ValidPrograms
    PROVE  DporSpec => []DporInv
<1>1. ASSUME DporInit
      PROVE  DporInv
    <2>1. Inv
        BY <1>1, InvInit DEF DporInit
    <2>2. sufficient = <<NoSufficientSet>> /\ dfsState = <<{}>> /\ mSleep = {}
          /\ mExecution = <<>> /\ recording = <<>> /\ record.transitions = <<>>
        BY <1>1 DEF DporInit, Init, NoRecord
    <2>6. ThreadsAdvance(<<>>)
        BY EmptySeq DEF ThreadsAdvance
    <2>3. NoSufficientSet \in SufficientSets /\ NoSufficientSet.backtrack = {}
        BY DEF NoSufficientSet, SufficientSets
    <2>4. \A i \in 1 .. Len(sufficient) : sufficient[i].backtrack = {}
        BY <2>2, <2>3
    <2>5. BacktrackIsEnabled
        BY <2>4 DEF BacktrackIsEnabled
    <2>7. ClocksAreAligned
        BY <1>1, ClocksAreAlignedInit DEF DporInit
    <2>8. CheckIsEnough
        <3>1. program \in Programs /\ mNrExplorations = 0 /\ record = NoRecord /\ phase = "loop"
            BY <1>1 DEF DporInit, Init
        <3>2. \A i \in 1 .. Len(sufficient) : sufficient[i].sleep = {}
            BY <2>2 DEF NoSufficientSet
        <3> QED
            BY <2>2, <3>1, <3>2, NothingShowsLocks DEF CheckIsEnough
    <2> QED
        BY <2>1, <2>2, <2>3, <2>5, <2>6, <2>7, <2>8 DEF DporInv
<1>2. DporInit => DporInv
    BY <1>1
<1>3. DporInv /\ [DporNext]_dporVars => DporInv'
    BY DporInvStep
<1> QED
    BY <1>2, <1>3, PTL DEF DporSpec

\* Only threads that are enabled in a state are put into its backtrack set.
THEOREM BacktrackSetsAreEnabled ==
    ASSUME ValidPrograms
    PROVE  DporSpec => []BacktrackIsEnabled
<1>1. DporInv => BacktrackIsEnabled
    BY DEF DporInv
<1> QED
    BY <1>1, DporInvariantHolds, PTL

\* What the assertions follow from, of any search that keeps clocks and sufficient sets.
LEMMA StacksAreAligned ==
    ASSUME Inv, ClocksAreAligned, Len(sufficient) = Len(dfsState)
    PROVE  DporAssertionsHold
<1>1. /\ Len(mHB.clocks) = Len(dfsState)
      /\ TypeOK /\ SearchIsAligned /\ RecordExtendsSearch
      /\ phase = "update" => mHB.index = index - 1
    BY DEF Inv, ClocksAreAligned
<1>2. phase = "update" /\ index <= Len(mExecution) /\ index < from
         => mHB.index < Len(mHB.clocks) - 1
    BY <1>1 DEF SearchIsAligned, TypeOK
<1>3. phase = "read" /\ record # NoRecord => Len(mHB.clocks) <= Len(record.transitions) + 1
    BY <1>1 DEF SearchIsAligned, RecordExtendsSearch, BeforeUpdate, Running, TypeOK
<1> QED
    BY <1>1, <1>2, <1>3 DEF DporAssertionsHold

\* The assertions of dpor_base and HappensBefore: the stacks of the search, of the
\* sufficient sets and of the clocks are pushed and popped together, also when a
\* run leaves no record.
THEOREM DporAssertions ==
    ASSUME ValidPrograms
    PROVE  DporSpec => []DporAssertionsHold
<1>1. DporInv => DporAssertionsHold
    BY StacksAreAligned DEF DporInv
<1> QED
    BY <1>1, DporInvariantHolds, PTL

\* With Source, a program with locks is refused after its first execution, or never
\* gets that far: no exploration goes on with one.
THEOREM CheckValidSuffices ==
    ASSUME ValidPrograms
    PROVE  DporSpec => [](mNrExplorations # 0 /\ sufficient_set_t = "Source" => NeverWaits(program))
<1>1. DporInv => (mNrExplorations # 0 /\ sufficient_set_t = "Source" => NeverWaits(program))
    BY DEF DporInv, CheckIsEnough, ValidPrograms, NeverWaits, Inv, TypeOK
<1> QED
    BY <1>1, DporInvariantHolds, PTL

\* Dpor implements the exploration with an arbitrary reduction: what is proved
\* of Exploration holds of it.
THEOREM DporIsExploration ==
    ASSUME ValidPrograms
    PROVE  DporSpec => Spec
<1>1. DporInit => Init
    BY DEF DporInit
<1>2. DporInv /\ [DporNext]_dporVars => [Next]_explorationVars
    BY DporNextIsNext
<1> QED
    BY <1>1, <1>2, DporInvariantHolds, PTL DEF DporSpec, Spec

\* In programs that release only locks they hold, no two threads are ever enabled
\* together whose instructions Coenabled excludes: no race is passed over there.
THEOREM CoenabledHolds ==
    ASSUME ValidPrograms, ReleasesOwnLocks
    PROVE  DporSpec => []CoenabledIsSound
<1>1. ASSUME DporInv
      PROVE  CoenabledIsSound
    <2> DEFINE s == Final(recording)
    <2>1. program \in Programs /\ recording \in Seq(Transitions) /\ IsExecution(program, recording)
        BY <1>1 DEF DporInv, Inv, TypeOK, ExecutionsAreValid
    <2>2. \A t \in Tids : NextInstr(program, s, t).tid = t
        BY DEF NextInstr
    <2>3. ASSUME NEW t \in Enabled(program, s), NEW u \in Enabled(program, s),
                 IsLock(NextInstr(program, s, t)), IsUnlock(NextInstr(program, s, u))
          PROVE  NextInstr(program, s, t).obj # NextInstr(program, s, u).obj
        <3>1. s.owner[NextInstr(program, s, t).obj] = NoOwner
            BY <2>3 DEF Enabled, IsEnabled, IsLock
        <3>2. s.owner[NextInstr(program, s, u).obj] = u
            BY <2>1, <2>3 DEF ReleasesOwnLocks
        <3>3. u \in Nat
            BY TidsAssumption DEF Enabled
        <3> QED
            BY <3>1, <3>2, <3>3 DEF NoOwner
    <2>4. Enabled(program, s) \subseteq Tids
        BY DEF Enabled
    <2> QED
        BY <2>2, <2>3, <2>4
        DEF CoenabledIsSound, Coenabled, SameThread, LockUnlockSameObject, SameOperand
<1>2. DporInv => CoenabledIsSound
    BY <1>1
<1> QED
    BY <1>2, DporInvariantHolds, PTL

\* Dpor never explores a schedule twice.
THEOREM DporNoRepetition ==
    ASSUME ValidPrograms
    PROVE  DporSpec => NoScheduleTwice
    BY DporIsExploration, NoRepetition

=============================================================================
