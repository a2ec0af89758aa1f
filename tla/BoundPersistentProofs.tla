------------------------- MODULE BoundPersistentProofs -------------------------
(***************************************************************************)
(* Proofs about BoundPersistent: it is an Exploration, its bound values    *)
(* are exact, and sleep sets never make it leave the bound, for every      *)
(* bound, every number of threads, every program, and also when runs leave *)
(* no record.                                                              *)
(***************************************************************************)
EXTENDS BoundPersistentInvariant, HappensBeforeProofs

\* The four things a step can do to the stacks of the search.
LEMMA BPStepKinds ==
    ASSUME [BPNext]_bpVars
    PROVE  /\ mBound' = mBound
           /\ \/ UNCHANGED <<mExecution, dfsState, sufficient, boundStates>>
              \/ ReadRecord /\ UNCHANGED <<dfsState, sufficient, boundStates>>
              \/ BPUpdateTransition
              \/ PopBack /\ \E tried : BPPopBack(tried)
<1>1. CASE UnchangedDpor /\ UnchangedBound
           /\ (LimitReached \/ ReplayScheduled \/ RunFails \/ RecordMissing \/ FinishUpdate
               \/ Exhausted \/ Terminated)
    BY <1>1 DEF LimitReached, ReplayScheduled, ProgramStep, RunFails, RecordMissing,
       FinishUpdate, Exhausted, Terminated, explorationVars, UnchangedDpor, UnchangedBound
<1>2. CASE UnchangedBound
           /\ (DporStartRun \/ DporSelectThread \/ DporBlocked \/ DporRunEnds \/ DporRestoreTransition)
    BY <1>2 DEF DporStartRun, StartRun, DporSelectThread, SelectThread, ProgramStep,
       DporBlocked, DporRunEnds, RunEnds, DporRestoreTransition, RestoreTransition, UnchangedBound
<1>3. CASE DporReadRecord /\ UnchangedBound
    BY <1>3 DEF DporReadRecord, ReadRecord, UnchangedBound
<1>4. CASE BPUpdateTransition
    BY <1>4 DEF BPUpdateTransition
<1>5. CASE BPScheduleNext \/ BPBacktrackFurther
    <2>1. PICK tried : BPPopBack(tried)
        BY <1>5 DEF BPScheduleNext, BPBacktrackFurther
    <2> QED
        BY <1>5, <2>1 DEF BPScheduleNext, ScheduleNext, BPBacktrackFurther, BacktrackFurther, BPPopBack
<1>6. CASE UNCHANGED bpVars
    BY <1>6 DEF bpVars, dporVars, explorationVars
<1> QED
    BY <1>1, <1>2, <1>3, <1>4, <1>5, <1>6 DEF BPNext

\* update_after_exploration changes sleep set and flag of the popped state only.
LEMMA PoppedIs ==
    ASSUME BPInv, PopBack
    PROVE  /\ Len(mExecution) \in Nat \ {0}
           /\ Len(sufficient) = Len(mExecution) + 1
           /\ Len(boundStates) = Len(mExecution) + 1
           /\ PoppedSet \in SufficientSets
           /\ PoppedSet.backtrack = sufficient[Len(mExecution)].backtrack
           /\ PoppedBound \in BoundStates
           /\ PoppedBound.value = boundStates[Len(mExecution)].value
           /\ PoppedBound.pending = boundStates[Len(mExecution)].pending
<1> DEFINE n == Len(mExecution)
<1>1. n \in Nat \ {0} /\ Len(sufficient) = n + 1 /\ Len(boundStates) = n + 1
    BY PopBackIs DEF BPInv, Inv, BoundStatesAreExact
<1>2. sufficient[n] \in SufficientSets /\ boundStates[n] \in BoundStates
      /\ boundStates[n + 1] \in BoundStates
    BY <1>1, ElementOfSeq DEF BPInv
<1>3. Last(mExecution).instr.tid \in Tids
    BY PopBackType DEF BPInv, Inv
<1>4. PICK exceeded \in BOOLEAN : exceeded = SubtreeExceeded
    BY <1>2 DEF SubtreeExceeded, BoundStates
<1>5. PICK sleep \in SUBSET Tids :
          sleep = IF SubtreeExceeded THEN sufficient[n].sleep \ {Last(mExecution).instr.tid}
                  ELSE sufficient[n].sleep \cup {Last(mExecution).instr.tid}
    BY <1>2, <1>3 DEF SufficientSets
<1>6. PoppedSet = [sufficient[n] EXCEPT !.sleep = sleep]
    BY <1>5 DEF PoppedSet
<1>7. PoppedBound = [boundStates[n] EXCEPT !.exceeded = exceeded]
    BY <1>4 DEF PoppedBound
<1> QED
    BY <1>1, <1>2, <1>6, <1>7 DEF SufficientSets, BoundStates

\* A stack without its last entries.
LEMMA BottomIs ==
    ASSUME NEW S, NEW s \in Seq(S), NEW m \in Nat, m <= Len(s)
    PROVE  /\ SubSeq(s, 1, m) \in Seq(S)
           /\ Len(SubSeq(s, 1, m)) = m
           /\ \A i \in 1 .. m : SubSeq(s, 1, m)[i] = s[i]
    OBVIOUS

\* What is left of the stacks.
LEMMA BPPopBackIs ==
    ASSUME BPInv, PopBack, NEW tried, BPPopBack(tried)
    PROVE  /\ sufficient' \in Seq(SufficientSets)
           /\ Len(sufficient') = Len(mExecution)
           /\ \A i \in 1 .. Len(mExecution) : sufficient'[i].backtrack = sufficient[i].backtrack
           /\ boundStates' \in Seq(BoundStates)
           /\ Len(boundStates') = Len(mExecution)
           /\ \A i \in 1 .. Len(mExecution) :
                  /\ boundStates'[i].value = boundStates[i].value
                  /\ boundStates'[i].pending = boundStates[i].pending
<1> DEFINE n == Len(mExecution)
           kept == SubSeq(sufficient, 1, n - 1)
           keptBound == SubSeq(boundStates, 1, n - 1)
<1>1. PICK exceeded \in BOOLEAN : exceeded = (PoppedBound.exceeded \/ \E t \in tried : ~BPCondition(t))
    BY PoppedIs DEF BoundStates
<1> DEFINE popped == [PoppedBound EXCEPT !.exceeded = exceeded]
<1>2. popped \in BoundStates /\ popped.value = PoppedBound.value
      /\ popped.pending = PoppedBound.pending
    BY PoppedIs DEF BoundStates
<1>3. boundStates' = Append(keptBound, popped) /\ sufficient' = Append(kept, PoppedSet)
    BY <1>1 DEF BPPopBack
<1>4. n \in Nat \ {0} /\ Len(sufficient) = n + 1 /\ Len(boundStates) = n + 1
    BY PoppedIs
<1>5. /\ kept \in Seq(SufficientSets) /\ Len(kept) = n - 1
      /\ \A i \in 1 .. n - 1 : kept[i] = sufficient[i]
    <2>1. n - 1 \in Nat /\ n - 1 <= Len(sufficient) /\ sufficient \in Seq(SufficientSets)
        BY <1>4 DEF BPInv
    <2> HIDE DEF n
    <2> QED
        BY <2>1, BottomIs
<1>6. /\ keptBound \in Seq(BoundStates) /\ Len(keptBound) = n - 1
      /\ \A i \in 1 .. n - 1 : keptBound[i] = boundStates[i]
    <2>1. n - 1 \in Nat /\ n - 1 <= Len(boundStates) /\ boundStates \in Seq(BoundStates)
        BY <1>4 DEF BPInv
    <2> HIDE DEF n
    <2> QED
        BY <2>1, BottomIs
<1> HIDE DEF kept, keptBound, popped
<1>7. /\ sufficient' \in Seq(SufficientSets) /\ Len(sufficient') = n
      /\ \A i \in 1 .. n - 1 : sufficient'[i] = sufficient[i]
      /\ sufficient'[n] = PoppedSet
    BY <1>3, <1>4, <1>5, PoppedIs, AppendIs
<1>8. /\ boundStates' \in Seq(BoundStates) /\ Len(boundStates') = n
      /\ \A i \in 1 .. n - 1 : boundStates'[i] = boundStates[i]
      /\ boundStates'[n] = popped
    BY <1>2, <1>3, <1>4, <1>6, AppendIs
<1>9. \A i \in 1 .. n : i \in 1 .. n - 1 \/ i = n
    BY <1>4
<1> QED
    BY <1>2, <1>7, <1>8, <1>9, PoppedIs

-----------------------------------------------------------------------------
(* The search with BoundPersistent is an exploration *)

\* The pool of the popped state, pending threads included, is enabled there.
LEMMA BPPoolIsEnabled ==
    ASSUME BPInv, PopBack
    PROVE  \E pool \in PoolOfReduction : BPUndone = Undone(pool)
<1> DEFINE n == Len(mExecution)
           pool == Awake(PoppedSet.sleep, PoppedSet.backtrack)
                       \cup (IF PoppedBound.exceeded THEN PoppedBound.pending ELSE {})
<1>1. n \in Nat \ {0} /\ Len(sufficient) = n + 1 /\ Len(boundStates) = n + 1
    BY PoppedIs
<1>2. PoppedSet.backtrack \subseteq Enabled(program, StateBefore(mExecution, n))
    BY <1>1, PoppedIs DEF BPInv, BacktrackIsEnabled
<1>3. PoppedBound.pending \subseteq Enabled(program, StateBefore(mExecution, n))
    BY <1>1, PoppedIs DEF BPInv, BoundStatesAreExact
<1>4. Final(Front(mExecution)) = StateBefore(mExecution, n)
    BY FinalOfFront DEF BPInv, Inv, TypeOK, PopBack
<1>5. pool \in PoolOfReduction
    BY <1>2, <1>3, <1>4 DEF Awake, PoolOfReduction
<1>6. BPUndone = Undone(pool)
    BY DEF BPUndone
<1> QED
    BY <1>5, <1>6

\* A thread that may go on is awake after its own transition, so the selection
\* among the awake threads is one of the nonpreemptive strategy.
LEMMA AwakeSelectionIsNonPreemptive ==
    ASSUME BPInv
    PROVE  NonPreemptive(recording, AwakeSelection)
               \subseteq NonPreemptive(recording, Enabled(program, Final(recording)))
<1> DEFINE enabled == Enabled(program, Final(recording))
           t == Last(recording).instr.tid
<1>1. AwakeSelection \subseteq enabled
    BY DEF AwakeSelection, Awake
<1>2. ASSUME recording # <<>>, t \in enabled
      PROVE  t \in AwakeSelection
    <2>1. HasNext(program, Final(recording), t)
        BY <1>2 DEF Enabled, IsEnabled
    <2>2. Dependent(Last(recording).instr, NextInstr(program, Final(recording), t))
        BY DEF Dependent, SameThread, NextInstr
    <2>3. t \notin UpdatedSleep
        BY <1>2, <2>1, <2>2 DEF UpdatedSleep, WakeUp
    <2> QED
        BY <1>2, <2>3 DEF AwakeSelection, Awake
<1> QED
    BY <1>1, <1>2 DEF NonPreemptive

\* Every handler of the search is that of the exploration.
LEMMA BPNextIsNext ==
    ASSUME BPInv, [BPNext]_bpVars
    PROVE  [Next]_explorationVars /\ RunsNonPreemptively
<1>1. CASE BPScheduleNext
    <2>1. PICK next \in Tids : ScheduleNext(next) /\ next \in BPUndone
        BY <1>1 DEF BPScheduleNext
    <2>2. PICK pool \in PoolOfReduction : BPUndone = Undone(pool)
        BY <2>1, BPPoolIsEnabled DEF ScheduleNext
    <2> QED
        BY <2>1, <2>2 DEF Next, RunsNonPreemptively, ScheduleNext, PopBack
<1>2. CASE DporSelectThread
    <2>1. PICK t \in NonPreemptive(recording, AwakeSelection) : SelectThread(t)
        BY <1>2 DEF DporSelectThread
    <2>2. t \in NonPreemptive(recording, Enabled(program, Final(recording)))
        BY <2>1, AwakeSelectionIsNonPreemptive
    <2>3. t \in Tids
        BY <2>2 DEF NonPreemptive, Enabled
    <2> QED
        BY <2>1, <2>2, <2>3 DEF Next, RunsNonPreemptively
<1>3. CASE DporBlocked \/ DporRunEnds
    BY <1>3 DEF DporBlocked, DporRunEnds, Next, RunsNonPreemptively, RunEnds
<1>4. CASE DporStartRun \/ DporReadRecord \/ DporRestoreTransition \/ BPUpdateTransition
           \/ BPBacktrackFurther
    BY <1>4 DEF DporStartRun, DporReadRecord, ReadRecord, DporRestoreTransition, RestoreTransition,
       BPUpdateTransition, UpdateTransition, BPBacktrackFurther, BacktrackFurther, PopBack, Next,
       RunsNonPreemptively
<1>5. CASE LimitReached \/ ReplayScheduled \/ RunFails \/ RecordMissing \/ FinishUpdate
           \/ Exhausted \/ Terminated
    BY <1>5 DEF Next, RunsNonPreemptively, LimitReached, RunFails, RecordMissing, FinishUpdate,
       Exhausted, Terminated, explorationVars
<1>6. CASE UNCHANGED bpVars
    BY <1>6 DEF bpVars, dporVars, explorationVars, RunsNonPreemptively
<1> QED
    BY <1>1, <1>2, <1>3, <1>4, <1>5, <1>6 DEF BPNext

-----------------------------------------------------------------------------
(* The inductive invariant, part by part *)

\* The bound values of a stack are a sequence of naturals.
LEMMA ValuesType ==
    ASSUME NEW S \in Seq(BoundStates)
    PROVE  /\ Values(S) \in Seq(Nat)
           /\ Len(Values(S)) = Len(S)
           /\ \A i \in 1 .. Len(S) : Values(S)[i] = S[i].value
<1>1. ASSUME NEW i \in 1 .. Len(S)
      PROVE  S[i].value \in Nat
    <2>1. S[i] \in BoundStates
        BY ElementOfSeq
    <2> QED
        BY <2>1 DEF BoundStates
<1>2. Values(S) = [i \in 1 .. Len(S) |-> S[i].value]
    BY DEF Values
<1> QED
    BY <1>1, <1>2

\* The invariant says of these values that they are exact.
LEMMA ValuesExact ==
    ASSUME BPInv
    PROVE  ValuesAreExact(program, mExecution, Values(boundStates))
    BY ValuesType DEF BPInv, BoundStatesAreExact, ValuesAreExact

\* add_backtrack_point adds enabled threads only, for whatever points.
LEMMA AddedAtIsEnabled ==
    ASSUME BPInv, NEW points, NEW i \in 1 .. Len(mExecution)
    PROVE  AddedAt(points, i) \subseteq Enabled(program, StateBefore(mExecution, i))
<1>1. mExecution[i].pre = StateBefore(mExecution, i)
    BY PreIsStateBefore DEF BPInv, Inv, ExecutionsAreValid
<1>2. ASSUME NEW q, q.index = i
      PROVE  AddedByBound(program, mExecution, UpdatedHB, sufficient, q)
                 \subseteq Enabled(program, StateBefore(mExecution, i))
    BY <1>1, <1>2 DEF AddedByBound, Awake
<1> QED
    BY <1>2 DEF AddedAt

\* dpor::update_state with BoundPersistent adds to the sets of the states so far
\* and pushes the value of the new one.
LEMMA BPUpdateIs ==
    ASSUME BPInv, BPUpdateTransition
    PROVE  /\ index \in 1 .. Len(mExecution)
           /\ Len(sufficient) = index /\ Len(boundStates) = index
           /\ mExecution' = mExecution /\ program' = program
           /\ sufficient' \in Seq(SufficientSets)
           /\ Len(sufficient') = index + 1
           /\ \A i \in 1 .. index + 1 : i <= index =>
                  sufficient'[i].backtrack \subseteq Enabled(program, StateBefore(mExecution, i))
           /\ sufficient'[index + 1].backtrack = {}
           /\ boundStates' \in Seq(BoundStates)
           /\ Len(boundStates') = index + 1
           /\ \A i \in 1 .. index :
                  /\ boundStates'[i].value = boundStates[i].value
                  /\ boundStates'[i].pending \subseteq Enabled(program, StateBefore(mExecution, i))
           /\ boundStates'[index + 1].pending = {}
           /\ boundStates'[index + 1].value
                 = Value(program, mExecution, Values(boundStates), index - 1,
                         mExecution[index].instr.tid)
<1> DEFINE points == BPBacktrackPoints(program, mExecution, UpdatedHB, index)
           conservative == ConservativePoints(mExecution, points)
           tid == mExecution[index].instr.tid
           value == Value(program, mExecution, Values(boundStates), index - 1, tid)
           added(i) == AddedAt(points, i) \cup (IF i = index THEN {tid} ELSE {})
           more(i) == AddedAt(conservative, i)
           set(i) == [sufficient[i] EXCEPT !.backtrack = @ \cup added(i)]
           state(i) == [boundStates[i] EXCEPT !.pending = @ \cup more(i)]
           sets == [i \in 1 .. index |-> set(i)]
           states == [i \in 1 .. index |-> state(i)]
<1>1. /\ index \in 1 .. Len(mExecution) /\ index \in Nat \ {0}
      /\ Len(sufficient) = index /\ Len(boundStates) = index
      /\ sufficient \in Seq(SufficientSets) /\ boundStates \in Seq(BoundStates)
      /\ mExecution' = mExecution /\ program' = program
    <2>1. TypeOK /\ SearchIsAligned /\ UpdateTransition /\ Len(sufficient) = Len(dfsState)
          /\ Len(boundStates) = Len(sufficient)
          /\ sufficient \in Seq(SufficientSets) /\ boundStates \in Seq(BoundStates)
        BY DEF BPInv, Inv, BoundStatesAreExact, BPUpdateTransition
    <2>2. /\ index \in 1 .. Len(mExecution) /\ index \in Nat \ {0}
          /\ Len(dfsState) = index
          /\ mExecution' = mExecution /\ program' = program
        BY <2>1 DEF TypeOK, SearchIsAligned, UpdateTransition
    <2> QED
        BY <2>1, <2>2
<1>2. DOMAIN sufficient = 1 .. index /\ DOMAIN boundStates = 1 .. index
    BY <1>1
<1>3. /\ sufficient' = Append(sets, NewSufficientSet)
      /\ boundStates' = Append(states, NewBoundState(value))
    BY <1>2 DEF BPUpdateTransition
<1>4. tid \in Enabled(program, StateBefore(mExecution, index))
    BY <1>1 DEF BPInv, Inv, ExecutionsAreValid, IsExecution
<1>5. ASSUME NEW i \in 1 .. index
      PROVE  /\ added(i) \subseteq Enabled(program, StateBefore(mExecution, i))
             /\ more(i) \subseteq Enabled(program, StateBefore(mExecution, i))
    <2>1. i \in 1 .. Len(mExecution)
        BY <1>1
    <2>2. /\ AddedAt(points, i) \subseteq Enabled(program, StateBefore(mExecution, i))
          /\ AddedAt(conservative, i) \subseteq Enabled(program, StateBefore(mExecution, i))
        BY <2>1, AddedAtIsEnabled
    <2> QED
        BY <1>4, <2>2
<1> HIDE DEF added, more
<1>6. ASSUME NEW i \in 1 .. index
      PROVE  /\ set(i) \in SufficientSets
             /\ set(i).backtrack = sufficient[i].backtrack \cup added(i)
    <2>1. sufficient[i] \in SufficientSets
        BY <1>1, ElementOfSeq
    <2>2. added(i) \subseteq Tids
        BY <1>5 DEF Enabled
    <2> QED
        BY <2>1, <2>2 DEF SufficientSets
<1>7. ASSUME NEW i \in 1 .. index
      PROVE  /\ state(i) \in BoundStates
             /\ state(i).value = boundStates[i].value
             /\ state(i).pending = boundStates[i].pending \cup more(i)
    <2>1. boundStates[i] \in BoundStates
        BY <1>1, ElementOfSeq
    <2>2. more(i) \subseteq Tids
        BY <1>5 DEF Enabled
    <2> QED
        BY <2>1, <2>2 DEF BoundStates
<1>8. NewSufficientSet \in SufficientSets /\ NewSufficientSet.backtrack = {}
    <2>1. Last(sufficient) \in SufficientSets
        BY <1>1, ElementOfSeq DEF Last
    <2> QED
        BY <2>1 DEF NewSufficientSet, SufficientSets, WakeUp
<1>9. /\ NewBoundState(value) \in BoundStates
      /\ NewBoundState(value).value = value /\ NewBoundState(value).pending = {}
    <2>1. Values(boundStates)[index] \in Nat
        BY <1>1, ValuesType, ElementOfSeq
    <2>2. value \in Nat
        BY <1>1, <2>1 DEF Value, StepValue
    <2> QED
        BY <2>2 DEF NewBoundState, BoundStates
<1> HIDE DEF set, state, value
<1>10. /\ sets \in Seq(SufficientSets) /\ Len(sets) = index
       /\ \A i \in 1 .. index : sets[i] = set(i)
    BY <1>1, <1>6
<1>11. /\ states \in Seq(BoundStates) /\ Len(states) = index
       /\ \A i \in 1 .. index : states[i] = state(i)
    BY <1>1, <1>7
<1> HIDE DEF sets, states
<1>12. /\ sufficient' \in Seq(SufficientSets) /\ Len(sufficient') = index + 1
       /\ \A i \in 1 .. index : sufficient'[i] = set(i)
       /\ sufficient'[index + 1] = NewSufficientSet
    BY <1>3, <1>8, <1>10, AppendIs
<1>13. /\ boundStates' \in Seq(BoundStates) /\ Len(boundStates') = index + 1
       /\ \A i \in 1 .. index : boundStates'[i] = state(i)
       /\ boundStates'[index + 1] = NewBoundState(value)
    BY <1>3, <1>9, <1>11, AppendIs
<1>14. ASSUME NEW i \in 1 .. index
       PROVE  /\ sufficient'[i].backtrack \subseteq Enabled(program, StateBefore(mExecution, i))
              /\ boundStates'[i].value = boundStates[i].value
              /\ boundStates'[i].pending \subseteq Enabled(program, StateBefore(mExecution, i))
    <2>1. i <= Len(mExecution) + 1 /\ i - 1 <= Len(mExecution) /\ i \in 1 .. Len(sufficient)
          /\ i \in 1 .. Len(boundStates)
        BY <1>1
    <2>2. sufficient[i].backtrack \subseteq Enabled(program, StateBefore(mExecution, i))
        BY <2>1 DEF BPInv, BacktrackIsEnabled
    <2>3. boundStates[i].pending \subseteq Enabled(program, StateBefore(mExecution, i))
        BY <2>1 DEF BPInv, BoundStatesAreExact
    <2> QED
        BY <1>5, <1>6, <1>7, <1>12, <1>13, <2>2, <2>3
<1> QED
    BY <1>1, <1>8, <1>9, <1>12, <1>13, <1>14 DEF value

\* The stacks stay aligned, and what is on them enabled and exact.
LEMMA BPStacksStep ==
    ASSUME BPInv, [BPNext]_bpVars
    PROVE  /\ sufficient' \in Seq(SufficientSets)
           /\ boundStates' \in Seq(BoundStates)
           /\ Len(sufficient') = Len(dfsState')
           /\ BacktrackIsEnabled'
           /\ BoundStatesAreExact'
<1> DEFINE V == Values(boundStates)
           W == Values(boundStates')
<1>1. Inv /\ Inv' /\ program' = program /\ TypeOK /\ TypeOK'
    BY BPNextIsNext, InvStep, ProgramIsFixed DEF BPInv, Inv
<1>2. /\ mExecution \in Seq(Transitions) /\ mExecution' \in Seq(Transitions)
      /\ sufficient \in Seq(SufficientSets) /\ boundStates \in Seq(BoundStates)
      /\ Len(boundStates) = Len(sufficient) /\ Len(sufficient) = Len(dfsState)
    BY <1>1 DEF TypeOK, BPInv, BoundStatesAreExact
<1>3. ValuesAreExact(program, mExecution, V) /\ Len(V) = Len(boundStates) /\ Len(V) \in Nat
    BY <1>2, ValuesExact, ValuesType
<1>4. ASSUME boundStates' \in Seq(BoundStates), Len(boundStates') = Len(sufficient'),
             ValuesAreExact(program, mExecution', W),
             \A i \in 1 .. Len(boundStates') : i - 1 <= Len(mExecution') =>
                 boundStates'[i].pending \subseteq Enabled(program, StateBefore(mExecution', i))
      PROVE  BoundStatesAreExact'
    <2>1. \A i \in 1 .. Len(boundStates') :
              i - 1 <= Len(mExecution') =>
                  boundStates'[i].value = PreemptionsOf(program, SubSeq(mExecution', 1, i - 1))
        BY <1>4, ValuesType DEF ValuesAreExact
    <2> QED
        BY <1>1, <1>4, <2>1 DEF BoundStatesAreExact
<1>5. CASE UNCHANGED <<mExecution, dfsState, sufficient, boundStates>>
    BY <1>1, <1>5 DEF BPInv, BacktrackIsEnabled, BoundStatesAreExact
<1>6. CASE ReadRecord /\ UNCHANGED <<dfsState, sufficient, boundStates>>
    <2>1. /\ Len(dfsState) = Len(mExecution) + 1
          /\ Len(mExecution) <= Len(mExecution')
          /\ \A i \in 1 .. Len(mExecution) : mExecution'[i] = mExecution[i]
        BY <1>1, <1>6 DEF Inv, SearchIsAligned, RecordExtendsSearch, BeforeUpdate, Running, ReadRecord
    <2>2. \A i \in 1 .. Len(mExecution) + 1 :
              StateBefore(mExecution', i) = StateBefore(mExecution, i)
        <3> SUFFICES ASSUME NEW i \in 1 .. Len(mExecution) + 1
                     PROVE  StateBefore(mExecution', i) = StateBefore(mExecution, i)
            OBVIOUS
        <3>1. i = 1 \/ i - 1 \in 1 .. Len(mExecution)
            BY <1>2
        <3> QED
            BY <2>1, <3>1 DEF StateBefore
    <2>3. ValuesAreExact(program, mExecution', V)
        BY <1>2, <1>3, <2>1, ValuesKept
    <2>4. BacktrackIsEnabled'
        BY <1>1, <1>2, <1>6, <2>1, <2>2 DEF BPInv, BacktrackIsEnabled
    <2>5. \A i \in 1 .. Len(boundStates) :
              boundStates[i].pending \subseteq Enabled(program, StateBefore(mExecution', i))
        BY <1>2, <2>1, <2>2 DEF BPInv, BoundStatesAreExact
    <2> QED
        BY <1>2, <1>4, <1>6, <2>3, <2>4, <2>5
<1>7. CASE BPUpdateTransition
    <2>1. dfsState' = Append(dfsState, {}) /\ dfsState \in Seq(SUBSET Tids)
        BY <1>1, <1>7 DEF BPUpdateTransition, UpdateTransition, TypeOK
    <2>2. Len(dfsState') = index + 1
        BY <1>2, <1>7, <2>1, BPUpdateIs, AppendIs
    <2>3. /\ index \in 1 .. Len(mExecution) /\ mExecution' = mExecution
          /\ Len(V) = index /\ Len(W) = index + 1
          /\ \A i \in 1 .. index : W[i] = V[i]
          /\ W[index + 1] = Value(program, mExecution, V, index - 1, mExecution[index].instr.tid)
        <3>1. /\ Len(W) = Len(boundStates') /\ Len(boundStates') = index + 1
              /\ \A i \in 1 .. Len(boundStates') : W[i] = boundStates'[i].value
            BY <1>7, BPUpdateIs, ValuesType
        <3>2. \A i \in 1 .. Len(boundStates) : V[i] = boundStates[i].value
            BY <1>2, ValuesType
        <3>3. index + 1 \in 1 .. index + 1 /\ \A i \in 1 .. index : i \in 1 .. index + 1
            BY <1>7, BPUpdateIs
        <3> HIDE DEF V, W
        <3>4. W[index + 1] = boundStates'[index + 1].value
            BY <3>1, <3>3
        <3>5. \A i \in 1 .. index : W[i] = V[i]
            BY <1>7, <3>1, <3>2, <3>3, BPUpdateIs
        <3> QED
            BY <1>3, <1>7, <3>1, <3>4, <3>5, BPUpdateIs DEF V
    <2>4. ValuesAreExact(program, mExecution', W)
        <3>1. IsExecution(program, mExecution)
            BY <1>1 DEF Inv, ExecutionsAreValid
        <3> HIDE DEF V, W
        <3> QED
            BY <1>2, <1>3, <2>3, <3>1, ValuesExtended
    <2>5. \A i \in 1 .. index + 1 : i \in 1 .. index \/ i = index + 1
        BY <2>3
    <2>6. BacktrackIsEnabled'
        BY <1>1, <1>7, <2>5, BPUpdateIs DEF BacktrackIsEnabled
    <2>7. \A i \in 1 .. Len(boundStates') :
              boundStates'[i].pending \subseteq Enabled(program, StateBefore(mExecution', i))
        BY <1>7, <2>5, BPUpdateIs
    <2> QED
        BY <1>4, <1>7, <2>2, <2>4, <2>6, <2>7, BPUpdateIs
<1>8. CASE PopBack /\ \E tried : BPPopBack(tried)
    <2> DEFINE n == Len(mExecution)
    <2>1. PICK tried : BPPopBack(tried)
        BY <1>8
    <2>2. /\ n \in Nat \ {0}
          /\ Len(mExecution') = n - 1
          /\ \A i \in 1 .. n - 1 : mExecution'[i] = mExecution[i]
          /\ Len(dfsState) = n + 1 /\ Len(dfsState') = n
        BY <1>1, <1>8, PopBackIs DEF Inv
    <2>3. /\ sufficient' \in Seq(SufficientSets) /\ Len(sufficient') = n
          /\ boundStates' \in Seq(BoundStates) /\ Len(boundStates') = n
          /\ \A i \in 1 .. n : /\ sufficient'[i].backtrack = sufficient[i].backtrack
                               /\ boundStates'[i].value = boundStates[i].value
                               /\ boundStates'[i].pending = boundStates[i].pending
        BY <1>8, <2>1, BPPopBackIs
    <2>4. \A i \in 1 .. n : StateBefore(mExecution', i) = StateBefore(mExecution, i)
        BY <2>2 DEF StateBefore
    <2>5. Len(W) = n /\ \A i \in 1 .. n : W[i] = V[i]
        BY <1>2, <2>2, <2>3, ValuesType
    <2>6. ValuesAreExact(program, mExecution', W)
        <3> HIDE DEF V, W
        <3> QED
            BY <1>2, <1>3, <2>2, <2>5, ValuesKept
    <2>7. BacktrackIsEnabled'
        <3> SUFFICES ASSUME NEW i \in 1 .. n
                     PROVE  sufficient'[i].backtrack \subseteq Enabled(program, StateBefore(mExecution', i))
            BY <1>1, <2>3 DEF BacktrackIsEnabled
        <3>1. i \in 1 .. Len(sufficient) /\ i - 1 <= Len(mExecution)
            BY <1>2, <2>2
        <3>2. sufficient[i].backtrack \subseteq Enabled(program, StateBefore(mExecution, i))
            BY <3>1 DEF BPInv, BacktrackIsEnabled
        <3> QED
            BY <2>3, <2>4, <3>2
    <2>8. \A i \in 1 .. n : boundStates'[i].pending \subseteq Enabled(program, StateBefore(mExecution', i))
        <3> SUFFICES ASSUME NEW i \in 1 .. n
                     PROVE  boundStates'[i].pending \subseteq Enabled(program, StateBefore(mExecution', i))
            OBVIOUS
        <3>1. i \in 1 .. Len(boundStates) /\ i - 1 <= Len(mExecution)
            BY <1>2, <2>2
        <3>2. boundStates[i].pending \subseteq Enabled(program, StateBefore(mExecution, i))
            BY <3>1 DEF BPInv, BoundStatesAreExact
        <3> QED
            BY <2>3, <2>4, <3>2
    <2> QED
        BY <1>4, <2>2, <2>3, <2>6, <2>7, <2>8
<1> QED
    BY <1>5, <1>6, <1>7, <1>8, BPStepKinds

\* The thread that is scheduled next satisfies BoundPersistent::condition.
LEMMA BPNextIsWithinStep ==
    ASSUME BPInv, [BPNext]_bpVars
    PROVE  NextIsWithin(Values(boundStates), mBound)'
<1>1. mBound' = mBound
    BY BPStepKinds
<1>2. ASSUME phase \in BeforeUpdate,
             UNCHANGED <<program, mSchedule, mExecution, from, boundStates>>
      PROVE  NextIsWithin(Values(boundStates), mBound)'
    BY <1>1, <1>2 DEF BPInv, NextIsWithin
<1>3. ASSUME phase' \notin BeforeUpdate
      PROVE  NextIsWithin(Values(boundStates), mBound)'
    BY <1>3 DEF NextIsWithin, BeforeUpdate
<1>4. CASE UnchangedBound
           /\ \/ DporStartRun \/ LimitReached \/ ReplayScheduled \/ DporSelectThread \/ DporBlocked
              \/ DporRunEnds \/ RunFails \/ RecordMissing
    BY <1>2, <1>4 DEF DporStartRun, StartRun, LimitReached, ReplayScheduled, DporSelectThread,
       SelectThread, ProgramStep, DporBlocked, DporRunEnds, RunEnds, RunFails, RecordMissing,
       BeforeUpdate, UnchangedBound
<1>5. CASE DporReadRecord \/ DporRestoreTransition \/ BPUpdateTransition \/ FinishUpdate
           \/ BPBacktrackFurther
    BY <1>3, <1>5 DEF DporReadRecord, ReadRecord, DporRestoreTransition, RestoreTransition,
       BPUpdateTransition, UpdateTransition, FinishUpdate, BPBacktrackFurther, BacktrackFurther,
       PopBack, BeforeUpdate
<1>6. CASE BPScheduleNext
    <2> DEFINE n == Len(mExecution)
    <2>1. PICK next \in Tids : /\ ScheduleNext(next) /\ next \in BPUndone /\ BPCondition(next)
                               /\ BPPopBack({t \in BPUndone : t < next})
        BY <1>6 DEF BPScheduleNext
    <2>2. PopBack /\ mExecution' = Front(mExecution) /\ program' = program
        BY <2>1 DEF ScheduleNext, PopBack
    <2>3. mSchedule'[from'] = next
        <3>1. PICK pool \in PoolOfReduction : BPUndone = Undone(pool)
            BY <2>2, BPPoolIsEnabled
        <3> QED
            BY <2>1, <3>1, ScheduleNextIs DEF BPInv, Inv
    <2>4. /\ n \in Nat \ {0} /\ Len(mExecution') = n - 1
          /\ \A i \in 1 .. n - 1 : mExecution'[i] = mExecution[i]
        BY <2>2, PopBackIs DEF BPInv, Inv
    <2>5. Values(boundStates')[n] = Values(boundStates)[n]
        <3>1. /\ boundStates' \in Seq(BoundStates) /\ Len(boundStates') = n
              /\ boundStates'[n].value = boundStates[n].value
            BY <2>1, <2>2, <2>4, BPPopBackIs
        <3>2. boundStates \in Seq(BoundStates) /\ n \in 1 .. Len(boundStates)
            BY <2>2, <2>4, PoppedIs DEF BPInv
        <3>3. n \in 1 .. Len(boundStates')
            BY <2>4, <3>1
        <3> HIDE DEF n
        <3> QED
            BY <3>1, <3>2, <3>3, ValuesType
    <2>6. Value(program, mExecution', Values(boundStates'), n - 1, next)
             = Value(program, mExecution, Values(boundStates), n - 1, next)
        <3>1. (n - 1) + 1 = n
            BY <2>4
        <3>2. ~(n - 1 < 1) => mExecution'[n - 1] = mExecution[n - 1]
            BY <2>4
        <3> HIDE DEF n
        <3> QED
            BY <2>5, <3>1, <3>2 DEF Value
    <2>7. Value(program, mExecution, Values(boundStates), n - 1, next) <= mBound
        BY <2>1 DEF BPCondition
    <2> QED
        BY <1>1, <2>2, <2>3, <2>4, <2>6, <2>7 DEF NextIsWithin
<1>7. CASE Exhausted
    <2>1. mSchedule = <<>>
        BY <1>7, ScheduleIs, EmptySeq DEF Exhausted, BPInv, Inv, SearchIsAligned, TypeOK
    <2> QED
        BY <1>3, <1>7, <2>1 DEF Exhausted, BeforeUpdate
<1>8. CASE (Terminated /\ UnchangedBound) \/ UNCHANGED bpVars
    BY <1>1, <1>8 DEF Terminated, bpVars, dporVars, explorationVars, UnchangedBound, BPInv,
       NextIsWithin
<1> QED
    BY <1>4, <1>5, <1>6, <1>7, <1>8 DEF BPNext

\* The run, the record and the execution stay within the bound.
LEMMA BPStaysWithinBound ==
    ASSUME BPInv, [BPNext]_bpVars
    PROVE  RunIsWithin(mBound)' /\ RecordIsWithin(mBound)' /\ ExploredWithinBound'
<1>1. PICK k \in Nat : k = mBound
    BY DEF BPInv
<1>2. mBound' = k
    BY <1>1, BPStepKinds
<1>3. Inv /\ [Next]_explorationVars /\ RunsNonPreemptively
    BY BPNextIsNext DEF BPInv
<1>4. PICK S : S = Values(boundStates)
    OBVIOUS
<1>5. Len(S) = Len(dfsState) /\ ValuesAreExact(program, mExecution, S)
    BY <1>4, ValuesExact, ValuesType DEF BPInv, BoundStatesAreExact
<1>6. NextIsWithin(S, k) /\ RunIsWithin(k) /\ RecordIsWithin(k) /\ ExecutionIsWithin(k)
    BY <1>1, <1>4 DEF BPInv, ExploredWithinBound, ExecutionIsWithin
<1>7. RunIsWithin(k)'
    BY <1>3, <1>5, <1>6, RunStaysWithin
<1>8. RecordIsWithin(k)'
    BY <1>3, <1>6, RecordStaysWithin
<1>9. ExecutionIsWithin(k)'
    BY <1>3, <1>6, ExecutionStaysWithin
<1> QED
    BY <1>2, <1>7, <1>8, <1>9 DEF RunIsWithin, RecordIsWithin, ExecutionIsWithin,
       ExploredWithinBound

-----------------------------------------------------------------------------
(* The theorems *)

\* The invariant holds at the start.
LEMMA BPInvInit == BPInit => BPInv
<1> SUFFICES ASSUME BPInit
             PROVE  BPInv
    OBVIOUS
<1>1. Inv /\ mBound \in Nat
    BY InvInit, BoundsAssumption DEF BPInit, DporInit
<1>2. /\ sufficient = <<NoSufficientSet>> /\ boundStates = <<NewBoundState(0)>>
      /\ dfsState = <<{}>> /\ phase = "loop" /\ mSchedule = <<>> /\ mExecution = <<>>
      /\ recording = <<>> /\ record.transitions = <<>>
    BY DEF BPInit, DporInit, Init, NoRecord
<1>3. NoSufficientSet \in SufficientSets /\ NoSufficientSet.backtrack = {}
    BY DEF NoSufficientSet, SufficientSets
<1>4. /\ NewBoundState(0) \in BoundStates
      /\ NewBoundState(0).value = 0 /\ NewBoundState(0).pending = {}
    BY DEF NewBoundState, BoundStates
<1>5. /\ sufficient \in Seq(SufficientSets) /\ Len(sufficient) = 1
      /\ \A i \in 1 .. Len(sufficient) : sufficient[i].backtrack = {}
    BY <1>2, <1>3
<1>6. /\ boundStates \in Seq(BoundStates) /\ Len(boundStates) = 1
      /\ \A i \in 1 .. Len(boundStates) :
             i = 1 /\ boundStates[i].value = 0 /\ boundStates[i].pending = {}
    BY <1>2, <1>4
<1>7. PreemptionsOf(program, <<>>) = 0
    <2>1. <<>> \in Seq(Transitions) /\ Len(<<>>) <= 1
        BY EmptySeq
    <2> QED
        BY <2>1, NoPreemption
<1>8. SubSeq(mExecution, 1, 1 - 1) = <<>>
    BY <1>2, SubSeqEmpty
<1>9. BoundStatesAreExact
    BY <1>5, <1>6, <1>7, <1>8 DEF BoundStatesAreExact
<1>10. BacktrackIsEnabled
    BY <1>5 DEF BacktrackIsEnabled
<1>11. NextIsWithin(Values(boundStates), mBound) /\ RunIsWithin(mBound) /\ ExploredWithinBound
    BY <1>2 DEF NextIsWithin, RunIsWithin, ExploredWithinBound
<1>12. RecordIsWithin(mBound)
    BY <1>1, <1>2, NothingIsWithin DEF RecordIsWithin
<1>13. Len(dfsState) = 1
    BY <1>2
<1> QED
    BY <1>1, <1>5, <1>6, <1>9, <1>10, <1>11, <1>12, <1>13 DEF BPInv

\* Every step of the search preserves the invariant.
LEMMA BPInvStep == BPInv /\ [BPNext]_bpVars => BPInv'
<1> SUFFICES ASSUME BPInv, [BPNext]_bpVars
             PROVE  BPInv'
    OBVIOUS
<1>1. Inv'
    BY BPNextIsNext, InvStep DEF BPInv
<1>2. mBound' \in Nat
    BY BPStepKinds DEF BPInv
<1>3. /\ sufficient' \in Seq(SufficientSets)
      /\ boundStates' \in Seq(BoundStates)
      /\ Len(sufficient') = Len(dfsState')
      /\ BacktrackIsEnabled'
      /\ BoundStatesAreExact'
    BY BPStacksStep
<1>4. NextIsWithin(Values(boundStates), mBound)'
    BY BPNextIsWithinStep
<1>5. RunIsWithin(mBound)' /\ RecordIsWithin(mBound)' /\ ExploredWithinBound'
    BY BPStaysWithinBound
<1> QED
    BY <1>1, <1>2, <1>3, <1>4, <1>5 DEF BPInv

\* The inductive invariant of the search with BoundPersistent.
THEOREM BPInvariantHolds == BPSpec => []BPInv
    BY BPInvInit, BPInvStep, PTL DEF BPSpec

\* The search with BoundPersistent implements the exploration with an arbitrary
\* reduction: what is proved of Exploration holds of it.
THEOREM BPIsExploration == BPSpec => Spec
<1>1. BPInit => Init
    BY DEF BPInit, DporInit
<1>2. BPInv /\ [BPNext]_bpVars => [Next]_explorationVars
    BY BPNextIsNext
<1> QED
    BY <1>1, <1>2, BPInvariantHolds, PTL DEF BPSpec, Spec

\* Bound values computed incrementally are numbers of preemptions, and the threads
\* that wait for the bound to be exceeded are enabled where they wait.
THEOREM BPStatesAreExact == BPSpec => []BoundStatesAreExact
<1>1. BPInv => BoundStatesAreExact
    BY DEF BPInv
<1> QED
    BY <1>1, BPInvariantHolds, PTL

\* No execution with more preemptions than the bound is explored, sleep sets and
\* points added for the bound included.
THEOREM BPWithinBound == BPSpec => []ExploredWithinBound
<1>1. BPInv => ExploredWithinBound
    BY DEF BPInv
<1> QED
    BY <1>1, BPInvariantHolds, PTL

\* The search with BoundPersistent never explores a schedule twice.
THEOREM BPNoRepetition == BPSpec => NoScheduleTwice
    BY BPIsExploration, NoRepetition

-----------------------------------------------------------------------------
(* The clocks of the search *)

\* Its handlers do to the clocks what those of dpor do.
LEMMA BPIsClockStep ==
    ASSUME [BPNext]_bpVars
    PROVE  ClockStep
<1>1. CASE \/ DporStartRun \/ DporSelectThread \/ DporBlocked \/ DporRunEnds
           \/ DporReadRecord \/ DporRestoreTransition
           \/ /\ UnchangedDpor
              /\ \/ LimitReached \/ ReplayScheduled \/ RunFails \/ RecordMissing
                 \/ FinishUpdate \/ Exhausted \/ Terminated
    <2>1. DporNext
        BY <1>1 DEF DporNext
    <2> QED
        BY <2>1, DporIsClockStep
<1>2. CASE BPUpdateTransition
    BY <1>2 DEF BPUpdateTransition, ClockStep
<1>3. CASE BPScheduleNext \/ BPBacktrackFurther
    <2>1. PopBack /\ mHB' = PopBackHB(mHB) /\ phase' # "update"
        BY <1>3 DEF BPScheduleNext, ScheduleNext, BPBacktrackFurther, BacktrackFurther,
           BPPopBack, PopBack
    <2> QED
        BY <2>1 DEF ClockStep
<1>4. CASE UNCHANGED bpVars
    BY <1>4 DEF bpVars, dporVars, explorationVars, ClockStep
<1> QED
    BY <1>1, <1>2, <1>3, <1>4 DEF BPNext

\* The inductive invariant of the clocks holds of the search within a bound as it does
\* of dpor, for programs with locks too.
THEOREM BPClocksInvariant == BPSpec => []ClocksInv
<1>1. BPInit /\ BPInv => ClocksInv
    BY ClocksInvInit DEF BPInit, DporInit, BPInv
<1>2. ClocksInv /\ BPInv' /\ [BPNext]_bpVars => ClocksInv'
    BY BPIsClockStep, ClocksInvStep DEF BPInv
<1> QED
    BY <1>1, <1>2, BPInvariantHolds, PTL DEF BPSpec

\* The clocks that BoundPersistent finds its points with are the happens-before relation.
THEOREM BPClocksAreExact == BPSpec => []ClocksAreExact
<1>1. ClocksInv => ClocksAreExact
    BY DEF ClocksInv
<1> QED
    BY <1>1, BPClocksInvariant, PTL

\* The frontier follows the loop of update_state in the search within a bound.
THEOREM BPFrontierIsExact == BPSpec => []FrontierIsExact
<1>1. ClocksInv => FrontierIsExact
    BY DEF ClocksInv
<1> QED
    BY <1>1, BPClocksInvariant, PTL

\* VectorClock compares clocks of one size only in the search within a bound.
THEOREM BPClockSizesAgree == BPSpec => []ClockSizesAgree
    BY ExactClocksAgree, BPClocksInvariant, PTL

\* The assertions of dpor_base and HappensBefore hold in the search within a bound.
THEOREM BPAssertions == BPSpec => []DporAssertionsHold
<1>1. BPInv /\ ClocksInv => DporAssertionsHold
    BY StacksAreAligned DEF BPInv, ClocksInv
<1> QED
    BY <1>1, BPInvariantHolds, BPClocksInvariant, PTL

-----------------------------------------------------------------------------
(* The backtrack points *)

\* What max_dependent_per_thread finds for the next instruction of thread t: the last
\* dependent transitions of other threads, and no thread is left out of which a
\* dependent transition does not happen before t.
LEMMA PointsArePerThread ==
    ASSUME NEW p \in Programs, NEW e \in Seq(Transitions), IsExecution(p, e),
           NEW h, NEW threads, threads = ThreadsOf(p, e), NEW i \in 1 .. Len(e),
           ClocksFit(e, h, threads, i), NEW t \in Tids, HasNext(p, e[i].pre, t),
           NEW instr, instr = NextInstr(p, e[i].pre, t)
    PROVE  /\ \A m \in MaxDependentPerThread(e, h, i, instr) :
                  /\ m \in 1 .. i - 1 /\ e[m].instr.tid # t /\ Dependent(e[m].instr, instr)
                  /\ \A k \in 1 .. i - 1 :
                         Dependent(e[k].instr, instr) /\ e[k].instr.tid = e[m].instr.tid => k <= m
           /\ \A j \in 1 .. i - 1 :
                  Dependent(e[j].instr, instr) /\ NotBeforeThread(e, i, j, t) =>
                      \E m \in MaxDependentPerThread(e, h, i, instr) : e[m].instr.tid = e[j].instr.tid
<1>1. t \in threads /\ instr.tid = t
    BY NextIsOfExecution DEF NextInstr
<1>2. e[i].instr.tid = t => instr = e[i].instr
    BY TransitionIs
<1>3. PICK past, own, rest : /\ past = Past(e, i, instr) /\ own = ThreadPast(e, i, t)
                             /\ rest = past \ own
    OBVIOUS
<1>4. \A j : j \in rest <=> j \in Past(e, i, instr) /\ j \notin ThreadPast(e, i, t)
    BY <1>3
<1>5. /\ own \in SUBSET (1 .. i - 1) /\ rest \in SUBSET (1 .. i - 1) /\ rest \in SUBSET (1 .. i)
      /\ i \in Nat
      /\ \A j \in own : Before(e)[j] \subseteq own
      /\ \A k \in 1 .. i - 1 : e[k].instr.tid = t => k \in own
    <2>1. past \in SUBSET (1 .. i - 1)
        BY <1>3, PastIsClosed
    <2>2. 1 .. i - 1 \subseteq 1 .. i /\ i \in Nat
        OBVIOUS
    <2> QED
        BY <1>3, <2>1, <2>2, ThreadPastIsClosed
<1>6. PICK edges : edges = ThreadTransitiveReduction(e, h, t, ClockOf(e, h, i, instr))
    OBVIOUS
<1>7. edges = ClockOfSet(e, rest, threads)
    BY <1>1, <1>2, <1>4, <1>6, ReductionIs
<1>8. edges \in EdgesUpTo(e, threads, i)
    BY <1>5, <1>7, EdgesOfSet
<1>9. PICK points : points = MaxDependentPerThread(e, h, i, instr)
    OBVIOUS
<1>10. points = {m \in 1 .. i :
                    /\ Dependent(e[m].instr, instr)
                    /\ m <= edges[e[m].instr.tid]
                    /\ \A k \in 1 .. i :
                           (/\ Dependent(e[k].instr, instr) /\ k <= edges[e[k].instr.tid]
                            /\ e[k].instr.tid = e[m].instr.tid) => k <= m}
    BY <1>1, <1>6, <1>8, <1>9, MaxDependentPerThreadIs
<1>11. ASSUME NEW k \in 1 .. i
       PROVE  LET last == edges[e[k].instr.tid]
              IN  /\ last \in 0 .. i
                  /\ last # 0 => last \in rest /\ e[last].instr.tid = e[k].instr.tid
                  /\ \A j \in rest : e[j].instr.tid = e[k].instr.tid => j <= last
    <2>1. edges[e[k].instr.tid] = LastBy(e, rest, e[k].instr.tid)
        BY <1>7 DEF ClocksFit, ClockOfSet
    <2> QED
        BY <1>5, <2>1, LastByIs
<1>12. ASSUME NEW m \in points
       PROVE  /\ m \in 1 .. i - 1 /\ e[m].instr.tid # t /\ Dependent(e[m].instr, instr)
              /\ \A k \in 1 .. i - 1 :
                     Dependent(e[k].instr, instr) /\ e[k].instr.tid = e[m].instr.tid => k <= m
    <2>1. /\ m \in 1 .. i /\ Dependent(e[m].instr, instr) /\ m <= edges[e[m].instr.tid]
          /\ \A k \in 1 .. i :
                 (/\ Dependent(e[k].instr, instr) /\ k <= edges[e[k].instr.tid]
                  /\ e[k].instr.tid = e[m].instr.tid) => k <= m
        BY <1>10
    <2>2. PICK last : last = edges[e[m].instr.tid]
        OBVIOUS
    <2>3. last \in rest /\ e[last].instr.tid = e[m].instr.tid /\ last \in 1 .. i - 1 /\ m <= last
        BY <1>5, <1>11, <2>1, <2>2
    <2>4. e[m].instr.tid # t
        BY <1>3, <1>5, <2>3
    <2>5. ASSUME NEW k \in 1 .. i - 1, Dependent(e[k].instr, instr), e[k].instr.tid = e[m].instr.tid
          PROVE  k <= m
        <3>1. CASE k <= last
            BY <2>1, <2>2, <2>5, <3>1
        <3>2. CASE last < k
            <4>1. k \in Past(e, i, instr)
                BY <2>5 DEF Past
            <4>2. k \notin rest
                BY <1>11, <2>1, <2>2, <2>3, <2>5, <3>2
            <4>3. k \in own
                BY <1>3, <4>1, <4>2
            <4>4. last \in Before(e)[k]
                <5>1. k \in 1 .. Len(e) /\ last \in 1 .. k - 1
                    BY <2>3, <3>2
                <5> QED
                    BY <2>3, <2>5, <5>1, ThreadIsOrdered
            <4> QED
                BY <1>3, <1>5, <2>3, <4>3, <4>4
        <3> QED
            BY <2>3, <3>1, <3>2
    <2> QED
        BY <2>1, <2>3, <2>4, <2>5
<1>13. ASSUME NEW j \in 1 .. i - 1, Dependent(e[j].instr, instr), NotBeforeThread(e, i, j, t)
       PROVE  \E m \in points : e[m].instr.tid = e[j].instr.tid
    <2>1. PICK u : u = e[j].instr.tid
        OBVIOUS
    <2>2. PICK S : S = {k \in 1 .. i : /\ Dependent(e[k].instr, instr) /\ k <= edges[e[k].instr.tid]
                                       /\ e[k].instr.tid = u}
        OBVIOUS
    <2>3. j \in rest
        <3>1. j \in Past(e, i, instr)
            BY <1>13 DEF Past
        <3> QED
            BY <1>4, <1>13, <3>1 DEF ThreadPast
    <2>4. j \in S
        BY <1>5, <1>11, <1>13, <2>1, <2>2, <2>3
    <2>5. S \in SUBSET (0 .. i) /\ S # {}
        BY <1>5, <2>2, <2>4
    <2>6. PICK m \in S : \A k \in S : k <= m
        BY <1>5, <2>5, MaxIs
    <2>7. m \in points
        BY <1>10, <2>2, <2>6
    <2> QED
        BY <2>1, <2>2, <2>6, <2>7
<1> QED
    BY <1>9, <1>12, <1>13

\* Of every thread that a new transition races with there is a point, at the last
\* transition of it that matters: the reduction of the clock by the past of the thread
\* itself, which the code leaves as a to do, loses none.
THEOREM BPPointsAreFound == BPSpec => []PointsOfEachThread
<1>1. ASSUME ClocksInv
      PROVE  PointsOfEachThread
    <2> SUFFICES ASSUME JustUpdated, NEW t \in Tids, NEW u \in Tids,
                        HasNext(program, mExecution[index - 1].pre, t)
                 PROVE  LET js == DependentBy(mExecution, index - 1, t, u)
                            points == PointsAt(t, u)
                        IN  /\ points \subseteq {j \in js : t # u /\ \A k \in js : k <= j}
                            /\ (\E j \in js : NotBeforeThread(mExecution, index - 1, j, t)) => points # {}
        BY DEF PointsOfEachThread
    <2>1. PICK e, i : e = mExecution /\ i = index - 1
        OBVIOUS
    <2>2. /\ program \in Programs /\ e \in Seq(Transitions) /\ IsExecution(program, e)
          /\ i \in 1 .. Len(e) /\ Size(mHB) = ThreadsOf(program, e)
          /\ ClocksFit(e, mHB, Size(mHB), i)
        BY <1>1, <2>1, UpdatedFits
    <2>3. PICK instr : instr = NextInstr(program, e[i].pre, t)
        OBVIOUS
    <2>4. PICK found : found = MaxDependentPerThread(e, mHB, i, instr)
        OBVIOUS
    <2>5. /\ \A m \in found :
                 /\ m \in 1 .. i - 1 /\ e[m].instr.tid # t /\ Dependent(e[m].instr, instr)
                 /\ \A k \in 1 .. i - 1 :
                        Dependent(e[k].instr, instr) /\ e[k].instr.tid = e[m].instr.tid => k <= m
          /\ \A j \in 1 .. i - 1 :
                 Dependent(e[j].instr, instr) /\ NotBeforeThread(e, i, j, t) =>
                     \E m \in found : e[m].instr.tid = e[j].instr.tid
        BY <2>1, <2>2, <2>3, <2>4, PointsArePerThread
    <2>6. \A j : j \in PointsAt(t, u) <=> j \in found /\ e[j].instr.tid = u
        <3>1. PICK all : all = BPBacktrackPoints(program, e, mHB, i)
            OBVIOUS
        <3>2. ASSUME NEW point \in all, point.tid = t
              PROVE  point.index \in found
            <4>1. PICK v \in Tids : HasNext(program, e[i].pre, v)
                      /\ \E j \in MaxDependentPerThread(e, mHB, i, NextInstr(program, e[i].pre, v)) :
                             point = [tid |-> v, index |-> j]
                BY <3>1 DEF BPBacktrackPoints
            <4> QED
                BY <2>3, <2>4, <3>2, <4>1
        <3>3. ASSUME NEW j \in found
              PROVE  [tid |-> t, index |-> j] \in all
            <4>1. HasNext(program, e[i].pre, t)
                BY <2>1
            <4> QED
                BY <2>3, <2>4, <3>1, <4>1 DEF BPBacktrackPoints
        <3>4. PointsAt(t, u) = {point.index : point \in {q \in all : q.tid = t /\ e[q.index].instr.tid = u}}
            BY <2>1, <3>1 DEF PointsAt
        <3> QED
            BY <3>2, <3>3, <3>4
    <2>7. \A j : j \in DependentBy(e, i, t, u)
                     <=> j \in 1 .. i - 1 /\ e[j].instr.tid = u /\ Dependent(e[j].instr, instr)
        BY <2>3 DEF DependentBy
    <2> QED
        BY <2>1, <2>5, <2>6, <2>7
<1>2. ClocksInv => PointsOfEachThread
    BY <1>1
<1> QED
    BY <1>2, BPClocksInvariant, PTL

=============================================================================
