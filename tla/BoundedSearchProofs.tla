------------------------- MODULE BoundedSearchProofs -------------------------
(***************************************************************************)
(* Proofs about BoundedSearch: it is an Exploration, so that all that is   *)
(* proved of Exploration holds of it; its bound values are exact; and no   *)
(* execution it explores has more preemptions than the bound allows, for   *)
(* every bound, every number of threads, every program, and also when runs *)
(* leave no record.                                                        *)
(***************************************************************************)
EXTENDS BoundedEnumeration, ExplorationProofs

-----------------------------------------------------------------------------
(* Bounded search is an exploration *)

\* Every handler of the bounded search is that of the exploration, with a choice
\* of pool, of thread and of status that the exploration leaves open.
LEMMA BoundedNextIsNext ==
    ASSUME [BoundedNext]_boundedVars
    PROVE  [Next]_explorationVars
<1>1. CASE BoundedRun
    <2>1. NonPreemptive(recording, Enabled(program, Final(recording))) \subseteq Tids
        BY DEF NonPreemptive, Enabled
    <2> QED
        BY <1>1, <2>1 DEF BoundedRun, Next
<1>2. CASE BoundedScheduleNext
    <2>1. PICK next \in Tids : ScheduleNext(next) /\ next \in UndoneAfterPop
        BY <1>2 DEF BoundedScheduleNext
    <2> DEFINE pool == Pool(Front(mExecution), Front(boundState))
    <2>2. pool \in PoolOfReduction /\ next \in Undone(pool)
        BY <2>1 DEF Pool, PoolOfReduction, UndoneAfterPop
    <2> QED
        BY <2>1, <2>2 DEF Next
<1>3. CASE BoundedUpdateTransition \/ BoundedBacktrackFurther
    BY <1>3 DEF BoundedUpdateTransition, BoundedBacktrackFurther, Next
<1>4. CASE UNCHANGED boundedVars
    BY <1>4 DEF boundedVars
<1> QED
    BY <1>1, <1>2, <1>3, <1>4 DEF BoundedNext, Next

\* Bounded search implements the exploration with an arbitrary reduction: what
\* is proved of Exploration holds of it.
THEOREM BoundedSearchIsExploration == BoundedSpec => Spec
<1>1. BoundedInit => Init
    BY DEF BoundedInit
<1>2. [BoundedNext]_boundedVars => [Next]_explorationVars
    BY BoundedNextIsNext
<1> QED
    BY <1>1, <1>2, PTL DEF BoundedSpec, Spec

-----------------------------------------------------------------------------
(* Values of the bound *)

\* The bound is an integer, and the number of preemptions it allows a natural.
LEMMA AllowedType == BoundedTypeOK => mBoundValue \in Int /\ Allowed \in Nat
<1>1. ASSUME NEW u \in BoundOptions
      PROVE  ToInt(u) \in Int
    <2>1. u \in Int /\ 2 ^ IntWidth \in Int
        BY <1>1, BoundAssumption
    <2> QED
        BY <2>1 DEF ToInt
<1> QED
    BY <1>1 DEF BoundedTypeOK, mBoundValue, Allowed

\* The four things a step can do to the states of the bound and the execution.
LEMMA BoundedStepKinds ==
    ASSUME [BoundedNext]_boundedVars
    PROVE  \/ UNCHANGED <<mExecution, dfsState, boundOption, boundState>>
           \/ ReadRecord /\ UNCHANGED <<dfsState, boundOption, boundState>>
           \/ BoundedUpdateTransition
           \/ PopBack /\ boundState' = Front(boundState) /\ UNCHANGED boundOption
<1> DEFINE quiet == UNCHANGED <<boundOption, boundState>>
<1>1. CASE quiet /\ (StartRun \/ LimitReached \/ RecordMissing \/ RestoreTransition
                     \/ FinishUpdate \/ Exhausted \/ Terminated)
    BY <1>1 DEF StartRun, LimitReached, RecordMissing, RestoreTransition, FinishUpdate,
       Exhausted, Terminated, explorationVars
<1>2. CASE quiet /\ BoundedRun
    BY <1>2 DEF BoundedRun, ReplayScheduled, SelectThread, ProgramStep, RunEnds, RunFails
<1>3. CASE quiet /\ ReadRecord
    BY <1>3 DEF ReadRecord
<1>4. CASE BoundedScheduleNext \/ BoundedBacktrackFurther
    BY <1>4 DEF BoundedScheduleNext, BoundedBacktrackFurther, ScheduleNext, BacktrackFurther
<1>5. CASE UNCHANGED boundedVars
    BY <1>5 DEF boundedVars, explorationVars
<1> QED
    BY <1>1, <1>2, <1>3, <1>4, <1>5 DEF BoundedNext

\* The program and the bound are those of the start.
LEMMA ParametersAreFixed ==
    ASSUME [BoundedNext]_boundedVars
    PROVE  UNCHANGED <<program, boundOption>>
<1>1. [Next]_explorationVars
    BY BoundedNextIsNext
<1>2. program' = program
    BY <1>1 DEF Next, StartRun, LimitReached, ReplayScheduled, SelectThread, ProgramStep,
       RunEnds, RunFails, RecordMissing, ReadRecord, InvalidProgram, RestoreTransition,
       UpdateTransition, FinishUpdate, ScheduleNext, BacktrackFurther, PopBack,
       Exhausted, Terminated, explorationVars
<1>3. boundOption' = boundOption
    BY BoundedStepKinds DEF BoundedUpdateTransition
<1> QED
    BY <1>2, <1>3

-----------------------------------------------------------------------------
(* The inductive invariant, part by part *)

\* bound::update_state leaves the bound values so far and adds that of the new state.
LEMMA BoundUpdateIs ==
    ASSUME Inv, BoundedTypeOK, BoundAssertionsHold, BoundedUpdateTransition
    PROVE  /\ index \in Nat \ {0} /\ index <= Len(mExecution)
           /\ Len(boundState) = index
           /\ boundState' \in Seq(Nat)
           /\ Len(boundState') = index + 1
           /\ \A i \in 1 .. index : boundState'[i] = boundState[i]
           /\ boundState'[index + 1]
                 = Value(program, mExecution, boundState, index - 1, mExecution[index].instr.tid)
           /\ Len(dfsState') = index + 1
           /\ UNCHANGED <<program, mExecution, boundOption>>
<1> DEFINE v == Value(program, mExecution, boundState, index - 1, mExecution[index].instr.tid)
<1>1. /\ phase = "update" /\ index \in Nat \ {0} /\ index <= Len(mExecution) /\ index >= from
      /\ dfsState' = Append(dfsState, {}) /\ boundState' = Append(boundState, v)
      /\ UNCHANGED <<program, mExecution, boundOption>>
    BY DEF Inv, TypeOK, BoundedUpdateTransition, UpdateTransition
<1>2. Len(dfsState) = index /\ Len(boundState) = index
    BY <1>1 DEF Inv, TypeOK, SearchIsAligned, BoundAssertionsHold
<1>3. boundState[index] \in Nat
    BY <1>1, <1>2, ElementOfSeq DEF BoundedTypeOK
<1>4. v \in Nat
    BY <1>1, <1>3 DEF Value, StepValue
<1> HIDE DEF v
<1>5. /\ boundState' \in Seq(Nat)
      /\ Len(boundState') = index + 1
      /\ \A i \in 1 .. index : boundState'[i] = boundState[i]
      /\ boundState'[index + 1] = v
    BY <1>1, <1>2, <1>4, AppendIs DEF BoundedTypeOK
<1>6. Len(dfsState') = index + 1
    BY <1>1, <1>2, AppendIs DEF Inv, TypeOK
<1> QED
    BY <1>1, <1>2, <1>5, <1>6 DEF v

\* bound::pop_back drops the last bound value and no other.
LEMMA BoundPopIs ==
    ASSUME Inv, BoundedTypeOK, BoundAssertionsHold, PopBack, boundState' = Front(boundState)
    PROVE  /\ boundState' \in Seq(Nat)
           /\ Len(boundState) = Len(mExecution) + 1
           /\ Len(boundState') = Len(mExecution)
           /\ \A i \in 1 .. Len(mExecution) : boundState'[i] = boundState[i]
<1>1. Len(boundState) = Len(mExecution) + 1 /\ Len(mExecution) \in Nat
    BY PopBackIs DEF Inv, BoundAssertionsHold
<1>2. boundState # <<>>
    BY <1>1, EmptySeq
<1>3. /\ Front(boundState) \in Seq(Nat)
      /\ Len(Front(boundState)) = Len(boundState) - 1
      /\ \A i \in 1 .. Len(boundState) - 1 : Front(boundState)[i] = boundState[i]
    BY <1>2, FrontIs DEF BoundedTypeOK
<1> QED
    BY <1>1, <1>3

\* Bound values are naturals after every step.
LEMMA BoundedTypeStep ==
    ASSUME Inv, Inv', BoundedTypeOK, BoundAssertionsHold, [BoundedNext]_boundedVars
    PROVE  BoundedTypeOK' /\ BoundAssertionsHold'
<1>1. boundOption' \in BoundOptions /\ boundState' \in Seq(Nat) /\ Len(boundState') = Len(dfsState')
    <2>1. CASE UNCHANGED <<dfsState, boundOption, boundState>>
        BY <2>1 DEF BoundedTypeOK, BoundAssertionsHold
    <2>2. CASE BoundedUpdateTransition
        BY <2>2, BoundUpdateIs DEF BoundedTypeOK
    <2>3. CASE PopBack /\ boundState' = Front(boundState) /\ UNCHANGED boundOption
        <3>1. boundState' \in Seq(Nat) /\ Len(boundState') = Len(mExecution)
            BY <2>3, BoundPopIs
        <3>2. Len(dfsState') = Len(mExecution)
            BY <2>3, PopBackIs DEF Inv
        <3> QED
            BY <2>3, <3>1, <3>2 DEF BoundedTypeOK
    <2> QED
        BY <2>1, <2>2, <2>3, BoundedStepKinds
<1>2. TypeOK' /\ SearchIsAligned'
    BY DEF Inv
<1>3. phase' = "update" /\ index' >= from' => index' - 1 < Len(dfsState')
    BY <1>2 DEF TypeOK, SearchIsAligned
<1>4. BoundedTypeOK'
    BY <1>1, <1>2 DEF BoundedTypeOK
<1>5. BoundAssertionsHold'
    BY <1>1, <1>3 DEF BoundAssertionsHold
<1> QED
    BY <1>4, <1>5

\* Exactness of the bound values: updating adds an exact one, popping and
\* reading a record keep those of the prefix that stays.
LEMMA BoundValueIsExactStep ==
    ASSUME Inv, Inv', BoundedTypeOK, BoundAssertionsHold, BoundValueIsExact,
           [BoundedNext]_boundedVars
    PROVE  BoundValueIsExact'
<1>1. program' = program
    BY ParametersAreFixed
<1>2. mExecution \in Seq(Transitions) /\ mExecution' \in Seq(Transitions)
    BY DEF Inv, TypeOK
<1>3. Len(boundState) \in Nat /\ ValuesAreExact(program, mExecution, boundState)
    BY DEF BoundValueIsExact, ValuesAreExact, BoundedTypeOK
<1>4. CASE UNCHANGED <<mExecution, boundState>>
    BY <1>1, <1>4 DEF BoundValueIsExact
<1>5. CASE ReadRecord /\ UNCHANGED boundState
    <2>1. /\ Len(boundState) = Len(mExecution) + 1
          /\ Len(mExecution) <= Len(mExecution')
          /\ \A i \in 1 .. Len(mExecution) : mExecution'[i] = mExecution[i]
        BY <1>5 DEF Inv, SearchIsAligned, RecordExtendsSearch, BeforeUpdate, Running,
           BoundAssertionsHold, ReadRecord
    <2>2. ValuesAreExact(program, mExecution', boundState)
        BY <1>2, <1>3, <2>1, ValuesKept
    <2> QED
        BY <1>1, <1>5, <2>2 DEF BoundValueIsExact, ValuesAreExact
<1>6. CASE BoundedUpdateTransition
    <2>1. /\ index \in 1 .. Len(mExecution)
          /\ Len(boundState) = index /\ Len(boundState') = index + 1
          /\ \A i \in 1 .. index : boundState'[i] = boundState[i]
          /\ boundState'[index + 1]
                 = Value(program, mExecution, boundState, index - 1, mExecution[index].instr.tid)
          /\ mExecution' = mExecution
        BY <1>6, BoundUpdateIs
    <2>2. IsExecution(program, mExecution)
        BY DEF Inv, ExecutionsAreValid
    <2>3. ValuesAreExact(program, mExecution, boundState')
        BY <1>2, <1>3, <2>1, <2>2, ValuesExtended
    <2> QED
        BY <1>1, <2>1, <2>3 DEF BoundValueIsExact, ValuesAreExact
<1>7. CASE PopBack /\ boundState' = Front(boundState)
    <2>1. /\ Len(mExecution) \in Nat \ {0}
          /\ Len(mExecution') = Len(mExecution) - 1
          /\ \A i \in 1 .. Len(mExecution) - 1 : mExecution'[i] = mExecution[i]
          /\ Len(boundState) = Len(mExecution) + 1
          /\ Len(boundState') = Len(mExecution)
          /\ \A i \in 1 .. Len(mExecution) : boundState'[i] = boundState[i]
        BY <1>7, BoundPopIs, PopBackIs DEF Inv
    <2>2. ValuesAreExact(program, mExecution', boundState')
        BY <1>2, <1>3, <2>1, ValuesKept
    <2> QED
        BY <1>1, <2>2 DEF BoundValueIsExact, ValuesAreExact
<1> QED
    BY <1>4, <1>5, <1>6, <1>7, BoundedStepKinds

\* The thread that is scheduled next comes from the pool of the bound.
LEMMA NextIsWithinBoundStep ==
    ASSUME Inv, BoundedTypeOK, BoundAssertionsHold, NextIsWithin(boundState, Allowed),
           [BoundedNext]_boundedVars
    PROVE  NextIsWithin(boundState, Allowed)'
<1>1. Allowed' = Allowed /\ mBoundValue \in Int
    BY AllowedType, ParametersAreFixed DEF Allowed, mBoundValue, ToInt
<1>2. ASSUME phase \in BeforeUpdate, UNCHANGED <<program, mSchedule, mExecution, from, boundState>>
      PROVE  NextIsWithin(boundState, Allowed)'
    BY <1>1, <1>2 DEF NextIsWithin
<1>3. ASSUME phase' \notin BeforeUpdate
      PROVE  NextIsWithin(boundState, Allowed)'
    BY <1>3 DEF NextIsWithin, BeforeUpdate
<1> DEFINE quiet == UNCHANGED <<boundOption, boundState>>
<1>4. CASE quiet /\ (StartRun \/ LimitReached \/ RecordMissing)
    BY <1>2, <1>4 DEF StartRun, LimitReached, RecordMissing, BeforeUpdate
<1>5. CASE quiet /\ BoundedRun
    BY <1>2, <1>5 DEF BoundedRun, ReplayScheduled, SelectThread, ProgramStep, RunEnds, RunFails,
       BeforeUpdate
<1>6. CASE ReadRecord \/ RestoreTransition \/ BoundedUpdateTransition \/ FinishUpdate
           \/ BoundedBacktrackFurther
    BY <1>3, <1>6 DEF ReadRecord, RestoreTransition, BoundedUpdateTransition, UpdateTransition,
       FinishUpdate, BoundedBacktrackFurther, BacktrackFurther, PopBack, BeforeUpdate
<1>7. CASE BoundedScheduleNext
    <2>1. PICK next \in Tids : ScheduleNext(next) /\ next \in UndoneAfterPop
        BY <1>7 DEF BoundedScheduleNext
    <2> DEFINE pool == Pool(Front(mExecution), Front(boundState))
    <2>2. pool \in PoolOfReduction /\ next \in Undone(pool)
        BY <2>1 DEF Pool, PoolOfReduction, UndoneAfterPop
    <2>3. mSchedule'[from'] = next
        BY <2>1, <2>2, ScheduleNextIs DEF Inv
    <2>4. mExecution' = Front(mExecution) /\ boundState' = Front(boundState) /\ program' = program
        BY <1>7, <2>1 DEF BoundedScheduleNext, ScheduleNext, PopBack
    <2>5. Value(program, Front(mExecution), Front(boundState), Len(Front(mExecution)), next)
             <= mBoundValue
        BY <2>1 DEF UndoneAfterPop, Undone, Pool
    <2>6. Value(program, Front(mExecution), Front(boundState), Len(Front(mExecution)), next)
             <= Allowed
        <3> DEFINE n == Len(Front(mExecution))
        <3>1. /\ n = Len(mExecution) - 1 /\ Len(mExecution) \in Nat \ {0}
              /\ Front(boundState) \in Seq(Nat) /\ Len(Front(boundState)) = Len(mExecution)
            BY <1>7, <2>1, <2>4, BoundPopIs, PopBackIs
            DEF Inv, ScheduleNext, BoundedScheduleNext
        <3>2. Front(boundState)[n + 1] \in Nat
            BY <3>1, ElementOfSeq
        <3>3. Value(program, Front(mExecution), Front(boundState), n, next) \in Int
            BY <3>2 DEF Value, StepValue
        <3> QED
            BY <1>1, <2>5, <3>3 DEF Allowed
    <2> QED
        BY <1>1, <2>3, <2>4, <2>6 DEF NextIsWithin
<1>8. CASE Exhausted
    <2>1. mSchedule = <<>>
        BY <1>8, ScheduleIs, EmptySeq DEF Exhausted, Inv, SearchIsAligned, TypeOK
    <2> QED
        BY <1>3, <1>8, <2>1 DEF Exhausted, BeforeUpdate
<1>9. CASE (Terminated \/ UNCHANGED explorationVars) /\ quiet
    BY <1>1, <1>9 DEF Terminated, explorationVars, NextIsWithin
<1> QED
    BY <1>4, <1>5, <1>6, <1>7, <1>8, <1>9 DEF BoundedNext, boundedVars

\* The program under test runs as the lemmas about bounds demand.
LEMMA BoundedRunsNonPreemptively ==
    ASSUME [BoundedNext]_boundedVars
    PROVE  RunsNonPreemptively
<1>1. CASE BoundedRun
    BY <1>1 DEF BoundedRun, RunsNonPreemptively, RunEnds, RunFails
<1>2. CASE ~BoundedRun
    BY <1>2 DEF BoundedNext, RunsNonPreemptively, LimitReached, RecordMissing, ReadRecord,
       RestoreTransition, BoundedUpdateTransition, UpdateTransition, FinishUpdate,
       BoundedScheduleNext, ScheduleNext, BoundedBacktrackFurther, BacktrackFurther, PopBack,
       Exhausted, Terminated, boundedVars, explorationVars
<1> QED
    BY <1>1, <1>2

\* The run, the record and the execution stay within the bound.
LEMMA StaysWithinBound ==
    ASSUME BoundedInv, [BoundedNext]_boundedVars
    PROVE  RunIsWithin(Allowed)' /\ RecordIsWithin(Allowed)' /\ WithinBound'
<1>1. PICK k \in Nat : k = Allowed
    BY AllowedType DEF BoundedInv
<1>2. Allowed' = k
    BY <1>1, ParametersAreFixed DEF Allowed, mBoundValue, ToInt
<1>3. /\ Inv /\ [Next]_explorationVars /\ RunsNonPreemptively
      /\ Len(boundState) = Len(dfsState)
      /\ ValuesAreExact(program, mExecution, boundState)
    BY BoundedNextIsNext, BoundedRunsNonPreemptively
    DEF BoundedInv, BoundAssertionsHold, BoundValueIsExact, ValuesAreExact
<1>4. NextIsWithin(boundState, k) /\ RunIsWithin(k) /\ RecordIsWithin(k) /\ ExecutionIsWithin(k)
    BY <1>1 DEF BoundedInv, WithinBound, ExecutionIsWithin, Allowed
<1>5. RunIsWithin(k)'
    BY <1>3, <1>4, RunStaysWithin
<1>6. RecordIsWithin(k)'
    BY <1>3, <1>4, RecordStaysWithin
<1>7. ExecutionIsWithin(k)'
    BY <1>3, <1>4, ExecutionStaysWithin
<1>8. RunIsWithin(Allowed)' /\ RecordIsWithin(Allowed)'
    BY <1>2, <1>5, <1>6 DEF RunIsWithin, RecordIsWithin
<1>9. WithinBound'
    BY <1>2, <1>7 DEF WithinBound, ExecutionIsWithin, Allowed
<1> QED
    BY <1>8, <1>9

-----------------------------------------------------------------------------
(* The theorems *)

\* The invariant holds at the start.
LEMMA BoundedInvInit == BoundedInit => BoundedInv
<1> SUFFICES ASSUME BoundedInit
             PROVE  BoundedInv
    OBVIOUS
<1>1. Inv
    BY InvInit DEF BoundedInit
<1>2. /\ boundOption \in BoundOptions /\ boundState = <<0>> /\ dfsState = <<{}>>
      /\ phase = "loop" /\ mSchedule = <<>> /\ mExecution = <<>> /\ recording = <<>>
      /\ record.transitions = <<>>
    BY DEF BoundedInit, Init, NoRecord
<1>3. BoundedTypeOK
    BY <1>1, <1>2 DEF BoundedTypeOK, Inv
<1>4. BoundAssertionsHold
    BY <1>2 DEF BoundAssertionsHold
<1>5. PreemptionsOf(program, <<>>) = 0
    <2>1. <<>> \in Seq(Transitions) /\ Len(<<>>) <= 1
        BY EmptySeq
    <2> QED
        BY <2>1, NoPreemption
<1>6. BoundValueIsExact
    <2>1. \A i \in 1 .. Len(boundState) : i = 1 /\ boundState[i] = 0
        BY <1>2
    <2>2. SubSeq(mExecution, 1, 1 - 1) = <<>>
        BY SubSeqEmpty
    <2> QED
        BY <1>5, <2>1, <2>2 DEF BoundValueIsExact
<1>7. NextIsWithin(boundState, Allowed) /\ RunIsWithin(Allowed) /\ WithinBound
    BY <1>2 DEF NextIsWithin, RunIsWithin, WithinBound
<1>8. RecordIsWithin(Allowed)
    BY <1>2, <1>3, AllowedType, NothingIsWithin DEF RecordIsWithin
<1> QED
    BY <1>1, <1>3, <1>4, <1>6, <1>7, <1>8 DEF BoundedInv

\* Every step of bounded search preserves the invariant.
LEMMA BoundedInvStep == BoundedInv /\ [BoundedNext]_boundedVars => BoundedInv'
<1> SUFFICES ASSUME BoundedInv, [BoundedNext]_boundedVars
             PROVE  BoundedInv'
    OBVIOUS
<1>1. Inv'
    BY BoundedNextIsNext, InvStep DEF BoundedInv
<1>2. BoundedTypeOK' /\ BoundAssertionsHold'
    BY <1>1, BoundedTypeStep DEF BoundedInv
<1>3. BoundValueIsExact'
    BY <1>1, BoundValueIsExactStep DEF BoundedInv
<1>4. NextIsWithin(boundState, Allowed)'
    BY NextIsWithinBoundStep DEF BoundedInv
<1>5. RunIsWithin(Allowed)' /\ RecordIsWithin(Allowed)' /\ WithinBound'
    BY StaysWithinBound
<1> QED
    BY <1>1, <1>2, <1>3, <1>4, <1>5 DEF BoundedInv

\* The inductive invariant of bounded search.
THEOREM BoundedInvariantHolds == BoundedSpec => []BoundedInv
    BY BoundedInvInit, BoundedInvStep, PTL DEF BoundedSpec

\* The states of the bound stay aligned with those of the search.
THEOREM BoundAssertions == BoundedSpec => []BoundAssertionsHold
<1>1. BoundedInv => BoundAssertionsHold
    BY DEF BoundedInv
<1> QED
    BY <1>1, BoundedInvariantHolds, PTL

\* Bound values computed incrementally are numbers of preemptions.
THEOREM BoundValuesAreExact == BoundedSpec => []BoundValueIsExact
<1>1. BoundedInv => BoundValueIsExact
    BY DEF BoundedInv
<1> QED
    BY <1>1, BoundedInvariantHolds, PTL

\* No execution with more preemptions than the bound is explored.
THEOREM ExploredWithinBound == BoundedSpec => []WithinBound
<1>1. BoundedInv => WithinBound
    BY DEF BoundedInv
<1> QED
    BY <1>1, BoundedInvariantHolds, PTL

\* Bounded search never explores a schedule twice.
THEOREM BoundedNoRepetition == BoundedSpec => NoScheduleTwice
    BY BoundedSearchIsExploration, NoRepetition

-----------------------------------------------------------------------------
(* The enumeration of the executions within the bound *)

\* ExecutionsWithin, free of the reference enumeration.
LEMMA WithinAre ==
    ASSUME program \in Programs
    PROVE  /\ ExecutionsWithin = {e \in Seq(Transitions) :
                                     /\ IsExecution(program, e)
                                     /\ Enabled(program, Final(e)) = {}
                                     /\ PreemptionsOf(program, e) <= mBoundValue}
           /\ SchedulesWithin(mBoundValue) = {ScheduleOf(e) : e \in ExecutionsWithin}
           /\ IsFiniteSet(SchedulesWithin(mBoundValue))
<1> DEFINE maximal(p) == {e \in ExecutionsOf(p) : Enabled(p, Final(e)) = {}}
           within == {e \in maximal(program) : PreemptionsOf(program, e) <= mBoundValue}
<1>1. MaximalExecutions = UNION {{[program |-> p, execution |-> e] : e \in maximal(p)} : p \in Programs}
    BY DEF MaximalExecutions
<1>2. {m \in MaximalExecutions : m.program = program}
          = {[program |-> program, execution |-> e] : e \in maximal(program)}
    <2> HIDE DEF maximal
    <2>1. ASSUME NEW p \in Programs, NEW e \in maximal(p)
          PROVE  [program |-> p, execution |-> e].program = p
        OBVIOUS
    <2> QED
        BY <1>1, <2>1
<1>3. ExecutionsWithin = within
    <2> DEFINE ours == {[program |-> program, execution |-> e] : e \in maximal(program)}
    <2>1. ExecutionsWithin = {m.execution : m \in {x \in {y \in MaximalExecutions : y.program = program} :
                                                     PreemptionsOf(program, x.execution) <= mBoundValue}}
        BY DEF ExecutionsWithin
    <2>2. ExecutionsWithin = {m.execution : m \in {x \in ours :
                                                     PreemptionsOf(program, x.execution) <= mBoundValue}}
        BY <1>2, <2>1
    <2> HIDE DEF maximal
    <2>3. \A e \in maximal(program) : [program |-> program, execution |-> e].execution = e
        OBVIOUS
    <2> QED
        BY <2>2, <2>3
<1>4. ExecutionsWithin = {e \in Seq(Transitions) :
                             /\ IsExecution(program, e)
                             /\ Enabled(program, Final(e)) = {}
                             /\ PreemptionsOf(program, e) <= mBoundValue}
    BY <1>3, ExecutionsAre
<1> DEFINE entry(m) == [program     |-> m.program,
                        schedule    |-> ScheduleOf(m.execution),
                        preemptions |-> PreemptionsOf(m.program, m.execution)]
<1>5. SchedulesWithin(mBoundValue) = {ScheduleOf(e) : e \in within}
    <2>1. MaximalSchedules = {entry(m) : m \in MaximalExecutions}
        BY DEF MaximalSchedules
    <2>2. ASSUME NEW m \in MaximalExecutions
          PROVE  /\ entry(m).program = m.program
                 /\ entry(m).schedule = ScheduleOf(m.execution)
                 /\ entry(m).preemptions = PreemptionsOf(m.program, m.execution)
        OBVIOUS
    <2> HIDE DEF entry
    <2>3. SchedulesWithin(mBoundValue)
              = {ScheduleOf(m.execution) :
                    m \in {x \in MaximalExecutions : /\ x.program = program
                                                     /\ PreemptionsOf(x.program, x.execution) <= mBoundValue}}
        BY <2>1, <2>2 DEF SchedulesWithin
    <2>4. SchedulesWithin(mBoundValue) = {ScheduleOf(e) : e \in ExecutionsWithin}
        BY <2>3 DEF ExecutionsWithin
    <2> QED
        BY <1>3, <2>4
<1>6. IsFiniteSet(SchedulesWithin(mBoundValue))
    <2> DEFINE schedule == [e \in within |-> ScheduleOf(e)]
    <2>1. IsFiniteSet(within)
        BY ExecutionsAreFinite, FS_Subset
    <2>2. schedule \in Surjection(within, {ScheduleOf(e) : e \in within})
        BY DEF Surjection
    <2> HIDE DEF schedule, within
    <2> QED
        BY <1>5, <2>1, <2>2, FS_Surjection
<1> QED
    BY <1>3, <1>4, <1>5, <1>6

\* The executions to go through are chosen at the start.
LEMMA WithinIsFixed ==
    ASSUME [BoundedNext]_boundedVars
    PROVE  /\ UNCHANGED <<program, mBoundValue, ExecutionsWithin>>
           /\ SchedulesWithin(mBoundValue)' = SchedulesWithin(mBoundValue)
    BY ParametersAreFixed DEF mBoundValue, ExecutionsWithin, SchedulesWithin

\* What comes after a prefix is performed in the state the prefix ends in.
LEMMA StateAfterPrefix ==
    ASSUME NEW e \in Seq(Transitions), NEW f \in Seq(Transitions), SharesPrefix(f, e, Len(e))
    PROVE  StateBefore(f, Len(e) + 1) = Final(e)
<1>1. CASE e = <<>>
    BY <1>1, EmptySeq DEF StateBefore, Final
<1>2. CASE e # <<>>
    <2>1. Len(e) \in 1 .. Len(e) /\ Last(e) = e[Len(e)]
        BY <1>2, LastIs
    <2> QED
        BY <1>2, <2>1 DEF StateBefore, Final, SharesPrefix
<1> QED
    BY <1>1, <1>2

\* Nothing goes on after a maximal execution.
LEMMA MaximalIsWhole ==
    ASSUME NEW p, NEW e \in Seq(Transitions), NEW f \in Seq(Transitions), IsExecution(p, f),
           SharesPrefix(f, e, Len(e)), Enabled(p, Final(e)) = {}
    PROVE  f = e
<1>1. Len(e) \in Nat /\ Len(f) \in Nat /\ Len(f) >= Len(e)
    BY DEF SharesPrefix
<1>2. Len(f) = Len(e)
    <2> SUFFICES ASSUME Len(e) + 1 \in 1 .. Len(f)
                 PROVE  FALSE
        BY <1>1
    <2>1. f[Len(e) + 1].instr.tid \in Enabled(p, StateBefore(f, Len(e) + 1))
        BY DEF IsExecution
    <2> QED
        BY <2>1, StateAfterPrefix
<1> QED
    BY <1>2, SeqEqual DEF SharesPrefix

\* A run is recorded when it cannot go on, and the search follows the record.
LEMMA RunsAreMaximalStep ==
    ASSUME RunsAreMaximal, [BoundedNext]_boundedVars
    PROVE  RunsAreMaximal'
<1>1. program' = program
    BY ParametersAreFixed
<1>2. CASE Enabled(program, Final(recording)) = {} /\ RunEnds("DONE")
    BY <1>1, <1>2 DEF RunEnds, RunsAreMaximal
<1>3. CASE ReadRecord
    BY <1>1, <1>3 DEF ReadRecord, RunsAreMaximal
<1>4. CASE FinishUpdate
    BY <1>1, <1>4 DEF FinishUpdate, RunsAreMaximal
<1>5. CASE RestoreTransition \/ UpdateTransition
    BY <1>1, <1>5 DEF RestoreTransition, UpdateTransition, RunsAreMaximal
<1>6. ASSUME UNCHANGED record, phase' # "update" \/ UNCHANGED <<phase, mExecution, mSchedule, schedules>>
      PROVE  RunsAreMaximal'
    BY <1>1, <1>6 DEF RunsAreMaximal
<1>7. CASE \/ StartRun \/ LimitReached \/ ReplayScheduled \/ RunFails \/ RecordMissing
           \/ (\E t \in NonPreemptive(recording, Enabled(program, Final(recording))) : SelectThread(t))
    BY <1>6, <1>7 DEF StartRun, LimitReached, ReplayScheduled, SelectThread, ProgramStep, RunFails,
       RecordMissing
<1>8. CASE \/ BoundedScheduleNext \/ BoundedBacktrackFurther \/ Exhausted \/ Terminated
           \/ UNCHANGED boundedVars
    BY <1>6, <1>8 DEF BoundedScheduleNext, ScheduleNext, BoundedBacktrackFurther, BacktrackFurther,
       PopBack, Exhausted, Terminated, boundedVars, explorationVars
<1> QED
    BY <1>2, <1>3, <1>4, <1>5, <1>7, <1>8 DEF BoundedNext, BoundedRun, BoundedUpdateTransition

\* When the search leaves an execution, the thread that was last is done there: it
\* has been explored with all that begins as the execution does.
LEMMA DoneIsExploredPop ==
    ASSUME Inv, DoneIsExplored, BacktrackIsExplored, [BoundedNext]_boundedVars, PopBack
    PROVE  DoneIsExplored'
<1> DEFINE n == Len(mExecution)
<1>1. /\ n \in Nat \ {0}
      /\ Len(mExecution') = n - 1
      /\ \A i \in 1 .. n - 1 : mExecution'[i] = mExecution[i]
      /\ Len(dfsState') = n
      /\ Len(dfsState) = n + 1
    BY PopBackIs DEF Inv
<1>2. /\ \A i \in 1 .. n - 1 : dfsState'[i] = dfsState[i]
      /\ dfsState'[n] = dfsState[n] \cup {mExecution[n].instr.tid}
    BY PopBackIs DEF Inv
<1>3. phase = "backtrack" /\ schedules' = schedules /\ ExecutionsWithin' = ExecutionsWithin
    BY WithinIsFixed DEF PopBack
<1> SUFFICES ASSUME NEW e \in ExecutionsWithin, NEW i \in 1 .. n, i <= Len(e),
                    SharesPrefix(e, mExecution', i - 1), e[i].instr.tid \in dfsState'[i]
             PROVE  ScheduleOf(e) \in schedules
    BY <1>1, <1>3 DEF DoneIsExplored
<1>4. e \in Seq(Transitions) /\ IsExecution(program, e)
    BY WithinAre DEF Inv, TypeOK
<1>5. \A j \in 1 .. i - 1 : e[j] = mExecution[j]
    BY <1>1 DEF SharesPrefix
<1>6. CASE e[i].instr.tid \in dfsState[i]
    <2>1. SharesPrefix(e, mExecution, i - 1)
        BY <1>4, <1>5 DEF SharesPrefix
    <2>2. phase \in Running /\ i \in 1 .. Len(dfsState) /\ i - 1 <= Len(mExecution)
        BY <1>1, <1>3 DEF Running
    <2> QED
        BY <1>6, <2>1, <2>2 DEF DoneIsExplored
<1>7. CASE i = n /\ e[n].instr.tid = mExecution[n].instr.tid
    <2>1. e[n] = mExecution[n]
        <3>1. /\ n \in 1 .. Len(e) /\ n \in 1 .. Len(mExecution)
              /\ \A j \in 1 .. n - 1 : e[j] = mExecution[j]
            BY <1>1, <1>4, <1>5, <1>7
        <3>2. IsExecution(program, mExecution)
            BY DEF Inv, ExecutionsAreValid
        <3> HIDE DEF n
        <3> QED
            BY <1>4, <1>7, <3>1, <3>2, SameThreadSameTransition
    <2>2. SharesPrefix(e, mExecution, n)
        BY <1>1, <1>4, <1>5, <1>7, <2>1 DEF SharesPrefix
    <2> QED
        BY <1>3, <2>2 DEF BacktrackIsExplored
<1> QED
    BY <1>1, <1>2, <1>6, <1>7

\* What is done stays explored; the states that are added have nothing done yet.
LEMMA DoneIsExploredStep ==
    ASSUME Inv, DoneIsExplored, BacktrackIsExplored, [BoundedNext]_boundedVars
    PROVE  DoneIsExplored'
<1>1. ExecutionsWithin' = ExecutionsWithin
    BY WithinIsFixed
<1>2. ASSUME UNCHANGED <<mExecution, dfsState, schedules>>, phase' \in Running => phase \in Running
      PROVE  DoneIsExplored'
    BY <1>1, <1>2 DEF DoneIsExplored
<1>3. CASE ReadRecord
    <2>1. /\ phase \in Running /\ dfsState' = dfsState /\ schedules \subseteq schedules'
          /\ \A i \in 1 .. Len(mExecution) : mExecution'[i] = mExecution[i]
          /\ Len(dfsState) = Len(mExecution) + 1
          /\ Len(mExecution) \in Nat
        BY <1>3 DEF ReadRecord, Inv, TypeOK, SearchIsAligned, RecordExtendsSearch, BeforeUpdate, Running
    <2> SUFFICES ASSUME NEW e \in ExecutionsWithin, NEW i \in 1 .. Len(dfsState), i <= Len(e),
                        SharesPrefix(e, mExecution', i - 1), e[i].instr.tid \in dfsState[i]
                 PROVE  ScheduleOf(e) \in schedules
        BY <1>1, <2>1 DEF DoneIsExplored
    <2>2. SharesPrefix(e, mExecution, i - 1) /\ i - 1 <= Len(mExecution)
        BY <2>1 DEF SharesPrefix
    <2> QED
        BY <2>1, <2>2 DEF DoneIsExplored
<1>4. CASE UpdateTransition
    <2>1. /\ phase \in Running /\ UNCHANGED <<mExecution, schedules>>
          /\ Len(dfsState') = Len(dfsState) + 1
          /\ \A i \in 1 .. Len(dfsState) : dfsState'[i] = dfsState[i]
          /\ dfsState'[Len(dfsState) + 1] = {}
          /\ Len(dfsState) \in Nat
        BY <1>4, AppendIs DEF UpdateTransition, Inv, TypeOK, Running
    <2> SUFFICES ASSUME NEW e \in ExecutionsWithin, NEW i \in 1 .. Len(dfsState'), i <= Len(e),
                        i - 1 <= Len(mExecution),
                        SharesPrefix(e, mExecution, i - 1), e[i].instr.tid \in dfsState'[i]
                 PROVE  ScheduleOf(e) \in schedules
        BY <1>1, <2>1 DEF DoneIsExplored
    <2>2. i \in 1 .. Len(dfsState) /\ e[i].instr.tid \in dfsState[i]
        BY <2>1
    <2> QED
        BY <2>1, <2>2 DEF DoneIsExplored
<1>5. CASE BoundedScheduleNext \/ BoundedBacktrackFurther
    BY <1>5, DoneIsExploredPop DEF BoundedScheduleNext, ScheduleNext, BoundedBacktrackFurther,
       BacktrackFurther
<1>6. CASE StartRun \/ LimitReached \/ BoundedRun \/ RecordMissing \/ RestoreTransition
           \/ FinishUpdate \/ Exhausted \/ Terminated \/ UNCHANGED boundedVars
    BY <1>2, <1>6 DEF StartRun, LimitReached, BoundedRun, ReplayScheduled, SelectThread, ProgramStep,
       RunEnds, RunFails, RecordMissing, RestoreTransition, FinishUpdate, Exhausted, Terminated,
       boundedVars, explorationVars, Running
<1> QED
    BY <1>3, <1>4, <1>5, <1>6 DEF BoundedNext, BoundedUpdateTransition

\* When nothing is left to take after the shorter execution, all executions that
\* begin as it does have been explored: one within the bound goes on with a thread
\* of the pool, and that one is done there.
LEMMA BacktrackIsExploredPop ==
    ASSUME BoundedInv, DoneIsExplored', BoundedBacktrackFurther
    PROVE  BacktrackIsExplored'
<1> DEFINE n == Len(mExecution)
           e0 == Front(mExecution)
           S0 == Front(boundState)
<1>1. [BoundedNext]_boundedVars /\ PopBack /\ boundState' = S0
    BY DEF BoundedNext, BoundedBacktrackFurther, BacktrackFurther
<1>2. Inv /\ BoundedTypeOK /\ BoundAssertionsHold
    BY DEF BoundedInv
<1>3. /\ phase' = "backtrack" /\ mExecution' = e0 /\ dfsState' = PoppedDfsState
      /\ UNCHANGED <<schedules, ExecutionsWithin>>
    BY <1>1, WithinIsFixed DEF BoundedBacktrackFurther, BacktrackFurther, PopBack
<1>4. /\ n \in Nat \ {0} /\ Len(e0) = n - 1
      /\ \A i \in 1 .. n - 1 : e0[i] = mExecution[i]
      /\ Len(dfsState') = n
    BY <1>1, <1>2, <1>3, PopBackIs DEF Inv
<1>5. /\ Len(S0) = n
      /\ \A i \in 1 .. n : S0[i] = boundState[i]
    BY <1>1, <1>2, BoundPopIs
<1> SUFFICES ASSUME NEW e \in ExecutionsWithin, SharesPrefix(e, e0, n - 1)
             PROVE  ScheduleOf(e) \in schedules
    BY <1>3, <1>4 DEF BacktrackIsExplored
<1>6. /\ e \in Seq(Transitions) /\ IsExecution(program, e) /\ Enabled(program, Final(e)) = {}
      /\ PreemptionsOf(program, e) <= mBoundValue
    BY <1>2, WithinAre DEF Inv, TypeOK
<1>7. /\ mExecution \in Seq(Transitions) /\ IsExecution(program, mExecution) /\ program \in Programs
      /\ mExecution # <<>> /\ e0 \in Seq(Transitions)
    BY <1>1, <1>2, FrontIs DEF Inv, TypeOK, ExecutionsAreValid, PopBack
<1>8. Len(e) >= n - 1 /\ \A i \in 1 .. n - 1 : e[i] = e0[i]
    BY DEF SharesPrefix
<1>9. \A f \in Seq(Transitions) : SharesPrefix(f, e0, n - 1) => StateBefore(f, n) = Final(e0)
    BY <1>4, <1>7, StateAfterPrefix
<1>10. Len(e) >= n
    <2> SUFFICES ASSUME Len(e) = n - 1
                 PROVE  FALSE
        BY <1>4, <1>6, <1>8
    <2> HIDE DEF e0
    <2>1. e = e0
        BY <1>4, <1>6, <1>7, <1>8, SeqEqual
    <2>2. mExecution[n].instr.tid \in Enabled(program, StateBefore(mExecution, n))
        BY <1>4, <1>7 DEF IsExecution
    <2>3. StateBefore(mExecution, n) = Final(e0)
        BY <1>4, <1>7, <1>9 DEF SharesPrefix
    <2> QED
        BY <1>6, <2>1, <2>2, <2>3
<1> DEFINE t == e[n].instr.tid
<1>11. t \in Enabled(program, Final(e0))
    <2>1. t \in Enabled(program, StateBefore(e, n))
        BY <1>4, <1>6, <1>10 DEF IsExecution
    <2> HIDE DEF e0
    <2> QED
        BY <1>6, <1>8, <1>9, <1>10, <2>1
<1>12. Value(program, e0, S0, n - 1, t) <= mBoundValue
    <2> DEFINE f == SubSeq(e, 1, n)
    <2>1. f \in Seq(Transitions) /\ Len(f) = n /\ \A i \in 1 .. n : f[i] = e[i]
        BY <1>4, <1>6, <1>10
    <2> HIDE DEF f
    <2>2. S0[n - 1 + 1] = PreemptionsOf(program, SubSeq(e0, 1, n - 1))
        <3>1. SubSeq(e0, 1, n - 1) = SubSeq(mExecution, 1, n - 1)
            <4> HIDE DEF e0
            <4>1. n - 1 \in Nat /\ n - 1 <= Len(e0) /\ n - 1 <= Len(mExecution)
                BY <1>4
            <4> QED
                BY <1>4, <1>7, <4>1, SamePrefix
        <3>2. boundState[n] = PreemptionsOf(program, SubSeq(mExecution, 1, n - 1))
            <4>1. n \in 1 .. Len(boundState) /\ n - 1 <= Len(mExecution)
                BY <1>1, <1>2, <1>4, BoundPopIs
            <4> QED
                BY <4>1 DEF BoundedInv, BoundValueIsExact
        <3>3. S0[n] = boundState[n] /\ n - 1 + 1 = n
            BY <1>4, <1>5
        <3> QED
            BY <3>1, <3>2, <3>3
    <2>3. n # 1 => f[n - 1 + 1].pre = e0[n - 1].post
        <3> SUFFICES ASSUME n # 1
                     PROVE  f[n].pre = e0[n - 1].post
            BY <1>4
        <3>1. n \in 1 .. Len(e) /\ n \in 1 .. n /\ n - 1 \in 1 .. n - 1
            BY <1>4, <1>6, <1>10
        <3>2. e[n].pre = e[n - 1].post
            BY <1>6, <3>1, PreIsStateBefore DEF StateBefore
        <3> QED
            BY <1>8, <2>1, <3>1, <3>2
    <2>4. PreemptionsOf(program, f) = Value(program, e0, S0, n - 1, f[n - 1 + 1].instr.tid)
        <3> HIDE DEF e0, S0
        <3>1. /\ n - 1 \in 0 .. Len(e0) /\ Len(f) = n - 1 + 1
              /\ \A i \in 1 .. n - 1 : f[i] = e0[i]
              /\ n - 1 # 0 => f[n - 1 + 1].pre = e0[n - 1].post
            BY <1>4, <1>8, <2>1, <2>3
        <3> QED
            BY <1>7, <2>1, <2>2, <3>1, ValueIsExact, SMTT(30)
    <2>5. f[n - 1 + 1].instr.tid = t
        BY <1>4, <2>1
    <2>6. PreemptionsOf(program, f) <= PreemptionsOf(program, e)
        BY <1>6, <1>10, <2>1, PreemptionsOfPrefix
    <2>7. PreemptionsOf(program, f) \in Nat /\ PreemptionsOf(program, e) \in Nat /\ mBoundValue \in Int
        BY <1>2, <1>6, <2>1, PreemptionsOfType, AllowedType
    <2> HIDE DEF e0, S0, t
    <2> QED
        BY <1>6, <2>4, <2>5, <2>6, <2>7
<1>13. t \in dfsState'[n]
    <2>1. t \in Pool(e0, S0)
        BY <1>4, <1>11, <1>12 DEF Pool
    <2>2. Pool(e0, S0) \subseteq Last(PoppedDfsState)
        BY DEF BoundedBacktrackFurther, UndoneAfterPop, Undone
    <2>3. Last(PoppedDfsState) = dfsState'[n]
        BY <1>3, <1>4 DEF Last
    <2> QED
        BY <2>1, <2>2, <2>3
<1> HIDE DEF e0, S0, t
<1>14. SharesPrefix(e, mExecution', n - 1)
    BY <1>3
<1> QED
    BY <1>3, <1>4, <1>10, <1>13, <1>14 DEF DoneIsExplored, Running, t

\* The search has explored all executions that begin as the one it leaves: that is
\* one execution when the update ends, and more of them with every pop.
LEMMA BacktrackIsExploredStep ==
    ASSUME BoundedInv, RunsAreMaximal, DoneIsExplored', BacktrackIsExplored,
           [BoundedNext]_boundedVars
    PROVE  BacktrackIsExplored'
<1>1. ExecutionsWithin' = ExecutionsWithin
    BY WithinIsFixed
<1>2. Inv /\ TypeOK
    BY DEF BoundedInv, Inv
<1>3. CASE FinishUpdate
    <2>1. /\ phase' = "backtrack" /\ UNCHANGED <<mExecution, schedules>>
          /\ Enabled(program, Final(mExecution)) = {}
          /\ ScheduleOf(mExecution) \in schedules
        BY <1>2, <1>3 DEF FinishUpdate, RunsAreMaximal, Inv, SearchIsAligned
    <2> SUFFICES ASSUME NEW e \in ExecutionsWithin, SharesPrefix(e, mExecution, Len(mExecution))
                 PROVE  ScheduleOf(e) \in schedules
        BY <1>1, <2>1 DEF BacktrackIsExplored
    <2>2. e \in Seq(Transitions) /\ IsExecution(program, e)
        BY <1>2, WithinAre DEF TypeOK
    <2>3. e = mExecution
        BY <1>2, <2>1, <2>2, MaximalIsWhole DEF TypeOK
    <2> QED
        BY <2>1, <2>3
<1>4. CASE Exhausted
    <2>1. /\ phase = "backtrack" /\ phase' \in {"done", "loop"}
          /\ mExecution = <<>> /\ schedules' = schedules
        BY <1>4 DEF Exhausted
    <2> SUFFICES ASSUME NEW e \in ExecutionsWithin
                 PROVE  ScheduleOf(e) \in schedules
        BY <1>1, <2>1 DEF BacktrackIsExplored
    <2>2. e \in Seq(Transitions)
        BY <1>2, WithinAre DEF TypeOK
    <2>3. SharesPrefix(e, mExecution, Len(mExecution))
        BY <2>1, <2>2 DEF SharesPrefix
    <2> QED
        BY <2>1, <2>3 DEF BacktrackIsExplored
<1>5. CASE BoundedBacktrackFurther
    BY <1>5, BacktrackIsExploredPop
<1>6. ASSUME phase' \notin {"backtrack", "done"} \/ UNCHANGED <<phase, mExecution, schedules>>
      PROVE  BacktrackIsExplored'
    BY <1>1, <1>6 DEF BacktrackIsExplored
<1>7. CASE \/ StartRun \/ LimitReached \/ BoundedRun \/ RecordMissing \/ ReadRecord
           \/ RestoreTransition \/ BoundedUpdateTransition
    BY <1>6, <1>7 DEF StartRun, LimitReached, BoundedRun, ReplayScheduled, SelectThread, ProgramStep,
       RunEnds, RunFails, RecordMissing, ReadRecord, RestoreTransition, BoundedUpdateTransition,
       UpdateTransition
<1>8. CASE BoundedScheduleNext \/ Terminated \/ UNCHANGED boundedVars
    BY <1>6, <1>8 DEF BoundedScheduleNext, ScheduleNext, Terminated, boundedVars, explorationVars
<1> QED
    BY <1>3, <1>4, <1>5, <1>7, <1>8 DEF BoundedNext

\* What is logged is a maximal execution within the bound, if that is a number.
LEMMA LoggedIsWithin ==
    ASSUME BoundedInv, RunsAreMaximal, ReadRecord, mBoundValue >= 0
    PROVE  ScheduleOf(record.transitions) \in SchedulesWithin(mBoundValue)
<1>1. /\ program \in Programs
      /\ record.transitions \in Seq(Transitions)
      /\ IsExecution(program, record.transitions)
    BY DEF BoundedInv, Inv, TypeOK, ExecutionsAreValid
<1>2. Enabled(program, Final(record.transitions)) = {}
    BY DEF RunsAreMaximal, ReadRecord
<1>3. PreemptionsOf(program, record.transitions) <= mBoundValue
    BY AllowedType DEF BoundedInv, RecordIsWithin, Allowed
<1> QED
    BY <1>1, <1>2, <1>3, WithinAre

\* Before the first run nothing is done.
LEMMA EnumerationInvInit == BoundedInit => EnumerationInv
<1> SUFFICES ASSUME BoundedInit
             PROVE  EnumerationInv
    OBVIOUS
<1>1. /\ phase = "loop" /\ record = NoRecord /\ schedules = {} /\ dfsState = <<{}>>
    BY DEF BoundedInit, Init
<1>2. Len(dfsState) = 1 /\ dfsState[1] = {}
    BY <1>1
<1> QED
    BY <1>1, <1>2 DEF EnumerationInv, RunsAreMaximal, DoneIsExplored, BacktrackIsExplored

\* EnumerationInv, over all actions.
LEMMA EnumerationInvStep ==
    BoundedInv /\ EnumerationInv /\ [BoundedNext]_boundedVars => EnumerationInv'
<1> SUFFICES ASSUME BoundedInv, EnumerationInv, [BoundedNext]_boundedVars
             PROVE  EnumerationInv'
    OBVIOUS
<1>1. RunsAreMaximal'
    BY RunsAreMaximalStep DEF EnumerationInv
<1>2. DoneIsExplored'
    BY DoneIsExploredStep DEF EnumerationInv, BoundedInv
<1>3. BacktrackIsExplored'
    BY <1>2, BacktrackIsExploredStep DEF EnumerationInv
<1>4. ASSUME mBoundValue' >= 0
      PROVE  schedules' \subseteq SchedulesWithin(mBoundValue)'
    <2>1. /\ mBoundValue >= 0 /\ schedules \subseteq SchedulesWithin(mBoundValue)
          /\ SchedulesWithin(mBoundValue)' = SchedulesWithin(mBoundValue)
        BY <1>4, WithinIsFixed DEF EnumerationInv
    <2>2. CASE ReadRecord
        BY <2>1, <2>2, LoggedIsWithin DEF EnumerationInv, ReadRecord
    <2>3. CASE ~ReadRecord
        <3>1. schedules' = schedules
            BY <2>3 DEF BoundedNext, BoundedRun, BoundedUpdateTransition, BoundedScheduleNext,
               BoundedBacktrackFurther, StartRun, LimitReached, ReplayScheduled, SelectThread,
               ProgramStep, RunEnds, RunFails, RecordMissing, RestoreTransition, UpdateTransition,
               FinishUpdate, ScheduleNext, BacktrackFurther, PopBack, Exhausted, Terminated,
               boundedVars, explorationVars
        <3> QED
            BY <2>1, <3>1
    <2> QED
        BY <2>2, <2>3
<1> QED
    BY <1>1, <1>2, <1>3, <1>4 DEF EnumerationInv

\* The inductive invariant of the enumeration: whatever is done was done thoroughly.
THEOREM EnumerationHolds == BoundedSpec => []EnumerationInv
    BY BoundedInvariantHolds, EnumerationInvInit, EnumerationInvStep, PTL DEF BoundedSpec

\* Bounded search is complete: when it ends by itself, and not by its limit, it
\* has explored all executions within the bound and no other, be there runs that
\* left no record or not.  (A negative bound allows no execution; the first one is
\* explored all the same.)
THEOREM CompleteWithinBound == BoundedSpec => [](mBoundValue >= 0 => StaleRecordLosesNothing)
<1>1. ASSUME BoundedInv, EnumerationInv, mBoundValue >= 0, phase = "done"
      PROVE  schedules = SchedulesWithin(mBoundValue)
    <2>1. \A e \in ExecutionsWithin : ScheduleOf(e) \in schedules
        BY <1>1 DEF EnumerationInv, BacktrackIsExplored
    <2>2. SchedulesWithin(mBoundValue) = {ScheduleOf(e) : e \in ExecutionsWithin}
        BY <1>1, WithinAre DEF BoundedInv, Inv, TypeOK
    <2> QED
        BY <1>1, <2>1, <2>2 DEF EnumerationInv
<1>2. BoundedInv /\ EnumerationInv => (mBoundValue >= 0 => StaleRecordLosesNothing)
    BY <1>1 DEF StaleRecordLosesNothing
<1> QED
    BY <1>2, BoundedInvariantHolds, EnumerationHolds, PTL

-----------------------------------------------------------------------------
(* Bounded search implements the enumeration *)

\* A record that is read adds an execution that was left to explore.
LEMMA ReadExplores ==
    ASSUME BoundedInv, EnumerationInv, failures = 0, mBoundValue >= 0,
           [BoundedNext]_boundedVars, ReadRecord
    PROVE  EnumerationOfBounded!Explore
<1>1. ScheduleOf(record.transitions) \in SchedulesWithin(mBoundValue) \ schedules
    BY LoggedIsWithin, FreshRecordIsNew DEF EnumerationInv, BoundedInv
<1> QED
    BY <1>1, WithinIsFixed DEF EnumerationOfBounded!Explore, ReadRecord

\* The search ends when nothing is left to explore.
LEMMA ExhaustedFinishes ==
    ASSUME BoundedInv, EnumerationInv, BoundedInv', EnumerationInv', mBoundValue >= 0,
           [BoundedNext]_boundedVars, Exhausted
    PROVE  EnumerationOfBounded!Finish
<1>1. UNCHANGED <<schedules, mNrExplorations>> /\ SchedulesWithin(mBoundValue)' = SchedulesWithin(mBoundValue)
    BY WithinIsFixed DEF Exhausted
<1>2. phase' = "done"
    <2>1. mExecution = <<>> /\ mSchedule = ScheduleOf(mExecution) /\ mExecution \in Seq(Transitions)
        BY DEF Exhausted, BoundedInv, Inv, SearchIsAligned, TypeOK
    <2>2. mSchedule = <<>>
        BY <2>1, ScheduleIs, EmptySeq
    <2> QED
        BY <2>2 DEF Exhausted
<1>3. schedules = SchedulesWithin(mBoundValue)
    <2>1. \A e \in ExecutionsWithin : ScheduleOf(e) \in schedules
        BY <1>1, <1>2, WithinIsFixed DEF EnumerationInv, BacktrackIsExplored
    <2>2. SchedulesWithin(mBoundValue) = {ScheduleOf(e) : e \in ExecutionsWithin}
        BY WithinAre DEF BoundedInv, Inv, TypeOK
    <2> QED
        BY <2>1, <2>2 DEF EnumerationInv
<1> QED
    BY <1>1, <1>2, <1>3 DEF EnumerationOfBounded!Finish

\* Every other step leaves the enumeration as it is.
LEMMA OthersStutter ==
    ASSUME BoundedInv, [BoundedNext]_boundedVars, ~ReadRecord, ~Exhausted
    PROVE  UNCHANGED EnumerationOfBounded!vars
<1>1. SchedulesWithin(mBoundValue)' = SchedulesWithin(mBoundValue)
    BY WithinIsFixed
<1>2. UNCHANGED <<schedules, mNrExplorations>> /\ (phase' = "done") = (phase = "done")
    BY DEF BoundedNext, BoundedRun, BoundedUpdateTransition, BoundedScheduleNext,
       BoundedBacktrackFurther, StartRun, LimitReached, ReplayScheduled, SelectThread,
       ProgramStep, RunEnds, RunFails, RecordMissing, RestoreTransition, UpdateTransition,
       FinishUpdate, ScheduleNext, BacktrackFurther, PopBack, Terminated, boundedVars,
       explorationVars
<1> QED
    BY <1>1, <1>2 DEF EnumerationOfBounded!vars

\* Bounded search implements the enumeration of the executions within its bound:
\* it goes through them one by one and ends when there is none left.  Every run
\* has to leave its record, or the one before would be explored again, and no
\* option may be taken for a negative bound.
THEOREM BoundedSearchEnumerates ==
    ASSUME MaxFailures = 0, \A u \in BoundOptions : ToInt(u) >= 0
    PROVE  BoundedSpec => EnumeratesBounded
<1> DEFINE Within == failures = 0 /\ mBoundValue >= 0
<1>1. BoundedInit => Within
    BY DEF BoundedInit, Init, mBoundValue
<1>2. Within /\ [BoundedNext]_boundedVars => Within'
    <2> SUFFICES ASSUME Within, [BoundedNext]_boundedVars
                 PROVE  Within'
        OBVIOUS
    <2>1. mBoundValue' = mBoundValue
        BY WithinIsFixed
    <2>2. failures' = failures
        BY DEF BoundedNext, BoundedRun, BoundedUpdateTransition, BoundedScheduleNext,
           BoundedBacktrackFurther, StartRun, LimitReached, ReplayScheduled, SelectThread,
           ProgramStep, RunEnds, RunFails, RecordMissing, ReadRecord, RestoreTransition,
           UpdateTransition, FinishUpdate, ScheduleNext, BacktrackFurther, PopBack, Exhausted,
           Terminated, boundedVars, explorationVars
    <2> QED
        BY <2>1, <2>2
<1>3. BoundedInit => EnumerationOfBounded!Init
    <2>1. BoundedInit => IsFiniteSet(SchedulesWithin(mBoundValue))
        BY WithinAre DEF BoundedInit, Init
    <2> QED
        BY <2>1 DEF BoundedInit, Init, EnumerationOfBounded!Init, IsFiniteSet,
           EnumerationOfBounded!IsFiniteSet
<1>4. /\ Within /\ BoundedInv /\ EnumerationInv /\ [BoundedNext]_boundedVars
      /\ BoundedInv' /\ EnumerationInv'
      => [EnumerationOfBounded!Next]_(EnumerationOfBounded!vars)
    BY ReadExplores, ExhaustedFinishes, OthersStutter DEF EnumerationOfBounded!Next
<1> QED
    BY <1>1, <1>2, <1>3, <1>4, BoundedInvariantHolds, EnumerationHolds, PTL
    DEF BoundedSpec, EnumeratesBounded, EnumerationOfBounded!Spec

=============================================================================
