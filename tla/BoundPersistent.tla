---------------------------- MODULE BoundPersistent ----------------------------
(***************************************************************************)
(* dpor with the sufficient-set implementation BoundPersistent<Preemptions>*)
(* and its default optimizations: partial-order reduction and the bound    *)
(* on preemptions combined.  It keeps a further stack: the bound value of  *)
(* each state, threads to explore there only if the bound cuts something   *)
(* off below (pending), and whether it did (exceeded).  Like Persistent it *)
(* accepts every program (check_valid), hence the assumption.              *)
(***************************************************************************)
EXTENDS Dpor, Preemptions

CONSTANT Bounds  \* the bounds the search is constructed with

ASSUME BoundsAssumption == Bounds \subseteq Nat

ASSUME ChecksAssumption == sufficient_set_t = "Persistent"

VARIABLES
    mBound,      \* BoundPersistent::mBound
    boundStates  \* BoundPersistentBase::mState: mState[i] is boundStates[i + 1]

bpVars == <<dporVars, mBound, boundStates>>

\* BoundPersistentState
BoundStates == [value : Nat, pending : SUBSET Tids, exceeded : BOOLEAN]

NewBoundState(value) == [value |-> value, pending |-> {}, exceeded |-> FALSE]

\* The bound values of the stack S, as the bound function looks them up.
Values(S) == [i \in DOMAIN S |-> S[i].value]

BPInit ==
    /\ DporInit
    /\ mBound \in Bounds
    /\ boundStates = <<NewBoundState(0)>>

-----------------------------------------------------------------------------
(* Backtrack points *)

\* BoundPersistentBase::backtrack_points: for every thread with a next
\* instruction, the last dependent transition of each other thread.
BPBacktrackPoints(p, e, h, i) ==
    LET s == e[i].pre
    IN  UNION {{[tid |-> t, index |-> j] : j \in MaxDependentPerThread(e, h, i, NextInstr(p, s, t))} :
                   t \in {u \in Tids : HasNext(p, s, u)}}

\* Preemptions::min_value(E, idx, T, {preferred}): a thread that does not preempt
\* transition idx, preferred before those of T; preferred need not be in T.
MinValue(p, e, idx, T, preferred) ==
    LET free(t) == idx < 1 \/ StepValue(p, e[idx], t) = 0
        candidates == IF \E t \in T : free(t) THEN {t \in T : free(t)} ELSE T
    IN  IF free(preferred) THEN preferred ELSE Min(candidates)

\* Preemptions::last_context_switch_before
LastContextSwitchBefore(e, i) ==
    Max({1} \cup {j \in 2 .. i - 1 : e[j - 1].instr.tid # e[j].instr.tid})

\* Mutant of AddedByBound: without adding_condition.
AddedByBoundUnchecked(p, e, h, S, point) ==
    LET alternatives == Alternatives(p, e, h, S[point.index].sleep, point)
    IN  IF alternatives = {}
        THEN {point.tid}
        ELSE {MinValue(p, e, point.index - 1, alternatives, point.tid)}

\* What add_backtrack_point adds at point, be it to the backtrack set or, for
\* conservative points, to pending: one thread or, if it cannot be the one
\* wanted, all that are enabled and awake.
AddedByBound(p, e, h, S, point) ==
    LET sleep == S[point.index].sleep
        awake == Awake(sleep, Enabled(p, e[point.index].pre))
        alternatives == Alternatives(p, e, h, sleep, point)
        alt == IF alternatives = {}
               THEN point.tid
               ELSE MinValue(p, e, point.index - 1, alternatives, point.tid)
    IN  IF alt \in awake THEN {alt} ELSE awake

\* add_backtrack_point calls itself at the last context switch before each point.
ConservativePoints(e, points) ==
    {[tid |-> q.tid, index |-> LastContextSwitchBefore(e, q.index)] :
        q \in {r \in points : LastContextSwitchBefore(e, r.index) < r.index}}

\* All that is added at the state before transition i for the given points.
AddedAt(points, i) ==
    UNION {AddedByBound(program, mExecution, UpdatedHB, sufficient, q) :
               q \in {r \in points : r.index = i}}

-----------------------------------------------------------------------------
(* The handlers of dpor that BoundPersistent takes part in *)

\* dpor::update_state: BoundPersistent::update_state pushes the bound value of
\* the new state, then the backtrack points are added.
BPUpdateTransition ==
    LET points == BPBacktrackPoints(program, mExecution, UpdatedHB, index)
        conservative == ConservativePoints(mExecution, points)
        tid == mExecution[index].instr.tid
    IN  /\ UpdateTransition
        /\ mHB' = UpdatedHB
        /\ sufficient' = Append(
               [i \in DOMAIN sufficient |->
                   [sufficient[i] EXCEPT !.backtrack =
                       @ \cup AddedAt(points, i) \cup (IF i = index THEN {tid} ELSE {})]],
               NewSufficientSet)
        /\ boundStates' = Append(
               [i \in DOMAIN boundStates |->
                   [boundStates[i] EXCEPT !.pending = @ \cup AddedAt(conservative, i)]],
               NewBoundState(Value(program, mExecution, Values(boundStates), index - 1, tid)))
        /\ UNCHANGED <<mSleep, nrSleepsetBlocked, mBound>>

\* Mutant of SubtreeExceeded: not propagated from the transition just explored.
SubtreeExceededNotPropagated == boundStates[Len(mExecution)].exceeded

\* update_after_exploration: the bound was exceeded below the state before the
\* last transition.
SubtreeExceeded ==
    boundStates[Len(mExecution)].exceeded \/ boundStates[Len(mExecution) + 1].exceeded

\* The sufficient set and the bound state new_schedule looks at after
\* update_after_exploration and pop_back: a thread goes to sleep only if the
\* bound was not exceeded.
PoppedSet ==
    LET tid == Last(mExecution).instr.tid
    IN  [sufficient[Len(mExecution)] EXCEPT
            !.sleep = IF SubtreeExceeded THEN @ \ {tid} ELSE @ \cup {tid}]

PoppedBound == [boundStates[Len(mExecution)] EXCEPT !.exceeded = SubtreeExceeded]

\* dpor::pool with BoundPersistentBase::add_to_pool, without the threads that
\* are done.
BPUndone ==
    Undone(Awake(PoppedSet.sleep, PoppedSet.backtrack)
              \cup (IF PoppedBound.exceeded THEN PoppedBound.pending ELSE {}))

\* Mutant of BPCondition: the step of the thread is not counted.
BPConditionIgnoringStep(t) == PoppedBound.value <= mBound

\* BoundPersistent::condition for thread t in the popped state
BPCondition(t) ==
    Value(program, mExecution, Values(boundStates), Len(mExecution) - 1, t) <= mBound

\* select_from_pool evaluates the condition of the threads in tried, and any that
\* does not satisfy it marks the state.
BPPopBack(tried) ==
    /\ sufficient' = Append(SubSeq(sufficient, 1, Len(mExecution) - 1), PoppedSet)
    /\ boundStates' = Append(
           SubSeq(boundStates, 1, Len(mExecution) - 1),
           [PoppedBound EXCEPT !.exceeded = @ \/ \E t \in tried : ~BPCondition(t)])
    /\ mHB' = PopBackHB(mHB)
    /\ UNCHANGED <<mSleep, nrSleepsetBlocked, mBound>>

\* select_from_pool finds the first thread that satisfies the condition.
BPScheduleNext ==
    \E next \in Tids :
        /\ ScheduleNext(next)
        /\ next \in BPUndone
        /\ BPCondition(next)
        /\ \A t \in BPUndone : t < next => ~BPCondition(t)
        /\ BPPopBack({t \in BPUndone : t < next})

\* The pool is empty, or no thread in it satisfies the condition: -1.
BPBacktrackFurther ==
    /\ BacktrackFurther
    /\ \A t \in BPUndone : ~BPCondition(t)
    /\ BPPopBack(BPUndone)

UnchangedBound == UNCHANGED <<mBound, boundStates>>

BPNext ==
    \/ DporStartRun /\ UnchangedBound
    \/ LimitReached /\ UnchangedDpor /\ UnchangedBound
    \/ ReplayScheduled /\ UnchangedDpor /\ UnchangedBound
    \/ DporSelectThread /\ UnchangedBound
    \/ DporBlocked /\ UnchangedBound
    \/ DporRunEnds /\ UnchangedBound
    \/ RunFails /\ UnchangedDpor /\ UnchangedBound
    \/ RecordMissing /\ UnchangedDpor /\ UnchangedBound
    \/ DporReadRecord /\ UnchangedBound
    \/ DporRestoreTransition /\ UnchangedBound
    \/ BPUpdateTransition
    \/ FinishUpdate /\ UnchangedDpor /\ UnchangedBound
    \/ BPScheduleNext
    \/ BPBacktrackFurther
    \/ Exhausted /\ UnchangedDpor /\ UnchangedBound
    \/ Terminated /\ UnchangedDpor /\ UnchangedBound

BPSpec == BPInit /\ [][BPNext]_bpVars

-----------------------------------------------------------------------------
(* Properties *)

\* The two stacks of bound values and pending threads are aligned with those of
\* dpor (bound_persistent_set.cpp:118), the values count the preemptions of the
\* prefixes of the execution, and what waits for the bound is enabled there.
BoundStatesAreExact ==
    /\ Len(boundStates) = Len(sufficient)
    /\ \A i \in 1 .. Len(boundStates) :
           i - 1 <= Len(mExecution) =>
               /\ boundStates[i].value = PreemptionsOf(program, SubSeq(mExecution, 1, i - 1))
               /\ boundStates[i].pending \subseteq Enabled(program, StateBefore(mExecution, i))

\* No execution that is explored has more preemptions than the bound allows: a
\* thread that has just performed something is awake, so that sleep sets never
\* make the scheduler leave it.
ExploredWithinBound ==
    phase \in {"update", "backtrack"} => PreemptionsOf(program, mExecution) <= mBound

=============================================================================
