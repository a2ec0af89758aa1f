----------------------------- MODULE BoundedSearch -----------------------------
(***************************************************************************)
(* bounded_search<Preemptions>, that is                                    *)
(* Exploration<depth_first_search<bound<Preemptions>>>: the executions     *)
(* with at most mBoundValue preemptions.  run_depth_first_search is the    *)
(* same search with the largest int as bound.                              *)
(***************************************************************************)
EXTENDS Exploration, Preemptions

CONSTANTS
    IntWidth,     \* number of bits of int and unsigned int
    BoundOptions  \* values of option --bound, an unsigned int

ASSUME BoundAssumption ==
    /\ IntWidth \in Nat \ {0}
    /\ BoundOptions \subseteq 0 .. 2 ^ IntWidth - 1

VARIABLES
    boundOption,  \* the value of option --bound
    boundState    \* bound::mState: mState[i].mBoundValue is boundState[i + 1]

boundedVars == <<explorationVars, boundOption, boundState>>

\* run_bounded_search passes the unsigned option as the int parameter of
\* bound(): the conversion is modulo 2^IntWidth.
ToInt(u) == IF u < 2 ^ (IntWidth - 1) THEN u ELSE u - 2 ^ IntWidth

mBoundValue == ToInt(boundOption)

\* Type invariant: the option is an unsigned int, bound values are naturals.
BoundedTypeOK ==
    /\ TypeOK
    /\ boundOption \in BoundOptions
    /\ boundState \in Seq(Nat)

BoundedInit ==
    /\ Init
    /\ boundOption \in BoundOptions
    /\ boundState = <<0>>

-----------------------------------------------------------------------------

\* Mutants of Pool: the bound is exclusive; the step of the thread is not counted;
\* disabled threads are offered.
PoolBelowBound(e, S) ==
    {t \in Enabled(program, Final(e)) : Value(program, e, S, Len(e), t) < mBoundValue}

PoolIgnoringStep(e, S) ==
    {t \in Enabled(program, Final(e)) : S[Len(e) + 1] <= mBoundValue}

PoolWithDisabled(e, S) ==
    {t \in Tids : /\ HasNext(program, Final(e), t)
                  /\ Value(program, e, S, Len(e), t) <= mBoundValue}

\* bound::pool(E) for the execution e and states S
Pool(e, S) ==
    {t \in Enabled(program, Final(e)) : Value(program, e, S, Len(e), t) <= mBoundValue}

\* bound::update_state, after depth_first_search::update_state
BoundedUpdateTransition ==
    /\ UpdateTransition
    /\ boundState' = Append(boundState,
           Value(program, mExecution, boundState, index - 1, mExecution[index].instr.tid))
    /\ UNCHANGED boundOption

UndoneAfterPop == Undone(Pool(Front(mExecution), Front(boundState)))

\* Mutant of BoundedScheduleNext: without mReduction.pop_back().
BoundedScheduleNextUnpopped ==
    /\ \E next \in Tids :
           /\ ScheduleNext(next)
           /\ next \in UndoneAfterPop
           /\ \A t \in UndoneAfterPop : next <= t
    /\ UNCHANGED <<boundOption, boundState>>

\* bound::select_from_pool takes the first of the pool, an ordered set.
BoundedScheduleNext ==
    /\ \E next \in Tids :
           /\ ScheduleNext(next)
           /\ next \in UndoneAfterPop
           /\ \A t \in UndoneAfterPop : next <= t
    /\ boundState' = Front(boundState)
    /\ UNCHANGED boundOption

\* Mutant of BoundedBacktrackFurther: without mReduction.pop_back().
BoundedBacktrackUnpopped ==
    /\ BacktrackFurther
    /\ UndoneAfterPop = {}
    /\ UNCHANGED <<boundOption, boundState>>

BoundedBacktrackFurther ==
    /\ BacktrackFurther
    /\ UndoneAfterPop = {}
    /\ boundState' = Front(boundState)
    /\ UNCHANGED boundOption

\* The scheduler runs with the Nonpreemptive strategy and stops when no thread
\* is enabled.
BoundedRun ==
    \/ ReplayScheduled
    \/ \E t \in NonPreemptive(recording, Enabled(program, Final(recording))) : SelectThread(t)
    \/ Enabled(program, Final(recording)) = {} /\ RunEnds("DONE")
    \/ RunFails

BoundedNext ==
    \/ StartRun /\ UNCHANGED <<boundOption, boundState>>
    \/ LimitReached /\ UNCHANGED <<boundOption, boundState>>
    \/ BoundedRun /\ UNCHANGED <<boundOption, boundState>>
    \/ RecordMissing /\ UNCHANGED <<boundOption, boundState>>
    \/ ReadRecord /\ UNCHANGED <<boundOption, boundState>>
    \/ RestoreTransition /\ UNCHANGED <<boundOption, boundState>>
    \/ BoundedUpdateTransition
    \/ FinishUpdate /\ UNCHANGED <<boundOption, boundState>>
    \/ BoundedScheduleNext
    \/ BoundedBacktrackFurther
    \/ Exhausted /\ UNCHANGED <<boundOption, boundState>>
    \/ Terminated /\ UNCHANGED <<boundOption, boundState>>

BoundedSpec == BoundedInit /\ [][BoundedNext]_boundedVars

\* The explorer is one sequential loop, and the program under test, straight-
\* line code of finitely many threads, is run until it ends.
BoundedFairSpec == BoundedSpec /\ WF_boundedVars(BoundedNext)

-----------------------------------------------------------------------------
(* Properties *)

\* The assertion of bound::update_state and the precondition of
\* LocalBoundFunction::value (bound.hpp:98, local_bound_function.hpp:51): the
\* states of the bound and those of the search are popped and pushed together.
BoundAssertionsHold ==
    /\ Len(boundState) = Len(dfsState)
    /\ phase = "update" /\ index >= from => index - 1 < Len(boundState)

\* The values computed step by step are the numbers of preemptions in the
\* prefixes of the execution, also where they were restored rather than updated.
BoundValueIsExact ==
    \A i \in 1 .. Len(boundState) :
        i - 1 <= Len(mExecution)
            => boundState[i] = PreemptionsOf(program, SubSeq(mExecution, 1, i - 1))

\* No execution that is explored has more preemptions than the bound allows
\* (the first one, which needs no bound, aside).
WithinBound ==
    phase \in {"update", "backtrack"} =>
        PreemptionsOf(program, mExecution) <= IF mBoundValue < 0 THEN 0 ELSE mBoundValue

\* The search comes to its end, or aborts for want of a record: no run, be it one
\* whose record is missing, makes it go round in circles.
Terminates == <>(phase \in {"done", "aborted"})

=============================================================================
