-------------------------- MODULE BoundedEnumeration --------------------------
(***************************************************************************)
(* What bounded search promises: to go through the maximal executions      *)
(* within its bound, each once; and the inductive invariant that makes it  *)
(* keep that promise.                                                      *)
(***************************************************************************)
EXTENDS BoundedInvariant, MaximalExecutions

\* The maximal executions as the search knows them, with their preemptions.
MaximalSchedules ==
    {[program     |-> m.program,
      schedule    |-> ScheduleOf(m.execution),
      preemptions |-> PreemptionsOf(m.program, m.execution)] : m \in MaximalExecutions}

SchedulesWithin(b) ==
    {m.schedule : m \in {x \in MaximalSchedules : x.program = program /\ x.preemptions <= b}}

\* The search goes through exactly the executions within the bound, each once.
EnumerationOfBounded ==
    INSTANCE Enumeration WITH
        universe <- SchedulesWithin(mBoundValue),
        explored <- schedules,
        count <- mNrExplorations,
        finished <- (phase = "done")

\* Bounded search implements the enumeration of the executions within its bound.
EnumeratesBounded == EnumerationOfBounded!Spec

\* A run without a record costs the search no execution: when it is done, it
\* has still seen all executions within the bound, although the previous record
\* was read back in the place of the missing one.
StaleRecordLosesNothing == phase = "done" => schedules = SchedulesWithin(mBoundValue)

\* The option is "the bound to be used with a Bounded Search based exploration"
\* (options.hpp:17): executions are explored up to the number it gives.
BoundOptionIsUsed == phase = "done" => schedules = SchedulesWithin(boundOption)

-----------------------------------------------------------------------------
(* The inductive invariant of the enumeration *)

\* The maximal executions of the program within the bound.
ExecutionsWithin ==
    {m.execution : m \in {x \in MaximalExecutions :
                             /\ x.program = program
                             /\ PreemptionsOf(program, x.execution) <= mBoundValue}}

\* e begins with the first n transitions of f.
SharesPrefix(e, f, n) == Len(e) >= n /\ \A i \in 1 .. n : e[i] = f[i]

\* Runs end when no thread is enabled, and so does what is read back from them.
RunsAreMaximal ==
    /\ record # NoRecord => Enabled(program, Final(record.transitions)) = {}
    /\ phase = "update" => Enabled(program, Final(mExecution)) = {} /\ mSchedule \in schedules

\* A thread that is done in a state of the branch was done thoroughly: all
\* executions that take it there have been explored.
DoneIsExplored ==
    phase \in Running =>
        \A e \in ExecutionsWithin : \A i \in 1 .. Len(dfsState) :
            (/\ i - 1 <= Len(mExecution)
             /\ i <= Len(e)
             /\ SharesPrefix(e, mExecution, i - 1)
             /\ e[i].instr.tid \in dfsState[i]) => ScheduleOf(e) \in schedules

\* The search backtracks from an execution only when all that begin with it have
\* been explored; when the search is done, that is true of the empty one.
BacktrackIsExplored ==
    phase \in {"backtrack", "done"} =>
        \A e \in ExecutionsWithin :
            (phase = "done" \/ SharesPrefix(e, mExecution, Len(mExecution)))
                => ScheduleOf(e) \in schedules

EnumerationInv ==
    /\ RunsAreMaximal
    /\ DoneIsExplored
    /\ BacktrackIsExplored
    /\ mBoundValue >= 0 => schedules \subseteq SchedulesWithin(mBoundValue)

=============================================================================
