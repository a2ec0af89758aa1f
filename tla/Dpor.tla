--------------------------------- MODULE Dpor ---------------------------------
(***************************************************************************)
(* Exploration<depth_first_search<dpor<sufficient_set_t>>>: depth-first    *)
(* search reduced to persistent or source sets, and sleep sets.  The       *)
(* explorer keeps three stacks along the execution (done sets, sufficient  *)
(* sets, clocks), and the scheduler in the program's process keeps a sleep *)
(* set of its own, which it initialises from the file the explorer writes  *)
(* before the run.                                                         *)
(***************************************************************************)
EXTENDS Exploration, SourceSets

CONSTANT sufficient_set_t  \* the template argument: "Persistent" or "Source"

ASSUME SufficientSetAssumption == sufficient_set_t \in {"Persistent", "Source"}

VARIABLES
    sufficient,         \* dpor_base::mState: mState[i] is sufficient[i + 1]
    mHB,                \* dpor_base::mHB
    mSleep,             \* scheduler::SleepSets::mSleep, in the program's process
    nrSleepsetBlocked   \* dpor_statistics::mNrSleepSetBlocked

dporVars == <<explorationVars, sufficient, mHB, mSleep, nrSleepsetBlocked>>

\* Type invariant of dpor, its clocks and the scheduler's sleep set.
DporTypeOK ==
    /\ TypeOK
    /\ sufficient \in Seq(SufficientSets)
    /\ mHB \in HappensBefores(Size(mHB))
    /\ mSleep \subseteq Tids
    /\ nrSleepsetBlocked \in Nat

NoSufficientSet == [backtrack |-> {}, sleep |-> {}]

DporInit ==
    /\ Init
    /\ sufficient = <<NoSufficientSet>>
    /\ mHB = InitialHB
    /\ mSleep = {}
    /\ nrSleepsetBlocked = 0

-----------------------------------------------------------------------------
(* The program's process *)

\* Mutant of DporStartRun: the scheduler does not read the sleep set.
DporStartRunAwake ==
    /\ StartRun
    /\ mSleep' = {}
    /\ UNCHANGED <<sufficient, mHB, nrSleepsetBlocked>>

\* write_scheduler_files writes the sleep set of the state before the thread
\* scheduled last; SleepSets::initialize reads it in the new process.
DporStartRun ==
    /\ StartRun
    /\ mSleep' = Last(sufficient).sleep
    /\ UNCHANGED <<sufficient, mHB, nrSleepsetBlocked>>

\* SleepSets::update_sleep with the current task, if there is one
UpdatedSleep ==
    IF recording = <<>>
    THEN mSleep
    ELSE WakeUp(mSleep, Last(recording).instr, program, Final(recording))

AwakeSelection == Awake(UpdatedSleep, Enabled(program, Final(recording)))

\* SleepSets::select: an awake thread, by the NonPreemptive strategy
DporSelectThread ==
    /\ \E t \in NonPreemptive(recording, AwakeSelection) : SelectThread(t)
    /\ mSleep' = UpdatedSleep
    /\ UNCHANGED <<sufficient, mHB, nrSleepsetBlocked>>

\* SleepSets::select: every thread that could be selected is asleep.
DporBlocked ==
    /\ RunEnds("BLOCKED")
    /\ Enabled(program, Final(recording)) # {}
    /\ AwakeSelection = {}
    /\ mSleep' = UpdatedSleep
    /\ UNCHANGED <<sufficient, mHB, nrSleepsetBlocked>>

DporRunEnds ==
    /\ RunEnds("DONE")
    /\ Enabled(program, Final(recording)) = {}
    /\ UNCHANGED <<sufficient, mHB, mSleep, nrSleepsetBlocked>>

-----------------------------------------------------------------------------
(* The explorer *)

\* Mutant of CheckValid: no execution is refused.
CheckNothing(e) == TRUE

\* sufficient_set_t::check_valid: Source assumes that threads do not disable
\* each other.
CheckValid(e) == sufficient_set_t = "Source" => ~ContainsLocks(e)

\* dpor_base::reset and dpor_base::update_statistics
DporReadRecord ==
    /\ ReadRecord
    /\ mNrExplorations > 0 \/ CheckValid(record.transitions)
    /\ mHB' = ResetHB(mHB, ThreadsOf(program, record.transitions))
    /\ nrSleepsetBlocked' =
           nrSleepsetBlocked + (IF record.status = "BLOCKED" THEN 1 ELSE 0)
    /\ UNCHANGED <<sufficient, mSleep>>

\* The first execution has shown that the program is not one for this search.
DporInvalidProgram ==
    /\ InvalidProgram
    /\ ~CheckValid(record.transitions)
    /\ mHB' = ResetHB(mHB, ThreadsOf(program, record.transitions))
    /\ UNCHANGED <<sufficient, mSleep, nrSleepsetBlocked>>

\* dpor_base::restore_state
DporRestoreTransition ==
    /\ RestoreTransition
    /\ mHB' = RestoreHB(mHB, mExecution, index)
    /\ UNCHANGED <<sufficient, mSleep, nrSleepsetBlocked>>

\* Mutant of NewSufficientSet: the sleep set is not propagated.
NewSufficientSetAwake == NoSufficientSet

\* dpor_base::update_state: the sufficient set of the state after the new
\* transition starts empty, with the sleep set propagated over the transition.
NewSufficientSet ==
    [backtrack |-> {},
     sleep     |-> WakeUp(Last(sufficient).sleep, mExecution[index].instr,
                          program, mExecution[index].post)]

\* The clocks when dpor::update_state looks for the points of the new transition.
UpdatedHB == UpdateHB(mHB, mExecution, index)

\* mSufficientSet.backtrack_points for the new transition
NewBacktrackPoints ==
    IF sufficient_set_t = "Source"
    THEN SourceBacktrackPoints(mExecution, UpdatedHB, index)
    ELSE BacktrackPoints(program, mExecution, UpdatedHB, index)

\* mSufficientSet.add_backtrack_point
Added(point) ==
    IF sufficient_set_t = "Source"
    THEN AddedBySource(mExecution, UpdatedHB, sufficient, index, point)
    ELSE AddedByPoint(program, mExecution, UpdatedHB, sufficient, point)

\* What dpor::update_state adds to the backtrack set of sufficient[i].
AddedToBacktrack(i) ==
    (UNION {Added(point) : point \in {q \in NewBacktrackPoints : q.index = i}})
    \cup (IF i = Len(sufficient) THEN {mExecution[index].instr.tid} ELSE {})

DporUpdateTransition ==
    /\ UpdateTransition
    /\ mHB' = UpdatedHB
    /\ sufficient' = Append(
           [i \in DOMAIN sufficient |->
               [sufficient[i] EXCEPT !.backtrack = @ \cup AddedToBacktrack(i)]],
           NewSufficientSet)
    /\ UNCHANGED <<mSleep, nrSleepsetBlocked>>

\* Mutant of PoppedSufficient: without mState.pop_back().
PoppedSufficientKept ==
    [sufficient EXCEPT ![Len(mExecution)].sleep = @ \cup {Last(mExecution).instr.tid}]

\* dpor::update_after_exploration(E.last()) and dpor::pop_back
PoppedSufficient ==
    Front([sufficient EXCEPT ![Len(mExecution)].sleep = @ \cup {Last(mExecution).instr.tid}])

DporPopBack ==
    /\ sufficient' = PoppedSufficient
    /\ mHB' = PopBackHB(mHB)
    /\ UNCHANGED <<mSleep, nrSleepsetBlocked>>

\* dpor::pool, without the threads that are done
DporUndone == Undone(Awake(Last(PoppedSufficient).sleep, Last(PoppedSufficient).backtrack))

\* dpor::select_from_pool: the first thread (Persistent::condition is true)
DporScheduleNext ==
    /\ \E next \in Tids :
           /\ ScheduleNext(next)
           /\ next \in DporUndone
           /\ \A t \in DporUndone : next <= t
    /\ DporPopBack

DporBacktrackFurther ==
    /\ BacktrackFurther
    /\ DporUndone = {}
    /\ DporPopBack

UnchangedDpor == UNCHANGED <<sufficient, mHB, mSleep, nrSleepsetBlocked>>

DporNext ==
    \/ DporStartRun
    \/ LimitReached /\ UnchangedDpor
    \/ ReplayScheduled /\ UnchangedDpor
    \/ DporSelectThread
    \/ DporBlocked
    \/ DporRunEnds
    \/ RunFails /\ UnchangedDpor
    \/ RecordMissing /\ UnchangedDpor
    \/ DporReadRecord
    \/ DporInvalidProgram
    \/ DporRestoreTransition
    \/ DporUpdateTransition
    \/ FinishUpdate /\ UnchangedDpor
    \/ DporScheduleNext
    \/ DporBacktrackFurther
    \/ Exhausted /\ UnchangedDpor
    \/ Terminated /\ UnchangedDpor

DporSpec == DporInit /\ [][DporNext]_dporVars

\* One sequential loop, as for BoundedSearch: it does not stop before it is in a
\* terminal phase.  As some step is always enabled until then, this is weak
\* fairness of DporNext, written without ENABLED, which TLC evaluates too slowly.
DporFairness == <>(phase \in Terminal) \/ []<><<DporNext>>_explorationVars

DporFairSpec == DporSpec /\ DporFairness

-----------------------------------------------------------------------------
(* Properties *)

\* The assertions of dpor_base and HappensBefore (dpor.cpp:72, 97,
\* happens_before.cpp:130, 139, happens_before.hpp:258): the three stacks are
\* of the same height, and the frontier has followed the loop up to here.
DporAssertionsHold ==
    /\ Len(sufficient) = Len(dfsState)
    /\ Len(mHB.clocks) = Len(dfsState)
    /\ phase = "update" =>
           /\ mHB.index = index - 1
           /\ index <= Len(mExecution) /\ index < from => mHB.index < Len(mHB.clocks) - 1
    /\ phase = "read" /\ record # NoRecord => Len(mHB.clocks) <= Len(record.transitions) + 1

\* Only threads that are enabled in a state are put into its backtrack set
\* (depth_first_search.hpp:156), also by a point added much later.
BacktrackIsEnabled ==
    \A i \in 1 .. Len(sufficient) :
        i <= Len(mExecution) + 1 =>
            sufficient[i].backtrack \subseteq Enabled(program, StateBefore(mExecution, i))

\* Backtrack points are not looked for between instructions that are not
\* coenabled (happens_before.hpp:296): no run gets into a state with both enabled.
CoenabledIsSound ==
    \A t, u \in Enabled(program, Final(recording)) :
        t # u => Coenabled(NextInstr(program, Final(recording), t),
                           NextInstr(program, Final(recording), u))

\* The scheduler and the explorer propagate sleep sets in two processes and
\* agree: unless a record was stale, the execution never takes a thread that is
\* asleep in the explorer's state.
SleepingThreadNotExecuted ==
    phase = "update" /\ failures = 0 /\ from <= index /\ index <= Len(mExecution) =>
        mExecution[index].instr.tid \notin Last(sufficient).sleep

\* A run is cut short only where the explorer has all enabled threads asleep, unless
\* a record was stale.
BlockedOnlyWhenAsleep ==
    phase = "update" /\ failures = 0 /\ index > Len(mExecution) /\ record.status = "BLOCKED" =>
        Enabled(program, Final(mExecution)) \subseteq Last(sufficient).sleep

=============================================================================
