----------------------------- MODULE Exploration -----------------------------
(***************************************************************************)
(* Exploration<depth_first_search<Reduction>> for an arbitrary Reduction.  *)
(*                                                                         *)
(* The explorer runs the program under test under a schedule, reads back   *)
(* the recorded execution, updates the states of the depth-first search    *)
(* along it and backtracks to the next schedule.  The program runs in      *)
(* another process; the explorer waits for it and learns what it did only  *)
(* from the file records/record.txt.                                       *)
(*                                                                         *)
(* A reduction (bound, dpor) takes part in a handler by conjoining its own *)
(* updates to the action of that handler: BoundedSearch and Dpor are built *)
(* that way.  Next, at the end, leaves every choice of the reduction open: *)
(* what holds of it holds for every reduction.                             *)
(***************************************************************************)
EXTENDS ProgramModel

CONSTANTS
    MaxNrExplorations,  \* option --max
    KeepRecords,        \* Settings::keep_records
    MaxFailures         \* bound: runs of the program that leave no record

ASSUME ExplorationAssumption ==
    /\ MaxNrExplorations \in Nat
    /\ KeepRecords \in BOOLEAN
    /\ MaxFailures \in Nat

VARIABLES
    program,          \* mProgram
    phase,            \* where run() and the handlers it calls are
    mSchedule,        \* mSchedule
    mExecution,       \* mExecution, shared with the reduction
    from,             \* the local variable from of run()
    index,            \* index of the next transition of the loop in update_state
    mNrExplorations,  \* mStatistics.mNrExplorations
    schedules,        \* the lines of schedules.txt, written through mLogSchedules
    dfsState,         \* depth_first_search::mState: mState[i].mDone is dfsState[i + 1]
    recording,        \* what the program under test has performed in this run
    record,           \* records/record.txt
    failures          \* number of runs that left no record

explorationVars == <<program, phase, mSchedule, mExecution, from, index,
                     mNrExplorations, schedules, dfsState, recording, record, failures>>

NoRecord == [transitions |-> <<>>, status |-> "NONE"]

Running == {"loop", "run", "read", "update", "backtrack"}

\* mDone | max reached | "Invalid input program" | runtime_error thrown by replay
Terminal == {"done", "stopped", "invalid", "aborted"}

\* Type invariant of the explorer, the run and the record.
TypeOK ==
    /\ program \in Programs
    /\ phase \in Running \cup Terminal
    /\ mSchedule \in Seq(Tids)
    /\ mExecution \in Seq(Transitions)
    /\ from \in Nat \ {0}
    /\ index \in Nat \ {0}
    /\ mNrExplorations \in Nat
    /\ schedules \subseteq Seq(Tids)
    /\ dfsState \in Seq(SUBSET Tids)
    /\ recording \in Seq(Transitions)
    /\ record \in [transitions : Seq(Transitions), status : {"NONE", "DONE", "BLOCKED"}]
    /\ failures \in Nat

Init ==
    /\ program \in Programs
    /\ phase = "loop"
    /\ mSchedule = <<>>
    /\ mExecution = <<>>
    /\ from = 1
    /\ index = 1
    /\ mNrExplorations = 0
    /\ schedules = {}
    /\ dfsState = <<{}>>
    /\ recording = <<>>
    /\ record = NoRecord
    /\ failures = 0

-----------------------------------------------------------------------------
(* The loop of run() *)

\* The loop condition holds: write_scheduler_files (the reduction's part) and
\* start the program under mSchedule.
StartRun ==
    /\ phase = "loop"
    /\ mNrExplorations < MaxNrExplorations
    /\ phase' = "run"
    /\ recording' = <<>>
    /\ UNCHANGED <<program, mSchedule, mExecution, from, index, mNrExplorations,
                   schedules, dfsState, record, failures>>

LimitReached ==
    /\ phase = "loop"
    /\ mNrExplorations >= MaxNrExplorations
    /\ phase' = "stopped"
    /\ UNCHANGED <<program, mSchedule, mExecution, from, index, mNrExplorations,
                   schedules, dfsState, recording, record, failures>>

-----------------------------------------------------------------------------
(* The program under test, in its own process: scheduler::run_under_schedule *)

ProgramStep(t) ==
    /\ t \in Enabled(program, Final(recording))
    /\ recording' = Append(recording, TransitionFrom(program, Final(recording), t))
    /\ UNCHANGED <<program, phase, mSchedule, mExecution, from, index, mNrExplorations,
                   schedules, dfsState, record, failures>>

\* The scheduler follows the given schedule first.  There is no step that
\* deviates from it: a schedule that cannot be replayed shows as a deadlock.
ReplayScheduled ==
    /\ phase = "run"
    /\ Len(recording) < Len(mSchedule)
    /\ ProgramStep(mSchedule[Len(recording) + 1])

\* After the schedule, the selection strategy chooses thread t.
SelectThread(t) ==
    /\ phase = "run"
    /\ Len(recording) >= Len(mSchedule)
    /\ ProgramStep(t)

\* The run ends and its record replaces that of the previous run.
RunEnds(status) ==
    /\ phase = "run"
    /\ Len(recording) >= Len(mSchedule)
    /\ record' = [transitions |-> recording, status |-> status]
    /\ phase' = "read"
    /\ UNCHANGED <<program, mSchedule, mExecution, from, index, mNrExplorations,
                   schedules, dfsState, recording, failures>>

\* The run ends without writing a record (the program crashed or was killed by
\* the timeout); what record.txt holds, if it exists, is from an earlier run.
RunFails ==
    /\ phase = "run"
    /\ failures < MaxFailures
    /\ failures' = failures + 1
    /\ phase' = "read"
    /\ UNCHANGED <<program, mSchedule, mExecution, from, index, mNrExplorations,
                   schedules, dfsState, recording, record>>

-----------------------------------------------------------------------------
(* replay() reads the record; run() updates the search along it *)

\* replay() throws when record.txt cannot be parsed.
RecordMissing ==
    /\ phase = "read"
    /\ record = NoRecord
    /\ phase' = "aborted"
    /\ UNCHANGED <<program, mSchedule, mExecution, from, index, mNrExplorations,
                   schedules, dfsState, recording, record, failures>>

\* Mutant of ReadRecord: the schedule is not logged.
ReadRecordUnlogged ==
    /\ phase = "read"
    /\ record # NoRecord
    /\ mExecution' = record.transitions
    /\ mNrExplorations' = mNrExplorations + 1
    /\ mSchedule' = ScheduleOf(record.transitions)
    /\ index' = 1
    /\ phase' = "update"
    /\ UNCHANGED <<program, from, schedules, dfsState, recording, record, failures>>

\* replay() returns; mMode.reset(); update_state() counts the execution, takes
\* over its schedule, logs it, and enters its loop.
ReadRecord ==
    /\ phase = "read"
    /\ record # NoRecord
    /\ mExecution' = record.transitions
    /\ mNrExplorations' = mNrExplorations + 1
    /\ mSchedule' = ScheduleOf(record.transitions)
    /\ schedules' = schedules \cup {ScheduleOf(record.transitions)}
    /\ index' = 1
    /\ phase' = "update"
    /\ UNCHANGED <<program, from, dfsState, recording, record, failures>>

\* check_valid refuses the program after its first execution.
InvalidProgram ==
    /\ phase = "read"
    /\ record # NoRecord
    /\ mNrExplorations = 0
    /\ mExecution' = record.transitions
    /\ phase' = "invalid"
    /\ UNCHANGED <<program, mSchedule, from, index, mNrExplorations, schedules,
                   dfsState, recording, record, failures>>

\* Mutant of RestoreTransition: restores the first new transition, too.
RestoreOneTooMany ==
    /\ phase = "update"
    /\ index <= Len(mExecution)
    /\ index <= from
    /\ index' = index + 1
    /\ UNCHANGED <<program, phase, mSchedule, mExecution, from, mNrExplorations,
                   schedules, dfsState, recording, record, failures>>

\* depth_first_search::restore_state for a transition of the kept prefix.
RestoreTransition ==
    /\ phase = "update"
    /\ index <= Len(mExecution)
    /\ index < from
    /\ index' = index + 1
    /\ UNCHANGED <<program, phase, mSchedule, mExecution, from, mNrExplorations,
                   schedules, dfsState, recording, record, failures>>

\* depth_first_search::update_state for a new transition.
UpdateTransition ==
    /\ phase = "update"
    /\ index <= Len(mExecution)
    /\ index >= from
    /\ dfsState' = Append(dfsState, {})
    /\ index' = index + 1
    /\ UNCHANGED <<program, phase, mSchedule, mExecution, from, mNrExplorations,
                   schedules, recording, record, failures>>

\* The loop ends; move_records renames record.txt when records are kept.
FinishUpdate ==
    /\ phase = "update"
    /\ index > Len(mExecution)
    /\ record' = IF KeepRecords THEN NoRecord ELSE record
    /\ phase' = "backtrack"
    /\ UNCHANGED <<program, mSchedule, mExecution, from, index, mNrExplorations,
                   schedules, dfsState, recording, failures>>

-----------------------------------------------------------------------------
(* depth_first_search::new_schedule: one action per iteration of its loop *)

\* Mutants of PoppedDfsState: done is forgotten, or one state too early.
PoppedWithoutDone == Front(dfsState)

PoppedDoneTooEarly ==
    Front([dfsState EXCEPT ![Len(mExecution) - 1] = @ \cup {Last(mExecution).instr.tid}])

\* mState after update_after_exploration(E.last()) and pop_back().
PoppedDfsState ==
    Front([dfsState EXCEPT ![Len(mExecution)] = @ \cup {Last(mExecution).instr.tid}])

\* mState.back().undone(pool), after the pop.
Undone(pool) == pool \ Last(PoppedDfsState)

PopBack ==
    /\ phase = "backtrack"
    /\ mExecution # <<>>
    /\ mExecution' = Front(mExecution)
    /\ dfsState' = PoppedDfsState
    /\ UNCHANGED <<program, index, mNrExplorations, schedules, recording, record, failures>>

\* Mutant of ScheduleNext: without schedule.pop_back().
ScheduleNextUnpopped(next) ==
    /\ PopBack
    /\ mSchedule' = Append(mSchedule, next)
    /\ from' = Len(mSchedule')
    /\ phase' = "loop"

\* Mutant of ScheduleNext: next counts as done before its run has left a record.
ScheduleNextDoneTooEarly(next) ==
    /\ phase = "backtrack"
    /\ mExecution # <<>>
    /\ mExecution' = Front(mExecution)
    /\ dfsState' = [PoppedDfsState EXCEPT ![Len(mExecution)] = @ \cup {next}]
    /\ mSchedule' = Append(Front(mSchedule), next)
    /\ from' = Len(mSchedule')
    /\ phase' = "loop"
    /\ UNCHANGED <<program, index, mNrExplorations, schedules, recording, record, failures>>

\* The loop ends with the schedule of the popped execution extended by next.
ScheduleNext(next) ==
    /\ PopBack
    /\ mSchedule' = Append(Front(mSchedule), next)
    /\ from' = Len(mSchedule')
    /\ phase' = "loop"

\* Nothing to explore here: the loop goes on with the shorter execution.
BacktrackFurther ==
    /\ PopBack
    /\ mSchedule' = Front(mSchedule)
    /\ UNCHANGED <<phase, from>>

\* Mutant of Exhausted: an empty schedule is not taken for the end.
ExhaustedUnnoticed ==
    /\ phase = "backtrack"
    /\ mExecution = <<>>
    /\ phase' = "loop"
    /\ from' = Len(mSchedule)
    /\ UNCHANGED <<program, mSchedule, mExecution, index, mNrExplorations, schedules,
                   dfsState, recording, record, failures>>

\* The execution is empty: new_schedule returns the schedule that is left, and
\* run() sets mDone if that is empty.
Exhausted ==
    /\ phase = "backtrack"
    /\ mExecution = <<>>
    /\ phase' = IF mSchedule = <<>> THEN "done" ELSE "loop"
    /\ from' = IF mSchedule = <<>> THEN from ELSE Len(mSchedule)
    /\ UNCHANGED <<program, mSchedule, mExecution, index, mNrExplorations, schedules,
                   dfsState, recording, record, failures>>

Terminated == phase \in Terminal /\ UNCHANGED explorationVars

-----------------------------------------------------------------------------
(* Exploration with an arbitrary reduction: any thread may be selected in a *)
(* run, any run may be cut short (sleep sets), any subset of the enabled    *)
(* threads may be the pool, and a program may be refused.                   *)

PoolOfReduction == SUBSET Enabled(program, Final(Front(mExecution)))

Next ==
    \/ StartRun
    \/ LimitReached
    \/ ReplayScheduled
    \/ \E t \in Tids : SelectThread(t)
    \/ \E status \in {"DONE", "BLOCKED"} : RunEnds(status)
    \/ RunFails
    \/ RecordMissing
    \/ ReadRecord
    \/ InvalidProgram
    \/ RestoreTransition
    \/ UpdateTransition
    \/ FinishUpdate
    \/ \E next \in Tids : ScheduleNext(next) /\ \E pool \in PoolOfReduction : next \in Undone(pool)
    \/ BacktrackFurther
    \/ Exhausted
    \/ Terminated

Spec == Init /\ [][Next]_explorationVars

-----------------------------------------------------------------------------
(* Properties *)

\* The assertions of depth_first_search: restore_state finds a state for the
\* transition, update_state appends exactly at its index, and new_schedule has
\* one more state than there are transitions left (depth_first_search.hpp:97,
\* 108, 123).
AssertionsHold ==
    /\ phase = "update" /\ index <= Len(mExecution) =>
           IF index < from THEN Len(dfsState) > index ELSE Len(dfsState) = index
    /\ phase = "backtrack" => Len(dfsState) = Len(mExecution) + 1

\* The new schedule extends the schedule of the popped execution by one thread
\* that is enabled there (depth_first_search.hpp:158), so that from, the done
\* sets and the schedule speak of the same branch.
ScheduleExtendsExecution ==
    phase \in {"loop", "run", "read"} /\ mSchedule # <<>> =>
        /\ Front(mSchedule) = ScheduleOf(mExecution)
        /\ Last(mSchedule) \in Enabled(program, Final(mExecution))
        /\ Len(mSchedule) = from
        /\ Len(dfsState) = from

\* Whatever record.txt holds when replay() reads it, also one left by an earlier
\* run, it begins with the transitions for which run() restores rather than
\* updates state: update_state(from) never keeps state of another branch.
KeptPrefixIsReplayed ==
    phase = "read" /\ record # NoRecord =>
        /\ Len(record.transitions) >= Len(mSchedule)
        /\ \A i \in 1 .. Len(mExecution) : record.transitions[i] = mExecution[i]

\* A thread is in the done set of a state on the stack only if some logged
\* schedule took that thread there: nothing is skipped as done without a run.
DoneWasRun ==
    \A i \in 1 .. Len(dfsState) : \A t \in dfsState[i] :
        \E s \in schedules :
            /\ Len(s) >= i
            /\ s[i] = t
            /\ \A j \in 1 .. i - 1 : j <= Len(mExecution) => s[j] = mExecution[j].instr.tid

\* As long as every run leaves its record, no execution is explored twice:
\* whatever the reduction does, a schedule read back is not yet in the log.
NoScheduleTwice ==
    [][phase = "read" /\ phase' = "update" /\ failures = 0 => mSchedule' \notin schedules]_explorationVars

=============================================================================
