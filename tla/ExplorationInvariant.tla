------------------------- MODULE ExplorationInvariant -------------------------
(***************************************************************************)
(* The inductive invariant of Exploration: what the properties of that     *)
(* module rest on.  TLC checks it on small instances, ExplorationProofs    *)
(* proves it for all.                                                      *)
(***************************************************************************)
EXTENDS Exploration

BeforeUpdate == {"loop", "run", "read"}

\* What was recorded, read or kept is an execution of the program under test.
ExecutionsAreValid ==
    /\ IsExecution(program, mExecution)
    /\ IsExecution(program, recording)
    /\ IsExecution(program, record.transitions)

\* Schedule, execution, from and the states of the search speak of one branch.
SearchIsAligned ==
    /\ phase \in BeforeUpdate =>
        /\ from = Len(mExecution) + 1
        /\ Len(dfsState) = from
        /\ IF mSchedule = <<>>
           THEN mExecution = <<>>
           ELSE /\ Len(mSchedule) = from
                /\ \A i \in 1 .. Len(mExecution) : mSchedule[i] = mExecution[i].instr.tid
                /\ mSchedule[from] \in Enabled(program, Final(mExecution))
    /\ phase = "update" =>
        /\ mSchedule = ScheduleOf(mExecution)
        /\ index <= Len(mExecution) + 1
        /\ from <= Len(mExecution) + 1
        /\ Len(dfsState) = IF index <= from THEN from ELSE index
    /\ phase = "backtrack" =>
        /\ mSchedule = ScheduleOf(mExecution)
        /\ Len(dfsState) = Len(mExecution) + 1

\* The run makes the transitions of the kept prefix again, and then the one the
\* schedule adds.
RunFollowsSearch ==
    phase \in {"run", "read"} =>
        /\ \A i \in 1 .. Len(recording) : i <= Len(mSchedule) => recording[i].instr.tid = mSchedule[i]
        /\ \A i \in 1 .. Len(recording) : i <= Len(mExecution) => recording[i] = mExecution[i]

\* The record, of this run or of an earlier one, extends the kept prefix.
RecordExtendsSearch ==
    record # NoRecord /\ phase \in Running =>
        /\ phase \in BeforeUpdate => Len(record.transitions) >= Len(mSchedule)
        /\ Len(record.transitions) >= Len(mExecution)
        /\ \A i \in 1 .. Len(mExecution) : record.transitions[i] = mExecution[i]

\* Without failures the record that is read is that of the last run.
RecordIsFresh ==
    phase = "read" /\ failures = 0 =>
        /\ record.transitions = recording
        /\ Len(recording) >= Len(mSchedule)

\* Some logged schedule runs along the whole execution.
ExecutionIsLogged ==
    phase \in {"update", "backtrack"} =>
        \E s \in schedules :
            /\ Len(s) >= Len(mExecution)
            /\ \A j \in 1 .. Len(mExecution) : s[j] = mExecution[j].instr.tid

\* No thread of the current branch is done yet at the state where it was chosen;
\* before the first run nothing is.
BranchIsUndone ==
    /\ phase \in Running /\ failures = 0 =>
        \A i \in 1 .. Len(mExecution) : i <= Len(dfsState) => mExecution[i].instr.tid \notin dfsState[i]
    /\ phase \in BeforeUpdate =>
        IF mSchedule = <<>> THEN dfsState[from] = {} ELSE mSchedule[from] \notin dfsState[from]

\* s leaves the current branch by a thread that is done there.
Diverges(s) ==
    \E k \in 1 .. Len(dfsState) :
        /\ k <= Len(s)
        /\ k - 1 <= Len(mExecution)
        /\ s[k] \in dfsState[k]
        /\ \A j \in 1 .. k - 1 : s[j] = mExecution[j].instr.tid

\* Every logged schedule but the current one has left the current branch.
LoggedDiverge ==
    /\ phase \in Running /\ failures = 0 =>
        \A s \in schedules : (phase \in {"update", "backtrack"} /\ s = mSchedule) \/ Diverges(s)
    /\ phase \in BeforeUpdate /\ mSchedule = <<>> => schedules = {}

Inv ==
    /\ TypeOK
    /\ ExecutionsAreValid
    /\ SearchIsAligned
    /\ RunFollowsSearch
    /\ RecordExtendsSearch
    /\ RecordIsFresh
    /\ ExecutionIsLogged
    /\ BranchIsUndone
    /\ LoggedDiverge
    /\ DoneWasRun

=============================================================================
