----------------------------- MODULE DporInvariant -----------------------------
(***************************************************************************)
(* The inductive invariant of Dpor as far as it makes Dpor an Exploration: *)
(* the stack of sufficient sets and what may be in them.  Source assumes   *)
(* that threads do not disable each other, Persistent assumes nothing.     *)
(***************************************************************************)
EXTENDS Dpor, ExplorationInvariant

\* All threads of p are there from the start, and none is joined.
NoThreadAwaited(p) == \A t \in Tids : \A k \in 1 .. Len(p[t]) : p[t][k].after = {}

HasNoLocks(p) == \A t \in Tids : \A k \in 1 .. Len(p[t]) : p[t][k].op \notin LockOperations

\* No thread of p is ever disabled or waits for another one to get to its next
\* statement.
NeverWaits(p) == NoThreadAwaited(p) /\ HasNoLocks(p)

\* What the theorems about both sufficient sets assume of the programs.  There may be
\* locks in them: it is for check_valid to refuse those.
ValidPrograms == sufficient_set_t = "Persistent" \/ \A p \in Programs : NoThreadAwaited(p)

\* What the theorem about Coenabled assumes of them: whenever a thread may release
\* a lock, it holds that lock.
ReleasesOwnLocks ==
    \A p \in Programs : \A e \in Seq(Transitions) :
        IsExecution(p, e) =>
            \A t \in Enabled(p, Final(e)) :
                LET instr == NextInstr(p, Final(e), t)
                IN  IsUnlock(instr) => Final(e).owner[instr.obj] = t

\* No thread of e is ever set back, so what it performs later was ahead of it.
ThreadsAdvance(e) ==
    \A j \in 1 .. Len(e) : \A i \in 1 .. j : \A t \in Tids : e[i].pre.pc[t] <= e[j].pre.pc[t]

\* The clocks stay in step with the states of the search, and while the loop of
\* update_state runs, the frontier with the loop.
ClocksAreAligned ==
    /\ mHB \in [clocks : Seq(Range(mHB.clocks)), frontier : {mHB.frontier}, index : Nat]
    /\ Len(mHB.clocks) = Len(dfsState)
    /\ phase = "update" => mHB.index = index - 1

\* As long as e has performed no lock operation, all locks are free, and no thread of
\* p has one behind it.
ShowsItsLocks(p, e) ==
    ~ContainsLocks(e) =>
        /\ \A o \in Objects : Final(e).owner[o] = NoOwner
        /\ \A t \in Tids : \A k \in 1 .. Len(p[t]) :
               k <= Final(e).pc[t] => p[t][k].op \notin LockOperations

\* The first run ends when no thread is enabled, for nobody sleeps yet; so the
\* execution that check_valid sees shows the locks of the program.
CheckIsEnough ==
    /\ ShowsItsLocks(program, recording)
    /\ ShowsItsLocks(program, record.transitions)
    /\ phase \in {"update", "backtrack"} => mNrExplorations # 0
    /\ mNrExplorations = 0 =>
           /\ mSleep = {}
           /\ \A i \in 1 .. Len(sufficient) : sufficient[i].sleep = {}
           /\ record # NoRecord => Enabled(program, Final(record.transitions)) = {}
    /\ mNrExplorations # 0 /\ sufficient_set_t = "Source" => HasNoLocks(program)

DporInv ==
    /\ Inv
    /\ ThreadsAdvance(mExecution)
    /\ ThreadsAdvance(recording)
    /\ ThreadsAdvance(record.transitions)
    /\ sufficient \in Seq(SufficientSets)
    /\ Len(sufficient) = Len(dfsState)
    /\ ClocksAreAligned
    /\ mSleep \subseteq Tids
    /\ BacktrackIsEnabled
    /\ CheckIsEnough

-----------------------------------------------------------------------------
(* The inductive invariant of the sleep sets *)

\* The transition wakes thread t of program p up.
Wakes(p, transition, t) ==
    /\ HasNext(p, transition.post, t)
    /\ Dependent(transition.instr, NextInstr(p, transition.post, t))

\* The threads of sleep, the sleep set before the transition first of e, that still
\* sleep before the i-th transition of e.
StillAsleep(p, sleep, e, first, i) ==
    {t \in sleep : \A j \in first .. i - 1 : ~Wakes(p, e[j], t)}

\* Those of the sleep set at the branching point.
SleepAlong(e, i) == StillAsleep(program, sufficient[from].sleep, e, from, i)

\* From the branching point on, no transition of e is by a thread that sleeps.
StaysAwake(e) == \A i \in from .. Len(e) : e[i].instr.tid \notin SleepAlong(e, i)

\* Every thread that is enabled after e sleeps there.
EndsAsleep(e) == Enabled(program, Final(e)) \subseteq SleepAlong(e, Len(e) + 1)

\* The scheduler takes up the sleep set where the schedule ends.
SchedulerSleeps ==
    phase = "run" =>
        IF Len(recording) < Len(mSchedule)
        THEN mSleep = sufficient[from].sleep
        ELSE UpdatedSleep = SleepAlong(recording, Len(recording) + 1)

SleepInv ==
    /\ phase \in BeforeUpdate /\ mSchedule # <<>> =>
           mSchedule[from] \notin sufficient[from].sleep
    /\ SchedulerSleeps
    /\ phase \in {"run", "read"} => StaysAwake(recording)
    /\ phase = "read" /\ failures = 0 /\ record.status = "BLOCKED" => EndsAsleep(recording)
    /\ phase = "update" =>
           \A k \in from .. Len(sufficient) : sufficient[k].sleep = SleepAlong(mExecution, k)
    /\ phase = "update" /\ failures = 0 =>
           /\ StaysAwake(mExecution)
           /\ record.status = "BLOCKED" => EndsAsleep(mExecution)

=============================================================================
