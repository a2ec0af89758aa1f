---------------------------- MODULE PreemptionBound ----------------------------
(***************************************************************************)
(* What the two searches with a bound on preemptions have in common: their *)
(* bound values are numbers of preemptions, and what is within the bound   *)
(* when it is scheduled stays so while it is run and read back.            *)
(***************************************************************************)
EXTENDS ExplorationInvariant, Preemptions

\* The sequence S holds the number of preemptions in each prefix of e.
ValuesAreExact(p, e, S) ==
    \A i \in 1 .. Len(S) : i - 1 <= Len(e) => S[i] = PreemptionsOf(p, SubSeq(e, 1, i - 1))

\* By the bound values S, the thread that the next schedule adds is within k.
NextIsWithin(S, k) ==
    phase \in BeforeUpdate /\ mSchedule # <<>> =>
        Value(program, mExecution, S, Len(mExecution), mSchedule[from]) <= k

\* Having followed the schedule, the run adds no preemption.
RunIsWithin(k) ==
    phase = "run" /\ Len(recording) >= Len(mSchedule) => PreemptionsOf(program, recording) <= k

RecordIsWithin(k) == PreemptionsOf(program, record.transitions) <= k

ExecutionIsWithin(k) ==
    phase \in {"update", "backtrack"} => PreemptionsOf(program, mExecution) <= k

\* A step of the program under test follows the schedule, or the nonpreemptive
\* strategy after it.
RunsNonPreemptively ==
    \/ UNCHANGED recording
    \/ StartRun
    \/ ReplayScheduled
    \/ \E t \in NonPreemptive(recording, Enabled(program, Final(recording))) : SelectThread(t)

=============================================================================
