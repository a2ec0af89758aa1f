---------------------------- MODULE TraceInvariant ----------------------------
(***************************************************************************)
(* Mazurkiewicz traces, and what sleep sets are for: that the search goes  *)
(* through no trace twice.                                                 *)
(***************************************************************************)
EXTENDS DporInvariant, MaximalExecutions

\* Which instructions were performed, and in which order the dependent ones.
\* An instruction is named by its thread and its position there.
Event(transition) == <<transition.instr.tid, transition.pre.pc[transition.instr.tid]>>

TraceOf(e) ==
    [events |-> {Event(e[i]) : i \in 1 .. Len(e)},
     order  |-> {<<Event(e[ij[1]]), Event(e[ij[2]])>> :
                    ij \in {kl \in (1 .. Len(e)) \X (1 .. Len(e)) :
                               kl[1] < kl[2] /\ Dependent(e[kl[1]].instr, e[kl[2]].instr)}}]

\* As long as every run leaves its record, no two executions that were read back
\* are of the same trace, neither complete ones nor those that were cut short.
NoTraceTwice ==
    phase = "update" /\ failures = 0 /\ index > Len(mExecution) =>
        \A e \in ExecutionsOf(program) :
            ScheduleOf(e) \in schedules \ {mSchedule} => TraceOf(e) # TraceOf(mExecution)

-----------------------------------------------------------------------------
(* The inductive invariant of the sleep sets on the stack *)

\* What is done in a state sleeps there.
DoneSleeps ==
    phase \in Running =>
        \A k \in 1 .. Len(dfsState) : dfsState[k] \subseteq sufficient[k].sleep

\* What sleeps in a state of the branch sleeps in later ones, too, until it is
\* woken up.
SleepIsKept ==
    phase \in Running =>
        \A k \in 1 .. Len(sufficient) : \A j \in 1 .. k :
            k <= Len(mExecution) + 1 =>
                StillAsleep(program, sufficient[j].sleep, mExecution, j, k)
                    \subseteq sufficient[k].sleep

\* No transition of the branch is by a thread that sleeps before it.
BranchIsAwake ==
    phase \in Running /\ failures = 0 =>
        \A i \in 1 .. Len(mExecution) :
            i <= Len(sufficient) => mExecution[i].instr.tid \notin sufficient[i].sleep

TraceInv == DoneSleeps /\ SleepIsKept /\ BranchIsAwake

=============================================================================
