---------------------------- MODULE TraceCoverage ----------------------------
(***************************************************************************)
(* What dpor is for: that at its end every Mazurkiewicz trace of the       *)
(* program has been explored, and with the traces all that its threads can *)
(* see of each other.                                                      *)
(***************************************************************************)
EXTENDS ClockInvariant, TraceInvariant

\* The event that wrote object o last in the first n transitions of e, if any.
LastWrite(e, n, o) ==
    LET writes == {j \in 1 .. n : /\ e[j].instr.obj = o
                                  /\ e[j].instr.op \in {"Store", "ReadModifyWrite"}}
    IN  {Event(e[j]) : j \in {k \in writes : \A l \in writes : l <= k}}

\* What the threads and whoever looks at the memory afterwards can see of e: which
\* write every read reads from, and which one is the last of each object.
ObservationOf(e) ==
    [reads |-> {<<Event(e[i]), LastWrite(e, i - 1, e[i].instr.obj)>> :
                   i \in {j \in 1 .. Len(e) : e[j].instr.op \in {"Load", "ReadModifyWrite"}}},
     final |-> [o \in Objects |-> LastWrite(e, Len(e), o)]]

MaximalTraces ==
    {[program     |-> m.program,
      schedule    |-> ScheduleOf(m.execution),
      trace       |-> TraceOf(m.execution),
      observation |-> ObservationOf(m.execution)] : m \in MaximalExecutions}

AllTraces == {m.trace : m \in {x \in MaximalTraces : x.program = program}}

ExploredTraces ==
    {m.trace : m \in {x \in MaximalTraces : x.program = program /\ x.schedule \in schedules}}

\* Every behaviour of the program is seen by its end, whatever Dependence takes to
\* be one: what an execution lets the threads read, an explored one does, too.
ObservationsCovered ==
    phase = "done" =>
        {m.observation : m \in {x \in MaximalTraces : x.program = program}}
            = {m.observation : m \in {x \in MaximalTraces :
                                         x.program = program /\ x.schedule \in schedules}}

\* The sufficient sets are sufficient "to cover the space of behaviours
\* reachable" (sufficient_set.hpp:28-30), whatever the program.
AllTracesCovered == phase = "done" => AllTraces \subseteq ExploredTraces

-----------------------------------------------------------------------------
(* Enumeration of the Mazurkiewicz traces *)

EnumerationOfTraces ==
    INSTANCE Enumeration WITH
        universe <- AllTraces,
        explored <- ExploredTraces,
        count <- mNrExplorations - nrSleepsetBlocked,
        finished <- (phase = "done")

\* Of programs without a deadlock, the search goes through every trace, each
\* by exactly one execution; runs blocked by sleep sets do not count.
EnumeratesTraces == EnumerationOfTraces!Spec

\* Backtrack points are found only finitely often: the search ends with mDone set.
DporFinishes == EnumerationOfTraces!Finishes

=============================================================================
