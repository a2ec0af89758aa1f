---------------------------- MODULE ProgramModel ----------------------------
(***************************************************************************)
(* The multithreaded program under test and its executions, as the state-  *)
(* space explorer sees them through the Record-Replay library: visible     *)
(* instructions on memory and lock objects, states with their enabled      *)
(* threads and next instructions, transitions, executions and schedules.   *)
(*                                                                         *)
(* The library is a submodule that is not part of the repository, so this  *)
(* module is EXTERNAL: it models program_model and scheduler from the way  *)
(* src/src uses them (State::has_next, next, is_enabled, enabled;          *)
(* Transition::instr, pre, post, index; Execution::last, final, pop_last,  *)
(* size, empty, nr_threads).  Creating and joining threads are not visible  *)
(* instructions (src/src/dependence.cpp knows none), only their effects are.*)
(***************************************************************************)
EXTENDS Integers, FiniteSets, SequencesExt

CONSTANTS
    Tids,      \* thread identifiers, Thread::tid_t
    Objects,   \* memory locations and locks, the operands of instructions
    Programs   \* the programs under test

MemoryOperations == {"Load", "Store", "ReadModifyWrite"}
LockOperations == {"Lock", "Unlock"}

\* One line of a thread's straight-line code.  The thread gets to it when for each
\* <<u, n>> in after thread u has performed n statements: at the first line of a
\* thread that u creates then, or behind a join of u.
Statements ==
    [op : MemoryOperations \cup LockOperations, obj : Objects, after : SUBSET (Tids \X Nat)]

\* A visible instruction: a statement together with the thread performing it.
Instructions ==
    [tid : Tids, op : MemoryOperations \cup LockOperations, obj : Objects]

ASSUME TidsAssumption == Tids \subseteq Nat /\ IsFiniteSet(Tids)

ASSUME ProgramsAssumption == Programs \subseteq [Tids -> Seq(Statements)]

-----------------------------------------------------------------------------
(* States *)

NoOwner == -1

\* How far each thread is, and which thread holds each lock.
States == [pc : [Tids -> Nat], owner : [Objects -> Tids \cup {NoOwner}]]

InitialState == [pc |-> [t \in Tids |-> 0], owner |-> [o \in Objects |-> NoOwner]]

\* In s, thread t has got to its line k.
Reached(p, s, t, k) == \A un \in p[t][k].after : s.pc[un[1]] >= un[2]

HasNext(p, s, t) == s.pc[t] < Len(p[t]) /\ Reached(p, s, t, s.pc[t] + 1)

\* s.next(t).instr; meaningful only if HasNext(p, s, t).
NextInstr(p, s, t) ==
    LET statement == p[t][s.pc[t] + 1]
    IN  [tid |-> t, op |-> statement.op, obj |-> statement.obj]

\* A thread waiting for a lock that is held is disabled.
IsEnabled(p, s, t) ==
    /\ HasNext(p, s, t)
    /\ NextInstr(p, s, t).op = "Lock" => s.owner[NextInstr(p, s, t).obj] = NoOwner

Enabled(p, s) == {t \in Tids : IsEnabled(p, s, t)}

\* The state after instr is performed in s.
Perform(s, instr) ==
    [pc    |-> [s.pc EXCEPT ![instr.tid] = @ + 1],
     owner |-> CASE instr.op = "Lock"   -> [s.owner EXCEPT ![instr.obj] = instr.tid]
                 [] instr.op = "Unlock" -> [s.owner EXCEPT ![instr.obj] = NoOwner]
                 [] OTHER               -> s.owner]

-----------------------------------------------------------------------------
(* Transitions, executions, schedules *)

Transitions == [instr : Instructions, pre : States, post : States]

TransitionFrom(p, s, t) ==
    [instr |-> NextInstr(p, s, t), pre |-> s, post |-> Perform(s, NextInstr(p, s, t))]

\* E.final(): the state an execution leads to.
Final(e) == IF e = <<>> THEN InitialState ELSE Last(e).post

\* The threads of E, of which there are E.nr_threads(): those created by its end.
ThreadsOf(p, e) == {t \in Tids : p[t] # <<>> => Reached(p, Final(e), t, 1)}

\* The state before the i-th transition of e (1-based, as Transition::index).
StateBefore(e, i) == IF i = 1 THEN InitialState ELSE e[i - 1].post

\* e is an execution of program p: every transition is an enabled step of the
\* thread that performs it, from the state the previous one leads to.
IsExecution(p, e) ==
    \A i \in 1 .. Len(e) :
        LET t == e[i].instr.tid
        IN  /\ t \in Enabled(p, StateBefore(e, i))
            /\ e[i] = TransitionFrom(p, StateBefore(e, i), t)

\* scheduler::schedule(E)
ScheduleOf(e) == [i \in 1 .. Len(e) |-> e[i].instr.tid]

\* The scheduler's NonPreemptive strategy: the current thread if it may be
\* selected, otherwise any other (the library's choice is not in this repository).
NonPreemptive(e, selection) ==
    IF e # <<>> /\ Last(e).instr.tid \in selection
    THEN {Last(e).instr.tid}
    ELSE selection

=============================================================================
