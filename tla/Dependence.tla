------------------------------ MODULE Dependence ------------------------------
(***************************************************************************)
(* class Dependence: which instructions may not be reordered, and which may*)
(* be enabled together; and class SleepSet, which wakes threads by it.     *)
(***************************************************************************)
EXTENDS ProgramModel

SameThread(i1, i2) == i1.tid = i2.tid

SameOperand(i1, i2) == i1.obj = i2.obj

\* Mutant of IsMemoryModification: an atomic update is taken for a read.
IsStore(i) == i.op = "Store"

IsMemoryModification(i) == i.op \in {"Store", "ReadModifyWrite"}

IsLock(i) == i.op = "Lock"

IsUnlock(i) == i.op = "Unlock"

\* Mutant of LockUnlockSameObject: of any objects.
LockUnlock(i1, i2) ==
    \/ IsLock(i1) /\ IsUnlock(i2)
    \/ IsUnlock(i1) /\ IsLock(i2)

LockUnlockSameObject(i1, i2) ==
    /\ SameOperand(i1, i2)
    /\ \/ IsLock(i1) /\ IsUnlock(i2)
       \/ IsUnlock(i1) /\ IsLock(i2)

Dependent(i1, i2) ==
    \/ SameThread(i1, i2)
    \/ /\ SameOperand(i1, i2)
       /\ \/ IsMemoryModification(i1) \/ IsMemoryModification(i2)
          \/ IsLock(i1) \/ IsLock(i2)

Coenabled(i1, i2) == ~SameThread(i1, i2) /\ ~LockUnlockSameObject(i1, i2)

-----------------------------------------------------------------------------

\* SleepSet::wake_up: the threads of sleep that stay asleep when instr is
\* performed and leads to state s of program p.
WakeUp(sleep, instr, p, s) ==
    {t \in sleep : ~(HasNext(p, s, t) /\ Dependent(instr, NextInstr(p, s, t)))}

\* SleepSet::awake
Awake(sleep, tids) == tids \ sleep

=============================================================================
