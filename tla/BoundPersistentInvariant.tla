----------------------- MODULE BoundPersistentInvariant -----------------------
(***************************************************************************)
(* The inductive invariant of BoundPersistent: it makes the search an      *)
(* Exploration and keeps its executions within the bound.                  *)
(***************************************************************************)
EXTENDS BoundPersistent, PreemptionBound, ClockInvariant

BPInv ==
    /\ Inv
    /\ mBound \in Nat
    /\ sufficient \in Seq(SufficientSets)
    /\ boundStates \in Seq(BoundStates)
    /\ Len(sufficient) = Len(dfsState)
    /\ BacktrackIsEnabled
    /\ BoundStatesAreExact
    /\ NextIsWithin(Values(boundStates), mBound)
    /\ RunIsWithin(mBound)
    /\ RecordIsWithin(mBound)
    /\ ExploredWithinBound

-----------------------------------------------------------------------------
(* The backtrack points of a new transition *)

\* The transitions of thread u before transition i that the next instruction of thread t
\* there depends on.
DependentBy(e, i, t, u) ==
    {j \in 1 .. i - 1 : /\ e[j].instr.tid = u
                        /\ Dependent(e[j].instr, NextInstr(program, e[i].pre, t))}

\* The points for thread t at transitions of thread u, of the transition updated last.
PointsAt(t, u) ==
    {point.index : point \in {q \in BPBacktrackPoints(program, mExecution, mHB, index - 1) :
                                 q.tid = t /\ mExecution[q.index].instr.tid = u}}

\* Whatever max_dependent_per_thread comes past in its reduced clock ("#todo show
\* thread-transitive-red still holds", happens_before.hpp:338), a point is at the last
\* transition of its thread that the next instruction depends on, and there is one for
\* each thread of which some such transition does not happen before that instruction's
\* own thread.
PointsOfEachThread ==
    JustUpdated =>
        \A t, u \in Tids : HasNext(program, mExecution[index - 1].pre, t) =>
            LET js == DependentBy(mExecution, index - 1, t, u)
                points == PointsAt(t, u)
            IN  /\ points \subseteq {j \in js : t # u /\ \A k \in js : k <= j}
                /\ (\E j \in js : NotBeforeThread(mExecution, index - 1, j, t)) => points # {}

=============================================================================
