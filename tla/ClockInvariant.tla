---------------------------- MODULE ClockInvariant ----------------------------
(***************************************************************************)
(* What the clocks of dpor are worth: they are the happens-before relation *)
(* of the execution, and the races they are searched for are all found.    *)
(***************************************************************************)
EXTENDS DporInvariant, CausalOrder

\* The clocks are the transitive closure of dependence, also those that were
\* kept while the execution beyond them changed.
ClocksAreExact ==
    LET before == Before(mExecution)
    IN  \A i \in 1 .. Len(mHB.clocks) - 1 :
            i <= Len(mExecution) =>
                ClockAt(mHB, i) = ClockOfSet(mExecution, before[i], Size(mHB))

\* While update_state walks along the execution, the frontier holds the clock of
\* the last transition of every thread so far, over restored and new ones alike.
FrontierIsExact ==
    phase = "update" =>
        \A t \in Size(mHB) :
            LET last == LastBy(mExecution, 1 .. index - 1, t)
            IN  mHB.frontier[t] = IF last = 0 THEN ZeroClock(Size(mHB))
                                  ELSE [ClockAt(mHB, last) EXCEPT ![t] = last]

\* VectorClock compares and joins clocks of the same size only (vector_clock.cpp:31,
\* 43), and indexes them by threads it has entries for: all clocks, also those
\* kept while the execution changed, fit the threads of the new execution, and
\* every thread of a state along it has an entry.
ClockSizesAgree ==
    phase = "update" =>
        /\ \A i \in DOMAIN mHB.clocks : DOMAIN mHB.clocks[i] = Size(mHB)
        /\ \A t \in Size(mHB) : DOMAIN mHB.frontier[t] = Size(mHB)
        /\ \A i \in 1 .. Len(mExecution) :
               {t \in Tids : HasNext(program, mExecution[i].pre, t)} \subseteq Size(mHB)

\* The transition j does not happen before the next instruction of thread t
\* after pre(e, i) by way of a transition of t.
NotBeforeThread(e, i, j, t) ==
    \A k \in 1 .. i - 1 :
        e[k].instr.tid = t => j # k /\ j \notin Before(e)[k]

\* The transitions thread t could be reversed with, as persistent_set.hpp:56
\* defines Dep for the next instruction of t before transition i.
Dep(e, i, t) ==
    LET next == NextInstr(program, e[i].pre, t)
    IN  {j \in 1 .. i - 1 : /\ Dependent(e[j].instr, next)
                            /\ Coenabled(e[j].instr, next)
                            /\ NotBeforeThread(e, i, j, t)}

\* The points of the transition updated last, as of the state after it.
LastPoints == BacktrackPoints(program, mExecution, mHB, index - 1)

JustUpdated == phase = "update" /\ index > from

\* Every reversible race has its backtrack point: where Dep is not empty, a
\* point for the thread is found, and not before the last element of Dep.
NoRaceIsMissed ==
    JustUpdated =>
        \A t \in Tids :
            (HasNext(program, mExecution[index - 1].pre, t) /\ Dep(mExecution, index - 1, t) # {})
                => \E point \in LastPoints :
                       point.tid = t /\ point.index >= Max(Dep(mExecution, index - 1, t))

\* The points of Source are the races of the new transition, all of them and
\* nothing else: E[j] <: E[i] of happens_before.hpp:170, with j of another thread.
PointsAreRaces ==
    JustUpdated /\ sufficient_set_t = "Source" =>
        {point.index : point \in SourceBacktrackPoints(mExecution, mHB, index - 1)}
            = DirectlyBefore(mExecution, index - 1)

\* For every race, front returns the transitions that have nothing before them
\* in what is to be moved (happens_before.hpp:126), and its assertion holds that
\* the transitions of a thread are consecutive there (happens_before.cpp:102).
FrontIsExact ==
    JustUpdated /\ sufficient_set_t = "Source" =>
        \A point \in SourceBacktrackPoints(mExecution, mHB, index - 1) :
            LET moved == Reversal(mExecution, mHB, index - 1, point)
                before == Before(mExecution)
            IN  /\ FrontOf(mExecution, mHB, moved) = {j \in moved : before[j] \cap moved = {}}
                /\ \A j \in moved :
                       LET t == mExecution[j].instr.tid
                           seen == SeenBy(mExecution, moved, j, t)
                       IN  seen # {} => ClockAt(mHB, j)[t] = Max(seen)

\* The points are the last elements of Dep and nothing else.
PointsAreMaxDep ==
    JustUpdated =>
        \A point \in LastPoints : point.index \in Dep(mExecution, index - 1, point.tid)

-----------------------------------------------------------------------------
(* The inductive invariant of the clocks *)

\* There is an entry for every thread of the execution, and in the loop of
\* update_state for every thread that exists at its end.
ClocksHaveItsThreads ==
    /\ Size(mHB) \subseteq Tids
    /\ \A i \in 1 .. Len(mExecution) : mExecution[i].instr.tid \in Size(mHB)
    /\ phase = "update" => Size(mHB) = ThreadsOf(program, mExecution)

\* mHB[0] is the clock of no transition.
DummyIsZero == ClockAt(mHB, 0) = ZeroClock(Size(mHB))

\* What the clocks are, of any search that keeps them along its executions.
ClocksInv ==
    /\ Inv
    /\ ClocksAreAligned
    /\ mHB \in HappensBefores(Size(mHB))
    /\ ClocksHaveItsThreads
    /\ DummyIsZero
    /\ ClocksAreExact
    /\ FrontierIsExact

ClockInv ==
    /\ DporInv
    /\ DporTypeOK
    /\ ClocksInv

=============================================================================
