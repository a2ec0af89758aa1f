----------------------------- MODULE HappensBefore -----------------------------
(***************************************************************************)
(* class HappensBefore<Dependence>: the happens-before relation of an      *)
(* execution, one vector clock per transition, and the frontier, the clock *)
(* of the last transition of each thread in the prefix looked at.          *)
(*                                                                         *)
(* h is the object: h.clocks[i + 1] is mHB[i] (mHB[0] is a dummy),         *)
(* h.frontier is mFrontier and h.index is mIndex.  e is mE, the execution  *)
(* it refers to; p the program.                                            *)
(***************************************************************************)
EXTENDS Dependence, VectorClock

HappensBefores(threads) ==
    [clocks : Seq(Clocks(threads)), frontier : [threads -> Clocks(threads)], index : Nat]

\* The clock of no transition for every thread: VectorClock(size), size times.
ZeroFrontier(threads) == [t \in threads |-> ZeroClock(threads)]

\* Constructed for an execution without transitions and threads.
InitialHB == [clocks |-> <<ZeroClock({})>>, frontier |-> ZeroFrontier({}), index |-> 0]

\* mE.nr_threads(), since reset()
Size(h) == DOMAIN h.frontier

\* mHB[i]
ClockAt(h, i) == h.clocks[i + 1]

-----------------------------------------------------------------------------

\* Mutant of CreateClock: without clock.max, the relation is not transitive.
CreateDirectClock(e, h, i, instr) ==
    LET join(j, c) ==
            IF j > c[e[j].instr.tid] /\ Dependent(e[j].instr, instr)
            THEN Set(c, e[j].instr.tid, j)
            ELSE c
        clock[n \in 0 .. i - 1] ==
            IF n = 0 THEN ZeroClock(Size(h)) ELSE join(i - n, clock[n - 1])
    IN  clock[i - 1]

\* detail::create_clock: the edges to instr after pre(e, i), collected from the
\* last transition backwards; a transition already below the clock is skipped,
\* and the loop ends when all that are left are.  clock[n]: after n transitions.
CreateClock(e, h, i, instr) ==
    LET join(j, c) ==
            IF /\ j > MinElement(c)
               /\ j > c[e[j].instr.tid]
               /\ Dependent(e[j].instr, instr)
            THEN Set(MaxClock(c, ClockAt(h, j)), e[j].instr.tid, j)
            ELSE c
        clock[n \in 0 .. i - 1] ==
            IF n = 0 THEN ZeroClock(Size(h)) ELSE join(i - n, clock[n - 1])
    IN  clock[i - 1]

\* update_frontier(e[i], clock)
UpdateFrontier(h, e, i, clock) ==
    LET t == e[i].instr.tid
    IN  [h EXCEPT !.frontier[t] = Set(clock, t, i), !.index = @ + 1]

\* update(i): the clock of the new transition e[i]
UpdateHB(h, e, i) ==
    LET clock == CreateClock(e, h, i, e[i].instr)
    IN  UpdateFrontier([h EXCEPT !.clocks = Append(@, clock)], e, i, clock)

\* restore(i): the frontier moves over a transition whose clock was kept
RestoreHB(h, e, i) == UpdateFrontier(h, e, i, ClockAt(h, i))

\* Mutant of PopBackHB: the clock stays.
PopBackOnlyFrontier(h) == [h EXCEPT !.index = 0]

\* pop_back(): the frontier is not reset, only marked invalid
PopBackHB(h) == [h EXCEPT !.clocks = Front(@), !.index = 0]

\* Mutants of ResetHB: the frontier is that of the previous execution, or the
\* clocks keep the size they had in it.
ResetKeepingFrontier(h, threads) ==
    [clocks   |-> [i \in DOMAIN h.clocks |-> Resize(h.clocks[i], threads)],
     frontier |-> [t \in threads |-> IF t \in Size(h) THEN Resize(h.frontier[t], threads)
                                     ELSE ZeroClock(threads)],
     index    |-> 0]

ResetWithoutResizing(h, threads) ==
    [h EXCEPT !.frontier = ZeroFrontier(threads), !.index = 0]

\* reset(): the clocks are kept, but for the threads of the new execution.
ResetHB(h, threads) ==
    [clocks   |-> [i \in DOMAIN h.clocks |-> Resize(h.clocks[i], threads)],
     frontier |-> ZeroFrontier(threads),
     index    |-> 0]

-----------------------------------------------------------------------------
(* Queries, valid when the frontier is that of pre+(e, i), i = h.index *)

\* clock(i, instr)
ClockOf(e, h, i, instr) ==
    IF instr.tid = e[i].instr.tid THEN ClockAt(h, i) ELSE CreateClock(e, h, i, instr)

\* The clocks that the walks below go over: of each thread a transition by it.
EdgesUpTo(e, threads, n) ==
    {c \in [threads -> 0 .. n] : \A t \in threads : c[t] # 0 => e[c[t]].instr.tid = t}

\* previous_by(tid): the clock of the previous transition by t in pre(e, h.index)
PreviousBy(e, h, t) ==
    IF e[h.index].instr.tid = t THEN ClockAt(h, ClockAt(h, h.index)[t]) ELSE h.frontier[t]

\* thread_transitive_reduction, and C[tid] = 0
ThreadTransitiveReduction(e, h, t, c) ==
    Set(FilterValuesGreaterThan(c, PreviousBy(e, h, t)), t, 0)

\* thread_transitive_relation
ThreadTransitiveRelation(e, h, ifrom, t) == IndicesGreaterThan(PreviousBy(e, h, t), ifrom)

\* Mutant of MaxDependent: gives up at the first maximum that does not qualify.
MaxDependentNoWalk(e, h, i, instr) ==
    LET j == MaxElement(ThreadTransitiveReduction(e, h, instr.tid, ClockOf(e, h, i, instr)))
    IN  IF j > 0 /\ Dependent(e[j].instr, instr) /\ Coenabled(e[j].instr, instr) THEN j ELSE 0

\* max_dependent(i, instr, true, true): the last transition that may be reversed
\* with instr, or 0.  From a maximum that does not qualify, the walk goes on to
\* the previous transition of the same thread.
MaxDependent(e, h, i, instr) ==
    LET qualifies(j) == Dependent(e[j].instr, instr) /\ Coenabled(e[j].instr, instr)
        walk[c \in EdgesUpTo(e, Size(h), i)] ==
            LET j == MaxElement(c)
                t == CHOOSE u \in Size(h) : c[u] = j
            IN  IF j = 0 \/ qualifies(j)
                THEN j
                ELSE walk[Set(c, t, ClockAt(h, j)[t])]
    IN  walk[ThreadTransitiveReduction(e, h, instr.tid, ClockOf(e, h, i, instr))]

\* Mutant of MaxDependentPerThread: gives a thread up at its last transition.
MaxDependentPerThreadNoWalk(e, h, i, instr) ==
    {j \in Range(ThreadTransitiveReduction(e, h, instr.tid, ClockOf(e, h, i, instr))) \ {0} :
        Dependent(e[j].instr, instr)}

\* max_dependent_per_thread(i, instr, true): for each thread the last transition
\* that instr depends on, not implied by instr's own thread, if there is one.
MaxDependentPerThread(e, h, i, instr) ==
    LET collect[c \in EdgesUpTo(e, Size(h), i)] ==
            LET j == MaxElement(c)
                t == CHOOSE u \in Size(h) : c[u] = j
            IN  IF j = 0
                THEN {}
                ELSE IF Dependent(e[j].instr, instr)
                THEN {j} \cup collect[Set(c, t, 0)]
                ELSE collect[Set(c, t, ClockAt(h, j)[t])]
    IN  collect[ThreadTransitiveReduction(e, h, instr.tid, ClockOf(e, h, i, instr))]

-----------------------------------------------------------------------------
(* Queries for source sets *)

\* happens_before(i1, i2)
IsBefore(e, h, i1, i2) == ClockAt(h, i2)[e[i1].instr.tid] >= i1

\* incomparable_after(i1, i2): what follows i1 before i2 and does not depend on it.
IncomparableAfter(e, h, i1, i2) == {j \in i1 + 1 .. i2 - 1 : ~IsBefore(e, h, i1, j)}

\* Mutant of Covering: without transitive_reduction.
CoveringUnreduced(e, h, i, instr) ==
    LET edges == ThreadTransitiveReduction(e, h, instr.tid, ClockOf(e, h, i, instr))
    IN  Range(edges) \ {0}

\* covering(i, instr): the transitions of other threads with an edge to instr
\* that is not implied by others, from the last one backwards.
Covering(e, h, i, instr) ==
    LET cover[c \in EdgesUpTo(e, Size(h), i)] ==
            LET j == MaxElement(c)
                reduced == FilterValuesGreaterThan(c, ClockAt(h, j))
            IN  IF j = 0 THEN {} ELSE {j} \cup cover[Set(reduced, e[j].instr.tid, 0)]
    IN  cover[ThreadTransitiveReduction(e, h, instr.tid, ClockOf(e, h, i, instr))]

\* Of the transitions in subseq, those by thread t before transition i, which
\* front has seen (between first_seen[t] and last_seen[t]) when it comes to i.
SeenBy(e, subseq, i, t) == {j \in subseq : j < i /\ e[j].instr.tid = t}

\* Mutant of FrontOf: looks for the first transition seen of each thread only.
FrontOfFirstSeen(e, h, subseq) ==
    {i \in subseq :
        \A t \in Size(h) :
            LET seen == SeenBy(e, subseq, i, t)
            IN  seen # {} => t # e[i].instr.tid /\ ClockAt(h, i)[t] # Min(seen)}

\* front(subseq): those transitions of subseq that are the first of their thread
\* in it and that nothing in it happens before.
FrontOf(e, h, subseq) ==
    {i \in subseq :
        \A t \in Size(h) :
            LET seen == SeenBy(e, subseq, i, t)
                last == ClockAt(h, i)[t]
            IN  seen # {} => /\ t # e[i].instr.tid
                             /\ last < Min(seen) \/ last > Max(seen)}

=============================================================================
