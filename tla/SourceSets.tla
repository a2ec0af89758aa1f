------------------------------ MODULE SourceSets ------------------------------
(***************************************************************************)
(* The sufficient-set implementation Source: every race of a new transition*)
(* is reversed by one thread of the front of what does not depend on the   *)
(* race's first transition.                                                *)
(***************************************************************************)
EXTENDS Persistent

\* Execution::contains_locks
ContainsLocks(e) == \E i \in 1 .. Len(e) : e[i].instr.op \in LockOperations

\* Source::backtrack_points(E, i, HB): the thread of e[i] with each transition
\* that covers e[i].
SourceBacktrackPoints(e, h, i) ==
    {[tid |-> e[i].instr.tid, index |-> j] : j \in Covering(e, h, i, e[i].instr)}

\* The transitions that reversing the race of point with e[i] puts before it.
Reversal(e, h, i, point) == IncomparableAfter(e, h, point.index, i) \cup {i}

\* Mutant of Sources: of all that is moved, not only of its front.
SourcesUnordered(e, h, i, point) == {e[j].instr.tid : j \in Reversal(e, h, i, point)}

\* The threads that can start it.
Sources(e, h, i, point) == {e[j].instr.tid : j \in FrontOf(e, h, Reversal(e, h, i, point))}

\* Source::add_backtrack_point: what it adds to the backtrack set of the state
\* before transition point.index, when update_state is at transition i.
AddedBySource(e, h, S, i, point) ==
    LET sources == Sources(e, h, i, point)
    IN  IF S[point.index].backtrack \cap sources # {}
        THEN {}
        ELSE IF point.tid \in sources
        THEN {point.tid}
        ELSE {t \in sources : \A u \in sources : t <= u}

=============================================================================
