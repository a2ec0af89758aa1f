------------------------------ MODULE Persistent ------------------------------
(***************************************************************************)
(* The sufficient-set implementation Persistent: for which transitions of  *)
(* the execution another thread must be tried first, and which one.        *)
(*                                                                         *)
(* S is dpor_base::mState: mState[i] is S[i + 1], a SufficientSet with the *)
(* threads to explore (backtrack) and those not to (sleep).                *)
(***************************************************************************)
EXTENDS HappensBefore

SufficientSets == [backtrack : SUBSET Tids, sleep : SUBSET Tids]

\* Persistent::backtrack_points(E, i, HB): for every thread with a next
\* instruction before transition i, the last transition it could be reversed with.
BacktrackPoints(p, e, h, i) ==
    LET s == e[i].pre
        maxdep(t) == MaxDependent(e, h, i, NextInstr(p, s, t))
    IN  {[tid |-> t, index |-> maxdep(t)] : t \in {u \in Tids : HasNext(p, s, u) /\ maxdep(u) > 0}}

\* Persistent::alternatives: enabled awake threads through which point.tid
\* depends on what follows point.index.
Alternatives(p, e, h, sleep, point) ==
    Awake(sleep, (ThreadTransitiveRelation(e, h, point.index, point.tid) \cup {point.tid})
                 \cap Enabled(p, e[point.index].pre))

\* Mutant of AddedByPoint: without the threads to try in place of a disabled one.
AddedByPointItself(p, e, h, S, point) ==
    {point.tid} \cap Awake(S[point.index].sleep, Enabled(p, e[point.index].pre))

\* Persistent::add_backtrack_point: what it adds to the backtrack set of the
\* state before transition point.index.
AddedByPoint(p, e, h, S, point) ==
    LET enabled == Enabled(p, e[point.index].pre)
        sleep == S[point.index].sleep
        alternatives == Alternatives(p, e, h, sleep, point)
    IN  IF point.tid \in enabled /\ point.tid \notin sleep
        THEN {point.tid}
        ELSE IF alternatives # {}
        THEN {t \in alternatives : \A u \in alternatives : t <= u}
        ELSE enabled

=============================================================================
