------------------------------ MODULE VectorClock ------------------------------
(***************************************************************************)
(* class VectorClock: for every thread of an execution the index of a      *)
(* transition, or 0.  The size of a clock is the set of threads it has an  *)
(* entry for.                                                              *)
(***************************************************************************)
EXTENDS ProgramModel

\* The clocks of a size.
Clocks(threads) == [threads -> Nat]

\* VectorClock(n)
ZeroClock(threads) == [t \in threads |-> 0]

\* VectorClock(c, n): what c has no entry for starts at 0, other entries are dropped.
Resize(c, threads) == [t \in threads |-> IF t \in DOMAIN c THEN c[t] ELSE 0]

\* c[t] = v
Set(c, t, v) == [u \in DOMAIN c |-> IF u = t THEN v ELSE c[u]]

\* VectorClock::max, of clocks of the same size
MaxClock(c, d) == [t \in DOMAIN c |-> IF c[t] < d[t] THEN d[t] ELSE c[t]]

\* VectorClock::filter_values_greater_than, of clocks of the same size
FilterValuesGreaterThan(c, d) == [t \in DOMAIN c |-> IF c[t] <= d[t] THEN 0 ELSE c[t]]

\* min_element and max_element
MinElement(c) == Min(Range(c))
MaxElement(c) == Max(Range(c))

\* indices_such_that, with the predicate value > bound
IndicesGreaterThan(c, bound) == {t \in DOMAIN c : c[t] > bound}

=============================================================================
