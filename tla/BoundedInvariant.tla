--------------------------- MODULE BoundedInvariant ---------------------------
(***************************************************************************)
(* The inductive invariant of BoundedSearch: that of Exploration, the      *)
(* bound values of the kept prefix, and what they say about the preemptions *)
(* of the next schedule, of the run and of the record.                     *)
(***************************************************************************)
EXTENDS BoundedSearch, PreemptionBound

\* The number of preemptions an explored execution may have.
Allowed == IF mBoundValue < 0 THEN 0 ELSE mBoundValue

BoundedInv ==
    /\ Inv
    /\ BoundedTypeOK
    /\ BoundAssertionsHold
    /\ BoundValueIsExact
    /\ NextIsWithin(boundState, Allowed)
    /\ RunIsWithin(Allowed)
    /\ RecordIsWithin(Allowed)
    /\ WithinBound

=============================================================================
