----------------------------- MODULE Enumeration -----------------------------
(***************************************************************************)
(* What an exploration promises: it goes through a given set of behaviours,*)
(* each exactly once, and finishes when none is left, which it does.       *)
(***************************************************************************)
EXTENDS Naturals, FiniteSets

VARIABLES
    universe,  \* the behaviours to explore: chosen at the start, never changed
    explored,  \* those explored so far
    count,     \* number of explorations
    finished

vars == <<universe, explored, count, finished>>

Init ==
    /\ IsFiniteSet(universe)
    /\ explored = {}
    /\ count = 0
    /\ finished = FALSE

Explore ==
    /\ ~finished
    /\ \E b \in universe \ explored : explored' = explored \cup {b}
    /\ count' = count + 1
    /\ UNCHANGED <<universe, finished>>

Finish ==
    /\ explored = universe
    /\ finished' = TRUE
    /\ UNCHANGED <<universe, explored, count>>

Next == Explore \/ Finish

Spec == Init /\ [][Next]_vars

\* Every exploration comes to its end.
Finishes == <>finished

=============================================================================
