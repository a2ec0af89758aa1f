----------------------------- MODULE Preemptions -----------------------------
(***************************************************************************)
(* The bound function bound_functions::Preemptions: the number of context  *)
(* switches away from a thread that could have continued.                  *)
(***************************************************************************)
EXTENDS ProgramModel

\* Preemptions::step_value(last, tid): what performing tid after the transition
\* last adds.
StepValue(p, last, tid) ==
    IF last.instr.tid # tid /\ last.instr.tid \in Enabled(p, last.post) THEN 1 ELSE 0

\* Mutant of Value: the bound value of the state before the wrong transition.
ValueOfPredecessor(p, e, S, idx, tid) ==
    IF idx < 1 THEN 0 ELSE S[idx] + StepValue(p, e[idx], tid)

\* LocalBoundFunction::value: the bound value of pre+(E, idx).tid, from the
\* states S of the search.  E[idx] of the code is e[idx]; S[idx] is S[idx + 1].
Value(p, e, S, idx, tid) ==
    IF idx < 1 THEN 0 ELSE S[idx + 1] + StepValue(p, e[idx], tid)

\* Reference: transition i of e preempts the thread of the previous one.
PreemptingTransitions(p, e) ==
    {i \in 2 .. Len(e) : e[i].instr.tid # e[i - 1].instr.tid
                         /\ e[i - 1].instr.tid \in Enabled(p, e[i].pre)}

PreemptionsOf(p, e) == Cardinality(PreemptingTransitions(p, e))

=============================================================================
