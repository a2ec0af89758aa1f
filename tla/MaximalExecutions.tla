-------------------------- MODULE MaximalExecutions --------------------------
(***************************************************************************)
(* Reference: all maximal executions of the programs, by breadth-first     *)
(* enumeration and without any of the explorer's machinery.  An execution  *)
(* is maximal when no thread is enabled in its final state: every thread   *)
(* finished, or the program deadlocked.                                    *)
(***************************************************************************)
EXTENDS ProgramModel

Extensions(p, e) ==
    {Append(e, TransitionFrom(p, Final(e), t)) : t \in Enabled(p, Final(e))}

\* The statements of p by thread and number; no execution has more transitions.
StatementsOf(p) == UNION {{t} \X (1 .. Len(p[t])) : t \in Tids}

LengthBound(p) == Cardinality(StatementsOf(p))

ExecutionsOf(p) ==
    LET ofLength[n \in 0 .. LengthBound(p)] ==
            IF n = 0 THEN {<<>>} ELSE UNION {Extensions(p, e) : e \in ofLength[n - 1]}
    IN  UNION {ofLength[n] : n \in 0 .. LengthBound(p)}

\* Every program with each of its maximal executions.  (A set of records, which
\* TLC computes once.)
MaximalExecutions ==
    UNION {{[program |-> p, execution |-> e] : e \in {x \in ExecutionsOf(p) : Enabled(p, Final(x)) = {}}}
              : p \in Programs}

=============================================================================
