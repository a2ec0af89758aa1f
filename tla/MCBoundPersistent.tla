--------------------------- MODULE MCBoundPersistent ---------------------------
(***************************************************************************)
(* TLC instances of BoundPersistent, compared with the traces of all       *)
(* maximal executions within the bound.                                    *)
(***************************************************************************)
EXTENDS BoundPersistentInvariant, MCDpor

\* Programs of three threads and, with a third one without statements, of two.  What
\* thread 2 races with in the last one need not be the last transition of thread 0 that
\* happens before it.
MCBoundedPrograms ==
    {Three(p[0], p[1], <<>>) : p \in MCMemoryPrograms} \cup MCLongThreeThreads
        \cup {Three(<<W("z"), W("y")>>, <<R("y"), W("z")>>, <<R("z")>>)}

\* The traces that have an execution within the bound.
TracesWithin ==
    {TraceOf(m.execution) :
        m \in {x \in MaximalExecutions : /\ x.program = program
                                         /\ PreemptionsOf(program, x.execution) <= mBound}}

\* "for every Execution E of P with BoundFunction.value(E) <= k the exploration
\* has seen an Execution E' that is equivalent" (bound_persistent_set.hpp:258-260).
BoundedComplete == phase = "done" => TracesWithin \subseteq ExploredTraces

=============================================================================
