------------------------------ MODULE CausalOrder ------------------------------
(***************************************************************************)
(* Reference: the happens-before relation of an execution, which is the    *)
(* transitive closure of dependence in the order of the transitions, with  *)
(* none of the clocks that class HappensBefore represents it by.           *)
(***************************************************************************)
EXTENDS HappensBefore

\* For every transition of e, the transitions that happen before it.
Before(e) ==
    LET before[n \in 0 .. Len(e)] ==
            IF n = 0
            THEN <<>>
            ELSE LET shorter == before[n - 1]
                 IN  Append(shorter, UNION {{j} \cup shorter[j] :
                         j \in {k \in 1 .. n - 1 : Dependent(e[k].instr, e[n].instr)}})
    IN  before[Len(e)]

\* What happens before instr when it is performed in place of transition i of e.
Past(e, i, instr) ==
    UNION {{j} \cup Before(e)[j] : j \in {k \in 1 .. i - 1 : Dependent(e[k].instr, instr)}}

\* The last element of the set js of transitions that is by thread t, or 0.
LastBy(e, js, t) == Max({0} \cup {j \in js : e[j].instr.tid = t})

\* The clock of a set of transitions: the last one of every thread.
ClockOfSet(e, js, threads) == [t \in threads |-> LastBy(e, js, t)]

\* The transitions of other threads that transition i depends on directly.
DirectlyBefore(e, i) ==
    LET before == Before(e)
    IN  {j \in before[i] : /\ e[j].instr.tid # e[i].instr.tid
                           /\ \A k \in before[i] : j \notin before[k]}

=============================================================================
