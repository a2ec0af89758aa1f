-------------------------------- MODULE MCDpor --------------------------------
(***************************************************************************)
(* TLC instances of Dpor, compared with a reference that uses none of its  *)
(* data structures: the Mazurkiewicz traces of all maximal executions      *)
(* (TraceCoverage).                                                        *)
(***************************************************************************)
EXTENDS TraceCoverage, MCPrograms

\* Every program of two threads with at most two statements each, on two
\* memory locations.
MCAllSmallPrograms ==
    [{0, 1} -> UNION {[1 .. n -> {R("x"), W("x"), RMW("y"), R("y")}] : n \in 0 .. 2}]

\* Longer ones, on memory only.
MCMemoryPrograms ==
    {Two(<<W("x"), R("y"), W("x")>>, <<W("y"), R("x"), RMW("x")>>),
     Two(<<W("x"), W("y"), R("z")>>, <<R("y"), R("x"), W("z")>>),
     Two(<<RMW("x"), RMW("x"), W("y")>>, <<RMW("x"), RMW("x")>>)}

\* Threads that are created and joined during the execution.  In the third one a
\* run that is blocked before thread 2 is created follows one with all threads,
\* and precedes others: the clocks shrink and grow again.  The last one is
\* shared_memory_access_non_concurrent of the tests, with a thread that reads.
MCCreationPrograms ==
    {Three(<<W("x"), R("y")>>, <<After(0, 1, RMW("x"))>>, <<After(1, 1, W("y"))>>),
     Three(<<R("x"), W("y"), R("z")>>, <<After(0, 1, R("y")), R("x")>>, <<After(0, 3, W("x"))>>),
     Three(<<R("x"), R("y")>>, <<W("x")>>, <<After(0, 2, W("y"))>>),
     Three(<<W("x"), After(1, 1, W("x"))>>, <<After(0, 1, W("x"))>>, <<R("x")>>)}

\* Every program of three threads with one of these codes each.
MCSmallThreeThreads ==
    [{0, 1, 2} -> {<<W("x")>>, <<R("x"), W("y")>>, <<RMW("y"), R("x")>>}]

\* Longer ones.  The first is readers_nonpreemptive of the tests.
MCLongThreeThreads ==
    {Three(<<W("x")>>, <<R("y"), R("x")>>, <<R("z"), R("x")>>),
     Three(<<W("x"), W("y")>>, <<R("x"), W("z")>>, <<R("y"), R("z")>>),
     Three(<<L("m"), U("m")>>, <<L("m"), W("x"), U("m")>>, <<R("x")>>)}

MCThreeThreads == MCSmallThreeThreads \cup MCLongThreeThreads \cup MCCreationPrograms

\* Three threads without locks, and one program that Source refuses.
MCSourcePrograms ==
    {Three(<<W("x")>>, <<R("y"), R("x")>>, <<R("z"), R("x")>>),
     Three(<<W("x"), W("y")>>, <<R("x"), W("z")>>, <<R("y"), R("z")>>),
     Three(<<W("x"), R("z")>>, <<RMW("y"), W("z")>>, <<R("y"), W("x")>>),
     Three(<<W("x")>>, <<R("y"), W("z"), R("x")>>, <<R("z"), W("x")>>),
     Three(<<L("m"), U("m")>>, <<L("m"), W("x"), U("m")>>, <<R("x")>>)}

\* Every program of two threads with one of these codes each: locks are always
\* released, and m is never acquired by the owner of n, so there is no deadlock.
MCLockPrograms ==
    [{0, 1} -> {<<L("m"), U("m")>>,
                <<R("x"), L("m"), U("m"), W("x")>>,
                <<L("m"), W("x"), U("m")>>,
                <<L("m"), L("n"), U("n"), U("m")>>,
                <<L("m"), L("n"), U("m"), U("n")>>,
                <<L("n"), U("n"), L("m"), U("m")>>}]

\* All programs of two threads without a deadlock.
MCTwoThreads == MCAllSmallPrograms \cup MCMemoryPrograms \cup MCLockPrograms

\* Thread 0 acquires n and m in one order, thread 1 in the other.
MCDeadlockPrograms ==
    {Two(<<L("n"), L("m"), U("m"), U("n")>>,
         <<L("m"), U("m"), L("m"), L("n"), U("n"), U("m")>>)}

=============================================================================
