# State-Space Explorer: a verification development

State-Space Explorer explores the interleavings of a multithreaded C/C++
program systematically. It runs the instrumented program under a schedule,
reads back what was executed, updates the states of a depth-first search along
the execution and backtracks to the next schedule. The search is either bounded
in the number of preemptions or reduced by dynamic partial-order reduction
(DPOR) with sleep sets. What makes such a tool worth anything is that it misses
nothing and repeats nothing: this development states that, checks it on small
programs with TLC, and proves with TLAPS what holds for all programs.

All paths below are relative to the repository; the code is in `src/`.

## 1. Inventory

| Component (code) | State | Operations | Correct when |
|---|---|---|---|
| **Exploration loop** (`exploration.hpp/.cpp`) | `mSchedule`, `mExecution`, `mDone`, number of explorations, the local `from`, the file `records/record.txt` | `run`, `replay`, `check_valid`, `update_state`, `move_records` | the state that is kept belongs to the execution that is read back; the loop ends |
| **Depth-first search** (`depth_first_search.hpp/.cpp`) | `mState`, a stack of done sets | `restore_state`, `update_state`, `update_after_exploration`, `new_schedule`, `pop_back` | every branch in the pool is taken, none twice |
| **Bounded search** (`bound.hpp`, `run_bounded_search.cpp`, `run_depth_first_search.cpp`) | a stack of bound values, the bound | `update_state`, `pool`, `select_from_pool`, `pop_back` | exactly the executions within the bound are explored |
| **Preemptions** (`bound_functions/`) | none | `value`, `step_value`, `min_value`, `last_context_switch_before` | the step values add up to the number of preemptions |
| **DPOR** (`dpor.hpp/.cpp`) | a stack of sufficient sets (backtrack set and sleep set), the happens-before relation, the number of blocked runs | `write_scheduler_files`, `reset`, `restore_state`, `update_state`, `update_after_exploration`, `pool`, `select_from_pool`, `pop_back` | every Mazurkiewicz trace is explored, none twice |
| **Happens-before** (`happens_before.hpp/.cpp`), **vector clocks** (`vector_clock.*`) | one clock per transition, the frontier, its index | `update`, `restore`, `reset`, `pop_back`, `max_dependent`, `max_dependent_per_thread`, `thread_transitive_*`, `covering`, `front`, `incomparable_after` | the clocks are the transitive closure of dependence |
| **Dependence**, **sleep sets** (`dependence.*`, `sufficient_sets/sleep_set.*`) | a set of threads | `dependent`, `coenabled`; `wake_up`, `add`, `awake` | independent instructions commute; a sleeping thread can wait |
| **Persistent** (`sufficient_sets/persistent_set.*`) | none | `backtrack_points`, `alternatives`, `add_backtrack_point` | every race that could be reversed leaves a backtrack point |
| **Selection strategy SleepSets** (`selection_strategies/sleep_sets.*`) | its own sleep set, *in the process of the program under test* | `initialize`, `select`, `update_sleep` | agrees with the explorer's sleep sets |
| **Source** (`sufficient_sets/source_set.*`) | none | `check_valid`, `backtrack_points`, `add_backtrack_point` | every race is reversed by *some* thread; programs with locks are refused. No target builds it |
| **BoundPersistent** (`sufficient_sets/bound_persistent_set.*`) | a stack of bound values, pending sets and flags | `update_state`, `backtrack_points`, `add_backtrack_point`, `update_after_exploration`, `add_to_pool`, `condition`, `pop_back` | every trace that has an execution within the bound is explored. No target builds it |
| **Program model and scheduler** (`libs/record-replay`, a submodule that is not in the repository) | states, executions, the controlled run | external | modelled from its use |
| Options, statistics, `tools/`, `instrument.sh` | | I/O | only `--bound` and `--max` are modelled |

**Interaction.** `run()` drives everything: `Exploration` calls
`depth_first_search`, which calls its reduction (`bound` or `dpor`) as a template
argument, which calls the bound function or `HappensBefore` and `Persistent`.
The reduction holds a *reference* to (or is passed) `mExecution`, which `run()`
replaces after every run. The program under test is another process: it gets
the schedule and the sleep set in files and answers with the file
`records/record.txt`.

**What is hard here.** There is no concurrency between explorer and program
(`run_under_schedule` waits), but there is much that is out of step: four stacks
in four classes that must be pushed and popped together; state that is kept for
a prefix of an execution that has meanwhile been replaced, and by one with another
number of threads, perhaps, so that the clocks must be resized; backtrack points
added far down the stack; sleep sets propagated twice, in two processes; a
program that crashes or times out without leaving a record, so that the next
read finds an older one; termination by an empty schedule. `PROJECT.json` lists
these as hazards, each at its line and with the properties aimed at it.

## 2. Modules

| Module | Models | State |
|---|---|---|
| `ProgramModel` | external: programs, states, instructions, executions, schedules | constants `Tids`, `Objects`, `Programs` |
| `Exploration` | loop and depth-first search, for an **arbitrary** reduction | `program`, `phase`, `mSchedule`, `mExecution`, `from`, `index`, `mNrExplorations`, `schedules`, `dfsState`, `recording`, `record`, `failures` |
| `Preemptions`, `BoundedSearch` | the bound function; `Exploration` with `bound<Preemptions>` | adds `boundOption`, `boundState` |
| `Dependence`, `VectorClock`, `HappensBefore`, `Persistent`, `SourceSets` | the pure part of DPOR, as operators | none |
| `Dpor` | `Exploration` with `dpor<Persistent>` or `dpor<Source>` (constant `sufficient_set_t`) and the selection strategy | adds `sufficient`, `mHB`, `mSleep`, `nrSleepsetBlocked` |
| `BoundPersistent` | `Dpor` with `BoundPersistent<Preemptions>` | adds `mBound`, `boundStates` |
| `Enumeration` | abstract specification: explore every behaviour of a universe, each once, then finish | `universe`, `explored`, `count`, `finished` |
| `MaximalExecutions` | reference: all maximal executions, enumerated without the explorer | none |
| `PreemptionBound` | what the two searches with a bound on preemptions have in common | none |
| `ExplorationInvariant`, `BoundedInvariant`, `DporInvariant`, `BoundPersistentInvariant` | the inductive invariants | none |
| `BoundedEnumeration`, `ClockInvariant`, `TraceInvariant` | further inductive invariants: completeness of bounded search, clocks, no trace twice; with the properties they imply. `ClocksInv` of `ClockInvariant` is that of the clocks alone, for any search that keeps them | none |
| `TraceCoverage` | what `dpor` is for: every trace and every observation is explored (its inductive invariant, which no run checks, stands with the proofs in `TraceCoverageProofs`) | none |
| `CausalOrder` | reference: happens-before as the transitive closure of dependence, races, and what a clock, a point and a front should be | none |
| `*Proofs` | theorems and proofs | none |
| `MC*` | TLC instances and reference definitions | none |

**How a reduction is composed.** Each handler of the loop is one action of
`Exploration`. `BoundedSearch` and `Dpor` conjoin to it what the reduction does
when that handler calls it (`BoundedUpdateTransition == UpdateTransition /\
boundState' = ...`). `Exploration!Next` leaves the reduction's choices open: any
thread may be selected in a run, a run may be cut short, any subset of the
enabled threads may be the pool, a program may be refused. So what is proved of
`Exploration!Spec` holds of every search that is shown to implement it.

`Source` and `BoundPersistent` are template arguments that no target of the
build instantiates. They are modelled as `dpor` would use them. Of
`BoundPersistentOptimizations` the default settings are modelled: transitive
reduction, an alternative thread, the bound optimization, conservative sleep
sets. No others can occur: `mOpt` is default-constructed
(`bound_persistent_set.cpp:104`) and nothing sets it. `BoundPersistent` keeps two further facts per state, threads that are
explored there only if the bound cuts something off below (`pending`) and
whether it has (`exceeded`).

**Granularity.** `phase` is the point `run()` has reached: `loop` (the loop
condition), `run` (waiting for the program), `read` (`replay` after the run),
`update` (the loop over the transitions in `update_state`, one action per
transition), `backtrack` (`new_schedule`, one action per iteration). The
program's run is one action per transition. Indices: transitions are numbered
from 1 as in the code, stacks from 0 in the code and from 1 here
(`mState[i]` is `dfsState[i + 1]`).

**A run that leaves no record.** `RunFails` stands for a crash or a timeout of
the program. `replay` then throws if there is no `record.txt` (`RecordMissing`)
or reads the one of an earlier run (`ReadRecord` with the old `record`). With
`keep_records` the record is renamed after each run, so an old one is never
there (`FinishUpdate`).

**Data.** A program is straight-line code per thread: loads, stores,
read-modify-writes, locks and unlocks on named objects. Contents of memory are
left out: neither dependence nor enabledness looks at them; what the threads read
is recovered from an execution as the write each read reads from
(`ObservationOf`). A state is the position of each thread and the owner of each
lock. A thread is identified by a natural number, because `std::set` orders them
and the code takes the first.

**Creation and joining of threads** are no visible instructions
(`dependence.cpp` knows none). They show only in what follows: a line of a
thread may wait until other threads have performed a number of theirs (`after`).
At the first line of a thread that is its creation, at a later one a join. The
threads of an execution (`Execution::nr_threads`, here `ThreadsOf`) are those
that have been created by its end, so their number changes from one execution to
the next, and `reset` resizes the clocks
(`ResetHB`, `Resize`). A clock is a function on the threads it has entries for.

## 3. Runs

`MaxNrExplorations` is `--max`; `MaxFailures` bounds the number of runs without
a record; `IntWidth = 4` makes int and unsigned int 4 bits wide.

| Run | Instance | What it shows |
|---|---|---|
| `arbitrary_reduction` | 2 threads, up to 2 statements each, 3 programs, up to 3 explorations, 1 failure; every reduction | assertions of `depth_first_search`; schedule, `from`, done sets and execution speak of the same branch; the record read, also a stale one, repeats the kept prefix; done threads were run; no schedule twice; the inductive invariant, of which the type invariant `TypeOK` is a part |
| `bounded_search` | 2 and 3 threads, up to 4 statements, locks, a deadlock, bounds 0, 1, 2, 7 (7 is the largest int: plain depth-first search), limit 11, which cuts off only the longest search | `EnumeratesBounded`: bounded search implements `Enumeration` of the executions within the bound; bound values are exact; it implements `Exploration` |
| `bounded_stale` | the programs of 2 threads, 2 failures, limit 25 | a stale record loses no execution (`StaleRecordLosesNothing`) and the search ends; the invariant of bounded search |
| `bounded_option` | options 1, 7, 8, 15 | **violated**: 8 and 15 become negative bounds |
| `dpor_two` | **all** programs of 2 threads with up to 2 accesses (reads and writes of x, reads and read-modify-writes of y), three with up to 3 accesses, all 36 pairs of 6 lock-using codes that cannot deadlock | `coenabled` excludes no pair that is enabled together; every race has its backtrack point; in the end every trace has been, and the search ends; whatever a thread reads in some execution, it reads in an explored one (`ObservationsCovered`, which does not trust `Dependence`) |
| `dpor_three` | 3 threads, among them `readers_nonpreemptive` of the tests and four programs that create and join threads | clocks and frontier equal the transitive closure of dependence and fit the number of threads, also where an execution has fewer threads than the one before it; the stacks stay aligned, the sleep sets of explorer and scheduler agree; no trace is explored twice, and in the end every trace has been |
| `dpor_stale` | the programs of `dpor_two`, up to 2 failures at any exploration, limit 20: enough for every search with one failure (at most 15 explorations), and for all with two but the longest (21) | a stale record loses no trace; the invariants of `dpor` and of its sleep sets |
| `dpor_source` | 3 threads, memory accesses; one program with locks | the points of `covering` are exactly the immediate races, `front` returns the first events of the suffix and its assertion holds, each trace once, and the program with locks is refused before a schedule is built |
| `bound_persistent` | 2 and 3 threads, up to 3 statements, bounds 0, 1, 2, 1 failure, limit 20 (no search of these needs more without a failure) | bound values and pending sets are right along the search; every trace within the bound is explored; no execution leaves the bound; the points found for a new transition are the last dependences, thread by thread, that its own thread does not imply (`PointsOfEachThread`); it implements `Exploration` |
| `bound_persistent_locks` | the lock-using codes of `dpor_two`, bound 7 | **violated**: a trace is missed |
| `dpor_deadlock` | 2 threads acquiring 2 locks in opposite order | **violated**: a trace is missed |
| `dpor_points` | the same program | **violated**: a point outside `Dep` |

**Are the bounds enough?** A race needs two threads and two dependent accesses;
a chain through a third event needs a second object or a third thread; sleep
sets wake up at the second dependent access; reversing a race that a reversal
has created needs three accesses. All of these occur, and the whole search of
each program is explored, except where a limit is given above. In `arbitrary_reduction` the branching is
over every subset of enabled threads in each backtracking step, which is why
three explorations of small programs suffice to reach every combination of
kept prefix, stale record and new branch; the proofs cover the rest. A reading of a stale
record counts as an exploration, and what was explored below the branch it follows may be explored
again: the programs of `dpor_stale` need at most 9 explorations without a failure, 15 with one. A
search with failures gets to its end only if the limit allows for that. In `bounded_stale` it
does for all searches, in `dpor_stale` for all with one failure and nearly all with two, and the mutant of both properties (`ScheduleNextDoneTooEarly`, a thread is
done before its run has left a record) does nothing wrong unless a run fails.

**References.** None of the reference definitions uses the explorer's data:
`MaximalExecutions` enumerates executions breadth-first, `Before` closes
dependence transitively over the execution, `TraceOf` maps an execution to its
events and the order of the dependent ones.

**Fairness.** The explorer is one sequential loop that runs until it is done,
and a straight-line program ends, so some step is always taken:
`WF(BoundedNext)`. For `Dpor` the same is written without `ENABLED`
(`DporFairness`: the search reaches a terminal phase or takes steps for ever),
because TLC evaluates `ENABLED DporNext` slowly; some step is always enabled
before a terminal phase, as the absence of deadlock in the runs shows. No
fairness is assumed between alternatives of a choice.

## 4. What the runs found

1. **`--bound` beyond the largest int** (`run_bounded_search.cpp:32,46`,
   `bound.hpp:59`): the unsigned option is converted to a negative `int`, every
   pool is empty, and the search ends as "done" after one execution.
2. **Deadlocks and DPOR** (`dpor.hpp:125`, `persistent_set.hpp:73`): backtrack
   points are computed at the states before *executed* transitions. In a
   deadlocked last state the pending lock operations are never compared with
   the execution, so traces that reverse them can be missed, although the set
   is called sufficient (`sufficient_set.hpp:27`).
3. **`max_dependent`** (`happens_before.hpp:299`): stepping back from a
   transition that may not be reversed skips the thread-transitive reduction;
   the point found may be outside the documented `Dep`
   (`persistent_set.hpp:56`). It costs exploration, not coverage: in the runs
   without a deadlock each trace is still explored exactly once.
4. **`max_dependent_per_thread`** (`happens_before.hpp:330`) takes the last
   dependent transition of a thread even if it cannot be reversed. For a pending
   lock it finds the unlock of the other thread and never its lock; the point
   leads only to a run that is blocked by sleep sets, and the other order of the
   two critical sections is missed even with a bound that is never reached.
   Persistent sets, with `coenabled`, explore it (`dpor_two`).

One more, seen in the code and not run: `update_after_exploration` of
`BoundPersistent` tests the flag of the state (`bound_persistent_set.cpp:128`)
where the comment speaks of the subtree of the transition
(`bound_persistent_set.hpp:70`). An earlier transition keeps later threads
awake, which costs exploration only. The model does what the code does.

## 5. Theorems

TLAPS proves them for every set of threads, every program, bound and limit.
Assumed are only the named assumptions on constants: threads are finitely many
naturals, programs map threads to sequences of statements, options fit into an
unsigned int.

**Exploration** (`ExplorationProofs`). The inductive invariant `Inv` has a part
for each thing that must not get out of step: executions are executions of the
program; schedule, `from`, execution and done sets have matching lengths in each
phase (`SearchIsAligned`); the run repeats the kept prefix (`RunFollowsSearch`),
because a thread has exactly one next transition in a state; *the record, of
whatever run, extends the kept prefix* (`RecordExtendsSearch`), because the
execution only shrinks until the next record is read; done threads were run.
From it follow the assertions, `KeptPrefixIsReplayed`, `DoneWasRun` and the
rest. `NoScheduleTwice` needs one more idea: every logged schedule but the
current one leaves the current branch at a thread that is already done there
(`LoggedDiverge`), and the thread scheduled next is not done (`BranchIsUndone`).
A schedule read back therefore differs from all of them. Both parts hold as
long as no run has failed; the others need no such condition.

**Bounded search** (`ExplorationProofs`, `BoundedSearchProofs`).
`PreemptionsOfStep`: a transition adds its step value to the number of
preemptions (cardinalities of sets of transitions). With `BoundedInv` this
gives `BoundValuesAreExact` and `ExploredWithinBound`: the scheduled thread is
within the bound by `pool`, and the non-preemptive scheduler adds nothing after
the schedule. `BoundedSearchIsExploration` carries the theorems about
`Exploration` over.

That bounded search is *complete* is the other half of `Enumeration`. The
invariant (`EnumerationInv`) says that a thread that is done in a state of the
stack was done thoroughly (`DoneIsExplored`): every execution within the bound that
takes it there has been explored. A thread gets done when the state after its
transition is popped, and is popped only when its pool is empty, so that every
enabled thread is done there or exceeds the bound. An execution that goes through
the popped state goes on with one of them, or ends there and was the run itself.
The run after the last scheduled thread adds no preemption, and the threads it
passes over are left to the pool of a state that is on the stack. At the end the stack is empty
and nothing is left out: `CompleteWithinBound` holds also when runs leave no
record, because then the state of the search follows the record that was read.
`BoundedSearchEnumerates` puts both halves together as the refinement of
`Enumeration`.

**Bound persistent sets** (`BoundPersistentProofs`). The same argument, where it is
not obvious: here a run chooses among the threads that are *awake*, and if the
thread that just moved were asleep, the non-preemptive scheduler would have to
leave it and exceed the bound, which is checked for the scheduled thread only. It
is never asleep: its next instruction is dependent on its last one, both being
of one thread, so it has just been woken up (`AwakeSelectionIsNonPreemptive`).
Hence `BPWithinBound`. `BPIsExploration` needs that the pool holds enabled
threads, those included that `add_to_pool` takes from the pending set of a state
because the bound was exceeded below it (`BPPoolIsEnabled`). Pending threads are
added at the last context switch before a backtrack point, and
`add_backtrack_point` adds enabled threads only, whatever the points are
(`AddedAtIsEnabled`). Unlike those about `dpor` these theorems need no assumption
about the program. The lemmas about bound values and about runs within a bound are
shared with bounded search (`PreemptionBound`, `ExplorationProofs`), and those about
clocks with `Dpor`: its clocks are exact as well (`BPClocksAreExact`), with and without
locks. `max_dependent_per_thread` goes over the clock of a transition after reducing it, once,
by what the thread of that transition has seen already, and goes on from a transition that does not
qualify to the one before it by the same thread. The code leaves it open whether the reduction
still holds then ("#todo show thread-transitive-red still holds", `happens_before.hpp:338`).
It does (`BPPointsAreFound`). What the reduction cuts off is what happens before the
thread's own last transition, a set that is closed under the past: once the walk
along another thread is in it, everything that thread did earlier is in it, too. So
of each thread the walk stops at the last transition that the new one depends on, and it misses a
thread only if all such transitions are in that past (`PointsArePerThread`,
`MaxDependentPerThreadIs`). That the point is the last dependence whether or not
it can be reversed is what section 4 (4) is about.

**DPOR** (`DporProofs`). Whatever the clocks and sleep sets say, a backtrack set
holds enabled threads only (`BacktrackIsEnabled`): points are added as a subset
of the threads enabled in the state of the point, and reading a record keeps
the states of the prefix. So `DporIsExploration`, and all that is proved of
`Exploration` holds of DPOR, too: also that it never explores a schedule twice.

`check_valid` is asked once, and only whether the *first* execution has lock
operations. `CheckValidSuffices`: with `Source` no exploration goes on with a
program that has locks anywhere. Nobody sleeps in the first run, so it ends only when
no thread is enabled; as long as no lock operation has been performed all locks are
free (`ShowsItsLocks`), and a thread that is not at its end could still go on
(`FullExecutionShowsLocks`). If that run fails, there is no record at all and the
search is aborted. The theorems about `dpor` assume `ValidPrograms`: with `Source`
all threads exist from the start and none is joined, which `check_valid` does not
ask; with `Persistent` nothing is assumed.

`Source` adds a thread to a state because it performs something
*later* in the execution (`front`). That it is enabled in the state takes an
argument over the whole execution: a thread that performs something after a
state has a next instruction in it (`ThreadsAdvance`, kept by every step that
changes an execution, `StepAdvances`), and a next instruction is enabled where no
thread waits for another (`AddedBySourceIsEnabled`).

`DporAssertions`: the stack of clocks has the height of the other two
(`ClocksAreAligned`). `reset` and `restore` leave the height alone, `update` adds
one clock where the search adds a state, `pop_back` drops one; and because the
loop restores before it updates, the index of the frontier is always one behind
the loop. Nothing need be known of the clocks themselves, so the recursion in
them does not matter.

**Dependence** (`HappensBeforeProofs`, `DporProofs`).
`IndependentInstructionsCommute`: of two enabled instructions of different threads
that are not dependent, neither disables the other, and both orders end in the
same state. What thread creation adds to that is below, under the limits.
`CoenabledHolds`: two instructions that `coenabled` excludes are never enabled
together, *if* the programs release only locks they own (`ReleasesOwnLocks`). That
is an assumption about the program under test, for which the code has no check;
then a lock that can be released is not free to be acquired. The theorem is about every state a run gets into.

**Sleep sets** (`SleepSetProofs`). The scheduler starts with the sleep set of the
branching point and propagates it while the program runs; the explorer propagates
its own along the record, afterwards. `SleepInv` says of both that they are the
same function of the branching point and the execution: the threads that slept
there and that no transition since has woken (`SleepAlong`). Then no transition
after the branching point is by a sleeper (`SleepersAreNotExecuted`): the first
one is by the scheduled thread, which is awake there, the others are taken from
those that are awake. And a run that was cut short ends where all enabled threads
sleep (`BlockedRunsAreAsleep`). Both need that no run has failed: an old record
was taken with other sleep sets. TLC shows that the condition is needed.

**Clocks** (`HappensBeforeProofs`). `ClocksAreCorrect`: the clock of transition i
names, for each thread, its last transition that happens before i, in the
transitive closure of dependence (`Before` in `CausalOrder`). `create_clock` walks
the execution backwards, skips what the clock covers already and stops early; the
step (`JoinIs`) is that a transition that is covered brings its whole past along.
`create_clock`, `Before` and the rest are recursive functions, about which a prover
that has no induction over data knows nothing. They are dealt with in two ways.
Where the solution can be written down, as the function that is claimed to be
computed, it is shown to solve the recursion equation, and the equation is shown
to have one solution only. Where it cannot, `RecursionExists` gives a solution, as
the union of its finite parts, by ordinary induction over a natural number in the form of a
least counterexample.

The invariant (`ClocksInv`) has to follow the clocks from one execution to the
next: after backtracking they describe a prefix of the execution (`pop_back` leaves
the frontier as it is, and wrong), `reset` resizes them to the number of threads of the
execution that was read, `restore` rebuilds the frontier transition by
transition, `update` adds a clock. `ClockSizesAreRight`, `FrontierIsCorrect` and
`DporTypeCorrect` come out of the same induction. All it needs of a search is that its
loops do to the clocks what `ClockStep` says, whatever else they do with sleep sets, backtrack
sets and bounds. `Dpor` does (`DporIsClockStep`), and so does `BoundPersistent` (`BPIsClockStep`).

On exact clocks rest the queries. `max_dependent` walks from dependence to
dependence until it finds one that may be reversed; the greatest entry of the
clock it holds decreases, which is what the induction is over, and no race is
ever after the place it has reached (`RacesAreFound`). `covering` is the same walk
with a reduction by what has been found, and what is left are exactly the
immediate races (`SourcePointsAreRaces`). `front` is right because the
subsequence it is given is closed under the past (`FrontIsRight`).

**No trace twice** (`SleepSetProofs`). `TracesAreExploredOnce`: of two different
schedules explored, the executions are not equivalent. `NoScheduleTwice` is about
schedules and holds for any reduction; this is what sleep sets are for. The
invariant (`TraceInv`): a thread that is done in a state of the stack sleeps there
(`DoneSleeps`); it goes on sleeping along the branch until a transition that is
dependent on its next instruction (`SleepIsKept`), and the branch never takes a
thread that sleeps (`BranchIsAwake`). A logged schedule leaves the branch by a
thread that is done there (`LoggedDiverge`). If the two executions were
equivalent, the event of that thread would be performed on the branch, too, with
nothing before it that it depends on (`SleeperIsPerformed`), so nothing would
have woken it before, and the branch took a sleeping thread. It holds for both
sufficient sets, for programs with locks, deadlocks and thread creation alike,
and needs that no run has failed.

**No trace lost** (`TraceCoverageProofs`). `TracesAreCovered`: when the search is
done, every trace of the program has been explored, with `Source` and with
`Persistent`. `ObservationsAreCovered` says the same without `Dependence`: whatever a
thread reads in some execution it reads in an explored one. `TracesAreEnumerated`
joins this with `TracesAreExploredOnce` in a refinement of `Enumeration`.
Hypotheses: no thread waits for another one to get somewhere (section 6 says what
creation of threads does to a reduction), with `Persistent` there are no locks
(`WaitFreePrograms`), and no run has failed. With `Source` nothing is assumed of locks:
a program that has any is refused. That locks can break `Persistent` is
shown by `dpor_deadlock`. The last hypothesis is needed for the invariant, since an old
record may begin with a thread that sleeps by now; `dpor_stale` finds no trace lost
by up to two failures in small programs.

The invariant (`CoverageInv`) speaks of the complete executions that go through
a state of the stack. `CanComeFirst(e, k, t)`: in what e performs from its k-th
transition on, nothing has to be done before thread t goes on, so that there is
another execution of the same trace in which t does (`AdvancedIs`: moving an
independent transition forward gives an execution that ends in the same state).

- `DoneIsCovered`: what a done thread of a state can start has been explored
  from there, by an execution of the same trace that shares the prefix.
- `LeftIsCovered`: when the search leaves a state, *everything* has been explored
  from there, except what a thread can start that was asleep when the search got there;
  that has been explored from a state further down, where the thread fell asleep
  (`SleepIsInherited`).
- `RacesAreReversed`, for `Source`: for every race of a logged execution the backtrack
  set of the state before it holds a thread that can start its reversal. This is
  `SourcePointsAreRaces` and `FrontIsRight` in the loop of `update_state`,
  kept from one execution to the next as long as the state is on the stack.
- `PointsAreTaken`, for `Persistent`: for the last race of every transition of a logged
  execution the backtrack set of the state before it holds a thread that *leads* to the
  transition (performs something after the race that happens before it) and does
  not sleep, or all enabled threads. This is less: such a thread need not be able to start the
  reversal, and of the earlier races of a transition nothing is said. It rests on
  `LastPointIsFound`: without locks everything dependent may be coenabled, so
  `max_dependent` ends where it begins, at the last race exactly.

Why `LeftIsCovered` holds when a state is popped (`LeftFurther`): its backtrack set is
done or asleep. Suppose e goes through it and no thread that is done there can start e.
In both cases a done thread d is put first in e all the same (`PutsFirst`): this is an
execution of another trace that d can start and only d or what could start e, hence it
has been explored (`PutFirstIsExplored`), and the points of its races have been taken.
With `Source` (`SourceLeavesNone`) d's transition races there with a later one of e that is dependent on
it, and only threads that can start e can start the reversal (`ReversalExists`). One
of them is in the backtrack set, so it is done or asleep, against the assumption.
With `Persistent` (`PersistentLeavesNone`) the done thread and the execution have to be
chosen with care: of all done threads that could overtake the others, the one
whose dependent transition comes first, and the execution in which nothing is left
in between that could be moved away (`OvertakingExists`: `LeadExists`,
`TightLeadExists`). There d's transition is the *last* race of that later one, and no done thread
leads from it there, in whatever order the trace has been explored
(`LastRaceOfTrace`). Either way the backtrack set contradicts this: a thread in it that
leads there is done by now, and if it holds all enabled threads, it holds the first one of e.
Sleepers that are not done there are those of the exception. At the end the stack is
down to the initial state, where nobody was asleep.
What makes the induction go through is that the argument is about the
trace and never about one execution: which of the executions of a trace has been explored is
known only up to the order of independent transitions, and a race of one of
them is a race of all.

For the observations it remains to show that the write a read reads from is a
matter of the trace (`SameTraceSameObservation`): all accesses of an object of
which one is a write are dependent, so their order is part of it.

**Only model-checked.** That `Persistent` loses no trace of a program with locks or
with threads that wait for others: it is false for some of them (sections 4 and 6), and
what distinguishes the others is no property of the program text. That
`BoundPersistent` loses no trace within the bound (`BoundedComplete`): it is false with
locks (section 4), and without them the argument above does not carry over, since
reordering a trace changes its number of preemptions. The same
goes for `min_value` of `BoundPersistent`, which matters only for it. `CoenabledIsSound` is proved only for
programs that release the locks they own. All liveness (`DporFinishes`, `Terminates`): `ENABLED` and
well-founded arguments about fairness are out of the prover's reach.

## 6. Not modelled

- The settings of `BoundPersistentOptimizations` that are not the default: the
  code has no way to choose them.
- A record that is cut off in the middle. A run leaves a whole record or none.
- A schedule handed to `run()` by its caller; all callers pass the empty one.
- Output, timing, option parsing, drawing tools.

**A limit of what is shown.** Creation of a thread is not dependent on anything
(`dependence.cpp:97`), as far as `src/` tells. If a thread is created after
visible instructions of its creator, a race with it leads back to states in which
it is not enabled; there `alternatives` adds other threads, and they need not get
to the creation. For `<<R x, R x>>`, `<<R x>>` and a third thread `<<W x>>` created
by the first after its reads, the model explores one trace of two. The submodule
may avoid this (by a visible instruction for the creation, say), so it is listed
as a hazard and not as a finding; the creation programs of `dpor_three` are such
that all of their traces are explored.

## 7. Plan

Done: `ProgramModel` with creation of threads, `Exploration`, `BoundedSearch`,
`Dpor` with `Persistent` and `Source`, `BoundPersistent`, with references, runs
and invariants; the theorems above. Left, in this order:

1. That dpor with `Persistent` loses no trace of a program with locks that never
   deadlocks. `PointsAreTaken` would speak of the last race that may be coenabled, for
   which `RacesAreFound` gives one direction only: the point may be a later transition
   (`dpor_points`), at which the threads that lead on must then be shown to be enough.
   A thread put first can be disabled by what it overtakes, so `AdvancedIs` needs a
   condition on the locks held in between.
2. `BoundedComplete` for programs without locks, on top of `BPPointsAreFound`, with the argument of
   conservative points at the last context switch.
