------------------------- MODULE TraceCoverageProofs -------------------------
(***************************************************************************)
(* Proofs about TraceCoverage: dpor has explored every Mazurkiewicz trace  *)
(* of its program when it is done, and so all that its threads can see of  *)
(* each other, with either sufficient set, for every program whose threads *)
(* never wait, every number of threads and every length, as long as every  *)
(* run leaves its record.                                                  *)
(***************************************************************************)
EXTENDS TraceCoverage, SleepSetProofs, HappensBeforeProofs

-----------------------------------------------------------------------------
(* The inductive invariant of the search *)

\* What the theorems assume of the programs: no thread ever waits for another one to
\* get to its next statement, and, unless check_valid refuses them, there are no locks.
WaitFreePrograms ==
    \A p \in Programs : NoThreadAwaited(p) /\ (sufficient_set_t = "Persistent" => HasNoLocks(p))

\* The maximal executions of p.
CompleteExecutions(p) == {e \in ExecutionsOf(p) : Enabled(p, Final(e)) = {}}

\* The executions e and f begin with the same n transitions.
Share(e, f, n) == n <= Len(e) /\ n <= Len(f) /\ \A i \in 1 .. n : e[i] = f[i]

\* Of what e performs from its k-th transition on, nothing need be done before
\* thread t goes on.
CanComeFirst(e, k, t) ==
    \E m \in k .. Len(e) :
        /\ e[m].instr.tid = t
        /\ \A j \in k .. m - 1 : ~Dependent(e[j].instr, e[m].instr)

\* The logged complete executions of the trace of e that begin with the first n
\* transitions of mExecution.
Representatives(e, n) ==
    {f \in CompleteExecutions(program) : /\ ScheduleOf(f) \in schedules
                                         /\ TraceOf(f) = TraceOf(e)
                                         /\ Share(f, mExecution, n)}

\* What a thread was put to sleep for before it came to the k-th state.
NoSleeperFirst(e, k) ==
    \A t \in sufficient[k].sleep \ dfsState[k] : ~CanComeFirst(e, k, t)

\* What a done thread can start in a state of the branch has been explored from
\* there, unless a thread can start it that was asleep when the search got there.
DoneIsCovered ==
    phase \in Running /\ failures = 0 =>
        \A k \in 1 .. Len(dfsState) : \A e \in CompleteExecutions(program) :
            (/\ Share(e, mExecution, k - 1)
             /\ NoSleeperFirst(e, k)
             /\ \E t \in dfsState[k] : CanComeFirst(e, k, t))
                => \E f \in Representatives(e, k - 1) : f[k].instr.tid \in dfsState[k]

\* When the search backtracks from a state, all has been explored from there,
\* unless a thread can start it that was asleep when the search got there.
LeftIsCovered ==
    phase \in {"backtrack", "done"} /\ failures = 0 =>
        \A e \in CompleteExecutions(program) :
            (/\ Share(e, mExecution, Len(mExecution))
             /\ NoSleeperFirst(e, Len(mExecution) + 1))
                => Representatives(e, Len(mExecution)) # {}

\* update_state has come past the i-th transition of e in some run.
WasUpdated(e, i) ==
    \E s \in schedules :
        /\ i <= Len(s)
        /\ \A j \in 1 .. i : s[j] = e[j].instr.tid
        /\ phase = "update" /\ s = mSchedule => i < index \/ i < from

\* It has, and the state before transition n is one of the branch.
UpdatedFrom(e, n, i) ==
    WasUpdated(e, i) /\ n <= Len(sufficient) /\ Share(e, mExecution, n - 1)

\* What reversing the race of the transitions n and i of e puts before n.
MovedBefore(e, n, i) == {j \in n + 1 .. i - 1 : n \notin Before(e)[j]} \cup {i}

\* The threads that can start it.
FrontThreads(e, n, i) ==
    {e[j].instr.tid : j \in {k \in MovedBefore(e, n, i) : Before(e)[k] \cap MovedBefore(e, n, i) = {}}}

\* Source: for every race of an execution that update_state has gone along, a thread
\* that can start its reversal is in the backtrack set of the state before it, as long
\* as that is a state of the branch.
RacesAreReversed ==
    phase \in Running /\ failures = 0 =>
        \A e \in ExecutionsOf(program) : \A i \in 1 .. Len(e) : \A n \in DirectlyBefore(e, i) :
            UpdatedFrom(e, n, i) => sufficient[n].backtrack \cap FrontThreads(e, n, i) # {}

\* The transitions that the i-th of e could be reversed with when no lock is released
\* for another thread.
LateRaces(e, i) ==
    {j \in 1 .. i - 1 : /\ Dependent(e[j].instr, e[i].instr)
                        /\ NotBeforeThread(e, i, j, e[i].instr.tid)}

\* Transition n is the last of them.
IsLastRace(e, n, i) == n \in LateRaces(e, i) /\ \A j \in LateRaces(e, i) : j <= n

\* The threads that lead from there to transition i.
LeadingThreads(e, n, i) ==
    {e[c].instr.tid : c \in {j \in n + 1 .. i : j = i \/ j \in Before(e)[i]}}

\* Persistent: for the last race of every transition that update_state has gone along,
\* a thread that leads to it and did not sleep when the search got to the state before
\* the race is in the backtrack set there, or all enabled threads are, as long as that
\* is a state of the branch.
PointsAreTaken ==
    phase \in Running /\ failures = 0 =>
        \A e \in ExecutionsOf(program) : \A i \in 1 .. Len(e) : \A n \in 1 .. i - 1 :
            IsLastRace(e, n, i) /\ UpdatedFrom(e, n, i) =>
                \/ sufficient[n].backtrack \cap
                       (LeadingThreads(e, n, i) \ (sufficient[n].sleep \ dfsState[n])) # {}
                \/ Enabled(program, e[n].pre) \subseteq sufficient[n].backtrack

\* What sleeps in a state without being done there slept in the state before it,
\* and nobody sleeps at the start.
SleepIsInherited ==
    phase \in Running \cup {"done"} =>
        \A k \in 1 .. Len(sufficient) :
            sufficient[k].sleep \ dfsState[k] \subseteq
                IF k = 1
                THEN {}
                ELSE WakeUp(sufficient[k - 1].sleep, mExecution[k - 1].instr, program,
                            mExecution[k - 1].post)

\* A run that is not cut short goes on until no thread is enabled.
RunsAreComplete ==
    failures = 0 /\ record.status # "BLOCKED" =>
        /\ phase = "read" => Enabled(program, Final(record.transitions)) = {}
        /\ phase = "update" => Enabled(program, Final(mExecution)) = {}

\* The branch that the search goes on from is one it came along.
BranchIsLogged ==
    /\ phase = "update" => mSchedule \in schedules
    /\ phase \in BeforeUpdate /\ mExecution # <<>> =>
           \E s \in schedules :
               /\ Len(s) >= Len(mExecution)
               /\ \A j \in 1 .. Len(mExecution) : s[j] = mExecution[j].instr.tid

\* A run that is cut short could have gone on.
BlockedCouldGoOn ==
    record.status = "BLOCKED" => Enabled(program, Final(record.transitions)) # {}

\* When the search is done it is back in the initial state.
EndsAtRoot == phase = "done" => mExecution = <<>> /\ Len(sufficient) = 1

CoverageInv ==
    /\ DoneIsCovered
    /\ LeftIsCovered
    /\ sufficient_set_t = "Source" => RacesAreReversed
    /\ sufficient_set_t = "Persistent" => PointsAreTaken
    /\ SleepIsInherited
    /\ RunsAreComplete
    /\ BranchIsLogged
    /\ EndsAtRoot
    /\ BlockedCouldGoOn

-----------------------------------------------------------------------------
(* Events of a program whose threads never wait *)

\* What thread a[1] performs as its a[2]-th event, counted from 0.
InstrOf(p, a) == [tid |-> a[1], op |-> p[a[1]][a[2] + 1].op, obj |-> p[a[1]][a[2] + 1].obj]

\* An event is always the same instruction.
LEMMA EventIs ==
    ASSUME NEW p \in Programs, NEW e \in Seq(Transitions), IsExecution(p, e),
           NEW i \in 1 .. Len(e)
    PROVE  /\ e[i].instr = InstrOf(p, Event(e[i]))
           /\ e[i].instr.tid = Event(e[i])[1] /\ e[i].instr.tid \in Tids
           /\ e[i].pre.pc[e[i].instr.tid] = Event(e[i])[2]
           /\ e[i].pre \in States
<1>1. e[i].instr = NextInstr(p, e[i].pre, e[i].instr.tid)
    BY TransitionIs
<1>2. e[i].instr.tid \in Tids
    BY ScheduleIs, ElementOfSeq
<1>3. e[i].pre \in States
    <2>1. e[i] \in Transitions
        BY ElementOfSeq
    <2> QED
        BY <2>1 DEF Transitions
<1>4. Event(e[i])[1] = e[i].instr.tid /\ Event(e[i])[2] = e[i].pre.pc[e[i].instr.tid]
    BY DEF Event
<1>5. e[i].instr = InstrOf(p, Event(e[i]))
    BY <1>1, <1>4 DEF InstrOf, NextInstr
<1> QED
    BY <1>2, <1>3, <1>4, <1>5

\* An event has one instruction, whatever execution performs it.
LEMMA SameEvent ==
    ASSUME NEW p \in Programs, NEW e \in Seq(Transitions), IsExecution(p, e),
           NEW f \in Seq(Transitions), IsExecution(p, f),
           NEW i \in 1 .. Len(e), NEW j \in 1 .. Len(f), Event(e[i]) = Event(f[j])
    PROVE  e[i].instr = f[j].instr
    BY EventIs

\* How far a thread of p is says whether it can go on.
LEMMA EnabledIs ==
    ASSUME NEW p \in Programs, NeverWaits(p), NEW s \in States, NEW t \in Tids
    PROVE  t \in Enabled(p, s) <=> s.pc[t] < Len(p[t])
<1>1. s.pc[t] \in Nat /\ Len(p[t]) \in Nat
    BY ProgramsAssumption DEF States
<1>2. ASSUME s.pc[t] < Len(p[t])
      PROVE  t \in Enabled(p, s)
    <2>1. s.pc[t] + 1 \in 1 .. Len(p[t])
        BY <1>1, <1>2
    <2>2. p[t][s.pc[t] + 1].after = {} /\ p[t][s.pc[t] + 1].op \notin LockOperations
        BY <2>1 DEF NeverWaits, NoThreadAwaited, HasNoLocks
    <2>3. HasNext(p, s, t)
        BY <1>2, <2>2 DEF HasNext, Reached
    <2>4. NextInstr(p, s, t).op # "Lock"
        BY <2>2 DEF NextInstr, LockOperations
    <2> QED
        BY <2>3, <2>4 DEF Enabled, IsEnabled
<1> QED
    BY <1>2 DEF Enabled, IsEnabled, HasNext

\* Nobody acquires or releases anything.
LEMMA PerformNoLock ==
    ASSUME NEW p \in Programs, NeverWaits(p), NEW s \in States, NEW t \in Enabled(p, s)
    PROVE  LET post == Perform(s, NextInstr(p, s, t))
           IN  /\ post.owner = s.owner
               /\ post.pc = [s.pc EXCEPT ![t] = @ + 1]
               /\ post \in States
<1> DEFINE i == NextInstr(p, s, t)
<1>1. t \in Tids /\ s.pc[t] < Len(p[t]) /\ s.pc[t] \in Nat /\ Len(p[t]) \in Nat
    BY ProgramsAssumption DEF Enabled, IsEnabled, HasNext, States
<1>2. s.pc[t] + 1 \in 1 .. Len(p[t])
    BY <1>1
<1>3. i.op \notin LockOperations /\ i.tid = t
    BY <1>1, <1>2 DEF NeverWaits, HasNoLocks, NextInstr
<1>4. i.op # "Lock" /\ i.op # "Unlock"
    BY <1>3 DEF LockOperations
<1>5. Perform(s, i).owner = s.owner /\ Perform(s, i).pc = [s.pc EXCEPT ![t] = @ + 1]
    BY <1>3, <1>4 DEF Perform
<1>6. Perform(s, i) \in States
    BY PerformIs
<1> QED
    BY <1>5, <1>6

\* What thread t has behind it after e, e has performed.
LEMMA EventIsPerformed ==
    ASSUME NEW p \in Programs, NEW e \in Seq(Transitions), IsExecution(p, e),
           NEW t \in Tids, NEW c \in Nat, c < Final(e).pc[t]
    PROVE  \E i \in 1 .. Len(e) : Event(e[i]) = <<t, c>>
<1> DEFINE beyond == {i \in 1 .. Len(e) : c < e[i].post.pc[t]}
<1>1. e # <<>>
    BY DEF Final, InitialState
<1>2. Len(e) \in Nat \ {0} /\ Final(e) = e[Len(e)].post
    BY <1>1, LastIs DEF Final
<1>3. Len(e) \in beyond
    BY <1>2
<1>4. PICK i \in beyond : \A m \in beyond : i <= m
    <2>1. beyond \in SUBSET Nat /\ beyond # {}
        BY <1>3
    <2> HIDE DEF beyond
    <2> QED
        BY <2>1, LeastNatural
<1>5. /\ e[i].pre.pc[t] \in Nat
      /\ e[i].post.pc[t] = e[i].pre.pc[t] + (IF t = e[i].instr.tid THEN 1 ELSE 0)
    BY TransitionAdvances
<1>6. e[i].pre.pc[t] <= c
    <2>1. CASE i = 1
        <3>1. e[i].pre = InitialState
            BY <2>1, PreIsStateBefore DEF StateBefore
        <3> QED
            BY <3>1 DEF InitialState
    <2>2. CASE i # 1
        <3>1. i - 1 \in 1 .. Len(e) /\ i - 1 \notin beyond
            BY <1>4, <2>2
        <3>2. e[i].pre = e[i - 1].post
            BY <2>2, PreIsStateBefore DEF StateBefore
        <3> QED
            BY <1>5, <3>1, <3>2
    <2> QED
        BY <2>1, <2>2
<1>7. e[i].instr.tid = t /\ e[i].pre.pc[t] = c
    BY <1>4, <1>5, <1>6
<1> QED
    BY <1>4, <1>7 DEF Event

\* No event is ahead of the thread that performed it.
LEMMA EventIsBehind ==
    ASSUME NEW p \in Programs, NEW e \in Seq(Transitions), IsExecution(p, e),
           NEW i \in 1 .. Len(e), NEW t \in Tids
    PROVE  /\ e[i].pre.pc[t] \in Nat /\ Final(e).pc[t] \in Nat
           /\ e[i].pre.pc[t] <= Final(e).pc[t]
           /\ t = e[i].instr.tid => e[i].pre.pc[t] < Final(e).pc[t]
<1>1. e # <<>> /\ Len(e) \in 1 .. Len(e) /\ i \in 1 .. Len(e)
    BY EmptySeq
<1>2. Final(e) = e[Len(e)].post
    BY <1>1, LastIs DEF Final
<1>3. /\ e[Len(e)].pre.pc[t] \in Nat /\ e[i].pre.pc[t] \in Nat
      /\ e[Len(e)].post.pc[t] = e[Len(e)].pre.pc[t] + (IF t = e[Len(e)].instr.tid THEN 1 ELSE 0)
    BY <1>1, TransitionAdvances
<1>4. e[i].pre.pc[t] <= e[Len(e)].pre.pc[t]
    BY <1>1, ExecutionAdvances
<1>5. CASE i = Len(e)
    BY <1>2, <1>3, <1>5
<1>6. CASE i # Len(e)
    <2>1. e[i].pre.pc[e[i].instr.tid] < e[Len(e)].pre.pc[e[i].instr.tid]
        BY <1>1, <1>6, LaterIsFurther
    <2> QED
        BY <1>2, <1>3, <1>4, <2>1
<1> QED
    BY <1>5, <1>6

\* All that p can perform is performed by each of its complete executions.
LEMMA CompleteIs ==
    ASSUME NEW p \in Programs, NeverWaits(p), NEW e \in CompleteExecutions(p)
    PROVE  /\ e \in Seq(Transitions) /\ IsExecution(p, e)
           /\ \A t \in Tids : Final(e).pc[t] >= Len(p[t])
           /\ \A t \in Tids : \A c \in 0 .. Len(p[t]) - 1 : \E i \in 1 .. Len(e) : Event(e[i]) = <<t, c>>
<1>1. e \in Seq(Transitions) /\ IsExecution(p, e) /\ Enabled(p, Final(e)) = {}
    BY ExecutionsAre DEF CompleteExecutions
<1>2. Final(e) \in States
    BY <1>1, FinalType
<1>3. ASSUME NEW t \in Tids
      PROVE  Final(e).pc[t] >= Len(p[t]) /\ Final(e).pc[t] \in Nat /\ Len(p[t]) \in Nat
    <2>1. Final(e).pc[t] \in Nat /\ Len(p[t]) \in Nat
        BY <1>2, ProgramsAssumption DEF States
    <2> QED
        BY <1>1, <1>2, <2>1, EnabledIs
<1>4. ASSUME NEW t \in Tids, NEW c \in 0 .. Len(p[t]) - 1
      PROVE  \E i \in 1 .. Len(e) : Event(e[i]) = <<t, c>>
    <2>1. c \in Nat /\ c < Final(e).pc[t]
        BY <1>3
    <2> QED
        BY <1>1, <2>1, EventIsPerformed
<1>5. \A t \in Tids : \A c \in 0 .. Len(p[t]) - 1 : \E i \in 1 .. Len(e) : Event(e[i]) = <<t, c>>
    BY <1>4
<1>6. \A t \in Tids : Final(e).pc[t] >= Len(p[t])
    BY <1>3
<1> QED
    BY <1>1, <1>5, <1>6

-----------------------------------------------------------------------------
(* Performing something earlier *)

\* Thread t performs none of the transitions n to m - 1 of e.
Pauses(e, n, m, t) == \A j \in n .. m - 1 : e[j].instr.tid # t

\* While t performs nothing it gets nowhere.
LEMMA ThreadStays ==
    ASSUME NEW p \in Programs, NEW e \in Seq(Transitions), IsExecution(p, e),
           NEW m \in 1 .. Len(e), NEW n \in 1 .. m, NEW t \in Tids, Pauses(e, n, m, t)
    PROVE  e[n].pre.pc[t] = e[m].pre.pc[t]
<1> DEFINE moved == {k \in n .. m : e[k].pre.pc[t] # e[n].pre.pc[t]}
<1> SUFFICES ASSUME moved # {}
             PROVE  FALSE
    OBVIOUS
<1>1. PICK k \in moved : \A j \in moved : k <= j
    <2>1. moved \in SUBSET Nat
        OBVIOUS
    <2> HIDE DEF moved
    <2> QED
        BY <2>1, LeastNatural
<1>2. k - 1 \in n .. m - 1 /\ k - 1 \in 1 .. Len(e) /\ k \in 1 .. Len(e) /\ k # 1
    OBVIOUS
<1>3. e[k - 1].pre.pc[t] = e[n].pre.pc[t]
    BY <1>1, <1>2
<1>4. e[k].pre = e[k - 1].post
    BY <1>2, PreIsStateBefore DEF StateBefore
<1>5. e[k - 1].post.pc[t] = e[k - 1].pre.pc[t]
    BY <1>2, TransitionAdvances DEF Pauses
<1> QED
    BY <1>3, <1>4, <1>5

\* The state before the j-th transition of e, with the m-th one performed first.
Ahead(e, m, j) == Perform(e[j].pre, e[m].instr)

\* e with its m-th transition performed before the n-th one.
Advanced(p, e, n, m) ==
    [j \in 1 .. Len(e) |->
        IF j < n \/ j > m
        THEN e[j]
        ELSE IF j = n
        THEN TransitionFrom(p, e[n].pre, e[m].instr.tid)
        ELSE TransitionFrom(p, Ahead(e, m, j - 1), e[j - 1].instr.tid)]

\* Where in e the j-th transition of that comes from, and where the j-th one goes.
Origin(n, m, j) == IF j < n \/ j > m THEN j ELSE IF j = n THEN m ELSE j - 1

Place(n, m, j) == IF j < n \/ j > m THEN j ELSE IF j = m THEN n ELSE j + 1

\* A state is where its threads are and who owns its locks.
LEMMA SameState ==
    ASSUME NEW r \in States, NEW s \in States, r.pc = s.pc, r.owner = s.owner
    PROVE  r = s
BY DEF States

\* What two threads do next is the same in either order, but for the result where
\* they depend on each other, which is no part of the state.
LEMMA NextCommute ==
    ASSUME NEW p \in Programs, NeverWaits(p), NEW s \in States,
           NEW t \in Enabled(p, s), NEW d \in Enabled(p, s), t # d
    PROVE  LET it == NextInstr(p, s, t)
               id == NextInstr(p, s, d)
           IN  /\ t \in Enabled(p, Perform(s, id))
               /\ NextInstr(p, Perform(s, id), t) = it
               /\ Perform(s, id).pc[t] = s.pc[t]
               /\ Perform(Perform(s, id), it) = Perform(Perform(s, it), id)
<1> DEFINE it == NextInstr(p, s, t)
           id == NextInstr(p, s, d)
<1>1. t \in Tids /\ d \in Tids /\ s.pc \in [Tids -> Nat]
    BY DEF Enabled, States
<1>2. /\ Perform(s, id) \in States /\ Perform(s, id).owner = s.owner
      /\ Perform(s, id).pc = [s.pc EXCEPT ![d] = @ + 1]
    BY PerformNoLock
<1>3. /\ Perform(s, it) \in States /\ Perform(s, it).owner = s.owner
      /\ Perform(s, it).pc = [s.pc EXCEPT ![t] = @ + 1]
    BY PerformNoLock
<1>4. Perform(s, id).pc[t] = s.pc[t] /\ Perform(s, it).pc[d] = s.pc[d]
    BY <1>1, <1>2, <1>3
<1>5. t \in Enabled(p, Perform(s, id)) /\ d \in Enabled(p, Perform(s, it))
    BY <1>1, <1>2, <1>3, <1>4, EnabledIs
<1>6. NextInstr(p, Perform(s, id), t) = it /\ NextInstr(p, Perform(s, it), d) = id
    BY <1>4 DEF NextInstr
<1> HIDE DEF it, id
<1>7. /\ Perform(Perform(s, id), it) \in States
      /\ Perform(Perform(s, id), it).owner = Perform(s, id).owner
      /\ Perform(Perform(s, id), it).pc = [Perform(s, id).pc EXCEPT ![t] = @ + 1]
    BY <1>2, <1>5, <1>6, PerformNoLock
<1>8. /\ Perform(Perform(s, it), id) \in States
      /\ Perform(Perform(s, it), id).owner = Perform(s, it).owner
      /\ Perform(Perform(s, it), id).pc = [Perform(s, it).pc EXCEPT ![d] = @ + 1]
    BY <1>3, <1>5, <1>6, PerformNoLock
<1>9. Perform(Perform(s, id), it).pc = Perform(Perform(s, it), id).pc
    <2>1. [[s.pc EXCEPT ![d] = @ + 1] EXCEPT ![t] = @ + 1]
              = [[s.pc EXCEPT ![t] = @ + 1] EXCEPT ![d] = @ + 1]
        BY <1>1
    <2> QED
        BY <1>2, <1>3, <1>7, <1>8, <2>1
<1>10. Perform(Perform(s, id), it) = Perform(Perform(s, it), id)
    BY <1>2, <1>3, <1>7, <1>8, <1>9, SameState
<1> QED
    BY <1>4, <1>5, <1>6, <1>10 DEF it, id

\* As no thread waits, thread e[m].instr.tid can perform e[m] at any time since
\* its previous transition, and that changes nothing for the others.
LEMMA AheadIs ==
    ASSUME NEW p \in Programs, NeverWaits(p), NEW e \in Seq(Transitions), IsExecution(p, e),
           NEW m \in 1 .. Len(e), NEW n \in 1 .. m, Pauses(e, n, m, e[m].instr.tid),
           NEW j \in n .. m
    PROVE  /\ e[m].instr.tid \in Enabled(p, e[j].pre)
           /\ NextInstr(p, e[j].pre, e[m].instr.tid) = e[m].instr
           /\ e[j].pre.pc[e[m].instr.tid] = e[m].pre.pc[e[m].instr.tid]
           /\ j < m => LET t == e[j].instr.tid
                       IN  /\ t \in Enabled(p, Ahead(e, m, j))
                           /\ NextInstr(p, Ahead(e, m, j), t) = e[j].instr
                           /\ Ahead(e, m, j).pc[t] = e[j].pre.pc[t]
                           /\ Perform(Ahead(e, m, j), e[j].instr) = Ahead(e, m, j + 1)
<1> DEFINE d == e[m].instr.tid
<1>1. d \in Tids /\ e[m].pre \in States
    BY EventIs
<1>2. j \in 1 .. Len(e) /\ j \in 1 .. m /\ Pauses(e, j, m, d) /\ e[j].pre \in States
    <2>1. j \in 1 .. Len(e) /\ j \in 1 .. m /\ Pauses(e, j, m, d)
        BY DEF Pauses
    <2> QED
        BY <2>1, EventIs
<1>3. e[j].pre.pc[d] = e[m].pre.pc[d]
    BY <1>1, <1>2, ThreadStays
<1>4. NextInstr(p, e[j].pre, d) = e[m].instr
    <2>1. NextInstr(p, e[j].pre, d) = NextInstr(p, e[m].pre, d)
        BY <1>3 DEF NextInstr
    <2> QED
        BY <2>1, TransitionIs
<1>5. d \in Enabled(p, e[j].pre)
    <2>1. d \in Enabled(p, e[m].pre)
        BY TransitionIs
    <2> QED
        BY <1>1, <1>2, <1>3, <2>1, EnabledIs
<1>6. ASSUME j < m
      PROVE  LET t == e[j].instr.tid
             IN  /\ t \in Enabled(p, Ahead(e, m, j))
                 /\ NextInstr(p, Ahead(e, m, j), t) = e[j].instr
                 /\ Ahead(e, m, j).pc[t] = e[j].pre.pc[t]
                 /\ Perform(Ahead(e, m, j), e[j].instr) = Ahead(e, m, j + 1)
    <2> DEFINE t == e[j].instr.tid
    <2>1. j + 1 \in 1 .. Len(e) /\ t # d /\ j < j + 1
        BY <1>2, <1>6 DEF Pauses
    <2>2. /\ t \in Enabled(p, e[j].pre) /\ e[j].instr = NextInstr(p, e[j].pre, t)
          /\ e[j].post = Perform(e[j].pre, e[j].instr)
        BY <1>2, TransitionIs
    <2>3. e[j + 1].pre = Perform(e[j].pre, e[j].instr)
        BY <1>2, <2>1, <2>2, LaterIsFurther
    <2>4. LET it == NextInstr(p, e[j].pre, t)
              id == NextInstr(p, e[j].pre, d)
          IN  /\ t \in Enabled(p, Perform(e[j].pre, id))
              /\ NextInstr(p, Perform(e[j].pre, id), t) = it
              /\ Perform(e[j].pre, id).pc[t] = e[j].pre.pc[t]
              /\ Perform(Perform(e[j].pre, id), it) = Perform(Perform(e[j].pre, it), id)
        BY <1>2, <1>5, <2>1, <2>2, NextCommute
    <2> HIDE DEF t, d
    <2> QED
        BY <1>4, <2>2, <2>3, <2>4 DEF Ahead, t
<1> QED
    BY <1>3, <1>4, <1>5, <1>6

\* If what a thread performs at m depends on nothing from n on, performing it at n
\* gives an execution of the same events that ends in the same state.
LEMMA AdvancedIs ==
    ASSUME NEW p \in Programs, NeverWaits(p), NEW e \in Seq(Transitions), IsExecution(p, e),
           NEW m \in 1 .. Len(e), NEW n \in 1 .. m, Pauses(e, n, m, e[m].instr.tid)
    PROVE  LET v == Advanced(p, e, n, m)
           IN  /\ v \in Seq(Transitions) /\ IsExecution(p, v)
               /\ Len(v) = Len(e) /\ Final(v) = Final(e)
               /\ \A j \in 1 .. n - 1 : v[j] = e[j]
               /\ v[n].instr.tid = e[m].instr.tid
               /\ \A j \in 1 .. Len(e) : Event(v[j]) = Event(e[Origin(n, m, j)])
<1> DEFINE v == Advanced(p, e, n, m)
           d == e[m].instr.tid
<1>1. /\ Len(e) \in Nat /\ m \in Nat /\ n \in Nat /\ d \in Tids /\ e[m].pre \in States
      /\ n \in n .. m /\ m \in n .. m /\ n \in 1 .. Len(e)
    BY EventIs
<1>2. ASSUME NEW j \in 1 .. Len(e), j < n \/ j > m
      PROVE  v[j] = e[j] /\ Origin(n, m, j) = j
    BY <1>2 DEF Advanced, Origin
<1>3. /\ v[n].instr = e[m].instr /\ v[n].pre = e[n].pre /\ v[n].post = Ahead(e, m, n)
      /\ v[n] = TransitionFrom(p, e[n].pre, d)
      /\ d \in Enabled(p, e[n].pre)
      /\ Origin(n, m, n) = m
    <2>1. v[n] = TransitionFrom(p, e[n].pre, d) /\ Origin(n, m, n) = m
        BY <1>1 DEF Advanced, Origin
    <2>2. NextInstr(p, e[n].pre, d) = e[m].instr /\ d \in Enabled(p, e[n].pre)
        BY <1>1, AheadIs
    <2> QED
        BY <2>1, <2>2 DEF TransitionFrom, Ahead
<1>4. ASSUME NEW j \in n + 1 .. m
      PROVE  LET t == e[j - 1].instr.tid
             IN  /\ v[j].instr = e[j - 1].instr /\ v[j].pre = Ahead(e, m, j - 1)
                 /\ v[j].post = Ahead(e, m, j)
                 /\ v[j] = TransitionFrom(p, Ahead(e, m, j - 1), t)
                 /\ t \in Enabled(p, Ahead(e, m, j - 1))
                 /\ v[j].pre.pc[t] = e[j - 1].pre.pc[t]
                 /\ Origin(n, m, j) = j - 1
    <2> DEFINE t == e[j - 1].instr.tid
    <2>1. /\ j - 1 \in n .. m /\ j - 1 < m /\ j - 1 + 1 = j /\ j \in 1 .. Len(e)
          /\ ~ (j < n \/ j > m) /\ j # n
        BY <1>1
    <2>2. v[j] = TransitionFrom(p, Ahead(e, m, j - 1), t) /\ Origin(n, m, j) = j - 1
        BY <2>1 DEF Advanced, Origin
    <2>3. /\ t \in Enabled(p, Ahead(e, m, j - 1))
          /\ NextInstr(p, Ahead(e, m, j - 1), t) = e[j - 1].instr
          /\ Ahead(e, m, j - 1).pc[t] = e[j - 1].pre.pc[t]
          /\ Perform(Ahead(e, m, j - 1), e[j - 1].instr) = Ahead(e, m, j)
        <3>1. Perform(Ahead(e, m, j - 1), e[j - 1].instr) = Ahead(e, m, j - 1 + 1)
            BY <2>1, AheadIs
        <3> QED
            BY <2>1, <3>1, AheadIs
    <2> QED
        BY <2>2, <2>3 DEF TransitionFrom
<1>5. ASSUME NEW j \in 1 .. Len(e)
      PROVE  StateBefore(v, j) = IF j \in n + 1 .. m THEN Ahead(e, m, j - 1) ELSE e[j].pre
    <2>1. e[j].pre = StateBefore(e, j)
        BY PreIsStateBefore
    <2>2. CASE j \in n + 1 .. m
        <3>1. j # 1 /\ (j - 1 = n \/ j - 1 \in n + 1 .. m)
            BY <1>1, <2>2
        <3>2. v[j - 1].post = Ahead(e, m, j - 1)
            BY <1>3, <1>4, <3>1
        <3> QED
            BY <2>2, <3>1, <3>2 DEF StateBefore
    <2>3. CASE j <= n \/ j > m + 1
        <3>1. j # 1 => j - 1 \in 1 .. Len(e) /\ (j - 1 < n \/ j - 1 > m)
            BY <1>1, <2>3
        <3>2. StateBefore(v, j) = StateBefore(e, j)
            BY <1>2, <3>1 DEF StateBefore
        <3> QED
            BY <1>1, <2>1, <2>3, <3>2
    <2>4. CASE j = m + 1
        <3>1. j # 1 /\ j - 1 = m /\ (m = n \/ m \in n + 1 .. m)
            BY <1>1, <2>4
        <3>2. v[m].post = Ahead(e, m, m)
            BY <1>3, <1>4, <3>1
        <3>3. Ahead(e, m, m) = e[m].post
            BY TransitionIs DEF Ahead
        <3> QED
            BY <1>1, <2>1, <2>4, <3>1, <3>2, <3>3 DEF StateBefore
    <2> QED
        BY <1>1, <2>2, <2>3, <2>4
<1>6. ASSUME NEW j \in 1 .. Len(e)
      PROVE  j = n \/ j \in n + 1 .. m \/ j < n \/ j > m
    BY <1>1
<1>7. ASSUME NEW j \in 1 .. Len(e)
      PROVE  LET t == v[j].instr.tid
             IN  /\ t \in Enabled(p, StateBefore(v, j))
                 /\ v[j] = TransitionFrom(p, StateBefore(v, j), t)
    <2>1. CASE j = n
        <3>1. StateBefore(v, j) = e[n].pre
            BY <1>1, <1>5, <2>1
        <3> QED
            BY <1>3, <2>1, <3>1
    <2>2. CASE j \in n + 1 .. m
        <3>1. StateBefore(v, j) = Ahead(e, m, j - 1)
            BY <1>5, <2>2
        <3> QED
            BY <1>4, <2>2, <3>1
    <2>3. CASE j < n \/ j > m
        <3>1. StateBefore(v, j) = e[j].pre /\ v[j] = e[j]
            BY <1>1, <1>2, <1>5, <2>3
        <3>2. e[j].pre = StateBefore(e, j)
            BY PreIsStateBefore
        <3> QED
            BY <3>1, <3>2 DEF IsExecution
    <2> QED
        BY <1>6, <2>1, <2>2, <2>3
<1>8. Len(v) = Len(e)
    BY <1>1 DEF Advanced
<1>9. ASSUME NEW j \in 1 .. Len(e)
      PROVE  v[j] \in Transitions
    <2>1. StateBefore(v, j) \in States
        <3>1. e[j].pre \in States
            BY EventIs
        <3>2. ASSUME j \in n + 1 .. m
              PROVE  Ahead(e, m, j - 1) \in States
            <4>1. j - 1 \in n .. m /\ j - 1 \in 1 .. Len(e)
                BY <1>1, <3>2
            <4>2. d \in Enabled(p, e[j - 1].pre) /\ NextInstr(p, e[j - 1].pre, d) = e[m].instr
                BY <4>1, AheadIs
            <4>3. e[j - 1].pre \in States
                BY <4>1, EventIs
            <4>4. Perform(e[j - 1].pre, NextInstr(p, e[j - 1].pre, d)) \in States
                BY <4>2, <4>3, PerformNoLock
            <4> QED
                BY <4>2, <4>4 DEF Ahead
        <3> QED
            BY <1>5, <3>1, <3>2
    <2> QED
        BY <1>7, <2>1, TransitionFromType
<1>10. v \in Seq(Transitions)
    <2>1. v = [j \in 1 .. Len(e) |-> v[j]]
        BY DEF Advanced
    <2> QED
        BY <1>1, <1>9, <2>1, SeqDef
<1>11. IsExecution(p, v)
    BY <1>7, <1>8 DEF IsExecution
<1>12. Final(v) = Final(e)
    <2>1. Len(e) \in 1 .. Len(e) /\ e # <<>> /\ v # <<>>
        BY <1>1, <1>8, EmptySeq
    <2>2. Final(v) = v[Len(e)].post /\ Final(e) = e[Len(e)].post
        BY <1>8, <1>10, <2>1, LastIs DEF Final
    <2>3. CASE m = Len(e)
        <3>1. v[m].post = Ahead(e, m, m)
            <4>1. m = n \/ m \in n + 1 .. m
                BY <1>1
            <4> QED
                BY <1>3, <1>4, <4>1
        <3>2. Ahead(e, m, m) = e[m].post
            BY TransitionIs DEF Ahead
        <3> QED
            BY <2>2, <2>3, <3>1, <3>2
    <2>4. CASE m # Len(e)
        BY <1>1, <1>2, <2>1, <2>2, <2>4
    <2> QED
        BY <2>3, <2>4
<1>13. ASSUME NEW j \in 1 .. Len(e)
       PROVE  Event(v[j]) = Event(e[Origin(n, m, j)])
    <2>1. CASE j = n
        <3>1. e[n].pre.pc[d] = e[m].pre.pc[d]
            BY <1>1, AheadIs
        <3> QED
            BY <1>3, <2>1, <3>1 DEF Event
    <2>2. CASE j \in n + 1 .. m
        BY <1>4, <2>2 DEF Event
    <2>3. CASE j < n \/ j > m
        BY <1>2, <2>3
    <2> QED
        BY <1>6, <2>1, <2>2, <2>3
<1>14. \A j \in 1 .. n - 1 : v[j] = e[j]
    BY <1>1, <1>2
<1> HIDE DEF v
<1> QED
    BY <1>3, <1>8, <1>10, <1>11, <1>12, <1>13, <1>14 DEF v

-----------------------------------------------------------------------------
(* Executions of one trace *)

\* Executions of one trace perform the same events.
LEMMA EventOfTrace ==
    ASSUME NEW e, NEW f, TraceOf(e) = TraceOf(f), NEW i \in 1 .. Len(e)
    PROVE  \E a \in 1 .. Len(f) : Event(f[a]) = Event(e[i])
<1>1. Event(e[i]) \in TraceOf(e).events
    BY DEF TraceOf
<1>2. Event(e[i]) \in TraceOf(f).events
    BY <1>1
<1> QED
    BY <1>2 DEF TraceOf

\* Dependent transitions are ordered by the trace.
LEMMA OrderIs ==
    ASSUME NEW e, NEW i \in 1 .. Len(e), NEW j \in 1 .. Len(e), i < j,
           Dependent(e[i].instr, e[j].instr)
    PROVE  <<Event(e[i]), Event(e[j])>> \in TraceOf(e).order
<1>1. <<i, j>> \in {kl \in (1 .. Len(e)) \X (1 .. Len(e)) :
                       kl[1] < kl[2] /\ Dependent(e[kl[1]].instr, e[kl[2]].instr)}
    OBVIOUS
<1> QED
    BY <1>1 DEF TraceOf

\* Executions of one trace perform dependent events in the same order.
LEMMA OrderOfTrace ==
    ASSUME NEW e, NEW f, TraceOf(e) = TraceOf(f), NEW i \in 1 .. Len(e), NEW j \in 1 .. Len(e),
           i < j, Dependent(e[i].instr, e[j].instr)
    PROVE  \E a \in 1 .. Len(f), b \in 1 .. Len(f) :
               a < b /\ Event(f[a]) = Event(e[i]) /\ Event(f[b]) = Event(e[j])
<1>1. <<Event(e[i]), Event(e[j])>> \in TraceOf(e).order
    BY OrderIs
<1>2. <<Event(e[i]), Event(e[j])>> \in TraceOf(f).order
    BY <1>1
<1>3. PICK ab \in (1 .. Len(f)) \X (1 .. Len(f)) :
          /\ ab[1] < ab[2]
          /\ <<Event(e[i]), Event(e[j])>> = <<Event(f[ab[1]]), Event(f[ab[2]])>>
    BY <1>2 DEF TraceOf
<1> QED
    BY <1>3

\* The events of e are events of f, dependent ones in the same order.
Embeds(e, f) ==
    \E place \in [1 .. Len(e) -> 1 .. Len(f)] :
        \A i \in 1 .. Len(e) :
            /\ Event(e[i]) = Event(f[place[i]])
            /\ \A j \in 1 .. Len(e) :
                   i < j /\ Dependent(e[i].instr, e[j].instr) => place[i] < place[j]

\* An execution that keeps the events of e and the order of the dependent ones has
\* all of the trace of e.
LEMMA EmbeddedTrace ==
    ASSUME NEW p \in Programs, NEW e \in Seq(Transitions), IsExecution(p, e),
           NEW f \in Seq(Transitions), IsExecution(p, f), Embeds(e, f)
    PROVE  TraceOf(e).events \subseteq TraceOf(f).events /\ TraceOf(e).order \subseteq TraceOf(f).order
<1>1. PICK place \in [1 .. Len(e) -> 1 .. Len(f)] :
          \A i \in 1 .. Len(e) :
              /\ Event(e[i]) = Event(f[place[i]])
              /\ \A j \in 1 .. Len(e) :
                     i < j /\ Dependent(e[i].instr, e[j].instr) => place[i] < place[j]
    BY DEF Embeds
<1>2. ASSUME NEW a \in TraceOf(e).events
      PROVE  a \in TraceOf(f).events
    <2>1. PICK i \in 1 .. Len(e) : a = Event(e[i])
        BY DEF TraceOf
    <2>2. place[i] \in 1 .. Len(f) /\ a = Event(f[place[i]])
        BY <1>1, <2>1
    <2> QED
        BY <2>2 DEF TraceOf
<1>3. ASSUME NEW ab \in TraceOf(e).order
      PROVE  ab \in TraceOf(f).order
    <2>1. PICK ij \in (1 .. Len(e)) \X (1 .. Len(e)) :
              /\ ij[1] < ij[2] /\ Dependent(e[ij[1]].instr, e[ij[2]].instr)
              /\ ab = <<Event(e[ij[1]]), Event(e[ij[2]])>>
        BY DEF TraceOf
    <2>2. PICK i \in 1 .. Len(e), j \in 1 .. Len(e) :
              i < j /\ Dependent(e[i].instr, e[j].instr) /\ ab = <<Event(e[i]), Event(e[j])>>
        BY <2>1
    <2>3. /\ place[i] \in 1 .. Len(f) /\ place[j] \in 1 .. Len(f) /\ place[i] < place[j]
          /\ Event(e[i]) = Event(f[place[i]]) /\ Event(e[j]) = Event(f[place[j]])
        BY <1>1, <2>2
    <2>4. e[i].instr = f[place[i]].instr /\ e[j].instr = f[place[j]].instr
        BY <2>3, SameEvent
    <2>5. PICK a \in 1 .. Len(f), b \in 1 .. Len(f) :
              a < b /\ Dependent(f[a].instr, f[b].instr) /\ ab = <<Event(f[a]), Event(f[b])>>
        BY <2>2, <2>3, <2>4
    <2> QED
        BY <2>5, OrderIs
<1> QED
    BY <1>2, <1>3

\* A trace is its events and their order.
LEMMA TraceIs ==
    ASSUME NEW e, NEW f, TraceOf(e).events = TraceOf(f).events, TraceOf(e).order = TraceOf(f).order
    PROVE  TraceOf(e) = TraceOf(f)
BY DEF TraceOf

\* Performing something earlier makes no difference to the trace when it does not
\* depend on what it overtakes.
LEMMA AdvancedTrace ==
    ASSUME NEW p \in Programs, NeverWaits(p), NEW e \in Seq(Transitions), IsExecution(p, e),
           NEW m \in 1 .. Len(e), NEW n \in 1 .. m,
           \A j \in n .. m - 1 : ~ Dependent(e[j].instr, e[m].instr)
    PROVE  Pauses(e, n, m, e[m].instr.tid) /\ TraceOf(Advanced(p, e, n, m)) = TraceOf(e)
<1> DEFINE v == Advanced(p, e, n, m)
           there == [j \in 1 .. Len(e) |-> Origin(n, m, j)]
           back == [j \in 1 .. Len(e) |-> Place(n, m, j)]
<1>1. Pauses(e, n, m, e[m].instr.tid)
    BY DEF Pauses, Dependent, SameThread
<1>2. /\ v \in Seq(Transitions) /\ IsExecution(p, v) /\ Len(v) = Len(e)
      /\ \A j \in 1 .. Len(e) : Event(v[j]) = Event(e[Origin(n, m, j)])
    BY <1>1, AdvancedIs
<1>3. Len(e) \in Nat /\ n \in Nat /\ m \in Nat
    OBVIOUS
<1>4. ASSUME NEW j \in 1 .. Len(e)
      PROVE  /\ Origin(n, m, j) \in 1 .. Len(e) /\ Place(n, m, j) \in 1 .. Len(e)
             /\ Origin(n, m, Place(n, m, j)) = j
    BY <1>3 DEF Origin, Place
<1> HIDE DEF v
<1>5. ASSUME NEW j \in 1 .. Len(e)
      PROVE  Event(e[j]) = Event(v[Place(n, m, j)])
    <2>1. Event(v[Place(n, m, j)]) = Event(e[Origin(n, m, Place(n, m, j))])
        BY <1>2, <1>4
    <2> QED
        BY <1>4, <2>1
<1>6. ASSUME NEW j \in 1 .. Len(e)
      PROVE  v[j].instr = e[Origin(n, m, j)].instr
    <2>1. j \in 1 .. Len(v) /\ Event(v[j]) = Event(e[Origin(n, m, j)])
        BY <1>2
    <2>2. Origin(n, m, j) \in 1 .. Len(e)
        BY <1>4
    <2> QED
        BY <1>2, <2>1, <2>2, SameEvent
<1>7. Embeds(v, e)
    <2>1. there \in [1 .. Len(v) -> 1 .. Len(e)] /\ \A j \in 1 .. Len(v) : there[j] = Origin(n, m, j)
        BY <1>2, <1>4
    <2>2. ASSUME NEW i \in 1 .. Len(v), NEW j \in 1 .. Len(v), i < j, Dependent(v[i].instr, v[j].instr)
          PROVE  there[i] < there[j]
        <3>1. Dependent(e[Origin(n, m, i)].instr, e[Origin(n, m, j)].instr)
            BY <1>2, <1>6, <2>2
        <3>2. ~ (i = n /\ j \in n + 1 .. m)
            <4> SUFFICES ASSUME i = n, j \in n + 1 .. m
                         PROVE  FALSE
                OBVIOUS
            <4>1. Origin(n, m, i) = m /\ Origin(n, m, j) = j - 1 /\ j - 1 \in n .. m - 1
                BY <1>3 DEF Origin
            <4>2. Dependent(e[m].instr, e[j - 1].instr)
                BY <3>1, <4>1
            <4>3. Dependent(e[j - 1].instr, e[m].instr)
                BY <4>2 DEF Dependent, SameThread, SameOperand
            <4> QED
                BY <4>1, <4>3
        <3>3. Origin(n, m, i) < Origin(n, m, j)
            BY <1>2, <1>3, <2>2, <3>2 DEF Origin
        <3> QED
            BY <2>1, <3>3
    <2>3. \A j \in 1 .. Len(v) : Event(v[j]) = Event(e[there[j]])
        BY <1>2, <2>1
    <2> HIDE DEF there
    <2> QED
        BY <2>1, <2>2, <2>3 DEF Embeds
<1>8. Embeds(e, v)
    <2>1. back \in [1 .. Len(e) -> 1 .. Len(v)] /\ \A j \in 1 .. Len(e) : back[j] = Place(n, m, j)
        BY <1>2, <1>4
    <2>2. ASSUME NEW i \in 1 .. Len(e), NEW j \in 1 .. Len(e), i < j, Dependent(e[i].instr, e[j].instr)
          PROVE  back[i] < back[j]
        <3>1. ~ (j = m /\ i \in n .. m - 1)
            BY <2>2
        <3>2. Place(n, m, i) < Place(n, m, j)
            BY <1>3, <2>2, <3>1 DEF Place
        <3> QED
            BY <2>1, <3>2
    <2>3. \A j \in 1 .. Len(e) : Event(e[j]) = Event(v[back[j]])
        BY <1>5, <2>1
    <2> HIDE DEF back
    <2> QED
        BY <2>1, <2>2, <2>3 DEF Embeds
<1>9. TraceOf(e).events \subseteq TraceOf(v).events /\ TraceOf(e).order \subseteq TraceOf(v).order
    BY <1>2, <1>8, EmbeddedTrace
<1>10. TraceOf(v).events \subseteq TraceOf(e).events /\ TraceOf(v).order \subseteq TraceOf(e).order
    BY <1>2, <1>7, EmbeddedTrace
<1>11. TraceOf(v).events = TraceOf(e).events /\ TraceOf(v).order = TraceOf(e).order
    BY <1>9, <1>10
<1>12. TraceOf(v) = TraceOf(e)
    BY <1>11, TraceIs
<1> QED
    BY <1>1, <1>12 DEF v

\* Executions with a common prefix do not perform there what one of them performs
\* later.
LEMMA NotInPrefix ==
    ASSUME NEW p \in Programs, NEW e \in Seq(Transitions), IsExecution(p, e),
           NEW f \in Seq(Transitions), NEW n \in Nat, Share(e, f, n),
           NEW a \in n + 1 .. Len(e), NEW b \in 1 .. Len(f), Event(e[a]) = Event(f[b])
    PROVE  b \in n + 1 .. Len(f)
<1> SUFFICES ASSUME b \in 1 .. n
             PROVE  FALSE
    OBVIOUS
<1>1. e[b] = f[b] /\ b \in 1 .. Len(e) /\ a \in 1 .. Len(e)
    BY DEF Share
<1>2. a = b
    BY <1>1, EventIsPerformedOnce
<1> QED
    BY <1>2

\* Who can start what is left depends on the trace only.
LEMMA FirstOfTrace ==
    ASSUME NEW p \in Programs, NEW e \in Seq(Transitions), IsExecution(p, e),
           NEW f \in Seq(Transitions), IsExecution(p, f), TraceOf(e) = TraceOf(f),
           NEW k \in Nat \ {0}, Share(e, f, k - 1), NEW t, CanComeFirst(e, k, t)
    PROVE  CanComeFirst(f, k, t)
<1>1. PICK m \in k .. Len(e) :
          /\ e[m].instr.tid = t
          /\ \A j \in k .. m - 1 : ~Dependent(e[j].instr, e[m].instr)
    BY DEF CanComeFirst
<1>2. m \in 1 .. Len(e) /\ m \in (k - 1) + 1 .. Len(e) /\ k - 1 \in Nat
    OBVIOUS
<1>3. PICK b \in 1 .. Len(f) : Event(f[b]) = Event(e[m])
    BY <1>2, EventOfTrace
<1>4. b \in k .. Len(f)
    BY <1>2, <1>3, NotInPrefix
<1>5. f[b].instr = e[m].instr
    BY <1>2, <1>3, SameEvent
<1>6. ASSUME NEW j \in k .. b - 1, Dependent(f[j].instr, f[b].instr)
      PROVE  FALSE
    <2>1. j \in 1 .. Len(f) /\ j < b /\ j \in (k - 1) + 1 .. Len(f)
        BY <1>4
    <2>2. PICK c \in 1 .. Len(e), d \in 1 .. Len(e) :
              c < d /\ Event(e[c]) = Event(f[j]) /\ Event(e[d]) = Event(f[b])
        BY <1>6, <2>1, OrderOfTrace
    <2>3. d = m
        BY <1>2, <1>3, <2>2, EventIsPerformedOnce
    <2>4. Share(f, e, k - 1)
        BY DEF Share
    <2>5. c \in (k - 1) + 1 .. Len(e)
        BY <1>2, <2>1, <2>2, <2>4, NotInPrefix
    <2>6. e[c].instr = f[j].instr
        BY <2>1, <2>2, SameEvent
    <2>7. c \in k .. m - 1
        BY <2>2, <2>3, <2>5
    <2> QED
        BY <1>1, <1>5, <1>6, <2>6, <2>7
<1> QED
    BY <1>1, <1>4, <1>5, <1>6 DEF CanComeFirst

-----------------------------------------------------------------------------
(* Happens-before and traces *)

\* A transition happens after every earlier one that it depends on.
LEMMA DependentIsBefore ==
    ASSUME NEW e \in Seq(Transitions), NEW i \in 1 .. Len(e), NEW j \in 1 .. i - 1,
           Dependent(e[j].instr, e[i].instr)
    PROVE  j \in Before(e)[i]
<1>1. j \in Past(e, i, e[i].instr)
    BY DEF Past
<1> QED
    BY <1>1, BeforeIs

\* What happens before something happens before it in every execution of the trace.
LEMMA BeforeInTrace ==
    ASSUME NEW p \in Programs, NEW e \in Seq(Transitions), IsExecution(p, e),
           NEW f \in Seq(Transitions), IsExecution(p, f), TraceOf(e) = TraceOf(f),
           NEW i \in 1 .. Len(e), NEW k \in Before(e)[i]
    PROVE  \E a \in 1 .. Len(f), b \in 1 .. Len(f) :
               /\ a < b /\ Event(f[a]) = Event(e[k]) /\ Event(f[b]) = Event(e[i])
               /\ a \in Before(f)[b]
<1> DEFINE Kept(j) == \A l \in Before(e)[j] : \E a \in 1 .. Len(f), b \in 1 .. Len(f) :
                          /\ a < b /\ Event(f[a]) = Event(e[l]) /\ Event(f[b]) = Event(e[j])
                          /\ a \in Before(f)[b]
           lost == {j \in 1 .. Len(e) : ~ Kept(j)}
<1> SUFFICES ASSUME lost # {}
             PROVE  FALSE
    OBVIOUS
<1>1. PICK j \in lost : \A l \in lost : j <= l
    <2>1. lost \in SUBSET Nat
        OBVIOUS
    <2> HIDE DEF lost
    <2> QED
        BY <2>1, LeastNatural
<1>2. PICK l \in Before(e)[j] :
          ~ \E a \in 1 .. Len(f), b \in 1 .. Len(f) :
                /\ a < b /\ Event(f[a]) = Event(e[l]) /\ Event(f[b]) = Event(e[j])
                /\ a \in Before(f)[b]
    OBVIOUS
<1>3. j \in 1 .. Len(e) /\ l \in Past(e, j, e[j].instr)
    BY <1>2, BeforeIs
<1>4. PICK c \in 1 .. j - 1 : Dependent(e[c].instr, e[j].instr) /\ l \in {c} \cup Before(e)[c]
    BY <1>3 DEF Past
<1>5. c \in 1 .. Len(e) /\ c < j
    BY <1>3
<1>6. PICK a \in 1 .. Len(f), b \in 1 .. Len(f) :
          a < b /\ Event(f[a]) = Event(e[c]) /\ Event(f[b]) = Event(e[j])
    BY <1>3, <1>4, <1>5, OrderOfTrace
<1>7. a \in Before(f)[b]
    <2>1. f[a].instr = e[c].instr /\ f[b].instr = e[j].instr
        <3>1. /\ p \in Programs
              /\ e \in Seq(Transitions) /\ IsExecution(p, e)
              /\ f \in Seq(Transitions) /\ IsExecution(p, f)
              /\ a \in 1 .. Len(f) /\ b \in 1 .. Len(f)
              /\ c \in 1 .. Len(e) /\ j \in 1 .. Len(e)
              /\ Event(f[a]) = Event(e[c]) /\ Event(f[b]) = Event(e[j])
            BY <1>3, <1>5, <1>6
        <3> QED
            BY ONLY <3>1, SameEvent
    <2>2. a \in 1 .. b - 1
        BY <1>6
    <2> QED
        BY <1>4, <2>1, <2>2, DependentIsBefore
<1>8. CASE l = c
    BY <1>2, <1>6, <1>7, <1>8
<1>9. CASE l \in Before(e)[c]
    <2>1. Kept(c)
        <3>1. c \in Nat /\ j \in Nat /\ c \notin lost
            BY <1>1, <1>3, <1>5
        <3> QED
            BY ONLY <1>5, <3>1
    <2>2. PICK a2 \in 1 .. Len(f), b2 \in 1 .. Len(f) :
              /\ a2 < b2 /\ Event(f[a2]) = Event(e[l]) /\ Event(f[b2]) = Event(e[c])
              /\ a2 \in Before(f)[b2]
        BY <1>9, <2>1
    <2>3. b2 = a
        BY <1>6, <2>2, EventIsPerformedOnce
    <2>4. a2 < b /\ a2 \in Before(f)[b]
        BY <1>6, <1>7, <2>2, <2>3, BeforeIsTransitive
    <2> QED
        BY <1>2, <1>6, <2>2, <2>4
<1> QED
    BY <1>4, <1>8, <1>9

\* What happens after transition k happens after one that depends on it directly.
LEMMA FirstStep ==
    ASSUME NEW e \in Seq(Transitions), NEW i \in 1 .. Len(e), NEW k \in Before(e)[i]
    PROVE  \E c \in 1 .. i : /\ k \in 1 .. c - 1 /\ Dependent(e[k].instr, e[c].instr)
                             /\ c = i \/ c \in Before(e)[i]
<1> DEFINE HasStep(j) == k \in Before(e)[j] =>
                         \E c \in 1 .. j : /\ k \in 1 .. c - 1 /\ Dependent(e[k].instr, e[c].instr)
                                           /\ c = j \/ c \in Before(e)[j]
           lost == {j \in 1 .. Len(e) : ~ HasStep(j)}
<1> SUFFICES ASSUME lost # {}
             PROVE  FALSE
    OBVIOUS
<1>1. PICK j \in lost : \A l \in lost : j <= l
    <2>1. lost \in SUBSET Nat
        OBVIOUS
    <2> HIDE DEF lost
    <2> QED
        BY <2>1, LeastNatural
<1>2. j \in 1 .. Len(e) /\ k \in Before(e)[j] /\ ~ HasStep(j)
    OBVIOUS
<1>3. k \in Past(e, j, e[j].instr)
    BY <1>2, BeforeIs
<1>4. PICK c \in 1 .. j - 1 : Dependent(e[c].instr, e[j].instr) /\ k \in {c} \cup Before(e)[c]
    BY <1>3 DEF Past
<1>5. c \in 1 .. Len(e) /\ c < j
    BY <1>2
<1>6. c \in Before(e)[j]
    <2>1. c \in Past(e, j, e[j].instr)
        BY <1>4 DEF Past
    <2> QED
        BY <1>2, <2>1, BeforeIs
<1>7. CASE k = c
    BY <1>2, <1>4, <1>7
<1>8. CASE k \in Before(e)[c]
    <2>1. HasStep(c)
        BY <1>1, <1>5
    <2>2. PICK c2 \in 1 .. c : /\ k \in 1 .. c2 - 1 /\ Dependent(e[k].instr, e[c2].instr)
                               /\ c2 = c \/ c2 \in Before(e)[c]
        BY <1>8, <2>1
    <2>3. c2 \in Before(e)[j]
        BY <1>2, <1>6, <2>2, BeforeIsTransitive
    <2> QED
        BY <1>2, <1>5, <2>2, <2>3
<1> QED
    BY <1>4, <1>7, <1>8

\* The first transition after n of another thread that depends on it is in a race
\* with it in every execution of the trace that begins with transition n, too.
LEMMA RaceOfTrace ==
    ASSUME NEW p \in Programs, NEW v \in Seq(Transitions), IsExecution(p, v),
           NEW f \in Seq(Transitions), IsExecution(p, f), TraceOf(v) = TraceOf(f),
           NEW n \in 1 .. Len(v), Share(v, f, n), NEW r \in n + 1 .. Len(v),
           Dependent(v[n].instr, v[r].instr), v[r].instr.tid # v[n].instr.tid,
           \A j \in n + 1 .. r - 1 : ~ Dependent(v[n].instr, v[j].instr)
    PROVE  \E i \in 1 .. Len(f) : Event(f[i]) = Event(v[r]) /\ n \in DirectlyBefore(f, i)
<1>1. /\ r \in 1 .. Len(v) /\ n \in Nat /\ Share(f, v, n)
      /\ p \in Programs
      /\ v \in Seq(Transitions) /\ IsExecution(p, v)
      /\ f \in Seq(Transitions) /\ IsExecution(p, f)
    BY DEF Share
<1>2. PICK i \in 1 .. Len(f) : Event(f[i]) = Event(v[r])
    BY <1>1, EventOfTrace
<1>3. i \in n + 1 .. Len(f)
    BY <1>1, <1>2, NotInPrefix
<1>4. f[n] = v[n] /\ n \in 1 .. Len(f)
    BY DEF Share
<1>5. f[i].instr = v[r].instr
    BY <1>1, <1>2, SameEvent
<1>6. n \in Before(f)[i]
    <2>1. n \in 1 .. i - 1
        BY <1>3
    <2> QED
        BY <1>4, <1>5, <2>1, DependentIsBefore
<1>7. ASSUME NEW k \in Before(f)[i], n \in Before(f)[k]
      PROVE  FALSE
    <2>1. k \in 1 .. Len(f)
        BY BeforeIsEarlier
    <2>2. PICK c \in 1 .. k : /\ n \in 1 .. c - 1 /\ Dependent(f[n].instr, f[c].instr)
                              /\ c = k \/ c \in Before(f)[k]
        BY <1>7, <2>1, FirstStep
    <2>3. c \in Before(f)[i]
        BY <2>2, BeforeIsTransitive
    <2>4. c \in 1 .. Len(f) /\ c \in n + 1 .. Len(f)
        BY <1>4, <2>1, <2>2
    <2>5. PICK a \in 1 .. Len(v), b \in 1 .. Len(v) :
              a < b /\ Event(v[a]) = Event(f[c]) /\ Event(v[b]) = Event(f[i])
        BY <2>3, BeforeInTrace
    <2>6. b = r
        BY <1>1, <1>2, <2>5, EventIsPerformedOnce
    <2>7. a \in n + 1 .. Len(v)
        BY ONLY <1>1, <2>4, <2>5, NotInPrefix
    <2>8. v[a].instr = f[c].instr
        BY ONLY <1>1, <2>4, <2>5, SameEvent
    <2>9. a \in n + 1 .. r - 1
        BY <2>5, <2>6, <2>7
    <2> QED
        BY <1>4, <2>2, <2>8, <2>9
<1>8. n \in DirectlyBefore(f, i)
    BY <1>4, <1>5, <1>6, <1>7 DEF DirectlyBefore
<1> QED
    BY <1>2, <1>8

\* Of what reversing the race of n and i moves, nothing need be done before c.
IsFront(e, n, i, c) ==
    c \in MovedBefore(e, n, i) /\ Before(e)[c] \cap MovedBefore(e, n, i) = {}

\* What can start the reversal of a race can start all that follows transition n in
\* every execution of the trace that begins with it, too.
LEMMA FrontOfTrace ==
    ASSUME NEW p \in Programs, NEW v \in Seq(Transitions), IsExecution(p, v),
           NEW f \in Seq(Transitions), IsExecution(p, f), TraceOf(v) = TraceOf(f),
           NEW n \in 1 .. Len(v), Share(v, f, n),
           NEW i \in 1 .. Len(f), n \in DirectlyBefore(f, i), NEW c, IsFront(f, n, i, c)
    PROVE  \E x \in n + 1 .. Len(v) :
               /\ Event(v[x]) = Event(f[c])
               /\ \A y \in n + 1 .. x - 1 : ~ Dependent(v[y].instr, v[x].instr)
               /\ c = i \/ ~ Dependent(v[n].instr, v[x].instr)
<1>1. /\ n \in Nat /\ n \in Before(f)[i] /\ n \in 1 .. i - 1 /\ Share(f, v, n)
      /\ \A k \in Before(f)[i] : n \notin Before(f)[k]
    <2>1. n \in Before(f)[i] /\ \A k \in Before(f)[i] : n \notin Before(f)[k]
        BY DEF DirectlyBefore
    <2>2. n \in 1 .. i - 1
        BY <2>1, BeforeIsEarlier
    <2> QED
        BY <2>1, <2>2 DEF Share
<1>2. c \in n + 1 .. i /\ c \in 1 .. Len(f) /\ (c # i => n \notin Before(f)[c])
      /\ c \in n + 1 .. Len(f)
    BY <1>1 DEF IsFront, MovedBefore
<1>3. PICK x \in 1 .. Len(v) : Event(v[x]) = Event(f[c])
    BY <1>2, EventOfTrace
<1>4. x \in n + 1 .. Len(v)
    BY <1>1, <1>2, <1>3, NotInPrefix
<1>5. v[x].instr = f[c].instr
    BY <1>2, <1>3, SameEvent
<1>6. ASSUME NEW y \in n + 1 .. x - 1, Dependent(v[y].instr, v[x].instr)
      PROVE  FALSE
    <2>1. y \in 1 .. Len(v) /\ y < x /\ y \in n + 1 .. Len(v)
        BY <1>4
    <2>2. PICK a \in 1 .. Len(f), b \in 1 .. Len(f) :
              a < b /\ Event(f[a]) = Event(v[y]) /\ Event(f[b]) = Event(v[x])
        BY <1>6, <2>1, OrderOfTrace
    <2>3. b = c
        BY <1>2, <1>3, <2>2, EventIsPerformedOnce
    <2>4. a \in n + 1 .. Len(f)
        BY <1>1, <2>1, <2>2, NotInPrefix
    <2>5. f[a].instr = v[y].instr
        <3>1. /\ p \in Programs
              /\ v \in Seq(Transitions) /\ IsExecution(p, v)
              /\ f \in Seq(Transitions) /\ IsExecution(p, f)
              /\ a \in 1 .. Len(f) /\ y \in 1 .. Len(v) /\ Event(f[a]) = Event(v[y])
            BY <2>1, <2>2
        <3> QED
            BY ONLY <3>1, SameEvent
    <2>6. a \in Before(f)[c]
        <3>1. a \in 1 .. c - 1
            BY <2>2, <2>3
        <3> QED
            BY <1>2, <1>5, <1>6, <2>5, <3>1, DependentIsBefore
    <2>7. a \notin MovedBefore(f, n, i) /\ a \in n + 1 .. i - 1
        BY <1>2, <2>2, <2>3, <2>4, <2>6 DEF IsFront
    <2>8. n \in Before(f)[a]
        BY <2>7 DEF MovedBefore
    <2>9. CASE c = i
        BY <1>1, <2>6, <2>8, <2>9
    <2>10. CASE c # i
        <3>1. n \in Before(f)[c]
            BY <1>2, <2>6, <2>8, BeforeIsTransitive
        <3> QED
            BY <1>2, <2>10, <3>1
    <2> QED
        BY <2>9, <2>10
<1>7. ASSUME c # i, Dependent(v[n].instr, v[x].instr)
      PROVE  FALSE
    <2>1. f[n] = v[n] /\ n \in 1 .. c - 1
        BY <1>2 DEF Share
    <2>2. n \in Before(f)[c]
        BY <1>2, <1>5, <1>7, <2>1, DependentIsBefore
    <2> QED
        BY <1>2, <1>7, <2>2
<1> QED
    BY <1>3, <1>4, <1>6, <1>7

-----------------------------------------------------------------------------
(* The races of a thread that can be put first *)

\* What comes before a place of the advanced execution came before its origin, but
\* for the transition that was advanced.
LEMMA PlaceIs ==
    ASSUME NEW L \in Nat, NEW m \in 1 .. L, NEW n \in 1 .. m, NEW x \in n + 1 .. L
    PROVE  /\ Origin(n, m, x) \in n .. L /\ Origin(n, m, x) # m
           /\ \A y \in n .. Origin(n, m, x) - 1 :
                  /\ Place(n, m, y) \in n .. x - 1
                  /\ Place(n, m, y) = n => y = m
BY DEF Origin, Place

\* v consists of the instructions of e, with the m-th one put before the n-th.
IsAdvanced(e, v, n, m) ==
    /\ Len(v) = Len(e)
    /\ \A j \in 1 .. Len(e) : v[j].instr = e[Origin(n, m, j)].instr
    /\ \A j \in 1 .. Len(e) : v[Place(n, m, j)].instr = e[j].instr

\* AdvancedIs, in the form in which the races of the new execution are compared.
LEMMA AdvancedIsAdvanced ==
    ASSUME NEW p \in Programs, NeverWaits(p), NEW e \in Seq(Transitions), IsExecution(p, e),
           NEW m \in 1 .. Len(e), NEW n \in 1 .. m, Pauses(e, n, m, e[m].instr.tid)
    PROVE  IsAdvanced(e, Advanced(p, e, n, m), n, m)
<1>1. PICK v : v = Advanced(p, e, n, m)
    OBVIOUS
<1>2. /\ v \in Seq(Transitions) /\ IsExecution(p, v) /\ Len(v) = Len(e)
      /\ \A i \in 1 .. Len(e) : Event(v[i]) = Event(e[Origin(n, m, i)])
    BY <1>1, AdvancedIs
<1>3. ASSUME NEW j \in 1 .. Len(e)
      PROVE  /\ v[j].instr = e[Origin(n, m, j)].instr
             /\ v[Place(n, m, j)].instr = e[j].instr
    <2>1. /\ Origin(n, m, j) \in 1 .. Len(e) /\ Place(n, m, j) \in 1 .. Len(e)
          /\ Origin(n, m, Place(n, m, j)) = j
        BY DEF Origin, Place
    <2>2. Event(v[Place(n, m, j)]) = Event(e[j])
        BY <1>2, <2>1
    <2>3. v[Place(n, m, j)].instr = e[j].instr
        BY <1>2, <2>1, <2>2, SameEvent
    <2>4. v[j].instr = e[Origin(n, m, j)].instr
        BY <1>2, <2>1, SameEvent
    <2> QED
        BY <2>3, <2>4
<1>4. IsAdvanced(e, v, n, m)
    BY <1>2, <1>3 DEF IsAdvanced
<1> QED
    BY <1>1, <1>4

\* A complete execution comes to the next transition of an enabled thread.
LEMMA FirstBy ==
    ASSUME NEW p \in Programs, NeverWaits(p), NEW e \in CompleteExecutions(p),
           NEW n \in 1 .. Len(e), NEW d \in Enabled(p, e[n].pre)
    PROVE  \E m \in 1 .. Len(e) : n \in 1 .. m /\ e[m].instr.tid = d /\ Pauses(e, n, m, d)
<1>1. e \in Seq(Transitions) /\ IsExecution(p, e)
    BY CompleteIs
<1>2. d \in Tids /\ e[n].pre.pc[d] \in 0 .. Len(p[d]) - 1 /\ e[n].pre.pc[d] \in Nat
    <2>1. d \in Tids /\ e[n].pre.pc[d] < Len(p[d])
        BY DEF Enabled, IsEnabled, HasNext
    <2>2. e[n].pre.pc[d] \in Nat
        BY <1>1, <2>1, TransitionAdvances
    <2>3. Len(p[d]) \in Nat
        BY <2>1, ProgramsAssumption
    <2> QED
        BY <2>1, <2>2, <2>3
<1>3. PICK m \in 1 .. Len(e) : Event(e[m]) = <<d, e[n].pre.pc[d]>>
    BY <1>2, CompleteIs
<1>4. e[m].instr.tid = d /\ e[m].pre.pc[d] = e[n].pre.pc[d]
    BY <1>3 DEF Event
<1>5. n \in 1 .. m
    <2> SUFFICES ASSUME m < n
                 PROVE  FALSE
        OBVIOUS
    <2>1. e[m].pre.pc[d] < e[n].pre.pc[d]
        BY <1>1, <1>4, LaterIsFurther
    <2> QED
        BY <1>2, <1>4, <2>1
<1>6. ASSUME NEW j \in n .. m - 1, e[j].instr.tid = d
      PROVE  FALSE
    <2>1. j \in 1 .. Len(e) /\ j < m /\ n \in 1 .. j
        BY <1>5
    <2>2. e[j].pre.pc[d] < e[m].pre.pc[d]
        BY <1>1, <1>6, <2>1, LaterIsFurther
    <2>3. e[n].pre.pc[d] <= e[j].pre.pc[d] /\ e[j].pre.pc[d] \in Nat
        BY <1>1, <1>2, <2>1, ExecutionAdvances, TransitionAdvances
    <2> QED
        BY <1>2, <1>4, <2>2, <2>3
<1> QED
    BY <1>4, <1>5, <1>6 DEF Pauses

\* Advancing a transition keeps an execution complete.
LEMMA AdvancedIsComplete ==
    ASSUME NEW p \in Programs, NeverWaits(p), NEW e \in CompleteExecutions(p),
           NEW m \in 1 .. Len(e), NEW n \in 1 .. m, Pauses(e, n, m, e[m].instr.tid)
    PROVE  LET v == Advanced(p, e, n, m)
           IN  /\ v \in CompleteExecutions(p) /\ Len(v) = Len(e)
               /\ Share(v, e, n - 1) /\ v[n].instr.tid = e[m].instr.tid
               /\ CanComeFirst(v, n, e[m].instr.tid)
<1> DEFINE v == Advanced(p, e, n, m)
<1>1. e \in Seq(Transitions) /\ IsExecution(p, e) /\ Enabled(p, Final(e)) = {}
    BY ExecutionsAre DEF CompleteExecutions
<1>2. /\ v \in Seq(Transitions) /\ IsExecution(p, v)
      /\ Len(v) = Len(e) /\ Final(v) = Final(e)
      /\ \A j \in 1 .. n - 1 : v[j] = e[j]
      /\ v[n].instr.tid = e[m].instr.tid
    BY <1>1, AdvancedIs
<1> HIDE DEF v
<1>3. v \in CompleteExecutions(p)
    BY <1>1, <1>2, ExecutionsAre DEF CompleteExecutions
<1>4. Share(v, e, n - 1)
    BY <1>1, <1>2 DEF Share
<1>5. CanComeFirst(v, n, e[m].instr.tid)
    <2>1. n \in n .. Len(v) /\ n .. n - 1 = {}
        BY <1>1, <1>2
    <2> QED
        BY <1>2, <2>1 DEF CanComeFirst
<1> QED
    BY <1>2, <1>3, <1>4, <1>5 DEF v

\* Putting a thread first lets no other thread come first that could not before.
LEMMA FirstOfAdvanced ==
    ASSUME NEW p \in Programs, NeverWaits(p), NEW e \in CompleteExecutions(p),
           NEW m \in 1 .. Len(e), NEW n \in 1 .. m, Pauses(e, n, m, e[m].instr.tid),
           NEW t, t # e[m].instr.tid, CanComeFirst(Advanced(p, e, n, m), n, t)
    PROVE  CanComeFirst(e, n, t)
<1>1. e \in Seq(Transitions) /\ IsExecution(p, e) /\ Len(e) \in Nat
    BY CompleteIs
<1>2. PICK v : v = Advanced(p, e, n, m)
    OBVIOUS
<1>3. Len(v) = Len(e) /\ v[n].instr.tid = e[m].instr.tid /\ IsAdvanced(e, v, n, m)
    BY <1>1, <1>2, AdvancedIsComplete, AdvancedIsAdvanced
<1>4. PICK x \in n .. Len(e) : /\ v[x].instr.tid = t
                               /\ \A y \in n .. x - 1 : ~ Dependent(v[y].instr, v[x].instr)
    BY <1>2, <1>3 DEF CanComeFirst
<1>5. x \in n + 1 .. Len(e) /\ x \in 1 .. Len(e)
    BY <1>1, <1>3, <1>4
<1>6. PICK o : o = Origin(n, m, x)
    OBVIOUS
<1>7. o \in n .. Len(e) /\ o # m /\ \A y \in n .. o - 1 : Place(n, m, y) \in n .. x - 1
    BY <1>1, <1>5, <1>6, PlaceIs
<1>8. e[o].instr = v[x].instr
    BY <1>3, <1>5, <1>6 DEF IsAdvanced
<1>9. \A j \in 1 .. Len(e) : v[Place(n, m, j)].instr = e[j].instr
    BY <1>3 DEF IsAdvanced
<1>10. ASSUME NEW y \in n .. o - 1
       PROVE  ~ Dependent(e[y].instr, e[o].instr)
    <2>1. y \in 1 .. Len(e) /\ Place(n, m, y) \in n .. x - 1
        BY <1>1, <1>7
    <2>2. v[Place(n, m, y)].instr = e[y].instr
        BY <1>9, <2>1
    <2>3. ~ Dependent(v[Place(n, m, y)].instr, v[x].instr)
        BY <1>4, <2>1
    <2> QED
        BY <1>8, <2>2, <2>3
<1> QED
    BY <1>4, <1>7, <1>8, <1>10 DEF CanComeFirst

\* dependent does not look at the order of its arguments.
LEMMA DependentIsSymmetric ==
    ASSUME NEW i1, NEW i2
    PROVE  Dependent(i1, i2) <=> Dependent(i2, i1)
BY DEF Dependent, SameThread, SameOperand

\* The first transition that the advanced one is dependent on races with it.
LEMMA RaceOfAdvanced ==
    ASSUME NEW p \in Programs, NeverWaits(p), NEW e \in Seq(Transitions), IsExecution(p, e),
           NEW m \in 1 .. Len(e), NEW n \in 1 .. m, Pauses(e, n, m, e[m].instr.tid),
           NEW r \in n .. m - 1, Dependent(e[r].instr, e[m].instr),
           \A j \in n .. r - 1 : ~ Dependent(e[j].instr, e[m].instr),
           NEW v, IsAdvanced(e, v, n, m)
    PROVE  /\ r + 1 \in n + 1 .. Len(v)
           /\ Dependent(v[n].instr, v[r + 1].instr) /\ v[r + 1].instr.tid # v[n].instr.tid
           /\ \A j \in n + 1 .. r : ~ Dependent(v[n].instr, v[j].instr)
<1>1. /\ Len(v) = Len(e) /\ Len(e) \in Nat
      /\ n \in 1 .. Len(e) /\ r \in 1 .. Len(e) /\ r + 1 \in 1 .. Len(e)
    BY DEF IsAdvanced
<1>2. Origin(n, m, n) = m /\ \A j \in n + 1 .. r + 1 : Origin(n, m, j) = j - 1
    BY DEF Origin
<1>3. v[n].instr = e[m].instr
    <2>1. v[n].instr = e[Origin(n, m, n)].instr
        BY <1>1 DEF IsAdvanced
    <2> QED
        BY <1>2, <2>1
<1>4. ASSUME NEW j \in n + 1 .. r + 1
      PROVE  v[j].instr = e[j - 1].instr
    <2>1. j \in 1 .. Len(e)
        BY <1>1
    <2>2. v[j].instr = e[Origin(n, m, j)].instr
        BY <2>1 DEF IsAdvanced
    <2> QED
        BY <1>2, <2>2
<1>5. v[r + 1].instr = e[r].instr
    BY <1>4
<1>6. v[r + 1].instr.tid # v[n].instr.tid
    BY <1>3, <1>5 DEF Pauses
<1>7. ASSUME NEW j \in n + 1 .. r
      PROVE  ~ Dependent(v[n].instr, v[j].instr)
    <2>1. j - 1 \in n .. r - 1 /\ v[j].instr = e[j - 1].instr
        BY <1>4
    <2> QED
        BY <1>3, <2>1, DependentIsSymmetric
<1>8. Dependent(v[n].instr, v[r + 1].instr)
    BY <1>3, <1>5, DependentIsSymmetric
<1> QED
    BY <1>1, <1>6, <1>7, <1>8

\* What can start the reversal of that race in another order of the trace could come
\* first before the transition was advanced, too.
LEMMA FrontOfReversal ==
    ASSUME NEW p \in Programs, NeverWaits(p), NEW e \in Seq(Transitions), IsExecution(p, e),
           NEW m \in 1 .. Len(e), NEW n \in 1 .. m, Pauses(e, n, m, e[m].instr.tid),
           NEW r \in n .. m - 1,
           NEW v \in Seq(Transitions), IsExecution(p, v), IsAdvanced(e, v, n, m),
           NEW f \in Seq(Transitions), IsExecution(p, f), TraceOf(v) = TraceOf(f), Share(v, f, n),
           NEW i \in 1 .. Len(f), n \in DirectlyBefore(f, i), Event(f[i]) = Event(v[r + 1]),
           NEW c, IsFront(f, n, i, c)
    PROVE  CanComeFirst(e, n, f[c].instr.tid)
<1>1. /\ Len(v) = Len(e) /\ Len(e) \in Nat /\ Len(f) \in Nat
      /\ n \in 1 .. Len(e) /\ n \in 1 .. Len(v) /\ r + 1 \in 1 .. Len(v)
    BY DEF IsAdvanced
<1>2. PICK x \in n + 1 .. Len(v) :
               /\ Event(v[x]) = Event(f[c])
               /\ \A y \in n + 1 .. x - 1 : ~ Dependent(v[y].instr, v[x].instr)
               /\ c = i \/ ~ Dependent(v[n].instr, v[x].instr)
    BY <1>1, FrontOfTrace
<1>3. PICK o : o = Origin(n, m, x)
    OBVIOUS
<1>4. x \in n + 1 .. Len(e) /\ x \in 1 .. Len(e)
    BY <1>1, <1>2
<1>5. /\ o \in n .. Len(e) /\ o # m
      /\ \A y \in n .. o - 1 : /\ Place(n, m, y) \in n .. x - 1
                               /\ Place(n, m, y) = n => y = m
    BY <1>1, <1>3, <1>4, PlaceIs
<1>6. e[o].instr = v[x].instr
    BY <1>3, <1>4 DEF IsAdvanced
<1>7. e[o].instr.tid = f[c].instr.tid
    BY <1>2, <1>6 DEF Event
<1>8. \A j \in 1 .. Len(e) : v[Place(n, m, j)].instr = e[j].instr
    BY DEF IsAdvanced
<1>9. m < o => ~ Dependent(v[n].instr, v[x].instr)
    <2> SUFFICES ASSUME c = i
                 PROVE  ~ (m < o)
        BY <1>2
    <2>1. x = r + 1
        BY <1>1, <1>2, <1>4, EventIsPerformedOnce
    <2>2. Origin(n, m, x) = r
        BY <2>1 DEF Origin
    <2> QED
        BY <1>3, <2>2
<1>10. ASSUME NEW y \in n .. o - 1
       PROVE  ~ Dependent(e[y].instr, e[o].instr)
    <2>1. /\ y \in 1 .. Len(e) /\ Place(n, m, y) \in n .. x - 1
          /\ Place(n, m, y) = n => y = m
        BY <1>1, <1>5
    <2>2. v[Place(n, m, y)].instr = e[y].instr
        BY <1>8, <2>1
    <2>3. ~ Dependent(v[Place(n, m, y)].instr, v[x].instr)
        <3>1. CASE Place(n, m, y) = n
            BY <1>5, <1>9, <2>1, <3>1
        <3>2. CASE Place(n, m, y) # n
            <4>1. Place(n, m, y) \in n + 1 .. x - 1
                BY <2>1, <3>2
            <4> QED
                BY <1>2, <4>1
        <3> QED
            BY <3>1, <3>2
    <2> QED
        BY <1>6, <2>2, <2>3
<1> QED
    BY <1>5, <1>7, <1>10 DEF CanComeFirst

\* v is a complete execution in which thread d can come n-th, and of the others only
\* those that can in e.
PutsFirst(p, e, n, d, v) ==
    /\ v \in CompleteExecutions(p)
    /\ Share(v, e, n - 1)
    /\ CanComeFirst(v, n, d)
    /\ \A t \in Tids : t # d /\ CanComeFirst(v, n, t) => CanComeFirst(e, n, t)

\* When thread d is enabled before the n-th transition of w but cannot come first
\* there, another complete execution has it first, and a race that whoever can
\* start its reversal could come first in w: v, in any order of its trace.
Reverses(p, w, n, d, v) ==
    /\ PutsFirst(p, w, n, d, v)
    /\ \A f \in CompleteExecutions(p) :
           TraceOf(f) = TraceOf(v) /\ Share(f, w, n - 1) /\ f[n].instr.tid = d =>
               \E i \in 1 .. Len(f) :
                   /\ n \in DirectlyBefore(f, i)
                   /\ \A t \in FrontThreads(f, n, i) : CanComeFirst(w, n, t)

\* If thread d is enabled before n and cannot come first in what w performs from there
\* on, another complete execution lets d go first and has a race that leads to w.
LEMMA ReversalExists ==
    ASSUME NEW p \in Programs, NeverWaits(p), NEW w \in CompleteExecutions(p),
           NEW n \in 1 .. Len(w), NEW d \in Enabled(p, w[n].pre), ~ CanComeFirst(w, n, d)
    PROVE  \E v : Reverses(p, w, n, d, v)
<1>1. w \in Seq(Transitions) /\ IsExecution(p, w) /\ Len(w) \in Nat
    BY CompleteIs
<1>2. PICK m \in 1 .. Len(w) : n \in 1 .. m /\ w[m].instr.tid = d /\ Pauses(w, n, m, d)
    BY FirstBy
<1>3. PICK v : v = Advanced(p, w, n, m)
    OBVIOUS
<1>4. /\ v \in CompleteExecutions(p) /\ Len(v) = Len(w)
      /\ Share(v, w, n - 1) /\ v[n].instr.tid = d /\ CanComeFirst(v, n, d)
    BY <1>2, <1>3, AdvancedIsComplete
<1>5. IsAdvanced(w, v, n, m) /\ v \in Seq(Transitions) /\ IsExecution(p, v)
    BY <1>1, <1>2, <1>3, <1>4, AdvancedIsAdvanced, CompleteIs
<1>6. \A t \in Tids : t # d /\ CanComeFirst(v, n, t) => CanComeFirst(w, n, t)
    BY <1>2, <1>3, FirstOfAdvanced
<1>7. PICK r \in n .. m - 1 : /\ Dependent(w[r].instr, w[m].instr)
                              /\ \A j \in n .. r - 1 : ~ Dependent(w[j].instr, w[m].instr)
    <2> DEFINE S == {j \in n .. m - 1 : Dependent(w[j].instr, w[m].instr)}
    <2>1. m \in n .. Len(w)
        BY <1>2
    <2>2. S # {}
        BY <1>2, <2>1 DEF CanComeFirst
    <2>3. S \in SUBSET Nat
        OBVIOUS
    <2>4. PICK r \in S : \A j \in S : r <= j
        BY <2>2, <2>3, LeastNatural
    <2>5. \A j \in n .. r - 1 : j \notin S /\ j \in n .. m - 1
        BY <2>4
    <2> QED
        BY <2>4, <2>5
<1>8. /\ r + 1 \in n + 1 .. Len(v)
      /\ Dependent(v[n].instr, v[r + 1].instr) /\ v[r + 1].instr.tid # v[n].instr.tid
      /\ \A j \in n + 1 .. r : ~ Dependent(v[n].instr, v[j].instr)
    BY <1>1, <1>2, <1>5, <1>7, RaceOfAdvanced
<1>9. ASSUME NEW f \in CompleteExecutions(p),
             TraceOf(f) = TraceOf(v), Share(f, w, n - 1), f[n].instr.tid = d
      PROVE  \E i \in 1 .. Len(f) :
                 /\ n \in DirectlyBefore(f, i)
                 /\ \A t \in FrontThreads(f, n, i) : CanComeFirst(w, n, t)
    <2>1. f \in Seq(Transitions) /\ IsExecution(p, f) /\ Len(f) \in Nat
        BY CompleteIs
    <2>2. n \in 1 .. Len(v) /\ n \in 1 .. Len(f)
        <3>1. n \in 1 .. Len(v) /\ n - 1 \in Nat /\ n \in (n - 1) + 1 .. Len(v)
            BY <1>1, <1>4
        <3>2. Share(v, f, n - 1)
            BY <1>4, <1>9 DEF Share
        <3>3. PICK a \in 1 .. Len(f) : Event(f[a]) = Event(v[n])
            BY <1>9, <3>1, EventOfTrace
        <3>4. a \in (n - 1) + 1 .. Len(f)
            BY <1>5, <2>1, <3>1, <3>2, <3>3, NotInPrefix
        <3> QED
            BY <2>1, <3>1, <3>4
    <2>3. Share(v, f, n)
        <3>1. \A i \in 1 .. n - 1 : v[i] = f[i]
            BY <1>4, <1>9 DEF Share
        <3>2. v[n] = f[n]
            BY <1>4, <1>5, <1>9, <2>1, <2>2, <3>1, SameThreadSameTransition
        <3> QED
            BY <2>2, <3>1, <3>2 DEF Share
    <2>4. PICK i \in 1 .. Len(f) : Event(f[i]) = Event(v[r + 1]) /\ n \in DirectlyBefore(f, i)
        <3>1. \A j \in n + 1 .. (r + 1) - 1 : ~ Dependent(v[n].instr, v[j].instr)
            BY <1>8
        <3> QED
            BY <1>5, <1>8, <1>9, <2>1, <2>2, <2>3, <3>1, RaceOfTrace
    <2>5. ASSUME NEW t \in FrontThreads(f, n, i)
          PROVE  CanComeFirst(w, n, t)
        <3>1. PICK c : f[c].instr.tid = t /\ IsFront(f, n, i, c)
            BY DEF FrontThreads, IsFront
        <3> QED
            BY <1>1, <1>2, <1>5, <1>7, <1>9, <2>1, <2>3, <2>4, <3>1, FrontOfReversal
    <2> QED
        BY <2>4, <2>5
<1> QED
    BY <1>4, <1>6, <1>9 DEF Reverses, PutsFirst

-----------------------------------------------------------------------------
(* The last race of a thread that can be put first *)

\* v lets thread d of D go n-th, where it could not come first in e, and up to the r-th
\* transition, which is the first that the n-th is dependent on, no thread of D follows.
Leads(p, e, n, d, D, v, r) ==
    /\ v \in CompleteExecutions(p)
    /\ Share(v, e, n - 1)
    /\ \A t \in Tids : t # d /\ CanComeFirst(v, n, t) => CanComeFirst(e, n, t)
    /\ n \in 1 .. Len(v) /\ r \in n + 1 .. Len(v)
    /\ v[n].instr.tid = d /\ v[r].instr.tid # d
    /\ Dependent(v[n].instr, v[r].instr)
    /\ \A j \in n + 1 .. r - 1 : ~ Dependent(v[n].instr, v[j].instr)
    /\ \A j \in n + 1 .. r : v[j].instr.tid \notin D

\* The thread of the r-th transition does not wait for the k-th, nor does anything
\* between them.
Loose(v, n, r, k) ==
    /\ k \in n + 1 .. r - 1
    /\ v[k].instr.tid # v[r].instr.tid
    /\ \A j \in k + 1 .. r - 1 : ~ Dependent(v[k].instr, v[j].instr)

\* Swapping two neighbours lets nobody come first who could not, unless the second of
\* them was held back by the first alone.
LEMMA FirstOfSwapped ==
    ASSUME NEW e \in Seq(Transitions), NEW n \in Nat \ {0}, NEW k \in n + 1 .. Len(e) - 1,
           NEW v, IsAdvanced(e, v, k, k + 1),
           Dependent(e[n].instr, e[k + 1].instr) \/ ~ Dependent(e[k].instr, e[k + 1].instr),
           NEW t, CanComeFirst(v, n, t)
    PROVE  CanComeFirst(e, n, t)
<1>1. /\ Len(v) = Len(e) /\ Len(e) \in Nat
      /\ n \in 1 .. Len(e) /\ k \in 1 .. Len(e) /\ k + 1 \in 1 .. Len(e)
    BY DEF IsAdvanced
<1>2. PICK x \in n .. Len(e) : /\ v[x].instr.tid = t
                               /\ \A y \in n .. x - 1 : ~ Dependent(v[y].instr, v[x].instr)
    BY <1>1 DEF CanComeFirst
<1>3. x \in 1 .. Len(e)
    BY <1>1
<1>4. PICK o : o = Origin(k, k + 1, x)
    OBVIOUS
<1>5. o \in n .. Len(e) /\ e[o].instr = v[x].instr
    <2>1. v[x].instr = e[Origin(k, k + 1, x)].instr
        BY <1>3 DEF IsAdvanced
    <2> QED
        BY <1>1, <1>4, <2>1 DEF Origin
<1>6. ASSUME NEW y \in n .. o - 1, Dependent(e[y].instr, e[o].instr)
      PROVE  FALSE
    <2>1. y \in 1 .. Len(e)
        BY <1>1, <1>5
    <2>2. v[Place(k, k + 1, y)].instr = e[y].instr
        BY <2>1 DEF IsAdvanced
    <2>3. CASE Place(k, k + 1, y) \in n .. x - 1
        BY <1>2, <1>5, <1>6, <2>2, <2>3
    <2>4. CASE Place(k, k + 1, y) \notin n .. x - 1
        <3>1. x = k /\ y = k /\ o = k + 1
            BY <1>1, <1>3, <1>4, <1>5, <2>4 DEF Place, Origin
        <3>2. Dependent(e[n].instr, e[k + 1].instr)
            BY <1>6, <3>1
        <3>3. v[n].instr = e[n].instr
            <4>1. v[n].instr = e[Origin(k, k + 1, n)].instr
                BY <1>1 DEF IsAdvanced
            <4>2. Origin(k, k + 1, n) = n
                BY <1>1 DEF Origin
            <4> QED
                BY <4>1, <4>2
        <3>4. n \in n .. x - 1
            BY <1>1, <3>1
        <3>5. ~ Dependent(v[n].instr, v[x].instr)
            BY <1>2, <3>4
        <3> QED
            BY <1>5, <3>1, <3>2, <3>3, <3>5
    <2> QED
        BY <2>3, <2>4
<1>7. \A y \in n .. o - 1 : ~ Dependent(e[y].instr, e[o].instr)
    BY <1>6
<1>8. e[o].instr.tid = t
    BY <1>2, <1>5
<1> QED
    BY <1>5, <1>7, <1>8 DEF CanComeFirst

\* What is loose can be put behind what follows it, until it is behind the race.
LEMMA LooseMoves ==
    ASSUME NEW p \in Programs, NeverWaits(p), NEW e, NEW n \in Nat \ {0}, NEW d, NEW D,
           NEW v, NEW r, Leads(p, e, n, d, D, v, r), NEW k, Loose(v, n, r, k)
    PROVE  \E w : IF k = r - 1
                  THEN Leads(p, e, n, d, D, w, r - 1)
                  ELSE Leads(p, e, n, d, D, w, r) /\ Loose(w, n, r, k + 1)
<1>1. /\ v \in CompleteExecutions(p) /\ v \in Seq(Transitions) /\ IsExecution(p, v)
      /\ Len(v) \in Nat
      /\ Share(v, e, n - 1)
      /\ \A t \in Tids : t # d /\ CanComeFirst(v, n, t) => CanComeFirst(e, n, t)
    BY CompleteIs DEF Leads
<1>2. /\ n \in 1 .. Len(v) /\ r \in n + 1 .. Len(v)
      /\ v[n].instr.tid = d /\ v[r].instr.tid # d
      /\ Dependent(v[n].instr, v[r].instr)
      /\ \A j \in n + 1 .. r - 1 : ~ Dependent(v[n].instr, v[j].instr)
      /\ \A j \in n + 1 .. r : v[j].instr.tid \notin D
    BY DEF Leads
<1>3. /\ k \in n + 1 .. r - 1 /\ v[k].instr.tid # v[r].instr.tid
      /\ \A j \in k + 1 .. r - 1 : ~ Dependent(v[k].instr, v[j].instr)
    BY DEF Loose
<1>4. /\ k \in 1 .. Len(v) /\ k + 1 \in 1 .. Len(v) /\ k \in 1 .. k + 1
      /\ k \in n + 1 .. Len(v) - 1
    BY <1>1, <1>2, <1>3
<1>5. k = r - 1 \/ (k + 1 \in k + 1 .. r - 1 /\ ~ Dependent(v[k].instr, v[k + 1].instr))
    BY <1>1, <1>2, <1>3
<1>6. Pauses(v, k, k + 1, v[k + 1].instr.tid)
    <2>1. v[k].instr.tid # v[k + 1].instr.tid
        <3>1. CASE k = r - 1
            BY <1>2, <1>3, <3>1
        <3>2. CASE ~ Dependent(v[k].instr, v[k + 1].instr)
            BY <3>2 DEF Dependent, SameThread
        <3> QED
            BY <1>5, <3>1, <3>2
    <2>2. \A j \in k .. (k + 1) - 1 : j = k
        BY <1>4
    <2> QED
        BY <2>1, <2>2 DEF Pauses
<1>7. PICK w : w = Advanced(p, v, k, k + 1)
    OBVIOUS
<1>8. w \in CompleteExecutions(p) /\ Len(w) = Len(v) /\ Share(w, v, k - 1)
    BY <1>1, <1>4, <1>6, <1>7, AdvancedIsComplete
<1>9. IsAdvanced(v, w, k, k + 1)
    BY <1>1, <1>4, <1>6, <1>7, AdvancedIsAdvanced
<1>10. Share(w, e, n - 1)
    <2>1. n - 1 <= k - 1 /\ 1 .. n - 1 \subseteq 1 .. k - 1
        BY <1>2, <1>3
    <2> QED
        BY <1>1, <1>8, <2>1 DEF Share
<1>11. /\ w[k].instr = v[k + 1].instr /\ w[k + 1].instr = v[k].instr
       /\ \A j \in 1 .. Len(v) : j # k /\ j # k + 1 => w[j].instr = v[j].instr
    <2>1. /\ Origin(k, k + 1, k) = k + 1 /\ Origin(k, k + 1, k + 1) = k
          /\ \A j \in 1 .. Len(v) : j # k /\ j # k + 1 => Origin(k, k + 1, j) = j
        BY <1>4 DEF Origin
    <2> QED
        BY <1>4, <1>9, <2>1 DEF IsAdvanced
<1>12. Dependent(v[n].instr, v[k + 1].instr) \/ ~ Dependent(v[k].instr, v[k + 1].instr)
    BY <1>2, <1>5
<1>13. \A t \in Tids : t # d /\ CanComeFirst(w, n, t) => CanComeFirst(e, n, t)
    BY <1>1, <1>4, <1>9, <1>12, FirstOfSwapped
<1>14. n \in 1 .. Len(w) /\ w[n].instr = v[n].instr
    BY <1>2, <1>3, <1>4, <1>8, <1>11
<1>15. CASE k = r - 1
    <2>1. r - 1 \in n + 1 .. Len(w) /\ w[r - 1].instr = v[r].instr
        BY <1>2, <1>3, <1>8, <1>11, <1>15
    <2>2. ASSUME NEW j \in n + 1 .. (r - 1) - 1
          PROVE  j \in n + 1 .. r /\ j \in n + 1 .. r - 1 /\ w[j].instr = v[j].instr
        <3>1. /\ j \in n + 1 .. r /\ j \in n + 1 .. r - 1 /\ j \in 1 .. Len(v)
              /\ j # k /\ j # k + 1
            BY <1>1, <1>2, <1>15
        <3> QED
            BY <1>11, <3>1
    <2>3. ASSUME NEW j \in n + 1 .. (r - 1) - 1
          PROVE  ~ Dependent(w[n].instr, w[j].instr)
        <3>1. j \in n + 1 .. r - 1 /\ w[j].instr = v[j].instr
            BY <2>2
        <3> QED
            BY <1>2, <1>14, <3>1
    <2>4. ASSUME NEW j \in n + 1 .. r - 1
          PROVE  w[j].instr.tid \notin D
        <3>1. CASE j = r - 1
            BY <1>2, <2>1, <3>1
        <3>2. CASE j # r - 1
            <4>1. j \in n + 1 .. r - 2
                BY <1>2, <3>2
            <4> QED
                BY <1>2, <2>2, <4>1
        <3> QED
            BY <3>1, <3>2
    <2>5. Leads(p, e, n, d, D, w, r - 1)
        BY <1>2, <1>8, <1>10, <1>13, <1>14, <2>1, <2>3, <2>4 DEF Leads
    <2> QED
        BY <1>15, <2>5
<1>16. CASE k # r - 1
    <2>1. r \in n + 1 .. Len(w) /\ w[r].instr = v[r].instr /\ k + 1 \in n + 1 .. r - 1
        BY <1>2, <1>3, <1>8, <1>11, <1>16
    <2>2. ASSUME NEW j \in n + 1 .. r - 1
          PROVE  \E i : i \in n + 1 .. r - 1 /\ i \in n + 1 .. r /\ w[j].instr = v[i].instr
        <3>1. /\ n + 1 .. r - 1 \subseteq n + 1 .. r
              /\ k \in n + 1 .. r - 1 /\ k + 1 \in n + 1 .. r - 1 /\ j \in 1 .. Len(v)
            BY <1>2, <1>3, <2>1
        <3> QED
            BY <1>11, <3>1
    <2>3. \A j \in n + 1 .. r - 1 : ~ Dependent(w[n].instr, w[j].instr)
        BY <1>2, <1>14, <2>2
    <2>4. ASSUME NEW j \in n + 1 .. r
          PROVE  w[j].instr.tid \notin D
        <3>1. CASE j = r
            BY <1>2, <2>1, <3>1
        <3>2. CASE j # r
            <4>1. j \in n + 1 .. r - 1
                BY <1>2, <3>2
            <4>2. PICK i : i \in n + 1 .. r /\ w[j].instr = v[i].instr
                BY <2>2, <4>1
            <4> QED
                BY <1>2, <4>2
        <3> QED
            BY <3>1, <3>2
    <2>5. Leads(p, e, n, d, D, w, r)
        BY <1>2, <1>8, <1>10, <1>13, <1>14, <2>1, <2>3, <2>4 DEF Leads
    <2>6. \A j \in k + 2 .. r - 1 : ~ Dependent(w[k + 1].instr, w[j].instr)
        <3>1. \A j \in k + 2 .. r - 1 : /\ j \in k + 1 .. r - 1 /\ j \in 1 .. Len(v)
                                        /\ j # k /\ j # k + 1
            BY <1>2, <1>3
        <3> QED
            BY <1>3, <1>11, <3>1
    <2>7. \A j \in (k + 1) + 1 .. r - 1 : j \in k + 2 .. r - 1
        BY <1>4
    <2>8. Loose(w, n, r, k + 1)
        <3>1. w[k + 1].instr.tid # w[r].instr.tid
            BY <1>3, <1>11, <2>1
        <3>2. k + 1 \in n + 1 .. r - 1
            BY <2>1
        <3> QED
            BY ONLY <2>6, <2>7, <3>1, <3>2 DEF Loose
    <2> QED
        BY <1>16, <2>5, <2>8
<1> QED
    BY <1>15, <1>16

\* When no thread of D can come first in e, but one is enabled there, it leads to the
\* first transition that holds such a thread back.
LEMMA LeadExists ==
    ASSUME NEW p \in Programs, NeverWaits(p), NEW e \in CompleteExecutions(p),
           NEW n \in 1 .. Len(e), NEW D, \A u \in D : ~ CanComeFirst(e, n, u),
           NEW d0 \in D, d0 \in Enabled(p, e[n].pre)
    PROVE  \E d \in D : \E v, r : Leads(p, e, n, d, D, v, r)
<1>1. e \in Seq(Transitions) /\ IsExecution(p, e) /\ Len(e) \in Nat
    BY CompleteIs
<1> DEFINE HeldBack(r, m) == /\ r \in n .. m - 1 /\ m \in n .. Len(e)
                             /\ e[m].instr.tid \in D /\ Pauses(e, n, m, e[m].instr.tid)
                             /\ Dependent(e[r].instr, e[m].instr)
           S == {r \in 1 .. Len(e) : \E m \in 1 .. Len(e) : HeldBack(r, m)}
<1>2. ASSUME NEW j \in n .. Len(e), e[j].instr.tid \in D
      PROVE  \E r \in S : r < j
    <2> DEFINE T == {m \in n .. j : e[m].instr.tid = e[j].instr.tid}
    <2>1. j \in T /\ T \in SUBSET Nat
        BY <1>1
    <2>2. PICK m \in T : \A x \in T : m <= x
        <3> HIDE DEF T
        <3> QED
            BY <2>1, LeastNatural
    <2>3. m \in n .. Len(e) /\ m <= j /\ e[m].instr.tid = e[j].instr.tid
        BY <1>1
    <2>4. Pauses(e, n, m, e[m].instr.tid)
        <3> SUFFICES ASSUME NEW x \in n .. m - 1, e[x].instr.tid = e[m].instr.tid
                     PROVE  FALSE
            BY DEF Pauses
        <3>1. x \in n .. j /\ x < m
            BY <2>3
        <3> QED
            BY <2>2, <2>3, <3>1
    <2>5. PICK r \in n .. m - 1 : Dependent(e[r].instr, e[m].instr)
        BY <1>2, <2>3 DEF CanComeFirst
    <2>6. r \in 1 .. Len(e) /\ m \in 1 .. Len(e) /\ r < j /\ m \in n .. Len(e)
        BY <1>1, <2>3
    <2>7. HeldBack(r, m)
        BY <1>2, <2>3, <2>4, <2>5, <2>6
    <2> QED
        BY <2>6, <2>7
<1>3. S # {} /\ S \in SUBSET Nat
    <2>1. PICK j \in 1 .. Len(e) : n \in 1 .. j /\ e[j].instr.tid = d0 /\ Pauses(e, n, j, d0)
        BY FirstBy
    <2>2. j \in n .. Len(e) /\ e[j].instr.tid \in D
        BY <1>1, <2>1
    <2>3. S \in SUBSET Nat
        OBVIOUS
    <2>4. \E r \in S : r < j
        BY <1>2, <2>2
    <2> HIDE DEF S
    <2> QED
        BY <2>3, <2>4
<1>4. PICK r \in S : \A x \in S : r <= x
    <2> HIDE DEF S
    <2> QED
        BY <1>3, LeastNatural
<1>5. PICK m \in 1 .. Len(e) : HeldBack(r, m)
    OBVIOUS
<1>6. PICK d : d = e[m].instr.tid
    OBVIOUS
<1>7. /\ r \in n .. m - 1 /\ n \in 1 .. m /\ d \in D /\ Pauses(e, n, m, e[m].instr.tid)
      /\ Dependent(e[r].instr, e[m].instr) /\ r \in 1 .. Len(e) /\ m \in n .. Len(e)
    BY <1>5, <1>6
<1>8. ASSUME NEW j \in n .. r - 1
      PROVE  ~ Dependent(e[j].instr, e[m].instr)
    <2>1. j \in n .. m - 1 /\ j \in 1 .. Len(e) /\ j < r
        BY <1>7
    <2>2. j \notin S
        BY <1>4, <2>1
    <2> QED
        BY <1>5, <2>1, <2>2
<1>9. ASSUME NEW j \in n .. r
      PROVE  e[j].instr.tid \notin D
    <2>1. j \in n .. Len(e) /\ ~ (r < j)
        BY <1>7
    <2>2. ASSUME NEW x \in S, x < j
          PROVE  FALSE
        <3>1. r <= x /\ x \in Nat
            BY <1>3, <1>4
        <3> QED
            BY <1>7, <2>1, <2>2, <3>1
    <2> HIDE DEF S
    <2> QED
        BY <1>2, <2>1, <2>2
<1> HIDE DEF S, HeldBack
<1>10. PICK v : v = Advanced(p, e, n, m)
    OBVIOUS
<1>11. /\ v \in CompleteExecutions(p) /\ Len(v) = Len(e)
       /\ Share(v, e, n - 1) /\ v[n].instr.tid = d
    BY <1>6, <1>7, <1>10, AdvancedIsComplete
<1>12. IsAdvanced(e, v, n, m)
    BY <1>1, <1>7, <1>10, AdvancedIsAdvanced
<1>13. \A t \in Tids : t # d /\ CanComeFirst(v, n, t) => CanComeFirst(e, n, t)
    BY <1>6, <1>7, <1>10, FirstOfAdvanced
<1>14. /\ r + 1 \in n + 1 .. Len(v)
       /\ Dependent(v[n].instr, v[r + 1].instr) /\ v[r + 1].instr.tid # v[n].instr.tid
       /\ \A j \in n + 1 .. r : ~ Dependent(v[n].instr, v[j].instr)
    BY <1>1, <1>7, <1>8, <1>12, RaceOfAdvanced
<1>15. ASSUME NEW j \in n + 1 .. r + 1
       PROVE  v[j].instr.tid \notin D
    <2>1. j \in 1 .. Len(e) /\ j - 1 \in n .. r /\ Origin(n, m, j) = j - 1
        BY <1>7 DEF Origin
    <2>2. v[j].instr = e[j - 1].instr
        BY <1>12, <2>1 DEF IsAdvanced
    <2> QED
        BY <1>9, <2>1, <2>2
<1>16. n \in 1 .. Len(v) /\ \A j \in n + 1 .. (r + 1) - 1 : j \in n + 1 .. r
    BY <1>7, <1>11
<1>17. Leads(p, e, n, d, D, v, r + 1)
    BY <1>11, <1>13, <1>14, <1>15, <1>16 DEF Leads
<1> QED
    BY <1>7, <1>17

\* It leads there without anything loose in between, too.
LEMMA TightLeadExists ==
    ASSUME NEW p \in Programs, NeverWaits(p), NEW e, NEW n \in Nat \ {0}, NEW d, NEW D,
           NEW v0, NEW r0, Leads(p, e, n, d, D, v0, r0)
    PROVE  \E v, r : Leads(p, e, n, d, D, v, r) /\ \A k : ~ Loose(v, n, r, k)
<1> DEFINE R == {r \in Nat : \E v : Leads(p, e, n, d, D, v, r)}
<1>1. \A v, r : Leads(p, e, n, d, D, v, r) => r \in R
    <2> SUFFICES ASSUME NEW v, NEW r, Leads(p, e, n, d, D, v, r)
                 PROVE  r \in Nat
        OBVIOUS
    <2>1. v \in Seq(Transitions) /\ r \in n + 1 .. Len(v)
        BY CompleteIs DEF Leads
    <2> QED
        BY <2>1
<1>2. PICK r \in R : \A x \in R : r <= x
    <2>1. R \in SUBSET Nat /\ R # {}
        BY <1>1
    <2> HIDE DEF R
    <2> QED
        BY <2>1, LeastNatural
<1>3. r \in Nat /\ \E v : Leads(p, e, n, d, D, v, r)
    OBVIOUS
<1>4. ASSUME NEW w
      PROVE  ~ Leads(p, e, n, d, D, w, r - 1)
    <2> SUFFICES ASSUME r - 1 \in R
                 PROVE  FALSE
        BY <1>1
    <2>1. r <= r - 1
        BY <1>2
    <2> QED
        BY <1>3, <2>1
<1> HIDE DEF R
<1> DEFINE K == {j \in Nat : \E v, k : /\ Leads(p, e, n, d, D, v, r) /\ Loose(v, n, r, k)
                                      /\ j = r - k}
<1>5. K = {}
    <2> SUFFICES ASSUME K # {}
                 PROVE  FALSE
        OBVIOUS
    <2>1. PICK j \in K : \A x \in K : j <= x
        <3>1. K \in SUBSET Nat
            OBVIOUS
        <3> HIDE DEF K
        <3> QED
            BY <3>1, LeastNatural
    <2>2. PICK v, k : Leads(p, e, n, d, D, v, r) /\ Loose(v, n, r, k) /\ j = r - k
        BY <2>1
    <2>3. k \in n + 1 .. r - 1 /\ k \in Nat
        BY <2>2 DEF Loose
    <2>4. PICK w : IF k = r - 1
                   THEN Leads(p, e, n, d, D, w, r - 1)
                   ELSE Leads(p, e, n, d, D, w, r) /\ Loose(w, n, r, k + 1)
        BY <2>2, LooseMoves
    <2>5. k # r - 1
        BY <1>4, <2>4
    <2>6. r - (k + 1) \in Nat /\ ~ (j <= r - (k + 1))
        BY <1>3, <2>2, <2>3, <2>5
    <2>7. r - (k + 1) \in K
        BY <2>4, <2>5, <2>6
    <2> QED
        BY <2>1, <2>6, <2>7
<1>6. PICK v : Leads(p, e, n, d, D, v, r)
    BY <1>3
<1>7. ASSUME NEW k, Loose(v, n, r, k)
      PROVE  FALSE
    <2>1. r - k \in Nat
        BY <1>3, <1>7 DEF Loose
    <2>2. r - k \in K
        BY <1>6, <1>7, <2>1
    <2> QED
        BY <1>5, <2>2
<1> QED
    BY <1>6, <1>7

\* What is before the race is then performed for the thread that it is a race of.
LEMMA TightIsBefore ==
    ASSUME NEW v \in Seq(Transitions), NEW n \in 1 .. Len(v), NEW r \in n + 1 .. Len(v),
           \A k : ~ Loose(v, n, r, k), NEW k \in n + 1 .. r - 1
    PROVE  \E x \in k .. r - 1 : /\ v[x].instr.tid = v[r].instr.tid
                                 /\ x = k \/ k \in Before(v)[x]
<1> DEFINE HasEnd(j) == \E x \in j .. r - 1 : /\ v[x].instr.tid = v[r].instr.tid
                                              /\ x = j \/ j \in Before(v)[x]
           lost == {j \in n + 1 .. r - 1 : ~ HasEnd(j)}
           places == {j \in Nat : r - j \in lost}
<1> SUFFICES ASSUME lost # {}
             PROVE  FALSE
    OBVIOUS
<1>1. n \in Nat /\ r \in Nat /\ Len(v) \in Nat /\ r <= Len(v)
    OBVIOUS
<1>2. PICK j \in lost : \A x \in lost : x <= j
    <2>1. lost \in SUBSET (0 .. r)
        BY <1>1
    <2> HIDE DEF lost
    <2> QED
        BY <1>1, <2>1, MaxIs
<1>3. j \in n + 1 .. r - 1 /\ j \in 1 .. Len(v) /\ ~ HasEnd(j)
    BY <1>1
<1>4. v[j].instr.tid # v[r].instr.tid
    BY <1>3
<1>5. PICK y \in j + 1 .. r - 1 : Dependent(v[j].instr, v[y].instr)
    BY <1>3, <1>4 DEF Loose
<1>6. y \in n + 1 .. r - 1 /\ y \in 1 .. Len(v) /\ j \in 1 .. y - 1 /\ j < y
    BY <1>1, <1>3
<1>7. j \in Before(v)[y]
    BY <1>5, <1>6, DependentIsBefore
<1>8. y \notin lost
    BY <1>1, <1>2, <1>6
<1>9. PICK x \in y .. r - 1 : /\ v[x].instr.tid = v[r].instr.tid
                              /\ x = y \/ y \in Before(v)[x]
    BY <1>6, <1>8
<1>10. x \in j .. r - 1 /\ x \in 1 .. Len(v)
    BY <1>1, <1>6
<1>11. j \in Before(v)[x]
    BY <1>7, <1>9, <1>10, BeforeIsTransitive
<1> QED
    BY <1>3, <1>9, <1>10, <1>11

\* Transition n is the last one that the i-th of f could be reversed with, and no thread
\* of D leads from there to it.
LastRaceAvoids(f, n, i, D) == IsLastRace(f, n, i) /\ LeadingThreads(f, n, i) \cap D = {}

\* In every execution of its trace that begins with transition n, too, what the tight
\* execution leads to is the last race of its transition, and no thread of D leads there.
LEMMA LastRaceOfTrace ==
    ASSUME NEW p \in Programs, NEW e, NEW n \in Nat \ {0}, NEW d, NEW D, NEW v, NEW r,
           Leads(p, e, n, d, D, v, r), \A k : ~ Loose(v, n, r, k),
           NEW f \in CompleteExecutions(p), TraceOf(v) = TraceOf(f), Share(v, f, n)
    PROVE  \E i \in 1 .. Len(f) : LastRaceAvoids(f, n, i, D)
<1>1. /\ v \in Seq(Transitions) /\ IsExecution(p, v) /\ Len(v) \in Nat
      /\ f \in Seq(Transitions) /\ IsExecution(p, f) /\ Len(f) \in Nat
      /\ p \in Programs /\ TraceOf(v) = TraceOf(f) /\ TraceOf(f) = TraceOf(v)
      /\ n \in Nat /\ Share(v, f, n) /\ Share(f, v, n)
    <2>1. v \in CompleteExecutions(p)
        BY DEF Leads
    <2>2. v \in Seq(Transitions) /\ IsExecution(p, v) /\ Len(v) \in Nat
        BY <2>1, ExecutionsAre DEF CompleteExecutions
    <2>3. f \in Seq(Transitions) /\ IsExecution(p, f) /\ Len(f) \in Nat
        BY ExecutionsAre DEF CompleteExecutions
    <2>4. Share(f, v, n)
        BY DEF Share
    <2> QED
        BY <2>2, <2>3, <2>4
<1>2. /\ n \in 1 .. Len(v) /\ r \in n + 1 .. Len(v) /\ r \in 1 .. Len(v)
      /\ v[r].instr.tid # v[n].instr.tid
      /\ Dependent(v[n].instr, v[r].instr)
      /\ \A j \in n + 1 .. r - 1 : ~ Dependent(v[n].instr, v[j].instr)
      /\ \A j \in n + 1 .. r : v[j].instr.tid \notin D
    BY <1>1 DEF Leads
<1>3. PICK i \in 1 .. Len(f) : Event(f[i]) = Event(v[r]) /\ n \in DirectlyBefore(f, i)
    BY ONLY <1>1, <1>2, RaceOfTrace
<1>4. PICK q : q = v[r].instr.tid
    OBVIOUS
<1>5. f[i].instr = v[r].instr /\ f[n] = v[n] /\ n \in 1 .. Len(f)
    <2>1. f[i].instr = v[r].instr
        BY ONLY <1>1, <1>2, <1>3, SameEvent
    <2> QED
        BY <1>1, <1>2, <2>1 DEF Share
<1>6. i \in n + 1 .. Len(f)
    BY ONLY <1>1, <1>2, <1>3, NotInPrefix
<1>7. ASSUME NEW k \in 1 .. i - 1, f[k].instr.tid = q
      PROVE  k \in Before(f)[i]
    <2>1. Dependent(f[k].instr, f[i].instr)
        BY <1>4, <1>5, <1>7 DEF Dependent, SameThread
    <2> QED
        BY <1>1, <2>1, DependentIsBefore
<1>8. n \in LateRaces(f, i)
    <2>1. n \in 1 .. i - 1 /\ Dependent(f[n].instr, f[i].instr)
        BY <1>2, <1>5, <1>6
    <2>2. ASSUME NEW k \in 1 .. i - 1, f[k].instr.tid = q
          PROVE  n # k /\ n \notin Before(f)[k]
        <3>1. k \in Before(f)[i]
            BY <1>7, <2>2
        <3>2. n \notin Before(f)[k]
            BY <1>3, <3>1 DEF DirectlyBefore
        <3>3. f[n].instr.tid # q
            BY <1>2, <1>4, <1>5
        <3> QED
            BY <2>2, <3>2, <3>3
    <2>3. NotBeforeThread(f, i, n, f[i].instr.tid)
        BY <1>4, <1>5, <2>2 DEF NotBeforeThread
    <2> QED
        BY <2>1, <2>3 DEF LateRaces
<1>9. ASSUME NEW j \in n + 1 .. Len(f), j \in Before(f)[i]
      PROVE  \E x \in n + 1 .. r - 1 : /\ Event(v[x]) = Event(f[j])
                                       /\ v[x].instr.tid = f[j].instr.tid
    <2>1. PICK a \in 1 .. Len(v), b \in 1 .. Len(v) :
              /\ a < b /\ Event(v[a]) = Event(f[j]) /\ Event(v[b]) = Event(f[i])
              /\ a \in Before(v)[b]
        BY <1>1, <1>9, BeforeInTrace
    <2>2. b = r
        BY ONLY <1>1, <1>2, <1>3, <2>1, EventIsPerformedOnce
    <2>3. a \in n + 1 .. Len(v)
        BY ONLY <1>1, <1>9, <2>1, NotInPrefix
    <2>4. a \in n + 1 .. r - 1
        BY <1>2, <2>1, <2>2, <2>3
    <2> QED
        BY <2>1, <2>4 DEF Event
<1>10. ASSUME NEW j \in LateRaces(f, i)
       PROVE  j <= n
    <2> SUFFICES ASSUME j > n
                 PROVE  FALSE
        BY <1>1 DEF LateRaces
    <2>1. /\ j \in 1 .. i - 1 /\ Dependent(f[j].instr, f[i].instr)
          /\ \A k \in 1 .. i - 1 : f[k].instr.tid = q => j # k /\ j \notin Before(f)[k]
        BY <1>4, <1>5 DEF LateRaces, NotBeforeThread
    <2>2. j \in n + 1 .. Len(f) /\ j \in 1 .. Len(f) /\ j \in Before(f)[i]
        <3>1. j \in Before(f)[i]
            BY <1>1, <2>1, DependentIsBefore
        <3> QED
            BY <1>1, <1>6, <2>1, <3>1
    <2>3. PICK x \in n + 1 .. r - 1 : /\ Event(v[x]) = Event(f[j])
                                      /\ v[x].instr.tid = f[j].instr.tid
        BY <1>9, <2>2
    <2>4. PICK y \in x .. r - 1 : v[y].instr.tid = q /\ (y = x \/ x \in Before(v)[y])
        BY <1>1, <1>2, <1>4, <2>3, TightIsBefore
    <2>5. y # x
        BY <2>1, <2>3, <2>4
    <2>6. y \in 1 .. r - 1 /\ y \in 1 .. Len(v) /\ x \in 1 .. Len(v) /\ y < r
        BY <1>1, <1>2
    <2>7. PICK a \in 1 .. Len(f), b \in 1 .. Len(f) :
              /\ a < b /\ Event(f[a]) = Event(v[x]) /\ Event(f[b]) = Event(v[y])
              /\ a \in Before(f)[b]
        BY <1>1, <2>4, <2>5, <2>6, BeforeInTrace
    <2>8. a = j
        BY ONLY <1>1, <2>2, <2>3, <2>7, EventIsPerformedOnce
    <2>9. f[b].instr.tid = q
        BY <2>4, <2>7 DEF Event
    <2>10. b < i
        <3>1. Dependent(v[y].instr, v[r].instr)
            BY <1>4, <2>4 DEF Dependent, SameThread
        <3>2. PICK b2 \in 1 .. Len(f), i2 \in 1 .. Len(f) :
                  b2 < i2 /\ Event(f[b2]) = Event(v[y]) /\ Event(f[i2]) = Event(v[r])
            BY ONLY <1>1, <1>2, <2>6, <3>1, OrderOfTrace
        <3>3. b2 = b
            BY ONLY <1>1, <2>7, <3>2, EventIsPerformedOnce
        <3>4. i2 = i
            BY ONLY <1>1, <1>3, <3>2, EventIsPerformedOnce
        <3> QED
            BY <3>2, <3>3, <3>4
    <2>11. b \in 1 .. i - 1
        BY <2>7, <2>10
    <2> QED
        BY <2>1, <2>7, <2>8, <2>9, <2>11
<1>11. ASSUME NEW u \in LeadingThreads(f, n, i), u \in D
       PROVE  FALSE
    <2>1. PICK c \in n + 1 .. i : (c = i \/ c \in Before(f)[i]) /\ f[c].instr.tid = u
        BY DEF LeadingThreads
    <2>2. CASE c = i
        <3>1. v[r].instr.tid = u /\ r \in n + 1 .. r
            BY <1>2, <1>5, <2>1, <2>2
        <3> QED
            BY <1>2, <1>11, <3>1
    <2>3. CASE c \in Before(f)[i]
        <3>1. c \in n + 1 .. Len(f)
            BY <1>6
        <3>2. PICK x \in n + 1 .. r - 1 : v[x].instr.tid = f[c].instr.tid
            BY <1>9, <2>3, <3>1
        <3>3. x \in n + 1 .. r
            BY <1>2
        <3> QED
            BY <1>2, <1>11, <2>1, <3>2, <3>3
    <2> QED
        BY <2>1, <2>2, <2>3
<1>12. LeadingThreads(f, n, i) \cap D = {}
    BY <1>11
<1> QED
    BY <1>8, <1>10, <1>12 DEF LastRaceAvoids, IsLastRace

\* v has thread d of D come first where no thread of D could in e, and in every order of
\* its trace there is a last race that no thread of D leads to.
Overtakes(p, e, n, d, D, v) ==
    /\ PutsFirst(p, e, n, d, v)
    /\ \A f \in CompleteExecutions(p) :
           TraceOf(f) = TraceOf(v) /\ Share(f, e, n - 1) /\ f[n].instr.tid = d =>
               \E i \in 1 .. Len(f) : LastRaceAvoids(f, n, i, D)

\* If threads of D are enabled before n but none can come first in what e performs from
\* there on, another complete execution lets one of them overtake the others.
LEMMA OvertakingExists ==
    ASSUME NEW p \in Programs, NeverWaits(p), NEW e \in CompleteExecutions(p),
           NEW n \in 1 .. Len(e), NEW D, \A u \in D : ~ CanComeFirst(e, n, u),
           NEW d0 \in D, d0 \in Enabled(p, e[n].pre)
    PROVE  \E d \in D : \E v : Overtakes(p, e, n, d, D, v)
<1>1. e \in Seq(Transitions) /\ IsExecution(p, e) /\ Len(e) \in Nat /\ n \in Nat \ {0}
    BY CompleteIs
<1>2. PICK d \in D : \E v0, r0 : Leads(p, e, n, d, D, v0, r0)
    BY LeadExists
<1>3. PICK v, r : Leads(p, e, n, d, D, v, r) /\ \A k : ~ Loose(v, n, r, k)
    BY <1>1, <1>2, TightLeadExists
<1>4. /\ v \in CompleteExecutions(p) /\ Share(v, e, n - 1)
      /\ \A t \in Tids : t # d /\ CanComeFirst(v, n, t) => CanComeFirst(e, n, t)
      /\ n \in 1 .. Len(v) /\ v[n].instr.tid = d
    BY <1>3 DEF Leads
<1>5. v \in Seq(Transitions) /\ IsExecution(p, v) /\ Len(v) \in Nat
    BY <1>4, CompleteIs
<1>6. CanComeFirst(v, n, d)
    <2>1. n \in n .. Len(v) /\ n .. n - 1 = {}
        BY <1>1, <1>4, <1>5
    <2> QED
        BY <1>4, <2>1 DEF CanComeFirst
<1>7. ASSUME NEW f \in CompleteExecutions(p),
             TraceOf(f) = TraceOf(v), Share(f, e, n - 1), f[n].instr.tid = d
      PROVE  \E i \in 1 .. Len(f) : LastRaceAvoids(f, n, i, D)
    <2>1. f \in Seq(Transitions) /\ IsExecution(p, f) /\ Len(f) \in Nat
        BY CompleteIs
    <2>2. n \in 1 .. Len(f)
        <3>1. n - 1 \in Nat /\ n \in (n - 1) + 1 .. Len(v)
            BY <1>1, <1>4
        <3>2. Share(v, f, n - 1)
            BY <1>4, <1>7 DEF Share
        <3>3. PICK a \in 1 .. Len(f) : Event(f[a]) = Event(v[n])
            BY <1>4, <1>5, <1>7, <2>1, EventOfTrace
        <3>4. a \in (n - 1) + 1 .. Len(f)
            BY <1>5, <2>1, <3>1, <3>2, <3>3, NotInPrefix
        <3> QED
            BY <2>1, <3>1, <3>4
    <2>3. Share(v, f, n)
        <3>1. \A i \in 1 .. n - 1 : v[i] = f[i]
            BY <1>4, <1>7 DEF Share
        <3>2. v[n] = f[n]
            BY <1>4, <1>5, <1>7, <2>1, <2>2, <3>1, SameThreadSameTransition
        <3> QED
            BY <1>4, <2>2, <3>1, <3>2 DEF Share
    <2> QED
        BY <1>1, <1>3, <1>7, <2>3, LastRaceOfTrace
<1> QED
    BY <1>4, <1>6, <1>7 DEF Overtakes, PutsFirst

-----------------------------------------------------------------------------
(* The steps of the search *)

\* A step that leaves the search as it is.
QuietVars == <<program, mExecution, mSchedule, dfsState, sufficient, schedules>>

QuietStep ==
    /\ UNCHANGED QuietVars
    /\ \/ UNCHANGED <<phase, from, index, record>>
       \/ phase \in BeforeUpdate /\ phase' \in BeforeUpdate \cup {"stopped", "aborted"}
       \/ DporRestoreTransition
       \/ FinishUpdate
       \/ Exhausted

\* What a step of dpor can do to the search.
LEMMA CoverageStepKinds ==
    ASSUME DporInv, [DporNext]_dporVars
    PROVE  \/ QuietStep
           \/ DporReadRecord
           \/ phase' = "invalid"
           \/ DporUpdateTransition
           \/ DporScheduleNext
           \/ DporBacktrackFurther
<1>1. CASE (LimitReached \/ ReplayScheduled \/ RunFails \/ RecordMissing \/ FinishUpdate
            \/ Exhausted \/ Terminated) /\ UnchangedDpor
    BY <1>1 DEF LimitReached, ReplayScheduled, ProgramStep, RunFails, RecordMissing,
       FinishUpdate, Exhausted, Terminated, explorationVars, UnchangedDpor, QuietVars, QuietStep, BeforeUpdate
<1>2. CASE DporStartRun \/ DporSelectThread \/ DporBlocked \/ DporRunEnds
    BY <1>2 DEF DporStartRun, StartRun, DporSelectThread, SelectThread, ProgramStep,
       DporBlocked, DporRunEnds, RunEnds, QuietVars, QuietStep, BeforeUpdate
<1>3. CASE DporRestoreTransition
    BY <1>3 DEF DporRestoreTransition, RestoreTransition, QuietVars, QuietStep
<1>4. CASE DporInvalidProgram
    BY <1>4 DEF DporInvalidProgram, InvalidProgram
<1>5. CASE UNCHANGED dporVars
    BY <1>5 DEF dporVars, explorationVars, QuietVars, QuietStep
<1> QED
    BY <1>1, <1>2, <1>3, <1>4, <1>5 DEF DporNext

\* Popping a state of the search takes the last transition off, makes its thread done
\* and puts it to sleep.
LEMMA PopIs ==
    ASSUME DporInv, PopBack, sufficient' = PoppedSufficient
    PROVE  LET n == Len(mExecution)
           IN  /\ phase = "backtrack" /\ UNCHANGED <<program, failures, schedules, record>>
               /\ n \in Nat \ {0} /\ Len(mExecution') = n - 1
               /\ \A i \in 1 .. n - 1 : mExecution'[i] = mExecution[i]
               /\ Len(sufficient) = n + 1 /\ Len(sufficient') = n
               /\ Len(dfsState) = n + 1 /\ Len(dfsState') = n
               /\ \A k \in 1 .. n : sufficient'[k].backtrack = sufficient[k].backtrack
               /\ \A k \in 1 .. n - 1 : /\ sufficient'[k].sleep = sufficient[k].sleep
                                        /\ dfsState'[k] = dfsState[k]
               /\ sufficient'[n].sleep = sufficient[n].sleep \cup {mExecution[n].instr.tid}
               /\ dfsState'[n] = dfsState[n] \cup {mExecution[n].instr.tid}
<1>1. /\ Len(mExecution) \in Nat \ {0} /\ Len(mExecution') = Len(mExecution) - 1
      /\ \A i \in 1 .. Len(mExecution) - 1 : mExecution'[i] = mExecution[i]
      /\ \A i \in 1 .. Len(mExecution) - 1 : dfsState'[i] = dfsState[i]
      /\ dfsState'[Len(mExecution)] = dfsState[Len(mExecution)] \cup {mExecution[Len(mExecution)].instr.tid}
      /\ Len(dfsState) = Len(mExecution) + 1 /\ Len(dfsState') = Len(mExecution)
    BY PopBackIs DEF DporInv, Inv
<1>2. /\ phase = "backtrack" /\ UNCHANGED <<program, failures, schedules, record>>
      /\ Len(sufficient) = Len(mExecution) + 1
    BY <1>1 DEF PopBack, DporInv
<1> QED
    BY <1>1, <1>2, PoppedSleepIs, PoppedSufficientIs

\* Reading a record makes the execution longer.
LEMMA ReadIs ==
    ASSUME DporInv, DporReadRecord
    PROVE  LET n == Len(mExecution)
           IN  /\ phase = "read" /\ phase' = "update" /\ index' = 1 /\ from = n + 1 /\ n \in Nat
               /\ UNCHANGED <<program, failures, record, dfsState, sufficient, from>>
               /\ mExecution' = record.transitions /\ Len(mExecution') >= n
               /\ Len(mExecution') \in Nat
               /\ \A i \in 1 .. n : mExecution'[i] = mExecution[i]
               /\ mSchedule' = ScheduleOf(mExecution')
               /\ schedules' = schedules \cup {mSchedule'}
               /\ Len(sufficient) = n + 1 /\ Len(dfsState) = n + 1
<1>1. /\ phase = "read" /\ record # NoRecord /\ phase' = "update" /\ index' = 1
      /\ UNCHANGED <<program, failures, record, dfsState, sufficient, from>>
      /\ mExecution' = record.transitions
      /\ mSchedule' = ScheduleOf(mExecution')
      /\ schedules' = schedules \cup {mSchedule'}
    BY DEF DporReadRecord, ReadRecord
<1>2. /\ mExecution \in Seq(Transitions) /\ record.transitions \in Seq(Transitions)
      /\ from = Len(mExecution) + 1 /\ Len(dfsState) = from /\ Len(sufficient) = Len(dfsState)
      /\ Len(record.transitions) >= Len(mExecution)
      /\ \A i \in 1 .. Len(mExecution) : record.transitions[i] = mExecution[i]
    BY <1>1 DEF DporInv, Inv, TypeOK, SearchIsAligned, RecordExtendsSearch, BeforeUpdate, Running
<1> QED
    BY <1>1, <1>2

\* Updating for a new transition appends a state to the stacks.
LEMMA UpdateIs ==
    ASSUME ValidPrograms, DporInv, DporUpdateTransition
    PROVE  /\ phase = "update" /\ phase' = "update"
           /\ index \in Nat \ {0} /\ index <= Len(mExecution) /\ index' = index + 1
           /\ from \in 1 .. index
           /\ UNCHANGED <<program, failures, record, mExecution, mSchedule, schedules, from>>
           /\ mExecution \in Seq(Transitions) /\ Len(mExecution) \in Nat
           /\ Len(sufficient) = index /\ Len(sufficient') = index + 1
           /\ Len(dfsState) = index /\ Len(dfsState') = index + 1
           /\ \A k \in 1 .. index : /\ sufficient'[k].sleep = sufficient[k].sleep
                                    /\ dfsState'[k] = dfsState[k]
                                    /\ sufficient'[k].backtrack
                                           = sufficient[k].backtrack \cup AddedToBacktrack(k)
           /\ sufficient'[index + 1].sleep
                  = WakeUp(sufficient[index].sleep, mExecution[index].instr, program,
                           mExecution[index].post)
           /\ dfsState'[index + 1] = {}
<1>1. /\ phase = "update" /\ phase' = "update" /\ index <= Len(mExecution) /\ index' = index + 1
      /\ UNCHANGED <<program, failures, record, mExecution, mSchedule, schedules, from>>
      /\ Len(sufficient) = index /\ index \in Nat \ {0} /\ from \in 1 .. index
      /\ Len(dfsState) = index /\ dfsState' = Append(dfsState, {}) /\ dfsState \in Seq(SUBSET Tids)
      /\ mExecution \in Seq(Transitions) /\ Len(mExecution) \in Nat
    BY DEF DporUpdateTransition, UpdateTransition, DporInv, Inv, TypeOK, SearchIsAligned
<1>2. /\ Len(sufficient') = index + 1
      /\ \A k \in 1 .. index : /\ sufficient'[k].backtrack = sufficient[k].backtrack \cup AddedToBacktrack(k)
                               /\ sufficient'[k].sleep = sufficient[k].sleep
      /\ sufficient'[index + 1] = NewSufficientSet
    BY <1>1, DporUpdateIs
<1>3. sufficient'[index + 1].sleep
          = WakeUp(sufficient[index].sleep, mExecution[index].instr, program, mExecution[index].post)
    BY <1>1, <1>2 DEF NewSufficientSet, Last
<1>4. /\ Len(dfsState') = index + 1 /\ dfsState'[index + 1] = {}
      /\ \A k \in 1 .. index : dfsState'[k] = dfsState[k]
    BY <1>1, AppendIs
<1> QED
    BY <1>1, <1>2, <1>3, <1>4

-----------------------------------------------------------------------------
(* The simpler parts of the invariant *)

\* Sleep sets are propagated, and only done threads are added to them.
LEMMA SleepIsInheritedStep ==
    ASSUME ValidPrograms, DporInv, SleepIsInherited, [DporNext]_dporVars
    PROVE  SleepIsInherited'
<1> DEFINE inherited(k) ==
               IF k = 1
               THEN {}
               ELSE WakeUp(sufficient[k - 1].sleep, mExecution[k - 1].instr, program,
                           mExecution[k - 1].post)
<1>1. CASE QuietStep
    <2>1. phase' \in Running \cup {"done"} => phase \in Running \cup {"done"}
        BY <1>1 DEF QuietStep, Running, BeforeUpdate, DporRestoreTransition, RestoreTransition,
           FinishUpdate, Exhausted
    <2> QED
        BY <1>1, <2>1 DEF QuietStep, QuietVars, SleepIsInherited
<1>2. CASE DporReadRecord
    <2> DEFINE n == Len(mExecution)
    <2>1. /\ phase = "read" /\ n \in Nat /\ Len(sufficient) = n + 1
          /\ UNCHANGED <<program, dfsState, sufficient>>
          /\ \A i \in 1 .. n : mExecution'[i] = mExecution[i]
        BY <1>2, ReadIs
    <2> HIDE DEF n
    <2>2. \A k \in 1 .. n + 1 : k = 1 \/ k - 1 \in 1 .. n
        BY <2>1
    <2>3. \A k \in 1 .. n + 1 : sufficient[k].sleep \ dfsState[k] \subseteq inherited(k)
        BY <2>1 DEF SleepIsInherited, Running
    <2>4. \A k \in 1 .. n + 1 : inherited(k)' = inherited(k)
        BY <2>1, <2>2
    <2> QED
        BY <2>1, <2>3, <2>4 DEF SleepIsInherited
<1>3. CASE DporUpdateTransition
    <2>0. PICK n : n = index
        OBVIOUS
    <2>1. /\ phase = "update" /\ n \in Nat \ {0} /\ UNCHANGED <<program, mExecution>>
          /\ Len(sufficient) = n /\ Len(sufficient') = n + 1
          /\ \A k \in 1 .. n : /\ sufficient'[k].sleep = sufficient[k].sleep
                                   /\ dfsState'[k] = dfsState[k]
          /\ sufficient'[n + 1].sleep
                  = WakeUp(sufficient[n].sleep, mExecution[n].instr, program,
                           mExecution[n].post)
        BY <1>3, <2>0, UpdateIs
    <2>2. \A k \in 1 .. n : sufficient[k].sleep \ dfsState[k] \subseteq inherited(k)
        BY <2>1 DEF SleepIsInherited, Running
    <2>3. \A k \in 1 .. n : k = 1 \/ k - 1 \in 1 .. n
        BY <2>1
    <2>4. \A k \in 1 .. n : inherited(k)' = inherited(k)
        BY <2>1, <2>3
    <2>5. sufficient'[n + 1].sleep = inherited(n + 1)'
        <3>1. n + 1 # 1 /\ (n + 1) - 1 = n /\ n \in 1 .. n
            BY <2>1
        <3> QED
            BY <2>1, <3>1
    <2>6. \A k \in 1 .. n + 1 : k \in 1 .. n \/ k = n + 1
        BY <2>1
    <2> HIDE DEF inherited
    <2>7. \A k \in 1 .. n + 1 : sufficient'[k].sleep \ dfsState'[k] \subseteq inherited(k)'
        BY <2>1, <2>2, <2>4, <2>5, <2>6
    <2> QED
        BY <2>1, <2>7 DEF SleepIsInherited, inherited
<1>4. CASE PopBack /\ sufficient' = PoppedSufficient
    <2> DEFINE n == Len(mExecution)
    <2>1. /\ phase = "backtrack" /\ UNCHANGED program /\ n \in Nat \ {0}
          /\ \A i \in 1 .. n - 1 : mExecution'[i] = mExecution[i]
          /\ Len(sufficient) = n + 1 /\ Len(sufficient') = n
          /\ \A k \in 1 .. n - 1 : /\ sufficient'[k].sleep = sufficient[k].sleep
                                   /\ dfsState'[k] = dfsState[k]
          /\ sufficient'[n].sleep = sufficient[n].sleep \cup {mExecution[n].instr.tid}
          /\ dfsState'[n] = dfsState[n] \cup {mExecution[n].instr.tid}
        BY <1>4, PopIs
    <2> HIDE DEF n
    <2>2. \A k \in 1 .. n : sufficient[k].sleep \ dfsState[k] \subseteq inherited(k)
        BY <2>1 DEF SleepIsInherited, Running
    <2>3. \A k \in 1 .. n : (k = 1 \/ k - 1 \in 1 .. n - 1) /\ (k = n \/ k \in 1 .. n - 1)
        BY <2>1
    <2>4. \A k \in 1 .. n : inherited(k)' = inherited(k)
        BY <2>1, <2>3
    <2>5. \A k \in 1 .. n : sufficient'[k].sleep \ dfsState'[k] \subseteq sufficient[k].sleep \ dfsState[k]
        BY <2>1, <2>3
    <2> HIDE DEF inherited
    <2>6. \A k \in 1 .. n : sufficient'[k].sleep \ dfsState'[k] \subseteq inherited(k)'
        BY <2>2, <2>4, <2>5
    <2> QED
        BY <2>1, <2>6 DEF SleepIsInherited, inherited
<1>5. CASE phase' = "invalid"
    BY <1>5 DEF SleepIsInherited, Running
<1> QED
    BY <1>1, <1>2, <1>3, <1>4, <1>5, CoverageStepKinds
       DEF DporScheduleNext, DporBacktrackFurther, ScheduleNext, BacktrackFurther, DporPopBack

\* The scheduler ends a run where no thread is enabled, or says that it is blocked.
LEMMA RunsAreCompleteStep ==
    ASSUME ValidPrograms, DporInv, RunsAreComplete, [DporNext]_dporVars
    PROVE  RunsAreComplete'
<1>1. failures' = 0 => failures = 0
    BY SearchGoesOn
<1>2. CASE DporRunEnds
    BY <1>2 DEF DporRunEnds, RunEnds, RunsAreComplete
<1>3. CASE DporBlocked
    BY <1>3 DEF DporBlocked, RunEnds, RunsAreComplete
<1>4. CASE RunFails
    BY <1>4 DEF RunFails, RunsAreComplete, DporInv, Inv, TypeOK
<1>5. CASE DporReadRecord
    BY <1>5, ReadIs DEF RunsAreComplete
<1>6. CASE DporUpdateTransition \/ DporRestoreTransition
    BY <1>6 DEF DporUpdateTransition, UpdateTransition, DporRestoreTransition, RestoreTransition,
       RunsAreComplete
<1>7. CASE phase' \notin {"read", "update"}
    BY <1>7 DEF RunsAreComplete
<1>8. CASE UNCHANGED <<phase, failures, record, program, mExecution>>
    BY <1>8 DEF RunsAreComplete
<1>9. CASE LimitReached \/ ReplayScheduled \/ RecordMissing \/ FinishUpdate \/ Exhausted
            \/ Terminated \/ DporStartRun \/ DporSelectThread
    BY <1>7, <1>8, <1>9 DEF LimitReached, ReplayScheduled, ProgramStep, RecordMissing,
       FinishUpdate, Exhausted, Terminated, explorationVars, DporStartRun, StartRun,
       DporSelectThread, SelectThread
<1>10. CASE DporInvalidProgram \/ DporScheduleNext \/ DporBacktrackFurther
    BY <1>7, <1>10 DEF DporInvalidProgram, InvalidProgram, DporScheduleNext, ScheduleNext,
       DporBacktrackFurther, BacktrackFurther, PopBack
<1>11. CASE UNCHANGED dporVars
    BY <1>8, <1>11 DEF dporVars, explorationVars
<1> QED
    BY <1>2, <1>3, <1>4, <1>5, <1>6, <1>9, <1>10, <1>11 DEF DporNext

\* A record is logged when it is read, and popping leaves a prefix of it.
LEMMA BranchIsLoggedStep ==
    ASSUME ValidPrograms, DporInv, BranchIsLogged, [DporNext]_dporVars
    PROVE  BranchIsLogged'
<1>1. CASE QuietStep
    <2>1. phase' = "update" => phase = "update"
        BY <1>1 DEF QuietStep, DporRestoreTransition, RestoreTransition, FinishUpdate, Exhausted,
           BeforeUpdate
    <2>2. phase' \in BeforeUpdate => phase \in BeforeUpdate \/ mExecution' = <<>>
        BY <1>1 DEF QuietStep, QuietVars, DporRestoreTransition, RestoreTransition, FinishUpdate,
           Exhausted, BeforeUpdate
    <2> QED
        BY <1>1, <2>1, <2>2 DEF QuietStep, QuietVars, BranchIsLogged
<1>2. CASE DporReadRecord
    BY <1>2, ReadIs DEF BranchIsLogged, BeforeUpdate
<1>3. CASE DporUpdateTransition
    BY <1>3, UpdateIs DEF BranchIsLogged, BeforeUpdate
<1>4. CASE DporScheduleNext \/ DporBacktrackFurther
    <2>1. PopBack /\ sufficient' = PoppedSufficient
        BY <1>4 DEF DporScheduleNext, DporBacktrackFurther, ScheduleNext, BacktrackFurther, DporPopBack
    <2>2. /\ phase = "backtrack" /\ UNCHANGED schedules
          /\ Len(mExecution) \in Nat \ {0} /\ Len(mExecution') = Len(mExecution) - 1
          /\ \A i \in 1 .. Len(mExecution) - 1 : mExecution'[i] = mExecution[i]
        BY <2>1, PopIs
    <2>3. PICK s \in schedules : /\ Len(s) >= Len(mExecution)
                                 /\ \A j \in 1 .. Len(mExecution) : s[j] = mExecution[j].instr.tid
        BY <2>2 DEF DporInv, Inv, ExecutionIsLogged
    <2>4. s \in Seq(Tids)
        BY <2>3 DEF DporInv, Inv, TypeOK
    <2>5. /\ Len(s) >= Len(mExecution')
          /\ \A j \in 1 .. Len(mExecution') : s[j] = mExecution'[j].instr.tid
        BY <2>2, <2>3, <2>4
    <2>6. phase' # "update"
        BY <1>4 DEF DporScheduleNext, DporBacktrackFurther, ScheduleNext, BacktrackFurther, PopBack
    <2> QED
        BY <2>2, <2>3, <2>5, <2>6 DEF BranchIsLogged
<1>5. CASE phase' = "invalid"
    BY <1>5 DEF BranchIsLogged, BeforeUpdate
<1> QED
    BY <1>1, <1>2, <1>3, <1>4, <1>5, CoverageStepKinds

\* What is read back is the record of the last run that left one.
LEMMA BlockedCouldGoOnStep ==
    ASSUME BlockedCouldGoOn, [DporNext]_dporVars
    PROVE  BlockedCouldGoOn'
<1>1. CASE UNCHANGED <<program, record>>
    BY <1>1 DEF BlockedCouldGoOn
<1>2. CASE DporRunEnds
    BY <1>2 DEF DporRunEnds, RunEnds, BlockedCouldGoOn
<1>3. CASE DporBlocked
    BY <1>3 DEF DporBlocked, RunEnds, BlockedCouldGoOn
<1>4. CASE FinishUpdate
    BY <1>1, <1>4 DEF FinishUpdate, BlockedCouldGoOn, NoRecord
<1>5. CASE LimitReached \/ ReplayScheduled \/ RunFails \/ RecordMissing \/ Exhausted \/ Terminated
    BY <1>1, <1>5 DEF LimitReached, ReplayScheduled, ProgramStep, RunFails, RecordMissing, Exhausted,
       Terminated, explorationVars
<1>6. CASE DporStartRun \/ DporSelectThread \/ DporReadRecord \/ DporInvalidProgram
    BY <1>1, <1>6 DEF DporStartRun, StartRun, DporSelectThread, SelectThread, ProgramStep,
       DporReadRecord, ReadRecord, DporInvalidProgram, InvalidProgram
<1>7. CASE DporRestoreTransition \/ DporUpdateTransition \/ DporScheduleNext \/ DporBacktrackFurther
    BY <1>1, <1>7 DEF DporRestoreTransition, RestoreTransition, DporUpdateTransition,
       UpdateTransition, DporScheduleNext, ScheduleNext, DporBacktrackFurther, BacktrackFurther,
       PopBack
<1>8. CASE UNCHANGED dporVars
    BY <1>1, <1>8 DEF dporVars, explorationVars
<1> QED
    BY <1>2, <1>3, <1>4, <1>5, <1>6, <1>7, <1>8 DEF DporNext

\* mDone is set only when the stack is down to the initial state.
LEMMA EndsAtRootStep ==
    ASSUME ValidPrograms, DporInv, EndsAtRoot, [DporNext]_dporVars
    PROVE  EndsAtRoot'
<1>1. CASE Exhausted /\ UNCHANGED QuietVars
    <2>1. phase = "backtrack" /\ mExecution = <<>> /\ UNCHANGED <<mExecution, sufficient>>
        BY <1>1 DEF Exhausted, QuietVars
    <2>2. Len(sufficient) = Len(mExecution) + 1
        BY <2>1 DEF DporInv, Inv, SearchIsAligned
    <2>3. Len(mExecution) = 0
        BY <2>1
    <2> QED
        BY <2>1, <2>2, <2>3 DEF EndsAtRoot
<1>2. CASE UNCHANGED QuietVars /\ (phase' = "done" => phase = "done")
    BY <1>2 DEF EndsAtRoot, QuietVars
<1>3. CASE phase' # "done"
    BY <1>3 DEF EndsAtRoot
<1>4. CASE QuietStep
    BY <1>1, <1>2, <1>3, <1>4 DEF QuietStep, BeforeUpdate, DporRestoreTransition, RestoreTransition,
       FinishUpdate
<1>5. CASE DporReadRecord \/ DporUpdateTransition \/ DporScheduleNext \/ DporBacktrackFurther
    BY <1>3, <1>5 DEF DporReadRecord, ReadRecord, DporUpdateTransition, UpdateTransition,
       DporScheduleNext, ScheduleNext, DporBacktrackFurther, BacktrackFurther, PopBack
<1> QED
    BY <1>3, <1>4, <1>5, CoverageStepKinds

-----------------------------------------------------------------------------
(* The races of what has been explored *)

\* What MovedBefore moves of the transitions from the n-th to the i-th depends on these
\* only, and some thread can start it.
LEMMA FrontThreadsExist ==
    ASSUME NEW e \in Seq(Transitions), NEW i \in 1 .. Len(e), NEW n \in 1 .. i - 1
    PROVE  FrontThreads(e, n, i) # {}
<1> DEFINE moved == MovedBefore(e, n, i)
<1>1. i \in moved /\ moved \subseteq Nat /\ \A j \in moved : j \in 1 .. Len(e)
    BY DEF MovedBefore
<1>2. PICK c \in moved : \A j \in moved : c <= j
    BY <1>1, LeastNatural
<1>3. Before(e)[c] \subseteq 1 .. c - 1
    BY <1>1, BeforeIsEarlier
<1>4. Before(e)[c] \cap moved = {}
    BY <1>1, <1>2, <1>3
<1> HIDE DEF moved
<1>5. e[c].instr.tid \in {e[j].instr.tid : j \in {k \in moved : Before(e)[k] \cap moved = {}}}
    BY <1>2, <1>4
<1> QED
    BY <1>5 DEF FrontThreads, moved

\* The races that end at i, and what their reversal starts with, are a matter of the
\* first i transitions.
LEMMA RacesOfPrefix ==
    ASSUME NEW e \in Seq(Transitions), NEW f \in Seq(Transitions),
           NEW i \in 1 .. Len(e), i <= Len(f), \A j \in 1 .. i : e[j] = f[j]
    PROVE  /\ DirectlyBefore(e, i) = DirectlyBefore(f, i)
           /\ \A n \in 1 .. i - 1 : FrontThreads(e, n, i) = FrontThreads(f, n, i)
<1>1. i \in Nat /\ i <= Len(e)
    OBVIOUS
<1>2. \A j \in 1 .. i : Before(e)[j] = Before(f)[j]
    BY <1>1, BeforeOfPrefix
<1>3. i \in 1 .. i /\ \A j \in 1 .. i : Before(e)[j] \subseteq 1 .. i - 1
    <2>1. ASSUME NEW j \in 1 .. i
          PROVE  Before(e)[j] \subseteq 1 .. i - 1
        <3>1. j \in 1 .. Len(e)
            OBVIOUS
        <3>2. Before(e)[j] \subseteq 1 .. j - 1
            BY <3>1, BeforeIsEarlier
        <3> QED
            BY <3>2
    <2> QED
        BY <2>1
<1>4. \A j \in 1 .. i - 1 : j \in 1 .. i
    OBVIOUS
<1>5. DirectlyBefore(e, i) = DirectlyBefore(f, i)
    <2>1. PICK b : b = Before(e)[i]
        OBVIOUS
    <2>2. /\ b = Before(f)[i]
          /\ \A j \in b : e[j] = f[j] /\ Before(e)[j] = Before(f)[j]
        BY <1>2, <1>3, <1>4, <2>1
    <2>3. e[i] = f[i]
        BY <1>3
    <2> QED
        BY <2>1, <2>2, <2>3 DEF DirectlyBefore
<1>6. ASSUME NEW n \in 1 .. i - 1
      PROVE  FrontThreads(e, n, i) = FrontThreads(f, n, i)
    <2>1. MovedBefore(e, n, i) = MovedBefore(f, n, i)
        <3>1. \A j \in n + 1 .. i - 1 : Before(e)[j] = Before(f)[j]
            BY <1>2
        <3> QED
            BY <3>1 DEF MovedBefore
    <2>2. PICK moved : moved = MovedBefore(e, n, i)
        OBVIOUS
    <2>3. \A j \in moved : j \in 1 .. i
        BY <2>2 DEF MovedBefore
    <2>4. \A j \in moved : e[j] = f[j] /\ Before(e)[j] = Before(f)[j]
        BY <1>2, <2>3
    <2> QED
        BY <2>1, <2>2, <2>4 DEF FrontThreads
<1> QED
    BY <1>5, <1>6

\* The last race of the i-th transition, and who leads to it, are a matter of the first
\* i transitions, too.
LEMMA LastRaceOfPrefix ==
    ASSUME NEW e \in Seq(Transitions), NEW f \in Seq(Transitions),
           NEW i \in 1 .. Len(e), i <= Len(f), \A j \in 1 .. i : e[j] = f[j],
           NEW n \in 1 .. i - 1
    PROVE  /\ IsLastRace(e, n, i) <=> IsLastRace(f, n, i)
           /\ LeadingThreads(e, n, i) = LeadingThreads(f, n, i)
<1>1. i \in Nat /\ i <= Len(e) /\ i \in 1 .. i
    OBVIOUS
<1>2. \A j \in 1 .. i : Before(e)[j] = Before(f)[j]
    BY <1>1, BeforeOfPrefix
<1>3. \A j \in 1 .. i - 1 : e[j] = f[j] /\ Before(e)[j] = Before(f)[j]
    BY <1>2
<1>4. e[i] = f[i] /\ Before(e)[i] = Before(f)[i]
    BY <1>1, <1>2
<1>5. LateRaces(e, i) = LateRaces(f, i)
    <2>1. \A j \in 1 .. i - 1 : NotBeforeThread(e, i, j, e[i].instr.tid)
                                    <=> NotBeforeThread(f, i, j, f[i].instr.tid)
        BY <1>3, <1>4 DEF NotBeforeThread
    <2> QED
        BY <1>3, <1>4, <2>1 DEF LateRaces
<1>6. LeadingThreads(e, n, i) = LeadingThreads(f, n, i)
    <2>1. \A j \in n + 1 .. i : e[j] = f[j]
        OBVIOUS
    <2> QED
        BY <1>4, <2>1 DEF LeadingThreads
<1> QED
    BY <1>5, <1>6 DEF IsLastRace

\* A step that neither reads a record nor updates has updated nothing new.
LEMMA UpdatedBefore ==
    ASSUME DporInv, QuietStep, NEW e, NEW i \in Nat, WasUpdated(e, i)'
    PROVE  WasUpdated(e, i)
<1>1. PICK s \in schedules' :
          /\ i <= Len(s)
          /\ \A j \in 1 .. i : s[j] = e[j].instr.tid
          /\ phase' = "update" /\ s = mSchedule' => i < index' \/ i < from'
    BY DEF WasUpdated
<1>2. s \in schedules /\ mSchedule' = mSchedule
    BY DEF QuietStep, QuietVars
<1>3. phase = "update" /\ s = mSchedule => i < index \/ i < from
    <2>1. CASE UNCHANGED <<phase, from, index, record>>
        BY <1>1, <1>2, <2>1
    <2>2. CASE phase \in BeforeUpdate \/ Exhausted
        BY <2>2 DEF BeforeUpdate, Exhausted
    <2>3. CASE DporRestoreTransition
        <3>1. phase' = "update" /\ index < from /\ index' = index + 1 /\ from' = from
            BY <2>3 DEF DporRestoreTransition, RestoreTransition
        <3>2. index \in Nat /\ from \in Nat
            BY DEF DporInv, Inv, TypeOK
        <3> QED
            BY <1>1, <1>2, <3>1, <3>2
    <2>4. CASE FinishUpdate
        <3>1. phase = "update" /\ index > Len(mExecution)
            BY <2>4 DEF FinishUpdate
        <3>2. index \in Nat /\ mExecution \in Seq(Transitions) /\ mSchedule = ScheduleOf(mExecution)
            BY <3>1 DEF DporInv, Inv, TypeOK, SearchIsAligned
        <3>3. Len(mSchedule) = Len(mExecution)
            BY <3>2, ScheduleIs
        <3> QED
            BY <1>1, <3>1, <3>2, <3>3
    <2> QED
        BY <2>1, <2>2, <2>3, <2>4 DEF QuietStep
<1> QED
    BY <1>1, <1>2, <1>3 DEF WasUpdated

\* The state before transition n keeps its backtrack set, and nobody is put to sleep there
\* who is not done.
KeepsState(n) ==
    /\ sufficient[n].backtrack \subseteq sufficient'[n].backtrack
    /\ sufficient'[n].sleep \ dfsState'[n] \subseteq sufficient[n].sleep \ dfsState[n]

\* Nothing has changed for the transitions n and i of e.
Remains(e, n, i) ==
    /\ phase \in Running /\ failures = 0 /\ UNCHANGED program
    /\ UpdatedFrom(e, n, i)
    /\ KeepsState(n)

\* A quiet step changes nothing.
LEMMA RemainQuiet ==
    ASSUME DporInv, QuietStep, [DporNext]_dporVars, phase' \in Running, failures' = 0,
           NEW e, NEW n, NEW i \in Nat, UpdatedFrom(e, n, i)'
    PROVE  Remains(e, n, i)
<1>1. phase \in Running /\ failures = 0
    BY SearchGoesOn
<1>2. WasUpdated(e, i)' /\ n <= Len(sufficient') /\ Share(e, mExecution', n - 1)
    BY DEF UpdatedFrom
<1>3. WasUpdated(e, i)
    BY <1>2, UpdatedBefore
<1> QED
    BY <1>1, <1>2, <1>3 DEF Remains, UpdatedFrom, KeepsState, QuietStep, QuietVars

\* Reading a record keeps the states of the branch, and has updated only what was
\* updated before: the transitions of the prefix that is kept.
LEMMA RemainRead ==
    ASSUME DporInv, BranchIsLogged, DporReadRecord, failures' = 0,
           NEW e \in ExecutionsOf(program), NEW i \in 1 .. Len(e), NEW n \in 1 .. i - 1,
           UpdatedFrom(e, n, i)'
    PROVE  Remains(e, n, i)
<1>1. PICK m : m = Len(mExecution)
    OBVIOUS
<1>2. /\ phase = "read" /\ phase' = "update" /\ index' = 1 /\ from' = m + 1 /\ m \in Nat
      /\ UNCHANGED <<program, failures, sufficient, dfsState>>
      /\ Len(mExecution') >= m /\ Len(mExecution') \in Nat
      /\ \A j \in 1 .. m : mExecution'[j] = mExecution[j]
      /\ mSchedule' = ScheduleOf(mExecution')
      /\ schedules' = schedules \cup {mSchedule'}
      /\ Len(sufficient) = m + 1
    BY <1>1, ReadIs
<1>3. program \in Programs /\ mExecution' \in Seq(Transitions)
    BY DEF DporInv, Inv, TypeOK, DporReadRecord, ReadRecord
<1>4. e \in Seq(Transitions) /\ i \in Nat /\ n \in Nat
    BY <1>3, ExecutionsAre
<1>5. WasUpdated(e, i)' /\ n <= Len(sufficient) /\ Share(e, mExecution', n - 1)
    BY <1>2 DEF UpdatedFrom
<1>6. Share(e, mExecution, n - 1)
    <2>1. n - 1 <= m /\ \A j \in 1 .. n - 1 : j \in 1 .. m
        BY <1>2, <1>4, <1>5
    <2> QED
        BY <1>1, <1>2, <1>5, <2>1 DEF Share
<1>7. WasUpdated(e, i)
    <2>1. PICK s \in schedules' :
              /\ i <= Len(s)
              /\ \A j \in 1 .. i : s[j] = e[j].instr.tid
              /\ s = mSchedule' => i < 1 \/ i < m + 1
        BY <1>2, <1>5 DEF WasUpdated
    <2>2. CASE s \in schedules
        BY <1>2, <2>1, <2>2 DEF WasUpdated
    <2>3. CASE s = mSchedule'
        <3>1. i \in 1 .. m
            BY <1>2, <2>1, <2>3
        <3>2. \A j \in 1 .. i : s[j] = mExecution[j].instr.tid
            <4>1. \A j \in 1 .. Len(mExecution') : s[j] = mExecution'[j].instr.tid
                BY <1>2, <1>3, <2>3, ScheduleIs
            <4>2. \A j \in 1 .. i : j \in 1 .. m /\ j \in 1 .. Len(mExecution')
                BY <1>2, <3>1
            <4> QED
                BY <1>2, <4>1, <4>2
        <3>3. mExecution # <<>>
            BY <1>1, <3>1
        <3>4. PICK z \in schedules : /\ Len(z) >= m
                                     /\ \A j \in 1 .. m : z[j] = mExecution[j].instr.tid
            BY <1>1, <1>2, <3>3 DEF BranchIsLogged, BeforeUpdate
        <3>5. z \in Seq(Tids)
            BY <3>4 DEF DporInv, Inv, TypeOK
        <3>6. i <= Len(z) /\ \A j \in 1 .. i : z[j] = e[j].instr.tid
            BY <1>2, <2>1, <3>1, <3>2, <3>4, <3>5
        <3> QED
            BY <1>2, <3>4, <3>6 DEF WasUpdated
    <2> QED
        BY <1>2, <2>1, <2>2, <2>3
<1> QED
    BY <1>2, <1>5, <1>6, <1>7 DEF Remains, UpdatedFrom, KeepsState, Running

\* Popping drops a state; the thread that is put to sleep in the one before it is done.
LEMMA RemainPop ==
    ASSUME DporInv, PopBack, sufficient' = PoppedSufficient, phase' # "update", failures' = 0,
           NEW e \in ExecutionsOf(program), NEW i \in 1 .. Len(e), NEW n \in 1 .. i - 1,
           UpdatedFrom(e, n, i)'
    PROVE  Remains(e, n, i)
<1>1. PICK m : m = Len(mExecution)
    OBVIOUS
<1>2. /\ phase = "backtrack" /\ UNCHANGED <<program, failures, schedules>>
      /\ m \in Nat \ {0} /\ Len(mExecution') = m - 1
      /\ \A j \in 1 .. m - 1 : mExecution'[j] = mExecution[j]
      /\ Len(sufficient) = m + 1 /\ Len(sufficient') = m
      /\ \A k \in 1 .. m : sufficient'[k].backtrack = sufficient[k].backtrack
      /\ \A k \in 1 .. m - 1 : /\ sufficient'[k].sleep = sufficient[k].sleep
                               /\ dfsState'[k] = dfsState[k]
      /\ sufficient'[m].sleep = sufficient[m].sleep \cup {mExecution[m].instr.tid}
      /\ dfsState'[m] = dfsState[m] \cup {mExecution[m].instr.tid}
    BY <1>1, PopIs
<1>3. e \in Seq(Transitions) /\ i \in Nat /\ n \in Nat
    BY ExecutionsAre DEF DporInv, Inv, TypeOK
<1>4. WasUpdated(e, i)' /\ n <= m /\ Share(e, mExecution', n - 1)
    BY <1>2 DEF UpdatedFrom
<1>5. n \in 1 .. m
    BY <1>2, <1>3, <1>4
<1>6. Share(e, mExecution, n - 1)
    BY <1>1, <1>2, <1>4, <1>5 DEF Share
<1>7. WasUpdated(e, i)
    BY <1>2, <1>4 DEF WasUpdated
<1>8. KeepsState(n)
    <2>1. CASE n = m
        BY <1>2, <2>1 DEF KeepsState
    <2>2. CASE n # m
        <3>1. n \in 1 .. m - 1
            BY <1>2, <1>5, <2>2
        <3> QED
            BY <1>2, <1>5, <3>1 DEF KeepsState
    <2> QED
        BY <2>1, <2>2
<1> QED
    BY <1>2, <1>4, <1>5, <1>6, <1>7, <1>8 DEF Remains, UpdatedFrom, Running

\* Only update_state comes past a transition: the one that it updates for.
LEMMA RemainUpdate ==
    ASSUME ValidPrograms, DporInv, DporUpdateTransition, failures' = 0,
           NEW e \in ExecutionsOf(program), NEW i \in 1 .. Len(e), NEW n \in 1 .. i - 1,
           UpdatedFrom(e, n, i)'
    PROVE  /\ n \in 1 .. index
           /\ \/ Remains(e, n, i)
              \/ i = index /\ \A j \in 1 .. i : e[j] = mExecution[j]
<1>1. PICK m : m = index
    OBVIOUS
<1>2. /\ phase = "update" /\ phase' = "update"
      /\ m \in Nat \ {0} /\ m <= Len(mExecution) /\ index' = m + 1 /\ from \in 1 .. m
      /\ UNCHANGED <<program, failures, mExecution, mSchedule, schedules, from>>
      /\ mExecution \in Seq(Transitions) /\ Len(mExecution) \in Nat
      /\ Len(sufficient) = m /\ Len(sufficient') = m + 1
      /\ \A k \in 1 .. m : /\ sufficient'[k].sleep = sufficient[k].sleep
                           /\ dfsState'[k] = dfsState[k]
                           /\ sufficient'[k].backtrack = sufficient[k].backtrack \cup AddedToBacktrack(k)
      /\ Len(dfsState) = m
    BY <1>1, UpdateIs
<1>3. program \in Programs /\ IsExecution(program, mExecution) /\ mSchedule = ScheduleOf(mExecution)
    BY <1>2 DEF DporInv, Inv, TypeOK, ExecutionsAreValid, SearchIsAligned
<1>4. e \in Seq(Transitions) /\ IsExecution(program, e) /\ i \in Nat /\ n \in Nat
    BY <1>3, ExecutionsAre
<1>5. WasUpdated(e, i)' /\ n <= m + 1 /\ Share(e, mExecution, n - 1)
    BY <1>2 DEF UpdatedFrom
<1>6. PICK s \in schedules :
          /\ i <= Len(s)
          /\ \A j \in 1 .. i : s[j] = e[j].instr.tid
          /\ s = mSchedule => i < m + 1 \/ i < from
    BY <1>2, <1>5 DEF WasUpdated
<1>7. n # m + 1
    <2> SUFFICES ASSUME n = m + 1
                 PROVE  FALSE
        OBVIOUS
    <2>1. s # mSchedule
        BY <1>2, <1>4, <1>6
    <2>2. Diverges(s)
        BY <1>2, <1>6, <2>1 DEF DporInv, Inv, LoggedDiverge, Running
    <2>3. PICK k \in 1 .. m : s[k] \in dfsState[k]
        BY <1>2, <2>2 DEF Diverges
    <2>4. k \in 1 .. i /\ k \in 1 .. n - 1 /\ k \in 1 .. Len(mExecution)
        BY <1>2, <1>4
    <2>5. s[k] = mExecution[k].instr.tid
        BY <1>5, <1>6, <2>4 DEF Share
    <2>6. mExecution[k].instr.tid \notin dfsState[k]
        BY <1>2, <2>4 DEF DporInv, Inv, BranchIsUndone, Running
    <2> QED
        BY <2>3, <2>5, <2>6
<1>8. n \in 1 .. m
    BY <1>2, <1>4, <1>5, <1>7
<1>9. CASE WasUpdated(e, i)
    <2>1. KeepsState(n)
        BY <1>2, <1>8 DEF KeepsState
    <2> QED
        BY <1>1, <1>2, <1>5, <1>8, <1>9, <2>1 DEF Remains, UpdatedFrom, Running
<1>10. CASE ~ WasUpdated(e, i)
    <2>1. s = mSchedule /\ i = m
        <3>1. s = mSchedule /\ ~(i < m)
            BY <1>1, <1>2, <1>6, <1>10 DEF WasUpdated
        <3> QED
            BY <1>2, <1>4, <1>6, <3>1
    <2>2. \A j \in 1 .. m : e[j] = mExecution[j]
        <3>1. \A j \in 1 .. Len(mExecution) : s[j] = mExecution[j].instr.tid
            BY <1>2, <1>3, <2>1, ScheduleIs
        <3>2. \A j \in 1 .. m : e[j].instr.tid = mExecution[j].instr.tid
            BY <1>2, <1>6, <2>1, <3>1
        <3>3. /\ m <= Len(e) /\ m \in Nat /\ m <= Len(mExecution)
              /\ mExecution \in Seq(Transitions) /\ IsExecution(program, mExecution)
            BY <1>2, <1>3, <1>4, <2>1
        <3> QED
            BY <1>4, <3>2, <3>3, SameScheduleSameTransitions
    <2> QED
        BY <1>1, <1>8, <2>1, <2>2
<1> QED
    BY <1>9, <1>10

\* The same, over all actions.
LEMMA RemainStep ==
    ASSUME ValidPrograms, DporInv, BranchIsLogged, [DporNext]_dporVars,
           phase' \in Running, failures' = 0,
           NEW e \in ExecutionsOf(program'), NEW i \in 1 .. Len(e), NEW n \in 1 .. i - 1,
           UpdatedFrom(e, n, i)'
    PROVE  /\ UNCHANGED program
           /\ \/ Remains(e, n, i)
              \/ /\ DporUpdateTransition
                 /\ n \in 1 .. index /\ i = index /\ \A j \in 1 .. i : e[j] = mExecution[j]
<1>1. i \in Nat
    OBVIOUS
<1>2. CASE QuietStep
    <2>1. Remains(e, n, i)
        BY <1>1, <1>2, RemainQuiet
    <2> QED
        BY <1>2, <2>1 DEF QuietStep, QuietVars
<1>3. CASE DporReadRecord
    <2>1. UNCHANGED program
        BY <1>3, ReadIs
    <2>2. Remains(e, n, i)
        BY <1>3, <2>1, RemainRead
    <2> QED
        BY <2>1, <2>2
<1>4. CASE DporUpdateTransition
    <2>1. UNCHANGED program
        BY <1>4, UpdateIs
    <2>2. n \in 1 .. index /\ (Remains(e, n, i) \/ (i = index /\ \A j \in 1 .. i : e[j] = mExecution[j]))
        BY <1>4, <2>1, RemainUpdate
    <2> QED
        BY <1>4, <2>1, <2>2
<1>5. CASE DporScheduleNext \/ DporBacktrackFurther
    <2>1. PopBack /\ sufficient' = PoppedSufficient /\ phase' # "update"
        BY <1>5 DEF DporScheduleNext, DporBacktrackFurther, ScheduleNext, BacktrackFurther, PopBack,
           DporPopBack
    <2>2. UNCHANGED program
        BY <2>1, PopIs
    <2>3. Remains(e, n, i)
        BY <2>1, <2>2, RemainPop
    <2> QED
        BY <2>2, <2>3
<1> QED
    BY <1>2, <1>3, <1>4, <1>5, CoverageStepKinds DEF Running

\* The clocks are those of the execution once update_state has updated them.
ClocksFitUpdated ==
    /\ index - 1 \in 1 .. Len(mExecution)
    /\ Size(mHB) = ThreadsOf(program, mExecution)
    /\ ClocksFit(mExecution, mHB, Size(mHB), index - 1)

\* The clocks of the transitions that have been updated are right,
LEMMA UpdatedClocksFit == ClockInv /\ JustUpdated => ClocksFitUpdated
<1> SUFFICES ASSUME ClockInv, JustUpdated
             PROVE  ClocksFitUpdated
    OBVIOUS
<1>1. PICK i : i = index - 1
    OBVIOUS
<1>2. /\ i \in 1 .. Len(mExecution) /\ Size(mHB) = ThreadsOf(program, mExecution)
      /\ ClocksFit(mExecution, mHB, Size(mHB), i)
    BY <1>1, UpdatedFits DEF ClockInv
<1> QED
    BY <1>1, <1>2 DEF ClocksFitUpdated

\* and so they are after the step.
LEMMA UpdatedClocksFitNext == ClockInv' /\ JustUpdated' => ClocksFitUpdated'
BY UpdatedClocksFit, PTL

\* For every race of a new transition Source has a point, and sees to it that a thread
\* that can start the reversal is in the backtrack set.
LEMMA SourceIsAdded ==
    ASSUME NEW e \in Seq(Transitions), NEW h, NEW threads, NEW i \in 1 .. Len(e),
           ClocksFit(e, h, threads, i), NEW n \in DirectlyBefore(e, i), NEW S,
           NEW point, point = [tid |-> e[i].instr.tid, index |-> n]
    PROVE  /\ point \in SourceBacktrackPoints(e, h, i)
           /\ (S[n].backtrack \cup AddedBySource(e, h, S, i, point)) \cap FrontThreads(e, n, i) # {}
<1>1. point \in SourceBacktrackPoints(e, h, i)
    BY CoveringIsDirect DEF SourceBacktrackPoints
<1>2. n \in 1 .. i - 1 /\ point.index = n
    <2>1. Before(e)[i] \subseteq 1 .. i - 1
        BY BeforeIsEarlier
    <2> QED
        BY <2>1 DEF DirectlyBefore
<1>3. PICK moved : moved = Reversal(e, h, i, point)
    OBVIOUS
<1>4. \A k : k \in moved <=> k \in IncomparableAfter(e, h, n, i) \/ k = i
    BY <1>2, <1>3 DEF Reversal
<1>5. FrontOf(e, h, moved) = {j \in moved : Before(e)[j] \cap moved = {}}
    <2>1. FrontIsThatOf(e, h, moved)
        BY <1>4, FrontOfMovedIs
    <2> QED
        BY <2>1 DEF FrontIsThatOf
<1>6. moved = MovedBefore(e, n, i)
    <2>1. ASSUME NEW j \in n + 1 .. i - 1
          PROVE  IsBefore(e, h, n, j) <=> n \in Before(e)[j]
        <3>1. j \in 1 .. i /\ n \in 1 .. i
            BY <1>2
        <3>2. n \in Before(e)[j] <=> n <= ClockAt(h, j)[e[n].instr.tid]
            BY <3>1, <1>2, ClockSays
        <3>3. PICK v : v = ClockAt(h, j)[e[n].instr.tid]
            OBVIOUS
        <3>4. v >= n <=> n <= v
            OBVIOUS
        <3> QED
            BY <3>2, <3>3, <3>4 DEF IsBefore
    <2> QED
        BY <1>4, <2>1 DEF IncomparableAfter, MovedBefore
<1>7. Sources(e, h, i, point) = FrontThreads(e, n, i)
    BY <1>3, <1>5, <1>6 DEF Sources, FrontThreads
<1>8. PICK front : front = FrontThreads(e, n, i)
    OBVIOUS
<1>9. front # {} /\ front \subseteq Nat
    <2>1. front # {}
        BY <1>2, <1>8, FrontThreadsExist
    <2>2. MovedBefore(e, n, i) \subseteq 1 .. Len(e)
        BY <1>2 DEF MovedBefore
    <2>3. \A j \in 1 .. Len(e) : e[j].instr.tid \in Nat
        <3>1. \A j \in 1 .. Len(e) : ScheduleOf(e)[j] = e[j].instr.tid /\ ScheduleOf(e)[j] \in Tids
            BY ScheduleIs, ElementOfSeq
        <3> QED
            BY <3>1, TidsAssumption
    <2> QED
        BY <1>8, <2>1, <2>2, <2>3 DEF FrontThreads
<1>10. PICK least \in front : \A u \in front : least <= u
    BY <1>9, LeastNatural
<1>11. AddedBySource(e, h, S, i, point) =
           IF S[n].backtrack \cap front # {}
           THEN {}
           ELSE IF point.tid \in front
           THEN {point.tid}
           ELSE {t \in front : \A u \in front : t <= u}
    <2>1. front = Sources(e, h, i, point)
        BY <1>7, <1>8
    <2>2. AddedBySource(e, h, S, i, point) =
              IF S[point.index].backtrack \cap front # {}
              THEN {}
              ELSE IF point.tid \in front
              THEN {point.tid}
              ELSE {t \in front : \A u \in front : t <= u}
        BY ONLY <2>1 DEF AddedBySource
    <2>3. S[point.index] = S[n]
        BY <1>2
    <2> QED
        BY ONLY <2>2, <2>3
<1>12. PICK added, old : added = AddedBySource(e, h, S, i, point) /\ old = S[n].backtrack
    OBVIOUS
<1>13. (old \cup added) \cap front # {}
    <2>1. CASE old \cap front # {}
        BY <2>1
    <2>2. CASE old \cap front = {} /\ point.tid \in front
        BY <1>11, <1>12, <2>2
    <2>3. CASE old \cap front = {} /\ point.tid \notin front
        <3>1. least \in added
            BY <1>10, <1>11, <1>12, <2>3
        <3> QED
            BY <1>10, <3>1
    <2> QED
        BY <2>1, <2>2, <2>3
<1> QED
    BY <1>1, <1>8, <1>12, <1>13

\* Where nothing is locked, Persistent has a point for the last race of a transition,
\* and adds a thread that leads to it and does not sleep, or all enabled ones.
LEMMA PointIsTaken ==
    ASSUME NEW p \in Programs, NeverWaits(p), NEW e \in Seq(Transitions), IsExecution(p, e),
           NEW h, NEW threads, threads = ThreadsOf(p, e), NEW i \in 1 .. Len(e),
           ClocksFit(e, h, threads, i), NEW n \in 1 .. i - 1, IsLastRace(e, n, i),
           NEW S, NEW point, point = [tid |-> e[i].instr.tid, index |-> n]
    PROVE  /\ point \in BacktrackPoints(p, e, h, i)
           /\ \/ AddedByPoint(p, e, h, S, point) \cap (LeadingThreads(e, n, i) \ S[n].sleep) # {}
              \/ Enabled(p, e[n].pre) \subseteq AddedByPoint(p, e, h, S, point)
<1>1. PICK q : q = e[i].instr.tid
    OBVIOUS
<1>2. point.tid = q /\ point.index = n
    BY <1>1
<1>3. /\ Dependent(e[n].instr, e[i].instr) /\ NotBeforeThread(e, i, n, q)
      /\ \A j \in 1 .. i - 1 : Dependent(e[j].instr, e[i].instr) /\ NotBeforeThread(e, i, j, q) => j <= n
    BY <1>1 DEF IsLastRace, LateRaces
<1>4. Coenabled(e[n].instr, e[i].instr)
    <2>1. e[n].instr.tid # q
        BY <1>3 DEF NotBeforeThread
    <2>2. q \in Enabled(p, e[i].pre) /\ e[i].instr = NextInstr(p, e[i].pre, q)
        BY <1>1, TransitionIs
    <2>3. q \in Tids /\ e[i].pre \in States
        BY <1>1, EventIs
    <2>4. e[i].pre.pc[q] \in Nat /\ Len(p[q]) \in Nat
        BY <2>3, ProgramsAssumption DEF States
    <2>5. e[i].pre.pc[q] < Len(p[q])
        BY <2>2, <2>3, <2>4 DEF Enabled, IsEnabled, HasNext
    <2>6. e[i].pre.pc[q] + 1 \in 1 .. Len(p[q])
        BY <2>4, <2>5
    <2>7. p[q][e[i].pre.pc[q] + 1].op \notin LockOperations
        BY <2>3, <2>6 DEF NeverWaits, HasNoLocks
    <2>8. e[i].instr.op \notin LockOperations
        BY <2>2, <2>7 DEF NextInstr
    <2> QED
        BY <1>1, <2>1, <2>8 DEF Coenabled, SameThread, LockUnlockSameObject, IsLock, IsUnlock, LockOperations
<1>5. point \in BacktrackPoints(p, e, h, i)
    BY <1>1, <1>3, <1>4, LastPointIsFound
<1>6. q \in threads /\ i \in n + 1 .. i
    BY <1>1, PerformerIsOfExecution
<1>7. q \in LeadingThreads(e, n, i)
    BY <1>1, <1>6 DEF LeadingThreads
<1>8. PICK alternatives : alternatives = Alternatives(p, e, h, S[n].sleep, point)
    OBVIOUS
<1>9. ASSUME NEW u \in alternatives
      PROVE  u \in Nat /\ u \in LeadingThreads(e, n, i) \ S[n].sleep
    <2>1. /\ u \in Tids /\ u \notin S[n].sleep /\ HasNext(p, e[n].pre, u)
          /\ u = q \/ u \in ThreadTransitiveRelation(e, h, n, q)
        BY <1>2, <1>8, <1>9 DEF Alternatives, Awake, Enabled, IsEnabled
    <2>2. ASSUME u # q
          PROVE  u \in LeadingThreads(e, n, i)
        <3>1. u \in threads
            <4>1. n \in 1 .. Len(e)
                OBVIOUS
            <4> QED
                BY <2>1, <4>1, NextIsOfExecution
        <3>2. PreviousBy(e, h, q)[u] > n
            BY <2>1, <2>2 DEF ThreadTransitiveRelation, IndicesGreaterThan
        <3>3. PICK c : c = LastBy(e, ThreadPast(e, i, q), u)
            OBVIOUS
        <3>4. c > n
            BY <1>6, <2>2, <3>1, <3>2, <3>3, PreviousByIs
        <3>5. ThreadPast(e, i, q) \in SUBSET (1 .. i - 1)
            BY ThreadPastIsClosed
        <3>6. ThreadPast(e, i, q) \in SUBSET (1 .. Len(e))
            BY <3>5
        <3>7. c # 0 => c \in ThreadPast(e, i, q) /\ e[c].instr.tid = u
            BY <3>3, <3>6, LastByIs
        <3>8. c \in n + 1 .. i /\ c \in ThreadPast(e, i, q) /\ e[c].instr.tid = u
            BY <3>4, <3>5, <3>7
        <3>9. PICK k \in 1 .. i - 1 : e[k].instr.tid = q /\ c \in {k} \cup Before(e)[k]
            BY <3>8 DEF ThreadPast, NotBeforeThread
        <3>10. k \in Before(e)[i]
            BY <1>1, <3>9, ThreadIsOrdered
        <3>11. c \in Before(e)[i]
            BY <3>9, <3>10, BeforeIsTransitive
        <3> QED
            BY <3>8, <3>11 DEF LeadingThreads
    <2> QED
        BY <1>7, <2>1, <2>2, TidsAssumption
<1>10. PICK added : added = AddedByPoint(p, e, h, S, point)
    OBVIOUS
<1>11. added = IF q \in Enabled(p, e[n].pre) /\ q \notin S[n].sleep
               THEN {q}
               ELSE IF alternatives # {}
               THEN {t \in alternatives : \A u \in alternatives : t <= u}
               ELSE Enabled(p, e[n].pre)
    BY <1>2, <1>8, <1>10 DEF AddedByPoint
<1>12. added \cap (LeadingThreads(e, n, i) \ S[n].sleep) # {} \/ Enabled(p, e[n].pre) \subseteq added
    <2>1. CASE q \in Enabled(p, e[n].pre) /\ q \notin S[n].sleep
        BY <1>7, <1>11, <2>1
    <2>2. CASE ~(q \in Enabled(p, e[n].pre) /\ q \notin S[n].sleep) /\ alternatives # {}
        <3>1. PICK least \in alternatives : \A u \in alternatives : least <= u
            <4>1. alternatives \in SUBSET Nat
                BY <1>9
            <4> QED
                BY <2>2, <4>1, LeastNatural
        <3>2. least \in added
            BY ONLY <1>11, <2>2, <3>1
        <3> QED
            BY <1>9, <3>1, <3>2
    <2>3. CASE ~(q \in Enabled(p, e[n].pre) /\ q \notin S[n].sleep) /\ alternatives = {}
        BY <1>11, <2>3
    <2> QED
        BY <2>1, <2>2, <2>3
<1> QED
    BY <1>5, <1>10, <1>12

\* What update_state adds for a point of its transition, which it looks for with the
\* right clocks.
LEMMA UpdateAdds ==
    ASSUME ValidPrograms, ClockInv, ClockInv', DporUpdateTransition
    PROVE  /\ program \in Programs /\ mExecution \in Seq(Transitions)
           /\ IsExecution(program, mExecution) /\ index \in 1 .. Len(mExecution)
           /\ Size(UpdatedHB) = ThreadsOf(program, mExecution)
           /\ ClocksFit(mExecution, UpdatedHB, Size(UpdatedHB), index)
           /\ \A point \in NewBacktrackPoints : Added(point) \subseteq AddedToBacktrack(point.index)
<1>1. DporInv
    BY DEF ClockInv
<1>2. /\ phase' = "update" /\ index' = index + 1 /\ index \in 1 .. Len(mExecution)
      /\ from \in 1 .. index /\ UNCHANGED <<program, mExecution, from>>
      /\ mExecution \in Seq(Transitions)
    BY <1>1, UpdateIs
<1>3. program \in Programs /\ IsExecution(program, mExecution)
    BY <1>1 DEF DporInv, Inv, TypeOK, ExecutionsAreValid
<1>4. ClocksFitUpdated'
    <2>1. JustUpdated'
        BY <1>2 DEF JustUpdated
    <2> QED
        BY <2>1, UpdatedClocksFitNext
<1>5. PICK h, i : h = UpdatedHB /\ i = index
    OBVIOUS
<1>6. mHB' = h /\ index' - 1 = i
    BY <1>2, <1>5 DEF DporUpdateTransition
<1>7. Size(h) = ThreadsOf(program, mExecution) /\ ClocksFit(mExecution, h, Size(h), i)
    BY <1>2, <1>4, <1>6 DEF ClocksFitUpdated
<1>8. \A point \in NewBacktrackPoints : Added(point) \subseteq AddedToBacktrack(point.index)
    BY DEF AddedToBacktrack
<1> QED
    BY <1>2, <1>3, <1>5, <1>7, <1>8

\* update_state adds a thread of the front to the state before every race of its
\* transition.
LEMMA RaceIsReversed ==
    ASSUME ValidPrograms, sufficient_set_t = "Source", ClockInv, ClockInv', DporUpdateTransition,
           NEW e \in Seq(Transitions), NEW i \in 1 .. Len(e), NEW n \in DirectlyBefore(e, i),
           i = index, \A j \in 1 .. i : e[j] = mExecution[j], n \in 1 .. i - 1
    PROVE  sufficient'[n].backtrack \cap FrontThreads(e, n, i) # {}
<1>1. PICK h : h = UpdatedHB
    OBVIOUS
<1>2. /\ mExecution \in Seq(Transitions) /\ i \in 1 .. Len(mExecution)
      /\ ClocksFit(mExecution, h, Size(h), i)
      /\ \A point \in NewBacktrackPoints : Added(point) \subseteq AddedToBacktrack(point.index)
    BY <1>1, UpdateAdds
<1>3. n \in DirectlyBefore(mExecution, i) /\ FrontThreads(e, n, i) = FrontThreads(mExecution, n, i)
    BY <1>2, RacesOfPrefix
<1>4. PICK point : point = [tid |-> mExecution[i].instr.tid, index |-> n]
    OBVIOUS
<1>5. /\ point \in SourceBacktrackPoints(mExecution, h, i)
      /\ (sufficient[n].backtrack \cup AddedBySource(mExecution, h, sufficient, i, point))
             \cap FrontThreads(mExecution, n, i) # {}
    BY <1>2, <1>3, <1>4, SourceIsAdded
<1>6. AddedBySource(mExecution, h, sufficient, i, point) \subseteq AddedToBacktrack(n)
    <2>1. point \in NewBacktrackPoints /\ point.index = n
        BY <1>1, <1>4, <1>5 DEF NewBacktrackPoints
    <2>2. Added(point) = AddedBySource(mExecution, h, sufficient, i, point)
        BY <1>1 DEF Added
    <2> QED
        BY <1>2, <2>1, <2>2
<1>7. sufficient'[n].backtrack = sufficient[n].backtrack \cup AddedToBacktrack(n)
    <2>1. DporInv /\ n \in 1 .. index
        BY DEF ClockInv
    <2> QED
        BY <2>1, UpdateIs
<1> QED
    BY <1>3, <1>5, <1>6, <1>7

\* RacesAreReversed, over all actions.
LEMMA RacesAreReversedStep ==
    ASSUME ValidPrograms, sufficient_set_t = "Source", ClockInv, ClockInv', BranchIsLogged,
           RacesAreReversed, [DporNext]_dporVars
    PROVE  RacesAreReversed'
<1> SUFFICES ASSUME phase' \in Running, failures' = 0,
                    NEW e \in ExecutionsOf(program'), NEW i \in 1 .. Len(e), NEW n \in DirectlyBefore(e, i),
                    UpdatedFrom(e, n, i)'
             PROVE  sufficient'[n].backtrack \cap FrontThreads(e, n, i) # {}
    BY DEF RacesAreReversed
<1>1. DporInv /\ program' \in Programs
    BY DEF ClockInv, DporInv, Inv, TypeOK
<1>2. e \in Seq(Transitions)
    BY <1>1, ExecutionsAre
<1>3. n \in 1 .. i - 1
    <2>1. Before(e)[i] \subseteq 1 .. i - 1
        BY <1>2, BeforeIsEarlier
    <2> QED
        BY <2>1 DEF DirectlyBefore
<1>4. /\ UNCHANGED program
      /\ \/ Remains(e, n, i)
         \/ /\ DporUpdateTransition
            /\ n \in 1 .. index /\ i = index /\ \A j \in 1 .. i : e[j] = mExecution[j]
    BY <1>1, <1>3, RemainStep
<1>5. CASE Remains(e, n, i)
    <2>1. sufficient[n].backtrack \cap FrontThreads(e, n, i) # {}
        BY <1>4, <1>5 DEF RacesAreReversed, Remains
    <2> QED
        BY <1>5, <2>1 DEF Remains, KeepsState
<1>6. CASE DporUpdateTransition /\ i = index /\ \A j \in 1 .. i : e[j] = mExecution[j]
    BY <1>2, <1>3, <1>6, RaceIsReversed
<1> QED
    BY <1>4, <1>5, <1>6

\* update_state adds a thread that leads to its transition to the state before the last
\* race of it, or all that are enabled there.
LEMMA LastRaceIsTaken ==
    ASSUME ValidPrograms, sufficient_set_t = "Persistent", ClockInv, ClockInv', DporUpdateTransition,
           NeverWaits(program),
           NEW e \in Seq(Transitions), NEW i \in 1 .. Len(e), NEW n \in 1 .. i - 1, IsLastRace(e, n, i),
           i = index, \A j \in 1 .. i : e[j] = mExecution[j]
    PROVE  \/ sufficient'[n].backtrack \cap
                  (LeadingThreads(e, n, i) \ (sufficient'[n].sleep \ dfsState'[n])) # {}
           \/ Enabled(program, e[n].pre) \subseteq sufficient'[n].backtrack
<1>1. PICK h : h = UpdatedHB
    OBVIOUS
<1>2. /\ program \in Programs /\ mExecution \in Seq(Transitions) /\ IsExecution(program, mExecution)
      /\ i \in 1 .. Len(mExecution)
      /\ Size(h) = ThreadsOf(program, mExecution)
      /\ ClocksFit(mExecution, h, Size(h), i)
      /\ \A point \in NewBacktrackPoints : Added(point) \subseteq AddedToBacktrack(point.index)
    BY <1>1, UpdateAdds
<1>3. /\ IsLastRace(mExecution, n, i)
      /\ LeadingThreads(e, n, i) = LeadingThreads(mExecution, n, i)
      /\ e[n] = mExecution[n]
    BY <1>2, LastRaceOfPrefix
<1>4. PICK point : point = [tid |-> mExecution[i].instr.tid, index |-> n]
    OBVIOUS
<1>5. PICK added : added = AddedByPoint(program, mExecution, h, sufficient, point)
    OBVIOUS
<1>6. /\ point \in BacktrackPoints(program, mExecution, h, i)
      /\ \/ added \cap (LeadingThreads(mExecution, n, i) \ sufficient[n].sleep) # {}
         \/ Enabled(program, mExecution[n].pre) \subseteq added
    BY <1>2, <1>3, <1>4, <1>5, PointIsTaken
<1>7. added \subseteq AddedToBacktrack(n)
    <2>1. point \in NewBacktrackPoints /\ point.index = n
        BY <1>1, <1>4, <1>6 DEF NewBacktrackPoints
    <2>2. Added(point) = added
        BY <1>1, <1>5 DEF Added
    <2> QED
        BY <1>2, <2>1, <2>2
<1>8. /\ sufficient'[n].backtrack = sufficient[n].backtrack \cup AddedToBacktrack(n)
      /\ sufficient'[n].sleep = sufficient[n].sleep
    <2>1. DporInv /\ n \in 1 .. index
        BY DEF ClockInv
    <2> QED
        BY <2>1, UpdateIs
<1> QED
    BY <1>3, <1>6, <1>7, <1>8

\* PointsAreTaken, over all actions.
LEMMA PointsAreTakenStep ==
    ASSUME WaitFreePrograms, sufficient_set_t = "Persistent", ClockInv, ClockInv', BranchIsLogged,
           PointsAreTaken, [DporNext]_dporVars
    PROVE  PointsAreTaken'
<1> SUFFICES ASSUME phase' \in Running, failures' = 0,
                    NEW e \in ExecutionsOf(program'), NEW i \in 1 .. Len(e), NEW n \in 1 .. i - 1,
                    IsLastRace(e, n, i), UpdatedFrom(e, n, i)'
             PROVE  \/ sufficient'[n].backtrack \cap
                           (LeadingThreads(e, n, i) \ (sufficient'[n].sleep \ dfsState'[n])) # {}
                    \/ Enabled(program', e[n].pre) \subseteq sufficient'[n].backtrack
    BY DEF PointsAreTaken
<1>1. DporInv /\ program \in Programs /\ program' \in Programs /\ ValidPrograms
    BY DEF ClockInv, DporInv, Inv, TypeOK, ValidPrograms
<1>2. e \in Seq(Transitions) /\ NeverWaits(program)
    BY <1>1, ExecutionsAre DEF WaitFreePrograms, NeverWaits
<1>3. /\ UNCHANGED program
      /\ \/ Remains(e, n, i)
         \/ /\ DporUpdateTransition
            /\ n \in 1 .. index /\ i = index /\ \A j \in 1 .. i : e[j] = mExecution[j]
    BY <1>1, RemainStep
<1>4. CASE Remains(e, n, i)
    <2>1. \/ sufficient[n].backtrack \cap
                 (LeadingThreads(e, n, i) \ (sufficient[n].sleep \ dfsState[n])) # {}
          \/ Enabled(program, e[n].pre) \subseteq sufficient[n].backtrack
        BY <1>3, <1>4 DEF PointsAreTaken, Remains
    <2> QED
        BY <1>3, <1>4, <2>1 DEF Remains, KeepsState
<1>5. CASE DporUpdateTransition /\ i = index /\ \A j \in 1 .. i : e[j] = mExecution[j]
    <2>1. \/ sufficient'[n].backtrack \cap
                 (LeadingThreads(e, n, i) \ (sufficient'[n].sleep \ dfsState'[n])) # {}
          \/ Enabled(program, e[n].pre) \subseteq sufficient'[n].backtrack
        BY <1>1, <1>2, <1>5, LastRaceIsTaken
    <2> QED
        BY <1>3, <2>1
<1> QED
    BY <1>3, <1>4, <1>5

-----------------------------------------------------------------------------
(* What is done has been explored *)

\* The threads of a program never wait once an execution of it has been accepted.
LEMMA NeverWaitsThen ==
    ASSUME WaitFreePrograms, DporInv, phase \in {"update", "backtrack"}
    PROVE  program \in Programs /\ NeverWaits(program)
BY SufficientSetAssumption DEF DporInv, CheckIsEnough, Inv, TypeOK, WaitFreePrograms, NeverWaits

\* Programs whose threads never wait are valid ones.
LEMMA WaitFreeIsValid == WaitFreePrograms => ValidPrograms
BY SufficientSetAssumption DEF WaitFreePrograms, ValidPrograms

\* What has been explored stays explored, as long as the branch is not left.
LEMMA RepresentativesStay ==
    ASSUME program' = program, schedules \subseteq schedules',
           NEW n \in Nat, n <= Len(mExecution), n <= Len(mExecution'),
           \A i \in 1 .. n : mExecution'[i] = mExecution[i],
           NEW e, NEW f \in Representatives(e, n)
    PROVE  f \in Representatives(e, n)'
BY DEF Representatives, Share

\* A thread that can come first after a transition that does not wake it up can come
\* first before it.
LEMMA FirstOfNext ==
    ASSUME NEW p \in Programs, NeverWaits(p), NEW v \in CompleteExecutions(p), NEW n \in 1 .. Len(v),
           NEW t, CanComeFirst(v, n + 1, t), ~ Wakes(p, v[n], t)
    PROVE  CanComeFirst(v, n, t)
<1>1. v \in Seq(Transitions) /\ IsExecution(p, v) /\ Len(v) \in Nat
    BY CompleteIs
<1>2. PICK x \in n + 1 .. Len(v) : /\ v[x].instr.tid = t
                                   /\ \A j \in n + 1 .. x - 1 : ~ Dependent(v[j].instr, v[x].instr)
    BY DEF CanComeFirst
<1>3. x \in 1 .. Len(v) /\ n + 1 \in 1 .. x /\ n + 1 \in n + 1 .. x /\ n + 1 \in 1 .. Len(v)
    BY <1>1, <1>2
<1>4. Pauses(v, n + 1, x, v[x].instr.tid)
    BY <1>2 DEF Pauses, Dependent, SameThread
<1>5. t \in Enabled(p, v[n + 1].pre) /\ NextInstr(p, v[n + 1].pre, t) = v[x].instr
    BY <1>1, <1>2, <1>3, <1>4, AheadIs
<1>6. v[n + 1].pre = v[n].post
    <2>1. n < n + 1
        BY <1>1
    <2> QED
        BY <1>1, <1>3, <2>1, LaterIsFurther
<1>7. HasNext(p, v[n].post, t) /\ NextInstr(p, v[n].post, t) = v[x].instr
    BY <1>5, <1>6 DEF Enabled, IsEnabled
<1>8. ~ Dependent(v[n].instr, v[x].instr)
    BY <1>7 DEF Wakes
<1>9. ASSUME NEW j \in n .. x - 1
      PROVE  ~ Dependent(v[j].instr, v[x].instr)
    <2>1. j = n \/ j \in n + 1 .. x - 1
        BY <1>3
    <2> QED
        BY <1>2, <1>8, <2>1
<1>10. x \in n .. Len(v)
    BY <1>1, <1>3
<1> QED
    BY <1>2, <1>9, <1>10 DEF CanComeFirst

\* When the search leaves a state, what the thread that brought it there can start has
\* been explored from the state before.
LEMMA LastIsExplored ==
    ASSUME WaitFreePrograms, DporInv, SleepIsInherited, LeftIsCovered,
           phase = "backtrack", failures = 0,
           NEW n \in Nat \ {0}, n = Len(mExecution), NEW e \in CompleteExecutions(program),
           Share(e, mExecution, n - 1), CanComeFirst(e, n, mExecution[n].instr.tid),
           \A t \in sufficient[n].sleep : ~ CanComeFirst(e, n, t)
    PROVE  \E f \in Representatives(e, n - 1) : f[n].instr.tid = mExecution[n].instr.tid
<1>1. /\ program \in Programs /\ NeverWaits(program)
      /\ mExecution \in Seq(Transitions) /\ IsExecution(program, mExecution)
      /\ Len(sufficient) = n + 1
    BY NeverWaitsThen DEF DporInv, Inv, TypeOK, ExecutionsAreValid, SearchIsAligned
<1>2. PICK d : d = mExecution[n].instr.tid
    OBVIOUS
<1>3. e \in Seq(Transitions) /\ IsExecution(program, e) /\ Len(e) \in Nat
    BY <1>1, CompleteIs
<1>4. PICK m \in n .. Len(e) : /\ e[m].instr.tid = d
                               /\ \A j \in n .. m - 1 : ~ Dependent(e[j].instr, e[m].instr)
    BY <1>2 DEF CanComeFirst
<1>5. m \in 1 .. Len(e) /\ n \in 1 .. m
    BY <1>3, <1>4
<1>6. PICK v : v = Advanced(program, e, n, m)
    OBVIOUS
<1>7. Pauses(e, n, m, e[m].instr.tid) /\ TraceOf(v) = TraceOf(e)
    BY <1>1, <1>3, <1>4, <1>5, <1>6, AdvancedTrace
<1>8. /\ v \in CompleteExecutions(program) /\ Len(v) = Len(e)
      /\ Share(v, e, n - 1) /\ v[n].instr.tid = d
    BY <1>1, <1>4, <1>5, <1>6, <1>7, AdvancedIsComplete
<1>9. v \in Seq(Transitions) /\ IsExecution(program, v)
    BY <1>1, <1>8, CompleteIs
<1>10. n \in 1 .. Len(v) /\ n \in 1 .. Len(mExecution)
    BY <1>3, <1>5, <1>8
<1>11. v[n] = mExecution[n] /\ Share(v, mExecution, n)
    <2>1. \A i \in 1 .. n - 1 : v[i] = mExecution[i]
        BY <1>8 DEF Share
    <2>2. PICK x : x = mExecution
        OBVIOUS
    <2>3. /\ IsExecution(program, v) /\ IsExecution(program, x)
          /\ n \in 1 .. Len(v) /\ n \in 1 .. Len(x)
          /\ \A i \in 1 .. n - 1 : v[i] = x[i]
          /\ v[n].instr.tid = x[n].instr.tid
        BY <1>1, <1>2, <1>8, <1>9, <1>10, <2>1, <2>2
    <2>4. v[n] = x[n]
        BY ONLY <2>3, SameThreadSameTransition
    <2> QED
        BY <1>10, <2>1, <2>2, <2>4 DEF Share
<1>12. NoSleeperFirst(v, n + 1)
    <2> SUFFICES ASSUME NEW t \in sufficient[n + 1].sleep \ dfsState[n + 1], CanComeFirst(v, n + 1, t)
                 PROVE  FALSE
        BY DEF NoSleeperFirst
    <2>1. t \in WakeUp(sufficient[n].sleep, mExecution[n].instr, program, mExecution[n].post)
        <3>1. n + 1 \in 1 .. Len(sufficient) /\ n + 1 # 1 /\ (n + 1) - 1 = n
            BY <1>1
        <3>2. phase \in Running \cup {"done"}
            BY DEF Running
        <3>3. sufficient[n + 1].sleep \ dfsState[n + 1] \subseteq
                  WakeUp(sufficient[(n + 1) - 1].sleep, mExecution[(n + 1) - 1].instr, program,
                         mExecution[(n + 1) - 1].post)
            BY <3>1, <3>2 DEF SleepIsInherited
        <3> QED
            BY <3>1, <3>3
    <2>2. t \in sufficient[n].sleep /\ ~ Wakes(program, v[n], t)
        BY <1>11, <2>1 DEF WakeUp, Wakes
    <2>3. CanComeFirst(v, n, t)
        BY <1>1, <1>8, <1>10, <2>2, FirstOfNext
    <2>4. CanComeFirst(e, n, t)
        BY <1>1, <1>3, <1>7, <1>8, <1>9, <2>3, FirstOfTrace
    <2> QED
        BY <2>2, <2>4
<1>13. PICK f : f \in Representatives(v, n)
    BY <1>8, <1>11, <1>12 DEF LeftIsCovered
<1>14. f \in Representatives(e, n - 1) /\ f[n].instr.tid = mExecution[n].instr.tid
    <2>1. n \in 1 .. n /\ n - 1 <= n /\ n - 1 \in Nat
        OBVIOUS
    <2> QED
        BY <1>7, <1>13, <2>1 DEF Representatives, Share
<1> QED
    BY <1>14

\* After the next record is read the done threads are those of the states that are kept.
LEMMA DoneRead ==
    ASSUME DporInv, DoneIsCovered, DporReadRecord
    PROVE  DoneIsCovered'
<1>1. PICK m : m = Len(mExecution)
    OBVIOUS
<1>2. /\ phase = "read" /\ m \in Nat
      /\ UNCHANGED <<program, failures, sufficient, dfsState>>
      /\ Len(mExecution') >= m /\ Len(mExecution') \in Nat
      /\ \A i \in 1 .. m : mExecution'[i] = mExecution[i]
      /\ schedules \subseteq schedules'
      /\ Len(dfsState) = m + 1
    BY <1>1, ReadIs
<1> SUFFICES ASSUME failures = 0,
                    NEW k \in 1 .. m + 1, NEW e \in CompleteExecutions(program),
                    Share(e, mExecution', k - 1), NoSleeperFirst(e, k),
                    \E t \in dfsState[k] : CanComeFirst(e, k, t)
             PROVE  \E f \in Representatives(e, k - 1)' : f[k].instr.tid \in dfsState[k]
    BY <1>2 DEF DoneIsCovered, NoSleeperFirst
<1>3. k - 1 \in Nat /\ k - 1 <= m /\ k - 1 <= Len(mExecution') /\ \A i \in 1 .. k - 1 : i \in 1 .. m
    BY <1>2
<1>4. Share(e, mExecution, k - 1)
    BY <1>1, <1>2, <1>3 DEF Share
<1>5. PICK f \in Representatives(e, k - 1) : f[k].instr.tid \in dfsState[k]
    BY <1>2, <1>4 DEF DoneIsCovered, Running
<1>6. f \in Representatives(e, k - 1)'
    BY <1>1, <1>2, <1>3, RepresentativesStay
<1> QED
    BY <1>5, <1>6

\* update_state adds a state with no thread done in it.
LEMMA DoneUpdate ==
    ASSUME ValidPrograms, DporInv, DoneIsCovered, DporUpdateTransition
    PROVE  DoneIsCovered'
<1>1. PICK m : m = index
    OBVIOUS
<1>2. /\ phase = "update" /\ m \in Nat \ {0}
      /\ UNCHANGED <<program, failures, mExecution, schedules>>
      /\ Len(dfsState) = m /\ Len(dfsState') = m + 1
      /\ \A k \in 1 .. m : /\ sufficient'[k].sleep = sufficient[k].sleep
                           /\ dfsState'[k] = dfsState[k]
      /\ dfsState'[m + 1] = {}
    BY <1>1, UpdateIs
<1> SUFFICES ASSUME failures = 0,
                    NEW k \in 1 .. m + 1, NEW e \in CompleteExecutions(program),
                    Share(e, mExecution, k - 1), NoSleeperFirst(e, k)',
                    \E t \in dfsState'[k] : CanComeFirst(e, k, t)
             PROVE  \E f \in Representatives(e, k - 1)' : f[k].instr.tid \in dfsState'[k]
    BY <1>2 DEF DoneIsCovered
<1>3. k \in 1 .. m
    BY <1>2
<1>4. NoSleeperFirst(e, k)
    BY <1>2, <1>3 DEF NoSleeperFirst
<1>5. PICK f \in Representatives(e, k - 1) : f[k].instr.tid \in dfsState[k]
    BY <1>2, <1>3, <1>4 DEF DoneIsCovered, Running
<1>6. Representatives(e, k - 1)' = Representatives(e, k - 1)
    BY <1>2 DEF Representatives
<1> QED
    BY <1>2, <1>3, <1>5, <1>6

\* The thread that is added to the done set took the search to the state it has just
\* left, from where all has been explored.
LEMMA DonePop ==
    ASSUME WaitFreePrograms, DporInv, TraceInv, SleepIsInherited,
           DoneIsCovered, LeftIsCovered, PopBack, sufficient' = PoppedSufficient
    PROVE  DoneIsCovered'
<1>1. PICK n : n = Len(mExecution)
    OBVIOUS
<1>2. /\ phase = "backtrack" /\ UNCHANGED <<program, failures, schedules>>
      /\ n \in Nat \ {0} /\ Len(mExecution') = n - 1
      /\ \A i \in 1 .. n - 1 : mExecution'[i] = mExecution[i]
      /\ Len(sufficient) = n + 1 /\ Len(dfsState) = n + 1 /\ Len(dfsState') = n
      /\ \A k \in 1 .. n - 1 : /\ sufficient'[k].sleep = sufficient[k].sleep
                               /\ dfsState'[k] = dfsState[k]
      /\ sufficient'[n].sleep = sufficient[n].sleep \cup {mExecution[n].instr.tid}
      /\ dfsState'[n] = dfsState[n] \cup {mExecution[n].instr.tid}
    BY <1>1, PopIs
<1> SUFFICES ASSUME failures = 0,
                    NEW k \in 1 .. n, NEW e \in CompleteExecutions(program),
                    Share(e, mExecution', k - 1), NoSleeperFirst(e, k)',
                    NEW t \in dfsState'[k], CanComeFirst(e, k, t)
             PROVE  \E f \in Representatives(e, k - 1)' : f[k].instr.tid \in dfsState'[k]
    BY <1>2 DEF DoneIsCovered
<1>3. /\ k - 1 \in Nat /\ k - 1 <= Len(mExecution) /\ k - 1 <= Len(mExecution')
      /\ \A i \in 1 .. k - 1 : mExecution'[i] = mExecution[i]
      /\ k = n \/ k \in 1 .. n - 1
      /\ k \in 1 .. Len(dfsState)
    BY <1>1, <1>2
<1>4. Share(e, mExecution, k - 1)
    BY <1>3 DEF Share
<1>5. mExecution[n].instr.tid \notin sufficient[n].sleep
    <2>1. n \in 1 .. Len(mExecution) /\ n <= Len(sufficient)
        BY <1>1, <1>2
    <2> QED
        BY <1>2, <2>1 DEF TraceInv, BranchIsAwake, Running
<1>6. NoSleeperFirst(e, k)
    BY <1>2, <1>3, <1>5 DEF NoSleeperFirst
<1>7. CASE \E u \in dfsState[k] : CanComeFirst(e, k, u)
    <2>1. PICK f \in Representatives(e, k - 1) : f[k].instr.tid \in dfsState[k]
        BY <1>2, <1>3, <1>4, <1>6, <1>7 DEF DoneIsCovered, Running
    <2>2. f \in Representatives(e, k - 1)'
        BY <1>2, <1>3, RepresentativesStay
    <2>3. dfsState[k] \subseteq dfsState'[k]
        BY <1>2, <1>3
    <2> QED
        BY <2>1, <2>2, <2>3
<1>8. CASE ~ \E u \in dfsState[k] : CanComeFirst(e, k, u)
    <2>1. k = n /\ t = mExecution[n].instr.tid
        BY <1>2, <1>3, <1>8
    <2>2. \A u \in sufficient[n].sleep : ~ CanComeFirst(e, n, u)
        BY <1>6, <1>8, <2>1 DEF NoSleeperFirst
    <2>3. PICK f \in Representatives(e, n - 1) : f[n].instr.tid = mExecution[n].instr.tid
        BY <1>1, <1>2, <1>4, <2>1, <2>2, LastIsExplored
    <2>4. f \in Representatives(e, k - 1)'
        BY <1>2, <1>3, <2>1, <2>3, RepresentativesStay
    <2> QED
        BY <1>2, <2>1, <2>3, <2>4
<1> QED
    BY <1>7, <1>8

\* DoneIsCovered, over all actions.
LEMMA DoneIsCoveredStep ==
    ASSUME WaitFreePrograms, DporInv, TraceInv, SleepIsInherited,
           DoneIsCovered, LeftIsCovered, [DporNext]_dporVars
    PROVE  DoneIsCovered'
<1>1. CASE QuietStep
    <2>1. /\ phase' \in Running => phase \in Running
          /\ failures' = 0 => failures = 0
        BY SearchGoesOn
    <2> QED
        BY <1>1, <2>1 DEF QuietStep, QuietVars, DoneIsCovered, Representatives, NoSleeperFirst
<1>2. CASE DporScheduleNext \/ DporBacktrackFurther
    <2>1. PopBack /\ sufficient' = PoppedSufficient
        BY <1>2 DEF DporScheduleNext, DporBacktrackFurther, ScheduleNext, BacktrackFurther, DporPopBack
    <2> QED
        BY <2>1, DonePop
<1>3. CASE phase' = "invalid"
    BY <1>3 DEF DoneIsCovered, Running
<1> QED
    BY <1>1, <1>2, <1>3, WaitFreeIsValid, CoverageStepKinds, DoneRead, DoneUpdate

-----------------------------------------------------------------------------
(* What the search leaves has been explored *)

\* At the end of an update either the execution is complete, or all that goes on from
\* it is asleep.
LEMMA LeftFinish ==
    ASSUME DporInv, SleepInv, RunsAreComplete, BranchIsLogged, DoneIsCovered,
           FinishUpdate, UNCHANGED QuietVars
    PROVE  LeftIsCovered'
<1>1. PICK n : n = Len(mExecution)
    OBVIOUS
<1>2. /\ phase = "update" /\ index > n /\ UNCHANGED <<program, failures, mExecution, dfsState>>
      /\ UNCHANGED <<sufficient, schedules>>
    BY <1>1 DEF FinishUpdate, QuietVars
<1>3. /\ mExecution \in Seq(Transitions) /\ IsExecution(program, mExecution) /\ n \in Nat
      /\ program \in Programs
      /\ mSchedule = ScheduleOf(mExecution) /\ index = n + 1
      /\ Len(dfsState) = n + 1 /\ Len(sufficient) = n + 1 /\ from \in 1 .. n + 1
    BY <1>1, <1>2 DEF DporInv, Inv, TypeOK, SearchIsAligned, ExecutionsAreValid
<1> SUFFICES ASSUME failures = 0, NEW e \in CompleteExecutions(program),
                    Share(e, mExecution, n), NoSleeperFirst(e, n + 1)
             PROVE  Representatives(e, n) # {}
    BY <1>1, <1>2 DEF LeftIsCovered, Representatives, NoSleeperFirst
<1>4. e \in Seq(Transitions) /\ IsExecution(program, e) /\ Len(e) \in Nat
    BY <1>3, ExecutionsAre DEF CompleteExecutions
<1>5. n <= Len(e) /\ \A i \in 1 .. n : e[i] = mExecution[i]
    BY DEF Share
<1>6. CASE Len(e) = n
    <2>1. e = mExecution
        BY <1>1, <1>3, <1>4, <1>5, <1>6
    <2>2. ScheduleOf(e) \in schedules
        BY <1>2, <1>3, <2>1 DEF BranchIsLogged
    <2> QED
        BY <2>2 DEF Representatives
<1>7. CASE Len(e) > n
    <2>1. n + 1 \in 1 .. Len(e)
        BY <1>3, <1>4, <1>7
    <2>2. PICK t : t = e[n + 1].instr.tid
        OBVIOUS
    <2>3. t \in Enabled(program, Final(mExecution))
        <3>1. e[n + 1] = TransitionFrom(program, Final(mExecution), t)
            BY <1>1, <1>3, <1>4, <1>5, <1>7, <2>2, SameTransition
        <3>2. e[n + 1].pre = Final(mExecution)
            BY <3>1 DEF TransitionFrom
        <3> QED
            BY <1>4, <2>1, <2>2, <3>2, TransitionIs
    <2>4. record.status = "BLOCKED"
        BY <1>2, <2>3 DEF RunsAreComplete
    <2>5. t \in sufficient[n + 1].sleep
        <3>1. Enabled(program, Final(mExecution)) \subseteq SleepAlong(mExecution, n + 1)
            BY <1>1, <1>2, <2>4 DEF SleepInv, EndsAsleep
        <3>2. n + 1 \in from .. Len(sufficient)
            BY <1>3
        <3>3. sufficient[n + 1].sleep = SleepAlong(mExecution, n + 1)
            BY <1>2, <3>2 DEF SleepInv
        <3> QED
            BY <2>3, <3>1, <3>3
    <2>6. CanComeFirst(e, n + 1, t)
        <3>1. n + 1 \in n + 1 .. Len(e) /\ (n + 1) .. (n + 1) - 1 = {}
            BY <1>3, <1>4, <2>1
        <3> QED
            BY <2>2, <3>1 DEF CanComeFirst
    <2>7. t \in dfsState[n + 1]
        BY <2>5, <2>6 DEF NoSleeperFirst
    <2>8. n + 1 \in 1 .. Len(dfsState) /\ (n + 1) - 1 = n
        BY <1>3
    <2>9. \E f \in Representatives(e, (n + 1) - 1) : f[n + 1].instr.tid \in dfsState[n + 1]
        BY <1>2, <2>6, <2>7, <2>8 DEF DoneIsCovered, Running
    <2> QED
        BY <2>8, <2>9
<1> QED
    BY <1>3, <1>4, <1>5, <1>6, <1>7

\* Executions with the same beginning are in the same state after it.
LEMMA SameStateAfter ==
    ASSUME NEW p, NEW e \in Seq(Transitions), IsExecution(p, e),
           NEW f \in Seq(Transitions), IsExecution(p, f),
           NEW n, n \in 1 .. Len(e), n \in 1 .. Len(f), Share(e, f, n - 1)
    PROVE  e[n].pre = f[n].pre
<1>1. e[n].pre = StateBefore(e, n) /\ f[n].pre = StateBefore(f, n)
    BY PreIsStateBefore
<1>2. n # 1 => e[n - 1] = f[n - 1]
    <2>1. n # 1 => n - 1 \in 1 .. n - 1
        OBVIOUS
    <2> QED
        BY <2>1 DEF Share
<1> QED
    BY <1>1, <1>2 DEF StateBefore

\* The last thread of the branch is enabled in every complete execution that comes along
\* the branch up to there.
LEMMA BranchGoesOn ==
    ASSUME DporInv, NEW n \in Nat \ {0}, n = Len(mExecution),
           NEW e \in CompleteExecutions(program), Share(e, mExecution, n - 1)
    PROVE  n \in 1 .. Len(e) /\ mExecution[n].instr.tid \in Enabled(program, e[n].pre)
<1>1. /\ program \in Programs /\ mExecution \in Seq(Transitions) /\ IsExecution(program, mExecution)
      /\ n \in 1 .. Len(mExecution) /\ n - 1 \in Nat
    BY DEF DporInv, Inv, TypeOK, ExecutionsAreValid
<1>2. /\ e \in Seq(Transitions) /\ IsExecution(program, e) /\ Len(e) \in Nat
      /\ Enabled(program, Final(e)) = {}
    BY <1>1, ExecutionsAre DEF CompleteExecutions
<1>3. mExecution[n].instr.tid \in Enabled(program, mExecution[n].pre)
    BY <1>1, TransitionIs
<1>4. n \in 1 .. Len(e)
    <2> SUFFICES ASSUME Len(e) = n - 1
                 PROVE  FALSE
        BY <1>1, <1>2 DEF Share
    <2>1. \A i \in 1 .. Len(e) : e[i] = mExecution[i]
        BY DEF Share
    <2>2. Len(e) < Len(mExecution) /\ Len(e) + 1 = n
        BY <1>1, <1>2
    <2>3. TransitionFrom(program, Final(e), mExecution[n].instr.tid) = mExecution[n]
        BY <1>1, <1>2, <2>1, <2>2, SameTransition
    <2>4. mExecution[n].pre = Final(e)
        BY <2>3 DEF TransitionFrom
    <2> QED
        BY <1>2, <1>3, <2>4
<1>5. e[n].pre = mExecution[n].pre
    BY <1>1, <1>2, <1>4, SameStateAfter
<1> QED
    BY <1>3, <1>4, <1>5

\* The execution e goes on from the state after n - 1 transitions, and when the search
\* leaves that state, no thread that is done or asleep there can come first in e.
NobodyStarts(e, n) ==
    /\ Share(e, mExecution, n - 1)
    /\ NoSleeperFirst(e, n)'
    /\ \A t \in dfsState'[n] : ~ CanComeFirst(e, n, t)

\* The search has gone along every order of v that it has explored from that state, if v
\* puts a done thread first and otherwise only such as could come first in e.
LEMMA PutFirstIsExplored ==
    ASSUME DporInv, NeverWaits(program), DoneIsCovered', PopBack, sufficient' = PoppedSufficient,
           UNCHANGED phase, failures = 0, NEW n \in Nat \ {0}, n = Len(mExecution),
           NEW e \in CompleteExecutions(program), NobodyStarts(e, n),
           NEW d \in dfsState'[n], NEW v, PutsFirst(program, e, n, d, v)
    PROVE  \E f \in CompleteExecutions(program) :
               /\ TraceOf(f) = TraceOf(v) /\ Share(f, e, n - 1) /\ f[n].instr.tid = d
               /\ n \in 1 .. Len(f)
               /\ \A i \in 1 .. Len(f) : UpdatedFrom(f, n, i)
<1>1. /\ phase = "backtrack" /\ UNCHANGED <<program, failures, schedules>>
      /\ Len(mExecution') = n - 1
      /\ \A i \in 1 .. n - 1 : mExecution'[i] = mExecution[i]
      /\ Len(sufficient) = n + 1 /\ Len(sufficient') = n /\ Len(dfsState') = n
    BY PopIs
<1>2. program \in Programs
    BY DEF DporInv, Inv, TypeOK
<1>3. /\ Share(e, mExecution, n - 1) /\ NoSleeperFirst(e, n)'
      /\ \A t \in dfsState'[n] : ~ CanComeFirst(e, n, t)
    BY DEF NobodyStarts
<1>4. /\ v \in CompleteExecutions(program) /\ Share(v, e, n - 1) /\ CanComeFirst(v, n, d)
      /\ \A t \in Tids : t # d /\ CanComeFirst(v, n, t) => CanComeFirst(e, n, t)
    BY DEF PutsFirst
<1>5. Share(v, mExecution', n - 1)
    BY <1>1, <1>3, <1>4 DEF Share
<1>6. NoSleeperFirst(v, n)'
    <2>1. sufficient'[n].sleep \subseteq Tids
        <3>1. sufficient' \in Seq(SufficientSets) /\ n \in 1 .. Len(sufficient')
            BY <1>1, PoppedSufficientIs
        <3>2. sufficient'[n] \in SufficientSets
            BY <3>1, ElementOfSeq
        <3> QED
            BY <3>2 DEF SufficientSets
    <2> QED
        BY <1>3, <1>4, <2>1 DEF NoSleeperFirst
<1>7. PICK f \in Representatives(v, n - 1)' : f[n].instr.tid \in dfsState'[n]
    <2>1. n \in 1 .. Len(dfsState') /\ phase' \in Running /\ failures' = 0
        BY <1>1 DEF Running
    <2> QED
        BY <1>1, <1>4, <1>5, <1>6, <2>1 DEF DoneIsCovered
<1>8. /\ f \in CompleteExecutions(program) /\ ScheduleOf(f) \in schedules
      /\ TraceOf(f) = TraceOf(v) /\ Share(f, mExecution', n - 1)
    BY <1>1, <1>7 DEF Representatives
<1>9. Share(f, e, n - 1) /\ Share(f, mExecution, n - 1)
    BY <1>1, <1>3, <1>8 DEF Share
<1>10. /\ f \in Seq(Transitions) /\ IsExecution(program, f) /\ Len(f) \in Nat
       /\ v \in Seq(Transitions) /\ IsExecution(program, v)
    BY <1>2, <1>4, <1>8, CompleteIs
<1>11. Share(f, v, n - 1) /\ Share(v, f, n - 1)
    BY <1>4, <1>9 DEF Share
<1>12. n \in n .. Len(f) /\ n .. n - 1 = {} /\ n \in 1 .. Len(f)
    <2>1. CanComeFirst(f, n, d)
        BY <1>2, <1>4, <1>8, <1>10, <1>11, FirstOfTrace
    <2> QED
        BY <1>10, <2>1 DEF CanComeFirst
<1>13. f[n].instr.tid = d
    <2>1. PICK t : t = f[n].instr.tid
        OBVIOUS
    <2>2. CanComeFirst(f, n, t)
        BY <1>12, <2>1 DEF CanComeFirst
    <2>3. CanComeFirst(v, n, t)
        BY <1>2, <1>8, <1>10, <1>11, <2>2, FirstOfTrace
    <2>4. t \in Tids
        BY <1>10, <1>12, <2>1, ScheduleIs, ElementOfSeq
    <2>5. ~ CanComeFirst(e, n, t)
        BY <1>3, <1>7, <2>1
    <2> QED
        BY <1>4, <2>1, <2>3, <2>4, <2>5
<1>14. ASSUME NEW i \in 1 .. Len(f)
       PROVE  UpdatedFrom(f, n, i)
    <2>1. Len(ScheduleOf(f)) = Len(f) /\ \A j \in 1 .. Len(f) : ScheduleOf(f)[j] = f[j].instr.tid
        BY <1>10, ScheduleIs
    <2>2. i <= Len(ScheduleOf(f)) /\ \A j \in 1 .. i : ScheduleOf(f)[j] = f[j].instr.tid
        BY <1>10, <2>1
    <2>3. WasUpdated(f, i)
        BY <1>1, <1>8, <2>2 DEF WasUpdated
    <2>4. n <= Len(sufficient)
        BY <1>1
    <2> QED
        BY <1>9, <2>3, <2>4 DEF UpdatedFrom
<1> QED
    BY <1>8, <1>9, <1>12, <1>13, <1>14

\* Nothing is left to take when the search goes back further.
LEMMA TakenIsDone ==
    ASSUME DporInv, DporBacktrackFurther, NEW n \in Nat \ {0}, n = Len(mExecution)
    PROVE  /\ PopBack /\ sufficient' = PoppedSufficient /\ UNCHANGED phase
           /\ sufficient[n].backtrack \subseteq sufficient'[n].sleep \cup dfsState'[n]
<1>1. PopBack /\ sufficient' = PoppedSufficient /\ DporUndone = {} /\ UNCHANGED phase
    BY DEF DporBacktrackFurther, BacktrackFurther, DporPopBack
<1>2. /\ Len(sufficient') = n /\ Len(dfsState') = n
      /\ \A k \in 1 .. n : sufficient'[k].backtrack = sufficient[k].backtrack
    BY <1>1, PopIs
<1>3. Last(PoppedSufficient) = sufficient'[n] /\ Last(PoppedDfsState) = dfsState'[n]
    BY <1>1, <1>2 DEF Last, PopBack
<1>4. n \in 1 .. n
    OBVIOUS
<1> QED
    BY <1>1, <1>2, <1>3, <1>4 DEF DporUndone, Undone, Awake

\* Source: putting the last thread of the branch first would show a race that has not
\* been reversed.
LEMMA SourceLeavesNone ==
    ASSUME DporInv, NeverWaits(program), RacesAreReversed, DoneIsCovered', DporBacktrackFurther,
           failures = 0, NEW n \in Nat \ {0}, n = Len(mExecution),
           NEW e \in CompleteExecutions(program), NobodyStarts(e, n)
    PROVE  FALSE
<1>1. PICK d : d = mExecution[n].instr.tid
    OBVIOUS
<1>2. /\ PopBack /\ sufficient' = PoppedSufficient /\ UNCHANGED phase
      /\ sufficient[n].backtrack \subseteq sufficient'[n].sleep \cup dfsState'[n]
    BY TakenIsDone
<1>3. phase = "backtrack" /\ d \in dfsState'[n] /\ program \in Programs
    BY <1>1, <1>2, PopIs DEF DporInv, Inv, TypeOK
<1>4. /\ Share(e, mExecution, n - 1) /\ NoSleeperFirst(e, n)'
      /\ \A t \in dfsState'[n] : ~ CanComeFirst(e, n, t)
    BY DEF NobodyStarts
<1>5. n \in 1 .. Len(e) /\ d \in Enabled(program, e[n].pre)
    BY <1>1, <1>4, BranchGoesOn
<1>6. PICK v : Reverses(program, e, n, d, v)
    BY <1>3, <1>4, <1>5, ReversalExists
<1>7. PICK f \in CompleteExecutions(program) :
          /\ TraceOf(f) = TraceOf(v) /\ Share(f, e, n - 1) /\ f[n].instr.tid = d
          /\ n \in 1 .. Len(f)
          /\ \A i \in 1 .. Len(f) : UpdatedFrom(f, n, i)
    BY <1>2, <1>3, <1>6, PutFirstIsExplored DEF Reverses
<1>8. PICK i \in 1 .. Len(f) : /\ n \in DirectlyBefore(f, i)
                               /\ \A t \in FrontThreads(f, n, i) : CanComeFirst(e, n, t)
    BY <1>6, <1>7 DEF Reverses
<1>9. PICK t \in sufficient[n].backtrack : t \in FrontThreads(f, n, i)
    BY <1>3, <1>7, <1>8 DEF RacesAreReversed, CompleteExecutions, Running
<1> QED
    BY <1>2, <1>4, <1>8, <1>9 DEF NoSleeperFirst

\* Persistent: letting a done thread overtake the others would show a last race for which
\* no thread that leads to it has been taken.
LEMMA PersistentLeavesNone ==
    ASSUME DporInv, NeverWaits(program), PointsAreTaken, DoneIsCovered', DporBacktrackFurther,
           failures = 0, NEW n \in Nat \ {0}, n = Len(mExecution),
           NEW e \in CompleteExecutions(program), NobodyStarts(e, n)
    PROVE  FALSE
<1>1. PICK d0, D : d0 = mExecution[n].instr.tid /\ D = dfsState'[n]
    OBVIOUS
<1>2. /\ PopBack /\ sufficient' = PoppedSufficient /\ UNCHANGED phase
      /\ sufficient[n].backtrack \subseteq sufficient'[n].sleep \cup D
    BY <1>1, TakenIsDone
<1>3. /\ phase = "backtrack" /\ program \in Programs
      /\ d0 \in D /\ dfsState[n] \subseteq D /\ sufficient'[n].sleep = sufficient[n].sleep \cup {d0}
    BY <1>1, <1>2, PopIs DEF DporInv, Inv, TypeOK
<1>4. /\ Share(e, mExecution, n - 1) /\ NoSleeperFirst(e, n)'
      /\ \A t \in D : ~ CanComeFirst(e, n, t)
    BY <1>1 DEF NobodyStarts
<1>5. n \in 1 .. Len(e) /\ d0 \in Enabled(program, e[n].pre)
    BY <1>1, <1>4, BranchGoesOn
<1>6. PICK d \in D : \E v : Overtakes(program, e, n, d, D, v)
    BY <1>3, <1>4, <1>5, OvertakingExists
<1>7. PICK v : Overtakes(program, e, n, d, D, v)
    BY <1>6
<1>8. PICK f \in CompleteExecutions(program) :
          /\ TraceOf(f) = TraceOf(v) /\ Share(f, e, n - 1) /\ f[n].instr.tid = d
          /\ n \in 1 .. Len(f)
          /\ \A i \in 1 .. Len(f) : UpdatedFrom(f, n, i)
    BY <1>1, <1>2, <1>3, <1>7, PutFirstIsExplored DEF Overtakes
<1>9. PICK i \in 1 .. Len(f) : LastRaceAvoids(f, n, i, D)
    BY <1>7, <1>8 DEF Overtakes
<1>10. n \in 1 .. i - 1 /\ IsLastRace(f, n, i) /\ LeadingThreads(f, n, i) \cap D = {}
    BY <1>9 DEF LastRaceAvoids, IsLastRace, LateRaces
<1>11. \/ sufficient[n].backtrack \cap
              (LeadingThreads(f, n, i) \ (sufficient[n].sleep \ dfsState[n])) # {}
       \/ Enabled(program, f[n].pre) \subseteq sufficient[n].backtrack
    BY <1>3, <1>8, <1>10 DEF PointsAreTaken, CompleteExecutions, Running
<1>12. CASE sufficient[n].backtrack \cap
                (LeadingThreads(f, n, i) \ (sufficient[n].sleep \ dfsState[n])) # {}
    BY <1>2, <1>3, <1>10, <1>12
<1>13. CASE Enabled(program, f[n].pre) \subseteq sufficient[n].backtrack
    <2>1. /\ e \in Seq(Transitions) /\ IsExecution(program, e)
          /\ f \in Seq(Transitions) /\ IsExecution(program, f)
        BY <1>3, CompleteIs
    <2>2. f[n].pre = e[n].pre
        BY <1>5, <1>8, <2>1, SameStateAfter
    <2>3. PICK t : t = e[n].instr.tid
        OBVIOUS
    <2>4. t \in Enabled(program, e[n].pre)
        BY <1>5, <2>1, <2>3, TransitionIs
    <2>5. CanComeFirst(e, n, t)
        <3>1. n \in n .. Len(e) /\ n .. n - 1 = {}
            BY <1>5
        <3> QED
            BY <2>3, <3>1 DEF CanComeFirst
    <2> QED
        BY <1>1, <1>2, <1>4, <1>13, <2>2, <2>4, <2>5 DEF NoSleeperFirst
<1> QED
    BY <1>11, <1>12, <1>13

\* When there is nothing left in the backtrack set of a state, all that starts with a
\* thread that is neither done nor asleep there has been explored.
LEMMA LeftFurther ==
    ASSUME WaitFreePrograms, DporInv, DoneIsCovered', DporBacktrackFurther,
           sufficient_set_t = "Source" => RacesAreReversed,
           sufficient_set_t = "Persistent" => PointsAreTaken
    PROVE  LeftIsCovered'
<1>1. PICK n : n = Len(mExecution)
    OBVIOUS
<1>2. PopBack /\ sufficient' = PoppedSufficient /\ UNCHANGED phase
    BY DEF DporBacktrackFurther, BacktrackFurther, DporPopBack
<1>3. /\ phase = "backtrack" /\ UNCHANGED <<program, failures>>
      /\ n \in Nat \ {0} /\ Len(mExecution') = n - 1
      /\ \A i \in 1 .. n - 1 : mExecution'[i] = mExecution[i]
      /\ Len(dfsState') = n
    BY <1>1, <1>2, PopIs
<1>4. NeverWaits(program)
    BY <1>3, NeverWaitsThen
<1> SUFFICES ASSUME failures = 0, NEW e \in CompleteExecutions(program),
                    Share(e, mExecution', n - 1), NoSleeperFirst(e, n)'
             PROVE  Representatives(e, n - 1)' # {}
    <2>1. (n - 1) + 1 = n
        BY <1>3
    <2> QED
        BY <1>2, <1>3, <2>1 DEF LeftIsCovered
<1>5. CASE \E t \in dfsState'[n] : CanComeFirst(e, n, t)
    <2>1. n \in 1 .. Len(dfsState') /\ phase' \in Running /\ failures' = 0
        BY <1>2, <1>3 DEF Running
    <2>2. \E f \in Representatives(e, n - 1)' : f[n].instr.tid \in dfsState'[n]
        BY <1>3, <1>5, <2>1 DEF DoneIsCovered
    <2> QED
        BY <2>2
<1>6. CASE ~ \E t \in dfsState'[n] : CanComeFirst(e, n, t)
    <2>1. Share(e, mExecution, n - 1)
        BY <1>1, <1>3 DEF Share
    <2>2. NobodyStarts(e, n)
        BY <1>6, <2>1 DEF NobodyStarts
    <2>3. CASE sufficient_set_t = "Source"
        BY <1>1, <1>3, <1>4, <2>2, <2>3, SourceLeavesNone
    <2>4. CASE sufficient_set_t = "Persistent"
        BY <1>1, <1>3, <1>4, <2>2, <2>4, PersistentLeavesNone
    <2> QED
        BY <2>3, <2>4, SufficientSetAssumption
<1> QED
    BY <1>5, <1>6

\* LeftIsCovered, over all actions: a run has explored what goes on from its last
\* state, and a state is left when every thread of its backtrack set is done or asleep.
LEMMA LeftIsCoveredStep ==
    ASSUME WaitFreePrograms, DporInv, SleepInv, CoverageInv,
           DoneIsCovered', [DporNext]_dporVars
    PROVE  LeftIsCovered'
<1>1. failures' = 0 => failures = 0
    BY SearchGoesOn
<1>2. CASE phase' \notin {"backtrack", "done"}
    BY <1>2 DEF LeftIsCovered
<1>3. CASE QuietStep
    <2>1. CASE FinishUpdate
        BY <1>3, <2>1, LeftFinish DEF QuietStep, CoverageInv
    <2>2. CASE UNCHANGED phase \/ Exhausted
        <3>1. phase' \in {"backtrack", "done"} => phase \in {"backtrack", "done"}
            BY <2>2 DEF Exhausted
        <3> QED
            BY <1>1, <1>3, <3>1
               DEF QuietStep, QuietVars, CoverageInv, LeftIsCovered, Representatives, NoSleeperFirst
    <2>3. CASE phase' \in BeforeUpdate \cup {"stopped", "aborted"} \/ DporRestoreTransition
        BY <1>2, <2>3 DEF BeforeUpdate, DporRestoreTransition, RestoreTransition
    <2> QED
        BY <1>3, <2>1, <2>2, <2>3 DEF QuietStep
<1>4. CASE DporBacktrackFurther
    BY <1>4, LeftFurther DEF CoverageInv
<1>5. CASE DporReadRecord \/ DporUpdateTransition \/ DporScheduleNext \/ phase' = "invalid"
    BY <1>2, <1>5 DEF DporReadRecord, ReadRecord, DporUpdateTransition, UpdateTransition,
       DporScheduleNext, ScheduleNext
<1> QED
    BY <1>3, <1>4, <1>5, CoverageStepKinds

\* Every step preserves the invariant of the search.
LEMMA CoverageInvStep ==
    ASSUME WaitFreePrograms, ClockInv, ClockInv', SleepInv, TraceInv,
           CoverageInv, [DporNext]_dporVars
    PROVE  CoverageInv'
<1>1. /\ DporInv /\ DoneIsCovered /\ LeftIsCovered /\ SleepIsInherited
      /\ sufficient_set_t = "Source" => RacesAreReversed
      /\ sufficient_set_t = "Persistent" => PointsAreTaken
      /\ RunsAreComplete /\ BranchIsLogged /\ EndsAtRoot /\ BlockedCouldGoOn
      /\ ValidPrograms
    BY WaitFreeIsValid DEF ClockInv, CoverageInv
<1>2. DoneIsCovered'
    BY <1>1, DoneIsCoveredStep
<1>3. LeftIsCovered'
    BY <1>1, <1>2, LeftIsCoveredStep
<1>4. /\ sufficient_set_t = "Source" => RacesAreReversed'
      /\ sufficient_set_t = "Persistent" => PointsAreTaken'
    BY <1>1, RacesAreReversedStep, PointsAreTakenStep
<1>5. SleepIsInherited' /\ RunsAreComplete' /\ BranchIsLogged' /\ EndsAtRoot'
    BY <1>1, SleepIsInheritedStep, RunsAreCompleteStep, BranchIsLoggedStep, EndsAtRootStep
<1>6. BlockedCouldGoOn'
    BY <1>1, BlockedCouldGoOnStep
<1> QED
    BY <1>2, <1>3, <1>4, <1>5, <1>6 DEF CoverageInv

\* The inductive invariant of the search.
THEOREM CoverageInvariantHolds ==
    ASSUME WaitFreePrograms
    PROVE  DporSpec => []CoverageInv
<1>1. ASSUME DporInit
      PROVE  CoverageInv
    <2>1. /\ phase = "loop" /\ mExecution = <<>> /\ dfsState = <<{}>> /\ schedules = {}
          /\ sufficient = <<NoSufficientSet>>
        BY <1>1 DEF DporInit, Init
    <2>2. /\ Len(sufficient) = 1 /\ Len(dfsState) = 1 /\ dfsState[1] = {}
          /\ sufficient[1].sleep = {} /\ \A k \in 1 .. 1 : k = 1
        BY <2>1 DEF NoSufficientSet
    <2>3. DoneIsCovered
        BY <2>2 DEF DoneIsCovered
    <2>4. SleepIsInherited
        BY <2>2 DEF SleepIsInherited
    <2>5. RacesAreReversed /\ PointsAreTaken
        BY <2>1 DEF RacesAreReversed, PointsAreTaken, UpdatedFrom, WasUpdated
    <2>6. BlockedCouldGoOn
        BY <1>1 DEF DporInit, Init, NoRecord, BlockedCouldGoOn
    <2> QED
        BY <2>1, <2>3, <2>4, <2>5, <2>6
           DEF CoverageInv, LeftIsCovered, RunsAreComplete, BranchIsLogged, EndsAtRoot
<1>2. DporInit => CoverageInv
    BY <1>1
<1>3. ClockInv /\ ClockInv' /\ SleepInv /\ TraceInv /\ CoverageInv /\ [DporNext]_dporVars => CoverageInv'
    BY CoverageInvStep
<1> QED
    BY <1>2, <1>3, WaitFreeIsValid, ClockInvariantHolds, SleepInvariantHolds, TraceInvariantHolds, PTL DEF DporSpec

\* At the end of the search every complete execution has an explored one of its trace.
LEMMA AllAreRepresented ==
    ASSUME TypeOK, CoverageInv, phase = "done", failures = 0, NEW e \in CompleteExecutions(program)
    PROVE  \E f \in CompleteExecutions(program) : ScheduleOf(f) \in schedules /\ TraceOf(f) = TraceOf(e)
<1>1. mExecution = <<>> /\ Len(mExecution) = 0 /\ Len(sufficient) = 1
    BY DEF CoverageInv, EndsAtRoot
<1>2. sufficient[1].sleep \ dfsState[1] = {}
    BY <1>1 DEF CoverageInv, SleepIsInherited
<1>3. NoSleeperFirst(e, 1)
    BY <1>2 DEF NoSleeperFirst
<1>4. Share(e, mExecution, 0)
    <2>1. e \in Seq(Transitions)
        BY ExecutionsAre DEF TypeOK, CompleteExecutions
    <2> QED
        BY <1>1, <2>1 DEF Share
<1> QED
    BY <1>1, <1>3, <1>4 DEF CoverageInv, LeftIsCovered, Representatives

\* A complete execution is one of the reference's.
LEMMA MaximalTraceIs ==
    ASSUME NEW p \in Programs, NEW f \in CompleteExecutions(p)
    PROVE  [program     |-> p,
            schedule    |-> ScheduleOf(f),
            trace       |-> TraceOf(f),
            observation |-> ObservationOf(f)] \in MaximalTraces
<1>1. PICK m : m = [program |-> p, execution |-> f]
    OBVIOUS
<1>2. m \in MaximalExecutions
    BY <1>1 DEF MaximalExecutions, CompleteExecutions
<1>3. m.program = p /\ m.execution = f
    BY <1>1
<1> QED
    BY <1>2, <1>3 DEF MaximalTraces

\* dpor loses no trace, with source sets as with persistent sets: as long as every run
\* leaves its record, each Mazurkiewicz trace of the program has been explored when the
\* search is done.
THEOREM TracesAreCovered ==
    ASSUME WaitFreePrograms
    PROVE  DporSpec => [](failures = 0 => AllTracesCovered)
<1>1. ASSUME TypeOK, CoverageInv, failures = 0
      PROVE  AllTracesCovered
    <2> SUFFICES ASSUME phase = "done", NEW trace \in AllTraces
                 PROVE  trace \in ExploredTraces
        BY DEF AllTracesCovered
    <2>1. PICK e \in CompleteExecutions(program) : trace = TraceOf(e)
        BY DEF AllTraces, MaximalTraces, MaximalExecutions, CompleteExecutions
    <2>2. PICK f \in CompleteExecutions(program) : ScheduleOf(f) \in schedules /\ TraceOf(f) = trace
        BY <1>1, <2>1, AllAreRepresented
    <2>3. PICK m \in MaximalTraces : /\ m.program = program /\ m.schedule = ScheduleOf(f)
                                     /\ m.trace = TraceOf(f)
        BY <1>1, <2>2, MaximalTraceIs DEF TypeOK
    <2> QED
        BY <2>2, <2>3 DEF ExploredTraces
<1>2. TypeOK /\ CoverageInv => (failures = 0 => AllTracesCovered)
    BY <1>1
<1>3. ClockInv => TypeOK
    BY DEF ClockInv, DporInv, Inv
<1> QED
    BY <1>2, <1>3, WaitFreeIsValid, ClockInvariantHolds, CoverageInvariantHolds, PTL

-----------------------------------------------------------------------------
(* What the threads can see is a matter of the trace *)

IsWrite(instr, o) == instr.obj = o /\ instr.op \in {"Store", "ReadModifyWrite"}

\* The first n transitions of e and the first m of f have the same writes of o.
SameWrites(e, n, f, m, o) ==
    \A j \in 1 .. Len(e), b \in 1 .. Len(f) :
        Event(e[j]) = Event(f[b]) /\ IsWrite(e[j].instr, o) => (j <= n <=> b <= m)

\* The last write of a prefix is also that of the corresponding prefix,
LEMMA LastWriteOfTrace ==
    ASSUME NEW p \in Programs, NEW e \in Seq(Transitions), IsExecution(p, e),
           NEW f \in Seq(Transitions), IsExecution(p, f), TraceOf(e) = TraceOf(f),
           NEW n \in 0 .. Len(e), NEW m \in 0 .. Len(f), NEW o, SameWrites(e, n, f, m, o),
           NEW w \in LastWrite(e, n, o)
    PROVE  w \in LastWrite(f, m, o)
<1>1. PICK j \in 1 .. n : /\ w = Event(e[j]) /\ IsWrite(e[j].instr, o)
                          /\ \A l \in 1 .. n : IsWrite(e[l].instr, o) => l <= j
    BY DEF LastWrite, IsWrite
<1>2. j \in 1 .. Len(e)
    OBVIOUS
<1>3. PICK b \in 1 .. Len(f) : Event(f[b]) = Event(e[j])
    BY <1>2, EventOfTrace
<1>4. b \in 1 .. m /\ IsWrite(f[b].instr, o)
    <2>1. e[j].instr = f[b].instr
        BY <1>2, <1>3, SameEvent
    <2>2. b <= m
        BY <1>1, <1>2, <1>3 DEF SameWrites
    <2> QED
        BY <1>1, <2>1, <2>2
<1>5. ASSUME NEW c \in 1 .. m, IsWrite(f[c].instr, o)
      PROVE  c <= b
    <2>1. c \in 1 .. Len(f)
        OBVIOUS
    <2>2. PICK l \in 1 .. Len(e) : Event(e[l]) = Event(f[c])
        BY <2>1, EventOfTrace
    <2>3. e[l].instr = f[c].instr
        BY <2>1, <2>2, SameEvent
    <2>4. l \in 1 .. n
        BY <1>5, <2>1, <2>2, <2>3 DEF SameWrites
    <2>5. l <= j
        BY <1>1, <1>5, <2>3, <2>4
    <2>6. CASE l = j
        BY <1>3, <2>1, <2>2, <2>6, EventIsPerformedOnce
    <2>7. CASE l < j
        <3>1. Dependent(e[l].instr, e[j].instr)
            BY <1>1, <1>5, <2>3 DEF IsWrite, Dependent, SameOperand, IsMemoryModification
        <3>2. PICK x \in 1 .. Len(f), y \in 1 .. Len(f) :
                  x < y /\ Event(f[x]) = Event(e[l]) /\ Event(f[y]) = Event(e[j])
            BY <1>2, <2>7, <3>1, OrderOfTrace
        <3>3. x = c /\ y = b
            BY <1>3, <2>1, <2>2, <3>2, EventIsPerformedOnce
        <3> QED
            BY <3>2, <3>3
    <2> QED
        BY <1>2, <2>5, <2>6, <2>7
<1> QED
    BY <1>1, <1>3, <1>4, <1>5 DEF LastWrite, IsWrite

\* in both directions.
LEMMA LastWriteIsThatOfTrace ==
    ASSUME NEW p \in Programs, NEW e \in Seq(Transitions), IsExecution(p, e),
           NEW f \in Seq(Transitions), IsExecution(p, f), TraceOf(e) = TraceOf(f),
           NEW n \in 0 .. Len(e), NEW m \in 0 .. Len(f), NEW o, SameWrites(e, n, f, m, o)
    PROVE  LastWrite(e, n, o) = LastWrite(f, m, o)
<1>1. SameWrites(f, m, e, n, o)
    <2> SUFFICES ASSUME NEW b \in 1 .. Len(f), NEW j \in 1 .. Len(e), Event(f[b]) = Event(e[j]),
                        IsWrite(f[b].instr, o)
                 PROVE  b <= m <=> j <= n
        BY DEF SameWrites
    <2>1. e[j].instr = f[b].instr
        BY SameEvent
    <2> QED
        BY <2>1 DEF SameWrites
<1>2. ASSUME NEW w \in LastWrite(e, n, o)
      PROVE  w \in LastWrite(f, m, o)
    BY LastWriteOfTrace
<1>3. ASSUME NEW w \in LastWrite(f, m, o)
      PROVE  w \in LastWrite(e, n, o)
    BY <1>1, LastWriteOfTrace
<1> QED
    BY ONLY <1>2, <1>3

\* What a read reads from is the same in all orders of a trace.
LEMMA ReadOfTrace ==
    ASSUME NEW p \in Programs, NEW e \in Seq(Transitions), IsExecution(p, e),
           NEW f \in Seq(Transitions), IsExecution(p, f), TraceOf(e) = TraceOf(f),
           NEW i \in 1 .. Len(e), e[i].instr.op \in {"Load", "ReadModifyWrite"}
    PROVE  \E a \in 1 .. Len(f) :
               /\ f[a].instr = e[i].instr /\ Event(f[a]) = Event(e[i])
               /\ LastWrite(e, i - 1, e[i].instr.obj) = LastWrite(f, a - 1, f[a].instr.obj)
<1>1. PICK a \in 1 .. Len(f) : Event(f[a]) = Event(e[i])
    BY EventOfTrace
<1>2. f[a].instr = e[i].instr
    BY <1>1, SameEvent
<1>3. PICK o : o = e[i].instr.obj
    OBVIOUS
<1>4. SameWrites(e, i - 1, f, a - 1, o)
    <2> SUFFICES ASSUME NEW j \in 1 .. Len(e), NEW b \in 1 .. Len(f), Event(e[j]) = Event(f[b]),
                        IsWrite(e[j].instr, o)
                 PROVE  j <= i - 1 <=> b <= a - 1
        BY DEF SameWrites
    <2>1. Dependent(e[j].instr, e[i].instr) /\ Dependent(e[i].instr, e[j].instr)
        BY <1>3 DEF IsWrite, Dependent, SameOperand, IsMemoryModification
    <2>2. CASE j < i
        <3>1. PICK x \in 1 .. Len(f), y \in 1 .. Len(f) :
                  x < y /\ Event(f[x]) = Event(e[j]) /\ Event(f[y]) = Event(e[i])
            BY <2>1, <2>2, OrderOfTrace
        <3>2. x = b /\ y = a
            BY <1>1, <3>1, EventIsPerformedOnce
        <3> QED
            BY <2>2, <3>1, <3>2
    <2>3. CASE i < j
        <3>1. PICK x \in 1 .. Len(f), y \in 1 .. Len(f) :
                  x < y /\ Event(f[x]) = Event(e[i]) /\ Event(f[y]) = Event(e[j])
            BY <2>1, <2>3, OrderOfTrace
        <3>2. x = a /\ y = b
            BY <1>1, <3>1, EventIsPerformedOnce
        <3> QED
            BY <2>3, <3>1, <3>2
    <2>4. CASE i = j
        <3>1. a = b
            BY <1>1, <2>4, EventIsPerformedOnce
        <3> QED
            BY <2>4, <3>1
    <2> QED
        BY <2>2, <2>3, <2>4
<1>5. i - 1 \in 0 .. Len(e) /\ a - 1 \in 0 .. Len(f)
    OBVIOUS
<1>6. LastWrite(e, i - 1, o) = LastWrite(f, a - 1, o)
    BY <1>4, <1>5, LastWriteIsThatOfTrace
<1> QED
    BY <1>1, <1>2, <1>3, <1>6

\* A read reads from the same write in every execution of a trace.
LEMMA ReadsOfTrace ==
    ASSUME NEW p \in Programs, NEW e \in Seq(Transitions), IsExecution(p, e),
           NEW f \in Seq(Transitions), IsExecution(p, f), TraceOf(e) = TraceOf(f),
           NEW r \in ObservationOf(e).reads
    PROVE  r \in ObservationOf(f).reads
<1>1. PICK i \in 1 .. Len(e) : /\ e[i].instr.op \in {"Load", "ReadModifyWrite"}
                               /\ r = <<Event(e[i]), LastWrite(e, i - 1, e[i].instr.obj)>>
    BY DEF ObservationOf
<1>2. PICK a \in 1 .. Len(f) :
               /\ f[a].instr = e[i].instr /\ Event(f[a]) = Event(e[i])
               /\ LastWrite(e, i - 1, e[i].instr.obj) = LastWrite(f, a - 1, f[a].instr.obj)
    BY <1>1, ReadOfTrace
<1>3. /\ f[a].instr.op \in {"Load", "ReadModifyWrite"}
      /\ r = <<Event(f[a]), LastWrite(f, a - 1, f[a].instr.obj)>>
    BY <1>1, <1>2
<1> QED
    BY <1>3 DEF ObservationOf

\* Executions of the same trace show the same.
LEMMA SameTraceSameObservation ==
    ASSUME NEW p \in Programs, NEW e \in Seq(Transitions), IsExecution(p, e),
           NEW f \in Seq(Transitions), IsExecution(p, f), TraceOf(e) = TraceOf(f)
    PROVE  ObservationOf(e) = ObservationOf(f)
<1>1. ObservationOf(e).reads = ObservationOf(f).reads
    <2>1. ASSUME NEW r \in ObservationOf(e).reads
          PROVE  r \in ObservationOf(f).reads
        BY ReadsOfTrace
    <2>2. ASSUME NEW r \in ObservationOf(f).reads
          PROVE  r \in ObservationOf(e).reads
        BY ReadsOfTrace
    <2> QED
        BY ONLY <2>1, <2>2
<1>2. ASSUME NEW o \in Objects
      PROVE  LastWrite(e, Len(e), o) = LastWrite(f, Len(f), o)
    <2>1. Len(e) \in 0 .. Len(e) /\ Len(f) \in 0 .. Len(f)
        OBVIOUS
    <2>2. SameWrites(e, Len(e), f, Len(f), o)
        BY DEF SameWrites
    <2> QED
        BY <2>1, <2>2, LastWriteIsThatOfTrace
<1>3. [o \in Objects |-> LastWrite(e, Len(e), o)] = [o \in Objects |-> LastWrite(f, Len(f), o)]
    BY <1>2
<1> QED
    BY <1>1, <1>3 DEF ObservationOf

\* dpor shows all that the program's executions can let its threads see, and nothing
\* else.
THEOREM ObservationsAreCovered ==
    ASSUME WaitFreePrograms
    PROVE  DporSpec => [](failures = 0 => ObservationsCovered)
<1>1. ASSUME TypeOK, CoverageInv, failures = 0
      PROVE  ObservationsCovered
    <2> DEFINE all      == {x \in MaximalTraces : x.program = program}
               explored == {x \in MaximalTraces : x.program = program /\ x.schedule \in schedules}
    <2> SUFFICES ASSUME phase = "done", NEW m \in all
                 PROVE  \E x \in explored : x.observation = m.observation
        BY DEF ObservationsCovered
    <2>1. PICK e \in CompleteExecutions(program) : m.observation = ObservationOf(e)
        BY DEF MaximalTraces, MaximalExecutions, CompleteExecutions
    <2>2. PICK f \in CompleteExecutions(program) :
              ScheduleOf(f) \in schedules /\ TraceOf(f) = TraceOf(e)
        BY <1>1, <2>1, AllAreRepresented
    <2>3. ObservationOf(f) = m.observation
        <3>1. /\ e \in Seq(Transitions) /\ IsExecution(program, e)
              /\ f \in Seq(Transitions) /\ IsExecution(program, f) /\ program \in Programs
            BY <1>1, ExecutionsAre DEF TypeOK, CompleteExecutions
        <3> QED
            BY <2>1, <2>2, <3>1, SameTraceSameObservation
    <2>4. PICK x \in MaximalTraces : /\ x.program = program /\ x.schedule = ScheduleOf(f)
                                     /\ x.observation = ObservationOf(f)
        BY <1>1, <2>2, MaximalTraceIs DEF TypeOK
    <2> QED
        BY <2>2, <2>3, <2>4
<1>2. TypeOK /\ CoverageInv => (failures = 0 => ObservationsCovered)
    BY <1>1
<1>3. ClockInv => TypeOK
    BY DEF ClockInv, DporInv, Inv
<1> QED
    BY <1>2, <1>3, WaitFreeIsValid, ClockInvariantHolds, CoverageInvariantHolds, PTL

-----------------------------------------------------------------------------
(* The enumeration of the traces *)

\* A run that left its record shows a trace that no run before it has shown, for the
\* reason that no trace is explored twice: the scheduler keeps to the sleep set.
LEMMA RecordIsNew ==
    ASSUME DporInv, SleepInv, TraceInv, phase = "read", failures = 0, record # NoRecord,
           NEW f \in ExecutionsOf(program), ScheduleOf(f) \in schedules
    PROVE  TraceOf(f) # TraceOf(record.transitions)
<1> SUFFICES ASSUME TraceOf(f) = TraceOf(record.transitions)
             PROVE  FALSE
    OBVIOUS
<1>1. PICK e : e = record.transitions
    OBVIOUS
<1>2. PICK n : n = Len(mExecution)
    OBVIOUS
<1>3. /\ program \in Programs /\ e \in Seq(Transitions) /\ IsExecution(program, e) /\ Len(e) \in Nat
      /\ n \in Nat /\ Len(sufficient) = n + 1 /\ Len(dfsState) = n + 1 /\ from = n + 1
    BY <1>1, <1>2 DEF DporInv, Inv, TypeOK, ExecutionsAreValid, SearchIsAligned, BeforeUpdate
<1>4. Len(e) >= n /\ \A i \in 1 .. n : e[i] = mExecution[i]
    BY <1>1, <1>2 DEF DporInv, Inv, RecordExtendsSearch, Running
<1>5. f \in Seq(Transitions) /\ IsExecution(program, f) /\ Len(f) \in Nat
    BY <1>3, ExecutionsAre
<1>6. Len(ScheduleOf(f)) = Len(f) /\ \A i \in 1 .. Len(f) : ScheduleOf(f)[i] = f[i].instr.tid
    BY <1>5, ScheduleIs
<1>7. Diverges(ScheduleOf(f))
    BY DEF DporInv, Inv, LoggedDiverge, Running
<1>8. PICK k \in 1 .. n + 1 :
          /\ k <= Len(f) /\ f[k].instr.tid \in dfsState[k]
          /\ \A j \in 1 .. k - 1 : f[j].instr.tid = mExecution[j].instr.tid
    BY <1>3, <1>6, <1>7 DEF Diverges
<1>9. /\ k \in 1 .. Len(f) /\ k - 1 <= Len(e) /\ k - 1 \in Nat /\ k - 1 <= Len(f)
      /\ k \in Nat /\ k <= n + 1
    BY <1>3, <1>4, <1>5, <1>8
<1>10. \A i \in 1 .. k - 1 : e[i] = f[i]
    <2>1. \A i \in 1 .. k - 1 : i \in 1 .. n
        BY <1>3, <1>9
    <2>2. \A i \in 1 .. k - 1 : e[i].instr.tid = f[i].instr.tid
        BY <1>4, <1>8, <2>1
    <2>3. /\ e \in Seq(Transitions) /\ IsExecution(program, e) /\ f \in Seq(Transitions)
          /\ IsExecution(program, f) /\ k - 1 \in Nat /\ k - 1 <= Len(e) /\ k - 1 <= Len(f)
        BY <1>3, <1>5, <1>9
    <2> QED
        BY ONLY <2>2, <2>3, SameScheduleSameTransitions
<1>11. f[k].instr.tid \in sufficient[k].sleep
    BY <1>3, <1>8 DEF TraceInv, DoneSleeps, Running
<1>12. PICK q \in k .. Len(e) :
           e[q].instr.tid \in StillAsleep(program, sufficient[k].sleep, e, k, q)
    BY <1>1, <1>3, <1>5, <1>9, <1>10, <1>11, SleeperIsPerformed
<1>13. CASE q <= n
    <2>1. q \in 1 .. n /\ q \in 1 .. n + 1 /\ k \in 1 .. q
        BY <1>3, <1>9, <1>13
    <2>2. \A j \in k .. q - 1 : e[j] = mExecution[j]
        <3>1. \A j \in k .. q - 1 : j \in 1 .. n
            BY <1>3, <1>9, <2>1
        <3> QED
            BY <1>4, <3>1
    <2>3. e[q].instr.tid \in StillAsleep(program, sufficient[k].sleep, mExecution, k, q)
        BY <1>12, <2>2, StillAsleepSame
    <2>4. mExecution[q].instr.tid \in sufficient[q].sleep
        BY <1>2, <1>3, <1>4, <2>1, <2>3 DEF TraceInv, SleepIsKept, Running
    <2> QED
        BY <1>2, <1>3, <2>1, <2>4 DEF TraceInv, BranchIsAwake, Running
<1>14. CASE q > n
    <2>1. from \in 1 .. n + 1 /\ k \in 1 .. from /\ q \in from .. Len(e)
        BY <1>3, <1>9, <1>14
    <2>2. \A j \in k .. from - 1 : e[j] = mExecution[j]
        BY <1>3, <1>4, <1>9
    <2>3. StillAsleep(program, sufficient[k].sleep, mExecution, k, from) \subseteq sufficient[from].sleep
        BY <1>2, <1>3, <2>1 DEF TraceInv, SleepIsKept, Running
    <2>4. e[q].instr.tid \in StillAsleep(program, sufficient[k].sleep, e, k, from)
        <3>1. \A j \in k .. from - 1 : j \in k .. q - 1
            BY <1>3, <1>9, <2>1
        <3> QED
            BY <1>12, <3>1 DEF StillAsleep
    <2>5. e[q].instr.tid \in sufficient[from].sleep
        BY <2>2, <2>3, <2>4, StillAsleepSame
    <2>6. e[q].instr.tid \in SleepAlong(e, q)
        <3>1. \A j \in from .. q - 1 : j \in k .. q - 1
            BY <1>3, <1>9, <2>1
        <3> QED
            BY <1>12, <2>5, <3>1 DEF SleepAlong, StillAsleep
    <2>7. StaysAwake(e)
        BY <1>1 DEF DporInv, Inv, RecordIsFresh, SleepInv
    <2> QED
        BY <2>1, <2>6, <2>7 DEF StaysAwake
<1> QED
    BY <1>3, <1>9, <1>13, <1>14

\* The traces of the complete executions of p with a schedule of S.
TracesOf(p, S) == {TraceOf(e) : e \in {x \in CompleteExecutions(p) : ScheduleOf(x) \in S}}

\* The traces of the reference are those of the complete executions.
LEMMA TracesAre ==
    ASSUME NEW p \in Programs, NEW S
    PROVE  {m.trace : m \in {x \in MaximalTraces : x.program = p /\ x.schedule \in S}}
               = TracesOf(p, S)
<1>1. ASSUME NEW m \in MaximalTraces, m.program = p, m.schedule \in S
      PROVE  m.trace \in TracesOf(p, S)
    <2>1. PICK x \in MaximalExecutions :
              /\ m.program = x.program /\ m.schedule = ScheduleOf(x.execution)
              /\ m.trace = TraceOf(x.execution)
        BY DEF MaximalTraces
    <2>2. x.execution \in CompleteExecutions(x.program)
        BY DEF MaximalExecutions, CompleteExecutions
    <2> QED
        BY <1>1, <2>1, <2>2 DEF TracesOf
<1>2. ASSUME NEW e \in CompleteExecutions(p), ScheduleOf(e) \in S
      PROVE  \E m \in MaximalTraces : m.program = p /\ m.schedule \in S /\ m.trace = TraceOf(e)
    <2>1. PICK m \in MaximalTraces : /\ m.program = p /\ m.schedule = ScheduleOf(e)
                                     /\ m.trace = TraceOf(e)
        BY MaximalTraceIs
    <2> QED
        BY <1>2, <2>1
<1> QED
    BY <1>1, <1>2 DEF TracesOf

\* A program has finitely many of them.
LEMMA AllTracesAre ==
    ASSUME program \in Programs
    PROVE  AllTraces = {TraceOf(e) : e \in CompleteExecutions(program)} /\ IsFiniteSet(AllTraces)
<1>1. AllTraces = {TraceOf(e) : e \in CompleteExecutions(program)}
    <2>1. ASSUME NEW m \in MaximalTraces, m.program = program
          PROVE  \E e \in CompleteExecutions(program) : m.trace = TraceOf(e)
        <3>1. PICK x \in MaximalExecutions :
                  m.program = x.program /\ m.trace = TraceOf(x.execution)
            BY DEF MaximalTraces
        <3>2. x.execution \in CompleteExecutions(x.program)
            BY DEF MaximalExecutions, CompleteExecutions
        <3> QED
            BY <2>1, <3>1, <3>2
    <2>2. ASSUME NEW e \in CompleteExecutions(program)
          PROVE  \E m \in MaximalTraces : m.program = program /\ m.trace = TraceOf(e)
        <3>1. PICK m \in MaximalTraces : /\ m.program = program /\ m.schedule = ScheduleOf(e)
                                         /\ m.trace = TraceOf(e)
            BY MaximalTraceIs
        <3> QED
            BY <3>1
    <2> QED
        BY <2>1, <2>2 DEF AllTraces
<1>2. IsFiniteSet(CompleteExecutions(program))
    BY ExecutionsAreFinite, FS_Subset DEF CompleteExecutions
<1>3. IsFiniteSet({TraceOf(e) : e \in CompleteExecutions(program)})
    <2> DEFINE trace == [e \in CompleteExecutions(program) |-> TraceOf(e)]
    <2>1. trace \in Surjection(CompleteExecutions(program),
                               {TraceOf(e) : e \in CompleteExecutions(program)})
        BY DEF Surjection
    <2> HIDE DEF trace
    <2> QED
        BY <1>2, <2>1, FS_Surjection
<1> QED
    BY <1>1, <1>3

\* One more schedule adds the trace of its execution, if that is complete.
LEMMA OneMoreSchedule ==
    ASSUME NEW p \in Programs, NEW r \in Seq(Transitions), IsExecution(p, r), NEW S
    PROVE  TracesOf(p, S \cup {ScheduleOf(r)})
               = TracesOf(p, S) \cup (IF Enabled(p, Final(r)) = {} THEN {TraceOf(r)} ELSE {})
<1>1. ASSUME NEW e \in CompleteExecutions(p), ScheduleOf(e) = ScheduleOf(r)
      PROVE  e = r
    <2>1. e \in Seq(Transitions) /\ IsExecution(p, e)
        BY ExecutionsAre DEF CompleteExecutions
    <2>2. Len(e) = Len(r) /\ Len(r) \in Nat /\ \A i \in 1 .. Len(r) : e[i].instr.tid = r[i].instr.tid
        BY <1>1, <2>1, ScheduleIs
    <2>3. \A i \in 1 .. Len(r) : e[i] = r[i]
        BY <2>1, <2>2, SameScheduleSameTransitions
    <2> QED
        BY <2>1, <2>2, <2>3
<1>2. r \in CompleteExecutions(p) <=> Enabled(p, Final(r)) = {}
    BY ExecutionsAre DEF CompleteExecutions
<1>3. CASE Enabled(p, Final(r)) = {}
    BY <1>1, <1>2, <1>3 DEF TracesOf
<1>4. CASE Enabled(p, Final(r)) # {}
    <2>1. \A e \in CompleteExecutions(p) : ScheduleOf(e) # ScheduleOf(r)
        BY <1>1, <1>2, <1>4
    <2> QED
        BY <1>4, <2>1 DEF TracesOf
<1> QED
    BY <1>3, <1>4

\* Reading a record explores one more trace, or, after a run that was cut short, none.
LEMMA ReadExploresTrace ==
    ASSUME ClockInv, SleepInv, TraceInv, CoverageInv, failures = 0, DporReadRecord
    PROVE  [EnumerationOfTraces!Next]_(EnumerationOfTraces!vars)
<1>1. PICK r : r = record.transitions
    OBVIOUS
<1>2. /\ phase = "read" /\ record # NoRecord /\ phase' = "update"
      /\ schedules' = schedules \cup {ScheduleOf(r)}
      /\ mNrExplorations' = mNrExplorations + 1
      /\ nrSleepsetBlocked' = nrSleepsetBlocked + (IF record.status = "BLOCKED" THEN 1 ELSE 0)
      /\ program' = program
    BY <1>1 DEF DporReadRecord, ReadRecord
<1>3. /\ program \in Programs /\ r \in Seq(Transitions) /\ IsExecution(program, r)
      /\ mNrExplorations \in Nat /\ nrSleepsetBlocked \in Nat
    BY <1>1 DEF ClockInv, DporTypeOK, DporInv, Inv, TypeOK, ExecutionsAreValid
<1>4. ExploredTraces = TracesOf(program, schedules) /\ ExploredTraces' = TracesOf(program, schedules')
    BY <1>2, <1>3, TracesAre DEF ExploredTraces
<1>5. AllTraces' = AllTraces
    BY <1>2 DEF AllTraces
<1>6. ExploredTraces'
          = ExploredTraces \cup (IF Enabled(program, Final(r)) = {} THEN {TraceOf(r)} ELSE {})
    BY <1>2, <1>3, <1>4, OneMoreSchedule
<1>7. Enabled(program, Final(r)) = {} <=> record.status # "BLOCKED"
    BY <1>1, <1>2 DEF CoverageInv, RunsAreComplete, BlockedCouldGoOn
<1>8. CASE record.status = "BLOCKED"
    <2>1. ExploredTraces' = ExploredTraces
        BY <1>6, <1>7, <1>8
    <2>2. mNrExplorations' - nrSleepsetBlocked' = mNrExplorations - nrSleepsetBlocked
        BY <1>2, <1>3, <1>8
    <2>3. (phase' = "done") = (phase = "done")
        BY <1>2
    <2> QED
        BY <1>5, <2>1, <2>2, <2>3 DEF EnumerationOfTraces!vars
<1>9. CASE record.status # "BLOCKED"
    <2>1. ExploredTraces' = ExploredTraces \cup {TraceOf(r)}
        BY <1>6, <1>7, <1>9
    <2>2. mNrExplorations' - nrSleepsetBlocked' = (mNrExplorations - nrSleepsetBlocked) + 1
        BY <1>2, <1>3, <1>9
    <2>3. TraceOf(r) \in AllTraces
        <3>1. r \in CompleteExecutions(program)
            BY <1>3, <1>7, <1>9, ExecutionsAre DEF CompleteExecutions
        <3> QED
            BY <1>3, <3>1, AllTracesAre
    <2>4. TraceOf(r) \notin ExploredTraces
        <3> SUFFICES ASSUME NEW f \in CompleteExecutions(program), ScheduleOf(f) \in schedules
                     PROVE  TraceOf(f) # TraceOf(r)
            BY <1>4 DEF TracesOf
        <3>1. f \in ExecutionsOf(program) /\ DporInv
            BY DEF CompleteExecutions, ClockInv
        <3> QED
            BY <1>1, <1>2, <3>1, RecordIsNew
    <2>5. phase # "done" /\ phase' # "done"
        BY <1>2
    <2>6. EnumerationOfTraces!Explore
        BY <1>5, <2>1, <2>2, <2>3, <2>4, <2>5 DEF EnumerationOfTraces!Explore
    <2> QED
        BY <2>6 DEF EnumerationOfTraces!Next
<1> QED
    BY <1>8, <1>9

\* Every other step leaves the traces as they are; the search is done when there is
\* none left.
LEMMA OthersFinish ==
    ASSUME TypeOK, AllTracesCovered', [DporNext]_dporVars, ~ DporReadRecord
    PROVE  [EnumerationOfTraces!Next]_(EnumerationOfTraces!vars)
<1>1. UNCHANGED <<program, schedules, mNrExplorations, nrSleepsetBlocked>>
    <2>1. CASE (LimitReached \/ ReplayScheduled \/ RunFails) /\ UnchangedDpor
        BY <2>1 DEF LimitReached, ReplayScheduled, ProgramStep, RunFails, UnchangedDpor
    <2>2. CASE (RecordMissing \/ FinishUpdate \/ Exhausted \/ Terminated) /\ UnchangedDpor
        BY <2>2 DEF RecordMissing, FinishUpdate, Exhausted, Terminated, explorationVars, UnchangedDpor
    <2>3. CASE DporStartRun
        BY <2>3 DEF DporStartRun, StartRun
    <2>4. CASE DporSelectThread
        BY <2>4 DEF DporSelectThread, SelectThread, ProgramStep
    <2>5. CASE DporBlocked \/ DporRunEnds
        BY <2>5 DEF DporBlocked, DporRunEnds, RunEnds
    <2>6. CASE DporInvalidProgram \/ DporRestoreTransition
        BY <2>6 DEF DporInvalidProgram, InvalidProgram, DporRestoreTransition, RestoreTransition
    <2>7. CASE DporUpdateTransition
        BY <2>7 DEF DporUpdateTransition, UpdateTransition
    <2>8. CASE DporScheduleNext \/ DporBacktrackFurther
        BY <2>8 DEF DporScheduleNext, ScheduleNext, DporBacktrackFurther, BacktrackFurther, PopBack,
           DporPopBack
    <2>9. CASE UNCHANGED dporVars
        BY <2>9 DEF dporVars, explorationVars
    <2> QED
        BY <2>1, <2>2, <2>3, <2>4, <2>5, <2>6, <2>7, <2>8, <2>9 DEF DporNext
<1>2. phase = "done" => phase' = "done"
    <2> SUFFICES ASSUME phase = "done"
                 PROVE  phase' = "done"
        OBVIOUS
    <2>1. CASE UNCHANGED dporVars
        BY <2>1 DEF dporVars, explorationVars
    <2>2. CASE Terminated
        BY <2>2 DEF Terminated, explorationVars
    <2> QED
        BY <2>1, <2>2 DEF DporNext, LimitReached, ReplayScheduled, RunFails, RecordMissing,
           FinishUpdate, Exhausted, DporStartRun, StartRun, DporSelectThread, SelectThread,
           DporBlocked, DporRunEnds, RunEnds, DporReadRecord, ReadRecord, DporInvalidProgram,
           InvalidProgram, DporRestoreTransition, RestoreTransition, DporUpdateTransition,
           UpdateTransition, DporScheduleNext, ScheduleNext, DporBacktrackFurther, BacktrackFurther,
           PopBack
<1>3. AllTraces' = AllTraces /\ ExploredTraces' = ExploredTraces
    BY <1>1 DEF AllTraces, ExploredTraces
<1>4. CASE phase' = "done" /\ phase # "done"
    <2>1. AllTraces \subseteq ExploredTraces
        BY <1>3, <1>4 DEF AllTracesCovered
    <2>2. ExploredTraces \subseteq AllTraces
        BY DEF ExploredTraces, AllTraces
    <2>3. EnumerationOfTraces!Finish
        BY <1>1, <1>3, <1>4, <2>1, <2>2 DEF EnumerationOfTraces!Finish
    <2> QED
        BY <2>3 DEF EnumerationOfTraces!Next
<1>5. CASE (phase' = "done") = (phase = "done")
    BY <1>1, <1>3, <1>5 DEF EnumerationOfTraces!vars
<1> QED
    BY <1>2, <1>4, <1>5

\* dpor implements the enumeration of the traces of its program: each is explored by
\* exactly one execution that is not cut short, and the search is done when all are.
THEOREM TracesAreEnumerated ==
    ASSUME WaitFreePrograms, MaxFailures = 0
    PROVE  DporSpec => EnumeratesTraces
<1> DEFINE Fresh == failures = 0
<1>1. DporInit => Fresh
    BY DEF DporInit, Init
<1>2. Fresh /\ [DporNext]_dporVars => Fresh'
    BY DEF DporNext, LimitReached, ReplayScheduled, ProgramStep, RunFails, RecordMissing,
       FinishUpdate, Exhausted, Terminated, DporStartRun, StartRun, DporSelectThread, SelectThread,
       DporBlocked, DporRunEnds, RunEnds, DporReadRecord, ReadRecord, DporInvalidProgram,
       InvalidProgram, DporRestoreTransition, RestoreTransition, DporUpdateTransition,
       UpdateTransition, DporScheduleNext, ScheduleNext, DporBacktrackFurther, BacktrackFurther,
       PopBack, dporVars, explorationVars
<1>3. DporInit => EnumerationOfTraces!Init
    <2> SUFFICES ASSUME DporInit
                 PROVE  EnumerationOfTraces!Init
        OBVIOUS
    <2>1. /\ program \in Programs /\ schedules = {} /\ phase # "done"
          /\ mNrExplorations - nrSleepsetBlocked = 0
        BY DEF DporInit, Init
    <2>2. IsFiniteSet(AllTraces)
        BY <2>1, AllTracesAre
    <2>3. ExploredTraces = {}
        BY <2>1 DEF ExploredTraces
    <2> QED
        BY <2>1, <2>2, <2>3 DEF EnumerationOfTraces!Init, IsFiniteSet, EnumerationOfTraces!IsFiniteSet
<1>4. /\ Fresh /\ Fresh' /\ ClockInv /\ SleepInv /\ TraceInv /\ CoverageInv
      /\ (Fresh => AllTracesCovered)' /\ [DporNext]_dporVars
      => [EnumerationOfTraces!Next]_(EnumerationOfTraces!vars)
    <2> SUFFICES ASSUME failures = 0, failures' = 0, ClockInv, SleepInv, TraceInv, CoverageInv,
                        AllTracesCovered', [DporNext]_dporVars
                 PROVE  [EnumerationOfTraces!Next]_(EnumerationOfTraces!vars)
        OBVIOUS
    <2>1. TypeOK
        BY DEF ClockInv, DporInv, Inv
    <2> QED
        BY <2>1, ReadExploresTrace, OthersFinish
<1>5. DporSpec => []Fresh
    BY <1>1, <1>2, PTL DEF DporSpec
<1>6. DporSpec => [](Fresh => AllTracesCovered)
    BY TracesAreCovered
<1>7. DporSpec => []ClockInv /\ []SleepInv /\ []TraceInv /\ []CoverageInv
    BY WaitFreeIsValid, ClockInvariantHolds, SleepInvariantHolds, TraceInvariantHolds,
       CoverageInvariantHolds, PTL
<1>8. DporSpec => EnumerationOfTraces!Spec
    BY <1>3, <1>4, <1>5, <1>6, <1>7, PTL DEF DporSpec, EnumerationOfTraces!Spec
<1> QED
    BY <1>8 DEF EnumeratesTraces

=============================================================================
