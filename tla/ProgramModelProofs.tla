------------------------- MODULE ProgramModelProofs -------------------------
(***************************************************************************)
(* Lemmas about the operators of ProgramModel, about the operations on     *)
(* sequences from which executions, schedules and search states are built, *)
(* and about the reference, the set of all maximal executions.             *)
(***************************************************************************)
EXTENDS MaximalExecutions, TLAPS, SequenceTheorems, FiniteSetTheorems, WellFoundedInduction

-----------------------------------------------------------------------------
(* Induction *)

\* Every set of naturals has a least element, if it has one at all.  The theorems
\* of the library that induct take the property as an operator; this takes the set
\* of counterexamples, as a constant.
LEMMA LeastNatural ==
    ASSUME NEW S \in SUBSET Nat, S # {}
    PROVE  \E n \in S : \A m \in S : n <= m
<1> DEFINE R == {mn \in Nat \X Nat : mn[1] < mn[2]}
<1>1. PICK n \in S : \A m \in S : <<m, n>> \notin R
    <2>1. IsWellFoundedOn(R, Nat)
        BY NatLessThanWellFounded DEF OpToRel
    <2> HIDE DEF R
    <2> QED
        BY <2>1, WFMin
<1>2. ASSUME NEW m \in S
      PROVE  n <= m
    <2>1. ~ m < n
        BY <1>1
    <2> QED
        BY <2>1
<1> QED
    BY <1>2

-----------------------------------------------------------------------------
(* Sequences *)

\* What Front of a nonempty sequence is: one entry shorter, otherwise equal.
LEMMA FrontIs ==
    ASSUME NEW S, NEW s \in Seq(S), s # <<>>
    PROVE  /\ Front(s) \in Seq(S)
           /\ Len(Front(s)) = Len(s) - 1
           /\ \A i \in 1 .. Len(s) - 1 : Front(s)[i] = s[i]
<1> DEFINE n == Len(s) - 1
<1>1. n \in Nat
    BY EmptySeq
<1>2. \A i \in 1 .. n : s[i] \in S
    BY <1>1, ElementOfSeq
<1>3. /\ SubSeq(s, 1, n) \in Seq(S)
      /\ Len(SubSeq(s, 1, n)) = n
      /\ \A i \in 1 .. n : SubSeq(s, 1, n)[i] = s[i]
    <2> HIDE DEF n
    <2>1. /\ SubSeq(s, 1, n) \in Seq(S)
          /\ Len(SubSeq(s, 1, n)) = IF 1 <= n THEN n - 1 + 1 ELSE 0
          /\ \A i \in 1 .. n - 1 + 1 : SubSeq(s, 1, n)[i] = s[1 + i - 1]
        BY <1>1, <1>2, SubSeqProperties
    <2>2. \A i \in 1 .. n : i \in 1 .. n - 1 + 1 /\ 1 + i - 1 = i
        BY <1>1
    <2> QED
        BY <1>1, <2>1, <2>2
<1> QED
    BY <1>3 DEF Front

\* Front never leaves the sequences over a set, not even for the empty sequence.
LEMMA FrontType ==
    ASSUME NEW S, NEW s \in Seq(S)
    PROVE  Front(s) \in Seq(S)
<1>1. CASE s = <<>>
    <2>1. SubSeq(s, 1, Len(s) - 1) = <<>>
        BY <1>1, SubSeqEmpty, EmptySeq
    <2> QED
        BY <2>1 DEF Front
<1>2. CASE s # <<>>
    BY <1>2, FrontIs
<1> QED
    BY <1>1, <1>2

\* The last entry of a nonempty sequence.
LEMMA LastIs ==
    ASSUME NEW S, NEW s \in Seq(S), s # <<>>
    PROVE  /\ Len(s) \in Nat \ {0}
           /\ Last(s) = s[Len(s)]
           /\ Last(s) \in S
    BY EmptySeq, ElementOfSeq DEF Last

\* What Append does to a sequence.
LEMMA AppendIs ==
    ASSUME NEW S, NEW s \in Seq(S), NEW e \in S
    PROVE  /\ Append(s, e) \in Seq(S)
           /\ Append(s, e) # <<>>
           /\ Len(Append(s, e)) = Len(s) + 1
           /\ \A i \in 1 .. Len(s) : Append(s, e)[i] = s[i]
           /\ Append(s, e)[Len(s) + 1] = e
    OBVIOUS

\* The schedule of an execution has a thread for each of its transitions.
LEMMA ScheduleIs ==
    ASSUME NEW e \in Seq(Transitions)
    PROVE  /\ ScheduleOf(e) \in Seq(Tids)
           /\ Len(ScheduleOf(e)) = Len(e)
           /\ \A i \in 1 .. Len(e) : ScheduleOf(e)[i] = e[i].instr.tid
<1>1. \A i \in 1 .. Len(e) : e[i] \in Transitions
    BY ElementOfSeq
<1>2. \A i \in 1 .. Len(e) : e[i].instr.tid \in Tids
    BY <1>1 DEF Transitions, Instructions
<1> QED
    BY <1>2 DEF ScheduleOf

-----------------------------------------------------------------------------
(* Schedules, states and transitions *)

\* The program starts in a state.
LEMMA InitialStateType == InitialState \in States
    BY DEF InitialState, States, NoOwner

\* An execution ends in a state.
LEMMA FinalType ==
    ASSUME NEW e \in Seq(Transitions)
    PROVE  Final(e) \in States
<1>1. CASE e = <<>>
    BY <1>1, InitialStateType DEF Final
<1>2. CASE e # <<>>
    <2>1. Last(e) \in Transitions
        BY <1>2, LastIs
    <2> QED
        BY <1>2, <2>1 DEF Final, Transitions
<1> QED
    BY <1>1, <1>2

\* An enabled thread's next instruction leads from a state to a state.
LEMMA TransitionFromType ==
    ASSUME NEW p \in Programs, NEW s \in States, NEW t \in Enabled(p, s)
    PROVE  /\ TransitionFrom(p, s, t) \in Transitions
           /\ TransitionFrom(p, s, t).instr.tid = t
<1>1. t \in Tids /\ s.pc[t] \in Nat /\ s.pc[t] < Len(p[t]) /\ p[t] \in Seq(Statements)
    BY ProgramsAssumption DEF Enabled, IsEnabled, HasNext, States
<1>2. p[t][s.pc[t] + 1] \in Statements
    BY <1>1, ElementOfSeq
<1> DEFINE instr == NextInstr(p, s, t)
<1>3. instr \in Instructions /\ instr.tid = t
    BY <1>1, <1>2 DEF NextInstr, Instructions, Statements
<1>4. [s.pc EXCEPT ![t] = @ + 1] \in [Tids -> Nat]
    BY <1>1 DEF States
<1>5. Perform(s, instr) \in States
    <2> HIDE DEF instr
    <2>1. s.owner \in [Objects -> Tids \cup {NoOwner}]
        BY DEF States
    <2>2. [s.owner EXCEPT ![instr.obj] = instr.tid] \in [Objects -> Tids \cup {NoOwner}]
        BY <2>1, <1>3 DEF Instructions
    <2>3. [s.owner EXCEPT ![instr.obj] = NoOwner] \in [Objects -> Tids \cup {NoOwner}]
        BY <2>1, <1>3 DEF Instructions
    <2> QED
        BY <1>3, <1>4, <2>1, <2>2, <2>3 DEF Perform, States
<1> QED
    BY <1>3, <1>5 DEF TransitionFrom, Transitions

-----------------------------------------------------------------------------
(* Executions *)

\* Each transition starts in the state that the previous one led to.
LEMMA PreIsStateBefore ==
    ASSUME NEW p, NEW e, IsExecution(p, e), NEW i \in 1 .. Len(e)
    PROVE  e[i].pre = StateBefore(e, i)
<1>1. e[i] = TransitionFrom(p, StateBefore(e, i), e[i].instr.tid)
    BY DEF IsExecution
<1> DEFINE t == e[i].instr.tid
<1>2. TransitionFrom(p, StateBefore(e, i), t).pre = StateBefore(e, i)
    BY DEF TransitionFrom
<1> QED
    BY <1>1, <1>2

\* What a transition of an execution does.
LEMMA TransitionIs ==
    ASSUME NEW p, NEW e, IsExecution(p, e), NEW i \in 1 .. Len(e)
    PROVE  /\ e[i].instr.tid \in Enabled(p, e[i].pre)
           /\ e[i].instr = NextInstr(p, e[i].pre, e[i].instr.tid)
           /\ e[i].post = Perform(e[i].pre, e[i].instr)
<1> DEFINE t == e[i].instr.tid
<1>1. e[i].pre = StateBefore(e, i)
    BY PreIsStateBefore
<1>2. t \in Enabled(p, e[i].pre) /\ e[i] = TransitionFrom(p, e[i].pre, t)
    BY <1>1 DEF IsExecution
<1>3. /\ TransitionFrom(p, e[i].pre, t).instr = NextInstr(p, e[i].pre, t)
      /\ TransitionFrom(p, e[i].pre, t).post = Perform(e[i].pre, NextInstr(p, e[i].pre, t))
    BY DEF TransitionFrom
<1> QED
    BY <1>2, <1>3

\* It takes its thread one statement on, and no other.
LEMMA TransitionAdvances ==
    ASSUME NEW p \in Programs, NEW e \in Seq(Transitions), IsExecution(p, e),
           NEW i \in 1 .. Len(e), NEW t \in Tids
    PROVE  /\ e[i].pre.pc[t] \in Nat
           /\ e[i].post.pc[t] = e[i].pre.pc[t] + (IF t = e[i].instr.tid THEN 1 ELSE 0)
<1>1. e[i] \in Transitions
    BY ElementOfSeq
<1>2. e[i].pre.pc \in [Tids -> Nat] /\ e[i].instr.tid \in Tids
    BY <1>1 DEF Transitions, States, Instructions
<1> DEFINE pre == e[i].pre
           instr == e[i].instr
<1>3. e[i].post = Perform(pre, instr) /\ pre.pc \in [Tids -> Nat] /\ instr.tid \in Tids
    BY <1>2, TransitionIs
<1> HIDE DEF pre, instr
<1>4. Perform(pre, instr).pc = [pre.pc EXCEPT ![instr.tid] = @ + 1]
    BY DEF Perform
<1>5. pre.pc[t] \in Nat /\ e[i].post.pc[t] = pre.pc[t] + (IF t = instr.tid THEN 1 ELSE 0)
    BY <1>3, <1>4
<1> QED
    BY <1>5 DEF pre, instr

\* Without its last transition, an execution is still one.
LEMMA FrontOfExecution ==
    ASSUME NEW p \in Programs, NEW e \in Seq(Transitions), e # <<>>, IsExecution(p, e)
    PROVE  IsExecution(p, Front(e))
<1>1. /\ Len(e) \in Nat \ {0}
      /\ Len(Front(e)) = Len(e) - 1
      /\ \A i \in 1 .. Len(e) - 1 : Front(e)[i] = e[i]
    BY FrontIs, EmptySeq
<1>2. \A i \in 1 .. Len(e) - 1 : StateBefore(Front(e), i) = StateBefore(e, i)
    BY <1>1 DEF StateBefore
<1> QED
    BY <1>1, <1>2 DEF IsExecution

\* Performing an enabled thread after an execution gives an execution.
LEMMA AppendToExecution ==
    ASSUME NEW p \in Programs, NEW e \in Seq(Transitions), IsExecution(p, e),
           NEW t \in Enabled(p, Final(e))
    PROVE  IsExecution(p, Append(e, TransitionFrom(p, Final(e), t)))
<1> DEFINE tr == TransitionFrom(p, Final(e), t)
           f == Append(e, tr)
<1>1. tr \in Transitions /\ tr.instr.tid = t
    BY FinalType, TransitionFromType
<1>2. tr = TransitionFrom(p, Final(e), t)
    OBVIOUS
<1> HIDE DEF tr
<1>3. /\ Len(e) \in Nat
      /\ Len(f) = Len(e) + 1
      /\ \A i \in 1 .. Len(e) : f[i] = e[i]
      /\ f[Len(e) + 1] = tr
    BY <1>1, AppendIs
<1> HIDE DEF f
<1>4. \A i \in 1 .. Len(e) : StateBefore(f, i) = StateBefore(e, i)
    BY <1>3 DEF StateBefore
<1>5. StateBefore(f, Len(e) + 1) = Final(e)
    BY <1>3, EmptySeq, LastIs DEF StateBefore, Final
<1>6. IsExecution(p, f)
    <2> SUFFICES ASSUME NEW i \in 1 .. Len(f)
                 PROVE  /\ f[i].instr.tid \in Enabled(p, StateBefore(f, i))
                        /\ f[i] = TransitionFrom(p, StateBefore(f, i), f[i].instr.tid)
        BY DEF IsExecution
    <2>1. CASE i \in 1 .. Len(e)
        BY <1>3, <1>4, <2>1 DEF IsExecution
    <2>2. CASE i = Len(e) + 1
        BY <1>1, <1>2, <1>3, <1>5, <2>2
    <2> QED
        BY <1>3, <2>1, <2>2
<1> QED
    BY <1>6 DEF f, tr

\* The program is deterministic: a run that has followed execution e so far and
\* performs the thread that comes next in e makes the next transition of e.
LEMMA SameTransition ==
    ASSUME NEW p \in Programs, NEW e \in Seq(Transitions), IsExecution(p, e),
           NEW r \in Seq(Transitions), Len(r) < Len(e),
           \A i \in 1 .. Len(r) : r[i] = e[i]
    PROVE  TransitionFrom(p, Final(r), e[Len(r) + 1].instr.tid) = e[Len(r) + 1]
<1>1. Len(r) \in Nat /\ Len(e) \in Nat
    OBVIOUS
<1>2. StateBefore(e, Len(r) + 1) = Final(r)
    <2>1. CASE r = <<>>
        BY <2>1, EmptySeq DEF StateBefore, Final
    <2>2. CASE r # <<>>
        <3>1. Len(r) \in Nat \ {0} /\ Last(r) = r[Len(r)]
            BY <2>2, LastIs
        <3>2. r[Len(r)] = e[Len(r)]
            BY <3>1
        <3> QED
            BY <2>2, <3>1, <3>2 DEF StateBefore, Final
    <2> QED
        BY <2>1, <2>2
<1>3. Len(r) + 1 \in 1 .. Len(e)
    BY <1>1
<1> QED
    BY <1>2, <1>3 DEF IsExecution

\* No thread of an execution is ever set back.
LEMMA ExecutionAdvances ==
    ASSUME NEW p \in Programs, NEW e \in Seq(Transitions), IsExecution(p, e),
           NEW j \in 1 .. Len(e), NEW i \in 1 .. j, NEW t \in Tids
    PROVE  e[i].pre.pc[t] <= e[j].pre.pc[t]
<1> DEFINE behind == {k \in i .. j : ~ e[i].pre.pc[t] <= e[k].pre.pc[t]}
<1> SUFFICES ASSUME behind # {}
             PROVE  FALSE
    OBVIOUS
<1>1. PICK k \in behind : \A m \in behind : k <= m
    <2>1. behind \in SUBSET Nat
        OBVIOUS
    <2> HIDE DEF behind
    <2> QED
        BY <2>1, LeastNatural
<1>2. \A m \in 1 .. Len(e) : e[m].pre.pc[t] \in Nat
    BY TransitionAdvances
<1>3. k # i
    BY <1>2
<1>4. k - 1 \in i .. j /\ k - 1 \in 1 .. Len(e) /\ k \in 1 .. Len(e) /\ k # 1
    BY <1>3
<1>5. e[i].pre.pc[t] <= e[k - 1].pre.pc[t]
    BY <1>1, <1>4
<1>6. e[k - 1].pre.pc[t] <= e[k].pre.pc[t]
    <2>1. e[k].pre = e[k - 1].post
        BY <1>4, PreIsStateBefore DEF StateBefore
    <2> QED
        BY <1>4, <2>1, TransitionAdvances, SMTT(30)
<1> QED
    BY <1>2, <1>4, <1>5, <1>6, SMTT(30)

-----------------------------------------------------------------------------
(* The set of all maximal executions *)

\* Executions of a program that agree on what comes before a transition and on the
\* thread that performs it agree on the transition.
LEMMA SameThreadSameTransition ==
    ASSUME NEW p, NEW e, NEW f, IsExecution(p, e), IsExecution(p, f),
           NEW n \in 1 .. Len(e), n \in 1 .. Len(f),
           \A i \in 1 .. n - 1 : e[i] = f[i], e[n].instr.tid = f[n].instr.tid
    PROVE  e[n] = f[n]
<1>1. n # 1 => n - 1 \in 1 .. n - 1
    OBVIOUS
<1>2. StateBefore(e, n) = StateBefore(f, n)
    BY <1>1 DEF StateBefore
<1> QED
    BY <1>2 DEF IsExecution

\* Executions of a program that follow the same schedule for n steps make the same
\* n transitions.
LEMMA SameScheduleSameTransitions ==
    ASSUME NEW p, NEW e \in Seq(Transitions), NEW f \in Seq(Transitions),
           IsExecution(p, e), IsExecution(p, f),
           NEW n \in Nat, n <= Len(e), n <= Len(f),
           \A i \in 1 .. n : e[i].instr.tid = f[i].instr.tid
    PROVE  \A i \in 1 .. n : e[i] = f[i]
<1> DEFINE differ == {i \in 1 .. n : e[i] # f[i]}
<1> SUFFICES ASSUME differ # {}
             PROVE  FALSE
    OBVIOUS
<1>1. PICK i \in differ : \A j \in differ : i <= j
    <2>1. differ \in SUBSET Nat
        OBVIOUS
    <2> HIDE DEF differ
    <2> QED
        BY <2>1, LeastNatural
<1>2. i \in 1 .. Len(e) /\ i \in 1 .. Len(f) /\ e[i].instr.tid = f[i].instr.tid
    OBVIOUS
<1>3. \A j \in 1 .. i - 1 : e[j] = f[j]
    BY <1>1
<1> QED
    BY <1>2, <1>3, SameThreadSameTransition

\* Later transitions of a thread are further on in it.
LEMMA LaterIsFurther ==
    ASSUME NEW p \in Programs, NEW e \in Seq(Transitions), IsExecution(p, e),
           NEW i \in 1 .. Len(e), NEW j \in 1 .. Len(e), i < j
    PROVE  /\ e[i].post = e[i + 1].pre
           /\ e[i].pre.pc[e[i].instr.tid] < e[j].pre.pc[e[i].instr.tid]
<1> DEFINE t == e[i].instr.tid
<1>1. i + 1 \in 1 .. Len(e) /\ i + 1 \in 1 .. j /\ i + 1 # 1
    OBVIOUS
<1>2. e[i + 1].pre = e[i].post
    BY <1>1, PreIsStateBefore DEF StateBefore
<1>3. t \in Tids
    BY ScheduleIs, ElementOfSeq
<1>4. e[i].pre.pc[t] \in Nat /\ e[i].post.pc[t] = e[i].pre.pc[t] + 1
      /\ e[j].pre.pc[t] \in Nat
    BY <1>3, TransitionAdvances
<1>5. e[i + 1].pre.pc[t] <= e[j].pre.pc[t]
    BY <1>1, <1>3, ExecutionAdvances
<1> QED
    BY <1>2, <1>4, <1>5

\* A program has finitely many statements.
LEMMA StatementsAreFinite ==
    ASSUME NEW p \in Programs
    PROVE  IsFiniteSet(StatementsOf(p)) /\ LengthBound(p) \in Nat
<1> DEFINE lines == [t \in Tids |-> {t} \X (1 .. Len(p[t]))]
<1>1. \A t \in Tids : Len(p[t]) \in Nat
    BY ProgramsAssumption
<1>2. \A t \in Tids : IsFiniteSet(lines[t])
    <2> SUFFICES ASSUME NEW t \in Tids
                 PROVE  IsFiniteSet({t} \X (1 .. Len(p[t])))
        OBVIOUS
    <2>1. IsFiniteSet({t})
        BY FS_Singleton
    <2>2. IsFiniteSet(1 .. Len(p[t]))
        BY <1>1, FS_Interval
    <2> QED
        BY <2>1, <2>2, FS_Product
<1>3. IsFiniteSet({lines[t] : t \in Tids})
    <2>1. lines \in Surjection(Tids, {lines[t] : t \in Tids})
        BY DEF Surjection
    <2> HIDE DEF lines
    <2> QED
        BY <2>1, TidsAssumption, FS_Surjection
<1>4. StatementsOf(p) = UNION {lines[t] : t \in Tids}
    BY DEF StatementsOf
<1> HIDE DEF lines
<1>5. IsFiniteSet(StatementsOf(p))
    BY <1>2, <1>3, <1>4, FS_UNION
<1> QED
    BY <1>5, FS_CardinalityType DEF LengthBound

\* Every transition performs a statement of its own, so that no execution is longer
\* than the program.
LEMMA ExecutionIsBounded ==
    ASSUME NEW p \in Programs, NEW e \in Seq(Transitions), IsExecution(p, e)
    PROVE  Len(e) <= LengthBound(p)
<1> DEFINE at == [i \in 1 .. Len(e) |-> <<e[i].instr.tid, e[i].pre.pc[e[i].instr.tid] + 1>>]
<1>1. \A i \in 1 .. Len(e) : e[i].instr.tid \in Tids
    BY ScheduleIs, ElementOfSeq
<1>2. at \in [1 .. Len(e) -> StatementsOf(p)]
    <2> SUFFICES ASSUME NEW i \in 1 .. Len(e)
                 PROVE  <<e[i].instr.tid, e[i].pre.pc[e[i].instr.tid] + 1>> \in StatementsOf(p)
        OBVIOUS
    <2> DEFINE t == e[i].instr.tid
    <2>1. t \in Tids /\ e[i].pre.pc[t] \in Nat
        BY <1>1, TransitionAdvances
    <2>2. e[i].pre.pc[t] < Len(p[t]) /\ Len(p[t]) \in Nat
        BY <2>1, TransitionIs, ProgramsAssumption DEF Enabled, IsEnabled, HasNext
    <2>3. e[i].pre.pc[t] + 1 \in 1 .. Len(p[t])
        BY <2>1, <2>2
    <2> HIDE DEF t
    <2>4. <<t, e[i].pre.pc[t] + 1>> \in StatementsOf(p)
        BY <2>1, <2>3 DEF StatementsOf
    <2> QED
        BY <2>4 DEF t
<1>3. ASSUME NEW j \in 1 .. Len(e), NEW i \in 1 .. j - 1
      PROVE  at[i] # at[j]
    <2> DEFINE t == e[j].instr.tid
    <2> SUFFICES ASSUME e[i].instr.tid = t
                 PROVE  e[i].pre.pc[t] + 1 # e[j].pre.pc[t] + 1
        BY SMTT(30)
    <2>1. t \in Tids /\ i \in 1 .. Len(e) /\ i + 1 \in 1 .. j /\ i + 1 \in 1 .. Len(e) /\ i + 1 # 1
        BY <1>1
    <2>2. e[i + 1].pre.pc[t] = e[i].pre.pc[t] + 1 /\ e[i].pre.pc[t] \in Nat
        <3>1. e[i + 1].pre = e[i].post
            BY <2>1, PreIsStateBefore DEF StateBefore
        <3> QED
            BY <2>1, <3>1, TransitionAdvances, SMTT(30)
    <2>3. e[i + 1].pre.pc[t] <= e[j].pre.pc[t] /\ e[j].pre.pc[t] \in Nat
        BY <2>1, ExecutionAdvances, TransitionAdvances
    <2> QED
        BY <2>2, <2>3
<1>4. at \in Injection(1 .. Len(e), StatementsOf(p))
    <2>1. \A i, j \in 1 .. Len(e) : at[i] = at[j] => i = j
        <3> SUFFICES ASSUME NEW i \in 1 .. Len(e), NEW j \in 1 .. Len(e), i # j
                     PROVE  at[i] # at[j]
            BY Zenon
        <3> HIDE DEF at
        <3>1. i \in 1 .. j - 1 \/ j \in 1 .. i - 1
            OBVIOUS
        <3> QED
            BY <1>3, <3>1
    <2> HIDE DEF at
    <2> QED
        BY <1>2, <2>1 DEF Injection, IsInjective
<1> HIDE DEF at
<1>5. Cardinality(1 .. Len(e)) <= Cardinality(StatementsOf(p))
    <2>1. IsFiniteSet(StatementsOf(p))
        BY StatementsAreFinite
    <2> QED
        BY <1>4, <2>1, FS_Injection
<1>6. Cardinality(1 .. Len(e)) = Len(e)
    <2> DEFINE n == Len(e)
    <2>1. n \in Nat
        OBVIOUS
    <2> HIDE DEF n
    <2>2. Cardinality(1 .. n) = n
        BY <2>1, FS_Interval
    <2> QED
        BY <2>2 DEF n
<1> QED
    BY <1>5, <1>6 DEF LengthBound

\* The executions of program p with n transitions.
ExecutionsOfLength(p, n) == {e \in Seq(Transitions) : Len(e) = n /\ IsExecution(p, e)}

\* The execution without transitions is the only one of length 0, and those of
\* length n are those of length n - 1 extended by an enabled thread.
LEMMA LongerExecutions ==
    ASSUME NEW p \in Programs, NEW n \in Nat
    PROVE  ExecutionsOfLength(p, n) =
               IF n = 0 THEN {<<>>} ELSE UNION {Extensions(p, e) : e \in ExecutionsOfLength(p, n - 1)}
<1>1. CASE n = 0
    <2>1. <<>> \in ExecutionsOfLength(p, 0)
        BY EmptySeq DEF ExecutionsOfLength, IsExecution
    <2>2. ASSUME NEW e \in ExecutionsOfLength(p, 0)
          PROVE  e = <<>>
        BY EmptySeq DEF ExecutionsOfLength
    <2> QED
        BY <1>1, <2>1, <2>2
<1>2. CASE n # 0
    <2>1. ASSUME NEW e \in ExecutionsOfLength(p, n - 1), NEW f \in Extensions(p, e)
          PROVE  f \in ExecutionsOfLength(p, n)
        <3>1. PICK t \in Enabled(p, Final(e)) : f = Append(e, TransitionFrom(p, Final(e), t))
            BY <2>1 DEF Extensions
        <3>2. e \in Seq(Transitions) /\ Len(e) = n - 1 /\ IsExecution(p, e)
            BY DEF ExecutionsOfLength
        <3>3. IsExecution(p, f)
            BY <3>1, <3>2, AppendToExecution
        <3>4. TransitionFrom(p, Final(e), t) \in Transitions
            BY <3>2, FinalType, TransitionFromType
        <3>5. f \in Seq(Transitions) /\ Len(f) = Len(e) + 1
            BY <3>1, <3>2, <3>4, AppendIs
        <3> QED
            BY <3>2, <3>3, <3>5 DEF ExecutionsOfLength
    <2>2. ASSUME NEW f \in ExecutionsOfLength(p, n)
          PROVE  \E e \in ExecutionsOfLength(p, n - 1) : f \in Extensions(p, e)
        <3> DEFINE e == Front(f)
                   t == f[n].instr.tid
        <3>1. f \in Seq(Transitions) /\ Len(f) = n /\ IsExecution(p, f) /\ f # <<>>
            BY <1>2, EmptySeq DEF ExecutionsOfLength
        <3>2. /\ e \in Seq(Transitions) /\ Len(e) = n - 1 /\ IsExecution(p, e)
              /\ \A i \in 1 .. n - 1 : e[i] = f[i]
            BY <3>1, FrontIs, FrontOfExecution
        <3>3. StateBefore(f, n) = Final(e)
            <4>1. CASE n = 1
                BY <3>2, <4>1, EmptySeq DEF StateBefore, Final
            <4>2. CASE n # 1
                <5>1. e # <<>> /\ n - 1 \in 1 .. n - 1
                    BY <1>2, <3>2, <4>2, EmptySeq
                <5>2. Last(e) = f[n - 1]
                    BY <3>2, <5>1, LastIs
                <5> QED
                    BY <4>2, <5>1, <5>2 DEF StateBefore, Final
            <4> QED
                BY <4>1, <4>2
        <3>4. t \in Enabled(p, Final(e)) /\ f[n] = TransitionFrom(p, Final(e), t)
            BY <1>2, <3>1, <3>3 DEF IsExecution
        <3>5. f = Append(e, f[n])
            <4> HIDE DEF e
            <4>1. f[n] \in Transitions
                BY <1>2, <3>1, ElementOfSeq
            <4>2. Append(e, f[n]) \in Seq(Transitions) /\ Len(Append(e, f[n])) = n
                BY <3>2, <4>1, AppendIs
            <4>3. \A i \in 1 .. n : f[i] = Append(e, f[n])[i]
                BY <3>2, <4>1, AppendIs
            <4> QED
                BY <3>1, <4>2, <4>3, SeqEqual
        <3>6. f \in Extensions(p, e)
            BY <3>4, <3>5 DEF Extensions
        <3>7. e \in ExecutionsOfLength(p, n - 1)
            BY <3>2 DEF ExecutionsOfLength
        <3> QED
            BY <3>6, <3>7
    <2> QED
        BY <1>2, <2>1, <2>2
<1> QED
    BY <1>1, <1>2

\* Breadth-first enumeration finds the executions of the program and nothing else.
LEMMA ExecutionsAre ==
    ASSUME NEW p \in Programs
    PROVE  ExecutionsOf(p) = {e \in Seq(Transitions) : IsExecution(p, e)}
<1> DEFINE N == LengthBound(p)
           longer(g) == [n \in 0 .. N |->
                             IF n = 0 THEN {<<>>} ELSE UNION {Extensions(p, e) : e \in g[n - 1]}]
           found == CHOOSE g : g = longer(g)
           all == [n \in 0 .. N |-> ExecutionsOfLength(p, n)]
<1>1. N \in Nat
    BY StatementsAreFinite
<1>2. ExecutionsOf(p) = UNION {found[n] : n \in 0 .. N}
    BY DEF ExecutionsOf
<1> HIDE DEF N
<1>3. all = longer(all)
    <2> SUFFICES ASSUME NEW n \in 0 .. N
                 PROVE  all[n] = IF n = 0 THEN {<<>>} ELSE UNION {Extensions(p, e) : e \in all[n - 1]}
        OBVIOUS
    <2>1. n # 0 => n - 1 \in 0 .. N /\ all[n - 1] = ExecutionsOfLength(p, n - 1)
        BY <1>1
    <2>2. all[n] = ExecutionsOfLength(p, n) /\ n \in Nat
        BY <1>1
    <2> QED
        BY <2>1, <2>2, LongerExecutions
<1>4. found = longer(found)
    <2> HIDE DEF longer, all
    <2> QED
        BY <1>3
<1>5. \A n \in 0 .. N : found[n] = all[n]
    <2> DEFINE bad == {n \in 0 .. N : found[n] # all[n]}
    <2> SUFFICES ASSUME bad # {}
                 PROVE  FALSE
        OBVIOUS
    <2>1. bad \in SUBSET Nat
        BY <1>1
    <2> HIDE DEF bad
    <2>2. PICK n \in bad : \A m \in bad : n <= m
        BY <2>1, LeastNatural
    <2> USE DEF bad
    <2> HIDE DEF found, all
    <2>3. n \in 0 .. N /\ found[n] # all[n]
        OBVIOUS
    <2>4. found[n] = IF n = 0 THEN {<<>>} ELSE UNION {Extensions(p, e) : e \in found[n - 1]}
        BY <1>4, <2>3
    <2>5. all[n] = IF n = 0 THEN {<<>>} ELSE UNION {Extensions(p, e) : e \in all[n - 1]}
        BY <1>3, <2>3
    <2>6. CASE n # 0
        <3>1. n - 1 \in 0 .. N /\ ~ n <= n - 1
            BY <1>1, <2>3, <2>6
        <3>2. found[n - 1] = all[n - 1]
            BY <2>2, <3>1
        <3> QED
            BY <2>3, <2>4, <2>5, <3>2
    <2> QED
        BY <2>3, <2>4, <2>5, <2>6
<1> HIDE DEF found
<1>6. ASSUME NEW e \in Seq(Transitions), IsExecution(p, e)
      PROVE  e \in ExecutionsOf(p)
    <2>1. Len(e) \in 0 .. N
        BY <1>1, <1>6, ExecutionIsBounded DEF N
    <2>2. e \in all[Len(e)]
        BY <1>6, <2>1 DEF ExecutionsOfLength
    <2> QED
        BY <1>2, <1>5, <2>1, <2>2
<1>7. ASSUME NEW e \in ExecutionsOf(p)
      PROVE  e \in Seq(Transitions) /\ IsExecution(p, e)
    <2>1. PICK n \in 0 .. N : e \in found[n]
        BY <1>2
    <2>2. e \in ExecutionsOfLength(p, n)
        BY <1>5, <2>1
    <2> QED
        BY <2>2 DEF ExecutionsOfLength
<1> QED
    BY <1>6, <1>7

\* There are only finitely many.
LEMMA ExecutionsAreFinite ==
    ASSUME NEW p \in Programs
    PROVE  IsFiniteSet(ExecutionsOf(p))
<1> DEFINE N == LengthBound(p)
           some == [n \in 0 .. N |-> ExecutionsOfLength(p, n)]
<1>1. N \in Nat
    BY StatementsAreFinite
<1> HIDE DEF N
<1>2. ASSUME NEW e
      PROVE  IsFiniteSet(Extensions(p, e))
    <2> DEFINE extended == [t \in Enabled(p, Final(e)) |-> Append(e, TransitionFrom(p, Final(e), t))]
    <2>1. IsFiniteSet(Enabled(p, Final(e)))
        BY TidsAssumption, FS_Subset DEF Enabled
    <2>2. extended \in Surjection(Enabled(p, Final(e)), Extensions(p, e))
        BY DEF Surjection, Extensions
    <2> HIDE DEF extended
    <2> QED
        BY <2>1, <2>2, FS_Surjection
<1>3. \A n \in 0 .. N : IsFiniteSet(ExecutionsOfLength(p, n))
    <2> DEFINE bad == {n \in 0 .. N : ~ IsFiniteSet(ExecutionsOfLength(p, n))}
    <2> SUFFICES ASSUME bad # {}
                 PROVE  FALSE
        OBVIOUS
    <2>1. bad \in SUBSET Nat
        BY <1>1
    <2> HIDE DEF bad
    <2>2. PICK n \in bad : \A m \in bad : n <= m
        BY <2>1, LeastNatural
    <2> USE DEF bad
    <2>3. n \in 0 .. N /\ n \in Nat /\ ~ IsFiniteSet(ExecutionsOfLength(p, n))
        BY <1>1
    <2>4. n # 0
        <3>1. IsFiniteSet({<<>>})
            BY FS_Singleton
        <3> QED
            BY <2>3, <3>1, LongerExecutions
    <2> DEFINE shorter == ExecutionsOfLength(p, n - 1)
               extensions == [e \in shorter |-> Extensions(p, e)]
    <2>5. IsFiniteSet(shorter)
        <3>1. n - 1 \in 0 .. N /\ ~ n <= n - 1
            BY <1>1, <2>3, <2>4
        <3> QED
            BY <2>2, <3>1
    <2>6. IsFiniteSet({extensions[e] : e \in shorter})
        <3>1. extensions \in Surjection(shorter, {extensions[e] : e \in shorter})
            BY DEF Surjection
        <3> HIDE DEF extensions, shorter
        <3> QED
            BY <2>5, <3>1, FS_Surjection
    <2>7. ExecutionsOfLength(p, n) = UNION {extensions[e] : e \in shorter}
        BY <2>3, <2>4, LongerExecutions
    <2>8. \A T \in {extensions[e] : e \in shorter} : IsFiniteSet(T)
        BY <1>2
    <2> HIDE DEF extensions, shorter
    <2> QED
        BY <2>3, <2>6, <2>7, <2>8, FS_UNION
<1>4. IsFiniteSet({some[n] : n \in 0 .. N})
    <2>1. some \in Surjection(0 .. N, {some[n] : n \in 0 .. N})
        BY DEF Surjection
    <2>2. IsFiniteSet(0 .. N)
        BY <1>1, FS_Interval
    <2> HIDE DEF some
    <2> QED
        BY <2>1, <2>2, FS_Surjection
<1>5. ExecutionsOf(p) = UNION {some[n] : n \in 0 .. N}
    <2>1. ASSUME NEW e \in ExecutionsOf(p)
          PROVE  e \in UNION {some[n] : n \in 0 .. N}
        <3>1. e \in Seq(Transitions) /\ IsExecution(p, e)
            BY ExecutionsAre
        <3>2. Len(e) \in 0 .. N
            BY <1>1, <3>1, ExecutionIsBounded DEF N
        <3>3. e \in some[Len(e)]
            BY <3>1, <3>2 DEF ExecutionsOfLength
        <3> QED
            BY <3>2, <3>3
    <2>2. ASSUME NEW n \in 0 .. N, NEW e \in some[n]
          PROVE  e \in ExecutionsOf(p)
        BY ExecutionsAre DEF ExecutionsOfLength
    <2> QED
        BY <2>1, <2>2
<1>6. \A T \in {some[n] : n \in 0 .. N} : IsFiniteSet(T)
    BY <1>3
<1> HIDE DEF some
<1> QED
    BY <1>4, <1>5, <1>6, FS_UNION

=============================================================================
