-------------------------- MODULE HappensBeforeProofs --------------------------
(***************************************************************************)
(* Proofs about dependence and the happens-before relation.  Instructions  *)
(* that are not dependent commute.  The clocks that Dpor keeps, which are  *)
(* built in the order of the transitions, cut back when the search         *)
(* backtracks and resized when the number of threads changes, are the      *)
(* transitive closure of dependence, for every program and at all times.   *)
(***************************************************************************)
EXTENDS ClockInvariant, DporProofs

-----------------------------------------------------------------------------
(* Dependence *)

\* What performing the next instruction of an enabled thread leaves alone.
LEMMA PerformIs ==
    ASSUME NEW p \in Programs, NEW s \in States, NEW t \in Enabled(p, s)
    PROVE  LET post == Perform(s, NextInstr(p, s, t))
           IN  /\ post \in States
               /\ post.pc[t] = s.pc[t] + 1
               /\ \A u \in Tids : u # t => post.pc[u] = s.pc[u]
               /\ \A u \in Tids : post.pc[u] >= s.pc[u]
<1> DEFINE instr == NextInstr(p, s, t)
           post == Perform(s, instr)
<1>1. post \in States
    BY TransitionFromType DEF TransitionFrom, Transitions
<1>2. instr.tid = t /\ t \in Tids
    BY DEF NextInstr, Enabled
<1>3. post.pc = [s.pc EXCEPT ![t] = @ + 1]
    <2> HIDE DEF instr
    <2> QED
        BY <1>2 DEF Perform
<1>4. s.pc \in [Tids -> Nat]
    BY DEF States
<1> HIDE DEF post
<1> QED
    BY <1>1, <1>2, <1>3, <1>4 DEF post, instr

\* A thread goes on to the same instruction after a step of another one.
LEMMA NextInstrStays ==
    ASSUME NEW p \in Programs, NEW s \in States, NEW t \in Enabled(p, s),
           NEW u \in Tids, u # t, HasNext(p, s, u)
    PROVE  LET post == Perform(s, NextInstr(p, s, t))
           IN  HasNext(p, post, u) /\ NextInstr(p, post, u) = NextInstr(p, s, u)
<1> DEFINE post == Perform(s, NextInstr(p, s, t))
<1>1. /\ post \in States
      /\ post.pc[u] = s.pc[u]
      /\ \A v \in Tids : post.pc[v] >= s.pc[v]
    BY PerformIs
<1> HIDE DEF post
<1>2. /\ s.pc[u] \in Nat /\ s.pc[u] < Len(p[u]) /\ p[u] \in Seq(Statements)
      /\ \A un \in p[u][s.pc[u] + 1].after : s.pc[un[1]] >= un[2]
    BY ProgramsAssumption DEF HasNext, Reached, States
<1>3. p[u][s.pc[u] + 1] \in Statements
    BY <1>2, ElementOfSeq
<1>4. ASSUME NEW un \in p[u][s.pc[u] + 1].after
      PROVE  post.pc[un[1]] >= un[2]
    <2>1. un[1] \in Tids /\ un[2] \in Nat
        BY <1>3 DEF Statements
    <2>2. s.pc[un[1]] \in Nat /\ post.pc[un[1]] \in Nat
        BY <1>1, <2>1 DEF States
    <2>3. s.pc[un[1]] >= un[2] /\ post.pc[un[1]] >= s.pc[un[1]]
        BY <1>1, <1>2, <2>1
    <2> QED
        BY <2>1, <2>2, <2>3
<1>5. HasNext(p, post, u)
    BY <1>1, <1>2, <1>4 DEF HasNext, Reached
<1>6. NextInstr(p, post, u) = NextInstr(p, s, u)
    BY <1>1 DEF NextInstr
<1> QED
    BY <1>5, <1>6 DEF post

\* Which owners two independent instructions leave does not depend on their
\* order, and the one takes no lock that the other waits for.
LEMMA OwnersCommute ==
    ASSUME NEW s \in States, NEW i1 \in Instructions, NEW i2 \in Instructions,
           ~Dependent(i1, i2)
    PROVE  /\ Perform(Perform(s, i1), i2).owner = Perform(Perform(s, i2), i1).owner
           /\ IsLock(i2) => Perform(s, i1).owner[i2.obj] = s.owner[i2.obj]
<1>1. /\ s.owner \in [Objects -> Tids \cup {NoOwner}]
      /\ i1.obj \in Objects /\ i2.obj \in Objects
      /\ i1.tid \in Tids /\ i2.tid \in Tids
    BY DEF States, Instructions
<1>2. CASE i1.obj # i2.obj
    <2>1. CASE i1.op \notin LockOperations \/ i2.op \notin LockOperations
        BY <1>1, <1>2, <2>1 DEF Perform, LockOperations, IsLock
    <2>2. CASE i1.op \in LockOperations /\ i2.op \in LockOperations
        BY <1>1, <1>2, <2>2 DEF Perform, LockOperations, IsLock
    <2> QED
        BY <2>1, <2>2
<1>3. CASE i1.obj = i2.obj
    <2>1. i1.op # "Lock" /\ i2.op # "Lock"
        BY <1>3 DEF Dependent, SameOperand, IsLock
    <2> QED
        BY <1>1, <1>3, <2>1 DEF Perform, IsLock
<1> QED
    BY <1>2, <1>3

\* Dependent is a valid dependence relation (dependence.cpp:97-104): of two
\* enabled instructions that are not dependent, neither disables or changes the
\* other, and both orders lead to the same state.  Sleep sets and the choice of
\* backtrack points rest on this.
THEOREM IndependentInstructionsCommute ==
    ASSUME NEW p \in Programs, NEW s \in States,
           NEW t \in Enabled(p, s), NEW u \in Enabled(p, s),
           ~Dependent(NextInstr(p, s, t), NextInstr(p, s, u))
    PROVE  LET it == NextInstr(p, s, t)
               iu == NextInstr(p, s, u)
           IN  /\ u \in Enabled(p, Perform(s, it))
               /\ t \in Enabled(p, Perform(s, iu))
               /\ NextInstr(p, Perform(s, it), u) = iu
               /\ NextInstr(p, Perform(s, iu), t) = it
               /\ Perform(Perform(s, it), iu) = Perform(Perform(s, iu), it)
<1> DEFINE it == NextInstr(p, s, t)
           iu == NextInstr(p, s, u)
<1>1. /\ t \in Tids /\ u \in Tids /\ HasNext(p, s, t) /\ HasNext(p, s, u)
      /\ it.tid = t /\ iu.tid = u
    BY DEF Enabled, IsEnabled, NextInstr
<1>2. it \in Instructions /\ iu \in Instructions
    BY TransitionFromType DEF TransitionFrom, Transitions
<1>3. t # u /\ ~Dependent(it, iu) /\ ~Dependent(iu, it)
    BY <1>1 DEF Dependent, SameThread, SameOperand
<1>4. /\ HasNext(p, Perform(s, it), u) /\ NextInstr(p, Perform(s, it), u) = iu
      /\ HasNext(p, Perform(s, iu), t) /\ NextInstr(p, Perform(s, iu), t) = it
    BY <1>1, <1>3, NextInstrStays
<1>5. /\ it.op = "Lock" => s.owner[it.obj] = NoOwner
      /\ iu.op = "Lock" => s.owner[iu.obj] = NoOwner
    BY DEF Enabled, IsEnabled
<1>6. /\ s.pc \in [Tids -> Nat]
      /\ s = [pc |-> s.pc, owner |-> s.owner]
    BY DEF States
<1> HIDE DEF it, iu
<1>7. u \in Enabled(p, Perform(s, it))
    BY <1>1, <1>2, <1>3, <1>4, <1>5, OwnersCommute DEF Enabled, IsEnabled, IsLock
<1>8. t \in Enabled(p, Perform(s, iu))
    BY <1>1, <1>2, <1>3, <1>4, <1>5, OwnersCommute DEF Enabled, IsEnabled, IsLock
<1>9. Perform(Perform(s, it), iu) = Perform(Perform(s, iu), it)
    <2>1. Perform(Perform(s, it), iu).owner = Perform(Perform(s, iu), it).owner
        BY <1>2, <1>3, OwnersCommute
    <2>2. Perform(Perform(s, it), iu).pc = Perform(Perform(s, iu), it).pc
        BY <1>1, <1>3, <1>6 DEF Perform
    <2>3. \A r, i : Perform(r, i) = [pc |-> Perform(r, i).pc, owner |-> Perform(r, i).owner]
        BY DEF Perform
    <2> QED
        BY <2>1, <2>2, <2>3
<1> QED
    BY <1>4, <1>7, <1>8, <1>9 DEF it, iu

-----------------------------------------------------------------------------
(* Maxima and minima *)

\* A nonempty set of naturals has a minimum,
LEMMA MinIs ==
    ASSUME NEW S \in SUBSET Nat, S # {}
    PROVE  Min(S) \in S /\ \A x \in S : Min(S) <= x
<1>1. \E x \in S : \A y \in S : x <= y
    BY LeastNatural
<1> QED
    BY <1>1 DEF Min

\* and a bounded one a maximum.
LEMMA MaxIs ==
    ASSUME NEW n \in Nat, NEW S \in SUBSET (0 .. n), S # {}
    PROVE  Max(S) \in S /\ \A x \in S : x <= Max(S)
<1> DEFINE below == {n - x : x \in S}
<1>1. below \in SUBSET Nat /\ below # {}
    <2>1. \A x \in S : n - x \in Nat
        OBVIOUS
    <2> QED
        BY <2>1
<1> HIDE DEF below
<1>2. PICK m \in below : \A k \in below : m <= k
    BY <1>1, LeastNatural
<1> USE DEF below
<1>3. PICK x \in S : m = n - x
    OBVIOUS
<1>4. ASSUME NEW y \in S
      PROVE  x >= y
    <2>1. m <= n - y
        BY <1>2
    <2> QED
        BY <1>3, <2>1
<1>5. \E z \in S : \A y \in S : z >= y
    BY <1>4
<1>6. Max(S) \in S /\ \A y \in S : Max(S) >= y
    BY <1>5 DEF Max
<1>7. Max(S) \in 0 .. n /\ \A y \in S : y \in 0 .. n
    BY <1>6
<1> QED
    BY <1>6, <1>7

\* The last transition of a thread in a set of them is in the set, by the thread,
\* and there is no later one.
LEMMA LastByIs ==
    ASSUME NEW e, NEW n \in Nat, NEW js \in SUBSET (1 .. n), NEW t
    PROVE  /\ LastBy(e, js, t) \in 0 .. n
           /\ LastBy(e, js, t) # 0 =>
                  LastBy(e, js, t) \in js /\ e[LastBy(e, js, t)].instr.tid = t
           /\ \A j \in js : e[j].instr.tid = t => j <= LastBy(e, js, t)
<1> DEFINE S == {0} \cup {j \in js : e[j].instr.tid = t}
<1>1. S \in SUBSET (0 .. n) /\ S # {}
    <2>1. \A j \in js : j \in 0 .. n
        OBVIOUS
    <2>2. \A j \in S : j \in 0 .. n
        BY <2>1
    <2> QED
        BY <2>2
<1>2. LastBy(e, js, t) = Max(S)
    BY DEF LastBy
<1>3. Max(S) \in S /\ \A x \in S : x <= Max(S)
    <2> HIDE DEF S
    <2> QED
        BY <1>1, MaxIs
<1> QED
    BY <1>1, <1>2, <1>3

\* These facts determine it.
LEMMA LastByIsOnly ==
    ASSUME NEW e \in Seq(Transitions), NEW js \in SUBSET (1 .. Len(e)), NEW t, NEW m \in 0 .. Len(e),
           m # 0 => m \in js /\ e[m].instr.tid = t,
           \A j \in js : e[j].instr.tid = t => j <= m
    PROVE  LastBy(e, js, t) = m
<1> DEFINE last == LastBy(e, js, t)
<1>1. /\ last \in 0 .. Len(e)
      /\ last # 0 => last \in js /\ e[last].instr.tid = t
      /\ \A j \in js : e[j].instr.tid = t => j <= last
    BY LastByIs
<1> HIDE DEF last
<1>2. last <= m
    BY <1>1
<1>3. m <= last
    BY <1>1
<1>4. last = m
    BY <1>1, <1>2, <1>3
<1> QED
    BY <1>4 DEF last

-----------------------------------------------------------------------------
(* Happens-before *)

\* The functions whose values are b at 0 and then those that F leads to, each in
\* the set of values that T gives for it.
Recursions(N, V, T, b, F) ==
    {f \in [0 .. N -> V] : /\ f[0] = b
                           /\ \A n \in 1 .. N : f[n] = F[<<n, f[n - 1]>>]
                           /\ \A n \in 0 .. N : f[n] \in T[n]}

\* Definition by recursion over a bounded natural, with a type for each value.
LEMMA RecursionExists ==
    ASSUME NEW N \in Nat, NEW V, NEW T \in [0 .. N -> SUBSET V], NEW b \in T[0], NEW F,
           \A n \in 1 .. N : \A v \in T[n - 1] : F[<<n, v>>] \in T[n]
    PROVE  Recursions(N, V, T, b, F) # {}
<1> DEFINE solves(f, m) ==
               /\ f \in [0 .. m -> V]
               /\ f[0] = b
               /\ \A n \in 1 .. m : f[n] = F[<<n, f[n - 1]>>]
               /\ \A n \in 0 .. m : f[n] \in T[n]
           bad == {m \in 0 .. N : ~ \E f : solves(f, m)}
<1> SUFFICES ASSUME bad # {}
             PROVE  FALSE
    BY DEF Recursions
<1>1. bad \in SUBSET Nat
    OBVIOUS
<1> HIDE DEF bad
<1>2. PICK m \in bad : \A k \in bad : m <= k
    BY <1>1, LeastNatural
<1> USE DEF bad
<1>3. m \in 0 .. N /\ ~ \E f : solves(f, m)
    OBVIOUS
<1>4. m # 0
    <2> SUFFICES ASSUME m = 0
                 PROVE  FALSE
        OBVIOUS
    <2> DEFINE f == [n \in 0 .. 0 |-> b]
    <2>1. f[0] = b /\ f \in [0 .. 0 -> V] /\ 0 \in 0 .. N
        OBVIOUS
    <2> HIDE DEF f
    <2>2. solves(f, 0)
        BY <2>1
    <2> QED
        BY <1>3, <2>2
<1>5. PICK g : solves(g, m - 1)
    <2>1. m - 1 \in 0 .. N /\ ~ m <= m - 1
        BY <1>3, <1>4
    <2> QED
        BY <1>2, <2>1
<1> DEFINE f == [n \in 0 .. m |-> IF n = m THEN F[<<m, g[m - 1]>>] ELSE g[n]]
<1>6. f \in [0 .. m -> V] /\ f[m] = F[<<m, g[m - 1]>>] /\ \A n \in 0 .. m - 1 : f[n] = g[n]
    <2>1. m \in 0 .. m /\ m \in 1 .. N /\ m - 1 \in 0 .. m - 1 /\ \A n \in 0 .. m - 1 : n \in 0 .. m /\ n # m
        BY <1>3, <1>4
    <2>2. F[<<m, g[m - 1]>>] \in V
        <3>1. g[m - 1] \in T[m - 1]
            BY <1>5, <2>1
        <3>2. F[<<m, g[m - 1]>>] \in T[m] /\ T[m] \in SUBSET V
            BY <1>3, <2>1, <3>1
        <3> QED
            BY <3>2
    <2>3. \A n \in 0 .. m : n # m => g[n] \in V
        <3>1. \A n \in 0 .. m : n # m => n \in 0 .. m - 1
            BY <1>3
        <3> QED
            BY <1>5, <3>1
    <2> QED
        BY <2>1, <2>2, <2>3
<1> HIDE DEF f
<1>7. m - 1 \in 0 .. m - 1 /\ m \in 1 .. N /\ 0 \in 0 .. m - 1
    BY <1>3, <1>4
<1>8. \A n \in 1 .. m : f[n] = F[<<n, f[n - 1]>>]
    <2> SUFFICES ASSUME NEW n \in 1 .. m
                 PROVE  f[n] = F[<<n, f[n - 1]>>]
        OBVIOUS
    <2>1. n - 1 \in 0 .. m - 1
        BY <1>3
    <2>2. CASE n = m
        BY <1>6, <2>1, <2>2
    <2>3. CASE n # m
        <3>1. n \in 1 .. m - 1 /\ n \in 0 .. m - 1
            BY <1>3, <2>3
        <3>2. g[n] = F[<<n, g[n - 1]>>]
            BY <1>5, <3>1
        <3> QED
            BY <1>6, <2>1, <3>1, <3>2
    <2> QED
        BY <2>2, <2>3
<1>9. \A n \in 0 .. m : f[n] \in T[n]
    <2>1. f[m] \in T[m]
        BY <1>5, <1>6, <1>7
    <2>2. \A n \in 0 .. m - 1 : f[n] \in T[n]
        BY <1>5, <1>6
    <2>3. \A n \in 0 .. m : n = m \/ n \in 0 .. m - 1
        BY <1>3
    <2> QED
        BY <2>1, <2>2, <2>3
<1>10. solves(f, m)
    BY <1>5, <1>6, <1>7, <1>8, <1>9
<1> QED
    BY <1>3, <1>10

\* The transitions before i in what is already known for the first n of them.
LEMMA BeforeIs ==
    ASSUME NEW e \in Seq(Transitions)
    PROVE  /\ Before(e) \in Seq(SUBSET Nat)
           /\ Len(Before(e)) = Len(e)
           /\ \A i \in 1 .. Len(e) : Before(e)[i] = Past(e, i, e[i].instr)
<1> DEFINE N == Len(e)
           dep(n) == {k \in 1 .. n - 1 : Dependent(e[k].instr, e[n].instr)}
           ofLast(s, n) == UNION {{j} \cup s[j] : j \in dep(n)}
           longer(g) == [n \in 0 .. N |-> IF n = 0 THEN <<>> ELSE Append(g[n - 1], ofLast(g[n - 1], n))]
           before == CHOOSE g : g = longer(g)
           V == Seq(SUBSET Nat)
           T == [n \in 0 .. N |-> {s \in V : Len(s) = n}]
           F == [ns \in (1 .. N) \X Seq(SUBSET Nat) |-> Append(ns[2], ofLast(ns[2], ns[1]))]
<1>1. N \in Nat
    OBVIOUS
<1>2. Before(e) = before[N]
    BY DEF Before
<1>3. ASSUME NEW n \in 1 .. N, NEW s \in T[n - 1]
      PROVE  /\ s \in Seq(SUBSET Nat) /\ Len(s) = n - 1
             /\ ofLast(s, n) \in SUBSET Nat
             /\ Append(s, ofLast(s, n)) \in T[n]
    <2>1. s \in Seq(SUBSET Nat) /\ Len(s) = n - 1
        BY <1>1
    <2>2. ofLast(s, n) \in SUBSET Nat
        <3>1. \A j \in dep(n) : j \in 1 .. Len(s)
            BY <2>1
        <3>2. \A j \in dep(n) : {j} \cup s[j] \subseteq Nat
            BY <2>1, <3>1, ElementOfSeq
        <3> HIDE DEF dep
        <3> QED
            BY <3>2
    <2> HIDE DEF ofLast
    <2>3. Append(s, ofLast(s, n)) \in Seq(SUBSET Nat) /\ Len(Append(s, ofLast(s, n))) = n
        BY <2>1, <2>2, AppendIs
    <2> QED
        BY <1>1, <2>1, <2>2, <2>3
<1>4. \E g : g = longer(g) /\ \A n \in 0 .. N : g[n] \in T[n]
    <2>1. <<>> \in T[0] /\ T \in [0 .. N -> SUBSET V]
        BY <1>1
    <2>2. \A n \in 1 .. N : \A s \in T[n - 1] : F[<<n, s>>] = Append(s, ofLast(s, n))
        BY <1>3
    <2>3. \A n \in 1 .. N : \A s \in T[n - 1] : Append(s, ofLast(s, n)) \in T[n]
        BY <1>3
    <2> HIDE DEF V, T, F, ofLast, N
    <2>4. \A n \in 1 .. N : \A s \in T[n - 1] : F[<<n, s>>] \in T[n]
        BY <2>2, <2>3
    <2>5. PICK g \in [0 .. N -> V] : /\ g[0] = <<>>
                                     /\ \A n \in 1 .. N : g[n] = F[<<n, g[n - 1]>>]
                                     /\ \A n \in 0 .. N : g[n] \in T[n]
        <3> DEFINE none == <<>>
        <3>1. none \in T[0]
            BY <2>1
        <3> HIDE DEF none
        <3>2. Recursions(N, V, T, none, F) # {}
            BY <1>1, <2>1, <2>4, <3>1, RecursionExists
        <3> QED
            BY <3>2 DEF none, Recursions
    <2>6. \A n \in 1 .. N : g[n] = Append(g[n - 1], ofLast(g[n - 1], n))
        <3> SUFFICES ASSUME NEW n \in 1 .. N
                     PROVE  F[<<n, g[n - 1]>>] = Append(g[n - 1], ofLast(g[n - 1], n))
            BY <2>5
        <3>1. n - 1 \in 0 .. N
            BY <1>1
        <3>2. g[n - 1] \in T[n - 1]
            BY <2>5, <3>1
        <3> QED
            BY <2>2, <3>2
    <2>7. \A n \in 0 .. N : g[n] = IF n = 0 THEN <<>> ELSE Append(g[n - 1], ofLast(g[n - 1], n))
        <3>1. \A n \in 0 .. N : n = 0 \/ n \in 1 .. N
            BY <1>1
        <3> QED
            BY <2>5, <2>6, <3>1
    <2>8. g = longer(g)
        BY <2>5, <2>7
    <2> QED
        BY <2>5, <2>8
<1> HIDE DEF N, ofLast, T, F
<1>5. before = longer(before)
    <2> HIDE DEF longer
    <2> QED
        BY <1>4
<1>6. \A n \in 1 .. N : before[n] = Append(before[n - 1], ofLast(before[n - 1], n))
    <2> HIDE DEF before
    <2>1. \A n \in 1 .. N : n \in 0 .. N /\ n # 0
        BY <1>1
    <2> QED
        BY <1>5, <2>1
<1>7. before[0] = <<>>
    <2> HIDE DEF before
    <2> QED
        BY <1>1, <1>5
<1> HIDE DEF before, longer
<1>8. \A n \in 0 .. N : before[n] \in T[n]
    <2> DEFINE bad == {n \in 0 .. N : before[n] \notin T[n]}
    <2> SUFFICES ASSUME bad # {}
                 PROVE  FALSE
        OBVIOUS
    <2>1. bad \in SUBSET Nat
        BY <1>1
    <2> HIDE DEF bad
    <2>2. PICK n \in bad : \A m \in bad : n <= m
        BY <2>1, LeastNatural
    <2> USE DEF bad
    <2>3. n \in 0 .. N /\ before[n] \notin T[n]
        OBVIOUS
    <2>4. n # 0
        <3>1. <<>> \in T[0]
            BY <1>1 DEF T
        <3> QED
            BY <1>7, <2>3, <3>1
    <2>5. n - 1 \in 0 .. N /\ ~ n <= n - 1 /\ n \in 1 .. N
        BY <1>1, <2>3, <2>4
    <2>6. before[n - 1] \in T[n - 1]
        BY <2>2, <2>5
    <2>7. Append(before[n - 1], ofLast(before[n - 1], n)) \in T[n]
        BY <1>3, <2>5, <2>6
    <2> QED
        BY <1>6, <2>3, <2>5, <2>7
<1>9. \A n \in 1 .. N :
          /\ \A j \in 1 .. n - 1 : before[n][j] = before[n - 1][j]
          /\ before[n][n] = ofLast(before[n - 1], n)
    <2> SUFFICES ASSUME NEW n \in 1 .. N
                 PROVE  /\ \A j \in 1 .. n - 1 : before[n][j] = before[n - 1][j]
                        /\ before[n][n] = ofLast(before[n - 1], n)
        OBVIOUS
    <2>1. before[n - 1] \in T[n - 1]
        BY <1>1, <1>8
    <2>2. /\ before[n - 1] \in Seq(SUBSET Nat) /\ Len(before[n - 1]) = n - 1
          /\ ofLast(before[n - 1], n) \in SUBSET Nat
        BY <1>3, <2>1
    <2>3. PICK s, x : s = before[n - 1] /\ x = ofLast(before[n - 1], n)
        OBVIOUS
    <2>4. s \in Seq(SUBSET Nat) /\ Len(s) = n - 1 /\ x \in SUBSET Nat /\ before[n] = Append(s, x)
        BY <1>6, <2>2, <2>3
    <2>5. n - 1 + 1 = n
        BY <1>1
    <2>6. (\A j \in 1 .. n - 1 : before[n][j] = s[j]) /\ before[n][n] = x
        BY <2>4, <2>5, AppendIs
    <2> QED
        BY <2>3, <2>6
<1>10. \A n \in 0 .. N : \A j \in 1 .. n : before[n][j] = before[N][j]
    <2> DEFINE bad == {d \in 0 .. N : ~ \A j \in 1 .. N - d : before[N - d][j] = before[N][j]}
    <2>1. bad = {}
        <3> SUFFICES ASSUME bad # {}
                     PROVE  FALSE
            OBVIOUS
        <3>1. bad \in SUBSET Nat
            BY <1>1
        <3> HIDE DEF bad
        <3>2. PICK d \in bad : \A m \in bad : d <= m
            BY <3>1, LeastNatural
        <3> USE DEF bad
        <3>3. d \in 0 .. N /\ ~ \A j \in 1 .. N - d : before[N - d][j] = before[N][j]
            OBVIOUS
        <3>4. d # 0
            BY <1>1, <3>3
        <3>5. d - 1 \in 0 .. N /\ ~ d <= d - 1 /\ N - d + 1 \in 1 .. N /\ N - (d - 1) = N - d + 1
            BY <1>1, <3>3, <3>4
        <3>6. \A j \in 1 .. N - d + 1 : before[N - d + 1][j] = before[N][j]
            BY <3>2, <3>5
        <3>7. \A j \in 1 .. N - d : before[N - d + 1][j] = before[N - d][j]
            <4>1. PICK n : n = N - d + 1
                OBVIOUS
            <4>2. n \in 1 .. N /\ n - 1 = N - d
                BY <1>1, <3>3, <3>5, <4>1
            <4>3. \A j \in 1 .. n - 1 : before[n][j] = before[n - 1][j]
                BY <1>9, <4>2
            <4> QED
                BY <4>1, <4>2, <4>3
        <3>8. \A j \in 1 .. N - d : j \in 1 .. N - d + 1
            BY <1>1, <3>3
        <3> QED
            BY <3>3, <3>6, <3>7, <3>8
    <2> SUFFICES ASSUME NEW n \in 0 .. N
                 PROVE  \A j \in 1 .. n : before[n][j] = before[N][j]
        OBVIOUS
    <2>2. N - n \in 0 .. N /\ N - (N - n) = n
        BY <1>1
    <2> QED
        BY <2>1, <2>2
<1>11. ASSUME NEW i \in 1 .. N
       PROVE  before[N][i] = Past(e, i, e[i].instr)
    <2>1. i \in 0 .. N /\ i - 1 \in 0 .. N /\ i \in 1 .. i
        BY <1>1
    <2>2. before[N][i] = ofLast(before[i - 1], i)
        BY <1>9, <1>10, <2>1
    <2>3. \A j \in dep(i) : before[i - 1][j] = before[N][j]
        BY <1>10, <2>1
    <2>4. ofLast(before[i - 1], i) = UNION {{j} \cup before[N][j] : j \in dep(i)}
        <3> HIDE DEF dep
        <3> QED
            BY <2>3 DEF ofLast
    <2> QED
        BY <1>2, <2>2, <2>4 DEF Past
<1>12. before[N] \in Seq(SUBSET Nat) /\ Len(before[N]) = N
    <2>1. N \in 0 .. N
        BY <1>1
    <2> QED
        BY <1>8, <2>1 DEF T
<1> QED
    BY <1>2, <1>11, <1>12 DEF N

\* What happens before a transition comes before it in the execution.
LEMMA BeforeIsEarlier ==
    ASSUME NEW e \in Seq(Transitions), NEW i \in 1 .. Len(e)
    PROVE  Before(e)[i] \in SUBSET (1 .. i - 1)
<1> DEFINE bad == {k \in 1 .. Len(e) : ~ Before(e)[k] \subseteq 1 .. k - 1}
<1> SUFFICES ASSUME bad # {}
             PROVE  FALSE
    OBVIOUS
<1>1. bad \in SUBSET Nat
    OBVIOUS
<1> HIDE DEF bad
<1>2. PICK k \in bad : \A m \in bad : k <= m
    BY <1>1, LeastNatural
<1> USE DEF bad
<1>3. k \in 1 .. Len(e) /\ ~ Before(e)[k] \subseteq 1 .. k - 1
    OBVIOUS
<1>4. PICK j \in 1 .. k - 1 : ~ {j} \cup Before(e)[j] \subseteq 1 .. k - 1
    BY <1>3, BeforeIs, SMTT(30) DEF Past
<1>5. j \in 1 .. Len(e) /\ ~ k <= j
    BY <1>3
<1>6. Before(e)[j] \subseteq 1 .. j - 1
    BY <1>2, <1>5
<1>7. 1 .. j - 1 \subseteq 1 .. k - 1 /\ j \in 1 .. k - 1
    BY <1>5
<1> QED
    BY <1>4, <1>6, <1>7

\* The past of an instruction at i lies before i.
LEMMA PastIsEarlier ==
    ASSUME NEW e \in Seq(Transitions), NEW i \in 1 .. Len(e) + 1, NEW instr
    PROVE  Past(e, i, instr) \in SUBSET (1 .. i - 1)
<1> SUFFICES ASSUME NEW j \in 1 .. i - 1
             PROVE  {j} \cup Before(e)[j] \subseteq 1 .. i - 1
    BY DEF Past
<1>1. j \in 1 .. Len(e) /\ 1 .. j - 1 \subseteq 1 .. i - 1
    OBVIOUS
<1>2. Before(e)[j] \subseteq 1 .. j - 1
    BY <1>1, BeforeIsEarlier
<1> QED
    BY <1>1, <1>2

\* Happens-before is transitive.
LEMMA BeforeIsTransitive ==
    ASSUME NEW e \in Seq(Transitions), NEW i \in 1 .. Len(e),
           NEW k \in Before(e)[i]
    PROVE  Before(e)[k] \subseteq Before(e)[i]
<1> DEFINE bad == {n \in 1 .. Len(e) : \E m \in Before(e)[n] : ~ Before(e)[m] \subseteq Before(e)[n]}
<1> SUFFICES ASSUME bad # {}
             PROVE  FALSE
    OBVIOUS
<1>1. bad \in SUBSET Nat
    OBVIOUS
<1> HIDE DEF bad
<1>2. PICK n \in bad : \A m \in bad : n <= m
    BY <1>1, LeastNatural
<1> USE DEF bad
<1>3. PICK m \in Before(e)[n] : ~ Before(e)[m] \subseteq Before(e)[n]
    OBVIOUS
<1>4. n \in 1 .. Len(e)
    OBVIOUS
<1>5. Before(e)[n] = UNION {{j} \cup Before(e)[j] :
                                j \in {j \in 1 .. n - 1 : Dependent(e[j].instr, e[n].instr)}}
    BY <1>4, BeforeIs DEF Past
<1>6. PICK j \in 1 .. n - 1 : m \in {j} \cup Before(e)[j] /\ Before(e)[j] \subseteq Before(e)[n]
    BY <1>5
<1>7. j \in 1 .. Len(e) /\ ~ n <= j
    BY <1>4
<1>8. j \notin bad
    BY <1>2, <1>7
<1> QED
    BY <1>3, <1>6, <1>7, <1>8

\* The transitions of a thread happen in their order.
LEMMA ThreadIsOrdered ==
    ASSUME NEW e \in Seq(Transitions), NEW i \in 1 .. Len(e), NEW j \in 1 .. i - 1,
           e[j].instr.tid = e[i].instr.tid
    PROVE  j \in Before(e)[i]
<1>1. Dependent(e[j].instr, e[i].instr)
    BY DEF Dependent, SameThread
<1> QED
    BY <1>1, BeforeIs DEF Past

\* What happens before a transition does not depend on what comes after it.
LEMMA BeforeOfPrefix ==
    ASSUME NEW e \in Seq(Transitions), NEW f \in Seq(Transitions), NEW n \in Nat,
           n <= Len(e), n <= Len(f), \A i \in 1 .. n : e[i] = f[i],
           NEW i \in 1 .. n
    PROVE  Before(e)[i] = Before(f)[i]
<1> DEFINE bad == {k \in 1 .. n : Before(e)[k] # Before(f)[k]}
<1> SUFFICES ASSUME bad # {}
             PROVE  FALSE
    OBVIOUS
<1>1. bad \in SUBSET Nat
    OBVIOUS
<1> HIDE DEF bad
<1>2. PICK k \in bad : \A m \in bad : k <= m
    BY <1>1, LeastNatural
<1> USE DEF bad
<1>3. k \in 1 .. n /\ k \in 1 .. Len(e) /\ k \in 1 .. Len(f) /\ Before(e)[k] # Before(f)[k]
    OBVIOUS
<1>4. \A j \in 1 .. k - 1 : j \in 1 .. n /\ ~ k <= j
    BY <1>3
<1>5. \A j \in 1 .. k - 1 : e[j] = f[j] /\ Before(e)[j] = Before(f)[j]
    BY <1>2, <1>4
<1>6. e[k] = f[k]
    BY <1>3
<1>7. Past(e, k, e[k].instr) = Past(f, k, f[k].instr)
    BY <1>5, <1>6 DEF Past
<1> QED
    BY <1>3, <1>7, BeforeIs

-----------------------------------------------------------------------------
(* The clock that create_clock makes *)

\* The part of the past of instr that is known from the transitions from k on.
PastFrom(e, i, instr, k) ==
    UNION {{j} \cup Before(e)[j] : j \in {m \in k .. i - 1 : Dependent(e[m].instr, instr)}}

\* What is in the past through the transitions from k on is closed under the past.
LEMMA PastFromIs ==
    ASSUME NEW e \in Seq(Transitions), NEW i \in 1 .. Len(e) + 1, NEW instr, NEW k \in 1 .. i
    PROVE  /\ PastFrom(e, i, instr, k) \in SUBSET (1 .. i - 1)
           /\ \A j \in PastFrom(e, i, instr, k) :
                  Before(e)[j] \subseteq PastFrom(e, i, instr, k)
<1> DEFINE D == {m \in k .. i - 1 : Dependent(e[m].instr, instr)}
<1>1. ASSUME NEW j \in D
      PROVE  {j} \cup Before(e)[j] \subseteq 1 .. i - 1
    <2>1. j \in 1 .. Len(e) /\ j \in 1 .. i - 1 /\ 1 .. j - 1 \subseteq 1 .. i - 1
        OBVIOUS
    <2>2. Before(e)[j] \subseteq 1 .. j - 1
        BY <2>1, BeforeIsEarlier
    <2> QED
        BY <2>1, <2>2
<1>2. PastFrom(e, i, instr, k) = UNION {{j} \cup Before(e)[j] : j \in D}
    BY DEF PastFrom
<1>3. ASSUME NEW j \in D, NEW m \in {j} \cup Before(e)[j]
      PROVE  Before(e)[m] \subseteq {j} \cup Before(e)[j]
    <2>1. j \in 1 .. Len(e)
        OBVIOUS
    <2> QED
        BY <2>1, BeforeIsTransitive
<1> HIDE DEF D
<1> QED
    BY <1>1, <1>2, <1>3

\* The last transition of a thread in two sets is the later of those in each.
LEMMA LastByOfUnion ==
    ASSUME NEW e \in Seq(Transitions), NEW t,
           NEW js \in SUBSET (1 .. Len(e)), NEW ks \in SUBSET (1 .. Len(e)),
           NEW all \in SUBSET (1 .. Len(e)), all = js \cup ks
    PROVE  LastBy(e, all, t) = IF LastBy(e, js, t) < LastBy(e, ks, t)
                               THEN LastBy(e, ks, t) ELSE LastBy(e, js, t)
<1> DEFINE a == LastBy(e, js, t)
           b == LastBy(e, ks, t)
           m == IF a < b THEN b ELSE a
<1>1. /\ a \in 0 .. Len(e) /\ (a # 0 => a \in js /\ e[a].instr.tid = t)
      /\ \A j \in js : e[j].instr.tid = t => j <= a
    BY LastByIs
<1>2. /\ b \in 0 .. Len(e) /\ (b # 0 => b \in ks /\ e[b].instr.tid = t)
      /\ \A j \in ks : e[j].instr.tid = t => j <= b
    BY LastByIs
<1> HIDE DEF a, b
<1>3. m \in 0 .. Len(e) /\ (m # 0 => m \in all /\ e[m].instr.tid = t)
    BY <1>1, <1>2
<1>4. \A j \in all : e[j].instr.tid = t => j <= m
    BY <1>1, <1>2
<1>5. LastBy(e, all, t) = m
    <2> HIDE DEF m
    <2> QED
        BY <1>3, <1>4, LastByIsOnly
<1> QED
    BY <1>5 DEF a, b

\* One turn of create_clock, at transition j: the clock of what is known from
\* the transitions after j becomes the clock of what is known from j on.
LEMMA JoinIs ==
    ASSUME NEW e \in Seq(Transitions), NEW h, NEW i \in 1 .. Len(e) + 1, NEW instr,
           NEW j \in 1 .. i - 1, e[j].instr.tid \in Size(h),
           ClockAt(h, j) = ClockOfSet(e, Before(e)[j], Size(h)),
           NEW c, c = ClockOfSet(e, PastFrom(e, i, instr, j + 1), Size(h))
    PROVE  (IF /\ j > MinElement(c)
               /\ j > c[e[j].instr.tid]
               /\ Dependent(e[j].instr, instr)
            THEN Set(MaxClock(c, ClockAt(h, j)), e[j].instr.tid, j)
            ELSE c) = ClockOfSet(e, PastFrom(e, i, instr, j), Size(h))
<1> DEFINE t == e[j].instr.tid
           R == PastFrom(e, i, instr, j + 1)
           L == Before(e)[j]
           S == Size(h)
           n == Len(e)
           JL == {j} \cup L
           all == R \cup JL
<1>1. j \in 1 .. Len(e) /\ n \in Nat /\ j \in 1 .. n /\ j + 1 \in 1 .. i /\ j \in Nat /\ t \in S
    OBVIOUS
<1>2. R \in SUBSET (1 .. n) /\ \A k \in R : Before(e)[k] \subseteq R
    <2>1. R \in SUBSET (1 .. i - 1) /\ 1 .. i - 1 \subseteq 1 .. Len(e)
        BY <1>1, PastFromIs
    <2>2. \A k \in R : Before(e)[k] \subseteq R
        BY <1>1, PastFromIs
    <2> QED
        BY <2>1, <2>2
<1>3. L \in SUBSET (1 .. n) /\ L \in SUBSET (1 .. j - 1)
    <2>1. L \in SUBSET (1 .. j - 1)
        BY <1>1, BeforeIsEarlier
    <2> QED
        BY <2>1
<1>4. PastFrom(e, i, instr, j) = IF Dependent(e[j].instr, instr) THEN all ELSE R
    <2>1. j .. i - 1 = {j} \cup (j + 1 .. i - 1)
        OBVIOUS
    <2> QED
        BY <2>1 DEF PastFrom
<1>5. c = [u \in S |-> LastBy(e, R, u)] /\ ClockAt(h, j) = [u \in S |-> LastBy(e, L, u)]
    BY DEF ClockOfSet
<1>6. /\ c[t] = LastBy(e, R, t) /\ c[t] \in 0 .. n
      /\ c[t] # 0 => c[t] \in R /\ e[c[t]].instr.tid = t
    <2>1. c[t] = LastBy(e, R, t)
        BY <1>1, <1>5
    <2> HIDE DEF R, n, t
    <2> QED
        BY <1>1, <1>2, <2>1, LastByIs
<1>a. all = R \cup JL /\ JL = {j} \cup L
    OBVIOUS
<1> HIDE DEF R, L, S, n, all, JL
<1>7. CASE ~ Dependent(e[j].instr, instr)
    <2> HIDE DEF t
    <2> QED
        BY <1>4, <1>5, <1>7 DEF ClockOfSet, S
<1>8. CASE Dependent(e[j].instr, instr) /\ ~ j > c[t]
    <2>1. c[t] \in R /\ e[c[t]].instr.tid = t /\ c[t] \in 1 .. Len(e) /\ j <= c[t]
        BY <1>1, <1>6, <1>8 DEF n
    <2>2. j \in R
        <3>1. CASE j = c[t]
            BY <2>1, <3>1
        <3>2. CASE j # c[t]
            <4>1. j \in 1 .. c[t] - 1
                BY <1>1, <2>1, <3>2
            <4>2. j \in Before(e)[c[t]]
                BY <2>1, <4>1, ThreadIsOrdered
            <4> QED
                BY <1>2, <2>1, <4>2
        <3> QED
            BY <3>1, <3>2
    <2>3. all = R
        BY <1>2, <1>a, <2>2 DEF L
    <2> HIDE DEF t
    <2>4. PastFrom(e, i, instr, j) = R
        BY <1>4, <1>8, <2>3
    <2> QED
        BY <1>8, <2>4 DEF R, t
<1>9. CASE Dependent(e[j].instr, instr) /\ j > c[t]
    <2>1. j > MinElement(c)
        <3>1. Range(c) = {LastBy(e, R, u) : u \in S}
            BY <1>5 DEF Range
        <3>2. \A u \in S : LastBy(e, R, u) \in 0 .. n
            BY <1>1, <1>2, LastByIs
        <3>3. Range(c) \in SUBSET Nat /\ c[t] \in Range(c)
            <4>1. \A u \in S : LastBy(e, R, u) \in Nat
                BY <3>2
            <4> HIDE DEF t
            <4> QED
                BY <1>1, <1>6, <3>1, <4>1
        <3>4. Min(Range(c)) \in Nat /\ Min(Range(c)) <= c[t]
            BY <3>3, MinIs
        <3> QED
            BY <1>1, <1>6, <1>9, <3>4 DEF MinElement, n
    <2>2. PastFrom(e, i, instr, j) = all
        BY <1>4, <1>9
    <2>3. DOMAIN c = S
        BY <1>5
    <2>4. ASSUME NEW u \in S
          PROVE  (IF u = t THEN j ELSE (IF c[u] < ClockAt(h, j)[u] THEN ClockAt(h, j)[u] ELSE c[u]))
                     = LastBy(e, all, u)
        <3>1. JL \in SUBSET (1 .. n) /\ all \in SUBSET (1 .. n)
            BY <1>1, <1>2, <1>3, <1>a
        <3>2. CASE u = t
            <4>1. \A k \in R : e[k].instr.tid = u => k <= c[t]
                BY <1>1, <1>2, <1>6, <3>2, LastByIs, SMTT(30)
            <4>2. \A k \in all : e[k].instr.tid = u => k <= j
                <5> SUFFICES ASSUME NEW k \in all, e[k].instr.tid = u
                             PROVE  k <= j
                    OBVIOUS
                <5>1. CASE k \in R
                    <6>1. k <= c[t] /\ k \in Nat /\ c[t] \in Nat
                        BY <1>2, <1>6, <4>1, <5>1 DEF n
                    <6> HIDE DEF t
                    <6> QED
                        BY <1>1, <1>9, <6>1
                <5>2. CASE k \in L
                    BY <1>3, <5>2
                <5>3. CASE k = j
                    BY <5>3
                <5> QED
                    BY <1>a, <5>1, <5>2, <5>3
            <4>3. j \in 0 .. n /\ j \in all
                BY <1>1, <1>a
            <4>4. LastBy(e, all, u) = j
                <5>1. n \in Nat /\ all \in SUBSET (1 .. n)
                    BY <1>1, <3>1
                <5>2. e[j].instr.tid = u
                    BY <3>2
                <5> HIDE DEF t
                <5> QED
                    BY <4>2, <4>3, <5>1, <5>2, LastByIsOnly DEF n
            <4> QED
                BY <3>2, <4>4
        <3>3. CASE u # t
            <4>1. LastBy(e, JL, u) = LastBy(e, L, u)
                <5>1. LastBy(e, L, u) \in 0 .. n
                    BY <1>1, <1>3, LastByIs
                <5>2. LastBy(e, L, u) # 0 => LastBy(e, L, u) \in L /\ e[LastBy(e, L, u)].instr.tid = u
                    BY <1>1, <1>3, LastByIs
                <5>3. \A k \in JL : e[k].instr.tid = u => k <= LastBy(e, L, u)
                    BY <1>1, <1>3, <1>a, <3>3, LastByIs
                <5>4. LastBy(e, L, u) # 0 => LastBy(e, L, u) \in JL /\ e[LastBy(e, L, u)].instr.tid = u
                    BY <1>a, <5>2
                <5> HIDE DEF t
                <5>5. n \in Nat /\ JL \in SUBSET (1 .. n)
                    BY <1>1, <3>1
                <5> QED
                    BY <5>1, <5>3, <5>4, <5>5, LastByIsOnly DEF n
            <4>2. LastBy(e, all, u) =
                      IF LastBy(e, R, u) < LastBy(e, L, u) THEN LastBy(e, L, u) ELSE LastBy(e, R, u)
                <5>1. n \in Nat /\ JL \in SUBSET (1 .. n) /\ R \in SUBSET (1 .. n) /\ all = R \cup JL
                    BY <1>1, <1>2, <1>a, <3>1
                <5>2. all \in SUBSET (1 .. n)
                    BY <3>1
                <5> HIDE DEF t
                <5>3. LastBy(e, all, u) =
                          IF LastBy(e, R, u) < LastBy(e, JL, u) THEN LastBy(e, JL, u) ELSE LastBy(e, R, u)
                    BY <5>1, <5>2, LastByOfUnion DEF n
                <5> QED
                    BY <4>1, <5>3
            <4> QED
                BY <1>5, <3>3, <4>2
        <3> QED
            BY <3>2, <3>3
    <2>5. Set(MaxClock(c, ClockAt(h, j)), t, j) =
              [u \in S |-> IF u = t THEN j
                           ELSE IF c[u] < ClockAt(h, j)[u] THEN ClockAt(h, j)[u] ELSE c[u]]
        <3> HIDE DEF t
        <3>1. DOMAIN MaxClock(c, ClockAt(h, j)) = S
            BY <2>3 DEF MaxClock
        <3>2. \A u \in S : MaxClock(c, ClockAt(h, j))[u] =
                               IF c[u] < ClockAt(h, j)[u] THEN ClockAt(h, j)[u] ELSE c[u]
            BY <2>3 DEF MaxClock
        <3> QED
            BY <3>1, <3>2 DEF Set
    <2>6. Set(MaxClock(c, ClockAt(h, j)), t, j) = ClockOfSet(e, all, S)
        <3> HIDE DEF t
        <3> QED
            BY <2>4, <2>5 DEF ClockOfSet
    <2> QED
        BY <1>9, <2>1, <2>2, <2>6 DEF S
<1> QED
    BY <1>7, <1>8, <1>9

\* create_clock makes the clock of all that happens before instr, when the
\* clocks of the transitions that it is made of are those of what is before them.
LEMMA CreateClockIs ==
    ASSUME NEW e \in Seq(Transitions), NEW h, NEW i \in 1 .. Len(e) + 1, NEW instr,
           \A j \in 1 .. i - 1 : e[j].instr.tid \in Size(h),
           \A j \in 1 .. i - 1 : ClockAt(h, j) = ClockOfSet(e, Before(e)[j], Size(h))
    PROVE  CreateClock(e, h, i, instr) = ClockOfSet(e, Past(e, i, instr), Size(h))
<1> DEFINE join(j, c) ==
               IF /\ j > MinElement(c)
                  /\ j > c[e[j].instr.tid]
                  /\ Dependent(e[j].instr, instr)
               THEN Set(MaxClock(c, ClockAt(h, j)), e[j].instr.tid, j)
               ELSE c
           after(g) == [n \in 0 .. i - 1 |-> IF n = 0 THEN ZeroClock(Size(h)) ELSE join(i - n, g[n - 1])]
           clock == CHOOSE g : g = after(g)
           known(n) == ClockOfSet(e, PastFrom(e, i, instr, i - n), Size(h))
           solution == [n \in 0 .. i - 1 |-> known(n)]
<1>1. CreateClock(e, h, i, instr) = clock[i - 1]
    BY DEF CreateClock
<1>2. i \in Nat /\ i - 1 \in 0 .. i - 1
    OBVIOUS
<1>3. known(0) = ZeroClock(Size(h))
    <2>1. PastFrom(e, i, instr, i - 0) = {}
        <3>1. i .. i - 1 = {} /\ i - 0 = i
            BY <1>2
        <3> QED
            BY <3>1 DEF PastFrom
    <2>2. \A t : LastBy(e, {}, t) = 0
        <3>1. 0 \in 0 .. Len(e) /\ {} \in SUBSET (1 .. Len(e))
            OBVIOUS
        <3> QED
            BY <3>1, LastByIsOnly
    <2> QED
        BY <2>1, <2>2 DEF ClockOfSet, ZeroClock
<1>4. \A n \in 1 .. i - 1 : join(i - n, known(n - 1)) = known(n)
    <2> SUFFICES ASSUME NEW n \in 1 .. i - 1
                 PROVE  join(i - n, known(n - 1)) = known(n)
        OBVIOUS
    <2> DEFINE j == i - n
               c == known(n - 1)
    <2>1. j \in 1 .. i - 1 /\ i - (n - 1) = j + 1
        BY <1>2
    <2>2. c = ClockOfSet(e, PastFrom(e, i, instr, j + 1), Size(h))
        BY <2>1
    <2>3. e[j].instr.tid \in Size(h) /\ ClockAt(h, j) = ClockOfSet(e, Before(e)[j], Size(h))
        BY <2>1
    <2> HIDE DEF j, c
    <2>4. join(j, c) = ClockOfSet(e, PastFrom(e, i, instr, j), Size(h))
        BY <2>1, <2>2, <2>3, JoinIs
    <2> QED
        BY <2>4 DEF j, c
<1>5. Past(e, i, instr) = PastFrom(e, i, instr, i - (i - 1))
    <2>1. i - (i - 1) = 1
        BY <1>2
    <2> QED
        BY <2>1 DEF Past, PastFrom
<1> HIDE DEF join, known
<1>6. solution = after(solution)
    <2>1. \A n \in 0 .. i - 1 : n = 0 \/ (n \in 1 .. i - 1 /\ n - 1 \in 0 .. i - 1)
        BY <1>2
    <2>2. \A n \in 0 .. i - 1 : solution[n] = IF n = 0 THEN ZeroClock(Size(h)) ELSE join(i - n, solution[n - 1])
        BY <1>3, <1>4, <2>1
    <2> QED
        BY <2>2
<1>7. clock = after(clock)
    <2> HIDE DEF after
    <2> QED
        BY <1>6
<1>8. \A n \in 0 .. i - 1 : clock[n] = IF n = 0 THEN ZeroClock(Size(h)) ELSE join(i - n, clock[n - 1])
    <2> HIDE DEF clock
    <2> QED
        BY <1>7
<1> HIDE DEF after, clock, solution
<1>9. \A n \in 0 .. i - 1 : clock[n] = known(n)
    <2> DEFINE bad == {n \in 0 .. i - 1 : clock[n] # known(n)}
    <2> SUFFICES ASSUME bad # {}
                 PROVE  FALSE
        OBVIOUS
    <2>1. bad \in SUBSET Nat
        BY <1>2
    <2> HIDE DEF bad
    <2>2. PICK n \in bad : \A m \in bad : n <= m
        BY <2>1, LeastNatural
    <2> USE DEF bad
    <2>3. n \in 0 .. i - 1 /\ clock[n] # known(n)
        OBVIOUS
    <2>4. n # 0
        BY <1>3, <1>8, <2>3
    <2>5. n \in 1 .. i - 1 /\ n - 1 \in 0 .. i - 1 /\ ~ n <= n - 1
        BY <1>2, <2>3, <2>4
    <2>6. clock[n - 1] = known(n - 1)
        BY <2>2, <2>5
    <2> QED
        BY <1>4, <1>8, <2>3, <2>4, <2>5, <2>6
<1> QED
    BY <1>1, <1>2, <1>5, <1>9 DEF known

-----------------------------------------------------------------------------
(* The operations of class HappensBefore *)

\* The clock of a set of places before n has entries up to n.
LEMMA ClockOfSetType ==
    ASSUME NEW e, NEW n \in Nat, NEW js \in SUBSET (1 .. n), NEW threads
    PROVE  ClockOfSet(e, js, threads) \in Clocks(threads)
<1>1. \A t \in threads : LastBy(e, js, t) \in Nat
    BY LastByIs
<1> QED
    BY <1>1 DEF ClockOfSet, Clocks

\* update_frontier replaces the clock of one thread.
LEMMA FrontierIs ==
    ASSUME NEW threads, NEW clocks \in Seq(Clocks(threads)),
           NEW frontier \in [threads -> Clocks(threads)], NEW k \in Nat,
           NEW h, h = [clocks |-> clocks, frontier |-> frontier, index |-> k],
           NEW e, NEW i \in Nat, e[i].instr.tid \in threads, NEW c \in Clocks(threads)
    PROVE  LET u == UpdateFrontier(h, e, i, c)
           IN  /\ u \in HappensBefores(threads)
               /\ Size(u) = threads
               /\ u.clocks = clocks
               /\ u.frontier[e[i].instr.tid] = Set(c, e[i].instr.tid, i)
               /\ \A t \in threads : t # e[i].instr.tid => u.frontier[t] = frontier[t]
<1> DEFINE t == e[i].instr.tid
<1>1. t \in threads
    OBVIOUS
<1>2. PICK f : f = Set(c, t, i)
    OBVIOUS
<1>3. f \in Clocks(threads)
    BY <1>2 DEF Set, Clocks
<1>4. h \in [clocks : {clocks}, frontier : {frontier}, index : {k}]
    OBVIOUS
<1>5. PICK m \in Nat : m = h.index + 1
    BY <1>4
<1>6. [h EXCEPT !.frontier[t] = f, !.index = m]
          \in [clocks : {clocks}, frontier : {[frontier EXCEPT ![t] = f]}, index : {m}]
    BY <1>4
<1>7. UpdateFrontier(h, e, i, c) = [h EXCEPT !.frontier[t] = f, !.index = m]
    BY <1>2, <1>5 DEF UpdateFrontier
<1> HIDE DEF t
<1>8. [frontier EXCEPT ![t] = f] \in [threads -> Clocks(threads)]
    BY <1>3
<1>9. PICK u : u = [h EXCEPT !.frontier[t] = f, !.index = m]
    OBVIOUS
<1>10. /\ u \in HappensBefores(threads)
       /\ Size(u) = threads
       /\ u.clocks = clocks
       /\ u.frontier[t] = f
       /\ \A v \in threads : v # t => u.frontier[v] = frontier[v]
    BY <1>1, <1>5, <1>6, <1>8, <1>9 DEF HappensBefores, Size
<1>11. u = UpdateFrontier(h, e, i, c)
    BY <1>7, <1>9
<1> QED
    BY <1>2, <1>10, <1>11 DEF t

\* The fields of a HappensBefore object.
LEMMA HappensBeforeIs ==
    ASSUME NEW threads, NEW h \in HappensBefores(threads)
    PROVE  /\ Size(h) = threads
           /\ h.clocks \in Seq(Clocks(threads))
           /\ h.frontier \in [threads -> Clocks(threads)]
           /\ h.index \in Nat
           /\ h = [clocks |-> h.clocks, frontier |-> h.frontier, index |-> h.index]
    BY DEF HappensBefores, Size

\* The clock of a transition is one.
LEMMA ClockAtType ==
    ASSUME NEW threads, NEW h \in HappensBefores(threads), NEW i \in Nat \ {0}, i < Len(h.clocks)
    PROVE  ClockAt(h, i) \in Clocks(threads)
<1>1. h.clocks \in Seq(Clocks(threads))
    BY HappensBeforeIs
<1>2. i + 1 \in 1 .. Len(h.clocks)
    BY <1>1
<1> QED
    BY <1>1, <1>2, ElementOfSeq DEF ClockAt

\* The object, after a clock is pushed or popped.
LEMMA RecordIs ==
    ASSUME NEW threads, NEW h \in HappensBefores(threads)
    PROVE  /\ \A c : [h EXCEPT !.clocks = Append(@, c)] =
                        [clocks |-> Append(h.clocks, c), frontier |-> h.frontier, index |-> h.index]
           /\ [h EXCEPT !.clocks = Front(@), !.index = 0] =
                  [clocks |-> Front(h.clocks), frontier |-> h.frontier, index |-> 0]
<1>1. h \in [clocks : Seq(Clocks(threads)), frontier : [threads -> Clocks(threads)], index : Nat]
    BY DEF HappensBefores
<1>2. ASSUME NEW c
      PROVE  [h EXCEPT !.clocks = Append(@, c)] =
                 [clocks |-> Append(h.clocks, c), frontier |-> h.frontier, index |-> h.index]
    <2>1. [h EXCEPT !.clocks = Append(@, c)]
              \in [clocks : {Append(h.clocks, c)}, frontier : {h.frontier}, index : {h.index}]
        BY <1>1
    <2>2. PICK clocks, frontier, k :
              clocks = Append(h.clocks, c) /\ frontier = h.frontier /\ k = h.index
        OBVIOUS
    <2>3. \A u \in [clocks : {clocks}, frontier : {frontier}, index : {k}] :
              u = [clocks |-> clocks, frontier |-> frontier, index |-> k]
        OBVIOUS
    <2> QED
        BY <2>1, <2>2, <2>3
<1>3. [h EXCEPT !.clocks = Front(@), !.index = 0] =
          [clocks |-> Front(h.clocks), frontier |-> h.frontier, index |-> 0]
    <2>1. [h EXCEPT !.clocks = Front(@), !.index = 0]
              \in [clocks : {Front(h.clocks)}, frontier : {h.frontier}, index : {0}]
        BY <1>1
    <2>2. PICK front, frontier : front = Front(h.clocks) /\ frontier = h.frontier
        OBVIOUS
    <2>3. \A u \in [clocks : {front}, frontier : {frontier}, index : {0}] :
              u = [clocks |-> front, frontier |-> frontier, index |-> 0]
        OBVIOUS
    <2> QED
        BY <2>1, <2>2, <2>3
<1> QED
    BY <1>2, <1>3

\* update: the clock of the new transition is that of all that happens before it.
LEMMA UpdateIsExact ==
    ASSUME NEW threads, NEW h \in HappensBefores(threads), NEW e \in Seq(Transitions),
           NEW i \in 1 .. Len(e), Len(h.clocks) = i,
           \A j \in 1 .. i : e[j].instr.tid \in threads,
           \A j \in 1 .. i - 1 : ClockAt(h, j) = ClockOfSet(e, Before(e)[j], threads)
    PROVE  LET u == UpdateHB(h, e, i)
           IN  /\ u \in HappensBefores(threads)
               /\ Size(u) = threads
               /\ Len(u.clocks) = i + 1
               /\ \A j \in 0 .. i - 1 : ClockAt(u, j) = ClockAt(h, j)
               /\ ClockAt(u, i) = ClockOfSet(e, Before(e)[i], threads)
               /\ u.frontier[e[i].instr.tid] = Set(ClockAt(u, i), e[i].instr.tid, i)
               /\ \A t \in threads : t # e[i].instr.tid => u.frontier[t] = h.frontier[t]
<1>1. /\ Size(h) = threads /\ h.clocks \in Seq(Clocks(threads))
      /\ h.frontier \in [threads -> Clocks(threads)] /\ h.index \in Nat
      /\ h = [clocks |-> h.clocks, frontier |-> h.frontier, index |-> h.index]
    BY HappensBeforeIs
<1>2. i \in Nat /\ i \in 1 .. Len(e) + 1 /\ i \in 1 .. i
      /\ \A j \in 1 .. i - 1 : e[j].instr.tid \in Size(h)
    BY <1>1
<1>3. PICK c : c = CreateClock(e, h, i, e[i].instr)
    OBVIOUS
<1>4. c = ClockOfSet(e, Past(e, i, e[i].instr), Size(h))
    BY <1>1, <1>2, <1>3, CreateClockIs
<1>5. c = ClockOfSet(e, Before(e)[i], threads)
    BY <1>1, <1>4, BeforeIs
<1>6. c \in Clocks(threads)
    <2>1. Before(e)[i] \in SUBSET (1 .. i - 1) /\ i - 1 \in Nat
        BY <1>2, BeforeIsEarlier
    <2> QED
        BY <1>5, <2>1, ClockOfSetType
<1>7. PICK clocks : clocks = Append(h.clocks, c)
    OBVIOUS
<1>8. /\ clocks \in Seq(Clocks(threads)) /\ Len(clocks) = i + 1
      /\ \A j \in 1 .. i : clocks[j] = h.clocks[j]
      /\ clocks[i + 1] = c
    BY <1>1, <1>6, <1>7, AppendIs
<1>9. PICK g : g = [clocks |-> clocks, frontier |-> h.frontier, index |-> h.index]
    OBVIOUS
<1>10. UpdateHB(h, e, i) = UpdateFrontier(g, e, i, c)
    <2>2. [h EXCEPT !.clocks = Append(@, c)] =
              [clocks |-> Append(h.clocks, c), frontier |-> h.frontier, index |-> h.index]
        BY RecordIs
    <2>3. [clocks |-> Append(h.clocks, c), frontier |-> h.frontier, index |-> h.index] = g
        BY <1>7, <1>9
    <2>4. [h EXCEPT !.clocks = Append(@, c)] = g
        BY <2>2, <2>3
    <2>5. UpdateHB(h, e, i) = UpdateFrontier([h EXCEPT !.clocks = Append(@, c)], e, i, c)
        BY <1>3 DEF UpdateHB
    <2> QED
        BY <2>4, <2>5
<1> DEFINE u == UpdateFrontier(g, e, i, c)
<1>11. /\ u \in HappensBefores(threads)
       /\ Size(u) = threads
       /\ u.clocks = clocks
       /\ u.frontier[e[i].instr.tid] = Set(c, e[i].instr.tid, i)
       /\ \A t \in threads : t # e[i].instr.tid => u.frontier[t] = h.frontier[t]
    <2>1. PICK frontier, k : frontier = h.frontier /\ k = h.index
        OBVIOUS
    <2>2. /\ frontier \in [threads -> Clocks(threads)] /\ k \in Nat
          /\ g = [clocks |-> clocks, frontier |-> frontier, index |-> k]
        BY <1>1, <1>9, <2>1
    <2>3. e[i].instr.tid \in threads
        BY <1>2
    <2>4. /\ u \in HappensBefores(threads)
          /\ Size(u) = threads
          /\ u.clocks = clocks
          /\ u.frontier[e[i].instr.tid] = Set(c, e[i].instr.tid, i)
          /\ \A t \in threads : t # e[i].instr.tid => u.frontier[t] = frontier[t]
        BY <1>6, <1>8, <2>2, <2>3, FrontierIs, SMTT(30)
    <2> HIDE DEF u
    <2> QED
        BY <2>1, <2>4
<1> HIDE DEF u
<1>12. \A j \in 0 .. i - 1 : j + 1 \in 1 .. i
    BY <1>2
<1>13. ClockAt(u, i) = c /\ \A j \in 0 .. i - 1 : ClockAt(u, j) = ClockAt(h, j)
    BY <1>8, <1>11, <1>12 DEF ClockAt
<1>14. u = UpdateHB(h, e, i)
    BY <1>10 DEF u
<1> QED
    BY <1>5, <1>8, <1>11, <1>13, <1>14

\* restore moves the frontier and nothing else.
LEMMA RestoreIsExact ==
    ASSUME NEW threads, NEW h \in HappensBefores(threads), NEW e,
           NEW i \in Nat \ {0}, i < Len(h.clocks), e[i].instr.tid \in threads
    PROVE  LET u == RestoreHB(h, e, i)
           IN  /\ u \in HappensBefores(threads)
               /\ Size(u) = threads
               /\ u.clocks = h.clocks
               /\ u.frontier[e[i].instr.tid] = Set(ClockAt(h, i), e[i].instr.tid, i)
               /\ \A t \in threads : t # e[i].instr.tid => u.frontier[t] = h.frontier[t]
<1>1. /\ h.clocks \in Seq(Clocks(threads))
      /\ h.frontier \in [threads -> Clocks(threads)] /\ h.index \in Nat
      /\ h = [clocks |-> h.clocks, frontier |-> h.frontier, index |-> h.index]
    BY HappensBeforeIs
<1>2. ClockAt(h, i) \in Clocks(threads)
    BY ClockAtType
<1>3. PICK clocks, frontier, k :
          clocks = h.clocks /\ frontier = h.frontier /\ k = h.index
    OBVIOUS
<1>4. h = [clocks |-> clocks, frontier |-> frontier, index |-> k]
    BY <1>1, <1>3
<1> QED
    BY <1>1, <1>2, <1>3, <1>4, FrontierIs DEF RestoreHB

\* reset resizes every clock and starts with a frontier of nothing.
LEMMA ResetIsExact ==
    ASSUME NEW old, NEW h \in HappensBefores(old), NEW threads
    PROVE  LET u == ResetHB(h, threads)
           IN  /\ u \in HappensBefores(threads)
               /\ Size(u) = threads
               /\ Len(u.clocks) = Len(h.clocks)
               /\ \A j \in 1 .. Len(h.clocks) : u.clocks[j] = Resize(h.clocks[j], threads)
               /\ u.frontier = ZeroFrontier(threads)
<1> DEFINE resized(j) == Resize(h.clocks[j], threads)
           all == [j \in 1 .. Len(h.clocks) |-> resized(j)]
<1>1. h.clocks \in Seq(Clocks(old)) /\ Len(h.clocks) \in Nat
      /\ DOMAIN h.clocks = 1 .. Len(h.clocks)
    BY HappensBeforeIs
<1>2. ASSUME NEW j \in 1 .. Len(h.clocks)
      PROVE  resized(j) \in Clocks(threads)
    <2>1. h.clocks[j] \in Clocks(old)
        BY <1>1, ElementOfSeq
    <2> QED
        BY <2>1 DEF Resize, Clocks
<1>3. ResetHB(h, threads) = [clocks |-> all, frontier |-> ZeroFrontier(threads), index |-> 0]
    BY <1>1 DEF ResetHB
<1> HIDE DEF resized
<1>4. all \in Seq(Clocks(threads)) /\ Len(all) = Len(h.clocks)
      /\ \A j \in 1 .. Len(h.clocks) : all[j] = resized(j)
    BY <1>1, <1>2
<1> HIDE DEF all
<1>5. ZeroFrontier(threads) \in [threads -> Clocks(threads)]
      /\ DOMAIN ZeroFrontier(threads) = threads
    BY DEF ZeroFrontier, ZeroClock, Clocks
<1> QED
    BY <1>3, <1>4, <1>5 DEF HappensBefores, Size, resized

\* pop_back drops the last clock.
LEMMA PopIsExact ==
    ASSUME NEW threads, NEW h \in HappensBefores(threads), h.clocks # <<>>
    PROVE  LET u == PopBackHB(h)
           IN  /\ u \in HappensBefores(threads)
               /\ Size(u) = threads
               /\ Len(u.clocks) = Len(h.clocks) - 1
               /\ \A j \in 1 .. Len(h.clocks) - 1 : u.clocks[j] = h.clocks[j]
<1>1. /\ h.clocks \in Seq(Clocks(threads))
      /\ h.frontier \in [threads -> Clocks(threads)]
      /\ h = [clocks |-> h.clocks, frontier |-> h.frontier, index |-> h.index]
    BY HappensBeforeIs
<1>2. PICK front : front = Front(h.clocks)
    OBVIOUS
<1>3. /\ front \in Seq(Clocks(threads)) /\ Len(front) = Len(h.clocks) - 1
      /\ \A j \in 1 .. Len(h.clocks) - 1 : front[j] = h.clocks[j]
    BY <1>1, <1>2, FrontIs
<1>4. PopBackHB(h) = [clocks |-> front, frontier |-> h.frontier, index |-> 0]
    <2>2. [h EXCEPT !.clocks = Front(@), !.index = 0] =
              [clocks |-> Front(h.clocks), frontier |-> h.frontier, index |-> 0]
        BY RecordIs
    <2>3. [clocks |-> Front(h.clocks), frontier |-> h.frontier, index |-> 0] =
              [clocks |-> front, frontier |-> h.frontier, index |-> 0]
        BY <1>2
    <2> QED
        BY <2>2, <2>3 DEF PopBackHB
<1> QED
    BY <1>1, <1>3, <1>4 DEF HappensBefores, Size

-----------------------------------------------------------------------------
(* The threads of an execution *)

\* What a thread has got to stays reached.
LEMMA ReachedStays ==
    ASSUME NEW p \in Programs, NEW t \in Tids, NEW k \in 1 .. Len(p[t]),
           NEW r, NEW s, Reached(p, r, t, k),
           \A u \in Tids : r.pc[u] \in Nat /\ s.pc[u] \in Nat /\ r.pc[u] <= s.pc[u]
    PROVE  Reached(p, s, t, k)
<1>1. p[t] \in Seq(Statements)
    BY ProgramsAssumption
<1>2. p[t][k] \in Statements
    BY <1>1, ElementOfSeq
<1>3. ASSUME NEW un \in p[t][k].after
      PROVE  s.pc[un[1]] >= un[2]
    <2>1. un[1] \in Tids /\ un[2] \in Nat
        BY <1>2 DEF Statements
    <2>2. r.pc[un[1]] >= un[2]
        BY DEF Reached
    <2> QED
        BY <2>1, <2>2
<1> QED
    BY <1>3 DEF Reached

\* A thread that has a next instruction in a state along an execution was started
\* there.
LEMMA NextIsStarted ==
    ASSUME NEW p \in Programs, NEW e \in Seq(Transitions), IsExecution(p, e),
           NEW i \in 1 .. Len(e), NEW t \in Tids, HasNext(p, e[i].pre, t)
    PROVE  1 \in 1 .. Len(p[t]) /\ Reached(p, e[i].pre, t, 1)
<1>1. \A j \in 1 .. Len(e) : \A u \in Tids :
          /\ e[j].pre.pc[u] \in Nat /\ e[j].post.pc[u] \in Nat
          /\ e[j].pre.pc[u] <= e[j].post.pc[u]
          /\ e[j].post.pc[u] # e[j].pre.pc[u] => u = e[j].instr.tid
    <2> SUFFICES ASSUME NEW j \in 1 .. Len(e), NEW u \in Tids
                 PROVE  /\ e[j].pre.pc[u] \in Nat /\ e[j].post.pc[u] \in Nat
                        /\ e[j].pre.pc[u] <= e[j].post.pc[u]
                        /\ e[j].post.pc[u] # e[j].pre.pc[u] => u = e[j].instr.tid
        OBVIOUS
    <2>1. /\ e[j].pre.pc[u] \in Nat
          /\ e[j].post.pc[u] = e[j].pre.pc[u] + (IF u = e[j].instr.tid THEN 1 ELSE 0)
        BY TransitionAdvances
    <2> QED
        BY <2>1
<1>2. Len(p[t]) \in Nat /\ 1 \in 1 .. Len(p[t])
    <2>1. e[i].pre.pc[t] < Len(p[t]) /\ p[t] \in Seq(Statements)
        BY ProgramsAssumption DEF HasNext
    <2> QED
        BY <1>1, <2>1
<1>3. ASSUME NEW j \in 1 .. Len(e), e[j].pre.pc[t] = 0, HasNext(p, e[j].pre, t)
      PROVE  Reached(p, e[j].pre, t, 1)
    BY <1>3 DEF HasNext
<1> DEFINE bad == {j \in 1 .. Len(e) : e[j].pre.pc[t] # 0 /\ ~ Reached(p, e[j].pre, t, 1)}
<1>4. bad = {}
    <2> SUFFICES ASSUME bad # {}
                 PROVE  FALSE
        OBVIOUS
    <2>1. bad \in SUBSET Nat
        OBVIOUS
    <2> HIDE DEF bad
    <2>2. PICK j \in bad : \A m \in bad : j <= m
        BY <2>1, LeastNatural
    <2> USE DEF bad
    <2>3. j \in 1 .. Len(e) /\ e[j].pre.pc[t] # 0 /\ ~ Reached(p, e[j].pre, t, 1)
        OBVIOUS
    <2>4. j # 1
        BY <2>3, PreIsStateBefore DEF StateBefore, InitialState
    <2>5. j - 1 \in 1 .. Len(e) /\ ~ j <= j - 1
        BY <2>3, <2>4
    <2>6. e[j].pre = e[j - 1].post
        BY <2>3, <2>4, PreIsStateBefore DEF StateBefore
    <2>7. \A u \in Tids : /\ e[j - 1].pre.pc[u] \in Nat /\ e[j].pre.pc[u] \in Nat
                          /\ e[j - 1].pre.pc[u] <= e[j].pre.pc[u]
        BY <1>1, <2>5, <2>6
    <2>8. ~ Reached(p, e[j - 1].pre, t, 1)
        BY <1>2, <2>3, <2>7, ReachedStays
    <2>9. e[j - 1].pre.pc[t] = 0
        BY <2>2, <2>5, <2>8
    <2>10. t = e[j - 1].instr.tid
        BY <1>1, <2>3, <2>5, <2>6, <2>9
    <2>11. HasNext(p, e[j - 1].pre, t)
        BY <2>5, <2>10, TransitionIs DEF Enabled, IsEnabled
    <2> QED
        BY <1>3, <2>5, <2>8, <2>9, <2>11
<1> QED
    BY <1>2, <1>3, <1>4

\* Such a thread is one of those that the execution has by its end.
LEMMA NextIsOfExecution ==
    ASSUME NEW p \in Programs, NEW e \in Seq(Transitions), IsExecution(p, e),
           NEW i \in 1 .. Len(e), NEW t \in Tids, HasNext(p, e[i].pre, t)
    PROVE  t \in ThreadsOf(p, e)
<1>1. 1 \in 1 .. Len(p[t]) /\ Reached(p, e[i].pre, t, 1)
    BY NextIsStarted
<1>2. /\ Len(e) \in Nat \ {0} /\ Len(e) \in 1 .. Len(e) /\ e # <<>> /\ i \in 1 .. Len(e)
      /\ Final(e) = e[Len(e)].post
    <2>1. e # <<>> /\ Len(e) \in Nat \ {0}
        BY EmptySeq
    <2> QED
        BY <2>1, LastIs DEF Final
<1>3. ASSUME NEW u \in Tids
      PROVE  e[i].pre.pc[u] \in Nat /\ Final(e).pc[u] \in Nat /\ e[i].pre.pc[u] <= Final(e).pc[u]
    <2>1. /\ e[Len(e)].pre.pc[u] \in Nat
          /\ e[Len(e)].post.pc[u] = e[Len(e)].pre.pc[u] + (IF u = e[Len(e)].instr.tid THEN 1 ELSE 0)
        BY <1>2, TransitionAdvances
    <2>2. e[i].pre.pc[u] \in Nat
        BY TransitionAdvances
    <2>3. e[i].pre.pc[u] <= e[Len(e)].pre.pc[u]
        BY <1>2, ExecutionAdvances
    <2> QED
        BY <1>2, <2>1, <2>2, <2>3
<1>4. Reached(p, Final(e), t, 1)
    BY <1>1, <1>3, ReachedStays
<1> QED
    BY <1>4 DEF ThreadsOf

\* Who performs something is a thread of the execution.
LEMMA PerformerIsOfExecution ==
    ASSUME NEW p \in Programs, NEW e \in Seq(Transitions), IsExecution(p, e),
           NEW i \in 1 .. Len(e)
    PROVE  e[i].instr.tid \in ThreadsOf(p, e)
<1>1. e[i].instr.tid \in Enabled(p, e[i].pre)
    BY TransitionIs
<1> QED
    BY <1>1, NextIsOfExecution DEF Enabled, IsEnabled

-----------------------------------------------------------------------------
(* The clocks of dpor, at all times *)

\* The last transition of a thread is the same in executions that agree so far.
LEMMA SameLastBy ==
    ASSUME NEW e, NEW f, NEW n \in Nat, \A j \in 1 .. n : e[j] = f[j],
           NEW js \in SUBSET (1 .. n), NEW t
    PROVE  LastBy(e, js, t) = LastBy(f, js, t)
<1>1. {j \in js : e[j].instr.tid = t} = {j \in js : f[j].instr.tid = t}
    OBVIOUS
<1> QED
    BY <1>1 DEF LastBy

\* A clock that is resized for the threads of an execution with the same beginning
\* is the clock of the same transitions of it.
LEMMA ResizeIs ==
    ASSUME NEW e, NEW f \in Seq(Transitions), NEW n \in Nat, n <= Len(f),
           \A j \in 1 .. n : e[j] = f[j],
           NEW js \in SUBSET (1 .. n), NEW old, NEW threads,
           \A j \in 1 .. n : e[j].instr.tid \in old
    PROVE  Resize(ClockOfSet(e, js, old), threads) = ClockOfSet(f, js, threads)
<1>1. \A t : LastBy(e, js, t) = LastBy(f, js, t)
    BY SameLastBy
<1>2. ASSUME NEW t \in threads, t \notin old
      PROVE  LastBy(f, js, t) = 0
    <2>1. \A j \in js : f[j].instr.tid # t
        BY <1>2
    <2>2. js \in SUBSET (1 .. Len(f)) /\ 0 \in 0 .. Len(f)
        OBVIOUS
    <2> QED
        BY <2>1, <2>2, LastByIsOnly
<1>3. DOMAIN ClockOfSet(e, js, old) = old /\ \A t \in old : ClockOfSet(e, js, old)[t] = LastBy(f, js, t)
    BY <1>1 DEF ClockOfSet
<1>4. \A t \in threads : (IF t \in old THEN ClockOfSet(e, js, old)[t] ELSE 0) = LastBy(f, js, t)
    BY <1>2, <1>3
<1> QED
    BY <1>3, <1>4 DEF Resize, ClockOfSet

\* A step leaves the clocks what they are.
ClocksKept ==
    /\ mHB' \in HappensBefores(Size(mHB'))
    /\ ClocksHaveItsThreads'
    /\ DummyIsZero'
    /\ ClocksAreExact'
    /\ FrontierIsExact'

\* A record is read: it begins with the execution that the clocks are kept for.
LEMMA ReadIsExact ==
    ASSUME ClocksInv, ReadRecord \/ InvalidProgram,
           mHB' = ResetHB(mHB, ThreadsOf(program, record.transitions))
    PROVE  ClocksKept
<1> DEFINE e == mExecution
           f == record.transitions
           threads == ThreadsOf(program, f)
           n == Len(mExecution)
<1>1. /\ program \in Programs /\ e \in Seq(Transitions) /\ f \in Seq(Transitions)
      /\ IsExecution(program, f)
      /\ n \in Nat /\ n <= Len(f) /\ \A i \in 1 .. n : e[i] = f[i]
      /\ Len(mHB.clocks) = n + 1
      /\ mHB \in HappensBefores(Size(mHB))
      /\ Size(mHB) \subseteq Tids
      /\ \A i \in 1 .. n : e[i].instr.tid \in Size(mHB)
    <2>1. phase = "read" /\ record # NoRecord
        BY DEF ReadRecord, InvalidProgram
    <2>2. TypeOK /\ ExecutionsAreValid /\ SearchIsAligned /\ RecordExtendsSearch /\ ClocksAreAligned
        BY DEF ClocksInv, Inv
    <2> QED
        BY <2>1, <2>2 DEF TypeOK, ExecutionsAreValid, SearchIsAligned, RecordExtendsSearch,
           ClocksAreAligned, BeforeUpdate, Running, ClocksInv, ClocksHaveItsThreads
<1>2. /\ program' = program /\ mExecution' = f /\ mHB' = ResetHB(mHB, threads)
      /\ phase' = "update" => index' = 1
    BY DEF ReadRecord, InvalidProgram
<1>3. \A i \in 1 .. n : ClockAt(mHB, i) = ClockOfSet(e, Before(e)[i], Size(mHB))
    BY <1>1 DEF ClocksInv, ClocksAreExact
<1> HIDE DEF e, f, threads, n
<1>4. /\ mHB' \in HappensBefores(threads)
      /\ Size(mHB') = threads
      /\ Len(mHB'.clocks) = n + 1
      /\ \A j \in 1 .. n + 1 : mHB'.clocks[j] = Resize(mHB.clocks[j], threads)
      /\ mHB'.frontier = ZeroFrontier(threads)
    <2> DEFINE reset == ResetHB(mHB, threads)
    <2>1. /\ reset \in HappensBefores(threads)
          /\ Size(reset) = threads
          /\ Len(reset.clocks) = Len(mHB.clocks)
          /\ \A j \in 1 .. Len(mHB.clocks) : reset.clocks[j] = Resize(mHB.clocks[j], threads)
          /\ reset.frontier = ZeroFrontier(threads)
        BY <1>1, ResetIsExact
    <2>2. mHB' = reset /\ Len(mHB.clocks) = n + 1
        BY <1>1, <1>2
    <2> HIDE DEF reset
    <2> QED
        BY <2>1, <2>2
<1>5. ClocksHaveItsThreads'
    <2>1. threads \subseteq Tids
        BY DEF threads, ThreadsOf
    <2>2. \A i \in 1 .. Len(f) : f[i].instr.tid \in threads
        BY <1>1, PerformerIsOfExecution DEF threads
    <2>3. phase' = "update" => threads = ThreadsOf(program', mExecution')
        BY <1>2 DEF threads
    <2> QED
        BY <1>2, <1>4, <2>1, <2>2, <2>3 DEF ClocksHaveItsThreads
<1>6. ASSUME NEW i \in 1 .. n
      PROVE  ClockAt(mHB', i) = ClockOfSet(f, Before(f)[i], threads)
    <2>1. i + 1 \in 1 .. n + 1 /\ i \in 1 .. Len(e) /\ i - 1 \in Nat /\ n <= Len(e)
        BY <1>1 DEF n, e
    <2>2. ClockAt(mHB', i) = Resize(ClockAt(mHB, i), threads)
        BY <1>4, <2>1 DEF ClockAt
    <2>3. Before(e)[i] = Before(f)[i]
        BY <1>1, <2>1, BeforeOfPrefix
    <2>4. PICK js : js = Before(e)[i]
        OBVIOUS
    <2>5. js \in SUBSET (1 .. n)
        <3>1. js \in SUBSET (1 .. i - 1)
            BY <1>1, <2>1, <2>4, BeforeIsEarlier
        <3>2. 1 .. i - 1 \subseteq 1 .. n
            BY <1>1
        <3> QED
            BY <3>1, <3>2
    <2>6. Resize(ClockOfSet(e, js, Size(mHB)), threads) = ClockOfSet(f, js, threads)
        <3>1. PICK old : old = Size(mHB)
            OBVIOUS
        <3>2. f \in Seq(Transitions) /\ n \in Nat /\ n <= Len(f) /\ \A j \in 1 .. n : e[j] = f[j]
            BY <1>1
        <3>3. \A j \in 1 .. n : e[j].instr.tid \in old
            BY <1>1, <3>1
        <3>4. Resize(ClockOfSet(e, js, old), threads) = ClockOfSet(f, js, threads)
            BY <2>5, <3>2, <3>3, ResizeIs, SMTT(30)
        <3> QED
            BY <3>1, <3>4
    <2> QED
        BY <1>3, <2>2, <2>3, <2>4, <2>6
<1>7. ClocksAreExact'
    BY <1>1, <1>2, <1>4, <1>6 DEF ClocksAreExact
<1>8. FrontierIsExact'
    <2> SUFFICES ASSUME phase' = "update", NEW t \in threads
                 PROVE  LastBy(f, 1 .. 0, t) = 0 /\ mHB'.frontier[t] = ZeroClock(threads)
        <3>1. phase' # "update" \/ (index' = 1 /\ index' - 1 = 0)
            BY <1>2
        <3> QED
            BY <1>2, <1>4, <3>1 DEF FrontierIsExact
    <2>1. 1 .. 0 \in SUBSET (1 .. Len(f)) /\ 0 \in 0 .. Len(f) /\ \A j \in 1 .. 0 : FALSE
        BY <1>1
    <2>2. LastBy(f, 1 .. 0, t) = 0
        <3>1. PICK none : none = 1 .. 0
            OBVIOUS
        <3>2. none \in SUBSET (1 .. Len(f)) /\ \A j \in none : f[j].instr.tid = t => j <= 0
            BY <2>1, <3>1
        <3>3. LastBy(f, none, t) = 0
            BY <1>1, <2>1, <3>2, LastByIsOnly
        <3> QED
            BY <3>1, <3>3
    <2> QED
        BY <1>4, <2>2 DEF ZeroFrontier
<1>9. DummyIsZero'
    <2>1. mHB'.clocks[0 + 1] = Resize(mHB.clocks[0 + 1], threads)
        BY <1>1, <1>4
    <2>2. mHB.clocks[0 + 1] = ZeroClock(Size(mHB))
        BY DEF ClocksInv, DummyIsZero, ClockAt
    <2>3. Resize(ZeroClock(Size(mHB)), threads) = ZeroClock(threads)
        BY DEF Resize, ZeroClock
    <2> QED
        BY <1>4, <2>1, <2>2, <2>3 DEF DummyIsZero, ClockAt
<1> QED
    BY <1>4, <1>5, <1>7, <1>8, <1>9 DEF ClocksKept

\* The last transition of a thread so far, one transition later.
LEMMA LastByStep ==
    ASSUME NEW e \in Seq(Transitions), NEW i \in 1 .. Len(e), NEW t
    PROVE  LastBy(e, 1 .. i, t) = IF t = e[i].instr.tid THEN i ELSE LastBy(e, 1 .. i - 1, t)
<1> DEFINE all == 1 .. i
           sofar == 1 .. i - 1
<1>1. /\ all \in SUBSET (1 .. Len(e)) /\ sofar \in SUBSET (1 .. Len(e))
      /\ i \in 0 .. Len(e) /\ i # 0 /\ i \in all
      /\ \A j \in all : j <= i /\ (j = i \/ j \in sofar)
      /\ \A j \in sofar : j \in all
    OBVIOUS
<1> HIDE DEF all, sofar
<1>2. CASE t = e[i].instr.tid
    <2>1. LastBy(e, all, t) = i
        BY <1>1, <1>2, LastByIsOnly
    <2> QED
        BY <1>2, <2>1 DEF all
<1>3. CASE t # e[i].instr.tid
    <2>1. PICK m : m = LastBy(e, sofar, t)
        OBVIOUS
    <2>2. /\ m \in 0 .. Len(e) /\ (m # 0 => m \in sofar /\ e[m].instr.tid = t)
          /\ \A j \in sofar : e[j].instr.tid = t => j <= m
        BY <1>1, <2>1, LastByIs
    <2>3. (m # 0 => m \in all /\ e[m].instr.tid = t) /\ \A j \in all : e[j].instr.tid = t => j <= m
        BY <1>1, <1>3, <2>2
    <2>4. LastBy(e, all, t) = m
        BY <1>1, <2>2, <2>3, LastByIsOnly
    <2> QED
        BY <1>3, <2>1, <2>4 DEF all, sofar
<1> QED
    BY <1>2, <1>3

\* The frontier of threads, when the loop has come to transition i of e.
FrontierAt(e, h, threads, i) ==
    \A t \in threads :
        LET last == LastBy(e, 1 .. i - 1, t)
        IN  h.frontier[t] = IF last = 0 THEN ZeroClock(threads)
                            ELSE [ClockAt(h, last) EXCEPT ![t] = last]

\* set() on a thread without an entry leaves the function as it is, as EXCEPT does.
LEMMA SetIs ==
    ASSUME NEW threads, NEW c \in Clocks(threads), NEW t, NEW v
    PROVE  Set(c, t, v) = [c EXCEPT ![t] = v]
<1>1. c \in [threads -> Nat]
    BY DEF Clocks
<1>2. DOMAIN c = threads
    BY <1>1
<1>3. Set(c, t, v) = [w \in threads |-> IF w = t THEN v ELSE c[w]]
    BY <1>2 DEF Set
<1>4. [c EXCEPT ![t] = v] = [w \in threads |-> IF w = t THEN v ELSE c[w]]
    BY <1>1
<1> QED
    BY <1>3, <1>4

\* The frontier stays exact when the loop goes over transition i.
LEMMA FrontierStep ==
    ASSUME NEW e \in Seq(Transitions), NEW i \in 1 .. Len(e), NEW threads, NEW h, NEW u,
           FrontierAt(e, h, threads, i), ClockAt(u, i) \in Clocks(threads),
           u.frontier[e[i].instr.tid] = Set(ClockAt(u, i), e[i].instr.tid, i),
           \A t \in threads : t # e[i].instr.tid => u.frontier[t] = h.frontier[t],
           \A j \in 1 .. i - 1 : ClockAt(u, j) = ClockAt(h, j)
    PROVE  FrontierAt(e, u, threads, i + 1)
<1> DEFINE clock(last, t) == IF last = 0 THEN ZeroClock(threads)
                             ELSE [ClockAt(u, last) EXCEPT ![t] = last]
<1> SUFFICES ASSUME NEW t \in threads
             PROVE  u.frontier[t] = clock(LastBy(e, 1 .. i, t), t)
    <2>1. i + 1 - 1 = i
        OBVIOUS
    <2>2. FrontierAt(e, u, threads, i + 1)
              <=> \A t \in threads : u.frontier[t] = clock(LastBy(e, 1 .. (i + 1) - 1, t), t)
        BY DEF FrontierAt
    <2> HIDE DEF clock
    <2> QED
        BY <2>1, <2>2
<1>1. CASE t = e[i].instr.tid
    <2>1. LastBy(e, 1 .. i, t) = i /\ i # 0
        BY <1>1, LastByStep
    <2>2. Set(ClockAt(u, i), t, i) = [ClockAt(u, i) EXCEPT ![t] = i]
        BY SetIs
    <2> QED
        BY <1>1, <2>1, <2>2
<1>2. CASE t # e[i].instr.tid
    <2>1. PICK last : last = LastBy(e, 1 .. i - 1, t)
        OBVIOUS
    <2>2. LastBy(e, 1 .. i, t) = last
        BY <1>2, <2>1, LastByStep
    <2>3. last = 0 \/ last \in 1 .. i - 1
        <3>1. i - 1 \in Nat /\ 1 .. i - 1 \in SUBSET (1 .. i - 1)
            OBVIOUS
        <3>2. PICK js, n : js = 1 .. i - 1 /\ n = i - 1
            OBVIOUS
        <3>3. LastBy(e, js, t) # 0 => LastBy(e, js, t) \in js
            BY <3>1, <3>2, LastByIs
        <3> QED
            BY <2>1, <3>2, <3>3
    <2>4. h.frontier[t] = IF last = 0 THEN ZeroClock(threads)
                          ELSE [ClockAt(h, last) EXCEPT ![t] = last]
        BY <2>1 DEF FrontierAt
    <2>5. u.frontier[t] = h.frontier[t]
        BY <1>2
    <2>6. last # 0 => ClockAt(u, last) = ClockAt(h, last)
        BY <2>3
    <2> QED
        BY <2>2, <2>4, <2>5, <2>6
<1> QED
    BY <1>1, <1>2

\* What is known when the loop of update_state goes over a transition.
LEMMA LoopFacts ==
    ASSUME ClocksInv, phase = "update", index <= Len(mExecution)
    PROVE  /\ mExecution \in Seq(Transitions) /\ index \in 1 .. Len(mExecution)
           /\ mHB \in HappensBefores(Size(mHB))
           /\ Len(mHB.clocks) = IF index <= from THEN from ELSE index
           /\ from \in Nat
           /\ FrontierAt(mExecution, mHB, Size(mHB), index)
           /\ \A i \in 1 .. Len(mExecution) : mExecution[i].instr.tid \in Size(mHB)
<1>1. TypeOK /\ SearchIsAligned /\ ClocksAreAligned
    BY DEF ClocksInv, Inv
<1>2. FrontierAt(mExecution, mHB, Size(mHB), index)
    BY DEF ClocksInv, FrontierIsExact, FrontierAt
<1> QED
    BY <1>1, <1>2 DEF TypeOK, SearchIsAligned, ClocksAreAligned, ClocksInv, ClocksHaveItsThreads

\* A transition of the kept prefix is restored.
LEMMA RestoreKeepsExact ==
    ASSUME ClocksInv, RestoreTransition, mHB' = RestoreHB(mHB, mExecution, index)
    PROVE  ClocksKept
<1> DEFINE threads == Size(mHB)
<1>1. /\ phase = "update" /\ index <= Len(mExecution) /\ index < from
      /\ UNCHANGED <<program, phase, mExecution>> /\ index' = index + 1
      /\ mHB' = RestoreHB(mHB, mExecution, index)
    BY DEF RestoreTransition
<1>2. /\ mExecution \in Seq(Transitions) /\ index \in 1 .. Len(mExecution)
      /\ mHB \in HappensBefores(threads) /\ index < Len(mHB.clocks)
      /\ FrontierAt(mExecution, mHB, threads, index)
      /\ mExecution[index].instr.tid \in threads
    BY <1>1, LoopFacts
<1> HIDE DEF threads
<1>3. index \in Nat \ {0}
    BY <1>2
<1>4. /\ mHB' \in HappensBefores(threads)
      /\ Size(mHB') = threads
      /\ mHB'.clocks = mHB.clocks
      /\ mHB'.frontier[mExecution[index].instr.tid]
             = Set(ClockAt(mHB, index), mExecution[index].instr.tid, index)
      /\ \A t \in threads : t # mExecution[index].instr.tid => mHB'.frontier[t] = mHB.frontier[t]
    BY <1>1, <1>2, <1>3, RestoreIsExact
<1>5. \A i : ClockAt(mHB', i) = ClockAt(mHB, i)
    BY <1>4 DEF ClockAt
<1>6. FrontierAt(mExecution, mHB', threads, index + 1)
    <2>1. ClockAt(mHB', index) \in Clocks(threads)
        BY <1>2, <1>5, ClockAtType
    <2> QED
        BY <1>2, <1>4, <1>5, <2>1, FrontierStep
<1>7. FrontierIsExact'
    BY <1>1, <1>4, <1>6 DEF FrontierIsExact, FrontierAt
<1>8. ClocksAreExact'
    BY <1>1, <1>4, <1>5 DEF ClocksInv, ClocksAreExact, threads
<1>9. ClocksHaveItsThreads'
    BY <1>1, <1>4 DEF ClocksInv, ClocksHaveItsThreads, threads
<1>10. DummyIsZero'
    BY <1>4, <1>5 DEF ClocksInv, DummyIsZero, threads
<1> QED
    BY <1>4, <1>7, <1>8, <1>9, <1>10 DEF ClocksKept

\* The clock of a new transition is pushed.
LEMMA UpdateKeepsExact ==
    ASSUME ClocksInv, UpdateTransition, mHB' = UpdatedHB
    PROVE  ClocksKept
<1> DEFINE threads == Size(mHB)
           e == mExecution
           u == UpdateHB(mHB, mExecution, index)
<1>1. /\ phase = "update" /\ index <= Len(mExecution) /\ index >= from
      /\ UNCHANGED <<program, phase, mExecution>> /\ index' = index + 1
      /\ mHB' = u
    BY DEF UpdateTransition, UpdatedHB
<1>2. /\ e \in Seq(Transitions) /\ index \in 1 .. Len(e)
      /\ mHB \in HappensBefores(threads) /\ Len(mHB.clocks) = index
      /\ FrontierAt(e, mHB, threads, index)
      /\ \A i \in 1 .. Len(e) : e[i].instr.tid \in threads
    BY <1>1, LoopFacts
<1>3. \A i \in 1 .. index - 1 : ClockAt(mHB, i) = ClockOfSet(e, Before(e)[i], threads)
    BY <1>2 DEF ClocksInv, ClocksAreExact
<1>4. \A i \in 1 .. index : e[i].instr.tid \in threads
    BY <1>2
<1>5. /\ u \in HappensBefores(threads)
      /\ Size(u) = threads
      /\ Len(u.clocks) = index + 1
      /\ \A j \in 0 .. index - 1 : ClockAt(u, j) = ClockAt(mHB, j)
      /\ ClockAt(u, index) = ClockOfSet(e, Before(e)[index], threads)
      /\ u.frontier[e[index].instr.tid] = Set(ClockAt(u, index), e[index].instr.tid, index)
      /\ \A t \in threads : t # e[index].instr.tid => u.frontier[t] = mHB.frontier[t]
    <2> HIDE DEF threads, e
    <2> QED
        BY <1>2, <1>3, <1>4, UpdateIsExact DEF e
<1> HIDE DEF u
<1>6. FrontierAt(e, u, threads, index + 1)
    <2> HIDE DEF threads, e
    <2>1. index \in Nat \ {0} /\ index < Len(u.clocks)
        BY <1>2, <1>5
    <2>2. ClockAt(u, index) \in Clocks(threads)
        BY <1>5, <2>1, ClockAtType
    <2>3. \A j \in 1 .. index - 1 : ClockAt(u, j) = ClockAt(mHB, j)
        BY <1>5
    <2> QED
        BY <1>2, <1>5, <2>2, <2>3, FrontierStep
<1>7. FrontierIsExact'
    BY <1>1, <1>5, <1>6 DEF FrontierIsExact, FrontierAt
<1>8. ClocksAreExact'
    <2> SUFFICES ASSUME NEW i \in 1 .. index
                 PROVE  ClockAt(u, i) = ClockOfSet(e, Before(e)[i], threads)
        BY <1>1, <1>2, <1>5 DEF ClocksAreExact
    <2>1. i = index \/ i \in 1 .. index - 1
        BY <1>2
    <2> QED
        BY <1>3, <1>5, <2>1
<1>9. ClocksHaveItsThreads'
    BY <1>1, <1>5 DEF ClocksInv, ClocksHaveItsThreads
<1>10. DummyIsZero'
    <2>1. 0 \in 0 .. index - 1
        BY <1>2
    <2> QED
        BY <1>1, <1>5, <2>1 DEF ClocksInv, DummyIsZero
<1> QED
    BY <1>1, <1>5, <1>7, <1>8, <1>9, <1>10 DEF ClocksKept

\* The last clock is popped with the last transition.
LEMMA PopKeepsExact ==
    ASSUME ClocksInv, PopBack, mHB' = PopBackHB(mHB), phase' # "update"
    PROVE  ClocksKept
<1> DEFINE threads == Size(mHB)
           e == mExecution
           f == mExecution'
           n == Len(mExecution')
<1>1. /\ e \in Seq(Transitions) /\ f \in Seq(Transitions)
      /\ n \in Nat /\ Len(e) = n + 1 /\ \A i \in 1 .. n : e[i] = f[i]
      /\ Len(mHB.clocks) = n + 2
      /\ mHB \in HappensBefores(threads) /\ threads \subseteq Tids
      /\ \A i \in 1 .. n : e[i].instr.tid \in threads
    <2>1. TypeOK /\ SearchIsAligned /\ ClocksAreAligned
        BY DEF ClocksInv, Inv
    <2>2. e \in Seq(Transitions) /\ e # <<>> /\ f = Front(e)
        BY <2>1 DEF TypeOK, PopBack
    <2>3. /\ f \in Seq(Transitions) /\ Len(f) = Len(e) - 1 /\ Len(e) \in Nat \ {0}
          /\ \A i \in 1 .. Len(e) - 1 : f[i] = e[i]
        <3> HIDE DEF e, f
        <3> QED
            BY <2>2, FrontIs, EmptySeq
    <2>4. Len(mHB.clocks) = Len(e) + 1
        BY <2>1 DEF SearchIsAligned, ClocksAreAligned, PopBack
    <2>5. /\ mHB \in HappensBefores(threads) /\ threads \subseteq Tids
          /\ \A i \in 1 .. Len(e) : e[i].instr.tid \in threads
        BY DEF ClocksInv, ClocksHaveItsThreads
    <2>6. n = Len(f) /\ Len(e) = n + 1 /\ n \in Nat /\ Len(mHB.clocks) = n + 2
        BY <2>3, <2>4
    <2>7. \A i \in 1 .. n : i \in 1 .. Len(e) /\ e[i] = f[i]
        BY <2>3, <2>6
    <2> HIDE DEF threads, e, f, n
    <2> QED
        BY <2>2, <2>3, <2>5, <2>6, <2>7
<1>2. \A i \in 1 .. n : ClockAt(mHB, i) = ClockOfSet(e, Before(e)[i], threads)
    BY <1>1 DEF ClocksInv, ClocksAreExact
<1> HIDE DEF threads, e, f, n
<1>3. mHB.clocks # <<>>
    BY <1>1, EmptySeq
<1>4. /\ mHB' \in HappensBefores(threads)
      /\ Size(mHB') = threads
      /\ Len(mHB'.clocks) = n + 1
      /\ \A j \in 1 .. n + 1 : mHB'.clocks[j] = mHB.clocks[j]
    BY <1>1, <1>3, PopIsExact, SMTT(30)
<1>5. ASSUME NEW i \in 1 .. n
      PROVE  ClockAt(mHB', i) = ClockOfSet(f, Before(f)[i], threads)
    <2>1. i + 1 \in 1 .. n + 1 /\ i \in 1 .. Len(e) /\ n <= Len(e) /\ n <= Len(f)
        BY <1>1 DEF n, f
    <2>2. ClockAt(mHB', i) = ClockAt(mHB, i)
        BY <1>4, <2>1 DEF ClockAt
    <2>3. Before(e)[i] = Before(f)[i]
        BY <1>1, <2>1, BeforeOfPrefix
    <2>4. PICK js : js = Before(e)[i]
        OBVIOUS
    <2>5. js \in SUBSET (1 .. n)
        <3>1. js \in SUBSET (1 .. i - 1)
            BY <1>1, <2>1, <2>4, BeforeIsEarlier
        <3>2. 1 .. i - 1 \subseteq 1 .. n
            BY <1>1
        <3> QED
            BY <3>1, <3>2
    <2>6. \A t : LastBy(e, js, t) = LastBy(f, js, t)
        BY <1>1, <2>5, SameLastBy
    <2> QED
        BY <1>2, <2>2, <2>3, <2>4, <2>6 DEF ClockOfSet
<1>6. ClocksAreExact'
    BY <1>1, <1>4, <1>5 DEF ClocksAreExact, f, n
<1>7. ClocksHaveItsThreads'
    BY <1>1, <1>4 DEF ClocksHaveItsThreads, f, n
<1>8. FrontierIsExact'
    BY DEF FrontierIsExact
<1>9. DummyIsZero'
    <2>1. mHB'.clocks[0 + 1] = mHB.clocks[0 + 1]
        BY <1>1, <1>4
    <2> QED
        BY <1>4, <2>1 DEF ClocksInv, DummyIsZero, ClockAt, threads
<1> QED
    BY <1>4, <1>6, <1>7, <1>8, <1>9 DEF ClocksKept

\* Every step of a search that keeps clocks preserves what they are.
LEMMA ClocksInvStep ==
    ASSUME ClocksInv, ClockStep, Inv'
    PROVE  ClocksInv'
<1>1. ClocksAreAligned'
    BY ClocksAreAlignedStep DEF ClocksInv, Inv
<1>2. ClocksKept
    <2>1. CASE /\ UNCHANGED <<program, mExecution, dfsState, mHB>>
               /\ phase' = "update" => phase = "update" /\ index' = index
        BY <2>1 DEF ClocksInv, ClocksKept, ClocksHaveItsThreads, DummyIsZero, ClocksAreExact, FrontierIsExact
    <2>2. CASE /\ ReadRecord \/ InvalidProgram
               /\ mHB' = ResetHB(mHB, ThreadsOf(program, record.transitions))
        BY <2>2, ReadIsExact
    <2>3. CASE RestoreTransition /\ mHB' = RestoreHB(mHB, mExecution, index)
        BY <2>3, RestoreKeepsExact
    <2>4. CASE UpdateTransition /\ mHB' = UpdatedHB
        BY <2>4, UpdateKeepsExact
    <2>5. CASE PopBack /\ mHB' = PopBackHB(mHB) /\ phase' # "update"
        BY <2>5, PopKeepsExact
    <2> QED
        BY <2>1, <2>2, <2>3, <2>4, <2>5 DEF ClockStep
<1> QED
    BY <1>1, <1>2 DEF ClocksInv, ClocksKept

\* Every step preserves the invariant of the clocks.
LEMMA ClockInvStep ==
    ASSUME ValidPrograms, ClockInv, [DporNext]_dporVars
    PROVE  ClockInv'
<1>1. DporInv'
    BY DporInvStep DEF ClockInv
<1>2. ClocksInv'
    <2>1. Inv'
        BY <1>1 DEF DporInv
    <2> QED
        BY <2>1, DporIsClockStep, ClocksInvStep DEF ClockInv
<1>3. nrSleepsetBlocked' \in Nat
    <2>1. nrSleepsetBlocked \in Nat
        BY DEF ClockInv, DporTypeOK
    <2>2. CASE DporReadRecord
        <3>1. (IF record.status = "BLOCKED" THEN 1 ELSE 0) \in Nat
            OBVIOUS
        <3> QED
            BY <2>1, <2>2, <3>1 DEF DporReadRecord
    <2>3. CASE nrSleepsetBlocked' = nrSleepsetBlocked
        BY <2>1, <2>3
    <2> QED
        BY <2>2, <2>3 DEF DporNext, DporStartRun, DporSelectThread, DporBlocked, DporRunEnds,
           DporInvalidProgram, DporRestoreTransition, DporUpdateTransition, DporScheduleNext,
           DporBacktrackFurther, DporPopBack, UnchangedDpor, dporVars
<1>4. TypeOK' /\ sufficient' \in Seq(SufficientSets) /\ mSleep' \subseteq Tids
    BY <1>1 DEF DporInv, Inv
<1> QED
    BY <1>1, <1>2, <1>3, <1>4 DEF ClockInv, ClocksInv, DporTypeOK

\* The clocks at the start.
LEMMA ClocksInvInit ==
    ASSUME Init, Inv, mHB = InitialHB
    PROVE  ClocksInv
<1>1. /\ mHB = [clocks |-> <<ZeroClock({})>>, frontier |-> ZeroFrontier({}), index |-> 0]
      /\ phase = "loop" /\ mExecution = <<>>
    BY DEF Init, InitialHB
<1>2. ZeroClock({}) \in Clocks({})
    BY DEF ZeroClock, Clocks
<1>3. ZeroFrontier({}) \in [{} -> Clocks({})] /\ DOMAIN ZeroFrontier({}) = {}
    BY DEF ZeroFrontier
<1>4. mHB \in HappensBefores({}) /\ Size(mHB) = {} /\ Len(mHB.clocks) = 1
    BY <1>1, <1>2, <1>3 DEF HappensBefores, Size
<1>5. Len(mExecution) = 0
    BY <1>1, EmptySeq
<1>6. ClocksHaveItsThreads /\ ClocksAreExact /\ FrontierIsExact
    BY <1>1, <1>4, <1>5 DEF ClocksHaveItsThreads, ClocksAreExact, FrontierIsExact
<1>7. DummyIsZero
    <2>1. mHB.clocks[0 + 1] = ZeroClock({})
        BY <1>1
    <2> QED
        BY <1>4, <2>1 DEF DummyIsZero, ClockAt
<1> QED
    BY <1>4, <1>6, <1>7, ClocksAreAlignedInit DEF ClocksInv

\* It holds at the start.
LEMMA ClockInvInit ==
    ASSUME DporInit, DporInv
    PROVE  ClockInv
<1>1. Init /\ mHB = InitialHB /\ nrSleepsetBlocked = 0
    BY DEF DporInit
<1>2. ClocksInv
    BY <1>1, ClocksInvInit DEF DporInv
<1>3. DporTypeOK
    BY <1>1, <1>2 DEF ClocksInv, DporInv, Inv, DporTypeOK
<1> QED
    BY <1>2, <1>3 DEF ClockInv

\* The clocks fit in size when they are exact.
LEMMA ExactClocksAgree == ClocksInv => ClockSizesAgree
<1> SUFFICES ASSUME ClocksInv, phase = "update"
             PROVE  /\ \A i \in DOMAIN mHB.clocks : DOMAIN mHB.clocks[i] = Size(mHB)
                    /\ \A t \in Size(mHB) : DOMAIN mHB.frontier[t] = Size(mHB)
                    /\ \A i \in 1 .. Len(mExecution) :
                           {t \in Tids : HasNext(program, mExecution[i].pre, t)} \subseteq Size(mHB)
    BY DEF ClockSizesAgree
<1>1. mHB \in HappensBefores(Size(mHB))
    BY DEF ClocksInv
<1>2. mHB.clocks \in Seq(Clocks(Size(mHB))) /\ mHB.frontier \in [Size(mHB) -> Clocks(Size(mHB))]
    BY <1>1, HappensBeforeIs
<1>3. \A i \in DOMAIN mHB.clocks : DOMAIN mHB.clocks[i] = Size(mHB)
    <2>1. \A i \in 1 .. Len(mHB.clocks) : mHB.clocks[i] \in Clocks(Size(mHB))
        BY <1>2, ElementOfSeq
    <2>2. DOMAIN mHB.clocks = 1 .. Len(mHB.clocks)
        BY <1>2
    <2> QED
        BY <2>1, <2>2 DEF Clocks
<1>4. \A t \in Size(mHB) : DOMAIN mHB.frontier[t] = Size(mHB)
    BY <1>2 DEF Clocks
<1>5. Size(mHB) = ThreadsOf(program, mExecution)
    BY DEF ClocksInv, ClocksHaveItsThreads
<1>6. program \in Programs /\ mExecution \in Seq(Transitions) /\ IsExecution(program, mExecution)
    BY DEF ClocksInv, Inv, TypeOK, ExecutionsAreValid
<1> QED
    BY <1>3, <1>4, <1>5, <1>6, NextIsOfExecution

-----------------------------------------------------------------------------
(* The theorems about the clocks *)

\* The inductive invariant of the clocks.
THEOREM ClockInvariantHolds ==
    ASSUME ValidPrograms
    PROVE  DporSpec => []ClockInv
<1>1. DporInit /\ DporInv => ClockInv
    BY ClockInvInit
<1>2. ClockInv /\ [DporNext]_dporVars => ClockInv'
    BY ClockInvStep
<1> QED
    BY <1>1, <1>2, DporInvariantHolds, PTL DEF DporSpec

\* Type correctness of dpor, the clocks and the scheduler's sleep set.
THEOREM DporTypeCorrect ==
    ASSUME ValidPrograms
    PROVE  DporSpec => []DporTypeOK
<1>1. ClockInv => DporTypeOK
    BY DEF ClockInv
<1> QED
    BY <1>1, ClockInvariantHolds, PTL

\* Every clock that dpor keeps is the transitive closure of dependence along the
\* execution, although create_clock skips what is below the clock already, the clocks
\* outlive the executions they were made for, and records may be stale.
THEOREM ClocksAreCorrect ==
    ASSUME ValidPrograms
    PROVE  DporSpec => []ClocksAreExact
<1>1. ClockInv => ClocksAreExact
    BY DEF ClockInv, ClocksInv
<1> QED
    BY <1>1, ClockInvariantHolds, PTL

\* The frontier follows the loop of update_state over restored and new transitions.
THEOREM FrontierIsCorrect ==
    ASSUME ValidPrograms
    PROVE  DporSpec => []FrontierIsExact
<1>1. ClockInv => FrontierIsExact
    BY DEF ClockInv, ClocksInv
<1> QED
    BY <1>1, ClockInvariantHolds, PTL

\* VectorClock only ever compares clocks of the same size and is indexed by threads it
\* has entries for, also after an execution with more or fewer threads than the last.
THEOREM ClockSizesAreRight ==
    ASSUME ValidPrograms
    PROVE  DporSpec => []ClockSizesAgree
<1>1. ClockInv => ClockSizesAgree
    BY ExactClocksAgree DEF ClockInv
<1> QED
    BY <1>1, ClockInvariantHolds, PTL

-----------------------------------------------------------------------------
(* The queries, when the frontier is that of pre+(e, i) *)

\* h has the clocks of the first i transitions of e, and the frontier behind them.
ClocksFit(e, h, threads, i) ==
    /\ Size(h) = threads
    /\ h.index = i
    /\ ClockAt(h, 0) = ZeroClock(threads)
    /\ \A j \in 1 .. i : /\ e[j].instr.tid \in threads
                         /\ ClockAt(h, j) = ClockOfSet(e, Before(e)[j], threads)
    /\ FrontierAt(e, h, threads, i + 1)

\* A set that contains what happens before its elements is told by the last
\* transitions of the threads in it.
LEMMA DownSetIs ==
    ASSUME NEW e \in Seq(Transitions), NEW js \in SUBSET (1 .. Len(e)),
           \A j \in js : Before(e)[j] \subseteq js,
           NEW k \in 1 .. Len(e)
    PROVE  k \in js <=> k <= LastBy(e, js, e[k].instr.tid)
<1> DEFINE last == LastBy(e, js, e[k].instr.tid)
<1>1. /\ last \in 0 .. Len(e)
      /\ last # 0 => last \in js /\ e[last].instr.tid = e[k].instr.tid
      /\ \A j \in js : e[j].instr.tid = e[k].instr.tid => j <= last
    BY LastByIs
<1> HIDE DEF last
<1>2. ASSUME k < last
      PROVE  k \in js
    <2>1. last \in 1 .. Len(e) /\ k \in 1 .. last - 1 /\ last \in js
        BY <1>1, <1>2
    <2>2. k \in Before(e)[last]
        BY <1>1, <2>1, ThreadIsOrdered
    <2> QED
        BY <2>1, <2>2
<1> QED
    BY <1>1, <1>2 DEF last

\* The clock of a transition tells what happens before it.
LEMMA ClockSays ==
    ASSUME NEW e \in Seq(Transitions), NEW h, NEW threads, NEW i \in 1 .. Len(e),
           ClocksFit(e, h, threads, i), NEW j \in 1 .. i, NEW k \in 1 .. i
    PROVE  k \in Before(e)[j] <=> k <= ClockAt(h, j)[e[k].instr.tid]
<1>1. j \in 1 .. Len(e) /\ k \in 1 .. Len(e) /\ 1 .. j - 1 \subseteq 1 .. Len(e)
    OBVIOUS
<1>2. PICK js : js = Before(e)[j]
    OBVIOUS
<1>3. js \in SUBSET (1 .. Len(e)) /\ \A m \in js : Before(e)[m] \subseteq js
    BY <1>1, <1>2, BeforeIsEarlier, BeforeIsTransitive
<1>4. ClockAt(h, j)[e[k].instr.tid] = LastBy(e, js, e[k].instr.tid)
    BY <1>2 DEF ClocksFit, ClockOfSet
<1>5. k \in js <=> k <= LastBy(e, js, e[k].instr.tid)
    BY <1>1, <1>3, DownSetIs
<1> QED
    BY <1>2, <1>4, <1>5

\* What thread t has performed before transition i, and what happens before that.
ThreadPast(e, i, t) == {j \in 1 .. i - 1 : ~NotBeforeThread(e, i, j, t)}

\* Of the transitions before i, those that are before thread t are its last one and
\* what happens before that.
LEMMA ThreadPastIs ==
    ASSUME NEW e \in Seq(Transitions), NEW i \in 1 .. Len(e), NEW t,
           NEW last, last = LastBy(e, 1 .. i - 1, t)
    PROVE  /\ last = 0 \/ last \in 1 .. i - 1
           /\ last # 0 => e[last].instr.tid = t
           /\ \A k \in 1 .. i - 1 : e[k].instr.tid = t => k <= last
           /\ ThreadPast(e, i, t) = IF last = 0 THEN {} ELSE {last} \cup Before(e)[last]
<1>1. PICK js : js = 1 .. i - 1
    OBVIOUS
<1>2. js \in SUBSET (1 .. Len(e)) /\ Len(e) \in Nat /\ last = LastBy(e, js, t)
    BY <1>1
<1>3. /\ last \in 0 .. Len(e)
      /\ last # 0 => last \in js /\ e[last].instr.tid = t
      /\ \A k \in js : e[k].instr.tid = t => k <= last
    <2>1. /\ LastBy(e, js, t) \in 0 .. Len(e)
          /\ LastBy(e, js, t) # 0 => LastBy(e, js, t) \in js /\ e[LastBy(e, js, t)].instr.tid = t
          /\ \A k \in js : e[k].instr.tid = t => k <= LastBy(e, js, t)
        BY <1>2, LastByIs
    <2> QED
        BY <1>2, <2>1
<1>4. ASSUME NEW k \in js, e[k].instr.tid = t
      PROVE  last # 0 /\ {k} \cup Before(e)[k] \subseteq {last} \cup Before(e)[last]
    <2>1. k <= last /\ last \in 1 .. Len(e) /\ e[last].instr.tid = t
        BY <1>1, <1>3, <1>4
    <2>2. CASE k = last
        BY <1>1, <2>1, <2>2
    <2>3. CASE k # last
        <3>1. k \in 1 .. last - 1
            BY <1>1, <2>1, <2>3
        <3>2. k \in Before(e)[last]
            BY <1>4, <2>1, <3>1, ThreadIsOrdered
        <3>3. Before(e)[k] \subseteq Before(e)[last]
            BY <2>1, <3>2, BeforeIsTransitive
        <3> QED
            BY <2>1, <3>2, <3>3
    <2> QED
        BY <2>2, <2>3
<1>5. ThreadPast(e, i, t) = {j \in js : \E k \in js : e[k].instr.tid = t /\ j \in {k} \cup Before(e)[k]}
    BY <1>1 DEF ThreadPast, NotBeforeThread
<1>6. last # 0 => {last} \cup Before(e)[last] \subseteq js
    <2>1. last # 0 => last \in 1 .. Len(e) /\ 1 .. last - 1 \subseteq js
        BY <1>1, <1>3
    <2> QED
        BY <1>3, <2>1, BeforeIsEarlier
<1>7. ThreadPast(e, i, t) = IF last = 0 THEN {} ELSE {last} \cup Before(e)[last]
    BY <1>3, <1>4, <1>5, <1>6
<1>8. /\ last \in js \/ last = 0
      /\ last # 0 => e[last].instr.tid = t
      /\ \A k \in js : e[k].instr.tid = t => k <= last
    BY <1>3
<1> HIDE DEF ThreadPast
<1> QED
    BY <1>1, <1>7, <1>8

\* It contains what happens before its elements, and all that is by t.
LEMMA ThreadPastIsClosed ==
    ASSUME NEW e \in Seq(Transitions), NEW i \in 1 .. Len(e), NEW t
    PROVE  /\ ThreadPast(e, i, t) \in SUBSET (1 .. i - 1)
           /\ \A j \in ThreadPast(e, i, t) : Before(e)[j] \subseteq ThreadPast(e, i, t)
           /\ \A k \in 1 .. i - 1 : e[k].instr.tid = t => k \in ThreadPast(e, i, t)
<1>1. PICK last : last = LastBy(e, 1 .. i - 1, t)
    OBVIOUS
<1>2. ThreadPast(e, i, t) = IF last = 0 THEN {} ELSE {last} \cup Before(e)[last]
    BY <1>1, ThreadPastIs
<1>3. last # 0 => last \in 1 .. Len(e)
    <2>1. last = 0 \/ last \in 1 .. i - 1
        BY <1>1, ThreadPastIs
    <2> QED
        BY <2>1
<1>4. \A j \in ThreadPast(e, i, t) : Before(e)[j] \subseteq ThreadPast(e, i, t)
    BY <1>2, <1>3, BeforeIsTransitive
<1> QED
    BY <1>4 DEF ThreadPast, NotBeforeThread

\* previous_by: the clock of all that, but for the entry of t itself.
LEMMA PreviousByIs ==
    ASSUME NEW e \in Seq(Transitions), NEW h, NEW threads, NEW i \in 1 .. Len(e),
           ClocksFit(e, h, threads, i), NEW t \in threads, NEW u \in threads, u # t
    PROVE  PreviousBy(e, h, t)[u] = LastBy(e, ThreadPast(e, i, t), u)
<1>1. PICK last : last = LastBy(e, 1 .. i - 1, t)
    OBVIOUS
<1>2. /\ last = 0 \/ last \in 1 .. i - 1
      /\ last # 0 => e[last].instr.tid = t
      /\ \A k \in 1 .. i - 1 : e[k].instr.tid = t => k <= last
      /\ ThreadPast(e, i, t) = IF last = 0 THEN {} ELSE {last} \cup Before(e)[last]
    BY <1>1, ThreadPastIs
<1>3. PICK past : past = ThreadPast(e, i, t)
    OBVIOUS
<1>4. last = 0 => LastBy(e, past, u) = 0
    <2>1. 0 \in 0 .. Len(e) /\ {} \in SUBSET (1 .. Len(e))
        OBVIOUS
    <2>2. LastBy(e, {}, u) = 0
        BY <2>1, LastByIsOnly
    <2> QED
        BY <1>2, <1>3, <2>2
<1>5. ASSUME last # 0
      PROVE  /\ ClockAt(h, last) \in Clocks(threads)
             /\ ClockAt(h, last)[u] = LastBy(e, past, u)
    <2>1. last \in 1 .. i /\ last \in 1 .. Len(e) /\ 1 .. last - 1 \subseteq 1 .. Len(e)
        BY <1>2, <1>5
    <2>2. PICK js : js = Before(e)[last]
        OBVIOUS
    <2>3. js \in SUBSET (1 .. Len(e)) /\ Len(e) \in Nat
        BY <2>1, <2>2, BeforeIsEarlier
    <2>4. ClockAt(h, last) = ClockOfSet(e, js, threads)
        BY <2>1, <2>2 DEF ClocksFit
    <2>5. PICK m : m = LastBy(e, js, u)
        OBVIOUS
    <2>6. /\ m \in 0 .. Len(e)
          /\ m # 0 => m \in js /\ e[m].instr.tid = u
          /\ \A j \in js : e[j].instr.tid = u => j <= m
        BY <2>3, <2>5, LastByIs
    <2>7. past = {last} \cup js /\ e[last].instr.tid # u
        BY <1>2, <1>3, <1>5, <2>2
    <2>8. past \in SUBSET (1 .. Len(e))
        BY <2>1, <2>3, <2>7
    <2>9. (m # 0 => m \in past) /\ \A j \in past : e[j].instr.tid = u => j <= m
        BY <2>6, <2>7
    <2>10. LastBy(e, past, u) = m
        BY <2>6, <2>8, <2>9, LastByIsOnly
    <2>11. ClockOfSet(e, js, threads) \in Clocks(threads)
        BY <2>3, ClockOfSetType
    <2> QED
        BY <2>4, <2>5, <2>10, <2>11 DEF ClockOfSet
<1>6. CASE e[i].instr.tid = t
    <2>1. ClockAt(h, i)[t] = last
        <3>1. PICK js : js = Before(e)[i]
            OBVIOUS
        <3>2. js \in SUBSET (1 .. i - 1) /\ i - 1 \in Nat
            BY <3>1, BeforeIsEarlier
        <3>3. last # 0 => last \in js
            BY <1>2, <1>6, <3>1, ThreadIsOrdered
        <3>4. js \in SUBSET (1 .. Len(e)) /\ last \in 0 .. Len(e) /\ \A j \in js : j \in 1 .. i - 1
            BY <1>2, <3>2
        <3>5. LastBy(e, js, t) = last
            BY <1>2, <3>3, <3>4, LastByIsOnly
        <3>6. ClockAt(h, i) = ClockOfSet(e, js, threads)
            <4>1. i \in 1 .. i
                OBVIOUS
            <4> QED
                BY <3>1, <4>1 DEF ClocksFit
        <3> QED
            BY <3>5, <3>6, Zenon DEF ClockOfSet
    <2>2. PreviousBy(e, h, t) = ClockAt(h, last)
        BY <1>6, <2>1 DEF PreviousBy, ClocksFit
    <2>3. last = 0 => ClockAt(h, last)[u] = 0
        BY DEF ClocksFit, ZeroClock
    <2> QED
        BY <1>3, <1>4, <1>5, <2>2, <2>3
<1>7. CASE e[i].instr.tid # t
    <2>1. LastBy(e, 1 .. i, t) = last
        BY <1>1, <1>7, LastByStep
    <2>2. i + 1 - 1 = i
        OBVIOUS
    <2>4. h.frontier[t] = IF last = 0 THEN ZeroClock(threads)
                          ELSE [ClockAt(h, last) EXCEPT ![t] = last]
        <3>1. FrontierAt(e, h, threads, i + 1)
            BY DEF ClocksFit
        <3>2. LastBy(e, 1 .. (i + 1) - 1, t) = last
            BY <2>1, <2>2
        <3> QED
            BY <3>1, <3>2 DEF FrontierAt
    <2>5. PreviousBy(e, h, t) = h.frontier[t]
        BY <1>7 DEF PreviousBy, ClocksFit
    <2>6. last # 0 => [ClockAt(h, last) EXCEPT ![t] = last][u] = ClockAt(h, last)[u]
        BY <1>5 DEF Clocks
    <2> QED
        BY <1>3, <1>4, <1>5, <2>4, <2>5, <2>6 DEF ZeroClock
<1> QED
    BY <1>6, <1>7

\* Without the transitions of a set that contains what happens before its elements,
\* the clock of a set has the entries that are beyond those of the other.
LEMMA LastByOfRest ==
    ASSUME NEW e \in Seq(Transitions), NEW past \in SUBSET (1 .. Len(e)),
           NEW own \in SUBSET (1 .. Len(e)), \A j \in own : Before(e)[j] \subseteq own,
           NEW rest \in SUBSET (1 .. Len(e)), 
           \A k : k \in rest <=> k \in past /\ k \notin own, NEW u
    PROVE  LastBy(e, rest, u) = IF LastBy(e, past, u) <= LastBy(e, own, u)
                                THEN 0 ELSE LastBy(e, past, u)
<1> DEFINE a == LastBy(e, past, u)
           b == LastBy(e, own, u)
<1>1. /\ a \in 0 .. Len(e)
      /\ a # 0 => a \in past /\ e[a].instr.tid = u
      /\ \A j \in past : e[j].instr.tid = u => j <= a
    BY LastByIs
<1>2. /\ b \in 0 .. Len(e)
      /\ \A j \in own : e[j].instr.tid = u => j <= b
    BY LastByIs
<1>3. \A k \in 1 .. Len(e) : e[k].instr.tid = u => (k \in own <=> k <= b)
    BY DownSetIs
<1> HIDE DEF a, b
<1>4. CASE a <= b
    <2>1. \A k \in rest : e[k].instr.tid = u => k <= 0
        <3> SUFFICES ASSUME NEW k \in rest, e[k].instr.tid = u
                     PROVE  FALSE
            OBVIOUS
        <3>1. k \in 1 .. Len(e) /\ k \in past /\ k \notin own
            OBVIOUS
        <3>2. k <= a
            BY <1>1, <3>1
        <3> QED
            BY <1>1, <1>2, <1>3, <1>4, <3>1, <3>2
    <2>2. 0 \in 0 .. Len(e)
        OBVIOUS
    <2>3. LastBy(e, rest, u) = 0
        BY <2>1, <2>2, LastByIsOnly
    <2> QED
        BY <1>4, <2>3 DEF a, b
<1>5. CASE ~ a <= b
    <2>1. a # 0 /\ a \in rest /\ e[a].instr.tid = u
        <3>1. a \in past /\ a \in 1 .. Len(e) /\ e[a].instr.tid = u /\ ~ a <= b
            BY <1>1, <1>2, <1>5
        <3>2. a \notin own
            BY <1>3, <3>1
        <3> QED
            BY <3>1, <3>2
    <2>2. \A j \in rest : e[j].instr.tid = u => j <= a
        BY <1>1
    <2>3. LastBy(e, rest, u) = a
        <3>1. rest \in SUBSET (1 .. Len(e)) /\ a \in 0 .. Len(e)
            BY <1>1
        <3>2. a # 0 => a \in rest /\ e[a].instr.tid = u
            BY <2>1
        <3> QED
            BY <2>2, <3>1, <3>2, LastByIsOnly
    <2> QED
        BY <1>5, <2>3 DEF a, b
<1> QED
    BY <1>4, <1>5

\* The past of an instruction lies before it and is closed.
LEMMA PastIsClosed ==
    ASSUME NEW e \in Seq(Transitions), NEW i \in 1 .. Len(e), NEW instr
    PROVE  /\ Past(e, i, instr) \in SUBSET (1 .. i - 1)
           /\ \A k \in Past(e, i, instr) : Before(e)[k] \subseteq Past(e, i, instr)
<1>1. i \in 1 .. Len(e) + 1 /\ 1 \in 1 .. i
    OBVIOUS
<1>2. Past(e, i, instr) = PastFrom(e, i, instr, 1)
    BY DEF Past, PastFrom
<1> QED
    BY <1>1, <1>2, PastFromIs

\* thread_transitive_reduction leaves the clock of what happens before an instruction
\* of t and not before an earlier one of t.
LEMMA ReductionIs ==
    ASSUME NEW e \in Seq(Transitions), NEW h, NEW threads, NEW i \in 1 .. Len(e),
           ClocksFit(e, h, threads, i), NEW t \in threads,
           NEW instr, instr.tid = t, e[i].instr.tid = t => instr = e[i].instr,
           NEW rest,
           \A k : k \in rest <=> k \in Past(e, i, instr) /\ k \notin ThreadPast(e, i, t)
    PROVE  ThreadTransitiveReduction(e, h, t, ClockOf(e, h, i, instr)) = ClockOfSet(e, rest, threads)
<1>1. PICK past, own : past = Past(e, i, instr) /\ own = ThreadPast(e, i, t)
    OBVIOUS
<1>2. past \in SUBSET (1 .. Len(e)) /\ own \in SUBSET (1 .. Len(e)) /\ rest \in SUBSET (1 .. Len(e))
    <2>1. past \in SUBSET (1 .. i - 1) /\ own \in SUBSET (1 .. i - 1) /\ 1 .. i - 1 \subseteq 1 .. Len(e)
        BY <1>1, PastIsClosed, ThreadPastIsClosed
    <2> QED
        BY <1>1, <2>1
<1>3. /\ \A j \in own : Before(e)[j] \subseteq own
      /\ \A k \in rest : e[k].instr.tid # t
    <2>1. \A k \in past : k \in 1 .. i - 1
        BY <1>1, PastIsClosed
    <2> QED
        BY <1>1, <2>1, ThreadPastIsClosed
<1>4. ClockOf(e, h, i, instr) = ClockOfSet(e, past, threads)
    <2>1. CASE e[i].instr.tid = t
        <3>1. past = Before(e)[i]
            BY <1>1, <2>1, BeforeIs
        <3>2. i \in 1 .. i
            OBVIOUS
        <3>3. ClockAt(h, i) = ClockOfSet(e, past, threads)
            BY <3>1, <3>2 DEF ClocksFit
        <3> QED
            BY <2>1, <3>3 DEF ClockOf
    <2>2. CASE e[i].instr.tid # t
        <3>1. /\ i \in 1 .. Len(e) + 1 /\ Size(h) = threads
              /\ \A j \in 1 .. i - 1 : j \in 1 .. i
            BY DEF ClocksFit
        <3>2. \A j \in 1 .. i - 1 : /\ e[j].instr.tid \in Size(h)
                                    /\ ClockAt(h, j) = ClockOfSet(e, Before(e)[j], Size(h))
            BY <3>1 DEF ClocksFit
        <3>3. CreateClock(e, h, i, instr) = ClockOfSet(e, Past(e, i, instr), Size(h))
            BY <3>1, <3>2, CreateClockIs
        <3> QED
            BY <1>1, <2>2, <3>1, <3>3 DEF ClockOf
    <2> QED
        BY <2>1, <2>2
<1>5. PICK prev : prev = PreviousBy(e, h, t)
    OBVIOUS
<1>6. ASSUME NEW u \in threads
      PROVE  (IF u = t THEN 0 ELSE IF LastBy(e, past, u) <= prev[u] THEN 0 ELSE LastBy(e, past, u))
                 = LastBy(e, rest, u)
    <2>1. CASE u = t
        <3>1. 0 \in 0 .. Len(e)
            OBVIOUS
        <3>2. \A k \in rest : e[k].instr.tid = u => k <= 0
            BY <1>3, <2>1
        <3>3. LastBy(e, rest, u) = 0
            <4>1. rest \in SUBSET (1 .. Len(e))
                BY <1>2
            <4> QED
                BY <3>1, <3>2, <4>1, LastByIsOnly
        <3> QED
            BY <2>1, <3>3
    <2>2. CASE u # t
        <3>1. prev[u] = LastBy(e, own, u)
            BY <1>1, <1>5, <2>2, PreviousByIs
        <3>2. LastBy(e, rest, u) = IF LastBy(e, past, u) <= LastBy(e, own, u)
                                   THEN 0 ELSE LastBy(e, past, u)
            BY <1>1, <1>2, <1>3, LastByOfRest
        <3> QED
            BY <2>2, <3>1, <3>2
    <2> QED
        BY <2>1, <2>2
<1>7. ThreadTransitiveReduction(e, h, t, ClockOf(e, h, i, instr)) =
          [u \in threads |-> IF u = t THEN 0 ELSE IF LastBy(e, past, u) <= prev[u] THEN 0
                                                  ELSE LastBy(e, past, u)]
    <2>1. PICK c : c = ClockOfSet(e, past, threads)
        OBVIOUS
    <2>2. c = [u \in threads |-> LastBy(e, past, u)]
        BY <2>1 DEF ClockOfSet
    <2>3. FilterValuesGreaterThan(c, prev) =
              [u \in threads |-> IF LastBy(e, past, u) <= prev[u] THEN 0 ELSE LastBy(e, past, u)]
        BY <2>2 DEF FilterValuesGreaterThan
    <2>4. Set(FilterValuesGreaterThan(c, prev), t, 0) =
              [u \in threads |-> IF u = t THEN 0 ELSE IF LastBy(e, past, u) <= prev[u] THEN 0
                                                      ELSE LastBy(e, past, u)]
        BY <2>3 DEF Set
    <2> QED
        BY <1>4, <1>5, <2>1, <2>4 DEF ThreadTransitiveReduction
<1> QED
    BY <1>6, <1>7 DEF ClockOfSet

-----------------------------------------------------------------------------
(* The walks over the clocks *)

\* The last of the transitions that a clock names, and its thread.
LEMMA TopIs ==
    ASSUME NEW e, NEW n \in Nat, NEW threads, threads # {},
           NEW c \in EdgesUpTo(e, threads, n)
    PROVE  LET j == MaxElement(c)
           IN  /\ j \in 0 .. n
               /\ \A u \in threads : c[u] <= j
               /\ j # 0 => /\ e[j].instr.tid \in threads
                           /\ c[e[j].instr.tid] = j
                           /\ (CHOOSE u \in threads : c[u] = j) = e[j].instr.tid
<1>1. c \in [threads -> 0 .. n] /\ \A t \in threads : c[t] # 0 => e[c[t]].instr.tid = t
    BY DEF EdgesUpTo
<1>2. PICK R : R = Range(c)
    OBVIOUS
<1>3. R = {c[u] : u \in threads}
    BY <1>1, <1>2 DEF Range
<1>4. R \in SUBSET (0 .. n) /\ R # {}
    BY <1>1, <1>3
<1>5. PICK j : j = MaxElement(c)
    OBVIOUS
<1>6. j \in R /\ \A x \in R : x <= j
    BY <1>2, <1>4, <1>5, MaxIs DEF MaxElement
<1>7. PICK u \in threads : c[u] = j
    BY <1>3, <1>6
<1>8. \A v \in threads : c[v] <= j
    BY <1>3, <1>6
<1>9. j # 0 => \A v \in threads : c[v] = j <=> v = u
    BY <1>1, <1>7
<1>10. j # 0 => (CHOOSE v \in threads : c[v] = j) = u
    BY <1>9
<1> QED
    BY <1>1, <1>4, <1>5, <1>6, <1>7, <1>8, <1>10

\* A clock without the last transition names earlier ones only.
LEMMA TopGoesDown ==
    ASSUME NEW e, NEW n \in Nat, NEW threads, threads # {},
           NEW c \in EdgesUpTo(e, threads, n), NEW d \in EdgesUpTo(e, threads, n),
           NEW j, j = MaxElement(c), j # 0,
           d[e[j].instr.tid] < j,
           \A u \in threads : d[u] = c[u] \/ d[u] = 0 \/ u = e[j].instr.tid
    PROVE  MaxElement(d) < j
<1>1. PICK k : k = MaxElement(d)
    OBVIOUS
<1>2. /\ k \in 0 .. n
      /\ k # 0 => e[k].instr.tid \in threads /\ d[e[k].instr.tid] = k
    BY <1>1, TopIs
<1>3. j \in 0 .. n /\ \A u \in threads : c[u] <= j
    BY TopIs
<1>4. \A u \in threads : c[u] = j => u = e[j].instr.tid
    BY DEF EdgesUpTo
<1>5. CASE k # 0
    <2>1. PICK u \in threads : u = e[k].instr.tid /\ d[u] = k
        BY <1>2, <1>5
    <2>2. CASE u = e[j].instr.tid
        BY <1>1, <2>1, <2>2
    <2>3. CASE u # e[j].instr.tid
        BY <1>1, <1>2, <1>3, <1>4, <1>5, <2>1, <2>3
    <2> QED
        BY <2>2, <2>3
<1>6. CASE k = 0
    BY <1>1, <1>3, <1>6
<1> QED
    BY <1>5, <1>6

\* max_dependent goes on from transition j to the previous one of the same thread:
\* all that it comes past is j.
LEMMA WalkOn ==
    ASSUME NEW e \in Seq(Transitions), NEW h, NEW threads, NEW i \in 1 .. Len(e),
           ClocksFit(e, h, threads, i), NEW c \in EdgesUpTo(e, threads, i),
           NEW j, j = MaxElement(c), j # 0,
           NEW t, t = e[j].instr.tid,
           NEW d, d = Set(c, t, ClockAt(h, j)[t])
    PROVE  /\ d \in EdgesUpTo(e, threads, i)
           /\ MaxElement(d) < j
           /\ \A k \in 1 .. i : k <= d[e[k].instr.tid] <=> k <= c[e[k].instr.tid] /\ k # j
<1>1. threads # {} /\ i \in Nat
    <2>1. i \in 1 .. i
        OBVIOUS
    <2> QED
        BY <2>1 DEF ClocksFit
<1>2. /\ j \in 1 .. i /\ t \in threads /\ c[t] = j
      /\ \A u \in threads : c[u] <= j
    <2>1. j \in 0 .. i
        BY <1>1, TopIs
    <2> QED
        BY <1>1, <2>1, TopIs
<1>3. PICK m : m = ClockAt(h, j)[t]
    OBVIOUS
<1>4. m \in 0 .. j - 1 /\ (m # 0 => e[m].instr.tid = t)
    <2>1. PICK js, n : js = Before(e)[j] /\ n = j - 1
        OBVIOUS
    <2>2. j \in 1 .. Len(e) /\ n \in Nat
        BY <1>2, <2>1
    <2>3. js \in SUBSET (1 .. n)
        BY <2>1, <2>2, BeforeIsEarlier
    <2>4. LastBy(e, js, t) \in 0 .. n
        BY <2>2, <2>3, LastByIs
    <2>5. LastBy(e, js, t) # 0 => e[LastBy(e, js, t)].instr.tid = t
        BY <2>2, <2>3, LastByIs
    <2>6. m = LastBy(e, js, t)
        BY <1>2, <1>3, <2>1 DEF ClocksFit, ClockOfSet
    <2> QED
        BY <2>1, <2>4, <2>5, <2>6
<1>5. c \in [threads -> 0 .. i] /\ \A u \in threads : c[u] # 0 => e[c[u]].instr.tid = u
    BY DEF EdgesUpTo
<1>6. d = [u \in threads |-> IF u = t THEN m ELSE c[u]]
    BY <1>3, <1>5 DEF Set
<1>7. d \in EdgesUpTo(e, threads, i)
    <2>1. m \in 0 .. i
        BY <1>2, <1>4
    <2> QED
        BY <1>4, <1>5, <1>6, <2>1 DEF EdgesUpTo
<1>8. MaxElement(d) < j
    <2>1. d[t] < j /\ \A u \in threads : d[u] = c[u] \/ d[u] = 0 \/ u = t
        BY <1>2, <1>4, <1>6
    <2> QED
        BY <1>1, <1>7, <2>1, TopGoesDown
<1>9. ASSUME NEW k \in 1 .. i
      PROVE  k <= d[e[k].instr.tid] <=> k <= c[e[k].instr.tid] /\ k # j
    <2>1. e[k].instr.tid \in threads
        BY DEF ClocksFit
    <2>2. CASE e[k].instr.tid = t
        <3>1. k \in Before(e)[j] <=> k <= m
            BY <1>2, <1>3, <2>2, ClockSays
        <3>2. k \in Before(e)[j] <=> k < j
            <4>1. j \in 1 .. Len(e) /\ j \in Nat
                BY <1>2
            <4>2. k < j => k \in 1 .. j - 1
                BY <4>1
            <4>3. k < j => k \in Before(e)[j]
                BY <2>2, <4>1, <4>2, ThreadIsOrdered
            <4>4. k \in Before(e)[j] => k \in 1 .. j - 1
                BY <4>1, BeforeIsEarlier
            <4> QED
                BY <4>1, <4>3, <4>4
        <3> QED
            BY <1>2, <1>6, <2>2, <3>1, <3>2
    <2>3. CASE e[k].instr.tid # t
        BY <1>6, <2>1, <2>3
    <2> QED
        BY <2>2, <2>3
<1> QED
    BY <1>7, <1>8, <1>9

\* max_dependent comes to a halt at a transition that instr could be reversed with, and
\* not before the last one.
LEMMA MaxDependentIs ==
    ASSUME NEW e \in Seq(Transitions), NEW h, NEW threads, NEW i \in 1 .. Len(e),
           ClocksFit(e, h, threads, i), NEW instr,
           NEW edges \in EdgesUpTo(e, threads, i),
           edges = ThreadTransitiveReduction(e, h, instr.tid, ClockOf(e, h, i, instr)),
           NEW k \in 1 .. i, Dependent(e[k].instr, instr), Coenabled(e[k].instr, instr),
           k <= edges[e[k].instr.tid]
    PROVE  LET b == MaxDependent(e, h, i, instr)
           IN  b \in 1 .. i /\ k <= b /\ b <= edges[e[b].instr.tid]
<1> DEFINE qualifies(j) == Dependent(e[j].instr, instr) /\ Coenabled(e[j].instr, instr)
           on(c, g) == LET j == MaxElement(c)
                           t == CHOOSE u \in Size(h) : c[u] = j
                       IN  IF j = 0 \/ qualifies(j)
                           THEN j
                           ELSE g[Set(c, t, ClockAt(h, j)[t])]
           after(g) == [c \in EdgesUpTo(e, Size(h), i) |-> on(c, g)]
           walk == CHOOSE g : g = after(g)
           found(c) == {0} \cup {m \in 1 .. i : qualifies(m) /\ m <= c[e[m].instr.tid]}
           best(c) == Max(found(c))
           solution == [c \in EdgesUpTo(e, threads, i) |-> best(c)]
<1>1. MaxDependent(e, h, i, instr) = walk[edges]
    BY DEF MaxDependent
<1>2. Size(h) = threads /\ threads # {} /\ i \in Nat
    <2>1. i \in 1 .. i
        OBVIOUS
    <2> QED
        BY <2>1 DEF ClocksFit
<1>3. ASSUME NEW c \in EdgesUpTo(e, threads, i)
      PROVE  /\ best(c) \in 0 .. i
             /\ best(c) # 0 => qualifies(best(c)) /\ best(c) <= c[e[best(c)].instr.tid]
             /\ \A m \in 1 .. i : qualifies(m) /\ m <= c[e[m].instr.tid] => m <= best(c)
    <2> HIDE DEF qualifies
    <2>1. PICK S : S = found(c)
        OBVIOUS
    <2>2. S \in SUBSET (0 .. i) /\ S # {}
        BY <1>2, <2>1
    <2>3. best(c) \in S /\ \A x \in S : x <= best(c)
        BY <1>2, <2>1, <2>2, MaxIs
    <2> HIDE DEF best
    <2> QED
        BY <2>1, <2>2, <2>3
<1> HIDE DEF best
<1>4. ASSUME NEW c \in EdgesUpTo(e, threads, i), NEW j, j = MaxElement(c)
      PROVE  /\ j = 0 \/ qualifies(j) => best(c) = j
             /\ ~ (j = 0 \/ qualifies(j)) =>
                    LET t == CHOOSE u \in threads : c[u] = j
                        d == Set(c, t, ClockAt(h, j)[t])
                    IN  /\ d \in EdgesUpTo(e, threads, i)
                        /\ MaxElement(d) < j
                        /\ best(c) = best(d)
    <2>1. /\ j \in 0 .. i
          /\ \A u \in threads : c[u] <= j
          /\ j # 0 => /\ e[j].instr.tid \in threads
                      /\ c[e[j].instr.tid] = j
                      /\ (CHOOSE u \in threads : c[u] = j) = e[j].instr.tid
        BY <1>2, <1>4, TopIs
    <2>2. c \in [threads -> 0 .. i]
        BY DEF EdgesUpTo
    <2>3. \A m \in 1 .. i : e[m].instr.tid \in threads
        BY DEF ClocksFit
    <2>4. CASE j = 0 \/ qualifies(j)
        <3>1. PICK b : b = best(c)
            OBVIOUS
        <3>2. b \in 0 .. i /\ b <= j
            <4>1. b \in 0 .. i
                BY <1>3, <3>1
            <4>2. CASE b = 0
                BY <2>1, <4>2
            <4>3. CASE b # 0
                <5>1. b <= c[e[b].instr.tid]
                    BY <1>3, <3>1, <4>3
                <5>2. e[b].instr.tid \in threads
                    BY <2>3, <4>1, <4>3
                <5>3. c[e[b].instr.tid] \in 0 .. i /\ c[e[b].instr.tid] <= j
                    BY <2>1, <2>2, <5>2
                <5> QED
                    BY <2>1, <4>1, <5>1, <5>3
            <4> QED
                BY <4>1, <4>2, <4>3
        <3>3. j <= b
            <4>1. CASE j = 0
                BY <3>2, <4>1
            <4>2. CASE j # 0 /\ qualifies(j)
                <5>1. j \in 1 .. i /\ j <= c[e[j].instr.tid]
                    BY <2>1, <4>2
                <5> HIDE DEF qualifies
                <5> QED
                    BY <1>3, <3>1, <4>2, <5>1
            <4> QED
                BY <2>4, <4>1, <4>2
        <3>4. best(c) = j
            BY <2>1, <3>1, <3>2, <3>3
        <3> QED
            BY <2>4, <3>4
    <2>5. CASE ~ (j = 0 \/ qualifies(j))
        <3>1. PICK t : t = e[j].instr.tid
            OBVIOUS
        <3>2. PICK d : d = Set(c, t, ClockAt(h, j)[t])
            OBVIOUS
        <3>3. /\ d \in EdgesUpTo(e, threads, i)
              /\ MaxElement(d) < j
              /\ \A m \in 1 .. i : m <= d[e[m].instr.tid] <=> m <= c[e[m].instr.tid] /\ m # j
            BY <1>4, <2>5, <3>1, <3>2, WalkOn, SMTT(30)
        <3>4. found(c) = found(d)
            BY <2>5, <3>3
        <3>5. best(c) = best(d)
            BY <3>4 DEF best
        <3> QED
            BY <2>1, <2>5, <3>1, <3>2, <3>3, <3>5
    <2> QED
        BY <2>4, <2>5
<1> HIDE DEF qualifies, found
<1>5. \A c \in EdgesUpTo(e, threads, i) : on(c, solution) = best(c)
    <2> SUFFICES ASSUME NEW c \in EdgesUpTo(e, threads, i)
                 PROVE  on(c, solution) = best(c)
        OBVIOUS
    <2> QED
        BY <1>2, <1>4
<1> HIDE DEF on
<1>6. solution = after(solution)
    BY <1>2, <1>5
<1>7. walk = after(walk)
    <2> HIDE DEF after
    <2> QED
        BY <1>6
<1>8. \A c \in EdgesUpTo(e, threads, i) : walk[c] = on(c, walk)
    <2> HIDE DEF walk
    <2> QED
        BY <1>2, <1>7
<1> HIDE DEF walk, after, solution
<1>9. \A c \in EdgesUpTo(e, threads, i) : walk[c] = best(c)
    <2> DEFINE bad == {n \in 0 .. i : \E c \in EdgesUpTo(e, threads, i) :
                                          MaxElement(c) = n /\ walk[c] # best(c)}
    <2> SUFFICES ASSUME bad # {}
                 PROVE  FALSE
        <3>1. \A c \in EdgesUpTo(e, threads, i) : MaxElement(c) \in 0 .. i
            BY <1>2, TopIs
        <3> QED
            BY <3>1
    <2>1. bad \in SUBSET Nat
        BY <1>2
    <2> HIDE DEF bad
    <2>2. PICK n \in bad : \A m \in bad : n <= m
        BY <2>1, LeastNatural
    <2> USE DEF bad
    <2>3. PICK c \in EdgesUpTo(e, threads, i) : MaxElement(c) = n /\ walk[c] # best(c)
        OBVIOUS
    <2>4. ASSUME NEW d \in EdgesUpTo(e, threads, i), MaxElement(d) < n
          PROVE  walk[d] = best(d)
        <3>1. MaxElement(d) \in 0 .. i
            BY <1>2, TopIs
        <3>2. n \in 0 .. i /\ ~ n <= MaxElement(d)
            BY <2>4, <3>1
        <3>3. MaxElement(d) \notin bad
            BY <2>2, <3>2
        <3> QED
            BY <3>1, <3>3
    <2>5. on(c, walk) = best(c)
        BY <1>2, <1>4, <2>3, <2>4 DEF on
    <2> QED
        BY <1>8, <2>3, <2>5
<1>10. PICK b : b = best(edges)
    OBVIOUS
<1>11. b \in 0 .. i /\ k <= b /\ (b # 0 => b <= edges[e[b].instr.tid])
    BY <1>3, <1>10 DEF qualifies
<1> QED
    BY <1>1, <1>9, <1>10, <1>11

\* max_dependent_per_thread finds of each thread the last transition that instr depends
\* on, of those that edges leaves.
LEMMA MaxDependentPerThreadIs ==
    ASSUME NEW e \in Seq(Transitions), NEW h, NEW threads, NEW i \in 1 .. Len(e),
           ClocksFit(e, h, threads, i), NEW instr,
           NEW edges \in EdgesUpTo(e, threads, i),
           edges = ThreadTransitiveReduction(e, h, instr.tid, ClockOf(e, h, i, instr))
    PROVE  MaxDependentPerThread(e, h, i, instr) =
               {m \in 1 .. i :
                   /\ Dependent(e[m].instr, instr)
                   /\ m <= edges[e[m].instr.tid]
                   /\ \A k \in 1 .. i :
                          (/\ Dependent(e[k].instr, instr) /\ k <= edges[e[k].instr.tid]
                           /\ e[k].instr.tid = e[m].instr.tid) => k <= m}
<1> DEFINE qualifies(j) == Dependent(e[j].instr, instr)
           on(c, g) == LET j == MaxElement(c)
                           t == CHOOSE u \in Size(h) : c[u] = j
                       IN  IF j = 0
                           THEN {}
                           ELSE IF qualifies(j)
                           THEN {j} \cup g[Set(c, t, 0)]
                           ELSE g[Set(c, t, ClockAt(h, j)[t])]
           after(g) == [c \in EdgesUpTo(e, Size(h), i) |-> on(c, g)]
           collect == CHOOSE g : g = after(g)
           left(c) == {m \in 1 .. i : qualifies(m) /\ m <= c[e[m].instr.tid]}
           lasts(S) == {m \in S : \A k \in S : e[k].instr.tid = e[m].instr.tid => k <= m}
           found(c) == lasts(left(c))
           solution == [c \in EdgesUpTo(e, threads, i) |-> found(c)]
<1>1. MaxDependentPerThread(e, h, i, instr) = collect[edges]
    BY DEF MaxDependentPerThread
<1>2. Size(h) = threads /\ threads # {} /\ i \in Nat
    <2>1. i \in 1 .. i
        OBVIOUS
    <2> QED
        BY <2>1 DEF ClocksFit
<1>3. ASSUME NEW c \in EdgesUpTo(e, threads, i), NEW j, j = MaxElement(c)
      PROVE  /\ j = 0 => found(c) = {}
             /\ j # 0 /\ qualifies(j) =>
                    LET t == CHOOSE u \in threads : c[u] = j
                        d == Set(c, t, 0)
                    IN  /\ d \in EdgesUpTo(e, threads, i)
                        /\ MaxElement(d) < j
                        /\ found(c) = {j} \cup found(d)
             /\ j # 0 /\ ~qualifies(j) =>
                    LET t == CHOOSE u \in threads : c[u] = j
                        d == Set(c, t, ClockAt(h, j)[t])
                    IN  /\ d \in EdgesUpTo(e, threads, i)
                        /\ MaxElement(d) < j
                        /\ found(c) = found(d)
    <2>1. /\ j \in 0 .. i
          /\ \A u \in threads : c[u] <= j
          /\ j # 0 => /\ e[j].instr.tid \in threads
                      /\ c[e[j].instr.tid] = j
                      /\ (CHOOSE u \in threads : c[u] = j) = e[j].instr.tid
        <3>1. PICK k : k = MaxElement(c)
            OBVIOUS
        <3>2. k \in 0 .. i /\ \A u \in threads : c[u] <= k
            BY <1>2, <3>1, TopIs
        <3>3. k # 0 => /\ e[k].instr.tid \in threads
                       /\ c[e[k].instr.tid] = k
                       /\ (CHOOSE u \in threads : c[u] = k) = e[k].instr.tid
            BY <1>2, <3>1, TopIs
        <3> QED
            BY <1>3, <3>1, <3>2, <3>3
    <2>2. c \in [threads -> 0 .. i] /\ \A u \in threads : c[u] # 0 => e[c[u]].instr.tid = u
        BY DEF EdgesUpTo
    <2>3. \A m \in 1 .. i : e[m].instr.tid \in threads
        BY DEF ClocksFit
    <2>4. CASE j = 0
        <3>1. \A m \in 1 .. i : ~ m <= c[e[m].instr.tid]
            BY <2>1, <2>2, <2>3, <2>4
        <3>2. left(c) = {}
            BY <3>1
        <3> QED
            BY <2>4, <3>2
    <2>5. CASE j # 0 /\ qualifies(j)
        <3>1. PICK t : t = e[j].instr.tid
            OBVIOUS
        <3>2. PICK d : d = Set(c, t, 0)
            OBVIOUS
        <3>3. d = [u \in threads |-> IF u = t THEN 0 ELSE c[u]]
            BY <2>2, <3>2 DEF Set
        <3>4. d \in EdgesUpTo(e, threads, i)
            BY <1>2, <2>2, <3>3 DEF EdgesUpTo
        <3>5. MaxElement(d) < j
            <4>1. d[t] < j /\ \A u \in threads : d[u] = c[u] \/ d[u] = 0 \/ u = t
                BY <2>1, <2>5, <3>1, <3>3
            <4> QED
                BY <1>2, <1>3, <2>5, <3>1, <3>4, <4>1, TopGoesDown
        <3>6. \A m : m \in left(d) <=> m \in left(c) /\ e[m].instr.tid # t
            <4> HIDE DEF qualifies
            <4> QED
                BY <1>2, <2>3, <3>3
        <3>7. j \in left(c) /\ \A m \in left(c) : e[m].instr.tid = t => m <= j
            <4> HIDE DEF qualifies
            <4> QED
                BY <2>1, <2>5, <3>1
        <3>8. left(c) \in SUBSET (1 .. i)
            OBVIOUS
        <3>9. lasts(left(c)) = {j} \cup lasts(left(d))
            <4>1. PICK lc, ld : lc = left(c) /\ ld = left(d)
                OBVIOUS
            <4> HIDE DEF left
            <4>2. lc \in SUBSET (1 .. i) /\ j \in lc
                  /\ (\A m : m \in ld <=> m \in lc /\ e[m].instr.tid # t)
                  /\ \A m \in lc : e[m].instr.tid = t => m <= j
                BY <3>6, <3>7, <3>8, <4>1
            <4>3. \A m : m \in lasts(lc) <=> m = j \/ m \in lasts(ld)
                <5>1. ASSUME NEW m, m \in lasts(lc)
                      PROVE  m = j \/ m \in lasts(ld)
                    <6>1. CASE e[m].instr.tid = t
                        <7>1. j <= m /\ m <= j /\ m \in 1 .. i /\ j \in 1 .. i
                            BY <3>1, <4>2, <5>1, <6>1
                        <7> QED
                            BY <1>2, <7>1
                    <6>2. CASE e[m].instr.tid # t
                        BY <4>2, <5>1, <6>2
                    <6> QED
                        BY <6>1, <6>2
                <5>2. j \in lasts(lc)
                    BY <3>1, <4>2
                <5>3. ASSUME NEW m, m \in lasts(ld)
                      PROVE  m \in lasts(lc)
                    <6>1. m \in lc /\ e[m].instr.tid # t /\ m \in ld
                        BY <4>2, <5>3
                    <6>2. \A k \in lc : e[k].instr.tid = e[m].instr.tid => k \in ld
                        BY <4>2, <6>1
                    <6> QED
                        BY <5>3, <6>1, <6>2
                <5> QED
                    BY <5>1, <5>2, <5>3
            <4>4. lasts(lc) = {j} \cup lasts(ld)
                <5> HIDE DEF lasts
                <5> QED
                    BY <4>3
            <4> QED
                BY ONLY <4>1, <4>4
        <3> QED
            BY <2>1, <2>5, <3>1, <3>2, <3>4, <3>5, <3>9
    <2>6. CASE j # 0 /\ ~qualifies(j)
        <3>1. PICK t : t = e[j].instr.tid
            OBVIOUS
        <3>2. PICK d : d = Set(c, t, ClockAt(h, j)[t])
            OBVIOUS
        <3>3. /\ d \in EdgesUpTo(e, threads, i)
              /\ MaxElement(d) < j
              /\ \A m \in 1 .. i : m <= d[e[m].instr.tid] <=> m <= c[e[m].instr.tid] /\ m # j
            BY <1>3, <2>6, <3>1, <3>2, WalkOn, SMTT(30)
        <3>4. left(c) = left(d)
            BY <2>6, <3>3
        <3> QED
            BY <2>1, <2>6, <3>1, <3>2, <3>3, <3>4
    <2> QED
        BY <2>4, <2>5, <2>6
<1> HIDE DEF qualifies, found
<1>4. \A c \in EdgesUpTo(e, threads, i) : on(c, solution) = found(c)
    <2> SUFFICES ASSUME NEW c \in EdgesUpTo(e, threads, i)
                 PROVE  on(c, solution) = found(c)
        OBVIOUS
    <2>1. PICK j : j = MaxElement(c)
        OBVIOUS
    <2>2. \A d \in EdgesUpTo(e, threads, i) : solution[d] = found(d)
        OBVIOUS
    <2> HIDE DEF solution
    <2>3. CASE j = 0
        BY <1>3, <2>1, <2>3
    <2>4. CASE j # 0 /\ qualifies(j)
        <3>1. PICK t : t = CHOOSE u \in threads : c[u] = j
            OBVIOUS
        <3>2. PICK d : d = Set(c, t, 0)
            OBVIOUS
        <3>3. d \in EdgesUpTo(e, threads, i) /\ found(c) = {j} \cup found(d)
            BY <1>3, <2>1, <2>4, <3>1, <3>2
        <3>4. on(c, solution) = {j} \cup solution[d]
            BY <1>2, <2>1, <2>4, <3>1, <3>2
        <3> QED
            BY <2>2, <3>3, <3>4
    <2>5. CASE j # 0 /\ ~qualifies(j)
        BY <1>2, <1>3, <2>1, <2>2, <2>5
    <2> QED
        BY <2>3, <2>4, <2>5
<1> HIDE DEF on
<1>5. solution = after(solution)
    BY <1>2, <1>4
<1>6. collect = after(collect)
    <2> HIDE DEF after
    <2> QED
        BY <1>5
<1>7. \A c \in EdgesUpTo(e, threads, i) : collect[c] = on(c, collect)
    <2> HIDE DEF collect
    <2> QED
        BY <1>2, <1>6
<1> HIDE DEF collect, after, solution
<1>8. \A c \in EdgesUpTo(e, threads, i) : collect[c] = found(c)
    <2> DEFINE bad == {n \in 0 .. i : \E c \in EdgesUpTo(e, threads, i) :
                                          MaxElement(c) = n /\ collect[c] # found(c)}
    <2> SUFFICES ASSUME bad # {}
                 PROVE  FALSE
        <3>1. \A c \in EdgesUpTo(e, threads, i) : MaxElement(c) \in 0 .. i
            BY <1>2, TopIs
        <3> QED
            BY <3>1
    <2>1. bad \in SUBSET Nat
        BY <1>2
    <2> HIDE DEF bad
    <2>2. PICK n \in bad : \A m \in bad : n <= m
        BY <2>1, LeastNatural
    <2> USE DEF bad
    <2>3. PICK c \in EdgesUpTo(e, threads, i) : MaxElement(c) = n /\ collect[c] # found(c)
        OBVIOUS
    <2>4. ASSUME NEW d \in EdgesUpTo(e, threads, i), MaxElement(d) < n
          PROVE  collect[d] = found(d)
        <3>1. MaxElement(d) \in 0 .. i
            BY <1>2, TopIs
        <3>2. n \in 0 .. i /\ ~ n <= MaxElement(d)
            BY <2>4, <3>1
        <3>3. MaxElement(d) \notin bad
            BY <2>2, <3>2
        <3> QED
            BY <3>1, <3>3
    <2>5. on(c, collect) = found(c)
        <3> USE DEF on
        <3>1. CASE n = 0
            BY <1>3, <2>3, <3>1
        <3>2. CASE n # 0 /\ qualifies(n)
            <4>1. PICK t : t = CHOOSE u \in threads : c[u] = n
                OBVIOUS
            <4>2. PICK d : d = Set(c, t, 0)
                OBVIOUS
            <4>3. d \in EdgesUpTo(e, threads, i) /\ MaxElement(d) < n /\ found(c) = {n} \cup found(d)
                BY <1>3, <2>3, <3>2, <4>1, <4>2
            <4>4. on(c, collect) = {n} \cup collect[d]
                BY <1>2, <2>3, <3>2, <4>1, <4>2
            <4> QED
                BY <2>4, <4>3, <4>4
        <3>3. CASE n # 0 /\ ~qualifies(n)
            BY <1>2, <1>3, <2>3, <2>4, <3>3
        <3> QED
            BY <3>1, <3>2, <3>3
    <2> QED
        BY <1>7, <2>3, <2>5
<1>9. collect[edges] = found(edges)
    BY <1>8
<1> QED
    BY <1>1, <1>9 DEF found, qualifies

\* The clock of a set of transitions names transitions by their thread.
LEMMA EdgesOfSet ==
    ASSUME NEW e \in Seq(Transitions), NEW i \in 1 .. Len(e), NEW js \in SUBSET (1 .. i), NEW threads
    PROVE  ClockOfSet(e, js, threads) \in EdgesUpTo(e, threads, i)
<1>1. i \in Nat
    OBVIOUS
<1>2. ASSUME NEW t \in threads
      PROVE  /\ LastBy(e, js, t) \in 0 .. i
             /\ LastBy(e, js, t) # 0 => e[LastBy(e, js, t)].instr.tid = t
    BY <1>1, LastByIs
<1>3. PICK c : c = ClockOfSet(e, js, threads)
    OBVIOUS
<1>4. c = [t \in threads |-> LastBy(e, js, t)]
    BY <1>3 DEF ClockOfSet
<1>5. c \in [threads -> 0 .. i] /\ \A t \in threads : c[t] # 0 => e[c[t]].instr.tid = t
    BY <1>2, <1>4
<1> QED
    BY <1>3, <1>5 DEF EdgesUpTo

\* What is known when dpor::update_state has pushed the clock of a transition.
LEMMA UpdatedFits ==
    ASSUME ClocksInv, JustUpdated, NEW i, i = index - 1
    PROVE  /\ program \in Programs /\ mExecution \in Seq(Transitions)
           /\ IsExecution(program, mExecution)
           /\ i \in 1 .. Len(mExecution)
           /\ Size(mHB) = ThreadsOf(program, mExecution)
           /\ ClocksFit(mExecution, mHB, Size(mHB), i)
<1>1. TypeOK /\ SearchIsAligned /\ ClocksAreAligned /\ ExecutionsAreValid
    BY DEF ClocksInv, Inv
<1>2. /\ program \in Programs /\ mExecution \in Seq(Transitions)
      /\ IsExecution(program, mExecution)
      /\ phase = "update" /\ index > from /\ from \in Nat \ {0} /\ index \in Nat
      /\ index <= Len(mExecution) + 1
      /\ Len(mHB.clocks) = index
      /\ mHB.index = i
    BY <1>1 DEF TypeOK, SearchIsAligned, ClocksAreAligned, ExecutionsAreValid, JustUpdated
<1>3. i \in 1 .. Len(mExecution) /\ i + 1 = index /\ Len(mHB.clocks) - 1 = i
    BY <1>2
<1>4. Size(mHB) = ThreadsOf(program, mExecution)
      /\ \A j \in 1 .. Len(mExecution) : mExecution[j].instr.tid \in Size(mHB)
    BY <1>2 DEF ClocksInv, ClocksHaveItsThreads
<1>5. FrontierAt(mExecution, mHB, Size(mHB), i + 1)
    BY <1>2, <1>3 DEF ClocksInv, FrontierIsExact, FrontierAt
<1>6. \A j \in 1 .. i : ClockAt(mHB, j) = ClockOfSet(mExecution, Before(mExecution)[j], Size(mHB))
    BY <1>2, <1>3 DEF ClocksInv, ClocksAreExact
<1>7. ClockAt(mHB, 0) = ZeroClock(Size(mHB))
    BY DEF ClocksInv, DummyIsZero
<1>8. \A j \in 1 .. i : mExecution[j].instr.tid \in Size(mHB)
    BY <1>3, <1>4
<1> QED
    BY <1>2, <1>3, <1>4, <1>5, <1>6, <1>7, <1>8 DEF ClocksFit

\* The point for a thread is found where Dep has an element.
LEMMA PointIsFound ==
    ASSUME NEW p \in Programs, NEW e \in Seq(Transitions), IsExecution(p, e),
           NEW h, NEW threads, threads = ThreadsOf(p, e), NEW i \in 1 .. Len(e),
           ClocksFit(e, h, threads, i), NEW t \in Tids, HasNext(p, e[i].pre, t),
           NEW k \in 1 .. i - 1, NEW instr, instr = NextInstr(p, e[i].pre, t),
           Dependent(e[k].instr, instr), Coenabled(e[k].instr, instr), NotBeforeThread(e, i, k, t)
    PROVE  \E point \in BacktrackPoints(p, e, h, i) : point.tid = t /\ point.index >= k
<1>1. t \in threads /\ instr.tid = t
    BY NextIsOfExecution DEF NextInstr
<1>2. e[i].instr.tid = t => instr = e[i].instr
    BY TransitionIs
<1>3. PICK rest : rest = Past(e, i, instr) \ ThreadPast(e, i, t)
    OBVIOUS
<1>4. \A j : j \in rest <=> j \in Past(e, i, instr) /\ j \notin ThreadPast(e, i, t)
    BY <1>3
<1>5. rest \in SUBSET (1 .. i) /\ k \in 1 .. i /\ i \in Nat
    <2>1. Past(e, i, instr) \in SUBSET (1 .. i - 1)
        BY PastIsClosed
    <2>2. 1 .. i - 1 \subseteq 1 .. i
        OBVIOUS
    <2> QED
        BY <1>3, <2>1, <2>2
<1>6. PICK edges : edges = ThreadTransitiveReduction(e, h, t, ClockOf(e, h, i, instr))
    OBVIOUS
<1>7. edges = ClockOfSet(e, rest, threads)
    BY <1>1, <1>2, <1>4, <1>6, ReductionIs
<1>8. edges \in EdgesUpTo(e, threads, i)
    BY <1>5, <1>7, EdgesOfSet
<1>9. k \in rest
    BY <1>4 DEF Past, ThreadPast
<1>10. k <= edges[e[k].instr.tid]
    <2>1. e[k].instr.tid \in threads
        BY <1>5 DEF ClocksFit
    <2>2. k <= LastBy(e, rest, e[k].instr.tid)
        BY <1>5, <1>9, LastByIs
    <2> QED
        BY <1>7, <2>1, <2>2 DEF ClockOfSet
<1>11. PICK b : b = MaxDependent(e, h, i, instr)
    OBVIOUS
<1>12. b \in 1 .. i /\ k <= b
    BY <1>1, <1>5, <1>6, <1>8, <1>10, <1>11, MaxDependentIs
<1>13. t \in {u \in Tids : /\ HasNext(p, e[i].pre, u)
                          /\ MaxDependent(e, h, i, NextInstr(p, e[i].pre, u)) > 0}
    BY ONLY <1>11, <1>12, t \in Tids, HasNext(p, e[i].pre, t), instr = NextInstr(p, e[i].pre, t)
<1>14. [tid |-> t, index |-> b] \in BacktrackPoints(p, e, h, i)
    BY ONLY <1>11, <1>13, instr = NextInstr(p, e[i].pre, t) DEF BacktrackPoints
<1> QED
    BY <1>12, <1>14

\* Where no lock is released for another thread, the point of the transition's thread
\* is the last transition that it could be reversed with: the walk over the clocks ends
\* where it begins.
LEMMA LastPointIsFound ==
    ASSUME NEW p \in Programs, NEW e \in Seq(Transitions), IsExecution(p, e),
           NEW h, NEW threads, threads = ThreadsOf(p, e), NEW i \in 1 .. Len(e),
           ClocksFit(e, h, threads, i), NEW t, t = e[i].instr.tid, NEW n \in 1 .. i - 1,
           Dependent(e[n].instr, e[i].instr), Coenabled(e[n].instr, e[i].instr),
           NotBeforeThread(e, i, n, t),
           \A j \in 1 .. i - 1 :
               Dependent(e[j].instr, e[i].instr) /\ NotBeforeThread(e, i, j, t) => j <= n
    PROVE  [tid |-> t, index |-> n] \in BacktrackPoints(p, e, h, i)
<1>1. PICK instr : instr = e[i].instr
    OBVIOUS
<1>2. /\ t \in Tids /\ t \in threads /\ instr.tid = t /\ HasNext(p, e[i].pre, t)
      /\ NextInstr(p, e[i].pre, t) = instr
    <2>1. t \in Enabled(p, e[i].pre) /\ NextInstr(p, e[i].pre, t) = instr
        BY <1>1, TransitionIs
    <2> QED
        BY <1>1, <2>1, PerformerIsOfExecution DEF Enabled, IsEnabled
<1>3. PICK rest : rest = Past(e, i, instr) \ ThreadPast(e, i, t)
    OBVIOUS
<1>4. \A j : j \in rest <=> j \in Past(e, i, instr) /\ j \notin ThreadPast(e, i, t)
    BY <1>3
<1>5. rest \in SUBSET (1 .. i - 1) /\ rest \in SUBSET (1 .. i) /\ i \in Nat
    <2>1. Past(e, i, instr) \in SUBSET (1 .. i - 1)
        BY PastIsClosed
    <2>2. 1 .. i - 1 \subseteq 1 .. i
        OBVIOUS
    <2> QED
        BY <1>3, <2>1, <2>2
<1>6. PICK edges : edges = ThreadTransitiveReduction(e, h, t, ClockOf(e, h, i, instr))
    OBVIOUS
<1>7. edges = ClockOfSet(e, rest, threads)
    BY <1>1, <1>2, <1>4, <1>6, ReductionIs
<1>8. edges \in EdgesUpTo(e, threads, i)
    BY <1>5, <1>7, EdgesOfSet
<1>9. \A k \in 1 .. i : edges[e[k].instr.tid] = LastBy(e, rest, e[k].instr.tid)
    BY <1>7 DEF ClocksFit, ClockOfSet
<1>10. n \in rest /\ n \in 1 .. i
    <2>1. n \in Past(e, i, instr)
        BY <1>1 DEF Past
    <2> QED
        BY <1>4, <2>1 DEF ThreadPast
<1>11. n <= edges[e[n].instr.tid]
    BY <1>5, <1>9, <1>10, LastByIs
<1>12. PICK b : b = MaxDependent(e, h, i, instr)
    OBVIOUS
<1>13. b \in 1 .. i /\ n <= b /\ b <= edges[e[b].instr.tid]
    BY <1>1, <1>2, <1>6, <1>8, <1>10, <1>11, <1>12, MaxDependentIs
<1>14. \A k \in rest : k <= n
    <2>1. rest \in SUBSET (0 .. i) /\ rest # {}
        BY <1>5, <1>10
    <2>2. PICK last \in rest : \A k \in rest : k <= last
        BY <1>5, <2>1, MaxIs
    <2>3. last \in Past(e, i, instr) /\ last \notin ThreadPast(e, i, t)
        BY <1>4
    <2>4. PICK c \in 1 .. i - 1 : Dependent(e[c].instr, instr) /\ last \in {c} \cup Before(e)[c]
        BY <2>3 DEF Past
    <2>5. c \in rest
        <3>1. c \in Past(e, i, instr)
            BY <2>4 DEF Past
        <3>2. c \notin ThreadPast(e, i, t)
            BY <2>3, <2>4, ThreadPastIsClosed
        <3> QED
            BY <1>4, <3>1, <3>2
    <2>6. last = c
        <3>1. c <= last /\ last \in 1 .. i - 1
            BY <1>5, <2>2, <2>5
        <3>2. c \in 1 .. Len(e)
            BY <2>4
        <3>3. Before(e)[c] \subseteq 1 .. c - 1
            BY <3>2, BeforeIsEarlier
        <3> QED
            BY <2>4, <3>1, <3>3
    <2>7. last <= n
        BY <1>1, <2>3, <2>4, <2>6 DEF ThreadPast
    <2> QED
        BY <1>5, <2>2, <2>7
<1>15. b = n
    <2>1. PICK l : l = LastBy(e, rest, e[b].instr.tid)
        OBVIOUS
    <2>2. b <= l
        BY <1>9, <1>13, <2>1
    <2>3. l \in 0 .. i /\ (l # 0 => l \in rest)
        BY <1>5, <2>1, LastByIs
    <2>4. l <= n
        BY <1>13, <1>14, <2>2, <2>3
    <2> QED
        BY <1>13, <2>2, <2>3, <2>4
<1>16. n > 0
    OBVIOUS
<1>17. t \in {u \in Tids : /\ HasNext(p, e[i].pre, u)
                          /\ MaxDependent(e, h, i, NextInstr(p, e[i].pre, u)) > 0}
    BY ONLY <1>2, <1>12, <1>15, <1>16
<1> QED
    BY ONLY <1>2, <1>12, <1>15, <1>17 DEF BacktrackPoints

\* Every reversible race of a new transition has its backtrack point, whatever the
\* walk over the clocks comes past: of the transitions that the next instruction of a
\* thread could be reversed with, the last one is not missed.
THEOREM RacesAreFound ==
    ASSUME ValidPrograms
    PROVE  DporSpec => []NoRaceIsMissed
<1>1. ASSUME ClockInv
      PROVE  NoRaceIsMissed
    <2> SUFFICES ASSUME JustUpdated, NEW t \in Tids,
                        HasNext(program, mExecution[index - 1].pre, t),
                        Dep(mExecution, index - 1, t) # {}
                 PROVE  \E point \in LastPoints :
                            point.tid = t /\ point.index >= Max(Dep(mExecution, index - 1, t))
        BY DEF NoRaceIsMissed
    <2>1. PICK i : i = index - 1
        OBVIOUS
    <2>2. /\ program \in Programs /\ mExecution \in Seq(Transitions)
          /\ IsExecution(program, mExecution)
          /\ i \in 1 .. Len(mExecution)
          /\ Size(mHB) = ThreadsOf(program, mExecution)
          /\ ClocksFit(mExecution, mHB, Size(mHB), i)
        BY <1>1, <2>1, UpdatedFits DEF ClockInv
    <2>3. PICK D : D = Dep(mExecution, i, t)
        OBVIOUS
    <2>4. D \in SUBSET (0 .. i) /\ D # {} /\ i \in Nat
        BY <2>1, <2>2, <2>3 DEF Dep
    <2>5. PICK k \in D : k = Max(D)
        BY <2>4, MaxIs
    <2>6. PICK instr : instr = NextInstr(program, mExecution[i].pre, t)
        OBVIOUS
    <2>7. /\ k \in 1 .. i - 1 /\ Dependent(mExecution[k].instr, instr)
          /\ Coenabled(mExecution[k].instr, instr) /\ NotBeforeThread(mExecution, i, k, t)
        BY <2>3, <2>6 DEF Dep
    <2>8. \E point \in BacktrackPoints(program, mExecution, mHB, i) : point.tid = t /\ point.index >= k
        BY <2>1, <2>2, <2>6, <2>7, PointIsFound
    <2> QED
        BY <2>1, <2>3, <2>5, <2>8 DEF LastPoints
<1>2. ClockInv => NoRaceIsMissed
    BY <1>1
<1> QED
    BY <1>2, ClockInvariantHolds, PTL

\* covering leaves of the transitions that a clock names those that do not happen
\* before another one.
LEMMA CoveringIs ==
    ASSUME NEW e \in Seq(Transitions), NEW h, NEW threads, NEW i \in 1 .. Len(e),
           ClocksFit(e, h, threads, i), NEW instr,
           NEW edges \in EdgesUpTo(e, threads, i),
           edges = ThreadTransitiveReduction(e, h, instr.tid, ClockOf(e, h, i, instr))
    PROVE  Covering(e, h, i, instr) =
               {k \in 1 .. i : /\ k = edges[e[k].instr.tid]
                               /\ \A u \in threads : edges[u] # 0 => k \notin Before(e)[edges[u]]}
<1> DEFINE on(c, g) == LET j == MaxElement(c)
                           reduced == FilterValuesGreaterThan(c, ClockAt(h, j))
                       IN  IF j = 0 THEN {} ELSE {j} \cup g[Set(reduced, e[j].instr.tid, 0)]
           after(g) == [c \in EdgesUpTo(e, Size(h), i) |-> on(c, g)]
           cover == CHOOSE g : g = after(g)
           tops(c) == {k \in 1 .. i : /\ k = c[e[k].instr.tid]
                                      /\ \A u \in threads : c[u] # 0 => k \notin Before(e)[c[u]]}
           solution == [c \in EdgesUpTo(e, threads, i) |-> tops(c)]
           rest(c, j) == Set(FilterValuesGreaterThan(c, ClockAt(h, j)), e[j].instr.tid, 0)
<1>1. Covering(e, h, i, instr) = cover[edges]
    BY DEF Covering
<1>2. Size(h) = threads /\ threads # {} /\ i \in Nat
    <2>1. i \in 1 .. i
        OBVIOUS
    <2> QED
        BY <2>1 DEF ClocksFit
<1>3. ASSUME NEW c \in EdgesUpTo(e, threads, i), NEW j, j = MaxElement(c)
      PROVE  /\ j = 0 => tops(c) = {}
             /\ j # 0 => /\ rest(c, j) \in EdgesUpTo(e, threads, i)
                         /\ MaxElement(rest(c, j)) < j
                         /\ tops(c) = {j} \cup tops(rest(c, j))
    <2>1. /\ j \in 0 .. i
          /\ \A u \in threads : c[u] <= j
          /\ j # 0 => e[j].instr.tid \in threads /\ c[e[j].instr.tid] = j
        BY <1>2, <1>3, TopIs
    <2>2. c \in [threads -> 0 .. i] /\ \A u \in threads : c[u] # 0 => e[c[u]].instr.tid = u
        BY DEF EdgesUpTo
    <2>3. \A m \in 1 .. i : e[m].instr.tid \in threads
        BY DEF ClocksFit
    <2>4. CASE j = 0
        BY <2>1, <2>2, <2>3, <2>4
    <2>5. CASE j # 0
        <3>1. PICK t : t = e[j].instr.tid
            OBVIOUS
        <3>2. j \in 1 .. i /\ j \in 1 .. Len(e) /\ t \in threads /\ c[t] = j
            BY <2>1, <2>5, <3>1
        <3>3. PICK d : d = rest(c, j)
            OBVIOUS
        <3>4. d = [u \in threads |-> IF u = t THEN 0
                                     ELSE IF c[u] <= ClockAt(h, j)[u] THEN 0 ELSE c[u]]
            <4>1. FilterValuesGreaterThan(c, ClockAt(h, j)) =
                      [u \in threads |-> IF c[u] <= ClockAt(h, j)[u] THEN 0 ELSE c[u]]
                BY <2>2 DEF FilterValuesGreaterThan
            <4> QED
                BY <3>1, <3>3, <4>1 DEF Set
        <3>5. ASSUME NEW u \in threads, c[u] # 0
              PROVE  /\ c[u] \in 1 .. i /\ e[c[u]].instr.tid = u
                     /\ c[u] <= ClockAt(h, j)[u] <=> c[u] \in Before(e)[j]
            <4>1. c[u] \in 1 .. i /\ e[c[u]].instr.tid = u
                BY <2>2, <3>5
            <4>2. PICK k : k = c[u]
                OBVIOUS
            <4>3. k \in Before(e)[j] <=> k <= ClockAt(h, j)[e[k].instr.tid]
                BY <3>2, <4>1, <4>2, ClockSays
            <4> QED
                BY <4>1, <4>2, <4>3
        <3>6. \A u \in threads : d[u] = IF u = t \/ (c[u] # 0 /\ c[u] \in Before(e)[j]) THEN 0 ELSE c[u]
            <4> SUFFICES ASSUME NEW u \in threads
                         PROVE  d[u] = IF u = t \/ (c[u] # 0 /\ c[u] \in Before(e)[j]) THEN 0 ELSE c[u]
                OBVIOUS
            <4>1. d[u] = IF u = t THEN 0 ELSE IF c[u] <= ClockAt(h, j)[u] THEN 0 ELSE c[u]
                BY <3>4
            <4> QED
                BY <3>5, <4>1
        <3>7. d \in EdgesUpTo(e, threads, i)
            <4>1. \A u \in threads : d[u] = 0 \/ d[u] = c[u]
                BY <3>6
            <4>2. d \in [threads -> 0 .. i]
                <5>1. 0 \in 0 .. i /\ \A u \in threads : c[u] \in 0 .. i
                    BY <1>2, <2>2
                <5> QED
                    BY <3>4, <5>1
            <4> QED
                BY <2>2, <4>1, <4>2 DEF EdgesUpTo
        <3>8. MaxElement(d) < j
            <4>1. d[t] < j /\ \A u \in threads : d[u] = c[u] \/ d[u] = 0 \/ u = t
                BY <3>2, <3>6
            <4> QED
                BY <1>2, <1>3, <2>5, <3>1, <3>7, <4>1, TopGoesDown
        <3>9. ASSUME NEW k \in tops(c), k # j
              PROVE  k \in tops(d)
            <4>1. k \in 1 .. i /\ k # 0 /\ e[k].instr.tid \in threads /\ k = c[e[k].instr.tid]
                BY <2>3
            <4>2. k \notin Before(e)[j]
                BY <3>2
            <4>3. d[e[k].instr.tid] = k
                BY <3>2, <3>6, <3>9, <4>1, <4>2
            <4>4. \A u \in threads : d[u] # 0 => d[u] = c[u]
                BY <3>6
            <4> QED
                BY <4>1, <4>3, <4>4
        <3>10. ASSUME NEW k \in tops(d)
               PROVE  k \in tops(c)
            <4>1. k \in 1 .. i /\ k # 0 /\ e[k].instr.tid \in threads /\ k = d[e[k].instr.tid]
                BY <2>3
            <4>2. /\ k = c[e[k].instr.tid] /\ e[k].instr.tid # t
                  /\ k \notin Before(e)[j]
                BY <3>6, <4>1
            <4>3. ASSUME NEW u \in threads, c[u] # 0
                  PROVE  k \notin Before(e)[c[u]]
                <5>1. CASE u = t
                    BY <3>2, <4>2, <5>1
                <5>2. CASE c[u] \in Before(e)[j]
                    <6>1. PICK m : m = c[u]
                        OBVIOUS
                    <6>2. Before(e)[m] \subseteq Before(e)[j]
                        BY <3>2, <5>2, <6>1, BeforeIsTransitive
                    <6> QED
                        BY <4>2, <6>1, <6>2
                <5>3. CASE u # t /\ c[u] \notin Before(e)[j]
                    <6>1. d[u] = c[u]
                        BY <3>6, <5>3
                    <6> QED
                        BY <4>3, <6>1
                <5> QED
                    BY <5>1, <5>2, <5>3
            <4> QED
                BY <4>1, <4>2, <4>3
        <3>11. j \in tops(c)
            <4>1. ASSUME NEW u \in threads, c[u] # 0
                  PROVE  j \notin Before(e)[c[u]]
                <5>1. PICK m : m = c[u]
                    OBVIOUS
                <5>2. m \in 1 .. Len(e) /\ m <= j
                    BY <2>1, <2>2, <4>1, <5>1
                <5>3. Before(e)[m] \subseteq 1 .. m - 1
                    BY <5>2, BeforeIsEarlier
                <5>4. j \notin 1 .. m - 1
                    BY <3>2, <5>2
                <5> QED
                    BY <5>1, <5>3, <5>4
            <4> QED
                BY <3>1, <3>2, <4>1
        <3>12. tops(c) = {j} \cup tops(d)
            <4> HIDE DEF tops
            <4> QED
                BY <3>9, <3>10, <3>11
        <3> HIDE DEF tops, rest
        <3> QED
            BY <2>5, <3>3, <3>7, <3>8, <3>12
    <2> QED
        BY <2>4, <2>5
<1> HIDE DEF tops
<1>4. \A c \in EdgesUpTo(e, threads, i) : on(c, solution) = tops(c)
    <2> SUFFICES ASSUME NEW c \in EdgesUpTo(e, threads, i)
                 PROVE  on(c, solution) = tops(c)
        OBVIOUS
    <2>1. on(c, solution) = IF MaxElement(c) = 0 THEN {}
                            ELSE {MaxElement(c)} \cup solution[rest(c, MaxElement(c))]
        OBVIOUS
    <2> HIDE DEF rest, on
    <2> QED
        BY <1>3, <2>1
<1>5. \A c, g : on(c, g) = IF MaxElement(c) = 0 THEN {} ELSE {MaxElement(c)} \cup g[rest(c, MaxElement(c))]
    OBVIOUS
<1> HIDE DEF on, rest
<1>6. solution = after(solution)
    BY <1>2, <1>4
<1>7. cover = after(cover)
    <2> HIDE DEF after
    <2> QED
        BY <1>6
<1>8. \A c \in EdgesUpTo(e, threads, i) : cover[c] = on(c, cover)
    <2> HIDE DEF cover
    <2> QED
        BY <1>2, <1>7
<1> HIDE DEF cover, after, solution
<1>9. \A c \in EdgesUpTo(e, threads, i) : cover[c] = tops(c)
    <2> DEFINE bad == {n \in 0 .. i : \E c \in EdgesUpTo(e, threads, i) :
                                          MaxElement(c) = n /\ cover[c] # tops(c)}
    <2> SUFFICES ASSUME bad # {}
                 PROVE  FALSE
        <3>1. \A c \in EdgesUpTo(e, threads, i) : MaxElement(c) \in 0 .. i
            BY <1>2, TopIs
        <3> QED
            BY <3>1
    <2>1. bad \in SUBSET Nat
        BY <1>2
    <2> HIDE DEF bad
    <2>2. PICK n \in bad : \A m \in bad : n <= m
        BY <2>1, LeastNatural
    <2> USE DEF bad
    <2>3. PICK c \in EdgesUpTo(e, threads, i) : MaxElement(c) = n /\ cover[c] # tops(c)
        OBVIOUS
    <2>4. ASSUME NEW d \in EdgesUpTo(e, threads, i), MaxElement(d) < n
          PROVE  cover[d] = tops(d)
        <3>1. MaxElement(d) \in 0 .. i
            BY <1>2, TopIs
        <3>2. n \in 0 .. i /\ ~ n <= MaxElement(d)
            BY <2>4, <3>1
        <3>3. MaxElement(d) \notin bad
            BY <2>2, <3>2
        <3> QED
            BY <3>1, <3>3
    <2>5. on(c, cover) = tops(c)
        <3>1. CASE n = 0
            BY <1>3, <1>5, <2>3, <3>1
        <3>2. CASE n # 0
            <4>1. PICK d : d = rest(c, n)
                OBVIOUS
            <4>2. d \in EdgesUpTo(e, threads, i) /\ MaxElement(d) < n /\ tops(c) = {n} \cup tops(d)
                BY <1>3, <2>3, <3>2, <4>1
            <4>3. cover[d] = tops(d)
                BY <2>4, <4>2
            <4> QED
                BY <1>5, <2>3, <3>2, <4>1, <4>2, <4>3
        <3> QED
            BY <3>1, <3>2
    <2> QED
        BY <1>8, <2>3, <2>5
<1> QED
    BY <1>1, <1>9 DEF tops

\* covering finds the transitions that a transition directly depends on.
LEMMA CoveringIsDirect ==
    ASSUME NEW e \in Seq(Transitions), NEW h, NEW threads, NEW i \in 1 .. Len(e),
           ClocksFit(e, h, threads, i)
    PROVE  Covering(e, h, i, e[i].instr) = DirectlyBefore(e, i)
<1> DEFINE instr == e[i].instr
           t == instr.tid
           tops(c) == {k \in 1 .. i : /\ k = c[e[k].instr.tid]
                                      /\ \A u \in threads : c[u] # 0 => k \notin Before(e)[c[u]]}
<1>1. PICK past, own : past = Before(e)[i] /\ own = ThreadPast(e, i, t)
    OBVIOUS
<1>2. PICK rest : rest = past \ own
    OBVIOUS
<1>3. PICK edges : edges = ThreadTransitiveReduction(e, h, t, ClockOf(e, h, i, instr))
    OBVIOUS
<1>4. i \in Nat /\ t \in threads /\ \A k \in 1 .. i : e[k].instr.tid \in threads
    <2>1. i \in 1 .. i
        OBVIOUS
    <2> QED
        BY <2>1 DEF ClocksFit
<1>5. /\ past \in SUBSET (1 .. i - 1)
      /\ \A k \in past : Before(e)[k] \subseteq past
      /\ past = Past(e, i, instr)
    BY <1>1, BeforeIsEarlier, BeforeIsTransitive, BeforeIs
<1>6. /\ own \in SUBSET (1 .. i - 1)
      /\ \A k \in own : Before(e)[k] \subseteq own
      /\ \A k \in 1 .. i - 1 : e[k].instr.tid = t => k \in own
    BY <1>1, ThreadPastIsClosed
<1>7. rest \in SUBSET (1 .. i) /\ rest \in SUBSET (1 .. i - 1)
    <2>1. 1 .. i - 1 \subseteq 1 .. i
        BY <1>4
    <2> QED
        BY <1>2, <1>5, <2>1
<1>8. \A k : k \in rest <=> k \in Past(e, i, instr) /\ k \notin ThreadPast(e, i, t)
    BY <1>1, <1>2, <1>5
<1> HIDE DEF instr
<1>9. instr = e[i].instr /\ t = instr.tid
    BY DEF instr
<1> HIDE DEF t
<1>10. edges = ClockOfSet(e, rest, threads)
    BY <1>3, <1>4, <1>8, <1>9, ReductionIs
<1>11. edges \in EdgesUpTo(e, threads, i)
    BY <1>7, <1>10, EdgesOfSet
<1>12. Covering(e, h, i, instr) = tops(edges)
    BY <1>3, <1>9, <1>11, CoveringIs
<1>13. ASSUME NEW u \in threads
       PROVE  /\ edges[u] \in 0 .. i
              /\ edges[u] # 0 => edges[u] \in rest /\ e[edges[u]].instr.tid = u
              /\ \A k \in rest : e[k].instr.tid = u => k <= edges[u]
    <2>1. edges[u] = LastBy(e, rest, u)
        BY <1>10 DEF ClockOfSet
    <2>2. /\ LastBy(e, rest, u) \in 0 .. i
          /\ LastBy(e, rest, u) # 0 => LastBy(e, rest, u) \in rest /\ e[LastBy(e, rest, u)].instr.tid = u
          /\ \A k \in rest : e[k].instr.tid = u => k <= LastBy(e, rest, u)
        BY <1>4, <1>7, LastByIs
    <2> QED
        BY <2>1, <2>2
<1>14. ASSUME NEW k \in DirectlyBefore(e, i)
       PROVE  k \in tops(edges)
    <2>1. k \in past /\ e[k].instr.tid # t /\ \A m \in past : k \notin Before(e)[m]
        BY <1>1, <1>9 DEF DirectlyBefore
    <2>2. k \in 1 .. i - 1 /\ k \in 1 .. i
        BY <1>4, <1>5, <2>1
    <2>3. k \notin own
        <3> SUFFICES ASSUME k \in own
                     PROVE  FALSE
            OBVIOUS
        <3>1. PICK m \in 1 .. i - 1 : e[m].instr.tid = t /\ (k = m \/ k \in Before(e)[m])
            BY <1>1 DEF ThreadPast, NotBeforeThread
        <3>2. m \in past
            BY <1>1, <1>9, <3>1, ThreadIsOrdered
        <3> QED
            BY <2>1, <3>1, <3>2
    <2>4. k \in rest
        BY <1>2, <2>1, <2>3
    <2>5. PICK m : m = edges[e[k].instr.tid]
        OBVIOUS
    <2>6. k <= m /\ m \in 0 .. i /\ (m # 0 => m \in rest /\ e[m].instr.tid = e[k].instr.tid)
        BY <1>4, <1>13, <2>2, <2>4, <2>5
    <2>7. m \in past /\ m \in 1 .. Len(e) /\ e[m].instr.tid = e[k].instr.tid
        BY <1>2, <2>2, <2>6
    <2>8. k = m
        <3> SUFFICES ASSUME k # m
                     PROVE  FALSE
            OBVIOUS
        <3>1. k \in 1 .. m - 1
            BY <2>2, <2>6
        <3>2. k \in Before(e)[m]
            BY <2>7, <3>1, ThreadIsOrdered
        <3> QED
            BY <2>1, <2>7, <3>2
    <2>9. \A u \in threads : edges[u] # 0 => edges[u] \in past
        BY <1>2, <1>13
    <2> QED
        BY <2>1, <2>2, <2>5, <2>8, <2>9
<1>15. ASSUME NEW k \in tops(edges)
       PROVE  k \in DirectlyBefore(e, i)
    <2>1. /\ k \in 1 .. i /\ k # 0 /\ e[k].instr.tid \in threads /\ k = edges[e[k].instr.tid]
          /\ \A u \in threads : edges[u] # 0 => k \notin Before(e)[edges[u]]
        BY <1>4
    <2>2. k \in rest /\ k \in past /\ k \notin own
        BY <1>2, <1>13, <2>1
    <2>3. e[k].instr.tid # t
        BY <1>6, <1>7, <2>2
    <2>4. ASSUME NEW m \in past, k \in Before(e)[m]
          PROVE  FALSE
        <3>1. m \notin own
            BY <1>6, <2>2, <2>4
        <3>2. m \in rest /\ m \in 1 .. i
            BY <1>2, <1>7, <3>1
        <3>3. PICK u \in threads : u = e[m].instr.tid
            BY <1>4, <3>2
        <3>4. PICK top : top = edges[u]
            OBVIOUS
        <3>5. m <= top /\ top \in 0 .. i /\ (top # 0 => top \in rest /\ e[top].instr.tid = u)
            BY <1>13, <3>2, <3>3, <3>4
        <3>6. top # 0 /\ top \in 1 .. Len(e) /\ e[top].instr.tid = e[m].instr.tid
            BY <3>2, <3>3, <3>5
        <3>7. CASE m = top
            BY <2>1, <2>4, <3>3, <3>4, <3>6, <3>7
        <3>8. CASE m # top
            <4>1. m \in 1 .. top - 1
                BY <3>2, <3>5, <3>8
            <4>2. m \in Before(e)[top]
                BY <3>6, <4>1, ThreadIsOrdered
            <4>3. Before(e)[m] \subseteq Before(e)[top]
                BY <3>6, <4>2, BeforeIsTransitive
            <4> QED
                BY <2>1, <2>4, <3>4, <3>6, <4>3
        <3> QED
            BY <3>7, <3>8
    <2> QED
        BY <1>1, <1>9, <2>2, <2>3, <2>4 DEF DirectlyBefore
<1> HIDE DEF tops
<1>16. DirectlyBefore(e, i) = tops(edges)
    BY <1>14, <1>15
<1> QED
    BY <1>9, <1>12, <1>16

\* The points of Source for a new transition are its races, all of them and no other.
THEOREM SourcePointsAreRaces ==
    ASSUME ValidPrograms
    PROVE  DporSpec => []PointsAreRaces
<1>1. ASSUME ClockInv
      PROVE  PointsAreRaces
    <2> SUFFICES ASSUME JustUpdated
                 PROVE  {point.index : point \in SourceBacktrackPoints(mExecution, mHB, index - 1)}
                            = DirectlyBefore(mExecution, index - 1)
        BY DEF PointsAreRaces
    <2>1. PICK i : i = index - 1
        OBVIOUS
    <2>2. /\ mExecution \in Seq(Transitions) /\ i \in 1 .. Len(mExecution)
          /\ ClocksFit(mExecution, mHB, Size(mHB), i)
        BY <1>1, <2>1, UpdatedFits DEF ClockInv
    <2>3. Covering(mExecution, mHB, i, mExecution[i].instr) = DirectlyBefore(mExecution, i)
        BY <2>2, CoveringIsDirect
    <2>4. PICK races : races = DirectlyBefore(mExecution, i)
        OBVIOUS
    <2>5. SourceBacktrackPoints(mExecution, mHB, i) =
              {[tid |-> mExecution[i].instr.tid, index |-> j] : j \in races}
        BY <2>3, <2>4 DEF SourceBacktrackPoints
    <2>6. {point.index : point \in SourceBacktrackPoints(mExecution, mHB, i)} = races
        <3>1. PICK t, points : /\ t = mExecution[i].instr.tid
                               /\ points = SourceBacktrackPoints(mExecution, mHB, i)
            OBVIOUS
        <3>2. \A point : point \in points <=> \E j \in races : point = [tid |-> t, index |-> j]
            BY <2>5, <3>1
        <3>3. \A point \in points : point.index \in races
            BY <3>2
        <3>4. \A j \in races : [tid |-> t, index |-> j] \in points
            BY <3>2
        <3>5. \A j \in races : \E point \in points : point.index = j
            BY <3>4
        <3> QED
            BY <3>1, <3>3, <3>5
    <2> QED
        BY <2>1, <2>4, <2>6
<1>2. ClockInv => PointsAreRaces
    BY <1>1
<1> QED
    BY <1>2, ClockInvariantHolds, PTL

\* What reversing a race moves: the transition at its end, and those after the one at
\* its beginning that do not depend on it.  What happens before one of them and comes
\* after the beginning is moved, too.
LEMMA MovedIs ==
    ASSUME NEW e \in Seq(Transitions), NEW h, NEW threads, NEW i \in 1 .. Len(e),
           ClocksFit(e, h, threads, i), NEW first \in DirectlyBefore(e, i),
           NEW moved, \A k : k \in moved <=> k \in IncomparableAfter(e, h, first, i) \/ k = i
    PROVE  /\ first \in 1 .. i - 1
           /\ moved \in SUBSET (first + 1 .. i)
           /\ \A j \in moved : \A k \in Before(e)[j] : k > first => k \in moved
<1>1. /\ first \in 1 .. i - 1 /\ first \in 1 .. i /\ i \in Nat
      /\ \A k \in Before(e)[i] : first \notin Before(e)[k]
    <2>1. /\ first \in Before(e)[i] /\ Before(e)[i] \subseteq 1 .. i - 1
          /\ \A k \in Before(e)[i] : first \notin Before(e)[k]
        BY BeforeIsEarlier DEF DirectlyBefore
    <2> QED
        BY <2>1
<1>2. \A j : j \in moved <=> j = i \/ (j \in first + 1 .. i - 1 /\ first \notin Before(e)[j])
    <2>1. ASSUME NEW j \in first + 1 .. i - 1
          PROVE  IsBefore(e, h, first, j) <=> first \in Before(e)[j]
        <3>1. j \in 1 .. i
            BY <1>1
        <3>2. first \in Before(e)[j] <=> first <= ClockAt(h, j)[e[first].instr.tid]
            BY <1>1, <3>1, ClockSays
        <3>3. PICK v : v = ClockAt(h, j)[e[first].instr.tid]
            OBVIOUS
        <3>4. v >= first <=> first <= v
            OBVIOUS
        <3> QED
            BY <3>2, <3>3, <3>4 DEF IsBefore
    <2> QED
        BY <2>1 DEF IncomparableAfter
<1>3. moved \in SUBSET (first + 1 .. i)
    BY <1>1, <1>2
<1>4. ASSUME NEW j \in moved, NEW k \in Before(e)[j], k > first
      PROVE  k \in moved
    <2>1. j \in 1 .. i /\ j \in 1 .. Len(e)
        BY <1>1, <1>3
    <2>2. k \in 1 .. j - 1
        BY <2>1, BeforeIsEarlier
    <2>3. k \in first + 1 .. i - 1 /\ k \in 1 .. Len(e)
        BY <1>1, <1>4, <2>1, <2>2
    <2>4. first \notin Before(e)[k]
        <3>1. CASE j = i
            BY <1>1, <3>1
        <3>2. CASE j # i
            <4>1. first \notin Before(e)[j]
                BY <1>2, <3>2
            <4>2. Before(e)[k] \subseteq Before(e)[j]
                BY <2>1, BeforeIsTransitive
            <4> QED
                BY <4>1, <4>2
        <3> QED
            BY <3>1, <3>2
    <2> QED
        BY <1>2, <2>3, <2>4
<1> QED
    BY <1>1, <1>3, <1>4

\* The entry of a clock is the last transition of a thread that happens before.
LEMMA EntryIs ==
    ASSUME NEW e \in Seq(Transitions), NEW h, NEW threads, NEW i \in 1 .. Len(e),
           ClocksFit(e, h, threads, i), NEW j \in 1 .. i, NEW t \in threads
    PROVE  /\ ClockAt(h, j)[t] \in 0 .. j - 1
           /\ ClockAt(h, j)[t] # 0 =>
                  /\ ClockAt(h, j)[t] \in Before(e)[j]
                  /\ e[ClockAt(h, j)[t]].instr.tid = t
           /\ \A k \in Before(e)[j] : e[k].instr.tid = t => k <= ClockAt(h, j)[t]
<1>1. PICK js, n : js = Before(e)[j] /\ n = j - 1
    OBVIOUS
<1>2. j \in 1 .. Len(e) /\ n \in Nat /\ js \in SUBSET (1 .. n)
    BY <1>1, BeforeIsEarlier
<1>3. ClockAt(h, j)[t] = LastBy(e, js, t)
    BY <1>1 DEF ClocksFit, ClockOfSet
<1>4. PICK m : m = LastBy(e, js, t)
    OBVIOUS
<1>5. /\ m \in 0 .. n
      /\ m # 0 => m \in js /\ e[m].instr.tid = t
      /\ \A k \in js : e[k].instr.tid = t => k <= m
    BY <1>2, <1>4, LastByIs
<1> QED
    BY <1>1, <1>3, <1>4, <1>5

\* MinIs and MaxIs, for a set of places.
LEMMA BoundsOf ==
    ASSUME NEW n \in Nat, NEW S \in SUBSET (1 .. n), S # {}
    PROVE  /\ Min(S) \in S /\ Max(S) \in S
           /\ \A k \in S : Min(S) <= k /\ k <= Max(S)
<1>1. \A k \in S : k \in Nat /\ k \in 0 .. n
    OBVIOUS
<1>2. S \in SUBSET Nat /\ S \in SUBSET (0 .. n)
    BY <1>1
<1>3. Min(S) \in S /\ \A k \in S : Min(S) <= k
    BY <1>2, MinIs
<1>4. Max(S) \in S /\ \A k \in S : k <= Max(S)
    BY <1>2, MaxIs
<1> QED
    BY <1>3, <1>4

\* What FrontIsExact says of the transitions that reversing a race moves.
FrontIsThatOf(e, h, moved) ==
    /\ FrontOf(e, h, moved) = {j \in moved : Before(e)[j] \cap moved = {}}
    /\ \A j \in moved :
           LET t == e[j].instr.tid
               seen == SeenBy(e, moved, j, t)
           IN  seen # {} => ClockAt(h, j)[t] = Max(seen)

\* front is right about what reversing the race of first and i moves.
LEMMA FrontOfMovedIs ==
    ASSUME NEW e \in Seq(Transitions), NEW h, NEW threads, NEW i \in 1 .. Len(e),
           ClocksFit(e, h, threads, i), NEW first \in DirectlyBefore(e, i),
           NEW moved, \A k : k \in moved <=> k \in IncomparableAfter(e, h, first, i) \/ k = i
    PROVE  FrontIsThatOf(e, h, moved)
<1>1. /\ first \in 1 .. i - 1 /\ moved \in SUBSET (first + 1 .. i)
      /\ \A j \in moved : \A k \in Before(e)[j] : k > first => k \in moved
    BY MovedIs
<1>2. PICK all : all = moved
    OBVIOUS
<1>3. /\ all \in SUBSET (1 .. i) /\ \A j \in all : j > first /\ j \in 1 .. i /\ j \in 1 .. Len(e)
      /\ Size(h) = threads /\ i \in Nat
    BY <1>1, <1>2 DEF ClocksFit
<1>4. \A j \in all : \A k \in Before(e)[j] : k > first => k \in all
    BY <1>1, <1>2
<1>5. \A j \in all : e[j].instr.tid \in threads /\ \A k \in Before(e)[j] : k \in 1 .. j - 1
    <2> SUFFICES ASSUME NEW j \in all
                 PROVE  e[j].instr.tid \in threads /\ Before(e)[j] \subseteq 1 .. j - 1
        OBVIOUS
    <2> QED
        BY <1>3, BeforeIsEarlier DEF ClocksFit
<1>6. ASSUME NEW j \in all, NEW t \in threads, NEW seen \in SUBSET (1 .. i), seen # {},
             \A k \in 1 .. i : k \in seen <=> k \in all /\ k < j /\ e[k].instr.tid = t,
             ClockAt(h, j)[t] >= Min(seen)
      PROVE  ClockAt(h, j)[t] \in seen
    <2>1. /\ ClockAt(h, j)[t] \in 0 .. j - 1
          /\ ClockAt(h, j)[t] # 0 =>
                 ClockAt(h, j)[t] \in Before(e)[j] /\ e[ClockAt(h, j)[t]].instr.tid = t
        BY <1>3, EntryIs
    <2>2. PICK last, min : last = ClockAt(h, j)[t] /\ min = Min(seen)
        OBVIOUS
    <2>a. min \in seen
        BY <1>3, <1>6, <2>2, BoundsOf
    <2>3. last \in 0 .. j - 1 /\ last >= min /\ min > first /\ min \in 1 .. i
        BY <1>3, <1>6, <2>1, <2>2, <2>a
    <2>4. last \in Before(e)[j] /\ e[last].instr.tid = t /\ last > first
        BY <1>1, <2>1, <2>2, <2>3
    <2>5. last \in all /\ last < j
        BY <1>3, <1>4, <1>5, <2>3, <2>4
    <2> QED
        BY <1>3, <1>6, <2>2, <2>4, <2>5
<1>7. ASSUME NEW j \in all, NEW t, t = e[j].instr.tid, NEW seen \in SUBSET (1 .. i), seen # {},
             \A k \in 1 .. i : k \in seen <=> k \in all /\ k < j /\ e[k].instr.tid = t
      PROVE  /\ ClockAt(h, j)[t] = Max(seen)
             /\ Before(e)[j] \cap all # {}
    <2>1. t \in threads
        BY <1>5, <1>7
    <2>2. PICK min, max : min = Min(seen) /\ max = Max(seen)
        OBVIOUS
    <2>3. min \in seen /\ max \in seen /\ \A k \in seen : k <= max
        BY <1>3, <1>7, <2>2, BoundsOf
    <2>4. PICK last : last = ClockAt(h, j)[t]
        OBVIOUS
    <2>5. last \in 0 .. j - 1 /\ \A k \in Before(e)[j] : e[k].instr.tid = t => k <= last
        BY <1>3, <2>1, <2>4, EntryIs
    <2>6. \A k \in seen : k \in all /\ k \in 1 .. j - 1 /\ e[k].instr.tid = t
        BY <1>3, <1>7
    <2>7. \A k \in seen : k \in Before(e)[j]
        BY <1>3, <1>7, <2>6, ThreadIsOrdered
    <2>8. min <= last /\ max <= last
        BY <2>3, <2>5, <2>6, <2>7
    <2>9. last \in seen
        BY <1>6, <1>7, <2>1, <2>2, <2>4, <2>8
    <2>10. last = max
        BY <2>3, <2>5, <2>6, <2>8, <2>9
    <2> QED
        BY <2>2, <2>3, <2>4, <2>6, <2>7, <2>10
<1>8. ASSUME NEW j \in FrontOf(e, h, all)
      PROVE  Before(e)[j] \cap all = {}
    <2> SUFFICES ASSUME NEW k \in Before(e)[j] \cap all
                 PROVE  FALSE
        OBVIOUS
    <2>1. j \in all /\ k \in all /\ k \in 1 .. j - 1 /\ k \in Before(e)[j]
        BY <1>5 DEF FrontOf
    <2>2. PICK t \in threads : t = e[k].instr.tid
        BY <1>5, <2>1
    <2>3. PICK seen : seen = SeenBy(e, all, j, t)
        OBVIOUS
    <2>a. /\ \A m \in 1 .. i : m \in seen <=> m \in all /\ m < j /\ e[m].instr.tid = t
          /\ seen \in SUBSET (1 .. i)
        BY <1>3, <2>3 DEF SeenBy
    <2>4. k \in seen
        BY <1>3, <2>1, <2>2, <2>a
    <2>5. PICK min, max, last : min = Min(seen) /\ max = Max(seen) /\ last = ClockAt(h, j)[t]
        OBVIOUS
    <2>6. last < min \/ last > max
        BY <1>3, <2>3, <2>4, <2>5 DEF FrontOf
    <2>7. min \in seen /\ max \in seen /\ \A m \in seen : min <= m /\ m <= max
        BY <1>3, <2>4, <2>5, <2>a, BoundsOf
    <2>8. last \in 0 .. j - 1 /\ k <= last
        BY <1>3, <2>1, <2>2, <2>5, EntryIs
    <2>9. min <= k /\ k \in Nat
        BY <2>1, <2>4, <2>7
    <2>10. min \in Nat
        BY <1>3, <2>7, <2>a
    <2>11. last >= min
        BY <1>3, <2>8, <2>9, <2>10
    <2>12. last \in seen
        BY <1>6, <2>1, <2>4, <2>5, <2>11, <2>a
    <2>13. last <= max /\ max \in Nat /\ last \in Nat
        BY <1>3, <2>7, <2>8, <2>12, <2>a
    <2> QED
        BY <2>6, <2>10, <2>11, <2>13
<1>9. ASSUME NEW j \in all, Before(e)[j] \cap all = {}
      PROVE  j \in FrontOf(e, h, all)
    <2> SUFFICES ASSUME NEW t \in threads, NEW seen \in SUBSET (1 .. i), seen # {},
                        \A k \in 1 .. i : k \in seen <=> k \in all /\ k < j /\ e[k].instr.tid = t
                 PROVE  t # e[j].instr.tid /\ ClockAt(h, j)[t] < Min(seen)
        BY <1>3 DEF FrontOf, SeenBy
    <2>1. t # e[j].instr.tid
        BY <1>7, <1>9
    <2>2. PICK min, last : min = Min(seen) /\ last = ClockAt(h, j)[t]
        OBVIOUS
    <2>3. min \in seen /\ min \in Nat
        <3>1. min \in seen
            BY <1>3, <2>2, BoundsOf
        <3> QED
            BY <1>3, <3>1
    <2>4. last \in 0 .. j - 1 /\ (last # 0 => last \in Before(e)[j])
        BY <1>3, <2>2, EntryIs
    <2>5. ~ last >= min
        <3> SUFFICES ASSUME last >= min
                     PROVE  FALSE
            OBVIOUS
        <3>1. last \in seen
            BY <1>6, <2>2
        <3>2. last \in all /\ last # 0
            BY <1>3, <3>1
        <3> QED
            BY <1>9, <2>4, <3>2
    <2> QED
        BY <1>3, <2>1, <2>2, <2>3, <2>4, <2>5
<1>10. FrontOf(e, h, all) = {j \in all : Before(e)[j] \cap all = {}}
    BY <1>8, <1>9 DEF FrontOf
<1>11. ASSUME NEW j \in all, SeenBy(e, all, j, e[j].instr.tid) # {}
       PROVE  ClockAt(h, j)[e[j].instr.tid] = Max(SeenBy(e, all, j, e[j].instr.tid))
    <2>1. PICK t, seen : t = e[j].instr.tid /\ seen = SeenBy(e, all, j, t)
        OBVIOUS
    <2>2. /\ \A k \in 1 .. i : k \in seen <=> k \in all /\ k < j /\ e[k].instr.tid = t
          /\ seen \in SUBSET (1 .. i)
        BY <1>3, <2>1 DEF SeenBy
    <2> QED
        BY <1>7, <1>11, <2>1, <2>2
<1> QED
    BY <1>2, <1>10, <1>11 DEF FrontIsThatOf

\* For every race, front returns what nothing that is to be moved happens before, and
\* the assertion in front holds: it looks at the first and the last transition of a
\* thread only, because those of a thread follow on one another there.
THEOREM FrontIsRight ==
    ASSUME ValidPrograms
    PROVE  DporSpec => []FrontIsExact
<1>1. ASSUME ClockInv
      PROVE  FrontIsExact
    <2> DEFINE i == index - 1
               e == mExecution
    <2> SUFFICES ASSUME JustUpdated, NEW point \in SourceBacktrackPoints(e, mHB, i)
                 PROVE  FrontIsThatOf(e, mHB, Reversal(e, mHB, i, point))
        BY DEF FrontIsExact, FrontIsThatOf
    <2>1. /\ e \in Seq(Transitions) /\ i \in 1 .. Len(e)
          /\ ClocksFit(e, mHB, Size(mHB), i)
        BY <1>1, UpdatedFits DEF ClockInv
    <2> HIDE DEF i, e
    <2>2. PICK first : first = point.index
        OBVIOUS
    <2>3. first \in DirectlyBefore(e, i)
        <3>1. first \in Covering(e, mHB, i, e[i].instr)
            BY <2>2 DEF SourceBacktrackPoints
        <3> QED
            BY <2>1, <3>1, CoveringIsDirect
    <2>4. PICK moved : moved = Reversal(e, mHB, i, point)
        OBVIOUS
    <2>5. \A k : k \in moved <=> k \in IncomparableAfter(e, mHB, first, i) \/ k = i
        BY <2>2, <2>4 DEF Reversal
    <2>6. FrontIsThatOf(e, mHB, moved)
        BY <2>1, <2>3, <2>5, FrontOfMovedIs
    <2> QED
        BY <2>4, <2>6
<1>2. ClockInv => FrontIsExact
    BY <1>1
<1> QED
    BY <1>2, ClockInvariantHolds, PTL

=============================================================================
