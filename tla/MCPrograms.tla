------------------------------ MODULE MCPrograms ------------------------------
(***************************************************************************)
(* Programs under test for the TLC runs, built from short statements.      *)
(***************************************************************************)
EXTENDS Integers, Sequences

R(o) == [op |-> "Load", obj |-> o, after |-> {}]
W(o) == [op |-> "Store", obj |-> o, after |-> {}]
RMW(o) == [op |-> "ReadModifyWrite", obj |-> o, after |-> {}]
L(o) == [op |-> "Lock", obj |-> o, after |-> {}]
U(o) == [op |-> "Unlock", obj |-> o, after |-> {}]

\* The statement comes after the first n ones of thread u.
After(u, n, statement) == [statement EXCEPT !.after = {<<u, n>>}]

Two(code0, code1) == [t \in {0, 1} |-> IF t = 0 THEN code0 ELSE code1]

Three(code0, code1, code2) ==
    [t \in {0, 1, 2} |-> CASE t = 0 -> code0 [] t = 1 -> code1 [] t = 2 -> code2]

=============================================================================
