------------------------------ MODULE MCPayroll ------------------------------
(* Small instances of Payroll. *)
EXTENDS Payroll, TLC

CONSTANTS r1, r2, r3, r4, c1, c2

FourCalls == {r1, r2, r3, r4}
ThreeEmployees == 1 .. 3
TwoCompanies == {c1, c2}
TwoAndOne == [e \in Employees |-> IF e = 3 THEN c2 ELSE c1]

CallSymmetry == Permutations(Requests)
=============================================================================
