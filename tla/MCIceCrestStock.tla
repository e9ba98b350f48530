--------------------------- MODULE MCIceCrestStock ---------------------------
(* Small instances of IceCrestStock. *)
EXTENDS IceCrestStock, TLC

CONSTANTS r1, r2, r3, r4, a, b

ThreeCalls == {r1, r2, r3}
FourCalls == {r1, r2, r3, r4}
TwoItems == {a, b}

Scarce == [i \in Items |-> IF i = a THEN 2 ELSE 1]

CallSymmetry == Permutations(Requests)
=============================================================================
