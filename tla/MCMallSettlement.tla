-------------------------- MODULE MCMallSettlement --------------------------
(* Small instances of MallSettlement. *)
EXTENDS MallSettlement, TLC

CONSTANTS a, b, r1, r2, r3, r4, r5, s1, s2

OneOrder == {a}
TwoOrders == {a, b}
ThreeCalls == {r1, r2, r3}
FourCalls == {r1, r2, r3, r4}
FiveCalls == {r1, r2, r3, r4, r5}
OneSeller == {s1}
TwoSellers == {s1, s2}

SameSeller == [o \in Orders |-> s1]
OwnSeller == [o \in Orders |-> IF o = a THEN s1 ELSE s2]
NextDay == [s \in Sellers |-> 1]
OneAtOnce == [s \in Sellers |-> IF s = s1 THEN 1 ELSE 0]

\* What the handlers are not safe from: a second build, a save of an order that
\* another handler marks paid or settles, and a crash in the middle of a build.
Conflicts ==
  LET Builders == {"build", "runNow", "tick"}
      Savers == {"checkout", "pay", "deliver"}
      Payers == {"return", "markPaid"}
  IN {{x, y} : x \in Builders, y \in Builders \cup {"deliver", "crash"}}
       \cup {{x, y} : x \in Payers, y \in Savers \cup Payers}

CallSymmetry == Permutations(Requests)
=============================================================================
