------------------------------ MODULE MCCounter ------------------------------
(* Small instances of Counter. *)
EXTENDS Counter, TLC

CONSTANTS b1, b2, x, y, o1, d1, d2, q1, q2

TwoBills == {b1, b2}
LastOnCredit == {b2}
TwoItems == {x, y}
TwoAndOne == [b \in Bills |-> IF b = b1 THEN {x, y} ELSE {x}]
OneEach == [i \in Items |-> 1]
OneOrder == {o1}
OfTheFirst == [o \in HubOrders |-> x]
TwoDesks == {d1, d2}
TwoCallsAtOnce == {q1, q2}

\* What the handlers are not safe from: a bill queued while the outbox is sent, two
\* deletes or receipts of one document, a row saved as it was read, and a restart
\* between the stock and the row that accounts for it.
Conflicts ==
  {{"sale", "sync"}, {"payment", "delete"}, {"delete"}, {"receive"}, {"receive", "patch"},
   {"crash", "delete"}, {"crash", "receive"}}

Symmetry == Permutations(Desks) \cup Permutations(Calls)
=============================================================================
