------------------------------ MODULE MCIssuing ------------------------------
(* Small instances of Issuing. *)
EXTENDS Issuing, TLC

CONSTANTS daily, c1, c2, r1, r2, r3, r4

OneSchedule == {daily}
TwoChallans == {c1, c2}
OneChallan == {c1}
ThreeCalls == {r1, r2, r3}
FourCalls == {r1, r2, r3, r4}

\* An update of a challan shares no row with an invoice or a schedule: whether it overlaps
\* them makes no difference.  What a bill shares with these is the issue of an invoice,
\* which overlaps others of their kind and of its own.
Unrelated == {{x, y} : x \in {"challan", "bill"}, y \in {"invoice", "recurring"}}

\* Shipping.
OneMore == {1}

CallSymmetry == Permutations(Requests)
=============================================================================
