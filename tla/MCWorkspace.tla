----------------------------- MODULE MCWorkspace -----------------------------
(* Small instances of Workspace. *)
EXTENDS Workspace, TLC

CONSTANTS online, shot, cash, extra, r1, r2, r3, r4, billing, other

FourPayments == {online, shot, cash, extra}
Routes == [p \in Payments |-> CASE p = online -> "payu" [] p = shot -> "proof"
                                [] p = cash -> "desk" [] p = extra -> "addon"]
OneOrTwo == [p \in Payments |-> IF p = online THEN 2 ELSE 1]
TwoKeys == {billing, other}
ThreeCalls == {r1, r2, r3}
FourCalls == {r1, r2, r3, r4}

\* What the handlers are not safe from: two that save the same row, and two proofs
\* that are submitted together.
SameRow ==
  LET OfTenant == {"return", "approve", "offline", "activate", "settings", "pause"}
      OfCommerce == {"return", "mall"}
  IN {{x, y} : x, y \in OfTenant} \cup {{x, y} : x, y \in OfCommerce}
       \cup {{x, "reject"} : x \in {"approve", "reject"}} \cup {{"submit"}}

CallSymmetry == Permutations(Requests)
=============================================================================
