---------------------------- MODULE MCReceivables ----------------------------
(* Small instances of Receivables. *)
EXTENDS Receivables, TLC

CONSTANTS r1, r2, r3, r4, i1, i2

ThreeCalls == {r1, r2, r3}
FourCalls == {r1, r2, r3, r4}
OneInvoice == {i1}
TwoInvoices == {i1, i2}

\* Bills of 4 rupees, all to one customer.
Bills == [i \in Invoices |-> 400]
OneCustomer == [i \in Invoices |-> "customer"]

CallSymmetry == Permutations(Requests)
=============================================================================
