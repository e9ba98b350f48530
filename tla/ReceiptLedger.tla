---------------------------- MODULE ReceiptLedger ----------------------------
(***************************************************************************)
(* What the receipts of a tenant promise: a receipt is posted in one step  *)
(* to every invoice it names, is taken back whole, and what an invoice     *)
(* shows as paid moves by exactly what its receipts say and never          *)
(* otherwise.                                                              *)
(***************************************************************************)
EXTENDS Integers

CONSTANTS Invoices, Requests

VARIABLES
  balance,   \* paid, per invoice
  receipts   \* the receipts that stand: who posted it, and its part per invoice

ledgerVars == <<balance, receipts>>

Receipt == [by: Requests, parts: [Invoices -> Nat]]

LedgerTypeOK == /\ balance \in [Invoices -> Nat]
                /\ receipts \subseteq Receipt

LedgerInit == /\ balance = [i \in Invoices |-> 0]
              /\ receipts = {}

\* t is found among the receipts that stand afterwards.
Post(t) == /\ t \in Receipt
           /\ \A s \in receipts : s.by # t.by
           /\ \E i \in Invoices : t.parts[i] > 0
           /\ receipts' = receipts \cup {t}
           /\ balance' = [i \in Invoices |-> balance[i] + t.parts[i]]

Reverse(t) == /\ receipts' = receipts \ {t}
              /\ balance' = [i \in Invoices |-> balance[i] - t.parts[i]]

LedgerNext == \/ \E t \in receipts' \ receipts : Post(t)
              \/ \E t \in receipts : Reverse(t)

LedgerSpec == LedgerInit /\ [][LedgerNext]_ledgerVars
=============================================================================
