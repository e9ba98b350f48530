------------------------------- MODULE Issuing -------------------------------
(***************************************************************************)
(* Issuing sales invoices: by hand, from a schedule, or for delivery       *)
(* challans.  An invoice takes the next number of its series in a          *)
(* transaction that holds the tenant's row; its total, the schedule's next *)
(* date and the challans it bills are written by later statements.         *)
(*                                                                         *)
(* A definition may stand just after a faulty form of it, which no action  *)
(* uses: a slip of the code that must break a property.                    *)
(***************************************************************************)
EXTENDS Integers, Sequences, FiniteSets, FiniteSetsExt

CONSTANTS
  Schedules,    \* rows of recurring_invoices
  Challans,     \* delivery challans of the one customer
  Amounts,      \* what the lines of an invoice made by hand may come to
  Charges,      \* shipping and other charges less discount
  Limit,        \* the customer's credit_limit (one of zero is none)
  GivenNumbers, \* numbers given by hand
  StartNumbers, \* start numbers the series may be set to
  Requests,     \* HTTP calls, each served at most once
  Kinds,        \* the handlers that may be called, a subset of AllKinds
  Apart,        \* bound: pairs of kinds (or a single kind) that never overlap
  MaxDate,      \* bound: days counted
  MaxInFlight,  \* bound: handlers running at the same time
  MaxUpsets     \* bound: restarts of the server, and raises of what is owed, together

AllKinds == {"invoice", "recurring", "bill", "challan"}

ASSUME IssuingAssumption ==
  /\ IsFiniteSet(Challans) /\ Amounts \subseteq Nat \ {0} /\ Limit \in Nat \ {0}
  /\ Charges \subseteq Int /\ MaxUpsets \in Nat
  /\ Kinds \subseteq AllKinds
  /\ Apart \subseteq SUBSET (AllKinds \cup {"crash"})
  /\ GivenNumbers \subseteq Nat \ {0} /\ StartNumbers \subseteq Nat \ {0}
  /\ MaxDate \in Nat /\ MaxInFlight \in Nat

VARIABLES
  invoices,  \* sales_invoices, in the order they were inserted
  start,     \* start_number of the invoice series, or Off
  next,      \* next[s]: next_run_at, counted in periods of the schedule, or Off
  begun,     \* its first date (kept by no table)
  today,
  challan,   \* delivery_challans
  links,     \* invoice_delivery_challans
  deducted,  \* how often a challan's lines were taken from stock
  added,     \* what the customer came to owe beside an invoice, since the invoice
             \* was held to the limit (kept by no table)
  lock,      \* who holds the tenant's row, if anyone
  upsets,
  pc,
  job        \* a handler's kind and its local variables

rows == <<invoices, start, next, begun, today, challan, links, deducted, added, upsets>>
vars == <<rows, lock, pc, job>>

Off == 0
Invoice == [number: Nat, auto: BOOLEAN, due: Nat, of: SUBSET Challans,
            schedule: SUBSET Schedules, date: Nat]
Challan == [status: {"draft", "delivered"}, invoice: Nat]
Job == [kind: AllKinds \cup {"none"},
        number: Nat, auto: BOOLEAN, amount: Nat,    \* of the invoice it issues,
        lines: Nat, onCredit: BOOLEAN,              \* whose lines are held to the limit or not
        id: Nat,                                    \* that invoice, once inserted
        of: SUBSET Challans, dc: SUBSET Challans,   \* the challans it bills or updates, the one in hand
        schedule: SUBSET Schedules, date: Nat,      \* the due row it runs
        batch: SUBSET (Schedules \X Nat),           \* the due rows still to run
        copy: Challan, dirty: SUBSET {"status", "invoice"}, first: BOOLEAN]
Labels == {"idle", "lock", "number", "insert", "total", "each", "advance", "link", "mark",
           "load", "write", "deduct", "done"}

Draft == [status |-> "draft", invoice |-> 0]
NoJob == [kind |-> "none", number |-> 0, auto |-> TRUE, amount |-> 0,
          lines |-> 0, onCredit |-> FALSE, id |-> 0, of |-> {}, dc |-> {}, schedule |-> {}, date |-> 0, batch |-> {},
          copy |-> Draft, dirty |-> {}, first |-> FALSE]

Running(r) == pc[r] \notin {"idle", "done"}
Busy == {q \in Requests : Running(q)}
Goto(r, label) == pc' = [pc EXCEPT ![r] = label]

Request(r, kind) ==
  /\ pc[r] = "idle" /\ kind \in Kinds
  /\ Cardinality(Busy) < MaxInFlight
  /\ \A q \in Busy : {kind, job[q].kind} \notin Apart

Begin(r, label, j) == Goto(r, label) /\ job' = [job EXCEPT ![r] = j]
End(r) == Begin(r, "done", NoJob)
NextDue(r) == Begin(r, "each", [NoJob EXCEPT !.kind = "recurring", !.batch = job[r].batch])

Numbers == {invoices[i].number : i \in DOMAIN invoices}

-----------------------------------------------------------------------------
(* createInvoice, and the transaction it shares with createInvoiceFromChallans. *)

Exposure == MapThenSumSet(LAMBDA i : invoices[i].due, DOMAIN invoices)

Exposed(lines) == Exposure <= Limit
WithinCredit(lines) == Exposure + lines <= Limit

\* The bill adds the charges to the lines and takes the discount off.
BillTotal(lines, charges) == IF lines + charges > 0 THEN lines + charges ELSE 0

\* Only an invoice with a due date is held to the customer's limit, and only its lines.
CreateInvoice(r) == \E lines \in Amounts, charges \in Charges, onCredit \in BOOLEAN :
  /\ Request(r, "invoice")
  /\ onCredit => WithinCredit(lines)
  /\ Begin(r, "lock", [NoJob EXCEPT !.kind = "invoice", !.amount = BillTotal(lines, charges),
                                    !.lines = IF onCredit THEN lines ELSE 0, !.onCredit = onCredit])
  /\ UNCHANGED <<rows, lock>>

NumberGiven(r) ==
  /\ pc[r] = "lock" /\ job[r].kind \in {"invoice", "bill"}
  /\ \E n \in GivenNumbers \ Numbers :
       Begin(r, "insert", [job[r] EXCEPT !.number = n, !.auto = FALSE])
  /\ UNCHANGED <<rows, lock>>

LockNothing(r) == UNCHANGED lock
LockTenant(r) == lock = {} /\ lock' = {r}

AllocateDocumentNumber(r) ==
  /\ pc[r] = "lock"
  /\ LockTenant(r)
  /\ Goto(r, "number")
  /\ UNCHANGED <<rows, job>>

Sequence == Max(Numbers \cup {start - 1}) + 1

ReadNumbers(r) ==
  /\ pc[r] = "number"
  /\ Begin(r, "insert", [job[r] EXCEPT !.number = IF start = Off THEN 0 ELSE Sequence])
  /\ UNCHANGED <<rows, lock>>

\* UNIQUE (tenant_id, company_id, number); a number made of the time is taken to be new.
Taken(n) == n # 0 /\ n \in Numbers

Inserted(r) == [number |-> job[r].number, auto |-> job[r].auto, due |-> 0, of |-> job[r].of,
                schedule |-> job[r].schedule, date |-> job[r].date]

InsertInvoice(r) ==
  /\ pc[r] = "insert"
  /\ lock' = lock \ {r}
  /\ IF Taken(job[r].number)
       THEN /\ IF job[r].kind = "recurring" THEN NextDue(r) ELSE End(r)
            /\ UNCHANGED invoices
       ELSE /\ invoices' = Append(invoices, Inserted(r))
            /\ Begin(r, "total", [job[r] EXCEPT !.id = Len(invoices) + 1])
  /\ UNCHANGED <<start, next, begun, today, challan, links, deducted, added, upsets>>

\* Every invoice still to be written that was held to the limit.
AddedBeside(r, amount) == [q \in Requests |->
  IF q = r THEN 0 ELSE IF job[q].onCredit THEN added[q] + amount ELSE added[q]]

\* The lines, and the total they add up to.  The stock a counter's invoice then takes
\* may be too little, and the call fails with its invoice issued.
WriteTotal(r) ==
  /\ pc[r] = "total"
  /\ invoices' = [invoices EXCEPT ![job[r].id].due = @ + job[r].amount]
  /\ added' = AddedBeside(r, job[r].amount)
  /\ \/ job[r].kind = "invoice" /\ End(r)
     \/ job[r].kind = "bill" /\ Goto(r, "link") /\ UNCHANGED job
     \/ job[r].kind = "recurring" /\ Goto(r, "advance") /\ UNCHANGED job
     \/ job[r].kind = "recurring" /\ NextDue(r)
  /\ UNCHANGED <<start, next, begun, today, challan, links, deducted, lock, upsets>>

AnyAmount(balance) == Amounts

PaymentAllowed(balance) == 1 .. balance

\* The handlers of Receivables: payments and credit notes lower what an invoice owes,
\* debit notes, reversed receipts and edits raise it.
LowerDue == \E i \in DOMAIN invoices : \E amount \in PaymentAllowed(invoices[i].due) :
  /\ invoices' = [invoices EXCEPT ![i].due = @ - amount]
  /\ UNCHANGED <<start, next, begun, today, challan, links, deducted, added, lock, upsets, pc, job>>

\* Bound: a raise at any other time is as good as an invoice for more.
RaiseMatters == \E q \in Requests : job[q].onCredit

RaiseDue == \E i \in DOMAIN invoices, amount \in Amounts :
  /\ upsets < MaxUpsets /\ RaiseMatters
  /\ upsets' = upsets + 1
  /\ invoices' = [invoices EXCEPT ![i].due = @ + amount]
  /\ added' = [q \in Requests |-> IF job[q].onCredit THEN added[q] + amount ELSE added[q]]
  /\ UNCHANGED <<start, next, begun, today, challan, links, deducted, lock, pc, job>>

\* saveDocumentSeries waits for the tenant's row as any writer does.
SaveDocumentSeries ==
  /\ lock = {}
  /\ start' \in ({Off} \cup StartNumbers) \ {start}
  /\ UNCHANGED <<invoices, next, begun, today, challan, links, deducted, added, lock, upsets, pc, job>>

-----------------------------------------------------------------------------
(* createRecurringInvoice, and runDueRecurringInvoices, which reads the due    *)
(* rows once: each is issued, and then moved on from the date it was read      *)
(* with.  One that fails is passed by.                                         *)

CreateRecurringInvoice == \E s \in Schedules, date \in 1 .. MaxDate :
  /\ next[s] = Off
  /\ next'  = [next EXCEPT ![s] = date]
  /\ begun' = [begun EXCEPT ![s] = date]
  /\ UNCHANGED <<invoices, start, today, challan, links, deducted, added, lock, upsets, pc, job>>

Due == {s \in Schedules : next[s] # Off /\ next[s] <= today}

RunDueRecurringInvoices(r) ==
  /\ Request(r, "recurring") /\ Due # {}
  /\ Begin(r, "each", [NoJob EXCEPT !.kind = "recurring", !.batch = {<<s, next[s]>> : s \in Due}])
  /\ UNCHANGED <<rows, lock>>

RunOne(r) == \E row \in job[r].batch :
  /\ pc[r] = "each"
  /\ \/ Begin(r, "lock", [job[r] EXCEPT !.schedule = {row[1]}, !.date = row[2],
                                        !.amount = 1, !.batch = @ \ {row}])
     \/ Begin(r, "each", [job[r] EXCEPT !.batch = @ \ {row}])
  /\ UNCHANGED <<rows, lock>>

EndRun(r) ==
  /\ pc[r] = "each" /\ job[r].batch = {}
  /\ End(r)
  /\ UNCHANGED <<rows, lock>>

DayAfterToday(date) == today + 1
DayAfter(date) == date + 1

Advance(r) == \E s \in job[r].schedule :
  /\ pc[r] = "advance"
  /\ next' = [next EXCEPT ![s] = DayAfter(job[r].date)]
  /\ NextDue(r)
  /\ UNCHANGED <<invoices, start, begun, today, challan, links, deducted, added, lock, upsets>>

-----------------------------------------------------------------------------
(* createInvoiceFromChallans and updateDeliveryChallan. *)

AnyChallans == (SUBSET Challans) \ {{}}
Unbilled == {cs \in AnyChallans : \A c \in cs : challan[c].invoice = 0}

CreateInvoiceFromChallans(r) == \E cs \in Unbilled :
  /\ Request(r, "bill")
  /\ Begin(r, "lock", [NoJob EXCEPT !.kind = "bill", !.of = cs, !.amount = Cardinality(cs)])
  /\ UNCHANGED <<rows, lock>>

\* Each challan has a row under the invoice first, and shows the invoice after it.
NoLink(r, c) == UNCHANGED links
InsertLink(r, c) == links' = links \cup {<<job[r].id, c>>}

LinkChallan(r) == \E c \in job[r].of :
  /\ pc[r] = "link"
  /\ InsertLink(r, c)
  /\ Begin(r, "mark", [job[r] EXCEPT !.dc = {c}, !.of = @ \ {c}])
  /\ UNCHANGED <<invoices, start, next, begun, today, challan, deducted, added, lock, upsets>>

MarkChallan(r) == \E c \in job[r].dc :
  /\ pc[r] = "mark"
  /\ challan' = [challan EXCEPT ![c].invoice = job[r].id]
  /\ IF job[r].of = {} THEN End(r) ELSE Goto(r, "link") /\ UNCHANGED job
  /\ UNCHANGED <<invoices, start, next, begun, today, links, deducted, added, lock, upsets>>

UpdateDeliveryChallan(r) == \E c \in Challans, to \in {"draft", "delivered"} :
  /\ Request(r, "challan")
  /\ Begin(r, "load", [NoJob EXCEPT
       !.kind = "challan", !.of = {c}, !.copy = [challan[c] EXCEPT !.status = to],
       !.first = (to = "delivered" /\ challan[c].status # "delivered")])
  /\ UNCHANGED <<rows, lock>>

\* TypeORM's save: the columns on which the copy differs from the row now are written.
LoadForSave(r) == \E c \in job[r].of :
  /\ pc[r] = "load"
  /\ Begin(r, "write", [job[r] EXCEPT
       !.dirty = {col \in {"status", "invoice"} : job[r].copy[col] # challan[c][col]}])
  /\ UNCHANGED <<rows, lock>>

WriteChallan(r) == \E c \in job[r].of :
  LET new(col) == IF col \in job[r].dirty THEN job[r].copy[col] ELSE challan[c][col] IN
  /\ pc[r] = "write"
  /\ challan' = [challan EXCEPT ![c] = [status |-> new("status"), invoice |-> new("invoice")]]
  /\ IF job[r].first THEN Goto(r, "deduct") /\ UNCHANGED job ELSE End(r)
  /\ UNCHANGED <<invoices, start, next, begun, today, links, deducted, added, lock, upsets>>

\* A line that finds too little stock is passed by.
DeductChallan(r) == \E c \in job[r].of :
  /\ pc[r] = "deduct"
  /\ deducted' \in {deducted, [deducted EXCEPT ![c] = @ + 1]}
  /\ End(r)
  /\ UNCHANGED <<invoices, start, next, begun, today, challan, links, added, lock, upsets>>

-----------------------------------------------------------------------------

DayPasses ==
  /\ today < MaxDate
  /\ today' = today + 1
  /\ UNCHANGED <<invoices, start, next, begun, challan, links, deducted, added, lock, upsets, pc, job>>

\* The server is lost and started again: its handlers are gone, and Postgres rolls
\* their transactions back.
Crash ==
  /\ Busy # {} /\ upsets < MaxUpsets
  /\ \A q \in Busy : {"crash", job[q].kind} \notin Apart
  /\ upsets' = upsets + 1
  /\ lock' = {}
  /\ pc' = [r \in Requests |-> IF Running(r) THEN "done" ELSE pc[r]]
  /\ job' = [r \in Requests |-> NoJob]
  /\ added' = [r \in Requests |-> 0]
  /\ UNCHANGED <<invoices, start, next, begun, today, challan, links, deducted>>

Start(r) ==
  \/ CreateInvoice(r) \/ RunDueRecurringInvoices(r) \/ CreateInvoiceFromChallans(r)
  \/ UpdateDeliveryChallan(r)

Step(r) ==
  \/ NumberGiven(r) \/ AllocateDocumentNumber(r) \/ ReadNumbers(r) \/ InsertInvoice(r)
  \/ WriteTotal(r) \/ RunOne(r) \/ EndRun(r) \/ Advance(r) \/ LinkChallan(r)
  \/ MarkChallan(r) \/ LoadForSave(r) \/ WriteChallan(r) \/ DeductChallan(r)

Init ==
  /\ invoices = <<>> /\ start \in {Off, 1}
  /\ next = [s \in Schedules |-> Off] /\ begun = next /\ today = 1
  /\ challan = [c \in Challans |-> Draft]
  /\ links = {}
  /\ deducted = [c \in Challans |-> 0]
  /\ added = [r \in Requests |-> 0]
  /\ lock = {} /\ upsets = 0
  /\ pc = [r \in Requests |-> "idle"]
  /\ job = [r \in Requests |-> NoJob]

Next ==
  \/ \E r \in Requests : Start(r) \/ Step(r)
  \/ LowerDue \/ RaiseDue \/ SaveDocumentSeries \/ CreateRecurringInvoice \/ DayPasses \/ Crash

Spec == Init /\ [][Next]_vars

-----------------------------------------------------------------------------
(* Properties. *)

TypeOK ==
  /\ invoices \in Seq(Invoice)
  /\ start \in Nat /\ today \in Nat /\ upsets \in Nat
  /\ next \in [Schedules -> Nat] /\ begun \in [Schedules -> Nat]
  /\ challan \in [Challans -> Challan]
  /\ links \subseteq Nat \X Challans
  /\ deducted \in [Challans -> Nat]
  /\ added \in [Requests -> Nat]
  /\ lock \subseteq Requests
  /\ pc \in [Requests -> Labels]
  /\ job \in [Requests -> Job]

\* Numbers the series gives only grow, in the order the invoices are inserted, whoever
\* issues them together, changes the series or gives a number by hand.
SeriesGrows ==
  \A i, j \in DOMAIN invoices :
    i < j /\ invoices[i].auto /\ invoices[j].auto /\ invoices[i].number # 0
      /\ invoices[j].number # 0 => invoices[i].number < invoices[j].number

\* Where an invoice on credit takes what the customer owes above the limit, the excess is
\* no more than its charges, which the check leaves out, and what other invoices, debit
\* notes, reversals and edits have added since the check.
LimitExceededOnlyBy ==
  [][\A r \in Requests :
       WriteTotal(r) /\ job[r].onCredit =>
         Exposure' <= Limit + (job[r].amount - job[r].lines) + added[r]]_vars

\* However a run of the schedules fails, overlaps other work or is cut short, no date
\* before the next one is left without its invoice.
NoDateSkipped ==
  \A s \in Schedules : \A d \in begun[s] .. next[s] - 1 :
    \E i \in DOMAIN invoices : s \in invoices[i].schedule /\ invoices[i].date = d

\* A challan that shows an invoice is one of those under that invoice, whatever saves of
\* an old copy, bills and restarts come between the statements that say so.
ShownIsLinked ==
  \A c \in Challans : challan[c].invoice # 0 =>
    /\ challan[c].invoice \in DOMAIN invoices
    /\ <<challan[c].invoice, c>> \in links
    /\ c \in invoices[challan[c].invoice].of
=============================================================================
