------------------------------- MODULE Payroll -------------------------------
(***************************************************************************)
(* The payroll of one month.  Each company of the tenant has a run, whose  *)
(* lines are drawn up from the staff and their attendance as often as the  *)
(* owner likes while it is a draft.  Finalizing books every salary as an   *)
(* expense, which is then paid bit by bit.  Both read the run before their *)
(* transaction begins: what keeps two of them apart is that a company has  *)
(* one run a month, a run one line of an employee, and a tenant one        *)
(* expense of a number.                                                    *)
(*                                                                         *)
(* A definition may stand just after a faulty form of it, which no action  *)
(* uses: a slip of the code that must break a property.                    *)
(***************************************************************************)
EXTENDS Integers, FiniteSets

CONSTANTS
  Employees,    \* numbers, in the order of the names
  Companies,
  Employer,     \* Employer[e]: the company of employee e
  Requests,     \* HTTP calls, each served at most once
  None,
  Kinds,        \* the handlers that may be called, a subset of AllKinds
  Nets,         \* bound: what a month's salary may come to
  Amounts,      \* bound: what a payment may be
  MaxInFlight   \* bound: handlers running at the same time

AllKinds == {"generate", "finalize", "pay"}

ASSUME PayrollAssumption ==
  /\ Employees \subseteq Nat
  /\ Employer \in [Employees -> Companies]
  /\ None \notin Requests \cup Companies
  /\ Kinds \subseteq AllKinds
  /\ Nets \subseteq Nat /\ Nets # {}
  /\ Amounts \subseteq Nat \ {0}
  /\ MaxInFlight \in Nat

VARIABLES
  status,    \* payroll_runs.status, by company
  lines,     \* payroll_lines, by employee
  expenses,  \* business_expenses, by the call that booked them and the employee
  handed,    \* what was paid out on each (the sum is kept by no table)
  skipped,   \* companies a run of which was finalized with a salary of nothing (a history)
  locked,    \* the expense a call holds FOR UPDATE
  pc,
  job        \* a handler's request, and what it has read

rows == <<status, lines, expenses, handed, skipped>>
vars == <<status, lines, expenses, handed, skipped, locked, pc, job>>

NoLine == [by |-> None, slip |-> 0, net |-> 0, booked |-> FALSE]
Line == {NoLine} \cup [by: Requests, slip: Nat \ {0}, net: Nat, booked: BOOLEAN]

NoExpense == [number |-> 0, amount |-> 0, paid |-> 0]
Expense == [number: Nat, amount: Nat, paid: Nat]
Ids == Requests \X Employees

Job == [kind: AllKinds \cup {"none"}, of: Companies \cup {None},
        first: BOOLEAN,               \* it found no run of the month
        reopen: BOOLEAN,              \* its save of the run will write the status
        staff: SUBSET Employees, due: [Employees -> Nat], copy: [Employees -> Line],
        row: Expense, amount: Nat]
Labels == {"idle", "delete", "replace", "save", "book", "pay", "done", "refused"}

NothingDue == [e \in Employees |-> 0]
NoLines == [e \in Employees |-> NoLine]
NoJob == [kind |-> "none", of |-> None, first |-> FALSE, reopen |-> FALSE, staff |-> {},
          due |-> NothingDue, copy |-> NoLines, row |-> NoExpense, amount |-> 0]

-----------------------------------------------------------------------------

Running(r) == pc[r] \notin {"idle", "done", "refused"}
Busy == {q \in Requests : Running(q)}
Goto(r, label) == pc' = [pc EXCEPT ![r] = label]

Request(r, kind) ==
  /\ pc[r] = "idle" /\ kind \in Kinds
  /\ Cardinality(Busy) < MaxInFlight

Begin(r, label, j) == Goto(r, label) /\ job' = [job EXCEPT ![r] = j]

\* The transaction is over, one way or the other, and its locks go.
End(r, how) ==
  /\ Begin(r, how, NoJob)
  /\ locked' = [locked EXCEPT ![r] = {}]

Abort(r) == End(r, "refused") /\ UNCHANGED rows

Staff(c) == {e \in Employees : Employer[e] = c}
Booked == {x \in Ids : expenses[x].number # 0}

-----------------------------------------------------------------------------
(* generatePayroll. *)

\* Who is active, and what salary, attendance and leave come to, is as the tables
\* have it at that moment.
GeneratePayroll(r) == \E c \in Companies :
  \E staff \in (SUBSET Staff(c)) \ {{}} : \E due \in [staff -> Nets] :
    /\ Request(r, "generate")
    /\ status[c] # "finalized"
    /\ Begin(r, "delete",
             [NoJob EXCEPT !.kind = "generate", !.of = c, !.first = (status[c] = "none"),
                           !.due = [e \in Employees |-> IF e \in staff THEN due[e] ELSE 0],
                           !.staff = staff])
    /\ UNCHANGED <<rows, locked>>

LinesOf(c) == [e \in Employees |-> IF e \in Staff(c) THEN lines[e] ELSE NoLine]

\* The DELETE takes the lines that are there when it is issued; those another call has
\* added by the time it is done waiting stay.
DeleteLines(r) ==
  /\ pc[r] = "delete"
  /\ Begin(r, "replace", [job[r] EXCEPT !.copy = LinesOf(job[r].of)])
  /\ UNCHANGED <<rows, locked>>

\* What a call has deleted or inserted and not committed: another transaction waits to
\* insert a line of the same employee, to write the same line, to insert the same run.
Deletes(q, e, by) == pc[q] = "save" /\ by # None /\ job[q].copy[e].by = by
Touches(q, e) == pc[q] = "save" /\ (e \in job[q].staff \/ job[q].copy[e] # NoLine)
WaitsFor(r, q) ==
  \/ \E e \in Employees : \/ Deletes(q, e, job[r].copy[e].by)
                          \/ e \in job[r].staff /\ Touches(q, e)
  \/ pc[q] = "save" /\ job[q].of = job[r].of /\ job[q].first /\ job[r].first

\* A second run of the month is refused, and a second line of an employee in a run.
RunExists(r, c) == job[r].first /\ status[c] # "none"
LineExists(r) == \E e \in job[r].staff : lines[e] # NoLine /\ lines[e].by # job[r].copy[e].by

\* The old lines are deleted and new ones inserted, and save(run) reads the run again to
\* see what it has to write.
ReplaceLines(r) == LET c == job[r].of IN
  /\ pc[r] = "replace" /\ ~\E q \in Requests : WaitsFor(r, q)
  /\ IF RunExists(r, c) \/ LineExists(r)
       THEN Abort(r)
       ELSE /\ Begin(r, "save", [job[r] EXCEPT !.reopen = (status[c] # "draft")])
            /\ UNCHANGED <<rows, locked>>

SlipFromZero(r, e) == Cardinality({x \in job[r].staff : x < e})
Slip(r, e) == Cardinality({x \in job[r].staff : x <= e})

DrawnUp(r, e) ==
  IF e \in job[r].staff
    THEN [by |-> r, slip |-> Slip(r, e), net |-> job[r].due[e], booked |-> FALSE]
    ELSE IF lines[e].by = job[r].copy[e].by THEN NoLine ELSE lines[e]

SaveRun(r) == LET c == job[r].of IN
  /\ pc[r] = "save"
  /\ lines' = [e \in Employees |-> IF e \in Staff(c) THEN DrawnUp(r, e) ELSE lines[e]]
  /\ status' = [status EXCEPT ![c] = IF job[r].reopen THEN "draft" ELSE @]
  /\ End(r, "done")
  /\ UNCHANGED <<expenses, handed, skipped>>

-----------------------------------------------------------------------------
(* finalizePayroll. *)

FinalizePayroll(r) == \E c \in Companies :
  /\ Request(r, "finalize")
  /\ status[c] = "draft"
  /\ Begin(r, "book", [NoJob EXCEPT !.kind = "finalize", !.of = c, !.copy = LinesOf(c)])
  /\ UNCHANGED <<rows, locked>>

ToBook(r) == {e \in Employees : job[r].copy[e].net > 0 /\ ~job[r].copy[e].booked}

\* The tenant has one expense of a number, and PAY-SLIP-<month>-<n> is the same for
\* every company.
AnyNumber(r) == TRUE
NumbersFree(r) ==
  \A e \in ToBook(r) :
    /\ \A x \in Booked : expenses[x].number # job[r].copy[e].slip
    /\ \A d \in ToBook(r) : job[r].copy[d].slip = job[r].copy[e].slip => d = e

\* save(run) would take the lines it did not read away from the run, which the table
\* does not allow.
AnyLines(r) == TRUE
LinesKept(r) == \A e \in Staff(job[r].of) : lines[e].by = job[r].copy[e].by

\* A slip of nothing is passed over.
PassesOver(r) == \E e \in Employees : job[r].copy[e].by # None /\ job[r].copy[e].net = 0

BookSalaries(r) == LET c == job[r].of IN
  /\ pc[r] = "book"
  /\ \A e \in ToBook(r), q \in Requests : ~Deletes(q, e, job[r].copy[e].by)
  /\ IF NumbersFree(r) /\ LinesKept(r)
       THEN /\ expenses' = [x \in Ids |-> IF x[1] = r /\ x[2] \in ToBook(r)
                 THEN [number |-> job[r].copy[x[2]].slip,
                       amount |-> job[r].copy[x[2]].net, paid |-> 0]
                 ELSE expenses[x]]
            /\ lines' = [e \in Employees |->
                 IF e \in ToBook(r) THEN [job[r].copy[e] EXCEPT !.booked = TRUE] ELSE lines[e]]
            /\ status' = [status EXCEPT ![c] = "finalized"]
            /\ skipped' = IF PassesOver(r) THEN skipped \cup {c} ELSE skipped
            /\ End(r, "done")
            /\ UNCHANGED handed
       ELSE Abort(r)

-----------------------------------------------------------------------------
(* recordExpensePayment. *)

Readable(x) == TRUE
Lockable(x) == \A q \in Requests : x \notin locked[q]

RecordExpensePayment(r) == \E x \in Booked, amount \in Amounts :
  /\ Request(r, "pay")
  /\ Lockable(x)
  /\ amount <= expenses[x].amount - expenses[x].paid
  /\ locked' = [locked EXCEPT ![r] = {x}]
  /\ Begin(r, "pay", [NoJob EXCEPT !.kind = "pay", !.row = expenses[x], !.amount = amount])
  /\ UNCHANGED rows

SavePayment(r) == \E x \in locked[r] :
  /\ pc[r] = "pay"
  /\ expenses' = [expenses EXCEPT ![x].paid = job[r].row.paid + job[r].amount]
  /\ handed' = [handed EXCEPT ![x] = @ + job[r].amount]
  /\ End(r, "done")
  /\ UNCHANGED <<status, lines, skipped>>

-----------------------------------------------------------------------------

\* A transaction is rolled back: chosen to break a deadlock, beaten to a key by one
\* it waited for, or its process is lost.
RolledBack(r) == Running(r) /\ Abort(r)

Start(r) == GeneratePayroll(r) \/ FinalizePayroll(r) \/ RecordExpensePayment(r)

Step(r) ==
  DeleteLines(r) \/ ReplaceLines(r) \/ SaveRun(r) \/ BookSalaries(r) \/ SavePayment(r) \/ RolledBack(r)

Init ==
  /\ status = [c \in Companies |-> "none"]
  /\ lines = NoLines
  /\ expenses = [x \in Ids |-> NoExpense]
  /\ handed = [x \in Ids |-> 0]
  /\ skipped = {}
  /\ locked = [r \in Requests |-> {}]
  /\ pc = [r \in Requests |-> "idle"]
  /\ job = [r \in Requests |-> NoJob]

Over == (\A r \in Requests : ~Running(r)) /\ UNCHANGED vars

Next == (\E r \in Requests : Start(r) \/ Step(r)) \/ Over

Spec == Init /\ [][Next]_vars

-----------------------------------------------------------------------------
(* Properties. *)

TypeOK ==
  /\ status \in [Companies -> {"none", "draft", "finalized"}]
  /\ lines \in [Employees -> Line]
  /\ expenses \in [Ids -> Expense]
  /\ handed \in [Ids -> Nat]
  /\ skipped \subseteq Companies
  /\ locked \in [Requests -> SUBSET Ids]
  /\ pc \in [Requests -> Labels]
  /\ job \in [Requests -> Job]

\* An employee's month is booked as an expense once at most, though finalizing reads
\* the run before its transaction and a run may be drawn up again beside it, unless a
\* salary that came to nothing was passed over and the numbers moved; and no more is
\* paid out than what was booked, however its payments overlap.
SalaryPaidOnce ==
  /\ \A e \in Employees : Employer[e] \notin skipped =>
       Cardinality({x \in Booked : x[2] = e}) <= 1
  /\ \A x \in Booked : handed[x] <= expenses[x].amount

\* A run that is finalized has an expense of that amount for every salary on it, though
\* it was read before the transaction and may have been drawn up again by then.
FinalizesBooked ==
  [][\A c \in Companies : status[c] # "finalized" /\ status'[c] = "finalized" =>
       \A e \in Staff(c) : lines'[e].net > 0 =>
         \E x \in Booked' : x[2] = e /\ expenses'[x].amount = lines'[e].net]_vars
=============================================================================
