---------------------------- MODULE Payroll_proofs ----------------------------
(***************************************************************************)
(* Proofs about Payroll, for any companies, staff and calls, and any       *)
(* overlap of drawing up, finalizing and paying.                           *)
(***************************************************************************)
EXTENDS Payroll, FiniteSetTheorems, WellFoundedInduction, TLAPS

-----------------------------------------------------------------------------
(* Slips. *)

\* A set of numbers has a least one.
LEMMA LeastNumber ==
  ASSUME NEW S \in SUBSET Nat, S # {}
  PROVE  \E n \in S : \A m \in S : n <= m
<1>1. \E n \in S : \A m \in S : ~(<<m, n>> \in OpToRel(<, Nat))
  BY NatLessThanWellFounded, WFMin
<1>2. PICK n \in S : \A m \in S : ~(<<m, n>> \in OpToRel(<, Nat))
  BY <1>1
<1>3. ASSUME NEW m \in S  PROVE n <= m
  <2>1. m \in Nat /\ n \in Nat
    OBVIOUS
  <2>2. ~(m < n)
    BY <1>2, <2>1 DEF OpToRel
  <2> QED
    BY <2>1, <2>2
<1> QED
  BY <1>3

\* A slip is numbered from one.
LEMMA SlipType ==
  ASSUME PayrollAssumption, NEW r \in Requests, job[r].staff \subseteq Employees,
         NEW e \in job[r].staff
  PROVE  Slip(r, e) \in Nat \ {0}
<1> DEFINE before == {x \in job[r].staff : x <= e}
<1>1. before \in SUBSET Nat /\ e \in Nat /\ \A x \in before : x <= e
  BY DEF PayrollAssumption
<1>2. IsFiniteSet(before)
  BY <1>1, FS_BoundedSetOfNaturals
<1>3. e \in before
  BY <1>1
<1>4. Cardinality(before) \in Nat /\ Cardinality(before) # 0
  BY <1>2, <1>3, FS_CardinalityType, FS_EmptySet
<1> QED
  BY <1>4 DEF Slip

\* The first of the staff gets slip 1.
LEMMA SomebodyIsFirst ==
  ASSUME PayrollAssumption, NEW r \in Requests, job[r].staff \subseteq Employees,
         job[r].staff # {}
  PROVE  \E e \in job[r].staff : Slip(r, e) = 1
<1>1. PICK e \in job[r].staff : \A x \in job[r].staff : e <= x
  BY LeastNumber DEF PayrollAssumption
<1>2. ASSUME NEW x \in job[r].staff  PROVE x <= e <=> x = e
  <2>1. x \in Nat /\ e \in Nat /\ e <= x
    BY <1>1 DEF PayrollAssumption
  <2> QED
    BY <2>1
<1>3. {x \in job[r].staff : x <= e} = {e}
  BY <1>2
<1> QED
  BY <1>3, FS_Singleton DEF Slip

-----------------------------------------------------------------------------
(* Types. *)

LEMMA Blanks ==
  ASSUME PayrollAssumption
  PROVE  /\ NoJob \in Job /\ NoLines \in [Employees -> Line] /\ NoExpense \in Expense
         /\ NoLine \in Line /\ NothingDue \in [Employees -> Nat]
BY DEF NoJob, Job, NoLines, NothingDue, NoLine, Line, NoExpense, Expense

LEMMA EndTypes ==
  ASSUME PayrollAssumption, TypeOK, NEW r \in Requests, NEW how \in Labels, End(r, how)
  PROVE  /\ pc' \in [Requests -> Labels] /\ job' \in [Requests -> Job]
         /\ locked' \in [Requests -> SUBSET Ids]
<1>1. job' \in [Requests -> Job]
  BY Blanks DEF End, Begin, TypeOK
<1> QED
  BY <1>1 DEF End, Begin, Goto, TypeOK

LEMMA AbortTypes ==
  ASSUME PayrollAssumption, TypeOK, NEW r \in Requests, Abort(r)
  PROVE  TypeOK'
<1>1. "refused" \in Labels
  BY DEF Labels
<1> QED
  BY <1>1, EndTypes DEF Abort, TypeOK, rows

LEMMA CopyType ==
  ASSUME TypeOK, PayrollAssumption, NEW c
  PROVE  LinesOf(c) \in [Employees -> Line]
BY Blanks DEF TypeOK, LinesOf

LEMMA DeleteTypes ==
  ASSUME PayrollAssumption, TypeOK, NEW r \in Requests, DeleteLines(r)
  PROVE  TypeOK'
<1> DEFINE j == [job[r] EXCEPT !.copy = LinesOf(job[r].of)]
<1>1. job[r] \in Job /\ LinesOf(job[r].of) \in [Employees -> Line]
  BY CopyType DEF TypeOK
<1>2. j \in Job
  BY <1>1 DEF Job
<1>3. Begin(r, "replace", j) /\ UNCHANGED <<rows, locked>>
  BY DEF DeleteLines
<1> HIDE DEF j
<1> QED
  BY <1>2, <1>3 DEF TypeOK, Begin, Goto, Labels, rows

LEMMA GenerateTypes ==
  ASSUME PayrollAssumption, TypeOK, NEW r \in Requests, GeneratePayroll(r)
  PROVE  TypeOK'
<1> DEFINE all(staff, due) == [e \in Employees |-> IF e \in staff THEN due[e] ELSE 0]
           j(c, staff, due) ==
             [NoJob EXCEPT !.kind = "generate", !.of = c, !.first = (status[c] = "none"),
                           !.due = all(staff, due), !.staff = staff]
<1>1. PICK c \in Companies : \E staff \in (SUBSET Staff(c)) \ {{}} : \E due \in [staff -> Nets] :
        Begin(r, "delete", j(c, staff, due)) /\ UNCHANGED <<rows, locked>>
  BY DEF GeneratePayroll
<1>2. PICK staff \in (SUBSET Staff(c)) \ {{}} : \E due \in [staff -> Nets] :
        Begin(r, "delete", j(c, staff, due)) /\ UNCHANGED <<rows, locked>>
  BY <1>1
<1>3. PICK due \in [staff -> Nets] :
        Begin(r, "delete", j(c, staff, due)) /\ UNCHANGED <<rows, locked>>
  BY <1>2
<1>4. all(staff, due) \in [Employees -> Nat] /\ staff \subseteq Employees
  BY DEF PayrollAssumption, Staff
<1> HIDE DEF all
<1>5. j(c, staff, due) \in Job
  BY <1>4, Blanks DEF Job, NoJob, AllKinds
<1> HIDE DEF j
<1> QED
  BY <1>3, <1>5 DEF TypeOK, Begin, Goto, Labels, rows

LEMMA ReplaceTypes ==
  ASSUME PayrollAssumption, TypeOK, NEW r \in Requests, ReplaceLines(r)
  PROVE  TypeOK'
<1>1. CASE Abort(r)
  BY <1>1, AbortTypes
<1>2. CASE ~Abort(r)
  <2> DEFINE c == job[r].of
             j == [job[r] EXCEPT !.reopen = (status[c] # "draft")]
  <2>1. Begin(r, "save", j) /\ UNCHANGED <<rows, locked>>
    BY <1>2 DEF ReplaceLines
  <2>3. job[r] \in Job
    BY DEF TypeOK
  <2>2. j \in Job
    BY <2>3 DEF Job
  <2> HIDE DEF j
  <2> QED
    BY <2>1, <2>2 DEF TypeOK, Begin, Goto, Labels, rows
<1> QED
  BY <1>1, <1>2

LEMMA SaveRunTypes ==
  ASSUME PayrollAssumption, TypeOK, NEW r \in Requests, SaveRun(r)
  PROVE  TypeOK'
<1>1. job[r] \in Job
  BY DEF TypeOK
<1>2. ASSUME NEW e \in Employees  PROVE DrawnUp(r, e) \in Line
  <2>1. NoLine \in Line /\ lines[e] \in Line
    BY Blanks DEF TypeOK
  <2>2. CASE e \in job[r].staff
    BY <1>1, <2>2, SlipType DEF DrawnUp, Line, Job
  <2>3. CASE e \notin job[r].staff
    BY <2>1, <2>3 DEF DrawnUp
  <2> QED
    BY <2>2, <2>3
<1>3. lines' \in [Employees -> Line]
  BY <1>2 DEF SaveRun, TypeOK
<1>4. status' \in [Companies -> {"none", "draft", "finalized"}]
  BY DEF SaveRun, TypeOK
<1>5. "done" \in Labels /\ End(r, "done") /\ UNCHANGED <<expenses, handed, skipped>>
  BY DEF SaveRun, Labels
<1> QED
  BY <1>3, <1>4, <1>5, EndTypes DEF TypeOK

LEMMA FinalizeTypes ==
  ASSUME PayrollAssumption, TypeOK, NEW r \in Requests, FinalizePayroll(r)
  PROVE  TypeOK'
<1>1. PICK c \in Companies : FinalizePayroll(r)!(c)
  BY DEF FinalizePayroll
<1> DEFINE j == [NoJob EXCEPT !.kind = "finalize", !.of = c, !.copy = LinesOf(c)]
<1>2. LinesOf(c) \in [Employees -> Line]
  BY CopyType
<1>3. j \in Job
  BY <1>2, Blanks DEF Job, NoJob, AllKinds
<1>4. Begin(r, "book", j) /\ UNCHANGED <<rows, locked>>
  BY <1>1
<1> HIDE DEF j
<1> QED
  BY <1>3, <1>4 DEF TypeOK, Begin, Goto, Labels, rows

LEMMA BookTypes ==
  ASSUME PayrollAssumption, TypeOK, NEW r \in Requests, BookSalaries(r),
         job[r].of \in Companies
  PROVE  TypeOK'
<1>1. CASE Abort(r)
  BY <1>1, AbortTypes
<1>2. CASE ~Abort(r)
  <2>1. job[r].copy \in [Employees -> Line]
    BY DEF TypeOK, Job
  <2>2. \A e \in ToBook(r) : /\ e \in Employees /\ job[r].copy[e].slip \in Nat
                             /\ job[r].copy[e].net \in Nat
                             /\ [job[r].copy[e] EXCEPT !.booked = TRUE] \in Line
    <3> SUFFICES ASSUME NEW e \in ToBook(r)
                 PROVE  /\ e \in Employees /\ job[r].copy[e].slip \in Nat
                        /\ job[r].copy[e].net \in Nat
                        /\ [job[r].copy[e] EXCEPT !.booked = TRUE] \in Line
      OBVIOUS
    <3>1. e \in Employees /\ job[r].copy[e].net > 0
      BY DEF ToBook
    <3>2. job[r].copy[e] \in [by: Requests, slip: Nat \ {0}, net: Nat, booked: BOOLEAN]
      BY <2>1, <3>1 DEF Line, NoLine
    <3> QED
      BY <3>1, <3>2 DEF Line
  <2>3. expenses' \in [Ids -> Expense]
    <3> SUFFICES ASSUME NEW x \in Ids
                 PROVE  (IF x[1] = r /\ x[2] \in ToBook(r)
                           THEN [number |-> job[r].copy[x[2]].slip,
                                 amount |-> job[r].copy[x[2]].net, paid |-> 0]
                           ELSE expenses[x]) \in Expense
      BY <1>2 DEF BookSalaries
    <3>1. expenses[x] \in Expense
      BY DEF TypeOK
    <3> QED
      BY <2>2, <3>1 DEF Expense
  <2>4. lines' \in [Employees -> Line]
    BY <1>2, <2>2 DEF BookSalaries, TypeOK
  <2>5. status' \in [Companies -> {"none", "draft", "finalized"}]
    BY <1>2 DEF BookSalaries, TypeOK
  <2>6. "done" \in Labels /\ End(r, "done") /\ UNCHANGED handed
    BY <1>2 DEF BookSalaries, Labels
  <2>7. skipped' \subseteq Companies
    BY <1>2 DEF BookSalaries, TypeOK
  <2> QED
    BY <2>3, <2>4, <2>5, <2>6, <2>7, EndTypes DEF TypeOK
<1> QED
  BY <1>1, <1>2

LEMMA RecordTypes ==
  ASSUME PayrollAssumption, TypeOK, NEW r \in Requests, RecordExpensePayment(r)
  PROVE  TypeOK'
<1>1. PICK x \in Booked, amount \in Amounts : RecordExpensePayment(r)!(x, amount)
  BY DEF RecordExpensePayment
<1> DEFINE j == [NoJob EXCEPT !.kind = "pay", !.row = expenses[x], !.amount = amount]
<1>2. x \in Ids /\ expenses[x] \in Expense /\ amount \in Nat
  BY DEF Booked, TypeOK, PayrollAssumption
<1>3. j \in Job
  BY <1>2, Blanks DEF Job, NoJob, AllKinds
<1>4. Begin(r, "pay", j) /\ locked' = [locked EXCEPT ![r] = {x}] /\ UNCHANGED rows
  BY <1>1
<1> HIDE DEF j
<1> QED
  BY <1>2, <1>3, <1>4 DEF TypeOK, Begin, Goto, Labels, rows

LEMMA PayTypes ==
  ASSUME PayrollAssumption, TypeOK, NEW r \in Requests, SavePayment(r)
  PROVE  TypeOK'
<1>1. PICK x \in locked[r] : SavePayment(r)!(x)
  BY DEF SavePayment
<1>2. job[r] \in Job /\ x \in Ids
  BY DEF TypeOK
<1>3. job[r].row.paid + job[r].amount \in Nat
  BY <1>2 DEF Job, Expense
<1>4. expenses' \in [Ids -> Expense]
  BY <1>1, <1>2, <1>3 DEF TypeOK, Expense
<1>5. handed' \in [Ids -> Nat]
  BY <1>1, <1>2 DEF TypeOK, Job
<1>6. "done" \in Labels
  BY DEF Labels
<1> QED
  BY <1>1, <1>4, <1>5, <1>6, EndTypes DEF TypeOK

LEMMA TypeStep ==
  ASSUME PayrollAssumption, TypeOK, [Next]_vars,
         \A r \in Requests : pc[r] = "book" => job[r].of \in Companies
  PROVE  TypeOK'
<1>1. CASE UNCHANGED vars
  BY <1>1 DEF TypeOK, vars, rows
<1>2. ASSUME NEW r \in Requests, BookSalaries(r)  PROVE TypeOK'
  BY <1>2, BookTypes DEF BookSalaries
<1>3. ASSUME NEW r \in Requests, Start(r) \/ Step(r)  PROVE TypeOK'
  BY <1>2, <1>3, GenerateTypes, DeleteTypes, ReplaceTypes, SaveRunTypes, FinalizeTypes,
     RecordTypes, PayTypes, AbortTypes DEF Start, Step, RolledBack
<1> QED
  BY <1>1, <1>3 DEF Next, Over

LEMMA InitTypes ==
  ASSUME PayrollAssumption, Init
  PROVE  TypeOK
BY Blanks DEF Init, TypeOK, Labels

-----------------------------------------------------------------------------
(* The inductive invariant.  Drawing up gives slip 1 to somebody, and a call   *)
(* that passes over no salary books slip 1 with the others; so the number of   *)
(* that slip, which a tenant has once, is what a second booking always meets.  *)

\* Somebody's slip has number 1 and is not booked.
FirstSlip(c, ls) ==
  \E e \in Staff(c) : ls[e].by # None /\ ls[e].slip = 1 /\ ~ls[e].booked

DraftsHaveFirst == \A c \in Companies : status[c] = "draft" => FirstSlip(c, lines)

Whole(x) == Employer[x[2]] \notin skipped

\* What was booked with nothing passed over was booked by one call, and slip 1 is
\* among it.
OneBooking == \A x, y \in Booked : Whole(x) /\ Whole(y) => x[1] = y[1]
FirstIsBooked ==
  \A x \in Booked : Whole(x) => \E y \in Booked : y[1] = x[1] /\ expenses[y].number = 1

\* What is in the tables was left there by calls that are over.
BookedAreDone == \A x \in Booked : pc[x[1]] = "done"
DrawnByDone == \A e \in Employees : lines[e].by # None => pc[lines[e].by] = "done"

\* A booked line has its expense.
LinesAreBooked ==
  \A e \in Employees : lines[e].booked =>
    \E x \in Booked : x[2] = e /\ expenses[x].amount = lines[e].net

\* Nothing is paid out unless it is written to its expense, nor more than that.
PaidIsHanded == \A x \in Ids : handed[x] = expenses[x].paid
PaidIsDue ==
  \A x \in Ids : IF x \in Booked THEN expenses[x].paid <= expenses[x].amount
                 ELSE expenses[x] = NoExpense

\* A call that draws up a run has somebody to pay.
Generating(r) ==
  /\ job[r].of \in Companies
  /\ job[r].staff \subseteq Staff(job[r].of) /\ job[r].staff # {}
GeneratesPay == \A r \in Requests : pc[r] \in {"delete", "replace", "save"} => Generating(r)

\* A line never changes but to be booked: one that stands is the one that was read.
SameSlip(was, is) == is.net = was.net /\ (was.booked => is.booked)
StillSame(r) ==
  \A e \in Employees : job[r].copy[e].by # None =>
    /\ pc[job[r].copy[e].by] = "done"
    /\ lines[e].by = job[r].copy[e].by => SameSlip(job[r].copy[e], lines[e])

\* A call that books salaries has a first slip to book, of its company alone.
OwnLines(r) ==
  /\ job[r].of \in Companies
  /\ FirstSlip(job[r].of, job[r].copy)
  /\ \A e \in Employees \ Staff(job[r].of) : job[r].copy[e] = NoLine
BooksSlips == \A r \in Requests : pc[r] = "book" => OwnLines(r) /\ StillSame(r)

\* A call that pays holds its expense alone, as it read it, and pays what is left.
Paying(r, x) ==
  /\ x \in Booked /\ locked[r] = {x}
  /\ job[r].row = expenses[x]
  /\ expenses[x].paid + job[r].amount <= expenses[x].amount
PaysWhatIsLeft == \A r \in Requests : pc[r] = "pay" => \E x \in Ids : Paying(r, x)
LocksArePaying == \A r \in Requests : locked[r] # {} => pc[r] = "pay"
LocksExclude == \A q, r \in Requests : q # r => locked[q] \cap locked[r] = {}

Books == /\ DraftsHaveFirst /\ OneBooking /\ FirstIsBooked
         /\ BookedAreDone /\ DrawnByDone /\ LinesAreBooked
Runs == GeneratesPay /\ BooksSlips
Payments == PaidIsHanded /\ PaidIsDue /\ PaysWhatIsLeft /\ LocksArePaying /\ LocksExclude

IInv == TypeOK /\ Books /\ Runs /\ Payments

-----------------------------------------------------------------------------
(* Frames: what a step of one call leaves to the others. *)

LEMMA BooksKept ==
  ASSUME PayrollAssumption, TypeOK, Books, UNCHANGED <<status, lines, skipped>>,
         \A x \in Ids : /\ expenses'[x].number = expenses[x].number
                       /\ expenses'[x].amount = expenses[x].amount,
         \A q \in Requests : pc[q] = "done" => pc'[q] = "done"
  PROVE  Books'
<1>1. Booked' = Booked /\ \A x \in Booked : x[1] \in Requests
  BY DEF Booked, Ids
<1>2. \A e \in Employees : lines[e].by \in Requests \cup {None}
  BY DEF TypeOK, Line, NoLine
<1>6. DraftsHaveFirst' /\ DrawnByDone'
  BY <1>2 DEF Books, DraftsHaveFirst, FirstSlip, Staff, DrawnByDone
<1>3. OneBooking' /\ BookedAreDone'
  BY <1>1 DEF Books, OneBooking, Whole, BookedAreDone
<1>4. FirstIsBooked'
  BY <1>1 DEF Books, FirstIsBooked, Whole, Booked
<1>5. LinesAreBooked'
  BY <1>1 DEF Books, LinesAreBooked, Booked
<1> QED
  BY <1>3, <1>4, <1>5, <1>6 DEF Books

\* A step of r, which goes to a label with what that asks of it, and leaves the lines
\* another call read as they are, or has drawn them up anew.
LEMMA RunsKept ==
  ASSUME TypeOK, Runs, NEW r \in Requests, NEW label, NEW j,
         Begin(r, label, j), pc[r] # "done",
         \A e \in Employees : \/ lines'[e].by \in {None, r}
                              \/ /\ lines'[e].by = lines[e].by
                                 /\ SameSlip(lines[e], lines'[e]),
         label \in {"delete", "replace", "save"} => Generating(r)',
         label = "book" => OwnLines(r)' /\ StillSame(r)'
  PROVE  Runs'
<1>1. /\ pc' = [pc EXCEPT ![r] = label] /\ job' = [job EXCEPT ![r] = j]
      /\ pc'[r] = label /\ job'[r] = j
  BY DEF Begin, Goto, TypeOK
<1>2. ASSUME NEW q \in Requests, q # r  PROVE pc'[q] = pc[q] /\ job'[q] = job[q]
  BY <1>1, <1>2 DEF TypeOK
<1>3. ASSUME NEW q \in Requests, pc'[q] \in {"delete", "replace", "save"}
      PROVE  Generating(q)'
  BY <1>1, <1>2, <1>3 DEF Runs, GeneratesPay, Generating, Staff
<1>4. ASSUME NEW q \in Requests, pc'[q] = "book"  PROVE OwnLines(q)' /\ StillSame(q)'
  <2>1. CASE q = r
    BY <1>1, <1>4, <2>1
  <2>2. CASE q # r
    <3>1. job'[q] = job[q] /\ OwnLines(q) /\ StillSame(q)
      BY <1>2, <1>4, <2>2 DEF Runs, BooksSlips
    <3>2. OwnLines(q)'
      BY <3>1 DEF OwnLines, FirstSlip, Staff
    <3>3. ASSUME NEW e \in Employees, job[q].copy[e].by # None
          PROVE  /\ pc'[job[q].copy[e].by] = "done"
                 /\ lines'[e].by = job[q].copy[e].by => SameSlip(job[q].copy[e], lines'[e])
      <4>1. /\ pc[job[q].copy[e].by] = "done"
            /\ lines[e].by = job[q].copy[e].by => SameSlip(job[q].copy[e], lines[e])
        BY <3>1, <3>3 DEF StillSame
      <4>4. job[q] \in Job
        BY DEF TypeOK
      <4>5. job[q].copy[e] \in Line
        BY <4>4 DEF Job
      <4>6. job[q].copy[e].by \in Requests
        BY <3>3, <4>5 DEF Line, NoLine
      <4>2. job[q].copy[e].by # r /\ pc'[job[q].copy[e].by] = "done"
        BY <1>1, <4>1, <4>6 DEF TypeOK
      <4>3. ASSUME lines'[e].by = job[q].copy[e].by
            PROVE  SameSlip(job[q].copy[e], lines'[e])
        BY <3>3, <4>1, <4>2, <4>3 DEF SameSlip
      <4> QED
        BY <4>2, <4>3
    <3>4. StillSame(q)'
      BY <3>1, <3>3 DEF StillSame
    <3> QED
      BY <3>2, <3>4
  <2> QED
    BY <2>1, <2>2
<1> QED
  BY <1>3, <1>4 DEF Runs, GeneratesPay, BooksSlips

\* What is over stays over.
LEMMA DoneStays ==
  ASSUME TypeOK, NEW r \in Requests, NEW label, NEW j, Begin(r, label, j), pc[r] # "done"
  PROVE  \A q \in Requests : pc[q] = "done" => pc'[q] = "done"
BY DEF Begin, Goto, TypeOK

\* A step of r that pays nothing and holds no expense after it.
LEMMA PaymentsKept ==
  ASSUME TypeOK, Payments, NEW r \in Requests, NEW label, NEW j, Begin(r, label, j),
         label # "pay", locked' = [locked EXCEPT ![r] = {}], UNCHANGED handed,
         \A x \in Booked : expenses'[x] = expenses[x],
         \A x \in Ids : expenses'[x].paid = expenses[x].paid,
         Booked \subseteq Booked', PaidIsDue'
  PROVE  Payments'
<1>1. /\ pc' = [pc EXCEPT ![r] = label] /\ job' = [job EXCEPT ![r] = j]
  BY DEF Begin, Goto
<1>2. PaidIsHanded' /\ PaidIsDue'
  BY DEF Payments, PaidIsHanded
<1>3. PaysWhatIsLeft'
  <2> SUFFICES ASSUME NEW q \in Requests, pc'[q] = "pay"
               PROVE  \E x \in Ids : Paying(q, x)'
    BY DEF PaysWhatIsLeft
  <2>1. q # r /\ pc[q] = "pay" /\ job'[q] = job[q] /\ locked'[q] = locked[q]
    BY <1>1 DEF TypeOK
  <2>2. PICK x \in Ids : Paying(q, x)
    BY <2>1 DEF Payments, PaysWhatIsLeft
  <2> QED
    BY <2>1, <2>2 DEF Paying
<1>4. LocksArePaying' /\ LocksExclude'
  BY <1>1 DEF Payments, LocksArePaying, LocksExclude, TypeOK
<1> QED
  BY <1>2, <1>3, <1>4 DEF Payments

\* A step of r that writes no row and holds no expense after it.
LEMMA NothingWritten ==
  ASSUME PayrollAssumption, IInv, NEW r \in Requests, NEW label, NEW j,
         Begin(r, label, j), pc[r] # "done", label # "pay", UNCHANGED rows,
         locked' = [locked EXCEPT ![r] = {}],
         label \in {"delete", "replace", "save"} => Generating(r)',
         label = "book" => OwnLines(r)' /\ StillSame(r)'
  PROVE  Books' /\ Runs' /\ Payments'
<1>1. UNCHANGED <<status, lines, expenses, handed, skipped>>
  BY DEF rows
<1>2. Books'
  BY <1>1, BooksKept, DoneStays DEF IInv
<1>3. Runs'
  BY <1>1, RunsKept DEF IInv, SameSlip
<1>4. Payments'
  BY <1>1, PaymentsKept DEF IInv, Payments, PaidIsDue, Booked
<1> QED
  BY <1>2, <1>3, <1>4

LEMMA AbortKeeps ==
  ASSUME PayrollAssumption, IInv, NEW r \in Requests, Abort(r), Running(r)
  PROVE  Books' /\ Runs' /\ Payments'
BY NothingWritten DEF Abort, End, Running

\* A call that is not paying holds nothing.
LEMMA HoldsNothing ==
  ASSUME TypeOK, Payments, NEW r \in Requests, pc[r] # "pay", UNCHANGED locked
  PROVE  locked' = [locked EXCEPT ![r] = {}]
BY DEF TypeOK, Payments, LocksArePaying

-----------------------------------------------------------------------------
(* The steps. *)

LEMMA GenerateKeeps ==
  ASSUME PayrollAssumption, IInv, NEW r \in Requests, GeneratePayroll(r)
  PROVE  Books' /\ Runs' /\ Payments'
<1> DEFINE all(staff, due) == [e \in Employees |-> IF e \in staff THEN due[e] ELSE 0]
           j(c, staff, due) ==
             [NoJob EXCEPT !.kind = "generate", !.of = c, !.first = (status[c] = "none"),
                           !.due = all(staff, due), !.staff = staff]
<1>1. PICK c \in Companies : \E staff \in (SUBSET Staff(c)) \ {{}} : \E due \in [staff -> Nets] :
        Begin(r, "delete", j(c, staff, due)) /\ UNCHANGED <<rows, locked>>
  BY DEF GeneratePayroll
<1>2. PICK staff \in (SUBSET Staff(c)) \ {{}} : \E due \in [staff -> Nets] :
        Begin(r, "delete", j(c, staff, due)) /\ UNCHANGED <<rows, locked>>
  BY <1>1
<1>3. PICK due \in [staff -> Nets] :
        Begin(r, "delete", j(c, staff, due)) /\ UNCHANGED <<rows, locked>>
  BY <1>2
<1>4. pc[r] = "idle"
  BY DEF GeneratePayroll, Request
<1>5. job'[r].of = c /\ job'[r].staff = staff
  BY <1>3 DEF Begin, IInv, TypeOK, NoJob
<1>6. Generating(r)'
  BY <1>5 DEF Generating, Staff
<1> HIDE DEF j
<1>7. locked' = [locked EXCEPT ![r] = {}]
  BY <1>3, <1>4, HoldsNothing DEF IInv
<1> QED
  BY <1>3, <1>4, <1>6, <1>7, NothingWritten

LEMMA DeleteKeeps ==
  ASSUME PayrollAssumption, IInv, NEW r \in Requests, DeleteLines(r)
  PROVE  Books' /\ Runs' /\ Payments'
<1> DEFINE j == [job[r] EXCEPT !.copy = LinesOf(job[r].of)]
<1>1. pc[r] = "delete" /\ Begin(r, "replace", j) /\ UNCHANGED <<rows, locked>>
  BY DEF DeleteLines
<1>2. job[r] \in Job /\ Generating(r)
  BY <1>1 DEF IInv, TypeOK, Runs, GeneratesPay
<1>3. job'[r].of = job[r].of /\ job'[r].staff = job[r].staff
  BY <1>1, <1>2 DEF Begin, IInv, TypeOK, Job
<1> HIDE DEF j
<1>4. Generating(r)'
  BY <1>2, <1>3 DEF Generating, Staff
<1>5. locked' = [locked EXCEPT ![r] = {}]
  BY <1>1, HoldsNothing DEF IInv
<1> QED
  BY <1>1, <1>4, <1>5, NothingWritten

LEMMA ReplaceKeeps ==
  ASSUME PayrollAssumption, IInv, NEW r \in Requests, ReplaceLines(r)
  PROVE  Books' /\ Runs' /\ Payments'
<1> DEFINE j == [job[r] EXCEPT !.reopen = (status[job[r].of] # "draft")]
<1>1. CASE Abort(r)
  BY <1>1, AbortKeeps DEF ReplaceLines, Running
<1>2. CASE ~Abort(r)
  <2>1. pc[r] = "replace" /\ Begin(r, "save", j) /\ UNCHANGED <<rows, locked>>
    BY <1>2 DEF ReplaceLines
  <2>2. job[r] \in Job /\ Generating(r)
    BY <2>1 DEF IInv, TypeOK, Runs, GeneratesPay
  <2>3. job'[r].of = job[r].of /\ job'[r].staff = job[r].staff
    BY <2>1, <2>2 DEF Begin, IInv, TypeOK, Job
  <2> HIDE DEF j
  <2>4. Generating(r)'
    BY <2>2, <2>3 DEF Generating, Staff
  <2>5. locked' = [locked EXCEPT ![r] = {}]
    BY <2>1, HoldsNothing DEF IInv
  <2> QED
    BY <2>1, <2>4, <2>5, NothingWritten
<1> QED
  BY <1>1, <1>2

\* Somebody's new line has slip 1, and what is drawn up anew is not booked.
LEMMA SaveRunKeeps ==
  ASSUME PayrollAssumption, IInv, NEW r \in Requests, SaveRun(r)
  PROVE  Books' /\ Runs' /\ Payments'
<1> DEFINE c == job[r].of
<1>1. /\ pc[r] = "save" /\ Begin(r, "done", NoJob) /\ locked' = [locked EXCEPT ![r] = {}]
      /\ lines' = [e \in Employees |-> IF e \in Staff(c) THEN DrawnUp(r, e) ELSE lines[e]]
      /\ status' = [status EXCEPT ![c] = IF job[r].reopen THEN "draft" ELSE @]
      /\ UNCHANGED <<expenses, handed, skipped>>
  BY DEF SaveRun, End
<1>2. Generating(r) /\ job[r] \in Job /\ c \in Companies
  BY <1>1 DEF IInv, TypeOK, Runs, GeneratesPay, Generating
<1>3. /\ \A d \in Companies : d # c => status'[d] = status[d]
      /\ \A e \in Staff(c) : lines'[e] = DrawnUp(r, e)
      /\ \A e \in Employees \ Staff(c) : lines'[e] = lines[e]
  BY <1>1, <1>2 DEF IInv, TypeOK, Staff
<1>4. ASSUME NEW e \in job[r].staff
      PROVE  /\ lines'[e].by = r /\ lines'[e].slip = Slip(r, e) /\ ~lines'[e].booked
  <2>1. e \in Staff(c) /\ lines'[e] = DrawnUp(r, e)
    BY <1>2, <1>3 DEF Generating
  <2> QED
    BY <2>1 DEF DrawnUp
<1>5. ASSUME NEW e \in Employees, e \notin job[r].staff
      PROVE  lines'[e] \in {NoLine, lines[e]}
  BY <1>3, <1>5 DEF DrawnUp
<1>6. r # None /\ NoLine.by = None /\ ~NoLine.booked
  BY DEF PayrollAssumption, NoLine
<1>7. pc'[r] = "done" /\ \A q \in Requests : pc[q] = "done" => pc'[q] = "done"
  <2>1. \A q \in Requests : pc[q] = "done" => pc'[q] = "done"
    BY <1>1, DoneStays DEF IInv
  <2> QED
    BY <1>1, <2>1 DEF Begin, Goto, IInv, TypeOK
<1>8. Booked' = Booked /\ \A x \in Booked : x[1] \in Requests
  BY <1>1 DEF Booked, Ids
<1>9. DraftsHaveFirst'
  <2> SUFFICES ASSUME NEW d \in Companies, status'[d] = "draft"
               PROVE  FirstSlip(d, lines')
    BY DEF DraftsHaveFirst, FirstSlip, Staff
  <2>1. CASE d = c
    <3>1. job[r].staff \subseteq Staff(c) /\ Staff(c) \subseteq Employees
      BY <1>2 DEF Generating, Staff
    <3>2. PICK e \in job[r].staff : Slip(r, e) = 1
      BY <1>2, <3>1, SomebodyIsFirst DEF Generating
    <3> QED
      BY <1>4, <1>6, <2>1, <3>1, <3>2 DEF FirstSlip
  <2>2. CASE d # c
    <3>1. \A e \in Staff(d) : lines'[e] = lines[e]
      BY <1>3, <2>2 DEF Staff
    <3>2. FirstSlip(d, lines)
      BY <1>3, <2>2 DEF IInv, Books, DraftsHaveFirst
    <3> QED
      BY <3>1, <3>2 DEF FirstSlip
  <2> QED
    BY <2>1, <2>2
<1>10. OneBooking' /\ FirstIsBooked' /\ BookedAreDone'
  BY <1>1, <1>7, <1>8
     DEF IInv, Books, OneBooking, FirstIsBooked, Whole, BookedAreDone
<1>11. DrawnByDone'
  <2> SUFFICES ASSUME NEW e \in Employees, lines'[e].by # None
               PROVE  pc'[lines'[e].by] = "done"
    BY DEF DrawnByDone
  <2>1. CASE e \in job[r].staff
    BY <1>4, <1>7, <2>1
  <2>2. CASE e \notin job[r].staff
    <3>1. lines'[e] = lines[e] /\ lines[e].by \in Requests \cup {None}
      BY <1>5, <1>6, <2>2 DEF IInv, TypeOK, Line, NoLine
    <3> QED
      BY <1>7, <3>1 DEF IInv, Books, DrawnByDone
  <2> QED
    BY <2>1, <2>2
<1>12. LinesAreBooked'
  <2> SUFFICES ASSUME NEW e \in Employees, lines'[e].booked
               PROVE  \E x \in Booked : x[2] = e /\ expenses[x].amount = lines'[e].net
    BY <1>1, <1>8 DEF LinesAreBooked
  <2>1. e \notin job[r].staff
    BY <1>4
  <2>2. lines'[e] = lines[e]
    BY <1>5, <1>6, <2>1
  <2> QED
    BY <2>2 DEF IInv, Books, LinesAreBooked
<1>13. Books'
  BY <1>9, <1>10, <1>11, <1>12 DEF Books
<1>14. Runs'
  <2>1. ASSUME NEW e \in Employees
        PROVE  \/ lines'[e].by \in {None, r}
               \/ lines'[e].by = lines[e].by /\ SameSlip(lines[e], lines'[e])
    BY <1>4, <1>5, <1>6 DEF SameSlip
  <2> QED
    BY <1>1, <2>1, RunsKept DEF IInv
<1>15. Payments'
  BY <1>1, PaymentsKept DEF IInv, Payments, PaidIsDue, Booked
<1> QED
  BY <1>13, <1>14, <1>15

LEMMA FinalizeKeeps ==
  ASSUME PayrollAssumption, IInv, NEW r \in Requests, FinalizePayroll(r)
  PROVE  Books' /\ Runs' /\ Payments'
<1>1. PICK c \in Companies : FinalizePayroll(r)!(c)
  BY DEF FinalizePayroll
<1> DEFINE j == [NoJob EXCEPT !.kind = "finalize", !.of = c, !.copy = LinesOf(c)]
<1>2. /\ Begin(r, "book", j) /\ UNCHANGED <<rows, locked>>
      /\ pc[r] = "idle" /\ status[c] = "draft"
  BY <1>1 DEF Request
<1>3. FirstSlip(c, lines)
  BY <1>2 DEF IInv, Books, DraftsHaveFirst
<1>4. /\ \A e \in Staff(c) : LinesOf(c)[e] = lines[e]
      /\ \A e \in Employees \ Staff(c) : LinesOf(c)[e] = NoLine
  BY DEF LinesOf, Staff
<1>5. FirstSlip(c, LinesOf(c))
  BY <1>3, <1>4 DEF FirstSlip
<1>6. job'[r].of = c /\ job'[r].copy = LinesOf(c)
  BY <1>2 DEF Begin, IInv, TypeOK, NoJob
<1> HIDE DEF j
<1>7. OwnLines(r)'
  BY <1>4, <1>5, <1>6 DEF OwnLines, FirstSlip, Staff
<1>8. StillSame(r)'
  <2> SUFFICES ASSUME NEW e \in Employees, LinesOf(c)[e].by # None
               PROVE  /\ pc'[LinesOf(c)[e].by] = "done"
                      /\ SameSlip(LinesOf(c)[e], lines'[e])
    BY <1>6 DEF StillSame
  <2>1. e \in Staff(c) /\ LinesOf(c)[e] = lines[e]
    BY <1>4 DEF NoLine
  <2>2. lines'[e] = lines[e]
    BY <1>2 DEF rows
  <2>3. pc[lines[e].by] = "done" /\ lines[e].by \in Requests
    BY <2>1 DEF IInv, Books, DrawnByDone, TypeOK, Line, NoLine
  <2>4. pc'[lines[e].by] = "done"
    BY <1>2, <2>3, DoneStays DEF IInv
  <2> QED
    BY <2>1, <2>2, <2>4 DEF SameSlip
<1>9. locked' = [locked EXCEPT ![r] = {}]
  BY <1>2, HoldsNothing DEF IInv
<1> QED
  BY <1>2, <1>7, <1>8, <1>9, NothingWritten

\* What a call books is on a slip with a number, and one that passes nothing over books
\* slip 1.
LEMMA WhatIsBooked ==
  ASSUME PayrollAssumption, IInv, NEW r \in Requests, pc[r] = "book"
  PROVE  /\ job[r].of \in Companies /\ ToBook(r) \subseteq Staff(job[r].of)
         /\ \A e \in ToBook(r) : job[r].copy[e].slip > 0 /\ job[r].copy[e].net > 0
         /\ \A e \in ToBook(r) : job[r].copy[e] \in Line /\ job[r].copy[e].by # None
         /\ PassesOver(r) \/ \E e \in ToBook(r) : job[r].copy[e].slip = 1
<1>1. OwnLines(r) /\ job[r].copy \in [Employees -> Line]
  BY DEF IInv, TypeOK, Job, Runs, BooksSlips
<1>2. NoLine.net = 0 /\ ~(NoLine.net > 0)
  BY DEF NoLine
<1>3. ToBook(r) \subseteq Staff(job[r].of)
  BY <1>1, <1>2 DEF ToBook, OwnLines
<1>4. ASSUME NEW e \in ToBook(r)
      PROVE  /\ job[r].copy[e].slip > 0 /\ job[r].copy[e].net > 0
             /\ job[r].copy[e] \in Line /\ job[r].copy[e].by # None
  <2>1. e \in Employees /\ job[r].copy[e] \in Line /\ job[r].copy[e].net > 0
    BY <1>1 DEF ToBook
  <2>2. job[r].copy[e] \in [by: Requests, slip: Nat \ {0}, net: Nat, booked: BOOLEAN]
    BY <1>2, <2>1 DEF Line
  <2>3. job[r].copy[e].by \in Requests /\ job[r].copy[e].slip \in Nat \ {0}
    BY <2>2
  <2> QED
    BY <2>1, <2>3 DEF PayrollAssumption
<1>5. ASSUME ~PassesOver(r)  PROVE \E e \in ToBook(r) : job[r].copy[e].slip = 1
  <2>1. PICK e \in Staff(job[r].of) :
          job[r].copy[e].by # None /\ job[r].copy[e].slip = 1 /\ ~job[r].copy[e].booked
    BY <1>1 DEF OwnLines, FirstSlip
  <2>2. e \in Employees /\ job[r].copy[e].net # 0
    BY <1>5, <2>1 DEF PassesOver, Staff
  <2>3. job[r].copy[e].net \in Nat
    BY <1>1, <2>2 DEF Line, NoLine
  <2>4. e \in ToBook(r)
    BY <2>1, <2>2, <2>3 DEF ToBook
  <2> QED
    BY <2>1, <2>4
<1> QED
  BY <1>1, <1>3, <1>4, <1>5 DEF OwnLines

\* Booking beside what another call booked whole would need a number that is taken.
LEMMA BookKeeps ==
  ASSUME PayrollAssumption, IInv, NEW r \in Requests, BookSalaries(r)
  PROVE  /\ Books' /\ Runs' /\ Payments'
         /\ \/ UNCHANGED status
            \/ /\ \A d \in Companies : d # job[r].of => status'[d] = status[d]
               /\ \A e \in Staff(job[r].of) : lines'[e].net > 0 =>
                    \E x \in Booked' : x[2] = e /\ expenses'[x].amount = lines'[e].net
<1>1. CASE Abort(r)
  BY <1>1, AbortKeeps DEF BookSalaries, Running, Abort, rows
<1>2. CASE ~Abort(r)
  <2> DEFINE c == job[r].of
             copy == job[r].copy
             Mine(x) == x[1] = r /\ x[2] \in ToBook(r)
  <2>1. /\ pc[r] = "book" /\ NumbersFree(r) /\ LinesKept(r)
        /\ expenses' = [x \in Ids |-> IF Mine(x)
             THEN [number |-> copy[x[2]].slip, amount |-> copy[x[2]].net, paid |-> 0]
             ELSE expenses[x]]
        /\ lines' = [e \in Employees |->
             IF e \in ToBook(r) THEN [copy[e] EXCEPT !.booked = TRUE] ELSE lines[e]]
        /\ status' = [status EXCEPT ![c] = "finalized"]
        /\ skipped' = IF PassesOver(r) THEN skipped \cup {c} ELSE skipped
        /\ Begin(r, "done", NoJob) /\ locked' = [locked EXCEPT ![r] = {}]
        /\ UNCHANGED handed
    BY <1>2 DEF BookSalaries, End
  <2>2. /\ c \in Companies /\ ToBook(r) \subseteq Staff(c)
        /\ \A e \in ToBook(r) : copy[e].slip > 0 /\ copy[e].net > 0
        /\ \A e \in ToBook(r) : copy[e] \in Line /\ copy[e].by # None
        /\ PassesOver(r) \/ \E e \in ToBook(r) : copy[e].slip = 1
    BY <2>1, WhatIsBooked
  <2>3. /\ copy \in [Employees -> Line] /\ ToBook(r) \subseteq Employees
        /\ OwnLines(r) /\ StillSame(r)
    BY <2>1 DEF IInv, TypeOK, Job, ToBook, Runs, BooksSlips
  <2>4. ASSUME NEW x \in Booked  PROVE x \in Ids /\ ~Mine(x) /\ x[1] # r
    BY <2>1 DEF IInv, Books, BookedAreDone, Booked
  <2>5. ASSUME NEW x \in Ids
        PROVE  IF Mine(x)
                 THEN /\ expenses'[x].number = copy[x[2]].slip
                      /\ expenses'[x].amount = copy[x[2]].net /\ expenses'[x].paid = 0
                 ELSE expenses'[x] = expenses[x]
    BY <2>1
  <2> HIDE DEF Mine
  <2>6. Booked' = Booked \cup {x \in Ids : Mine(x)}
    <3>1. ASSUME NEW x \in Ids
          PROVE  expenses'[x].number # 0 <=> Mine(x) \/ expenses[x].number # 0
      <4>1. CASE Mine(x)
        BY <2>2, <2>5, <4>1 DEF Mine
      <4>2. CASE ~Mine(x)
        BY <2>5, <4>2
      <4> QED
        BY <4>1, <4>2
    <3> QED
      BY <3>1 DEF Booked
  <2>7. ASSUME NEW e \in ToBook(r)
        PROVE  /\ <<r, e>> \in Booked' /\ expenses'[<<r, e>>].number = copy[e].slip
               /\ expenses'[<<r, e>>].amount = copy[e].net
    <3>1. <<r, e>> \in Ids /\ Mine(<<r, e>>)
      BY <2>3 DEF Ids, Mine
    <3> QED
      BY <2>5, <2>6, <3>1
  <2>8. /\ status'[c] = "finalized"
        /\ \A d \in Companies : d # c => status'[d] = status[d]
    BY <2>1, <2>2 DEF IInv, TypeOK
  <2>9. ASSUME NEW e \in ToBook(r)
        PROVE  /\ lines'[e].by = copy[e].by /\ lines'[e].net = copy[e].net
               /\ lines'[e].by # None
    <3>1. lines'[e] = [copy[e] EXCEPT !.booked = TRUE] /\ copy[e] \in Line /\ copy[e].by # None
      BY <2>1, <2>2, <2>3
    <3> QED
      BY <3>1 DEF Line, NoLine
  <2>10. \A e \in Employees : e \notin ToBook(r) => lines'[e] = lines[e]
    BY <2>1
  <2>11. pc'[r] = "done" /\ \A q \in Requests : pc[q] = "done" => pc'[q] = "done"
    <3>1. \A q \in Requests : pc[q] = "done" => pc'[q] = "done"
      BY <2>1, DoneStays DEF IInv
    <3> QED
      BY <2>1, <3>1 DEF Begin, Goto, IInv, TypeOK
  <2>12. ASSUME NEW x \in Booked
         PROVE  x \in Booked' /\ expenses'[x] = expenses[x]
    BY <2>4, <2>5, <2>6
  <2> HIDE DEF c, copy
  <2>13. OneBooking' /\ FirstIsBooked'
    <3>1. ASSUME NEW x \in Booked', Employer[x[2]] \notin skipped', ~(x \in Booked)
          PROVE  x[1] = r /\ x[2] \in ToBook(r) /\ ~PassesOver(r)
      <4>1. x[1] = r /\ x[2] \in ToBook(r)
        BY <2>6, <3>1 DEF Mine
      <4>2. Employer[x[2]] = c
        BY <2>2, <4>1 DEF Staff
      <4> QED
        BY <2>1, <3>1, <4>1, <4>2
    <3>2. skipped \subseteq skipped'
      BY <2>1
    <3>3. ASSUME ~PassesOver(r), NEW x \in Booked, Whole(x)  PROVE FALSE
      <4>1. PICK y \in Booked : y[1] = x[1] /\ expenses[y].number = 1
        BY <3>3 DEF IInv, Books, FirstIsBooked
      <4> QED
        BY <2>1, <2>2, <3>3, <4>1 DEF NumbersFree, copy
    <3>4. ASSUME NEW x \in Booked', NEW y \in Booked',
                 Employer[x[2]] \notin skipped', Employer[y[2]] \notin skipped'
          PROVE  x[1] = y[1]
      <4>1. CASE x \in Booked /\ y \in Booked
        BY <3>2, <3>4, <4>1 DEF IInv, Books, OneBooking, Whole
      <4>2. CASE x \notin Booked /\ y \notin Booked
        BY <3>1, <3>4, <4>2
      <4>3. CASE x \in Booked /\ y \notin Booked
        BY <3>1, <3>2, <3>3, <3>4, <4>3 DEF Whole
      <4>4. CASE x \notin Booked /\ y \in Booked
        BY <3>1, <3>2, <3>3, <3>4, <4>4 DEF Whole
      <4> QED
        BY <4>1, <4>2, <4>3, <4>4
    <3>5. ASSUME NEW x \in Booked', Employer[x[2]] \notin skipped'
          PROVE  \E y \in Booked' : y[1] = x[1] /\ expenses'[y].number = 1
      <4>1. CASE x \in Booked
        <5>1. PICK y \in Booked : y[1] = x[1] /\ expenses[y].number = 1
          BY <3>2, <3>5, <4>1 DEF IInv, Books, FirstIsBooked, Whole
        <5> QED
          BY <2>12, <5>1
      <4>2. CASE x \notin Booked
        <5>1. x[1] = r /\ ~PassesOver(r)
          BY <3>1, <3>5, <4>2
        <5>2. PICK e \in ToBook(r) : copy[e].slip = 1
          BY <2>2, <5>1
        <5> QED
          BY <2>7, <5>1, <5>2
      <4> QED
        BY <4>1, <4>2
    <3> QED
      BY <3>4, <3>5 DEF OneBooking, FirstIsBooked, Whole
  <2>14. BookedAreDone'
    <3>1. ASSUME NEW x \in Booked'  PROVE pc'[x[1]] = "done"
      <4>1. CASE x \in Booked
        <5>1. pc[x[1]] = "done" /\ x[1] \in Requests
          BY <4>1 DEF IInv, Books, BookedAreDone, Booked, Ids
        <5> QED
          BY <2>11, <5>1
      <4>2. CASE x \notin Booked
        BY <2>6, <2>11, <4>2 DEF Mine
      <4> QED
        BY <4>1, <4>2
    <3> QED
      BY <3>1 DEF BookedAreDone
  <2>15. DrawnByDone'
    <3> SUFFICES ASSUME NEW e \in Employees, lines'[e].by # None
                 PROVE  pc'[lines'[e].by] = "done"
      BY DEF DrawnByDone
    <3>1. CASE e \in ToBook(r)
      <4>1. lines'[e].by = copy[e].by /\ copy[e].by # None
        BY <2>9, <3>1
      <4>2. pc[copy[e].by] = "done"
        BY <2>3, <4>1 DEF StillSame, copy
      <4>3. copy[e].by \in Requests
        BY <2>3, <4>1 DEF Line, NoLine
      <4> QED
        BY <2>11, <4>1, <4>2, <4>3
    <3>2. CASE e \notin ToBook(r)
      <4>1. lines'[e] = lines[e]
        BY <2>10, <3>2
      <4>2. lines[e].by \in Requests \cup {None}
        BY DEF IInv, TypeOK, Line, NoLine
      <4> QED
        BY <2>11, <4>1, <4>2 DEF IInv, Books, DrawnByDone
    <3> QED
      BY <3>1, <3>2
  <2>16. LinesAreBooked'
    <3> SUFFICES ASSUME NEW e \in Employees, lines'[e].booked
                 PROVE  \E x \in Booked' : x[2] = e /\ expenses'[x].amount = lines'[e].net
      BY DEF LinesAreBooked
    <3>1. CASE e \in ToBook(r)
      BY <2>7, <2>9, <3>1
    <3>2. CASE e \notin ToBook(r)
      <4>1. PICK x \in Booked : x[2] = e /\ expenses[x].amount = lines[e].net
        BY <2>10, <3>2 DEF IInv, Books, LinesAreBooked
      <4> QED
        BY <2>10, <2>12, <3>2, <4>1
    <3> QED
      BY <3>1, <3>2
  <2>17. DraftsHaveFirst'
    <3> SUFFICES ASSUME NEW d \in Companies, status'[d] = "draft"
                 PROVE  FirstSlip(d, lines')
      BY DEF DraftsHaveFirst, FirstSlip, Staff
    <3>1. d # c /\ FirstSlip(d, lines)
      BY <2>8 DEF IInv, Books, DraftsHaveFirst
    <3>2. \A e \in Staff(d) : lines'[e] = lines[e]
      BY <2>2, <2>10, <3>1 DEF Staff
    <3> QED
      BY <3>1, <3>2 DEF FirstSlip
  <2>18. Books'
    BY <2>13, <2>14, <2>15, <2>16, <2>17 DEF Books
  <2>19. Runs'
    <3>1. ASSUME NEW e \in Employees
          PROVE  \/ lines'[e].by \in {None, r}
                 \/ lines'[e].by = lines[e].by /\ SameSlip(lines[e], lines'[e])
      <4>1. CASE e \in ToBook(r)
        <5>1. lines[e].by = copy[e].by /\ copy[e].by # None
          BY <2>1, <2>2, <4>1 DEF LinesKept, c, copy
        <5>2. lines[e].net = copy[e].net
          BY <2>3, <5>1 DEF StillSame, SameSlip, copy
        <5>3. lines'[e].booked
          BY <2>1, <2>3, <4>1 DEF Line, NoLine, copy
        <5> QED
          BY <2>9, <4>1, <5>1, <5>2, <5>3 DEF SameSlip
      <4>2. CASE e \notin ToBook(r)
        BY <2>10, <4>2 DEF SameSlip
      <4> QED
        BY <4>1, <4>2
    <3> QED
      BY <2>1, <3>1, RunsKept DEF IInv
  <2>20. Payments'
    <3>1. ASSUME NEW x \in Ids
          PROVE  /\ expenses'[x].paid = expenses[x].paid
                 /\ IF x \in Booked' THEN expenses'[x].paid <= expenses'[x].amount
                    ELSE expenses'[x] = NoExpense
      <4>1. CASE Mine(x)
        <5>1. x \notin Booked /\ x \in Booked'
          BY <2>4, <2>6, <4>1
        <5>2. expenses[x].paid = 0
          BY <5>1 DEF IInv, Payments, PaidIsDue, NoExpense
        <5>3. copy[x[2]].net \in Nat /\ copy[x[2]].net > 0
          BY <2>2, <2>3, <4>1 DEF Line, NoLine, Mine
        <5> QED
          BY <2>5, <4>1, <5>1, <5>2, <5>3
      <4>2. CASE ~Mine(x)
        BY <2>5, <2>6, <4>2 DEF IInv, Payments, PaidIsDue
      <4> QED
        BY <4>1, <4>2
    <3>2. PaidIsDue'
      BY <3>1 DEF PaidIsDue
    <3>3. Booked \subseteq Booked'
      BY <2>6
    <3> QED
      BY <2>1, <2>12, <3>1, <3>2, <3>3, PaymentsKept DEF IInv
  <2>21. ASSUME NEW e \in Staff(c), lines'[e].net > 0
         PROVE  \E x \in Booked' : x[2] = e /\ expenses'[x].amount = lines'[e].net
    <3>1. CASE e \in ToBook(r)
      BY <2>7, <2>9, <3>1
    <3>2. CASE e \notin ToBook(r)
      <4>1. e \in Employees /\ lines'[e] = lines[e] /\ lines[e] \in Line
        BY <2>10, <3>2 DEF IInv, TypeOK, Staff
      <4>2. lines[e].by = copy[e].by
        BY <2>1 DEF LinesKept, c, copy
      <4>3. lines[e].by # None
        BY <2>21, <4>1 DEF Line, NoLine, PayrollAssumption
      <4>4. copy[e].net = lines[e].net /\ (copy[e].booked => lines[e].booked)
        BY <2>3, <4>1, <4>2, <4>3 DEF StillSame, SameSlip, copy
      <4>5. lines[e].booked
        BY <2>21, <3>2, <4>1, <4>4 DEF ToBook, copy
      <4>6. PICK x \in Booked : x[2] = e /\ expenses[x].amount = lines[e].net
        BY <4>1, <4>5 DEF IInv, Books, LinesAreBooked
      <4> QED
        BY <2>12, <4>1, <4>6
    <3> QED
      BY <3>1, <3>2
  <2> QED
    BY <2>8, <2>18, <2>19, <2>20, <2>21 DEF c
<1> QED
  BY <1>1, <1>2

LEMMA RecordKeeps ==
  ASSUME PayrollAssumption, IInv, NEW r \in Requests, RecordExpensePayment(r)
  PROVE  Books' /\ Runs' /\ Payments'
<1>1. PICK x \in Booked, amount \in Amounts : RecordExpensePayment(r)!(x, amount)
  BY DEF RecordExpensePayment
<1> DEFINE j == [NoJob EXCEPT !.kind = "pay", !.row = expenses[x], !.amount = amount]
<1>2. /\ Begin(r, "pay", j) /\ locked' = [locked EXCEPT ![r] = {x}] /\ Lockable(x)
      /\ amount <= expenses[x].amount - expenses[x].paid
      /\ UNCHANGED <<status, lines, expenses, handed, skipped>> /\ pc[r] = "idle"
  BY <1>1 DEF rows, Request
<1>3. x \in Ids /\ expenses[x] \in Expense /\ amount \in Nat
  BY DEF Booked, IInv, TypeOK, PayrollAssumption
<1>4. j.row = expenses[x] /\ j.amount = amount
  BY DEF NoJob
<1> HIDE DEF j
<1>5. /\ pc'[r] = "pay" /\ job'[r] = j /\ locked'[r] = {x} /\ Booked' = Booked
      /\ \A q \in Requests : q # r => /\ pc'[q] = pc[q] /\ job'[q] = job[q]
                                     /\ locked'[q] = locked[q]
  BY <1>2 DEF Begin, Goto, IInv, TypeOK, Booked
<1>6. Books' /\ Runs'
  BY <1>2, BooksKept, RunsKept, DoneStays DEF IInv, SameSlip
<1>7. PaidIsHanded' /\ PaidIsDue'
  BY <1>2, <1>5 DEF IInv, Payments, PaidIsHanded, PaidIsDue
<1>8. PaysWhatIsLeft'
  <2> SUFFICES ASSUME NEW q \in Requests, pc'[q] = "pay"
               PROVE  \E y \in Ids : Paying(q, y)'
    BY DEF PaysWhatIsLeft
  <2>1. CASE q = r
    <3>1. expenses[x].paid + amount <= expenses[x].amount
      BY <1>2, <1>3 DEF Expense
    <3>2. Paying(r, x)'
      BY <1>2, <1>4, <1>5, <3>1 DEF Paying
    <3> QED
      BY <1>3, <2>1, <3>2
  <2>2. CASE q # r
    <3>1. PICK y \in Ids : Paying(q, y)
      BY <1>5, <2>2 DEF IInv, Payments, PaysWhatIsLeft
    <3> QED
      BY <1>2, <1>5, <2>2, <3>1 DEF Paying
  <2> QED
    BY <2>1, <2>2
<1>9. LocksArePaying' /\ LocksExclude'
  BY <1>2, <1>5 DEF IInv, Payments, LocksArePaying, LocksExclude, Lockable
<1> QED
  BY <1>6, <1>7, <1>8, <1>9 DEF Payments

LEMMA PayKeeps ==
  ASSUME PayrollAssumption, IInv, NEW r \in Requests, SavePayment(r)
  PROVE  Books' /\ Runs' /\ Payments'
<1>1. PICK x \in locked[r] : SavePayment(r)!(x)
  BY DEF SavePayment
<1> DEFINE new == job[r].row.paid + job[r].amount
<1>2. /\ pc[r] = "pay" /\ Begin(r, "done", NoJob) /\ locked' = [locked EXCEPT ![r] = {}]
      /\ expenses' = [expenses EXCEPT ![x].paid = new]
      /\ handed' = [handed EXCEPT ![x] = @ + job[r].amount]
      /\ UNCHANGED <<status, lines, skipped>>
  BY <1>1 DEF End
<1>3. x \in Ids /\ Paying(r, x)
  BY <1>2 DEF IInv, TypeOK, Payments, PaysWhatIsLeft, Paying
<1>4. /\ new = expenses[x].paid + job[r].amount /\ new <= expenses[x].amount
      /\ x \in Booked
  BY <1>3 DEF Paying
<1>5. job[r].amount \in Nat /\ expenses[x] \in Expense /\ handed[x] = expenses[x].paid
  BY <1>3 DEF IInv, TypeOK, Job, Payments, PaidIsHanded
<1> HIDE DEF new
<1>6. /\ expenses'[x] = [expenses[x] EXCEPT !.paid = new]
      /\ \A y \in Ids : y # x => expenses'[y] = expenses[y] /\ handed'[y] = handed[y]
      /\ handed'[x] = new
  BY <1>2, <1>3, <1>4, <1>5 DEF IInv, TypeOK
<1>7. \A y \in Ids : /\ expenses'[y].number = expenses[y].number
                    /\ expenses'[y].amount = expenses[y].amount
  BY <1>5, <1>6 DEF Expense
<1>8. Booked' = Booked
  BY <1>7 DEF Booked
<1>9. Books'
  BY <1>2, <1>7, BooksKept, DoneStays DEF IInv
<1>10. Runs'
  BY <1>2, RunsKept DEF IInv, SameSlip
<1>11. PaidIsHanded' /\ PaidIsDue'
  <2>1. expenses'[x].paid = new /\ expenses'[x].amount = expenses[x].amount
    BY <1>5, <1>6 DEF Expense
  <2>2. PaidIsHanded'
    BY <1>6, <2>1 DEF IInv, Payments, PaidIsHanded
  <2>3. PaidIsDue'
    BY <1>4, <1>6, <1>8, <2>1 DEF IInv, Payments, PaidIsDue
  <2> QED
    BY <2>2, <2>3
<1>12. PaysWhatIsLeft'
  <2> SUFFICES ASSUME NEW q \in Requests, pc'[q] = "pay"
               PROVE  \E y \in Ids : Paying(q, y)'
    BY DEF PaysWhatIsLeft
  <2>1. q # r /\ pc[q] = "pay" /\ job'[q] = job[q] /\ locked'[q] = locked[q]
    BY <1>2 DEF Begin, Goto, IInv, TypeOK
  <2>2. PICK y \in Ids : Paying(q, y)
    BY <2>1 DEF IInv, Payments, PaysWhatIsLeft
  <2>3. y # x
    BY <2>1, <2>2, <1>3 DEF IInv, Payments, LocksExclude, Paying
  <2> QED
    BY <1>6, <1>8, <2>1, <2>2, <2>3 DEF Paying
<1>13. LocksArePaying' /\ LocksExclude'
  BY <1>2 DEF IInv, TypeOK, Payments, LocksArePaying, LocksExclude, Begin, Goto
<1> QED
  BY <1>9, <1>10, <1>11, <1>12, <1>13 DEF Payments

LEMMA StepKeeps ==
  ASSUME PayrollAssumption, IInv, NEW r \in Requests, Start(r) \/ Step(r)
  PROVE  Books' /\ Runs' /\ Payments'
BY GenerateKeeps, DeleteKeeps, ReplaceKeeps, SaveRunKeeps, FinalizeKeeps, BookKeeps,
   RecordKeeps, PayKeeps, AbortKeeps DEF Start, Step, RolledBack

LEMMA Inductive ==
  ASSUME PayrollAssumption, IInv, [Next]_vars
  PROVE  IInv'
<1>1. TypeOK'
  BY TypeStep DEF IInv, Runs, BooksSlips, OwnLines
<1>2. CASE UNCHANGED vars
  <2>1. UNCHANGED <<status, lines, expenses, handed, skipped, locked, pc, job>>
    BY <1>2 DEF vars, rows
  <2>2. Booked' = Booked
    BY <2>1 DEF Booked
  <2>3. Books'
    BY <2>1, BooksKept DEF IInv
  <2>4. Runs'
    BY <2>1 DEF IInv, Runs, GeneratesPay, Generating, BooksSlips, OwnLines, FirstSlip,
       StillSame, Staff
  <2>5. Payments'
    BY <2>1, <2>2 DEF IInv, Payments, PaidIsHanded, PaidIsDue, PaysWhatIsLeft, Paying,
       LocksArePaying, LocksExclude
  <2> QED
    BY <1>1, <2>3, <2>4, <2>5 DEF IInv
<1> QED
  BY <1>1, <1>2, StepKeeps DEF Next, Over, IInv

LEMMA Initial ==
  ASSUME PayrollAssumption, Init
  PROVE  IInv
<1>1. Booked = {}
  BY DEF Init, Booked, NoExpense
<1>2. Books
  BY <1>1 DEF Init, Books, DraftsHaveFirst, OneBooking, FirstIsBooked, BookedAreDone,
     DrawnByDone, LinesAreBooked, NoLines, NoLine
<1>3. Runs
  BY DEF Init, Runs, GeneratesPay, BooksSlips
<1>4. Payments
  BY <1>1 DEF Init, Payments, PaidIsHanded, PaidIsDue, PaysWhatIsLeft, LocksArePaying,
     LocksExclude, NoExpense
<1> QED
  BY <1>2, <1>3, <1>4, InitTypes DEF IInv

-----------------------------------------------------------------------------
(* The theorems. *)

\* Every state satisfies the invariant, whatever the salaries come to and however calls
\* that draw up, finalize and pay overlap.
THEOREM PayrollInvariance == Spec => []IInv
<1> USE PayrollAssumption
<1> QED
  BY Initial, Inductive, PTL DEF Spec

\* The run, its lines and the expenses keep their types: in particular every slip is
\* numbered from one, which is what finalizing takes a line with a salary to have.
THEOREM PayrollTypeCorrect == Spec => []TypeOK
BY PayrollInvariance, PTL DEF IInv

\* An employee's month is booked at most once, unless a salary that came to nothing was
\* passed over in that company, and no more is paid out on it than was booked: what lets
\* finalizePayroll and generatePayroll read the run before their transactions is the
\* number of slip 1.
THEOREM SalaryIsPaidOnce == Spec => []SalaryPaidOnce
<1>1. IInv => SalaryPaidOnce
  <2> SUFFICES ASSUME IInv
               PROVE  SalaryPaidOnce
    OBVIOUS
  <2>1. ASSUME NEW e \in Employees, Employer[e] \notin skipped
        PROVE  Cardinality({x \in Booked : x[2] = e}) <= 1
    <3> DEFINE mine == {x \in Booked : x[2] = e}
    <3>1. \A x, y \in mine : x = y
      BY <2>1 DEF IInv, Books, OneBooking, Whole, Booked, Ids
    <3>2. mine = {} \/ \E x : mine = {x}
      BY <3>1
    <3>3. Cardinality(mine) \in {0, 1}
      BY <3>2, FS_EmptySet, FS_Singleton
    <3> QED
      BY <3>3
  <2>2. \A x \in Booked : handed[x] <= expenses[x].amount
    BY DEF IInv, Payments, PaidIsHanded, PaidIsDue, Booked
  <2> QED
    BY <2>1, <2>2 DEF SalaryPaidOnce
<1> QED
  BY <1>1, PayrollInvariance, PTL

\* Only BookSalaries finalizes a run.
LEMMA OnlyBookingFinalizes ==
  ASSUME PayrollAssumption, IInv, NEW r \in Requests, Start(r) \/ Step(r), ~BookSalaries(r),
         NEW c \in Companies, status[c] # "finalized"
  PROVE  status'[c] # "finalized"
<1>1. CASE SaveRun(r)
  BY <1>1 DEF SaveRun, IInv, TypeOK
<1>2. CASE ~SaveRun(r)
  <2>1. UNCHANGED status
    BY <1>2 DEF Start, Step, GeneratePayroll, FinalizePayroll, RecordExpensePayment,
       DeleteLines, ReplaceLines, SavePayment, RolledBack, Abort, rows
  <2> QED
    BY <2>1
<1> QED
  BY <1>1, <1>2

\* A run becomes finalized only with every salary it then shows booked for that amount,
\* though its lines may be drawn up again while it is being finalized.
THEOREM FinalizedRunsAreBooked == Spec => FinalizesBooked
<1> DEFINE WithSalaries ==
      \A c \in Companies : status[c] # "finalized" /\ status'[c] = "finalized" =>
        \A e \in Staff(c) : lines'[e].net > 0 =>
          \E x \in Booked' : x[2] = e /\ expenses'[x].amount = lines'[e].net
<1>1. ASSUME PayrollAssumption, IInv, Next  PROVE WithSalaries
  <2>1. ASSUME NEW r \in Requests, BookSalaries(r)  PROVE WithSalaries
    BY <1>1, <2>1, BookKeeps
  <2>2. ASSUME NEW r \in Requests, Start(r) \/ Step(r), ~BookSalaries(r)  PROVE WithSalaries
    BY <1>1, <2>2, OnlyBookingFinalizes
  <2>3. CASE UNCHANGED vars
    BY <2>3 DEF vars, rows
  <2> QED
    BY <1>1, <2>1, <2>2, <2>3 DEF Next, Over
<1>2. IInv /\ [Next]_vars => [WithSalaries]_vars
  BY <1>1, PayrollAssumption
<1>3. Spec => [][WithSalaries]_vars
  <2> HIDE DEF WithSalaries
  <2> QED
    BY <1>2, PayrollInvariance, PTL DEF Spec
<1> QED
  BY <1>3 DEF FinalizesBooked
=============================================================================
