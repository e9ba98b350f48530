--------------------------- MODULE Workspace_proofs ---------------------------
(***************************************************************************)
(* Proofs about Workspace, for any payments, keys and calls and any mix of *)
(* handlers, any overlap of them and restarts at any moment.               *)
(***************************************************************************)
EXTENDS Workspace, TLAPS

-----------------------------------------------------------------------------
(* Types. *)

LEMMA Blanks == Fresh \in Row /\ NoJob \in Job /\ Rows = {"tenant", "commerce"} \cup Payments
BY DEF Fresh, Row, NoJob, Job, Rows, Labels

LEMMA RowTypes ==
  ASSUME NEW row \in Row, NEW n \in Nat, NEW on \in BOOLEAN, NEW k \in Keys,
         NEW s \in {"none", "created", "waiting", "paid", "rejected"}
  PROVE  /\ [row EXCEPT !.active = on] \in Row
         /\ [row EXCEPT !.mall = on] \in Row
         /\ [row EXCEPT !.status = s] \in Row
         /\ [row EXCEPT !.settings[k] = @ + 1] \in Row
         /\ [row EXCEPT !.until = n, !.mall = on] \in Row
         /\ [row EXCEPT !.ends = n, !.active = on, !.settings[k] = @ + 1] \in Row
<1>1. row.settings[k] + 1 \in Nat
  BY DEF Row
<1>2. [row.settings EXCEPT ![k] = @ + 1] \in [Keys -> Nat]
  BY <1>1 DEF Row
<1> QED
  BY <1>2 DEF Row

LEMMA WrittenType ==
  ASSUME NEW new \in Row, NEW old \in Row, NEW cols \in SUBSET Columns
  PROVE  Written(cols, new, old) \in Row
BY DEF Row, Written

LEMMA ExtendType ==
  ASSUME TypeOK, NEW end \in Nat, NEW n \in Nat
  PROVE  Extend(end, n) \in Nat
BY DEF Extend, TypeOK

\* What a step does to the local variables of its call.
LEMMA EndTypes ==
  ASSUME TypeOK, NEW r \in Requests, End(r)
  PROVE  /\ pc' \in [Requests -> Labels] /\ job' \in [Requests -> Job]
         /\ copy' \in [Requests -> Row] /\ dirty' \in [Requests -> SUBSET Columns]
BY Blanks DEF End, Goto, TypeOK, Labels

LEMMA GoOnTypes ==
  ASSUME TypeOK, NEW r \in Requests, NEW label \in Labels, GoOn(r, label)
  PROVE  /\ pc' \in [Requests -> Labels] /\ job' \in [Requests -> Job]
         /\ copy' \in [Requests -> Row] /\ dirty' \in [Requests -> SUBSET Columns]
BY EndTypes DEF GoOn, Goto, TypeOK, locals

LEMMA BeginTypes ==
  ASSUME TypeOK, NEW r \in Requests, NEW kind \in AllKinds, NEW ps \in SUBSET Payments,
         NEW label \in Labels, Begin(r, kind, ps, label)
  PROVE  /\ pc' \in [Requests -> Labels] /\ job' \in [Requests -> Job]
         /\ copy' \in [Requests -> Row] /\ dirty' \in [Requests -> SUBSET Columns]
<1>1. [NoJob EXCEPT !.kind = kind, !.of = ps] \in Job
  BY Blanks DEF Job, NoJob
<1> QED
  BY <1>1 DEF Begin, Goto, TypeOK

LEMMA SaveTypes ==
  ASSUME TypeOK, NEW r \in Requests, NEW kind \in AllKinds \cup {"none"},
         NEW ps \in SUBSET Payments, NEW row \in Rows, NEW new \in Row, NEW next \in Labels,
         Save(r, kind, ps, row, new, next)
  PROVE  /\ pc' \in [Requests -> Labels] /\ job' \in [Requests -> Job]
         /\ copy' \in [Requests -> Row] /\ dirty' \in [Requests -> SUBSET Columns]
<1>1. [kind |-> kind, of |-> ps, row |-> row, next |-> next] \in Job
  BY DEF Job
<1> QED
  BY <1>1 DEF Save, Goto, TypeOK, Labels

LEMMA TablesTyped ==
  ASSUME TypeOK, UNCHANGED tables,
         pc' \in [Requests -> Labels], job' \in [Requests -> Job],
         copy' \in [Requests -> Row], dirty' \in [Requests -> SUBSET Columns]
  PROVE  TypeOK'
BY DEF TypeOK, tables

LEMMA EnteredType ==
  ASSUME TypeOK, NEW p \in Payments, NEW s \in {"created", "waiting"}, Entered(p, s)
  PROVE  db' \in [Rows -> Row]
<1>1. [Fresh EXCEPT !.status = s] \in Row
  BY Blanks DEF Row, Fresh
<1> QED
  BY <1>1 DEF Entered, TypeOK

LEMMA JobTypes ==
  ASSUME TypeOK, NEW r \in Requests
  PROVE  /\ In(r) \in AllKinds \cup {"none"} /\ job[r].of \subseteq Payments
         /\ job[r].row \in Rows /\ job[r].next \in Labels
         /\ copy[r] \in Row /\ dirty[r] \in SUBSET Columns
         /\ db["tenant"] \in Row /\ db["commerce"] \in Row
         /\ \A p \in Payments : p \in Rows /\ db[p] \in Row
BY DEF TypeOK, In, Job, Rows

-----------------------------------------------------------------------------

LEMMA EnterTypes ==
  ASSUME WorkspaceAssumption, TypeOK, NEW r \in Requests,
         Checkout(r) \/ RecordOfflinePayment(r) \/ InsertProof(r)
  PROVE  TypeOK'
<1>1. CASE Checkout(r)
  <2>1. PICK p \in Payments : Checkout(r)!(p)
    BY <1>1 DEF Checkout
  <2> QED
    BY <2>1, BeginTypes, EnteredType DEF TypeOK, AllKinds, Labels
<1>2. CASE RecordOfflinePayment(r)
  <2>1. PICK p \in Payments : RecordOfflinePayment(r)!(p)
    BY <1>2 DEF RecordOfflinePayment
  <2> QED
    BY <2>1, BeginTypes, EnteredType DEF TypeOK, AllKinds, Labels
<1>3. CASE InsertProof(r)
  <2>1. PICK p \in Payments : InsertProof(r)!(p)
    BY <1>3 DEF InsertProof
  <2> QED
    BY <2>1, EndTypes, EnteredType DEF TypeOK
<1> QED
  BY <1>1, <1>2, <1>3

LEMMA ReturnTypes ==
  ASSUME WorkspaceAssumption, TypeOK, NEW r \in Requests, PayuReturn(r)
  PROVE  TypeOK'
<1>1. PICK p \in forms : PayuReturn(r)!(p)
  BY DEF PayuReturn
<1>2. p \in Payments /\ p \in Rows /\ SettlePaid(p) \in Row
  BY Blanks DEF TypeOK, Row, Fresh, SettlePaid
<1>3. CASE End(r)
  BY <1>1, <1>3, EndTypes, TablesTyped
<1>4. CASE Begin(r, "return", {p}, MarkPaid)
  BY <1>1, <1>2, <1>4, BeginTypes, TablesTyped DEF MarkPaid, AllKinds, Labels
<1>5. CASE MarkAddonPaid(r, p)
  BY <1>1, <1>2, <1>5, SaveTypes, TablesTyped DEF MarkAddonPaid, AllKinds, Labels
<1> QED
  BY <1>1, <1>3, <1>4, <1>5

LEMMA ExtendPlanTypes ==
  ASSUME WorkspaceAssumption, TypeOK, NEW r \in Requests, ExtendPlan(r)
  PROVE  TypeOK'
<1>1. PICK p \in job[r].of : ExtendPlan(r)!(p)
  BY DEF ExtendPlan
<1> DEFINE new == [db["tenant"] EXCEPT !.ends = Extend(@, Months[p]), !.active = TRUE,
                                       !.settings[Billing] = @ + 1]
<1>2. p \in Payments /\ Months[p] \in Nat /\ Billing \in Keys
  BY JobTypes DEF WorkspaceAssumption
<1>3. Extend(db["tenant"].ends, Months[p]) \in Nat
  BY <1>2, JobTypes, ExtendType DEF Row
<1>4. new \in Row
  BY <1>2, <1>3, JobTypes, RowTypes
<1>5. Save(r, In(r), {p}, "tenant", new, "payment") /\ UNCHANGED tables
  BY <1>1
<1> HIDE DEF new
<1> QED
  BY <1>2, <1>4, <1>5, JobTypes, SaveTypes, TablesTyped DEF Rows, Labels

LEMMA SettleTypes ==
  ASSUME WorkspaceAssumption, TypeOK, NEW r \in Requests,
         SettlePayment(r) \/ ConfirmApproval(r)
  PROVE  TypeOK'
<1>1. PICK p \in job[r].of : /\ \/ Save(r, In(r), {p}, p, SettlePaid(p), "commission")
                                \/ Save(r, In(r), {p}, p, SettlePaid(p), "done")
                             /\ UNCHANGED tables
  BY DEF SettlePayment, ConfirmApproval
<1>2. p \in Payments /\ p \in Rows /\ SettlePaid(p) \in Row
  BY JobTypes, Blanks DEF Row, Fresh, SettlePaid
<1> QED
  BY <1>1, <1>2, JobTypes, SaveTypes, TablesTyped DEF Labels

LEMMA ActivateAddonTypes ==
  ASSUME WorkspaceAssumption, TypeOK, NEW r \in Requests, ActivateAddon(r)
  PROVE  TypeOK'
<1> DEFINE new == [db["commerce"] EXCEPT !.until = Extend(@, 1), !.mall = TRUE]
<1>1. Extend(db["commerce"].until, 1) \in Nat
  BY JobTypes, ExtendType DEF Row
<1>2. new \in Row
  BY <1>1, JobTypes DEF Row
<1>3. Save(r, In(r), job[r].of, "commerce", new, "done") /\ UNCHANGED tables
  BY DEF ActivateAddon
<1> HIDE DEF new
<1> QED
  BY <1>2, <1>3, JobTypes, SaveTypes, TablesTyped DEF Rows, Labels

LEMMA CommissionTypes ==
  ASSUME WorkspaceAssumption, TypeOK, NEW r \in Requests,
         LookForCommission(r) \/ EarnCommission(r)
  PROVE  TypeOK'
<1>1. {"done", "again", "earn"} \subseteq Labels
  BY DEF Labels
<1>2. CASE LookForCommission(r)
  BY <1>1, <1>2, GoOnTypes, TablesTyped DEF LookForCommission, AfterPaid
<1>3. CASE EarnCommission(r)
  <2>1. PICK p \in job[r].of : EarnCommission(r)!(p)
    BY <1>3 DEF EarnCommission
  <2>2. commissions' \in [Payments -> Nat]
    BY <2>1, JobTypes DEF TypeOK
  <2> QED
    BY <1>1, <2>1, <2>2, GoOnTypes DEF AfterPaid, TypeOK
<1> QED
  BY <1>2, <1>3

LEMMA SeeActiveTypes ==
  ASSUME WorkspaceAssumption, TypeOK, NEW r \in Requests, SeeActive(r)
  PROVE  TypeOK'
<1> DEFINE new == [db["tenant"] EXCEPT !.active = TRUE]
<1>1. new \in Row
  BY JobTypes DEF Row
<1>2. AfterActive(r) \in Labels
  BY DEF AfterActive, Labels
<1>3. GoOn(r, AfterActive(r)) \/ Save(r, In(r), job[r].of, "tenant", new, AfterActive(r))
  BY DEF SeeActive
<1>4. UNCHANGED tables
  BY DEF SeeActive
<1> HIDE DEF new
<1> QED
  BY <1>1, <1>2, <1>3, <1>4, JobTypes, GoOnTypes, SaveTypes, TablesTyped DEF Rows

LEMMA RejectTypes ==
  ASSUME WorkspaceAssumption, TypeOK, NEW r \in Requests, Reject(r)
  PROVE  TypeOK'
<1>1. PICK p \in Payments : Reject(r)!(p)
  BY DEF Reject
<1> DEFINE new == [db[p] EXCEPT !.status = "rejected"]
<1>2. new \in Row /\ p \in Rows
  BY JobTypes DEF Row
<1>3. Save(r, "reject", {p}, p, new, "done") /\ UNCHANGED tables
  BY <1>1
<1> HIDE DEF new
<1> QED
  BY <1>2, <1>3, SaveTypes, TablesTyped DEF Labels, AllKinds

LEMMA SaveTenantTypes ==
  ASSUME TypeOK, NEW r \in Requests, NEW kind \in AllKinds, NEW new \in Row,
         SaveTenant(r, kind, new)
  PROVE  TypeOK'
BY SaveTypes, TablesTyped DEF SaveTenant, Rows, Labels

LEMMA TenantTypes ==
  ASSUME WorkspaceAssumption, TypeOK, NEW r \in Requests,
         ActivateLicence(r) \/ SaveSettings(r) \/ Pause(r)
  PROVE  TypeOK'
<1>1. db["tenant"] \in Row /\ Billing \in Keys
  BY JobTypes DEF WorkspaceAssumption
<1>2. Extend(db["tenant"].ends, 1) \in Nat
  BY <1>1, ExtendType DEF Row
<1> DEFINE given == [db["tenant"] EXCEPT !.ends = Extend(@, 1), !.active = TRUE,
                                         !.settings[Billing] = @ + 1]
           changed(k) == [db["tenant"] EXCEPT !.settings[k] = @ + 1]
           paused == [db["tenant"] EXCEPT !.active = FALSE]
<1>3. given \in Row /\ paused \in Row /\ \A k \in Keys : changed(k) \in Row
  BY <1>1, <1>2, RowTypes
<1>4. \/ SaveTenant(r, "activate", given) \/ SaveTenant(r, "pause", paused)
      \/ \E k \in Keys : SaveTenant(r, "settings", changed(k))
  BY DEF ActivateLicence, SaveSettings, Pause
<1> HIDE DEF given, changed, paused
<1> QED
  BY <1>3, <1>4, SaveTenantTypes DEF AllKinds

LEMMA PatchTypes ==
  ASSUME WorkspaceAssumption, TypeOK, NEW r \in Requests, PatchSettings(r)
  PROVE  TypeOK'
<1>1. PICK on \in BOOLEAN : PatchSettings(r)!(on)
  BY DEF PatchSettings
<1> DEFINE new == [db["commerce"] EXCEPT !.mall = on]
<1>2. new \in Row
  BY JobTypes DEF Row
<1>3. Save(r, "mall", {}, "commerce", new, "done") /\ UNCHANGED tables
  BY <1>1
<1> HIDE DEF new
<1> QED
  BY <1>2, <1>3, SaveTypes, TablesTyped DEF Rows, Labels, AllKinds

LEMMA WriteTypes ==
  ASSUME WorkspaceAssumption, TypeOK, NEW r \in Requests, WriteRow(r)
  PROVE  TypeOK'
<1>1. Written(dirty[r], copy[r], db[job[r].row]) \in Row
  BY JobTypes, WrittenType DEF TypeOK
<1>2. db' \in [Rows -> Row]
  BY <1>1, JobTypes DEF WriteRow, TypeOK
<1>3. applied' \in [Payments -> Nat] /\ grants' \in Nat
  BY DEF WriteRow, TypeOK
<1> QED
  BY <1>2, <1>3, JobTypes, GoOnTypes DEF WriteRow, TypeOK

LEMMA TypeStep ==
  ASSUME WorkspaceAssumption, TypeOK, [Next]_vars
  PROVE  TypeOK'
<1>1. CASE UNCHANGED vars
  BY <1>1 DEF TypeOK, vars, locals
<1>2. ASSUME NEW r \in Requests, Submit(r)  PROVE TypeOK'
  BY <1>2, BeginTypes, TablesTyped DEF Submit, AllKinds, Labels
<1>3. ASSUME NEW r \in Requests, Approve(r)  PROVE TypeOK'
  BY <1>3, BeginTypes, TablesTyped DEF Approve, MarkPaid, AllKinds, Labels
<1>4. ASSUME NEW r \in Requests, HandOutForm(r)  PROVE TypeOK'
  BY <1>4, EndTypes, JobTypes DEF HandOutForm, TypeOK
<1>5. ASSUME NEW r \in Requests, LoadForSave(r)  PROVE TypeOK'
  BY <1>5 DEF LoadForSave, TypeOK, Goto, Labels, tables
<1>6. CASE MonthPasses
  BY <1>6 DEF MonthPasses, TypeOK, locals
<1>7. CASE Crash
  <2>1. pc' \in [Requests -> Labels] /\ crashes' \in Nat
    BY <1>7 DEF Crash, TypeOK, Labels
  <2> QED
    BY <1>7, <2>1, Blanks DEF Crash, TypeOK
<1> QED
  BY <1>1, <1>2, <1>3, <1>4, <1>5, <1>6, <1>7, EnterTypes, ReturnTypes, ExtendPlanTypes,
     SettleTypes, ActivateAddonTypes, CommissionTypes, SeeActiveTypes, RejectTypes,
     TenantTypes, PatchTypes, WriteTypes DEF Next, Start, Step

LEMMA InitTypes ==
  ASSUME Init
  PROVE  TypeOK
BY Blanks DEF Init, TypeOK, Labels

-----------------------------------------------------------------------------
(* The inductive invariant: what each call knows of its payments.             *)

Applied(p) == applied[p] > 0
PlanApplied(p) == ~Addon(p) /\ Applied(p)
AddonPaid(p) == Addon(p) /\ db[p].status = "paid"

\* Where a call stands: before its plan is extended, after, or with its add-on paid.
Reached(r, label) ==
  /\ label = "tenant" => \A p \in job[r].of : ~Addon(p)
  /\ label \in {"payment", "commission", "earn", "again", "confirm"} =>
       \A p \in job[r].of : PlanApplied(p)
  /\ label = "commerce" => \A p \in job[r].of : AddonPaid(p)

\* A payment's row is saved as paid only once its plan is applied; an add-on's is not
\* saved in any other way.
SavesPayment(r) ==
  job[r].row \in Payments =>
    IF Addon(job[r].row) THEN copy[r].status = "paid"
    ELSE copy[r].status = "paid" => Applied(job[r].row)

\* Where a save goes on, and so what the write of its row is to make true.
SavesFor(r) ==
  /\ job[r].next \in {"payment", "commission", "confirm", "commerce", "done"}
  /\ job[r].next = "payment" =>
       job[r].row = "tenant" /\ \A p \in job[r].of : ~Addon(p)
  /\ job[r].next \in {"commission", "confirm"} => \A p \in job[r].of : PlanApplied(p)
  /\ job[r].next = "commerce" => /\ job[r].row \in Payments /\ Addon(job[r].row)
                                 /\ job[r].of = {job[r].row}
  /\ job[r].row = "commerce" /\ In(r) = "return" => \A p \in job[r].of : AddonPaid(p)

\* A column that is not to be written has the value of the copy already.
LeavesAsPaid(r) ==
  job[r].row \in Payments /\ Addon(job[r].row) /\ "status" \notin dirty[r] =>
    db[job[r].row].status = "paid"

Local(r) ==
  /\ Reached(r, pc[r])
  /\ pc[r] \in {"load", "write"} => SavesPayment(r) /\ SavesFor(r)
  /\ pc[r] = "write" => LeavesAsPaid(r)

\* An add-on's payment is never a screenshot's, to be approved or rejected.
AddonStatus ==
  \A p \in Payments : Addon(p) => db[p].status \in {"none", "created", "paid"}

Tables == AddonStatus /\ PaidIsApplied /\ AddonWasPaid
Locals == \A r \in Requests : Local(r)
IInv == TypeOK /\ Tables /\ Locals

-----------------------------------------------------------------------------
(* Frames. *)

OthersKept(r) ==
  \A q \in Requests \ {r} : /\ pc'[q] = pc[q] /\ job'[q] = job[q]
                            /\ copy'[q] = copy[q] /\ dirty'[q] = dirty[q]

\* No payment is taken back.
PaymentsStay ==
  /\ \A p \in Payments : Applied(p) => Applied(p)'
  /\ \A p \in Payments : AddonPaid(p) => AddonPaid(p)'

LEMMA LocalsKept ==
  ASSUME TypeOK, Locals, NEW r \in Requests, OthersKept(r), PaymentsStay, Local(r)'
  PROVE  Locals'
<1> SUFFICES ASSUME NEW q \in Requests, q # r  PROVE Local(q)'
  BY DEF Locals
<1>1. /\ pc'[q] = pc[q] /\ job'[q] = job[q] /\ copy'[q] = copy[q] /\ dirty'[q] = dirty[q]
  BY DEF OthersKept
<1>2. job[q].of \subseteq Payments /\ Local(q)
  BY JobTypes DEF Locals
<1>3. \A p \in Payments : PlanApplied(p) => PlanApplied(p)'
  BY DEF PlanApplied, PaymentsStay
<1>4. Reached(q, pc[q])'
  BY <1>1, <1>2, <1>3 DEF Local, Reached, PaymentsStay
<1>5. ASSUME pc[q] \in {"load", "write"}  PROVE SavesPayment(q)' /\ SavesFor(q)'
  BY <1>1, <1>2, <1>3, <1>5 DEF Local, SavesPayment, SavesFor, In, PaymentsStay
<1>6. ASSUME pc[q] = "write"  PROVE LeavesAsPaid(q)'
  BY <1>1, <1>2, <1>6 DEF Local, LeavesAsPaid, PaymentsStay, AddonPaid
<1> QED
  BY <1>1, <1>4, <1>5, <1>6 DEF Local

LEMMA TablesKept ==
  ASSUME TypeOK, Tables, UNCHANGED <<db, applied>>
  PROVE  Tables' /\ PaymentsStay
BY DEF Tables, AddonStatus, PaidIsApplied, AddonWasPaid, PaymentsStay, Applied, AddonPaid

LEMMA EndLocal ==
  ASSUME TypeOK, NEW r \in Requests, End(r)
  PROVE  OthersKept(r) /\ Local(r)'
<1>1. pc'[r] = "done" /\ OthersKept(r)
  BY DEF End, Goto, TypeOK, OthersKept
<1> QED
  BY <1>1 DEF Local, Reached

LEMMA GoOnLocal ==
  ASSUME TypeOK, NEW r \in Requests, NEW label \in Labels \ {"load", "write"}, GoOn(r, label),
         job'[r] = job[r] => Reached(r, label)'
  PROVE  OthersKept(r) /\ Local(r)'
<1>1. CASE label = "done"
  BY <1>1, EndLocal DEF GoOn
<1>2. CASE label # "done"
  <2>1. pc'[r] = label /\ job'[r] = job[r] /\ OthersKept(r)
    BY <1>2 DEF GoOn, Goto, TypeOK, OthersKept, locals
  <2> QED
    BY <2>1 DEF Local
<1> QED
  BY <1>1, <1>2

LEMMA BeginLocal ==
  ASSUME TypeOK, NEW r \in Requests, NEW kind, NEW ps \in SUBSET Payments,
         NEW label \in {"form", "insert", "tenant"}, Begin(r, kind, ps, label),
         label = "tenant" => \A p \in ps : ~Addon(p)
  PROVE  OthersKept(r) /\ Local(r)'
<1>1. pc'[r] = label /\ job'[r].of = ps /\ OthersKept(r)
  BY DEF Begin, Goto, TypeOK, OthersKept, NoJob
<1> QED
  BY <1>1 DEF Local, Reached

LEMMA SaveSets ==
  ASSUME TypeOK, NEW r \in Requests, NEW kind, NEW ps, NEW row, NEW new, NEW next,
         Save(r, kind, ps, row, new, next)
  PROVE  /\ job'[r].kind = kind /\ job'[r].of = ps /\ job'[r].row = row
         /\ job'[r].next = next
         /\ copy'[r] = new /\ pc'[r] = "load" /\ OthersKept(r)
BY DEF Save, Goto, TypeOK, OthersKept

\* A save of a row that is no payment's, after which nothing more is to be done.
LEMMA PlainSave ==
  ASSUME WorkspaceAssumption, TypeOK, NEW r \in Requests, NEW kind, NEW ps, NEW row \in {"tenant", "commerce"},
         NEW new, Save(r, kind, ps, row, new, "done"),
         row = "commerce" => kind # "return"
  PROVE  OthersKept(r) /\ Local(r)'
<1>1. row \notin Payments
  BY DEF WorkspaceAssumption
<1>2. SavesPayment(r)' /\ SavesFor(r)' /\ pc'[r] = "load" /\ OthersKept(r)
  BY <1>1, SaveSets DEF SavesPayment, SavesFor, In
<1> QED
  BY <1>2 DEF Local, Reached

\* What is left to show of a step that reads and prepares.
LEMMA ReadKeeps ==
  ASSUME IInv, NEW r \in Requests, UNCHANGED tables, OthersKept(r), Local(r)'
  PROVE  Tables' /\ Locals'
BY TablesKept, LocalsKept DEF IInv, tables

-----------------------------------------------------------------------------
(* The steps. *)

\* A payment is entered in a row that had none.
LEMMA EnterKeeps ==
  ASSUME WorkspaceAssumption, IInv, NEW r \in Requests, NEW p \in Payments,
         NEW s \in {"created", "waiting"}, s = "waiting" => ~Addon(p),
         db[p].status = "none", Entered(p, s), UNCHANGED applied,
         OthersKept(r), Local(r)'
  PROVE  Tables' /\ Locals'
<1>1. db'[p].status = s /\ \A q \in Payments : q # p => db'[q] = db[q]
  BY DEF Entered, IInv, TypeOK, Rows, Fresh
<1>2. PaymentsStay
  BY <1>1 DEF PaymentsStay, Applied, AddonPaid
<1>3. Tables'
  BY <1>1 DEF IInv, Tables, AddonStatus, PaidIsApplied, AddonWasPaid
<1> QED
  BY <1>2, <1>3, LocalsKept DEF IInv

LEMMA CheckoutKeeps ==
  ASSUME WorkspaceAssumption, IInv, NEW r \in Requests, Checkout(r)
  PROVE  Tables' /\ Locals'
<1>1. PICK p \in Payments : Checkout(r)!(p)
  BY DEF Checkout
<1>2. OthersKept(r) /\ Local(r)'
  BY <1>1, BeginLocal DEF IInv
<1> QED
  BY <1>1, <1>2, EnterKeeps

LEMMA OfflineKeeps ==
  ASSUME WorkspaceAssumption, IInv, NEW r \in Requests, RecordOfflinePayment(r)
  PROVE  Tables' /\ Locals'
<1>1. PICK p \in Payments : RecordOfflinePayment(r)!(p)
  BY DEF RecordOfflinePayment
<1>2. OthersKept(r) /\ Local(r)'
  BY <1>1, BeginLocal DEF IInv, Addon
<1> QED
  BY <1>1, <1>2, EnterKeeps

LEMMA ProofKeeps ==
  ASSUME WorkspaceAssumption, IInv, NEW r \in Requests, InsertProof(r)
  PROVE  Tables' /\ Locals'
<1>1. PICK p \in Payments : InsertProof(r)!(p)
  BY DEF InsertProof
<1>2. OthersKept(r) /\ Local(r)'
  BY <1>1, EndLocal DEF IInv
<1> QED
  BY <1>1, <1>2, EnterKeeps DEF Addon

\* The two ways a payment's row is saved as paid.
LEMMA SettleLocal ==
  ASSUME WorkspaceAssumption, TypeOK, NEW r \in Requests, NEW kind, NEW p \in Payments,
         NEW next \in {"commission", "commerce", "done"},
         Save(r, kind, {p}, p, SettlePaid(p), next), UNCHANGED tables,
         IF next = "commerce" THEN Addon(p) ELSE PlanApplied(p)
  PROVE  OthersKept(r) /\ Local(r)'
<1>1. /\ job'[r].row = p /\ job'[r].of = {p} /\ job'[r].next = next /\ pc'[r] = "load"
      /\ copy'[r].status = "paid" /\ OthersKept(r)
  BY SaveSets, Blanks DEF SettlePaid, Row, Fresh
<1>2. p # "commerce" /\ p # "tenant"
  BY DEF WorkspaceAssumption
<1>3. PlanApplied(p) => PlanApplied(p)' /\ Applied(p)'
  BY DEF PlanApplied, Applied, tables
<1>4. SavesPayment(r)'
  BY <1>1, <1>3 DEF SavesPayment, PlanApplied
<1>5. SavesFor(r)'
  BY <1>1, <1>2, <1>3 DEF SavesFor
<1> QED
  BY <1>1, <1>4, <1>5 DEF Local, Reached

LEMMA ReturnKeeps ==
  ASSUME WorkspaceAssumption, IInv, NEW r \in Requests, PayuReturn(r)
  PROVE  Tables' /\ Locals'
<1>1. PICK p \in forms : PayuReturn(r)!(p)
  BY DEF PayuReturn
<1>2. p \in Payments
  BY DEF IInv, TypeOK
<1>3. CASE End(r)
  BY <1>1, <1>3, EndLocal, ReadKeeps DEF IInv
<1>4. CASE ~Addon(p) /\ Begin(r, "return", {p}, MarkPaid)
  BY <1>1, <1>2, <1>4, BeginLocal, ReadKeeps DEF IInv, MarkPaid
<1>5. CASE Addon(p) /\ MarkAddonPaid(r, p)
  BY <1>1, <1>2, <1>5, SettleLocal, ReadKeeps DEF IInv, MarkAddonPaid
<1> QED
  BY <1>1, <1>3, <1>4, <1>5

LEMMA ApproveKeeps ==
  ASSUME WorkspaceAssumption, IInv, NEW r \in Requests, Approve(r)
  PROVE  Tables' /\ Locals'
<1>1. PICK p \in Payments : Approve(r)!(p)
  BY DEF Approve
<1>2. ~Addon(p)
  BY <1>1 DEF IInv, Tables, AddonStatus
<1> QED
  BY <1>1, <1>2, BeginLocal, ReadKeeps DEF IInv, MarkPaid

LEMMA RejectKeeps ==
  ASSUME WorkspaceAssumption, IInv, NEW r \in Requests, Reject(r)
  PROVE  Tables' /\ Locals'
<1>1. PICK p \in Payments : Reject(r)!(p)
  BY DEF Reject
<1>2. ~Addon(p)
  BY <1>1 DEF IInv, Tables, AddonStatus
<1>3. /\ job'[r].row = p /\ job'[r].of = {p} /\ job'[r].next = "done" /\ pc'[r] = "load"
      /\ copy'[r] = [db[p] EXCEPT !.status = "rejected"] /\ OthersKept(r)
  BY <1>1, SaveSets DEF IInv
<1>4. copy'[r].status = "rejected"
  BY <1>3, JobTypes DEF IInv, Row
<1>5. p # "commerce"
  BY DEF WorkspaceAssumption
<1>6. Local(r)'
  BY <1>2, <1>3, <1>4, <1>5 DEF Local, Reached, SavesPayment, SavesFor
<1> QED
  BY <1>1, <1>3, <1>6, ReadKeeps

LEMMA PlainKeeps ==
  ASSUME WorkspaceAssumption, IInv, NEW r \in Requests,
         ActivateLicence(r) \/ SaveSettings(r) \/ Pause(r) \/ PatchSettings(r)
  PROVE  Tables' /\ Locals'
<1>1. PICK kind \in {"activate", "settings", "pause", "mall"}, row \in {"tenant", "commerce"} :
        \E new : Save(r, kind, {}, row, new, "done") /\ UNCHANGED tables
  BY DEF ActivateLicence, SaveSettings, Pause, PatchSettings, SaveTenant
<1> QED
  BY <1>1, PlainSave, ReadKeeps DEF IInv

LEMMA ExtendKeeps ==
  ASSUME WorkspaceAssumption, IInv, NEW r \in Requests, ExtendPlan(r)
  PROVE  Tables' /\ Locals'
<1>1. PICK p \in job[r].of : \E new : /\ pc[r] = "tenant"
                                     /\ Save(r, In(r), {p}, "tenant", new, "payment")
                                     /\ UNCHANGED tables
  BY DEF ExtendPlan
<1>2. ~Addon(p)
  BY <1>1 DEF IInv, Locals, Local, Reached
<1>3. "tenant" \notin Payments
  BY DEF WorkspaceAssumption
<1>4. /\ job'[r].row = "tenant" /\ job'[r].of = {p} /\ job'[r].next = "payment"
      /\ pc'[r] = "load" /\ OthersKept(r)
  BY <1>1, SaveSets DEF IInv
<1>5. Local(r)'
  BY <1>2, <1>3, <1>4 DEF Local, Reached, SavesPayment, SavesFor
<1> QED
  BY <1>1, <1>4, <1>5, ReadKeeps

LEMMA SettleKeeps ==
  ASSUME WorkspaceAssumption, IInv, NEW r \in Requests, SettlePayment(r) \/ ConfirmApproval(r)
  PROVE  Tables' /\ Locals'
<1>1. PICK p \in job[r].of : /\ pc[r] \in {"payment", "confirm"}
                             /\ \/ Save(r, In(r), {p}, p, SettlePaid(p), "commission")
                                \/ Save(r, In(r), {p}, p, SettlePaid(p), "done")
                             /\ UNCHANGED tables
  BY DEF SettlePayment, ConfirmApproval
<1>2. p \in Payments /\ PlanApplied(p)
  BY <1>1, JobTypes DEF IInv, Locals, Local, Reached
<1> QED
  BY <1>1, <1>2, SettleLocal, ReadKeeps DEF IInv

LEMMA ActivateAddonKeeps ==
  ASSUME WorkspaceAssumption, IInv, NEW r \in Requests, ActivateAddon(r)
  PROVE  Tables' /\ Locals'
<1>1. PICK new : Save(r, In(r), job[r].of, "commerce", new, "done")
  BY DEF ActivateAddon
<1>2. pc[r] = "commerce" /\ UNCHANGED tables
  BY DEF ActivateAddon
<1>3. \A p \in job[r].of : AddonPaid(p) /\ AddonPaid(p)'
  BY <1>2 DEF IInv, Locals, Local, Reached, AddonPaid, tables
<1>4. /\ job'[r].row = "commerce" /\ job'[r].of = job[r].of /\ job'[r].next = "done"
      /\ pc'[r] = "load" /\ OthersKept(r)
  BY <1>1, SaveSets DEF IInv
<1>5. "commerce" \notin Payments
  BY DEF WorkspaceAssumption
<1>6. Local(r)'
  BY <1>3, <1>4, <1>5 DEF Local, Reached, SavesPayment, SavesFor
<1> QED
  BY <1>2, <1>4, <1>6, ReadKeeps

LEMMA CommissionKeeps ==
  ASSUME WorkspaceAssumption, IInv, NEW r \in Requests,
         LookForCommission(r) \/ EarnCommission(r)
  PROVE  Tables' /\ Locals'
<1>1. PICK label \in {"done", "again", "earn"} :
        /\ pc[r] \in {"commission", "earn"} /\ GoOn(r, label)
        /\ UNCHANGED <<db, applied>>
  BY DEF LookForCommission, EarnCommission, AfterPaid, tables
<1>2. \A p \in job[r].of : PlanApplied(p) /\ PlanApplied(p)'
  BY <1>1 DEF IInv, Locals, Local, Reached, PlanApplied, Applied
<1>3. OthersKept(r) /\ Local(r)'
  BY <1>1, <1>2, GoOnLocal DEF IInv, Reached, Labels
<1> QED
  BY <1>1, <1>3, TablesKept, LocalsKept DEF IInv

LEMMA SeeActiveKeeps ==
  ASSUME WorkspaceAssumption, IInv, NEW r \in Requests, SeeActive(r)
  PROVE  Tables' /\ Locals'
<1>1. PICK label \in {"confirm", "done"} :
        /\ \/ GoOn(r, label)
           \/ \E new : Save(r, In(r), job[r].of, "tenant", new, label)
        /\ pc[r] = "again" /\ UNCHANGED tables
  BY DEF SeeActive, AfterActive
<1>2. \A p \in job[r].of : PlanApplied(p) /\ PlanApplied(p)'
  BY <1>1 DEF IInv, Locals, Local, Reached, PlanApplied, Applied, tables
<1>3. CASE GoOn(r, label)
  <2>1. OthersKept(r) /\ Local(r)'
    BY <1>1, <1>2, <1>3, GoOnLocal DEF IInv, Reached, Labels
  <2> QED
    BY <1>1, <2>1, ReadKeeps
<1>4. CASE \E new : Save(r, In(r), job[r].of, "tenant", new, label)
  <2>1. /\ job'[r].row = "tenant" /\ job'[r].of = job[r].of /\ job'[r].next = label
        /\ pc'[r] = "load" /\ OthersKept(r)
    BY <1>4, SaveSets DEF IInv
  <2>2. "tenant" \notin Payments
    BY DEF WorkspaceAssumption
  <2>3. Local(r)'
    BY <1>2, <2>1, <2>2 DEF Local, Reached, SavesPayment, SavesFor
  <2> QED
    BY <1>1, <2>1, <2>3, ReadKeeps
<1> QED
  BY <1>1, <1>3, <1>4

\* A column the copy does not differ in has its value already.
LEMMA LoadKeeps ==
  ASSUME WorkspaceAssumption, IInv, NEW r \in Requests, LoadForSave(r)
  PROVE  Tables' /\ Locals'
<1>1. /\ pc[r] = "load" /\ pc'[r] = "write" /\ job'[r] = job[r] /\ copy'[r] = copy[r]
      /\ dirty'[r] = {c \in Columns : copy[r][c] # db[job[r].row][c]}
      /\ UNCHANGED tables /\ OthersKept(r)
  BY DEF LoadForSave, Goto, OthersKept, IInv, TypeOK
<1>2. SavesPayment(r) /\ SavesFor(r)
  BY <1>1 DEF IInv, Locals, Local
<1>3. SavesPayment(r)' /\ SavesFor(r)'
  BY <1>1, <1>2 DEF SavesPayment, SavesFor, In, PlanApplied, Applied, AddonPaid, tables
<1>4. LeavesAsPaid(r)'
  BY <1>1, <1>2 DEF LeavesAsPaid, SavesPayment, Columns, tables
<1>5. Local(r)'
  BY <1>1, <1>3, <1>4 DEF Local, Reached
<1> QED
  BY <1>1, <1>5, ReadKeeps

\* The write of a row: it extends what was paid for, settles a payment, and takes no
\* payment back.
LEMMA WriteKeeps ==
  ASSUME WorkspaceAssumption, IInv, NEW r \in Requests, WriteRow(r)
  PROVE  Tables' /\ Locals'
<1> DEFINE row == job[r].row
           ps == job[r].of
           paid == "status" \in dirty[r]
<1>1. /\ pc[r] = "write" /\ GoOn(r, job[r].next)
      /\ db' = [db EXCEPT ![row] = Written(dirty[r], copy[r], @)]
      /\ applied' = [p \in Payments |->
           IF Applies(r) /\ p \in ps THEN applied[p] + 1 ELSE applied[p]]
  BY DEF WriteRow
<1>2. SavesPayment(r) /\ SavesFor(r) /\ LeavesAsPaid(r)
  BY <1>1 DEF IInv, Locals, Local
<1>3. row \in Rows /\ ps \subseteq Payments /\ "tenant" \notin Payments /\ "commerce" \notin Payments
  BY JobTypes DEF IInv, WorkspaceAssumption
<1>4. \A p \in Payments :
        db'[p].status = IF p = row /\ paid THEN copy[r].status ELSE db[p].status
  BY <1>1, <1>3 DEF IInv, TypeOK, Written, Rows
<1>5. \A p \in Payments : Applied(p) => Applied(p)'
  BY <1>1 DEF Applied, IInv, TypeOK
<1>6. \A p \in Payments : AddonPaid(p) => AddonPaid(p)'
  BY <1>2, <1>4 DEF AddonPaid, Addon, SavesPayment
<1>7. AddonStatus'
  BY <1>2, <1>4 DEF AddonStatus, Addon, SavesPayment, IInv, Tables
<1>8. PaidIsApplied'
  <2> SUFFICES ASSUME NEW p \in Payments, ~Addon(p), db'[p].status = "paid"
               PROVE  Applied(p)'
    BY DEF PaidIsApplied, Addon, Applied
  <2>1. Applied(p)
    BY <1>2, <1>4 DEF SavesPayment, IInv, Tables, PaidIsApplied, Applied
  <2> QED
    BY <2>1, <1>5
<1>9. AddonWasPaid'
  <2> SUFFICES ASSUME NEW p \in Payments, Addon(p), applied'[p] > 0
               PROVE  AddonPaid(p)'
    BY DEF AddonWasPaid, Addon, AddonPaid
  <2>1. CASE applied[p] > 0
    BY <2>1, <1>6 DEF IInv, Tables, AddonWasPaid, AddonPaid
  <2>2. CASE Applies(r) /\ p \in ps
    BY <2>2, <1>2, <1>6 DEF Applies, SavesFor
  <2> QED
    BY <1>1, <2>1, <2>2
<1>10. job'[r] = job[r] => Reached(r, job[r].next)'
  <2> SUFFICES ASSUME job'[r] = job[r]
               PROVE  /\ job[r].next \in {"payment", "commission", "confirm"} =>
                           \A p \in ps : PlanApplied(p)'
                      /\ job[r].next = "commerce" => \A p \in ps : AddonPaid(p)'
    BY <1>2 DEF Reached, SavesFor
  <2>1. ASSUME job[r].next = "payment", NEW p \in ps  PROVE PlanApplied(p)'
    <3>1. ~Addon(p) /\ Applies(r) /\ p \in Payments
      BY <1>2, <1>3, <2>1 DEF SavesFor, Applies
    <3>2. applied'[p] = applied[p] + 1 /\ applied[p] \in Nat
      BY <1>1, <3>1 DEF IInv, TypeOK
    <3> QED
      BY <3>1, <3>2 DEF PlanApplied, Applied, Addon
  <2>2. ASSUME job[r].next \in {"commission", "confirm"}, NEW p \in ps  PROVE PlanApplied(p)'
    BY <1>2, <1>3, <1>5, <2>2 DEF SavesFor, PlanApplied, Addon
  <2>3. ASSUME job[r].next = "commerce"  PROVE \A p \in ps : AddonPaid(p)'
    <3>1. row \in Payments /\ Addon(row) /\ ps = {row}
      BY <1>2, <2>3 DEF SavesFor
    <3>2. db'[row].status = "paid"
      BY <1>2, <1>4, <3>1 DEF SavesPayment, LeavesAsPaid
    <3> QED
      BY <3>1, <3>2 DEF AddonPaid, Addon
  <2> QED
    BY <2>1, <2>2, <2>3
<1>11. job[r].next \in Labels \ {"load", "write"}
  BY <1>2 DEF SavesFor, Labels
<1>12. OthersKept(r) /\ Local(r)'
  BY <1>1, <1>10, <1>11, GoOnLocal DEF IInv
<1> QED
  BY <1>5, <1>6, <1>7, <1>8, <1>9, <1>12, LocalsKept DEF IInv, Tables, PaymentsStay

LEMMA CrashKeeps ==
  ASSUME IInv, Crash
  PROVE  Tables' /\ Locals'
<1>1. Tables'
  BY TablesKept DEF IInv, Crash
<1>2. \A r \in Requests : pc'[r] \in {"idle", "done"}
  BY DEF Crash, Running
<1>3. Locals'
  BY <1>2 DEF Locals, Local, Reached
<1> QED
  BY <1>1, <1>3

\* A step that touches no row of the tables and no local variable that matters.
LEMMA StillKeeps ==
  ASSUME IInv, UNCHANGED <<db, applied, pc, locals>>
  PROVE  Tables' /\ Locals'
<1>1. Tables' /\ PaymentsStay
  BY TablesKept DEF IInv
<1>2. Locals'
  BY DEF IInv, Locals, Local, Reached, SavesPayment, SavesFor, LeavesAsPaid, In, Applied,
         PlanApplied, AddonPaid, locals
<1> QED
  BY <1>1, <1>2

-----------------------------------------------------------------------------

LEMMA Initial ==
  ASSUME Init
  PROVE  IInv
<1>1. TypeOK
  BY InitTypes
<1>2. Tables
  BY DEF Init, Tables, AddonStatus, PaidIsApplied, AddonWasPaid, Rows, Fresh
<1>3. Locals
  BY DEF Init, Locals, Local, Reached
<1> QED
  BY <1>1, <1>2, <1>3 DEF IInv

LEMMA Inductive ==
  ASSUME WorkspaceAssumption, IInv, [Next]_vars
  PROVE  IInv'
<1>1. TypeOK'
  BY TypeStep DEF IInv
<1>2. CASE UNCHANGED vars
  BY <1>1, <1>2, StillKeeps DEF IInv, vars
<1>3. CASE MonthPasses
  BY <1>1, <1>3, StillKeeps DEF IInv, MonthPasses
<1>4. CASE Crash
  BY <1>1, <1>4, CrashKeeps DEF IInv
<1>5. ASSUME NEW r \in Requests, Submit(r)  PROVE Tables' /\ Locals'
  BY <1>5, BeginLocal, ReadKeeps DEF IInv, Submit
<1>6. ASSUME NEW r \in Requests, HandOutForm(r)  PROVE Tables' /\ Locals'
  <2>1. OthersKept(r) /\ Local(r)'
    BY <1>6, EndLocal DEF IInv, HandOutForm
  <2>2. Tables' /\ PaymentsStay
    BY <1>6, TablesKept DEF IInv, HandOutForm
  <2> QED
    BY <2>1, <2>2, LocalsKept DEF IInv
<1>7. ASSUME NEW r \in Requests, Start(r)  PROVE Tables' /\ Locals'
  BY <1>5, <1>7, CheckoutKeeps, OfflineKeeps, ReturnKeeps, ApproveKeeps, RejectKeeps, PlainKeeps
     DEF Start
<1>8. ASSUME NEW r \in Requests, Step(r)  PROVE Tables' /\ Locals'
  BY <1>6, <1>8, ProofKeeps, ExtendKeeps, SettleKeeps, ActivateAddonKeeps, CommissionKeeps,
     SeeActiveKeeps, LoadKeeps, WriteKeeps DEF Step
<1> QED
  BY <1>1, <1>2, <1>3, <1>4, <1>7, <1>8 DEF IInv, Next

\* Every column keeps its range, whatever overlaps.
THEOREM WorkspaceTypeCorrect == Spec => []TypeOK
<1>1. TypeOK /\ [Next]_vars => TypeOK'
  BY WorkspaceAssumption, TypeStep
<1> QED
  BY <1>1, InitTypes, PTL DEF Spec

\* Every state keeps the inductive invariant.
THEOREM WorkspaceInvariance == Spec => []IInv
<1>1. IInv /\ [Next]_vars => IInv'
  BY WorkspaceAssumption, Inductive
<1> QED
  BY <1>1, Initial, PTL DEF Spec

\* A plan's payment that stands as paid has extended the workspace: markPaid saves the
\* tenant before the payment, so neither a restart between the two saves nor an overlap
\* of returns and approvals leaves a customer who paid without what was paid for.
THEOREM PaidPlansAreApplied == Spec => []PaidIsApplied
<1>1. IInv => PaidIsApplied
  BY DEF IInv, Tables
<1> QED
  BY <1>1, WorkspaceInvariance, PTL

\* An add-on that was extended stands as paid for ever after: markAddonPaymentPaid saves
\* the payment before the settings, and no later save of that row undoes it.
THEOREM AddonsWerePaid == Spec => []AddonWasPaid
<1>1. IInv => AddonWasPaid
  BY DEF IInv, Tables
<1> QED
  BY <1>1, WorkspaceInvariance, PTL

=============================================================================
