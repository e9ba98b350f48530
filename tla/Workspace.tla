------------------------------ MODULE Workspace ------------------------------
(***************************************************************************)
(* A workspace's licence: the rows of tenants, tenant_commerce_settings    *)
(* and tenant_subscription_payments, and the handlers that change them.    *)
(* Each reads a row, changes the copy and saves it, with other awaits in   *)
(* between and no lock; a payment takes several such saves.                *)
(*                                                                         *)
(* A definition may stand just after a faulty form of it, which no action  *)
(* uses: a slip of the code that must break a property.                    *)
(***************************************************************************)
EXTENDS Integers, FiniteSets

CONSTANTS
  Payments,     \* rows of tenant_subscription_payments
  Route,        \* Route[p]: "payu", "proof" (a screenshot), "desk" (offline) or "addon"
  Months,       \* Months[p]: INTERVAL_MONTHS of the payment's interval
  Keys,         \* keys of tenants.settings
  Billing,      \* the key that payments write
  Requests,     \* HTTP calls, each served at most once
  Kinds,        \* the handlers that may be called, a subset of AllKinds
  Apart,        \* bound: pairs of kinds (or a single kind) that never overlap
  MaxMonth,     \* bound: months counted
  MaxInFlight,  \* bound: handlers running at the same time
  MaxCrashes    \* bound: restarts of the server

AllKinds == {"checkout", "submit", "return", "approve", "reject", "offline", "activate",
             "settings", "pause", "mall"}

ASSUME WorkspaceAssumption ==
  /\ Payments \cap {"tenant", "commerce"} = {}
  /\ Route \in [Payments -> {"payu", "proof", "desk", "addon"}]
  /\ Months \in [Payments -> Nat]
  /\ Billing \in Keys
  /\ Kinds \subseteq AllKinds
  /\ Apart \subseteq SUBSET AllKinds
  /\ MaxMonth \in Nat /\ MaxInFlight \in Nat /\ MaxCrashes \in Nat

VARIABLES
  db,           \* the rows: "tenant", "commerce" and one for each payment
  forms,        \* the payments whose payer holds a PayU checkout form
  commissions,  \* rows of platform_commissions for each payment
  applied,      \* how often each payment extended what it pays for (kept by no table)
  grants,       \* extensions given by hand (kept by no table)
  now,          \* the month
  crashes,
  pc,
  job,          \* a handler's kind and payment, the row it saves, and where it goes on
  copy,         \* the row it is to save
  dirty         \* the columns its save is to write

locals == <<job, copy, dirty>>
vars == <<db, forms, commissions, applied, grants, now, crashes, pc, locals>>

\* One wide row stands for the three tables; a table leaves the columns of the others alone.
Columns == {"ends", "active", "settings", "status", "until", "mall"}
Row == [ends: Nat, active: BOOLEAN, settings: [Keys -> Nat], until: Nat, mall: BOOLEAN,
        status: {"none", "created", "waiting", "paid", "rejected"}]
Fresh == [ends |-> 0, active |-> TRUE, settings |-> [k \in Keys |-> 0], until |-> 0,
          mall |-> FALSE, status |-> "none"]

Rows == {"tenant", "commerce"} \cup Payments
Labels == {"idle", "insert", "form", "tenant", "payment", "commission", "earn", "again",
           "confirm", "commerce", "load", "write", "done"}
Job == [kind: AllKinds \cup {"none"}, of: SUBSET Payments, row: Rows, next: Labels]
NoJob == [kind |-> "none", of |-> {}, row |-> "tenant", next |-> "done"]

Addon(p) == Route[p] = "addon"
Running(r) == pc[r] \notin {"idle", "done"}
In(r) == job[r].kind
Goto(r, label) == pc' = [pc EXCEPT ![r] = label]
Busy == {q \in Requests : Running(q)}

Request(r, kind) ==
  /\ pc[r] = "idle" /\ kind \in Kinds
  /\ Cardinality(Busy) < MaxInFlight
  /\ \A q \in Busy : {kind, In(q)} \notin Apart

Begin(r, kind, ps, label) ==
  /\ Request(r, kind)
  /\ Goto(r, label)
  /\ job' = [job EXCEPT ![r] = [NoJob EXCEPT !.kind = kind, !.of = ps]]
  /\ UNCHANGED <<copy, dirty>>

End(r) ==
  /\ Goto(r, "done")
  /\ job'   = [job EXCEPT ![r] = NoJob]
  /\ copy'  = [copy EXCEPT ![r] = Fresh]
  /\ dirty' = [dirty EXCEPT ![r] = {}]

GoOn(r, label) == IF label = "done" THEN End(r) ELSE Goto(r, label) /\ UNCHANGED locals

\* The handler calls save with a row it read and changed, and goes on at next.
Save(r, kind, ps, row, new, next) ==
  /\ Goto(r, "load")
  /\ job' = [job EXCEPT ![r] = [kind |-> kind, of |-> ps, row |-> row, next |-> next]]
  /\ copy' = [copy EXCEPT ![r] = new]
  /\ UNCHANGED dirty

\* What a step leaves alone when it only reads and prepares a save.
tables == <<db, forms, commissions, applied, grants, now, crashes>>

-----------------------------------------------------------------------------
(* A payment is entered: createPayuCheckout and createAddonOrder, which hand  *)
(* out a form once the transaction id is saved, submitManualPaymentProof, and *)
(* recordOfflinePayment.                                                      *)

Entered(p, status) == db' = [db EXCEPT ![p] = [Fresh EXCEPT !.status = status]]

Checkout(r) == \E p \in Payments :
  /\ Route[p] \in {"payu", "addon"} /\ db[p].status = "none"
  /\ Begin(r, "checkout", {p}, "form")
  /\ Entered(p, "created")
  /\ UNCHANGED <<forms, commissions, applied, grants, now, crashes>>

HandOutForm(r) ==
  /\ pc[r] = "form"
  /\ forms' = forms \cup job[r].of
  /\ End(r)
  /\ UNCHANGED <<db, commissions, applied, grants, now, crashes>>

AProofWaits == \E p \in Payments : db[p].status = "waiting"

Submit(r) ==
  /\ ~AProofWaits
  /\ Begin(r, "submit", {}, "insert")
  /\ UNCHANGED tables

InsertProof(r) == \E p \in Payments :
  /\ pc[r] = "insert" /\ Route[p] = "proof" /\ db[p].status = "none"
  /\ Entered(p, "waiting")
  /\ End(r)
  /\ UNCHANGED <<forms, commissions, applied, grants, now, crashes>>

RecordOfflinePayment(r) == \E p \in Payments :
  /\ Route[p] = "desk" /\ db[p].status = "none"
  /\ Begin(r, "offline", {p}, "tenant")
  /\ Entered(p, "created")
  /\ UNCHANGED <<forms, commissions, applied, grants, now, crashes>>

-----------------------------------------------------------------------------
(* A payment is taken: handleReturn, approvePaymentProof, and the markPaid and *)
(* markAddonPaymentPaid they share.  A plan is extended before its payment is  *)
(* saved as paid, an add-on after.                                             *)

SettledAsConfirmed(p) == [Fresh EXCEPT !.status = "confirmed"]
SettlePaid(p) == [Fresh EXCEPT !.status = "paid"]

FromNow(end, n) == now + n
Extend(end, n) == (IF end > now THEN end ELSE now) + n

\* markPaid reads the payment, then the tenant.
SettleFirst == "payment"
MarkPaid == "tenant"

CommerceFirst(r, p) == Begin(r, "return", {p}, "commerce")
MarkAddonPaid(r, p) ==
  /\ Request(r, "return")
  /\ Save(r, "return", {p}, p, SettlePaid(p), "commerce")

PayuReturn(r) == \E p \in forms :
  /\ \/ db[p].status = "paid" /\ Request(r, "return") /\ End(r)
     \/ db[p].status # "paid" /\ ~Addon(p) /\ Begin(r, "return", {p}, MarkPaid)
     \/ db[p].status # "paid" /\ Addon(p) /\ MarkAddonPaid(r, p)
  /\ UNCHANGED tables

Approve(r) == \E p \in Payments :
  /\ db[p].status = "waiting"
  /\ Begin(r, "approve", {p}, MarkPaid)
  /\ UNCHANGED tables

ExtendPlan(r) == \E p \in job[r].of :
  /\ pc[r] = "tenant"
  /\ Save(r, In(r), {p}, "tenant",
          [db["tenant"] EXCEPT !.ends = Extend(@, Months[p]), !.active = TRUE,
                               !.settings[Billing] = @ + 1],
          "payment")
  /\ UNCHANGED tables

SettlePayment(r) == \E p \in job[r].of :
  /\ pc[r] = "payment"
  /\ Save(r, In(r), {p}, p, SettlePaid(p), "commission")
  /\ UNCHANGED tables

ActivateAddon(r) ==
  /\ pc[r] = "commerce"
  /\ Save(r, In(r), job[r].of, "commerce",
          [db["commerce"] EXCEPT !.until = Extend(@, 1), !.mall = TRUE], "done")
  /\ UNCHANGED tables

\* recordCommissionForPayment, for a workspace a partner brought.
AfterPaid(r) == GoOn(r, IF In(r) = "return" THEN "done" ELSE "again")

LookForCommission(r) == \E p \in job[r].of :
  /\ pc[r] = "commission"
  /\ IF commissions[p] > 0 THEN AfterPaid(r) ELSE GoOn(r, "earn")
  /\ UNCHANGED tables

EarnCommission(r) == \E p \in job[r].of :
  /\ pc[r] = "earn"
  /\ commissions' = [commissions EXCEPT ![p] = @ + 1]
  /\ AfterPaid(r)
  /\ UNCHANGED <<db, forms, applied, grants, now, crashes>>

\* The administrator's call sees to it that the workspace is active, if it is to.
AfterActive(r) == IF In(r) = "approve" THEN "confirm" ELSE "done"

SeeActive(r) ==
  /\ pc[r] = "again"
  /\ \/ GoOn(r, AfterActive(r))
     \/ ~db["tenant"].active
          /\ Save(r, In(r), job[r].of, "tenant",
                  [db["tenant"] EXCEPT !.active = TRUE], AfterActive(r))
  /\ UNCHANGED tables

ConfirmApproval(r) == \E p \in job[r].of :
  /\ pc[r] = "confirm"
  /\ Save(r, In(r), {p}, p, SettlePaid(p), "done")
  /\ UNCHANGED tables

Reject(r) == \E p \in Payments :
  /\ Request(r, "reject") /\ db[p].status = "waiting"
  /\ Save(r, "reject", {p}, p, [db[p] EXCEPT !.status = "rejected"], "done")
  /\ UNCHANGED tables

-----------------------------------------------------------------------------
(* Read one row, change it, save it: activateLicence, the savers of one key of *)
(* tenants.settings, tenant.update and patchSettings.                          *)

SaveTenant(r, kind, new) ==
  /\ Request(r, kind)
  /\ Save(r, kind, {}, "tenant", new, "done")
  /\ UNCHANGED tables

ActivateLicence(r) ==
  SaveTenant(r, "activate",
    [db["tenant"] EXCEPT !.ends = Extend(@, 1), !.active = TRUE, !.settings[Billing] = @ + 1])

SaveSettings(r) == \E k \in Keys :
  SaveTenant(r, "settings", [db["tenant"] EXCEPT !.settings[k] = @ + 1])

Pause(r) == SaveTenant(r, "pause", [db["tenant"] EXCEPT !.active = FALSE])

MallIsLive == db["commerce"].until > now

PatchSettings(r) == \E on \in BOOLEAN :
  /\ Request(r, "mall")
  /\ on => MallIsLive
  /\ Save(r, "mall", {}, "commerce", [db["commerce"] EXCEPT !.mall = on], "done")
  /\ UNCHANGED tables

-----------------------------------------------------------------------------
(* TypeORM's save: the row is read again, and the columns on which the copy    *)
(* differs are written.                                                        *)

LoadForSave(r) ==
  /\ pc[r] = "load"
  /\ dirty' = [dirty EXCEPT ![r] = {c \in Columns : copy[r][c] # db[job[r].row][c]}]
  /\ Goto(r, "write")
  /\ UNCHANGED <<tables, job, copy>>

Written(cols, new, old) ==
  [ends     |-> IF "ends" \in cols THEN new.ends ELSE old.ends,
   active   |-> IF "active" \in cols THEN new.active ELSE old.active,
   settings |-> IF "settings" \in cols THEN new.settings ELSE old.settings,
   status   |-> IF "status" \in cols THEN new.status ELSE old.status,
   until    |-> IF "until" \in cols THEN new.until ELSE old.until,
   mall     |-> IF "mall" \in cols THEN new.mall ELSE old.mall]

Applies(r) ==
  \/ job[r].row = "tenant" /\ job[r].next = "payment"
  \/ job[r].row = "commerce" /\ In(r) = "return"

WriteRow(r) ==
  /\ pc[r] = "write"
  /\ db' = [db EXCEPT ![job[r].row] = Written(dirty[r], copy[r], @)]
  /\ applied' = [p \in Payments |->
       IF Applies(r) /\ p \in job[r].of THEN applied[p] + 1 ELSE applied[p]]
  /\ grants' = IF In(r) = "activate" THEN grants + 1 ELSE grants
  /\ GoOn(r, job[r].next)
  /\ UNCHANGED <<forms, commissions, now, crashes>>

-----------------------------------------------------------------------------

\* Handlers take no time that counts in months.
MonthPasses ==
  /\ Busy = {} /\ now < MaxMonth
  /\ now' = now + 1
  /\ UNCHANGED <<db, forms, commissions, applied, grants, crashes, pc, locals>>

\* The server is lost and started again: its handlers are gone.
Crash ==
  /\ Busy # {} /\ crashes < MaxCrashes
  /\ crashes' = crashes + 1
  /\ pc' = [r \in Requests |-> IF Running(r) THEN "done" ELSE pc[r]]
  /\ job'   = [r \in Requests |-> NoJob]
  /\ copy'  = [r \in Requests |-> Fresh]
  /\ dirty' = [r \in Requests |-> {}]
  /\ UNCHANGED <<db, forms, commissions, applied, grants, now>>

Start(r) ==
  \/ Checkout(r) \/ Submit(r) \/ RecordOfflinePayment(r) \/ PayuReturn(r) \/ Approve(r)
  \/ Reject(r) \/ ActivateLicence(r) \/ SaveSettings(r) \/ Pause(r) \/ PatchSettings(r)

Step(r) ==
  \/ HandOutForm(r) \/ InsertProof(r) \/ ExtendPlan(r) \/ SettlePayment(r)
  \/ ActivateAddon(r) \/ LookForCommission(r) \/ EarnCommission(r) \/ SeeActive(r)
  \/ ConfirmApproval(r) \/ LoadForSave(r) \/ WriteRow(r)

Init ==
  /\ db = [row \in Rows |-> Fresh]
  /\ forms = {} /\ grants = 0 /\ now = 0 /\ crashes = 0
  /\ commissions = [p \in Payments |-> 0]
  /\ applied = [p \in Payments |-> 0]
  /\ pc    = [r \in Requests |-> "idle"]
  /\ job   = [r \in Requests |-> NoJob]
  /\ copy  = [r \in Requests |-> Fresh]
  /\ dirty = [r \in Requests |-> {}]

Next == (\E r \in Requests : Start(r) \/ Step(r)) \/ MonthPasses \/ Crash

Spec == Init /\ [][Next]_vars

-----------------------------------------------------------------------------
(* Properties. *)

TypeOK ==
  /\ db \in [Rows -> Row]
  /\ forms \subseteq Payments
  /\ commissions \in [Payments -> Nat] /\ applied \in [Payments -> Nat]
  /\ grants \in Nat /\ now \in Nat /\ crashes \in Nat
  /\ pc \in [Requests -> Labels]
  /\ job \in [Requests -> Job]
  /\ copy \in [Requests -> Row]
  /\ dirty \in [Requests -> SUBSET Columns]

\* A plan's payment that stands as paid has extended the workspace at least once,
\* wherever the server restarted and whichever handlers overlapped (markPaid saves the
\* tenant first).
PaidIsApplied ==
  \A p \in Payments : ~Addon(p) /\ db[p].status = "paid" => applied[p] > 0

\* An add-on is only ever extended for a payment that stands as paid, and stays so
\* (markAddonPaymentPaid saves the payment first).
AddonWasPaid ==
  \A p \in Payments : Addon(p) /\ applied[p] > 0 => db[p].status = "paid"

Promise == INSTANCE Licence WITH
  status <- [p \in Payments |-> db[p].status],
  applied <- {p \in Payments : applied[p] > 0},
  commissioned <- {p \in Payments : commissions[p] > 0},
  ends <- db["tenant"].ends, active <- db["tenant"].active,
  settings <- db["tenant"].settings,
  until <- db["commerce"].until, mall <- db["commerce"].mall

\* With the handlers that save the same row kept apart, the code keeps the promise of
\* Licence: every payment, grant and setting counts once and nothing undoes another.
ImplementsLicence == Promise!Spec
=============================================================================
