--------------------------- MODULE MallSettlement ---------------------------
(***************************************************************************)
(* Orders of the mall.  The buyer pays the platform, over PayU or through  *)
(* an administrator, and the platform settles with the seller: a build     *)
(* collects the paid orders that have no settlement and are old enough,    *)
(* inserts one settlement per seller and stamps its orders with it, each   *)
(* in a statement of its own.  Every handler saves a row it read earlier.  *)
(*                                                                         *)
(* A definition may stand just after a faulty form of it, which no action  *)
(* uses: a slip of the code that must break a property.                    *)
(***************************************************************************)
EXTENDS Integers, Sequences, FiniteSets

CONSTANTS
  Orders,
  Sellers,
  Seller,       \* Seller[o]: seller_tenant_id
  ByPlatform,   \* the orders the platform delivers
  SettleDays,   \* SettleDays[s]: settle_days of seller s
  Requests,     \* HTTP calls, each served at most once
  Cron,         \* the settlement scheduler
  Kinds,        \* the handlers that may be called, a subset of AllKinds
  Apart,        \* bound: pairs of kinds (or a single kind) that never overlap; with
                \* "crash", the kinds that no crash interrupts
  HoursPerDay,  \* bound: how finely time passes
  MaxAge,       \* bound: hours counted
  MaxInFlight,  \* bound: handlers running at the same time
  MaxCrashes    \* bound: restarts of the server

Builds   == {"build", "runNow", "tick"}
AllKinds == {"checkout", "pay", "return", "markPaid", "deliver", "build", "runNow"}

ASSUME MallAssumption ==
  /\ Seller \in [Orders -> Sellers]
  /\ ByPlatform \subseteq Orders
  /\ SettleDays \in [Sellers -> Nat]
  /\ Cron \notin Requests
  /\ Kinds \subseteq AllKinds
  /\ Apart \subseteq SUBSET (AllKinds \cup Builds \cup {"crash"})
  /\ HoursPerDay \in Nat \ {0, 1}
  /\ MaxAge \in Nat /\ MaxInFlight \in Nat /\ MaxCrashes \in Nat

Callers == Requests \cup {Cron}

VARIABLES
  order,        \* marketplace_orders
  jobs,         \* the orders with a row in delivery_jobs
  forms,        \* the orders whose buyer holds a PayU checkout form
  settlements,  \* marketplace_settlements, each the set of orders it adds up
  paidFor,      \* hours since the order was first paid, or Never (kept by no table)
  hour,         \* hour of the day
  ran,          \* the scheduler's lastRunKey is today's
  crashes,
  pc,
  job,          \* a handler's kind and order, and its local variables:
  copy,         \* orders as it read or changed them
  dirty,        \* columns its save is to write
  batch,        \* a build's orders still without a settlement
  todo,         \* the orders of its last settlement still to stamp
  into          \* that settlement

locals == <<job, copy, dirty, batch, todo, into>>
vars == <<order, jobs, forms, settlements, paidFor, hour, ran, crashes, pc, job, copy,
          dirty, batch, todo, into>>

Never == -1
Columns == {"payment", "status", "txn", "settlement", "age"}
Row == [payment: {"pending", "paid"}, status: {"none", "placed", "confirmed", "delivered"},
        txn: BOOLEAN, settlement: Nat, age: Nat]

Job == [kind: AllKinds \cup {"tick", "none"}, of: SUBSET Orders]
Labels == {"idle", "job", "pay", "load", "write", "settle", "stamp", "done"}

Unplaced == [payment |-> "pending", status |-> "none", txn |-> FALSE,
             settlement |-> 0, age |-> 0]
NoJob == [kind |-> "none", of |-> {}]
NoCopies == [o \in Orders |-> Unplaced]

-----------------------------------------------------------------------------

Running(r) == pc[r] \notin {"idle", "done"}
In(r) == job[r].kind
Goto(r, label) == pc' = [pc EXCEPT ![r] = label]
OnJob(r, kind, o) == job' = [job EXCEPT ![r] = [kind |-> kind, of |-> {o}]]

Busy == {q \in Callers : Running(q)}

Call(r, kind) ==
  /\ pc[r] = "idle"
  /\ Cardinality(Busy) < MaxInFlight
  /\ \A q \in Busy : {kind, In(q)} \notin Apart

\* Calls differ in nothing but their handler: the next one served is any one.
NextCall == CHOOSE q \in Requests : pc[q] = "idle"

Request(r, kind) == r \in Requests /\ kind \in Kinds /\ Call(r, kind) /\ r = NextCall

Finish(r) ==
  /\ Goto(r, IF r = Cron THEN "idle" ELSE "done")
  /\ job'   = [job EXCEPT ![r] = NoJob]
  /\ copy'  = [copy EXCEPT ![r] = NoCopies]
  /\ dirty' = [dirty EXCEPT ![r] = {}]
  /\ into'  = [into EXCEPT ![r] = 0]
  /\ UNCHANGED <<batch, todo>>

\* The handler sets fields of an order it has read and calls save.
Save(r, kind, o, row) ==
  /\ Goto(r, "load")
  /\ OnJob(r, kind, o)
  /\ copy' = [copy EXCEPT ![r][o] = row]
  /\ UNCHANGED <<dirty, batch, into>>

Placed == {o \in Orders : order[o].status # "none"}
Paid(row) == row.payment = "paid"

-----------------------------------------------------------------------------
(* checkout and createMallPayuCheckout. *)

Checkout(r) == \E o \in Orders \ Placed :
  /\ Request(r, "checkout")
  /\ order' = [order EXCEPT ![o] = [Unplaced EXCEPT !.status = "placed"]]
  /\ OnJob(r, "checkout", o)
  /\ Goto(r, IF o \in ByPlatform THEN "job" ELSE "pay")
  /\ UNCHANGED <<jobs, forms, settlements, paidFor, hour, ran, crashes, copy, dirty,
                 batch, todo, into>>

InsertJob(r) ==
  /\ pc[r] = "job"
  /\ jobs' = jobs \cup job[r].of
  /\ Goto(r, "pay")
  /\ UNCHANGED <<order, forms, settlements, paidFor, hour, ran, crashes, locals>>

\* An order keeps its first transaction id; the form is handed out once that is saved.
CreateMallPayuCheckout(r, kind, o) ==
  /\ IF ~Paid(order[o]) /\ ~order[o].txn
       THEN Save(r, kind, o, [order[o] EXCEPT !.txn = TRUE]) /\ UNCHANGED <<forms, todo>>
       ELSE /\ forms' = IF Paid(order[o]) THEN forms ELSE forms \cup {o}
            /\ Finish(r)
  /\ UNCHANGED <<order, jobs, settlements, paidFor, hour, ran, crashes>>

Pay(r) == \E o \in Placed : Request(r, "pay") /\ CreateMallPayuCheckout(r, "pay", o)

PayAfterCheckout(r) == \E o \in job[r].of :
  pc[r] = "pay" /\ CreateMallPayuCheckout(r, "checkout", o)

-----------------------------------------------------------------------------
(* markMallPaid, for a return of PayU it verified or for an administrator, and *)
(* patchDeliveryJob when the job is now delivered.                             *)

PaidUnconfirmed(row) == [row EXCEPT !.payment = "confirmed", !.status = "confirmed"]
MarkedPaid(row) == [row EXCEPT !.payment = "paid", !.status = "confirmed"]

MarkMallPaid(r, kind, o) ==
  /\ IF Paid(order[o])
       THEN Finish(r)
       ELSE Save(r, kind, o, MarkedPaid(order[o])) /\ UNCHANGED todo
  /\ UNCHANGED <<order, jobs, forms, settlements, paidFor, hour, ran, crashes>>

PayuReturn(r) == \E o \in forms : Request(r, "return") /\ MarkMallPaid(r, "return", o)

MarkMallPaidById(r) ==
  \E o \in Placed : Request(r, "markPaid") /\ MarkMallPaid(r, "markPaid", o)

Deliver(r) == \E o \in jobs :
  /\ Request(r, "deliver")
  /\ Save(r, "deliver", o, [order[o] EXCEPT !.status = "delivered"])
  /\ UNCHANGED <<order, jobs, forms, settlements, paidFor, hour, ran, crashes, todo>>

-----------------------------------------------------------------------------
(* TypeORM's save: the row is read again, and the columns on which the copy   *)
(* differs are written.  A copy whose updated_at is older than the row's       *)
(* writes that back; otherwise a row that changes is updated now.              *)

Differing(r, o) == {c \in Columns : copy[r][o][c] # order[o][c]}

LoadForSave(r) == \E o \in job[r].of :
  /\ pc[r] = "load"
  /\ dirty' = [dirty EXCEPT ![r] = Differing(r, o)]
  /\ Goto(r, "write")
  /\ UNCHANGED <<order, jobs, forms, settlements, paidFor, hour, ran, crashes, job, copy,
                 batch, todo, into>>

Written(cols, new, old) ==
  [payment    |-> IF "payment" \in cols THEN new.payment ELSE old.payment,
   status     |-> IF "status" \in cols THEN new.status ELSE old.status,
   txn        |-> IF "txn" \in cols THEN new.txn ELSE old.txn,
   settlement |-> IF "settlement" \in cols THEN new.settlement ELSE old.settlement,
   age        |-> IF "age" \in cols THEN new.age ELSE IF cols = {} THEN old.age ELSE 0]

WriteOrder(r) == \E o \in job[r].of :
  LET row == Written(dirty[r], copy[r][o], order[o]) IN
  /\ pc[r] = "write"
  /\ order' = [order EXCEPT ![o] = row]
  /\ paidFor' = [paidFor EXCEPT ![o] = IF Paid(row) /\ @ = Never THEN 0 ELSE @]
  /\ IF In(r) \in Builds
       THEN /\ Goto(r, IF todo[r] = {} THEN "settle" ELSE "stamp")
            /\ UNCHANGED <<forms, locals>>
       ELSE /\ forms' = IF In(r) \in {"checkout", "pay"} THEN forms \cup {o} ELSE forms
            /\ Finish(r)
  /\ UNCHANGED <<jobs, settlements, hour, ran, crashes>>

-----------------------------------------------------------------------------
(* buildOpenSettlements. *)

OnlyUnsettled(row) == row.settlement = 0
OnlyPaid(row) == Paid(row)
Unsettled(row) == Paid(row) /\ row.settlement = 0

Term(o) == SettleDays[Seller[o]] * HoursPerDay
AnHourEarly(o) == order[o].age + 1 >= Term(o)
OnTheHour(o) == order[o].age = Term(o)
Eligible(o) == order[o].age >= Term(o)

Collect(r, kind) ==
  /\ batch' = [batch EXCEPT ![r] = {o \in Orders : Unsettled(order[o]) /\ Eligible(o)}]
  /\ copy' = [copy EXCEPT ![r] = order]
  /\ job' = [job EXCEPT ![r] = [kind |-> kind, of |-> {}]]
  /\ Goto(r, "settle")
  /\ UNCHANGED <<order, jobs, forms, settlements, paidFor, hour, crashes, dirty, todo, into>>

BuildOpenSettlements(r) == \E kind \in {"build", "runNow"} :
  Request(r, kind) /\ Collect(r, kind) /\ UNCHANGED ran

\* The scheduler looks every hour, and builds once in the hour of three.
Tick ==
  /\ hour = 0 /\ ~ran
  /\ Call(Cron, "tick") /\ Collect(Cron, "tick")
  /\ ran' = TRUE

OfSeller(r, s) == {o \in batch[r] : Seller[o] = s}
AllCollected(r, s) == batch[r]
ToStamp(r, s) == OfSeller(r, s)

SettleSeller(r) == \E s \in Sellers :
  LET mine == OfSeller(r, s) IN
  /\ pc[r] = "settle" /\ mine # {}
  /\ settlements' = Append(settlements, mine)
  /\ into'  = [into EXCEPT ![r] = Len(settlements) + 1]
  /\ todo'  = [todo EXCEPT ![r] = ToStamp(r, s)]
  /\ batch' = [batch EXCEPT ![r] = @ \ mine]
  /\ Goto(r, "stamp")
  /\ UNCHANGED <<order, jobs, forms, paidFor, hour, ran, crashes, job, copy, dirty>>

StampOrder(r) == \E o \in todo[r] :
  /\ pc[r] = "stamp"
  /\ Save(r, In(r), o, [copy[r][o] EXCEPT !.settlement = into[r]])
  /\ todo' = [todo EXCEPT ![r] = @ \ {o}]
  /\ UNCHANGED <<order, jobs, forms, settlements, paidFor, hour, ran, crashes>>

\* A manual run leaves a key that is no day's, and the scheduler may run again.
EndBuild(r) ==
  /\ pc[r] = "settle" /\ batch[r] = {}
  /\ ran' = (ran /\ In(r) # "runNow")
  /\ Finish(r)
  /\ UNCHANGED <<order, jobs, forms, settlements, paidFor, hour, crashes>>

-----------------------------------------------------------------------------

\* Handlers take no time that counts in hours.
Older(n) == IF n < MaxAge THEN n + 1 ELSE n

HourPasses ==
  /\ Busy = {}
  /\ hour' = (hour + 1) % HoursPerDay
  /\ ran' = (ran /\ hour' # 0)
  /\ order' = [o \in Orders |->
       IF o \in Placed THEN [order[o] EXCEPT !.age = Older(@)] ELSE order[o]]
  /\ paidFor' = [o \in Orders |-> IF paidFor[o] = Never THEN Never ELSE Older(paidFor[o])]
  /\ UNCHANGED <<jobs, forms, settlements, crashes, pc, locals>>

\* The server is lost and started again: its handlers and lastRunKey are gone.
Crash ==
  /\ crashes < MaxCrashes /\ Busy # {}
  /\ \A q \in Busy : {"crash", In(q)} \notin Apart
  /\ crashes' = crashes + 1
  /\ ran' = FALSE
  /\ pc' = [r \in Callers |-> IF ~Running(r) THEN pc[r] ELSE IF r = Cron THEN "idle" ELSE "done"]
  /\ job'   = [r \in Callers |-> NoJob]
  /\ copy'  = [r \in Callers |-> NoCopies]
  /\ dirty' = [r \in Callers |-> {}]
  /\ batch' = [r \in Callers |-> {}]
  /\ todo'  = [r \in Callers |-> {}]
  /\ into'  = [r \in Callers |-> 0]
  /\ UNCHANGED <<order, jobs, forms, settlements, paidFor, hour>>

Start(r) ==
  Checkout(r) \/ Pay(r) \/ PayuReturn(r) \/ MarkMallPaidById(r) \/ Deliver(r)
    \/ BuildOpenSettlements(r)

Step(r) ==
  \/ InsertJob(r) \/ PayAfterCheckout(r) \/ LoadForSave(r) \/ WriteOrder(r)
  \/ SettleSeller(r) \/ StampOrder(r) \/ EndBuild(r)

Init ==
  /\ order = [o \in Orders |-> Unplaced]
  /\ jobs = {} /\ forms = {} /\ settlements = <<>>
  /\ paidFor = [o \in Orders |-> Never]
  /\ hour = 0 /\ ran = FALSE /\ crashes = 0
  /\ pc    = [r \in Callers |-> "idle"]
  /\ job   = [r \in Callers |-> NoJob]
  /\ copy  = [r \in Callers |-> NoCopies]
  /\ dirty = [r \in Callers |-> {}]
  /\ batch = [r \in Callers |-> {}]
  /\ todo  = [r \in Callers |-> {}]
  /\ into  = [r \in Callers |-> 0]

Next ==
  \/ \E r \in Requests : Start(r)
  \/ \E r \in Callers : Step(r)
  \/ Tick \/ HourPasses \/ Crash

Spec == Init /\ [][Next]_vars

\* Time passes, a handler that runs goes on, and the server is up in the hour of
\* three again and again, though not every day.
FairSpec ==
  /\ Spec
  /\ \A r \in Callers : WF_vars(Step(r))
  /\ SF_vars(Tick)
  /\ WF_vars(HourPasses)

-----------------------------------------------------------------------------
(* Properties. *)

TypeOK ==
  /\ order \in [Orders -> Row]
  /\ jobs \subseteq Orders /\ forms \subseteq Orders
  /\ settlements \in Seq(SUBSET Orders)
  /\ paidFor \in [Orders -> Nat \cup {Never}]
  /\ hour \in 0 .. HoursPerDay - 1 /\ ran \in BOOLEAN /\ crashes \in Nat
  /\ pc \in [Callers -> Labels]
  /\ job \in [Callers -> Job]
  /\ copy \in [Callers -> [Orders -> Row]]
  /\ dirty \in [Callers -> SUBSET Columns]
  /\ batch \in [Callers -> SUBSET Orders]
  /\ todo \in [Callers -> SUBSET Orders]
  /\ into \in [Callers -> Nat]

Holding(o) == {k \in DOMAIN settlements : o \in settlements[k]}

\* No order is in two settlements: the seller is not paid twice for it.
SettledOnce == \A o \in Orders : Cardinality(Holding(o)) <= 1

\* A settlement takes an order only once settle_days have passed since it was paid,
\* though what the build looks at is when the row was last touched.
SettlesOnlyRipe ==
  [][\A k \in DOMAIN settlements' \ DOMAIN settlements :
       \A o \in settlements'[k] : paidFor[o] >= Term(o)]_vars

\* An order that was paid for is in time stamped with a settlement.
PaidIsSettled ==
  \A o \in Orders : Paid(order[o]) ~> order[o].settlement # 0

\* The settlement an order is stamped with is one that adds it up, whichever builds
\* overlap and whatever old copy was saved over the row.
StampedIsIncluded ==
  \A o \in Orders : order[o].settlement # 0 => order[o].settlement \in Holding(o)

\* The seller is only ever paid for orders the platform was paid for.
OnlyPaidIsSettled ==
  \A o \in Orders : Holding(o) # {} => paidFor[o] # Never
=============================================================================
