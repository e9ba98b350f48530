------------------------------- MODULE Licence -------------------------------
(***************************************************************************)
(* What a workspace is promised for what it pays: each payment counts      *)
(* once, each extension starts where the last one ends, at most one        *)
(* screenshot waits for approval, and one setting changes at a time.       *)
(***************************************************************************)
EXTENDS Naturals

CONSTANTS Payments, Route, Months, Keys, Billing

VARIABLES status, applied, commissioned, ends, active, settings, until, mall, grants, now

vars == <<status, applied, commissioned, ends, active, settings, until, mall, grants, now>>

Addon(p) == Route[p] = "addon"
Extend(end, n) == (IF end > now THEN end ELSE now) + n

Init ==
  /\ status = [p \in Payments |-> "none"]
  /\ applied = {} /\ commissioned = {}
  /\ ends = 0 /\ until = 0 /\ grants = 0 /\ now = 0
  /\ active = TRUE /\ mall = FALSE
  /\ settings = [k \in Keys |-> 0]

Move(p, from, to) == status[p] \in from /\ status' = [status EXCEPT ![p] = to]

Enter(p) ==
  /\ \/ Route[p] # "proof" /\ Move(p, {"none"}, "created")
     \/ Route[p] = "proof" /\ Move(p, {"none"}, "waiting")
                           /\ \A q \in Payments : status[q] # "waiting"
  /\ UNCHANGED <<applied, commissioned, ends, active, settings, until, mall, grants, now>>

ApplyPlan(p) ==
  /\ ~Addon(p) /\ p \notin applied /\ status[p] \in {"created", "waiting"}
  /\ applied' = applied \cup {p}
  /\ ends' = Extend(ends, Months[p])
  /\ settings' = [settings EXCEPT ![Billing] = @ + 1]
  /\ active' = TRUE
  /\ UNCHANGED <<status, commissioned, until, mall, grants, now>>

ApplyAddon(p) ==
  /\ Addon(p) /\ p \notin applied /\ status[p] = "paid"
  /\ applied' = applied \cup {p}
  /\ until' = Extend(until, 1)
  /\ mall' = TRUE
  /\ UNCHANGED <<status, commissioned, ends, active, settings, grants, now>>

Settle(p) ==
  /\ Addon(p) \/ p \in applied
  /\ Move(p, {"created", "waiting"}, "paid")
  /\ UNCHANGED <<applied, commissioned, ends, active, settings, until, mall, grants, now>>

Reject(p) ==
  /\ p \notin applied
  /\ Move(p, {"waiting"}, "rejected")
  /\ UNCHANGED <<applied, commissioned, ends, active, settings, until, mall, grants, now>>

Earn(p) ==
  /\ status[p] = "paid" /\ p \notin commissioned
  /\ commissioned' = commissioned \cup {p}
  /\ UNCHANGED <<status, applied, ends, active, settings, until, mall, grants, now>>

Grant ==
  /\ grants' = grants + 1
  /\ ends' = Extend(ends, 1)
  /\ settings' = [settings EXCEPT ![Billing] = @ + 1]
  /\ active' = TRUE
  /\ UNCHANGED <<status, applied, commissioned, until, mall, now>>

Change(k) ==
  /\ settings' = [settings EXCEPT ![k] = @ + 1]
  /\ UNCHANGED <<status, applied, commissioned, ends, active, until, mall, grants, now>>

\* The platform pauses or resumes a workspace; its owner turns the mall on or off.
Switch ==
  /\ active' \in BOOLEAN /\ mall' \in BOOLEAN
  /\ mall' /\ ~mall => until > now
  /\ UNCHANGED <<status, applied, commissioned, ends, settings, until, grants, now>>

MonthPasses ==
  /\ now' = now + 1
  /\ UNCHANGED <<status, applied, commissioned, ends, active, settings, until, mall, grants>>

Next ==
  \/ \E p \in Payments :
       Enter(p) \/ ApplyPlan(p) \/ ApplyAddon(p) \/ Settle(p) \/ Reject(p) \/ Earn(p)
  \/ Grant \/ (\E k \in Keys : Change(k)) \/ Switch \/ MonthPasses

Spec == Init /\ [][Next]_vars
=============================================================================
