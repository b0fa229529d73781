--------------------------- MODULE Subscriptions ---------------------------
(***************************************************************************)
(* An organisation's subscription: the plan it asked for, the payments it  *)
(* submitted proof of, and what the admin makes of them.  Requests are     *)
(* transactions on few rows and are taken one at a time.  The scheduled    *)
(* expiry is left out: its tasks import a name core/database.py does not   *)
(* define.  A trial is an active subscription.                             *)
(***************************************************************************)
EXTENDS Naturals

CONSTANTS
  Free,      \* the plan whose slug is "free"
  Paid,      \* the others
  Proofs     \* bound: the payments an organisation may submit

Plans == Paid \cup {Free}

VARIABLES
  sub,       \* the subscription: its plan and its status
  proof,     \* each payment submitted: for which plan, and what became of it
  crossed,   \* history: a plan was asked for beside a pending payment for another
  extended   \* history: the admin extended a suspended subscription

vars == <<sub, proof, crossed, extended>>

None == [plan |-> Free, st |-> "none"]

TypeOK ==
  /\ sub \in [plan : Plans, status : {"active", "pending_payment", "suspended",
                                      "pending_verification", "cancelled"}]
  /\ proof \in [Proofs -> [plan : Plans, st : {"none", "pending", "verified", "rejected"}]]
  /\ crossed \in BOOLEAN /\ extended \in BOOLEAN

\* get_or_create_subscription
Init ==
  /\ sub = [plan |-> Free, status |-> "active"]
  /\ proof = [i \in Proofs |-> None]
  /\ crossed = FALSE /\ extended = FALSE

Crosses(plan) == \E i \in Proofs : proof[i].st = "pending" /\ proof[i].plan # plan

\* Mutants: the plan is active at once.
SelectPlanUnpaid(plan) ==
  /\ sub' = [plan |-> plan, status |-> "active"]
  /\ crossed' = (crossed \/ Crosses(plan))
  /\ UNCHANGED <<proof, extended>>

\* initiate_plan_change: the plan is the organisation's at once; only the free
\* one is active at once.
SelectPlan(plan) ==
  /\ sub' = [plan |-> plan,
             status |-> IF plan = Free THEN "active" ELSE "pending_payment"]
  /\ crossed' = (crossed \/ Crosses(plan))
  /\ UNCHANGED <<proof, extended>>

\* POST /billing/payments/submit: initiate_plan_change, then submit_payment.
SubmitPayment(plan, i) ==
  /\ proof[i].st = "none"
  /\ proof' = [proof EXCEPT ![i] = [plan |-> plan, st |-> "pending"]]
  /\ sub' = [plan |-> plan, status |-> "pending_verification"]
  /\ crossed' = (crossed \/ Crosses(plan))
  /\ UNCHANGED extended

\* verify_payment: whatever plan the subscription has by now is activated.
VerifyPayment(i) ==
  /\ proof[i].st = "pending"
  /\ proof' = [proof EXCEPT ![i].st = "verified"]
  /\ sub' = [sub EXCEPT !.status = "active"]
  /\ UNCHANGED <<crossed, extended>>

\* reject_payment: also when another payment for the plan was verified.
RejectPayment(i) ==
  /\ proof[i].st = "pending"
  /\ proof' = [proof EXCEPT ![i].st = "rejected"]
  /\ sub' = [sub EXCEPT !.status = "pending_payment"]
  /\ UNCHANGED <<crossed, extended>>

CancelSubscription ==
  sub' = [sub EXCEPT !.status = "cancelled"] /\ UNCHANGED <<proof, crossed, extended>>

SuspendSubscription ==
  sub' = [sub EXCEPT !.status = "suspended"] /\ UNCHANGED <<proof, crossed, extended>>

\* extend_subscription brings a suspended subscription back.
ExtendSubscription ==
  /\ sub.status = "suspended"
  /\ sub' = [sub EXCEPT !.status = "active"]
  /\ extended' = TRUE
  /\ UNCHANGED <<proof, crossed>>

Next ==
  \/ \E plan \in Plans : SelectPlan(plan)
  \/ \E plan \in Paid, i \in Proofs : SubmitPayment(plan, i)
  \/ \E i \in Proofs : VerifyPayment(i) \/ RejectPayment(i)
  \/ CancelSubscription \/ SuspendSubscription \/ ExtendSubscription

Spec == Init /\ [][Next]_vars

\* A paid plan is active only when a payment for that very plan was verified,
\* unless another plan was asked for while one was pending, or the admin
\* extended the subscription: verify_payment does not look at what was paid for.
ActivePlanWasPaid ==
  sub.status = "active" /\ sub.plan \in Paid =>
    \/ \E i \in Proofs : proof[i].st = "verified" /\ proof[i].plan = sub.plan
    \/ crossed \/ extended
=============================================================================
