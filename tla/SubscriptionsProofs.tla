------------------------ MODULE SubscriptionsProofs ------------------------
(***************************************************************************)
(* Proofs about Subscriptions, for every set of plans and any number of    *)
(* submitted payments.                                                     *)
(***************************************************************************)
EXTENDS Subscriptions, TLAPS

LEMMA TypeInit == Init => TypeOK
<1> SUFFICES ASSUME Init PROVE TypeOK
  OBVIOUS
<1>1. None \in [plan : Plans, st : {"none", "pending", "verified", "rejected"}]
  BY DEF None, Plans
<1>2. proof \in [Proofs -> [plan : Plans, st : {"none", "pending", "verified", "rejected"}]]
  BY <1>1 DEF Init
<1>3. sub \in [plan : Plans, status : {"active", "pending_payment", "suspended",
                                       "pending_verification", "cancelled"}]
  BY DEF Init, Plans
<1> QED
  BY <1>2, <1>3 DEF Init, TypeOK

LEMMA TypeStep == TypeOK /\ [Next]_vars => TypeOK'
<1> SUFFICES ASSUME TypeOK, [Next]_vars PROVE TypeOK'
  OBVIOUS
<1> USE DEF TypeOK, Plans
<1>1. ASSUME NEW plan \in Plans, SelectPlan(plan) PROVE TypeOK'
  BY <1>1 DEF SelectPlan, Crosses
<1>2. ASSUME NEW plan \in Paid, NEW i \in Proofs, SubmitPayment(plan, i) PROVE TypeOK'
  BY <1>2 DEF SubmitPayment, Crosses
<1>3. ASSUME NEW i \in Proofs, VerifyPayment(i) \/ RejectPayment(i) PROVE TypeOK'
  BY <1>3 DEF VerifyPayment, RejectPayment
<1>4. CASE CancelSubscription \/ SuspendSubscription \/ ExtendSubscription
  BY <1>4 DEF CancelSubscription, SuspendSubscription, ExtendSubscription
<1>5. CASE UNCHANGED vars
  BY <1>5 DEF vars
<1> QED
  BY <1>1, <1>2, <1>3, <1>4, <1>5 DEF Next

\* The subscription and the payments keep their types.
THEOREM SubscriptionTyped == Spec => []TypeOK
BY TypeInit, TypeStep, PTL DEF Spec

\* As long as nothing was asked for beside a pending payment, what is pending is
\* for the plan the subscription has, and that is what verify_payment activates.
PendingIsForPlan == \A i \in Proofs : proof[i].st = "pending" => proof[i].plan = sub.plan
PaidFor ==
  sub.status = "active" /\ sub.plan \in Paid =>
    \E i \in Proofs : proof[i].st = "verified" /\ proof[i].plan = sub.plan
PlanInv == crossed \/ extended \/ (PendingIsForPlan /\ PaidFor)

LEMMA PlanStep ==
    ASSUME Free \notin Paid, TypeOK, PlanInv, [Next]_vars
    PROVE  PlanInv'
<1> USE DEF TypeOK, Plans, PlanInv, PendingIsForPlan, PaidFor
<1>1. CASE (crossed \/ extended) /\ Next
  BY <1>1 DEF Next, SelectPlan, SubmitPayment, VerifyPayment, RejectPayment,
              CancelSubscription, SuspendSubscription, ExtendSubscription
<1>2. ASSUME NEW plan \in Plans, SelectPlan(plan), ~ crossed, ~ extended PROVE PlanInv'
  BY <1>2 DEF SelectPlan, Crosses
<1>3. ASSUME NEW plan \in Paid, NEW i \in Proofs, SubmitPayment(plan, i), ~ crossed, ~ extended
      PROVE  PlanInv'
  BY <1>3 DEF SubmitPayment, Crosses
<1>4. ASSUME NEW i \in Proofs, VerifyPayment(i), ~ crossed, ~ extended PROVE PlanInv'
  <2>1. /\ sub' = [sub EXCEPT !.status = "active"]
        /\ proof' = [proof EXCEPT ![i].st = "verified"]
        /\ proof[i].plan = sub.plan
    BY <1>4 DEF VerifyPayment
  <2>2. proof'[i].st = "verified" /\ proof'[i].plan = sub'.plan
    BY <2>1
  <2>3. PendingIsForPlan'
    BY <2>1, <1>4
  <2> QED
    BY <2>2, <2>3
<1>5. ASSUME NEW i \in Proofs, RejectPayment(i), ~ crossed, ~ extended PROVE PlanInv'
  BY <1>5 DEF RejectPayment
<1>6. CASE CancelSubscription \/ SuspendSubscription \/ ExtendSubscription
  BY <1>6 DEF CancelSubscription, SuspendSubscription, ExtendSubscription
<1>7. CASE UNCHANGED vars
  BY <1>7 DEF vars
<1> QED
  BY <1>1, <1>2, <1>3, <1>4, <1>5, <1>6, <1>7 DEF Next

\* A paid plan is active only when a payment for that very plan was verified,
\* unless another plan was asked for beside a pending payment or the admin
\* extended a suspended subscription.
THEOREM ActivePlansArePaid ==
    ASSUME Free \notin Paid
    PROVE  Spec => []ActivePlanWasPaid
<1>1. Init => PlanInv
  BY DEF Init, PlanInv, PendingIsForPlan, PaidFor, None
<1>2. TypeOK /\ PlanInv /\ [Next]_vars => PlanInv'
  BY PlanStep
<1>3. PlanInv => ActivePlanWasPaid
  BY DEF PlanInv, PaidFor, ActivePlanWasPaid
<1> QED
  BY <1>1, <1>2, <1>3, SubscriptionTyped, PTL DEF Spec
=============================================================================
