--------------------------- MODULE LeaseProgress ---------------------------
(***************************************************************************)
(* What the onboarding of a lease promises, whatever the tenant's tabs,    *)
(* the staff and the network do: the lease passes its stages in order and  *)
(* goes back only while the agreement has not been accepted, payments are  *)
(* asked for between the acceptance and the securing, money that came in   *)
(* is never forgotten, and the unit is secured only by money.              *)
(***************************************************************************)
EXTENDS FiniteSets

CONSTANT Payments

VARIABLES
  stage,    \* how far the lease is
  asked,    \* the payments the tenant was asked for
  settled   \* those that were received, though they may have been returned

vars == <<stage, asked, settled>>

Init == stage = "none" /\ asked = {} /\ settled = {}

Moves(from, to) == stage = from /\ stage' = to

\* The lease is drawn up, agreed upon, corrected, or activated by its manager.
Agree ==
  /\ \/ Moves("none", "draft")
     \/ Moves("draft", "agreement_previewed")
     \/ Moves("onboarding_started", "agreement_previewed")
     \/ Moves("agreement_previewed", "onboarding_started")
     \/ Moves("agreement_previewed", "terms_accepted")
     \/ Moves("draft", "active")
  /\ UNCHANGED <<asked, settled>>

\* Some payments are asked for; those of an instant method are settled at once.
Ask ==
  /\ stage \in {"terms_accepted", "payment_pending"}
  /\ asked \subseteq asked' /\ asked' \subseteq Payments /\ asked' # {}
  /\ settled \subseteq settled' /\ settled' \subseteq asked'
  /\ \/ stage' = "payment_pending"
     \/ stage' = "payment_secured" /\ asked' \subseteq settled'

\* Money comes in, at any time.
Settle ==
  /\ settled \subseteq settled' /\ settled' # settled /\ settled' \subseteq asked
  /\ \/ UNCHANGED stage
     \/ Moves("payment_pending", "payment_secured")
  /\ UNCHANGED asked

Sign == Moves("payment_secured", "active") /\ UNCHANGED <<asked, settled>>

Next == Agree \/ Ask \/ Settle \/ Sign

Spec == Init /\ [][Next]_vars
=============================================================================
