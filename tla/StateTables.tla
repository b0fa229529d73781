---------------------------- MODULE StateTables -----------------------------
(***************************************************************************)
(* The state machines of types/states.ts, which decide what some screens   *)
(* offer, as sets of <<state, event, next state>>.                         *)
(***************************************************************************)
EXTENDS Widgets

\* types/states.ts
LEASE_TRANSITIONS ==
  {<<"draft", "TENANT_OPENED_LINK", "onboarding_started">>,
   <<"draft", "LEASE_SENT", "active">>,
   <<"onboarding_started", "AGREEMENT_PREVIEWED", "agreement_previewed">>,
   <<"agreement_previewed", "TERMS_ACCEPTED", "terms_accepted">>,
   <<"terms_accepted", "PAYMENT_SUBMITTED", "payment_pending">>,
   <<"payment_pending", "PAYMENT_CONFIRMED", "payment_secured">>,
   <<"payment_secured", "AGREEMENT_SIGNED", "agreement_signed">>,
   <<"agreement_signed", "LEASE_ACTIVATED", "active">>,
   <<"active", "NOTICE_GIVEN", "active">>}
  \cup {<<s, "LEASE_TERMINATED", "terminated">> : s \in {"draft", "active"} \cup Onboarding}

MAINTENANCE_TRANSITIONS ==
  {<<"reported", "ISSUE_ASSIGNED", "assigned">>,
   <<"assigned", "ISSUE_STARTED", "in_progress">>,
   <<"in_progress", "ISSUE_RESOLVED", "resolved">>,
   <<"resolved", "ISSUE_CLOSED", "closed">>}
  \cup {<<s, "ISSUE_CANCELLED", "cancelled">> : s \in {"reported", "assigned", "in_progress"}}

canTransition(transitions, current, event) ==
  \E t \in transitions : t[1] = current /\ t[2] = event

\* components/leases/LeaseDetailPanel.tsx
\* Notice is a date on an active lease, here a state of its own.
LeaseOffers(event) ==
  {s \in LeaseStates :
     canTransition(LEASE_TRANSITIONS, IF s = "noticed" THEN "active" ELSE s, event)}

\* services/api/leases.ts
\* The states in which the backend's endpoint for an event takes the lease.
LeaseTakes(event) ==
  CASE event \in {"LEASE_ACTIVATED", "LEASE_SENT"} -> {"draft"}
    [] event \in {"LEASE_TERMINATED", "LEASE_CLOSED"} -> Live
    [] event = "NOTICE_GIVEN" -> {"active"}

\* app/(dashboard)/maintenance/[id]/page.tsx
\* MAINTENANCE_TRANSITIONS is the backend's table, too.
IssueOffers(event) ==
  {t[1] : t \in {u \in MAINTENANCE_TRANSITIONS : u[2] = event}}
=============================================================================
