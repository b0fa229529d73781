--------------------------- MODULE PaymentStates ---------------------------
(***************************************************************************)
(* The v4 payment state machine of                                         *)
(* backend/app/services/payment_state_machine.py, as data: the statuses,   *)
(* the transition table, the named sets of states and the predicates the   *)
(* payment handlers guard themselves with.  The module has no variables;   *)
(* the modules that move payments EXTEND it.                               *)
(***************************************************************************)
EXTENDS Naturals

\* PaymentStatus: the legacy values and the v4 ones.
Statuses ==
    {"initiated", "predicted", "routed", "pending", "reconciled", "allocated",
     "completed", "predicted_failure", "retry_scheduled", "permanently_failed",
     "rejected", "cancelled", "refunded", "confirmed", "failed"}

\* VALID_TRANSITIONS: the states a payment may move to from each state.
ValidTransitions ==
    [s \in Statuses |->
        CASE s = "initiated" ->
               {"predicted", "routed", "pending", "predicted_failure",
                "permanently_failed", "rejected", "cancelled"}
          [] s = "predicted" ->
               {"routed", "pending", "predicted_failure",
                "permanently_failed", "rejected", "cancelled"}
          [] s = "routed" ->
               {"pending", "retry_scheduled", "permanently_failed", "rejected", "cancelled"}
          [] s = "pending" ->
               {"reconciled", "retry_scheduled", "permanently_failed",
                "confirmed", "completed", "rejected", "cancelled"}
          [] s = "reconciled"        -> {"allocated", "permanently_failed", "rejected"}
          [] s = "allocated"         -> {"completed", "permanently_failed", "rejected"}
          [] s = "completed"         -> {"refunded"}
          [] s = "predicted_failure" -> {"routed", "rejected"}
          [] s = "retry_scheduled" ->
               {"routed", "pending", "permanently_failed", "rejected", "cancelled"}
          [] s = "confirmed"         -> {"refunded", "completed"}
          [] s = "failed"            -> {"retry_scheduled", "permanently_failed"}
          [] OTHER                   -> {}]

CanMove(from, to) == to \in ValidTransitions[from]

SuccessfulTerminal == {"completed", "confirmed"}
FailedTerminal     == {"permanently_failed", "predicted_failure", "failed"}
HumanTerminal      == {"rejected", "cancelled"}
Terminal == SuccessfulTerminal \cup FailedTerminal \cup HumanTerminal \cup {"refunded"}
InProgress == Statuses \ Terminal

CancellableByTenant == {"initiated", "predicted", "routed", "pending", "retry_scheduled"}
RejectableByStaff   == InProgress \cup FailedTerminal \cup {"predicted_failure"}
Retryable           == {"retry_scheduled", "failed"}

\* can_be_confirmed: the states confirm_payment advances from (it has already
\* turned down SuccessfulTerminal, so the legacy "confirmed" never gets there).
Confirmable == {"initiated", "predicted", "routed", "pending",
                "reconciled", "allocated", "confirmed"}

(***************************************************************************)
(* advance_to_completed runs one validated transition after another inside *)
(* the confirming transaction.  Its path from s: early states bypass to    *)
(* pending, then reconciled, allocated, completed.                         *)
(***************************************************************************)
Advance ==
    [s \in Confirmable \ SuccessfulTerminal |->
        CASE s \in {"initiated", "predicted", "routed"} -> "pending"
          [] s = "pending"    -> "reconciled"
          [] s = "reconciled" -> "allocated"
          [] s = "allocated"  -> "completed"]

\* The states on the path from s to completed, s included.
AdvancePath(s) ==
    CASE s \in {"initiated", "predicted", "routed"} -> {s, "pending", "reconciled", "allocated"}
      [] s = "pending"    -> {"pending", "reconciled", "allocated"}
      [] s = "reconciled" -> {"reconciled", "allocated"}
      [] s = "allocated"  -> {"allocated"}

\* Every transition of the path is in the table, so none of them raises.
CanAdvance(s) == \A t \in AdvancePath(s) : CanMove(t, Advance[t])

\* States nothing leads out of: the payment is closed for good.
Closed == {s \in Statuses : ValidTransitions[s] = {}}
============================================================================
