----------------------------- MODULE MobileMoney -----------------------------
(***************************************************************************)
(* Mobile money pushes to one tenant's phone: the payment that asks for    *)
(* the money, the provider that collects it and reports it by webhook or   *)
(* when it is polled, and the matching engine that books what was          *)
(* collected on the tenant's lease.                                        *)
(*                                                                         *)
(* A webhook, a staff member's manual match and a run of the poll task are *)
(* jobs: database transactions of several statements that overlap.  An     *)
(* UPDATE of a mobile_money_transactions row locks it until the end of the *)
(* job, a SELECT locks nothing, and a session keeps the status it has read *)
(* and writes the column only when it has changed it.                      *)
(*                                                                         *)
(* What confirm_payment does with a booked payment is in RentPayments; the *)
(* provider, its webhooks (late, repeated, lost) and the lease's own life  *)
(* are the environment.                                                    *)
(***************************************************************************)
EXTENDS Integers, FiniteSets

CONSTANTS
    Txns,        \* pushes, by external_id
    Servers,     \* API requests served at a time
    Pollers,     \* poll tasks of the provider; the model takes them one by one
    Leases,      \* bound: leases the tenant has, one after another
    MaxCrashes   \* bound: jobs that die before their commit

ASSUME MobileMoneyAssumption == Leases \in Nat /\ MaxCrashes \in Nat

VARIABLES
    push,      \* push[x]: the create_payment request that asks for x
    payment,   \* payment[x]: status of the Payment row that asked for x
    txn,       \* txn[x]: status of the MobileMoneyTransaction row x
    booked,    \* booked[x][l]: confirmed payments with reference x on lease l
    decision,  \* decision[x]: what became of the push at the provider
    lease,     \* the tenant's active lease, 0 for none
    started,   \* leases that have been started
    job,       \* job[w]: the transaction worker w is in
    crashes

vars == <<push, payment, txn, booked, decision, lease, started, job, crashes>>

Workers == Servers \cup Pollers
Failures == {"failed", "expired"}
RowStatuses == {"pending", "received", "matched", "unmatched"} \cup Failures

Idle ==
    [pc |-> "idle", own |-> [x \in Txns |-> "unread"], locking |-> {}, held |-> {},
     written |-> {}, todo |-> {}, paid |-> [x \in Txns |-> 0]]

Jobs ==
    [pc: {"idle", "writing", "matching"}, own: [Txns -> RowStatuses \cup {"unread", "new"}],
     locking: SUBSET Txns, held: SUBSET Txns, written: SUBSET Txns, todo: SUBSET Txns,
     paid: [Txns -> 0..Leases]]

TypeOK ==
    /\ push \in [Txns -> {"none", "asked", "saved", "lost"}]
    /\ payment \in [Txns -> {"absent", "initiated", "pending", "permanently_failed"}]
    /\ txn \in [Txns -> RowStatuses \cup {"absent"}]
    /\ booked \in [Txns -> [1..Leases -> Nat]]
    /\ decision \in [Txns -> {"none", "received"} \cup Failures]
    /\ started \in 0..Leases /\ lease \in {0, started}
    /\ job \in [Workers -> Jobs]
    /\ \A w \in Workers : job[w].held \cup job[w].written \subseteq job[w].locking
    /\ crashes \in 0..MaxCrashes

Init ==
    /\ \E legacy \in SUBSET Txns :   \* pushes from before payments began as initiated
         /\ push = [x \in Txns |-> IF x \in legacy THEN "saved" ELSE "none"]
         /\ payment = [x \in Txns |-> IF x \in legacy THEN "pending" ELSE "absent"]
         /\ txn = [x \in Txns |-> IF x \in legacy THEN "pending" ELSE "absent"]
    /\ booked = [x \in Txns |-> [l \in 1..Leases |-> 0]]
    /\ decision = [x \in Txns |-> "none"]
    /\ lease = 0 /\ started = 0
    /\ job = [w \in Workers |-> Idle]
    /\ crashes = 0

-----------------------------------------------------------------------------
(* create_payment with a phone number: the provider is asked before        *)
(* anything is committed.                                                  *)

HeldByNone(x) == \A w \in Workers : x \notin job[w].held

AskProvider(x) ==
    /\ push[x] = "none"
    /\ push' = [push EXCEPT ![x] = "asked"]
    /\ UNCHANGED <<payment, txn, booked, decision, lease, started, job, crashes>>

\* The provider has answered 2xx: both rows are committed together.
SavePush(x) ==
    /\ push[x] = "asked"
    /\ txn[x] = "absent" /\ HeldByNone(x)
    /\ push' = [push EXCEPT ![x] = "saved"]
    /\ payment' = [payment EXCEPT ![x] = "initiated"]
    /\ txn' = [txn EXCEPT ![x] = "pending"]
    /\ UNCHANGED <<booked, decision, lease, started, job, crashes>>

\* The call raised, by a refusal or a timeout: the payment is kept without a row.
SavePaymentOnly(x) ==
    /\ push[x] = "asked"
    /\ push' = [push EXCEPT ![x] = "saved"]
    /\ payment' = [payment EXCEPT ![x] = "initiated"]
    /\ UNCHANGED <<txn, booked, decision, lease, started, job, crashes>>

\* The webhook was faster and has inserted the row: the INSERT fails, the commit
\* raises and the payment is gone.
LosePush(x) ==
    /\ push[x] = "asked"
    /\ txn[x] # "absent"
    /\ push' = [push EXCEPT ![x] = "lost"]
    /\ UNCHANGED <<payment, txn, booked, decision, lease, started, job, crashes>>

-----------------------------------------------------------------------------
(* The environment. *)

ProviderDecides(x) ==
    /\ push[x] # "none" /\ decision[x] = "none"
    /\ \E d \in {"received"} \cup Failures : decision' = [decision EXCEPT ![x] = d]
    /\ UNCHANGED <<push, payment, txn, booked, lease, started, job, crashes>>

LeaseStarts ==
    /\ lease = 0 /\ started < Leases
    /\ lease' = started + 1 /\ started' = started + 1
    /\ UNCHANGED <<push, payment, txn, booked, decision, job, crashes>>

LeaseEnds ==
    /\ lease # 0
    /\ lease' = 0
    /\ UNCHANGED <<push, payment, txn, booked, decision, started, job, crashes>>

-----------------------------------------------------------------------------
(* The jobs. *)

\* handle_webhook_event.  A decided push may be reported any number of times, and
\* reports written before the decision may still be on their way.
ReceiveWebhook(w, x) ==
    /\ job[w].pc = "idle" /\ push[x] # "none"
    /\ \E event \in {"none", decision[x]} :
         /\ event = "none" => txn[x] \in {"absent", "received"}   \* otherwise it changes nothing
         /\ LET status == CASE txn[x] = "absent" -> "new"
                            [] txn[x] # "absent" /\ event = "none" -> txn[x]
                            [] OTHER -> event
            IN job' = [job EXCEPT ![w] =
                 [Idle EXCEPT !.pc = "matching",
                              !.own[x] = status,
                              !.todo = IF status = "received" THEN {x} ELSE {},
                              \* received_at is set at each report of a receipt
                              !.locking = IF status # txn[x] \/ event = "received" THEN {x} ELSE {},
                              !.written = IF status # txn[x] THEN {x} ELSE {}]]
    /\ UNCHANGED <<push, payment, txn, booked, decision, lease, started, crashes>>

\* manually_match_transaction
MatchByHand(w, x) ==
    /\ job[w].pc = "idle"
    /\ txn[x] \in {"unmatched", "received"}
    /\ LET changed == {x} \ {y \in Txns : txn[y] = "received"} IN
       job' = [job EXCEPT ![w] = [Idle EXCEPT !.pc = "matching", !.own[x] = "received",
                                              !.todo = {x},
                                              !.locking = changed, !.written = changed]]
    /\ UNCHANGED <<push, payment, txn, booked, decision, lease, started, crashes>>

\* Mutant: only receipts are written back.
StartPollForReceipts(w, answered) ==
    LET pending == {x \in Txns : txn[x] = "pending"}
        decided == {x \in answered : decision[x] = "received"}
    IN
    /\ job[w].pc = "idle"
    /\ answered \subseteq pending
    /\ job' = [job EXCEPT ![w] =
           [Idle EXCEPT !.pc = "writing", !.locking = decided, !.written = decided,
                        !.own = [x \in Txns |-> IF x \in decided THEN decision[x]
                                                ELSE IF x \in pending THEN "pending"
                                                ELSE "unread"]]]
    /\ UNCHANGED <<push, payment, txn, booked, decision, lease, started, crashes>>

\* sync_pending_transactions; check_status raises for the rows not in answered.
StartPoll(w, answered) ==
    LET pending == {x \in Txns : txn[x] = "pending"}
        decided == {x \in answered : decision[x] # "none"}
    IN
    /\ job[w].pc = "idle"
    /\ answered \subseteq pending
    /\ job' = [job EXCEPT ![w] =
           [Idle EXCEPT !.pc = "writing", !.locking = decided, !.written = decided,
                        !.own = [x \in Txns |-> IF x \in decided THEN decision[x]
                                                ELSE IF x \in pending THEN "pending"
                                                ELSE "unread"]]]
    /\ UNCHANGED <<push, payment, txn, booked, decision, lease, started, crashes>>

\* Mutant: a row is written while another job holds it.
WriteRowUnlocked(w, x) ==
    /\ x \in job[w].locking \ job[w].held
    /\ job' = [job EXCEPT ![w] =
           IF job[w].own[x] = "new" /\ txn[x] # "absent" THEN Idle
           ELSE [job[w] EXCEPT !.held = @ \cup {x}]]
    /\ UNCHANGED <<push, payment, txn, booked, decision, lease, started, crashes>>

\* The next row the flush writes; an INSERT needs the external_id to be unused.
WriteRow(w, x) ==
    /\ x \in job[w].locking \ job[w].held
    /\ HeldByNone(x)
    /\ job' = [job EXCEPT ![w] =
           IF job[w].own[x] = "new" /\ txn[x] # "absent" THEN Idle
           ELSE [job[w] EXCEPT !.held = @ \cup {x}]]
    /\ UNCHANGED <<push, payment, txn, booked, decision, lease, started, crashes>>

Flushed(w) == job[w].locking = job[w].held

\* The poll, once its flush is done, goes on to all rows that are received by now,
\* except those it has read as pending: the session keeps those as they were.
StartMatching(w) ==
    /\ job[w].pc = "writing" /\ Flushed(w)
    /\ LET found == {x \in Txns : job[w].own[x] = "unread" /\ txn[x] = "received"}
       IN  job' = [job EXCEPT ![w].pc = "matching",
                              ![w].own = [x \in Txns |-> IF x \in found THEN "received" ELSE @[x]],
                              ![w].todo = found \cup {x \in Txns : job[w].own[x] = "received"}]
    /\ UNCHANGED <<push, payment, txn, booked, decision, lease, started, crashes>>

\* Mutants: the duplicate check is missing; without a lease the row is left alone.
MatchUnchecked(w, x) ==
    /\ job[w].pc = "matching" /\ Flushed(w) /\ x \in job[w].todo
    /\ job' = [job EXCEPT ![w] =
           [job[w] EXCEPT !.todo = @ \ {x}, !.paid[x] = lease,
                          !.own[x] = IF lease = 0 THEN "unmatched" ELSE "matched",
                          !.locking = @ \cup {x}, !.written = @ \cup {x}]]
    /\ UNCHANGED <<push, payment, txn, booked, decision, lease, started, crashes>>
MatchLeavesReceived(w, x) ==
    /\ job[w].pc = "matching" /\ Flushed(w) /\ x \in job[w].todo
    /\ job' = [job EXCEPT ![w] =
           IF lease = 0 \/ booked[x][lease] > 0
             THEN [job[w] EXCEPT !.todo = @ \ {x}]
           ELSE [job[w] EXCEPT !.todo = @ \ {x}, !.own[x] = "matched", !.paid[x] = lease,
                               !.locking = @ \cup {x}, !.written = @ \cup {x}]]
    /\ UNCHANGED <<push, payment, txn, booked, decision, lease, started, crashes>>

\* match_transaction.  More than one payment with the reference makes
\* scalar_one_or_none raise, and the job is rolled back.
Match(w, x) ==
    /\ job[w].pc = "matching" /\ Flushed(w) /\ x \in job[w].todo
    /\ job' = [job EXCEPT ![w] =
           IF lease = 0
             THEN [job[w] EXCEPT !.todo = @ \ {x}, !.own[x] = "unmatched",
                                 !.locking = @ \cup {x}, !.written = @ \cup {x}]
           ELSE IF booked[x][lease] = 0
             THEN [job[w] EXCEPT !.todo = @ \ {x}, !.own[x] = "matched", !.paid[x] = lease,
                                 !.locking = @ \cup {x}, !.written = @ \cup {x}]
           ELSE IF booked[x][lease] = 1
             THEN [job[w] EXCEPT !.todo = @ \ {x}]
           ELSE Idle]
    /\ UNCHANGED <<push, payment, txn, booked, decision, lease, started, crashes>>

\* Mutant: an unknown push is stored with no status of a row.
LeftRaw(w, x) == IF x \in job[w].written THEN job[w].own[x] ELSE txn[x]
\* The status of row x as the job leaves it.
Left(w, x) ==
    CASE x \notin job[w].written -> txn[x]
      [] x \in job[w].written /\ job[w].own[x] = "new" -> "unmatched"
      [] OTHER -> job[w].own[x]

\* Mutant: the webhook leaves the failure to the poll.
FailureKnownToPoll(w, x) == Left(w, x) \in Failures /\ w \in Pollers

\* _propagate_provider_failure: the webhook for its row, the poll for all rows.
FailureKnown(w, x) ==
    /\ Left(w, x) \in Failures
    /\ w \in Pollers \/ x \in job[w].written

Commit(w) ==
    /\ job[w].pc = "matching" /\ Flushed(w) /\ job[w].todo = {}
    /\ txn' = [x \in Txns |-> Left(w, x)]
    /\ booked' = [x \in Txns |-> [l \in 1..Leases |->
                     booked[x][l] + (IF job[w].paid[x] = l THEN 1 ELSE 0)]]
    /\ payment' = [x \in Txns |-> IF FailureKnown(w, x) /\ payment[x] = "pending"
                                  THEN "permanently_failed" ELSE payment[x]]
    /\ job' = [job EXCEPT ![w] = Idle]
    /\ UNCHANGED <<push, decision, lease, started, crashes>>

\* A worker dies, or the handler raises: nothing of the job remains.
Crash(w) ==
    /\ job[w].pc # "idle" /\ crashes < MaxCrashes
    /\ crashes' = crashes + 1
    /\ job' = [job EXCEPT ![w] = Idle]
    /\ UNCHANGED <<push, payment, txn, booked, decision, lease, started>>

-----------------------------------------------------------------------------
PushStep == \E x \in Txns :
    AskProvider(x) \/ SavePush(x) \/ SavePaymentOnly(x) \/ LosePush(x)

JobStarts == \E x \in Txns, w \in Servers : ReceiveWebhook(w, x) \/ MatchByHand(w, x)

Carries(w) == StartMatching(w) \/ Commit(w) \/ \E x \in Txns : Match(w, x)

Next ==
    \/ PushStep
    \/ \E x \in Txns : ProviderDecides(x)
    \/ LeaseStarts \/ LeaseEnds
    \/ JobStarts
    \/ \E w \in Pollers, answered \in SUBSET Txns : StartPoll(w, answered)
    \/ \E w \in Workers : Carries(w) \/ Crash(w) \/ \E x \in Txns : WriteRow(w, x)

\* Workers carry on with what they have begun, row locks are granted in turn, and
\* beat starts the poll again and again, the provider answering it now and then.
\* Neither webhooks, nor staff, nor the provider's decision have to come.
Spec ==
    /\ Init /\ [][Next]_vars
    /\ \A w \in Workers : WF_vars(Carries(w)) /\ \A x \in Txns : SF_vars(WriteRow(w, x))
    /\ \A w \in Pollers : SF_vars(StartPoll(w, {x \in Txns : txn[x] = "pending"}))

-----------------------------------------------------------------------------
(***************************************************************************)
(* Properties.                                                             *)
(***************************************************************************)
Bookings(x) == {l \in 1..Leases : booked[x][l] > 0}

\* However often and however late a collection is reported, polled or matched by
\* hand, and whichever jobs overlap, it is booked once, as long as the tenant has
\* had no second lease.
BookedOncePerLease ==
    started <= 1 => \A x \in Txns : \A l \in 1..Leases : booked[x][l] <= 1

\* A row that says its money came in or was matched has its payment: nothing stays
\* received and unbooked (which is what reconcile_unmatched_transactions looks for).
ReceivedIsBooked ==
    \A x \in Txns : txn[x] \in {"received", "matched"} => Bookings(x) # {}

\* A row the poll will match again never makes the matching raise on the lease it
\* is matched with: if it did, every poll of this provider would be rolled back from
\* then on.
PollIsNeverBlocked ==
    lease # 0 => \A x \in Txns : txn[x] = "received" => booked[x][lease] <= 1

\* A payment from before v4 is failed with its push, whichever job learns of it.
FailedPushFailsItsPayment ==
    \A x \in Txns : txn[x] \in Failures => payment[x] # "pending"

\* A push on file that the provider has decided does not stay pending, although no
\* webhook comes.
PendingIsResolved == \A x \in Txns :
    txn[x] = "pending" /\ decision[x] # "none" ~> txn[x] # "pending"

\* models/mobile_money.py: external_id is the idempotency key.
BookedOnce == \A x \in Txns : Cardinality(Bookings(x)) <= 1

\* models/mobile_money.py: received means that the provider confirmed the payment;
\* what is booked was received.
BookedWasCollected == \A x \in Txns : Bookings(x) # {} => decision[x] = "received"

\* worker/tasks/payments.py: failed and expired pushes fail their payment.
FailurePropagates == \A x \in Txns :
    txn[x] \in Failures ~>
        payment[x] \notin {"initiated", "pending"} \/ txn[x] \notin Failures
=============================================================================
