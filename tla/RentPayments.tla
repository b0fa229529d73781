---------------------------- MODULE RentPayments ----------------------------
(***************************************************************************)
(* The money of one lease: its payments, the rent schedules they settle,   *)
(* the allocation rows between the two, the tenant's wallet, the security  *)
(* deposit and the ledger.  Every action is one committed database         *)
(* transaction of backend/app: a request handler of payment_service.py or  *)
(* a Celery task.  A handler that raises is rolled back by get_db, so it   *)
(* leaves no step; handlers that interleave are in ConcurrentPayments.     *)
(*                                                                         *)
(* Amounts are integers (minor units).  Schedules are numbered by due      *)
(* date.  The categories rent, late_fee, utility and other take the same   *)
(* path through every handler and are the one category "rent" here.        *)
(***************************************************************************)
EXTENDS PaymentStates, Integers, FiniteSets, Functions

CONSTANTS
    Payments,    \* identifiers a payment row may get
    N,           \* bound: rent schedules generated at most
    Rent,        \* lease.monthly_rent, the amount_due of every schedule
    LateFee,     \* the flat late fee of the lease
    Amounts,     \* bound: payment amounts requests may carry
    MaxFees,     \* bound: late fee rows per schedule
    MaxRetries,  \* organisation setting payments.maxRetries
    MaxWallet,   \* bound: manual wallet credits in total
    MaxDeducted  \* bound: deposit deductions in total

ASSUME ConstantsAssumption ==
    /\ IsFiniteSet(Payments)
    /\ N \in Nat \ {0} /\ Rent \in Nat \ {0} /\ LateFee \in Nat \ {0}
    /\ Amounts \subseteq Nat \ {0}
    /\ MaxFees \in Nat /\ MaxRetries \in Nat /\ MaxWallet \in Nat /\ MaxDeducted \in Nat

VARIABLES
    payment,     \* payment[p]: the Payment row p, or NoRow
    periods,     \* schedules 1..periods have been generated
    schedule,    \* schedule[s]: the RentSchedule row s
    fees,        \* fees[s]: the LateFee rows of s, counted, and those waived
    alloc,       \* alloc[p][s]: PaymentAllocation.amount_applied, 0 for no row
    wallet,      \* TenantWallet.balance and its WalletTransaction rows, per origin
    deposit,     \* the Deposit row
    ledger,      \* balance_after of the last LedgerEntry and the rows' sum per payment
    orgRefunded  \* history: payments whose refund event names refund_payment_by_org

vars == <<payment, periods, schedule, fees, alloc, wallet, deposit, ledger, orgRefunded>>

Schedules == 1..N
Categories == {"rent", "deposit"}
NoRow == [status |-> "absent", amount |-> 0, category |-> "rent", link |-> 0, retries |-> 0]

Min2(a, b) == IF a <= b THEN a ELSE b
Max2(a, b) == IF a >= b THEN a ELSE b

PaymentRows  == [status: Statuses \cup {"absent"}, amount: Nat, category: Categories,
                 link: 0..N, retries: 0..MaxRetries]
ScheduleRows == [paid: Nat, fee: Nat, status: {"pending", "overdue", "paid", "waived"}]
FeeCounts    == [charged: Nat, waived: Nat]
Wallets      == [balance: Nat, net: [Payments -> Int], manual: Nat]
Deposits     == [exists: BOOLEAN, held: Nat, returned: Nat, deducted: Nat,
                 status: {"held", "partially_returned", "fully_returned"}]
Ledgers      == [balance: Int, net: [Payments -> Int]]

TypeOK ==
    /\ payment \in [Payments -> PaymentRows]
    /\ periods \in 0..N
    /\ schedule \in [Schedules -> ScheduleRows]
    /\ fees \in [Schedules -> FeeCounts]
    /\ alloc \in [Payments -> [Schedules -> Nat]]
    /\ wallet \in Wallets
    /\ deposit \in Deposits
    /\ ledger \in Ledgers
    /\ orgRefunded \subseteq Payments

-----------------------------------------------------------------------------
(* What the handlers compute from the tables. *)

Status(p)   == payment[p].status
Exists(p)   == Status(p) # "absent"
Due(s)      == Rent + schedule[s].fee
IsOpen(s)   == s <= periods /\ schedule[s].status \in {"pending", "overdue"}
\* Mutant: what was already paid on the schedule is not taken off.
BalanceGross(s) == IF IsOpen(s) THEN Due(s) ELSE 0
Balance(s)  == IF IsOpen(s) THEN Max2(0, Due(s) - schedule[s].paid) ELSE 0

\* Mutant: the loop covers the rent only and passes a schedule's late fee by.
LeftoversIgnoringFees(amount) ==
    {rem \in [0..N -> 0..amount] :
        /\ rem[0] = amount
        /\ \A s \in Schedules : rem[s] = rem[s - 1] -
               Min2(IF IsOpen(s) THEN Max2(0, Rent - schedule[s].paid) ELSE 0, rem[s - 1])}

\* The loop of allocate_payment: rem[s] is what is left of the amount after it
\* has passed schedule s, oldest first.
Leftovers(amount) ==
    {rem \in [0..N -> 0..amount] :
        /\ rem[0] = amount
        /\ \A s \in Schedules : rem[s] = rem[s - 1] - Min2(Balance(s), rem[s - 1])}

\* The sum of a payment's allocation rows (the query of get_overpayment_for_payment).
Total(rows) == SumFunctionOnSet(rows, Schedules)

-----------------------------------------------------------------------------
(* Effects the handlers share. *)

\* create_ledger_entry: a debit raises the running balance, a credit lowers it.
LedgerPosted(p, debit) ==
    [balance |-> ledger.balance + debit, net |-> [ledger.net EXCEPT ![p] = @ + debit]]

\* credit_wallet and debit_wallet with reference_id p.
WalletPosted(p, credit) ==
    [wallet EXCEPT !.balance = @ + credit, !.net[p] = @ + credit]

\* A schedule that receives money; it becomes paid when it is settled in full.
Credited(s, applied) ==
    IF applied = 0 THEN schedule[s]
    ELSE [schedule[s] EXCEPT
             !.paid   = @ + applied,
             !.status = IF schedule[s].paid + applied >= Due(s) THEN "paid" ELSE @]

\* Mutants: amount_paid not clamped at 0; a paid schedule keeps its status.
DebitedUnclamped(s, applied) ==
    IF applied = 0 THEN schedule[s]
    ELSE [schedule[s] EXCEPT !.paid = @ - applied, !.status = IF @ = "paid" THEN "pending" ELSE @]
DebitedStillPaid(s, applied) ==
    IF applied = 0 THEN schedule[s] ELSE [schedule[s] EXCEPT !.paid = Max2(0, @ - applied)]

\* A schedule an allocation is taken back from.
Debited(s, applied) ==
    IF applied = 0 THEN schedule[s]
    ELSE [schedule[s] EXCEPT
             !.paid   = Max2(0, @ - applied),
             !.status = IF @ = "paid" THEN "pending" ELSE @]

\* Mutant: only schedules that are still paid give the allocation back.
ReverseAllocationsOfPaid(p) ==
    /\ schedule' = [s \in Schedules |->
          IF schedule[s].status = "paid" THEN Debited(s, alloc[p][s]) ELSE schedule[s]]
    /\ UNCHANGED alloc

\* reverse_allocations keeps the allocation rows, for audit.
ReverseAllocations(p) ==
    /\ schedule' = [s \in Schedules |-> Debited(s, alloc[p][s])]
    /\ UNCHANGED alloc

\* Taking the money of payment p in: the deposit, or the schedules oldest first
\* with the rest to the wallet, and the ledger credits that go with it.
BookDeposit(p, amount) ==
    /\ deposit' = IF deposit.exists THEN [deposit EXCEPT !.held = @ + amount] ELSE deposit
    /\ ledger'  = LedgerPosted(p, 0 - amount)
    /\ UNCHANGED <<schedule, alloc, wallet>>

\* Mutants: the wallet credit without its ledger entry; the rest of the money
\* dropped, as backfill_import_settlement does with what allocate_payment returns.
BookRentOneEntry(p, amount) ==
    \E rem \in Leftovers(amount) :
        /\ alloc'    = [alloc EXCEPT ![p] = [s \in Schedules |-> rem[s - 1] - rem[s]]]
        /\ schedule' = [s \in Schedules |-> Credited(s, rem[s - 1] - rem[s])]
        /\ wallet'   = WalletPosted(p, rem[N])
        /\ ledger'   = LedgerPosted(p, 0 - amount)
        /\ UNCHANGED deposit
BookRentDropsRest(p, amount) ==
    \E rem \in Leftovers(amount) :
        /\ alloc'    = [alloc EXCEPT ![p] = [s \in Schedules |-> rem[s - 1] - rem[s]]]
        /\ schedule' = [s \in Schedules |-> Credited(s, rem[s - 1] - rem[s])]
        /\ ledger'   = LedgerPosted(p, 0 - amount)
        /\ UNCHANGED <<deposit, wallet>>

BookRent(p, amount) ==
    \E rem \in Leftovers(amount) :
        /\ alloc'    = [alloc EXCEPT ![p] = [s \in Schedules |-> rem[s - 1] - rem[s]]]
        /\ schedule' = [s \in Schedules |-> Credited(s, rem[s - 1] - rem[s])]
        /\ wallet'   = WalletPosted(p, rem[N])
        /\ ledger'   = LedgerPosted(p, 0 - (amount + rem[N]))
        /\ UNCHANGED deposit

Book(p, amount, category) ==
    \/ category = "deposit" /\ BookDeposit(p, amount)
    \/ category = "rent" /\ BookRent(p, amount)

Moved(p, to) == [payment EXCEPT ![p].status = to]

-----------------------------------------------------------------------------
(* Rows created before the v4 state machine are still in the table: a      *)
(* legacy payment is pending or failed, with no allocation yet.            *)
LegacyRow(a, st, r) ==
    [status |-> st, amount |-> a, category |-> "rent", link |-> 0, retries |-> r]

Init ==
    /\ payment \in [Payments -> {NoRow}
            \cup {LegacyRow(a, "pending", 0) : a \in Amounts}
            \cup {LegacyRow(a, "failed", r) : a \in Amounts, r \in {0, MaxRetries}}]
    /\ periods = 0
    /\ schedule = [s \in Schedules |-> [paid |-> 0, fee |-> 0, status |-> "pending"]]
    /\ fees = [s \in Schedules |-> [charged |-> 0, waived |-> 0]]
    /\ alloc = [p \in Payments |-> [s \in Schedules |-> 0]]
    /\ wallet = [balance |-> 0, net |-> [p \in Payments |-> 0], manual |-> 0]
    /\ deposit = [exists |-> FALSE, held |-> 0, returned |-> 0, deducted |-> 0, status |-> "held"]
    /\ ledger = [balance |-> 0, net |-> [p \in Payments |-> 0]]
    /\ orgRefunded = {}

-----------------------------------------------------------------------------
(* Schedules and the deposit row come into being. *)

\* generate_rent_schedules on activation or onboarding, extend_rolling_schedules
\* every day: the missing periods up to the horizon, in one transaction.
GenerateRentSchedules ==
    /\ periods' \in (periods + 1)..N
    /\ UNCHANGED <<payment, schedule, fees, alloc, wallet, deposit, ledger, orgRefunded>>

CreateDepositRecord ==
    /\ ~deposit.exists
    /\ deposit' = [deposit EXCEPT !.exists = TRUE]
    /\ UNCHANGED <<payment, periods, schedule, fees, alloc, wallet, ledger, orgRefunded>>

-----------------------------------------------------------------------------
(* Payments. *)

CreatePayment(p, amount, category, link) ==
    /\ ~Exists(p)
    /\ link # 0 => link <= periods /\ schedule[link].status # "waived"
    /\ payment' = [payment EXCEPT ![p] =
            [status |-> "initiated", amount |-> amount, category |-> category,
             link |-> link, retries |-> 0]]
    /\ UNCHANGED <<periods, schedule, fees, alloc, wallet, deposit, ledger, orgRefunded>>

RecordManualPayment(p, amount, category) ==
    /\ ~Exists(p)
    /\ payment' = [payment EXCEPT ![p] =
            [status |-> "completed", amount |-> amount, category |-> category,
             link |-> 0, retries |-> 0]]
    /\ Book(p, amount, category)
    /\ UNCHANGED <<periods, fees, orgRefunded>>

\* backfill_import_settlement, run once by the import of a lease that has no other
\* payment: a completed payment for the first k periods.  What allocate_payment
\* returns is dropped, so nothing would reach the wallet.
ImportSettlement(p, k) ==
    /\ \A q \in Payments : ~Exists(q)
    /\ k <= periods
    /\ \A s \in Schedules : schedule[s] = [paid |-> 0, fee |-> 0, status |-> "pending"]
    /\ payment' = [payment EXCEPT ![p] =
            [status |-> "completed", amount |-> k * Rent, category |-> "rent",
             link |-> 0, retries |-> 0]]
    /\ \E rem \in Leftovers(k * Rent) :
         /\ alloc'    = [alloc EXCEPT ![p] = [s \in Schedules |-> rem[s - 1] - rem[s]]]
         /\ schedule' = [s \in Schedules |-> Credited(s, rem[s - 1] - rem[s])]
         /\ ledger'   = LedgerPosted(p, 0 - k * Rent)
    /\ UNCHANGED <<periods, fees, wallet, deposit, orgRefunded>>

\* Mutant: no check that the payment is already confirmed.
ConfirmPaymentAgain(p) ==
    /\ Status(p) \in Confirmable \cup SuccessfulTerminal
    /\ Book(p, payment[p].amount, payment[p].category)
    /\ payment' = Moved(p, "completed")
    /\ UNCHANGED <<periods, fees, orgRefunded>>

\* confirm_payment.  Its last step, advance_to_completed, raises unless every
\* transition on the way is in the table.
ConfirmPayment(p) ==
    /\ Status(p) \in Confirmable \ SuccessfulTerminal
    /\ CanAdvance(Status(p))
    /\ Book(p, payment[p].amount, payment[p].category)
    /\ payment' = Moved(p, "completed")
    /\ UNCHANGED <<periods, fees, orgRefunded>>

\* refund_payment.  What was not allocated counts as the overpayment; the wallet
\* gives it back if it still holds that much.
RefundPayment(p) ==
    /\ Status(p) \in SuccessfulTerminal
    /\ CanMove(Status(p), "refunded")
    /\ payment' = Moved(p, "refunded")
    /\ ReverseAllocations(p)
    /\ deposit' = IF payment[p].category = "deposit" /\ deposit.exists
                  THEN [deposit EXCEPT !.held = Max2(0, @ - payment[p].amount)]
                  ELSE deposit
    /\ LET over     == Max2(0, payment[p].amount - Total(alloc[p]))
           reversed == IF wallet.balance >= over THEN over ELSE 0
       IN  /\ wallet' = WalletPosted(p, 0 - reversed)
           /\ ledger' = LedgerPosted(p, reversed + payment[p].amount)
    /\ UNCHANGED <<periods, fees, orgRefunded>>

\* refund_payment_by_org, behind PATCH /payments/{id}/refund: of all the effects
\* of the confirmation it undoes only the linked schedule's amount_paid.
RefundPaymentByOrg(p) ==
    LET link == payment[p].link IN
    /\ Status(p) \in SuccessfulTerminal
    /\ CanMove(Status(p), "refunded")
    /\ payment' = Moved(p, "refunded")
    /\ schedule' = IF link = 0 THEN schedule
                   ELSE [schedule EXCEPT ![link] = Debited(link, payment[p].amount)]
    /\ orgRefunded' = orgRefunded \cup {p}
    /\ UNCHANGED <<periods, fees, alloc, wallet, deposit, ledger>>

RejectPayment(p) ==
    /\ Status(p) \in RejectableByStaff
    /\ CanMove(Status(p), "rejected")
    /\ payment' = Moved(p, "rejected")
    /\ ReverseAllocations(p)
    /\ ledger' = LedgerPosted(p, payment[p].amount)
    /\ UNCHANGED <<periods, fees, wallet, deposit, orgRefunded>>

CancelPayment(p) ==
    /\ Status(p) \in CancellableByTenant
    /\ CanMove(Status(p), "cancelled")
    /\ payment' = Moved(p, "cancelled")
    /\ ledger' = LedgerPosted(p, payment[p].amount)
    /\ UNCHANGED <<periods, schedule, fees, alloc, wallet, deposit, orgRefunded>>

\* retry_payment: to retry_scheduled unless already there, then to routed.  At
\* the maximum it raises, and the transition it made is rolled back.
RetryPayment(p) ==
    /\ Status(p) \in Retryable
    /\ payment[p].retries < MaxRetries
    /\ Status(p) = "retry_scheduled" \/ CanMove(Status(p), "retry_scheduled")
    /\ CanMove("retry_scheduled", "routed")
    /\ payment' = [payment EXCEPT ![p].status = "routed", ![p].retries = @ + 1]
    /\ UNCHANGED <<periods, schedule, fees, alloc, wallet, deposit, ledger, orgRefunded>>

\* Mutant: a late failure report overwrites whatever the payment has become.
MarkPaymentFailedLate(p) ==
    /\ Exists(p)
    /\ payment' = Moved(p, "permanently_failed")
    /\ UNCHANGED <<periods, schedule, fees, alloc, wallet, deposit, ledger, orgRefunded>>

\* mark_payment_failed, called when a provider reports failure for a transaction
\* linked to a payment that is pending.
MarkPaymentFailed(p) ==
    /\ Status(p) = "pending"
    /\ Status(p) \notin Terminal /\ CanMove(Status(p), "permanently_failed")
    /\ payment' = Moved(p, "permanently_failed")
    /\ UNCHANGED <<periods, schedule, fees, alloc, wallet, deposit, ledger, orgRefunded>>

-----------------------------------------------------------------------------
(* Schedules and late fees. *)

WaiveSchedule(s) ==
    /\ s <= periods
    /\ schedule[s].status # "paid"
    /\ schedule' = [schedule EXCEPT ![s].status = "waived"]
    /\ UNCHANGED <<payment, periods, fees, alloc, wallet, deposit, ledger, orgRefunded>>

\* mark_overdue_schedules: every pending schedule due before today.  The day is
\* any day, so the schedules due are those up to some k.
MarkOverdueSchedules(k) ==
    /\ schedule' = [s \in Schedules |->
            IF s <= k /\ s <= periods /\ schedule[s].status = "pending"
            THEN [schedule[s] EXCEPT !.status = "overdue"] ELSE schedule[s]]
    /\ UNCHANGED <<payment, periods, fees, alloc, wallet, deposit, ledger, orgRefunded>>

\* apply_late_fee, by staff: the first fee of a schedule only.
ApplyLateFee(s) ==
    /\ IsOpen(s)
    /\ fees[s].charged = 0
    /\ MaxFees > 0
    /\ fees' = [fees EXCEPT ![s].charged = 1]
    /\ schedule' = [schedule EXCEPT ![s].fee = @ + LateFee, ![s].status = "overdue"]
    /\ UNCHANGED <<payment, periods, alloc, wallet, deposit, ledger, orgRefunded>>

\* apply_late_fees_task: one row for every uncharged day of every overdue
\* schedule past its grace period; how many days that is, is open here.
ApplyLateFeesTask ==
    \E days \in [Schedules -> 0..MaxFees] :
        /\ \A s \in Schedules :
             /\ days[s] > 0 => s <= periods /\ schedule[s].status = "overdue"
             /\ fees[s].charged + days[s] <= MaxFees
        /\ fees' = [s \in Schedules |-> [fees[s] EXCEPT !.charged = @ + days[s]]]
        /\ schedule' = [s \in Schedules |-> [schedule[s] EXCEPT !.fee = @ + days[s] * LateFee]]
        /\ UNCHANGED <<payment, periods, alloc, wallet, deposit, ledger, orgRefunded>>

\* waive_late_fee (one row) and bulk_waive_late_fees (any set of rows): the
\* schedule's total goes down, its status is left as it is.
WaiveLateFees ==
    \E rows \in [Schedules -> 0..MaxFees] :
        /\ \A s \in Schedules : rows[s] <= fees[s].charged - fees[s].waived
        /\ fees' = [s \in Schedules |-> [fees[s] EXCEPT !.waived = @ + rows[s]]]
        /\ schedule' = [s \in Schedules |->
                          [schedule[s] EXCEPT !.fee = Max2(0, @ - rows[s] * LateFee)]]
        /\ UNCHANGED <<payment, periods, alloc, wallet, deposit, ledger, orgRefunded>>

-----------------------------------------------------------------------------
(* Deposit and wallet. *)

\* return_deposit compares with what is held, not with what is still held.
ReturnDeposit(net, deduction) ==
    /\ deposit.exists
    /\ deposit.status # "fully_returned"
    /\ net + deduction <= deposit.held
    /\ deposit.deducted + deduction <= MaxDeducted
    /\ deposit' = [deposit EXCEPT
            !.returned = @ + net,
            !.deducted = @ + deduction,
            !.status = IF deposit.returned + net >= deposit.held
                       THEN "fully_returned" ELSE "partially_returned"]
    /\ UNCHANGED <<payment, periods, schedule, fees, alloc, wallet, ledger, orgRefunded>>

CreditTenantWallet(amount) ==
    /\ wallet.manual + amount <= MaxWallet
    /\ wallet' = [wallet EXCEPT !.balance = @ + amount, !.manual = @ + amount]
    /\ UNCHANGED <<payment, periods, schedule, fees, alloc, deposit, ledger, orgRefunded>>

-----------------------------------------------------------------------------
PaymentStep(p) ==
    \/ \E a \in Amounts, c \in Categories, l \in 0..N : CreatePayment(p, a, c, l)
    \/ \E a \in Amounts, c \in Categories : RecordManualPayment(p, a, c)
    \/ \E k \in Schedules : ImportSettlement(p, k)
    \/ ConfirmPayment(p)
    \/ RefundPayment(p)
    \/ RefundPaymentByOrg(p)
    \/ RejectPayment(p)
    \/ CancelPayment(p)
    \/ RetryPayment(p)
    \/ MarkPaymentFailed(p)

ScheduleStep ==
    \/ GenerateRentSchedules
    \/ \E s \in Schedules : WaiveSchedule(s)
    \/ \E k \in Schedules : MarkOverdueSchedules(k)
    \/ \E s \in Schedules : ApplyLateFee(s)
    \/ ApplyLateFeesTask
    \/ WaiveLateFees

Next ==
    \/ \E p \in Payments : PaymentStep(p)
    \/ ScheduleStep
    \/ CreateDepositRecord
    \/ \E n \in Amounts \cup {0}, d \in 0..MaxDeducted : ReturnDeposit(n, d)
    \/ \E a \in Amounts : CreditTenantWallet(a)

Spec == Init /\ [][Next]_vars

-----------------------------------------------------------------------------
(***************************************************************************)
(* Properties.                                                             *)
(***************************************************************************)
Settled(p)   == Status(p) \in SuccessfulTerminal

\* The ledger, the wallet and the status of a payment tell the same story: what
\* the ledger says of a payment is the amount if it was taken (negative, a
\* credit) or turned down (positive, a debit), and besides that the exact
\* counterpart of what the payment put into the wallet and has not been taken
\* back.  It relates the entries confirm_payment, refund_payment, reject_payment
\* and cancel_payment write one at a time.
BooksFollowStatus ==
    \A p \in Payments :
        ledger.net[p] + wallet.net[p] =
            IF Settled(p) \/ p \in orgRefunded THEN 0 - payment[p].amount
            ELSE IF Status(p) \in HumanTerminal THEN payment[p].amount
            ELSE 0

\* A schedule is marked paid only while it is covered in full: no confirmation,
\* refund, fee or fee waiver leaves status paid on a schedule that still owes.
PaidMeansCovered ==
    \A s \in Schedules : schedule[s].status = "paid" => schedule[s].paid >= Due(s)

\* A schedule never swallows more money than was ever charged on it, fees that
\* were waived later included; the rest of a payment must move on to the next
\* schedule or the wallet (allocate_payment against waive_late_fee).
NoScheduleOverfilled ==
    \A s \in Schedules : schedule[s].paid <= Rent + fees[s].charged * LateFee

\* What a schedule has of each payment that stands.
StandingShare(s) == [p \in Payments |-> IF Settled(p) THEN alloc[p][s] ELSE 0]

\* As long as no payment was refunded through the organisation route, a
\* schedule's amount_paid is explained by allocation rows: the sum over the
\* payments that stand.  (RefundPaymentByOrg breaks it: it reverses no rows.)
AllocationsExplainSchedules ==
    orgRefunded = {} =>
        \A s \in Schedules : schedule[s].paid = SumFunctionOnSet(StandingShare(s), Payments)

\* Every unit of a rent payment that stands went somewhere, once: to schedules
\* or to the wallet, and refunds of other payments do not touch its share.
RentFullyAccounted ==
    \A p \in Payments :
        Settled(p) /\ payment[p].category = "rent" =>
            Total(alloc[p]) + wallet.net[p] = payment[p].amount

\* The deposit payments that stand, or were refunded through the organisation route.
DepositShare ==
    [p \in Payments |->
        IF payment[p].category = "deposit" /\ (Settled(p) \/ p \in orgRefunded)
        THEN payment[p].amount ELSE 0]

\* The deposit row never claims more than the deposit payments that stand (a
\* refund through the organisation route is not deducted from it).
DepositBackedByPayments == deposit.held <= SumFunctionOnSet(DepositShare, Payments)

\* What get_overpayment_for_payment's comment promises of a deposit payment, that
\* it has no overpayment: refunding one leaves the wallet alone.
DepositsLeaveWalletAlone ==
    \A p \in Payments : payment[p].category = "deposit" => wallet.net[p] = 0

\* Money goes to the oldest debt first: a step that gives a payment's money to a
\* schedule, or to the wallet, leaves every older open schedule covered in full.
MoneyGoesOldestFirst ==
    [][\A p \in Payments :
         /\ \A s \in Schedules : alloc'[p][s] > alloc[p][s] =>
                \A t \in 1..(s - 1) : IsOpen(t) => schedule'[t].paid >= Due(t)
         /\ wallet'.net[p] > wallet.net[p] =>
                \A t \in Schedules : IsOpen(t) => schedule'[t].paid >= Due(t)]_vars

ClosedStep ==
    \A p \in Payments : Status(p) \in Closed =>
         /\ payment'[p] = payment[p]
         /\ alloc'[p] = alloc[p]
         /\ wallet'.net[p] = wallet.net[p]
         /\ ledger'.net[p] = ledger.net[p]

\* Nothing is booked against a payment once it is closed (refunded, rejected,
\* cancelled, permanently failed): no second refund, no late confirmation, no
\* retry, by whichever route.
ClosedPaymentsStayClosed == [][ClosedStep]_vars
============================================================================
