------------------------- MODULE RentPaymentsProofs -------------------------
(***************************************************************************)
(* Proofs about RentPayments, for every set of payments, every number of   *)
(* schedules and every rent, late fee and bound.                           *)
(***************************************************************************)
EXTENDS RentPayments, SumTheorems, TLAPS

LEMMA BalanceNat ==
    ASSUME TypeOK, NEW s \in Schedules
    PROVE  Balance(s) \in Nat /\ Due(s) \in Nat
<1>1. schedule[s].paid \in Nat /\ schedule[s].fee \in Nat
  BY DEF TypeOK, ScheduleRows
<1>2. Due(s) \in Nat
  BY <1>1, ConstantsAssumption DEF Due
<1>3. Due(s) - schedule[s].paid \in Int
  BY <1>1, <1>2
<1>4. Max2(0, Due(s) - schedule[s].paid) \in Nat
  BY <1>3 DEF Max2
<1>5. Balance(s) \in Nat
  BY <1>4 DEF Balance
<1> QED
  BY <1>2, <1>5

\* Passing one schedule, the loop of allocate_payment leaves no more than before,
\* and takes no more than the schedule owes.
LEMMA LeftoverStep ==
    ASSUME TypeOK, NEW amount \in Nat, NEW rem \in Leftovers(amount), NEW s \in Schedules
    PROVE  /\ rem[s - 1] \in Nat /\ rem[s] \in Nat
           /\ rem[s - 1] - rem[s] \in Nat
           /\ rem[s - 1] - rem[s] <= Balance(s)
<1>1. s \in 0..N /\ s - 1 \in 0..N
  BY ConstantsAssumption DEF Schedules
<1>2. rem \in [0..N -> 0..amount] /\ rem[s] = rem[s - 1] - Min2(Balance(s), rem[s - 1])
  BY DEF Leftovers
<1>3. rem[s - 1] \in Nat /\ rem[s] \in Nat
  BY <1>1, <1>2
<1>4. Balance(s) \in Nat
  BY BalanceNat
<1>5. /\ Min2(Balance(s), rem[s - 1]) \in Nat
      /\ Min2(Balance(s), rem[s - 1]) <= Balance(s)
  BY <1>3, <1>4 DEF Min2
<1>6. rem[s - 1] - rem[s] = Min2(Balance(s), rem[s - 1])
  BY <1>2, <1>3, <1>5
<1> QED
  BY <1>3, <1>5, <1>6

LEMMA LeftoverNat ==
    ASSUME NEW amount \in Nat, NEW rem \in Leftovers(amount)
    PROVE  rem[N] \in Nat
BY ConstantsAssumption DEF Leftovers

LEMMA TotalNat ==
    ASSUME TypeOK, NEW p \in Payments
    PROVE  Total(alloc[p]) \in Nat
<1>1. IsFiniteSet(Schedules)
  BY ConstantsAssumption, FS_Interval DEF Schedules
<1>2. \A s \in Schedules : alloc[p][s] \in Nat
  BY DEF TypeOK
<1> QED
  BY <1>1, <1>2, SumNat DEF Total

LEMMA LedgerPost ==
    ASSUME TypeOK, NEW p \in Payments, NEW debit \in Int
    PROVE  /\ LedgerPosted(p, debit) \in Ledgers
           /\ LedgerPosted(p, debit).net[p] = ledger.net[p] + debit
           /\ \A q \in Payments \ {p} : LedgerPosted(p, debit).net[q] = ledger.net[q]
BY DEF TypeOK, Ledgers, LedgerPosted

LEMMA WalletPost ==
    ASSUME TypeOK, NEW p \in Payments, NEW credit \in Int, wallet.balance + credit >= 0
    PROVE  /\ WalletPosted(p, credit) \in Wallets
           /\ WalletPosted(p, credit).net[p] = wallet.net[p] + credit
           /\ \A q \in Payments \ {p} : WalletPosted(p, credit).net[q] = wallet.net[q]
<1>1. /\ wallet \in [balance: Nat, net: [Payments -> Int], manual: Nat]
      /\ wallet.balance \in Nat /\ wallet.net \in [Payments -> Int]
  BY DEF TypeOK, Wallets
<1>2. /\ wallet.balance + credit \in Nat
      /\ [wallet.net EXCEPT ![p] = @ + credit] \in [Payments -> Int]
  BY <1>1
<1>3. /\ WalletPosted(p, credit) \in [balance: Nat, net: [Payments -> Int], manual: Nat]
      /\ WalletPosted(p, credit).net = [wallet.net EXCEPT ![p] = @ + credit]
  BY <1>1, <1>2 DEF WalletPosted
<1> QED
  BY <1>1, <1>3 DEF Wallets

LEMMA CreditedRow ==
    ASSUME TypeOK, NEW s \in Schedules, NEW applied \in Nat
    PROVE  /\ Credited(s, applied) \in ScheduleRows
           /\ Credited(s, applied).paid = schedule[s].paid + applied
           /\ Credited(s, applied).fee = schedule[s].fee
<1>1. /\ schedule[s] \in [paid: Nat, fee: Nat, status: {"pending", "overdue", "paid", "waived"}]
      /\ schedule[s].paid \in Nat
  BY DEF TypeOK, ScheduleRows
<1>2. schedule[s].paid + applied \in Nat
  BY <1>1
<1>3. CASE applied = 0
  BY <1>1, <1>3 DEF Credited, ScheduleRows
<1>4. CASE applied # 0
  BY <1>1, <1>2, <1>4 DEF Credited, ScheduleRows
<1> QED
  BY <1>3, <1>4

LEMMA DebitedRow ==
    ASSUME TypeOK, NEW s \in Schedules, NEW applied \in Nat
    PROVE  /\ Debited(s, applied) \in ScheduleRows
           /\ Debited(s, applied).paid <= schedule[s].paid
           /\ Debited(s, applied).fee = schedule[s].fee
<1>1. /\ schedule[s] \in [paid: Nat, fee: Nat, status: {"pending", "overdue", "paid", "waived"}]
      /\ schedule[s].paid \in Nat
  BY DEF TypeOK, ScheduleRows
<1>2. /\ Max2(0, schedule[s].paid - applied) \in Nat
      /\ Max2(0, schedule[s].paid - applied) <= schedule[s].paid
  BY <1>1 DEF Max2
<1>3. CASE applied = 0
  BY <1>1, <1>3 DEF Debited, ScheduleRows
<1>4. CASE applied # 0
  BY <1>1, <1>2, <1>4 DEF Debited, ScheduleRows
<1> QED
  BY <1>3, <1>4

-----------------------------------------------------------------------------
(* Type correctness: the shared effects first, then one step per action. *)

LEMMA BookTyped ==
    ASSUME TypeOK, NEW p \in Payments, NEW amount \in Nat, NEW category,
           Book(p, amount, category)
    PROVE  /\ schedule' \in [Schedules -> ScheduleRows]
           /\ alloc' \in [Payments -> [Schedules -> Nat]]
           /\ wallet' \in Wallets
           /\ deposit' \in Deposits
           /\ ledger' \in Ledgers
<1>1. CASE BookDeposit(p, amount)
  <2>1. deposit \in Deposits /\ deposit.held + amount \in Nat
    BY DEF TypeOK, Deposits
  <2>2. deposit' \in Deposits
    BY <1>1, <2>1 DEF BookDeposit, Deposits
  <2>3. ledger' \in Ledgers
    BY <1>1, LedgerPost DEF BookDeposit
  <2> QED
    BY <1>1, <2>2, <2>3 DEF BookDeposit, TypeOK
<1>2. CASE BookRent(p, amount)
  <2>1. PICK rem \in Leftovers(amount) :
          /\ alloc'    = [alloc EXCEPT ![p] = [s \in Schedules |-> rem[s - 1] - rem[s]]]
          /\ schedule' = [s \in Schedules |-> Credited(s, rem[s - 1] - rem[s])]
          /\ wallet'   = WalletPosted(p, rem[N])
          /\ ledger'   = LedgerPosted(p, 0 - (amount + rem[N]))
          /\ UNCHANGED deposit
    BY <1>2 DEF BookRent
  <2>2. \A s \in Schedules : rem[s - 1] - rem[s] \in Nat
    BY LeftoverStep
  <2>3. rem[N] \in Nat
    BY LeftoverNat
  <2>4. alloc' \in [Payments -> [Schedules -> Nat]]
    BY <2>1, <2>2 DEF TypeOK
  <2>5. schedule' \in [Schedules -> ScheduleRows]
    BY <2>1, <2>2, CreditedRow
  <2>6. wallet.balance + rem[N] >= 0
    BY <2>3 DEF TypeOK, Wallets
  <2>7. wallet' \in Wallets
    BY <2>1, <2>3, <2>6, WalletPost
  <2>8. ledger' \in Ledgers
    BY <2>1, <2>3, LedgerPost
  <2> QED
    BY <2>1, <2>4, <2>5, <2>7, <2>8 DEF TypeOK
<1> QED
  BY <1>1, <1>2 DEF Book

LEMMA ReverseTyped ==
    ASSUME TypeOK, NEW p \in Payments, ReverseAllocations(p)
    PROVE  schedule' \in [Schedules -> ScheduleRows] /\ alloc' = alloc
<1>1. \A s \in Schedules : alloc[p][s] \in Nat
  BY DEF TypeOK
<1> QED
  BY <1>1, DebitedRow DEF ReverseAllocations

LEMMA MovedTyped ==
    ASSUME TypeOK, NEW p \in Payments, NEW to \in Statuses
    PROVE  Moved(p, to) \in [Payments -> PaymentRows]
<1>1. payment \in [Payments -> PaymentRows]
  BY DEF TypeOK
<1>2. [payment[p] EXCEPT !.status = to] \in PaymentRows
  BY <1>1 DEF PaymentRows
<1> QED
  BY <1>1, <1>2 DEF Moved

LEMMA PaymentRowTyped ==
    ASSUME TypeOK, NEW p \in Payments
    PROVE  /\ payment[p].amount \in Nat /\ payment[p].link \in 0..N
           /\ payment[p].retries \in 0..MaxRetries
BY DEF TypeOK, PaymentRows

LEMMA TypeInit == Init => TypeOK
<1> SUFFICES ASSUME Init PROVE TypeOK
  OBVIOUS
<1>1. NoRow \in PaymentRows
  BY ConstantsAssumption DEF NoRow, PaymentRows, Categories
<1>2. \A a \in Amounts, st \in {"pending", "failed"}, r \in {0, MaxRetries} :
        LegacyRow(a, st, r) \in PaymentRows
  BY ConstantsAssumption DEF LegacyRow, PaymentRows, Categories, Statuses
<1>3. payment \in [Payments -> PaymentRows]
  BY <1>1, <1>2 DEF Init
<1>4. periods \in 0..N
  BY ConstantsAssumption DEF Init
<1>5. schedule \in [Schedules -> ScheduleRows] /\ fees \in [Schedules -> FeeCounts]
  BY DEF Init, ScheduleRows, FeeCounts
<1>6. alloc \in [Payments -> [Schedules -> Nat]]
  BY DEF Init
<1>7. wallet \in Wallets /\ deposit \in Deposits /\ ledger \in Ledgers
  BY DEF Init, Wallets, Deposits, Ledgers
<1> QED
  BY <1>3, <1>4, <1>5, <1>6, <1>7 DEF TypeOK, Init

LEMMA TypePaymentStep ==
    ASSUME TypeOK, NEW p \in Payments, PaymentStep(p)
    PROVE  TypeOK'
<1> USE ConstantsAssumption
<1>1. ASSUME NEW a \in Amounts, NEW c \in Categories, NEW l \in 0..N, CreatePayment(p, a, c, l)
      PROVE  TypeOK'
  <2>1. [status |-> "initiated", amount |-> a, category |-> c, link |-> l, retries |-> 0]
            \in PaymentRows
    BY DEF PaymentRows, Statuses
  <2> QED
    BY <1>1, <2>1 DEF CreatePayment, TypeOK
<1>2. ASSUME NEW a \in Amounts, NEW c \in Categories, RecordManualPayment(p, a, c)
      PROVE  TypeOK'
  <2>1. [status |-> "completed", amount |-> a, category |-> c, link |-> 0, retries |-> 0]
            \in PaymentRows
    BY DEF PaymentRows, Statuses
  <2>2. a \in Nat /\ Book(p, a, c)
    BY <1>2 DEF RecordManualPayment
  <2> QED
    BY <1>2, <2>1, <2>2, BookTyped DEF RecordManualPayment, TypeOK
<1>3. ASSUME NEW k \in Schedules, ImportSettlement(p, k)
      PROVE  TypeOK'
  <2>1. k * Rent \in Nat
    BY DEF Schedules
  <2>2. [status |-> "completed", amount |-> k * Rent, category |-> "rent",
         link |-> 0, retries |-> 0] \in PaymentRows
    BY <2>1 DEF PaymentRows, Statuses, Categories
  <2>3. PICK rem \in Leftovers(k * Rent) :
          /\ alloc'    = [alloc EXCEPT ![p] = [s \in Schedules |-> rem[s - 1] - rem[s]]]
          /\ schedule' = [s \in Schedules |-> Credited(s, rem[s - 1] - rem[s])]
          /\ ledger'   = LedgerPosted(p, 0 - k * Rent)
    BY <1>3 DEF ImportSettlement
  <2>4. \A s \in Schedules : rem[s - 1] - rem[s] \in Nat
    BY <2>1, LeftoverStep
  <2>5. alloc' \in [Payments -> [Schedules -> Nat]]
    BY <2>3, <2>4 DEF TypeOK
  <2>6. schedule' \in [Schedules -> ScheduleRows]
    BY <2>3, <2>4, CreditedRow
  <2>7. 0 - k * Rent \in Int
    BY <2>1
  <2>8. ledger' \in Ledgers
    BY <2>3, <2>7, LedgerPost
  <2> QED
    BY <1>3, <2>2, <2>5, <2>6, <2>8 DEF ImportSettlement, TypeOK
<1>4. ASSUME ConfirmPayment(p)
      PROVE  TypeOK'
  <2>1. Moved(p, "completed") \in [Payments -> PaymentRows]
    BY MovedTyped DEF Statuses
  <2>2. payment[p].amount \in Nat /\ Book(p, payment[p].amount, payment[p].category)
    BY <1>4, PaymentRowTyped DEF ConfirmPayment
  <2> QED
    BY <1>4, <2>1, <2>2, BookTyped DEF ConfirmPayment, TypeOK
<1>5. ASSUME RefundPayment(p)
      PROVE  TypeOK'
  <2>1. payment' \in [Payments -> PaymentRows]
    BY <1>5, MovedTyped DEF RefundPayment, Statuses
  <2>2. schedule' \in [Schedules -> ScheduleRows] /\ alloc' = alloc
    BY <1>5, ReverseTyped DEF RefundPayment
  <2>3. deposit \in Deposits /\ Max2(0, deposit.held - payment[p].amount) \in Nat
    BY PaymentRowTyped DEF TypeOK, Deposits, Max2
  <2>4. deposit' \in Deposits
    BY <1>5, <2>3 DEF RefundPayment, Deposits
  <2> DEFINE over     == Max2(0, payment[p].amount - Total(alloc[p]))
             reversed == IF wallet.balance >= over THEN over ELSE 0
  <2>6. payment[p].amount \in Nat /\ Total(alloc[p]) \in Nat /\ wallet.balance \in Nat
    BY PaymentRowTyped, TotalNat DEF TypeOK, Wallets
  <2>7. over \in Nat
    BY <2>6 DEF Max2
  <2>8. reversed \in Nat /\ wallet.balance + (0 - reversed) >= 0
    BY <2>6, <2>7
  <2>9. wallet' = WalletPosted(p, 0 - reversed) /\ ledger' = LedgerPosted(p, reversed + payment[p].amount)
    BY <1>5 DEF RefundPayment
  <2> HIDE DEF reversed
  <2>10. wallet' \in Wallets
    BY <2>8, <2>9, WalletPost
  <2>11. ledger' \in Ledgers
    BY <2>6, <2>8, <2>9, LedgerPost
  <2> QED
    BY <1>5, <2>1, <2>2, <2>4, <2>10, <2>11 DEF RefundPayment, TypeOK
<1>6. ASSUME RefundPaymentByOrg(p)
      PROVE  TypeOK'
  <2>1. payment' \in [Payments -> PaymentRows]
    BY <1>6, MovedTyped DEF RefundPaymentByOrg, Statuses
  <2>2. \A s \in Schedules : Debited(s, payment[p].amount) \in ScheduleRows
    BY PaymentRowTyped, DebitedRow
  <2>3. payment[p].link # 0 => payment[p].link \in Schedules
    BY PaymentRowTyped DEF Schedules
  <2>4. schedule' \in [Schedules -> ScheduleRows]
    BY <1>6, <2>2, <2>3 DEF RefundPaymentByOrg, TypeOK
  <2> QED
    BY <1>6, <2>1, <2>4 DEF RefundPaymentByOrg, TypeOK
<1>7. ASSUME RejectPayment(p)
      PROVE  TypeOK'
  <2>1. payment' \in [Payments -> PaymentRows]
    BY <1>7, MovedTyped DEF RejectPayment, Statuses
  <2>2. ledger' \in Ledgers
    BY <1>7, LedgerPost, PaymentRowTyped DEF RejectPayment
  <2>3. schedule' \in [Schedules -> ScheduleRows] /\ alloc' = alloc
    BY <1>7, ReverseTyped DEF RejectPayment
  <2> QED
    BY <1>7, <2>1, <2>2, <2>3 DEF RejectPayment, TypeOK
<1>8. ASSUME CancelPayment(p)
      PROVE  TypeOK'
  <2>1. payment' \in [Payments -> PaymentRows]
    BY <1>8, MovedTyped DEF CancelPayment, Statuses
  <2>2. ledger' \in Ledgers
    BY <1>8, LedgerPost, PaymentRowTyped DEF CancelPayment
  <2> QED
    BY <1>8, <2>1, <2>2 DEF CancelPayment, TypeOK
<1>9. ASSUME RetryPayment(p)
      PROVE  TypeOK'
  <2>1. payment \in [Payments -> PaymentRows] /\ payment[p].retries + 1 \in 0..MaxRetries
    BY <1>9, PaymentRowTyped DEF RetryPayment, TypeOK
  <2>2. [payment[p] EXCEPT !.status = "routed", !.retries = @ + 1] \in PaymentRows
    BY <2>1 DEF PaymentRows, Statuses
  <2>3. payment' \in [Payments -> PaymentRows]
    BY <1>9, <2>1, <2>2 DEF RetryPayment
  <2> QED
    BY <1>9, <2>3 DEF RetryPayment, TypeOK
<1>10. ASSUME MarkPaymentFailed(p)
      PROVE  TypeOK'
  <2>1. payment' \in [Payments -> PaymentRows]
    BY <1>10, MovedTyped DEF MarkPaymentFailed, Statuses
  <2> QED
    BY <1>10, <2>1 DEF MarkPaymentFailed, TypeOK
<1> QED
  BY <1>1, <1>2, <1>3, <1>4, <1>5, <1>6, <1>7, <1>8, <1>9, <1>10 DEF PaymentStep

LEMMA TypeScheduleStep ==
    ASSUME TypeOK, ScheduleStep
    PROVE  TypeOK'
<1> USE ConstantsAssumption
<1>0. /\ schedule \in [Schedules -> ScheduleRows] /\ fees \in [Schedules -> FeeCounts]
      /\ \A s \in Schedules : /\ schedule[s] \in ScheduleRows /\ schedule[s].fee \in Nat
                              /\ fees[s] \in FeeCounts
                              /\ fees[s].charged \in Nat /\ fees[s].waived \in Nat
  BY DEF TypeOK, ScheduleRows, FeeCounts
<1>1. ASSUME GenerateRentSchedules
      PROVE  TypeOK'
  BY <1>1 DEF GenerateRentSchedules, TypeOK
<1>2. ASSUME NEW s \in Schedules, WaiveSchedule(s)
      PROVE  TypeOK'
  <2>1. [schedule[s] EXCEPT !.status = "waived"] \in ScheduleRows
    BY <1>0 DEF ScheduleRows
  <2> QED
    BY <1>2, <2>1 DEF WaiveSchedule, TypeOK
<1>3. ASSUME NEW k \in Schedules, MarkOverdueSchedules(k)
      PROVE  TypeOK'
  <2>1. \A s \in Schedules : [schedule[s] EXCEPT !.status = "overdue"] \in ScheduleRows
    BY <1>0 DEF ScheduleRows
  <2> QED
    BY <1>3, <2>1, <1>0 DEF MarkOverdueSchedules, TypeOK
<1>4. ASSUME NEW s \in Schedules, ApplyLateFee(s)
      PROVE  TypeOK'
  <2>0. schedule[s].fee + LateFee \in Nat
    BY <1>0
  <2>1. [schedule[s] EXCEPT !.fee = @ + LateFee, !.status = "overdue"] \in ScheduleRows
    BY <1>0, <2>0 DEF ScheduleRows
  <2>2. [fees[s] EXCEPT !.charged = 1] \in FeeCounts
    BY <1>0 DEF FeeCounts
  <2> QED
    BY <1>4, <2>1, <2>2 DEF ApplyLateFee, TypeOK
<1>5. ASSUME ApplyLateFeesTask
      PROVE  TypeOK'
  <2>1. PICK days \in [Schedules -> 0..MaxFees] :
          /\ fees' = [s \in Schedules |-> [fees[s] EXCEPT !.charged = @ + days[s]]]
          /\ schedule' = [s \in Schedules |-> [schedule[s] EXCEPT !.fee = @ + days[s] * LateFee]]
          /\ UNCHANGED <<payment, periods, alloc, wallet, deposit, ledger, orgRefunded>>
    BY <1>5 DEF ApplyLateFeesTask
  <2>2. \A s \in Schedules : days[s] \in Nat /\ days[s] * LateFee \in Nat
    OBVIOUS
  <2>3. \A s \in Schedules : [schedule[s] EXCEPT !.fee = @ + days[s] * LateFee] \in ScheduleRows
    BY <1>0, <2>2 DEF ScheduleRows
  <2>4. \A s \in Schedules : [fees[s] EXCEPT !.charged = @ + days[s]] \in FeeCounts
    BY <1>0, <2>2 DEF FeeCounts
  <2> QED
    BY <2>1, <2>3, <2>4 DEF TypeOK
<1>6. ASSUME WaiveLateFees
      PROVE  TypeOK'
  <2>1. PICK rows \in [Schedules -> 0..MaxFees] :
          /\ fees' = [s \in Schedules |-> [fees[s] EXCEPT !.waived = @ + rows[s]]]
          /\ schedule' = [s \in Schedules |->
                            [schedule[s] EXCEPT !.fee = Max2(0, @ - rows[s] * LateFee)]]
          /\ UNCHANGED <<payment, periods, alloc, wallet, deposit, ledger, orgRefunded>>
    BY <1>6 DEF WaiveLateFees
  <2>2. \A s \in Schedules : rows[s] \in Nat /\ rows[s] * LateFee \in Nat
    OBVIOUS
  <2>3. \A s \in Schedules : Max2(0, schedule[s].fee - rows[s] * LateFee) \in Nat
    BY <1>0, <2>2 DEF Max2
  <2>4. \A s \in Schedules :
          [schedule[s] EXCEPT !.fee = Max2(0, @ - rows[s] * LateFee)] \in ScheduleRows
    BY <1>0, <2>3 DEF ScheduleRows
  <2>5. \A s \in Schedules : [fees[s] EXCEPT !.waived = @ + rows[s]] \in FeeCounts
    BY <1>0, <2>2 DEF FeeCounts
  <2> QED
    BY <2>1, <2>4, <2>5 DEF TypeOK
<1> QED
  BY <1>1, <1>2, <1>3, <1>4, <1>5, <1>6 DEF ScheduleStep

\* The rest of Next: the deposit row and manual wallet credits.
OtherStep ==
    \/ CreateDepositRecord
    \/ \E n \in Amounts \cup {0}, d \in 0..MaxDeducted : ReturnDeposit(n, d)
    \/ \E a \in Amounts : CreditTenantWallet(a)

LEMMA TypeOtherStep ==
    ASSUME TypeOK, OtherStep
    PROVE  TypeOK'
<1> USE ConstantsAssumption
<1>0. deposit \in Deposits /\ wallet \in Wallets
  BY DEF TypeOK
<1>1. ASSUME CreateDepositRecord
      PROVE  TypeOK'
  <2>1. deposit' \in Deposits
    BY <1>0, <1>1 DEF CreateDepositRecord, Deposits
  <2> QED
    BY <1>1, <2>1 DEF CreateDepositRecord, TypeOK
<1>2. ASSUME NEW n \in Amounts \cup {0}, NEW d \in 0..MaxDeducted, ReturnDeposit(n, d)
      PROVE  TypeOK'
  <2>1. deposit.returned + n \in Nat /\ deposit.deducted + d \in Nat
    BY <1>0 DEF Deposits
  <2>2. deposit' \in Deposits
    BY <1>0, <1>2, <2>1 DEF ReturnDeposit, Deposits
  <2> QED
    BY <1>2, <2>2 DEF ReturnDeposit, TypeOK
<1>3. ASSUME NEW a \in Amounts, CreditTenantWallet(a)
      PROVE  TypeOK'
  <2>1. wallet.balance + a \in Nat /\ wallet.manual + a \in Nat
    BY <1>0 DEF Wallets
  <2>2. wallet' \in Wallets
    BY <1>0, <1>3, <2>1 DEF CreditTenantWallet, Wallets
  <2> QED
    BY <1>3, <2>2 DEF CreditTenantWallet, TypeOK
<1> QED
  BY <1>1, <1>2, <1>3 DEF OtherStep

LEMMA NextSteps == Next <=> (\E p \in Payments : PaymentStep(p)) \/ ScheduleStep \/ OtherStep
BY DEF Next, OtherStep

LEMMA TypeStep == TypeOK /\ [Next]_vars => TypeOK'
<1> SUFFICES ASSUME TypeOK, [Next]_vars PROVE TypeOK'
  OBVIOUS
<1>1. CASE Next
  BY <1>1, NextSteps, TypePaymentStep, TypeScheduleStep, TypeOtherStep
<1>2. CASE UNCHANGED vars
  BY <1>2 DEF vars, TypeOK
<1> QED
  BY <1>1, <1>2

\* Every reachable state has the type the database columns have: no balance,
\* amount_paid, late fee or deposit column ever goes negative, whatever the
\* handlers subtract (the Max2(0, ...) of the code and the wallet's own check).
THEOREM TypeCorrect == Spec => []TypeOK
<1> QED
  BY TypeInit, TypeStep, PTL DEF Spec

-----------------------------------------------------------------------------
(* What a payment handler may do to a schedule, and what it leaves alone. *)

\* The booking of a payment credits every schedule with at most what it owes.
LEMMA BookRows ==
    ASSUME TypeOK, NEW p \in Payments, NEW amount \in Nat, NEW category,
           Book(p, amount, category), NEW s \in Schedules
    PROVE  \E applied \in Nat : /\ applied <= Balance(s)
                                /\ schedule'[s] = Credited(s, applied)
<1>1. CASE BookDeposit(p, amount)
  <2>1. schedule'[s] = Credited(s, 0)
    BY <1>1 DEF BookDeposit, Credited
  <2> QED
    BY <2>1, BalanceNat
<1>2. CASE BookRent(p, amount)
  BY <1>2, LeftoverStep DEF BookRent
<1> QED
  BY <1>1, <1>2 DEF Book

\* A step of a payment credits a schedule with at most its balance, or debits it.
LEMMA PaymentStepRows ==
    ASSUME TypeOK, NEW p \in Payments, PaymentStep(p), NEW s \in Schedules
    PROVE  /\ \/ \E applied \in Nat : /\ applied <= Balance(s)
                                      /\ schedule'[s] = Credited(s, applied)
              \/ \E applied \in Nat : schedule'[s] = Debited(s, applied)
           /\ fees' = fees
<1> USE ConstantsAssumption
<1>0. schedule[s] = Debited(s, 0)
  BY DEF Debited
<1>1. ASSUME \/ \E a \in Amounts, c \in Categories, l \in 0..N : CreatePayment(p, a, c, l)
             \/ CancelPayment(p) \/ RetryPayment(p) \/ MarkPaymentFailed(p)
      PROVE  schedule'[s] = Debited(s, 0) /\ fees' = fees
  BY <1>0, <1>1 DEF CreatePayment, CancelPayment, RetryPayment, MarkPaymentFailed
<1>2. ASSUME NEW a \in Amounts, NEW c \in Categories, RecordManualPayment(p, a, c)
      PROVE  /\ \E applied \in Nat : /\ applied <= Balance(s)
                                     /\ schedule'[s] = Credited(s, applied)
             /\ fees' = fees
  <2>1. a \in Nat /\ Book(p, a, c) /\ fees' = fees
    BY <1>2 DEF RecordManualPayment
  <2> QED
    BY <2>1, BookRows
<1>3. ASSUME NEW k \in Schedules, ImportSettlement(p, k)
      PROVE  /\ \E applied \in Nat : /\ applied <= Balance(s)
                                     /\ schedule'[s] = Credited(s, applied)
             /\ fees' = fees
  <2>1. k * Rent \in Nat
    BY DEF Schedules
  <2>2. PICK rem \in Leftovers(k * Rent) :
          schedule' = [t \in Schedules |-> Credited(t, rem[t - 1] - rem[t])]
    BY <1>3 DEF ImportSettlement
  <2>3. rem[s - 1] - rem[s] \in Nat /\ rem[s - 1] - rem[s] <= Balance(s)
    BY <2>1, LeftoverStep
  <2> QED
    BY <1>3, <2>2, <2>3 DEF ImportSettlement
<1>4. ASSUME ConfirmPayment(p)
      PROVE  /\ \E applied \in Nat : /\ applied <= Balance(s)
                                     /\ schedule'[s] = Credited(s, applied)
             /\ fees' = fees
  <2>1. /\ payment[p].amount \in Nat /\ fees' = fees
        /\ Book(p, payment[p].amount, payment[p].category)
    BY <1>4, PaymentRowTyped DEF ConfirmPayment
  <2> QED
    BY <2>1, BookRows
<1>5. ASSUME RefundPayment(p) \/ RejectPayment(p)
      PROVE  schedule'[s] = Debited(s, alloc[p][s]) /\ fees' = fees
  BY <1>5 DEF RefundPayment, RejectPayment, ReverseAllocations
<1>6. ASSUME RefundPaymentByOrg(p)
      PROVE  /\ \E applied \in Nat : schedule'[s] = Debited(s, applied)
             /\ fees' = fees
  <2>1. payment[p].amount \in Nat /\ schedule \in [Schedules -> ScheduleRows]
    BY PaymentRowTyped DEF TypeOK
  <2>2. \/ schedule'[s] = schedule[s]
        \/ schedule'[s] = Debited(s, payment[p].amount)
    BY <1>6, <2>1 DEF RefundPaymentByOrg
  <2> QED
    BY <1>0, <1>6, <2>1, <2>2 DEF RefundPaymentByOrg
<1>7. alloc[p][s] \in Nat
  BY DEF TypeOK
<1> QED
  BY <1>1, <1>2, <1>3, <1>4, <1>5, <1>6, <1>7 DEF PaymentStep

-----------------------------------------------------------------------------
(* Paid means covered: inductive with the type invariant alone. *)

LEMMA PaidInit == Init => PaidMeansCovered
BY DEF Init, PaidMeansCovered

LEMMA PaidPaymentStep ==
    ASSUME TypeOK, PaidMeansCovered, NEW p \in Payments, PaymentStep(p)
    PROVE  PaidMeansCovered'
<1> SUFFICES ASSUME NEW s \in Schedules, schedule'[s].status = "paid"
             PROVE  schedule'[s].paid >= Rent + schedule'[s].fee
  BY DEF PaidMeansCovered, Due
<1>1. /\ schedule[s] \in ScheduleRows
      /\ schedule[s].paid \in Nat /\ schedule[s].fee \in Nat /\ Rent \in Nat
  BY ConstantsAssumption DEF TypeOK, ScheduleRows
<1>2. schedule[s].status = "paid" => schedule[s].paid >= Rent + schedule[s].fee
  BY DEF PaidMeansCovered, Due
<1>3. ASSUME NEW applied \in Nat, schedule'[s] = Credited(s, applied)
      PROVE  schedule'[s].paid >= Rent + schedule'[s].fee
  <2>1. CASE applied = 0
    BY <1>2, <1>3, <2>1 DEF Credited
  <2>2. CASE applied # 0
    <3>1. /\ schedule'[s].paid = schedule[s].paid + applied
          /\ schedule'[s].fee = schedule[s].fee
      BY <1>3, CreditedRow
    <3>2. schedule[s].paid + applied >= Due(s) \/ schedule[s].status = "paid"
      BY <1>1, <1>3, <2>2 DEF Credited, ScheduleRows
    <3> QED
      BY <1>1, <1>2, <3>1, <3>2 DEF Due
  <2> QED
    BY <2>1, <2>2
<1>4. ASSUME NEW applied \in Nat, schedule'[s] = Debited(s, applied)
      PROVE  schedule'[s].paid >= Rent + schedule'[s].fee
  <2>1. applied = 0
    BY <1>1, <1>4 DEF Debited, ScheduleRows
  <2> QED
    BY <1>2, <1>4, <2>1 DEF Debited
<1> QED
  BY <1>3, <1>4, PaymentStepRows

LEMMA PaidScheduleStep ==
    ASSUME TypeOK, PaidMeansCovered, ScheduleStep
    PROVE  PaidMeansCovered'
<1> USE ConstantsAssumption
<1> SUFFICES ASSUME NEW s \in Schedules, schedule'[s].status = "paid"
             PROVE  schedule'[s].paid >= Rent + schedule'[s].fee
  BY DEF PaidMeansCovered, Due
<1>1. /\ schedule \in [Schedules -> ScheduleRows] /\ schedule[s] \in ScheduleRows
      /\ schedule[s].paid \in Nat /\ schedule[s].fee \in Nat
  BY DEF TypeOK, ScheduleRows
<1>2. schedule[s].status = "paid" => schedule[s].paid >= Rent + schedule[s].fee
  BY DEF PaidMeansCovered, Due
<1>3. ASSUME GenerateRentSchedules \/ \E t \in Schedules : WaiveSchedule(t)
      PROVE  schedule'[s] = schedule[s]
  BY <1>1, <1>3 DEF GenerateRentSchedules, WaiveSchedule, ScheduleRows
<1>4. ASSUME NEW k \in Schedules, MarkOverdueSchedules(k)
      PROVE  schedule'[s] = schedule[s]
  BY <1>1, <1>4 DEF MarkOverdueSchedules, ScheduleRows
<1>5. ASSUME NEW t \in Schedules, ApplyLateFee(t)
      PROVE  schedule'[s] = schedule[s]
  BY <1>1, <1>5 DEF ApplyLateFee, ScheduleRows
<1>6. ASSUME ApplyLateFeesTask
      PROVE  schedule'[s] = schedule[s]
  <2>1. PICK days \in [Schedules -> 0..MaxFees] :
          /\ \A t \in Schedules : days[t] > 0 => schedule[t].status = "overdue"
          /\ schedule' = [t \in Schedules |-> [schedule[t] EXCEPT !.fee = @ + days[t] * LateFee]]
    BY <1>6 DEF ApplyLateFeesTask
  <2>2. schedule[s].status = "paid"
    BY <1>1, <2>1 DEF ScheduleRows
  <2>3. days[s] = 0 /\ schedule[s].fee + days[s] * LateFee = schedule[s].fee
    BY <1>1, <2>1, <2>2
  <2> QED
    BY <1>1, <2>1, <2>3 DEF ScheduleRows
<1>7. ASSUME WaiveLateFees
      PROVE  /\ schedule'[s].paid = schedule[s].paid /\ schedule[s].status = "paid"
             /\ schedule'[s].fee \in Nat /\ schedule'[s].fee <= schedule[s].fee
  <2>1. PICK rows \in [Schedules -> 0..MaxFees] :
          schedule' = [t \in Schedules |->
                         [schedule[t] EXCEPT !.fee = Max2(0, @ - rows[t] * LateFee)]]
    BY <1>7 DEF WaiveLateFees
  <2>2. rows[s] * LateFee \in Nat
    OBVIOUS
  <2>3. /\ Max2(0, schedule[s].fee - rows[s] * LateFee) \in Nat
        /\ Max2(0, schedule[s].fee - rows[s] * LateFee) <= schedule[s].fee
    BY <1>1, <2>2 DEF Max2
  <2> QED
    BY <1>1, <2>1, <2>3 DEF ScheduleRows
<1>8. ASSUME schedule'[s] = schedule[s]
      PROVE  schedule'[s].paid >= Rent + schedule'[s].fee
  BY <1>2, <1>8
<1>9. ASSUME WaiveLateFees
      PROVE  schedule'[s].paid >= Rent + schedule'[s].fee
  BY <1>1, <1>2, <1>7, <1>9
<1> QED
  BY <1>3, <1>4, <1>5, <1>6, <1>8, <1>9 DEF ScheduleStep

LEMMA OtherStepFrame ==
    ASSUME TypeOK, OtherStep
    PROVE  /\ UNCHANGED <<payment, schedule, fees, alloc, ledger, orgRefunded>>
           /\ wallet'.net = wallet.net
<1>1. wallet \in Wallets
  BY DEF TypeOK
<1>2. UNCHANGED <<payment, schedule, fees, alloc, ledger, orgRefunded>>
  BY DEF OtherStep, CreateDepositRecord, ReturnDeposit, CreditTenantWallet
<1>3. wallet'.net = wallet.net
  BY <1>1 DEF OtherStep, CreateDepositRecord, ReturnDeposit, CreditTenantWallet, Wallets
<1> QED
  BY <1>2, <1>3

\* No confirmation, refund, reversal, late fee or fee waiver, in any order and
\* for any rent and fee, leaves a schedule marked paid that still owes.
THEOREM PaidIsCovered == Spec => []PaidMeansCovered
<1>1. TypeOK /\ PaidMeansCovered /\ [Next]_vars => PaidMeansCovered'
  <2> SUFFICES ASSUME TypeOK, PaidMeansCovered, [Next]_vars PROVE PaidMeansCovered'
    OBVIOUS
  <2>1. CASE Next
    <3>1. OtherStep => PaidMeansCovered'
      BY OtherStepFrame DEF PaidMeansCovered, Due
    <3> QED
      BY <2>1, <3>1, NextSteps, PaidPaymentStep, PaidScheduleStep
  <2>2. CASE UNCHANGED vars
    BY <2>2 DEF vars, PaidMeansCovered, Due
  <2> QED
    BY <2>1, <2>2
<1> QED
  BY PaidInit, <1>1, TypeCorrect, PTL DEF Spec

-----------------------------------------------------------------------------
(* No schedule is overfilled.  The strengthening: a schedule's late fee is *)
(* exactly its unwaived fee rows, so the loop's cap Due(s) never exceeds   *)
(* what was charged in total.                                              *)

FeesExplained ==
    \A s \in Schedules :
        /\ fees[s].waived <= fees[s].charged
        /\ schedule[s].fee = (fees[s].charged - fees[s].waived) * LateFee

FillInv == NoScheduleOverfilled /\ FeesExplained

LEMMA ProductNat ==
    ASSUME NEW a \in Nat, NEW b \in Nat
    PROVE  a * b \in Nat
OBVIOUS

LEMMA FillInit == Init => FillInv
<1> SUFFICES ASSUME Init PROVE FillInv
  OBVIOUS
<1> USE ConstantsAssumption
<1>1. \A s \in Schedules : /\ schedule[s].paid = 0 /\ schedule[s].fee = 0
                           /\ fees[s].charged = 0 /\ fees[s].waived = 0
  BY DEF Init
<1>2. (0 - 0) * LateFee = 0 /\ 0 * LateFee = 0
  OBVIOUS
<1> QED
  BY <1>1, <1>2 DEF FillInv, NoScheduleOverfilled, FeesExplained

LEMMA FillPaymentStep ==
    ASSUME TypeOK, FillInv, NEW p \in Payments, PaymentStep(p)
    PROVE  FillInv'
<1> USE ConstantsAssumption
<1> SUFFICES ASSUME NEW s \in Schedules
             PROVE  /\ schedule'[s].fee = schedule[s].fee /\ fees'[s] = fees[s]
                    /\ schedule'[s].paid <= Rent + fees[s].charged * LateFee
  BY DEF FillInv, NoScheduleOverfilled, FeesExplained
<1>1. /\ schedule[s] \in ScheduleRows
      /\ schedule[s].paid \in Nat /\ schedule[s].fee \in Nat
      /\ fees[s].charged \in Nat /\ fees[s].waived \in Nat
  BY DEF TypeOK, ScheduleRows, FeeCounts
<1>2. /\ schedule[s].paid <= Rent + fees[s].charged * LateFee
      /\ fees[s].waived <= fees[s].charged
      /\ schedule[s].fee = (fees[s].charged - fees[s].waived) * LateFee
  BY DEF FillInv, NoScheduleOverfilled, FeesExplained
<1> DEFINE cap == fees[s].charged * LateFee
<1>3. cap \in Nat /\ schedule[s].fee <= cap
  <2>1. fees[s].waived * LateFee \in Nat /\ cap \in Nat
    BY <1>1, ProductNat
  <2>2. (fees[s].charged - fees[s].waived) * LateFee = cap - fees[s].waived * LateFee
    BY <1>1
  <2> QED
    BY <1>2, <2>1, <2>2
<1>4. schedule[s].paid <= Rent + cap
  BY <1>2
<1> HIDE DEF cap
<1>5. ASSUME NEW applied \in Nat, applied <= Balance(s), schedule'[s] = Credited(s, applied)
      PROVE  schedule'[s].fee = schedule[s].fee /\ schedule'[s].paid <= Rent + cap
  <2>1. /\ schedule'[s].paid = schedule[s].paid + applied
        /\ schedule'[s].fee = schedule[s].fee
    BY <1>5, CreditedRow
  <2>2. applied = 0 \/ applied <= Rent + schedule[s].fee - schedule[s].paid
    BY <1>1, <1>5 DEF Balance, Due, Max2
  <2> QED
    BY <1>1, <1>3, <1>4, <2>1, <2>2
<1>6. ASSUME NEW applied \in Nat, schedule'[s] = Debited(s, applied)
      PROVE  schedule'[s].fee = schedule[s].fee /\ schedule'[s].paid <= Rent + cap
  <2>1. /\ schedule'[s] \in ScheduleRows /\ schedule'[s].paid <= schedule[s].paid
        /\ schedule'[s].fee = schedule[s].fee
    BY <1>6, DebitedRow
  <2>2. schedule'[s].paid \in Nat
    BY <2>1 DEF ScheduleRows
  <2> QED
    BY <1>1, <1>3, <1>4, <2>1, <2>2
<1>7. fees' = fees
  BY PaymentStepRows
<1>8. schedule'[s].fee = schedule[s].fee /\ schedule'[s].paid <= Rent + cap
  BY <1>5, <1>6, PaymentStepRows
<1> QED
  BY <1>7, <1>8 DEF cap

LEMMA FillScheduleStep ==
    ASSUME TypeOK, FillInv, ScheduleStep
    PROVE  FillInv'
<1> USE ConstantsAssumption
<1> SUFFICES ASSUME NEW s \in Schedules
             PROVE  /\ fees'[s].waived <= fees'[s].charged
                    /\ schedule'[s].fee = (fees'[s].charged - fees'[s].waived) * LateFee
                    /\ schedule'[s].paid <= Rent + fees'[s].charged * LateFee
  BY DEF FillInv, NoScheduleOverfilled, FeesExplained
<1>1. /\ schedule \in [Schedules -> ScheduleRows] /\ fees \in [Schedules -> FeeCounts]
      /\ schedule[s] \in ScheduleRows /\ fees[s] \in FeeCounts
      /\ schedule[s].paid \in Nat /\ schedule[s].fee \in Nat
      /\ fees[s].charged \in Nat /\ fees[s].waived \in Nat
  BY DEF TypeOK, ScheduleRows, FeeCounts
<1>2. /\ schedule[s].paid <= Rent + fees[s].charged * LateFee
      /\ fees[s].waived <= fees[s].charged
      /\ schedule[s].fee = (fees[s].charged - fees[s].waived) * LateFee
  BY DEF FillInv, NoScheduleOverfilled, FeesExplained
<1>3. ASSUME \/ GenerateRentSchedules
             \/ \E t \in Schedules : WaiveSchedule(t) \/ MarkOverdueSchedules(t)
      PROVE  /\ fees' = fees /\ schedule'[s].fee = schedule[s].fee
             /\ schedule'[s].paid = schedule[s].paid
  BY <1>1, <1>3 DEF GenerateRentSchedules, WaiveSchedule, MarkOverdueSchedules, ScheduleRows
<1>4. ASSUME NEW t \in Schedules, ApplyLateFee(t)
      PROVE  /\ fees'[s].waived <= fees'[s].charged
             /\ schedule'[s].fee = (fees'[s].charged - fees'[s].waived) * LateFee
             /\ schedule'[s].paid <= Rent + fees'[s].charged * LateFee
  <2>1. CASE s = t
    <3>1. /\ fees[s].charged = 0 /\ fees[s].waived = 0 /\ schedule[s].fee = 0
          /\ schedule[s].paid <= Rent
      <4>1. fees[s].charged = 0
        BY <1>4, <2>1 DEF ApplyLateFee
      <4>2. fees[s].waived = 0
        BY <1>1, <1>2, <4>1
      <4>3. schedule[s].fee = 0 * LateFee /\ schedule[s].paid <= Rent + 0 * LateFee
        BY <1>2, <4>1, <4>2
      <4> QED
        BY <1>1, <4>1, <4>2, <4>3
    <3>2. fees'[s].charged = 1 /\ fees'[s].waived = 0
      BY <1>1, <1>4, <2>1, <3>1 DEF ApplyLateFee, FeeCounts
    <3>3. schedule'[s].fee = LateFee /\ schedule'[s].paid = schedule[s].paid
      BY <1>1, <1>4, <2>1, <3>1 DEF ApplyLateFee, ScheduleRows
    <3>4. (1 - 0) * LateFee = LateFee /\ 1 * LateFee = LateFee
      OBVIOUS
    <3> QED
      BY <1>1, <3>1, <3>2, <3>3, <3>4
  <2>2. CASE s # t
    BY <1>1, <1>2, <1>4, <2>2 DEF ApplyLateFee
  <2> QED
    BY <2>1, <2>2
<1>5. ASSUME ApplyLateFeesTask
      PROVE  /\ fees'[s].waived <= fees'[s].charged
             /\ schedule'[s].fee = (fees'[s].charged - fees'[s].waived) * LateFee
             /\ schedule'[s].paid <= Rent + fees'[s].charged * LateFee
  <2>1. PICK days \in [Schedules -> 0..MaxFees] :
          /\ fees' = [t \in Schedules |-> [fees[t] EXCEPT !.charged = @ + days[t]]]
          /\ schedule' = [t \in Schedules |-> [schedule[t] EXCEPT !.fee = @ + days[t] * LateFee]]
    BY <1>5 DEF ApplyLateFeesTask
  <2>2. /\ fees'[s].charged = fees[s].charged + days[s] /\ fees'[s].waived = fees[s].waived
        /\ schedule'[s].paid = schedule[s].paid
        /\ schedule'[s].fee = schedule[s].fee + days[s] * LateFee
    BY <1>1, <2>1 DEF FeeCounts, ScheduleRows
  <2>3. days[s] \in Nat /\ days[s] * LateFee \in Nat /\ fees[s].charged * LateFee \in Nat
    BY <1>1, ProductNat
  <2>4. /\ (fees[s].charged + days[s]) * LateFee
             = fees[s].charged * LateFee + days[s] * LateFee
        /\ (fees[s].charged + days[s] - fees[s].waived) * LateFee
             = (fees[s].charged - fees[s].waived) * LateFee + days[s] * LateFee
    BY <1>1, <2>3
  <2>5. schedule'[s].paid <= Rent + fees'[s].charged * LateFee
    BY <1>1, <1>2, <2>2, <2>3, <2>4
  <2> QED
    BY <1>1, <1>2, <2>2, <2>3, <2>4, <2>5
<1>6. ASSUME WaiveLateFees
      PROVE  /\ fees'[s].waived <= fees'[s].charged
             /\ schedule'[s].fee = (fees'[s].charged - fees'[s].waived) * LateFee
             /\ schedule'[s].paid <= Rent + fees'[s].charged * LateFee
  <2>1. PICK rows \in [Schedules -> 0..MaxFees] :
          /\ \A t \in Schedules : rows[t] <= fees[t].charged - fees[t].waived
          /\ fees' = [t \in Schedules |-> [fees[t] EXCEPT !.waived = @ + rows[t]]]
          /\ schedule' = [t \in Schedules |->
                            [schedule[t] EXCEPT !.fee = Max2(0, @ - rows[t] * LateFee)]]
    BY <1>6 DEF WaiveLateFees
  <2> DEFINE left == fees[s].charged - (fees[s].waived + rows[s])
  <2>2. rows[s] \in Nat /\ left \in Nat /\ left * LateFee \in Nat
    <3>1. rows[s] \in Nat /\ left \in Nat
      BY <1>1, <2>1
    <3> QED
      BY <3>1, ProductNat
  <2>3. schedule[s].fee - rows[s] * LateFee = left * LateFee
    <3>1. (fees[s].charged - fees[s].waived) * LateFee - rows[s] * LateFee = left * LateFee
      BY <1>1, <2>2
    <3> QED
      BY <1>2, <3>1
  <2>4. Max2(0, schedule[s].fee - rows[s] * LateFee) = left * LateFee
    BY <2>2, <2>3 DEF Max2
  <2>5. /\ fees'[s].charged = fees[s].charged /\ fees'[s].waived = fees[s].waived + rows[s]
        /\ schedule'[s].paid = schedule[s].paid
        /\ schedule'[s].fee = left * LateFee
    BY <1>1, <2>1, <2>4 DEF FeeCounts, ScheduleRows
  <2>6. fees[s].waived + rows[s] <= fees[s].charged
    BY <1>1, <2>1
  <2> QED
    BY <1>2, <2>5, <2>6
<1>7. ASSUME /\ fees' = fees /\ schedule'[s].fee = schedule[s].fee
             /\ schedule'[s].paid = schedule[s].paid
      PROVE  /\ fees'[s].waived <= fees'[s].charged
             /\ schedule'[s].fee = (fees'[s].charged - fees'[s].waived) * LateFee
             /\ schedule'[s].paid <= Rent + fees'[s].charged * LateFee
  BY <1>2, <1>7
<1> QED
  BY <1>3, <1>4, <1>5, <1>6, <1>7 DEF ScheduleStep

\* However payments, refunds, late fees and their waivers interleave, a schedule
\* never holds more money than was ever charged on it.
THEOREM NeverOverfilled == Spec => []NoScheduleOverfilled
<1>1. TypeOK /\ FillInv /\ [Next]_vars => FillInv'
  <2> SUFFICES ASSUME TypeOK, FillInv, [Next]_vars PROVE FillInv'
    OBVIOUS
  <2>1. CASE Next
    <3>1. OtherStep => FillInv'
      BY OtherStepFrame DEF FillInv, NoScheduleOverfilled, FeesExplained
    <3> QED
      BY <2>1, <3>1, NextSteps, FillPaymentStep, FillScheduleStep
  <2>2. CASE UNCHANGED vars
    BY <2>2 DEF vars, FillInv, NoScheduleOverfilled, FeesExplained
  <2> QED
    BY <2>1, <2>2
<1>2. FillInv => NoScheduleOverfilled
  BY DEF FillInv
<1> QED
  BY FillInit, <1>1, <1>2, TypeCorrect, PTL DEF Spec

-----------------------------------------------------------------------------
(* Closed payments stay closed.  A step is a step of one payment or of     *)
(* none: what the books say of every other payment is left alone.          *)

LEMMA BookFrame ==
    ASSUME TypeOK, NEW p \in Payments, NEW amount \in Nat, NEW category,
           Book(p, amount, category), NEW q \in Payments, q # p
    PROVE  alloc'[q] = alloc[q] /\ wallet'.net[q] = wallet.net[q] /\ ledger'.net[q] = ledger.net[q]
<1>1. CASE BookDeposit(p, amount)
  <2>1. 0 - amount \in Int
    OBVIOUS
  <2> QED
    BY <1>1, <2>1, LedgerPost DEF BookDeposit
<1>2. CASE BookRent(p, amount)
  <2>1. PICK rem \in Leftovers(amount) :
          /\ alloc'    = [alloc EXCEPT ![p] = [s \in Schedules |-> rem[s - 1] - rem[s]]]
          /\ wallet'   = WalletPosted(p, rem[N])
          /\ ledger'   = LedgerPosted(p, 0 - (amount + rem[N]))
    BY <1>2 DEF BookRent
  <2>2. rem[N] \in Nat /\ 0 - (amount + rem[N]) \in Int
    BY LeftoverNat
  <2>3. wallet.balance + rem[N] >= 0
    BY <2>2 DEF TypeOK, Wallets
  <2>4. wallet'.net[q] = wallet.net[q]
    BY <2>1, <2>2, <2>3, WalletPost
  <2>5. ledger'.net[q] = ledger.net[q]
    BY <2>1, <2>2, LedgerPost
  <2>6. alloc'[q] = alloc[q]
    BY <2>1 DEF TypeOK
  <2> QED
    BY <2>4, <2>5, <2>6
<1> QED
  BY <1>1, <1>2 DEF Book

\* The wallet never gives back more of a refunded payment than it holds.
LEMMA RefundEffect ==
    ASSUME TypeOK, NEW p \in Payments, RefundPayment(p)
    PROVE  \E reversed \in Nat :
             /\ wallet.balance + (0 - reversed) >= 0
             /\ wallet' = WalletPosted(p, 0 - reversed)
             /\ ledger' = LedgerPosted(p, reversed + payment[p].amount)
<1> DEFINE over     == Max2(0, payment[p].amount - Total(alloc[p]))
           reversed == IF wallet.balance >= over THEN over ELSE 0
<1>2. payment[p].amount \in Nat /\ Total(alloc[p]) \in Nat /\ wallet.balance \in Nat
  BY PaymentRowTyped, TotalNat DEF TypeOK, Wallets
<1>3. over \in Nat
  BY <1>2 DEF Max2
<1>4. reversed \in Nat /\ wallet.balance + (0 - reversed) >= 0
  BY <1>2, <1>3
<1>5. wallet' = WalletPosted(p, 0 - reversed) /\ ledger' = LedgerPosted(p, reversed + payment[p].amount)
  BY DEF RefundPayment
<1> QED
  BY <1>4, <1>5

LEMMA OthersUntouched ==
    ASSUME TypeOK, NEW p \in Payments, PaymentStep(p), NEW q \in Payments, q # p
    PROVE  /\ payment'[q] = payment[q]
           /\ alloc'[q] = alloc[q]
           /\ wallet'.net[q] = wallet.net[q]
           /\ ledger'.net[q] = ledger.net[q]
           /\ q \in orgRefunded' <=> q \in orgRefunded
<1> USE ConstantsAssumption
<1>0. payment[p].amount \in Nat /\ payment \in [Payments -> PaymentRows]
  BY PaymentRowTyped DEF TypeOK
<1> DEFINE Same == /\ payment'[q] = payment[q]
                   /\ alloc'[q] = alloc[q]
                   /\ wallet'.net[q] = wallet.net[q]
                   /\ ledger'.net[q] = ledger.net[q]
                   /\ q \in orgRefunded' <=> q \in orgRefunded
<1>1. ASSUME NEW a \in Amounts, NEW c \in Categories, NEW l \in 0..N, CreatePayment(p, a, c, l)
      PROVE  Same
  BY <1>0, <1>1 DEF CreatePayment
<1>2. ASSUME NEW a \in Amounts, NEW c \in Categories, RecordManualPayment(p, a, c)
      PROVE  Same
  <2>1. a \in Nat /\ Book(p, a, c)
    BY <1>2 DEF RecordManualPayment
  <2> QED
    BY <1>0, <1>2, <2>1, BookFrame DEF RecordManualPayment
<1>3. ASSUME NEW k \in Schedules, ImportSettlement(p, k)
      PROVE  Same
  <2>1. k * Rent \in Nat /\ 0 - k * Rent \in Int
    BY DEF Schedules
  <2>2. ledger' = LedgerPosted(p, 0 - k * Rent) /\ alloc'[q] = alloc[q]
    BY <1>3 DEF ImportSettlement, TypeOK
  <2> QED
    BY <1>0, <1>3, <2>1, <2>2, LedgerPost DEF ImportSettlement
<1>4. ASSUME ConfirmPayment(p)
      PROVE  Same
  <2>1. Book(p, payment[p].amount, payment[p].category)
    BY <1>4 DEF ConfirmPayment
  <2> QED
    BY <1>0, <1>4, <2>1, BookFrame DEF ConfirmPayment, Moved
<1>5. ASSUME RefundPayment(p)
      PROVE  Same
  <2>1. PICK reversed \in Nat :
          /\ wallet.balance + (0 - reversed) >= 0
          /\ wallet' = WalletPosted(p, 0 - reversed)
          /\ ledger' = LedgerPosted(p, reversed + payment[p].amount)
    BY <1>5, RefundEffect
  <2>2. wallet'.net[q] = wallet.net[q]
    BY <2>1, WalletPost
  <2>3. ledger'.net[q] = ledger.net[q]
    BY <1>0, <2>1, LedgerPost
  <2> QED
    BY <1>0, <1>5, <2>2, <2>3 DEF RefundPayment, ReverseAllocations, Moved
<1>6. ASSUME RefundPaymentByOrg(p)
      PROVE  Same
  BY <1>0, <1>6 DEF RefundPaymentByOrg, Moved
<1>7. ASSUME RejectPayment(p)
      PROVE  Same
  BY <1>0, <1>7, LedgerPost DEF RejectPayment, ReverseAllocations, Moved
<1>8. ASSUME CancelPayment(p)
      PROVE  Same
  BY <1>0, <1>8, LedgerPost DEF CancelPayment, Moved
<1>9. ASSUME RetryPayment(p) \/ MarkPaymentFailed(p)
      PROVE  Same
  BY <1>0, <1>9 DEF RetryPayment, MarkPaymentFailed, Moved
<1> QED
  BY <1>1, <1>2, <1>3, <1>4, <1>5, <1>6, <1>7, <1>8, <1>9 DEF PaymentStep

\* A closed payment passes the guard of no payment handler.
LEMMA ClosedIdle ==
    ASSUME NEW p \in Payments, Status(p) \in Closed
    PROVE  ~PaymentStep(p)
<1>1. /\ Exists(p)
      /\ \A to \in Statuses : ~CanMove(Status(p), to)
  BY DEF Closed, CanMove, Exists, Statuses
<1>2. \A a, c, l : ~CreatePayment(p, a, c, l) /\ ~RecordManualPayment(p, a, c)
  BY <1>1 DEF CreatePayment, RecordManualPayment
<1>3. \A k : ~ImportSettlement(p, k)
  BY <1>1 DEF ImportSettlement
<1>4. ~ConfirmPayment(p)
  <2> SUFFICES ASSUME ConfirmPayment(p) PROVE FALSE
    OBVIOUS
  <2>1. Status(p) \in {"initiated", "predicted", "routed", "pending", "reconciled", "allocated"}
    BY DEF ConfirmPayment, Confirmable, SuccessfulTerminal
  <2>2. Status(p) \in AdvancePath(Status(p)) /\ Advance[Status(p)] \in Statuses
    BY <2>1 DEF AdvancePath, Advance, Confirmable, SuccessfulTerminal, Statuses
  <2> QED
    BY <1>1, <2>2 DEF ConfirmPayment, CanAdvance
<1>5. /\ ~RefundPayment(p) /\ ~RefundPaymentByOrg(p)
      /\ ~RejectPayment(p) /\ ~CancelPayment(p)
  BY <1>1 DEF RefundPayment, RefundPaymentByOrg, RejectPayment, CancelPayment, Statuses
<1>6. ~RetryPayment(p) /\ ~MarkPaymentFailed(p)
  BY <1>1 DEF RetryPayment, MarkPaymentFailed, Statuses
<1> QED
  BY <1>2, <1>3, <1>4, <1>5, <1>6 DEF PaymentStep

\* A refunded, rejected, cancelled or permanently failed payment is never booked
\* again: no route refunds, confirms, reverses or retries it a second time.
THEOREM ClosedForGood == Spec => ClosedPaymentsStayClosed
<1>1. TypeOK /\ [Next]_vars => [ClosedStep]_vars
  <2> SUFFICES ASSUME TypeOK, Next PROVE ClosedStep
    OBVIOUS
  <2>1. ASSUME NEW q \in Payments, PaymentStep(q)
        PROVE  ClosedStep
    BY <2>1, ClosedIdle, OthersUntouched DEF ClosedStep
  <2>2. ASSUME ScheduleStep
        PROVE  ClosedStep
    BY <2>2 DEF ClosedStep, ScheduleStep, GenerateRentSchedules, WaiveSchedule,
                MarkOverdueSchedules, ApplyLateFee, ApplyLateFeesTask, WaiveLateFees
  <2>3. ASSUME OtherStep
        PROVE  ClosedStep
    BY <2>3, OtherStepFrame DEF ClosedStep
  <2> QED
    BY <2>1, <2>2, <2>3, NextSteps
<1> QED
  BY <1>1, TypeCorrect, PTL DEF Spec, ClosedPaymentsStayClosed

-----------------------------------------------------------------------------
(* The ledger, the wallet and the status tell the same story.  The         *)
(* strengthening: the organisation route refunded only payments that are   *)
(* refunded now, so no other handler can book them again.                  *)

OrgRefundsAreRefunds == \A p \in orgRefunded : Status(p) = "refunded"

BooksInv == BooksFollowStatus /\ OrgRefundsAreRefunds

Net(p) == ledger.net[p] + wallet.net[p]

LEMMA BooksInit == Init => BooksInv
<1> SUFFICES ASSUME Init PROVE BooksInv
  OBVIOUS
<1>1. \A p \in Payments : payment[p].status \in {"absent", "pending", "failed"}
  BY DEF Init, NoRow, LegacyRow
<1>2. \A p \in Payments : ledger.net[p] + wallet.net[p] = 0 /\ p \notin orgRefunded
  BY DEF Init
<1> QED
  BY <1>1, <1>2 DEF BooksInv, BooksFollowStatus, OrgRefundsAreRefunds, Settled, Status,
                    SuccessfulTerminal, HumanTerminal, Init

LEMMA BookNet ==
    ASSUME TypeOK, NEW p \in Payments, NEW amount \in Nat, NEW category,
           Book(p, amount, category)
    PROVE  ledger'.net[p] + wallet'.net[p] = Net(p) - amount
<1>0. ledger.net[p] \in Int /\ wallet.net[p] \in Int
  BY DEF TypeOK, Ledgers, Wallets
<1>1. CASE BookDeposit(p, amount)
  <2>1. ledger'.net[p] = ledger.net[p] + (0 - amount)
    BY <1>1, LedgerPost DEF BookDeposit
  <2>2. wallet' = wallet
    BY <1>1 DEF BookDeposit
  <2> QED
    BY <1>0, <2>1, <2>2 DEF Net
<1>2. CASE BookRent(p, amount)
  <2>1. PICK rem \in Leftovers(amount) :
          /\ wallet' = WalletPosted(p, rem[N])
          /\ ledger' = LedgerPosted(p, 0 - (amount + rem[N]))
    BY <1>2 DEF BookRent
  <2>2. rem[N] \in Nat /\ 0 - (amount + rem[N]) \in Int
    BY LeftoverNat
  <2>3. wallet.balance + rem[N] >= 0
    BY <2>2 DEF TypeOK, Wallets
  <2>4. wallet'.net[p] = wallet.net[p] + rem[N]
    BY <2>1, <2>2, <2>3, WalletPost
  <2>5. ledger'.net[p] = ledger.net[p] + (0 - (amount + rem[N]))
    BY <2>1, <2>2, LedgerPost
  <2> QED
    BY <1>0, <2>2, <2>4, <2>5 DEF Net
<1> QED
  BY <1>1, <1>2 DEF Book

\* The payment a step is about.
LEMMA BooksOwnStep ==
    ASSUME TypeOK, BooksInv, NEW p \in Payments, PaymentStep(p)
    PROVE  /\ ledger'.net[p] + wallet'.net[p] =
                 IF Settled(p)' \/ p \in orgRefunded' THEN 0 - payment'[p].amount
                 ELSE IF payment'[p].status \in HumanTerminal THEN payment'[p].amount
                 ELSE 0
           /\ p \in orgRefunded' => payment'[p].status = "refunded"
<1> USE ConstantsAssumption
<1>0. /\ payment \in [Payments -> PaymentRows] /\ payment[p] \in PaymentRows
      /\ payment[p].amount \in Nat
      /\ ledger.net[p] \in Int /\ wallet.net[p] \in Int
  BY PaymentRowTyped DEF TypeOK, Ledgers, Wallets
<1>1. /\ Net(p) = IF Settled(p) \/ p \in orgRefunded THEN 0 - payment[p].amount
                  ELSE IF Status(p) \in HumanTerminal THEN payment[p].amount
                  ELSE 0
      /\ p \in orgRefunded => Status(p) = "refunded"
  BY DEF BooksInv, BooksFollowStatus, OrgRefundsAreRefunds, Net
<1>2. \A to \in Statuses : /\ Moved(p, to)[p].status = to
                           /\ Moved(p, to)[p].amount = payment[p].amount
  BY <1>0 DEF Moved, PaymentRows
\* A payment neither settled, turned down nor refunded has no net entry.
<1>3. ASSUME Status(p) \notin SuccessfulTerminal \cup HumanTerminal \cup {"refunded"}
      PROVE  Net(p) = 0 /\ p \notin orgRefunded
  BY <1>1, <1>3 DEF Settled
<1>4. ASSUME Status(p) \in SuccessfulTerminal
      PROVE  Net(p) = 0 - payment[p].amount /\ p \notin orgRefunded
  BY <1>1, <1>4 DEF Settled, SuccessfulTerminal
<1> DEFINE Goal == /\ ledger'.net[p] + wallet'.net[p] =
                        IF Settled(p)' \/ p \in orgRefunded' THEN 0 - payment'[p].amount
                        ELSE IF payment'[p].status \in HumanTerminal THEN payment'[p].amount
                        ELSE 0
                   /\ p \in orgRefunded' => payment'[p].status = "refunded"
<1>5. ASSUME payment'[p].status \in SuccessfulTerminal, p \notin orgRefunded,
             orgRefunded' = orgRefunded,
             ledger'.net[p] + wallet'.net[p] = 0 - payment'[p].amount
      PROVE  Goal
  BY <1>5 DEF Settled, Status
<1>6. ASSUME payment'[p].status \in HumanTerminal, p \notin orgRefunded,
             orgRefunded' = orgRefunded,
             ledger'.net[p] + wallet'.net[p] = payment'[p].amount
      PROVE  Goal
  BY <1>6 DEF Settled, Status, SuccessfulTerminal, HumanTerminal
<1>7. ASSUME payment'[p].status \notin SuccessfulTerminal \cup HumanTerminal,
             p \notin orgRefunded, orgRefunded' = orgRefunded,
             ledger'.net[p] + wallet'.net[p] = 0
      PROVE  Goal
  BY <1>7 DEF Settled, Status
<1>8. ASSUME NEW a \in Amounts, NEW c \in Categories, NEW l \in 0..N, CreatePayment(p, a, c, l)
      PROVE  Goal
  <2>1. Net(p) = 0 /\ p \notin orgRefunded
    BY <1>3, <1>8 DEF CreatePayment, Exists, SuccessfulTerminal, HumanTerminal
  <2>2. payment'[p].status = "initiated"
    BY <1>0, <1>8 DEF CreatePayment
  <2>3. ledger' = ledger /\ wallet' = wallet /\ orgRefunded' = orgRefunded
    BY <1>8 DEF CreatePayment
  <2> QED
    BY <1>7, <2>1, <2>2, <2>3 DEF Net, SuccessfulTerminal, HumanTerminal
<1>9. ASSUME NEW a \in Amounts, NEW c \in Categories, RecordManualPayment(p, a, c)
      PROVE  Goal
  <2>1. Net(p) = 0 /\ p \notin orgRefunded
    BY <1>3, <1>9 DEF RecordManualPayment, Exists, SuccessfulTerminal, HumanTerminal
  <2>2. payment'[p].status = "completed" /\ payment'[p].amount = a
    BY <1>0, <1>9 DEF RecordManualPayment
  <2>3. a \in Nat /\ Book(p, a, c) /\ orgRefunded' = orgRefunded
    BY <1>9 DEF RecordManualPayment
  <2>4. ledger'.net[p] + wallet'.net[p] = 0 - a
    BY <2>1, <2>3, BookNet
  <2> QED
    BY <1>5, <2>1, <2>2, <2>3, <2>4 DEF SuccessfulTerminal
<1>10. ASSUME NEW k \in Schedules, ImportSettlement(p, k)
      PROVE  Goal
  <2>1. Net(p) = 0 /\ p \notin orgRefunded
    BY <1>3, <1>10 DEF ImportSettlement, Exists, SuccessfulTerminal, HumanTerminal
  <2>2. payment'[p].status = "completed" /\ payment'[p].amount = k * Rent
    BY <1>0, <1>10 DEF ImportSettlement
  <2>3. k * Rent \in Nat /\ 0 - k * Rent \in Int
    BY DEF Schedules
  <2>4. /\ ledger' = LedgerPosted(p, 0 - k * Rent) /\ wallet' = wallet
        /\ orgRefunded' = orgRefunded
    BY <1>10 DEF ImportSettlement
  <2>5. ledger'.net[p] + wallet'.net[p] = Net(p) + (0 - k * Rent)
    BY <1>0, <2>3, <2>4, LedgerPost DEF Net
  <2> QED
    BY <1>5, <2>1, <2>2, <2>3, <2>4, <2>5 DEF SuccessfulTerminal
<1>11. ASSUME ConfirmPayment(p)
      PROVE  Goal
  <2>1. Net(p) = 0 /\ p \notin orgRefunded
    BY <1>3, <1>11 DEF ConfirmPayment, Confirmable, SuccessfulTerminal, HumanTerminal
  <2>2. payment'[p].status = "completed" /\ payment'[p].amount = payment[p].amount
    BY <1>2, <1>11 DEF ConfirmPayment, Statuses
  <2>3. Book(p, payment[p].amount, payment[p].category) /\ orgRefunded' = orgRefunded
    BY <1>11 DEF ConfirmPayment
  <2>4. ledger'.net[p] + wallet'.net[p] = 0 - payment[p].amount
    BY <1>0, <2>1, <2>3, BookNet
  <2> QED
    BY <1>5, <2>1, <2>2, <2>3, <2>4 DEF SuccessfulTerminal
<1>12. ASSUME RefundPayment(p)
      PROVE  Goal
  <2>1. Net(p) = 0 - payment[p].amount /\ p \notin orgRefunded
    BY <1>4, <1>12 DEF RefundPayment
  <2>2. payment'[p].status = "refunded" /\ orgRefunded' = orgRefunded
    BY <1>2, <1>12 DEF RefundPayment, Statuses
  <2>3. PICK reversed \in Nat :
          /\ wallet.balance + (0 - reversed) >= 0
          /\ wallet' = WalletPosted(p, 0 - reversed)
          /\ ledger' = LedgerPosted(p, reversed + payment[p].amount)
    BY <1>12, RefundEffect
  <2>4. wallet'.net[p] = wallet.net[p] + (0 - reversed)
    BY <2>3, WalletPost
  <2>5. ledger'.net[p] = ledger.net[p] + (reversed + payment[p].amount)
    BY <1>0, <2>3, LedgerPost
  <2>6. ledger'.net[p] + wallet'.net[p] = 0
    BY <1>0, <2>1, <2>4, <2>5 DEF Net
  <2> QED
    BY <1>7, <2>1, <2>2, <2>6 DEF SuccessfulTerminal, HumanTerminal
<1>13. ASSUME RefundPaymentByOrg(p)
      PROVE  Goal
  <2>1. Net(p) = 0 - payment[p].amount
    BY <1>4, <1>13 DEF RefundPaymentByOrg
  <2>2. payment'[p].status = "refunded" /\ payment'[p].amount = payment[p].amount
    BY <1>2, <1>13 DEF RefundPaymentByOrg, Statuses
  <2>3. p \in orgRefunded' /\ ledger' = ledger /\ wallet' = wallet
    BY <1>13 DEF RefundPaymentByOrg
  <2> QED
    BY <2>1, <2>2, <2>3 DEF Net
<1>14. ASSUME RejectPayment(p)
      PROVE  Goal
  <2>1. Net(p) = 0 /\ p \notin orgRefunded
    BY <1>3, <1>14 DEF RejectPayment, RejectableByStaff, InProgress, Terminal, FailedTerminal,
                       SuccessfulTerminal, HumanTerminal
  <2>2. payment'[p].status = "rejected" /\ payment'[p].amount = payment[p].amount
    BY <1>2, <1>14 DEF RejectPayment, Statuses
  <2>3. ledger' = LedgerPosted(p, payment[p].amount) /\ wallet' = wallet /\ orgRefunded' = orgRefunded
    BY <1>14 DEF RejectPayment
  <2>4. ledger'.net[p] + wallet'.net[p] = payment[p].amount
    <3>1. ledger'.net[p] = ledger.net[p] + payment[p].amount
      BY <1>0, <2>3, LedgerPost
    <3>2. ledger.net[p] + wallet.net[p] = 0 /\ wallet'.net[p] = wallet.net[p]
      BY <2>1, <2>3 DEF Net
    <3> QED
      BY <1>0, <3>1, <3>2
  <2> QED
    BY <1>6, <2>1, <2>2, <2>3, <2>4 DEF HumanTerminal
<1>15. ASSUME CancelPayment(p)
      PROVE  Goal
  <2>1. Net(p) = 0 /\ p \notin orgRefunded
    BY <1>3, <1>15 DEF CancelPayment, CancellableByTenant, SuccessfulTerminal, HumanTerminal
  <2>2. payment'[p].status = "cancelled" /\ payment'[p].amount = payment[p].amount
    BY <1>2, <1>15 DEF CancelPayment, Statuses
  <2>3. ledger' = LedgerPosted(p, payment[p].amount) /\ wallet' = wallet /\ orgRefunded' = orgRefunded
    BY <1>15 DEF CancelPayment
  <2>4. ledger'.net[p] + wallet'.net[p] = payment[p].amount
    <3>1. ledger'.net[p] = ledger.net[p] + payment[p].amount
      BY <1>0, <2>3, LedgerPost
    <3>2. ledger.net[p] + wallet.net[p] = 0 /\ wallet'.net[p] = wallet.net[p]
      BY <2>1, <2>3 DEF Net
    <3> QED
      BY <1>0, <3>1, <3>2
  <2> QED
    BY <1>6, <2>1, <2>2, <2>3, <2>4 DEF HumanTerminal
<1>16. ASSUME RetryPayment(p) \/ MarkPaymentFailed(p)
      PROVE  Goal
  <2>1. Net(p) = 0 /\ p \notin orgRefunded
    BY <1>3, <1>16 DEF RetryPayment, MarkPaymentFailed, Retryable, SuccessfulTerminal, HumanTerminal
  <2>2. payment'[p].status \in {"routed", "permanently_failed"}
    BY <1>0, <1>16 DEF RetryPayment, MarkPaymentFailed, Moved, PaymentRows
  <2>3. ledger' = ledger /\ wallet' = wallet /\ orgRefunded' = orgRefunded
    BY <1>16 DEF RetryPayment, MarkPaymentFailed
  <2> QED
    BY <1>7, <2>1, <2>2, <2>3 DEF Net, SuccessfulTerminal, HumanTerminal
<1> QED
  BY <1>8, <1>9, <1>10, <1>11, <1>12, <1>13, <1>14, <1>15, <1>16 DEF PaymentStep

LEMMA BooksPaymentStep ==
    ASSUME TypeOK, BooksInv, NEW p \in Payments, PaymentStep(p)
    PROVE  BooksInv'
<1>1. ASSUME NEW q \in Payments
      PROVE  /\ ledger'.net[q] + wallet'.net[q] =
                  IF Settled(q)' \/ q \in orgRefunded' THEN 0 - payment'[q].amount
                  ELSE IF payment'[q].status \in HumanTerminal THEN payment'[q].amount
                  ELSE 0
             /\ q \in orgRefunded' => payment'[q].status = "refunded"
  <2>1. CASE q = p
    BY <2>1, BooksOwnStep
  <2>2. CASE q # p
    BY <2>2, OthersUntouched
       DEF BooksInv, BooksFollowStatus, OrgRefundsAreRefunds, Settled, Status
  <2> QED
    BY <2>1, <2>2
<1>2. orgRefunded' \subseteq Payments
  BY TypePaymentStep DEF TypeOK
<1> QED
  BY <1>1, <1>2 DEF BooksInv, BooksFollowStatus, OrgRefundsAreRefunds, Settled, Status

LEMMA BooksCorrect == Spec => []BooksInv
<1>1. TypeOK /\ BooksInv /\ [Next]_vars => BooksInv'
  <2> SUFFICES ASSUME TypeOK, BooksInv, [Next]_vars PROVE BooksInv'
    OBVIOUS
  <2> USE DEF BooksInv, BooksFollowStatus, OrgRefundsAreRefunds, Settled, Status
  <2>1. CASE Next
    <3>1. ScheduleStep => BooksInv'
      BY DEF ScheduleStep, GenerateRentSchedules, WaiveSchedule, MarkOverdueSchedules,
             ApplyLateFee, ApplyLateFeesTask, WaiveLateFees
    <3>2. OtherStep => BooksInv'
      BY OtherStepFrame
    <3> QED
      BY <2>1, <3>1, <3>2, NextSteps, BooksPaymentStep
  <2>2. CASE UNCHANGED vars
    BY <2>2 DEF vars
  <2> QED
    BY <2>1, <2>2
<1> QED
  BY BooksInit, <1>1, TypeCorrect, PTL DEF Spec

\* Whatever the order of the handlers, the entries they write one at a time add
\* up, per payment, to what the payment's status says was taken or turned down.
THEOREM BooksAgree == Spec => []BooksFollowStatus
<1>1. BooksInv => BooksFollowStatus
  BY DEF BooksInv
<1> QED
  BY <1>1, BooksCorrect, PTL

-----------------------------------------------------------------------------
(* The loop of allocate_payment as a whole: what is left falls from        *)
(* schedule to schedule, and as long as something is left every schedule   *)
(* passed has been given all it owes.                                      *)

LEMMA LeftoversFall ==
    ASSUME TypeOK, NEW amount \in Nat, NEW rem \in Leftovers(amount)
    PROVE  \A n \in 0..N : \A m \in 0..n : rem[n] <= rem[m]
<1> DEFINE T == {n \in 0..N : \A m \in 0..n : rem[n] <= rem[m]}
<1>1. N \in Nat /\ \A n \in 0..N : rem[n] \in Nat
  BY ConstantsAssumption DEF Leftovers
<1>2. 0 \in T
  BY <1>1
<1>3. ASSUME NEW n \in T, n < N PROVE n + 1 \in T
  <2>1. n \in 0..N /\ n + 1 \in Schedules /\ n + 1 \in 0..N
    BY <1>1, <1>3 DEF Schedules
  <2>2. rem[n + 1] <= rem[n]
    <3>1. (n + 1) - 1 = n
      BY <2>1
    <3>2. rem[(n + 1) - 1] - rem[n + 1] \in Nat
      BY <2>1, LeftoverStep
    <3> QED
      BY <1>1, <2>1, <3>1, <3>2
  <2>3. ASSUME NEW m \in 0..(n + 1) PROVE rem[n + 1] <= rem[m]
    <3>1. CASE m = n + 1
      BY <1>1, <2>1, <3>1
    <3>2. CASE m # n + 1
      <4>1. m \in Int /\ 0 <= m /\ m <= n /\ n <= N
        BY <1>1, <2>1, <3>2
      <4> QED
        <5>1. m \in 0..n /\ m \in 0..N
          BY <1>1, <4>1
        <5> QED
          BY <1>1, <2>1, <2>2, <5>1
    <3> QED
      BY <3>1, <3>2
  <2> QED
    BY <2>1, <2>3
<1>4. T = 0..N
  <2>1. T \subseteq 0..N
    OBVIOUS
  <2> HIDE DEF T
  <2> QED
    BY <1>1, <1>2, <1>3, <2>1, BoundedInduction
<1> QED
  BY <1>4

\* The loop always comes to an end, with one result: the \E rem of the handlers
\* neither blocks them nor leaves them a choice.
THEOREM LoopHasOneResult ==
    ASSUME TypeOK, NEW amount \in Nat
    PROVE  \E rem : Leftovers(amount) = {rem}
<1> DEFINE Runs(r, n) == /\ r[0] = amount
                         /\ \A s \in 1..n : r[s] = r[s - 1] - Min2(Balance(s), r[s - 1])
           T == {n \in 0..N : \E r \in [0..n -> 0..amount] : Runs(r, n)}
<1>1. N \in Nat /\ Schedules = 1..N
  BY ConstantsAssumption DEF Schedules
<1>2. \A s \in Schedules : Balance(s) \in Nat
  BY BalanceNat
<1>3. 0 \in T
  <2> DEFINE r == [i \in 0..0 |-> amount]
  <2>1. r \in [0..0 -> 0..amount] /\ r[0] = amount
    OBVIOUS
  <2>2. Runs(r, 0)
    BY <2>1
  <2> HIDE DEF r, Runs
  <2> QED
    BY <1>1, <2>1, <2>2
<1>4. ASSUME NEW n \in T, n < N PROVE n + 1 \in T
  <2>1. n \in 0..N /\ n \in Nat /\ n + 1 \in Schedules /\ n + 1 \in 0..N
    BY <1>1, <1>4
  <2>2. PICK q \in [0..n -> 0..amount] : Runs(q, n)
    OBVIOUS
  <2> DEFINE taken == Min2(Balance(n + 1), q[n])
             r == [i \in 0..(n + 1) |-> IF i <= n THEN q[i] ELSE q[n] - taken]
  <2>3. q[n] \in 0..amount /\ q[n] - taken \in 0..amount
    <3>1. q[n] \in 0..amount /\ Balance(n + 1) \in Nat
      BY <1>2, <2>1
    <3> QED
      BY <3>1 DEF Min2
  <2>4. r \in [0..(n + 1) -> 0..amount]
    <3>1. ASSUME NEW i \in 0..(n + 1) PROVE (IF i <= n THEN q[i] ELSE q[n] - taken) \in 0..amount
      BY <2>1, <2>3
    <3> QED
      BY <3>1
  <2>5. \A i \in 0..n : i \in 0..(n + 1) /\ r[i] = q[i]
    BY <2>1
  <2>6. r[n + 1] = q[n] - taken
    BY <2>1
  <2>7. r[0] = amount
    BY <2>1, <2>2, <2>5
  <2>8. ASSUME NEW s \in 1..(n + 1) PROVE r[s] = r[s - 1] - Min2(Balance(s), r[s - 1])
    <3>1. CASE s = n + 1
      <4>1. s - 1 = n /\ r[n] = q[n]
        BY <2>1, <2>5, <3>1
      <4> HIDE DEF r
      <4> QED
        BY <2>6, <3>1, <4>1
    <3>2. CASE s # n + 1
      <4>1. s \in 1..n /\ s \in 0..n /\ s - 1 \in 0..n
        BY <2>1, <3>2
      <4>2. r[s] = q[s] /\ r[s - 1] = q[s - 1]
        BY <2>5, <4>1
      <4> HIDE DEF r
      <4> QED
        BY <2>2, <4>1, <4>2
    <3> QED
      BY <3>1, <3>2
  <2>9. Runs(r, n + 1)
    BY <2>7, <2>8
  <2> HIDE DEF r, Runs
  <2> QED
    BY <2>1, <2>4, <2>9
<1>5. T = 0..N
  <2>1. T \subseteq 0..N
    OBVIOUS
  <2> HIDE DEF T
  <2> QED
    BY <1>1, <1>3, <1>4, <2>1, BoundedInduction
<1>6. PICK rem \in [0..N -> 0..amount] : Runs(rem, N)
  <2>1. N \in T
    <3> HIDE DEF T
    <3> QED BY <1>1, <1>5
  <2> HIDE DEF Runs
  <2> QED
    BY <2>1
<1>7. rem \in Leftovers(amount)
  BY <1>1, <1>6 DEF Leftovers
<1>8. ASSUME NEW q \in Leftovers(amount) PROVE q = rem
  <2> DEFINE U == {n \in 0..N : q[n] = rem[n]}
  <2>1. q \in [0..N -> 0..amount] /\ Runs(q, N)
    BY <1>1 DEF Leftovers
  <2>2. 0 \in U
    BY <1>1, <1>6, <2>1
  <2>3. ASSUME NEW n \in U, n < N PROVE n + 1 \in U
    <3>1. n + 1 \in 1..N /\ n + 1 \in 0..N /\ (n + 1) - 1 = n
      BY <1>1, <2>3
    <3>2. q[n + 1] = q[(n + 1) - 1] - Min2(Balance(n + 1), q[(n + 1) - 1])
      BY <2>1, <3>1
    <3>3. rem[n + 1] = rem[(n + 1) - 1] - Min2(Balance(n + 1), rem[(n + 1) - 1])
      BY <1>6, <3>1
    <3> QED
      BY <3>1, <3>2, <3>3
  <2>4. U = 0..N
    <3>1. U \subseteq 0..N
      OBVIOUS
    <3> HIDE DEF U
    <3> QED
      BY <1>1, <2>2, <2>3, <3>1, BoundedInduction
  <2>5. \A n \in 0..N : q[n] = rem[n]
    BY <2>4
  <2>6. rem \in [0..N -> 0..amount]
    BY <1>6
  <2> HIDE DEF U, Runs
  <2>7. q = [n \in 0..N |-> q[n]] /\ rem = [n \in 0..N |-> rem[n]]
    BY <2>1, <2>6
  <2>8. [n \in 0..N |-> q[n]] = [n \in 0..N |-> rem[n]]
    BY <2>5
  <2> QED
    BY <2>7, <2>8
<1> QED
  BY <1>7, <1>8

LEMMA PassedAreSettled ==
    ASSUME TypeOK, NEW amount \in Nat, NEW rem \in Leftovers(amount),
           NEW n \in 0..N, rem[n] > 0, NEW t \in 1..n
    PROVE  t \in Schedules /\ rem[t - 1] - rem[t] = Balance(t)
<1>1. t \in Schedules /\ t \in 0..n
  BY ConstantsAssumption DEF Schedules
<1>2. rem[n] <= rem[t]
  BY <1>1, LeftoversFall
<1>3. /\ rem[t - 1] \in Nat /\ rem[t] \in Nat /\ Balance(t) \in Nat
      /\ rem[n] \in Nat
  <2>1. rem[n] \in Nat
    BY DEF Leftovers
  <2> QED
    BY <1>1, <2>1, LeftoverStep, BalanceNat
<1>4. rem[t] = rem[t - 1] - Min2(Balance(t), rem[t - 1])
  BY <1>1 DEF Leftovers
<1> QED
  BY <1>1, <1>2, <1>3, <1>4 DEF Min2

LEMMA SettledRow ==
    ASSUME TypeOK, NEW t \in Schedules, IsOpen(t)
    PROVE  Credited(t, Balance(t)).paid >= Due(t)
<1>1. Balance(t) \in Nat /\ Due(t) \in Nat /\ schedule[t].paid \in Nat
  BY BalanceNat DEF TypeOK, ScheduleRows
<1>2. Credited(t, Balance(t)).paid = schedule[t].paid + Balance(t)
  BY <1>1, CreditedRow
<1>3. Balance(t) = Max2(0, Due(t) - schedule[t].paid)
  BY DEF Balance
<1> QED
  BY <1>1, <1>2, <1>3 DEF Max2

-----------------------------------------------------------------------------
(* Money goes to the oldest debt first. *)

OldestFirst(p) ==
    /\ \A s \in Schedules : alloc'[p][s] > alloc[p][s] =>
           \A t \in 1..(s - 1) : IsOpen(t) => schedule'[t].paid >= Due(t)
    /\ wallet'.net[p] > wallet.net[p] =>
           \A t \in Schedules : IsOpen(t) => schedule'[t].paid >= Due(t)

LEMMA NothingGiven ==
    ASSUME TypeOK, NEW p \in Payments, alloc'[p] = alloc[p],
           wallet'.net[p] \in Int, wallet'.net[p] <= wallet.net[p]
    PROVE  OldestFirst(p)
<1>1. wallet.net[p] \in Int /\ \A s \in Schedules : alloc[p][s] \in Nat
  BY DEF TypeOK, Wallets
<1> QED
  BY <1>1 DEF OldestFirst

LEMMA LoopIsOldestFirst ==
    ASSUME TypeOK, NEW p \in Payments, NEW amount \in Nat, NEW rem \in Leftovers(amount),
           alloc' = [alloc EXCEPT ![p] = [s \in Schedules |-> rem[s - 1] - rem[s]]],
           schedule' = [s \in Schedules |-> Credited(s, rem[s - 1] - rem[s])],
           wallet'.net[p] > wallet.net[p] => rem[N] > 0
    PROVE  OldestFirst(p)
<1>1. ASSUME NEW n \in 0..N, rem[n] > 0, NEW t \in 1..n, IsOpen(t)
      PROVE  schedule'[t].paid >= Due(t)
  BY <1>1, PassedAreSettled, SettledRow
<1>2. ASSUME NEW s \in Schedules, alloc'[p][s] > alloc[p][s]
      PROVE  s - 1 \in 0..N /\ rem[s - 1] > 0
  <2>1. alloc'[p][s] = rem[s - 1] - rem[s] /\ alloc[p][s] \in Nat
    BY DEF TypeOK
  <2>2. rem[s - 1] \in Nat /\ rem[s] \in Nat
    BY LeftoverStep
  <2> QED
    BY <1>2, <2>1, <2>2, ConstantsAssumption DEF Schedules
<1>3. N \in 0..N /\ Schedules = 1..N
  BY ConstantsAssumption DEF Schedules
<1> QED
  BY <1>1, <1>2, <1>3 DEF OldestFirst

LEMMA BookIsOldestFirst ==
    ASSUME TypeOK, NEW p \in Payments, NEW amount \in Nat, NEW category,
           Book(p, amount, category)
    PROVE  OldestFirst(p)
<1>0. wallet.net[p] \in Int
  BY DEF TypeOK, Wallets
<1>1. CASE BookDeposit(p, amount)
  BY <1>0, <1>1, NothingGiven DEF BookDeposit
<1>2. CASE BookRent(p, amount)
  <2>1. PICK rem \in Leftovers(amount) :
          /\ alloc'    = [alloc EXCEPT ![p] = [s \in Schedules |-> rem[s - 1] - rem[s]]]
          /\ schedule' = [s \in Schedules |-> Credited(s, rem[s - 1] - rem[s])]
          /\ wallet'   = WalletPosted(p, rem[N])
    BY <1>2 DEF BookRent
  <2>2. rem[N] \in Nat /\ wallet.balance + rem[N] >= 0
    BY LeftoverNat DEF TypeOK, Wallets
  <2>3. wallet'.net[p] = wallet.net[p] + rem[N]
    BY <2>1, <2>2, WalletPost
  <2>4. wallet'.net[p] > wallet.net[p] => rem[N] > 0
    BY <1>0, <2>2, <2>3
  <2> QED
    BY <2>1, <2>4, LoopIsOldestFirst
<1> QED
  BY <1>1, <1>2 DEF Book

LEMMA OldestFirstPaymentStep ==
    ASSUME TypeOK, NEW p \in Payments, PaymentStep(p)
    PROVE  OldestFirst(p)
<1> USE ConstantsAssumption
<1>0. wallet.net[p] \in Int /\ payment[p].amount \in Nat
  BY PaymentRowTyped DEF TypeOK, Wallets
<1>1. ASSUME \/ \E a \in Amounts, c \in Categories, l \in 0..N : CreatePayment(p, a, c, l)
             \/ CancelPayment(p) \/ RetryPayment(p) \/ MarkPaymentFailed(p)
             \/ RefundPaymentByOrg(p) \/ RejectPayment(p)
      PROVE  OldestFirst(p)
  <2>1. alloc' = alloc /\ wallet' = wallet
    BY <1>1 DEF CreatePayment, CancelPayment, RetryPayment, MarkPaymentFailed,
                RefundPaymentByOrg, RejectPayment, ReverseAllocations
  <2> QED
    BY <1>0, <2>1, NothingGiven
<1>2. ASSUME NEW a \in Amounts, NEW c \in Categories, RecordManualPayment(p, a, c)
      PROVE  OldestFirst(p)
  BY <1>2, BookIsOldestFirst DEF RecordManualPayment
<1>3. ASSUME NEW k \in Schedules, ImportSettlement(p, k)
      PROVE  OldestFirst(p)
  <2>1. k * Rent \in Nat
    BY DEF Schedules
  <2>2. PICK rem \in Leftovers(k * Rent) :
          /\ alloc'    = [alloc EXCEPT ![p] = [s \in Schedules |-> rem[s - 1] - rem[s]]]
          /\ schedule' = [s \in Schedules |-> Credited(s, rem[s - 1] - rem[s])]
    BY <1>3 DEF ImportSettlement
  <2>3. wallet' = wallet
    BY <1>3 DEF ImportSettlement
  <2>4. ~(wallet'.net[p] > wallet.net[p])
    BY <1>0, <2>3
  <2> QED
    BY <2>1, <2>2, <2>4, LoopIsOldestFirst
<1>4. ASSUME ConfirmPayment(p)
      PROVE  OldestFirst(p)
  BY <1>0, <1>4, BookIsOldestFirst DEF ConfirmPayment
<1>5. ASSUME RefundPayment(p)
      PROVE  OldestFirst(p)
  <2>1. PICK reversed \in Nat : /\ wallet.balance + (0 - reversed) >= 0
                                /\ wallet' = WalletPosted(p, 0 - reversed)
    BY <1>5, RefundEffect
  <2>2. wallet'.net[p] = wallet.net[p] + (0 - reversed)
    BY <2>1, WalletPost
  <2>3. wallet'.net[p] \in Int /\ wallet'.net[p] <= wallet.net[p]
    BY <1>0, <2>2
  <2>4. alloc' = alloc
    BY <1>5 DEF RefundPayment, ReverseAllocations
  <2> QED
    BY <2>3, <2>4, NothingGiven
<1> QED
  BY <1>1, <1>2, <1>3, <1>4, <1>5 DEF PaymentStep

\* Whatever the schedules, their fees and the amounts are: a step that gives a
\* payment's money to a schedule or to the wallet leaves no older debt open.
THEOREM OldestDebtFirst == Spec => MoneyGoesOldestFirst
<1>1. TypeOK /\ [Next]_vars => [\A p \in Payments : OldestFirst(p)]_vars
  <2> SUFFICES ASSUME TypeOK, Next, NEW p \in Payments PROVE OldestFirst(p)
    OBVIOUS
  <2>0. wallet.net[p] \in Int
    BY DEF TypeOK, Wallets
  <2>1. ASSUME NEW q \in Payments, PaymentStep(q)
        PROVE  OldestFirst(p)
    <3>1. CASE q = p
      BY <2>1, <3>1, OldestFirstPaymentStep
    <3>2. CASE q # p
      BY <2>0, <2>1, <3>2, OthersUntouched, NothingGiven
    <3> QED
      BY <3>1, <3>2
  <2>2. ASSUME ScheduleStep
        PROVE  OldestFirst(p)
    <3>1. alloc' = alloc /\ wallet' = wallet
      BY <2>2 DEF ScheduleStep, GenerateRentSchedules, WaiveSchedule,
                  MarkOverdueSchedules, ApplyLateFee, ApplyLateFeesTask, WaiveLateFees
    <3> QED
      BY <2>0, <3>1, NothingGiven
  <2>3. ASSUME OtherStep
        PROVE  OldestFirst(p)
    BY <2>0, <2>3, OtherStepFrame, NothingGiven
  <2> QED
    BY <2>1, <2>2, <2>3, NextSteps
<1> QED
  BY <1>1, TypeCorrect, PTL DEF Spec, MoneyGoesOldestFirst, OldestFirst

-----------------------------------------------------------------------------
(* Where the money of the payments is: on schedules, in the wallet, on the *)
(* deposit.  The strengthening says that a payment that was not taken, or  *)
(* not yet, has nothing anywhere, and that a deposit row holds nothing     *)
(* before it exists.  A step of a payment then does one of four things.    *)

Unbooked(p) == ~Settled(p) /\ Status(p) # "refunded"

UnbookedIsClean ==
    \A p \in Payments : Unbooked(p) =>
        wallet.net[p] = 0 /\ \A s \in Schedules : alloc[p][s] = 0

NoDepositNoMoney == ~deposit.exists => deposit.held = 0

StaysOut(p) ==
    /\ Unbooked(p) /\ Unbooked(p)'
    /\ UNCHANGED <<schedule, alloc, wallet, deposit, orgRefunded>>

Booked(p) ==
    /\ Unbooked(p) /\ Settled(p)'
    /\ \A s \in Schedules : schedule'[s] = Credited(s, alloc'[p][s])
    /\ payment'[p].category = "rent" => Total(alloc'[p]) + wallet'.net[p] = payment'[p].amount
    /\ deposit'.exists = deposit.exists
    /\ deposit'.held = IF deposit.exists /\ payment'[p].category = "deposit"
                       THEN deposit.held + payment'[p].amount ELSE deposit.held
    /\ UNCHANGED orgRefunded

Refunded(p) ==
    /\ Settled(p) /\ Status(p)' = "refunded"
    /\ payment'[p].category = payment[p].category /\ payment'[p].amount = payment[p].amount
    /\ deposit'.exists = deposit.exists

GivenBack(p) ==
    /\ Refunded(p)
    /\ \A s \in Schedules : schedule'[s] = Debited(s, alloc[p][s])
    /\ deposit'.held = IF payment[p].category = "deposit" /\ deposit.exists
                       THEN Max2(0, deposit.held - payment[p].amount) ELSE deposit.held
    /\ UNCHANGED orgRefunded

RefundedByOrg(p) ==
    /\ Refunded(p)
    /\ deposit'.held = deposit.held
    /\ orgRefunded' = orgRefunded \cup {p}

\* What the loop gave away is the amount without what is left of it.
LEMMA GivenIsTaken ==
    ASSUME NEW amount \in Nat, NEW rem \in Leftovers(amount), NEW f,
           \A s \in Schedules : f[s] = rem[s - 1] - rem[s]
    PROVE  Total(f) = amount - rem[N]
<1>1. N \in Nat /\ Schedules = 1..N
  BY ConstantsAssumption DEF Schedules
<1>2. rem[0] = amount /\ \A n \in 0..N : rem[n] \in Int
  BY DEF Leftovers
<1>3. SumFunctionOnSet(f, 1..N) = rem[0] - rem[N]
  BY <1>1, <1>2, SumTelescopes
<1> QED
  BY <1>1, <1>2, <1>3 DEF Total

LEMMA BookEffect ==
    ASSUME TypeOK, NEW p \in Payments, NEW amount \in Nat, NEW category,
           Book(p, amount, category),
           wallet.net[p] = 0, \A s \in Schedules : alloc[p][s] = 0
    PROVE  /\ \A s \in Schedules : schedule'[s] = Credited(s, alloc'[p][s])
           /\ category = "rent" => Total(alloc'[p]) + wallet'.net[p] = amount
           /\ deposit'.exists = deposit.exists
           /\ deposit'.held = IF deposit.exists /\ category = "deposit"
                              THEN deposit.held + amount ELSE deposit.held
<1>0. deposit \in Deposits /\ alloc \in [Payments -> [Schedules -> Nat]]
  BY DEF TypeOK
<1>1. CASE category = "deposit" /\ BookDeposit(p, amount)
  <2>1. \A s \in Schedules : schedule'[s] = Credited(s, alloc'[p][s])
    BY <1>1 DEF BookDeposit, Credited
  <2>2. deposit' = IF deposit.exists THEN [deposit EXCEPT !.held = @ + amount] ELSE deposit
    BY <1>1 DEF BookDeposit
  <2>3. /\ deposit'.exists = deposit.exists
        /\ deposit'.held = IF deposit.exists THEN deposit.held + amount ELSE deposit.held
    BY <1>0, <2>2 DEF Deposits
  <2> QED
    BY <1>1, <2>1, <2>3
<1>2. CASE category = "rent" /\ BookRent(p, amount)
  <2>1. PICK rem \in Leftovers(amount) :
          /\ alloc'    = [alloc EXCEPT ![p] = [s \in Schedules |-> rem[s - 1] - rem[s]]]
          /\ schedule' = [s \in Schedules |-> Credited(s, rem[s - 1] - rem[s])]
          /\ wallet'   = WalletPosted(p, rem[N])
          /\ UNCHANGED deposit
    BY <1>2 DEF BookRent
  <2>2. alloc'[p] = [s \in Schedules |-> rem[s - 1] - rem[s]]
    BY <1>0, <2>1
  <2>3. rem[N] \in Nat /\ wallet.balance + rem[N] >= 0
    BY LeftoverNat DEF TypeOK, Wallets
  <2>4. wallet'.net[p] = wallet.net[p] + rem[N]
    BY <2>1, <2>3, WalletPost
  <2>5. Total(alloc'[p]) = amount - rem[N]
    BY <2>2, GivenIsTaken
  <2> QED
    BY <1>2, <2>1, <2>2, <2>3, <2>4, <2>5
<1> QED
  BY <1>1, <1>2 DEF Book

\* The k periods of an import are what its payment is for: nothing is left over.
LEMMA ImportFits ==
    ASSUME TypeOK, NEW k \in Schedules, k <= periods,
           \A s \in Schedules : schedule[s] = [paid |-> 0, fee |-> 0, status |-> "pending"],
           NEW rem \in Leftovers(k * Rent)
    PROVE  rem[N] = 0
<1> DEFINE Price(i) == i * Rent
           T == {n \in 0..N : rem[n] = IF n <= k THEN Price(k - n) ELSE 0}
<1>1. N \in Nat /\ k \in 1..N /\ Rent \in Nat /\ Rent > 0 /\ periods \in 0..N /\ k * Rent \in Nat
  BY ConstantsAssumption DEF Schedules, TypeOK
<1>2. 0 \in T
  BY <1>1 DEF Leftovers
<1>3. \A i \in Nat : Price(i) \in Nat /\ Price(i + 1) = Price(i) + Rent
  BY <1>1, ProductNat
<1>4. Price(0) = 0
  BY <1>1
<1> HIDE DEF Price
<1>5. ASSUME NEW n \in T, n < N PROVE n + 1 \in T
  <2>1. n \in 0..N /\ n + 1 \in Schedules /\ n + 1 \in 0..N /\ (n + 1) - 1 = n
    BY <1>1, <1>5 DEF Schedules
  <2>2. rem[n + 1] = rem[n] - Min2(Balance(n + 1), rem[n]) /\ Balance(n + 1) \in Nat
    BY <1>1, <2>1, BalanceNat DEF Leftovers
  <2>3. CASE n < k
    <3>1. n + 1 <= periods
      BY <1>1, <2>1, <2>3
    <3>2. Balance(n + 1) = Rent
      BY <1>1, <2>1, <3>1 DEF Balance, IsOpen, Due, Max2
    <3>3. k - (n + 1) \in Nat /\ k - n = (k - (n + 1)) + 1
      BY <1>1, <2>1, <2>3
    <3>4. /\ Price(k - (n + 1)) \in Nat
          /\ Price(k - n) = Price(k - (n + 1)) + Rent
      <4> DEFINE i == k - (n + 1)
      <4>1. i \in Nat /\ k - n = i + 1
        BY <3>3
      <4> HIDE DEF i
      <4>2. Price(i) \in Nat /\ Price(k - n) = Price(i) + Rent
        BY <1>3, <4>1
      <4> QED
        BY <4>2 DEF i
    <3>5. rem[n] = Price(k - (n + 1)) + Rent
      BY <1>1, <2>1, <2>3, <3>4
    <3>6. rem[n + 1] = Price(k - (n + 1))
      BY <1>1, <2>2, <3>2, <3>4, <3>5 DEF Min2
    <3>7. n + 1 <= k
      BY <1>1, <2>1, <2>3
    <3> QED
      BY <2>1, <3>6, <3>7
  <2>4. CASE ~(n < k)
    <3>1. rem[n] = 0
      <4>1. CASE n = k
        <5>1. k - n = 0
          BY <1>1, <4>1
        <5> QED
          BY <1>1, <1>4, <4>1, <5>1
      <4>2. CASE n # k
        BY <1>1, <2>1, <2>4, <4>2
      <4> QED
        BY <4>1, <4>2
    <3>2. rem[n + 1] = 0
      BY <2>2, <3>1 DEF Min2
    <3>3. ~(n + 1 <= k)
      BY <1>1, <2>1, <2>4
    <3> QED
      BY <2>1, <3>2, <3>3
  <2> QED
    BY <2>3, <2>4
<1>6. T = 0..N
  <2>1. T \subseteq 0..N
    OBVIOUS
  <2> HIDE DEF T
  <2> QED
    BY <1>1, <1>2, <1>5, <2>1, BoundedInduction
<1>7. rem[N] = IF N <= k THEN Price(k - N) ELSE 0
  BY <1>1, <1>6
<1>8. N <= k => k - N = 0
  BY <1>1
<1> QED
  BY <1>7, <1>4, <1>8

LEMMA PaymentEffects ==
    ASSUME TypeOK, UnbookedIsClean, NEW p \in Payments, PaymentStep(p)
    PROVE  StaysOut(p) \/ Booked(p) \/ GivenBack(p) \/ RefundedByOrg(p)
<1> USE ConstantsAssumption
<1>0. /\ payment \in [Payments -> PaymentRows] /\ payment[p] \in PaymentRows
      /\ payment[p].amount \in Nat /\ payment[p].link \in 0..N
      /\ deposit \in Deposits /\ schedule \in [Schedules -> ScheduleRows]
  BY PaymentRowTyped DEF TypeOK
<1>1. Unbooked(p) => wallet.net[p] = 0 /\ \A s \in Schedules : alloc[p][s] = 0
  BY DEF UnbookedIsClean
<1>2. \A to \in Statuses : /\ Moved(p, to)[p].status = to
                           /\ Moved(p, to)[p].amount = payment[p].amount
                           /\ Moved(p, to)[p].category = payment[p].category
  BY <1>0 DEF Moved, PaymentRows
<1>3. ASSUME NEW a \in Amounts, NEW c \in Categories, NEW l \in 0..N, CreatePayment(p, a, c, l)
      PROVE  StaysOut(p)
  <2>1. payment'[p].status = "initiated"
    BY <1>0, <1>3 DEF CreatePayment
  <2> QED
    BY <1>3, <2>1 DEF CreatePayment, StaysOut, Unbooked, Settled, Exists, Status, SuccessfulTerminal
<1>4. ASSUME NEW a \in Amounts, NEW c \in Categories, RecordManualPayment(p, a, c)
      PROVE  Booked(p)
  <2>1. /\ payment'[p].status = "completed" /\ payment'[p].amount = a
        /\ payment'[p].category = c
    BY <1>0, <1>4 DEF RecordManualPayment
  <2>2. Unbooked(p)
    BY <1>4 DEF RecordManualPayment, Unbooked, Settled, Exists, SuccessfulTerminal
  <2>3. a \in Nat /\ Book(p, a, c) /\ orgRefunded' = orgRefunded
    BY <1>4 DEF RecordManualPayment
  <2>4. /\ \A s \in Schedules : schedule'[s] = Credited(s, alloc'[p][s])
        /\ c = "rent" => Total(alloc'[p]) + wallet'.net[p] = a
        /\ deposit'.exists = deposit.exists
        /\ deposit'.held = IF deposit.exists /\ c = "deposit"
                           THEN deposit.held + a ELSE deposit.held
    BY <1>1, <2>2, <2>3, BookEffect
  <2>5. Settled(p)'
    BY <2>1 DEF Settled, Status, SuccessfulTerminal
  <2> QED
    BY <2>1, <2>2, <2>3, <2>4, <2>5 DEF Booked
<1>5. ASSUME NEW k \in Schedules, ImportSettlement(p, k)
      PROVE  Booked(p)
  <2>1. /\ payment'[p].status = "completed" /\ payment'[p].amount = k * Rent
        /\ payment'[p].category = "rent"
    BY <1>0, <1>5 DEF ImportSettlement
  <2>2. Unbooked(p)
    BY <1>5 DEF ImportSettlement, Unbooked, Settled, Exists, SuccessfulTerminal
  <2>3. PICK rem \in Leftovers(k * Rent) :
          /\ alloc'    = [alloc EXCEPT ![p] = [s \in Schedules |-> rem[s - 1] - rem[s]]]
          /\ schedule' = [s \in Schedules |-> Credited(s, rem[s - 1] - rem[s])]
    BY <1>5 DEF ImportSettlement
  <2>4. k * Rent \in Nat
    BY DEF Schedules
  <2>5. alloc'[p] = [s \in Schedules |-> rem[s - 1] - rem[s]]
    BY <2>3 DEF TypeOK
  <2>6. rem[N] = 0
    BY <1>5, ImportFits DEF ImportSettlement
  <2>7. Total(alloc'[p]) = k * Rent
    BY <2>4, <2>5, <2>6, GivenIsTaken
  <2>8. wallet' = wallet /\ deposit' = deposit /\ orgRefunded' = orgRefunded
    BY <1>5 DEF ImportSettlement
  <2>9. Settled(p)'
    BY <2>1 DEF Settled, Status, SuccessfulTerminal
  <2>10. wallet'.net[p] = 0
    BY <1>1, <2>2, <2>8
  <2>11. \A s \in Schedules : schedule'[s] = Credited(s, alloc'[p][s])
    BY <2>3, <2>5
  <2> QED
    BY <2>1, <2>2, <2>4, <2>7, <2>8, <2>9, <2>10, <2>11 DEF Booked
<1>6. ASSUME ConfirmPayment(p)
      PROVE  Booked(p)
  <2>1. /\ payment'[p].status = "completed" /\ payment'[p].amount = payment[p].amount
        /\ payment'[p].category = payment[p].category
    BY <1>2, <1>6 DEF ConfirmPayment, Statuses
  <2>2. Unbooked(p)
    BY <1>6 DEF ConfirmPayment, Unbooked, Settled, Confirmable, SuccessfulTerminal
  <2>3. Book(p, payment[p].amount, payment[p].category) /\ orgRefunded' = orgRefunded
    BY <1>6 DEF ConfirmPayment
  <2>4. /\ \A s \in Schedules : schedule'[s] = Credited(s, alloc'[p][s])
        /\ payment[p].category = "rent" => Total(alloc'[p]) + wallet'.net[p] = payment[p].amount
        /\ deposit'.exists = deposit.exists
        /\ deposit'.held = IF deposit.exists /\ payment[p].category = "deposit"
                           THEN deposit.held + payment[p].amount ELSE deposit.held
    BY <1>0, <1>1, <2>2, <2>3, BookEffect
  <2>5. Settled(p)'
    BY <2>1 DEF Settled, Status, SuccessfulTerminal
  <2> QED
    BY <2>1, <2>2, <2>3, <2>4, <2>5 DEF Booked
<1>7. ASSUME RefundPayment(p)
      PROVE  GivenBack(p)
  <2>1. /\ payment'[p].status = "refunded" /\ payment'[p].amount = payment[p].amount
        /\ payment'[p].category = payment[p].category
    BY <1>2, <1>7 DEF RefundPayment, Statuses
  <2>2. deposit' = IF payment[p].category = "deposit" /\ deposit.exists
                   THEN [deposit EXCEPT !.held = Max2(0, @ - payment[p].amount)]
                   ELSE deposit
    BY <1>7 DEF RefundPayment
  <2>3. /\ deposit'.exists = deposit.exists
        /\ deposit'.held = IF payment[p].category = "deposit" /\ deposit.exists
                           THEN Max2(0, deposit.held - payment[p].amount) ELSE deposit.held
    BY <1>0, <2>2 DEF Deposits
  <2> QED
    BY <1>7, <2>1, <2>3
       DEF GivenBack, Refunded, RefundPayment, ReverseAllocations, Settled, Status
<1>8. ASSUME RefundPaymentByOrg(p)
      PROVE  RefundedByOrg(p)
  <2>1. /\ payment'[p].status = "refunded" /\ payment'[p].amount = payment[p].amount
        /\ payment'[p].category = payment[p].category
    BY <1>2, <1>8 DEF RefundPaymentByOrg, Statuses
  <2> QED
    BY <1>8, <2>1 DEF RefundedByOrg, Refunded, RefundPaymentByOrg, Settled, Status
<1>9. ASSUME RejectPayment(p)
      PROVE  StaysOut(p)
  <2>1. payment'[p].status = "rejected"
    BY <1>2, <1>9 DEF RejectPayment, Statuses
  <2>2. Unbooked(p)
    BY <1>9 DEF RejectPayment, RejectableByStaff, InProgress, Terminal, FailedTerminal,
                SuccessfulTerminal, HumanTerminal, Unbooked, Settled
  <2>3. schedule' = [s \in Schedules |-> Debited(s, alloc[p][s])]
    BY <1>9 DEF RejectPayment, ReverseAllocations
  <2>4. schedule' = schedule
    BY <1>0, <1>1, <2>2, <2>3 DEF Debited
  <2> QED
    BY <1>9, <2>1, <2>2, <2>4
       DEF RejectPayment, ReverseAllocations, StaysOut, Unbooked, Settled, Status, SuccessfulTerminal
<1>10. ASSUME CancelPayment(p) \/ RetryPayment(p) \/ MarkPaymentFailed(p)
       PROVE  StaysOut(p)
  <2>1. payment'[p].status \in {"cancelled", "routed", "permanently_failed"}
    BY <1>0, <1>10 DEF CancelPayment, RetryPayment, MarkPaymentFailed, Moved, PaymentRows
  <2>2. Unbooked(p)
    BY <1>10 DEF CancelPayment, RetryPayment, MarkPaymentFailed, CancellableByTenant, Retryable,
                 SuccessfulTerminal, Unbooked, Settled
  <2> QED
    BY <1>10, <2>1, <2>2 DEF CancelPayment, RetryPayment, MarkPaymentFailed, StaysOut, Unbooked,
                             Settled, Status, SuccessfulTerminal
<1> QED
  BY <1>3, <1>4, <1>5, <1>6, <1>7, <1>8, <1>9, <1>10 DEF PaymentStep

MoneyInv ==
    /\ UnbookedIsClean /\ NoDepositNoMoney
    /\ AllocationsExplainSchedules /\ RentFullyAccounted /\ DepositBackedByPayments

SchedulesHold(s) == SumFunctionOnSet(StandingShare(s), Payments)
DepositsTaken    == SumFunctionOnSet(DepositShare, Payments)

LEMMA SharesTyped ==
    ASSUME TypeOK, NEW s \in Schedules
    PROVE  /\ \A p \in Payments : StandingShare(s)[p] \in Nat /\ DepositShare[p] \in Nat
           /\ Ints(StandingShare(s), Payments) /\ Ints(DepositShare, Payments)
           /\ SchedulesHold(s) \in Nat /\ DepositsTaken \in Nat
<1>1. \A p \in Payments : alloc[p][s] \in Nat /\ payment[p].amount \in Nat
  BY PaymentRowTyped DEF TypeOK
<1>2. \A p \in Payments : StandingShare(s)[p] \in Nat /\ DepositShare[p] \in Nat
  BY <1>1 DEF StandingShare, DepositShare
<1>3. IsFiniteSet(Payments)
  BY ConstantsAssumption
<1>4. SchedulesHold(s) \in Nat /\ DepositsTaken \in Nat
  BY <1>2, <1>3, SumNat DEF SchedulesHold, DepositsTaken
<1> QED
  BY <1>2, <1>4 DEF Ints

LEMMA MoneyInit == Init => MoneyInv
<1> SUFFICES ASSUME Init PROVE MoneyInv
  OBVIOUS
<1>1. \A p \in Payments : ~Settled(p)
  BY DEF Init, NoRow, LegacyRow, Settled, Status, SuccessfulTerminal
<1>2. IsFiniteSet(Payments)
  BY ConstantsAssumption
<1>3. \A p \in Payments : DepositShare[p] = 0
  BY <1>1 DEF Init, DepositShare
<1>4. \A s \in Schedules : \A p \in Payments : StandingShare(s)[p] = 0
  BY <1>1 DEF StandingShare
<1>5. SumFunctionOnSet(DepositShare, Payments) = 0
  BY <1>2, <1>3, SumZero
<1>6. \A s \in Schedules : SumFunctionOnSet(StandingShare(s), Payments) = 0
  BY <1>2, <1>4, SumZero
<1>7. UnbookedIsClean /\ NoDepositNoMoney
  BY DEF Init, UnbookedIsClean, NoDepositNoMoney
<1>8. AllocationsExplainSchedules /\ DepositBackedByPayments
  BY <1>5, <1>6 DEF Init, AllocationsExplainSchedules, DepositBackedByPayments
<1> QED
  BY <1>1, <1>7, <1>8 DEF MoneyInv, RentFullyAccounted

\* Steps that move no payment's money.
LEMMA MoneyFrame ==
    ASSUME MoneyInv, UNCHANGED <<payment, alloc, orgRefunded>>, wallet'.net = wallet.net,
           \A s \in Schedules : schedule'[s].paid = schedule[s].paid,
           deposit'.held = deposit.held, deposit.exists => deposit'.exists
    PROVE  MoneyInv'
<1>1. UnbookedIsClean' /\ NoDepositNoMoney' /\ RentFullyAccounted'
  BY DEF MoneyInv, UnbookedIsClean, NoDepositNoMoney, RentFullyAccounted, Unbooked, Settled, Status
<1>2. DepositShare' = DepositShare /\ \A s \in Schedules : StandingShare(s)' = StandingShare(s)
  BY DEF DepositShare, StandingShare, Settled, Status
<1>3. AllocationsExplainSchedules' /\ DepositBackedByPayments'
  BY <1>2 DEF MoneyInv, AllocationsExplainSchedules, DepositBackedByPayments
<1> QED
  BY <1>1, <1>3 DEF MoneyInv

LEMMA ScheduleStepFrame ==
    ASSUME TypeOK, ScheduleStep
    PROVE  /\ UNCHANGED <<payment, alloc, wallet, deposit, ledger, orgRefunded>>
           /\ \A s \in Schedules : schedule'[s].paid = schedule[s].paid
<1>1. \A s \in Schedules : schedule[s] \in ScheduleRows
  BY DEF TypeOK
<1>2. UNCHANGED <<payment, alloc, wallet, deposit, ledger, orgRefunded>>
  BY DEF ScheduleStep, GenerateRentSchedules, WaiveSchedule, MarkOverdueSchedules,
         ApplyLateFee, ApplyLateFeesTask, WaiveLateFees
<1>3. \A s \in Schedules : schedule'[s].paid = schedule[s].paid
  <2>1. ASSUME NEW s \in Schedules, \/ GenerateRentSchedules
                                    \/ \E t \in Schedules : MarkOverdueSchedules(t)
        PROVE  schedule'[s].paid = schedule[s].paid
    BY <1>1, <2>1 DEF GenerateRentSchedules, MarkOverdueSchedules, ScheduleRows
  <2>2. ASSUME NEW s \in Schedules, NEW t \in Schedules, WaiveSchedule(t) \/ ApplyLateFee(t)
        PROVE  schedule'[s].paid = schedule[s].paid
    <3>1. CASE s = t
      BY <1>1, <2>2, <3>1 DEF WaiveSchedule, ApplyLateFee, TypeOK, ScheduleRows
    <3>2. CASE s # t
      BY <2>2, <3>2 DEF WaiveSchedule, ApplyLateFee, TypeOK
    <3> QED
      BY <3>1, <3>2
  <2>3. ASSUME NEW s \in Schedules, ApplyLateFeesTask
        PROVE  schedule'[s].paid = schedule[s].paid
    <3>1. PICK days \in [Schedules -> 0..MaxFees] :
            schedule' = [t \in Schedules |-> [schedule[t] EXCEPT !.fee = @ + days[t] * LateFee]]
      BY <2>3 DEF ApplyLateFeesTask
    <3> QED
      BY <1>1, <3>1 DEF ScheduleRows
  <2>4. ASSUME NEW s \in Schedules, WaiveLateFees
        PROVE  schedule'[s].paid = schedule[s].paid
    <3>1. PICK rows \in [Schedules -> 0..MaxFees] :
            schedule' = [t \in Schedules |->
                           [schedule[t] EXCEPT !.fee = Max2(0, @ - rows[t] * LateFee)]]
      BY <2>4 DEF WaiveLateFees
    <3> QED
      BY <1>1, <3>1 DEF ScheduleRows
  <2> QED
    BY <2>1, <2>2, <2>3, <2>4 DEF ScheduleStep
<1> QED
  BY <1>2, <1>3

LEMMA OtherStepDeposit ==
    ASSUME TypeOK, OtherStep
    PROVE  /\ UNCHANGED schedule /\ deposit'.held = deposit.held
           /\ deposit.exists => deposit'.exists
<1>1. deposit \in Deposits
  BY DEF TypeOK
<1> QED
  BY <1>1 DEF OtherStep, CreateDepositRecord, ReturnDeposit, CreditTenantWallet, Deposits

\* What taking money back leaves of amount_paid.
LEMMA DebitedPaid ==
    ASSUME TypeOK, NEW s \in Schedules, NEW applied \in Nat
    PROVE  Debited(s, applied).paid = Max2(0, schedule[s].paid - applied)
<1>1. schedule[s] \in ScheduleRows /\ schedule[s].paid \in Nat
  BY DEF TypeOK, ScheduleRows
<1> QED
  BY <1>1 DEF Debited, ScheduleRows, Max2

LEMMA CleanPaymentStep ==
    ASSUME TypeOK, MoneyInv, NEW p \in Payments, PaymentStep(p)
    PROVE  UnbookedIsClean' /\ NoDepositNoMoney' /\ RentFullyAccounted'
<1>1. StaysOut(p) \/ Booked(p) \/ GivenBack(p) \/ RefundedByOrg(p)
  BY PaymentEffects DEF MoneyInv
<1>2. UnbookedIsClean'
  <2> SUFFICES ASSUME NEW q \in Payments, Unbooked(q)'
               PROVE  wallet'.net[q] = 0 /\ \A s \in Schedules : alloc'[q][s] = 0
    BY DEF UnbookedIsClean
  <2>1. CASE q = p
    <3>1. StaysOut(p)
      BY <1>1, <2>1 DEF Unbooked, Booked, GivenBack, RefundedByOrg, Refunded
    <3> QED
      BY <2>1, <3>1 DEF StaysOut, MoneyInv, UnbookedIsClean
  <2>2. CASE q # p
    BY <2>2, OthersUntouched DEF MoneyInv, UnbookedIsClean, Unbooked, Settled, Status
  <2> QED
    BY <2>1, <2>2
<1>3. NoDepositNoMoney'
  BY <1>1 DEF MoneyInv, NoDepositNoMoney, StaysOut, Booked, GivenBack, RefundedByOrg, Refunded
<1>4. RentFullyAccounted'
  <2> SUFFICES ASSUME NEW q \in Payments, Settled(q)', payment'[q].category = "rent"
               PROVE  Total(alloc'[q]) + wallet'.net[q] = payment'[q].amount
    BY DEF RentFullyAccounted
  <2>1. CASE q = p
    <3>1. Booked(p)
      BY <1>1, <2>1 DEF StaysOut, Unbooked, GivenBack, RefundedByOrg, Refunded, Settled,
                        Status, SuccessfulTerminal
    <3> QED
      BY <2>1, <3>1 DEF Booked
  <2>2. CASE q # p
    BY <2>2, OthersUntouched DEF MoneyInv, RentFullyAccounted, Settled, Status
  <2> QED
    BY <2>1, <2>2
<1> QED
  BY <1>2, <1>3, <1>4

LEMMA AllocPaymentStep ==
    ASSUME TypeOK, MoneyInv, NEW p \in Payments, PaymentStep(p)
    PROVE  AllocationsExplainSchedules'
<1> SUFFICES ASSUME orgRefunded' = {}, NEW s \in Schedules
             PROVE  schedule'[s].paid = SumFunctionOnSet(StandingShare(s)', Payments)
  BY DEF AllocationsExplainSchedules
<1> DEFINE f == StandingShare(s)
           g == StandingShare(s)'
<1>1. StaysOut(p) \/ Booked(p) \/ GivenBack(p)
  BY PaymentEffects DEF MoneyInv, RefundedByOrg
<1>2. orgRefunded = {}
  BY <1>1 DEF StaysOut, Booked, GivenBack
<1>3. schedule[s].paid = SumFunctionOnSet(f, Payments) /\ schedule[s].paid \in Nat
  BY <1>2 DEF MoneyInv, AllocationsExplainSchedules, TypeOK, ScheduleRows
<1>4. \A q \in Payments \ {p} : g[q] = f[q]
  BY OthersUntouched DEF StandingShare, Settled, Status
<1>5. alloc'[p][s] \in Nat /\ alloc[p][s] \in Nat
  BY TypePaymentStep DEF TypeOK
<1>6. Ints(f, Payments) /\ (\A q \in Payments : f[q] \in Nat) /\ g[p] \in Nat
  BY SharesTyped, <1>5 DEF StandingShare
<1>7. SumFunctionOnSet(g, Payments) = SumFunctionOnSet(f, Payments) + (g[p] - f[p])
  <2> HIDE DEF f, g
  <2> QED BY <1>4, <1>6, ConstantsAssumption, SumChangeOne
<1>8. f[p] = IF Settled(p) THEN alloc[p][s] ELSE 0
  BY DEF StandingShare
<1>9. g[p] = IF Settled(p)' THEN alloc'[p][s] ELSE 0
  BY DEF StandingShare
<1>10. f[p] <= schedule[s].paid
  <2> HIDE DEF f, g
  <2> QED BY <1>3, <1>6, ConstantsAssumption, SumPart
<1> HIDE DEF f, g
<1>11. CASE StaysOut(p)
  <2>1. f[p] = 0 /\ g[p] = 0 /\ schedule' = schedule
    BY <1>8, <1>9, <1>11 DEF StaysOut, Unbooked
  <2> QED
    BY <1>3, <1>7, <2>1 DEF g
<1>12. CASE Booked(p)
  <2>1. f[p] = 0 /\ g[p] = alloc'[p][s]
    BY <1>8, <1>9, <1>12 DEF Booked, Unbooked
  <2>2. schedule'[s].paid = schedule[s].paid + alloc'[p][s]
    BY <1>5, <1>12, CreditedRow DEF Booked
  <2> QED
    BY <1>3, <1>5, <1>7, <2>1, <2>2 DEF g
<1>13. CASE GivenBack(p)
  <2>1. f[p] = alloc[p][s] /\ g[p] = 0
    BY <1>8, <1>9, <1>13 DEF GivenBack, Refunded, Settled, Status, SuccessfulTerminal
  <2>2. schedule'[s].paid = Max2(0, schedule[s].paid - alloc[p][s])
    BY <1>5, <1>13, DebitedPaid DEF GivenBack
  <2>3. schedule'[s].paid = schedule[s].paid - alloc[p][s]
    BY <1>3, <1>5, <1>10, <2>1, <2>2 DEF Max2
  <2> QED
    BY <1>3, <1>5, <1>7, <2>1, <2>3 DEF g
<1> QED
  BY <1>1, <1>11, <1>12, <1>13

LEMMA DepositPaymentStep ==
    ASSUME TypeOK, OrgRefundsAreRefunds, MoneyInv, NEW p \in Payments, PaymentStep(p)
    PROVE  DepositBackedByPayments'
<1> DEFINE f == DepositShare
           g == DepositShare'
<1> SUFFICES deposit'.held <= SumFunctionOnSet(g, Payments)
  BY DEF DepositBackedByPayments
<1>1. StaysOut(p) \/ Booked(p) \/ GivenBack(p) \/ RefundedByOrg(p)
  BY PaymentEffects DEF MoneyInv
<1>2. /\ deposit.held <= SumFunctionOnSet(f, Payments) /\ deposit.held \in Nat
      /\ ~deposit.exists => deposit.held = 0
  BY DEF MoneyInv, DepositBackedByPayments, NoDepositNoMoney, TypeOK, Deposits
<1>3. \A q \in Payments \ {p} : g[q] = f[q]
  BY OthersUntouched DEF DepositShare, Settled, Status
<1>4. payment'[p].amount \in Nat /\ payment[p].amount \in Nat
  BY TypePaymentStep, PaymentRowTyped DEF TypeOK, PaymentRows
<1>5. (\A q \in Payments : f[q] \in Nat) /\ Ints(f, Payments) /\ g[p] \in Nat
  <2>1. \A q \in Payments : payment[q].amount \in Nat
    BY PaymentRowTyped
  <2> QED
    BY <1>4, <2>1 DEF DepositShare, Ints
<1>6. /\ SumFunctionOnSet(g, Payments) = SumFunctionOnSet(f, Payments) + (g[p] - f[p])
      /\ SumFunctionOnSet(f, Payments) \in Int /\ f[p] <= SumFunctionOnSet(f, Payments)
  <2> HIDE DEF f, g
  <2> QED BY <1>3, <1>5, ConstantsAssumption, SumChangeOne, SumType, SumPart
<1>7. f[p] = IF payment[p].category = "deposit" /\ (Settled(p) \/ p \in orgRefunded)
             THEN payment[p].amount ELSE 0
  BY DEF DepositShare
<1>8. g[p] = IF payment'[p].category = "deposit" /\ (Settled(p)' \/ p \in orgRefunded')
             THEN payment'[p].amount ELSE 0
  BY DEF DepositShare
<1>9. p \in orgRefunded => Status(p) = "refunded" /\ ~Settled(p)
  BY DEF OrgRefundsAreRefunds, Settled, SuccessfulTerminal
<1> HIDE DEF f, g
<1>10. CASE StaysOut(p)
  <2>1. f[p] = 0 /\ g[p] = 0 /\ deposit' = deposit
    BY <1>7, <1>8, <1>9, <1>10 DEF StaysOut, Unbooked
  <2> QED
    BY <1>2, <1>6, <2>1
<1>11. CASE Booked(p)
  <2>1. f[p] = 0 /\ g[p] = IF payment'[p].category = "deposit" THEN payment'[p].amount ELSE 0
    BY <1>7, <1>8, <1>9, <1>11 DEF Booked, Unbooked
  <2>2. deposit'.held = IF deposit.exists /\ payment'[p].category = "deposit"
                        THEN deposit.held + payment'[p].amount ELSE deposit.held
    BY <1>11 DEF Booked
  <2> QED
    BY <1>2, <1>4, <1>6, <2>1, <2>2
<1>12. CASE GivenBack(p)
  <2>1. /\ f[p] = IF payment[p].category = "deposit" THEN payment[p].amount ELSE 0
        /\ g[p] = 0
    BY <1>7, <1>8, <1>9, <1>12 DEF GivenBack, Refunded, Settled, Status, SuccessfulTerminal
  <2>2. deposit'.held = IF payment[p].category = "deposit" /\ deposit.exists
                        THEN Max2(0, deposit.held - payment[p].amount) ELSE deposit.held
    BY <1>12 DEF GivenBack
  <2> QED
    BY <1>2, <1>4, <1>6, <2>1, <2>2 DEF Max2
<1>13. CASE RefundedByOrg(p)
  <2>1. f[p] = g[p] /\ deposit'.held = deposit.held
    BY <1>7, <1>8, <1>13 DEF RefundedByOrg, Refunded
  <2>2. f[p] \in Nat
    BY <1>5
  <2> QED
    BY <1>2, <1>6, <2>1, <2>2
<1> QED
  BY <1>1, <1>10, <1>11, <1>12, <1>13

LEMMA MoneyCorrect == Spec => []MoneyInv
<1>1. BooksInv => OrgRefundsAreRefunds
  BY DEF BooksInv
<1>2. TypeOK /\ OrgRefundsAreRefunds /\ MoneyInv /\ [Next]_vars => MoneyInv'
  <2> SUFFICES ASSUME TypeOK, OrgRefundsAreRefunds, MoneyInv, [Next]_vars PROVE MoneyInv'
    OBVIOUS
  <2>1. ASSUME NEW p \in Payments, PaymentStep(p)
        PROVE  MoneyInv'
    BY <2>1, CleanPaymentStep, AllocPaymentStep, DepositPaymentStep DEF MoneyInv
  <2>2. ASSUME ScheduleStep
        PROVE  MoneyInv'
    BY <2>2, ScheduleStepFrame, MoneyFrame
  <2>3. ASSUME OtherStep
        PROVE  MoneyInv'
    BY <2>3, OtherStepFrame, OtherStepDeposit, MoneyFrame
  <2>4. CASE UNCHANGED vars
    BY <2>4, MoneyFrame DEF vars
  <2> QED
    BY <2>1, <2>2, <2>3, <2>4, NextSteps
<1> QED
  BY MoneyInit, <1>1, <1>2, TypeCorrect, BooksCorrect, PTL DEF Spec

\* For any number of payments and schedules: what a schedule says was paid is the
\* sum of what allocation rows say of the payments that stand, until a payment is
\* refunded by the route that reverses no rows.
THEOREM SchedulesAreExplained == Spec => []AllocationsExplainSchedules
<1>1. MoneyInv => AllocationsExplainSchedules
  BY DEF MoneyInv
<1> QED
  BY <1>1, MoneyCorrect, PTL

\* The loop of allocate_payment loses nothing and invents nothing: what is not on
\* a schedule is in the wallet, and refunds of other payments do not take it.
THEOREM RentIsAccounted == Spec => []RentFullyAccounted
<1>1. MoneyInv => RentFullyAccounted
  BY DEF MoneyInv
<1> QED
  BY <1>1, MoneyCorrect, PTL

\* The deposit row is backed by deposit payments, however they are refunded.
THEOREM DepositIsBacked == Spec => []DepositBackedByPayments
<1>1. MoneyInv => DepositBackedByPayments
  BY DEF MoneyInv
<1> QED
  BY <1>1, MoneyCorrect, PTL
=============================================================================
