------------------------- MODULE ConcurrentPayments -------------------------
(***************************************************************************)
(* Payment requests of one lease that overlap.  RentPayments takes every   *)
(* handler as one step; here a handler is the sequence of SQL statements   *)
(* it issues, under PostgreSQL's READ COMMITTED:                           *)
(*                                                                         *)
(*  - a SELECT sees what is committed and locks nothing; the session keeps *)
(*    the row object it read, so a status or balance checked once is never *)
(*    read again;                                                          *)
(*  - an UPDATE waits for the row lock and keeps it until the end of the   *)
(*    transaction.  SQLAlchemy writes the columns that differ from what    *)
(*    was read, with the values computed from what was read; the rows of   *)
(*    one flush go in primary key order (autoflush is off);                *)
(*  - get_db commits when the handler has returned.                        *)
(*                                                                         *)
(* The payments are rent payments, pending at first; the schedules are     *)
(* open, or all waived already.  Deposit payments, which update the        *)
(* deposit row, and manual payments, which insert their own, are left out. *)
(***************************************************************************)
EXTENDS PaymentStates, Integers, FiniteSets, Functions

CONSTANTS
    Requests,  \* the requests served, one after another or overlapping
    Payments,
    N,         \* rent schedules, numbered by due date; also their key order
    Rent,      \* amount_due of every schedule, late fees included
    Amounts    \* bound: payment amounts

ASSUME ConcurrentAssumption ==
    /\ IsFiniteSet(Requests) /\ IsFiniteSet(Payments)
    /\ N \in Nat \ {0} /\ Rent \in Nat \ {0} /\ Amounts \subseteq Nat \ {0}

VARIABLES
    job,       \* job[r]: the operation of request r and its payment
    status,    \* committed Payment.status
    amount,    \* Payment.amount
    schedule,  \* committed RentSchedule rows
    alloc,     \* alloc[p][s]: committed PaymentAllocation rows, summed
    wallet,    \* committed TenantWallet row; credits (history): all it ever received
    ledger,    \* the committed LedgerEntry with the greatest seq, and the sum of all
    seq,       \* ledger_entries_seq
    req,       \* req[r]: the transaction of request r
    raced      \* history: two requests have been under way at the same time

vars == <<job, status, amount, schedule, alloc, wallet, ledger, seq, req, raced>>

Schedules == 1..N
Jobs == [op: {"confirm", "refund", "reject", "cancel"}, p: Payments]
Locks == ({"payment"} \X Payments) \cup ({"schedule"} \X Schedules) \cup {<<"wallet", 0>>}
ScheduleRows == [paid: Nat, status: {"pending", "paid", "waived"}]
Min2(a, b) == IF a <= b THEN a ELSE b
Max2(a, b) == IF a >= b THEN a ELSE b
Total(rows) == SumFunctionOnSet(rows, Schedules)

\* What a request holds: pc, its locks, the rows it has read (seen, purse), what it
\* will give to or take from each schedule and the wallet, its ledger entry.
NoRequest ==
    [pc |-> "idle", locks |-> {},
     seen |-> [s \in Schedules |-> [paid |-> 0, status |-> "pending"]],
     part |-> [s \in Schedules |-> 0], over |-> 0,
     purse |-> [exists |-> FALSE, balance |-> 0], entry |-> [seq |-> 0, balance |-> 0]]

Transactions ==
    [pc: {"idle", "checked", "owner", "writing", "paying", "posting", "posted",
          "committed", "failed"},
     locks: SUBSET Locks, seen: [Schedules -> ScheduleRows],
     part: [Schedules -> Nat], over: Nat, purse: [exists: BOOLEAN, balance: Nat],
     entry: [seq: Nat, balance: Int]]

TypeOK ==
    /\ job \in [Requests -> Jobs]
    /\ status \in [Payments -> Statuses] /\ amount \in [Payments -> Amounts]
    /\ schedule \in [Schedules -> ScheduleRows]
    /\ alloc \in [Payments -> [Schedules -> Nat]]
    /\ wallet \in [exists: BOOLEAN, balance: Nat, credits: Nat]
    /\ ledger \in [seq: Nat, balance: Int, sum: Int] /\ seq \in 0..Cardinality(Requests)
    /\ req \in [Requests -> Transactions]
    /\ raced \in BOOLEAN

-----------------------------------------------------------------------------
Op(r)     == job[r].op
UnderWay(r) == req[r].pc \notin {"idle", "committed", "failed"}
Free(lock) == \A q \in Requests : lock \notin req[q].locks

Owns(r) == <<"payment", job[r].p>> \in req[r].locks

Final == [confirm |-> "completed", refund |-> "refunded",
          reject |-> "rejected", cancel |-> "cancelled"]

\* Mutant: a confirmed payment may be confirmed again.
AdmitsAgain(op, st) ==
    CASE op = "confirm" -> st \in Confirmable \cup SuccessfulTerminal
      [] op = "refund"  -> st \in SuccessfulTerminal
      [] op = "reject"  -> st \in RejectableByStaff /\ CanMove(st, "rejected")
      [] op = "cancel"  -> st \in CancellableByTenant /\ CanMove(st, "cancelled")

\* The check each handler makes on the status it has read.
Admits(op, st) ==
    CASE op = "confirm" -> st \in Confirmable \ SuccessfulTerminal
      [] op = "refund"  -> st \in SuccessfulTerminal
      [] op = "reject"  -> st \in RejectableByStaff /\ CanMove(st, "rejected")
      [] op = "cancel"  -> st \in CancellableByTenant /\ CanMove(st, "cancelled")

\* The row of s as request r leaves it, from the row it has read.
Computed(r, s) ==
    LET row == req[r].seen[s]
        x   == req[r].part[s]
    IN  CASE x = 0 -> row
          [] x > 0 /\ Op(r) = "confirm" ->
               [paid   |-> row.paid + x,
                status |-> IF row.paid + x >= Rent THEN "paid" ELSE row.status]
          [] OTHER ->
               [paid   |-> Max2(0, row.paid - x),
                status |-> IF row.status = "paid" THEN "pending" ELSE row.status]

\* An UPDATE sets the columns that differ from what was read, and no other.
Touched(r) == {s \in Schedules : Computed(r, s) # req[r].seen[s]}
\* Mutant: SET amount_paid = amount_paid + x, with x from what was read.
UpdatedInPlace(r, s) ==
    LET change == Computed(r, s).paid - req[r].seen[s].paid
    IN  [paid |-> Max2(0, schedule[s].paid + change), status |-> Computed(r, s).status]
Updated(r, s) ==
    [col \in {"paid", "status"} |->
        IF Computed(r, s)[col] # req[r].seen[s][col] THEN Computed(r, s)[col] ELSE schedule[s][col]]

\* The loop of allocate_payment over the open schedules, oldest first.
Leftovers(money) ==
    {rem \in [0..N -> 0..money] :
        /\ rem[0] = money
        /\ \A s \in Schedules : rem[s] = rem[s - 1] -
              (IF schedule[s].status # "pending" THEN 0
               ELSE Min2(Max2(0, Rent - schedule[s].paid), rem[s - 1]))}

WalletPart(r) == IF Op(r) \in {"confirm", "refund"} THEN req[r].over ELSE 0
Signed(r, x)  == IF Op(r) = "confirm" THEN x ELSE 0 - x

-----------------------------------------------------------------------------
Init ==
    /\ job \in [Requests -> Jobs]
    /\ status = [p \in Payments |-> "pending"]
    /\ amount \in [Payments -> Amounts]
    /\ \E st \in {"pending", "waived"} :
         schedule = [s \in Schedules |-> [paid |-> 0, status |-> st]]
    /\ alloc = [p \in Payments |-> [s \in Schedules |-> 0]]
    /\ wallet = [exists |-> FALSE, balance |-> 0, credits |-> 0]
    /\ ledger = [seq |-> 0, balance |-> 0, sum |-> 0]
    /\ seq = 0
    /\ req = [r \in Requests |-> NoRequest]
    /\ raced = FALSE

\* _get_payment and the check of the status; a request that is turned down here
\* writes nothing and is no step.
CheckStatus(r) ==
    /\ req[r].pc = "idle"
    /\ Admits(Op(r), status[job[r].p])
    /\ req' = [req EXCEPT ![r].pc = "checked"]
    /\ raced' = (raced \/ \E q \in Requests : UnderWay(q))
    /\ UNCHANGED <<job, status, amount, schedule, alloc, wallet, ledger, seq>>

\* refund, reject and cancel write the payment row first (the new status, or the
\* reason they record); a confirmation writes it last, in advance_to_completed,
\* because every payment is created with paid_at.
LockPayment(r) ==
    /\ req[r].pc = IF Op(r) = "confirm" THEN "posted" ELSE "checked"
    /\ ~Owns(r)
    /\ Free(<<"payment", job[r].p>>)
    /\ req' = [req EXCEPT ![r].locks = @ \cup {<<"payment", job[r].p>>},
                          ![r].pc = CASE Op(r) = "confirm" -> "posted"
                                      [] Op(r) = "cancel"  -> "posting"
                                      [] OTHER             -> "owner"]
    /\ UNCHANGED <<job, status, amount, schedule, alloc, wallet, ledger, seq, raced>>

\* allocate_payment reads the open schedules.
ReadSchedulesToPay(r) ==
    /\ req[r].pc = "checked" /\ Op(r) = "confirm"
    /\ \E rem \in Leftovers(amount[job[r].p]) :
         req' = [req EXCEPT ![r].pc = "writing", ![r].seen = schedule, ![r].over = rem[N],
                            ![r].part = [s \in Schedules |-> rem[s - 1] - rem[s]]]
    /\ UNCHANGED <<job, status, amount, schedule, alloc, wallet, ledger, seq, raced>>

\* get_overpayment_for_payment and reverse_allocations read the allocation rows
\* and the schedules they belong to.
ReadAllocations(r) ==
    LET p == job[r].p IN
    /\ req[r].pc = "owner"
    /\ req' = [req EXCEPT ![r].pc = "writing", ![r].seen = schedule, ![r].part = alloc[p],
                          ![r].over = Max2(0, amount[p] - Total(alloc[p]))]
    /\ UNCHANGED <<job, status, amount, schedule, alloc, wallet, ledger, seq, raced>>

\* Mutant: a reversal writes its rows the other way round.
BeforeOrAfter(r, t, s) == IF Op(r) = "confirm" THEN t < s ELSE t > s
\* The order in which one flush writes rows of a table.
Before(r, t, s) == t < s

\* The flush: the next schedule row in key order.
LockSchedule(r, s) ==
    /\ req[r].pc = "writing"
    /\ s \in Touched(r)
    /\ \A t \in Touched(r) : <<"schedule", t>> \in req[r].locks <=> Before(r, t, s)
    /\ Free(<<"schedule", s>>)
    /\ req' = [req EXCEPT ![r].locks = @ \cup {<<"schedule", s>>}]
    /\ UNCHANGED <<job, status, amount, schedule, alloc, wallet, ledger, seq, raced>>

Flushed(r) == \A s \in Touched(r) : <<"schedule", s>> \in req[r].locks

\* Mutant: a refund does not look at the wallet's balance.
ReadWalletUnchecked(r) ==
    /\ req[r].pc = "writing" /\ Flushed(r)
    /\ req' = [req EXCEPT ![r].pc = IF WalletPart(r) > 0 THEN "paying" ELSE "posting",
                          ![r].purse = [exists |-> wallet.exists, balance |-> wallet.balance]]
    /\ UNCHANGED <<job, status, amount, schedule, alloc, wallet, ledger, seq, raced>>

\* get_or_create_wallet; a refund leaves a wallet alone that is missing or low.
ReadWallet(r) ==
    /\ req[r].pc = "writing" /\ Flushed(r)
    /\ LET pays == /\ WalletPart(r) > 0
                   /\ Op(r) = "refund" => wallet.exists /\ wallet.balance >= WalletPart(r)
       IN  req' = [req EXCEPT ![r].pc = IF pays THEN "paying" ELSE "posting",
                              ![r].over = IF pays THEN @ ELSE 0,
                              ![r].purse = [exists |-> wallet.exists, balance |-> wallet.balance]]
    /\ UNCHANGED <<job, status, amount, schedule, alloc, wallet, ledger, seq, raced>>

LockWallet(r) ==
    /\ req[r].pc = "paying"
    /\ Free(<<"wallet", 0>>)
    /\ req[r].purse.exists = wallet.exists
    /\ req' = [req EXCEPT ![r].pc = "posting", ![r].locks = @ \cup {<<"wallet", 0>>}]
    /\ UNCHANGED <<job, status, amount, schedule, alloc, wallet, ledger, seq, raced>>

\* Two requests that both create the wallet: the second INSERT waits for the
\* first to commit, hits the unique tenant_id and the transaction is rolled back.
WalletConflict(r) ==
    /\ req[r].pc = "paying"
    /\ Free(<<"wallet", 0>>)
    /\ ~req[r].purse.exists /\ wallet.exists
    /\ req' = [req EXCEPT ![r] = [NoRequest EXCEPT !.pc = "failed"]]
    /\ UNCHANGED <<job, status, amount, schedule, alloc, wallet, ledger, seq, raced>>

\* What the ledger is told: the overpayment entry and the payment's own, as one.
Posting(r) ==
    LET a == amount[job[r].p] IN
    CASE Op(r) = "confirm" -> 0 - (a + req[r].over)
      [] Op(r) = "refund"  -> a + req[r].over
      [] OTHER             -> a

\* create_ledger_entry: the balance of the latest committed row, then an INSERT.
PostLedger(r) ==
    /\ req[r].pc = "posting"
    /\ seq' = seq + 1
    /\ req' = [req EXCEPT ![r].pc = "posted",
                          ![r].entry = [seq |-> seq + 1, balance |-> ledger.balance + Posting(r)]]
    /\ UNCHANGED <<job, status, amount, schedule, alloc, wallet, ledger, raced>>

\* A confirmation adds its allocation rows.  (Mutant: they replace earlier ones.)
AllocReplaced(r) ==
    [alloc EXCEPT ![job[r].p] = IF Op(r) = "confirm" THEN req[r].part ELSE @]
AllocAfter(r) ==
    [alloc EXCEPT ![job[r].p] =
        IF Op(r) = "confirm" THEN [s \in Schedules |-> @[s] + req[r].part[s]] ELSE @]

Commit(r) ==
    LET p == job[r].p
        e == req[r].entry
        x == IF <<"wallet", 0>> \in req[r].locks THEN Signed(r, req[r].over) ELSE 0
    IN
    /\ req[r].pc = "posted" /\ Owns(r)
    /\ status' = [status EXCEPT ![p] = Final[Op(r)]]
    /\ schedule' = [s \in Schedules |-> IF s \in Touched(r) THEN Updated(r, s) ELSE schedule[s]]
    /\ alloc' = AllocAfter(r)
    /\ wallet' = IF x = 0 THEN wallet
                 ELSE [exists |-> TRUE, balance |-> req[r].purse.balance + x,
                       credits |-> wallet.credits + Max2(0, x)]
    /\ ledger' = [sum |-> ledger.sum + Posting(r),
                  seq |-> Max2(ledger.seq, e.seq),
                  balance |-> IF e.seq > ledger.seq THEN e.balance ELSE ledger.balance]
    /\ req' = [req EXCEPT ![r] = [NoRequest EXCEPT !.pc = "committed"]]
    /\ UNCHANGED <<job, amount, seq, raced>>

-----------------------------------------------------------------------------
(* The database breaks a circle of waiting transactions by aborting one.   *)

\* The row lock request r needs next, as a set.
Needs(r) ==
    CASE req[r].pc = "writing" ->
           {<<"schedule", s>> : s \in {t \in Touched(r) :
              \A u \in Touched(r) : <<"schedule", u>> \in req[r].locks <=> Before(r, u, t)}}
      [] req[r].pc = "paying" -> {<<"wallet", 0>>}
      [] req[r].pc = "checked" /\ Op(r) # "confirm" -> {<<"payment", job[r].p>>}
      [] req[r].pc = "posted" /\ ~Owns(r) -> {<<"payment", job[r].p>>}
      [] OTHER -> {}

Circle(C) ==
    C # {} /\ \A r \in C : \E q \in C \ {r} : Needs(r) \cap req[q].locks # {}

\* Mutant: a circle is left to wait.
AbortNobody(r) == FALSE /\ UNCHANGED vars
AbortVictim(r) ==
    /\ \E C \in SUBSET Requests :
         r \in C /\ Circle(C) /\ \A D \in SUBSET C : D # C => ~Circle(D)
    /\ req' = [req EXCEPT ![r] = [NoRequest EXCEPT !.pc = "failed"]]
    /\ UNCHANGED <<job, status, amount, schedule, alloc, wallet, ledger, seq, raced>>

-----------------------------------------------------------------------------
Step(r) ==
    \/ LockPayment(r)
    \/ ReadSchedulesToPay(r)
    \/ ReadAllocations(r)
    \/ \E s \in Schedules : LockSchedule(r, s)
    \/ ReadWallet(r)
    \/ LockWallet(r)
    \/ WalletConflict(r)
    \/ PostLedger(r)
    \/ Commit(r)
    \/ AbortVictim(r)

Next == \E r \in Requests : CheckStatus(r) \/ Step(r)

\* A request that has begun is carried on by the server, whatever the others do;
\* no client has to send one.
Spec == Init /\ [][Next]_vars /\ \A r \in Requests : WF_vars(Step(r))

-----------------------------------------------------------------------------
(***************************************************************************)
(* Properties.                                                             *)
(***************************************************************************)
Standing == {p \in Payments : status[p] = "completed"}

\* What was put on schedule s, by every payment and by those that stand.
Share(s)         == [p \in Payments |-> alloc[p][s]]
StandingShare(s) == [p \in Payments |-> IF p \in Standing THEN alloc[p][s] ELSE 0]

\* Requests that do not overlap leave exact books: every schedule holds what the
\* standing payments put there, the latest ledger row carries the balance, and
\* what a standing payment did not put on schedules went to the wallet.
SerialRequestsAreExact ==
    ~raced =>
        /\ \A s \in Schedules : schedule[s].paid = SumFunctionOnSet(StandingShare(s), Payments)
        /\ ledger.balance = ledger.sum
        /\ \A p \in Standing : Total(alloc[p]) <= amount[p]

\* Overlapping requests lose money and never make any: a schedule holds no more
\* than allocation rows say was ever put there, the wallet no more than it was
\* ever credited with.
RacesMakeNoMoney ==
    /\ \A s \in Schedules : schedule[s].paid <= SumFunctionOnSet(Share(s), Payments)
    /\ wallet.balance <= wallet.credits

\* No schedule is filled beyond what it owes, although two confirmations may both
\* find it unpaid: the second write replaces the first instead of adding to it.
NoScheduleOverfilled == \A s \in Schedules : schedule[s].paid <= Rent

\* Requests for different payments never wait for each other in a circle: each
\* takes schedule rows in key order, then the wallet, then (a confirmation) its
\* payment row.  A circle needs a refund or rejection of a payment that a second,
\* overlapping confirmation is still booking.
CirclesShareAPayment ==
    \A C \in SUBSET Requests :
        Circle(C) => \E r, q \in C : r # q /\ job[r].p = job[q].p

\* Every request that has begun ends, committed or rolled back, whatever waits
\* for whatever.
EveryRequestEnds == \A r \in Requests : UnderWay(r) ~> ~UnderWay(r)

\* can_be_cancelled: once a payment is completed, the way back is a refund.
CompletedIsNotCancelled ==
    [][\A p \in Payments : status[p] = "completed" => status'[p] # "cancelled"]_vars

\* ledger_service: the current balance can be read from the most recent row.
LatestRowIsTheBalance == ledger.balance = ledger.sum
=============================================================================
