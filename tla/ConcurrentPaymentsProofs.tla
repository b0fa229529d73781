---------------------- MODULE ConcurrentPaymentsProofs ----------------------
(***************************************************************************)
(* What overlapping requests of one lease can and cannot do to its books,  *)
(* proved for every set of requests, payments, schedules and amounts: the  *)
(* invariants are about what a request carries from the moment it reads a  *)
(* row to the moment it writes it.                                         *)
(***************************************************************************)
EXTENDS ConcurrentPayments, SumTheorems

\* A row has been read and what is to be written is known.
Reading == {"writing", "paying", "posting", "posted"}

WalletLock == <<"wallet", 0>>

\* Ledger rows are numbered one per request that got that far.
Numbered == {r \in Requests : req[r].pc \in {"posted", "committed", "failed"}}

SeqInv == seq <= Cardinality(Numbered)

\* Reversals take the payment row first; the wallet is locked last, and a refund
\* takes no more than it saw there.
OnItsWay(r) ==
    /\ req[r].pc = "owner" => Op(r) \in {"refund", "reject"}
    /\ WalletLock \in req[r].locks => req[r].pc \in {"posting", "posted"}
    /\ req[r].pc = "paying" \/ WalletLock \in req[r].locks =>
         /\ Op(r) \in {"confirm", "refund"}
         /\ Op(r) = "refund" => req[r].over <= req[r].purse.balance

WayInv == \A r \in Requests : OnItsWay(r)

TypeInv == TypeOK /\ SeqInv /\ WayInv

\* What was read was no fuller than the rent, and a confirmation fills no more.
FullInv ==
    /\ NoScheduleOverfilled
    /\ \A r \in Requests, s \in Schedules :
         /\ req[r].seen[s].paid <= Rent
         /\ Op(r) = "confirm" => req[r].seen[s].paid + req[r].part[s] <= Rent

\* What was read is backed by what was ever put there.
BackedInv ==
    /\ RacesMakeNoMoney
    /\ \A r \in Requests :
         /\ \A s \in Schedules :
              req[r].seen[s].paid <= SumFunctionOnSet(Share(s), Payments)
         /\ req[r].purse.balance <= wallet.credits

\* A request holds the rows it changes, from the flush to its end.
Holds(r) ==
    /\ \A s \in Schedules : <<"schedule", s>> \in req[r].locks =>
         s \in Touched(r) /\ req[r].pc \in Reading
    /\ \A p \in Payments : <<"payment", p>> \in req[r].locks => p = job[r].p

LockInv == \A r \in Requests : Holds(r)

\* As long as no two requests overlapped: one at most is under way, its check
\* of the status still holds, and what it read is what is there.
Faithful(r) ==
    LET p == job[r].p IN
    /\ UnderWay(r) => Admits(Op(r), status[p])
    /\ req[r].pc \in Reading /\ Op(r) # "cancel" =>
         /\ req[r].seen = schedule
         /\ IF Op(r) = "confirm" THEN Total(req[r].part) <= amount[p]
                                 ELSE req[r].part = alloc[p]
    /\ req[r].pc = "posted" => /\ req[r].entry.balance = ledger.balance + Posting(r)
                               /\ req[r].entry.seq > ledger.seq

Booked(p) ==
    /\ status[p] \in {"pending", "completed", "refunded", "rejected", "cancelled"}
    /\ status[p] \notin {"completed", "refunded"} => \A s \in Schedules : alloc[p][s] = 0
    /\ Total(alloc[p]) <= amount[p]

EntryInv ==
    /\ ledger.seq <= seq
    /\ \A r \in Requests :
         /\ req[r].entry.seq <= seq
         /\ Op(r) = "cancel" => \A s \in Schedules : req[r].part[s] = 0

ExactBooks ==
    /\ \A p \in Payments : Booked(p)
    /\ \A s \in Schedules : schedule[s].paid = SumFunctionOnSet(StandingShare(s), Payments)
    /\ ledger.balance = ledger.sum

SerialInv ==
    ~raced => /\ \A r, q \in Requests : UnderWay(r) /\ UnderWay(q) => r = q
              /\ \A r \in Requests : Faithful(r)
              /\ ExactBooks

-----------------------------------------------------------------------------
(* The operators the actions are built from. *)

LEMMA TotalType ==
    ASSUME ConcurrentAssumption, NEW rows, \A s \in Schedules : rows[s] \in Nat
    PROVE  Total(rows) \in Nat
<1>1. IsFiniteSet(Schedules)
  BY FS_Interval DEF ConcurrentAssumption, Schedules
<1> QED
  BY <1>1, SumNat DEF Total

LEMMA ComputedType ==
    ASSUME ConcurrentAssumption, TypeOK, NEW r \in Requests, NEW s \in Schedules
    PROVE  Computed(r, s) \in ScheduleRows
<1> DEFINE row == req[r].seen[s]
           x   == req[r].part[s]
<1>1. row \in ScheduleRows /\ x \in Nat
  BY DEF TypeOK, Transactions
<1>2. CASE x = 0
  BY <1>1, <1>2 DEF Computed
<1>3. CASE x > 0 /\ Op(r) = "confirm"
  <2>1. Computed(r, s) = [paid   |-> row.paid + x,
                          status |-> IF row.paid + x >= Rent THEN "paid" ELSE row.status]
    BY <1>1, <1>3 DEF Computed
  <2> QED
    BY <1>1, <2>1 DEF ScheduleRows
<1>4. CASE x > 0 /\ Op(r) # "confirm"
  <2>1. Computed(r, s) = [paid   |-> Max2(0, row.paid - x),
                          status |-> IF row.status = "paid" THEN "pending" ELSE row.status]
    BY <1>1, <1>4 DEF Computed
  <2> QED
    BY <1>1, <2>1 DEF ScheduleRows, Max2
<1> QED
  BY <1>1, <1>2, <1>3, <1>4

\* What a request writes to a schedule's amount: its own value, or what is there.
LEMMA UpdatedRow ==
    ASSUME ConcurrentAssumption, TypeOK, NEW r \in Requests, NEW s \in Schedules
    PROVE  /\ Updated(r, s) \in ScheduleRows
           /\ Updated(r, s).paid = IF Computed(r, s).paid # req[r].seen[s].paid
                                   THEN Computed(r, s).paid ELSE schedule[s].paid
<1> DEFINE new == Computed(r, s)
           old == req[r].seen[s]
<1>1. new \in ScheduleRows /\ old \in ScheduleRows /\ schedule[s] \in ScheduleRows
  BY ComputedType DEF TypeOK, Transactions
<1> HIDE DEF new, old
<1>2. Updated(r, s) = [col \in {"paid", "status"} |->
                          IF new[col] # old[col] THEN new[col] ELSE schedule[s][col]]
  BY DEF Updated, new, old
<1>3. Updated(r, s) = [paid   |-> IF new.paid # old.paid THEN new.paid ELSE schedule[s].paid,
                       status |-> IF new.status # old.status THEN new.status
                                                             ELSE schedule[s].status]
  BY <1>1, <1>2
<1>4. Updated(r, s) \in ScheduleRows
  BY <1>1, <1>3 DEF ScheduleRows
<1> QED
  BY <1>3, <1>4 DEF new, old

\* What the loop of allocate_payment gives to a schedule.
LEMMA LeftoversGive ==
    ASSUME ConcurrentAssumption, TypeOK, NEW money \in Nat, NEW rem \in Leftovers(money)
    PROVE  /\ \A n \in 0..N : rem[n] \in Nat
           /\ rem[0] = money
           /\ \A s \in Schedules : rem[s - 1] - rem[s] =
                IF schedule[s].status # "pending" THEN 0
                ELSE Min2(Max2(0, Rent - schedule[s].paid), rem[s - 1])
<1>1. rem \in [0..N -> 0..money] /\ rem[0] = money
  BY DEF Leftovers
<1>2. \A n \in 0..N : rem[n] \in Nat
  BY <1>1
<1>3. ASSUME NEW s \in Schedules
      PROVE  rem[s - 1] - rem[s] =
                IF schedule[s].status # "pending" THEN 0
                ELSE Min2(Max2(0, Rent - schedule[s].paid), rem[s - 1])
  <2>1. rem[s] \in Nat /\ rem[s - 1] \in Nat
    BY <1>2 DEF Schedules, ConcurrentAssumption
  <2>2. rem[s] = rem[s - 1] -
              (IF schedule[s].status # "pending" THEN 0
               ELSE Min2(Max2(0, Rent - schedule[s].paid), rem[s - 1]))
    BY DEF Leftovers
  <2>3. schedule[s].paid \in Nat /\ Rent \in Nat
    BY DEF TypeOK, ScheduleRows, ConcurrentAssumption
  <2> QED
    BY <2>1, <2>2, <2>3 DEF Min2, Max2
<1> QED
  BY <1>1, <1>2, <1>3

LEMMA PartsFit ==
    ASSUME ConcurrentAssumption, TypeOK, NEW money \in Nat, NEW rem \in Leftovers(money),
           NEW s \in Schedules
    PROVE  /\ rem[s - 1] - rem[s] \in Nat
           /\ schedule[s].paid <= Rent => schedule[s].paid + (rem[s - 1] - rem[s]) <= Rent
<1>1. rem[s] \in Nat /\ rem[s - 1] \in Nat
  BY LeftoversGive DEF Schedules, ConcurrentAssumption
<1>2. rem[s - 1] - rem[s] =
                IF schedule[s].status # "pending" THEN 0
                ELSE Min2(Max2(0, Rent - schedule[s].paid), rem[s - 1])
  BY LeftoversGive
<1>3. schedule[s].paid \in Nat /\ Rent \in Nat
  BY DEF TypeOK, ScheduleRows, ConcurrentAssumption
<1> QED
  BY <1>1, <1>2, <1>3 DEF Min2, Max2

\* What it gives in all and what is left make the amount.
LEMMA PartsTotal ==
    ASSUME ConcurrentAssumption, TypeOK, NEW money \in Nat, NEW rem \in Leftovers(money)
    PROVE  Total([s \in Schedules |-> rem[s - 1] - rem[s]]) = money - rem[N]
<1> DEFINE f == [s \in Schedules |-> rem[s - 1] - rem[s]]
<1>1. N \in Nat /\ \A n \in 0..N : rem[n] \in Int
  BY LeftoversGive DEF ConcurrentAssumption
<1>2. \A n \in 1..N : f[n] = rem[n - 1] - rem[n]
  BY DEF Schedules
<1> HIDE DEF f
<1>3. SumFunctionOnSet(f, 1..N) = rem[0] - rem[N]
  BY <1>1, <1>2, SumTelescopes
<1> QED
  BY <1>3, LeftoversGive DEF Total, Schedules, f
-----------------------------------------------------------------------------
(* A step of a request that commits nothing changes that request only.     *)

Local(r) ==
    /\ req' = [req EXCEPT ![r] = req'[r]]
    /\ req'[r] \in Transactions
    /\ UNCHANGED <<job, status, amount, schedule, alloc, wallet, ledger>>

LEMMA LocalFrom ==
    ASSUME TypeOK, NEW r \in Requests, NEW new \in Transactions,
           req' = [req EXCEPT ![r] = new],
           UNCHANGED <<job, status, amount, schedule, alloc, wallet, ledger>>
    PROVE  Local(r) /\ req'[r] = new
<1>1. req \in [Requests -> Transactions]
  BY DEF TypeOK
<1>2. req'[r] = new
  BY <1>1
<1> QED
  BY <1>2 DEF Local

LEMMA CheckStatusMoves ==
    ASSUME ConcurrentAssumption, TypeOK, NEW r \in Requests, CheckStatus(r)
    PROVE  Local(r) /\ req'[r] = [req[r] EXCEPT !.pc = "checked"]
<1> DEFINE new == [req[r] EXCEPT !.pc = "checked"]
<1>1. req[r] \in Transactions
  BY DEF TypeOK
<1>2. new \in Transactions
  BY <1>1 DEF Transactions
<1>3. req' = [req EXCEPT ![r] = new]
  BY DEF CheckStatus
<1>4. UNCHANGED <<job, status, amount, schedule, alloc, wallet, ledger>>
  BY DEF CheckStatus
<1> HIDE DEF new
<1>5. Local(r) /\ req'[r] = new
  BY <1>2, <1>3, <1>4, LocalFrom
<1> QED
  BY <1>5 DEF new

LEMMA LockPaymentMoves ==
    ASSUME ConcurrentAssumption, TypeOK, NEW r \in Requests, LockPayment(r)
    PROVE  /\ Local(r)
           /\ \E pc \in {"posted", "posting", "owner"} :
                /\ pc = "posted" <=> Op(r) = "confirm"
                /\ pc = "posting" <=> Op(r) = "cancel"
                /\ req'[r] = [req[r] EXCEPT !.locks = @ \cup {<<"payment", job[r].p>>}, !.pc = pc]
<1> DEFINE pc == CASE Op(r) = "confirm" -> "posted"
                   [] Op(r) = "cancel"  -> "posting"
                   [] OTHER             -> "owner"
           new == [req[r] EXCEPT !.locks = @ \cup {<<"payment", job[r].p>>}, !.pc = pc]
<1>1. <<"payment", job[r].p>> \in Locks /\ req[r] \in Transactions
  BY DEF TypeOK, Jobs, Locks
<1>2. /\ pc \in {"posted", "posting", "owner"}
      /\ pc = "posted" <=> Op(r) = "confirm"
      /\ pc = "posting" <=> Op(r) = "cancel"
  OBVIOUS
<1>3. req' = [req EXCEPT ![r] = new]
  BY DEF LockPayment
<1> HIDE DEF pc
<1>4. new \in Transactions
  BY <1>1, <1>2 DEF Transactions
<1>5. UNCHANGED <<job, status, amount, schedule, alloc, wallet, ledger>>
  BY DEF LockPayment
<1> HIDE DEF new
<1>6. Local(r) /\ req'[r] = new
  BY <1>3, <1>4, <1>5, LocalFrom
<1> QED
  BY <1>2, <1>6 DEF new

LEMMA ReadSchedulesMoves ==
    ASSUME ConcurrentAssumption, TypeOK, NEW r \in Requests, ReadSchedulesToPay(r)
    PROVE  /\ Local(r) /\ Op(r) = "confirm"
           /\ \E rem \in Leftovers(amount[job[r].p]) :
                req'[r] = [req[r] EXCEPT !.pc = "writing", !.seen = schedule, !.over = rem[N],
                                         !.part = [s \in Schedules |-> rem[s - 1] - rem[s]]]
<1>1. amount[job[r].p] \in Nat
  BY DEF TypeOK, Jobs, ConcurrentAssumption
<1>2. PICK rem \in Leftovers(amount[job[r].p]) :
         req' = [req EXCEPT ![r].pc = "writing", ![r].seen = schedule, ![r].over = rem[N],
                            ![r].part = [s \in Schedules |-> rem[s - 1] - rem[s]]]
  BY DEF ReadSchedulesToPay
<1> DEFINE part == [s \in Schedules |-> rem[s - 1] - rem[s]]
           new  == [req[r] EXCEPT !.pc = "writing", !.seen = schedule, !.over = rem[N],
                                  !.part = part]
<1>3. part \in [Schedules -> Nat]
  BY <1>1, PartsFit
<1>4. rem[N] \in Nat
  BY <1>1, LeftoversGive DEF ConcurrentAssumption
<1>5. req' = [req EXCEPT ![r] = new]
  BY <1>2
<1> HIDE DEF part
<1>6. req[r] \in Transactions /\ schedule \in [Schedules -> ScheduleRows]
  BY DEF TypeOK
<1>7. new \in Transactions
  BY <1>3, <1>4, <1>6 DEF Transactions
<1>8. UNCHANGED <<job, status, amount, schedule, alloc, wallet, ledger>> /\ Op(r) = "confirm"
  BY DEF ReadSchedulesToPay
<1> HIDE DEF new
<1>9. Local(r) /\ req'[r] = new
  BY <1>5, <1>7, <1>8, LocalFrom
<1> QED
  BY <1>8, <1>9 DEF new, part

LEMMA ReadAllocationsMoves ==
    ASSUME ConcurrentAssumption, TypeOK, NEW r \in Requests, ReadAllocations(r)
    PROVE  /\ Local(r)
           /\ \E over \in Nat :
                req'[r] = [req[r] EXCEPT !.pc = "writing", !.seen = schedule,
                                         !.part = alloc[job[r].p], !.over = over]
<1> DEFINE p    == job[r].p
           over == Max2(0, amount[p] - Total(alloc[p]))
           new  == [req[r] EXCEPT !.pc = "writing", !.seen = schedule, !.part = alloc[p],
                                  !.over = over]
<1>1. p \in Payments /\ alloc[p] \in [Schedules -> Nat] /\ amount[p] \in Nat
  BY DEF TypeOK, Jobs, ConcurrentAssumption
<1>2. Total(alloc[p]) \in Nat
  BY <1>1, TotalType
<1>3. over \in Nat
  BY <1>1, <1>2 DEF Max2
<1>4. req' = [req EXCEPT ![r] = new]
  BY DEF ReadAllocations
<1> HIDE DEF over
<1>5. req[r] \in Transactions /\ schedule \in [Schedules -> ScheduleRows]
  BY DEF TypeOK
<1>6. new \in Transactions
  BY <1>1, <1>3, <1>5 DEF Transactions
<1>7. UNCHANGED <<job, status, amount, schedule, alloc, wallet, ledger>>
  BY DEF ReadAllocations
<1> HIDE DEF new
<1>8. Local(r) /\ req'[r] = new
  BY <1>4, <1>6, <1>7, LocalFrom
<1> QED
  BY <1>3, <1>8 DEF new

LEMMA LockScheduleMoves ==
    ASSUME ConcurrentAssumption, TypeOK, NEW r \in Requests, NEW s \in Schedules,
           LockSchedule(r, s)
    PROVE  Local(r) /\ req'[r] = [req[r] EXCEPT !.locks = @ \cup {<<"schedule", s>>}]
<1> DEFINE new == [req[r] EXCEPT !.locks = @ \cup {<<"schedule", s>>}]
<1>1. <<"schedule", s>> \in Locks /\ req[r] \in Transactions
  BY DEF Locks, TypeOK
<1>2. new \in Transactions
  BY <1>1 DEF Transactions
<1>3. req' = [req EXCEPT ![r] = new]
  BY DEF LockSchedule
<1>4. UNCHANGED <<job, status, amount, schedule, alloc, wallet, ledger>>
  BY DEF LockSchedule
<1> HIDE DEF new
<1>5. Local(r) /\ req'[r] = new
  BY <1>2, <1>3, <1>4, LocalFrom
<1> QED
  BY <1>5 DEF new

LEMMA ReadWalletMoves ==
    ASSUME ConcurrentAssumption, TypeOK, NEW r \in Requests, ReadWallet(r)
    PROVE  /\ Local(r)
           /\ \E pc \in {"paying", "posting"}, over \in Nat :
                /\ pc = "paying" =>
                     /\ Op(r) \in {"confirm", "refund"}
                     /\ Op(r) = "refund" => over <= wallet.balance
                /\ req'[r] = [req[r] EXCEPT !.pc = pc, !.over = over,
                     !.purse = [exists |-> wallet.exists, balance |-> wallet.balance]]
<1> DEFINE pays == /\ WalletPart(r) > 0
                   /\ Op(r) = "refund" => wallet.exists /\ wallet.balance >= WalletPart(r)
           pc   == IF pays THEN "paying" ELSE "posting"
           over == IF pays THEN req[r].over ELSE 0
           purse == [exists |-> wallet.exists, balance |-> wallet.balance]
           new  == [req[r] EXCEPT !.pc = pc, !.over = over, !.purse = purse]
<1>1. req[r] \in Transactions /\ purse \in [exists: BOOLEAN, balance: Nat]
  BY DEF TypeOK
<1>2. pc \in {"paying", "posting"} /\ over \in Nat
  BY <1>1 DEF Transactions
<1>3. pc = "paying" => /\ Op(r) \in {"confirm", "refund"}
                       /\ Op(r) = "refund" => over <= wallet.balance
  BY <1>1 DEF WalletPart
<1>4. req' = [req EXCEPT ![r] = new]
  BY DEF ReadWallet
<1> HIDE DEF pays, purse, pc, over
<1>5. new \in Transactions
  BY <1>1, <1>2 DEF Transactions
<1>6. UNCHANGED <<job, status, amount, schedule, alloc, wallet, ledger>>
  BY DEF ReadWallet
<1> HIDE DEF new
<1>7. Local(r) /\ req'[r] = new
  BY <1>4, <1>5, <1>6, LocalFrom
<1> QED
  BY <1>2, <1>3, <1>7 DEF new, purse

LEMMA LockWalletMoves ==
    ASSUME ConcurrentAssumption, TypeOK, NEW r \in Requests, LockWallet(r)
    PROVE  Local(r) /\ req'[r] = [req[r] EXCEPT !.pc = "posting", !.locks = @ \cup {WalletLock}]
<1> DEFINE new == [req[r] EXCEPT !.pc = "posting", !.locks = @ \cup {WalletLock}]
<1>1. WalletLock \in Locks /\ req[r] \in Transactions
  BY DEF Locks, WalletLock, TypeOK
<1>2. new \in Transactions
  BY <1>1 DEF Transactions
<1>3. req' = [req EXCEPT ![r] = new]
  BY DEF LockWallet, WalletLock
<1>4. UNCHANGED <<job, status, amount, schedule, alloc, wallet, ledger>>
  BY DEF LockWallet
<1> HIDE DEF new
<1>5. Local(r) /\ req'[r] = new
  BY <1>2, <1>3, <1>4, LocalFrom
<1> QED
  BY <1>5 DEF new

LEMMA PostingType ==
    ASSUME ConcurrentAssumption, TypeOK, NEW r \in Requests
    PROVE  Posting(r) \in Int
<1>1. amount[job[r].p] \in Nat /\ req[r].over \in Nat
  BY DEF TypeOK, Transactions, Jobs, ConcurrentAssumption
<1> QED
  BY <1>1 DEF Posting

LEMMA SeqType ==
    ASSUME ConcurrentAssumption, TypeOK
    PROVE  seq \in Nat /\ Cardinality(Requests) \in Nat
<1>1. Cardinality(Requests) \in Nat
  BY FS_CardinalityType DEF ConcurrentAssumption
<1> QED
  BY <1>1 DEF TypeOK

LEMMA PostLedgerMoves ==
    ASSUME ConcurrentAssumption, TypeOK, NEW r \in Requests, PostLedger(r)
    PROVE  /\ Local(r)
           /\ req'[r] = [req[r] EXCEPT !.pc = "posted",
                !.entry = [seq |-> seq + 1, balance |-> ledger.balance + Posting(r)]]
<1> DEFINE entry == [seq |-> seq + 1, balance |-> ledger.balance + Posting(r)]
           new   == [req[r] EXCEPT !.pc = "posted", !.entry = entry]
<1>1. req[r] \in Transactions /\ ledger.balance \in Int /\ seq \in Nat
  BY SeqType DEF TypeOK
<1>2. entry \in [seq: Nat, balance: Int]
  BY <1>1, PostingType
<1>3. req' = [req EXCEPT ![r] = new]
  BY DEF PostLedger
<1> HIDE DEF entry
<1>4. new \in Transactions
  BY <1>1, <1>2 DEF Transactions
<1>5. UNCHANGED <<job, status, amount, schedule, alloc, wallet, ledger>>
  BY DEF PostLedger
<1> HIDE DEF new
<1>6. Local(r) /\ req'[r] = new
  BY <1>3, <1>4, <1>5, LocalFrom
<1> QED
  BY <1>6 DEF new, entry

LEMMA NoRequestType ==
    ASSUME NEW pc \in {"idle", "committed", "failed"}
    PROVE  NoRequest \in Transactions /\ [NoRequest EXCEPT !.pc = pc] \in Transactions
<1> DEFINE seen == [s \in Schedules |-> [paid |-> 0, status |-> "pending"]]
           part == [s \in Schedules |-> 0]
<1>1. seen \in [Schedules -> ScheduleRows] /\ part \in [Schedules -> Nat]
  BY DEF ScheduleRows
<1> HIDE DEF seen, part
<1>2. NoRequest =
        [pc |-> "idle", locks |-> {}, seen |-> seen, part |-> part, over |-> 0,
         purse |-> [exists |-> FALSE, balance |-> 0], entry |-> [seq |-> 0, balance |-> 0]]
  BY DEF NoRequest, seen, part
<1>3. NoRequest \in Transactions
  BY <1>1, <1>2 DEF Transactions
<1>4. [NoRequest EXCEPT !.pc = pc] \in Transactions
  BY <1>3 DEF Transactions
<1> QED
  BY <1>3, <1>4

LEMMA FailsMoves ==
    ASSUME ConcurrentAssumption, TypeOK, NEW r \in Requests, WalletConflict(r) \/ AbortVictim(r)
    PROVE  Local(r) /\ req'[r] = [NoRequest EXCEPT !.pc = "failed"]
<1> DEFINE none == [NoRequest EXCEPT !.pc = "failed"]
<1>1. none \in Transactions
  BY NoRequestType
<1>2. req' = [req EXCEPT ![r] = none]
  BY DEF WalletConflict, AbortVictim
<1>3. UNCHANGED <<job, status, amount, schedule, alloc, wallet, ledger>>
  BY DEF WalletConflict, AbortVictim
<1> HIDE DEF none
<1>4. Local(r) /\ req'[r] = none
  BY <1>1, <1>2, <1>3, LocalFrom
<1> QED
  BY <1>4 DEF none
-----------------------------------------------------------------------------
(* The types, with the ledger's numbers and a refund's covered withdrawal. *)

Numbering == {"posted", "committed", "failed"}

LEMMA SeqKept ==
    ASSUME ConcurrentAssumption, TypeInv, seq' = seq, Numbered \subseteq Numbered'
    PROVE  SeqInv' /\ seq' \in 0..Cardinality(Requests)
<1>1. IsFiniteSet(Requests) /\ Numbered \subseteq Requests /\ Numbered' \subseteq Requests
  BY DEF ConcurrentAssumption, Numbered
<1>2. IsFiniteSet(Numbered')
  BY <1>1, FS_Subset
<1>3. Cardinality(Numbered) <= Cardinality(Numbered')
  BY <1>2, FS_Subset
<1>4. Cardinality(Numbered) \in Nat /\ Cardinality(Numbered') \in Nat
  BY <1>1, <1>2, FS_Subset, FS_CardinalityType
<1>5. seq \in Nat
  BY SeqType DEF TypeInv
<1>6. seq \in 0..Cardinality(Requests) /\ seq <= Cardinality(Numbered)
  BY DEF TypeInv, TypeOK, SeqInv
<1> QED
  BY <1>3, <1>4, <1>5, <1>6 DEF SeqInv

LEMMA SeqTaken ==
    ASSUME ConcurrentAssumption, TypeInv, seq' = seq + 1, NEW r \in Requests,
           r \notin Numbered, Numbered' = Numbered \cup {r}
    PROVE  SeqInv' /\ seq' \in 0..Cardinality(Requests)
<1>1. IsFiniteSet(Requests) /\ Numbered \subseteq Requests /\ Numbered' \subseteq Requests
  BY DEF ConcurrentAssumption, Numbered
<1>2. IsFiniteSet(Numbered) /\ IsFiniteSet(Numbered')
  BY <1>1, FS_Subset
<1>3. Cardinality(Numbered') = Cardinality(Numbered) + 1
  BY <1>2, FS_AddElement
<1>4. Cardinality(Numbered') <= Cardinality(Requests)
  BY <1>1, FS_Subset
<1>5. Cardinality(Numbered) \in Nat /\ seq \in Nat /\ Cardinality(Requests) \in Nat
  BY <1>2, FS_CardinalityType, SeqType DEF TypeInv
<1>6. seq <= Cardinality(Numbered)
  BY DEF TypeInv, SeqInv
<1> QED
  BY <1>3, <1>4, <1>5, <1>6 DEF SeqInv

LEMMA LocalType ==
    ASSUME ConcurrentAssumption, TypeInv, NEW r \in Requests, Local(r), raced' \in BOOLEAN,
           \/ seq' = seq /\ (req[r].pc \in Numbering => req'[r].pc \in Numbering)
           \/ seq' = seq + 1 /\ req[r].pc = "posting" /\ req'[r].pc = "posted",
           OnItsWay(r)'
    PROVE  TypeInv'
<1>1. req' \in [Requests -> Transactions]
  BY DEF Local, TypeInv, TypeOK
<1>2. \A q \in Requests \ {r} : req'[q] = req[q]
  BY DEF Local, TypeInv, TypeOK
<1>3. SeqInv' /\ seq' \in 0..Cardinality(Requests)
  <2>1. CASE seq' = seq /\ (req[r].pc \in Numbering => req'[r].pc \in Numbering)
    <3>1. Numbered \subseteq Numbered'
      BY <2>1, <1>2 DEF Numbered, Numbering
    <3> QED
      BY <2>1, <3>1, SeqKept
  <2>2. CASE seq' = seq + 1 /\ req[r].pc = "posting" /\ req'[r].pc = "posted"
    <3>1. r \notin Numbered /\ Numbered' = Numbered \cup {r}
      BY <2>2, <1>2 DEF Numbered
    <3> QED
      BY <2>2, <3>1, SeqTaken
  <2> QED
    BY <2>1, <2>2
<1>4. WayInv'
  <2>1. \A q \in Requests \ {r} : OnItsWay(q)'
    BY <1>2 DEF TypeInv, WayInv, OnItsWay, Local, Op
  <2> QED
    BY <2>1 DEF WayInv, OnItsWay
<1>5. TypeOK'
  BY <1>1, <1>3 DEF TypeInv, TypeOK, Local
<1> QED
  BY <1>3, <1>4, <1>5 DEF TypeInv

\* The rows a commit writes.
LEMMA CommitType ==
    ASSUME ConcurrentAssumption, TypeInv, NEW r \in Requests, Commit(r)
    PROVE  TypeInv'
<1> DEFINE p == job[r].p
           e == req[r].entry
           x == IF WalletLock \in req[r].locks THEN Signed(r, req[r].over) ELSE 0
<1>1. /\ p \in Payments /\ job[r] \in Jobs /\ req[r] \in Transactions
      /\ req[r].over \in Nat /\ req[r].purse.balance \in Nat
      /\ e.seq \in Nat /\ e.balance \in Int
  BY DEF TypeInv, TypeOK, Jobs, Transactions
<1>2. status' \in [Payments -> Statuses]
  <2>1. Final[Op(r)] \in Statuses
    BY <1>1 DEF Final, Jobs, Op, Statuses
  <2> QED
    BY <1>1, <2>1 DEF Commit, TypeInv, TypeOK
<1>3. schedule' \in [Schedules -> ScheduleRows]
  BY UpdatedRow DEF Commit, TypeInv, TypeOK
<1>4. alloc' \in [Payments -> [Schedules -> Nat]]
  <2>1. alloc' = [alloc EXCEPT ![p] = IF Op(r) = "confirm"
                     THEN [s \in Schedules |-> alloc[p][s] + req[r].part[s]] ELSE alloc[p]]
    BY <1>1 DEF Commit, AllocAfter, TypeInv, TypeOK
  <2>2. alloc \in [Payments -> [Schedules -> Nat]] /\ req[r].part \in [Schedules -> Nat]
    BY <1>1 DEF TypeInv, TypeOK, Transactions
  <2>3. [s \in Schedules |-> alloc[p][s] + req[r].part[s]] \in [Schedules -> Nat]
    BY <1>1, <2>2
  <2> HIDE DEF p
  <2> QED
    BY <1>1, <2>1, <2>2, <2>3
<1>5. wallet' \in [exists: BOOLEAN, balance: Nat, credits: Nat]
  <2>1. OnItsWay(r)
    BY DEF TypeInv, WayInv, OnItsWay
  <2>2. x \in Int /\ req[r].purse.balance + x \in Nat
    BY <1>1, <2>1 DEF Signed, OnItsWay
  <2>3. wallet' = IF x = 0 THEN wallet
                  ELSE [exists |-> TRUE, balance |-> req[r].purse.balance + x,
                        credits |-> wallet.credits + Max2(0, x)]
    BY DEF Commit, WalletLock
  <2> HIDE DEF x
  <2>4. wallet \in [exists: BOOLEAN, balance: Nat, credits: Nat] /\ Max2(0, x) \in Nat
    BY <2>2 DEF TypeInv, TypeOK, Max2
  <2> QED
    BY <2>2, <2>3, <2>4
<1>6. ledger' \in [seq: Nat, balance: Int, sum: Int]
  <2>1. ledger \in [seq: Nat, balance: Int, sum: Int]
    BY DEF TypeInv, TypeOK
  <2>2. Posting(r) \in Int
    BY PostingType DEF TypeInv
  <2>3. ledger' = [sum |-> ledger.sum + Posting(r),
                   seq |-> Max2(ledger.seq, e.seq),
                   balance |-> IF e.seq > ledger.seq THEN e.balance ELSE ledger.balance]
    BY DEF Commit
  <2> HIDE DEF e
  <2> QED
    BY <1>1, <2>1, <2>2, <2>3 DEF Max2
<1> DEFINE none == [NoRequest EXCEPT !.pc = "committed"]
<1>7. none \in Transactions /\ none.pc = "committed" /\ none.locks = {}
  BY NoRequestType DEF NoRequest
<1>8. req' = [req EXCEPT ![r] = none]
  BY DEF Commit
<1> HIDE DEF none
<1>9. /\ req' \in [Requests -> Transactions] /\ req'[r] = none
      /\ \A q \in Requests \ {r} : req'[q] = req[q]
  BY <1>7, <1>8 DEF TypeInv, TypeOK
<1>10. seq' = seq /\ job' = job /\ amount' = amount /\ raced' = raced
  BY DEF Commit
<1>11. SeqInv' /\ seq' \in 0..Cardinality(Requests)
  <2>1. Numbered \subseteq Numbered'
    BY <1>7, <1>9 DEF Numbered
  <2> QED
    BY <1>10, <2>1, SeqKept
<1>12. WayInv'
  BY <1>7, <1>9, <1>10 DEF TypeInv, WayInv, OnItsWay, Op, WalletLock
<1>13. TypeOK'
  BY <1>2, <1>3, <1>4, <1>5, <1>6, <1>9, <1>10, <1>11 DEF TypeInv, TypeOK
<1> QED
  BY <1>11, <1>12, <1>13 DEF TypeInv

LEMMA TypeInit ==
    ASSUME ConcurrentAssumption, Init
    PROVE  TypeInv
<1>1. IsFiniteSet(Requests) /\ Cardinality(Requests) \in Nat
  BY FS_CardinalityType DEF ConcurrentAssumption
<1>2. req \in [Requests -> Transactions]
  <2>1. "idle" \in {"idle", "committed", "failed"}
    OBVIOUS
  <2>2. NoRequest \in Transactions
    BY <2>1, NoRequestType
  <2> QED
    BY <2>2 DEF Init
<1>3. schedule \in [Schedules -> ScheduleRows]
  BY DEF Init, ScheduleRows
<1>4. alloc \in [Payments -> [Schedules -> Nat]]
  BY DEF Init
<1>5. /\ wallet \in [exists: BOOLEAN, balance: Nat, credits: Nat]
      /\ ledger \in [seq: Nat, balance: Int, sum: Int]
      /\ seq \in 0..Cardinality(Requests) /\ raced \in BOOLEAN
  <2>1. wallet \in [exists: BOOLEAN, balance: Nat, credits: Nat]
    BY DEF Init
  <2>2. ledger \in [seq: Nat, balance: Int, sum: Int]
    BY DEF Init
  <2>3. seq \in 0..Cardinality(Requests)
    BY <1>1 DEF Init
  <2>4. raced \in BOOLEAN
    BY DEF Init
  <2> QED
    BY <2>1, <2>2, <2>3, <2>4
<1>6. /\ job \in [Requests -> Jobs] /\ amount \in [Payments -> Amounts]
      /\ status \in [Payments -> Statuses]
  BY DEF Init, Statuses
<1>7. TypeOK
  BY <1>2, <1>3, <1>4, <1>5, <1>6 DEF TypeOK
<1>8. SeqInv
  <2>1. IsFiniteSet(Numbered)
    BY <1>1, FS_Subset DEF Numbered
  <2>2. Cardinality(Numbered) \in Nat
    BY <2>1, FS_CardinalityType
  <2> QED
    BY <2>2 DEF Init, SeqInv
<1>9. WayInv
  BY DEF Init, WayInv, OnItsWay, NoRequest, WalletLock
<1> QED
  BY <1>7, <1>8, <1>9 DEF TypeInv

LEMMA TypeStep ==
    ASSUME ConcurrentAssumption, TypeInv, NEW r \in Requests, CheckStatus(r) \/ Step(r)
    PROVE  TypeInv'
<1>1. TypeOK /\ OnItsWay(r) /\ req[r] \in Transactions
  BY DEF TypeInv, WayInv, TypeOK
<1>2. CASE CheckStatus(r)
  <2>1. Local(r) /\ req'[r] = [req[r] EXCEPT !.pc = "checked"]
    BY <1>1, <1>2, CheckStatusMoves
  <2>2. raced' \in BOOLEAN /\ seq' = seq /\ req[r].pc = "idle" /\ job' = job
    BY <1>1, <1>2 DEF CheckStatus, TypeOK
  <2>3. OnItsWay(r)'
    BY <1>1, <2>1, <2>2 DEF OnItsWay, Op, Transactions
  <2> QED
    BY <2>1, <2>2, <2>3, LocalType DEF Numbering
<1>3. CASE LockPayment(r)
  <2>1. PICK pc \in {"posted", "posting", "owner"} :
           /\ pc = "posted" <=> Op(r) = "confirm"
           /\ pc = "posting" <=> Op(r) = "cancel"
           /\ req'[r] = [req[r] EXCEPT !.locks = @ \cup {<<"payment", job[r].p>>}, !.pc = pc]
    BY <1>1, <1>3, LockPaymentMoves
  <2>2. /\ raced' = raced /\ seq' = seq /\ job' = job /\ raced \in BOOLEAN
        /\ req[r].pc = IF Op(r) = "confirm" THEN "posted" ELSE "checked"
    BY <1>1, <1>3 DEF LockPayment, TypeOK
  <2>3. WalletLock \in req'[r].locks => WalletLock \in req[r].locks
    BY <1>1, <2>1 DEF WalletLock, Transactions
  <2>4. /\ req'[r].over = req[r].over /\ req'[r].purse = req[r].purse /\ req'[r].pc = pc
    BY <1>1, <2>1 DEF Transactions
  <2>5. Op(r) \in {"confirm", "refund", "reject", "cancel"}
    BY <1>1 DEF TypeOK, Jobs, Op
  <2>6. Local(r)
    BY <1>1, <1>3, LockPaymentMoves
  <2>7. OnItsWay(r)'
    BY <1>1, <2>1, <2>2, <2>3, <2>4, <2>5 DEF OnItsWay, Op
  <2> QED
    BY <2>1, <2>2, <2>4, <2>6, <2>7, LocalType DEF Numbering
<1>4. CASE ReadSchedulesToPay(r)
  <2>1. PICK rem \in Leftovers(amount[job[r].p]) :
           req'[r] = [req[r] EXCEPT !.pc = "writing", !.seen = schedule, !.over = rem[N],
                                    !.part = [s \in Schedules |-> rem[s - 1] - rem[s]]]
    BY <1>1, <1>4, ReadSchedulesMoves
  <2>2. Local(r)
    BY <1>1, <1>4, ReadSchedulesMoves
  <2>3. raced' = raced /\ seq' = seq /\ job' = job /\ raced \in BOOLEAN /\ req[r].pc = "checked"
    BY <1>1, <1>4 DEF ReadSchedulesToPay, TypeOK
  <2>4. req'[r].locks = req[r].locks /\ req'[r].pc = "writing"
    BY <1>1, <2>1 DEF Transactions
  <2>5. OnItsWay(r)'
    BY <1>1, <2>3, <2>4 DEF OnItsWay
  <2> QED
    BY <2>2, <2>3, <2>5, LocalType DEF Numbering
<1>5. CASE ReadAllocations(r)
  <2>1. PICK over \in Nat :
           req'[r] = [req[r] EXCEPT !.pc = "writing", !.seen = schedule,
                                    !.part = alloc[job[r].p], !.over = over]
    BY <1>1, <1>5, ReadAllocationsMoves
  <2>2. Local(r)
    BY <1>1, <1>5, ReadAllocationsMoves
  <2>3. raced' = raced /\ seq' = seq /\ job' = job /\ raced \in BOOLEAN /\ req[r].pc = "owner"
    BY <1>1, <1>5 DEF ReadAllocations, TypeOK
  <2>4. req'[r].locks = req[r].locks /\ req'[r].pc = "writing"
    BY <1>1, <2>1 DEF Transactions
  <2>5. OnItsWay(r)'
    BY <1>1, <2>3, <2>4 DEF OnItsWay
  <2> QED
    BY <2>2, <2>3, <2>5, LocalType DEF Numbering
<1>6. CASE \E s \in Schedules : LockSchedule(r, s)
  <2>1. PICK s \in Schedules : LockSchedule(r, s)
    BY <1>6
  <2>2. Local(r) /\ req'[r] = [req[r] EXCEPT !.locks = @ \cup {<<"schedule", s>>}]
    BY <1>1, <2>1, LockScheduleMoves
  <2>3. raced' = raced /\ seq' = seq /\ job' = job /\ raced \in BOOLEAN /\ req[r].pc = "writing"
    BY <1>1, <2>1 DEF LockSchedule, TypeOK
  <2>4. WalletLock \in req'[r].locks => WalletLock \in req[r].locks
    BY <1>1, <2>2 DEF WalletLock, Transactions
  <2>5. req'[r].pc = "writing"
    BY <1>1, <2>2, <2>3 DEF Transactions
  <2>6. OnItsWay(r)'
    BY <1>1, <2>3, <2>4, <2>5 DEF OnItsWay
  <2> QED
    BY <2>2, <2>3, <2>6, LocalType DEF Numbering
<1>7. CASE ReadWallet(r)
  <2>1. PICK pc \in {"paying", "posting"}, over \in Nat :
           /\ pc = "paying" =>
                /\ Op(r) \in {"confirm", "refund"}
                /\ Op(r) = "refund" => over <= wallet.balance
           /\ req'[r] = [req[r] EXCEPT !.pc = pc, !.over = over,
                !.purse = [exists |-> wallet.exists, balance |-> wallet.balance]]
    BY <1>1, <1>7, ReadWalletMoves
  <2>2. Local(r)
    BY <1>1, <1>7, ReadWalletMoves
  <2>3. raced' = raced /\ seq' = seq /\ job' = job /\ raced \in BOOLEAN /\ req[r].pc = "writing"
    BY <1>1, <1>7 DEF ReadWallet, TypeOK
  <2>4. /\ req'[r].pc = pc /\ req'[r].over = over /\ req'[r].purse.balance = wallet.balance
        /\ req'[r].locks = req[r].locks
    BY <1>1, <2>1 DEF Transactions
  <2>5. OnItsWay(r)'
    BY <1>1, <2>1, <2>3, <2>4 DEF OnItsWay, Op
  <2> QED
    BY <2>2, <2>3, <2>5, LocalType DEF Numbering
<1>8. CASE LockWallet(r)
  <2>1. Local(r) /\ req'[r] = [req[r] EXCEPT !.pc = "posting", !.locks = @ \cup {WalletLock}]
    BY <1>1, <1>8, LockWalletMoves
  <2>2. raced' = raced /\ seq' = seq /\ job' = job /\ raced \in BOOLEAN /\ req[r].pc = "paying"
    BY <1>1, <1>8 DEF LockWallet, TypeOK
  <2>3. /\ req'[r].pc = "posting" /\ req'[r].over = req[r].over
        /\ req'[r].purse = req[r].purse
    BY <1>1, <2>1 DEF Transactions
  <2>4. OnItsWay(r)'
    BY <1>1, <2>2, <2>3 DEF OnItsWay, Op
  <2> QED
    BY <2>1, <2>2, <2>4, LocalType DEF Numbering
<1>9. CASE WalletConflict(r) \/ AbortVictim(r)
  <2>1. Local(r) /\ req'[r] = [NoRequest EXCEPT !.pc = "failed"]
    BY <1>1, <1>9, FailsMoves
  <2>2. raced' = raced /\ seq' = seq /\ job' = job /\ raced \in BOOLEAN
    BY <1>1, <1>9 DEF WalletConflict, AbortVictim, TypeOK
  <2>3. req'[r].pc = "failed" /\ req'[r].locks = {}
    BY <2>1 DEF NoRequest
  <2>4. OnItsWay(r)'
    BY <2>3 DEF OnItsWay, WalletLock
  <2> QED
    BY <2>1, <2>2, <2>3, <2>4, LocalType DEF Numbering
<1>10. CASE PostLedger(r)
  <2>1. /\ Local(r)
        /\ req'[r] = [req[r] EXCEPT !.pc = "posted",
             !.entry = [seq |-> seq + 1, balance |-> ledger.balance + Posting(r)]]
    BY <1>1, <1>10, PostLedgerMoves
  <2>2. raced' = raced /\ seq' = seq + 1 /\ job' = job /\ raced \in BOOLEAN
        /\ req[r].pc = "posting"
    BY <1>1, <1>10 DEF PostLedger, TypeOK
  <2>3. /\ req'[r].pc = "posted" /\ req'[r].over = req[r].over
        /\ req'[r].purse = req[r].purse /\ req'[r].locks = req[r].locks
    BY <1>1, <2>1 DEF Transactions
  <2>4. OnItsWay(r)'
    BY <1>1, <2>2, <2>3 DEF OnItsWay, Op
  <2> QED
    BY <2>1, <2>2, <2>3, <2>4, LocalType
<1>11. CASE Commit(r)
  BY <1>11, CommitType
<1> QED
  BY <1>2, <1>3, <1>4, <1>5, <1>6, <1>7, <1>8, <1>9, <1>10, <1>11 DEF Step

LEMMA TypeStutters == TypeInv /\ UNCHANGED vars => TypeInv'
<1> SUFFICES ASSUME TypeInv, UNCHANGED vars PROVE TypeInv'
  OBVIOUS
<1>1. TypeOK'
  BY DEF vars, TypeInv, TypeOK
<1>2. SeqInv'
  BY DEF vars, TypeInv, SeqInv, Numbered
<1>3. WayInv'
  BY DEF vars, TypeInv, WayInv, OnItsWay, Op
<1> QED
  BY <1>1, <1>2, <1>3 DEF TypeInv

\* Every reachable state has the types: a wallet balance is never negative, and
\* the ledger's numbers never run past the number of requests.
THEOREM TypesHold == Spec => []TypeOK
<1>1. Init => TypeInv
  BY TypeInit, ConcurrentAssumption
<1>2. TypeInv /\ [Next]_vars => TypeInv'
  <2> SUFFICES ASSUME TypeInv, [Next]_vars PROVE TypeInv'
    OBVIOUS
  <2>1. CASE Next
    BY <2>1, TypeStep, ConcurrentAssumption DEF Next
  <2>2. CASE UNCHANGED vars
    BY <2>2, TypeStutters
  <2> QED
    BY <2>1, <2>2
<1>3. TypeInv => TypeOK
  BY DEF TypeInv
<1> QED
  BY <1>1, <1>2, <1>3, PTL DEF Spec
-----------------------------------------------------------------------------
(* What a step that commits nothing does with the rows a request has read: *)
(* it reads them again, forgets them, or keeps them.                       *)

Reads(r) ==
    /\ req[r].pc \in {"checked", "owner"} /\ req'[r].pc = "writing"
    /\ req'[r].seen = schedule /\ req'[r].purse = req[r].purse /\ req'[r].locks = req[r].locks
    /\ \/ Op(r) = "confirm" /\ req[r].pc = "checked" /\
          \E rem \in Leftovers(amount[job[r].p]) :
            /\ req'[r].part = [s \in Schedules |-> rem[s - 1] - rem[s]]
            /\ req'[r].over = rem[N]
       \/ Op(r) \in {"refund", "reject"} /\ req'[r].part = alloc[job[r].p]

Emptied(r, pc) == req'[r] = [NoRequest EXCEPT !.pc = pc]
Forgets(r) == Emptied(r, "failed")

Keeps(r) ==
    /\ req'[r].seen = req[r].seen /\ req'[r].part = req[r].part
    /\ req'[r].purse = req[r].purse \/ req'[r].purse.balance = wallet.balance

LEMMA StepKinds ==
    ASSUME ConcurrentAssumption, TypeInv, NEW r \in Requests,
           CheckStatus(r) \/ Step(r), ~ Commit(r)
    PROVE  Local(r) /\ (Reads(r) \/ Forgets(r) \/ Keeps(r))
<1>1. TypeOK /\ OnItsWay(r) /\ req[r] \in Transactions
  BY DEF TypeInv, WayInv, TypeOK
<1>2. CASE CheckStatus(r)
  <2>1. Local(r) /\ req'[r] = [req[r] EXCEPT !.pc = "checked"]
    BY <1>1, <1>2, CheckStatusMoves
  <2>2. Keeps(r)
    BY <1>1, <2>1 DEF Keeps, Transactions
  <2> QED
    BY <2>1, <2>2
<1>3. CASE LockPayment(r)
  <2>1. PICK pc \in {"posted", "posting", "owner"} :
           req'[r] = [req[r] EXCEPT !.locks = @ \cup {<<"payment", job[r].p>>}, !.pc = pc]
    BY <1>1, <1>3, LockPaymentMoves
  <2>2. Local(r)
    BY <1>1, <1>3, LockPaymentMoves
  <2>3. Keeps(r)
    BY <1>1, <2>1 DEF Keeps, Transactions
  <2> QED
    BY <2>2, <2>3
<1>4. CASE ReadSchedulesToPay(r)
  <2>1. PICK rem \in Leftovers(amount[job[r].p]) :
           req'[r] = [req[r] EXCEPT !.pc = "writing", !.seen = schedule, !.over = rem[N],
                                    !.part = [s \in Schedules |-> rem[s - 1] - rem[s]]]
    BY <1>1, <1>4, ReadSchedulesMoves
  <2>2. Local(r) /\ Op(r) = "confirm" /\ req[r].pc = "checked"
    BY <1>1, <1>4, ReadSchedulesMoves DEF ReadSchedulesToPay
  <2> DEFINE part == [s \in Schedules |-> rem[s - 1] - rem[s]]
  <2>3. /\ req'[r].pc = "writing" /\ req'[r].seen = schedule /\ req'[r].over = rem[N]
        /\ req'[r].part = part /\ req'[r].purse = req[r].purse /\ req'[r].locks = req[r].locks
    <3> HIDE DEF part
    <3>1. req'[r] = [req[r] EXCEPT !.pc = "writing", !.seen = schedule, !.over = rem[N],
                                   !.part = part]
      BY <2>1 DEF part
    <3> QED
      BY <1>1, <3>1 DEF Transactions
  <2>4. Reads(r)
    BY <2>2, <2>3 DEF Reads
  <2> QED
    BY <2>2, <2>4
<1>5. CASE ReadAllocations(r)
  <2>1. PICK over \in Nat :
           req'[r] = [req[r] EXCEPT !.pc = "writing", !.seen = schedule,
                                    !.part = alloc[job[r].p], !.over = over]
    BY <1>1, <1>5, ReadAllocationsMoves
  <2>2. Local(r) /\ req[r].pc = "owner"
    BY <1>1, <1>5, ReadAllocationsMoves DEF ReadAllocations
  <2>3. /\ req'[r].pc = "writing" /\ req'[r].seen = schedule
        /\ req'[r].part = alloc[job[r].p] /\ req'[r].purse = req[r].purse
        /\ req'[r].locks = req[r].locks
    BY <1>1, <2>1 DEF Transactions
  <2>4. Reads(r)
    BY <1>1, <2>2, <2>3 DEF Reads, OnItsWay
  <2> QED
    BY <2>2, <2>4
<1>6. CASE \E s \in Schedules : LockSchedule(r, s)
  <2>1. PICK s \in Schedules : LockSchedule(r, s)
    BY <1>6
  <2>2. Local(r) /\ req'[r] = [req[r] EXCEPT !.locks = @ \cup {<<"schedule", s>>}]
    BY <1>1, <2>1, LockScheduleMoves
  <2>3. Keeps(r)
    BY <1>1, <2>2 DEF Keeps, Transactions
  <2> QED
    BY <2>2, <2>3
<1>7. CASE ReadWallet(r)
  <2>1. PICK pc \in {"paying", "posting"}, over \in Nat :
           req'[r] = [req[r] EXCEPT !.pc = pc, !.over = over,
                !.purse = [exists |-> wallet.exists, balance |-> wallet.balance]]
    BY <1>1, <1>7, ReadWalletMoves
  <2>2. Local(r)
    BY <1>1, <1>7, ReadWalletMoves
  <2>3. Keeps(r)
    BY <1>1, <2>1 DEF Keeps, Transactions
  <2> QED
    BY <2>2, <2>3
<1>8. CASE LockWallet(r)
  <2>1. Local(r) /\ req'[r] = [req[r] EXCEPT !.pc = "posting", !.locks = @ \cup {WalletLock}]
    BY <1>1, <1>8, LockWalletMoves
  <2>2. Keeps(r)
    BY <1>1, <2>1 DEF Keeps, Transactions
  <2> QED
    BY <2>1, <2>2
<1>9. CASE WalletConflict(r) \/ AbortVictim(r)
  BY <1>1, <1>9, FailsMoves DEF Forgets, Emptied
<1>10. CASE PostLedger(r)
  <2>1. /\ Local(r)
        /\ req'[r] = [req[r] EXCEPT !.pc = "posted",
             !.entry = [seq |-> seq + 1, balance |-> ledger.balance + Posting(r)]]
    BY <1>1, <1>10, PostLedgerMoves
  <2>2. Keeps(r)
    BY <1>1, <2>1 DEF Keeps, Transactions
  <2> QED
    BY <2>1, <2>2
<1> QED
  BY <1>2, <1>3, <1>4, <1>5, <1>6, <1>7, <1>8, <1>9, <1>10 DEF Step

LEMMA OthersStay ==
    ASSUME TypeOK, NEW r \in Requests, Local(r), NEW q \in Requests, q # r
    PROVE  req'[q] = req[q]
BY DEF Local, TypeOK

\* What an idle, committed or failed request carries.
LEMMA NothingCarried ==
    ASSUME NEW r \in Requests, NEW pc, Emptied(r, pc)
    PROVE  /\ req'[r].pc = pc /\ req'[r].locks = {} /\ req'[r].purse.balance = 0
           /\ req'[r].entry.seq = 0
           /\ \A s \in Schedules : req'[r].part[s] = 0 /\ req'[r].seen[s].paid = 0
BY DEF NoRequest, Emptied

-----------------------------------------------------------------------------
(* No schedule is overfilled. *)

LEMMA FullInit ==
    ASSUME ConcurrentAssumption, Init
    PROVE  FullInv
BY DEF Init, FullInv, NoScheduleOverfilled, NoRequest, ConcurrentAssumption

\* What a request writes on a schedule.
LEMMA ComputedFits ==
    ASSUME ConcurrentAssumption, TypeOK, FullInv, NEW r \in Requests, NEW s \in Schedules
    PROVE  Computed(r, s).paid <= Rent
<1> DEFINE row == req[r].seen[s]
           x   == req[r].part[s]
<1>1. row \in ScheduleRows /\ x \in Nat /\ Rent \in Nat /\ row.paid \in Nat
  BY DEF TypeOK, Transactions, ConcurrentAssumption, ScheduleRows
<1>2. row.paid <= Rent /\ (Op(r) = "confirm" => row.paid + x <= Rent)
  BY DEF FullInv
<1>3. Computed(r, s).paid = CASE x = 0 -> row.paid
                              [] x > 0 /\ Op(r) = "confirm" -> row.paid + x
                              [] OTHER -> Max2(0, row.paid - x)
  BY <1>1 DEF Computed
<1> HIDE DEF row, x
<1> QED
  BY <1>1, <1>2, <1>3 DEF Max2

LEMMA FullStep ==
    ASSUME ConcurrentAssumption, TypeInv, FullInv, NEW r \in Requests, CheckStatus(r) \/ Step(r)
    PROVE  FullInv'
<1>1. TypeOK /\ TypeOK' /\ Rent \in Nat
  BY TypeStep DEF TypeInv, ConcurrentAssumption
<1> DEFINE Fine(q, s) == /\ req[q].seen[s].paid <= Rent
                         /\ Op(q) = "confirm" => req[q].seen[s].paid + req[q].part[s] <= Rent
<1>2. \A q \in Requests, s \in Schedules : Fine(q, s)
  BY DEF FullInv
<1>3. \A s \in Schedules : schedule[s].paid <= Rent /\ schedule[s].paid \in Nat
  BY <1>1 DEF FullInv, NoScheduleOverfilled, TypeOK, ScheduleRows
<1>4. CASE ~ Commit(r)
  <2>1. Local(r) /\ (Reads(r) \/ Forgets(r) \/ Keeps(r))
    BY <1>4, StepKinds
  <2>2. job' = job /\ schedule' = schedule
    BY <2>1 DEF Local
  <2>3. ASSUME NEW s \in Schedules PROVE Fine(r, s)'
    <3>1. CASE Keeps(r)
      BY <1>2, <2>2, <3>1 DEF Keeps, Op
    <3>2. CASE Forgets(r)
      <4>1. req'[r].seen[s].paid = 0 /\ req'[r].part[s] = 0
        BY <3>2, NothingCarried DEF Forgets
      <4> QED
        BY <1>1, <4>1
    <3>3. CASE Reads(r)
      <4>1. req'[r].seen[s].paid <= Rent
        BY <1>3, <3>3 DEF Reads
      <4>2. ASSUME Op(r) = "confirm"
            PROVE  req'[r].seen[s].paid + req'[r].part[s] <= Rent
        <5>1. PICK rem \in Leftovers(amount[job[r].p]) :
                 req'[r].part = [t \in Schedules |-> rem[t - 1] - rem[t]]
          BY <3>3, <4>2 DEF Reads
        <5>2. amount[job[r].p] \in Nat
          BY <1>1 DEF TypeOK, Jobs, ConcurrentAssumption
        <5>3. schedule[s].paid + (rem[s - 1] - rem[s]) <= Rent
          BY <1>1, <1>3, <5>2, PartsFit
        <5> QED
          BY <3>3, <5>1, <5>3 DEF Reads
      <4> QED
        BY <2>2, <4>1, <4>2 DEF Op
    <3> QED
      BY <2>1, <3>1, <3>2, <3>3
  <2>4. \A q \in Requests \ {r}, s \in Schedules : Fine(q, s)'
    BY <1>1, <1>2, <2>1, <2>2, OthersStay DEF Op
  <2> QED
    BY <2>2, <2>3, <2>4 DEF FullInv, NoScheduleOverfilled
<1>5. CASE Commit(r)
  <2>1. ASSUME NEW s \in Schedules PROVE schedule'[s].paid <= Rent
    <3>1. schedule'[s] = IF s \in Touched(r) THEN Updated(r, s) ELSE schedule[s]
      BY <1>5 DEF Commit
    <3> QED
      BY <1>1, <1>3, <3>1, UpdatedRow, ComputedFits
  <2>2. req' = [req EXCEPT ![r] = [NoRequest EXCEPT !.pc = "committed"]] /\ job' = job
    BY <1>5 DEF Commit
  <2>3. Emptied(r, "committed")
        /\ \A q \in Requests \ {r} : req'[q] = req[q]
    BY <1>1, <2>2 DEF TypeOK, Emptied
  <2>4. ASSUME NEW s \in Schedules PROVE Fine(r, s)'
    <3>1. req'[r].seen[s].paid = 0 /\ req'[r].part[s] = 0
      BY <2>3, NothingCarried
    <3> QED
      BY <1>1, <3>1
  <2>5. \A q \in Requests \ {r}, s \in Schedules : Fine(q, s)'
    BY <1>2, <2>2, <2>3 DEF Op
  <2> QED
    BY <2>1, <2>4, <2>5 DEF FullInv, NoScheduleOverfilled
<1> QED
  BY <1>4, <1>5

\* An open, paid or waived schedule never holds more than its rent, however
\* confirmations, refunds and rejections of one lease overlap.
THEOREM NeverOverfilled == Spec => []NoScheduleOverfilled
<1>1. Init => TypeInv /\ FullInv
  BY TypeInit, FullInit, ConcurrentAssumption
<1>2. TypeInv /\ FullInv /\ [Next]_vars => (TypeInv /\ FullInv)'
  <2> SUFFICES ASSUME TypeInv, FullInv, [Next]_vars PROVE (TypeInv /\ FullInv)'
    OBVIOUS
  <2>1. CASE Next
    BY <2>1, TypeStep, FullStep, ConcurrentAssumption DEF Next
  <2>2. CASE UNCHANGED vars
    <3>1. FullInv'
      BY <2>2 DEF vars, FullInv, NoScheduleOverfilled, Op
    <3> QED
      BY <2>2, <3>1, TypeStutters
  <2> QED
    BY <2>1, <2>2
<1>3. TypeInv /\ FullInv => NoScheduleOverfilled
  BY DEF FullInv
<1> QED
  BY <1>1, <1>2, <1>3, PTL DEF Spec

-----------------------------------------------------------------------------
(* A schedule holds no more than was ever put there, the wallet no more    *)
(* than it ever received.                                                  *)

LEMMA ShareSums ==
    ASSUME ConcurrentAssumption, TypeOK, NEW s \in Schedules
    PROVE  /\ SumFunctionOnSet(Share(s), Payments) \in Nat
           /\ \A p \in Payments : Share(s)[p] = alloc[p][s] /\ alloc[p][s] \in Nat
<1>1. IsFiniteSet(Payments)
  BY DEF ConcurrentAssumption
<1>2. \A p \in Payments : Share(s)[p] = alloc[p][s] /\ alloc[p][s] \in Nat
  BY DEF TypeOK, Share
<1>3. \A p \in Payments : Share(s)[p] \in Nat
  BY <1>2
<1> QED
  BY <1>1, <1>2, <1>3, SumNat

\* A confirmation adds what it gave, any other request adds nothing.
LEMMA CommittedShare ==
    ASSUME ConcurrentAssumption, TypeOK, NEW r \in Requests, Commit(r), NEW s \in Schedules
    PROVE  SumFunctionOnSet(Share(s), Payments)' = SumFunctionOnSet(Share(s), Payments)
              + (IF Op(r) = "confirm" THEN req[r].part[s] ELSE 0)
<1> DEFINE p == job[r].p
           f == Share(s)
           g == [q \in Payments |-> alloc'[q][s]]
           x == IF Op(r) = "confirm" THEN req[r].part[s] ELSE 0
<1>1. /\ p \in Payments /\ alloc \in [Payments -> [Schedules -> Nat]]
      /\ req[r].part \in [Schedules -> Nat]
  BY DEF TypeOK, Jobs, Transactions
<1>2. alloc' = [alloc EXCEPT ![p] = IF Op(r) = "confirm"
                   THEN [t \in Schedules |-> alloc[p][t] + req[r].part[t]] ELSE alloc[p]]
  BY <1>1 DEF Commit, AllocAfter
<1>3. x \in Nat
  BY <1>1
<1>4. Ints(f, Payments) /\ \A q \in Payments : f[q] = alloc[q][s]
  BY <1>1, ShareSums DEF Ints
<1>5. alloc'[p][s] = alloc[p][s] + x
  <2>1. alloc'[p] = IF Op(r) = "confirm"
                    THEN [t \in Schedules |-> alloc[p][t] + req[r].part[t]] ELSE alloc[p]
    BY <1>1, <1>2
  <2>2. alloc[p][s] \in Nat
    BY <1>1
  <2> QED
    BY <1>1, <2>1, <2>2
<1>6. \A q \in Payments \ {p} : alloc'[q] = alloc[q]
  BY <1>1, <1>2
<1>7. g[p] = f[p] + x /\ g[p] \in Int /\ \A q \in Payments \ {p} : g[q] = f[q]
  BY <1>1, <1>3, <1>4, <1>5, <1>6 DEF Ints
<1>8. IsFiniteSet(Payments)
  BY DEF ConcurrentAssumption
<1>9. SumFunctionOnSet(f, Payments) \in Int
  BY <1>4, <1>8, SumType
<1>10. f[p] \in Int /\ Share(s)' = g
  BY <1>1, <1>4 DEF Share, Ints
<1> HIDE DEF f, g, x, p
<1>11. SumFunctionOnSet(g, Payments) = SumFunctionOnSet(f, Payments) + (g[p] - f[p])
  BY <1>1, <1>4, <1>7, <1>8, SumChangeOne
<1>12. SumFunctionOnSet(g, Payments) = SumFunctionOnSet(f, Payments) + x
  BY <1>3, <1>7, <1>9, <1>10, <1>11
<1> QED
  BY <1>10, <1>12 DEF f, x

LEMMA BackedInit ==
    ASSUME ConcurrentAssumption, Init
    PROVE  BackedInv
<1>1. TypeOK
  BY TypeInit DEF TypeInv
<1>2. \A s \in Schedules : SumFunctionOnSet(Share(s), Payments) \in Nat
  BY <1>1, ShareSums
<1>3. \A r \in Requests : req[r].purse.balance = 0 /\ \A s \in Schedules : req[r].seen[s].paid = 0
  BY DEF Init, NoRequest
<1>4. /\ \A s \in Schedules : schedule[s].paid = 0
      /\ wallet.balance = 0 /\ wallet.credits = 0
  BY DEF Init
<1> QED
  BY <1>2, <1>3, <1>4 DEF BackedInv, RacesMakeNoMoney

LEMMA BackedStep ==
    ASSUME ConcurrentAssumption, TypeInv, BackedInv, NEW r \in Requests,
           CheckStatus(r) \/ Step(r)
    PROVE  BackedInv'
<1> DEFINE Sum(s) == SumFunctionOnSet(Share(s), Payments)
<1>1. TypeOK /\ TypeOK'
  BY TypeStep DEF TypeInv
<1>2. \A s \in Schedules : Sum(s) \in Nat /\ schedule[s].paid \in Nat /\ schedule[s].paid <= Sum(s)
  BY <1>1, ShareSums DEF TypeOK, ScheduleRows, BackedInv, RacesMakeNoMoney
<1>3. \A q \in Requests, s \in Schedules :
        /\ req[q].seen[s].paid <= Sum(s) /\ req[q].seen[s].paid \in Nat
        /\ req[q].part[s] \in Nat
  BY <1>1 DEF BackedInv, TypeOK, Transactions, ScheduleRows
<1>4. \A q \in Requests : /\ req[q].purse.balance <= wallet.credits
                          /\ req[q].purse.balance \in Nat /\ req[q].over \in Nat
  BY <1>1 DEF BackedInv, TypeOK, Transactions
<1>5. wallet.balance <= wallet.credits /\ wallet.balance \in Nat /\ wallet.credits \in Nat
  BY <1>1 DEF BackedInv, RacesMakeNoMoney, TypeOK
<1>6. CASE ~ Commit(r)
  <2>1. Local(r) /\ (Reads(r) \/ Forgets(r) \/ Keeps(r))
    BY <1>6, StepKinds
  <2>2. alloc' = alloc /\ schedule' = schedule /\ wallet' = wallet
    BY <2>1 DEF Local
  <2>3. \A s \in Schedules : Sum(s)' = Sum(s)
    BY <2>2 DEF Share
  <2>4. ASSUME NEW q \in Requests
        PROVE  /\ \A s \in Schedules : req'[q].seen[s].paid <= Sum(s)
               /\ req'[q].purse.balance <= wallet.credits
    <3> HIDE DEF Sum
    <3>1. CASE q # r
      <4>1. req'[q] = req[q]
        BY <1>1, <2>1, <3>1, OthersStay
      <4> QED
        BY <1>3, <1>4, <4>1
    <3>2. CASE q = r /\ Keeps(r)
      BY <1>3, <1>4, <1>5, <3>2 DEF Keeps
    <3>3. CASE q = r /\ Forgets(r)
      <4>1. req'[r].purse.balance = 0 /\ \A s \in Schedules : req'[r].seen[s].paid = 0
        BY <3>3, NothingCarried DEF Forgets
      <4> QED
        BY <1>2, <1>5, <3>3, <4>1
    <3>4. CASE q = r /\ Reads(r)
      BY <1>2, <1>4, <3>4 DEF Reads
    <3> QED
      BY <2>1, <3>1, <3>2, <3>3, <3>4
  <2> QED
    BY <1>2, <1>5, <2>2, <2>3, <2>4 DEF BackedInv, RacesMakeNoMoney
<1>7. CASE Commit(r)
  <2> DEFINE x(s) == IF Op(r) = "confirm" THEN req[r].part[s] ELSE 0
  <2>1. \A s \in Schedules : Sum(s)' = Sum(s) + x(s) /\ x(s) \in Nat
    BY <1>1, <1>3, <1>7, CommittedShare
  <2>2. ASSUME NEW s \in Schedules PROVE schedule'[s].paid <= Sum(s)'
    <3>1. schedule'[s] = IF s \in Touched(r) THEN Updated(r, s) ELSE schedule[s]
      BY <1>7 DEF Commit
    <3>2. Computed(r, s).paid <= req[r].seen[s].paid + x(s)
      <4> DEFINE row == req[r].seen[s]
                 part == req[r].part[s]
      <4>1. row.paid \in Nat /\ part \in Nat
        BY <1>3
      <4>2. Computed(r, s).paid = CASE part = 0 -> row.paid
                                    [] part > 0 /\ Op(r) = "confirm" -> row.paid + part
                                    [] OTHER -> Max2(0, row.paid - part)
        BY <4>1 DEF Computed
      <4>3. x(s) = IF Op(r) = "confirm" THEN part ELSE 0
        OBVIOUS
      <4> HIDE DEF row, part, x
      <4>4. Computed(r, s).paid <= row.paid + x(s)
        BY <4>1, <4>2, <4>3 DEF Max2
      <4> QED
        BY <4>4 DEF row
    <3>3. Computed(r, s).paid \in Nat
      BY <1>1, ComputedType DEF ScheduleRows
    <3>4. schedule'[s].paid = Computed(r, s).paid \/ schedule'[s].paid = schedule[s].paid
      BY <1>1, <3>1, UpdatedRow
    <3>5. Sum(s)' = Sum(s) + x(s) /\ x(s) \in Nat
      BY <2>1
    <3>6. /\ Sum(s) \in Nat /\ schedule[s].paid \in Nat /\ schedule[s].paid <= Sum(s)
          /\ req[r].seen[s].paid <= Sum(s) /\ req[r].seen[s].paid \in Nat
      BY <1>2, <1>3
    <3> HIDE DEF Sum, x
    <3> QED
      BY <3>2, <3>3, <3>4, <3>5, <3>6
  <2>3. /\ wallet'.balance <= wallet'.credits /\ wallet.credits <= wallet'.credits
        /\ wallet'.credits \in Nat
    <3> DEFINE y == IF WalletLock \in req[r].locks THEN Signed(r, req[r].over) ELSE 0
    <3>1. y \in Int
      BY <1>4 DEF Signed
    <3>2. wallet' = IF y = 0 THEN wallet
                    ELSE [exists |-> TRUE, balance |-> req[r].purse.balance + y,
                          credits |-> wallet.credits + Max2(0, y)]
      BY <1>7 DEF Commit, WalletLock
    <3>3. Max2(0, y) \in Nat /\ y <= Max2(0, y)
      BY <3>1 DEF Max2
    <3> HIDE DEF y
    <3>4. CASE y = 0
      BY <1>5, <3>2, <3>4
    <3>5. CASE y # 0
      <4>1. /\ wallet'.balance = req[r].purse.balance + y
            /\ wallet'.credits = wallet.credits + Max2(0, y)
        BY <3>2, <3>5
      <4>2. /\ req[r].purse.balance <= wallet.credits /\ req[r].purse.balance \in Nat
            /\ wallet.credits \in Nat
        BY <1>4, <1>5
      <4> QED
        BY <3>1, <3>3, <4>1, <4>2
    <3> QED
      BY <3>4, <3>5
  <2>4. Emptied(r, "committed") /\ \A q \in Requests \ {r} : req'[q] = req[q]
    BY <1>1, <1>7 DEF Commit, TypeOK, Emptied
  <2>5. ASSUME NEW q \in Requests
        PROVE  /\ \A s \in Schedules : req'[q].seen[s].paid <= Sum(s)'
               /\ req'[q].purse.balance <= wallet'.credits
    <3>1. \A s \in Schedules : Sum(s)' \in Nat /\ Sum(s) <= Sum(s)'
      BY <1>2, <2>1
    <3>2. CASE q = r
      <4>1. req'[r].purse.balance = 0 /\ \A s \in Schedules : req'[r].seen[s].paid = 0
        BY <2>4, NothingCarried
      <4> QED
        BY <2>3, <3>1, <3>2, <4>1
    <3>3. CASE q # r
      <4>1. req'[q] = req[q]
        BY <2>4, <3>3
      <4>2. req'[q].purse.balance <= wallet'.credits
        BY <1>4, <1>5, <2>3, <4>1
      <4>3. ASSUME NEW s \in Schedules PROVE req'[q].seen[s].paid <= Sum(s)'
        <5>1. /\ req[q].seen[s].paid <= Sum(s) /\ req[q].seen[s].paid \in Nat
              /\ Sum(s) \in Nat /\ Sum(s)' \in Nat /\ Sum(s) <= Sum(s)'
          BY <1>2, <1>3, <3>1
        <5> HIDE DEF Sum
        <5> QED
          BY <4>1, <5>1
      <4> QED
        BY <4>2, <4>3
    <3> QED
      BY <3>2, <3>3
  <2> QED
    BY <2>2, <2>3, <2>5 DEF BackedInv, RacesMakeNoMoney
<1> QED
  BY <1>6, <1>7

\* Overlapping requests lose money and never make any: no schedule holds more
\* than allocation rows put there, the wallet no more than it was credited with.
THEOREM NoMoneyIsMade == Spec => []RacesMakeNoMoney
<1>1. Init => TypeInv /\ BackedInv
  BY TypeInit, BackedInit, ConcurrentAssumption
<1>2. TypeInv /\ BackedInv /\ [Next]_vars => (TypeInv /\ BackedInv)'
  <2> SUFFICES ASSUME TypeInv, BackedInv, [Next]_vars PROVE (TypeInv /\ BackedInv)'
    OBVIOUS
  <2>1. CASE Next
    BY <2>1, TypeStep, BackedStep, ConcurrentAssumption DEF Next
  <2>2. CASE UNCHANGED vars
    <3>1. BackedInv'
      BY <2>2 DEF vars, BackedInv, RacesMakeNoMoney, Share
    <3> QED
      BY <2>2, <3>1, TypeStutters
  <2> QED
    BY <2>1, <2>2
<1>3. TypeInv /\ BackedInv => RacesMakeNoMoney
  BY DEF BackedInv
<1> QED
  BY <1>1, <1>2, <1>3, PTL DEF Spec

-----------------------------------------------------------------------------
(* Requests wait for each other in a circle only over a payment they share. *)

LEMMA SameTouched ==
    ASSUME NEW q \in Requests, job' = job,
           req'[q].seen = req[q].seen, req'[q].part = req[q].part
    PROVE  Touched(q)' = Touched(q)
BY DEF Touched, Computed, Op

LEMMA LocksGrow ==
    ASSUME ConcurrentAssumption, TypeInv, NEW r \in Requests,
           CheckStatus(r) \/ Step(r), ~ Commit(r)
    PROVE  \/ Reads(r) \/ Forgets(r)
           \/ /\ Keeps(r) /\ (req[r].pc \in Reading => req'[r].pc \in Reading)
              /\ \E lock \in Locks \ ({"schedule"} \X Schedules) :
                   /\ req'[r].locks \subseteq req[r].locks \cup {lock}
                   /\ \A p \in Payments : lock = <<"payment", p>> => p = job[r].p
           \/ /\ Keeps(r) /\ req'[r].pc \in Reading
              /\ \E s \in Touched(r) : req'[r].locks = req[r].locks \cup {<<"schedule", s>>}
<1>1. TypeOK /\ req[r] \in Transactions /\ job[r] \in Jobs
  BY DEF TypeInv, TypeOK
<1>2. Reads(r) \/ Forgets(r) \/ Keeps(r)
  BY StepKinds
<1>3. WalletLock \in Locks \ ({"schedule"} \X Schedules)
      /\ \A p \in Payments : WalletLock # <<"payment", p>>
  BY DEF WalletLock, Locks
<1> SUFFICES ASSUME Keeps(r), ~ Forgets(r)
             PROVE  \/ /\ req[r].pc \in Reading => req'[r].pc \in Reading
                       /\ \E lock \in Locks \ ({"schedule"} \X Schedules) :
                            /\ req'[r].locks \subseteq req[r].locks \cup {lock}
                            /\ \A p \in Payments : lock = <<"payment", p>> => p = job[r].p
                    \/ /\ req'[r].pc \in Reading
                       /\ \E s \in Touched(r) :
                            req'[r].locks = req[r].locks \cup {<<"schedule", s>>}
  BY <1>2
<1> DEFINE Plain == /\ req[r].pc \in Reading => req'[r].pc \in Reading
                    /\ req'[r].locks \subseteq req[r].locks \cup {WalletLock}
<1>4. ASSUME Plain
      PROVE  /\ req[r].pc \in Reading => req'[r].pc \in Reading
             /\ \E lock \in Locks \ ({"schedule"} \X Schedules) :
                  /\ req'[r].locks \subseteq req[r].locks \cup {lock}
                  /\ \A p \in Payments : lock = <<"payment", p>> => p = job[r].p
  BY <1>3, <1>4
<1>5. CASE CheckStatus(r)
  <2>1. req'[r] = [req[r] EXCEPT !.pc = "checked"] /\ req[r].pc = "idle"
    BY <1>1, <1>5, CheckStatusMoves DEF CheckStatus
  <2> QED
    BY <1>1, <1>4, <2>1 DEF Transactions, Reading
<1>6. CASE LockPayment(r)
  <2>1. PICK pc \in {"posted", "posting", "owner"} :
           /\ pc = "posted" <=> Op(r) = "confirm"
           /\ req'[r] = [req[r] EXCEPT !.locks = @ \cup {<<"payment", job[r].p>>}, !.pc = pc]
    BY <1>1, <1>6, LockPaymentMoves
  <2>2. req'[r].locks = req[r].locks \cup {<<"payment", job[r].p>>} /\ req'[r].pc = pc
    BY <1>1, <2>1 DEF Transactions
  <2>3. req[r].pc \in Reading => req'[r].pc \in Reading
    BY <1>6, <2>1, <2>2 DEF LockPayment, Reading
  <2> DEFINE lock == <<"payment", job[r].p>>
  <2>4. lock \in Locks \ ({"schedule"} \X Schedules)
    BY <1>1 DEF Jobs, Locks
  <2>5. \A p \in Payments : lock = <<"payment", p>> => p = job[r].p
    OBVIOUS
  <2> QED
    BY <2>2, <2>3, <2>4, <2>5
<1>7. CASE ReadSchedulesToPay(r)
  <2>1. PICK rem \in Leftovers(amount[job[r].p]) :
           req'[r] = [req[r] EXCEPT !.pc = "writing", !.seen = schedule, !.over = rem[N],
                                    !.part = [s \in Schedules |-> rem[s - 1] - rem[s]]]
    BY <1>1, <1>7, ReadSchedulesMoves
  <2>2. req'[r].pc = "writing" /\ req'[r].locks = req[r].locks
    BY <1>1, <2>1 DEF Transactions
  <2> QED
    BY <1>4, <2>2 DEF Reading
<1>8. CASE ReadAllocations(r)
  <2>1. PICK over \in Nat :
           req'[r] = [req[r] EXCEPT !.pc = "writing", !.seen = schedule,
                                    !.part = alloc[job[r].p], !.over = over]
    BY <1>1, <1>8, ReadAllocationsMoves
  <2>2. req'[r].pc = "writing" /\ req'[r].locks = req[r].locks
    BY <1>1, <2>1 DEF Transactions
  <2> QED
    BY <1>4, <2>2 DEF Reading
<1>9. CASE \E s \in Schedules : LockSchedule(r, s)
  <2>1. PICK s \in Schedules : LockSchedule(r, s)
    BY <1>9
  <2>2. req'[r] = [req[r] EXCEPT !.locks = @ \cup {<<"schedule", s>>}]
    BY <1>1, <2>1, LockScheduleMoves
  <2>3. req'[r].locks = req[r].locks \cup {<<"schedule", s>>} /\ req'[r].pc = req[r].pc
    BY <1>1, <2>2 DEF Transactions
  <2>4. s \in Touched(r) /\ req[r].pc = "writing"
    BY <2>1 DEF LockSchedule
  <2> QED
    BY <2>3, <2>4 DEF Reading
<1>10. CASE ReadWallet(r)
  <2>1. PICK pc \in {"paying", "posting"}, over \in Nat :
           req'[r] = [req[r] EXCEPT !.pc = pc, !.over = over,
                !.purse = [exists |-> wallet.exists, balance |-> wallet.balance]]
    BY <1>1, <1>10, ReadWalletMoves
  <2>2. req'[r].pc = pc /\ req'[r].locks = req[r].locks
    BY <1>1, <2>1 DEF Transactions
  <2> QED
    BY <1>4, <2>2 DEF Reading
<1>11. CASE LockWallet(r)
  <2>1. req'[r] = [req[r] EXCEPT !.pc = "posting", !.locks = @ \cup {WalletLock}]
    BY <1>1, <1>11, LockWalletMoves
  <2>2. req'[r].pc = "posting" /\ req'[r].locks = req[r].locks \cup {WalletLock}
    BY <1>1, <2>1 DEF Transactions
  <2> QED
    BY <1>4, <2>2 DEF Reading
<1>12. CASE WalletConflict(r) \/ AbortVictim(r)
  BY <1>1, <1>12, FailsMoves DEF Forgets, Emptied
<1>13. CASE PostLedger(r)
  <2>1. req'[r] = [req[r] EXCEPT !.pc = "posted",
             !.entry = [seq |-> seq + 1, balance |-> ledger.balance + Posting(r)]]
    BY <1>1, <1>13, PostLedgerMoves
  <2>2. req'[r].pc = "posted" /\ req'[r].locks = req[r].locks
    BY <1>1, <2>1 DEF Transactions
  <2> QED
    BY <1>4, <2>2 DEF Reading
<1> QED
  BY <1>5, <1>6, <1>7, <1>8, <1>9, <1>10, <1>11, <1>12, <1>13 DEF Step

LEMMA LockInit ==
    ASSUME Init
    PROVE  LockInv
BY DEF Init, LockInv, Holds, NoRequest

LEMMA LockStep ==
    ASSUME ConcurrentAssumption, TypeInv, LockInv, NEW r \in Requests,
           CheckStatus(r) \/ Step(r)
    PROVE  LockInv'
<1>1. TypeOK /\ job' = job /\ Holds(r)
  BY StepKinds DEF TypeInv, Local, Commit, LockInv
<1>2. ASSUME NEW q \in Requests, q # r PROVE Holds(q)'
  <2>1. req'[q] = req[q]
    <3>1. CASE Commit(r)
      BY <1>1, <1>2, <3>1 DEF Commit, TypeOK
    <3>2. CASE ~ Commit(r)
      BY <1>1, <1>2, <3>2, StepKinds, OthersStay
    <3> QED
      BY <3>1, <3>2
  <2>2. Touched(q)' = Touched(q)
    BY <1>1, <2>1, SameTouched
  <2> QED
    BY <1>1, <2>1, <2>2 DEF LockInv, Holds
<1>3. Holds(r)'
  <2>1. CASE Commit(r)
    <3>1. Emptied(r, "committed")
      BY <1>1, <2>1 DEF Commit, Emptied, TypeOK
    <3>2. req'[r].locks = {}
      BY <3>1, NothingCarried
    <3> QED
      BY <3>2 DEF Holds
  <2>2. CASE Forgets(r)
    <3>1. req'[r].locks = {}
      BY <2>2, NothingCarried DEF Forgets
    <3> QED
      BY <3>1 DEF Holds
  <2>3. CASE Reads(r)
    <3>1. req'[r].locks = req[r].locks /\ req[r].pc \notin Reading
      BY <2>3 DEF Reads, Reading
    <3> QED
      BY <1>1, <3>1 DEF Holds
  <2>4. ASSUME Keeps(r), req[r].pc \in Reading => req'[r].pc \in Reading,
               NEW lock \in Locks \ ({"schedule"} \X Schedules),
               req'[r].locks \subseteq req[r].locks \cup {lock},
               \A p \in Payments : lock = <<"payment", p>> => p = job[r].p
        PROVE  Holds(r)'
    <3>1. Touched(r)' = Touched(r)
      BY <1>1, <2>4, SameTouched DEF Keeps
    <3>2. \A s \in Schedules : <<"schedule", s>> \in req'[r].locks
                                  => <<"schedule", s>> \in req[r].locks
      BY <2>4
    <3> QED
      BY <1>1, <2>4, <3>1, <3>2 DEF Holds
  <2>5. ASSUME Keeps(r), req'[r].pc \in Reading, NEW s \in Touched(r),
               req'[r].locks = req[r].locks \cup {<<"schedule", s>>}
        PROVE  Holds(r)'
    <3>1. Touched(r)' = Touched(r)
      BY <1>1, <2>5, SameTouched DEF Keeps
    <3>2. \A p \in Payments : <<"payment", p>> \in req'[r].locks
                                 => <<"payment", p>> \in req[r].locks
      BY <2>5
    <3>3. \A t \in Schedules : <<"schedule", t>> \in req'[r].locks
                                  => <<"schedule", t>> \in req[r].locks \/ t = s
      BY <2>5
    <3> QED
      BY <1>1, <2>5, <3>1, <3>2, <3>3 DEF Holds
  <2> QED
    BY <2>1, <2>2, <2>3, <2>4, <2>5, LocksGrow
<1> QED
  BY <1>2, <1>3 DEF LockInv

\* How far down the order of locks a waiting request stands: the wallet, after
\* all schedules, is 0.
Distance(lock) == IF lock = WalletLock THEN 0 ELSE N + 1 - lock[2]

LEMMA CirclesShare ==
    ASSUME ConcurrentAssumption, TypeInv, LockInv
    PROVE  CirclesShareAPayment
<1> SUFFICES ASSUME NEW C \in SUBSET Requests, Circle(C),
                    \A r, q \in C : r # q => job[r].p # job[q].p
             PROVE  FALSE
  BY DEF CirclesShareAPayment
<1>1. \A r \in C : \E q \in C \ {r} : Needs(r) \cap req[q].locks # {}
  BY DEF Circle
<1>2. \A r \in C : job[r].p \in Payments /\ Holds(r) /\ OnItsWay(r)
  BY DEF TypeInv, TypeOK, Jobs, LockInv, WayInv
\* Nobody waits for a payment row: its holder would be a request of that payment.
<1>3. \A r \in C : <<"payment", job[r].p>> \notin Needs(r) \/
                   \E lock \in Needs(r) : lock # <<"payment", job[r].p>>
  <2> SUFFICES ASSUME NEW r \in C, \A lock \in Needs(r) : lock = <<"payment", job[r].p>>
               PROVE  FALSE
    OBVIOUS
  <2>1. PICK q \in C \ {r} : <<"payment", job[r].p>> \in req[q].locks
    BY <1>1
  <2>2. job[r].p = job[q].p
    BY <1>2, <2>1 DEF Holds
  <2> QED
    BY <2>1, <2>2
<1> DEFINE Waits(r) ==
      \/ /\ req[r].pc = "writing"
         /\ Needs(r) = {<<"schedule", s>> : s \in {t \in Touched(r) :
              \A u \in Touched(r) : <<"schedule", u>> \in req[r].locks <=> Before(r, u, t)}}
      \/ req[r].pc = "paying" /\ Needs(r) = {WalletLock}
<1>4. \A r \in C : Waits(r)
  <2> SUFFICES ASSUME NEW r \in C PROVE Waits(r)
    OBVIOUS
  <2>1. Needs(r) # {}
    BY <1>1
  <2>2. CASE req[r].pc = "writing"
    BY <2>2 DEF Needs
  <2>3. CASE req[r].pc = "paying"
    BY <2>3 DEF Needs, WalletLock
  <2>4. CASE req[r].pc \notin {"writing", "paying"}
    <3>1. Needs(r) = {<<"payment", job[r].p>>}
      BY <2>1, <2>4 DEF Needs
    <3> QED
      BY <1>3, <3>1
  <2> QED
    BY <2>2, <2>3, <2>4
<1>5. \A r \in C : \A lock \in Needs(r) : Distance(lock) \in Nat
  <2> SUFFICES ASSUME NEW r \in C, NEW lock \in Needs(r) PROVE Distance(lock) \in Nat
    OBVIOUS
  <2>1. lock = WalletLock \/ \E s \in Schedules : lock = <<"schedule", s>>
    BY <1>4 DEF Touched
  <2> QED
    BY <2>1 DEF Distance, Schedules, ConcurrentAssumption
<1> DEFINE T == {d \in Nat : \E r \in C : \E lock \in Needs(r) : d = Distance(lock)}
<1>6. \E d \in T : \A e \in T : ~ (e < d)
  <2>1. T # {}
    <3>1. PICK r \in C : TRUE
      BY DEF Circle
    <3>2. PICK lock \in Needs(r) : TRUE
      BY <1>1
    <3> QED
      BY <1>5, <3>2
  <2>2. T \subseteq Nat
    OBVIOUS
  <2> HIDE DEF T
  <2> QED
    BY <2>1, <2>2, LeastElement
<1>7. PICK d \in T : \A e \in T : ~ (e < d)
  BY <1>6
<1>8. PICK r \in C : \E lock \in Needs(r) : d = Distance(lock)
  BY <1>7
<1>9. PICK wanted \in Needs(r) : d = Distance(wanted)
  BY <1>8
<1>10. \A q \in C : \A lock \in Needs(q) : ~ (Distance(lock) < Distance(wanted))
  BY <1>5, <1>7, <1>9
<1> HIDE DEF T
<1>11. PICK q \in C \ {r} : wanted \in req[q].locks
  <2>1. \A lock \in Needs(r) : lock = wanted
    BY <1>4, <1>9 DEF Before, Touched, Schedules, ConcurrentAssumption
  <2> QED
    BY <1>1, <2>1
<1>12. PICK next \in Needs(q) : TRUE
  BY <1>1
<1>13. Waits(q) /\ Holds(q) /\ OnItsWay(q)
  BY <1>2, <1>4
<1>14. wanted # WalletLock
  BY <1>11, <1>13 DEF OnItsWay
<1>15. PICK s \in Schedules : wanted = <<"schedule", s>>
  BY <1>4, <1>14 DEF Touched
<1>16. s \in Touched(q)
  BY <1>11, <1>13, <1>15 DEF Holds
<1>17. CASE next = WalletLock
  BY <1>10, <1>15, <1>17 DEF Distance, WalletLock, Schedules, ConcurrentAssumption
<1>18. CASE next # WalletLock
  <2>1. PICK t \in Touched(q) :
           /\ next = <<"schedule", t>>
           /\ \A u \in Touched(q) : <<"schedule", u>> \in req[q].locks <=> Before(q, u, t)
    BY <1>12, <1>13, <1>18
  <2>2. s < t /\ t \in Schedules /\ s \in Schedules
    BY <1>11, <1>15, <1>16, <2>1 DEF Before, Touched
  <2>3. Distance(next) < Distance(wanted)
    BY <1>15, <2>1, <2>2 DEF Distance, WalletLock, Schedules, ConcurrentAssumption
  <2> QED
    BY <1>10, <1>12, <2>3
<1> QED
  BY <1>17, <1>18

\* No two requests for different payments of a lease wait for each other: with
\* the order in which rows are locked, a deadlock takes two requests for one
\* payment.
THEOREM OnlySharedPaymentsDeadlock == Spec => []CirclesShareAPayment
<1>1. Init => TypeInv /\ LockInv
  BY TypeInit, LockInit, ConcurrentAssumption
<1>2. TypeInv /\ LockInv /\ [Next]_vars => (TypeInv /\ LockInv)'
  <2> SUFFICES ASSUME TypeInv, LockInv, [Next]_vars PROVE (TypeInv /\ LockInv)'
    OBVIOUS
  <2>1. CASE Next
    BY <2>1, TypeStep, LockStep, ConcurrentAssumption DEF Next
  <2>2. CASE UNCHANGED vars
    <3>1. TypeInv'
      BY <2>2, TypeStutters
    <3>2. LockInv'
      <4>1. \A r \in Requests : Touched(r)' = Touched(r)
        BY <2>2 DEF vars, Touched, Computed, Op
      <4> QED
        BY <2>2, <4>1 DEF vars, LockInv, Holds
    <3> QED
      BY <3>1, <3>2
  <2> QED
    BY <2>1, <2>2
<1>3. TypeInv /\ LockInv => CirclesShareAPayment
  BY CirclesShare, ConcurrentAssumption
<1> QED
  BY <1>1, <1>2, <1>3, PTL DEF Spec

-----------------------------------------------------------------------------
(* Requests that do not overlap leave exact books.                         *)

LEMMA EntryInit ==
    ASSUME Init
    PROVE  EntryInv
BY DEF Init, EntryInv, NoRequest

\* How a step that commits nothing leads towards the commit.
LEMMA StepProgress ==
    ASSUME ConcurrentAssumption, TypeInv, NEW r \in Requests, Step(r), ~ Commit(r)
    PROVE  /\ UnderWay(r) /\ raced' = raced
           /\ \/ Forgets(r) \/ Reads(r)
              \/ /\ Keeps(r)
                 /\ req'[r].pc \in Reading /\ Op(r) # "cancel" => req[r].pc \in Reading
           /\ \/ /\ req'[r].pc = "posted" => req[r].pc = "posted" /\ req'[r].over = req[r].over
                 /\ req'[r].entry = req[r].entry \/ Forgets(r)
                 /\ seq' = seq
              \/ /\ seq' = seq + 1 /\ req'[r].over = req[r].over
                 /\ req'[r].entry = [seq |-> seq', balance |-> ledger.balance + Posting(r)]
<1>1. TypeOK /\ req[r] \in Transactions /\ OnItsWay(r)
  BY DEF TypeInv, TypeOK, WayInv
<1>2. CASE LockPayment(r)
  <2>1. PICK pc \in {"posted", "posting", "owner"} :
           /\ pc = "posted" <=> Op(r) = "confirm"
           /\ pc = "posting" <=> Op(r) = "cancel"
           /\ req'[r] = [req[r] EXCEPT !.locks = @ \cup {<<"payment", job[r].p>>}, !.pc = pc]
    BY <1>1, <1>2, LockPaymentMoves
  <2>2. /\ req'[r].pc = pc /\ req'[r].over = req[r].over /\ req'[r].entry = req[r].entry
        /\ req'[r].seen = req[r].seen /\ req'[r].part = req[r].part
        /\ req'[r].purse = req[r].purse
    BY <1>1, <2>1 DEF Transactions
  <2>3. /\ req[r].pc = IF Op(r) = "confirm" THEN "posted" ELSE "checked"
        /\ seq' = seq /\ raced' = raced
    BY <1>2 DEF LockPayment
  <2> QED
    BY <2>1, <2>2, <2>3 DEF Keeps, Reading, UnderWay
<1>3. CASE ReadSchedulesToPay(r)
  <2>1. PICK rem \in Leftovers(amount[job[r].p]) :
           req'[r] = [req[r] EXCEPT !.pc = "writing", !.seen = schedule, !.over = rem[N],
                                    !.part = [s \in Schedules |-> rem[s - 1] - rem[s]]]
    BY <1>1, <1>3, ReadSchedulesMoves
  <2>2. req'[r].pc = "writing" /\ req'[r].entry = req[r].entry
    BY <1>1, <2>1 DEF Transactions
  <2>3. ~ Forgets(r)
    BY <2>2, NothingCarried DEF Forgets
  <2>4. req[r].pc = "checked" /\ seq' = seq /\ raced' = raced
    BY <1>3 DEF ReadSchedulesToPay
  <2>5. Reads(r) \/ Keeps(r)
    BY <2>3, StepKinds
  <2>6. Reads(r)
    <3>1. req'[r].seen = schedule /\ req'[r].purse = req[r].purse /\ req'[r].locks = req[r].locks
          /\ req'[r].over = rem[N]
      BY <1>1, <2>1 DEF Transactions
    <3> DEFINE part == [s \in Schedules |-> rem[s - 1] - rem[s]]
    <3>2. req'[r].part = part
      <4> HIDE DEF part
      <4>1. req'[r] = [req[r] EXCEPT !.pc = "writing", !.seen = schedule, !.over = rem[N],
                                     !.part = part]
        BY <2>1 DEF part
      <4> QED
        BY <1>1, <4>1 DEF Transactions
    <3>3. Op(r) = "confirm"
      BY <1>3 DEF ReadSchedulesToPay
    <3> QED
      BY <2>2, <2>4, <3>1, <3>2, <3>3 DEF Reads
  <2> QED
    BY <2>2, <2>4, <2>6 DEF UnderWay
<1>4. CASE ReadAllocations(r)
  <2>1. PICK over \in Nat :
           req'[r] = [req[r] EXCEPT !.pc = "writing", !.seen = schedule,
                                    !.part = alloc[job[r].p], !.over = over]
    BY <1>1, <1>4, ReadAllocationsMoves
  <2>2. /\ req'[r].pc = "writing" /\ req'[r].entry = req[r].entry /\ req'[r].seen = schedule
        /\ req'[r].purse = req[r].purse /\ req'[r].locks = req[r].locks
        /\ req'[r].part = alloc[job[r].p]
    BY <1>1, <2>1 DEF Transactions
  <2>3. req[r].pc = "owner" /\ seq' = seq /\ raced' = raced
    BY <1>4 DEF ReadAllocations
  <2>4. Reads(r)
    BY <1>1, <2>2, <2>3 DEF Reads, OnItsWay
  <2> QED
    BY <2>2, <2>3, <2>4 DEF UnderWay
<1>5. CASE \E s \in Schedules : LockSchedule(r, s)
  <2>1. PICK s \in Schedules : LockSchedule(r, s)
    BY <1>5
  <2>2. req'[r] = [req[r] EXCEPT !.locks = @ \cup {<<"schedule", s>>}]
    BY <1>1, <2>1, LockScheduleMoves
  <2>3. /\ req'[r].pc = req[r].pc /\ req'[r].entry = req[r].entry /\ req'[r].seen = req[r].seen
        /\ req'[r].part = req[r].part /\ req'[r].purse = req[r].purse
    BY <1>1, <2>2 DEF Transactions
  <2>4. req[r].pc = "writing" /\ seq' = seq /\ raced' = raced
    BY <2>1 DEF LockSchedule
  <2> QED
    BY <2>3, <2>4 DEF Keeps, Reading, UnderWay
<1>6. CASE ReadWallet(r)
  <2>1. PICK pc \in {"paying", "posting"}, over \in Nat :
           req'[r] = [req[r] EXCEPT !.pc = pc, !.over = over,
                !.purse = [exists |-> wallet.exists, balance |-> wallet.balance]]
    BY <1>1, <1>6, ReadWalletMoves
  <2>2. /\ req'[r].pc = pc /\ req'[r].entry = req[r].entry /\ req'[r].seen = req[r].seen
        /\ req'[r].part = req[r].part /\ req'[r].purse.balance = wallet.balance
    BY <1>1, <2>1 DEF Transactions
  <2>3. req[r].pc = "writing" /\ seq' = seq /\ raced' = raced
    BY <1>6 DEF ReadWallet
  <2> QED
    BY <2>2, <2>3 DEF Keeps, Reading, UnderWay
<1>7. CASE LockWallet(r)
  <2>1. req'[r] = [req[r] EXCEPT !.pc = "posting", !.locks = @ \cup {WalletLock}]
    BY <1>1, <1>7, LockWalletMoves
  <2>2. /\ req'[r].pc = "posting" /\ req'[r].entry = req[r].entry /\ req'[r].seen = req[r].seen
        /\ req'[r].part = req[r].part /\ req'[r].purse = req[r].purse
    BY <1>1, <2>1 DEF Transactions
  <2>3. req[r].pc = "paying" /\ seq' = seq /\ raced' = raced
    BY <1>7 DEF LockWallet
  <2> QED
    BY <2>2, <2>3 DEF Keeps, Reading, UnderWay
<1>8. CASE WalletConflict(r)
  <2>1. Forgets(r)
    BY <1>1, <1>8, FailsMoves DEF Forgets, Emptied
  <2>2. req'[r].pc = "failed"
    BY <2>1, NothingCarried DEF Forgets
  <2>3. req[r].pc = "paying" /\ seq' = seq /\ raced' = raced
    BY <1>8 DEF WalletConflict
  <2> QED
    BY <2>1, <2>2, <2>3 DEF UnderWay
<1>9. CASE AbortVictim(r)
  <2>1. Forgets(r)
    BY <1>1, <1>9, FailsMoves DEF Forgets, Emptied
  <2>2. req'[r].pc = "failed"
    BY <2>1, NothingCarried DEF Forgets
  <2>3. UnderWay(r)
    <3>1. Needs(r) # {}
      BY <1>9 DEF AbortVictim, Circle
    <3> QED
      BY <3>1 DEF Needs, UnderWay
  <2>4. seq' = seq /\ raced' = raced
    BY <1>9 DEF AbortVictim
  <2> QED
    BY <2>1, <2>2, <2>3, <2>4
<1>10. CASE PostLedger(r)
  <2> DEFINE entry == [seq |-> seq + 1, balance |-> ledger.balance + Posting(r)]
  <2>1. req'[r] = [req[r] EXCEPT !.pc = "posted", !.entry = entry]
    BY <1>1, <1>10, PostLedgerMoves
  <2>2. req[r].pc = "posting" /\ seq' = seq + 1 /\ raced' = raced
    BY <1>10 DEF PostLedger
  <2>3. entry = [seq |-> seq', balance |-> ledger.balance + Posting(r)]
    BY <2>2
  <2> HIDE DEF entry
  <2>4. /\ req'[r].pc = "posted" /\ req'[r].entry = entry /\ req'[r].seen = req[r].seen
        /\ req'[r].part = req[r].part /\ req'[r].purse = req[r].purse
        /\ req'[r].over = req[r].over
    BY <1>1, <2>1 DEF Transactions
  <2> QED
    BY <2>2, <2>3, <2>4 DEF Keeps, Reading, UnderWay
<1> QED
  BY <1>2, <1>3, <1>4, <1>5, <1>6, <1>7, <1>8, <1>9, <1>10 DEF Step

LEMMA EntryStep ==
    ASSUME ConcurrentAssumption, TypeInv, EntryInv, NEW r \in Requests,
           CheckStatus(r) \/ Step(r)
    PROVE  EntryInv'
<1>1. TypeOK /\ seq \in Nat /\ ledger.seq \in Nat /\ \A q \in Requests : req[q].entry.seq \in Nat
  BY SeqType DEF TypeInv, TypeOK, Transactions
<1> DEFINE Good(q) == /\ req[q].entry.seq <= seq
                      /\ Op(q) = "cancel" => \A s \in Schedules : req[q].part[s] = 0
<1>2. ledger.seq <= seq /\ \A q \in Requests : Good(q)
  BY DEF EntryInv
<1>3. CASE CheckStatus(r)
  <2>1. Local(r) /\ req'[r] = [req[r] EXCEPT !.pc = "checked"] /\ seq' = seq
    BY <1>1, <1>3, CheckStatusMoves DEF CheckStatus
  <2>2. req'[r].entry = req[r].entry /\ req'[r].part = req[r].part
    BY <1>1, <2>1 DEF TypeOK, Transactions
  <2>3. job' = job /\ ledger' = ledger
    BY <2>1 DEF Local
  <2>4. ASSUME NEW q \in Requests PROVE Good(q)'
    <3>1. req'[q].entry = req[q].entry /\ req'[q].part = req[q].part
      BY <1>1, <2>1, <2>2, OthersStay
    <3> QED
      BY <1>2, <2>1, <2>3, <3>1 DEF Op
  <2> QED
    BY <1>2, <2>1, <2>3, <2>4 DEF EntryInv
<1>4. CASE Step(r) /\ ~ Commit(r)
  <2>1. Local(r) /\ job' = job /\ ledger' = ledger
    BY <1>4, StepKinds DEF Local
  <2>2. seq <= seq' /\ seq' \in Nat /\ req'[r].entry.seq <= seq'
    <3>1. CASE seq' = seq /\ req'[r].entry = req[r].entry
      BY <1>1, <1>2, <3>1
    <3>2. CASE seq' = seq /\ Forgets(r)
      <4>1. req'[r].entry.seq = 0
        BY <3>2, NothingCarried DEF Forgets
      <4> QED
        BY <1>1, <3>2, <4>1
    <3>3. CASE /\ seq' = seq + 1
               /\ req'[r].entry = [seq |-> seq', balance |-> ledger.balance + Posting(r)]
      <4>1. req'[r].entry.seq = seq'
        BY <3>3
      <4> QED
        BY <1>1, <3>3, <4>1
    <3> QED
      BY <1>4, <3>1, <3>2, <3>3, StepProgress
  <2>3. ASSUME Op(r) = "cancel", NEW s \in Schedules PROVE req'[r].part[s] = 0
    <3>1. ~ Reads(r)
      BY <2>3 DEF Reads
    <3>2. CASE Forgets(r)
      BY <3>2, NothingCarried DEF Forgets
    <3>3. CASE Keeps(r)
      BY <1>2, <2>3, <3>3 DEF Keeps
    <3> QED
      BY <1>4, <3>1, <3>2, <3>3, StepKinds
  <2>4. Good(r)'
    BY <2>1, <2>2, <2>3 DEF Op
  <2>5. ASSUME NEW q \in Requests, q # r PROVE Good(q)'
    <3>1. req'[q] = req[q]
      BY <1>1, <2>1, <2>5, OthersStay
    <3>2. req[q].entry.seq <= seq'
      BY <1>1, <1>2, <2>2
    <3> QED
      BY <1>2, <2>1, <3>1, <3>2 DEF Op
  <2>6. ledger.seq <= seq'
    BY <1>1, <1>2, <2>2
  <2> QED
    BY <2>1, <2>4, <2>5, <2>6 DEF EntryInv
<1>5. CASE Commit(r)
  <2>1. Emptied(r, "committed") /\ \A q \in Requests \ {r} : req'[q] = req[q]
    BY <1>1, <1>5 DEF Commit, TypeOK, Emptied
  <2>2. /\ job' = job /\ seq' = seq
        /\ ledger' = [sum |-> ledger.sum + Posting(r),
                      seq |-> Max2(ledger.seq, req[r].entry.seq),
                      balance |-> IF req[r].entry.seq > ledger.seq THEN req[r].entry.balance
                                                                   ELSE ledger.balance]
    BY <1>5 DEF Commit
  <2>3. ledger'.seq <= seq'
    BY <1>1, <1>2, <2>2 DEF Max2
  <2>4. Good(r)'
    <3>1. req'[r].entry.seq = 0 /\ \A s \in Schedules : req'[r].part[s] = 0
      BY <2>1, NothingCarried
    <3> QED
      BY <1>1, <2>2, <3>1
  <2>5. \A q \in Requests \ {r} : Good(q)'
    BY <1>2, <2>1, <2>2 DEF Op
  <2> QED
    BY <2>3, <2>4, <2>5 DEF EntryInv
<1> QED
  BY <1>3, <1>4, <1>5 DEF Step

LEMMA StandingSums ==
    ASSUME ConcurrentAssumption, TypeOK, NEW s \in Schedules
    PROVE  /\ SumFunctionOnSet(StandingShare(s), Payments) \in Nat
           /\ \A p \in Payments :
                /\ StandingShare(s)[p] = IF status[p] = "completed" THEN alloc[p][s] ELSE 0
                /\ StandingShare(s)[p] \in Nat
                /\ StandingShare(s)[p] <= SumFunctionOnSet(StandingShare(s), Payments)
<1>1. IsFiniteSet(Payments)
  BY DEF ConcurrentAssumption
<1>2. \A p \in Payments : StandingShare(s)[p] = IF status[p] = "completed" THEN alloc[p][s] ELSE 0
  BY DEF StandingShare, Standing
<1>3. \A p \in Payments : StandingShare(s)[p] \in Nat
  BY <1>2 DEF TypeOK
<1>4. SumFunctionOnSet(StandingShare(s), Payments) \in Nat
  BY <1>1, <1>3, SumNat
<1>5. \A p \in Payments : StandingShare(s)[p] <= SumFunctionOnSet(StandingShare(s), Payments)
  BY <1>1, <1>3, SumPart
<1> QED
  BY <1>2, <1>3, <1>4, <1>5

\* Which status a check that still holds was made on.
LEMMA AdmittedStatus ==
    ASSUME NEW op \in {"confirm", "refund", "reject", "cancel"},
           NEW st \in {"pending", "completed", "refunded", "rejected", "cancelled"},
           Admits(op, st)
    PROVE  st = IF op = "refund" THEN "completed" ELSE "pending"
BY DEF Admits, Confirmable, SuccessfulTerminal, RejectableByStaff, InProgress, Terminal,
       FailedTerminal, HumanTerminal, CancellableByTenant, Statuses

LEMMA SerialInit ==
    ASSUME ConcurrentAssumption, Init
    PROVE  SerialInv
<1>1. TypeOK
  BY TypeInit DEF TypeInv
<1>2. \A r \in Requests : req[r].pc = "idle"
  BY DEF Init, NoRequest
<1>3. \A r \in Requests : ~ UnderWay(r) /\ Faithful(r)
  BY <1>2 DEF UnderWay, Faithful, Reading
<1>4. \A p \in Payments : status[p] = "pending" /\ \A s \in Schedules : alloc[p][s] = 0
  BY DEF Init
<1>5. \A p \in Payments : Booked(p)
  <2> SUFFICES ASSUME NEW p \in Payments PROVE Booked(p)
    OBVIOUS
  <2>1. IsFiniteSet(Schedules)
    BY FS_Interval DEF ConcurrentAssumption, Schedules
  <2>2. Total(alloc[p]) = 0
    BY <1>4, <2>1, SumZero DEF Total
  <2>3. amount[p] \in Nat
    BY <1>1 DEF TypeOK, ConcurrentAssumption
  <2> QED
    BY <1>4, <2>2, <2>3 DEF Booked
<1>6. ASSUME NEW s \in Schedules
      PROVE  schedule[s].paid = SumFunctionOnSet(StandingShare(s), Payments)
  <2>1. \A p \in Payments : StandingShare(s)[p] = 0
    BY <1>1, <1>4, StandingSums
  <2>2. SumFunctionOnSet(StandingShare(s), Payments) = 0
    BY <2>1, SumZero DEF ConcurrentAssumption
  <2>3. schedule[s].paid = 0
    BY DEF Init
  <2> QED
    BY <2>2, <2>3
<1>7. ledger.balance = ledger.sum
  BY DEF Init
<1> QED
  BY <1>3, <1>5, <1>6, <1>7 DEF SerialInv, ExactBooks

\* A step that commits nothing.
LEMMA SerialLocalStep ==
    ASSUME ConcurrentAssumption, TypeInv, EntryInv, SerialInv, ~ raced', NEW r \in Requests,
           CheckStatus(r) \/ (Step(r) /\ ~ Commit(r))
    PROVE  SerialInv'
<1>1. TypeOK /\ TypeInv' /\ Local(r)
  BY TypeStep, StepKinds DEF TypeInv, Step, CheckStatus, Commit
<1>2. /\ job' = job /\ status' = status /\ amount' = amount /\ schedule' = schedule
      /\ alloc' = alloc /\ ledger' = ledger
  BY <1>1 DEF Local
<1>3. ~ raced
  BY StepProgress DEF CheckStatus
<1>4. /\ \A a, b \in Requests : UnderWay(a) /\ UnderWay(b) => a = b
      /\ \A q \in Requests : Faithful(q)
      /\ ExactBooks
  BY <1>3 DEF SerialInv
<1>5. ExactBooks'
  BY <1>2, <1>4 DEF ExactBooks, Booked, StandingShare, Standing, Total
<1>6. \A q \in Requests \ {r} : req'[q] = req[q] /\ ~ UnderWay(q)
  <2>1. \A q \in Requests \ {r} : req'[q] = req[q]
    BY <1>1, OthersStay
  <2>2. CASE CheckStatus(r)
    BY <2>1, <2>2 DEF CheckStatus
  <2>3. CASE Step(r) /\ ~ Commit(r)
    BY <1>4, <2>1, <2>3, StepProgress
  <2> QED
    BY <2>2, <2>3
<1>7. \A q \in Requests \ {r} : ~ UnderWay(q)' /\ Faithful(q)'
  BY <1>6 DEF UnderWay, Faithful, Reading
<1>8. \A a, b \in Requests : UnderWay(a)' /\ UnderWay(b)' => a = b
  BY <1>7
<1>9. Faithful(r)'
  <2> DEFINE p == job[r].p
  <2>1. CASE CheckStatus(r)
    <3>1. req'[r].pc = "checked" /\ Admits(Op(r), status[p])
      BY <1>1, <2>1, CheckStatusMoves DEF CheckStatus, TypeOK, Transactions
    <3> QED
      BY <1>2, <3>1 DEF Faithful, Reading, Op
  <2>2. CASE Step(r) /\ ~ Commit(r)
    <3>1. UnderWay(r) /\ Admits(Op(r), status[p]) /\ Faithful(r)
      BY <1>4, <2>2, StepProgress DEF Faithful
    <3>2. ASSUME req'[r].pc \in Reading, Op(r) # "cancel"
          PROVE  /\ req'[r].seen = schedule
                 /\ IF Op(r) = "confirm" THEN Total(req'[r].part) <= amount[p]
                                         ELSE req'[r].part = alloc[p]
      <4>1. CASE Reads(r)
        <5>1. CASE Op(r) = "confirm"
          <6>1. PICK rem \in Leftovers(amount[p]) :
                   req'[r].part = [s \in Schedules |-> rem[s - 1] - rem[s]]
            BY <4>1, <5>1 DEF Reads
          <6>2. amount[p] \in Nat
            BY <1>1 DEF TypeOK, Jobs, ConcurrentAssumption
          <6>3. rem[N] \in Nat
            BY <1>1, <6>2, LeftoversGive DEF ConcurrentAssumption
          <6>4. Total([s \in Schedules |-> rem[s - 1] - rem[s]]) = amount[p] - rem[N]
            BY <1>1, <6>2, PartsTotal
          <6>5. Total(req'[r].part) = amount[p] - rem[N]
            BY <6>1, <6>4
          <6>6. Total(req'[r].part) <= amount[p]
            BY <6>2, <6>3, <6>5
          <6> QED
            BY <4>1, <5>1, <6>6 DEF Reads
        <5>2. CASE Op(r) # "confirm"
          BY <4>1, <5>2 DEF Reads
        <5> QED
          BY <5>1, <5>2
      <4>2. CASE Forgets(r)
        <5>1. req'[r].pc = "failed"
          BY <4>2, NothingCarried DEF Forgets
        <5> QED
          BY <3>2, <5>1 DEF Reading
      <4>3. CASE Keeps(r) /\ req[r].pc \in Reading
        BY <3>1, <3>2, <4>3 DEF Keeps, Faithful
      <4> QED
        BY <2>2, <3>2, <4>1, <4>2, <4>3, StepProgress
    <3>3. ASSUME req'[r].pc = "posted"
          PROVE  /\ req'[r].entry.balance = ledger.balance + Posting(r)'
                 /\ req'[r].entry.seq > ledger.seq
      <4>1. CASE /\ seq' = seq + 1 /\ req'[r].over = req[r].over
                 /\ req'[r].entry = [seq |-> seq', balance |-> ledger.balance + Posting(r)]
        <5>1. Posting(r)' = Posting(r)
          BY <1>2, <4>1 DEF Posting, Op
        <5>2. /\ req'[r].entry.seq = seq + 1
              /\ req'[r].entry.balance = ledger.balance + Posting(r)
          BY <4>1
        <5>3. seq \in Nat /\ ledger.seq \in Nat /\ ledger.seq <= seq
          BY <1>1, SeqType DEF TypeOK, EntryInv
        <5> QED
          BY <5>1, <5>2, <5>3
      <4>2. CASE /\ req[r].pc = "posted" /\ req'[r].over = req[r].over
                 /\ req'[r].entry = req[r].entry
        <5>1. Posting(r)' = Posting(r)
          BY <1>2, <4>2 DEF Posting, Op
        <5> QED
          BY <3>1, <4>2, <5>1 DEF Faithful
      <4>3. ~ Forgets(r)
        <5>1. Forgets(r) => req'[r].pc = "failed"
          BY NothingCarried DEF Forgets
        <5> QED
          BY <3>3, <5>1
      <4> QED
        BY <2>2, <3>3, <4>1, <4>2, <4>3, StepProgress
    <3> QED
      BY <1>2, <3>1, <3>2, <3>3 DEF Faithful, Op, Total
  <2> QED
    BY <2>1, <2>2
<1> QED
  BY <1>5, <1>7, <1>8, <1>9 DEF SerialInv

\* The commit of a request that nothing overlapped.
LEMMA SerialCommit ==
    ASSUME ConcurrentAssumption, TypeInv, EntryInv, SerialInv, ~ raced,
           NEW r \in Requests, Commit(r)
    PROVE  ExactBooks'
<1> DEFINE p == job[r].p
           op == Op(r)
           part == req[r].part
<1>1. /\ TypeOK /\ p \in Payments /\ part \in [Schedules -> Nat]
      /\ op \in {"confirm", "refund", "reject", "cancel"}
      /\ alloc \in [Payments -> [Schedules -> Nat]] /\ status \in [Payments -> Statuses]
      /\ req[r].pc = "posted" /\ amount' = amount
  BY DEF TypeInv, TypeOK, Jobs, Transactions, Commit, Op
<1>2. UnderWay(r) /\ Faithful(r) /\ ExactBooks
  BY <1>1 DEF SerialInv, UnderWay
<1>3. status[p] = IF op = "refund" THEN "completed" ELSE "pending"
  <2>1. status[p] \in {"pending", "completed", "refunded", "rejected", "cancelled"}
    BY <1>1, <1>2 DEF ExactBooks, Booked
  <2>2. Admits(op, status[p])
    BY <1>2 DEF Faithful
  <2> HIDE DEF p, op
  <2> QED
    BY <1>1, <2>1, <2>2, AdmittedStatus
<1>4. /\ op # "refund" => \A s \in Schedules : alloc[p][s] = 0
      /\ op \in {"refund", "reject"} => part = alloc[p]
      /\ op = "confirm" => Total(part) <= amount[p]
      /\ op # "cancel" => req[r].seen = schedule
      /\ op = "cancel" => \A s \in Schedules : part[s] = 0
  BY <1>1, <1>2, <1>3 DEF ExactBooks, Booked, Faithful, Reading, EntryInv
<1>5. /\ status' = [status EXCEPT ![p] = Final[op]]
      /\ alloc' = [alloc EXCEPT ![p] = IF op = "confirm"
                     THEN [s \in Schedules |-> alloc[p][s] + part[s]] ELSE alloc[p]]
  BY <1>1 DEF Commit, AllocAfter
<1>6. alloc'[p] = IF op = "confirm" THEN part ELSE alloc[p]
  <2>1. CASE op = "confirm"
    <3>1. alloc'[p] = [s \in Schedules |-> alloc[p][s] + part[s]]
      BY <1>1, <1>5, <2>1
    <3>2. \A s \in Schedules : alloc[p][s] + part[s] = part[s]
      BY <1>1, <1>4, <2>1
    <3>3. alloc'[p] = [s \in Schedules |-> part[s]]
      BY <3>1, <3>2
    <3>4. part = [s \in Schedules |-> part[s]]
      BY <1>1
    <3> QED
      BY <2>1, <3>3, <3>4
  <2>2. CASE op # "confirm"
    BY <1>1, <1>5, <2>2
  <2> QED
    BY <2>1, <2>2
<1>7. /\ status'[p] = Final[op]
      /\ \A q \in Payments \ {p} : status'[q] = status[q] /\ alloc'[q] = alloc[q]
  BY <1>1, <1>5
<1>8. \A q \in Payments : Booked(q)'
  <2> SUFFICES ASSUME NEW q \in Payments PROVE Booked(q)'
    OBVIOUS
  <2>1. CASE q # p
    BY <1>1, <1>2, <1>7, <2>1 DEF ExactBooks, Booked, Total
  <2>2. CASE q = p
    <3>1. Total(alloc'[p]) <= amount[p]
      BY <1>1, <1>2, <1>4, <1>6 DEF ExactBooks, Booked
    <3>2. /\ status'[p] \in {"completed", "refunded", "rejected", "cancelled"}
          /\ status'[p] \notin {"completed", "refunded"} => op \in {"reject", "cancel"}
      BY <1>1, <1>7 DEF Final
    <3>3. op \in {"reject", "cancel"} => \A s \in Schedules : alloc'[p][s] = 0
      BY <1>4, <1>6
    <3> HIDE DEF p, op
    <3> QED
      BY <1>1, <2>2, <3>1, <3>2, <3>3 DEF Booked, Total
  <2> QED
    BY <2>1, <2>2
<1>9. ASSUME NEW s \in Schedules
      PROVE  (schedule[s].paid = SumFunctionOnSet(StandingShare(s), Payments))'
  <2> DEFINE f == StandingShare(s)
             g == [q \in Payments |-> IF status'[q] = "completed" THEN alloc'[q][s] ELSE 0]
             old == SumFunctionOnSet(f, Payments)
  <2>1. StandingShare(s)' = g
    BY DEF StandingShare, Standing
  <2>2. /\ old \in Nat /\ f[p] \in Nat /\ f[p] <= old /\ schedule[s].paid = old
        /\ f[p] = IF status[p] = "completed" THEN alloc[p][s] ELSE 0
    BY <1>1, <1>2, StandingSums DEF ExactBooks
  <2>3. Ints(f, Payments)
    BY <1>1, StandingSums DEF Ints
  <2>4. \A q \in Payments \ {p} : g[q] = f[q]
    BY <1>1, <1>7, StandingSums
  <2>5. g[p] = IF op = "confirm" THEN part[s] ELSE 0
    BY <1>1, <1>6, <1>7 DEF Final
  <2>6. f[p] = IF op = "refund" THEN part[s] ELSE 0
    BY <1>1, <1>3, <1>4, <2>2
  <2>7. part[s] \in Nat /\ op \in {"reject", "cancel"} => part[s] = 0
    BY <1>1, <1>4
  <2>8. g[p] \in Int
    BY <1>1, <2>5
  <2>9. SumFunctionOnSet(g, Payments) = old + (g[p] - f[p])
    <3> HIDE DEF f, g, p
    <3> QED
      BY <1>1, <2>3, <2>4, <2>8, SumChangeOne DEF ConcurrentAssumption
  <2>10. schedule'[s].paid = old + (g[p] - f[p])
    <3>1. schedule'[s] = IF s \in Touched(r) THEN Updated(r, s) ELSE schedule[s]
      BY DEF Commit
    <3>2. s \in Touched(r) <=> Computed(r, s) # req[r].seen[s]
      BY DEF Touched
    <3>3. CASE op = "cancel"
      <4>1. Computed(r, s) = req[r].seen[s]
        BY <1>4, <3>3 DEF Computed
      <4> QED
        BY <2>2, <2>5, <2>6, <3>1, <3>2, <3>3, <4>1
    <3>4. CASE op # "cancel"
      <4> DEFINE row == schedule[s]
      <4>1. req[r].seen[s] = row /\ row.paid \in Nat
        BY <1>1, <1>4, <3>4 DEF TypeOK, ScheduleRows
      <4>2. schedule'[s].paid = Computed(r, s).paid
        BY <1>1, <3>1, <3>2, <4>1, UpdatedRow
      <4>3. Computed(r, s).paid = CASE part[s] = 0 -> row.paid
                                    [] part[s] > 0 /\ op = "confirm" -> row.paid + part[s]
                                    [] OTHER -> Max2(0, row.paid - part[s])
        BY <1>1, <4>1 DEF Computed
      <4>4. part[s] \in Nat
        BY <1>1
      <4>5. CASE op = "confirm"
        <5>1. Computed(r, s).paid = row.paid + part[s]
          BY <4>1, <4>3, <4>4, <4>5
        <5>2. g[p] = part[s] /\ f[p] = 0
          BY <2>5, <2>6, <4>5
        <5> HIDE DEF f, g, p, op, part, row, old
        <5> QED
          BY <2>2, <4>2, <4>4, <5>1, <5>2 DEF row
      <4>6. CASE op = "refund"
        <5>1. g[p] = 0 /\ f[p] = part[s]
          BY <2>5, <2>6, <4>6
        <5>2. Computed(r, s).paid = row.paid - part[s]
          BY <2>2, <4>1, <4>3, <4>4, <4>6, <5>1 DEF Max2
        <5> HIDE DEF f, g, p, op, part, row, old
        <5> QED
          BY <2>2, <4>2, <4>4, <5>1, <5>2 DEF row
      <4>7. CASE op = "reject"
        <5>1. g[p] = 0 /\ f[p] = 0 /\ part[s] = 0
          BY <2>5, <2>6, <2>7, <4>4, <4>7
        <5>2. Computed(r, s).paid = row.paid
          BY <4>3, <5>1
        <5> HIDE DEF f, g, p, op, part, row, old
        <5> QED
          BY <2>2, <4>2, <5>1, <5>2 DEF row
      <4> QED
        BY <1>1, <3>4, <4>5, <4>6, <4>7
    <3> QED
      BY <3>3, <3>4
  <2> QED
    BY <2>1, <2>9, <2>10
<1>10. (ledger.balance = ledger.sum)'
  <2>1. /\ req[r].entry.balance = ledger.balance + Posting(r)
        /\ req[r].entry.seq > ledger.seq /\ ledger.balance = ledger.sum
    BY <1>1, <1>2 DEF Faithful, ExactBooks
  <2>2. ledger' = [sum |-> ledger.sum + Posting(r),
                   seq |-> Max2(ledger.seq, req[r].entry.seq),
                   balance |-> IF req[r].entry.seq > ledger.seq THEN req[r].entry.balance
                                                                ELSE ledger.balance]
    BY DEF Commit
  <2> QED
    BY <2>1, <2>2
<1> QED
  BY <1>8, <1>9, <1>10 DEF ExactBooks

LEMMA SerialStep ==
    ASSUME ConcurrentAssumption, TypeInv, EntryInv, SerialInv, NEW r \in Requests,
           CheckStatus(r) \/ Step(r)
    PROVE  SerialInv'
<1>1. CASE raced'
  BY <1>1 DEF SerialInv
<1>2. CASE ~ raced' /\ ~ Commit(r)
  BY <1>2, SerialLocalStep
<1>3. CASE ~ raced' /\ Commit(r)
  <2>1. ~ raced /\ TypeOK /\ req[r].pc = "posted"
    BY <1>3 DEF Commit, TypeInv
  <2>2. Emptied(r, "committed") /\ \A q \in Requests \ {r} : req'[q] = req[q]
    BY <1>3, <2>1 DEF Commit, TypeOK, Emptied
  <2>3. req'[r].pc = "committed"
    BY <2>2, NothingCarried
  <2>4. \A q \in Requests \ {r} : ~ UnderWay(q)
    BY <2>1 DEF SerialInv, UnderWay
  <2>5. \A q \in Requests : req'[q].pc \in {"idle", "committed", "failed"}
    BY <2>2, <2>3, <2>4 DEF UnderWay
  <2>6. \A q \in Requests : ~ UnderWay(q)' /\ Faithful(q)'
    BY <2>5 DEF UnderWay, Faithful, Reading
  <2>7. ExactBooks'
    BY <1>3, <2>1, SerialCommit
  <2> QED
    BY <2>6, <2>7 DEF SerialInv
<1> QED
  BY <1>1, <1>2, <1>3

\* Requests that do not overlap leave exact books, whatever they are and in
\* whatever order: schedules, ledger and allocations follow the payments that stand.
THEOREM SerialBooksAreExact == Spec => []SerialRequestsAreExact
<1>1. Init => TypeInv /\ EntryInv /\ SerialInv
  BY TypeInit, EntryInit, SerialInit, ConcurrentAssumption
<1>2. TypeInv /\ EntryInv /\ SerialInv /\ [Next]_vars => (TypeInv /\ EntryInv /\ SerialInv)'
  <2> SUFFICES ASSUME TypeInv, EntryInv, SerialInv, [Next]_vars
               PROVE  (TypeInv /\ EntryInv /\ SerialInv)'
    OBVIOUS
  <2>1. CASE Next
    BY <2>1, TypeStep, EntryStep, SerialStep, ConcurrentAssumption DEF Next
  <2>2. CASE UNCHANGED vars
    <3>1. (TypeInv /\ EntryInv)'
      <4>1. EntryInv'
        BY <2>2 DEF vars, EntryInv, Op
      <4> QED
        BY <2>2, <4>1, TypeStutters
    <3>2. ExactBooks' <=> ExactBooks
      BY <2>2 DEF vars, ExactBooks, Booked, StandingShare, Standing, Total
    <3>3. \A q \in Requests : (UnderWay(q)' <=> UnderWay(q)) /\ (Faithful(q)' <=> Faithful(q))
      BY <2>2 DEF vars, UnderWay, Faithful, Posting, Op, Total
    <3> QED
      BY <2>2, <3>1, <3>2, <3>3 DEF vars, SerialInv
  <2> QED
    BY <2>1, <2>2
<1>3. SerialInv => SerialRequestsAreExact
  BY DEF SerialInv, SerialRequestsAreExact, ExactBooks, Booked, Standing
<1> QED
  BY <1>1, <1>2, <1>3, PTL DEF Spec
=============================================================================
