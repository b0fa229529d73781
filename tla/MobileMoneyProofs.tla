------------------------- MODULE MobileMoneyProofs -------------------------
(***************************************************************************)
(* What is booked of the money that came in, proved for every number of    *)
(* pushes, servers, poll tasks, leases and crashes.  The argument is about *)
(* what a job knows of a row: a row it writes it has locked before it is   *)
(* matched, and a row it has not locked was received, and so booked,       *)
(* before the job read it.                                                 *)
(***************************************************************************)
EXTENDS MobileMoney, TLAPS

\* What a job writes it locks, and a row is locked by one job at a time.
LockedOnce ==
    \A v, w \in Workers : v # w => job[v].held \cap job[w].held = {}

\* What job j knows of row x.
Knows(j, x) ==
    /\ x \in j.written => j.own[x] # "unread"
    /\ x \in j.todo => j.own[x] = "received" /\ j.pc = "matching"
    /\ j.own[x] = "matched" => j.paid[x] # 0
    \* received: booked already, unless the job will match it or locks it first
    /\ j.own[x] = "received" =>
         /\ j.pc = "matching" /\ x \notin j.todo => Bookings(x) # {}
         /\ x \notin j.locking => Bookings(x) # {}

\* What job j is about to book, or to leave received.
Books(j, x) ==
    /\ j.paid[x] # 0 =>
         /\ j.own[x] = "matched" /\ j.pc = "matching"
         /\ j.paid[x] <= started /\ x \in j.written
         /\ started <= 1 => x \in j.held /\ booked[x][1] = 0
    /\ j.own[x] = "received" /\ j.pc = "matching" /\ x \in j.written /\ x \notin j.todo =>
         x \in j.held /\ (started # 0 => booked[x][started] <= 1)

\* Nothing is booked ahead, and a received row was booked once on the latest lease.
BooksInv ==
    /\ \A x \in Txns : \A l \in 1..Leases : l > started => booked[x][l] = 0
    /\ \A x \in Txns : txn[x] = "received" /\ started # 0 => booked[x][started] <= 1

MoneyInv ==
    /\ TypeOK /\ LockedOnce /\ BooksInv
    /\ \A w \in Workers, x \in Txns : Knows(job[w], x) /\ Books(job[w], x)
    /\ ReceivedIsBooked /\ BookedOncePerLease

-----------------------------------------------------------------------------
(* Jobs that have begun and ended. *)

LEMMA IdleJob ==
    /\ Idle \in Jobs /\ Idle.held = {} /\ Idle.written = {} /\ Idle.locking = {}
    /\ Idle.todo = {} /\ Idle.pc = "idle" /\ \A x \in Txns : Idle.own[x] = "unread"
    /\ \A x \in Txns : Idle.paid[x] = 0
<1> DEFINE own  == [x \in Txns |-> "unread"]
           paid == [x \in Txns |-> 0]
<1>1. own \in [Txns -> RowStatuses \cup {"unread", "new"}]
  OBVIOUS
<1>2. paid \in [Txns -> 0..Leases]
  BY MobileMoneyAssumption
<1>3. Idle = [pc |-> "idle", own |-> own, locking |-> {}, held |-> {},
              written |-> {}, todo |-> {}, paid |-> paid]
  BY DEF Idle
<1>4. (\A x \in Txns : own[x] = "unread") /\ (\A x \in Txns : paid[x] = 0)
  OBVIOUS
<1> HIDE DEF own, paid
<1> QED
  BY <1>1, <1>2, <1>3, <1>4 DEF Jobs

\* A job as a webhook or a match by hand begins it.
Begun(x, status, todo, locking, written) ==
    [Idle EXCEPT !.pc = "matching", !.own[x] = status, !.todo = todo,
                 !.locking = locking, !.written = written]

LEMMA BegunJob ==
    ASSUME NEW x \in Txns, NEW status, NEW todo, NEW locking, NEW written, NEW new,
           status \in RowStatuses \cup {"new"},
           todo \subseteq {x}, locking \subseteq {x}, written \subseteq locking,
           new = Begun(x, status, todo, locking, written)
    PROVE  /\ new \in Jobs /\ new.pc = "matching" /\ new.held = {} /\ new.todo = todo
           /\ new.locking = locking /\ new.written = written
           /\ \A y \in Txns : new.own[y] = IF y = x THEN status ELSE "unread"
           /\ \A y \in Txns : new.paid[y] = 0
<1> DEFINE own == [Idle.own EXCEPT ![x] = status]
<1>1. Idle \in Jobs /\ Idle.held = {} /\ \A y \in Txns : Idle.own[y] = "unread" /\ Idle.paid[y] = 0
  BY IdleJob
<1>2. own \in [Txns -> RowStatuses \cup {"unread", "new"}]
  BY <1>1 DEF Jobs
<1>3. \A y \in Txns : own[y] = IF y = x THEN status ELSE "unread"
  BY <1>1 DEF Jobs
<1>4. new = [Idle EXCEPT !.pc = "matching", !.own = own, !.todo = todo,
                         !.locking = locking, !.written = written]
  BY DEF Begun
<1> HIDE DEF own
<1>5. /\ new.pc = "matching" /\ new.held = Idle.held /\ new.todo = todo /\ new.paid = Idle.paid
      /\ new.locking = locking /\ new.written = written /\ new.own = own
  <2>1. new.pc = "matching" /\ new.held = Idle.held /\ new.paid = Idle.paid
    BY <1>1, <1>4 DEF Jobs
  <2>2. new.todo = todo
    BY <1>1, <1>4 DEF Jobs
  <2>3. new.locking = locking /\ new.written = written
    BY <1>1, <1>4 DEF Jobs
  <2>4. new.own = own
    BY <1>1, <1>4 DEF Jobs
  <2> QED
    BY <2>1, <2>2, <2>3, <2>4
<1>6. new \in Jobs
  <2>1. /\ todo \in SUBSET Txns /\ locking \in SUBSET Txns /\ written \in SUBSET Txns
        /\ Idle.held \in SUBSET Txns /\ Idle.paid \in [Txns -> 0..Leases]
    BY <1>1 DEF Jobs
  <2>2. new = [pc |-> "matching", own |-> own, locking |-> locking, held |-> Idle.held,
               written |-> written, todo |-> todo, paid |-> Idle.paid]
    BY <1>4 DEF Idle
  <2> QED
    BY <1>2, <2>1, <2>2 DEF Jobs
<1> QED
  BY <1>1, <1>3, <1>5, <1>6

-----------------------------------------------------------------------------
(* A job's step before its commit changes no row. *)

LEMMA JobStep ==
    ASSUME MoneyInv, NEW w \in Workers, NEW new \in Jobs, job' = [job EXCEPT ![w] = new],
           new.held \cup new.written \subseteq new.locking,
           \A v \in Workers \ {w} : job[v].held \cap new.held = {},
           \A x \in Txns : Knows(new, x) /\ Books(new, x),
           crashes' \in 0..MaxCrashes,
           UNCHANGED <<push, payment, txn, booked, decision, lease, started>>
    PROVE  MoneyInv'
<1>1. /\ job \in [Workers -> Jobs] /\ job' \in [Workers -> Jobs] /\ job'[w] = new
      /\ \A v \in Workers \ {w} : job'[v] = job[v]
  BY DEF MoneyInv, TypeOK
<1>2. TypeOK'
  <2>1. \A v \in Workers : job'[v].held \cup job'[v].written \subseteq job'[v].locking
    BY <1>1 DEF MoneyInv, TypeOK
  <2> QED
    BY <1>1, <2>1 DEF MoneyInv, TypeOK
<1>3. LockedOnce'
  BY <1>1 DEF MoneyInv, LockedOnce
<1>4. \A v \in Workers, x \in Txns : (Knows(job[v], x) /\ Books(job[v], x))'
  <2> SUFFICES ASSUME NEW v \in Workers, NEW x \in Txns
               PROVE  (Knows(job[v], x) /\ Books(job[v], x))'
    OBVIOUS
  <2>1. CASE v = w
    BY <1>1, <2>1 DEF Knows, Books, Bookings
  <2>2. CASE v # w
    BY <1>1, <2>2 DEF MoneyInv, Knows, Books, Bookings
  <2> QED
    BY <2>1, <2>2
<1>5. BooksInv' /\ ReceivedIsBooked' /\ BookedOncePerLease'
  BY DEF MoneyInv, BooksInv, ReceivedIsBooked, BookedOncePerLease, Bookings
<1> QED
  BY <1>2, <1>3, <1>4, <1>5 DEF MoneyInv

\* A job that is rolled back.
LEMMA RollsBack ==
    ASSUME MoneyInv, NEW w \in Workers, job' = [job EXCEPT ![w] = Idle],
           crashes' \in 0..MaxCrashes,
           UNCHANGED <<push, payment, txn, booked, decision, lease, started>>
    PROVE  MoneyInv'
<1>1. \A x \in Txns : Knows(Idle, x) /\ Books(Idle, x)
  BY IdleJob DEF Knows, Books
<1> QED
  BY <1>1, IdleJob, JobStep

LEMMA ReceiveWebhookStep ==
    ASSUME MoneyInv, NEW w \in Workers, NEW x \in Txns, ReceiveWebhook(w, x)
    PROVE  MoneyInv'
<1>1. PICK event \in {"none", decision[x]} :
         /\ event = "none" => txn[x] \in {"absent", "received"}
         /\ LET status == CASE txn[x] = "absent" -> "new"
                            [] txn[x] # "absent" /\ event = "none" -> txn[x]
                            [] OTHER -> event
            IN job' = [job EXCEPT ![w] =
                 [Idle EXCEPT !.pc = "matching",
                              !.own[x] = status,
                              !.todo = IF status = "received" THEN {x} ELSE {},
                              !.locking = IF status # txn[x] \/ event = "received" THEN {x} ELSE {},
                              !.written = IF status # txn[x] THEN {x} ELSE {}]]
  BY DEF ReceiveWebhook
<1> DEFINE status  == CASE txn[x] = "absent" -> "new"
                        [] txn[x] # "absent" /\ event = "none" -> txn[x]
                        [] OTHER -> event
           todo    == IF status = "received" THEN {x} ELSE {}
           locking == IF status # txn[x] \/ event = "received" THEN {x} ELSE {}
           written == IF status # txn[x] THEN {x} ELSE {}
           new     == Begun(x, status, todo, locking, written)
<1>2. txn[x] \in RowStatuses \cup {"absent"} /\ decision[x] \in {"none", "received"} \cup Failures
  BY DEF MoneyInv, TypeOK
<1>3. /\ status \in {"new", "received"} \cup Failures
      /\ status = "received" /\ x \notin locking => txn[x] = "received"
  BY <1>1, <1>2 DEF Failures
<1>4. /\ job' = [job EXCEPT ![w] = new] /\ crashes' = crashes
      /\ UNCHANGED <<push, payment, txn, booked, decision, lease, started>>
  BY <1>1 DEF ReceiveWebhook, Begun
<1>5. todo \in SUBSET {x} /\ locking \in SUBSET {x} /\ written \in SUBSET locking
      /\ (status = "received" => todo = {x}) /\ (todo # {} => status = "received")
  OBVIOUS
<1> HIDE DEF status, todo, locking, written
<1>6. status \in RowStatuses \cup {"new"}
  BY <1>3 DEF RowStatuses
<1>7. /\ new \in Jobs /\ new.pc = "matching" /\ new.held = {} /\ new.todo = todo
      /\ new.locking = locking /\ new.written = written
      /\ \A y \in Txns : new.own[y] = IF y = x THEN status ELSE "unread"
      /\ \A y \in Txns : new.paid[y] = 0
  <2>1. new = Begun(x, status, todo, locking, written)
    OBVIOUS
  <2>2. todo \subseteq {x} /\ locking \subseteq {x} /\ written \subseteq locking
    BY <1>5
  <2> HIDE DEF new
  <2> QED
    BY <1>6, <2>1, <2>2, BegunJob
<1> HIDE DEF new
<1>8. ASSUME NEW y \in Txns PROVE Knows(new, y) /\ Books(new, y)
  <2>1. CASE y # x
    BY <1>5, <1>7, <2>1 DEF Knows, Books
  <2>2. CASE y = x
    <3>1. status = "received" /\ x \notin locking => Bookings(x) # {}
      BY <1>3 DEF MoneyInv, ReceivedIsBooked
    <3>2. Knows(new, x)
      BY <1>3, <1>5, <1>7, <3>1 DEF Knows, Failures
    <3>3. Books(new, x)
      BY <1>5, <1>7 DEF Books
    <3> QED
      BY <2>2, <3>2, <3>3
  <2> QED
    BY <2>1, <2>2
<1>9. crashes' \in 0..MaxCrashes
  BY <1>4 DEF MoneyInv, TypeOK
<1>10. /\ new.held \cup new.written \subseteq new.locking
       /\ \A v \in Workers \ {w} : job[v].held \cap new.held = {}
  BY <1>5, <1>7
<1> QED
  BY <1>4, <1>7, <1>8, <1>9, <1>10, JobStep

LEMMA MatchByHandStep ==
    ASSUME MoneyInv, NEW w \in Workers, NEW x \in Txns, MatchByHand(w, x)
    PROVE  MoneyInv'
<1> DEFINE changed == {x} \ {y \in Txns : txn[y] = "received"}
           new     == Begun(x, "received", {x}, changed, changed)
<1>1. /\ job' = [job EXCEPT ![w] = new] /\ crashes' = crashes
      /\ UNCHANGED <<push, payment, txn, booked, decision, lease, started>>
  BY DEF MatchByHand, Begun
<1>2. changed \in SUBSET {x} /\ (x \notin changed => txn[x] = "received")
  OBVIOUS
<1> HIDE DEF changed
<1>3. /\ new \in Jobs /\ new.pc = "matching" /\ new.held = {} /\ new.todo = {x}
      /\ new.locking = changed /\ new.written = changed
      /\ \A y \in Txns : new.own[y] = IF y = x THEN "received" ELSE "unread"
      /\ \A y \in Txns : new.paid[y] = 0
  <2>1. new = Begun(x, "received", {x}, changed, changed) /\ "received" \in RowStatuses
    BY DEF RowStatuses
  <2> HIDE DEF new
  <2> QED
    BY <1>2, <2>1, BegunJob
<1> HIDE DEF new
<1>4. x \notin changed => Bookings(x) # {}
  BY <1>2 DEF MoneyInv, ReceivedIsBooked
<1>5. \A y \in Txns : Knows(new, y) /\ Books(new, y)
  BY <1>2, <1>3, <1>4 DEF Knows, Books
<1>6. crashes' \in 0..MaxCrashes
  BY <1>1 DEF MoneyInv, TypeOK
<1> QED
  BY <1>1, <1>3, <1>5, <1>6, JobStep

LEMMA StartPollStep ==
    ASSUME MoneyInv, NEW w \in Workers, NEW answered \in SUBSET Txns, StartPoll(w, answered)
    PROVE  MoneyInv'
<1> DEFINE pending == {x \in Txns : txn[x] = "pending"}
           decided == {x \in answered : decision[x] # "none"}
           own == [x \in Txns |-> IF x \in decided THEN decision[x]
                                  ELSE IF x \in pending THEN "pending" ELSE "unread"]
           new == [Idle EXCEPT !.pc = "writing", !.locking = decided, !.written = decided,
                               !.own = own]
<1>1. /\ job' = [job EXCEPT ![w] = new] /\ crashes' = crashes
      /\ UNCHANGED <<push, payment, txn, booked, decision, lease, started>>
  BY DEF StartPoll
<1>2. \A x \in decided : decision[x] \in {"received"} \cup Failures
  BY DEF MoneyInv, TypeOK
<1>3. own \in [Txns -> RowStatuses \cup {"unread", "new"}] /\ decided \subseteq Txns
  BY <1>2 DEF RowStatuses
<1>4. \A x \in Txns : /\ own[x] # "matched" /\ (x \in decided => own[x] # "unread")
                      /\ own[x] = "received" => x \in decided
  BY <1>2 DEF Failures
<1> HIDE DEF own, decided
<1>5. /\ new \in Jobs /\ new.pc = "writing" /\ new.held = {} /\ new.todo = {}
      /\ new.locking = decided /\ new.written = decided /\ new.own = own
      /\ \A x \in Txns : new.paid[x] = 0
  BY <1>3, IdleJob DEF Jobs
<1> HIDE DEF new
<1>6. \A x \in Txns : Knows(new, x) /\ Books(new, x)
  BY <1>4, <1>5 DEF Knows, Books
<1>7. crashes' \in 0..MaxCrashes
  BY <1>1 DEF MoneyInv, TypeOK
<1> QED
  BY <1>1, <1>5, <1>6, <1>7, JobStep

LEMMA WriteRowStep ==
    ASSUME MoneyInv, NEW w \in Workers, NEW x \in Txns, WriteRow(w, x)
    PROVE  MoneyInv'
<1> DEFINE new == [job[w] EXCEPT !.held = @ \cup {x}]
<1>1. /\ crashes' = crashes /\ x \in job[w].locking /\ HeldByNone(x)
      /\ UNCHANGED <<push, payment, txn, booked, decision, lease, started>>
  BY DEF WriteRow
<1>2. crashes' \in 0..MaxCrashes
  BY <1>1 DEF MoneyInv, TypeOK
<1>3. CASE job[w].own[x] = "new" /\ txn[x] # "absent"
  <2>1. job' = [job EXCEPT ![w] = Idle]
    BY <1>3 DEF WriteRow
  <2> QED
    BY <1>1, <1>2, <2>1, RollsBack
<1>4. CASE ~ (job[w].own[x] = "new" /\ txn[x] # "absent")
  <2> DEFINE lost == job[w].own[x] = "new" /\ txn[x] # "absent"
  <2>1. job' = [job EXCEPT ![w] = new]
    <3>1. job' = [job EXCEPT ![w] = IF lost THEN Idle ELSE new]
      BY DEF WriteRow
    <3> HIDE DEF lost, new
    <3> QED
      BY <1>4, <3>1 DEF lost
  <2>2. job[w] \in Jobs /\ job[w].held \cup job[w].written \subseteq job[w].locking
    BY DEF MoneyInv, TypeOK
  <2>3. /\ new \in Jobs /\ new.held = job[w].held \cup {x} /\ new.pc = job[w].pc
        /\ new.own = job[w].own /\ new.locking = job[w].locking /\ new.paid = job[w].paid
        /\ new.written = job[w].written /\ new.todo = job[w].todo
    BY <2>2 DEF Jobs
  <2> HIDE DEF new
  <2>4. \A y \in Txns : Knows(new, y) /\ Books(new, y)
    BY <2>3 DEF MoneyInv, Knows, Books
  <2>5. \A v \in Workers \ {w} : job[v].held \cap new.held = {}
    BY <1>1, <2>3 DEF MoneyInv, LockedOnce, HeldByNone
  <2>6. new.held \cup new.written \subseteq new.locking
    BY <1>1, <2>2, <2>3
  <2> QED
    BY <1>1, <1>2, <2>1, <2>3, <2>4, <2>5, <2>6, JobStep
<1> QED
  BY <1>3, <1>4
LEMMA StartMatchingStep ==
    ASSUME MoneyInv, NEW w \in Workers, StartMatching(w)
    PROVE  MoneyInv'
<1> DEFINE found == {x \in Txns : job[w].own[x] = "unread" /\ txn[x] = "received"}
           own   == [x \in Txns |-> IF x \in found THEN "received" ELSE job[w].own[x]]
           todo  == found \cup {x \in Txns : job[w].own[x] = "received"}
           new   == [job[w] EXCEPT !.pc = "matching", !.own = own, !.todo = todo]
<1>1. /\ job[w].pc = "writing" /\ crashes' = crashes
      /\ UNCHANGED <<push, payment, txn, booked, decision, lease, started>>
  BY DEF StartMatching
<1>2. job' = [job EXCEPT ![w] = new]
  BY DEF StartMatching
<1>3. job[w] \in Jobs /\ job[w].held \cup job[w].written \subseteq job[w].locking
  BY DEF MoneyInv, TypeOK
<1>4. own \in [Txns -> RowStatuses \cup {"unread", "new"}] /\ todo \in SUBSET Txns
  BY <1>3 DEF Jobs, RowStatuses
<1>5. \A x \in Txns :
         /\ x \in todo <=> own[x] = "received"
         /\ own[x] # job[w].own[x] => job[w].own[x] = "unread" /\ txn[x] = "received"
                                      /\ own[x] = "received"
  OBVIOUS
<1> HIDE DEF own, todo
<1>6. /\ new \in Jobs /\ new.pc = "matching" /\ new.own = own /\ new.todo = todo
      /\ new.held = job[w].held /\ new.locking = job[w].locking
      /\ new.written = job[w].written /\ new.paid = job[w].paid
  BY <1>3, <1>4 DEF Jobs
<1> HIDE DEF new
<1>7. ASSUME NEW x \in Txns PROVE Knows(new, x) /\ Books(new, x)
  <2>1. Knows(job[w], x) /\ Books(job[w], x)
    BY DEF MoneyInv
  <2>2. txn[x] = "received" => Bookings(x) # {}
    BY DEF MoneyInv, ReceivedIsBooked
  <2>3. Knows(new, x)
    BY <1>5, <1>6, <2>1, <2>2 DEF Knows
  <2>4. Books(new, x)
    BY <1>1, <1>5, <1>6, <2>1 DEF Books
  <2> QED
    BY <2>3, <2>4
<1>8. \A v \in Workers \ {w} : job[v].held \cap new.held = {}
  BY <1>6 DEF MoneyInv, LockedOnce
<1>9. crashes' \in 0..MaxCrashes
  BY <1>1 DEF MoneyInv, TypeOK
<1> QED
  BY <1>1, <1>2, <1>3, <1>6, <1>7, <1>8, <1>9, JobStep

\* A job that has matched row x, with what it now writes of it.
Matched(j, x, status, l) ==
    [j EXCEPT !.todo = @ \ {x}, !.own[x] = status, !.paid[x] = l,
              !.locking = @ \cup {x}, !.written = @ \cup {x}]

LEMMA MatchedJob ==
    ASSUME NEW j \in Jobs, NEW x \in Txns, NEW status \in RowStatuses, NEW l \in 0..Leases,
           NEW new, new = Matched(j, x, status, l)
    PROVE  /\ new \in Jobs /\ new.pc = j.pc /\ new.held = j.held /\ new.todo = j.todo \ {x}
           /\ new.locking = j.locking \cup {x} /\ new.written = j.written \cup {x}
           /\ \A y \in Txns : new.own[y] = IF y = x THEN status ELSE j.own[y]
           /\ \A y \in Txns : new.paid[y] = IF y = x THEN l ELSE j.paid[y]
<1> DEFINE own     == [j.own EXCEPT ![x] = status]
           paid    == [j.paid EXCEPT ![x] = l]
           locking == j.locking \cup {x}
           written == j.written \cup {x}
           todo    == j.todo \ {x}
<1>1. /\ own \in [Txns -> RowStatuses \cup {"unread", "new"}] /\ paid \in [Txns -> 0..Leases]
      /\ \A y \in Txns : own[y] = IF y = x THEN status ELSE j.own[y]
      /\ \A y \in Txns : paid[y] = IF y = x THEN l ELSE j.paid[y]
  BY DEF Jobs
<1>2. locking \in SUBSET Txns /\ written \in SUBSET Txns /\ todo \in SUBSET Txns
  BY DEF Jobs
<1>3. new = [j EXCEPT !.todo = todo, !.own = own, !.paid = paid,
                      !.locking = locking, !.written = written]
  BY DEF Matched, Jobs
<1>4. locking = j.locking \cup {x} /\ written = j.written \cup {x} /\ todo = j.todo \ {x}
  OBVIOUS
<1> HIDE DEF own, paid, locking, written, todo
<1>5. /\ new.pc = j.pc /\ new.held = j.held /\ new.todo = todo /\ new.own = own
      /\ new.paid = paid /\ new.locking = locking /\ new.written = written
  BY <1>3 DEF Jobs
<1>6. new \in Jobs
  BY <1>1, <1>2, <1>3 DEF Jobs
<1> QED
  BY <1>1, <1>4, <1>5, <1>6

LEMMA MatchStep ==
    ASSUME MoneyInv, NEW w \in Workers, NEW x \in Txns, Match(w, x)
    PROVE  MoneyInv'
<1> DEFINE unmatched == [job[w] EXCEPT !.todo = @ \ {x}, !.own[x] = "unmatched",
                                       !.locking = @ \cup {x}, !.written = @ \cup {x}]
           matched   == [job[w] EXCEPT !.todo = @ \ {x}, !.own[x] = "matched",
                                       !.paid[x] = lease,
                                       !.locking = @ \cup {x}, !.written = @ \cup {x}]
           repeated  == [job[w] EXCEPT !.todo = @ \ {x}]
<1>1. /\ job[w].pc = "matching" /\ job[w].locking = job[w].held /\ x \in job[w].todo
      /\ crashes' = crashes
      /\ UNCHANGED <<push, payment, txn, booked, decision, lease, started>>
  BY DEF Match, Flushed
<1>2. job' = [job EXCEPT ![w] = IF lease = 0 THEN unmatched
                                ELSE IF booked[x][lease] = 0 THEN matched
                                ELSE IF booked[x][lease] = 1 THEN repeated ELSE Idle]
  BY DEF Match
<1>3. /\ job[w] \in Jobs /\ job[w].held \cup job[w].written \subseteq job[w].locking
      /\ lease \in {0, started} /\ started \in 0..Leases
      /\ booked \in [Txns -> [1..Leases -> Nat]]
  BY DEF MoneyInv, TypeOK
<1>4. \A y \in Txns : Knows(job[w], y) /\ Books(job[w], y)
  BY DEF MoneyInv
<1>5. job[w].own[x] = "received" /\ job[w].paid[x] = 0
  BY <1>1, <1>4 DEF Knows, Books
<1>6. crashes' \in 0..MaxCrashes
  BY <1>1 DEF MoneyInv, TypeOK
<1>7. \A v \in Workers \ {w} : job[v].held \cap job[w].held = {}
  BY DEF MoneyInv, LockedOnce
<1> HIDE DEF unmatched, matched, repeated
<1>8. CASE lease = 0
  <2>1. job' = [job EXCEPT ![w] = unmatched]
    BY <1>2, <1>8
  <2>2. unmatched = Matched(job[w], x, "unmatched", 0)
    BY <1>3, <1>5 DEF unmatched, Matched, Jobs
  <2>3. "unmatched" \in RowStatuses /\ 0 \in 0..Leases
    BY MobileMoneyAssumption DEF RowStatuses
  <2> DEFINE new == Matched(job[w], x, "unmatched", 0)
  <2>6. job' = [job EXCEPT ![w] = new]
    BY <2>1, <2>2
  <2>7. new = Matched(job[w], x, "unmatched", 0)
    OBVIOUS
  <2> HIDE DEF new
  <2>4. /\ new \in Jobs /\ new.pc = "matching" /\ new.held = job[w].held
        /\ new.todo = job[w].todo \ {x}
        /\ new.locking = job[w].locking \cup {x} /\ new.written = job[w].written \cup {x}
        /\ \A y \in Txns : new.own[y] = IF y = x THEN "unmatched" ELSE job[w].own[y]
        /\ \A y \in Txns : new.paid[y] = IF y = x THEN 0 ELSE job[w].paid[y]
    BY <1>1, <1>3, <2>3, <2>7, MatchedJob
  <2>5. ASSUME NEW y \in Txns PROVE Knows(new, y) /\ Books(new, y)
    BY <1>1, <1>4, <2>4 DEF Knows, Books
  <2>8. new.held \cup new.written \subseteq new.locking
    BY <1>1, <1>3, <2>4
  <2>9. \A v \in Workers \ {w} : job[v].held \cap new.held = {}
    BY <1>7, <2>4
  <2> QED
    BY <1>1, <1>6, <2>4, <2>5, <2>6, <2>8, <2>9, JobStep
<1>9. CASE lease # 0 /\ booked[x][lease] = 0
  <2>1. job' = [job EXCEPT ![w] = matched]
    BY <1>2, <1>9
  <2>2. matched = Matched(job[w], x, "matched", lease)
    BY DEF matched, Matched
  <2>3. "matched" \in RowStatuses /\ lease \in 0..Leases /\ lease = started
    BY <1>3, <1>9 DEF RowStatuses
  <2> DEFINE new == Matched(job[w], x, "matched", lease)
  <2>7. job' = [job EXCEPT ![w] = new]
    BY <2>1, <2>2
  <2>8. new = Matched(job[w], x, "matched", lease)
    OBVIOUS
  <2> HIDE DEF new
  <2>4. /\ new \in Jobs /\ new.pc = "matching" /\ new.held = job[w].held
        /\ new.todo = job[w].todo \ {x}
        /\ new.locking = job[w].locking \cup {x} /\ new.written = job[w].written \cup {x}
        /\ \A y \in Txns : new.own[y] = IF y = x THEN "matched" ELSE job[w].own[y]
        /\ \A y \in Txns : new.paid[y] = IF y = x THEN lease ELSE job[w].paid[y]
    BY <1>1, <1>3, <2>3, <2>8, MatchedJob
  \* while there is one lease only, a row not booked on it has been locked
  <2>5. started <= 1 => x \in job[w].held /\ booked[x][1] = 0
    <3> SUFFICES ASSUME started <= 1 PROVE x \in job[w].held /\ booked[x][1] = 0
      OBVIOUS
    <3>1. lease = 1 /\ started = 1
      BY <1>3, <1>9
    <3>2. \A l \in 1..Leases : booked[x][l] = 0
      <4> SUFFICES ASSUME NEW l \in 1..Leases PROVE booked[x][l] = 0
        OBVIOUS
      <4>1. l = 1 \/ l > started
        BY <3>1
      <4> QED
        BY <1>9, <3>1, <4>1 DEF MoneyInv, BooksInv
    <3>3. Bookings(x) = {}
      BY <3>2 DEF Bookings
    <3>4. x \in job[w].locking
      BY <1>4, <1>5, <3>3 DEF Knows
    <3> QED
      BY <1>1, <1>9, <3>1, <3>4
  <2>6. ASSUME NEW y \in Txns PROVE Knows(new, y) /\ Books(new, y)
    <3>1. CASE y = x
      <4>1. Knows(new, x)
        BY <1>9, <2>4 DEF Knows
      <4>2. Books(new, x)
        BY <1>3, <2>3, <2>4, <2>5 DEF Books
      <4> QED
        BY <3>1, <4>1, <4>2
    <3>2. CASE y # x
      BY <1>1, <1>4, <2>4, <3>2 DEF Knows, Books
    <3> QED
      BY <3>1, <3>2
  <2>9. new.held \cup new.written \subseteq new.locking
    BY <1>1, <1>3, <2>4
  <2>10. \A v \in Workers \ {w} : job[v].held \cap new.held = {}
    BY <1>7, <2>4
  <2> QED
    BY <1>1, <1>6, <2>4, <2>6, <2>7, <2>9, <2>10, JobStep
<1>10. CASE lease # 0 /\ booked[x][lease] = 1
  <2>1. job' = [job EXCEPT ![w] = repeated]
    BY <1>2, <1>10
  <2> DEFINE new == repeated
  <2>2. /\ new \in Jobs /\ new.pc = job[w].pc /\ new.held = job[w].held
        /\ new.todo = job[w].todo \ {x} /\ new.locking = job[w].locking
        /\ new.written = job[w].written /\ new.own = job[w].own /\ new.paid = job[w].paid
    BY <1>3 DEF repeated, Jobs
  <2>3. job' = [job EXCEPT ![w] = new]
    BY <2>1
  <2> HIDE DEF new
  <2>4. Bookings(x) # {} /\ lease = started
    <3>1. lease \in 1..Leases /\ booked[x][lease] > 0 /\ lease = started
      BY <1>3, <1>10
    <3> QED
      BY <3>1 DEF Bookings
  <2>5. ASSUME NEW y \in Txns PROVE Knows(new, y) /\ Books(new, y)
    <3>1. CASE y = x
      <4>1. Knows(new, x)
        BY <1>4, <2>2, <2>4 DEF Knows
      <4>2. Books(new, x)
        BY <1>1, <1>3, <1>4, <1>5, <1>10, <2>2, <2>4 DEF Books
      <4> QED
        BY <3>1, <4>1, <4>2
    <3>2. CASE y # x
      BY <1>1, <1>4, <2>2, <3>2 DEF Knows, Books
    <3> QED
      BY <3>1, <3>2
  <2> QED
    BY <1>1, <1>3, <1>6, <1>7, <2>2, <2>3, <2>5, JobStep
<1>11. CASE lease # 0 /\ booked[x][lease] # 0 /\ booked[x][lease] # 1
  <2>1. job' = [job EXCEPT ![w] = Idle]
    BY <1>2, <1>11
  <2> QED
    BY <1>1, <1>6, <2>1, RollsBack
<1> QED
  BY <1>8, <1>9, <1>10, <1>11
-----------------------------------------------------------------------------
(* A commit. *)

\* What a job leaves of a row is a row's status, and what it books is booked once.
LEMMA CommitStep ==
    ASSUME MoneyInv, NEW w \in Workers, Commit(w)
    PROVE  MoneyInv'
<1>1. /\ job[w].pc = "matching" /\ job[w].locking = job[w].held /\ job[w].todo = {}
      /\ txn' = [x \in Txns |-> Left(w, x)]
      /\ job' = [job EXCEPT ![w] = Idle]
      /\ UNCHANGED <<push, decision, lease, started, crashes>>
  BY DEF Commit, Flushed
<1>2. /\ TypeOK
      /\ job[w] \in Jobs /\ job[w].held \cup job[w].written \subseteq job[w].locking
      /\ started \in 0..Leases /\ booked \in [Txns -> [1..Leases -> Nat]]
      /\ txn \in [Txns -> RowStatuses \cup {"absent"}]
  BY DEF MoneyInv, TypeOK
<1>3. \A x \in Txns : /\ job[w].own[x] \in RowStatuses \cup {"unread", "new"}
                      /\ job[w].paid[x] \in 0..Leases
  BY <1>2 DEF Jobs
<1>4. \A v \in Workers, x \in Txns : Knows(job[v], x) /\ Books(job[v], x)
  BY DEF MoneyInv
<1>5. /\ \A v \in Workers : v # w => job'[v] = job[v]
      /\ job'[w] = Idle
  BY <1>1, <1>2 DEF TypeOK
\* what is booked, and where
<1>6. \A x \in Txns : \A l \in 1..Leases :
         booked'[x][l] = booked[x][l] + (IF job[w].paid[x] = l THEN 1 ELSE 0)
  BY DEF Commit
<1>7. \A x \in Txns : \A l \in 1..Leases :
         booked'[x][l] \in Nat /\ booked'[x][l] >= booked[x][l]
  <2> SUFFICES ASSUME NEW x \in Txns, NEW l \in 1..Leases
               PROVE  booked'[x][l] \in Nat /\ booked'[x][l] >= booked[x][l]
    OBVIOUS
  <2>1. booked[x][l] \in Nat
    BY <1>2
  <2>2. booked'[x][l] = booked[x][l] + (IF job[w].paid[x] = l THEN 1 ELSE 0)
    BY <1>6
  <2> QED
    BY <2>1, <2>2
<1>8. \A x \in Txns : Bookings(x) \subseteq Bookings(x)'
  <2> SUFFICES ASSUME NEW x \in Txns, NEW l \in 1..Leases, booked[x][l] > 0
               PROVE  booked'[x][l] > 0
    BY DEF Bookings
  <2>1. booked[x][l] \in Nat /\ booked'[x][l] \in Nat /\ booked'[x][l] >= booked[x][l]
    BY <1>2, <1>7
  <2> QED
    BY <2>1
<1>9. \A x \in Txns : \/ x \notin job[w].written /\ txn'[x] = txn[x] /\ job[w].paid[x] = 0
                      \/ x \in job[w].written /\ job[w].own[x] = "new" /\ txn'[x] = "unmatched"
                      \/ x \in job[w].written /\ txn'[x] = job[w].own[x]
                         /\ job[w].own[x] \in RowStatuses
  <2> SUFFICES ASSUME NEW x \in Txns
               PROVE  \/ x \notin job[w].written /\ txn'[x] = txn[x] /\ job[w].paid[x] = 0
                      \/ x \in job[w].written /\ job[w].own[x] = "new" /\ txn'[x] = "unmatched"
                      \/ x \in job[w].written /\ txn'[x] = job[w].own[x]
                         /\ job[w].own[x] \in RowStatuses
    OBVIOUS
  <2>1. txn'[x] = Left(w, x)
    BY <1>1
  <2>2. CASE x \notin job[w].written
    BY <1>4, <2>1, <2>2 DEF Left, Books
  <2>3. CASE x \in job[w].written /\ job[w].own[x] = "new"
    BY <2>1, <2>3 DEF Left
  <2>4. CASE x \in job[w].written /\ job[w].own[x] # "new"
    <3>1. job[w].own[x] # "unread"
      BY <1>4, <2>4 DEF Knows
    <3>2. txn'[x] = job[w].own[x]
      BY <2>1, <2>4 DEF Left
    <3> QED
      BY <1>3, <2>4, <3>1, <3>2
  <2> QED
    BY <2>2, <2>3, <2>4
<1>10. TypeOK'
  <2>1. txn' \in [Txns -> RowStatuses \cup {"absent"}]
    <3>1. \A x \in Txns : Left(w, x) \in RowStatuses \cup {"absent"}
      <4> SUFFICES ASSUME NEW x \in Txns PROVE Left(w, x) \in RowStatuses \cup {"absent"}
        OBVIOUS
      <4>1. Left(w, x) = txn'[x] /\ txn[x] \in RowStatuses \cup {"absent"}
        BY <1>1, <1>2
      <4>2. "unmatched" \in RowStatuses
        BY DEF RowStatuses
      <4> QED
        BY <1>9, <4>1, <4>2
    <3> QED
      BY <1>1, <3>1
  <2>2. booked' \in [Txns -> [1..Leases -> Nat]]
    <3> DEFINE count(x, l) == booked[x][l] + (IF job[w].paid[x] = l THEN 1 ELSE 0)
    <3>1. booked' = [x \in Txns |-> [l \in 1..Leases |-> count(x, l)]]
      BY DEF Commit
    <3>2. ASSUME NEW x \in Txns, NEW l \in 1..Leases PROVE count(x, l) \in Nat
      <4>1. booked[x][l] \in Nat
        BY <1>2
      <4> QED
        BY <4>1
    <3> HIDE DEF count
    <3> QED
      BY <3>1, <3>2
  <2>3. payment' \in [Txns -> {"absent", "initiated", "pending", "permanently_failed"}]
    <3>1. payment' = [x \in Txns |-> IF FailureKnown(w, x) /\ payment[x] = "pending"
                                     THEN "permanently_failed" ELSE payment[x]]
      BY DEF Commit
    <3> QED
      BY <1>2, <3>1 DEF TypeOK
  <2>4. /\ job' \in [Workers -> Jobs]
        /\ \A v \in Workers : job'[v].held \cup job'[v].written \subseteq job'[v].locking
    BY <1>1, <1>2, <1>5, IdleJob DEF TypeOK
  <2> QED
    BY <1>1, <1>2, <2>1, <2>2, <2>3, <2>4 DEF TypeOK
<1>11. LockedOnce'
  BY <1>5, IdleJob DEF MoneyInv, LockedOnce
<1>12. BooksInv'
  <2>1. ASSUME NEW x \in Txns, NEW l \in 1..Leases, l > started
        PROVE  booked'[x][l] = 0
    <3>1. booked[x][l] = 0
      BY <2>1 DEF MoneyInv, BooksInv
    <3>2. job[w].paid[x] # l
      BY <1>2, <1>3, <1>4, <2>1 DEF Books
    <3> QED
      BY <1>6, <3>1, <3>2
  <2>2. ASSUME NEW x \in Txns, txn'[x] = "received", started # 0
        PROVE  booked'[x][started] <= 1
    <3>1. started \in 1..Leases /\ booked[x][started] \in Nat
      BY <1>2, <2>2, MobileMoneyAssumption
    <3>2. booked[x][started] <= 1 /\ job[w].paid[x] = 0
      <4>1. CASE x \notin job[w].written
        BY <1>9, <2>2, <4>1 DEF MoneyInv, BooksInv
      <4>2. CASE x \in job[w].written
        <5>1. job[w].own[x] = "received"
          BY <1>9, <2>2, <4>2
        <5> QED
          BY <1>1, <1>4, <2>2, <4>2, <5>1 DEF Books
      <4> QED
        BY <4>1, <4>2
    <3>3. booked'[x][started] = booked[x][started] + 0
      <4>1. job[w].paid[x] # started
        BY <2>2, <3>2
      <4> QED
        BY <1>6, <3>1, <4>1
    <3> QED
      BY <3>1, <3>2, <3>3
  <2> QED
    BY <1>1, <2>1, <2>2 DEF BooksInv
<1>13. ASSUME NEW v \in Workers, NEW x \in Txns PROVE (Knows(job[v], x) /\ Books(job[v], x))'
  <2>1. CASE v = w
    BY <1>5, <2>1, IdleJob DEF Knows, Books
  <2>2. CASE v # w
    <3>1. job'[v] = job[v] /\ started' = started /\ Knows(job[v], x) /\ Books(job[v], x)
      BY <1>1, <1>4, <1>5, <2>2
    <3>2. Knows(job[v], x)'
      BY <1>8, <3>1 DEF Knows
    \* what v holds, w has not booked
    <3>3. x \in job[v].held /\ started # 0 => job[w].paid[x] = 0
      <4>1. x \in job[v].held => x \notin job[w].written
        BY <1>1, <1>2, <2>2 DEF MoneyInv, LockedOnce
      <4> QED
        BY <1>9, <4>1
    <3>4. \A l \in 1..Leases : job[w].paid[x] = 0 => booked'[x][l] = booked[x][l]
      <4> SUFFICES ASSUME NEW l \in 1..Leases, job[w].paid[x] = 0
                   PROVE  booked'[x][l] = booked[x][l]
        OBVIOUS
      <4>1. booked[x][l] \in Nat /\ job[w].paid[x] # l
        BY <1>2, MobileMoneyAssumption
      <4> QED
        BY <1>6, <4>1
    <3>5. job[v].paid[x] \in 0..Leases
      BY <1>2 DEF TypeOK, Jobs
    <3>6. job[v].paid[x] # 0 => started # 0 /\ 1 \in 1..Leases
      BY <1>2, <3>1, <3>5, MobileMoneyAssumption DEF Books
    <3>7. started # 0 => started \in 1..Leases
      BY <1>2, MobileMoneyAssumption
    <3>8. Books(job[v], x)'
      BY <3>1, <3>3, <3>4, <3>6, <3>7 DEF Books
    <3> QED
      BY <3>2, <3>8
  <2> QED
    BY <2>1, <2>2
<1>14. ReceivedIsBooked'
  <2> SUFFICES ASSUME NEW x \in Txns, txn'[x] \in {"received", "matched"}
               PROVE  Bookings(x)' # {}
    BY DEF ReceivedIsBooked
  <2>1. CASE x \notin job[w].written
    <3>1. Bookings(x) # {}
      BY <1>9, <2>1 DEF MoneyInv, ReceivedIsBooked
    <3> QED
      BY <1>8, <3>1
  <2>2. CASE x \in job[w].written /\ job[w].own[x] = "received"
    <3>1. Bookings(x) # {}
      BY <1>1, <1>4, <2>2 DEF Knows
    <3> QED
      BY <1>8, <3>1
  <2>3. CASE x \in job[w].written /\ job[w].own[x] = "matched"
    <3> DEFINE l == job[w].paid[x]
    <3>1. l \in 1..Leases
      BY <1>3, <1>4, <2>3 DEF Knows
    <3>2. booked'[x][l] = booked[x][l] + IF job[w].paid[x] = l THEN 1 ELSE 0
      BY <1>6, <3>1
    <3>3. booked'[x][l] > 0
      <4>1. booked[x][l] \in Nat
        BY <1>2, <3>1
      <4> QED
        BY <3>2, <4>1
    <3> HIDE DEF l
    <3>4. l \in Bookings(x)'
      BY <3>1, <3>3 DEF Bookings
    <3> QED
      BY <3>4
  <2> QED
    BY <1>9, <2>1, <2>2, <2>3
<1>15. BookedOncePerLease'
  <2> SUFFICES ASSUME started <= 1, NEW x \in Txns, NEW l \in 1..Leases
               PROVE  booked'[x][l] <= 1
    BY <1>1 DEF BookedOncePerLease
  <2>1. booked[x][l] \in Nat /\ booked[x][l] <= 1
    BY <1>2 DEF MoneyInv, BookedOncePerLease
  <2>2. CASE job[w].paid[x] = l
    <3>1. l <= started /\ booked[x][1] = 0
      BY <1>4, <2>2 DEF Books
    <3>2. l = 1
      BY <1>2, <3>1
    <3>3. booked'[x][l] = 0 + 1
      BY <1>6, <2>2, <3>1, <3>2
    <3> QED
      BY <3>3
  <2>3. CASE job[w].paid[x] # l
    <3>1. booked'[x][l] = booked[x][l] + 0
      BY <1>6, <2>3
    <3> QED
      BY <2>1, <3>1
  <2> QED
    BY <2>2, <2>3
<1> QED
  BY <1>10, <1>11, <1>12, <1>13, <1>14, <1>15 DEF MoneyInv
-----------------------------------------------------------------------------
(* The requests for a push, the provider and the lease. *)

LEMMA PushStepKeeps ==
    ASSUME MoneyInv, PushStep
    PROVE  MoneyInv'
<1>1. PICK x \in Txns :
         AskProvider(x) \/ SavePush(x) \/ SavePaymentOnly(x) \/ LosePush(x)
  BY DEF PushStep
<1>2. UNCHANGED <<booked, decision, lease, started, job, crashes>>
  BY <1>1 DEF AskProvider, SavePush, SavePaymentOnly, LosePush
<1>3. TypeOK
  BY DEF MoneyInv
<1>4. push' \in [Txns -> {"none", "asked", "saved", "lost"}]
  BY <1>1, <1>3 DEF TypeOK, AskProvider, SavePush, SavePaymentOnly, LosePush
<1>5. payment' \in [Txns -> {"absent", "initiated", "pending", "permanently_failed"}]
  BY <1>1, <1>3 DEF TypeOK, AskProvider, SavePush, SavePaymentOnly, LosePush
<1>6. /\ txn' \in [Txns -> RowStatuses \cup {"absent"}]
      /\ \A y \in Txns : txn'[y] = txn[y] \/ txn'[y] = "pending"
  <2>1. txn' = txn \/ txn' = [txn EXCEPT ![x] = "pending"]
    BY <1>1 DEF AskProvider, SavePush, SavePaymentOnly, LosePush
  <2> QED
    BY <1>3, <2>1 DEF TypeOK, RowStatuses
<1>7. TypeOK'
  BY <1>2, <1>3, <1>4, <1>5, <1>6 DEF TypeOK
<1>8. /\ LockedOnce'
      /\ \A w \in Workers, y \in Txns : (Knows(job[w], y) /\ Books(job[w], y))'
  BY <1>2 DEF MoneyInv, LockedOnce, Knows, Books, Bookings
<1>9. BooksInv' /\ ReceivedIsBooked' /\ BookedOncePerLease'
  BY <1>2, <1>6 DEF MoneyInv, BooksInv, ReceivedIsBooked, BookedOncePerLease, Bookings
<1> QED
  BY <1>7, <1>8, <1>9 DEF MoneyInv

LEMMA EnvironmentStep ==
    ASSUME MoneyInv, (\E x \in Txns : ProviderDecides(x)) \/ LeaseStarts \/ LeaseEnds
    PROVE  MoneyInv'
<1>1. TypeOK /\ UNCHANGED <<push, payment, txn, booked, job, crashes>>
  BY DEF MoneyInv, ProviderDecides, LeaseStarts, LeaseEnds
<1>2. started' = started \/ (started' = started + 1 /\ LeaseStarts)
  BY DEF ProviderDecides, LeaseStarts, LeaseEnds
<1>3. /\ decision' \in [Txns -> {"none", "received"} \cup Failures]
      /\ started' \in 0..Leases /\ lease' \in {0, started'}
  <2>1. CASE \E x \in Txns : ProviderDecides(x)
    BY <1>1, <2>1 DEF TypeOK, ProviderDecides
  <2>2. CASE LeaseStarts
    BY <1>1, <2>2, MobileMoneyAssumption DEF TypeOK, LeaseStarts
  <2>3. CASE LeaseEnds
    BY <1>1, <2>3 DEF TypeOK, LeaseEnds
  <2> QED
    BY <2>1, <2>2, <2>3
<1>4. TypeOK'
  BY <1>1, <1>3 DEF TypeOK
<1>5. LockedOnce' /\ ReceivedIsBooked'
  BY <1>1 DEF MoneyInv, LockedOnce, ReceivedIsBooked, Bookings
<1>6. \A w \in Workers, x \in Txns : Knows(job[w], x)'
  BY <1>1 DEF MoneyInv, Knows, Bookings
<1>7. CASE started' = started
  <2>1. BooksInv' /\ BookedOncePerLease'
    BY <1>1, <1>7 DEF MoneyInv, BooksInv, BookedOncePerLease
  <2>2. \A w \in Workers, x \in Txns : Books(job[w], x)'
    BY <1>1, <1>7 DEF MoneyInv, Books
  <2> QED
    BY <1>4, <1>5, <1>6, <2>1, <2>2 DEF MoneyInv
\* the lease that starts has nothing booked on it
<1>8. CASE started' = started + 1 /\ LeaseStarts
  <2>1. started \in Nat /\ started' \in 1..Leases
    BY <1>1, <1>8, MobileMoneyAssumption DEF TypeOK, LeaseStarts
  <2>2. \A x \in Txns : \A l \in 1..Leases : l > started => booked[x][l] = 0
    BY DEF MoneyInv, BooksInv
  <2>3. \A x \in Txns : booked[x][started'] = 0
    BY <1>8, <2>1, <2>2
  <2>4. BooksInv'
    <3>1. \A l \in 1..Leases : l > started' => l > started
      BY <1>8, <2>1
    <3> QED
      BY <1>1, <2>2, <2>3, <3>1 DEF BooksInv
  <2>5. BookedOncePerLease'
    <3>1. started' <= 1 => started <= 1
      BY <1>8, <2>1
    <3> QED
      BY <1>1, <3>1 DEF MoneyInv, BookedOncePerLease
  <2>6. ASSUME NEW w \in Workers, NEW x \in Txns PROVE Books(job[w], x)'
    <3>1. Books(job[w], x) /\ job[w].paid[x] \in 0..Leases
      BY <1>1 DEF MoneyInv, TypeOK, Jobs
    <3>2. job[w].paid[x] # 0 => job[w].paid[x] <= started' /\ started' > 1
      BY <1>8, <2>1, <3>1, MobileMoneyAssumption DEF Books
    <3> QED
      BY <1>1, <2>1, <2>3, <3>1, <3>2 DEF Books
  <2> QED
    BY <1>4, <1>5, <1>6, <2>4, <2>5, <2>6 DEF MoneyInv
<1> QED
  BY <1>2, <1>7, <1>8

-----------------------------------------------------------------------------
(* The invariant, and what follows from it. *)

LEMMA MoneyInit == Init => MoneyInv
<1> SUFFICES ASSUME Init PROVE MoneyInv
  OBVIOUS
<1>1. PICK legacy \in SUBSET Txns :
         /\ push = [x \in Txns |-> IF x \in legacy THEN "saved" ELSE "none"]
         /\ payment = [x \in Txns |-> IF x \in legacy THEN "pending" ELSE "absent"]
         /\ txn = [x \in Txns |-> IF x \in legacy THEN "pending" ELSE "absent"]
  BY DEF Init
<1>2. /\ booked = [x \in Txns |-> [l \in 1..Leases |-> 0]]
      /\ decision = [x \in Txns |-> "none"] /\ lease = 0 /\ started = 0
      /\ job = [w \in Workers |-> Idle] /\ crashes = 0
  BY DEF Init
<1>3. TypeOK
  <2>1. push \in [Txns -> {"none", "asked", "saved", "lost"}]
    BY <1>1
  <2>2. payment \in [Txns -> {"absent", "initiated", "pending", "permanently_failed"}]
    BY <1>1
  <2>3. txn \in [Txns -> RowStatuses \cup {"absent"}]
    BY <1>1 DEF RowStatuses
  <2>4. /\ booked \in [Txns -> [1..Leases -> Nat]] /\ started \in 0..Leases
        /\ lease \in {0, started} /\ crashes \in 0..MaxCrashes
    BY <1>2, MobileMoneyAssumption
  <2>5. /\ decision \in [Txns -> {"none", "received"} \cup Failures]
    BY <1>2
  <2>6. /\ job \in [Workers -> Jobs]
        /\ \A w \in Workers : job[w].held \cup job[w].written \subseteq job[w].locking
    BY <1>2, IdleJob
  <2> QED
    BY <2>1, <2>2, <2>3, <2>4, <2>5, <2>6 DEF TypeOK
<1>4. LockedOnce
  BY <1>2, IdleJob DEF LockedOnce
<1>5. \A w \in Workers, x \in Txns : Knows(job[w], x) /\ Books(job[w], x)
  BY <1>2, IdleJob DEF Knows, Books
<1>6. \A x \in Txns : txn[x] \notin {"received", "matched"}
  BY <1>1
<1>7. BooksInv /\ ReceivedIsBooked /\ BookedOncePerLease
  BY <1>2, <1>6 DEF BooksInv, ReceivedIsBooked, BookedOncePerLease
<1> QED
  BY <1>3, <1>4, <1>5, <1>7 DEF MoneyInv

LEMMA MoneyNext == MoneyInv /\ [Next]_vars => MoneyInv'
<1> SUFFICES ASSUME MoneyInv, [Next]_vars PROVE MoneyInv'
  OBVIOUS
<1>1. CASE PushStep
  BY <1>1, PushStepKeeps
<1>2. CASE (\E x \in Txns : ProviderDecides(x)) \/ LeaseStarts \/ LeaseEnds
  BY <1>2, EnvironmentStep
<1>3. CASE JobStarts
  <2>1. PICK x \in Txns : \E w \in Servers : ReceiveWebhook(w, x) \/ MatchByHand(w, x)
    BY <1>3 DEF JobStarts
  <2>2. PICK w \in Servers : ReceiveWebhook(w, x) \/ MatchByHand(w, x)
    BY <2>1
  <2>3. w \in Workers
    BY DEF Workers
  <2> QED
    BY <2>2, <2>3, ReceiveWebhookStep, MatchByHandStep
<1>4. ASSUME NEW w \in Pollers, NEW answered \in SUBSET Txns, StartPoll(w, answered)
      PROVE  MoneyInv'
  <2>1. w \in Workers
    BY DEF Workers
  <2> QED
    BY <1>4, <2>1, StartPollStep
<1>5. ASSUME NEW w \in Workers, Carries(w) PROVE MoneyInv'
  BY <1>5, StartMatchingStep, CommitStep, MatchStep DEF Carries
<1>6. ASSUME NEW w \in Workers, Crash(w) PROVE MoneyInv'
  <2>1. crashes' \in 0..MaxCrashes
    BY <1>6, MobileMoneyAssumption DEF Crash, MoneyInv, TypeOK
  <2>2. /\ job' = [job EXCEPT ![w] = Idle]
        /\ UNCHANGED <<push, payment, txn, booked, decision, lease, started>>
    BY <1>6 DEF Crash
  <2> QED
    BY <2>1, <2>2, RollsBack
<1>7. ASSUME NEW w \in Workers, NEW x \in Txns, WriteRow(w, x) PROVE MoneyInv'
  BY <1>7, WriteRowStep
<1>8. CASE UNCHANGED vars
  <2>1. UNCHANGED <<push, payment, txn, booked, decision, lease, started, job, crashes>>
    BY <1>8 DEF vars
  <2>2. TypeOK' /\ LockedOnce' /\ BooksInv'
    BY <2>1 DEF MoneyInv, TypeOK, LockedOnce, BooksInv
  <2>3. \A w \in Workers, x \in Txns : (Knows(job[w], x) /\ Books(job[w], x))'
    BY <2>1 DEF MoneyInv, Knows, Books, Bookings
  <2>4. ReceivedIsBooked' /\ BookedOncePerLease'
    BY <2>1 DEF MoneyInv, ReceivedIsBooked, BookedOncePerLease, Bookings
  <2> QED
    BY <2>2, <2>3, <2>4 DEF MoneyInv
<1> QED
  BY <1>1, <1>2, <1>3, <1>4, <1>5, <1>6, <1>7, <1>8 DEF Next

LEMMA MoneyAlways == Spec => []MoneyInv
BY MoneyInit, MoneyNext, PTL DEF Spec

\* Type correctness, with what a job writes always locked by it.
THEOREM TypesHold == Spec => []TypeOK
<1>1. MoneyInv => TypeOK
  BY DEF MoneyInv
<1> QED
  BY <1>1, MoneyAlways, PTL

\* However often a receipt is reported, polled or matched by hand, by however many
\* jobs at a time, it is booked once on the tenant's first lease.
THEOREM FirstLeaseBookedOnce == Spec => []BookedOncePerLease
<1>1. MoneyInv => BookedOncePerLease
  BY DEF MoneyInv
<1> QED
  BY <1>1, MoneyAlways, PTL

\* No row says that its money came in or was matched without a payment booked for it.
THEOREM NothingLeftUnbooked == Spec => []ReceivedIsBooked
<1>1. MoneyInv => ReceivedIsBooked
  BY DEF MoneyInv
<1> QED
  BY <1>1, MoneyAlways, PTL

\* The duplicate check never raises on a row that the next poll will match: the lease
\* it is matched with is the latest one, and on that one a received row was booked once.
THEOREM PollKeepsGoing == Spec => []PollIsNeverBlocked
<1>1. MoneyInv => PollIsNeverBlocked
  <2>1. TypeOK => lease \in {0, started}
    BY DEF TypeOK
  <2> QED
    BY <2>1 DEF MoneyInv, BooksInv, PollIsNeverBlocked
<1> QED
  BY <1>1, MoneyAlways, PTL

\* A payment from before v4 is never left pending beside its failed push: the commit
\* that writes the failure fails the payment too, in whichever job it is.
THEOREM FailuresAreTold == Spec => []FailedPushFailsItsPayment
<1>1. Init => FailedPushFailsItsPayment
  <2> SUFFICES ASSUME Init PROVE FailedPushFailsItsPayment
    OBVIOUS
  <2>1. PICK legacy \in SUBSET Txns :
           txn = [x \in Txns |-> IF x \in legacy THEN "pending" ELSE "absent"]
    BY DEF Init
  <2> QED
    BY <2>1 DEF FailedPushFailsItsPayment, Failures
<1>2. MoneyInv /\ FailedPushFailsItsPayment /\ [Next]_vars => FailedPushFailsItsPayment'
  <2> SUFFICES ASSUME MoneyInv, FailedPushFailsItsPayment, [Next]_vars
               PROVE  FailedPushFailsItsPayment'
    OBVIOUS
  <2>1. /\ txn \in [Txns -> RowStatuses \cup {"absent"}]
        /\ payment \in [Txns -> {"absent", "initiated", "pending", "permanently_failed"}]
    BY DEF MoneyInv, TypeOK
  <2>2. CASE UNCHANGED <<txn, payment>>
    BY <2>2 DEF FailedPushFailsItsPayment
  <2>3. CASE PushStep
    <3>1. PICK x \in Txns :
             AskProvider(x) \/ SavePush(x) \/ SavePaymentOnly(x) \/ LosePush(x)
      BY <2>3 DEF PushStep
    <3>2. CASE AskProvider(x) \/ LosePush(x)
      BY <2>2, <3>2 DEF AskProvider, LosePush
    <3>3. CASE SavePush(x)
      BY <2>1, <3>3 DEF SavePush, FailedPushFailsItsPayment, Failures
    <3>4. CASE SavePaymentOnly(x)
      BY <2>1, <3>4 DEF SavePaymentOnly, FailedPushFailsItsPayment
    <3> QED
      BY <3>1, <3>2, <3>3, <3>4
  <2>4. ASSUME NEW w \in Workers, Commit(w) PROVE FailedPushFailsItsPayment'
    <3> SUFFICES ASSUME NEW x \in Txns, txn'[x] \in Failures PROVE payment'[x] # "pending"
      BY DEF FailedPushFailsItsPayment
    <3>1. /\ txn'[x] = Left(w, x)
          /\ payment'[x] = IF FailureKnown(w, x) /\ payment[x] = "pending"
                           THEN "permanently_failed" ELSE payment[x]
      BY <2>4 DEF Commit
    <3>2. CASE x \in job[w].written
      BY <3>1, <3>2 DEF FailureKnown
    <3>3. CASE x \notin job[w].written
      <4>1. txn[x] \in Failures
        BY <3>1, <3>3 DEF Left
      <4> QED
        BY <3>1, <4>1 DEF FailedPushFailsItsPayment
    <3> QED
      BY <3>2, <3>3
  <2>5. CASE (\E x \in Txns : ProviderDecides(x)) \/ LeaseStarts \/ LeaseEnds \/ JobStarts
    BY <2>2, <2>5 DEF ProviderDecides, LeaseStarts, LeaseEnds, JobStarts, ReceiveWebhook,
                      MatchByHand
  <2>6. ASSUME NEW w \in Pollers, NEW answered \in SUBSET Txns, StartPoll(w, answered)
        PROVE  FailedPushFailsItsPayment'
    BY <2>2, <2>6 DEF StartPoll
  <2>7. ASSUME NEW w \in Workers, StartMatching(w) \/ Crash(w)
        PROVE  FailedPushFailsItsPayment'
    BY <2>2, <2>7 DEF StartMatching, Crash
  <2>8. ASSUME NEW w \in Workers, NEW x \in Txns, Match(w, x) \/ WriteRow(w, x)
        PROVE  FailedPushFailsItsPayment'
    BY <2>2, <2>8 DEF Match, WriteRow
  <2>9. CASE UNCHANGED vars
    BY <2>2, <2>9 DEF vars
  <2> QED
    BY <2>3, <2>4, <2>5, <2>6, <2>7, <2>8, <2>9 DEF Next, Carries
<1> QED
  BY <1>1, <1>2, MoneyAlways, PTL DEF Spec
=============================================================================
